----------------------------- MODULE EipAdapter -----------------------------
(***************************************************************************)
(* The TCP server of protocol/eip_adapter.py with the session pool of      *)
(* protocol/session_manager.py.                                            *)
(*                                                                         *)
(* Every TCP socket is served by one asyncio task running _handle_client.  *)
(* Tasks interleave only where the code awaits: in reader.read, in         *)
(* dispatch_async (a Multiple_Service_Packet yields between its            *)
(* sub-requests), in writer.drain and, for a rejected socket, in           *)
(* writer.wait_closed.  What a task does between two awaits is one action. *)
(* The session pool is shared by all the tasks; the list of handles and    *)
(* the current handle are local to each.                                   *)
(***************************************************************************)
EXTENDS Integers, FiniteSets

CONSTANTS Socket,          \* TCP peers; a peer may connect again after a close
          MaxConnections,  \* max_connections
          MaxSessions,     \* max_sessions_per_connection
          MaxHandle        \* bound of this model on the handles ever allocated

ASSUME SocketAssumption == IsFiniteSet(Socket)
ASSUME CapAssumption ==
    /\ MaxConnections \in Nat
    /\ MaxSessions \in Nat
    /\ MaxHandle \in Nat

VARIABLES pc,          \* where the task of each socket is suspended
          peer,        \* "live", or "hung": neither sends nor reads any more
          active,      \* _active_connections
          sessions,    \* keys of SessionManager._sessions
          nextHandle,  \* SessionManager._next_handle
          handles,     \* session_handles of each task
          current,     \* session_handle of each task
          request      \* handle of the frame whose dispatch is suspended

vars == <<pc, peer, active, sessions, nextHandle, handles, current, request>>

NoHandle == 0
Handle == 1 .. MaxHandle

PcState == {"none", "rejecting", "reading", "dispatching", "draining"}
Serving == {"reading", "dispatching", "draining"}

TypeOK ==
    /\ pc \in [Socket -> PcState]
    /\ peer \in [Socket -> {"live", "hung"}]
    /\ active \in Int
    /\ nextHandle \in 0 .. MaxHandle
    /\ sessions \subseteq 1 .. nextHandle
    /\ handles \in [Socket -> SUBSET (1 .. nextHandle)]
    /\ current \in [Socket -> 0 .. nextHandle]
    /\ request \in [Socket -> 0 .. nextHandle]

Init ==
    /\ pc = [s \in Socket |-> "none"]
    /\ peer = [s \in Socket |-> "live"]
    /\ active = 0
    /\ sessions = {}
    /\ nextHandle = 0
    /\ handles = [s \in Socket |-> {}]
    /\ current = [s \in Socket |-> NoHandle]
    /\ request = [s \in Socket |-> NoHandle]

(***************************************************************************)
(* Accepting, or refusing at the cap.                                      *)
(***************************************************************************)
Accept(s) ==
    /\ pc[s] = "none"
    /\ active < MaxConnections
    /\ pc' = [pc EXCEPT ![s] = "reading"]
    /\ peer' = [peer EXCEPT ![s] = "live"]
    /\ active' = active + 1
    /\ UNCHANGED <<sessions, nextHandle, handles, current, request>>

Reject(s) ==
    /\ pc[s] = "none"
    /\ active >= MaxConnections
    /\ pc' = [pc EXCEPT ![s] = "rejecting"]
    /\ peer' = [peer EXCEPT ![s] = "live"]
    /\ UNCHANGED <<active, sessions, nextHandle, handles, current, request>>

\* Mutant of RejectDone: wait_closed without wait_for.
RejectAcknowledged(s) ==
    /\ pc[s] = "rejecting"
    /\ peer[s] = "live"
    /\ pc' = [pc EXCEPT ![s] = "none"]
    /\ UNCHANGED <<peer, active, sessions, nextHandle, handles, current, request>>

\* wait_closed returns when the peer acknowledges the FIN, or is cut off by
\* wait_for after five seconds: no condition on the peer.
RejectDone(s) ==
    /\ pc[s] = "rejecting"
    /\ pc' = [pc EXCEPT ![s] = "none"]
    /\ UNCHANGED <<peer, active, sessions, nextHandle, handles, current, request>>

(***************************************************************************)
(* One frame.  A reply is written and drained: drain returns at once while *)
(* the transport's buffer is below its limit, and suspends the task        *)
(* otherwise.                                                              *)
(***************************************************************************)
Reply(s) == \E next \in {"reading", "draining"} : pc' = [pc EXCEPT ![s] = next]

\* The task is back at reader.read and the peer has sent a frame.
HasFrame(s) == pc[s] = "reading" /\ peer[s] = "live"

\* Mutant of UnderSessionCap: off by one.
UpToSessionCap(s) == Cardinality(handles[s]) <= MaxSessions

UnderSessionCap(s) == Cardinality(handles[s]) < MaxSessions

\* Mutant of NewHandle: the counter is read before it is incremented.
StaleHandle == nextHandle

\* SessionManager.register
NewHandle == nextHandle + 1

Register(s) ==
    /\ HasFrame(s)
    /\ UnderSessionCap(s)
    /\ nextHandle < MaxHandle
    /\ nextHandle' = nextHandle + 1
    /\ sessions' = sessions \cup {NewHandle}
    /\ handles' = [handles EXCEPT ![s] = @ \cup {NewHandle}]
    /\ current' = [current EXCEPT ![s] = NewHandle]
    /\ Reply(s)
    /\ UNCHANGED <<peer, active, request>>

\* Mutant of OnThisSocket: the pool is asked, not the socket's own list.
InThePool(s, h) == h \in sessions

\* The guard of an UnregisterSession frame.
OnThisSocket(s, h) == h \in handles[s]

\* Mutant of CurrentAfter: the current handle survives its session.
KeepCurrent(s, h) == current[s]

\* session_handle once h is unregistered.
CurrentAfter(s, h) == IF h = current[s] THEN NoHandle ELSE current[s]

\* UnregisterSession of a handle of this socket: no reply, next frame.
Unregister(s, h) ==
    /\ HasFrame(s)
    /\ OnThisSocket(s, h)
    /\ sessions' = sessions \ {h}
    /\ handles' = [handles EXCEPT ![s] = @ \ {h}]
    /\ current' = [current EXCEPT ![s] = CurrentAfter(s, h)]
    /\ UNCHANGED <<pc, peer, active, nextHandle, request>>

\* _session_belongs_to_socket
Belongs(s, h) == h # NoHandle /\ h \in handles[s] /\ h \in sessions

\* SendRRData or SendUnitData whose dispatch runs to its end without a yield,
\* or suspends (Multiple_Service_Packet).
SendData(s, h) ==
    /\ HasFrame(s)
    /\ Belongs(s, h)
    /\ \/ /\ Reply(s)
          /\ UNCHANGED request
       \/ /\ pc' = [pc EXCEPT ![s] = "dispatching"]
          /\ request' = [request EXCEPT ![s] = h]
    /\ UNCHANGED <<peer, active, sessions, nextHandle, handles, current>>

DispatchDone(s) ==
    /\ pc[s] = "dispatching"
    /\ request' = [request EXCEPT ![s] = NoHandle]
    /\ Reply(s)
    /\ UNCHANGED <<peer, active, sessions, nextHandle, handles, current>>

\* Every frame that is answered without a change of state: the session cap,
\* a handle of another socket, an unknown handle, a dispatch that raises,
\* ListIdentity, ListServices and the commands that are not supported.
AnswerOnly(s) ==
    /\ HasFrame(s)
    /\ Reply(s)
    /\ UNCHANGED <<peer, active, sessions, nextHandle, handles, current, request>>

Drained(s) ==
    /\ pc[s] = "draining"
    /\ peer[s] = "live"
    /\ pc' = [pc EXCEPT ![s] = "reading"]
    /\ UNCHANGED <<peer, active, sessions, nextHandle, handles, current, request>>

(***************************************************************************)
(* The end of a task.  The finally block has no await: it releases every   *)
(* handle of the socket in one step.                                       *)
(***************************************************************************)

\* Mutant of OpenedHere: "assumed a single active handle per connection".
OnlyCurrent(s) == {current[s]}

\* The handles the finally block unregisters.
OpenedHere(s) == handles[s] \cup {current[s]}

\* Mutant of SlotsAfterClose: the slot is not given back.
SlotKept == active

SlotsAfterClose == active - 1

Finally(s) ==
    /\ pc' = [pc EXCEPT ![s] = "none"]
    /\ sessions' = sessions \ OpenedHere(s)
    /\ handles' = [handles EXCEPT ![s] = {}]
    /\ current' = [current EXCEPT ![s] = NoHandle]
    /\ active' = SlotsAfterClose
    /\ UNCHANGED <<peer, nextHandle, request>>

\* End of stream, a header that does not parse, the frame-assembly budget, or
\* a connection error raised by read or drain.
Disconnect(s) ==
    /\ pc[s] \in {"reading", "draining"}
    /\ peer[s] = "live"
    /\ Finally(s)

\* Mutant of IdleTimeout: only a socket with a session has a read timeout.
IdleTimeoutInSession(s) ==
    /\ pc[s] = "reading"
    /\ handles[s] # {}
    /\ Finally(s)

\* reader.read timed out: the peer sent nothing for idle_timeout.
IdleTimeout(s) ==
    /\ pc[s] = "reading"
    /\ Finally(s)

\* The application behind the socket stops for good; its host keeps the
\* TCP connection up.
Hang(s) ==
    /\ pc[s] \in Serving \cup {"rejecting"}
    /\ peer[s] = "live"
    /\ peer' = [peer EXCEPT ![s] = "hung"]
    /\ UNCHANGED <<pc, active, sessions, nextHandle, handles, current, request>>

Next == \E s \in Socket :
    \/ Accept(s)
    \/ Reject(s)
    \/ RejectDone(s)
    \/ Register(s)
    \/ \E h \in Handle : Unregister(s, h)
    \/ \E h \in Handle : SendData(s, h)
    \/ DispatchDone(s)
    \/ AnswerOnly(s)
    \/ Drained(s)
    \/ Disconnect(s)
    \/ IdleTimeout(s)
    \/ Hang(s)

(***************************************************************************)
(* The event loop runs every ready task and fires every timer: the         *)
(* bounded wait of a refused socket, a suspended dispatch, a drain whose   *)
(* peer reads, and the idle timer of a peer that sends nothing.            *)
(***************************************************************************)
Fairness == \A s \in Socket :
    /\ WF_vars(RejectDone(s))
    /\ WF_vars(DispatchDone(s))
    /\ WF_vars(Drained(s))
    /\ WF_vars(peer[s] = "hung" /\ IdleTimeout(s))

Spec == Init /\ [][Next]_vars

FairSpec == Spec /\ Fairness

-----------------------------------------------------------------------------
(***************************************************************************)
(* Properties                                                              *)
(***************************************************************************)

\* The counter the cap is enforced on is the number of tasks serving a
\* socket, through every way in which a task starts, is refused and ends.
SlotAccounting ==
    /\ active = Cardinality({s \in Socket : pc[s] \in Serving})
    /\ active <= MaxConnections

\* The shared pool holds exactly the handles on the open sockets' own lists,
\* and no handle is on two lists: no session outlives its socket, and none is
\* torn down by another socket's frame.
SessionsOwned ==
    /\ sessions = UNION {handles[s] : s \in Socket}
    /\ \A s, t \in Socket : s # t => handles[s] \cap handles[t] = {}
    /\ \A s \in Socket : pc[s] \notin Serving => handles[s] = {}

\* The handle a task answers under is none, or a live one of its own socket,
\* whichever of its sessions were unregistered and in whatever order.
CurrentOwned == \A s \in Socket :
    current[s] # NoHandle => current[s] \in handles[s] \cap sessions

\* While a dispatch is suspended the other sockets run: the session it was
\* accepted under is still open, and still its own, when it resumes.
InFlightValid == \A s \in Socket :
    pc[s] = "dispatching" => request[s] \in handles[s] \cap sessions

\* The pool is bounded by the two caps together, over any sequence of
\* connects, registrations, unregistrations and drops.
PoolBounded == Cardinality(sessions) <= MaxConnections * MaxSessions

\* A peer that goes silent while the server waits for its next frame loses
\* its socket, so its slot comes back.
SilentReaderReleased == \A s \in Socket :
    (peer[s] = "hung" /\ pc[s] = "reading") ~> pc[s] = "none"

\* A refused socket is let go although the peer never acknowledges the close.
RejectedReleased == \A s \in Socket :
    pc[s] = "rejecting" ~> pc[s] = "none"
=============================================================================
