---------------------------- MODULE VirtualDevice ----------------------------
(***************************************************************************)
(* The life of the connections a target serves: ConnectionManagerObject    *)
(* (connections/connection_manager.py), the TCP task's list of the         *)
(* connections it opened (protocol/eip_adapter.py), and VirtualDevice      *)
(* (device/virtual_device.py), which keeps three asyncio tasks for each.   *)
(*                                                                         *)
(* Everything runs on one event loop.  A Forward_Open, a Forward_Close, a  *)
(* datagram, a timer that fires and the finally block of a TCP task run    *)
(* without an await and are one action each; VirtualDevice.close awaits    *)
(* every task it cancels, so it is several.                                *)
(***************************************************************************)
EXTENDS Integers, FiniteSets

CONSTANTS Socket,     \* TCP peers
          Host,       \* IP addresses
          HostOf,     \* the address each TCP peer connects from
          Triad,      \* connection serial, originator vendor and serial
          MaxConn,    \* ConnectionManagerObject.max_connections
          MaxId,      \* bound of this model on ot ids, in the order allocated
          TearsDown   \* whether _on_connection_removed is VirtualDevice's own;
                      \* FALSE for SafetyDevice, whose method of the same name
                      \* takes its place (safety_device.py:582-595)

ASSUME HostAssumption == HostOf \in [Socket -> Host]
ASSUME BoundAssumption == MaxConn \in Nat /\ MaxId \in Nat /\ TearsDown \in BOOLEAN

VARIABLES open,    \* sockets whose TCP task runs
          conn,    \* ConnectionManagerObject._connections
          nextId,  \* the last ot id allocated
          owned,   \* owned_connections of each TCP task
          task,    \* the tasks ever started, by kind and ot id
          store,   \* keys of _production_tasks, _watchdog_tasks, _first_udp_timers
          phase,   \* how far close() has come
          doomed   \* the tasks close() still has to cancel

vars == <<open, conn, nextId, owned, task, store, phase, doomed>>

Id == 1 .. MaxId
TaskKind == {"production", "watchdog", "first_udp"}
TaskState == {"none", "armed", "over"}

(***************************************************************************)
(* "io": a Class 0/1 open by SendRRData, whose reply hook runs; "routed":  *)
(* the same wrapped in Unconnected_Send or sent on a connection, whose     *)
(* reply hook does not; "class3": explicit messaging, no assemblies;       *)
(* "half": an open whose config data made a user's callback raise after    *)
(* the connection was entered and before its tasks were started.           *)
(***************************************************************************)
Kind == {"io", "routed", "class3", "half"}
NoHost == "no_host"
NoTriad == "no_triad"

\* The fields of IoConnection the model keeps.
Connection == [triad : Triad \cup {NoTriad},
               kind : Kind \cup {"none"},
               endpoint : Host \cup {NoHost},  \* host of remote_endpoint
               origin : Host \cup {NoHost},    \* originator_host
               first : BOOLEAN,                \* first_received
               quiet : BOOLEAN]                \* last_received_utc is older than
                                               \* the connection timeout
\* An ot id that is not in the table.
NoConn == [triad |-> NoTriad, kind |-> "none", endpoint |-> NoHost,
           origin |-> NoHost, first |-> FALSE, quiet |-> FALSE]

LiveId == {i \in Id : conn[i].kind # "none"}

TypeOK ==
    /\ open \subseteq Socket
    /\ conn \in [Id -> Connection]
    /\ nextId \in 0 .. MaxId
    /\ owned \in [Socket -> SUBSET Id]
    /\ task \in [TaskKind -> [Id -> TaskState]]
    /\ store \in [TaskKind -> SUBSET Id]
    /\ phase \in {"running", "closing", "closed"}
    /\ doomed \subseteq TaskKind \X Id

Init ==
    /\ open = {}
    /\ conn = [i \in Id |-> NoConn]
    /\ nextId = 0
    /\ owned = [s \in Socket |-> {}]
    /\ task = [k \in TaskKind |-> [i \in Id |-> "none"]]
    /\ store = [k \in TaskKind |-> {}]
    /\ phase = "running"
    /\ doomed = {}

(***************************************************************************)
(* Removal: remove_connection and its callback, for a set of connections.  *)
(***************************************************************************)
\* Mutant of Drops: only the entry of the production task is dropped.
DropsProduction(gone) ==
    store' = [k \in TaskKind |-> IF k = "production" THEN store[k] \ gone ELSE store[k]]

Drops(gone) == store' = [k \in TaskKind |-> store[k] \ gone]

Cancels(gone) ==
    task' = [k \in TaskKind |-> [i \in Id |->
                IF i \in gone /\ task[k][i] = "armed" THEN "over" ELSE task[k][i]]]

\* A task that removes its own connection ends as well; self names it.
Ends(self) ==
    task' = [k \in TaskKind |-> [i \in Id |->
                IF <<k, i>> \in self THEN "over" ELSE task[k][i]]]

Remove(gone, self) ==
    /\ conn' = [i \in Id |-> IF i \in gone THEN NoConn ELSE conn[i]]
    /\ IF TearsDown
       THEN Drops(gone) /\ Cancels(gone)
       ELSE UNCHANGED store /\ Ends(self)

(***************************************************************************)
(* TCP peers.                                                              *)
(***************************************************************************)
Connect(s) ==
    /\ s \notin open
    /\ phase # "closed"
    /\ open' = open \cup {s}
    /\ owned' = [owned EXCEPT ![s] = {}]
    /\ UNCHANGED <<conn, nextId, task, store, phase, doomed>>

\* What the finally block of the TCP task removes.
Reaped(s) == owned[s] \cap LiveId

Drop(s) ==
    /\ s \in open
    /\ open' = open \ {s}
    /\ owned' = [owned EXCEPT ![s] = {}]
    /\ Remove(Reaped(s), {})
    /\ UNCHANGED <<nextId, phase, doomed>>

(***************************************************************************)
(* Forward_Open.  A request that is refused changes nothing: the guards    *)
(* are the duplicate triad (0x0100) and the connection limit (0x0113).     *)
(***************************************************************************)
Consumes(k) == k \in {"io", "routed"}

\* The tasks _on_connection_established starts.
TasksOf(k) == CASE Consumes(k)   -> TaskKind
                [] k = "class3"  -> {"watchdog"}
                [] k = "half"    -> {}

Duplicate(t) == \E i \in LiveId : conn[i].triad = t

\* Mutant of Full: off by one.
OverFull == Cardinality(LiveId) > MaxConn

Full == Cardinality(LiveId) >= MaxConn

\* _on_adapter_connection_opened gives the peer's address to the first
\* connection, in the order of the table, that has no endpoint yet.
PinFirst(table, h) ==
    LET unpinned == {i \in Id : table[i].kind # "none" /\ table[i].endpoint = NoHost}
        i == CHOOSE i \in unpinned : \A j \in unpinned : i <= j
    IN  [table EXCEPT ![i].endpoint = h, ![i].origin = h]

\* Mutant of Owner: an open that fails halfway is not recorded.
OwnerOfComplete(s, k) == IF k = "half" THEN owned[s] ELSE owned[s] \cup {nextId + 1}

\* Mutant of Owner: the id before the one allocated.
OwnerOfPrevious(s, k) == owned[s] \cup {nextId}

Owner(s, k) == owned[s] \cup {nextId + 1}

ForwardOpen(s, t, k) ==
    LET id == nextId + 1
        new == [triad |-> t, kind |-> k, endpoint |-> NoHost, origin |-> NoHost,
                first |-> FALSE, quiet |-> FALSE]
        entered == [conn EXCEPT ![id] = new]
    IN  /\ s \in open
        /\ ~Duplicate(t)
        /\ ~Full
        /\ nextId < MaxId
        /\ nextId' = id
        /\ conn' = IF k = "io" THEN PinFirst(entered, HostOf[s]) ELSE entered
        /\ owned' = [owned EXCEPT ![s] = Owner(s, k)]
        /\ task' = [x \in TaskKind |->
                      IF x \in TasksOf(k) THEN [task[x] EXCEPT ![id] = "armed"] ELSE task[x]]
        /\ store' = [x \in TaskKind |->
                      IF x \in TasksOf(k) THEN store[x] \cup {id} ELSE store[x]]
        /\ UNCHANGED <<open, phase, doomed>>

\* Forward_Close looks the triad up among all connections: the caller need
\* not be the socket that opened it, and only the caller's list is updated.
ForwardClose(s, t) ==
    /\ s \in open
    /\ \E i \in LiveId :
          /\ conn[i].triad = t
          /\ owned' = [owned EXCEPT ![s] = @ \ {i}]
          /\ Remove({i}, {})
    /\ UNCHANGED <<open, nextId, phase, doomed>>

(***************************************************************************)
(* UDP.  A sender keeps its port or has moved to another one: only a new   *)
(* port, or a first datagram, changes remote_endpoint.                     *)
(***************************************************************************)
\* Mutant of FromOriginator: the sender is not looked at.
FromAnyone(i, h) == i \in LiveId

FromOriginator(i, h) == conn[i].origin # NoHost => h = conn[i].origin

\* The first datagram cancels the timer that waits for it.
FirstUdpOver(i) ==
    IF conn[i].first
    THEN UNCHANGED <<store, task>>
    ELSE /\ store' = [store EXCEPT !["first_udp"] = @ \ {i}]
         /\ task' = IF i \in store["first_udp"]
                    THEN [task EXCEPT !["first_udp"][i] = "over"]
                    ELSE task

Datagram(i, h, moved) ==
    /\ phase # "closed"
    /\ i \in LiveId
    /\ FromOriginator(i, h)
    /\ conn' = [conn EXCEPT
                  ![i].endpoint = IF @ = NoHost \/ moved THEN h ELSE @,
                  ![i].first = TRUE,
                  ![i].quiet = FALSE]
    /\ FirstUdpOver(i)
    /\ UNCHANGED <<open, nextId, owned, phase, doomed>>

\* The connection timeout goes by without a datagram.
GoesQuiet(i) ==
    /\ i \in LiveId
    /\ conn[i].first
    /\ ~conn[i].quiet
    /\ conn' = [conn EXCEPT ![i].quiet = TRUE]
    /\ UNCHANGED <<open, nextId, owned, task, store, phase, doomed>>

(***************************************************************************)
(* Timers.                                                                 *)
(***************************************************************************)
\* Mutant of Expired: the watchdog does not look at last_received_utc.
EverHeard(i) == conn[i].first

Expired(i) == conn[i].first /\ conn[i].quiet

\* Mutant of Watches: the loop ends, instead of going on, at a wake-up before
\* the first datagram.
WatchesOnceHeard(i) == i \in LiveId /\ conn[i].first

Watches(i) == i \in LiveId

WatchdogWake(i) ==
    /\ task["watchdog"][i] = "armed"
    /\ IF i \in LiveId /\ Expired(i)
       THEN Remove({i}, {<<"watchdog", i>>})
       ELSE /\ ~Watches(i)
            /\ task' = [task EXCEPT !["watchdog"][i] = "over"]
            /\ UNCHANGED <<conn, store>>
    /\ UNCHANGED <<open, nextId, owned, phase, doomed>>

FirstUdpTimeout(i) ==
    /\ task["first_udp"][i] = "armed"
    /\ IF i \in LiveId /\ ~conn[i].first
       THEN Remove({i}, {<<"first_udp", i>>})
       ELSE /\ task' = [task EXCEPT !["first_udp"][i] = "over"]
            /\ UNCHANGED <<conn, store>>
    /\ UNCHANGED <<open, nextId, owned, phase, doomed>>

\* A production task wakes up every T->O RPI; it ends once its connection is
\* closed.
ProductionWake(i) ==
    /\ task["production"][i] = "armed"
    /\ task' = IF i \in LiveId THEN task ELSE [task EXCEPT !["production"][i] = "over"]
    /\ UNCHANGED <<open, conn, nextId, owned, store, phase, doomed>>

(***************************************************************************)
(* VirtualDevice.close: a snapshot of the tasks is cancelled one by one,   *)
(* with an await for each; then every connection is removed and the UDP    *)
(* socket and the listener are closed without another suspension.  Sockets *)
(* that are already served are not closed.                                 *)
(***************************************************************************)
CloseBegin ==
    /\ phase = "running"
    /\ phase' = "closing"
    /\ doomed' = {x \in TaskKind \X Id : x[2] \in store[x[1]]}
    /\ UNCHANGED <<open, conn, nextId, owned, task, store>>

\* The snapshot lists the production tasks, then the watchdogs, then the
\* first-UDP timers, each in the order of the connections.
Turn == [production |-> 1, watchdog |-> 2, first_udp |-> 3]

NextDoomed(x) == \A y \in doomed :
    \/ Turn[x[1]] < Turn[y[1]]
    \/ x[1] = y[1] /\ x[2] <= y[2]

CloseCancels ==
    /\ \E x \in doomed :
          /\ NextDoomed(x)
          /\ doomed' = doomed \ {x}
          /\ task' = [task EXCEPT ![x[1]][x[2]] = "over"]
    /\ UNCHANGED <<open, conn, nextId, owned, store, phase>>

CloseRemoves ==
    /\ phase = "closing"
    /\ doomed = {}
    /\ phase' = "closed"
    /\ Remove(LiveId, {})
    /\ UNCHANGED <<open, nextId, owned, doomed>>

Next ==
    \/ \E s \in Socket :
        \/ Connect(s)
        \/ Drop(s)
        \/ \E t \in Triad, k \in Kind : ForwardOpen(s, t, k)
        \/ \E t \in Triad : ForwardClose(s, t)
    \/ \E i \in Id :
        \/ \E h \in Host, moved \in BOOLEAN : Datagram(i, h, moved)
        \/ GoesQuiet(i)
        \/ WatchdogWake(i)
        \/ FirstUdpTimeout(i)
        \/ ProductionWake(i)
    \/ CloseBegin
    \/ CloseCancels
    \/ CloseRemoves

Spec == Init /\ [][Next]_vars

\* The event loop fires every timer that is due and resumes close().
Fairness ==
    /\ \A i \in Id : WF_vars(WatchdogWake(i)) /\ WF_vars(FirstUdpTimeout(i))
    /\ WF_vars(CloseCancels)
    /\ WF_vars(CloseRemoves)

FairSpec == Spec /\ Fairness

-----------------------------------------------------------------------------
(***************************************************************************)
(* Properties                                                              *)
(***************************************************************************)

\* Every connection is on the list of one socket that is still served, so a
\* peer that drops without a Forward_Close leaves nothing behind; a
\* Forward_Close by another peer, a timeout, and an open that failed halfway
\* do not break this (test_tcp_drop_reaps_io_connections).
LiveOwned == \A i \in LiveId :
    /\ \E s \in open : i \in owned[s]
    /\ \A s, r \in Socket : i \in owned[s] /\ i \in owned[r] => s = r

\* Only a connection in the table has entries in the three task dictionaries
\* or a task that still runs (virtual_device.py:62-65: "every removal ... must
\* also tear down the production/watchdog tasks keyed on ot_connection_id, or
\* a long-running device leaks one entry per connection cycle").
TasksMatchTable == \A k \in TaskKind :
    /\ store[k] \subseteq LiveId
    /\ \A i \in Id : task[k][i] = "armed" => i \in store[k]

\* Unless the device is closing, every connection that expects datagrams has
\* a timer that will end it if none comes: the first-UDP timer before the
\* first datagram, the watchdog after it, through every order of datagrams,
\* wake-ups and closes.
Supervised == \A i \in LiveId :
    (phase # "closing" /\ Consumes(conn[i].kind)) =>
        /\ task["watchdog"][i] = "armed"
        /\ ~conn[i].first => task["first_udp"][i] = "armed"

\* A stream whose originator is known goes to the originator's host, however
\* its port drifts and whoever else sends to the connection.
PinnedStreamsHome == \A i \in LiveId :
    conn[i].origin # NoHost => conn[i].endpoint = conn[i].origin

\* A connection that receives in time ends only by a Forward_Close of its
\* triad, by the drop of the socket that opened it, or with the device: no
\* timer that was armed earlier takes it down.
HeardNotTimedOut ==
    [][\A i \in LiveId :
        (conn[i].first /\ ~conn[i].quiet /\ i \notin LiveId') =>
            \/ \E s \in Socket : ForwardClose(s, conn[i].triad)
            \/ \E s \in open : i \in owned[s] /\ s \notin open'
            \/ phase' = "closed"]_vars

\* An originator that never sends, or stops sending, does not keep its
\* connection: it is removed, or is heard in time again.
SilentReclaimed == \A i \in Id :
    (i \in LiveId /\ Consumes(conn[i].kind))
        ~> (i \notin LiveId \/ (conn[i].first /\ ~conn[i].quiet))

\* The connections as the originators see them, and what they are promised:
\* one holder for a triad, no more than the limit, and everything a socket
\* holds given back in the step that drops it.
Leases == {l \in Socket \X Triad :
              \E i \in owned[l[1]] \cap LiveId : conn[i].triad = l[2]}

Table == INSTANCE ConnectionTable WITH leases <- Leases

ImplementsTable == Table!Spec

\* "Pin the authenticated originator host from the TCP peer" when its
\* Forward_Open is answered (virtual_device.py:116-117; io_connection.py:60,
\* "Pinned at FwdOpen accept time").
OriginatorPinned == \A i \in LiveId, s \in Socket :
    (conn[i].kind = "io" /\ i \in owned[s]) => conn[i].origin = HostOf[s]
=============================================================================
