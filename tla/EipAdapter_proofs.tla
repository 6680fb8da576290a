-------------------------- MODULE EipAdapter_proofs --------------------------
(***************************************************************************)
(* Proofs about EipAdapter for every set of sockets and every cap.         *)
(***************************************************************************)
EXTENDS EipAdapter, FiniteSetTheorems, TLAPS

(***************************************************************************)
(* Sessions.  SessionsOwned is not inductive alone: the finally block      *)
(* unregisters the current handle besides those on the list, which is      *)
(* harmless only because the current handle is on the list (CurrentOwned). *)
(***************************************************************************)
SessionInv ==
    /\ TypeOK
    /\ SessionsOwned
    /\ CurrentOwned
    /\ InFlightValid

\* No socket is served and no session is open when the server starts.
LEMMA SessionInit == Init => SessionInv
  <1> SUFFICES ASSUME Init PROVE SessionInv
    OBVIOUS
  <1>1. TypeOK
    BY CapAssumption DEF Init, TypeOK, NoHandle, PcState
  <1>2. SessionsOwned /\ CurrentOwned /\ InFlightValid
    BY DEF Init, SessionsOwned, CurrentOwned, InFlightValid, NoHandle
  <1> QED
    BY <1>1, <1>2 DEF SessionInv

\* A step that touches only where tasks are suspended, for a task that does
\* not start or end a dispatch.
LEMMA QuietStep ==
  ASSUME SessionInv, NEW s \in Socket, NEW at \in Serving \cup {"none", "rejecting"},
         pc' = [pc EXCEPT ![s] = at], at # "dispatching",
         at \notin Serving => handles[s] = {},
         peer' \in [Socket -> {"live", "hung"}], active' \in Int,
         request' = request \/ request' = [request EXCEPT ![s] = NoHandle],
         UNCHANGED <<sessions, nextHandle, handles, current>>
  PROVE  SessionInv'
  <1> USE DEF SessionInv, NoHandle
  <1>1. TypeOK'
    <2>1. pc' \in [Socket -> PcState]
      BY DEF TypeOK, PcState, Serving
    <2>2. request' \in [Socket -> 0 .. nextHandle]
      BY DEF TypeOK
    <2> QED
      BY <2>1, <2>2 DEF TypeOK
  <1>2. SessionsOwned'
    BY DEF SessionsOwned, TypeOK, Serving
  <1>3. CurrentOwned'
    BY DEF CurrentOwned
  <1>4. InFlightValid'
    BY DEF InFlightValid, TypeOK, Serving
  <1> QED
    BY <1>1, <1>2, <1>3, <1>4

\* A new handle is larger than every handle in use, so it is on no list.
LEMMA RegisterStep ==
  ASSUME SessionInv, NEW s \in Socket, Register(s)
  PROVE  SessionInv'
  <1> USE DEF SessionInv, NoHandle, NewHandle
  <1>1. TypeOK'
    BY CapAssumption DEF Register, Reply, TypeOK, PcState
  <1>2. SessionsOwned'
    <2>1. \A r \in Socket : nextHandle + 1 \notin handles[r]
      BY DEF TypeOK
    <2>2. sessions' = UNION {handles'[r] : r \in Socket}
      BY DEF Register, SessionsOwned, TypeOK
    <2>3. \A r, t \in Socket : r # t => handles'[r] \cap handles'[t] = {}
      BY <2>1 DEF Register, SessionsOwned, TypeOK
    <2>4. \A r \in Socket : pc'[r] \notin Serving => handles'[r] = {}
      BY DEF Register, Reply, HasFrame, SessionsOwned, TypeOK, Serving
    <2> QED
      BY <2>2, <2>3, <2>4 DEF SessionsOwned
  <1>3. CurrentOwned'
    BY DEF Register, CurrentOwned, TypeOK
  <1>4. InFlightValid'
    BY DEF Register, Reply, InFlightValid, TypeOK
  <1> QED
    BY <1>1, <1>2, <1>3, <1>4

\* Only a handle of this socket leaves the pool, and the other lists do not
\* hold it: no dispatch of another socket loses its session.
LEMMA UnregisterStep ==
  ASSUME SessionInv, NEW s \in Socket, NEW h \in Handle, Unregister(s, h)
  PROVE  SessionInv'
  <1> USE DEF SessionInv, NoHandle, OnThisSocket
  <1>1. TypeOK'
    BY DEF Unregister, CurrentAfter, TypeOK
  <1>2. \A r \in Socket : r # s => h \notin handles[r]
    BY DEF Unregister, SessionsOwned
  <1>3. SessionsOwned'
    <2>1. sessions' = UNION {handles'[r] : r \in Socket}
      BY <1>2 DEF Unregister, SessionsOwned, TypeOK
    <2>2. \A r, t \in Socket : r # t => handles'[r] \cap handles'[t] = {}
      BY DEF Unregister, SessionsOwned, TypeOK
    <2>3. \A r \in Socket : pc'[r] \notin Serving => handles'[r] = {}
      BY DEF Unregister, SessionsOwned, TypeOK
    <2> QED
      BY <2>1, <2>2, <2>3 DEF SessionsOwned
  <1>4. CurrentOwned'
    BY <1>2 DEF Unregister, CurrentAfter, CurrentOwned, TypeOK
  <1>5. InFlightValid'
    BY <1>2 DEF Unregister, HasFrame, InFlightValid, TypeOK
  <1> QED
    BY <1>1, <1>3, <1>4, <1>5

LEMMA SendDataStep ==
  ASSUME SessionInv, NEW s \in Socket, NEW h \in Handle, SendData(s, h)
  PROVE  SessionInv'
  <1> USE DEF SessionInv, NoHandle
  <1>1. CASE Reply(s) /\ UNCHANGED request
    <2>1. PICK at \in {"reading", "draining"} : pc' = [pc EXCEPT ![s] = at]
      BY <1>1 DEF Reply
    <2> QED
      BY <1>1, <2>1, QuietStep DEF SendData, Serving, TypeOK
  <1>2. CASE /\ pc' = [pc EXCEPT ![s] = "dispatching"]
             /\ request' = [request EXCEPT ![s] = h]
    <2>1. TypeOK'
      BY <1>2 DEF SendData, Belongs, TypeOK, PcState
    <2>2. SessionsOwned'
      BY <1>2 DEF SendData, HasFrame, SessionsOwned, TypeOK, Serving
    <2>3. CurrentOwned'
      BY DEF SendData, CurrentOwned
    <2>4. InFlightValid'
      BY <1>2 DEF SendData, Belongs, InFlightValid, TypeOK
    <2> QED
      BY <2>1, <2>2, <2>3, <2>4
  <1> QED
    BY <1>1, <1>2 DEF SendData

\* Exactly the handles of the socket leave the pool.
LEMMA FinallyStep ==
  ASSUME SessionInv, NEW s \in Socket, Finally(s)
  PROVE  SessionInv'
  <1> USE DEF SessionInv, NoHandle
  <1>1. TypeOK'
    <2>1. pc' \in [Socket -> PcState] /\ active' \in Int
      BY DEF Finally, SlotsAfterClose, TypeOK, PcState
    <2>2. sessions' \subseteq 1 .. nextHandle
      BY DEF Finally, TypeOK
    <2>3. handles' \in [Socket -> SUBSET (1 .. nextHandle)]
      BY DEF Finally, TypeOK
    <2>4. current' \in [Socket -> 0 .. nextHandle]
      BY DEF Finally, TypeOK
    <2> QED
      BY <2>1, <2>2, <2>3, <2>4 DEF Finally, TypeOK
  <1>2. sessions' = sessions \ handles[s]
    BY DEF Finally, OpenedHere, CurrentOwned, TypeOK
  <1>3. SessionsOwned'
    <2>1. sessions' = UNION {handles'[r] : r \in Socket}
      BY <1>2 DEF Finally, SessionsOwned, TypeOK
    <2>2. \A r, t \in Socket : r # t => handles'[r] \cap handles'[t] = {}
      BY DEF Finally, SessionsOwned, TypeOK
    <2>3. \A r \in Socket : pc'[r] \notin Serving => handles'[r] = {}
      BY DEF Finally, SessionsOwned, TypeOK
    <2> QED
      BY <2>1, <2>2, <2>3 DEF SessionsOwned
  <1>4. CurrentOwned'
    BY <1>2 DEF Finally, CurrentOwned, SessionsOwned, TypeOK
  <1>5. InFlightValid'
    BY <1>2 DEF Finally, InFlightValid, SessionsOwned, TypeOK
  <1> QED
    BY <1>1, <1>3, <1>4, <1>5

LEMMA SessionNext == SessionInv /\ [Next]_vars => SessionInv'
  <1> SUFFICES ASSUME SessionInv, [Next]_vars PROVE SessionInv'
    OBVIOUS
  <1> USE DEF NoHandle
  <1>1. ASSUME NEW s \in Socket, Accept(s) PROVE SessionInv'
    <2>1. /\ peer' \in [Socket -> {"live", "hung"}]
          /\ active' \in Int
          /\ pc' = [pc EXCEPT ![s] = "reading"]
          /\ UNCHANGED <<request, sessions, nextHandle, handles, current>>
      BY <1>1 DEF Accept, SessionInv, TypeOK
    <2> QED
      BY <2>1, QuietStep DEF Serving
  <1>2. ASSUME NEW s \in Socket, Reject(s) PROVE SessionInv'
    BY <1>2, QuietStep DEF Reject, Serving, SessionInv, SessionsOwned, TypeOK
  <1>3. ASSUME NEW s \in Socket, RejectDone(s) PROVE SessionInv'
    BY <1>3, QuietStep DEF RejectDone, Serving, SessionInv, SessionsOwned, TypeOK
  <1>4. ASSUME NEW s \in Socket, Register(s) PROVE SessionInv'
    BY <1>4, RegisterStep
  <1>5. ASSUME NEW s \in Socket, NEW h \in Handle, Unregister(s, h) PROVE SessionInv'
    BY <1>5, UnregisterStep
  <1>6. ASSUME NEW s \in Socket, NEW h \in Handle, SendData(s, h) PROVE SessionInv'
    BY <1>6, SendDataStep
  <1>7. ASSUME NEW s \in Socket, DispatchDone(s) PROVE SessionInv'
    BY <1>7, QuietStep DEF DispatchDone, Reply, Serving, SessionInv, TypeOK
  <1>8. ASSUME NEW s \in Socket, AnswerOnly(s) PROVE SessionInv'
    BY <1>8, QuietStep DEF AnswerOnly, Reply, Serving, SessionInv, TypeOK
  <1>9. ASSUME NEW s \in Socket, Drained(s) PROVE SessionInv'
    BY <1>9, QuietStep DEF Drained, Serving, SessionInv, TypeOK
  <1>10. ASSUME NEW s \in Socket, Disconnect(s) PROVE SessionInv'
    BY <1>10, FinallyStep DEF Disconnect
  <1>11. ASSUME NEW s \in Socket, IdleTimeout(s) PROVE SessionInv'
    BY <1>11, FinallyStep DEF IdleTimeout
  <1>12. ASSUME NEW s \in Socket, Hang(s) PROVE SessionInv'
    BY <1>12 DEF Hang, SessionInv, TypeOK, SessionsOwned, CurrentOwned, InFlightValid
  <1>13. CASE UNCHANGED vars
    BY <1>13 DEF vars, SessionInv, TypeOK, SessionsOwned, CurrentOwned, InFlightValid
  <1> QED
    BY <1>1, <1>2, <1>3, <1>4, <1>5, <1>6, <1>7, <1>8, <1>9, <1>10, <1>11, <1>12, <1>13
       DEF Next

\* The session invariant holds in every behaviour.
THEOREM SessionInvariance == Spec => []SessionInv
  <1> QED
    BY SessionInit, SessionNext, PTL DEF Spec

\* Every variable keeps its type.
THEOREM TypeCorrect == Spec => []TypeOK
  <1>1. SessionInv => TypeOK
    BY DEF SessionInv
  <1> QED
    BY <1>1, SessionInvariance, PTL

\* The pool holds exactly what the open sockets registered, each handle on
\* one list.
THEOREM OwnershipCorrect == Spec => []SessionsOwned
  <1>1. SessionInv => SessionsOwned
    BY DEF SessionInv
  <1> QED
    BY <1>1, SessionInvariance, PTL

\* The handle a task answers under is a live one of its own socket.
THEOREM CurrentCorrect == Spec => []CurrentOwned
  <1>1. SessionInv => CurrentOwned
    BY DEF SessionInv
  <1> QED
    BY <1>1, SessionInvariance, PTL

\* No session is closed under a dispatch that is suspended.
THEOREM InFlightCorrect == Spec => []InFlightValid
  <1>1. SessionInv => InFlightValid
    BY DEF SessionInv
  <1> QED
    BY <1>1, SessionInvariance, PTL

-----------------------------------------------------------------------------
(***************************************************************************)
(* The connection cap.  The counter is exact because every task that was   *)
(* admitted gives its slot back once, and a refused one never took any.    *)
(***************************************************************************)
ServingSockets == {s \in Socket : pc[s] \in Serving}

SlotInv ==
    /\ pc \in [Socket -> PcState]
    /\ active = Cardinality(ServingSockets)
    /\ active <= MaxConnections

LEMMA ServingFinite ==
    IsFiniteSet(ServingSockets) /\ Cardinality(ServingSockets) \in Nat
  <1>1. ServingSockets \subseteq Socket
    BY DEF ServingSockets
  <1> QED
    BY <1>1, SocketAssumption, FS_Subset, FS_CardinalityType

LEMMA SlotInit == Init => SlotInv
  <1> SUFFICES ASSUME Init PROVE SlotInv
    OBVIOUS
  <1>1. ServingSockets = {}
    BY DEF Init, ServingSockets, Serving
  <1>2. Cardinality(ServingSockets) = 0
    BY <1>1, FS_EmptySet
  <1> QED
    BY <1>2, CapAssumption DEF Init, SlotInv, PcState

\* A task that moves from one served state to another, or between two states
\* in which it is not served, leaves the count alone.
LEMMA SlotSame ==
  ASSUME SlotInv, NEW s \in Socket, NEW at \in PcState,
         pc' = [pc EXCEPT ![s] = at],
         pc[s] \in Serving <=> at \in Serving,
         active' = active
  PROVE  SlotInv'
  <1>1. ServingSockets' = ServingSockets
    BY DEF ServingSockets, SlotInv
  <1> QED
    BY <1>1 DEF SlotInv

\* A task that ends gives back the slot it took.
LEMMA SlotReleased ==
  ASSUME SlotInv, NEW s \in Socket, pc[s] \in Serving, Finally(s)
  PROVE  SlotInv'
  <1>1. ServingSockets' = ServingSockets \ {s}
    BY DEF ServingSockets, SlotInv, Finally, Serving
  <1>2. s \in ServingSockets
    BY DEF ServingSockets
  <1>3. Cardinality(ServingSockets') = Cardinality(ServingSockets) - 1
    BY <1>1, <1>2, ServingFinite, FS_RemoveElement
  <1>4. pc' \in [Socket -> PcState]
    BY DEF SlotInv, Finally, PcState
  <1> QED
    BY <1>3, <1>4, ServingFinite, CapAssumption DEF SlotInv, Finally, SlotsAfterClose

\* A task is admitted only below the cap, and takes one slot.
LEMMA SlotTaken ==
  ASSUME SlotInv, NEW s \in Socket, Accept(s)
  PROVE  SlotInv'
  <1>1. ServingSockets' = ServingSockets \cup {s}
    BY DEF ServingSockets, SlotInv, Accept, Serving
  <1>2. s \notin ServingSockets
    BY DEF ServingSockets, Accept, Serving
  <1>3. Cardinality(ServingSockets') = Cardinality(ServingSockets) + 1
    BY <1>1, <1>2, ServingFinite, FS_AddElement
  <1>4. pc' \in [Socket -> PcState]
    BY DEF SlotInv, Accept, PcState
  <1> QED
    BY <1>3, <1>4, ServingFinite, CapAssumption DEF SlotInv, Accept

LEMMA SlotNext == SlotInv /\ [Next]_vars => SlotInv'
  <1> SUFFICES ASSUME SlotInv, [Next]_vars PROVE SlotInv'
    OBVIOUS
  <1> USE DEF Serving, PcState
  <1>1. ASSUME NEW s \in Socket, Accept(s) PROVE SlotInv'
    BY <1>1, SlotTaken
  <1>2. ASSUME NEW s \in Socket, Reject(s) PROVE SlotInv'
    BY <1>2, SlotSame DEF Reject
  <1>3. ASSUME NEW s \in Socket, RejectDone(s) PROVE SlotInv'
    BY <1>3, SlotSame DEF RejectDone
  <1>4. ASSUME NEW s \in Socket, Register(s) PROVE SlotInv'
    BY <1>4, SlotSame DEF Register, Reply, HasFrame
  <1>5. ASSUME NEW s \in Socket, NEW h \in Handle, Unregister(s, h) PROVE SlotInv'
    BY <1>5 DEF Unregister, SlotInv, ServingSockets
  <1>6. ASSUME NEW s \in Socket, NEW h \in Handle, SendData(s, h) PROVE SlotInv'
    BY <1>6, SlotSame DEF SendData, Reply, HasFrame
  <1>7. ASSUME NEW s \in Socket, DispatchDone(s) PROVE SlotInv'
    BY <1>7, SlotSame DEF DispatchDone, Reply
  <1>8. ASSUME NEW s \in Socket, AnswerOnly(s) PROVE SlotInv'
    BY <1>8, SlotSame DEF AnswerOnly, Reply, HasFrame
  <1>9. ASSUME NEW s \in Socket, Drained(s) PROVE SlotInv'
    BY <1>9, SlotSame DEF Drained
  <1>10. ASSUME NEW s \in Socket, Disconnect(s) PROVE SlotInv'
    BY <1>10, SlotReleased DEF Disconnect
  <1>11. ASSUME NEW s \in Socket, IdleTimeout(s) PROVE SlotInv'
    BY <1>11, SlotReleased DEF IdleTimeout
  <1>12. ASSUME NEW s \in Socket, Hang(s) PROVE SlotInv'
    BY <1>12 DEF Hang, SlotInv, ServingSockets
  <1>13. CASE UNCHANGED vars
    BY <1>13 DEF vars, SlotInv, ServingSockets
  <1> QED
    BY <1>1, <1>2, <1>3, <1>4, <1>5, <1>6, <1>7, <1>8, <1>9, <1>10, <1>11, <1>12, <1>13
       DEF Next

\* The connection counter is exact and never exceeds the cap.
THEOREM SlotsCorrect == Spec => []SlotAccounting
  <1>1. SlotInv => SlotAccounting
    BY DEF SlotInv, SlotAccounting, ServingSockets
  <1> QED
    BY <1>1, SlotInit, SlotNext, PTL DEF Spec

-----------------------------------------------------------------------------
(***************************************************************************)
(* The pool.  Each list is bounded by the cap of its socket, only served   *)
(* sockets have lists, and the pool is their union: a session is told by   *)
(* its socket and its place on the socket's list.                          *)
(***************************************************************************)
ListsBounded ==
    \A s \in Socket : IsFiniteSet(handles[s]) /\ Cardinality(handles[s]) <= MaxSessions

LEMMA ListsInit == Init => ListsBounded
  BY CapAssumption, FS_EmptySet DEF Init, ListsBounded

\* One more is within a cap that was not reached, one less always.
LEMMA WithinCap ==
  ASSUME NEW T, IsFiniteSet(T), NEW x
  PROVE  /\ IsFiniteSet(T \cup {x}) /\ IsFiniteSet(T \ {x})
         /\ Cardinality(T) < MaxSessions => Cardinality(T \cup {x}) <= MaxSessions
         /\ Cardinality(T) <= MaxSessions => Cardinality(T \ {x}) <= MaxSessions
  <1>1. Cardinality(T) \in Nat
    BY FS_CardinalityType
  <1>2. /\ IsFiniteSet(T \cup {x})
        /\ Cardinality(T \cup {x}) = IF x \in T THEN Cardinality(T) ELSE Cardinality(T) + 1
    BY FS_AddElement
  <1>3. /\ IsFiniteSet(T \ {x})
        /\ Cardinality(T \ {x}) = IF x \in T THEN Cardinality(T) - 1 ELSE Cardinality(T)
    BY FS_RemoveElement
  <1> QED
    BY <1>1, <1>2, <1>3, CapAssumption

LEMMA ListsNext == TypeOK /\ ListsBounded /\ [Next]_vars => ListsBounded'
  <1> SUFFICES ASSUME TypeOK, ListsBounded, [Next]_vars PROVE ListsBounded'
    OBVIOUS
  <1>0. handles \in [Socket -> SUBSET (1 .. nextHandle)]
    BY DEF TypeOK
  <1>1. ASSUME NEW s \in Socket, Register(s) PROVE ListsBounded'
    <2>1. IsFiniteSet(handles[s]) /\ Cardinality(handles[s]) < MaxSessions
      BY <1>1 DEF Register, UnderSessionCap, ListsBounded
    <2>2. /\ IsFiniteSet(handles[s] \cup {NewHandle})
          /\ Cardinality(handles[s] \cup {NewHandle}) <= MaxSessions
      BY <2>1, WithinCap
    <2>3. \A t \in Socket : handles'[t] = IF t = s THEN handles[s] \cup {NewHandle} ELSE handles[t]
      BY <1>0, <1>1 DEF Register
    <2> QED
      BY <2>2, <2>3 DEF ListsBounded
  <1>2. ASSUME NEW s \in Socket, NEW h \in Handle, Unregister(s, h) PROVE ListsBounded'
    <2>1. IsFiniteSet(handles[s]) /\ Cardinality(handles[s]) <= MaxSessions
      BY DEF ListsBounded
    <2>2. IsFiniteSet(handles[s] \ {h}) /\ Cardinality(handles[s] \ {h}) <= MaxSessions
      BY <2>1, WithinCap
    <2>3. \A t \in Socket : handles'[t] = IF t = s THEN handles[s] \ {h} ELSE handles[t]
      BY <1>0, <1>2 DEF Unregister
    <2> QED
      BY <2>2, <2>3 DEF ListsBounded
  <1>3. ASSUME NEW s \in Socket, Finally(s) PROVE ListsBounded'
    <2>1. \A t \in Socket : handles'[t] = IF t = s THEN {} ELSE handles[t]
      BY <1>0, <1>3 DEF Finally
    <2> QED
      BY <2>1, FS_EmptySet, CapAssumption DEF ListsBounded
  <1>4. CASE UNCHANGED handles
    BY <1>4 DEF ListsBounded
  <1> QED
    BY <1>1, <1>2, <1>3, <1>4
       DEF Next, vars, Accept, Reject, RejectDone, SendData, DispatchDone, AnswerOnly, Drained,
           Disconnect, IdleTimeout, Hang

\* The elements of a set of at most n can be numbered up to n, each its own.
LEMMA Numbered ==
  ASSUME NEW T, IsFiniteSet(T), NEW n \in Nat, Cardinality(T) <= n
  PROVE  Injection(T, 1 .. n) # {}
  <1> DEFINE c == Cardinality(T)
  <1>1. c \in Nat
    BY FS_CardinalityType
  <1>2. PICK g \in Bijection(1 .. c, T) : TRUE
    BY FS_CardinalityType DEF ExistsBijection
  <1>3. g \in [1 .. c -> T] /\ \A x \in T : \E k \in 1 .. c : g[k] = x
    BY <1>2 DEF Bijection, Surjection
  <1> DEFINE f == [x \in T |-> CHOOSE k \in 1 .. c : g[k] = x]
  <1>4. \A x \in T : f[x] \in 1 .. c /\ g[f[x]] = x
    BY <1>3
  <1> HIDE DEF c
  <1>5. f \in [T -> 1 .. n]
    <2>1. \A k \in 1 .. c : k \in 1 .. n
      BY <1>1 DEF c
    <2> QED
      BY <1>4, <2>1
  <1>6. \A x, y \in T : f[x] = f[y] => x = y
    BY <1>4
  <1> HIDE DEF f
  <1> QED
    BY <1>5, <1>6 DEF Injection, IsInjective

LEMMA PoolFromLists ==
  ASSUME ListsBounded, SlotInv, SessionsOwned
  PROVE  PoolBounded
  <1> DEFINE Owner(h) == CHOOSE s \in Socket : h \in handles[s]
             place == [s \in Socket |-> CHOOSE f : f \in Injection(handles[s], 1 .. MaxSessions)]
             Places == ServingSockets \X (1 .. MaxSessions)
             told == [h \in sessions |-> <<Owner(h), place[Owner(h)][h]>>]
  <1>1. ASSUME NEW s \in Socket
        PROVE  place[s] \in Injection(handles[s], 1 .. MaxSessions)
    BY Numbered, CapAssumption DEF ListsBounded
  <1>2. ASSUME NEW h \in sessions
        PROVE  Owner(h) \in ServingSockets /\ h \in handles[Owner(h)]
    <2>1. \E s \in Socket : h \in handles[s]
      BY DEF SessionsOwned
    <2>2. Owner(h) \in Socket /\ h \in handles[Owner(h)]
      BY <2>1
    <2> HIDE DEF Owner
    <2> QED
      BY <2>2 DEF SessionsOwned, ServingSockets
  <1>3. ServingSockets \subseteq Socket
    BY DEF ServingSockets
  <1> HIDE DEF Owner, place
  <1>4. told \in Injection(sessions, Places)
    <2>1. ASSUME NEW h \in sessions PROVE told[h] \in Places
      BY <1>1, <1>2, <1>3 DEF Injection
    <2>2. ASSUME NEW h \in sessions, NEW g \in sessions, told[h] = told[g] PROVE h = g
      <3>1. Owner(h) = Owner(g) /\ place[Owner(h)][h] = place[Owner(h)][g]
        BY <2>2
      <3>2. h \in handles[Owner(h)] /\ g \in handles[Owner(h)] /\ Owner(h) \in Socket
        BY <1>2, <1>3, <3>1
      <3>3. place[Owner(h)] \in Injection(handles[Owner(h)], 1 .. MaxSessions)
        BY <1>1, <3>2
      <3> QED
        BY <3>1, <3>2, <3>3 DEF Injection, IsInjective
    <2>3. told \in [sessions -> Places]
      BY <2>1
    <2> HIDE DEF told
    <2> QED
      BY <2>2, <2>3 DEF Injection, IsInjective
  <1>5. /\ IsFiniteSet(Places)
        /\ Cardinality(Places) = Cardinality(ServingSockets) * MaxSessions
    <2>1. IsFiniteSet(1 .. MaxSessions) /\ Cardinality(1 .. MaxSessions) = MaxSessions
      BY FS_Interval, CapAssumption
    <2> QED
      BY <2>1, ServingFinite, FS_Product
  <1>6. Cardinality(sessions) <= Cardinality(ServingSockets) * MaxSessions
    BY <1>4, <1>5, FS_Injection
  <1>7. Cardinality(ServingSockets) * MaxSessions <= MaxConnections * MaxSessions
    <2>1. \A a, b, c \in Nat : a <= b => a * c <= b * c
      OBVIOUS
    <2> QED
      BY <2>1, ServingFinite, CapAssumption DEF SlotInv
  <1>8. Cardinality(sessions) \in Nat
    BY <1>4, <1>5, FS_Injection, FS_CardinalityType
  <1>9. Cardinality(ServingSockets) * MaxSessions \in Int /\ MaxConnections * MaxSessions \in Int
    BY ServingFinite, CapAssumption
  <1> QED
    BY <1>6, <1>7, <1>8, <1>9 DEF PoolBounded

\* However sockets come, register, unregister and go, the pool stays within
\* the product of the two caps (SessionManager._sessions).
THEOREM PoolCorrect == Spec => []PoolBounded
  BY PoolFromLists, ListsInit, ListsNext, SlotInit, SlotNext, TypeCorrect, OwnershipCorrect,
     PTL DEF Spec
=============================================================================
