------------------------ MODULE VirtualDevice_proofs ------------------------
(***************************************************************************)
(* Proofs about VirtualDevice for every set of peers, hosts and triads and *)
(* every limit.                                                            *)
(***************************************************************************)
EXTENDS VirtualDevice, FiniteSetTheorems, TLAPS

(***************************************************************************)
(* What each kind of step does to the table.                               *)
(***************************************************************************)
LEMMA BlankNotLive == NoConn \in Connection /\ NoConn.kind = "none"
  BY DEF NoConn, Connection

\* Removing takes exactly the ids given out of the table.
LEMMA RemoveTable ==
  ASSUME TypeOK, NEW gone \in SUBSET Id, NEW self, Remove(gone, self)
  PROVE  /\ conn' \in [Id -> Connection]
         /\ LiveId' = LiveId \ gone
         /\ \A i \in LiveId' : conn'[i] = conn[i]
  <1>1. \A i \in Id : conn'[i] = IF i \in gone THEN NoConn ELSE conn[i]
    BY DEF Remove
  <1> QED
    BY <1>1, BlankNotLive DEF Remove, TypeOK, LiveId

\* Pinning changes the endpoint and the originator of a connection only.
LEMMA PinTable ==
  ASSUME NEW table \in [Id -> Connection], NEW h \in Host
  PROVE  /\ PinFirst(table, h) \in [Id -> Connection]
         /\ \A j \in Id : LET c == PinFirst(table, h)[j] IN
              /\ c.triad = table[j].triad
              /\ c.kind = table[j].kind
              /\ c.first = table[j].first
              /\ c.quiet = table[j].quiet
              /\ \/ c.endpoint = table[j].endpoint /\ c.origin = table[j].origin
                 \/ c.endpoint = h /\ c.origin = h
  <1> DEFINE unpinned == {i \in Id : table[i].kind # "none" /\ table[i].endpoint = NoHost}
             p == CHOOSE i \in unpinned : \A j \in unpinned : i <= j
             Pinned(c) == [[c EXCEPT !.endpoint = h] EXCEPT !.origin = h]
  <1>1. PinFirst(table, h) = [[table EXCEPT ![p].endpoint = h] EXCEPT ![p].origin = h]
    BY DEF PinFirst
  <1> HIDE DEF p
  <1>2. ASSUME NEW c \in Connection
        PROVE  /\ Pinned(c) \in Connection
               /\ Pinned(c).triad = c.triad
               /\ Pinned(c).kind = c.kind
               /\ Pinned(c).first = c.first
               /\ Pinned(c).quiet = c.quiet
               /\ Pinned(c).endpoint = h
               /\ Pinned(c).origin = h
    BY DEF Connection
  <1>3. /\ DOMAIN PinFirst(table, h) = Id
        /\ PinFirst(table, h) = [j \in Id |-> PinFirst(table, h)[j]]
        /\ \A j \in Id : PinFirst(table, h)[j] =
              IF j = p THEN Pinned(table[j]) ELSE table[j]
    BY <1>1
  <1> HIDE DEF Pinned
  <1>4. PinFirst(table, h) \in [Id -> Connection]
    <2>1. ASSUME NEW j \in Id PROVE PinFirst(table, h)[j] \in Connection
      BY <1>2, <1>3
    <2> QED
      BY <1>3, <2>1
  <1>5. ASSUME NEW j \in Id
        PROVE  LET c == PinFirst(table, h)[j] IN
                 /\ c.triad = table[j].triad
                 /\ c.kind = table[j].kind
                 /\ c.first = table[j].first
                 /\ c.quiet = table[j].quiet
                 /\ \/ c.endpoint = table[j].endpoint /\ c.origin = table[j].origin
                    \/ c.endpoint = h /\ c.origin = h
    <2>1. CASE j = p
      BY <1>2, <1>3, <2>1
    <2>2. CASE j # p
      BY <1>3, <2>2
    <2> QED
      BY <2>1, <2>2
  <1> QED
    BY <1>4, <1>5

\* A Forward_Open enters one connection and leaves the others in the table.
LEMMA OpenTable ==
  ASSUME TypeOK, NEW s \in Socket, NEW t \in Triad, NEW k \in Kind, ForwardOpen(s, t, k)
  PROVE  /\ nextId + 1 \in Id
         /\ conn' \in [Id -> Connection]
         /\ LiveId' = LiveId \cup {nextId + 1}
         /\ conn'[nextId + 1].triad = t
         /\ conn'[nextId + 1].kind = k
         /\ conn'[nextId + 1].first = FALSE
         /\ \A i \in LiveId \ {nextId + 1} :
              /\ conn'[i].triad = conn[i].triad
              /\ conn'[i].kind = conn[i].kind
              /\ conn'[i].first = conn[i].first
  <1> DEFINE id == nextId + 1
             new == [triad |-> t, kind |-> k, endpoint |-> NoHost, origin |-> NoHost,
                     first |-> FALSE, quiet |-> FALSE]
             entered == [conn EXCEPT ![id] = new]
  <1>1. id \in Id
    BY BoundAssumption DEF ForwardOpen, TypeOK, Id
  <1>2. new \in Connection /\ new.kind = k /\ new.triad = t /\ new.first = FALSE
    BY DEF Connection
  <1> HIDE DEF new
  <1>3. entered \in [Id -> Connection]
    BY <1>2 DEF TypeOK
  <1>4. HostOf[s] \in Host
    BY HostAssumption
  <1>5. /\ conn' \in [Id -> Connection]
        /\ \A j \in Id : /\ conn'[j].triad = entered[j].triad
                         /\ conn'[j].kind = entered[j].kind
                         /\ conn'[j].first = entered[j].first
    <2>1. CASE k = "io"
      <3>1. conn' = PinFirst(entered, HostOf[s])
        BY <2>1 DEF ForwardOpen, new
      <3> HIDE DEF entered
      <3> QED
        BY <3>1, <1>3, <1>4, PinTable
    <2>2. CASE k # "io"
      <3>1. conn' = entered
        BY <2>2 DEF ForwardOpen, new
      <3> QED
        BY <3>1, <1>3
    <2> QED
      BY <2>1, <2>2
  <1>6. k # "none"
    BY DEF Kind
  <1>7. /\ entered[id] = new
        /\ \A i \in Id \ {id} : entered[i] = conn[i]
    BY <1>1 DEF TypeOK
  <1>8. LiveId' = LiveId \cup {id}
    BY <1>1, <1>2, <1>5, <1>6, <1>7 DEF LiveId
  <1> QED
    BY <1>1, <1>2, <1>5, <1>7, <1>8 DEF LiveId

\* A datagram and the passing of time leave triads and kinds alone.
LEMMA DatagramTable ==
  ASSUME TypeOK, NEW i \in Id, NEW h \in Host, NEW moved \in BOOLEAN, Datagram(i, h, moved)
  PROVE  /\ conn' \in [Id -> Connection]
         /\ LiveId' = LiveId
         /\ conn'[i].first = TRUE
         /\ \A j \in Id : /\ conn'[j].triad = conn[j].triad
                          /\ conn'[j].kind = conn[j].kind
                          /\ j # i => conn'[j] = conn[j]
  <1>1. /\ conn' \in [Id -> Connection]
        /\ conn'[i].first = TRUE
        /\ \A j \in Id : /\ conn'[j].triad = conn[j].triad
                         /\ conn'[j].kind = conn[j].kind
                         /\ j # i => conn'[j] = conn[j]
    <2> DEFINE e == IF conn[i].endpoint = NoHost \/ moved THEN h ELSE conn[i].endpoint
               d == [[[conn[i] EXCEPT !.endpoint = e] EXCEPT !.first = TRUE] EXCEPT !.quiet = FALSE]
    <2>1. conn' = [conn EXCEPT ![i] = d]
      BY DEF Datagram, TypeOK
    <2>2. e \in Host \cup {NoHost}
      BY DEF TypeOK, Connection
    <2> HIDE DEF e
    <2>3. d \in Connection /\ d.first = TRUE /\ d.triad = conn[i].triad /\ d.kind = conn[i].kind
      <3>1. conn[i] \in Connection
        BY DEF TypeOK
      <3>2. d.first = TRUE /\ d.triad = conn[i].triad /\ d.kind = conn[i].kind
        BY <3>1 DEF Connection
      <3> QED
        BY <2>2, <3>1, <3>2 DEF Connection
    <2> HIDE DEF d
    <2> QED
      BY <2>1, <2>3 DEF TypeOK
  <1> QED
    BY <1>1 DEF LiveId

LEMMA QuietTable ==
  ASSUME TypeOK, NEW i \in Id, GoesQuiet(i)
  PROVE  /\ conn' \in [Id -> Connection]
         /\ LiveId' = LiveId
         /\ \A j \in Id : /\ conn'[j].triad = conn[j].triad
                          /\ conn'[j].kind = conn[j].kind
                          /\ conn'[j].first = conn[j].first
                          /\ conn'[j].endpoint = conn[j].endpoint
                          /\ conn'[j].origin = conn[j].origin
  <1>1. /\ conn' \in [Id -> Connection]
        /\ \A j \in Id : /\ conn'[j].triad = conn[j].triad
                         /\ conn'[j].kind = conn[j].kind
                         /\ conn'[j].first = conn[j].first
                         /\ conn'[j].endpoint = conn[j].endpoint
                         /\ conn'[j].origin = conn[j].origin
    BY DEF GoesQuiet, TypeOK, Connection
  <1> QED
    BY <1>1 DEF LiveId

-----------------------------------------------------------------------------
(***************************************************************************)
(* Ownership.  LiveOwned is strengthened by: ids not allocated yet are     *)
(* nowhere, lists are disjoint also in the ids of removed connections, and *)
(* only served sockets have a list.                                        *)
(***************************************************************************)
Fresh == \A i \in Id : i > nextId => i \notin LiveId /\ \A s \in Socket : i \notin owned[s]

OwnedApart == \A s, r \in Socket : s # r => owned[s] \cap owned[r] = {}

OwnedServed == \A s \in Socket : s \notin open => owned[s] = {}

LiveHeld == \A i \in LiveId : \E s \in Socket : i \in owned[s]

OwnInv == TypeOK /\ Fresh /\ OwnedApart /\ OwnedServed /\ LiveHeld

LEMMA OwnInit == Init => OwnInv
  <1> SUFFICES ASSUME Init PROVE OwnInv
    OBVIOUS
  <1>1. LiveId = {}
    BY BlankNotLive DEF Init, LiveId
  <1>2. TypeOK
    BY BoundAssumption, BlankNotLive DEF Init, TypeOK, TaskKind, TaskState
  <1> QED
    BY <1>1, <1>2 DEF Init, OwnInv, Fresh, OwnedApart, OwnedServed, LiveHeld

\* Removing connections keeps every type, however the tasks are torn down.
LEMMA RemoveTypes ==
  ASSUME TypeOK, NEW gone \in SUBSET Id, NEW self \in SUBSET (TaskKind \X Id),
         Remove(gone, self)
  PROVE  /\ task' \in [TaskKind -> [Id -> TaskState]]
         /\ store' \in [TaskKind -> SUBSET Id]
  <1>1. CASE TearsDown
    BY <1>1 DEF Remove, Drops, Cancels, TypeOK, TaskState
  <1>2. CASE ~TearsDown
    <2>1. store' = store
      BY <1>2 DEF Remove
    <2>2. task' = [k \in TaskKind |-> [i \in Id |->
                     IF <<k, i>> \in self THEN "over" ELSE task[k][i]]]
      BY <1>2 DEF Remove, Ends
    <2>3. ASSUME NEW k \in TaskKind, NEW i \in Id
          PROVE  (IF <<k, i>> \in self THEN "over" ELSE task[k][i]) \in TaskState
      BY DEF TypeOK, TaskState
    <2> QED
      BY <2>1, <2>2, <2>3 DEF TypeOK
  <1> QED
    BY <1>1, <1>2

\* The part of the invariant a removal can disturb, for a caller that has
\* taken the removed ids off no list or some.
LEMMA RemoveOwn ==
  ASSUME OwnInv, NEW gone \in SUBSET Id, NEW self \in SUBSET (TaskKind \X Id),
         Remove(gone, self),
         owned' \in [Socket -> SUBSET Id],
         \A s \in Socket : owned'[s] \subseteq owned[s],
         \A s \in Socket : owned[s] \ gone \subseteq owned'[s],
         open' \subseteq Socket,
         \A s \in Socket : s \notin open' => owned'[s] = {},
         phase' \in {"running", "closing", "closed"},
         UNCHANGED <<nextId, doomed>>
  PROVE  OwnInv'
  <1> USE DEF OwnInv
  <1>1. /\ conn' \in [Id -> Connection]
        /\ LiveId' = LiveId \ gone
    BY RemoveTable
  <1>2. TypeOK'
    BY <1>1, RemoveTypes DEF TypeOK
  <1>3. Fresh'
    BY <1>1 DEF Fresh, TypeOK
  <1>4. OwnedApart'
    BY DEF OwnedApart
  <1>5. OwnedServed'
    BY DEF OwnedServed
  <1>6. LiveHeld'
    BY <1>1 DEF LiveHeld
  <1> QED
    BY <1>2, <1>3, <1>4, <1>5, <1>6

LEMMA OpenOwn ==
  ASSUME OwnInv, NEW s \in Socket, NEW t \in Triad, NEW k \in Kind, ForwardOpen(s, t, k)
  PROVE  OwnInv'
  <1> USE DEF OwnInv
  <1>1. /\ nextId + 1 \in Id
        /\ conn' \in [Id -> Connection]
        /\ LiveId' = LiveId \cup {nextId + 1}
    BY OpenTable
  <1>2. owned' = [owned EXCEPT ![s] = owned[s] \cup {nextId + 1}]
    BY DEF ForwardOpen, Owner
  <1>3. TypeOK'
    <2>1. nextId' \in 0 .. MaxId
      BY BoundAssumption DEF ForwardOpen, TypeOK
    <2>2. owned' \in [Socket -> SUBSET Id]
      BY <1>1, <1>2 DEF TypeOK
    <2>3. task' \in [TaskKind -> [Id -> TaskState]]
      BY <1>1 DEF ForwardOpen, TypeOK, TaskState
    <2>4. store' \in [TaskKind -> SUBSET Id]
      BY <1>1 DEF ForwardOpen, TypeOK
    <2> QED
      BY <1>1, <2>1, <2>2, <2>3, <2>4 DEF ForwardOpen, TypeOK
  <1>4. \A r \in Socket : nextId + 1 \notin owned[r]
    BY <1>1 DEF Fresh, TypeOK
  <1>5. Fresh'
    <2>1. nextId' = nextId + 1 /\ nextId \in Nat
      BY DEF ForwardOpen, TypeOK
    <2>2. ASSUME NEW i \in Id, i > nextId' PROVE i \notin LiveId' /\ \A r \in Socket : i \notin owned'[r]
      <3>1. i > nextId /\ i # nextId + 1
        BY <2>1, <2>2 DEF Id
      <3>2. i \notin LiveId /\ \A r \in Socket : i \notin owned[r]
        BY <3>1 DEF Fresh
      <3> QED
        BY <1>1, <1>2, <3>1, <3>2 DEF TypeOK
    <2> QED
      BY <2>2 DEF Fresh
  <1>6. OwnedApart'
    BY <1>2, <1>4 DEF OwnedApart, TypeOK
  <1>7. OwnedServed'
    BY <1>2 DEF ForwardOpen, OwnedServed, TypeOK
  <1>8. LiveHeld'
    BY <1>1, <1>2 DEF LiveHeld, TypeOK
  <1> QED
    BY <1>3, <1>5, <1>6, <1>7, <1>8

\* A step that changes neither the table's ids nor the lists.
LEMMA SameOwn ==
  ASSUME OwnInv, conn' \in [Id -> Connection], LiveId' = LiveId,
         task' \in [TaskKind -> [Id -> TaskState]], store' \in [TaskKind -> SUBSET Id],
         phase' \in {"running", "closing", "closed"}, doomed' \subseteq TaskKind \X Id,
         UNCHANGED <<open, owned, nextId>>
  PROVE  OwnInv'
  BY DEF OwnInv, TypeOK, Fresh, OwnedApart, OwnedServed, LiveHeld

LEMMA OwnNext == OwnInv /\ [Next]_vars => OwnInv'
  <1> SUFFICES ASSUME OwnInv, [Next]_vars PROVE OwnInv'
    OBVIOUS
  <1>0. TypeOK /\ {} \in SUBSET (TaskKind \X Id)
    BY DEF OwnInv
  <1>1. ASSUME NEW s \in Socket, Connect(s) PROVE OwnInv'
    BY <1>1 DEF Connect, OwnInv, TypeOK, Fresh, OwnedApart, OwnedServed, LiveHeld, LiveId
  <1>2. ASSUME NEW s \in Socket, Drop(s) PROVE OwnInv'
    <2>1. Reaped(s) \in SUBSET Id
      BY DEF Reaped, LiveId
    <2>2. /\ owned' \in [Socket -> SUBSET Id]
          /\ \A r \in Socket : owned'[r] = IF r = s THEN {} ELSE owned[r]
          /\ open' = open \ {s}
          /\ Remove(Reaped(s), {})
          /\ UNCHANGED <<nextId, phase, doomed>>
      BY <1>0, <1>2 DEF Drop, TypeOK
    <2>3. LiveId' = LiveId \ Reaped(s) /\ conn' \in [Id -> Connection]
      BY <1>0, <2>1, <2>2, RemoveTable
    <2>4. TypeOK'
      BY <1>0, <2>1, <2>2, <2>3, RemoveTypes DEF TypeOK
    <2>5. Fresh' /\ OwnedApart' /\ OwnedServed'
      BY <2>2, <2>3 DEF OwnInv, Fresh, OwnedApart, OwnedServed
    <2>6. LiveHeld'
      BY <2>2, <2>3 DEF OwnInv, LiveHeld, Reaped
    <2> QED
      BY <2>4, <2>5, <2>6 DEF OwnInv
  <1>3. ASSUME NEW s \in Socket, NEW t \in Triad, NEW k \in Kind, ForwardOpen(s, t, k)
        PROVE  OwnInv'
    BY <1>3, OpenOwn
  <1>4. ASSUME NEW s \in Socket, NEW t \in Triad, ForwardClose(s, t) PROVE OwnInv'
    <2>1. PICK i \in LiveId : /\ owned' = [owned EXCEPT ![s] = @ \ {i}]
                              /\ Remove({i}, {})
      BY <1>4 DEF ForwardClose
    <2>2. {i} \in SUBSET Id
      BY DEF LiveId
    <2>3. /\ owned' \in [Socket -> SUBSET Id]
          /\ \A r \in Socket : owned'[r] = IF r = s THEN owned[s] \ {i} ELSE owned[r]
      BY <1>0, <2>1 DEF TypeOK
    <2>4. UNCHANGED <<open, nextId, phase, doomed>>
      BY <1>4 DEF ForwardClose
    <2>5. \A r \in Socket : r \notin open' => owned'[r] = {}
      BY <2>3, <2>4 DEF OwnInv, OwnedServed
    <2> QED
      BY <1>0, <2>1, <2>2, <2>3, <2>4, <2>5, RemoveOwn DEF TypeOK
  <1>5. ASSUME NEW i \in Id, NEW h \in Host, NEW moved \in BOOLEAN, Datagram(i, h, moved)
        PROVE  OwnInv'
    <2>1. /\ task' \in [TaskKind -> [Id -> TaskState]]
          /\ store' \in [TaskKind -> SUBSET Id]
      BY <1>0, <1>5 DEF Datagram, FirstUdpOver, TypeOK, TaskState, TaskKind
    <2> QED
      BY <1>0, <1>5, <2>1, DatagramTable, SameOwn DEF Datagram, TypeOK
  <1>6. ASSUME NEW i \in Id, GoesQuiet(i) PROVE OwnInv'
    BY <1>0, <1>6, QuietTable, SameOwn DEF GoesQuiet, TypeOK
  <1>7. ASSUME NEW i \in Id, WatchdogWake(i) PROVE OwnInv'
    <2>1. CASE i \in LiveId /\ Expired(i)
      <3>1. {i} \in SUBSET Id /\ {<<"watchdog", i>>} \in SUBSET (TaskKind \X Id)
        BY DEF TaskKind
      <3>2. Remove({i}, {<<"watchdog", i>>}) /\ UNCHANGED <<open, nextId, owned, phase, doomed>>
        BY <1>7, <2>1 DEF WatchdogWake
      <3> QED
        BY <1>0, <3>1, <3>2, RemoveOwn DEF OwnInv, TypeOK, OwnedServed
    <2>2. CASE ~(i \in LiveId /\ Expired(i))
      <3>1. /\ task' \in [TaskKind -> [Id -> TaskState]]
            /\ UNCHANGED <<conn, store, open, nextId, owned, phase, doomed>>
        BY <1>0, <1>7, <2>2 DEF WatchdogWake, TypeOK, TaskState, TaskKind
      <3> QED
        BY <1>0, <3>1, SameOwn DEF TypeOK, LiveId
    <2> QED
      BY <2>1, <2>2
  <1>8. ASSUME NEW i \in Id, FirstUdpTimeout(i) PROVE OwnInv'
    <2>1. CASE i \in LiveId /\ ~conn[i].first
      <3>1. {i} \in SUBSET Id /\ {<<"first_udp", i>>} \in SUBSET (TaskKind \X Id)
        BY DEF TaskKind
      <3>2. Remove({i}, {<<"first_udp", i>>}) /\ UNCHANGED <<open, nextId, owned, phase, doomed>>
        BY <1>8, <2>1 DEF FirstUdpTimeout
      <3> QED
        BY <1>0, <3>1, <3>2, RemoveOwn DEF OwnInv, TypeOK, OwnedServed
    <2>2. CASE ~(i \in LiveId /\ ~conn[i].first)
      <3>1. /\ task' \in [TaskKind -> [Id -> TaskState]]
            /\ UNCHANGED <<conn, store, open, nextId, owned, phase, doomed>>
        BY <1>0, <1>8, <2>2 DEF FirstUdpTimeout, TypeOK, TaskState, TaskKind
      <3> QED
        BY <1>0, <3>1, SameOwn DEF TypeOK, LiveId
    <2> QED
      BY <2>1, <2>2
  <1>9. ASSUME NEW i \in Id, ProductionWake(i) PROVE OwnInv'
    <2>1. /\ task' \in [TaskKind -> [Id -> TaskState]]
          /\ UNCHANGED <<conn, store, open, nextId, owned, phase, doomed>>
      BY <1>0, <1>9 DEF ProductionWake, TypeOK, TaskState, TaskKind
    <2> QED
      BY <1>0, <2>1, SameOwn DEF TypeOK, LiveId
  <1>10. CASE CloseBegin
    <2>1. doomed' \subseteq TaskKind \X Id
      BY <1>10 DEF CloseBegin
    <2> QED
      BY <1>0, <1>10, <2>1, SameOwn DEF CloseBegin, TypeOK, LiveId
  <1>11. CASE CloseCancels
    <2>1. PICK x \in doomed : /\ doomed' = doomed \ {x}
                              /\ task' = [task EXCEPT ![x[1]][x[2]] = "over"]
      BY <1>11 DEF CloseCancels
    <2>2. x[1] \in TaskKind /\ x[2] \in Id
      BY <1>0 DEF TypeOK
    <2>3. task' \in [TaskKind -> [Id -> TaskState]]
      BY <1>0, <2>1, <2>2 DEF TypeOK, TaskState
    <2> QED
      BY <1>0, <1>11, <2>1, <2>3, SameOwn DEF CloseCancels, TypeOK, LiveId
  <1>12. CASE CloseRemoves
    <2>1. LiveId \in SUBSET Id
      BY DEF LiveId
    <2>2. Remove(LiveId, {}) /\ phase' = "closed" /\ UNCHANGED <<open, nextId, owned, doomed>>
      BY <1>12 DEF CloseRemoves
    <2> QED
      BY <1>0, <2>1, <2>2, RemoveOwn DEF OwnInv, TypeOK, OwnedServed
  <1>13. CASE UNCHANGED vars
    BY <1>0, <1>13, SameOwn DEF vars, TypeOK, LiveId
  <1> QED
    BY <1>1, <1>2, <1>3, <1>4, <1>5, <1>6, <1>7, <1>8, <1>9, <1>10, <1>11, <1>12, <1>13
       DEF Next

\* Ids, owners and connections keep to one another in every behaviour
\* (ConnectionManager, _handle_client).
THEOREM OwnInvariance == Spec => []OwnInv
  <1> QED
    BY OwnInit, OwnNext, PTL DEF Spec

\* Every variable keeps its type.
THEOREM TypeCorrect == Spec => []TypeOK
  <1>1. OwnInv => TypeOK
    BY DEF OwnInv
  <1> QED
    BY <1>1, OwnInvariance, PTL

\* Every connection is on the list of exactly one served socket, so the drop
\* of that socket reaps it.
THEOREM OwnershipCorrect == Spec => []LiveOwned
  <1>1. OwnInv => LiveOwned
    BY DEF OwnInv, TypeOK, LiveHeld, OwnedServed, OwnedApart, LiveOwned
  <1> QED
    BY <1>1, OwnInvariance, PTL

-----------------------------------------------------------------------------
(***************************************************************************)
(* Tasks, for a device whose removal callback is VirtualDevice's.          *)
(***************************************************************************)
Tidy == TearsDown => TasksMatchTable

\* The callback drops the entries and cancels the tasks of what is removed.
LEMMA RemoveTidy ==
  ASSUME OwnInv, Tidy, NEW gone \in SUBSET Id, NEW self, Remove(gone, self)
  PROVE  Tidy'
  <1> SUFFICES ASSUME TearsDown PROVE TasksMatchTable'
    BY DEF Tidy
  <1>1. LiveId' = LiveId \ gone
    BY RemoveTable DEF OwnInv
  <1>2. /\ store' = [k \in TaskKind |-> store[k] \ gone]
        /\ task' = [k \in TaskKind |-> [i \in Id |->
                      IF i \in gone /\ task[k][i] = "armed" THEN "over" ELSE task[k][i]]]
    BY DEF Remove, Drops, Cancels
  <1>3. TasksMatchTable
    BY DEF Tidy
  <1>4. ASSUME NEW k \in TaskKind PROVE store'[k] \subseteq LiveId'
    BY <1>1, <1>2, <1>3 DEF TasksMatchTable
  <1>5. ASSUME NEW k \in TaskKind, NEW i \in Id, task'[k][i] = "armed" PROVE i \in store'[k]
    <2>1. task'[k][i] = IF i \in gone /\ task[k][i] = "armed" THEN "over" ELSE task[k][i]
      BY <1>2
    <2>2. i \notin gone /\ task[k][i] = "armed"
      BY <1>5, <2>1
    <2> QED
      BY <1>2, <1>3, <2>2 DEF TasksMatchTable
  <1> QED
    BY <1>4, <1>5 DEF TasksMatchTable

\* Steps that start no task and keep the table.
LEMMA SameTidy ==
  ASSUME Tidy, LiveId' = LiveId,
         \A k \in TaskKind : store'[k] \subseteq store[k],
         \A k \in TaskKind, i \in Id :
            task'[k][i] = "armed" => task[k][i] = "armed" /\ (i \in store[k] => i \in store'[k])
  PROVE  Tidy'
  BY DEF Tidy, TasksMatchTable

LEMMA TidyNext == OwnInv /\ Tidy /\ [Next]_vars => Tidy'
  <1> SUFFICES ASSUME OwnInv, Tidy, [Next]_vars PROVE Tidy'
    OBVIOUS
  <1>0. TypeOK
    BY DEF OwnInv
  <1>1. ASSUME NEW s \in Socket, Connect(s) PROVE Tidy'
    BY <1>1, SameTidy DEF Connect, LiveId
  <1>2. ASSUME NEW s \in Socket, Drop(s) PROVE Tidy'
    BY <1>2, RemoveTidy DEF Drop, Reaped, LiveId
  <1>3. ASSUME NEW s \in Socket, NEW t \in Triad, NEW k \in Kind, ForwardOpen(s, t, k)
        PROVE  Tidy'
    <2> SUFFICES ASSUME TearsDown PROVE TasksMatchTable'
      BY DEF Tidy
    <2>1. TasksMatchTable
      BY DEF Tidy
    <2>2. nextId + 1 \in Id /\ LiveId' = LiveId \cup {nextId + 1}
      BY <1>0, <1>3, OpenTable
    <2>3. ASSUME NEW x \in TaskKind
          PROVE  /\ store'[x] \subseteq LiveId'
                 /\ \A i \in Id : task'[x][i] = "armed" => i \in store'[x]
      <3>1. CASE x \in TasksOf(k)
        <4>1. /\ store'[x] = store[x] \cup {nextId + 1}
              /\ task'[x] = [task[x] EXCEPT ![nextId + 1] = "armed"]
          BY <1>3, <3>1 DEF ForwardOpen
        <4> QED
          BY <1>0, <2>1, <2>2, <4>1 DEF TasksMatchTable, TypeOK
      <3>2. CASE x \notin TasksOf(k)
        <4>1. store'[x] = store[x] /\ task'[x] = task[x]
          BY <1>3, <3>2 DEF ForwardOpen
        <4> QED
          BY <2>1, <2>2, <4>1 DEF TasksMatchTable
      <3> QED
        BY <3>1, <3>2
    <2> QED
      BY <2>3 DEF TasksMatchTable
  <1>4. ASSUME NEW s \in Socket, NEW t \in Triad, ForwardClose(s, t) PROVE Tidy'
    BY <1>4, RemoveTidy DEF ForwardClose, LiveId
  <1>5. ASSUME NEW i \in Id, NEW h \in Host, NEW moved \in BOOLEAN, Datagram(i, h, moved)
        PROVE  Tidy'
    <2> SUFFICES ASSUME TearsDown PROVE TasksMatchTable'
      BY DEF Tidy
    <2>1. TasksMatchTable
      BY DEF Tidy
    <2>2. LiveId' = LiveId
      BY <1>0, <1>5, DatagramTable
    <2>3. CASE UNCHANGED <<store, task>>
      BY <2>1, <2>2, <2>3 DEF TasksMatchTable
    <2>4. CASE /\ store' = [store EXCEPT !["first_udp"] = @ \ {i}]
               /\ i \in store["first_udp"]
               /\ task' = [task EXCEPT !["first_udp"][i] = "over"]
      BY <1>0, <2>1, <2>2, <2>4 DEF TasksMatchTable, TypeOK, TaskKind
    <2>5. CASE /\ store' = [store EXCEPT !["first_udp"] = @ \ {i}]
               /\ i \notin store["first_udp"]
               /\ task' = task
      BY <1>0, <2>1, <2>2, <2>5 DEF TasksMatchTable, TypeOK, TaskKind
    <2> QED
      BY <1>5, <2>3, <2>4, <2>5 DEF Datagram, FirstUdpOver
  <1>6. ASSUME NEW i \in Id, GoesQuiet(i) PROVE Tidy'
    BY <1>0, <1>6, QuietTable, SameTidy DEF GoesQuiet
  <1>7. ASSUME NEW i \in Id, WatchdogWake(i) PROVE Tidy'
    <2>1. CASE i \in LiveId /\ Expired(i)
      BY <1>7, <2>1, RemoveTidy DEF WatchdogWake
    <2>2. CASE ~(i \in LiveId /\ Expired(i))
      <3>1. /\ task' = [task EXCEPT !["watchdog"][i] = "over"]
            /\ UNCHANGED <<conn, store>>
        BY <1>7, <2>2 DEF WatchdogWake
      <3> QED
        BY <1>0, <3>1, SameTidy DEF TypeOK, TaskKind, LiveId
    <2> QED
      BY <2>1, <2>2
  <1>8. ASSUME NEW i \in Id, FirstUdpTimeout(i) PROVE Tidy'
    <2>1. CASE i \in LiveId /\ ~conn[i].first
      BY <1>8, <2>1, RemoveTidy DEF FirstUdpTimeout
    <2>2. CASE ~(i \in LiveId /\ ~conn[i].first)
      <3>1. /\ task' = [task EXCEPT !["first_udp"][i] = "over"]
            /\ UNCHANGED <<conn, store>>
        BY <1>8, <2>2 DEF FirstUdpTimeout
      <3> QED
        BY <1>0, <3>1, SameTidy DEF TypeOK, TaskKind, LiveId
    <2> QED
      BY <2>1, <2>2
  <1>9. ASSUME NEW i \in Id, ProductionWake(i) PROVE Tidy'
    <2>1. task' = task \/ task' = [task EXCEPT !["production"][i] = "over"]
      BY <1>9 DEF ProductionWake
    <2> QED
      BY <1>0, <1>9, <2>1, SameTidy DEF ProductionWake, TypeOK, TaskKind, LiveId
  <1>10. CASE CloseBegin
    BY <1>10, SameTidy DEF CloseBegin, LiveId
  <1>11. CASE CloseCancels
    <2>1. PICK x \in doomed : task' = [task EXCEPT ![x[1]][x[2]] = "over"]
      BY <1>11 DEF CloseCancels
    <2>2. x[1] \in TaskKind /\ x[2] \in Id
      BY <1>0 DEF TypeOK
    <2> QED
      BY <1>0, <1>11, <2>1, <2>2, SameTidy DEF CloseCancels, TypeOK, LiveId
  <1>12. CASE CloseRemoves
    BY <1>12, RemoveTidy DEF CloseRemoves, LiveId
  <1>13. CASE UNCHANGED vars
    BY <1>13, SameTidy DEF vars, LiveId
  <1> QED
    BY <1>1, <1>2, <1>3, <1>4, <1>5, <1>6, <1>7, <1>8, <1>9, <1>10, <1>11, <1>12, <1>13
       DEF Next

\* A device that keeps VirtualDevice's removal callback never has an entry or
\* a running task of a connection that is gone.
THEOREM TasksCorrect == Spec => [](TearsDown => TasksMatchTable)
  <1>1. Init => Tidy
    BY DEF Init, Tidy, TasksMatchTable
  <1>2. Tidy <=> (TearsDown => TasksMatchTable)
    BY DEF Tidy
  <1> QED
    BY <1>1, <1>2, OwnInvariance, TidyNext, PTL DEF Spec

-----------------------------------------------------------------------------
(***************************************************************************)
(* Supervision.  Only close() cancels the tasks of a connection that is    *)
(* in the table, and it has tasks to cancel only while it closes.          *)
(***************************************************************************)
SupInv == Supervised /\ (phase # "closing" => doomed = {})

\* The tasks of the connections that stay are left alone.
LEMMA RemoveTasks ==
  ASSUME TypeOK, NEW gone \in SUBSET Id, NEW self \in SUBSET (TaskKind \X gone),
         Remove(gone, self)
  PROVE  \A k \in TaskKind, i \in LiveId' : task'[k][i] = task[k][i]
  <1>1. LiveId' = LiveId \ gone /\ LiveId \subseteq Id
    BY RemoveTable DEF LiveId
  <1>2. SUFFICES ASSUME NEW k \in TaskKind, NEW i \in LiveId' PROVE task'[k][i] = task[k][i]
    OBVIOUS
  <1>3. i \in Id /\ i \notin gone /\ <<k, i>> \notin self
    BY <1>1
  <1>4. CASE TearsDown
    BY <1>3, <1>4 DEF Remove, Cancels
  <1>5. CASE ~TearsDown
    BY <1>3, <1>5 DEF Remove, Ends
  <1> QED
    BY <1>4, <1>5

LEMMA RemoveSup ==
  ASSUME OwnInv, SupInv, NEW gone \in SUBSET Id, NEW self \in SUBSET (TaskKind \X gone),
         Remove(gone, self), UNCHANGED <<phase, doomed>>
  PROVE  SupInv'
  <1>1. LiveId' = LiveId \ gone /\ \A i \in LiveId' : conn'[i] = conn[i]
    BY RemoveTable DEF OwnInv
  <1>2. \A k \in TaskKind, i \in LiveId' : task'[k][i] = task[k][i]
    BY RemoveTasks DEF OwnInv
  <1>3. "watchdog" \in TaskKind /\ "first_udp" \in TaskKind
    BY DEF TaskKind
  <1> QED
    BY <1>1, <1>2, <1>3 DEF SupInv, Supervised

LEMMA SupNext == OwnInv /\ SupInv /\ [Next]_vars => SupInv'
  <1> SUFFICES ASSUME OwnInv, SupInv, [Next]_vars PROVE SupInv'
    OBVIOUS
  <1>0. TypeOK /\ "watchdog" \in TaskKind /\ "first_udp" \in TaskKind /\ LiveId \subseteq Id
    BY DEF OwnInv, TaskKind, LiveId
  <1>1. ASSUME NEW s \in Socket, Connect(s) PROVE SupInv'
    BY <1>1 DEF Connect, SupInv, Supervised, LiveId
  <1>2. ASSUME NEW s \in Socket, Drop(s) PROVE SupInv'
    BY <1>2, RemoveSup DEF Drop, Reaped, LiveId
  <1>3. ASSUME NEW s \in Socket, NEW t \in Triad, NEW k \in Kind, ForwardOpen(s, t, k)
        PROVE  SupInv'
    <2> DEFINE id == nextId + 1
    <2>1. /\ id \in Id
          /\ LiveId' = LiveId \cup {id}
          /\ conn'[id].kind = k
          /\ \A i \in LiveId \ {id} : conn'[i].kind = conn[i].kind /\ conn'[i].first = conn[i].first
      BY <1>0, <1>3, OpenTable
    <2>2. \A x \in TaskKind :
             task'[x] = IF x \in TasksOf(k) THEN [task[x] EXCEPT ![id] = "armed"] ELSE task[x]
      BY <1>3 DEF ForwardOpen
    <2>3. Consumes(k) => /\ task'["watchdog"][id] = "armed"
                         /\ task'["first_udp"][id] = "armed"
      <3>1. SUFFICES ASSUME Consumes(k)
                     PROVE  /\ task'["watchdog"][id] = "armed"
                            /\ task'["first_udp"][id] = "armed"
        OBVIOUS
      <3>2. k # "class3" /\ k # "half"
        BY <3>1 DEF Consumes
      <3>3. TasksOf(k) = TaskKind
        BY <3>1, <3>2 DEF TasksOf
      <3>4. ASSUME NEW x \in TaskKind PROVE task'[x][id] = "armed"
        <4>1. task'[x] = [task[x] EXCEPT ![id] = "armed"]
          BY <2>2, <3>3
        <4>2. task[x] \in [Id -> TaskState] /\ id \in Id
          BY <1>0, <2>1 DEF TypeOK
        <4> HIDE DEF id
        <4> QED
          BY <4>1, <4>2
      <3> QED
        BY <1>0, <3>4
    <2>4. \A x \in TaskKind, i \in LiveId \ {id} : task'[x][i] = task[x][i]
      BY <1>0, <2>2 DEF TypeOK
    <2>5. Supervised'
      <3>1. SUFFICES ASSUME NEW i \in LiveId', phase # "closing", Consumes(conn'[i].kind)
                     PROVE  /\ task'["watchdog"][i] = "armed"
                            /\ ~conn'[i].first => task'["first_udp"][i] = "armed"
        BY <1>3 DEF ForwardOpen, Supervised
      <3>2. CASE i = id
        BY <2>1, <2>3, <3>1, <3>2
      <3>3. CASE i # id
        <4>1. i \in LiveId \ {id}
          BY <2>1, <3>3
        <4> QED
          BY <1>0, <2>1, <2>4, <3>1, <4>1 DEF SupInv, Supervised
      <3> QED
        BY <3>2, <3>3
    <2> QED
      BY <1>3, <2>5 DEF ForwardOpen, SupInv
  <1>4. ASSUME NEW s \in Socket, NEW t \in Triad, ForwardClose(s, t) PROVE SupInv'
    BY <1>0, <1>4, RemoveSup DEF ForwardClose
  <1>5. ASSUME NEW i \in Id, NEW h \in Host, NEW moved \in BOOLEAN, Datagram(i, h, moved)
        PROVE  SupInv'
    <2>1. /\ LiveId' = LiveId
          /\ conn'[i].first = TRUE
          /\ \A j \in Id : conn'[j].kind = conn[j].kind /\ (j # i => conn'[j] = conn[j])
      BY <1>0, <1>5, DatagramTable
    <2>2. \A j \in Id : /\ task'["watchdog"][j] = task["watchdog"][j]
                        /\ j # i => task'["first_udp"][j] = task["first_udp"][j]
      BY <1>0, <1>5 DEF Datagram, FirstUdpOver, TypeOK
    <2> QED
      BY <1>0, <1>5, <2>1, <2>2 DEF Datagram, SupInv, Supervised
  <1>6. ASSUME NEW i \in Id, GoesQuiet(i) PROVE SupInv'
    BY <1>0, <1>6, QuietTable DEF GoesQuiet, SupInv, Supervised
  <1>7. ASSUME NEW i \in Id, WatchdogWake(i) PROVE SupInv'
    <2>1. CASE i \in LiveId /\ Expired(i)
      <3>1. {<<"watchdog", i>>} \in SUBSET (TaskKind \X {i})
        BY <1>0
      <3> QED
        BY <1>7, <2>1, <3>1, RemoveSup DEF WatchdogWake
    <2>2. CASE ~(i \in LiveId /\ Expired(i))
      BY <1>0, <1>7, <2>2 DEF WatchdogWake, Watches, SupInv, Supervised, TypeOK, LiveId
    <2> QED
      BY <2>1, <2>2
  <1>8. ASSUME NEW i \in Id, FirstUdpTimeout(i) PROVE SupInv'
    <2>1. CASE i \in LiveId /\ ~conn[i].first
      <3>1. {<<"first_udp", i>>} \in SUBSET (TaskKind \X {i})
        BY <1>0
      <3> QED
        BY <1>8, <2>1, <3>1, RemoveSup DEF FirstUdpTimeout
    <2>2. CASE ~(i \in LiveId /\ ~conn[i].first)
      BY <1>0, <1>8, <2>2 DEF FirstUdpTimeout, SupInv, Supervised, TypeOK, LiveId
    <2> QED
      BY <2>1, <2>2
  <1>9. ASSUME NEW i \in Id, ProductionWake(i) PROVE SupInv'
    <2>1. \A j \in Id : /\ task'["watchdog"][j] = task["watchdog"][j]
                        /\ task'["first_udp"][j] = task["first_udp"][j]
      BY <1>0, <1>9 DEF ProductionWake, TypeOK
    <2> QED
      BY <1>0, <1>9, <2>1 DEF ProductionWake, SupInv, Supervised, LiveId
  <1>10. CASE CloseBegin
    BY <1>10 DEF CloseBegin, SupInv, Supervised
  <1>11. CASE CloseCancels
    BY <1>11 DEF CloseCancels, SupInv, Supervised
  <1>12. CASE CloseRemoves
    <2>1. LiveId' = {}
      BY <1>0, <1>12, RemoveTable DEF CloseRemoves
    <2> QED
      BY <1>12, <2>1 DEF CloseRemoves, SupInv, Supervised
  <1>13. CASE UNCHANGED vars
    BY <1>13 DEF vars, SupInv, Supervised, LiveId
  <1> QED
    BY <1>1, <1>2, <1>3, <1>4, <1>5, <1>6, <1>7, <1>8, <1>9, <1>10, <1>11, <1>12, <1>13
       DEF Next

\* Every connection that expects datagrams always has a timer that will end
\* it if they do not come.
THEOREM SupervisionCorrect == Spec => []Supervised
  <1>1. Init => SupInv
    BY BlankNotLive DEF Init, SupInv, Supervised, LiveId
  <1>2. SupInv => Supervised
    BY DEF SupInv
  <1> QED
    BY <1>1, <1>2, OwnInvariance, SupNext, PTL DEF Spec

-----------------------------------------------------------------------------
(***************************************************************************)
(* Pinning.  The endpoint and the originator of a connection are set       *)
(* together, and a datagram from elsewhere than the originator is dropped. *)
(***************************************************************************)
LEMMA DatagramPins ==
  ASSUME TypeOK, PinnedStreamsHome,
         NEW i \in Id, NEW h \in Host, NEW moved \in BOOLEAN, Datagram(i, h, moved)
  PROVE  conn'[i].origin # NoHost => conn'[i].endpoint = conn'[i].origin
  <1> DEFINE e == IF conn[i].endpoint = NoHost \/ moved THEN h ELSE conn[i].endpoint
             d == [[[conn[i] EXCEPT !.endpoint = e] EXCEPT !.first = TRUE] EXCEPT !.quiet = FALSE]
  <1>1. conn' = [conn EXCEPT ![i] = d]
    BY DEF Datagram, TypeOK
  <1>2. conn[i].origin # NoHost => e = conn[i].origin
    BY DEF Datagram, FromOriginator, PinnedStreamsHome
  <1> HIDE DEF e
  <1>3. d.origin = conn[i].origin /\ d.endpoint = e
    BY DEF TypeOK, Connection
  <1> QED
    BY <1>1, <1>2, <1>3 DEF TypeOK

\* A Forward_Open gives the new connection, or an older one, both or neither.
LEMMA OpenPins ==
  ASSUME TypeOK, PinnedStreamsHome,
         NEW s \in Socket, NEW t \in Triad, NEW k \in Kind, ForwardOpen(s, t, k)
  PROVE  PinnedStreamsHome'
  <1> DEFINE id == nextId + 1
             new == [triad |-> t, kind |-> k, endpoint |-> NoHost, origin |-> NoHost,
                     first |-> FALSE, quiet |-> FALSE]
             entered == [conn EXCEPT ![id] = new]
  <1>1. id \in Id /\ LiveId' = LiveId \cup {id}
    BY OpenTable
  <1>2. new \in Connection /\ new.origin = NoHost
    BY DEF Connection
  <1> HIDE DEF new
  <1>3. entered \in [Id -> Connection] /\ entered[id] = new
    BY <1>1, <1>2 DEF TypeOK
  <1>4. \A j \in Id \ {id} : entered[j] = conn[j]
    BY DEF TypeOK
  <1>5. ASSUME NEW j \in LiveId'
        PROVE  entered[j].origin # NoHost => entered[j].endpoint = entered[j].origin
    <2>1. CASE j = id
      BY <1>2, <1>3, <2>1
    <2>2. CASE j # id
      <3>1. j \in LiveId /\ j \in Id
        BY <1>1, <2>2 DEF LiveId
      <3> QED
        BY <1>4, <2>2, <3>1 DEF PinnedStreamsHome
    <2> QED
      BY <2>1, <2>2
  <1>6. HostOf[s] \in Host
    BY HostAssumption
  <1>7. ASSUME NEW j \in LiveId'
        PROVE  conn'[j].origin # NoHost => conn'[j].endpoint = conn'[j].origin
    <2>1. CASE k = "io"
      <3>1. conn' = PinFirst(entered, HostOf[s])
        BY <2>1 DEF ForwardOpen, new
      <3>2. j \in Id
        BY <1>1 DEF LiveId
      <3> HIDE DEF entered
      <3> QED
        BY <1>3, <1>5, <1>6, <3>1, <3>2, PinTable
    <2>2. CASE k # "io"
      <3>1. conn' = entered
        BY <2>2 DEF ForwardOpen, new
      <3> QED
        BY <1>5, <3>1
    <2> QED
      BY <2>1, <2>2
  <1> QED
    BY <1>7 DEF PinnedStreamsHome

\* Removal leaves the connections that stay as they were.
LEMMA RemovePins ==
  ASSUME TypeOK, PinnedStreamsHome, NEW gone \in SUBSET Id, NEW self, Remove(gone, self)
  PROVE  PinnedStreamsHome'
  <1>1. LiveId' = LiveId \ gone /\ \A i \in LiveId' : conn'[i] = conn[i]
    BY RemoveTable
  <1> QED
    BY <1>1 DEF PinnedStreamsHome

LEMMA PinnedNext == TypeOK /\ PinnedStreamsHome /\ [Next]_vars => PinnedStreamsHome'
  <1> SUFFICES ASSUME TypeOK, PinnedStreamsHome, [Next]_vars PROVE PinnedStreamsHome'
    OBVIOUS
  <1>0. LiveId \in SUBSET Id
    BY DEF LiveId
  <1>1. ASSUME NEW s \in Socket, Drop(s) PROVE PinnedStreamsHome'
    BY <1>0, <1>1, RemovePins DEF Drop, Reaped
  <1>2. ASSUME NEW s \in Socket, NEW t \in Triad, NEW k \in Kind, ForwardOpen(s, t, k)
        PROVE  PinnedStreamsHome'
    BY <1>2, OpenPins
  <1>3. ASSUME NEW s \in Socket, NEW t \in Triad, ForwardClose(s, t) PROVE PinnedStreamsHome'
    BY <1>0, <1>3, RemovePins DEF ForwardClose
  <1>4. ASSUME NEW i \in Id, NEW h \in Host, NEW moved \in BOOLEAN, Datagram(i, h, moved)
        PROVE  PinnedStreamsHome'
    <2>1. LiveId' = LiveId /\ \A j \in Id : j # i => conn'[j] = conn[j]
      BY <1>4, DatagramTable
    <2>2. conn'[i].origin # NoHost => conn'[i].endpoint = conn'[i].origin
      BY <1>4, DatagramPins
    <2> QED
      BY <1>0, <2>1, <2>2 DEF PinnedStreamsHome
  <1>5. ASSUME NEW i \in Id, GoesQuiet(i) PROVE PinnedStreamsHome'
    BY <1>0, <1>5, QuietTable DEF PinnedStreamsHome
  <1>6. ASSUME NEW i \in Id, WatchdogWake(i) PROVE PinnedStreamsHome'
    <2>1. CASE i \in LiveId /\ Expired(i)
      BY <1>6, <2>1, RemovePins DEF WatchdogWake
    <2>2. CASE ~(i \in LiveId /\ Expired(i))
      BY <1>6, <2>2 DEF WatchdogWake, PinnedStreamsHome, LiveId
    <2> QED
      BY <2>1, <2>2
  <1>7. ASSUME NEW i \in Id, FirstUdpTimeout(i) PROVE PinnedStreamsHome'
    <2>1. CASE i \in LiveId /\ ~conn[i].first
      BY <1>7, <2>1, RemovePins DEF FirstUdpTimeout
    <2>2. CASE ~(i \in LiveId /\ ~conn[i].first)
      BY <1>7, <2>2 DEF FirstUdpTimeout, PinnedStreamsHome, LiveId
    <2> QED
      BY <2>1, <2>2
  <1>8. CASE CloseRemoves
    BY <1>0, <1>8, RemovePins DEF CloseRemoves
  <1>9. ASSUME UNCHANGED conn PROVE PinnedStreamsHome'
    BY <1>9 DEF PinnedStreamsHome, LiveId
  <1> QED
    BY <1>1, <1>2, <1>3, <1>4, <1>5, <1>6, <1>7, <1>8, <1>9
       DEF Next, vars, Connect, ProductionWake, CloseBegin, CloseCancels

\* What a device sends on a connection whose originator is known goes to the
\* originator's host.
THEOREM PinningCorrect == Spec => []PinnedStreamsHome
  <1>1. Init => PinnedStreamsHome
    BY BlankNotLive DEF Init, PinnedStreamsHome, LiveId
  <1> QED
    BY <1>1, PinnedNext, TypeCorrect, PTL DEF Spec

-----------------------------------------------------------------------------
(***************************************************************************)
(* Timers.  A step that takes a connection out of the table either names   *)
(* it or finds it silent.                                                  *)
(***************************************************************************)
Accounted(i) ==
    \/ \E s \in Socket : ForwardClose(s, conn[i].triad)
    \/ \E s \in open : i \in owned[s] /\ s \notin open'
    \/ phase' = "closed"

LEMMA HeardStep ==
  ASSUME TypeOK, [Next]_vars, NEW i \in LiveId, conn[i].first, ~conn[i].quiet, i \notin LiveId'
  PROVE  Accounted(i)
  <1>0. LiveId \in SUBSET Id /\ open \in SUBSET Socket
    BY DEF LiveId, TypeOK
  <1>1. ASSUME NEW s \in Socket, Drop(s) PROVE Accounted(i)
    <2>1. LiveId' = LiveId \ Reaped(s)
      BY <1>0, <1>1, RemoveTable DEF Drop, Reaped
    <2>2. i \in owned[s] /\ s \in open /\ s \notin open'
      BY <1>1, <2>1 DEF Drop, Reaped
    <2> QED
      BY <2>2 DEF Accounted
  <1>2. ASSUME NEW s \in Socket, NEW t \in Triad, NEW k \in Kind, ForwardOpen(s, t, k)
        PROVE  FALSE
    BY <1>2, OpenTable
  <1>3. ASSUME NEW s \in Socket, NEW t \in Triad, ForwardClose(s, t) PROVE Accounted(i)
    <2>1. PICK j \in LiveId : conn[j].triad = t /\ Remove({j}, {})
      BY <1>3 DEF ForwardClose
    <2>2. LiveId' = LiveId \ {j}
      BY <1>0, <2>1, RemoveTable
    <2>3. conn[i].triad = t
      BY <2>1, <2>2
    <2> QED
      BY <1>3, <2>3 DEF Accounted
  <1>4. ASSUME NEW j \in Id, NEW h \in Host, NEW moved \in BOOLEAN, Datagram(j, h, moved)
        PROVE  FALSE
    BY <1>4, DatagramTable
  <1>5. ASSUME NEW j \in Id, GoesQuiet(j) PROVE FALSE
    BY <1>5, QuietTable
  <1>6. ASSUME NEW j \in Id, WatchdogWake(j) PROVE FALSE
    <2>1. CASE j \in LiveId /\ Expired(j)
      <3>1. LiveId' = LiveId \ {j}
        BY <1>6, <2>1, RemoveTable DEF WatchdogWake
      <3> QED
        BY <2>1, <3>1 DEF Expired
    <2>2. CASE ~(j \in LiveId /\ Expired(j))
      BY <1>6, <2>2 DEF WatchdogWake, LiveId
    <2> QED
      BY <2>1, <2>2
  <1>7. ASSUME NEW j \in Id, FirstUdpTimeout(j) PROVE FALSE
    <2>1. CASE j \in LiveId /\ ~conn[j].first
      <3>1. LiveId' = LiveId \ {j}
        BY <1>7, <2>1, RemoveTable DEF FirstUdpTimeout
      <3> QED
        BY <2>1, <3>1
    <2>2. CASE ~(j \in LiveId /\ ~conn[j].first)
      BY <1>7, <2>2 DEF FirstUdpTimeout, LiveId
    <2> QED
      BY <2>1, <2>2
  <1>8. CASE CloseRemoves
    BY <1>8 DEF CloseRemoves, Accounted
  <1>9. ASSUME UNCHANGED conn PROVE FALSE
    BY <1>9 DEF LiveId
  <1> QED
    BY <1>1, <1>2, <1>3, <1>4, <1>5, <1>6, <1>7, <1>8, <1>9
       DEF Next, vars, Connect, ProductionWake, CloseBegin, CloseCancels

\* No timer takes down a connection that receives in time: it ends by a
\* Forward_Close of its triad, with the socket that opened it, or with the
\* device.
THEOREM HeardCorrect == Spec => HeardNotTimedOut
  <1>1. TypeOK /\ [Next]_vars =>
          [\A i \in LiveId :
              (conn[i].first /\ ~conn[i].quiet /\ i \notin LiveId') =>
                  \/ \E s \in Socket : ForwardClose(s, conn[i].triad)
                  \/ \E s \in open : i \in owned[s] /\ s \notin open'
                  \/ phase' = "closed"]_vars
    BY HeardStep DEF Accounted
  <1> QED
    BY <1>1, TypeCorrect, PTL DEF Spec, HeardNotTimedOut
=============================================================================
