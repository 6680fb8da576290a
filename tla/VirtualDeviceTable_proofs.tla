---------------------- MODULE VirtualDeviceTable_proofs ----------------------
(***************************************************************************)
(* VirtualDevice implements ConnectionTable: the connections a socket owns *)
(* are leases of their triads, and each step of the device is a step of    *)
(* the abstract table or leaves it alone.                                  *)
(***************************************************************************)
EXTENDS VirtualDevice_proofs

(***************************************************************************)
(* Besides OwnInv the mapping needs that a triad names one connection, and *)
(* that every connection in the table has one.                             *)
(***************************************************************************)
TriadsApart ==
    /\ \A i \in LiveId : conn[i].triad \in Triad
    /\ \A i, j \in LiveId : conn[i].triad = conn[j].triad => i = j

LEMMA RemoveApart ==
  ASSUME TypeOK, TriadsApart, NEW gone \in SUBSET Id, NEW self, Remove(gone, self)
  PROVE  TriadsApart'
  <1>1. LiveId' = LiveId \ gone /\ \A i \in LiveId' : conn'[i] = conn[i]
    BY RemoveTable
  <1> QED
    BY <1>1 DEF TriadsApart

LEMMA SameApart ==
  ASSUME TriadsApart, LiveId' = LiveId, \A i \in LiveId : conn'[i].triad = conn[i].triad
  PROVE  TriadsApart'
  BY DEF TriadsApart

LEMMA OpenApart ==
  ASSUME OwnInv, TriadsApart,
         NEW s \in Socket, NEW t \in Triad, NEW k \in Kind, ForwardOpen(s, t, k)
  PROVE  TriadsApart'
  <1> DEFINE id == nextId + 1
  <1>1. /\ LiveId' = LiveId \cup {id}
        /\ conn'[id].triad = t
        /\ \A i \in LiveId \ {id} : conn'[i].triad = conn[i].triad
    BY OpenTable DEF OwnInv
  <1>2. \A i \in LiveId : conn[i].triad # t
    BY DEF ForwardOpen, Duplicate
  <1>3. ASSUME NEW i \in LiveId', i # id
        PROVE  i \in LiveId /\ conn'[i].triad = conn[i].triad /\ conn'[i].triad # t
    BY <1>1, <1>2, <1>3
  <1> HIDE DEF id
  <1> QED
    BY <1>1, <1>3 DEF TriadsApart

\* What a step that is no Forward_Open and no removal does to the table.
TableKept ==
    LiveId' = LiveId /\ \A i \in LiveId : conn'[i].triad = conn[i].triad

\* A step of the device, seen from the table: it connects a socket, drops one
\* with all it owns, opens, closes, takes one connection out, takes all, or
\* keeps the table and the lists.
LEMMA TableSteps ==
  ASSUME TypeOK, [Next]_vars
  PROVE  \/ \E s \in Socket : Connect(s)
         \/ \E s \in Socket : Drop(s)
         \/ \E s \in Socket, t \in Triad, k \in Kind : ForwardOpen(s, t, k)
         \/ \E s \in Socket, t \in Triad : ForwardClose(s, t)
         \/ \E i \in LiveId : \E self : Remove({i}, self) /\ UNCHANGED <<open, owned, nextId>>
         \/ Remove(LiveId, {}) /\ UNCHANGED <<open, owned, nextId>>
         \/ TableKept /\ UNCHANGED <<open, owned, nextId>>
  <1> DEFINE Goal ==
               \/ \E i \in LiveId : \E self : Remove({i}, self) /\ UNCHANGED <<open, owned, nextId>>
               \/ Remove(LiveId, {}) /\ UNCHANGED <<open, owned, nextId>>
               \/ TableKept /\ UNCHANGED <<open, owned, nextId>>
  <1>0. LiveId \subseteq Id
    BY DEF LiveId
  <1>1. ASSUME NEW i \in Id, NEW h \in Host, NEW moved \in BOOLEAN, Datagram(i, h, moved)
        PROVE  Goal
    BY <1>0, <1>1, DatagramTable DEF Datagram, TableKept
  <1>2. ASSUME NEW i \in Id, GoesQuiet(i) PROVE Goal
    BY <1>0, <1>2, QuietTable DEF GoesQuiet, TableKept
  <1>3. ASSUME NEW i \in Id, WatchdogWake(i) PROVE Goal
    <2>1. CASE i \in LiveId /\ Expired(i)
      BY <1>3, <2>1 DEF WatchdogWake
    <2>2. CASE ~(i \in LiveId /\ Expired(i))
      BY <1>3, <2>2 DEF WatchdogWake, TableKept, LiveId
    <2> QED
      BY <2>1, <2>2
  <1>4. ASSUME NEW i \in Id, FirstUdpTimeout(i) PROVE Goal
    <2>1. CASE i \in LiveId /\ ~conn[i].first
      BY <1>4, <2>1 DEF FirstUdpTimeout
    <2>2. CASE ~(i \in LiveId /\ ~conn[i].first)
      BY <1>4, <2>2 DEF FirstUdpTimeout, TableKept, LiveId
    <2> QED
      BY <2>1, <2>2
  <1>5. CASE CloseRemoves
    BY <1>5 DEF CloseRemoves
  <1>6. ASSUME UNCHANGED <<conn, open, owned, nextId>> PROVE Goal
    BY <1>6 DEF TableKept, LiveId
  <1> QED
    BY <1>1, <1>2, <1>3, <1>4, <1>5, <1>6
       DEF Next, vars, ProductionWake, CloseBegin, CloseCancels

LEMMA ApartNext == OwnInv /\ TriadsApart /\ [Next]_vars => TriadsApart'
  <1> SUFFICES ASSUME OwnInv, TriadsApart, [Next]_vars PROVE TriadsApart'
    OBVIOUS
  <1>0. TypeOK /\ LiveId \in SUBSET Id
    BY DEF OwnInv, LiveId
  <1>1. ASSUME NEW s \in Socket, Connect(s) PROVE TriadsApart'
    BY <1>1, SameApart DEF Connect, LiveId
  <1>2. ASSUME NEW s \in Socket, Drop(s) PROVE TriadsApart'
    BY <1>0, <1>2, RemoveApart DEF Drop, Reaped
  <1>3. ASSUME NEW s \in Socket, NEW t \in Triad, NEW k \in Kind, ForwardOpen(s, t, k)
        PROVE  TriadsApart'
    BY <1>3, OpenApart
  <1>4. ASSUME NEW s \in Socket, NEW t \in Triad, ForwardClose(s, t) PROVE TriadsApart'
    BY <1>0, <1>4, RemoveApart DEF ForwardClose
  <1>5. ASSUME NEW i \in LiveId, NEW self, Remove({i}, self) PROVE TriadsApart'
    BY <1>0, <1>5, RemoveApart
  <1>6. CASE Remove(LiveId, {})
    BY <1>0, <1>6, RemoveApart
  <1>7. CASE TableKept
    BY <1>7, SameApart DEF TableKept
  <1> QED
    BY <1>0, <1>1, <1>2, <1>3, <1>4, <1>5, <1>6, <1>7, TableSteps

TableInv == OwnInv /\ TriadsApart

LEMMA TableInvariance == Spec => []TableInv
  <1>1. Init => TriadsApart
    BY BlankNotLive DEF Init, TriadsApart, LiveId
  <1>2. OwnInv /\ TriadsApart <=> TableInv
    BY DEF TableInv
  <1> QED
    BY <1>1, <1>2, ApartNext, OwnInvariance, PTL DEF Spec

-----------------------------------------------------------------------------
(***************************************************************************)
(* Leases.                                                                 *)
(***************************************************************************)
Holds(s, i) == i \in owned[s] /\ i \in LiveId

LEMMA LeaseOf ==
  /\ Leases \subseteq Socket \X Triad
  /\ \A s \in Socket, t \in Triad :
       <<s, t>> \in Leases <=> \E i \in LiveId : Holds(s, i) /\ conn[i].triad = t
  BY DEF Leases, Holds

LEMMA LeaseOfNext ==
  /\ Leases' \subseteq Socket \X Triad
  /\ \A s \in Socket, t \in Triad :
       <<s, t>> \in Leases' <=> \E i \in LiveId' : Holds(s, i)' /\ conn'[i].triad = t
  BY DEF Leases, Holds

\* There are no more leases than connections: a lease points to the connection
\* it stands for, and no two point to the same.
LEMMA LeasesBounded ==
  ASSUME TableInv
  PROVE  IsFiniteSet(LiveId) /\ IsFiniteSet(Leases) /\ Cardinality(Leases) <= Cardinality(LiveId)
  <1> DEFINE Stands(l, i) == Holds(l[1], i) /\ conn[i].triad = l[2]
             f == [l \in Leases |-> CHOOSE i \in LiveId : Stands(l, i)]
  <1>1. IsFiniteSet(LiveId)
    <2>1. IsFiniteSet(Id)
      BY BoundAssumption, FS_Interval DEF Id
    <2> QED
      BY <2>1, FS_Subset DEF LiveId
  <1>2. ASSUME NEW l \in Leases PROVE f[l] \in LiveId /\ Stands(l, f[l])
    <2>1. l[1] \in Socket /\ l[2] \in Triad /\ l = <<l[1], l[2]>>
      BY LeaseOf
    <2>2. \E i \in LiveId : Stands(l, i)
      BY <2>1, LeaseOf
    <2> QED
      BY <2>2
  <1>3. ASSUME NEW l \in Leases, NEW m \in Leases, f[l] = f[m] PROVE l = m
    <2>1. /\ l[1] \in Socket /\ m[1] \in Socket
          /\ l = <<l[1], l[2]>> /\ m = <<m[1], m[2]>>
      BY LeaseOf
    <2>2. Stands(l, f[l]) /\ Stands(m, f[l])
      BY <1>2, <1>3
    <2>3. l[1] = m[1]
      BY <2>1, <2>2 DEF Holds, TableInv, OwnInv, OwnedApart
    <2> QED
      BY <2>1, <2>2, <2>3
  <1> HIDE DEF f
  <1>4. f \in Injection(Leases, LiveId)
    <2>1. f \in [Leases -> LiveId]
      BY <1>2 DEF f
    <2> QED
      BY <1>3, <2>1 DEF Injection, IsInjective
  <1> QED
    BY <1>1, <1>4, FS_Injection

\* A triad is leased exactly when a connection in the table has it.
LEMMA LeasedLive ==
  ASSUME TableInv, NEW t \in Triad
  PROVE  Table!Leased(t) <=> \E i \in LiveId : conn[i].triad = t
  <1>1. Table!Leased(t) <=> \E s \in Socket : <<s, t>> \in Leases
    BY DEF Table!Leased
  <1> QED
    BY <1>1, LeaseOf DEF TableInv, OwnInv, LiveHeld, Holds

\* Taking one connection out of the table ends the lease of its triad.
LEMMA ReleaseStep ==
  ASSUME TableInv, NEW i \in LiveId, NEW self, Remove({i}, self), UNCHANGED open,
         \A s \in Socket : owned[s] \ {i} \subseteq owned'[s] /\ owned'[s] \subseteq owned[s]
  PROVE  Table!Release(conn[i].triad)
  <1> DEFINE t == conn[i].triad
  <1>0. t \in Triad /\ {i} \in SUBSET Id /\ TypeOK
    BY DEF TableInv, OwnInv, TriadsApart, LiveId
  <1>1. LiveId' = LiveId \ {i} /\ \A j \in LiveId' : conn'[j] = conn[j]
    BY <1>0, RemoveTable
  <1>2. Table!Leased(t)
    BY <1>0, LeasedLive
  <1>3. \A j \in LiveId' : conn'[j].triad # t
    BY <1>1 DEF TableInv, TriadsApart
  <1>4. \A s \in Socket, j \in LiveId' : Holds(s, j)' <=> Holds(s, j)
    BY <1>1 DEF Holds
  <1>5. ASSUME NEW s \in Socket, NEW u \in Triad
        PROVE  <<s, u>> \in Leases' <=> <<s, u>> \in Leases /\ u # t
    <2>1. ASSUME <<s, u>> \in Leases' PROVE <<s, u>> \in Leases /\ u # t
      BY <1>1, <1>3, <1>4, <2>1, LeaseOf, LeaseOfNext
    <2>2. ASSUME <<s, u>> \in Leases, u # t PROVE <<s, u>> \in Leases'
      <3>1. PICK j \in LiveId : Holds(s, j) /\ conn[j].triad = u
        BY <2>2, LeaseOf
      <3>2. j # i
        BY <2>2, <3>1
      <3>3. j \in LiveId' /\ Holds(s, j)' /\ conn'[j].triad = u
        BY <1>1, <1>4, <3>1, <3>2
      <3> QED
        BY <3>3, LeaseOfNext
    <2> QED
      BY <2>1, <2>2
  <1>6. Leases' = {l \in Leases : l[2] # t}
    <2>1. ASSUME NEW l \in Socket \X Triad PROVE l \in Leases' <=> l \in Leases /\ l[2] # t
      <3>1. l = <<l[1], l[2]>> /\ l[1] \in Socket /\ l[2] \in Triad
        OBVIOUS
      <3> HIDE DEF t
      <3> QED
        BY <1>5, <3>1
    <2> QED
      BY <2>1, LeaseOf, LeaseOfNext
  <1> QED
    BY <1>2, <1>6 DEF Table!Release

\* A Forward_Open is granted only to a socket that is served, for a triad
\* nobody holds, below the limit.
LEMMA GrantStep ==
  ASSUME TableInv, NEW s \in Socket, NEW t \in Triad, NEW k \in Kind, ForwardOpen(s, t, k)
  PROVE  Table!Grant(s, t)
  <1>0. PICK id \in Id : id = nextId + 1
    BY OpenTable DEF TableInv, OwnInv
  <1>1. /\ LiveId' = LiveId \cup {id}
        /\ conn'[id].triad = t
        /\ \A i \in LiveId \ {id} : conn'[i].triad = conn[i].triad
    BY <1>0, OpenTable DEF TableInv, OwnInv
  <1>2. owned' = [owned EXCEPT ![s] = owned[s] \cup {id}] /\ owned \in [Socket -> SUBSET Id]
    BY <1>0 DEF ForwardOpen, Owner, TableInv, OwnInv, TypeOK
  <1>3. id \notin LiveId /\ \A r \in Socket : id \notin owned[r]
    BY <1>0, <1>1 DEF TableInv, OwnInv, Fresh, TypeOK
  <1>4. ~Table!Leased(t)
    BY LeasedLive DEF ForwardOpen, Duplicate
  <1>5. Cardinality(Leases) < MaxConn
    <2>1. Cardinality(LiveId) < MaxConn
      <3>1. Cardinality(LiveId) \in Nat
        BY LeasesBounded, FS_CardinalityType
      <3> QED
        BY <3>1, BoundAssumption DEF ForwardOpen, Full
    <2>2. Cardinality(Leases) \in Nat /\ Cardinality(LiveId) \in Nat
      BY LeasesBounded, FS_CardinalityType
    <2> QED
      BY <2>1, <2>2, LeasesBounded, BoundAssumption
  <1>6. /\ \A r \in Socket, i \in LiveId : Holds(r, i)' <=> Holds(r, i)
        /\ \A r \in Socket : Holds(r, id)' <=> r = s
    BY <1>1, <1>2, <1>3 DEF Holds
  <1>7. ASSUME NEW r \in Socket, NEW u \in Triad
        PROVE  <<r, u>> \in Leases' <=> <<r, u>> \in Leases \/ (r = s /\ u = t)
    <2>1. ASSUME <<r, u>> \in Leases' PROVE <<r, u>> \in Leases \/ (r = s /\ u = t)
      <3>1. PICK i \in LiveId' : Holds(r, i)' /\ conn'[i].triad = u
        BY <2>1, LeaseOfNext
      <3>2. CASE i = id
        BY <1>1, <1>6, <3>1, <3>2
      <3>3. CASE i # id
        <4>1. i \in LiveId /\ Holds(r, i) /\ conn[i].triad = u
          BY <1>1, <1>6, <3>1, <3>3
        <4> QED
          BY <4>1, LeaseOf
      <3> QED
        BY <3>2, <3>3
    <2>2. ASSUME <<r, u>> \in Leases PROVE <<r, u>> \in Leases'
      <3>1. PICK i \in LiveId : Holds(r, i) /\ conn[i].triad = u
        BY <2>2, LeaseOf
      <3>2. i \in LiveId' /\ Holds(r, i)' /\ conn'[i].triad = u
        BY <1>1, <1>3, <1>6, <3>1
      <3> QED
        BY <3>2, LeaseOfNext
    <2>3. ASSUME r = s, u = t PROVE <<r, u>> \in Leases'
      <3>1. id \in LiveId' /\ Holds(s, id)' /\ conn'[id].triad = t
        BY <1>1, <1>6
      <3> QED
        BY <2>3, <3>1, LeaseOfNext
    <2> QED
      BY <2>1, <2>2, <2>3
  <1>8. Leases' = Leases \cup {<<s, t>>}
    <2>1. ASSUME NEW l \in Socket \X Triad PROVE l \in Leases' <=> l \in Leases \cup {<<s, t>>}
      <3>1. l = <<l[1], l[2]>> /\ l[1] \in Socket /\ l[2] \in Triad
        OBVIOUS
      <3>2. l \in Leases' <=> l \in Leases \/ (l[1] = s /\ l[2] = t)
        BY <1>7, <3>1
      <3>3. l = <<s, t>> <=> l[1] = s /\ l[2] = t
        BY <3>1
      <3> QED
        BY <3>2, <3>3
    <2> QED
      BY <2>1, LeaseOf, LeaseOfNext
  <1>9. s \in open /\ UNCHANGED open
    BY DEF ForwardOpen
  <1> QED
    BY <1>4, <1>5, <1>8, <1>9 DEF Table!Grant, Table!Cardinality, Cardinality

\* A socket that drops gives back its own leases and no other's.
LEMMA DropStep ==
  ASSUME TableInv, NEW s \in Socket, Drop(s)
  PROVE  Table!Drop(s)
  <1>0. TypeOK /\ Reaped(s) \in SUBSET Id
    BY DEF TableInv, OwnInv, Reaped, LiveId
  <1>1. /\ LiveId' = LiveId \ Reaped(s)
        /\ \A j \in LiveId' : conn'[j] = conn[j]
    BY <1>0, RemoveTable DEF Drop
  <1>2. \A r \in Socket : owned'[r] = IF r = s THEN {} ELSE owned[r]
    BY <1>0 DEF Drop, TypeOK
  <1>3. ASSUME NEW r \in Socket, NEW i \in LiveId, r # s
        PROVE  Holds(r, i) <=> Holds(r, i)'
    BY <1>1, <1>2, <1>3 DEF Holds, Reaped, TableInv, OwnInv, OwnedApart
  <1>4. ASSUME NEW r \in Socket, NEW u \in Triad
        PROVE  <<r, u>> \in Leases' <=> <<r, u>> \in Leases /\ r # s
    <2>1. ASSUME <<r, u>> \in Leases' PROVE <<r, u>> \in Leases /\ r # s
      <3>1. PICK i \in LiveId' : Holds(r, i)' /\ conn'[i].triad = u
        BY <2>1, LeaseOfNext
      <3>2. r # s
        BY <1>2, <3>1 DEF Holds
      <3>3. i \in LiveId /\ Holds(r, i) /\ conn[i].triad = u
        BY <1>1, <1>3, <3>1, <3>2
      <3> QED
        BY <3>2, <3>3, LeaseOf
    <2>2. ASSUME <<r, u>> \in Leases, r # s PROVE <<r, u>> \in Leases'
      <3>1. PICK i \in LiveId : Holds(r, i) /\ conn[i].triad = u
        BY <2>2, LeaseOf
      <3>2. Holds(r, i)'
        BY <1>3, <2>2, <3>1
      <3>3. i \in LiveId' /\ conn'[i].triad = u
        BY <1>1, <3>1, <3>2 DEF Holds
      <3> QED
        BY <3>2, <3>3, LeaseOfNext
    <2> QED
      BY <2>1, <2>2
  <1>5. Leases' = {l \in Leases : l[1] # s}
    <2>1. ASSUME NEW l \in Socket \X Triad PROVE l \in Leases' <=> l \in Leases /\ l[1] # s
      <3>1. l = <<l[1], l[2]>> /\ l[1] \in Socket /\ l[2] \in Triad
        OBVIOUS
      <3> QED
        BY <1>4, <3>1
    <2> QED
      BY <2>1, LeaseOf, LeaseOfNext
  <1>6. s \in open /\ open' = open \ {s}
    BY DEF Drop
  <1> QED
    BY <1>5, <1>6 DEF Table!Drop

\* Who holds what is left alone when the table and the lists are.
LEMMA LeasesKept ==
  ASSUME TableKept, \A s \in Socket : owned'[s] = owned[s]
  PROVE  Leases' = Leases
  <1>1. ASSUME NEW s \in Socket, NEW t \in Triad PROVE <<s, t>> \in Leases' <=> <<s, t>> \in Leases
    BY LeaseOf, LeaseOfNext DEF TableKept, Holds
  <1>2. ASSUME NEW l \in Socket \X Triad PROVE l \in Leases' <=> l \in Leases
    <2>1. l = <<l[1], l[2]>> /\ l[1] \in Socket /\ l[2] \in Triad
      OBVIOUS
    <2> QED
      BY <1>1, <2>1
  <1> QED
    BY <1>2, LeaseOf, LeaseOfNext

LEMMA ConnectStep ==
  ASSUME TableInv, NEW s \in Socket, Connect(s)
  PROVE  Table!Connect(s)
  <1>1. \A r \in Socket : owned'[r] = owned[r]
    BY DEF Connect, TableInv, OwnInv, OwnedServed, TypeOK
  <1>2. Leases' = Leases
    BY <1>1, LeasesKept DEF Connect, TableKept, LiveId
  <1> QED
    BY <1>2 DEF Connect, Table!Connect

LEMMA ShutdownStep ==
  ASSUME TableInv, Remove(LiveId, {}), UNCHANGED <<open, owned, nextId>>
  PROVE  Table!Shutdown
  <1>1. LiveId' = {}
    BY RemoveTable DEF TableInv, OwnInv, LiveId
  <1>2. Leases' = {}
    BY <1>1, LeaseOfNext
  <1> QED
    BY <1>2 DEF Table!Shutdown

LEMMA TableStep == TableInv /\ [Next]_vars => [Table!Next]_(Table!vars)
  <1> SUFFICES ASSUME TableInv, [Next]_vars PROVE [Table!Next]_(Table!vars)
    OBVIOUS
  <1>0. TypeOK
    BY DEF TableInv, OwnInv
  <1>1. ASSUME NEW s \in Socket, Connect(s) PROVE Table!Next
    BY <1>1, ConnectStep DEF Table!Next
  <1>2. ASSUME NEW s \in Socket, Drop(s) PROVE Table!Next
    BY <1>2, DropStep DEF Table!Next
  <1>3. ASSUME NEW s \in Socket, NEW t \in Triad, NEW k \in Kind, ForwardOpen(s, t, k)
        PROVE  Table!Next
    BY <1>3, GrantStep DEF Table!Next
  <1>4. ASSUME NEW s \in Socket, NEW t \in Triad, ForwardClose(s, t) PROVE Table!Next
    <2>1. PICK i \in LiveId : /\ conn[i].triad = t
                              /\ owned' = [owned EXCEPT ![s] = @ \ {i}]
                              /\ Remove({i}, {})
      BY <1>4 DEF ForwardClose
    <2>2. \A r \in Socket : owned[r] \ {i} \subseteq owned'[r] /\ owned'[r] \subseteq owned[r]
      BY <1>0, <2>1 DEF TypeOK
    <2>3. Table!Release(t)
      BY <1>4, <2>1, <2>2, ReleaseStep DEF ForwardClose
    <2> QED
      BY <2>3 DEF Table!Next
  <1>5. ASSUME NEW i \in LiveId, NEW self, Remove({i}, self), UNCHANGED <<open, owned, nextId>>
        PROVE  Table!Next
    <2>1. Table!Release(conn[i].triad) /\ conn[i].triad \in Triad
      BY <1>5, ReleaseStep DEF TableInv, TriadsApart
    <2> QED
      BY <2>1 DEF Table!Next
  <1>6. CASE Remove(LiveId, {}) /\ UNCHANGED <<open, owned, nextId>>
    BY <1>6, ShutdownStep DEF Table!Next
  <1>7. CASE TableKept /\ UNCHANGED <<open, owned, nextId>>
    BY <1>7, LeasesKept DEF Table!vars
  <1> QED
    BY <1>0, <1>1, <1>2, <1>3, <1>4, <1>5, <1>6, <1>7, TableSteps

\* Whatever ids, timers, datagrams and callbacks do, an originator sees a table
\* that leases each triad to one connected peer, below the limit, and takes
\* everything back from a peer that leaves.
THEOREM TableImplemented == Spec => ImplementsTable
  <1>1. Init => Table!Init
    <2> SUFFICES ASSUME Init PROVE Table!Init
      OBVIOUS
    <2>1. LiveId = {}
      BY BlankNotLive DEF Init, LiveId
    <2>2. Leases = {}
      BY <2>1, LeaseOf
    <2> QED
      BY <2>2 DEF Init, Table!Init
  <1> QED
    BY <1>1, TableStep, TableInvariance, PTL DEF Spec, Table!Spec, ImplementsTable
=============================================================================
