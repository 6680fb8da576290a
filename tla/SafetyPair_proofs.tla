-------------------------- MODULE SafetyPair_proofs --------------------------
(***************************************************************************)
(* Proofs about SafetyPair.  The ownership of the target is an invariant   *)
(* of the target alone: TargetStep shows that each of its actions keeps    *)
(* it, and PairStep that each step of the pairs is one of those actions or *)
(* leaves the target as it is.  The second part is about the originators.  *)
(***************************************************************************)
EXTENDS SafetyPair, TLAPS

\* Ids and validators are given out in order and never twice.
Fresh ==
    /\ \A i \in Id : i > nextId => conn[i] = NoConn
    /\ nextSv <= nextId
    /\ \A i \in SafetyId : conn[i].sv \in 1 .. nextSv
    /\ \A i, j \in SafetyId : i # j => conn[i].sv # conn[j].sv

\* A triad names one connection.
Triads == \A i, j \in LiveId : i # j => ~SameTriad(conn[i], conn[j].orig, conn[j].serial)

IInv ==
    /\ TargetTypeOK
    /\ Fresh
    /\ Triads
    /\ before \subseteq Id
    /\ BoundByOne
    /\ UnownedWhenIdle

\* Less than a cycle apart, two numbers have two remainders.
LEMMA Remainder ==
    ASSUME NEW w \in Nat \ {0}, NEW a \in Nat
    PROVE  /\ a % w \in 0 .. w - 1
           /\ a \div w \in Nat
           /\ a = w * (a \div w) + (a % w)
OBVIOUS

LEMMA OneCycle ==
    ASSUME NEW w \in Nat \ {0}, NEW k \in Int, w * k > 0, w * k < w
    PROVE  FALSE
<1>1. CASE k <= 0
    BY <1>1
<1>2. CASE k >= 1
    BY <1>2
<1> QED BY <1>1, <1>2

LEMMA RemaindersDiffer ==
    ASSUME NEW w \in Nat \ {0}, NEW a \in Nat, NEW b \in Nat, a < b, b < a + w
    PROVE  a % w # b % w
<1> SUFFICES ASSUME a % w = b % w PROVE FALSE
    OBVIOUS
<1> DEFINE r == a % w
<1>a. r \in 0 .. w - 1 /\ a \div w \in Nat /\ a = w * (a \div w) + r
    BY Remainder
<1>b. b \div w \in Nat /\ b = w * (b \div w) + r
    BY Remainder
<1> HIDE DEF r
<1>1. PICK i \in Nat, j \in Nat : a = w * i + r /\ b = w * j + r
    BY <1>a, <1>b, Zenon
<1>2. b - a = w * (j - i)
    BY <1>1, <1>a
<1>3. w * (j - i) > 0 /\ w * (j - i) < w
    BY <1>2
<1>4. j - i \in Int
    BY <1>1
<1> QED BY <1>3, <1>4, OneCycle

LEMMA ConnectionFields ==
    ASSUME NEW c \in Connection
    PROVE  c.kind \in Kind /\ c.orig \in Originator /\ c.sv \in Nat
BY IdAssumption DEF Connection

LEMMA SvInstIdTyped ==
    ASSUME NEW c \in Connection
    PROVE  SvInstId(c) \in 0 .. Word - 1
BY ConnectionFields, WordAssumption, Remainder DEF SvInstId

\* Two safety connections differ in every seed: the triads of the originators'
\* differ, the validators of the target's do within a cycle, and a device is no
\* originator.
LEMMA SeedsFromFresh == TargetTypeOK /\ Fresh /\ Triads => SeedsDistinct
<1> SUFFICES ASSUME TargetTypeOK, Fresh, Triads,
                    NEW i \in SafetyId, NEW j \in SafetyId, i # j
             PROVE  /\ OriginatorPid(conn[i]) # OriginatorPid(conn[j])
                    /\ SameCycle(conn[i], conn[j]) =>
                           /\ TargetPid(conn[i]) # TargetPid(conn[j])
                           /\ ConsumerCid(conn[i]) # ConsumerCid(conn[j])
    BY DEF SeedsDistinct
<1>1. /\ conn[i] \in Connection /\ conn[j] \in Connection
      /\ i \in LiveId /\ j \in LiveId
    BY DEF TargetTypeOK, SafetyId, LiveId, NoConn
<1>2. conn[i].sv # conn[j].sv
    BY DEF Fresh
<1>3. conn[i].orig # conn[j].orig \/ conn[i].serial # conn[j].serial
    BY <1>1 DEF Triads, SameTriad
<1>4. conn[i].orig # Device /\ conn[j].orig # Device
    <2>1. conn[i].orig \in Originator /\ conn[j].orig \in Originator
        BY <1>1, ConnectionFields
    <2>2. Device \notin Originator
        BY NamesAssumption
    <2> QED BY <2>1, <2>2
<1>5. SameCycle(conn[i], conn[j]) => SvInstId(conn[i]) # SvInstId(conn[j])
    <2> SUFFICES ASSUME SameCycle(conn[i], conn[j]) PROVE SvInstId(conn[i]) # SvInstId(conn[j])
        OBVIOUS
    <2> DEFINE a == conn[i].sv
               b == conn[j].sv
    <2>1. a \in Nat /\ b \in Nat /\ a # b /\ a < b + Word /\ b < a + Word
        BY <1>1, <1>2, ConnectionFields DEF SameCycle
    <2>2. SvInstId(conn[i]) = a % Word /\ SvInstId(conn[j]) = b % Word
        BY DEF SvInstId
    <2> HIDE DEF a, b
    <2>3. a < b \/ b < a
        BY <2>1
    <2> QED BY <2>1, <2>2, <2>3, WordAssumption, RemaindersDiffer
<1>6. OriginatorPid(conn[i]) # OriginatorPid(conn[j])
    BY <1>3 DEF OriginatorPid, Seed
<1>7. SameCycle(conn[i], conn[j]) => /\ TargetPid(conn[i]) # TargetPid(conn[j])
                                     /\ ConsumerCid(conn[i]) # ConsumerCid(conn[j])
    BY <1>3, <1>4, <1>5 DEF TargetPid, ConsumerCid, Seed
<1> QED BY <1>6, <1>7

LEMMA TargetStart == TargetInit => IInv
<1> SUFFICES ASSUME TargetInit PROVE IInv
    OBVIOUS
<1>1. LiveId = {} /\ SafetyId = {}
    BY DEF TargetInit, LiveId, SafetyId, NoConn
<1>2. TargetTypeOK
    BY IdAssumption DEF TargetInit, TargetTypeOK, Unid, Id
<1>3. Fresh
    BY <1>1 DEF TargetInit, Fresh, Id
<1>4. Triads /\ BoundByOne /\ UnownedWhenIdle /\ before \subseteq Id
    BY <1>1 DEF TargetInit, Triads, BoundByOne, UnownedWhenIdle
<1> QED BY <1>2, <1>3, <1>4 DEF IInv
(***************************************************************************)
(* Each action of the target.                                              *)
(***************************************************************************)
\* An id past nextId is no connection, and a new one takes its place alone.
LEMMA AdmitTable ==
    ASSUME IInv, NEW r \in OpenRequest, NEW s \in Socket, Admit(r, s)
    PROVE  /\ nextId + 1 \in Id /\ nextId + 1 \notin LiveId
           /\ Entry(r, s) \in Connection
           /\ conn'[nextId + 1] = Entry(r, s)
           /\ \A i \in Id : i # nextId + 1 => conn'[i] = conn[i]
           /\ conn' \in [Id -> Connection \cup {NoConn}]
           /\ LiveId' = LiveId \cup {nextId + 1}
           /\ SafetyId' = IF r.kind = "standard" THEN SafetyId ELSE SafetyId \cup {nextId + 1}
<1>1. nextId + 1 \in Id
    BY IdAssumption DEF Admit, IInv, TargetTypeOK, Id
<1>2. nextId + 1 \notin LiveId
    BY <1>1, IdAssumption DEF IInv, Fresh, TargetTypeOK, LiveId, NoConn
<1>3. ValidatorId \in 0 .. MaxId
    BY IdAssumption DEF IInv, TargetTypeOK, Fresh, Admit, ValidatorId
<1>4. Entry(r, s) \in Connection /\ Entry(r, s).kind = r.kind /\ r.kind \in Kind
    <2>1. /\ r.kind \in Kind /\ r.orig \in Originator /\ r.serial \in Serial
          /\ r.scid \in Config \cup {Unset}
        BY DEF OpenRequest
    <2>2. (IF r.kind = "standard" THEN Unset ELSE r.scid) \in Config \cup {Unset}
        BY <2>1
    <2>3. (IF r.kind = "standard" THEN 0 ELSE ValidatorId) \in 0 .. MaxId
        BY <1>3, IdAssumption
    <2> QED BY <2>1, <2>2, <2>3 DEF Entry, Connection
<1>5. /\ conn \in [Id -> Connection \cup {NoConn}]
      /\ conn' = [conn EXCEPT ![nextId + 1] = Entry(r, s)]
    BY DEF IInv, TargetTypeOK, Admit
<1>6. /\ conn'[nextId + 1] = Entry(r, s)
      /\ \A i \in Id : i # nextId + 1 => conn'[i] = conn[i]
      /\ conn' \in [Id -> Connection \cup {NoConn}]
    BY <1>1, <1>4, <1>5
<1>7. LiveId' = LiveId \cup {nextId + 1}
    BY <1>1, <1>4, <1>6 DEF LiveId, Kind
<1>8. SafetyId' = IF r.kind = "standard" THEN SafetyId ELSE SafetyId \cup {nextId + 1}
    BY <1>1, <1>2, <1>4, <1>6, <1>7 DEF SafetyId, IsSafety, LiveId
<1> QED BY <1>1, <1>2, <1>3, <1>4, <1>6, <1>7, <1>8

LEMMA AdmitStep ==
    ASSUME IInv, NEW r \in OpenRequest, NEW s \in Socket, Admit(r, s)
    PROVE  IInv'
<1> DEFINE new == nextId + 1
<1>1. /\ new \in Id /\ new \notin LiveId
      /\ Entry(r, s) \in Connection
      /\ conn'[new] = Entry(r, s)
      /\ \A i \in Id : i # new => conn'[i] = conn[i]
      /\ conn' \in [Id -> Connection \cup {NoConn}]
      /\ LiveId' = LiveId \cup {new}
      /\ SafetyId' = IF r.kind = "standard" THEN SafetyId ELSE SafetyId \cup {new}
    BY AdmitTable
<1>2. /\ nextId \in 0 .. MaxId /\ nextId' = new /\ new \in 0 .. MaxId
      /\ nextSv \in 0 .. MaxId /\ nextSv <= nextId
      /\ nextSv' = IF r.kind = "standard" THEN nextSv ELSE nextSv + 1
    BY IdAssumption DEF IInv, TargetTypeOK, Fresh, Admit, Configure
<1>3. TargetTypeOK'
    <2>1. /\ nextSv' \in 0 .. MaxId
          /\ owned' \in [Socket -> SUBSET Id]
        BY <1>1, <1>2, IdAssumption DEF Admit, IInv, TargetTypeOK
    <2>2. /\ scid' \in Config \cup {Unset} /\ mirror' \in Config \cup {Unset}
          /\ owner' \in Originator \cup {None}
        BY DEF Admit, Configure, Bound, ownership, IInv, TargetTypeOK, OpenRequest
    <2>3. /\ tunid' \in Unid /\ proposed' \in NewUnid \cup {None} /\ before' \subseteq Id
        BY DEF Admit, naming, IInv, TargetTypeOK
    <2> QED BY <1>1, <1>2, <2>1, <2>2, <2>3 DEF TargetTypeOK
<1>4. Fresh'
    <2>1. ASSUME NEW i \in Id, i > nextId' PROVE conn'[i] = NoConn
        BY <1>1, <1>2, <2>1 DEF IInv, Fresh, Id
    <2>2. nextSv' <= nextId'
        BY <1>2
    <2>3. \A i \in SafetyId : conn'[i] = conn[i] /\ conn[i].sv \in 1 .. nextSv
        BY <1>1 DEF IInv, Fresh, SafetyId, LiveId
    <2>4. r.kind # "standard" => Entry(r, s).sv = nextSv + 1
        BY DEF Entry, ValidatorId
    <2>5. \A i \in SafetyId' : conn'[i].sv \in 1 .. nextSv'
        BY <1>1, <1>2, <2>3, <2>4
    <2>6. \A i, j \in SafetyId' : i # j => conn'[i].sv # conn'[j].sv
        <3>1. \A i, j \in SafetyId : i # j => conn[i].sv # conn[j].sv
            BY DEF IInv, Fresh
        <3> QED BY <1>1, <1>2, <2>3, <2>4, <3>1
    <2> QED BY <2>1, <2>2, <2>5, <2>6 DEF Fresh
<1>5. Triads'
    <2>1. \A i \in LiveId : ~SameTriad(conn[i], r.orig, r.serial)
        BY DEF Admit, Refused
    <2>2. Entry(r, s).orig = r.orig /\ Entry(r, s).serial = r.serial
        BY DEF Entry
    <2>3. \A i \in LiveId : conn'[i] = conn[i]
        BY <1>1 DEF LiveId
    <2> QED BY <1>1, <2>1, <2>2, <2>3 DEF IInv, Triads, SameTriad
<1>6. before' \subseteq Id
    BY DEF IInv, Admit
<1>7. BoundByOne' /\ UnownedWhenIdle'
    <2>1. CASE r.kind = "standard"
        <3>1. SafetyId' = SafetyId /\ UNCHANGED <<ownership, before>>
            BY <1>1, <2>1 DEF Admit
        <3>2. \A i \in SafetyId : conn'[i] = conn[i]
            BY <1>1 DEF SafetyId, LiveId
        <3> QED BY <3>1, <3>2 DEF IInv, BoundByOne, UnownedWhenIdle, ownership
    <2>2. CASE r.kind # "standard"
        <3>1. /\ SafetyId' = SafetyId \cup {new}
              /\ scid' = (IF scid = Unset THEN r.scid ELSE scid)
              /\ before' = before
            BY <1>1, <2>2 DEF Admit, Configure, Bound
        <3>2. \A i \in SafetyId : conn'[i] = conn[i]
            BY <1>1 DEF SafetyId, LiveId
        <3>3. Entry(r, s).scid = r.scid
            BY <2>2 DEF Entry
        <3>4. scid # Unset /\ r.scid # Unset => r.scid = scid
            BY <2>2 DEF Admit, Refused, SafetyRefuses
        <3>5. BoundByOne'
            BY <1>1, <3>1, <3>2, <3>3, <3>4 DEF IInv, BoundByOne
        <3> QED BY <3>1, <3>5 DEF UnownedWhenIdle
    <2> QED BY <2>1, <2>2
<1> QED BY <1>3, <1>4, <1>5, <1>6, <1>7 DEF IInv

\* Removal takes the given ids out of the table and leaves the others.
LEMMA RemoveTable ==
    ASSUME IInv, NEW ids \in SUBSET Id, RemoveAll(ids)
    PROVE  /\ conn' \in [Id -> Connection \cup {NoConn}]
           /\ LiveId' = LiveId \ ids
           /\ SafetyId' = SafetyId \ ids
           /\ \A i \in LiveId' : conn'[i] = conn[i]
<1>1. \A i \in Id : conn'[i] = IF i \in ids THEN NoConn ELSE conn[i]
    BY DEF RemoveAll
<1>2. conn' \in [Id -> Connection \cup {NoConn}]
    BY <1>1 DEF IInv, TargetTypeOK, RemoveAll
<1>3. LiveId' = LiveId \ ids
    BY <1>1 DEF LiveId, NoConn
<1>4. \A i \in LiveId' : conn'[i] = conn[i]
    BY <1>1, <1>3 DEF LiveId
<1>5. SafetyId' = SafetyId \ ids
    BY <1>3, <1>4 DEF SafetyId, IsSafety
<1> QED BY <1>2, <1>3, <1>4, <1>5

LEMMA RemoveStep ==
    ASSUME IInv, NEW ids \in SUBSET Id, RemoveAll(ids), owned' \in [Socket -> SUBSET Id]
    PROVE  IInv'
<1>1. /\ conn' \in [Id -> Connection \cup {NoConn}]
      /\ LiveId' = LiveId \ ids
      /\ SafetyId' = SafetyId \ ids
      /\ \A i \in LiveId' : conn'[i] = conn[i]
    BY RemoveTable
<1>2. UNCHANGED <<nextId, nextSv, naming>> /\ before' = before \ ids
    BY DEF RemoveAll
<1>3. \A i \in Id : conn'[i] = conn[i] \/ conn'[i] = NoConn
    BY DEF RemoveAll
<1>4. \A i \in SafetyId' : i \in SafetyId /\ i \in LiveId' /\ conn'[i] = conn[i]
    BY <1>1 DEF SafetyId
<1>5. \/ scid' = Unset /\ mirror' = Unset /\ owner' = None /\ SafetyId' = {}
      \/ UNCHANGED ownership /\ (SafetyId' = {} => SafetyId = {})
    BY <1>1 DEF RemoveAll, AnyLeft
<1>6. TargetTypeOK'
    BY <1>1, <1>2, <1>5 DEF TargetTypeOK, IInv, ownership, naming
<1>7. Fresh'
    <2>1. \A i \in Id : i > nextId' => conn'[i] = NoConn
        BY <1>2, <1>3 DEF IInv, Fresh
    <2> QED BY <2>1, <1>2, <1>4 DEF IInv, Fresh
<1>8. Triads'
    BY <1>1 DEF IInv, Triads
<1>9. BoundByOne' /\ UnownedWhenIdle'
    BY <1>2, <1>4, <1>5, <1>1 DEF IInv, BoundByOne, UnownedWhenIdle, ownership
<1> QED BY <1>2, <1>6, <1>7, <1>8, <1>9 DEF IInv

LEMMA SuperviseStep == ASSUME IInv, Supervise PROVE IInv'
<1>1. UNCHANGED <<conn, nextId, nextSv, owned>>
    BY DEF Supervise, ResetOwnership, ProposeTunid, ApplyTunid
<1>2. LiveId' = LiveId /\ SafetyId' = SafetyId
    BY <1>1 DEF LiveId, SafetyId, IsSafety
<1>3. Fresh' /\ Triads'
    BY <1>1, <1>2 DEF IInv, Fresh, Triads
<1>4. TargetTypeOK'
    BY <1>1 DEF IInv, TargetTypeOK, Supervise, ResetOwnership, ProposeTunid, ApplyTunid,
                ownership, LiveId, Unid
<1>5. BoundByOne' /\ UnownedWhenIdle'
    <2>1. CASE ResetOwnership
        BY <1>1, <1>2, <2>1 DEF IInv, BoundByOne, UnownedWhenIdle, ResetOwnership, SafetyId
    <2>2. CASE UNCHANGED <<ownership, before>>
        BY <1>1, <1>2, <2>2 DEF IInv, BoundByOne, UnownedWhenIdle, ownership
    <2> QED BY <2>1, <2>2 DEF Supervise, ProposeTunid, ApplyTunid
<1>6. before' \subseteq Id
    BY <1>4 DEF TargetTypeOK
<1> QED BY <1>3, <1>4, <1>5, <1>6 DEF IInv

LEMMA TargetStep == IInv /\ [TargetNext]_targetVars => IInv'
<1> SUFFICES ASSUME IInv, [TargetNext]_targetVars PROVE IInv'
    OBVIOUS
<1>0. owned \in [Socket -> SUBSET Id]
    BY DEF IInv, TargetTypeOK
<1>1. CASE \E r \in OpenRequest, s \in Socket : Admit(r, s)
    BY <1>1, AdmitStep
<1>2. CASE \E o \in Originator, n \in Serial, s \in Socket : ForwardClose(o, n, s)
    <2>1. PICK o \in Originator, n \in Serial, s \in Socket : ForwardClose(o, n, s)
        BY <1>2
    <2>2. WithTriad(o, n) \in SUBSET Id
        BY DEF WithTriad, LiveId
    <2>3. owned' \in [Socket -> SUBSET Id]
        BY <1>0, <2>1, <2>2 DEF ForwardClose
    <2> QED BY <2>1, <2>2, <2>3, RemoveStep DEF ForwardClose
<1>3. CASE \E i \in Id : TimesOut(i)
    <2>1. PICK i \in Id : TimesOut(i)
        BY <1>3
    <2> QED BY <1>0, <2>1, RemoveStep DEF TimesOut
<1>4. CASE \E s \in Socket : Reap(s)
    <2>1. PICK s \in Socket : Reap(s)
        BY <1>4
    <2>2. owned[s] \cap LiveId \in SUBSET Id
        BY DEF LiveId
    <2>3. owned' \in [Socket -> SUBSET Id]
        BY <1>0, <2>1 DEF Reap
    <2> QED BY <2>1, <2>2, <2>3, RemoveStep DEF Reap
<1>5. CASE Supervise
    BY <1>5, SuperviseStep
<1>6. CASE UNCHANGED targetVars
    BY <1>6 DEF targetVars, ownership, naming, IInv, TargetTypeOK, Fresh, Triads, BoundByOne,
                UnownedWhenIdle, SafetyId, LiveId, IsSafety
<1> QED BY <1>1, <1>2, <1>3, <1>4, <1>5, <1>6 DEF TargetNext

(***************************************************************************)
(* The pairs.                                                              *)
(***************************************************************************)
PairType == [stage : Stage, base : Serial, server : HalfType, client : HalfType]

LEMMA StagesTyped ==
    ASSUME NEW stage \in Stage, NEW ok
    PROVE  StageAfter(stage, ok) \in Stage
BY DEF StageAfter, Stage, Waiting

LEMMA SecondSerialTyped == ASSUME NEW base \in Serial PROVE SecondSerial(base) \in Serial
BY SerialAssumption DEF SecondSerial, Serial

\* What a pair writes is a request.
LEMMA RequestTyped == ASSUME Typed, NEW p \in Pair PROVE RequestOf(p) \in Message
<1>1. pair[p] \in PairType
    BY DEF Typed, PairType
<1>2. pair[p].base \in Serial
    BY <1>1 DEF PairType
<1>3. SerialIn(p, pair[p].stage) \in Serial
    BY <1>2, SecondSerialTyped DEF SerialIn
<1>4. /\ OrigOf[p] \in Originator /\ ConfigOf[p] \in Config \cup {Unset}
      /\ MarkedOf[p] \in BOOLEAN /\ FirstUnid \in Unid
    BY PairAssumption DEF Unid
<1>5. ASSUME NEW kind \in Kind PROVE OpenRequestOf(p, kind) \in OpenRequest
    BY <1>3, <1>4, <1>5 DEF OpenRequestOf, OpenRequest
<1>6. OpenRequestOf(p, "server") \in OpenRequest /\ OpenRequestOf(p, "client") \in OpenRequest
    BY <1>5 DEF Kind
<1> QED BY <1>3, <1>4, <1>6 DEF RequestOf, Message

\* The message the target is about to handle.
LEMMA HeadTyped ==
    ASSUME Typed, NEW s \in Scanner, wire[s] # <<>>
    PROVE  /\ Head(wire[s]) \in Message
           /\ [wire EXCEPT ![s] = Tail(@)] \in [Scanner -> Seq(Message)]
           /\ Head(wire[s]).open => Head(wire[s]).req \in OpenRequest
           /\ ~Head(wire[s]).open => /\ Head(wire[s]).req.orig \in Originator
                                     /\ Head(wire[s]).req.serial \in Serial
<1>1. wire \in [Scanner -> Seq(Message)] /\ wire[s] \in Seq(Message)
    BY DEF Typed
<1>2. Head(wire[s]) \in Message /\ Tail(wire[s]) \in Seq(Message)
    BY <1>1
<1> QED BY <1>1, <1>2 DEF Message

\* A step of the pairs is a step of the target or leaves it as it is.
LEMMA TargetOfStep == Typed /\ [Next]_vars => [TargetNext]_targetVars
<1> SUFFICES ASSUME Typed, [Next]_vars PROVE [TargetNext]_targetVars
    OBVIOUS
<1>0. Scanner \subseteq Socket /\ OtherSocket \subseteq Socket
    BY PairAssumption DEF Scanner
<1>1. CASE \E p \in Pair : Proceed(p) \/ Close(p) \/ \E b \in Clock : Open(p, b)
    BY <1>1 DEF Proceed, Write, Receive, Raise, Close, Open
<1>2. ASSUME NEW s \in Scanner, ServeOpen(s) PROVE [TargetNext]_targetVars
    BY <1>0, <1>2, HeadTyped DEF ServeOpen, TargetNext
<1>3. ASSUME NEW s \in Scanner, ServeClose(s) PROVE [TargetNext]_targetVars
    BY <1>0, <1>3, HeadTyped DEF ServeClose, TargetNext
<1>4. ASSUME NEW s \in Scanner, Drop(s) \/ Connect(s) PROVE [TargetNext]_targetVars
    BY <1>4 DEF Drop, Connect
<1>5. ASSUME NEW s \in Scanner, Notice(s) PROVE [TargetNext]_targetVars
    BY <1>0, <1>5 DEF Notice, TargetNext
<1>6. CASE Other
    BY <1>0, <1>6, OtherAssumption DEF Other, TargetNext
<1>7. CASE UNCHANGED vars
    BY <1>7 DEF vars
<1> QED BY <1>1, <1>2, <1>3, <1>4, <1>5, <1>6, <1>7 DEF Next, Serve

\* The records of the pairs keep their form.
LEMMA PairRecords ==
    ASSUME Typed, NEW p \in Pair,
           NEW stage \in Stage, NEW server \in HalfType, NEW client \in HalfType
    PROVE  [pair EXCEPT ![p].stage = stage, ![p].server = server, ![p].client = client]
               \in [Pair -> PairType]
<1>1. pair \in [Pair -> PairType]
    BY DEF Typed, PairType
<1>2. [pair[p] EXCEPT !.stage = stage, !.server = server, !.client = client] \in PairType
    BY <1>1 DEF PairType
<1> QED BY <1>1, <1>2

LEMMA SentTyped ==
    ASSUME Typed, NEW p \in Pair, NEW stage, LetGo(p, stage)
    PROVE  sent' \subseteq Pair
BY DEF Typed, LetGo

\* A reply the target makes.
LEMMA ReplyTyped ==
    ASSUME Typed, NEW s \in Scanner, NEW reply \in ReplyType, wire[s] # <<>>, Answers(s, reply)
    PROVE  /\ wire' \in [Scanner -> Seq(Message)]
           /\ stream' \in [Scanner -> Seq(ReplyType)]
           /\ UNCHANGED <<link, sock, sent, pair>>
<1>1. wire' \in [Scanner -> Seq(Message)]
    BY HeadTyped DEF Answers
<1>2. stream \in [Scanner -> Seq(ReplyType)]
    BY DEF Typed
<1>3. Append(stream[s], reply) \in Seq(ReplyType)
    BY <1>2
<1>4. stream' \in [Scanner -> Seq(ReplyType)]
    BY <1>2, <1>3 DEF Answers
<1> QED BY <1>1, <1>4 DEF Answers

LEMMA HeadReplyTyped ==
    ASSUME Typed, NEW s \in Scanner, stream[s] # <<>>
    PROVE  /\ Head(stream[s]) \in ReplyType
           /\ [stream EXCEPT ![s] = Tail(@)] \in [Scanner -> Seq(ReplyType)]
           /\ Half(Head(stream[s])) \in HalfType
<1>1. stream \in [Scanner -> Seq(ReplyType)] /\ stream[s] \in Seq(ReplyType)
    BY DEF Typed
<1>2. Head(stream[s]) \in ReplyType /\ Tail(stream[s]) \in Seq(ReplyType)
    BY <1>1
<1> QED BY <1>1, <1>2 DEF ReplyType, Half, HalfType

LEMMA PairStep == IInv /\ Typed /\ [Next]_vars => Typed'
<1> SUFFICES ASSUME IInv, Typed, [Next]_vars PROVE Typed'
    OBVIOUS
<1>0. TargetTypeOK'
    BY TargetOfStep, TargetStep DEF IInv
<1>t. /\ link \subseteq Scanner /\ sock \subseteq Scanner /\ sent \subseteq Pair
      /\ wire \in [Scanner -> Seq(Message)] /\ stream \in [Scanner -> Seq(ReplyType)]
      /\ pair \in [Pair -> PairType]
    BY DEF Typed, PairType
<1>n. None \in {Device, None} /\ 0 \in 0 .. MaxId /\ 0 \in 0 .. Word - 1
    BY IdAssumption, WordAssumption
<1>1. ASSUME NEW p \in Pair, Write(p) PROVE Typed'
    <2>1. /\ ScannerOf[p] \in Scanner /\ RequestOf(p) \in Message
        BY PairAssumption, RequestTyped
    <2>2. Append(wire[ScannerOf[p]], RequestOf(p)) \in Seq(Message)
        BY <1>t, <2>1
    <2>3. wire' \in [Scanner -> Seq(Message)]
        BY <1>1, <1>t, <2>1, <2>2 DEF Write
    <2> QED BY <1>0, <1>1, <1>t, <2>3 DEF Write, Typed, PairType
<1>2. ASSUME NEW p \in Pair, Receive(p) PROVE Typed'
    <2> DEFINE s == ScannerOf[p]
    <2> DEFINE r == Head(stream[s])
    <2>1. s \in Scanner /\ stream[s] # <<>>
        BY <1>2, PairAssumption DEF Receive
    <2>2. /\ [stream EXCEPT ![s] = Tail(@)] \in [Scanner -> Seq(ReplyType)]
          /\ Half(r) \in HalfType
        BY <2>1, HeadReplyTyped
    <2>3. /\ pair[p].stage \in Stage /\ pair[p].server \in HalfType /\ pair[p].client \in HalfType
        BY <1>t DEF PairType
    <2>4. StageAfter(pair[p].stage, r.ok) \in Stage
        BY <2>3, StagesTyped
    <2>5. pair' \in [Pair -> PairType]
        <3> DEFINE stage == StageAfter(pair[p].stage, r.ok)
        <3> DEFINE server == IF pair[p].stage = "open_server" /\ r.ok THEN Half(r) ELSE pair[p].server
        <3> DEFINE client == IF pair[p].stage = "open_client" /\ r.ok THEN Half(r) ELSE pair[p].client
        <3>1. stage \in Stage /\ server \in HalfType /\ client \in HalfType
            BY <2>2, <2>3, <2>4
        <3>2. [pair EXCEPT ![p].stage = stage, ![p].server = server, ![p].client = client]
                  \in [Pair -> PairType]
            BY <3>1, PairRecords
        <3> HIDE DEF stage, server, client
        <3>3. pair' = [pair EXCEPT ![p].stage = stage, ![p].server = server, ![p].client = client]
            BY <1>2, <1>t DEF Receive, PairType, stage, server, client
        <3> QED BY <3>2, <3>3
    <2>6. sent' \subseteq Pair
        BY <1>2, SentTyped DEF Receive
    <2> QED BY <1>0, <1>2, <1>t, <2>2, <2>5, <2>6 DEF Receive, Typed, PairType
<1>3. ASSUME NEW p \in Pair, Raise(p) PROVE Typed'
    <2>1. StageAfter(pair[p].stage, FALSE) \in Stage
        BY <1>t, StagesTyped DEF PairType
    <2>2. pair' \in [Pair -> PairType]
        BY <1>3, <1>t, <2>1 DEF Raise, Enters, PairType
    <2>3. sent' \subseteq Pair
        BY <1>3, SentTyped DEF Raise
    <2> QED BY <1>0, <1>3, <1>t, <2>2, <2>3 DEF Raise, Typed, PairType
<1>4. ASSUME NEW p \in Pair, Close(p) PROVE Typed'
    <2>1. pair' \in [Pair -> PairType]
        BY <1>4, <1>t DEF Close, Enters, PairType, Stage, Waiting
    <2> QED BY <1>0, <1>4, <1>t, <2>1 DEF Close, Typed, PairType
<1>5. ASSUME NEW p \in Pair, NEW b \in Clock, Open(p, b) PROVE Typed'
    <2>1. b \in Serial
        BY PairAssumption
    <2>2. pair' \in [Pair -> PairType]
        BY <1>5, <1>t, <2>1 DEF Open, PairType, Stage, Waiting
    <2> QED BY <1>0, <1>5, <1>t, <2>2 DEF Open, Typed, PairType
<1>6. ASSUME NEW s \in Scanner, Serve(s) PROVE Typed'
    <2>1. CASE ServeOpen(s)
        <3> DEFINE r == Head(wire[s]).req
        <3>1. r \in OpenRequest /\ wire[s] # <<>>
            BY <2>1, HeadTyped DEF ServeOpen
        <3>2. RefusedReply \in ReplyType
            BY <1>n DEF RefusedReply, ReplyType
        <3>3. ASSUME Admit(r, s) PROVE OpenedReply(r, s) \in ReplyType
            <4>1. s \in Socket
                BY DEF Scanner
            <4>2. nextId + 1 \in Id /\ Entry(r, s) \in Connection
                BY <3>1, <3>3, <4>1, AdmitTable
            <4>3. nextId + 1 \in 0 .. MaxId /\ SvInstId(Entry(r, s)) \in 0 .. Word - 1
                BY <4>2, IdAssumption, SvInstIdTyped DEF Id
            <4> QED BY <4>3 DEF OpenedReply, ReplyType
        <3> QED BY <1>0, <1>t, <2>1, <3>1, <3>2, <3>3, ReplyTyped DEF ServeOpen, Typed, PairType
    <2>2. CASE ServeClose(s)
        <3>1. \A ok \in BOOLEAN : ClosedReply(ok) \in ReplyType
            BY <1>n DEF ClosedReply, ReplyType
        <3> QED BY <1>0, <1>t, <2>2, <3>1, ReplyTyped DEF ServeClose, Typed, PairType
    <2> QED BY <1>6, <2>1, <2>2 DEF Serve
<1>7. ASSUME NEW s \in Scanner, Drop(s) \/ Connect(s) \/ Notice(s) PROVE Typed'
    <2>1. wire' \in [Scanner -> Seq(Message)] /\ stream' \in [Scanner -> Seq(ReplyType)]
        <3>1. <<>> \in Seq(Message) /\ <<>> \in Seq(ReplyType)
            OBVIOUS
        <3>2. /\ [wire EXCEPT ![s] = <<>>] \in [Scanner -> Seq(Message)]
              /\ [stream EXCEPT ![s] = <<>>] \in [Scanner -> Seq(ReplyType)]
            BY <1>t, <3>1
        <3>3. CASE Drop(s)
            BY <1>t, <3>2, <3>3 DEF Drop
        <3>4. CASE Connect(s)
            BY <1>t, <3>4 DEF Connect
        <3>5. CASE Notice(s)
            BY <1>t, <3>2, <3>5 DEF Notice
        <3> QED BY <1>7, <3>3, <3>4, <3>5
    <2> QED BY <1>0, <1>7, <1>t, <2>1 DEF Drop, Connect, Notice, Typed, PairType
<1>8. CASE Other /\ UNCHANGED pairVars
    BY <1>0, <1>8 DEF Typed, pairVars
<1>9. CASE UNCHANGED vars
    BY <1>0, <1>9 DEF Typed, vars, pairVars
<1> QED BY <1>1, <1>2, <1>3, <1>4, <1>5, <1>6, <1>7, <1>8, <1>9 DEF Next, Proceed

LEMMA Start == Init => IInv /\ Typed
<1> SUFFICES ASSUME Init PROVE IInv /\ Typed
    OBVIOUS
<1>1. IInv
    BY TargetStart DEF Init
<1>2. NoHalf \in HalfType
    BY IdAssumption, WordAssumption DEF NoHalf, HalfType
<1>3. 0 \in Serial /\ "new" \in Stage
    BY SerialAssumption DEF Serial, Stage
<1>4. pair \in [Pair -> PairType]
    BY <1>2, <1>3 DEF Init, PairType
<1>5. wire \in [Scanner -> Seq(Message)] /\ stream \in [Scanner -> Seq(ReplyType)]
    BY DEF Init
<1> QED BY <1>1, <1>4, <1>5 DEF Init, IInv, Typed, PairType

LEMMA Step == IInv /\ Typed /\ [Next]_vars => (IInv /\ Typed)'
BY PairStep, TargetOfStep, TargetStep

\* The target and the pairs stay well typed; the types bound the ids of
\* connections and validators.
THEOREM AlwaysTyped == Spec => [](IInv /\ Typed)
BY Start, Step, PTL DEF Spec

\* Two originators with different configuration ids never hold safety
\* connections together, for any number of originators, sockets and pairs
\* (SafetyDevice.validate_safety_open, configure_safety_connection).
THEOREM AlwaysBoundByOne == Spec => []BoundByOne
<1>1. IInv => BoundByOne
    BY DEF IInv
<1> QED BY <1>1, AlwaysTyped, PTL

\* A device without safety connections has no configuration id and no owner
\* (SafetyDevice._on_connection_removed).
THEOREM AlwaysUnownedWhenIdle == Spec => []UnownedWhenIdle
<1>1. IInv => UnownedWhenIdle
    BY DEF IInv
<1> QED BY <1>1, AlwaysTyped, PTL

\* No two safety connections of the target share a seed whose validators were
\* made fewer than Word safety opens apart, for any number of opens: also when
\* the 16 bits that a seed has of the validator's id have wrapped
\* (configure_safety_connection, validator_object.create_instance).
THEOREM AlwaysSeedsDistinct == Spec => []SeedsDistinct
<1>1. IInv => SeedsDistinct
    BY SeedsFromFresh DEF IInv
<1> QED BY <1>1, AlwaysTyped, PTL

\* Only a removal that leaves no safety connection, and a reset, unbind.
LEMMA RemoveKeeps ==
    ASSUME IInv, NEW ids \in SUBSET Id, RemoveAll(ids), scid' # scid
    PROVE  scid' = Unset /\ SafetyId' = {}
BY RemoveTable DEF RemoveAll, AnyLeft, ownership

LEMMA TargetKeeps ==
    ASSUME IInv, [TargetNext]_targetVars, scid # Unset, scid' # scid
    PROVE  scid' = Unset /\ (SafetyId' = {} \/ (conn' = conn /\ before' = LiveId))
<1>1. ASSUME NEW r \in OpenRequest, NEW s \in Socket, Admit(r, s) PROVE FALSE
    BY <1>1 DEF Admit, Configure, Bound, ownership
<1>2. ASSUME NEW ids \in SUBSET Id, RemoveAll(ids) PROVE scid' = Unset /\ SafetyId' = {}
    BY <1>2, RemoveKeeps
<1>3. ASSUME NEW o, NEW n, NEW s, ForwardClose(o, n, s) PROVE scid' = Unset /\ SafetyId' = {}
    <2>1. WithTriad(o, n) \in SUBSET Id
        BY DEF WithTriad, LiveId
    <2> QED BY <1>2, <1>3, <2>1 DEF ForwardClose
<1>4. ASSUME NEW i \in Id, TimesOut(i) PROVE scid' = Unset /\ SafetyId' = {}
    BY <1>2, <1>4 DEF TimesOut
<1>5. ASSUME NEW s, Reap(s) PROVE scid' = Unset /\ SafetyId' = {}
    <2>1. owned[s] \cap LiveId \in SUBSET Id
        BY DEF LiveId
    <2> QED BY <1>2, <1>5, <2>1 DEF Reap
<1>6. CASE Supervise
    BY <1>6 DEF Supervise, ResetOwnership, ProposeTunid, ApplyTunid, ownership
<1>7. CASE UNCHANGED targetVars
    BY <1>7 DEF targetVars, ownership
<1> QED BY <1>1, <1>3, <1>4, <1>5, <1>6, <1>7 DEF TargetNext

\* A configuration is let go by nothing but a reset or the end of the last
\* safety connection, whatever is opened meanwhile.
THEOREM AlwaysConfigurationKept == Spec => ConfigurationKept
<1>1. IInv /\ Typed /\ [Next]_vars =>
          [scid # Unset /\ scid' # scid =>
               /\ scid' = Unset
               /\ SafetyId' = {} \/ (conn' = conn /\ before' = LiveId)]_targetVars
    BY TargetOfStep, TargetKeeps
<1> QED BY <1>1, AlwaysTyped, PTL DEF Spec, ConfigurationKept

(***************************************************************************)
(* What a socket has opened is on its list.                                *)
(***************************************************************************)
Held == \A i \in LiveId : i \in owned[conn[i].via]

LEMMA HeldStart == TargetInit => Held
BY DEF TargetInit, Held, LiveId, NoConn

LEMMA HeldAdmit ==
    ASSUME IInv, Held, NEW r \in OpenRequest, NEW s \in Socket, Admit(r, s)
    PROVE  Held'
<1> DEFINE new == nextId + 1
<1>1. /\ new \in Id /\ conn'[new] = Entry(r, s) /\ LiveId' = LiveId \cup {new}
      /\ \A i \in Id : i # new => conn'[i] = conn[i]
    BY AdmitTable
<1>2. owned \in [Socket -> SUBSET Id] /\ owned' = [owned EXCEPT ![s] = @ \cup {new}]
    BY DEF IInv, TargetTypeOK, Admit
<1>3. new \in owned'[conn'[new].via]
    BY <1>1, <1>2 DEF Entry
<1>4. ASSUME NEW i \in LiveId, i # new PROVE i \in owned'[conn'[i].via]
    <2>1. i \in owned[conn[i].via] /\ conn'[i] = conn[i]
        BY <1>1, <1>4 DEF Held, LiveId
    <2> QED BY <1>2, <2>1
<1> QED BY <1>1, <1>3, <1>4 DEF Held

\* A removal keeps the lists of those that stay.
LEMMA HeldRemove ==
    ASSUME IInv, Held, NEW ids \in SUBSET Id, RemoveAll(ids),
           \A s : \A i \in owned[s] \ ids : i \in LiveId => i \in owned'[s]
    PROVE  Held'
<1>1. LiveId' = LiveId \ ids /\ \A i \in LiveId' : conn'[i] = conn[i]
    BY RemoveTable
<1> QED BY <1>1 DEF Held

LEMMA HeldStep == IInv /\ Held /\ [TargetNext]_targetVars => Held'
<1> SUFFICES ASSUME IInv, Held, [TargetNext]_targetVars PROVE Held'
    OBVIOUS
<1>0. owned \in [Socket -> SUBSET Id]
    BY DEF IInv, TargetTypeOK
<1>1. CASE \E r \in OpenRequest, s \in Socket : Admit(r, s)
    BY <1>1, HeldAdmit
<1>2. ASSUME NEW o, NEW n, NEW s \in Socket, ForwardClose(o, n, s) PROVE Held'
    <2> DEFINE ids == WithTriad(o, n)
    <2>1. ids \in SUBSET Id
        BY DEF WithTriad, LiveId
    <2>2. owned' = [owned EXCEPT ![s] = @ \ ids] /\ RemoveAll(ids)
        BY <1>2 DEF ForwardClose
    <2> HIDE DEF ids
    <2>3. \A t : \A i \in owned[t] \ ids : i \in LiveId => i \in owned'[t]
        BY <1>0, <2>2
    <2> QED BY <2>1, <2>2, <2>3, HeldRemove
<1>3. ASSUME NEW i \in Id, TimesOut(i) PROVE Held'
    BY <1>3, HeldRemove DEF TimesOut
<1>4. ASSUME NEW s \in Socket, Reap(s) PROVE Held'
    <2> DEFINE ids == owned[s] \cap LiveId
    <2>1. ids \in SUBSET Id
        BY DEF LiveId
    <2>2. owned' = [owned EXCEPT ![s] = {}] /\ RemoveAll(ids)
        BY <1>4 DEF Reap
    <2>3. \A t : \A i \in owned[t] \ ids : i \in LiveId => i \in owned'[t]
        BY <1>0, <2>2
    <2> HIDE DEF ids
    <2> QED BY <2>1, <2>2, <2>3, HeldRemove
<1>5. CASE Supervise \/ UNCHANGED targetVars
    <2>1. UNCHANGED <<conn, owned>>
        BY <1>5 DEF Supervise, ResetOwnership, ProposeTunid, ApplyTunid, targetVars
    <2> QED BY <2>1 DEF Held, LiveId
<1> QED BY <1>1, <1>2, <1>3, <1>4, <1>5 DEF TargetNext

LEMMA HeldAlways == Spec => []Held
<1>1. Init => Held
    BY HeldStart DEF Init
<1>2. IInv /\ Typed /\ Held /\ [Next]_vars => Held'
    BY TargetOfStep, HeldStep
<1> QED BY <1>1, <1>2, AlwaysTyped, PTL DEF Spec

\* When the target's task of a socket ends, no connection is left that was opened
\* over it: neither half of a pair, whether its reply has arrived or not
\* (EipAdapter._handle_client's finally).  It is the step GivenBack waits for.
EndGivesBack == [][\A s \in Scanner : Notice(s) => \A i \in LiveId' : conn'[i].via # s]_vars

THEOREM AlwaysEndGivesBack == Spec => EndGivesBack
<1>1. ASSUME IInv, Held, NEW s \in Scanner, Notice(s), NEW i \in LiveId'
      PROVE  conn'[i].via # s
    <2> DEFINE ids == owned[s] \cap LiveId
    <2>1. ids \in SUBSET Id /\ RemoveAll(ids)
        BY <1>1 DEF Notice, Reap, LiveId
    <2>2. LiveId' = LiveId \ ids /\ conn'[i] = conn[i]
        BY <1>1, <2>1, RemoveTable
    <2>3. i \in LiveId /\ i \notin owned[s]
        BY <1>1, <2>2
    <2> QED BY <1>1, <2>2, <2>3 DEF Held
<1>2. IInv /\ Typed /\ Held /\ [Next]_vars =>
          [\A s \in Scanner : Notice(s) => \A i \in LiveId' : conn'[i].via # s]_vars
    BY <1>1
<1> QED BY <1>2, HeldAlways, AlwaysTyped, PTL DEF Spec, EndGivesBack

(***************************************************************************)
(* The originator's side of SafetyPair: who waits is in line for the       *)
(* scanner's lock, a reply on the stream answers the request of the lock's *)
(* holder, and so the two ends of an open pair agree on their seeds.       *)
(***************************************************************************)

(***************************************************************************)
(* The line for a lock.                                                    *)
(***************************************************************************)
NoTwice(q) == \A m, n \in 1 .. Len(q) : q[m] = q[n] => m = n

\* The line of a scanner has its pairs once each, all of them waiting, and the
\* pair whose request is written is first.
LineInv ==
    /\ queue \in [Scanner -> Seq(Pair)]
    /\ \A s \in Scanner : NoTwice(queue[s])
    /\ \A s \in Scanner : \A p \in Range(queue[s]) : ScannerOf[p] = s
    /\ \A p \in Pair : pair[p].stage \in Waiting <=> p \in Range(queue[ScannerOf[p]])
    /\ \A p \in sent : MayWrite(p)

(***************************************************************************)
(* One exchange at a time.                                                 *)
(***************************************************************************)
\* What h says of a connection that orig opened with a serial: it was given an
\* id by the target, which is not given again.
Made(h, kind, orig, serial) ==
    /\ h.device = Device
    /\ h.id \in 1 .. nextId
    /\ h.id \in LiveId => /\ conn[h.id].kind = kind
                          /\ conn[h.id].orig = orig
                          /\ conn[h.id].serial = serial
                          /\ SvInstId(conn[h.id]) = h.sv

OpeningKind(stage) == IF stage = "open_server" THEN "server" ELSE "client"

\* The reply r answers the request p has made.
Fits(p, r) ==
    pair[p].stage \in {"open_server", "open_client"} /\ r.ok =>
        Made(r, OpeningKind(pair[p].stage), OrigOf[p], SerialIn(p, pair[p].stage))

Idle(s) == \A p \in sent : ScannerOf[p] # s

Asked(p) == wire[ScannerOf[p]] = <<RequestOf(p)>> /\ stream[ScannerOf[p]] = <<>>

Answered(p) ==
    /\ wire[ScannerOf[p]] = <<>>
    /\ \E r \in ReplyType : stream[ScannerOf[p]] = <<r>> /\ Fits(p, r)

\* On a connected scanner there is the request of the lock's holder or its
\* reply, once, or nothing.
ExchangeInv ==
    /\ link \subseteq sock
    /\ \A s \in Scanner \ link : stream[s] = <<>>
    /\ \A s \in Scanner \ sock : wire[s] = <<>>
    /\ \A s \in link : Idle(s) => wire[s] = <<>> /\ stream[s] = <<>>
    /\ \A p \in sent : ScannerOf[p] \in link => Asked(p) \/ Answered(p)

\* What open() has recorded is what the target made.
Halves(p) ==
    /\ pair[p].stage \in {"open_client", "open"} =>
           Made(pair[p].server, "server", OrigOf[p], pair[p].base)
    /\ pair[p].stage = "open" =>
           Made(pair[p].client, "client", OrigOf[p], SecondSerial(pair[p].base))

HalvesInv == \A p \in Pair : Halves(p)

-----------------------------------------------------------------------------
(***************************************************************************)
(* Lines.                                                                  *)
(***************************************************************************)
LEMMA JoinLine ==
    ASSUME NEW S, NEW q \in Seq(S), NoTwice(q), NEW p \in S, p \notin Range(q)
    PROVE  /\ Append(q, p) \in Seq(S)
           /\ NoTwice(Append(q, p))
           /\ Range(Append(q, p)) = Range(q) \cup {p}
           /\ q # <<>> => Append(q, p) # <<>> /\ Head(Append(q, p)) = Head(q)
<1> DEFINE a == Append(q, p)
<1>1. /\ a \in Seq(S) /\ Len(a) = Len(q) + 1 /\ Len(q) \in Nat
      /\ \A n \in 1 .. Len(q) : a[n] = q[n]
      /\ a[Len(q) + 1] = p
      /\ DOMAIN a = 1 .. Len(a) /\ DOMAIN q = 1 .. Len(q)
    OBVIOUS
<1> HIDE DEF a
<1>2. \A n \in 1 .. Len(q) : q[n] # p
    BY <1>1 DEF Range
<1>3. NoTwice(a)
    BY <1>1, <1>2 DEF NoTwice
<1>4. Range(a) = Range(q) \cup {p}
    <2>1. \A x \in Range(a) : x \in Range(q) \cup {p}
        BY <1>1 DEF Range
    <2>2. p \in Range(a)
        BY <1>1 DEF Range
    <2>3. \A x \in Range(q) : x \in Range(a)
        <3>1. ASSUME NEW x \in Range(q) PROVE x \in Range(a)
            <4>1. PICK n \in 1 .. Len(q) : q[n] = x
                BY <1>1 DEF Range
            <4>2. n \in DOMAIN a /\ a[n] = x
                BY <1>1, <4>1
            <4> QED BY <4>2 DEF Range
        <3> QED BY <3>1
    <2> QED BY <2>1, <2>2, <2>3
<1>5. q # <<>> => a # <<>> /\ Head(a) = Head(q)
    BY <1>1
<1> QED BY <1>1, <1>3, <1>4, <1>5 DEF a

LEMMA LeaveLine ==
    ASSUME NEW S, NEW q \in Seq(S), NoTwice(q), q # <<>>
    PROVE  /\ Leave(q) \in Seq(S)
           /\ NoTwice(Leave(q))
           /\ Range(Leave(q)) = Range(q) \ {Head(q)}
           /\ Head(q) \in Range(q)
<1> DEFINE t == Leave(q)
<1>1. /\ t \in Seq(S) /\ Len(q) \in Nat \ {0} /\ Len(t) = Len(q) - 1
      /\ \A n \in 1 .. Len(t) : t[n] = q[n + 1]
      /\ Head(q) = q[1]
      /\ DOMAIN t = 1 .. Len(t) /\ DOMAIN q = 1 .. Len(q)
    BY DEF Leave
<1> HIDE DEF t
<1>2. NoTwice(t)
    BY <1>1 DEF NoTwice
<1>3. \A x \in Range(t) : x \in Range(q) /\ x # Head(q)
    <2>1. ASSUME NEW x \in Range(t) PROVE x \in Range(q) /\ x # Head(q)
        <3>1. PICK n \in 1 .. Len(t) : t[n] = x
            BY <1>1 DEF Range
        <3>2. n + 1 \in 1 .. Len(q) /\ q[n + 1] = x /\ n + 1 # 1 /\ 1 \in 1 .. Len(q)
            BY <1>1, <3>1
        <3> QED BY <1>1, <3>2 DEF Range, NoTwice
    <2> QED BY <2>1
<1>4. \A x \in Range(q) : x # Head(q) => x \in Range(t)
    <2>1. ASSUME NEW x \in Range(q), x # Head(q) PROVE x \in Range(t)
        <3>1. PICK n \in 1 .. Len(q) : q[n] = x
            BY <1>1 DEF Range
        <3>2. n - 1 \in 1 .. Len(t) /\ t[n - 1] = x
            BY <1>1, <2>1, <3>1
        <3> QED BY <1>1, <3>2 DEF Range
    <2> QED BY <2>1
<1>5. Head(q) \in Range(q)
    BY <1>1 DEF Range
<1>6. Range(t) = Range(q) \ {Head(q)}
    BY <1>3, <1>4
<1> QED BY <1>1, <1>2, <1>5, <1>6 DEF t

LEMMA LineStart == Init => LineInv
<1> SUFFICES ASSUME Init PROVE LineInv
    OBVIOUS
<1>1. ASSUME NEW s \in Scanner
      PROVE  queue[s] = <<>> /\ Len(queue[s]) = 0 /\ Range(queue[s]) = {}
    BY DEF Init, Range
<1>2. queue \in [Scanner -> Seq(Pair)] /\ sent = {}
    BY DEF Init
<1>3. \A p \in Pair : pair[p].stage \notin Waiting /\ ScannerOf[p] \in Scanner
    BY PairAssumption DEF Init, Waiting
<1> QED BY <1>1, <1>2, <1>3 DEF LineInv, NoTwice

\* A pair that is not waiting begins to wait.
LEMMA WaitStep ==
    ASSUME LineInv, sent \subseteq Pair, NEW p \in Pair, pair[p].stage \notin Waiting,
           Waits(p), sent' = sent,
           pair'[p].stage \in Waiting, \A u \in Pair \ {p} : pair'[u].stage = pair[u].stage
    PROVE  LineInv'
<1> DEFINE s == ScannerOf[p]
<1>1. s \in Scanner /\ p \notin Range(queue[s]) /\ queue[s] \in Seq(Pair) /\ NoTwice(queue[s])
    BY PairAssumption DEF LineInv
<1>2. /\ Append(queue[s], p) \in Seq(Pair)
      /\ NoTwice(Append(queue[s], p))
      /\ Range(Append(queue[s], p)) = Range(queue[s]) \cup {p}
      /\ queue[s] # <<>> => /\ Append(queue[s], p) # <<>>
                             /\ Head(Append(queue[s], p)) = Head(queue[s])
    BY <1>1, JoinLine
<1>3. queue' = [queue EXCEPT ![s] = Append(queue[s], p)] /\ queue \in [Scanner -> Seq(Pair)]
    BY DEF Waits, LineInv
<1> HIDE DEF s
<1>4. /\ queue'[s] = Append(queue[s], p)
      /\ \A z \in Scanner \ {s} : queue'[z] = queue[z]
      /\ queue' \in [Scanner -> Seq(Pair)]
    BY <1>1, <1>2, <1>3
<1>5. \A z \in Scanner : NoTwice(queue'[z])
    BY <1>2, <1>4 DEF LineInv
<1>6. \A z \in Scanner : \A u \in Range(queue'[z]) : ScannerOf[u] = z
    <2>1. \A u \in Range(queue'[s]) : ScannerOf[u] = s
        BY <1>1, <1>2, <1>4 DEF LineInv, s
    <2>2. \A z \in Scanner \ {s} : \A u \in Range(queue'[z]) : ScannerOf[u] = z
        BY <1>4 DEF LineInv
    <2> QED BY <2>1, <2>2
<1>7. \A u \in Pair : pair'[u].stage \in Waiting <=> u \in Range(queue'[ScannerOf[u]])
    <2>1. ASSUME NEW u \in Pair, u # p
          PROVE  u \in Range(queue'[ScannerOf[u]]) <=> u \in Range(queue[ScannerOf[u]])
        BY <1>2, <1>4, <2>1, PairAssumption
    <2>2. p \in Range(queue'[ScannerOf[p]])
        BY <1>2, <1>4 DEF s
    <2> QED BY <2>1, <2>2 DEF LineInv
<1>8. \A u \in sent : MayWrite(u)'
    BY <1>2, <1>4, PairAssumption DEF LineInv, MayWrite
<1> QED BY <1>4, <1>5, <1>6, <1>7, <1>8 DEF LineInv, NoTwice

\* The holder of the lock lets it go, and waits for it again if it has another
\* request to make.
LEMMA LetGoStep ==
    ASSUME LineInv, sent \subseteq Pair, NEW p \in Pair, MayWrite(p), NEW stage, LetGo(p, stage),
           pair'[p].stage = stage, \A u \in Pair \ {p} : pair'[u].stage = pair[u].stage
    PROVE  LineInv' /\ \A u \in sent' : ScannerOf[u] # ScannerOf[p]
<1> DEFINE s == ScannerOf[p]
           q == queue[s]
           rest == Leave(q)
           after == IF stage \in Waiting THEN Append(rest, p) ELSE rest
<1>1. s \in Scanner /\ q \in Seq(Pair) /\ NoTwice(q) /\ q # <<>> /\ Head(q) = p
    BY PairAssumption DEF LineInv, MayWrite
<1>2. /\ rest \in Seq(Pair) /\ NoTwice(rest)
      /\ Range(rest) = Range(q) \ {p} /\ p \in Range(q)
    BY <1>1, LeaveLine
<1>3. /\ after \in Seq(Pair) /\ NoTwice(after)
      /\ Range(after) = IF stage \in Waiting THEN Range(q) ELSE Range(q) \ {p}
    <2>1. CASE stage \in Waiting
        <3>1. p \notin Range(rest)
            BY <1>2
        <3> HIDE DEF rest, q
        <3>2. /\ Append(rest, p) \in Seq(Pair) /\ NoTwice(Append(rest, p))
              /\ Range(Append(rest, p)) = Range(rest) \cup {p}
            BY <1>2, <3>1, JoinLine
        <3> QED BY <1>2, <2>1, <3>2
    <2>2. CASE stage \notin Waiting
        BY <1>2, <2>2
    <2> QED BY <2>1, <2>2
<1>4. /\ queue' = [queue EXCEPT ![s] = after] /\ queue \in [Scanner -> Seq(Pair)]
      /\ sent' = sent \ {p}
    BY DEF LetGo, LineInv
<1> HIDE DEF after
<1>5. /\ queue'[s] = after
      /\ \A z \in Scanner \ {s} : queue'[z] = queue[z]
      /\ queue' \in [Scanner -> Seq(Pair)]
    BY <1>1, <1>3, <1>4
<1>6. \A u \in sent' : ScannerOf[u] # s
    BY <1>1, <1>4 DEF LineInv, MayWrite
<1>7. \A z \in Scanner : NoTwice(queue'[z])
    BY <1>3, <1>5 DEF LineInv
<1>8. \A z \in Scanner : \A u \in Range(queue'[z]) : ScannerOf[u] = z
    <2>1. \A u \in Range(queue'[s]) : ScannerOf[u] = s
        <3>1. \A u \in Range(q) : ScannerOf[u] = s
            BY <1>1 DEF LineInv
        <3> HIDE DEF q, s
        <3> QED BY <1>3, <1>5, <3>1
    <2>2. \A z \in Scanner \ {s} : \A u \in Range(queue'[z]) : ScannerOf[u] = z
        BY <1>5 DEF LineInv
    <2> QED BY <2>1, <2>2
<1>9. \A u \in Pair : pair'[u].stage \in Waiting <=> u \in Range(queue'[ScannerOf[u]])
    <2>1. ASSUME NEW u \in Pair, u # p
          PROVE  u \in Range(queue'[ScannerOf[u]]) <=> u \in Range(queue[ScannerOf[u]])
        <3>1. ScannerOf[u] \in Scanner
            BY PairAssumption
        <3>2. CASE ScannerOf[u] = s
            BY <1>3, <1>5, <2>1, <3>2
        <3>3. CASE ScannerOf[u] # s
            BY <1>5, <3>1, <3>3
        <3> QED BY <3>2, <3>3
    <2>2. p \in Range(queue'[ScannerOf[p]]) <=> stage \in Waiting
        BY <1>2, <1>3, <1>5
    <2> QED BY <2>1, <2>2 DEF LineInv
<1>10. \A u \in sent' : MayWrite(u)'
    BY <1>4, <1>5, <1>6, PairAssumption DEF LineInv, MayWrite
<1> QED BY <1>5, <1>6, <1>7, <1>8, <1>9, <1>10 DEF LineInv, NoTwice

LEMMA LineStep == LineInv /\ Typed /\ [Next]_vars => LineInv'
<1> SUFFICES ASSUME LineInv, Typed, [Next]_vars PROVE LineInv'
    OBVIOUS
<1>0. /\ sent \subseteq Pair /\ pair \in [Pair -> PairType]
    BY DEF Typed, PairType
<1>1. ASSUME NEW p \in Pair, Write(p) PROVE LineInv'
    BY <1>1 DEF Write, LineInv, MayWrite
<1>2. ASSUME NEW p \in Pair, Receive(p) PROVE LineInv'
    <2> DEFINE stage == StageAfter(pair[p].stage, Head(stream[ScannerOf[p]]).ok)
    <2>1. MayWrite(p) /\ LetGo(p, stage)
        BY <1>2 DEF Receive
    <2>2. pair'[p].stage = stage /\ \A u \in Pair \ {p} : pair'[u].stage = pair[u].stage
        BY <1>0, <1>2 DEF Receive, PairType
    <2> HIDE DEF stage
    <2> QED BY <1>0, <2>1, <2>2, LetGoStep
<1>3. ASSUME NEW p \in Pair, Raise(p) PROVE LineInv'
    <2> DEFINE stage == StageAfter(pair[p].stage, FALSE)
    <2>1. MayWrite(p) /\ LetGo(p, stage)
        BY <1>3 DEF Raise
    <2>2. pair'[p].stage = stage /\ \A u \in Pair \ {p} : pair'[u].stage = pair[u].stage
        BY <1>0, <1>3 DEF Raise, Enters, PairType
    <2> HIDE DEF stage
    <2> QED BY <1>0, <2>1, <2>2, LetGoStep
<1>4. ASSUME NEW p \in Pair, Close(p) PROVE LineInv'
    <2>1. /\ pair[p].stage \notin Waiting /\ pair'[p].stage \in Waiting
          /\ \A u \in Pair \ {p} : pair'[u].stage = pair[u].stage
        BY <1>0, <1>4 DEF Close, Enters, Waiting, PairType
    <2> QED BY <1>0, <1>4, <2>1, WaitStep DEF Close
<1>5. ASSUME NEW p \in Pair, NEW b \in Clock, Open(p, b) PROVE LineInv'
    <2>1. /\ pair[p].stage \notin Waiting /\ pair'[p].stage \in Waiting
          /\ \A u \in Pair \ {p} : pair'[u].stage = pair[u].stage
        BY <1>0, <1>5 DEF Open, Waiting, PairType
    <2> QED BY <1>0, <1>5, <2>1, WaitStep DEF Open
<1>6. CASE UNCHANGED <<queue, sent, pair>>
    BY <1>6 DEF LineInv, MayWrite
<1>7. ASSUME NEW s \in Scanner, Serve(s) \/ Drop(s) \/ Notice(s) \/ Connect(s)
      PROVE  UNCHANGED <<queue, sent, pair>>
    BY <1>7 DEF Serve, ServeOpen, ServeClose, Answers, Drop, Notice, Connect
<1> QED BY <1>1, <1>2, <1>3, <1>4, <1>5, <1>6, <1>7 DEF Next, Proceed, vars, pairVars

\* Who waits for the scanner is in line for its lock and nobody else is, for any
\* number of pairs and scanners (EipScanner._lock).
THEOREM AlwaysInLine == Spec => []TypeOK
<1>1. Init => Typed
    BY Start
<1>2. IInv /\ Typed /\ LineInv => TypeOK
    BY DEF LineInv, TypeOK
<1> QED BY <1>1, <1>2, AlwaysTyped, LineStart, LineStep, PTL DEF Spec

-----------------------------------------------------------------------------
(***************************************************************************)
(* What a step of the target does to the ids it has given.                 *)
(***************************************************************************)
\* An id that was given keeps its entry or loses it.
IdsKept ==
    /\ nextId <= nextId'
    /\ \A i \in 1 .. nextId : i \in LiveId' => i \in LiveId /\ conn'[i] = conn[i]

LEMMA RemoveIds ==
    ASSUME IInv, NEW ids \in SUBSET Id, RemoveAll(ids)
    PROVE  IdsKept
BY RemoveTable DEF RemoveAll, IdsKept, IInv, TargetTypeOK

LEMMA TargetIds == IInv /\ [TargetNext]_targetVars => IdsKept
<1> SUFFICES ASSUME IInv, [TargetNext]_targetVars PROVE IdsKept
    OBVIOUS
<1>0. nextId \in Nat
    BY IdAssumption DEF IInv, TargetTypeOK
<1>1. ASSUME NEW r \in OpenRequest, NEW s \in Socket, Admit(r, s) PROVE IdsKept
    <2>1. /\ nextId' = nextId + 1
          /\ LiveId' = LiveId \cup {nextId + 1}
          /\ \A i \in Id : i # nextId + 1 => conn'[i] = conn[i]
        BY <1>1, AdmitTable DEF Admit
    <2>2. \A i \in 1 .. nextId : i # nextId + 1
        BY <1>0
    <2>3. LiveId \subseteq Id
        BY DEF LiveId
    <2> QED BY <1>0, <2>1, <2>2, <2>3 DEF IdsKept
<1>2. ASSUME NEW o, NEW n, NEW s, ForwardClose(o, n, s) PROVE IdsKept
    <2>1. WithTriad(o, n) \in SUBSET Id
        BY DEF WithTriad, LiveId
    <2> QED BY <1>2, <2>1, RemoveIds DEF ForwardClose
<1>3. ASSUME NEW i \in Id, TimesOut(i) PROVE IdsKept
    BY <1>3, RemoveIds DEF TimesOut
<1>4. ASSUME NEW s, Reap(s) PROVE IdsKept
    <2>1. owned[s] \cap LiveId \in SUBSET Id
        BY DEF LiveId
    <2> QED BY <1>4, <2>1, RemoveIds DEF Reap
<1>5. CASE UNCHANGED <<conn, nextId>>
    BY <1>0, <1>5 DEF IdsKept, LiveId
<1>6. CASE Supervise
    BY <1>5, <1>6 DEF Supervise, ResetOwnership, ProposeTunid, ApplyTunid
<1> QED BY <1>1, <1>2, <1>3, <1>4, <1>5, <1>6 DEF TargetNext, targetVars

\* What was made stays so.
LEMMA MadeKept ==
    ASSUME nextId \in Nat, nextId' \in Nat, IdsKept,
           NEW h, NEW kind, NEW orig, NEW serial, Made(h, kind, orig, serial)
    PROVE  Made(h, kind, orig, serial)'
BY DEF IdsKept, Made

\* What Admit tells the originator is made.
LEMMA OpenedMade ==
    ASSUME IInv, NEW r \in OpenRequest, NEW s \in Socket, Admit(r, s),
           NEW reply, reply = OpenedReply(r, s)
    PROVE  Made(reply, r.kind, r.orig, r.serial)'
<1>1. /\ nextId + 1 \in Id /\ nextId' = nextId + 1
      /\ conn'[nextId + 1] = Entry(r, s)
    BY AdmitTable DEF Admit
<1>2. reply.device = Device /\ reply.id = nextId + 1 /\ reply.sv = SvInstId(Entry(r, s))
    BY DEF OpenedReply
<1>3. Entry(r, s).kind = r.kind /\ Entry(r, s).orig = r.orig /\ Entry(r, s).serial = r.serial
    BY DEF Entry
<1>4. nextId + 1 \in 1 .. (nextId + 1)
    BY <1>1 DEF Id
<1> QED BY <1>1, <1>2, <1>3, <1>4 DEF Made

(***************************************************************************)
(* The exchanges.                                                          *)
(***************************************************************************)
LEMMA OneSent ==
    ASSUME LineInv, NEW p \in sent, NEW q \in sent, ScannerOf[p] = ScannerOf[q]
    PROVE  p = q
BY DEF LineInv, MayWrite

\* The request a pair has made does not change while it waits for the reply.
LEMMA SameRequest ==
    ASSUME NEW p \in Pair, pair'[p] = pair[p]
    PROVE  /\ RequestOf(p)' = RequestOf(p)
           /\ SerialIn(p, pair[p].stage)' = SerialIn(p, pair[p].stage)
<1>1. SerialIn(p, pair[p].stage)' = SerialIn(p, pair[p].stage)
    BY DEF SerialIn
<1> QED BY <1>1 DEF RequestOf, OpenRequestOf

LEMMA FitsKept ==
    ASSUME nextId \in Nat, nextId' \in Nat, IdsKept,
           NEW p \in Pair, pair'[p] = pair[p], NEW r, Fits(p, r)
    PROVE  Fits(p, r)'
<1> DEFINE kind == OpeningKind(pair[p].stage)
           serial == SerialIn(p, pair[p].stage)
<1>1. SerialIn(p, pair[p].stage)' = serial /\ OpeningKind(pair[p].stage)' = kind
    BY SameRequest DEF OpeningKind
<1>2. ASSUME NEW k, NEW n, Made(r, k, OrigOf[p], n) PROVE Made(r, k, OrigOf[p], n)'
    BY <1>2, MadeKept
<1>3. PICK k, n : k = kind /\ n = serial
    OBVIOUS
<1> HIDE DEF kind, serial
<1>4. pair[p].stage \in {"open_server", "open_client"} /\ r.ok => Made(r, k, OrigOf[p], n)
    BY <1>3 DEF Fits, kind, serial
<1> QED BY <1>1, <1>2, <1>3, <1>4 DEF Fits, Made

LEMMA HalvesKept ==
    ASSUME nextId \in Nat, nextId' \in Nat, IdsKept,
           NEW p \in Pair, pair'[p] = pair[p], Halves(p)
    PROVE  Halves(p)'
<1>1. ASSUME NEW h, NEW kind, NEW orig, NEW serial, Made(h, kind, orig, serial)
      PROVE  Made(h, kind, orig, serial)'
    BY <1>1, MadeKept
<1>2. PICK server, client, first, second :
          /\ server = pair[p].server /\ client = pair[p].client
          /\ first = pair[p].base /\ second = SecondSerial(pair[p].base)
    OBVIOUS
<1>3. SecondSerial(pair[p].base)' = SecondSerial(pair[p].base)
    BY DEF SecondSerial
<1>4. /\ pair[p].stage \in {"open_client", "open"} => Made(server, "server", OrigOf[p], first)'
      /\ pair[p].stage = "open" => Made(client, "client", OrigOf[p], second)'
    BY <1>1, <1>2 DEF Halves
<1> QED BY <1>2, <1>3, <1>4 DEF Halves, Made

\* The reply is read: what it says is what open() records.
LEMMA HalvesReceive ==
    ASSUME LineInv, ExchangeInv, Typed, nextId \in Nat, nextId' = nextId, UNCHANGED conn,
           NEW p \in Pair, Receive(p), Halves(p)
    PROVE  Halves(p)'
<1> DEFINE s == ScannerOf[p]
<1>1. p \in sent /\ s \in Scanner /\ stream[s] # <<>>
    BY PairAssumption DEF Receive
<1>2. s \in link
    BY <1>1 DEF ExchangeInv
<1>3. PICK r \in ReplyType : stream[s] = <<r>> /\ Fits(p, r)
    BY <1>1, <1>2 DEF ExchangeInv, Asked, Answered
<1>4. Head(stream[s]) = r
    BY <1>3
<1>5. pair \in [Pair -> PairType]
    BY DEF Typed, PairType
<1>6. PICK stage, base, server, client :
          /\ stage = pair[p].stage /\ base = pair[p].base
          /\ server = pair[p].server /\ client = pair[p].client
    OBVIOUS
<1>7. /\ pair'[p].stage = StageAfter(stage, r.ok)
      /\ pair'[p].base = base
      /\ pair'[p].server = IF stage = "open_server" /\ r.ok THEN Half(r) ELSE server
      /\ pair'[p].client = IF stage = "open_client" /\ r.ok THEN Half(r) ELSE client
    BY <1>4, <1>5, <1>6 DEF Receive, PairType
<1>8. \A h, kind, orig, serial : Made(h, kind, orig, serial) =>
          Made(h, kind, orig, serial)' /\ Made(Half(h), kind, orig, serial)'
    BY DEF Made, Half, LiveId
<1>9. CASE stage = "open_server" /\ r.ok
    <2>1. pair'[p].stage = "open_client" /\ pair'[p].server = Half(r)
        BY <1>7, <1>9 DEF StageAfter
    <2>2. Made(r, "server", OrigOf[p], base)
        BY <1>3, <1>6, <1>9 DEF Fits, OpeningKind, SerialIn
    <2>3. Made(Half(r), "server", OrigOf[p], base)'
        BY <1>8, <2>2
    <2> QED BY <1>7, <2>1, <2>3 DEF Halves, Made
<1>10. CASE stage = "open_client" /\ r.ok
    <2>1. /\ pair'[p].stage = "open" /\ pair'[p].server = server /\ pair'[p].client = Half(r)
          /\ SecondSerial(pair[p].base)' = SecondSerial(base)
        BY <1>7, <1>10 DEF StageAfter, SecondSerial
    <2>2. Made(r, "client", OrigOf[p], SecondSerial(base)) /\ Made(server, "server", OrigOf[p], base)
        BY <1>3, <1>6, <1>10 DEF Fits, OpeningKind, SerialIn, Halves
    <2>3. /\ Made(Half(r), "client", OrigOf[p], SecondSerial(base))'
          /\ Made(server, "server", OrigOf[p], base)'
        BY <1>8, <2>2
    <2> QED BY <1>7, <2>1, <2>3 DEF Halves, Made
<1>11. CASE stage \notin {"open_server", "open_client"} \/ ~r.ok
    <2>1. pair'[p].stage \notin {"open_client", "open"}
        BY <1>7, <1>11 DEF StageAfter
    <2> QED BY <2>1 DEF Halves
<1> QED BY <1>9, <1>10, <1>11

LEMMA HalvesStep ==
    IInv /\ Typed /\ LineInv /\ ExchangeInv /\ HalvesInv /\ [Next]_vars => HalvesInv'
<1> SUFFICES ASSUME IInv, Typed, LineInv, ExchangeInv, HalvesInv, [Next]_vars, NEW u \in Pair
             PROVE  Halves(u)'
    BY DEF HalvesInv
<1>0. /\ pair \in [Pair -> PairType] /\ Halves(u)
      /\ nextId \in Nat /\ nextId' \in Nat /\ IdsKept
    <2>1. IInv' /\ IdsKept
        BY TargetOfStep, TargetStep, TargetIds
    <2> QED BY <2>1, IdAssumption DEF Typed, PairType, IInv, TargetTypeOK, HalvesInv
<1>1. CASE pair'[u] = pair[u]
    BY <1>0, <1>1, HalvesKept
<1>2. CASE pair'[u].stage \notin {"open_client", "open"}
    BY <1>2 DEF Halves
<1>3. CASE Receive(u)
    <2>1. nextId' = nextId /\ UNCHANGED conn
        BY <1>3 DEF Receive, targetVars
    <2> QED BY <1>0, <1>3, <2>1, HalvesReceive
<1>4. ASSUME NEW p \in Pair, Receive(p) \/ Raise(p) \/ Close(p) \/ \E b \in Clock : Open(p, b), p # u
      PROVE  pair'[u] = pair[u]
    BY <1>0, <1>4 DEF Receive, Raise, Close, Open, Enters, PairType
<1>5. CASE Raise(u) \/ Close(u) \/ \E b \in Clock : Open(u, b)
    <2>1. pair'[u].stage \in {StageAfter(pair[u].stage, FALSE), "close_server", "open_server"}
        BY <1>0, <1>5 DEF Raise, Close, Open, Enters, PairType
    <2> QED BY <1>2, <2>1 DEF StageAfter
<1>6. ASSUME NEW p \in Pair, Write(p) PROVE pair'[u] = pair[u]
    BY <1>6 DEF Write
<1>7. ASSUME NEW s \in Scanner, Serve(s) \/ Drop(s) \/ Notice(s) \/ Connect(s)
      PROVE  pair'[u] = pair[u]
    BY <1>7 DEF Serve, ServeOpen, ServeClose, Answers, Drop, Notice, Connect
<1> QED BY <1>1, <1>3, <1>4, <1>5, <1>6, <1>7 DEF Next, Proceed, vars, pairVars

\* An exchange goes on as it was while its scanner's messages and its pair are
\* left alone.
LEMMA ExchangeKept ==
    ASSUME nextId \in Nat, nextId' \in Nat, IdsKept,
           NEW p \in Pair, pair'[p] = pair[p],
           wire'[ScannerOf[p]] = wire[ScannerOf[p]], stream'[ScannerOf[p]] = stream[ScannerOf[p]]
    PROVE  (Asked(p) => Asked(p)') /\ (Answered(p) => Answered(p)')
<1>1. RequestOf(p)' = RequestOf(p)
    BY SameRequest
<1>2. ASSUME NEW r \in ReplyType, Fits(p, r) PROVE Fits(p, r)'
    BY <1>2, FitsKept
<1> QED BY <1>1, <1>2 DEF Asked, Answered

LEMMA WriteExchange ==
    ASSUME Typed, LineInv, ExchangeInv, nextId \in Nat, NEW p \in Pair, Write(p)
    PROVE  ExchangeInv'
<1> DEFINE s == ScannerOf[p]
<1>1. /\ s \in link /\ s \in Scanner /\ p \notin sent /\ MayWrite(p)
      /\ UNCHANGED <<link, sock, stream, pair, conn, nextId>> /\ sent' = sent \cup {p}
    BY PairAssumption DEF Write, targetVars
<1>2. Idle(s)
    BY <1>1 DEF Idle, LineInv, MayWrite
<1>3. wire[s] = <<>> /\ stream[s] = <<>>
    BY <1>1, <1>2 DEF ExchangeInv
<1>4. wire' = [wire EXCEPT ![s] = Append(wire[s], RequestOf(p))] /\ wire \in [Scanner -> Seq(Message)]
    BY DEF Write, Typed
<1>5. wire'[s] = <<RequestOf(p)>> /\ \A z \in Scanner \ {s} : wire'[z] = wire[z]
    BY <1>1, <1>3, <1>4
<1>6. RequestOf(p)' = RequestOf(p)
    BY <1>1, SameRequest
<1>7. Asked(p)'
    BY <1>1, <1>3, <1>5, <1>6 DEF Asked
<1>8. ASSUME NEW u \in sent, ScannerOf[u] \in link PROVE (Asked(u) \/ Answered(u))'
    <2>1. u \in Pair /\ ScannerOf[u] \in Scanner \ {s}
        BY <1>2, PairAssumption DEF Idle, Typed
    <2>2. IdsKept
        BY <1>1 DEF IdsKept, LiveId
    <2>3. Asked(u) \/ Answered(u)
        BY <1>8 DEF ExchangeInv
    <2> QED BY <1>1, <1>5, <2>1, <2>2, <2>3, ExchangeKept
<1>9. \A z \in Scanner \ {s} : Idle(z)' => Idle(z)
    BY <1>1 DEF Idle
<1>10. ~Idle(s)'
    BY <1>1 DEF Idle
<1>11. s \notin Scanner \ link /\ s \notin Scanner \ sock /\ link \subseteq Scanner
    BY <1>1 DEF ExchangeInv, Typed
<1> QED BY <1>1, <1>5, <1>7, <1>8, <1>9, <1>10, <1>11 DEF ExchangeInv

\* The holder of the lock lets it go, with its reply or when the connection ended.
LEMMA LetGoExchange ==
    ASSUME Typed, LineInv, ExchangeInv, nextId \in Nat, NEW p \in Pair, Receive(p) \/ Raise(p)
    PROVE  ExchangeInv'
<1> DEFINE s == ScannerOf[p]
<1>1. /\ s \in Scanner /\ MayWrite(p)
      /\ UNCHANGED <<link, sock, wire, conn, nextId>> /\ sent' = sent \ {p}
      /\ \A u \in Pair \ {p} : pair'[u] = pair[u]
      /\ \A z \in Scanner \ {s} : stream'[z] = stream[z]
    BY PairAssumption DEF Receive, Raise, LetGo, Enters, Typed, targetVars
<1>2. \A u \in sent' : ScannerOf[u] # s
    BY <1>1 DEF LineInv, MayWrite
<1>3. stream'[s] = <<>> /\ (s \in link => wire[s] = <<>>)
    <2>1. CASE Receive(p)
        <3>1. p \in sent /\ stream[s] # <<>> /\ stream' = [stream EXCEPT ![s] = Tail(stream[s])]
            BY <2>1 DEF Receive
        <3>2. s \in link
            BY <1>1, <3>1 DEF ExchangeInv
        <3>3. Answered(p)
            BY <3>1, <3>2 DEF ExchangeInv, Asked
        <3> QED BY <1>1, <3>1, <3>3 DEF Answered, Typed
    <2>2. CASE Raise(p)
        BY <1>1, <2>2 DEF Raise, ExchangeInv
    <2> QED BY <2>1, <2>2
<1>4. ASSUME NEW u \in sent', ScannerOf[u] \in link PROVE (Asked(u) \/ Answered(u))'
    <2>1. u \in Pair /\ u # p /\ u \in sent /\ ScannerOf[u] \in Scanner \ {s}
        BY <1>1, <1>2, PairAssumption DEF Typed
    <2>2. IdsKept
        BY <1>1 DEF IdsKept, LiveId
    <2>3. Asked(u) \/ Answered(u)
        BY <1>4, <2>1 DEF ExchangeInv
    <2> QED BY <1>1, <2>1, <2>2, <2>3, ExchangeKept
<1>5. \A z \in Scanner \ {s} : Idle(z)' => Idle(z)
    BY <1>1 DEF Idle
<1>6. link \subseteq Scanner
    BY DEF Typed
<1> QED BY <1>1, <1>3, <1>4, <1>5, <1>6 DEF ExchangeInv

\* The target answers what is written on a socket: one request, the holder's.
LEMMA ServeExchange ==
    ASSUME IInv, Typed, LineInv, ExchangeInv, nextId \in Nat, nextId' \in Nat, IdsKept,
           NEW s \in Scanner, Serve(s)
    PROVE  ExchangeInv'
<1>1. PICK reply : Answers(s, reply) /\ wire[s] # <<>> /\ s \in sock
    BY DEF Serve, ServeOpen, ServeClose
<1>2. /\ UNCHANGED <<link, sock, sent, pair>>
      /\ wire' = [wire EXCEPT ![s] = Tail(wire[s])] /\ wire \in [Scanner -> Seq(Message)]
      /\ stream \in [Scanner -> Seq(ReplyType)]
      /\ \A z \in Scanner \ {s} : wire'[z] = wire[z] /\ stream'[z] = stream[z]
      /\ s \notin link => stream' = stream
    BY <1>1 DEF Answers, Typed
<1>3. ASSUME NEW u \in sent, ScannerOf[u] \in link, ScannerOf[u] # s
      PROVE  (Asked(u) \/ Answered(u))'
    <2>1. u \in Pair /\ ScannerOf[u] \in Scanner \ {s}
        BY <1>3, PairAssumption DEF Typed
    <2>2. Asked(u) \/ Answered(u)
        BY <1>3 DEF ExchangeInv
    <2> QED BY <1>2, <2>1, <2>2, ExchangeKept
<1>4. ASSUME NEW u \in sent, ScannerOf[u] = s, s \in link
      PROVE  Answered(u)'
    <2>1. u \in Pair
        BY DEF Typed
    <2>2. wire[s] = <<RequestOf(u)>> /\ stream[s] = <<>>
        BY <1>1, <1>4 DEF ExchangeInv, Asked, Answered
    <2>3. wire'[s] = <<>>
        BY <1>2, <2>2
    <2>4. Head(wire[s]) = RequestOf(u) /\ RequestOf(u) \in Message
        BY <2>1, <2>2, RequestTyped
    <2>5. ASSUME NEW r \in ReplyType, Answers(s, r) PROVE stream'[s] = <<r>>
        BY <1>2, <1>4, <2>2, <2>5 DEF Answers
    <2>6. None \in {Device, None} /\ 0 \in 0 .. MaxId /\ 0 \in 0 .. Word - 1
        BY IdAssumption, WordAssumption
    <2>7. CASE ServeClose(s)
        <3>1. PICK r \in ReplyType : Answers(s, r)
            BY <2>6, <2>7 DEF ServeClose, ClosedReply, ReplyType
        <3>2. pair[u].stage \notin {"open_server", "open_client"}
            BY <2>4, <2>7 DEF ServeClose, RequestOf
        <3>3. Fits(u, r)'
            BY <1>2, <3>2 DEF Fits
        <3> QED BY <1>4, <2>3, <2>5, <3>1, <3>3 DEF Answered
    <2>8. CASE ServeOpen(s)
        <3> DEFINE req == Head(wire[s]).req
        <3>1. req = RequestOf(u).req /\ RequestOf(u).open
            BY <2>4, <2>8 DEF ServeOpen
        <3>2. CASE Refused(req)
            <4>1. RefusedReply \in ReplyType /\ Answers(s, RefusedReply)
                BY <2>6, <2>8, <3>2 DEF ServeOpen, RefusedReply, ReplyType
            <4>2. Fits(u, RefusedReply)'
                BY DEF Fits, RefusedReply
            <4> QED BY <1>4, <2>3, <2>5, <4>1, <4>2 DEF Answered, RefusedReply
        <3>3. CASE ~Refused(req)
            <4>1. PICK r : r = OpenedReply(req, s)
                OBVIOUS
            <4>2. Admit(req, s) /\ Answers(s, r)
                BY <2>8, <3>3, <4>1 DEF ServeOpen
            <4>3. req \in OpenRequest /\ s \in Socket
                BY <1>1, <2>8, HeadTyped DEF ServeOpen, Scanner
            <4>4. r \in ReplyType
                <5>1. nextId + 1 \in Id /\ Entry(req, s) \in Connection
                    BY <4>2, <4>3, AdmitTable
                <5>2. nextId + 1 \in 0 .. MaxId /\ SvInstId(Entry(req, s)) \in 0 .. Word - 1
                    BY <5>1, IdAssumption, SvInstIdTyped DEF Id
                <5> QED BY <4>1, <5>2 DEF OpenedReply, ReplyType
            <4>5. PICK kind, serial : kind = req.kind /\ serial = req.serial
                OBVIOUS
            <4>6. Made(r, kind, OrigOf[u], serial)'
                <5>1. req.orig = OrigOf[u]
                    BY <3>1 DEF RequestOf, OpenRequestOf
                <5>2. PICK q \in OpenRequest : q = req
                    BY <4>3
                <5> HIDE DEF req
                <5>3. Made(r, q.kind, q.orig, q.serial)'
                    BY <4>1, <4>2, <4>3, <5>2, OpenedMade
                <5> QED BY <4>5, <5>1, <5>2, <5>3
            <4>7. pair[u].stage \in {"open_server", "open_client"} =>
                      kind = OpeningKind(pair[u].stage) /\ serial = SerialIn(u, pair[u].stage)
                BY <3>1, <4>5 DEF RequestOf, OpenRequestOf, OpeningKind
            <4>8. /\ OpeningKind(pair[u].stage)' = OpeningKind(pair[u].stage)
                  /\ SerialIn(u, pair[u].stage)' = SerialIn(u, pair[u].stage)
                BY <1>2, <2>1, SameRequest DEF OpeningKind
            <4>9. Fits(u, r)'
                BY <1>2, <4>6, <4>7, <4>8 DEF Fits, Made
            <4> QED BY <1>4, <2>3, <2>5, <4>2, <4>4, <4>9 DEF Answered
        <3> QED BY <3>2, <3>3
    <2> QED BY <2>7, <2>8 DEF Serve
<1>5. s \in link => ~Idle(s)
    BY <1>1 DEF ExchangeInv
<1>6. \A z \in Scanner : Idle(z)' <=> Idle(z)
    BY <1>2 DEF Idle
<1>7. link \subseteq Scanner
    BY DEF Typed
<1> QED BY <1>1, <1>2, <1>3, <1>4, <1>5, <1>6, <1>7 DEF ExchangeInv

\* The TCP connection ends, the target sees it end, or there is a new one.
LEMMA NetworkExchange ==
    ASSUME Typed, LineInv, ExchangeInv, nextId \in Nat, nextId' \in Nat, IdsKept,
           NEW s \in Scanner, Drop(s) \/ Notice(s) \/ Connect(s)
    PROVE  ExchangeInv'
<1>1. /\ UNCHANGED <<sent, pair, queue>>
      /\ stream \in [Scanner -> Seq(ReplyType)] /\ wire \in [Scanner -> Seq(Message)]
    BY DEF Drop, Notice, Connect, Typed
<1>2. \A z \in Scanner \ {s} :
          /\ wire'[z] = wire[z] /\ stream'[z] = stream[z]
          /\ z \in link' <=> z \in link
          /\ z \in sock' <=> z \in sock
    BY <1>1 DEF Drop, Notice, Connect
<1>3. /\ s \notin link' => stream'[s] = <<>>
      /\ s \notin sock' => wire'[s] = <<>>
      /\ s \in link' => s \in sock' /\ stream'[s] = <<>> /\ wire'[s] = <<>> /\ Idle(s)
    BY <1>1 DEF Drop, Notice, Connect, ExchangeInv, Idle, LineInv, MayWrite
<1>4. ASSUME NEW u \in sent, ScannerOf[u] \in link' PROVE (Asked(u) \/ Answered(u))'
    <2>1. u \in Pair /\ ScannerOf[u] \in Scanner \ {s} /\ ScannerOf[u] \in link
        BY <1>2, <1>3, <1>4, PairAssumption DEF Idle, Typed
    <2>2. Asked(u) \/ Answered(u)
        BY <2>1 DEF ExchangeInv
    <2> QED BY <1>1, <1>2, <2>1, <2>2, ExchangeKept
<1>5. \A z \in Scanner : Idle(z)' <=> Idle(z)
    BY <1>1 DEF Idle
<1>6. link' \subseteq Scanner /\ link \subseteq Scanner
    BY DEF Typed, Drop, Notice, Connect
<1> QED BY <1>1, <1>2, <1>3, <1>4, <1>5, <1>6 DEF ExchangeInv

LEMMA ExchangeStep ==
    IInv /\ Typed /\ LineInv /\ ExchangeInv /\ [Next]_vars => ExchangeInv'
<1> SUFFICES ASSUME IInv, Typed, LineInv, ExchangeInv, [Next]_vars PROVE ExchangeInv'
    OBVIOUS
<1>0. nextId \in Nat /\ nextId' \in Nat /\ IdsKept
    <2>1. IInv' /\ IdsKept
        BY TargetOfStep, TargetStep, TargetIds
    <2> QED BY <2>1, IdAssumption DEF IInv, TargetTypeOK
<1>1. ASSUME NEW p \in Pair, Proceed(p) PROVE ExchangeInv'
    BY <1>0, <1>1, WriteExchange, LetGoExchange DEF Proceed
<1>2. ASSUME UNCHANGED <<link, sock, sent, wire, stream>>, \A u \in sent : pair'[u] = pair[u]
      PROVE  ExchangeInv'
    <2>1. ASSUME NEW u \in sent, ScannerOf[u] \in link PROVE (Asked(u) \/ Answered(u))'
        <3>1. u \in Pair /\ (Asked(u) \/ Answered(u))
            BY <2>1 DEF Typed, ExchangeInv
        <3> QED BY <1>0, <1>2, <3>1, ExchangeKept
    <2> QED BY <1>2, <2>1 DEF ExchangeInv, Idle
<1>3. ASSUME NEW p \in Pair, Close(p) \/ \E b \in Clock : Open(p, b) PROVE ExchangeInv'
    <2>1. pair[p].stage \notin Waiting
        BY <1>3 DEF Close, Open, Waiting
    <2>2. p \notin sent
        <3>1. ASSUME MayWrite(p) PROVE p \in Range(queue[ScannerOf[p]])
            <4>1. PICK q \in Seq(Pair) : q = queue[ScannerOf[p]]
                BY PairAssumption DEF LineInv
            <4>2. NoTwice(q) /\ q # <<>> /\ p = Head(q)
                BY <3>1, <4>1, PairAssumption DEF MayWrite, LineInv
            <4> QED BY <4>1, <4>2, LeaveLine
        <3> QED BY <2>1, <3>1 DEF LineInv
    <2>3. \A u \in sent : pair'[u] = pair[u]
        BY <1>3, <2>2 DEF Close, Open, Enters, Typed
    <2> QED BY <1>2, <1>3, <2>3 DEF Close, Open
<1>4. ASSUME NEW s \in Scanner, Serve(s) PROVE ExchangeInv'
    BY <1>0, <1>4, ServeExchange
<1>5. ASSUME NEW s \in Scanner, Drop(s) \/ Notice(s) \/ Connect(s) PROVE ExchangeInv'
    BY <1>0, <1>5, NetworkExchange
<1>6. CASE UNCHANGED pairVars
    BY <1>2, <1>6 DEF pairVars
<1> QED BY <1>1, <1>3, <1>4, <1>5, <1>6 DEF Next, vars

LEMMA SeedsStart == Init => LineInv /\ ExchangeInv /\ HalvesInv
<1> SUFFICES ASSUME Init PROVE ExchangeInv /\ HalvesInv
    BY LineStart
<1>1. ExchangeInv
    BY DEF Init, ExchangeInv
<1>2. \A p \in Pair : pair[p].stage = "new"
    BY DEF Init
<1> QED BY <1>1, <1>2 DEF HalvesInv, Halves

\* The ends of an open pair agree on the four seeds, whatever requests other
\* pairs make over the same scanner, whoever else opens and closes, and whenever
\* the connection ends: for any number of pairs, scanners and originators
\* (SafetyScannerConnection.open, EipScanner._send_and_receive).
THEOREM AlwaysSeedsAgree == Spec => []SeedsAgree
<1>1. HalvesInv => SeedsAgree
    <2> SUFFICES ASSUME HalvesInv, NEW p \in Pair, pair[p].stage = "open"
                 PROVE  /\ pair[p].server.id \in LiveId =>
                               /\ OriginatorPid(conn[pair[p].server.id]) = OriginatorSeed(p)
                               /\ ConsumerCid(conn[pair[p].server.id]) = TargetCoordinationSeed(p)
                        /\ pair[p].client.id \in LiveId =>
                               /\ TargetPid(conn[pair[p].client.id]) = TargetSeed(p)
                               /\ OriginatorPid(conn[pair[p].client.id]) = CoordinationSeed(p)
        BY DEF SeedsAgree
    <2>1. /\ Made(pair[p].server, "server", OrigOf[p], pair[p].base)
          /\ Made(pair[p].client, "client", OrigOf[p], SecondSerial(pair[p].base))
        BY DEF HalvesInv, Halves
    <2> QED BY <2>1 DEF Made, OriginatorPid, ConsumerCid, TargetPid, OriginatorSeed,
                        TargetSeed, CoordinationSeed, TargetCoordinationSeed
<1> QED BY <1>1, AlwaysTyped, SeedsStart, LineStep, ExchangeStep, HalvesStep, PTL DEF Spec
=============================================================================
