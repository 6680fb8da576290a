------------------------ MODULE TagClientStore_proofs ------------------------
(***************************************************************************)
(* TagClient implements TagStore: the requests and replies of the tag      *)
(* services and what the buffers hold, for any tags, shapes, calls and     *)
(* peers.  Where the segments of a path lead is a fold over them, and a    *)
(* hypothesis here (PlacesFound); everything from there on is proved.      *)
(***************************************************************************)
EXTENDS TagClient_proofs

(***************************************************************************)
(* The requests of the tag services, and the answers to them.              *)
(***************************************************************************)
AddressOf(req) == [root |-> req.path.root, segs |-> req.path.segs]

TagRequestOK(req) ==
    /\ AddressOf(req) \in Address
    /\ req.path.id \in Nat /\ req.count \in Nat /\ req.off \in Nat
    /\ req.bytes \in Seq(Byte)

RequestOK(req) ==
    /\ req.svc \in TagService => TagRequestOK(req)
    /\ req.svc = "multiple" =>
           /\ Len(req.subs) \in Nat \ {0} /\ DOMAIN req.subs = 1 .. Len(req.subs)
           /\ \A i \in 1 .. Len(req.subs) :
                  req.subs[i].svc \in {"read", "write"} /\ TagRequestOK(req.subs[i])

Header == {{"type"}, {"handle"}}

Answers == [status : {"ok", "more", "error"}, head : Seq(Header), data : Seq(Byte)]

\* The answers made so far, and the reply.
PartsOK(req, parts) ==
    IF req.svc = "multiple"
    THEN /\ parts \in Seq(Answers) /\ Len(parts) < Len(req.subs)
         /\ Len(req.subs) > MaxServices => parts = <<>>
    ELSE parts = <<>>

ReplyOK(req, r) ==
    /\ req.svc \in TagService =>
           \E answer \in Answers : r.parts = <<answer>> /\ r.status = answer.status
    /\ req.svc = "multiple" =>
           r.parts = <<>> \/ (r.parts \in Seq(Answers) /\ Len(r.parts) = Len(req.subs))

(***************************************************************************)
(* The invariant.                                                          *)
(***************************************************************************)
Buffers(m) ==
    /\ DOMAIN m = Tag
    /\ \A n \in Tag : m[n] \in Seq(Byte) /\ Len(m[n]) = DataSize(n)

\* Names are found of tags that are listed, and a program's tags are cached
\* under ids of the program.
NamesInv ==
    /\ named \subseteq Range(ids)
    /\ NoTwice(pids)
    /\ \A n \in PTag : atoms[n] # 0 => atoms[n] \in 1 .. Len(pids)

IsFragment(req) ==
    req.svc = "read_fragment" /\ DOMAIN req = {"svc", "path", "count", "off", "type", "bytes"}

CallData(st) ==
    /\ st.pos \in Nat
    /\ RequestOK(st.req)
    /\ st.op = "struct" => st.stage = "none" /\ (st.req = NoReq \/ IsFragment(st.req))

CallsData == \A t \in Task : CallData(task[t])

ReplyInv ==
    /\ wire # NoRequest => PartsOK(wire.req, wire.parts)
    /\ stream # <<>> => \A t \in sent : stream[1].task = t /\ ReplyOK(task[t].req, stream[1])

DataInv == NamesInv /\ Buffers(mem) /\ CallsData /\ ReplyInv

(***************************************************************************)
(* The invariant of direct calls: a path with an id has the id of its      *)
(* root, whose instance is made, and a write is as long as its count.      *)
(***************************************************************************)
Directed(cs, table, req) ==
    /\ req.svc \in {"read", "read_fragment", "write"}
    /\ Direct(AddressOf(req))
    /\ req.path.id # 0 => /\ req.path.id \in 1 .. Len(cs)
                          /\ cs[req.path.id] = req.path.root /\ table[req.path.id] # NoTag
    /\ req.svc \in {"read", "write"} => req.off = 0
    /\ req.svc = "write" => Len(req.bytes) = req.count * Extent[AddressOf(req)].size

AllDirected(cs, table, req) ==
    /\ req.svc \in TagService => Directed(cs, table, req)
    /\ req.svc = "multiple" => \A i \in 1 .. Len(req.subs) : Directed(cs, table, req.subs[i])

RouteInv == \A t \in Task : AllDirected(ids, inst, task[t].req)

(***************************************************************************)
(* The invariant of read_struct, of structures that fit one reply: it asks *)
(* for the whole once, and is answered with the whole or an error.         *)
(***************************************************************************)
StructCall(st) ==
    LET e == Extent[st.addr]
    IN  /\ st.addr \in Address /\ e.type # Atomic
        /\ e.off + e.size <= DataSize(st.addr.root)
        /\ e.size + Len(Prefix(e.type)) <= MaxReply
        /\ IF st.req = NoReq
           THEN st.got \in Seq(Byte) /\ Len(st.got) = e.size
           ELSE /\ st.req.svc = "read_fragment" /\ AddressOf(st.req) = st.addr
                /\ st.req.count = 1 /\ st.req.off = 0
                /\ st.header = FALSE /\ st.got = <<>>

WholeReply(st, r) ==
    \/ r.status = "error"
    \/ /\ r.status = "ok"
       /\ \E answer \in Answers :
              /\ r.parts = <<answer>> /\ Len(answer.head) = 4
              /\ Len(answer.data) = Extent[st.addr].size

StructInv ==
    /\ \A t \in Task : task[t].op = "struct" => StructCall(task[t])
    /\ stream # <<>> =>
           \A t \in sent : task[t].op = "struct" => WholeReply(task[t], stream[1])

(***************************************************************************)
(* Numbers and sequences.                                                  *)
(***************************************************************************)
LEMMA Product == ASSUME NEW a \in Nat, NEW b \in Nat PROVE a * b \in Nat
  OBVIOUS

LEMMA LesserOf ==
  ASSUME NEW a \in Int, NEW b \in Int
  PROVE  /\ Lesser(a, b) \in {a, b}
         /\ Lesser(a, b) \in Int /\ Lesser(a, b) <= a /\ Lesser(a, b) <= b
  BY DEF Lesser

LEMMA MadeSeq ==
  ASSUME NEW n \in Nat, NEW S, NEW s, s \in [1 .. n -> S]
  PROVE  s \in Seq(S) /\ Len(s) = n /\ DOMAIN s = 1 .. n
  OBVIOUS

LEMMA ElementIn ==
  ASSUME NEW S, NEW s \in Seq(S), NEW i \in 1 .. Len(s)
  PROVE  s[i] \in S
  OBVIOUS

LEMMA Slice ==
  ASSUME NEW S, NEW s \in Seq(S), NEW off \in Nat, NEW len \in Nat, off + len <= Len(s)
  PROVE  /\ SubSeq(s, off + 1, off + len) \in Seq(S)
         /\ Len(SubSeq(s, off + 1, off + len)) = len
         /\ \A i \in 1 .. len : SubSeq(s, off + 1, off + len)[i] = s[off + i]
  OBVIOUS

LEMMA PrefixOf ==
  ASSUME NEW type
  PROVE  /\ Prefix(type) \in Seq(Header)
         /\ Len(Prefix(type)) = IF type = Atomic THEN 2 ELSE 4
         /\ MaxReply - Len(Prefix(type)) \in Nat
  <1>1. {"type"} \in Header /\ {"handle"} \in Header
    BY DEF Header
  <1>2. Prefix(type) \in Seq(Header) /\ Len(Prefix(type)) = IF type = Atomic THEN 2 ELSE 4
    BY <1>1 DEF Prefix
  <1>3. MaxReply \in Nat /\ MaxReply > 4
    BY PageAssumption
  <1> QED
    BY <1>2, <1>3

(***************************************************************************)
(* Where a request lands.                                                  *)
(***************************************************************************)
LEMMA AddressFields ==
  ASSUME NEW req, AddressOf(req) \in Address
  PROVE  LET a == AddressOf(req)
         IN  /\ a.root = req.path.root /\ a.segs = req.path.segs
             /\ req.path.root \in Tag /\ LastIndex(req.path.segs) \in Nat
             /\ Extent[a].off \in Nat /\ Extent[a].size \in Nat
  <1> DEFINE a == AddressOf(req)
  <1>1. a.root = req.path.root /\ a.segs = req.path.segs
    BY DEF AddressOf
  <1>2. a.root \in Tag /\ LastIndex(a.segs) \in Nat
    BY AddressAssumption
  <1>3. Extent[a] \in [off : Nat, size : Nat, type : {Atomic} \cup DOMAIN Template]
    BY AddressAssumption
  <1> QED
    BY <1>1, <1>2, <1>3

LEMMA RootFields ==
  ASSUME NEW n \in Tag
  PROVE  /\ Root(n).off = 0 /\ Root(n).size = Shape[n].size /\ Root(n).type = Shape[n].type
         /\ Root(n).bit = NoBit
         /\ Shape[n].size \in Nat /\ Shape[n].size > 0
         /\ Root(n) # NoPlace
  <1>1. Shape[n] \in [size : Nat \ {0}, dims : Seq(Nat \ {0}), type : {Atomic} \cup DOMAIN Template]
    BY ShapeAssumption
  <1>2. Root(n).off = 0 /\ NoPlace.off = -1
    BY DEF Root, NoPlace
  <1>3. 0 # -1
    OBVIOUS
  <1> QED
    BY <1>1, <1>2, <1>3 DEF Root

\* By its name a request lands where the walker ends.
LEMMA NameLands ==
  ASSUME NEW n \in Tag, NEW segs, ByName(n, segs) # Nowhere
  PROVE  LET a == [root |-> n, segs |-> segs]
         IN  /\ ByName(n, segs) = [tag |-> n, at |-> PlaceOf(a)]
             /\ PlaceOf(a) # NoPlace
  BY RootFields DEF ByName, PlaceOf

\* By an instance it lands in the tag of the instance, at an element of it.
LEMMA InstanceLands ==
  ASSUME InstInv, NEW id, NEW segs, ByInstance(id, segs) # Nowhere
  PROVE  LET to == ByInstance(id, segs)
         IN  /\ id \in Instance /\ inst[id] \in Tag /\ to.tag = inst[id]
             /\ to.at.off = LastIndex(segs) * Shape[inst[id]].size
             /\ to.at.size = Shape[inst[id]].size /\ to.at.type = Shape[inst[id]].type
             /\ to.at.bit = NoBit
  BY DEF ByInstance, Root

LEMMA LandingOK ==
  ASSUME PlacesFound, InstInv, NEW req, TagRequestOK(req), Landing(req.path) # Nowhere
  PROVE  LET to == Landing(req.path)
         IN  /\ to.tag \in Tag
             /\ to.at.off \in Nat /\ to.at.size \in Nat
             /\ to.at.bit \in Bit \cup {NoBit}
  <1> DEFINE a == AddressOf(req)
             to == Landing(req.path)
  <1>1. /\ a \in Address /\ a.root = req.path.root /\ a.segs = req.path.segs
        /\ req.path.root \in Tag /\ LastIndex(req.path.segs) \in Nat
        /\ Extent[a].off \in Nat /\ Extent[a].size \in Nat
    BY AddressFields DEF TagRequestOK
  <1>2. CASE req.path.id # 0
    <2> DEFINE n == inst[req.path.id]
    <2>1. to = ByInstance(req.path.id, req.path.segs)
      BY <1>2 DEF Landing
    <2>2. /\ n \in Tag /\ to.tag = n
          /\ to.at.off = LastIndex(req.path.segs) * Shape[n].size
          /\ to.at.size = Shape[n].size /\ to.at.bit = NoBit
      BY <2>1, InstanceLands
    <2>3. Shape[n].size \in Nat
      BY <2>2, RootFields
    <2> HIDE DEF to, n
    <2>4. to.at.off \in Nat
      BY <1>1, <2>2, <2>3, Product
    <2> QED
      BY <2>2, <2>3, <2>4 DEF to
  <1>3. CASE req.path.id = 0
    <2>1. to = ByName(req.path.root, req.path.segs)
      BY <1>3 DEF Landing
    <2>2. to = [tag |-> req.path.root, at |-> PlaceOf(a)] /\ PlaceOf(a) # NoPlace
      BY <1>1, <2>1, NameLands DEF AddressOf
    <2> HIDE DEF to, a
    <2>3. to.tag = req.path.root /\ to.at = PlaceOf(a)
      BY <2>2
    <2>4. /\ PlaceOf(a).bit \in Bit \cup {NoBit}
          /\ PlaceOf(a).off = Extent[a].off /\ PlaceOf(a).size = Extent[a].size
      BY <1>1, <2>2 DEF PlacesFound
    <2> QED
      BY <1>1, <2>3, <2>4 DEF to
  <1> QED
    BY <1>1, <1>2, <1>3 DEF TagRequestOK

(***************************************************************************)
(* What a tag service answers.                                             *)
(***************************************************************************)
LEMMA AnswerIn ==
  ASSUME NEW status \in {"ok", "more", "error"}, NEW head \in Seq(Header), NEW data \in Seq(Byte)
  PROVE  [status |-> status, head |-> head, data |-> data] \in Answers
  BY DEF Answers

LEMMA RefusedIn == Refused \in Answers /\ Done \in Answers
  <1>1. <<>> \in Seq(Header) /\ <<>> \in Seq(Byte)
    OBVIOUS
  <1> QED
    BY <1>1, AnswerIn DEF Refused, Done

\* What a read of len bytes of the tag at off returns.
Returned(answer, to, off, len, partial) ==
    /\ answer \in Answers
    /\ answer.status = IF partial THEN "more" ELSE "ok"
    /\ answer.head = Prefix(to.at.type)
    /\ answer.data = SubSeq(mem[to.tag], off + 1, off + len)
    /\ Len(answer.data) = len

\* A read within the buffer.
LEMMA ReadIn ==
  ASSUME Buffers(mem), NEW to, to.tag \in Tag, NEW off \in Nat, NEW len \in Nat,
         off + len <= DataSize(to.tag), NEW partial \in BOOLEAN
  PROVE  Returned(ReadReply(to, off, len, partial), to, off, len, partial)
  <1>1. mem[to.tag] \in Seq(Byte) /\ off + len <= Len(mem[to.tag])
    BY DEF Buffers
  <1>2. /\ Bytes(to.tag, off, len) \in Seq(Byte) /\ Len(Bytes(to.tag, off, len)) = len
        /\ Bytes(to.tag, off, len) = SubSeq(mem[to.tag], off + 1, off + len)
    BY <1>1, Slice DEF Bytes
  <1>3. ReadReply(to, off, len, partial) =
            [status |-> IF partial THEN "more" ELSE "ok", head |-> Prefix(to.at.type),
             data |-> Bytes(to.tag, off, len)]
    BY DEF ReadReply
  <1>4. ReadReply(to, off, len, partial) \in Answers
    <2>1. Prefix(to.at.type) \in Seq(Header)
      BY PrefixOf
    <2>2. (IF partial THEN "more" ELSE "ok") \in {"ok", "more", "error"}
      OBVIOUS
    <2> QED
      BY <1>2, <1>3, <2>1, <2>2, AnswerIn
  <1> QED
    BY <1>2, <1>3, <1>4 DEF Returned

\* What a read of a tag returns: it is refused, or is a bit, or the bytes that
\* were asked for, as many of them as fit the reply.
LEMMA ReadTagGives ==
  ASSUME PlacesFound, Buffers(mem), NEW to, NEW req, req.count \in Nat,
         to.tag \in Tag, to.at.off \in Nat, to.at.size \in Nat, to.at.bit = NoBit,
         ReadTag(to, req) # Refused
  PROVE  LET len == req.count * to.at.size
             answer == ReadTag(to, req)
         IN  \E got \in 0 .. len :
                 /\ to.at.off + got <= DataSize(to.tag)
                 /\ answer \in Answers
                 /\ answer.head = Prefix(to.at.type)
                 /\ answer.data = SubSeq(mem[to.tag], to.at.off + 1, to.at.off + got)
                 /\ Len(answer.data) = got
                 /\ answer.status = "ok" => got = len
                 /\ answer.status \in {"ok", "more"}
  <1> DEFINE len == req.count * to.at.size
             fit == MaxReply - Len(Prefix(to.at.type))
             got == Lesser(len, fit)
             partial == len > fit
             answer == ReadTag(to, req)
  <1>1. len \in Nat
    BY Product
  <1>2. fit \in Nat
    BY PrefixOf
  <1>3. DataSize(to.tag) \in Nat
    BY DEF PlacesFound
  <1>4. to.at.off + len <= DataSize(to.tag) /\ answer = ReadReply(to, to.at.off, got, partial)
    <2>1. answer = IF to.at.off + len > DataSize(to.tag) THEN Refused
                   ELSE ReadReply(to, to.at.off, got, partial)
      BY DEF ReadTag
    <2> HIDE DEF len, got, partial
    <2>2. ~(to.at.off + len > DataSize(to.tag))
      BY <2>1
    <2> QED
      BY <1>1, <1>3, <2>1, <2>2
  <1> HIDE DEF len, fit, answer
  <1>5. got \in Nat /\ got <= len /\ (~partial => got = len)
    BY <1>1, <1>2 DEF Lesser
  <1>10. partial \in BOOLEAN
    OBVIOUS
  <1> HIDE DEF got, partial
  <1>6. to.at.off + got <= DataSize(to.tag)
    BY <1>1, <1>3, <1>4, <1>5
  <1>7. /\ answer \in Answers /\ answer.status = (IF partial THEN "more" ELSE "ok")
        /\ answer.head = Prefix(to.at.type)
        /\ answer.data = SubSeq(mem[to.tag], to.at.off + 1, to.at.off + got)
        /\ Len(answer.data) = got
    <2> DEFINE off == to.at.off
    <2>1. off \in Nat /\ off + got <= DataSize(to.tag)
      BY <1>6
    <2> HIDE DEF off
    <2>2. Returned(ReadReply(to, off, got, partial), to, off, got, partial)
      BY <1>5, <1>10, <2>1, ReadIn
    <2>3. Returned(answer, to, to.at.off, got, partial)
      BY <1>4, <2>2 DEF off
    <2> HIDE DEF off
    <2> QED
      BY <2>3 DEF Returned
  <1>8. got \in 0 .. len
    BY <1>1, <1>5
  <1>9. answer.status = "ok" => got = len
    BY <1>5, <1>7
  <1> QED
    BY <1>6, <1>7, <1>8, <1>9 DEF len, answer

LEMMA ReadFragmentGives ==
  ASSUME PlacesFound, Buffers(mem), NEW to, NEW req, req.count \in Nat, req.off \in Nat,
         to.tag \in Tag, to.at.off \in Nat, to.at.size \in Nat,
         ReadFragment(to, req) # Refused
  PROVE  LET total == req.count * to.at.size
             off == to.at.off + req.off
             answer == ReadFragment(to, req)
         IN  \E got \in 0 .. total - req.off :
                 /\ to.at.bit = NoBit
                 /\ off + got <= DataSize(to.tag)
                 /\ answer \in Answers
                 /\ answer.head = Prefix(to.at.type)
                 /\ answer.data = SubSeq(mem[to.tag], off + 1, off + got)
                 /\ Len(answer.data) = got
                 /\ answer.status = "ok" <=> req.off + got = total
                 /\ answer.status \in {"ok", "more"}
                 /\ got = Lesser(Lesser(total - req.off, DataSize(to.tag) - off),
                                 MaxReply - Len(Prefix(to.at.type)))
  <1> DEFINE total == req.count * to.at.size
             off == to.at.off + req.off
             fit == MaxReply - Len(Prefix(to.at.type))
             rest == DataSize(to.tag) - off
             got == Lesser(Lesser(total - req.off, rest), fit)
             partial == req.off + got < total
             answer == ReadFragment(to, req)
  <1>1. total \in Nat /\ off \in Nat
    BY Product
  <1>2. fit \in Nat
    BY PrefixOf
  <1>3. DataSize(to.tag) \in Nat
    BY DEF PlacesFound
  <1>4. /\ to.at.bit = NoBit /\ ~(req.off >= total) /\ ~(off >= DataSize(to.tag))
        /\ answer = ReadReply(to, off, got, partial)
    BY DEF ReadFragment
  <1> HIDE DEF total, off, answer, fit
  <1>5. req.off < total /\ off < DataSize(to.tag)
    BY <1>1, <1>3, <1>4
  <1>6. rest \in Nat /\ off + rest = DataSize(to.tag) /\ total - req.off \in Nat
    BY <1>1, <1>3, <1>5
  <1> HIDE DEF rest
  <1>7. got \in Nat /\ got <= total - req.off /\ got <= rest
    BY <1>2, <1>6 DEF Lesser
  <1> HIDE DEF got
  <1>10. partial \in BOOLEAN /\ (~partial <=> req.off + got = total)
    BY <1>1, <1>6, <1>7
  <1> HIDE DEF partial
  <1>8. off + got <= DataSize(to.tag) /\ got \in 0 .. total - req.off
    BY <1>1, <1>3, <1>6, <1>7
  <1>9. /\ answer \in Answers
        /\ answer.status = (IF partial THEN "more" ELSE "ok")
        /\ answer.head = Prefix(to.at.type)
        /\ answer.data = SubSeq(mem[to.tag], off + 1, off + got)
        /\ Len(answer.data) = got
    <2>1. Returned(ReadReply(to, off, got, partial), to, off, got, partial)
      BY <1>1, <1>7, <1>8, <1>10, ReadIn
    <2> QED
      BY <1>4, <2>1 DEF Returned
  <1>11. /\ answer.status \in {"ok", "more"}
         /\ answer.status = "ok" <=> req.off + got = total
    BY <1>9, <1>10
  <1> QED
    BY <1>4, <1>8, <1>9, <1>11 DEF total, off, answer, got, fit, rest

\* A tag service that is not refused has a place to go to.
LEMMA AnswerOK ==
  ASSUME PlacesFound, InstInv, Buffers(mem), NEW req, TagRequestOK(req)
  PROVE  Answer(req) \in Answers
  <1> DEFINE to == Landing(req.path)
  <1>1. CASE IsRefused(to, req)
    BY <1>1, RefusedIn DEF Answer
  <1>2. CASE ~IsRefused(to, req)
    <2>1. to # Nowhere
      BY <1>2 DEF IsRefused
    <2>2. /\ to.tag \in Tag /\ to.at.off \in Nat /\ to.at.size \in Nat
          /\ to.at.bit \in Bit \cup {NoBit}
      BY <2>1, LandingOK
    <2>3. req.count \in Nat /\ req.off \in Nat
      BY DEF TagRequestOK
    <2>4. Answer(req) \in {ReadTag(to, req), ReadFragment(to, req), Done}
      BY <1>2 DEF Answer
    <2> HIDE DEF to
    <2>5. ReadTag(to, req) \in Answers
      <3>1. CASE to.at.bit = NoBit
        BY <2>2, <2>3, <3>1, ReadTagGives, RefusedIn
      <3>2. CASE to.at.bit # NoBit
        <4>1. ReadTag(to, req) \in {BitReply(to), Refused}
          BY <3>2 DEF ReadTag
        <4>2. <<mem[to.tag][to.at.off + 1] \cap {to.at.bit}>> \in Seq(Byte)
          <5>1. mem[to.tag][to.at.off + 1] \cap {to.at.bit} \in Byte
            BY <2>2, <3>2 DEF Byte
          <5> QED
            BY <5>1
        <4>3. Prefix(Atomic) \in Seq(Header)
          BY PrefixOf
        <4>4. BitReply(to) \in Answers
          BY <4>2, <4>3, AnswerIn DEF BitReply
        <4> QED
          BY <4>1, <4>4, RefusedIn
      <3> QED
        BY <3>1, <3>2
    <2>6. ReadFragment(to, req) \in Answers
      BY <2>2, <2>3, ReadFragmentGives, RefusedIn
    <2> QED
      BY <2>4, <2>5, <2>6, RefusedIn
  <1> QED
    BY <1>1, <1>2

(***************************************************************************)
(* What a tag service does to the buffers.                                 *)
(***************************************************************************)
\* A buffer with bytes laid over it behind off.
Overlaid(data, off, bytes) ==
    [i \in DOMAIN data |->
        IF off < i /\ i <= off + Len(bytes) THEN bytes[i - off] ELSE data[i]]

\* What is set lies behind off, and no further than there are bytes.
LEMMA SetDataAt ==
  ASSUME Buffers(mem), NEW n \in Tag, NEW off \in Nat, NEW bytes \in Seq(Byte)
  PROVE  /\ Buffers(SetData(n, off, bytes))
         /\ \A m \in Tag \ {n} : SetData(n, off, bytes)[m] = mem[m]
         /\ SetData(n, off, bytes)[n] = Overlaid(mem[n], off, bytes)
         /\ SetData(n, off, bytes) = [mem EXCEPT ![n] = SetData(n, off, bytes)[n]]
  <1> DEFINE len == Lesser(Len(bytes), Len(mem[n]) - off)
             made == [i \in DOMAIN mem[n] |->
                         IF off < i /\ i <= off + len THEN bytes[i - off] ELSE mem[n][i]]
             written == [i \in DOMAIN mem[n] |->
                         IF off < i /\ i <= off + Len(bytes) THEN bytes[i - off] ELSE mem[n][i]]
  <1>1. /\ DOMAIN mem = Tag /\ \A m \in Tag : mem[m] \in Seq(Byte) /\ Len(mem[m]) = DataSize(m)
    BY DEF Buffers
  <1>2. SetData(n, off, bytes) = [mem EXCEPT ![n] = made]
    BY DEF SetData
  <1>3. DOMAIN mem[n] = 1 .. Len(mem[n]) /\ Len(mem[n]) \in Nat /\ Len(bytes) \in Nat
    BY <1>1
  <1>4. \A i \in DOMAIN mem[n] : i <= off + len <=> i <= off + Len(bytes)
    BY <1>3 DEF Lesser
  <1>5. made = written
    BY <1>4
  <1>6. written \in Seq(Byte) /\ Len(written) = Len(mem[n])
    <2>1. ASSUME NEW i \in 1 .. Len(mem[n])
          PROVE  (IF off < i /\ i <= off + Len(bytes) THEN bytes[i - off] ELSE mem[n][i]) \in Byte
      <3>1. mem[n][i] \in Byte
        BY <1>1
      <3>2. off < i /\ i <= off + Len(bytes) => i - off \in 1 .. Len(bytes)
        BY <1>3
      <3> QED
        BY <3>1, <3>2
    <2>2. written \in [1 .. Len(mem[n]) -> Byte]
      BY <1>3, <2>1
    <2> HIDE DEF written
    <2> QED
      BY <1>3, <2>2, MadeSeq
  <1> HIDE DEF made, written
  <1>7. /\ DOMAIN SetData(n, off, bytes) = Tag /\ SetData(n, off, bytes)[n] = written
        /\ \A m \in Tag \ {n} : SetData(n, off, bytes)[m] = mem[m]
        /\ SetData(n, off, bytes) = [mem EXCEPT ![n] = written]
    BY <1>1, <1>2, <1>5
  <1>8. Buffers(SetData(n, off, bytes))
    <2> DEFINE after == SetData(n, off, bytes)
    <2>1. ASSUME NEW m \in Tag
          PROVE  after[m] \in Seq(Byte) /\ Len(after[m]) = DataSize(m)
      <3>1. CASE m = n
        BY <1>1, <1>6, <1>7, <3>1
      <3>2. CASE m # n
        BY <1>1, <1>7, <3>2
      <3> QED
        BY <3>1, <3>2
    <2>2. DOMAIN after = Tag
      BY <1>7
    <2> HIDE DEF after
    <2>3. Buffers(after)
      BY <2>1, <2>2 DEF Buffers
    <2> QED
      BY <2>3 DEF after
  <1>9. written = Overlaid(mem[n], off, bytes)
    BY DEF Overlaid, written
  <1> QED
    BY <1>7, <1>8, <1>9

\* One byte is set, and it differs at most in its bit.
LEMMA SetBitAt ==
  ASSUME Buffers(mem), NEW to, to.tag \in Tag, to.at.off \in Nat, to.at.bit \in Bit, NEW one
  PROVE  /\ Buffers(SetBit(to, one))
         /\ \A m \in Tag \ {to.tag} : SetBit(to, one)[m] = mem[m]
         /\ \A i \in DOMAIN mem[to.tag] :
                i # to.at.off + 1 => SetBit(to, one)[to.tag][i] = mem[to.tag][i]
  <1> DEFINE n == to.tag
             k == to.at.off + 1
             new == IF one THEN mem[n][k] \cup {to.at.bit} ELSE mem[n][k] \ {to.at.bit}
             bytes == [mem[n] EXCEPT ![k] = new]
  <1>1. /\ DOMAIN mem = Tag /\ \A m \in Tag : mem[m] \in Seq(Byte) /\ Len(mem[m]) = DataSize(m)
    BY DEF Buffers
  <1>2. SetBit(to, one) = [mem EXCEPT ![n] = bytes]
    BY DEF SetBit
  <1>3. k \in 1 .. Len(mem[n]) => new \in Byte
    <2>1. k \in 1 .. Len(mem[n]) => mem[n][k] \in Byte
      BY <1>1
    <2> QED
      BY <2>1 DEF Byte
  <1> HIDE DEF new
  <1>4. bytes \in Seq(Byte) /\ Len(bytes) = Len(mem[n])
    <2> DEFINE s == mem[n]
    <2>1. s \in Seq(Byte) /\ Len(s) \in Nat /\ DOMAIN s = 1 .. Len(s)
      BY <1>1
    <2>2. /\ DOMAIN bytes = DOMAIN s /\ bytes = [i \in DOMAIN s |-> bytes[i]]
          /\ \A i \in DOMAIN s : bytes[i] = IF i = k THEN new ELSE s[i]
      OBVIOUS
    <2> HIDE DEF s, bytes, k
    <2>3. \A i \in 1 .. Len(s) : bytes[i] \in Byte
      <3>1. \A i \in 1 .. Len(s) : s[i] \in Byte
        BY <2>1
      <3>2. k \in 1 .. Len(s) => new \in Byte
        BY <1>3 DEF s
      <3> QED
        BY <2>1, <2>2, <3>1, <3>2
    <2>4. bytes \in [1 .. Len(s) -> Byte]
      BY <2>1, <2>2, <2>3
    <2>5. bytes \in Seq(Byte) /\ Len(bytes) = Len(s)
      BY <2>1, <2>4, MadeSeq
    <2> QED
      BY <2>5 DEF s
  <1>5. \A i \in DOMAIN mem[n] : i # k => bytes[i] = mem[n][i]
    OBVIOUS
  <1> HIDE DEF bytes
  <1>6. /\ DOMAIN SetBit(to, one) = Tag /\ SetBit(to, one)[n] = bytes
        /\ \A m \in Tag \ {n} : SetBit(to, one)[m] = mem[m]
    BY <1>1, <1>2
  <1>7. Buffers(SetBit(to, one))
    BY <1>1, <1>4, <1>6 DEF Buffers
  <1> QED
    BY <1>5, <1>6, <1>7

\* A write that is not refused carries at least what it is to set.
LEMMA WrittenBytes ==
  ASSUME NEW to, NEW req, TagRequestOK(req), to.at.size \in Nat, to.at.bit = NoBit,
         ~WriteRefused(to, req)
  PROVE  LET len == req.count * to.at.size
         IN  /\ WriteTag(to, req) = SetData(to.tag, to.at.off, SubSeq(req.bytes, 1, len))
             /\ SubSeq(req.bytes, 1, len) \in Seq(Byte) /\ Len(SubSeq(req.bytes, 1, len)) = len
             /\ len = Len(req.bytes) => SubSeq(req.bytes, 1, len) = req.bytes
  <1> DEFINE len == req.count * to.at.size
             bytes == req.bytes
  <1>1. len \in Nat /\ bytes \in Seq(Byte)
    BY Product DEF TagRequestOK
  <1>2. ~(Len(bytes) < len) /\ WriteTag(to, req) = SetData(to.tag, to.at.off, SubSeq(bytes, 1, len))
    BY DEF WriteRefused, WriteTag
  <1> HIDE DEF len, bytes
  <1>3. Len(bytes) >= len
    BY <1>1, <1>2
  <1>4. SubSeq(bytes, 1, len) \in Seq(Byte) /\ Len(SubSeq(bytes, 1, len)) = len
    BY <1>1, <1>3
  <1>5. len = Len(bytes) => SubSeq(bytes, 1, len) = bytes
    BY <1>1
  <1> QED
    BY <1>2, <1>4, <1>5 DEF len, bytes

\* Read_Modify_Write sets no more than there are masks, or bytes in the tag.
LEMMA ModifiedBytes ==
  ASSUME Buffers(mem), NEW n \in Tag, DataSize(n) \in Nat, NEW orMask \in Seq(Byte), NEW andMask
  PROVE  \E bytes \in Seq(Byte) :
             /\ Modified(n, orMask, andMask) = SetData(n, 0, bytes)
             /\ Len(bytes) <= DataSize(n) /\ Len(bytes) <= Len(orMask)
  <1> DEFINE len == Lesser(Len(orMask), DataSize(n))
             bytes == [i \in 1 .. len |-> (mem[n][i] \cup orMask[i]) \cap andMask[i]]
  <1>1. /\ len \in Nat /\ len <= Len(orMask) /\ len <= DataSize(n)
    BY DEF Lesser
  <1>2. mem[n] \in Seq(Byte) /\ Len(mem[n]) = DataSize(n)
    BY DEF Buffers
  <1>3. Modified(n, orMask, andMask) = SetData(n, 0, bytes)
    BY DEF Modified
  <1> HIDE DEF len
  <1>4. ASSUME NEW i \in 1 .. len
        PROVE  (mem[n][i] \cup orMask[i]) \cap andMask[i] \in Byte
    <2>1. i \in 1 .. Len(mem[n]) /\ i \in 1 .. Len(orMask)
      BY <1>1, <1>2
    <2>2. mem[n][i] \in Byte /\ orMask[i] \in Byte
      BY <1>2, <2>1
    <2> QED
      BY <2>2 DEF Byte
  <1>5. bytes \in [1 .. len -> Byte]
    BY <1>4
  <1> HIDE DEF bytes
  <1>6. bytes \in Seq(Byte) /\ Len(bytes) = len
    BY <1>1, <1>5, MadeSeq
  <1> QED
    BY <1>1, <1>3, <1>6

\* A service sets one bit, or bytes in one place, or nothing.
LEMMA MemAfterIs ==
  ASSUME PlacesFound, InstInv, Buffers(mem), NEW req, TagRequestOK(req)
  PROVE  LET to == Landing(req.path)
         IN  \/ MemAfter(req) = mem
             \/ /\ ~IsRefused(to, req) /\ req.svc = "write" /\ to.at.bit # NoBit
                /\ \E one \in BOOLEAN : MemAfter(req) = SetBit(to, one)
             \/ /\ ~IsRefused(to, req) /\ req.svc = "write" /\ to.at.bit = NoBit
                /\ MemAfter(req) = SetData(to.tag, to.at.off, SubSeq(req.bytes, 1, req.count * to.at.size))
             \/ /\ ~IsRefused(to, req) /\ req.svc = "write_fragment"
                /\ MemAfter(req) = SetData(to.tag, to.at.off + req.off, req.bytes)
             \/ /\ ~IsRefused(to, req) /\ req.svc = "modify"
                /\ \E bytes \in Seq(Byte) :
                       MemAfter(req) = SetData(to.tag, 0, bytes) /\ Len(bytes) <= Len(req.bytes)
  <1> DEFINE to == Landing(req.path)
  <1> SUFFICES ASSUME ~IsRefused(to, req)
               PROVE  \/ MemAfter(req) = mem
                      \/ /\ req.svc = "write" /\ to.at.bit # NoBit
                         /\ \E one \in BOOLEAN : MemAfter(req) = SetBit(to, one)
                      \/ /\ req.svc = "write" /\ to.at.bit = NoBit
                         /\ MemAfter(req) =
                                SetData(to.tag, to.at.off, SubSeq(req.bytes, 1, req.count * to.at.size))
                      \/ /\ req.svc = "write_fragment"
                         /\ MemAfter(req) = SetData(to.tag, to.at.off + req.off, req.bytes)
                      \/ /\ req.svc = "modify"
                         /\ \E bytes \in Seq(Byte) :
                                MemAfter(req) = SetData(to.tag, 0, bytes) /\ Len(bytes) <= Len(req.bytes)
    BY DEF MemAfter
  <1>1. /\ to.tag \in Tag /\ to.at.off \in Nat /\ to.at.size \in Nat
        /\ DataSize(to.tag) \in Nat
    <2>1. to # Nowhere
      BY DEF IsRefused
    <2>2. to.tag \in Tag /\ to.at.off \in Nat /\ to.at.size \in Nat
      BY <2>1, LandingOK
    <2> QED
      BY <2>2 DEF PlacesFound
  <1>2. CASE req.svc = "write"
    <2>1. MemAfter(req) = WriteTag(to, req) /\ ~WriteRefused(to, req)
      BY <1>2 DEF MemAfter, IsRefused
    <2>2. CASE to.at.bit # NoBit
      <3>1. (to.at.bit \in req.bytes[1]) \in BOOLEAN
        OBVIOUS
      <3> QED
        BY <1>2, <2>1, <2>2, <3>1 DEF WriteTag
    <2>3. CASE to.at.bit = NoBit
      BY <1>2, <2>1, <2>3 DEF WriteTag
    <2> QED
      BY <2>2, <2>3
  <1>3. CASE req.svc = "write_fragment"
    BY <1>3 DEF MemAfter
  <1>4. CASE req.svc = "modify"
    <2>1. MemAfter(req) = Modified(to.tag, req.bytes, req.mask)
      BY <1>4 DEF MemAfter
    <2>2. req.bytes \in Seq(Byte)
      BY DEF TagRequestOK
    <2> HIDE DEF to
    <2> QED
      BY <1>1, <1>4, <2>1, <2>2, ModifiedBytes
  <1>5. CASE req.svc \notin {"write", "write_fragment", "modify"}
    BY <1>5 DEF MemAfter
  <1> QED
    BY <1>2, <1>3, <1>4, <1>5

LEMMA MemAfterOK ==
  ASSUME PlacesFound, InstInv, Buffers(mem), NEW req, TagRequestOK(req)
  PROVE  Buffers(MemAfter(req))
  <1> DEFINE to == Landing(req.path)
  <1>1. CASE IsRefused(to, req)
    BY <1>1 DEF MemAfter
  <1>2. CASE ~IsRefused(to, req)
    <2>1. to # Nowhere
      BY <1>2 DEF IsRefused
    <2>2. /\ to.tag \in Tag /\ to.at.off \in Nat /\ to.at.size \in Nat
          /\ to.at.bit \in Bit \cup {NoBit}
      BY <2>1, LandingOK
    <2>3. req.bytes \in Seq(Byte) /\ to.at.off + req.off \in Nat
      BY <2>2 DEF TagRequestOK
    <2>4. CASE \E one \in BOOLEAN : MemAfter(req) = SetBit(to, one) /\ to.at.bit # NoBit
      <3> HIDE DEF to
      <3> QED
        BY <2>2, <2>4, SetBitAt
    <2>5. ASSUME NEW off \in Nat, NEW bytes \in Seq(Byte), MemAfter(req) = SetData(to.tag, off, bytes)
          PROVE  Buffers(MemAfter(req))
      <3>1. Buffers(SetData(to.tag, off, bytes))
        <4> HIDE DEF to
        <4> QED
          BY <2>2, SetDataAt
      <3> QED
        BY <2>5, <3>1
    <2>6. CASE /\ req.svc = "write" /\ to.at.bit = NoBit
               /\ MemAfter(req) =
                      SetData(to.tag, to.at.off, SubSeq(req.bytes, 1, req.count * to.at.size))
      <3>1. ~WriteRefused(to, req)
        BY <1>2, <2>6 DEF IsRefused
      <3>2. SubSeq(req.bytes, 1, req.count * to.at.size) \in Seq(Byte)
        BY <2>2, <2>6, <3>1, WrittenBytes
      <3> QED
        BY <2>2, <2>5, <2>6, <3>2
    <2>7. CASE MemAfter(req) = mem
      BY <2>7
    <2>8. CASE MemAfter(req) = SetData(to.tag, to.at.off + req.off, req.bytes)
      BY <2>3, <2>5, <2>8
    <2>9. CASE \E bytes \in Seq(Byte) : MemAfter(req) = SetData(to.tag, 0, bytes)
      BY <2>5, <2>9
    <2> QED
      BY <2>4, <2>6, <2>7, <2>8, <2>9, MemAfterIs
  <1> QED
    BY <1>1, <1>2

\* A path that names a place leads there, by name and by the id of an instance.
LEMMA NamedLands ==
  ASSUME PlacesFound, InstInv, NEW req, TagRequestOK(req), NamesPlace(req.path),
         Landing(req.path) # Nowhere
  PROVE  LET to == Landing(req.path)
             e == Extent[AddressOf(req)]
         IN  /\ to.tag = req.path.root /\ to.tag \in Tag
             /\ to.at.off = e.off /\ e.off \in Nat
             /\ to.at.size = e.size /\ e.size \in Nat \ {0}
             /\ to.at.bit \in Bit \cup {NoBit}
  <1> DEFINE to == Landing(req.path)
             a == AddressOf(req)
             e == Extent[a]
  <1>1. a \in Address /\ a = [root |-> req.path.root, segs |-> req.path.segs]
    BY DEF TagRequestOK, AddressOf
  <1>2. req.path.root \in Tag
    BY AddressFields DEF TagRequestOK
  <1>3. /\ to.tag = req.path.root /\ to.at.off = e.off /\ to.at.size = e.size /\ e.size > 0
        /\ to.at.bit \in Bit \cup {NoBit}
    <2>1. CASE req.path.id = 0
      <3>1. to = ByName(req.path.root, req.path.segs)
        BY <2>1 DEF Landing
      <3>2. to = [tag |-> req.path.root, at |-> PlaceOf(a)] /\ PlaceOf(a) # NoPlace
        BY <1>2, <3>1, NameLands DEF AddressOf
      <3> HIDE DEF to, a
      <3>3. to.tag = req.path.root /\ to.at = PlaceOf(a)
        BY <3>2
      <3> QED
        BY <1>1, <3>2, <3>3 DEF PlacesFound
    <2>2. CASE req.path.id # 0
      <3> DEFINE id == req.path.id
                 segs == req.path.segs
      <3>1. inst[id] = req.path.root /\ Direct(a)
        BY <2>2 DEF NamesPlace, NamedBy, AddressOf
      <3>2. to = ByInstance(id, segs)
        BY <2>2 DEF Landing
      <3>3. /\ to.tag = inst[id] /\ to.at.bit = NoBit
            /\ to.at.off = LastIndex(segs) * Shape[inst[id]].size
            /\ to.at.size = Shape[inst[id]].size
        BY <3>2, InstanceLands
      <3>4. a.root = req.path.root /\ a.segs = segs
        BY DEF AddressOf
      <3>5. e = [off |-> LastIndex(a.segs) * Shape[a.root].size,
                 size |-> Shape[a.root].size, type |-> Shape[a.root].type]
        BY <3>1 DEF Direct
      <3>6. Shape[req.path.root].size \in Nat \ {0}
        BY <1>2, ShapeAssumption
      <3> HIDE DEF to, a, e, id, segs
      <3> QED
        BY <3>1, <3>3, <3>4, <3>5, <3>6
    <2> QED
      BY <2>1, <2>2
  <1>4. e.off \in Nat /\ e.size \in Nat
    BY <1>2, <1>3, AddressFields DEF TagRequestOK
  <1> QED
    BY <1>2, <1>3, <1>4

\* set_data changes nothing but the bytes it is given room for.
LEMMA SetChanges ==
  ASSUME Buffers(mem), NEW tag \in Tag, NEW off \in Nat, NEW bytes \in Seq(Byte),
         NEW n \in Tag, NEW i \in DOMAIN mem[n], SetData(tag, off, bytes)[n][i] # mem[n][i]
  PROVE  n = tag /\ off < i /\ i <= off + Len(bytes)
  <1> DEFINE after == SetData(tag, off, bytes)
  <1>1. /\ \A m \in Tag \ {tag} : after[m] = mem[m]
        /\ after[tag] = Overlaid(mem[tag], off, bytes)
    BY SetDataAt
  <1>2. after[n][i] # mem[n][i]
    OBVIOUS
  <1> HIDE DEF after
  <1>3. n = tag
    BY <1>1, <1>2
  <1>4. after[n][i] = IF off < i /\ i <= off + Len(bytes) THEN bytes[i - off] ELSE mem[n][i]
    BY <1>1, <1>3 DEF Overlaid
  <1> QED
    BY <1>2, <1>3, <1>4

\* What a service changes lies in the room of its request.
LEMMA ChangesWithin ==
  ASSUME PlacesFound, InstInv, Buffers(mem), NEW req, TagRequestOK(req), NamesPlace(req.path),
         NEW n \in Tag, NEW i \in DOMAIN mem[n], MemAfter(req)[n][i] # mem[n][i]
  PROVE  n = req.path.root /\ Room(req).off < i /\ i <= Room(req).off + Room(req).len
  <1> DEFINE to == Landing(req.path)
             e == Extent[AddressOf(req)]
             len == req.count * e.size
  <1>1. ~IsRefused(to, req)
    BY DEF MemAfter
  <1>2. to # Nowhere
    BY <1>1 DEF IsRefused
  <1>3. /\ to.tag = req.path.root /\ to.tag \in Tag
        /\ to.at.off = e.off /\ e.off \in Nat
        /\ to.at.size = e.size /\ e.size \in Nat \ {0}
        /\ to.at.bit \in Bit \cup {NoBit}
    BY <1>2, NamedLands
  <1>4. req.count \in Nat /\ req.off \in Nat /\ req.bytes \in Seq(Byte)
    BY DEF TagRequestOK
  <1>5. len \in Nat
    BY <1>3, <1>4, Product
  <1>6. i \in Nat
    <2>1. mem[n] \in Seq(Byte)
      BY DEF Buffers
    <2> QED
      BY <2>1
  <1>7. Room(req) = IF req.svc = "modify" THEN [off |-> 0, len |-> Len(req.bytes)]
                    ELSE [off |-> e.off, len |-> len]
    BY DEF Room, AddressOf, NamedBy
  <1>8. ASSUME NEW off \in Nat, NEW bytes \in Seq(Byte), MemAfter(req) = SetData(to.tag, off, bytes)
        PROVE  n = to.tag /\ off < i /\ i <= off + Len(bytes)
    <2>1. SetData(to.tag, off, bytes)[n][i] # mem[n][i]
      BY <1>8
    <2> HIDE DEF to
    <2> QED
      BY <1>3, <2>1, SetChanges
  <1>9. CASE /\ req.svc = "write" /\ to.at.bit # NoBit
             /\ \E one \in BOOLEAN : MemAfter(req) = SetBit(to, one)
    <2>1. req.count = 1
      BY <1>1, <1>9 DEF IsRefused, WriteRefused
    <2>2. n = to.tag /\ i = to.at.off + 1
      <3> HIDE DEF to, e, len
      <3>1. to.tag \in Tag /\ to.at.off \in Nat /\ to.at.bit \in Bit
        BY <1>3, <1>9
      <3>2. PICK one \in BOOLEAN : MemAfter(req) = SetBit(to, one)
        BY <1>9
      <3> DEFINE after == SetBit(to, one)
      <3>3. /\ \A m \in Tag \ {to.tag} : after[m] = mem[m]
            /\ \A j \in DOMAIN mem[to.tag] : j # to.at.off + 1 => after[to.tag][j] = mem[to.tag][j]
        BY <3>1, SetBitAt
      <3>4. after[n][i] # mem[n][i]
        BY <3>2
      <3> HIDE DEF after
      <3> QED
        BY <3>3, <3>4
    <2>3. len = e.size
      BY <1>3, <2>1
    <2> HIDE DEF to, e, len
    <2>4. n = req.path.root /\ e.off < i /\ i <= e.off + len
      BY <1>3, <2>2, <2>3
    <2> QED
      BY <1>7, <1>9, <2>4
  <1>10. CASE /\ req.svc = "write" /\ to.at.bit = NoBit
              /\ MemAfter(req) = SetData(to.tag, to.at.off, SubSeq(req.bytes, 1, req.count * to.at.size))
    <2> DEFINE bytes == SubSeq(req.bytes, 1, req.count * to.at.size)
    <2>1. ~WriteRefused(to, req)
      BY <1>1, <1>10 DEF IsRefused
    <2>2. bytes \in Seq(Byte) /\ Len(bytes) = req.count * to.at.size
      <3> HIDE DEF to, e
      <3> QED
        BY <1>3, <1>10, <2>1, WrittenBytes
    <2>3. Len(bytes) = len
      BY <1>3, <2>2
    <2> HIDE DEF bytes, len, to, e
    <2>4. n = to.tag /\ to.at.off < i /\ i <= to.at.off + Len(bytes)
      BY <1>3, <1>8, <1>10, <2>2 DEF bytes
    <2>5. n = req.path.root /\ e.off < i /\ i <= e.off + len
      BY <1>3, <2>3, <2>4
    <2> QED
      BY <1>7, <1>10, <2>5
  <1>11. CASE /\ req.svc = "write_fragment"
              /\ MemAfter(req) = SetData(to.tag, to.at.off + req.off, req.bytes)
    <2>1. ~FragmentRefused(to, req)
      BY <1>1, <1>11 DEF IsRefused
    <2>2. ~(req.off + Len(req.bytes) > req.count * to.at.size)
      BY <2>1 DEF FragmentRefused
    <2>3. ~(req.off + Len(req.bytes) > len)
      BY <1>3, <2>2
    <2> HIDE DEF len, to, e
    <2>4. to.at.off + req.off \in Nat /\ Len(req.bytes) \in Nat
      BY <1>3, <1>4
    <2>5. n = to.tag /\ to.at.off + req.off < i /\ i <= to.at.off + req.off + Len(req.bytes)
      BY <1>4, <1>8, <1>11, <2>4
    <2>6. n = req.path.root /\ e.off < i /\ i <= e.off + len
      BY <1>3, <1>4, <1>5, <1>6, <2>3, <2>4, <2>5
    <2> QED
      BY <1>7, <1>11, <2>6
  <1>12. CASE /\ req.svc = "modify"
              /\ \E bytes \in Seq(Byte) :
                     MemAfter(req) = SetData(to.tag, 0, bytes) /\ Len(bytes) <= Len(req.bytes)
    <2>1. PICK bytes \in Seq(Byte) :
              MemAfter(req) = SetData(to.tag, 0, bytes) /\ Len(bytes) <= Len(req.bytes)
      BY <1>12
    <2>2. n = to.tag /\ 0 < i /\ i <= 0 + Len(bytes)
      BY <1>8, <2>1
    <2> HIDE DEF to, e, len
    <2>3. Len(bytes) \in Nat /\ Len(req.bytes) \in Nat
      BY <1>4
    <2>4. n = req.path.root /\ 0 < i /\ i <= 0 + Len(req.bytes)
      BY <1>3, <1>6, <2>1, <2>2, <2>3
    <2> QED
      BY <1>7, <1>12, <2>4
  <1>13. MemAfter(req) # mem
    OBVIOUS
  <1> QED
    BY <1>9, <1>10, <1>11, <1>12, <1>13, MemAfterIs

(***************************************************************************)
(* The requests the calls make.                                            *)
(***************************************************************************)
LEMMA RequestMade ==
  ASSUME AtomsInv, NEW svc, NEW a \in Address, NEW count \in Nat, NEW off \in Nat,
         NEW bytes \in Seq(Byte)
  PROVE  LET req == TagRequest(svc, a, count, off, bytes)
         IN  /\ TagRequestOK(req) /\ AddressOf(req) = a
             /\ req.svc = svc /\ req.count = count /\ req.off = off /\ req.bytes = bytes
             /\ req.path.root = a.root /\ req.path.segs = a.segs /\ req.path.id = atoms[a.root]
  <1> DEFINE req == TagRequest(svc, a, count, off, bytes)
  <1>1. /\ req.svc = svc /\ req.count = count /\ req.off = off /\ req.bytes = bytes
        /\ req.path.root = a.root /\ req.path.segs = a.segs /\ req.path.id = atoms[a.root]
    BY DEF TagRequest, PathOf
  <1> HIDE DEF req
  <1>2. a = [root |-> a.root, segs |-> a.segs] /\ a.root \in Tag
    BY AddressAssumption
  <1>3. AddressOf(req) = a
    BY <1>1, <1>2 DEF AddressOf
  <1>4. atoms[a.root] \in Nat
    BY <1>2 DEF AtomsInv
  <1>5. TagRequestOK(req)
    BY <1>1, <1>3, <1>4 DEF TagRequestOK
  <1> QED
    BY <1>1, <1>3, <1>5 DEF req

LEMMA TagRequestIs ==
  ASSUME NEW req, req.svc \in TagService
  PROVE  RequestOK(req) <=> TagRequestOK(req)
  BY DEF RequestOK, TagService

LEMMA OtherRequest ==
  ASSUME NEW req, req.svc \notin TagService, req.svc # "multiple"
  PROVE  RequestOK(req)
  BY DEF RequestOK

LEMMA FirstRequest ==
  ASSUME AtomsInv, NEW t \in Task, NEW c \in Calls[t]
  PROVE  CallData([First(c) EXCEPT !.op = c.op])
  <1> DEFINE st == [First(c) EXCEPT !.op = c.op]
  <1>0. c.op \in {"read", "write", "multiple", "struct", "template", "browse"}
    BY CallAssumption
  <1>1. <<>> \in Seq(Byte)
    OBVIOUS
  <1>2. CASE c.op \in {"read", "write"}
    <2> DEFINE bytes == IF c.op = "write" THEN c.bytes ELSE <<>>
               req == TagRequest(c.op, c.addr, c.count, 0, bytes)
    <2>1. c.addr \in Address /\ c.count \in Nat /\ bytes \in Seq(Byte)
      BY <1>1, <1>2, RequestAssumption
    <2>2. First(c) = [Free EXCEPT !.req = req]
      BY <1>2 DEF First
    <2> HIDE DEF bytes
    <2>3. TagRequestOK(req) /\ req.svc = c.op
      BY <2>1, RequestMade
    <2> HIDE DEF req
    <2>4. RequestOK(req)
      BY <1>2, <2>3, TagRequestIs DEF TagService
    <2>5. st.req = req /\ st.pos = 0 /\ st.op = c.op
      BY <2>2 DEF Free
    <2> QED
      BY <1>2, <2>4, <2>5 DEF CallData
  <1>3. CASE c.op = "multiple"
    <2> DEFINE made(i) == TagRequest(c.subs[i].svc, c.subs[i].addr, 1, 0, c.subs[i].bytes)
               subs == [i \in DOMAIN c.subs |-> made(i)]
               req == [svc |-> "multiple", subs |-> subs]
    <2>1. /\ c.subs # <<>>
          /\ c.subs \in Seq([svc : {"read", "write"}, addr : Address, bytes : Seq(Byte)])
      BY <1>3, RequestAssumption
    <2>2. Len(c.subs) \in Nat \ {0} /\ DOMAIN c.subs = 1 .. Len(c.subs)
      BY <2>1
    <2>3. ASSUME NEW i \in 1 .. Len(c.subs)
          PROVE  made(i).svc \in {"read", "write"} /\ TagRequestOK(made(i))
      <3>1. c.subs[i] \in [svc : {"read", "write"}, addr : Address, bytes : Seq(Byte)]
        BY <2>1, ElementIn
      <3>2. /\ c.subs[i].svc \in {"read", "write"} /\ c.subs[i].addr \in Address
            /\ c.subs[i].bytes \in Seq(Byte)
        BY <3>1
      <3> QED
        BY <3>2, RequestMade
    <2>4. First(c) = [Free EXCEPT !.req = req]
      BY <1>3 DEF First
    <2> HIDE DEF made
    <2>5. Len(subs) = Len(c.subs) /\ DOMAIN subs = 1 .. Len(c.subs)
      BY <2>2
    <2>6. RequestOK(req)
      <3>1. req.svc = "multiple" /\ req.subs = subs
        OBVIOUS
      <3>2. \A i \in 1 .. Len(subs) : subs[i].svc \in {"read", "write"} /\ TagRequestOK(subs[i])
        BY <2>2, <2>3, <2>5
      <3> HIDE DEF subs, req
      <3> QED
        BY <2>2, <2>5, <3>1, <3>2 DEF RequestOK, TagService
    <2> HIDE DEF req
    <2>7. st.req = req /\ st.pos = 0 /\ st.op = c.op
      BY <2>4 DEF Free
    <2> QED
      BY <1>3, <2>6, <2>7 DEF CallData
  <1>4. CASE c.op = "struct"
    <2> DEFINE none == <<>>
               req == TagRequest("read_fragment", c.addr, 1, 0, none)
    <2>1. c.addr \in Address /\ none \in Seq(Byte)
      BY <1>1, <1>4, RequestAssumption
    <2>2. TagRequestOK(req) /\ req.svc = "read_fragment"
      <3> HIDE DEF none
      <3> QED
        BY <2>1, RequestMade
    <2>3. RequestOK(req) /\ IsFragment(req)
      <3>1. DOMAIN req = {"svc", "path", "count", "off", "type", "bytes"}
        BY DEF TagRequest
      <3> QED
        BY <2>2, <3>1, TagRequestIs DEF TagService, IsFragment
    <2>4. First(c) = [Free EXCEPT !.req = req, !.addr = c.addr]
      BY <1>4 DEF First, FragmentRequest
    <2> HIDE DEF req
    <2>5. st.req = req /\ st.pos = 0 /\ st.op = c.op /\ st.stage = "none"
      BY <2>4 DEF Free
    <2> QED
      BY <2>2, <2>3, <2>5 DEF CallData
  <1>5. CASE c.op \in {"template", "browse"}
    <2>1. st.req.svc \in {"attributes", "browse"} /\ st.pos = 0 /\ st.op = c.op
      BY <1>5 DEF First, Free, AttributesRequest, BrowseRequest
    <2>2. RequestOK(st.req)
      BY <2>1, OtherRequest DEF TagService
    <2> HIDE DEF st
    <2>3. CallData(st)
      BY <1>5, <2>1, <2>2 DEF CallData
    <2> QED
      BY <2>3 DEF st
  <1> QED
    BY <1>0, <1>2, <1>3, <1>4, <1>5

\* What is left of the call of a task that is done with it.
LEMMA FreeData == CallData(Free)
  <1>1. Free.pos = 0 /\ Free.req = NoReq /\ Free.op = "none" /\ NoReq.svc = "none"
    BY DEF Free, NoReq
  <1>2. RequestOK(NoReq)
    BY <1>1, OtherRequest DEF TagService
  <1> QED
    BY <1>1, <1>2 DEF CallData

LEMMA StageRequest ==
  ASSUME NEW st, CallOK(ids, pids, program, inst, st), st.stage # "none"
  PROVE  RequestOK(st.req) /\ st.req.svc \notin TagService /\ st.req.svc # "multiple"
  <1>1. CASE st.req = NoReq
    BY <1>1, OtherRequest DEF NoReq, TagService
  <1>2. CASE st.req # NoReq
    <2>1. st.stage \in {"controller", "program", "attributes", "definition"}
      BY <1>2 DEF CallOK
    <2>2. st.req.svc \in {"browse", "attributes", "definition"}
      BY <1>2, <2>1, ServiceOf
    <2> QED
      BY <2>2, OtherRequest DEF TagService
  <1> QED
    BY <1>1, <1>2

\* What AfterPage leaves alone.
LEMMA PageLeaves ==
  ASSUME NEW st, DOMAIN st = Fields, st.stage \in {"controller", "program"}, NEW r
  PROVE  LET next == AfterPage(st, r)
         IN  next.pos = st.pos /\ next.op = st.op /\ next.stage # "none"
  <1> DEFINE first == [st EXCEPT !.got = @ \o r.parts[1].data, !.cut = @ \/ r.status = "error"]
  <1>1. DOMAIN first = Fields /\ first.pos = st.pos /\ first.op = st.op /\ first.stage = st.stage
    BY DEF Fields
  <1>2. AfterPage(st, r) = IF r.status = "more"
                           THEN [first EXCEPT !.req.start = NextStart(r.parts[1].data)]
                           ELSE IF st.stage = "controller" THEN BrowseProgram(first)
                           ELSE BrowseTemplates(first)
    BY DEF AfterPage
  <1> HIDE DEF first
  <1>3. /\ BrowseTemplates(first).pos = first.pos /\ BrowseTemplates(first).op = first.op
        /\ BrowseTemplates(first).stage # "none"
    BY <1>1 DEF BrowseTemplates, Fields
  <1>4. /\ BrowseProgram(first).pos = first.pos /\ BrowseProgram(first).op = first.op
        /\ BrowseProgram(first).stage # "none"
    BY <1>1, <1>3 DEF BrowseProgram, Fields
  <1>5. LET next == [first EXCEPT !.req.start = NextStart(r.parts[1].data)]
        IN  next.pos = first.pos /\ next.op = first.op /\ next.stage = first.stage
    BY <1>1 DEF Fields
  <1>6. CASE r.status = "more"
    BY <1>1, <1>2, <1>5, <1>6
  <1>7. CASE r.status # "more"
    BY <1>1, <1>2, <1>3, <1>4, <1>7
  <1> QED
    BY <1>6, <1>7

\* The bytes of a fragment, and what read_struct takes off them.
LEMMA BodyOf ==
  ASSUME NEW st, NEW answer \in Answers
  PROVE  LET raw == answer.head \o answer.data
         IN  Body(st, raw) \in Seq(Header \cup Byte) /\ Len(Body(st, raw)) \in Nat
  <1> DEFINE S == Header \cup Byte
             raw == answer.head \o answer.data
  <1>1. answer.head \in Seq(Header) /\ answer.data \in Seq(Byte)
    BY DEF Answers
  <1>2. answer.head \in Seq(S) /\ answer.data \in Seq(S)
    BY <1>1
  <1> HIDE DEF S
  <1>3. raw \in Seq(S)
    BY <1>2
  <1> HIDE DEF raw
  <1>4. ASSUME NEW n \in Nat, Len(raw) >= n
        PROVE  Drops(raw, n) \in Seq(S)
    BY <1>3, <1>4 DEF Drops
  <1>5. Body(st, raw) \in Seq(S)
    BY <1>3, <1>4 DEF Body
  <1>6. Len(Body(st, raw)) \in Nat
    BY <1>5
  <1> QED
    BY <1>5, <1>6 DEF S, raw

LEMMA FragmentNext ==
  ASSUME NEW st, DOMAIN st = Fields, NEW r, NEW answer, r.parts[1] = answer,
         NEW body, body = Body(st, answer.head \o answer.data),
         NEW next, next = AfterFragment(st, r)
  PROVE  /\ r.status = "error" => next = Free
         /\ r.status = "ok" => /\ next.req = NoReq /\ next.got = st.got \o body
                               /\ next.addr = st.addr /\ next.op = st.op
         /\ r.status = "more" => next.req = [st.req EXCEPT !.off = st.pos + Len(body)]
  <1>1. r.status = "error" => next = Free
    BY DEF AfterFragment
  <1>2. r.status = "ok" => /\ next.req = NoReq /\ next.got = st.got \o body
                           /\ next.addr = st.addr /\ next.op = st.op
    BY DEF AfterFragment, Fields
  <1>3. r.status = "more" => next.req = [st.req EXCEPT !.off = st.pos + Len(body)]
    BY DEF AfterFragment, Fields
  <1> QED
    BY <1>1, <1>2, <1>3

\* What a fragment makes of read_struct.
LEMMA FragmentLeaves ==
  ASSUME NEW st, DOMAIN st = Fields, st.pos \in Nat, st.op = "struct", st.stage = "none",
         TagRequestOK(st.req), IsFragment(st.req),
         NEW answer \in Answers, NEW r, r.parts = <<answer>>, r.status \in {"ok", "more", "error"}
  PROVE  CallData(AfterFragment(st, r))
  <1> DEFINE next == AfterFragment(st, r)
             body == Body(st, answer.head \o answer.data)
             pos == st.pos + Len(body)
  <1>1. pos \in Nat
    BY BodyOf
  <1>2. r.parts[1] = answer
    OBVIOUS
  <1> HIDE DEF pos
  <1>3. CASE r.status = "error"
    BY <1>3, FreeData, FreeFields DEF AfterFragment
  <1>4. CASE r.status = "ok"
    <2>1. next.pos = pos /\ next.req = NoReq /\ next.op = "struct" /\ next.stage = "none"
      BY <1>2, <1>4 DEF AfterFragment, Fields, pos
    <2>2. RequestOK(NoReq)
      BY OtherRequest DEF NoReq, TagService
    <2> HIDE DEF next
    <2>3. CallData(next)
      BY <1>1, <2>1, <2>2 DEF CallData
    <2> QED
      BY <2>1, <2>3 DEF next
  <1>5. CASE r.status = "more"
    <2>1. next.pos = pos /\ next.req = [st.req EXCEPT !.off = pos] /\ next.op = "struct" /\ next.stage = "none"
      BY <1>2, <1>5 DEF AfterFragment, Fields, pos
    <2> DEFINE req == [st.req EXCEPT !.off = pos]
    <2>2. /\ req.svc = "read_fragment" /\ req.path = st.req.path /\ req.count = st.req.count
          /\ req.off = pos /\ req.bytes = st.req.bytes /\ IsFragment(req)
      BY DEF IsFragment
    <2> HIDE DEF next, req
    <2>3. TagRequestOK(req)
      BY <1>1, <2>2 DEF TagRequestOK, AddressOf
    <2>4. RequestOK(req)
      BY <2>2, <2>3, TagRequestIs DEF TagService
    <2>5. CallData(next)
      BY <1>1, <2>1, <2>2, <2>4 DEF CallData, req
    <2> QED
      BY <2>1, <2>2, <2>5 DEF next, req
  <1> QED
    BY <1>3, <1>4, <1>5

\* What a reply leaves of the call that browses or reads a template.
LEMMA StageKept ==
  ASSUME NEW st, CallOK(ids, pids, program, inst, st), st.req # NoReq, st.pos \in Nat,
         st.stage # "none", NEW r, Fits(ids, pids, inst, st, r)
  PROVE  LET next == Continued(st, r)
         IN  next.pos \in Nat /\ next.op = st.op /\ next.stage # "none"
  <1> DEFINE next == Continued(st, r)
  <1>0. /\ st.stage \in {"controller", "program", "attributes", "definition"}
        /\ DOMAIN st = Fields
    BY DEF CallOK
  <1>1. CASE st.stage \in {"controller", "program"}
    BY <1>0, <1>1, PageLeaves DEF Continued
  <1>2. CASE st.stage = "attributes"
    BY <1>0, <1>2 DEF Continued, AfterAttributes, Fields
  <1>3. CASE st.stage = "definition"
    <2> DEFINE pos == st.pos + Len(r.parts[1].data)
    <2>1. next.pos = pos /\ next.op = st.op /\ next.stage = st.stage
      BY <1>0, <1>3 DEF Continued, AfterDefinition, Fields
    <2>2. PieceFits(st, r) /\ st.pos \in 0 .. Len(Definition) - 1
      BY <1>3 DEF Fits, CallOK, AtDefinition
    <2>3. PICK q \in st.pos + 1 .. Len(Definition) :
              r.parts[1].data = SubSeq(Definition, st.pos + 1, q)
      BY <2>2 DEF PieceFits
    <2>4. Len(r.parts[1].data) \in Nat
      <3>1. Definition \in Seq(Range(Definition)) /\ st.pos \in 0 .. Len(Definition)
        BY <2>2, DefinitionAssumption
      <3>2. Len(SubSeq(Definition, st.pos + 1, q)) = q - st.pos
        BY <2>3, <3>1, PiecesJoin
      <3> QED
        BY <2>3, <3>2
    <2> QED
      BY <1>3, <2>1, <2>4
  <1> QED
    BY <1>0, <1>1, <1>2, <1>3

LEMMA ContinuedData ==
  ASSUME IdsInv, NEW st, CallOK(ids, pids, program, inst, st), st.req # NoReq, CallData(st),
         NEW r, Fits(ids, pids, inst, st, r), ReplyOK(st.req, r)
  PROVE  CallData(Continued(st, r))
  <1> DEFINE next == Continued(st, r)
  <1>1. /\ st.stage \in {"none", "controller", "program", "attributes", "definition"}
        /\ DOMAIN st = Fields /\ st.pos \in Nat
    BY DEF CallOK, CallData
  <1>2. CallOK(ids, pids, program, inst, next)
    BY ContinuedOK
  <1>3. CASE st.stage = "none" /\ st.op = "struct"
    <2>1. IsFragment(st.req) /\ TagRequestOK(st.req) /\ st.req.svc \in TagService
      BY <1>3, TagRequestIs DEF CallData, IsFragment, TagService
    <2>2. PICK answer \in Answers : r.parts = <<answer>>
      BY <2>1 DEF ReplyOK
    <2>3. r.status \in {"ok", "more", "error"}
      BY DEF Fits
    <2>4. CallData(AfterFragment(st, r))
      BY <1>1, <1>3, <2>1, <2>2, <2>3, FragmentLeaves
    <2> QED
      BY <1>3, <2>4 DEF Continued
  <1>4. CASE st.stage = "none" /\ st.op # "struct"
    BY <1>4, FreeData DEF Continued
  <1>5. CASE st.stage # "none"
    <2>1. st.op # "struct"
      BY <1>5 DEF CallData
    <2>2. next.pos \in Nat /\ next.op = st.op /\ next.stage # "none"
      BY <1>1, <1>5, StageKept
    <2>3. RequestOK(next.req)
      BY <1>2, <2>2, StageRequest
    <2> HIDE DEF next
    <2>4. CallData(next)
      BY <2>1, <2>2, <2>3 DEF CallData
    <2> QED
      BY <2>4 DEF next
  <1> QED
    BY <1>1, <1>3, <1>4, <1>5

(***************************************************************************)
(* The steps keep DataInv.                                                 *)
(***************************************************************************)
\* Tags are added behind those there are.
LEMMA NamesKept ==
  ASSUME IdsInv, IdsInv', AtomsInv, NamesInv, Grown(ids, ids'), Grown(pids, pids'),
         named' \subseteq Range(ids'), NoTwice(pids'),
         \A n \in PTag : atoms'[n] # 0 => atoms'[n] = atoms[n] \/ atoms'[n] \in 1 .. Len(pids)
  PROVE  NamesInv'
  <1>1. \A n \in PTag : atoms'[n] # 0 => atoms'[n] \in 1 .. Len(pids)
    BY DEF NamesInv
  <1>2. 1 .. Len(pids) \subseteq 1 .. Len(pids')
    BY DEF IdsInv, Grown
  <1> QED
    BY <1>1, <1>2 DEF NamesInv

\* What a browse of the program caches are ids of the program.
LEMMA CachedNames ==
  ASSUME IdsInv, NEW st, NEW r, Fits(ids, pids, inst, st, r), NEW n \in PTag, Cached(st, r)[n] # 0
  PROVE  Cached(st, r)[n] = atoms[n] \/ Cached(st, r)[n] \in 1 .. Len(pids)
  <1> DEFINE got == st.got \o r.parts[1].data
             seen == Range(got)
             found == CHOOSE e \in seen : e.name = n
  <1>1. n \in Tag /\ n \notin CTag /\ n # Program
    BY TagsApart
  <1>2. CASE st.stage \in {"controller", "program"} /\ r.status # "more"
    <2>1. PICK k \in 0 .. Len(ids), q \in {0, 1}, j \in 0 .. Len(pids) :
              Listing(ids, pids, got, k, q, j)
      <3>1. CASE st.stage = "controller"
        <4>1. ControllerFits(ids, pids, inst, st, r) /\ 0 \in 0 .. Len(pids)
          BY <3>1 DEF Fits, IdsInv
        <4> QED
          BY <4>1 DEF ControllerFits
      <3>2. CASE st.stage = "program"
        BY <3>2 DEF Fits, ProgramFits
      <3> QED
        BY <1>2, <3>1, <3>2
    <2>2. Cached(st, r)[n] = IF \E e \in seen : e.name = n THEN found.id ELSE atoms[n]
      BY <1>1, <1>2 DEF Cached
    <2>3. CASE \E e \in seen : e.name = n
      <3>1. found \in seen /\ found.name = n
        BY <2>3
      <3>2. got \in Seq(Entries)
        BY <2>1 DEF Listing
      <3> HIDE DEF got, found
      <3>3. PICK m \in 1 .. Len(got) : got[m] = found
        BY <3>1, <3>2, RangeOf
      <3>4. OneOfThree(ids, pids, got, k, q, j, m)
        BY <2>1, ListingAt DEF IdsInv
      <3>5. PICK i \in 1 .. j : got[m] = Entry(i, pids[i])
        BY <1>1, <3>1, <3>3, <3>4, EntryFields DEF OneOfThree
      <3>6. found.id = i /\ i \in 1 .. Len(pids)
        BY <2>1, <3>3, <3>5, EntryFields DEF IdsInv
      <3> QED
        BY <2>2, <2>3, <3>6
    <2>4. CASE ~\E e \in seen : e.name = n
      BY <2>2, <2>4
    <2> QED
      BY <2>3, <2>4
  <1>3. CASE ~(st.stage \in {"controller", "program"} /\ r.status # "more")
    BY <1>3 DEF Cached
  <1> QED
    BY <1>2, <1>3

LEMMA NotSent ==
  ASSUME LineInv, NEW t \in Task, ~Waits(t)
  PROVE  t \notin sent
  <1>1. t \in sent => queue \in Seq(Task) /\ NoTwice(queue) /\ queue # <<>> /\ t = Head(queue)
    BY DEF LineInv, Holds
  <1>2. t \notin Range(queue)
    BY DEF LineInv
  <1> QED
    BY <1>1, <1>2, LineMoves

LEMMA SameNames ==
  ASSUME NamesInv, UNCHANGED <<database, atoms>>
  PROVE  NamesInv'
  BY DEF NamesInv, database

\* A reply goes to the task that asked.
LEMMA ReplyMade ==
  ASSUME NEW t \in Task, sent = {t}, stream = <<>>,
         wire = [task |-> t, req |-> task[t].req, parts |-> wire.parts],
         NEW parts, NEW status, Replies(parts, status),
         ReplyOK(task[t].req, Reply(parts, status)),
         UNCHANGED <<sent, task>>
  PROVE  /\ ReplyInv'
         /\ stream' = <<Reply(parts, status)>> /\ Reply(parts, status).task = t
  <1> DEFINE r == Reply(parts, status)
  <1>1. stream' = <<r>> /\ wire' = NoRequest
    BY DEF Replies
  <1>2. r.task = t
    <2>1. wire.task = t
      <3> DEFINE made == [task |-> t, req |-> task[t].req, parts |-> wire.parts]
      <3>1. made.task = t /\ wire = made
        OBVIOUS
      <3> QED
        BY <3>1
    <2> QED
      BY <2>1 DEF Reply
  <1>3. ReplyOK(task[t].req, r)
    OBVIOUS
  <1> HIDE DEF r
  <1>4. stream'[1] = r
    BY <1>1
  <1>6. ReplyInv'
    <2>1. sent' = {t} /\ stream'[1].task = t
      BY <1>2, <1>4
    <2>2. ReplyOK(task[t].req, stream[1])'
      BY <1>3, <1>4 DEF ReplyOK
    <2> QED
      BY <1>1, <2>1, <2>2 DEF ReplyInv
  <1> QED
    BY <1>1, <1>2, <1>6 DEF r

\* What the server has before it when it serves a tag.
LEMMA Serving ==
  ASSUME Inv, DataInv, wire # NoRequest
  PROVE  \E t \in Task :
            /\ sent = {t} /\ stream = <<>> /\ task[t].req # NoReq
            /\ wire = [task |-> t, req |-> task[t].req, parts |-> wire.parts]
            /\ wire.task = t /\ wire.req = task[t].req
            /\ RequestOK(wire.req) /\ PartsOK(wire.req, wire.parts)
  <1>1. PICK t \in Task :
            /\ sent = {t} /\ stream = <<>> /\ task[t].req # NoReq
            /\ wire = [task |-> t, req |-> task[t].req, parts |-> wire.parts]
    BY Asking DEF Inv
  <1>2. wire.task = t /\ wire.req = task[t].req
    <2> DEFINE made == [task |-> t, req |-> task[t].req, parts |-> wire.parts]
    <2>1. made.task = t /\ made.req = task[t].req /\ wire = made
      BY <1>1
    <2> QED
      BY <2>1
  <1>3. RequestOK(wire.req) /\ PartsOK(wire.req, wire.parts)
    BY <1>2 DEF DataInv, CallsData, CallData, ReplyInv
  <1> QED
    BY <1>1, <1>2, <1>3

LEMMA TagData ==
  ASSUME PlacesFound, Inv, DataInv, ServeTag, Others
  PROVE  DataInv'
  <1> DEFINE req == wire.req
             answer == Answer(req)
             r == Reply(<<answer>>, answer.status)
  <1>1. /\ wire # NoRequest /\ req.svc \in TagService /\ Replies(<<answer>>, answer.status)
        /\ mem' = MemAfter(req) /\ UNCHANGED <<database, inst, atoms, queue, sent, task>>
    BY DEF ServeTag, HasRequest, Others
  <1>2. PICK t \in Task :
            /\ sent = {t} /\ stream = <<>> /\ task[t].req # NoReq
            /\ wire = [task |-> t, req |-> task[t].req, parts |-> wire.parts]
            /\ req = task[t].req /\ RequestOK(req)
    BY <1>1, Serving
  <1>3. TagRequestOK(req)
    BY <1>1, <1>2, TagRequestIs
  <1>4. answer \in Answers
    BY <1>3, AnswerOK DEF Inv, DataInv
  <1>5. Buffers(mem')
    BY <1>1, <1>3, MemAfterOK DEF Inv, DataInv
  <1>6. ReplyOK(req, r)
    <2>1. r.parts = <<answer>> /\ r.status = answer.status
      BY DEF Reply
    <2>2. req.svc # "multiple"
      BY <1>1 DEF TagService
    <2> HIDE DEF r, answer
    <2> QED
      BY <1>4, <2>1, <2>2 DEF ReplyOK
  <1> HIDE DEF answer, req
  <1>7. ReplyInv'
    BY <1>1, <1>2, <1>6, ReplyMade
  <1>8. NamesInv' /\ CallsData'
    BY <1>1, SameNames DEF DataInv, CallsData
  <1> QED
    BY <1>5, <1>7, <1>8 DEF DataInv

\* The service of a Multiple_Service_Packet that is next.
LEMMA NextPart ==
  ASSUME NEW req, RequestOK(req), req.svc = "multiple", NEW parts, PartsOK(req, parts)
  PROVE  LET k == Len(parts) + 1
         IN  /\ Len(parts) \in Nat /\ Len(req.subs) \in Nat /\ k \in 1 .. Len(req.subs)
             /\ req.subs[k].svc \in {"read", "write"} /\ TagRequestOK(req.subs[k])
             /\ parts \in Seq(Answers)
             /\ \A answer \in Answers :
                    Append(parts, answer) \in Seq(Answers) /\ Len(Append(parts, answer)) = k
  <1>1. parts \in Seq(Answers) /\ Len(parts) < Len(req.subs) /\ Len(req.subs) \in Nat
    BY DEF PartsOK, RequestOK
  <1>2. Len(parts) \in Nat /\ Len(parts) + 1 \in 1 .. Len(req.subs)
    BY <1>1
  <1>3. \A answer \in Answers :
            Append(parts, answer) \in Seq(Answers) /\ Len(Append(parts, answer)) = Len(parts) + 1
    BY <1>1
  <1> QED
    BY <1>1, <1>2, <1>3 DEF RequestOK

LEMMA PartData ==
  ASSUME PlacesFound, Inv, DataInv, ServePart, Others
  PROVE  DataInv'
  <1> DEFINE req == wire.req
             sub == req.subs[Len(wire.parts) + 1]
             answer == Answer(sub)
             parts == Append(wire.parts, answer)
             r == Reply(parts, "ok")
  <1>1. /\ wire # NoRequest /\ req.svc = "multiple" /\ ~(Len(req.subs) > MaxServices)
        /\ mem' = MemAfter(sub) /\ UNCHANGED <<database, inst, atoms, queue, sent, task>>
        /\ IF Len(parts) = Len(req.subs)
           THEN Replies(parts, "ok")
           ELSE wire' = [wire EXCEPT !.parts = parts] /\ UNCHANGED stream
    <2>1. /\ wire # NoRequest /\ req.svc = "multiple" /\ Len(req.subs) <= MaxServices
          /\ mem' = MemAfter(sub) /\ UNCHANGED <<database, inst, atoms, queue, sent, task>>
          /\ IF Len(parts) = Len(req.subs)
             THEN Replies(parts, "ok")
             ELSE wire' = [wire EXCEPT !.parts = parts] /\ UNCHANGED stream
      BY DEF ServePart, HasRequest, Others
    <2>2. PartsOK(req, wire.parts) /\ RequestOK(req)
      BY <2>1, Serving
    <2>3. Len(req.subs) \in Nat /\ MaxServices \in Nat
      BY <2>1, <2>2, PageAssumption DEF RequestOK
    <2>4. ~(Len(req.subs) > MaxServices)
      BY <2>1, <2>3
    <2> QED
      BY <2>1, <2>4
  <1>2. PICK t \in Task :
            /\ sent = {t} /\ stream = <<>> /\ task[t].req # NoReq
            /\ wire = [task |-> t, req |-> task[t].req, parts |-> wire.parts]
            /\ req = task[t].req /\ RequestOK(req) /\ PartsOK(req, wire.parts)
    BY <1>1, Serving
  <1>3. /\ TagRequestOK(sub)
        /\ \A a \in Answers : /\ Append(wire.parts, a) \in Seq(Answers)
                              /\ Len(Append(wire.parts, a)) = Len(wire.parts) + 1
        /\ Len(wire.parts) + 1 \in 1 .. Len(req.subs)
    BY <1>1, <1>2, NextPart
  <1>4. answer \in Answers
    BY <1>3, AnswerOK DEF Inv, DataInv
  <1>5. Buffers(mem')
    BY <1>1, <1>3, MemAfterOK DEF Inv, DataInv
  <1>6. parts \in Seq(Answers) /\ Len(parts) \in 1 .. Len(req.subs)
    BY <1>3, <1>4
  <1>7. NamesInv' /\ CallsData'
    BY <1>1, SameNames DEF DataInv, CallsData
  <1> HIDE DEF sub, answer, parts
  <1>8. CASE Len(parts) = Len(req.subs)
    <2>1. ReplyOK(req, r)
      <3>1. r.parts = parts
        BY DEF Reply
      <3>2. req.svc \notin TagService
        BY <1>1 DEF TagService
      <3> HIDE DEF r
      <3> QED
        BY <1>6, <1>8, <3>1, <3>2 DEF ReplyOK
    <2> HIDE DEF req
    <2>2. ReplyInv'
      BY <1>1, <1>2, <1>8, <2>1, ReplyMade
    <2> QED
      BY <1>5, <1>7, <2>2 DEF DataInv
  <1>9. CASE Len(parts) # Len(req.subs)
    <2>1. wire' = [wire EXCEPT !.parts = parts] /\ stream' = stream
      BY <1>1, <1>9
    <2>2. wire'.req = req /\ wire'.parts = parts
      <3> DEFINE made == [task |-> t, req |-> task[t].req, parts |-> wire.parts]
      <3>1. [made EXCEPT !.parts = parts].req = made.req /\ [made EXCEPT !.parts = parts].parts = parts
        OBVIOUS
      <3>2. wire = made
        BY <1>2
      <3> QED
        BY <2>1, <3>1, <3>2
    <2>3. Len(parts) < Len(req.subs)
      BY <1>6, <1>9
    <2>4. PartsOK(req, parts)
      BY <1>1, <1>6, <2>3 DEF PartsOK
    <2> HIDE DEF req
    <2>5. PartsOK(wire.req, wire.parts)'
      BY <2>2, <2>4 DEF PartsOK
    <2>6. ReplyInv'
      BY <1>2, <2>1, <2>5 DEF ReplyInv
    <2> QED
      BY <1>5, <1>7, <2>6 DEF DataInv
  <1> QED
    BY <1>8, <1>9

\* Neither a tag service nor a Multiple_Service_Packet.
LEMMA BrowseData ==
  ASSUME Inv, DataInv, ServeBrowse \/ ServeAttributes \/ ServeDefinition \/ RefuseParts, Others
  PROVE  DataInv'
  <1>1. /\ wire # NoRequest /\ UNCHANGED <<database, mem, atoms, queue, sent, task>>
        /\ \E parts, status : Replies(parts, status) /\ ReplyOK(wire.req, Reply(parts, status))
    <2>1. ASSUME wire.req.svc \notin TagService, wire.req.svc # "multiple", NEW parts, NEW status
          PROVE  ReplyOK(wire.req, Reply(parts, status))
      BY <2>1 DEF ReplyOK
    <2>2. CASE ServeBrowse
      <3>1. wire # NoRequest /\ wire.req.svc = "browse" /\ \E parts, status : Replies(parts, status)
        BY <2>2 DEF ServeBrowse, HasRequest
      <3> QED
        BY <2>1, <2>2, <3>1 DEF ServeBrowse, Others, TagService
    <2>3. CASE ServeAttributes
      <3>1. wire # NoRequest /\ wire.req.svc = "attributes" /\ \E parts, status : Replies(parts, status)
        BY <2>3 DEF ServeAttributes, HasRequest
      <3> QED
        BY <2>1, <2>3, <3>1 DEF ServeAttributes, Others, TagService
    <2>4. CASE ServeDefinition
      <3>1. wire # NoRequest /\ wire.req.svc = "definition" /\ \E parts, status : Replies(parts, status)
        BY <2>4 DEF ServeDefinition, HasRequest
      <3> QED
        BY <2>1, <2>4, <3>1 DEF ServeDefinition, Others, TagService
    <2>5. CASE RefuseParts
      <3>1. wire # NoRequest /\ wire.req.svc = "multiple" /\ Replies(<<>>, "error")
        BY <2>5 DEF RefuseParts, HasRequest
      <3>2. ReplyOK(wire.req, Reply(<<>>, "error"))
        BY <3>1 DEF ReplyOK, Reply, TagService
      <3> QED
        BY <2>5, <3>1, <3>2 DEF RefuseParts, Others
    <2> QED
      BY <2>2, <2>3, <2>4, <2>5
  <1>2. PICK t \in Task :
            /\ sent = {t} /\ stream = <<>>
            /\ wire = [task |-> t, req |-> task[t].req, parts |-> wire.parts]
            /\ wire.req = task[t].req
    BY <1>1, Serving
  <1>3. ReplyInv'
    BY <1>1, <1>2, ReplyMade
  <1>4. NamesInv' /\ CallsData' /\ Buffers(mem')
    BY <1>1, SameNames DEF DataInv, CallsData
  <1> QED
    BY <1>3, <1>4 DEF DataInv

LEMMA RegisterData ==
  ASSUME Inv, Inv', DataInv, Register, Others
  PROVE  DataInv'
  <1>1. UNCHANGED <<mem, wire, stream, atoms, queue, sent, task>>
    BY DEF Register, Publish, Announce, RegisterProgram, AddProgramTag, Others
  <1>2. /\ ids \in Seq(CTag) /\ pids \in Seq(PTag) /\ named \subseteq Range(ids) /\ NoTwice(pids)
    BY DEF Inv, IdsInv, DataInv, NamesInv
  <1>3. /\ named' \subseteq Range(ids') /\ NoTwice(pids')
        /\ Grown(ids, ids') /\ Grown(pids, pids')
    <2>1. ASSUME NEW n \in CTag, Publish(n)
          PROVE  named' \subseteq Range(ids') /\ NoTwice(pids') /\ Grown(ids, ids') /\ Grown(pids, pids')
      <3>1. ids' = Append(ids, n) /\ UNCHANGED <<named, pids>>
        BY <2>1 DEF Publish
      <3>2. Grown(ids, Append(ids, n)) /\ Range(ids) \subseteq Range(Append(ids, n))
        BY <1>2, AppendGrows, RangeGrows
      <3> QED
        BY <1>2, <3>1, <3>2, SameGrown DEF NoTwice
    <2>2. CASE Announce
      <3>1. named' = named \cup {Last(ids)} /\ ids # <<>> /\ UNCHANGED <<ids, pids>>
        BY <2>2 DEF Announce
      <3>2. Last(ids) \in Range(ids)
        <4>1. Len(ids) \in 1 .. Len(ids)
          BY <1>2, <3>1
        <4> QED
          BY <1>2, <4>1, RangeOf DEF Last
      <3> QED
        BY <1>2, <3>1, <3>2, SameGrown DEF NoTwice
    <2>3. CASE RegisterProgram
      BY <1>2, <2>3, SameGrown DEF RegisterProgram, NoTwice
    <2>4. ASSUME NEW n \in PTag, AddProgramTag(n)
          PROVE  named' \subseteq Range(ids') /\ NoTwice(pids') /\ Grown(ids, ids') /\ Grown(pids, pids')
      <3>1. /\ pids' = Append(pids, n) /\ n \notin Range(pids) /\ UNCHANGED <<named, ids>>
        BY <2>4 DEF AddProgramTag
      <3>2. NoTwice(Append(pids, n))
        <4>1. \A i \in 1 .. Len(pids) : pids[i] # n
          BY <1>2, <3>1, RangeOf
        <4>2. /\ Len(Append(pids, n)) = Len(pids) + 1 /\ Len(pids) \in Nat
              /\ \A i \in 1 .. Len(pids) : Append(pids, n)[i] = pids[i]
              /\ Append(pids, n)[Len(pids) + 1] = n
          BY <1>2
        <4> QED
          BY <1>2, <4>1, <4>2 DEF NoTwice
      <3>3. Grown(pids, Append(pids, n))
        BY <1>2, AppendGrows
      <3> QED
        BY <1>2, <3>1, <3>2, <3>3, SameGrown
    <2> QED
      BY <2>1, <2>2, <2>3, <2>4 DEF Register
  <1>4. NamesInv'
    BY <1>1, <1>3, NamesKept DEF Inv, DataInv
  <1>5. CallsData' /\ Buffers(mem') /\ ReplyInv'
    BY <1>1 DEF DataInv, CallsData, ReplyInv
  <1> QED
    BY <1>4, <1>5 DEF DataInv

LEMMA ForeignOK ==
  ASSUME NEW req \in ForeignRequest
  PROVE  TagRequestOK(req) /\ req.svc \in TagService
  BY RequestAssumption DEF TagRequestOK, AddressOf

LEMMA ForeignData ==
  ASSUME PlacesFound, Inv, DataInv, NEW req \in ForeignRequest, Foreign(req), Others
  PROVE  DataInv'
  <1>1. mem' = MemAfter(req) /\ UNCHANGED <<database, wire, stream, atoms, sent, task>>
    BY DEF Foreign, Others
  <1>2. Buffers(mem')
    BY <1>1, ForeignOK, MemAfterOK DEF Inv, DataInv
  <1>3. NamesInv' /\ CallsData' /\ ReplyInv'
    BY <1>1, SameNames DEF DataInv, CallsData, ReplyInv
  <1> QED
    BY <1>2, <1>3 DEF DataInv

LEMMA StartData ==
  ASSUME Inv, DataInv, NEW t \in Task, NEW c \in Calls[t], Start(t, c)
  PROVE  DataInv'
  <1> DEFINE st == [First(c) EXCEPT !.op = c.op]
  <1>1. /\ task[t] = Free /\ task' = [task EXCEPT ![t] = st]
        /\ UNCHANGED <<database, mem, wire, stream, atoms, sent>>
    BY DEF Start, serverVars
  <1>2. CallData(st)
    BY FirstRequest DEF Inv
  <1> HIDE DEF st
  <1>3. task'[t] = st /\ \A u \in Task \ {t} : task'[u] = task[u]
    BY <1>1 DEF Inv, CallsInv
  <1>4. CallsData'
    BY <1>2, <1>3 DEF DataInv, CallsData
  <1>5. t \notin sent /\ sent \subseteq Task
    BY <1>1, FreeFields, NotSent DEF Inv, LineInv, Waits
  <1>6. ReplyInv'
    BY <1>1, <1>3, <1>5 DEF DataInv, ReplyInv
  <1> QED
    BY <1>1, <1>4, <1>6, SameNames DEF DataInv

LEMMA SendData ==
  ASSUME Inv, DataInv, NEW t \in Task, Send(t)
  PROVE  DataInv'
  <1>1. /\ Holds(t) /\ t \notin sent /\ wire' = [task |-> t, req |-> task[t].req, parts |-> <<>>]
        /\ UNCHANGED <<database, mem, stream, atoms, task>>
    BY DEF Send
  <1>2. stream = <<>>
    BY <1>1 DEF Inv, LineInv, Holds, ExchangeInv
  <1>3. PartsOK(task[t].req, <<>>)
    <2>1. RequestOK(task[t].req)
      BY DEF DataInv, CallsData, CallData
    <2>2. <<>> \in Seq(Answers) /\ Len(<<>>) = 0
      OBVIOUS
    <2> QED
      BY <2>1, <2>2 DEF PartsOK, RequestOK
  <1>4. ReplyInv'
    <2>1. wire'.req = task[t].req /\ wire'.parts = <<>>
      BY <1>1
    <2>2. PartsOK(wire.req, wire.parts)'
      BY <1>3, <2>1 DEF PartsOK
    <2> QED
      BY <1>1, <1>2, <2>2 DEF ReplyInv
  <1> QED
    BY <1>1, <1>4, SameNames DEF DataInv, CallsData

\* What the holder of the lock reads.
LEMMA Reading ==
  ASSUME Inv, DataInv, NEW t \in Task, Receive(t)
  PROVE  LET r == Head(stream)
         IN  /\ stream = <<r>> /\ wire = NoRequest /\ sent = {t} /\ task[t].req # NoReq
             /\ r.task = t /\ ReplyOK(task[t].req, r)
             /\ Fits(ids, pids, inst, task[t], r)
             /\ CallOK(ids, pids, program, inst, task[t]) /\ CallData(task[t])
  <1>1. Holds(t) /\ t \in sent /\ stream # <<>>
    BY DEF Receive
  <1>2. Answered(t)
    BY <1>1 DEF Inv, ExchangeInv, Asked
  <1>3. /\ wire = NoRequest /\ stream = << stream[1] >>
        /\ Fits(ids, pids, inst, task[t], stream[1])
    BY <1>2 DEF Answered
  <1>4. Head(stream) = stream[1]
    BY <1>3
  <1>5. stream[1].task = t /\ ReplyOK(task[t].req, stream[1])
    BY <1>1 DEF DataInv, ReplyInv
  <1>6. sent = {t}
    BY <1>1 DEF Inv, LineInv, Holds
  <1>7. task[t].req # NoReq
    BY <1>1, NotSent DEF Inv, Waits
  <1>8. CallOK(ids, pids, program, inst, task[t]) /\ CallData(task[t])
    BY DEF Inv, CallsInv, DataInv, CallsData
  <1> QED
    BY <1>3, <1>4, <1>5, <1>6, <1>7, <1>8

LEMMA ReceiveData ==
  ASSUME Inv, Inv', DataInv, NEW t \in Task, Receive(t)
  PROVE  DataInv'
  <1> DEFINE r == Head(stream)
             next == Continued(task[t], r)
  <1>1. /\ task' = [task EXCEPT ![t] = next] /\ atoms' = Cached(task[t], r)
        /\ sent' = sent \ {t} /\ UNCHANGED <<database, inst, mem, wire>>
    BY DEF Receive
  <1>2. /\ wire = NoRequest /\ sent = {t} /\ task[t].req # NoReq
        /\ ReplyOK(task[t].req, r) /\ Fits(ids, pids, inst, task[t], r)
        /\ CallOK(ids, pids, program, inst, task[t]) /\ CallData(task[t])
    BY Reading
  <1>3. CallData(next)
    BY <1>2, ContinuedData DEF Inv
  <1> HIDE DEF r, next
  <1>4. task'[t] = next /\ \A u \in Task \ {t} : task'[u] = task[u]
    BY <1>1 DEF Inv, CallsInv
  <1>5. CallsData'
    BY <1>3, <1>4 DEF DataInv, CallsData
  <1>6. NamesInv'
    <2>1. UNCHANGED <<ids, pids, named>>
      BY <1>1 DEF database
    <2>2. \A n \in PTag : atoms'[n] # 0 => atoms'[n] = atoms[n] \/ atoms'[n] \in 1 .. Len(pids)
      BY <1>1, <1>2, CachedNames DEF Inv
    <2>3. Grown(ids, ids') /\ Grown(pids, pids') /\ named' \subseteq Range(ids') /\ NoTwice(pids')
      BY <2>1, SameGrown DEF Inv, IdsInv, DataInv, NamesInv
    <2> QED
      BY <2>2, <2>3, NamesKept DEF Inv, DataInv
  <1>7. ReplyInv'
    BY <1>1, <1>2 DEF ReplyInv
  <1> QED
    BY <1>1, <1>5, <1>6, <1>7 DEF DataInv

LEMMA ReturnData ==
  ASSUME Inv, DataInv, NEW t \in Task, Return(t)
  PROVE  DataInv'
  <1>1. /\ ~Waits(t) /\ task' = [task EXCEPT ![t] = Free]
        /\ UNCHANGED <<database, mem, wire, stream, atoms, sent>>
    BY DEF Return, Finished, serverVars
  <1>2. task'[t] = Free /\ \A u \in Task \ {t} : task'[u] = task[u]
    BY <1>1 DEF Inv, CallsInv
  <1>3. CallsData'
    BY <1>2, FreeData DEF DataInv, CallsData
  <1>4. t \notin sent /\ sent \subseteq Task
    BY <1>1, NotSent DEF Inv, LineInv
  <1>5. ReplyInv'
    BY <1>1, <1>2, <1>4 DEF DataInv, ReplyInv
  <1> QED
    BY <1>1, <1>3, <1>5, SameNames DEF DataInv

LEMMA DataInitially ==
  ASSUME PlacesFound
  PROVE  Init => DataInv
  <1> SUFFICES ASSUME Init
               PROVE  DataInv
    OBVIOUS
  <1>1. /\ ids = Initial /\ named = Range(Initial) /\ pids = <<>> /\ wire = NoRequest /\ stream = <<>>
        /\ mem = [n \in Tag |-> [i \in 1 .. DataSize(n) |-> {}]]
        /\ atoms = [n \in Tag |-> 0] /\ task = [t \in Task |-> Free]
    BY DEF Init, ServerInit
  <1>2. Buffers(mem)
    <2>1. ASSUME NEW n \in Tag
          PROVE  mem[n] \in Seq(Byte) /\ Len(mem[n]) = DataSize(n)
      <3>1. DataSize(n) \in Nat
        BY DEF PlacesFound
      <3>2. mem[n] \in [1 .. DataSize(n) -> Byte]
        BY <1>1 DEF Byte
      <3> QED
        BY <3>1, <3>2, MadeSeq
    <2> QED
      BY <1>1, <2>1 DEF Buffers
  <1>3. NamesInv
    BY <1>1, TagsApart DEF NamesInv, NoTwice
  <1>4. CallsData
    BY <1>1, FreeData DEF CallsData
  <1> QED
    BY <1>1, <1>2, <1>3, <1>4 DEF DataInv, ReplyInv

LEMMA DataStays ==
  ASSUME PlacesFound
  PROVE  Inv /\ DataInv /\ [Next]_vars => DataInv'
  <1> SUFFICES ASSUME Inv, DataInv, [Next]_vars
               PROVE  DataInv'
    OBVIOUS
  <1>0. Inv'
    BY Stays
  <1>1. ASSUME NEW t \in Task, NEW c \in Calls[t], Start(t, c)
        PROVE  DataInv'
    BY <1>1, StartData
  <1>2. ASSUME NEW t \in Task, Send(t) \/ Receive(t) \/ Return(t)
        PROVE  DataInv'
    BY <1>0, <1>2, SendData, ReceiveData, ReturnData
  <1>3. CASE Serve /\ Others
    BY <1>3, TagData, PartData, BrowseData DEF Serve
  <1>4. CASE Register /\ Others
    BY <1>0, <1>4, RegisterData
  <1>5. ASSUME NEW req \in ForeignRequest, Foreign(req), Others
        PROVE  DataInv'
    BY <1>5, ForeignData
  <1>6. CASE UNCHANGED vars
    <2>1. UNCHANGED <<database, mem, wire, stream, atoms, sent, task>>
      BY <1>6 DEF vars, serverVars
    <2> QED
      BY <2>1, SameNames DEF DataInv, CallsData, ReplyInv
  <1> QED
    BY <1>1, <1>2, <1>3, <1>4, <1>5, <1>6 DEF Next

LEMMA DataAlways ==
  ASSUME PlacesFound
  PROVE  Spec => []DataInv
  <1>1. Init => DataInv
    BY DataInitially
  <1>2. Inv /\ DataInv /\ [Next]_vars => DataInv'
    BY DataStays
  <1> QED
    BY <1>1, <1>2, Always, PTL DEF Spec

(***************************************************************************)
(* Types, and the requests of others.                                      *)
(***************************************************************************)
LEMMA ProgramCount ==
  ASSUME IdsInv, NamesInv
  PROVE  Len(pids) \in Nat /\ Cardinality(PTag) \in Nat /\ Len(pids) <= Cardinality(PTag)
  <1>1. pids \in Injection(1 .. Len(pids), PTag)
    BY DEF IdsInv, NamesInv, NoTwice, Injection, IsInjective
  <1>2. Cardinality(1 .. Len(pids)) <= Cardinality(PTag)
    BY <1>1, ScopeAssumption, FS_Injection
  <1>3. Len(pids) \in Int /\ Len(pids) \in Nat /\ 1 \in Int
    BY DEF IdsInv
  <1>4. Cardinality(1 .. Len(pids)) = IF 1 > Len(pids) THEN 0 ELSE Len(pids) - 1 + 1
    BY <1>3, FS_Interval
  <1>5. Cardinality(PTag) \in Nat
    BY ScopeAssumption, FS_CardinalityType
  <1> QED
    BY <1>2, <1>3, <1>4, <1>5

\* The variables keep their types: no tag changes its size, no byte has other
\* bits than its own, and who waits is in line (the buffers of tag.py, the
\* lock of TagClient).
THEOREM TypeCorrect ==
  ASSUME PlacesFound
  PROVE  Spec => []TypeOK
  <1>1. Inv /\ DataInv => TypeOK
    <2> SUFFICES ASSUME Inv, DataInv
                 PROVE  TypeOK
      OBVIOUS
    <2>1. Range(ids) \subseteq CTag /\ named \subseteq Range(ids) /\ program \in BOOLEAN
          /\ Range(pids) \subseteq PTag
      BY RangeOf DEF Inv, IdsInv, DataInv, NamesInv
    <2>2. \A n \in Tag : Len(mem[n]) = DataSize(n) /\ Range(mem[n]) \subseteq Byte
      <3>1. \A n \in Tag : mem[n] \in Seq(Byte) /\ Len(mem[n]) = DataSize(n)
        BY DEF DataInv, Buffers
      <3> QED
        BY <3>1, RangeOf
    <2>3. atoms \in [Tag -> 0 .. MaxTag]
      <3>1. Len(pids) <= MaxTag
        <4>1. Len(pids) \in Nat /\ Len(pids) <= Cardinality(PTag)
          BY ProgramCount DEF Inv, DataInv
        <4>2. Cardinality(PTag) <= MaxTag /\ Cardinality(PTag) \in Nat /\ MaxTag \in Nat
          BY ScopeAssumption, FS_CardinalityType, GreatestOfTwo DEF MaxTag
        <4> QED
          BY <4>1, <4>2
      <3>2. ASSUME NEW n \in Tag
            PROVE  atoms[n] \in 0 .. MaxTag
        <4>1. atoms[n] \in Nat
          BY DEF Inv, AtomsInv
        <4>2. CASE n \in CTag
          BY <4>1, <4>2, TagCount, TagBound DEF Inv, AtomsInv
        <4>3. CASE n \in PTag
          BY <3>1, <4>1, <4>3, TagBound DEF Inv, IdsInv, DataInv, NamesInv
        <4> QED
          BY <4>2, <4>3 DEF Tag
      <3> QED
        BY <3>2 DEF Inv, AtomsInv
    <2>4. sent \subseteq Range(queue) /\ Range(queue) \subseteq Task
      BY NotSent, RangeOf DEF Inv, LineInv
    <2>5. \A t \in Task : task[t].pos \in Nat /\ (Waits(t) <=> t \in Range(queue))
      BY DEF Inv, LineInv, DataInv, CallsData, CallData
    <2> QED
      BY <2>1, <2>2, <2>3, <2>4, <2>5 DEF Inv, InstInv, DataInv, Buffers, TypeOK
  <1>2. Spec => []DataInv
    BY DataAlways
  <1> QED
    BY <1>1, <1>2, Always, PTL

\* What the requests of other peers change lies in their room: the places that the
\* walker finds, the index behind an instance, and the bounds of the tag services
\* (tag_services.py) keep it there.
THEOREM WritesCorrect ==
  ASSUME PlacesFound
  PROVE  Spec => []WritesWithin
  <1>1. Inv /\ DataInv => WritesWithin
    <2> SUFFICES ASSUME Inv, DataInv, NEW req \in ForeignRequest, NamesPlace(req.path),
                        NEW n \in Tag, NEW i \in DOMAIN mem[n], MemAfter(req)[n][i] # mem[n][i]
                 PROVE  n = req.path.root /\ Room(req).off < i /\ i <= Room(req).off + Room(req).len
      BY DEF WritesWithin
    <2>1. TagRequestOK(req)
      BY ForeignOK
    <2> QED
      BY <2>1, ChangesWithin DEF Inv, DataInv
  <1>2. Spec => []DataInv
    BY DataAlways
  <1> QED
    BY <1>1, <1>2, Always, PTL

(***************************************************************************)
(* Direct calls land where they are named.                                 *)
(***************************************************************************)
LEMMA DirectedKept ==
  ASSUME NEW cs \in Seq(CTag), NEW cs2 \in Seq(CTag), Grown(cs, cs2), Len(cs) <= MaxTag,
         NEW table, NEW table2, \A i \in 1 .. MaxTag : table[i] # NoTag => table2[i] # NoTag,
         NEW req, AllDirected(cs, table, req)
  PROVE  AllDirected(cs2, table2, req)
  <1>1. ASSUME NEW sub, Directed(cs, table, sub)
        PROVE  Directed(cs2, table2, sub)
    <2>1. \A i \in 1 .. Len(cs) : i \in 1 .. Len(cs2) /\ cs2[i] = cs[i] /\ i \in 1 .. MaxTag
      BY TagBound DEF Grown
    <2> QED
      BY <1>1, <2>1 DEF Directed
  <1> QED
    BY <1>1 DEF AllDirected

\* Every step keeps the controller's tags and the instances.
LEMMA Grows ==
  ASSUME Inv, [Next]_vars
  PROVE  Growth
  <1>1. CASE UNCHANGED <<database, inst>>
    <2>1. ids \in Seq(CTag) /\ pids \in Seq(PTag)
      BY DEF Inv, IdsInv
    <2> QED
      BY <1>1, <2>1, SameGrown DEF Growth, database
  <1>2. CASE Register
    BY <1>2, PublishDatabase, AnnounceDatabase, ProgramDatabase DEF Inv, Register
  <1>3. CASE ServeBrowse
    <2>1. UNCHANGED database /\ \E entries : inst' = inst \/ inst' = Ensured(entries)
      BY <1>3 DEF ServeBrowse
    <2>2. \A i \in 1 .. MaxTag : inst[i] # NoTag => inst'[i] # NoTag
      <3>1. \A entries : \A i \in Instance : inst[i] # NoTag => Ensured(entries)[i] = inst[i]
        BY DEF Ensured
      <3> QED
        BY <2>1, <3>1, TagBound
    <2>3. ids \in Seq(CTag) /\ pids \in Seq(PTag)
      BY DEF Inv, IdsInv
    <2> QED
      BY <2>1, <2>2, <2>3, SameGrown DEF Growth, database
  <1>4. Serve => UNCHANGED <<database, inst>> \/ ServeBrowse
    BY DEF Serve, ServeTag, ServePart, RefuseParts, ServeAttributes, ServeDefinition
  <1>5. \A t \in Task : Send(t) \/ Receive(t) \/ Return(t) => UNCHANGED <<database, inst>>
    BY DEF Send, Receive, Return, serverVars
  <1>6. \A t \in Task : \A c \in Calls[t] : Start(t, c) => UNCHANGED <<database, inst>>
    BY DEF Start, serverVars
  <1>7. \A req \in ForeignRequest : Foreign(req) => UNCHANGED <<database, inst>>
    BY DEF Foreign
  <1>8. UNCHANGED vars => UNCHANGED <<database, inst>>
    BY DEF vars, serverVars
  <1> QED
    BY <1>1, <1>2, <1>3, <1>4, <1>5, <1>6, <1>7, <1>8 DEF Next

\* The request that a direct call makes for one of its addresses.
LEMMA MadeDirected ==
  ASSUME Inv, NEW svc \in {"read", "read_fragment", "write"}, NEW a \in Address, Direct(a),
         NEW count \in Nat, NEW bytes \in Seq(Byte),
         svc = "write" => Len(bytes) = count * Extent[a].size
  PROVE  Directed(ids, inst, TagRequest(svc, a, count, 0, bytes))
  <1> DEFINE req == TagRequest(svc, a, count, 0, bytes)
  <1>1. /\ AddressOf(req) = a /\ req.svc = svc /\ req.count = count /\ req.off = 0
        /\ req.bytes = bytes /\ req.path.root = a.root /\ req.path.id = atoms[a.root]
    BY RequestMade DEF Inv
  <1> HIDE DEF req
  <1>2. a.root \in CTag
    BY DEF Direct
  <1>3. atoms[a.root] # 0 => /\ atoms[a.root] \in 1 .. Len(ids) /\ ids[atoms[a.root]] = a.root
                             /\ inst[atoms[a.root]] # NoTag
    BY <1>2 DEF Inv, AtomsInv
  <1>4. Directed(ids, inst, req)
    BY <1>1, <1>3 DEF Directed
  <1> QED
    BY <1>4 DEF req

LEMMA NotTagRequest ==
  ASSUME NEW cs, NEW table, NEW req, req.svc \notin TagService, req.svc # "multiple"
  PROVE  AllDirected(cs, table, req)
  BY DEF AllDirected

LEMMA FirstDirected ==
  ASSUME Inv, DirectCalls, NEW t \in Task, NEW c \in Calls[t]
  PROVE  AllDirected(ids, inst, [First(c) EXCEPT !.op = c.op].req)
  <1> DEFINE st == [First(c) EXCEPT !.op = c.op]
  <1>0. c.op \in {"read", "write", "multiple", "struct", "template", "browse"}
    BY CallAssumption
  <1>1. <<>> \in Seq(Byte) /\ 1 \in Nat
    OBVIOUS
  <1>2. WritesWhole(c) /\ \A a \in AddressesOf(c) : Direct(a)
    BY DEF DirectCalls, DirectCall
  <1>3. CASE c.op \in {"read", "write"}
    <2> DEFINE bytes == IF c.op = "write" THEN c.bytes ELSE <<>>
               req == TagRequest(c.op, c.addr, c.count, 0, bytes)
    <2>1. /\ c.addr \in Address /\ c.count \in Nat /\ bytes \in Seq(Byte) /\ Direct(c.addr)
          /\ c.op = "write" => Len(bytes) = c.count * Extent[c.addr].size
      BY <1>1, <1>2, <1>3, RequestAssumption DEF AddressesOf, WritesWhole
    <2>2. First(c) = [Free EXCEPT !.req = req]
      BY <1>3 DEF First
    <2>3. req.svc = c.op
      BY DEF TagRequest
    <2> HIDE DEF bytes
    <2>4. Directed(ids, inst, req)
      BY <1>3, <2>1, MadeDirected
    <2> HIDE DEF req
    <2>5. st.req = req
      BY <2>2 DEF Free
    <2> QED
      BY <1>3, <2>3, <2>4, <2>5 DEF AllDirected
  <1>4. CASE c.op = "multiple"
    <2> DEFINE made(i) == TagRequest(c.subs[i].svc, c.subs[i].addr, 1, 0, c.subs[i].bytes)
               subs == [i \in DOMAIN c.subs |-> made(i)]
               req == [svc |-> "multiple", subs |-> subs]
    <2>1. c.subs \in Seq([svc : {"read", "write"}, addr : Address, bytes : Seq(Byte)])
      BY <1>4, RequestAssumption
    <2>2. Len(c.subs) \in Nat /\ DOMAIN c.subs = 1 .. Len(c.subs)
      BY <2>1
    <2>3. ASSUME NEW i \in 1 .. Len(c.subs)
          PROVE  Directed(ids, inst, made(i))
      <3> DEFINE sub == c.subs[i]
      <3>1. sub \in [svc : {"read", "write"}, addr : Address, bytes : Seq(Byte)]
        BY <2>1, ElementIn
      <3>2. /\ sub.svc \in {"read", "read_fragment", "write"} /\ sub.addr \in Address
            /\ sub.bytes \in Seq(Byte)
        BY <3>1
      <3>3. Direct(sub.addr) /\ (sub.svc = "write" => Len(sub.bytes) = Extent[sub.addr].size)
        BY <1>2, <1>4, <2>2 DEF AddressesOf, WritesWhole
      <3>4. Extent[sub.addr].size \in Nat
        <4>1. Extent[sub.addr] \in [off : Nat, size : Nat, type : {Atomic} \cup DOMAIN Template]
          BY <3>2, AddressAssumption
        <4> QED
          BY <4>1
      <3>5. sub.svc = "write" => Len(sub.bytes) = 1 * Extent[sub.addr].size
        BY <3>3, <3>4
      <3> HIDE DEF sub
      <3>6. Directed(ids, inst, TagRequest(sub.svc, sub.addr, 1, 0, sub.bytes))
        BY <1>1, <3>2, <3>3, <3>5, MadeDirected
      <3> QED
        BY <3>6 DEF sub
    <2>4. First(c) = [Free EXCEPT !.req = req]
      BY <1>4 DEF First
    <2> HIDE DEF made
    <2>5. Len(subs) = Len(c.subs) /\ req.svc = "multiple" /\ req.subs = subs
      BY <2>2
    <2>6. \A i \in 1 .. Len(subs) : Directed(ids, inst, subs[i])
      BY <2>2, <2>3, <2>5
    <2> HIDE DEF subs, req
    <2>7. st.req = req
      BY <2>4 DEF Free
    <2> QED
      BY <2>5, <2>6, <2>7 DEF AllDirected, TagService
  <1>5. CASE c.op = "struct"
    <2> DEFINE none == <<>>
               req == TagRequest("read_fragment", c.addr, 1, 0, none)
    <2>1. c.addr \in Address /\ Direct(c.addr) /\ none \in Seq(Byte)
      BY <1>1, <1>2, <1>5, RequestAssumption DEF AddressesOf
    <2>2. First(c) = [Free EXCEPT !.req = req, !.addr = c.addr]
      BY <1>5 DEF First, FragmentRequest
    <2>3. req.svc = "read_fragment"
      BY DEF TagRequest
    <2>4. Directed(ids, inst, req)
      <3> HIDE DEF none
      <3> QED
        BY <1>1, <2>1, MadeDirected
    <2> HIDE DEF req
    <2>5. st.req = req
      BY <2>2 DEF Free
    <2> QED
      BY <2>3, <2>4, <2>5 DEF AllDirected
  <1>6. CASE c.op \in {"template", "browse"}
    <2>1. st.req.svc \in {"attributes", "browse"}
      BY <1>6 DEF First, Free, AttributesRequest, BrowseRequest
    <2> QED
      BY <2>1, NotTagRequest DEF TagService
  <1> QED
    BY <1>0, <1>3, <1>4, <1>5, <1>6

LEMMA NoReqDirected ==
  ASSUME NEW cs, NEW table
  PROVE  AllDirected(cs, table, NoReq)
  BY NotTagRequest DEF NoReq, TagService

LEMMA ContinuedDirected ==
  ASSUME IdsInv, NEW st, CallOK(ids, pids, program, inst, st), st.req # NoReq, CallData(st),
         NEW r, Fits(ids, pids, inst, st, r), ReplyOK(st.req, r), AllDirected(ids, inst, st.req)
  PROVE  AllDirected(ids, inst, Continued(st, r).req)
  <1> DEFINE next == Continued(st, r)
  <1>1. CASE st.stage # "none"
    <2>1. next.stage # "none" /\ CallOK(ids, pids, program, inst, next)
      BY <1>1, StageKept, ContinuedOK DEF CallData
    <2> HIDE DEF next
    <2>2. AllDirected(ids, inst, next.req)
      BY <2>1, StageRequest, NotTagRequest
    <2> QED
      BY <2>2 DEF next
  <1>2. CASE st.stage = "none" /\ st.op = "struct"
    <2>1. IsFragment(st.req) /\ Directed(ids, inst, st.req)
      BY <1>2 DEF CallData, IsFragment, AllDirected, TagService
    <2>2. PICK answer \in Answers : r.parts = <<answer>>
      BY <2>1 DEF ReplyOK, IsFragment, TagService
    <2> DEFINE pos == st.pos + Len(Body(st, answer.head \o answer.data))
               req == [st.req EXCEPT !.off = pos]
    <2>3. next.req \in {NoReq, req}
      <3>1. r.status \in {"ok", "more", "error"} /\ DOMAIN st = Fields
        BY DEF Fits, CallOK
      <3>2. next = AfterFragment(st, r)
        BY <1>2 DEF Continued
      <3>3. r.parts[1] = answer
        BY <2>2
      <3> DEFINE body == Body(st, answer.head \o answer.data)
      <3>4. /\ r.status = "error" => next = Free
            /\ r.status = "ok" => next.req = NoReq
            /\ r.status = "more" => next.req = [st.req EXCEPT !.off = st.pos + Len(body)]
        <4> HIDE DEF next
        <4> QED
          BY <3>1, <3>2, <3>3, FragmentNext
      <3>5. r.status = "more" => next.req = req
        BY <3>4
      <3> HIDE DEF next, req
      <3> QED
        BY <3>1, <3>4, <3>5, FreeFields
    <2>4. AllDirected(ids, inst, req)
      <3> HIDE DEF pos
      <3>1. req.svc = "read_fragment" /\ req.path = st.req.path
        BY <2>1 DEF IsFragment
      <3> HIDE DEF req
      <3>2. Directed(ids, inst, req)
        BY <2>1, <3>1 DEF Directed, AddressOf
      <3> QED
        BY <3>1, <3>2 DEF AllDirected
    <2> QED
      BY <2>3, <2>4, NoReqDirected
  <1>3. CASE st.stage = "none" /\ st.op # "struct"
    BY <1>3, FreeFields, NoReqDirected DEF Continued
  <1> QED
    BY <1>1, <1>2, <1>3

LEMMA RouteInitially == Init => RouteInv
  BY FreeFields, NoReqDirected DEF Init, RouteInv

LEMMA RouteStays ==
  ASSUME DirectCalls
  PROVE  Inv /\ DataInv /\ RouteInv /\ [Next]_vars => RouteInv'
  <1> SUFFICES ASSUME Inv, DataInv, RouteInv, [Next]_vars
               PROVE  RouteInv'
    OBVIOUS
  <1>0. Inv' /\ Growth
    BY Stays, Grows
  <1>1. \A req : AllDirected(ids, inst, req) => AllDirected(ids', inst', req)
    <2>1. ids \in Seq(CTag) /\ ids' \in Seq(CTag) /\ Len(ids) <= MaxTag
      BY <1>0, TagCount DEF Inv, IdsInv
    <2> QED
      BY <1>0, <2>1, DirectedKept DEF Growth
  <1>2. ASSUME NEW t \in Task, NEW st, AllDirected(ids, inst, st.req), task' = [task EXCEPT ![t] = st]
        PROVE  RouteInv'
    <2>1. task'[t] = st /\ \A u \in Task \ {t} : task'[u] = task[u]
      BY <1>2 DEF Inv, CallsInv
    <2> QED
      BY <1>1, <1>2, <2>1 DEF RouteInv
  <1>3. CASE task' = task
    BY <1>1, <1>3 DEF RouteInv
  <1>4. ASSUME NEW t \in Task, NEW c \in Calls[t], Start(t, c)
        PROVE  RouteInv'
    BY <1>2, <1>4, FirstDirected DEF Start
  <1>5. ASSUME NEW t \in Task, Receive(t)
        PROVE  RouteInv'
    <2>1. task' = [task EXCEPT ![t] = Continued(task[t], Head(stream))]
      BY <1>5 DEF Receive
    <2>2. AllDirected(ids, inst, Continued(task[t], Head(stream)).req)
      BY <1>5, Reading, ContinuedDirected DEF Inv, RouteInv
    <2> QED
      BY <1>2, <2>1, <2>2
  <1>6. ASSUME NEW t \in Task, Return(t)
        PROVE  RouteInv'
    BY <1>2, <1>6, FreeFields, NoReqDirected DEF Return
  <1>7. ASSUME NEW t \in Task, Send(t)
        PROVE  RouteInv'
    BY <1>3, <1>7 DEF Send
  <1>8. CASE Others \/ UNCHANGED vars
    BY <1>3, <1>8 DEF Others, vars
  <1> QED
    BY <1>4, <1>5, <1>6, <1>7, <1>8 DEF Next

LEMMA RouteAlways ==
  ASSUME PlacesFound, DirectCalls
  PROVE  Spec => []RouteInv
  <1>1. Init => RouteInv
    BY RouteInitially
  <1>2. Inv /\ DataInv /\ RouteInv /\ [Next]_vars => RouteInv'
    BY RouteStays
  <1>3. Spec => []DataInv
    BY DataAlways
  <1> QED
    BY <1>1, <1>2, <1>3, Always, PTL DEF Spec

\* A direct request ends up where Extent says, whether its root is given by
\* name or by the id in the cache.
LEMMA DirectLands ==
  ASSUME PlacesFound, FewProgramTags, Inv, DataInv, NEW req, TagRequestOK(req),
         Directed(ids, inst, req), Landing(req.path) # Nowhere
  PROVE  LET to == Landing(req.path)
             e == Extent[AddressOf(req)]
         IN  /\ to.tag = req.path.root /\ to.at.off = e.off /\ to.at.size = e.size
             /\ to.at.type = e.type /\ to.at.bit = NoBit
  <1> DEFINE a == AddressOf(req)
             to == Landing(req.path)
             e == Extent[a]
             id == req.path.id
  <1>1. a \in Address /\ a.root = req.path.root /\ a.segs = req.path.segs /\ req.path.root \in Tag
    BY AddressFields DEF TagRequestOK
  <1>2. /\ PlaceOf(a).bit = NoBit
        /\ e = [off |-> LastIndex(a.segs) * Shape[a.root].size,
                size |-> Shape[a.root].size, type |-> Shape[a.root].type]
    BY DEF Directed, Direct
  <1>3. CASE id # 0
    <2>1. to = ByInstance(id, req.path.segs)
      BY <1>3 DEF Landing
    <2>2. id \in 1 .. Len(ids) /\ ids[id] = req.path.root /\ inst[id] # NoTag
      BY <1>3 DEF Directed
    <2>3. Len(pids) <= Len(Initial)
      <3>1. Len(pids) \in Nat /\ Cardinality(PTag) \in Nat /\ Len(pids) <= Cardinality(PTag)
        BY ProgramCount DEF Inv, DataInv
      <3>2. Len(Initial) \in Nat
        BY InitialAssumption
      <3> QED
        BY <3>1, <3>2 DEF FewProgramTags
    <2>4. id \in 1 .. MaxTag
      BY <2>2, TagCount, TagBound DEF Inv
    <2>5. inst[id] = req.path.root
      BY <2>2, <2>3, <2>4 DEF Inv, InstInv
    <2>6. /\ to.tag = inst[id]
          /\ to.at.off = LastIndex(req.path.segs) * Shape[inst[id]].size
          /\ to.at.size = Shape[inst[id]].size /\ to.at.type = Shape[inst[id]].type
          /\ to.at.bit = NoBit
      BY <2>1, InstanceLands DEF Inv
    <2> HIDE DEF to, a, e, id
    <2> QED
      BY <1>1, <1>2, <2>5, <2>6 DEF to, a, e, id
  <1>4. CASE id = 0
    <2>1. to = ByName(req.path.root, req.path.segs)
      BY <1>4 DEF Landing
    <2>2. to = [tag |-> req.path.root, at |-> PlaceOf(a)] /\ PlaceOf(a) # NoPlace
      BY <1>1, <2>1, NameLands DEF AddressOf
    <2> HIDE DEF to, a
    <2>3. to.tag = req.path.root /\ to.at = PlaceOf(a)
      BY <2>2
    <2>4. /\ PlaceOf(a).off = Extent[a].off /\ PlaceOf(a).size = Extent[a].size
          /\ PlaceOf(a).type = Extent[a].type
      BY <1>1, <2>2 DEF PlacesFound
    <2> QED
      BY <1>2, <2>3, <2>4 DEF to, a
  <1> QED
    BY <1>3, <1>4

\* Requests land where their names say, as README.md:99 and src/README.md:106
\* have it, when they are for controller tags and their elements: what the run
\* logix_program finds is confined to members and program tags.
THEOREM DirectCallsLand ==
  ASSUME PlacesFound, DirectCalls, FewProgramTags
  PROVE  Spec => []LandsWhereNamed
  <1>1. Inv /\ DataInv /\ RouteInv => LandsWhereNamed
    <2> SUFFICES ASSUME Inv, DataInv, RouteInv, HasRequest(TagService), Landing(wire.req.path) # Nowhere
                 PROVE  LET to == Landing(wire.req.path)
                            path == wire.req.path
                            e == Extent[[root |-> path.root, segs |-> path.segs]]
                        IN  to.tag = path.root /\ to.at.off = e.off /\ to.at.size = e.size
      BY DEF LandsWhereNamed
    <2>1. wire # NoRequest /\ wire.req.svc \in TagService
      BY DEF HasRequest
    <2>2. PICK t \in Task : wire.req = task[t].req /\ RequestOK(wire.req)
      BY <2>1, Serving
    <2>3. TagRequestOK(wire.req) /\ Directed(ids, inst, wire.req)
      BY <2>1, <2>2, TagRequestIs DEF RouteInv, AllDirected
    <2> QED
      BY <2>3, DirectLands DEF AddressOf
  <1>2. Spec => []DataInv
    BY DataAlways
  <1>3. Spec => []RouteInv
    BY RouteAlways
  <1> QED
    BY <1>1, <1>2, <1>3, Always, PTL

(***************************************************************************)
(* read_struct, of structures that fit one reply.                          *)
(***************************************************************************)
LEMMA FirstStruct ==
  ASSUME AtomsInv, DirectCalls, StructsFit, NEW t \in Task, NEW c \in Calls[t],
         NEW st, st = [First(c) EXCEPT !.op = c.op]
  PROVE  st.op = "struct" => StructCall(st)
  <1>0. c.op \in {"read", "write", "multiple", "struct", "template", "browse"}
    BY CallAssumption
  <1>1. st.op = c.op
    <2>1. "op" \in DOMAIN First(c)
      BY <1>0 DEF First, Free
    <2> QED
      BY <2>1
  <1>2. CASE c.op = "struct"
    <2> DEFINE none == <<>>
               req == TagRequest("read_fragment", c.addr, 1, 0, none)
    <2>1. c.addr \in Address /\ none \in Seq(Byte)
      BY <1>2, RequestAssumption
    <2>2. First(c) = [Free EXCEPT !.req = req, !.addr = c.addr]
      BY <1>2 DEF First, FragmentRequest
    <2>3. req.svc = "read_fragment" /\ AddressOf(req) = c.addr /\ req.count = 1 /\ req.off = 0
      <3> HIDE DEF none
      <3> QED
        BY <2>1, RequestMade
    <2> HIDE DEF req
    <2>4. st.req = req /\ st.addr = c.addr /\ st.header = FALSE /\ st.got = <<>>
      BY <2>2 DEF Free
    <2>5. LET e == Extent[c.addr]
          IN  /\ e.type # Atomic /\ e.off + e.size <= DataSize(c.addr.root)
              /\ e.size + Len(Prefix(e.type)) <= MaxReply
      BY <1>2 DEF StructsFit, FitsReply
    <2>6. req # NoReq
      BY <2>3 DEF NoReq
    <2> QED
      BY <2>1, <2>3, <2>4, <2>5, <2>6 DEF StructCall
  <1> QED
    BY <1>1, <1>2

\* The whole structure fits the first fragment.
LEMMA WholeAnswered ==
  ASSUME PlacesFound, FewProgramTags, Inv, DataInv, NEW st, StructCall(st), st.req # NoReq,
         TagRequestOK(st.req), Directed(ids, inst, st.req),
         NEW answer, answer = Answer(st.req), answer.status # "error"
  PROVE  /\ answer.status = "ok" /\ Len(answer.head) = 4
         /\ Len(answer.data) = Extent[st.addr].size
  <1> DEFINE req == st.req
             to == Landing(req.path)
             e == Extent[st.addr]
             fit == MaxReply - Len(Prefix(e.type))
  <1>1. /\ req.svc = "read_fragment" /\ AddressOf(req) = st.addr /\ req.count = 1 /\ req.off = 0
        /\ e.type # Atomic /\ e.off + e.size <= DataSize(st.addr.root)
        /\ e.size + Len(Prefix(e.type)) <= MaxReply
    BY DEF StructCall
  <1>2. Refused.status = "error"
    BY DEF Refused
  <1>3. ~IsRefused(to, req) /\ answer = ReadFragment(to, req) /\ ReadFragment(to, req) # Refused
    BY <1>1, <1>2 DEF Answer
  <1>4. to # Nowhere
    BY <1>3 DEF IsRefused
  <1>5. to.tag = req.path.root /\ to.at.off = e.off /\ to.at.size = e.size /\ to.at.type = e.type
    BY <1>1, <1>4, DirectLands
  <1>6. /\ st.addr.root = req.path.root /\ req.path.root \in Tag /\ e.off \in Nat /\ e.size \in Nat
    BY <1>1, AddressFields DEF TagRequestOK
  <1>7. DataSize(to.tag) \in Nat /\ to.tag \in Tag
    BY <1>5, <1>6 DEF PlacesFound
  <1>8. Len(Prefix(e.type)) = 4 /\ fit \in Nat
    BY <1>1, PrefixOf
  <1> HIDE DEF to, e
  <1>9. PICK got \in 0 .. req.count * to.at.size - req.off :
            /\ answer.head = Prefix(to.at.type) /\ Len(answer.data) = got
            /\ answer.status = "ok" <=> req.off + got = req.count * to.at.size
            /\ got = Lesser(Lesser(req.count * to.at.size - req.off,
                                   DataSize(to.tag) - (to.at.off + req.off)),
                            MaxReply - Len(Prefix(to.at.type)))
    <2>1. req.count \in Nat /\ req.off \in Nat /\ to.at.off \in Nat /\ to.at.size \in Nat
      BY <1>1, <1>5, <1>6
    <2> HIDE DEF req
    <2> QED
      BY <1>3, <1>7, <2>1, ReadFragmentGives DEF DataInv
  <1>10. got = Lesser(Lesser(e.size, DataSize(to.tag) - e.off), fit)
    <2>1. req.count * to.at.size - req.off = e.size /\ to.at.off + req.off = e.off
      BY <1>1, <1>5, <1>6
    <2> QED
      BY <1>5, <1>9, <2>1
  <1>11. e.size <= DataSize(to.tag) - e.off /\ e.size <= fit
    <2>1. e.off + e.size <= DataSize(st.addr.root) /\ e.size + Len(Prefix(e.type)) <= MaxReply
      BY <1>1 DEF e
    <2>2. st.addr.root = to.tag /\ MaxReply \in Nat
      BY <1>5, <1>6, PageAssumption
    <2> QED
      BY <1>6, <1>7, <1>8, <2>1, <2>2
  <1>12. got = e.size
    <2> HIDE DEF fit
    <2> QED
      BY <1>6, <1>7, <1>8, <1>10, <1>11 DEF Lesser
  <1>13. req.off + got = req.count * to.at.size
    BY <1>1, <1>5, <1>6, <1>12
  <1> QED
    BY <1>5, <1>8, <1>9, <1>12, <1>13 DEF e

LEMMA Joined ==
  ASSUME NEW S, NEW s \in Seq(S), NEW rest \in Seq(S)
  PROVE  /\ Len(s \o rest) = Len(s) + Len(rest)
         /\ SubSeq(s \o rest, Len(s) + 1, Len(s \o rest)) = rest
  <1> DEFINE both == s \o rest
  <1>1. /\ both \in Seq(S) /\ Len(both) = Len(s) + Len(rest)
        /\ \A i \in 1 .. Len(rest) : both[Len(s) + i] = rest[i]
    OBVIOUS
  <1>2. Len(s) \in Nat /\ Len(rest) \in Nat
    OBVIOUS
  <1> HIDE DEF both
  <1>3. /\ SubSeq(both, Len(s) + 1, Len(s) + Len(rest)) \in Seq(S)
        /\ Len(SubSeq(both, Len(s) + 1, Len(s) + Len(rest))) = Len(rest)
        /\ \A i \in 1 .. Len(rest) :
               SubSeq(both, Len(s) + 1, Len(s) + Len(rest))[i] = both[Len(s) + i]
    BY <1>1, <1>2, Slice
  <1>4. SubSeq(both, Len(s) + 1, Len(both)) = rest
    BY <1>1, <1>3
  <1> QED
    BY <1>1, <1>4 DEF both

\* Four bytes come off, and the structure remains.
LEMMA WholeBody ==
  ASSUME NEW st, st.header = FALSE, NEW answer \in Answers, Len(answer.head) = 4
  PROVE  Body(st, answer.head \o answer.data) = answer.data
  <1> DEFINE S == Header \cup Byte
             head == answer.head
             data == answer.data
  <1>1. head \in Seq(Header) /\ data \in Seq(Byte)
    BY DEF Answers
  <1>2. head \in Seq(S) /\ data \in Seq(S) /\ Len(head) = 4
    BY <1>1
  <1> HIDE DEF S, head, data
  <1>3. Len(head \o data) = 4 + Len(data)
    BY <1>2, Joined
  <1>4. SubSeq(head \o data, 4 + 1, Len(head \o data)) = data
    BY <1>2, Joined
  <1>5. Len(data) \in Nat
    BY <1>2
  <1>6. Body(st, head \o data) = Drops(head \o data, 4)
    BY <1>3, <1>5 DEF Body
  <1> QED
    BY <1>4, <1>6 DEF Drops, head, data

LEMMA StructContinued ==
  ASSUME NEW st, CallOK(ids, pids, program, inst, st), st.req # NoReq, CallData(st),
         NEW r, Fits(ids, pids, inst, st, r), ReplyOK(st.req, r), 
         st.op = "struct" => StructCall(st) /\ WholeReply(st, r),
         NEW next, next = Continued(st, r)
  PROVE  next.op = "struct" => StructCall(next)
  <1>1. CASE st.stage # "none"
    <2>1. next.op = st.op /\ st.op # "struct"
      BY <1>1, StageKept DEF CallData
    <2> QED
      BY <2>1
  <1>2. CASE st.stage = "none" /\ st.op # "struct"
    BY <1>2, FreeFields DEF Continued
  <1>3. CASE st.stage = "none" /\ st.op = "struct"
    <2>1. StructCall(st) /\ WholeReply(st, r) /\ DOMAIN st = Fields /\ next = AfterFragment(st, r)
      BY <1>3 DEF CallOK, Continued
    <2>2. CASE r.status = "error"
      BY <2>1, <2>2, FreeFields DEF AfterFragment
    <2>3. CASE r.status # "error"
      <3>1. PICK answer \in Answers :
                /\ r.status = "ok" /\ r.parts = <<answer>> /\ Len(answer.head) = 4
                /\ Len(answer.data) = Extent[st.addr].size
        BY <2>1, <2>3 DEF WholeReply
      <3>2. r.parts[1] = answer
        BY <3>1
      <3> DEFINE body == Body(st, answer.head \o answer.data)
      <3>3. next.req = NoReq /\ next.got = st.got \o body /\ next.addr = st.addr
        <4>1. DOMAIN st = Fields /\ next = AfterFragment(st, r) /\ r.status = "ok"
          BY <2>1, <3>1
        <4>2. body = Body(st, answer.head \o answer.data)
          OBVIOUS
        <4> HIDE DEF body
        <4>3. next.req = NoReq /\ next.got = st.got \o body /\ next.addr = st.addr
          BY <3>2, <4>1, <4>2 DEF AfterFragment, Fields
        <4> QED
          BY <4>3
      <3>4. st.header = FALSE /\ st.got = <<>>
        BY <2>1 DEF StructCall
      <3>5. body = answer.data
        BY <3>1, <3>4, WholeBody
      <3>6. answer.data \in Seq(Byte)
        BY DEF Answers
      <3> HIDE DEF body
      <3>7. next.got = answer.data
        BY <3>3, <3>4, <3>5, <3>6
      <3> QED
        BY <2>1, <3>1, <3>3, <3>6, <3>7 DEF StructCall
    <2> QED
      BY <2>2, <2>3
  <1> QED
    BY <1>1, <1>2, <1>3

\* The structure is answered whole.
LEMMA StructServed ==
  ASSUME PlacesFound, FewProgramTags, Inv, DataInv, RouteInv, StructInv, ServeTag, Others
  PROVE  StructInv'
  <1> DEFINE req == wire.req
             answer == Answer(req)
             r == Reply(<<answer>>, answer.status)
  <1>1. /\ wire # NoRequest /\ req.svc \in TagService /\ Replies(<<answer>>, answer.status)
        /\ UNCHANGED <<sent, task>>
    BY DEF ServeTag, HasRequest, Others
  <1>2. PICK t \in Task :
            /\ sent = {t} /\ stream = <<>> /\ task[t].req # NoReq
            /\ req = task[t].req /\ RequestOK(req)
    BY <1>1, Serving
  <1>3. TagRequestOK(req)
    BY <1>1, <1>2, TagRequestIs
  <1>4. answer \in Answers
    BY <1>3, AnswerOK DEF Inv, DataInv
  <1>5. r.parts = <<answer>> /\ r.status = answer.status
    BY DEF Reply
  <1>6. stream' = <<r>>
    BY <1>1, <1>2 DEF Replies
  <1>7. task[t].op = "struct" => WholeReply(task[t], r)
    <2> SUFFICES ASSUME task[t].op = "struct"
                 PROVE  WholeReply(task[t], r)
      OBVIOUS
    <2>1. StructCall(task[t]) /\ Directed(ids, inst, req)
      BY <1>1, <1>2 DEF StructInv, RouteInv, AllDirected
    <2>2. answer.status # "error" => /\ answer.status = "ok" /\ Len(answer.head) = 4
                                     /\ Len(answer.data) = Extent[task[t].addr].size
      BY <1>2, <1>3, <2>1, WholeAnswered
    <2> HIDE DEF answer, r
    <2> QED
      BY <1>4, <1>5, <2>2 DEF WholeReply
  <1> HIDE DEF r
  <1>8. stream'[1] = r
    BY <1>6
  <1> QED
    BY <1>1, <1>2, <1>7, <1>8 DEF StructInv

LEMMA StructStays ==
  ASSUME PlacesFound, DirectCalls, StructsFit, FewProgramTags
  PROVE  Inv /\ DataInv /\ RouteInv /\ StructInv /\ [Next]_vars => StructInv'
  <1> SUFFICES ASSUME Inv, DataInv, RouteInv, StructInv, [Next]_vars
               PROVE  StructInv'
    OBVIOUS
  <1>1. ASSUME NEW t \in Task, NEW c \in Calls[t], Start(t, c)
        PROVE  StructInv'
    <2> DEFINE st == [First(c) EXCEPT !.op = c.op]
    <2>1. task[t] = Free /\ task' = [task EXCEPT ![t] = st] /\ UNCHANGED <<stream, sent>>
      BY <1>1 DEF Start, serverVars
    <2>2. st.op = "struct" => StructCall(st)
      BY FirstStruct DEF Inv
    <2> HIDE DEF st
    <2>3. task'[t] = st /\ \A u \in Task \ {t} : task'[u] = task[u]
      BY <2>1 DEF Inv, CallsInv
    <2>4. t \notin sent
      BY <2>1, FreeFields, NotSent DEF Inv, Waits
    <2> QED
      BY <2>1, <2>2, <2>3, <2>4 DEF StructInv
  <1>2. ASSUME NEW t \in Task, Send(t)
        PROVE  StructInv'
    <2>1. Holds(t) /\ t \notin sent /\ UNCHANGED <<stream, task>>
      BY <1>2 DEF Send
    <2>2. stream = <<>>
      BY <2>1 DEF Inv, LineInv, Holds, ExchangeInv
    <2> QED
      BY <2>1, <2>2 DEF StructInv
  <1>3. ASSUME NEW t \in Task, Receive(t)
        PROVE  StructInv'
    <2> DEFINE r == Head(stream)
               next == Continued(task[t], r)
    <2>1. task' = [task EXCEPT ![t] = next] /\ stream' = Tail(stream)
      BY <1>3 DEF Receive
    <2>2. /\ stream = <<r>> /\ sent = {t} /\ task[t].req # NoReq
          /\ ReplyOK(task[t].req, r) /\ Fits(ids, pids, inst, task[t], r)
          /\ CallOK(ids, pids, program, inst, task[t]) /\ CallData(task[t])
      BY <1>3, Reading
    <2>3. task[t].op = "struct" => StructCall(task[t]) /\ WholeReply(task[t], r)
      <3>1. stream # <<>> /\ stream[1] = r
        <4> HIDE DEF r
        <4> QED
          BY <2>2
      <3> QED
        BY <2>2, <3>1 DEF StructInv
    <2>4. next.op = "struct" => StructCall(next)
      <3>1. /\ CallOK(ids, pids, program, inst, task[t]) /\ task[t].req # NoReq /\ CallData(task[t])
            /\ Fits(ids, pids, inst, task[t], r) /\ ReplyOK(task[t].req, r)
        BY <2>2
      <3> HIDE DEF r
      <3> QED
        BY <2>3, <3>1, StructContinued
    <2> HIDE DEF next, r
    <2>5. task'[t] = next /\ \A u \in Task \ {t} : task'[u] = task[u]
      BY <2>1 DEF Inv, CallsInv
    <2>6. stream' = <<>>
      BY <2>1, <2>2
    <2> QED
      BY <2>4, <2>5, <2>6 DEF StructInv
  <1>4. ASSUME NEW t \in Task, Return(t)
        PROVE  StructInv'
    <2>1. ~Waits(t) /\ task' = [task EXCEPT ![t] = Free] /\ UNCHANGED <<stream, sent>>
      BY <1>4 DEF Return, Finished, serverVars
    <2>2. task'[t] = Free /\ \A u \in Task \ {t} : task'[u] = task[u]
      BY <2>1 DEF Inv, CallsInv
    <2>3. t \notin sent
      BY <2>1, NotSent DEF Inv
    <2> QED
      BY <2>1, <2>2, <2>3, FreeFields DEF StructInv
  <1>5. CASE wire # NoRequest /\ wire.req.svc # "read_fragment" /\ UNCHANGED <<sent, task>>
    <2>1. PICK t \in Task : sent = {t} /\ task[t].req # NoReq /\ wire.req = task[t].req
      BY <1>5, Serving
    <2>2. task[t].op # "struct"
      BY <1>5, <2>1 DEF StructInv, StructCall
    <2> QED
      BY <1>5, <2>1, <2>2 DEF StructInv
  <1>6. CASE Serve /\ Others
    <2>1. CASE ServeTag
      BY <1>6, <2>1, StructServed
    <2>2. CASE ~ServeTag
      <3>1. HasRequest({"multiple"}) \/ HasRequest({"browse"}) \/ HasRequest({"attributes"})
            \/ HasRequest({"definition"})
        BY <1>6, <2>2 DEF Serve, ServePart, RefuseParts, ServeBrowse, ServeAttributes, ServeDefinition
      <3> QED
        BY <1>5, <1>6, <3>1 DEF HasRequest, Others
    <2> QED
      BY <2>1, <2>2
  <1>7. CASE UNCHANGED <<stream, sent, task>>
    BY <1>7 DEF StructInv
  <1>8. Register => UNCHANGED stream
    BY DEF Register, Publish, Announce, RegisterProgram, AddProgramTag
  <1>9. \A req \in ForeignRequest : Foreign(req) => UNCHANGED stream
    BY DEF Foreign
  <1>10. Others => UNCHANGED <<sent, task>>
    BY DEF Others
  <1>11. UNCHANGED vars => UNCHANGED <<stream, sent, task>>
    BY DEF vars, serverVars
  <1> QED
    BY <1>1, <1>2, <1>3, <1>4, <1>6, <1>7, <1>8, <1>9, <1>10, <1>11 DEF Next

\* read_struct returns the bytes of the structure and nothing else
\* (src/README.md:577), of a structure that fits one reply: what the run
\* logix_struct finds is confined to those that come in fragments.
THEOREM StructCorrect ==
  ASSUME PlacesFound, DirectCalls, StructsFit, FewProgramTags
  PROVE  Spec => []StructWhole
  <1>1. Init => StructInv
    BY FreeFields DEF Init, ServerInit, StructInv
  <1>2. Inv /\ DataInv /\ RouteInv /\ StructInv /\ [Next]_vars => StructInv'
    BY StructStays
  <1>3. StructInv => StructWhole
    <2> SUFFICES ASSUME StructInv, NEW t \in Task, task[t].op = "struct", Finished(t)
                 PROVE  /\ Len(task[t].got) = Extent[task[t].addr].size
                        /\ Range(task[t].got) \subseteq Byte
      BY DEF StructWhole
    <2>1. task[t].got \in Seq(Byte) /\ Len(task[t].got) = Extent[task[t].addr].size
      BY DEF StructInv, StructCall, Finished, Waits
    <2> QED
      BY <2>1, RangeOf
  <1>4. Spec => []DataInv
    BY DataAlways
  <1>5. Spec => []RouteInv
    BY RouteAlways
  <1> QED
    BY <1>1, <1>2, <1>3, <1>4, <1>5, Always, PTL DEF Spec

(***************************************************************************)
(* The promise of TagStore.  What a task has asked for, and the answers    *)
(* made so far, as the server's request w and the stream s hold them.      *)
(***************************************************************************)
Given(answer) == [status |-> answer.status, data |-> answer.data]

Mapped(parts) == [i \in DOMAIN parts |-> Given(parts[i])]

PartsFor(w, s, t) ==
    LET own == {i \in DOMAIN s : s[i].task = t}
    IN  IF w.task = t THEN w.parts ELSE IF own # {} THEN s[Min(own)].parts ELSE <<>>

JobIn(req, w, s, t) ==
    IF AsksFor(req) = <<>> THEN [asked |-> <<>>, answers |-> <<>>]
    ELSE [asked |-> AsksFor(req), answers |-> Mapped(PartsFor(w, s, t))]

LEMMA JobIs ==
  ASSUME NEW t \in Task
  PROVE  /\ JobOf(t) = JobIn(task[t].req, wire, stream, t)
         /\ JobOf(t)' = JobIn(task'[t].req, wire', stream', t)
  BY DEF JobOf, JobIn, AnswersOf, Mapped, PartsFor, Given

\* The answers are with the request, or in the one reply there is, or nowhere.
LEMMA PartsAt ==
  ASSUME NEW w, NEW s, NEW t
  PROVE  /\ w.task = t => PartsFor(w, s, t) = w.parts
         /\ w.task # t /\ s = <<>> => PartsFor(w, s, t) = <<>>
         /\ \A r : w.task # t /\ s = <<r>> /\ r.task # t => PartsFor(w, s, t) = <<>>
         /\ \A r : w.task # t /\ s = <<r>> /\ r.task = t => PartsFor(w, s, t) = r.parts
  <1>1. w.task = t => PartsFor(w, s, t) = w.parts
    BY DEF PartsFor
  <1>2. w.task # t /\ s = <<>> => PartsFor(w, s, t) = <<>>
    BY DEF PartsFor
  <1>3. ASSUME NEW r, w.task # t, s = <<r>>
        PROVE  /\ r.task # t => PartsFor(w, s, t) = <<>>
               /\ r.task = t => PartsFor(w, s, t) = r.parts
    <2>1. DOMAIN s = {1} /\ s[1] = r
      BY <1>3
    <2>2. r.task # t => {i \in DOMAIN s : s[i].task = t} = {}
      BY <2>1
    <2>3. r.task = t => {i \in DOMAIN s : s[i].task = t} = {1}
      BY <2>1
    <2>4. Min({1}) = 1
      <3>1. \E x \in {1} : \A y \in {1} : x <= y
        OBVIOUS
      <3> QED
        BY <3>1 DEF Min
    <2> QED
      BY <1>3, <2>1, <2>2, <2>3, <2>4 DEF PartsFor
  <1> QED
    BY <1>1, <1>2, <1>3

LEMMA MappedIs ==
  /\ Mapped(<<>>) = <<>>
  /\ \A answer : Mapped(<<answer>>) = <<Given(answer)>>
  /\ \A parts \in Seq(Answers) :
         /\ Mapped(parts) \in Seq([status : {"ok", "more", "error"}, data : Seq(Byte)])
         /\ Len(Mapped(parts)) = Len(parts)
  /\ \A parts \in Seq(Answers) : \A answer \in Answers :
         Mapped(Append(parts, answer)) = Append(Mapped(parts), Given(answer))
  <1> DEFINE G == [status : {"ok", "more", "error"}, data : Seq(Byte)]
  <1>0. \A answer \in Answers : Given(answer) \in G
    BY DEF Given, Answers
  <1>1. Mapped(<<>>) = <<>>
    BY DEF Mapped
  <1>2. \A answer : Mapped(<<answer>>) = <<Given(answer)>>
    BY DEF Mapped
  <1> HIDE DEF G
  <1>3. ASSUME NEW parts \in Seq(Answers)
        PROVE  Mapped(parts) \in Seq(G) /\ Len(Mapped(parts)) = Len(parts)
    <2>1. DOMAIN parts = 1 .. Len(parts) /\ Len(parts) \in Nat
      OBVIOUS
    <2>2. \A i \in 1 .. Len(parts) : parts[i] \in Answers
      BY ElementIn
    <2>3. Mapped(parts) \in [1 .. Len(parts) -> G]
      BY <1>0, <2>1, <2>2 DEF Mapped
    <2> QED
      BY <2>1, <2>3, MadeSeq
  <1>4. ASSUME NEW parts \in Seq(Answers), NEW answer \in Answers
        PROVE  Mapped(Append(parts, answer)) = Append(Mapped(parts), Given(answer))
    <2> DEFINE more == Append(parts, answer)
               made == Append(Mapped(parts), Given(answer))
    <2>1. /\ more \in Seq(Answers) /\ Len(more) = Len(parts) + 1 /\ Len(parts) \in Nat
          /\ \A i \in 1 .. Len(parts) : more[i] = parts[i]
          /\ more[Len(parts) + 1] = answer
      OBVIOUS
    <2>2. Mapped(parts) \in Seq(G) /\ Len(Mapped(parts)) = Len(parts) /\ Given(answer) \in G
      BY <1>0, <1>3
    <2>3. /\ made \in Seq(G) /\ Len(made) = Len(parts) + 1
          /\ \A i \in 1 .. Len(parts) : made[i] = Mapped(parts)[i]
          /\ made[Len(parts) + 1] = Given(answer)
      BY <2>1, <2>2
    <2> HIDE DEF more, made
    <2>4. Mapped(more) \in Seq(G) /\ Len(Mapped(more)) = Len(parts) + 1
      BY <1>3, <2>1
    <2>5. ASSUME NEW i \in 1 .. Len(parts) + 1
          PROVE  Mapped(more)[i] = made[i]
      <3>1. DOMAIN more = 1 .. Len(parts) + 1 /\ DOMAIN parts = 1 .. Len(parts)
        BY <2>1
      <3>2. Mapped(more)[i] = Given(more[i])
        BY <3>1 DEF Mapped
      <3>3. CASE i \in 1 .. Len(parts)
        <4>1. Mapped(parts)[i] = Given(parts[i])
          BY <3>1, <3>3 DEF Mapped
        <4> QED
          BY <2>1, <2>3, <3>2, <3>3, <4>1
      <3>4. CASE i = Len(parts) + 1
        BY <2>1, <2>3, <3>2, <3>4
      <3> QED
        BY <2>1, <3>3, <3>4
    <2>6. Mapped(more) = made
      BY <2>1, <2>3, <2>4, <2>5
    <2> QED
      BY <2>6 DEF more, made
  <1> QED
    BY <1>1, <1>2, <1>3, <1>4 DEF G

LEMMA AnswersSet ==
  ASSUME NEW asked, NEW answers, NEW job, job = [asked |-> asked, answers |-> answers], NEW more
  PROVE  [job EXCEPT !.answers = more] = [asked |-> asked, answers |-> more]
  OBVIOUS

\* One more answer to what a task has asked for.
LEMMA ApplyMapped ==
  ASSUME NEW t \in Task, NEW asked, NEW answers, NEW answer, NEW S,
         answers \in Seq(S), answer \in S, Len(asked) \in Nat, Len(answers) < Len(asked),
         JobOf(t) = [asked |-> asked, answers |-> answers],
         JobOf(t)' = [asked |-> asked, answers |-> Append(answers, answer)],
         \A u \in Task \ {t} : JobOf(u)' = JobOf(u),
         answer.status = "error" => UNCHANGED mem,
         answer.status # "error" =>
             \/ Store!Get(asked[Len(answers) + 1], answer)
             \/ Store!Put(asked[Len(answers) + 1])
  PROVE  Store!Apply(t)
  <1>1. /\ Len(answers) \in Nat /\ Len(Append(answers, answer)) = Len(answers) + 1
        /\ Append(answers, answer)[Len(answers) + 1] = answer
    OBVIOUS
  <1>2. JobOf(t).asked = asked /\ JobOf(t).answers = answers
    OBVIOUS
  <1>3. JobOf(t)'.asked = asked /\ JobOf(t)'.answers = Append(answers, answer)
    OBVIOUS
  <1>4. ~Store!Complete(t)
    BY <1>1, <1>2 DEF Store!Complete
  <1>5. [u \in Task |-> JobOf(u)]' = [[u \in Task |-> JobOf(u)] EXCEPT ![t].answers = Append(@, answer)]
    <2> DEFINE jobs == [u \in Task |-> JobOf(u)]
               next == [jobs EXCEPT ![t].answers = Append(@, answer)]
    <2>1. DOMAIN next = Task /\ \A u \in Task \ {t} : next[u] = JobOf(u)
      OBVIOUS
    <2>2. next[t] = [JobOf(t) EXCEPT !.answers = Append(JobOf(t).answers, answer)]
      OBVIOUS
    <2>3. [JobOf(t) EXCEPT !.answers = Append(answers, answer)] =
              [asked |-> asked, answers |-> Append(answers, answer)]
      <3> DEFINE mine == JobOf(t)
                 more == Append(answers, answer)
      <3>1. mine = [asked |-> asked, answers |-> answers]
        OBVIOUS
      <3> HIDE DEF mine, more
      <3>2. [mine EXCEPT !.answers = more] = [asked |-> asked, answers |-> more]
        BY <3>1, AnswersSet
      <3> QED
        BY <3>2 DEF mine, more
    <2>4. next[t] = JobOf(t)'
      BY <1>2, <2>2, <2>3
    <2>5. next = [u \in Task |-> next[u]]
      OBVIOUS
    <2> HIDE DEF next
    <2>6. next = [u \in Task |-> JobOf(u)']
      BY <2>1, <2>4, <2>5
    <2> QED
      BY <2>6 DEF next
  <1>6. answer.status = "error" => Store!Refuse
    BY DEF Store!Refuse
  <1> QED
    BY <1>1, <1>2, <1>3, <1>4, <1>5, <1>6 DEF Store!Apply

LEMMA AccessIs ==
  ASSUME NEW req
  PROVE  LET a == AccessOf(req)
             e == Extent[AddressOf(req)]
         IN  /\ a.tag = req.path.root /\ a.off = e.off + req.off
             /\ a.len = req.count * e.size - req.off
             /\ a.put = (req.svc = "write") /\ a.bytes = req.bytes
  BY DEF AccessOf, AddressOf

\* What a read of a direct address finds is what lies there.
LEMMA Got ==
  ASSUME PlacesFound, FewProgramTags, Inv, DataInv, NEW req, TagRequestOK(req),
         Directed(ids, inst, req), Landing(req.path) # Nowhere, req.svc # "write",
         NEW answer, answer = Answer(req), answer.status # "error", UNCHANGED mem
  PROVE  Store!Get(AccessOf(req), Given(answer))
  <1> DEFINE to == Landing(req.path)
             e == Extent[AddressOf(req)]
             a == AccessOf(req)
             total == req.count * to.at.size
  <1>1. /\ to.tag = req.path.root /\ to.at.off = e.off /\ to.at.size = e.size /\ to.at.bit = NoBit
    BY DirectLands
  <1>2. /\ a.tag = req.path.root /\ a.off = e.off + req.off /\ a.len = req.count * e.size - req.off
        /\ a.put = FALSE
    BY AccessIs
  <1>3. to.tag \in Tag /\ to.at.off \in Nat /\ to.at.size \in Nat /\ req.count \in Nat /\ req.off \in Nat
    BY LandingOK DEF Inv, TagRequestOK
  <1>4. answer # Refused /\ (req.svc = "read" => answer = ReadTag(to, req) /\ req.off = 0)
        /\ (req.svc = "read_fragment" => answer = ReadFragment(to, req))
    BY DEF Answer, Refused, Directed
  <1>5. Buffers(mem)
    BY DEF DataInv
  <1>6. total \in Nat
    BY <1>3, Product
  <1> HIDE DEF to, e, a
  <1>7. \E got \in Nat :
            /\ got <= total - req.off
            /\ answer.data = SubSeq(mem[to.tag], to.at.off + req.off + 1, to.at.off + req.off + got)
            /\ Len(answer.data) = got
            /\ answer.status = "ok" => got = total - req.off
    <2>1. CASE req.svc = "read"
      <3>1. PICK got \in 0 .. total :
                /\ answer.data = SubSeq(mem[to.tag], to.at.off + 1, to.at.off + got)
                /\ Len(answer.data) = got
                /\ answer.status = "ok" => got = total
        BY <1>1, <1>3, <1>4, <1>5, <2>1, ReadTagGives
      <3> HIDE DEF total
      <3>2. /\ to.at.off + req.off + 1 = to.at.off + 1 /\ to.at.off + req.off + got = to.at.off + got
            /\ total - req.off = total /\ got \in Nat /\ got <= total
        BY <1>3, <1>4, <1>6, <2>1
      <3> WITNESS got \in Nat
      <3> QED
        BY <3>1, <3>2
    <2>2. CASE req.svc = "read_fragment"
      <3>1. PICK got \in 0 .. total - req.off :
                /\ answer.data = SubSeq(mem[to.tag], to.at.off + req.off + 1, to.at.off + req.off + got)
                /\ Len(answer.data) = got
                /\ answer.status = "ok" <=> req.off + got = total
        BY <1>1, <1>3, <1>4, <1>5, <2>2, ReadFragmentGives
      <3> HIDE DEF total
      <3>2. (answer.status = "ok" => got = total - req.off) /\ got \in Nat /\ got <= total - req.off
        BY <1>3, <1>6, <3>1
      <3> WITNESS got \in Nat
      <3> QED
        BY <3>1, <3>2
    <2> QED
      BY <2>1, <2>2 DEF Directed
  <1>8. /\ Given(answer).data = answer.data /\ Given(answer).status = answer.status
        /\ a.len = total - req.off /\ a.off = to.at.off + req.off /\ a.tag = to.tag /\ ~a.put
    BY <1>1, <1>2 DEF Given
  <1>9. /\ answer.status = "ok" => Len(answer.data) = a.len
        /\ Len(answer.data) <= a.len
        /\ answer.data = SubSeq(mem[a.tag], a.off + 1, a.off + Len(answer.data))
    <2> HIDE DEF total
    <2> QED
      BY <1>7, <1>8
  <1>10. Store!Get(a, Given(answer))
    BY <1>8, <1>9 DEF Store!Get
  <1> QED
    BY <1>10 DEF a

\* What a write of a direct address sets is what lies there, and no more.
LEMMA Written ==
  ASSUME PlacesFound, FewProgramTags, Inv, DataInv, NEW req, TagRequestOK(req),
         Directed(ids, inst, req), ~IsRefused(Landing(req.path), req), req.svc = "write",
         mem' = MemAfter(req)
  PROVE  Store!Put(AccessOf(req))
  <1> DEFINE to == Landing(req.path)
             e == Extent[AddressOf(req)]
             a == AccessOf(req)
             bytes == req.bytes
  <1>1. to # Nowhere /\ ~WriteRefused(to, req)
    BY DEF IsRefused
  <1>2. to.tag = req.path.root /\ to.at.off = e.off /\ to.at.size = e.size /\ to.at.bit = NoBit
    BY <1>1, DirectLands
  <1>3. to.tag \in Tag /\ to.at.off \in Nat /\ to.at.size \in Nat /\ bytes \in Seq(Byte)
    BY <1>1, LandingOK DEF Inv, TagRequestOK
  <1>4. /\ a.tag = req.path.root /\ a.off = e.off + req.off /\ a.put = TRUE /\ a.bytes = bytes
        /\ req.off = 0 /\ Len(bytes) = req.count * e.size
    BY AccessIs DEF Directed
  <1>5. mem' = WriteTag(to, req)
    BY DEF MemAfter
  <1> HIDE DEF to, e, a, bytes
  <1>6. mem' = SetData(to.tag, to.at.off, bytes)
    <2> DEFINE len == req.count * to.at.size
               put == SubSeq(req.bytes, 1, len)
    <2>1. /\ WriteTag(to, req) = SetData(to.tag, to.at.off, put)
          /\ len = Len(req.bytes) => put = req.bytes
      BY <1>1, <1>2, <1>3, WrittenBytes
    <2>2. len = Len(req.bytes)
      BY <1>2, <1>4 DEF bytes
    <2>3. put = bytes
      BY <2>1, <2>2 DEF bytes
    <2> HIDE DEF put, len
    <2> QED
      BY <1>5, <2>1, <2>3
  <1>7. /\ SetData(to.tag, to.at.off, bytes)[to.tag] = Overlaid(mem[to.tag], to.at.off, bytes)
        /\ SetData(to.tag, to.at.off, bytes) =
               [mem EXCEPT ![to.tag] = SetData(to.tag, to.at.off, bytes)[to.tag]]
    BY <1>3, SetDataAt DEF DataInv
  <1>8. a.tag = to.tag /\ a.off = to.at.off /\ a.put
    BY <1>2, <1>3, <1>4
  <1>9. Store!Written(mem[a.tag], a) = SetData(to.tag, to.at.off, bytes)[to.tag]
    BY <1>4, <1>7, <1>8 DEF Store!Written, Overlaid
  <1>10. mem' = [mem EXCEPT ![a.tag] = Store!Written(mem[a.tag], a)]
    BY <1>6, <1>7, <1>8, <1>9
  <1>11. Store!Put(a)
    BY <1>8, <1>10 DEF Store!Put
  <1> QED
    BY <1>11 DEF a

LEMMA Served ==
  ASSUME PlacesFound, FewProgramTags, Inv, DataInv, NEW req, TagRequestOK(req),
         Directed(ids, inst, req), mem' = MemAfter(req), NEW answer, answer = Answer(req)
  PROVE  /\ answer.status = "error" => UNCHANGED mem
         /\ answer.status # "error" =>
                Store!Get(AccessOf(req), Given(answer)) \/ Store!Put(AccessOf(req))
  <1> DEFINE to == Landing(req.path)
  <1>1. Refused.status = "error" /\ Done.status = "ok"
    BY DEF Refused, Done
  <1>2. CASE IsRefused(to, req)
    BY <1>1, <1>2 DEF Answer, MemAfter
  <1>3. CASE ~IsRefused(to, req) /\ req.svc = "write"
    BY <1>1, <1>3, Written DEF Answer
  <1>4. CASE ~IsRefused(to, req) /\ req.svc # "write"
    <2>1. UNCHANGED mem
      BY <1>4 DEF MemAfter, Directed
    <2>2. to # Nowhere
      BY <1>4 DEF IsRefused
    <2> HIDE DEF to
    <2> QED
      BY <1>4, <2>1, <2>2, Got DEF to
  <1> QED
    BY <1>2, <1>3, <1>4

\* Between a call and its request, and behind its reply, a task has no answers.
LEMMA NothingFor ==
  ASSUME Inv, DataInv, NEW t \in Task, t \notin sent
  PROVE  PartsFor(wire, stream, t) = <<>>
  <1>1. CASE wire # NoRequest
    <2>1. PICK u \in Task : sent = {u} /\ stream = <<>> /\ wire.task = u
      BY <1>1, Serving
    <2> QED
      BY <2>1, PartsAt
  <1>2. CASE wire = NoRequest
    <2>1. wire.task # t
      BY <1>2, TaskAssumption DEF NoRequest
    <2>2. CASE stream = <<>>
      BY <2>1, <2>2, PartsAt
    <2>3. CASE stream # <<>>
      <3>1. PICK u \in sent : Asked(u) \/ Answered(u)
        BY <2>3 DEF Inv, ExchangeInv
      <3>2. stream = << stream[1] >> /\ stream[1].task = u /\ u # t
        BY <2>3, <3>1 DEF Asked, Answered, DataInv, ReplyInv
      <3> QED
        BY <2>1, <3>2, PartsAt
    <2> QED
      BY <2>2, <2>3
  <1> QED
    BY <1>1, <1>2

LEMMA AnswersIn ==
  ASSUME NEW req, NEW w, NEW s, NEW t, PartsFor(w, s, t) = <<>>
  PROVE  JobIn(req, w, s, t) = [asked |-> AsksFor(req), answers |-> <<>>]
  BY MappedIs DEF JobIn

LEMMA SameJob ==
  ASSUME NEW t \in Task, task'[t].req = task[t].req,
         PartsFor(wire', stream', t) = PartsFor(wire, stream, t)
  PROVE  JobOf(t)' = JobOf(t)
  BY JobIs DEF JobIn

LEMMA StutterStore ==
  ASSUME UNCHANGED mem, \A t \in Task : JobOf(t)' = JobOf(t)
  PROVE  UNCHANGED Store!vars
  BY DEF Store!vars

\* What does not ask for an access.
LEMMA NoAsks ==
  ASSUME NEW req, req.svc \notin TagService, req.svc # "multiple"
  PROVE  AsksFor(req) = <<>>
  BY DEF AsksFor

LEMMA StoreStart ==
  ASSUME Inv, DataInv, NEW t \in Task, NEW c \in Calls[t], Start(t, c)
  PROVE  Store!Call(t)
  <1> DEFINE st == [First(c) EXCEPT !.op = c.op]
  <1>1. task[t] = Free /\ task' = [task EXCEPT ![t] = st] /\ UNCHANGED <<mem, wire, stream, sent>>
    BY DEF Start, serverVars
  <1> HIDE DEF st
  <1>2. task'[t] = st /\ \A u \in Task \ {t} : task'[u] = task[u]
    BY <1>1 DEF Inv, CallsInv
  <1>3. t \notin sent /\ task[t].req = NoReq
    BY <1>1, FreeFields, NotSent DEF Inv, Waits
  <1>4. PartsFor(wire, stream, t) = <<>>
    BY <1>3, NothingFor
  <1>5. AsksFor(task[t].req) = <<>>
    BY <1>3, NoAsks DEF NoReq, TagService
  <1>6. JobOf(t).asked = <<>> /\ JobOf(t).answers = <<>>
    BY <1>4, <1>5, AnswersIn, JobIs
  <1>7. JobOf(t)'.answers = <<>>
    BY <1>1, <1>4, AnswersIn, JobIs
  <1>8. \A u \in Task \ {t} : JobOf(u)' = JobOf(u)
    BY <1>1, <1>2, SameJob
  <1> QED
    BY <1>1, <1>6, <1>7, <1>8 DEF Store!Call, Store!Complete

LEMMA StoreSend ==
  ASSUME Inv, DataInv, NEW t \in Task, Send(t)
  PROVE  UNCHANGED Store!vars
  <1>1. /\ Holds(t) /\ t \notin sent /\ wire' = [task |-> t, req |-> task[t].req, parts |-> <<>>]
        /\ UNCHANGED <<mem, stream, task>>
    BY DEF Send
  <1>2. stream = <<>> /\ sent = {}
    BY <1>1 DEF Inv, LineInv, Holds, ExchangeInv
  <1>3. wire'.task = t /\ wire'.parts = <<>>
    BY <1>1
  <1>4. ASSUME NEW u \in Task
        PROVE  JobOf(u)' = JobOf(u)
    <2>1. PartsFor(wire, stream, u) = <<>>
      BY <1>2, NothingFor
    <2>2. PartsFor(wire', stream', u) = <<>>
      BY <1>1, <1>2, <1>3, PartsAt
    <2> QED
      BY <1>1, <2>1, <2>2, SameJob
  <1> QED
    BY <1>1, <1>4, StutterStore

LEMMA StoreReturn ==
  ASSUME Inv, DataInv, NEW t \in Task, Return(t)
  PROVE  UNCHANGED Store!vars
  <1>1. /\ ~Waits(t) /\ task' = [task EXCEPT ![t] = Free] /\ UNCHANGED <<mem, wire, stream>>
    BY DEF Return, Finished, serverVars
  <1>2. task'[t] = Free /\ \A u \in Task \ {t} : task'[u] = task[u]
    BY <1>1 DEF Inv, CallsInv
  <1>3. \A u \in Task : task'[u].req = task[u].req
    BY <1>1, <1>2, FreeFields DEF Waits
  <1>4. \A u \in Task : JobOf(u)' = JobOf(u)
    BY <1>1, <1>3, SameJob
  <1> QED
    BY <1>1, <1>4, StutterStore

\* A step of the server for one task changes nothing for the others.
LEMMA OthersKept ==
  ASSUME Inv, DataInv, NEW t \in Task, sent = {t}, UNCHANGED task,
         \/ wire'.task = t /\ stream' = <<>>
         \/ wire' = NoRequest /\ \E r : stream' = <<r>> /\ r.task = t
  PROVE  \A u \in Task \ {t} : JobOf(u)' = JobOf(u)
  <1> SUFFICES ASSUME NEW u \in Task \ {t}
               PROVE  JobOf(u)' = JobOf(u)
    OBVIOUS
  <1>1. PartsFor(wire, stream, u) = <<>>
    BY NothingFor
  <1>2. PartsFor(wire', stream', u) = <<>>
    <2>1. CASE wire'.task = t /\ stream' = <<>>
      BY <2>1, PartsAt
    <2>2. CASE wire' = NoRequest /\ \E r : stream' = <<r>> /\ r.task = t
      <3>1. wire'.task # u
        BY <2>2, TaskAssumption DEF NoRequest
      <3> QED
        BY <2>2, <3>1, PartsAt
    <2> QED
      BY <2>1, <2>2
  <1> QED
    BY <1>1, <1>2, SameJob

\* With a reply the task has the answers in it.
LEMMA RepliesGive ==
  ASSUME Inv, DataInv, NEW t \in Task, sent = {t}, stream = <<>>, wire.task = t, UNCHANGED task,
         NEW parts, NEW status, Replies(parts, status)
  PROVE  /\ \A u \in Task \ {t} : JobOf(u)' = JobOf(u)
         /\ PartsFor(wire', stream', t) = parts
  <1> DEFINE r == Reply(parts, status)
  <1>1. stream' = <<r>> /\ wire' = NoRequest /\ r.task = t /\ r.parts = parts
    BY DEF Replies, Reply
  <1> HIDE DEF r
  <1>2. wire'.task # t
    BY <1>1, TaskAssumption DEF NoRequest
  <1> QED
    BY <1>1, <1>2, OthersKept, PartsAt

LEMMA StoreServeTag ==
  ASSUME PlacesFound, FewProgramTags, Inv, DataInv, RouteInv, ServeTag, Others
  PROVE  \E t \in Task : Store!Apply(t)
  <1> DEFINE req == wire.req
             answer == Answer(req)
             given == Given(answer)
             asked == <<AccessOf(req)>>
             none == <<>>
  <1>1. /\ wire # NoRequest /\ req.svc \in TagService /\ Replies(<<answer>>, answer.status)
        /\ mem' = MemAfter(req) /\ UNCHANGED <<sent, task>>
    BY DEF ServeTag, HasRequest, Others
  <1>2. PICK t \in Task :
            /\ sent = {t} /\ stream = <<>> /\ wire.task = t /\ req = task[t].req
            /\ RequestOK(req) /\ PartsOK(req, wire.parts)
    BY <1>1, Serving
  <1>3. TagRequestOK(req) /\ Directed(ids, inst, req)
    BY <1>1, <1>2, TagRequestIs DEF RouteInv, AllDirected
  <1>4. given.status = answer.status
    BY DEF Given
  <1>5. /\ given.status = "error" => UNCHANGED mem
        /\ given.status # "error" => \/ Store!Get(asked[Len(none) + 1], given)
                                     \/ Store!Put(asked[Len(none) + 1])
    <2>1. asked[Len(none) + 1] = AccessOf(req)
      OBVIOUS
    <2> HIDE DEF asked, none, given
    <2>2. /\ given.status = "error" => UNCHANGED mem
          /\ given.status # "error" => Store!Get(AccessOf(req), given) \/ Store!Put(AccessOf(req))
      BY <1>1, <1>3, <1>4, Served DEF given
    <2> QED
      BY <2>1, <2>2
  <1>6. AsksFor(req) = asked /\ asked # <<>>
    BY <1>1 DEF AsksFor, TagService
  <1>7. wire.parts = <<>>
    BY <1>1, <1>2 DEF PartsOK, TagService
  <1>8. \A u \in Task \ {t} : JobOf(u)' = JobOf(u)
    BY <1>1, <1>2, RepliesGive
  <1>9. JobOf(t) = [asked |-> asked, answers |-> none]
    BY <1>2, <1>6, <1>7, JobIs, AnswersIn, PartsAt
  <1>10. JobOf(t)' = [asked |-> asked, answers |-> Append(none, given)]
    <2>1. PartsFor(wire', stream', t) = <<answer>>
      BY <1>1, <1>2, RepliesGive
    <2>2. Mapped(<<answer>>) = Append(none, given)
      BY MappedIs
    <2>3. task'[t].req = req
      BY <1>1, <1>2
    <2> HIDE DEF asked, none, given, answer, req
    <2> QED
      BY <1>6, <2>1, <2>2, <2>3, JobIs DEF JobIn
  <1>11. none \in Seq({given}) /\ Len(asked) \in Nat /\ Len(none) < Len(asked)
    OBVIOUS
  <1> HIDE DEF asked, none, given
  <1>12. Store!Apply(t)
    BY <1>5, <1>8, <1>9, <1>10, <1>11, ApplyMapped
  <1> QED
    BY <1>12

LEMMA StoreServePart ==
  ASSUME PlacesFound, FewProgramTags, Inv, DataInv, RouteInv, ServePart, Others
  PROVE  \E t \in Task : Store!Apply(t)
  <1> DEFINE req == wire.req
             k == Len(wire.parts) + 1
             sub == req.subs[k]
             answer == Answer(sub)
             given == Given(answer)
             parts == Append(wire.parts, answer)
             asked == [i \in DOMAIN req.subs |-> AccessOf(req.subs[i])]
             answers == Mapped(wire.parts)
             G == [status : {"ok", "more", "error"}, data : Seq(Byte)]
  <1>1. /\ wire # NoRequest /\ req.svc = "multiple" /\ mem' = MemAfter(sub)
        /\ UNCHANGED <<sent, task>>
        /\ Replies(parts, "ok") \/ (wire' = [wire EXCEPT !.parts = parts] /\ UNCHANGED stream)
    BY DEF ServePart, HasRequest, Others
  <1>2. PICK t \in Task :
            /\ sent = {t} /\ stream = <<>> /\ wire.task = t /\ req = task[t].req
            /\ wire = [task |-> t, req |-> task[t].req, parts |-> wire.parts]
            /\ RequestOK(req) /\ PartsOK(req, wire.parts)
    BY <1>1, Serving
  <1>3. /\ k \in 1 .. Len(req.subs) /\ Len(req.subs) \in Nat /\ TagRequestOK(sub)
        /\ wire.parts \in Seq(Answers) /\ Len(wire.parts) \in Nat
    BY <1>1, <1>2, NextPart
  <1>4. Directed(ids, inst, sub)
    BY <1>1, <1>2, <1>3 DEF RouteInv, AllDirected
  <1>5. answer \in Answers
    BY <1>3, AnswerOK DEF Inv, DataInv
  <1>6. DOMAIN req.subs = 1 .. Len(req.subs) /\ req.subs # <<>>
    <2>1. DOMAIN req.subs = 1 .. Len(req.subs) /\ Len(req.subs) \in Nat \ {0}
      BY <1>1, <1>2 DEF RequestOK
    <2> QED
      BY <2>1
  <1>7. /\ answers \in Seq(G) /\ Len(answers) = Len(wire.parts) /\ given \in G
        /\ Mapped(parts) = Append(answers, given)
    <2>1. given \in G
      BY <1>5 DEF Given, Answers
    <2> QED
      BY <1>3, <1>5, <2>1, MappedIs
  <1>8. Len(asked) = Len(req.subs) /\ asked[k] = AccessOf(sub) /\ asked # <<>>
    <2>1. \A i \in 1 .. Len(req.subs) : asked[i] = AccessOf(req.subs[i])
      BY <1>6
    <2>2. asked \in [1 .. Len(req.subs) -> {AccessOf(req.subs[i]) : i \in 1 .. Len(req.subs)}]
      BY <1>6
    <2> HIDE DEF asked
    <2>3. Len(asked) = Len(req.subs)
      BY <1>3, <2>2, MadeSeq
    <2>4. asked # <<>>
      BY <1>3, <2>3
    <2> QED
      BY <1>3, <2>1, <2>3, <2>4
  <1>9. AsksFor(req) = asked
    BY <1>1 DEF AsksFor, TagService
  <1>10. PartsFor(wire, stream, t) = wire.parts
    BY <1>2, PartsAt
  <1>11. /\ \A u \in Task \ {t} : JobOf(u)' = JobOf(u)
         /\ PartsFor(wire', stream', t) = parts
    <2>1. CASE Replies(parts, "ok")
      BY <1>1, <1>2, <2>1, RepliesGive
    <2>2. CASE wire' = [wire EXCEPT !.parts = parts] /\ UNCHANGED stream
      <3> HIDE DEF parts
      <3>1. wire'.task = t /\ wire'.parts = parts
        BY <1>2, <2>2
      <3> QED
        BY <1>1, <1>2, <2>2, <3>1, OthersKept, PartsAt
    <2> QED
      BY <1>1, <2>1, <2>2
  <1>12. given.status = answer.status
    BY DEF Given
  <1>13. /\ given.status = "error" => UNCHANGED mem
         /\ given.status # "error" => \/ Store!Get(asked[Len(answers) + 1], given)
                                      \/ Store!Put(asked[Len(answers) + 1])
    <2>1. asked[Len(answers) + 1] = AccessOf(sub)
      BY <1>7, <1>8
    <2>2. /\ answer.status = "error" => UNCHANGED mem
          /\ answer.status # "error" => Store!Get(AccessOf(sub), given) \/ Store!Put(AccessOf(sub))
      BY <1>1, <1>3, <1>4, Served
    <2> HIDE DEF asked, answers, given, sub, answer
    <2> QED
      BY <1>12, <2>1, <2>2
  <1>14. task'[t].req = req /\ task[t].req = req
    BY <1>1, <1>2
  <1> HIDE DEF asked, answers, given, parts, G, answer, sub, req
  <1>15. JobOf(t) = [asked |-> asked, answers |-> answers]
    BY <1>8, <1>9, <1>10, <1>14, JobIs DEF JobIn, answers
  <1>16. JobOf(t)' = [asked |-> asked, answers |-> Append(answers, given)]
    BY <1>7, <1>8, <1>9, <1>11, <1>14, JobIs DEF JobIn
  <1>17. Len(asked) \in Nat /\ Len(answers) < Len(asked)
    BY <1>3, <1>7, <1>8
  <1>18. Store!Apply(t)
    BY <1>7, <1>11, <1>13, <1>15, <1>16, <1>17, ApplyMapped
  <1> QED
    BY <1>18

\* Services that ask for no access, and packets of too many services.
LEMMA StoreServeOther ==
  ASSUME Inv, DataInv, wire # NoRequest, wire.req.svc \notin TagService,
         wire.req.svc = "multiple" => wire.parts = <<>>,
         NEW parts, NEW status, Replies(parts, status),
         wire.req.svc = "multiple" => parts = <<>>,
         UNCHANGED <<mem, task>>
  PROVE  UNCHANGED Store!vars
  <1>1. PICK t \in Task : sent = {t} /\ stream = <<>> /\ wire.task = t /\ wire.req = task[t].req
    BY Serving
  <1>2. /\ \A u \in Task \ {t} : JobOf(u)' = JobOf(u)
        /\ PartsFor(wire', stream', t) = parts
    BY <1>1, RepliesGive
  <1>3. JobOf(t)' = JobOf(t)
    <2>1. CASE wire.req.svc = "multiple"
      <3>1. PartsFor(wire, stream, t) = <<>>
        BY <1>1, <2>1, PartsAt
      <3> QED
        BY <1>2, <2>1, <3>1, SameJob
    <2>2. CASE wire.req.svc # "multiple"
      <3>1. AsksFor(task[t].req) = <<>> /\ task'[t].req = task[t].req
        BY <1>1, <2>2, NoAsks
      <3> QED
        BY <3>1, JobIs DEF JobIn
    <2> QED
      BY <2>1, <2>2
  <1> QED
    BY <1>2, <1>3, StutterStore

LEMMA StoreServe ==
  ASSUME PlacesFound, FewProgramTags, Inv, DataInv, RouteInv, Serve, Others
  PROVE  Store!Next \/ UNCHANGED Store!vars
  <1>0. UNCHANGED task
    BY DEF Others
  <1>1. CASE ServeTag
    BY <1>1, StoreServeTag DEF Store!Next
  <1>2. CASE ServePart
    BY <1>2, StoreServePart DEF Store!Next
  <1>3. CASE RefuseParts
    <2>1. /\ wire # NoRequest /\ wire.req.svc = "multiple" /\ Len(wire.req.subs) > MaxServices
          /\ Replies(<<>>, "error") /\ UNCHANGED mem
      BY <1>3 DEF RefuseParts, HasRequest
    <2>2. wire.parts = <<>>
      BY <2>1, Serving DEF PartsOK
    <2> QED
      BY <1>0, <2>1, <2>2, StoreServeOther DEF TagService
  <1>4. CASE ServeBrowse
    <2>1. HasRequest({"browse"}) /\ UNCHANGED mem /\ \E parts, status : Replies(parts, status)
      BY <1>4 DEF ServeBrowse
    <2> QED
      BY <1>0, <2>1, StoreServeOther DEF HasRequest, TagService
  <1>5. CASE ServeAttributes
    <2>1. HasRequest({"attributes"}) /\ UNCHANGED mem /\ \E parts, status : Replies(parts, status)
      BY <1>5 DEF ServeAttributes
    <2> QED
      BY <1>0, <2>1, StoreServeOther DEF HasRequest, TagService
  <1>6. CASE ServeDefinition
    <2>1. HasRequest({"definition"}) /\ UNCHANGED mem /\ \E parts, status : Replies(parts, status)
      BY <1>6 DEF ServeDefinition
    <2> QED
      BY <1>0, <2>1, StoreServeOther DEF HasRequest, TagService
  <1> QED
    BY <1>1, <1>2, <1>3, <1>4, <1>5, <1>6 DEF Serve

\* A Multiple_Service_Packet is all there is to its call.
LEMMA PacketEnds ==
  ASSUME NEW st, CallOK(ids, pids, program, inst, st), CallData(st), st.req.svc = "multiple", NEW r
  PROVE  Continued(st, r) = Free
  <1>1. st.stage = "none"
    <2>1. st.stage # "none" => st.req.svc # "multiple"
      BY StageRequest
    <2> QED
      BY <2>1
  <1>2. st.op # "struct"
    BY DEF CallData, IsFragment, NoReq
  <1> QED
    BY <1>1, <1>2 DEF Continued

LEMMA StoreReceive ==
  ASSUME Inv, DataInv, NEW t \in Task, Receive(t)
  PROVE  Store!Call(t) \/ Store!Reject(t)
  <1> DEFINE r == Head(stream)
             req == task[t].req
             next == Continued(task[t], r)
             asked == AsksFor(req)
             answers == Mapped(r.parts)
  <1>1. task' = [task EXCEPT ![t] = next] /\ stream' = Tail(stream) /\ UNCHANGED <<mem, wire>>
    BY DEF Receive
  <1>2. /\ stream = <<r>> /\ wire = NoRequest /\ sent = {t} /\ r.task = t /\ ReplyOK(req, r)
        /\ CallOK(ids, pids, program, inst, task[t]) /\ CallData(task[t])
    BY Reading
  <1>3. wire.task \notin Task
    BY <1>2, TaskAssumption DEF NoRequest
  <1>4. req.svc = "multiple" => next = Free
    BY <1>2, PacketEnds
  <1> HIDE DEF r, next
  <1>5. task'[t] = next /\ \A u \in Task \ {t} : task'[u] = task[u]
    BY <1>1 DEF Inv, CallsInv
  <1>6. stream' = <<>>
    BY <1>1, <1>2
  <1>7. \A u \in Task : PartsFor(wire', stream', u) = <<>>
    BY <1>1, <1>3, <1>6, PartsAt
  <1>8. \A u \in Task \ {t} : JobOf(u)' = JobOf(u)
    <2> SUFFICES ASSUME NEW u \in Task \ {t}
                 PROVE  JobOf(u)' = JobOf(u)
      OBVIOUS
    <2>1. PartsFor(wire, stream, u) = <<>>
      BY <1>2, NothingFor
    <2> QED
      BY <1>5, <1>7, <2>1, SameJob
  <1>9. JobOf(t)' = [asked |-> AsksFor(next.req), answers |-> <<>>]
    BY <1>5, <1>7, JobIs, AnswersIn
  <1>10. JobOf(t) = IF asked = <<>> THEN [asked |-> <<>>, answers |-> <<>>]
                    ELSE [asked |-> asked, answers |-> answers]
    BY <1>2, <1>3, JobIs, PartsAt DEF JobIn
  <1>11. CASE req.svc = "multiple" /\ r.parts = <<>>
    <2>1. answers = <<>>
      BY <1>11, MappedIs
    <2>2. JobOf(t).answers = <<>>
      BY <1>10, <2>1
    <2>3. AsksFor(next.req) = <<>>
      BY <1>4, <1>11, FreeFields, NoAsks DEF NoReq, TagService
    <2>4. [u \in Task |-> JobOf(u)]' = [[u \in Task |-> JobOf(u)] EXCEPT ![t] = Store!NoJob]
      BY <1>8, <1>9, <2>3 DEF Store!NoJob
    <2> QED
      BY <1>1, <2>2, <2>4 DEF Store!Reject
  <1>12. CASE ~(req.svc = "multiple" /\ r.parts = <<>>)
    <2>1. asked # <<>> => Len(answers) = Len(asked)
      <3>1. CASE req.svc \in TagService
        <4>1. PICK answer \in Answers : r.parts = <<answer>>
          BY <1>2, <3>1 DEF ReplyOK
        <4>2. answers = <<Given(answer)>>
          BY <4>1, MappedIs
        <4>3. asked = <<AccessOf(req)>>
          BY <3>1 DEF AsksFor, TagService
        <4> HIDE DEF answers, asked
        <4> QED
          BY <4>2, <4>3
      <3>2. CASE req.svc = "multiple"
        <4>1. r.parts \in Seq(Answers) /\ Len(r.parts) = Len(req.subs)
          BY <1>2, <1>12, <3>2 DEF ReplyOK
        <4>2. Len(answers) = Len(req.subs)
          BY <4>1, MappedIs
        <4>3. Len(req.subs) \in Nat /\ DOMAIN req.subs = 1 .. Len(req.subs)
          BY <1>2, <3>2 DEF CallData, RequestOK
        <4>4. asked \in [1 .. Len(req.subs) -> {AccessOf(req.subs[i]) : i \in 1 .. Len(req.subs)}]
          BY <3>2, <4>3 DEF AsksFor, TagService
        <4> HIDE DEF answers, asked
        <4>5. Len(asked) = Len(req.subs)
          BY <4>3, <4>4, MadeSeq
        <4> QED
          BY <4>2, <4>5
      <3>3. CASE req.svc \notin TagService /\ req.svc # "multiple"
        BY <3>3, NoAsks
      <3> QED
        BY <3>1, <3>2, <3>3
    <2> HIDE DEF asked, answers
    <2>2. Len(JobOf(t).answers) = Len(JobOf(t).asked)
      BY <1>10, <2>1
    <2>3. JobOf(t)'.answers = <<>>
      BY <1>9
    <2> QED
      BY <1>1, <1>8, <2>2, <2>3 DEF Store!Call, Store!Complete
  <1> QED
    BY <1>11, <1>12

LEMMA StoreSteps ==
  ASSUME PlacesFound, FewProgramTags
  PROVE  Inv /\ DataInv /\ RouteInv /\ [Next]_vars => [Store!Next]_Store!vars
  <1> SUFFICES ASSUME Inv, DataInv, RouteInv, [Next]_vars
               PROVE  Store!Next \/ UNCHANGED Store!vars
    OBVIOUS
  <1>1. ASSUME NEW t \in Task, NEW c \in Calls[t], Start(t, c)
        PROVE  Store!Next
    BY <1>1, StoreStart DEF Store!Next
  <1>2. ASSUME NEW t \in Task, Send(t) \/ Return(t)
        PROVE  UNCHANGED Store!vars
    BY <1>2, StoreSend, StoreReturn
  <1>3. ASSUME NEW t \in Task, Receive(t)
        PROVE  Store!Next
    BY <1>3, StoreReceive DEF Store!Next
  <1>4. CASE Serve /\ Others
    BY <1>4, StoreServe
  <1>5. UNCHANGED <<wire, stream, task>> => \A t \in Task : JobOf(t)' = JobOf(t)
    BY SameJob
  <1>6. CASE Register /\ Others
    <2>1. UNCHANGED <<mem, wire, stream, task>>
      BY <1>6 DEF Register, Publish, Announce, RegisterProgram, AddProgramTag, Others
    <2> QED
      BY <1>5, <2>1, StutterStore
  <1>7. ASSUME NEW req \in ForeignRequest, Foreign(req), Others
        PROVE  Store!Next
    <2>1. UNCHANGED <<wire, stream, task>>
      BY <1>7 DEF Foreign, Others
    <2>2. UNCHANGED [t \in Task |-> JobOf(t)]
      BY <1>5, <2>1
    <2> QED
      BY <2>2 DEF Store!Next, Store!Foreign
  <1>8. CASE UNCHANGED vars
    <2>1. UNCHANGED <<mem, wire, stream, task>>
      BY <1>8 DEF vars, serverVars
    <2> QED
      BY <1>5, <2>1, StutterStore
  <1> QED
    BY <1>1, <1>2, <1>3, <1>4, <1>6, <1>7, <1>8 DEF Next

\* TagClient implements TagStore: each access of a call for controller tags
\* and their elements is applied once, in its order, to the bytes its name
\* stands for, whether the path gives the name or a cached id, and its answer
\* goes to the task that asked (README.md:99, tag_client.py and tag_services.py).
THEOREM StoreImplemented ==
  ASSUME PlacesFound, DirectCalls, FewProgramTags
  PROVE  Spec => ImplementsStore
  <1>1. Init => Store!Init
    <2> SUFFICES ASSUME Init
                 PROVE  Store!Init
      OBVIOUS
    <2>1. ASSUME NEW t \in Task
          PROVE  JobOf(t) = Store!NoJob
      <3>1. task[t].req = NoReq
        BY FreeFields DEF Init
      <3>2. AsksFor(task[t].req) = <<>>
        BY <3>1, NoAsks DEF NoReq, TagService
      <3> QED
        BY <3>2 DEF JobOf, Store!NoJob
    <2> QED
      BY <2>1 DEF Store!Init
  <1>2. Inv /\ DataInv /\ RouteInv /\ [Next]_vars => [Store!Next]_Store!vars
    BY StoreSteps
  <1>3. Spec => []DataInv
    BY DataAlways
  <1>4. Spec => []RouteInv
    BY RouteAlways
  <1> QED
    BY <1>1, <1>2, <1>3, <1>4, Always, PTL DEF Spec, ImplementsStore, Store!Spec

(***************************************************************************)
(* The layout of a template.  That a fold over the members keeps what each *)
(* step keeps is an induction, which TLC makes for the lists of            *)
(* LayoutSound; the step is proved for members of any size and number.     *)
(***************************************************************************)
\* The members have room of their own before the end, those whose alignment is
\* a power of two at a multiple of it.
LaidOut(acc) ==
    /\ acc.end \in Nat
    /\ acc.members \in Seq([off : Nat, size : Nat, count : Nat])
    /\ \A i \in 1 .. Len(acc.members) :
           LET at == acc.members[i]
           IN  /\ Alignment(at.size) \in PowerOfTwo => at.off % Alignment(at.size) = 0
               /\ at.off + at.size * at.count <= acc.end
               /\ \A j \in 1 .. Len(acc.members) :
                      i < j => at.off + at.size * at.count <= acc.members[j].off

LEMMA LastOrBefore == \A n \in Nat : \A j \in 1 .. n + 1 : j = n + 1 \/ j \in 1 .. n
  OBVIOUS

LEMMA RoundUpIs ==
  ASSUME NEW n \in Nat, NEW unit \in 1 .. 8
  PROVE  /\ RoundUp(n, unit) \in Nat /\ RoundUp(n, unit) >= n /\ RoundUp(n, unit) < n + unit
         /\ unit \in PowerOfTwo => RoundUp(n, unit) % unit = 0
  <1>1. CASE unit = 1
    BY <1>1 DEF RoundUp, Masked, HasBit, PowerOfTwo
  <1>2. CASE unit = 2
    BY <1>2 DEF RoundUp, Masked, HasBit, PowerOfTwo
  <1>3. CASE unit = 3
    BY <1>3 DEF RoundUp, Masked, HasBit, PowerOfTwo
  <1>4. CASE unit = 4
    BY <1>4 DEF RoundUp, Masked, HasBit, PowerOfTwo
  <1>5. CASE unit = 5
    BY <1>5 DEF RoundUp, Masked, HasBit, PowerOfTwo
  <1>6. CASE unit = 6
    BY <1>6 DEF RoundUp, Masked, HasBit, PowerOfTwo
  <1>7. CASE unit = 7
    BY <1>7 DEF RoundUp, Masked, HasBit, PowerOfTwo
  <1>8. CASE unit = 8
    BY <1>8 DEF RoundUp, Masked, HasBit, PowerOfTwo
  <1> QED
    BY <1>1, <1>2, <1>3, <1>4, <1>5, <1>6, <1>7, <1>8

\* add_template (tag_database.py) places a member behind those before it, with
\* less padding than its alignment, and moves none; it comes to a multiple of its
\* alignment when that is a power of two; the structure then ends at a multiple
\* of four that holds them all.
THEOREM PlaceSound ==
  ASSUME NEW acc, LaidOut(acc), NEW m \in [size : Nat, count : Nat]
  PROVE  LET next == Place(acc, m)
             k == Len(acc.members) + 1
         IN  /\ LaidOut(next)
             /\ Len(next.members) = k
             /\ \A i \in 1 .. Len(acc.members) : next.members[i] = acc.members[i]
             /\ next.members[k].size = m.size /\ next.members[k].count = m.count
             /\ next.members[k].off < acc.end + Alignment(m.size)
             /\ RoundUp(next.end, 4) % 4 = 0 /\ RoundUp(next.end, 4) >= next.end
  <1> DEFINE unit == Alignment(m.size)
             at == RoundUp(acc.end, unit)
             room == m.size * m.count
             old == acc.members
             new == [off |-> at, size |-> m.size, count |-> m.count]
             next == Place(acc, m)
             k == Len(old) + 1
             M == [off : Nat, size : Nat, count : Nat]
  <1>1. unit \in 1 .. 8
    BY DEF Alignment, Lesser
  <1>2. /\ at \in Nat /\ at >= acc.end /\ at < acc.end + unit
        /\ unit \in PowerOfTwo => at % unit = 0
    <2> HIDE DEF unit
    <2> QED
      BY <1>1, RoundUpIs DEF LaidOut
  <1>3. room \in Nat /\ m.size \in Nat /\ m.count \in Nat
    <2>1. m.size \in Nat /\ m.count \in Nat
      OBVIOUS
    <2> QED
      BY <2>1, Product
  <1>4. next.end = at + room /\ next.members = Append(old, new)
    BY DEF Place
  <1>5. old \in Seq(M) /\ Len(old) \in Nat /\ acc.end \in Nat
    BY DEF LaidOut
  <1> HIDE DEF at, unit
  <1>6. new \in M /\ new.off = at /\ new.size = m.size /\ new.count = m.count
    BY <1>2, <1>3
  <1> HIDE DEF room, new, next
  <1>7. /\ next.members \in Seq(M) /\ Len(next.members) = k /\ next.end \in Nat
        /\ next.members[k] = new /\ \A i \in 1 .. Len(old) : next.members[i] = old[i]
    BY <1>2, <1>3, <1>4, <1>5, <1>6
  <1>8. ASSUME NEW i \in 1 .. k
        PROVE  LET a == next.members[i]
               IN  /\ Alignment(a.size) \in PowerOfTwo => a.off % Alignment(a.size) = 0
                   /\ a.off + a.size * a.count <= next.end
                   /\ \A j \in 1 .. k : i < j => a.off + a.size * a.count <= next.members[j].off
    <2>1. CASE i = k
      <3>1. next.members[i].off = at /\ next.members[i].size = m.size /\ next.members[i].count = m.count
        BY <1>6, <1>7, <2>1
      <3>2. at + m.size * m.count = next.end
        BY <1>4 DEF room
      <3>3. \A j \in 1 .. k : ~(i < j)
        BY <1>5, <2>1
      <3>4. next.end \in Nat
        BY <1>7
      <3> QED
        BY <1>1, <1>2, <3>1, <3>2, <3>3, <3>4 DEF unit
    <2>2. CASE i \in 1 .. Len(old)
      <3> DEFINE a == old[i]
                 past == a.off + a.size * a.count
      <3>1. next.members[i] = a
        BY <1>7, <2>2
      <3>2. /\ Alignment(a.size) \in PowerOfTwo => a.off % Alignment(a.size) = 0
            /\ past <= acc.end
            /\ \A j \in 1 .. Len(old) : i < j => past <= old[j].off
        BY <2>2 DEF LaidOut
      <3>3. past \in Nat
        <4>1. a \in M
          BY <1>5, <2>2, ElementIn
        <4>2. a.off \in Nat /\ a.size \in Nat /\ a.count \in Nat
          BY <4>1
        <4> HIDE DEF a
        <4>3. a.size * a.count \in Nat
          BY <4>2, Product
        <4> QED
          BY <4>2, <4>3
      <3> HIDE DEF a
      <3>4. past <= at /\ past <= next.end
        <4> HIDE DEF past
        <4> QED
          BY <1>2, <1>3, <1>4, <1>5, <3>2, <3>3
      <3>5. \A j \in 1 .. k : i < j => past <= next.members[j].off
        <4> HIDE DEF past
        <4>1. next.members[k].off = at
          BY <1>6, <1>7
        <4>2. \A j \in 1 .. Len(old) : i < j => past <= next.members[j].off
          BY <1>7, <3>2
        <4>3. \A j \in 1 .. k : j = k \/ j \in 1 .. Len(old)
          BY <1>5, LastOrBefore
        <4>4. past <= next.members[k].off
          BY <3>4, <4>1
        <4> QED
          BY <4>2, <4>3, <4>4
      <3> QED
        BY <3>1, <3>2, <3>4, <3>5
    <2>3. i = k \/ i \in 1 .. Len(old)
      BY <1>5, LastOrBefore
    <2> QED
      BY <2>1, <2>2, <2>3
  <1>9. LaidOut(next)
    BY <1>7, <1>8 DEF LaidOut
  <1>10. RoundUp(next.end, 4) % 4 = 0 /\ RoundUp(next.end, 4) >= next.end
    <2>1. next.end \in Nat
      BY <1>7
    <2>2. 4 \in 1 .. 8 /\ 4 \in PowerOfTwo
      BY DEF PowerOfTwo
    <2> QED
      BY <2>1, <2>2, RoundUpIs
  <1> QED
    BY <1>2, <1>6, <1>7, <1>9, <1>10 DEF next, unit
==============================================================================
