--------------------------- MODULE TagClient_proofs ---------------------------
(***************************************************************************)
(* What the tasks of a TagClient may rely on, for any tags, tasks, page    *)
(* and reply sizes: a cached id leads to its tag, the pages of a browse    *)
(* have no gaps, and the pieces of a template make the whole.              *)
(***************************************************************************)
EXTENDS TagClient, FiniteSetTheorems, TLAPS

(***************************************************************************)
(* The database and its instances.                                         *)
(***************************************************************************)
NoTwice(s) == \A i, j \in 1 .. Len(s) : s[i] = s[j] => i = j

\* The tags are registered once each, those of Initial first.
IdsInv ==
    /\ ids \in Seq(CTag) /\ NoTwice(ids)
    /\ Len(Initial) <= Len(ids)
    /\ pids \in Seq(PTag)
    /\ program \in BOOLEAN

\* An instance leads to the controller tag with its id, unless a program with
\* more tags than the controller began with has come first.
InstInv ==
    /\ inst \in [Instance -> Tag \cup {Program, NoTag}]
    /\ \A i \in 1 .. Len(Initial) : inst[i] # NoTag
    /\ Len(pids) <= Len(Initial) =>
           \A i \in 1 .. MaxTag : inst[i] # NoTag => i <= Len(ids) /\ inst[i] = ids[i]

\* A cached id is the id of its tag, and its instance exists.
AtomsInv ==
    /\ atoms \in [Tag -> Nat]
    /\ \A n \in CTag : atoms[n] # 0 =>
           /\ atoms[n] \in 1 .. Len(ids)
           /\ ids[atoms[n]] = n
           /\ inst[atoms[n]] # NoTag

(***************************************************************************)
(* The line for the lock.                                                  *)
(***************************************************************************)
LineInv ==
    /\ queue \in Seq(Task) /\ NoTwice(queue)
    /\ \A t \in Task : Waits(t) <=> t \in Range(queue)
    /\ sent \subseteq Task
    /\ \A t \in sent : Holds(t)

(***************************************************************************)
(* The calls.  cs and ps are the tags of the controller and of the         *)
(* program, prog whether there is one, table the instances, st the call of *)
(* a task and r the reply to its request.                                  *)
(***************************************************************************)
Entries == [id : Nat, name : Tag \cup {Program}]

Fields == {"op", "req", "addr", "pos", "size", "header", "got", "part", "stage", "due", "cut"}

\* What a browse has got: the first k tags of the controller, the program's
\* pseudo-tag if q is 1, and the first j tags of the program.
Listing(cs, ps, got, k, q, j) ==
    /\ k \in 0 .. Len(cs) /\ q \in {0, 1} /\ j \in 0 .. Len(ps)
    /\ got \in Seq(Entries) /\ Len(got) = k + q + j
    /\ \A i \in 1 .. k : got[i] = Entry(i, cs[i])
    /\ q = 1 => got[k + 1] = Entry(Pseudo, Program)
    /\ \A i \in 1 .. j : got[k + q + i] = Entry(i, ps[i])

Seen(table, k) == \A i \in 1 .. k : table[i] # NoTag

\* The next page begins behind the k tags that were listed.
StartAfter(k) == IF k = 0 THEN 0 ELSE k + 1

AtController(cs, ps, prog, table, st) ==
    /\ \E k \in 0 .. Len(cs) :
           /\ Listing(cs, ps, st.got, k, 0, 0) /\ Seen(table, k)
           /\ st.req = BrowseRequest("controller", StartAfter(k))
    /\ st.due \subseteq Range(cs) \cup (IF prog THEN {Program} ELSE {})

AtProgram(cs, ps, table, st) ==
    /\ \E k \in 0 .. Len(cs), j \in 0 .. Len(ps) :
           /\ Listing(cs, ps, st.got, k, 1, j) /\ Seen(table, k)
           /\ st.req = BrowseRequest("program", StartAfter(j))
    /\ st.cut \/ st.due \subseteq NamesIn(st.got) \cup Range(ps)

AfterBrowse(cs, ps, st) ==
    /\ \E k \in 0 .. Len(cs), q \in {0, 1}, j \in 0 .. Len(ps) : Listing(cs, ps, st.got, k, q, j)
    /\ st.cut \/ st.due \subseteq NamesIn(st.got)

AtDefinition(st) ==
    IF st.req = NoReq THEN st.part = Definition
    ELSE /\ st.pos \in 0 .. Len(Definition) - 1
         /\ st.size = Len(Definition) + 1
         /\ st.part = SubSeq(Definition, 1, st.pos)
         /\ st.req = DefinitionRequest(st.pos, st.size - st.pos)

CallOK(cs, ps, prog, table, st) ==
    /\ DOMAIN st = Fields
    /\ st.cut \in BOOLEAN
    /\ st.stage \in {"none", "controller", "program", "attributes", "definition", "done"}
    /\ st.stage = "controller" => AtController(cs, ps, prog, table, st)
    /\ st.stage = "program" => AtProgram(cs, ps, table, st)
    /\ st.op = "browse" =>
           st.stage # "none" /\ (st.stage \in {"controller", "program"} \/ AfterBrowse(cs, ps, st))
    /\ st.stage = "attributes" => st.req = AttributesRequest
    /\ st.stage = "definition" => AtDefinition(st)
    /\ st.stage = "done" => st.req = NoReq
    /\ st.stage # "definition" => st.part = <<>>

CallsInv ==
    /\ DOMAIN task = Task
    /\ \A t \in Task : CallOK(ids, pids, program, inst, task[t])

\* The pages so far and the one in the reply go together.
ControllerFits(cs, ps, table, st, r) ==
    LET page == r.parts[1].data
    IN  /\ page \in Seq(Entries)
        /\ \E k \in 0 .. Len(cs), q \in {0, 1} :
               /\ Listing(cs, ps, st.got \o page, k, q, 0) /\ Seen(table, k)
               /\ r.status = "more" => q = 0 /\ k > 0 /\ NextStart(page) = k + 1
        /\ r.status = "ok" => st.due \subseteq NamesIn(st.got \o page)

ProgramFits(cs, ps, table, st, r) ==
    LET page == r.parts[1].data
    IN  /\ page \in Seq(Entries)
        /\ \E k \in 0 .. Len(cs), j \in 0 .. Len(ps) :
               /\ Listing(cs, ps, st.got \o page, k, 1, j) /\ Seen(table, k)
               /\ r.status = "more" => j > 0 /\ NextStart(page) = j + 1
        /\ r.status = "ok" => st.cut \/ st.due \subseteq NamesIn(st.got \o page)

PieceFits(st, r) ==
    \E q \in st.pos + 1 .. Len(Definition) :
        /\ r.parts[1].data = SubSeq(Definition, st.pos + 1, q)
        /\ r.status = "more" <=> q < Len(Definition)

Fits(cs, ps, table, st, r) ==
    /\ r.status \in {"ok", "more", "error"}
    /\ st.stage = "controller" => ControllerFits(cs, ps, table, st, r)
    /\ st.stage = "program" => ProgramFits(cs, ps, table, st, r)
    /\ st.stage = "attributes" => r.parts[1].data[1] = DefinitionWords
    /\ st.stage = "definition" => PieceFits(st, r)

Asked(t) == stream = <<>> /\ wire = [task |-> t, req |-> task[t].req, parts |-> wire.parts]

Answered(t) ==
    /\ wire = NoRequest
    /\ Len(stream) = 1 /\ stream = << stream[1] >>
    /\ Fits(ids, pids, inst, task[t], stream[1])

\* On the connection there is the request of the lock's holder or its reply,
\* once, or nothing.
ExchangeInv ==
    /\ stream = <<>> \/ sent # {}
    /\ wire = NoRequest \/ sent # {}
    /\ \A t \in sent : Asked(t) \/ Answered(t)

Inv == IdsInv /\ InstInv /\ AtomsInv /\ LineInv /\ CallsInv /\ ExchangeInv

(***************************************************************************)
(* Numbers, sets and sequences.                                            *)
(***************************************************************************)
LEMMA GreatestOfTwo ==
  ASSUME NEW a \in Nat, NEW b \in Nat
  PROVE  Max({a, b}) \in Nat /\ a <= Max({a, b}) /\ b <= Max({a, b})
  <1>1. \E x \in {a, b} : \A y \in {a, b} : x >= y
    OBVIOUS
  <1> QED
    BY <1>1 DEF Max

LEMMA LeastOfThree ==
  ASSUME NEW a \in Nat, NEW b \in Nat, NEW c \in Nat
  PROVE  /\ Min({a, b, c}) \in {a, b, c}
         /\ \A y \in {a, b, c} : Min({a, b, c}) <= y
  <1>1. \E x \in {a, b, c} : \A y \in {a, b, c} : x <= y
    <2>1. CASE a <= b /\ a <= c
      BY <2>1
    <2>2. CASE b <= a /\ b <= c
      BY <2>2
    <2>3. CASE c <= a /\ c <= b
      BY <2>3
    <2> QED
      BY <2>1, <2>2, <2>3
  <1> QED
    BY <1>1 DEF Min

LEMMA TagBound ==
  /\ MaxTag \in Nat
  /\ Cardinality(CTag) \in Nat /\ Cardinality(CTag) <= MaxTag
  /\ Pseudo \in Nat /\ Pseudo > MaxTag + 1
  /\ Pseudo \in Instance /\ 1 .. MaxTag \subseteq Instance
  BY ScopeAssumption, PseudoAssumption, FS_CardinalityType, GreatestOfTwo DEF MaxTag, Instance

LEMMA TagsApart ==
  /\ \A n \in CTag : n \in Tag /\ n \notin PTag /\ n # Program /\ n # NoTag
  /\ \A n \in PTag : n \in Tag /\ n \notin CTag /\ n # Program /\ n # NoTag
  /\ Program \notin CTag /\ Program \notin PTag /\ Program # NoTag
  BY ScopeAssumption DEF Tag

\* A sequence without repetitions is no longer than the set it draws from.
LEMMA NoLonger ==
  ASSUME NEW s \in Seq(CTag), NoTwice(s)
  PROVE  Len(s) <= MaxTag
  <1>1. s \in Injection(1 .. Len(s), CTag)
    BY DEF NoTwice, Injection, IsInjective
  <1>2. Cardinality(1 .. Len(s)) <= Cardinality(CTag)
    BY <1>1, ScopeAssumption, FS_Injection
  <1>3. Cardinality(1 .. Len(s)) = Len(s)
    <2>1. Len(s) \in Nat /\ 1 \in Int /\ Len(s) \in Int
      OBVIOUS
    <2>2. Cardinality(1 .. Len(s)) = IF 1 > Len(s) THEN 0 ELSE Len(s) - 1 + 1
      BY <2>1, FS_Interval
    <2> QED
      BY <2>1, <2>2
  <1> QED
    BY <1>2, <1>3, TagBound

LEMMA RangeOf ==
  ASSUME NEW S, NEW s \in Seq(S), NEW x
  PROVE  x \in Range(s) <=> \E i \in 1 .. Len(s) : s[i] = x
  BY DEF Range

\* What comes first in line.
LEMMA LineMoves ==
  ASSUME NEW q \in Seq(Task), NoTwice(q), q # <<>>
  PROVE  /\ Head(q) \in Task /\ Head(q) \in Range(q)
         /\ Tail(q) \in Seq(Task) /\ NoTwice(Tail(q))
         /\ Range(Tail(q)) = Range(q) \ {Head(q)}
  <1>1. /\ Tail(q) \in Seq(Task) /\ Len(Tail(q)) = Len(q) - 1 /\ Len(q) \in Nat \ {0}
        /\ \A i \in 1 .. Len(q) - 1 : Tail(q)[i] = q[i + 1]
        /\ Head(q) = q[1] /\ q[1] \in Task
    OBVIOUS
  <1>2. NoTwice(Tail(q))
    BY <1>1 DEF NoTwice
  <1>3. \A t : t \in Range(Tail(q)) <=> t \in Range(q) \ {Head(q)}
    <2> SUFFICES ASSUME NEW t
                 PROVE  t \in Range(Tail(q)) <=> t \in Range(q) \ {Head(q)}
      OBVIOUS
    <2>1. t \in Range(Tail(q)) <=> \E i \in 1 .. Len(q) - 1 : q[i + 1] = t
      <3>1. DOMAIN Tail(q) = 1 .. Len(q) - 1
        BY <1>1
      <3> QED
        BY <3>1, <1>1 DEF Range
    <2>2. t \in Range(q) <=> \E i \in 1 .. Len(q) : q[i] = t
      BY RangeOf
    <2>3. ASSUME t \in Range(q), t # Head(q)
          PROVE  t \in Range(Tail(q))
      <3>1. PICK i \in 1 .. Len(q) : q[i] = t
        BY <2>2, <2>3
      <3>2. i # 1 /\ i - 1 \in 1 .. Len(q) - 1 /\ q[(i - 1) + 1] = t
        BY <3>1, <2>3, <1>1
      <3> QED
        BY <3>2, <2>1
    <2>4. ASSUME t \in Range(Tail(q))
          PROVE  t \in Range(q) /\ t # Head(q)
      <3>1. PICK i \in 1 .. Len(q) - 1 : q[i + 1] = t
        BY <2>1, <2>4
      <3>2. i + 1 \in 1 .. Len(q) /\ 1 \in 1 .. Len(q) /\ i + 1 # 1
        BY <1>1
      <3> QED
        BY <3>1, <3>2, <2>2, <1>1 DEF NoTwice
    <2> QED
      BY <2>3, <2>4
  <1> QED
    BY <1>1, <1>2, <1>3, RangeOf

LEMMA LineGrows ==
  ASSUME NEW q \in Seq(Task), NoTwice(q), NEW t \in Task, t \notin Range(q)
  PROVE  /\ Append(q, t) \in Seq(Task) /\ NoTwice(Append(q, t))
         /\ Range(Append(q, t)) = Range(q) \cup {t}
         /\ q # <<>> => Head(Append(q, t)) = Head(q)
         /\ Append(q, t) # <<>>
  <1>1. /\ Append(q, t) \in Seq(Task) /\ Len(Append(q, t)) = Len(q) + 1
        /\ \A i \in 1 .. Len(q) : Append(q, t)[i] = q[i]
        /\ Append(q, t)[Len(q) + 1] = t
        /\ Len(q) \in Nat
    OBVIOUS
  <1>2. \A i \in 1 .. Len(q) : q[i] # t
    BY RangeOf
  <1>3. NoTwice(Append(q, t))
    BY <1>1, <1>2 DEF NoTwice
  <1>4. Range(Append(q, t)) = Range(q) \cup {t}
    BY <1>1 DEF Range
  <1>5. q # <<>> => Head(Append(q, t)) = Head(q)
    <2>1. q # <<>> => 1 \in 1 .. Len(q)
      OBVIOUS
    <2> HIDE DEF NoTwice
    <2> QED
      BY <1>1, <2>1
  <1>6. Append(q, t) # <<>>
    BY <1>1
  <1> QED
    BY <1>1, <1>3, <1>4, <1>5, <1>6

\* Two pieces of a sequence that touch make one.
LEMMA PiecesJoin ==
  ASSUME NEW S, NEW s \in Seq(S), NEW p \in 0 .. Len(s), NEW q \in p + 1 .. Len(s)
  PROVE  /\ SubSeq(s, 1, p) \o SubSeq(s, p + 1, q) = SubSeq(s, 1, q)
         /\ Len(SubSeq(s, p + 1, q)) = q - p
  OBVIOUS

(***************************************************************************)
(* Listings.                                                               *)
(***************************************************************************)
Grown(s, s2) == Len(s) <= Len(s2) /\ \A i \in 1 .. Len(s) : s2[i] = s[i]

LEMMA ListingGrows ==
  ASSUME NEW cs \in Seq(CTag), NEW cs2 \in Seq(CTag), Grown(cs, cs2),
         NEW ps \in Seq(PTag), NEW ps2 \in Seq(PTag), Grown(ps, ps2),
         NEW got, NEW k, NEW q, NEW j, Listing(cs, ps, got, k, q, j)
  PROVE  Listing(cs2, ps2, got, k, q, j)
  <1>1. k \in 0 .. Len(cs2) /\ j \in 0 .. Len(ps2)
    BY DEF Listing, Grown
  <1>2. \A i \in 1 .. k : cs2[i] = cs[i]
    BY DEF Listing, Grown
  <1>3. \A i \in 1 .. j : ps2[i] = ps[i]
    BY DEF Listing, Grown
  <1> QED
    BY <1>1, <1>2, <1>3 DEF Listing

LEMMA EntryFields ==
  ASSUME NEW i, NEW n
  PROVE  Entry(i, n).id = i /\ Entry(i, n).name = n
  BY DEF Entry

\* What is at each place of a listing.
OneOfThree(cs, ps, got, k, q, j, m) ==
    \/ m \in 1 .. k /\ got[m] = Entry(m, cs[m]) /\ cs[m] \in CTag
    \/ q = 1 /\ m = k + 1 /\ got[m] = Entry(Pseudo, Program)
    \/ \E i \in 1 .. j : m = k + q + i /\ got[m] = Entry(i, ps[i]) /\ ps[i] \in PTag

LEMMA ListingAt ==
  ASSUME NEW cs \in Seq(CTag), NEW ps \in Seq(PTag), NEW got, NEW k, NEW q, NEW j,
         Listing(cs, ps, got, k, q, j), NEW m \in 1 .. Len(got)
  PROVE  OneOfThree(cs, ps, got, k, q, j, m)
  <1> DEFINE i == m - k - q
  <1>1. k \in Nat /\ q \in {0, 1} /\ j \in Nat /\ k <= Len(cs) /\ j <= Len(ps) /\ Len(got) = k + q + j
    BY DEF Listing
  <1>2. CASE m <= k
    BY <1>1, <1>2 DEF Listing, OneOfThree
  <1>3. CASE q = 1 /\ m = k + 1
    BY <1>3 DEF Listing, OneOfThree
  <1>4. CASE m > k + q
    <2>1. i \in 1 .. j /\ k + q + i = m /\ i \in 1 .. Len(ps)
      BY <1>1, <1>4
    <2>2. got[k + q + i] = Entry(i, ps[i])
      BY <2>1 DEF Listing
    <2>3. ps[i] \in PTag
      BY <2>1
    <2> QED
      BY <2>1, <2>2, <2>3 DEF OneOfThree
  <1> QED
    BY <1>1, <1>2, <1>3, <1>4

\* The names in a listing.
LEMMA ListingNames ==
  ASSUME NEW cs \in Seq(CTag), NEW ps \in Seq(PTag), NEW got, NEW k, NEW q, NEW j,
         Listing(cs, ps, got, k, q, j)
  PROVE  /\ \A e \in Range(got) : e.name \in CTag => e.id \in 1 .. k /\ e.name = cs[e.id]
         /\ \A i \in 1 .. k : cs[i] \in NamesIn(got) /\ Entry(i, cs[i]) \in Range(got)
         /\ q = 1 <=> Program \in NamesIn(got)
         /\ \A i \in 1 .. j : ps[i] \in NamesIn(got)
         /\ NamesIn(got) \subseteq Tag \cup {Program}
  <1>0. \A m \in 1 .. Len(got) : OneOfThree(cs, ps, got, k, q, j, m)
    BY ListingAt
  <1>1. k \in Nat /\ q \in {0, 1} /\ j \in Nat /\ Len(got) = k + q + j /\ got \in Seq(Entries)
    BY DEF Listing
  <1>2. DOMAIN got = 1 .. Len(got)
    BY <1>1
  <1>3. \A e \in Range(got) : \E m \in 1 .. Len(got) : e = got[m]
    BY <1>2 DEF Range
  <1>4. \A m \in 1 .. Len(got) : got[m] \in Range(got) /\ got[m].name \in NamesIn(got)
    BY <1>2 DEF Range, NamesIn
  <1>5. ASSUME NEW e \in Range(got), e.name \in CTag
        PROVE  e.id \in 1 .. k /\ e.name = cs[e.id]
    <2>1. PICK m \in 1 .. Len(got) : e = got[m]
      BY <1>3
    <2>2. m \in 1 .. k /\ got[m] = Entry(m, cs[m])
      BY <2>1, <1>0, <1>5, TagsApart, EntryFields DEF OneOfThree
    <2> QED
      BY <2>1, <2>2, EntryFields
  <1>6. \A i \in 1 .. k : cs[i] \in NamesIn(got) /\ Entry(i, cs[i]) \in Range(got)
    <2>1. \A i \in 1 .. k : i \in 1 .. Len(got) /\ got[i] = Entry(i, cs[i])
      BY <1>1 DEF Listing
    <2> QED
      BY <2>1, <1>4, EntryFields
  <1>7. q = 1 => Program \in NamesIn(got)
    <2>1. q = 1 => k + 1 \in 1 .. Len(got) /\ got[k + 1] = Entry(Pseudo, Program)
      BY <1>1 DEF Listing
    <2> QED
      BY <2>1, <1>4, EntryFields
  <1>8. \A i \in 1 .. j : ps[i] \in NamesIn(got)
    <2>1. \A i \in 1 .. j : k + q + i \in 1 .. Len(got) /\ got[k + q + i] = Entry(i, ps[i])
      BY <1>1 DEF Listing
    <2> QED
      BY <2>1, <1>4, EntryFields
  <1>9. \A e \in Range(got) : e.name = Program => q = 1
    BY <1>0, <1>3, TagsApart, EntryFields DEF OneOfThree
  <1>10. NamesIn(got) \subseteq Tag \cup {Program}
    BY <1>0, <1>3, TagsApart, EntryFields DEF OneOfThree, NamesIn
  <1> QED
    BY <1>5, <1>6, <1>7, <1>8, <1>9, <1>10 DEF NamesIn

\* What is listed is in order, and has no gaps.
LEMMA ListingOrdered ==
  ASSUME NEW cs \in Seq(CTag), NoTwice(cs), NEW ps \in Seq(PTag), NEW got, NEW k, NEW q, NEW j,
         Listing(cs, ps, got, k, q, j)
  PROVE  /\ Ascends(got, CTag \cup {Program}) /\ Ascends(got, PTag)
         /\ \A i \in 1 .. Len(cs) :
                (\E e \in Range(got) : e.name \in CTag /\ e.id > i) => cs[i] \in NamesIn(got)
  <1>0. \A m \in 1 .. Len(got) : OneOfThree(cs, ps, got, k, q, j, m)
    BY ListingAt
  <1>1. k \in Nat /\ q \in {0, 1} /\ j \in Nat /\ k <= Len(cs) /\ got \in Seq(Entries)
    BY DEF Listing
  <1>2. k < Pseudo
    BY <1>1, NoLonger, TagBound
  <1>3. Ascends(got, CTag \cup {Program})
    <2> SUFFICES ASSUME NEW a \in 1 .. Len(got), NEW b \in 1 .. Len(got), a < b,
                        got[a].name \in CTag \cup {Program}, got[b].name \in CTag \cup {Program}
                 PROVE  got[a].id < got[b].id
      BY <1>1 DEF Ascends
    <2>1. \/ a \in 1 .. k /\ got[a].id = a
          \/ a = k + 1 /\ got[a].id = Pseudo
      BY <1>0, TagsApart, EntryFields DEF OneOfThree
    <2>2. \/ b \in 1 .. k /\ got[b].id = b
          \/ b = k + 1 /\ got[b].id = Pseudo
      BY <1>0, TagsApart, EntryFields DEF OneOfThree
    <2> QED
      BY <2>1, <2>2, <1>1, <1>2, TagBound
  <1>4. Ascends(got, PTag)
    <2> SUFFICES ASSUME NEW a \in 1 .. Len(got), NEW b \in 1 .. Len(got), a < b,
                        got[a].name \in PTag, got[b].name \in PTag
                 PROVE  got[a].id < got[b].id
      BY <1>1 DEF Ascends
    <2>1. got[a].id = a - k - q
      <3>0. /\ \A i \in 1 .. k : cs[i] \in CTag => Entry(i, cs[i]).name \notin PTag
            /\ Entry(Pseudo, Program).name \notin PTag
        BY TagsApart, EntryFields
      <3>1. PICK i \in 1 .. j : a = k + q + i /\ got[a] = Entry(i, ps[i])
        <4>1. OneOfThree(cs, ps, got, k, q, j, a)
          BY <1>0
        <4> QED
          BY <3>0, <4>1 DEF OneOfThree
      <3>2. got[a].id = i /\ i \in Int
        BY <3>1, <1>1, EntryFields
      <3> QED
        BY <3>1, <3>2, <1>1
    <2>2. got[b].id = b - k - q
      <3>0. /\ \A i \in 1 .. k : cs[i] \in CTag => Entry(i, cs[i]).name \notin PTag
            /\ Entry(Pseudo, Program).name \notin PTag
        BY TagsApart, EntryFields
      <3>1. PICK i \in 1 .. j : b = k + q + i /\ got[b] = Entry(i, ps[i])
        <4>1. OneOfThree(cs, ps, got, k, q, j, b)
          BY <1>0
        <4> QED
          BY <3>0, <4>1 DEF OneOfThree
      <3>2. got[b].id = i /\ i \in Int
        BY <3>1, <1>1, EntryFields
      <3> QED
        BY <3>1, <3>2, <1>1
    <2> QED
      BY <2>1, <2>2, <1>1
  <1>5. ASSUME NEW i \in 1 .. Len(cs), NEW e \in Range(got), e.name \in CTag, e.id > i
        PROVE  cs[i] \in NamesIn(got)
    <2>1. e.id \in 1 .. k
      BY <1>5, ListingNames
    <2>2. i \in 1 .. k
      BY <2>1, <1>5, <1>1
    <2> QED
      BY <2>2, ListingNames
  <1> QED
    BY <1>3, <1>4, <1>5

(***************************************************************************)
(* What the database grows by leaves the calls as they are.                *)
(***************************************************************************)
LEMMA SeenKept ==
  ASSUME NEW table, NEW table2, NEW n \in Nat, NEW k \in 0 .. n, Seen(table, k),
         \A i \in 1 .. n : table[i] # NoTag => table2[i] # NoTag
  PROVE  Seen(table2, k)
  <1>1. \A i \in 1 .. k : i \in 1 .. n
    OBVIOUS
  <1> QED
    BY <1>1 DEF Seen

LEMMA RangeGrows ==
  ASSUME NEW S, NEW s \in Seq(S), NEW s2 \in Seq(S), Grown(s, s2)
  PROVE  Range(s) \subseteq Range(s2)
  <1>1. \A i \in 1 .. Len(s) : i \in 1 .. Len(s2) /\ s2[i] = s[i]
    BY DEF Grown
  <1> QED
    BY <1>1 DEF Range

LEMMA CallKept ==
  ASSUME NEW cs \in Seq(CTag), NEW cs2 \in Seq(CTag), Grown(cs, cs2), Len(cs) <= MaxTag,
         NEW ps \in Seq(PTag), NEW ps2 \in Seq(PTag), Grown(ps, ps2),
         NEW prog \in BOOLEAN, NEW prog2 \in BOOLEAN, prog => prog2,
         NEW table, NEW table2, \A i \in 1 .. MaxTag : table[i] # NoTag => table2[i] # NoTag,
         NEW st, CallOK(cs, ps, prog, table, st)
  PROVE  CallOK(cs2, ps2, prog2, table2, st)
  <1>1. Range(cs) \subseteq Range(cs2) /\ Range(ps) \subseteq Range(ps2)
    BY RangeGrows
  <1>2. 0 .. Len(cs) \subseteq 0 .. Len(cs2) /\ 0 .. Len(ps) \subseteq 0 .. Len(ps2)
    BY DEF Grown
  <1>3. \A k \in 0 .. Len(cs) : Seen(table, k) => Seen(table2, k)
    <2>1. \A k \in 0 .. Len(cs) : k \in 0 .. MaxTag
      BY TagBound
    <2> QED
      BY <2>1, TagBound, SeenKept
  <1>4. ASSUME NEW k, NEW q, NEW j, Listing(cs, ps, st.got, k, q, j)
        PROVE  Listing(cs2, ps2, st.got, k, q, j)
    BY <1>4, ListingGrows
  <1>5. st.stage = "controller" => AtController(cs2, ps2, prog2, table2, st)
    <2> SUFFICES ASSUME AtController(cs, ps, prog, table, st)
                 PROVE  AtController(cs2, ps2, prog2, table2, st)
      BY DEF CallOK
    <2>1. PICK k \in 0 .. Len(cs) :
              /\ Listing(cs, ps, st.got, k, 0, 0) /\ Seen(table, k)
              /\ st.req = BrowseRequest("controller", StartAfter(k))
      BY DEF AtController
    <2>2. Listing(cs2, ps2, st.got, k, 0, 0) /\ Seen(table2, k) /\ k \in 0 .. Len(cs2)
      BY <2>1, <1>2, <1>3, <1>4
    <2>3. st.due \subseteq Range(cs2) \cup (IF prog2 THEN {Program} ELSE {})
      BY <1>1 DEF AtController
    <2> QED
      BY <2>1, <2>2, <2>3 DEF AtController
  <1>6. st.stage = "program" => AtProgram(cs2, ps2, table2, st)
    <2> SUFFICES ASSUME AtProgram(cs, ps, table, st)
                 PROVE  AtProgram(cs2, ps2, table2, st)
      BY DEF CallOK
    <2>1. PICK k \in 0 .. Len(cs), j \in 0 .. Len(ps) :
              /\ Listing(cs, ps, st.got, k, 1, j) /\ Seen(table, k)
              /\ st.req = BrowseRequest("program", StartAfter(j))
      BY DEF AtProgram
    <2>2. /\ Listing(cs2, ps2, st.got, k, 1, j) /\ Seen(table2, k)
          /\ k \in 0 .. Len(cs2) /\ j \in 0 .. Len(ps2)
      BY <2>1, <1>2, <1>3, <1>4
    <2>3. st.cut \/ st.due \subseteq NamesIn(st.got) \cup Range(ps2)
      BY <1>1 DEF AtProgram
    <2> QED
      BY <2>1, <2>2, <2>3 DEF AtProgram
  <1>7. AfterBrowse(cs, ps, st) => AfterBrowse(cs2, ps2, st)
    BY <1>2, <1>4 DEF AfterBrowse
  <1> QED
    BY <1>5, <1>6, <1>7 DEF CallOK

LEMMA FitsKept ==
  ASSUME NEW cs \in Seq(CTag), NEW cs2 \in Seq(CTag), Grown(cs, cs2), Len(cs) <= MaxTag,
         NEW ps \in Seq(PTag), NEW ps2 \in Seq(PTag), Grown(ps, ps2),
         NEW table, NEW table2, \A i \in 1 .. MaxTag : table[i] # NoTag => table2[i] # NoTag,
         NEW st, NEW r, Fits(cs, ps, table, st, r)
  PROVE  Fits(cs2, ps2, table2, st, r)
  <1> DEFINE page == r.parts[1].data
  <1>2. 0 .. Len(cs) \subseteq 0 .. Len(cs2) /\ 0 .. Len(ps) \subseteq 0 .. Len(ps2)
    BY DEF Grown
  <1>3. \A k \in 0 .. Len(cs) : Seen(table, k) => Seen(table2, k)
    <2>1. \A k \in 0 .. Len(cs) : k \in 0 .. MaxTag
      BY TagBound
    <2> QED
      BY <2>1, TagBound, SeenKept
  <1>4. ASSUME NEW k, NEW q, NEW j, Listing(cs, ps, st.got \o page, k, q, j)
        PROVE  Listing(cs2, ps2, st.got \o page, k, q, j)
    BY <1>4, ListingGrows
  <1>5. ControllerFits(cs, ps, table, st, r) => ControllerFits(cs2, ps2, table2, st, r)
    <2> SUFFICES ASSUME ControllerFits(cs, ps, table, st, r)
                 PROVE  ControllerFits(cs2, ps2, table2, st, r)
      OBVIOUS
    <2>1. PICK k \in 0 .. Len(cs), q \in {0, 1} :
              /\ Listing(cs, ps, st.got \o page, k, q, 0) /\ Seen(table, k)
              /\ r.status = "more" => q = 0 /\ k > 0 /\ NextStart(page) = k + 1
      BY DEF ControllerFits
    <2>2. Listing(cs2, ps2, st.got \o page, k, q, 0) /\ Seen(table2, k) /\ k \in 0 .. Len(cs2)
      BY <2>1, <1>2, <1>3, <1>4
    <2> QED
      BY <2>1, <2>2 DEF ControllerFits
  <1>6. ProgramFits(cs, ps, table, st, r) => ProgramFits(cs2, ps2, table2, st, r)
    <2> SUFFICES ASSUME ProgramFits(cs, ps, table, st, r)
                 PROVE  ProgramFits(cs2, ps2, table2, st, r)
      OBVIOUS
    <2>1. PICK k \in 0 .. Len(cs), j \in 0 .. Len(ps) :
              /\ Listing(cs, ps, st.got \o page, k, 1, j) /\ Seen(table, k)
              /\ r.status = "more" => j > 0 /\ NextStart(page) = j + 1
      BY DEF ProgramFits
    <2>2. /\ Listing(cs2, ps2, st.got \o page, k, 1, j) /\ Seen(table2, k)
          /\ k \in 0 .. Len(cs2) /\ j \in 0 .. Len(ps2)
      BY <2>1, <1>2, <1>3, <1>4
    <2> QED
      BY <2>1, <2>2 DEF ProgramFits
  <1> QED
    BY <1>5, <1>6 DEF Fits

(***************************************************************************)
(* What a task does with a reply.                                          *)
(***************************************************************************)
LEMMA FreeFields ==
  /\ DOMAIN Free = Fields
  /\ Free.op = "none" /\ Free.req = NoReq /\ Free.stage = "none" /\ Free.got = <<>>
  /\ Free.part = <<>> /\ Free.due = {} /\ Free.cut = FALSE
  BY DEF Free, Fields

LEMMA FreeOK ==
  ASSUME NEW cs, NEW ps, NEW prog, NEW table
  PROVE  CallOK(cs, ps, prog, table, Free)
  BY FreeFields DEF CallOK

LEMMA FirstOK ==
  ASSUME IdsInv, NEW t \in Task, NEW c \in Calls[t]
  PROVE  /\ CallOK(ids, pids, program, inst, [First(c) EXCEPT !.op = c.op])
         /\ First(c).req # NoReq /\ DOMAIN First(c) = Fields
  <1> DEFINE st == [First(c) EXCEPT !.op = c.op]
  <1>0. c.op \in {"read", "write", "multiple", "struct", "template", "browse"}
    BY CallAssumption
  <1>1. CASE c.op \in {"read", "write", "multiple", "struct"}
    <2>1. /\ DOMAIN First(c) = Fields
          /\ First(c).stage = "none" /\ First(c).part = <<>> /\ First(c).cut = FALSE
      BY <1>1, FreeFields DEF First, Fields
    <2>2. First(c).req.svc # "none"
      BY <1>1, FreeFields DEF First, Fields, TagRequest, FragmentRequest
    <2>3. First(c).req # NoReq
      BY <2>2 DEF NoReq
    <2>4. /\ DOMAIN st = Fields /\ st.op = c.op
          /\ st.stage = "none" /\ st.part = <<>> /\ st.cut = FALSE
      BY <2>1 DEF Fields
    <2> QED
      BY <2>1, <2>3, <2>4, <1>1 DEF CallOK
  <1>2. CASE c.op = "template"
    <2>1. /\ DOMAIN First(c) = Fields /\ First(c).req = AttributesRequest
          /\ First(c).stage = "attributes" /\ First(c).part = <<>> /\ First(c).cut = FALSE
      BY <1>2, FreeFields DEF First, Fields
    <2>2. AttributesRequest # NoReq
      BY DEF AttributesRequest, NoReq
    <2>3. /\ DOMAIN st = Fields /\ st.op = c.op /\ st.req = AttributesRequest
          /\ st.stage = "attributes" /\ st.part = <<>> /\ st.cut = FALSE
      BY <2>1 DEF Fields
    <2> QED
      BY <2>1, <2>2, <2>3, <1>2 DEF CallOK
  <1>3. CASE c.op = "browse"
    <2>1. /\ DOMAIN First(c) = Fields /\ First(c).req = BrowseRequest("controller", 0)
          /\ First(c).stage = "controller" /\ First(c).part = <<>> /\ First(c).cut = FALSE
          /\ First(c).got = <<>> /\ First(c).due = Registered
      BY <1>3, FreeFields DEF First, Fields
    <2>2. BrowseRequest("controller", 0) # NoReq
      BY DEF BrowseRequest, NoReq
    <2>3. /\ DOMAIN st = Fields /\ st.req = BrowseRequest("controller", 0)
          /\ st.stage = "controller" /\ st.part = <<>> /\ st.cut = FALSE
          /\ st.got = <<>> /\ st.due = Registered /\ st.op = c.op
      BY <2>1 DEF Fields
    <2>4. AtController(ids, pids, program, inst, st)
      <3>1. Listing(ids, pids, <<>>, 0, 0, 0) /\ Seen(inst, 0) /\ StartAfter(0) = 0
        BY DEF Listing, Seen, StartAfter, IdsInv
      <3>2. 0 \in 0 .. Len(ids)
        BY DEF IdsInv
      <3> QED
        BY <2>3, <3>1, <3>2 DEF AtController, Registered
    <2> QED
      BY <2>1, <2>2, <2>3, <2>4, <1>3 DEF CallOK
  <1> QED
    BY <1>0, <1>1, <1>2, <1>3

LEMMA NamesJoin ==
  ASSUME NEW got \in Seq(Entries), NEW page \in Seq(Entries)
  PROVE  NamesIn(got) \subseteq NamesIn(got \o page)
  <1>1. \A i \in 1 .. Len(got) : i \in 1 .. Len(got \o page) /\ (got \o page)[i] = got[i]
    OBVIOUS
  <1>2. DOMAIN got = 1 .. Len(got) /\ DOMAIN (got \o page) = 1 .. Len(got \o page)
    OBVIOUS
  <1>3. Range(got) \subseteq Range(got \o page)
    BY <1>1, <1>2 DEF Range
  <1> QED
    BY <1>3 DEF NamesIn

LEMMA BrowseTemplatesOK ==
  ASSUME NEW st, DOMAIN st = Fields, st.cut \in BOOLEAN, st.part = <<>>,
         AfterBrowse(ids, pids, st)
  PROVE  CallOK(ids, pids, program, inst, BrowseTemplates(st))
  <1> DEFINE next == BrowseTemplates(st)
  <1>1. /\ DOMAIN next = Fields /\ next.cut = st.cut /\ next.part = <<>>
        /\ next.got = st.got /\ next.due = st.due /\ next.op = st.op
        /\ \/ next.stage = "attributes" /\ next.req = AttributesRequest
           \/ next.stage = "done" /\ next.req = NoReq
    BY DEF BrowseTemplates, Fields
  <1>2. AfterBrowse(ids, pids, next)
    BY <1>1 DEF AfterBrowse
  <1> HIDE DEF next
  <1>3. CallOK(ids, pids, program, inst, next)
    BY <1>1, <1>2 DEF CallOK
  <1> QED
    BY <1>3 DEF next

LEMMA BrowseProgramOK ==
  ASSUME IdsInv, NEW st, DOMAIN st = Fields, st.cut \in BOOLEAN, st.part = <<>>,
         NEW k \in 0 .. Len(ids), NEW q \in {0, 1},
         Listing(ids, pids, st.got, k, q, 0), Seen(inst, k),
         st.cut \/ st.due \subseteq NamesIn(st.got)
  PROVE  CallOK(ids, pids, program, inst, BrowseProgram(st))
  <1>0. 0 \in 0 .. Len(pids) /\ ids \in Seq(CTag) /\ pids \in Seq(PTag)
    BY DEF IdsInv
  <1>1. CASE Program \in NamesIn(st.got)
    <2> DEFINE next == BrowseProgram(st)
    <2>1. /\ DOMAIN next = Fields /\ next.cut = st.cut /\ next.part = <<>>
          /\ next.got = st.got /\ next.due = st.due \cup Range(pids)
          /\ next.stage = "program" /\ next.req = BrowseRequest("program", 0)
      BY <1>1 DEF BrowseProgram, Fields
    <2>2. q = 1
      BY <1>0, <1>1, ListingNames
    <2>3. StartAfter(0) = 0
      BY DEF StartAfter
    <2> HIDE DEF next
    <2>4. AtProgram(ids, pids, inst, next)
      <3>1. \E k1 \in 0 .. Len(ids), j \in 0 .. Len(pids) :
                /\ Listing(ids, pids, next.got, k1, 1, j) /\ Seen(inst, k1)
                /\ next.req = BrowseRequest("program", StartAfter(j))
        BY <1>0, <2>1, <2>2, <2>3
      <3>2. next.cut \/ next.due \subseteq NamesIn(next.got) \cup Range(pids)
        BY <2>1
      <3> QED
        BY <3>1, <3>2 DEF AtProgram
    <2>5. next.op = "browse" => next.stage \in {"controller", "program"}
      BY <2>1
    <2>6. CallOK(ids, pids, program, inst, next)
      BY <2>1, <2>4 DEF CallOK
    <2> QED
      BY <2>6 DEF next
  <1>2. CASE Program \notin NamesIn(st.got)
    <2>1. AfterBrowse(ids, pids, st)
      BY <1>0 DEF AfterBrowse
    <2>2. BrowseProgram(st) = BrowseTemplates(st)
      BY <1>2 DEF BrowseProgram
    <2> QED
      BY <2>1, <2>2, BrowseTemplatesOK
  <1> QED
    BY <1>1, <1>2

\* The next call of a browse that has received a page.
LEMMA ControllerPageOK ==
  ASSUME IdsInv, NEW st, CallOK(ids, pids, program, inst, st), st.stage = "controller",
         NEW r, Fits(ids, pids, inst, st, r)
  PROVE  CallOK(ids, pids, program, inst, AfterPage(st, r))
  <1> DEFINE page == r.parts[1].data
             next == [st EXCEPT !.got = @ \o page, !.cut = @ \/ r.status = "error"]
             more == [next EXCEPT !.req.start = NextStart(page)]
  <1>1. AtController(ids, pids, program, inst, st) /\ st.part = <<>> /\ DOMAIN st = Fields
    BY DEF CallOK
  <1>2. PICK k \in 0 .. Len(ids), q \in {0, 1} :
            /\ Listing(ids, pids, st.got \o page, k, q, 0) /\ Seen(inst, k)
            /\ r.status = "more" => q = 0 /\ k > 0 /\ NextStart(page) = k + 1
    BY DEF Fits, ControllerFits
  <1>3. /\ DOMAIN next = Fields /\ next.part = <<>> /\ next.got = st.got \o page
        /\ next.cut = (st.cut \/ r.status = "error") /\ next.cut \in BOOLEAN
        /\ next.due = st.due /\ next.stage = "controller" /\ next.op = st.op
        /\ next.req = st.req
    BY <1>1 DEF Fields
  <1>4. PICK k0 : st.req = BrowseRequest("controller", k0)
    BY <1>1 DEF AtController
  <1> HIDE DEF next
  <1>5. CASE r.status = "more"
    <2>0. [next.req EXCEPT !.start = NextStart(page)] = BrowseRequest("controller", k + 1)
      BY <1>2, <1>3, <1>4, <1>5 DEF BrowseRequest
    <2>1. /\ DOMAIN more = Fields /\ more.part = <<>> /\ more.got = st.got \o page
          /\ more.cut \in BOOLEAN /\ more.due = st.due /\ more.stage = "controller"
          /\ more.req = BrowseRequest("controller", k + 1)
      BY <2>0, <1>3 DEF Fields
    <2>4. AfterPage(st, r) = more
      BY <1>5 DEF AfterPage, next
    <2> HIDE DEF more
    <2>2. AtController(ids, pids, program, inst, more)
      <3>1. StartAfter(k) = k + 1
        BY <1>2, <1>5 DEF StartAfter
      <3>2. \E k1 \in 0 .. Len(ids) :
                /\ Listing(ids, pids, more.got, k1, 0, 0) /\ Seen(inst, k1)
                /\ more.req = BrowseRequest("controller", StartAfter(k1))
        BY <1>2, <1>5, <2>1, <3>1
      <3> QED
        BY <3>2, <2>1, <1>1 DEF AtController
    <2>3. CallOK(ids, pids, program, inst, more)
      BY <2>1, <2>2 DEF CallOK
    <2> QED
      BY <2>3, <2>4
  <1>6. CASE r.status # "more"
    <2>1. AfterPage(st, r) = BrowseProgram(next)
      BY <1>6 DEF AfterPage, next
    <2>2. next.cut \/ next.due \subseteq NamesIn(next.got)
      BY <1>3, <1>6 DEF Fits, ControllerFits
    <2>3. CallOK(ids, pids, program, inst, BrowseProgram(next))
      BY <1>2, <1>3, <2>2, BrowseProgramOK
    <2> QED
      BY <2>1, <2>3
  <1> QED
    BY <1>5, <1>6

LEMMA ProgramPageOK ==
  ASSUME IdsInv, NEW st, CallOK(ids, pids, program, inst, st), st.stage = "program",
         NEW r, Fits(ids, pids, inst, st, r)
  PROVE  CallOK(ids, pids, program, inst, AfterPage(st, r))
  <1> DEFINE page == r.parts[1].data
             next == [st EXCEPT !.got = @ \o page, !.cut = @ \/ r.status = "error"]
             more == [next EXCEPT !.req.start = NextStart(page)]
  <1>1. AtProgram(ids, pids, inst, st) /\ st.part = <<>> /\ DOMAIN st = Fields
    BY DEF CallOK
  <1>2. PICK k \in 0 .. Len(ids), j \in 0 .. Len(pids) :
            /\ Listing(ids, pids, st.got \o page, k, 1, j) /\ Seen(inst, k)
            /\ r.status = "more" => j > 0 /\ NextStart(page) = j + 1
    BY DEF Fits, ProgramFits
  <1>3. /\ DOMAIN next = Fields /\ next.part = <<>> /\ next.got = st.got \o page
        /\ next.cut = (st.cut \/ r.status = "error") /\ next.cut \in BOOLEAN
        /\ next.due = st.due /\ next.stage = "program" /\ next.op = st.op
        /\ next.req = st.req
    BY <1>1 DEF Fields
  <1>4. PICK k0 : st.req = BrowseRequest("program", k0)
    BY <1>1 DEF AtProgram
  <1> HIDE DEF next
  <1>5. CASE r.status = "more"
    <2>0. [next.req EXCEPT !.start = NextStart(page)] = BrowseRequest("program", j + 1)
      BY <1>2, <1>3, <1>4, <1>5 DEF BrowseRequest
    <2>1. /\ DOMAIN more = Fields /\ more.part = <<>> /\ more.got = st.got \o page
          /\ more.cut = next.cut /\ more.due = st.due /\ more.stage = "program"
          /\ more.req = BrowseRequest("program", j + 1)
      BY <2>0, <1>3 DEF Fields
    <2>4. AfterPage(st, r) = more
      BY <1>5 DEF AfterPage, next
    <2> HIDE DEF more
    <2>2. AtProgram(ids, pids, inst, more)
      <3>1. StartAfter(j) = j + 1
        BY <1>2, <1>5 DEF StartAfter
      <3>2. \E k1 \in 0 .. Len(ids), j1 \in 0 .. Len(pids) :
                /\ Listing(ids, pids, more.got, k1, 1, j1) /\ Seen(inst, k1)
                /\ more.req = BrowseRequest("program", StartAfter(j1))
        BY <1>2, <1>5, <2>1, <3>1
      <3>3. NamesIn(st.got) \subseteq NamesIn(st.got \o page)
        <4>1. st.got \in Seq(Entries)
          BY <1>1 DEF AtProgram, Listing
        <4>2. page \in Seq(Entries)
          BY DEF Fits, ProgramFits
        <4> QED
          BY <4>1, <4>2, NamesJoin
      <3> QED
        BY <3>2, <3>3, <2>1, <1>1, <1>3 DEF AtProgram
    <2>3. CallOK(ids, pids, program, inst, more)
      BY <2>1, <2>2, <1>3 DEF CallOK
    <2> QED
      BY <2>3, <2>4
  <1>6. CASE r.status # "more"
    <2>1. AfterPage(st, r) = BrowseTemplates(next)
      BY <1>6 DEF AfterPage, next
    <2>2. next.cut \/ next.due \subseteq NamesIn(next.got)
      BY <1>3, <1>6 DEF Fits, ProgramFits
    <2>3. AfterBrowse(ids, pids, next)
      BY <1>2, <1>3, <2>2 DEF AfterBrowse
    <2>4. CallOK(ids, pids, program, inst, BrowseTemplates(next))
      BY <1>3, <2>3, BrowseTemplatesOK
    <2> QED
      BY <2>1, <2>4
  <1> QED
    BY <1>5, <1>6

\* The size that read_template computes covers the definition.
LEMMA SizeCovers == ReadSize(DefinitionWords) = Len(Definition) + 1
  <1>1. Len(Definition) \in Nat /\ Len(Definition) % 4 = 0
    BY DefinitionAssumption
  <1>2. PICK m \in Nat : Len(Definition) = 4 * m
    BY <1>1
  <1>3. DefinitionWords = m + 6
    BY <1>2 DEF DefinitionWords
  <1> QED
    BY <1>2, <1>3 DEF ReadSize

LEMMA AttributesOK ==
  ASSUME NEW st, CallOK(ids, pids, program, inst, st), st.stage = "attributes",
         NEW r, Fits(ids, pids, inst, st, r)
  PROVE  CallOK(ids, pids, program, inst, AfterAttributes(st, r))
  <1> DEFINE next == AfterAttributes(st, r)
             size == Len(Definition) + 1
  <1>1. DOMAIN st = Fields /\ st.cut \in BOOLEAN /\ st.part = <<>>
    BY DEF CallOK
  <1>2. /\ DOMAIN next = Fields /\ next.cut = st.cut /\ next.part = <<>>
        /\ next.got = st.got /\ next.due = st.due /\ next.op = st.op
        /\ next.stage = "definition" /\ next.req = DefinitionRequest(0, size)
        /\ next.size = size /\ next.pos = 0
    BY <1>1, SizeCovers DEF Fits, AfterAttributes, Fields
  <1> HIDE DEF next
  <1>3. next.op = "browse" => AfterBrowse(ids, pids, next)
    BY <1>2 DEF CallOK, AfterBrowse
  <1>4. AtDefinition(next)
    <2>1. Len(Definition) \in Nat /\ Len(Definition) > 0
      BY DefinitionAssumption
    <2>2. SubSeq(Definition, 1, 0) = <<>>
      BY DefinitionAssumption
    <2>3. DefinitionRequest(0, size) # NoReq
      BY DEF DefinitionRequest, NoReq
    <2> QED
      BY <1>2, <2>1, <2>2, <2>3 DEF AtDefinition
  <1>5. CallOK(ids, pids, program, inst, next)
    BY <1>1, <1>2, <1>3, <1>4 DEF CallOK
  <1> QED
    BY <1>5 DEF next

LEMMA DefinitionOK ==
  ASSUME NEW st, CallOK(ids, pids, program, inst, st), st.stage = "definition", st.req # NoReq,
         NEW r, Fits(ids, pids, inst, st, r)
  PROVE  CallOK(ids, pids, program, inst, AfterDefinition(st, r))
  <1> DEFINE next == AfterDefinition(st, r)
             L == Len(Definition)
  <1>1. DOMAIN st = Fields /\ st.cut \in BOOLEAN
    BY DEF CallOK
  <1>2. /\ st.pos \in 0 .. L - 1 /\ st.size = L + 1
        /\ st.part = SubSeq(Definition, 1, st.pos)
    BY DEF CallOK, AtDefinition
  <1>3. PICK q \in st.pos + 1 .. L :
            /\ r.parts[1].data = SubSeq(Definition, st.pos + 1, q)
            /\ r.status = "more" <=> q < L
    BY DEF Fits, PieceFits
  <1>0. q \in Nat /\ L \in Nat /\ q <= L
    <2>1. q \in st.pos + 1 .. L /\ st.pos \in Nat
      BY <1>2
    <2> QED
      BY <2>1, DefinitionAssumption
  <1>4. L \in Nat /\ Definition \in Seq(Range(Definition)) /\ SubSeq(Definition, 1, L) = Definition
    BY DefinitionAssumption
  <1>5. /\ st.part \o r.parts[1].data = SubSeq(Definition, 1, q)
        /\ st.pos + Len(r.parts[1].data) = q
    <2>1. st.pos \in 0 .. L
      BY <1>2, <1>4
    <2>2. /\ SubSeq(Definition, 1, st.pos) \o SubSeq(Definition, st.pos + 1, q) = SubSeq(Definition, 1, q)
          /\ Len(SubSeq(Definition, st.pos + 1, q)) = q - st.pos
      BY <1>4, <2>1, PiecesJoin
    <2>3. q \in Nat /\ st.pos \in Nat
      BY <1>0, <1>2
    <2>4. st.pos + (q - st.pos) = q
      BY <2>3
    <2> QED
      BY <1>2, <1>3, <2>2, <2>4
  <1>6. /\ DOMAIN next = Fields /\ next.cut = st.cut /\ next.got = st.got
        /\ next.due = st.due /\ next.op = st.op /\ next.stage = "definition"
        /\ next.size = st.size /\ next.pos = q /\ next.part = SubSeq(Definition, 1, q)
        /\ next.req = IF q < L THEN DefinitionRequest(q, st.size - q) ELSE NoReq
    BY <1>1, <1>3, <1>5 DEF AfterDefinition, Fields
  <1> HIDE DEF next
  <1>7. AtDefinition(next)
    <2>1. CASE q < L
      <3>1. DefinitionRequest(q, st.size - q) # NoReq
        BY DEF DefinitionRequest, NoReq
      <3>2. q \in 0 .. L - 1
        BY <1>2, <1>4, <2>1
      <3> QED
        BY <1>2, <1>6, <2>1, <3>1, <3>2 DEF AtDefinition
    <2>2. CASE ~(q < L)
      <3>1. q = L
        BY <1>0, <2>2
      <3> QED
        BY <1>4, <1>6, <2>2, <3>1 DEF AtDefinition
    <2> QED
      BY <2>1, <2>2
  <1>8. next.op = "browse" => AfterBrowse(ids, pids, next)
    BY <1>6 DEF CallOK, AfterBrowse
  <1>9. CallOK(ids, pids, program, inst, next)
    BY <1>1, <1>6, <1>7, <1>8 DEF CallOK
  <1> QED
    BY <1>9 DEF next

LEMMA FragmentOK ==
  ASSUME NEW st, CallOK(ids, pids, program, inst, st), st.op = "struct",
         st.stage = "none",
         NEW r, Fits(ids, pids, inst, st, r)
  PROVE  CallOK(ids, pids, program, inst, AfterFragment(st, r))
  <1> DEFINE next == AfterFragment(st, r)
  <1>1. DOMAIN st = Fields /\ st.cut \in BOOLEAN /\ st.part = <<>>
    BY DEF CallOK
  <1>2. CASE r.status = "error"
    BY <1>2, FreeOK DEF AfterFragment
  <1>3. CASE r.status \in {"ok", "more"}
    <2>1. /\ DOMAIN next = Fields /\ next.cut = st.cut /\ next.part = <<>>
          /\ next.op = st.op /\ next.stage = st.stage
      <3>1. CASE r.status = "ok"
        BY <1>1, <3>1 DEF AfterFragment, Fields
      <3>2. CASE r.status = "more"
        BY <1>1, <3>2 DEF AfterFragment, Fields
      <3> QED
        BY <1>3, <3>1, <3>2
    <2> HIDE DEF next
    <2>2. CallOK(ids, pids, program, inst, next)
      BY <1>1, <2>1 DEF CallOK
    <2> QED
      BY <2>2 DEF next
  <1> QED
    BY <1>2, <1>3 DEF Fits

LEMMA ContinuedOK ==
  ASSUME IdsInv, NEW st, CallOK(ids, pids, program, inst, st), st.req # NoReq,
         NEW r, Fits(ids, pids, inst, st, r)
  PROVE  CallOK(ids, pids, program, inst, Continued(st, r))
  <1>1. st.stage \in {"none", "controller", "program", "attributes", "definition", "done"}
    BY DEF CallOK
  <1>2. CASE st.stage = "controller"
    BY <1>2, ControllerPageOK DEF Continued
  <1>3. CASE st.stage = "program"
    BY <1>3, ProgramPageOK DEF Continued
  <1>4. CASE st.stage = "attributes"
    BY <1>4, AttributesOK DEF Continued
  <1>5. CASE st.stage = "definition"
    BY <1>5, DefinitionOK DEF Continued
  <1>6. CASE st.stage = "none"
    BY <1>6, FragmentOK, FreeOK DEF Continued
  <1>7. st.stage # "done"
    BY DEF CallOK
  <1> QED
    BY <1>1, <1>2, <1>3, <1>4, <1>5, <1>6, <1>7

(***************************************************************************)
(* What the server makes of a request.                                     *)
(***************************************************************************)
\* entries are of the controller's tags, of the program's, or pseudo-tags.
OfTheDatabase(entries) ==
    \A e \in entries :
        /\ e \in Entries
        /\ \/ e.id \in 1 .. Len(ids) /\ e.name = ids[e.id]
           \/ e.id = Pseudo
           \/ e.id \in 1 .. Len(pids)

LEMMA EnsuredKeeps ==
  ASSUME IdsInv, InstInv, NEW entries, OfTheDatabase(entries)
  PROVE  /\ Ensured(entries) \in [Instance -> Tag \cup {Program, NoTag}]
         /\ \A i \in Instance : inst[i] # NoTag => Ensured(entries)[i] # NoTag
         /\ \A e \in entries : e.id \in Instance => Ensured(entries)[e.id] # NoTag
         /\ Len(pids) <= Len(Initial) =>
                \A i \in 1 .. MaxTag : Ensured(entries)[i] # NoTag =>
                    i <= Len(ids) /\ Ensured(entries)[i] = ids[i]
  <1> DEFINE table == Ensured(entries)
             chosen(i) == CHOOSE e \in entries : e.id = i
  <1>1. \A e \in entries : e.id \in Nat /\ e.name \in Tag \cup {Program} /\ e.name # NoTag
    BY ScopeAssumption DEF OfTheDatabase, Entries
  <1>2. \A i \in Instance : table[i] = IF inst[i] = NoTag /\ \E e \in entries : e.id = i
                                       THEN chosen(i).name ELSE inst[i]
    BY DEF Ensured
  <1>3. \A i : (\E e \in entries : e.id = i) => chosen(i) \in entries /\ chosen(i).id = i
    OBVIOUS
  <1>4. DOMAIN table = Instance /\ table = [i \in Instance |-> table[i]]
    BY DEF Ensured
  <1> HIDE DEF table, chosen
  <1>5. \A i \in Instance : table[i] \in Tag \cup {Program, NoTag}
    BY <1>1, <1>2, <1>3 DEF InstInv
  <1>6. \A i \in Instance : inst[i] # NoTag => table[i] # NoTag
    BY <1>2
  <1>7. \A e \in entries : e.id \in Instance => table[e.id] # NoTag
    BY <1>1, <1>2, <1>3
  <1>8. ASSUME Len(pids) <= Len(Initial), NEW i \in 1 .. MaxTag, table[i] # NoTag
        PROVE  i <= Len(ids) /\ table[i] = ids[i]
    <2>1. i \in Instance /\ i # Pseudo /\ i \in Nat
      BY TagBound
    <2>2. CASE inst[i] # NoTag
      BY <1>2, <1>8, <2>1, <2>2 DEF InstInv
    <2>3. CASE inst[i] = NoTag
      <3>1. chosen(i) \in entries /\ chosen(i).id = i /\ table[i] = chosen(i).name
        BY <1>2, <1>3, <1>8, <2>1, <2>3
      <3>2. i \notin 1 .. Len(pids)
        <4>1. i \notin 1 .. Len(Initial)
          BY <2>3 DEF InstInv
        <4>2. Len(Initial) \in Nat /\ Len(pids) \in Nat
          BY InitialAssumption DEF IdsInv
        <4> QED
          BY <1>8, <2>1, <4>1, <4>2
      <3>3. i \in 1 .. Len(ids) /\ chosen(i).name = ids[i]
        BY <2>1, <3>1, <3>2 DEF OfTheDatabase
      <3> QED
        BY <3>1, <3>3
    <2> QED
      BY <2>2, <2>3
  <1> QED
    BY <1>4, <1>5, <1>6, <1>7, <1>8 DEF table

\* From leaves out the entries before the start.
LEMMA FromHere ==
  ASSUME NEW es \in Seq(Entries), NEW b \in 0 .. Len(es), NEW start \in Nat,
         \A i \in 1 .. b : es[i].id < start,
         \A i \in b + 1 .. Len(es) : ~(es[i].id < start)
  PROVE  From(es, start) = SubSeq(es, b + 1, Len(es))
  <1> DEFINE before == {i \in 1 .. Len(es) : es[i].id < start}
  <1>1. b \in Nat /\ Len(es) \in Nat /\ b <= Len(es)
    OBVIOUS
  <1>2. \A i : i \in before <=> i \in 1 .. b
    <2> SUFFICES ASSUME NEW i
                 PROVE  i \in before <=> i \in 1 .. b
      OBVIOUS
    <2>1. i \in 1 .. b => i \in before
      BY <1>1
    <2>2. i \in before /\ i \notin 1 .. b => i \in b + 1 .. Len(es)
      BY <1>1
    <2> QED
      BY <2>1, <2>2
  <1>3. before = 1 .. b
    BY <1>2
  <1>4. Cardinality(1 .. b) = b
    <2>1. 1 \in Int /\ b \in Int
      BY <1>1
    <2>2. Cardinality(1 .. b) = IF 1 > b THEN 0 ELSE b - 1 + 1
      BY <2>1, FS_Interval
    <2> QED
      BY <1>1, <2>2
  <1> QED
    BY <1>3, <1>4 DEF From, Before

LEMMA FirstOnes ==
  ASSUME NEW S, NEW s \in Seq(S), NEW m \in Nat, m <= Len(s)
  PROVE  /\ SubSeq(s, 1, m) \in Seq(S) /\ Len(SubSeq(s, 1, m)) = m
         /\ DOMAIN SubSeq(s, 1, m) = 1 .. m
         /\ \A i \in 1 .. m : SubSeq(s, 1, m)[i] = s[i] /\ i \in 1 .. Len(s)
  OBVIOUS

\* The page the server makes of the entries of a scope, and the entries whose
\* instances it makes for it.
PageIs(es, start, page, seen, status) ==
    LET wanted == From(es, start)
    IN  /\ page = SubSeq(wanted, 1, Lesser(PageSize, Len(wanted)))
        /\ seen = Range(SubSeq(wanted, 1, Lesser(PageSize + 1, Len(wanted))))
        /\ status = IF Len(wanted) > PageSize THEN "more" ELSE "ok"

LEMMA PageOf ==
  ASSUME NEW es \in Seq(Entries), NEW b \in 0 .. Len(es),
         NEW start, From(es, start) = SubSeq(es, b + 1, Len(es)),
         NEW page, NEW seen, NEW status, PageIs(es, start, page, seen, status)
  PROVE  /\ page \in Seq(Entries) /\ b + Len(page) <= Len(es)
         /\ \A i \in 1 .. Len(page) : page[i] = es[b + i] /\ page[i] \in seen
         /\ seen \subseteq Range(es)
         /\ \/ status = "more" /\ Len(page) > 0 /\ b + Len(page) < Len(es)
            \/ status = "ok" /\ b + Len(page) = Len(es)
  <1> DEFINE wanted == From(es, start)
             m == Lesser(PageSize, Len(wanted))
             n == Lesser(PageSize + 1, Len(wanted))
             look == SubSeq(wanted, 1, n)
  <1>1. PageSize \in Nat /\ PageSize > 0
    BY PageAssumption
  <1>2. /\ wanted \in Seq(Entries) /\ Len(wanted) = Len(es) - b /\ Len(wanted) \in Nat
        /\ \A i \in 1 .. Len(wanted) : wanted[i] = es[b + i]
    <2>1. wanted = SubSeq(es, b + 1, Len(es))
      OBVIOUS
    <2> HIDE DEF wanted
    <2> QED
      BY <2>1
  <1> HIDE DEF wanted
  <1>3. /\ m \in Nat /\ n \in Nat /\ m <= n /\ n <= Len(wanted)
        /\ Len(wanted) > PageSize => m = PageSize
        /\ ~(Len(wanted) > PageSize) => m = Len(wanted)
    <2>1. Len(wanted) \in Nat
      BY <1>2
    <2> QED
      BY <1>1, <2>1 DEF Lesser
  <1> HIDE DEF m, n
  <1>4. /\ page \in Seq(Entries) /\ Len(page) = m
        /\ \A i \in 1 .. m : page[i] = wanted[i] /\ i \in 1 .. Len(wanted)
    <2>1. page = SubSeq(wanted, 1, m)
      BY DEF m, wanted, PageIs
    <2>2. /\ SubSeq(wanted, 1, m) \in Seq(Entries) /\ Len(SubSeq(wanted, 1, m)) = m
          /\ \A i \in 1 .. m : SubSeq(wanted, 1, m)[i] = wanted[i] /\ i \in 1 .. Len(wanted)
      <3>1. m <= Len(wanted)
        BY <1>2, <1>3
      <3> QED
        BY <1>2, <1>3, <3>1, FirstOnes
    <2> QED
      BY <2>1, <2>2
  <1>5. /\ seen = Range(look) /\ DOMAIN look = 1 .. n
        /\ \A i \in 1 .. n : look[i] = wanted[i] /\ i \in 1 .. Len(wanted)
    <2>1. seen = Range(look)
      BY DEF n, wanted, PageIs
    <2> QED
      BY <1>2, <1>3, <2>1, FirstOnes
  <1> HIDE DEF look
  <1>6. \A i \in 1 .. m : page[i] = es[b + i] /\ page[i] \in seen
    <2>1. \A i \in 1 .. m : i \in 1 .. n
      BY <1>3
    <2>2. \A i \in 1 .. n : look[i] \in seen
      BY <1>5 DEF Range
    <2>3. \A i \in 1 .. m : page[i] = look[i] /\ page[i] = es[b + i]
      BY <2>1, <1>2, <1>4, <1>5
    <2> QED
      BY <2>1, <2>2, <2>3
  <1>7. seen \subseteq Range(es)
    <2>1. \A i \in 1 .. Len(wanted) : b + i \in 1 .. Len(es)
      BY <1>2
    <2>2. DOMAIN es = 1 .. Len(es)
      OBVIOUS
    <2>3. \A i \in 1 .. n : look[i] = es[b + i] /\ b + i \in DOMAIN es
      BY <2>1, <2>2, <1>2, <1>5
    <2>4. \A e \in seen : \E i \in 1 .. n : e = look[i]
      BY <1>5 DEF Range
    <2>5. \A i \in DOMAIN es : es[i] \in Range(es)
      BY DEF Range
    <2> QED
      BY <2>3, <2>4, <2>5
  <1>8. b \in Nat /\ Len(es) \in Nat /\ b <= Len(es)
    OBVIOUS
  <1>9. \/ status = "more" /\ Len(page) > 0 /\ b + Len(page) < Len(es)
        \/ status = "ok" /\ b + Len(page) = Len(es)
    <2>1. status = IF Len(wanted) > PageSize THEN "more" ELSE "ok"
      BY DEF wanted, PageIs
    <2> QED
      BY <2>1, <1>1, <1>2, <1>3, <1>4, <1>8
  <1>10. b + Len(page) <= Len(es)
    BY <1>2, <1>3, <1>4, <1>8
  <1> QED
    BY <1>4, <1>6, <1>7, <1>9, <1>10

LEMMA ListedAt ==
  ASSUME NEW names \in Seq(Tag)
  PROVE  /\ Listed(names) \in Seq(Entries) /\ Len(Listed(names)) = Len(names)
         /\ \A i \in 1 .. Len(names) : Listed(names)[i] = Entry(i, names[i])
  <1>1. \A i \in 1 .. Len(names) : Entry(i, names[i]) \in Entries
    BY DEF Entry, Entries
  <1> QED
    BY <1>1 DEF Listed

LEMMA ScopesAt ==
  ASSUME IdsInv
  PROVE  /\ ControllerEntries \in Seq(Entries)
         /\ Len(ControllerEntries) = Len(ids) + (IF program THEN 1 ELSE 0)
         /\ \A i \in 1 .. Len(ids) : ControllerEntries[i] = Entry(i, ids[i])
         /\ program => ControllerEntries[Len(ids) + 1] = Entry(Pseudo, Program)
         /\ ProgramEntries \in Seq(Entries) /\ Len(ProgramEntries) = Len(pids)
         /\ \A i \in 1 .. Len(pids) : ProgramEntries[i] = Entry(i, pids[i])
  <1>1. ids \in Seq(Tag) /\ pids \in Seq(Tag)
    BY DEF IdsInv, Tag
  <1>2. /\ Listed(ids) \in Seq(Entries) /\ Len(Listed(ids)) = Len(ids)
        /\ \A i \in 1 .. Len(ids) : Listed(ids)[i] = Entry(i, ids[i])
    BY <1>1, ListedAt
  <1>3. /\ ProgramEntries \in Seq(Entries) /\ Len(ProgramEntries) = Len(pids)
        /\ \A i \in 1 .. Len(pids) : ProgramEntries[i] = Entry(i, pids[i])
    BY <1>1, ListedAt DEF ProgramEntries
  <1>4. Entry(Pseudo, Program) \in Entries
    BY TagBound DEF Entry, Entries
  <1>5. CASE program
    <2>1. ControllerEntries = Listed(ids) \o <<Entry(Pseudo, Program)>>
      BY <1>5 DEF ControllerEntries
    <2> QED
      BY <1>2, <1>3, <1>4, <1>5, <2>1
  <1>6. CASE ~program
    <2>1. ControllerEntries = Listed(ids) \o <<>>
      BY <1>6 DEF ControllerEntries
    <2>2. ControllerEntries = Listed(ids)
      BY <1>2, <2>1
    <2> QED
      BY <1>2, <1>3, <1>6, <2>2
  <1> QED
    BY <1>5, <1>6

\* The next page begins where the last one ended.
LEMMA StartsAt ==
  ASSUME NEW es \in Seq(Entries), NEW k \in 0 .. Len(es),
         \A i \in 1 .. k : es[i].id = i,
         \A i \in k + 1 .. Len(es) : es[i].id > k
  PROVE  From(es, StartAfter(k)) = SubSeq(es, k + 1, Len(es))
  <1>1. k \in Nat /\ Len(es) \in Nat /\ k <= Len(es)
    OBVIOUS
  <1>2. StartAfter(k) \in Nat /\ StartAfter(k) <= k + 1 /\ (k > 0 => StartAfter(k) = k + 1)
    BY <1>1 DEF StartAfter
  <1>3. \A i \in k + 1 .. Len(es) : i \in 1 .. Len(es)
    BY <1>1
  <1>4. \A i \in 1 .. Len(es) : es[i].id \in Nat
    <2>1. \A i \in 1 .. Len(es) : es[i] \in Entries
      OBVIOUS
    <2>2. \A e \in Entries : e.id \in Nat
      BY DEF Entries
    <2> QED
      BY <2>1, <2>2
  <1>5. \A i \in 1 .. k : es[i].id < StartAfter(k)
    BY <1>1, <1>2
  <1>6. \A i \in k + 1 .. Len(es) : ~(es[i].id < StartAfter(k))
    BY <1>1, <1>2, <1>3, <1>4
  <1> QED
    BY <1>2, <1>5, <1>6, FromHere

LEMMA JoinAt ==
  ASSUME NEW got \in Seq(Entries), NEW page \in Seq(Entries)
  PROVE  /\ got \o page \in Seq(Entries) /\ Len(got \o page) = Len(got) + Len(page)
         /\ \A i \in 1 .. Len(got) : (got \o page)[i] = got[i]
         /\ \A i \in 1 .. Len(page) : (got \o page)[Len(got) + i] = page[i]
         /\ got \o <<>> = got
  OBVIOUS

\* The instances of what was there, and of what was seen, are there.
Shows(table, seen) ==
    /\ \A i \in Instance : inst[i] # NoTag => table[i] # NoTag
    /\ \A e \in seen : e.id \in Instance => table[e.id] # NoTag

LEMMA ControllerServed ==
  ASSUME IdsInv, NEW st, AtController(ids, pids, program, inst, st),
         NEW page, NEW seen, NEW r, r.parts[1].data = page,
         PageIs(ControllerEntries, st.req.start, page, seen, r.status),
         NEW table, Shows(table, seen)
  PROVE  ControllerFits(ids, pids, table, st, r)
  <1> DEFINE es == ControllerEntries
             N == Len(ids)
  <1>1. /\ es \in Seq(Entries) /\ Len(es) = N + (IF program THEN 1 ELSE 0)
        /\ \A i \in 1 .. N : es[i] = Entry(i, ids[i])
        /\ program => es[N + 1] = Entry(Pseudo, Program)
    BY ScopesAt
  <1>2. N \in Nat /\ N <= MaxTag /\ Pseudo > N + 1 /\ Pseudo \in Nat /\ MaxTag \in Nat
    BY NoLonger, TagBound DEF IdsInv
  <1>3. PICK k \in 0 .. N :
            /\ Listing(ids, pids, st.got, k, 0, 0) /\ Seen(inst, k)
            /\ st.req = BrowseRequest("controller", StartAfter(k))
    BY DEF AtController
  <1>4. /\ st.got \in Seq(Entries) /\ Len(st.got) = k
        /\ \A i \in 1 .. k : st.got[i] = Entry(i, ids[i])
    BY <1>3 DEF Listing
  <1> HIDE DEF es
  <1>5. From(es, st.req.start) = SubSeq(es, k + 1, Len(es)) /\ k \in 0 .. Len(es)
    <2>1. st.req.start = StartAfter(k)
      BY <1>3 DEF BrowseRequest
    <2>2. k \in 0 .. Len(es)
      BY <1>1, <1>2
    <2>3. \A i \in 1 .. k : es[i].id = i
      BY <1>1, <1>2, EntryFields
    <2>4. \A i \in k + 1 .. Len(es) : es[i].id > k
      <3>1. \A i \in k + 1 .. Len(es) : i > k /\ (i \in 1 .. N \/ (program /\ i = N + 1))
        BY <1>1, <1>2
      <3>2. N \in Nat /\ k \in Nat /\ k <= N
        BY <1>2
      <3> QED
        BY <1>1, <1>2, <3>1, <3>2, EntryFields
    <2> QED
      BY <1>1, <2>1, <2>2, <2>3, <2>4, StartsAt
  <1>6. /\ page \in Seq(Entries) /\ k + Len(page) <= Len(es)
        /\ \A i \in 1 .. Len(page) : page[i] = es[k + i] /\ page[i] \in seen
        /\ \/ r.status = "more" /\ Len(page) > 0 /\ k + Len(page) < Len(es)
           \/ r.status = "ok" /\ k + Len(page) = Len(es)
    <2>1. PageIs(es, st.req.start, page, seen, r.status)
      BY DEF es
    <2>2. es \in Seq(Entries)
      BY <1>1
    <2> QED
      BY <2>2, <1>5, <2>1, PageOf
  <1> DEFINE got == st.got \o page
             n == k + Len(page)
             q == IF n > N THEN 1 ELSE 0
             last == n - q
  <1>7. /\ n \in Nat /\ q \in {0, 1} /\ last \in 0 .. N /\ k <= last /\ Len(page) \in Nat
        /\ k \in Nat /\ (q = 1 => program /\ last = N) /\ n = last + q
    BY <1>1, <1>2, <1>6
  <1>8. /\ got \in Seq(Entries) /\ Len(got) = n
        /\ \A i \in 1 .. k : got[i] = st.got[i]
        /\ \A i \in 1 .. Len(page) : got[k + i] = page[i]
    BY <1>4, <1>6, JoinAt
  <1> HIDE DEF got, n, q, last
  <1>9. \A i \in k + 1 .. n : got[i] = es[i] /\ es[i] \in seen
    <2> SUFFICES ASSUME NEW i \in k + 1 .. n PROVE got[i] = es[i] /\ es[i] \in seen
      OBVIOUS
    <2> DEFINE p == i - k
    <2>1. p \in 1 .. Len(page) /\ k + p = i
      BY <1>7 DEF n
    <2> HIDE DEF p
    <2>2. got[k + p] = page[p]
      BY <2>1, <1>8
    <2>3. page[p] = es[k + p] /\ page[p] \in seen
      BY <2>1, <1>6
    <2> QED
      BY <2>1, <2>2, <2>3
  <1>10. Listing(ids, pids, got, last, q, 0)
    <2>1. \A i \in 1 .. last : got[i] = Entry(i, ids[i])
      <3>1. \A i \in 1 .. last : i \in 1 .. N /\ (i \in 1 .. k \/ i \in k + 1 .. n)
        BY <1>2, <1>7
      <3> QED
        BY <3>1, <1>1, <1>4, <1>8, <1>9
    <2>2. q = 1 => got[last + 1] = Entry(Pseudo, Program)
      <3>1. q = 1 => N + 1 \in k + 1 .. n
        BY <1>2, <1>7
      <3> QED
        BY <3>1, <1>1, <1>7, <1>9
    <2>3. 0 \in 0 .. Len(pids) /\ Len(got) = last + q + 0
      BY <1>7, <1>8 DEF IdsInv
    <2> QED
      BY <2>1, <2>2, <2>3, <1>7, <1>8 DEF Listing
  <1>11. Seen(table, last)
    <2>1. \A i \in 1 .. last : i \in Instance /\ (i \in 1 .. k \/ i \in k + 1 .. n) /\ i \in 1 .. N
      BY <1>2, <1>7, TagBound
    <2>2. \A i \in 1 .. k : inst[i] # NoTag
      BY <1>3 DEF Seen
    <2>3. \A i \in 1 .. N : es[i].id = i
      BY <1>1, EntryFields
    <2> QED
      BY <2>1, <2>2, <2>3, <1>9 DEF Seen, Shows
  <1>12. r.status = "more" => q = 0 /\ last > 0 /\ NextStart(page) = last + 1
    <2> SUFFICES ASSUME r.status = "more"
                 PROVE  q = 0 /\ last > 0 /\ NextStart(page) = last + 1
      OBVIOUS
    <2>1. n < Len(es) /\ Len(page) > 0
      BY <1>6 DEF n
    <2>2. q = 0 /\ last = n /\ n > 0 /\ n \in 1 .. N
      BY <2>1, <1>1, <1>2, <1>7 DEF q, n, last
    <2>3. page[Len(page)] = es[n]
      BY <2>1, <1>6, <1>7 DEF n
    <2>4. es[n].id = n
      BY <2>2, <1>1, EntryFields
    <2> QED
      BY <2>2, <2>3, <2>4 DEF NextStart, Last
  <1>13. r.status = "ok" => st.due \subseteq NamesIn(got)
    <2> SUFFICES ASSUME r.status = "ok"
                 PROVE  st.due \subseteq NamesIn(got)
      OBVIOUS
    <2>1. n = Len(es)
      BY <1>6 DEF n
    <2>2. last = N /\ (program => q = 1)
      BY <2>1, <1>1, <1>2 DEF q, last
    <2>3. Range(ids) \subseteq NamesIn(got)
      BY <2>2, <1>10, ListingNames DEF IdsInv, Range
    <2>4. program => Program \in NamesIn(got)
      BY <2>2, <1>10, ListingNames DEF IdsInv
    <2> QED
      BY <2>3, <2>4 DEF AtController
  <1>14. \E k1 \in 0 .. N, q1 \in {0, 1} :
             /\ Listing(ids, pids, got, k1, q1, 0) /\ Seen(table, k1)
             /\ r.status = "more" => q1 = 0 /\ k1 > 0 /\ NextStart(page) = k1 + 1
    BY <1>7, <1>10, <1>11, <1>12
  <1> QED
    BY <1>6, <1>13, <1>14 DEF ControllerFits, got

LEMMA ProgramServed ==
  ASSUME IdsInv, NEW st, AtProgram(ids, pids, inst, st),
         NEW page, NEW seen, NEW r, r.parts[1].data = page,
         PageIs(ProgramEntries, st.req.start, page, seen, r.status),
         NEW table, Shows(table, seen)
  PROVE  ProgramFits(ids, pids, table, st, r)
  <1> DEFINE es == ProgramEntries
             N == Len(pids)
  <1>1. es \in Seq(Entries) /\ Len(es) = N /\ \A i \in 1 .. N : es[i] = Entry(i, pids[i])
    BY ScopesAt
  <1>2. N \in Nat
    BY DEF IdsInv
  <1>3. PICK k \in 0 .. Len(ids), j \in 0 .. N :
            /\ Listing(ids, pids, st.got, k, 1, j) /\ Seen(inst, k)
            /\ st.req = BrowseRequest("program", StartAfter(j))
    BY DEF AtProgram
  <1>4. /\ st.got \in Seq(Entries) /\ Len(st.got) = k + 1 + j
        /\ \A i \in 1 .. k : st.got[i] = Entry(i, ids[i])
        /\ st.got[k + 1] = Entry(Pseudo, Program)
        /\ \A i \in 1 .. j : st.got[k + 1 + i] = Entry(i, pids[i])
    BY <1>3 DEF Listing
  <1> HIDE DEF es
  <1>5. From(es, st.req.start) = SubSeq(es, j + 1, Len(es)) /\ j \in 0 .. Len(es)
    <2>1. st.req.start = StartAfter(j)
      BY <1>3 DEF BrowseRequest
    <2>2. j \in 0 .. Len(es)
      BY <1>1
    <2>3. \A i \in 1 .. j : es[i].id = i
      BY <1>1, <1>2, EntryFields
    <2>4. \A i \in j + 1 .. Len(es) : es[i].id > j
      <3>1. \A i \in j + 1 .. Len(es) : i > j /\ i \in 1 .. N
        BY <1>1, <1>2
      <3> QED
        BY <1>1, <3>1, EntryFields
    <2> QED
      BY <1>1, <2>1, <2>2, <2>3, <2>4, StartsAt
  <1>6. /\ page \in Seq(Entries) /\ j + Len(page) <= Len(es)
        /\ \A i \in 1 .. Len(page) : page[i] = es[j + i] /\ page[i] \in seen
        /\ \/ r.status = "more" /\ Len(page) > 0 /\ j + Len(page) < Len(es)
           \/ r.status = "ok" /\ j + Len(page) = Len(es)
    <2>1. PageIs(es, st.req.start, page, seen, r.status)
      BY DEF es
    <2>2. es \in Seq(Entries)
      BY <1>1
    <2> QED
      BY <2>2, <1>5, <2>1, PageOf
  <1> DEFINE got == st.got \o page
             n == j + Len(page)
  <1>7. n \in 0 .. N /\ j \in Nat /\ j <= n /\ Len(page) \in Nat /\ k \in Nat /\ n \in Nat
    BY <1>1, <1>2, <1>6
  <1>8. /\ got \in Seq(Entries) /\ Len(got) = Len(st.got) + Len(page)
        /\ \A i \in 1 .. Len(st.got) : got[i] = st.got[i]
        /\ \A i \in 1 .. Len(page) : got[Len(st.got) + i] = page[i]
    BY <1>4, <1>6, JoinAt
  <1> HIDE DEF got, n
  <1>8a. Len(got) = k + 1 + n
    BY <1>4, <1>7, <1>8 DEF n
  <1>9. ASSUME NEW i \in j + 1 .. n
        PROVE  got[k + 1 + i] = Entry(i, pids[i])
    <2> DEFINE d == i - j
    <2>1. d \in 1 .. Len(page) /\ j + d = i /\ Len(st.got) + d = k + 1 + i /\ i \in 1 .. N
      BY <1>4, <1>7 DEF n
    <2> HIDE DEF d
    <2>2. page[d] = es[j + d] /\ got[Len(st.got) + d] = page[d]
      BY <2>1, <1>6, <1>8
    <2> QED
      BY <2>1, <2>2, <1>1
  <1>10. Listing(ids, pids, got, k, 1, n)
    <2>1. \A i \in 1 .. k : got[i] = Entry(i, ids[i])
      <3>1. \A i \in 1 .. k : i \in 1 .. k + 1 + j
        BY <1>7
      <3> QED
        BY <3>1, <1>4, <1>8
    <2>2. got[k + 1] = Entry(Pseudo, Program)
      <3>1. k + 1 \in 1 .. k + 1 + j
        BY <1>7
      <3> QED
        BY <3>1, <1>4, <1>8
    <2>3. \A i \in 1 .. n : got[k + 1 + i] = Entry(i, pids[i])
      <3>1. \A i \in 1 .. j : k + 1 + i \in 1 .. k + 1 + j
        BY <1>7
      <3>2. \A i \in 1 .. n : i \in 1 .. j \/ i \in j + 1 .. n
        BY <1>7
      <3> QED
        BY <3>1, <3>2, <1>4, <1>8, <1>9
    <2> QED
      BY <2>1, <2>2, <2>3, <1>7, <1>8, <1>8a DEF Listing
  <1>11. Seen(table, k)
    <2>1. \A i \in 1 .. k : i \in Instance
      <3>1. Len(ids) <= MaxTag
        BY NoLonger DEF IdsInv
      <3>2. \A i \in 1 .. k : i \in 1 .. MaxTag
        BY <1>7, <3>1, TagBound DEF IdsInv
      <3> QED
        BY <3>2, TagBound
    <2> QED
      BY <2>1, <1>3 DEF Seen, Shows
  <1>12. r.status = "more" => n > 0 /\ NextStart(page) = n + 1
    <2> SUFFICES ASSUME r.status = "more"
                 PROVE  n > 0 /\ NextStart(page) = n + 1
      OBVIOUS
    <2>1. Len(page) > 0
      BY <1>6
    <2>2. n > 0 /\ n \in 1 .. N
      BY <2>1, <1>7 DEF n
    <2>3. page[Len(page)] = es[n]
      BY <2>1, <1>6, <1>7 DEF n
    <2>4. es[n].id = n
      BY <2>2, <1>1, EntryFields
    <2> QED
      BY <2>2, <2>3, <2>4 DEF NextStart, Last
  <1>13. r.status = "ok" => st.cut \/ st.due \subseteq NamesIn(got)
    <2> SUFFICES ASSUME r.status = "ok"
                 PROVE  st.cut \/ st.due \subseteq NamesIn(got)
      OBVIOUS
    <2>1. n = N
      BY <1>1, <1>6 DEF n
    <2>2. Range(pids) \subseteq NamesIn(got)
      BY <2>1, <1>10, ListingNames DEF IdsInv, Range
    <2>3. NamesIn(st.got) \subseteq NamesIn(got)
      BY <1>4, <1>6, NamesJoin DEF got
    <2> QED
      BY <2>2, <2>3 DEF AtProgram
  <1>14. \E k1 \in 0 .. Len(ids), j1 \in 0 .. N :
             /\ Listing(ids, pids, got, k1, 1, j1) /\ Seen(table, k1)
             /\ r.status = "more" => j1 > 0 /\ NextStart(page) = j1 + 1
    BY <1>7, <1>10, <1>11, <1>12
  <1> QED
    BY <1>6, <1>13, <1>14 DEF ProgramFits, got

\* A browse that is refused stays as it is.
LEMMA RefusedFits ==
  ASSUME IdsInv, NEW st, NEW r, r.parts[1].data = <<>>, r.status = "error"
  PROVE  /\ AtController(ids, pids, program, inst, st) => ControllerFits(ids, pids, inst, st, r)
         /\ AtProgram(ids, pids, inst, st) => ProgramFits(ids, pids, inst, st, r)
  <1>1. ASSUME AtController(ids, pids, program, inst, st)
        PROVE  ControllerFits(ids, pids, inst, st, r)
    <2>1. PICK k \in 0 .. Len(ids) : Listing(ids, pids, st.got, k, 0, 0) /\ Seen(inst, k)
      BY <1>1 DEF AtController
    <2>2. st.got \in Seq(Entries) /\ <<>> \in Seq(Entries)
      BY <2>1 DEF Listing
    <2>3. st.got \o <<>> = st.got
      BY <2>2, JoinAt
    <2> QED
      BY <2>1, <2>2, <2>3 DEF ControllerFits
  <1>2. ASSUME AtProgram(ids, pids, inst, st)
        PROVE  ProgramFits(ids, pids, inst, st, r)
    <2>1. PICK k \in 0 .. Len(ids), j \in 0 .. Len(pids) :
              Listing(ids, pids, st.got, k, 1, j) /\ Seen(inst, k)
      BY <1>2 DEF AtProgram
    <2>2. st.got \in Seq(Entries) /\ <<>> \in Seq(Entries)
      BY <2>1 DEF Listing
    <2>3. st.got \o <<>> = st.got
      BY <2>2, JoinAt
    <2> QED
      BY <2>1, <2>2, <2>3 DEF ProgramFits
  <1> QED
    BY <1>1, <1>2

\* The entries of a scope are the database's.
LEMMA SeenOfTheDatabase ==
  ASSUME IdsInv
  PROVE  OfTheDatabase(Range(ControllerEntries)) /\ OfTheDatabase(Range(ProgramEntries))
  <1>0. Len(ids) \in Nat /\ Len(pids) \in Nat
    BY DEF IdsInv
  <1>1. ASSUME NEW e \in Range(ControllerEntries)
        PROVE  /\ e \in Entries
               /\ (e.id \in 1 .. Len(ids) /\ e.name = ids[e.id]) \/ e.id = Pseudo
    <2>1. PICK i \in 1 .. Len(ControllerEntries) : e = ControllerEntries[i]
      BY ScopesAt, RangeOf
    <2>2. i \in 1 .. Len(ids) \/ (program /\ i = Len(ids) + 1)
      BY <1>0, ScopesAt
    <2>3. e \in Entries
      BY <2>1, ScopesAt
    <2> QED
      BY <2>1, <2>2, <2>3, ScopesAt, EntryFields
  <1>2. ASSUME NEW e \in Range(ProgramEntries)
        PROVE  e \in Entries /\ e.id \in 1 .. Len(pids)
    <2>1. PICK i \in 1 .. Len(ProgramEntries) : e = ProgramEntries[i]
      BY ScopesAt, RangeOf
    <2> QED
      BY <2>1, ScopesAt, EntryFields
  <1> QED
    BY <1>1, <1>2 DEF OfTheDatabase

(***************************************************************************)
(* The steps.  What is registered leaves the rest as it is.                *)
(***************************************************************************)
LEMMA TagCount == IdsInv => ids \in Seq(CTag) /\ pids \in Seq(PTag) /\ Len(ids) \in Nat /\ Len(ids) <= MaxTag
  BY NoLonger DEF IdsInv

Growth ==
    /\ Grown(ids, ids') /\ Grown(pids, pids') /\ (program => program')
    /\ \A i \in 1 .. MaxTag : inst[i] # NoTag => inst'[i] # NoTag

LEMMA CallsKept ==
  ASSUME IdsInv, IdsInv', Growth, CallsInv, task' = task
  PROVE  CallsInv'
  <1>1. \A t \in Task : CallOK(ids, pids, program, inst, task[t]) /\ DOMAIN task = Task
    BY DEF CallsInv
  <1>2. \A t \in Task : CallOK(ids', pids', program', inst', task[t])
    <2>1. /\ ids \in Seq(CTag) /\ ids' \in Seq(CTag) /\ pids \in Seq(PTag) /\ pids' \in Seq(PTag)
          /\ program \in BOOLEAN /\ program' \in BOOLEAN /\ Len(ids) <= MaxTag
      BY TagCount DEF IdsInv
    <2>2. /\ Grown(ids, ids') /\ Grown(pids, pids') /\ (program => program')
          /\ \A i \in 1 .. MaxTag : inst[i] # NoTag => inst'[i] # NoTag
      BY DEF Growth
    <2>3. ASSUME NEW st, CallOK(ids, pids, program, inst, st)
          PROVE  CallOK(ids', pids', program', inst', st)
      BY <2>1, <2>2, <2>3, CallKept
    <2> QED
      BY <1>1, <2>3
  <1> QED
    BY <1>1, <1>2 DEF CallsInv

LEMMA AtomsKept ==
  ASSUME IdsInv, Growth, AtomsInv, atoms' = atoms
  PROVE  AtomsInv'
  <1>1. Len(ids) \in Nat /\ Len(ids) <= MaxTag /\ MaxTag \in Nat
    BY TagCount, TagBound
  <1>2. Grown(ids, ids') /\ \A i \in 1 .. Len(ids) : i \in 1 .. MaxTag
    BY <1>1 DEF Growth
  <1>3. \A i \in 1 .. Len(ids) : i \in 1 .. Len(ids') /\ ids'[i] = ids[i]
    BY <1>1, <1>2 DEF Grown
  <1> QED
    BY <1>2, <1>3 DEF AtomsInv, Growth

LEMMA LineKept ==
  ASSUME LineInv, UNCHANGED <<queue, sent, task>>
  PROVE  LineInv'
  BY DEF LineInv, Waits, Holds

LEMMA ExchangeKept ==
  ASSUME IdsInv, IdsInv', Growth, ExchangeInv, UNCHANGED <<wire, stream, sent, task>>
  PROVE  ExchangeInv'
  <1>1. ASSUME NEW t \in sent, Answered(t)
        PROVE  Fits(ids', pids', inst', task[t], stream[1])
    <2>1. /\ ids \in Seq(CTag) /\ ids' \in Seq(CTag) /\ pids \in Seq(PTag) /\ pids' \in Seq(PTag)
          /\ Len(ids) <= MaxTag
      BY TagCount DEF IdsInv
    <2>2. Fits(ids, pids, inst, task[t], stream[1])
      BY <1>1 DEF Answered
    <2> QED
      BY <2>1, <2>2, FitsKept DEF Growth
  <1> QED
    BY <1>1 DEF ExchangeInv, Asked, Answered

LEMMA AppendGrows ==
  ASSUME NEW S, NEW s \in Seq(S), NEW x \in S
  PROVE  Append(s, x) \in Seq(S) /\ Grown(s, Append(s, x)) /\ Len(Append(s, x)) = Len(s) + 1
  BY DEF Grown

LEMMA SameGrown ==
  ASSUME NEW S, NEW s \in Seq(S)
  PROVE  Grown(s, s)
  BY DEF Grown

LEMMA PublishDatabase ==
  ASSUME IdsInv, InstInv, NEW n \in CTag, Publish(n)
  PROVE  IdsInv' /\ InstInv' /\ Growth
  <1>1. /\ ids' = Append(ids, n) /\ n \notin Range(ids)
        /\ pids' = pids /\ program' = program /\ inst' = inst
    BY DEF Publish
  <1>2. /\ ids' \in Seq(CTag) /\ Grown(ids, ids') /\ Len(ids') = Len(ids) + 1
        /\ Len(ids) \in Nat /\ Grown(pids, pids')
    BY <1>1, AppendGrows, SameGrown DEF IdsInv
  <1>3. NoTwice(ids')
    <2>1. \A i \in 1 .. Len(ids) : ids[i] # n /\ ids'[i] = ids[i]
      BY <1>1, <1>2, RangeOf DEF IdsInv, Grown
    <2>2. ids'[Len(ids) + 1] = n
      BY <1>1 DEF IdsInv
    <2>3. \A i \in 1 .. Len(ids') : i \in 1 .. Len(ids) \/ i = Len(ids) + 1
      BY <1>2
    <2> QED
      BY <2>1, <2>2, <2>3 DEF IdsInv, NoTwice
  <1>4. Len(Initial) <= Len(ids')
    BY <1>2, InitialAssumption DEF IdsInv
  <1>5. IdsInv'
    BY <1>1, <1>2, <1>3, <1>4 DEF IdsInv
  <1>6. InstInv'
    <2>1. \A i \in 1 .. MaxTag : i <= Len(ids) => i <= Len(ids') /\ ids'[i] = ids[i]
      BY <1>2, TagBound DEF Grown
    <2> QED
      BY <1>1, <2>1 DEF InstInv
  <1> QED
    BY <1>1, <1>2, <1>5, <1>6 DEF Growth

LEMMA SameTags ==
  ASSUME IdsInv, UNCHANGED database
  PROVE  IdsInv' /\ Grown(ids, ids') /\ Grown(pids, pids') /\ (program => program')
  BY SameGrown DEF IdsInv, database

\* The instances made for entries of the database.
LEMMA EnsuredDatabase ==
  ASSUME IdsInv, InstInv, ids' = ids, pids' = pids, program' = program,
         NEW entries, OfTheDatabase(entries), inst' = Ensured(entries)
  PROVE  IdsInv' /\ InstInv' /\ Growth /\ Shows(inst', entries)
  <1>1. /\ inst' \in [Instance -> Tag \cup {Program, NoTag}]
        /\ Shows(inst', entries)
        /\ Len(pids) <= Len(Initial) =>
               \A i \in 1 .. MaxTag : inst'[i] # NoTag => i <= Len(ids) /\ inst'[i] = ids[i]
    BY EnsuredKeeps DEF Shows
  <1>2. \A i \in 1 .. MaxTag : inst[i] # NoTag => inst'[i] # NoTag
    BY <1>1, TagBound DEF Shows
  <1>3. \A i \in 1 .. Len(Initial) : i \in 1 .. MaxTag
    BY TagCount, TagBound, InitialAssumption DEF IdsInv
  <1>4. InstInv'
    BY <1>1, <1>2, <1>3 DEF InstInv
  <1>5. IdsInv' /\ Grown(ids, ids') /\ Grown(pids, pids')
    BY SameGrown DEF IdsInv
  <1> QED
    BY <1>1, <1>2, <1>4, <1>5 DEF Growth

LEMMA AnnounceDatabase ==
  ASSUME IdsInv, InstInv, Announce
  PROVE  IdsInv' /\ InstInv' /\ Growth
  <1> DEFINE entry == Entry(Len(ids), Last(ids))
  <1>1. ids # <<>> /\ inst' = Ensured({entry}) /\ UNCHANGED <<ids, program, pids>>
    BY DEF Announce
  <1>2. Len(ids) \in 1 .. Len(ids) /\ ids[Len(ids)] \in CTag /\ Last(ids) = ids[Len(ids)]
    BY <1>1 DEF IdsInv, Last
  <1>3. entry \in Entries
    BY <1>2, TagsApart DEF Entry, Entries
  <1>4. OfTheDatabase({entry})
    BY <1>2, <1>3, EntryFields DEF OfTheDatabase
  <1> QED
    BY <1>1, <1>4, EnsuredDatabase

LEMMA ProgramDatabase ==
  ASSUME IdsInv, InstInv, RegisterProgram \/ \E n \in PTag : AddProgramTag(n)
  PROVE  IdsInv' /\ InstInv' /\ Growth
  <1>1. CASE RegisterProgram
    <2>1. program' = TRUE /\ UNCHANGED <<ids, pids, inst>>
      BY <1>1 DEF RegisterProgram
    <2>2. IdsInv' /\ InstInv' /\ Grown(ids, ids') /\ Grown(pids, pids')
      BY <2>1, SameGrown DEF IdsInv, InstInv
    <2> QED
      BY <2>1, <2>2 DEF Growth
  <1>2. ASSUME NEW n \in PTag, AddProgramTag(n)
        PROVE  IdsInv' /\ InstInv' /\ Growth
    <2>1. pids' = Append(pids, n) /\ UNCHANGED <<ids, program, inst>>
      BY <1>2 DEF AddProgramTag
    <2>2. pids' \in Seq(PTag) /\ Grown(pids, pids') /\ Len(pids') = Len(pids) + 1
      BY <2>1, AppendGrows DEF IdsInv
    <2>3. IdsInv' /\ Grown(ids, ids')
      BY <2>1, <2>2, SameGrown DEF IdsInv
    <2>4. Len(pids') <= Len(Initial) => Len(pids) <= Len(Initial)
      BY <2>2, InitialAssumption DEF IdsInv
    <2>5. InstInv'
      BY <2>1, <2>4 DEF InstInv
    <2> QED
      BY <2>1, <2>2, <2>3, <2>5 DEF Growth
  <1> QED
    BY <1>1, <1>2

LEMMA RegisterStep ==
  ASSUME Inv, Register, Others
  PROVE  Inv'
  <1>1. IdsInv' /\ InstInv' /\ Growth
    BY PublishDatabase, AnnounceDatabase, ProgramDatabase DEF Inv, Register
  <1>2. UNCHANGED <<wire, stream, atoms, queue, sent, task>>
    BY DEF Register, Publish, Announce, RegisterProgram, AddProgramTag, Others
  <1> QED
    BY <1>1, <1>2, CallsKept, AtomsKept, LineKept, ExchangeKept DEF Inv

(***************************************************************************)
(* The server answers the request of the lock's holder.                    *)
(***************************************************************************)
LEMMA Asking ==
  ASSUME LineInv, CallsInv, ExchangeInv, wire # NoRequest
  PROVE  \E t \in Task :
            /\ sent = {t} /\ stream = <<>> /\ task[t].req # NoReq
            /\ wire = [task |-> t, req |-> task[t].req, parts |-> wire.parts]
            /\ CallOK(ids, pids, program, inst, task[t])
  <1>1. PICK t \in sent : Asked(t)
    BY DEF ExchangeInv, Answered
  <1>2. t \in Task /\ sent = {t}
    BY DEF LineInv, Holds
  <1>3. t \in Range(queue)
    <2>1. queue \in Seq(Task) /\ NoTwice(queue) /\ queue # <<>> /\ t = Head(queue)
      BY DEF LineInv, Holds
    <2> QED
      BY <2>1, LineMoves
  <1> QED
    BY <1>1, <1>2, <1>3 DEF Asked, LineInv, Waits, CallsInv

\* Which service each stage asks for.
LEMMA ServiceOf ==
  ASSUME NEW st, st.req # NoReq, CallOK(ids, pids, program, inst, st)
  PROVE  /\ st.stage = "controller" => st.req.svc = "browse" /\ st.req.scope = "controller"
         /\ st.stage = "program" => st.req.svc = "browse" /\ st.req.scope = "program"
         /\ st.stage = "attributes" => st.req.svc = "attributes"
         /\ st.stage = "definition" => /\ st.req.svc = "definition"
                                       /\ st.req.off = st.pos /\ st.req.size = st.size - st.pos
  <1>1. st.stage = "controller" => st.req.svc = "browse" /\ st.req.scope = "controller"
    <2> SUFFICES ASSUME st.stage = "controller"
                 PROVE  st.req.svc = "browse" /\ st.req.scope = "controller"
      OBVIOUS
    <2>1. PICK start : st.req = BrowseRequest("controller", start)
      BY DEF CallOK, AtController
    <2> QED
      BY <2>1 DEF BrowseRequest
  <1>2. st.stage = "program" => st.req.svc = "browse" /\ st.req.scope = "program"
    <2> SUFFICES ASSUME st.stage = "program"
                 PROVE  st.req.svc = "browse" /\ st.req.scope = "program"
      OBVIOUS
    <2>1. PICK start : st.req = BrowseRequest("program", start)
      BY DEF CallOK, AtProgram
    <2> QED
      BY <2>1 DEF BrowseRequest
  <1>3. st.stage = "attributes" => st.req.svc = "attributes"
    BY DEF CallOK, AttributesRequest
  <1>4. st.stage = "definition" => /\ st.req.svc = "definition"
                                   /\ st.req.off = st.pos /\ st.req.size = st.size - st.pos
    BY DEF CallOK, AtDefinition, DefinitionRequest
  <1> QED
    BY <1>1, <1>2, <1>3, <1>4

LEMMA Replied ==
  ASSUME LineInv, NEW t \in Task, sent = {t}, stream = <<>>, NEW parts, NEW status,
         Replies(parts, status), UNCHANGED <<queue, sent, task>>,
         NEW r, r = Reply(parts, status), Fits(ids', pids', inst', task[t], r)
  PROVE  ExchangeInv'
  <1>1. stream' = <<r>> /\ wire' = NoRequest
    BY DEF Replies
  <1>2. Len(stream') = 1 /\ stream'[1] = r /\ stream' = << stream'[1] >>
    <2>1. Len(<<r>>) = 1 /\ <<r>>[1] = r
      OBVIOUS
    <2> QED
      BY <1>1, <2>1
  <1>3. Answered(t)'
    BY <1>1, <1>2 DEF Answered
  <1> QED
    BY <1>1, <1>3 DEF ExchangeInv

LEMMA ReplyFields ==
  ASSUME NEW parts, NEW status
  PROVE  Reply(parts, status).parts = parts /\ Reply(parts, status).status = status
  BY DEF Reply

LEMMA AnswerStatus ==
  ASSUME NEW req
  PROVE  Answer(req).status \in {"ok", "more", "error"}
  <1> DEFINE to == Landing(req.path)
  <1>1. Refused.status = "error" /\ Done.status = "ok"
    BY DEF Refused, Done
  <1>2. \A off, len, partial : ReadReply(to, off, len, partial).status \in {"ok", "more"}
    BY DEF ReadReply
  <1>3. BitReply(to).status = "ok"
    BY DEF BitReply
  <1> HIDE DEF to
  <1>4. ReadTag(to, req).status \in {"ok", "more", "error"}
    BY <1>1, <1>2, <1>3 DEF ReadTag
  <1>5. ReadFragment(to, req).status \in {"ok", "more", "error"}
    BY <1>1, <1>2 DEF ReadFragment
  <1> QED
    BY <1>1, <1>4, <1>5 DEF Answer, to

\* What stays as it is when a reply is sent and no instance is made.
LEMMA QuietStep ==
  ASSUME Inv, UNCHANGED <<database, inst>>, Others
  PROVE  IdsInv' /\ InstInv' /\ Growth /\ AtomsInv' /\ LineInv' /\ CallsInv'
  <1>1. IdsInv' /\ Growth
    BY SameTags DEF Inv, Growth
  <1>2. InstInv'
    BY DEF Inv, InstInv, database
  <1> QED
    BY <1>1, <1>2, CallsKept, AtomsKept, LineKept DEF Inv, Others

LEMMA TagStep ==
  ASSUME Inv, ServeTag \/ ServePart \/ RefuseParts, Others
  PROVE  Inv'
  <1>0. /\ HasRequest(TagService \cup {"multiple"})
        /\ UNCHANGED <<database, inst>>
    BY DEF ServeTag, ServePart, RefuseParts, HasRequest
  <1>1. PICK t \in Task :
            /\ sent = {t} /\ stream = <<>> /\ task[t].req # NoReq
            /\ wire = [task |-> t, req |-> task[t].req, parts |-> wire.parts]
            /\ CallOK(ids, pids, program, inst, task[t])
    BY <1>0, Asking DEF HasRequest, Inv
  <1>2. task[t].stage \notin {"controller", "program", "attributes", "definition"}
    <2>1. task[t].req.svc \in TagService \cup {"multiple"}
      BY <1>0, <1>1 DEF HasRequest
    <2> QED
      BY <1>1, <2>1, ServiceOf DEF TagService
  <1>3. \A r : r.status \in {"ok", "more", "error"} => Fits(ids', pids', inst', task[t], r)
    BY <1>2 DEF Fits
  <1>4. IdsInv' /\ InstInv' /\ Growth /\ AtomsInv' /\ LineInv' /\ CallsInv'
    BY <1>0, QuietStep
  <1>5. ASSUME NEW parts, NEW status, Replies(parts, status), status \in {"ok", "more", "error"}
        PROVE  ExchangeInv'
    BY <1>1, <1>3, <1>5, Replied, ReplyFields DEF Inv, Others
  <1>6. ASSUME ServeTag
        PROVE  ExchangeInv'
    BY <1>5, <1>6, AnswerStatus DEF ServeTag
  <1>7. ASSUME RefuseParts
        PROVE  ExchangeInv'
    BY <1>5, <1>7 DEF RefuseParts
  <1>8. ASSUME ServePart
        PROVE  ExchangeInv'
    <2>1. \/ \E parts : Replies(parts, "ok")
          \/ \E parts : wire' = [wire EXCEPT !.parts = parts] /\ UNCHANGED stream
      BY <1>8 DEF ServePart
    <2>2. ASSUME NEW parts, wire' = [wire EXCEPT !.parts = parts], UNCHANGED stream
          PROVE  ExchangeInv'
      <3>1. wire' = [task |-> t, req |-> task[t].req, parts |-> parts]
        BY <1>1, <2>2
      <3>2. Asked(t)'
        BY <1>1, <2>2, <3>1 DEF Asked, Others
      <3> QED
        BY <1>1, <2>2, <3>2 DEF ExchangeInv, Others
    <2> QED
      BY <1>5, <2>1, <2>2
  <1>9. ExchangeInv'
    BY <1>6, <1>7, <1>8
  <1> QED
    BY <1>4, <1>9 DEF Inv

LEMMA TemplateStep ==
  ASSUME Inv, ServeAttributes \/ ServeDefinition, Others
  PROVE  Inv'
  <1>0. HasRequest({"attributes", "definition"}) /\ UNCHANGED <<database, inst>>
    BY DEF ServeAttributes, ServeDefinition, HasRequest
  <1>1. PICK t \in Task :
            /\ sent = {t} /\ stream = <<>> /\ task[t].req # NoReq
            /\ wire = [task |-> t, req |-> task[t].req, parts |-> wire.parts]
            /\ CallOK(ids, pids, program, inst, task[t])
    BY <1>0, Asking DEF HasRequest, Inv
  <1> DEFINE st == task[t]
  <1>2. wire.req = st.req
    BY <1>1
  <1>3. st.stage \notin {"controller", "program"}
    BY <1>0, <1>1, <1>2, ServiceOf DEF HasRequest
  <1>4. IdsInv' /\ InstInv' /\ Growth /\ AtomsInv' /\ LineInv' /\ CallsInv'
    BY <1>0, QuietStep
  <1>5. ASSUME NEW parts, NEW status, Replies(parts, status),
               Fits(ids', pids', inst', st, Reply(parts, status))
        PROVE  ExchangeInv'
    BY <1>1, <1>5, Replied DEF Inv, Others
  <1>6. ASSUME ServeAttributes
        PROVE  ExchangeInv'
    <2> DEFINE parts == <<[status |-> "ok", head |-> <<>>, data |-> <<DefinitionWords>>]>>
               r == Reply(parts, "ok")
    <2>1. Replies(parts, "ok") /\ st.req.svc = "attributes"
      BY <1>2, <1>6 DEF ServeAttributes, HasRequest
    <2>2. r.status = "ok" /\ r.parts[1].data[1] = DefinitionWords
      BY ReplyFields
    <2>3. st.stage # "definition"
      BY <1>1, <2>1, ServiceOf
    <2>4. Fits(ids', pids', inst', st, r)
      BY <1>3, <2>2, <2>3 DEF Fits
    <2> QED
      BY <1>5, <2>1, <2>4
  <1>7. ASSUME ServeDefinition
        PROVE  ExchangeInv'
    <2> DEFINE off == st.req.off
               chunk == Min({Len(Definition) - off, st.req.size, MaxReply})
               status == IF off + chunk < Len(Definition) THEN "more" ELSE "ok"
               parts == <<[status |-> status, head |-> <<>>,
                           data |-> SubSeq(Definition, off + 1, off + chunk)]>>
    <2>1. st.req.svc = "definition"
      BY <1>2, <1>7 DEF ServeDefinition, HasRequest
    <2>2. st.stage # "attributes"
      BY <1>1, <2>1, ServiceOf
    <2>3. CASE st.stage # "definition"
      <3>1. \A r : r.status \in {"ok", "more", "error"} => Fits(ids', pids', inst', st, r)
        BY <1>3, <2>2, <2>3 DEF Fits
      <3>2. Replies(<<Refused>>, "error") \/ Replies(parts, status)
        BY <1>2, <1>7 DEF ServeDefinition
      <3> QED
        BY <1>5, <3>1, <3>2, ReplyFields
    <2>4. CASE st.stage = "definition"
      <3>1. /\ st.pos \in 0 .. Len(Definition) - 1 /\ off = st.pos
            /\ st.req.size = Len(Definition) + 1 - st.pos
        BY <1>1, <2>4, ServiceOf DEF CallOK, AtDefinition
      <3>2. Len(Definition) \in Nat /\ MaxReply \in Nat /\ MaxReply > 4
        BY DefinitionAssumption, PageAssumption
      <3>3. chunk \in Nat /\ chunk > 0 /\ off + chunk <= Len(Definition)
        <4> DEFINE a == Len(Definition) - off
                   b == st.req.size
        <4>1. a \in Nat /\ b \in Nat /\ a > 0 /\ b > a
          BY <3>1, <3>2
        <4> HIDE DEF a, b
        <4>2. chunk \in {a, b, MaxReply} /\ chunk <= a
          BY <4>1, <3>2, LeastOfThree DEF a, b
        <4>3. chunk \in Nat /\ chunk > 0
          BY <4>1, <4>2, <3>2
        <4> HIDE DEF chunk
        <4> QED
          BY <4>2, <4>3, <3>1, <3>2 DEF a
      <3>4. Replies(parts, status)
        <4>1. ~(st.req.off >= Len(Definition))
          BY <3>1, <3>2
        <4> QED
          BY <4>1, <1>2, <1>7 DEF ServeDefinition
      <3> HIDE DEF chunk
      <3>5. PieceFits(st, Reply(parts, status))
        <4>1. off + chunk \in st.pos + 1 .. Len(Definition)
          BY <3>1, <3>2, <3>3
        <4>2. /\ Reply(parts, status).parts[1].data = SubSeq(Definition, st.pos + 1, off + chunk)
              /\ Reply(parts, status).status = status
          BY <3>1, ReplyFields
        <4> QED
          BY <4>1, <4>2 DEF PieceFits
      <3>6. Fits(ids', pids', inst', st, Reply(parts, status))
        BY <2>4, <3>5, ReplyFields DEF Fits
      <3> QED
        BY <1>5, <3>4, <3>6
    <2> QED
      BY <2>3, <2>4
  <1>8. ExchangeInv'
    BY <1>6, <1>7
  <1> QED
    BY <1>4, <1>8 DEF Inv

\* A start is somewhere in the scope, or past it.
LEMMA BeforeBound ==
  ASSUME NEW es \in Seq(Entries), NEW start
  PROVE  Before(es, start) \in 0 .. Len(es)
  <1> DEFINE before == {i \in 1 .. Len(es) : es[i].id < start}
  <1>1. Len(es) \in Int /\ 1 \in Int /\ Len(es) \in Nat
    OBVIOUS
  <1>2. /\ IsFiniteSet(1 .. Len(es))
        /\ Cardinality(1 .. Len(es)) = IF 1 > Len(es) THEN 0 ELSE Len(es) - 1 + 1
    BY <1>1, FS_Interval
  <1>3. Cardinality(1 .. Len(es)) = Len(es)
    BY <1>1, <1>2
  <1>4. before \in SUBSET (1 .. Len(es))
    OBVIOUS
  <1>5. IsFiniteSet(before) /\ Cardinality(before) <= Cardinality(1 .. Len(es))
    BY <1>2, <1>4, FS_Subset
  <1>6. Cardinality(before) \in Nat
    BY <1>5, FS_CardinalityType
  <1>7. Before(es, start) = Cardinality(before)
    BY DEF Before
  <1> HIDE DEF before
  <1>8. Cardinality(before) <= Len(es)
    BY <1>3, <1>5
  <1> QED
    BY <1>1, <1>6, <1>7, <1>8

LEMMA SeenWithin ==
  ASSUME NEW es \in Seq(Entries), NEW start, NEW page, NEW seen, NEW status,
         PageIs(es, start, page, seen, status)
  PROVE  seen \subseteq Range(es)
  <1> DEFINE b == Before(es, start)
  <1>1. b \in 0 .. Len(es) /\ From(es, start) = SubSeq(es, b + 1, Len(es))
    BY BeforeBound DEF From
  <1> HIDE DEF b
  <1> QED
    BY <1>1, PageOf

LEMMA BrowseStep ==
  ASSUME Inv, ServeBrowse, Others
  PROVE  Inv'
  <1>0. HasRequest({"browse"}) /\ UNCHANGED database
    BY DEF ServeBrowse
  <1>1. PICK t \in Task :
            /\ sent = {t} /\ stream = <<>> /\ task[t].req # NoReq
            /\ wire = [task |-> t, req |-> task[t].req, parts |-> wire.parts]
            /\ CallOK(ids, pids, program, inst, task[t])
    BY <1>0, Asking DEF HasRequest, Inv
  <1> DEFINE st == task[t]
             scope == IF st.req.scope = "program" THEN ProgramEntries ELSE ControllerEntries
             wanted == From(scope, st.req.start)
             page == SubSeq(wanted, 1, Lesser(PageSize, Len(wanted)))
             seen == Range(SubSeq(wanted, 1, Lesser(PageSize + 1, Len(wanted))))
             status == IF Len(wanted) > PageSize THEN "more" ELSE "ok"
             parts == <<[status |-> status, head |-> <<>>, data |-> page]>>
             refused == ~Startable(st.req.start) \/ (st.req.scope = "program" /\ ~program)
  <1>2. wire.req = st.req
    BY <1>1
  <1>3. IF refused
        THEN Replies(<<Refused>>, "error") /\ UNCHANGED inst
        ELSE Replies(parts, status) /\ inst' = Ensured(seen)
    BY <1>2 DEF ServeBrowse
  <1>4. PageIs(scope, st.req.start, page, seen, status)
    BY DEF PageIs
  <1>5. st.req.svc = "browse"
    BY <1>0, <1>2 DEF HasRequest
  <1>6. st.stage \notin {"attributes", "definition"}
    BY <1>1, <1>5, ServiceOf
  <1>7. scope \in Seq(Entries) /\ OfTheDatabase(Range(scope))
    BY ScopesAt, SeenOfTheDatabase DEF Inv
  <1>8. status \in {"ok", "more"}
    OBVIOUS
  <1> HIDE DEF scope, wanted, page, seen, status, refused
  <1>9. CASE refused
    <2> DEFINE r == Reply(<<Refused>>, "error")
    <2>1. Replies(<<Refused>>, "error") /\ UNCHANGED <<database, inst>>
      BY <1>0, <1>3, <1>9
    <2>2. IdsInv' /\ InstInv' /\ Growth /\ AtomsInv' /\ LineInv' /\ CallsInv'
      BY <2>1, QuietStep
    <2>3. r.status = "error" /\ r.parts[1].data = <<>>
      BY ReplyFields DEF Refused
    <2> HIDE DEF r
    <2>4. Fits(ids, pids, inst, st, r)
      <3>1. st.stage = "controller" => ControllerFits(ids, pids, inst, st, r)
        BY <1>1, <2>3, RefusedFits DEF CallOK, Inv
      <3>2. st.stage = "program" => ProgramFits(ids, pids, inst, st, r)
        BY <1>1, <2>3, RefusedFits DEF CallOK, Inv
      <3> QED
        BY <3>1, <3>2, <2>3, <1>6 DEF Fits
    <2>5. Fits(ids', pids', inst', st, r)
      BY <2>1, <2>4 DEF database
    <2>6. ExchangeInv'
      BY <1>1, <2>1, <2>5, Replied DEF Inv, Others, r
    <2> QED
      BY <2>2, <2>6 DEF Inv
  <1>10. CASE ~refused
    <2> DEFINE r == Reply(parts, status)
    <2>1. Replies(parts, status) /\ inst' = Ensured(seen) /\ UNCHANGED database
      BY <1>0, <1>3, <1>10
    <2>2. OfTheDatabase(seen)
      <3>1. seen \subseteq Range(scope)
        BY <1>4, <1>7, SeenWithin
      <3> QED
        BY <3>1, <1>7 DEF OfTheDatabase
    <2>3. IdsInv' /\ InstInv' /\ Growth /\ Shows(inst', seen)
      BY <2>1, <2>2, EnsuredDatabase DEF Inv, database
    <2>4. AtomsInv' /\ LineInv' /\ CallsInv'
      BY <2>3, CallsKept, AtomsKept, LineKept DEF Inv, Others
    <2>5. r.status = status /\ r.parts[1].data = page
      BY ReplyFields
    <2> HIDE DEF r
    <2>6. st.stage = "controller" => ControllerFits(ids, pids, inst', st, r)
      <3> SUFFICES ASSUME st.stage = "controller"
                   PROVE  ControllerFits(ids, pids, inst', st, r)
        OBVIOUS
      <3>1. AtController(ids, pids, program, inst, st)
        BY <1>1 DEF CallOK
      <3>2. st.req.scope = "controller"
        BY <1>1, ServiceOf
      <3>3. scope = ControllerEntries
        BY <3>2 DEF scope
      <3>4. PageIs(ControllerEntries, st.req.start, page, seen, r.status)
        BY <1>4, <2>5, <3>3
      <3>5. IdsInv
        BY DEF Inv
      <3> QED
        BY <2>3, <2>5, <3>1, <3>4, <3>5, ControllerServed
    <2>7. st.stage = "program" => ProgramFits(ids, pids, inst', st, r)
      <3> SUFFICES ASSUME st.stage = "program"
                   PROVE  ProgramFits(ids, pids, inst', st, r)
        OBVIOUS
      <3>1. AtProgram(ids, pids, inst, st)
        BY <1>1 DEF CallOK
      <3>2. st.req.scope = "program"
        BY <1>1, ServiceOf
      <3>3. scope = ProgramEntries
        BY <3>2 DEF scope
      <3>4. PageIs(ProgramEntries, st.req.start, page, seen, r.status)
        BY <1>4, <2>5, <3>3
      <3>5. IdsInv
        BY DEF Inv
      <3> QED
        BY <2>3, <2>5, <3>1, <3>4, <3>5, ProgramServed
    <2>8. Fits(ids, pids, inst', st, r)
      BY <1>6, <1>8, <2>5, <2>6, <2>7 DEF Fits
    <2>9. Fits(ids', pids', inst', st, r)
      BY <2>1, <2>8 DEF database
    <2>10. ExchangeInv'
      BY <1>1, <2>1, <2>9, Replied DEF Inv, Others, r
    <2> QED
      BY <2>3, <2>4, <2>10 DEF Inv
  <1> QED
    BY <1>9, <1>10

LEMMA ServeStep ==
  ASSUME Inv, Serve, Others
  PROVE  Inv'
  BY TagStep, TemplateStep, BrowseStep DEF Serve

\* Other peers write tags, and nothing else.
LEMMA ForeignStep ==
  ASSUME Inv, NEW req \in ForeignRequest, Foreign(req), Others
  PROVE  Inv'
  <1>1. UNCHANGED <<database, inst, wire, stream>>
    BY DEF Foreign
  <1>2. IdsInv' /\ InstInv' /\ Growth /\ AtomsInv' /\ LineInv' /\ CallsInv'
    BY <1>1, QuietStep
  <1> QED
    BY <1>1, <1>2, ExchangeKept DEF Inv, Others

(***************************************************************************)
(* The tasks.                                                              *)
(***************************************************************************)
LEMMA StartStep ==
  ASSUME Inv, NEW t \in Task, NEW c \in Calls[t], Start(t, c)
  PROVE  Inv'
  <1> DEFINE st == [First(c) EXCEPT !.op = c.op]
  <1>1. /\ task[t] = Free /\ task' = [task EXCEPT ![t] = st] /\ queue' = Append(queue, t)
        /\ UNCHANGED <<serverVars, atoms, sent>>
    BY DEF Start
  <1>2. /\ UNCHANGED <<ids, pids, program, inst, wire, stream>>
    BY <1>1 DEF serverVars, database
  <1>3. CallOK(ids, pids, program, inst, st) /\ st.req # NoReq
    <2>1. /\ CallOK(ids, pids, program, inst, st)
          /\ First(c).req # NoReq /\ DOMAIN First(c) = Fields
      BY FirstOK DEF Inv
    <2> QED
      BY <2>1 DEF Fields
  <1> HIDE DEF st
  <1>4. task'[t] = st /\ DOMAIN task' = Task /\ \A u \in Task \ {t} : task'[u] = task[u]
    BY <1>1 DEF Inv, CallsInv
  <1>5. IdsInv' /\ InstInv' /\ AtomsInv'
    BY <1>1, <1>2 DEF Inv, IdsInv, InstInv, AtomsInv
  <1>6. CallsInv'
    BY <1>2, <1>3, <1>4 DEF Inv, CallsInv
  <1>7. t \notin Range(queue) /\ queue \in Seq(Task) /\ NoTwice(queue)
    BY <1>1, FreeFields DEF Inv, LineInv, Waits
  <1>8. /\ queue' \in Seq(Task) /\ NoTwice(queue') /\ Range(queue') = Range(queue) \cup {t}
        /\ queue' # <<>> /\ (queue # <<>> => Head(queue') = Head(queue))
    BY <1>1, <1>7, LineGrows
  <1>9. \A u \in sent : u # t /\ u \in Task /\ Holds(u)
    <2>1. \A u \in sent : u \in Task /\ queue # <<>> /\ u = Head(queue)
      BY DEF Inv, LineInv, Holds
    <2> QED
      BY <2>1, <1>7, LineMoves DEF Holds
  <1>10. LineInv'
    <2>1. \A u \in Task : Waits(u)' <=> u \in Range(queue')
      BY <1>3, <1>4, <1>8 DEF Inv, LineInv, Waits
    <2>2. \A u \in sent : Holds(u)'
      BY <1>8, <1>9 DEF Holds
    <2> QED
      BY <1>1, <1>8, <2>1, <2>2 DEF Inv, LineInv
  <1>11. ExchangeInv'
    BY <1>1, <1>2, <1>4, <1>9 DEF Inv, ExchangeInv, Asked, Answered
  <1> QED
    BY <1>5, <1>6, <1>10, <1>11 DEF Inv

LEMMA SendStep ==
  ASSUME Inv, NEW t \in Task, Send(t)
  PROVE  Inv'
  <1>1. /\ Holds(t) /\ t \notin sent /\ wire' = [task |-> t, req |-> task[t].req, parts |-> <<>>]
        /\ sent' = sent \cup {t}
        /\ UNCHANGED <<ids, pids, program, inst, stream, atoms, queue, task>>
    BY DEF Send, database
  <1>2. sent = {}
    BY <1>1 DEF Inv, LineInv, Holds
  <1>3. IdsInv' /\ InstInv' /\ AtomsInv' /\ CallsInv'
    BY <1>1 DEF Inv, IdsInv, InstInv, AtomsInv, CallsInv
  <1>4. LineInv'
    BY <1>1, <1>2 DEF Inv, LineInv, Holds, Waits
  <1>5. Asked(t)'
    BY <1>1, <1>2 DEF Inv, ExchangeInv, Asked
  <1>6. ExchangeInv'
    BY <1>1, <1>2, <1>5 DEF ExchangeInv
  <1> QED
    BY <1>3, <1>4, <1>6 DEF Inv

\* What is cached when a scope is done.
LEMMA CachedOK ==
  ASSUME IdsInv, AtomsInv, NEW st, NEW r, Fits(ids, pids, inst, st, r)
  PROVE  /\ Cached(st, r) \in [Tag -> Nat]
         /\ \A n \in CTag : Cached(st, r)[n] # 0 =>
                /\ Cached(st, r)[n] \in 1 .. Len(ids)
                /\ ids[Cached(st, r)[n]] = n
                /\ inst[Cached(st, r)[n]] # NoTag
  <1> DEFINE got == st.got \o r.parts[1].data
             seen == Range(got)
             chosen(n) == CHOOSE e \in seen : e.name = n
  <1>1. CASE st.stage \in {"controller", "program"} /\ r.status # "more"
    <2>1. PICK k \in 0 .. Len(ids), q \in {0, 1}, j \in 0 .. Len(pids) :
              Listing(ids, pids, got, k, q, j) /\ Seen(inst, k)
      <3>1. CASE st.stage = "controller"
        <4>1. ControllerFits(ids, pids, inst, st, r) /\ 0 \in 0 .. Len(pids)
          BY <3>1 DEF Fits, IdsInv
        <4> QED
          BY <4>1 DEF ControllerFits
      <3>2. CASE st.stage = "program"
        BY <3>2 DEF Fits, ProgramFits
      <3> QED
        BY <1>1, <3>1, <3>2
    <2>2. \A n \in Tag : Cached(st, r)[n] = IF \E e \in seen : e.name = n
                                            THEN chosen(n).id ELSE atoms[n]
      BY <1>1 DEF Cached
    <2>3. Cached(st, r) = [n \in Tag |-> Cached(st, r)[n]]
      BY <1>1 DEF Cached
    <2>4. got \in Seq(Entries)
      BY <2>1 DEF Listing
    <2> HIDE DEF got
    <2>5. \A e \in seen : e.id \in Nat
      <3>1. \A e \in seen : e \in Entries
        BY <2>4, RangeOf
      <3> QED
        BY <3>1 DEF Entries
    <2>6. \A e \in seen : e.name \in CTag => e.id \in 1 .. k /\ e.name = ids[e.id]
      <3>1. ids \in Seq(CTag) /\ pids \in Seq(PTag)
        BY DEF IdsInv
      <3> QED
        BY <2>1, <3>1, ListingNames
    <2>7. \A n : (\E e \in seen : e.name = n) => chosen(n) \in seen /\ chosen(n).name = n
      OBVIOUS
    <2> HIDE DEF seen, chosen
    <2>8. \A n \in Tag : Cached(st, r)[n] \in Nat
      BY <2>2, <2>5, <2>7 DEF AtomsInv
    <2>9. ASSUME NEW n \in CTag, Cached(st, r)[n] # 0
          PROVE  /\ Cached(st, r)[n] \in 1 .. Len(ids)
                 /\ ids[Cached(st, r)[n]] = n
                 /\ inst[Cached(st, r)[n]] # NoTag
      <3>1. n \in Tag
        BY TagsApart
      <3>2. CASE \E e \in seen : e.name = n
        <4>1. Cached(st, r)[n] = chosen(n).id /\ chosen(n).id \in 1 .. k /\ ids[chosen(n).id] = n
          BY <2>2, <2>6, <2>7, <3>1, <3>2
        <4>2. chosen(n).id \in 1 .. Len(ids)
          BY <2>1, <4>1 DEF IdsInv
        <4>3. inst[chosen(n).id] # NoTag
          BY <2>1, <4>1 DEF Seen
        <4> QED
          BY <4>1, <4>2, <4>3
      <3>3. CASE ~\E e \in seen : e.name = n
        BY <2>2, <2>9, <3>1, <3>3 DEF AtomsInv
      <3> QED
        BY <3>2, <3>3
    <2> QED
      BY <2>3, <2>8, <2>9
  <1>2. CASE ~(st.stage \in {"controller", "program"} /\ r.status # "more")
    <2>1. Cached(st, r) = atoms
      BY <1>2 DEF Cached
    <2> QED
      BY <2>1 DEF AtomsInv
  <1> QED
    BY <1>1, <1>2

LEMMA ReceiveStep ==
  ASSUME Inv, NEW t \in Task, Receive(t)
  PROVE  Inv'
  <1> DEFINE r == Head(stream)
             next == Continued(task[t], r)
  <1>1. /\ Holds(t) /\ t \in sent /\ stream # <<>>
        /\ task' = [task EXCEPT ![t] = next]
        /\ queue' = IF next.req = NoReq THEN Tail(queue) ELSE Append(Tail(queue), t)
        /\ atoms' = Cached(task[t], r)
        /\ stream' = Tail(stream) /\ sent' = sent \ {t}
        /\ UNCHANGED <<ids, pids, program, inst, wire>>
    BY DEF Receive, Released, database
  <1>2. Answered(t)
    BY <1>1 DEF Inv, ExchangeInv, Asked
  <1>3. /\ wire = NoRequest /\ Tail(stream) = <<>>
        /\ Fits(ids, pids, inst, task[t], r)
    <2>1. /\ wire = NoRequest /\ stream = << stream[1] >>
          /\ Fits(ids, pids, inst, task[t], stream[1])
      BY <1>2 DEF Answered
    <2>2. \A x : Tail(<<x>>) = <<>>
      OBVIOUS
    <2>3. Head(stream) = stream[1]
      BY <2>1
    <2> QED
      BY <2>1, <2>2, <2>3
  <1>4. /\ queue \in Seq(Task) /\ NoTwice(queue) /\ queue # <<>> /\ t = Head(queue)
        /\ t \in Range(queue)
    <2>1. queue \in Seq(Task) /\ NoTwice(queue) /\ queue # <<>> /\ t = Head(queue)
      BY <1>1 DEF Inv, LineInv, Holds
    <2> QED
      BY <2>1, LineMoves
  <1>5. task[t].req # NoReq
    BY <1>4 DEF Inv, LineInv, Waits
  <1>6. CallOK(ids, pids, program, inst, next)
    BY <1>3, <1>5, ContinuedOK DEF Inv, CallsInv
  <1>7. /\ Cached(task[t], r) \in [Tag -> Nat]
        /\ \A n \in CTag : Cached(task[t], r)[n] # 0 =>
               /\ Cached(task[t], r)[n] \in 1 .. Len(ids)
               /\ ids[Cached(task[t], r)[n]] = n
               /\ inst[Cached(task[t], r)[n]] # NoTag
    BY <1>3, CachedOK DEF Inv
  <1>8. sent = {t} /\ sent' = {} /\ stream' = <<>>
    <2>1. \A u \in sent : u = t
      BY <1>1 DEF Inv, LineInv, Holds
    <2> QED
      BY <1>1, <1>3, <2>1
  <1> HIDE DEF r, next
  <1>9. task'[t] = next /\ DOMAIN task' = Task /\ \A u \in Task \ {t} : task'[u] = task[u]
    BY <1>1 DEF Inv, CallsInv
  <1>10. IdsInv' /\ InstInv' /\ AtomsInv'
    BY <1>1, <1>7 DEF Inv, IdsInv, InstInv, AtomsInv
  <1>11. CallsInv'
    BY <1>1, <1>6, <1>9 DEF Inv, CallsInv
  <1>12. LineInv'
    <2>1. /\ Tail(queue) \in Seq(Task) /\ NoTwice(Tail(queue))
          /\ Range(Tail(queue)) = Range(queue) \ {t}
      BY <1>4, LineMoves
    <2>2. \A u \in Task : Waits(u) <=> u \in Range(queue)
      BY DEF Inv, LineInv
    <2>3. CASE next.req = NoReq
      <3>1. \A u \in Task : Waits(u)' <=> u \in Range(queue')
        BY <1>1, <1>9, <2>1, <2>2, <2>3 DEF Waits
      <3> QED
        BY <1>1, <1>8, <2>1, <2>3, <3>1 DEF LineInv
    <2>4. CASE next.req # NoReq
      <3>1. /\ queue' \in Seq(Task) /\ NoTwice(queue')
            /\ Range(queue') = Range(Tail(queue)) \cup {t}
        BY <1>1, <2>1, <2>4, LineGrows
      <3>2. \A u \in Task : Waits(u)' <=> u \in Range(queue')
        BY <1>4, <1>9, <2>1, <2>2, <2>4, <3>1 DEF Waits
      <3> QED
        BY <1>8, <3>1, <3>2 DEF LineInv
    <2> QED
      BY <2>3, <2>4
  <1>13. ExchangeInv'
    BY <1>1, <1>3, <1>8 DEF ExchangeInv, NoRequest
  <1> QED
    BY <1>10, <1>11, <1>12, <1>13 DEF Inv

LEMMA ReturnStep ==
  ASSUME Inv, NEW t \in Task, Return(t)
  PROVE  Inv'
  <1>1. /\ ~Waits(t) /\ task' = [task EXCEPT ![t] = Free]
        /\ UNCHANGED <<ids, pids, program, inst, wire, stream, atoms, queue, sent>>
    BY DEF Return, Finished, serverVars, database
  <1>2. task'[t] = Free /\ DOMAIN task' = Task /\ \A u \in Task \ {t} : task'[u] = task[u]
    BY <1>1 DEF Inv, CallsInv
  <1>3. CallsInv'
    BY <1>1, <1>2, FreeOK DEF Inv, CallsInv
  <1>4. \A u \in Task : Waits(u)' <=> Waits(u)
    BY <1>1, <1>2, FreeFields DEF Waits
  <1>5. LineInv'
    BY <1>1, <1>4 DEF Inv, LineInv, Holds
  <1>6. t \notin sent
    <2>1. t \in sent => queue \in Seq(Task) /\ NoTwice(queue) /\ queue # <<>> /\ t = Head(queue)
      BY DEF Inv, LineInv, Holds
    <2>2. t \notin Range(queue)
      BY <1>1 DEF Inv, LineInv
    <2> QED
      BY <2>1, <2>2, LineMoves
  <1>7. ExchangeInv'
    BY <1>1, <1>2, <1>6 DEF Inv, LineInv, ExchangeInv, Asked, Answered
  <1>8. IdsInv' /\ InstInv' /\ AtomsInv'
    BY <1>1 DEF Inv, IdsInv, InstInv, AtomsInv
  <1> QED
    BY <1>3, <1>5, <1>7, <1>8 DEF Inv

LEMMA Initially == Init => Inv
  <1> SUFFICES ASSUME Init
               PROVE  Inv
    OBVIOUS
  <1>1. /\ ids = Initial /\ program = FALSE /\ pids = <<>> /\ wire = NoRequest /\ stream = <<>>
        /\ inst = [k \in Instance |-> IF k \in DOMAIN Initial THEN Initial[k] ELSE NoTag]
        /\ atoms = [n \in Tag |-> 0] /\ queue = <<>> /\ sent = {} /\ task = [t \in Task |-> Free]
    BY DEF Init, ServerInit
  <1>2. /\ Initial \in Seq(CTag) /\ NoTwice(Initial) /\ DOMAIN Initial = 1 .. Len(Initial)
        /\ Len(Initial) \in Nat
    BY InitialAssumption DEF NoTwice
  <1>3. IdsInv
    <2>1. <<>> \in Seq(PTag)
      OBVIOUS
    <2>2. Len(Initial) <= Len(Initial)
      BY <1>2
    <2> QED
      BY <1>1, <1>2, <2>1, <2>2 DEF IdsInv
  <1>4. InstInv
    <2>1. \A i \in 1 .. Len(Initial) : Initial[i] \in CTag /\ Initial[i] \in Tag /\ Initial[i] # NoTag
      BY <1>2, TagsApart
    <2>2. \A i \in 1 .. Len(Initial) : i \in Instance
      <3>1. Len(Initial) <= MaxTag
        BY <1>2, NoLonger
      <3> QED
        BY <1>2, <3>1, TagBound
    <2>3. inst \in [Instance -> Tag \cup {Program, NoTag}]
      BY <1>1, <1>2, <2>1
    <2>4. \A i \in 1 .. Len(Initial) : inst[i] # NoTag
      BY <1>1, <1>2, <2>1, <2>2
    <2>5. \A i \in 1 .. MaxTag : inst[i] # NoTag => i <= Len(ids) /\ inst[i] = ids[i]
      BY <1>1, <1>2, TagBound
    <2> QED
      BY <2>3, <2>4, <2>5 DEF InstInv
  <1>5. AtomsInv
    BY <1>1, TagsApart DEF AtomsInv
  <1>6. LineInv
    BY <1>1, FreeFields DEF LineInv, Waits, NoTwice, Range
  <1>7. CallsInv
    BY <1>1, FreeOK DEF CallsInv
  <1>8. ExchangeInv
    BY <1>1 DEF ExchangeInv
  <1> QED
    BY <1>3, <1>4, <1>5, <1>6, <1>7, <1>8 DEF Inv

LEMMA Stutters ==
  ASSUME Inv, UNCHANGED vars
  PROVE  Inv'
  BY DEF vars, serverVars, database, Inv, IdsInv, InstInv, AtomsInv, LineInv, CallsInv, ExchangeInv,
         Waits, Holds, Asked, Answered

LEMMA Stays == Inv /\ [Next]_vars => Inv'
  <1> SUFFICES ASSUME Inv, [Next]_vars
               PROVE  Inv'
    OBVIOUS
  <1>1. ASSUME NEW t \in Task, NEW c \in Calls[t], Start(t, c)
        PROVE  Inv'
    BY <1>1, StartStep
  <1>2. ASSUME NEW t \in Task, Send(t) \/ Receive(t) \/ Return(t)
        PROVE  Inv'
    BY <1>2, SendStep, ReceiveStep, ReturnStep
  <1>3. CASE Serve /\ Others
    BY <1>3, ServeStep
  <1>4. CASE Register /\ Others
    BY <1>4, RegisterStep
  <1>5. ASSUME NEW req \in ForeignRequest, Foreign(req), Others
        PROVE  Inv'
    BY <1>5, ForeignStep
  <1>6. CASE UNCHANGED vars
    BY <1>6, Stutters
  <1> QED
    BY <1>1, <1>2, <1>3, <1>4, <1>5, <1>6 DEF Next

LEMMA Always == Spec => []Inv
  BY Initially, Stays, PTL DEF Spec

(***************************************************************************)
(* What a task may rely on.                                                *)
(***************************************************************************)
\* A path that is built from the cache leads to the tag it was cached for.
THEOREM CacheCorrect == Spec => []CachedIdsHold
  <1>1. Inv => CachedIdsHold
    <2> SUFFICES ASSUME Inv, Len(pids) <= Len(Initial), NEW n \in CTag, atoms[n] # 0
                 PROVE  inst[atoms[n]] = n
      BY DEF CachedIdsHold
    <2>1. atoms[n] \in 1 .. Len(ids) /\ ids[atoms[n]] = n /\ inst[atoms[n]] # NoTag
      BY DEF Inv, AtomsInv
    <2>2. atoms[n] \in 1 .. MaxTag
      BY <2>1, TagCount, TagBound DEF Inv
    <2> QED
      BY <2>1, <2>2 DEF Inv, InstInv
  <1> QED
    BY <1>1, Always, PTL

\* The pages of a browse, put together, are in order and have no gaps,
\* whatever is added between them.
THEOREM BrowseCorrect == Spec => []BrowseHasNoGaps
  <1>1. Inv => BrowseHasNoGaps
    <2> SUFFICES ASSUME Inv, NEW t \in Task, Browsed(t)
                 PROVE  /\ Ascends(task[t].got, CTag \cup {Program}) /\ Ascends(task[t].got, PTag)
                        /\ task[t].cut \/ task[t].due \subseteq NamesIn(task[t].got)
                        /\ \A i \in DOMAIN ids :
                               /\ ids[i] \in task[t].due
                               /\ \E e \in Range(task[t].got) : e.name \in CTag /\ e.id > i
                               => ids[i] \in NamesIn(task[t].got)
      BY DEF BrowseHasNoGaps
    <2>1. AfterBrowse(ids, pids, task[t])
      BY DEF Inv, CallsInv, CallOK, Browsed
    <2>2. PICK k \in 0 .. Len(ids), q \in {0, 1}, j \in 0 .. Len(pids) :
              Listing(ids, pids, task[t].got, k, q, j)
      BY <2>1 DEF AfterBrowse
    <2>3. ids \in Seq(CTag) /\ NoTwice(ids) /\ pids \in Seq(PTag) /\ DOMAIN ids = 1 .. Len(ids)
      BY DEF Inv, IdsInv
    <2>4. /\ Ascends(task[t].got, CTag \cup {Program}) /\ Ascends(task[t].got, PTag)
          /\ \A i \in 1 .. Len(ids) :
                 (\E e \in Range(task[t].got) : e.name \in CTag /\ e.id > i)
                     => ids[i] \in NamesIn(task[t].got)
      BY <2>2, <2>3, ListingOrdered
    <2> QED
      BY <2>1, <2>3, <2>4 DEF AfterBrowse
  <1> QED
    BY <1>1, Always, PTL

\* The pieces that read_template puts together are the whole definition.
THEOREM TemplateCorrect == Spec => []TemplateWhole
  <1>1. Inv => TemplateWhole
    BY DEF Inv, CallsInv, CallOK, AtDefinition, TemplateWhole, Finished, Waits
  <1> QED
    BY <1>1, Always, PTL
==============================================================================
