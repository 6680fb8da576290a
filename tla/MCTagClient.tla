----------------------------- MODULE MCTagClient -----------------------------
(***************************************************************************)
(* An array A of two elements, a tag T, a structure S with two members     *)
(* that add_template lays out and a BOOL member in the gap it leaves, and  *)
(* a program X with a tag P.                                               *)
(***************************************************************************)
EXTENDS TagClient

Zero == {}
One == {"b"}

MCInitial == <<"A", "T">>

Members == <<[size |-> 1, count |-> 1], [size |-> 2, count |-> 1]>>

MCShape == [n \in {"A", "T", "S", "P"} |->
    CASE n = "A" -> [size |-> 1, dims |-> <<2>>, type |-> Atomic]
      [] n = "S" -> [size |-> 4, dims |-> <<>>, type |-> "udt"]
      [] OTHER   -> [size |-> 1, dims |-> <<>>, type |-> Atomic]]

MCTemplate == [type \in {"udt"} |-> [m \in {"speed", "level", "run"} |->
    CASE m = "speed" -> [off |-> 0, size |-> 1, count |-> 1, type |-> Atomic, bit |-> NoBit]
      [] m = "level" -> [off |-> 2, size |-> 2, count |-> 1, type |-> Atomic, bit |-> NoBit]
      [] m = "run"   -> [off |-> 1, size |-> 1, count |-> 1, type |-> Atomic, bit |-> "b"]]]

\* The template is the one add_template makes of Members, and add_template is right.
ASSUME TemplateAssumption ==
    /\ LayoutSound
    /\ StructureSize(Members) = MCShape["S"].size
    /\ \A i \in 1 .. 2 :
           Layout(Members).members[i].off = MCTemplate["udt"][<<"speed", "level">>[i]].off

MCDefinition == [i \in 1 .. 12 |-> i]

At(root, segs) == [root |-> root, segs |-> segs]
Whole(n) == At(n, <<>>)
Element(i) == At("A", <<ElementOf(i)>>)
Level == At("S", <<MemberOf("level")>>)
Run == At("S", <<MemberOf("run")>>)

MCAddress == {Whole(n) : n \in {"A", "S", "P"}} \cup {Element(i) : i \in 0 .. 2} \cup {Level, Run}

MCExtent == [a \in MCAddress |->
    CASE a = Whole("S")  -> [off |-> 0, size |-> 4, type |-> "udt"]
      [] a = Element(1)  -> [off |-> 1, size |-> 1, type |-> Atomic]
      [] a = Element(2)  -> [off |-> 2, size |-> 0, type |-> Atomic]
      [] a = Level       -> [off |-> 2, size |-> 2, type |-> Atomic]
      [] a = Run         -> [off |-> 1, size |-> 1, type |-> Atomic]
      [] OTHER           -> [off |-> 0, size |-> 1, type |-> Atomic]]

\* Other peers and the scan.  The last element does not exist.
ByNameOf(a) == [root |-> a.root, segs |-> a.segs, id |-> 0]
ByIdOf(a, id) == [root |-> a.root, segs |-> a.segs, id |-> id]

\* The ids of A and of S, which is added third.
IdOf(n) == IF n = "A" THEN 1 ELSE 3

MCForeign ==
    {[svc |-> "write", path |-> ByNameOf(a), count |-> 1, off |-> 0,
      type |-> MCExtent[a].type, bytes |-> <<One, One>>] : a \in {Element(1), Element(2), Level, Run}}
    \cup
    {[svc |-> "write", path |-> ByNameOf(Run), count |-> 1, off |-> 0,
      type |-> Atomic, bytes |-> <<Zero>>]}
    \cup
    {[svc |-> "write_fragment", path |-> ByNameOf(Whole(n)), count |-> c, off |-> 1,
      type |-> MCExtent[Whole(n)].type, bytes |-> <<One>>] : n \in {"A", "S"}, c \in {1, 2, 3}}
    \cup
    {[svc |-> "write", path |-> ByIdOf(a, IdOf(a.root)), count |-> 1, off |-> 0,
      type |-> MCShape[a.root].type, bytes |-> [i \in 1 .. 4 |-> Zero]] :
        a \in {Element(1), Element(2), Whole("S"), Level}}
    \cup
    {[svc |-> "write_fragment", path |-> ByIdOf(Element(1), 1), count |-> 1, off |-> o,
      type |-> Atomic, bytes |-> <<One>>] : o \in {0, 1}}
    \cup
    {[svc |-> "modify", path |-> p, count |-> 2, off |-> 0,
      bytes |-> <<Zero, One>>, mask |-> <<Zero, One>>] :
        p \in {ByNameOf(Element(1)), ByNameOf(Level), ByIdOf(Element(1), 1)}}
    \cup
    {[svc |-> "modify", path |-> ByNameOf(Whole("A")), count |-> 2, off |-> 0,
      bytes |-> <<Zero, Zero, One>>, mask |-> <<Zero, One, One>>]}

Reads(as) == {[op |-> "read", addr |-> a, count |-> 1] : a \in as}

Update == [op |-> "write", addr |-> Element(1), count |-> 1, bytes |-> <<One>>]

Batch == [op |-> "multiple", subs |->
            <<[svc |-> "write", addr |-> Element(1), bytes |-> <<Zero>>],
              [svc |-> "read", addr |-> Element(1), bytes |-> <<>>]>>]

\* One service more than MaxServices.
TooMany == [op |-> "multiple", subs |->
            [i \in 1 .. 3 |-> [svc |-> "read", addr |-> Element(0), bytes |-> <<>>]]]

\* One task reads and browses; the other writes meanwhile.
MCCalls == [t \in {"t1", "t2"} |->
    IF t = "t1"
    THEN Reads({Element(1), Whole("S")}) \cup {[op |-> "struct", addr |-> Whole("S")],
            [op |-> "template"], [op |-> "browse"]}
    ELSE {Update, Batch, TooMany}]

\* Programs and members are read by their names after a browse.
NamedCalls == [t \in {"t1", "t2"} |->
    IF t = "t1" THEN Reads({Whole("P"), Level, Run}) ELSE {[op |-> "browse"]}]

\* read_struct, of a structure that takes two replies when MaxReply is 6.
StructCalls == [t \in {"t1", "t2"} |->
    IF t = "t1" THEN {[op |-> "struct", addr |-> Whole("S")]} ELSE {Update}]

\* What the proofs ask of the constants is so here.
ASSUME PlacesAssumption ==
    /\ PlacesFound
    /\ FewProgramTags
    /\ \A t \in Task : \A c \in MCCalls[t] \cup StructCalls[t] : DirectCall(c)
    /\ MaxReply = 8 => \A t \in Task : \A c \in MCCalls[t] : FitsReply(c)
=============================================================================
