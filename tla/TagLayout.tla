------------------------------ MODULE TagLayout ------------------------------
(***************************************************************************)
(* Where things lie in the buffer of a Logix tag: how add_template lays    *)
(* out the members of a structure (logix/tag_database.py), and how walk    *)
(* follows the member and element segments of a request path from the root *)
(* of a tag to a place in its buffer (logix/walker.py).                    *)
(***************************************************************************)
EXTENDS Integers, Sequences, SequencesExt

CONSTANTS Shape,     \* name of a tag -> [size, dims, type] of one element
          Template   \* type of a structure -> member -> [off, size, count, type, bit]

Atomic == "atomic"   \* the type of what has no template
NoBit == "no_bit"

Lesser(a, b) == IF a <= b THEN a ELSE b

(***************************************************************************)
(* Layout.  A member is [size, count]; a laid out one has its offset too.  *)
(***************************************************************************)
HasBit(x, b) == (x \div b) % 2 = 1

\* x & mask, for a mask of three bits.
Masked(x, mask) ==
    LET both(b) == IF HasBit(x, b) /\ HasBit(mask, b) THEN b ELSE 0
    IN  both(1) + both(2) + both(4)

\* (n + unit - 1) & ~(unit - 1), for units up to 8: the next multiple of the
\* unit when it is a power of two, some number less than n + unit when not.
RoundUp(n, unit) == LET x == n + unit - 1 IN x - Masked(x, unit - 1)

Alignment(size) == IF size > 0 THEN Lesser(size, 8) ELSE 1

Place(acc, m) ==
    LET at == RoundUp(acc.end, Alignment(m.size))
    IN  [members |-> Append(acc.members, [off |-> at, size |-> m.size, count |-> m.count]),
         end |-> at + m.size * m.count]

Layout(ms) == FoldLeft(Place, [members |-> <<>>, end |-> 0], ms)

StructureSize(ms) == RoundUp(Layout(ms).end, 4)

(***************************************************************************)
(* Tags.                                                                   *)
(***************************************************************************)
IsStruct(n) == Shape[n].type # Atomic

ElementCount(n) == FoldLeft(LAMBDA a, d : a * d, 1, Shape[n].dims)

DataSize(n) == Shape[n].size * ElementCount(n)

(***************************************************************************)
(* The walker.  A segment is [member |-> name, index |-> NoIndex] or       *)
(* [member |-> NoMember, index |-> n].  The walk carries the place it has  *)
(* come to, the dimensions of an array still to be indexed and the element *)
(* number they have given so far; a place that does not exist is NoPlace.  *)
(***************************************************************************)
NoMember == "no_member"
NoIndex == -1

MemberOf(name) == [member |-> name, index |-> NoIndex]
ElementOf(n) == [member |-> NoMember, index |-> n]

NoPlace == [off |-> -1, size |-> 0, type |-> Atomic, bit |-> NoBit, dims |-> <<>>, run |-> 0]

Root(n) == [off |-> 0, size |-> Shape[n].size, type |-> Shape[n].type, bit |-> NoBit,
            dims |-> Shape[n].dims, run |-> 0]

\* A member segment: on an element of a structure, of a known member.
IntoMember(at, name) ==
    IF at.bit # NoBit \/ at.dims # <<>> \/ at.type \notin DOMAIN Template
    THEN NoPlace
    ELSE IF name \notin DOMAIN Template[at.type]
    THEN NoPlace
    ELSE LET m == Template[at.type][name]
         IN  [off |-> at.off + m.off, size |-> m.size, type |-> m.type, bit |-> m.bit,
              dims |-> IF m.count > 1 THEN <<m.count>> ELSE <<>>, run |-> 0]

\* An element segment: on an array, within its next dimension.
IntoElement(at, n) ==
    IF at.bit # NoBit \/ at.dims = <<>> THEN NoPlace
    ELSE IF n >= Head(at.dims) THEN NoPlace
    ELSE LET run == at.run * Head(at.dims) + n
         IN  IF Len(at.dims) > 1
             THEN [at EXCEPT !.dims = Tail(@), !.run = run]
             ELSE [at EXCEPT !.dims = <<>>, !.run = 0, !.off = at.off + run * at.size]

Into(at, seg) ==
    IF at = NoPlace THEN NoPlace
    ELSE IF seg.member # NoMember THEN IntoMember(at, seg.member)
    ELSE IntoElement(at, seg.index)

\* An array left without an index is no place.
Walk(n, segments) ==
    LET at == FoldLeft(Into, Root(n), segments)
    IN  IF at.dims = <<>> THEN at ELSE NoPlace
=============================================================================
