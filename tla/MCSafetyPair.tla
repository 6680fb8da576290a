---------------------------- MODULE MCSafetyPair ----------------------------
(***************************************************************************)
(* Two pairs on one scanner, one with a configuration id and one without,  *)
(* and others that open with another, with a triad of the first pair, or a *)
(* connection that is no safety connection.                                *)
(***************************************************************************)
EXTENDS SafetyPair

MCOrigOf == [p \in {"p1", "p2"} |-> IF p = "p1" THEN "o1" ELSE "o2"]
MCScannerOf == [p \in {"p1", "p2"} |-> "s1"]
MCConfigOf == [p \in {"p1", "p2"} |-> IF p = "p1" THEN "x" ELSE "zero"]
MCMarkedOf == [p \in {"p1", "p2"} |-> FALSE]

Others(kind, orig, id) ==
    [kind |-> kind, orig |-> orig, serial |-> 1, scid |-> id, tunid |-> "u1", marked |-> FALSE]

MCOther == {Others("server", "o1", "y"), Others("client", "o2", "zero"),
            Others("standard", "o2", "zero"),
            [Others("server", "o2", "x") EXCEPT !.marked = TRUE]}
=============================================================================
