--------------------------- MODULE ConnectionTable ---------------------------
(***************************************************************************)
(* What a target promises to its originators about connections, with ids,  *)
(* tasks, datagrams and timers left out: a connection is the lease of a    *)
(* triad to one TCP peer.  Module VirtualDevice implements it.             *)
(***************************************************************************)
EXTENDS Integers, FiniteSets

CONSTANTS Socket, Triad, MaxConn

VARIABLES open,    \* the peers that are connected
          leases   \* pairs of a peer and a triad it holds

vars == <<open, leases>>

Init == open = {} /\ leases = {}

Leased(t) == \E s \in Socket : <<s, t>> \in leases

Connect(s) ==
    /\ s \notin open
    /\ open' = open \cup {s}
    /\ UNCHANGED leases

\* Only a connected peer is granted a triad, and only one that nobody holds.
Grant(s, t) ==
    /\ s \in open
    /\ ~Leased(t)
    /\ Cardinality(leases) < MaxConn
    /\ leases' = leases \cup {<<s, t>>}
    /\ UNCHANGED open

\* A lease ends alone: closed by any peer, or timed out.
Release(t) ==
    /\ Leased(t)
    /\ leases' = {l \in leases : l[2] # t}
    /\ UNCHANGED open

\* A peer that leaves gives all its leases back in the same step.
Drop(s) ==
    /\ s \in open
    /\ open' = open \ {s}
    /\ leases' = {l \in leases : l[1] # s}

\* The device closes: every lease ends.
Shutdown ==
    /\ leases' = {}
    /\ UNCHANGED open

Next ==
    \/ \E s \in Socket : Connect(s) \/ Drop(s)
    \/ \E s \in Socket, t \in Triad : Grant(s, t)
    \/ \E t \in Triad : Release(t)
    \/ Shutdown

Spec == Init /\ [][Next]_vars
=============================================================================
