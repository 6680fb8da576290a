-------------------------- MODULE MCVirtualDevice --------------------------
\* Instances of VirtualDevice for TLC.
EXTENDS VirtualDevice, TLC

CONSTANTS s1, s2, h1, h2, t1, t2, t3

MCHostOf == (s1 :> h1 @@ s2 :> h2)

\* Triads may be exchanged, and the two peers together with their addresses.
MCSymmetry == {f \in Permutations({s1, s2, h1, h2, t1, t2, t3}) :
                  /\ \A s \in Socket : f[s] \in Socket /\ HostOf[f[s]] = f[HostOf[s]]
                  /\ \A t \in Triad : f[t] \in Triad}
=============================================================================
