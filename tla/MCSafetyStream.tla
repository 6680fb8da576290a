--------------------------- MODULE MCSafetyStream ---------------------------
\* Instances of SafetyStream for TLC.
EXTENDS SafetyStream

\* Connections that open with rollover value zero, as in the loopback example;
\* a target's time stamp may also begin a quarter into the cycle.
MCStarts ==
    [producer : {"originator", "target"}, ts : {0}, roll : {0}]
        \cup [producer : {"target"}, ts : {Quarter}, roll : {0}]

\* The defaults of SafetyForwardOpenConfig, 0xFFFF for both values, on a server
\* connection.
MCDefaultStart == {[producer |-> "originator", ts |-> Wrap - 1, roll |-> Wrap - 1]}
=============================================================================
