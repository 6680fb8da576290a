---------------------------- MODULE MCEipAdapter ----------------------------
\* Instances of EipAdapter for TLC.
EXTENDS EipAdapter, TLC

CONSTANTS s1, s2, s3

MCSocket == {s1, s2, s3}
=============================================================================
