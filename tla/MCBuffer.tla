------------------------------ MODULE MCBuffer ------------------------------
(* Instances of Buffer for TLC.                                            *)
EXTENDS Buffer

CONSTANTS b0, b1   \* two byte values
=============================================================================
