------------------------------ MODULE MCBuffer ------------------------------
(* Instances of CircularBuffer.                                              *)
EXTENDS CircularBuffer

CONSTANTS e1, e2
=============================================================================
