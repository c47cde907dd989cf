--------------------------- MODULE MCBinarySearch ---------------------------
(* Instance of BinarySearch for TLC.                                        *)
EXTENDS BinarySearch

\* Between, below and above the elements of a container there are others.
FiveElements == -2 .. 2
=============================================================================
