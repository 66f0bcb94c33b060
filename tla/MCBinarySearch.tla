--------------------------- MODULE MCBinarySearch ---------------------------
(***************************************************************************)
(* Two goroutines, four keys (a slice of up to four records takes bisection *)
(* through every path: left, right, and bounds 1, 2, 3 and 4 apart) and two *)
(* destinations, so that a replaced record can be told from the old one.    *)
(***************************************************************************)
EXTENDS BinarySearch

MCKey == 1 .. 4
=============================================================================
