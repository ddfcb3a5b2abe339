---------------------------- MODULE MCDiscovery ----------------------------
(***************************************************************************)
(* Instances of Discovery for TLC: overlapping probes, three default      *)
(* paths of which the first, or every one, is missing.                     *)
(***************************************************************************)
EXTENDS Discovery

CONSTANTS p1, p2, p3

TwoProbes == {p1, p2}
ThreeProbes == {p1, p2, p3}
SomeOrNoFile == {{}, {2, 3}}
SomeFile == {{2, 3}}
=============================================================================
