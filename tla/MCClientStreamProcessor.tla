----------------------- MODULE MCClientStreamProcessor -----------------------
(* Model values for ClientStreamProcessor: two caller fibers.              *)
EXTENDS ClientStreamProcessor

CONSTANTS c1, c2

MCCallers == {c1, c2}
MCSymmetry == Permutations(MCCallers)
=============================================================================
