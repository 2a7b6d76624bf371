---------------------------- MODULE MCConnector ----------------------------
(* Connector on small instances: the values of the PipeLimit option, the   *)
(* bound on the dialers of one behaviour, and the symmetry of the pipes,   *)
(* which safety does not tell apart.                                       *)
EXTENDS Connector, TLC

NoLimitOrOne == {-1, 0, 1}
OneOrTwo == {1, 2}
OneDialer == Cardinality(made \cap Dialers) <= 1
PipeSymmetry == Permutations(Pipes)
=============================================================================
