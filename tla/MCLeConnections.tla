--------------------------- MODULE MCLeConnections ---------------------------
(***************************************************************************)
(* Instances of LeConnections.                                             *)
(***************************************************************************)
EXTENDS LeConnections, TLC

SmallClientOrder == <<"le", "scan">>
Symmetry == Permutations(Devices)

\* Two connections can be asked for, everything else may happen once.
SmallBounds == [kind \in Kinds |-> IF kind = "connect" THEN 2 ELSE 1]
==============================================================================
