--------------------------- MODULE MCNdisProtStatus ---------------------------
(***************************************************************************)
(* Instances of NdisProtStatus for TLC.                                     *)
(***************************************************************************)
EXTENDS NdisProtStatus, TLC

\* IRPs are told apart by no definition of the model.
Symmetry == Permutations(Irps)
=============================================================================
