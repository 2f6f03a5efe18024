---------------------------- MODULE MCNdisProtSend ----------------------------
(***************************************************************************)
(* Instances of NdisProtSend for TLC.                                       *)
(***************************************************************************)
EXTENDS NdisProtSend, TLC

\* Writes are told apart by no definition of the model.
Symmetry == Permutations(Writes)

\* The driver built with NDIS51, for what can go wrong in that build only.
CancellableBuild == NDIS51
=============================================================================
