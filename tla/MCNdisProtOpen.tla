---------------------------- MODULE MCNdisProtOpen ----------------------------
(***************************************************************************)
(* Instances of NdisProtOpen for TLC.                                       *)
(***************************************************************************)
EXTENDS NdisProtOpen, TLC

\* Contexts, files and threads are told apart by no definition of the model.
Symmetry == Permutations(Contexts) \cup Permutations(Files) \cup Permutations(IoThreads)
=============================================================================
