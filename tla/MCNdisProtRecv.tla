--------------------------- MODULE MCNdisProtRecv ---------------------------
(***************************************************************************)
(* Instances of NdisProtRecv for TLC.  An action constraint keeps one kind  *)
(* of event out of a run that is about the others.                          *)
(***************************************************************************)
EXTENDS NdisProtRecv, TLC

\* Reads, and packets, are told apart by no definition of the model.
Symmetry == Permutations(Reads) \cup Permutations(Packets)

\* The device stays in D0.
NoPower == powerOn'

\* The miniport lends every packet: no copies, no NdisTransferData.
NoCopies == \A p \in Packets : pktHome'[p] # "local"

\* The miniport lends none: every packet is a copy, some by NdisTransferData.
OnlyCopies == \A p \in Packets : pktHome'[p] # "miniport"
=============================================================================
