--------------------------- MODULE MCBlockDevice ---------------------------
(* The block cache for TLC.  Block numbers and clients are model values    *)
(* told apart only by equality, so permuting them is a symmetry.           *)
EXTENDS BlockDevice, TLC

Symmetry == Permutations(Blocks) \cup Permutations(Clients)
=============================================================================
