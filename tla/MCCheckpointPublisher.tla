----------------------- MODULE MCCheckpointPublisher -----------------------
(* A small container for TLC: rings just large enough to wrap and to run    *)
(* out of room for pinned generations.                                      *)
EXTENDS CheckpointPublisher

Symmetry == Permutations(OwnedBlocks)
=============================================================================
