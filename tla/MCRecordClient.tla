--------------------------- MODULE MCRecordClient ---------------------------
(* Small instances of RecordClient for TLC. *)
EXTENDS RecordClient, TLC

Symmetry == Permutations(Submitters \ Creators)
=============================================================================
