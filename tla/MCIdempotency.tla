---------------------------- MODULE MCIdempotency ----------------------------
(* Small instances of Idempotency for TLC. *)
EXTENDS Idempotency, TLC

\* Calls differ in their payload and process only, processes not at all.
IdempotencySymmetry == Permutations(Callers) \cup Permutations(Procs)
=============================================================================
