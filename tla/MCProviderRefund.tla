--------------------------- MODULE MCProviderRefund ---------------------------
(* Small instances of ProviderRefund for TLC. *)
EXTENDS ProviderRefund, TLC

\* Requests differ in what they ask for only, keys not at all.
RefundSymmetry == Permutations(Requests) \cup Permutations(Keys)
=============================================================================
