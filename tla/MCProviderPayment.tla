-------------------------- MODULE MCProviderPayment --------------------------
(* Small instances of ProviderPayment for TLC. *)
EXTENDS ProviderPayment, TLC

\* Requests are interchangeable, and so are the keys of attempts.
ProviderSymmetry == Permutations(Clients) \cup Permutations(Keys)
=============================================================================
