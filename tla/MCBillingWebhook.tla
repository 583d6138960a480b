--------------------------- MODULE MCBillingWebhook ---------------------------
(* Small instances of BillingWebhook for TLC. *)
EXTENDS BillingWebhook, TLC

Symmetry == Permutations(Events) \cup Permutations(Workers)
            \cup Permutations(Operators)
=============================================================================
