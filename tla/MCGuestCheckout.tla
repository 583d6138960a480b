--------------------------- MODULE MCGuestCheckout ---------------------------
(* Small instances of GuestCheckout for TLC. *)
EXTENDS GuestCheckout, TLC

\* Handlers are interchangeable: nothing orders or names them.
ClientSymmetry == Permutations(Clients)
=============================================================================
