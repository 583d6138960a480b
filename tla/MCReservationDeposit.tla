------------------------- MODULE MCReservationDeposit -------------------------
(* Small instances of ReservationDeposit for TLC. *)
EXTENDS ReservationDeposit, TLC

\* What staff do, without the movements that act like another one of these.
StaffKinds == AllKinds \ {"CAPTURE", "REFUND", "CANCELED"}

\* Requests differ in what they ask for only.
DepositSymmetry == Permutations(Guests) \cup Permutations(Calls)
                       \cup Permutations(Checks)
=============================================================================
