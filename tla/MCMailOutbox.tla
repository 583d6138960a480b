---------------------------- MODULE MCMailOutbox ----------------------------
(* A small instance of MailOutbox for TLC. *)
EXTENDS MailOutbox

=============================================================================
