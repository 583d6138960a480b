------------------------------ MODULE OncePerKey ------------------------------
(***************************************************************************)
(* What an Idempotency-Key promises: among all calls that carry the key at *)
(* most one performs the operation, and every other call either gets the   *)
(* outcome of that one, if it asks for the same thing, or is refused.      *)
(***************************************************************************)
CONSTANT Callers
VARIABLES payload, effects, answer

OnceInit ==
    /\ effects = {}
    /\ answer = [c \in Callers |-> "none"]

Perform(c) ==
    /\ effects = {} /\ answer[c] = "none"
    /\ effects' = {c}
    /\ UNCHANGED <<payload, answer>>

Reply(c) ==
    /\ answer[c] = "none"
    /\ \E a \in effects \cup {"conflict", "error"} :
          /\ a \in Callers => payload[a] = payload[c]
          /\ answer' = [answer EXCEPT ![c] = a]
    /\ UNCHANGED <<payload, effects>>

OnceNext == \E c \in Callers : Perform(c) \/ Reply(c)

OnceSpec == OnceInit /\ [][OnceNext]_<<payload, effects, answer>>
=============================================================================
