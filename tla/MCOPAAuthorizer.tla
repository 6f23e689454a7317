--------------------------- MODULE MCOPAAuthorizer ---------------------------
(* An instance of OPAAuthorizer small enough for TLC. *)
EXTENDS OPAAuthorizer

CONSTANTS a1, a2, a3, n1, n2

\* Timely before 2 or from 1 to 3; without a nonce; without a date.
MCInputs == [key : {n1, n2}, timestamp : {0, 2}]
              \union {[key |-> None, timestamp |-> 0], [key |-> n1, timestamp |-> None]}

==============================================================================
