--------------------------- MODULE MCCollaborators ---------------------------
(* Two or three accounts and a few concurrent requests. *)
EXTENDS Collaborators, TLC

CONSTANTS a1, a2, a3, r1, r2, r3

Transfers == {[op |-> "transfer", account |-> a, email |-> b] : a, b \in Account}
Locking == Transfers \cup {[op |-> "delete", account |-> a1, email |-> a1]}

Symmetry == Permutations(Request) \cup Permutations(Account)
===============================================================================
