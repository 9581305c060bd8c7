------------------------------- MODULE MCApps -------------------------------
(* A bounded instance of Apps: two accounts, two plain names, and one that     *)
(* GetByName takes for "a1's app n1".                                          *)
EXTENDS Apps, TLC

CONSTANTS a1, a2, p1, p2, p3, n1, n2, q1, r1, r2

MCParse == [n \in Name |-> IF n = q1 THEN [owner |-> a1, name |-> n1]
                           ELSE [owner |-> Anyone, name |-> n]]

Ask(op, account, asked, new) ==
    [op |-> op, account |-> account, name |-> asked, new |-> new, manual |-> FALSE]
Create(n) == Ask("create", a1, n, NoName)
Rename(n, new) == Ask("rename", a1, n, new)
Get(n) == Ask("get", a1, n, NoName)

\* Creations and renames that aim at the same name, by one account.
Writes == {Create(n1), [Create(n1) EXCEPT !.manual = TRUE], Rename(n2, n1), Rename(n1, NoName)}
\* It gives away the app it started with.
WriteGrants == {<<p1, a1, "Collaborator">>}

\* Lookups by a plain and by a qualified name, while names change.
Lookups == {Get(n1), Get(q1), Rename(n2, n1)}
LookupGrants == {p1} \X {a1} \X {"None", "Owner"}

Symmetry == Permutations(Request) \cup Permutations({p2, p3})
LookupSymmetry == Permutations(Request)
=============================================================================
