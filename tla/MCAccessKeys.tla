---------------------------- MODULE MCAccessKeys ----------------------------
(* A bounded instance of AccessKeys: the account of the bootstrap and another, *)
(* a table with a key of each or none of the bootstrap token, clocks that go   *)
(* past both the default and a short TTL, and a TTL that overflows.  One call   *)
(* gives a key the generated token of another key as its friendly name.        *)
EXTENDS AccessKeys, TLC

CONSTANTS a1, a2, k1, k2, k3, boot, t1, s1, s2, s3, f, r1, r2, r3

MCSecret == k1 :> s1 @@ k2 :> s2 @@ k3 :> s3

\* The token of the bootstrap is another account's, nobody's, or the bootstrap
\* account's and about to expire; the other account also has a session.
Held(account, token, friendly, expires, session) ==
    [account |-> account, token |-> token, friendly |-> friendly,
     expires |-> expires, session |-> session]
Table(first, last) == [k \in Key |-> IF k = k1 THEN first ELSE IF k = k3 THEN last ELSE Gone]
MCSeeds == {Table(Held(a2, boot, boot, 1, NoName), Gone)} \cup
           {Table(first, Held(a2, t1, f, 1, f)) : first \in {Gone, Held(a1, boot, boot, 0, NoName)}}

Ask(op, token, name, friendly, ttl) ==
    [op |-> op, token |-> token, name |-> name, friendly |-> friendly, ttl |-> ttl]
MCCalls ==
    {Ask("start", boot, boot, f, 1), Ask("get", boot, boot, NoName, 0),
     Ask("create", boot, NoName, NoName, 0), Ask("create", t1, boot, f, 3),
     Ask("update", boot, boot, NoName, 3), Ask("update", boot, boot, s2, -1),
     Ask("delete", boot, f, NoName, 0), Ask("delete", boot, s2, NoName, 0),
     Ask("sessions", t1, f, NoName, 0)}

Symmetry == Permutations(Request)
=============================================================================
