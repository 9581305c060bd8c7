--------------------------- MODULE MCUpdateCheck ---------------------------
(* A bounded instance of UpdateCheck: histories with partial rollouts, a      *)
(* disabled release and one for another version, and requests that roll back, *)
(* purge and delete while a device asks.                                      *)
EXTENDS UpdateCheck, TLC

CONSTANTS a1, d1, r1, r2, c1, w1, w2, x1, x2, x3, x4, h1, h2

Row(n, version, payload) ==
    [dep |-> d1, ordinal |-> n, label |-> LabelOf(n), version |-> version,
     payload |-> payload, originalLabel |-> NoLabel, readIn |-> 0, insertedIn |-> 0]

\* A full release and a partial or a disabled one of the same version, and
\* partial ones after one for another version.
MCSeeds == {{Row(1, w1, x1), Row(2, w1, x)} : x \in {x2, x4}} \cup
           {{Row(1, w2, x1), Row(2, w1, x2), Row(3, w1, x3)}}

Ask1(op, want) == [op |-> op, account |-> a1, dep |-> d1, want |-> want]
MCCalls == {Ask1("rollback", NoLabel), Ask1("rollback", LabelOf(1)),
            Ask1("clear", NoLabel), Ask1("delete", NoLabel)}

MCHome == [c \in Device |-> d1]
MCFits == [c \in Device |-> {w1}]
MCRollout == x1 :> 100 @@ x2 :> 50 @@ x3 :> 99 @@ x4 :> 100
MCHash == x1 :> h1 @@ x2 :> h2 @@ x3 :> h1 @@ x4 :> h2
\* c1 is at the edge of the partial rollouts, on either side by turns.
MCClass(c, l) == <<99, 49, 98, 50, 98, 99>>[l.v]
=============================================================================
