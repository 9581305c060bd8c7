------------------------------ MODULE MCReleases ------------------------------
(* A bounded instance of Releases: one account may act, every request of a   *)
(* behaviour picks its call from Calls, the deployments start with a table   *)
(* of Seeds.                                                                 *)
EXTENDS Releases, TLC

CONSTANTS a1, d1, d2, r1, r2, r3, w1, w2, x1, x2

Row(d, n, version, payload) ==
    [dep |-> d, ordinal |-> n, label |-> LabelOf(n), version |-> version,
     payload |-> payload, originalLabel |-> NoLabel, readIn |-> 0, insertedIn |-> 0]

\* Two releases for one app version; three, the newest for another one.
TwoReleases == {Row(d1, 1, w1, x1), Row(d1, 2, w1, x2)}
ThreeReleases == {Row(d1, 1, w1, x1), Row(d1, 2, w2, x1), Row(d1, 3, w2, x2)}
MCSeeds == {TwoReleases, ThreeReleases}
\* The second of these and a shorter history of another deployment, all of it
\* for the app version that d1 has left: rolling d1 back to v1 is a conflict.
TwoSeeds == {ThreeReleases \cup {Row(d2, 1, w1, x1), Row(d2, 2, w1, x1)}}

Ask(op, d, want) == [op |-> op, account |-> a1, dep |-> d, want |-> want]
Rollbacks(d) == {Ask("rollback", d, NoLabel), Ask("rollback", d, LabelOf(1))}
Others(d) == {Ask(op, d, NoLabel) : op \in {"clear", "delete", "history"}}
MCCalls == Rollbacks(d1) \cup Others(d1)
EitherCalls == UNION {Rollbacks(d) \cup Others(d) : d \in Deployment}

AnyGrant == {a1} \X Level

Symmetry == Permutations(Request)
===============================================================================
