------------------------------ MODULE MCMetrics ------------------------------
(* Two labels, one client, a few concurrent requests. *)
EXTENDS Metrics, TLC

CONSTANTS v1, v2, c1, r1, r2, r3, r4

Report(l, c, status) ==
    [op |-> "deploy", label |-> l, appVersion |-> v1, client |-> c, status |-> status]
Plain(op, l) ==
    [op |-> op, label |-> l, appVersion |-> Empty, client |-> NoClient, status |-> ""]

\* A report without a label counts for its app version, v1 here.
MCCalls ==
    {Report(l, c, "DeploymentSucceeded") : l \in {v2, Empty}, c \in Client}
      \cup {Report(v2, NoClient, "DeploymentFailed"), Plain("download", v1),
            Plain("get", Empty), Plain("clear", Empty),
            [Report(Empty, c1, "other") EXCEPT !.appVersion = Empty]}

Symmetry == Permutations(Request)
===============================================================================
