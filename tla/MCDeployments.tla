---------------------------- MODULE MCDeployments ----------------------------
(* A bounded instance of Deployments: one deployment with a given key, room for  *)
(* two more, and requests that meet over a name, a token or a key.               *)
EXTENDS Deployments, TLC

CONSTANTS d1, d2, d3, n1, n2, g

MCStartName == [d \in Deployment |-> IF d = d1 THEN n1 ELSE NoName]
MCStartKey == [d \in Deployment |-> IF d = d1 THEN g ELSE NoKey]

Ask(op, asked, new, given) == [op |-> op, name |-> asked, new |-> new, key |-> given]
MCCalls ==
    {Ask("create", n1, NoName, k) : k \in {NoKey, g}}
        \cup {Ask("create", n2, NoName, NoKey)}
        \cup {Ask("rename", n1, new, NoKey) : new \in {n2, NoName}}
        \cup {Ask(op, n1, NoName, NoKey) : op \in {"delete", "clear"}}
        \cup {Ask("delete", n2, NoName, NoKey)}

Symmetry == Permutations(Request) \cup Permutations({d2, d3}) \cup Permutations(Generated)
=============================================================================
