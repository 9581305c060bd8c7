----------------------------- MODULE ReleaseLog -----------------------------
(***************************************************************************)
(* What a release history promises: an abstract specification of Releases. *)
(* A history is a log that only grows, by copies of releases it has, until *)
(* somebody purges it or deletes its deployment.  A rollback reads and     *)
(* appends in one step, unless a purge came between its read and its       *)
(* insert.                                                                 *)
(***************************************************************************)
EXTENDS Naturals

CONSTANT Deployment

VARIABLES
    log,      \* the releases of all histories
    uploads,  \* those that were there at first
    live,     \* which deployments there are
    purges    \* how often each history was purged

vars == <<log, uploads, live, purges>>

Of(table, d) == {p \in table : p.dep = d}
LabelOf(n) == [v |-> n]

\* Release p has the contents of q.
Copies(p, q) == p.dep = q.dep /\ p.version = q.version /\ p.payload = q.payload

\* Release p is called after its ordinal, and no other release of H has that.
Numbered(p, H) ==
    /\ p.ordinal \in Nat \ {0} /\ p.label = LabelOf(p.ordinal)
    /\ \A q \in H : q.ordinal = p.ordinal => q = p
\* The ordinals up to p's are taken, so that it is the next one.
Follows(p, H) == \A k \in 1..(p.ordinal - 1) : \E q \in H : q.ordinal = k

Init ==
    /\ log = uploads
    /\ \A p \in uploads :
         /\ p.dep \in Deployment /\ p.insertedIn = 0
         /\ Numbered(p, Of(uploads, p.dep)) /\ Follows(p, Of(uploads, p.dep))
    /\ live = [d \in Deployment |-> TRUE]
    /\ purges = [d \in Deployment |-> 0]

\* A history never moves to another app version than its newest upload's.
Add(p) ==
    LET H == Of(log, p.dep) IN
    /\ live[p.dep] /\ p \notin log
    /\ Numbered(p, H)
    /\ \A s \in Of(uploads, p.dep) :
         (\A t \in Of(uploads, p.dep) : t.ordinal <= s.ordinal) => p.version = s.version
    /\ p.insertedIn = purges[p.dep]
    /\ log' = log \cup {p}
    /\ UNCHANGED <<uploads, live, purges>>

\* A release of the history is released again.
Rollback(p) ==
    /\ p.readIn = purges[p.dep]
    /\ \E q \in log : Copies(p, q) /\ q.label = p.originalLabel /\ q.ordinal < p.ordinal
    /\ purges[p.dep] = 0 => Follows(p, Of(log, p.dep))
    /\ Add(p)

\* A rollback that read the history before a purge: what it adds was uploaded once.
LateRollback(p) ==
    /\ p.readIn < purges[p.dep]
    /\ \E s \in uploads : Copies(p, s)
    /\ Add(p)

Purge(d) ==
    /\ log' = log \ Of(log, d)
    /\ purges' = [purges EXCEPT ![d] = @ + 1]
    /\ UNCHANGED <<uploads, live>>

\* Deployments go with their histories, one of them or all those of an app.
Drop(D) ==
    /\ live' = [d \in Deployment |-> live[d] /\ d \notin D]
    /\ log' = {p \in log : p.dep \notin D}
    /\ UNCHANGED <<uploads, purges>>

Next ==
    \/ \E p \in log' : Rollback(p) \/ LateRollback(p)
    \/ \E d \in Deployment : Purge(d) \/ Drop({d})
    \/ Drop(Deployment)

Spec == Init /\ [][Next]_vars
=============================================================================
