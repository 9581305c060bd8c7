------------------------------ MODULE Metrics ------------------------------
(***************************************************************************)
(* The Redis adapter behind MetricsRepository, for one deployment key:     *)
(* ReportDeploy, IncrementDownload, GetMetrics and Clear.                  *)
(*                                                                         *)
(* Redis runs one command, or one MULTI/EXEC transaction, at a time.       *)
(* ReportDeploy reads the client's current label with a GET of its own     *)
(* before its transaction, GetMetrics and Clear list the labels before     *)
(* they go through them: requests interleave between these commands.       *)
(***************************************************************************)
EXTENDS Naturals, FiniteSets

CONSTANTS
    Label,     \* release labels, and app versions reported in their place
    Empty,     \* the empty string
    Client,    \* clientUniqueId values
    NoClient,  \* a report without one
    Request,   \* the HTTP requests of a behaviour
    Calls      \* what they may ask for

ASSUME EmptyAssumption == Empty \notin Label
ASSUME NoClientAssumption == NoClient \notin Client

AnyLabel == Label \cup {Empty}
Op == {"deploy", "download", "get", "clear"}
\* status "" and any unknown one count as success.
Status == {"", "DeploymentSucceeded", "DeploymentFailed", "other"}
Call == [op : Op, label : AnyLabel, appVersion : AnyLabel,
         client : Client \cup {NoClient}, status : Status]
ASSUME CallsAssumption == Calls \subseteq Call

PC == {"idle", "getClient", "execDeploy", "execDownload", "listLabels", "readLabel",
       "listToClear", "delete", "answered"}
Counter == {"downloaded", "installed", "failed"}

VARIABLES
    labels,     \* set   metrics:<key>:labels
    counters,   \* hash  metrics:<key>:label:<label>:counters
    active,     \* set   metrics:<key>:label:<label>:active
    clientKey,  \* value metrics:<key>:client:<client>, Empty if there is none
    pc, call,   \* the requests in the server
    prev,       \* ReportDeploy: what its GET returned
    todo,       \* GetMetrics and Clear: labels listed and still to go through
    counted,    \* GetMetrics: <<label, client>> pairs its SCARDs counted
    disturbed,  \* history: clients whose reports were not one after the other
    raced,      \* history: labels reported between a Clear's list and its DEL
    moved       \* history: clients that reported while a GetMetrics ran

redis == <<labels, counters, active, clientKey>>
vars == <<redis, pc, call, prev, todo, counted, disturbed, raced, moved>>

Zero == [c \in Counter |-> 0]

Init ==
    /\ labels = {}
    /\ counters = [l \in AnyLabel |-> Zero]
    /\ active = [l \in AnyLabel |-> {}]
    /\ clientKey = [c \in Client |-> Empty]
    /\ pc = [r \in Request |-> "idle"]
    /\ call \in [Request -> Calls]
    /\ prev = [r \in Request |-> Empty]
    /\ todo = [r \in Request |-> {}]
    /\ counted = [r \in Request |-> {}]
    /\ disturbed = {}
    /\ raced = {}
    /\ moved = [r \in Request |-> {}]

Active(r) == pc[r] \notin {"idle", "answered"}
Goto(r, here, there) == pc[r] = here /\ pc' = [pc EXCEPT ![r] = there]

\* A report is about its label, or about its app version if it has none.
Reported(r) ==
    IF call[r].op = "deploy" /\ call[r].label = Empty THEN call[r].appVersion ELSE call[r].label

\* The client of a deploy report, as a set of at most one.
Reporter(r) == IF call[r].op = "deploy" THEN {call[r].client} \cap Client ELSE {}

First == [deploy |-> "getClient", download |-> "execDownload",
          get |-> "listLabels", clear |-> "listToClear"]

\* A client is disturbed when two of its reports overlap, when it reports an
\* empty label, and (GetClient) when the read of its label fails.
Begin(r) ==
    /\ Goto(r, "idle", First[call[r].op])
    /\ disturbed' = disturbed \cup
         {c \in Reporter(r) : \/ Reported(r) = Empty
                              \/ \E q \in Request : Active(q) /\ c \in Reporter(q)}
    /\ UNCHANGED <<redis, call, prev, todo, counted, raced, moved>>

\* The GET of ReportDeploy.  An error is dropped: it reads like no label.
GetClient(r) ==
    /\ Goto(r, "getClient", "execDeploy")
    /\ \/ /\ prev' = [prev EXCEPT ![r] =
                        IF Reporter(r) = {} THEN Empty ELSE clientKey[call[r].client]]
          /\ UNCHANGED disturbed
       \/ /\ prev' = [prev EXCEPT ![r] = Empty]
          /\ disturbed' = disturbed \cup Reporter(r)
    /\ UNCHANGED <<redis, call, todo, counted, raced, moved>>

Count(l, counter) == counters' = [counters EXCEPT ![l][counter] = @ + 1]

\* A report of l in the middle of a Clear is recorded as racing with it.
Race(l) ==
    raced' = IF \E q \in Request : pc[q] = "delete" THEN raced \cup {l} ELSE raced

\* The transaction of ReportDeploy: count, and move the client from the label
\* it had at the GET to the one it reports, the failed ones too.
Stays(r) == FALSE
Leaves(r) == prev[r] # Empty /\ prev[r] # Reported(r)

ExecDeploy(r) ==
    LET l == Reported(r) IN
    /\ Goto(r, "execDeploy", "answered")
    /\ labels' = labels \cup {l}
    /\ Count(l, IF call[r].status = "DeploymentFailed" THEN "failed" ELSE "installed")
    /\ active' = [m \in AnyLabel |->
         IF m = l THEN active[m] \cup Reporter(r)
         ELSE IF Leaves(r) /\ m = prev[r] THEN active[m] \ Reporter(r)
         ELSE active[m]]
    /\ clientKey' = [c \in Client |-> IF c \in Reporter(r) THEN l ELSE clientKey[c]]
    /\ moved' = [q \in Request |-> IF Active(q) THEN moved[q] \cup Reporter(r) ELSE moved[q]]
    /\ Race(l)
    /\ UNCHANGED <<call, prev, todo, counted, disturbed>>

\* The transaction of IncrementDownload.
ExecDownload(r) ==
    /\ Goto(r, "execDownload", "answered")
    /\ Count(Reported(r), "downloaded")
    /\ labels' = labels \cup {Reported(r)}
    /\ Race(Reported(r))
    /\ UNCHANGED <<active, clientKey, call, prev, todo, counted, disturbed, moved>>

\* SMEMBERS of GetMetrics and of Clear.
FirstPage(r) ==
    /\ \/ Goto(r, "listLabels", "readLabel")
       \/ Goto(r, "listToClear", "delete")
    /\ \E page \in SUBSET labels : todo' = [todo EXCEPT ![r] = page]
    /\ UNCHANGED <<redis, call, prev, counted, disturbed, raced, moved>>
ListLabels(r) ==
    /\ \/ Goto(r, "listLabels", "readLabel")
       \/ Goto(r, "listToClear", "delete")
    /\ todo' = [todo EXCEPT ![r] = labels]
    /\ UNCHANGED <<redis, call, prev, counted, disturbed, raced, moved>>

\* SCARD of one label, in any order (the HGETALL before it reads the counters,
\* which nothing ties to the active clients).
ReadLabel(r) ==
    /\ pc[r] = "readLabel"
    /\ \E l \in todo[r] :
         /\ todo' = [todo EXCEPT ![r] = @ \ {l}]
         /\ counted' = [counted EXCEPT ![r] = @ \cup {<<l, c>> : c \in active[l]}]
    /\ UNCHANGED <<redis, pc, call, prev, disturbed, raced, moved>>

FinishRead(r) ==
    /\ todo[r] = {}
    /\ Goto(r, "readLabel", "answered")
    /\ UNCHANGED <<redis, call, prev, todo, counted, disturbed, raced, moved>>

\* DEL of the set of labels, and of counters and active clients of the labels
\* that were in it when Clear listed them.  The keys of clients stay.  The Redis
\* client sends a DEL whose answer it does not get again (MaxRetries), unlike a
\* transaction it has sent to the end.
KeepsActive(r, l) == active[l]
ActiveAfterDelete(r, l) == IF l \in todo[r] THEN {} ELSE active[l]

Delete(r) ==
    /\ pc[r] = "delete"
    /\ Goto(r, "delete", "answered") \/ UNCHANGED pc
    /\ labels' = {}
    /\ counters' = [l \in AnyLabel |-> IF l \in todo[r] THEN Zero ELSE counters[l]]
    /\ active' = [l \in AnyLabel |-> ActiveAfterDelete(r, l)]
    /\ UNCHANGED <<clientKey, call, prev, todo, counted, disturbed, raced, moved>>

\* A command fails or the server stops.  Whatever reaches Redis late is a step
\* of a request that is not over: an answered one has nothing under way.
Fail(r) ==
    /\ Active(r)
    /\ pc' = [pc EXCEPT ![r] = "answered"]
    /\ UNCHANGED <<redis, call, prev, todo, counted, disturbed, raced, moved>>

Step(r) ==
    \/ GetClient(r) \/ ExecDeploy(r) \/ ExecDownload(r)
    \/ ListLabels(r) \/ ReadLabel(r) \/ FinishRead(r) \/ Delete(r)

Next == \E r \in Request : Begin(r) \/ Step(r) \/ Fail(r)

Spec == Init /\ [][Next]_vars

-----------------------------------------------------------------------------
(* Properties *)

TypeOK ==
    /\ labels \subseteq AnyLabel
    /\ counters \in [AnyLabel -> [Counter -> Nat]]
    /\ active \in [AnyLabel -> SUBSET Client]
    /\ clientKey \in [Client -> AnyLabel]
    /\ pc \in [Request -> PC]
    /\ call \in [Request -> Calls]
    /\ prev \in [Request -> AnyLabel]
    /\ todo \in [Request -> SUBSET AnyLabel]
    /\ counted \in [Request -> SUBSET (AnyLabel \X Client)]
    /\ disturbed \subseteq Client
    /\ raced \subseteq AnyLabel
    /\ moved \in [Request -> SUBSET Client]

\* The GET of ReportDeploy is outside its transaction, and its SREM trusts it.
\* A client whose reports come one after the other, each with a label and a
\* GET that worked, is in the active set of the label it reported last or, after
\* a Clear, in none.
ActiveFollowsClient ==
    \A c \in Client \ disturbed : \A l \in AnyLabel : c \in active[l] => clientKey[c] = l

\* Clear deletes what belongs to the labels it listed.  Counters or active
\* clients of a label that is not in the set of labels, which GetMetrics does
\* not show and which come back with the next report of it, are left only by a
\* report that ran between the list and the DEL of some Clear.
RemnantsOnlyFromRaces ==
    \A l \in AnyLabel \ labels : counters[l] # Zero \/ active[l] # {} => l \in raced

\* GetMetrics reads one label after the other.  A client that sends no report
\* while it runs is active in at most one of the labels it shows.
StillClientCountedOnce ==
    \A r \in Request : \A c \in Client \ (disturbed \cup moved[r]) :
        \A l, m \in AnyLabel : <<l, c>> \in counted[r] /\ <<m, c>> \in counted[r] => l = m

\* Nor is one missed that is still active and has sent no report since: whatever
\* label it is active in has been listed, and what has been read of it counted,
\* save a label a Clear made a remnant of.
StillClientNotMissed ==
    \A r \in Request : pc[r] = "readLabel" =>
        \A l \in AnyLabel \ (raced \cup todo[r]) : \A c \in active[l] \ moved[r] :
            <<l, c>> \in counted[r]
=============================================================================
