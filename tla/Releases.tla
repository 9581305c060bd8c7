------------------------------ MODULE Releases ------------------------------
(***************************************************************************)
(* Release histories of the deployments of one app: the service methods    *)
(* Rollback, ClearHistory, GetHistory and DeleteDeployment over the        *)
(* PostgreSQL repositories and the metrics store.                          *)
(*                                                                         *)
(* A request runs in its own goroutine and every statement it sends is an  *)
(* autocommit transaction at READ COMMITTED, so each statement is one      *)
(* action and requests interleave between any two of them.  Nothing ties   *)
(* the permission check of a repository method to the statement after it.  *)
(*                                                                         *)
(* Releases are uploaded by another writer of the database: the server has *)
(* no such endpoint, so a behaviour starts from any table of Seeds.        *)
(***************************************************************************)
EXTENDS Naturals, FiniteSets

CONSTANTS
    Account,     \* authenticated accounts
    Deployment,  \* rows of table deployments (ids are UUIDs, never reused)
    Request,     \* the HTTP requests of a behaviour
    Version,     \* app_version values
    Payload,     \* the rest of a package that Rollback copies (hash, URL, ...)
    NoLabel,     \* an empty label
    Seeds,       \* the tables packages a behaviour may start from
    Calls,       \* what the requests of a behaviour may ask for
    Grants       \* the permissions AppRepo may give meanwhile

Label == [v : Nat]              \* "v1", "v2", ...
LabelOf(n) == [v |-> n]         \* fmt.Sprintf("v%d", n)

Level == {"None", "Collaborator", "Owner"}
Op == {"rollback", "clear", "history", "delete"}
Call == [op : Op, account : Account, dep : Deployment, want : Label \cup {NoLabel}]
PC == {"idle", "findApp", "mayView", "findDeployment", "mayRead", "readHistory",
       "mayCommit", "nextOrdinal", "insertPackage", "mayPurge", "deletePackages",
       "clearMetrics", "mayDelete", "deleteRow", "answered"}
Result == {"none", "ok", "notFound", "forbidden", "conflict", "error"}

\* What Rollback is about to commit.  readIn and insertedIn are history fields:
\* the purges of the deployment before its history was read, before the insert.
Clone == [version : Version, payload : Payload,
          originalLabel : Label \cup {NoLabel}, readIn : Nat]
Package == [dep : Deployment, ordinal : Nat \ {0}, label : Label, version : Version,
            payload : Payload, originalLabel : Label \cup {NoLabel},
            readIn : Nat, insertedIn : Nat]

Of(table, d) == {p \in table : p.dep = d}
IsNewest(p, H) == p \in H /\ \A q \in H : q.ordinal <= p.ordinal
UniqueOrdinals(table) ==
    \A p, q \in table : p.dep = q.dep /\ p.ordinal = q.ordinal => p = q
Dense(H) == \A p \in H : \A k \in 1..p.ordinal : \E q \in H : q.ordinal = k

\* A table another writer filled: ordinals 1, 2, ... of each deployment, the
\* label of each row built from its ordinal.
WellFormed(table) ==
    /\ table \subseteq Package
    /\ UniqueOrdinals(table)
    /\ \A d \in Deployment : Dense(Of(table, d))
    /\ \A p \in table : p.label = LabelOf(p.ordinal) /\ p.readIn = 0 /\ p.insertedIn = 0

ASSUME CallsAssumption == Calls \subseteq Call
ASSUME GrantsAssumption == Grants \subseteq Account \X Level
ASSUME NoLabelAssumption == NoLabel \notin Label
ASSUME SeedsAssumption == \A table \in Seeds : WellFormed(table)

VARIABLES
    permission,  \* table app_collaborators of the app: "None" is no row
    appLive,     \* whether the app's row exists
    live,        \* which deployment rows exist
    packages,    \* table packages
    metrics,     \* whether Redis holds counters of a deployment's releases
    pc, call, clone, ordinal, result,   \* the requests in the server
    seed, epoch, held   \* history: first table, purges, permissions held

tables == <<permission, appLive, live, packages, metrics>>
locals == <<call, clone, ordinal>>
history == <<seed, epoch, held>>
vars == <<tables, pc, locals, result, history>>

Init ==
    /\ permission \in [Account -> Level]
    /\ appLive = TRUE
    /\ live = [d \in Deployment |-> TRUE]
    /\ seed \in Seeds
    /\ packages = seed
    /\ metrics = [d \in Deployment |-> TRUE]
    /\ pc = [r \in Request |-> "idle"]
    /\ call \in [Request -> Calls]
    /\ clone = [r \in Request |-> {}]
    /\ ordinal = [r \in Request |-> 0]
    /\ result = [r \in Request |-> "none"]
    /\ epoch = [d \in Deployment |-> 0]
    /\ held = [r \in Request |-> {}]

-----------------------------------------------------------------------------
(* Requests *)

Dep(r) == call[r].dep
Actor(r) == call[r].account
Goto(r, here, there) == pc[r] = here /\ pc' = [pc EXCEPT ![r] = there]
Answer(r, outcome) ==
    /\ pc' = [pc EXCEPT ![r] = "answered"]
    /\ result' = [result EXCEPT ![r] = outcome]

\* requirePermission: no row is ErrNotFound, too low a level ErrForbidden.
Require(r, here, levels, there) ==
    /\ UNCHANGED <<tables, locals, history>>
    /\ \/ /\ permission[Actor(r)] \in levels
          /\ Goto(r, here, there)
          /\ UNCHANGED result
       \/ /\ permission[Actor(r)] \notin levels
          /\ pc[r] = here
          /\ Answer(r, IF permission[Actor(r)] = "None" THEN "notFound" ELSE "forbidden")

Begin(r) ==
    /\ Goto(r, "idle", "findApp")
    /\ held' = [held EXCEPT ![r] = {permission[Actor(r)]}]
    /\ UNCHANGED <<tables, locals, result, seed, epoch>>

\* AppRepo.GetByName finds the app only among those the account belongs to.
FindApp(r) ==
    /\ UNCHANGED <<tables, locals, history>>
    /\ \/ /\ permission[Actor(r)] # "None"
          /\ Goto(r, "findApp", "mayView")
          /\ UNCHANGED result
       \/ /\ permission[Actor(r)] = "None"
          /\ pc[r] = "findApp"
          /\ Answer(r, "notFound")

MayView(r) == Require(r, "mayView", {"Owner", "Collaborator"}, "findDeployment")

AfterDeployment == [rollback |-> "mayRead", history |-> "mayRead",
                    clear |-> "mayPurge", delete |-> "mayDelete"]

FindDeployment(r) ==
    /\ UNCHANGED <<tables, locals, history>>
    /\ \/ /\ live[Dep(r)]
          /\ Goto(r, "findDeployment", AfterDeployment[call[r].op])
          /\ UNCHANGED result
       \/ /\ ~live[Dep(r)]
          /\ pc[r] = "findDeployment"
          /\ Answer(r, "notFound")

MayRead(r) == Require(r, "mayRead", {"Owner", "Collaborator"}, "readHistory")

\* The package Rollback goes back to: the one before the newest, or the one
\* with the label the caller gave.
IsTarget(p, H, want) ==
    /\ p \in H
    /\ IF want = NoLabel
         THEN \E latest \in H : IsNewest(latest, H) /\ IsNewest(p, H \ {latest})
         ELSE p.label = want

\* ListHistory.
History(r) == Of(packages, Dep(r))

AnyVersion(latest, target) == TRUE
Compatible(latest, target) == latest.version = target.version

CloneWithOldLabel(r, target) ==
    [version |-> target.version, payload |-> target.payload,
     originalLabel |-> target.originalLabel, readIn |-> epoch[Dep(r)]]
CloneOf(r, target) ==
    [version |-> target.version, payload |-> target.payload,
     originalLabel |-> target.label, readIn |-> epoch[Dep(r)]]

ReadHistory(r) ==
    LET H == History(r) IN
    /\ pc[r] = "readHistory"
    /\ UNCHANGED <<tables, call, ordinal, history>>
    /\ \/ /\ call[r].op = "history"
          /\ Answer(r, "ok")
          /\ UNCHANGED clone
       \/ /\ call[r].op = "rollback"
          /\ ~ \E p \in H : IsTarget(p, H, call[r].want)
          /\ Answer(r, "notFound")
          /\ UNCHANGED clone
       \/ /\ call[r].op = "rollback"
          /\ \E latest, target \in H :
               /\ IsNewest(latest, H)
               /\ IsTarget(target, H, call[r].want)
               /\ \/ /\ ~Compatible(latest, target)
                     /\ Answer(r, "conflict")
                     /\ UNCHANGED clone
                  \/ /\ Compatible(latest, target)
                     /\ Goto(r, "readHistory", "mayCommit")
                     /\ clone' = [clone EXCEPT ![r] = {CloneOf(r, target)}]
                     /\ UNCHANGED result

MayCommit(r) == Require(r, "mayCommit", {"Owner", "Collaborator"}, "nextOrdinal")

\* nextPackageOrdinal: MAX(ordinal) + 1, read in a statement of its own.
NextOrdinalSkips(r) ==
    LET H == History(r) IN
    /\ Goto(r, "nextOrdinal", "insertPackage")
    /\ \/ H = {} /\ ordinal' = [ordinal EXCEPT ![r] = 1]
       \/ \E p \in H : IsNewest(p, H) /\ ordinal' = [ordinal EXCEPT ![r] = p.ordinal + 2]
    /\ UNCHANGED <<tables, call, clone, result, history>>
NextOrdinal(r) ==
    LET H == History(r) IN
    /\ Goto(r, "nextOrdinal", "insertPackage")
    /\ \/ H = {} /\ ordinal' = [ordinal EXCEPT ![r] = 1]
       \/ \E p \in H : IsNewest(p, H) /\ ordinal' = [ordinal EXCEPT ![r] = p.ordinal + 1]
    /\ UNCHANGED <<tables, call, clone, result, history>>

NewPackageSwapped(r, c) ==
    [dep |-> Dep(r), ordinal |-> ordinal[r], label |-> LabelOf(ordinal[r]),
     version |-> c.payload, payload |-> c.version,
     originalLabel |-> c.originalLabel,
     readIn |-> c.readIn, insertedIn |-> epoch[Dep(r)]]
NewPackage(r, c) ==
    [dep |-> Dep(r), ordinal |-> ordinal[r], label |-> LabelOf(ordinal[r]),
     version |-> c.version, payload |-> c.payload,
     originalLabel |-> c.originalLabel,
     readIn |-> c.readIn, insertedIn |-> epoch[Dep(r)]]

\* The row needs its deployment (foreign key) and a free ordinal (unique index).
CanInsert(r) ==
    live[Dep(r)] /\ \A p \in Of(packages, Dep(r)) : p.ordinal # ordinal[r]

\* A write takes effect whether or not its answer reaches the server.
Outcome == {"ok", "error"}

InsertPackage(r) ==
    /\ pc[r] = "insertPackage"
    /\ \/ /\ CanInsert(r)
          /\ packages' = packages \cup {NewPackage(r, c) : c \in clone[r]}
          /\ \E outcome \in Outcome : Answer(r, outcome)
       \/ /\ ~CanInsert(r)
          /\ Answer(r, "error")
          /\ UNCHANGED packages
    /\ UNCHANGED <<permission, appLive, live, metrics, locals, history>>

MayPurgeAsMember(r) == Require(r, "mayPurge", {"Owner", "Collaborator"}, "deletePackages")
MayPurge(r) == Require(r, "mayPurge", {"Owner"}, "deletePackages")

PurgedButNewest(r) == {p \in History(r) : ~IsNewest(p, History(r))}
Purged(r) == History(r)

DeletePackages(r) ==
    /\ pc[r] = "deletePackages"
    /\ packages' = packages \ Purged(r)
    /\ epoch' = [epoch EXCEPT ![Dep(r)] = @ + 1]
    /\ \/ Goto(r, "deletePackages", "clearMetrics") /\ UNCHANGED result
       \/ Answer(r, "error")
    /\ UNCHANGED <<permission, appLive, live, metrics, locals, seed, held>>

ClearMetricsLater(r) ==
    /\ pc[r] = "clearMetrics"
    /\ \E outcome \in Outcome : Answer(r, outcome)
    /\ UNCHANGED <<tables, locals, history>>
ClearMetrics(r) ==
    /\ pc[r] = "clearMetrics"
    /\ metrics' = [metrics EXCEPT ![Dep(r)] = FALSE]
    /\ \E outcome \in Outcome : Answer(r, outcome)
    /\ UNCHANGED <<permission, appLive, live, packages, locals, history>>

MayDelete(r) == Require(r, "mayDelete", {"Owner"}, "deleteRow")

\* Deleting a deployment deletes its packages (ON DELETE CASCADE) and leaves
\* its metrics alone.
DeleteRow(r) ==
    /\ pc[r] = "deleteRow"
    /\ live' = [live EXCEPT ![Dep(r)] = FALSE]
    /\ packages' = packages \ Of(packages, Dep(r))
    /\ \/ live[Dep(r)] /\ \E outcome \in Outcome : Answer(r, outcome)
       \/ ~live[Dep(r)] /\ Answer(r, "notFound")
    /\ UNCHANGED <<permission, appLive, metrics, locals, history>>

\* A statement fails, the client goes away or the server stops: the request
\* ends, what its earlier statements did stays.
Fail(r) ==
    /\ pc[r] \notin {"idle", "answered"}
    /\ Answer(r, "error")
    /\ UNCHANGED <<tables, locals, history>>

(* The rest of the system: AppRepo changes who may do what, or deletes the app *)

Grant(a, level) ==
    /\ appLive
    /\ <<a, level>> \in Grants
    /\ permission' = [permission EXCEPT ![a] = level]
    /\ held' = [r \in Request |->
                  IF Actor(r) = a /\ pc[r] \notin {"idle", "answered"}
                  THEN held[r] \cup {level} ELSE held[r]]
    /\ UNCHANGED <<appLive, live, packages, metrics, pc, locals, result, seed, epoch>>

DeleteApp ==
    /\ appLive
    /\ appLive' = FALSE
    /\ permission' = [a \in Account |-> "None"]
    /\ live' = [d \in Deployment |-> FALSE]
    /\ packages' = {}
    /\ UNCHANGED <<metrics, pc, locals, result, history>>

Step(r) ==
    \/ FindApp(r) \/ MayView(r) \/ FindDeployment(r)
    \/ MayRead(r) \/ ReadHistory(r) \/ MayCommit(r) \/ NextOrdinal(r) \/ InsertPackage(r)
    \/ MayPurge(r) \/ DeletePackages(r) \/ ClearMetrics(r)
    \/ MayDelete(r) \/ DeleteRow(r)

Next ==
    \/ \E r \in Request : Begin(r) \/ Step(r) \/ Fail(r)
    \/ \E a \in Account, level \in Level : Grant(a, level)
    \/ DeleteApp

Spec == Init /\ [][Next]_vars

-----------------------------------------------------------------------------
(* Properties *)

Types ==
    /\ permission \in [Account -> Level]
    /\ appLive \in BOOLEAN
    /\ live \in [Deployment -> BOOLEAN]
    /\ packages \subseteq Package
    /\ metrics \in [Deployment -> BOOLEAN]
    /\ pc \in [Request -> PC]
    /\ call \in [Request -> Calls]
    /\ clone \in [Request -> SUBSET Clone]
    /\ ordinal \in [Request -> Nat]
    /\ result \in [Request -> Result]
    /\ seed \in Seeds
    /\ epoch \in [Deployment -> Nat]
    /\ held \in [Request -> SUBSET Level]

UniqueLabels(table) ==
    \A p, q \in table : p.dep = q.dep /\ p.label = q.label => p = q

\* Types, and the unique indexes of table packages: of one deployment, no two
\* releases have the same ordinal or the same label.
TypeOK ==
    /\ Types
    /\ UniqueOrdinals(packages)
    /\ UniqueLabels(packages)

\* The version the deployment's newest uploaded release was built for.
KeepsVersion(p) ==
    \A s \in seed : IsNewest(s, Of(seed, p.dep)) => p.version = s.version

Uploaded(p) ==
    \E s \in seed : s.dep = p.dep /\ s.version = p.version /\ s.payload = p.payload

\* Rollback compares the target with the latest release of a history it read
\* two statements before it inserts.  However requests interleave, what a
\* deployment serves was uploaded to that very deployment, and a rolled back
\* release never moves it to another app version than its newest upload's.
RollbackServesUploads ==
    \A p \in packages : Uploaded(p) /\ (p \in seed \/ KeepsVersion(p))

\* nextPackageOrdinal and the INSERT of CommitRollback are two statements.  As
\* long as nobody purges the history, v1, v2, ... stay without a gap even if
\* rollbacks race: the loser of an ordinal fails and takes no number.
NoGapBeforePurge ==
    \A d \in Deployment : epoch[d] = 0 => Dense(Of(packages, d))

\* ClearHistory purges the whole history, and only a rollback that overlapped
\* it fills the history again: no package from before the last purge is left,
\* and if any is listed, one of them was read before the purge, its rollback
\* having inserted it after the purge.
PurgeUndoneOnlyByOverlap ==
    \A d \in Deployment : epoch[d] > 0 /\ Of(packages, d) # {} =>
        /\ \A p \in Of(packages, d) : p.insertedIn = epoch[d]
        /\ \E p \in Of(packages, d) : p.readIn < epoch[d]

\* OriginalLabel of a rolled back release names an earlier release of the same
\* history with the same payload, unless a purge came between the read of the
\* history and the insert.
OriginalLabelResolves ==
    \A p \in packages : p \notin seed /\ p.readIn = epoch[p.dep] =>
        \E q \in packages :
            /\ q.dep = p.dep
            /\ q.label = p.originalLabel
            /\ q.payload = p.payload
            /\ q.version = p.version
            /\ q.ordinal < p.ordinal

\* A ClearHistory that answered success has cleared the metrics too: a purged
\* deployment still has them only if a purge is about to clear them, or one
\* failed half-way.
MetricsOutlivePurgeOnlyByFailure ==
    \A d \in Deployment : epoch[d] > 0 /\ metrics[d] =>
        \E r \in Request :
            /\ call[r].op = "clear" /\ Dep(r) = d
            /\ pc[r] = "clearMetrics" \/ result[r] = "error"

\* CommitRollback appends: in a history nobody has purged, the release it
\* inserts becomes the newest one, the one update checks try first.
Appends(d) ==
    \A p \in Of(packages', d), q \in Of(packages, d) :
        p \notin packages => q.ordinal < p.ordinal
CommitIsNewest == [][\A d \in Deployment : epoch[d] = 0 => Appends(d)]_vars

\* No permission check is in the transaction of the write it guards.  Still,
\* whoever adds a release was a member of the app, and whoever purges a
\* history or deletes a deployment was its owner, at some moment of the request.
Writes(r, d) == Dep(r) = d /\ pc'[r] # pc[r]
AuthorizedWrites ==
    [][\A d \in Deployment :
        /\ Of(packages', d) \subseteq Of(packages, d) \/
             \E r \in Request : Writes(r, d) /\ held[r] \cap {"Collaborator", "Owner"} # {}
        /\ (live'[d] = live[d] /\ epoch'[d] = epoch[d]) \/ ~appLive' \/
             \E r \in Request : Writes(r, d) /\ "Owner" \in held[r]]_vars

\* Rollback reads the history, its permission and the next ordinal in statements
\* of their own, and requests interleave between them.  Still, what becomes of a
\* history is a log of rollbacks that each took effect at once, at their insert,
\* but for those a purge overtook.
Log == INSTANCE ReleaseLog WITH log <- packages, uploads <- seed, purges <- epoch
ImplementsLog == Log!Spec
=============================================================================
