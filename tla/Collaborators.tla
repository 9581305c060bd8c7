--------------------------- MODULE Collaborators ---------------------------
(***************************************************************************)
(* Who may do what in one app: the service methods TransferApp,            *)
(* AddCollaborator, RemoveCollaborator and DeleteApp over table            *)
(* app_collaborators.                                                      *)
(*                                                                         *)
(* Every statement is an autocommit transaction at READ COMMITTED, so the  *)
(* permission check of a method and its write are separate actions.  Only  *)
(* Transfer opens a transaction, after its checks, of two writes: the      *)
(* first locks the row of the actor if there is one, and both become       *)
(* visible when the second one commits.  The deletion of the app is one    *)
(* statement that locks many rows: the app's, which every new row of       *)
(* app_collaborators refers to, and then those of its collaborators.       *)
(***************************************************************************)
EXTENDS Naturals, FiniteSets

CONSTANTS
    Account,   \* rows of table accounts, an email address each; never deleted
    Stranger,  \* an email address no account has
    Request,   \* the HTTP requests of a behaviour
    Calls      \* what they may ask for

ASSUME StrangerAssumption == Stranger \notin Account

Op == {"transfer", "add", "remove", "delete"}
Level == {"None", "Collaborator", "Owner"}
Call == [op : Op, account : Account, email : Account \cup {Stranger}]
PC == {"idle", "findApp", "mayOwn", "readCollaborators", "findAccount", "demote",
       "promote", "upsert", "deleteRow", "deleteApp", "cascade", "answered"}
Result == {"none", "ok", "notFound", "forbidden", "error"}

ASSUME CallsAssumption == Calls \subseteq Call

VARIABLES
    permission,  \* table app_collaborators of the app: "None" is no row
    appLive,     \* whether the app's row exists
    pc, call, result,   \* the requests in the server
    locked,      \* level of the actor's row when Transfer's UPDATE locked it
    taken,       \* the collaborators' rows the deletion under way has locked
    seen,        \* history: level of the actor in the request's last check
    held         \* history: levels the actor has had since the request began

vars == <<permission, appLive, pc, call, result, locked, taken, seen, held>>

\* AppRepo.Create makes the creator the owner; it may have added others.
Init ==
    /\ \E owner \in Account :
         permission \in [Account -> {"None", "Collaborator", "Owner"}] /\
         \A a \in Account : permission[a] = "Owner" <=> a = owner
    /\ appLive = TRUE
    /\ pc = [r \in Request |-> "idle"]
    /\ call \in [Request -> Calls]
    /\ result = [r \in Request |-> "none"]
    /\ locked = [r \in Request |-> "None"]
    /\ taken = {}
    /\ seen = [r \in Request |-> "None"]
    /\ held = [r \in Request |-> {}]

Owners == {a \in Account : permission[a] = "Owner"}
Members == {a \in Account : permission[a] # "None"}
Actor(r) == call[r].account
Target(r) == call[r].email
Active(r) == pc[r] \notin {"idle", "answered"}

Goto(r, here, there) == pc[r] = here /\ pc' = [pc EXCEPT ![r] = there]
Answer(r, outcome) ==
    /\ pc' = [pc EXCEPT ![r] = "answered"]
    /\ result' = [result EXCEPT ![r] = outcome]

\* A write sets the permissions of the app and is seen by all requests at once.
Write(table) ==
    /\ permission' = table
    /\ held' = [r \in Request |->
                  IF Active(r) THEN held[r] \cup {table[Actor(r)]} ELSE held[r]]

-----------------------------------------------------------------------------
(* Checks and reads *)

Begin(r) ==
    /\ Goto(r, "idle", "findApp")
    /\ held' = [held EXCEPT ![r] = {permission[Actor(r)]}]
    /\ UNCHANGED <<permission, appLive, call, result, locked, taken, seen>>

\* AppRepo.GetByName finds the app only among those the account belongs to.
FindApp(r) ==
    /\ UNCHANGED <<permission, appLive, call, locked, taken, seen, held>>
    /\ \/ /\ permission[Actor(r)] # "None"
          /\ Goto(r, "findApp", IF call[r].op = "remove" THEN "readCollaborators" ELSE "mayOwn")
          /\ UNCHANGED result
       \/ /\ permission[Actor(r)] = "None"
          /\ pc[r] = "findApp"
          /\ Answer(r, "notFound")

\* requirePermission(..., PermissionOwner)
IsMember(r) == permission[Actor(r)] # "None"
IsOwner(r) == permission[Actor(r)] = "Owner"

MayOwn(r) ==
    /\ seen' = [seen EXCEPT ![r] = permission[Actor(r)]]
    /\ UNCHANGED <<permission, appLive, call, locked, taken, held>>
    /\ \/ /\ IsOwner(r)
          /\ Goto(r, "mayOwn", IF call[r].op = "delete" THEN "deleteApp" ELSE "findAccount")
          /\ UNCHANGED result
       \/ /\ ~IsOwner(r)
          /\ pc[r] = "mayOwn"
          /\ Answer(r, IF permission[Actor(r)] = "None" THEN "notFound" ELSE "forbidden")

\* RemoveCollaborator lists the collaborators: those who find themselves may
\* leave unless they are the owner, anybody else has to be the owner.
ReadCollaborators(r) ==
    /\ pc[r] = "readCollaborators"
    /\ seen' = [seen EXCEPT ![r] = permission[Actor(r)]]
    /\ UNCHANGED <<permission, appLive, call, locked, taken, held>>
    /\ LET leaving == Target(r) = Actor(r) /\ permission[Actor(r)] # "None" IN
       \/ ~leaving /\ Goto(r, "readCollaborators", "mayOwn") /\ UNCHANGED result
       \/ /\ leaving /\ permission[Actor(r)] = "Collaborator"
          /\ Goto(r, "readCollaborators", "findAccount")
          /\ UNCHANGED result
       \/ leaving /\ permission[Actor(r)] = "Owner" /\ Answer(r, "forbidden")

AfterAccount == [transfer |-> "demote", add |-> "upsert", remove |-> "deleteRow"]

\* AccountRepo.GetByEmail
FindAccount(r) ==
    /\ UNCHANGED <<permission, appLive, call, locked, taken, seen, held>>
    /\ \/ /\ Target(r) \in Account
          /\ Goto(r, "findAccount", AfterAccount[call[r].op])
          /\ UNCHANGED result
       \/ /\ Target(r) \notin Account
          /\ pc[r] = "findAccount"
          /\ Answer(r, "notFound")

-----------------------------------------------------------------------------
(* Writes *)

\* Another transaction holds the row of account a; a writer of it waits.
HoldsAfterError(q, a) ==
    \/ /\ pc[q] = "promote" \/ (pc[q] = "answered" /\ result[q] = "error")
       /\ locked[q] # "None" /\ Actor(q) = a
    \/ pc[q] = "cascade" /\ a \in taken
Holds(q, a) ==
    \/ pc[q] = "promote" /\ locked[q] # "None" /\ Actor(q) = a
    \/ pc[q] = "cascade" /\ a \in taken
Free(r, a) == ~ \E q \in Request \ {r} : Holds(q, a)

\* A deletion locks the row of the app, which a new row of app_collaborators
\* refers to; a row that exists is written without a look at it.
AppFree(r) == ~ \E q \in Request \ {r} : pc[q] = "cascade"
MayWrite(r, table) ==
    /\ Free(r, Target(r))
    /\ table[Target(r)] = "None" => AppFree(r)

\* A write takes effect whether or not its answer reaches the server.
Outcome == {"ok", "error"}

\* First statement of Transfer's transaction: no row, no lock, no error.
Demote(r) ==
    /\ Free(r, Actor(r))
    /\ Goto(r, "demote", "promote")
    /\ locked' = [locked EXCEPT ![r] = permission[Actor(r)]]
    /\ UNCHANGED <<permission, appLive, call, result, taken, seen, held>>

\* What the first statement leaves: the actor demoted, if he has a row.
NotDemoted(r) == permission
Demoted(r) ==
    IF locked[r] = "None" THEN permission ELSE [permission EXCEPT ![Actor(r)] = "Collaborator"]

\* What the second one makes of it.
PromotedToMember(r) == [Demoted(r) EXCEPT ![Target(r)] = "Collaborator"]
Promoted(r) == [Demoted(r) EXCEPT ![Target(r)] = "Owner"]

\* Second statement and commit.
Promote(r) ==
    /\ pc[r] = "promote"
    /\ MayWrite(r, Demoted(r))
    /\ \/ /\ appLive
          /\ Write(Promoted(r))
          /\ \E outcome \in Outcome : Answer(r, outcome)
       \/ /\ ~appLive
          /\ Answer(r, "error")
          /\ UNCHANGED <<permission, held>>
    /\ UNCHANGED <<appLive, call, locked, taken, seen>>

\* AddCollaborator's upsert overwrites whatever permission the account has.
Added(r) == [permission EXCEPT ![Target(r)] = "Collaborator"]

Upsert(r) ==
    /\ pc[r] = "upsert"
    /\ MayWrite(r, permission)
    /\ \/ /\ appLive
          /\ Write(Added(r))
          /\ \E outcome \in Outcome : Answer(r, outcome)
       \/ /\ ~appLive
          /\ Answer(r, "error")
          /\ UNCHANGED <<permission, held>>
    /\ UNCHANGED <<appLive, call, locked, taken, seen>>

DeleteRow(r) ==
    /\ pc[r] = "deleteRow"
    /\ Free(r, Target(r))
    /\ Write([permission EXCEPT ![Target(r)] = "None"])
    /\ \/ permission[Target(r)] # "None" /\ \E outcome \in Outcome : Answer(r, outcome)
       \/ permission[Target(r)] = "None" /\ Answer(r, "notFound")
    /\ UNCHANGED <<appLive, call, locked, taken, seen>>

\* DELETE FROM apps: the row of the app first,
DeleteApp(r) ==
    /\ pc[r] = "deleteApp"
    /\ AppFree(r)
    /\ \/ /\ appLive
          /\ Goto(r, "deleteApp", "cascade")
          /\ taken' = {}
          /\ UNCHANGED result
       \/ /\ ~appLive
          /\ Answer(r, "notFound")
          /\ UNCHANGED taken
    /\ UNCHANGED <<permission, appLive, call, locked, seen, held>>

\* then, in any order, the rows of the collaborators (ON DELETE CASCADE), and
\* all of them are gone at once when the statement commits.
Cascade(r) ==
    /\ pc[r] = "cascade"
    /\ \/ \E a \in Members \ taken :
             /\ Free(r, a)
             /\ taken' = taken \cup {a}
             /\ UNCHANGED <<permission, appLive, pc, result, held>>
       \/ /\ Members \subseteq taken
          /\ appLive' = FALSE
          /\ Write([a \in Account |-> "None"])
          /\ \E outcome \in Outcome : Answer(r, outcome)
          /\ UNCHANGED taken
    /\ UNCHANGED <<call, locked, seen>>

\* A statement fails, the client goes away or the server stops; an open
\* transaction rolls back.
Fail(r) ==
    /\ Active(r)
    /\ Answer(r, "error")
    /\ UNCHANGED <<permission, appLive, call, locked, taken, seen, held>>

\* What a transaction that holds rows has still to wait for: a transfer for the
\* row of its target, or of the app if the target has none; a deletion for the
\* rows of transfers.  PostgreSQL cancels one of those that wait in a circle.
WaitsFor(r, q) ==
    /\ r # q
    /\ \/ /\ pc[r] = "promote"
          /\ \/ Holds(q, Target(r))
             \/ Demoted(r)[Target(r)] = "None" /\ pc[q] = "cascade"
       \/ pc[r] = "cascade" /\ \E a \in Members \ taken : Holds(q, a)
Circle(C) == C # {} /\ \A r \in C : \E q \in C : WaitsFor(r, q)
BreakDeadlock == \E C \in SUBSET Request : Circle(C) /\ \E r \in C : Fail(r)

Step(r) ==
    \/ FindApp(r) \/ MayOwn(r) \/ ReadCollaborators(r) \/ FindAccount(r)
    \/ Demote(r) \/ Promote(r) \/ Upsert(r) \/ DeleteRow(r)
    \/ DeleteApp(r) \/ Cascade(r)

Next == \E r \in Request : Begin(r) \/ Step(r) \/ Fail(r)

Spec == Init /\ [][Next]_vars

\* A goroutine keeps running while PostgreSQL answers it, and PostgreSQL does
\* not leave a deadlock standing.
FairSpec ==
    /\ Spec
    /\ \A r \in Request : WF_vars(Step(r))
    /\ WF_vars(BreakDeadlock)

-----------------------------------------------------------------------------
(* Properties *)

TypeOK ==
    /\ permission \in [Account -> Level]
    /\ appLive \in BOOLEAN
    /\ pc \in [Request -> PC]
    /\ call \in [Request -> Calls]
    /\ result \in [Request -> Result]
    /\ locked \in [Request -> Level]
    /\ taken \subseteq Account
    /\ seen \in [Request -> Level]
    /\ held \in [Request -> SUBSET Level]

Commits(r) == pc[r] \in {"promote", "upsert", "deleteRow", "cascade"} /\ pc'[r] # pc[r]

\* The owner check of Transfer is outside its transaction.  An account becomes
\* owner only by a Transfer to it, and in the same commit the owner who gave
\* the app away steps down, unless he had lost it already when the
\* transaction locked his row.
NewOwnerReplacesOwner ==
    [][\A a \in Owners' \ Owners :
        \E r \in Request :
            /\ Commits(r) /\ call[r].op = "transfer" /\ Target(r) = a
            /\ locked[r] = "Owner" => Actor(r) \in Owners \ Owners']_vars

\* The constraint "one owner" is nowhere in the schema.  An app comes to have
\* two owners only by a transfer whose actor was still the owner when
\* requirePermission looked and no more when Transfer's UPDATE did.
Overtaken(r) ==
    /\ call[r].op = "transfer" /\ pc[r] = "answered"
    /\ seen[r] = "Owner" /\ locked[r] # "Owner"
    /\ held[r] \ {"Owner"} # {}
TwoOwnersOnlyByOverlap ==
    \A a, b \in Owners : a # b => \E r \in Request : Overtaken(r)

\* No method looks for a remaining owner.  Still, an app loses its last owner
\* only by a request that its actor made about himself, or whose actor has
\* another permission by now than the one it was checked for.
OrphanedOnlyBySelfOrStaleCheck ==
    [][Owners # {} /\ Owners' = {} /\ appLive' =>
        \E r \in Request :
            /\ Commits(r) /\ call[r].op \in {"add", "remove"}
            /\ Target(r) = Actor(r) \/ permission[Actor(r)] # seen[r]]_vars

\* Every change of a permission and the deletion of the app is the work of
\* somebody who was the owner at some moment of the request, or who leaves.
MembershipAuthority ==
    [][permission' # permission =>
        \E r \in Request :
            /\ Commits(r)
            /\ "Owner" \in held[r] \/ (call[r].op = "remove" /\ Target(r) = Actor(r))]_vars

\* Transfers lock the row of their actor first, whom they have checked to be the
\* owner.  So transactions wait for each other in a circle only if one of them
\* is the deletion of the app, or after the owner check of some transfer was no
\* longer true when the transfer locked the row.
StaleCheck(r) == seen[r] = "Owner" /\ pc[r] = "promote" /\ locked[r] # "Owner"
DeadlocksExplained ==
    \A C \in SUBSET Request : Circle(C) =>
        \/ \E r \in C : pc[r] = "cascade" \/ StaleCheck(r)
        \/ \E r \in Request : Overtaken(r)

\* Every request is answered, transactions that deadlock included.
EveryRequestAnswered == \A r \in Request : pc[r] = "findApp" ~> pc[r] = "answered"

(* What the documents and tests say, where the code does not keep it *)

\* "Transfer demotes the owner to collaborator and sets the new owner".
TransferLeavesOneOwner ==
    \A a, b \in Owners : a = b
=============================================================================
