----------------------------- MODULE Deployments -----------------------------
(***************************************************************************)
(* The deployments of one app and the counters kept under their keys: the  *)
(* service methods CreateDeployment, UpdateDeployment, DeleteDeployment,   *)
(* ReportDeploy and ReportDownload, and the part of ClearHistory that      *)
(* empties the counters.                                                   *)
(*                                                                         *)
(* A deployment is a row of PostgreSQL, its counters are in Redis under its *)
(* key: nothing relates the two stores.  Each statement is one action.  The *)
(* permission a request is checked for before a statement only decides     *)
(* whether it goes on (Apps and Releases model it): here it may be refused *)
(* at any of them.  A read that answers (GetDeployment) is Find alone.     *)
(***************************************************************************)
EXTENDS Naturals, FiniteSets

CONSTANTS
    Deployment,  \* rows of table deployments (ids are UUIDs, never reused)
    Name,
    Given,       \* keys a creation may ask for
    Generated,   \* what tokenGenerator returns
    StartName, StartKey,  \* the deployments that exist at first
    Request, Calls,
    NoName, NoKey, NoDeployment

MaxAttempts == 3                      \* maxGeneratedDeploymentKeyAttempts
Key == Given \cup Generated
Op == {"create", "rename", "delete", "clear"}
Call == [op : Op, name : Name, new : Name \cup {NoName}, key : Key \cup {NoKey}]
PC == {"idle", "draw", "insert", "find", "update", "reread", "delete", "clear",
       "answered"}
Result == {"none", "ok", "notFound", "conflict", "error"}

ASSUME CallsAssumption == Calls \subseteq {c \in Call : c.op = "create" => c.key \notin Generated}
ASSUME KeysAssumption == Given \cap Generated = {} /\ NoKey \notin Key
ASSUME NothingAssumption == NoName \notin Name /\ NoDeployment \notin Deployment
ASSUME StartAssumption ==
    /\ StartName \in [Deployment -> Name \cup {NoName}]
    /\ StartKey \in [Deployment -> Key \cup {NoKey}]
    /\ \A d \in Deployment : StartName[d] = NoName <=> StartKey[d] = NoKey
    /\ \A d, e \in Deployment :
         d # e /\ StartKey[d] # NoKey => StartName[d] # StartName[e] /\ StartKey[d] # StartKey[e]

VARIABLES
    app,        \* the app's row is there
    name,       \* column name, NoName if there is no such row
    key,        \* column deployment_key, kept here when the row is deleted;
                \* NoKey if there never was one
    counters,   \* Redis: the deployments whose reports are counted under each key,
                \* NoDeployment for reports that came when none had the key
    pc, call, result,
    target,     \* the row the request read
    readKey,    \* the key it read there; the name is the one it asked for
    token,      \* the key it creates a row with
    attempt,    \* createDeploymentWithGeneratedKey: failed attempts
    got,        \* the row it made or read last: what it is answered with
    drawn, twins,  \* history: tokens generated so far; those that were generated twice
    named, collided,  \* history: its name was taken when it inserted; how often its key was
    touched     \* history: others wrote the row it read since it read or wrote it

tables == <<app, name, key>>
locals == <<target, readKey, token, attempt, got>>
history == <<drawn, twins, named, collided, touched>>
vars == <<tables, counters, pc, call, result, locals, history>>

Init ==
    /\ app = TRUE
    /\ name = StartName /\ key = StartKey
    /\ counters = [k \in Key |-> {}]
    /\ pc = [r \in Request |-> "idle"]
    /\ call \in [Request -> Calls]
    /\ result = [r \in Request |-> "none"]
    /\ target = [r \in Request |-> NoDeployment]
    /\ readKey = [r \in Request |-> NoKey]
    /\ token = [r \in Request |-> NoKey]
    /\ attempt = [r \in Request |-> 0]
    /\ got = [r \in Request |-> NoDeployment]
    /\ drawn = {key[d] : d \in Deployment} \cap Generated
    /\ twins = {}
    /\ named = [r \in Request |-> FALSE]
    /\ collided = [r \in Request |-> 0]
    /\ touched = [r \in Request |-> FALSE]

Goto(r, here, there) == pc[r] = here /\ pc' = [pc EXCEPT ![r] = there]
Answer(r, outcome) ==
    /\ pc' = [pc EXCEPT ![r] = "answered"]
    /\ result' = [result EXCEPT ![r] = outcome]

Live == {d \in Deployment : name[d] # NoName}
Bearers(n) == {d \in Live : name[d] = n}
Holders(k) == {d \in Live : key[d] = k}

\* The requests whose row d is, other than r itself.
Touch(r, d) ==
    touched' = [q \in Request |->
        IF q = r THEN FALSE ELSE touched[q] \/ (pc[q] # "answered" /\ target[q] = d)]

\* A write takes effect whether or not its answer reaches the server.
Outcome == {"ok", "error"}

-----------------------------------------------------------------------------
(* Requests *)

First == [create |-> "insert", rename |-> "find", delete |-> "find", clear |-> "find"]

IgnoresNoKey(r) == First[call[r].op]
Start(r) ==
    IF call[r].op = "create" /\ call[r].key = NoKey THEN "draw" ELSE First[call[r].op]

\* AppRepo.GetByName finds the app first.
Begin(r) ==
    /\ token' = [token EXCEPT ![r] = call[r].key]
    /\ Goto(r, "idle", Start(r))
    /\ UNCHANGED <<tables, counters, call, result, target, readKey, attempt, got, history>>

\* A permission is missing, or was withdrawn since the last check, the app is
\* gone, or a store fails: the statement under way does nothing.
Fail(r) ==
    /\ pc[r] # "answered" /\ Answer(r, "error")
    /\ UNCHANGED <<tables, counters, call, locals, history>>

-----------------------------------------------------------------------------
(* CreateDeployment *)

\* A token is random; where there is no randomness it is a hash of the account
\* and the nanosecond: only requests that are at it at one time get the same.
InUse(r) == {token[q] : q \in {p \in Request \ {r} : pc[p] = "insert"}}
OldTokens(r) == IF drawn = {} THEN Generated ELSE drawn
Tokens(r) == (Generated \ drawn) \cup (InUse(r) \cap Generated)

Draw(r) ==
    /\ Goto(r, "draw", "insert")
    /\ \E t \in Tokens(r) : token' = [token EXCEPT ![r] = t] /\ drawn' = drawn \cup {t}
                            /\ twins' = twins \cup (InUse(r) \cap {t})
    /\ UNCHANGED <<tables, counters, call, result, target, readKey, attempt, got,
                   named, collided, touched>>

Taken(r) == Bearers(call[r].name) # {}
NeverCollides(r) == FALSE
Collides(r) == Holders(token[r]) # {}

Retries(r) == call[r].key = NoKey /\ attempt[r] + 1 < MaxAttempts

\* Both unique indexes answer with a duplicate key, which is a conflict.
Conflict(r) ==
    /\ pc[r] = "insert" /\ app
    /\ Taken(r) \/ Collides(r)
    /\ \/ Retries(r) /\ Goto(r, "insert", "draw") /\ UNCHANGED result
       \/ ~Retries(r) /\ Answer(r, "conflict")
    /\ attempt' = [attempt EXCEPT ![r] = @ + 1]
    /\ named' = [named EXCEPT ![r] = @ \/ Taken(r)]
    /\ collided' = [collided EXCEPT ![r] = IF Collides(r) THEN @ + 1 ELSE @]
    /\ UNCHANGED <<tables, counters, call, target, readKey, token, got,
                   drawn, twins, touched>>

Insert(r) ==
    /\ pc[r] = "insert" /\ app /\ ~Taken(r) /\ ~Collides(r)
    /\ \E d \in Deployment :
         /\ key[d] = NoKey
         /\ name' = [name EXCEPT ![d] = call[r].name]
         /\ key' = [key EXCEPT ![d] = token[r]]
         /\ got' = [got EXCEPT ![r] = d]
    /\ \E outcome \in Outcome : Answer(r, outcome)
    /\ UNCHANGED <<app, counters, call, target, readKey, token, attempt, history>>

-----------------------------------------------------------------------------
(* DeploymentRepo.GetByName, and what the methods do with the row *)

Then == [rename |-> "update", delete |-> "delete", clear |-> "clear"]

Find(r) ==
    /\ pc[r] = "find"
    /\ UNCHANGED <<tables, counters, call, token, attempt, got, drawn, twins, named, collided>>
    /\ \/ /\ Bearers(call[r].name) = {} /\ Answer(r, "notFound")
          /\ UNCHANGED <<target, readKey, touched>>
       \/ \E d \in Bearers(call[r].name) :
            /\ target' = [target EXCEPT ![r] = d]
            /\ readKey' = [readKey EXCEPT ![r] = key[d]]
            /\ touched' = [touched EXCEPT ![r] = FALSE]
            /\ Goto(r, "find", Then[call[r].op]) /\ UNCHANGED result

\* A PATCH without a name writes the name that was read.
NewName(r) == IF call[r].new = NoName THEN call[r].name ELSE call[r].new

\* UPDATE ... WHERE id.  Unlike Create, Update passes the violation of the index
\* on: an internal error.
Row(r) == target[r]

Update(r) ==
    /\ pc[r] = "update"
    /\ UNCHANGED <<app, key, counters, call, locals, drawn, twins, named, collided>>
    /\ \/ Row(r) \notin Live /\ Answer(r, "notFound") /\ UNCHANGED <<name, touched>>
       \/ /\ Row(r) \in Live /\ Bearers(NewName(r)) \ {Row(r)} # {}
          /\ Answer(r, "error") /\ UNCHANGED <<name, touched>>
       \/ /\ Row(r) \in Live /\ Bearers(NewName(r)) \ {Row(r)} = {}
          /\ name' = [name EXCEPT ![Row(r)] = NewName(r)]
          /\ Touch(r, Row(r))
          /\ \/ Goto(r, "update", "reread") /\ UNCHANGED result
             \/ Answer(r, "error")

\* Update answers with the deployment that has the name by now.
SoughtOld(r) == call[r].name
Sought(r) == NewName(r)
Reread(r) ==
    /\ pc[r] = "reread"
    /\ UNCHANGED <<tables, counters, call, target, readKey, token, attempt, history>>
    /\ \/ Bearers(Sought(r)) = {} /\ Answer(r, "notFound") /\ UNCHANGED got
       \/ \E d \in Bearers(Sought(r)) : Answer(r, "ok") /\ got' = [got EXCEPT ![r] = d]

\* The packages go with the row, the counters stay.
Delete(r) ==
    /\ pc[r] = "delete"
    /\ UNCHANGED <<app, key, counters, call, locals, drawn, twins, named, collided>>
    /\ \/ Row(r) \notin Live /\ Answer(r, "notFound") /\ UNCHANGED <<name, touched>>
       \/ /\ Row(r) \in Live /\ \E outcome \in Outcome : Answer(r, outcome)
          /\ name' = [name EXCEPT ![Row(r)] = NoName]
          /\ Touch(r, Row(r))

-----------------------------------------------------------------------------
(* The counters *)

\* ClearHistory, its packages deleted, clears what is under the key it read.
Clear(r) ==
    /\ pc[r] = "clear" /\ \E outcome \in Outcome : Answer(r, outcome)
    /\ counters' = [counters EXCEPT ![readKey[r]] = {}]
    /\ UNCHANGED <<tables, call, locals, history>>

\* A report of a client, under the key it was built with: a given one, or one
\* that some deployment got.  Nobody looks whether there is one with that key.
Report(k) ==
    /\ k \in Given \cup {key[d] : d \in Deployment}
    /\ counters' = [counters EXCEPT ![k] =
         @ \cup (IF Holders(k) = {} THEN {NoDeployment} ELSE Holders(k))]
    /\ UNCHANGED <<tables, pc, call, result, locals, history>>

-----------------------------------------------------------------------------

\* Another request deletes the app: its deployments go with it.
DeleteApp ==
    /\ app /\ app' = FALSE
    /\ name' = [d \in Deployment |-> NoName]
    /\ touched' = [r \in Request |-> touched[r] \/ pc[r] # "answered"]
    /\ UNCHANGED <<key, counters, pc, call, result, locals, drawn, twins, named, collided>>

Step(r) ==
    \/ Begin(r) \/ Draw(r) \/ Conflict(r) \/ Insert(r) \/ Find(r) \/ Update(r) \/ Reread(r)
    \/ Delete(r) \/ Clear(r)

Next ==
    \/ DeleteApp
    \/ \E k \in Key : Report(k)
    \/ \E r \in Request : Step(r) \/ Fail(r)

Spec == Init /\ [][Next]_vars

-----------------------------------------------------------------------------
(* Properties *)

Types ==
    /\ app \in BOOLEAN
    /\ name \in [Deployment -> Name \cup {NoName}]
    /\ key \in [Deployment -> Key \cup {NoKey}]
    /\ \A d \in Live : key[d] \in Key
    /\ counters \in [Key -> SUBSET (Deployment \cup {NoDeployment})]
    /\ pc \in [Request -> PC]
    /\ call \in [Request -> Calls]
    /\ result \in [Request -> Result]
    /\ target \in [Request -> Deployment \cup {NoDeployment}]
    /\ readKey \in [Request -> Key \cup {NoKey}]
    /\ token \in [Request -> Key \cup {NoKey}]
    /\ attempt \in [Request -> 0..MaxAttempts]
    /\ got \in [Request -> Deployment \cup {NoDeployment}]
    /\ drawn \subseteq Generated /\ twins \subseteq Generated
    /\ named \in [Request -> BOOLEAN] /\ touched \in [Request -> BOOLEAN]
    /\ collided \in [Request -> 0..MaxAttempts]

\* Types, and the unique indexes of table deployments: of the rows that are
\* there, each has a key and a name of its own.
Unique == \A d, e \in Live : d # e => name[d] # name[e] /\ key[d] # key[e]
TypeOK == Types /\ Unique

\* A deployment gets only names a PATCH asks for.  One that asks for none, and
\* so writes the name it read, undoes a rename only if that one came in between.
NamedAsAsked == [][
    \A d \in Live : name'[d] \notin {name[d], NoName} =>
        \E r \in Request :
            /\ pc[r] = "update" /\ pc'[r] # "update" /\ target[r] = d
            /\ call[r].new = name'[d] \/ (call[r].new = NoName /\ touched[r])]_vars

\* A PATCH is answered with another deployment than the one it renamed only if
\* somebody renamed or deleted that one again before it was read.
RenameAnswersOwn ==
    \A r \in Request :
        call[r].op = "rename" /\ result[r] = "ok" /\ got[r] # target[r] => touched[r]

\* Equal tokens alone make no creation fail, short of three in a row: it draws
\* again.
ConflictsOnlyIfTaken ==
    \A r \in Request :
        result[r] = "conflict" /\ call[r].key = NoKey => named[r] \/ collided[r] = MaxAttempts

\* Under a generated key there is nothing but what was reported for the
\* deployment itself, unless two requests drew the key at one time.  (Under a
\* given one a new deployment starts with what the last one left.)
InheritsOnlyGivenKey ==
    \A d \in Live : key[d] \in Generated \ twins => counters[key[d]] \subseteq {d}

\* Clearing a history takes the counters of another deployment only if the one
\* it found was deleted meanwhile and the other got its key.
ClearsOwn == [][
    \A k \in Key : \A e \in (counters[k] \ counters'[k]) \cap Live :
        \E r \in Request :
            /\ pc[r] = "clear" /\ pc'[r] = "answered"
            /\ target[r] = e \/ (target[r] \notin Live /\ touched[r])]_vars
=============================================================================
