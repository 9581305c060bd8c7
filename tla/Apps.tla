-------------------------------- MODULE Apps --------------------------------
(***************************************************************************)
(* Apps and their names: the service methods CreateApp, UpdateApp and      *)
(* GetApp over tables apps, app_collaborators and deployments.             *)
(*                                                                         *)
(* No index makes the name of an app unique: AppRepo looks for the name    *)
(* among the apps of the account and writes in a later statement, at READ  *)
(* COMMITTED.  AppRepo.GetByName is a query and two more for every row it  *)
(* returns, and CreateApp adds the default deployments one at a time after *)
(* the transaction that creates the app.  Each statement is one action.    *)
(***************************************************************************)
EXTENDS Naturals, FiniteSets

CONSTANTS
    Account,
    App,        \* rows of table apps (ids are UUIDs, never reused)
    Name,       \* strings an app may be called
    Parse,      \* how GetByName splits a name at its first ":"
    Request,    \* the HTTP requests of a behaviour
    Calls,      \* what they may ask for
    Start,      \* the apps that exist at first
    Grants,     \* the levels other requests may give meanwhile
    NoName, NoApp, Anyone

MaxAttempts == 3                      \* maxGeneratedDeploymentKeyAttempts
Defaults == {"Production", "Staging"}
Level == {"None", "Collaborator", "Owner"}
Op == {"create", "rename", "get"}
Call == [op : Op, account : Account, name : Name, new : Name \cup {NoName}, manual : BOOLEAN]
PC == {"idle", "query", "visit", "listDeployments", "mayOwn", "checkName", "insertApp",
       "renameApp", "mayDeploy", "insertDeployment", "answered"}
Result == {"none", "ok", "notFound", "forbidden", "conflict", "error"}
Candidate == [app : App, mine : BOOLEAN]

ASSUME ParseAssumption == Parse \in [Name -> [owner : Account \cup {Anyone}, name : Name]]
ASSUME CallsAssumption == Calls \subseteq Call
ASSUME StartAssumption == Start \subseteq App
ASSUME GrantsAssumption == Grants \subseteq App \X Account \X Level
ASSUME NothingAssumption == NoName \notin Name /\ NoApp \notin App /\ Anyone \notin Account

VARIABLES
    name,         \* table apps: NoName is no row
    fresh,        \* ids no row has had
    level,        \* table app_collaborators: "None" is no row
    deployments,  \* names in table deployments, for each app
    pc, call, result,
    todo, candidates, current,  \* GetByName: rows to visit, apps found, row visited
    target,       \* the app the request creates or renames
    attempt,      \* createDeploymentWithGeneratedKey: failed attempts
    got,          \* the app the request is answered with
    clock, checkedAt,          \* history: writes of names; their number at a check
    namer, named, checked, kept,  \* history: who named an app, when, after which
                                  \* check; apps whose namer has stayed a member
    own, owned    \* history: apps of the account under the name a get asks for, ever
                  \* since its query; apps it owned at some moment of the request

tables == <<name, fresh, level, deployments>>
lookup == <<todo, candidates, current>>
names == <<clock, namer, named, checked, kept>>
locals == <<lookup, target, attempt, got, checkedAt>>
vars == <<tables, pc, call, result, locals, names, own, owned>>

\* An app has one owner, and nobody owns two apps of one name.
Init ==
    /\ fresh = App \ Start
    /\ name \in {f \in [App -> Name \cup {NoName}] : \A a \in App : f[a] = NoName <=> a \in fresh}
    /\ level \in [App -> [Account -> Level]]
    /\ namer \in [App -> Account \cup {Anyone}]
    /\ \A a \in Start : \A x \in Account : level[a][x] = "Owner" <=> x = namer[a]
    /\ \A a \in fresh : namer[a] = Anyone /\ \A x \in Account : level[a][x] = "None"
    /\ \A a, b \in Start : name[a] = name[b] /\ namer[a] = namer[b] => a = b
    /\ \A a \in Start : namer[a] \in Account
    /\ deployments = [a \in App |-> {}]
    /\ pc = [r \in Request |-> "idle"]
    /\ call \in [Request -> Calls]
    /\ result = [r \in Request |-> "none"]
    /\ todo = [r \in Request |-> {}]
    /\ candidates = [r \in Request |-> {}]
    /\ current = [r \in Request |-> NoApp]
    /\ target = [r \in Request |-> NoApp]
    /\ attempt = [r \in Request |-> 0]
    /\ got = [r \in Request |-> NoApp]
    /\ clock = 0
    /\ checkedAt = [r \in Request |-> 0]
    /\ named = [a \in App |-> 0]
    /\ checked = [a \in App |-> 0]
    /\ kept = Start
    /\ own = [r \in Request |-> {}]
    /\ owned = [r \in Request |-> {}]

-----------------------------------------------------------------------------
(* Requests *)

Actor(r) == call[r].account
LevelOf(r, a) == level[a][Actor(r)]
Goto(r, here, there) == pc[r] = here /\ pc' = [pc EXCEPT ![r] = there]
Answer(r, outcome) ==
    /\ pc' = [pc EXCEPT ![r] = "answered"]
    /\ result' = [result EXCEPT ![r] = outcome]

\* The name the request gives its app.  UpdateApp with no name writes the name
\* it read, the part behind the ":".
NewName(r) ==
    CASE call[r].op = "create" -> call[r].name
      [] call[r].op # "create" /\ call[r].new # NoName -> call[r].new
      [] OTHER -> Parse[call[r].name].name

\* What GetByName is asked for: at first the app of the request, in the end
\* the one that was written.
Sought(r) == Parse[IF target[r] = NoApp THEN call[r].name ELSE NewName(r)]

Begin(r) ==
    /\ Goto(r, "idle", IF call[r].op = "create" THEN "checkName" ELSE "query")
    /\ UNCHANGED <<tables, call, result, locals, names>>

-----------------------------------------------------------------------------
(* AppRepo.GetByName *)

Query(r) ==
    /\ Goto(r, "query", "visit")
    /\ todo' = [todo EXCEPT ![r] =
                  {a \in App : LevelOf(r, a) # "None" /\ name[a] = Sought(r).name}]
    /\ UNCHANGED <<tables, call, result, candidates, current, target, attempt, got, checkedAt, names>>

\* ListCollaborators of the next row, in the order of the query's plan.
Visit(r) ==
    /\ pc[r] = "visit"
    /\ UNCHANGED <<tables, call, result, target, attempt, got, checkedAt, names>>
    /\ \E a \in todo[r] :
         /\ todo' = [todo EXCEPT ![r] = @ \ {a}]
         /\ \/ /\ Sought(r).owner # Anyone /\ level[a][Sought(r).owner] # "Owner"
               /\ UNCHANGED <<pc, candidates, current>>
            \/ /\ Sought(r).owner # Anyone => level[a][Sought(r).owner] = "Owner"
               /\ candidates' = [candidates EXCEPT ![r] =
                                   @ \cup {[app |-> a, mine |-> LevelOf(r, a) = "Owner"]}]
               /\ current' = [current EXCEPT ![r] = a]
               /\ Goto(r, "visit", "listDeployments")

\* DeploymentRepo.List checks the permission again: losing one row of the
\* query fails the whole lookup.
ListDeployments(r) ==
    /\ pc[r] = "listDeployments"
    /\ current' = [current EXCEPT ![r] = NoApp]
    /\ \/ LevelOf(r, current[r]) # "None" /\ Goto(r, "listDeployments", "visit") /\ UNCHANGED result
       \/ LevelOf(r, current[r]) = "None" /\ Answer(r, "notFound")
    /\ UNCHANGED <<tables, call, todo, candidates, target, attempt, got, checkedAt, names>>

\* The only candidate, or one the account owns.
ChosenAny(r) == {c.app : c \in candidates[r]}
Chosen(r) ==
    {c.app : c \in {c \in candidates[r] : c.mine \/ candidates[r] = {c}}}

\* The loop over the rows ends when all were visited, or when the query fails on
\* its way: nobody asks rows.Err(), and the rows that are missing stay in todo.
Decide(r) ==
    /\ pc[r] = "visit"
    /\ candidates' = [candidates EXCEPT ![r] = {}]
    /\ UNCHANGED <<tables, call, todo, current, attempt, checkedAt, names>>
    /\ \/ /\ Chosen(r) = {}
          /\ Answer(r, IF candidates[r] = {} THEN "notFound" ELSE "conflict")
          /\ UNCHANGED <<target, got>>
       \/ \E a \in Chosen(r) :
            \/ /\ call[r].op = "rename" /\ target[r] = NoApp
               /\ target' = [target EXCEPT ![r] = a]
               /\ Goto(r, "visit", "mayOwn")
               /\ UNCHANGED <<result, got>>
            \/ /\ call[r].op # "rename" \/ target[r] # NoApp
               /\ got' = [got EXCEPT ![r] = a]
               /\ Answer(r, "ok")
               /\ UNCHANGED target

-----------------------------------------------------------------------------
(* AppRepo.Create, AppRepo.Update, DeploymentRepo.Create *)

\* requirePermission(..., PermissionOwner) on the request's app
IsMember(r) == LevelOf(r, target[r]) # "None"
IsOwner(r) == LevelOf(r, target[r]) = "Owner"

RequireOwner(r, here, there) ==
    /\ pc[r] = here
    /\ UNCHANGED <<tables, call, locals, names>>
    /\ \/ IsOwner(r) /\ Goto(r, here, there) /\ UNCHANGED result
       \/ /\ ~IsOwner(r)
          /\ Answer(r, IF LevelOf(r, target[r]) = "None" THEN "notFound" ELSE "forbidden")

MayOwn(r) == RequireOwner(r, "mayOwn", "checkName")

\* isUniqueAppName
TakenOnCreate(r) ==
    call[r].op = "create" /\ \E a \in App : LevelOf(r, a) # "None" /\ name[a] = NewName(r)
Taken(r) ==
    \E a \in App \ {target[r]} : LevelOf(r, a) # "None" /\ name[a] = NewName(r)

CheckName(r) ==
    /\ pc[r] = "checkName"
    /\ UNCHANGED <<tables, call, lookup, target, attempt, got, names>>
    /\ \/ /\ ~Taken(r)
          /\ Goto(r, "checkName", IF call[r].op = "create" THEN "insertApp" ELSE "renameApp")
          /\ checkedAt' = [checkedAt EXCEPT ![r] = clock]
          /\ UNCHANGED result
       \/ Taken(r) /\ Answer(r, "conflict") /\ UNCHANGED checkedAt

\* App a is called NewName(r) from now on.
GiveName(r, a) ==
    /\ name' = [name EXCEPT ![a] = NewName(r)]
    /\ clock' = clock + 1
    /\ namer' = [namer EXCEPT ![a] = Actor(r)]
    /\ named' = [named EXCEPT ![a] = clock + 1]
    /\ checked' = [checked EXCEPT ![a] = checkedAt[r]]

\* Both INSERTs of the transaction are seen when it commits.
InsertApp(r) ==
    /\ pc[r] = "insertApp"
    /\ \E a \in fresh :
         /\ fresh' = fresh \ {a}
         /\ GiveName(r, a)
         /\ level' = [level EXCEPT ![a][Actor(r)] = "Owner"]
         /\ kept' = kept \cup {a}
         /\ target' = [target EXCEPT ![r] = a]
    /\ \/ Goto(r, "insertApp", IF call[r].manual THEN "query" ELSE "mayDeploy") /\ UNCHANGED result
       \/ Answer(r, "error")
    /\ UNCHANGED <<deployments, call, lookup, attempt, got, checkedAt>>

RenameApp(r) ==
    LET a == target[r] IN
    /\ pc[r] = "renameApp"
    /\ \/ /\ name[a] # NoName
          /\ GiveName(r, a)
          /\ kept' = IF LevelOf(r, a) = "None" THEN kept \ {a} ELSE kept \cup {a}
          /\ \/ Goto(r, "renameApp", "query") /\ UNCHANGED result
             \/ Answer(r, "error")
       \/ name[a] = NoName /\ Answer(r, "notFound") /\ UNCHANGED <<name, names>>
    /\ UNCHANGED <<fresh, level, deployments, call, locals>>

MayDeploy(r) == RequireOwner(r, "mayDeploy", "insertDeployment")

\* The default deployment to create next: Production before Staging.
NextDefault(r) ==
    IF "Production" \in deployments[target[r]] THEN "Staging" ELSE "Production"

AfterFirst(r, d) == "query"
AfterDeployment(r, d) == IF d = "Staging" THEN "query" ELSE "mayDeploy"

AlwaysRetry(r) == TRUE
MayRetry(r) == attempt[r] + 1 < MaxAttempts

\* A row with a generated key: the key, 20 random bytes, may be another's.
InsertDeployment(r) ==
    LET d == NextDefault(r) IN
    /\ pc[r] = "insertDeployment"
    /\ \/ /\ name[target[r]] = NoName
          /\ Answer(r, "error")
          /\ UNCHANGED <<deployments, attempt>>
       \/ /\ name[target[r]] # NoName
          /\ deployments' = [deployments EXCEPT ![target[r]] = @ \cup {d}]
          /\ attempt' = [attempt EXCEPT ![r] = 0]
          /\ \/ Goto(r, "insertDeployment", AfterDeployment(r, d)) /\ UNCHANGED result
             \/ Answer(r, "error")
       \/ /\ attempt' = [attempt EXCEPT ![r] = @ + 1]
          /\ \/ MayRetry(r) /\ Goto(r, "insertDeployment", "mayDeploy") /\ UNCHANGED result
             \/ ~MayRetry(r) /\ Answer(r, "conflict")
          /\ UNCHANGED deployments
    /\ UNCHANGED <<name, fresh, level, call, lookup, target, got, checkedAt, names>>

\* A statement fails, the client goes away or the server stops: the request
\* and its locals are gone.
Fail(r) ==
    /\ pc[r] \notin {"idle", "answered"}
    /\ Answer(r, "error")
    /\ todo' = [todo EXCEPT ![r] = {}]
    /\ candidates' = [candidates EXCEPT ![r] = {}]
    /\ current' = [current EXCEPT ![r] = NoApp]
    /\ attempt' = [attempt EXCEPT ![r] = 0]
    /\ checkedAt' = [checkedAt EXCEPT ![r] = 0]
    /\ UNCHANGED <<tables, call, target, got, names>>

(* The rest of the system: AppRepo changes who may do what, or deletes an app *)

Grant(a, x, l) ==
    /\ name[a] # NoName
    /\ <<a, x, l>> \in Grants
    /\ level' = [level EXCEPT ![a][x] = l]
    /\ kept' = IF l = "None" /\ namer[a] = x THEN kept \ {a} ELSE kept
    /\ UNCHANGED <<name, fresh, deployments, pc, call, result, locals, clock, namer, named, checked>>

DeleteApp(a) ==
    /\ name[a] # NoName
    /\ name' = [name EXCEPT ![a] = NoName]
    /\ level' = [level EXCEPT ![a] = [x \in Account |-> "None"]]
    /\ deployments' = [deployments EXCEPT ![a] = {}]
    /\ kept' = kept \ {a}
    /\ UNCHANGED <<fresh, pc, call, result, locals, clock, namer, named, checked>>

-----------------------------------------------------------------------------

Step(r) ==
    \/ Query(r) \/ Visit(r) \/ ListDeployments(r) \/ Decide(r)
    \/ MayOwn(r) \/ CheckName(r) \/ InsertApp(r) \/ RenameApp(r)
    \/ MayDeploy(r) \/ InsertDeployment(r)

Owned == [r \in Request |-> {a \in App : LevelOf(r, a) = "Owner"}]
Own == [r \in Request |-> {a \in Owned[r] : name[a] = Sought(r).name}]

\* The history of what an account owned while its request runs.
Watch ==
    /\ own' = [r \in Request |->
         IF pc[r] = "answered" THEN own[r]
         ELSE {a \in Own'[r] : /\ call[r].op = "get" /\ pc'[r] # "idle"
                               /\ pc'[r] = "query" \/ a \in own[r]}]
    /\ owned' = [r \in Request |->
         IF pc'[r] = "idle" THEN {}
         ELSE IF pc[r] = "answered" THEN owned[r] ELSE owned[r] \cup Owned'[r]]

Next ==
    /\ \/ \E r \in Request : Begin(r) \/ Step(r) \/ Fail(r)
       \/ \E a \in App, x \in Account, l \in Level : Grant(a, x, l)
       \/ \E a \in App : DeleteApp(a)
    /\ Watch

Spec == Init /\ [][Next]_vars

-----------------------------------------------------------------------------
(* Properties *)

TypeOK ==
    /\ name \in [App -> Name \cup {NoName}]
    /\ fresh \subseteq App
    /\ level \in [App -> [Account -> Level]]
    /\ deployments \in [App -> SUBSET Defaults]
    /\ pc \in [Request -> PC]
    /\ call \in [Request -> Calls]
    /\ result \in [Request -> Result]
    /\ todo \in [Request -> SUBSET App]
    /\ candidates \in [Request -> SUBSET Candidate]
    /\ current \in [Request -> App \cup {NoApp}]
    /\ target \in [Request -> App \cup {NoApp}]
    /\ attempt \in [Request -> 0..MaxAttempts]
    /\ got \in [Request -> App \cup {NoApp}]
    /\ clock \in Nat
    /\ checkedAt \in [Request -> Nat]
    /\ namer \in [App -> Account \cup {Anyone}]
    /\ named \in [App -> Nat]
    /\ checked \in [App -> Nat]
    /\ kept \subseteq App
    /\ own \in [Request -> SUBSET App]
    /\ owned \in [Request -> SUBSET App]

\* Two apps that an account named, and never left since, have the same name
\* only if the two requests overlapped: each wrote the name after the check of
\* the other.  One after the other, isUniqueAppName keeps the names apart.
ClashOnlyByOverlap ==
    \A a, b \in kept : a # b /\ namer[a] = namer[b] /\ name[a] = name[b] =>
        named[a] > checked[b] /\ named[b] > checked[a]

\* GetByName asked for the account's apps, not for somebody else's.
AsksForOwn(r) == Parse[call[r].name].owner \in {Anyone, Actor(r)}

\* The answer, if it names an app, names one the account owned.
Preferred(r) ==
    /\ result[r] # "conflict"
    /\ result[r] = "ok" => got[r] \in owned[r]

\* GetByName prefers the account's own app among several of a name, however
\* permissions and names change while it goes through them: when it has read all
\* rows of its query, an account that owns an app of the name all along gets one
\* it owned, and no conflict.  Of a query cut short this is false (Decide).
OwnAppWins ==
    \A r \in Request :
        call[r].op = "get" /\ AsksForOwn(r) /\ own[r] # {} /\ todo[r] = {} => Preferred(r)

\* CreateApp adds the default deployments after the app is there for all to
\* see.  An app lacks one only while its request runs or when it failed, and
\* Staging is never there without Production.
IncompleteOnlyByFailure ==
    \A r \in Request :
        call[r].op = "create" /\ ~call[r].manual /\ target[r] # NoApp =>
            /\ result[r] = "ok" /\ name[target[r]] # NoName => deployments[target[r]] = Defaults
            /\ "Staging" \in deployments[target[r]] => "Production" \in deployments[target[r]]

\* The UPDATE of a rename repeats no check.  Still, an app is renamed only for
\* an account that owned it at some moment of its request.
RenamedByOwner ==
    [][\A a \in App : name[a] # NoName /\ name'[a] \notin {NoName, name[a]} =>
          \E r \in Request : pc'[r] # pc[r] /\ target[r] = a /\ a \in owned[r]]_vars
=============================================================================
