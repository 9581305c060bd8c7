----------------------------- MODULE AppsProofs -----------------------------
(* The safety properties of Apps, for any accounts, apps, names and requests. *)
EXTENDS Apps, TLAPS

Lookup == {"query", "visit", "listDeployments"}

\* Ids that were never used have nothing, and no request knows them.
FreshOK ==
    /\ \A a \in fresh : /\ name[a] = NoName /\ a \notin kept /\ deployments[a] = {}
                        /\ \A x \in Account : level[a][x] = "None"
    /\ \A r \in Request : /\ target[r] \notin fresh /\ todo[r] \cap fresh = {}
                          /\ \A c \in candidates[r] : c.app \notin fresh

\* The namer of a kept app is a member: isUniqueAppName sees its name.
KeptOK ==
    \A a \in kept : name[a] # NoName /\ namer[a] \in Account /\ level[a][namer[a]] # "None"

TimesOK ==
    /\ \A a \in App : named[a] <= clock /\ checked[a] <= clock
    /\ \A r \in Request : checkedAt[r] <= clock

\* A request between check and write: whatever has the name by now got it after
\* the check.
PendingOK ==
    \A r \in Request : pc[r] \in {"insertApp", "renameApp"} =>
        \A b \in kept \ {target[r]} :
            namer[b] = Actor(r) /\ named[b] <= checkedAt[r] => name[b] # NewName(r)

ControlOf(r) ==
    /\ result[r] # "none" => pc[r] = "answered"
    /\ pc[r] = "insertApp" => call[r].op = "create"
    /\ call[r].op = "create" /\ pc[r] \in {"idle", "checkName", "insertApp"} => target[r] = NoApp
    /\ call[r].op = "get" => target[r] = NoApp /\ pc[r] \in Lookup \cup {"idle", "answered"}
    /\ pc[r] = "listDeployments" => current[r] \in App
    /\ pc[r] \in {"mayOwn", "renameApp", "mayDeploy", "insertDeployment"} => target[r] \in App
    /\ pc[r] = "checkName" => (call[r].op = "create" \/ target[r] \in App)
    /\ pc[r] \in {"mayOwn", "renameApp"} => call[r].op = "rename"
    /\ pc[r] \in {"mayDeploy", "insertDeployment"} => call[r].op = "create" /\ ~call[r].manual
    /\ pc[r] \in Lookup /\ call[r].op = "create" => target[r] \in App
    /\ pc[r] # "answered" => attempt[r] < MaxAttempts

ControlOK == \A r \in Request : ControlOf(r)

\* The target of a rename was the account's when the request checked it.
TargetOwnedBy(r) ==
    call[r].op = "rename" /\ pc[r] \in {"checkName", "renameApp"} => target[r] \in owned[r]

TargetOwned == \A r \in Request : TargetOwnedBy(r)

\* What a get knows of the account's own apps.
OwnOf(r) ==
    call[r].op = "get" =>
        /\ own[r] \subseteq owned[r]
        /\ pc[r] = "idle" => candidates[r] = {}
        /\ pc[r] \in Lookup => own[r] \subseteq Own[r]
        /\ \A c \in candidates[r] : c.mine => c.app \in owned[r]
        /\ pc[r] \in {"visit", "listDeployments"} /\ AsksForOwn(r) =>
             \A a \in own[r] : a \in todo[r] \/ [app |-> a, mine |-> TRUE] \in candidates[r]

OwnOK == \A r \in Request : OwnOf(r)

\* The default deployments of the app a request has created.
CompleteOf(r) ==
    call[r].op = "create" /\ ~call[r].manual /\ target[r] # NoApp
        /\ (pc[r] \in Lookup \/ result[r] = "ok") /\ name[target[r]] # NoName
      => deployments[target[r]] = Defaults

DeploymentsOK ==
    /\ \A a \in App : "Staging" \in deployments[a] => "Production" \in deployments[a]
    /\ \A r \in Request : CompleteOf(r)

IInv ==
    /\ TypeOK
    /\ FreshOK
    /\ KeptOK
    /\ TimesOK
    /\ PendingOK
    /\ ControlOK
    /\ TargetOwned
    /\ OwnOK
    /\ OwnAppWins
    /\ DeploymentsOK
    /\ ClashOnlyByOverlap

-----------------------------------------------------------------------------
(* Initial states *)

LEMMA InitIInv == Init => IInv
<1> SUFFICES ASSUME Init PROVE IInv
  OBVIOUS
<1>1. TypeOK
  BY StartAssumption DEF Init, TypeOK, PC, Result, Level, MaxAttempts
<1>2. FreshOK /\ KeptOK
  BY <1>1, StartAssumption, NothingAssumption DEF Init, FreshOK, KeptOK, TypeOK
<1>3. TimesOK /\ PendingOK /\ ControlOK /\ TargetOwned /\ OwnOK /\ OwnAppWins
  BY DEF Init, TimesOK, PendingOK, ControlOK, ControlOf, TargetOwned, TargetOwnedBy, OwnOK, OwnOf,
         OwnAppWins, Preferred, Lookup,
         MaxAttempts
<1>4. DeploymentsOK
  BY DEF Init, DeploymentsOK, CompleteOf
<1>5. ClashOnlyByOverlap
  BY DEF Init, ClashOnlyByOverlap
<1> QED  BY <1>1, <1>2, <1>3, <1>4, <1>5 DEF IInv

-----------------------------------------------------------------------------
(* Types *)

LEMMA AnswerType ==
  ASSUME TypeOK, NEW r \in Request, NEW outcome \in Result, Answer(r, outcome)
  PROVE  pc' \in [Request -> PC] /\ result' \in [Request -> Result]
  BY DEF Answer, TypeOK, PC

LEMMA GotoType ==
  ASSUME TypeOK, NEW r \in Request, NEW here, NEW there \in PC, Goto(r, here, there)
  PROVE  pc' \in [Request -> PC]
  BY DEF Goto, TypeOK

LEMMA CallType ==
  ASSUME TypeOK, NEW r \in Request
  PROVE  /\ call[r] \in Call
         /\ Actor(r) \in Account
         /\ NewName(r) \in Name
         /\ Sought(r) \in [owner : Account \cup {Anyone}, name : Name]
<1>1. call[r] \in Call
  BY CallsAssumption DEF TypeOK
<1>2. Parse[call[r].name] \in [owner : Account \cup {Anyone}, name : Name]
  BY <1>1, ParseAssumption DEF Call
<1>3. NewName(r) \in Name
  BY <1>1, <1>2 DEF NewName, Call
<1> QED  BY <1>1, <1>3, ParseAssumption DEF Actor, Sought, Call

LEMMA WatchType ==
  ASSUME TypeOK, Watch
  PROVE  own' \in [Request -> SUBSET App] /\ owned' \in [Request -> SUBSET App]
  BY DEF TypeOK, Watch, Own, Owned

LEMMA RequireOwnerType ==
  ASSUME TypeOK, Watch, NEW r \in Request, NEW here, NEW there \in PC,
         RequireOwner(r, here, there)
  PROVE  TypeOK'
<1> USE WatchType DEF tables, lookup, names, locals
<1>1. CASE Goto(r, here, there) /\ UNCHANGED result
  BY <1>1, GotoType DEF RequireOwner, TypeOK
<1>2. CASE Answer(r, "notFound") \/ Answer(r, "forbidden")
  BY <1>2, AnswerType DEF RequireOwner, TypeOK, Result
<1> QED  BY <1>1, <1>2 DEF RequireOwner

LEMMA GiveNameType ==
  ASSUME TypeOK, NEW r \in Request, NEW a \in App, GiveName(r, a)
  PROVE  /\ name' \in [App -> Name \cup {NoName}]
         /\ clock' \in Nat
         /\ namer' \in [App -> Account \cup {Anyone}]
         /\ named' \in [App -> Nat]
         /\ checked' \in [App -> Nat]
  BY CallType DEF GiveName, TypeOK

LEMMA StepTypeOK ==
  ASSUME TypeOK, ControlOK, Watch, NEW r \in Request, Begin(r) \/ Step(r) \/ Fail(r)
  PROVE  TypeOK'
<1> USE DEF tables, lookup, names, locals
<1>0. own' \in [Request -> SUBSET App] /\ owned' \in [Request -> SUBSET App]
  BY WatchType
<1> USE <1>0
<1>1. CASE Begin(r)
  BY <1>1, GotoType DEF Begin, TypeOK, PC
<1>2. CASE Query(r)
  BY <1>2, GotoType DEF Query, TypeOK, PC
<1>3. CASE Visit(r)
  <2> DEFINE Row(a) == [app |-> a, mine |-> LevelOf(r, a) = "Owner"]
  <2>1. \A a \in App : Row(a) \in Candidate
    BY DEF Candidate
  <2>2. PICK a \in todo[r] :
          /\ todo' = [todo EXCEPT ![r] = @ \ {a}]
          /\ \/ UNCHANGED <<pc, candidates, current>>
             \/ /\ candidates' = [candidates EXCEPT ![r] = @ \cup {Row(a)}]
                /\ current' = [current EXCEPT ![r] = a]
                /\ Goto(r, "visit", "listDeployments")
    BY <1>3 DEF Visit
  <2> HIDE DEF Row
  <2>3. pc' \in [Request -> PC]
    BY <2>2, GotoType DEF TypeOK, PC
  <2>4. /\ todo' \in [Request -> SUBSET App]
        /\ candidates' \in [Request -> SUBSET Candidate]
        /\ current' \in [Request -> App \cup {NoApp}]
    <3>1. a \in App /\ Row(a) \in Candidate
      BY <2>1 DEF TypeOK
    <3>2. CASE UNCHANGED <<pc, candidates, current>>
      BY <2>2, <3>2 DEF TypeOK
    <3>3. CASE /\ candidates' = [candidates EXCEPT ![r] = @ \cup {Row(a)}]
               /\ current' = [current EXCEPT ![r] = a]
      BY <2>2, <3>1, <3>3 DEF TypeOK
    <3> QED  BY <2>2, <3>2, <3>3
  <2>5. UNCHANGED <<tables, call, result, target, attempt, got, checkedAt, names>>
    BY <1>3 DEF Visit
  <2> QED  BY <2>3, <2>4, <2>5 DEF TypeOK
<1>4. CASE ListDeployments(r)
  BY <1>4, GotoType, AnswerType DEF ListDeployments, TypeOK, PC, Result
<1>5. CASE Decide(r)
  <2>1. \A a \in Chosen(r) : a \in App
    BY DEF Chosen, TypeOK, Candidate
  <2>2. /\ target' \in [Request -> App \cup {NoApp}]
        /\ got' \in [Request -> App \cup {NoApp}]
    BY <1>5, <2>1 DEF Decide, TypeOK
  <2>3. pc' \in [Request -> PC] /\ result' \in [Request -> Result]
    BY <1>5, GotoType, AnswerType DEF Decide, TypeOK, PC, Result
  <2> QED  BY <1>5, <2>2, <2>3 DEF Decide, TypeOK
<1>6. CASE MayOwn(r) \/ MayDeploy(r)
  BY <1>6, RequireOwnerType DEF MayOwn, MayDeploy, PC
<1>7. CASE CheckName(r)
  BY <1>7, GotoType, AnswerType DEF CheckName, TypeOK, PC, Result
<1>8. CASE InsertApp(r)
  <2>1. PICK a \in fresh :
          /\ fresh' = fresh \ {a}
          /\ GiveName(r, a)
          /\ level' = [level EXCEPT ![a][Actor(r)] = "Owner"]
          /\ kept' = kept \cup {a}
          /\ target' = [target EXCEPT ![r] = a]
    BY <1>8 DEF InsertApp
  <2>2. a \in App /\ level' \in [App -> [Account -> Level]]
    BY <2>1 DEF TypeOK, Level
  <2>3. pc' \in [Request -> PC] /\ result' \in [Request -> Result]
    BY <1>8, GotoType, AnswerType DEF InsertApp, TypeOK, PC, Result
  <2> QED  BY <1>8, <2>1, <2>2, <2>3, GiveNameType DEF InsertApp, TypeOK
<1>9. CASE RenameApp(r)
  <2>1. target[r] \in App
    BY <1>9 DEF RenameApp, ControlOK, ControlOf
  <2>2. pc' \in [Request -> PC] /\ result' \in [Request -> Result]
    BY <1>9, GotoType, AnswerType DEF RenameApp, TypeOK, PC, Result
  <2>3. CASE UNCHANGED <<name, names>>
    BY <1>9, <2>2, <2>3 DEF RenameApp, TypeOK
  <2>4. CASE GiveName(r, target[r]) /\ kept' \subseteq kept \cup {target[r]}
    BY <1>9, <2>1, <2>2, <2>4, GiveNameType DEF RenameApp, TypeOK
  <2> QED  BY <1>9, <2>3, <2>4 DEF RenameApp
<1>10. CASE InsertDeployment(r)
  <2>1. target[r] \in App /\ NextDefault(r) \in Defaults
    BY <1>10 DEF InsertDeployment, ControlOK, ControlOf, NextDefault, Defaults
  <2>2. pc' \in [Request -> PC] /\ result' \in [Request -> Result]
    BY <1>10, GotoType, AnswerType DEF InsertDeployment, AfterDeployment, TypeOK, PC, Result
  <2>3. attempt' \in [Request -> 0..MaxAttempts]
    <3>1. attempt[r] \in 0..MaxAttempts /\ attempt[r] < MaxAttempts
      BY <1>10 DEF InsertDeployment, ControlOK, ControlOf, TypeOK
    <3>2. attempt' \in {attempt, [attempt EXCEPT ![r] = 0], [attempt EXCEPT ![r] = @ + 1]}
      BY <1>10 DEF InsertDeployment
    <3>3. attempt[r] + 1 \in 0..MaxAttempts /\ 0 \in 0..MaxAttempts
      BY <3>1 DEF MaxAttempts
    <3> QED  BY <3>2, <3>3 DEF TypeOK
  <2>4. deployments' \in [App -> SUBSET Defaults]
    BY <1>10, <2>1 DEF InsertDeployment, TypeOK
  <2>5. UNCHANGED <<name, fresh, level, call, lookup, target, got, checkedAt, names>>
    BY <1>10 DEF InsertDeployment
  <2> QED  BY <2>2, <2>3, <2>4, <2>5 DEF TypeOK
<1>11. CASE Fail(r)
  BY <1>11, AnswerType DEF Fail, TypeOK, Result, MaxAttempts
<1> QED
  BY <1>1, <1>2, <1>3, <1>4, <1>5, <1>6, <1>7, <1>8, <1>9, <1>10, <1>11 DEF Step

LEMMA EnvironmentTypeOK ==
  ASSUME TypeOK, Watch,
         (\E a \in App, x \in Account, l \in Level : Grant(a, x, l)) \/ \E a \in App : DeleteApp(a)
  PROVE  TypeOK'
<1> USE WatchType DEF tables, lookup, names, locals
<1>1. ASSUME NEW a \in App, NEW x \in Account, NEW l \in Level, Grant(a, x, l)
      PROVE  TypeOK'
  BY <1>1 DEF Grant, TypeOK
<1>2. ASSUME NEW a \in App, DeleteApp(a)
      PROVE  TypeOK'
  BY <1>2 DEF DeleteApp, TypeOK, Level
<1> QED  BY <1>1, <1>2
-----------------------------------------------------------------------------
(* Ids and control *)

LEMMA FreshStep ==
  ASSUME IInv, TypeOK', NEW r \in Request, Begin(r) \/ Step(r) \/ Fail(r)
  PROVE  FreshOK'
<1> USE DEF tables, lookup, names, locals
<1>0. TypeOK /\ FreshOK /\ ControlOK
  BY DEF IInv
<1>1. CASE Begin(r)
  BY <1>0, <1>1 DEF IInv, FreshOK, TypeOK, ControlOK, ControlOf, Begin, Goto
<1>2. CASE Query(r)
  <2>1. {a \in App : LevelOf(r, a) # "None" /\ name[a] = Sought(r).name} \cap fresh = {}
    BY <1>0, CallType DEF FreshOK, LevelOf
  <2> QED  BY <1>0, <1>2, <2>1 DEF FreshOK, TypeOK, Query
<1>3. CASE Visit(r)
  BY <1>0, <1>3 DEF IInv, FreshOK, TypeOK, ControlOK, ControlOf, Visit, Goto
<1>4. CASE ListDeployments(r)
  BY <1>0, <1>4 DEF IInv, FreshOK, TypeOK, ControlOK, ControlOf, ListDeployments, Goto, Answer
<1>5. CASE Decide(r)
  BY <1>0, <1>5 DEF IInv, FreshOK, TypeOK, ControlOK, ControlOf, Decide, Goto, Answer, Chosen
<1>6. CASE MayOwn(r)
  BY <1>0, <1>6 DEF IInv, FreshOK, TypeOK, ControlOK, ControlOf, MayOwn, RequireOwner, Goto, Answer
<1>7. CASE CheckName(r)
  BY <1>0, <1>7 DEF IInv, FreshOK, TypeOK, ControlOK, ControlOf, CheckName, Goto, Answer
<1>8. CASE InsertApp(r)
  BY <1>0, <1>8 DEF IInv, FreshOK, TypeOK, ControlOK, ControlOf, InsertApp, GiveName, Goto, Answer
<1>9. CASE RenameApp(r)
  BY <1>0, <1>9 DEF IInv, FreshOK, TypeOK, ControlOK, ControlOf, RenameApp, GiveName, Goto, Answer
<1>10. CASE MayDeploy(r)
  BY <1>0, <1>10 DEF IInv, FreshOK, TypeOK, ControlOK, ControlOf, MayDeploy, RequireOwner, Goto, Answer
<1>11. CASE InsertDeployment(r)
  <2>1. /\ UNCHANGED <<name, fresh, level, kept, todo, candidates, target>>
        /\ target[r] \in App \ fresh
        /\ \/ UNCHANGED deployments
           \/ deployments' = [deployments EXCEPT ![target[r]] = @ \cup {NextDefault(r)}]
    BY <1>0, <1>11 DEF FreshOK, ControlOK, ControlOf, InsertDeployment
  <2> QED  BY <1>0, <2>1 DEF FreshOK, TypeOK
<1>12. CASE Fail(r)
  BY <1>0, <1>12 DEF IInv, FreshOK, TypeOK, ControlOK, ControlOf, Fail, Answer
<1> QED
  BY <1>1, <1>2, <1>3, <1>4, <1>5, <1>6, <1>7, <1>8, <1>9, <1>10, <1>11, <1>12 DEF Step

LEMMA ControlStep ==
  ASSUME IInv, TypeOK', NEW r \in Request, Begin(r) \/ Step(r) \/ Fail(r)
  PROVE  ControlOK'
<1> USE DEF tables, lookup, names, locals
<1>0. TypeOK /\ FreshOK /\ ControlOK
  BY DEF IInv
<1>1. CASE Begin(r)
  BY <1>0, <1>1 DEF IInv, ControlOK, ControlOf, TypeOK, Lookup, Call, Op, Begin, Goto
<1>2. CASE Query(r)
  BY <1>0, <1>2 DEF IInv, ControlOK, ControlOf, TypeOK, Lookup, Call, Op, Query, Goto
<1>3. CASE Visit(r)
  BY <1>0, <1>3 DEF IInv, ControlOK, ControlOf, TypeOK, Lookup, Call, Op, Visit, Goto
<1>4. CASE ListDeployments(r)
  BY <1>0, <1>4 DEF IInv, ControlOK, ControlOf, TypeOK, Lookup, Call, Op, ListDeployments, Goto, Answer
<1>5. CASE Decide(r)
  <2>1. pc[r] = "visit" /\ UNCHANGED <<call, current, attempt>>
    BY <1>5 DEF Decide
  <2>2. \/ Answer(r, "notFound") /\ UNCHANGED target
        \/ Answer(r, "conflict") /\ UNCHANGED target
        \/ Answer(r, "ok") /\ UNCHANGED target
        \/ /\ call[r].op = "rename" /\ \E a \in App : target' = [target EXCEPT ![r] = a]
           /\ pc' = [pc EXCEPT ![r] = "mayOwn"] /\ UNCHANGED result
    <3>1. \A a \in Chosen(r) : a \in App
      BY <1>0 DEF Chosen, TypeOK, Candidate
    <3> QED  BY <1>5, <3>1 DEF Decide, Goto
  <2> QED  BY <1>0, <2>1, <2>2 DEF ControlOK, ControlOf, TypeOK, Lookup, Answer
<1>6. CASE MayOwn(r)
  BY <1>0, <1>6 DEF IInv, ControlOK, ControlOf, TypeOK, Lookup, Call, Op, MayOwn, RequireOwner, Goto, Answer
<1>7. CASE CheckName(r)
  <2>1. /\ pc[r] = "checkName" /\ UNCHANGED <<call, current, target, attempt>>
        /\ \/ Answer(r, "conflict")
           \/ UNCHANGED result /\
                pc' = [pc EXCEPT ![r] = IF call[r].op = "create" THEN "insertApp" ELSE "renameApp"]
    BY <1>7 DEF CheckName, Goto
  <2>2. call[r].op \in {"create", "rename"}
    BY <1>0, <2>1, CallType DEF ControlOK, ControlOf, Lookup, Call, Op
  <2> QED  BY <1>0, <2>1, <2>2 DEF ControlOK, ControlOf, TypeOK, Lookup, Answer
<1>8. CASE InsertApp(r)
  BY <1>0, <1>8 DEF IInv, ControlOK, ControlOf, TypeOK, Lookup, Call, Op, InsertApp, GiveName, Goto, Answer
<1>9. CASE RenameApp(r)
  BY <1>0, <1>9 DEF IInv, ControlOK, ControlOf, TypeOK, Lookup, Call, Op, RenameApp, GiveName, Goto, Answer
<1>10. CASE MayDeploy(r)
  BY <1>0, <1>10 DEF IInv, ControlOK, ControlOf, TypeOK, Lookup, Call, Op, MayDeploy, RequireOwner, Goto, Answer
<1>11. CASE InsertDeployment(r)
  <2>1. /\ pc[r] = "insertDeployment" /\ UNCHANGED <<call, current, target>>
        /\ \A q \in Request : q # r => attempt'[q] = attempt[q]
        /\ \/ \E outcome \in Result : Answer(r, outcome)
           \/ /\ UNCHANGED result /\ attempt'[r] < MaxAttempts
              /\ pc' \in {[pc EXCEPT ![r] = "query"], [pc EXCEPT ![r] = "mayDeploy"]}
    <3>1. \A there \in {"query", "mayDeploy"} : Goto(r, "insertDeployment", there) =>
            pc' \in {[pc EXCEPT ![r] = "query"], [pc EXCEPT ![r] = "mayDeploy"]}
      BY DEF Goto
    <3>2. /\ pc[r] = "insertDeployment" /\ UNCHANGED <<call, current, target>>
          /\ \/ Answer(r, "error") /\ UNCHANGED attempt
             \/ /\ attempt' = [attempt EXCEPT ![r] = 0]
                /\ \/ Answer(r, "error")
                   \/ \E there \in {"query", "mayDeploy"} :
                        Goto(r, "insertDeployment", there) /\ UNCHANGED result
             \/ /\ attempt' = [attempt EXCEPT ![r] = @ + 1]
                /\ \/ Answer(r, "conflict")
                   \/ /\ attempt[r] + 1 < MaxAttempts
                      /\ Goto(r, "insertDeployment", "mayDeploy") /\ UNCHANGED result
      BY <1>11 DEF InsertDeployment, AfterDeployment, MayRetry
    <3>3. 0 < MaxAttempts /\ {"error", "conflict"} \subseteq Result
      BY DEF MaxAttempts, Result
    <3>4. \A q \in Request : q # r => attempt'[q] = attempt[q]
      BY <1>0, <3>2 DEF TypeOK
    <3>5. \/ \E outcome \in Result : Answer(r, outcome)
          \/ /\ UNCHANGED result
             /\ attempt' = [attempt EXCEPT ![r] = 0] \/
                  (attempt[r] + 1 < MaxAttempts /\ attempt' = [attempt EXCEPT ![r] = @ + 1])
             /\ pc' \in {[pc EXCEPT ![r] = "query"], [pc EXCEPT ![r] = "mayDeploy"]}
      BY <3>1, <3>2, <3>3
    <3>6. \/ \E outcome \in Result : Answer(r, outcome)
          \/ /\ UNCHANGED result /\ attempt'[r] < MaxAttempts
             /\ pc' \in {[pc EXCEPT ![r] = "query"], [pc EXCEPT ![r] = "mayDeploy"]}
      BY <1>0, <3>3, <3>5 DEF TypeOK
    <3> QED  BY <3>2, <3>4, <3>6
  <2>2. /\ call[r].op = "create" /\ ~call[r].manual
        /\ target[r] \in App /\ attempt[r] < MaxAttempts
    BY <1>0, <2>1 DEF ControlOK, ControlOf
  <2>3. CASE \E outcome \in Result : Answer(r, outcome)
    BY <1>0, <2>1, <2>3 DEF ControlOK, ControlOf, TypeOK, Lookup, Answer
  <2>4. CASE /\ UNCHANGED result /\ attempt'[r] < MaxAttempts
             /\ pc' \in {[pc EXCEPT ![r] = "query"], [pc EXCEPT ![r] = "mayDeploy"]}
    <3> SUFFICES ASSUME NEW q \in Request PROVE ControlOf(q)'
      BY DEF ControlOK
    <3>1. CASE q = r
      BY <1>0, <2>1, <2>2, <2>4, <3>1 DEF ControlOK, ControlOf, TypeOK, Lookup
    <3>2. CASE q # r
      BY <1>0, <2>1, <2>4, <3>2 DEF ControlOK, ControlOf, TypeOK
    <3> QED  BY <3>1, <3>2
  <2> QED  BY <2>1, <2>3, <2>4
<1>12. CASE Fail(r)
  BY <1>0, <1>12 DEF IInv, ControlOK, ControlOf, TypeOK, Lookup, Call, Op, Fail, Answer
<1> QED
  BY <1>1, <1>2, <1>3, <1>4, <1>5, <1>6, <1>7, <1>8, <1>9, <1>10, <1>11, <1>12 DEF Step

-----------------------------------------------------------------------------
(* Names *)

\* What a step that gives app a a name does.
Naming(r, a) ==
    /\ GiveName(r, a)
    /\ \/ pc[r] = "insertApp" /\ target[r] = NoApp /\ a \in fresh
       \/ pc[r] = "renameApp" /\ target[r] = a /\ name[a] # NoName
    /\ \A q \in Request \ {r} : pc'[q] = pc[q] /\ target'[q] = target[q]
    /\ pc'[r] \notin {"insertApp", "renameApp"}
    /\ kept' \subseteq kept \cup {a}
    /\ a \in kept' => level'[a][Actor(r)] # "None"
    /\ \A b \in App \ {a} : level'[b] = level[b]
    /\ UNCHANGED <<call, checkedAt>>

\* What every other step of a request leaves alone.
Quiet(r) ==
    /\ UNCHANGED <<name, level, call, names>>
    /\ \A q \in Request \ {r} :
         pc'[q] = pc[q] /\ target'[q] = target[q] /\ checkedAt'[q] = checkedAt[q]
    /\ \/ CheckName(r)
       \/ pc'[r] \notin {"insertApp", "renameApp"} /\ checkedAt'[r] \in {0, checkedAt[r]}

LEMMA NamingStep ==
  ASSUME IInv, TypeOK', NEW r \in Request, Begin(r) \/ Step(r) \/ Fail(r)
  PROVE  Quiet(r) \/ \E a \in App : Naming(r, a)
<1> USE DEF tables, lookup, names, locals
<1>0. TypeOK /\ FreshOK /\ ControlOK
  BY DEF IInv
<1>1. CASE Begin(r)
  BY <1>0, <1>1 DEF TypeOK, Begin, Goto, Quiet
<1>2. CASE Query(r)
  BY <1>0, <1>2 DEF TypeOK, Query, Goto, Quiet
<1>3. CASE Visit(r)
  BY <1>0, <1>3 DEF TypeOK, Visit, Goto, Quiet
<1>4. CASE ListDeployments(r)
  BY <1>0, <1>4 DEF TypeOK, ListDeployments, Goto, Answer, Quiet
<1>5. CASE Decide(r)
  BY <1>0, <1>5 DEF TypeOK, Decide, Goto, Answer, Quiet
<1>6. CASE MayOwn(r)
  BY <1>0, <1>6 DEF TypeOK, MayOwn, RequireOwner, Goto, Answer, Quiet
<1>7. CASE CheckName(r)
  BY <1>0, <1>7 DEF TypeOK, CheckName, Goto, Answer, Quiet
<1>8. CASE InsertApp(r)
  <2>1. PICK a \in fresh :
          /\ GiveName(r, a)
          /\ level' = [level EXCEPT ![a][Actor(r)] = "Owner"]
          /\ kept' = kept \cup {a}
          /\ target' = [target EXCEPT ![r] = a]
    BY <1>8 DEF InsertApp
  <2>2. a \in App /\ Actor(r) \in Account /\ target[r] = NoApp
    BY <1>0, <1>8, CallType DEF TypeOK, ControlOK, ControlOf, InsertApp
  <2>3. /\ level'[a][Actor(r)] # "None"
        /\ \A b \in App \ {a} : level'[b] = level[b]
    BY <1>0, <2>1, <2>2 DEF TypeOK
  <2>4. /\ pc[r] = "insertApp" /\ pc'[r] \notin {"insertApp", "renameApp"}
        /\ \A q \in Request \ {r} : pc'[q] = pc[q]
        /\ UNCHANGED <<call, checkedAt>>
    BY <1>0, <1>8 DEF TypeOK, InsertApp, Goto, Answer
  <2>5. \A q \in Request \ {r} : target'[q] = target[q]
    BY <1>0, <2>1 DEF TypeOK
  <2> QED  BY <2>1, <2>2, <2>3, <2>4, <2>5 DEF Naming
<1>9. CASE RenameApp(r)
  <2>1. /\ pc[r] = "renameApp" /\ pc'[r] \notin {"insertApp", "renameApp"}
        /\ \A q \in Request \ {r} : pc'[q] = pc[q]
        /\ UNCHANGED <<call, checkedAt, target, level>>
    BY <1>0, <1>9 DEF TypeOK, RenameApp, Goto, Answer
  <2>2. target[r] \in App
    BY <1>0, <2>1 DEF ControlOK, ControlOf
  <2>3. CASE UNCHANGED <<name, names>>
    BY <2>1, <2>3 DEF Quiet
  <2>4. CASE /\ name[target[r]] # NoName /\ GiveName(r, target[r])
             /\ kept' = IF LevelOf(r, target[r]) = "None"
                        THEN kept \ {target[r]} ELSE kept \cup {target[r]}
    BY <2>1, <2>2, <2>4 DEF Naming, LevelOf
  <2> QED  BY <1>9, <2>3, <2>4 DEF RenameApp
<1>10. CASE MayDeploy(r)
  BY <1>0, <1>10 DEF TypeOK, MayDeploy, RequireOwner, Goto, Answer, Quiet
<1>11. CASE InsertDeployment(r)
  <2>1. /\ UNCHANGED <<name, level, call, names, target, checkedAt>>
        /\ \A q \in Request \ {r} : pc'[q] = pc[q]
        /\ pc'[r] \in {"query", "mayDeploy", "answered"}
    BY <1>0, <1>11 DEF TypeOK, InsertDeployment, AfterDeployment, Goto, Answer
  <2> QED  BY <2>1 DEF Quiet
<1>12. CASE Fail(r)
  BY <1>0, <1>12 DEF TypeOK, Fail, Answer, Quiet
<1> QED
  BY <1>1, <1>2, <1>3, <1>4, <1>5, <1>6, <1>7, <1>8, <1>9, <1>10, <1>11, <1>12 DEF Step

\* The values GiveName leaves.
LEMMA NamingValues ==
  ASSUME TypeOK, NEW r \in Request, NEW a \in App, Naming(r, a)
  PROVE  /\ name'[a] = NewName(r) /\ namer'[a] = Actor(r)
         /\ named'[a] = clock + 1 /\ checked'[a] = checkedAt[r] /\ clock' = clock + 1
         /\ \A b \in App \ {a} : /\ name'[b] = name[b] /\ namer'[b] = namer[b]
                                /\ named'[b] = named[b] /\ checked'[b] = checked[b]
  BY DEF Naming, GiveName, TypeOK

LEMMA KeptStep ==
  ASSUME IInv, TypeOK', NEW r \in Request, Quiet(r) \/ \E a \in App : Naming(r, a)
  PROVE  KeptOK' /\ TimesOK'
<1>0. TypeOK /\ KeptOK /\ TimesOK
  BY DEF IInv
<1>1. CASE Quiet(r)
  <2>1. KeptOK'
    BY <1>0, <1>1 DEF KeptOK, Quiet, names
  <2>2. \A q \in Request : checkedAt'[q] \in {0, clock, checkedAt[q]}
    BY <1>0, <1>1 DEF Quiet, CheckName, TypeOK
  <2>3. \A q \in Request : checkedAt'[q] <= clock
    <3>1. clock \in Nat /\ \A q \in Request : checkedAt[q] <= clock
      BY <1>0 DEF TimesOK, TypeOK
    <3>2. 0 <= clock /\ clock <= clock
      BY <3>1
    <3> QED  BY <2>2, <3>1, <3>2
  <2> QED  BY <1>0, <1>1, <2>1, <2>3 DEF TimesOK, Quiet, names
<1>2. ASSUME NEW a \in App, Naming(r, a)
      PROVE  KeptOK' /\ TimesOK'
  <2>1. NewName(r) \in Name /\ Actor(r) \in Account /\ kept \subseteq App
    BY <1>0, CallType DEF TypeOK
  <2>2. KeptOK'
    BY <1>0, <1>2, <2>1, NamingValues, NothingAssumption DEF KeptOK, Naming
  <2>3. TimesOK'
    <3>1. clock \in Nat /\ clock' = clock + 1
      BY <1>0, <1>2, NamingValues DEF TypeOK
    <3>2. /\ \A n \in Nat : n <= clock => n <= clock'
          /\ clock + 1 <= clock'
      BY <3>1
    <3>3. \A q \in Request : checkedAt'[q] = checkedAt[q] /\ checkedAt[q] \in Nat
      BY <1>0, <1>2 DEF Naming, TypeOK
    <3>4. \A b \in App \ {a} : /\ named'[b] = named[b] /\ named[b] \in Nat
                             /\ checked'[b] = checked[b] /\ checked[b] \in Nat
      BY <1>0, <1>2, NamingValues DEF TypeOK
    <3>5. named'[a] = clock + 1 /\ checked'[a] = checkedAt[r]
      BY <1>0, <1>2, NamingValues
    <3> QED  BY <1>0, <3>2, <3>3, <3>4, <3>5 DEF TimesOK
  <2> QED  BY <2>2, <2>3
<1> QED  BY <1>1, <1>2

LEMMA PendingStep ==
  ASSUME IInv, TypeOK', NEW r \in Request, Quiet(r) \/ \E a \in App : Naming(r, a)
  PROVE  PendingOK'
<1>0. TypeOK /\ KeptOK /\ TimesOK /\ PendingOK
  BY DEF IInv
<1> SUFFICES ASSUME NEW q \in Request, pc'[q] \in {"insertApp", "renameApp"},
                    NEW b \in kept', b # target'[q],
                    namer'[b] = Actor(q)', named'[b] <= checkedAt'[q]
             PROVE  name'[b] # NewName(q)'
  BY DEF PendingOK
<1>1. /\ UNCHANGED call
      /\ Actor(q)' = Actor(q) /\ NewName(q)' = NewName(q) /\ Actor(q) \in Account
  BY <1>0, CallType DEF Quiet, Naming, Actor, NewName
<1>2. CASE Quiet(r) /\ q # r
  BY <1>0, <1>1, <1>2 DEF Quiet, PendingOK, names
<1>3. CASE Quiet(r) /\ q = r
  <2>1. UNCHANGED <<name, level, target, names>> /\ ~Taken(q)
    BY <1>3 DEF Quiet, CheckName, Answer, Goto, TypeOK
  <2>2. b \in App \ {target[q]} /\ LevelOf(q, b) # "None"
    BY <1>0, <1>1, <2>1 DEF KeptOK, TypeOK, LevelOf, names
  <2> QED  BY <1>1, <2>1, <2>2 DEF Taken
<1>4. ASSUME NEW a \in App, Naming(r, a)
      PROVE  name'[b] # NewName(q)'
  <2>1. q # r /\ pc[q] = pc'[q] /\ target'[q] = target[q] /\ checkedAt'[q] = checkedAt[q]
    BY <1>4 DEF Naming
  <2>2. CASE b = a
    BY <1>0, <1>4, <2>1, <2>2, NamingValues DEF TimesOK, TypeOK
  <2>3. CASE b # a
    <3>1. b \in kept \ {target[q]} /\ b \in App
      BY <1>0, <1>4, <2>1, <2>3 DEF Naming, TypeOK
    <3>2. name'[b] = name[b] /\ namer'[b] = namer[b] /\ named'[b] = named[b]
      BY <1>0, <1>4, <2>3, <3>1, NamingValues
    <3> QED  BY <1>0, <1>1, <2>1, <3>1, <3>2 DEF PendingOK
  <2> QED  BY <2>2, <2>3
<1> QED  BY <1>2, <1>3, <1>4

LEMMA ClashStep ==
  ASSUME IInv, TypeOK', NEW r \in Request, Quiet(r) \/ \E a \in App : Naming(r, a)
  PROVE  ClashOnlyByOverlap'
<1>0. TypeOK /\ TimesOK /\ PendingOK /\ ClashOnlyByOverlap
  BY DEF IInv
<1>1. CASE Quiet(r)
  BY <1>0, <1>1 DEF ClashOnlyByOverlap, Quiet, names
<1>2. ASSUME NEW a \in App, Naming(r, a)
      PROVE  ClashOnlyByOverlap'
  <2>1. kept \subseteq App /\ kept' \subseteq kept \cup {a}
    BY <1>0, <1>2 DEF TypeOK, Naming
  <2>2. ASSUME NEW b \in kept', b # a, namer'[b] = namer'[a], name'[b] = name'[a]
        PROVE  named'[b] > checked'[a] /\ named'[a] > checked'[b]
    <3>1. b \in kept \ {a} /\ b # target[r] /\ b \in App
      BY <1>2, <2>1, <2>2, NothingAssumption DEF Naming
    <3>2. namer[b] = Actor(r) /\ name[b] = NewName(r) /\ named'[b] = named[b]
          /\ checked'[b] = checked[b]
      BY <1>0, <1>2, <2>2, <3>1, NamingValues
    <3>3. ~(named[b] <= checkedAt[r])
      BY <1>0, <1>2, <3>1, <3>2 DEF PendingOK, Naming
    <3>4. /\ named[b] \in Nat /\ checkedAt[r] \in Nat /\ checked[b] \in Nat
          /\ clock \in Nat /\ checked[b] <= clock
      BY <1>0, <3>1 DEF TypeOK, TimesOK
    <3>5. checked'[a] = checkedAt[r] /\ named'[a] = clock + 1
      BY <1>0, <1>2, NamingValues
    <3> QED  BY <3>2, <3>3, <3>4, <3>5
  <2>3. ASSUME NEW b \in kept', NEW c \in kept', b # c, b # a, c # a,
               namer'[b] = namer'[c], name'[b] = name'[c]
        PROVE  named'[b] > checked'[c] /\ named'[c] > checked'[b]
    <3>1. b \in kept \ {a} /\ c \in kept \ {a} /\ b \in App /\ c \in App
      BY <2>1, <2>3
    <3>2. /\ namer'[b] = namer[b] /\ name'[b] = name[b] /\ named'[b] = named[b]
          /\ checked'[b] = checked[b] /\ namer'[c] = namer[c] /\ name'[c] = name[c]
          /\ named'[c] = named[c] /\ checked'[c] = checked[c]
      BY <1>0, <1>2, <2>3, <3>1, NamingValues
    <3> QED  BY <1>0, <2>3, <3>1, <3>2 DEF ClashOnlyByOverlap
  <2> QED  BY <2>2, <2>3 DEF ClashOnlyByOverlap
<1> QED  BY <1>1, <1>2

-----------------------------------------------------------------------------
(* What the account owns *)

\* OwnAppWins of one request.
PrefersOwn(r) ==
    call[r].op = "get" /\ AsksForOwn(r) /\ own[r] # {} /\ todo[r] = {} => Preferred(r)

HistoryOf(r) == OwnOf(r) /\ TargetOwnedBy(r) /\ PrefersOwn(r)

\* A request that has no part in a step.
Untouched(q) ==
    /\ call' = call
    /\ pc'[q] = pc[q] /\ result'[q] = result[q] /\ got'[q] = got[q]
    /\ todo'[q] = todo[q] /\ candidates'[q] = candidates[q] /\ target'[q] = target[q]

LEMMA OthersUntouched ==
  ASSUME TypeOK, NEW r \in Request, Begin(r) \/ Step(r) \/ Fail(r),
         NEW q \in Request, q # r
  PROVE  Untouched(q)
<1> USE DEF Untouched, TypeOK, tables, lookup, names, locals
<1>1. CASE Begin(r) \/ Query(r)
  BY <1>1 DEF Begin, Query, Goto
<1>2. CASE Visit(r)
  BY <1>2 DEF Visit, Goto
<1>3. CASE ListDeployments(r)
  BY <1>3 DEF ListDeployments, Goto, Answer
<1>4. CASE Decide(r)
  BY <1>4 DEF Decide, Goto, Answer
<1>5. CASE MayOwn(r) \/ MayDeploy(r)
  BY <1>5 DEF MayOwn, MayDeploy, RequireOwner, Goto, Answer
<1>6. CASE CheckName(r)
  BY <1>6 DEF CheckName, Goto, Answer
<1>7. CASE InsertApp(r)
  BY <1>7 DEF InsertApp, Goto, Answer
<1>8. CASE RenameApp(r)
  BY <1>8 DEF RenameApp, Goto, Answer
<1>9. CASE InsertDeployment(r)
  BY <1>9 DEF InsertDeployment, Goto, Answer
<1>10. CASE Fail(r)
  BY <1>10 DEF Fail, Answer
<1> QED
  BY <1>1, <1>2, <1>3, <1>4, <1>5, <1>6, <1>7, <1>8, <1>9, <1>10 DEF Step

\* What a step adds to the history of a request, case by case.
LEMMA WatchValues ==
  ASSUME TypeOK, Watch, NEW q \in Request
  PROVE  /\ pc'[q] # "idle" /\ pc[q] # "answered" => owned'[q] = owned[q] \cup Owned'[q]
         /\ pc'[q] = "answered" /\ pc[q] = "answered" =>
              owned'[q] = owned[q] /\ (call[q].op = "get" => own'[q] = own[q])
         /\ call[q].op = "get" /\ pc'[q] = "idle" /\ pc[q] # "answered" => own'[q] = {}
         /\ call[q].op = "get" /\ pc'[q] = "query" /\ pc[q] # "answered" => own'[q] = Own'[q]
         /\ call[q].op = "get" /\ pc'[q] \notin {"idle", "query"} /\ pc[q] # "answered" =>
              own'[q] = own[q] \cap Own'[q]
<1>1. owned'[q] = IF pc'[q] = "idle" THEN {}
                  ELSE IF pc[q] = "answered" THEN owned[q] ELSE owned[q] \cup Owned'[q]
  BY DEF Watch
<1>2. own'[q] = IF pc[q] = "answered" THEN own[q]
                ELSE {a \in Own'[q] : /\ call[q].op = "get" /\ pc'[q] # "idle"
                                      /\ pc'[q] = "query" \/ a \in own[q]}
  BY DEF Watch
<1> QED  BY <1>1, <1>2

LEMMA UntouchedStep ==
  ASSUME IInv, TypeOK', Watch, NEW q \in Request, Untouched(q)
  PROVE  HistoryOf(q)'
<1> USE DEF HistoryOf, TargetOwnedBy, PrefersOwn, Preferred
<1>0. TypeOK /\ OwnOf(q) /\ ControlOf(q)
  BY DEF IInv, OwnOK, ControlOK
<1>1. Own'[q] \subseteq Owned'[q] /\ AsksForOwn(q)' = AsksForOwn(q)
  BY DEF Own, Untouched, AsksForOwn, Actor
<1>2. pc[q] \in PC
  BY <1>0 DEF TypeOK
<1>3. CASE pc[q] = "idle"
  BY <1>0, <1>3, WatchValues DEF OwnOf, Untouched, Lookup, ControlOf
<1>4. CASE pc[q] = "answered"
  BY <1>0, <1>1, <1>4, WatchValues DEF OwnOf, Untouched, Lookup, IInv, OwnAppWins
<1>5. CASE pc[q] = "query"
  BY <1>0, <1>1, <1>5, WatchValues DEF OwnOf, Untouched, Lookup, ControlOf
<1>6. CASE pc[q] \notin {"idle", "answered", "query"}
  BY <1>0, <1>1, <1>6, WatchValues DEF OwnOf, Untouched, Lookup, ControlOf, IInv, TargetOwned
<1> QED  BY <1>3, <1>4, <1>5, <1>6

LEMMA TouchedStep ==
  ASSUME IInv, TypeOK', Watch, NEW r \in Request, Begin(r) \/ Step(r) \/ Fail(r)
  PROVE  HistoryOf(r)'
<1> USE DEF HistoryOf, TargetOwnedBy, PrefersOwn, Preferred, tables, lookup, names, locals
<1>0. TypeOK /\ HistoryOf(r) /\ ControlOf(r)
  BY DEF IInv, OwnOK, ControlOK, TargetOwned, OwnAppWins
<1>a. call[r] \in Call /\ Actor(r) \in Account
  BY <1>0, CallType
<1>b. /\ Own'[r] \subseteq Owned'[r]
      /\ UNCHANGED call => AsksForOwn(r)' = AsksForOwn(r)
  BY DEF Own, AsksForOwn, Actor
\* While level, names and the name sought stay, so do the apps of the account.
<1>c. ASSUME UNCHANGED <<name, level, call>>, target'[r] = target[r]
      PROVE  Own' [r] = Own[r] /\ Owned'[r] = Owned[r]
  BY <1>c DEF Own, Owned, LevelOf, Actor, Sought, NewName
<1>1. CASE Begin(r)
  BY <1>0, <1>b, <1>1, WatchValues DEF Begin, Goto, OwnOf, Lookup, ControlOf, TypeOK
<1>2. CASE Query(r)
  <2>1. pc[r] = "query" /\ pc'[r] = "visit" /\ UNCHANGED <<name, level, call, target, result, candidates>>
    BY <1>0, <1>2 DEF Query, Goto, TypeOK
  <2>2. \A a \in Own[r] : a \in todo'[r]
    BY <1>0, <1>2 DEF Query, Own, Owned, TypeOK
  <2> QED  BY <1>0, <1>b, <1>c, <2>1, <2>2, WatchValues DEF OwnOf, Lookup, ControlOf
<1>3. CASE Visit(r)
  <2>1. /\ pc[r] = "visit" /\ pc'[r] \in {"visit", "listDeployments"}
        /\ UNCHANGED <<name, level, call, target, result>>
    BY <1>0, <1>3 DEF Visit, Goto, TypeOK
  <2>2. PICK a \in todo[r] :
          /\ todo'[r] = todo[r] \ {a}
          /\ \/ /\ Sought(r).owner # Anyone /\ level[a][Sought(r).owner] # "Owner"
                /\ candidates'[r] = candidates[r]
             \/ candidates'[r] =
                  candidates[r] \cup {[app |-> a, mine |-> LevelOf(r, a) = "Owner"]}
    BY <1>0, <1>3 DEF Visit, TypeOK
  <2>3. call[r].op = "get" => \A c \in candidates'[r] : c.mine => c.app \in owned'[r]
    <3>1. owned'[r] = owned[r] \cup Owned[r] /\ a \in App
      BY <1>0, <1>c, <2>1, WatchValues DEF TypeOK
    <3>2. LevelOf(r, a) = "Owner" => a \in Owned[r]
      BY <3>1 DEF Owned
    <3>3. [app |-> a, mine |-> LevelOf(r, a) = "Owner"].mine => a \in owned'[r]
      BY <3>1, <3>2
    <3>4. [app |-> a, mine |-> LevelOf(r, a) = "Owner"].app = a
      OBVIOUS
    <3>5. ASSUME call[r].op = "get", NEW c \in candidates[r], c.mine
          PROVE  c.app \in owned'[r]
      BY <1>0, <3>1, <3>5 DEF OwnOf
    <3> DEFINE row == [app |-> a, mine |-> LevelOf(r, a) = "Owner"]
    <3> HIDE DEF row
    <3>6. candidates'[r] \subseteq candidates[r] \cup {row}
      BY <2>2 DEF row
    <3>7. row.mine => row.app \in owned'[r]
      BY <3>3, <3>4 DEF row
    <3> QED  BY <3>5, <3>6, <3>7
  <2>4. call[r].op = "get" => own'[r] = own[r] /\ own[r] \subseteq Own[r]
    BY <1>0, <1>c, <2>1, WatchValues DEF OwnOf, Lookup
  <2>5. call[r].op = "get" /\ AsksForOwn(r) =>
          \A b \in own[r] : b \in todo'[r] \/ [app |-> b, mine |-> TRUE] \in candidates'[r]
    <3> SUFFICES ASSUME call[r].op = "get", AsksForOwn(r), NEW b \in own[r]
                 PROVE  b \in todo'[r] \/ [app |-> b, mine |-> TRUE] \in candidates'[r]
      OBVIOUS
    <3>1. Sought(r).owner \in {Anyone, Actor(r)} /\ LevelOf(r, b) = "Owner"
      BY <1>0, <2>4 DEF AsksForOwn, Sought, ControlOf, Own, Owned
    <3>2. b \in todo[r] \/ [app |-> b, mine |-> TRUE] \in candidates[r]
      BY <1>0, <2>1 DEF OwnOf
    <3>3. CASE b # a \/ [app |-> b, mine |-> TRUE] \in candidates[r]
      BY <2>2, <3>2, <3>3
    <3>4. CASE b = a
      <4>1. (LevelOf(r, a) = "Owner") = TRUE
        BY <3>1, <3>4
      <4>2. [app |-> a, mine |-> LevelOf(r, a) = "Owner"] = [app |-> b, mine |-> TRUE]
        BY <3>4, <4>1
      <4>3. ~(Sought(r).owner # Anyone /\ level[a][Sought(r).owner] # "Owner")
        BY <3>1, <3>4 DEF LevelOf
      <4> QED  BY <2>2, <4>2, <4>3
    <3> QED  BY <3>3, <3>4
  <2>6. call[r].op = "get" => own'[r] \subseteq owned'[r]
    BY <1>0, <2>1, <2>4, WatchValues DEF OwnOf
  <2> QED  BY <1>0, <1>b, <1>c, <2>1, <2>3, <2>4, <2>5, <2>6 DEF OwnOf, Lookup, ControlOf
<1>4. CASE ListDeployments(r)
  <2>1. /\ pc[r] = "listDeployments" /\ UNCHANGED <<name, level, call, target, todo, candidates>>
        /\ \/ pc'[r] = "visit" /\ result'[r] = result[r]
           \/ pc'[r] = "answered" /\ result'[r] = "notFound"
    BY <1>0, <1>4 DEF ListDeployments, Goto, Answer, TypeOK
  <2> QED  BY <1>0, <1>b, <1>c, <2>1, WatchValues DEF OwnOf, Lookup, ControlOf
<1>5. CASE Decide(r)
  <2>1. /\ pc[r] = "visit" /\ candidates'[r] = {} /\ UNCHANGED <<name, level, call, todo>>
        /\ pc'[r] \in {"mayOwn", "answered"}
    BY <1>0, <1>5 DEF Decide, Goto, Answer, TypeOK
  <2>2. CASE call[r].op # "get"
    BY <1>0, <2>1, <2>2 DEF OwnOf
  <2>3. CASE call[r].op = "get"
    <3>1. /\ pc'[r] = "answered" /\ target'[r] = target[r]
          /\ \/ Chosen(r) = {} /\ candidates[r] = {} /\ result'[r] = "notFound"
             \/ Chosen(r) = {} /\ candidates[r] # {} /\ result'[r] = "conflict"
             \/ result'[r] = "ok" /\ got'[r] \in Chosen(r)
      BY <1>0, <1>5, <2>3 DEF Decide, Answer, TypeOK
    <3>2. own'[r] \subseteq own[r] /\ own[r] \subseteq owned'[r] /\ owned[r] \subseteq owned'[r]
      BY <1>0, <2>1, <2>3, <3>1, WatchValues DEF OwnOf
    <3>3. ASSUME AsksForOwn(r), todo[r] = {}, NEW a \in own[r]
          PROVE  [app |-> a, mine |-> TRUE] \in candidates[r] /\ a \in Chosen(r)
      <4>1. [app |-> a, mine |-> TRUE] \in candidates[r]
        BY <1>0, <2>1, <2>3, <3>3 DEF OwnOf
      <4> QED  BY <4>1 DEF Chosen
    <3>4. ASSUME AsksForOwn(r), todo[r] = {}, own[r] # {}
          PROVE  \A c \in Chosen(r) : c \in owned[r]
      <4>1. \A c \in candidates[r] : candidates[r] = {c} => c.mine
        BY <3>3, <3>4
      <4> QED  BY <1>0, <2>3, <4>1 DEF Chosen, OwnOf
    <3>5. PrefersOwn(r)'
      BY <1>b, <2>1, <3>1, <3>2, <3>3, <3>4
    <3> QED  BY <2>1, <2>3, <3>1, <3>2, <3>5 DEF OwnOf, Lookup
  <2> QED  BY <2>2, <2>3
<1>6. CASE MayOwn(r)
  <2>1. /\ pc[r] = "mayOwn" /\ UNCHANGED <<name, level, call, target>>
        /\ pc'[r] \in {"checkName", "answered"}
        /\ pc'[r] = "checkName" => LevelOf(r, target[r]) = "Owner"
    BY <1>0, <1>6 DEF MayOwn, RequireOwner, IsOwner, Goto, Answer, TypeOK
  <2>2. pc'[r] = "checkName" => target[r] \in Owned[r]
    BY <1>0, <2>1 DEF Owned, ControlOf
  <2> QED  BY <1>0, <1>c, <2>1, <2>2, WatchValues DEF OwnOf, ControlOf, Lookup
<1>7. CASE CheckName(r)
  <2>1. /\ pc[r] = "checkName" /\ UNCHANGED <<name, level, call, target>> /\ pc'[r] # "idle"
    BY <1>0, <1>7 DEF CheckName, Goto, Answer, TypeOK
  <2> QED  BY <1>0, <1>c, <2>1, WatchValues DEF OwnOf, ControlOf, Lookup
<1>8. CASE InsertApp(r)
  <2>1. pc[r] = "insertApp" /\ UNCHANGED call /\ pc'[r] \in {"query", "mayDeploy", "answered"}
    BY <1>0, <1>8 DEF InsertApp, Goto, Answer, TypeOK
  <2> QED  BY <1>0, <2>1 DEF OwnOf, ControlOf
<1>9. CASE RenameApp(r)
  <2>1. pc[r] = "renameApp" /\ UNCHANGED call /\ pc'[r] \in {"query", "answered"}
    BY <1>0, <1>9 DEF RenameApp, Goto, Answer, TypeOK
  <2> QED  BY <1>0, <2>1 DEF OwnOf, ControlOf
<1>10. CASE MayDeploy(r)
  <2>1. pc[r] = "mayDeploy" /\ UNCHANGED call
    BY <1>10 DEF MayDeploy, RequireOwner
  <2> QED  BY <1>0, <2>1 DEF OwnOf, ControlOf
<1>11. CASE InsertDeployment(r)
  <2>1. pc[r] = "insertDeployment" /\ UNCHANGED call
    BY <1>11 DEF InsertDeployment
  <2> QED  BY <1>0, <2>1 DEF OwnOf, ControlOf
<1>12. CASE Fail(r)
  <2>1. /\ pc[r] \notin {"idle", "answered"} /\ UNCHANGED <<name, level, call, target>>
        /\ pc'[r] = "answered" /\ candidates'[r] = {} /\ result'[r] = "error"
    BY <1>0, <1>12 DEF Fail, Answer, TypeOK
  <2> QED  BY <1>0, <1>b, <1>c, <2>1, WatchValues DEF OwnOf, Lookup
<1> QED
  BY <1>1, <1>2, <1>3, <1>4, <1>5, <1>6, <1>7, <1>8, <1>9, <1>10, <1>11, <1>12 DEF Step

-----------------------------------------------------------------------------
(* Default deployments *)

\* A step adds only the default deployment that is due to its request's app.
LEMMA DeploymentsGrow ==
  ASSUME IInv, NEW r \in Request, Begin(r) \/ Step(r) \/ Fail(r)
  PROVE  \/ UNCHANGED deployments
         \/ /\ pc[r] = "insertDeployment" /\ target[r] \in App
            /\ deployments' = [deployments EXCEPT ![target[r]] = @ \cup {NextDefault(r)}]
<1> USE DEF tables, lookup, names, locals
<1>1. CASE InsertDeployment(r)
  BY <1>1 DEF InsertDeployment, IInv, ControlOK, ControlOf
<1>2. CASE ~InsertDeployment(r)
  BY <1>2 DEF Begin, Step, Fail, Query, Visit, ListDeployments, Decide, MayOwn, MayDeploy,
              RequireOwner, CheckName, InsertApp, RenameApp
<1> QED  BY <1>1, <1>2

LEMMA DeploymentsStep ==
  ASSUME IInv, TypeOK', NEW r \in Request, Begin(r) \/ Step(r) \/ Fail(r)
  PROVE  DeploymentsOK'
<1> USE DEF tables, lookup, names, locals
<1>0. TypeOK /\ FreshOK /\ ControlOK /\ DeploymentsOK
  BY DEF IInv
<1>1. \A a \in App : /\ deployments[a] \subseteq deployments'[a]
                     /\ deployments'[a] \subseteq Defaults
                     /\ "Staging" \in deployments'[a] => "Production" \in deployments'[a]
  <2>1. CASE UNCHANGED deployments
    BY <1>0, <2>1 DEF DeploymentsOK, TypeOK
  <2>2. CASE /\ target[r] \in App
             /\ deployments' = [deployments EXCEPT ![target[r]] = @ \cup {NextDefault(r)}]
    BY <1>0, <2>2 DEF DeploymentsOK, TypeOK, NextDefault, Defaults
  <2> QED  BY <2>1, <2>2, DeploymentsGrow
\* No step of a request brings back an app that some other request created.
<1>2. \A a \in App \ fresh : name'[a] # NoName => name[a] # NoName
  <2>1. CASE Quiet(r)
    BY <2>1 DEF Quiet
  <2>2. ASSUME NEW a \in App, Naming(r, a)
        PROVE  \A b \in App \ fresh : name'[b] # NoName => name[b] # NoName
    BY <1>0, <2>2, NamingValues DEF Naming
  <2> QED  BY <2>1, <2>2, NamingStep
<1>3. ASSUME NEW q \in Request, q # r
      PROVE  CompleteOf(q)'
  <2>1. Untouched(q)
    BY <1>0, <1>3, OthersUntouched
  <2>2. target[q] # NoApp => target[q] \in App \ fresh
    BY <1>0 DEF TypeOK, FreshOK
  <2> QED  BY <1>0, <1>1, <1>2, <2>1, <2>2 DEF CompleteOf, Untouched, DeploymentsOK, TypeOK, Defaults
<1>4. CompleteOf(r)'
  <2>0. target[r] # NoApp => target[r] \in App \ fresh
    BY <1>0 DEF TypeOK, FreshOK
  <2>1. CASE /\ UNCHANGED <<call, target>>
             /\ pc'[r] \in Lookup \/ result'[r] = "ok" => pc[r] \in Lookup \/ result[r] = "ok"
    BY <1>0, <1>1, <1>2, <2>0, <2>1 DEF CompleteOf, DeploymentsOK, TypeOK, Defaults
  <2>2. CASE UNCHANGED call /\ (call[r].op # "create" \/ call[r].manual)
    BY <2>2 DEF CompleteOf
  <2>3. CASE UNCHANGED call /\ pc'[r] \notin Lookup /\ result'[r] # "ok"
    BY <2>3 DEF CompleteOf
  <2>4. CASE Begin(r)
    BY <1>0, <2>3, <2>4 DEF Begin, Goto, TypeOK, Lookup, ControlOK, ControlOf, CompleteOf
  <2>5. CASE Query(r) \/ Visit(r) \/ ListDeployments(r)
    <3>1. /\ UNCHANGED <<call, target>> /\ pc[r] \in Lookup
      BY <2>5 DEF Query, Visit, ListDeployments, Lookup, Goto
    <3> QED  BY <2>1, <3>1
  <2>6. CASE Decide(r)
    <3>1. UNCHANGED call /\ pc[r] \in Lookup /\ (call[r].op # "rename" => UNCHANGED target)
      BY <2>6 DEF Decide, Lookup
    <3>2. call[r].op = "create" \/ call[r].op # "create"
      OBVIOUS
    <3> QED  BY <2>1, <2>2, <3>1, <3>2
  <2>7. CASE MayOwn(r) \/ MayDeploy(r)
    <3>1. /\ UNCHANGED call /\ pc'[r] \notin Lookup
          /\ result'[r] = result[r] \/ result'[r] \in {"notFound", "forbidden"}
          /\ UNCHANGED target
      BY <1>0, <2>7 DEF MayOwn, MayDeploy, RequireOwner, Goto, Answer, TypeOK, Lookup
    <3> QED  BY <2>1, <3>1
  <2>8. CASE CheckName(r)
    <3>1. /\ UNCHANGED <<call, target>> /\ pc'[r] \notin Lookup
          /\ result'[r] = result[r] \/ result'[r] = "conflict"
      BY <1>0, <2>8 DEF CheckName, Goto, Answer, TypeOK, Lookup
    <3> QED  BY <2>1, <3>1
  <2>9. CASE InsertApp(r)
    <3>1. /\ UNCHANGED call /\ pc[r] = "insertApp" /\ result[r] = "none"
          /\ \/ pc'[r] = IF call[r].manual THEN "query" ELSE "mayDeploy"
             \/ pc'[r] = "answered"
          /\ result'[r] \in {"none", "error"}
      BY <1>0, <2>9 DEF InsertApp, Goto, Answer, TypeOK, ControlOK, ControlOf
    <3> QED  BY <2>2, <2>3, <3>1 DEF Lookup
  <2>10. CASE RenameApp(r)
    <3>1. UNCHANGED call /\ call[r].op # "create"
      BY <1>0, <2>10 DEF RenameApp, ControlOK, ControlOf
    <3> QED  BY <2>2, <3>1
  <2>11. CASE InsertDeployment(r)
    <3>1. /\ pc[r] = "insertDeployment" /\ result[r] = "none"
          /\ UNCHANGED <<call, target>> /\ target[r] \in App
      BY <1>0, <2>11 DEF InsertDeployment, ControlOK, ControlOf
    <3>2. \/ pc'[r] \in {"mayDeploy", "answered"} /\ result'[r] # "ok"
          \/ /\ NextDefault(r) = "Staging"
             /\ deployments' = [deployments EXCEPT ![target[r]] = @ \cup {NextDefault(r)}]
      BY <1>0, <2>11, <3>1 DEF InsertDeployment, AfterDeployment, Goto, Answer, TypeOK
    <3>3. NextDefault(r) = "Staging" => "Production" \in deployments[target[r]]
      BY DEF NextDefault
    <3>4. CASE /\ NextDefault(r) = "Staging"
               /\ deployments' = [deployments EXCEPT ![target[r]] = @ \cup {NextDefault(r)}]
      <4>1. deployments'[target[r]] = Defaults
        BY <1>0, <1>1, <3>1, <3>3, <3>4 DEF TypeOK, Defaults
      <4> QED  BY <3>1, <4>1 DEF CompleteOf
    <3> QED  BY <2>3, <3>1, <3>2, <3>4 DEF Lookup
  <2>12. CASE Fail(r)
    <3>1. UNCHANGED call /\ pc'[r] \notin Lookup /\ result'[r] # "ok"
      BY <1>0, <2>12 DEF Fail, Answer, TypeOK, Lookup
    <3> QED  BY <2>3, <3>1
  <2> QED
    BY <2>4, <2>5, <2>6, <2>7, <2>8, <2>9, <2>10, <2>11, <2>12 DEF Step
<1> QED  BY <1>1, <1>3, <1>4 DEF DeploymentsOK

-----------------------------------------------------------------------------
(* The rest of the system *)

\* What an action of the rest of the system on app a changes.
Elsewhere(a) ==
    /\ name[a] # NoName
    /\ UNCHANGED <<fresh, pc, call, result, todo, candidates, current, target, attempt, got,
                   checkedAt, clock, namer, named, checked>>
    /\ kept' \subseteq kept
    /\ \A b \in kept' : name'[b] = name[b]
    /\ \A b \in App \ {a} : name'[b] = name[b] /\ level'[b] = level[b]
    /\ \A b \in App : name'[b] \in {NoName, name[b]}
    /\ \A b \in App : \/ deployments'[b] = deployments[b]
                      \/ b = a /\ deployments'[b] = {} /\ name'[b] = NoName

LEMMA EnvironmentStep ==
  ASSUME IInv, TypeOK', Watch,
         (\E a \in App, x \in Account, l \in Level : Grant(a, x, l)) \/ \E a \in App : DeleteApp(a)
  PROVE  IInv'
<1> USE DEF tables, lookup, names, locals
<1>0. TypeOK /\ FreshOK /\ KeptOK /\ TimesOK /\ PendingOK /\ ControlOK /\ ClashOnlyByOverlap
  BY DEF IInv
<1>1. PICK a \in App : \/ \E x \in Account, l \in Level : Grant(a, x, l)
                      \/ DeleteApp(a)
  OBVIOUS
<1>2. Elsewhere(a)
  <2>1. ASSUME NEW x \in Account, NEW l \in Level, Grant(a, x, l)
        PROVE  Elsewhere(a)
    <3>1. /\ name[a] # NoName
          /\ UNCHANGED <<name, fresh, deployments, pc, call, result, todo, candidates, current,
                         target, attempt, got, checkedAt, clock, namer, named, checked>>
      BY <2>1 DEF Grant
    <3>2. kept' \subseteq kept
      BY <2>1 DEF Grant
    <3>3. \A b \in App \ {a} : level'[b] = level[b]
      BY <1>0, <2>1 DEF Grant, TypeOK
    <3> QED  BY <3>1, <3>2, <3>3 DEF Elsewhere
  <2>2. CASE DeleteApp(a)
    <3>1. /\ name[a] # NoName
          /\ UNCHANGED <<fresh, pc, call, result, todo, candidates, current,
                         target, attempt, got, checkedAt, clock, namer, named, checked>>
      BY <2>2 DEF DeleteApp
    <3>2. kept' = kept \ {a} /\ kept \subseteq App
      BY <1>0, <2>2 DEF DeleteApp, TypeOK
    <3>3. \A b \in App \ {a} : name'[b] = name[b] /\ level'[b] = level[b]
      BY <1>0, <2>2 DEF DeleteApp, TypeOK
    <3>4. name'[a] = NoName /\ \A b \in App : deployments'[b] =
            IF b = a THEN {} ELSE deployments[b]
      BY <1>0, <2>2 DEF DeleteApp, TypeOK
    <3> QED  BY <3>1, <3>2, <3>3, <3>4 DEF Elsewhere
  <2> QED  BY <1>1, <2>1, <2>2
<1> USE DEF Elsewhere
<1>3. \A b \in kept' : name'[b] = name[b]
  BY <1>2
<1>4. FreshOK'
  <2>1. ASSUME NEW b \in fresh
        PROVE  /\ name'[b] = NoName /\ b \notin kept' /\ deployments'[b] = {}
               /\ \A x \in Account : level'[b][x] = "None"
    <3>1. b \in App \ {a}
      BY <1>0, <1>2, <2>1 DEF FreshOK, TypeOK
    <3> QED  BY <1>0, <1>2, <3>1 DEF FreshOK
  <2> QED  BY <1>0, <1>2, <2>1 DEF FreshOK
<1>5. KeptOK'
  <2>1. ASSUME NEW x \in Account, NEW l \in Level, Grant(a, x, l)
        PROVE  KeptOK'
    BY <1>0, <2>1 DEF KeptOK, Grant, TypeOK
  <2>2. CASE DeleteApp(a)
    BY <1>0, <2>2 DEF KeptOK, DeleteApp, TypeOK
  <2> QED  BY <1>1, <2>1, <2>2
<1>6. TimesOK' /\ ControlOK'
  BY <1>0, <1>2 DEF TimesOK, ControlOK, ControlOf
<1>7. PendingOK'
  BY <1>0, <1>2, <1>3 DEF PendingOK, NewName, Actor
<1>8. ClashOnlyByOverlap'
  BY <1>0, <1>2, <1>3 DEF ClashOnlyByOverlap
<1>9. ASSUME NEW q \in Request
      PROVE  HistoryOf(q)' /\ CompleteOf(q)'
  <2>1. Untouched(q)
    BY <1>2 DEF Untouched
  <2>2. HistoryOf(q)'
    BY <2>1, UntouchedStep
  <2>3. CompleteOf(q)'
    BY <1>0, <1>2, <2>1 DEF IInv, DeploymentsOK, CompleteOf, Untouched, TypeOK
  <2> QED  BY <2>2, <2>3
<1>10. TargetOwned' /\ OwnOK' /\ OwnAppWins'
  BY <1>9 DEF HistoryOf, TargetOwned, OwnOK, OwnAppWins, PrefersOwn
<1>11. DeploymentsOK'
  <2>1. \A b \in App : "Staging" \in deployments'[b] => "Production" \in deployments'[b]
    BY <1>0, <1>2 DEF IInv, DeploymentsOK, TypeOK
  <2> QED  BY <1>9, <2>1 DEF DeploymentsOK
<1> QED  BY <1>4, <1>5, <1>6, <1>7, <1>8, <1>10, <1>11 DEF IInv

LEMMA NextIInv == IInv /\ [Next]_vars => IInv'
<1> SUFFICES ASSUME IInv, [Next]_vars PROVE IInv'
  OBVIOUS
<1>0. TypeOK /\ ControlOK
  BY DEF IInv
<1>1. ASSUME NEW r \in Request, Begin(r) \/ Step(r) \/ Fail(r), Watch
      PROVE  IInv'
  <2>1. TypeOK'
    BY <1>0, <1>1, StepTypeOK
  <2>2. FreshOK' /\ ControlOK' /\ DeploymentsOK'
    BY <1>1, <2>1, FreshStep, ControlStep, DeploymentsStep
  <2>3. Quiet(r) \/ \E a \in App : Naming(r, a)
    BY <1>1, <2>1, NamingStep
  <2>4. KeptOK' /\ TimesOK' /\ PendingOK' /\ ClashOnlyByOverlap'
    BY <2>1, <2>3, KeptStep, PendingStep, ClashStep
  <2>5. \A q \in Request : HistoryOf(q)'
    BY <1>0, <1>1, <2>1, TouchedStep, OthersUntouched, UntouchedStep
  <2>6. TargetOwned' /\ OwnOK' /\ OwnAppWins'
    BY <2>5 DEF HistoryOf, TargetOwned, OwnOK, OwnAppWins, PrefersOwn
  <2> QED  BY <2>1, <2>2, <2>4, <2>6 DEF IInv
<1>2. ASSUME (\E a \in App, x \in Account, l \in Level : Grant(a, x, l))
               \/ \E a \in App : DeleteApp(a), Watch
      PROVE  IInv'
  BY <1>0, <1>2, EnvironmentTypeOK, EnvironmentStep
<1>3. CASE UNCHANGED vars
  <2> USE <1>3 DEF vars, tables, lookup, names, locals
  <2>1. TypeOK' /\ FreshOK' /\ KeptOK' /\ TimesOK' /\ PendingOK' /\ ClashOnlyByOverlap'
    BY DEF IInv, TypeOK, FreshOK, KeptOK, TimesOK, PendingOK, ClashOnlyByOverlap, Actor, NewName
  <2>2. ControlOK' /\ TargetOwned' /\ DeploymentsOK'
    BY DEF IInv, ControlOK, ControlOf, TargetOwned, TargetOwnedBy, DeploymentsOK, CompleteOf
  <2>3. OwnOK'
    BY DEF IInv, OwnOK, OwnOf, Own, Owned, LevelOf, Actor, Sought, NewName, AsksForOwn
  <2>4. OwnAppWins'
    BY DEF IInv, OwnAppWins, Preferred, Actor, AsksForOwn
  <2> QED  BY <2>1, <2>2, <2>3, <2>4 DEF IInv
<1> QED  BY <1>1, <1>2, <1>3 DEF Next

-----------------------------------------------------------------------------
(* What follows *)

\* The inductive invariant of the behaviours of Apps.
THEOREM Invariance == Spec => []IInv
  BY InitIInv, NextIInv, PTL DEF Spec

\* Every table and every local of a request has its type.
THEOREM TypeCorrect == Spec => []TypeOK
<1>1. IInv => TypeOK
  BY DEF IInv
<1> QED  BY <1>1, Invariance, PTL

\* However many accounts, apps and requests there are: two apps that one account
\* named have the same name only if the requests overlapped, each writing after
\* the check of the other.  isUniqueAppName holds up against everything else.
THEOREM ClashesOverlap == Spec => []ClashOnlyByOverlap
<1>1. IInv => ClashOnlyByOverlap
  BY DEF IInv
<1> QED  BY <1>1, Invariance, PTL

\* A GetByName that reads all rows of its query prefers the account's own app, in
\* whatever order it gets the rows and whatever changes between its statements.
THEOREM OwnAppIsPreferred == Spec => []OwnAppWins
<1>1. IInv => OwnAppWins
  BY DEF IInv
<1> QED  BY <1>1, Invariance, PTL

\* A CreateApp that succeeds leaves both default deployments, and an app never
\* has Staging alone.
THEOREM CompleteUnlessFailed == Spec => []IncompleteOnlyByFailure
<1>1. IInv => IncompleteOnlyByFailure
  BY DEF IInv, IncompleteOnlyByFailure, DeploymentsOK, CompleteOf, TypeOK
<1> QED  BY <1>1, Invariance, PTL

\* Nobody but an owner renames an app, even though the write repeats no check.
THEOREM OwnersRename == Spec => RenamedByOwner
<1> DEFINE Renaming == \A a \in App : name[a] # NoName /\ name'[a] \notin {NoName, name[a]} =>
                         \E r \in Request : pc'[r] # pc[r] /\ target[r] = a /\ a \in owned[r]
<1>1. IInv /\ IInv' /\ [Next]_vars => [Renaming]_vars
  <2> SUFFICES ASSUME IInv, IInv', Next, NEW a \in App,
                      name[a] # NoName, name'[a] \notin {NoName, name[a]}
               PROVE  \E r \in Request : pc'[r] # pc[r] /\ target[r] = a /\ a \in owned[r]
    OBVIOUS
  <2>0. TypeOK /\ TypeOK' /\ FreshOK /\ ControlOK /\ TargetOwned
    BY DEF IInv
  <2>1. ASSUME NEW r \in Request, Begin(r) \/ Step(r) \/ Fail(r)
        PROVE  pc'[r] # pc[r] /\ target[r] = a /\ a \in owned[r]
    <3>1. ~Quiet(r)
      BY DEF Quiet
    <3>2. PICK b \in App : Naming(r, b)
      BY <2>0, <2>1, <3>1, NamingStep
    <3>3. b = a
      BY <2>0, <3>2, NamingValues
    <3>4. pc[r] = "renameApp" /\ target[r] = a /\ pc'[r] # pc[r]
      BY <2>0, <3>2, <3>3 DEF Naming, FreshOK
    <3>5. a \in owned[r]
      BY <2>0, <3>4 DEF ControlOK, ControlOf, TargetOwned, TargetOwnedBy
    <3> QED  BY <3>4, <3>5
  <2>2. ASSUME NEW b \in App, (\E x \in Account, l \in Level : Grant(b, x, l)) \/ DeleteApp(b)
        PROVE  FALSE
    BY <2>0, <2>2 DEF Grant, DeleteApp, TypeOK
  <2> QED  BY <2>1, <2>2 DEF Next
<1>2. Spec => []IInv
  BY Invariance
<1> QED  BY <1>1, <1>2, PTL DEF Spec, RenamedByOwner

-----------------------------------------------------------------------------
(* Requests come to an end, through their loops *)

\* How far a request is from its answer: a rename looks its app up, checks and
\* writes, and looks it up again by the new name.
Stage(r) ==
    CASE pc[r] = "idle"                                               -> 9
      [] pc[r] = "query" /\ target[r] = NoApp                         -> 8
      [] pc[r] \in {"visit", "listDeployments"} /\ target[r] = NoApp  -> 7
      [] pc[r] = "mayOwn"                                             -> 6
      [] pc[r] = "checkName"                                          -> 5
      [] pc[r] \in {"insertApp", "renameApp"}                         -> 4
      [] pc[r] \in {"mayDeploy", "insertDeployment"}                  -> 3
      [] pc[r] = "query" /\ target[r] # NoApp                         -> 2
      [] pc[r] \in {"visit", "listDeployments"} /\ target[r] # NoApp  -> 1
      [] pc[r] = "answered"                                           -> 0

\* What is left of the loops of CreateApp and createDeploymentWithGeneratedKey:
\* for each deployment that is missing, two statements at each attempt.
Missing(a) ==
    IF name[a] = NoName THEN 0
    ELSE (IF "Production" \in deployments[a] THEN 0 ELSE 1)
           + (IF "Staging" \in deployments[a] THEN 0 ELSE 1)
Work(r) ==
    CASE pc[r] = "mayDeploy"        -> 6 * Missing(target[r]) + 2 * (MaxAttempts - attempt[r]) + 1
      [] pc[r] = "insertDeployment" -> 6 * Missing(target[r]) + 2 * (MaxAttempts - attempt[r])
      [] OTHER                      -> 0

\* A stage further, or nearer to the end of the loop it is in: over the
\* deployments, or over the rows of GetByName's query.
Nearer(r) ==
    \/ Stage(r)' < Stage(r)
    \/ /\ Stage(r)' = Stage(r)
       /\ \/ UNCHANGED todo[r] /\ Work(r)' < Work(r)
          \/ todo'[r] \subseteq todo[r] /\ todo'[r] # todo[r]
          \/ UNCHANGED todo[r] /\ pc[r] = "listDeployments" /\ pc'[r] = "visit"
NoFurther(q) ==
    UNCHANGED <<pc[q], target[q], todo[q], attempt[q]>> /\ Work(q)' <= Work(q)

\* Whoever moves comes nearer to the answer.  Nobody takes another one back, nor
\* does the rest of the system.
EveryStepCounts ==
    [][\/ \E r \in Request : Nearer(r) /\ \A q \in Request \ {r} : NoFurther(q)
       \/ \A q \in Request : NoFurther(q)]_vars

Loop == {"mayDeploy", "insertDeployment"}

\* Deployments are only added, and an app that is gone stays so.
LEMMA WorkFalls ==
  ASSUME TypeOK, FreshOK, ControlOK, NEW q \in Request,
         UNCHANGED <<pc[q], target[q], todo[q], attempt[q]>>,
         \A a \in App \ fresh : /\ name'[a] # NoName => name[a] # NoName
                                /\ deployments[a] \subseteq deployments'[a] \/ name'[a] = NoName
  PROVE  NoFurther(q)
<1>1. CASE pc[q] \in Loop
  <2>1. target[q] \in App \ fresh
    BY <1>1 DEF ControlOK, ControlOf, FreshOK, Loop
  <2> DEFINE a == target[q]
  <2>2. Missing(a) \in 0..2 /\ Missing(a)' \in 0..2 /\ Missing(a)' <= Missing(a)
    <3>1. name'[target[q]] # NoName => name[target[q]] # NoName
      BY <2>1
    <3>2. deployments[target[q]] \subseteq deployments'[target[q]] \/ name'[target[q]] = NoName
      BY <2>1
    <3> QED  BY <3>1, <3>2 DEF Missing
  <2>3. attempt[q] \in 0..3 /\ MaxAttempts = 3
    BY DEF TypeOK, MaxAttempts
  <2>4. Work(q)' <= Work(q)
    <3>1. CASE pc[q] = "mayDeploy"
      BY <2>2, <2>3, <3>1 DEF Work
    <3>2. CASE pc[q] = "insertDeployment"
      BY <2>2, <2>3, <3>2 DEF Work
    <3> QED  BY <1>1, <3>1, <3>2 DEF Loop
  <2> QED  BY <2>4 DEF NoFurther
<1>2. CASE pc[q] \notin Loop
  BY <1>2 DEF Loop, Work, NoFurther
<1> QED  BY <1>1, <1>2

LEMMA OthersNoFurther ==
  ASSUME IInv, TypeOK', NEW r \in Request, Begin(r) \/ Step(r) \/ Fail(r)
  PROVE  \A q \in Request \ {r} : NoFurther(q)
<1>0. TypeOK /\ FreshOK /\ ControlOK
  BY DEF IInv
<1>1. \A a \in App \ fresh : name'[a] # NoName => name[a] # NoName
  <2>1. CASE Quiet(r)
    BY <2>1 DEF Quiet
  <2>2. ASSUME NEW a \in App, Naming(r, a)
        PROVE  \A b \in App \ fresh : name'[b] # NoName => name[b] # NoName
    BY <1>0, <2>2, NamingValues DEF Naming
  <2> QED  BY <2>1, <2>2, NamingStep
<1>2. \A a \in App : deployments[a] \subseteq deployments'[a]
  <2>1. CASE UNCHANGED deployments
    BY <2>1
  <2>2. CASE /\ target[r] \in App
             /\ deployments' = [deployments EXCEPT ![target[r]] = @ \cup {NextDefault(r)}]
    BY <1>0, <2>2 DEF TypeOK
  <2> QED  BY <2>1, <2>2, DeploymentsGrow
<1>3. ASSUME NEW q \in Request \ {r}
      PROVE  UNCHANGED <<pc[q], target[q], todo[q], attempt[q]>>
  <2>1. attempt'[q] = attempt[q]
    BY <1>0 DEF TypeOK, Begin, Step, Fail, Query, Visit, ListDeployments, Decide, MayOwn, MayDeploy,
                RequireOwner, CheckName, InsertApp, RenameApp, InsertDeployment, locals
  <2>2. Untouched(q)
    BY <1>0, OthersUntouched
  <2> QED  BY <2>1, <2>2 DEF Untouched
<1> QED  BY <1>0, <1>1, <1>2, <1>3, WorkFalls

LEMMA EnvironmentNoFurther ==
  ASSUME IInv, (\E a \in App, x \in Account, l \in Level : Grant(a, x, l)) \/ \E a \in App : DeleteApp(a)
  PROVE  \A q \in Request : NoFurther(q)
<1>0. TypeOK /\ FreshOK /\ ControlOK
  BY DEF IInv
<1>1. UNCHANGED <<pc, target, todo, attempt>>
  BY DEF Grant, DeleteApp, locals, lookup
<1>2. \A a \in App : /\ name'[a] # NoName => name[a] # NoName
                     /\ deployments[a] \subseteq deployments'[a] \/ name'[a] = NoName
  BY <1>0 DEF Grant, DeleteApp, TypeOK
<1> QED  BY <1>0, <1>1, <1>2, WorkFalls

LEMMA StepNearer ==
  ASSUME IInv, TypeOK', NEW r \in Request, Begin(r) \/ Step(r) \/ Fail(r)
  PROVE  Nearer(r)
<1> USE DEF tables, lookup, names, locals
<1>0. TypeOK /\ FreshOK /\ ControlOf(r) /\ pc[r] \in PC /\ pc'[r] \in PC
  BY DEF IInv, ControlOK, TypeOK
<1>1. /\ target[r] \in App \cup {NoApp} /\ target'[r] \in App \cup {NoApp} /\ NoApp \notin App
      /\ attempt[r] \in 0..3 /\ MaxAttempts = 3 /\ (pc[r] # "answered" => attempt[r] < 3)
  BY <1>0, NothingAssumption DEF TypeOK, MaxAttempts, ControlOf
<1>2. pc[r] # "answered" => Stage(r) \in 1..9
  BY <1>0 DEF Stage, PC
<1>3. ASSUME pc[r] # "answered", pc' = [pc EXCEPT ![r] = "answered"]  PROVE Nearer(r)
  <2>1. pc'[r] = "answered"
    BY <1>0, <1>3 DEF TypeOK
  <2>2. Stage(r)' = 0
    BY <2>1 DEF Stage
  <2> QED  BY <1>2, <1>3, <2>2 DEF Nearer
<1>4. ASSUME NEW there, pc' = [pc EXCEPT ![r] = there]  PROVE pc'[r] = there
  BY <1>0, <1>4 DEF TypeOK
<1>5. CASE Begin(r)
  <2>1. pc[r] = "idle" /\ pc'[r] \in {"checkName", "query"}
    BY <1>4, <1>5 DEF Begin, Goto
  <2>2. Stage(r) = 9
    BY <2>1 DEF Stage
  <2>3. Stage(r)' \in {5, 8, 2}
    BY <2>1 DEF Stage
  <2> QED  BY <2>2, <2>3 DEF Nearer
<1>6. CASE Query(r)
  <2>1. pc[r] = "query" /\ pc'[r] = "visit" /\ UNCHANGED target
    BY <1>4, <1>6 DEF Query, Goto
  <2>2. Stage(r) = IF target[r] = NoApp THEN 8 ELSE 2
    BY <2>1 DEF Stage
  <2>3. Stage(r)' = IF target[r] = NoApp THEN 7 ELSE 1
    BY <2>1 DEF Stage
  <2> QED  BY <2>2, <2>3 DEF Nearer
<1>7. ASSUME pc[r] \in {"visit", "listDeployments"}, pc'[r] \in {"visit", "listDeployments"},
             UNCHANGED target
      PROVE  Stage(r)' = Stage(r)
  BY <1>7 DEF Stage
<1>8. CASE Visit(r)
  <2>1. PICK a \in todo[r] :
          /\ todo' = [todo EXCEPT ![r] = @ \ {a}]
          /\ UNCHANGED pc \/ Goto(r, "visit", "listDeployments")
    BY <1>8 DEF Visit
  <2>2. pc[r] = "visit" /\ pc'[r] \in {"visit", "listDeployments"} /\ UNCHANGED target
    BY <1>4, <1>8, <2>1 DEF Visit, Goto
  <2>3. todo'[r] = todo[r] \ {a}
    BY <1>0, <2>1 DEF TypeOK
  <2> QED  BY <1>7, <2>2, <2>3 DEF Nearer
<1>9. CASE ListDeployments(r)
  <2>1. pc[r] = "listDeployments" /\ UNCHANGED <<target, todo>>
    BY <1>9 DEF ListDeployments
  <2>2. CASE pc' = [pc EXCEPT ![r] = "answered"]
    BY <1>3, <2>1, <2>2
  <2>3. CASE pc' = [pc EXCEPT ![r] = "visit"]
    BY <1>4, <1>7, <2>1, <2>3 DEF Nearer
  <2> QED  BY <1>9, <2>2, <2>3 DEF ListDeployments, Goto, Answer
<1>10. CASE Decide(r)
  <2>0. pc[r] = "visit"
    BY <1>10 DEF Decide
  <2>1. CASE pc' = [pc EXCEPT ![r] = "answered"]
    BY <1>3, <2>0, <2>1
  <2>2. CASE target[r] = NoApp /\ pc' = [pc EXCEPT ![r] = "mayOwn"]
    <3>1. Stage(r) = 7
      BY <2>0, <2>2 DEF Stage
    <3>2. Stage(r)' = 6
      BY <1>4, <2>2 DEF Stage
    <3> QED  BY <3>1, <3>2 DEF Nearer
  <2> QED  BY <1>10, <2>1, <2>2 DEF Decide, Goto, Answer
<1>11. ASSUME NEW here, NEW there, RequireOwner(r, here, there)
       PROVE  /\ pc[r] = here /\ UNCHANGED <<name, deployments, target, todo, attempt>>
              /\ pc' = [pc EXCEPT ![r] = "answered"] \/ pc' = [pc EXCEPT ![r] = there]
  BY <1>11 DEF RequireOwner, Goto, Answer
<1>12. CASE MayOwn(r)
  <2>1. pc[r] = "mayOwn"
    BY <1>11, <1>12 DEF MayOwn
  <2>2. CASE pc' = [pc EXCEPT ![r] = "answered"]
    BY <1>3, <2>1, <2>2
  <2>3. CASE pc' = [pc EXCEPT ![r] = "checkName"]
    <3>1. Stage(r) = 6
      BY <2>1 DEF Stage
    <3>2. Stage(r)' = 5
      BY <1>4, <2>3 DEF Stage
    <3> QED  BY <3>1, <3>2 DEF Nearer
  <2> QED  BY <1>11, <1>12, <2>2, <2>3 DEF MayOwn
<1>13. CASE CheckName(r)
  <2>1. pc[r] = "checkName"
    BY <1>13 DEF CheckName
  <2>2. CASE pc' = [pc EXCEPT ![r] = "answered"]
    BY <1>3, <2>1, <2>2
  <2>3. CASE pc' = [pc EXCEPT ![r] = IF call[r].op = "create" THEN "insertApp" ELSE "renameApp"]
    <3>1. Stage(r) = 5
      BY <2>1 DEF Stage
    <3>2. pc'[r] \in {"insertApp", "renameApp"}
      BY <1>4, <2>3
    <3>3. Stage(r)' = 4
      BY <3>2 DEF Stage
    <3> QED  BY <3>1, <3>3 DEF Nearer
  <2> QED  BY <1>13, <2>2, <2>3 DEF CheckName, Goto, Answer
<1>14. CASE InsertApp(r)
  <2>1. pc[r] = "insertApp" /\ target'[r] \in App
    <3>1. PICK a \in fresh : target' = [target EXCEPT ![r] = a]
      BY <1>14 DEF InsertApp
    <3> QED  BY <1>0, <1>14, <3>1 DEF InsertApp, TypeOK
  <2>2. CASE pc' = [pc EXCEPT ![r] = "answered"]
    BY <1>3, <2>1, <2>2
  <2>3. CASE pc' = [pc EXCEPT ![r] = IF call[r].manual THEN "query" ELSE "mayDeploy"]
    <3>1. Stage(r) = 4
      BY <2>1 DEF Stage
    <3>2. pc'[r] \in {"query", "mayDeploy"} /\ target'[r] # NoApp
      BY <1>1, <1>4, <2>1, <2>3
    <3>3. Stage(r)' \in {2, 3}
      BY <3>2 DEF Stage
    <3> QED  BY <3>1, <3>3 DEF Nearer
  <2> QED  BY <1>14, <2>2, <2>3 DEF InsertApp, Goto, Answer
<1>15. CASE RenameApp(r)
  <2>1. pc[r] = "renameApp" /\ target[r] # NoApp /\ UNCHANGED target
    BY <1>0, <1>1, <1>15 DEF RenameApp, ControlOf, Goto, Answer
  <2>2. CASE pc' = [pc EXCEPT ![r] = "answered"]
    BY <1>3, <2>1, <2>2
  <2>3. CASE pc' = [pc EXCEPT ![r] = "query"]
    <3>1. Stage(r) = 4
      BY <2>1 DEF Stage
    <3>2. Stage(r)' = 2
      BY <1>4, <2>1, <2>3 DEF Stage
    <3> QED  BY <3>1, <3>2 DEF Nearer
  <2> QED  BY <1>15, <2>2, <2>3 DEF RenameApp, Goto, Answer
<1>16. CASE MayDeploy(r)
  <2>1. pc[r] = "mayDeploy" /\ UNCHANGED <<name, deployments, target, todo, attempt>>
    BY <1>11, <1>16 DEF MayDeploy
  <2>2. CASE pc' = [pc EXCEPT ![r] = "answered"]
    BY <1>3, <2>1, <2>2
  <2>3. CASE pc' = [pc EXCEPT ![r] = "insertDeployment"]
    <3>1. pc'[r] = "insertDeployment"
      BY <1>4, <2>3
    <3>2. Stage(r) = 3 /\ Stage(r)' = 3
      BY <2>1, <3>1 DEF Stage
    <3>3. Missing(target[r]) \in 0..2 /\ Missing(target[r])' = Missing(target[r])
      BY <2>1 DEF Missing
    <3>4. Work(r) = 6 * Missing(target[r]) + 2 * (MaxAttempts - attempt[r]) + 1
      BY <2>1 DEF Work
    <3>5. Work(r)' = 6 * Missing(target[r])' + 2 * (MaxAttempts - attempt[r])
      BY <2>1, <3>1 DEF Work
    <3> QED  BY <1>1, <2>1, <3>2, <3>3, <3>4, <3>5 DEF Nearer
  <2> QED  BY <1>11, <1>16, <2>2, <2>3 DEF MayDeploy
<1>17. CASE InsertDeployment(r)
  <2>1. pc[r] = "insertDeployment" /\ UNCHANGED <<name, target, todo>> /\ target[r] \in App
    BY <1>0, <1>17 DEF InsertDeployment, ControlOf
  <2>2. CASE pc' = [pc EXCEPT ![r] = "answered"]
    BY <1>3, <2>1, <2>2
  <2>3. Stage(r) = 3
    BY <2>1 DEF Stage
  <2>4. CASE pc' = [pc EXCEPT ![r] = "query"]
    <3>1. Stage(r)' = 2
      BY <1>1, <1>4, <2>1, <2>4 DEF Stage
    <3> QED  BY <2>3, <3>1 DEF Nearer
  <2>5. Work(r) = 6 * Missing(target[r]) + 2 * (MaxAttempts - attempt[r])
    BY <2>1 DEF Work
  <2>6. ASSUME pc' = [pc EXCEPT ![r] = "mayDeploy"]
        PROVE  /\ Stage(r)' = 3
               /\ Work(r)' = 6 * Missing(target[r])' + 2 * (MaxAttempts - attempt'[r]) + 1
    <3>1. pc'[r] = "mayDeploy"
      BY <1>4, <2>6
    <3> QED  BY <3>1 DEF Stage, Work
  <2>7. CASE /\ pc' = [pc EXCEPT ![r] = "mayDeploy"] /\ name[target[r]] # NoName
             /\ NextDefault(r) # "Staging"
             /\ deployments' = [deployments EXCEPT ![target[r]] = @ \cup {NextDefault(r)}]
             /\ attempt' = [attempt EXCEPT ![r] = 0]
    <3>1. NextDefault(r) = "Production" /\ "Production" \notin deployments[target[r]]
      BY <2>7 DEF NextDefault
    <3>2. deployments'[target[r]] = deployments[target[r]] \cup {"Production"} /\ attempt'[r] = 0
      BY <1>0, <2>1, <2>7, <3>1 DEF TypeOK
    <3>3. Missing(target[r]) \in 1..2 /\ Missing(target[r])' = Missing(target[r]) - 1
      BY <2>1, <2>7, <3>1, <3>2 DEF Missing
    <3> QED  BY <1>1, <2>1, <2>3, <2>5, <2>6, <2>7, <3>2, <3>3 DEF Nearer
  <2>8. CASE /\ pc' = [pc EXCEPT ![r] = "mayDeploy"] /\ UNCHANGED deployments
             /\ attempt' = [attempt EXCEPT ![r] = @ + 1]
    <3>1. attempt'[r] = attempt[r] + 1
      BY <1>0, <2>8 DEF TypeOK
    <3>2. Missing(target[r]) \in 0..2 /\ Missing(target[r])' = Missing(target[r])
      BY <2>1, <2>8 DEF Missing
    <3> QED  BY <1>1, <2>1, <2>3, <2>5, <2>6, <2>8, <3>1, <3>2 DEF Nearer
  <2> QED  BY <1>17, <2>2, <2>4, <2>7, <2>8 DEF InsertDeployment, AfterDeployment, Goto, Answer
<1>18. CASE Fail(r)
  BY <1>3, <1>18 DEF Fail, Answer
<1> QED
  BY <1>5, <1>6, <1>8, <1>9, <1>10, <1>12, <1>13, <1>14, <1>15, <1>16, <1>17, <1>18 DEF Step

\* Lookups and creations end, whatever the other requests and the rest of the
\* system do to the apps they go through: for finitely many apps, a request has
\* boundedly many steps.
THEOREM RequestsEnd == Spec => EveryStepCounts
<1> DEFINE Counts == \/ \E r \in Request : Nearer(r) /\ \A q \in Request \ {r} : NoFurther(q)
                     \/ \A q \in Request : NoFurther(q)
<1>1. IInv /\ IInv' /\ [Next]_vars => [Counts]_vars
  <2>1. IInv /\ IInv' /\ Next => Counts
    BY StepNearer, OthersNoFurther, EnvironmentNoFurther DEF Next, IInv
  <2> QED  BY <2>1
<1> QED  BY <1>1, Invariance, PTL DEF Spec, EveryStepCounts
=============================================================================
