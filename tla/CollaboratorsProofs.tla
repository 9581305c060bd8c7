------------------------- MODULE CollaboratorsProofs -------------------------
(* The action properties of Collaborators, for any accounts and requests. *)
EXTENDS Collaborators, TLAPS

(* The inductive invariant *)

\* A request is where its operation takes it.
ControlOK ==
    \A r \in Request :
        /\ pc[r] = "readCollaborators" => call[r].op = "remove"
        /\ pc[r] \in {"demote", "promote"} => call[r].op = "transfer"
        /\ pc[r] = "upsert" => call[r].op = "add"
        /\ pc[r] = "deleteRow" => call[r].op = "remove"
        /\ pc[r] \in {"deleteApp", "cascade"} => call[r].op = "delete"
        /\ pc[r] \in {"demote", "promote", "upsert", "deleteRow"} => Target(r) \in Account

\* Past its check a request was found to be the owner's, or its actor leaves.
Leaves(r) == call[r].op = "remove" /\ Target(r) = Actor(r)
Past ==
    {"findAccount", "demote", "promote", "upsert", "deleteRow", "deleteApp", "cascade"}
ChecksOK ==
    \A r \in Request :
        /\ Active(r) => permission[Actor(r)] \in held[r]
        /\ pc[r] \in Past => Leaves(r) \/ (seen[r] = "Owner" /\ "Owner" \in held[r])
        /\ pc[r] = "findAccount" => call[r].op # "delete"

\* A row locked by Transfer's UPDATE has one holder, another transfer or the
\* deletion, and stays as it was.
LocksOK ==
    \A r \in Request : pc[r] = "promote" /\ locked[r] # "None" =>
        /\ permission[Actor(r)] = locked[r]
        /\ \A q \in Request \ {r} : ~Holds(q, Actor(r))

\* The actor had the level the transaction met while the request was active.
MetOK == \A r \in Request : pc[r] = "promote" => locked[r] \in held[r]

IInv == TypeOK /\ ControlOK /\ ChecksOK /\ LocksOK /\ MetOK

-----------------------------------------------------------------------------

LEMMA CallType ==
  ASSUME TypeOK, NEW r \in Request
  PROVE  /\ call[r] \in Call
         /\ Actor(r) \in Account
         /\ Target(r) \in Account \cup {Stranger}
         /\ call[r].op \in Op
  BY CallsAssumption DEF TypeOK, Call, Actor, Target

LEMMA InitIInv == Init => IInv
<1> SUFFICES ASSUME Init PROVE IInv
  OBVIOUS
<1>1. TypeOK
  <2>1. permission \in [Account -> Level]
    BY DEF Init, Level
  <2> QED  BY <2>1, CallsAssumption DEF Init, TypeOK, Level, PC, Result
<1>2. ControlOK /\ ChecksOK /\ LocksOK /\ MetOK
  BY DEF Init, ControlOK, ChecksOK, LocksOK, MetOK, Active, Past
<1> QED  BY <1>1, <1>2 DEF IInv

-----------------------------------------------------------------------------
(* Steps that leave the permissions alone *)

ReadAction(r) ==
    Begin(r) \/ FindApp(r) \/ MayOwn(r) \/ ReadCollaborators(r) \/ FindAccount(r) \/ Fail(r)

\* Where such a step takes the request, and what it records.
LEMMA ReadStepEffect ==
  ASSUME IInv, NEW r \in Request, ReadAction(r)
  PROVE  /\ UNCHANGED <<permission, appLive, call, locked, taken>>
         /\ \/ \E outcome \in Result : Answer(r, outcome)
            \/ /\ UNCHANGED result
               /\ \/ Begin(r) /\ pc' = [pc EXCEPT ![r] = "findApp"]
                  \/ FindApp(r) /\ call[r].op = "remove" /\ pc' = [pc EXCEPT ![r] = "readCollaborators"]
                  \/ FindApp(r) /\ pc' = [pc EXCEPT ![r] = "mayOwn"]
                  \/ /\ MayOwn(r) /\ permission[Actor(r)] = "Owner"
                     /\ \/ call[r].op = "delete" /\ pc' = [pc EXCEPT ![r] = "deleteApp"]
                        \/ call[r].op # "delete" /\ pc' = [pc EXCEPT ![r] = "findAccount"]
                  \/ ReadCollaborators(r) /\ pc' = [pc EXCEPT ![r] = "mayOwn"]
                  \/ ReadCollaborators(r) /\ Leaves(r) /\ pc' = [pc EXCEPT ![r] = "findAccount"]
                  \/ /\ FindAccount(r) /\ Target(r) \in Account
                     /\ \/ call[r].op = "transfer" /\ pc' = [pc EXCEPT ![r] = "demote"]
                        \/ call[r].op = "add" /\ pc' = [pc EXCEPT ![r] = "upsert"]
                        \/ call[r].op = "remove" /\ pc' = [pc EXCEPT ![r] = "deleteRow"]
         /\ \/ Begin(r) /\ held' = [held EXCEPT ![r] = {permission[Actor(r)]}] /\ UNCHANGED seen
            \/ /\ MayOwn(r) \/ ReadCollaborators(r)
               /\ seen' = [seen EXCEPT ![r] = permission[Actor(r)]] /\ UNCHANGED held
            \/ (FindApp(r) \/ FindAccount(r) \/ Fail(r)) /\ UNCHANGED <<held, seen>>
<1>0. TypeOK /\ Actor(r) \in Account /\ call[r].op \in Op
  BY CallType DEF IInv
<1>1. CASE Begin(r)
  BY <1>1 DEF Begin, Goto
<1>2. CASE FindApp(r)
  BY <1>2 DEF FindApp, Goto, Result
<1>3. CASE MayOwn(r)
  BY <1>3 DEF MayOwn, IsOwner, Goto, Result
<1>4. CASE ReadCollaborators(r)
  <2>1. call[r].op = "remove"
    BY <1>4 DEF ReadCollaborators, IInv, ControlOK
  <2> QED  BY <1>4, <2>1 DEF ReadCollaborators, Goto, Result, Leaves
<1>5. CASE FindAccount(r)
  <2>1. pc[r] = "findAccount" /\ call[r].op \in {"transfer", "add", "remove"}
    BY <1>0, <1>5 DEF FindAccount, Goto, IInv, ChecksOK, Op
  <2>2. \/ call[r].op = "transfer" /\ AfterAccount[call[r].op] = "demote"
        \/ call[r].op = "add" /\ AfterAccount[call[r].op] = "upsert"
        \/ call[r].op = "remove" /\ AfterAccount[call[r].op] = "deleteRow"
    BY <2>1 DEF AfterAccount
  <2> QED  BY <1>5, <2>2 DEF FindAccount, Goto, Result
<1>6. CASE Fail(r)
  BY <1>6 DEF Fail, Result
<1> QED  BY <1>1, <1>2, <1>3, <1>4, <1>5, <1>6 DEF ReadAction

LEMMA ReadStep ==
  ASSUME IInv, NEW r \in Request, ReadAction(r)
  PROVE  IInv'
<1>0. TypeOK /\ Actor(r) \in Account /\ call[r].op \in Op
  BY CallType DEF IInv
<1>1. UNCHANGED <<permission, appLive, call, locked, taken>>
  BY ReadStepEffect
<1>2. pc'[r] \notin {"promote", "cascade"} /\ \A q \in Request \ {r} :
        pc'[q] = pc[q] /\ seen'[q] = seen[q] /\ held'[q] = held[q]
  BY <1>0, ReadStepEffect DEF Answer, TypeOK
<1>3. TypeOK'
  <2>1. pc' \in [Request -> PC] /\ result' \in [Request -> Result]
    BY <1>0, ReadStepEffect DEF Answer, TypeOK, PC
  <2>2. seen' \in [Request -> Level] /\ held' \in [Request -> SUBSET Level]
    BY <1>0, ReadStepEffect DEF TypeOK
  <2> QED  BY <1>0, <1>1, <2>1, <2>2 DEF TypeOK
<1>4. ControlOK'
  <2>1. /\ pc'[r] = "readCollaborators" => call[r].op = "remove"
        /\ pc'[r] \in {"demote", "promote"} => call[r].op = "transfer"
        /\ pc'[r] = "upsert" => call[r].op = "add"
        /\ pc'[r] = "deleteRow" => call[r].op = "remove"
        /\ pc'[r] \in {"deleteApp", "cascade"} => call[r].op = "delete"
        /\ pc'[r] \in {"demote", "promote", "upsert", "deleteRow"} => Target(r) \in Account
    BY <1>0, ReadStepEffect DEF Answer, TypeOK
  <2> QED  BY <1>1, <1>2, <2>1 DEF IInv, ControlOK, Target
<1>5. ChecksOK'
  <2>1. Active(r)' => permission[Actor(r)] \in held'[r]
    <3>1. CASE Begin(r)
      BY <1>0, <3>1 DEF Begin, TypeOK
    <3>2. CASE ~Begin(r)
      <4>1. Active(r)
        BY <3>2 DEF ReadAction, FindApp, MayOwn, ReadCollaborators, FindAccount, Fail, Goto, Active
      <4>2. UNCHANGED held
        BY <3>2, ReadStepEffect
      <4> QED  BY <4>1, <4>2 DEF IInv, ChecksOK
    <3> QED  BY <3>1, <3>2
  <2>2. pc'[r] \in Past => Leaves(r) \/ (seen'[r] = "Owner" /\ "Owner" \in held'[r])
    <3>1. CASE MayOwn(r)
      <4>1. Active(r) /\ permission[Actor(r)] \in held[r] /\ UNCHANGED held
            /\ seen'[r] = permission[Actor(r)]
        BY <1>0, <3>1 DEF MayOwn, Goto, Active, IInv, ChecksOK, TypeOK
      <4>2. pc'[r] \in Past => permission[Actor(r)] = "Owner"
        BY <1>0, <3>1 DEF MayOwn, IsOwner, Answer, TypeOK, Past
      <4> QED  BY <4>1, <4>2
    <3>2. CASE ReadCollaborators(r)
      <4>1. pc[r] = "readCollaborators"
        BY <3>2 DEF ReadCollaborators
      <4> QED  BY <1>0, <3>2, <4>1, ReadStepEffect DEF Begin, FindApp, MayOwn, FindAccount, Goto,
                  Answer, TypeOK, Past
    <3>3. CASE FindAccount(r)
      <4>1. pc[r] = "findAccount" /\ UNCHANGED <<seen, held>>
        BY <3>3 DEF FindAccount, Goto
      <4> QED  BY <4>1 DEF IInv, ChecksOK, Past
    <3>4. CASE Begin(r) \/ FindApp(r) \/ Fail(r)
      BY <1>0, <3>4 DEF Begin, FindApp, Fail, Goto, Answer, TypeOK, Past
    <3> QED  BY <3>1, <3>2, <3>3, <3>4 DEF ReadAction
  <2>3. pc'[r] = "findAccount" => call[r].op # "delete"
    BY <1>0, ReadStepEffect DEF Answer, TypeOK, Leaves
  <2> QED
    BY <1>1, <1>2, <2>1, <2>2, <2>3 DEF IInv, ChecksOK, Active, Actor, Leaves, Target
<1>6. LocksOK'
  BY <1>1, <1>2 DEF IInv, LocksOK, Holds, Actor
<1>7. MetOK'
  BY <1>1, <1>2 DEF IInv, MetOK
<1> QED  BY <1>3, <1>4, <1>5, <1>6, <1>7 DEF IInv

-----------------------------------------------------------------------------
(* Writes *)

\* Demote takes the lock of the actor's row, if there is a row.
LEMMA DemoteStep ==
  ASSUME IInv, NEW r \in Request, Demote(r)
  PROVE  IInv'
<1>0. TypeOK /\ Actor(r) \in Account
  BY CallType DEF IInv
<1>1. /\ UNCHANGED <<permission, appLive, call, result, taken, seen, held>>
      /\ pc[r] = "demote" /\ pc' = [pc EXCEPT ![r] = "promote"]
      /\ locked' = [locked EXCEPT ![r] = permission[Actor(r)]]
      /\ Free(r, Actor(r))
  BY DEF Demote, Goto
<1>2. TypeOK'
  BY <1>0, <1>1 DEF TypeOK, PC
<1>3. ControlOK' /\ ChecksOK'
  BY <1>0, <1>1 DEF IInv, TypeOK, ControlOK, ChecksOK, Active, Past, Leaves, Actor, Target
<1>4. LocksOK'
  <2> SUFFICES ASSUME NEW q \in Request, pc'[q] = "promote", locked'[q] # "None"
               PROVE  /\ permission[Actor(q)] = locked'[q]
                      /\ \A o \in Request \ {q} :
                           /\ ~(pc'[o] = "promote" /\ locked'[o] # "None" /\ Actor(o) = Actor(q))
                           /\ ~(pc'[o] = "cascade" /\ Actor(q) \in taken)
    BY <1>1 DEF LocksOK, Holds, Actor
  <2>1. CASE q = r
    BY <1>0, <1>1, <2>1 DEF Free, Holds, TypeOK
  <2>2. CASE q # r
    BY <1>0, <1>1, <2>2 DEF IInv, LocksOK, Free, Holds, TypeOK
  <2> QED  BY <2>1, <2>2
<1>5. MetOK'
  <2>1. permission[Actor(r)] \in held[r]
    BY <1>1 DEF IInv, ChecksOK, Active
  <2> QED  BY <1>0, <1>1, <2>1 DEF IInv, MetOK, TypeOK
<1> QED  BY <1>2, <1>3, <1>4, <1>5 DEF IInv

\* A request that writes a new table of permissions and is answered.  Rows
\* others hold stay as they are.
LEMMA WriteStep ==
  ASSUME IInv, NEW r \in Request, NEW table \in [Account -> Level], NEW outcome \in Result,
         Active(r), Write(table), Answer(r, outcome),
         appLive' \in BOOLEAN, UNCHANGED <<call, locked, taken, seen>>,
         \A q \in Request \ {r} : \A a \in Account :
           pc[q] = "promote" /\ Holds(q, a) => table[a] = permission[a]
  PROVE  IInv'
<1>0. TypeOK
  BY DEF IInv
<1>1. /\ permission' = table
      /\ pc' = [pc EXCEPT ![r] = "answered"] /\ result' = [result EXCEPT ![r] = outcome]
      /\ held' = [q \in Request |->
                    IF Active(q) THEN held[q] \cup {table[Actor(q)]} ELSE held[q]]
  BY DEF Write, Answer
<1>2. \A q \in Request : Actor(q) \in Account /\ Actor(q)' = Actor(q) /\ Target(q)' = Target(q)
  BY <1>0, CallType DEF Actor, Target
<1>3. TypeOK'
  BY <1>0, <1>1, <1>2 DEF TypeOK, PC
<1>4. ControlOK'
  BY <1>0, <1>1, <1>2 DEF IInv, TypeOK, ControlOK
<1>5. ChecksOK'
  <2> SUFFICES ASSUME NEW q \in Request, q # r
               PROVE  /\ Active(q) => table[Actor(q)] \in held'[q]
                      /\ pc[q] \in Past => Leaves(q) \/ (seen[q] = "Owner" /\ "Owner" \in held'[q])
                      /\ pc[q] = "findAccount" => call[q].op # "delete"
    BY <1>0, <1>1, <1>2 DEF ChecksOK, Active, Leaves, Past, TypeOK
  <2>1. held[q] \subseteq held'[q] /\ (Active(q) => table[Actor(q)] \in held'[q])
    BY <1>1
  <2> QED  BY <2>1 DEF IInv, ChecksOK
<1>6. LocksOK'
  <2> SUFFICES ASSUME NEW q \in Request, q # r, pc[q] = "promote", locked[q] # "None"
               PROVE  /\ table[Actor(q)] = locked[q]
                      /\ \A o \in Request \ {q} :
                           /\ ~(pc'[o] = "promote" /\ locked[o] # "None" /\ Actor(o) = Actor(q))
                           /\ ~(pc'[o] = "cascade" /\ Actor(q) \in taken)
    BY <1>0, <1>1, <1>2 DEF LocksOK, Holds, TypeOK
  <2>1. Holds(q, Actor(q)) /\ permission[Actor(q)] = locked[q]
    BY DEF Holds, IInv, LocksOK
  <2>2. table[Actor(q)] = locked[q]
    BY <1>2, <2>1
  <2>3. \A o \in Request \ {q} :
          /\ ~(pc'[o] = "promote" /\ locked[o] # "None" /\ Actor(o) = Actor(q))
          /\ ~(pc'[o] = "cascade" /\ Actor(q) \in taken)
    BY <1>0, <1>1 DEF IInv, LocksOK, Holds, TypeOK
  <2> QED  BY <2>2, <2>3
<1>7. MetOK'
  BY <1>0, <1>1 DEF IInv, MetOK, TypeOK
<1> QED  BY <1>3, <1>4, <1>5, <1>6, <1>7 DEF IInv

\* A write that found the app gone, or a failed one: only an answer.
LEMMA AnswerStep ==
  ASSUME IInv, NEW r \in Request, NEW outcome \in Result, Answer(r, outcome),
         UNCHANGED <<permission, appLive, call, locked, taken, seen, held>>
  PROVE  IInv'
<1>0. TypeOK
  BY DEF IInv
<1>1. pc' = [pc EXCEPT ![r] = "answered"] /\ result' = [result EXCEPT ![r] = outcome]
  BY DEF Answer
<1>2. TypeOK'
  BY <1>0, <1>1 DEF TypeOK, PC
<1>3. ControlOK' /\ ChecksOK' /\ LocksOK' /\ MetOK'
  BY <1>0, <1>1 DEF IInv, TypeOK, ControlOK, ChecksOK, LocksOK, MetOK, Holds, Active, Past, Leaves,
                    Actor, Target
<1> QED  BY <1>2, <1>3 DEF IInv

\* The table Promote writes.
LEMMA PromotedTable ==
  ASSUME IInv, NEW r \in Request, pc[r] = "promote"
  PROVE  /\ Promoted(r) \in [Account -> Level]
         /\ Promoted(r)[Target(r)] = "Owner"
         /\ \A a \in Account \ {Target(r)} :
              Promoted(r)[a] = IF a = Actor(r) /\ locked[r] # "None"
                               THEN "Collaborator" ELSE permission[a]
<1>1. TypeOK /\ Target(r) \in Account /\ Actor(r) \in Account
  BY CallType DEF IInv, ControlOK
<1> QED  BY <1>1 DEF Promoted, Demoted, TypeOK, Level

LEMMA PromoteStep ==
  ASSUME IInv, NEW r \in Request, Promote(r)
  PROVE  IInv'
<1>0. /\ TypeOK /\ pc[r] = "promote" /\ Free(r, Target(r))
      /\ UNCHANGED <<appLive, call, locked, taken, seen>>
  BY DEF IInv, Promote, MayWrite
<1>1. CASE appLive
  <2>1. Write(Promoted(r)) /\ \E outcome \in Result : Answer(r, outcome)
    BY <1>1 DEF Promote, Outcome, Result
  <2>2. \A q \in Request \ {r} : \A a \in Account :
          Holds(q, a) => Promoted(r)[a] = permission[a]
    <3> SUFFICES ASSUME NEW q \in Request \ {r}, NEW a \in Account, Holds(q, a)
                 PROVE  Promoted(r)[a] = permission[a]
      OBVIOUS
    <3>1. a # Target(r)
      BY <1>0 DEF Free
    <3>2. ~(a = Actor(r) /\ locked[r] # "None")
      BY <1>0 DEF IInv, LocksOK
    <3> QED  BY <1>0, <3>1, <3>2, PromotedTable
  <2>3. Active(r) /\ appLive' \in BOOLEAN /\ Promoted(r) \in [Account -> Level]
    BY <1>0, PromotedTable DEF Active, TypeOK
  <2> QED  BY <1>0, <2>1, <2>2, <2>3, WriteStep
<1>2. CASE ~appLive
  BY <1>0, <1>2, AnswerStep DEF Promote, Result
<1> QED  BY <1>1, <1>2

LEMMA UpsertStep ==
  ASSUME IInv, NEW r \in Request, Upsert(r)
  PROVE  IInv'
<1>0. /\ TypeOK /\ pc[r] = "upsert" /\ Free(r, Target(r))
      /\ Target(r) \in Account /\ UNCHANGED <<appLive, call, locked, taken, seen>>
  BY DEF IInv, Upsert, ControlOK, MayWrite
<1> DEFINE table == [permission EXCEPT ![Target(r)] = "Collaborator"]
<1>1. CASE appLive
  <2>1. Write(table) /\ \E outcome \in Result : Answer(r, outcome)
    BY <1>1 DEF Upsert, Added, Outcome, Result
  <2>2. Active(r) /\ appLive' \in BOOLEAN /\ table \in [Account -> Level]
    BY <1>0 DEF Active, TypeOK, Level
  <2>3. \A q \in Request \ {r} : \A a \in Account : Holds(q, a) => table[a] = permission[a]
    BY <1>0 DEF Free, TypeOK
  <2> QED  BY <1>0, <2>1, <2>2, <2>3, WriteStep
<1>2. CASE ~appLive
  BY <1>0, <1>2, AnswerStep DEF Upsert, Result
<1> QED  BY <1>1, <1>2

LEMMA DeleteRowStep ==
  ASSUME IInv, NEW r \in Request, DeleteRow(r)
  PROVE  IInv'
<1>0. /\ TypeOK /\ pc[r] = "deleteRow" /\ Free(r, Target(r))
      /\ Target(r) \in Account /\ UNCHANGED <<appLive, call, locked, taken, seen>>
  BY DEF IInv, DeleteRow, ControlOK
<1> DEFINE table == [permission EXCEPT ![Target(r)] = "None"]
<1>1. Write(table) /\ \E outcome \in Result : Answer(r, outcome)
  BY DEF DeleteRow, Outcome, Result
<1>2. Active(r) /\ appLive' \in BOOLEAN /\ table \in [Account -> Level]
  BY <1>0 DEF Active, TypeOK, Level
<1>3. \A q \in Request \ {r} : \A a \in Account : Holds(q, a) => table[a] = permission[a]
  BY <1>0 DEF Free, TypeOK
<1> QED  BY <1>0, <1>1, <1>2, <1>3, WriteStep

\* The deletion waits for no collaborator's row before it has the app's.
LEMMA DeleteAppStep ==
  ASSUME IInv, NEW r \in Request, DeleteApp(r)
  PROVE  IInv'
<1>0. TypeOK
  BY DEF IInv
<1>1. CASE ~appLive
  BY <1>1, AnswerStep DEF DeleteApp, Result
<1>2. CASE appLive
  <2>1. /\ UNCHANGED <<permission, appLive, call, result, locked, seen, held>>
        /\ pc[r] = "deleteApp" /\ pc' = [pc EXCEPT ![r] = "cascade"] /\ taken' = {}
    BY <1>2 DEF DeleteApp, Goto
  <2>2. TypeOK'
    BY <1>0, <2>1 DEF TypeOK, PC
  <2>3. ControlOK' /\ ChecksOK'
    BY <1>0, <2>1 DEF IInv, TypeOK, ControlOK, ChecksOK, Active, Past, Leaves, Actor, Target
  <2>4. LocksOK' /\ MetOK'
    BY <1>0, <2>1 DEF IInv, TypeOK, LocksOK, MetOK, Holds, Actor
  <2> QED  BY <2>2, <2>3, <2>4 DEF IInv
<1> QED  BY <1>1, <1>2

\* The deletion locks one more row, or commits.
CascadeGoesOn(r) ==
    /\ pc[r] = "cascade"
    /\ \E a \in Members \ taken : Free(r, a) /\ taken' = taken \cup {a}
    /\ UNCHANGED <<permission, appLive, pc, call, result, locked, seen, held>>
CascadeEnds(r) ==
    /\ pc[r] = "cascade"
    /\ Members \subseteq taken
    /\ appLive' = FALSE
    /\ Write([a \in Account |-> "None"])
    /\ \E outcome \in Outcome : Answer(r, outcome)
    /\ UNCHANGED <<call, locked, taken, seen>>

LEMMA CascadeCases ==
  ASSUME NEW r \in Request
  PROVE  Cascade(r) <=> CascadeGoesOn(r) \/ CascadeEnds(r)
  BY DEF Cascade, CascadeGoesOn, CascadeEnds

LEMMA CascadeGoesOnStep ==
  ASSUME IInv, NEW r \in Request, CascadeGoesOn(r)
  PROVE  IInv'
<1>0. TypeOK /\ pc[r] = "cascade"
      /\ UNCHANGED <<permission, appLive, pc, call, result, locked, seen, held>>
  BY DEF IInv, CascadeGoesOn
<1>1. PICK a \in Members \ taken : Free(r, a) /\ taken' = taken \cup {a}
  BY DEF CascadeGoesOn
<1>2. TypeOK'
  BY <1>0, <1>1 DEF TypeOK, Members
<1>3. ControlOK' /\ ChecksOK' /\ MetOK'
  BY <1>0 DEF IInv, ControlOK, ChecksOK, MetOK, Active, Past, Leaves, Actor, Target
<1>4. LocksOK'
  <2> SUFFICES ASSUME NEW q \in Request, pc[q] = "promote", locked[q] # "None"
               PROVE  /\ permission[Actor(q)] = locked[q]
                      /\ \A o \in Request \ {q} :
                           /\ ~(pc[o] = "promote" /\ locked[o] # "None" /\ Actor(o) = Actor(q))
                           /\ ~(pc[o] = "cascade" /\ Actor(q) \in taken \cup {a})
    BY <1>0, <1>1 DEF LocksOK, Holds, Actor
  <2>1. Actor(q) # a
    BY <1>0, <1>1 DEF Free, Holds
  <2> QED  BY <2>1 DEF IInv, LocksOK, Holds
<1> QED  BY <1>2, <1>3, <1>4 DEF IInv

LEMMA CascadeEndsStep ==
  ASSUME IInv, NEW r \in Request, CascadeEnds(r)
  PROVE  IInv'
<1>0. /\ TypeOK /\ pc[r] = "cascade" /\ Members \subseteq taken
      /\ appLive' = FALSE /\ UNCHANGED <<call, locked, taken, seen>>
  BY DEF IInv, CascadeEnds
<1> DEFINE table == [a \in Account |-> "None"]
<1>1. Write(table) /\ \E outcome \in Result : Answer(r, outcome)
  BY DEF CascadeEnds, Outcome, Result
<1>2. Active(r) /\ appLive' \in BOOLEAN /\ table \in [Account -> Level]
  BY <1>0 DEF Active, Level
<1>3. ASSUME NEW q \in Request \ {r}, NEW a \in Account, pc[q] = "promote", Holds(q, a)
      PROVE  FALSE
  <2>1. a = Actor(q) /\ permission[a] # "None" /\ ~Holds(r, a)
    BY <1>3 DEF Holds, IInv, LocksOK
  <2> QED  BY <1>0, <2>1 DEF Holds, Members
<1> QED  BY <1>0, <1>1, <1>2, <1>3, WriteStep

LEMMA NextIInv == IInv /\ [Next]_vars => IInv'
<1> SUFFICES ASSUME IInv, [Next]_vars PROVE IInv'
  OBVIOUS
<1>1. CASE UNCHANGED vars
  BY <1>1 DEF vars, IInv, TypeOK, ControlOK, ChecksOK, LocksOK, MetOK, Holds, Active, Past, Leaves,
              Actor, Target
<1>2. ASSUME NEW r \in Request, Begin(r) \/ Step(r) \/ Fail(r)
      PROVE  IInv'
  BY <1>2, ReadStep, DemoteStep, PromoteStep, UpsertStep, DeleteRowStep, DeleteAppStep,
     CascadeCases, CascadeGoesOnStep, CascadeEndsStep
     DEF Step, ReadAction
<1> QED  BY <1>1, <1>2 DEF Next

-----------------------------------------------------------------------------
(* The theorems *)

\* The inductive invariant holds in every reachable state.
THEOREM Invariance == Spec => []IInv
  BY InitIInv, NextIInv, PTL DEF Spec

\* Every reachable state is well typed.
THEOREM TypeCorrect == Spec => []TypeOK
<1>1. IInv => TypeOK
  BY DEF IInv
<1> QED  BY <1>1, Invariance, PTL

\* Which steps change a permission.
LEMMA OnlyWritesChange ==
  ASSUME IInv, Next, permission' # permission
  PROVE  \E r \in Request : Promote(r) \/ Upsert(r) \/ DeleteRow(r) \/ CascadeEnds(r)
  BY CascadeCases DEF CascadeGoesOn, DeleteApp, Next, Step, Begin, Fail, FindApp, MayOwn,
     ReadCollaborators, FindAccount, Demote

LEMMA WritesCommit ==
  ASSUME IInv, NEW r \in Request, Promote(r) \/ Upsert(r) \/ DeleteRow(r) \/ CascadeEnds(r)
  PROVE  Commits(r)
<1>1. TypeOK
  BY DEF IInv
<1>2. pc'[r] = "answered"
  BY <1>1 DEF Promote, Upsert, DeleteRow, CascadeEnds, Answer, TypeOK
<1> QED  BY <1>2 DEF Commits, Promote, Upsert, DeleteRow, CascadeEnds

\* An owner comes only in the place of the owner who transferred the app, or
\* through a Transfer whose actor had lost it before.
THEOREM OwnersAreReplaced == Spec => NewOwnerReplacesOwner
<1> DEFINE Replaces ==
      \A a \in Owners' \ Owners :
        \E r \in Request :
            /\ Commits(r) /\ call[r].op = "transfer" /\ Target(r) = a
            /\ locked[r] = "Owner" => Actor(r) \in Owners \ Owners'
<1>1. IInv /\ [Next]_vars => [Replaces]_vars
  <2> SUFFICES ASSUME IInv, Next, NEW a \in Account, a \in Owners', a \notin Owners
               PROVE  \E r \in Request :
                        /\ Commits(r) /\ call[r].op = "transfer" /\ Target(r) = a
                        /\ locked[r] = "Owner" => Actor(r) \in Owners \ Owners'
    BY DEF Owners
  <2>1. permission'[a] = "Owner" /\ permission[a] # "Owner" /\ TypeOK
    BY DEF Owners, IInv
  <2>2. PICK r \in Request : Promote(r) \/ Upsert(r) \/ DeleteRow(r) \/ CascadeEnds(r)
    BY <2>1, OnlyWritesChange
  <2>3. CASE Promote(r)
    <3>1. pc[r] = "promote" /\ call[r].op = "transfer" /\ permission' = Promoted(r)
      BY <2>1, <2>3 DEF Promote, Write, IInv, ControlOK
    <3>2. a = Target(r)
      BY <2>1, <3>1, PromotedTable
    <3>3. locked[r] = "Owner" => Actor(r) \in Owners \ Owners'
      <4> SUFFICES ASSUME locked[r] = "Owner" PROVE Actor(r) \in Owners \ Owners'
        OBVIOUS
      <4>1. Actor(r) \in Account /\ permission[Actor(r)] = "Owner"
        BY <2>1, <3>1, CallType DEF IInv, LocksOK
      <4>2. Actor(r) # Target(r)
        BY <2>1, <3>2, <4>1
      <4>3. permission'[Actor(r)] = "Collaborator"
        BY <3>1, <4>1, <4>2, PromotedTable
      <4> QED  BY <4>1, <4>3 DEF Owners
    <3> QED  BY <2>3, <3>1, <3>2, <3>3, WritesCommit
  <2>4. CASE Upsert(r) \/ DeleteRow(r) \/ CascadeEnds(r)
    <3>1. Target(r) \in Account \/ CascadeEnds(r)
      BY <2>4 DEF Upsert, DeleteRow, IInv, ControlOK
    <3> QED  BY <2>1, <2>4, <3>1 DEF Upsert, Added, DeleteRow, CascadeEnds, Write, TypeOK
  <2> QED  BY <2>2, <2>3, <2>4
<1> QED  BY <1>1, Invariance, PTL DEF Spec, NewOwnerReplacesOwner

\* An app loses its last owner only by a request about the actor himself or
\* one checked for a permission the actor has no more.
THEOREM OrphansExplained == Spec => OrphanedOnlyBySelfOrStaleCheck
<1> DEFINE Explained ==
      Owners # {} /\ Owners' = {} /\ appLive' =>
        \E r \in Request :
            /\ Commits(r) /\ call[r].op \in {"add", "remove"}
            /\ Target(r) = Actor(r) \/ permission[Actor(r)] # seen[r]
<1>1. IInv /\ [Next]_vars => [Explained]_vars
  <2> SUFFICES ASSUME IInv, Next, NEW o \in Owners, Owners' = {}, appLive'
               PROVE  \E r \in Request :
                        /\ Commits(r) /\ call[r].op \in {"add", "remove"}
                        /\ Target(r) = Actor(r) \/ permission[Actor(r)] # seen[r]
    BY DEF vars
  <2>1. /\ TypeOK /\ o \in Account /\ permission[o] = "Owner"
        /\ \A a \in Account : permission'[a] # "Owner"
    BY DEF Owners, IInv
  <2>2. PICK r \in Request : Promote(r) \/ Upsert(r) \/ DeleteRow(r) \/ CascadeEnds(r)
    BY <2>1, OnlyWritesChange
  <2>3. ~Promote(r)
    <3> SUFFICES ASSUME Promote(r) PROVE FALSE
      OBVIOUS
    <3>1. pc[r] = "promote" /\ Target(r) \in Account /\ appLive
      BY DEF Promote, IInv, ControlOK
    <3>2. permission' = Promoted(r)
      BY <3>1 DEF Promote, Write
    <3> QED  BY <2>1, <3>1, <3>2, PromotedTable
  <2>4. ~CascadeEnds(r)
    BY DEF CascadeEnds
  <2>5. CASE Upsert(r) \/ DeleteRow(r)
    <3>1. call[r].op \in {"add", "remove"} /\ Target(r) \in Account /\ Actor(r) \in Account
      BY <2>1, <2>5, CallType DEF Upsert, DeleteRow, IInv, ControlOK
    <3>2. Target(r) = Actor(r) \/ permission[Actor(r)] # seen[r]
      <4> SUFFICES ASSUME Target(r) # Actor(r), permission[Actor(r)] = seen[r] PROVE FALSE
        OBVIOUS
      <4>1. seen[r] = "Owner"
        BY <2>5 DEF Upsert, DeleteRow, IInv, ChecksOK, Past, Leaves
      <4>2. permission'[Actor(r)] = permission[Actor(r)]
        BY <2>1, <2>5, <3>1 DEF Upsert, Added, DeleteRow, Write, TypeOK
      <4> QED  BY <2>1, <3>1, <4>1, <4>2
    <3> QED  BY <2>5, <3>1, <3>2, WritesCommit
  <2> QED  BY <2>2, <2>3, <2>4, <2>5
<1> QED  BY <1>1, Invariance, PTL DEF Spec, OrphanedOnlyBySelfOrStaleCheck

\* Permissions change by the will of an owner of the moment, or of the leaver.
THEOREM ChangesAreAuthorized == Spec => MembershipAuthority
<1> DEFINE Authorized ==
      permission' # permission =>
        \E r \in Request :
            /\ Commits(r)
            /\ "Owner" \in held[r] \/ (call[r].op = "remove" /\ Target(r) = Actor(r))
<1>1. IInv /\ [Next]_vars => [Authorized]_vars
  <2> SUFFICES ASSUME IInv, Next, permission' # permission
               PROVE  \E r \in Request :
                        /\ Commits(r)
                        /\ "Owner" \in held[r] \/ (call[r].op = "remove" /\ Target(r) = Actor(r))
    BY DEF vars
  <2>1. PICK r \in Request : Promote(r) \/ Upsert(r) \/ DeleteRow(r) \/ CascadeEnds(r)
    BY OnlyWritesChange
  <2>2. pc[r] \in Past
    BY <2>1 DEF Promote, Upsert, DeleteRow, CascadeEnds, Past
  <2> QED  BY <2>1, <2>2, WritesCommit DEF IInv, ChecksOK, Leaves
<1> QED  BY <1>1, Invariance, PTL DEF Spec, MembershipAuthority

-----------------------------------------------------------------------------
(* How an app comes to have two owners *)

\* A transfer that was overtaken, or one owner at most.
OneOwnerOrOvertaken ==
    (\E r \in Request : Overtaken(r)) \/ (\A a, b \in Owners : a = b)

\* What an answered request did stays as it was.
LEMMA OvertakenStays ==
  ASSUME IInv, [Next]_vars, NEW r \in Request, Overtaken(r)
  PROVE  Overtaken(r)'
<1>1. TypeOK /\ pc[r] = "answered"
  BY DEF IInv, Overtaken
<1> DEFINE Same == /\ pc'[r] = pc[r] /\ call' = call /\ seen'[r] = seen[r]
                   /\ locked'[r] = locked[r] /\ held'[r] = held[r]
<1>2. Same
  <2>1. CASE UNCHANGED vars
    BY <2>1 DEF vars
  <2>2. ASSUME NEW q \in Request, ReadAction(q)
        PROVE  Same
    <3>1. q # r
      BY <1>1, <2>2 DEF ReadAction, Begin, FindApp, MayOwn, ReadCollaborators, FindAccount, Fail,
                        Goto, Active
    <3> QED  BY <1>1, <2>2, <3>1, ReadStepEffect DEF Answer, TypeOK
  <2>3. ASSUME NEW q \in Request, Demote(q) \/ DeleteApp(q) \/ CascadeGoesOn(q)
        PROVE  Same
    BY <1>1, <2>3 DEF Demote, DeleteApp, CascadeGoesOn, Goto, Answer, TypeOK
  <2>4. ASSUME NEW q \in Request, Promote(q) \/ Upsert(q) \/ DeleteRow(q) \/ CascadeEnds(q)
        PROVE  Same
    <3>1. q # r /\ UNCHANGED <<call, seen, locked>> /\ \E outcome : Answer(q, outcome)
      BY <1>1, <2>4 DEF Promote, Upsert, DeleteRow, CascadeEnds
    <3>2. UNCHANGED held \/ \E table : Write(table)
      BY <2>4 DEF Promote, Upsert, DeleteRow, CascadeEnds
    <3> QED  BY <1>1, <3>1, <3>2 DEF Write, Answer, Active, TypeOK
  <2> QED  BY <2>1, <2>2, <2>3, <2>4, CascadeCases DEF Next, Step, ReadAction
<1> QED  BY <1>2 DEF Overtaken

\* No step but an overtaken Transfer makes a second owner.
LEMMA SecondOwnerStep ==
  ASSUME IInv, OneOwnerOrOvertaken, [Next]_vars
  PROVE  OneOwnerOrOvertaken'
<1>1. CASE \E r \in Request : Overtaken(r)
  BY <1>1, OvertakenStays DEF OneOwnerOrOvertaken
<1>2. CASE permission' = permission /\ \A a, b \in Owners : a = b
  BY <1>2 DEF OneOwnerOrOvertaken, Owners
<1>3. CASE permission' # permission /\ \A a, b \in Owners : a = b
  <2>0. TypeOK /\ Next
    BY <1>3 DEF IInv, vars
  <2>1. PICK r \in Request : Promote(r) \/ Upsert(r) \/ DeleteRow(r) \/ CascadeEnds(r)
    BY <1>3, <2>0, OnlyWritesChange
  <2>2. CASE Upsert(r) \/ DeleteRow(r) \/ CascadeEnds(r)
    <3>1. Target(r) \in Account \/ CascadeEnds(r)
      BY <2>2 DEF Upsert, DeleteRow, IInv, ControlOK
    <3>2. Owners' \subseteq Owners
      BY <1>3, <2>0, <2>2, <3>1
         DEF Owners, Upsert, Added, DeleteRow, CascadeEnds, Write, TypeOK
    <3> QED  BY <1>3, <3>2 DEF OneOwnerOrOvertaken
  <2>3. CASE Promote(r)
    <3>1. /\ pc[r] = "promote" /\ call[r].op = "transfer" /\ permission' = Promoted(r)
          /\ Target(r) \in Account /\ Actor(r) \in Account
      BY <1>3, <2>0, <2>3, CallType DEF Promote, Write, IInv, ControlOK
    <3>2. CASE locked[r] = "Owner"
      <4>1. permission[Actor(r)] = "Owner"
        BY <3>1, <3>2 DEF IInv, LocksOK
      <4>2. \A a \in Account \ {Target(r)} : permission'[a] # "Owner"
        BY <1>3, <3>1, <3>2, <4>1, PromotedTable DEF Owners
      <4> QED  BY <4>2 DEF OneOwnerOrOvertaken, Owners
    <3>3. CASE locked[r] # "Owner"
      <4>1. seen[r] = "Owner" /\ locked[r] \in held[r]
        BY <3>1 DEF IInv, ChecksOK, MetOK, Past, Leaves
      <4>2. pc'[r] = "answered" /\ UNCHANGED <<call, seen, locked>> /\ held[r] \subseteq held'[r]
        BY <1>3, <2>0, <2>3 DEF Promote, Answer, Write, TypeOK
      <4>3. Overtaken(r)'
        BY <3>1, <3>3, <4>1, <4>2 DEF Overtaken
      <4> QED  BY <4>3 DEF OneOwnerOrOvertaken
    <3> QED  BY <3>2, <3>3
  <2> QED  BY <2>1, <2>2, <2>3
<1> QED  BY <1>1, <1>2, <1>3 DEF OneOwnerOrOvertaken

\* As long as no transfer was overtaken by a change of its actor's own row,
\* the app has one owner at most.
THEOREM SecondOwnerExplained == Spec => []TwoOwnersOnlyByOverlap
<1>1. Init => OneOwnerOrOvertaken
  BY DEF Init, OneOwnerOrOvertaken, Owners
<1>2. OneOwnerOrOvertaken => TwoOwnersOnlyByOverlap
  BY DEF OneOwnerOrOvertaken, TwoOwnersOnlyByOverlap
<1> QED  BY <1>1, <1>2, SecondOwnerStep, Invariance, PTL DEF Spec

-----------------------------------------------------------------------------
(* Why transactions come to wait for each other in a circle *)

\* Who is waited for holds a row, or is the deletion.
LEMMA WaitedForHolds ==
  ASSUME NEW r \in Request, NEW q \in Request, WaitsFor(r, q)
  PROVE  pc[q] = "cascade" \/ (pc[q] = "promote" /\ locked[q] # "None")
  BY DEF WaitsFor, Holds

\* Two transfers that hold rows hold those of two accounts, and there cannot
\* have been two owners before a check went stale.
LEMMA CirclesExplained == IInv /\ OneOwnerOrOvertaken => DeadlocksExplained
<1> SUFFICES ASSUME IInv, OneOwnerOrOvertaken, NEW C \in SUBSET Request, Circle(C),
                    \A r \in C : pc[r] # "cascade" /\ ~StaleCheck(r)
             PROVE  \E r \in Request : Overtaken(r)
  BY DEF DeadlocksExplained
<1>1. PICK r \in C : \E q \in C : WaitsFor(r, q)
  BY DEF Circle
<1>2. PICK q \in C : WaitsFor(r, q)
  BY <1>1
<1>3. PICK o \in C : WaitsFor(q, o)
  BY DEF Circle
<1>4. q # o /\ \A t \in {q, o} : t \in Request /\ pc[t] = "promote" /\ locked[t] # "None"
  BY <1>2, <1>3, WaitedForHolds DEF WaitsFor
<1>5. Actor(q) # Actor(o)
  BY <1>4 DEF IInv, LocksOK, Holds
<1>6. ASSUME NEW t \in {q, o}
      PROVE  Actor(t) \in Owners
  <2>1. seen[t] = "Owner"
    BY <1>4 DEF IInv, ControlOK, ChecksOK, Past, Leaves
  <2>2. locked[t] = "Owner"
    BY <1>4, <2>1 DEF StaleCheck
  <2>3. Actor(t) \in Account
    BY <1>4, CallType DEF IInv
  <2> QED  BY <1>4, <2>2, <2>3 DEF IInv, LocksOK, Owners
<1> QED  BY <1>5, <1>6 DEF OneOwnerOrOvertaken

\* A circle of waiting transactions needs the deletion of the app or an owner
\* check that was no longer true when its transaction began.
THEOREM DeadlocksNeedDeletionOrStaleCheck == Spec => []DeadlocksExplained
<1>1. Init => OneOwnerOrOvertaken
  BY DEF Init, OneOwnerOrOvertaken, Owners
<1> QED  BY <1>1, SecondOwnerStep, CirclesExplained, Invariance, PTL DEF Spec

-----------------------------------------------------------------------------
(* Why no request runs for ever *)

\* The statements a request has before it, at most.
Remaining ==
    [idle |-> 7, findApp |-> 6, readCollaborators |-> 5, mayOwn |-> 4, findAccount |-> 3,
     demote |-> 2, promote |-> 1, upsert |-> 1, deleteRow |-> 1, deleteApp |-> 2,
     cascade |-> 1, answered |-> 0]

\* No statement is tried again: each step takes one request, and brings it
\* nearer to its answer, or the deletion to the end of its rows.
TakesOneMore(r) ==
    pc[r] = "cascade" /\ pc'[r] = "cascade" /\ \E a \in Account \ taken : taken' = taken \cup {a}
EveryStepCounts ==
    [][\E r \in Request :
        /\ Remaining[pc'[r]] < Remaining[pc[r]] \/ TakesOneMore(r)
        /\ \A q \in Request \ {r} : pc'[q] = pc[q]]_vars

THEOREM RequestsAdvance == Spec => EveryStepCounts
<1> DEFINE Counts ==
      \E r \in Request :
        /\ Remaining[pc'[r]] < Remaining[pc[r]] \/ TakesOneMore(r)
        /\ \A q \in Request \ {r} : pc'[q] = pc[q]
<1>1. IInv /\ [Next]_vars => [Counts]_vars
  <2> SUFFICES ASSUME IInv, NEW r \in Request, Begin(r) \/ Step(r) \/ Fail(r)
               PROVE  /\ Remaining[pc'[r]] < Remaining[pc[r]] \/ TakesOneMore(r)
                      /\ \A q \in Request \ {r} : pc'[q] = pc[q]
    BY DEF Next
  <2>0. TypeOK
    BY DEF IInv
  <2>1. CASE Active(r) /\ pc' = [pc EXCEPT ![r] = "answered"]
    BY <2>0, <2>1 DEF Active, Remaining, TypeOK, PC
  <2>2. CASE ReadAction(r) /\ ~(Active(r) /\ pc' = [pc EXCEPT ![r] = "answered"])
    BY <2>0, <2>2, ReadStepEffect
       DEF ReadAction, Begin, FindApp, MayOwn, ReadCollaborators, FindAccount, Fail, Goto, Active,
           Answer, Remaining, TypeOK
  <2>3. CASE Demote(r) \/ (DeleteApp(r) /\ appLive)
    BY <2>0, <2>3 DEF Demote, DeleteApp, Goto, Remaining, TypeOK
  <2>4. CASE Promote(r) \/ Upsert(r) \/ DeleteRow(r) \/ CascadeEnds(r) \/ (DeleteApp(r) /\ ~appLive)
    <3>1. Active(r) /\ pc' = [pc EXCEPT ![r] = "answered"]
      BY <2>4 DEF Promote, Upsert, DeleteRow, CascadeEnds, DeleteApp, Active, Answer
    <3> QED  BY <2>1, <3>1
  <2>5. CASE CascadeGoesOn(r)
    BY <2>5 DEF CascadeGoesOn, TakesOneMore, Members
  <2> QED  BY <2>1, <2>2, <2>3, <2>4, <2>5, CascadeCases DEF Step, ReadAction
<1> QED  BY <1>1, Invariance, PTL DEF Spec, EveryStepCounts
=============================================================================
