--------------------------- MODULE DeploymentsProofs ---------------------------
(* Deployments over any deployments, keys and requests: the invariant behind    *)
(* its properties, and the properties.                                          *)
EXTENDS Deployments, TLAPS

Inserting(r) == pc[r] = "insert"

\* What a request that creates a deployment, and its answer, are about.
CreateOf(r) ==
    /\ pc[r] = "idle" => attempt[r] = 0
    /\ pc[r] \in {"draw", "insert"} => call[r].op = "create" /\ attempt[r] < MaxAttempts
    /\ pc[r] = "draw" => call[r].key = NoKey
    /\ pc[r] = "find" => call[r].op # "create"
    /\ pc[r] \in {"update", "reread"} => call[r].op = "rename"
    /\ pc[r] \in {"delete", "clear"} => call[r].op # "rename"
    /\ Inserting(r) => token[r] \in (IF call[r].key = NoKey THEN Generated \cap drawn ELSE Given)
    /\ collided[r] <= attempt[r]
    /\ named[r] \/ collided[r] = attempt[r] \/ call[r].key # NoKey
    /\ result[r] = "conflict" /\ call[r].key = NoKey => attempt[r] = MaxAttempts

\* The row a request has read is as it was, or others have touched it.
TargetOf(r) ==
    /\ result[r] # "none" => pc[r] = "answered"
    /\ pc[r] \in {"update", "reread", "delete", "clear"} => target[r] \in Deployment
    /\ target[r] \in Deployment => key[target[r]] \in Key
    /\ pc[r] = "update" => touched[r] \/ name[target[r]] = call[r].name
    /\ pc[r] = "reread" => touched[r] \/ name[target[r]] = NewName(r)
    /\ pc[r] = "clear" => readKey[r] = key[target[r]] /\ (touched[r] \/ target[r] \in Live)
    /\ call[r].op = "rename" /\ result[r] = "ok" /\ got[r] # target[r] => touched[r]

\* A generated key that was drawn once is the key of one row, ever.
KeysOK ==
    /\ \A d \in Deployment : key[d] \in Generated => key[d] \in drawn
    /\ \A d, e \in Deployment : d # e /\ key[d] = key[e] /\ key[d] \in Generated => key[d] \in twins
    /\ \A r \in Request : \A d \in Deployment :
         Inserting(r) /\ token[r] \in Generated \ twins => key[d] # token[r]
    /\ \A r, q \in Request :
         r # q /\ Inserting(r) /\ Inserting(q) /\ token[r] \in Generated \ twins => token[q] # token[r]

\* Under a key are the reports for rows that have it, or had it.
CountersOK ==
    /\ \A k \in Key : \A e \in counters[k] : e = NoDeployment \/ key[e] = k
    /\ \A k \in Generated \ twins : NoDeployment \in counters[k] =>
         Holders(k) = {} /\ \E d \in Deployment : key[d] = k

RequestsOK == \A r \in Request : CreateOf(r) /\ TargetOf(r)
IInv == Types /\ RequestsOK /\ Unique /\ KeysOK /\ CountersOK

LEMMA InitIInv == Init => IInv
<1> SUFFICES ASSUME Init PROVE IInv
  OBVIOUS
<1> USE StartAssumption, KeysAssumption, NothingAssumption DEF Init
<1>1. Types
  <2>1. \A d \in Live : key[d] \in Key
    BY DEF Live
  <2>2. 0 \in 0..MaxAttempts
    BY DEF MaxAttempts
  <2> QED  BY <2>1, <2>2 DEF Types, PC, Result
<1>2. RequestsOK
  BY DEF RequestsOK, CreateOf, TargetOf, Inserting, MaxAttempts
<1>3. Unique
  BY DEF Unique, Live
<1>4. KeysOK /\ CountersOK
  BY DEF KeysOK, CountersOK, Inserting, Key
<1> QED  BY <1>1, <1>2, <1>3, <1>4 DEF IInv

-----------------------------------------------------------------------------
(* Steps of a request that change nothing but the request *)

LEMMA CallType ==
  ASSUME Types, NEW r \in Request
  PROVE  /\ call[r].op \in Op /\ call[r].name \in Name /\ call[r].new \in Name \cup {NoName}
         /\ call[r].key \in Key \cup {NoKey}
         /\ call[r].op = "create" => call[r].key \in Given \cup {NoKey}
         /\ NewName(r) \in Name
BY CallsAssumption DEF Types, Call, NewName, Key

\* The request moves, and no other starts to insert.
Still(r) ==
    /\ UNCHANGED <<tables, counters, call, drawn, twins>>
    /\ \A q \in Request \ {r} :
         /\ UNCHANGED <<pc[q], result[q], target[q], readKey[q], token[q], attempt[q], got[q]>>
         /\ UNCHANGED <<named[q], collided[q], touched[q]>>

LEMMA StillOthers ==
  ASSUME IInv, NEW r \in Request, Still(r)
  PROVE  Unique' /\ \A q \in Request \ {r} : CreateOf(q)' /\ TargetOf(q)'
<1>1. Unique'
  BY DEF IInv, Still, tables, Unique, Live
<1>2. ASSUME NEW q \in Request \ {r} PROVE CreateOf(q)' /\ TargetOf(q)'
  BY <1>2 DEF IInv, Still, tables, RequestsOK, CreateOf, TargetOf, Inserting, NewName, Live
<1> QED  BY <1>1, <1>2

LEMMA StillKeys ==
  ASSUME IInv, NEW r \in Request, Still(r), ~Inserting(r)' \/ (Inserting(r) /\ token'[r] = token[r])
  PROVE  KeysOK' /\ CountersOK'
<1>1. \A q \in Request : Inserting(q)' => Inserting(q) /\ token'[q] = token[q]
  BY DEF Still, Inserting
<1>2. KeysOK'
  BY <1>1 DEF IInv, Still, tables, KeysOK
<1>3. CountersOK'
  BY DEF IInv, Still, tables, CountersOK, Holders, Live
<1> QED  BY <1>2, <1>3

LEMMA BeginStep ==
  ASSUME IInv, NEW r \in Request, Begin(r)
  PROVE  IInv'
<1> USE DEF Begin, Goto
<1>1. Types /\ Start(r) \in {"draw", "insert", "find"}
  BY CallType DEF IInv, Start, First, Op
<1>2. Types'
  BY <1>1, CallType DEF Types, PC, tables, locals, history, Live
<1>3. Still(r)
  BY <1>1 DEF Still, Types, history
<1>4. pc'[r] = Start(r) /\ token'[r] = call[r].key
  BY <1>1 DEF Types
<1>5. Start(r) = "draw" <=> call[r].op = "create" /\ call[r].key = NoKey
  BY CallType, <1>1 DEF Start, First, Op
<1>6. Start(r) = "insert" <=> call[r].op = "create" /\ call[r].key # NoKey
  BY CallType, <1>1 DEF Start, First, Op
<1>7. CreateOf(r)'
  BY <1>1, <1>4, <1>5, <1>6, CallType DEF IInv, RequestsOK, CreateOf, Inserting, MaxAttempts, history
<1>8. TargetOf(r)'
  BY <1>1, <1>4 DEF IInv, RequestsOK, TargetOf, tables, history
<1>9. KeysOK' /\ CountersOK'
  <2>1. \A q \in Request : Inserting(q)' /\ token'[q] \in Generated => Inserting(q) /\ token'[q] = token[q]
    BY <1>1, <1>3, <1>4, <1>6, CallType, KeysAssumption DEF Still, Inserting
  <2>2. KeysOK'
    <3>1. ASSUME NEW p \in Request, NEW q \in Request, p # q, Inserting(p)', Inserting(q)',
                 token'[p] \in Generated \ twins
          PROVE  token'[q] # token'[p]
      <4>1. CASE q = r
        BY <1>4, <1>6, <3>1, <4>1, CallType, <1>1, KeysAssumption DEF Inserting
      <4>2. CASE q # r
        <5>1. Inserting(q) /\ token'[q] = token[q]
          BY <1>3, <4>2, <3>1 DEF Still, Inserting
        <5> QED  BY <2>1, <3>1, <5>1 DEF IInv, KeysOK
      <4> QED  BY <4>1, <4>2
    <3> QED  BY <1>3, <2>1, <3>1 DEF IInv, Still, tables, KeysOK
  <2>3. CountersOK'
    BY DEF IInv, tables, history, CountersOK, Holders, Live
  <2> QED  BY <2>2, <2>3
<1> QED  BY <1>2, <1>3, <1>7, <1>8, <1>9, StillOthers DEF IInv, RequestsOK

LEMMA FailStep ==
  ASSUME IInv, NEW r \in Request, Fail(r)
  PROVE  IInv'
<1> USE DEF Fail, Answer
<1>1. Types
  BY DEF IInv
<1>2. Types'
  BY <1>1 DEF Types, PC, Result, tables, locals, history, Live
<1>3. Still(r)
  BY <1>1 DEF Still, Types, locals, history
<1>4. pc'[r] = "answered" /\ result'[r] = "error"
  BY <1>1 DEF Types
<1>5. CreateOf(r)' /\ TargetOf(r)'
  BY <1>4 DEF IInv, RequestsOK, CreateOf, TargetOf, Inserting, locals, history, tables
<1> QED  BY <1>2, <1>3, <1>4, <1>5, StillOthers, StillKeys DEF IInv, RequestsOK, Inserting

LEMMA RereadStep ==
  ASSUME IInv, NEW r \in Request, Reread(r)
  PROVE  IInv'
<1> USE DEF Reread, Answer
<1>1. Types
  BY DEF IInv
<1>2. Types'
  BY <1>1 DEF Types, PC, Result, tables, history, Live, Bearers
<1>3. Still(r)
  BY <1>1 DEF Still, Types, history
<1>4. pc'[r] = "answered" /\ result'[r] \in {"notFound", "ok"}
  BY <1>1 DEF Types
<1>5. result'[r] = "ok" => got'[r] \in Bearers(NewName(r))
  BY <1>1 DEF Types, Sought
<1>6. CreateOf(r)'
  BY <1>4 DEF IInv, RequestsOK, CreateOf, Inserting, history
<1>7. result'[r] = "ok" /\ got'[r] # target[r] => touched[r]
  BY <1>5, CallType, <1>1, NothingAssumption DEF IInv, RequestsOK, TargetOf, Unique, Bearers, Live
<1>8. TargetOf(r)'
  BY <1>4, <1>7 DEF IInv, RequestsOK, TargetOf, tables, history
<1> QED  BY <1>2, <1>3, <1>4, <1>6, <1>8, StillOthers, StillKeys DEF IInv, RequestsOK, Inserting

LEMMA FindStep ==
  ASSUME IInv, NEW r \in Request, Find(r)
  PROVE  IInv'
<1> USE DEF Find, Answer, Goto
<1>1. Types
  BY DEF IInv
<1>2. Still(r)
  BY <1>1 DEF Still, Types
<1>3. CASE pc' = [pc EXCEPT ![r] = "answered"] /\ result' = [result EXCEPT ![r] = "notFound"]
           /\ UNCHANGED <<target, readKey, touched>>
  <2>1. Types'
    BY <1>1, <1>3 DEF Types, PC, Result, tables, Live
  <2>2. pc'[r] = "answered" /\ result'[r] = "notFound"
    BY <1>1, <1>3 DEF Types
  <2>3. CreateOf(r)' /\ TargetOf(r)'
    BY <1>3, <2>2 DEF IInv, RequestsOK, CreateOf, TargetOf, Inserting, tables
  <2> QED  BY <1>2, <2>1, <2>2, <2>3, StillOthers, StillKeys DEF IInv, RequestsOK, Inserting
<1>4. CASE \E d \in Bearers(call[r].name) :
             /\ target' = [target EXCEPT ![r] = d] /\ readKey' = [readKey EXCEPT ![r] = key[d]]
             /\ touched' = [touched EXCEPT ![r] = FALSE]
             /\ pc' = [pc EXCEPT ![r] = Then[call[r].op]] /\ UNCHANGED result
  <2>1. PICK d \in Bearers(call[r].name) :
             /\ target' = [target EXCEPT ![r] = d] /\ readKey' = [readKey EXCEPT ![r] = key[d]]
             /\ touched' = [touched EXCEPT ![r] = FALSE]
             /\ pc' = [pc EXCEPT ![r] = Then[call[r].op]] /\ UNCHANGED result
    BY <1>4
  <2>2. d \in Deployment /\ d \in Live /\ name[d] = call[r].name /\ key[d] \in Key
    BY <1>1, <2>1 DEF Bearers, Live, Types
  <2>3. Then[call[r].op] \in {"update", "delete", "clear"}
    BY <1>1, CallType DEF IInv, RequestsOK, CreateOf, Then, Op
  <2>4. Types'
    BY <1>1, <2>1, <2>2, <2>3 DEF Types, PC, tables, Live
  <2>5. pc'[r] = Then[call[r].op] /\ target'[r] = d /\ readKey'[r] = key[d] /\ result'[r] = result[r]
    BY <1>1, <2>1 DEF Types
  <2>6. result[r] = "none"
    BY <1>1 DEF IInv, RequestsOK, TargetOf
  <2>7. Then[call[r].op] = "update" <=> call[r].op = "rename"
    BY <1>1, CallType DEF IInv, RequestsOK, CreateOf, Then, Op
  <2>8. CreateOf(r)'
    BY <2>3, <2>5, <2>6, <2>7 DEF IInv, RequestsOK, CreateOf, Inserting
  <2>9. TargetOf(r)'
    BY <2>2, <2>3, <2>5, <2>6 DEF IInv, RequestsOK, TargetOf, tables, Live
  <2> QED  BY <1>2, <2>3, <2>4, <2>5, <2>8, <2>9, StillOthers, StillKeys DEF IInv, RequestsOK, Inserting
<1> QED  BY <1>3, <1>4

-----------------------------------------------------------------------------
(* CreateDeployment *)

LEMMA DrawStep ==
  ASSUME IInv, NEW r \in Request, Draw(r)
  PROVE  IInv'
<1> USE DEF Draw, Goto
<1>1. Types
  BY DEF IInv
<1>2. PICK t \in Tokens(r) :
        token' = [token EXCEPT ![r] = t] /\ drawn' = drawn \cup {t} /\ twins' = twins \cup (InUse(r) \cap {t})
  OBVIOUS
<1>3. t \in Generated /\ t \in Key /\ (t \in drawn => t \in InUse(r))
  BY <1>2 DEF Tokens, Key
<1>4. Types'
  BY <1>1, <1>2, <1>3 DEF Types, PC, Key, tables, Live
<1>5. /\ pc[r] = "draw" /\ pc'[r] = "insert" /\ token'[r] = t
      /\ \A q \in Request \ {r} : pc'[q] = pc[q] /\ token'[q] = token[q]
  BY <1>1, <1>2 DEF Types
<1>6. Unique'
  BY DEF IInv, tables, Unique, Live
<1>7. CreateOf(r)'
  BY <1>2, <1>3, <1>5 DEF IInv, RequestsOK, CreateOf, Inserting
<1>8. \A q \in Request \ {r} : CreateOf(q)'
  BY <1>2, <1>5 DEF IInv, RequestsOK, CreateOf, Inserting
<1>9. \A q \in Request : TargetOf(q)'
  BY <1>5 DEF IInv, RequestsOK, TargetOf, tables, Live, NewName
<1>10. KeysOK'
  <2>1. \A d \in Deployment : key[d] = t => t \in drawn
    BY <1>3 DEF IInv, KeysOK
  <2>2. \A q \in Request \ {r} : Inserting(q) /\ token[q] = t => t \in InUse(r)
    BY DEF InUse, Inserting
  <2>3. t \notin twins' => t \notin InUse(r) /\ t \notin drawn /\ t \notin twins
    BY <1>2, <1>3
  <2>4. twins \subseteq twins' /\ drawn \subseteq drawn'
    BY <1>2
  <2>5. \A d \in Deployment : key[d] \in Generated => key[d] \in drawn'
    BY <2>4 DEF IInv, KeysOK
  <2>6. ASSUME NEW q \in Request, Inserting(q)', token'[q] \in Generated \ twins', NEW d \in Deployment
        PROVE  key[d] # token'[q]
    BY <1>5, <2>1, <2>3, <2>4, <2>6 DEF IInv, KeysOK, Inserting
  <2>7. ASSUME NEW p \in Request, NEW q \in Request, p # q, Inserting(p)', Inserting(q)',
               token'[p] \in Generated \ twins'
        PROVE  token'[q] # token'[p]
    BY <1>5, <2>2, <2>3, <2>4, <2>7 DEF IInv, KeysOK, Inserting
  <2> QED  BY <2>4, <2>5, <2>6, <2>7 DEF IInv, KeysOK, tables
<1>11. CountersOK'
  BY <1>2 DEF IInv, CountersOK, tables, Holders, Live
<1> QED  BY <1>4, <1>6, <1>7, <1>8, <1>9, <1>10, <1>11 DEF IInv, RequestsOK

LEMMA ConflictStep ==
  ASSUME IInv, NEW r \in Request, Conflict(r)
  PROVE  IInv'
<1> USE DEF Conflict, Answer, Goto
<1>1. Types /\ CreateOf(r) /\ pc[r] = "insert" /\ call[r].op = "create"
  BY DEF IInv, RequestsOK, CreateOf, Inserting
<1>2. attempt[r] \in 0..2 /\ collided[r] \in 0..attempt[r]
  BY <1>1 DEF CreateOf, Types, MaxAttempts
<1>3. /\ attempt'[r] = attempt[r] + 1 /\ named'[r] = (named[r] \/ Taken(r))
      /\ collided'[r] = IF Collides(r) THEN collided[r] + 1 ELSE collided[r]
  BY <1>1 DEF Types
<1>4. Types'
  <2>1. attempt' \in [Request -> 0..MaxAttempts] /\ collided' \in [Request -> 0..MaxAttempts]
    BY <1>1, <1>2 DEF Types, MaxAttempts
  <2>2. named' \in [Request -> BOOLEAN]
    BY <1>1 DEF Types
  <2>3. pc' \in [Request -> PC] /\ result' \in [Request -> Result]
    BY <1>1 DEF Types, PC, Result
  <2> QED  BY <1>1, <2>1, <2>2, <2>3 DEF Types, tables, Live
<1>5. Still(r)
  BY <1>1 DEF Still, Types
<1>6. \/ Retries(r) /\ pc'[r] = "draw" /\ result'[r] = result[r]
      \/ ~Retries(r) /\ pc'[r] = "answered" /\ result'[r] = "conflict"
  BY <1>1 DEF Types
<1>7. result[r] = "none"
  BY <1>1 DEF IInv, RequestsOK, TargetOf
<1>8. CreateOf(r)'
  <2>1. call'[r] = call[r]
    OBVIOUS
  <2>2. collided'[r] <= attempt'[r]
    BY <1>2, <1>3
  <2>3. named'[r] \/ collided'[r] = attempt'[r] \/ call[r].key # NoKey
    BY <1>1, <1>2, <1>3 DEF CreateOf
  <2>4. pc'[r] = "draw" => call[r].key = NoKey /\ attempt'[r] < MaxAttempts
    BY <1>3, <1>6 DEF Retries
  <2>5. result'[r] = "conflict" /\ call[r].key = NoKey => attempt'[r] = MaxAttempts
    BY <1>2, <1>3, <1>6, <1>7 DEF Retries, MaxAttempts
  <2> QED  BY <1>1, <1>6, <2>1, <2>2, <2>3, <2>4, <2>5 DEF CreateOf, Inserting
<1>9. TargetOf(r)'
  BY <1>1, <1>6, <1>7 DEF IInv, RequestsOK, TargetOf, tables
<1> QED  BY <1>4, <1>5, <1>6, <1>8, <1>9, StillOthers, StillKeys DEF IInv, RequestsOK, Inserting

LEMMA InsertStep ==
  ASSUME IInv, NEW r \in Request, Insert(r)
  PROVE  IInv'
<1> USE KeysAssumption, NothingAssumption DEF Insert, Answer, Outcome
<1>1. Types /\ CreateOf(r) /\ pc[r] = "insert" /\ call[r].op = "create"
  BY DEF IInv, RequestsOK, CreateOf, Inserting
<1>2. PICK d \in Deployment : /\ key[d] = NoKey
                              /\ name' = [name EXCEPT ![d] = call[r].name]
                              /\ key' = [key EXCEPT ![d] = token[r]]
                              /\ got' = [got EXCEPT ![r] = d]
  OBVIOUS
<1>3. /\ token[r] \in Key /\ call[r].name \in Name
      /\ token[r] \in Generated => token[r] \in drawn
      /\ name[d] = NoName
  BY <1>1, <1>2, CallType DEF CreateOf, Inserting, Key, Types, Live
<1>4. /\ Live' = Live \cup {d} /\ d \notin Live
      /\ name'[d] = call[r].name /\ key'[d] = token[r]
      /\ \A e \in Deployment \ {d} : name'[e] = name[e] /\ key'[e] = key[e]
  BY <1>1, <1>2, <1>3 DEF Live, Types
<1>5. Types'
  <2>1. name' \in [Deployment -> Name \cup {NoName}] /\ key' \in [Deployment -> Key \cup {NoKey}]
    BY <1>1, <1>2, <1>3 DEF Types
  <2>2. \A e \in Live' : key'[e] \in Key
    BY <1>1, <1>3, <1>4 DEF Types, Live
  <2> QED  BY <1>1, <1>2, <2>1, <2>2 DEF Types, PC, Result, history
<1>6. /\ pc'[r] = "answered" /\ result'[r] \in Outcome
      /\ \A q \in Request \ {r} : pc'[q] = pc[q] /\ result'[q] = result[q] /\ got'[q] = got[q]
  BY <1>1, <1>2 DEF Types
<1>7. Unique'
  <2>1. \A e \in Live : name[e] # call[r].name /\ key[e] # token[r]
    BY DEF Taken, Collides, Bearers, Holders
  <2> QED  BY <1>4, <2>1 DEF IInv, Unique, Live
<1>8. \A q \in Request : CreateOf(q)'
  BY <1>1, <1>6 DEF IInv, RequestsOK, CreateOf, Inserting, history
<1>9. ASSUME NEW q \in Request PROVE TargetOf(q)'
  <2>1. target[q] # d
    BY <1>2 DEF IInv, RequestsOK, TargetOf
  <2>2. CASE q = r
    BY <1>1, <1>4, <1>6, <2>1, <2>2 DEF IInv, RequestsOK, TargetOf, history
  <2>3. CASE q # r
    BY <1>4, <1>6, <2>1, <2>3 DEF IInv, RequestsOK, TargetOf, NewName, Live, history
  <2> QED  BY <2>2, <2>3
<1>10. KeysOK'
  <2>1. /\ token[r] \in Generated \ twins => \A e \in Deployment : key[e] # token[r]
        /\ \A q \in Request \ {r} :
             Inserting(q) /\ token[q] \in Generated \ twins => token[q] # token[r]
    BY <1>1 DEF IInv, KeysOK, Inserting
  <2>2. \A q \in Request : Inserting(q)' => q # r /\ Inserting(q)
    BY <1>6 DEF Inserting
  <2>3. \A e \in Deployment : key'[e] \in Generated => key'[e] \in drawn
    BY <1>3, <1>4 DEF IInv, KeysOK
  <2>4. ASSUME NEW e \in Deployment, NEW f \in Deployment, e # f, key'[e] = key'[f], key'[e] \in Generated
        PROVE  key'[e] \in twins
    BY <1>4, <2>1, <2>4 DEF IInv, KeysOK
  <2>5. ASSUME NEW q \in Request, NEW e \in Deployment, Inserting(q)', token[q] \in Generated \ twins
        PROVE  key'[e] # token[q]
    BY <1>4, <2>1, <2>2, <2>5 DEF IInv, KeysOK
  <2> QED  BY <2>2, <2>3, <2>4, <2>5 DEF IInv, KeysOK, history
<1>11. CountersOK'
  <2>1. ASSUME NEW k \in Key, NEW e \in counters[k], e # NoDeployment PROVE key'[e] = k
    <3>1. e \in Deployment /\ key[e] = k
      BY <1>1, <2>1 DEF IInv, CountersOK, Types
    <3> QED  BY <1>2, <1>4, <3>1, <2>1
  <2>2. ASSUME NEW k \in Generated \ twins, NoDeployment \in counters[k]
        PROVE  Holders(k)' = {} /\ \E e \in Deployment : key'[e] = k
    <3>1. Holders(k) = {} /\ \E e \in Deployment : key[e] = k
      BY <2>2 DEF IInv, CountersOK
    <3>2. token[r] # k
      BY <1>1, <2>2, <3>1 DEF IInv, KeysOK, Inserting
    <3>3. k # NoKey
      BY DEF Key
    <3>4. Holders(k)' = Holders(k)
      BY <1>4, <3>2 DEF Holders, Live
    <3> QED  BY <1>2, <1>4, <3>1, <3>3, <3>4
  <2> QED  BY <2>1, <2>2 DEF CountersOK, history
<1> QED  BY <1>5, <1>7, <1>8, <1>9, <1>10, <1>11 DEF IInv, RequestsOK

-----------------------------------------------------------------------------
(* The row of a request is written *)

\* An UPDATE or DELETE gives the row of r another name, or none.
Writes(r, d, n) ==
    /\ d = target[r] /\ d \in Live /\ n \in Name \cup {NoName}
    /\ n # NoName => Bearers(n) \ {d} = {}
    /\ name' = [name EXCEPT ![d] = n]
    /\ Touch(r, d)
    /\ UNCHANGED <<app, key, counters, call, locals, drawn, twins, named, collided>>
    /\ \A q \in Request \ {r} : pc'[q] = pc[q] /\ result'[q] = result[q]
    /\ pc \in [Request -> PC] /\ pc' \in [Request -> PC] /\ result' \in [Request -> Result]
    /\ ~Inserting(r) /\ ~Inserting(r)'

LEMMA WriteStep ==
  ASSUME IInv, NEW r \in Request, NEW d, NEW n, Writes(r, d, n)
  PROVE  Types' /\ Unique' /\ KeysOK' /\ CountersOK' /\ \A q \in Request \ {r} : CreateOf(q)' /\ TargetOf(q)'
<1> USE DEF Writes, locals
<1>1. Types /\ d \in Deployment
  BY DEF IInv, Live
<1>2. /\ name'[d] = n /\ (\A e \in Deployment \ {d} : name'[e] = name[e])
      /\ Live' \subseteq Live /\ Live \subseteq Live' \cup {d}
  BY <1>1 DEF Live, Types
<1>3. Types'
  <2>1. name' \in [Deployment -> Name \cup {NoName}]
    BY <1>1 DEF Types
  <2>2. touched' \in [Request -> BOOLEAN]
    BY <1>1 DEF Types, Touch
  <2> QED  BY <1>1, <1>2, <2>1, <2>2 DEF Types
<1>4. Unique'
  <2>1. \A e \in Live \ {d} : n = NoName \/ name[e] # n
    BY DEF Bearers
  <2> QED  BY <1>1, <1>2, <2>1 DEF IInv, Unique, Live
<1>5. KeysOK'
  BY DEF IInv, KeysOK, Inserting
<1>6. CountersOK'
  <2>1. \A k \in Key : Holders(k)' \subseteq Holders(k)
    BY <1>2 DEF Holders
  <2> QED  BY <2>1 DEF IInv, CountersOK, Key
<1>7. ASSUME NEW q \in Request \ {r} PROVE CreateOf(q)' /\ TargetOf(q)'
  <2>1. /\ touched[q] => touched'[q]
        /\ pc[q] # "answered" /\ target[q] = d => touched'[q]
    BY DEF Touch
  <2>2. CreateOf(q)'
    BY DEF IInv, RequestsOK, CreateOf, Inserting
  <2>5. /\ pc'[q] = pc[q] /\ result'[q] = result[q] /\ target'[q] = target[q]
        /\ readKey'[q] = readKey[q] /\ got'[q] = got[q] /\ call' = call /\ key' = key /\ TargetOf(q)
    BY DEF IInv, RequestsOK
  <2>6. target[q] \in Live /\ target[q] # d => target[q] \in Live' /\ name'[target[q]] = name[target[q]]
    BY <1>1, <1>2 DEF Live
  <2>7. NewName(q)' = NewName(q)
    BY <2>5 DEF NewName
  <2>8. pc[q] \in {"update", "reread"} /\ target[q] # d => name'[target[q]] = name[target[q]]
    BY <1>1, <1>2, <2>5 DEF TargetOf
  <2> HIDE DEF Writes, locals
  <2>3. CASE target[q] = d
    BY <2>1, <2>2, <2>3, <2>5 DEF TargetOf
  <2>4. CASE target[q] # d
    BY <2>1, <2>2, <2>4, <2>5, <2>6, <2>7, <2>8 DEF TargetOf
  <2> QED  BY <2>3, <2>4
<1> QED  BY <1>3, <1>4, <1>5, <1>6, <1>7

\* The statement found nothing to write, or failed.
LEMMA NotWritten ==
  ASSUME IInv, NEW r \in Request, NEW outcome \in {"notFound", "error"}, Answer(r, outcome),
         pc[r] \in {"update", "delete"}, UNCHANGED <<tables, counters, call, locals, history>>
  PROVE  IInv'
<1> USE DEF Answer
<1>1. Types
  BY DEF IInv
<1>2. Types'
  BY <1>1 DEF Types, PC, Result, tables, locals, history, Live
<1>3. Still(r)
  BY <1>1 DEF Still, Types, locals, history
<1>4. pc'[r] = "answered" /\ result'[r] = outcome
  BY <1>1 DEF Types
<1>5. CreateOf(r)' /\ TargetOf(r)'
  BY <1>4 DEF IInv, RequestsOK, CreateOf, TargetOf, Inserting, locals, history, tables
<1> QED  BY <1>2, <1>3, <1>4, <1>5, StillOthers, StillKeys DEF IInv, RequestsOK, Inserting

LEMMA UpdateStep ==
  ASSUME IInv, NEW r \in Request, Update(r)
  PROVE  IInv'
<1> USE DEF Update, Row
<1>1. Types /\ pc[r] = "update" /\ CreateOf(r) /\ TargetOf(r) /\ result[r] = "none"
  BY DEF IInv, RequestsOK, TargetOf
<1>2. CASE UNCHANGED <<name, touched>> /\ \E o \in {"notFound", "error"} : Answer(r, o)
  BY <1>1, <1>2, NotWritten DEF tables, history
<1>3. CASE /\ target[r] \in Live /\ Bearers(NewName(r)) \ {target[r]} = {}
           /\ name' = [name EXCEPT ![target[r]] = NewName(r)]
           /\ Touch(r, target[r])
           /\ \/ Goto(r, "update", "reread") /\ UNCHANGED result
              \/ Answer(r, "error")
  <2>1. Writes(r, target[r], NewName(r))
    <3>1. pc' \in [Request -> PC] /\ result' \in [Request -> Result]
      BY <1>1, <1>3 DEF Goto, Answer, Types, PC, Result
    <3>2. ~Inserting(r) /\ ~Inserting(r)'
      BY <1>1, <1>3 DEF Goto, Answer, Types, Inserting
    <3>3. \A q \in Request \ {r} : pc'[q] = pc[q] /\ result'[q] = result[q]
      BY <1>1, <1>3 DEF Goto, Answer, Types
    <3> QED  BY <1>1, <1>3, <3>1, <3>2, <3>3, CallType DEF Writes, Types
  <2>2. /\ \/ pc'[r] = "reread" /\ result'[r] = "none"
           \/ pc'[r] = "answered" /\ result'[r] = "error"
        /\ name'[target[r]] = NewName(r) /\ target[r] \in Deployment
    BY <1>1, <1>3 DEF Goto, Answer, Types, Live
  <2>3. CreateOf(r)'
    BY <1>1, <2>2 DEF CreateOf, Inserting, locals
  <2>4. TargetOf(r)'
    BY <1>1, <2>2 DEF TargetOf, NewName, locals
  <2> QED  BY <2>1, <2>3, <2>4, WriteStep DEF IInv, RequestsOK
<1> QED  BY <1>2, <1>3

LEMMA DeleteStep ==
  ASSUME IInv, NEW r \in Request, Delete(r)
  PROVE  IInv'
<1> USE DEF Delete, Row
<1>1. Types /\ pc[r] = "delete" /\ CreateOf(r) /\ TargetOf(r) /\ result[r] = "none"
  BY DEF IInv, RequestsOK, TargetOf
<1>2. CASE UNCHANGED <<name, touched>> /\ Answer(r, "notFound")
  BY <1>1, <1>2, NotWritten DEF tables, history
<1>3. CASE /\ target[r] \in Live /\ \E outcome \in Outcome : Answer(r, outcome)
           /\ name' = [name EXCEPT ![target[r]] = NoName] /\ Touch(r, target[r])
  <2>1. Writes(r, target[r], NoName)
    <3>1. pc' \in [Request -> PC] /\ result' \in [Request -> Result]
      BY <1>1, <1>3 DEF Answer, Types, PC, Result, Outcome
    <3>2. ~Inserting(r) /\ ~Inserting(r)'
      BY <1>1, <1>3 DEF Answer, Types, Inserting
    <3>3. \A q \in Request \ {r} : pc'[q] = pc[q] /\ result'[q] = result[q]
      BY <1>1, <1>3 DEF Answer, Types
    <3> QED  BY <1>1, <1>3, <3>1, <3>2, <3>3 DEF Writes, Types
  <2>2. pc'[r] = "answered" /\ result'[r] \in Outcome /\ target[r] \in Deployment
    BY <1>1, <1>3 DEF Answer, Types, Live, Outcome
  <2>3. CreateOf(r)'
    BY <1>1, <2>2 DEF CreateOf, Inserting, locals, Outcome
  <2>4. TargetOf(r)'
    BY <1>1, <2>2 DEF CreateOf, TargetOf, locals
  <2> QED  BY <2>1, <2>3, <2>4, WriteStep DEF IInv, RequestsOK
<1> QED  BY <1>2, <1>3

-----------------------------------------------------------------------------
(* The counters, and the app *)

LEMMA ClearStep ==
  ASSUME IInv, NEW r \in Request, Clear(r)
  PROVE  IInv'
<1> USE DEF Clear, Answer, Outcome
<1>1. Types /\ pc[r] = "clear" /\ CreateOf(r) /\ TargetOf(r)
  BY DEF IInv, RequestsOK
<1>2. \A k \in Key : counters'[k] \subseteq counters[k]
  BY <1>1 DEF Types
<1>3. Types'
  <2>1. pc' \in [Request -> PC] /\ result' \in [Request -> Result]
    BY <1>1 DEF Types, PC, Result
  <2>2. counters' \in [Key -> SUBSET (Deployment \cup {NoDeployment})]
    BY <1>1 DEF Types
  <2> QED  BY <1>1, <2>1, <2>2 DEF Types, tables, locals, history, Live
<1>4. /\ pc'[r] = "answered" /\ result'[r] \in Outcome
      /\ \A q \in Request \ {r} : pc'[q] = pc[q] /\ result'[q] = result[q]
  BY <1>1 DEF Types
<1>5. Unique' /\ KeysOK'
  BY <1>4 DEF IInv, Unique, KeysOK, Inserting, Live, tables, locals, history
<1>6. CountersOK'
  BY <1>2 DEF IInv, CountersOK, Holders, Live, tables, history, Key
<1>7. \A q \in Request : CreateOf(q)'
  BY <1>4 DEF IInv, RequestsOK, CreateOf, Inserting, locals, history
<1>8. call[r].op # "rename"
  BY <1>1 DEF CreateOf
<1>9. ASSUME NEW q \in Request PROVE TargetOf(q)'
  <2>1. CASE q = r
    BY <1>1, <1>4, <1>8, <2>1 DEF TargetOf, tables, locals, history
  <2>2. CASE q # r
    BY <1>4, <2>2 DEF IInv, RequestsOK, TargetOf, NewName, Live, tables, locals, history
  <2> QED  BY <2>1, <2>2
<1> QED  BY <1>3, <1>5, <1>6, <1>7, <1>9 DEF IInv, RequestsOK

LEMMA ReportStep ==
  ASSUME IInv, NEW k \in Key, Report(k)
  PROVE  IInv'
<1> USE DEF Report
<1>1. Types
  BY DEF IInv
<1>2. /\ counters'[k] = counters[k] \cup (IF Holders(k) = {} THEN {NoDeployment} ELSE Holders(k))
      /\ \A j \in Key \ {k} : counters'[j] = counters[j]
  BY <1>1 DEF Types
<1>3. Types'
  <2>1. counters' \in [Key -> SUBSET (Deployment \cup {NoDeployment})]
    BY <1>1 DEF Types, Holders, Live
  <2> QED  BY <1>1, <2>1 DEF Types, tables, locals, history, Live
<1>4. Unique' /\ KeysOK' /\ RequestsOK'
  BY DEF IInv, Unique, KeysOK, RequestsOK, CreateOf, TargetOf, NewName, Inserting, Live, tables, locals, history
<1>5. CountersOK'
  <2>1. ASSUME NEW j \in Key, NEW e \in counters'[j], e # NoDeployment PROVE key[e] = j
    BY <1>2, <2>1 DEF IInv, CountersOK, Holders
  <2>2. ASSUME NEW j \in Generated \ twins, NoDeployment \in counters'[j]
        PROVE  Holders(j) = {} /\ \E d \in Deployment : key[d] = j
    <3>1. CASE NoDeployment \in counters[j]
      BY <2>2, <3>1 DEF IInv, CountersOK
    <3>2. CASE NoDeployment \notin counters[j]
      <4>1. j = k /\ Holders(k) = {}
        BY <1>2, <2>2, <3>2, NothingAssumption DEF Key, Holders, Live
      <4> QED  BY <2>2, <4>1, KeysAssumption
    <3> QED  BY <3>1, <3>2
  <2>3. \A j : Holders(j)' = Holders(j)
    BY DEF Holders, Live, tables
  <2> QED  BY <2>1, <2>2, <2>3 DEF CountersOK, tables, history
<1> QED  BY <1>3, <1>4, <1>5 DEF IInv

LEMMA DeleteAppStep == ASSUME IInv, DeleteApp PROVE IInv'
<1> USE DEF DeleteApp
<1>1. Types
  BY DEF IInv
<1>2. Live' = {}
  BY DEF Live
<1>3. Types'
  BY <1>1, <1>2 DEF Types, locals
<1>4. \A r \in Request : touched'[r] = (touched[r] \/ pc[r] # "answered")
  OBVIOUS
<1>5. ASSUME NEW r \in Request PROVE CreateOf(r)' /\ TargetOf(r)'
  BY <1>4 DEF IInv, RequestsOK, CreateOf, TargetOf, Inserting, locals
<1>6. Unique'
  BY <1>2 DEF Unique
<1>7. KeysOK'
  BY DEF IInv, KeysOK, Inserting, locals
<1>8. CountersOK'
  BY <1>2 DEF IInv, CountersOK, Holders
<1> QED  BY <1>3, <1>5, <1>6, <1>7, <1>8 DEF IInv, RequestsOK

-----------------------------------------------------------------------------

LEMMA NextIInv == IInv /\ [Next]_vars => IInv'
<1> SUFFICES ASSUME IInv, [Next]_vars PROVE IInv'
  OBVIOUS
<1>1. CASE UNCHANGED vars
  BY <1>1 DEF vars, tables, locals, history, IInv, Types, RequestsOK, CreateOf, TargetOf, Unique,
     KeysOK, CountersOK, Inserting, NewName, Live, Holders
<1>2. CASE Next
  BY <1>2, BeginStep, FailStep, DrawStep, ConflictStep, InsertStep, FindStep, UpdateStep,
     RereadStep, DeleteStep, ClearStep, ReportStep, DeleteAppStep DEF Next, Step
<1> QED  BY <1>1, <1>2

\* The inductive invariant holds in every reachable state.
THEOREM Invariance == Spec => []IInv
BY InitIInv, NextIInv, PTL DEF Spec

\* Every variable has its type, and the deployments that are there have keys and
\* names of their own, whatever creations and renames race.
THEOREM TypeCorrect == Spec => []TypeOK
<1>1. IInv => TypeOK
  BY DEF IInv, TypeOK
<1> QED  BY Invariance, <1>1, PTL

\* A PATCH answers with the deployment it renamed, unless others touched it.
THEOREM AnswersOwn == Spec => []RenameAnswersOwn
<1>1. IInv => RenameAnswersOwn
  BY DEF IInv, RequestsOK, TargetOf, RenameAnswersOwn
<1> QED  BY Invariance, <1>1, PTL

\* A creation with a generated key conflicts over its name, or three times in a
\* row over its key.
THEOREM ConflictsIfTaken == Spec => []ConflictsOnlyIfTaken
<1>1. IInv => ConflictsOnlyIfTaken
  BY DEF IInv, RequestsOK, CreateOf, ConflictsOnlyIfTaken
<1> QED  BY Invariance, <1>1, PTL

\* The counters under a generated key that was drawn once are those of its
\* deployment alone.
THEOREM InheritsGiven == Spec => []InheritsOnlyGivenKey
<1>1. IInv => InheritsOnlyGivenKey
  <2> SUFFICES ASSUME IInv, NEW d \in Live, key[d] \in Generated \ twins, NEW e \in counters[key[d]]
               PROVE  e = d
    BY DEF InheritsOnlyGivenKey
  <2>1. e # NoDeployment
    BY DEF IInv, CountersOK, Holders
  <2>2. d \in Deployment /\ e \in Deployment /\ key[e] = key[d]
    BY <2>1 DEF IInv, CountersOK, Types, Live, Key
  <2> QED  BY <2>2 DEF IInv, KeysOK
<1> QED  BY Invariance, <1>1, PTL

\* Names change as a PATCH asks; one without a name undoes only a rename that
\* came after its read.
THEOREM NamesAsAsked == Spec => NamedAsAsked
<1> DEFINE A == \A d \in Live : name'[d] \notin {name[d], NoName} =>
        \E r \in Request :
            /\ pc[r] = "update" /\ pc'[r] # "update" /\ target[r] = d
            /\ call[r].new = name'[d] \/ (call[r].new = NoName /\ touched[r])
<1>1. IInv /\ [Next]_vars => [A]_vars
  <2> SUFFICES ASSUME IInv, Next, NEW d \in Live, name'[d] \notin {name[d], NoName}
               PROVE  \E r \in Request :
                        /\ pc[r] = "update" /\ pc'[r] # "update" /\ target[r] = d
                        /\ call[r].new = name'[d] \/ (call[r].new = NoName /\ touched[r])
    OBVIOUS
  <2>1. Types /\ d \in Deployment
    BY DEF IInv, Live
  <2>2. PICK r \in Request : Insert(r) \/ Update(r) \/ Delete(r)
    <3>1. ~DeleteApp
      BY <2>1 DEF DeleteApp
    <3> QED  BY <3>1 DEF Next, Step, Begin, Fail, Draw, Conflict, Find, Reread, Clear, Report, tables
  <2>3. CASE Insert(r)
    <3>1. PICK e \in Deployment : key[e] = NoKey /\ name' = [name EXCEPT ![e] = call[r].name]
      BY <2>3 DEF Insert
    <3>2. e # d
      BY <2>1, <3>1, KeysAssumption DEF Types
    <3> QED  BY <2>1, <3>1, <3>2 DEF Types
  <2>4. CASE Delete(r)
    BY <2>1, <2>4 DEF Delete, Row, Types
  <2>5. CASE Update(r)
    <3>1. /\ pc[r] = "update" /\ pc'[r] # "update" /\ target[r] = d /\ name'[d] = NewName(r)
      BY <2>1, <2>5 DEF Update, Row, Goto, Answer, Types
    <3>2. call[r].new = NoName => NewName(r) = call[r].name
      BY DEF NewName
    <3>3. call[r].new # NoName => NewName(r) = call[r].new
      BY DEF NewName
    <3> QED  BY <3>1, <3>2, <3>3 DEF IInv, RequestsOK, TargetOf
  <2> QED  BY <2>2, <2>3, <2>4, <2>5
<1> QED  BY Invariance, <1>1, PTL DEF Spec, NamedAsAsked

\* A purge takes the counters of its own deployment, or of one that got the key
\* after that was deleted.
THEOREM ClearsOnlyOwn == Spec => ClearsOwn
<1> DEFINE A == \A k \in Key : \A e \in (counters[k] \ counters'[k]) \cap Live :
        \E r \in Request :
            /\ pc[r] = "clear" /\ pc'[r] = "answered"
            /\ target[r] = e \/ (target[r] \notin Live /\ touched[r])
<1>1. IInv /\ [Next]_vars => [A]_vars
  <2> SUFFICES ASSUME IInv, Next, NEW k \in Key, NEW e \in (counters[k] \ counters'[k]) \cap Live
               PROVE  \E r \in Request :
                        /\ pc[r] = "clear" /\ pc'[r] = "answered"
                        /\ target[r] = e \/ (target[r] \notin Live /\ touched[r])
    OBVIOUS
  <2>1. Types /\ e \in Deployment /\ key[e] = k
    BY NothingAssumption DEF IInv, Live, CountersOK
  <2>2. PICK r \in Request : Clear(r)
    <3>1. ASSUME NEW j \in Key, Report(j) PROVE counters[k] \subseteq counters'[k]
      BY <2>1, <3>1 DEF Report, Types
    <3> QED  BY <3>1 DEF Next, Step, Begin, Fail, Draw, Conflict, Insert, Find, Update, Reread, Delete,
               DeleteApp
  <2>3. pc[r] = "clear" /\ pc'[r] = "answered" /\ readKey[r] = k
    BY <2>1, <2>2 DEF Clear, Answer, Types
  <2>4. key[target[r]] = k /\ (touched[r] \/ target[r] \in Live)
    BY <2>3 DEF IInv, RequestsOK, TargetOf
  <2> QED  BY <2>1, <2>3, <2>4 DEF IInv, Unique
<1> QED  BY Invariance, <1>1, PTL DEF Spec, ClearsOwn

-----------------------------------------------------------------------------
(* Creations that draw again come to an end *)

\* The statements a request has before it, at most: two for each of the attempts
\* that are left to createDeploymentWithGeneratedKey.
Remaining(r) ==
    CASE pc[r] = "idle"   -> 2 * MaxAttempts + 2
      [] pc[r] = "draw"   -> 2 * (MaxAttempts - attempt[r]) + 1
      [] pc[r] = "insert" -> 2 * (MaxAttempts - attempt[r])
      [] pc[r] = "find"   -> 3
      [] pc[r] = "update" -> 2
      [] pc[r] \in {"reread", "delete", "clear"} -> 1
      [] pc[r] = "answered" -> 0

\* Whoever moves comes nearer to the answer; a report, and the deletion of the app,
\* take nobody back.
EveryStepCounts ==
    [][\/ UNCHANGED <<pc, attempt>>
       \/ \E r \in Request :
            /\ Remaining(r)' < Remaining(r)
            /\ \A q \in Request \ {r} : UNCHANGED <<pc[q], attempt[q]>>]_vars

LEMMA StepCounts ==
  ASSUME IInv, NEW r \in Request, Step(r) \/ Fail(r)
  PROVE  /\ Remaining(r)' < Remaining(r)
         /\ \A q \in Request \ {r} : UNCHANGED <<pc[q], attempt[q]>>
<1>0. /\ pc \in [Request -> PC] /\ attempt \in [Request -> 0..MaxAttempts]
      /\ attempt[r] \in Nat /\ MaxAttempts = 3
  BY DEF IInv, Types, MaxAttempts
<1>1. /\ pc[r] = "idle" => attempt[r] = 0
      /\ pc[r] \in {"draw", "insert"} => attempt[r] < MaxAttempts
  BY DEF IInv, RequestsOK, CreateOf
<1>2. /\ call[r].op \in Op
      /\ Start(r) \in {"draw", "insert", "find"}
      /\ pc[r] = "find" => Then[call[r].op] \in {"update", "delete", "clear"}
  <2>1. call[r].op \in Op
    BY CallType DEF IInv
  <2>2. First[call[r].op] \in {"insert", "find"}
    BY <2>1 DEF First, Op
  <2>3. pc[r] = "find" => call[r].op # "create"
    BY DEF IInv, RequestsOK, CreateOf
  <2> QED  BY <2>1, <2>2, <2>3 DEF Start, Then, Op
<1> DEFINE Others == \A q \in Request \ {r} : UNCHANGED <<pc[q], attempt[q]>>
<1>3. ASSUME NEW there \in PC, pc' = [pc EXCEPT ![r] = there],
             UNCHANGED attempt \/ attempt' = [attempt EXCEPT ![r] = @ + 1]
      PROVE  /\ Others /\ pc'[r] = there
             /\ attempt'[r] = attempt[r] \/ attempt'[r] = attempt[r] + 1
  BY <1>0, <1>3
<1>4. ASSUME pc[r] # "answered", pc' = [pc EXCEPT ![r] = "answered"],
             UNCHANGED attempt \/ attempt' = [attempt EXCEPT ![r] = @ + 1]
      PROVE  Remaining(r)' < Remaining(r) /\ Others
  <2>1. Others /\ pc'[r] = "answered"
    BY <1>3, <1>4 DEF PC
  <2>2. Remaining(r)' = 0
    BY <2>1 DEF Remaining
  <2>3. Remaining(r) > 0
    <3>1. pc[r] \in PC \ {"answered"}
      BY <1>0, <1>4
    <3> QED  BY <1>0, <1>1, <3>1 DEF Remaining, PC
  <2> QED  BY <2>1, <2>2, <2>3
<1>5. CASE Begin(r)
  <2>1. pc[r] = "idle" /\ pc' = [pc EXCEPT ![r] = Start(r)] /\ UNCHANGED attempt
    BY <1>5 DEF Begin, Goto
  <2>2. Others /\ pc'[r] = Start(r) /\ attempt'[r] = attempt[r]
    BY <1>0, <1>2, <2>1
  <2>3. Remaining(r) = 8
    BY <1>0, <2>1 DEF Remaining
  <2>4. Remaining(r)' \in {7, 6, 3}
    BY <1>0, <1>1, <1>2, <2>1, <2>2 DEF Remaining
  <2> QED  BY <2>2, <2>3, <2>4
<1>6. CASE Draw(r)
  <2>1. pc[r] = "draw" /\ Others /\ pc'[r] = "insert" /\ attempt'[r] = attempt[r]
    BY <1>0, <1>6 DEF Draw, Goto
  <2>2. Remaining(r) = 2 * (MaxAttempts - attempt[r]) + 1
    BY <2>1 DEF Remaining
  <2>3. Remaining(r)' = 2 * (MaxAttempts - attempt[r])
    BY <2>1 DEF Remaining
  <2> QED  BY <1>0, <2>1, <2>2, <2>3
<1>7. CASE Conflict(r)
  <2>1. CASE pc' = [pc EXCEPT ![r] = "answered"]
    BY <1>4, <1>7, <2>1 DEF Conflict
  <2>2. CASE pc' = [pc EXCEPT ![r] = "draw"]
    <3>1. pc[r] = "insert" /\ Others /\ pc'[r] = "draw" /\ attempt'[r] = attempt[r] + 1
      BY <1>0, <1>7, <2>2 DEF Conflict
    <3>2. Remaining(r) = 2 * (MaxAttempts - attempt[r])
      BY <3>1 DEF Remaining
    <3>3. Remaining(r)' = 2 * (MaxAttempts - (attempt[r] + 1)) + 1
      BY <3>1 DEF Remaining
    <3> QED  BY <1>0, <3>1, <3>2, <3>3
  <2> QED  BY <1>7, <2>1, <2>2 DEF Conflict, Goto, Answer
<1>8. CASE Find(r)
  <2>1. CASE pc' = [pc EXCEPT ![r] = "answered"]
    BY <1>4, <1>8, <2>1 DEF Find
  <2>2. CASE pc' = [pc EXCEPT ![r] = Then[call[r].op]]
    <3>1. pc[r] = "find" /\ Others /\ pc'[r] \in {"update", "delete", "clear"}
      BY <1>0, <1>2, <1>8, <2>2 DEF Find
    <3>2. Remaining(r) = 3 /\ Remaining(r)' \in {1, 2}
      BY <3>1 DEF Remaining
    <3> QED  BY <3>1, <3>2
  <2> QED  BY <1>8, <2>1, <2>2 DEF Find, Goto, Answer
<1>9. CASE Update(r)
  <2>1. CASE pc' = [pc EXCEPT ![r] = "answered"]
    BY <1>4, <1>9, <2>1 DEF Update, locals
  <2>2. CASE pc' = [pc EXCEPT ![r] = "reread"]
    <3>1. pc[r] = "update" /\ Others /\ pc'[r] = "reread"
      BY <1>0, <1>9, <2>2 DEF Update, locals
    <3>2. Remaining(r) = 2 /\ Remaining(r)' = 1
      BY <3>1 DEF Remaining
    <3> QED  BY <3>1, <3>2
  <2> QED  BY <1>9, <2>1, <2>2 DEF Update, Goto, Answer
<1>10. CASE Insert(r) \/ Reread(r) \/ Delete(r) \/ Clear(r) \/ Fail(r)
  <2>1. pc[r] # "answered" /\ pc' = [pc EXCEPT ![r] = "answered"] /\ UNCHANGED attempt
    BY <1>10 DEF Insert, Reread, Delete, Clear, Fail, Answer, locals
  <2> QED  BY <1>4, <2>1
<1> QED  BY <1>5, <1>6, <1>7, <1>8, <1>9, <1>10 DEF Step

\* No request retries for ever: each takes a bounded number of statements.
THEOREM RequestsEnd == Spec => EveryStepCounts
<1> DEFINE Counts ==
      \/ UNCHANGED <<pc, attempt>>
      \/ \E r \in Request :
           /\ Remaining(r)' < Remaining(r)
           /\ \A q \in Request \ {r} : UNCHANGED <<pc[q], attempt[q]>>
<1>1. IInv /\ [Next]_vars => [Counts]_vars
  <2>1. ASSUME IInv, NEW r \in Request, Step(r) \/ Fail(r) PROVE Counts
    BY <2>1, StepCounts
  <2>2. ASSUME NEW k \in Key, Report(k) PROVE Counts
    BY <2>2 DEF Report, locals
  <2>3. CASE DeleteApp
    BY <2>3 DEF DeleteApp, locals
  <2> QED  BY <2>1, <2>2, <2>3 DEF Next
<1> QED  BY <1>1, Invariance, PTL DEF Spec, EveryStepCounts
=============================================================================
