-------------------------- MODULE AccessKeysProofs --------------------------
(* The properties of AccessKeys and its refinement of KeyRegistry, for any      *)
(* accounts, keys, names, requests, starts and lifetimes.                       *)
EXTENDS AccessKeys, TLAPS

StartPCs == {"findAccount", "insertAccount", "findToken", "insertToken", "commit"}
KeyPCs == {"insert", "find", "write", "delete", "deleteSessions"}

\* The unique index, which no token still to be generated can hit.
KeysOK ==
    /\ \A k \in fresh : keys[k] = Gone
    /\ \A j, k \in Key : keys[j] # Gone /\ keys[k] # Gone /\ keys[j].token = keys[k].token => j = k
    /\ \A k \in fresh, j \in Key : keys[j] # Gone => keys[j].token # Secret[k]

\* No request under way was told a token that is still to be generated.
NamesOK == \A r \in Request : pc[r] # "idle" => Known(r)

\* A request is where its operation takes it, and is somebody there.
ControlOf(r) ==
    /\ pc[r] # "answered" => result[r] = "none"
    /\ pc[r] \in {"idle", "resolve", "checkExpiry"} \cup StartPCs => as[r] = Nobody
    /\ as[r] # Nobody => result[r] \notin {"unauthorized", "expired"}
    /\ pc[r] \in KeyPCs => as[r] \in Account
    /\ pc[r] \in StartPCs => call[r].op = "start"
    /\ pc[r] \in {"resolve", "checkExpiry"} => call[r].op # "start"
    /\ pc[r] = "insert" => call[r].op = "create"
    /\ pc[r] = "find" => call[r].op \in {"get", "update"}
    /\ pc[r] = "write" => call[r].op = "update"
    /\ pc[r] = "delete" => call[r].op = "delete"
    /\ pc[r] = "deleteSessions" => call[r].op = "sessions"
ControlOK == \A r \in Request : ControlOf(r)

\* What an update read is of its own account, and still so unless another
\* update came in between.
DraftOf(r) ==
    /\ pc[r] \in {"checkExpiry", "write"} => draft[r] # NoDraft
    /\ pc[r] = "write" =>
        /\ draft[r].key \notin fresh
        /\ draft[r].row.account = as[r]
        /\ keys[draft[r].key] # Gone =>
             /\ keys[draft[r].key].account = as[r]
             /\ r \notin stale => keys[draft[r].key] = draft[r].row
DraftOK == \A r \in Request : DraftOf(r)

\* An uncommitted INSERT keeps others from the same value.
LocksOf(r) ==
    /\ r \in creating => pc[r] \in {"findToken", "insertToken", "commit"} /\ Root \notin accounts
    /\ r \in planting => pc[r] = "commit" /\ \A k \in Key : keys[k] # Gone => keys[k].token # call[r].name
LocksOK ==
    /\ \A r \in Request : LocksOf(r)
    /\ \A q, r \in creating : q = r
    /\ \A q, r \in planting : call[q].name = call[r].name => q = r

\* What a start found missing is missing still, or it was raced.
StartOf(r) ==
    /\ pc[r] = "insertAccount" => Root \notin accounts \/ r \in raced
    /\ pc[r] = "insertToken" =>
         r \in raced \/ \A k \in Key : keys[k] # Gone => keys[k].token # call[r].name
    /\ pc[r] \in {"findToken", "insertToken", "commit"} => Root \in accounts \/ r \in creating
    /\ pc[r] = "commit" => r \in knew \/ r \in planting
    /\ result[r] = "failed" => r \in raced
StartOK == \A r \in Request : StartOf(r)

IInv == TypeOK /\ KeysOK /\ NamesOK /\ ControlOK /\ DraftOK /\ LocksOK /\ StartOK

-----------------------------------------------------------------------------

LEMMA CallFacts ==
  ASSUME TypeOK, NEW r \in Request
  PROVE  /\ call[r] \in Calls /\ call[r] \in Call /\ call[r].op \in Op /\ call[r].token \in Name
         /\ call[r].name \in Name \cup {NoName} /\ call[r].ttl \in Int
         /\ call[r].friendly \in Name \cup {NoName}
         /\ call[r].op # "create" => call[r].name # NoName /\ call[r].name \in Name
         /\ call[r].op = "start" => call[r].friendly # NoName
<1>1. call[r] \in Calls /\ call[r] \in Call
  BY CallsAssumption DEF TypeOK
<1> QED  BY <1>1, CallsAssumption DEF Call

LEMMA ExpiryType ==
  ASSUME TypeOK, NEW r \in Request
  PROVE  TTL(r) \in Int /\ Expiry(r) \in Int
<1>1. TTL(r) \in Int
  BY CallFacts, BoundAssumption DEF TTL
<1>2. stamp[r] \in Int /\ MaxInt \in Int
  BY BoundAssumption DEF TypeOK
<1> QED  BY <1>1, <1>2 DEF Expiry, Wrap

LEMMA NewRowFacts ==
  ASSUME TypeOK, NEW r \in Request, NEW k \in Key, NEW a \in Account,
         call[r].op \in {"create", "start"}
  PROVE  /\ NewRow(r, k, a) \in Row /\ NewRow(r, k, a) # Gone
         /\ NewRow(r, k, a).account = a /\ NewRow(r, k, a).expires = Expiry(r)
         /\ NewRow(r, k, a).token = IF call[r].name = NoName THEN Secret[k] ELSE call[r].name
<1> DEFINE token == IF call[r].name = NoName THEN Secret[k] ELSE call[r].name
           friendly == IF call[r].friendly = NoName THEN token ELSE call[r].friendly
<1>1. token \in Name /\ friendly \in Name /\ NoName \in Name \cup {NoName}
  BY CallFacts, SecretAssumption
<1>3. NewRow(r, k, a) = [account |-> a, token |-> token, expires |-> Expiry(r),
                         session |-> NoName, friendly |-> friendly]
  BY DEF NewRow
<1> HIDE DEF token, friendly
<1>4. NewRow(r, k, a) \in Row
  BY <1>1, <1>3, ExpiryType DEF Row
<1> QED  BY <1>3, <1>4, NullAssumption DEF token

\* A step of a request leaves the others where they are.
LEMMA Frame ==
  ASSUME TypeOK, NEW r \in Request, Begin(r) \/ Step(r) \/ Fail(r)
  PROVE  /\ now' = now /\ call' = call
         /\ \A q \in Request \ {r} :
              /\ pc'[q] = pc[q] /\ result'[q] = result[q] /\ as'[q] = as[q]
              /\ stamp'[q] = stamp[q] /\ draft'[q] = draft[q]
              /\ q \in creating' <=> q \in creating
              /\ q \in planting' <=> q \in planting
              /\ q \in knew' <=> q \in knew
BY DEF TypeOK, Begin, Step, Fail, Resolve, CheckExpiry, Insert, Find, Write, Delete, DeleteSessions, Remove,
       FindAccount, InsertAccount, CheckToken, FindToken, InsertToken, Commit, Goto, Answer, Done,
       Missing, StartFails, RollBack, locals, history, tables, Running

LEMMA StoreType ==
  ASSUME TypeOK, NEW k \in Key, NEW row \in Row, Store(k, row)
  PROVE  keys' \in [Key -> Row \cup {Gone}] /\ fresh' \subseteq Key
BY DEF TypeOK, Store

LEMMA InitIInv == Init => IInv
<1> SUFFICES ASSUME Init PROVE IInv
  OBVIOUS
<1>1. TypeOK
  <2>1. keys \in [Key -> Row \cup {Gone}]
    BY SeedsAssumption DEF Init
  <2>2. as \in [Request -> Account \cup {Nobody}] /\ draft \in [Request -> [key : Key, row : Row] \cup {NoDraft}]
    BY DEF Init
  <2> QED  BY <2>1, <2>2, NullAssumption, CallsAssumption DEF Init, TypeOK, PC, Result
<1>2. KeysOK
  BY SeedsAssumption DEF Init, KeysOK
<1>3. NamesOK
  BY DEF Init, NamesOK
<1>4. ControlOK /\ DraftOK /\ LocksOK /\ StartOK
  BY NullAssumption DEF Init, ControlOK, ControlOf, DraftOK, DraftOf, LocksOK, LocksOf, StartOK, StartOf, StartPCs, KeyPCs
<1> QED  BY <1>1, <1>2, <1>3, <1>4 DEF IInv

-----------------------------------------------------------------------------

\* What a step of a request does to the keys: nothing, or one thing to one key,
\* or it takes away some.
LEMMA KeysMoves ==
  ASSUME IInv, NEW r \in Request, Begin(r) \/ Step(r) \/ Fail(r)
  PROVE  \/ keys' = keys /\ fresh' = fresh
         \/ /\ Insert(r) /\ fresh' \subseteq fresh /\ ~HasToken(call[r].name)
            /\ \E k \in fresh : Store(k, NewRow(r, k, as[r]))
         \/ /\ Commit(r) /\ fresh' \subseteq fresh /\ ~HasToken(call[r].name)
            /\ \E k \in fresh : Store(k, NewRow(r, k, Root))
         \/ /\ Write(r) /\ fresh' = fresh /\ draft[r].key \in Live
            /\ keys' = [keys EXCEPT ![draft[r].key].friendly = Written(r).friendly,
                                    ![draft[r].key].expires = Written(r).expires]
         \/ /\ Delete(r) \/ DeleteSessions(r)
            /\ fresh' = fresh
            /\ \A k \in Key : keys'[k] \in {keys[k], Gone}
            /\ \A k \in Key : keys'[k] # keys[k] => keys[k].account = as[r]
<1> USE DEF IInv
<1>1. CASE Begin(r) \/ Resolve(r) \/ CheckExpiry(r) \/ Find(r) \/ FindAccount(r) \/ InsertAccount(r) \/ CheckToken(r)
           \/ InsertToken(r) \/ Fail(r)
  BY <1>1 DEF Begin, Resolve, CheckExpiry, Find, FindAccount, InsertAccount, CheckToken, InsertToken, Fail,
              Missing, tables
<1>2. CASE Insert(r)
  BY <1>2 DEF Insert, Store, tables
<1>3. CASE Write(r)
  BY <1>3 DEF Write, Missing, tables
<1>4. CASE Delete(r) \/ DeleteSessions(r)
  BY <1>4 DEF Delete, DeleteSessions, Remove, Missing, Named, Live, TypeOK, tables
<1>5. CASE Commit(r)
  <2>1. r \in planting => ~HasToken(call[r].name)
    BY DEF LocksOK, LocksOf, HasToken, Live
  <2> QED  BY <1>5, <2>1 DEF Commit, Store
<1> QED  BY <1>1, <1>2, <1>3, <1>4, <1>5 DEF Step

\* A row that is stored or changed.
LEMMA WrittenFacts ==
  ASSUME IInv, NEW r \in Request, Write(r), draft[r].key \in Live
  PROVE  /\ draft[r].key \in Key /\ keys[draft[r].key] \in Row /\ pc[r] = "write"
         /\ Written(r).friendly \in Name /\ Written(r).expires \in Int
         /\ Written(r).friendly = IF call[r].friendly = NoName THEN draft[r].row.friendly
                                  ELSE call[r].friendly
         /\ Written(r).expires = IF TTL(r) > 0 THEN Expiry(r) ELSE draft[r].row.expires
<1> USE DEF IInv
<1>1. pc[r] = "write"
  BY DEF Write, Missing, Done
<1>2. draft[r] # NoDraft
  BY <1>1 DEF DraftOK, DraftOf
<1>3. draft[r].key \in Key /\ draft[r].row \in Row /\ keys[draft[r].key] \in Row
  BY <1>2 DEF TypeOK, Live
<1>4. draft[r].row.friendly \in Name /\ draft[r].row.expires \in Int
  BY <1>3 DEF Row
<1>5. /\ Written(r).friendly = IF call[r].friendly = NoName THEN draft[r].row.friendly
                               ELSE call[r].friendly
      /\ Written(r).expires = IF TTL(r) > 0 THEN Expiry(r) ELSE draft[r].row.expires
  BY <1>3 DEF Written, Row
<1> QED  BY <1>1, <1>3, <1>4, <1>5, CallFacts, ExpiryType

LEMMA RowUpdate ==
  ASSUME IInv, NEW r \in Request, NEW k \in Live, Write(r), draft[r].key = k,
         keys' = [keys EXCEPT ![k].friendly = Written(r).friendly,
                              ![k].expires = Written(r).expires]
  PROVE  /\ \A j \in Key \ {k} : keys'[j] = keys[j]
         /\ keys'[k] \in Row /\ keys'[k] # Gone
         /\ keys'[k] = [keys[k] EXCEPT !.friendly = Written(r).friendly,
                                       !.expires = Written(r).expires]
         /\ keys'[k].account = keys[k].account /\ keys'[k].token = keys[k].token
         /\ keys'[k].session = keys[k].session
         /\ keys'[k].friendly = Written(r).friendly /\ keys'[k].expires = Written(r).expires
<1> DEFINE n == Written(r).friendly
           e == Written(r).expires
<1>1. k \in Key /\ keys[k] \in Row /\ n \in Name /\ e \in Int
  BY WrittenFacts
<1>2. TypeOK
  BY DEF IInv
<1> HIDE DEF n, e
<1>3. keys' = [keys EXCEPT ![k].friendly = n, ![k].expires = e]
  BY DEF n, e
<1>4. /\ \A j \in Key \ {k} : keys'[j] = keys[j]
      /\ keys'[k] = [keys[k] EXCEPT !.friendly = n, !.expires = e]
  BY <1>1, <1>2, <1>3 DEF TypeOK
<1>5. /\ keys'[k] \in Row
      /\ keys'[k].account = keys[k].account /\ keys'[k].token = keys[k].token
      /\ keys'[k].session = keys[k].session
      /\ keys'[k].friendly = n /\ keys'[k].expires = e
  <2> DEFINE old == keys[k]
             new == keys'[k]
  <2>1. old \in Row /\ new = [old EXCEPT !.friendly = n, !.expires = e]
    BY <1>1, <1>4
  <2> HIDE DEF old, new
  <2>2. /\ new \in Row
        /\ new.account = old.account /\ new.token = old.token /\ new.session = old.session
        /\ new.friendly = n /\ new.expires = e
    BY <1>1, <2>1 DEF Row
  <2> QED  BY <2>2 DEF old, new
<1> QED  BY <1>4, <1>5, NullAssumption DEF n, e

LEMMA TypeStep ==
  ASSUME IInv, NEW r \in Request, Begin(r) \/ Step(r) \/ Fail(r)
  PROVE  TypeOK'
<1> USE DEF IInv
<1>1. TypeOK /\ ControlOf(r) /\ DraftOf(r) /\ call' = call /\ now' = now
  BY Frame DEF ControlOK, DraftOK
<1> HIDE DEF IInv
<1>2. call[r].op # "start" => First[call[r].op] \in PC
  BY <1>1, CallFacts DEF First, Op, PC
<1>3. CASE Begin(r)
  <2>1. pc' \in [Request -> PC] /\ stamp' \in [Request -> Int]
    BY <1>1, <1>3 DEF Begin, Goto, TypeOK, PC
  <2> QED  BY <1>1, <1>3, <2>1 DEF Begin, TypeOK, tables, history
<1>4. CASE Resolve(r)
  <2>1. \A k \in Live : [key |-> k, row |-> keys[k]] \in [key : Key, row : Row]
    BY <1>1 DEF Live, TypeOK
  <2>2. pc' \in [Request -> PC] /\ result' \in [Request -> Result]
    BY <1>1, <1>4 DEF Resolve, Goto, Answer, TypeOK, PC, Result
  <2>3. draft' \in [Request -> [key : Key, row : Row] \cup {NoDraft}]
    BY <1>1, <1>4, <2>1 DEF Resolve, TypeOK
  <2> QED  BY <1>1, <1>4, <2>2, <2>3 DEF Resolve, TypeOK, tables, history
<1>14. CASE CheckExpiry(r)
  <2>1. pc[r] = "checkExpiry" /\ draft[r].row.account \in Account
    BY <1>1, <1>14 DEF CheckExpiry, DraftOf, TypeOK, Row
  <2>2. pc' \in [Request -> PC] /\ result' \in [Request -> Result]
    BY <1>1, <1>2, <1>14, <2>1 DEF CheckExpiry, Goto, Answer, TypeOK, PC, Result, ControlOf
  <2>3. stamp' \in [Request -> Int]
    <3>1. stamp' = stamp \/ stamp' = [stamp EXCEPT ![r] = now]
      BY <1>14 DEF CheckExpiry
    <3> QED  BY <1>1, <3>1 DEF TypeOK
  <2>4. draft' \in [Request -> [key : Key, row : Row] \cup {NoDraft}]
    BY <1>1, <1>14 DEF CheckExpiry, TypeOK
  <2>5. as' = as \/ \E a \in Account : as' = [as EXCEPT ![r] = a]
    BY <1>14, <2>1 DEF CheckExpiry
  <2>6. as' \in [Request -> Account \cup {Nobody}]
    BY <1>1, <2>5 DEF TypeOK
  <2> QED  BY <1>1, <1>14, <2>2, <2>3, <2>4, <2>6 DEF CheckExpiry, TypeOK, tables, history
<1>5. CASE Insert(r)
  <2>1. \A k \in fresh : k \in Key /\ NewRow(r, k, as[r]) \in Row
    BY <1>1, <1>5, NewRowFacts DEF Insert, ControlOf, KeyPCs, TypeOK
  <2>2. keys' \in [Key -> Row \cup {Gone}] /\ fresh' \subseteq Key
    BY <1>1, <1>5, <2>1, StoreType DEF Insert, tables, TypeOK
  <2>3. raced' \subseteq Request /\ accounts' = accounts
    BY <1>1, <1>5 DEF Insert, Racing, Starting, Running, TypeOK, tables
  <2> QED  BY <1>1, <1>5, <2>2, <2>3 DEF Insert, Answer, Done, TypeOK, PC, Result, locals
<1>6. CASE Find(r)
  <2>1. \A k \in Live : [key |-> k, row |-> keys[k]] \in [key : Key, row : Row]
    BY <1>1 DEF Live, TypeOK
  <2>2. Named(r) \subseteq Live
    BY DEF Named
  <2>3. /\ pc' \in [Request -> PC] /\ stamp' \in [Request -> Int]
        /\ result' \in [Request -> Result] /\ tables' = tables
    BY <1>1, <1>6 DEF Find, Missing, Goto, Answer, TypeOK, PC, Result, tables
  <2>4. draft' \in [Request -> [key : Key, row : Row] \cup {NoDraft}]
    BY <1>1, <1>6, <2>1, <2>2 DEF Find, TypeOK
  <2> QED  BY <1>1, <1>6, <2>3, <2>4 DEF Find, TypeOK, tables, history
<1>7. CASE Write(r)
  <2>1. /\ keys' \in [Key -> Row \cup {Gone}] /\ stale' \subseteq Request
        /\ fresh' = fresh /\ accounts' = accounts
    <3>1. CASE draft[r].key \in Live
      <4>1. \A j \in Key : keys'[j] \in Row \cup {Gone}
        <5>1. keys' = [keys EXCEPT ![draft[r].key].friendly = Written(r).friendly,
                                   ![draft[r].key].expires = Written(r).expires]
          BY <1>7, <3>1 DEF Write
        <5>2. /\ keys'[draft[r].key] \in Row
              /\ \A j \in Key \ {draft[r].key} : keys'[j] = keys[j]
          BY <1>7, <3>1, <5>1, RowUpdate
        <5> QED  BY <1>1, <5>2 DEF TypeOK
      <4>2. keys' = [j \in Key |-> keys'[j]]
        BY <1>1, <1>7, <3>1 DEF Write, Missing, TypeOK
      <4> HIDE DEF IInv
      <4> QED  BY <1>1, <1>7, <3>1, <4>1, <4>2 DEF Write, TypeOK
    <3> QED  BY <1>1, <1>7, <3>1 DEF Write, Missing, TypeOK, tables
  <2> QED  BY <1>1, <1>7, <2>1 DEF Write, Missing, Done, Answer, TypeOK, PC, Result, locals
<1>8. CASE Delete(r) \/ DeleteSessions(r)
  <2>1. keys' \in [Key -> Row \cup {Gone}] /\ fresh' = fresh /\ accounts' = accounts
    BY <1>1, <1>8 DEF Delete, DeleteSessions, Remove, Missing, TypeOK, tables
  <2> QED  BY <1>1, <1>8, <2>1 DEF Delete, DeleteSessions, Remove, Missing, Done, Answer, TypeOK, PC, Result, locals, history
<1>9. CASE FindAccount(r)
  BY <1>1, <1>9 DEF FindAccount, Goto, TypeOK, PC, tables, locals, history
<1>10. CASE InsertAccount(r) \/ InsertToken(r)
  BY <1>1, <1>10 DEF InsertAccount, InsertToken, StartFails, RollBack, Goto, Answer, TypeOK, PC, Result, tables
<1>11. CASE CheckToken(r)
  BY <1>1, <1>11 DEF CheckToken, FindToken, Goto, TypeOK, PC, tables, locals
<1>12. CASE Commit(r)
  <2>1. \A k \in fresh : k \in Key /\ NewRow(r, k, Root) \in Row
    BY <1>1, <1>12, NewRowFacts, NullAssumption DEF Commit, Done, ControlOf, StartPCs, TypeOK
  <2>2. keys' \in [Key -> Row \cup {Gone}] /\ fresh' \subseteq Key
    BY <1>1, <1>12, <2>1, StoreType DEF Commit, TypeOK
  <2>3. raced' \subseteq Request /\ accounts' \subseteq Account
    <3>1. Starting \subseteq Request /\ Racing(r, call[r].name) \subseteq Request
      BY DEF Racing, Starting, Running
    <3> QED  BY <1>1, <1>12, <3>1, NullAssumption DEF Commit, TypeOK
  <2>4. /\ pc' \in [Request -> PC] /\ result' \in [Request -> Result]
        /\ creating' \subseteq Request /\ planting' \subseteq Request
    BY <1>1, <1>12 DEF Commit, Done, Answer, RollBack, TypeOK, PC, Result
  <2> QED  BY <1>1, <1>12, <2>2, <2>3, <2>4 DEF Commit, TypeOK
<1>13. CASE Fail(r)
  BY <1>1, <1>13 DEF Fail, Answer, RollBack, TypeOK, PC, Result, tables, history
<1> QED  BY <1>3, <1>4, <1>5, <1>6, <1>7, <1>8, <1>9, <1>10, <1>11, <1>12, <1>13, <1>14 DEF Step

LEMMA KeysStep ==
  ASSUME IInv, NEW r \in Request, Begin(r) \/ Step(r) \/ Fail(r)
  PROVE  KeysOK'
<1>1. TypeOK /\ KeysOK /\ ControlOf(r) /\ TypeOK' /\ (pc[r] # "idle" => Known(r))
  BY TypeStep DEF IInv, ControlOK, NamesOK
<1>2. ASSUME NEW k \in fresh, NEW a \in Account, Store(k, NewRow(r, k, a)), ~HasToken(call[r].name),
             call[r].op \in {"create", "start"}, pc[r] # "idle"
      PROVE  KeysOK'
  <2> DEFINE row == NewRow(r, k, a)
  <2>1. /\ k \in Key /\ row # Gone
        /\ row.token = IF call[r].name = NoName THEN Secret[k] ELSE call[r].name
    <3>1. k \in Key
      BY <1>1, <1>2 DEF TypeOK
    <3> QED  BY <1>1, <1>2, <3>1, NewRowFacts
  <2>2. fresh' = fresh \ {k} /\ keys'[k] = row /\ \A j \in Key \ {k} : keys'[j] = keys[j]
    BY <1>1, <1>2, <2>1 DEF Store, TypeOK
  <2> HIDE DEF row
  <2>3. \A j \in Key : keys[j] # Gone => keys[j].token # row.token
    BY <1>1, <1>2, <2>1 DEF KeysOK, HasToken, Live
  <2>4. keys[k] = Gone
    BY <1>1, <1>2 DEF KeysOK
  <2>5. \A j \in fresh \ {k} : Secret[j] # row.token
    BY <1>1, <1>2, <2>1, SecretAssumption DEF Known, TypeOK
  <2> QED  BY <1>1, <2>1, <2>2, <2>3, <2>4, <2>5 DEF KeysOK, TypeOK
<1>3. CASE keys' = keys /\ fresh' = fresh
  BY <1>1, <1>3 DEF KeysOK
<1>4. CASE Insert(r) /\ ~HasToken(call[r].name) /\ \E k \in fresh : Store(k, NewRow(r, k, as[r]))
  BY <1>1, <1>2, <1>4 DEF Insert, ControlOf, KeyPCs
<1>5. CASE Commit(r) /\ ~HasToken(call[r].name) /\ \E k \in fresh : Store(k, NewRow(r, k, Root))
  BY <1>1, <1>2, <1>5, NullAssumption DEF Commit, Done, ControlOf, StartPCs
<1>6. CASE /\ Write(r) /\ fresh' = fresh /\ draft[r].key \in Live
           /\ keys' = [keys EXCEPT ![draft[r].key].friendly = Written(r).friendly,
                                   ![draft[r].key].expires = Written(r).expires]
  <2> DEFINE k == draft[r].key
  <2>1. /\ \A j \in Key \ {k} : keys'[j] = keys[j]
        /\ keys'[k].token = keys[k].token /\ keys'[k] # Gone
    BY <1>6, RowUpdate
  <2>2. k \in Key /\ k \notin fresh /\ keys[k] # Gone
    BY <1>1, <1>6 DEF Live, KeysOK
  <2>4. fresh' = fresh
    BY <1>6
  <2> HIDE DEF k
  <2>5. \A j \in Key : keys'[j] # Gone => keys[j] # Gone /\ keys'[j].token = keys[j].token
    BY <2>1, <2>2
  <2>7. \A i \in fresh' : keys'[i] = Gone
    BY <1>1, <2>1, <2>2, <2>4 DEF KeysOK, TypeOK
  <2> QED  BY <1>1, <2>4, <2>5, <2>7 DEF KeysOK
<1>7. CASE fresh' = fresh /\ \A k \in Key : keys'[k] \in {keys[k], Gone}
  BY <1>1, <1>7 DEF KeysOK, TypeOK
<1> QED  BY <1>3, <1>4, <1>5, <1>6, <1>7, KeysMoves

LEMMA NamesStep ==
  ASSUME IInv, NEW r \in Request, Begin(r) \/ Step(r) \/ Fail(r)
  PROVE  NamesOK'
<1>1. TypeOK /\ NamesOK /\ call' = call /\ fresh' \subseteq fresh
  BY Frame, KeysMoves DEF IInv
<1>2. \A q \in Request \ {r} : pc'[q] = pc[q]
  BY <1>1, Frame
<1>3. Known(r)
  <2>1. pc[r] # "idle" \/ Begin(r)
    BY <1>1 DEF Step, Fail, Resolve, CheckExpiry, Insert, Find, Write, Delete, DeleteSessions, Remove,
           FindAccount, InsertAccount, CheckToken, FindToken, InsertToken, Commit, Goto, Answer, Done,
           Missing, StartFails, Running
  <2> QED  BY <1>1, <2>1 DEF Begin, NamesOK
<1>4. ASSUME NEW q \in Request, Known(q)  PROVE Known(q)'
  BY <1>1, <1>4 DEF Known
<1> QED  BY <1>1, <1>2, <1>3, <1>4 DEF NamesOK

\* No token changes; a new one is generated or the name in the request.
LEMMA TokenMoves ==
  ASSUME IInv, NEW r \in Request, Begin(r) \/ Step(r) \/ Fail(r), NEW k \in Key, keys'[k] # Gone
  PROVE  \/ keys[k] # Gone /\ keys'[k].token = keys[k].token
         \/ /\ Insert(r) \/ (Commit(r) /\ r \in planting)
            /\ keys'[k].token = call[r].name \/ \E j \in fresh : keys'[k].token = Secret[j]
<1>1. TypeOK /\ KeysOK /\ ControlOf(r)
  BY DEF IInv, ControlOK
<1>2. ASSUME NEW j \in fresh, NEW a \in Account, Store(j, NewRow(r, j, a)),
             call[r].op \in {"create", "start"}, k = j
      PROVE  keys'[k].token = call[r].name \/ \E i \in fresh : keys'[k].token = Secret[i]
  <2>1. j \in Key
    BY <1>1, <1>2 DEF TypeOK
  <2>2. keys'[k] = NewRow(r, j, a)
    BY <1>1, <1>2, <2>1 DEF Store, TypeOK
  <2>3. NewRow(r, j, a).token = IF call[r].name = NoName THEN Secret[j] ELSE call[r].name
    BY <1>1, <1>2, <2>1, NewRowFacts
  <2> QED  BY <2>1, <2>2, <2>3
<1>3. ASSUME NEW j \in fresh, NEW a \in Account, Store(j, NewRow(r, j, a)), k # j
      PROVE  keys'[k] = keys[k]
  BY <1>1, <1>3 DEF Store, TypeOK
<1>4. CASE keys' = keys
  BY <1>4
<1>5. CASE Insert(r) /\ \E j \in fresh : Store(j, NewRow(r, j, as[r]))
  BY <1>1, <1>2, <1>3, <1>5 DEF Insert, ControlOf, KeyPCs
<1>6. CASE Commit(r) /\ \E j \in fresh : Store(j, NewRow(r, j, Root))
  <2>1. call[r].op = "start" /\ (keys' = keys \/ r \in planting)
    BY <1>1, <1>6 DEF Commit, Done, ControlOf, StartPCs
  <2> QED  BY <1>1, <1>2, <1>3, <1>6, <2>1, NullAssumption
<1>7. CASE /\ Write(r) /\ draft[r].key \in Live
           /\ keys' = [keys EXCEPT ![draft[r].key].friendly = Written(r).friendly,
                                   ![draft[r].key].expires = Written(r).expires]
  <2>1. CASE k = draft[r].key
    BY <1>7, <2>1, RowUpdate DEF Live
  <2>2. CASE k # draft[r].key
    BY <1>7, <2>2, RowUpdate
  <2> QED  BY <2>1, <2>2
<1>8. CASE \A j \in Key : keys'[j] \in {keys[j], Gone}
  BY <1>8
<1> QED  BY <1>4, <1>5, <1>6, <1>7, <1>8, KeysMoves

\* A key that is not new keeps its account.
LEMMA AccountMoves ==
  ASSUME IInv, NEW r \in Request, Begin(r) \/ Step(r) \/ Fail(r), NEW k \in Key, k \notin fresh,
         keys'[k] # Gone
  PROVE  /\ keys[k] # Gone /\ keys'[k].account = keys[k].account
         /\ keys'[k] = keys[k] \/ (Write(r) /\ draft[r].key = k)
<1>1. TypeOK
  BY DEF IInv
<1>2. ASSUME NEW j \in fresh, NEW row, Store(j, row)
      PROVE  keys'[k] = keys[k]
  BY <1>1, <1>2 DEF Store, TypeOK
<1>3. CASE /\ Write(r) /\ draft[r].key \in Live
           /\ keys' = [keys EXCEPT ![draft[r].key].friendly = Written(r).friendly,
                                   ![draft[r].key].expires = Written(r).expires]
  <2>1. CASE k = draft[r].key
    BY <1>3, <2>1, RowUpdate DEF Live
  <2>2. CASE k # draft[r].key
    BY <1>3, <2>2, RowUpdate
  <2> QED  BY <2>1, <2>2
<1>4. CASE \A j \in Key : keys'[j] \in {keys[j], Gone}
  BY <1>4
<1>5. CASE keys' = keys
  BY <1>5
<1>6. CASE \/ \E j \in fresh : Store(j, NewRow(r, j, as[r]))
           \/ \E j \in fresh : Store(j, NewRow(r, j, Root))
  BY <1>2, <1>6
<1> QED  BY <1>3, <1>4, <1>5, <1>6, KeysMoves

LEMMA ControlStep ==
  ASSUME IInv, NEW r \in Request, Begin(r) \/ Step(r) \/ Fail(r)
  PROVE  ControlOK'
<1> USE DEF Goto, Answer, Done, Missing
<1>1. TypeOK /\ ControlOK /\ ControlOf(r) /\ call' = call
  BY Frame DEF IInv, ControlOK
<1>2. ASSUME NEW q \in Request, q # r PROVE ControlOf(q)'
  <2>1. pc'[q] = pc[q] /\ result'[q] = result[q] /\ as'[q] = as[q] /\ call' = call
    BY <1>1, <1>2, Frame
  <2>2. ControlOf(q)
    BY <1>1 DEF ControlOK
  <2> QED  BY <2>1, <2>2 DEF ControlOf
<1>3. call[r].op \in Op
  BY <1>1, CallFacts
<1>4. ControlOf(r)'
  <2>1. CASE Begin(r)
    BY <1>1, <1>3, <2>1, NullAssumption DEF ControlOf, Begin, StartPCs, KeyPCs, TypeOK
  <2>2. CASE Resolve(r)
    BY <1>1, <2>2 DEF ControlOf, Resolve, TypeOK, StartPCs, KeyPCs
  <2>8. CASE CheckExpiry(r)
    <3>1. pc[r] = "checkExpiry" /\ draft[r].row.account \in Account
      BY <1>1, <2>8 DEF CheckExpiry, IInv, DraftOK, DraftOf, TypeOK, Row
    <3>2. CASE as' = as /\ Answer(r, "expired")
      BY <1>1, <3>1, <3>2 DEF ControlOf, TypeOK, StartPCs, KeyPCs
    <3>3. CASE /\ as' = [as EXCEPT ![r] = draft[r].row.account]
               /\ pc' = [pc EXCEPT ![r] = First[call[r].op]] /\ result' = result
      <4>1. /\ call[r].op \in {"create", "get", "update", "delete", "sessions"}
            /\ pc'[r] = First[call[r].op] /\ as'[r] \in Account /\ result'[r] = "none"
        BY <1>1, <1>3, <3>1, <3>3 DEF ControlOf, TypeOK, Op
      <4> QED  BY <1>1, <4>1, NullAssumption DEF ControlOf, First, StartPCs, KeyPCs
    <3> QED  BY <2>8, <3>2, <3>3 DEF CheckExpiry
  <2>3. CASE Insert(r) \/ Write(r) \/ Delete(r) \/ DeleteSessions(r)
    BY <1>1, <2>3 DEF ControlOf, Insert, Write, Delete, DeleteSessions, Remove, TypeOK, StartPCs, KeyPCs, locals
  <2>4. CASE Find(r)
    BY <1>1, <2>4 DEF ControlOf, Find, TypeOK, StartPCs, KeyPCs
  <2>5. CASE FindAccount(r) \/ CheckToken(r)
    BY <1>1, <2>5 DEF ControlOf, FindAccount, CheckToken, FindToken, TypeOK, StartPCs, KeyPCs, locals
  <2>6. CASE InsertAccount(r) \/ InsertToken(r)
    BY <1>1, <2>6 DEF ControlOf, InsertAccount, InsertToken, StartFails, TypeOK, StartPCs, KeyPCs
  <2>7. CASE Commit(r) \/ Fail(r)
    BY <1>1, <2>7 DEF ControlOf, Commit, Fail, TypeOK, StartPCs, KeyPCs
  <2> QED  BY <2>1, <2>2, <2>3, <2>4, <2>5, <2>6, <2>7, <2>8 DEF Step
<1> QED  BY <1>2, <1>4 DEF ControlOK

LEMMA DraftStep ==
  ASSUME IInv, NEW r \in Request, Begin(r) \/ Step(r) \/ Fail(r)
  PROVE  DraftOK'
<1>1. TypeOK /\ KeysOK /\ ControlOf(r) /\ DraftOK
  BY DEF IInv, ControlOK
<1>2. fresh' \subseteq fresh /\ stale \subseteq stale'
  <2>1. fresh' \subseteq fresh
    BY KeysMoves
  <2>2. stale \subseteq stale'
    BY DEF Begin, Step, Fail, Resolve, CheckExpiry, Insert, Find, Write, Delete, DeleteSessions, Remove,
           FindAccount, InsertAccount, CheckToken, InsertToken, Commit, history
  <2> QED  BY <2>1, <2>2
<1>3. ASSUME NEW q \in Request \ {r}, pc'[q] = "write"  PROVE DraftOf(q)'
  <2> DEFINE k == draft[q].key
  <2>1. pc[q] = "write" /\ draft'[q] = draft[q] /\ as'[q] = as[q]
    BY <1>1, <1>3, Frame
  <2>2. /\ draft[q] # NoDraft /\ k \notin fresh /\ draft[q].row.account = as[q]
        /\ keys[k] # Gone =>
             keys[k].account = as[q] /\ (q \notin stale => keys[k] = draft[q].row)
    BY <2>1 DEF DraftOK, DraftOf, IInv
  <2>3. k \in Key
    BY <1>1, <2>2 DEF TypeOK
  <2>4. ASSUME keys'[k] # Gone
        PROVE  keys'[k].account = as[q] /\ (q \notin stale' => keys'[k] = draft[q].row)
    <3>1. keys[k] # Gone /\ keys'[k].account = keys[k].account
      BY <2>2, <2>3, <2>4, AccountMoves
    <3>2. CASE keys'[k] = keys[k]
      BY <1>2, <2>2, <3>1, <3>2
    <3>3. CASE Write(r) /\ draft[r].key = k
      <4>1. q \in stale'
        BY <1>3, <2>1, <2>3, <3>1, <3>3 DEF Write, Live
      <4> QED  BY <2>2, <3>1, <4>1
    <3> QED  BY <2>2, <2>3, <2>4, <3>2, <3>3, AccountMoves
  <2> QED  BY <1>2, <2>1, <2>2, <2>4 DEF DraftOf
<1>4. ASSUME pc'[r] = "write"  PROVE DraftOf(r)'
  <2>1. Find(r)
    <3>1. call[r].op # "start" => First[call[r].op] # "write"
      BY <1>1, CallFacts DEF First, Op
    <3> QED  BY <1>1, <1>4, <3>1
         DEF Begin, Step, Fail, Resolve, CheckExpiry, Insert, Write, Delete, DeleteSessions, Remove, FindAccount,
             InsertAccount, CheckToken, FindToken, InsertToken, Commit, Goto, Answer, Done,
             Missing, StartFails, TypeOK, ControlOf
  <2>2. PICK k \in Named(r) : draft' = [draft EXCEPT ![r] = [key |-> k, row |-> keys[k]]]
    BY <1>1, <1>4, <2>1 DEF Find, Missing, Answer, TypeOK
  <2>3. keys' = keys /\ fresh' = fresh /\ as' = as
    BY <2>1 DEF Find, Missing, tables
  <2>4. k \in Key /\ keys[k] # Gone /\ keys[k].account = as[r]
    BY DEF Named, Live
  <2>5. draft'[r] = [key |-> k, row |-> keys[k]]
    BY <1>1, <2>2 DEF TypeOK
  <2>6. draft'[r].key = k /\ draft'[r].row = keys[k] /\ draft'[r] # NoDraft
    BY <2>4, <2>5 DEF NoDraft
  <2> QED  BY <1>1, <2>3, <2>4, <2>6 DEF DraftOf, KeysOK
<1>5. ASSUME NEW q \in Request, pc'[q] = "checkExpiry"  PROVE draft'[q] # NoDraft
  <2>1. CASE q # r
    BY <1>1, <1>5, <2>1, Frame DEF DraftOK, DraftOf
  <2>2. CASE q = r
    <3>1. call[r].op # "start" => First[call[r].op] # "checkExpiry"
      BY <1>1, CallFacts DEF First, Op
    <3>2. Resolve(r)
      BY <1>1, <1>5, <2>2, <3>1
         DEF Begin, Step, Fail, CheckExpiry, Insert, Find, Write, Delete, DeleteSessions, Remove,
             FindAccount, InsertAccount, CheckToken, FindToken, InsertToken, Commit, Goto, Answer,
             Done, Missing, StartFails, TypeOK, ControlOf
    <3>3. PICK k \in Live : draft'[r] = [key |-> k, row |-> keys[k]]
      BY <1>1, <1>5, <2>2, <3>2 DEF Resolve, Answer, TypeOK
    <3> QED  BY <2>2, <3>3 DEF NoDraft, Live
  <2> QED  BY <2>1, <2>2
<1> QED  BY <1>3, <1>4, <1>5 DEF DraftOK, DraftOf

\* What a step of a request does to the account, the uncommitted INSERTs and the
\* history of the starts.
LEMMA StartMoves ==
  ASSUME IInv, NEW r \in Request, Begin(r) \/ Step(r) \/ Fail(r)
  PROVE  /\ accounts \subseteq accounts' /\ raced \subseteq raced' /\ knew \subseteq knew'
         /\ creating' \subseteq creating \cup {r} /\ planting' \subseteq planting \cup {r}
         /\ accounts' # accounts =>
              Commit(r) /\ r \in creating /\ accounts' = accounts \cup {Root}
         /\ r \in creating' =>
              /\ pc'[r] \in {"findToken", "insertToken", "commit"} /\ accounts' = accounts
              /\ r \in creating \/ (creating = {} /\ Root \notin accounts)
         /\ r \in planting' =>
              /\ pc'[r] = "commit" /\ keys' = keys
              /\ r \in planting \/ (/\ ~HasToken(call[r].name)
                                   /\ \A q \in planting : call[q].name # call[r].name)
<1>1. TypeOK /\ LocksOf(r) /\ ControlOf(r)
  BY DEF IInv, LocksOK, ControlOK
<1> USE DEF Goto, Answer, Done, Missing, RollBack
<1>2. CASE Begin(r) \/ FindAccount(r)
  BY <1>1, <1>2 DEF Begin, FindAccount, LocksOf, TypeOK, tables, locals, history
<1>3. CASE Resolve(r) \/ CheckExpiry(r) \/ Find(r) \/ Write(r) \/ Delete(r) \/ DeleteSessions(r)
  BY <1>1, <1>3 DEF Resolve, CheckExpiry, Find, Write, Delete, DeleteSessions, Remove, LocksOf, TypeOK, tables, locals, history
<1>4. CASE Insert(r)
  BY <1>1, <1>4 DEF Insert, LocksOf, TypeOK, tables, locals
<1>5. CASE InsertAccount(r) \/ InsertToken(r)
  BY <1>1, <1>5 DEF InsertAccount, InsertToken, StartFails, LocksOf, TypeOK, tables
<1>6. CASE CheckToken(r)
  BY <1>1, <1>6 DEF CheckToken, FindToken, LocksOf, TypeOK, tables, locals
<1>7. CASE Commit(r)
  BY <1>1, <1>7 DEF Commit, LocksOf, TypeOK
<1>8. CASE Fail(r)
  BY <1>1, <1>8 DEF Fail, LocksOf, TypeOK, tables, history
<1> QED  BY <1>2, <1>3, <1>4, <1>5, <1>6, <1>7, <1>8 DEF Step

LEMMA LocksStep ==
  ASSUME IInv, NEW r \in Request, Begin(r) \/ Step(r) \/ Fail(r)
  PROVE  LocksOK'
<1>1. TypeOK /\ TypeOK' /\ LocksOK /\ ControlOK /\ call' = call
  BY TypeStep, Frame DEF IInv
<1>2. ASSUME NEW q \in Request, q \in creating'
      PROVE  pc'[q] \in {"findToken", "insertToken", "commit"} /\ Root \notin accounts'
  <2>1. CASE q = r
    BY <1>1, <1>2, <2>1, StartMoves DEF LocksOK, LocksOf
  <2>2. CASE q # r
    <3>1. q \in creating /\ pc'[q] = pc[q]
      BY <1>2, <2>2, Frame, <1>1
    <3> QED  BY <1>1, <2>2, <3>1, StartMoves DEF LocksOK, LocksOf
  <2> QED  BY <2>1, <2>2
<1>3. ASSUME NEW q \in Request, q \in planting'
      PROVE  pc'[q] = "commit" /\ \A k \in Key : keys'[k] # Gone => keys'[k].token # call[q].name
  <2>1. CASE q = r
    BY <1>1, <1>3, <2>1, StartMoves DEF LocksOK, LocksOf, HasToken, Live
  <2>2. CASE q # r
    <3>1. q \in planting /\ pc'[q] = pc[q] /\ pc[q] = "commit"
      <4>1. q \in planting /\ pc'[q] = pc[q]
        BY <1>1, <1>3, <2>2, Frame
      <4> QED  BY <1>1, <4>1 DEF LocksOK, LocksOf
    <3>2. \A j \in fresh : call[q].name # Secret[j]
      BY <3>1 DEF IInv, NamesOK, Known
    <3>3. (Insert(r) \/ (Commit(r) /\ r \in planting)) => call[q].name # call[r].name
      BY <1>1, <2>2, <3>1 DEF Insert, LocksOK
    <3> QED  BY <1>1, <3>1, <3>2, <3>3, TokenMoves DEF LocksOK, LocksOf
  <2> QED  BY <2>1, <2>2
<1>4. \A p, q \in creating' : p = q
  BY <1>1, StartMoves, Frame DEF LocksOK, TypeOK
<1>5. \A p, q \in planting' : call[p].name = call[q].name => p = q
  BY <1>1, StartMoves, Frame DEF LocksOK, TypeOK
<1> QED  BY <1>1, <1>2, <1>3, <1>4, <1>5 DEF LocksOK, LocksOf

\* A start in whose way something came was raced.
LEMMA RaceMoves ==
  ASSUME IInv, NEW r \in Request, Begin(r) \/ Step(r) \/ Fail(r), NEW q \in Request, q # r,
         pc[q] \in StartPCs
  PROVE  /\ accounts' # accounts => q \in raced'
         /\ (Insert(r) \/ (Commit(r) /\ r \in planting)) /\ keys' # keys
              /\ call[q].name = call[r].name => q \in raced'
<1>1. q \in Starting \ {r}
  BY DEF Starting, Running, StartPCs, IInv, ControlOK, ControlOf
<1>2. accounts' # accounts => q \in raced'
  <2>1. accounts' # accounts => Commit(r) /\ r \in creating
    BY StartMoves
  <2> QED  BY <1>1, <2>1 DEF Commit
<1>3. Insert(r) /\ keys' # keys /\ call[q].name = call[r].name => q \in raced'
  BY <1>1 DEF Insert, Racing, tables
<1>4. Commit(r) /\ r \in planting /\ call[q].name = call[r].name => q \in raced'
  BY <1>1 DEF Commit, Racing
<1> QED  BY <1>2, <1>3, <1>4

LEMMA StartStep ==
  ASSUME IInv, NEW r \in Request, Begin(r) \/ Step(r) \/ Fail(r)
  PROVE  StartOK'
<1>1. TypeOK /\ TypeOK' /\ LocksOK /\ ControlOK /\ StartOK /\ call' = call
  BY TypeStep, Frame DEF IInv
<1>2. ASSUME NEW q \in Request \ {r}  PROVE StartOf(q)'
  <2>1. /\ pc'[q] = pc[q] /\ result'[q] = result[q]
        /\ (q \in creating' <=> q \in creating) /\ (q \in planting' <=> q \in planting)
        /\ (q \in knew' <=> q \in knew)
    BY <1>1, Frame
  <2>2. raced \subseteq raced' /\ accounts \subseteq accounts'
    BY StartMoves
  <2>3. pc[q] \in StartPCs => (accounts' # accounts => q \in raced')
    BY RaceMoves
  <2>4. ASSUME pc[q] = "insertToken", q \notin raced', NEW k \in Key, keys'[k] # Gone
        PROVE  keys'[k].token # call[q].name
    <3>1. pc[q] \in StartPCs /\ \A j \in fresh : call[q].name # Secret[j]
      BY <1>1, <2>4 DEF StartPCs, IInv, NamesOK, Known
    <3>2. \A j \in Key : keys[j] # Gone => keys[j].token # call[q].name
      BY <1>1, <2>2, <2>4 DEF StartOK, StartOf
    <3>3. CASE keys' = keys
      BY <2>4, <3>2, <3>3
    <3>4. CASE keys' # keys
      <4>1. Insert(r) \/ (Commit(r) /\ r \in planting) => call[q].name # call[r].name
        BY <2>4, <3>1, <3>4, RaceMoves
      <4> QED  BY <2>4, <3>1, <3>2, <4>1, TokenMoves
    <3> QED  BY <3>3, <3>4
  <2>5. StartOf(q)
    BY <1>1 DEF StartOK
  <2> QED  BY <1>1, <2>1, <2>2, <2>3, <2>4, <2>5 DEF StartOf, StartPCs
<1>3. StartOf(r)'
  <2> USE DEF Goto, Answer, Done, Missing, RollBack
  <2>0. StartOf(r) /\ LocksOf(r) /\ ControlOf(r)
    BY <1>1 DEF StartOK, LocksOK, ControlOK
  <2>1. CASE Begin(r) \/ Fail(r)
    BY <1>1, <2>0, <2>1 DEF Begin, Fail, StartOf, TypeOK, tables, history, Running
  <2>2. CASE Resolve(r) \/ CheckExpiry(r)
    <3>1. call[r].op # "start" => First[call[r].op] \notin StartPCs
      BY <1>1, CallFacts DEF First, Op, StartPCs
    <3> QED  BY <1>1, <2>0, <2>2, <3>1 DEF Resolve, CheckExpiry, StartOf, TypeOK, StartPCs, ControlOf
  <2>3. CASE Insert(r) \/ Find(r) \/ Write(r) \/ Delete(r) \/ DeleteSessions(r)
    <3>1. pc'[r] \in {"write", "answered"} /\ result'[r] # "failed"
      BY <1>1, <2>0, <2>3 DEF Insert, Find, Write, Delete, DeleteSessions, Remove, StartOf, ControlOf, TypeOK
    <3> QED  BY <3>1 DEF StartOf
  <2>4. CASE FindAccount(r) \/ CheckToken(r)
    BY <1>1, <2>0, <2>4 DEF FindAccount, CheckToken, FindToken, StartOf, TypeOK, tables, locals, history,
                             HasToken, Live
  <2>5. CASE InsertAccount(r)
    BY <1>1, <2>0, <2>5 DEF InsertAccount, StartFails, StartOf, TypeOK, tables
  <2>6. CASE InsertToken(r)
    BY <1>1, <2>0, <2>6 DEF InsertToken, StartFails, StartOf, TypeOK, tables, HasToken, Live
  <2>7. CASE Commit(r)
    BY <1>1, <2>0, <2>7 DEF Commit, StartOf, TypeOK
  <2> QED  BY <2>1, <2>2, <2>3, <2>4, <2>5, <2>6, <2>7 DEF Step
<1> QED  BY <1>2, <1>3 DEF StartOK

-----------------------------------------------------------------------------

LEMMA SameIInv ==
  ASSUME IInv, now' \in Nat, UNCHANGED <<tables, pc, call, result, locals, history>>
  PROVE  IInv'
<1> USE DEF tables, locals, history
<1>1. TypeOK'
  BY DEF IInv, TypeOK
<1>2. KeysOK' /\ NamesOK'
  BY DEF IInv, KeysOK, NamesOK, Known
<1>3. ControlOK'
  BY DEF IInv, ControlOK, ControlOf
<1>4. DraftOK'
  BY DEF IInv, DraftOK, DraftOf
<1>5. LocksOK'
  BY DEF IInv, LocksOK, LocksOf
<1>6. StartOK'
  BY DEF IInv, StartOK, StartOf
<1> QED  BY <1>1, <1>2, <1>3, <1>4, <1>5, <1>6 DEF IInv

LEMMA IInvStep == IInv /\ [Next]_vars => IInv'
<1> SUFFICES ASSUME IInv, [Next]_vars  PROVE IInv'
  OBVIOUS
<1>1. CASE Tick
  <2>1. now' \in Nat /\ UNCHANGED <<tables, pc, call, result, locals, history>>
    BY <1>1 DEF Tick, IInv, TypeOK
  <2> QED  BY <2>1, SameIInv
<1>2. CASE UNCHANGED vars
  <2>1. now' \in Nat /\ UNCHANGED <<tables, pc, call, result, locals, history>>
    BY <1>2 DEF vars, IInv, TypeOK
  <2> QED  BY <2>1, SameIInv
<1>3. CASE \E r \in Request : Begin(r) \/ Step(r) \/ Fail(r)
  BY <1>3, TypeStep, KeysStep, NamesStep, ControlStep, DraftStep, LocksStep, StartStep DEF IInv
<1> QED  BY <1>1, <1>2, <1>3 DEF Next

\* The inductive invariant.
THEOREM Invariance == Spec => []IInv
BY InitIInv, IInvStep, PTL DEF Spec

\* Every variable keeps its type.
THEOREM TypeCorrect == Spec => []TypeOK
BY Invariance, PTL DEF IInv

\* EnsureBootstrap fails at a unique index only if its account or its token was
\* committed by somebody else while it ran.
THEOREM FailedStart == Spec => []FailedStartOnlyByOverlap
<1>1. IInv => FailedStartOnlyByOverlap
  BY DEF IInv, StartOK, StartOf, FailedStartOnlyByOverlap
<1> QED  BY <1>1, Invariance, PTL

-----------------------------------------------------------------------------

LEMMA Steps ==
  ASSUME IInv, [Next]_vars
  PROVE  \/ \E r \in Request : Begin(r) \/ Step(r) \/ Fail(r)
         \/ UNCHANGED <<tables, pc, call, result, locals, history>> /\ now' \in {now, now + 1}
BY DEF Next, Tick, vars

\* A key that is new, or that was changed.
LEMMA StoredFacts ==
  ASSUME IInv, NEW r \in Request, Begin(r) \/ Step(r) \/ Fail(r), NEW k \in Key,
         keys'[k] # Gone, keys[k] = Gone
  PROVE  /\ k \in fresh /\ pc'[r] = "answered" /\ r \in Running
         /\ call[r].op \in {"create", "start"}
         /\ \E a \in Account : Store(k, NewRow(r, k, a)) /\ keys'[k].expires = Expiry(r)
<1>1. TypeOK /\ ControlOf(r) /\ KeysOK
  BY DEF IInv, ControlOK
<1>2. ASSUME NEW j \in fresh, NEW a \in Account, Store(j, NewRow(r, j, a)),
             call[r].op \in {"create", "start"}
      PROVE  k \in fresh /\ k = j /\ keys'[k].expires = Expiry(r)
  <2>1. k = j /\ keys'[k] = NewRow(r, j, a)
    BY <1>1, <1>2 DEF Store, TypeOK
  <2> QED  BY <1>1, <1>2, <2>1, NewRowFacts
<1>3. CASE Insert(r) /\ \E j \in fresh : Store(j, NewRow(r, j, as[r]))
  <2>1. call[r].op = "create" /\ as[r] \in Account /\ r \in Running /\ pc'[r] = "answered"
    BY <1>1, <1>3 DEF Insert, Answer, Done, ControlOf, KeyPCs, Running, TypeOK
  <2> QED  BY <1>2, <1>3, <2>1
<1>4. CASE Commit(r) /\ \E j \in fresh : Store(j, NewRow(r, j, Root))
  <2>1. call[r].op = "start" /\ r \in Running /\ pc'[r] = "answered"
    BY <1>1, <1>4 DEF Commit, Answer, Done, ControlOf, StartPCs, Running, TypeOK
  <2> QED  BY <1>2, <1>4, <2>1, NullAssumption
<1>5. CASE k \notin fresh
  BY <1>5, AccountMoves
<1>6. CASE keys' = keys \/ \A j \in Key : keys'[j] \in {keys[j], Gone}
  BY <1>6
<1>7. CASE Write(r) /\ fresh' = fresh /\ draft[r].key \in Live
           /\ keys' = [keys EXCEPT ![draft[r].key].friendly = Written(r).friendly,
                                   ![draft[r].key].expires = Written(r).expires]
  BY <1>7, RowUpdate DEF Live
<1> QED  BY <1>3, <1>4, <1>6, <1>7, KeysMoves

LEMMA ChangedFacts ==
  ASSUME IInv, NEW r \in Request, Begin(r) \/ Step(r) \/ Fail(r), NEW k \in Live,
         keys'[k] # Gone, keys'[k] # keys[k]
  PROVE  /\ Write(r) /\ Answers(r, "write") /\ r \in Running /\ draft[r].key = k
         /\ r \notin stale => keys[k] = draft[r].row
         /\ call[r].op = "update"
         /\ keys'[k].account = keys[k].account /\ keys[k].account = as[r]
         /\ keys'[k].token = keys[k].token
         /\ keys'[k] = [keys[k] EXCEPT !.friendly = keys'[k].friendly, !.expires = keys'[k].expires]
         /\ keys'[k] \in Row /\ \A j \in Key \ {k} : keys'[j] = keys[j]
         /\ keys'[k].friendly = IF call[r].friendly = NoName THEN draft[r].row.friendly
                                ELSE call[r].friendly
         /\ keys'[k].expires = IF TTL(r) > 0 THEN Expiry(r) ELSE draft[r].row.expires
<1>1. TypeOK /\ KeysOK /\ k \in Key /\ keys[k] # Gone /\ k \notin fresh
  BY DEF IInv, Live, KeysOK
<1>2. Write(r) /\ draft[r].key = k
  BY <1>1, AccountMoves
<1>3. keys' = [keys EXCEPT ![k].friendly = Written(r).friendly, ![k].expires = Written(r).expires]
  BY <1>2 DEF Write
<1>4. Answers(r, "write") /\ r \in Running
  BY <1>1, <1>2 DEF Write, Done, Answer, Answers, Running, TypeOK
<1>5. (r \notin stale => keys[k] = draft[r].row) /\ keys[k].account = as[r] /\ call[r].op = "update"
  BY <1>1, <1>2, <1>4 DEF IInv, DraftOK, DraftOf, ControlOK, ControlOf, Answers
<1>6. /\ \A j \in Key \ {k} : keys'[j] = keys[j]
      /\ keys'[k] \in Row
      /\ keys'[k] = [keys[k] EXCEPT !.friendly = Written(r).friendly, !.expires = Written(r).expires]
      /\ keys'[k].account = keys[k].account /\ keys'[k].token = keys[k].token
      /\ keys'[k].friendly = Written(r).friendly /\ keys'[k].expires = Written(r).expires
  BY <1>2, <1>3, RowUpdate
<1>7. /\ Written(r).friendly = IF call[r].friendly = NoName THEN draft[r].row.friendly
                               ELSE call[r].friendly
      /\ Written(r).expires = IF TTL(r) > 0 THEN Expiry(r) ELSE draft[r].row.expires
  BY <1>2, WrittenFacts
<1> QED  BY <1>2, <1>4, <1>5, <1>6, <1>7

\* UpdateAccessKey writes back what it read: a field nobody asked to change
\* changes only if another update of the key came in between.
THEOREM ChangedAsAsked == Spec => ChangedOnlyAsAsked
<1> DEFINE P(k) == keys'[k] \notin {keys[k], Gone} =>
         \E r \in Request :
           /\ Answers(r, "write") /\ draft[r].key = k
           /\ \/ r \in stale
              \/ /\ keys'[k].friendly # keys[k].friendly => call[r].friendly # NoName
                 /\ keys'[k].expires # keys[k].expires => call[r].ttl > 0
<1>1. ASSUME IInv, [Next]_vars, NEW k \in Live  PROVE P(k)
  <2>1. ASSUME NEW r \in Request, Begin(r) \/ Step(r) \/ Fail(r), keys'[k] \notin {keys[k], Gone}
        PROVE  P(k)
    <3>1. /\ Answers(r, "write") /\ draft[r].key = k
          /\ r \notin stale => keys[k] = draft[r].row
          /\ call[r].op = "update"
          /\ keys'[k].friendly = IF call[r].friendly = NoName THEN draft[r].row.friendly
                                 ELSE call[r].friendly
          /\ keys'[k].expires = IF TTL(r) > 0 THEN Expiry(r) ELSE draft[r].row.expires
      <4>1. keys'[k] # Gone /\ keys'[k] # keys[k]
        BY <2>1
      <4> QED  BY <1>1, <2>1, <4>1, ChangedFacts
    <3> QED  BY <3>1 DEF TTL
  <2>2. CASE UNCHANGED tables
    BY <2>2 DEF tables
  <2> QED  BY <1>1, <2>1, <2>2, Steps
<1>2. IInv /\ [Next]_vars => \A k \in Live : P(k)
  BY <1>1
<1> QED  BY <1>2, Invariance, PTL DEF Spec, ChangedOnlyAsAsked

\* No key ends before its time but by a negative or overflowing TTL, by one that
\* ran out before the statement, or by an overlap of two updates.
THEOREM LapsesByWill == Spec => LapsesOnlyByWill
<1> DEFINE P(k) == /\ keys'[k] # Gone /\ keys'[k].expires < now'
                   /\ keys[k] = Gone \/ keys[k].expires >= now'
                   => \E r \in Running : pc'[r] = "answered" /\ MayLapse(r)
<1>1. ASSUME IInv, [Next]_vars, NEW k \in Key  PROVE P(k)
  <2>1. TypeOK /\ now \in Nat /\ MaxInt \in Nat
    BY <1>1, BoundAssumption DEF IInv, TypeOK
  <2>2. ASSUME NEW r \in Request, Begin(r) \/ Step(r) \/ Fail(r), keys'[k] # Gone,
               keys'[k].expires < now', keys[k] = Gone \/ keys[k].expires >= now'
        PROVE  P(k)
    <3>1. now' = now /\ stamp[r] \in Int
      BY <2>1, <2>2, Frame DEF TypeOK
    <3>2. TTL(r) = Promised(r) /\ TTL(r) \in Int /\ Expiry(r) \in Int
      BY <2>1, ExpiryType DEF TTL, Promised
    <3>3. ASSUME Expiry(r) < now  PROVE stamp[r] + TTL(r) > MaxInt \/ stamp[r] + TTL(r) < now
      BY <2>1, <3>1, <3>2, <3>3 DEF Expiry, Wrap
    <3>4. CASE keys[k] = Gone
      BY <1>1, <2>2, <3>1, <3>2, <3>3, <3>4, StoredFacts DEF MayLapse
    <3>5. CASE keys[k] # Gone
      <4>1. keys[k].expires >= now /\ keys'[k].expires < now /\ k \in Live
        BY <2>2, <3>1, <3>5 DEF Live
      <4>2. keys[k].expires \in Int
        BY <2>1, <3>5 DEF TypeOK, Row
      <4>3. keys'[k] # keys[k]
        BY <2>1, <4>1, <4>2
      <4>4. /\ r \in Running /\ pc'[r] = "answered"
            /\ r \notin stale => keys[k] = draft[r].row
            /\ keys'[k].expires = IF TTL(r) > 0 THEN Expiry(r) ELSE draft[r].row.expires
        <5>1. /\ Answers(r, "write") /\ r \in Running
              /\ r \notin stale => keys[k] = draft[r].row
              /\ keys'[k].expires = IF TTL(r) > 0 THEN Expiry(r) ELSE draft[r].row.expires
          BY <1>1, <2>2, <4>1, <4>3, ChangedFacts
        <5> QED  BY <5>1 DEF Answers
      <4>5. r \in stale \/ Expiry(r) < now
        BY <2>1, <4>1, <4>2, <4>4
      <4> QED  BY <3>2, <3>3, <4>4, <4>5 DEF MayLapse
    <3> QED  BY <3>4, <3>5
  <2>3. CASE UNCHANGED tables /\ now' \in {now, now + 1}
    <3>1. keys' = keys
      BY <2>3 DEF tables
    <3>2. keys[k] # Gone => keys[k].expires \in Int
      BY <2>1 DEF TypeOK, Row
    <3> QED  BY <2>1, <2>3, <3>1, <3>2
  <2> QED  BY <1>1, <2>2, <2>3, Steps
<1>2. IInv /\ [Next]_vars => \A k \in Key : P(k)
  BY <1>1
<1> QED  BY <1>2, Invariance, PTL DEF Spec, LapsesOnlyByWill

\* A start that succeeds leaves a key of the bootstrap account, or found one
\* with the token, whosever it was.
THEOREM StartLeaves == Spec => StartLeavesKey
<1> DEFINE P(r) == Answers(r, "commit") /\ result'[r] = "ok" =>
         \/ r \in knew
         \/ /\ Root \in accounts'
            /\ \E k \in Key : /\ keys'[k] # Gone /\ keys'[k].account = Root
                             /\ keys'[k].token = call[r].name
<1>1. ASSUME IInv, [Next]_vars, NEW r \in Request, Answers(r, "commit"), result'[r] = "ok", r \notin knew
      PROVE  /\ Root \in accounts'
             /\ \E k \in Key : /\ keys'[k] # Gone /\ keys'[k].account = Root
                              /\ keys'[k].token = call[r].name
  <2>1. TypeOK /\ pc[r] = "commit" /\ pc'[r] = "answered" /\ r \in planting
    BY <1>1 DEF Answers, IInv, StartOK, StartOf
  <2>2. ASSUME NEW q \in Request, Begin(q) \/ Step(q) \/ Fail(q)  PROVE q = r
    BY <1>1, <2>1, <2>2, Frame
  <2>3. Begin(r) \/ Step(r) \/ Fail(r)
    BY <1>1, <2>1, <2>2, Steps
  <2>4. Commit(r)
    BY <1>1, <2>1, <2>3
       DEF Begin, Step, Fail, Resolve, CheckExpiry, Insert, Find, Write, Delete, DeleteSessions, Remove, FindAccount,
           InsertAccount, CheckToken, FindToken, InsertToken, Goto, Done, Missing, StartFails, Answer, TypeOK
  <2>5. PICK k \in fresh : Store(k, NewRow(r, k, Root))
    BY <2>1, <2>4 DEF Commit
  <2>6. k \in Key /\ call[r].op = "start" /\ call[r].name # NoName
    <3>1. call[r].op = "start"
      BY <1>1, <2>1 DEF IInv, ControlOK, ControlOf, StartPCs
    <3> QED  BY <2>1, <2>5, <3>1, CallFacts DEF TypeOK
  <2>7. keys'[k] = NewRow(r, k, Root)
    BY <2>1, <2>5, <2>6 DEF Store, TypeOK
  <2>8. keys'[k] # Gone /\ keys'[k].account = Root /\ keys'[k].token = call[r].name
    BY <2>1, <2>6, <2>7, NewRowFacts, NullAssumption
  <2>9. Root \in accounts'
    BY <1>1, <2>1, <2>4 DEF Commit, IInv, StartOK, StartOf
  <2> QED  BY <2>6, <2>8, <2>9
<1>2. IInv /\ [Next]_vars => \A r \in Request : P(r)
  BY <1>1
<1> QED  BY <1>2, Invariance, PTL DEF Spec, StartLeavesKey

-----------------------------------------------------------------------------
(* AccessKeys implements KeyRegistry. *)

LEMMA InitRegistry == Init => Registry!Init
<1> SUFFICES ASSUME Init  PROVE Registry!Init
  OBVIOUS
<1>1. TypeOK
  BY InitIInv DEF IInv
<1>2. Row = Registry!Row /\ Live = Registry!Live
  BY DEF Row, Registry!Row, Live, Registry!Live
<1>3. now \in Int /\ keys \in [Key -> Row \cup {Gone}]
  BY <1>1 DEF TypeOK
<1>4. fresh = Key \ Live
  BY DEF Init, Live
<1>5. Shown \in [Request -> Name]
  BY <1>1, CallFacts DEF Shown
<1>6. Session = [r \in Request |-> Nobody]
  BY DEF Session, Init
<1>7. Found = [r \in Request |-> Gone]
  BY DEF Found, Init
<1> QED  BY <1>2, <1>3, <1>4, <1>5, <1>6, <1>7 DEF Registry!Init

LEMMA SameSession ==
  ASSUME IInv, NEW r \in Request, Begin(r) \/ Step(r) \/ Fail(r), ~Resolve(r), ~CheckExpiry(r)
  PROVE  Session' = Session /\ Shown' = Shown /\ now' = now
<1>1. TypeOK /\ ControlOf(r) /\ call' = call /\ now' = now
  BY Frame DEF IInv, ControlOK
<1>2. as' = as
  BY DEF Begin, Step, Fail, Insert, Find, Write, Delete, DeleteSessions, Remove,
         FindAccount, InsertAccount, CheckToken, InsertToken, Commit, locals
<1>3. result[r] = "none" /\ result'[r] \notin {"unauthorized", "expired"}
  BY <1>1 DEF Begin, Step, Fail, Insert, Find, Write, Delete, DeleteSessions, Remove,
         FindAccount, InsertAccount, CheckToken, FindToken, InsertToken, Commit, Goto, Done, Missing,
         StartFails, Answer, Running, ControlOf, TypeOK
<1>4. \A q \in Request \ {r} : result'[q] = result[q]
  BY <1>1, Frame
<1>5. \A q \in Request : result'[q] \in {"unauthorized", "expired"} <=>
                         result[q] \in {"unauthorized", "expired"}
  BY <1>3, <1>4
<1> QED  BY <1>1, <1>2, <1>5 DEF Session, Shown

LEMMA SameFound ==
  ASSUME IInv, NEW r \in Request, Begin(r) \/ Step(r) \/ Fail(r), ~Resolve(r), ~CheckExpiry(r),
         pc[r] # "checkExpiry"
  PROVE  Found' = Found
<1>1. TypeOK /\ ControlOf(r)
  BY DEF IInv, ControlOK
<1>2. pc'[r] # "checkExpiry"
  BY <1>1 DEF Begin, Step, Fail, Insert, Find, Write, Delete, DeleteSessions, Remove,
         FindAccount, InsertAccount, CheckToken, FindToken, InsertToken, Commit, Goto, Done, Missing,
         StartFails, Answer, TypeOK
<1>3. \A q \in Request \ {r} : pc'[q] = pc[q] /\ draft'[q] = draft[q]
  BY <1>1, Frame
<1> QED  BY <1>2, <1>3 DEF Found

\* A request that fails before it is admitted leaves.
LEMMA LeaveRegistry ==
  ASSUME IInv, NEW r \in Request, Fail(r), pc[r] = "checkExpiry"
  PROVE  Registry!Leave(r)
<1>1. TypeOK /\ ControlOf(r)
  BY DEF IInv, ControlOK
<1>2. now' = now /\ keys' = keys /\ fresh' = fresh /\ Shown' = Shown /\ draft' = draft
  BY DEF Fail, tables, Shown
<1>3. Session[r] = Nobody /\ Session' = [Session EXCEPT ![r] = Nobody]
  BY <1>1 DEF Fail, Answer, Session, ControlOf, TypeOK
<1>4. Found' = [Found EXCEPT ![r] = Gone]
  BY <1>1, <1>2 DEF Fail, Answer, Found, TypeOK
<1> QED  BY <1>2, <1>3, <1>4 DEF Registry!Leave, Registry!Decide

LEMMA ResolveRegistry ==
  ASSUME IInv, NEW r \in Request, Resolve(r)
  PROVE  Registry!Present(r) \/ Registry!Refuse(r)
<1>1. TypeOK /\ ControlOf(r) /\ pc[r] = "resolve"
  BY DEF IInv, ControlOK, Resolve, Goto
<1>2. /\ now' = now /\ keys' = keys /\ fresh' = fresh /\ Shown' = Shown
      /\ Live = Registry!Live /\ Shown[r] = call[r].token
  BY DEF Resolve, tables, Shown, Live, Registry!Live
<1>3. result[r] = "none" /\ Session[r] = Nobody /\ Found[r] = Gone /\ as' = as
  BY <1>1 DEF ControlOf, Session, Found, Resolve
<1>4. CASE ~HasToken(call[r].token) /\ draft' = draft /\ Answer(r, "unauthorized")
  <2>1. Session' = [Session EXCEPT ![r] = Refused]
    BY <1>1, <1>3, <1>4 DEF Session, Answer, TypeOK, ControlOf
  <2>2. Found' = Found /\ Found = [Found EXCEPT ![r] = Gone]
    BY <1>1, <1>3, <1>4 DEF Found, Answer, TypeOK
  <2>3. \A k \in Live : keys[k].token # Shown[r]
    BY <1>2, <1>4 DEF HasToken
  <2> QED  BY <1>2, <1>3, <2>1, <2>2, <2>3 DEF Registry!Refuse, Registry!Decide
<1>5. ASSUME NEW k \in Live, keys[k].token = call[r].token, result' = result,
             draft' = [draft EXCEPT ![r] = [key |-> k, row |-> keys[k]]],
             Goto(r, "resolve", "checkExpiry")
      PROVE  Registry!Present(r)
  <2>1. Session' = Session
    BY <1>3, <1>5 DEF Session
  <2>2. pc' = [pc EXCEPT ![r] = "checkExpiry"] /\ draft'[r] = [key |-> k, row |-> keys[k]]
    BY <1>1, <1>5 DEF Goto, TypeOK
  <2>3. draft'[r].row = keys[k]
    BY <2>2
  <2>4. Found' = [Found EXCEPT ![r] = keys[k]]
    BY <1>1, <1>5, <2>2, <2>3 DEF Found, TypeOK
  <2> QED  BY <1>2, <1>3, <1>5, <2>1, <2>4 DEF Registry!Present
<1> QED  BY <1>4, <1>5 DEF Resolve

LEMMA CheckExpiryRegistry ==
  ASSUME IInv, NEW r \in Request, CheckExpiry(r)
  PROVE  Registry!Admit(r) \/ Registry!Refuse(r)
<1>1. TypeOK /\ ControlOf(r) /\ DraftOf(r) /\ pc[r] = "checkExpiry"
  BY DEF IInv, ControlOK, DraftOK, CheckExpiry
<1>2. draft[r].row \in Row /\ draft[r].row # Gone
  BY <1>1, NullAssumption DEF DraftOf, TypeOK
<1>3. draft[r].row.expires \in Int /\ draft[r].row.account \in Account /\ now \in Int
  BY <1>1, <1>2 DEF Row, TypeOK
<1>4. now' = now /\ keys' = keys /\ fresh' = fresh /\ Shown' = Shown
  BY DEF CheckExpiry, tables, Shown
<1>5. as[r] = Nobody /\ result[r] = "none" /\ Session[r] = Nobody /\ Found[r] = draft[r].row
  BY <1>1 DEF ControlOf, Session, Found
<1>6. First[call[r].op] # "checkExpiry"
  BY <1>1, CallFacts DEF First, Op, ControlOf
<1>7. Found' = [Found EXCEPT ![r] = Gone]
  <2>1. pc'[r] # "checkExpiry" /\ \A q \in Request \ {r} : pc'[q] = pc[q] /\ draft'[q] = draft[q]
    BY <1>1, <1>6 DEF CheckExpiry, Goto, Answer, TypeOK
  <2> QED  BY <2>1 DEF Found
<1>8. CASE Expired(r) /\ Answer(r, "expired") /\ as' = as
  <2>1. Session' = [Session EXCEPT ![r] = Refused]
    BY <1>1, <1>5, <1>8 DEF Session, Answer, TypeOK
  <2> QED  BY <1>2, <1>4, <1>5, <1>7, <1>8, <2>1 DEF Expired, Registry!Refuse, Registry!Decide
<1>9. CASE ~Expired(r) /\ as' = [as EXCEPT ![r] = draft[r].row.account] /\ result' = result
  <2>1. Session' = [Session EXCEPT ![r] = draft[r].row.account]
    BY <1>1, <1>3, <1>9, NullAssumption DEF Session, TypeOK
  <2> QED  BY <1>2, <1>3, <1>4, <1>5, <1>7, <1>9, <2>1 DEF Expired, Registry!Admit, Registry!Decide
<1> QED  BY <1>8, <1>9 DEF CheckExpiry

LEMMA StepRegistry ==
  ASSUME IInv, NEW r \in Request, Begin(r) \/ Step(r) \/ Fail(r)
  PROVE  [Registry!Next]_(Registry!vars)
<1>1. TypeOK /\ KeysOK /\ ControlOf(r) /\ TypeOK' /\ (pc[r] # "idle" => Known(r))
  BY TypeStep DEF IInv, ControlOK, NamesOK
<1>2. Live = Registry!Live /\ Row = Registry!Row
  BY DEF Live, Registry!Live, Row, Registry!Row
<1>3. CASE Resolve(r)
  BY <1>3, ResolveRegistry DEF Registry!Next
<1>5. CASE CheckExpiry(r)
  BY <1>5, CheckExpiryRegistry DEF Registry!Next
<1>6. CASE Fail(r) /\ pc[r] = "checkExpiry"
  BY <1>6, LeaveRegistry DEF Registry!Next
<1>4. CASE ~Resolve(r) /\ ~CheckExpiry(r) /\ ~(Fail(r) /\ pc[r] = "checkExpiry")
  <2>0. pc[r] # "checkExpiry"
    BY <1>4 DEF Begin, Step, Insert, Find, Write, Delete, DeleteSessions, Remove, FindAccount,
       InsertAccount, CheckToken, FindToken, InsertToken, Commit, Goto, Done, Missing, StartFails
  <2>1. Session' = Session /\ Shown' = Shown /\ now' = now /\ Found' = Found
    BY <1>4, <2>0, SameSession, SameFound
  <2>2. CASE keys' = keys /\ fresh' = fresh
    BY <2>1, <2>2 DEF Registry!vars
  <2>3. ASSUME NEW k \in fresh, NEW a \in Account, Store(k, NewRow(r, k, a)),
               ~HasToken(call[r].name), call[r].op \in {"create", "start"}, pc[r] # "idle"
        PROVE  Registry!Add(a)
    <3>1. k \in Key /\ keys[k] = Gone
      BY <1>1, <2>3 DEF TypeOK, KeysOK
    <3>2. keys'[k] = NewRow(r, k, a) /\ keys' = [keys EXCEPT ![k] = keys'[k]] /\ fresh' = fresh \ {k}
      BY <1>1, <2>3, <3>1 DEF Store, TypeOK
    <3>3. /\ keys'[k] \in Row /\ keys'[k].account = a
          /\ keys'[k].token = IF call[r].name = NoName THEN Secret[k] ELSE call[r].name
      BY <1>1, <2>3, <3>1, <3>2, NewRowFacts
    <3>4. \A j \in Live : keys[j].token # keys'[k].token
      BY <1>1, <2>3, <3>1, <3>3 DEF KeysOK, HasToken, Live
    <3> QED  BY <1>2, <2>1, <2>3, <3>2, <3>3, <3>4 DEF Registry!Add
  <2>4. CASE Insert(r) /\ ~HasToken(call[r].name) /\ \E k \in fresh : Store(k, NewRow(r, k, as[r]))
    <3>1. /\ call[r].op = "create" /\ as[r] \in Account /\ Session[r] = as[r]
          /\ pc[r] # "idle"
      BY <1>1, <2>4, NullAssumption DEF Insert, ControlOf, KeyPCs, Session
    <3> QED  BY <2>3, <2>4, <3>1 DEF Registry!Issue, Registry!Next
  <2>5. CASE Commit(r) /\ ~HasToken(call[r].name) /\ \E k \in fresh : Store(k, NewRow(r, k, Root))
    <3>1. call[r].op = "start" /\ Session[r] = Nobody /\ pc[r] # "idle"
      BY <1>1, <2>5 DEF Commit, Done, ControlOf, StartPCs, Session
    <3>2. Registry!Add(Root)
      BY <2>3, <2>5, <3>1, NullAssumption
    <3> QED  BY <3>1, <3>2 DEF Registry!Plant, Registry!Next
  <2>6. CASE /\ Write(r) /\ fresh' = fresh /\ draft[r].key \in Live
             /\ keys' = [keys EXCEPT ![draft[r].key].friendly = Written(r).friendly,
                                     ![draft[r].key].expires = Written(r).expires]
    <3> DEFINE k == draft[r].key
    <3>1. k \in Live /\ k \in Key /\ keys'[k] # Gone
      BY <2>6, RowUpdate DEF Live
    <3>2. CASE keys'[k] = keys[k]
      <4>1. \A j \in Key : keys'[j] = keys[j]
        BY <2>6, <3>2, RowUpdate
      <4>2. keys' = keys
        BY <1>1, <4>1 DEF TypeOK
      <4> QED  BY <2>1, <2>6, <4>2 DEF Registry!vars
    <3>3. CASE keys'[k] # keys[k]
      <4>1. /\ Answers(r, "write") /\ keys[k].account = as[r] /\ keys'[k] \in Row
            /\ keys'[k] = [keys[k] EXCEPT !.friendly = keys'[k].friendly, !.expires = keys'[k].expires]
            /\ \A j \in Key \ {k} : keys'[j] = keys[j]
        BY <3>1, <3>3, ChangedFacts
      <4>2. as[r] \in Account /\ Session[r] = as[r]
        BY <1>1, <4>1, NullAssumption DEF Answers, ControlOf, KeyPCs, Session
      <4>3. keys' = [keys EXCEPT ![k] = [@ EXCEPT !.friendly = keys'[k].friendly,
                                                  !.expires = keys'[k].expires]]
        BY <1>1, <3>1, <4>1 DEF TypeOK
      <4>4. Registry!Amend(r)
        BY <1>2, <2>1, <2>6, <3>1, <4>1, <4>2, <4>3 DEF Registry!Amend
      <4> QED  BY <4>4 DEF Registry!Next
    <3> QED  BY <3>2, <3>3
  <2>7. CASE (Delete(r) \/ DeleteSessions(r)) /\ keys' # keys
    <3>1. /\ as[r] \in Account /\ Session[r] = as[r] /\ call[r].name \in Name
          /\ \A k \in Key : keys'[k] \in {keys[k], Gone}
          /\ fresh' = fresh
      <4>1. pc[r] \in KeyPCs /\ call[r].op # "create"
        BY <1>1, <2>7 DEF Delete, DeleteSessions, Remove, Missing, Done, ControlOf, KeyPCs
      <4> QED  BY <1>1, <2>7, <4>1, CallFacts, NullAssumption
               DEF Delete, DeleteSessions, Remove, Missing, tables, ControlOf, Session, TypeOK
    <3>2. \A k \in Live : keys'[k] # keys[k] =>
            keys[k].account = as[r] /\ call[r].name \in {keys[k].token, keys[k].friendly, keys[k].session}
      BY <1>1, <2>7 DEF Delete, DeleteSessions, Remove, Missing, Named, Live, TypeOK, tables
    <3>3. keys' = [k \in Key |-> IF keys'[k] = keys[k] THEN keys[k] ELSE Gone]
      BY <1>1, <3>1 DEF TypeOK
    <3>4. Registry!Revoke(r)
      BY <1>2, <2>1, <3>1, <3>2, <3>3 DEF Registry!Revoke
    <3> QED  BY <3>4 DEF Registry!Next
  <2> QED  BY <2>2, <2>4, <2>5, <2>6, <2>7, KeysMoves
<1> QED  BY <1>3, <1>4, <1>5, <1>6

\* To its callers the service is the registry: every request acts in one step,
\* as the account it was admitted as, on that account's keys alone.
THEOREM Refinement == Spec => ImplementsRegistry
<1>1. ASSUME IInv, [Next]_vars  PROVE [Registry!Next]_(Registry!vars)
  <2>1. CASE Tick
    BY <2>1 DEF Tick, tables, locals, Session, Shown, Found, Registry!Next, Registry!Tick
  <2>2. CASE UNCHANGED vars
    BY <2>2 DEF vars, tables, locals, Session, Shown, Found, Registry!vars
  <2> QED  BY <1>1, <2>1, <2>2, StepRegistry DEF Next
<1> QED  BY <1>1, InitRegistry, Invariance, PTL DEF Spec, ImplementsRegistry, Registry!Spec
-----------------------------------------------------------------------------
(* Requests end: nobody waits in a circle, and every statement is one fewer *)

\* By the unique indexes an INSERT waits for the uncommitted one of the same value.
WaitsFor(r, q) ==
    \/ pc[r] = "insertAccount" /\ q \in creating
    \/ pc[r] \in {"insert", "insertToken"} /\ q \in planting /\ call[q].name = call[r].name
Waits(r) == \E q \in Request : WaitsFor(r, q)

\* Whoever is waited for waits for nobody.  The start that holds the account could wait
\* for one that holds its token, but that one would have found the account there.
NoCircleOfWaits ==
    /\ \A r, q \in Request : WaitsFor(r, q) => q \in Running /\ q # r /\ ~Waits(q)
    /\ Running # {} => \E r \in Running : ~Waits(r)

\* Starts cannot deadlock with one another nor with creations: as long as
\* somebody runs, somebody runs whom no unique index holds up.
THEOREM StartsNeverDeadlock == Spec => []NoCircleOfWaits
<1>1. ASSUME IInv PROVE NoCircleOfWaits
  <2>1. /\ \A q \in creating : pc[q] \in {"findToken", "insertToken", "commit"} /\ Root \notin accounts
        /\ \A q \in planting : pc[q] = "commit" /\ (Root \in accounts \/ q \in creating)
        /\ \A p, q \in creating : p = q
        /\ creating \subseteq Request /\ planting \subseteq Request
    BY <1>1 DEF IInv, LocksOK, LocksOf, StartOK, StartOf, TypeOK
  <2>2. \A q \in planting : q \in Running /\ ~Waits(q)
    BY <2>1 DEF Running, Waits, WaitsFor
  <2>3. ASSUME NEW q \in creating  PROVE q \in Running /\ ~Waits(q)
    <3>1. ASSUME NEW p \in Request, WaitsFor(q, p)  PROVE FALSE
      <4>1. p \in planting /\ pc[q] = "insertToken"
        BY <2>1, <3>1 DEF WaitsFor
      <4> QED  BY <2>1, <4>1
    <3> QED  BY <2>1, <3>1 DEF Running, Waits
  <2>4. ASSUME NEW r \in Request, NEW q \in Request, WaitsFor(r, q)
        PROVE  q \in Running /\ q # r /\ ~Waits(q)
    <3>1. q \in creating \/ q \in planting
      BY <2>4 DEF WaitsFor
    <3>2. Waits(r)
      BY <2>4 DEF Waits
    <3> QED  BY <2>2, <2>3, <3>1, <3>2
  <2>5. ASSUME NEW r \in Running PROVE \E s \in Running : ~Waits(s)
    BY <2>4 DEF Waits, Running
  <2> QED  BY <2>4, <2>5 DEF NoCircleOfWaits
<1> QED  BY <1>1, Invariance, PTL

\* The statements a request has before it, at most.
Ahead == [idle |-> 6, findAccount |-> 5, insertAccount |-> 4, findToken |-> 3,
          insertToken |-> 2, commit |-> 1,
          resolve |-> 4, checkExpiry |-> 3, insert |-> 1, find |-> 2, write |-> 1, delete |-> 1,
          deleteSessions |-> 1, answered |-> 0]

\* Only the clock moves, or a request comes nearer to its answer and takes
\* nobody else back.
EveryStepCounts ==
    [][\/ UNCHANGED pc /\ now' \in {now, now + 1}
       \/ \E r \in Request :
            /\ Ahead[pc'[r]] < Ahead[pc[r]]
            /\ \A q \in Request \ {r} : pc'[q] = pc[q]]_vars

LEMMA StepCounts ==
  ASSUME IInv, NEW r \in Request, Begin(r) \/ Step(r) \/ Fail(r)
  PROVE  /\ Ahead[pc'[r]] < Ahead[pc[r]]
         /\ \A q \in Request \ {r} : pc'[q] = pc[q]
<1>0. pc \in [Request -> PC] /\ call[r].op \in Op /\ TypeOK
  BY CallFacts DEF IInv, TypeOK
<1>1. \A q \in Request \ {r} : pc'[q] = pc[q]
  BY <1>0, Frame
<1>2. ASSUME NEW there \in PC, pc' = [pc EXCEPT ![r] = there]  PROVE pc'[r] = there
  BY <1>0, <1>2
<1>3. "answered" \in PC /\ \A p \in PC \ {"answered"} : Ahead[p] > 0
  BY DEF PC, Ahead
<1>4. ASSUME pc[r] # "answered", pc' = [pc EXCEPT ![r] = "answered"]
      PROVE  Ahead[pc'[r]] < Ahead[pc[r]]
  <2>1. pc'[r] = "answered" /\ pc[r] \in PC \ {"answered"}
    BY <1>0, <1>2, <1>3, <1>4
  <2>2. Ahead["answered"] = 0 /\ Ahead[pc[r]] \in Nat
    BY <2>1 DEF Ahead, PC
  <2> QED  BY <1>3, <2>1, <2>2
<1>5. CASE Begin(r)
  BY <1>0, <1>5 DEF Begin, Goto, Ahead
<1>6. CASE Resolve(r)
  <2>1. pc[r] = "resolve"
    BY <1>6 DEF Resolve, Goto
  <2>2. CASE pc' = [pc EXCEPT ![r] = "answered"]
    BY <1>4, <2>1, <2>2
  <2>3. CASE pc' = [pc EXCEPT ![r] = "checkExpiry"]
    BY <1>0, <2>1, <2>3 DEF Ahead
  <2> QED  BY <1>6, <2>2, <2>3 DEF Resolve, Answer, Goto
<1>14. CASE CheckExpiry(r)
  <2>1. pc[r] = "checkExpiry" /\ call[r].op # "start"
    BY <1>14 DEF CheckExpiry, IInv, ControlOK, ControlOf
  <2>2. CASE pc' = [pc EXCEPT ![r] = "answered"]
    BY <1>4, <2>1, <2>2
  <2>3. CASE pc' = [pc EXCEPT ![r] = First[call[r].op]]
    <3>1. First[call[r].op] \in {"insert", "find", "delete", "deleteSessions"}
      BY <1>0, <2>1 DEF Op, First
    <3>2. pc'[r] \in {"insert", "find", "delete", "deleteSessions"}
      BY <1>0, <2>3, <3>1
    <3> QED  BY <1>1, <2>1, <3>2 DEF Ahead
  <2>4. Answer(r, "expired") \/ Goto(r, "checkExpiry", First[call[r].op])
    BY <1>14 DEF CheckExpiry
  <2>5. pc' = [pc EXCEPT ![r] = "answered"] \/ pc' = [pc EXCEPT ![r] = First[call[r].op]]
    BY <2>4 DEF Answer, Goto
  <2> QED  BY <2>2, <2>3, <2>5
<1>7. CASE Insert(r) \/ Write(r) \/ Delete(r) \/ DeleteSessions(r) \/ Commit(r)
  <2>1. pc[r] \in {"insert", "write", "delete", "deleteSessions", "commit"}
    BY <1>7 DEF Insert, Write, Delete, DeleteSessions, Commit, Remove, Missing, Done
  <2>2. pc' = [pc EXCEPT ![r] = "answered"]
    BY <1>7 DEF Insert, Write, Delete, DeleteSessions, Commit, Remove, Missing, Done, Answer
  <2> QED  BY <1>4, <2>1, <2>2
<1>8. CASE Find(r)
  <2>0. pc[r] = "find"
    BY <1>8 DEF Find, Missing
  <2>1. CASE pc' = [pc EXCEPT ![r] = "answered"]
    BY <1>4, <2>0, <2>1
  <2>2. CASE pc' = [pc EXCEPT ![r] = "write"] /\ pc[r] = "find"
    BY <1>0, <2>2 DEF Ahead
  <2> QED  BY <1>8, <2>1, <2>2 DEF Find, Missing, Answer, Goto
<1>9. CASE FindAccount(r)
  BY <1>0, <1>9 DEF FindAccount, Goto, Ahead
<1>10. CASE InsertAccount(r)
  <2>1. CASE pc' = [pc EXCEPT ![r] = "answered"] /\ pc[r] = "insertAccount"
    BY <1>4, <2>1
  <2>2. CASE pc' = [pc EXCEPT ![r] = "findToken"] /\ pc[r] = "insertAccount"
    BY <1>0, <2>2 DEF Ahead
  <2> QED  BY <1>10, <2>1, <2>2 DEF InsertAccount, StartFails, Answer, Goto
<1>11. CASE CheckToken(r)
  BY <1>0, <1>11 DEF CheckToken, FindToken, Goto, Ahead
<1>12. CASE InsertToken(r)
  <2>1. CASE pc' = [pc EXCEPT ![r] = "answered"] /\ pc[r] = "insertToken"
    BY <1>4, <2>1
  <2>2. CASE pc' = [pc EXCEPT ![r] = "commit"] /\ pc[r] = "insertToken"
    BY <1>0, <2>2 DEF Ahead
  <2> QED  BY <1>12, <2>1, <2>2 DEF InsertToken, StartFails, Answer, Goto
<1>13. CASE Fail(r)
  BY <1>4, <1>13 DEF Fail, Running, Answer
<1> QED  BY <1>1, <1>5, <1>6, <1>7, <1>8, <1>9, <1>10, <1>11, <1>12, <1>13, <1>14 DEF Step

\* Every request and every start ends after boundedly many steps of its own,
\* however the others interleave with it.
THEOREM RequestsEnd == Spec => EveryStepCounts
<1>1. ASSUME IInv, [Next]_vars
      PROVE  [\/ UNCHANGED pc /\ now' \in {now, now + 1}
              \/ \E r \in Request :
                   /\ Ahead[pc'[r]] < Ahead[pc[r]]
                   /\ \A q \in Request \ {r} : pc'[q] = pc[q]]_vars
  <2>1. CASE \E r \in Request : Begin(r) \/ Step(r) \/ Fail(r)
    BY <1>1, <2>1, StepCounts
  <2>2. CASE UNCHANGED pc /\ now' \in {now, now + 1}
    BY <2>2
  <2> QED  BY <1>1, <2>1, <2>2, Steps
<1> QED  BY <1>1, Invariance, PTL DEF Spec, EveryStepCounts
===============================================================================
