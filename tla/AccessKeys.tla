----------------------------- MODULE AccessKeys -----------------------------
(***************************************************************************)
(* Access keys: the middleware that authenticates a request by its bearer   *)
(* token, the service's methods on keys and sessions, and the bootstrap of  *)
(* a server that starts.                                                    *)
(*                                                                          *)
(* Every statement is an autocommit transaction and an action, except in    *)
(* EnsureBootstrap: its INSERTs are seen by others at the COMMIT and, by    *)
(* the unique indexes, make another INSERT of the same value wait for it.   *)
(*                                                                          *)
(* No statement deletes an account: the lookup of the account after the one *)
(* of its id finds it and is one action with it.  Descriptions go the way   *)
(* of friendly names and are left out.                                      *)
(***************************************************************************)
EXTENDS Integers

CONSTANTS
    Account, Request,
    Key,         \* ids of rows in access_keys (UUIDs, never used again)
    Name,        \* tokens, friendly names and creators of sessions
    Secret,      \* Secret[k]: the random token of key k if none is given
    Root,        \* the account of BOOTSTRAP_EMAIL
    Calls,       \* what the requests of a behaviour may ask for
    Seeds,       \* the tables access_keys a behaviour may start from
    DefaultTTL,
    MaxInt,      \* largest int64
    Until,       \* bound of the clock
    NoName, Gone, Nobody, Refused

Row == [account : Account, token : Name, friendly : Name,
        expires : Int, session : Name \cup {NoName}]
Secrets == {Secret[k] : k \in Key}
Op == {"create", "get", "update", "delete", "sessions", "start"}
\* A start brings the bootstrap key of its configuration as name, friendly, ttl.
Call == [op : Op, token : Name, name : Name \cup {NoName},
         friendly : Name \cup {NoName}, ttl : Int]
PC == {"idle", "resolve", "checkExpiry", "insert", "find", "write", "delete", "deleteSessions",
       "findAccount", "insertAccount", "findToken", "insertToken", "commit", "answered"}
Result == {"none", "ok", "error", "unauthorized", "expired", "notFound", "conflict", "failed"}

ASSUME SecretAssumption ==
    /\ Secret \in [Key -> Name]
    /\ \A j, k \in Key : Secret[j] = Secret[k] => j = k
ASSUME CallsAssumption ==
    /\ Calls \subseteq Call
    /\ \A c \in Calls : c.op # "create" => c.name # NoName
    /\ \A c \in Calls : c.op = "start" => c.friendly # NoName
ASSUME SeedsAssumption ==
    \A table \in Seeds :
        /\ table \in [Key -> Row \cup {Gone}]
        /\ \A j, k \in Key :
             table[j] # Gone /\ table[k] # Gone /\ table[j].token = table[k].token => j = k
        /\ \A j, k \in Key : table[j] # Gone /\ table[k] = Gone => table[j].token # Secret[k]
ASSUME BoundAssumption == MaxInt \in Nat /\ Until \in 0..MaxInt /\ DefaultTTL \in Nat
ASSUME NullAssumption ==
    /\ Root \in Account /\ Nobody \notin Account /\ Refused \notin Account
    /\ Nobody # Refused /\ Gone \notin Row /\ NoName \notin Name

VARIABLES
    now,             \* time.Now(), in milliseconds
    keys, fresh,     \* table access_keys, and ids not used yet
    accounts,        \* table accounts
    pc, call, result,
    as,              \* CurrentAccount of a request
    stamp,           \* when the request read the clock for its expiry
    draft,           \* the key RequireAuth or UpdateAccessKey read
    creating, planting,  \* starts that inserted the account, the key, and are uncommitted
    stale, raced, knew   \* history: updates whose key another update wrote since they
                         \* read it; starts during which their account or token was
                         \* inserted; starts that found their token

tables == <<keys, fresh, accounts>>
locals == <<as, stamp, draft, creating, planting>>
history == <<stale, raced, knew>>
vars == <<now, tables, pc, call, result, locals, history>>

Live == {k \in Key : keys[k] # Gone}
NoDraft == [key |-> Gone, row |-> Gone]

Init ==
    /\ now = 0
    /\ keys \in Seeds
    /\ fresh = {k \in Key : keys[k] = Gone}
    /\ accounts \in {Account, Account \ {Root}}
    /\ \A k \in Live : keys[k].account \in accounts
    /\ pc = [r \in Request |-> "idle"]
    /\ call \in [Request -> Calls]
    /\ result = [r \in Request |-> "none"]
    /\ as = [r \in Request |-> Nobody]
    /\ stamp = [r \in Request |-> 0]
    /\ draft = [r \in Request |-> NoDraft]
    /\ creating = {} /\ planting = {}
    /\ stale = {} /\ raced = {} /\ knew = {}

-----------------------------------------------------------------------------
Goto(r, here, there) == pc[r] = here /\ pc' = [pc EXCEPT ![r] = there]
Answer(r, outcome) ==
    /\ pc' = [pc EXCEPT ![r] = "answered"]
    /\ result' = [result EXCEPT ![r] = outcome]
\* The statement took effect; its answer may be lost.
Done(r, here) == pc[r] = here /\ (Answer(r, "ok") \/ Answer(r, "error"))
\* A row like this cannot be found.
Missing(r, here) == pc[r] = here /\ Answer(r, "notFound") /\ UNCHANGED tables

\* An int64 addition wraps around.
Wrap(n) == IF n > MaxInt THEN n - 2 * (MaxInt + 1)
           ELSE IF n < -MaxInt - 1 THEN n + 2 * (MaxInt + 1) ELSE n
GivenTTL(r) == call[r].ttl
TTL(r) == IF call[r].op = "create" /\ call[r].ttl = 0 THEN DefaultTTL ELSE call[r].ttl
Expiry(r) == Wrap(stamp[r] + TTL(r))

Running == {r \in Request : pc[r] \notin {"idle", "answered"}}
HasToken(token) == \E k \in Live : keys[k].token = token
Starting == {q \in Running : call[q].op = "start"}

\* Any name may be asked for, a token of somebody included, but nobody knows a
\* random token that is yet to be generated.
Known(r) == \A k \in fresh : Secret[k] \notin {call[r].token, call[r].name, call[r].friendly}

Begin(r) ==
    /\ Known(r)
    /\ Goto(r, "idle", IF call[r].op = "start" THEN "findAccount" ELSE "resolve")
    /\ stamp' = [stamp EXCEPT ![r] = now]
    /\ UNCHANGED <<now, tables, call, result, as, draft, creating, planting, history>>

\* RequireAuth: the request is the account of its token, if the key's expiry, as
\* the SELECT found it, is not over when the server then looks at the clock.
First == [create |-> "insert", get |-> "find", update |-> "find",
          delete |-> "delete", sessions |-> "deleteSessions"]
Expired(r) == draft[r].row.expires < now

Resolve(r) ==
    /\ UNCHANGED <<now, tables, call, as, stamp, creating, planting, history>>
    /\ \/ /\ ~HasToken(call[r].token)
          /\ pc[r] = "resolve"
          /\ Answer(r, "unauthorized")
          /\ UNCHANGED draft
       \/ \E k \in Live :
            /\ keys[k].token = call[r].token
            /\ draft' = [draft EXCEPT ![r] = [key |-> k, row |-> keys[k]]]
            /\ Goto(r, "resolve", "checkExpiry")
            /\ UNCHANGED result

CheckExpiry(r) ==
    /\ pc[r] = "checkExpiry"
    /\ draft' = [draft EXCEPT ![r] = NoDraft]
    /\ UNCHANGED <<now, tables, call, creating, planting, history>>
    /\ \/ Expired(r) /\ Answer(r, "expired") /\ UNCHANGED <<as, stamp>>
       \/ /\ ~Expired(r)
          /\ as' = [as EXCEPT ![r] = draft[r].row.account]
          /\ stamp' = [stamp EXCEPT ![r] = now]
          /\ Goto(r, "checkExpiry", First[call[r].op])
          /\ UNCHANGED result

-----------------------------------------------------------------------------
(* CreateAccessKey, GetAccessKey, UpdateAccessKey, DeleteAccessKey,            *)
(* DeleteSessionsByCreator                                                     *)

NewRow(r, k, account) ==
    LET token == IF call[r].name = NoName THEN Secret[k] ELSE call[r].name
    IN  [account |-> account, token |-> token, expires |-> Expiry(r), session |-> NoName,
         friendly |-> IF call[r].friendly = NoName THEN token ELSE call[r].friendly]

Store(k, row) == keys' = [keys EXCEPT ![k] = row] /\ fresh' = fresh \ {k}

\* The starts for which an INSERT of this token comes in between.
Racing(r, token) == {q \in Starting \ {r} : call[q].name = token}

Insert(r) ==
    /\ pc[r] = "insert"
    /\ \A q \in planting : call[q].name # call[r].name
    /\ \/ /\ HasToken(call[r].name)
          /\ Answer(r, "conflict")
          /\ UNCHANGED <<tables, raced>>
       \/ /\ ~HasToken(call[r].name)
          /\ \E k \in fresh : Store(k, NewRow(r, k, as[r]))
          /\ raced' = raced \cup Racing(r, call[r].name)
          /\ Done(r, "insert")
          /\ UNCHANGED accounts
    /\ UNCHANGED <<now, call, locals, stale, knew>>

\* AccessKeyRepo.GetByName, by token or by friendly name; the first row it meets.
AnyNamed(r) == {k \in Live : call[r].name \in {keys[k].token, keys[k].friendly}}
Named(r) == {k \in Live : /\ keys[k].account = as[r]
                          /\ call[r].name \in {keys[k].token, keys[k].friendly}}

Find(r) ==
    /\ UNCHANGED <<now, call, as, creating, planting, history>>
    /\ \/ Named(r) = {} /\ Missing(r, "find") /\ UNCHANGED <<draft, stamp>>
       \/ \E k \in Named(r) :
            /\ pc[r] = "find"
            /\ UNCHANGED tables
            /\ \/ call[r].op = "get" /\ Answer(r, "ok") /\ UNCHANGED <<draft, stamp>>
               \/ /\ call[r].op = "update"
                  /\ draft' = [draft EXCEPT ![r] = [key |-> k, row |-> keys[k]]]
                  /\ stamp' = [stamp EXCEPT ![r] = now]
                  /\ Goto(r, "find", "write")
                  /\ UNCHANGED result

\* AccessKeyRepo.Update writes all the fields of the key that was read.
WrittenAnyTTL(r) ==
    [draft[r].row EXCEPT
        !.friendly = IF call[r].friendly = NoName THEN @ ELSE call[r].friendly,
        !.expires = Expiry(r)]
Written(r) ==
    [draft[r].row EXCEPT
        !.friendly = IF call[r].friendly = NoName THEN @ ELSE call[r].friendly,
        !.expires = IF TTL(r) > 0 THEN Expiry(r) ELSE @]

Write(r) ==
    /\ \/ draft[r].key \notin Live /\ Missing(r, "write") /\ UNCHANGED stale
       \/ /\ draft[r].key \in Live
          /\ keys' = [keys EXCEPT ![draft[r].key].friendly = Written(r).friendly,
                                  ![draft[r].key].expires = Written(r).expires]
          /\ stale' = stale \cup {q \in Request \ {r} : pc[q] = "write" /\ draft[q].key = draft[r].key}
          /\ Done(r, "write")
          /\ UNCHANGED <<fresh, accounts>>
    /\ UNCHANGED <<now, call, locals, raced, knew>>

Remove(r, here, gone) ==
    /\ \/ gone = {} /\ Missing(r, here)
       \/ /\ gone # {}
          /\ keys' = [k \in Key |-> IF k \in gone THEN Gone ELSE keys[k]]
          /\ Done(r, here)
          /\ UNCHANGED <<fresh, accounts>>
    /\ UNCHANGED <<now, call, locals, history>>

Delete(r) == Remove(r, "delete", Named(r))
DeleteSessions(r) ==
    Remove(r, "deleteSessions", {k \in Live : keys[k].account = as[r] /\ keys[k].session = call[r].name})

-----------------------------------------------------------------------------
(* EnsureBootstrap *)

\* An error before the COMMIT: the deferred Rollback takes the INSERTs back, run returns.
RollBack(r) == creating' = creating \ {r} /\ planting' = planting \ {r}
StartFails(r, here) == pc[r] = here /\ Answer(r, "failed") /\ RollBack(r) /\ UNCHANGED knew

FindAccount(r) ==
    /\ Goto(r, "findAccount", IF Root \in accounts THEN "findToken" ELSE "insertAccount")
    /\ UNCHANGED <<now, tables, call, result, locals, history>>

InsertAccount(r) ==
    /\ creating = {}
    /\ \/ Root \in accounts /\ StartFails(r, "insertAccount")
       \/ /\ Root \notin accounts
          /\ creating' = creating \cup {r}
          /\ Goto(r, "insertAccount", "findToken")
          /\ UNCHANGED <<result, planting, knew>>
    /\ UNCHANGED <<now, tables, call, as, stamp, draft, stale, raced>>

FindNothing(r) == Goto(r, "findToken", "insertToken") /\ UNCHANGED knew
FindOfNewAccount(r) ==
    /\ Goto(r, "findToken", IF r \in creating /\ ~HasToken(call[r].name) THEN "insertToken" ELSE "commit")
    /\ knew' = IF HasToken(call[r].name) THEN knew \cup {r} ELSE knew
FindToken(r) ==
    \/ ~HasToken(call[r].name) /\ Goto(r, "findToken", "insertToken") /\ UNCHANGED knew
    \/ HasToken(call[r].name) /\ Goto(r, "findToken", "commit") /\ knew' = knew \cup {r}

CheckToken(r) == FindToken(r) /\ UNCHANGED <<now, tables, call, result, locals, stale, raced>>

InsertToken(r) ==
    /\ \A q \in planting : call[q].name # call[r].name
    /\ \/ HasToken(call[r].name) /\ StartFails(r, "insertToken")
       \/ /\ ~HasToken(call[r].name)
          /\ planting' = planting \cup {r}
          /\ Goto(r, "insertToken", "commit")
          /\ UNCHANGED <<result, creating, knew>>
    /\ UNCHANGED <<now, tables, call, as, stamp, draft, stale, raced>>

Commit(r) ==
    /\ Done(r, "commit")
    /\ accounts' = IF r \in creating THEN accounts \cup {Root} ELSE accounts
    /\ \/ r \notin planting /\ UNCHANGED <<keys, fresh>>
       \/ r \in planting /\ \E k \in fresh : Store(k, NewRow(r, k, Root))
    /\ raced' = raced \cup (IF r \in creating THEN Starting \ {r} ELSE {})
                      \cup (IF r \in planting THEN Racing(r, call[r].name) ELSE {})
    /\ RollBack(r)
    /\ UNCHANGED <<now, call, as, stamp, draft, stale, knew>>

-----------------------------------------------------------------------------
\* A statement fails, the client leaves, the process ends.
Fail(r) ==
    /\ r \in Running
    /\ Answer(r, "error")
    /\ RollBack(r)
    /\ UNCHANGED <<now, tables, call, as, stamp, draft, history>>

Tick ==
    /\ now < Until
    /\ now' = now + 1
    /\ UNCHANGED <<tables, pc, call, result, locals, history>>

Step(r) ==
    \/ Resolve(r) \/ CheckExpiry(r)
    \/ Insert(r) \/ Find(r) \/ Write(r) \/ Delete(r) \/ DeleteSessions(r)
    \/ FindAccount(r) \/ InsertAccount(r) \/ CheckToken(r) \/ InsertToken(r) \/ Commit(r)

Next == Tick \/ \E r \in Request : Begin(r) \/ Step(r) \/ Fail(r)

Spec == Init /\ [][Next]_vars

-----------------------------------------------------------------------------
(* Properties *)

TypeOK ==
    /\ now \in Nat
    /\ keys \in [Key -> Row \cup {Gone}]
    /\ fresh \subseteq Key
    /\ accounts \subseteq Account
    /\ pc \in [Request -> PC]
    /\ call \in [Request -> Calls]
    /\ result \in [Request -> Result]
    /\ as \in [Request -> Account \cup {Nobody}]
    /\ stamp \in [Request -> Int]
    /\ draft \in [Request -> [key : Key, row : Row] \cup {NoDraft}]
    /\ creating \subseteq Request /\ planting \subseteq Request
    /\ stale \subseteq Request /\ raced \subseteq Request /\ knew \subseteq Request

\* What callers see of all this is a registry of keys in which every request takes
\* effect in one step, by the rights of a key it was found to hold and that had not
\* run out when it was admitted, and only on keys of its own account.
Session ==
    [r \in Request |-> IF as[r] # Nobody THEN as[r]
                      ELSE IF result[r] \in {"unauthorized", "expired"} THEN Refused ELSE Nobody]
Shown == [r \in Request |-> call[r].token]
Found == [r \in Request |-> IF pc[r] = "checkExpiry" THEN draft[r].row ELSE Gone]
Registry == INSTANCE KeyRegistry WITH session <- Session, token <- Shown, found <- Found
ImplementsRegistry == Registry!Spec

Answers(r, here) == pc[r] = here /\ pc'[r] = "answered"

\* UpdateAccessKey writes back whatever it read: a field nobody asked to change
\* changes only if another update of the key came between the read and the write.
ChangedOnlyAsAsked ==
    [][\A k \in Live : keys'[k] \notin {keys[k], Gone} =>
         \E r \in Request :
           /\ Answers(r, "write") /\ draft[r].key = k
           /\ \/ r \in stale
              \/ /\ keys'[k].friendly # keys[k].friendly => call[r].friendly # NoName
                 /\ keys'[k].expires # keys[k].expires => call[r].ttl > 0]_vars

\* A key is stored already expired, or an update ends a key that is valid, only if
\* the TTL was negative or so large that the addition overflows, if it ran out
\* before the statement, or by an update that overlapped with another one.
Promised(r) == IF call[r].op = "create" /\ call[r].ttl = 0 THEN DefaultTTL ELSE call[r].ttl
MayLapse(r) ==
    \/ r \in stale
    \/ call[r].op # "update" /\ call[r].ttl < 0
    \/ stamp[r] + Promised(r) > MaxInt
    \/ stamp[r] + Promised(r) < now
LapsesOnlyByWill ==
    [][\A k \in Key :
         /\ keys'[k] # Gone /\ keys'[k].expires < now'
         /\ keys[k] = Gone \/ keys[k].expires >= now'
         => \E r \in Running : pc'[r] = "answered" /\ MayLapse(r)]_vars

\* A server that started left its bootstrap key with the bootstrap account, unless
\* a key with that token was there before: that one may be another account's,
\* may have expired, or be deleted by now.
StartLeavesKey ==
    [][\A r \in Request : Answers(r, "commit") /\ result'[r] = "ok" =>
         \/ r \in knew
         \/ /\ Root \in accounts'
            /\ \E k \in Key : /\ keys'[k] # Gone /\ keys'[k].account = Root
                             /\ keys'[k].token = call[r].name]_vars

\* A start fails at a unique index only if another start, or a creation with its
\* token, was committed meanwhile: the next start gets through.
FailedStartOnlyByOverlap == \A r \in Request : result[r] = "failed" => r \in raced
=============================================================================
