----------------------------- MODULE ServerProofs -----------------------------
(* Server over any set of requests and any pool: no path of a handler loses a  *)
(* connection, and only a Shutdown that gave up or a listener that failed lets *)
(* a handler see a closed store.                                               *)
EXTENDS Server, FiniteSetTheorems, TLAPS

Firsts == {r \in Request : at[r] \in {"querying", "inner", "nested"}}
Seconds == {r \in Request : at[r] = "nested"}
Counted == free + Cardinality(Firsts) + Cardinality(Seconds) = N

Early == {"config", "store", "blob", "bootstrap", "listen"}
Serving == {"select", "shutdown", "lastError"}
Ending == {"closeMetrics", "closePool", "awaitPool", "exit"}

StoresOK ==
    /\ metrics <=> main \in {"blob", "bootstrap", "listen", "closeMetrics"} \cup Serving
    /\ pool <=> main \in {"blob", "bootstrap", "listen", "closeMetrics", "closePool"} \cup Serving
ListenerOK ==
    /\ main \in Early => listener = "none"
    /\ listener = "none" => Active = {}
    /\ main \in {"shutdown", "lastError"} => signal /\ listener \in {"closed", "failed"}
    /\ main = "lastError" => Active = {}
EndingOK ==
    main \in Ending =>
        /\ late \/ listener = "failed" \/ (Active = {} /\ listener \in {"none", "closed"})
        /\ ~failed => Active = {} /\ signal /\ listener = "closed"
        /\ main = "exit" => free = N
ClosedOK == \A r \in Request : outcome[r] = "closed" => late \/ listener = "failed"
IInv == TypeOK /\ Counted /\ StoresOK /\ ListenerOK /\ EndingOK /\ ClosedOK

LEMMA InitIInv == Init => IInv
<1> SUFFICES ASSUME Init PROVE IInv
  OBVIOUS
<1> USE RequestAssumption, PoolAssumption DEF Init
<1>1. TypeOK
  <2>1. free \in 0..N /\ left \in [Request -> 0..Nested]
    OBVIOUS
  <2>2. at \in [Request -> At] /\ outcome \in [Request -> {"none", "ok", "closed", "left"}]
    BY DEF At
  <2> QED  BY <2>1, <2>2 DEF TypeOK, Main
<1>2. Counted
  <2>1. Firsts = {} /\ Seconds = {}
    BY DEF Firsts, Seconds
  <2> QED  BY <2>1, FS_EmptySet DEF Counted
<1>3. StoresOK /\ ListenerOK /\ EndingOK /\ ClosedOK
  BY DEF StoresOK, ListenerOK, EndingOK, ClosedOK, Active, Early, Ending, Serving
<1> QED  BY <1>1, <1>2, <1>3 DEF IInv

-----------------------------------------------------------------------------
(* A handler moves: what it held, what it holds then, and the free connections *)

Kept(here) == IF here = "nested" THEN 2 ELSE IF here \in {"querying", "inner"} THEN 1 ELSE 0

LEMMA CountStep ==
  ASSUME TypeOK, Counted, NEW r \in Request, NEW there \in At, TypeOK',
         at' = [at EXCEPT ![r] = there],
         free' = free + Kept(at[r]) - Kept(there)
  PROVE  Counted'
<1>1. /\ Firsts' = IF there \in {"querying", "inner", "nested"} THEN Firsts \cup {r} ELSE Firsts \ {r}
      /\ Seconds' = IF there = "nested" THEN Seconds \cup {r} ELSE Seconds \ {r}
      /\ r \in Firsts <=> at[r] \in {"querying", "inner", "nested"}
      /\ r \in Seconds <=> at[r] = "nested"
  BY DEF Firsts, Seconds, TypeOK
<1>2. IsFiniteSet(Firsts) /\ IsFiniteSet(Seconds)
  BY RequestAssumption, FS_Subset DEF Firsts, Seconds
<1>3. Cardinality(Firsts) \in Nat /\ Cardinality(Seconds) \in Nat
  BY <1>2, FS_CardinalityType
<1>8. /\ Cardinality(Firsts \cup {r}) = IF r \in Firsts THEN Cardinality(Firsts) ELSE Cardinality(Firsts) + 1
      /\ Cardinality(Firsts \ {r}) = IF r \in Firsts THEN Cardinality(Firsts) - 1 ELSE Cardinality(Firsts)
      /\ Cardinality(Seconds \cup {r}) = IF r \in Seconds THEN Cardinality(Seconds) ELSE Cardinality(Seconds) + 1
      /\ Cardinality(Seconds \ {r}) = IF r \in Seconds THEN Cardinality(Seconds) - 1 ELSE Cardinality(Seconds)
  BY <1>2, FS_AddElement, FS_RemoveElement
<1>4. Cardinality(Firsts') = Cardinality(Firsts)
         + (IF there \in {"querying", "inner", "nested"} THEN 1 ELSE 0)
         - (IF at[r] \in {"querying", "inner", "nested"} THEN 1 ELSE 0)
  BY <1>1, <1>3, <1>8
<1>5. Cardinality(Seconds') = Cardinality(Seconds)
         + (IF there = "nested" THEN 1 ELSE 0) - (IF at[r] = "nested" THEN 1 ELSE 0)
  BY <1>1, <1>3, <1>8
<1>6. Counted' <=> free' + Cardinality(Firsts') + Cardinality(Seconds') = N
  BY DEF Counted
<1>7. free \in Nat /\ N \in Nat
  BY PoolAssumption DEF TypeOK
<1> HIDE DEF Firsts, Seconds
<1> QED  BY <1>3, <1>4, <1>5, <1>6, <1>7 DEF Counted, Kept

\* With what is held counted, nobody returns more than the pool has.
LEMMA HeldBound ==
  ASSUME TypeOK, Counted, NEW r \in Request
  PROVE  free + Kept(at[r]) <= N
<1>1. IsFiniteSet(Firsts) /\ IsFiniteSet(Seconds)
  BY RequestAssumption, FS_Subset DEF Firsts, Seconds
<1>2. Cardinality(Firsts) \in Nat /\ Cardinality(Seconds) \in Nat
  BY <1>1, FS_CardinalityType
<1>3. at[r] \in {"querying", "inner", "nested"} => Cardinality(Firsts) >= 1
  BY <1>1, <1>2, FS_EmptySet DEF Firsts
<1>4. at[r] = "nested" => Cardinality(Seconds) >= 1
  BY <1>1, <1>2, FS_EmptySet DEF Seconds
<1> HIDE DEF Firsts, Seconds
<1> QED  BY <1>2, <1>3, <1>4, PoolAssumption DEF Counted, Kept, TypeOK

\* Whatever a handler does, it moves one request of a running process.
HandlerMove(r, there) ==
    /\ main # "exit" /\ UNCHANGED <<process, stores>>
    /\ at' = [at EXCEPT ![r] = there]
    /\ free' = free + Kept(at[r]) - Kept(there)
    /\ left' \in [Request -> 0..Nested]
    /\ at[r] = "absent" => Reachable
    /\ \/ outcome' = outcome /\ free' >= 0 /\ there # "absent"
       \/ there = "done" /\ outcome' = [outcome EXCEPT ![r] = "left"]
       \/ there = "done" /\ outcome' = [outcome EXCEPT ![r] = "ok"]
       \/ there = "done" /\ outcome' = [outcome EXCEPT ![r] = "closed"]
          /\ at[r] \notin {"absent", "done"} /\ (~pool \/ ~metrics)
    /\ at[r] # "done"

LEMMA EndMoves ==
  ASSUME TypeOK, NEW r \in Request, NEW result, End(r, result), at[r] \in At \ {"absent", "done"},
         UNCHANGED <<process, stores>>,
         result \in {"left", "ok"} \/ (result = "closed" /\ (~pool \/ ~metrics))
  PROVE  HandlerMove(r, "done")
<1>1. main # "exit" /\ at' = [at EXCEPT ![r] = "done"] /\ left' \in [Request -> 0..Nested]
  BY DEF End, Turn, TypeOK
<1>2. free' = free + Kept(at[r]) - Kept("done")
  <2>1. free' = free + Kept(at[r]) /\ Kept("done") = 0 /\ Kept(at[r]) \in 0..2 /\ free \in Nat
    BY PoolAssumption DEF End, Held, Kept, TypeOK
  <2> QED  BY <2>1
<1>3. outcome' = [outcome EXCEPT ![r] = result]
  BY DEF End
<1> QED  BY <1>1, <1>2, <1>3 DEF HandlerMove

LEMMA HandlersMove ==
  ASSUME TypeOK, NEW r \in Request, Arrive(r) \/ Handle(r) \/ Leave(r)
  PROVE  \E there \in At : HandlerMove(r, there)
<1> USE DEF TypeOK
<1>1. CASE Arrive(r)
  <2>1. First[Kind[r]] \in {"outer", "query", "redis"}
    BY RequestAssumption DEF First
  <2>2. HandlerMove(r, First[Kind[r]])
    BY <1>1, <2>1 DEF Arrive, HandlerMove, Turn, Kept, process, stores
  <2> QED  BY <2>1, <2>2 DEF At
<1>2. CASE Acquire(r)
  <2>1. CASE ~pool /\ at[r] \in {"query", "outer", "inner"} /\ End(r, "closed")
    BY <1>2, <2>1, EndMoves DEF Acquire, At
  <2>2. CASE pool /\ Turn(r, "query", "querying")
    <3>1. HandlerMove(r, "querying")
      BY <1>2, <2>2 DEF Acquire, HandlerMove, Turn, Kept
    <3> QED  BY <3>1 DEF At
  <2>3. CASE pool /\ Turn(r, "outer", "inner")
    <3>1. HandlerMove(r, "inner")
      BY <1>2, <2>3 DEF Acquire, HandlerMove, Turn, Kept
    <3> QED  BY <3>1 DEF At
  <2>4. CASE pool /\ Turn(r, "inner", "nested")
    <3>1. HandlerMove(r, "nested")
      BY <1>2, <2>4 DEF Acquire, HandlerMove, Turn, Kept
    <3> QED  BY <3>1 DEF At
  <2> QED  BY <1>2, <2>1, <2>2, <2>3, <2>4 DEF Acquire
<1>3. CASE Query(r)
  <2>1. HandlerMove(r, "redis")
    BY <1>3 DEF Query, HandlerMove, Turn, Kept
  <2> QED  BY <2>1 DEF At
<1>4. CASE NestedQuery(r)
  <2>1. left' \in [Request -> 0..Nested]
    BY <1>4, PoolAssumption DEF NestedQuery
  <2>2. CASE left[r] > 0
    <3>1. HandlerMove(r, "inner")
      BY <1>4, <2>1, <2>2 DEF NestedQuery, HandlerMove, Turn, Kept
    <3> QED  BY <3>1 DEF At
  <2>3. CASE left[r] = 0
    <3>1. HandlerMove(r, "redis")
      BY <1>4, <2>1, <2>3 DEF NestedQuery, HandlerMove, Turn, Kept
    <3> QED  BY <3>1 DEF At
  <2> QED  BY <2>2, <2>3, PoolAssumption
<1>5. CASE Redis(r)
  <2>1. UNCHANGED <<process, stores>> /\ at[r] = "redis"
    BY <1>5 DEF Redis
  <2>2. CASE metrics
    <3>1. End(r, "ok")
      BY <1>5, <2>2 DEF Redis
    <3> QED  BY <2>1, <3>1, EndMoves DEF At
  <2>3. CASE ~metrics
    <3>1. End(r, "closed")
      BY <1>5, <2>3 DEF Redis
    <3> QED  BY <2>1, <2>3, <3>1, EndMoves DEF At
  <2> QED  BY <2>2, <2>3
<1>6. CASE Leave(r)
  <2>1. End(r, "left") /\ at[r] \in At \ {"absent", "done"} /\ UNCHANGED <<process, stores>>
    BY <1>6 DEF Leave, Active
  <2> QED  BY <2>1, EndMoves DEF At
<1> QED  BY <1>1, <1>2, <1>3, <1>4, <1>5, <1>6 DEF Handle

LEMMA HandlerStep ==
  ASSUME IInv, NEW r \in Request, Arrive(r) \/ Handle(r) \/ Leave(r)
  PROVE  IInv'
<1>1. PICK there \in At : HandlerMove(r, there)
  BY HandlersMove DEF IInv
<1> USE <1>1 DEF IInv, HandlerMove, process, stores
<1>2. TypeOK'
  <2>1. free + Kept(at[r]) <= N /\ Kept(there) \in 0..2 /\ Kept("done") = 0
    BY HeldBound DEF Kept
  <2>2. free' \in 0..N
    BY <2>1, PoolAssumption DEF TypeOK, Kept
  <2> QED  BY <2>2 DEF TypeOK
<1>3. Counted'
  BY <1>2, CountStep
<1>4. Active' \subseteq Active \cup {r} /\ (~Reachable => Active' \subseteq Active)
  BY DEF Active, TypeOK
<1>5. StoresOK'
  BY DEF StoresOK
<1>6. ListenerOK'
  BY <1>4 DEF ListenerOK, Reachable, Early
<1>7. EndingOK'
  BY <1>4 DEF EndingOK, Ending, Reachable
<1>8. ClosedOK'
  <2>1. CASE outcome' = [outcome EXCEPT ![r] = "closed"] /\ at[r] \notin {"absent", "done"} /\ (~pool \/ ~metrics)
    <3>1. Active # {}
      BY <2>1 DEF Active
    <3>2. main \in Ending
      BY <2>1, <3>1 DEF StoresOK, ListenerOK, TypeOK, Main, Early, Ending, Serving
    <3> QED  BY <2>1, <3>1, <3>2 DEF EndingOK, ClosedOK, TypeOK
  <2>2. CASE \A q \in Request : outcome'[q] = "closed" => outcome[q] = "closed"
    BY <2>2 DEF ClosedOK
  <2> QED  BY <2>1, <2>2 DEF TypeOK
<1> QED  BY <1>2, <1>3, <1>5, <1>6, <1>7, <1>8

-----------------------------------------------------------------------------
(* run, the signal and the listener leave the handlers where they are *)

LEMMA RunStep ==
  ASSUME IInv, Run \/ Signal \/ Bind \/ ListenFails
  PROVE  IInv'
<1> USE DEF IInv, Goto, Return, handlers, stores
<1>1. UNCHANGED handlers /\ Active' = Active
  BY DEF Run, LoadConfig, OpenStore, OpenBlob, Bootstrap, Listen, Signal, SelectError,
         SelectSignal, Drained, GiveUp, LastError, CloseMetrics, ClosePool, Exit, Bind,
         ListenFails, Active
<1>2. Counted'
  BY <1>1 DEF Counted, Firsts, Seconds
<1>3. TypeOK'
  BY <1>1 DEF TypeOK, Main, Run, LoadConfig, OpenStore, OpenBlob, Bootstrap, Listen, Signal,
         SelectError, SelectSignal, Drained, GiveUp, LastError, CloseMetrics, ClosePool, Exit,
         Bind, ListenFails
<1>4. StoresOK'
  BY DEF StoresOK, Serving, Run, LoadConfig, OpenStore, OpenBlob, Bootstrap, Listen, Signal,
         SelectError, SelectSignal, Drained, GiveUp, LastError, CloseMetrics, ClosePool, Exit,
         Bind, ListenFails
<1>5. ListenerOK'
  BY <1>1 DEF ListenerOK, Early, Run, LoadConfig, OpenStore, OpenBlob, Bootstrap, Listen, Signal,
         SelectError, SelectSignal, Drained, GiveUp, LastError, CloseMetrics, ClosePool, Exit,
         Bind, ListenFails
<1>6. ClosedOK'
  <2>1. (late => late') /\ (listener = "failed" => listener' = "failed")
    BY DEF ListenerOK, Early, Run, LoadConfig, OpenStore, OpenBlob, Bootstrap, Listen, Signal,
         SelectError, SelectSignal, Drained, GiveUp, LastError, CloseMetrics, ClosePool, Exit,
         Bind, ListenFails
  <2> QED  BY <1>1, <2>1 DEF ClosedOK
<1>7. listener = "none" => free = N
  <2>1. ASSUME listener = "none" PROVE Firsts = {} /\ Seconds = {}
    BY <2>1 DEF ListenerOK, Active, Firsts, Seconds
  <2>2. Cardinality({}) = 0 /\ free \in Nat
    BY FS_EmptySet, PoolAssumption DEF TypeOK
  <2> QED  BY <2>1, <2>2, PoolAssumption DEF Counted
<1>8. EndingOK'
  <2>1. CASE main \in Early
    BY <1>1, <1>7, <2>1 DEF EndingOK, ListenerOK, Early, Ending, Run, LoadConfig, OpenStore,
         OpenBlob, Bootstrap, Listen, Signal, SelectError, SelectSignal, Drained, GiveUp,
         LastError, CloseMetrics, ClosePool, Exit, Bind, ListenFails
  <2>2. CASE main \in Serving
    BY <1>1, <2>2 DEF EndingOK, ListenerOK, Serving, Ending, Run, LoadConfig, OpenStore,
         OpenBlob, Bootstrap, Listen, Signal, SelectError, SelectSignal, Drained, GiveUp,
         LastError, CloseMetrics, ClosePool, Exit, Bind, ListenFails
  <2>3. CASE main \in Ending
    BY <1>1, <2>3 DEF EndingOK, Ending, Run, LoadConfig, OpenStore,
         OpenBlob, Bootstrap, Listen, Signal, SelectError, SelectSignal, Drained, GiveUp,
         LastError, CloseMetrics, ClosePool, Exit, Bind, ListenFails
  <2> QED  BY <2>1, <2>2, <2>3 DEF TypeOK, Main, Early, Serving, Ending
<1> QED  BY <1>2, <1>3, <1>4, <1>5, <1>6, <1>8

LEMMA NextIInv == IInv /\ [Next]_vars => IInv'
<1> SUFFICES ASSUME IInv, [Next]_vars PROVE IInv'
  OBVIOUS
<1>1. CASE UNCHANGED vars
  BY <1>1 DEF vars, process, stores, handlers, IInv, TypeOK, Counted, Firsts, Seconds, StoresOK,
     ListenerOK, EndingOK, ClosedOK, Active
<1>2. CASE Next
  BY <1>2, RunStep, HandlerStep DEF Next
<1> QED  BY <1>1, <1>2

\* The inductive invariant holds in every reachable state.
THEOREM Invariance == Spec => []IInv
BY InitIInv, NextIInv, PTL DEF Spec

\* TypeOK: the pool never has more free connections than it has connections,
\* whichever way handlers end.
THEOREM TypeCorrect == Spec => []TypeOK
<1>1. IInv => TypeOK
  BY DEF IInv
<1> QED  BY Invariance, <1>1, PTL

\* No connection is lost: handlers that all wait do so because lookups have all
\* the connections (Acquire, Query, NestedQuery, End).
THEOREM BlockedByLookups == Spec => []BlockedOnlyByLookups
<1>1. IInv => BlockedOnlyByLookups
  <2> SUFFICES ASSUME IInv, free = 0, \A r \in Active : at[r] \in {"query", "outer", "inner"}
               PROVE  Stuck
    BY DEF BlockedOnlyByLookups
  <2>1. Firsts = Waiting /\ Seconds = {}
    BY DEF Firsts, Seconds, Waiting, Active
  <2>2. IsFiniteSet(Waiting)
    BY RequestAssumption, FS_Subset DEF Waiting
  <2>3. Cardinality(Waiting) \in Nat
    BY <2>2, FS_CardinalityType
  <2> QED  BY <2>1, <2>3, FS_EmptySet, PoolAssumption DEF Stuck, IInv, Counted
<1> QED  BY Invariance, <1>1, PTL

\* A handler sees a closed store, or is cut off, only after Shutdown gave up or
\* the listener failed.
THEOREM DisturbedWhenLate == Spec => []DisturbedOnlyWhenLate
<1>1. IInv => DisturbedOnlyWhenLate
  BY DEF IInv, DisturbedOnlyWhenLate, Disturbed, ClosedOK, EndingOK, Ending
<1> QED  BY Invariance, <1>1, PTL

\* However run returns, the stores are closed and every connection is back.
THEOREM NothingOpen == Spec => []LeavesNothingOpen
<1>1. IInv => LeavesNothingOpen
  BY DEF IInv, LeavesNothingOpen, StoresOK, EndingOK, Ending, Serving
<1> QED  BY Invariance, <1>1, PTL

-----------------------------------------------------------------------------
(* How large a pool has to be *)

Lookups == {r \in Request : Kind[r] = "lookup"}
KindOK == \A r \in Request : at[r] \in {"outer", "inner", "nested"} => r \in Lookups

LEMMA KindStep ==
  ASSUME IInv, KindOK, [Next]_vars
  PROVE  KindOK'
<1> USE DEF IInv, TypeOK, KindOK, Lookups
<1>1. CASE UNCHANGED at
  BY <1>1
<1>2. ASSUME NEW r \in Request, Arrive(r) PROVE KindOK'
  <2>1. First[Kind[r]] \in {"outer", "inner", "nested"} => Kind[r] = "lookup"
    BY RequestAssumption DEF First
  <2> QED  BY <1>2, <2>1 DEF Arrive, Turn
<1>3. ASSUME NEW r \in Request, Handle(r) \/ Leave(r) PROVE KindOK'
  BY <1>3 DEF Handle, Acquire, Query, NestedQuery, Redis, Leave, End, Turn
<1>4. CASE Run \/ Signal \/ Bind \/ ListenFails
  BY <1>1, <1>4 DEF Run, LoadConfig, OpenStore, OpenBlob, Bootstrap, Listen, Signal, SelectError,
     SelectSignal, Drained, GiveUp, LastError, CloseMetrics, ClosePool, Exit, Bind, ListenFails,
     handlers
<1> QED  BY <1>1, <1>2, <1>3, <1>4 DEF Next, vars, handlers

\* With more connections than lookups, the pool never has all of them waiting:
\* when it is empty, somebody is at a query and will give a connection back.
LargeEnough ==
    Cardinality(Lookups) < N /\ free = 0 =>
        ~Stuck /\ \E r \in Request : at[r] \in {"querying", "nested"}

THEOREM PoolLargeEnough == Spec => []LargeEnough
<1>1. Init => KindOK
  BY DEF Init, KindOK
<1>2. IInv /\ KindOK => LargeEnough
  <2> SUFFICES ASSUME IInv, KindOK, Cardinality(Lookups) < N, free = 0
               PROVE  ~Stuck /\ \E r \in Request : at[r] \in {"querying", "nested"}
    BY DEF LargeEnough
  <2>1. IsFiniteSet(Lookups) /\ Waiting \subseteq Lookups /\ IsFiniteSet(Waiting)
    BY RequestAssumption, FS_Subset DEF Lookups, Waiting, KindOK
  <2>2. /\ Cardinality(Waiting) <= Cardinality(Lookups)
        /\ Cardinality(Waiting) \in Nat /\ Cardinality(Lookups) \in Nat
    BY <2>1, FS_Subset, FS_CardinalityType
  <2>3. Cardinality(Waiting) # N
    BY <2>2, PoolAssumption
  <2>4. ASSUME \A r \in Request : at[r] \notin {"querying", "nested"} PROVE FALSE
    <3>1. Firsts = Waiting /\ Seconds = {}
      BY <2>4 DEF Firsts, Seconds, Waiting
    <3>2. Cardinality(Waiting) = N
      BY <2>2, <3>1, FS_EmptySet, PoolAssumption DEF IInv, Counted
    <3> QED  BY <2>3, <3>2
  <2> QED  BY <2>3, <2>4 DEF Stuck
<1> QED  BY <1>1, <1>2, KindStep, Invariance, PTL DEF Spec

-----------------------------------------------------------------------------
(* Why handlers end and a signal is followed, short of the fairness: a behaviour *)
(* has finitely many steps, and where nothing can move any more lookups have the *)
(* pool or nothing is left to do.                                                *)

\* What a handler has before it, nested queries counted.
Work(r) ==
    CASE at[r] = "absent"   -> 2 * Nested + 5
      [] at[r] = "outer"    -> 2 * left[r] + 4
      [] at[r] = "inner"    -> 2 * left[r] + 3
      [] at[r] = "nested"   -> 2 * left[r] + 2
      [] at[r] = "query"    -> 3
      [] at[r] = "querying" -> 2
      [] at[r] = "redis"    -> 1
      [] at[r] = "done"     -> 0

Stage == [config |-> 0, store |-> 1, blob |-> 2, bootstrap |-> 3, listen |-> 4, select |-> 5,
          shutdown |-> 6, lastError |-> 7, closeMetrics |-> 8, closePool |-> 9,
          awaitPool |-> 10, exit |-> 11]
Phase == [none |-> 0, starting |-> 1, open |-> 2, closed |-> 3, failed |-> 3]

\* Nothing is tried again: each step takes one handler nearer to its end, or run
\* nearer to its exit, or is a signal or news of the listener.
EveryStepCounts ==
    [][\/ \E r \in Request :
            /\ Work(r)' < Work(r)
            /\ \A q \in Request \ {r} : at'[q] = at[q] /\ left'[q] = left[q]
            /\ UNCHANGED process
       \/ Stage[main] < Stage[main'] /\ UNCHANGED handlers
       \/ ~signal /\ signal' /\ UNCHANGED <<main, listener, handlers>>
       \/ Phase[listener] < Phase[listener'] /\ UNCHANGED <<main, signal, handlers>>]_vars

LEMMA HandlerWorks ==
  ASSUME IInv, NEW r \in Request, Arrive(r) \/ Handle(r) \/ Leave(r)
  PROVE  /\ Work(r)' < Work(r)
         /\ \A q \in Request \ {r} : at'[q] = at[q] /\ left'[q] = left[q]
         /\ UNCHANGED process
<1>0. TypeOK /\ left[r] \in 0..Nested /\ left[r] \in Nat /\ Nested \in Nat
  BY PoolAssumption DEF IInv, TypeOK
<1>1. CASE Arrive(r)
  <2>1. First[Kind[r]] \in {"outer", "query", "redis"}
    BY RequestAssumption DEF First
  <2>2. at[r] = "absent" /\ at' = [at EXCEPT ![r] = First[Kind[r]]] /\ UNCHANGED <<left, process>>
    BY <1>1 DEF Arrive, Turn
  <2>3. at'[r] \in {"outer", "query", "redis"} /\ left'[r] = left[r]
    BY <1>0, <2>1, <2>2 DEF TypeOK
  <2>4. Work(r) = 2 * Nested + 5
    BY <2>2 DEF Work
  <2>5. Work(r)' \in {2 * left[r] + 4, 3, 1}
    BY <2>3 DEF Work
  <2> QED  BY <1>0, <2>2, <2>4, <2>5 DEF TypeOK
<1>2. ASSUME NEW result, End(r, result), at[r] \notin {"absent", "done"}, UNCHANGED process
      PROVE  /\ Work(r)' < Work(r)
             /\ \A q \in Request \ {r} : at'[q] = at[q] /\ left'[q] = left[q]
             /\ UNCHANGED process
  <2>1. at' = [at EXCEPT ![r] = "done"] /\ UNCHANGED left /\ at[r] \in At
    BY <1>0, <1>2 DEF End, Turn, TypeOK
  <2>2. Work(r)' = 0
    BY <1>0, <2>1 DEF Work, TypeOK
  <2>3. Work(r) > 0
    BY <1>0, <1>2, <2>1 DEF Work, At
  <2> QED  BY <1>0, <1>2, <2>1, <2>2, <2>3 DEF TypeOK
<1>3. CASE Leave(r)
  BY <1>2, <1>3 DEF Leave, Active
<1>4. CASE Redis(r)
  BY <1>2, <1>4 DEF Redis
<1>5. CASE Acquire(r)
  <2>1. UNCHANGED process
    BY <1>5 DEF Acquire
  <2>2. CASE at[r] \in {"query", "outer", "inner"} /\ End(r, "closed")
    BY <1>2, <2>1, <2>2
  <2>3. CASE UNCHANGED left /\ (Turn(r, "query", "querying") \/ Turn(r, "outer", "inner")
                                 \/ Turn(r, "inner", "nested"))
    <3>1. /\ \A q \in Request \ {r} : at'[q] = at[q] /\ left'[q] = left[q]
          /\ left'[r] = left[r]
          /\ \/ at[r] = "query" /\ at'[r] = "querying"
             \/ at[r] = "outer" /\ at'[r] = "inner"
             \/ at[r] = "inner" /\ at'[r] = "nested"
      BY <1>0, <2>3 DEF Turn, TypeOK
    <3>2. Work(r)' < Work(r)
      BY <1>0, <3>1 DEF Work
    <3> QED  BY <2>1, <3>1, <3>2
  <2> QED  BY <1>5, <2>2, <2>3 DEF Acquire
<1>6. CASE Query(r)
  <2>1. at[r] = "querying" /\ at' = [at EXCEPT ![r] = "redis"] /\ UNCHANGED <<left, process>>
    BY <1>6 DEF Query, Turn
  <2>2. Work(r) = 2 /\ Work(r)' = 1
    BY <1>0, <2>1 DEF Work, TypeOK
  <2> QED  BY <1>0, <2>1, <2>2 DEF TypeOK
<1>7. CASE NestedQuery(r)
  <2>1. /\ at[r] = "nested" /\ UNCHANGED process
        /\ \A q \in Request \ {r} : at'[q] = at[q] /\ left'[q] = left[q]
        /\ \/ left[r] > 0 /\ at'[r] = "inner" /\ left'[r] = left[r] - 1
           \/ left[r] = 0 /\ at'[r] = "redis"
    BY <1>0, <1>7 DEF NestedQuery, Turn, TypeOK
  <2>2. Work(r) = 2 * left[r] + 2
    BY <2>1 DEF Work
  <2>3. CASE left[r] > 0 /\ at'[r] = "inner" /\ left'[r] = left[r] - 1
    <3>1. Work(r)' = 2 * (left[r] - 1) + 3
      BY <2>3 DEF Work
    <3> QED  BY <1>0, <2>1, <2>2, <3>1
  <2>4. CASE left[r] = 0 /\ at'[r] = "redis"
    <3>1. Work(r)' = 1
      BY <2>4 DEF Work
    <3> QED  BY <1>0, <2>1, <2>2, <3>1
  <2> QED  BY <2>1, <2>3, <2>4
<1> QED  BY <1>1, <1>3, <1>4, <1>5, <1>6, <1>7 DEF Handle

\* The process takes finitely many steps, whatever its clients do.
THEOREM StepsAreCounted == Spec => EveryStepCounts
<1> DEFINE Counts ==
      \/ \E r \in Request :
            /\ Work(r)' < Work(r)
            /\ \A q \in Request \ {r} : at'[q] = at[q] /\ left'[q] = left[q]
            /\ UNCHANGED process
      \/ Stage[main] < Stage[main'] /\ UNCHANGED handlers
      \/ ~signal /\ signal' /\ UNCHANGED <<main, listener, handlers>>
      \/ Phase[listener] < Phase[listener'] /\ UNCHANGED <<main, signal, handlers>>
<1>1. IInv /\ [Next]_vars => [Counts]_vars
  <2> SUFFICES ASSUME IInv, Next, ~UNCHANGED vars PROVE Counts
    OBVIOUS
  <2>1. ASSUME NEW r \in Request, Arrive(r) \/ Handle(r) \/ Leave(r) PROVE Counts
    BY <2>1, HandlerWorks
  <2>2. CASE Run
    BY <2>2 DEF Stage, Goto, Return, Run, LoadConfig, OpenStore, OpenBlob, Bootstrap, Listen,
       SelectError, SelectSignal, Drained, GiveUp, LastError, CloseMetrics, ClosePool, Exit,
       stores, IInv, TypeOK
  <2>3. CASE Signal
    <3>1. ~signal
      BY <2>3 DEF Signal, vars, process, IInv, TypeOK
    <3> QED  BY <2>3, <3>1 DEF Signal
  <2>4. CASE Bind \/ ListenFails
    BY <2>4 DEF Bind, ListenFails, Phase
  <2> QED  BY <2>1, <2>2, <2>3, <2>4 DEF Next
<1> QED  BY <1>1, Invariance, PTL DEF Spec, EveryStepCounts

\* What the guards of Handle and of Run ask for.
HandlerMoves(r) == r \in Active /\ (free > 0 \/ at[r] \in {"querying", "nested", "redis"})
RunMoves ==
    CASE main = "select"    -> signal \/ listener = "failed"
      [] main = "lastError" -> listener \in {"closed", "failed"}
      [] main = "awaitPool" -> free = N
      [] main = "exit"      -> FALSE
      [] OTHER              -> TRUE

\* A process comes to rest with its pool in the hands of waiting lookups, or
\* idle in its select with no signal, or at its exit.
RestsOnlyWhereItMay ==
    ~RunMoves /\ (\A r \in Request : ~HandlerMoves(r)) =>
        \/ Stuck
        \/ main = "select" /\ ~signal /\ Active = {}
        \/ main = "exit"

THEOREM RestsWhereItMay == Spec => []RestsOnlyWhereItMay
<1>1. IInv => RestsOnlyWhereItMay
  <2> SUFFICES ASSUME IInv, ~RunMoves, \A r \in Request : ~HandlerMoves(r),
                      ~Stuck, main # "exit"
               PROVE  main = "select" /\ ~signal /\ Active = {}
    BY DEF RestsOnlyWhereItMay
  <2>1. TypeOK /\ free \in Nat /\ N \in Nat
    BY PoolAssumption DEF IInv, TypeOK
  <2>2. main \in {"select", "awaitPool"}
    BY <2>1 DEF RunMoves, IInv, ListenerOK, TypeOK
  <2>3. Active = {}
    <3> SUFFICES ASSUME Active # {} PROVE FALSE
      OBVIOUS
    <3>1. free = 0 /\ \A r \in Active : at[r] \in {"query", "outer", "inner"}
      BY <2>1 DEF HandlerMoves, Active, TypeOK, At
    <3>2. Firsts = Waiting /\ Seconds = {}
      BY <3>1 DEF Firsts, Seconds, Waiting, Active
    <3>3. IsFiniteSet(Waiting)
      BY RequestAssumption, FS_Subset DEF Waiting
    <3>4. Cardinality(Waiting) = N
      BY <2>1, <3>1, <3>2, <3>3, FS_EmptySet, FS_CardinalityType DEF IInv, Counted
    <3> QED  BY <3>4 DEF Stuck
  <2>4. free = N
    <3>1. Firsts = {} /\ Seconds = {}
      BY <2>3 DEF Firsts, Seconds, Active
    <3> QED  BY <2>1, <3>1, FS_EmptySet DEF IInv, Counted
  <2> QED  BY <2>2, <2>3, <2>4 DEF RunMoves
<1> QED  BY <1>1, Invariance, PTL
=============================================================================
