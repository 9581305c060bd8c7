------------------------------- MODULE Server -------------------------------
(***************************************************************************)
(* The process: run() from its start to its exit, the handlers' goroutines, *)
(* and the pool of database connections they share with run's deferred      *)
(* Close.                                                                   *)
(*                                                                         *)
(* What the statements of a handler do is left to the other modules; here   *)
(* a handler asks for connections, holds and returns them.  AppRepo.GetByName *)
(* keeps the connection of its rows while the queries it makes for each row *)
(* ask the pool for another one.                                            *)
(***************************************************************************)
EXTENDS Naturals, FiniteSets

CONSTANTS
    Request,
    Kind,      \* Kind[r]: "lookup" goes through GetByName, "query" asks the database
               \* one thing at a time, "report" only Redis
    N,         \* connections of the pool
    Nested     \* queries GetByName makes while it reads its rows

ASSUME RequestAssumption ==
    IsFiniteSet(Request) /\ Kind \in [Request -> {"lookup", "query", "report"}]
ASSUME PoolAssumption == N \in Nat \ {0} /\ Nested \in Nat

VARIABLES
    main,      \* where run is
    failed,    \* it returns an error
    listener,  \* the goroutine of ListenAndServe
    signal,    \* SIGINT or SIGTERM was caught
    late,      \* history: Shutdown gave up after its 30 s
    metrics, pool,  \* the Redis client and the connection pool: open or not
    free,      \* connections nobody holds
    at,        \* where a handler is
    left,      \* nested queries it still makes
    outcome

process == <<main, failed, listener, signal, late>>
stores == <<metrics, pool>>
handlers == <<free, at, left, outcome>>
vars == <<process, stores, handlers>>

Main == {"config", "store", "blob", "bootstrap", "listen", "select", "shutdown",
         "lastError", "closeMetrics", "closePool", "awaitPool", "exit"}
At == {"absent", "query", "querying", "outer", "inner", "nested", "redis", "done"}

Init ==
    /\ main = "config" /\ failed = FALSE /\ signal = FALSE /\ late = FALSE
    /\ listener = "none"
    /\ metrics = FALSE /\ pool = FALSE
    /\ free = N
    /\ at = [r \in Request |-> "absent"]
    /\ left = [r \in Request |-> Nested]
    /\ outcome = [r \in Request |-> "none"]

Active == {r \in Request : at[r] \notin {"absent", "done"}}
Held(r) == IF at[r] = "nested" THEN 2 ELSE IF at[r] \in {"querying", "inner"} THEN 1 ELSE 0

-----------------------------------------------------------------------------
(* run *)

Goto(here, there) == main = here /\ main' = there
NoDefer(here, error) == Goto(here, "exit") /\ failed' = error
Return(here, error) == Goto(here, "closeMetrics") /\ failed' = error

\* Configuration, and the store with its migration: an error leaves nothing open.
LoadConfig ==
    /\ \/ Goto("config", "store") /\ UNCHANGED failed
       \/ Goto("config", "exit") /\ failed' = TRUE
    /\ UNCHANGED <<listener, signal, late, stores, handlers>>

OpenStore ==
    /\ \/ Goto("store", "blob") /\ metrics' = TRUE /\ pool' = TRUE /\ UNCHANGED failed
       \/ Goto("store", "exit") /\ failed' = TRUE /\ UNCHANGED stores
    /\ UNCHANGED <<listener, signal, late, handlers>>

OpenBlob ==
    /\ \/ Goto("blob", "bootstrap") /\ UNCHANGED failed
       \/ Return("blob", TRUE)
    /\ UNCHANGED <<listener, signal, late, stores, handlers>>

Bootstrap ==
    /\ \/ Goto("bootstrap", "listen") /\ UNCHANGED failed
       \/ Return("bootstrap", TRUE)
    /\ UNCHANGED <<listener, signal, late, stores, handlers>>

Listen ==
    /\ Goto("listen", "select") /\ listener' = "starting"
    /\ UNCHANGED <<failed, signal, late, stores, handlers>>

Signal ==
    /\ main \in {"select", "shutdown", "lastError"} /\ signal' = TRUE
    /\ UNCHANGED <<main, failed, listener, late, stores, handlers>>

\* The select takes either case when both are ready.  After an error of the
\* listener there is no Shutdown.
SelectError ==
    /\ listener = "failed" /\ Return("select", TRUE)
    /\ UNCHANGED <<listener, signal, late, stores, handlers>>

NoShutdown ==
    /\ signal /\ Goto("select", "lastError")
    /\ UNCHANGED <<failed, listener, signal, late, stores, handlers>>
SelectSignal ==
    /\ signal /\ Goto("select", "shutdown")
    /\ listener' = IF listener = "failed" THEN "failed" ELSE "closed"
    /\ UNCHANGED <<failed, signal, late, stores, handlers>>

\* Shutdown returns when no handler is running, or after 30 s.
DrainedAtOnce ==
    /\ Goto("shutdown", "lastError")
    /\ UNCHANGED <<failed, listener, signal, late, stores, handlers>>
Drained ==
    /\ Active = {} /\ Goto("shutdown", "lastError")
    /\ UNCHANGED <<failed, listener, signal, late, stores, handlers>>

GiveUp ==
    /\ Return("shutdown", TRUE) /\ late' = TRUE
    /\ UNCHANGED <<listener, signal, stores, handlers>>

LastError ==
    /\ listener \in {"closed", "failed"} /\ Return("lastError", listener = "failed")
    /\ UNCHANGED <<listener, signal, late, stores, handlers>>

\* The deferred calls; the Close of the pool waits for every connection.
CloseMetrics ==
    /\ Goto("closeMetrics", "closePool") /\ metrics' = FALSE
    /\ UNCHANGED <<failed, listener, signal, late, pool, handlers>>

ClosePool ==
    /\ Goto("closePool", "awaitPool") /\ pool' = FALSE
    /\ UNCHANGED <<failed, listener, signal, late, metrics, handlers>>

Exit ==
    /\ free = N /\ Goto("awaitPool", "exit")
    /\ UNCHANGED <<failed, listener, signal, late, stores, handlers>>

Run ==
    \/ LoadConfig \/ OpenStore \/ OpenBlob \/ Bootstrap \/ Listen \/ SelectError \/ SelectSignal
    \/ Drained \/ GiveUp \/ LastError \/ CloseMetrics \/ ClosePool \/ Exit

-----------------------------------------------------------------------------
(* The listener and the handlers, as long as there is a process *)

Bind ==
    /\ main # "exit" /\ listener = "starting" /\ listener' = "open"
    /\ UNCHANGED <<main, failed, signal, late, stores, handlers>>

ListenFails ==
    /\ main # "exit" /\ listener \in {"starting", "open"} /\ listener' = "failed"
    /\ UNCHANGED <<main, failed, signal, late, stores, handlers>>

Turn(r, here, there) == main # "exit" /\ at[r] = here /\ at' = [at EXCEPT ![r] = there]

\* A handler ends, by an error too: its deferred calls return what it holds.
KeepsOuter(r, result) ==
    /\ Turn(r, at[r], "done")
    /\ free' = IF at[r] \in {"querying", "nested"} THEN free + 1 ELSE free
    /\ outcome' = [outcome EXCEPT ![r] = result]
    /\ UNCHANGED left
End(r, result) ==
    /\ Turn(r, at[r], "done")
    /\ free' = free + Held(r)
    /\ outcome' = [outcome EXCEPT ![r] = result]
    /\ UNCHANGED left

First == [lookup |-> "outer", query |-> "query", report |-> "redis"]

\* Clients connect as long as the listener is open.  A connection kept alive brings
\* requests for longer: until Shutdown has found it idle, and where the listener
\* failed, which no Shutdown follows, until the process ends.
Reachable ==
    \/ listener = "open" \/ main = "shutdown"
    \/ listener = "failed" /\ main \in {"select", "closeMetrics", "closePool", "awaitPool"}

Arrive(r) ==
    /\ Reachable /\ Turn(r, "absent", First[Kind[r]])
    /\ UNCHANGED <<process, stores, free, left, outcome>>

\* The pool gives a free connection to one that waits, or an error once it is closed.
Acquire(r) ==
    /\ free > 0
    /\ \/ /\ pool /\ free' = free - 1 /\ UNCHANGED <<left, outcome>>
          /\ \/ Turn(r, "query", "querying")
             \/ Turn(r, "outer", "inner")
             \/ Turn(r, "inner", "nested")
       \/ /\ ~pool /\ at[r] \in {"query", "outer", "inner"}
          /\ End(r, "closed")
    /\ UNCHANGED <<process, stores>>

Query(r) ==
    /\ Turn(r, "querying", "redis") /\ free' = free + 1
    /\ UNCHANGED <<process, stores, left, outcome>>

\* A nested query is done: on with the next one, or with the rows of GetByName.
NestedQuery(r) ==
    /\ \/ left[r] > 0 /\ Turn(r, "nested", "inner") /\ free' = free + 1
       \/ left[r] = 0 /\ Turn(r, "nested", "redis") /\ free' = free + 2
    /\ left' = [left EXCEPT ![r] = IF @ > 0 THEN @ - 1 ELSE 0]
    /\ UNCHANGED <<process, stores, outcome>>

Redis(r) ==
    /\ at[r] = "redis" /\ End(r, IF metrics THEN "ok" ELSE "closed")
    /\ UNCHANGED <<process, stores>>

\* The client leaves: the context of the request is cancelled wherever it waits.
Leave(r) ==
    /\ r \in Active /\ End(r, "left")
    /\ UNCHANGED <<process, stores>>

Handle(r) == Acquire(r) \/ Query(r) \/ NestedQuery(r) \/ Redis(r)

Next ==
    \/ Run \/ Signal \/ Bind \/ ListenFails
    \/ \E r \in Request : Arrive(r) \/ Handle(r) \/ Leave(r)

\* run and the handlers are goroutines, the 30 s are a timer.  Nothing makes a
\* signal come, the listener fail or a client arrive or leave.
Fairness == WF_vars(Run) /\ \A r \in Request : WF_vars(Handle(r))

Spec == Init /\ [][Next]_vars /\ Fairness

-----------------------------------------------------------------------------
(* Properties *)

TypeOK ==
    /\ main \in Main
    /\ failed \in BOOLEAN /\ signal \in BOOLEAN /\ late \in BOOLEAN
    /\ listener \in {"none", "starting", "open", "closed", "failed"}
    /\ metrics \in BOOLEAN /\ pool \in BOOLEAN
    /\ free \in 0..N
    /\ at \in [Request -> At]
    /\ left \in [Request -> 0..Nested]
    /\ outcome \in [Request -> {"none", "ok", "closed", "left"}]

\* Every connection is the first one of a lookup that waits for a second.
Waiting == {r \in Request : at[r] = "inner"}
Stuck == Cardinality(Waiting) = N

\* On no path, errors and clients that leave included, is a connection lost: if
\* all the handlers wait for one, it is because lookups wait for each other.
BlockedOnlyByLookups ==
    free = 0 /\ (\A r \in Active : at[r] \in {"query", "outer", "inner"}) => Stuck

\* No handler finds a store closed or is cut off by the exit of the process,
\* unless Shutdown gave up on it or the listener failed.
Disturbed(r) == outcome[r] = "closed" \/ (main = "exit" /\ r \in Active)
DisturbedOnlyWhenLate == \A r \in Request : Disturbed(r) => late \/ listener = "failed"

\* Whatever it fails at, the process never ends with a store open; and with
\* success only when it had served whom it accepted.
LeavesNothingOpen ==
    main = "exit" => ~metrics /\ ~pool /\ free = N /\ (~failed => Active = {} /\ signal)

\* Every handler comes to an end, unless from some moment on lookups have all
\* the connections and no client gives up.
HandlersEnd ==
    <>[]Stuck \/ \A r \in Request : r \in Active ~> r \notin Active \/ main = "exit"

\* A process that was told to stop does, in 30 s or with an error, unless lookups
\* keep all the connections: the Close of the pool waits for them.
SignalEnds == <>[]Stuck \/ (signal ~> main = "exit")
=============================================================================
