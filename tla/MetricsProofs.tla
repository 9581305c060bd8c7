---------------------------- MODULE MetricsProofs ----------------------------
(* The invariants of Metrics, for any labels, clients and requests. *)
EXTENDS Metrics, TLAPS

(* The inductive invariant *)

\* A client that is not disturbed has at most one report in the server, about a
\* label; when its transaction starts the label the GET returned is current.
ReportsOK ==
    \A c \in Client \ disturbed :
        /\ \A r, q \in Request :
             Active(r) /\ Active(q) /\ c \in Reporter(r) /\ c \in Reporter(q) => r = q
        /\ \A r \in Request : Active(r) /\ c \in Reporter(r) => Reported(r) # Empty
        /\ \A r \in Request : pc[r] = "execDeploy" /\ c \in Reporter(r) => prev[r] = clientKey[c]
        /\ c \notin active[Empty]

\* What a Clear has not listed it will leave behind, if it is there at the DEL.
ClearsOK == \A r \in Request : pc[r] = "delete" => labels \subseteq todo[r] \cup raced

\* What a GetMetrics counted for a client that stayed where it was is current.
CountsOK ==
    \A r \in Request : Active(r) =>
        \A c \in Client \ (disturbed \cup moved[r]) : \A l \in AnyLabel :
            <<l, c>> \in counted[r] => clientKey[c] = l

ControlOK ==
    \A r \in Request :
        /\ pc[r] \in {"getClient", "execDeploy"} => call[r].op = "deploy"
        /\ pc[r] = "execDownload" => call[r].op = "download"
        /\ pc[r] = "idle" => counted[r] = {}

IInv ==
    /\ TypeOK
    /\ ControlOK
    /\ ReportsOK
    /\ ActiveFollowsClient
    /\ ClearsOK
    /\ RemnantsOnlyFromRaces
    /\ CountsOK
    /\ StillClientCountedOnce

-----------------------------------------------------------------------------

LEMMA CallType ==
  ASSUME TypeOK, NEW r \in Request
  PROVE  /\ call[r] \in Call
         /\ Reported(r) \in AnyLabel
         /\ Reporter(r) \subseteq Client
         /\ First[call[r].op] \in {"getClient", "execDownload", "listLabels", "listToClear"}
  BY CallsAssumption DEF TypeOK, Call, Op, Reported, Reporter, First

LEMMA ZeroType == Zero \in [Counter -> Nat]
  BY DEF Zero

\* A prime moves into these operators: calls never change.
LEMMA SameCalls ==
  ASSUME UNCHANGED call
  PROVE  \A r \in Request : Reported(r)' = Reported(r) /\ Reporter(r)' = Reporter(r)
  BY DEF Reported, Reporter

LEMMA InitIInv == Init => IInv
<1> SUFFICES ASSUME Init PROVE IInv
  OBVIOUS
<1>1. TypeOK
  BY CallsAssumption, ZeroType DEF Init, TypeOK, PC, AnyLabel
<1>2. ControlOK /\ ReportsOK /\ ClearsOK /\ CountsOK
  BY DEF Init, ControlOK, ReportsOK, ClearsOK, CountsOK, Active, AnyLabel
<1>3. ActiveFollowsClient /\ RemnantsOnlyFromRaces /\ StillClientCountedOnce
  BY DEF Init, ActiveFollowsClient, RemnantsOnlyFromRaces, StillClientCountedOnce
<1> QED  BY <1>1, <1>2, <1>3 DEF IInv

-----------------------------------------------------------------------------
(* Types *)

LEMMA StepTypeOK ==
  ASSUME IInv, NEW r \in Request, Begin(r) \/ Step(r) \/ Fail(r)
  PROVE  TypeOK'
<1> USE DEF redis
<1>0. TypeOK /\ Reported(r) \in AnyLabel /\ Reporter(r) \subseteq Client /\ Empty \in AnyLabel
  BY CallType DEF IInv, AnyLabel
<1>1. CASE Begin(r)
  BY <1>0, <1>1, CallType DEF Begin, Goto, TypeOK, PC
<1>2. CASE GetClient(r)
  <2>1. (IF Reporter(r) = {} THEN Empty ELSE clientKey[call[r].client]) \in AnyLabel
    BY <1>0 DEF TypeOK, Reporter
  <2> QED  BY <1>0, <1>2, <2>1 DEF GetClient, Goto, TypeOK, PC
<1>3. CASE ExecDeploy(r)
  <2>1. pc' \in [Request -> PC] /\ labels' \subseteq AnyLabel /\ raced' \subseteq AnyLabel
    BY <1>0, <1>3 DEF ExecDeploy, Goto, TypeOK, PC, Race
  <2>2. counters' \in [AnyLabel -> [Counter -> Nat]]
    BY <1>0, <1>3 DEF ExecDeploy, Count, TypeOK, Counter
  <2>3. active' \in [AnyLabel -> SUBSET Client] /\ clientKey' \in [Client -> AnyLabel]
    BY <1>0, <1>3 DEF ExecDeploy, TypeOK
  <2>4. moved' \in [Request -> SUBSET Client]
    BY <1>0, <1>3 DEF ExecDeploy, TypeOK
  <2> QED  BY <1>0, <1>3, <2>1, <2>2, <2>3, <2>4 DEF ExecDeploy, TypeOK
<1>4. CASE ExecDownload(r)
  <2>1. counters' \in [AnyLabel -> [Counter -> Nat]]
    BY <1>0, <1>4 DEF ExecDownload, Count, TypeOK, Counter
  <2> QED  BY <1>0, <1>4, <2>1 DEF ExecDownload, Goto, TypeOK, PC, Race
<1>5. CASE ListLabels(r)
  BY <1>0, <1>5 DEF ListLabels, Goto, TypeOK, PC
<1>6. CASE ReadLabel(r)
  <2>1. PICK l \in todo[r] :
          /\ todo' = [todo EXCEPT ![r] = @ \ {l}]
          /\ counted' = [counted EXCEPT ![r] = @ \cup {<<l, c>> : c \in active[l]}]
    BY <1>6 DEF ReadLabel
  <2>2. l \in AnyLabel /\ {<<l, c>> : c \in active[l]} \subseteq AnyLabel \X Client
    BY <1>0 DEF TypeOK
  <2> QED  BY <1>0, <1>6, <2>1, <2>2 DEF ReadLabel, TypeOK
<1>7. CASE FinishRead(r)
  BY <1>0, <1>7 DEF FinishRead, Goto, TypeOK, PC
<1>8. CASE Delete(r)
  BY <1>0, <1>8, ZeroType DEF Delete, ActiveAfterDelete, Goto, TypeOK, PC
<1>9. CASE Fail(r)
  BY <1>0, <1>9 DEF Fail, TypeOK, PC
<1> QED
  BY <1>1, <1>2, <1>3, <1>4, <1>5, <1>6, <1>7, <1>8, <1>9 DEF Step

-----------------------------------------------------------------------------
(* Requests starting, ending and reading *)

LEMMA BeginStep ==
  ASSUME IInv, TypeOK', NEW r \in Request, Begin(r)
  PROVE  IInv'
<1>0. /\ TypeOK /\ UNCHANGED <<labels, counters, active, clientKey, call, prev, todo, counted, raced, moved>>
      /\ disturbed \subseteq disturbed' /\ pc[r] = "idle"
      /\ pc' = [pc EXCEPT ![r] = First[call[r].op]]
  BY DEF IInv, Begin, Goto, redis
<1>1. \A q \in Request : Reported(q)' = Reported(q) /\ Reporter(q)' = Reporter(q)
  BY <1>0, SameCalls
<1>2. First[call[r].op] \in {"getClient", "execDownload", "listLabels", "listToClear"}
  BY <1>0, CallType
<1>3. ControlOK'
  <2>1. First[call[r].op] = "getClient" => call[r].op = "deploy"
    BY <1>0, CallType DEF First, Call, Op
  <2>2. First[call[r].op] = "execDownload" => call[r].op = "download"
    BY <1>0, CallType DEF First, Call, Op
  <2> QED  BY <1>0, <1>2, <2>1, <2>2 DEF IInv, ControlOK, TypeOK
<1>4. ReportsOK'
  <2> SUFFICES ASSUME NEW c \in Client \ disturbed'
               PROVE  /\ \A o, q \in Request :
                           Active(o)' /\ Active(q)' /\ c \in Reporter(o) /\ c \in Reporter(q) => o = q
                      /\ \A q \in Request : Active(q)' /\ c \in Reporter(q) => Reported(q) # Empty
                      /\ \A q \in Request :
                           pc'[q] = "execDeploy" /\ c \in Reporter(q) => prev[q] = clientKey[c]
                      /\ c \notin active[Empty]
    BY <1>0, <1>1 DEF ReportsOK
  <2>1. c \in Client \ disturbed
    BY <1>0
  <2>2. c \in Reporter(r) => /\ Reported(r) # Empty
                             /\ \A q \in Request : ~(Active(q) /\ c \in Reporter(q))
    BY DEF Begin
  <2>3. \A q \in Request \ {r} : pc'[q] = pc[q]
    BY <1>0 DEF TypeOK
  <2>4. pc'[r] # "execDeploy"
    BY <1>0, <1>2 DEF TypeOK
  <2> QED  BY <2>1, <2>2, <2>3, <2>4 DEF IInv, ReportsOK, Active
<1>5. ClearsOK'
  BY <1>0, <1>2 DEF IInv, ClearsOK, TypeOK
<1>6. CountsOK'
  <2>1. counted[r] = {} /\ \A q \in Request \ {r} : pc'[q] = pc[q]
    BY <1>0 DEF IInv, ControlOK, TypeOK
  <2> QED  BY <1>0, <2>1 DEF IInv, CountsOK, Active
<1>7. ActiveFollowsClient' /\ RemnantsOnlyFromRaces' /\ StillClientCountedOnce'
  BY <1>0 DEF IInv, ActiveFollowsClient, RemnantsOnlyFromRaces, StillClientCountedOnce
<1> QED  BY <1>3, <1>4, <1>5, <1>6, <1>7 DEF IInv

\* Ending a request, or reading without keeping anything.
LEMMA EndStep ==
  ASSUME IInv, TypeOK', NEW r \in Request, FinishRead(r) \/ Fail(r)
  PROVE  IInv'
<1>0. /\ TypeOK /\ UNCHANGED <<labels, counters, active, clientKey, call, prev, todo, counted,
                               disturbed, raced, moved>>
      /\ pc' = [pc EXCEPT ![r] = "answered"]
  BY DEF IInv, FinishRead, Fail, Goto, redis
<1>1. \A q \in Request : Reported(q)' = Reported(q) /\ Reporter(q)' = Reporter(q)
  BY <1>0, SameCalls
<1>2. \A q \in Request : pc'[q] = pc[q] \/ pc'[q] = "answered"
  BY <1>0 DEF TypeOK
<1>3. ControlOK' /\ ClearsOK' /\ CountsOK'
  BY <1>0, <1>2 DEF IInv, ControlOK, ClearsOK, CountsOK, Active
<1>4. ReportsOK'
  BY <1>0, <1>1, <1>2 DEF IInv, ReportsOK, Active
<1>5. ActiveFollowsClient' /\ RemnantsOnlyFromRaces' /\ StillClientCountedOnce'
  BY <1>0 DEF IInv, ActiveFollowsClient, RemnantsOnlyFromRaces, StillClientCountedOnce
<1> QED  BY <1>3, <1>4, <1>5 DEF IInv

LEMMA GetClientStep ==
  ASSUME IInv, TypeOK', NEW r \in Request, GetClient(r)
  PROVE  IInv'
<1>0. /\ TypeOK /\ UNCHANGED <<labels, counters, active, clientKey, call, todo, counted, raced, moved>>
      /\ disturbed \subseteq disturbed' /\ pc[r] = "getClient"
      /\ pc' = [pc EXCEPT ![r] = "execDeploy"]
  BY DEF IInv, GetClient, Goto, redis
<1>1. \A q \in Request : Reported(q)' = Reported(q) /\ Reporter(q)' = Reporter(q)
  BY <1>0, SameCalls
<1>2. /\ \A q \in Request \ {r} : pc'[q] = pc[q] /\ prev'[q] = prev[q]
      /\ pc'[r] = "execDeploy"
  BY <1>0 DEF GetClient, TypeOK
<1>3. \A c \in Client \ disturbed' : c \in Reporter(r) => prev'[r] = clientKey[c]
  BY <1>0 DEF GetClient, TypeOK, Reporter
<1>4. \A q \in Request : Active(q)' = Active(q)
  BY <1>0, <1>2 DEF Active
<1>5. ControlOK'
  BY <1>0, <1>2 DEF IInv, ControlOK
<1>6. ReportsOK'
  BY <1>0, <1>1, <1>2, <1>3, <1>4 DEF IInv, ReportsOK
<1>7. ClearsOK' /\ CountsOK'
  BY <1>0, <1>2, <1>4 DEF IInv, ClearsOK, CountsOK
<1>8. ActiveFollowsClient' /\ RemnantsOnlyFromRaces' /\ StillClientCountedOnce'
  BY <1>0 DEF IInv, ActiveFollowsClient, RemnantsOnlyFromRaces, StillClientCountedOnce
<1> QED  BY <1>5, <1>6, <1>7, <1>8 DEF IInv

LEMMA ListLabelsStep ==
  ASSUME IInv, TypeOK', NEW r \in Request, ListLabels(r)
  PROVE  IInv'
<1>0. /\ TypeOK /\ UNCHANGED <<labels, counters, active, clientKey, call, prev, counted,
                               disturbed, raced, moved>>
      /\ \/ pc[r] = "listLabels" /\ pc' = [pc EXCEPT ![r] = "readLabel"]
         \/ pc[r] = "listToClear" /\ pc' = [pc EXCEPT ![r] = "delete"]
      /\ todo' = [todo EXCEPT ![r] = labels]
  BY DEF IInv, ListLabels, Goto, redis
<1>1. \A q \in Request : Reported(q)' = Reported(q) /\ Reporter(q)' = Reporter(q)
  BY <1>0, SameCalls
<1>2. /\ \A q \in Request \ {r} : pc'[q] = pc[q] /\ todo'[q] = todo[q]
      /\ pc'[r] \in {"readLabel", "delete"} /\ todo'[r] = labels
  BY <1>0 DEF TypeOK
<1>3. \A q \in Request : Active(q)' = Active(q)
  BY <1>0, <1>2 DEF Active
<1>4. ControlOK' /\ ClearsOK' /\ CountsOK'
  BY <1>0, <1>2, <1>3 DEF IInv, ControlOK, ClearsOK, CountsOK
<1>5. ReportsOK'
  BY <1>0, <1>1, <1>2, <1>3 DEF IInv, ReportsOK
<1>6. ActiveFollowsClient' /\ RemnantsOnlyFromRaces' /\ StillClientCountedOnce'
  BY <1>0 DEF IInv, ActiveFollowsClient, RemnantsOnlyFromRaces, StillClientCountedOnce
<1> QED  BY <1>4, <1>5, <1>6 DEF IInv

-----------------------------------------------------------------------------
(* Reports *)

\* What both kinds of report leave alone, and what they do to labels and raced.
LEMMA ReportedRaces ==
  ASSUME IInv, TypeOK', NEW r \in Request, ExecDeploy(r) \/ ExecDownload(r)
  PROVE  /\ ClearsOK'
         /\ RemnantsOnlyFromRaces'
<1>1. /\ TypeOK /\ Reported(r) \in AnyLabel
      /\ labels' = labels \cup {Reported(r)} /\ todo' = todo
      /\ raced \subseteq raced'
      /\ (\E q \in Request : pc[q] = "delete") => Reported(r) \in raced'
      /\ pc' = [pc EXCEPT ![r] = "answered"]
  BY CallType DEF IInv, ExecDeploy, ExecDownload, Race, Goto
<1>2. ClearsOK'
  <2>1. \A q \in Request : pc'[q] = "delete" => pc[q] = "delete"
    BY <1>1 DEF TypeOK
  <2> QED  BY <1>1, <2>1 DEF IInv, ClearsOK
<1>3. \A l \in AnyLabel \ labels' : counters'[l] = counters[l] /\ active'[l] \subseteq active[l]
  <2>1. CASE ExecDeploy(r)
    BY <1>1, <2>1 DEF ExecDeploy, Count, TypeOK
  <2>2. CASE ExecDownload(r)
    BY <1>1, <2>2 DEF ExecDownload, Count, TypeOK
  <2> QED  BY <2>1, <2>2
<1>4. RemnantsOnlyFromRaces'
  <2> SUFFICES ASSUME NEW l \in AnyLabel \ labels', counters'[l] # Zero \/ active'[l] # {}
               PROVE  l \in raced'
    BY DEF RemnantsOnlyFromRaces, Zero
  <2>1. l \notin labels /\ (counters[l] # Zero \/ active[l] # {})
    BY <1>1, <1>3
  <2> QED  BY <1>1, <2>1 DEF IInv, RemnantsOnlyFromRaces
<1> QED  BY <1>2, <1>4

LEMMA ExecDownloadStep ==
  ASSUME IInv, TypeOK', NEW r \in Request, ExecDownload(r)
  PROVE  IInv'
<1>0. /\ TypeOK /\ UNCHANGED <<active, clientKey, call, prev, todo, counted, disturbed, moved>>
      /\ pc' = [pc EXCEPT ![r] = "answered"]
  BY DEF IInv, ExecDownload, Goto
<1>1. \A q \in Request : Reported(q)' = Reported(q) /\ Reporter(q)' = Reporter(q)
  BY <1>0, SameCalls
<1>2. \A q \in Request : pc'[q] = pc[q] \/ pc'[q] = "answered"
  BY <1>0 DEF TypeOK
<1>3. ControlOK' /\ CountsOK'
  BY <1>0, <1>2 DEF IInv, ControlOK, CountsOK, Active
<1>4. ReportsOK'
  BY <1>0, <1>1, <1>2 DEF IInv, ReportsOK, Active
<1>5. ActiveFollowsClient' /\ StillClientCountedOnce'
  BY <1>0 DEF IInv, ActiveFollowsClient, StillClientCountedOnce
<1> QED  BY <1>3, <1>4, <1>5, ReportedRaces DEF IInv

\* The transaction moves an undisturbed reporter from where it was: it was
\* active in the label its key named, and in no other.
LEMMA ExecDeployStep ==
  ASSUME IInv, TypeOK', NEW r \in Request, ExecDeploy(r)
  PROVE  IInv'
<1> DEFINE l == Reported(r)
<1>0. /\ TypeOK /\ UNCHANGED <<call, prev, todo, counted, disturbed>>
      /\ pc[r] = "execDeploy" /\ pc' = [pc EXCEPT ![r] = "answered"]
      /\ Active(r)
  BY DEF IInv, ExecDeploy, Goto, Active
<1>1. \A q \in Request : Reported(q)' = Reported(q) /\ Reporter(q)' = Reporter(q)
  BY <1>0, SameCalls
<1>2. \A q \in Request : (pc'[q] = pc[q] /\ q # r) \/ pc'[q] = "answered"
  BY <1>0 DEF TypeOK
<1>3. l \in AnyLabel /\ Reporter(r) \subseteq Client
  BY <1>0, CallType
<1>4. /\ \A c \in Client \ Reporter(r) : clientKey'[c] = clientKey[c]
      /\ \A c \in Reporter(r) : clientKey'[c] = l
  BY <1>3 DEF ExecDeploy
<1>5. \A m \in AnyLabel :
        /\ active'[m] \subseteq active[m] \cup Reporter(r)
        /\ m # l => active'[m] \subseteq active[m]
        /\ m # l /\ prev[r] = m /\ m # Empty => active'[m] = active[m] \ Reporter(r)
  BY <1>3 DEF ExecDeploy, Leaves
<1>6. \A q \in Request : /\ moved[q] \subseteq moved'[q]
                         /\ Active(q) => Reporter(r) \subseteq moved'[q]
  BY DEF ExecDeploy
<1>7. \A c \in Client \ disturbed : c \in Reporter(r) =>
        /\ l # Empty /\ prev[r] = clientKey[c] /\ c \notin active[Empty]
        /\ \A q \in Request : Active(q) /\ c \in Reporter(q) => q = r
  BY <1>0 DEF IInv, ReportsOK
<1>8. ActiveFollowsClient'
  <2> SUFFICES ASSUME NEW c \in Client \ disturbed, NEW m \in AnyLabel, c \in active'[m]
               PROVE  clientKey'[c] = m
    BY <1>0 DEF ActiveFollowsClient
  <2>1. CASE c \notin Reporter(r)
    <3>1. c \in active[m]
      BY <1>5, <2>1
    <3> QED  BY <1>4, <2>1, <3>1 DEF IInv, ActiveFollowsClient
  <2>2. CASE c \in Reporter(r) /\ m = l
    BY <1>4, <2>2
  <2>3. CASE c \in Reporter(r) /\ m # l
    <3>1. c \in active[m]
      BY <1>5, <2>3
    <3>2. m # Empty
      BY <1>7, <2>3, <3>1
    <3>3. prev[r] = m
      BY <1>7, <2>3, <3>1 DEF IInv, ActiveFollowsClient
    <3> QED  BY <1>5, <2>3, <3>2, <3>3
  <2> QED  BY <2>1, <2>2, <2>3
<1>9. ReportsOK'
  <2> SUFFICES ASSUME NEW c \in Client \ disturbed
               PROVE  /\ \A o, q \in Request :
                           Active(o)' /\ Active(q)' /\ c \in Reporter(o) /\ c \in Reporter(q) => o = q
                      /\ \A q \in Request : Active(q)' /\ c \in Reporter(q) => Reported(q) # Empty
                      /\ \A q \in Request :
                           pc'[q] = "execDeploy" /\ c \in Reporter(q) => prev[q] = clientKey'[c]
                      /\ c \notin active'[Empty]
    BY <1>0, <1>1 DEF ReportsOK
  <2>1. \A q \in Request : Active(q)' => Active(q) /\ q # r
    BY <1>0, <1>2 DEF Active
  <2>2. c \notin active'[Empty]
    <3>1. Empty \in AnyLabel /\ c \notin active[Empty]
      BY DEF IInv, ReportsOK, AnyLabel
    <3> QED  BY <1>5, <1>7, <3>1
  <2>3. \A q \in Request : pc'[q] = "execDeploy" /\ c \in Reporter(q) => prev[q] = clientKey'[c]
    <3> SUFFICES ASSUME NEW q \in Request, pc'[q] = "execDeploy", c \in Reporter(q)
                 PROVE  prev[q] = clientKey'[c]
      OBVIOUS
    <3>1. q # r /\ pc[q] = "execDeploy" /\ Active(q)
      BY <1>2 DEF Active
    <3>2. c \notin Reporter(r)
      BY <1>7, <3>1
    <3> QED  BY <1>4, <3>1, <3>2 DEF IInv, ReportsOK
  <2> QED  BY <2>1, <2>2, <2>3 DEF IInv, ReportsOK
<1>10. CountsOK'
  <2> SUFFICES ASSUME NEW q \in Request, Active(q)', NEW c \in Client \ (disturbed \cup moved'[q]),
                      NEW m \in AnyLabel, <<m, c>> \in counted[q]
               PROVE  clientKey'[c] = m
    BY <1>0 DEF CountsOK
  <2>1. Active(q)
    BY <1>2 DEF Active
  <2>2. c \notin Reporter(r) /\ c \notin moved[q]
    BY <1>6, <2>1
  <2> QED  BY <1>4, <2>1, <2>2 DEF IInv, CountsOK
<1>11. StillClientCountedOnce'
  BY <1>0, <1>6 DEF IInv, StillClientCountedOnce
<1>12. ControlOK'
  BY <1>0, <1>2 DEF IInv, ControlOK
<1> QED  BY <1>8, <1>9, <1>10, <1>11, <1>12, ReportedRaces DEF IInv

-----------------------------------------------------------------------------
(* Reading and clearing *)

\* What the SCARD of one label counts is current, for clients not disturbed.
LEMMA ReadLabelStep ==
  ASSUME IInv, TypeOK', NEW r \in Request, ReadLabel(r)
  PROVE  IInv'
<1>0. /\ TypeOK /\ pc[r] = "readLabel"
      /\ UNCHANGED <<labels, counters, active, clientKey, pc, call, prev, disturbed, raced, moved>>
  BY DEF IInv, ReadLabel, redis
<1>1. PICK k \in todo[r] :
        /\ todo' = [todo EXCEPT ![r] = @ \ {k}]
        /\ counted' = [counted EXCEPT ![r] = @ \cup {<<k, c>> : c \in active[k]}]
  BY DEF ReadLabel
<1>2. /\ k \in AnyLabel
      /\ \A q \in Request \ {r} : todo'[q] = todo[q] /\ counted'[q] = counted[q]
      /\ counted'[r] = counted[r] \cup {<<k, c>> : c \in active[k]}
  BY <1>0, <1>1 DEF TypeOK
<1>3. Active(r)
  BY <1>0 DEF Active
<1>4. \A q \in Request : Reported(q)' = Reported(q) /\ Reporter(q)' = Reporter(q)
  BY <1>0, SameCalls
<1>5. ControlOK'
  BY <1>0, <1>2 DEF IInv, ControlOK
<1>6. ReportsOK'
  BY <1>0, <1>4 DEF IInv, ReportsOK, Active
<1>7. ClearsOK'
  BY <1>0, <1>2 DEF IInv, ClearsOK
<1>8. \A c \in Client \ (disturbed \cup moved[r]) : \A m \in AnyLabel :
        <<m, c>> \in counted'[r] => clientKey[c] = m
  <2> SUFFICES ASSUME NEW c \in Client \ (disturbed \cup moved[r]), NEW m \in AnyLabel,
                      <<m, c>> \in counted'[r]
               PROVE  clientKey[c] = m
    OBVIOUS
  <2>1. CASE <<m, c>> \in counted[r]
    BY <1>3, <2>1 DEF IInv, CountsOK
  <2>2. CASE m = k /\ c \in active[k]
    BY <2>2 DEF IInv, ActiveFollowsClient
  <2> QED  BY <1>2, <2>1, <2>2
<1>9. CountsOK'
  BY <1>0, <1>2, <1>8 DEF IInv, CountsOK, Active
<1>10. StillClientCountedOnce'
  <2> SUFFICES ASSUME NEW q \in Request, NEW c \in Client \ (disturbed \cup moved[q]),
                      NEW l \in AnyLabel, NEW m \in AnyLabel,
                      <<l, c>> \in counted'[q], <<m, c>> \in counted'[q]
               PROVE  l = m
    BY <1>0 DEF StillClientCountedOnce
  <2>1. CASE q = r
    BY <1>8, <2>1
  <2>2. CASE q # r
    BY <1>2, <2>2 DEF IInv, StillClientCountedOnce
  <2> QED  BY <2>1, <2>2
<1>11. ActiveFollowsClient' /\ RemnantsOnlyFromRaces'
  BY <1>0 DEF IInv, ActiveFollowsClient, RemnantsOnlyFromRaces
<1> QED  BY <1>5, <1>6, <1>7, <1>9, <1>10, <1>11 DEF IInv

\* A label the DEL leaves something under was not listed: it is in raced.
LEMMA DeleteStep ==
  ASSUME IInv, TypeOK', NEW r \in Request, Delete(r)
  PROVE  IInv'
<1>0. /\ TypeOK /\ UNCHANGED <<clientKey, call, prev, todo, counted, disturbed, raced, moved>>
      /\ pc[r] = "delete" /\ (pc' = [pc EXCEPT ![r] = "answered"] \/ pc' = pc)
      /\ labels' = {}
  BY DEF IInv, Delete, Goto
<1>1. \A q \in Request : Reported(q)' = Reported(q) /\ Reporter(q)' = Reporter(q)
  BY <1>0, SameCalls
<1>2. \A q \in Request : pc'[q] = pc[q] \/ pc'[q] = "answered"
  BY <1>0 DEF TypeOK
<1>3. \A l \in AnyLabel :
        /\ active'[l] \subseteq active[l]
        /\ l \in todo[r] => counters'[l] = Zero /\ active'[l] = {}
        /\ l \notin todo[r] => counters'[l] = counters[l]
  BY DEF Delete, ActiveAfterDelete
<1>4. ControlOK' /\ ClearsOK' /\ CountsOK'
  BY <1>0, <1>2 DEF IInv, ControlOK, ClearsOK, CountsOK, Active
<1>5. ReportsOK'
  <2>1. Empty \in AnyLabel
    BY DEF AnyLabel
  <2> QED  BY <1>0, <1>1, <1>2, <1>3, <2>1 DEF IInv, ReportsOK, Active
<1>6. ActiveFollowsClient'
  BY <1>0, <1>3 DEF IInv, ActiveFollowsClient
<1>7. RemnantsOnlyFromRaces'
  <2> SUFFICES ASSUME NEW l \in AnyLabel, counters'[l] # Zero \/ active'[l] # {}
               PROVE  l \in raced
    BY <1>0 DEF RemnantsOnlyFromRaces, Zero
  <2>1. l \notin todo[r] /\ (counters[l] # Zero \/ active[l] # {})
    BY <1>3
  <2>2. CASE l \in labels
    BY <1>0, <2>1, <2>2 DEF IInv, ClearsOK
  <2>3. CASE l \notin labels
    BY <2>1, <2>3 DEF IInv, RemnantsOnlyFromRaces
  <2> QED  BY <2>2, <2>3
<1>8. StillClientCountedOnce'
  BY <1>0 DEF IInv, StillClientCountedOnce
<1> QED  BY <1>4, <1>5, <1>6, <1>7, <1>8 DEF IInv

-----------------------------------------------------------------------------

LEMMA NextIInv == IInv /\ [Next]_vars => IInv'
<1> SUFFICES ASSUME IInv, [Next]_vars PROVE IInv'
  OBVIOUS
<1>1. CASE UNCHANGED vars
  <2>1. /\ UNCHANGED <<labels, counters, active, clientKey, pc, call, prev, todo, counted,
                       disturbed, raced, moved>>
    BY <1>1 DEF vars, redis
  <2>2. TypeOK' /\ ControlOK' /\ ClearsOK' /\ CountsOK'
    BY <2>1 DEF IInv, TypeOK, ControlOK, ClearsOK, CountsOK, Active
  <2>3. ReportsOK'
    BY <2>1, SameCalls DEF IInv, ReportsOK, Active
  <2>4. ActiveFollowsClient' /\ RemnantsOnlyFromRaces' /\ StillClientCountedOnce'
    BY <2>1 DEF IInv, ActiveFollowsClient, RemnantsOnlyFromRaces, StillClientCountedOnce
  <2> QED  BY <2>2, <2>3, <2>4 DEF IInv
<1>2. ASSUME NEW r \in Request, Begin(r) \/ Step(r) \/ Fail(r) PROVE IInv'
  <2>1. TypeOK'
    BY <1>2, StepTypeOK
  <2> QED
    BY <1>2, <2>1, BeginStep, EndStep, GetClientStep, ListLabelsStep, ExecDeployStep,
       ExecDownloadStep, ReadLabelStep, DeleteStep DEF Step
<1> QED  BY <1>1, <1>2 DEF Next

\* The inductive invariant holds of every state a request can leave Redis in.
THEOREM Invariance == Spec => []IInv
BY InitIInv, NextIInv, PTL DEF Spec

\* Redis keys and requests keep their types.
THEOREM TypeCorrect == Spec => []TypeOK
<1>1. IInv => TypeOK
  BY DEF IInv
<1> QED  BY <1>1, Invariance, PTL

\* A client whose reports do not overlap is active in the label it reported
\* last, or nowhere, although ReportDeploy reads that label before its transaction.
THEOREM ActiveIsCurrent == Spec => []ActiveFollowsClient
<1>1. IInv => ActiveFollowsClient
  BY DEF IInv
<1> QED  BY <1>1, Invariance, PTL

\* Clear leaves data behind only of labels reported between its list and its DEL.
THEOREM ClearsLeaveRaces == Spec => []RemnantsOnlyFromRaces
<1>1. IInv => RemnantsOnlyFromRaces
  BY DEF IInv
<1> QED  BY <1>1, Invariance, PTL

\* GetMetrics counts a client that does not report meanwhile under one label at most.
THEOREM ReadsCountOnce == Spec => []StillClientCountedOnce
<1>1. IInv => StillClientCountedOnce
  BY DEF IInv
<1> QED  BY <1>1, Invariance, PTL
-----------------------------------------------------------------------------
(* A read misses nobody who stays *)

LEMMA NotMissedStep ==
  ASSUME IInv, StillClientNotMissed, [Next]_vars
  PROVE  StillClientNotMissed'
<1> USE DEF redis
<1>0. TypeOK
  BY DEF IInv
<1> SUFFICES ASSUME NEW r \in Request, pc'[r] = "readLabel", NEW l \in AnyLabel,
                    l \notin raced', l \notin todo'[r], NEW c \in active'[l], c \notin moved'[r]
             PROVE  <<l, c>> \in counted'[r]
  BY DEF StillClientNotMissed
<1>1. CASE UNCHANGED vars
  BY <1>1 DEF vars, StillClientNotMissed
<1>2. ASSUME NEW q \in Request, Begin(q) \/ GetClient(q) \/ ExecDownload(q) \/ FinishRead(q) \/ Fail(q)
      PROVE  <<l, c>> \in counted'[r]
  <2>1. pc[r] = "readLabel"
    <3>1. First[call[q].op] # "readLabel"
      BY <1>0, CallType
    <3> QED  BY <1>0, <1>2, <3>1 DEF Begin, GetClient, ExecDownload, FinishRead, Fail, Goto, TypeOK
  <2>2. raced \subseteq raced' /\ UNCHANGED <<todo, active, moved, counted>>
    BY <1>2 DEF Begin, GetClient, ExecDownload, FinishRead, Fail, Race
  <2> QED  BY <2>1, <2>2 DEF StillClientNotMissed
<1>3. ASSUME NEW q \in Request, ExecDeploy(q)
      PROVE  <<l, c>> \in counted'[r]
  <2>1. pc[r] = "readLabel"
    BY <1>0, <1>3 DEF ExecDeploy, Goto, TypeOK
  <2>2. raced \subseteq raced' /\ UNCHANGED <<todo, counted>>
    BY <1>3 DEF ExecDeploy, Race
  <2>3. c \notin moved[r] /\ c \notin Reporter(q)
    BY <1>3, <2>1 DEF ExecDeploy, Active
  <2>4. c \in active[l]
    BY <1>3, <2>3 DEF ExecDeploy
  <2> QED  BY <2>1, <2>2, <2>3, <2>4 DEF StillClientNotMissed
<1>4. ASSUME NEW q \in Request, ListLabels(q)
      PROVE  <<l, c>> \in counted'[r]
  <2>1. UNCHANGED <<active, raced, moved, counted, labels>>
    BY <1>4 DEF ListLabels
  <2>2. CASE q = r
    <3>1. todo'[r] = labels
      BY <1>0, <1>4, <2>2 DEF ListLabels, TypeOK
    <3>2. l \notin labels /\ active[l] # {}
      BY <2>1, <3>1
    <3> QED  BY <2>1, <3>2 DEF IInv, RemnantsOnlyFromRaces
  <2>3. CASE q # r
    BY <1>0, <1>4, <2>1, <2>3 DEF ListLabels, Goto, TypeOK, StillClientNotMissed
  <2> QED  BY <2>2, <2>3
<1>5. ASSUME NEW q \in Request, ReadLabel(q)
      PROVE  <<l, c>> \in counted'[r]
  <2>1. UNCHANGED <<pc, active, raced, moved>>
    BY <1>5 DEF ReadLabel
  <2>2. PICK m \in todo[q] : /\ todo' = [todo EXCEPT ![q] = @ \ {m}]
                             /\ counted' = [counted EXCEPT ![q] = @ \cup {<<m, d>> : d \in active[m]}]
    BY <1>5 DEF ReadLabel
  <2>3. CASE q = r /\ l = m
    BY <1>0, <2>1, <2>2, <2>3 DEF TypeOK
  <2>4. CASE ~(q = r /\ l = m)
    <3>1. l \notin todo[r] /\ counted[r] \subseteq counted'[r]
      BY <1>0, <2>2, <2>4 DEF TypeOK
    <3> QED  BY <2>1, <3>1 DEF StillClientNotMissed
  <2> QED  BY <2>3, <2>4
<1>6. ASSUME NEW q \in Request, Delete(q)
      PROVE  <<l, c>> \in counted'[r]
  <2>1. pc[r] = "readLabel"
    BY <1>0, <1>6 DEF Delete, Goto, TypeOK
  <2>2. c \in active[l]
    BY <1>6 DEF Delete, ActiveAfterDelete
  <2> QED  BY <1>6, <2>1, <2>2 DEF Delete, StillClientNotMissed
<1> QED  BY <1>1, <1>2, <1>3, <1>4, <1>5, <1>6 DEF Next, Step

\* A read counts every client that is active in a label no Clear raced with and
\* sends no report meanwhile: SMEMBERS showed the label, and the SCARD the client.
THEOREM ReadsMissNobody == Spec => []StillClientNotMissed
<1>1. Init => StillClientNotMissed
  BY DEF Init, StillClientNotMissed
<1> QED  BY <1>1, NotMissedStep, Invariance, PTL DEF Spec
=============================================================================
