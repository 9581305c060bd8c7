--------------------------- MODULE ReleasesProofs ---------------------------
(* The safety properties of Releases, for any accounts, deployments, requests *)
(* and initial tables.                                                        *)
EXTENDS Releases, TLAPS

(* The inductive invariant *)

\* Package q is the release of deployment d that clone c copies.
Source(q, d, c) ==
    /\ q.dep = d
    /\ q.label = c.originalLabel
    /\ q.payload = c.payload
    /\ q.version = c.version

TableOK ==
    /\ UniqueOrdinals(packages)
    /\ \A p \in packages : p.label = LabelOf(p.ordinal)
    /\ \A p \in packages : live[p.dep] /\ p.readIn <= epoch[p.dep] /\ p.insertedIn = epoch[p.dep]

\* Only a purge or the deletion of the deployment loses an uploaded release.
UploadsKept ==
    \A s \in seed : live[s.dep] /\ epoch[s.dep] = 0 => s \in packages

Faithful(d, c) ==
    /\ \E s \in seed : s.dep = d /\ s.version = c.version /\ s.payload = c.payload
    /\ \A s \in seed : IsNewest(s, Of(seed, d)) => c.version = s.version

PackagesFaithful ==
    \A p \in packages :
        /\ Uploaded(p)
        /\ p \in seed \/ KeepsVersion(p)
        /\ epoch[p.dep] > 0 => KeepsVersion(p)

\* A history filled again after a purge has a package read before that purge:
\* one read later was cloned from a package that is still there.
OverlapRemains ==
    \A d \in Deployment : epoch[d] > 0 /\ Of(packages, d) # {} =>
        \E p \in Of(packages, d) : p.readIn < epoch[d]

\* What a rollback holds between its read and its insert.
ClonesOK ==
    \A r \in Request :
        /\ \A c, e \in clone[r] : c = e
        /\ \A c \in clone[r] :
             /\ Faithful(Dep(r), c)
             /\ c.readIn <= epoch[Dep(r)]
             /\ c.readIn = epoch[Dep(r)] /\ live[Dep(r)] => \E q \in packages : Source(q, Dep(r), c)

OrdinalsOK ==
    \A r \in Request : pc[r] = "insertPackage" /\ live[Dep(r)] =>
        /\ ordinal[r] > 0
        /\ epoch[Dep(r)] = 0 =>
             \A k \in 1..(ordinal[r] - 1) : \E q \in Of(packages, Dep(r)) : q.ordinal = k
        /\ \A c \in clone[r] : c.readIn = epoch[Dep(r)] =>
             \E q \in packages : Source(q, Dep(r), c) /\ q.ordinal < ordinal[r]

ControlOK ==
    \A r \in Request :
        /\ pc[r] \in {"mayPurge", "deletePackages", "clearMetrics"} => call[r].op = "clear"
        /\ result[r] # "none" => pc[r] = "answered"

IInv ==
    /\ Types
    /\ TableOK
    /\ UploadsKept
    /\ PackagesFaithful
    /\ ClonesOK
    /\ OrdinalsOK
    /\ ControlOK
    /\ NoGapBeforePurge
    /\ OverlapRemains
    /\ OriginalLabelResolves
    /\ MetricsOutlivePurgeOnlyByFailure

-----------------------------------------------------------------------------
(* Types *)

LEMMA InitTypeOK == Init => Types
  BY SeedsAssumption DEF Init, Types, WellFormed, PC, Result, Level

\* What Answer and Require do to the control of the requests.
LEMMA AnswerType ==
  ASSUME Types, NEW r \in Request, NEW outcome \in Result, Answer(r, outcome)
  PROVE  pc' \in [Request -> PC] /\ result' \in [Request -> Result]
  BY DEF Answer, Types, PC

LEMMA GotoType ==
  ASSUME Types, NEW r \in Request, NEW here, NEW there \in PC, Goto(r, here, there)
  PROVE  pc' \in [Request -> PC]
  BY DEF Goto, Types

LEMMA CallType ==
  ASSUME Types, NEW r \in Request
  PROVE  /\ call[r] \in Call
         /\ Dep(r) \in Deployment
         /\ Actor(r) \in Account
         /\ AfterDeployment[call[r].op] \in {"mayRead", "mayPurge", "mayDelete"}
  BY CallsAssumption DEF Types, Call, Op, Dep, Actor, AfterDeployment

LEMMA RequireType ==
  ASSUME Types, NEW r \in Request, NEW here, NEW levels, NEW there \in PC,
         Require(r, here, levels, there)
  PROVE  Types'
<1> USE DEF tables, locals, history
<1>1. CASE Goto(r, here, there) /\ UNCHANGED result
  BY <1>1, GotoType DEF Require, Types
<1>2. CASE Answer(r, IF permission[Actor(r)] = "None" THEN "notFound" ELSE "forbidden")
  <2>1. (IF permission[Actor(r)] = "None" THEN "notFound" ELSE "forbidden") \in Result
    BY DEF Result
  <2> QED  BY <1>2, <2>1, AnswerType DEF Require, Types
<1> QED  BY <1>1, <1>2 DEF Require

LEMMA StepTypeOK ==
  ASSUME Types, OrdinalsOK, NEW r \in Request, Begin(r) \/ Step(r) \/ Fail(r)
  PROVE  Types'
<1> USE CallType DEF tables, locals, history
<1>1. CASE Begin(r)
  BY <1>1, GotoType DEF Begin, Types, PC
<1>2. CASE FindApp(r)
  BY <1>2, GotoType, AnswerType DEF FindApp, Types, PC, Result
<1>3. CASE MayView(r) \/ MayRead(r) \/ MayCommit(r) \/ MayPurge(r) \/ MayDelete(r)
  BY <1>3, RequireType DEF MayView, MayRead, MayCommit, MayPurge, MayDelete, PC
<1>4. CASE FindDeployment(r)
  BY <1>4, GotoType, AnswerType DEF FindDeployment, Types, PC, Result
<1>5. CASE ReadHistory(r)
  <2>1. CASE UNCHANGED clone /\ \E outcome \in Result : Answer(r, outcome)
    BY <1>5, <2>1, AnswerType DEF ReadHistory, Types
  <2>2. CASE \E target \in Of(packages, Dep(r)) :
               /\ Goto(r, "readHistory", "mayCommit")
               /\ clone' = [clone EXCEPT ![r] =
                    {[version |-> target.version, payload |-> target.payload,
                      originalLabel |-> target.label, readIn |-> epoch[Dep(r)]]}]
               /\ UNCHANGED result
    <3>1. PICK target \in Of(packages, Dep(r)) :
               /\ Goto(r, "readHistory", "mayCommit")
               /\ clone' = [clone EXCEPT ![r] =
                    {[version |-> target.version, payload |-> target.payload,
                      originalLabel |-> target.label, readIn |-> epoch[Dep(r)]]}]
               /\ UNCHANGED result
      BY <2>2
    <3>2. [version |-> target.version, payload |-> target.payload,
           originalLabel |-> target.label, readIn |-> epoch[Dep(r)]] \in Clone
      BY DEF Types, Of, Package, Clone
    <3> QED  BY <1>5, <3>1, <3>2, GotoType DEF ReadHistory, Types, PC
  <2> QED  BY <1>5, <2>1, <2>2 DEF ReadHistory, History, CloneOf, Result
<1>6. CASE NextOrdinal(r)
  BY <1>6, GotoType DEF NextOrdinal, History, Types, PC, Of, IsNewest, Package
<1>7. CASE InsertPackage(r)
  <2>1. packages' \subseteq Package
    <3>1. CASE packages' = packages
      BY <3>1 DEF Types
    <3>2. CASE CanInsert(r) /\ packages' = packages \cup {NewPackage(r, c) : c \in clone[r]}
      <4>1. ordinal[r] \in Nat \ {0} /\ LabelOf(ordinal[r]) \in Label
        BY <1>7, <3>2 DEF InsertPackage, CanInsert, OrdinalsOK, Types, LabelOf, Label
      <4>2. \A c \in clone[r] : NewPackage(r, c) \in Package
        BY <4>1 DEF NewPackage, Package, Types, Clone
      <4> QED  BY <3>2, <4>2 DEF Types
    <3> QED  BY <1>7, <3>1, <3>2 DEF InsertPackage
  <2> QED  BY <1>7, <2>1, AnswerType DEF InsertPackage, Types, Outcome, Result
<1>8. CASE DeletePackages(r)
  BY <1>8, GotoType, AnswerType DEF DeletePackages, Types, PC, Result
<1>9. CASE ClearMetrics(r)
  BY <1>9, AnswerType DEF ClearMetrics, Types, Outcome, Result
<1>10. CASE DeleteRow(r)
  BY <1>10, AnswerType DEF DeleteRow, Types, Outcome, Result
<1>11. CASE Fail(r)
  BY <1>11, AnswerType DEF Fail, Types, Result
<1> QED
  BY <1>1, <1>2, <1>3, <1>4, <1>5, <1>6, <1>7, <1>8, <1>9, <1>10, <1>11 DEF Step

-----------------------------------------------------------------------------
(* Initial states *)

LEMMA InitIInv == Init => IInv
<1> SUFFICES ASSUME Init PROVE IInv
  OBVIOUS
<1>1. Types
  BY InitTypeOK
<1>2. WellFormed(seed) /\ packages = seed /\ seed \subseteq Package
  BY SeedsAssumption DEF Init, WellFormed
<1>3. \A p \in packages : p.dep \in Deployment /\ epoch[p.dep] = 0 /\ live[p.dep]
  BY <1>2 DEF Init, Package
<1>4. TableOK /\ UploadsKept
  BY <1>2, <1>3 DEF TableOK, UploadsKept, WellFormed
<1>5. PackagesFaithful
  BY <1>2, <1>3 DEF PackagesFaithful, Uploaded
<1>6. ClonesOK /\ OrdinalsOK /\ ControlOK
  BY DEF Init, ClonesOK, OrdinalsOK, ControlOK
<1>7. NoGapBeforePurge
  BY <1>2 DEF NoGapBeforePurge, WellFormed
<1>8. OverlapRemains /\ MetricsOutlivePurgeOnlyByFailure
  BY DEF Init, OverlapRemains, MetricsOutlivePurgeOnlyByFailure
<1>9. OriginalLabelResolves
  BY <1>2 DEF OriginalLabelResolves
<1> QED
  BY <1>1, <1>4, <1>5, <1>6, <1>7, <1>8, <1>9 DEF IInv

-----------------------------------------------------------------------------
(* Steps that only move a request on, end it, or change a permission *)

Data == <<live, packages, metrics, call, clone, ordinal, seed, epoch>>

LEMMA QuietStep ==
  ASSUME IInv, Types', UNCHANGED Data, ControlOK',
         MetricsOutlivePurgeOnlyByFailure',
         \A r \in Request : pc'[r] = "insertPackage" => pc[r] = "insertPackage"
  PROVE  IInv'
<1> USE DEF Data
<1>1. TableOK' /\ UploadsKept' /\ PackagesFaithful'
  BY DEF IInv, TableOK, UploadsKept, PackagesFaithful, UniqueOrdinals, Uploaded,
         KeepsVersion, Of, IsNewest
<1>2. ClonesOK'
  BY DEF IInv, ClonesOK, Faithful, Source, Dep, Of, IsNewest
<1>3. OrdinalsOK'
  BY DEF IInv, OrdinalsOK, Source, Dep, Of
<1>4. NoGapBeforePurge' /\ OverlapRemains' /\ OriginalLabelResolves'
  BY DEF IInv, NoGapBeforePurge, OverlapRemains, OriginalLabelResolves, Of, Dense
<1> QED
  BY <1>1, <1>2, <1>3, <1>4 DEF IInv

\* Any step of a request keeps ControlOK, as long as only a ClearHistory
\* enters its steps.
LEMMA ControlStep ==
  ASSUME Types, ControlOK, NEW r \in Request, UNCHANGED call,
         \/ /\ \E outcome \in Result : Answer(r, outcome)
         \/ /\ pc[r] # "answered"
            /\ UNCHANGED result
            /\ \E there \in PC : pc' = [pc EXCEPT ![r] = there] /\
                 (there \in {"mayPurge", "deletePackages", "clearMetrics"} =>
                    call[r].op = "clear")
  PROVE  ControlOK'
  BY DEF Types, ControlOK, Answer

\* A step that leaves the metrics and the purges alone keeps a failed purge
\* failed, and a purge at its last step there or failed.
LEMMA MetricsStep ==
  ASSUME Types, ControlOK, MetricsOutlivePurgeOnlyByFailure, NEW r \in Request,
         UNCHANGED <<metrics, epoch, call>>,
         \/ Answer(r, "error")
         \/ pc[r] \notin {"clearMetrics", "answered"} /\
              \/ \E outcome \in Result : Answer(r, outcome)
              \/ UNCHANGED result /\ \E there \in PC : pc' = [pc EXCEPT ![r] = there]
  PROVE  MetricsOutlivePurgeOnlyByFailure'
<1> SUFFICES ASSUME NEW d \in Deployment, epoch[d] > 0, metrics[d]
             PROVE  \E q \in Request :
                      /\ call[q].op = "clear" /\ Dep(q)' = d
                      /\ pc'[q] = "clearMetrics" \/ result'[q] = "error"
  BY DEF MetricsOutlivePurgeOnlyByFailure
<1>1. PICK q \in Request :
        /\ call[q].op = "clear" /\ Dep(q) = d
        /\ pc[q] = "clearMetrics" \/ result[q] = "error"
  BY DEF MetricsOutlivePurgeOnlyByFailure
<1>2. Dep(q)' = d
  BY <1>1 DEF Dep
<1>3. pc'[q] = "clearMetrics" \/ result'[q] = "error"
  BY <1>1 DEF Types, ControlOK, Answer
<1> QED  BY <1>1, <1>2, <1>3

LEMMA RequireStep ==
  ASSUME IInv, Types', NEW r \in Request, NEW here, NEW levels, NEW there,
         here \in PC \ {"clearMetrics", "answered"},
         there \in PC \ {"insertPackage", "clearMetrics"},
         there \in {"mayPurge", "deletePackages"} => call[r].op = "clear",
         Require(r, here, levels, there)
  PROVE  IInv'
<1> USE DEF tables, locals, history
<1>0. Types /\ ControlOK /\ MetricsOutlivePurgeOnlyByFailure
  BY DEF IInv
<1>1. UNCHANGED Data
  BY DEF Require, Data
<1>2. \/ pc[r] = here /\ \E outcome \in Result : Answer(r, outcome)
      \/ Goto(r, here, there) /\ UNCHANGED result
  BY DEF Require, Result
<1>3. ControlOK'
  BY <1>0, <1>1, <1>2, ControlStep DEF Goto, Data
<1>4. MetricsOutlivePurgeOnlyByFailure'
  BY <1>0, <1>1, <1>2, MetricsStep DEF Goto, Data
<1>5. \A q \in Request : pc'[q] = "insertPackage" => pc[q] = "insertPackage"
  BY <1>0, <1>2 DEF Goto, Answer, Types
<1> QED  BY <1>1, <1>3, <1>4, <1>5, QuietStep

LEMMA QuietRequestStep ==
  ASSUME IInv, Types', NEW r \in Request,
         \/ Begin(r) \/ FindApp(r) \/ MayView(r) \/ FindDeployment(r)
         \/ MayRead(r) \/ MayCommit(r) \/ MayPurge(r) \/ MayDelete(r) \/ Fail(r)
  PROVE  IInv'
<1> USE DEF tables, locals, history
<1>0. Types /\ ControlOK /\ MetricsOutlivePurgeOnlyByFailure
  BY DEF IInv
<1>1. CASE MayView(r) \/ MayRead(r) \/ MayCommit(r) \/ MayPurge(r) \/ MayDelete(r)
  <2>1. CASE MayPurge(r)
    <3>1. call[r].op = "clear"
      BY <2>1, <1>0 DEF MayPurge, Require, Goto, ControlOK
    <3> QED  BY <2>1, <3>1, RequireStep DEF MayPurge, PC
  <2>2. CASE MayView(r) \/ MayRead(r) \/ MayCommit(r) \/ MayDelete(r)
    BY <2>2, RequireStep DEF MayView, MayRead, MayCommit, MayDelete, PC
  <2> QED  BY <1>1, <2>1, <2>2
<1>2. CASE Begin(r) \/ FindApp(r) \/ FindDeployment(r) \/ Fail(r)
  <2>1. UNCHANGED Data
    BY <1>2 DEF Begin, FindApp, FindDeployment, Fail, Data
  <2>2. \/ Answer(r, "error") /\ pc[r] # "answered"
        \/ pc[r] \notin {"clearMetrics", "answered"} /\ Answer(r, "notFound")
        \/ /\ pc[r] \notin {"clearMetrics", "answered"}
           /\ UNCHANGED result
           /\ \E there \in {"findApp", "mayView", "mayRead", "mayPurge", "mayDelete"} :
                /\ pc' = [pc EXCEPT ![r] = there]
                /\ there = "mayPurge" => call[r].op = "clear"
    <3>1. CASE FindDeployment(r)
      BY <1>0, <3>1, CallType DEF FindDeployment, Goto, AfterDeployment, Call, Op
    <3> QED  BY <1>2, <3>1 DEF Begin, FindApp, Fail, Goto
  <2>3. ControlOK'
    BY <1>0, <2>1, <2>2, ControlStep DEF Data, Result, PC
  <2>4. MetricsOutlivePurgeOnlyByFailure'
    BY <1>0, <2>1, <2>2, MetricsStep DEF Data, Result, PC
  <2>5. \A q \in Request : pc'[q] = "insertPackage" => pc[q] = "insertPackage"
    BY <1>0, <2>2 DEF Answer, Types
  <2> QED  BY <2>1, <2>3, <2>4, <2>5, QuietStep
<1> QED  BY <1>1, <1>2

-----------------------------------------------------------------------------
(* ReadHistory: the clone is faithful to the uploads and has its source in   *)
(* the history that was read.                                                *)

\* In a history that is being read, the newest release has the version of the
\* newest upload: it is that upload, or a rollback that kept its version.
LEMMA NewestKeepsVersion ==
  ASSUME IInv, NEW latest, NEW d \in Deployment, IsNewest(latest, Of(packages, d))
  PROVE  KeepsVersion(latest)
<1>1. latest \in packages /\ latest.dep = d /\ live[d]
  BY DEF IsNewest, Of, IInv, TableOK
<1>2. CASE epoch[d] > 0 \/ latest \notin seed
  BY <1>1, <1>2 DEF IInv, PackagesFaithful
<1>3. CASE epoch[d] = 0 /\ latest \in seed
  <2> SUFFICES ASSUME NEW s \in seed, IsNewest(s, Of(seed, d))
               PROVE  latest.version = s.version
    BY <1>1 DEF KeepsVersion
  <2>1. s.dep = d /\ s \in packages
    BY <1>1, <1>3 DEF IsNewest, Of, IInv, UploadsKept
  <2>2. latest.ordinal <= s.ordinal /\ s.ordinal <= latest.ordinal
    BY <1>1, <1>3, <2>1 DEF IsNewest, Of
  <2>3. latest.ordinal \in Nat /\ s.ordinal \in Nat
    BY <1>1, <2>1 DEF IInv, Types, Package
  <2>4. latest = s
    BY <1>1, <2>1, <2>2, <2>3 DEF IInv, TableOK, UniqueOrdinals
  <2> QED  BY <2>4
<1>4. epoch[d] \in Nat
  BY DEF IInv, Types
<1> QED  BY <1>2, <1>3, <1>4

LEMMA ReadHistoryStep ==
  ASSUME IInv, Types', NEW r \in Request, ReadHistory(r)
  PROVE  IInv'
<1> USE DEF tables, locals, history
<1>0. Types /\ ControlOK /\ MetricsOutlivePurgeOnlyByFailure
  BY DEF IInv
<1>1. UNCHANGED <<live, packages, metrics, call, ordinal, seed, epoch>>
  BY DEF ReadHistory
<1>2. \/ \E outcome \in Result : Answer(r, outcome)
      \/ UNCHANGED result /\ pc' = [pc EXCEPT ![r] = "mayCommit"]
  BY DEF ReadHistory, Result, Goto
<1>3. ControlOK' /\ MetricsOutlivePurgeOnlyByFailure'
  <2>1. pc[r] = "readHistory"
    BY DEF ReadHistory
  <2>2. ControlOK'
    BY <1>0, <1>1, <1>2, <2>1, ControlStep DEF PC
  <2>3. MetricsOutlivePurgeOnlyByFailure'
    BY <1>0, <1>1, <1>2, <2>1, MetricsStep DEF PC
  <2> QED  BY <2>2, <2>3
<1>4. pc'[r] # "insertPackage" /\ \A q \in Request \ {r} : pc'[q] = pc[q]
  BY <1>0, <1>2 DEF Answer, Types
<1>5. CASE UNCHANGED clone
  <2>1. \A q \in Request : pc'[q] = "insertPackage" => pc[q] = "insertPackage"
    BY <1>4
  <2> QED  BY <1>1, <1>3, <1>5, <2>1, QuietStep DEF Data
<1>6. CASE ~UNCHANGED clone
  <2>1. PICK latest, target \in Of(packages, Dep(r)) :
          /\ IsNewest(latest, Of(packages, Dep(r)))
          /\ latest.version = target.version
          /\ clone' = [clone EXCEPT ![r] =
               {[version |-> target.version, payload |-> target.payload,
                 originalLabel |-> target.label, readIn |-> epoch[Dep(r)]]}]
    BY <1>6 DEF ReadHistory, History, Compatible, CloneOf
  <2> DEFINE d == Dep(r)
             c == [version |-> target.version, payload |-> target.payload,
                   originalLabel |-> target.label, readIn |-> epoch[d]]
  <2>2. d \in Deployment /\ epoch[d] \in Nat /\ target \in packages /\ target.dep = d
        /\ latest \in packages /\ latest.dep = d
    BY <1>0, CallType DEF Types, Of
  <2>3. Faithful(d, c)
    BY <2>1, <2>2, NewestKeepsVersion DEF KeepsVersion, Faithful, Uploaded, IInv, PackagesFaithful
  <2>4. /\ clone'[r] = {c} /\ \A q \in Request \ {r} : clone'[q] = clone[q]
        /\ Dep(r)' = d /\ \A q \in Request : Dep(q)' = Dep(q)
    BY <1>0, <1>1, <2>1 DEF Types, Dep
  <2>5. ClonesOK'
    <3> SUFFICES ASSUME NEW q \in Request
                 PROVE  /\ \A x, e \in clone'[q] : x = e
                        /\ \A x \in clone'[q] :
                             /\ Faithful(Dep(q), x)
                             /\ x.readIn <= epoch[Dep(q)]
                             /\ x.readIn = epoch[Dep(q)] /\ live[Dep(q)] =>
                                  \E p \in packages : Source(p, Dep(q), x)
      BY <1>1, <2>4 DEF ClonesOK, Faithful, Source, Of, IsNewest
    <3>1. CASE q = r
      <4>1. Source(target, Dep(r), c)
        BY <2>2 DEF Source
      <4> QED  BY <3>1, <2>2, <2>3, <2>4, <4>1
    <3>2. CASE q # r
      BY <3>2, <2>4 DEF IInv, ClonesOK
    <3> QED  BY <3>1, <3>2
  <2>6. OrdinalsOK'
    BY <1>1, <1>4, <2>4 DEF IInv, OrdinalsOK, Source, Of
  <2>7. TableOK' /\ UploadsKept' /\ PackagesFaithful'
    BY <1>1 DEF IInv, TableOK, UploadsKept, PackagesFaithful, UniqueOrdinals, Uploaded,
                KeepsVersion, Of, IsNewest
  <2>8. NoGapBeforePurge' /\ OverlapRemains' /\ OriginalLabelResolves'
    BY <1>1 DEF IInv, NoGapBeforePurge, OverlapRemains, OriginalLabelResolves, Of, Dense
  <2> QED  BY <1>3, <2>5, <2>6, <2>7, <2>8 DEF IInv
<1> QED  BY <1>5, <1>6

-----------------------------------------------------------------------------
(* CommitRollback *)

LEMMA NextOrdinalStep ==
  ASSUME IInv, Types', NEW r \in Request, NextOrdinal(r)
  PROVE  IInv'
<1> USE DEF tables, locals, history
<1>0. Types /\ ControlOK /\ MetricsOutlivePurgeOnlyByFailure
  BY DEF IInv
<1>1. UNCHANGED <<live, packages, metrics, call, clone, result, seed, epoch>>
  BY DEF NextOrdinal
<1>2. pc[r] = "nextOrdinal" /\ pc' = [pc EXCEPT ![r] = "insertPackage"]
  BY DEF NextOrdinal, Goto
<1>3. ControlOK' /\ MetricsOutlivePurgeOnlyByFailure'
  BY <1>0, <1>1, <1>2, ControlStep, MetricsStep DEF PC
<1> DEFINE d == Dep(r)
           H == Of(packages, d)
<1>4. d \in Deployment /\ \A p \in H : p.ordinal \in Nat \ {0}
  BY <1>0, CallType DEF Types, Of, Package
<1>5. PICK n \in Nat : /\ ordinal' = [ordinal EXCEPT ![r] = n] /\ n > 0
                       /\ \A q \in H : q.ordinal < n
                       /\ n > 1 => \E p \in H : p.ordinal = n - 1
  <2>1. CASE H = {} /\ ordinal' = [ordinal EXCEPT ![r] = 1]
    <3>1. 1 \in Nat /\ 1 > 0 /\ ~(1 > 1) /\ \A q \in H : q.ordinal < 1
      BY <2>1
    <3> QED  BY <2>1, <3>1
  <2>2. CASE \E p \in H : IsNewest(p, H) /\ ordinal' = [ordinal EXCEPT ![r] = p.ordinal + 1]
    <3>1. PICK p \in H : IsNewest(p, H) /\ ordinal' = [ordinal EXCEPT ![r] = p.ordinal + 1]
      BY <2>2
    <3> DEFINE n == p.ordinal + 1
    <3>2. n \in Nat /\ n > 0 /\ \A q \in H : q.ordinal < n
      BY <1>4, <3>1 DEF IsNewest
    <3>3. p.ordinal = n - 1
      BY <1>4
    <3> QED  BY <3>1, <3>2, <3>3
  <2> QED  BY <2>1, <2>2 DEF NextOrdinal, History
<1>6. ordinal'[r] = n /\ \A q \in Request \ {r} : ordinal'[q] = ordinal[q] /\ pc'[q] = pc[q]
  BY <1>0, <1>2, <1>5 DEF Types
<1>7. OrdinalsOK'
  <2> SUFFICES ASSUME NEW q \in Request, pc'[q] = "insertPackage", live[Dep(q)]
               PROVE  /\ ordinal'[q] > 0
                      /\ epoch[Dep(q)] = 0 =>
                           \A k \in 1..(ordinal'[q] - 1) :
                              \E p \in Of(packages, Dep(q)) : p.ordinal = k
                      /\ \A c \in clone[q] : c.readIn = epoch[Dep(q)] =>
                           \E p \in packages : Source(p, Dep(q), c) /\ p.ordinal < ordinal'[q]
    BY <1>1 DEF OrdinalsOK, Dep, Source, Of
  <2>1. CASE q # r
    BY <1>6, <2>1 DEF IInv, OrdinalsOK
  <2>2. CASE q = r
    <3>1. epoch[d] = 0 => \A k \in 1..(n - 1) : \E p \in H : p.ordinal = k
      <4> SUFFICES ASSUME epoch[d] = 0, NEW k \in 1..(n - 1)
                   PROVE  \E p \in H : p.ordinal = k
        OBVIOUS
      <4>1. PICK p \in H : p.ordinal = n - 1
        BY <1>5
      <4>2. Dense(H)
        BY <1>4 DEF IInv, NoGapBeforePurge
      <4> QED  BY <4>1, <4>2 DEF Dense
    <3>2. \A c \in clone[r] : c.readIn = epoch[d] =>
            \E p \in packages : Source(p, Dep(r), c) /\ p.ordinal < n
      BY <1>5, <2>2 DEF IInv, ClonesOK, Source, Of
    <3> QED  BY <1>5, <1>6, <2>2, <3>1, <3>2
  <2> QED  BY <2>1, <2>2
<1>8. TableOK' /\ UploadsKept' /\ PackagesFaithful'
  BY <1>1 DEF IInv, TableOK, UploadsKept, PackagesFaithful, UniqueOrdinals, Uploaded,
              KeepsVersion, Of, IsNewest
<1>9. ClonesOK'
  BY <1>1 DEF IInv, ClonesOK, Faithful, Source, Dep, Of, IsNewest
<1>10. NoGapBeforePurge' /\ OverlapRemains' /\ OriginalLabelResolves'
  BY <1>1 DEF IInv, NoGapBeforePurge, OverlapRemains, OriginalLabelResolves, Of, Dense
<1> QED  BY <1>3, <1>7, <1>8, <1>9, <1>10 DEF IInv

\* What one INSERT adds, and what it may rely on.
LEMMA InsertStep ==
  ASSUME IInv, Types', NEW r \in Request, InsertPackage(r)
  PROVE  IInv'
<1> USE DEF tables, locals, history
<1>0. Types /\ ControlOK /\ MetricsOutlivePurgeOnlyByFailure
  BY DEF IInv
<1>1. UNCHANGED <<live, metrics, call, clone, ordinal, seed, epoch>>
  BY DEF InsertPackage
<1>2. pc[r] = "insertPackage" /\ \E outcome \in Result : Answer(r, outcome)
  BY DEF InsertPackage, Outcome, Result
<1>3. ControlOK' /\ MetricsOutlivePurgeOnlyByFailure'
  BY <1>0, <1>1, <1>2, ControlStep, MetricsStep
<1>4. \A q \in Request : pc'[q] = "insertPackage" => pc[q] = "insertPackage"
  BY <1>0, <1>2 DEF Answer, Types
<1>5. CASE packages' = packages
  BY <1>1, <1>3, <1>4, <1>5, QuietStep DEF Data
<1>6. CASE packages' # packages
  <2> DEFINE d == Dep(r)
  <2>1. PICK c \in clone[r] : packages' = packages \cup {NewPackage(r, c)}
    <3>1. CanInsert(r) /\ packages' = packages \cup {NewPackage(r, c) : c \in clone[r]}
      BY <1>6 DEF InsertPackage
    <3>2. \A c, e \in clone[r] : c = e
      BY DEF IInv, ClonesOK
    <3> QED  BY <1>6, <3>1, <3>2
  <2> DEFINE new == NewPackage(r, c)
  <2>2. /\ live[d] /\ \A p \in Of(packages, d) : p.ordinal # new.ordinal
        /\ d \in Deployment /\ new \in packages'
        /\ packages' = packages \cup {new}
    BY <1>0, <1>6, <2>1, CallType DEF InsertPackage, CanInsert, NewPackage
  <2>3. /\ new.dep = d /\ new.ordinal = ordinal[r] /\ new.label = LabelOf(ordinal[r])
        /\ new.version = c.version /\ new.payload = c.payload
        /\ new.originalLabel = c.originalLabel /\ new.readIn = c.readIn
        /\ new.insertedIn = epoch[d]
    BY DEF NewPackage
  <2>4. /\ Faithful(d, c) /\ c.readIn <= epoch[d] /\ epoch[d] \in Nat /\ c.readIn \in Nat
        /\ ordinal[r] \in Nat /\ ordinal[r] > 0
    BY <1>0, <1>2, <2>2 DEF IInv, ClonesOK, OrdinalsOK, Types, Clone
  <2>5. TableOK'
    <3>1. UniqueOrdinals(packages')
      BY <2>2, <2>3 DEF IInv, TableOK, UniqueOrdinals, Of
    <3> QED  BY <1>1, <2>2, <2>3, <2>4, <3>1 DEF IInv, TableOK
  <2>6. UploadsKept'
    BY <1>1, <2>2 DEF IInv, UploadsKept
  <2>7. PackagesFaithful'
    <3>1. Uploaded(new) /\ KeepsVersion(new)
      BY <2>3, <2>4 DEF Faithful, Uploaded, KeepsVersion
    <3> QED  BY <1>1, <2>2, <3>1 DEF IInv, PackagesFaithful, Uploaded, KeepsVersion, Of, IsNewest
  <2>8. ClonesOK'
    BY <1>1, <2>2 DEF IInv, ClonesOK, Faithful, Source, Dep, Of, IsNewest
  <2>9. OrdinalsOK'
    <3>1. Of(packages, d) \subseteq Of(packages', d) /\ packages \subseteq packages'
      BY <2>2 DEF Of
    <3>2. \A q \in Request : Of(packages, Dep(q)) \subseteq Of(packages', Dep(q))
      BY <2>2 DEF Of
    <3> QED  BY <1>1, <1>4, <3>1, <3>2 DEF IInv, OrdinalsOK, Source, Dep
  <2>10. NoGapBeforePurge'
    <3> SUFFICES ASSUME NEW e \in Deployment, epoch[e] = 0,
                        NEW p \in Of(packages', e), NEW k \in 1..p.ordinal
                 PROVE  \E q \in Of(packages', e) : q.ordinal = k
      BY <1>1 DEF NoGapBeforePurge, Dense
    <3>1. CASE p \in packages
      BY <2>2, <3>1 DEF IInv, NoGapBeforePurge, Dense, Of
    <3>2. CASE p = new /\ k = ordinal[r]
      BY <2>3, <3>2
    <3>3. CASE p = new /\ k # ordinal[r]
      <4>1. e = d /\ k \in 1..(ordinal[r] - 1)
        BY <2>3, <2>4, <3>3 DEF Of
      <4> QED  BY <1>2, <2>2, <4>1 DEF IInv, OrdinalsOK, Of
    <3> QED  BY <2>2, <3>1, <3>2, <3>3 DEF Of
  <2>11. OverlapRemains'
    <3> SUFFICES ASSUME NEW e \in Deployment, epoch[e] > 0, Of(packages', e) # {}
                 PROVE  \E p \in Of(packages', e) : p.readIn < epoch[e]
      BY <1>1 DEF OverlapRemains
    <3>1. CASE Of(packages, e) # {}
      BY <2>2, <3>1 DEF IInv, OverlapRemains, Of
    <3>2. CASE Of(packages, e) = {}
      <4>1. e = d
        BY <2>2, <2>3, <3>2 DEF Of
      <4>2. c.readIn # epoch[d]
        BY <2>2, <3>2, <4>1 DEF IInv, ClonesOK, Source, Of
      <4> QED  BY <2>2, <2>3, <2>4, <4>1, <4>2 DEF Of
    <3> QED  BY <3>1, <3>2
  <2>12. OriginalLabelResolves'
    <3> SUFFICES ASSUME NEW p \in packages', p \notin seed, p.readIn = epoch[p.dep]
                 PROVE  \E q \in packages' :
                          /\ q.dep = p.dep
                          /\ q.label = p.originalLabel
                          /\ q.payload = p.payload
                          /\ q.version = p.version
                          /\ q.ordinal < p.ordinal
      BY <1>1 DEF OriginalLabelResolves
    <3>1. CASE p \in packages
      BY <2>2, <3>1 DEF IInv, OriginalLabelResolves
    <3>2. CASE p = new
      <4>1. PICK q \in packages : Source(q, Dep(r), c) /\ q.ordinal < ordinal[r]
        BY <1>2, <2>2, <2>3, <3>2 DEF IInv, OrdinalsOK
      <4> QED  BY <2>2, <2>3, <3>2, <4>1 DEF Source
    <3> QED  BY <2>2, <3>1, <3>2
  <2> QED
    BY <1>3, <2>5, <2>6, <2>7, <2>8, <2>9, <2>10, <2>11, <2>12 DEF IInv
<1> QED  BY <1>5, <1>6

-----------------------------------------------------------------------------
(* Purges and deletions *)

\* What it takes to keep the invariant when all packages of the deployments in
\* D go, and each of these deployments is purged once more or deleted.
LEMMA LoseDeployments ==
  ASSUME IInv, Types', NEW D \in SUBSET Deployment,
         packages' = {p \in packages : p.dep \notin D},
         \A d \in Deployment \ D : live'[d] = live[d] /\ epoch'[d] = epoch[d],
         \A d \in D : \/ ~live'[d] /\ epoch'[d] = epoch[d]
                      \/ live'[d] = live[d] /\ epoch'[d] = epoch[d] + 1,
         UNCHANGED <<call, clone, ordinal, seed>>,
         ControlOK', MetricsOutlivePurgeOnlyByFailure',
         \A r \in Request : pc'[r] = "insertPackage" => pc[r] = "insertPackage"
  PROVE  IInv'
<1>0. Types
  BY DEF IInv
<1>1. \A d \in Deployment :
        /\ d \in D => Of(packages', d) = {}
        /\ d \notin D => Of(packages', d) = Of(packages, d)
  BY DEF Of
<1>2. \A p \in packages' : p \in packages /\ p.dep \in Deployment \ D
  BY <1>0 DEF Types, Package
<1>3. \A s \in seed : s.dep \in Deployment
  BY <1>0, SeedsAssumption DEF Types, WellFormed, Package
<1>4. TableOK'
  BY <1>2 DEF IInv, TableOK, UniqueOrdinals
<1>5. UploadsKept'
  BY <1>0, <1>3 DEF IInv, UploadsKept, Types
<1>6. PackagesFaithful'
  BY <1>2 DEF IInv, PackagesFaithful, Uploaded, KeepsVersion, Of, IsNewest
<1>7. \A r \in Request : Dep(r)' = Dep(r) /\ Dep(r) \in Deployment
  BY <1>0, CallType DEF Dep
<1>8. \A r \in Request : \A c \in clone[r] :
        live'[Dep(r)] /\ c.readIn = epoch'[Dep(r)] =>
          Dep(r) \notin D /\ c.readIn = epoch[Dep(r)] /\ live[Dep(r)]
  BY <1>0, <1>7 DEF IInv, ClonesOK, Types, Clone
<1>9. \A r \in Request : \A c : \A q \in packages :
        Source(q, Dep(r), c) /\ Dep(r) \notin D => q \in packages'
  BY DEF Source
<1>10. ClonesOK'
  <2> SUFFICES ASSUME NEW r \in Request, NEW c \in clone[r]
               PROVE  /\ Faithful(Dep(r), c)
                      /\ c.readIn <= epoch'[Dep(r)]
                      /\ c.readIn = epoch'[Dep(r)] /\ live'[Dep(r)] =>
                           \E q \in packages' : Source(q, Dep(r), c)
    BY <1>7 DEF IInv, ClonesOK, Faithful, Of, IsNewest
  <2>1. Faithful(Dep(r), c) /\ c.readIn <= epoch'[Dep(r)]
    BY <1>0, <1>7 DEF IInv, ClonesOK, Types, Clone
  <2>2. ASSUME c.readIn = epoch'[Dep(r)], live'[Dep(r)]
        PROVE  \E q \in packages' : Source(q, Dep(r), c)
    <3>1. PICK q \in packages : Source(q, Dep(r), c)
      BY <1>8, <2>2 DEF IInv, ClonesOK
    <3>2. q \in packages'
      BY <1>8, <1>9, <2>2, <3>1
    <3> QED  BY <3>1, <3>2
  <2> QED  BY <2>1, <2>2
<1>11. OrdinalsOK'
  <2> SUFFICES ASSUME NEW r \in Request, pc'[r] = "insertPackage", live'[Dep(r)]
               PROVE  /\ ordinal[r] > 0
                      /\ epoch'[Dep(r)] = 0 =>
                           \A k \in 1..(ordinal[r] - 1) :
                              \E p \in Of(packages', Dep(r)) : p.ordinal = k
                      /\ \A c \in clone[r] : c.readIn = epoch'[Dep(r)] =>
                           \E p \in packages' : Source(p, Dep(r), c) /\ p.ordinal < ordinal[r]
    BY <1>7 DEF OrdinalsOK
  <2>1. pc[r] = "insertPackage" /\ live[Dep(r)]
    BY <1>7
  <2>2. epoch'[Dep(r)] = 0 => Dep(r) \notin D /\ epoch[Dep(r)] = 0
    BY <1>0, <1>7 DEF Types
  <2>3. ASSUME NEW c \in clone[r], c.readIn = epoch'[Dep(r)]
        PROVE  \E p \in packages' : Source(p, Dep(r), c) /\ p.ordinal < ordinal[r]
    <3>1. PICK p \in packages : Source(p, Dep(r), c) /\ p.ordinal < ordinal[r]
      BY <1>8, <2>1, <2>3 DEF IInv, OrdinalsOK
    <3>2. p \in packages'
      BY <1>8, <1>9, <2>3, <3>1
    <3> QED  BY <3>1, <3>2
  <2> QED  BY <1>1, <1>7, <2>1, <2>2, <2>3 DEF IInv, OrdinalsOK
<1>12. NoGapBeforePurge' /\ OverlapRemains'
  <2>1. NoGapBeforePurge'
    BY <1>0, <1>1 DEF IInv, NoGapBeforePurge, Dense, Types
  <2>2. OverlapRemains'
    BY <1>0, <1>1 DEF IInv, OverlapRemains, Types
  <2> QED  BY <2>1, <2>2
<1>13. OriginalLabelResolves'
  <2> SUFFICES ASSUME NEW p \in packages', p \notin seed, p.readIn = epoch'[p.dep]
               PROVE  \E q \in packages' :
                        /\ q.dep = p.dep
                        /\ q.label = p.originalLabel
                        /\ q.payload = p.payload
                        /\ q.version = p.version
                        /\ q.ordinal < p.ordinal
    BY DEF OriginalLabelResolves
  <2>1. p \in packages /\ p.dep \in Deployment \ D /\ p.readIn = epoch[p.dep]
    BY <1>2
  <2> QED  BY <2>1 DEF IInv, OriginalLabelResolves
<1> QED
  BY <1>4, <1>5, <1>6, <1>10, <1>11, <1>12, <1>13 DEF IInv

LEMMA DeletePackagesStep ==
  ASSUME IInv, Types', NEW r \in Request, DeletePackages(r)
  PROVE  IInv'
<1> USE DEF tables, locals, history
<1>0. Types /\ ControlOK /\ Dep(r) \in Deployment
  BY CallType DEF IInv
<1>1. \/ Answer(r, "error")
      \/ UNCHANGED result /\ pc' = [pc EXCEPT ![r] = "clearMetrics"]
  BY DEF DeletePackages, Goto
<1>2. pc[r] = "deletePackages" /\ call[r].op = "clear"
  BY <1>0 DEF DeletePackages, ControlOK
<1>3. ControlOK'
  BY <1>0, <1>1, <1>2, ControlStep DEF DeletePackages, PC, Result
<1>4. MetricsOutlivePurgeOnlyByFailure'
  <2> SUFFICES ASSUME NEW d \in Deployment, epoch'[d] > 0, metrics[d]
               PROVE  \E q \in Request :
                        /\ call[q].op = "clear" /\ Dep(q)' = d
                        /\ pc'[q] = "clearMetrics" \/ result'[q] = "error"
    BY DEF MetricsOutlivePurgeOnlyByFailure, DeletePackages
  <2>1. \A q \in Request : Dep(q)' = Dep(q)
    BY DEF DeletePackages, Dep
  <2>2. CASE d = Dep(r)
    BY <1>0, <1>1, <1>2, <2>1, <2>2 DEF Answer, Types
  <2>3. CASE d # Dep(r)
    <3>1. epoch[d] > 0
      BY <1>0, <2>3 DEF DeletePackages, Types
    <3>2. PICK q \in Request :
            /\ call[q].op = "clear" /\ Dep(q) = d
            /\ pc[q] = "clearMetrics" \/ result[q] = "error"
      BY <3>1 DEF IInv, MetricsOutlivePurgeOnlyByFailure
    <3> QED  BY <1>0, <1>1, <2>1, <2>3, <3>2 DEF Answer, Types
  <2> QED  BY <2>2, <2>3
<1>5. \A q \in Request : pc'[q] = "insertPackage" => pc[q] = "insertPackage"
  BY <1>0, <1>1 DEF Answer, Types
<1>6. /\ packages' = {p \in packages : p.dep \notin {Dep(r)}}
      /\ \A d \in Deployment \ {Dep(r)} : live'[d] = live[d] /\ epoch'[d] = epoch[d]
      /\ live'[Dep(r)] = live[Dep(r)] /\ epoch'[Dep(r)] = epoch[Dep(r)] + 1
      /\ UNCHANGED <<call, clone, ordinal, seed>>
  BY <1>0 DEF DeletePackages, History, Purged, Of, Types
<1>7. \A d \in {Dep(r)} : \/ ~live'[d] /\ epoch'[d] = epoch[d]
                          \/ live'[d] = live[d] /\ epoch'[d] = epoch[d] + 1
  BY <1>6
<1>8. {Dep(r)} \in SUBSET Deployment
  BY <1>0
<1> HIDE DEF tables, locals, history
<1> QED  BY <1>3, <1>4, <1>5, <1>6, <1>7, <1>8, LoseDeployments

LEMMA ClearMetricsStep ==
  ASSUME IInv, Types', NEW r \in Request, ClearMetrics(r)
  PROVE  IInv'
<1> USE DEF tables, locals, history
<1>0. Types /\ ControlOK
  BY DEF IInv
<1>1. UNCHANGED <<live, packages, call, clone, ordinal, seed, epoch>>
  BY DEF ClearMetrics
<1>2. pc[r] = "clearMetrics" /\ \E outcome \in Result : Answer(r, outcome)
  BY DEF ClearMetrics, Outcome, Result
<1>3. ControlOK'
  BY <1>0, <1>1, <1>2, ControlStep
<1>4. MetricsOutlivePurgeOnlyByFailure'
  <2> SUFFICES ASSUME NEW d \in Deployment, epoch[d] > 0, metrics'[d]
               PROVE  \E q \in Request :
                        /\ call[q].op = "clear" /\ Dep(q)' = d
                        /\ pc'[q] = "clearMetrics" \/ result'[q] = "error"
    BY <1>1 DEF MetricsOutlivePurgeOnlyByFailure
  <2>1. d # Dep(r) /\ metrics[d]
    BY <1>0 DEF ClearMetrics, Types
  <2>2. PICK q \in Request :
          /\ call[q].op = "clear" /\ Dep(q) = d
          /\ pc[q] = "clearMetrics" \/ result[q] = "error"
    BY <2>1 DEF IInv, MetricsOutlivePurgeOnlyByFailure
  <2>3. q # r /\ Dep(q)' = d
    BY <1>1, <2>1, <2>2 DEF Dep
  <2>4. pc'[q] = "clearMetrics" \/ result'[q] = "error"
    BY <1>0, <1>2, <2>2, <2>3 DEF Answer, Types
  <2> QED  BY <1>1, <2>2, <2>3, <2>4
<1>5. \A q \in Request : pc'[q] = "insertPackage" => pc[q] = "insertPackage"
  BY <1>0, <1>2 DEF Answer, Types
<1>6. TableOK' /\ UploadsKept' /\ PackagesFaithful'
  BY <1>1 DEF IInv, TableOK, UploadsKept, PackagesFaithful, UniqueOrdinals, Uploaded,
              KeepsVersion, Of, IsNewest
<1>7. ClonesOK'
  BY <1>1 DEF IInv, ClonesOK, Faithful, Source, Dep, Of, IsNewest
<1>8. OrdinalsOK'
  BY <1>1, <1>5 DEF IInv, OrdinalsOK, Source, Dep, Of
<1>9. NoGapBeforePurge' /\ OverlapRemains' /\ OriginalLabelResolves'
  BY <1>1 DEF IInv, NoGapBeforePurge, OverlapRemains, OriginalLabelResolves, Of, Dense
<1> QED  BY <1>3, <1>4, <1>6, <1>7, <1>8, <1>9 DEF IInv

LEMMA DeleteRowStep ==
  ASSUME IInv, Types', NEW r \in Request, DeleteRow(r)
  PROVE  IInv'
<1> USE DEF tables, locals, history
<1>0. Types /\ ControlOK /\ MetricsOutlivePurgeOnlyByFailure /\ Dep(r) \in Deployment
  BY CallType DEF IInv
<1>1. pc[r] = "deleteRow" /\ \E outcome \in Result : Answer(r, outcome)
  BY DEF DeleteRow, Outcome, Result
<1>2. ControlOK' /\ MetricsOutlivePurgeOnlyByFailure'
  BY <1>0, <1>1, ControlStep, MetricsStep DEF DeleteRow
<1>3. \A q \in Request : pc'[q] = "insertPackage" => pc[q] = "insertPackage"
  BY <1>0, <1>1 DEF Answer, Types
<1>4. /\ packages' = {p \in packages : p.dep \notin {Dep(r)}}
      /\ \A d \in Deployment \ {Dep(r)} : live'[d] = live[d] /\ epoch'[d] = epoch[d]
      /\ ~live'[Dep(r)] /\ epoch'[Dep(r)] = epoch[Dep(r)]
      /\ UNCHANGED <<call, clone, ordinal, seed>>
  BY <1>0 DEF DeleteRow, Of, Types
<1>5. \A d \in {Dep(r)} : \/ ~live'[d] /\ epoch'[d] = epoch[d]
                          \/ live'[d] = live[d] /\ epoch'[d] = epoch[d] + 1
  BY <1>4
<1>6. {Dep(r)} \in SUBSET Deployment
  BY <1>0
<1> HIDE DEF tables, locals, history
<1> QED  BY <1>2, <1>3, <1>4, <1>5, <1>6, LoseDeployments

-----------------------------------------------------------------------------
(* The rest of the system *)

LEMMA EnvironmentTypeOK ==
  ASSUME Types, DeleteApp \/ \E a \in Account, level \in Level : Grant(a, level)
  PROVE  Types'
<1> USE DEF tables, locals, history
<1>1. CASE DeleteApp
  BY <1>1 DEF DeleteApp, Types, Level
<1>2. ASSUME NEW a \in Account, NEW level \in Level, Grant(a, level)
      PROVE  Types'
  BY <1>2 DEF Grant, Types
<1> QED  BY <1>1, <1>2

LEMMA EnvironmentStep ==
  ASSUME IInv, Types', DeleteApp \/ \E a \in Account, level \in Level : Grant(a, level)
  PROVE  IInv'
<1> USE DEF tables, locals, history
<1>0. Types
  BY DEF IInv
<1>1. UNCHANGED <<metrics, pc, call, clone, ordinal, result, seed, epoch>>
  BY DEF DeleteApp, Grant
<1>2. ControlOK' /\ MetricsOutlivePurgeOnlyByFailure'
  BY <1>1 DEF IInv, ControlOK, MetricsOutlivePurgeOnlyByFailure, Dep
<1>3. CASE UNCHANGED <<live, packages>>
  BY <1>1, <1>2, <1>3, QuietStep DEF Data
<1>4. CASE DeleteApp
  <2>1. /\ packages' = {p \in packages : p.dep \notin Deployment}
        /\ \A d \in Deployment : ~live'[d]
    BY <1>0, <1>4 DEF DeleteApp, Types, Package
  <2>2. Deployment \in SUBSET Deployment
    OBVIOUS
  <2>3. \A d \in Deployment \ Deployment : live'[d] = live[d] /\ epoch'[d] = epoch[d]
    OBVIOUS
  <2>4. \A d \in Deployment : \/ ~live'[d] /\ epoch'[d] = epoch[d]
                              \/ live'[d] = live[d] /\ epoch'[d] = epoch[d] + 1
    BY <1>1, <2>1
  <2>5. UNCHANGED <<call, clone, ordinal, seed>>
    BY <1>1
  <2>6. \A q \in Request : pc'[q] = "insertPackage" => pc[q] = "insertPackage"
    BY <1>1
  <2> HIDE DEF tables, locals, history
  <2> QED  BY <1>2, <2>1, <2>2, <2>3, <2>4, <2>5, <2>6, LoseDeployments
<1> QED  BY <1>3, <1>4 DEF Grant

-----------------------------------------------------------------------------
(* The theorems *)

LEMMA NextIInv == IInv /\ [Next]_vars => IInv'
<1> SUFFICES ASSUME IInv, [Next]_vars PROVE IInv'
  OBVIOUS
<1> USE DEF vars, tables, locals, history
<1>1. CASE UNCHANGED vars
  <2>1. Types'
    BY <1>1 DEF IInv, Types
  <2>2. ControlOK' /\ MetricsOutlivePurgeOnlyByFailure'
    BY <1>1 DEF IInv, ControlOK, MetricsOutlivePurgeOnlyByFailure, Dep
  <2> QED  BY <1>1, <2>1, <2>2, QuietStep DEF Data
<1>2. ASSUME NEW r \in Request, Begin(r) \/ Step(r) \/ Fail(r)
      PROVE  IInv'
  <2>1. Types'
    BY <1>2, StepTypeOK DEF IInv
  <2> HIDE DEF vars, tables, locals, history
  <2> QED
    BY <1>2, <2>1, QuietRequestStep, ReadHistoryStep, NextOrdinalStep, InsertStep,
       DeletePackagesStep, ClearMetricsStep, DeleteRowStep DEF Step
<1>3. CASE DeleteApp \/ \E a \in Account, level \in Level : Grant(a, level)
  <2>1. Types'
    BY <1>3, EnvironmentTypeOK DEF IInv
  <2> HIDE DEF vars, tables, locals, history
  <2> QED  BY <1>3, <2>1, EnvironmentStep
<1> QED  BY <1>1, <1>2, <1>3 DEF Next

\* The inductive invariant holds in every reachable state.
THEOREM Invariance == Spec => []IInv
  BY InitIInv, NextIInv, PTL DEF Spec

\* Every reachable table has rows of the right types, and neither ordinals nor
\* labels of a deployment repeat: labels are built from ordinals.
THEOREM TypeCorrect == Spec => []TypeOK
<1>1. IInv => TypeOK
  <2> SUFFICES ASSUME IInv PROVE UniqueLabels(packages)
    BY DEF IInv, TableOK, TypeOK
  <2> SUFFICES ASSUME NEW p \in packages, NEW q \in packages,
                      p.dep = q.dep, p.label = q.label
               PROVE  p = q
    BY DEF UniqueLabels
  <2>1. LabelOf(p.ordinal).v = LabelOf(q.ordinal).v
    BY DEF IInv, TableOK
  <2>2. p.ordinal = q.ordinal
    BY <2>1 DEF LabelOf
  <2> QED  BY <2>2 DEF IInv, TableOK, UniqueOrdinals
<1> QED  BY <1>1, Invariance, PTL

\* Whatever a deployment serves was uploaded to it, and rollbacks keep the app
\* version of its newest upload, however Rollback, ClearHistory and deletions
\* interleave.
THEOREM RollbacksServeUploads == Spec => []RollbackServesUploads
<1>1. IInv => RollbackServesUploads
  BY DEF IInv, PackagesFaithful, RollbackServesUploads
<1> QED  BY <1>1, Invariance, PTL

\* Racing rollbacks leave no gap in the labels of a history nobody purged.
THEOREM NoGaps == Spec => []NoGapBeforePurge
<1>1. IInv => NoGapBeforePurge
  BY DEF IInv
<1> QED  BY <1>1, Invariance, PTL

\* Only a rollback that overlapped ClearHistory can bring a package back.
THEOREM PurgesHold == Spec => []PurgeUndoneOnlyByOverlap
<1>1. IInv => PurgeUndoneOnlyByOverlap
  BY DEF IInv, TableOK, OverlapRemains, PurgeUndoneOnlyByOverlap, Of
<1> QED  BY <1>1, Invariance, PTL

\* OriginalLabel names the release a rollback copied, unless a purge overlapped it.
THEOREM OriginalLabelsResolve == Spec => []OriginalLabelResolves
<1>1. IInv => OriginalLabelResolves
  BY DEF IInv
<1> QED  BY <1>1, Invariance, PTL

\* A ClearHistory that answered success has cleared the metrics.
THEOREM PurgesClearMetrics == Spec => []MetricsOutlivePurgeOnlyByFailure
<1>1. IInv => MetricsOutlivePurgeOnlyByFailure
  BY DEF IInv
<1> QED  BY <1>1, Invariance, PTL

\* The package CommitRollback inserts is the newest of a history nobody purged:
\* a higher ordinal already there would mean, the history having no gap, that
\* its own was taken.
LEMMA InsertAppends ==
  ASSUME IInv, NEW r \in Request, InsertPackage(r), epoch[Dep(r)] = 0
  PROVE  Appends(Dep(r))
<1> DEFINE d == Dep(r)
<1>0. d \in Deployment /\ Types
  BY CallType DEF IInv
<1> SUFFICES ASSUME NEW p \in Of(packages', d), NEW q \in Of(packages, d), p \notin packages
             PROVE  q.ordinal < p.ordinal
  BY DEF Appends
<1>1. p.ordinal = ordinal[r] /\ CanInsert(r)
  BY DEF InsertPackage, Of, NewPackage, tables, locals, history
<1>2. ordinal[r] \in Nat \ {0} /\ q.ordinal \in Nat
  BY <1>0, <1>1 DEF IInv, OrdinalsOK, InsertPackage, CanInsert, Types, Of, Package
<1>3. ASSUME q.ordinal >= ordinal[r] PROVE FALSE
  <2>1. ordinal[r] \in 1..q.ordinal
    BY <1>2, <1>3
  <2>2. PICK o \in Of(packages, d) : o.ordinal = ordinal[r]
    BY <1>0, <2>1 DEF IInv, NoGapBeforePurge, Dense
  <2> QED  BY <1>1, <2>2 DEF CanInsert
<1> QED  BY <1>1, <1>2, <1>3

\* The release a rollback commits is the newest of its history, the one update
\* checks try first, as long as nobody has purged that history.
THEOREM CommitsAreNewest == Spec => CommitIsNewest
<1>1. IInv /\ [Next]_vars => [\A d \in Deployment : epoch[d] = 0 => Appends(d)]_vars
  <2> SUFFICES ASSUME IInv, Next, NEW d \in Deployment, epoch[d] = 0
               PROVE  Appends(d)
    BY DEF vars
  <2>1. CASE packages' \subseteq packages
    BY <2>1 DEF Appends, Of
  <2>2. CASE \E r \in Request : InsertPackage(r)
    <3>1. PICK r \in Request : InsertPackage(r)
      BY <2>2
    <3>2. CASE Dep(r) = d
      BY <3>1, <3>2, InsertAppends
    <3>3. CASE Dep(r) # d
      BY <3>1, <3>3 DEF InsertPackage, Appends, Of, NewPackage
    <3> QED  BY <3>2, <3>3
  <2>3. (\E r \in Request : InsertPackage(r)) \/ packages' \subseteq packages
    BY DEF Next, Begin, Step, Fail, FindApp, MayView, FindDeployment, MayRead,
           ReadHistory, MayCommit, NextOrdinal, MayPurge, DeletePackages, ClearMetrics,
           MayDelete, DeleteRow, Require, Grant, DeleteApp, tables
  <2> QED  BY <2>1, <2>2, <2>3
<1> QED  BY <1>1, Invariance, PTL DEF Spec, CommitIsNewest

-----------------------------------------------------------------------------
(* Who writes *)

\* A request has held the permission its actor has, and those its checks found.
HeldOf(r) ==
    /\ pc[r] \notin {"idle", "answered"} => permission[Actor(r)] \in held[r] \cup {"None"}
    /\ pc[r] \in {"nextOrdinal", "insertPackage"} => held[r] \cap {"Collaborator", "Owner"} # {}
    /\ pc[r] \in {"deletePackages", "deleteRow"} => "Owner" \in held[r]
HeldOK == \A r \in Request : HeldOf(r)

\* A check that lets the request pass found a permission the request has held.
LEMMA RequireHeld ==
  ASSUME Types, NEW r \in Request, HeldOf(r), NEW here, NEW there, NEW levels,
         here \notin {"idle", "answered"}, "None" \notin levels, Require(r, here, levels, there)
  PROVE  \/ pc'[r] = "answered"
         \/ pc'[r] = there /\ held[r] \cap levels # {}
<1>1. CASE Answer(r, IF permission[Actor(r)] = "None" THEN "notFound" ELSE "forbidden")
  BY <1>1 DEF Answer, Types
<1>2. CASE permission[Actor(r)] \in levels /\ Goto(r, here, there)
  BY <1>2 DEF Goto, Types, HeldOf
<1> QED  BY <1>1, <1>2 DEF Require

LEMMA HeldStep ==
  ASSUME Types, HeldOK, [Next]_vars
  PROVE  HeldOK'
<1> USE DEF vars, tables, locals, history
<1>1. CASE UNCHANGED vars
  BY <1>1 DEF HeldOK, HeldOf, Actor
<1>2. ASSUME NEW r \in Request, Begin(r)
      PROVE  HeldOK'
  <2>1. \A q \in Request \ {r} : pc'[q] = pc[q] /\ held'[q] = held[q]
    BY <1>2 DEF Begin, Goto, Types
  <2>2. pc'[r] = "findApp" /\ held'[r] = {permission[Actor(r)]}
    BY <1>2 DEF Begin, Goto, Types
  <2> QED  BY <1>2, <2>1, <2>2 DEF Begin, HeldOK, HeldOf, Actor
<1>3. ASSUME NEW r \in Request, Step(r) \/ Fail(r)
      PROVE  HeldOK'
  <2>1. UNCHANGED <<permission, call, held>>
    BY <1>3 DEF Step, Fail, FindApp, MayView, FindDeployment, MayRead, ReadHistory, MayCommit,
                NextOrdinal, InsertPackage, MayPurge, DeletePackages, ClearMetrics, MayDelete,
                DeleteRow, Require
  <2>2. \A q \in Request \ {r} : pc'[q] = pc[q]
    BY <1>3 DEF Step, Fail, FindApp, MayView, FindDeployment, MayRead, ReadHistory, MayCommit,
                NextOrdinal, InsertPackage, MayPurge, DeletePackages, ClearMetrics, MayDelete,
                DeleteRow, Require, Goto, Answer, Types
  <2>3. HeldOf(r) /\ pc[r] \notin {"idle", "answered"}
    BY <1>3 DEF HeldOK, Step, Fail, FindApp, MayView, FindDeployment, MayRead, ReadHistory,
                MayCommit, NextOrdinal, InsertPackage, MayPurge, DeletePackages, ClearMetrics,
                MayDelete, DeleteRow, Require, Goto
  <2>4. \/ pc'[r] \notin {"nextOrdinal", "insertPackage", "deletePackages", "deleteRow"}
        \/ pc'[r] \in {"nextOrdinal", "insertPackage"} /\ held[r] \cap {"Owner", "Collaborator"} # {}
        \/ "Owner" \in held[r]
    <3>1. CASE FindApp(r) \/ ReadHistory(r) \/ InsertPackage(r) \/ DeletePackages(r)
               \/ ClearMetrics(r) \/ DeleteRow(r) \/ Fail(r)
      BY <3>1 DEF FindApp, ReadHistory, InsertPackage, DeletePackages, ClearMetrics, DeleteRow,
                  Fail, Goto, Answer, Types
    <3>2. CASE FindDeployment(r)
      BY <3>2, CallType DEF FindDeployment, AfterDeployment, Goto, Answer, Types, Call, Op
    <3>3. CASE NextOrdinal(r)
      BY <2>3, <3>3 DEF NextOrdinal, Goto, HeldOf, Types
    <3>4. CASE MayView(r) \/ MayRead(r) \/ MayCommit(r)
      BY <2>3, <3>4, RequireHeld DEF MayView, MayRead, MayCommit
    <3>5. CASE MayPurge(r) \/ MayDelete(r)
      BY <2>3, <3>5, RequireHeld DEF MayPurge, MayDelete
    <3> QED  BY <1>3, <3>1, <3>2, <3>3, <3>4, <3>5 DEF Step
  <2>5. HeldOf(r)'
    BY <2>1, <2>3, <2>4 DEF HeldOf, Actor
  <2>6. \A q \in Request \ {r} : HeldOf(q)'
    BY <2>1, <2>2 DEF HeldOK, HeldOf, Actor
  <2> QED  BY <2>5, <2>6 DEF HeldOK
<1>4. ASSUME NEW a \in Account, NEW level \in Level, Grant(a, level)
      PROVE  HeldOK'
  <2>1. \A r \in Request : Actor(r) \in Account
    BY CallType DEF Actor
  <2>2. \A r \in Request : held[r] \subseteq held'[r]
    BY <1>4 DEF Grant, Types
  <2>3. \A r \in Request : pc[r] \notin {"idle", "answered"} =>
          permission'[Actor(r)] \in held'[r] \cup {"None"}
    BY <1>4, <2>1 DEF Grant, Types, HeldOK, HeldOf
  <2> QED  BY <1>4, <2>2, <2>3 DEF Grant, HeldOK, HeldOf, Actor
<1>5. CASE DeleteApp
  <2>1. \A r \in Request : Actor(r) \in Account
    BY CallType DEF Actor
  <2> QED  BY <1>5, <2>1 DEF DeleteApp, HeldOK, HeldOf, Actor
<1> QED  BY <1>1, <1>2, <1>3, <1>4, <1>5 DEF Next

\* No check is in the transaction of its write; still, nobody writes who has
\* not held the permission at some moment of the request.
THEOREM WritesAuthorized == Spec => AuthorizedWrites
<1> DEFINE Authorized(d) ==
      /\ Of(packages', d) \subseteq Of(packages, d) \/
           \E r \in Request : Writes(r, d) /\ held[r] \cap {"Collaborator", "Owner"} # {}
      /\ (live'[d] = live[d] /\ epoch'[d] = epoch[d]) \/ ~appLive' \/
           \E r \in Request : Writes(r, d) /\ "Owner" \in held[r]
<1>1. Init => HeldOK
  BY DEF Init, HeldOK, HeldOf
<1>2. Types /\ HeldOK /\ [Next]_vars => HeldOK'
  BY HeldStep
<1>3. Types /\ HeldOK /\ [Next]_vars => [\A d \in Deployment : Authorized(d)]_vars
  <2> SUFFICES ASSUME Types, HeldOK, Next, NEW d \in Deployment
               PROVE  Authorized(d)
    OBVIOUS
  <2> USE DEF tables, locals, history
  <2>1. CASE packages' = packages /\ live' = live /\ epoch' = epoch
    BY <2>1 DEF Of
  <2>2. CASE \E r \in Request : InsertPackage(r)
    <3>1. PICK r \in Request : InsertPackage(r)
      BY <2>2
    <3>2. pc[r] = "insertPackage" /\ pc'[r] = "answered" /\ held[r] \cap {"Collaborator", "Owner"} # {}
      BY <3>1 DEF InsertPackage, Answer, Types, HeldOK, HeldOf
    <3>3. live' = live /\ epoch' = epoch
      BY <3>1 DEF InsertPackage
    <3>4. Dep(r) # d => Of(packages', d) \subseteq Of(packages, d)
      BY <3>1 DEF InsertPackage, Of, NewPackage
    <3> QED  BY <3>2, <3>3, <3>4 DEF Writes
  <2>3. CASE \E r \in Request : DeletePackages(r)
    <3>1. PICK r \in Request : DeletePackages(r)
      BY <2>3
    <3>2. pc[r] = "deletePackages" /\ pc'[r] # pc[r] /\ "Owner" \in held[r]
      BY <3>1 DEF DeletePackages, Goto, Answer, Types, HeldOK, HeldOf
    <3>3. live' = live /\ (Dep(r) # d => epoch'[d] = epoch[d]) /\ packages' \subseteq packages
      BY <3>1 DEF DeletePackages, Types
    <3> QED  BY <3>2, <3>3 DEF Writes, Of
  <2>4. CASE \E r \in Request : DeleteRow(r)
    <3>1. PICK r \in Request : DeleteRow(r)
      BY <2>4
    <3>2. pc[r] = "deleteRow" /\ pc'[r] # pc[r] /\ "Owner" \in held[r]
      BY <3>1 DEF DeleteRow, Answer, Types, HeldOK, HeldOf
    <3>3. epoch' = epoch /\ (Dep(r) # d => live'[d] = live[d]) /\ packages' \subseteq packages
      BY <3>1 DEF DeleteRow, Types
    <3> QED  BY <3>2, <3>3 DEF Writes, Of
  <2>5. CASE DeleteApp
    BY <2>5 DEF DeleteApp, Of
  <2>6. \/ packages' = packages /\ live' = live /\ epoch' = epoch
        \/ \E r \in Request : InsertPackage(r) \/ DeletePackages(r) \/ DeleteRow(r)
        \/ DeleteApp
    BY DEF Next, Begin, Step, Fail, FindApp, MayView, FindDeployment, MayRead, ReadHistory,
           MayCommit, NextOrdinal, MayPurge, ClearMetrics, MayDelete, Require, Grant
  <2> QED  BY <2>1, <2>2, <2>3, <2>4, <2>5, <2>6
<1>4. IInv => Types
  BY DEF IInv
<1> QED  BY <1>1, <1>2, <1>3, <1>4, Invariance, PTL DEF Spec, AuthorizedWrites
-----------------------------------------------------------------------------
(* Histories are logs *)

LEMMA InitLog == Init => Log!Init
<1> SUFFICES ASSUME Init PROVE Log!Init
  OBVIOUS
<1>1. WellFormed(seed)
  BY SeedsAssumption DEF Init
<1>2. ASSUME NEW p \in seed
      PROVE  /\ p.dep \in Deployment /\ p.insertedIn = 0
             /\ Log!Numbered(p, Log!Of(seed, p.dep)) /\ Log!Follows(p, Log!Of(seed, p.dep))
  <2>1. p.dep \in Deployment /\ p.ordinal \in Nat \ {0} /\ p.insertedIn = 0
    BY <1>1 DEF WellFormed, Package
  <2>2. Log!Numbered(p, Log!Of(seed, p.dep))
    BY <1>1, <2>1 DEF WellFormed, UniqueOrdinals, LabelOf, Log!Numbered, Log!Of, Log!LabelOf
  <2>3. p \in Of(seed, p.dep) /\ Dense(Of(seed, p.dep))
    BY <1>1, <2>1 DEF WellFormed, Of
  <2>4. \A k \in 1..(p.ordinal - 1) : k \in 1..p.ordinal
    BY <2>1
  <2>5. Log!Follows(p, Log!Of(seed, p.dep))
    BY <2>3, <2>4 DEF Dense, Of, Log!Of, Log!Follows
  <2> QED  BY <2>1, <2>2, <2>5
<1> QED  BY <1>2 DEF Init, Log!Init

\* An INSERT is a rollback in one step: the source it copied is still there and
\* the ordinal it computed still the next one, unless a purge came between.
LEMMA InsertLog ==
  ASSUME IInv, NEW r \in Request, InsertPackage(r)
  PROVE  [Log!Next]_(Log!vars)
<1> USE DEF locals, history
<1> DEFINE d == Dep(r)
<1>0. Types /\ d \in Deployment
  BY CallType DEF IInv
<1>1. CASE packages' = packages
  BY <1>1 DEF InsertPackage, Log!vars
<1>2. CASE packages' # packages
  <2>1. /\ CanInsert(r) /\ pc[r] = "insertPackage"
        /\ packages' = packages \cup {NewPackage(r, c) : c \in clone[r]}
        /\ UNCHANGED <<seed, live, epoch>>
    BY <1>2 DEF InsertPackage
  <2>2. PICK c \in clone[r] : NewPackage(r, c) \notin packages
    BY <1>2, <2>1
  <2> DEFINE p == NewPackage(r, c)
  <2>3. packages' = packages \cup {p}
    BY <2>1 DEF IInv, ClonesOK
  <2>4. /\ p.dep = d /\ p.ordinal = ordinal[r] /\ p.label = LabelOf(ordinal[r])
        /\ p.version = c.version /\ p.payload = c.payload
        /\ p.originalLabel = c.originalLabel
        /\ p.readIn = c.readIn /\ p.insertedIn = epoch[d]
    BY DEF NewPackage
  <2>5. live[d] /\ ordinal[r] \in Nat \ {0}
    BY <1>0, <2>1 DEF CanInsert, IInv, OrdinalsOK, Types
  <2>6. Faithful(d, c) /\ c.readIn \in Nat /\ c.readIn <= epoch[d] /\ epoch[d] \in Nat
    BY <1>0 DEF IInv, ClonesOK, Types, Clone
  <2> HIDE DEF p
  <2>7. Log!Add(p)
    <3>1. Log!Numbered(p, Log!Of(packages, p.dep))
      BY <2>1, <2>4, <2>5 DEF CanInsert, Of, LabelOf, Log!Numbered, Log!Of, Log!LabelOf
    <3>2. \A s \in Log!Of(seed, p.dep) :
            (\A t \in Log!Of(seed, p.dep) : t.ordinal <= s.ordinal) => p.version = s.version
      BY <2>4, <2>6 DEF Faithful, IsNewest, Of, Log!Of
    <3> QED  BY <2>1, <2>2, <2>3, <2>4, <2>5, <3>1, <3>2 DEF p, Log!Add
  <2>8. CASE c.readIn = epoch[d]
    <3>1. \E q \in packages : Log!Copies(p, q) /\ q.label = p.originalLabel /\ q.ordinal < p.ordinal
      BY <2>1, <2>4, <2>5, <2>8 DEF IInv, OrdinalsOK, Source, Log!Copies
    <3>2. epoch[d] = 0 => Log!Follows(p, Log!Of(packages, d))
      BY <2>1, <2>4, <2>5 DEF IInv, OrdinalsOK, Of, Log!Follows, Log!Of
    <3>3. Log!Rollback(p)
      BY <2>4, <2>7, <2>8, <3>1, <3>2 DEF Log!Rollback
    <3> QED  BY <2>3, <3>3 DEF Log!Next
  <2>9. CASE c.readIn # epoch[d]
    <3>1. p.readIn < epoch[p.dep]
      BY <2>4, <2>6, <2>9
    <3>2. \E s \in seed : Log!Copies(p, s)
      BY <2>4, <2>6 DEF Faithful, Log!Copies
    <3>3. Log!LateRollback(p)
      BY <2>7, <3>1, <3>2 DEF Log!LateRollback
    <3> QED  BY <2>3, <3>3 DEF Log!Next
  <2> QED  BY <2>8, <2>9
<1> QED  BY <1>1, <1>2

\* Every other statement purges, drops, or leaves all histories alone.
LEMMA StepLog == IInv /\ [Next]_vars => [Log!Next]_(Log!vars)
<1> SUFFICES ASSUME IInv, [Next]_vars PROVE [Log!Next]_(Log!vars)
  OBVIOUS
<1> USE DEF tables, locals, history
<1>0. Types
  BY DEF IInv
<1>1. CASE UNCHANGED <<packages, seed, live, epoch>>
  BY <1>1 DEF Log!vars
<1>2. ASSUME NEW r \in Request, InsertPackage(r)
      PROVE  [Log!Next]_(Log!vars)
  BY <1>2, InsertLog
<1>3. ASSUME NEW r \in Request, DeletePackages(r)
      PROVE  [Log!Next]_(Log!vars)
  <2>1. Log!Purge(Dep(r))
    BY <1>3 DEF DeletePackages, Purged, History, Of, Log!Purge, Log!Of
  <2> QED  BY <2>1, CallType, <1>0 DEF Log!Next
<1>4. ASSUME NEW r \in Request, DeleteRow(r)
      PROVE  [Log!Next]_(Log!vars)
  <2>1. live' = [d \in Deployment |-> live[d] /\ d \notin {Dep(r)}]
    BY <1>0, <1>4 DEF DeleteRow, Types
  <2>2. packages' = {p \in packages : p.dep \notin {Dep(r)}}
    BY <1>4 DEF DeleteRow, Of
  <2>3. Log!Drop({Dep(r)})
    BY <1>4, <2>1, <2>2 DEF DeleteRow, Log!Drop
  <2> QED  BY <2>3, CallType, <1>0 DEF Log!Next
<1>5. CASE DeleteApp
  <2>1. packages' = {p \in packages : p.dep \notin Deployment}
    BY <1>0, <1>5 DEF DeleteApp, Types, Package
  <2>2. Log!Drop(Deployment)
    BY <1>5, <2>1 DEF DeleteApp, Log!Drop
  <2> QED  BY <2>2 DEF Log!Next
<1>6. \/ UNCHANGED <<packages, seed, live, epoch>>
      \/ \E r \in Request : InsertPackage(r) \/ DeletePackages(r) \/ DeleteRow(r)
      \/ DeleteApp
  <2>1. CASE UNCHANGED vars
    BY <2>1 DEF vars
  <2>2. CASE Next
    BY <2>2 DEF Next, Begin, Step, Fail, FindApp, MayView, FindDeployment, MayRead, ReadHistory,
                MayCommit, NextOrdinal, MayPurge, ClearMetrics, MayDelete, Require, Grant
  <2> QED  BY <2>1, <2>2
<1> QED  BY <1>1, <1>2, <1>3, <1>4, <1>5, <1>6

\* The statements of all requests on the histories implement ReleaseLog: what
\* becomes of a history is what rollbacks in one step would have made of it.
THEOREM HistoriesAreLogs == Spec => ImplementsLog
BY InitLog, StepLog, Invariance, PTL DEF Spec, ImplementsLog, Log!Spec

-----------------------------------------------------------------------------
(* Requests end and histories come to rest *)

\* The statements a request has before it, at most.
Remaining ==
    [idle |-> 9, findApp |-> 8, mayView |-> 7, findDeployment |-> 6,
     mayRead |-> 5, readHistory |-> 4, mayCommit |-> 3, nextOrdinal |-> 2, insertPackage |-> 1,
     mayPurge |-> 3, deletePackages |-> 2, clearMetrics |-> 1,
     mayDelete |-> 2, deleteRow |-> 1, answered |-> 0]

\* A step brings request r nearer to its answer.
Advances(r) ==
    /\ Remaining[pc'[r]] < Remaining[pc[r]]
    /\ \A q \in Request \ {r} : pc'[q] = pc[q]

\* Nothing is tried again, by no request: a step brings one of them nearer to its
\* answer, or deletes the app, or leaves every history as it is.
HistoriesComeToRest ==
    [][\/ \E r \in Request : Advances(r) /\ UNCHANGED appLive
       \/ appLive /\ ~appLive' /\ UNCHANGED pc
       \/ UNCHANGED <<pc, appLive, live, packages>>]_vars

LEMMA MoveAdvances ==
  ASSUME pc \in [Request -> PC], NEW r \in Request, NEW there,
         pc' = [pc EXCEPT ![r] = there], Remaining[there] < Remaining[pc[r]]
  PROVE  Advances(r)
<1>1. pc'[r] = there /\ \A q \in Request \ {r} : pc'[q] = pc[q]
  OBVIOUS
<1> QED  BY <1>1 DEF Advances

LEMMA AnswerAdvances ==
  ASSUME pc \in [Request -> PC], NEW r \in Request, NEW outcome, Answer(r, outcome),
         pc[r] # "answered"
  PROVE  Advances(r)
<1>1. pc[r] \in PC \ {"answered"} /\ pc' = [pc EXCEPT ![r] = "answered"]
  BY DEF Answer
<1>2. Remaining["answered"] < Remaining[pc[r]]
  BY <1>1 DEF Remaining, PC
<1> QED  BY <1>1, <1>2, MoveAdvances

LEMMA GotoAdvances ==
  ASSUME pc \in [Request -> PC], NEW r \in Request, NEW here, NEW there, Goto(r, here, there),
         Remaining[there] < Remaining[here]
  PROVE  Advances(r)
BY MoveAdvances DEF Goto

LEMMA RequireAdvances ==
  ASSUME pc \in [Request -> PC], NEW r \in Request, NEW here, NEW levels, NEW there,
         Require(r, here, levels, there), here # "answered",
         Remaining[there] < Remaining[here]
  PROVE  Advances(r)
BY AnswerAdvances, GotoAdvances DEF Require

LEMMA StepAdvances ==
  ASSUME Types, NEW r \in Request, Begin(r) \/ Step(r) \/ Fail(r)
  PROVE  Advances(r) /\ UNCHANGED appLive
<1>0. pc \in [Request -> PC]
  BY DEF Types
<1>1. UNCHANGED appLive
  BY DEF Begin, Step, Fail, FindApp, MayView, FindDeployment, MayRead, ReadHistory, MayCommit,
         NextOrdinal, InsertPackage, MayPurge, DeletePackages, ClearMetrics, MayDelete, DeleteRow,
         Require, tables
<1>2. /\ Remaining["findApp"] < Remaining["idle"]
      /\ Remaining["mayView"] < Remaining["findApp"]
      /\ Remaining["findDeployment"] < Remaining["mayView"]
      /\ \A there \in {"mayRead", "mayPurge", "mayDelete"} :
           Remaining[there] < Remaining["findDeployment"]
      /\ Remaining["readHistory"] < Remaining["mayRead"]
      /\ Remaining["mayCommit"] < Remaining["readHistory"]
      /\ Remaining["nextOrdinal"] < Remaining["mayCommit"]
      /\ Remaining["insertPackage"] < Remaining["nextOrdinal"]
      /\ Remaining["deletePackages"] < Remaining["mayPurge"]
      /\ Remaining["clearMetrics"] < Remaining["deletePackages"]
      /\ Remaining["deleteRow"] < Remaining["mayDelete"]
  BY DEF Remaining
<1>3. ASSUME NEW here, NEW there, Goto(r, here, there), Remaining[there] < Remaining[here]
      PROVE  Advances(r)
  BY <1>0, <1>3, GotoAdvances
<1>4. ASSUME NEW outcome, Answer(r, outcome), pc[r] # "answered"
      PROVE  Advances(r)
  BY <1>0, <1>4, AnswerAdvances
<1>5. CASE Begin(r)
  <2>1. Goto(r, "idle", "findApp")
    BY <1>5 DEF Begin
  <2> QED  BY <1>1, <1>2, <1>3, <2>1
<1>6. CASE FindApp(r)
  <2>1. Goto(r, "findApp", "mayView") \/ (pc[r] = "findApp" /\ Answer(r, "notFound"))
    BY <1>6 DEF FindApp
  <2> QED  BY <1>1, <1>2, <1>3, <1>4, <2>1
<1>7. CASE MayView(r) \/ MayRead(r) \/ MayCommit(r) \/ MayPurge(r) \/ MayDelete(r)
  <2>1. ASSUME NEW here, NEW levels, NEW there, Require(r, here, levels, there),
               here # "answered", Remaining[there] < Remaining[here]
        PROVE  Advances(r)
    BY <1>0, <2>1, RequireAdvances
  <2> QED  BY <1>1, <1>2, <1>7, <2>1 DEF MayView, MayRead, MayCommit, MayPurge, MayDelete
<1>8. CASE FindDeployment(r)
  <2>1. \/ Goto(r, "findDeployment", AfterDeployment[call[r].op])
        \/ pc[r] = "findDeployment" /\ Answer(r, "notFound")
    BY <1>8 DEF FindDeployment
  <2>2. AfterDeployment[call[r].op] \in {"mayRead", "mayPurge", "mayDelete"}
    BY CallType
  <2> QED  BY <1>1, <1>2, <1>3, <1>4, <2>1, <2>2
<1>9. CASE ReadHistory(r)
  <2>1. \/ Goto(r, "readHistory", "mayCommit")
        \/ pc[r] = "readHistory" /\ \E outcome : Answer(r, outcome)
    BY <1>9 DEF ReadHistory
  <2> QED  BY <1>1, <1>2, <1>3, <1>4, <2>1
<1>10. CASE NextOrdinal(r)
  <2>1. Goto(r, "nextOrdinal", "insertPackage")
    BY <1>10 DEF NextOrdinal
  <2> QED  BY <1>1, <1>2, <1>3, <2>1
<1>11. CASE DeletePackages(r)
  <2>1. \/ Goto(r, "deletePackages", "clearMetrics")
        \/ pc[r] = "deletePackages" /\ Answer(r, "error")
    BY <1>11 DEF DeletePackages
  <2> QED  BY <1>1, <1>2, <1>3, <1>4, <2>1
<1>12. CASE InsertPackage(r) \/ ClearMetrics(r) \/ DeleteRow(r) \/ Fail(r)
  <2>1. pc[r] # "answered" /\ \E outcome : Answer(r, outcome)
    BY <1>12 DEF InsertPackage, ClearMetrics, DeleteRow, Fail
  <2> QED  BY <1>1, <1>4, <2>1
<1> QED  BY <1>1, <1>5, <1>6, <1>7, <1>8, <1>9, <1>10, <1>11, <1>12 DEF Step

\* Every request takes a bounded number of statements, and when the last one is
\* answered no history changes any more, but with the deletion of the app.
THEOREM HistoriesRest == Spec => HistoriesComeToRest
<1> DEFINE Counts ==
      \/ \E r \in Request : Advances(r) /\ UNCHANGED appLive
      \/ appLive /\ ~appLive' /\ UNCHANGED pc
      \/ UNCHANGED <<pc, appLive, live, packages>>
<1>1. Types /\ [Next]_vars => [Counts]_vars
  <2>1. ASSUME Types, NEW r \in Request, Begin(r) \/ Step(r) \/ Fail(r) PROVE Counts
    BY <2>1, StepAdvances
  <2>2. ASSUME NEW a \in Account, NEW level \in Level, Grant(a, level) PROVE Counts
    BY <2>2 DEF Grant
  <2>3. CASE DeleteApp
    BY <2>3 DEF DeleteApp
  <2> QED  BY <2>1, <2>2, <2>3 DEF Next
<1>2. IInv => Types
  BY DEF IInv
<1> QED  BY <1>1, <1>2, Invariance, PTL DEF Spec, HistoriesComeToRest
=============================================================================
