-------------------------- MODULE UpdateCheckProofs --------------------------
(* UpdateCheck over any deployments, devices, rollouts and requests: it leaves *)
(* Releases as it is, so that the theorems on Releases hold beside it, and      *)
(* the two properties of what devices are offered.                              *)
EXTENDS UpdateCheck, ReleasesProofs, FiniteSetTheorems

\* InRollout over the classes 0..99: a rollout of n percent admits n of them,
\* 0 nobody and 100 everybody.
THEOREM RolloutShare ==
  ASSUME NEW n \in 0..100
  PROVE  Cardinality({k \in 0..99 : InRollout(k, n)}) = n
<1>1. {k \in 0..99 : InRollout(k, n)} = 0..(n - 1)
  BY DEF InRollout
<1>2. Cardinality(0..(n - 1)) = n
  <2>1. CASE n = 0
    BY <2>1, FS_EmptySet
  <2>2. CASE n # 0
    BY <2>2, FS_Interval
  <2> QED  BY <2>1, <2>2
<1> QED  BY <1>1, <1>2

\* What a step may take from a history: nothing but in a purge or with the
\* deployment.
LEMMA HistoryStays ==
  ASSUME IInv, [Next]_vars, NEW d \in Deployment, live'[d], epoch'[d] = epoch[d]
  PROVE  live[d] /\ Of(packages, d) \subseteq packages'
<1> USE DEF vars, tables, locals, history
<1>0. Types
  BY DEF IInv
<1>1. CASE \E r \in Request : DeletePackages(r)
  <2>1. PICK r \in Request : DeletePackages(r)
    BY <1>1
  <2>2. Dep(r) # d
    BY <1>0, <2>1 DEF DeletePackages, Types
  <2> QED  BY <2>1, <2>2 DEF DeletePackages, Purged, History, Of
<1>2. CASE \E r \in Request : DeleteRow(r)
  <2>1. PICK r \in Request : DeleteRow(r)
    BY <1>2
  <2>2. Dep(r) # d
    BY <1>0, <2>1 DEF DeleteRow, Types
  <2> QED  BY <1>0, <2>1, <2>2 DEF DeleteRow, Of, Types
<1>3. CASE DeleteApp
  BY <1>3 DEF DeleteApp
<1>4. (\E r \in Request : DeletePackages(r) \/ DeleteRow(r)) \/ DeleteApp
      \/ (live' = live /\ packages \subseteq packages')
  BY DEF Next, Begin, Step, Fail, FindApp, MayView, FindDeployment, MayRead,
         ReadHistory, MayCommit, NextOrdinal, InsertPackage, MayPurge, ClearMetrics,
         MayDelete, Require, Grant
<1> QED  BY <1>1, <1>2, <1>3, <1>4 DEF Of

LEMMA EpochGrows ==
  ASSUME IInv, [Next]_vars, NEW d \in Deployment
  PROVE  epoch[d] \in Nat /\ epoch'[d] >= epoch[d]
<1> USE DEF vars, tables, locals, history
<1>1. epoch' = epoch \/ \E r \in Request : epoch' = [epoch EXCEPT ![Dep(r)] = @ + 1]
  BY DEF Next, Begin, Step, Fail, FindApp, MayView, FindDeployment, MayRead,
         ReadHistory, MayCommit, NextOrdinal, InsertPackage, MayPurge, DeletePackages, ClearMetrics,
         MayDelete, DeleteRow, Require, Grant, DeleteApp
<1> QED  BY <1>1 DEF IInv, Types

-----------------------------------------------------------------------------

\* A release a device was offered is in its history until somebody purges it or
\* deletes the deployment.
OfferOf(c) ==
    offer[c] # NoOffer =>
        /\ offer[c].dep = Home[c] /\ ~Skips(c, offer[c])
        /\ offer[c].insertedIn <= epoch[Home[c]]
        /\ live[Home[c]] /\ offer[c].insertedIn = epoch[Home[c]] => offer[c] \in packages
CheckInv == IInv /\ CheckTypeOK /\ \A c \in Device : OfferOf(c)

LEMMA InitCheckInv == CheckInit => CheckInv
BY InitIInv DEF CheckInit, CheckInv, CheckTypeOK, Checking, OfferOf, IInv

LEMMA CheckingStep ==
  ASSUME CheckInv, NEW c \in Device,
         Ask(c) \/ FindKey(c) \/ ReadReleases(c) \/ Install(c) \/ GiveUp(c)
  PROVE  CheckInv'
<1> USE DEF CheckInv
<1>1. UNCHANGED vars
  BY DEF Ask, FindKey, ReadReleases, Install, GiveUp
<1>2. IInv'
  BY <1>1, NextIInv
<1>3. Types /\ Types'
  BY <1>2 DEF IInv
<1>4. CheckTypeOK' /\ \A q \in Device \ {c} : offer'[q] = offer[q]
  <2>1. CASE Ask(c) \/ FindKey(c) \/ GiveUp(c)
    BY <1>3, <2>1 DEF CheckTypeOK, Ask, FindKey, GiveUp, Turn, Checking
  <2>2. CASE ReadReleases(c)
    <3>1. \A p \in Selected(c, Of(packages, Home[c])) : p \in Package /\ p # NoOffer
      BY <1>3, NoOfferAssumption DEF Selected, Of, Types
    <3> QED  BY <1>3, <2>2, <3>1 DEF CheckTypeOK, ReadReleases, Turn, Checking
  <2>3. CASE Install(c)
    <3>1. offer[c] # NoOffer /\ offer[c] \in Package
      BY <2>3 DEF CheckTypeOK, Install, Turn
    <3>2. offer[c].payload \in Payload
      BY <3>1 DEF Package
    <3> QED  BY <1>3, <2>3, <3>2 DEF CheckTypeOK, Install, Turn, Checking
  <2> QED  BY <2>1, <2>2, <2>3
<1>5. OfferOf(c)'
  <2>1. CASE offer' = offer
    BY <1>1, <2>1 DEF OfferOf, Skips, vars, tables, history
  <2>2. CASE offer' # offer
    <3>1. PICK p \in Selected(c, Of(packages, Home[c])) : offer' = [offer EXCEPT ![c] = p]
      BY <2>2 DEF Ask, FindKey, ReadReleases, Install, GiveUp
    <3>2. offer'[c] = p /\ p \in packages /\ p.dep = Home[c] /\ ~Skips(c, p)
      BY <3>1 DEF CheckTypeOK, Selected, Of
    <3>3. p.insertedIn = epoch[Home[c]] /\ epoch[Home[c]] \in Nat
      BY <1>3, <3>2, DeviceAssumption DEF IInv, TableOK, Types
    <3> QED  BY <1>1, <3>2, <3>3 DEF OfferOf, Skips, vars, tables, history
  <2> QED  BY <2>1, <2>2
<1>6. \A q \in Device \ {c} : OfferOf(q)'
  BY <1>1, <1>4 DEF OfferOf, Skips, vars, tables, history
<1> QED  BY <1>2, <1>4, <1>5, <1>6

LEMMA CheckInvStep == CheckInv /\ [CheckNext]_checkVars => CheckInv'
<1> SUFFICES ASSUME CheckInv, [CheckNext]_checkVars  PROVE CheckInv'
  OBVIOUS
<1>1. CASE [Next]_vars /\ UNCHANGED devices
  <2>1. IInv' /\ IInv
    BY <1>1, NextIInv DEF CheckInv
  <2>2. CheckTypeOK'
    BY <1>1, <2>1 DEF CheckInv, CheckTypeOK, devices, IInv
  <2>3. ASSUME NEW c \in Device, offer[c] # NoOffer  PROVE OfferOf(c)'
    <3> DEFINE d == Home[c]
    <3>1. d \in Deployment /\ OfferOf(c) /\ offer[c] \in Package
      BY <2>3, DeviceAssumption DEF CheckInv, CheckTypeOK
    <3>2. offer'[c] = offer[c] /\ epoch[d] \in Nat /\ epoch'[d] \in Nat /\ epoch'[d] >= epoch[d]
          /\ offer[c].insertedIn \in Nat
      BY <1>1, <2>1, <3>1, EpochGrows DEF devices, IInv, Types, Package
    <3>3. live'[d] /\ epoch'[d] = epoch[d] => live[d] /\ Of(packages, d) \subseteq packages'
      BY <1>1, <2>1, <3>1, HistoryStays
    <3> QED  BY <2>3, <3>1, <3>2, <3>3 DEF OfferOf, Skips, Of
  <2> QED  BY <1>1, <2>1, <2>2, <2>3 DEF CheckInv, OfferOf, devices
<1>2. CASE \E c \in Device : Ask(c) \/ FindKey(c) \/ ReadReleases(c) \/ Install(c) \/ GiveUp(c)
  BY <1>2, CheckingStep
<1> QED  BY <1>1, <1>2 DEF CheckNext, checkVars

\* The invariant holds in every state that devices and requests reach together:
\* what a device was last offered is a release of its own deployment.
THEOREM CheckInvariance == CheckSpec => []CheckInv
BY InitCheckInv, CheckInvStep, PTL DEF CheckSpec

\* Every variable keeps its type, those of Releases too.
THEOREM CheckTypeCorrect == CheckSpec => []CheckTypeOK
BY CheckInvariance, PTL DEF CheckInv

\* Update checks write nothing: the requests beside them behave as Releases, and
\* whatever holds of Releases holds of the two together.
THEOREM ChecksOnlyRead == CheckSpec => Spec
<1>1. CheckInit => Init
  BY DEF CheckInit
<1>2. [CheckNext]_checkVars => [Next]_vars
  BY DEF CheckNext, checkVars, Ask, FindKey, ReadReleases, Install, GiveUp
<1> QED  BY <1>1, <1>2, PTL DEF CheckSpec, Spec

\* A device is offered releases in the order of the history, until a purge.
THEOREM OffersForward == CheckSpec => OffersGoForward
<1> DEFINE P(c) == /\ offer'[c] # offer[c] /\ offer[c] # NoOffer
                   /\ offer'[c].insertedIn = offer[c].insertedIn
                   => offer'[c].ordinal > offer[c].ordinal
<1>1. ASSUME CheckInv, [CheckNext]_checkVars, NEW c \in Device,
             offer'[c] # offer[c], offer[c] # NoOffer, offer'[c].insertedIn = offer[c].insertedIn
      PROVE  offer'[c].ordinal > offer[c].ordinal
  <2>1. ReadReleases(c)
    BY <1>1 DEF CheckNext, checkVars, devices, Ask, FindKey, ReadReleases, Install, GiveUp,
               CheckInv, CheckTypeOK
  <2> DEFINE H == Of(packages, Home[c])
             old == offer[c]
  <2>2. PICK p \in Selected(c, H) : offer' = [offer EXCEPT ![c] = p]
    BY <1>1, <2>1 DEF ReadReleases
  <2>3. offer'[c] = p /\ p \in packages /\ p.dep = Home[c] /\ \A q \in H : Before(p, q) => Skips(c, q)
    BY <1>1, <2>2 DEF CheckInv, CheckTypeOK, Selected, Of
  <2>4. live[Home[c]] /\ p.insertedIn = epoch[Home[c]]
    BY <1>1, <2>3 DEF CheckInv, IInv, TableOK
  <2>5. old \in H /\ ~Skips(c, old)
    BY <1>1, <2>3, <2>4 DEF CheckInv, OfferOf, Of
  <2>6. ~(p.ordinal < old.ordinal)
    BY <2>3, <2>5 DEF Before
  <2>7. p.ordinal # old.ordinal
    BY <1>1, <2>3, <2>5 DEF CheckInv, IInv, TableOK, UniqueOrdinals, Of
  <2>8. p.ordinal \in Nat /\ old.ordinal \in Nat
    BY <1>1, <2>3, <2>5 DEF CheckInv, IInv, Types, Package, Of
  <2> QED  BY <2>3, <2>6, <2>7, <2>8
<1>2. CheckInv /\ [CheckNext]_checkVars => \A c \in Device : P(c)
  BY <1>1
<1> QED  BY <1>2, CheckInvariance, PTL DEF CheckSpec, OffersGoForward

\* A rollback of a full release is what every device the release was meant for
\* gets next.
THEOREM RollbacksReach == CheckSpec => RollbackReaches
<1> DEFINE P(p, c) == /\ Home[c] = p.dep /\ epoch[p.dep] = 0 /\ Rollout[p.payload] >= 100
                      /\ \E q \in Of(packages, p.dep) : q.label = p.originalLabel /\ MeantFor(c, q)
                      => Selected(c, Of(packages', p.dep)) = {p}
<1>1. ASSUME IInv, IInv', [Next]_vars, NEW p \in packages', p \notin packages, NEW c \in Device,
             Home[c] = p.dep, epoch[p.dep] = 0, Rollout[p.payload] >= 100,
             NEW q \in Of(packages, p.dep), q.label = p.originalLabel, MeantFor(c, q)
      PROVE  Selected(c, Of(packages', p.dep)) = {p}
  <2>1. PICK r \in Request : InsertPackage(r)
    BY <1>1 DEF Next, vars, Begin, Step, Fail, FindApp, MayView, FindDeployment, MayRead,
           ReadHistory, MayCommit, NextOrdinal, MayPurge, DeletePackages, ClearMetrics,
           MayDelete, DeleteRow, Require, Grant, DeleteApp, tables
  <2>2. CanInsert(r) /\ \E e \in clone[r] : p = NewPackage(r, e)
    BY <1>1, <2>1 DEF InsertPackage
  <2>3. PICK e \in clone[r] : p = NewPackage(r, e)
    BY <2>2
  <2> DEFINE d == Dep(r)
  <2>4. /\ p.dep = d /\ p.originalLabel = e.originalLabel
        /\ p.version = e.version /\ p.payload = e.payload
    BY <2>3 DEF NewPackage
  <2>5. Types /\ d \in Deployment /\ live[d]
    BY <1>1, <2>2, CallType DEF IInv, CanInsert
  <2>6. e.readIn = epoch[d]
    BY <1>1, <2>4, <2>5 DEF IInv, ClonesOK, Types, Clone
  <2>7. PICK s \in packages : Source(s, d, e)
    BY <1>1, <2>5, <2>6 DEF IInv, ClonesOK
  <2>8. s = q
    <3>1. /\ q \in packages /\ q.dep = d /\ s.dep = d /\ q.label = s.label
      BY <1>1, <2>4, <2>7 DEF Of, Source
    <3>2. LabelOf(q.ordinal) = LabelOf(s.ordinal)
      BY <1>1, <2>7, <3>1 DEF IInv, TableOK
    <3>3. q.ordinal = s.ordinal
      BY <3>2 DEF LabelOf
    <3> QED  BY <1>1, <2>7, <3>1, <3>3 DEF IInv, TableOK, UniqueOrdinals
  <2>9. ~Skips(c, p)
    <3>1. p \in Package
      BY <1>1 DEF IInv, Types
    <3>2. Rollout[p.payload] \in Int
      BY <3>1, PayloadAssumption DEF Package
    <3> QED  BY <1>1, <2>4, <2>7, <2>8, <3>2 DEF MeantFor, Skips, Source
  <2>10. \A x \in Of(packages', d) : x # p => x.ordinal < p.ordinal
    <3>1. Appends(d)
      BY <1>1, <2>1, <2>4, InsertAppends
    <3>2. packages' = packages \cup {p}
      <4>1. packages' = packages \cup {NewPackage(r, f) : f \in clone[r]}
        BY <1>1, <2>1 DEF InsertPackage
      <4>2. \A f \in clone[r] : f = e
        BY <1>1, <2>3 DEF IInv, ClonesOK
      <4> QED  BY <2>3, <4>1, <4>2
    <3> QED  BY <1>1, <2>4, <3>1, <3>2 DEF Appends, Of
  <2>11. \A x \in Of(packages', d) : x.ordinal \in Nat
    BY <1>1 DEF IInv, Types, Of, Package
  <2>12. p \in Of(packages', d)
    BY <1>1, <2>4 DEF Of
  <2>13. p \in Selected(c, Of(packages', d))
    BY <2>9, <2>10, <2>11, <2>12 DEF Selected, Before
  <2>14. ASSUME NEW x \in Selected(c, Of(packages', d))  PROVE x = p
    BY <2>9, <2>10, <2>12, <2>14 DEF Selected, Before
  <2> QED  BY <2>4, <2>13, <2>14
<1>2. CheckInv /\ CheckInv' /\ [CheckNext]_checkVars =>
        \A p \in packages' \ packages, c \in Device : P(p, c)
  <2> SUFFICES ASSUME CheckInv, CheckInv', [CheckNext]_checkVars,
                      NEW p \in packages' \ packages, NEW c \in Device
               PROVE  P(p, c)
    OBVIOUS
  <2>1. [Next]_vars
    BY DEF CheckNext, checkVars, Ask, FindKey, ReadReleases, Install, GiveUp
  <2> QED  BY <1>1, <2>1 DEF CheckInv
<1> QED  BY <1>2, CheckInvariance, PTL DEF CheckSpec, RollbackReaches

-----------------------------------------------------------------------------
(* The choice of a check, for any histories, rollouts and classes *)

ClassesAreNumbers == \A c \in Device : \A n \in Nat : Class(c, LabelOf(n)) \in Int

\* The walk of selectPackage and the documented meaning of the fields agree.
LEMMA SkipsOthers ==
  ASSUME IInv, ClassesAreNumbers, NEW c \in Device, NEW p \in packages
  PROVE  Skips(c, p) <=> ~MeantFor(c, p)
<1>1. p \in Package /\ p.label = LabelOf(p.ordinal)
  BY DEF IInv, Types, TableOK
<1>2. p.ordinal \in Nat /\ p.payload \in Payload
  BY <1>1 DEF Package
<1>3. Rollout[p.payload] \in Int
  BY <1>2, PayloadAssumption
<1>4. Class(c, p.label) \in Int
  BY <1>1, <1>2 DEF ClassesAreNumbers
<1> QED  BY <1>3, <1>4 DEF Skips, MeantFor, InRollout

\* It finds the newest one, and one only.
LEMMA SelectedIsBest ==
  ASSUME IInv, ClassesAreNumbers, NEW c \in Device
  PROVE  /\ Selected(c, Of(packages, Home[c])) = Best(c)
         /\ \A p, q \in Best(c) : p = q
<1> DEFINE H == Of(packages, Home[c])
<1>1. \A p \in H : p \in packages /\ p.dep = Home[c] /\ p.ordinal \in Nat
  BY DEF Of, IInv, Types, Package
<1>2. \A p \in H : Skips(c, p) <=> ~MeantFor(c, p)
  BY <1>1, SkipsOthers
<1>3. \A p, q \in H : Before(p, q) <=> ~(q.ordinal <= p.ordinal)
  BY <1>1 DEF Before
<1>4. Selected(c, H) = Best(c)
  BY <1>2, <1>3 DEF Selected, Best
<1>5. \A p, q \in Best(c) : p = q
  <2> SUFFICES ASSUME NEW p \in Best(c), NEW q \in Best(c) PROVE p = q
    OBVIOUS
  <2>1. p \in H /\ q \in H /\ p.ordinal <= q.ordinal /\ q.ordinal <= p.ordinal
    BY DEF Best
  <2>2. p.ordinal = q.ordinal
    BY <1>1, <2>1
  <2> QED  BY <1>1, <2>1, <2>2 DEF IInv, TableOK, UniqueOrdinals
<1> QED  BY <1>4, <1>5

\* A check offers the newest release meant for the device, whatever it runs
\* beside; the classes only have to be numbers.
THEOREM ChecksAnswerBest ==
  ASSUME ClassesAreNumbers
  PROVE  CheckSpec => AnswersBest
<1> DEFINE P(c) ==
      ReadReleases(c) =>
        \/ checking'[c] = "install" /\ Best(c) = {offer'[c]} /\ Hash[offer'[c].payload] # installed[c]
        \/ checking'[c] = "off" /\ \A p \in Best(c) : Hash[p.payload] = installed[c]
<1>1. ASSUME CheckInv, NEW c \in Device, ReadReleases(c) PROVE P(c)
  <2>1. IInv /\ checking \in [Device -> Checking] /\ offer \in [Device -> Package \cup {NoOffer}]
    BY <1>1 DEF CheckInv, CheckTypeOK
  <2>2. Selected(c, Of(packages, Home[c])) = Best(c) /\ \A p, q \in Best(c) : p = q
    BY <2>1, SelectedIsBest
  <2>3. CASE checking' = [checking EXCEPT ![c] = "off"] /\ \A p \in Best(c) : Hash[p.payload] = installed[c]
    BY <2>1, <2>3
  <2>4. ASSUME NEW p \in Best(c), Hash[p.payload] # installed[c],
               checking' = [checking EXCEPT ![c] = "install"], offer' = [offer EXCEPT ![c] = p]
        PROVE  P(c)
    <3>1. checking'[c] = "install" /\ offer'[c] = p
      BY <2>1, <2>4
    <3>2. Best(c) = {p}
      BY <2>2, <2>4
    <3> QED  BY <2>4, <3>1, <3>2
  <2> QED  BY <1>1, <2>2, <2>3, <2>4 DEF ReadReleases, Turn
<1>2. CheckInv /\ [CheckNext]_checkVars => \A c \in Device : P(c)
  BY <1>1
<1> QED  BY <1>2, CheckInvariance, PTL DEF CheckSpec, AnswersBest

\* Beside update checks too the histories are logs.
THEOREM HistoriesStayLogs == CheckSpec => ImplementsLog
BY ChecksOnlyRead, HistoriesAreLogs, PTL

-----------------------------------------------------------------------------
(* Why devices converge, short of the fairness *)

\* The device runs what it should; and what it is about to install is that.
Settled(c) == \A p \in Best(c) : Hash[p.payload] = installed[c]
Current(c) == checking[c] = "install" => Best(c) = {offer[c]}

\* While the histories rest, a device whose pending offer is current (one that is
\* not installing has none) keeps it current, an installation settles it, and once
\* settled it stays so.
RestSettles ==
    [][\A c \in Device : packages' = packages /\ Current(c) =>
         Current(c)' /\ (Settled(c) \/ Install(c) => Settled(c)')]_checkVars

LEMMA RestSettlesStep ==
  ASSUME CheckInv, ClassesAreNumbers, [CheckNext]_checkVars, NEW c \in Device,
         packages' = packages, Current(c)
  PROVE  Current(c)' /\ (Settled(c) \/ Install(c) => Settled(c)')
<1>0. /\ checking \in [Device -> Checking] /\ offer \in [Device -> Package \cup {NoOffer}]
      /\ installed \in [Device -> {Hash[x] : x \in Payload} \cup {NoHash}]
  BY DEF CheckInv, CheckTypeOK
<1>1. Best(c)' = Best(c)
  BY DEF Best, MeantFor, Of
<1>2. CASE checking'[c] = checking[c] /\ offer'[c] = offer[c] /\ installed'[c] = installed[c]
  <2>1. ~Install(c)
    BY <1>0, <1>2 DEF Install, Turn
  <2> QED  BY <1>1, <1>2, <2>1 DEF Current, Settled
<1>3. CASE (Ask(c) \/ FindKey(c) \/ GiveUp(c)) /\ ~Install(c)
  <2>1. checking'[c] # "install" /\ installed' = installed
    BY <1>0, <1>3 DEF Ask, FindKey, GiveUp, Turn
  <2> QED  BY <1>1, <1>3, <2>1 DEF Current, Settled
<1>4. CASE ReadReleases(c)
  <2>1. CASE checking' = [checking EXCEPT ![c] = "off"]
    BY <1>0, <1>1, <1>4, <2>1 DEF ReadReleases, Install, Turn, Current, Settled
  <2>2. ASSUME NEW p \in Selected(c, Of(packages, Home[c])), offer' = [offer EXCEPT ![c] = p]
        PROVE  Current(c)'
    <3>1. Best(c) = {p} /\ offer'[c] = p
      BY <1>0, <2>2, SelectedIsBest DEF CheckInv
    <3> QED  BY <1>1, <3>1 DEF Current
  <2>3. ~Install(c) /\ installed' = installed
    BY <1>4 DEF ReadReleases, Install, Turn
  <2> QED  BY <1>1, <1>4, <2>1, <2>2, <2>3 DEF ReadReleases, Turn, Settled
<1>5. CASE Install(c)
  <2>1. checking'[c] = "off" /\ installed'[c] = Hash[offer[c].payload] /\ Best(c) = {offer[c]}
    BY <1>0, <1>5 DEF Install, Turn, Current
  <2> QED  BY <1>1, <2>1 DEF Current, Settled
<1>6. CASE UNCHANGED devices
  BY <1>2, <1>6 DEF devices
<1>7. ASSUME NEW q \in Device, q # c,
             Ask(q) \/ FindKey(q) \/ ReadReleases(q) \/ Install(q) \/ GiveUp(q)
      PROVE  checking'[c] = checking[c] /\ offer'[c] = offer[c] /\ installed'[c] = installed[c]
  BY <1>0, <1>7 DEF Ask, FindKey, ReadReleases, Install, GiveUp, Turn
<1> QED  BY <1>2, <1>3, <1>4, <1>5, <1>6, <1>7 DEF CheckNext, checkVars, devices

\* Once its history rests (HistoriesRest), the first offer that is made to a device
\* from then on and that it installs settles the device for good.
THEOREM RestedDevicesSettle ==
  ASSUME ClassesAreNumbers
  PROVE  CheckSpec => RestSettles
<1>1. CheckInv /\ [CheckNext]_checkVars =>
        \A c \in Device : packages' = packages /\ Current(c) =>
          Current(c)' /\ (Settled(c) \/ Install(c) => Settled(c)')
  BY RestSettlesStep
<1> QED  BY <1>1, CheckInvariance, PTL DEF CheckSpec, RestSettles
=============================================================================
