---------------------------- MODULE UpdateCheck ----------------------------
(***************************************************************************)
(* The update check, GET /updateCheck, over the deployments of Releases:   *)
(* devices ask while requests roll back, purge and delete.                  *)
(*                                                                         *)
(* UpdateCheck reads the deployment by its key in one statement and the     *)
(* history in another; the choice among the releases reads nothing more     *)
(* and is one step with the second.  A device installs what it is offered   *)
(* and sends the hash of what it runs with the next check.                  *)
(***************************************************************************)
EXTENDS Releases, Integers

CONSTANTS
    Device,
    Anonymous,         \* devices that send no clientUniqueId
    Home,              \* Home[c]: the deployment whose key device c has
    Fits,              \* Fits[c]: the app versions of releases that a semver
                       \* constraint check finds to match the one of device c
    Disabled,          \* payloads that are disabled
    Rollout,           \* Rollout[x]: the rollout of payload x, 100 if it has none
    Hash,              \* Hash[x]: its package hash
    Class(_, _),       \* Class(c, l): SHA-1 of device and label, modulo 100
    NoHash, NoOffer

ASSUME DeviceAssumption ==
    /\ Anonymous \subseteq Device
    /\ Home \in [Device -> Deployment]
    /\ Fits \in [Device -> SUBSET Version]
ASSUME PayloadAssumption ==
    Disabled \subseteq Payload /\ Rollout \in [Payload -> Int]
ASSUME ClassAssumption ==
    \A c \in Device : \A p \in UNION Seeds : Class(c, p.label) \in 0..99
ASSUME NoOfferAssumption == NoOffer \notin Package

VARIABLES
    checking,    \* where the check of a device is
    offer,       \* the last release it was offered
    installed    \* the hash of what it runs

devices == <<checking, offer, installed>>
checkVars == <<vars, devices>>

Checking == {"off", "findKey", "readReleases", "install"}

CheckInit ==
    /\ Init
    /\ checking = [c \in Device |-> "off"]
    /\ offer = [c \in Device |-> NoOffer]
    /\ installed = [c \in Device |-> NoHash]

Turn(c, here, there) == checking[c] = here /\ checking' = [checking EXCEPT ![c] = there]

-----------------------------------------------------------------------------
(* selectPackage goes through the history from the newest release on. *)

InRolloutLoosely(class, rollout) == class <= rollout
InRollout(class, rollout) == class + 1 <= rollout

SkipsUpperHalf(c, p) ==
    \/ p.payload \in Disabled \/ p.version \notin Fits[c]
    \/ Rollout[p.payload] < 100 /\ (c \in Anonymous \/ InRollout(Class(c, p.label), Rollout[p.payload]))
Skips(c, p) ==
    \/ p.payload \in Disabled \/ p.version \notin Fits[c]
    \/ Rollout[p.payload] < 100 /\ (c \in Anonymous \/ ~InRollout(Class(c, p.label), Rollout[p.payload]))

Before(p, q) == p.ordinal < q.ordinal
AnyOrder(c, H) == {p \in H : ~Skips(c, p)}
OldestFirst(c, H) == {p \in H : ~Skips(c, p) /\ \A q \in H : Before(q, p) => Skips(c, q)}
\* The release it returns, as a set of at most one.
Selected(c, H) == {p \in H : ~Skips(c, p) /\ \A q \in H : Before(p, q) => Skips(c, q)}

-----------------------------------------------------------------------------
Ask(c) == Turn(c, "off", "findKey") /\ UNCHANGED <<vars, offer, installed>>

FindKey(c) ==
    /\ Turn(c, "findKey", IF live[Home[c]] THEN "readReleases" ELSE "off")
    /\ UNCHANGED <<vars, offer, installed>>

ReadReleases(c) ==
    /\ UNCHANGED <<vars, installed>>
    /\ LET S == Selected(c, Of(packages, Home[c]))
       IN  \/ /\ \A p \in S : Hash[p.payload] = installed[c]
              /\ Turn(c, "readReleases", "off")
              /\ UNCHANGED offer
           \/ \E p \in S :
                /\ Hash[p.payload] # installed[c]
                /\ Turn(c, "readReleases", "install")
                /\ offer' = [offer EXCEPT ![c] = p]

Install(c) ==
    /\ Turn(c, "install", "off")
    /\ installed' = [installed EXCEPT ![c] = Hash[offer[c].payload]]
    /\ UNCHANGED <<vars, offer>>

\* A statement or the download fails, or the device loses its connection.
GiveUp(c) ==
    /\ \E here \in Checking \ {"off"} : Turn(c, here, "off")
    /\ UNCHANGED <<vars, offer, installed>>

CheckNext ==
    \/ Next /\ UNCHANGED devices
    \/ \E c \in Device : Ask(c) \/ FindKey(c) \/ ReadReleases(c) \/ Install(c) \/ GiveUp(c)

\* A device asks again and again, and a check that is repeated for ever gets
\* through for once; nothing is assumed of the requests.
Fairness ==
    \A c \in Device :
        /\ WF_checkVars(Ask(c))
        /\ SF_checkVars(FindKey(c)) /\ SF_checkVars(ReadReleases(c)) /\ SF_checkVars(Install(c))

CheckSpec == CheckInit /\ [][CheckNext]_checkVars /\ Fairness

-----------------------------------------------------------------------------
(* Properties *)

CheckTypeOK ==
    /\ Types
    /\ checking \in [Device -> Checking]
    /\ offer \in [Device -> Package \cup {NoOffer}]
    /\ installed \in [Device -> {Hash[x] : x \in Payload} \cup {NoHash}]
    /\ \A c \in Device : checking[c] = "install" => offer[c] # NoOffer

\* For the device, by the documented meaning of a release's fields.
MeantFor(c, p) ==
    /\ p.payload \notin Disabled /\ p.version \in Fits[c]
    /\ \/ Rollout[p.payload] >= 100
       \/ c \notin Anonymous /\ Class(c, p.label) < Rollout[p.payload]
Best(c) == {p \in Of(packages, Home[c]) :
              MeantFor(c, p) /\ \A q \in Of(packages, Home[c]) : MeantFor(c, q) => q.ordinal <= p.ordinal}

\* The walk from the newest release on stops where it should: a check offers the
\* newest release meant for the device, and nothing only if there is none or the
\* device runs the like of it.
AnswersBest ==
    [][\A c \in Device : ReadReleases(c) =>
         \/ checking'[c] = "install" /\ Best(c) = {offer'[c]} /\ Hash[offer'[c].payload] # installed[c]
         \/ checking'[c] = "off" /\ \A p \in Best(c) : Hash[p.payload] = installed[c]]_checkVars

\* Rollbacks that race with each other, with checks and with deletions never
\* send a device back: until somebody purges the history, what it is offered
\* was released after everything it was offered before.
OffersGoForward ==
    [][\A c \in Device :
         /\ offer'[c] # offer[c] /\ offer[c] # NoOffer
         /\ offer'[c].insertedIn = offer[c].insertedIn
         => offer'[c].ordinal > offer[c].ordinal]_checkVars

\* A rollback reaches everybody its target was meant for: in a history that was
\* not purged, the release it commits is the one their next check gets, whatever
\* was released or rolled back since it read the history.  Only a partial
\* rollout is drawn again, by the label of the new release, and may leave a
\* device on the release that was rolled back.
RollbackReaches ==
    [][\A p \in packages' \ packages, c \in Device :
         /\ Home[c] = p.dep /\ epoch[p.dep] = 0 /\ Rollout[p.payload] >= 100
         /\ \E q \in Of(packages, p.dep) : q.label = p.originalLabel /\ MeantFor(c, q)
         => Selected(c, Of(packages', p.dep)) = {p}]_checkVars

\* Whatever happens meanwhile, and whatever checks are lost, a device ends up
\* with the newest release that is meant for it, as long as there is one.
Converges ==
    \A c \in Device : <>[](\A p \in Best(c) : Hash[p.payload] = installed[c])
=============================================================================
