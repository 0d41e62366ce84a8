------------------------------- MODULE Actuate -------------------------------
(***************************************************************************)
(* The authored profile thump and hiss run from: what calipers validate    *)
(* (validate.Profile) accepts of it, and what the actuator binds at        *)
(* startup.  Pure operators.                                               *)
(*                                                                         *)
(* A step is [verb, has, flag, variant], has being the target fields it    *)
(* fills in.  A contract is [name, classes, tiers, blast, reversal,        *)
(* forward, reverse, metric, window, reduction, preconditions]; a policy is *)
(* [version, floors, maxBand, autoBand], floors, maxBand and autoBand      *)
(* being partial functions of the tier; a floor is in tenths.  A file is   *)
(* [is, has]: what it holds when it is there and parses.                   *)
(***************************************************************************)
EXTENDS Integers, Sequences

canonicalFailureClasses ==
    {"dependency_saturation", "traffic_shift", "resource_exhaustion",
     "redundancy_degraded", "service_failure", "unknown"}
canonicalBlastTiers == {"low", "med", "high"}
canonicalVerbs == {"scale", "restart", "flagVariant", "exec"}
canonicalBands == {"observe", "act-reversible", "act-disruptive"}

Loaded(file) == file.is = "loaded"

-----------------------------------------------------------------------------
\* The actuator's binding.

\* The targets each compiled verb needs.
Needs ==
    [exec               |-> {"namespace", "selector", "command"},
     scale              |-> {"namespace", "deployment", "replicas"},
     restart            |-> {"namespace", "deployment"},
     flagVariant        |-> {"namespace", "configMap", "dataKey", "flag", "variant"},
     maintenanceRelease |-> {"path", "flag", "variant"}]

mechanismFor(step, forgeWired) ==
    /\ step.verb \in DOMAIN Needs
    /\ step.verb = "maintenanceRelease" => forgeWired
    /\ Needs[step.verb] \subseteq step.has

opFor(steps, forgeWired) ==
    /\ steps # <<>>
    /\ \A i \in DOMAIN steps : mechanismFor(steps[i], forgeWired)

\* Mutant: the undo is not looked at until it is needed.
bindForward(cat, forgeWired) == \A c \in cat : opFor(c.forward, forgeWired)

\* bind: all of the catalog, or nothing.
bind(cat, forgeWired) ==
    \A c \in cat : opFor(c.forward, forgeWired) /\ opFor(c.reverse, forgeWired)

\* resultOf: a sequence's result is its last step's.
resultOf(steps) ==
    IF steps[Len(steps)].verb = "maintenanceRelease" THEN "proposed" ELSE "applied"

releaseKey(ref, reverse) == [ref |-> ref, revert |-> reverse]

-----------------------------------------------------------------------------
\* calipers validate.

\* contract.Load: no precondition is registered, so none may be named.
LoadCatalog(file) == Loaded(file) /\ \A c \in file.has : c.preconditions = {}

validateActionContract(c) ==
    /\ c.name # <<>>
    /\ c.classes # {} /\ c.classes \subseteq canonicalFailureClasses
    /\ c.tiers # {}
    /\ c.blast \in canonicalBlastTiers
    /\ c.reversal
    /\ \A steps \in {c.forward, c.reverse} :
         steps # <<>> /\ \A i \in DOMAIN steps : steps[i].verb \in canonicalVerbs
    /\ c.metric /\ c.window > 0
    /\ c.reduction \in 0..10

\* A class list that loads describes its classes, and every one in use.
validateClasses(file, cat) ==
    file.is # "absent" =>
        /\ Loaded(file)
        /\ \A d \in file.has : d.description
        /\ \A c \in cat : c.classes \subseteq {d.class : d \in file.has}

\* A band map that names any tier names every tier in use.
bandsCover(bands, tier) == DOMAIN bands # {} => tier \in DOMAIN bands /\ bands[tier] \in canonicalBands

\* Mutant: a floor of zero is a floor.
floorAuthored(pol, tier, class) ==
    /\ tier \in DOMAIN pol.floors
    /\ class \in DOMAIN pol.floors[tier]
    /\ pol.floors[tier][class] \in 0..10

floorCovers(pol, tier, class) ==
    /\ tier \in DOMAIN pol.floors
    /\ class \in DOMAIN pol.floors[tier]
    /\ pol.floors[tier][class] \in 1..10

validatePolicy(file, cat) ==
    LET pol == file.has IN
    /\ Loaded(file)
    /\ pol.version # ""
    /\ \A c \in cat : \A tier \in c.tiers :
         /\ bandsCover(pol.maxBand, tier)
         /\ bandsCover(pol.autoBand, tier)
         /\ \A class \in c.classes : floorCovers(pol, tier, class)

\* LoadEvidenceConfig keys the queries by name.
validateEvidence(file) ==
    file.is # "absent" => Loaded(file) /\ \A q \in file.has : q.name /\ q.query

\* LoadWatch itself refuses an empty list; an objective is in tenths.
validateWatch(file) ==
    file.is # "absent" =>
        /\ Loaded(file) /\ file.has # {}
        /\ \A slo \in file.has : slo.named /\ slo.objective \in 1..10

\* Profile.  The cross checks run on a catalog that loaded.
Profile(p) ==
    LET cat == IF LoadCatalog(p.catalog) THEN p.catalog.has ELSE {}
    IN  /\ LoadCatalog(p.catalog)
        /\ \A c \in cat : validateActionContract(c)
        /\ validateClasses(p.classes, cat)
        /\ validatePolicy(p.policy, cat)
        /\ validateEvidence(p.evidence)
        /\ validateWatch(p.watch)

\* validate.All and Main: the exit status of a run over several profiles.
All(profiles) == \A p \in profiles : Profile(p)
=============================================================================
