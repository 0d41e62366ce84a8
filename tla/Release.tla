------------------------------ MODULE Release ------------------------------
(***************************************************************************)
(* From an authored profile to a change: calipers validate rules on the    *)
(* profile, thump binds its catalog at startup, and the runner carries     *)
(* grants and undos out, step by step, against the cluster and the forge.  *)
(*                                                                         *)
(* The decisions handler runs forward actions; a watcher polls a release   *)
(* for acceptance or runs an undo.  Both are inside Runner.Run or the      *)
(* GitHub client at once.                                                  *)
(***************************************************************************)
EXTENDS Forge, Actuate, Authority

CONSTANTS
    Profiles,      \* the profiles that may be authored
    ForgeWired,    \* FORGE_REPO and FORGE_TOKEN are set
    Handler,       \* the worker that handles decisions; the others watch
    MaxRuns,       \* bound: forward runs and watchers' calls
    MaxEdits       \* bound: what people change by themselves

AuthoredStep == [verb : STRING, has : SUBSET STRING, flag : STRING, variant : STRING]

\* Key, Asked and Variant speak of the contracts that may be authored: every
\* step's variant is one, and a release has the key its contract gives it.
ASSUME ReleaseAssumption ==
    /\ Handler \in Worker
    /\ {MaxRuns, MaxEdits} \subseteq Nat
    /\ \A p \in Profiles : \A c \in p.catalog.has : \A reverse \in BOOLEAN :
         LET steps == IF reverse THEN c.reverse ELSE c.forward
         IN  /\ steps \in Seq(AuthoredStep)
             /\ \A i \in DOMAIN steps :
                  /\ steps[i].flag \in Flag => steps[i].variant \in Variant
                  /\ steps[i].verb = "maintenanceRelease" =>
                       /\ releaseKey(c.name, reverse) \in Key
                       /\ Asked[releaseKey(c.name, reverse)]
                            = [flag |-> steps[i].flag, variant |-> steps[i].variant]

VARIABLES
    profile,    \* the authored profile
    verdict,    \* calipers validate's exit status on it
    up,         \* thump started on it
    run,        \* worker -> the action it is carrying out
    owed,       \* what is left for a watcher to do
    flags,      \* the flag document in the cluster's ConfigMap
    runs, edits

releaseVars == <<profile, verdict, up, run, owed, flags, runs, edits>>
vars == <<forgeVars, releaseVars>>

NoRun == [ref |-> <<>>, reverse |-> FALSE, todo |-> <<>>, steps |-> <<>>,
          read |-> NoDoc, doc |-> NoDoc, cutting |-> FALSE]

Init ==
    /\ ForgeInit
    /\ profile \in Profiles
    /\ verdict = "none"
    /\ up = FALSE
    /\ run = [w \in Worker |-> NoRun]
    /\ owed = {}
    /\ flags \in Doc
    /\ runs = 0 /\ edits = 0

-----------------------------------------------------------------------------
\* calipers validate, and thump's startup.

Validate ==
    /\ verdict = "none"
    /\ verdict' = IF All({profile}) THEN "ok" ELSE "failed"
    /\ UNCHANGED <<forgeVars, profile, up, run, owed, flags, runs, edits>>

\* A live executor that cannot carry out its own catalog refuses to start.
Boot ==
    /\ ~up
    /\ LoadCatalog(profile.catalog)
    /\ bind(profile.catalog.has, ForgeWired)
    /\ up' = TRUE
    /\ UNCHANGED <<forgeVars, profile, verdict, run, owed, flags, runs, edits>>

-----------------------------------------------------------------------------
\* Runner.Run.

Idle(w) == run[w] = NoRun /\ job[w].at = "idle"

Begins(w, c, reverse) ==
    LET steps == IF reverse THEN c.reverse ELSE c.forward
    IN  run' = [run EXCEPT ![w] = [ref |-> c.name, reverse |-> reverse, todo |-> steps,
                                   steps |-> steps, read |-> NoDoc, doc |-> NoDoc,
                                   cutting |-> FALSE]]

\* A grant, or its redelivery.
RunForward ==
    /\ up /\ Idle(Handler) /\ runs < MaxRuns
    /\ \E c \in profile.catalog.has : Begins(Handler, c, FALSE)
    /\ runs' = runs + 1
    /\ UNCHANGED <<forgeVars, profile, verdict, up, owed, flags, edits>>

\* A window closed on an applied or accepted action.
RunUndo(w) ==
    /\ w # Handler /\ Idle(w) /\ runs < MaxRuns
    /\ \E c \in profile.catalog.has :
         /\ [ref |-> c.name, kind |-> "settle"] \in owed
         /\ Begins(w, c, TRUE)
         /\ owed' = owed \ {[ref |-> c.name, kind |-> "settle"]}
    /\ runs' = runs + 1
    /\ UNCHANGED <<forgeVars, profile, verdict, up, flags, edits>>

\* What a run that returned leaves to the watchers: an undo's result is only
\* reported.
Leaves(r, result) ==
    IF r.reverse THEN {}
    ELSE CASE result = "applied" -> {[ref |-> r.ref, kind |-> "settle"]}
           [] result = "proposed" -> {[ref |-> r.ref, kind |-> "poll"]}
           [] OTHER -> {}

Returns(w, result) ==
    /\ run' = [run EXCEPT ![w] = NoRun]
    /\ owed' = owed \cup Leaves(run[w], result)

\* The step at hand is done: seqOp's next one, or resultOf.
Stepped(w) ==
    IF Len(run[w].todo) = 1
    THEN Returns(w, resultOf(run[w].steps))
    ELSE /\ run' = [run EXCEPT ![w] = [@ EXCEPT !.todo = Tail(run[w].todo),
                                               !.read = NoDoc, !.doc = NoDoc,
                                               !.cutting = FALSE]]
         /\ UNCHANGED owed

AtVerb(w, verbs) == run[w].todo # <<>> /\ Head(run[w].todo).verb \in verbs /\ job[w].at = "idle"

\* execOp, scaleOp, restartOp: one call to the API server.  A call that
\* errs, or that the deadline cuts off, ends the run where it stands.
Mutate(w) ==
    /\ AtVerb(w, {"exec", "scale", "restart"})
    /\ \/ Stepped(w) /\ UNCHANGED faults
       \/ Returns(w, "failure") /\ Fault
    /\ UNCHANGED <<log, branch, pull, job, profile, verdict, up, flags, runs, edits>>

\* Mutant: a flag the document does not define is defined.
ReadFlagsDefining(w) ==
    /\ AtVerb(w, {"flagVariant"}) /\ run[w].doc = NoDoc
    /\ LET s == Head(run[w].todo)
       IN  run' = [run EXCEPT ![w] = [@ EXCEPT !.read = flags,
                     !.doc = [f \in DOMAIN flags \cup {s.flag} |->
                                IF f = s.flag THEN s.variant ELSE flags[f]]]]
    /\ UNCHANGED <<log, branch, pull, job, faults, profile, verdict, up, owed, flags, runs, edits>>

\* flagVariantOp: the read, a document with no such flag an error, ...
ReadFlags(w) ==
    /\ AtVerb(w, {"flagVariant"}) /\ run[w].doc = NoDoc
    /\ LET s == Head(run[w].todo)
       IN  \/ /\ s.flag \in Flag
              /\ run' = [run EXCEPT ![w] = [@ EXCEPT !.read = flags,
                            !.doc = setDefaultVariant(flags, s.flag, s.variant)]]
              /\ UNCHANGED <<owed, faults>>
           \/ s.flag \notin Flag /\ Returns(w, "failure") /\ UNCHANGED faults
           \/ Returns(w, "failure") /\ Fault
    /\ UNCHANGED <<log, branch, pull, job, profile, verdict, up, flags, runs, edits>>

\* ... and the merge patch of the whole document.
PatchFlags(w) ==
    /\ AtVerb(w, {"flagVariant"}) /\ run[w].doc # NoDoc
    /\ \/ flags' = run[w].doc /\ Stepped(w) /\ UNCHANGED faults
       \/ flags' \in {flags, run[w].doc} /\ Returns(w, "failure") /\ Fault
    /\ UNCHANGED <<log, branch, pull, job, profile, verdict, up, runs, edits>>

\* maintenanceReleaseOp enters the forge, and its result is the step's.
EnterForge(w) ==
    /\ AtVerb(w, {"maintenanceRelease"}) /\ ~run[w].cutting
    /\ Goes(w, Start("read", releaseKey(run[w].ref, run[w].reverse)))
    /\ run' = [run EXCEPT ![w] = [@ EXCEPT !.cutting = TRUE]]
    /\ UNCHANGED <<log, branch, pull, faults, profile, verdict, up, owed, flags, runs, edits>>

LeaveForge(w) ==
    /\ AtVerb(w, {"maintenanceRelease"}) /\ run[w].cutting
    /\ IF job[w].result = "proposed" THEN Stepped(w) ELSE Returns(w, "failure")
    /\ Goes(w, NoJob("none"))
    /\ UNCHANGED <<log, branch, pull, faults, profile, verdict, up, flags, runs, edits>>

\* AcceptanceWatcher.Poll, of the forward release's key.
Poll(w) ==
    /\ w # Handler /\ Idle(w) /\ job[w].result = "none" /\ runs < MaxRuns
    /\ \E o \in owed :
         /\ o.kind = "poll"
         /\ Goes(w, Start("all", releaseKey(o.ref, FALSE)))
         /\ owed' = owed \ {o}
    /\ runs' = runs + 1
    /\ UNCHANGED <<log, branch, pull, faults, profile, verdict, up, run, flags, edits>>

\* watchAndAccept: an accepted release is settled like any action.
Polled(w) ==
    /\ Idle(w) /\ job[w].result # "none"
    /\ owed' = owed \cup IF job[w].result = "accepted"
                         THEN {[ref |-> job[w].key.ref, kind |-> "settle"]} ELSE {}
    /\ Goes(w, NoJob("none"))
    /\ UNCHANGED <<log, branch, pull, faults, profile, verdict, up, run, flags, runs, edits>>

\* A crash takes every worker's locals and every watcher with it.
Crash ==
    /\ up /\ Fault
    /\ up' = FALSE
    /\ run' = [w \in Worker |-> NoRun]
    /\ job' = [w \in Worker |-> NoJob("none")]
    /\ owed' = {}
    /\ UNCHANGED <<log, branch, pull, profile, verdict, flags, runs, edits>>

-----------------------------------------------------------------------------
\* People, in the repository and in the cluster.
People ==
    /\ \/ \E k \in Key : Merge(k) /\ UNCHANGED edits
       \/ \E k \in Key : (Reject(k) \/ Prune(k)) /\ edits < MaxEdits /\ edits' = edits + 1
       \/ EditBase /\ edits < MaxEdits /\ edits' = edits + 1
    /\ UNCHANGED <<profile, verdict, up, run, owed, flags, runs>>

EditFlags ==
    /\ edits < MaxEdits /\ edits' = edits + 1
    /\ flags' \in Doc \ {flags}
    /\ UNCHANGED <<forgeVars, profile, verdict, up, run, owed, runs>>

WorkerStep(w) ==
    \/ RunUndo(w) \/ Mutate(w) \/ ReadFlags(w) \/ PatchFlags(w) \/ EnterForge(w)
    \/ LeaveForge(w) \/ Poll(w) \/ Polled(w)
    \/ ForgeCall(w) /\ UNCHANGED releaseVars

Next ==
    \/ Validate \/ Boot \/ RunForward \/ Crash \/ People \/ EditFlags
    \/ \E w \in Worker : WorkerStep(w)

Spec == Init /\ [][Next]_vars

-----------------------------------------------------------------------------
\* Type correctness of the repository, the workers and the profile's state.
TypeOK ==
    /\ verdict \in {"none", "ok", "failed"} /\ up \in BOOLEAN
    /\ flags \in Doc
    /\ ForgeTypeOK

\* A release a watcher withdrew stays withdrawn: once Withdraw has answered
\* that nobody accepted the pull request it found, that pull request is not
\* open, so no reviewer can still merge what thump reports as never applied.
\* (github.go Withdraw; acceptance.go Poll)
WithdrawnStaysShut ==
    \A w \in Worker :
        job[w].result = "unaccepted" => pull[job[w].key] # [n |-> job[w].n, state |-> "open"]

\* Binding at startup is enough: no run that starts, forward or undo, ever
\* meets a step the actuator has no mechanism for.  (binding.go bind;
\* runner.go Run)
BoundRunsDispatch ==
    \A w \in Worker :
        run[w].todo # <<>> => mechanismFor(Head(run[w].todo), ForgeWired)

\* A flag flip rewrites the whole document and changes one flag of it, unless
\* someone wrote the ConfigMap between its read and its patch.  (runner.go
\* flagVariantOp.do, setDefaultVariant)
FlipTouchesOneFlag ==
    [][\A w \in Worker :
         PatchFlags(w) /\ run[w].read = flags =>
            \A f \in Flag : f # Head(run[w].todo).flag => flags'[f] = flags[f]]_vars

\* The slice of an authored policy one tier reads (authority.go Evaluate).
PolicyOf(pol, tier) ==
    LET of(m) == IF tier \in DOMAIN m THEN m[tier] ELSE ""
        floors == IF tier \in DOMAIN pol.floors THEN pol.floors[tier] ELSE [c \in {} |-> 0]
    IN  [gate |-> pol.gate, maxBand |-> of(pol.maxBand), autoBand |-> of(pol.autoBand),
         requireReversal |-> FALSE,
         floors |-> [c \in canonicalFailureClasses |->
                        IF c \in DOMAIN floors THEN floors[c] ELSE 0]]

\* A candidate for contract c that nothing grounds.
Ungrounded(c, class) ==
    [phase |-> "proposed", class |-> class, recommended |-> "a", passed |-> TRUE,
     proposals |-> <<[id |-> "a", ref |-> c.name, computed |-> 0, confidence |-> 0,
                      blast |-> c.blast, reversal |-> "automatic",
                      band |-> "act-reversible"]>>]

\* A profile that calipers validate passes cannot wave an ungrounded action
\* through: whatever its gate and its bands, hiss approves no candidate of
\* its catalog that carries no confidence at all.  (validate.go Profile;
\* authority.go Evaluate)
ValidatedFloorsHold ==
    verdict = "ok" =>
        \A c \in profile.catalog.has : \A tier \in c.tiers, class \in c.classes :
            EvaluateSet(Ungrounded(c, class), PolicyOf(profile.policy.has, tier), FALSE, 10).verdict
              # "approved"

\* Refuted: a merged release "cannot be retracted, so Withdraw makes no
\* mutating call against one".  (github.go Withdraw)
MergedUntouched ==
    \A w \in Worker :
        job[w].at \in {"close", "delete"} => pull[job[w].key] # [n |-> job[w].n, state |-> "merged"]
=============================================================================
