------------------------------ MODULE Harvest ------------------------------
(***************************************************************************)
(* The calibration harvest (internal/harvest): for every row of the table  *)
(* it sets the preconditions, applies a fault to the rig, waits on five    *)
(* legs of the stream for the engine's answer, and puts the rig back.  A   *)
(* person may interrupt it at any point.  The rows here are passes over    *)
(* one scenario, the case in which one row can read another's records.     *)
(***************************************************************************)
EXTENDS Records

CONSTANTS
    Authored,      \* the rows a table may hold
    Repeat,        \* --repeat: passes over the row
    MaxFaults      \* bound: commands and subscriptions that fail

\* A row's preconditions are a list.
ASSUME HarvestAssumption ==
    /\ Repeat \in Nat
    /\ \A s \in Authored : s.preconditions \in Seq([set : BOOLEAN, restore : BOOLEAN])

VARIABLES
    scenario,   \* the row of the table
    hpc,        \* where Main, run and Run are
    step,       \* the precondition, leg or restore step at hand
    row,        \* rows begun
    rig,        \* what is applied to the rig: 0 the fault, i the i-th precondition
    stuck,      \* what a restore step failed to undo
    refusal,    \* the refusal timer: "unset", "armed" or "stopped"
    matched,    \* the run of the first fresh set seen, 0 for none
    term,       \* the row's verdict, "" while there is none
    err,        \* the row carries an error
    failed,     \* some row did: the exit code
    results,    \* the rows reported: [verdict, run]
    ctx,        \* "live", or "interrupted"
    faults

legVars == <<refusal, matched>>
rigVars == <<scenario, row, rig, stuck>>
endVars == <<failed, results, ctx>>
harvestVars == <<hpc, step, term, err, faults, legVars, rigVars, endVars>>

-----------------------------------------------------------------------------
\* LoadScenarios.

validApply == {"kubectl", "kubectl-delete", "exec"}
validVerdict == {"approved", "held", "declined", "refused"}

validAction(a) == a.path /\ a.apply \in validApply

\* scenarioStage.validate: a row that could not be restored is not loaded.
validScenario(s) ==
    /\ s.name /\ s.signalRef
    /\ validAction(s.fault) /\ validAction(s.restore)
    /\ s.verdict \in validVerdict
    /\ s.verdict # "refused" => s.contractRef
    /\ s.window > 0
    /\ \A i \in DOMAIN s.preconditions : s.preconditions[i].set /\ s.preconditions[i].restore

N == Len(scenario.preconditions)

\* The legs in the order Settle opens them, and the objects each delivers.
Legs == <<"outcome", "decline", "held", "detection", "set">>

\* isTerminal.
isTerminal(result) == result = "settled"

\* runIDFresh: the run began no earlier than this row.
runIDFresh(r) == born[r] >= now

-----------------------------------------------------------------------------
HarvestInit ==
    /\ scenario \in Authored
    /\ hpc = "main" /\ step = 0 /\ row = 0 /\ rig = {} /\ stuck = {}
    /\ refusal = "unset" /\ matched = 0
    /\ term = "" /\ err = FALSE /\ failed = FALSE
    /\ results = <<>> /\ ctx = "live" /\ faults = 0

At(pc, n) == hpc' = pc /\ step' = n

Fault == faults < MaxFaults /\ faults' = faults + 1

\* A command or a subscription fails, or is killed with its context.
Fails == Fault \/ (ctx = "interrupted" /\ UNCHANGED faults)

\* Main: the table, the kubectl context and the broker, before any row.
Main ==
    /\ hpc = "main"
    /\ \/ /\ validScenario(scenario) /\ ctx = "live"
          /\ At("next", 0) /\ UNCHANGED <<failed, faults>>
       \/ /\ Fails \/ (~validScenario(scenario) /\ UNCHANGED faults)
          /\ At("exit", 0) /\ failed' = TRUE
    /\ UNCHANGED <<legVars, rigVars, term, err, results, ctx, recordVars>>

\* The next row, unless the harvest was interrupted.
NextRow ==
    /\ hpc = "next"
    /\ IF row < Repeat /\ ctx = "live"
       THEN At("set", 1) /\ row' = row + 1
       ELSE At("exit", 0) /\ UNCHANGED row
    /\ term' = "" /\ err' = FALSE /\ matched' = 0 /\ refusal' = "unset"
    /\ UNCHANGED <<scenario, rig, stuck, endVars, faults, recordVars>>

\* Run returns with an error: only the deferred restore is left.
Leaves == err' = TRUE /\ At("restore", 0)

\* A command of the row, which may take effect though it fails.
Apply(item, pc, n) ==
    \/ ctx = "live" /\ rig' = rig \cup {item} /\ At(pc, n) /\ UNCHANGED <<err, faults>>
    \/ Fails /\ rig' \in {rig, rig \cup {item}} /\ Leaves

\* A mutant of SetPrecondition: the restore is deferred after the loop.
SetPreconditionUnguarded ==
    /\ hpc = "set" /\ step <= N
    /\ \/ ctx = "live" /\ rig' = rig \cup {step} /\ At("set", step + 1) /\ UNCHANGED <<err, faults>>
       \/ Fails /\ rig' \in {rig, rig \cup {step}} /\ err' = TRUE /\ At("report", 0)
    /\ UNCHANGED <<legVars, scenario, row, stuck, endVars, term, recordVars>>

SetPrecondition ==
    /\ hpc = "set" /\ step <= N
    /\ Apply(step, "set", step + 1)
    /\ UNCHANGED <<legVars, scenario, row, stuck, endVars, term, recordVars>>

\* The broker's liveness, checked just before the fault.
CheckLive ==
    /\ hpc = "set" /\ step = N + 1
    /\ \/ ctx = "live" /\ At("fault", 0) /\ UNCHANGED <<err, faults>>
       \/ Fails /\ Leaves
    /\ UNCHANGED <<legVars, rigVars, endVars, term, recordVars>>

ApplyFault ==
    /\ hpc = "fault"
    /\ Apply(0, "open", 1)
    /\ UNCHANGED <<legVars, scenario, row, stuck, endVars, term, recordVars>>

-----------------------------------------------------------------------------
\* Settle.

\* A mutant of Close: what was not delivered waits for the next row.
CloseLeaky == open' = {} /\ UNCHANGED queue

\* Settle's context ends, and with it every subscription.
Close == open' = {} /\ queue' = [s \in Subjects |-> <<>>]

elseVars == <<tool, stream, detections, poison, stage, born, now>>

\* The legs in the order they are opened: the sets leg replays the stream, the
\* others deliver what is published from now on.
OpenLeg ==
    /\ hpc = "open"
    /\ \/ /\ ctx = "live"
          /\ open' = open \cup {Legs[step]}
          /\ queue' = IF Legs[step] = "set" THEN [queue EXCEPT !["set"] = stream] ELSE queue
          /\ IF step = 5 THEN At("settle", 0) ELSE At("open", step + 1)
          /\ UNCHANGED <<err, faults>>
       \/ Fails /\ Leaves /\ Close
    /\ UNCHANGED <<legVars, rigVars, endVars, term, elseVars>>

\* A leg delivers its next object, and Settle waits on.
Receive(leg) ==
    /\ hpc = "settle" /\ queue[leg] # <<>>
    /\ queue' = [queue EXCEPT ![leg] = Tail(@)]
    /\ UNCHANGED <<open, hpc, step, rigVars, endVars, term, err, faults, elseVars>>

\* A leg delivers the object that ends the wait.
Settled(leg, verdict) ==
    /\ hpc = "settle" /\ queue[leg] # <<>>
    /\ term' = verdict /\ At("restore", 0) /\ Close
    /\ UNCHANGED <<legVars, rigVars, endVars, err, faults, elseVars>>

TakeOutcome ==
    \/ Receive("outcome") /\ ~isTerminal(Head(queue["outcome"]).what) /\ UNCHANGED legVars
    \/ Settled("outcome", "approved") /\ isTerminal(Head(queue["outcome"]).what)

TakeDecline == Settled("decline", "declined")

TakeHeld == Settled("held", "held")

\* The first detection arms the refusal timer; poison is skipped.
TakeDetection ==
    /\ Receive("detection")
    /\ refusal' = IF Head(queue["detection"]).what # "poison" /\ refusal = "unset"
                  THEN "armed" ELSE refusal
    /\ UNCHANGED matched

\* A mutant of TakeSet: the oldest set of the stream is the row's.
TakeSetAny ==
    /\ Receive("set")
    /\ refusal' = IF refusal = "armed" THEN "stopped" ELSE refusal
    /\ matched' = IF matched = 0 THEN Head(queue["set"]).run ELSE matched

\* A fresh set stops the timer if it is armed; the first one is the row's.
TakeSet ==
    /\ Receive("set")
    /\ LET r == Head(queue["set"]).run
       IN  IF runIDFresh(r)
           THEN /\ refusal' = IF refusal = "armed" THEN "stopped" ELSE refusal
                /\ matched' = IF matched = 0 THEN r ELSE matched
           ELSE UNCHANGED legVars

\* The grace runs out with no set to stop it.
RefusalFires ==
    /\ hpc = "settle" /\ refusal = "armed"
    /\ term' = "refused" /\ At("restore", 0) /\ Close
    /\ UNCHANGED <<legVars, rigVars, endVars, err, faults, elseVars>>

\* A mutant of WindowCloses: only an interrupt ends the wait.
WindowStaysOpen ==
    /\ hpc = "settle" /\ ctx = "interrupted"
    /\ Leaves /\ Close
    /\ UNCHANGED <<legVars, rigVars, endVars, term, faults, elseVars>>

\* The settle window elapses, or the context it derives from is cancelled.
WindowCloses ==
    /\ hpc = "settle"
    /\ Leaves /\ Close
    /\ UNCHANGED <<legVars, rigVars, endVars, term, faults, elseVars>>

Settle == \/ TakeOutcome \/ TakeDecline \/ TakeHeld \/ TakeDetection \/ TakeSet
          \/ RefusalFires \/ WindowCloses

-----------------------------------------------------------------------------
\* restore undoes the fault, then the preconditions, last to first.
RestoreItem(n) == IF n = 0 THEN 0 ELSE N + 1 - n

\* Detached from the row's context, each step runs whatever became of the one
\* before, until the restore's own timeout fails all that are left.
RestoreStep ==
    /\ hpc = "restore"
    /\ \/ /\ rig' = rig \ {RestoreItem(step)} /\ stuck' = stuck \ {RestoreItem(step)}
          /\ UNCHANGED <<err, faults>>
          /\ IF step = N THEN At("report", 0) ELSE At("restore", step + 1)
       \/ /\ Fault /\ err' = TRUE /\ UNCHANGED rig
          /\ stuck' = stuck \cup {RestoreItem(step)}
          /\ IF step = N THEN At("report", 0) ELSE At("restore", step + 1)
       \/ /\ Fault /\ err' = TRUE /\ UNCHANGED rig
          /\ stuck' = stuck \cup {RestoreItem(n) : n \in step..N}
          /\ At("report", 0)
    /\ UNCHANGED <<legVars, scenario, row, endVars, term, recordVars>>

\* The row is printed; a result that cannot be written ends the harvest.
Report ==
    /\ hpc = "report"
    /\ \/ /\ results' = Append(results,
                [verdict |-> term, run |-> IF term \in {"", "refused"} THEN 0 ELSE matched])
          /\ At(IF row < Repeat THEN "cool" ELSE "next", 0)
          /\ failed' = (failed \/ err) /\ UNCHANGED faults
       \/ Fault /\ At("exit", 0) /\ failed' = TRUE /\ UNCHANGED results
    /\ UNCHANGED <<legVars, rigVars, term, err, ctx, recordVars>>

\* The cooldown outlives runIDGrace; an interrupt cuts it short.
Cool ==
    /\ hpc = "cool"
    /\ IF ctx = "live" THEN At("next", 0) /\ now' = now + 1
                       ELSE At("exit", 0) /\ UNCHANGED now
    /\ UNCHANGED <<legVars, rigVars, endVars, term, err, faults, tool, stream, queue, open,
                   detections, poison, stage, born>>

Interrupt ==
    /\ hpc # "exit" /\ ctx = "live"
    /\ ctx' = "interrupted"
    /\ UNCHANGED <<hpc, step, legVars, rigVars, term, err, failed, results, faults, recordVars>>

HarvestStep ==
    \/ Main \/ NextRow \/ SetPrecondition \/ CheckLive \/ ApplyFault \/ OpenLeg \/ Settle
    \/ RestoreStep \/ Report \/ Cool
=============================================================================
