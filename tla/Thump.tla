------------------------------- MODULE Thump -------------------------------
(***************************************************************************)
(* thump, the actuation beat: the decisions handler (Transport.handle),    *)
(* the gated executor and its kill switch, and the watchers each live      *)
(* action spawns (watchAndAccept, watchAndSettle).                         *)
(*                                                                         *)
(* One decision is handled at a time; the switch's reload loop and any     *)
(* number of watchers interleave with it.  thump.orders and thump.held     *)
(* have no consumer, so a publish there only succeeds or fails.            *)
(***************************************************************************)
EXTENDS Bus, FiniteSets

CONSTANTS
    Contract,          \* action contracts
    ContractOf,        \* the contract of the candidate a run recommends
    Catalogued,        \* contracts in thump's catalog
    Releases,          \* contracts whose action opens a release for review
    RestoreOnSuccess,  \* contracts authored to be undone after a met window
    HoldOnMiss,        \* contracts authored not to be undone after a miss
    LiveExecutor,      \* THUMP_EXECUTOR is "live"
    HasReversal,       \* PROM_URL is set, so a ReversalWatcher is wired
    MaxDecisions       \* bound: decisions ever stored on thump.decisions

ASSUME ThumpAssumption ==
    /\ ContractOf \in [Run -> Contract]
    /\ Catalogued \subseteq Contract
    /\ Releases \subseteq Contract
    /\ RestoreOnSuccess \subseteq Contract
    /\ HoldOnMiss \subseteq Contract
    /\ LiveExecutor \in BOOLEAN
    /\ HasReversal \in BOOLEAN
    /\ MaxDecisions \in Nat

VARIABLES
    acting,       \* the decisions consumer's current job
    armed,        \* FileSwitch.armed
    switchFile,   \* the kill switch's file
    lastRead,     \* what the last Reload of this process read (history)
    late,         \* forward actions begun since lastRead left "armed" (history)
    execs         \* every forward action begun, with its watcher's progress

thumpVars == <<acting, armed, switchFile, lastRead, late, execs>>

\* The handler's job.  result is the outcome in hand, or the verdict of a
\* decision that is not an approval.
NoOrder == [msg |-> 0, result |-> "none", step |-> "idle"]

Order == [msg : Nat, result : Verdict \cup Result \cup {"none"},
          step : {"idle", "run", "order", "outcome", "held", "decline"}]

\* accepting and watching: a watcher sleeps out the success window.  undoing:
\* the undo is decided and not yet run.  failed: the runner returned an error,
\* and nothing watches.  unwatched: no ReversalWatcher is wired.
Live == {"accepting", "watching", "undoing"}

Exec == [fp : Fingerprint, run : Run,
         phase : Live \cup {"failed", "unwatched", "settled", "withdrawn",
                            "undone", "stuck", "panicked", "orphaned"},
         window : {"unread", "met", "missed"}]

SwitchFile == {"armed", "disarmed", "unreadable"}

ThumpTypeOK ==
    /\ acting \in Order
    /\ armed \in BOOLEAN
    /\ switchFile \in SwitchFile
    /\ lastRead \in SwitchFile \cup {"never"}
    /\ late \in Nat
    /\ execs \in Seq(Exec)

ThumpInit ==
    /\ acting = NoOrder
    /\ armed = FALSE
    /\ switchFile \in SwitchFile
    /\ lastRead = "never"
    /\ late = 0
    /\ execs = <<>>

-----------------------------------------------------------------------------
\* The decisions consumer.

\* Render refuses a granted contract that is not catalogued, with an error.
Renders(r) == ContractOf[r] \in Catalogued

RefuseOrder(i) ==
    /\ acting.step = "idle"
    /\ Deliverable("decisions", i)
    /\ stream[i].tag = "approved"
    /\ ~Renders(stream[i].run)
    /\ Naked(i, Delivered(i))
    /\ UNCHANGED <<stream, faults, thumpVars>>

\* GatedExecutor.Execute reads the switch once, before the call; DryRun
\* renders and stops.
Gated(i) ==
    IF ~LiveExecutor THEN [msg |-> i, result |-> "rendered", step |-> "order"]
    ELSE IF armed THEN [msg |-> i, result |-> "none", step |-> "run"]
    ELSE [msg |-> i, result |-> "blocked", step |-> "order"]

\* Mutant: the verdict is not looked at.
TakeAnyVerdict(i) ==
    /\ acting.step = "idle"
    /\ Deliverable("decisions", i)
    /\ Renders(stream[i].run)
    /\ delivery' = Delivered(i)
    /\ acting' = Gated(i)
    /\ UNCHANGED <<stream, faults, armed, switchFile, lastRead, late, execs>>

TakeOrder(i) ==
    /\ acting.step = "idle"
    /\ Deliverable("decisions", i)
    /\ stream[i].tag = "approved"
    /\ Renders(stream[i].run)
    /\ delivery' = Delivered(i)
    /\ acting' = Gated(i)
    /\ UNCHANGED <<stream, faults, armed, switchFile, lastRead, late, execs>>

\* hold publishes thump.held; escalate and rejected publish thump.declines.
TakeNonApproval(i) ==
    /\ acting.step = "idle"
    /\ Deliverable("decisions", i)
    /\ stream[i].tag # "approved"
    /\ delivery' = Delivered(i)
    /\ acting' = [msg |-> i, result |-> stream[i].tag,
                  step |-> IF stream[i].tag = "hold" THEN "held" ELSE "decline"]
    /\ UNCHANGED <<stream, faults, armed, switchFile, lastRead, late, execs>>

\* What a run of the action reports, and what then watches it.  The runner's
\* error, its timeout included, is a result like the others.
Reported(r) == IF ContractOf[r] \in Releases THEN "proposed" ELSE "applied"

Watcher(result) ==
    CASE result = "applied" -> IF HasReversal THEN "watching" ELSE "unwatched"
      [] result = "proposed" -> "accepting"
      [] OTHER -> "failed"

\* Mutant: a failed run is tried again at once.
RunForwardRetrying ==
    /\ acting.step = "run"
    /\ LET m == stream[acting.msg]
       IN  \E result \in {Reported(m.run), "failure"} :
             /\ IF result = "failure" THEN Fault ELSE UNCHANGED faults
             /\ acting' = IF result = "failure" THEN acting
                          ELSE [acting EXCEPT !.result = result, !.step = "order"]
             /\ execs' = Append(execs, [fp |-> m.fp, run |-> m.run,
                                        phase |-> Watcher(result),
                                        window |-> "unread"])
    /\ late' = IF lastRead = "armed" THEN late ELSE late + 1
    /\ UNCHANGED <<stream, delivery, armed, switchFile, lastRead>>

RunForward ==
    /\ acting.step = "run"
    /\ LET m == stream[acting.msg]
       IN  \E result \in {Reported(m.run), "failure"} :
             /\ IF result = "failure" THEN Fault ELSE UNCHANGED faults
             /\ acting' = [acting EXCEPT !.result = result, !.step = "order"]
             /\ execs' = Append(execs, [fp |-> m.fp, run |-> m.run,
                                        phase |-> Watcher(result),
                                        window |-> "unread"])
    /\ late' = IF lastRead = "armed" THEN late ELSE late + 1
    /\ UNCHANGED <<stream, delivery, armed, switchFile, lastRead>>

\* Mutant: a failed publish of the order ends the handler, and is acked.
LogOrderError ==
    /\ acting.step = "order"
    /\ \/ /\ acting' = [acting EXCEPT !.step = "outcome"]
          /\ UNCHANGED <<delivery, faults>>
       \/ /\ Fault
          /\ delivery' = [delivery EXCEPT ![acting.msg].state = "acked"]
          /\ acting' = NoOrder
    /\ UNCHANGED <<stream, armed, switchFile, lastRead, late, execs>>

PublishOrder ==
    /\ acting.step = "order"
    /\ \/ /\ acting' = [acting EXCEPT !.step = "outcome"]
          /\ UNCHANGED <<delivery, faults>>
       \/ /\ Fault
          /\ Naked(acting.msg, delivery)
          /\ acting' = NoOrder
    /\ UNCHANGED <<stream, armed, switchFile, lastRead, late, execs>>

Answer(subject) ==
    LET m == stream[acting.msg]
    IN  PublishedThenReturned(acting.msg, Msg(subject, m.fp, m.run, acting.result))

PublishOutcome ==
    /\ acting.step = "outcome"
    /\ Answer("outcomes")
    /\ acting' = NoOrder
    /\ UNCHANGED <<armed, switchFile, lastRead, late, execs>>

PublishDecline ==
    /\ acting.step = "decline"
    /\ Answer("declines")
    /\ acting' = NoOrder
    /\ UNCHANGED <<armed, switchFile, lastRead, late, execs>>

PublishHeld ==
    /\ acting.step = "held"
    /\ \/ Acked(acting.msg, delivery)
       \/ Fault /\ Naked(acting.msg, delivery)
    /\ acting' = NoOrder
    /\ UNCHANGED <<stream, armed, switchFile, lastRead, late, execs>>

-----------------------------------------------------------------------------
\* The watchers.  A publish that fails is logged and nothing more.

\* The watcher of action e moves on, with what it now knows of the window.
Moved(e, phase, window) ==
    [execs EXCEPT ![e] = [@ EXCEPT !.phase = phase, !.window = window]]

Outcome(e, result) == Msg("outcomes", execs[e].fp, execs[e].run, result)

\* The process dies: the decision in hand is redelivered, the watchers are
\* gone, the switch is fresh.  after is execs as the death left it.
Died(after) ==
    /\ Abandoned({"decisions"})
    /\ acting' = NoOrder
    /\ armed' = FALSE
    /\ lastRead' = "never"
    /\ execs' = [e \in DOMAIN after |->
                    IF after[e].phase \in Live
                    THEN [after[e] EXCEPT !.phase = "orphaned"]
                    ELSE after[e]]
    /\ UNCHANGED <<stream, switchFile, late>>

\* watchAndAccept.  A merged release falls into watchAndSettle, which calls
\* through tr.Reversal: a nil watcher there panics.
ReleaseAccepted(e) ==
    /\ execs[e].phase = "accepting"
    /\ UNCHANGED faults
    /\ IF HasReversal
       THEN /\ execs' = Moved(e, "watching", "unread")
            /\ UNCHANGED <<stream, delivery, acting, armed, switchFile, lastRead, late>>
       ELSE Died(Moved(e, "panicked", "unread"))

\* A release nobody merged, or a poll that errs, ends here.
ReleaseNotAccepted(e) ==
    /\ execs[e].phase = "accepting"
    /\ execs' = Moved(e, "withdrawn", "unread")
    /\ \E result \in {"partial_non_converging", "failure"} :
          TriedPublish(Outcome(e, result))
    /\ UNCHANGED <<acting, armed, switchFile, lastRead, late>>

\* ReversalWatcher.Watch
Fires(r, converged) ==
    \/ ~converged /\ ContractOf[r] \notin HoldOnMiss
    \/ ContractOf[r] \in RestoreOnSuccess

\* watchAndSettle up to its undo: one probe read, the terminal outcome.
SettleWindow(e) ==
    /\ execs[e].phase = "watching"
    /\ \E converged \in BOOLEAN :
         /\ TriedPublish(Outcome(e, IF converged THEN "success"
                                    ELSE "partial_non_converging"))
         /\ execs' = Moved(e,
                        IF Fires(execs[e].run, converged) THEN "undoing" ELSE "settled",
                        IF converged THEN "met" ELSE "missed")
    /\ UNCHANGED <<acting, armed, switchFile, lastRead, late>>

\* The undo is exempt from the switch.
RunUndo(e) ==
    /\ execs[e].phase = "undoing"
    /\ \E result \in {Reported(execs[e].run), "failure"} :
         /\ TriedPublish(Outcome(e, result))
         /\ execs' = Moved(e, IF result = "failure" THEN "stuck" ELSE "undone",
                           execs[e].window)
    /\ UNCHANGED <<acting, armed, switchFile, lastRead, late>>

-----------------------------------------------------------------------------
\* The kill switch.

\* Mutant: a file that cannot be read leaves the switch as it was.
ReloadLatching ==
    /\ armed' = IF switchFile = "unreadable" THEN armed ELSE switchFile = "armed"
    /\ lastRead' = switchFile
    /\ late' = IF switchFile = "armed" THEN 0 ELSE late
    /\ UNCHANGED <<busVars, acting, switchFile, execs>>

\* FileSwitch.Reload: anything but a well-formed armed: true disarms.
Reload ==
    /\ armed' = (switchFile = "armed")
    /\ lastRead' = switchFile
    /\ late' = IF switchFile = "armed" THEN 0 ELSE late
    /\ UNCHANGED <<busVars, acting, switchFile, execs>>

OperatorSwitch ==
    /\ \E f \in SwitchFile \ {switchFile} : switchFile' = f
    /\ UNCHANGED <<busVars, acting, armed, lastRead, late, execs>>

RestartThump ==
    /\ Fault
    /\ Died(execs)

ThumpStep ==
    \/ \E i \in DOMAIN stream : RefuseOrder(i)
    \/ \E i \in DOMAIN stream : TakeOrder(i)
    \/ \E i \in DOMAIN stream : TakeNonApproval(i)
    \/ RunForward
    \/ PublishOrder
    \/ PublishOutcome
    \/ PublishDecline
    \/ PublishHeld
    \/ \E e \in DOMAIN execs : ReleaseAccepted(e)
    \/ \E e \in DOMAIN execs : ReleaseNotAccepted(e)
    \/ \E e \in DOMAIN execs : SettleWindow(e)
    \/ \E e \in DOMAIN execs : RunUndo(e)
    \/ Reload
    \/ OperatorSwitch
    \/ RestartThump

-----------------------------------------------------------------------------
\* thump on its own: hiss, as thump sees it, publishes any verdict on a set, and
\* may publish another on the same set (a redelivery, a re-issue).
Decide(r, v) ==
    /\ Cardinality({i \in DOMAIN stream : stream[i].subject = "decisions"})
          < MaxDecisions
    /\ \E fp \in Fingerprint :
          /\ \A i \in DOMAIN stream : stream[i].run = r => stream[i].fp = fp
          /\ Published(Msg("decisions", fp, r, v))
    /\ UNCHANGED thumpVars

Init ==
    /\ BusInit
    /\ ThumpInit

Next ==
    \/ \E r \in Run, v \in Verdict : Decide(r, v)
    \/ ThumpStep

vars == <<busVars, thumpVars>>

\* RunConsumer's loop keeps running, and so does a watcher's goroutine: its
\* window is finite and its probe has a client timeout.
Fairness ==
    /\ WF_vars(\E i \in DOMAIN stream :
                  RefuseOrder(i) \/ TakeOrder(i) \/ TakeNonApproval(i))
    /\ WF_vars(RunForward)
    /\ WF_vars(PublishOrder)
    /\ WF_vars(PublishOutcome)
    /\ WF_vars(PublishDecline)
    /\ WF_vars(PublishHeld)

Spec == Init /\ [][Next]_vars

FairSpec == Spec /\ Fairness

-----------------------------------------------------------------------------
\* Type correctness of the stream, the switch, the job in hand and the watchers
\* (transport.go, killswitch.go).
TypeOK ==
    /\ BusTypeOK
    /\ ThumpTypeOK

\* Disarming stops thump: once a reload has read anything but a well-formed
\* armed: true, or the process has restarted, at most one more forward action
\* begins, the one whose switch read came before (GatedExecutor.Execute,
\* FileSwitch.Reload).
DisarmStops == late <= 1

\* hiss decided so on the set, before position i of stream s.
Decided(s, fp, r, verdicts, i) ==
    \E k \in 1..(i - 1) :
        /\ s[k].subject = "decisions"
        /\ s[k].fp = fp
        /\ s[k].run = r
        /\ s[k].tag \in verdicts

\* Nothing executes ungoverned, and nothing is reported that was not granted:
\* every forward action and every outcome on the stream, an undo's and a
\* watcher's included, answers an approved decision on that set that came
\* before it, and every decline answers a decision that is not an approval
\* (handle, Render, watchAndAccept, watchAndSettle).
ActsOnlyOnGrants ==
    /\ \A e \in 1..Len(execs) :
          /\ Decided(stream, execs[e].fp, execs[e].run, {"approved"}, Len(stream) + 1)
          /\ Renders(execs[e].run)
    /\ \A i \in 1..Len(stream) :
          /\ stream[i].subject = "outcomes" =>
                Decided(stream, stream[i].fp, stream[i].run, {"approved"}, i)
          /\ stream[i].subject = "declines" =>
                Decided(stream, stream[i].fp, stream[i].run,
                        {"escalate", "rejected"}, i)

\* A forward action is eventually reported: an outcome about its set reaches
\* the stream, or the decision that ordered it ran out of deliveries (handle
\* publishes after it executes, and returns the publish's error).
ActionsReported ==
    \A r \in Run :
        (\E e \in DOMAIN execs : execs[e].run = r)
        ~> \/ \E i \in DOMAIN stream : stream[i].subject = "outcomes" /\ stream[i].run = r
           \/ \E i \in DOMAIN stream :
                 /\ stream[i].subject = "decisions" /\ stream[i].run = r
                 /\ Spent(i)

\* A consumer deduplicates on the producer's fingerprint, so a redelivered
\* decision does not act twice: no more forward actions than approvals
\* (docs/invariants.md I-14).
OneActionPerGrant ==
    Len(execs) <= Cardinality({i \in DOMAIN stream :
                      stream[i].subject = "decisions" /\ stream[i].tag = "approved"})

\* A decision is acted on at most once per delivery, so the retry budget bounds
\* how often a grant is acted on, whatever fails or crashes in between: never
\* more forward actions on a set than deliveries of its approvals (handle,
\* GatedExecutor.Execute).
ActsOncePerDelivery ==
    \A r \in Run :
        LET grants == {i \in DOMAIN stream :
                          /\ stream[i].subject = "decisions"
                          /\ stream[i].run = r /\ stream[i].tag = "approved"}
        IN  Cardinality({e \in DOMAIN execs : execs[e].run = r})
              <= Cardinality(UNION {{i} \X (1..delivery[i].n) : i \in grants})

\* A contract authored HoldOnMiss is never undone after a missed window
\* (ReversalWatcher.Watch's comment).
HeldMissStands ==
    \A e \in DOMAIN execs :
        execs[e].window = "missed" /\ ContractOf[execs[e].run] \in HoldOnMiss
        => execs[e].phase \notin {"undoing", "undone", "stuck"}
=============================================================================
