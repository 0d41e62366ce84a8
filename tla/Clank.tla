------------------------------- MODULE Clank -------------------------------
(***************************************************************************)
(* clank, the reasoning beat, around its ledger: the detections handler    *)
(* (Engine.Propose), the return edge (Click.Absorb) and the declines       *)
(* handler, which answer the ledger's open sets, the case base, and the    *)
(* rebuild of both on restart.                                             *)
(*                                                                         *)
(* The three consumers run concurrently in one process.  A run's identity  *)
(* is its fingerprint and the time Propose began, so FpOf is a function of *)
(* the run, and runs are ordered by time; detections are reasoned one at a *)
(* time, so that is also the ledger's order.  What the reason loop and the *)
(* gate's evidence minimum conclude is left open.                          *)
(***************************************************************************)
EXTENDS Bus, FiniteSets

CONSTANTS
    FpOf,            \* the fingerprint in a run's identity
    MaxCases,        \* CaseBase.MaxCases
    MaxDetections,   \* bound: detections ever stored
    MaxAnswers       \* bound: outcomes and declines ever stored

ASSUME ClankAssumption ==
    /\ Run \subseteq Nat
    /\ FpOf \in [Run -> Fingerprint]
    /\ MaxCases \in Nat \ {0}
    /\ MaxDetections \in Nat
    /\ MaxAnswers \in Nat

VARIABLES
    phase,       \* MemProposalLog: the phase of each run's set, or "absent"
    started,     \* runs Propose has begun, in this process or an earlier one
    reasoning,   \* the detections consumer's current job
    cases,       \* CaseBase: the outcomes learned, as positions in the stream
    replay,      \* rebuildLedger's progress: the next event and the last one
    expired,     \* runs up to here are older than DedupeWindow
    forgotten    \* runs up to here are older than LedgerRetention

clankVars == <<phase, started, reasoning, cases, replay, expired, forgotten>>

Open == {"proposed", "acknowledged", "acted"}

\* no_action stands for every phase of a set that is recorded and never
\* delivered, budget_exhausted included.
Phase == Open \cup {"absent", "no_action", "closed", "declined"}

Thought == [msg : Nat, run : Run \cup {NoRun}, step : {"idle", "reason", "publish"}]

NoThought == [msg |-> 0, run |-> NoRun, step |-> "idle"]

ClankTypeOK ==
    /\ phase \in [Run -> Phase]
    /\ started \subseteq Run
    /\ reasoning \in Thought
    /\ cases \in Seq(Nat)
    /\ replay \in [next : Nat, last : Nat]
    /\ expired \in Nat
    /\ forgotten \in Nat

ClankInit ==
    /\ phase = [r \in Run |-> "absent"]
    /\ started = {}
    /\ reasoning = NoThought
    /\ cases = <<>>
    /\ replay = [next |-> 1, last |-> 0]
    /\ expired = 0
    /\ forgotten = 0

\* The ledger is rebuilt before any consumer starts.
Ready == replay.next > replay.last

-----------------------------------------------------------------------------
\* The ledger.

OpenSets(fp) == {r \in Run : FpOf[r] = fp /\ phase[r] \in Open}

\* MemProposalLog.Open: the open sets within the dedupe window.
LiveSets(fp) == {r \in OpenSets(fp) : r > expired}

\* Mutant: retention forgets the open sets too.
RecordedForgettingAll(r, p) ==
    [s \in Run |-> IF s = r THEN p ELSE IF s <= forgotten THEN "absent" ELSE phase[s]]

\* MemProposalLog.Record: prune the closed sets past their retention, and add
\* the set.
Recorded(r, p) ==
    [s \in Run |->
        IF s = r THEN p
        ELSE IF s <= forgotten /\ phase[s] \notin Open THEN "absent"
        ELSE phase[s]]

\* Mutant: a result transition does not name becomes the phase.
TransitionVerbatim(result) ==
    CASE result = "rendered" -> "acknowledged"
      [] result \in {"success", "failure", "partial_non_converging"} -> "closed"
      [] OTHER -> result

\* transition
Transition(result) ==
    CASE result = "rendered" -> "acknowledged"
      [] result \in {"success", "failure", "partial_non_converging"} -> "closed"
      [] OTHER -> "acted"

\* Observe and Decline move the newest open set for the message's fingerprint,
\* whichever set the message is about.
Answered(fp, p) ==
    [r \in Run |->
        IF r \in OpenSets(fp) /\ \A s \in OpenSets(fp) : s <= r THEN p ELSE phase[r]]

Observed(m) == Answered(m.fp, Transition(m.tag))

Declined(m) == Answered(m.fp, "declined")

\* CaseBase.Append, the oldest case evicted at the limit.
Learned(i) == Append(IF Len(cases) >= MaxCases THEN Tail(cases) ELSE cases, i)

-----------------------------------------------------------------------------
\* The detections consumer: Engine.Propose.

\* The precheck: a live set for this fingerprint already answers it.
SkipDetection(i) ==
    /\ Ready
    /\ reasoning.step = "idle"
    /\ Deliverable("detections", i)
    /\ LiveSets(stream[i].fp) # {}
    /\ Acked(i, Delivered(i))
    /\ UNCHANGED <<stream, clankVars>>

\* runID: the fingerprint and the time, later than any run before.
NewRuns(fp) == {r \in Run : FpOf[r] = fp /\ \A s \in started : s < r}

\* Mutant: an open set past the dedupe window still keeps a run from starting.
StartRunIgnoringWindow(i) ==
    /\ Ready
    /\ reasoning.step = "idle"
    /\ Deliverable("detections", i)
    /\ OpenSets(stream[i].fp) = {}
    /\ \E r \in NewRuns(stream[i].fp) :
          /\ \A s \in NewRuns(stream[i].fp) : r <= s
          /\ reasoning' = [msg |-> i, run |-> r, step |-> "reason"]
          /\ started' = started \cup {r}
    /\ delivery' = Delivered(i)
    /\ UNCHANGED <<stream, faults, phase, cases, replay, expired, forgotten>>

StartRun(i) ==
    /\ Ready
    /\ reasoning.step = "idle"
    /\ Deliverable("detections", i)
    /\ LiveSets(stream[i].fp) = {}
    /\ \E r \in NewRuns(stream[i].fp) :
          /\ \A s \in NewRuns(stream[i].fp) : r <= s
          /\ reasoning' = [msg |-> i, run |-> r, step |-> "reason"]
          /\ started' = started \cup {r}
    /\ delivery' = Delivered(i)
    /\ UNCHANGED <<stream, faults, phase, cases, replay, expired, forgotten>>

\* Intake, the model, a checkpoint or a tool fails: nothing is recorded.
FailRun ==
    /\ reasoning.step = "reason"
    /\ Fault
    /\ Naked(reasoning.msg, delivery)
    /\ reasoning' = NoThought
    /\ UNCHANGED <<stream, phase, started, cases, replay, expired, forgotten>>

\* The model declines, the budget runs out, the catalog or the citations refuse
\* the set, or a gate minimum does: recorded and journaled, never delivered.
RecordNoAction ==
    /\ reasoning.step = "reason"
    /\ phase' = Recorded(reasoning.run, "no_action")
    /\ \/ Acked(reasoning.msg, delivery)
       \/ Fault /\ Naked(reasoning.msg, delivery)
    /\ reasoning' = NoThought
    /\ UNCHANGED <<stream, started, cases, replay, expired, forgotten>>

\* The gate passes: the set is recorded as proposed, then journaled.  A journal
\* that fails returns its error with the set recorded.
RecordProposed ==
    /\ reasoning.step = "reason"
    /\ LiveSets(FpOf[reasoning.run]) = {}
    /\ phase' = Recorded(reasoning.run, "proposed")
    /\ \/ /\ reasoning' = [reasoning EXCEPT !.step = "publish"]
          /\ UNCHANGED <<delivery, faults>>
       \/ /\ Fault
          /\ Naked(reasoning.msg, delivery)
          /\ reasoning' = NoThought
    /\ UNCHANGED <<stream, started, cases, replay, expired, forgotten>>

PublishSet ==
    /\ reasoning.step = "publish"
    /\ PublishedThenReturned(reasoning.msg,
          Msg("proposals", FpOf[reasoning.run], reasoning.run, "none"))
    /\ reasoning' = NoThought
    /\ UNCHANGED <<phase, started, cases, replay, expired, forgotten>>

-----------------------------------------------------------------------------
\* The return edges.  An answer with no open set to answer to is acked.

\* learnHandler
AbsorbOutcome(i) ==
    /\ Ready
    /\ Deliverable("outcomes", i)
    /\ phase' = Observed(stream[i])
    /\ cases' = IF OpenSets(stream[i].fp) = {} THEN cases ELSE Learned(i)
    /\ Acked(i, Delivered(i))
    /\ UNCHANGED <<stream, started, reasoning, replay, expired, forgotten>>

\* declineHandler
AbsorbDecline(i) ==
    /\ Ready
    /\ Deliverable("declines", i)
    /\ phase' = Declined(stream[i])
    /\ Acked(i, Delivered(i))
    /\ UNCHANGED <<stream, started, reasoning, cases, replay, expired, forgotten>>

-----------------------------------------------------------------------------
\* A restart: an empty ledger and case base, and then rebuildLedger, which
\* replays what is stored on the three subjects in stream order.

RestartClank ==
    /\ Fault
    /\ Abandoned({"detections", "outcomes", "declines"})
    /\ phase' = [r \in Run |-> "absent"]
    /\ reasoning' = NoThought
    /\ cases' = <<>>
    /\ replay' = [next |-> 1, last |-> Len(stream)]
    /\ UNCHANGED <<stream, started, expired, forgotten>>

\* replayInto
ReplayNext ==
    /\ ~Ready
    /\ LET i == replay.next
           m == stream[i]
       IN  /\ phase' = CASE m.subject = "proposals" -> [phase EXCEPT ![m.run] = "proposed"]
                         [] m.subject = "outcomes" -> Observed(m)
                         [] m.subject = "declines" -> Declined(m)
                         [] OTHER -> phase
           /\ cases' = IF m.subject = "outcomes" /\ OpenSets(m.fp) # {}
                       THEN Learned(i) ELSE cases
    /\ replay' = [replay EXCEPT !.next = @ + 1]
    /\ UNCHANGED <<busVars, started, reasoning, expired, forgotten>>

-----------------------------------------------------------------------------
\* Time.  A set's age counts from its Record, so the run in hand has none yet.

Expire(r) ==
    /\ r > expired
    /\ r # reasoning.run
    /\ expired' = r
    /\ UNCHANGED <<busVars, phase, started, reasoning, cases, replay, forgotten>>

Forget(r) ==
    /\ r > forgotten
    /\ r # reasoning.run
    /\ forgotten' = r
    /\ UNCHANGED <<busVars, phase, started, reasoning, cases, replay, expired>>

ClankStep ==
    \/ \E i \in DOMAIN stream : SkipDetection(i)
    \/ \E i \in DOMAIN stream : StartRun(i)
    \/ FailRun
    \/ RecordNoAction
    \/ RecordProposed
    \/ PublishSet
    \/ \E i \in DOMAIN stream : AbsorbOutcome(i)
    \/ \E i \in DOMAIN stream : AbsorbDecline(i)
    \/ RestartClank
    \/ ReplayNext
    \/ \E r \in started : Expire(r)
    \/ \E r \in started : Forget(r)

-----------------------------------------------------------------------------
\* clank on its own: rattle publishes detections, and thump answers a delivered
\* set with any number of outcomes, or a decline.

Detect(fp) ==
    /\ Cardinality({i \in DOMAIN stream : stream[i].subject = "detections"})
          < MaxDetections
    /\ Published(Msg("detections", fp, NoRun, "none"))
    /\ UNCHANGED clankVars

AnswerSubjects == {"outcomes", "declines"}

AnswerSet(i, subject, tag) ==
    /\ stream[i].subject = "proposals"
    /\ Cardinality({j \in DOMAIN stream : stream[j].subject \in AnswerSubjects})
          < MaxAnswers
    /\ Published(Msg(subject, stream[i].fp, stream[i].run, tag))
    /\ UNCHANGED clankVars

Init ==
    /\ BusInit
    /\ ClankInit

Next ==
    \/ \E fp \in Fingerprint : Detect(fp)
    \/ \E i \in DOMAIN stream, tag \in {"rendered", "applied", "success"} :
          AnswerSet(i, "outcomes", tag)
    \/ \E i \in DOMAIN stream : AnswerSet(i, "declines", "rejected")
    \/ ClankStep

vars == <<busVars, clankVars>>

\* RunConsumer's loops keep running, and a run of Propose ends: every call it
\* makes is bounded, and so are its steps.
Fairness ==
    /\ WF_vars(\E i \in DOMAIN stream : SkipDetection(i) \/ StartRun(i))
    /\ WF_vars(FailRun \/ RecordNoAction \/ RecordProposed)
    /\ WF_vars(PublishSet)
    /\ WF_vars(\E i \in DOMAIN stream : AbsorbOutcome(i))
    /\ WF_vars(\E i \in DOMAIN stream : AbsorbDecline(i))
    /\ WF_vars(ReplayNext)

Spec == Init /\ [][Next]_vars

FairSpec == Spec /\ Fairness

-----------------------------------------------------------------------------
\* Type correctness of the stream, the ledger, the case base and the run in hand
\* (ledger.go, casebase.go).
TypeOK ==
    /\ BusTypeOK
    /\ ClankTypeOK

OnStream(r) ==
    \E i \in DOMAIN stream : stream[i].subject = "proposals" /\ stream[i].run = r

\* An answer that closes a set.
Closes(m) ==
    \/ m.subject = "declines"
    \/ m.subject = "outcomes" /\ Transition(m.tag) = "closed"

\* A delivered set is deduplicated against until governance or actuation has
\* answered its fingerprint: while the consumers run, every set on
\* thump.proposals is open in the ledger, unless a closing answer about its
\* fingerprint is on the stream.  No restart, rebuild, pruning or lost publish
\* ack drops one (Record, Observe, Decline, rebuildLedger).
UnansweredStaysOpen ==
    Ready =>
      \A i \in DOMAIN stream :
        stream[i].subject = "proposals" =>
            \/ phase[stream[i].run] \in Open
            \/ \E k \in DOMAIN stream : Closes(stream[k]) /\ stream[k].fp = stream[i].fp

\* No detection is left hanging: again and again every detection stored so far
\* has been acked or has run out of deliveries, through errors, lost acks and
\* restarts of the process that is reasoning about it (Propose, Run).
DetectionsSettle ==
    []<>(\A i \in DOMAIN stream :
            stream[i].subject = "detections" => delivery[i].state = "acked" \/ Spent(i))

\* A live set for a fingerprint means the answer already exists (Propose's
\* comment on its precheck): a set recorded as proposed reaches the stream, or
\* the detection it answers is dead-lettered, or the set does not stay so.
RecordedSetsDelivered ==
    \A r \in Run :
        phase[r] = "proposed"
        ~> \/ OnStream(r)
           \/ phase[r] # "proposed"
           \/ \E i \in On("detections", FpOf[r]) : Spent(i)

\* An outcome answers to the same grant, the same ledger set (watchAndSettle's
\* comment on conv.DecisionRef): the set it moves is the set it is about.
OutcomesAnswerTheirSet ==
    [][\A i \in DOMAIN stream, r \in Run :
          AbsorbOutcome(i) /\ phase'[r] # phase[r] => r = stream[i].run]_vars

\* A rebuilt ledger matches what live processing produced, so a fingerprint has
\* one live set at most (rebuildLedger, replayInto).
OneLiveSet == Ready => \A fp \in Fingerprint : Cardinality(LiveSets(fp)) <= 1
=============================================================================
