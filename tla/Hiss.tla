-------------------------------- MODULE Hiss --------------------------------
(***************************************************************************)
(* hiss, the governance beat: the proposals handler (Transport.handle),    *)
(* the held work awaiting a human (PendingHolds), the ApprovalRequest      *)
(* resource and its controller, the approvals handler                      *)
(* (Transport.approveHandler) and the rebuild of the holds on restart.     *)
(*                                                                         *)
(* The two consumers and the controller run concurrently in one process;   *)
(* each is one job at a time, and its steps interleave with the others'.   *)
(***************************************************************************)
EXTENDS Bus, FiniteSets

CONSTANTS
    Judgement,      \* Authority.Evaluate's verdict on a run outside any freeze
    MaxApprovals    \* bound: acks ever stored on thump.approvals

ASSUME HissAssumption ==
    /\ Judgement \in [Run -> Verdict]
    /\ MaxApprovals \in Nat

VARIABLES
    holds,         \* PendingHolds: fingerprint -> the run held, or NoRun
    requests,      \* the ApprovalRequest resource of each fingerprint
    proposing,     \* the proposals consumer's current job
    approving,     \* the approvals consumer's current job
    reconciling,   \* fingerprints whose ack is published but not marked
    frozen         \* the clock is inside a freeze window

hissVars == <<holds, requests, proposing, approving, reconciling, frozen>>

Awaits == {"escalate", "hold"}

\* Job records: the message being handled and what the handler has in hand.
Idle == [msg |-> 0, run |-> NoRun, verdict |-> "rejected", step |-> "idle"]

Job == [msg : Nat, run : Run \cup {NoRun}, verdict : Verdict,
        step : {"idle", "create", "publish"}]

\* phase: absent, open (no spec.decision), decided (approved and stamped by
\* the admission policy), unstamped (approved, no approver annotation), or
\* processed.  run is the set whose action and reasons the resource shows.
Request == [phase : {"absent", "open", "decided", "unstamped", "processed"},
            run : Run \cup {NoRun}]

Absent == [phase |-> "absent", run |-> NoRun]

HissTypeOK ==
    /\ holds \in [Fingerprint -> Run \cup {NoRun}]
    /\ requests \in [Fingerprint -> Request]
    /\ proposing \in Job
    /\ approving \in Job
    /\ reconciling \subseteq Fingerprint
    /\ frozen \in BOOLEAN

HissInit ==
    /\ holds = [fp \in Fingerprint |-> NoRun]
    /\ requests = [fp \in Fingerprint |-> Absent]
    /\ proposing = Idle
    /\ approving = Idle
    /\ reconciling = {}
    /\ frozen = FALSE

-----------------------------------------------------------------------------
\* The proposals consumer.

\* Mutant: a freeze window gives a verdict of its own, which no consumer knows.
EvaluateFrozen(r) ==
    IF Judgement[r] # "rejected" /\ frozen THEN "frozen" ELSE Judgement[r]

\* An ungated set is rejected before the freeze windows are looked at; a
\* freeze window escalates everything else.
Evaluate(r) ==
    IF Judgement[r] # "rejected" /\ frozen THEN "escalate" ELSE Judgement[r]

\* Mutant: whatever is not approved is held.
HoldAllRefused(i) ==
    /\ proposing.step = "idle"
    /\ Deliverable("proposals", i)
    /\ delivery' = Delivered(i)
    /\ LET r == stream[i].run
           v == Evaluate(r)
       IN  /\ proposing' = [msg |-> i, run |-> r, verdict |-> v,
                            step |-> IF v # "approved" THEN "create" ELSE "publish"]
           /\ holds' = IF v # "approved"
                       THEN [holds EXCEPT ![stream[i].fp] = r]
                       ELSE holds
    /\ UNCHANGED <<stream, faults, requests, approving, reconciling, frozen>>

\* handle up to its first call that can fail: evaluate, and record the hold
\* of a verdict that awaits a human.
HandleProposal(i) ==
    /\ proposing.step = "idle"
    /\ Deliverable("proposals", i)
    /\ delivery' = Delivered(i)
    /\ LET r == stream[i].run
           v == Evaluate(r)
       IN  /\ proposing' = [msg |-> i, run |-> r, verdict |-> v,
                            step |-> IF v \in Awaits THEN "create" ELSE "publish"]
           /\ holds' = IF v \in Awaits
                       THEN [holds EXCEPT ![stream[i].fp] = r]
                       ELSE holds
    /\ UNCHANGED <<stream, faults, requests, approving, reconciling, frozen>>

\* ApprovalRequestController.Create: the resource's name derives from the
\* fingerprint, and AlreadyExists is success.
Created(fp, r) ==
    IF requests[fp].phase = "absent"
    THEN [requests EXCEPT ![fp] = [phase |-> "open", run |-> r]]
    ELSE requests

\* A call that fails may have reached the API server or not.
CreateRequest ==
    /\ proposing.step = "create"
    /\ LET i == proposing.msg
           fp == stream[i].fp
       IN  \/ /\ requests' = Created(fp, proposing.run)
              /\ proposing' = [proposing EXCEPT !.step = "publish"]
              /\ UNCHANGED <<delivery, faults>>
           \/ /\ Fault
              /\ requests' \in {requests, Created(fp, proposing.run)}
              /\ proposing' = Idle
              /\ Naked(i, delivery)
    /\ UNCHANGED <<stream, holds, approving, reconciling, frozen>>

\* Mutant: the publish's error is logged, and the proposal acked.
LogDecisionError ==
    /\ proposing.step = "publish"
    /\ LET i == proposing.msg
       IN  \/ PublishedThenReturned(i,
                 Msg("decisions", stream[i].fp, proposing.run, proposing.verdict))
          \/ /\ Fault
             /\ delivery' = [delivery EXCEPT ![i].state = "acked"]
             /\ UNCHANGED stream
    /\ proposing' = Idle
    /\ UNCHANGED <<holds, requests, approving, reconciling, frozen>>

PublishDecision ==
    /\ proposing.step = "publish"
    /\ LET i == proposing.msg
       IN  PublishedThenReturned(i,
              Msg("decisions", stream[i].fp, proposing.run, proposing.verdict))
    /\ proposing' = Idle
    /\ UNCHANGED <<holds, requests, approving, reconciling, frozen>>

-----------------------------------------------------------------------------
\* The approvals consumer.

\* An ack of a fingerprint that is not held is inert.
IgnoreApproval(i) ==
    /\ approving.step = "idle"
    /\ Deliverable("approvals", i)
    /\ holds[stream[i].fp] = NoRun
    /\ Acked(i, Delivered(i))
    /\ UNCHANGED <<stream, hissVars>>

\* Holds.Take
TakeHold(i) ==
    /\ approving.step = "idle"
    /\ Deliverable("approvals", i)
    /\ LET fp == stream[i].fp
       IN  /\ holds[fp] # NoRun
           /\ approving' = [msg |-> i, run |-> holds[fp],
                            verdict |-> "approved", step |-> "publish"]
           /\ holds' = [holds EXCEPT ![fp] = NoRun]
    /\ delivery' = Delivered(i)
    /\ UNCHANGED <<stream, faults, requests, proposing, reconciling, frozen>>

\* Mutant: the held decision carries its approver and keeps its verdict.
ReissueAsHeld(fp, r) ==
    [subject |-> "decisions", fp |-> fp, run |-> r, tag |-> "hold",
     acked |-> TRUE]

\* The held decision, re-stamped approved and carrying its approver.
Reissue(fp, r) ==
    [subject |-> "decisions", fp |-> fp, run |-> r, tag |-> "approved",
     acked |-> TRUE]

PublishReissue ==
    /\ approving.step = "publish"
    /\ LET i == approving.msg
       IN  PublishedThenReturned(i, Reissue(stream[i].fp, approving.run))
    /\ approving' = Idle
    /\ UNCHANGED <<holds, requests, proposing, reconciling, frozen>>

-----------------------------------------------------------------------------
\* The ApprovalRequest controller: informer events and resyncs reconcile every
\* resource again and again, one at a time.

Approvals == {i \in DOMAIN stream : stream[i].subject = "approvals"}

\* reconcile: publish the ack of a decided, stamped resource.  An error leaves
\* the resource for the next resync, whether or not the ack was stored.
ReconcileRequest(fp) ==
    /\ reconciling = {}
    /\ requests[fp].phase = "decided"
    /\ Cardinality(Approvals) < MaxApprovals
    /\ \/ /\ Published(Msg("approvals", fp, NoRun, "none"))
          /\ reconciling' = {fp}
       \/ /\ Fault
          /\ Stored(Msg("approvals", fp, NoRun, "none"))
          /\ delivery' = Extended(delivery)
          /\ UNCHANGED reconciling
    /\ UNCHANGED <<holds, requests, proposing, approving, frozen>>

MarkProcessed(fp) ==
    /\ fp \in reconciling
    /\ \/ /\ requests' = [requests EXCEPT ![fp].phase = "processed"]
          /\ UNCHANGED faults
       \/ /\ Fault
          /\ UNCHANGED requests
    /\ reconciling' = {}
    /\ UNCHANGED <<stream, delivery, holds, proposing, approving, frozen>>

\* sweep: delete a processed resource once its retention has run out.
SweepRequest(fp) ==
    /\ reconciling = {}
    /\ requests[fp].phase = "processed"
    /\ requests' = [requests EXCEPT ![fp] = Absent]
    /\ UNCHANGED <<busVars, holds, proposing, approving, reconciling, frozen>>

-----------------------------------------------------------------------------
\* A restart of the process: rebuildHolds replays thump.decisions and holds
\* every fingerprint whose latest decision awaits approval.

\* The latest decision on the fingerprint, when it awaits a human.
Unresolved(fp) ==
    {i \in On("decisions", fp) :
        /\ stream[i].tag \in Awaits
        /\ \A j \in On("decisions", fp) : j <= i}

RebuiltHold(fp) ==
    IF Unresolved(fp) = {} THEN NoRun
    ELSE stream[CHOOSE i \in Unresolved(fp) : TRUE].run

RestartHiss ==
    /\ Fault
    /\ Abandoned({"proposals", "approvals"})
    /\ holds' = [fp \in Fingerprint |-> RebuiltHold(fp)]
    /\ proposing' = Idle
    /\ approving' = Idle
    /\ reconciling' = {}
    /\ UNCHANGED <<stream, requests, frozen>>

-----------------------------------------------------------------------------
\* People and time.

\* kubectl patch of spec.decision; the admission policy stamps the approver,
\* unless it is absent.
PatchRequest(fp) ==
    /\ requests[fp].phase = "open"
    /\ \E p \in {"decided", "unstamped"} :
           requests' = [requests EXCEPT ![fp].phase = p]
    /\ UNCHANGED <<busVars, holds, proposing, approving, reconciling, frozen>>

\* calipers approve emits an ack for any fingerprint the operator names.
OperatorApprove(fp) ==
    /\ Cardinality(Approvals) < MaxApprovals
    /\ Published(Msg("approvals", fp, NoRun, "none"))
    /\ UNCHANGED hissVars

\* calipers force, the break-glass path: an approved decision on whatever the
\* record says is held, past hiss, whose own hold stays.
OperatorForce(fp) ==
    /\ Unresolved(fp) # {}
    /\ Published(Msg("decisions", fp, RebuiltHold(fp), "approved"))
    /\ UNCHANGED hissVars

\* The clock enters or leaves a freeze window.
FreezeWindow ==
    /\ frozen' = ~frozen
    /\ UNCHANGED <<busVars, holds, requests, proposing, approving, reconciling>>

HissStep ==
    \/ \E i \in DOMAIN stream : HandleProposal(i)
    \/ CreateRequest
    \/ PublishDecision
    \/ \E i \in DOMAIN stream : IgnoreApproval(i)
    \/ \E i \in DOMAIN stream : TakeHold(i)
    \/ PublishReissue
    \/ \E fp \in Fingerprint : ReconcileRequest(fp)
    \/ \E fp \in Fingerprint : MarkProcessed(fp)
    \/ \E fp \in Fingerprint : SweepRequest(fp)
    \/ RestartHiss
    \/ \E fp \in Fingerprint : PatchRequest(fp)
    \/ \E fp \in Fingerprint : OperatorApprove(fp)
    \/ \E fp \in Fingerprint : OperatorForce(fp)
    \/ FreezeWindow

-----------------------------------------------------------------------------
\* hiss on its own: clank, as hiss sees it, publishes each set once, and may
\* publish a second set for a fingerprint that still has one held.
ProposeSet(fp, r) ==
    /\ \A i \in DOMAIN stream : stream[i].run # r
    /\ Published(Msg("proposals", fp, r, "none"))
    /\ UNCHANGED hissVars

Init ==
    /\ BusInit
    /\ HissInit

Next ==
    \/ \E fp \in Fingerprint, r \in Run : ProposeSet(fp, r)
    \/ HissStep

vars == <<busVars, hissVars>>

\* The consumers and the controller keep running: RunConsumer's loops and the
\* informer's resync.  People, the clock, clank and faults owe nothing.
Fairness ==
    /\ WF_vars(\E i \in DOMAIN stream : HandleProposal(i))
    /\ WF_vars(CreateRequest)
    /\ WF_vars(PublishDecision)
    /\ WF_vars(\E i \in DOMAIN stream : IgnoreApproval(i) \/ TakeHold(i))
    /\ WF_vars(PublishReissue)
    /\ \A fp \in Fingerprint :
           WF_vars(ReconcileRequest(fp)) /\ WF_vars(MarkProcessed(fp))

Spec == Init /\ [][Next]_vars

FairSpec == Spec /\ Fairness

-----------------------------------------------------------------------------
\* Type correctness of the stream, the holds, the requests and both consumers'
\* jobs (transport.go, pending.go).
TypeOK ==
    /\ BusTypeOK
    /\ HissTypeOK

Grants ==
    {i \in DOMAIN stream :
        stream[i].subject = "decisions" /\ stream[i].tag = "approved"}

\* Every grant is earned.  An approved decision is about a set that was proposed
\* for that fingerprint before it and that is not ungated; one that carries an
\* approver follows an ack of the fingerprint; any other is Evaluate's own
\* approval, or a human's force of a set on record as held.  So whatever is
\* redelivered, overwritten, rebuilt or raced (handle, approveHandler,
\* PendingHolds, rebuildHolds, calipers force).
GrantsEarned ==
    \A i \in Grants :
        LET m == stream[i]
        IN  /\ \E k \in 1..(i - 1) :
                  /\ stream[k].subject = "proposals"
                  /\ stream[k].fp = m.fp
                  /\ stream[k].run = m.run
            /\ Judgement[m.run] # "rejected"
            /\ m.acked =>
                  \E j \in 1..(i - 1) :
                      stream[j].subject = "approvals" /\ stream[j].fp = m.fp
            /\ ~m.acked =>
                  \/ Judgement[m.run] = "approved"
                  \/ \E j \in 1..(i - 1) :
                        /\ stream[j].subject = "decisions"
                        /\ stream[j].fp = m.fp
                        /\ stream[j].run = m.run
                        /\ stream[j].tag \in Awaits

\* Every proposed set is eventually answered: its decision is on the stream, or
\* its message was dead-lettered or ran out of deliveries (handle, Run).
ProposalsAnswered ==
    \A r \in Run :
        (\E i \in DOMAIN stream : stream[i].subject = "proposals" /\ stream[i].run = r)
        ~> \E i \in DOMAIN stream :
              /\ stream[i].run = r
              /\ \/ stream[i].subject = "decisions"
                 \/ stream[i].subject = "proposals" /\ Spent(i)

\* A held action resumes by hiss re-issuing an approved decision once a human
\* ack satisfies the condition hiss attached: with a set held, its hold on the
\* record and an ack deliverable, the set is granted, or another set takes
\* its place (docs/invariants.md I-15).
AckedHoldResumes ==
    \A fp \in Fingerprint, r \in Run :
        (/\ holds[fp] = r
         /\ RebuiltHold(fp) = r
         /\ \E i \in On("approvals", fp) : Deliverable("approvals", i))
        ~> \/ \E i \in Grants : stream[i].run = r
           \/ holds[fp] \notin {r, NoRun}

\* So it does as long as no call fails, no ack is lost and no process dies: two
\* sets, two consumers, the controller and a force racing for one hold never
\* lose a human's approval by themselves (approveHandler, PendingHolds.Take).
AckedHoldResumesUnlessFault ==
    \A fp \in Fingerprint, r \in {q \in Run : Judgement[q] # "rejected"} :
        (/\ holds[fp] = r
         /\ RebuiltHold(fp) = r
         /\ \E i \in On("approvals", fp) : Deliverable("approvals", i))
        ~> \/ \E i \in Grants : stream[i].run = r
           \/ holds[fp] \notin {r, NoRun}
           \/ faults > 0
=============================================================================
