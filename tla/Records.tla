------------------------------ MODULE Records ------------------------------
(***************************************************************************)
(* The boundary objects of one fingerprint, as the tools that only read    *)
(* them see them.  The engine publishes detections, sets, decisions,       *)
(* outcomes, declines and holds; the stream keeps them in the order they   *)
(* were stored, and hands each to the subscriptions open on its subject.   *)
(*                                                                         *)
(* One tool reads: of the subjects it never replays nothing is kept.  An   *)
(* object's place in the stream stands for its timestamp, a number names a *)
(* run of the reason loop, and born is the coarse time in its RunID.       *)
(***************************************************************************)
EXTENDS Integers, Sequences, FiniteSetsExt

CONSTANTS
    MaxDetections,  \* bound: objects on the detections subject, by tool
    MaxPoison,      \* bound: those that do not decode
    MaxRuns,        \* bound: runs of the reason loop
    MaxStored       \* bound: objects kept, by tool

ASSUME RecordsAssumption == MaxRuns \in Nat

VARIABLES
    tool,      \* the tool that reads: "harvest", "incident" or "corpus"
    stream,    \* the objects kept: [kind, run, what]
    queue,     \* subject -> what a subscription has yet to deliver
    open,      \* the subjects with a subscription
    detections, poison,  \* published, and how many of them decode to nothing
    stage,     \* run -> how far the engine has taken it
    born,      \* run -> the time in its RunID
    now        \* coarse time: rows of a harvest are further apart than runIDGrace

recordVars == <<tool, stream, queue, open, detections, poison, stage, born, now>>

Run == 1..MaxRuns

Subjects == {"detection", "set", "decision", "outcome", "held", "decline"}

\* The subjects the tool reads from the start of the stream's retention.
Replayed == CASE tool = "harvest" -> {"set"}
              [] tool = "incident" -> {"detection", "set", "decision", "outcome"}
              [] tool = "corpus" -> {"set", "outcome"}

\* The places of the kept objects of this kind.
Of(kind) == {i \in DOMAIN stream : stream[i].kind = kind}

RecordsInit ==
    /\ stream = <<>> /\ queue = [s \in Subjects |-> <<>>] /\ open = {}
    /\ detections = 0 /\ poison = 0
    /\ stage = [r \in Run |-> "none"] /\ born = [r \in Run |-> 0]
    /\ now = 0

Publish(kind, run, what) ==
    LET obj == [kind |-> kind, run |-> run, what |-> what]
    IN  /\ IF kind \in Replayed
           THEN Len(stream) < MaxStored[tool] /\ stream' = Append(stream, obj)
           ELSE UNCHANGED stream
        /\ queue' = IF kind \in open THEN [queue EXCEPT ![kind] = Append(@, obj)] ELSE queue

Moves(r, from, to) ==
    /\ stage[r] = from
    /\ stage' = [stage EXCEPT ![r] = to]

\* rattle publishes a detection, or what lands on its subject does not decode.
Detect ==
    /\ detections < MaxDetections[tool] /\ detections' = detections + 1
    /\ \/ Publish("detection", 0, "") /\ UNCHANGED poison
       \/ poison < MaxPoison /\ poison' = poison + 1 /\ Publish("detection", 0, "poison")
    /\ UNCHANGED <<stage, born>>

\* clank takes a detection up, one at a time; the runs are numbered as they begin.
BeginRun(r) ==
    /\ detections > poison
    /\ \A q \in Run : stage[q] # "reasoning" /\ (q < r => stage[q] # "none")
    /\ Moves(r, "none", "reasoning")
    /\ born' = [born EXCEPT ![r] = now]
    /\ UNCHANGED <<stream, queue, detections, poison>>

\* The run ends in a set, or in a refusal that reaches no subject.
Propose(r) ==
    /\ \/ Moves(r, "reasoning", "proposed") /\ Publish("set", r, "")
       \/ Moves(r, "reasoning", "refused") /\ UNCHANGED <<stream, queue>>
    /\ UNCHANGED <<born, detections, poison>>

\* hiss rules; a ruling the tool does not read is taken with its answer.
Rule(r) ==
    /\ "decision" \in Replayed
    /\ \E verdict \in {"approved", "hold", "rejected"} :
         Moves(r, "proposed", verdict) /\ Publish("decision", r, verdict)
    /\ UNCHANGED <<born, detections, poison>>

Ruled(verdict) == IF "decision" \in Replayed THEN verdict ELSE "proposed"

\* thump answers the ruling.
Answer(r) ==
    /\ \/ /\ \E granted \in {Ruled("approved"), "approved"} : Moves(r, granted, "applied")
          /\ Publish("outcome", r, "applied")
       \/ Moves(r, Ruled("hold"), "held") /\ Publish("held", r, "")
       \/ Moves(r, Ruled("rejected"), "declined") /\ Publish("decline", r, "")
    /\ UNCHANGED <<born, detections, poison>>

\* A person approves what was held: a second ruling, however late.
Approve(r) ==
    /\ Moves(r, "held", "approved") /\ Publish("decision", r, "approved")
    /\ UNCHANGED <<born, detections, poison>>

\* The convergence watcher settles an applied action.
Converge(r) ==
    /\ Moves(r, "applied", "settled") /\ Publish("outcome", r, "settled")
    /\ UNCHANGED <<born, detections, poison>>

Engine ==
    /\ \/ Detect
       \/ \E r \in Run : BeginRun(r) \/ Propose(r) \/ Rule(r) \/ Answer(r)
                       \/ Approve(r) \/ Converge(r)
    /\ UNCHANGED <<tool, open, now>>
=============================================================================
