-------------------------------- MODULE Bus --------------------------------
(***************************************************************************)
(* The message fabric the beats hand off across: one JetStream stream      *)
(* (THUMP), one durable consumer per subject, and the subscriber that      *)
(* settles each delivery (internal/broker).  Delivery is at least once: a  *)
(* message stays owed to its consumer until it is acked or terminated, or  *)
(* until the server has delivered it MaxDeliver times.                     *)
(*                                                                         *)
(* The beats' modules EXTEND this one, so a composition of beats shares    *)
(* one stream.  A message is a record of the fields the beats tell apart:  *)
(* subject, fingerprint (SignalRef), the proposal set it is about (the     *)
(* RunID of the Propose call that formed it), a verdict or result, and     *)
(* whether a human's ack produced it (Decision.Approver).                  *)
(***************************************************************************)
EXTENDS Naturals, Sequences

CONSTANTS
    Fingerprint,   \* rattle's "kind:object" fingerprints
    Run,           \* identities of Propose calls, hence of proposal sets
    NoRun,         \* "no proposal set"
    MaxDeliver,    \* broker.go's maxDeliver
    MaxFaults      \* bound: failed calls, lost acks and crashes in a behaviour

ASSUME BusAssumption ==
    /\ NoRun \notin Run
    /\ MaxDeliver \in Nat \ {0}
    /\ MaxFaults \in Nat

VARIABLES
    stream,     \* the stored messages, in stream order
    delivery,   \* for each stored message, its standing with its consumer
    faults      \* faults so far

busVars == <<stream, delivery, faults>>

Subject == {"detections", "proposals", "decisions", "outcomes",
            "declines", "approvals"}

Verdict == {"approved", "escalate", "rejected", "hold"}

Result == {"rendered", "applied", "proposed", "success", "failure",
           "blocked", "partial_non_converging"}

Message == [subject : Subject, fp : Fingerprint, run : Run \cup {NoRun},
            tag : Verdict \cup Result \cup {"none"}, acked : BOOLEAN]

Msg(subject, fp, run, tag) ==
    [subject |-> subject, fp |-> fp, run |-> run, tag |-> tag, acked |-> FALSE]

(***************************************************************************)
(* pending and n < MaxDeliver: the server still owes a delivery.  pending  *)
(* and n = MaxDeliver: the server gave up on its own, with no dead letter. *)
(* dropped: terminated, but the dead-letter publish failed and was logged. *)
(***************************************************************************)
Standing == [state : {"pending", "inflight", "acked", "deadlettered", "dropped"},
             n : 0..MaxDeliver]

Fresh == [state |-> "pending", n |-> 0]

BusTypeOK ==
    /\ stream \in Seq(Message)
    /\ delivery \in [1..Len(stream) -> Standing]
    /\ faults \in 0..MaxFaults

BusInit ==
    /\ stream = <<>>
    /\ delivery = <<>>
    /\ faults = 0

\* One failed call, lost ack or crash out of the behaviour's budget.
Fault ==
    /\ faults < MaxFaults
    /\ faults' = faults + 1

\* delivery once one more message is stored
Extended(d) ==
    [i \in 1..Len(stream) + 1 |-> IF i = Len(stream) + 1 THEN Fresh ELSE d[i]]

\* Mutant: no retry budget.
DeliverableForever(subject, i) ==
    /\ i \in DOMAIN stream
    /\ stream[i].subject = subject
    /\ delivery[i].state = "pending"

\* The consumer sees first deliveries in stream order; a redelivery comes
\* back after its backoff or its AckWait, in any order.
Deliverable(subject, i) ==
    /\ i \in DOMAIN stream
    /\ stream[i].subject = subject
    /\ delivery[i].state = "pending"
    /\ delivery[i].n < MaxDeliver
    /\ delivery[i].n = 0 =>
          \A j \in 1..(i - 1) : stream[j].subject = subject => delivery[j].n > 0

Delivered(i) ==
    [delivery EXCEPT ![i] = [state |-> "inflight", n |-> delivery[i].n + 1]]

\* The handler of message i returned nil.  A lost ack, or one later than
\* AckWait, leaves the message to be delivered again.
Acked(i, d) ==
    \/ /\ delivery' = [d EXCEPT ![i].state = "acked"]
       /\ UNCHANGED faults
    \/ /\ Fault
       /\ delivery' = [d EXCEPT ![i].state = "pending"]

\* The handler of message i returned an error (DOOR 2): nak, or dead-letter
\* and terminate once the retry budget is spent.  A failed dead-letter publish
\* is only logged.
Naked(i, d) ==
    IF d[i].n < MaxDeliver
    THEN delivery' = [d EXCEPT ![i].state = "pending"]
    ELSE \E s \in {"deadlettered", "dropped"} :
             delivery' = [d EXCEPT ![i].state = s]

Stored(m) == stream' = Append(stream, m)

\* A publish outside any handler: stored, or lost.
Published(m) ==
    /\ Stored(m)
    /\ delivery' = Extended(delivery)
    /\ UNCHANGED faults

\* A publish whose error the caller only logs.
TriedPublish(m) ==
    \/ Published(m)
    \/ /\ Fault
       /\ UNCHANGED <<stream, delivery>>

\* A publish as the last step of the handler of message i, which returns the
\* publish's error.  A publish that reports an error may have stored the
\* message all the same (the publish ack was lost), or not (the WAL append
\* or the publish failed).
PublishedThenReturned(i, m) ==
    \/ /\ Stored(m)
       /\ Acked(i, Extended(delivery))
    \/ /\ Fault
       /\ \/ Stored(m) /\ Naked(i, Extended(delivery))
          \/ UNCHANGED stream /\ Naked(i, delivery)

\* The process consuming these subjects died: the server redelivers what it
\* was handling.
Abandoned(subjects) ==
    delivery' =
      [i \in 1..Len(stream) |->
         IF stream[i].subject \in subjects /\ delivery[i].state = "inflight"
         THEN [delivery[i] EXCEPT !.state = "pending"]
         ELSE delivery[i]]

\* Message i will not be delivered again, though its handler never finished.
Spent(i) ==
    \/ delivery[i].state \in {"deadlettered", "dropped"}
    \/ delivery[i].state = "pending" /\ delivery[i].n = MaxDeliver

\* The messages of a subject about a fingerprint, as positions in the stream.
On(subject, fp) ==
    {i \in DOMAIN stream : stream[i].subject = subject /\ stream[i].fp = fp}
=============================================================================
