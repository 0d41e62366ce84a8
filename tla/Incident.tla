------------------------------ MODULE Incident ------------------------------
(***************************************************************************)
(* The incident projection (internal/incident) built from the broker:      *)
(* SnapshotBroker drains four subjects one after the other, while the      *)
(* engine goes on publishing, orders what it read by the time it was       *)
(* stored and folds it into one record.                                    *)
(***************************************************************************)
EXTENDS Records

CONSTANTS
    Batch,         \* messages of one FetchNoWait
    MaxSnapshots   \* bound: snapshots built

ASSUME IncidentAssumption == Batch \in Nat \ {0} /\ MaxPoison \in Nat

VARIABLES
    ipc,       \* "rest", "drain", "apply" or "done"
    subject,   \* the subject being drained
    taken,     \* the last object of it fetched
    events,    \* the objects collected and not yet applied
    began,     \* the stream's length when the snapshot began
    snap,      \* the projection's record
    snaps      \* snapshots built

incidentVars == <<ipc, subject, taken, events, began, snap, snaps>>

Drained == <<"detection", "set", "decision", "outcome">>

\* The zero Record.  Objects are named by their place in the stream, 0 is nil.
NoRecord == [stage |-> "", updatedAt |-> 0, detected |-> 0, proposed |-> 0,
             governed |-> 0, settled |-> <<>>]

\* Fold and FoldRecord: what object i changes, and nothing else.
FoldRecord(prior, i) ==
    LET obj  == stream[i]
        next == [prior EXCEPT !.updatedAt = i]
    IN  CASE obj.kind = "detection" -> [next EXCEPT !.stage = "detected", !.detected = i]
          [] obj.kind = "set" -> [next EXCEPT !.stage = "proposed", !.proposed = i]
          [] obj.kind = "decision" -> [next EXCEPT !.stage = "decided", !.governed = i]
          [] obj.kind = "outcome" ->
               [next EXCEPT !.stage = IF obj.what = "applied" THEN "applied" ELSE "settled",
                            !.settled = Append(@, i)]
          [] OTHER -> prior

\* A mutant of Earliest: the events as they were read, subject by subject.
EarliestAsRead(read) ==
    Min(read \cap Of(Drained[Min({s \in 1..4 : read \cap Of(Drained[s]) # {}})]))

\* sort.Slice by the time stored: the event that goes first.
Earliest(read) == Min(read)

-----------------------------------------------------------------------------
IncidentInit ==
    /\ ipc = "rest" /\ subject = 1 /\ taken = 0
    /\ events = {} /\ began = 0 /\ snap = NoRecord /\ snaps = 0

SnapshotBroker ==
    /\ ipc \in {"rest", "done"} /\ snaps < MaxSnapshots
    /\ ipc' = "drain" /\ subject' = 1 /\ taken' = 0 /\ events' = {}
    /\ began' = Len(stream) /\ snaps' = snaps + 1 /\ snap' = NoRecord

\* The next batch of the subject: the first of it that are left.
Fetched ==
    LET waiting == {i \in Of(Drained[subject]) : i > taken}
    IN  {i \in waiting : Cardinality({j \in waiting : j < i}) < Batch}

\* One batch of DrainSubject: poison is dropped, and a batch of which nothing
\* was folded ends the subject.
DrainSubject ==
    /\ ipc = "drain"
    /\ LET folded == {i \in Fetched : stream[i].what # "poison"}
       IN  /\ events' = events \cup folded
           /\ IF folded # {}
              THEN taken' = Max(Fetched) /\ UNCHANGED <<ipc, subject>>
              ELSE /\ taken' = 0
                   /\ IF subject < 4 THEN subject' = subject + 1 /\ UNCHANGED ipc
                                     ELSE ipc' = "apply" /\ UNCHANGED subject
    /\ UNCHANGED <<began, snap, snaps>>

\* The loop over the sorted events: the projection applies one, or is done.
ApplyEvent ==
    /\ ipc = "apply"
    /\ IF events # {}
       THEN LET i == Earliest(events)
            IN  snap' = FoldRecord(snap, i) /\ events' = events \ {i} /\ UNCHANGED ipc
       ELSE ipc' = "done" /\ UNCHANGED <<snap, events>>
    /\ UNCHANGED <<subject, taken, began, snaps>>

\* A create or a fetch fails: no projection.
DrainFails ==
    /\ ipc = "drain"
    /\ ipc' = "rest" /\ subject' = 1 /\ taken' = 0 /\ events' = {} /\ snap' = NoRecord
    /\ UNCHANGED <<began, snaps>>

IncidentStep ==
    /\ SnapshotBroker \/ DrainSubject \/ ApplyEvent \/ DrainFails
    /\ UNCHANGED recordVars
=============================================================================
