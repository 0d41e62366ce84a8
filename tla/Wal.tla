-------------------------------- MODULE Wal --------------------------------
(***************************************************************************)
(* The write-ahead log of one beat and subject (internal/publish): lines   *)
(* are appended to an active segment, which is sealed by a rename and then *)
(* shipped to a bucket.  Append, SealIfStale and Drain's seal hold the     *)
(* mutex; Ship, in the shipper's goroutine, does not.                      *)
(*                                                                         *)
(* A line is the number of the Append that wrote it.  A crash keeps what   *)
(* was synced and any part of the tail after it; renames are durable.      *)
(***************************************************************************)
EXTENDS Naturals, Sequences, FiniteSets

CONSTANTS
    SegmentLines,   \* MaxBytes, in lines
    MaxAppends,     \* bound: calls of Append
    MaxFaults       \* bound: failed calls, crashes and shutdowns

ASSUME WalAssumption ==
    /\ SegmentLines \in Nat \ {0}
    /\ MaxAppends \in Nat
    /\ MaxFaults \in Nat

VARIABLES
    wal,          \* the WAL's fields and its directory
    recovering,   \* recoverOrphan's progress
    ship,         \* Ship's progress
    bucket,       \* the segments in the object store
    tried,        \* calls of Append so far
    appended,     \* lines whose Append returned nil (history)
    lost,         \* lines a crash took from the unsynced tail (history)
    raced,        \* a segment was read for upload while being recovered (history)
    faults        \* faults so far

vars == <<wal, recovering, ship, bucket, tried, appended, lost, raced, faults>>

Name == [base : Nat, at : Nat]

\* by: a rename of the active segment, or a copy of an orphaned one.
Segment == [name : Name, lines : Seq(Nat), by : {"seal", "recovery"}]

\* The file at the active segment's path.
File == [exists : BOOLEAN, lines : Seq(Nat), synced : Nat]

NoFile == [exists |-> FALSE, lines |-> <<>>, synced |-> 0]

EmptyFile == [exists |-> TRUE, lines |-> <<>>, synced |-> 0]

\* handle is w.active: nil, usable, or closed by a seal that then failed.
\* sealed holds every segment seal ever renamed (history).
Log == [handle : {"nil", "open", "closed"}, file : File, base : Nat, clock : Nat,
        segments : SUBSET Segment, sealed : SUBSET Segment]

NoName == [base |-> 0, at |-> 0]

NotRecovering == [step |-> "no", name |-> NoName]

NotShipping == [step |-> "no", left |-> {}]

\* Type correctness of the log, its directory, the shipper and the bucket
\* (wal.go, shipper.go).
TypeOK ==
    /\ wal \in Log
    /\ recovering \in [step : {"no", "copy", "copied"}, name : Name]
    /\ ship \in [step : {"no", "listed", "put"}, left : SUBSET Name]
    /\ bucket \in SUBSET Segment
    /\ tried \in 0..MaxAppends
    /\ appended \in SUBSET Nat
    /\ lost \in SUBSET Nat
    /\ raced \in BOOLEAN
    /\ faults \in 0..MaxFaults

Init ==
    /\ wal = [handle |-> "nil", file |-> NoFile, base |-> 0, clock |-> 0,
              segments |-> {}, sealed |-> {}]
    /\ recovering = NotRecovering
    /\ ship = NotShipping
    /\ bucket = {}
    /\ tried = 0
    /\ appended = {}
    /\ lost = {}
    /\ raced = FALSE
    /\ faults = 0

Spend(cost) ==
    /\ faults + cost <= MaxFaults
    /\ faults' = faults + cost

Lines(s) == {s[i] : i \in 1..Len(s)}

-----------------------------------------------------------------------------
\* Names and the directory.

\* Mutant: the name does not carry the time of the seal.
UnstampedName(base, at) == [base |-> base, at |-> 0]

SegmentName(base, at) == [base |-> base, at |-> at]

\* The order of the file names: the zero-padded base, then the stamp.
Before(n, m) == n.base < m.base \/ (n.base = m.base /\ n.at < m.at)

\* A rename, a create with O_TRUNC and a Put all replace what has the name.
Replacing(segments, s) == {t \in segments : t.name # s.name} \cup {s}

\* Mutant: the number of the last sealed segment on disk.
LastBaseOffset == Cardinality(wal.segments) - 1

\* nextBaseOffset counts the sealed segments still on disk.
NextBaseOffset == Cardinality(wal.segments)

-----------------------------------------------------------------------------
\* What a call under the mutex may do to the log: the log after it, the error it
\* returned, and the faults it took.

Did(w, err, cost) == [log |-> w, err |-> err, cost |-> cost]

\* seal: sync and close, rename, open a fresh active segment.
Seals(w) ==
    LET segment == [name |-> SegmentName(w.base, w.clock), lines |-> w.file.lines,
                    by |-> "seal"]
        closed == [w EXCEPT !.handle = "closed", !.file.synced = Len(w.file.lines)]
        renamed == [w EXCEPT !.handle = "nil", !.file = NoFile, !.base = w.base + 1,
                             !.clock = w.clock + 1,
                             !.segments = Replacing(w.segments, segment),
                             !.sealed = w.sealed \cup {segment}]
        fresh == [renamed EXCEPT !.handle = "open", !.file = EmptyFile]
    IN  IF w.handle = "closed" THEN {Did(w, "failed", 0)}
        ELSE {Did(fresh, "nil", 0), Did(renamed, "failed", 1),
              Did(closed, "failed", 1), Did(w, "failed", 1)}

\* A line is written whole or not at all.
Writes(w, n) ==
    IF w.handle = "closed" THEN {Did(w, "failed", 0)}
    ELSE {Did([w EXCEPT !.file.lines = Append(w.file.lines, n)], "nil", 0),
          Did(w, "failed", 1)}

Idle(w) == {Did(w, "nil", 0)}

\* Append past ensureActive: an aged segment is sealed first, a full one after.
Appends(n) ==
    UNION {IF a.err # "nil" THEN {a}
           ELSE UNION {IF b.err # "nil" THEN {[b EXCEPT !.cost = a.cost + b.cost]}
                       ELSE {[c EXCEPT !.cost = a.cost + b.cost + c.cost] :
                                c \in IF Len(b.log.file.lines) >= SegmentLines
                                      THEN Seals(b.log) ELSE Idle(b.log)}
                       : b \in Writes(a.log, n)}
           : a \in Idle(wal) \cup Seals(wal)}

AppendLine ==
    /\ wal.handle # "nil"
    /\ tried < MaxAppends
    /\ tried' = tried + 1
    /\ \E did \in Appends(tried + 1) :
          /\ Spend(did.cost)
          /\ wal' = did.log
          /\ appended' = IF did.err = "nil" THEN appended \cup {tried + 1} ELSE appended
    /\ UNCHANGED <<recovering, ship, bucket, lost, raced>>

\* SealIfStale, and Drain before it ships: an empty segment is left alone.
SealStale ==
    /\ wal.handle # "nil"
    /\ wal.file.lines # <<>>
    /\ \E did \in Seals(wal) :
          /\ Spend(did.cost)
          /\ wal' = did.log
    /\ UNCHANGED <<recovering, ship, bucket, tried, appended, lost, raced>>

\* runSyncLoop
SyncActive ==
    /\ wal.handle = "open"
    /\ wal.file.synced < Len(wal.file.lines)
    /\ wal' = [wal EXCEPT !.file.synced = Len(wal.file.lines)]
    /\ UNCHANGED <<recovering, ship, bucket, tried, appended, lost, raced, faults>>

-----------------------------------------------------------------------------
\* ensureActive, at the first Append of a process or after a failed open.  The
\* mutex is held from here to the end of that Append.

OpenActive ==
    /\ wal.handle = "nil"
    /\ ~wal.file.exists
    /\ wal' = [wal EXCEPT !.handle = "open", !.file = EmptyFile, !.base = NextBaseOffset]
    /\ UNCHANGED <<recovering, ship, bucket, tried, appended, lost, raced, faults>>

\* recoverOrphan creates the sealed segment under its final name,
BeginRecovery ==
    /\ wal.handle = "nil"
    /\ wal.file.exists
    /\ recovering.step = "no"
    /\ LET name == SegmentName(NextBaseOffset, wal.clock)
       IN  /\ recovering' = [step |-> "copy", name |-> name]
           /\ wal' = [wal EXCEPT !.clock = wal.clock + 1,
                                 !.base = NextBaseOffset,
                                 !.segments = Replacing(wal.segments, [name |-> name, lines |-> <<>>,
                                                                     by |-> "recovery"])]
    /\ UNCHANGED <<ship, bucket, tried, appended, lost, raced, faults>>

\* writes into it what it read, which reaches no directory entry once the
\* shipper has removed the file,
Copied(lines) ==
    {IF s.name = recovering.name THEN [s EXCEPT !.lines = lines] ELSE s :
        s \in wal.segments}

\* Mutant: the copy is cut before the last newline, not after it.
CopyOrphanCut ==
    /\ recovering.step = "copy"
    /\ wal' = [wal EXCEPT !.segments =
                 Copied(SubSeq(wal.file.lines, 1, Len(wal.file.lines) - 1))]
    /\ recovering' = [recovering EXCEPT !.step = "copied"]
    /\ UNCHANGED <<ship, bucket, tried, appended, lost, raced, faults>>

CopyOrphan ==
    /\ recovering.step = "copy"
    /\ \/ /\ wal' = [wal EXCEPT !.segments = Copied(wal.file.lines)]
          /\ recovering' = [recovering EXCEPT !.step = "copied"]
          /\ UNCHANGED faults
       \/ /\ Spend(1)
          /\ \E k \in 0..Len(wal.file.lines) :
                wal' = [wal EXCEPT !.segments = Copied(SubSeq(wal.file.lines, 1, k))]
          /\ recovering' = NotRecovering
    /\ UNCHANGED <<ship, bucket, tried, appended, lost, raced>>

\* and removes the orphan.
RemoveOrphan ==
    /\ recovering.step = "copied"
    /\ \/ /\ wal' = [wal EXCEPT !.handle = "open", !.file = EmptyFile, !.base = wal.base + 1]
          /\ UNCHANGED faults
       \/ /\ Spend(1)
          /\ wal' \in {wal, [wal EXCEPT !.file = NoFile, !.base = wal.base + 1]}
    /\ recovering' = NotRecovering
    /\ UNCHANGED <<ship, bucket, tried, appended, lost, raced>>

-----------------------------------------------------------------------------
\* Ship.

\* SealedSegments
BeginShip ==
    /\ ship.step = "no"
    /\ wal.segments # {}
    /\ ship' = [step |-> "listed", left |-> {s.name : s \in wal.segments}]
    /\ UNCHANGED <<wal, recovering, bucket, tried, appended, lost, raced, faults>>

\* n is the next in the sorted list.
FirstLeft(n) == n \in ship.left /\ \A m \in ship.left \ {n} : Before(n, m)

\* Ship goes on to what is left, or returns.
ShipRest(left) ==
    ship' = IF left = {} THEN NotShipping ELSE [step |-> "listed", left |-> left]

\* shipOne opens the file and uploads what it holds by then.  Any error ends
\* Ship.
PutSegment ==
    /\ ship.step = "listed"
    /\ \/ \E s \in wal.segments :
             /\ FirstLeft(s.name)
             /\ bucket' = Replacing(bucket, s)
             /\ raced' = (raced \/ (recovering.step = "copy" /\ s.name = recovering.name))
             /\ \/ ship' = [ship EXCEPT !.step = "put"] /\ UNCHANGED faults
                \/ ship' = NotShipping /\ Spend(1)
       \/ /\ Spend(1)
          /\ ship' = NotShipping
          /\ UNCHANGED <<bucket, raced>>
    /\ UNCHANGED <<wal, recovering, tried, appended, lost>>

\* Mutant: an uploaded segment stays on disk.
KeepSegment ==
    /\ ship.step = "put"
    /\ \E n \in ship.left : FirstLeft(n) /\ ShipRest(ship.left \ {n})
    /\ UNCHANGED <<wal, recovering, bucket, tried, appended, lost, raced, faults>>

RemoveSegment ==
    /\ ship.step = "put"
    /\ \/ /\ \E n \in ship.left :
                /\ FirstLeft(n)
                /\ wal' = [wal EXCEPT !.segments = {s \in wal.segments : s.name # n}]
                /\ ShipRest(ship.left \ {n})
          /\ UNCHANGED faults
       \/ /\ Spend(1)
          /\ ship' = NotShipping
          /\ UNCHANGED wal
    /\ UNCHANGED <<recovering, bucket, tried, appended, lost, raced>>

-----------------------------------------------------------------------------
\* The end of the process, and the start of the next one.

\* The log a new process finds, with the first k lines of the active segment.
Reopened(k) ==
    [wal EXCEPT !.handle = "nil",
                !.file = IF wal.file.exists
                         THEN [EmptyFile EXCEPT !.lines = SubSeq(wal.file.lines, 1, k),
                                                !.synced = k]
                         ELSE NoFile]

Crash ==
    /\ Spend(1)
    /\ \E k \in wal.file.synced..Len(wal.file.lines) :
          /\ wal' = Reopened(k)
          /\ lost' = lost \cup {wal.file.lines[i] : i \in (k + 1)..Len(wal.file.lines)}
    /\ recovering' = NotRecovering
    /\ ship' = NotShipping
    /\ UNCHANGED <<bucket, tried, appended, raced>>

\* Close, after Drain has sealed and shipped: the active segment is synced.
Close ==
    /\ Spend(1)
    /\ wal.handle # "nil"
    /\ ship.step = "no"
    /\ wal' = Reopened(Len(wal.file.lines))
    /\ UNCHANGED <<recovering, ship, bucket, tried, appended, lost, raced>>

Next ==
    \/ AppendLine
    \/ SealStale
    \/ SyncActive
    \/ OpenActive
    \/ BeginRecovery
    \/ CopyOrphan
    \/ RemoveOrphan
    \/ BeginShip
    \/ PutSegment
    \/ RemoveSegment
    \/ Crash
    \/ Close

\* poll.Loop keeps calling Ship, each call under a timeout.
Fairness ==
    /\ WF_vars(BeginShip)
    /\ WF_vars(PutSegment)
    /\ WF_vars(RemoveSegment)

Spec == Init /\ [][Next]_vars

FairSpec == Spec /\ Fairness

-----------------------------------------------------------------------------
\* A sealed segment is never lost or corrupted: what seal renamed is on disk as
\* it was, or in the bucket as it was, whatever is sealed, recovered, shipped
\* or restarted after it (seal, SealedSegments, shipOne, nextBaseOffset).
SealedKept == wal.sealed \subseteq wal.segments \cup bucket

Kept ==
    Lines(wal.file.lines) \cup UNION {Lines(s.lines) : s \in wal.segments \cup bucket}

\* A crash can lose at most the unsynced tail of the active segment: every other
\* line whose Append returned nil is in the active segment, in a sealed one or
\* in the bucket (the comment on WAL).
RecordsKept == appended \subseteq Kept \cup lost

\* So it is, as long as the shipper does not upload a segment that recoverOrphan
\* is still writing (Append, seal, recoverOrphan, Ship).
KeptUnlessRaced == raced \/ RecordsKept

\* What is sealed is shipped in the end (RunShipper, Ship).
SegmentsShip == []<>(wal.segments = {})

\* The order of the file names is the order the segments were sealed in
\* (the comment on SealedSegments).
NamesInSealOrder ==
    \A s, t \in wal.segments : s.name.at < t.name.at => Before(s.name, t.name)

=============================================================================
