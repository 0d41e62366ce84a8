--------------------------- MODULE ObserveProofs ---------------------------
(***************************************************************************)
(* The tools that read the records, for any table, stream and artifact:    *)
(* the harvest puts its rig back and never reports a run twice, the miner  *)
(* loses no label, and a finished projection has all of the history it was *)
(* asked for.  The engine and the three tools step in any order; each      *)
(* invariant is about one tool's state and the records it reads.           *)
(***************************************************************************)
EXTENDS Observe, FiniteSetTheorems, TLAPS

\* A leaf that names no backend is tried with SMT, then with Zenon.
USE SMTT(40), ZenonT(30)

-----------------------------------------------------------------------------
\* The rig.  While a restore runs, what it has passed is undone or stuck; and
\* what is stuck is an error of this row or of an earlier one.
Between == {"main", "next", "cool", "exit"}

RigInv ==
    /\ scenario \in Authored
    /\ rig \subseteq 0..N /\ stuck \subseteq 0..N
    /\ hpc = "set" => step \in 1..(N + 1)
    /\ hpc = "restore" =>
         /\ step \in 0..N
         /\ \A i \in rig \ stuck : \E n \in step..N : i = RestoreItem(n)
    /\ hpc \in Between \cup {"report"} => rig \subseteq stuck
    /\ failed \in BOOLEAN /\ err \in BOOLEAN
    /\ stuck # {} => failed = TRUE \/ (err = TRUE /\ hpc \notin Between)

-----------------------------------------------------------------------------
\* The runs.  A row takes a set only of a run that began in it, and time moves
\* on before the next row begins.
Begun(r) == r \in Run /\ stage[r] # "none"

Said == {"", "poison", "approved", "hold", "rejected", "applied", "settled"}

Object == [kind : Subjects, run : Nat, what : Said]

\* A set is of a run that has begun.
Sound(stages) == {o \in Object : o.kind = "set" => o.run \in Run /\ stages[o.run] # "none"}
OfKind(kind, stages) == {o \in Sound(stages) : o.kind = kind}

RecordsSound ==
    /\ stage = [r \in Run |-> stage[r]]
    /\ born \in [Run -> Nat] /\ now \in Nat
    /\ \A r \in Run : born[r] <= now
    /\ stream \in Seq(Sound(stage))
    /\ queue = [s \in Subjects |-> queue[s]]
    /\ \A s \in Subjects : queue[s] \in Seq(OfKind(s, stage))
    /\ tool = "harvest" => stream \in Seq(OfKind("set", stage))

Verdict == {"", "approved", "declined", "held", "refused"}

\* This row's result is in, and its time has not passed.
Reported == hpc \in {"cool", "exit"} \/ (hpc = "next" /\ row >= Repeat)

RowInv ==
    /\ row \in Nat /\ matched \in Nat /\ term \in Verdict
    /\ results \in Seq([verdict : Verdict, run : Nat])
    /\ matched # 0 /\ hpc \notin Between => Begun(matched) /\ born[matched] = now
    /\ \A i \in 1..Len(results) :
         results[i].run # 0 =>
            /\ Begun(results[i].run)
            /\ Reported \/ born[results[i].run] < now
    /\ RowsOwnTheirRuns

-----------------------------------------------------------------------------
\* The corpus.  A case is at some time, so of the cases of an incident one is
\* the latest; and what was cut out of the file is about to be written back.
Timed(cases) == \E b \in Nat : \A c \in cases : c.at \in 0..b

OneEach(cases) == \A c, d \in cases : IncidentOf(c) = IncidentOf(d) => c = d

CorpusInv ==
    /\ shipped \subseteq DOMAIN stream /\ sets \subseteq shipped /\ outs \subseteq shipped
    /\ artifact.version = 0 => artifact.cases \subseteq Case
    /\ Timed(artifact.cases) /\ Timed(merged) /\ OneEach(merged)
    /\ Readable(artifact) => known \subseteq Labelled(ReadCorpus(artifact))
    /\ mpc = "encode" => known \subseteq Labelled(merged)

-----------------------------------------------------------------------------
\* The types.  A row is begun before time moves on and before it is reported,
\* and what waits for a leg waits only while the leg is open.
Waits == {"set", "fault", "open", "settle", "restore", "report"}

CountInv ==
    /\ hpc \in Between \cup Waits /\ refusal \in {"unset", "armed", "stopped"}
    /\ matched \in 0..MaxRuns /\ row \in 0..Repeat
    /\ now <= row /\ (hpc \in Waits \cup {"cool"} => now < row)
    /\ Len(results) <= row /\ (hpc \in Waits => Len(results) < row)

QueueInv ==
    /\ \A i \in DOMAIN stream : stream[i].kind \in Replayed
    /\ \A s \in Subjects \ open : queue[s] = <<>>

-----------------------------------------------------------------------------
\* The projection.  What of the history was stored before it began is among the
\* events once its subject has been drained that far, and afterwards it is still
\* an event or it has been folded; the events left are later than all folded.
Kinds == {"detection", "set", "decision", "outcome"}

Poison == {i \in DOMAIN stream : stream[i].what = "poison"}

Before(kind) == {i \in Of(kind) : i <= began /\ stream[i].what # "poison"}

\* Of a sequence of places.
Increasing(s) == \A k, l \in DOMAIN s : k < l => s[k] < s[l]
UpTo(s, n) == \A k \in DOMAIN s : s[k] <= n
Has(s, i) == \E k \in DOMAIN s : s[k] = i

\* The record knows of object i.
InRecord(record, i) ==
    /\ i <= record.updatedAt
    /\ stream[i].kind = "detection" => i <= record.detected
    /\ stream[i].kind = "set" => i <= record.proposed
    /\ stream[i].kind = "decision" => i <= record.governed
    /\ stream[i].kind = "outcome" => Has(record.settled, i)

Stages == {"", "detected", "proposed", "decided", "applied", "settled"}

Record == [stage : Stages, updatedAt : Nat, detected : Nat, proposed : Nat, governed : Nat,
           settled : Seq(Nat)]

\* The outcomes of a record are in the order they were stored.
InOrder(record) == UpTo(record.settled, record.updatedAt) /\ Increasing(record.settled)

PoisonInv == poison \in 0..MaxPoison /\ Cardinality(Poison) <= poison

SnapType ==
    /\ ipc \in {"rest", "drain", "apply", "done"} /\ (ipc # "rest" => tool = "incident")
    /\ subject \in 1..4 /\ taken \in Nat /\ began \in 0..Len(stream)
    /\ events \subseteq DOMAIN stream /\ (\A i \in events : stream[i].kind \in Kinds)
    /\ snap \in Record /\ snap.updatedAt <= Len(stream)

SnapInv ==
    /\ \A i \in events : snap.updatedAt < i
    /\ InOrder(snap)
    /\ ipc = "drain" =>
         /\ snap.updatedAt = 0
         /\ \A s \in 1..4 : \A i \in Before(Drained[s]) :
              s < subject \/ (s = subject /\ i <= taken) => i \in events
    /\ ipc \in {"apply", "done"} =>
         \A kind \in Kinds : \A i \in Before(kind) : i \in events \/ InRecord(snap, i)
    /\ ipc = "done" => events = {}

-----------------------------------------------------------------------------
\* The rig.

LEMMA Rows ==
    ASSUME RigInv
    PROVE  N \in Nat
<1>1. scenario.preconditions \in Seq([set : BOOLEAN, restore : BOOLEAN])
  BY HarvestAssumption DEF RigInv
<1> QED
  BY <1>1 DEF N

\* restore goes over every item a row may have applied, each once.
LEMMA RestoreAll ==
    ASSUME N \in Nat
    PROVE  /\ \A n \in 0..N : RestoreItem(n) \in 0..N
           /\ \A i \in 0..N : \E n \in 0..N : i = RestoreItem(n)
<1>1. \A n \in 0..N : RestoreItem(n) \in 0..N
  BY DEF RestoreItem
<1>2. ASSUME NEW i \in 0..N
      PROVE  \E n \in 0..N : i = RestoreItem(n)
  <2>1. CASE i = 0
    BY <2>1 DEF RestoreItem
  <2>2. CASE i # 0
    <3>1. N + 1 - i \in 0..N /\ N + 1 - i # 0 /\ N + 1 - (N + 1 - i) = i
      BY <2>2
    <3> QED
      BY <3>1, Zenon DEF RestoreItem
  <2> QED
    BY <2>1, <2>2
<1> QED
  BY <1>1, <1>2

\* Every return of Run leaves it to the deferred restore.
LEMMA LeavingKeepsRig ==
    ASSUME RigInv, UNCHANGED <<scenario, stuck, failed>>, rig' \subseteq 0..N,
           hpc \notin Between, hpc' = "restore", step' = 0, err' \in BOOLEAN,
           err = TRUE => err' = TRUE
    PROVE  RigInv'
<1>1. N \in Nat /\ N' = N
  BY Rows DEF N
<1>2. \A i \in 0..N : \E n \in 0..N : i = RestoreItem(n)
  BY <1>1, RestoreAll
<1>3. \A n \in 0..N : RestoreItem(n)' = RestoreItem(n)
  BY <1>1 DEF RestoreItem
<1>4. \A i \in rig' \ stuck' : \E n \in 0..N : i = RestoreItem(n)'
  BY <1>2, <1>3
<1> QED
  BY <1>1, <1>4 DEF RigInv, Between

\* Main, the rows' beginning and end, and the interrupt.
LEMMA RowKeepsRig ==
    ASSUME RigInv, Main \/ NextRow \/ Report \/ Cool \/ Interrupt
    PROVE  RigInv'
<1>1. N \in Nat /\ UNCHANGED <<scenario, rig, stuck>>
  BY Rows, Zenon DEF Main, NextRow, Report, Cool, Interrupt, rigVars
<1>2. N' = N /\ \A n \in 0..N : RestoreItem(n)' = RestoreItem(n)
  BY <1>1 DEF N, RestoreItem
<1>3. CASE Main \/ NextRow \/ Report \/ Cool
  <2>1. /\ hpc' \in {"next", "exit", "set", "cool"} /\ hpc \in Between \cup {"report"}
        /\ hpc' = "set" => step' = 1
    BY <1>3, Zenon DEF Main, NextRow, Report, Cool, At, Between
  <2>2. /\ failed' \in BOOLEAN /\ err' \in BOOLEAN
        /\ stuck # {} => failed' = TRUE
    BY <1>3, Zenon DEF Main, NextRow, Report, Cool, At, Between, RigInv, endVars
  <2>3. rig \subseteq stuck
    BY <2>1 DEF RigInv
  <2> QED
    BY <1>1, <1>2, <2>1, <2>2, <2>3 DEF RigInv
<1>4. CASE Interrupt
  <2>1. UNCHANGED <<hpc, step, failed, err>>
    BY <1>4 DEF Interrupt
  <2> QED
    BY <1>1, <1>2, <2>1 DEF RigInv
<1> QED
  BY <1>3, <1>4

\* The preconditions, the broker's liveness and the fault.
LEMMA ApplyKeepsRig ==
    ASSUME RigInv, SetPrecondition \/ CheckLive \/ ApplyFault
    PROVE  RigInv'
<1>1. N \in Nat /\ UNCHANGED <<scenario, stuck, failed>> /\ hpc \in {"set", "fault"}
  BY Rows DEF SetPrecondition, CheckLive, ApplyFault, rigVars, endVars
<1>2. N' = N
  BY <1>1 DEF N
<1>3. rig' \subseteq 0..N
  <2>1. rig \subseteq 0..N /\ 0 \in 0..N /\ (hpc = "set" /\ step <= N => step \in 0..N)
    BY <1>1 DEF RigInv
  <2>2. rig' = rig \/ rig' = rig \cup {0} \/ (hpc = "set" /\ step <= N /\ rig' = rig \cup {step})
    BY DEF SetPrecondition, CheckLive, ApplyFault, Apply, rigVars
  <2> QED
    BY <2>1, <2>2, Zenon
<1>4. \/ hpc' = "restore" /\ step' = 0 /\ err' = TRUE
      \/ /\ hpc' \in {"set", "fault", "open"} /\ UNCHANGED err
         /\ hpc' = "set" => step' \in 1..(N + 1)
  BY <1>1 DEF SetPrecondition, CheckLive, ApplyFault, Apply, At, Leaves, RigInv
<1>5. CASE hpc' = "restore" /\ step' = 0 /\ err' = TRUE
  BY <1>1, <1>3, <1>5, LeavingKeepsRig DEF Between
<1>6. CASE /\ hpc' \in {"set", "fault", "open"} /\ UNCHANGED err
           /\ hpc' = "set" => step' \in 1..(N + 1)
  BY <1>1, <1>2, <1>3, <1>6 DEF RigInv, Between
<1> QED
  BY <1>4, <1>5, <1>6, Zenon

\* Settle: it waits, or its return leaves the row to the restore.
LEMMA SettleKeepsRig ==
    ASSUME RigInv, OpenLeg \/ Settle
    PROVE  RigInv'
<1>1. /\ N \in Nat /\ UNCHANGED <<scenario, rig, stuck, failed>>
      /\ hpc \in {"open", "settle"}
  BY Rows, Zenon DEF OpenLeg, Settle, TakeOutcome, TakeDecline, TakeHeld, TakeDetection, TakeSet,
     RefusalFires, WindowCloses, Receive, Settled, rigVars, endVars
<1>2. N' = N
  BY <1>1 DEF N
<1>3. \/ hpc' = "restore" /\ step' = 0 /\ err' \in BOOLEAN /\ (err = TRUE => err' = TRUE)
      \/ hpc' \in {"open", "settle"} /\ UNCHANGED err
  BY <1>1, Zenon DEF OpenLeg, Settle, TakeOutcome, TakeDecline, TakeHeld, TakeDetection, TakeSet,
     RefusalFires, WindowCloses, Receive, Settled, At, Leaves, RigInv
<1>4. CASE hpc' = "restore" /\ step' = 0 /\ err' \in BOOLEAN /\ (err = TRUE => err' = TRUE)
  BY <1>1, <1>4, LeavingKeepsRig, Zenon DEF Between, RigInv
<1>5. CASE hpc' \in {"open", "settle"} /\ UNCHANGED err
  BY <1>1, <1>2, <1>5 DEF RigInv, Between
<1> QED
  BY <1>3, <1>4, <1>5, Zenon

\* A step of the restore: done, failed, or the last before its timeout.
LEMMA RestoreKeepsRig ==
    ASSUME RigInv, RestoreStep
    PROVE  RigInv'
<1>1. /\ N \in Nat /\ UNCHANGED <<scenario, failed>> /\ hpc = "restore" /\ step \in 0..N
  BY Rows, Zenon DEF RestoreStep, endVars, RigInv
<1>2. N' = N /\ \A n \in 0..N : RestoreItem(n)' = RestoreItem(n) /\ RestoreItem(n) \in 0..N
  BY <1>1, RestoreAll DEF N, RestoreItem
<1>3. \A i \in rig \ stuck : i = RestoreItem(step) \/ \E n \in (step + 1)..N : i = RestoreItem(n)
  <2>1. \A n \in step..N : n = step \/ n \in (step + 1)..N
    BY <1>1
  <2> QED
    BY <1>1, <2>1 DEF RigInv
<1>4. rig' \subseteq 0..N /\ stuck' \subseteq 0..N
  <2>1. RestoreItem(step) \in 0..N /\ \A n \in step..N : RestoreItem(n) \in 0..N
    BY <1>1, <1>2
  <2> QED
    BY <2>1, Zenon DEF RestoreStep, RigInv
<1>5. err' \in BOOLEAN /\ (stuck' # {} => failed' = TRUE \/ err' = TRUE)
  BY <1>1, Zenon DEF RestoreStep, RigInv, Between
<1>6. \A i \in rig' \ stuck' : \E n \in (step + 1)..N : i = RestoreItem(n)
  <2>1. step \in step..N
    BY <1>1
  <2>2. \A i \in rig' \ stuck' : i \in rig \ stuck /\ i # RestoreItem(step)
    BY <2>1 DEF RestoreStep
  <2> QED
    BY <1>3, <2>2
<1>7. CASE hpc' = "report"
  <2>1. rig' \subseteq stuck'
    <3>1. \/ step = N
          \/ stuck' = stuck \cup {RestoreItem(n) : n \in step..N} /\ rig' = rig
      BY <1>7, Zenon DEF RestoreStep, At
    <3>2. CASE step = N
      <4>1. (step + 1)..N = {}
        BY <1>1, <3>2
      <4> QED
        BY <1>6, <4>1
    <3>3. CASE stuck' = stuck \cup {RestoreItem(n) : n \in step..N} /\ rig' = rig
      BY <1>1, <3>3 DEF RigInv
    <3> QED
      BY <3>1, <3>2, <3>3
  <2> QED
    BY <1>1, <1>2, <1>4, <1>5, <1>7, <2>1 DEF RigInv, Between
<1>8. CASE hpc' = "restore" /\ step' = step + 1 /\ step # N
  <2>1. \A i \in rig' \ stuck' : \E n \in step'..N' : i = RestoreItem(n)'
    BY <1>1, <1>2, <1>6, <1>8
  <2> QED
    BY <1>1, <1>2, <1>4, <1>5, <1>8, <2>1 DEF RigInv, Between
<1> QED
  BY <1>7, <1>8 DEF RestoreStep, At

LEMMA HarvestKeepsRig ==
    ASSUME RigInv, HarvestStep \/ Interrupt
    PROVE  RigInv'
BY RowKeepsRig, ApplyKeepsRig, SettleKeepsRig, RestoreKeepsRig DEF HarvestStep

-----------------------------------------------------------------------------
\* The records.

LEMMA SeqWidens ==
    ASSUME NEW S, NEW T, S \subseteq T, NEW q \in Seq(S)
    PROVE  q \in Seq(T)
<1>1. q \in [1..Len(q) -> T] /\ Len(q) \in Nat
  OBVIOUS
<1> QED
  BY <1>1

LEMMA Appended ==
    ASSUME NEW S, NEW q \in Seq(S), NEW e \in S
    PROVE  Append(q, e) \in Seq(S)
OBVIOUS

\* The engine takes runs forward, and dates a run once.
RunsGo ==
    /\ stage' = [r \in Run |-> stage'[r]] /\ UNCHANGED <<tool, now>>
    /\ born' \in [Run -> Nat] /\ \A r \in Run : born'[r] <= now
    /\ \A r \in Run : stage[r] # "none" => stage'[r] # "none" /\ born'[r] = born[r]

LEMMA SoundGrows ==
    ASSUME RecordsSound, RunsGo
    PROVE  /\ stream \in Seq(Sound(stage'))
           /\ \A s \in Subjects : queue[s] \in Seq(OfKind(s, stage'))
           /\ tool = "harvest" => stream \in Seq(OfKind("set", stage'))
<1> DEFINE before == stage
           after == stage'
<1>1. \A r \in Run : before[r] # "none" => after[r] # "none"
  BY DEF RunsGo
<1>2. stream \in Seq(Sound(before)) /\ \A s \in Subjects : queue[s] \in Seq(OfKind(s, before))
  BY DEF RecordsSound
<1>3. tool = "harvest" => stream \in Seq(OfKind("set", before))
  BY DEF RecordsSound
<1> HIDE DEF before, after
<1>4. Sound(before) \subseteq Sound(after)
  BY <1>1 DEF Sound
<1>5. \A s \in Subjects : OfKind(s, before) \subseteq OfKind(s, after)
  BY <1>4 DEF OfKind
<1>6. stream \in Seq(Sound(after)) /\ \A s \in Subjects : queue[s] \in Seq(OfKind(s, after))
  BY <1>2, <1>4, <1>5, SeqWidens
<1>7. tool = "harvest" => stream \in Seq(OfKind("set", after))
  BY <1>3, <1>5, SeqWidens DEF Subjects
<1> QED
  BY <1>6, <1>7 DEF after

\* What the engine publishes is stored and delivered as it is.
LEMMA PublishKeeps ==
    ASSUME RecordsSound, RunsGo, NEW kind \in Subjects, NEW r \in Nat, NEW what \in Said,
           kind = "set" => r \in Run /\ stage'[r] # "none",
           Publish(kind, r, what)
    PROVE  RecordsSound'
<1> DEFINE obj == [kind |-> kind, run |-> r, what |-> what]
           after == stage'
<1>1. /\ stream \in Seq(Sound(after)) /\ \A s \in Subjects : queue[s] \in Seq(OfKind(s, after))
      /\ tool = "harvest" => stream \in Seq(OfKind("set", after))
  BY SoundGrows
<1>2. obj \in OfKind(kind, after) /\ obj \in Sound(after)
  <2>1. obj \in Object /\ obj.kind = kind /\ obj.run = r
    BY DEF Object
  <2>2. kind = "set" => r \in Run /\ after[r] # "none"
    OBVIOUS
  <2> HIDE DEF obj, after
  <2> QED
    BY <2>1, <2>2 DEF OfKind, Sound
<1>3. stream' \in {stream, Append(stream, obj)}
  BY DEF Publish
<1>4. tool = "harvest" => stream' = stream \/ kind = "set"
  BY DEF Publish, Replayed
<1>5. queue' = queue \/ queue' = [queue EXCEPT ![kind] = Append(@, obj)]
  BY DEF Publish
<1> HIDE DEF obj, after
<1>6. stream' \in Seq(Sound(after))
  BY <1>1, <1>2, <1>3
<1>7. tool = "harvest" => stream' \in Seq(OfKind("set", after))
  BY <1>1, <1>2, <1>3, <1>4
<1>8. \A s \in Subjects : queue'[s] \in Seq(OfKind(s, after))
  <2> SUFFICES ASSUME NEW s \in Subjects
               PROVE  queue'[s] \in Seq(OfKind(s, after))
    OBVIOUS
  <2>1. queue[s] \in Seq(OfKind(s, after)) /\ queue = [t \in Subjects |-> queue[t]]
    BY <1>1 DEF RecordsSound
  <2>2. CASE s = kind
    <3>1. queue'[s] = queue[s] \/ queue'[s] = Append(queue[s], obj)
      BY <1>5, <2>1, <2>2
    <3>2. obj \in OfKind(s, after)
      BY <1>2, <2>2
    <3> QED
      BY <2>1, <3>1, <3>2, Appended, Zenon
  <2>3. CASE s # kind
    <3>1. queue'[s] = queue[s]
      BY <1>5, <2>1, <2>3
    <3> QED
      BY <2>1, <3>1
  <2> QED
    BY <2>2, <2>3
<1>9. queue' = [s \in Subjects |-> queue'[s]]
  BY <1>5 DEF RecordsSound
<1> QED
  BY <1>6, <1>7, <1>8, <1>9 DEF RecordsSound, RunsGo, after

\* An action that publishes nothing.
LEMMA QuietKeeps ==
    ASSUME RecordsSound, RunsGo, UNCHANGED <<stream, queue>>
    PROVE  RecordsSound'
<1>1. /\ stream \in Seq(Sound(stage')) /\ \A s \in Subjects : queue[s] \in Seq(OfKind(s, stage'))
      /\ tool = "harvest" => stream \in Seq(OfKind("set", stage'))
  BY SoundGrows
<1> QED
  BY <1>1 DEF RecordsSound, RunsGo

LEMMA MovesGoes ==
    ASSUME RecordsSound, NEW r \in Run, NEW from, NEW to, to # "none",
           Moves(r, from, to), UNCHANGED <<tool, now, born>>
    PROVE  RunsGo /\ stage'[r] = to
BY DEF RecordsSound, RunsGo, Moves

LEMMA EngineKeeps ==
    ASSUME RecordsSound, Engine
    PROVE  RecordsSound' /\ RunsGo
<1>1. UNCHANGED <<tool, now>>
  BY DEF Engine
<1>2. ASSUME UNCHANGED <<stage, born>>
      PROVE  RunsGo
  BY <1>1, <1>2 DEF RecordsSound, RunsGo
<1>3. CASE Detect
  <2>1. RunsGo /\ (Publish("detection", 0, "") \/ Publish("detection", 0, "poison"))
    BY <1>2, <1>3, Zenon DEF Detect
  <2>2. "detection" \in Subjects /\ "detection" # "set" /\ "" \in Said /\ "poison" \in Said
    BY Zenon DEF Subjects, Said
  <2> QED
    BY <2>1, <2>2, PublishKeeps, Zenon
<1>4. ASSUME NEW r \in Run, BeginRun(r)
      PROVE  RecordsSound' /\ RunsGo
  <2>1. /\ stage[r] = "none" /\ stage' = [stage EXCEPT ![r] = "reasoning"]
        /\ born' = [born EXCEPT ![r] = now] /\ UNCHANGED <<stream, queue>>
    BY <1>4 DEF BeginRun, Moves
  <2>2. /\ stage = [q \in Run |-> stage[q]] /\ born \in [Run -> Nat] /\ now \in Nat
        /\ \A q \in Run : born[q] <= now
    BY DEF RecordsSound
  <2>3. /\ stage' = [q \in Run |-> stage'[q]]
        /\ \A q \in Run : q # r => stage'[q] = stage[q] /\ born'[q] = born[q]
    BY <2>1, <2>2
  <2>4. born' \in [Run -> Nat] /\ \A q \in Run : born'[q] <= now
    BY <2>1, <2>2
  <2>5. RunsGo
    BY <1>1, <2>1, <2>3, <2>4 DEF RunsGo
  <2> QED
    BY <2>1, <2>5, QuietKeeps
<1>5. ASSUME NEW r \in Run,
             \/ Propose(r) \/ Rule(r) \/ Answer(r) \/ Approve(r) \/ Converge(r)
      PROVE  RecordsSound' /\ RunsGo
  <2>1. UNCHANGED born
    BY <1>5, Zenon DEF Propose, Rule, Answer, Approve, Converge
  <2>2. r \in Nat
    BY RecordsAssumption DEF Run
  <2>3. ASSUME NEW from, NEW to, to # "none", Moves(r, from, to),
               NEW kind \in Subjects, NEW what \in Said, Publish(kind, r, what)
        PROVE  RecordsSound' /\ RunsGo
    <3>1. RunsGo /\ stage'[r] = to
      BY <1>1, <2>1, <2>3, MovesGoes
    <3> QED
      BY <2>2, <2>3, <3>1, PublishKeeps
  <2>4. /\ "set" \in Subjects /\ "decision" \in Subjects /\ "outcome" \in Subjects
        /\ "held" \in Subjects /\ "decline" \in Subjects
        /\ "" \in Said /\ "approved" \in Said /\ "hold" \in Said /\ "rejected" \in Said
        /\ "applied" \in Said /\ "settled" \in Said
    BY Zenon DEF Subjects, Said
  <2>5. CASE Propose(r)
    <3>1. CASE Moves(r, "reasoning", "proposed") /\ Publish("set", r, "")
      BY <2>3, <2>4, <3>1, Zenon
    <3>2. CASE Moves(r, "reasoning", "refused") /\ UNCHANGED <<stream, queue>>
      <4>1. RunsGo
        BY <1>1, <2>1, <3>2, MovesGoes
      <4> QED
        BY <3>2, <4>1, QuietKeeps
    <3> QED
      BY <2>5, <3>1, <3>2, Zenon DEF Propose
  <2>6. CASE Rule(r)
    <3>1. PICK v \in {"approved", "hold", "rejected"} :
             Moves(r, "proposed", v) /\ Publish("decision", r, v)
      BY <2>6 DEF Rule
    <3> QED
      BY <2>3, <2>4, <3>1, Zenon
  <2>7. CASE Answer(r)
    <3>1. PICK from \in {"approved", "hold", "rejected", "proposed"} :
             \/ Moves(r, from, "applied") /\ Publish("outcome", r, "applied")
             \/ Moves(r, from, "held") /\ Publish("held", r, "")
             \/ Moves(r, from, "declined") /\ Publish("decline", r, "")
      BY <2>7, Zenon DEF Answer, Ruled
    <3> QED
      BY <2>3, <2>4, <3>1, Zenon
  <2>8. CASE Approve(r) \/ Converge(r)
    BY <2>3, <2>4, <2>8, Zenon DEF Approve, Converge
  <2> QED
    BY <1>5, <2>5, <2>6, <2>7, <2>8
<1> QED
  BY <1>3, <1>4, <1>5 DEF Engine

\* A subscription opened, drained or closed leaves the records sound.
LEMMA LegsKeep ==
    ASSUME RecordsSound, tool = "harvest", HarvestStep \/ Interrupt
    PROVE  /\ RecordsSound' /\ UNCHANGED <<stage, born, tool>>
           /\ ~Cool => UNCHANGED now
<1> DEFINE closed == [s \in Subjects |-> <<>>]
<1>1. /\ UNCHANGED <<stage, born, tool, stream>>
      /\ now' = now \/ (Cool /\ now' = now + 1)
  BY Zenon DEF HarvestStep, Interrupt, Main, NextRow, SetPrecondition, CheckLive, ApplyFault, OpenLeg,
     Settle, TakeOutcome, TakeDecline, TakeHeld, TakeDetection, TakeSet, RefusalFires,
     WindowCloses, Receive, Settled, RestoreStep, Report, Cool, recordVars, elseVars
<1>2. \/ queue' = queue
      \/ queue' = closed
      \/ queue' = [queue EXCEPT !["set"] = stream]
      \/ \E leg \in Subjects : queue[leg] # <<>> /\ queue' = [queue EXCEPT ![leg] = Tail(@)]
  BY Zenon DEF HarvestStep, Interrupt, Main, NextRow, SetPrecondition, CheckLive, ApplyFault, OpenLeg,
     Settle, TakeOutcome, TakeDecline, TakeHeld, TakeDetection, TakeSet, RefusalFires,
     WindowCloses, Receive, Settled, RestoreStep, Report, Cool, recordVars, elseVars, Close,
     Subjects
<1>3. queue' = [s \in Subjects |-> queue'[s]]
  BY <1>2 DEF RecordsSound
<1>4. \A s \in Subjects : queue'[s] \in Seq(OfKind(s, stage))
  <2> SUFFICES ASSUME NEW s \in Subjects
               PROVE  queue'[s] \in Seq(OfKind(s, stage))
    OBVIOUS
  <2>1. /\ queue[s] \in Seq(OfKind(s, stage)) /\ queue = [t \in Subjects |-> queue[t]]
        /\ stream \in Seq(OfKind("set", stage))
    BY DEF RecordsSound
  <2>2. CASE queue' = queue \/ queue' = closed
    <3>1. queue'[s] = queue[s] \/ queue'[s] = <<>>
      BY <2>2
    <3>2. <<>> \in Seq(OfKind(s, stage))
      OBVIOUS
    <3> QED
      BY <2>1, <3>1, <3>2, Zenon
  <2>3. CASE queue' = [queue EXCEPT !["set"] = stream]
    <3>1. queue'[s] = IF s = "set" THEN stream ELSE queue[s]
      BY <2>1, <2>3
    <3> QED
      BY <2>1, <3>1
  <2>4. ASSUME NEW leg \in Subjects, queue[leg] # <<>>,
               queue' = [queue EXCEPT ![leg] = Tail(@)]
        PROVE  queue'[s] \in Seq(OfKind(s, stage))
    <3>1. CASE s = leg
      <4>1. queue'[s] = Tail(queue[s]) /\ queue[s] # <<>>
        BY <2>1, <2>4, <3>1
      <4> QED
        BY <2>1, <4>1
    <3>2. CASE s # leg
      <4>1. queue'[s] = queue[s]
        BY <2>1, <2>4, <3>2
      <4> QED
        BY <2>1, <4>1
    <3> QED
      BY <3>1, <3>2
  <2> QED
    BY <1>2, <2>2, <2>3, <2>4
<1>5. now' \in Nat /\ now' >= now
  BY <1>1 DEF RecordsSound
<1> QED
  BY <1>1, <1>3, <1>4, <1>5 DEF RecordsSound

-----------------------------------------------------------------------------
\* The rows.

LEMMA EngineKeepsRows ==
    ASSUME RecordsSound, RowInv, RunsGo, UNCHANGED harvestVars
    PROVE  RowInv'
<1>1. UNCHANGED <<row, matched, term, results, hpc>>
  BY DEF harvestVars, legVars, rigVars, endVars
<1>2. \A r \in Run : stage[r] # "none" => stage'[r] # "none" /\ born'[r] = born[r]
  BY DEF RunsGo
<1>3. now' = now
  BY DEF RunsGo
<1> QED
  BY <1>1, <1>2, <1>3, Zenon DEF RowInv, Begun, Reported, RowsOwnTheirRuns

\* Within a row, what it matched began in it.
LEMMA WithinRow ==
    ASSUME RowInv, UNCHANGED <<row, results, stage, born, now>>,
           hpc \notin Between, hpc' \notin Between, term' \in Verdict,
           \/ matched' = matched
           \/ matched' \in Nat /\ Begun(matched') /\ born[matched'] = now
    PROVE  RowInv'
<1>1. ~Reported /\ ~Reported'
  BY DEF Reported, Between
<1>2. matched' \in Nat /\ (matched' # 0 => Begun(matched') /\ born[matched'] = now)
  BY DEF RowInv
<1>3. \A r : Begun(r)' <=> Begun(r)
  BY DEF Begun
<1> QED
  BY <1>1, <1>2, <1>3, Zenon DEF RowInv, RowsOwnTheirRuns

LEMMA WaitKeepsRows ==
    ASSUME RowInv, RecordsSound, RecordsSound', UNCHANGED <<stage, born, now>>,
           \/ SetPrecondition \/ CheckLive \/ ApplyFault \/ OpenLeg \/ Settle \/ RestoreStep
    PROVE  RowInv'
<1>1. UNCHANGED <<row, results>>
  BY Zenon DEF SetPrecondition, CheckLive, ApplyFault, OpenLeg, Settle, TakeOutcome, TakeDecline,
     TakeHeld, TakeDetection, TakeSet, RefusalFires, WindowCloses, Receive, Settled, RestoreStep,
     rigVars, endVars
<1>2. hpc \notin Between /\ hpc' \notin Between
  BY Zenon DEF SetPrecondition, CheckLive, ApplyFault, OpenLeg, Settle, TakeOutcome, TakeDecline,
     TakeHeld, TakeDetection, TakeSet, RefusalFires, WindowCloses, Receive, Settled, RestoreStep,
     Apply, At, Leaves, Between
<1>3. term' \in Verdict
  BY Zenon DEF SetPrecondition, CheckLive, ApplyFault, OpenLeg, Settle, TakeOutcome, TakeDecline,
     TakeHeld, TakeDetection, TakeSet, RefusalFires, WindowCloses, Receive, Settled, RestoreStep,
     RowInv, Verdict
<1>4. matched' = matched \/ TakeSet
  BY Zenon DEF SetPrecondition, CheckLive, ApplyFault, OpenLeg, Settle, TakeOutcome, TakeDecline,
     TakeHeld, TakeDetection, RefusalFires, WindowCloses, Receive, Settled, RestoreStep, legVars
<1>5. CASE TakeSet
  <2> DEFINE r == Head(queue["set"]).run
  <2>1. matched' = matched \/ (runIDFresh(r) /\ matched' = r)
    BY <1>5 DEF TakeSet, legVars
  <2>2. Head(queue["set"]) \in OfKind("set", stage)
    <3>1. "set" \in Subjects /\ queue["set"] # <<>>
      BY <1>5 DEF TakeSet, Receive, Subjects
    <3>2. queue["set"] \in Seq(OfKind("set", stage))
      BY <3>1 DEF RecordsSound
    <3> QED
      BY <3>1, <3>2
  <2>3. r \in Nat /\ r \in Run /\ stage[r] # "none"
    BY <2>2 DEF OfKind, Sound, Object
  <2> HIDE DEF r
  <2>4. runIDFresh(r) => born[r] = now
    BY <2>3 DEF runIDFresh, RecordsSound
  <2> QED
    BY <1>1, <1>2, <1>3, <2>1, <2>3, <2>4, WithinRow DEF Begun
<1> QED
  BY <1>1, <1>2, <1>3, <1>4, <1>5, WithinRow

\* The row's result: a run that began in this row is none of the earlier rows'.
LEMMA ReportKeepsRows ==
    ASSUME RowInv, RecordsSound, UNCHANGED <<stage, born, now>>, Report
    PROVE  RowInv'
<1>1. UNCHANGED <<row, matched, term>> /\ hpc = "report" /\ ~Reported
  BY Zenon DEF Report, legVars, rigVars, Reported
<1>2. \A r : Begun(r)' <=> Begun(r)
  BY DEF Begun
<1>3. Reported' /\ hpc' \in Between
  <2>1. \/ hpc' = "exit" \/ (row < Repeat /\ hpc' = "cool") \/ (~(row < Repeat) /\ hpc' = "next")
    BY Zenon DEF Report, At
  <2>2. row \in Nat /\ Repeat \in Nat
    BY HarvestAssumption DEF RowInv
  <2> QED
    BY <1>1, <2>1, <2>2 DEF Reported, Between
<1>4. CASE UNCHANGED results
  BY <1>1, <1>2, <1>3, <1>4 DEF RowInv, RowsOwnTheirRuns
<1>5. ASSUME NEW x \in [verdict : Verdict, run : {0, matched}], results' = Append(results, x)
      PROVE  RowInv'
  <2>1. x.run \in Nat /\ x.run \in {0, matched} /\ x \in [verdict : Verdict, run : Nat]
    BY <1>5 DEF RowInv
  <2>2. x.run # 0 => Begun(x.run) /\ born[x.run] = now
    BY <1>1, <2>1 DEF RowInv, Between
  <2>3. \A i \in 1..Len(results) :
           results[i].run # 0 => Begun(results[i].run) /\ born[results[i].run] < now
    BY <1>1 DEF RowInv
  <2>4. /\ results \in Seq([verdict : Verdict, run : Nat]) /\ Len(results) \in Nat
        /\ results' \in Seq([verdict : Verdict, run : Nat])
        /\ Len(results') = Len(results) + 1 /\ results'[Len(results) + 1] = x
        /\ \A i \in 1..Len(results) : results'[i] = results[i]
    BY <1>5, <2>1 DEF RowInv
  <2>5. \A i \in 1..Len(results') : i \in 1..Len(results) \/ i = Len(results) + 1
    BY <2>4
  <2>6. \A i \in 1..Len(results') : results'[i].run # 0 => Begun(results'[i].run)
    BY <2>2, <2>3, <2>4, <2>5, Zenon
  <2>7. \A i \in 1..Len(results) : results[i].run # 0 => results[i].run # x.run
    <3> SUFFICES ASSUME NEW i \in 1..Len(results), results[i].run # 0, results[i].run = x.run
                 PROVE  FALSE
      OBVIOUS
    <3>1. born[x.run] < now /\ born[x.run] = now
      BY <2>2, <2>3
    <3>2. now \in Nat
      BY DEF RecordsSound
    <3> QED
      BY <3>1, <3>2
  <2>8. ASSUME NEW i \in 1..Len(results'), NEW j \in 1..Len(results'), i # j,
               results'[i].run # 0
        PROVE  results'[i].run # results'[j].run
    <3>1. CASE i \in 1..Len(results) /\ j \in 1..Len(results)
      <4>1. i \in DOMAIN results /\ j \in DOMAIN results
        BY <2>4, <3>1
      <4> QED
        BY <2>4, <2>8, <3>1, <4>1, Zenon DEF RowInv, RowsOwnTheirRuns
    <3>2. CASE i = Len(results) + 1 \/ j = Len(results) + 1
      BY <2>4, <2>5, <2>7, <2>8, <3>2, Zenon
    <3> QED
      BY <2>5, <3>1, <3>2
  <2>9. RowsOwnTheirRuns'
    BY <2>4, <2>8 DEF RowsOwnTheirRuns
  <2> QED
    BY <1>1, <1>2, <1>3, <2>4, <2>6, <2>9, Zenon DEF RowInv
<1> DEFINE x == [verdict |-> term, run |-> IF term \in {"", "refused"} THEN 0 ELSE matched]
<1>6. UNCHANGED results \/ results' = Append(results, x)
  BY Zenon DEF Report
<1>7. x \in [verdict : Verdict, run : {0, matched}]
  BY DEF RowInv
<1> QED
  BY <1>4, <1>5, <1>6, <1>7, Zenon

\* The loop over the rows, and the cooldown that separates them.
LEMMA BetweenKeepsRows ==
    ASSUME RowInv, RecordsSound, UNCHANGED <<stage, born>>, ~Cool => UNCHANGED now,
           Main \/ NextRow \/ Cool \/ Interrupt
    PROVE  RowInv'
<1>1. UNCHANGED results
  BY Zenon DEF Main, NextRow, Cool, Interrupt, endVars
<1>2. \A r : Begun(r)' <=> Begun(r)
  BY DEF Begun
<1>3. row \in Nat /\ Repeat \in Nat
  BY HarvestAssumption DEF RowInv
<1>4. CASE Interrupt
  <2>1. UNCHANGED <<row, matched, term, hpc, now>>
    BY <1>4, Zenon DEF Interrupt, Cool, legVars, rigVars, recordVars
  <2> QED
    BY <1>1, <1>2, <2>1, Zenon DEF RowInv, Reported, RowsOwnTheirRuns
<1>5. CASE Main
  <2>1. UNCHANGED <<row, matched, term, now>> /\ hpc = "main" /\ hpc' \in {"next", "exit"}
    BY <1>5, Zenon DEF Main, legVars, rigVars, recordVars, At
  <2> QED
    BY <1>1, <1>2, <2>1, Zenon DEF RowInv, Reported, RowsOwnTheirRuns, Between
<1>6. CASE NextRow
  <2>1. /\ matched' = 0 /\ UNCHANGED now /\ hpc = "next"
        /\ \/ row < Repeat /\ hpc' = "set" /\ row' = row + 1
           \/ hpc' = "exit" /\ row' = row
    BY <1>6, Zenon DEF NextRow, recordVars, At
  <2>2. term' \in Verdict
    BY <1>6, Zenon DEF NextRow, Verdict
  <2>3. row < Repeat => ~Reported
    BY <1>3, <2>1 DEF Reported
  <2>4. hpc' = "exit" => Reported'
    BY DEF Reported
  <2>5. row' \in Nat
    BY <1>3, <2>1
  <2>6. \A i \in 1..Len(results) : results[i].run # 0 =>
           Begun(results[i].run) /\ (Reported' \/ born'[results[i].run] < now')
    BY <1>1, <1>2, <2>1, <2>3, <2>4 DEF RowInv
  <2> QED
    BY <1>1, <1>2, <2>1, <2>2, <2>5, <2>6, Zenon DEF RowInv, RowsOwnTheirRuns
<1>7. CASE Cool
  <2>1. /\ UNCHANGED <<row, matched, term>>
        /\ \/ hpc' = "next" /\ now' = now + 1
           \/ hpc' = "exit" /\ now' = now
    BY <1>7, Zenon DEF Cool, legVars, rigVars, At
  <2>2. hpc' = "exit" => Reported'
    BY DEF Reported
  <2>3. \A r \in Run : born[r] \in Nat /\ now \in Nat /\ born[r] <= now
    BY DEF RecordsSound
  <2>4. \A i \in 1..Len(results) : results[i].run # 0 =>
           Begun(results[i].run) /\ results[i].run \in Run
    BY Zenon DEF RowInv, Begun
  <2>5. \A i \in 1..Len(results) : results[i].run # 0 =>
           Begun(results[i].run) /\ (Reported' \/ born'[results[i].run] < now')
    <3>1. \A r \in Run : Reported' \/ born'[r] < now'
      BY <2>1, <2>2, <2>3
    <3> QED
      BY <2>4, <3>1, Zenon
  <2>6. hpc' \in Between
    BY <2>1 DEF Between
  <2> QED
    BY <1>1, <1>2, <2>1, <2>5, <2>6, Zenon DEF RowInv, RowsOwnTheirRuns
<1> QED
  BY <1>4, <1>5, <1>6, <1>7

LEMMA HarvestKeepsRows ==
    ASSUME RowInv, RecordsSound, tool = "harvest", HarvestStep \/ Interrupt
    PROVE  RowInv' /\ RecordsSound'
<1>1. RecordsSound' /\ UNCHANGED <<stage, born>> /\ (~Cool => UNCHANGED now)
  BY LegsKeep
<1>2. CASE Main \/ NextRow \/ Cool \/ Interrupt
  BY <1>1, <1>2, BetweenKeepsRows
<1>3. CASE ~(Main \/ NextRow \/ Cool \/ Interrupt)
  BY <1>1, <1>3, WaitKeepsRows, ReportKeepsRows DEF HarvestStep
<1> QED
  BY <1>1, <1>2, <1>3

-----------------------------------------------------------------------------
\* The counts and the queues.

\* Within a row nothing is counted; of the sets, those of a run are matched.
LEMMA WaitKeepsCount ==
    ASSUME CountInv, RecordsSound, UNCHANGED now,
           \/ SetPrecondition \/ CheckLive \/ ApplyFault \/ OpenLeg \/ Settle \/ RestoreStep
    PROVE  CountInv'
<1>1. UNCHANGED <<row, results>>
  BY Zenon DEF SetPrecondition, CheckLive, ApplyFault, OpenLeg, Settle, TakeOutcome, TakeDecline,
     TakeHeld, TakeDetection, TakeSet, RefusalFires, WindowCloses, Receive, Settled, RestoreStep,
     rigVars, endVars
<1>2. hpc \in Waits /\ hpc' \in Waits
  BY Zenon DEF SetPrecondition, CheckLive, ApplyFault, OpenLeg, Settle, TakeOutcome, TakeDecline,
     TakeHeld, TakeDetection, TakeSet, RefusalFires, WindowCloses, Receive, Settled, RestoreStep,
     Apply, At, Leaves, Waits
<1>3. refusal' \in {"unset", "armed", "stopped"}
  BY Zenon DEF CountInv, SetPrecondition, CheckLive, ApplyFault, OpenLeg, Settle, TakeOutcome,
     TakeDecline, TakeHeld, TakeDetection, TakeSet, RefusalFires, WindowCloses, Receive, Settled,
     RestoreStep, legVars
<1>4. matched' = matched \/ TakeSet
  BY Zenon DEF SetPrecondition, CheckLive, ApplyFault, OpenLeg, Settle, TakeOutcome, TakeDecline,
     TakeHeld, TakeDetection, RefusalFires, WindowCloses, Receive, Settled, RestoreStep, legVars
<1>5. ASSUME TakeSet
      PROVE  matched' \in 0..MaxRuns
  <2> DEFINE r == Head(queue["set"]).run
  <2>1. matched' = matched \/ matched' = r
    BY <1>5 DEF TakeSet, legVars
  <2>2. Head(queue["set"]) \in OfKind("set", stage)
    <3>1. "set" \in Subjects /\ queue["set"] # <<>>
      BY <1>5 DEF TakeSet, Receive, Subjects
    <3>2. queue["set"] \in Seq(OfKind("set", stage))
      BY <3>1 DEF RecordsSound
    <3> QED
      BY <3>1, <3>2
  <2>3. r \in Run
    BY <2>2 DEF OfKind, Sound
  <2> HIDE DEF r
  <2>4. r \in 0..MaxRuns
    BY <2>3, RecordsAssumption DEF Run
  <2> QED
    BY <2>1, <2>4 DEF CountInv
<1>6. matched' \in 0..MaxRuns
  BY <1>4, <1>5 DEF CountInv
<1> QED
  BY <1>1, <1>2, <1>3, <1>6 DEF CountInv

LEMMA HarvestKeepsCount ==
    ASSUME CountInv, RecordsSound, RowInv, tool = "harvest", HarvestStep \/ Interrupt
    PROVE  CountInv'
<1>1. ~Cool => UNCHANGED now
  BY LegsKeep
<1>2. /\ row \in Nat /\ Repeat \in Nat /\ row <= Repeat /\ now \in Nat
      /\ Len(results) \in Nat /\ 0 \in 0..MaxRuns
  BY HarvestAssumption, RecordsAssumption DEF RowInv, RecordsSound, CountInv
<1>3. CASE Interrupt
  <2>1. UNCHANGED <<row, matched, hpc, refusal, results, now>>
    BY <1>3, Zenon DEF Interrupt, legVars, rigVars, recordVars
  <2> QED
    BY <2>1 DEF CountInv
<1>4. CASE Main
  <2>1. UNCHANGED <<row, matched, refusal, results, now>> /\ hpc' \in {"next", "exit"}
    BY <1>4, Zenon DEF Main, legVars, rigVars, recordVars, At
  <2> QED
    BY <2>1 DEF CountInv, Between, Waits
<1>5. CASE NextRow
  <2>1. /\ matched' = 0 /\ refusal' = "unset" /\ UNCHANGED <<results, now>>
        /\ \/ row < Repeat /\ hpc' = "set" /\ row' = row + 1
           \/ hpc' = "exit" /\ row' = row
    BY <1>5, Zenon DEF NextRow, recordVars, endVars, At
  <2> QED
    BY <1>2, <2>1 DEF CountInv, Between, Waits
<1>6. CASE Report
  <2>1. /\ UNCHANGED <<row, matched, refusal, now>> /\ hpc = "report"
        /\ hpc' \in {"next", "cool", "exit"}
    BY <1>6, Zenon DEF Report, legVars, rigVars, recordVars, At
  <2>2. now < row /\ Len(results) < row
    BY <2>1 DEF CountInv, Waits
  <2>3. results' = results \/ \E x : results' = Append(results, x)
    BY <1>6, Zenon DEF Report
  <2>4. Len(results') <= Len(results) + 1 /\ Len(results') \in Nat
    BY <1>2, <2>3 DEF RowInv
  <2>5. Len(results') <= row
    BY <1>2, <2>2, <2>4
  <2>6. hpc' \in Between /\ hpc' \notin Waits
    BY <2>1 DEF Between, Waits
  <2> QED
    BY <1>2, <2>1, <2>2, <2>5, <2>6 DEF CountInv
<1>7. CASE Cool
  <2>1. /\ UNCHANGED <<row, matched, refusal, results>> /\ hpc = "cool"
        /\ \/ hpc' = "next" /\ now' = now + 1
           \/ hpc' = "exit" /\ now' = now
    BY <1>7, Zenon DEF Cool, legVars, rigVars, endVars, At
  <2> QED
    BY <1>2, <2>1 DEF CountInv, Between, Waits
<1>8. CASE \/ SetPrecondition \/ CheckLive \/ ApplyFault \/ OpenLeg \/ Settle \/ RestoreStep
  <2>1. hpc # "cool"
    BY <1>8, Zenon DEF SetPrecondition, CheckLive, ApplyFault, OpenLeg, Settle, TakeOutcome,
       TakeDecline, TakeHeld, TakeDetection, TakeSet, RefusalFires, WindowCloses, Receive, Settled,
       RestoreStep
  <2> QED
    BY <1>1, <1>8, <2>1, WaitKeepsCount DEF Cool
<1> QED
  BY <1>3, <1>4, <1>5, <1>6, <1>7, <1>8 DEF HarvestStep

LEMMA PublishKeepsQueue ==
    ASSUME RecordsSound, QueueInv, UNCHANGED <<tool, open>>,
           NEW kind, NEW r, NEW what, Publish(kind, r, what)
    PROVE  QueueInv'
<1> DEFINE obj == [kind |-> kind, run |-> r, what |-> what]
<1>1. Replayed' = Replayed
  BY DEF Replayed
<1>2. stream' = stream \/ (kind \in Replayed /\ stream' = Append(stream, obj))
  BY DEF Publish
<1>3. queue' = queue \/ (kind \in open /\ queue' = [queue EXCEPT ![kind] = Append(@, obj)])
  BY DEF Publish
<1>4. obj.kind = kind
  OBVIOUS
<1> HIDE DEF obj
<1>5. \A j \in DOMAIN stream' : stream'[j].kind \in Replayed
  <2>1. \A j \in DOMAIN stream : stream[j].kind \in Replayed
    BY DEF QueueInv
  <2>2. CASE stream' = Append(stream, obj) /\ kind \in Replayed
    <3>1. /\ DOMAIN stream = 1..Len(stream) /\ Len(stream) \in Nat
          /\ DOMAIN stream' = 1..(Len(stream) + 1) /\ stream'[Len(stream) + 1] = obj
          /\ \A j \in 1..Len(stream) : stream'[j] = stream[j]
      BY <2>2 DEF RecordsSound
    <3>2. \A j \in DOMAIN stream' : j \in DOMAIN stream \/ j = Len(stream) + 1
      BY <3>1
    <3> HIDE DEF Replayed
    <3> QED
      BY <1>4, <2>1, <2>2, <3>1, <3>2, Zenon
  <2> QED
    BY <1>2, <2>1, <2>2
<1>6. \A s \in Subjects \ open : queue'[s] = queue[s]
  BY <1>3 DEF RecordsSound
<1> QED
  BY <1>1, <1>5, <1>6, Zenon DEF QueueInv

LEMMA EngineKeepsQueue ==
    ASSUME RecordsSound, QueueInv, Engine
    PROVE  QueueInv'
<1>1. UNCHANGED <<tool, open>>
  BY DEF Engine
<1>2. \/ UNCHANGED <<stream, queue>>
      \/ \E kind, r, what : Publish(kind, r, what)
  BY Zenon DEF Engine, Detect, BeginRun, Propose, Rule, Answer, Approve, Converge
<1>3. CASE UNCHANGED <<stream, queue>>
  BY <1>1, <1>3, Zenon DEF QueueInv, Replayed
<1> QED
  BY <1>1, <1>2, <1>3, PublishKeepsQueue

\* A leg is opened before anything waits for it; Close empties them all.
LEMMA HarvestKeepsQueue ==
    ASSUME RecordsSound, QueueInv, HarvestStep \/ Interrupt
    PROVE  QueueInv'
<1>1. UNCHANGED <<tool, stream>>
  BY Zenon DEF HarvestStep, Interrupt, Main, NextRow, SetPrecondition, CheckLive, ApplyFault, OpenLeg,
     Settle, TakeOutcome, TakeDecline, TakeHeld, TakeDetection, TakeSet, RefusalFires,
     WindowCloses, Receive, Settled, RestoreStep, Report, Cool, recordVars, elseVars
<1>2. \/ UNCHANGED <<queue, open>>
      \/ open' = {} /\ queue' = [s \in Subjects |-> <<>>]
      \/ OpenLeg /\ open' = open \cup {Legs[step]}
      \/ /\ UNCHANGED open
         /\ \E leg \in Subjects : queue[leg] # <<>> /\ queue' = [queue EXCEPT ![leg] = Tail(@)]
  BY ZenonT(30) DEF HarvestStep, Interrupt, Main, NextRow, SetPrecondition, CheckLive, ApplyFault, OpenLeg,
     Settle, TakeOutcome, TakeDecline, TakeHeld, TakeDetection, TakeSet, RefusalFires,
     WindowCloses, Receive, Settled, RestoreStep, Report, Cool, recordVars, elseVars, Close,
     Subjects
<1>3. OpenLeg /\ open' = open \cup {Legs[step]} =>
         \/ queue' = queue
         \/ open' = {} /\ queue' = [s \in Subjects |-> <<>>]
         \/ Legs[step] = "set" /\ queue' = [queue EXCEPT !["set"] = stream]
  BY Zenon DEF OpenLeg, Close
<1>4. \A i \in DOMAIN stream' : stream'[i].kind \in Replayed'
  BY <1>1, Zenon DEF QueueInv, Replayed
<1>5. ASSUME NEW s \in Subjects \ open'
      PROVE  queue'[s] = <<>>
  <2>1. s \in Subjects /\ queue = [t \in Subjects |-> queue[t]]
    BY DEF RecordsSound
  <2>2. CASE open' = {} /\ queue' = [t \in Subjects |-> <<>>]
    BY <2>1, <2>2
  <2>3. CASE s \notin open
    <3>1. queue[s] = <<>>
      BY <2>1, <2>3 DEF QueueInv
    <3>2. CASE queue' = queue
      BY <3>1, <3>2
    <3>3. CASE OpenLeg /\ open' = open \cup {Legs[step]} /\ queue' = [queue EXCEPT !["set"] = stream]
              /\ Legs[step] = "set"
      <4>1. s # "set"
        BY <1>5, <3>3, Zenon
      <4> QED
        BY <2>1, <3>1, <3>3, <4>1
    <3>4. ASSUME NEW leg \in Subjects, queue[leg] # <<>>, queue' = [queue EXCEPT ![leg] = Tail(@)]
          PROVE  queue'[s] = <<>>
      BY <2>1, <3>1, <3>4
    <3> QED
      BY <1>2, <1>3, <2>2, <3>2, <3>3, <3>4, Zenon
  <2> QED
    BY <1>2, <1>5, <2>2, <2>3, Zenon
<1> QED
  BY <1>4, <1>5, Zenon DEF QueueInv

-----------------------------------------------------------------------------
\* The projection.

LEMMA Stored ==
    ASSUME RecordsSound
    PROVE  Len(stream) \in Nat /\ DOMAIN stream = 1..Len(stream) /\ DOMAIN stream \in SUBSET Nat
BY DEF RecordsSound

\* The engine appends at most one object, and counts it when it is poison.
Grows ==
    \/ UNCHANGED stream /\ poison' \in {poison, poison + 1} /\ poison' <= MaxPoison
    \/ \E o : /\ stream' = Append(stream, o)
              /\ \/ o.what # "poison" /\ UNCHANGED poison
                 \/ poison' = poison + 1 /\ poison < MaxPoison

LEMMA EngineGrows ==
    ASSUME RecordsSound, PoisonInv, Engine
    PROVE  Grows
<1>1. poison \in Nat /\ MaxPoison \in Nat /\ poison <= MaxPoison
  BY IncidentAssumption DEF PoisonInv
<1>2. ASSUME NEW kind, NEW r, NEW what, Publish(kind, r, what),
             \/ what # "poison" /\ UNCHANGED poison
             \/ poison' = poison + 1 /\ poison < MaxPoison
      PROVE  Grows
  <2> DEFINE obj == [kind |-> kind, run |-> r, what |-> what]
  <2>1. stream' = stream \/ stream' = Append(stream, obj)
    BY <1>2 DEF Publish
  <2>2. obj.what = what
    OBVIOUS
  <2> HIDE DEF obj
  <2>3. CASE stream' = stream
    BY <1>1, <1>2, <2>3 DEF Grows
  <2>4. CASE stream' = Append(stream, obj)
    BY <1>2, <2>2, <2>4, Zenon DEF Grows
  <2> QED
    BY <2>1, <2>3, <2>4
<1>3. CASE UNCHANGED <<stream, poison>>
  BY <1>1, <1>3 DEF Grows
<1>4. CASE Detect
  <2>1. PICK what \in {"", "poison"} :
           /\ Publish("detection", 0, what)
           /\ IF what = "poison" THEN poison' = poison + 1 /\ poison < MaxPoison ELSE UNCHANGED poison
    BY <1>4, Zenon DEF Detect
  <2> QED
    BY <1>2, <2>1, Zenon
<1>5. ASSUME NEW r \in Run, \/ BeginRun(r) \/ Propose(r) \/ Answer(r) \/ Approve(r) \/ Converge(r)
      PROVE  Grows
  <2>1. \/ UNCHANGED <<stream, poison>>
        \/ \E kind, q, what : Publish(kind, q, what) /\ what # "poison" /\ UNCHANGED poison
    BY <1>5, Zenon DEF BeginRun, Propose, Answer, Approve, Converge
  <2> QED
    BY <1>2, <1>3, <2>1, Zenon
<1>6. ASSUME NEW r \in Run, Rule(r)
      PROVE  Grows
  <2>1. \E what : Publish("decision", r, what) /\ what # "poison" /\ UNCHANGED poison
    BY <1>6, Zenon DEF Rule
  <2> QED
    BY <1>2, <2>1, Zenon
<1> QED
  BY <1>4, <1>5, <1>6, Zenon DEF Engine

\* What is stored stays where it is.
LEMMA GrownKeeps ==
    ASSUME RecordsSound, Grows
    PROVE  /\ Len(stream') \in Nat /\ DOMAIN stream' = 1..Len(stream') /\ Len(stream) <= Len(stream')
           /\ \A i \in 1..Len(stream) : stream'[i] = stream[i]
<1>1. stream \in Seq(Sound(stage)) /\ Len(stream) \in Nat
  BY DEF RecordsSound
<1>2. ASSUME NEW o, stream' = Append(stream, o)
      PROVE  /\ Len(stream') \in Nat /\ DOMAIN stream' = 1..Len(stream') /\ Len(stream) <= Len(stream')
             /\ \A i \in 1..Len(stream) : stream'[i] = stream[i]
  BY <1>1, <1>2
<1>3. CASE UNCHANGED stream
  BY <1>1, <1>3
<1> QED
  BY <1>2, <1>3, Zenon DEF Grows

\* What is published while the projection is built is none of its history.
LEMMA GrownKeepsSnap ==
    ASSUME RecordsSound, SnapType, UNCHANGED <<tool, incidentVars>>,
           Len(stream') \in Nat, DOMAIN stream' = 1..Len(stream'), Len(stream) <= Len(stream'),
           \A i \in 1..Len(stream) : stream'[i] = stream[i]
    PROVE  SnapType' /\ (SnapInv => SnapInv')
<1>1. UNCHANGED <<ipc, subject, taken, events, began, snap>>
  BY DEF incidentVars
<1>2. Len(stream) \in Nat /\ DOMAIN stream = 1..Len(stream) /\ DOMAIN stream \subseteq DOMAIN stream'
  BY Stored
<1>3. SnapType'
  <2>1. began' \in 0..Len(stream') /\ snap'.updatedAt <= Len(stream')
    BY <1>1, <1>2 DEF SnapType, Record
  <2>2. events' \subseteq DOMAIN stream' /\ \A i \in events' : stream'[i].kind \in Kinds
    BY <1>1, <1>2, Zenon DEF SnapType
  <2> QED
    BY <1>1, <2>1, <2>2, Zenon DEF SnapType
<1>4. \A kind : Before(kind)' = Before(kind)
  <2> SUFFICES ASSUME NEW kind
               PROVE  Before(kind)' = Before(kind)
    BY Zenon
  <2>1. \A i \in DOMAIN stream' : i <= began => i \in DOMAIN stream
    BY <1>2 DEF SnapType
  <2>2. ASSUME NEW i, i <= began, i \in DOMAIN stream'
        PROVE  i \in DOMAIN stream /\ stream'[i] = stream[i]
    BY <1>2, <2>1, <2>2, Zenon
  <2>3. \A i : i \in Before(kind)' <=> i \in Before(kind)
    BY <1>1, <1>2, <2>2, Zenon DEF Before, Of
  <2> QED
    BY <2>3, Zenon
<1>5. \A kind : \A i \in Before(kind) : InRecord(snap, i)' <=> InRecord(snap, i)
  BY <1>1, <1>2, Zenon DEF InRecord, Before, Of
<1>6. Drained' = Drained /\ (InOrder(snap)' <=> InOrder(snap))
  BY <1>1, Zenon DEF Drained, InOrder
<1>7. \A kind \in Kinds : \A i \in Before(kind)' :
         i \in events \/ InRecord(snap, i) => i \in events' \/ InRecord(snap, i)'
  BY <1>1, <1>4, <1>5, Zenon
<1>8. SnapInv /\ ipc \in {"apply", "done"} =>
         \A kind \in Kinds : \A i \in Before(kind)' : i \in events' \/ InRecord(snap, i)'
  BY <1>4, <1>7, Zenon DEF SnapInv
<1> QED
  BY <1>1, <1>3, <1>4, <1>6, <1>8, Zenon DEF SnapInv

\* A batch is the first of what waits, and one of nothing but poison has left
\* nothing else waiting, while less is poison than a batch holds.
FirstBatch ==
    LET waiting == {i \in Of(Drained[subject]) : i > taken}
    IN  /\ Fetched \subseteq waiting
        /\ Fetched # {} => /\ Max(Fetched) \in Fetched
                           /\ \A i \in waiting : i <= Max(Fetched) => i \in Fetched
        /\ MaxPoison < Batch /\ (\A i \in Fetched : stream[i].what = "poison") =>
              \A i \in waiting : stream[i].what = "poison"

LEMMA DrainKeepsType ==
    ASSUME RecordsSound, SnapType, FirstBatch, DrainSubject, UNCHANGED recordVars
    PROVE  SnapType'
<1>1. UNCHANGED <<tool, stream, began, snap>> /\ ipc = "drain"
  BY Zenon DEF DrainSubject, recordVars
<1>2. Fetched \subseteq Of(Drained[subject]) /\ (Fetched # {} => Max(Fetched) \in Fetched)
  BY DEF FirstBatch
<1>3. Drained[subject] \in Kinds
  BY DEF SnapType, Drained, Kinds
<1>4. /\ Of(Drained[subject]) \subseteq DOMAIN stream /\ DOMAIN stream \in SUBSET Nat
      /\ \A i \in Of(Drained[subject]) : stream[i].kind \in Kinds
  BY <1>3, Stored, Zenon DEF Of
<1>5. events' \subseteq DOMAIN stream /\ \A i \in events' : stream[i].kind \in Kinds
  BY <1>2, <1>4, Zenon DEF DrainSubject, SnapType
<1>6. taken' = 0 \/ (Fetched # {} /\ taken' = Max(Fetched))
  BY Zenon DEF DrainSubject
<1>7. taken' \in Nat
  <2>1. 0 \in Nat
    OBVIOUS
  <2> QED
    BY <1>2, <1>4, <1>6, <2>1, Zenon
<1>8. /\ ipc' \in {"drain", "apply"}
      /\ subject' = subject \/ (subject < 4 /\ subject' = subject + 1)
  BY <1>1, Zenon DEF DrainSubject
<1>9. subject' \in 1..4
  BY <1>8 DEF SnapType
<1>10. /\ tool' = "incident" /\ began' \in 0..Len(stream') /\ snap' \in Record
       /\ snap'.updatedAt <= Len(stream')
  BY <1>1, Zenon DEF SnapType
<1> QED
  BY <1>1, <1>5, <1>7, <1>8, <1>9, <1>10, Zenon DEF SnapType

\* A subject is left behind once all of its history that decodes is collected.
LEMMA DrainKeeps ==
    ASSUME RecordsSound, SnapType, SnapInv, FirstBatch, MaxPoison < Batch,
           DrainSubject, UNCHANGED recordVars
    PROVE  SnapInv'
<1> DEFINE folded == {i \in Fetched : stream[i].what # "poison"}
           waiting == {i \in Of(Drained[subject]) : i > taken}
<1>1. /\ UNCHANGED <<stream, began, snap>> /\ ipc = "drain" /\ events' = events \cup folded
      /\ \/ folded # {} /\ taken' = Max(Fetched) /\ UNCHANGED <<ipc, subject>>
         \/ /\ folded = {} /\ taken' = 0
            /\ \/ subject < 4 /\ subject' = subject + 1 /\ UNCHANGED ipc
               \/ ~(subject < 4) /\ ipc' = "apply" /\ UNCHANGED subject
  BY Zenon DEF DrainSubject, recordVars
<1>2. /\ Fetched \subseteq waiting
      /\ Fetched # {} => /\ Max(Fetched) \in Fetched
                         /\ \A i \in waiting : i <= Max(Fetched) => i \in Fetched
      /\ (\A i \in Fetched : stream[i].what = "poison") => \A i \in waiting : stream[i].what = "poison"
  BY DEF FirstBatch
<1>3. /\ \A kind : Before(kind)' = Before(kind) /\ Before(kind) \subseteq Of(kind)
      /\ \A kind : \A i \in Before(kind) : stream[i].what # "poison"
  BY <1>1, Zenon DEF Before, Of
<1>4. \A kind : Of(kind) \subseteq DOMAIN stream
  BY Zenon DEF Of
<1>5. /\ Len(stream) \in Nat /\ DOMAIN stream = 1..Len(stream) /\ DOMAIN stream \in SUBSET Nat
      /\ subject \in 1..4 /\ taken \in Nat
  BY Stored, Zenon DEF SnapType
<1>6. \A i \in events' : snap'.updatedAt < i
  <2>1. snap.updatedAt = 0
    BY <1>1, Zenon DEF SnapInv
  <2>2. \A i \in events' : i \in 1..Len(stream)
    BY <1>1, <1>2, <1>4, <1>5, Zenon DEF SnapType
  <2> QED
    BY <1>1, <1>5, <2>1, <2>2
<1>7. ASSUME NEW i \in Before(Drained[subject])
      PROVE  /\ folded = {} => i \in events
             /\ folded # {} /\ i <= Max(Fetched) => i \in events'
  <2>1. i <= taken => i \in events
    BY <1>1, <1>5, Zenon DEF SnapInv
  <2>2. i \in Nat /\ i \in Of(Drained[subject])
    BY <1>3, <1>4, <1>5, Zenon
  <2>3. i > taken => i \in waiting
    BY <2>2
  <2>4. i <= taken \/ i > taken
    BY <1>5, <2>2
  <2>5. stream[i].what # "poison"
    BY <1>3, Zenon
  <2>6. folded = {} => i \in events
    BY <1>2, <2>1, <2>3, <2>4, <2>5, Zenon
  <2>7. ASSUME folded # {}, i <= Max(Fetched)
        PROVE  i \in events'
    <3>1. Fetched # {}
      BY <2>7, Zenon
    <3>2. i > taken => i \in folded
      BY <1>2, <2>3, <2>5, <2>7, <3>1, Zenon
    <3> QED
      BY <1>1, <2>1, <2>4, <3>2, Zenon
  <2> QED
    BY <2>6, <2>7
<1> HIDE DEF folded, waiting
<1>8. ASSUME NEW s \in 1..4, NEW i \in Before(Drained[s]),
             s < subject' \/ (s = subject' /\ i <= taken') \/ ipc' = "apply"
      PROVE  i \in events'
  <2>1. s < subject => i \in events'
    BY <1>1, <1>8, Zenon DEF SnapInv
  <2>2. i \in Nat \ {0}
    BY <1>3, <1>4, <1>5
  <2>3. CASE s = subject
    BY <1>1, <1>5, <1>7, <1>8, <2>2, <2>3
  <2>4. CASE s > subject
    BY <1>1, <1>5, <1>8, <2>2, <2>4
  <2> QED
    BY <1>5, <2>1, <2>3, <2>4
<1>9. ipc' \in {"drain", "apply"} /\ Drained' = Drained /\ snap'.updatedAt = 0 /\ InOrder(snap)'
  BY <1>1, Zenon DEF SnapInv, InOrder, Drained
<1>10. ipc' = "apply" => \A kind \in Kinds : \A i \in Before(kind)' : i \in events'
  <2>1. \A kind \in Kinds : \E s \in 1..4 : kind = Drained[s]
    BY DEF Kinds, Drained
  <2> QED
    BY <1>3, <1>8, <2>1, Zenon
<1> QED
  BY <1>3, <1>6, <1>8, <1>9, <1>10, Zenon DEF SnapInv

\* The fields of a record.
LEMMA RecordFields ==
    ASSUME NEW r \in Record
    PROVE  /\ r.stage \in Stages /\ r.updatedAt \in Nat /\ r.detected \in Nat
           /\ r.proposed \in Nat /\ r.governed \in Nat /\ r.settled \in Seq(Nat)
  BY Zenon DEF Record

\* A number larger than all so far keeps a sequence increasing.
LEMMA AppendLarger ==
    ASSUME NEW s \in Seq(Nat), NEW n \in Nat, NEW e \in Nat, n < e, UpTo(s, n)
    PROVE  /\ UpTo(s, e)
           /\ Append(s, e) \in Seq(Nat) /\ UpTo(Append(s, e), e)
           /\ Increasing(s) => Increasing(Append(s, e))
           /\ \A i : Has(s, i) \/ i = e => Has(Append(s, e), i)
<1> DEFINE t == Append(s, e)
<1>1. /\ Len(s) \in Nat /\ DOMAIN s = 1..Len(s) /\ DOMAIN t = 1..(Len(s) + 1)
      /\ t[Len(s) + 1] = e /\ t \in Seq(Nat)
      /\ \A j \in 1..Len(s) : s[j] \in Nat /\ t[j] = s[j]
  OBVIOUS
<1>2. \A j \in DOMAIN t : j \in DOMAIN s \/ j = Len(s) + 1
  BY <1>1
<1> HIDE DEF t
<1>3. \A j \in DOMAIN s : s[j] < e
  BY <1>1 DEF UpTo
<1>4. UpTo(s, e) /\ UpTo(t, e)
  BY <1>1, <1>2, <1>3 DEF UpTo
<1>5. ASSUME Increasing(s), NEW j \in DOMAIN t, NEW l \in DOMAIN t, j < l
      PROVE  t[j] < t[l]
  <2>1. j \in DOMAIN s
    BY <1>1, <1>5
  <2> QED
    BY <1>1, <1>2, <1>3, <1>5, <2>1 DEF Increasing
<1>6. \A i : Has(s, i) \/ i = e => Has(t, i)
  <2>1. DOMAIN s \subseteq DOMAIN t /\ Len(s) + 1 \in DOMAIN t
    BY <1>1
  <2> QED
    BY <1>1, <2>1, Zenon DEF Has
<1> QED
  BY <1>1, <1>4, <1>5, <1>6, Zenon DEF Increasing, t

\* FoldRecord: an object changes its own field, the stage and the time.
LEMMA FoldsOne ==
    ASSUME NEW prior \in Record, NEW i \in Nat, stream[i].kind \in Kinds
    PROVE  LET next == FoldRecord(prior, i)
               kind == stream[i].kind
           IN  /\ next \in Record /\ next.updatedAt = i
               /\ next.detected = IF kind = "detection" THEN i ELSE prior.detected
               /\ next.proposed = IF kind = "set" THEN i ELSE prior.proposed
               /\ next.governed = IF kind = "decision" THEN i ELSE prior.governed
               /\ next.settled = IF kind = "outcome" THEN Append(prior.settled, i) ELSE prior.settled
<1> DEFINE k == stream[i].kind
           applied == stream[i].what = "applied"
<1>1. /\ "detected" \in Stages /\ "proposed" \in Stages /\ "decided" \in Stages
      /\ "applied" \in Stages /\ "settled" \in Stages
  BY Zenon DEF Stages
<1>2. k \in {"detection", "set", "decision", "outcome"}
  BY DEF Kinds
<1>3. /\ prior.detected \in Nat /\ prior.proposed \in Nat /\ prior.governed \in Nat
      /\ prior.settled \in Seq(Nat)
  BY RecordFields, Zenon
<1> HIDE DEF k, applied
<1>4. FoldRecord(prior, i) =
        LET next == [prior EXCEPT !.updatedAt = i]
        IN  CASE k = "detection" -> [next EXCEPT !.stage = "detected", !.detected = i]
              [] k = "set" -> [next EXCEPT !.stage = "proposed", !.proposed = i]
              [] k = "decision" -> [next EXCEPT !.stage = "decided", !.governed = i]
              [] k = "outcome" -> [next EXCEPT !.stage = IF applied THEN "applied" ELSE "settled",
                                               !.settled = Append(@, i)]
              [] OTHER -> prior
  BY Zenon DEF FoldRecord, k, applied
<1>5. CASE k = "detection"
  <2> DEFINE made == [stage |-> "detected", updatedAt |-> i, detected |-> i, proposed |-> prior.proposed,
                      governed |-> prior.governed, settled |-> prior.settled]
  <2>1. FoldRecord(prior, i) = made
    BY <1>4, <1>5, Zenon DEF Record
  <2>2. made \in Record
    BY <1>1, <1>3, Zenon DEF Record
  <2>3. /\ made.updatedAt = i /\ made.detected = i /\ made.proposed = prior.proposed
        /\ made.governed = prior.governed /\ made.settled = prior.settled
    BY Zenon
  <2> HIDE DEF made
  <2> QED
    BY <1>5, <2>1, <2>2, <2>3 DEF k
<1>6. CASE k = "set"
  <2> DEFINE made == [stage |-> "proposed", updatedAt |-> i, detected |-> prior.detected, proposed |-> i,
                      governed |-> prior.governed, settled |-> prior.settled]
  <2>1. FoldRecord(prior, i) = made
    BY <1>4, <1>6, Zenon DEF Record
  <2>2. made \in Record
    BY <1>1, <1>3, Zenon DEF Record
  <2>3. /\ made.updatedAt = i /\ made.detected = prior.detected /\ made.proposed = i
        /\ made.governed = prior.governed /\ made.settled = prior.settled
    BY ZenonT(30)
  <2> HIDE DEF made
  <2> QED
    BY <1>6, <2>1, <2>2, <2>3 DEF k
<1>7. CASE k = "decision"
  <2> DEFINE made == [stage |-> "decided", updatedAt |-> i, detected |-> prior.detected, proposed |-> prior.proposed,
                      governed |-> i, settled |-> prior.settled]
  <2>1. FoldRecord(prior, i) = made
    BY <1>4, <1>7, Zenon DEF Record
  <2>2. made \in Record
    BY <1>1, <1>3, Zenon DEF Record
  <2>3. /\ made.updatedAt = i /\ made.detected = prior.detected /\ made.proposed = prior.proposed
        /\ made.governed = i /\ made.settled = prior.settled
    BY Zenon
  <2> HIDE DEF made
  <2> QED
    BY <1>7, <2>1, <2>2, <2>3 DEF k
<1>8. CASE k = "outcome"
  <2> DEFINE more == Append(prior.settled, i)
             made(st) == [stage |-> st, updatedAt |-> i, detected |-> prior.detected,
                          proposed |-> prior.proposed, governed |-> prior.governed, settled |-> more]
  <2>1. PICK st \in {"applied", "settled"} : FoldRecord(prior, i) = made(st)
    BY <1>4, <1>8, Zenon DEF Record
  <2>2. more \in Seq(Nat) /\ st \in Stages
    BY <1>1, <1>3
  <2>3. made(st) \in Record
    BY <1>3, <2>2, Zenon DEF Record
  <2>4. /\ made(st).updatedAt = i /\ made(st).detected = prior.detected
        /\ made(st).proposed = prior.proposed
        /\ made(st).governed = prior.governed /\ made(st).settled = more
    BY Zenon
  <2> HIDE DEF made
  <2> QED
    BY <1>8, <2>1, <2>3, <2>4 DEF k
<1> QED
  BY <1>2, <1>5, <1>6, <1>7, <1>8, Zenon

\* The earliest of the events is applied.
LEMMA FoldKeeps ==
    ASSUME RecordsSound, SnapType, NEW e \in events, \A i \in events : e <= i,
           ipc = "apply", ipc' = "apply", snap' = FoldRecord(snap, e), events' = events \ {e},
           UNCHANGED <<tool, stream, subject, taken, began>>
    PROVE  SnapType' /\ (SnapInv => SnapInv')
<1>1. /\ Len(stream) \in Nat /\ DOMAIN stream = 1..Len(stream) /\ DOMAIN stream \in SUBSET Nat
      /\ events \subseteq DOMAIN stream /\ events \in SUBSET Nat
  BY Stored, Zenon DEF SnapType
<1>2. \A i \in events : e <= i
  OBVIOUS
<1>3. /\ \A kind : Before(kind)' = Before(kind)
      /\ Drained' = Drained
  BY Zenon DEF Before, Of, Drained
<1>4. e \in Nat /\ e \in 1..Len(stream) /\ snap \in Record /\ stream[e].kind \in Kinds
  BY <1>1, <1>2, Zenon DEF SnapType
<1> DEFINE k == stream[e].kind
<1>5. /\ snap' \in Record /\ snap'.updatedAt = e
      /\ snap'.detected = IF k = "detection" THEN e ELSE snap.detected
      /\ snap'.proposed = IF k = "set" THEN e ELSE snap.proposed
      /\ snap'.governed = IF k = "decision" THEN e ELSE snap.governed
      /\ snap'.settled = IF k = "outcome" THEN Append(snap.settled, e) ELSE snap.settled
  BY <1>3, <1>4, FoldsOne, Zenon
<1>6. SnapType'
  <2>1. snap'.updatedAt <= Len(stream')
    BY <1>4, <1>5
  <2> QED
    BY <1>3, <1>5, <2>1, ZenonT(30) DEF SnapType
<1>7. ASSUME SnapInv
      PROVE  SnapInv'
  <2>1. /\ snap.updatedAt \in Nat /\ snap.detected \in Nat /\ snap.proposed \in Nat
        /\ snap.governed \in Nat /\ snap.settled \in Seq(Nat)
    BY <1>4, RecordFields, Zenon
  <2>2. snap.updatedAt < e
    BY <1>2, <1>7, Zenon DEF SnapInv
  <2>3. \A i \in events' : snap'.updatedAt < i
    <3>1. \A i \in events' : e < i
      BY <1>1, <1>2, <1>4
    <3> QED
      BY <1>5, <3>1, Zenon
  <2>4. UpTo(snap.settled, snap.updatedAt) /\ Increasing(snap.settled)
    BY <1>7, Zenon DEF SnapInv, InOrder
  <2>5. /\ InOrder(snap)'
        /\ \A i : Has(snap.settled, i) => Has(snap'.settled, i)
        /\ k = "outcome" => Has(snap'.settled, e)
    <3>1. /\ UpTo(snap.settled, e) /\ UpTo(Append(snap.settled, e), e)
          /\ Increasing(Append(snap.settled, e))
          /\ \A i : Has(snap.settled, i) \/ i = e => Has(Append(snap.settled, e), i)
      BY <1>4, <2>1, <2>2, <2>4, AppendLarger, Zenon
    <3>2. CASE k # "outcome"
      <4>1. snap'.settled = snap.settled
        BY <1>5, <3>2, Zenon
      <4> QED
        BY <1>5, <2>4, <3>1, <3>2, <4>1, Zenon DEF InOrder
    <3>3. CASE k = "outcome"
      <4>1. snap'.settled = Append(snap.settled, e)
        BY <1>5, <3>3, Zenon
      <4> QED
        BY <1>5, <3>1, <4>1, Zenon DEF InOrder
    <3> QED
      BY <3>2, <3>3, Zenon
  <2>6. ASSUME NEW kind \in Kinds, NEW i \in Before(kind)
        PROVE  i \in events' \/ InRecord(snap, i)'
    <3>1. i \in Nat
      BY <1>1, Zenon DEF Before, Of
    <3>2. CASE i = e
      <4>1. /\ i <= e /\ (k = "detection" => i <= snap'.detected)
            /\ (k = "set" => i <= snap'.proposed) /\ (k = "decision" => i <= snap'.governed)
        BY <1>4, <1>5, <3>2
      <4> QED
        BY <1>5, <2>5, <3>2, <4>1, Zenon DEF InRecord
    <3>3. CASE InRecord(snap, i)
      <4>1. /\ i <= snap.updatedAt /\ (stream[i].kind = "detection" => i <= snap.detected)
            /\ (stream[i].kind = "set" => i <= snap.proposed)
            /\ (stream[i].kind = "decision" => i <= snap.governed)
        BY <3>3, Zenon DEF InRecord
      <4>2. /\ i <= snap'.updatedAt /\ (stream[i].kind = "detection" => i <= snap'.detected)
            /\ (stream[i].kind = "set" => i <= snap'.proposed)
            /\ (stream[i].kind = "decision" => i <= snap'.governed)
        BY <1>4, <1>5, <2>1, <2>2, <3>1, <4>1
      <4>3. stream[i].kind = "outcome" => Has(snap'.settled, i)
        BY <2>5, <3>3, Zenon DEF InRecord
      <4> QED
        BY <4>2, <4>3, Zenon DEF InRecord
    <3> QED
      BY <1>3, <1>7, <3>2, <3>3, Zenon DEF SnapInv
  <2> QED
    BY <1>3, <2>3, <2>5, <2>6, Zenon DEF SnapInv
<1> QED
  BY <1>6, <1>7

\* A snapshot begins, or a fetch fails.
LEMMA BeginsKeeps ==
    ASSUME RecordsSound, SnapType, tool = "incident", UNCHANGED recordVars,
           SnapshotBroker \/ DrainFails
    PROVE  SnapType' /\ SnapInv'
<1>1. /\ UNCHANGED <<tool, stream>> /\ subject' = 1 /\ taken' = 0 /\ events' = {} /\ snap' = NoRecord
      /\ ipc' \in {"drain", "rest"} /\ began' \in {began, Len(stream)}
  BY Zenon DEF SnapshotBroker, DrainFails, recordVars
<1>2. /\ NoRecord \in Record /\ NoRecord.updatedAt = 0 /\ NoRecord.settled = <<>>
  <2>1. "" \in Stages
    BY Zenon DEF Stages
  <2>2. 0 \in Nat /\ <<>> \in Seq(Nat)
    OBVIOUS
  <2> QED
    BY <2>1, <2>2, Zenon DEF NoRecord, Record
<1>3. Len(stream) \in Nat /\ DOMAIN stream = 1..Len(stream)
  BY Stored
<1>4. SnapType'
  <2>1. began' \in 0..Len(stream') /\ snap'.updatedAt <= Len(stream') /\ subject' \in 1..4 /\ taken' \in Nat
    BY <1>1, <1>2, <1>3 DEF SnapType
  <2> QED
    BY <1>1, <1>2, <2>1, Zenon DEF SnapType
<1>5. InOrder(snap)'
  <2>1. DOMAIN snap'.settled = {}
    BY <1>1, <1>2
  <2> QED
    BY <2>1, Zenon DEF InOrder, UpTo, Increasing
<1>6. \A s \in 1..4 : \A i \in Before(Drained[s])' : ~(s < subject') /\ ~(i <= taken')
  <2>1. \A kind : Before(kind)' \subseteq DOMAIN stream'
    BY Zenon DEF Before, Of
  <2>2. \A i \in DOMAIN stream' : ~(i <= taken')
    BY <1>1, <1>3
  <2>3. \A s \in 1..4 : ~(s < subject')
    BY <1>1
  <2> QED
    BY <2>1, <2>2, <2>3, Zenon
<1>7. Drained' = Drained
  BY DEF Drained
<1> QED
  BY <1>1, <1>2, <1>4, <1>5, <1>6, <1>7, Zenon DEF SnapInv

-----------------------------------------------------------------------------
\* The corpus.

\* What is stored stays where it is.
LEMMA EngineStores ==
    ASSUME RecordsSound, Engine
    PROVE  DOMAIN stream \subseteq DOMAIN stream'
<1>1. stream \in Seq(Sound(stage))
  BY DEF RecordsSound
<1>2. ASSUME NEW kind, NEW r, NEW what, Publish(kind, r, what)
      PROVE  DOMAIN stream \subseteq DOMAIN stream'
  <2> DEFINE obj == [kind |-> kind, run |-> r, what |-> what]
  <2>1. stream' = stream \/ stream' = Append(stream, obj)
    BY <1>2 DEF Publish
  <2> HIDE DEF obj
  <2>2. DOMAIN stream \subseteq DOMAIN Append(stream, obj)
    BY <1>1
  <2> QED
    BY <2>1, <2>2
<1>3. \/ UNCHANGED stream
      \/ \E kind, r, what : Publish(kind, r, what)
  BY Zenon DEF Engine, Detect, BeginRun, Propose, Rule, Answer, Approve, Converge
<1> QED
  BY <1>2, <1>3

LEMMA StoredKeepsCorpus ==
    ASSUME CorpusInv, DOMAIN stream \subseteq DOMAIN stream', UNCHANGED corpusVars
    PROVE  CorpusInv'
<1>1. UNCHANGED <<shipped, mpc, sets, outs, merged, artifact, known>>
  BY DEF corpusVars
<1>2. ReadCorpus(artifact)' = ReadCorpus(artifact) /\ Readable(artifact)' = Readable(artifact)
  BY <1>1, Zenon DEF ReadCorpus, Readable, migrateLegacy
<1>3. Labelled(ReadCorpus(artifact))' = Labelled(ReadCorpus(artifact)) /\ Labelled(merged)' = Labelled(merged)
  BY <1>1, <1>2, Zenon DEF Labelled, IncidentOf
<1>4. Timed(artifact.cases)' /\ Timed(merged)' /\ OneEach(merged)'
  BY <1>1, Zenon DEF CorpusInv, Timed, OneEach, IncidentOf
<1> QED
  BY <1>1, <1>2, <1>3, <1>4, Zenon DEF CorpusInv

\* The walks read what has shipped.
LEMMA WalksKeepCorpus ==
    ASSUME CorpusInv, UNCHANGED recordVars,
           Ship \/ Mine \/ WalkProposals \/ WalkOutcomes \/ MineFails
    PROVE  CorpusInv'
<1>1. /\ UNCHANGED <<artifact, known, stream>>
      /\ merged' = merged \/ merged' = {}
      /\ mpc' # "encode" \/ UNCHANGED <<mpc, merged>>
  BY Zenon DEF Ship, Mine, WalkProposals, WalkOutcomes, MineFails, recordVars
<1>2. shipped' \subseteq DOMAIN stream' /\ sets' \subseteq shipped' /\ outs' \subseteq shipped'
  BY Zenon DEF CorpusInv, Ship, Mine, WalkProposals, WalkOutcomes, MineFails, recordVars
<1>3. ReadCorpus(artifact)' = ReadCorpus(artifact) /\ Readable(artifact)' = Readable(artifact)
  BY <1>1, Zenon DEF ReadCorpus, Readable, migrateLegacy
<1>4. Labelled(ReadCorpus(artifact))' = Labelled(ReadCorpus(artifact))
  BY <1>3, Zenon DEF Labelled, IncidentOf
<1>5. Timed(artifact.cases)' /\ Timed(merged)' /\ OneEach(merged)'
  BY <1>1, Zenon DEF CorpusInv, Timed, OneEach, IncidentOf
<1>6. mpc' = "encode" => mpc = "encode" /\ Labelled(merged)' = Labelled(merged)
  BY <1>1, Zenon DEF Labelled, IncidentOf
<1> QED
  BY <1>1, <1>2, <1>3, <1>4, <1>5, <1>6, Zenon DEF CorpusInv

-----------------------------------------------------------------------------
\* Finite sets of numbers: the times of cases, and the places of a batch.

LEMMA LeastNat ==
    ASSUME NEW T \in SUBSET Nat, T # {}
    PROVE  \E m \in T : \A n \in T : m <= n
<1>1. PICK m \in T : \A n \in T : ~(<<n, m>> \in OpToRel(<, Nat))
  BY NatLessThanWellFounded, WFMin, Zenon
<1>2. \A n \in T : ~(n < m)
  BY <1>1, Zenon DEF OpToRel
<1>3. m \in T
  BY <1>1, Zenon
<1> QED
  BY <1>2, <1>3

\* A list of cases ends somewhere in time: of the finite sets of times without
\* a bound, none is the smallest.
LEMMA FiniteBounded ==
    ASSUME NEW S \in SUBSET Nat, IsFiniteSet(S)
    PROVE  \E b \in Nat : \A x \in S : x <= b
<1> DEFINE Unbounded(Q) == ~\E b \in Nat : \A x \in Q : x <= b
           Sizes == {n \in Nat : \E Q \in SUBSET Nat :
                        IsFiniteSet(Q) /\ Cardinality(Q) = n /\ Unbounded(Q)}
<1> SUFFICES ASSUME Unbounded(S)
             PROVE  FALSE
  OBVIOUS
<1>1. Cardinality(S) \in Sizes
  BY FS_CardinalityType
<1>2. PICK n \in Sizes : \A k \in Sizes : n <= k
  BY <1>1, LeastNat, Zenon
<1>3. PICK Q \in SUBSET Nat : IsFiniteSet(Q) /\ Cardinality(Q) = n /\ Unbounded(Q)
  BY <1>2
<1>4. Q # {}
  BY <1>3
<1>5. PICK q \in Q : TRUE
  BY <1>4, Zenon
<1>6. /\ IsFiniteSet(Q \ {q}) /\ Cardinality(Q \ {q}) = n - 1
  BY <1>3, <1>5, FS_RemoveElement
<1>7. ~Unbounded(Q \ {q})
  <2>1. n \in Nat /\ Cardinality(Q \ {q}) \in Nat /\ ~(n <= n - 1)
    BY <1>2, <1>6, FS_CardinalityType
  <2>2. Q \ {q} \in SUBSET Nat
    BY <1>3
  <2> SUFFICES ASSUME Unbounded(Q \ {q})
               PROVE  n - 1 \in Sizes
    BY <1>2, <2>1, Zenon
  <2> QED
    BY <1>6, <2>1, <2>2
<1>8. PICK b \in Nat : \A x \in Q \ {q} : x <= b
  BY <1>7
<1>9. q \in Nat
  BY <1>3, <1>5
<1>10. CASE q <= b
  BY <1>3, <1>8, <1>10
<1>11. CASE b <= q
  <2>1. \A x \in Q : x <= q
    BY <1>3, <1>8, <1>9, <1>11
  <2> QED
    BY <1>3, <1>9, <2>1
<1> QED
  BY <1>8, <1>9, <1>10, <1>11

LEMMA MinIsLeast ==
    ASSUME NEW S \in SUBSET Nat, S # {}
    PROVE  Min(S) \in S /\ \A x \in S : Min(S) <= x
BY LeastNat, Zenon DEF Min

LEMMA MaxIsGreatest ==
    ASSUME NEW S \in SUBSET Nat, S # {}, IsFiniteSet(S)
    PROVE  Max(S) \in S /\ \A x \in S : Max(S) >= x
<1>1. PICK b \in Nat : \A x \in S : x <= b
  BY FiniteBounded
<1> DEFINE gaps == {b - x : x \in S}
<1>2. gaps \in SUBSET Nat /\ gaps # {}
  <2>1. \A x \in S : b - x \in Nat
    BY <1>1
  <2> QED
    BY <2>1, Zenon
<1>3. PICK m \in gaps : \A n \in gaps : m <= n
  BY <1>2, LeastNat, Zenon
<1>4. PICK x \in S : m = b - x
  BY <1>3
<1>5. \A y \in S : b - x <= b - y
  BY <1>3, <1>4, Zenon
<1>6. \A y \in S : x >= y
  BY <1>1, <1>5
<1> QED
  BY <1>4, <1>6, Zenon DEF Max

\* Of the settled cases of an incident one is the latest.
LEMMA LatestIsOne ==
    ASSUME NEW cases, Timed(cases), NEW incident \in Labelled(cases)
    PROVE  /\ Latest(SettledOf(cases, incident)) \in cases
           /\ Latest(SettledOf(cases, incident)).result # "applied"
           /\ IncidentOf(Latest(SettledOf(cases, incident))) = incident
<1> DEFINE group == SettledOf(cases, incident)
           ages(b) == {b - d.at : d \in group}
<1>1. PICK b \in Nat : \A c \in cases : c.at \in 0..b
  BY DEF Timed
<1>2. group # {} /\ \A d \in group : d \in cases /\ d.at \in 0..b
  BY <1>1, Zenon DEF SettledOf, Labelled
<1> HIDE DEF group
<1>3. ages(b) \in SUBSET Nat /\ ages(b) # {}
  <2>1. \A d \in group : b - d.at \in Nat
    BY <1>1, <1>2
  <2> QED
    BY <1>2, <2>1
<1>4. PICK m \in ages(b) : \A n \in ages(b) : m <= n
  BY <1>3, LeastNat, Zenon
<1>5. PICK d \in group : m = b - d.at
  BY <1>4
<1>6. \A e \in group : b - d.at <= b - e.at
  BY <1>4, <1>5
<1>7. \A e \in group : e.at <= d.at
  BY <1>1, <1>2, <1>6
<1>8. Latest(group) \in group
  BY <1>5, <1>7, Zenon DEF Latest
<1> QED
  BY <1>8, Zenon DEF group, SettledOf

\* CollapseCases keeps that one: no labelled incident goes, and none has two.
LEMMA CollapseKeepsLabels ==
    ASSUME NEW cases, Timed(cases)
    PROVE  /\ Labelled(cases) \subseteq Labelled(CollapseCases(cases))
           /\ Timed(CollapseCases(cases)) /\ OneEach(CollapseCases(cases))
<1> DEFINE latest(incident) == Latest(SettledOf(cases, incident))
<1>1. \A incident \in Labelled(cases) :
         /\ latest(incident) \in cases /\ latest(incident).result # "applied"
         /\ IncidentOf(latest(incident)) = incident
  BY LatestIsOne
<1>2. CollapseCases(cases) = {latest(incident) : incident \in Labelled(cases)}
  BY DEF CollapseCases
<1> HIDE DEF latest
<1>3. ASSUME NEW incident \in Labelled(cases)
      PROVE  incident \in Labelled(CollapseCases(cases))
  <2>1. /\ latest(incident) \in CollapseCases(cases) /\ latest(incident).result # "applied"
        /\ IncidentOf(latest(incident)) = incident
    BY <1>1, <1>2, Zenon
  <2> QED
    BY <2>1, Zenon DEF Labelled
<1>4. Timed(CollapseCases(cases))
  BY <1>1, <1>2, Zenon DEF Timed
<1>5. \A c \in CollapseCases(cases) : c = latest(IncidentOf(c))
  BY <1>1, <1>2
<1>6. OneEach(CollapseCases(cases))
  BY <1>5, Zenon DEF OneEach
<1> QED
  BY <1>3, <1>4, <1>6

\* What is merged in adds to what was there.
LEMMA MergeKeepsLabels ==
    ASSUME NEW existing, NEW mined, Timed(existing), Timed(mined)
    PROVE  /\ Labelled(existing) \subseteq Labelled(mergeCorpus(existing, mined))
           /\ Timed(mergeCorpus(existing, mined)) /\ OneEach(mergeCorpus(existing, mined))
<1> DEFINE both == existing \cup {c \in mined : \A d \in existing : d.outcome # c.outcome}
<1>1. Timed(both)
  <2>1. PICK a \in Nat : \A c \in existing : c.at \in 0..a
    BY DEF Timed
  <2>2. PICK b \in Nat : \A c \in mined : c.at \in 0..b
    BY DEF Timed
  <2>3. a + b \in Nat /\ \A c \in both : c.at \in 0..(a + b)
    BY <2>1, <2>2
  <2> QED
    BY <2>3 DEF Timed
<1>2. Labelled(existing) \subseteq Labelled(both)
  BY DEF Labelled
<1> HIDE DEF both
<1>3. /\ Labelled(both) \subseteq Labelled(CollapseCases(both))
      /\ Timed(CollapseCases(both)) /\ OneEach(CollapseCases(both))
  BY <1>1, CollapseKeepsLabels
<1> QED
  BY <1>2, <1>3 DEF both, mergeCorpus

LEMMA MinedTimed ==
    ASSUME NEW read, NEW outcomes, outcomes \subseteq DOMAIN stream,
           NEW S, stream \in Seq(S)
    PROVE  Timed(MineCorpus(read, outcomes))
<1> DEFINE all == {newCase(Max(SetsBefore(read, o)), o) :
                     o \in {x \in outcomes : SetsBefore(read, x) # {}}}
<1>1. ASSUME NEW c \in all
      PROVE  c.at \in 0..Len(stream)
  <2>1. PICK o \in outcomes : c = newCase(Max(SetsBefore(read, o)), o)
    OBVIOUS
  <2>2. c.at = o
    BY <2>1, Zenon DEF newCase
  <2>3. o \in 1..Len(stream)
    BY <2>1
  <2> QED
    BY <2>2, <2>3
<1>2. Timed(all)
  BY <1>1 DEF Timed
<1> HIDE DEF all
<1>3. Timed(CollapseCases(all))
  BY <1>2, CollapseKeepsLabels
<1> QED
  BY <1>3 DEF MineCorpus, all

\* migrateLegacy changes the signal alone.
LEMMA ReadTimed ==
    ASSUME CorpusInv
    PROVE  Timed(ReadCorpus(artifact))
<1>1. PICK b \in Nat : \A c \in artifact.cases : c.at \in 0..b
  BY Zenon DEF CorpusInv, Timed
<1>2. ASSUME artifact.version = 0, NEW c \in artifact.cases, NEW s
      PROVE  [c EXCEPT !.signal = s].at \in 0..b
  <2>1. c \in Case
    BY <1>2, Zenon DEF CorpusInv
  <2> QED
    BY <1>1, <2>1 DEF Case
<1>3. artifact.version = 0 => \A c \in migrateLegacy(artifact.cases) : c.at \in 0..b
  BY <1>2, Zenon DEF migrateLegacy
<1> QED
  BY <1>1, <1>3, Zenon DEF ReadCorpus, Timed

\* writeCorpus takes the file's labels along before it truncates it.
LEMMA WritesKeepCorpus ==
    ASSUME CorpusInv, RecordsSound, UNCHANGED recordVars, Truncate \/ Encode
    PROVE  CorpusInv'
<1>1. CASE Truncate
  <2>1. Timed(ReadCorpus(artifact))
    BY ReadTimed
  <2>2. Timed(MineCorpus(sets, outs))
    BY MinedTimed DEF CorpusInv, RecordsSound
  <2>3. Readable(artifact) /\ merged' = mergeCorpus(ReadCorpus(artifact), MineCorpus(sets, outs))
    BY <1>1, Zenon DEF Truncate
  <2> DEFINE new == merged'
  <2>4. Labelled(ReadCorpus(artifact)) \subseteq Labelled(new) /\ Timed(new) /\ OneEach(new)
    BY <2>1, <2>2, <2>3, MergeKeepsLabels
  <2>5. known \subseteq Labelled(new)
    BY <2>3, <2>4, Zenon DEF CorpusInv
  <2> HIDE DEF new
  <2>6. Labelled(merged)' = Labelled(new) /\ Timed(merged)' /\ OneEach(merged)'
    BY <2>4, Zenon DEF Labelled, IncidentOf, Timed, OneEach, new
  <2>7. artifact' = [is |-> "torn", version |-> CorpusVersion, cases |-> {}]
    BY <1>1, Zenon DEF Truncate
  <2>8. ~Readable(artifact)' /\ Timed(artifact.cases)' /\ artifact'.version # 0
    BY <2>7, CorpusAssumption, Zenon DEF Readable, Timed
  <2>9. UNCHANGED <<shipped, sets, outs, known, stream>>
    BY <1>1, Zenon DEF Truncate, recordVars
  <2> QED
    BY <2>5, <2>6, <2>8, <2>9, Zenon DEF CorpusInv
<1>2. CASE Encode
  <2>1. /\ artifact' = [is |-> "file", version |-> CorpusVersion, cases |-> merged]
        /\ known' = known \cup Labelled(merged) /\ mpc' = "rest" /\ mpc = "encode"
        /\ UNCHANGED <<shipped, sets, outs, merged, stream>>
    BY <1>2, Zenon DEF Encode, recordVars
  <2>2. artifact'.version = CorpusVersion /\ artifact'.cases = merged /\ CorpusVersion # 0
    BY <2>1, CorpusAssumption, Zenon
  <2>3. ReadCorpus(artifact)' = merged
    BY <2>2, Zenon DEF ReadCorpus
  <2>4. Labelled(ReadCorpus(artifact))' = Labelled(merged)
    BY <2>3, Zenon DEF Labelled, IncidentOf
  <2>5. Timed(artifact.cases)' /\ Timed(merged)' /\ OneEach(merged)'
    BY <2>1, <2>2, Zenon DEF Timed, OneEach, IncidentOf, CorpusInv
  <2> QED
    BY <2>1, <2>2, <2>4, <2>5, Zenon DEF CorpusInv
<1> QED
  BY <1>1, <1>2

LEMMA GrowsKeepsPoison ==
    ASSUME RecordsSound, PoisonInv, Grows
    PROVE  PoisonInv'
<1>1. /\ poison \in Nat /\ MaxPoison \in Nat /\ poison <= MaxPoison
      /\ Cardinality(Poison) <= poison
  BY IncidentAssumption DEF PoisonInv
<1>2. IsFiniteSet(Poison) /\ Cardinality(Poison) \in Nat
  <2>1. IsFiniteSet(1..Len(stream))
    BY Stored, FS_Interval
  <2>2. Poison \subseteq 1..Len(stream)
    BY Stored DEF Poison
  <2>3. IsFiniteSet(Poison)
    BY <2>1, <2>2, FS_Subset, Zenon
  <2> QED
    BY <2>3, FS_CardinalityType
<1>3. CASE UNCHANGED stream /\ poison' \in {poison, poison + 1} /\ poison' <= MaxPoison
  <2>1. Poison' = Poison
    BY <1>3 DEF Poison
  <2> QED
    BY <1>1, <1>2, <1>3, <2>1 DEF PoisonInv
<1>4. ASSUME NEW o, stream' = Append(stream, o),
             \/ o.what # "poison" /\ UNCHANGED poison
             \/ poison' = poison + 1 /\ poison < MaxPoison
      PROVE  PoisonInv'
  <2> DEFINE n == Len(stream) + 1
  <2>1. /\ stream'[n] = o /\ DOMAIN stream' = DOMAIN stream \cup {n} /\ n \notin DOMAIN stream
        /\ \A i \in DOMAIN stream : stream'[i] = stream[i]
    BY <1>4 DEF RecordsSound
  <2> HIDE DEF n
  <2>2. CASE o.what # "poison" /\ UNCHANGED poison
    <3>1. Poison' = Poison
      BY <2>1, <2>2 DEF Poison
    <3> QED
      BY <1>1, <2>2, <3>1 DEF PoisonInv
  <2>3. CASE poison' = poison + 1 /\ poison < MaxPoison
    <3>1. Poison' = Poison \/ (Poison' = Poison \cup {n} /\ n \notin Poison)
      BY <2>1 DEF Poison
    <3>2. n \notin Poison => Cardinality(Poison \cup {n}) = Cardinality(Poison) + 1
      BY <1>2, FS_AddElement
    <3> HIDE DEF Poison
    <3>3. Cardinality(Poison') <= Cardinality(Poison) + 1 /\ Cardinality(Poison') \in Nat
      BY <1>2, <3>1, <3>2
    <3> QED
      BY <1>1, <1>2, <2>3, <3>3 DEF PoisonInv
  <2> QED
    BY <1>4, <2>2, <2>3
<1> QED
  BY <1>3, <1>4, Zenon DEF Grows

\* Fewer objects are poison than a batch holds.
LEMMA BatchIsFirst ==
    ASSUME RecordsSound, PoisonInv, SnapType
    PROVE  FirstBatch
<1> DEFINE waiting == {i \in Of(Drained[subject]) : i > taken}
           ahead(i) == {j \in waiting : j < i}
<1>1. Fetched = {i \in waiting : Cardinality(ahead(i)) < Batch}
  BY Zenon DEF Fetched
<1>2. waiting \subseteq 1..Len(stream) /\ Len(stream) \in Nat /\ waiting \subseteq DOMAIN stream
  BY Stored DEF Of
<1>3. IsFiniteSet(1..Len(stream))
  BY <1>2, FS_Interval
<1> HIDE DEF waiting
<1>4. \A S \in SUBSET waiting : IsFiniteSet(S) /\ Cardinality(S) \in Nat
  <2> SUFFICES ASSUME NEW S \in SUBSET waiting
               PROVE  IsFiniteSet(S) /\ Cardinality(S) \in Nat
    OBVIOUS
  <2>1. S \subseteq 1..Len(stream)
    BY <1>2
  <2>2. IsFiniteSet(S)
    BY <1>3, <2>1, FS_Subset, Zenon
  <2> QED
    BY <2>2, FS_CardinalityType
<1>5. \A i \in waiting : ahead(i) \in SUBSET waiting
  OBVIOUS
<1>6. Fetched \in SUBSET waiting
  BY <1>1
<1>7. ASSUME Fetched # {}
      PROVE  /\ Max(Fetched) \in Fetched
             /\ \A i \in waiting : i <= Max(Fetched) => i \in Fetched
  <2>1. IsFiniteSet(Fetched) /\ Fetched \in SUBSET Nat
    BY <1>2, <1>4, <1>6
  <2> DEFINE m == Max(Fetched)
  <2>2. m \in Fetched
    BY <1>7, <2>1, MaxIsGreatest, Zenon
  <2> HIDE DEF m
  <2>3. m \in waiting /\ Cardinality(ahead(m)) < Batch
    BY <1>1, <2>2
  <2>4. ASSUME NEW i \in waiting, i <= m
        PROVE  i \in Fetched
    <3>1. ahead(i) \subseteq ahead(m)
      BY <1>2, <2>3, <2>4
    <3>2. ahead(m) \in SUBSET waiting /\ ahead(i) \in SUBSET waiting
      OBVIOUS
    <3> HIDE DEF ahead
    <3>3. IsFiniteSet(ahead(m)) /\ Cardinality(ahead(m)) \in Nat /\ Cardinality(ahead(i)) \in Nat
      BY <1>4, <3>2
    <3>4. Cardinality(ahead(i)) <= Cardinality(ahead(m))
      BY <3>1, <3>3, FS_Subset
    <3>5. Cardinality(ahead(i)) < Batch
      BY <2>3, <3>3, <3>4, IncidentAssumption
    <3> QED
      BY <1>1, <3>5
  <2> QED
    BY <2>2, <2>4 DEF m
<1>8. ASSUME MaxPoison < Batch, \A i \in Fetched : stream[i].what = "poison"
      PROVE  \A i \in waiting : stream[i].what = "poison"
  <2> DEFINE rest == {i \in waiting : stream[i].what # "poison"}
  <2> SUFFICES ASSUME rest # {}
               PROVE  FALSE
    OBVIOUS
  <2>1. rest \in SUBSET Nat
    BY <1>2
  <2>2. PICK m \in rest : \A i \in rest : m <= i
    BY <2>1, LeastNat, Zenon
  <2>3. m \in waiting /\ stream[m].what # "poison"
    BY <2>2
  <2>4. ahead(m) \subseteq Poison
    <3>1. \A j \in ahead(m) : j \in waiting /\ j \notin rest
      BY <1>2, <2>2, <2>3
    <3> QED
      BY <1>2, <3>1 DEF Poison
  <2>5. ahead(m) \in SUBSET waiting
    OBVIOUS
  <2>6. IsFiniteSet(Poison)
    <3>1. Poison \subseteq 1..Len(stream)
      BY Stored DEF Poison
    <3> QED
      BY <1>3, <3>1, FS_Subset, Zenon
  <2> HIDE DEF ahead, Poison
  <2>7. Cardinality(ahead(m)) \in Nat /\ Cardinality(ahead(m)) <= Cardinality(Poison)
    BY <1>4, <2>4, <2>5, <2>6, FS_Subset
  <2>8. Cardinality(Poison) \in Nat /\ poison \in Nat /\ Cardinality(Poison) <= poison /\ poison <= MaxPoison
    BY <2>6, FS_CardinalityType, IncidentAssumption DEF PoisonInv
  <2>9. Cardinality(ahead(m)) < Batch
    BY <1>8, <2>7, <2>8, IncidentAssumption
  <2>10. m \in Fetched
    BY <1>1, <2>3, <2>9
  <2> QED
    BY <1>8, <2>3, <2>10
<1> QED
  BY <1>6, <1>7, <1>8, Zenon DEF FirstBatch, waiting

\* The loop over the sorted events takes the earliest.
LEMMA ApplyKeeps ==
    ASSUME RecordsSound, SnapType, ApplyEvent, UNCHANGED recordVars
    PROVE  SnapType' /\ (SnapInv => SnapInv')
<1>1. UNCHANGED <<tool, stream, subject, taken, began>> /\ ipc = "apply"
  BY Zenon DEF ApplyEvent, recordVars
<1>2. /\ \A kind : Before(kind)' = Before(kind)
      /\ Drained' = Drained
  BY <1>1, Zenon DEF Before, Of, Drained
<1>3. CASE events = {}
  <2>1. ipc' = "done" /\ UNCHANGED <<snap, events>>
    BY <1>3, Zenon DEF ApplyEvent
  <2>2. /\ \A i : InRecord(snap, i)' <=> InRecord(snap, i)
        /\ InOrder(snap)' <=> InOrder(snap)
    BY <1>1, <2>1, Zenon DEF InRecord, InOrder
  <2>3. SnapType'
    BY <1>1, <2>1, Zenon DEF SnapType
  <2>4. SnapInv => SnapInv'
    BY <1>1, <1>2, <1>3, <2>1, <2>2, Zenon DEF SnapInv
  <2> QED
    BY <2>3, <2>4
<1>4. CASE events # {}
  <2> DEFINE e == Earliest(events)
  <2>1. events \in SUBSET Nat
    BY Stored, Zenon DEF SnapType
  <2>2. e \in events /\ \A i \in events : e <= i
    BY <1>4, <2>1, MinIsLeast, Zenon DEF Earliest
  <2>3. snap' = FoldRecord(snap, e) /\ events' = events \ {e} /\ ipc' = "apply"
    BY <1>1, <1>4, Zenon DEF ApplyEvent
  <2> HIDE DEF e
  <2> QED
    BY <1>1, <2>2, <2>3, FoldKeeps
<1> QED
  BY <1>3, <1>4

-----------------------------------------------------------------------------
ObserveInv == RigInv /\ RecordsSound /\ RowInv /\ CorpusInv

LEMMA InitSound ==
    ASSUME Init
    PROVE  ObserveInv
<1>1. RigInv
  BY Zenon DEF Init, HarvestInit, RigInv, Between
<1>2. RecordsSound
  <2>1. \A S : <<>> \in Seq(S)
    OBVIOUS
  <2> QED
    BY <2>1 DEF Init, RecordsInit, RecordsSound
<1>3. RowInv
  <2>1. "" \in Verdict
    BY Zenon DEF Verdict
  <2>2. term \in Verdict
    BY <2>1, Zenon DEF Init, HarvestInit
  <2>3. row = 0 /\ matched = 0 /\ results = <<>>
    BY Zenon DEF Init, HarvestInit
  <2>4. <<>> \in Seq([verdict : Verdict, run : Nat])
    OBVIOUS
  <2>5. results \in Seq([verdict : Verdict, run : Nat])
    BY <2>3, <2>4, Zenon
  <2>6. 1..Len(results) = {} /\ DOMAIN results = {}
    BY <2>3
  <2>7. row \in Nat /\ matched \in Nat
    BY <2>3
  <2>8. RowsOwnTheirRuns
    BY <2>6, Zenon DEF RowsOwnTheirRuns
  <2> QED
    BY <2>2, <2>3, <2>5, <2>6, <2>7, <2>8, Zenon DEF RowInv
<1>4. CorpusInv
  <2>1. artifact \in Artifacts /\ artifact.cases \in SUBSET Case /\ IsFiniteSet(artifact.cases)
    BY CorpusAssumption, Zenon DEF Init, CorpusInit
  <2> DEFINE times == {c.at : c \in artifact.cases}
  <2>2. times \in SUBSET Nat
    BY <2>1 DEF Case
  <2>3. IsFiniteSet(times)
    <3> DEFINE at == [c \in artifact.cases |-> c.at]
    <3>1. at \in Surjection(artifact.cases, times)
      BY Zenon DEF Surjection
    <3> HIDE DEF at, times
    <3> QED
      BY <2>1, <3>1, FS_Surjection, Zenon
  <2> HIDE DEF times
  <2>4. PICK b \in Nat : \A x \in times : x <= b
    BY <2>2, <2>3, FiniteBounded
  <2>5. \A c \in artifact.cases : c.at \in 0..b
    BY <2>2, <2>4 DEF times
  <2>6. Timed(artifact.cases)
    BY <2>4, <2>5 DEF Timed
  <2>7. Timed({}) /\ OneEach({})
    BY DEF Timed, OneEach
  <2>8. /\ shipped = {} /\ sets = {} /\ outs = {} /\ merged = {} /\ mpc = "rest"
        /\ Readable(artifact) => known = Labelled(ReadCorpus(artifact))
    BY DEF Init, CorpusInit
  <2> QED
    BY <2>1, <2>6, <2>7, <2>8, Zenon DEF CorpusInv
<1> QED
  BY <1>1, <1>2, <1>3, <1>4 DEF ObserveInv

LEMMA NextKeeps ==
    ASSUME ObserveInv, [Next]_vars
    PROVE  ObserveInv'
<1> USE DEF ObserveInv
<1>1. ASSUME UNCHANGED recordVars
      PROVE  RecordsSound' /\ RunsGo /\ DOMAIN stream \subseteq DOMAIN stream'
  <2>1. UNCHANGED <<tool, stream, queue, stage, born, now>>
    BY <1>1 DEF recordVars
  <2>2. RunsGo
    BY <2>1 DEF RunsGo, RecordsSound
  <2> QED
    BY <2>1, <2>2, QuietKeeps
<1>2. ASSUME UNCHANGED harvestVars
      PROVE  RigInv'
  <2>1. UNCHANGED <<scenario, rig, stuck, hpc, step, failed, err>>
    BY <1>2 DEF harvestVars, rigVars, endVars
  <2> QED
    BY <2>1 DEF RigInv, N, RestoreItem
<1>3. CASE Engine /\ UNCHANGED toolVars
  <2>1. UNCHANGED harvestVars /\ UNCHANGED corpusVars
    BY <1>3 DEF toolVars
  <2>2. RecordsSound' /\ RunsGo
    BY <1>3, EngineKeeps
  <2>3. DOMAIN stream \subseteq DOMAIN stream'
    BY <1>3, EngineStores
  <2> QED
    BY <1>2, <2>1, <2>2, <2>3, EngineKeepsRows, StoredKeepsCorpus, Zenon
<1>4. CASE tool = "harvest" /\ (HarvestStep \/ Interrupt) /\ UNCHANGED <<incidentVars, corpusVars>>
  <2>1. RigInv'
    BY <1>4, HarvestKeepsRig
  <2>2. RowInv' /\ RecordsSound'
    BY <1>4, HarvestKeepsRows
  <2>3. UNCHANGED corpusVars
    BY <1>4
  <2>4. UNCHANGED stream
    BY <1>4, Zenon DEF HarvestStep, Main, NextRow, SetPrecondition, CheckLive, ApplyFault, OpenLeg, Settle,
       TakeOutcome, TakeDecline, TakeHeld, TakeDetection, TakeSet, RefusalFires, WindowCloses,
       Receive, Settled, RestoreStep, Report, Cool, Interrupt, recordVars, elseVars
  <2> QED
    BY <2>1, <2>2, <2>3, <2>4, StoredKeepsCorpus
<1>5. CASE IncidentStep /\ UNCHANGED <<harvestVars, corpusVars>>
  <2>1. UNCHANGED harvestVars /\ UNCHANGED corpusVars
    BY <1>5
  <2>2. UNCHANGED recordVars
    BY <1>5 DEF IncidentStep
  <2> QED
    BY <1>1, <1>2, <2>1, <2>2, EngineKeepsRows, StoredKeepsCorpus, Zenon
<1>6. CASE CorpusStep /\ UNCHANGED <<harvestVars, incidentVars>>
  <2>1. UNCHANGED harvestVars /\ UNCHANGED recordVars
    BY <1>6 DEF CorpusStep
  <2>2. CorpusInv'
    BY <1>6, <2>1, WalksKeepCorpus, WritesKeepCorpus DEF CorpusStep
  <2> QED
    BY <1>1, <1>2, <2>1, <2>2, EngineKeepsRows, Zenon
<1>7. CASE UNCHANGED vars
  <2>1. UNCHANGED recordVars /\ UNCHANGED harvestVars /\ UNCHANGED corpusVars
    BY <1>7 DEF vars, toolVars
  <2> QED
    BY <1>1, <1>2, <2>1, EngineKeepsRows, StoredKeepsCorpus, Zenon
<1> QED
  BY <1>3, <1>4, <1>5, <1>6, <1>7, Zenon DEF Next

\* The four invariants hold of the engine and whichever tool reads beside it.
THEOREM ObserveIsSound == Spec => []ObserveInv
BY InitSound, NextKeeps, PTL DEF Spec

\* Between rows and at the end the rig is put back, or what is left of it is
\* stuck and the exit code says so (Harvest.Run's deferred restore), for any
\* table, any number of preconditions and any interrupt.
THEOREM RigIsPutBack == Spec => []RigPutBack
<1>1. ObserveInv => RigPutBack
  BY Zenon DEF ObserveInv, RigInv, RigPutBack, Between
<1> QED
  BY <1>1, ObserveIsSound, PTL

\* No two rows report one run of the reason loop (Settle, runIDFresh), however
\* often the sets leg replays the stream.
THEOREM RunsAreReportedOnce == Spec => []RowsOwnTheirRuns
<1>1. ObserveInv => RowsOwnTheirRuns
  BY Zenon DEF ObserveInv, RowInv
<1> QED
  BY <1>1, ObserveIsSound, PTL

\* No readable artifact has lost a label an earlier one held (writeCorpus,
\* mergeCorpus, CollapseCases, ReadCorpus), for any legacy artifact, whatever
\* the runs read and wherever they were killed.
THEOREM LabelsAreKept == Spec => []LabelsKept
<1>1. ObserveInv => LabelsKept
  BY Zenon DEF ObserveInv, CorpusInv, LabelsKept
<1> QED
  BY <1>1, ObserveIsSound, PTL

-----------------------------------------------------------------------------
ReadInv == CountInv /\ QueueInv /\ PoisonInv /\ SnapType

LEMMA InitReads ==
    ASSUME Init
    PROVE  ReadInv /\ SnapInv
<1>1. ObserveInv
  BY InitSound
<1>2. CountInv
  <2>1. /\ hpc = "main" /\ refusal = "unset" /\ matched = 0 /\ row = 0 /\ now = 0 /\ results = <<>>
    BY Zenon DEF Init, HarvestInit, RecordsInit
  <2> QED
    BY <2>1, HarvestAssumption, RecordsAssumption DEF CountInv, Between, Waits
<1>3. stream = <<>> /\ DOMAIN stream = {} /\ Len(stream) = 0
  BY DEF Init, RecordsInit
<1>4. QueueInv
  BY <1>3, Zenon DEF QueueInv, Init, RecordsInit
<1>5. PoisonInv
  <2>1. Poison = {} /\ Cardinality({}) = 0
    BY <1>3, FS_EmptySet DEF Poison
  <2>2. poison = 0
    BY DEF Init, RecordsInit
  <2> QED
    BY <2>1, <2>2, IncidentAssumption DEF PoisonInv
<1>6. /\ ipc = "rest" /\ subject = 1 /\ taken = 0 /\ events = {} /\ began = 0 /\ snap = NoRecord
  BY Zenon DEF Init, IncidentInit
<1>7. NoRecord \in Record /\ NoRecord.updatedAt = 0 /\ NoRecord.settled = <<>>
  <2>1. "" \in Stages
    BY Zenon DEF Stages
  <2>2. 0 \in Nat /\ <<>> \in Seq(Nat)
    OBVIOUS
  <2> QED
    BY <2>1, <2>2, Zenon DEF NoRecord, Record
<1>8. SnapType
  <2>1. began \in 0..Len(stream) /\ snap.updatedAt <= Len(stream) /\ subject \in 1..4 /\ taken \in Nat
    BY <1>3, <1>6, <1>7
  <2> QED
    BY <1>6, <1>7, <2>1, Zenon DEF SnapType
<1>9. InOrder(snap)
  <2>1. DOMAIN snap.settled = {}
    BY <1>6, <1>7
  <2> QED
    BY <2>1, Zenon DEF InOrder, UpTo, Increasing
<1>10. SnapInv
  BY <1>6, <1>9, Zenon DEF SnapInv
<1> QED
  BY <1>2, <1>4, <1>5, <1>8, <1>10 DEF ReadInv

\* One step: the types hold whatever is poison, the projection's invariant
\* while less of it is than a batch holds.
LEMMA NextReads ==
    ASSUME ObserveInv, ReadInv, [Next]_vars
    PROVE  ReadInv' /\ (MaxPoison < Batch /\ SnapInv => SnapInv')
<1> USE DEF ReadInv
<1>1. RecordsSound /\ RowInv
  BY DEF ObserveInv
<1>2. ASSUME UNCHANGED <<stream, poison>>
      PROVE  Grows
  BY <1>2, IncidentAssumption DEF Grows, PoisonInv
<1>3. ASSUME UNCHANGED <<stream, poison>>
      PROVE  PoisonInv'
  BY <1>1, <1>2, <1>3, GrowsKeepsPoison
<1>4. ASSUME UNCHANGED <<tool, incidentVars>>, Grows
      PROVE  SnapType' /\ (SnapInv => SnapInv')
  BY <1>1, <1>4, GrownKeeps, GrownKeepsSnap
<1>5. ASSUME UNCHANGED harvestVars, UNCHANGED now
      PROVE  CountInv'
  <2>1. UNCHANGED <<hpc, refusal, matched, row, results>>
    BY <1>5 DEF harvestVars, legVars, rigVars, endVars
  <2> QED
    BY <1>5, <2>1 DEF CountInv
<1>6. ASSUME UNCHANGED recordVars
      PROVE  UNCHANGED <<tool, stream, queue, open, poison, now>> /\ QueueInv'
  <2>1. UNCHANGED <<tool, stream, queue, open, poison, now>>
    BY <1>6 DEF recordVars
  <2> QED
    BY <2>1, Zenon DEF QueueInv, Replayed
<1>7. CASE Engine /\ UNCHANGED toolVars
  <2>1. UNCHANGED harvestVars /\ UNCHANGED incidentVars
    BY <1>7 DEF toolVars
  <2>2. UNCHANGED <<tool, now>>
    BY <1>7 DEF Engine
  <2>3. Grows
    BY <1>1, <1>7, EngineGrows
  <2>4. QueueInv'
    BY <1>1, <1>7, EngineKeepsQueue
  <2>5. PoisonInv'
    BY <1>1, <2>3, GrowsKeepsPoison
  <2> QED
    BY <1>4, <1>5, <2>1, <2>2, <2>3, <2>4, <2>5, Zenon
<1>8. CASE tool = "harvest" /\ (HarvestStep \/ Interrupt) /\ UNCHANGED <<incidentVars, corpusVars>>
  <2>1. CountInv'
    BY <1>1, <1>8, HarvestKeepsCount
  <2>2. QueueInv'
    BY <1>1, <1>8, HarvestKeepsQueue
  <2>3. UNCHANGED <<tool, stream, poison>>
    BY <1>8, Zenon DEF HarvestStep, Main, NextRow, SetPrecondition, CheckLive, ApplyFault, OpenLeg, Settle,
       TakeOutcome, TakeDecline, TakeHeld, TakeDetection, TakeSet, RefusalFires, WindowCloses,
       Receive, Settled, RestoreStep, Report, Cool, Interrupt, recordVars, elseVars
  <2>4. UNCHANGED incidentVars
    BY <1>8
  <2> QED
    BY <1>2, <1>3, <1>4, <2>1, <2>2, <2>3, <2>4, Zenon
<1>9. CASE tool = "incident" /\ IncidentStep /\ UNCHANGED <<harvestVars, corpusVars>>
  <2>1. UNCHANGED harvestVars /\ UNCHANGED recordVars
    BY <1>9 DEF IncidentStep
  <2>2. CountInv' /\ QueueInv' /\ PoisonInv'
    BY <1>3, <1>5, <1>6, <2>1, Zenon
  <2>3. CASE SnapshotBroker \/ DrainFails
    BY <1>1, <1>9, <2>1, <2>2, <2>3, BeginsKeeps
  <2>4. CASE DrainSubject
    <3>1. FirstBatch
      BY <1>1, BatchIsFirst
    <3> QED
      BY <1>1, <2>1, <2>2, <2>4, <3>1, DrainKeepsType, DrainKeeps
  <2>5. CASE ApplyEvent
    BY <1>1, <2>1, <2>2, <2>5, ApplyKeeps
  <2> QED
    BY <1>9, <2>3, <2>4, <2>5 DEF IncidentStep
<1>10. CASE CorpusStep /\ UNCHANGED <<harvestVars, incidentVars>>
  <2>1. UNCHANGED harvestVars /\ UNCHANGED incidentVars /\ UNCHANGED recordVars
    BY <1>10 DEF CorpusStep
  <2> QED
    BY <1>2, <1>3, <1>4, <1>5, <1>6, <2>1, Zenon
<1>11. CASE UNCHANGED vars
  <2>1. UNCHANGED harvestVars /\ UNCHANGED incidentVars /\ UNCHANGED recordVars
    BY <1>11 DEF vars, toolVars
  <2> QED
    BY <1>2, <1>3, <1>4, <1>5, <1>6, <2>1, Zenon
<1> QED
  BY <1>7, <1>8, <1>9, <1>10, <1>11, Zenon DEF Next

\* Every variable of the records and of the three tools stays in its type, for
\* any table, stream and artifact, and however much of the stream is poison.
THEOREM ToolsAreTyped == Spec => []TypeOK
<1>1. Spec => []ReadInv
  <2>1. Init => ReadInv
    BY InitReads
  <2>2. ObserveInv /\ ReadInv /\ [Next]_vars => ReadInv'
    BY NextReads
  <2> QED
    BY <2>1, <2>2, ObserveIsSound, PTL DEF Spec
<1>2. ObserveInv /\ ReadInv => TypeOK
  <2> SUFFICES ASSUME ObserveInv, ReadInv
               PROVE  TypeOK
    OBVIOUS
  <2>1. now \in 0..Repeat /\ row \in 0..Repeat /\ Len(results) <= row
    BY HarvestAssumption DEF ObserveInv, ReadInv, CountInv, RecordsSound
  <2>2. hpc \in {"main", "next", "set", "fault", "open", "settle", "restore", "report", "cool", "exit"}
    BY DEF ReadInv, CountInv, Between, Waits
  <2>3. snap.updatedAt \in 0..Len(stream)
    BY DEF ReadInv, SnapType, Record, ObserveInv, RecordsSound
  <2>4. \A c, d \in merged : IncidentOf(c) = IncidentOf(d) => c = d
    BY Zenon DEF ObserveInv, CorpusInv, OneEach
  <2>5. rig \subseteq 0..N /\ stuck \subseteq 0..N
    BY Zenon DEF ObserveInv, RigInv
  <2>6. shipped \subseteq DOMAIN stream /\ sets \cup outs \subseteq shipped
    BY Zenon DEF ObserveInv, CorpusInv
  <2>7. refusal \in {"unset", "armed", "stopped"} /\ matched \in 0..MaxRuns
    BY Zenon DEF ReadInv, CountInv
  <2>8. ipc \in {"rest", "drain", "apply", "done"} /\ events \subseteq DOMAIN stream
    BY Zenon DEF ReadInv, SnapType
  <2> QED
    BY <2>1, <2>2, <2>3, <2>4, <2>5, <2>6, <2>7, <2>8, Zenon DEF TypeOK, ReadInv, QueueInv
<1> QED
  BY <1>1, <1>2, ObserveIsSound, PTL

\* While fewer messages are poison than DrainSubject fetches at once, a finished
\* projection has every object stored before it began in its place, in the order
\* they were stored, whatever is published while it is built and however the
\* batches fall (SnapshotBroker, DrainSubject, Projection.Apply).
THEOREM SnapshotsAreCurrent ==
    ASSUME MaxPoison < Batch
    PROVE  Spec => []SnapshotCurrent
<1>1. Spec => [](ObserveInv /\ ReadInv /\ SnapInv)
  <2>1. Init => ReadInv /\ SnapInv
    BY InitReads
  <2>2. ObserveInv /\ ReadInv /\ SnapInv /\ [Next]_vars => ReadInv' /\ SnapInv'
    BY NextReads
  <2> QED
    BY <2>1, <2>2, ObserveIsSound, PTL DEF Spec
<1>2. ObserveInv /\ ReadInv /\ SnapInv => SnapshotCurrent
  <2> SUFFICES ASSUME ObserveInv, ReadInv, SnapInv, ipc = "done"
               PROVE  SnapshotCurrent
    BY Zenon DEF SnapshotCurrent
  <2>1. \A kind \in Kinds : \A i \in Before(kind) : InRecord(snap, i) /\ stream[i].kind = kind
    BY Zenon DEF SnapInv, Before, Of
  <2>2. tool = "incident" /\ Replayed = Kinds
    <3>1. tool = "incident"
      BY Zenon DEF ReadInv, SnapType
    <3> QED
      BY <3>1 DEF Replayed, Kinds
  <2>3. \A kind : \A i \in Before(kind) : kind \in Kinds
    BY <2>2, Zenon DEF ReadInv, QueueInv, Before, Of
  <2>4. \A kind \in Subjects : \A i \in Before(kind) : i <= snap.updatedAt
    BY <2>1, <2>3, Zenon DEF InRecord
  <2>5. /\ "detection" \in Kinds /\ "set" \in Kinds /\ "decision" \in Kinds /\ "outcome" \in Kinds
    BY DEF Kinds
  <2>6. /\ \A i \in Before("detection") : i <= snap.detected
        /\ \A i \in Before("set") : i <= snap.proposed
        /\ \A i \in Before("decision") : i <= snap.governed
        /\ \A i \in Before("outcome") : \E k \in DOMAIN snap.settled : snap.settled[k] = i
    BY <2>1, <2>5, Zenon DEF InRecord, Has
  <2>7. \A k, l \in DOMAIN snap.settled : k < l => snap.settled[k] < snap.settled[l]
    BY Zenon DEF SnapInv, InOrder, Increasing
  <2> QED
    BY <2>4, <2>6, <2>7, Zenon DEF SnapshotCurrent, Before
<1> QED
  BY <1>1, <1>2, PTL
=============================================================================
