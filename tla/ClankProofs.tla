----------------------------- MODULE ClankProofs -----------------------------
(***************************************************************************)
(* A delivered set stays open in clank's ledger until a closing answer     *)
(* about its fingerprint is stored, for any number of runs, fingerprints,  *)
(* faults and restarts.  At the end, the detector that feeds clank: what   *)
(* rattle holds back it holds back for a reason.                           *)
(***************************************************************************)
EXTENDS Clank, BusProofs

\* A leaf that names no backend is tried with SMT, then with Zenon.
USE SMTT(40), ZenonT(30)

\* A closing answer about the fingerprint is on stream s.
ClosedFor(s, fp) == \E k \in 1..Len(s) : Closes(s[k]) /\ s[k].fp = fp

\* A set on thump.proposals is a run's, under that run's fingerprint.
ProposalsSound ==
    \A i \in 1..Len(stream) :
        stream[i].subject = "proposals" =>
            stream[i].run \in started /\ FpOf[stream[i].run] = stream[i].fp

\* The replay stays within the stream, and no set is stored past its end while
\* it runs.
ReplaySound ==
    /\ replay.next >= 1
    /\ replay.last <= Len(stream)
    /\ ~Ready => \A i \in 1..Len(stream) :
                    stream[i].subject = "proposals" => i <= replay.last

\* Detections are only reasoned about with the ledger rebuilt.  A run that has
\* recorded nothing is not on the stream; one that is about to publish is open
\* or answered.
ReasoningSound ==
    reasoning.step # "idle" =>
        /\ Ready
        /\ reasoning.msg \in 1..Len(stream)
        /\ reasoning.run \in started
        /\ reasoning.step = "reason" =>
              \A i \in 1..Len(stream) :
                  stream[i].subject = "proposals" => stream[i].run # reasoning.run
        /\ reasoning.step = "publish" =>
              \/ phase[reasoning.run] \in Open
              \/ ClosedFor(stream, FpOf[reasoning.run])

\* The sets stored so far, or replayed so far, are open or answered.
LedgerSound ==
    \A i \in 1..Len(stream) :
        stream[i].subject = "proposals" /\ (Ready \/ i < replay.next) =>
            \/ phase[stream[i].run] \in Open
            \/ ClosedFor(stream, stream[i].fp)

IInv ==
    /\ TypeOK
    /\ ProposalsSound
    /\ ReplaySound
    /\ ReasoningSound
    /\ LedgerSound

-----------------------------------------------------------------------------
\* The stream keeps what it has.
Grew ==
    /\ Len(stream) <= Len(stream')
    /\ \A k \in 1..Len(stream) : stream'[k] = stream[k]

\* Open sets stay open, or are answered.
OpenKept ==
    \A r \in Run : phase[r] \in Open => phase'[r] \in Open \/ ClosedFor(stream', FpOf[r])

LEMMA ClosedStays ==
    ASSUME TypeOK, TypeOK', Grew, NEW fp, ClosedFor(stream, fp)
    PROVE  ClosedFor(stream', fp)
<1>1. Len(stream) \in Nat /\ Len(stream') \in Nat
  BY DEF TypeOK, BusTypeOK
<1>2. PICK k \in 1..Len(stream) : Closes(stream[k]) /\ stream[k].fp = fp
  BY DEF ClosedFor
<1>3. k \in 1..Len(stream') /\ stream'[k] = stream[k]
  BY <1>1, <1>2 DEF Grew
<1>4. Closes(stream'[k]) /\ stream'[k].fp = fp
  BY <1>2, <1>3
<1> QED
  BY <1>3, <1>4, Zenon DEF ClosedFor

\* A step that stores no set, moves no replay and closes no unanswered set keeps
\* everything but what it does to the run in hand.
LEMMA Kept ==
    ASSUME IInv, TypeOK', Grew, OpenKept, started \subseteq started',
           replay' = replay,
           \A k \in 1..Len(stream') :
               stream'[k].subject = "proposals" => k \in 1..Len(stream)
    PROVE  /\ ProposalsSound' /\ ReplaySound' /\ LedgerSound'
           /\ reasoning' = reasoning \/ reasoning' = NoThought => ReasoningSound'
<1>1. Len(stream) \in Nat /\ Len(stream') \in Nat /\ started \subseteq Run
  BY DEF IInv, TypeOK, BusTypeOK, ClankTypeOK
<1>2. Ready' <=> Ready
  BY DEF Ready
<1>3. ProposalsSound'
  BY <1>1 DEF ProposalsSound, IInv, Grew
<1>4. ReplaySound'
  <2>1. replay \in [next : Nat, last : Nat]
    BY DEF IInv, TypeOK, ClankTypeOK
  <2>2. replay'.next >= 1 /\ replay'.last <= Len(stream')
    BY <1>1, <2>1 DEF ReplaySound, IInv, Grew
  <2>3. ASSUME ~Ready, NEW i \in 1..Len(stream'), stream'[i].subject = "proposals"
        PROVE  i <= replay'.last
    BY <1>1, <2>3 DEF ReplaySound, IInv, Grew
  <2> QED
    BY <1>2, <2>2, <2>3 DEF ReplaySound
<1>5. LedgerSound'
  <2> SUFFICES ASSUME NEW i \in 1..Len(stream'), stream'[i].subject = "proposals",
                      Ready \/ i < replay.next
               PROVE  phase'[stream'[i].run] \in Open \/ ClosedFor(stream', stream'[i].fp)
    BY <1>2 DEF LedgerSound
  <2>1. i \in 1..Len(stream) /\ stream'[i] = stream[i]
    BY DEF Grew
  <2>2. stream[i].run \in Run /\ FpOf[stream[i].run] = stream[i].fp
    BY <1>1, <2>1 DEF IInv, ProposalsSound
  <2>3. phase[stream[i].run] \in Open \/ ClosedFor(stream, stream[i].fp)
    BY <2>1 DEF IInv, LedgerSound
  <2>4. CASE phase[stream[i].run] \in Open
    BY <2>1, <2>2, <2>4 DEF OpenKept
  <2>5. CASE ClosedFor(stream, stream[i].fp)
    BY <2>1, <2>5, ClosedStays DEF IInv
  <2> QED
    BY <2>3, <2>4, <2>5
<1>6. ASSUME reasoning' = reasoning
      PROVE  ReasoningSound'
  <2> SUFFICES ASSUME reasoning.step # "idle" PROVE ReasoningSound'
    BY <1>6 DEF ReasoningSound
  <2>1. /\ Ready' /\ reasoning'.msg \in 1..Len(stream') /\ reasoning'.run \in started'
        /\ reasoning.run \in Run
    BY <1>1, <1>2, <1>6 DEF IInv, ReasoningSound, Grew
  <2>2. ASSUME reasoning.step = "reason", NEW i \in 1..Len(stream'),
               stream'[i].subject = "proposals"
        PROVE  stream'[i].run # reasoning.run
    BY <2>2 DEF IInv, ReasoningSound, Grew
  <2>3. ASSUME reasoning.step = "publish"
        PROVE  phase'[reasoning.run] \in Open \/ ClosedFor(stream', FpOf[reasoning.run])
    <3>1. phase[reasoning.run] \in Open \/ ClosedFor(stream, FpOf[reasoning.run])
      BY <2>3 DEF IInv, ReasoningSound
    <3>2. CASE ClosedFor(stream, FpOf[reasoning.run])
      BY <3>2, ClosedStays DEF IInv
    <3>3. CASE phase[reasoning.run] \in Open
      BY <2>1, <3>3 DEF OpenKept
    <3> QED
      BY <3>1, <3>2, <3>3
  <2> QED
    BY <1>6, <2>1, <2>2, <2>3 DEF ReasoningSound
<1>7. ASSUME reasoning' = NoThought
      PROVE  ReasoningSound'
  BY <1>7 DEF ReasoningSound, NoThought
<1> QED
  BY <1>3, <1>4, <1>5, <1>6, <1>7

\* The same for a step that stores nothing.
LEMMA KeptSameStream ==
    ASSUME IInv, TypeOK', stream' = stream, OpenKept, started \subseteq started',
           replay' = replay
    PROVE  /\ ProposalsSound' /\ ReplaySound' /\ LedgerSound'
           /\ reasoning' = reasoning \/ reasoning' = NoThought => ReasoningSound'
<1>1. Len(stream) \in Nat
  BY DEF IInv, TypeOK, BusTypeOK
<1>2. Grew /\ \A k \in 1..Len(stream') :
                 stream'[k].subject = "proposals" => k \in 1..Len(stream)
  BY <1>1 DEF Grew
<1> QED
  BY <1>2, Kept

LEMMA SamePhase ==
    ASSUME phase' = phase
    PROVE  OpenKept
BY DEF OpenKept

LEMMA NoThoughtType == NoThought \in Thought
BY DEF NoThought, Thought

\* A message at a position of the stream has the bus's types.
LEMMA InHand ==
    ASSUME TypeOK, NEW i \in 1..Len(stream)
    PROVE  stream[i].fp \in Fingerprint /\ stream[i].run \in Run \cup {NoRun}
<1>1. stream[i] \in Message
  BY DEF TypeOK, BusTypeOK
<1> QED
  BY <1>1 DEF Message

-----------------------------------------------------------------------------
\* The ledger's operations.

LEMMA TransitionType == \A t : Transition(t) \in Phase
BY DEF Transition, Phase, Open

LEMMA RecordedKeeps ==
    ASSUME ClankTypeOK, NEW r \in Run, NEW p \in Phase
    PROVE  /\ Recorded(r, p) \in [Run -> Phase]
           /\ Recorded(r, p)[r] = p
           /\ \A s \in Run \ {r} : phase[s] \in Open => Recorded(r, p)[s] \in Open
BY DEF Recorded, ClankTypeOK, Phase, Open

LEMMA AnsweredKeeps ==
    ASSUME ClankTypeOK, NEW fp, NEW p \in Phase
    PROVE  /\ Answered(fp, p) \in [Run -> Phase]
           /\ \A r \in Run : phase[r] \in Open =>
                 Answered(fp, p)[r] \in Open \/ (FpOf[r] = fp /\ p \notin Open)
BY DEF Answered, OpenSets, ClankTypeOK

\* An answer at position i of the stream closes no set that it does not answer.
LEMMA AnswerKeeps ==
    ASSUME TypeOK, NEW i \in 1..Len(stream)
    PROVE  /\ stream[i].subject = "outcomes" =>
                 /\ Observed(stream[i]) \in [Run -> Phase]
                 /\ \A r \in Run : phase[r] \in Open =>
                       \/ Observed(stream[i])[r] \in Open
                       \/ ClosedFor(stream, FpOf[r])
           /\ stream[i].subject = "declines" =>
                 /\ Declined(stream[i]) \in [Run -> Phase]
                 /\ \A r \in Run : phase[r] \in Open =>
                       \/ Declined(stream[i])[r] \in Open
                       \/ ClosedFor(stream, FpOf[r])
<1> DEFINE m == stream[i]
<1>1. ASSUME NEW r \in Run, FpOf[r] = m.fp, Closes(m)
      PROVE  ClosedFor(stream, FpOf[r])
  BY <1>1, Zenon DEF ClosedFor
<1>2. Transition(m.tag) \in Phase /\ "declined" \in Phase /\ "declined" \notin Open
  BY TransitionType DEF Phase, Open
<1>3. Transition(m.tag) \notin Open => Transition(m.tag) = "closed"
  BY DEF Transition, Open
<1>4. ClankTypeOK
  BY DEF TypeOK
<1>5. ASSUME m.subject = "outcomes"
      PROVE  /\ Observed(m) \in [Run -> Phase]
             /\ \A r \in Run : phase[r] \in Open =>
                   Observed(m)[r] \in Open \/ ClosedFor(stream, FpOf[r])
  <2>1. /\ Observed(m) \in [Run -> Phase]
        /\ \A r \in Run : phase[r] \in Open =>
              Observed(m)[r] \in Open \/ (FpOf[r] = m.fp /\ Transition(m.tag) \notin Open)
    BY <1>2, <1>4, AnsweredKeeps DEF Observed
  <2>2. Transition(m.tag) \notin Open => Closes(m)
    BY <1>3, <1>5 DEF Closes
  <2> QED
    BY <1>1, <2>1, <2>2
<1>6. ASSUME m.subject = "declines"
      PROVE  /\ Declined(m) \in [Run -> Phase]
             /\ \A r \in Run : phase[r] \in Open =>
                   Declined(m)[r] \in Open \/ ClosedFor(stream, FpOf[r])
  <2>1. /\ Declined(m) \in [Run -> Phase]
        /\ \A r \in Run : phase[r] \in Open => Declined(m)[r] \in Open \/ FpOf[r] = m.fp
    BY <1>2, <1>4, AnsweredKeeps DEF Declined
  <2>2. Closes(m)
    BY <1>6 DEF Closes
  <2> QED
    BY <1>1, <2>1, <2>2
<1> QED
  BY <1>5, <1>6

LEMMA LearnedType ==
    ASSUME cases \in Seq(Nat), NEW i \in Nat
    PROVE  Learned(i) \in Seq(Nat)
BY ClankAssumption DEF Learned

-----------------------------------------------------------------------------
\* The detections consumer.

LEMMA SkipDetectionKeeps ==
    ASSUME IInv, NEW i, SkipDetection(i)
    PROVE  IInv'
<1>1. BusTypeOK /\ ClankTypeOK /\ Len(stream) \in Nat
  BY DEF IInv, TypeOK, BusTypeOK
<1>2. i \in 1..Len(stream) /\ Delivered(i) \in [1..Len(stream) -> Standing]
  BY <1>1, DeliveredType DEF SkipDetection, Subject
<1>3. delivery' \in [1..Len(stream) -> Standing] /\ faults' \in 0..MaxFaults
  BY <1>1, <1>2, AckedType DEF SkipDetection, BusTypeOK
<1>4. TypeOK'
  BY <1>1, <1>3 DEF TypeOK, BusTypeOK, ClankTypeOK, SkipDetection, clankVars
<1>5. /\ stream' = stream /\ phase' = phase /\ started' = started
      /\ replay' = replay /\ reasoning' = reasoning
  BY DEF SkipDetection, clankVars
<1> QED
  BY <1>4, <1>5, KeptSameStream, SamePhase DEF IInv

LEMMA StartRunKeeps ==
    ASSUME IInv, NEW i, StartRun(i)
    PROVE  IInv'
<1>1. BusTypeOK /\ ClankTypeOK /\ Len(stream) \in Nat /\ TypeOK
  BY DEF IInv, TypeOK, BusTypeOK
<1>2. i \in 1..Len(stream) /\ Delivered(i) \in [1..Len(stream) -> Standing]
  BY <1>1, DeliveredType DEF StartRun, Subject
<1>3. PICK r \in NewRuns(stream[i].fp) :
          /\ reasoning' = [msg |-> i, run |-> r, step |-> "reason"]
          /\ started' = started \cup {r}
  BY DEF StartRun
<1>4. r \in Run /\ r \notin started
  BY <1>3, ClankAssumption DEF NewRuns
<1>5. reasoning' \in Thought /\ started' \subseteq Run
  BY <1>1, <1>2, <1>3, <1>4 DEF Thought, ClankTypeOK
<1>6. /\ stream' = stream /\ phase' = phase /\ replay' = replay
      /\ started \subseteq started' /\ Ready
  BY <1>3 DEF StartRun
<1>7. TypeOK'
  BY <1>1, <1>2, <1>5 DEF TypeOK, BusTypeOK, ClankTypeOK, StartRun
<1>8. ProposalsSound' /\ ReplaySound' /\ LedgerSound'
  BY <1>6, <1>7, KeptSameStream, SamePhase
<1>9. \A k \in 1..Len(stream) : stream[k].subject = "proposals" => stream[k].run # r
  BY <1>4 DEF IInv, ProposalsSound
<1>10. ReasoningSound'
  BY <1>2, <1>3, <1>6, <1>9 DEF ReasoningSound, Ready
<1> QED
  BY <1>7, <1>8, <1>10 DEF IInv

LEMMA FailRunKeeps ==
    ASSUME IInv, FailRun
    PROVE  IInv'
<1>1. BusTypeOK /\ ClankTypeOK /\ Len(stream) \in Nat /\ ReasoningSound
  BY DEF IInv, TypeOK, BusTypeOK
<1>2. delivery' \in [1..Len(stream) -> Standing] /\ faults' \in 0..MaxFaults
  BY <1>1, NakedType, FaultType DEF FailRun, BusTypeOK, ReasoningSound
<1>3. TypeOK'
  BY <1>1, <1>2, NoThoughtType DEF TypeOK, BusTypeOK, ClankTypeOK, FailRun
<1>4. /\ stream' = stream /\ phase' = phase /\ started' = started
      /\ replay' = replay /\ reasoning' = NoThought
  BY DEF FailRun
<1> QED
  BY <1>3, <1>4, KeptSameStream, SamePhase DEF IInv

\* The run in hand is on no stored proposal until it publishes, so recording it
\* disturbs none.
LEMMA RecordKeeps ==
    ASSUME IInv, TypeOK', reasoning.step = "reason", NEW p \in Phase,
           phase' = Recorded(reasoning.run, p), stream' = stream,
           replay' = replay, started' = started
    PROVE  /\ ProposalsSound' /\ ReplaySound' /\ LedgerSound'
           /\ phase'[reasoning.run] = p
<1>1. /\ ClankTypeOK /\ reasoning.run \in Run /\ started \subseteq Run
      /\ \A i \in 1..Len(stream) :
            stream[i].subject = "proposals" => stream[i].run # reasoning.run
      /\ ProposalsSound /\ LedgerSound
  BY DEF IInv, TypeOK, ReasoningSound, ClankTypeOK
<1>2. /\ phase'[reasoning.run] = p
      /\ \A s \in Run \ {reasoning.run} : phase[s] \in Open => phase'[s] \in Open
  BY <1>1, RecordedKeeps
<1>3. ProposalsSound' /\ ReplaySound'
  BY <1>1 DEF ProposalsSound, ReplaySound, IInv, Ready
<1>4. LedgerSound'
  BY <1>1, <1>2 DEF LedgerSound, ProposalsSound, Ready
<1> QED
  BY <1>2, <1>3, <1>4

LEMMA RecordNoActionKeeps ==
    ASSUME IInv, RecordNoAction
    PROVE  IInv'
<1>1. BusTypeOK /\ ClankTypeOK /\ Len(stream) \in Nat /\ ReasoningSound
  BY DEF IInv, TypeOK, BusTypeOK
<1>2. reasoning.msg \in 1..Len(stream) /\ reasoning.run \in Run /\ "no_action" \in Phase
  BY <1>1 DEF ReasoningSound, RecordNoAction, ClankTypeOK, Phase
<1>3. delivery' \in [1..Len(stream) -> Standing] /\ faults' \in 0..MaxFaults
  BY <1>1, <1>2, AckedType, NakedType, FaultType DEF RecordNoAction, BusTypeOK
<1>4. phase' \in [Run -> Phase]
  BY <1>1, <1>2, RecordedKeeps DEF RecordNoAction
<1>5. TypeOK'
  BY <1>1, <1>3, <1>4, NoThoughtType DEF TypeOK, BusTypeOK, ClankTypeOK, RecordNoAction
<1>6. ProposalsSound' /\ ReplaySound' /\ LedgerSound'
  BY <1>2, <1>5, RecordKeeps DEF RecordNoAction
<1>7. ReasoningSound'
  BY DEF ReasoningSound, RecordNoAction, NoThought
<1> QED
  BY <1>5, <1>6, <1>7 DEF IInv

LEMMA RecordProposedKeeps ==
    ASSUME IInv, RecordProposed
    PROVE  IInv'
<1>1. BusTypeOK /\ ClankTypeOK /\ Len(stream) \in Nat /\ ReasoningSound
  BY DEF IInv, TypeOK, BusTypeOK
<1>2. /\ reasoning.msg \in 1..Len(stream) /\ reasoning.run \in Run
      /\ "proposed" \in Phase /\ "proposed" \in Open
  BY <1>1 DEF ReasoningSound, RecordProposed, ClankTypeOK, Phase, Open
<1>3. delivery' \in [1..Len(stream) -> Standing] /\ faults' \in 0..MaxFaults
  BY <1>1, <1>2, NakedType, FaultType DEF RecordProposed, BusTypeOK
<1>4. phase' \in [Run -> Phase]
  BY <1>1, <1>2, RecordedKeeps DEF RecordProposed
<1>5. \/ reasoning' = NoThought
      \/ reasoning' = [reasoning EXCEPT !.step = "publish"]
  BY DEF RecordProposed
<1>6. reasoning' \in Thought
  BY <1>1, <1>5, NoThoughtType DEF ClankTypeOK, Thought
<1>7. TypeOK'
  BY <1>1, <1>3, <1>4, <1>6 DEF TypeOK, BusTypeOK, ClankTypeOK, RecordProposed
<1>8. ProposalsSound' /\ ReplaySound' /\ LedgerSound'
      /\ phase'[reasoning.run] = "proposed"
  BY <1>2, <1>7, RecordKeeps DEF RecordProposed
<1>9. ReasoningSound'
  <2>1. CASE reasoning' = NoThought
    BY <2>1 DEF ReasoningSound, NoThought
  <2>2. CASE reasoning' = [reasoning EXCEPT !.step = "publish"]
    <3>1. /\ reasoning'.msg = reasoning.msg /\ reasoning'.run = reasoning.run
          /\ reasoning'.step = "publish"
      BY <1>1, <2>2 DEF ClankTypeOK, Thought
    <3>2. Ready' /\ reasoning.run \in started' /\ stream' = stream
      BY <1>1 DEF ReasoningSound, RecordProposed, Ready
    <3> QED
      BY <1>2, <1>8, <3>1, <3>2 DEF ReasoningSound
  <2> QED
    BY <1>5, <2>1, <2>2
<1> QED
  BY <1>7, <1>8, <1>9 DEF IInv

LEMMA PublishSetKeeps ==
    ASSUME IInv, PublishSet
    PROVE  IInv'
<1> DEFINE r == reasoning.run
           m == Msg("proposals", FpOf[r], r, "none")
<1>1. BusTypeOK /\ ClankTypeOK /\ Len(stream) \in Nat /\ stream \in Seq(Message)
      /\ ReasoningSound /\ ProposalsSound /\ LedgerSound /\ ReplaySound /\ TypeOK
  BY DEF IInv, TypeOK, BusTypeOK
<1>2. /\ reasoning.msg \in 1..Len(stream) /\ r \in started /\ r \in Run /\ Ready
      /\ phase[r] \in Open \/ ClosedFor(stream, FpOf[r])
  BY <1>1 DEF ReasoningSound, PublishSet, ClankTypeOK
<1>3. m \in Message
  BY <1>2, ClankAssumption, MsgType, Zenon DEF Subject
<1>4. BusTypeOK' /\ (stream' = stream \/ Stored(m))
  <2> HIDE DEF m
  <2> QED
    BY <1>1, <1>2, <1>3, PublishedThenReturnedType DEF PublishSet, m
<1>5. /\ reasoning' = NoThought /\ phase' = phase /\ started' = started
      /\ replay' = replay /\ Ready'
  BY <1>2 DEF PublishSet, Ready
<1>6. TypeOK'
  BY <1>1, <1>4, NoThoughtType DEF TypeOK, ClankTypeOK, PublishSet
<1>7. CASE stream' = stream
  BY <1>5, <1>6, <1>7, KeptSameStream, SamePhase DEF IInv
<1>8. CASE Stored(m)
  <2>1. /\ Len(stream') = Len(stream) + 1
        /\ \A k \in 1..Len(stream) : stream'[k] = stream[k]
        /\ stream'[Len(stream) + 1] = m
    <3> HIDE DEF m
    <3> QED
      BY <1>1, <1>3, <1>8, StoredExtends
  <2>2. Grew
    BY <1>1, <2>1 DEF Grew
  <2>3. \A fp : ClosedFor(stream, fp) => ClosedFor(stream', fp)
    BY <1>1, <1>6, <2>2, ClosedStays
  <2>4. m.subject = "proposals" /\ m.run = r /\ m.fp = FpOf[r]
    BY DEF Msg
  <2>5. \A k \in 1..Len(stream') : k \in 1..Len(stream) \/ k = Len(stream) + 1
    BY <1>1, <2>1
  <2> HIDE DEF m, r
  <2>6. ProposalsSound'
    BY <1>1, <1>2, <1>5, <2>1, <2>4, <2>5 DEF ProposalsSound
  <2>7. ReplaySound'
    BY <1>1, <1>5, <2>1 DEF ReplaySound, ClankTypeOK
  <2>8. LedgerSound'
    <3> SUFFICES ASSUME NEW k \in 1..Len(stream'), stream'[k].subject = "proposals"
                 PROVE  phase[stream'[k].run] \in Open \/ ClosedFor(stream', stream'[k].fp)
      BY <1>5 DEF LedgerSound
    <3>1. CASE k \in 1..Len(stream)
      BY <1>1, <1>2, <2>1, <2>3, <3>1 DEF LedgerSound
    <3>2. CASE k = Len(stream) + 1
      BY <1>2, <2>1, <2>3, <2>4, <3>2
    <3> QED
      BY <2>5, <3>1, <3>2
  <2>9. ReasoningSound'
    BY <1>5 DEF ReasoningSound, NoThought
  <2> QED
    BY <1>6, <2>6, <2>7, <2>8, <2>9 DEF IInv
<1> QED
  BY <1>4, <1>7, <1>8

-----------------------------------------------------------------------------
\* The return edges.

LEMMA AbsorbOutcomeKeeps ==
    ASSUME IInv, NEW i, AbsorbOutcome(i)
    PROVE  IInv'
<1>1. BusTypeOK /\ ClankTypeOK /\ Len(stream) \in Nat /\ TypeOK
  BY DEF IInv, TypeOK, BusTypeOK
<1>2. /\ i \in 1..Len(stream) /\ Delivered(i) \in [1..Len(stream) -> Standing]
      /\ stream[i].subject = "outcomes"
  BY <1>1, DeliveredType DEF AbsorbOutcome, Subject, Deliverable
<1>3. delivery' \in [1..Len(stream) -> Standing] /\ faults' \in 0..MaxFaults
  BY <1>1, <1>2, AckedType, Zenon DEF AbsorbOutcome, BusTypeOK
<1>4. /\ stream' = stream /\ started' = started /\ replay' = replay
      /\ reasoning' = reasoning /\ phase' = Observed(stream[i])
  BY DEF AbsorbOutcome
<1>5. phase' \in [Run -> Phase] /\ OpenKept
  BY <1>1, <1>2, <1>4, AnswerKeeps DEF OpenKept
<1>6. cases' \in Seq(Nat)
  BY <1>1, <1>2, LearnedType DEF AbsorbOutcome, ClankTypeOK
<1>7. TypeOK'
  BY <1>1, <1>3, <1>5, <1>6 DEF TypeOK, BusTypeOK, ClankTypeOK, AbsorbOutcome
<1> QED
  BY <1>4, <1>5, <1>7, KeptSameStream DEF IInv

LEMMA AbsorbDeclineKeeps ==
    ASSUME IInv, NEW i, AbsorbDecline(i)
    PROVE  IInv'
<1>1. BusTypeOK /\ ClankTypeOK /\ Len(stream) \in Nat /\ TypeOK
  BY DEF IInv, TypeOK, BusTypeOK
<1>2. /\ i \in 1..Len(stream) /\ Delivered(i) \in [1..Len(stream) -> Standing]
      /\ stream[i].subject = "declines"
  BY <1>1, DeliveredType DEF AbsorbDecline, Subject, Deliverable
<1>3. delivery' \in [1..Len(stream) -> Standing] /\ faults' \in 0..MaxFaults
  BY <1>1, <1>2, AckedType DEF AbsorbDecline, BusTypeOK
<1>4. /\ stream' = stream /\ started' = started /\ replay' = replay
      /\ reasoning' = reasoning /\ phase' = Declined(stream[i])
  BY DEF AbsorbDecline
<1>5. phase' \in [Run -> Phase] /\ OpenKept
  BY <1>1, <1>2, <1>4, AnswerKeeps DEF OpenKept
<1>6. TypeOK'
  BY <1>1, <1>3, <1>5 DEF TypeOK, BusTypeOK, ClankTypeOK, AbsorbDecline
<1> QED
  BY <1>4, <1>5, <1>6, KeptSameStream DEF IInv

-----------------------------------------------------------------------------
\* The rebuild.

LEMMA RestartClankKeeps ==
    ASSUME IInv, RestartClank
    PROVE  IInv'
<1>1. BusTypeOK /\ ClankTypeOK /\ Len(stream) \in Nat /\ ProposalsSound
  BY DEF IInv, TypeOK, BusTypeOK
<1>2. BusTypeOK'
  BY <1>1, FaultType, AbandonedType DEF RestartClank, BusTypeOK
<1>3. /\ stream' = stream /\ started' = started /\ reasoning' = NoThought
      /\ replay'.next = 1 /\ replay'.last = Len(stream)
  BY DEF RestartClank
<1>4. TypeOK'
  BY <1>1, <1>2, NoThoughtType DEF TypeOK, ClankTypeOK, RestartClank, Phase
<1>5. ProposalsSound' /\ ReasoningSound'
  BY <1>1, <1>3 DEF ProposalsSound, ReasoningSound, NoThought
<1>6. ReplaySound' /\ LedgerSound'
  BY <1>1, <1>3 DEF ReplaySound, LedgerSound, Ready
<1> QED
  BY <1>4, <1>5, <1>6 DEF IInv

LEMMA ReplayNextKeeps ==
    ASSUME IInv, ReplayNext
    PROVE  IInv'
<1> DEFINE i == replay.next
           m == stream[i]
<1>1. /\ BusTypeOK /\ ClankTypeOK /\ TypeOK /\ Len(stream) \in Nat
      /\ ProposalsSound /\ ReplaySound /\ ReasoningSound /\ LedgerSound
  BY DEF IInv, TypeOK, BusTypeOK
<1>2. replay.next \in Nat /\ replay.last \in Nat /\ ~Ready
  BY <1>1 DEF ClankTypeOK, ReplayNext
<1>3. i \in 1..Len(stream)
  BY <1>1, <1>2 DEF ReplaySound, Ready
<1>4. /\ stream' = stream /\ started' = started /\ reasoning' = reasoning
      /\ BusTypeOK'
  BY <1>1 DEF ReplayNext, busVars, BusTypeOK
<1>5. replay' \in [next : Nat, last : Nat] /\ replay'.next = i + 1
      /\ replay'.last = replay.last
  <2>1. replay' = [replay EXCEPT !.next = replay.next + 1]
    BY DEF ReplayNext
  <2>2. replay \in [next : Nat, last : Nat]
    BY <1>1 DEF ClankTypeOK
  <2> QED
    BY <2>1, <2>2
<1>6. cases' \in Seq(Nat)
  BY <1>1, <1>2, LearnedType DEF ReplayNext, ClankTypeOK
<1>7. /\ phase' \in [Run -> Phase]
      /\ \A r \in Run : phase[r] \in Open =>
            phase'[r] \in Open \/ ClosedFor(stream, FpOf[r])
      /\ m.subject = "proposals" => phase'[m.run] \in Open
  <2>1. CASE m.subject = "proposals"
    <3>1. phase' = [phase EXCEPT ![m.run] = "proposed"]
      BY <2>1 DEF ReplayNext
    <3>2. m.run \in Run /\ "proposed" \in Phase /\ "proposed" \in Open
      BY <1>1, <1>3, <2>1 DEF ProposalsSound, ClankTypeOK, Phase, Open
    <3> QED
      BY <1>1, <3>1, <3>2 DEF ClankTypeOK
  <2>2. CASE m.subject = "outcomes"
    <3>1. phase' = Observed(m)
      BY <2>2 DEF ReplayNext
    <3> QED
      BY <1>1, <1>3, <2>2, <3>1, AnswerKeeps
  <2>3. CASE m.subject = "declines"
    <3>1. phase' = Declined(m)
      BY <2>3 DEF ReplayNext
    <3> QED
      BY <1>1, <1>3, <2>3, <3>1, AnswerKeeps
  <2>4. CASE m.subject \notin {"proposals", "outcomes", "declines"}
    <3>1. phase' = phase
      BY <2>4 DEF ReplayNext
    <3> QED
      BY <1>1, <2>4, <3>1 DEF ClankTypeOK
  <2> QED
    BY <2>1, <2>2, <2>3, <2>4
<1>8. TypeOK'
  BY <1>1, <1>4, <1>5, <1>6, <1>7 DEF TypeOK, ClankTypeOK, ReplayNext
<1>9. ProposalsSound'
  BY <1>1, <1>4 DEF ProposalsSound
<1>10. ReplaySound'
  BY <1>1, <1>2, <1>4, <1>5 DEF ReplaySound
<1>11. ReasoningSound'
  BY <1>1, <1>2, <1>4 DEF ReasoningSound
<1>12. LedgerSound'
  <2> SUFFICES ASSUME NEW k \in 1..Len(stream), stream[k].subject = "proposals",
                      Ready' \/ k < replay'.next
               PROVE  phase'[stream[k].run] \in Open \/ ClosedFor(stream, stream[k].fp)
    BY <1>4 DEF LedgerSound
  <2>1. k <= i
    BY <1>1, <1>2, <1>5 DEF ReplaySound, Ready
  <2>2. stream[k].run \in Run /\ FpOf[stream[k].run] = stream[k].fp
    BY <1>1 DEF ProposalsSound, ClankTypeOK
  <2>3. CASE k = i
    BY <1>7, <2>3
  <2>4. CASE k < i
    <3>1. phase[stream[k].run] \in Open \/ ClosedFor(stream, stream[k].fp)
      BY <1>1, <2>4 DEF LedgerSound
    <3> QED
      BY <1>7, <2>2, <3>1
  <2> QED
    BY <1>2, <2>1, <2>3, <2>4
<1> QED
  BY <1>8, <1>9, <1>10, <1>11, <1>12 DEF IInv

-----------------------------------------------------------------------------
\* Time, rattle and thump.

LEMMA TimeKeeps ==
    ASSUME IInv, NEW r \in started, Expire(r) \/ Forget(r)
    PROVE  IInv'
<1>1. r \in Nat
  BY ClankAssumption DEF IInv, TypeOK, ClankTypeOK
<1>2. TypeOK'
  BY <1>1, Zenon DEF IInv, TypeOK, BusTypeOK, ClankTypeOK, Expire, Forget, busVars
<1>3. /\ stream' = stream /\ phase' = phase /\ started' = started
      /\ replay' = replay /\ reasoning' = reasoning
  BY DEF Expire, Forget, busVars
<1> QED
  BY <1>2, <1>3, KeptSameStream, SamePhase DEF IInv

\* A message that is not a set, stored from outside, keeps the invariant.
LEMMA OutsideKeeps ==
    ASSUME IInv, NEW m \in Message, m.subject # "proposals", Published(m),
           UNCHANGED clankVars
    PROVE  IInv'
<1>1. BusTypeOK /\ ClankTypeOK /\ Len(stream) \in Nat /\ stream \in Seq(Message)
  BY DEF IInv, TypeOK, BusTypeOK
<1>2. Stored(m) /\ delivery' = Extended(delivery) /\ faults' \in 0..MaxFaults
  BY <1>1 DEF Published, BusTypeOK
<1>3. TypeOK'
  BY <1>1, <1>2, PublishedType DEF TypeOK, ClankTypeOK, clankVars
<1>4. /\ Len(stream') = Len(stream) + 1
      /\ \A k \in 1..Len(stream) : stream'[k] = stream[k]
      /\ stream'[Len(stream) + 1] = m
  BY <1>1, <1>2, StoredExtends
<1>5. Grew /\ \A k \in 1..Len(stream') :
                 stream'[k].subject = "proposals" => k \in 1..Len(stream)
  BY <1>1, <1>4 DEF Grew
<1>6. /\ phase' = phase /\ started' = started /\ replay' = replay
      /\ reasoning' = reasoning
  BY DEF clankVars
<1> QED
  BY <1>3, <1>5, <1>6, Kept, SamePhase DEF IInv

LEMMA DetectKeeps ==
    ASSUME IInv, NEW fp \in Fingerprint, Detect(fp)
    PROVE  IInv'
<1> DEFINE m == Msg("detections", fp, NoRun, "none")
<1>1. m \in Message /\ m.subject # "proposals"
  BY MsgType DEF Msg, Subject
<1> HIDE DEF m
<1> QED
  BY <1>1, OutsideKeeps DEF Detect, m

LEMMA AnswerSetKeeps ==
    ASSUME IInv, NEW i \in DOMAIN stream, NEW s \in AnswerSubjects,
           NEW t \in Verdict \cup Result, AnswerSet(i, s, t)
    PROVE  IInv'
<1> DEFINE m == Msg(s, stream[i].fp, stream[i].run, t)
<1>1. i \in 1..Len(stream) /\ TypeOK
  BY DEF IInv, TypeOK, BusTypeOK
<1>2. stream[i].fp \in Fingerprint /\ stream[i].run \in Run \cup {NoRun}
  BY <1>1, InHand
<1>3. m \in Message /\ m.subject # "proposals"
  BY <1>2, MsgType DEF Msg, Subject, AnswerSubjects
<1> HIDE DEF m
<1> QED
  BY <1>3, OutsideKeeps DEF AnswerSet, m

-----------------------------------------------------------------------------
LEMMA InitIInv == Init => IInv
<1> SUFFICES ASSUME Init PROVE IInv
  OBVIOUS
<1>1. BusTypeOK
  BY BusAssumption DEF Init, BusInit, BusTypeOK
<1>2. ClankTypeOK
  BY NoThoughtType DEF Init, ClankInit, ClankTypeOK, Phase
<1>3. ProposalsSound /\ ReplaySound /\ ReasoningSound /\ LedgerSound
  BY DEF Init, BusInit, ClankInit, ProposalsSound, ReplaySound, ReasoningSound,
         LedgerSound, NoThought, Ready
<1> QED
  BY <1>1, <1>2, <1>3 DEF IInv, TypeOK

LEMMA NextIInv == IInv /\ [Next]_vars => IInv'
<1> SUFFICES ASSUME IInv, [Next]_vars PROVE IInv'
  OBVIOUS
<1>1. ASSUME NEW i \in DOMAIN stream,
             \/ SkipDetection(i) \/ StartRun(i)
             \/ AbsorbOutcome(i) \/ AbsorbDecline(i)
      PROVE  IInv'
  BY <1>1, SkipDetectionKeeps, StartRunKeeps, AbsorbOutcomeKeeps, AbsorbDeclineKeeps
<1>2. CASE FailRun \/ RecordNoAction \/ RecordProposed \/ PublishSet
  BY <1>2, FailRunKeeps, RecordNoActionKeeps, RecordProposedKeeps, PublishSetKeeps
<1>3. CASE RestartClank \/ ReplayNext
  BY <1>3, RestartClankKeeps, ReplayNextKeeps
<1>4. ASSUME NEW r \in started, Expire(r) \/ Forget(r)
      PROVE  IInv'
  BY <1>4, TimeKeeps
<1>5. ASSUME NEW fp \in Fingerprint, Detect(fp)
      PROVE  IInv'
  BY <1>5, DetectKeeps
<1>6. ASSUME NEW i \in DOMAIN stream, NEW t \in {"rendered", "applied", "success"},
             AnswerSet(i, "outcomes", t)
      PROVE  IInv'
  BY <1>6, AnswerSetKeeps DEF AnswerSubjects, Result
<1>7. ASSUME NEW i \in DOMAIN stream, AnswerSet(i, "declines", "rejected")
      PROVE  IInv'
  BY <1>7, AnswerSetKeeps DEF AnswerSubjects, Verdict
<1>8. CASE UNCHANGED vars
  <2>1. TypeOK'
    BY <1>8 DEF IInv, TypeOK, BusTypeOK, ClankTypeOK, vars, busVars, clankVars
  <2>2. /\ stream' = stream /\ phase' = phase /\ started' = started
        /\ replay' = replay /\ reasoning' = reasoning
    BY <1>8 DEF vars, busVars, clankVars
  <2> QED
    BY <2>1, <2>2, KeptSameStream, SamePhase DEF IInv
<1> QED
  BY <1>1, <1>2, <1>3, <1>4, <1>5, <1>6, <1>7, <1>8 DEF Next, ClankStep

-----------------------------------------------------------------------------
\* Every variable of clank and of the bus keeps its type (MemProposalLog,
\* CaseBase, Engine, rebuildLedger, Subscriber).
THEOREM TypeCorrect == Spec => []TypeOK
<1>1. IInv => TypeOK
  BY DEF IInv
<1> QED
  BY <1>1, InitIInv, NextIInv, PTL DEF Spec

\* Once the ledger is rebuilt, a set on thump.proposals is open, and so answers
\* its fingerprint's dedupe query, until a closing outcome or a decline of the
\* fingerprint is stored: however often the process restarts, and whatever is
\* pruned, redelivered or lost (Record, Observe, Decline, rebuildLedger).
THEOREM DeliveredStaysOpen == Spec => []UnansweredStaysOpen
<1>1. IInv => UnansweredStaysOpen
  <2> SUFFICES ASSUME IInv, Ready, NEW i \in DOMAIN stream,
                      stream[i].subject = "proposals"
               PROVE  phase[stream[i].run] \in Open \/ ClosedFor(stream, stream[i].fp)
    BY DEF UnansweredStaysOpen, ClosedFor, IInv, TypeOK, BusTypeOK
  <2>1. i \in 1..Len(stream)
    BY DEF IInv, TypeOK, BusTypeOK
  <2> QED
    BY <2>1 DEF IInv, LedgerSound
<1> QED
  BY <1>1, InitIInv, NextIInv, PTL DEF Spec

-----------------------------------------------------------------------------
(***************************************************************************)
(* What reaches the ledger, and what does not: rattle's debouncer.  A      *)
(* fingerprint it holds was published, is about to be, or was dropped by a *)
(* fault, whatever the windows, the watch list and the hold.               *)
(***************************************************************************)
CONSTANTS Watch, Object, Windows, Hold, FreshnessBound, MinSamples
VARIABLES load, pc, next, out, held, said, lost

Rattle == INSTANCE Rattle

Detector == {"burn_rate_acceleration", "sustained_burn"}

Detection == [slo : Rattle!Slos, fingerprint : Rattle!Fingerprints, detector : Detector,
              trajectory : {"accelerating", "recovering", "stable"}]

\* What the pass in hand has collected.
Collected(d) == {d[i].fingerprint : i \in DOMAIN d}

\* A pass that waits has nothing in hand, one that publishes has something, and
\* nothing is silenced without a reason.
PassSound ==
    /\ load \in [Rattle!Slos -> Windows]
    /\ pc \in {"tick", "scan", "publish"}
    /\ next \in 1..(Len(Watch) + 1)
    /\ out \in Seq(Detection)
    /\ pc = "tick" => out = <<>>
    /\ pc = "publish" => out # <<>>
    /\ held \in [Rattle!Fingerprints -> 0..Hold]
    /\ said \subseteq Rattle!Fingerprints /\ lost \subseteq Rattle!Fingerprints
    /\ faults \in 0..MaxFaults
    /\ \A f \in Rattle!Fingerprints : held[f] > 0 => f \in said \cup lost \cup Collected(out)

LEMMA SignalIsDetection ==
    ASSUME NEW s \in Rattle!Slos, NEW w, Rattle!Detect(w) # ""
    PROVE  Rattle!SignalFor(s, w) \in Detection
<1>1. Rattle!Detect(w) \in Detector
  BY Zenon DEF Rattle!Detect, Detector
<1>2. Rattle!trajectory(w.rates) \in {"accelerating", "recovering", "stable"}
  BY Zenon DEF Rattle!trajectory
<1>3. Rattle!fingerprint(s) \in Rattle!Fingerprints
  BY Zenon DEF Rattle!Fingerprints
<1> QED
  BY <1>1, <1>2, <1>3, Zenon DEF Rattle!SignalFor, Detection

\* The SLO a scan is at, and its fingerprint, are watched.
LEMMA ScannedIsWatched ==
    ASSUME Rattle!Wellformed, PassSound, Rattle!Scanned
    PROVE  /\ Watch[next] \in Rattle!Slos /\ Rattle!fingerprint(Watch[next]) \in Rattle!Fingerprints
           /\ next + 1 \in 1..(Len(Watch) + 1)
<1>1. next \in DOMAIN Watch /\ Len(Watch) \in Nat
  BY DEF Rattle!Wellformed, PassSound, Rattle!Scanned
<1>2. Watch[next] \in Rattle!Slos
  BY <1>1 DEF Rattle!Slos, Rattle!Range
<1> QED
  BY <1>1, <1>2 DEF Rattle!Fingerprints

LEMMA CollectedWatched ==
    ASSUME NEW d \in Seq(Detection)
    PROVE  Collected(d) \subseteq Rattle!Fingerprints
<1>1. \A i \in DOMAIN d : d[i] \in Detection
  OBVIOUS
<1>2. \A x \in Detection : x.fingerprint \in Rattle!Fingerprints
  BY DEF Detection
<1> QED
  BY <1>1, <1>2, Zenon DEF Collected

\* What PassSound says of a pass that collects nothing more.
LEMMA QuietKeeps ==
    ASSUME Rattle!Wellformed, PassSound, pc' \in {"tick", "scan", "publish"},
           next' \in 1..(Len(Watch) + 1),
           pc' = "tick" => out' = <<>>, pc' = "publish" => out' # <<>>,
           out' = out, load' = load, faults' = faults, UNCHANGED <<held, said, lost>>
    PROVE  PassSound'
BY DEF PassSound

LEMMA ScanDetectsKeeps ==
    ASSUME Rattle!Wellformed, PassSound, Rattle!ScanDetects
    PROVE  PassSound'
<1> DEFINE s == Watch[next]
           f == Rattle!fingerprint(s)
           d == Rattle!SignalFor(s, load[s])
<1>1. /\ s \in Rattle!Slos /\ f \in Rattle!Fingerprints /\ next + 1 \in 1..(Len(Watch) + 1)
      /\ pc = "scan"
  BY ScannedIsWatched DEF Rattle!ScanDetects, Rattle!Scanned
<1>2. d \in Detection /\ d.fingerprint = f
  <2>1. Rattle!Detect(load[s]) # ""
    BY Zenon DEF Rattle!ScanDetects, Rattle!Fires
  <2> QED
    BY <1>1, <2>1, SignalIsDetection, Zenon DEF Rattle!SignalFor
<1>3. /\ out' = Append(out, d) /\ next' = next + 1
      /\ held' = [held EXCEPT ![f] = Hold] /\ said' = said \ {f} /\ lost' = lost \ {f}
      /\ UNCHANGED <<load, pc, faults>>
  BY DEF Rattle!ScanDetects, Rattle!Stamp
<1> HIDE DEF d, f, s
<1>4. out \in Seq(Detection) /\ out' \in Seq(Detection)
  BY <1>2, <1>3 DEF PassSound
<1>5. Collected(out') = Collected(out) \cup {f}
  <2>1. /\ Len(out) \in Nat /\ DOMAIN out = 1..Len(out) /\ DOMAIN out' = 1..(Len(out) + 1)
        /\ \A i \in 1..Len(out) : out'[i] = out[i]
        /\ out'[Len(out) + 1] = d
    BY <1>2, <1>3, <1>4
  <2> QED
    BY <1>2, <2>1 DEF Collected
<1>6. ASSUME NEW g \in Rattle!Fingerprints, held'[g] > 0
      PROVE  g \in said' \cup lost' \cup Collected(out')
  <2>1. CASE g = f
    BY <1>5, <2>1
  <2>2. CASE g # f
    <3>1. held'[g] = held[g]
      BY <1>3, <2>2 DEF PassSound
    <3>2. g \in said \cup lost \cup Collected(out)
      BY <1>6, <3>1 DEF PassSound
    <3> QED
      BY <1>3, <1>5, <2>2, <3>2
  <2> QED
    BY <2>1, <2>2
<1>7. held' \in [Rattle!Fingerprints -> 0..Hold]
  BY <1>1, <1>3 DEF PassSound, Rattle!Wellformed
<1> QED
  BY <1>1, <1>3, <1>4, <1>6, <1>7 DEF PassSound
\* A fault that ends the pass: what it had collected, and f with it when f was
\* stamped, is dropped.
LEMMA DroppedKeeps ==
    ASSUME Rattle!Wellformed, PassSound, NEW F \in SUBSET Rattle!Fingerprints,
           faults' \in 0..MaxFaults, pc' = "tick", out' = <<>>, UNCHANGED <<load, next>>,
           held' \in [Rattle!Fingerprints -> 0..Hold],
           \A g \in Rattle!Fingerprints \ F : held'[g] = held[g],
           said \ F \subseteq said', said' \subseteq said,
           lost' = lost \cup F \cup Collected(out)
    PROVE  PassSound'
<1>1. Collected(out) \subseteq Rattle!Fingerprints
  BY CollectedWatched DEF PassSound
<1>2. ASSUME NEW g \in Rattle!Fingerprints, held'[g] > 0
      PROVE  g \in said' \cup lost' \cup Collected(out')
  <2>1. CASE g \in F
    BY <2>1
  <2>2. CASE g \notin F
    <3>1. g \in said \cup lost \cup Collected(out)
      BY <1>2, <2>2 DEF PassSound
    <3> QED
      BY <2>2, <3>1
  <2> QED
    BY <2>1, <2>2
<1>3. said' \subseteq Rattle!Fingerprints /\ lost' \subseteq Rattle!Fingerprints
  BY <1>1 DEF PassSound
<1>4. out' \in Seq(Detection) /\ load' \in [Rattle!Slos -> Windows] /\ next' \in 1..(Len(Watch) + 1)
  BY DEF PassSound
<1> QED
  BY <1>2, <1>3, <1>4 DEF PassSound

LEMMA FaultCounts ==
    ASSUME Rattle!Wellformed, PassSound, Rattle!Fault
    PROVE  faults' \in 0..MaxFaults
BY DEF Rattle!Wellformed, PassSound, Rattle!Fault

LEMMA ScanFailsKeeps ==
    ASSUME Rattle!Wellformed, PassSound, Rattle!ScanFails
    PROVE  PassSound'
<1>1. {d.fingerprint : d \in Rattle!Range(out)} = Collected(out)
  BY DEF Collected, Rattle!Range
<1>2. /\ pc' = "tick" /\ out' = <<>> /\ UNCHANGED <<load, next>>
      /\ held' = held /\ said' = said /\ lost' = lost \cup {} \cup Collected(out)
  BY <1>1 DEF Rattle!ScanFails
<1>3. faults' \in 0..MaxFaults
  BY FaultCounts DEF Rattle!ScanFails
<1>4. held' \in [Rattle!Fingerprints -> 0..Hold]
  BY <1>2 DEF PassSound
<1>5. {} \in SUBSET Rattle!Fingerprints /\ said \ {} \subseteq said'
  BY <1>2
<1> QED
  BY <1>2, <1>3, <1>4, <1>5, DroppedKeeps, Zenon

LEMMA ScanLosesKeeps ==
    ASSUME Rattle!Wellformed, PassSound, Rattle!ScanLoses
    PROVE  PassSound'
<1> DEFINE f == Rattle!fingerprint(Watch[next])
<1>1. {d.fingerprint : d \in Rattle!Range(out)} = Collected(out)
  BY DEF Collected, Rattle!Range
<1>2. /\ pc' = "tick" /\ out' = <<>> /\ UNCHANGED <<load, next>>
      /\ held' = [held EXCEPT ![f] = Hold] /\ said' = said \ {f}
      /\ lost' = lost \cup {f} \cup Collected(out)
  BY <1>1 DEF Rattle!ScanLoses
<1>3. faults' \in 0..MaxFaults /\ f \in Rattle!Fingerprints
  BY FaultCounts, ScannedIsWatched DEF Rattle!ScanLoses
<1> HIDE DEF f
<1>4. /\ held' \in [Rattle!Fingerprints -> 0..Hold]
      /\ \A g \in Rattle!Fingerprints \ {f} : held'[g] = held[g]
  BY <1>2, <1>3 DEF PassSound, Rattle!Wellformed
<1>5. {f} \in SUBSET Rattle!Fingerprints /\ said \ {f} \subseteq said' /\ said' \subseteq said
  BY <1>2, <1>3
<1> QED
  BY <1>2, <1>3, <1>4, <1>5, DroppedKeeps, Zenon

\* One detection leaves the pass; its publish succeeded or was lost.
LEMMA SentKeeps ==
    ASSUME Rattle!Wellformed, PassSound, Rattle!Sent, faults' \in 0..MaxFaults,
           \/ said' = said \cup {Head(out).fingerprint} /\ lost' = lost
           \/ said' = said /\ lost' = lost \cup {Head(out).fingerprint}
    PROVE  PassSound'
<1> DEFINE f == Head(out).fingerprint
<1>1. /\ out \in Seq(Detection) /\ out # <<>> /\ out' = Tail(out)
      /\ pc' = IF Len(out) = 1 THEN "tick" ELSE "publish"
      /\ UNCHANGED <<load, next, held>>
  BY DEF PassSound, Rattle!Sent
<1>2. /\ Len(out) \in Nat \ {0} /\ DOMAIN out = 1..Len(out) /\ Head(out) = out[1]
      /\ Tail(out) \in Seq(Detection) /\ Len(Tail(out)) = Len(out) - 1
      /\ DOMAIN Tail(out) = 1..(Len(out) - 1)
      /\ \A i \in 1..(Len(out) - 1) : Tail(out)[i] = out[i + 1]
  BY <1>1
<1>3. f \in Collected(out)
  BY <1>2 DEF Collected
<1>4. f \in Rattle!Fingerprints
  BY <1>1, <1>3, CollectedWatched
<1>5. Collected(out) \subseteq {f} \cup Collected(out')
  <2>1. ASSUME NEW i \in DOMAIN out
        PROVE  out[i].fingerprint \in {f} \cup Collected(out')
    <3>1. CASE i = 1
      BY <1>2, <3>1
    <3>2. CASE i # 1
      <4>1. i - 1 \in DOMAIN out' /\ out'[i - 1] = out[i]
        BY <1>1, <1>2, <3>2
      <4> QED
        BY <4>1, Zenon DEF Collected
    <3> QED
      BY <3>1, <3>2
  <2> QED
    BY <2>1, Zenon DEF Collected
<1>6. /\ pc' = "tick" => out' = <<>>
      /\ pc' = "publish" => out' # <<>>
      /\ pc' \in {"tick", "scan", "publish"}
  BY <1>1, <1>2
<1> HIDE DEF f
<1>7. ASSUME NEW g \in Rattle!Fingerprints, held'[g] > 0
      PROVE  g \in said' \cup lost' \cup Collected(out')
  <2>1. g \in said \cup lost \cup Collected(out)
    BY <1>1, <1>7 DEF PassSound
  <2>2. said \cup lost \cup {f} = said' \cup lost'
    BY DEF f
  <2> QED
    BY <1>5, <2>1, <2>2
<1>8. said' \subseteq Rattle!Fingerprints /\ lost' \subseteq Rattle!Fingerprints
  BY <1>4 DEF f, PassSound
<1>9. /\ out' \in Seq(Detection) /\ load' \in [Rattle!Slos -> Windows]
      /\ next' \in 1..(Len(Watch) + 1) /\ held' \in [Rattle!Fingerprints -> 0..Hold]
  BY <1>1, <1>2 DEF PassSound
<1> QED
  BY <1>6, <1>7, <1>8, <1>9 DEF PassSound
LEMMA PassStepKeeps ==
    ASSUME Rattle!Wellformed, PassSound, [Rattle!Next]_Rattle!vars
    PROVE  PassSound'
<1> USE DEF Rattle!Keep
<1>1. CASE Rattle!Tick
  <2>1. /\ out = <<>> /\ out' = <<>> /\ pc' = "scan" /\ next' = 1 /\ load' = load
        /\ faults' = faults /\ UNCHANGED <<held, said, lost>> /\ Len(Watch) \in Nat
    BY <1>1 DEF Rattle!Tick, PassSound, Rattle!Wellformed
  <2> QED
    BY <2>1, QuietKeeps
<1>2. CASE Rattle!ScanQuiet
  <2>1. next' \in 1..(Len(Watch) + 1) /\ pc = "scan"
    BY <1>2, ScannedIsWatched DEF Rattle!ScanQuiet, Rattle!Scanned
  <2> QED
    BY <1>2, <2>1, QuietKeeps DEF Rattle!ScanQuiet
<1>3. CASE Rattle!ScanEnds
  <2>1. next' \in 1..(Len(Watch) + 1)
    BY <1>3 DEF Rattle!ScanEnds, PassSound
  <2> QED
    BY <1>3, <2>1, QuietKeeps DEF Rattle!ScanEnds
<1>4. CASE Rattle!PublishOk
  <2>1. faults' \in 0..MaxFaults
    BY <1>4 DEF Rattle!PublishOk, PassSound
  <2> QED
    BY <1>4, <2>1, SentKeeps DEF Rattle!PublishOk
<1>5. CASE Rattle!PublishFails
  BY <1>5, SentKeeps, FaultCounts DEF Rattle!PublishFails
<1>6. CASE Rattle!Restart
  <2>1. faults' \in 0..MaxFaults
    BY <1>6, FaultCounts DEF Rattle!Restart
  <2>2. \A f \in Rattle!Fingerprints : held'[f] = 0
    BY <1>6 DEF Rattle!Restart
  <2>3. held' \in [Rattle!Fingerprints -> 0..Hold]
    BY <1>6 DEF Rattle!Restart, Rattle!Wellformed
  <2>4. /\ out' \in Seq(Detection) /\ load' \in [Rattle!Slos -> Windows]
        /\ next' \in 1..(Len(Watch) + 1) /\ pc' = "tick" /\ out' = <<>>
        /\ said' = {} /\ lost' = {}
    BY <1>6 DEF Rattle!Restart, Rattle!Wellformed, PassSound
  <2> QED
    BY <2>1, <2>2, <2>3, <2>4 DEF PassSound
<1>7. CASE Rattle!Elapse
  <2>1. /\ held' \in [Rattle!Fingerprints -> 0..Hold]
        /\ \A f \in Rattle!Fingerprints : held'[f] > 0 => held[f] > 0
    BY <1>7 DEF Rattle!Elapse, PassSound, Rattle!Wellformed
  <2>2. UNCHANGED <<load, pc, next, out, said, lost, faults>>
    BY <1>7 DEF Rattle!Elapse
  <2> QED
    BY <2>1, <2>2 DEF PassSound
<1>8. ASSUME NEW s \in Rattle!Slos, Rattle!Shift(s)
      PROVE  PassSound'
  <2>1. load' \in [Rattle!Slos -> Windows]
    BY <1>8 DEF Rattle!Shift, PassSound
  <2>2. UNCHANGED <<pc, next, out, held, said, lost, faults>>
    BY <1>8 DEF Rattle!Shift
  <2> QED
    BY <2>1, <2>2 DEF PassSound
<1>9. CASE UNCHANGED Rattle!vars
  BY <1>9 DEF Rattle!vars, PassSound
<1> QED
  BY <1>1, <1>2, <1>3, <1>4, <1>5, <1>6, <1>7, <1>8, <1>9, ScanDetectsKeeps, ScanFailsKeeps,
     ScanLosesKeeps DEF Rattle!Next, Rattle!Step

LEMMA PassBegins ==
    ASSUME Rattle!Wellformed, Rattle!Init
    PROVE  PassSound
BY DEF Rattle!Wellformed, Rattle!Init, PassSound

\* A pass of rattle stays within its watch list, and what it collects was
\* detected by one of its detectors (Reconciler.Reconcile).
THEOREM PassesAreTyped == ASSUME Rattle!Wellformed
                          PROVE  Rattle!Spec => []Rattle!TypeOK
<1>1. ASSUME PassSound
      PROVE  Rattle!TypeOK
  <2>1. ASSUME NEW d \in Rattle!Range(out)
        PROVE  d.slo \in Rattle!Slos /\ d.detector # ""
    <3>1. d \in Detection
      BY <1>1 DEF PassSound, Rattle!Range
    <3>2. d.slo \in Rattle!Slos /\ d.detector \in Detector
      BY <3>1 DEF Detection
    <3> QED
      BY <3>2, Zenon DEF Detector
  <2> QED
    BY <1>1, <2>1, Zenon DEF PassSound, Rattle!TypeOK
<1> QED
  BY <1>1, PassBegins, PassStepKeeps, PTL DEF Rattle!Spec

\* A fingerprint rattle holds down was published in its present hold window, is
\* in the pass in hand, or was dropped by a fault: a debouncer that is asked and
\* refuses never stamps, and no pass forgets what it has stamped (Debouncer.Allow,
\* Reconciler.Reconcile, runLoop).
THEOREM SilenceHasAReason == ASSUME Rattle!Wellformed
                             PROVE  Rattle!Spec => []Rattle!SilenceExplained
<1>1. ASSUME PassSound
      PROVE  Rattle!SilenceExplained
  <2>1. {d.fingerprint : d \in Rattle!Range(out)} = Collected(out)
    BY DEF Collected, Rattle!Range
  <2> QED
    BY <1>1, <2>1 DEF PassSound, Rattle!SilenceExplained
<1> QED
  BY <1>1, PassBegins, PassStepKeeps, PTL DEF Rattle!Spec

=============================================================================
