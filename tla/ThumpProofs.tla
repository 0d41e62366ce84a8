---------------------------- MODULE ThumpProofs ----------------------------
(***************************************************************************)
(* thump acts only on grants, and disarming it stops it, for any contracts *)
(* and any number of sets, decisions, faults and restarts.                 *)
(***************************************************************************)
EXTENDS Thump, BusProofs, SequenceTheorems, FiniteSetTheorems

\* A leaf that names no backend is tried with SMT, then with Zenon.
USE SMTT(40), ZenonT(30)

\* What the message at position i of stream s satisfies.
SoundMsg(s, i) ==
    /\ s[i].subject = "decisions" => s[i].run \in Run /\ s[i].tag \in Verdict
    /\ s[i].subject = "outcomes" =>
          Decided(s, s[i].fp, s[i].run, {"approved"}, i)
    /\ s[i].subject = "declines" =>
          Decided(s, s[i].fp, s[i].run, {"escalate", "rejected"}, i)

StreamSound == \A i \in 1..Len(stream) : SoundMsg(stream, i)

\* The job is about the decision in hand: an order about an approval that
\* renders, a decline about a verdict that is one.
ActingSound ==
    acting.step # "idle" =>
        /\ acting.msg \in 1..Len(stream)
        /\ stream[acting.msg].subject = "decisions"
        /\ acting.step \in {"run", "order", "outcome"} =>
              stream[acting.msg].tag = "approved" /\ Renders(stream[acting.msg].run)
        /\ acting.step = "decline" =>
              stream[acting.msg].tag \in {"escalate", "rejected"}

ExecsSound ==
    \A e \in 1..Len(execs) :
        /\ Decided(stream, execs[e].fp, execs[e].run, {"approved"}, Len(stream) + 1)
        /\ Renders(execs[e].run)

\* The flag is what the last reload read, and no late action can have begun
\* while the switch is armed or an order that passed its gate is yet to run.
SwitchSound ==
    /\ armed <=> lastRead = "armed"
    /\ lastRead = "armed" \/ acting.step = "run" => late = 0
    /\ late <= 1

IInv ==
    /\ TypeOK
    /\ StreamSound
    /\ ActingSound
    /\ ExecsSound
    /\ SwitchSound
-----------------------------------------------------------------------------
\* A stream that only grows keeps what was decided before a position.
LEMMA DecidedGrows ==
    ASSUME NEW s \in Seq(Message), NEW t \in Seq(Message),
           \A k \in 1..Len(s) : t[k] = s[k],
           NEW i \in Nat, NEW j \in Nat, i <= Len(s) + 1, i <= j,
           NEW fp, NEW r, NEW vs, Decided(s, fp, r, vs, i)
    PROVE  Decided(t, fp, r, vs, j)
<1>1. PICK k \in 1..(i - 1) :
          s[k].subject = "decisions" /\ s[k].fp = fp /\ s[k].run = r /\ s[k].tag \in vs
  BY DEF Decided
<1>2. Len(s) \in Nat
  OBVIOUS
<1>3. k \in 1..(j - 1) /\ t[k] = s[k]
  BY <1>2
<1> QED
  BY <1>1, <1>3, Zenon DEF Decided

\* A step that stores nothing, or one sound message, keeps the stream sound and
\* keeps what was decided.
LEMMA StreamStep ==
    ASSUME TypeOK, StreamSound,
           \/ stream' = stream
           \/ \E m \in Message :
                 Stored(m) /\ SoundMsg(Append(stream, m), Len(stream) + 1)
    PROVE  /\ StreamSound'
           /\ \A fp, r, vs : Decided(stream, fp, r, vs, Len(stream) + 1)
                             => Decided(stream', fp, r, vs, Len(stream') + 1)
           /\ Len(stream) \in Nat /\ Len(stream') \in Nat
           /\ Len(stream) <= Len(stream')
           /\ \A k \in 1..Len(stream) : stream'[k] = stream[k]
<1>1. stream \in Seq(Message) /\ Len(stream) \in Nat
  BY DEF TypeOK, BusTypeOK
<1>2. CASE stream' = stream
  BY <1>1, <1>2 DEF StreamSound
<1>3. CASE \E m \in Message : Stored(m) /\ SoundMsg(Append(stream, m), Len(stream) + 1)
  <2>1. PICK m \in Message : Stored(m) /\ SoundMsg(Append(stream, m), Len(stream) + 1)
    BY <1>3
  <2> DEFINE t == stream'
             last == Len(stream) + 1
  <2>2. /\ t \in Seq(Message)
        /\ Len(t) = last
        /\ \A k \in 1..Len(stream) : t[k] = stream[k]
        /\ t = Append(stream, m)
    BY <1>1, <2>1, StoredExtends DEF Stored
  <2>3. last \in Nat /\ Len(t) + 1 \in Nat /\ last <= Len(stream) + 1
        /\ last <= Len(t) + 1 /\ Len(stream) <= Len(t) /\ Len(t) \in Nat
    BY <1>1, <2>2
  <2>4. SoundMsg(t, last)
    BY <2>1, <2>2
  <2> HIDE DEF t
  <2>5. ASSUME NEW fp, NEW r, NEW vs, Decided(stream, fp, r, vs, last)
        PROVE  Decided(t, fp, r, vs, Len(t) + 1)
    <3> HIDE DEF last
    <3> QED
      BY <1>1, <2>2, <2>3, <2>5, DecidedGrows, ZenonT(40)
  <2>6. ASSUME NEW i \in 1..Len(stream)
        PROVE  SoundMsg(t, i)
    <3>1. SoundMsg(stream, i) /\ t[i] = stream[i]
      BY <2>2 DEF StreamSound
    <3>2. i \in Nat /\ i <= Len(stream) + 1 /\ i <= i
      BY <1>1
    <3>3. ASSUME NEW fp, NEW r, NEW vs, Decided(stream, fp, r, vs, i)
          PROVE  Decided(t, fp, r, vs, i)
      BY <1>1, <2>2, <3>2, <3>3, DecidedGrows, Zenon
    <3> QED
      BY <3>1, <3>3 DEF SoundMsg
  <2>7. \A i \in 1..Len(t) : SoundMsg(t, i)
    BY <1>1, <2>2, <2>4, <2>6
  <2>8. StreamSound'
    BY <2>7 DEF StreamSound, t
  <2> QED
    BY <1>1, <2>2, <2>3, <2>5, <2>8 DEF t
<1> QED
  BY <1>2, <1>3

\* What a step leaves alone stays justified.
LEMMA Kept ==
    ASSUME IInv, TypeOK',
           \/ stream' = stream
           \/ \E m \in Message :
                 Stored(m) /\ SoundMsg(Append(stream, m), Len(stream) + 1)
    PROVE  /\ StreamSound'
           /\ UNCHANGED acting \/ acting' = NoOrder => ActingSound'
           /\ (/\ Len(execs') = Len(execs)
               /\ \A e \in 1..Len(execs) :
                     execs'[e].fp = execs[e].fp /\ execs'[e].run = execs[e].run)
                => ExecsSound'
<1>1. /\ StreamSound'
      /\ \A fp, r, vs : Decided(stream, fp, r, vs, Len(stream) + 1)
                        => Decided(stream', fp, r, vs, Len(stream') + 1)
      /\ Len(stream) \in Nat /\ Len(stream') \in Nat
      /\ Len(stream) <= Len(stream')
      /\ \A k \in 1..Len(stream) : stream'[k] = stream[k]
  BY StreamStep DEF IInv
<1>2. ASSUME UNCHANGED acting \/ acting' = NoOrder
      PROVE  ActingSound'
  BY <1>1, <1>2 DEF IInv, ActingSound, NoOrder
<1>3. ASSUME /\ Len(execs') = Len(execs)
             /\ \A e \in 1..Len(execs) :
                   execs'[e].fp = execs[e].fp /\ execs'[e].run = execs[e].run
      PROVE  ExecsSound'
  BY <1>1, <1>3 DEF IInv, ExecsSound
<1> QED
  BY <1>1, <1>2, <1>3

LEMMA InHand ==
    ASSUME TypeOK, StreamSound, NEW i \in 1..Len(stream),
           stream[i].subject = "decisions"
    PROVE  /\ stream[i].fp \in Fingerprint /\ stream[i].run \in Run
           /\ stream[i].tag \in Verdict
           /\ Decided(stream, stream[i].fp, stream[i].run, {stream[i].tag},
                      Len(stream) + 1)
<1>1. stream[i] \in Message /\ Len(stream) \in Nat
  BY DEF TypeOK, BusTypeOK
<1>2. stream[i].fp \in Fingerprint
  BY <1>1 DEF Message
<1>3. stream[i].run \in Run /\ stream[i].tag \in Verdict
  BY DEF StreamSound, SoundMsg
<1>4. i \in 1..((Len(stream) + 1) - 1)
  BY <1>1
<1>5. stream[i].tag \in {stream[i].tag}
  OBVIOUS
<1>6. Decided(stream, stream[i].fp, stream[i].run, {stream[i].tag}, Len(stream) + 1)
  BY <1>4, <1>5, Zenon DEF Decided
<1> QED
  BY <1>2, <1>3, <1>6

LEMMA NoOrderType == NoOrder \in Order
BY DEF NoOrder, Order

\* A step of the decisions consumer that takes decision i, or hands it back.
LEMMA TakenKeeps ==
    ASSUME IInv, NEW i, Deliverable("decisions", i),
           BusTypeOK', acting' \in Order, ActingSound',
           acting'.step = "run" => armed,
           UNCHANGED <<stream, armed, switchFile, lastRead, late, execs>>
    PROVE  IInv'
<1>1. TypeOK'
  BY DEF IInv, TypeOK, ThumpTypeOK
<1>2. StreamSound' /\ ExecsSound'
  BY <1>1, Kept
<1>3. SwitchSound'
  BY DEF IInv, SwitchSound
<1> QED
  BY <1>1, <1>2, <1>3 DEF IInv

LEMMA RefuseOrderKeeps ==
    ASSUME IInv, NEW i, RefuseOrder(i)
    PROVE  IInv'
<1>1. BusTypeOK /\ ThumpTypeOK
  BY DEF IInv, TypeOK
<1>2. i \in 1..Len(stream) /\ Len(stream) \in Nat
      /\ Delivered(i) \in [1..Len(stream) -> Standing]
  BY <1>1, DeliveredType DEF RefuseOrder, Subject, BusTypeOK
<1>3. delivery' \in [1..Len(stream) -> Standing]
  <2> DEFINE d == Delivered(i)
  <2>1. d \in [1..Len(stream) -> Standing] /\ Naked(i, d)
    BY <1>2 DEF RefuseOrder
  <2> HIDE DEF d
  <2> QED
    BY <1>2, <2>1, NakedType
<1>4. BusTypeOK'
  BY <1>1, <1>3 DEF BusTypeOK, RefuseOrder
<1>5. /\ Deliverable("decisions", i) /\ acting' = acting /\ acting.step = "idle"
      /\ UNCHANGED <<stream, armed, switchFile, lastRead, late, execs>>
  BY DEF RefuseOrder, thumpVars
<1>6. ActingSound' /\ acting' \in Order
  BY <1>1, <1>5 DEF ActingSound, ThumpTypeOK
<1> QED
  BY <1>4, <1>5, <1>6, TakenKeeps

LEMMA TakeOrderKeeps ==
    ASSUME IInv, NEW i, TakeOrder(i)
    PROVE  IInv'
<1>1. BusTypeOK /\ ThumpTypeOK
  BY DEF IInv, TypeOK
<1>2. /\ i \in 1..Len(stream) /\ i \in Nat
      /\ Delivered(i) \in [1..Len(stream) -> Standing]
      /\ Deliverable("decisions", i) /\ stream[i].subject = "decisions"
  BY <1>1, DeliveredType DEF TakeOrder, Subject, BusTypeOK, Deliverable
<1>3. BusTypeOK'
  BY <1>1, <1>2 DEF BusTypeOK, TakeOrder
<1>4. /\ acting' \in Order /\ acting'.msg = i
      /\ acting'.step \in {"run", "order"}
      /\ acting'.step = "run" => armed
  BY <1>2 DEF TakeOrder, Gated, Order, Result
<1>5. UNCHANGED <<stream, armed, switchFile, lastRead, late, execs>>
  BY DEF TakeOrder
<1>6. ActingSound'
  BY <1>2, <1>4, <1>5 DEF ActingSound, TakeOrder
<1> QED
  BY <1>2, <1>3, <1>4, <1>5, <1>6, TakenKeeps

LEMMA TakeNonApprovalKeeps ==
    ASSUME IInv, NEW i, TakeNonApproval(i)
    PROVE  IInv'
<1>1. BusTypeOK /\ ThumpTypeOK /\ TypeOK /\ StreamSound
  BY DEF IInv, TypeOK
<1>2. /\ i \in 1..Len(stream) /\ i \in Nat
      /\ Delivered(i) \in [1..Len(stream) -> Standing]
      /\ Deliverable("decisions", i) /\ stream[i].subject = "decisions"
  BY <1>1, DeliveredType DEF TakeNonApproval, Subject, BusTypeOK, Deliverable
<1>3. BusTypeOK'
  BY <1>1, <1>2 DEF BusTypeOK, TakeNonApproval
<1>4. stream[i].tag \in Verdict \ {"approved"}
  BY <1>1, <1>2, InHand, Zenon DEF TakeNonApproval
<1>5. /\ acting' \in Order /\ acting'.msg = i
      /\ acting'.step \in {"held", "decline"}
      /\ acting'.step = "decline" => stream[i].tag # "hold"
  BY <1>2, <1>4 DEF TakeNonApproval, Order
<1>6. UNCHANGED <<stream, armed, switchFile, lastRead, late, execs>>
  BY DEF TakeNonApproval
<1>7. ActingSound'
  BY <1>2, <1>4, <1>5, <1>6 DEF ActingSound, Verdict
<1> QED
  BY <1>2, <1>3, <1>5, <1>6, <1>7, TakenKeeps

LEMMA RunForwardKeeps ==
    ASSUME IInv, RunForward
    PROVE  IInv'
<1> DEFINE i == acting.msg
           m == stream[i]
<1>1. BusTypeOK /\ ThumpTypeOK /\ TypeOK /\ StreamSound /\ ActingSound
      /\ ExecsSound /\ SwitchSound
  BY DEF IInv, TypeOK
<1>2. /\ i \in 1..Len(stream) /\ m.subject = "decisions" /\ m.tag = "approved"
      /\ Renders(m.run)
  BY <1>1 DEF ActingSound, RunForward
<1>3. /\ m.fp \in Fingerprint /\ m.run \in Run
      /\ Decided(stream, m.fp, m.run, {"approved"}, Len(stream) + 1)
  BY <1>1, <1>2, InHand, Zenon
<1>4. PICK result \in {Reported(m.run), "failure"} :
          /\ IF result = "failure" THEN Fault ELSE UNCHANGED faults
          /\ acting' = [acting EXCEPT !.result = result, !.step = "order"]
          /\ execs' = Append(execs, [fp |-> m.fp, run |-> m.run,
                                     phase |-> Watcher(result), window |-> "unread"])
  BY Zenon DEF RunForward
<1>5. result \in Result /\ Watcher(result) \in Live \cup {"failed", "unwatched"}
  BY <1>4 DEF Reported, Watcher, Live, Result
<1> DEFINE x == [fp |-> m.fp, run |-> m.run, phase |-> Watcher(result),
                 window |-> "unread"]
<1>6. x \in Exec /\ x.fp = m.fp /\ x.run = m.run
  BY <1>3, <1>5 DEF Exec
<1>7. acting' \in Order /\ acting'.step = "order" /\ acting'.msg = i
  BY <1>1, <1>4, <1>5, Zenon DEF ThumpTypeOK, Order
<1>8. BusTypeOK'
  <2>1. faults' \in 0..MaxFaults
    BY <1>1, <1>4, FaultType DEF BusTypeOK
  <2> QED
    BY <1>1, <2>1 DEF BusTypeOK, RunForward
<1> HIDE DEF x
<1>9. /\ execs' = Append(execs, x) /\ execs' \in Seq(Exec)
      /\ Len(execs') = Len(execs) + 1 /\ Len(execs) \in Nat
      /\ \A e \in 1..Len(execs) : execs'[e] = execs[e]
      /\ execs'[Len(execs) + 1] = x
  BY <1>1, <1>4, <1>6 DEF x, ThumpTypeOK
<1>10. late' \in Nat /\ SwitchSound'
  BY <1>1, <1>7 DEF SwitchSound, RunForward, ThumpTypeOK
<1>11. TypeOK'
  BY <1>1, <1>7, <1>8, <1>9, <1>10 DEF TypeOK, ThumpTypeOK, RunForward
<1>12. stream' = stream
  BY DEF RunForward
<1>13. StreamSound'
  BY <1>11, <1>12, Kept
<1>14. ActingSound'
  BY <1>2, <1>7, <1>12 DEF ActingSound
<1>15. ExecsSound'
  BY <1>1, <1>2, <1>3, <1>6, <1>9, <1>12 DEF ExecsSound
<1> QED
  BY <1>10, <1>11, <1>13, <1>14, <1>15 DEF IInv

\* A step that leaves the stream, the switch and the watchers alone.
LEMMA HandlerKeeps ==
    ASSUME IInv, BusTypeOK', acting' \in Order, ActingSound', acting'.step # "run",
           UNCHANGED <<stream, armed, switchFile, lastRead, late, execs>>
    PROVE  IInv'
<1>1. TypeOK'
  BY DEF IInv, TypeOK, ThumpTypeOK
<1>2. StreamSound' /\ ExecsSound'
  BY <1>1, Kept
<1>3. SwitchSound'
  BY DEF IInv, SwitchSound
<1> QED
  BY <1>1, <1>2, <1>3 DEF IInv

LEMMA PublishOrderKeeps ==
    ASSUME IInv, PublishOrder
    PROVE  IInv'
<1> DEFINE i == acting.msg
<1>1. BusTypeOK /\ ThumpTypeOK /\ ActingSound
  BY DEF IInv, TypeOK
<1>2. i \in 1..Len(stream) /\ Len(stream) \in Nat
  BY <1>1 DEF ActingSound, PublishOrder, BusTypeOK
<1>3. UNCHANGED <<stream, armed, switchFile, lastRead, late, execs>>
  BY DEF PublishOrder
<1>4. CASE /\ acting' = [acting EXCEPT !.step = "outcome"]
           /\ UNCHANGED <<delivery, faults>>
  <2>1. /\ acting' \in Order /\ acting'.step = "outcome" /\ acting'.msg = i
    BY <1>1, <1>4 DEF ThumpTypeOK, Order
  <2>2. ActingSound'
    BY <1>1, <1>3, <2>1 DEF ActingSound, PublishOrder
  <2>3. BusTypeOK'
    BY <1>1, <1>3, <1>4 DEF BusTypeOK
  <2> QED
    BY <1>3, <2>1, <2>2, <2>3, HandlerKeeps
<1>5. CASE Fault /\ Naked(i, delivery) /\ acting' = NoOrder
  <2>1. delivery' \in [1..Len(stream) -> Standing]
    BY <1>1, <1>2, <1>5, NakedType DEF BusTypeOK
  <2>2. BusTypeOK'
    BY <1>1, <1>3, <1>5, <2>1, FaultType DEF BusTypeOK
  <2>3. acting' \in Order /\ ActingSound' /\ acting'.step # "run"
    BY <1>5, NoOrderType DEF NoOrder, ActingSound
  <2> QED
    BY <1>3, <2>2, <2>3, HandlerKeeps
<1> QED
  BY <1>4, <1>5 DEF PublishOrder

LEMMA PublishHeldKeeps ==
    ASSUME IInv, PublishHeld
    PROVE  IInv'
<1> DEFINE i == acting.msg
<1>1. BusTypeOK /\ ThumpTypeOK /\ ActingSound
  BY DEF IInv, TypeOK
<1>2. i \in 1..Len(stream) /\ Len(stream) \in Nat
  BY <1>1 DEF ActingSound, PublishHeld, BusTypeOK
<1>3. delivery' \in [1..Len(stream) -> Standing] /\ faults' \in 0..MaxFaults
  <2> HIDE DEF i
  <2>1. Acked(i, delivery) \/ (Fault /\ Naked(i, delivery))
    BY DEF PublishHeld, i
  <2> QED
    BY <1>1, <1>2, <2>1, AckedType, NakedType, FaultType DEF BusTypeOK
<1>4. UNCHANGED <<stream, armed, switchFile, lastRead, late, execs>> /\ acting' = NoOrder
  BY DEF PublishHeld
<1>5. BusTypeOK'
  BY <1>1, <1>3, <1>4 DEF BusTypeOK
<1>6. acting' \in Order /\ ActingSound' /\ acting'.step # "run"
  BY <1>4, NoOrderType DEF NoOrder, ActingSound
<1> QED
  BY <1>4, <1>5, <1>6, HandlerKeeps

\* A message that answers what was decided is sound at the end of the stream.
LEMMA AnswerSound ==
    ASSUME TypeOK, NEW m \in Message, m.subject \in {"outcomes", "declines"},
           m.subject = "outcomes" =>
               Decided(stream, m.fp, m.run, {"approved"}, Len(stream) + 1),
           m.subject = "declines" =>
               Decided(stream, m.fp, m.run, {"escalate", "rejected"}, Len(stream) + 1)
    PROVE  SoundMsg(Append(stream, m), Len(stream) + 1)
<1> DEFINE t == Append(stream, m)
           last == Len(stream) + 1
<1>1. /\ stream \in Seq(Message) /\ t \in Seq(Message) /\ t[last] = m
      /\ \A k \in 1..Len(stream) : t[k] = stream[k]
      /\ last \in Nat /\ last <= Len(stream) + 1 /\ last <= last
  BY DEF TypeOK, BusTypeOK
<1> HIDE DEF t
<1>2. ASSUME NEW fp, NEW r, NEW vs, Decided(stream, fp, r, vs, last)
      PROVE  Decided(t, fp, r, vs, last)
  <2> HIDE DEF last
  <2> QED
    BY <1>1, <1>2, DecidedGrows
<1>3. SoundMsg(t, last)
  BY <1>1, <1>2 DEF SoundMsg
<1> QED
  BY <1>3 DEF t

LEMMA AnswerKeeps ==
    ASSUME IInv, NEW subject \in {"outcomes", "declines"},
           subject = "outcomes" => acting.step = "outcome",
           subject = "declines" => acting.step = "decline",
           Answer(subject), acting' = NoOrder,
           UNCHANGED <<armed, switchFile, lastRead, late, execs>>
    PROVE  IInv'
<1> DEFINE i == acting.msg
           d == stream[i]
           m == Msg(subject, d.fp, d.run, acting.result)
<1>1. BusTypeOK /\ ThumpTypeOK /\ TypeOK /\ StreamSound /\ ActingSound /\ SwitchSound
  BY DEF IInv, TypeOK
<1>2. /\ i \in 1..Len(stream) /\ d.subject = "decisions"
      /\ subject = "outcomes" => d.tag = "approved"
      /\ subject = "declines" => d.tag \in {"escalate", "rejected"}
  BY <1>1 DEF ActingSound
<1>3. /\ d.fp \in Fingerprint /\ d.run \in Run
      /\ Decided(stream, d.fp, d.run, {d.tag}, Len(stream) + 1)
  BY <1>1, <1>2, InHand, Zenon
<1>4. m \in Message /\ m.subject = subject /\ m.fp = d.fp /\ m.run = d.run
  <2>1. acting.result \in Verdict \cup Result \cup {"none"}
    BY <1>1 DEF ThumpTypeOK, Order
  <2>2. m.subject = subject /\ m.fp = d.fp /\ m.run = d.run
    BY DEF Msg
  <2> QED
    BY <1>3, <2>1, <2>2, MsgType DEF Subject
<1>5. BusTypeOK' /\ (stream' = stream \/ Stored(m))
  <2>1. PublishedThenReturned(i, m)
    BY DEF Answer
  <2> HIDE DEF m, i
  <2> QED
    BY <1>1, <1>2, <1>4, <2>1, PublishedThenReturnedType
<1>6. subject = "declines" =>
          Decided(stream, d.fp, d.run, {"escalate", "rejected"}, Len(stream) + 1)
  BY <1>2, <1>3 DEF Decided
<1> HIDE DEF m, d
<1>7. SoundMsg(Append(stream, m), Len(stream) + 1)
  <2>1. subject = "outcomes" =>
            Decided(stream, d.fp, d.run, {"approved"}, Len(stream) + 1)
    BY <1>2, <1>3, Zenon
  <2> QED
    BY <1>1, <1>4, <1>6, <2>1, AnswerSound
<1>8. TypeOK'
  BY <1>1, <1>5, NoOrderType DEF TypeOK, ThumpTypeOK
<1>9. StreamSound' /\ ActingSound' /\ ExecsSound'
  <2>1. stream' = stream \/ \E mm \in Message :
            Stored(mm) /\ SoundMsg(Append(stream, mm), Len(stream) + 1)
    BY <1>4, <1>5, <1>7
  <2> QED
    BY <1>8, <2>1, Kept
<1>10. SwitchSound'
  BY <1>1 DEF SwitchSound, NoOrder
<1> QED
  BY <1>8, <1>9, <1>10 DEF IInv

Progress == {"watching", "undoing", "settled", "withdrawn", "undone", "stuck",
             "panicked"}

Reading == {"unread", "met", "missed"}

\* A watcher's step changes its own progress only.
LEMMA MovedType ==
    ASSUME ThumpTypeOK, NEW e \in 1..Len(execs),
           NEW ph \in Progress, NEW w \in Reading, NEW ex, ex = Moved(e, ph, w)
    PROVE  /\ ex \in Seq(Exec) /\ Len(ex) = Len(execs)
           /\ \A k \in 1..Len(execs) :
                 ex[k].fp = execs[k].fp /\ ex[k].run = execs[k].run
<1>1. execs \in Seq(Exec) /\ execs[e] \in Exec
  BY DEF ThumpTypeOK
<1> DEFINE a == [execs[e] EXCEPT !.phase = ph, !.window = w]
<1>2. a \in Exec /\ a.fp = execs[e].fp /\ a.run = execs[e].run
  BY <1>1, Zenon DEF Exec, Live, Progress, Reading
<1>3. ex = [execs EXCEPT ![e] = a]
  BY DEF Moved
<1> HIDE DEF a
<1>4. /\ [execs EXCEPT ![e] = a] \in Seq(Exec)
      /\ Len([execs EXCEPT ![e] = a]) = Len(execs)
      /\ \A k \in 1..Len(execs) :
            [execs EXCEPT ![e] = a][k] = IF k = e THEN a ELSE execs[k]
  BY <1>1, <1>2, ExceptSeq
<1> QED
  BY <1>2, <1>3, <1>4

LEMMA WatcherKeeps ==
    ASSUME IInv, NEW m \in Message, NEW e \in 1..Len(execs),
           m.subject = "outcomes", m.fp = execs[e].fp, m.run = execs[e].run,
           TriedPublish(m),
           execs' \in Seq(Exec), Len(execs') = Len(execs),
           \A k \in 1..Len(execs) :
               execs'[k].fp = execs[k].fp /\ execs'[k].run = execs[k].run,
           UNCHANGED <<acting, armed, switchFile, lastRead, late>>
    PROVE  IInv'
<1>1. BusTypeOK /\ ThumpTypeOK /\ TypeOK /\ ExecsSound /\ SwitchSound
  BY DEF IInv, TypeOK
<1>2. BusTypeOK' /\ (stream' = stream \/ Stored(m))
  BY <1>1, TriedPublishType
<1>3. TypeOK'
  BY <1>1, <1>2 DEF TypeOK, ThumpTypeOK
<1>4. SoundMsg(Append(stream, m), Len(stream) + 1)
  <2>1. Decided(stream, m.fp, m.run, {"approved"}, Len(stream) + 1)
    BY <1>1 DEF ExecsSound
  <2> QED
    BY <1>1, <2>1, AnswerSound
<1>5. stream' = stream \/ \E mm \in Message :
          Stored(mm) /\ SoundMsg(Append(stream, mm), Len(stream) + 1)
  BY <1>2, <1>4
<1>6. StreamSound' /\ ActingSound' /\ ExecsSound'
  BY <1>3, <1>5, Kept
<1>7. SwitchSound'
  BY <1>1 DEF SwitchSound
<1> QED
  BY <1>3, <1>6, <1>7 DEF IInv

LEMMA OutcomeType ==
    ASSUME ThumpTypeOK, NEW e \in 1..Len(execs), NEW result \in Result
    PROVE  /\ Outcome(e, result) \in Message
           /\ Outcome(e, result).subject = "outcomes"
           /\ Outcome(e, result).fp = execs[e].fp
           /\ Outcome(e, result).run = execs[e].run
<1>1. execs[e] \in Exec
  BY DEF ThumpTypeOK
<1>2. execs[e].fp \in Fingerprint /\ execs[e].run \in Run
  BY <1>1 DEF Exec
<1>3. Outcome(e, result) \in Message
  BY <1>2, MsgType DEF Outcome, Subject
<1> QED
  BY <1>3 DEF Outcome, Msg

LEMMA ReleaseNotAcceptedKeeps ==
    ASSUME IInv, NEW e \in 1..Len(execs), ReleaseNotAccepted(e)
    PROVE  IInv'
<1>1. ThumpTypeOK
  BY DEF IInv, TypeOK
<1>2. PICK result \in {"partial_non_converging", "failure"} :
          TriedPublish(Outcome(e, result))
  BY DEF ReleaseNotAccepted
<1>3. result \in Result
  BY DEF Result
<1>4. execs' = Moved(e, "withdrawn", "unread")
      /\ UNCHANGED <<acting, armed, switchFile, lastRead, late>>
  BY DEF ReleaseNotAccepted
<1>5. /\ execs' \in Seq(Exec) /\ Len(execs') = Len(execs)
      /\ \A k \in 1..Len(execs) :
            execs'[k].fp = execs[k].fp /\ execs'[k].run = execs[k].run
  <2> DEFINE ex == execs'
  <2>1. ex = Moved(e, "withdrawn", "unread")
        /\ "withdrawn" \in Progress /\ "unread" \in Reading
    BY <1>4 DEF Progress, Reading
  <2> HIDE DEF ex
  <2>2. /\ ex \in Seq(Exec) /\ Len(ex) = Len(execs)
        /\ \A k \in 1..Len(execs) : ex[k].fp = execs[k].fp /\ ex[k].run = execs[k].run
    BY <1>1, <2>1, MovedType
  <2> QED
    BY <2>2 DEF ex
<1> DEFINE m == Outcome(e, result)
<1>6. /\ m \in Message /\ m.subject = "outcomes"
      /\ m.fp = execs[e].fp /\ m.run = execs[e].run /\ TriedPublish(m)
  BY <1>1, <1>2, <1>3, OutcomeType
<1> HIDE DEF m
<1> QED
  BY <1>4, <1>5, <1>6, WatcherKeeps

LEMMA SettleWindowKeeps ==
    ASSUME IInv, NEW e \in 1..Len(execs), SettleWindow(e)
    PROVE  IInv'
<1>1. ThumpTypeOK
  BY DEF IInv, TypeOK
<1>2. PICK result \in Result, ph \in {"undoing", "settled"}, w \in {"met", "missed"} :
          /\ TriedPublish(Outcome(e, result))
          /\ execs' = Moved(e, ph, w)
  BY DEF SettleWindow, Result
<1>3. UNCHANGED <<acting, armed, switchFile, lastRead, late>>
  BY DEF SettleWindow
<1>5. /\ execs' \in Seq(Exec) /\ Len(execs') = Len(execs)
      /\ \A k \in 1..Len(execs) :
            execs'[k].fp = execs[k].fp /\ execs'[k].run = execs[k].run
  <2> DEFINE ex == execs'
  <2>1. ex = Moved(e, ph, w) /\ ph \in Progress /\ w \in Reading
    BY <1>2 DEF Progress, Reading
  <2> HIDE DEF ex
  <2>2. /\ ex \in Seq(Exec) /\ Len(ex) = Len(execs)
        /\ \A k \in 1..Len(execs) : ex[k].fp = execs[k].fp /\ ex[k].run = execs[k].run
    BY <1>1, <2>1, MovedType
  <2> QED
    BY <2>2 DEF ex
<1> DEFINE m == Outcome(e, result)
<1>6. /\ m \in Message /\ m.subject = "outcomes"
      /\ m.fp = execs[e].fp /\ m.run = execs[e].run /\ TriedPublish(m)
  BY <1>1, <1>2, OutcomeType
<1> HIDE DEF m
<1> QED
  BY <1>3, <1>5, <1>6, WatcherKeeps

LEMMA RunUndoKeeps ==
    ASSUME IInv, NEW e \in 1..Len(execs), RunUndo(e)
    PROVE  IInv'
<1>1. ThumpTypeOK
  BY DEF IInv, TypeOK
<1>2. PICK result \in Result, ph \in {"stuck", "undone"},
           w \in {"unread", "met", "missed"} :
          /\ TriedPublish(Outcome(e, result))
          /\ execs' = Moved(e, ph, w)
  <2>1. execs[e] \in Exec
    BY <1>1 DEF ThumpTypeOK
  <2>2. execs[e].window \in {"unread", "met", "missed"}
    BY <2>1 DEF Exec
  <2> QED
    BY <2>2 DEF RunUndo, Result, Reported
<1>3. UNCHANGED <<acting, armed, switchFile, lastRead, late>>
  BY DEF RunUndo
<1>4. /\ execs' \in Seq(Exec) /\ Len(execs') = Len(execs)
      /\ \A k \in 1..Len(execs) :
            execs'[k].fp = execs[k].fp /\ execs'[k].run = execs[k].run
  <2> DEFINE ex == execs'
  <2>1. ex = Moved(e, ph, w) /\ ph \in Progress /\ w \in Reading
    BY <1>2 DEF Progress, Reading
  <2> HIDE DEF ex
  <2>2. /\ ex \in Seq(Exec) /\ Len(ex) = Len(execs)
        /\ \A k \in 1..Len(execs) : ex[k].fp = execs[k].fp /\ ex[k].run = execs[k].run
    BY <1>1, <2>1, MovedType
  <2> QED
    BY <2>2 DEF ex
<1> DEFINE m == Outcome(e, result)
<1>5. /\ m \in Message /\ m.subject = "outcomes"
      /\ m.fp = execs[e].fp /\ m.run = execs[e].run /\ TriedPublish(m)
  BY <1>1, <1>2, OutcomeType
<1> HIDE DEF m
<1> QED
  BY <1>3, <1>4, <1>5, WatcherKeeps

\* A watcher's step that publishes nothing, a reload, a switch edit: the stream
\* and the consumer's job are left alone.
LEMMA QuietKeeps ==
    ASSUME IInv, TypeOK', SwitchSound', UNCHANGED <<stream, acting>>,
           Len(execs') = Len(execs),
           \A k \in 1..Len(execs) :
               execs'[k].fp = execs[k].fp /\ execs'[k].run = execs[k].run
    PROVE  IInv'
<1>1. StreamSound' /\ ActingSound' /\ ExecsSound'
  BY Kept
<1> QED
  BY <1>1 DEF IInv

\* A death leaves every action's identity and forgets the rest.
LEMMA DiedKeeps ==
    ASSUME IInv, NEW after \in Seq(Exec), Len(after) = Len(execs),
           \A k \in 1..Len(execs) :
               after[k].fp = execs[k].fp /\ after[k].run = execs[k].run,
           Died(after), faults' \in 0..MaxFaults
    PROVE  IInv'
<1>1. BusTypeOK /\ ThumpTypeOK /\ SwitchSound /\ Len(execs) \in Nat
  BY DEF IInv, TypeOK, ThumpTypeOK
<1>2. BusTypeOK'
  BY <1>1, AbandonedType DEF Died
<1> DEFINE n == Len(execs)
           ex == execs'
<1>3. ex = [e \in 1..n |-> IF after[e].phase \in Live
                           THEN [after[e] EXCEPT !.phase = "orphaned"]
                           ELSE after[e]]
  BY DEF Died
<1>4. \A e \in 1..n :
          /\ after[e] \in Exec
          /\ [after[e] EXCEPT !.phase = "orphaned"] \in Exec
          /\ [after[e] EXCEPT !.phase = "orphaned"].fp = after[e].fp
          /\ [after[e] EXCEPT !.phase = "orphaned"].run = after[e].run
  <2> SUFFICES ASSUME NEW e \in 1..n
               PROVE  /\ after[e] \in Exec
                      /\ [after[e] EXCEPT !.phase = "orphaned"] \in Exec
                      /\ [after[e] EXCEPT !.phase = "orphaned"].fp = after[e].fp
                      /\ [after[e] EXCEPT !.phase = "orphaned"].run = after[e].run
    OBVIOUS
  <2>1. after[e] \in Exec
    OBVIOUS
  <2> QED
    BY <2>1 DEF Exec
<1>5. ex \in [1..n -> Exec]
  BY <1>3, <1>4
<1>6. ex \in Seq(Exec) /\ Len(ex) = n
  BY <1>1, <1>5
<1>7. \A k \in 1..n : ex[k].fp = execs[k].fp /\ ex[k].run = execs[k].run
  BY <1>3, <1>4
<1>8. TypeOK'
  BY <1>1, <1>2, <1>6, NoOrderType, Zenon DEF TypeOK, ThumpTypeOK, Died
<1>9. SwitchSound'
  BY <1>1 DEF SwitchSound, Died, NoOrder
<1>10. StreamSound' /\ ActingSound' /\ ExecsSound'
  BY <1>6, <1>7, <1>8, Kept DEF Died
<1> QED
  BY <1>8, <1>9, <1>10 DEF IInv

LEMMA RestartThumpKeeps ==
    ASSUME IInv, RestartThump
    PROVE  IInv'
<1>1. BusTypeOK /\ execs \in Seq(Exec)
  BY DEF IInv, TypeOK, ThumpTypeOK
<1>2. faults' \in 0..MaxFaults /\ Died(execs)
  BY <1>1, FaultType DEF RestartThump, BusTypeOK
<1> QED
  BY <1>1, <1>2, DiedKeeps

LEMMA ReleaseAcceptedKeeps ==
    ASSUME IInv, NEW e \in 1..Len(execs), ReleaseAccepted(e)
    PROVE  IInv'
<1>1. BusTypeOK /\ ThumpTypeOK /\ SwitchSound
  BY DEF IInv, TypeOK
<1>2. CASE HasReversal
  <2> DEFINE ex == execs'
  <2>1. /\ ex = Moved(e, "watching", "unread")
        /\ "watching" \in Progress /\ "unread" \in Reading
        /\ UNCHANGED <<busVars, acting, armed, switchFile, lastRead, late>>
    BY <1>2 DEF ReleaseAccepted, busVars, Progress, Reading
  <2> HIDE DEF ex
  <2>2. /\ ex \in Seq(Exec) /\ Len(ex) = Len(execs)
        /\ \A k \in 1..Len(execs) : ex[k].fp = execs[k].fp /\ ex[k].run = execs[k].run
    BY <1>1, <2>1, MovedType
  <2>3. TypeOK'
    BY <1>1, <2>1, <2>2 DEF TypeOK, BusTypeOK, ThumpTypeOK, busVars, ex
  <2>4. SwitchSound'
    BY <1>1, <2>1 DEF SwitchSound
  <2> QED
    BY <2>1, <2>2, <2>3, <2>4, QuietKeeps DEF ex, busVars
<1>3. CASE ~HasReversal
  <2> DEFINE after == Moved(e, "panicked", "unread")
  <2>1. Died(after) /\ faults' \in 0..MaxFaults
    BY <1>1, <1>3 DEF ReleaseAccepted, BusTypeOK
  <2>2. /\ after \in Seq(Exec) /\ Len(after) = Len(execs)
        /\ \A k \in 1..Len(execs) :
              after[k].fp = execs[k].fp /\ after[k].run = execs[k].run
    <3> DEFINE ex == after
    <3>1. ex = Moved(e, "panicked", "unread")
          /\ "panicked" \in Progress /\ "unread" \in Reading
      BY DEF Progress, Reading
    <3> HIDE DEF ex
    <3>2. /\ ex \in Seq(Exec) /\ Len(ex) = Len(execs)
          /\ \A k \in 1..Len(execs) : ex[k].fp = execs[k].fp /\ ex[k].run = execs[k].run
      BY <1>1, <3>1, MovedType
    <3> QED
      BY <3>2 DEF ex
  <2> HIDE DEF after
  <2> QED
    BY <2>1, <2>2, DiedKeeps
<1> QED
  BY <1>2, <1>3

LEMMA DecideKeeps ==
    ASSUME IInv, NEW r \in Run, NEW v \in Verdict, Decide(r, v)
    PROVE  IInv'
<1>1. BusTypeOK /\ ThumpTypeOK /\ SwitchSound /\ stream \in Seq(Message)
  BY DEF IInv, TypeOK, BusTypeOK
<1>2. PICK fp \in Fingerprint : Published(Msg("decisions", fp, r, v))
  BY DEF Decide
<1> DEFINE m == Msg("decisions", fp, r, v)
<1>3. m \in Message /\ m.subject = "decisions" /\ m.run = r /\ m.tag = v
  BY MsgType DEF Subject, Msg
<1>4. Stored(m) /\ delivery' = Extended(delivery) /\ faults' \in 0..MaxFaults
  BY <1>1, <1>2 DEF Published, BusTypeOK
<1> HIDE DEF m
<1>5. BusTypeOK'
  BY <1>1, <1>3, <1>4, PublishedType
<1>6. TypeOK' /\ SwitchSound' /\ UNCHANGED <<acting, execs>>
  BY <1>1, <1>5 DEF TypeOK, ThumpTypeOK, SwitchSound, Decide, thumpVars
<1>7. Append(stream, m)[Len(stream) + 1] = m
  BY <1>1, <1>3
<1>8. SoundMsg(Append(stream, m), Len(stream) + 1)
  <2> DEFINE t == Append(stream, m)
  <2>1. t[Len(stream) + 1] = m
    BY <1>7
  <2> HIDE DEF t
  <2>2. SoundMsg(t, Len(stream) + 1)
    BY <1>3, <2>1 DEF SoundMsg
  <2> QED
    BY <2>2 DEF t
<1>9. \E mm \in Message : Stored(mm) /\ SoundMsg(Append(stream, mm), Len(stream) + 1)
  BY <1>3, <1>4, <1>8
<1>10. StreamSound' /\ ActingSound' /\ ExecsSound'
  BY <1>6, <1>9, Kept
<1> QED
  BY <1>6, <1>10 DEF IInv

LEMMA InitIInv == Init => IInv
<1> SUFFICES ASSUME Init PROVE IInv
  OBVIOUS
<1>1. BusTypeOK
  BY BusAssumption DEF Init, BusInit, BusTypeOK
<1>2. ThumpTypeOK /\ Len(execs) = 0
  <2>1. execs \in Seq(Exec) /\ Len(execs) = 0
    BY DEF Init, ThumpInit
  <2>2. armed \in BOOLEAN /\ late \in Nat
    BY Zenon DEF Init, ThumpInit
  <2> QED
    BY <2>1, <2>2, NoOrderType DEF Init, ThumpInit, ThumpTypeOK
<1>3. StreamSound
  BY DEF Init, BusInit, StreamSound
<1>4. ActingSound /\ ExecsSound /\ SwitchSound
  BY <1>2 DEF Init, ThumpInit, ActingSound, ExecsSound, SwitchSound, NoOrder
<1> QED
  BY <1>1, <1>2, <1>3, <1>4 DEF IInv, TypeOK

LEMMA NextIInv == IInv /\ [Next]_vars => IInv'
<1> SUFFICES ASSUME IInv, [Next]_vars PROVE IInv'
  OBVIOUS
<1>1. DOMAIN execs = 1..Len(execs)
  BY DEF IInv, TypeOK, ThumpTypeOK
<1>2. ASSUME NEW i \in DOMAIN stream,
             RefuseOrder(i) \/ TakeOrder(i) \/ TakeNonApproval(i)
      PROVE  IInv'
  BY <1>2, RefuseOrderKeeps, TakeOrderKeeps, TakeNonApprovalKeeps
<1>3. CASE RunForward \/ PublishOrder \/ PublishHeld \/ RestartThump
  BY <1>3, RunForwardKeeps, PublishOrderKeeps, PublishHeldKeeps, RestartThumpKeeps
<1>4. CASE PublishOutcome
  BY <1>4, AnswerKeeps DEF PublishOutcome
<1>5. CASE PublishDecline
  BY <1>5, AnswerKeeps DEF PublishDecline
<1>6. ASSUME NEW e \in DOMAIN execs,
             \/ ReleaseAccepted(e) \/ ReleaseNotAccepted(e)
             \/ SettleWindow(e) \/ RunUndo(e)
      PROVE  IInv'
  BY <1>1, <1>6, ReleaseAcceptedKeeps, ReleaseNotAcceptedKeeps, SettleWindowKeeps,
     RunUndoKeeps
<1>7. CASE Reload
  <2>1. armed' \in BOOLEAN /\ (armed' <=> lastRead' = "armed")
    BY <1>7, Zenon DEF Reload
  <2>2. late' \in Nat /\ lastRead' \in SwitchFile
    BY <1>7 DEF IInv, TypeOK, ThumpTypeOK, Reload
  <2>3. TypeOK'
    BY <1>7, <2>1, <2>2 DEF IInv, TypeOK, BusTypeOK, ThumpTypeOK, Reload, busVars
  <2>4. (lastRead' = "armed" \/ acting'.step = "run" => late' = 0) /\ late' <= 1
    BY <1>7 DEF IInv, SwitchSound, Reload
  <2>5. SwitchSound'
    BY <2>1, <2>4 DEF SwitchSound
  <2> QED
    BY <1>7, <2>3, <2>5, QuietKeeps DEF Reload, busVars
<1>8. CASE OperatorSwitch
  <2>1. TypeOK' /\ SwitchSound'
    BY <1>8 DEF IInv, TypeOK, BusTypeOK, ThumpTypeOK, SwitchSound, OperatorSwitch, busVars
  <2> QED
    BY <1>8, <2>1, QuietKeeps DEF OperatorSwitch, busVars
<1>9. ASSUME NEW r \in Run, NEW v \in Verdict, Decide(r, v)
      PROVE  IInv'
  BY <1>9, DecideKeeps
<1>10. CASE UNCHANGED vars
  <2>1. TypeOK' /\ SwitchSound'
    BY <1>10 DEF IInv, TypeOK, BusTypeOK, ThumpTypeOK, SwitchSound, vars, busVars, thumpVars
  <2> QED
    BY <1>10, <2>1, QuietKeeps DEF vars, busVars, thumpVars
<1> QED
  BY <1>2, <1>3, <1>4, <1>5, <1>6, <1>7, <1>8, <1>9, <1>10 DEF Next, ThumpStep

-----------------------------------------------------------------------------
\* Every variable of thump and of the bus keeps its type (Transport, FileSwitch,
\* the watchers, Subscriber).
THEOREM TypeCorrect == Spec => []TypeOK
<1>1. IInv => TypeOK
  BY DEF IInv
<1> QED
  BY <1>1, InitIInv, NextIInv, PTL DEF Spec

\* Once a reload has read anything but armed, or the process has restarted, at
\* most one more forward action begins (GatedExecutor.Execute,
\* FileSwitch.Reload).
THEOREM DisarmingStops == Spec => []DisarmStops
<1>1. IInv => DisarmStops
  BY DEF IInv, SwitchSound, DisarmStops
<1> QED
  BY <1>1, InitIInv, NextIInv, PTL DEF Spec

\* Every forward action, outcome and decline answers an earlier decision of the
\* right kind on its set (handle, Render, watchAndAccept, watchAndSettle).
THEOREM Governed == Spec => []ActsOnlyOnGrants
<1>1. IInv => ActsOnlyOnGrants
  BY DEF IInv, ExecsSound, StreamSound, SoundMsg, ActsOnlyOnGrants
<1> QED
  BY <1>1, InitIInv, NextIInv, PTL DEF Spec

-----------------------------------------------------------------------------
\* The retry budget bounds the actions.  A set's deliveries are the pairs of an
\* approval and the number of one of its deliveries; its actions are positions
\* in execs.
Grants(s, r) ==
    {i \in DOMAIN s : s[i].subject = "decisions" /\ s[i].run = r /\ s[i].tag = "approved"}

Deliveries(s, d, r) == UNION {{i} \X (1..d[i].n) : i \in Grants(s, r)}

Actions(ex, r) == {e \in DOMAIN ex : ex[e].run = r}

Acted(r) == Cardinality(Actions(execs, r))

Budget(r) == Cardinality(Deliveries(stream, delivery, r))

\* An order that has passed its gate and is yet to run has a delivery to its
\* set that no action has used: without this the bound is not inductive.
Owed(r) == acting.step = "run" /\ stream[acting.msg].run = r

Budgeted ==
    \A r \in Run : Acted(r) <= Budget(r) /\ (Owed(r) => Acted(r) < Budget(r))

\* A finite set of pairs, however the deliveries are spread over the approvals.
LEMMA DeliveriesFinite ==
    ASSUME NEW s \in Seq(Message), NEW d \in [1..Len(s) -> Standing], NEW r
    PROVE  IsFiniteSet(Deliveries(s, d, r)) /\ Cardinality(Deliveries(s, d, r)) \in Nat
<1>1. /\ Len(s) \in Nat /\ DOMAIN s = 1..Len(s) /\ MaxDeliver \in Nat
      /\ \A i \in 1..Len(s) : d[i].n \in 0..MaxDeliver
  BY BusAssumption DEF Standing
<1> DEFINE A == 1..Len(s)
           B == 1..MaxDeliver
<1>2. IsFiniteSet(A) /\ IsFiniteSet(B)
  BY <1>1, FS_Interval
<1>3. Deliveries(s, d, r) \subseteq A \X B
  BY <1>1 DEF Deliveries, Grants
<1> HIDE DEF A, B
<1>4. IsFiniteSet(A \X B)
  BY <1>2, FS_Product, Zenon
<1>5. IsFiniteSet(Deliveries(s, d, r))
  BY <1>3, <1>4, FS_Subset
<1> QED
  BY <1>5, FS_CardinalityType

LEMMA ActionsFinite ==
    ASSUME NEW ex \in Seq(Exec), NEW r
    PROVE  IsFiniteSet(Actions(ex, r)) /\ Cardinality(Actions(ex, r)) \in Nat
<1>1. Actions(ex, r) \subseteq 1..Len(ex) /\ Len(ex) \in Nat
  BY DEF Actions
<1>2. IsFiniteSet(1..Len(ex))
  BY <1>1, FS_Interval
<1>3. IsFiniteSet(Actions(ex, r))
  BY <1>1, <1>2, FS_Subset
<1> QED
  BY <1>3, FS_CardinalityType

\* Deliveries are never taken back: the stream only grows, and so do the counts.
LEMMA DeliveriesGrow ==
    ASSUME NEW s \in Seq(Message), NEW d \in [1..Len(s) -> Standing],
           NEW t \in Seq(Message), NEW c \in [1..Len(t) -> Standing], NEW r,
           Len(s) <= Len(t),
           \A k \in 1..Len(s) : t[k] = s[k] /\ d[k].n <= c[k].n
    PROVE  /\ Deliveries(s, d, r) \subseteq Deliveries(t, c, r)
           /\ Cardinality(Deliveries(s, d, r)) <= Cardinality(Deliveries(t, c, r))
<1>1. /\ Len(s) \in Nat /\ DOMAIN s = 1..Len(s)
      /\ Len(t) \in Nat /\ DOMAIN t = 1..Len(t)
      /\ \A i \in 1..Len(s) : d[i].n \in Nat /\ c[i].n \in Nat
  BY BusAssumption DEF Standing
<1>2. Grants(s, r) \subseteq Grants(t, r)
  BY <1>1 DEF Grants
<1>3. \A i \in Grants(s, r) : {i} \X (1..d[i].n) \subseteq {i} \X (1..c[i].n)
  BY <1>1 DEF Grants
<1>4. Deliveries(s, d, r) \subseteq Deliveries(t, c, r)
  BY <1>2, <1>3 DEF Deliveries
<1> QED
  BY <1>4, DeliveriesFinite, FS_Subset

\* A step that begins no action and opens no gate keeps within the budget.
LEMMA BudgetKept ==
    ASSUME TypeOK, TypeOK', Budgeted,
           Len(stream) <= Len(stream'),
           \A k \in 1..Len(stream) : stream'[k] = stream[k],
           \A k \in 1..Len(stream) : delivery[k].n <= delivery'[k].n,
           Len(execs') = Len(execs),
           \A e \in 1..Len(execs) : execs'[e].run = execs[e].run,
           acting'.step = "run" => acting' = acting /\ acting.msg \in 1..Len(stream)
    PROVE  Budgeted'
<1> SUFFICES ASSUME NEW r \in Run
             PROVE  /\ Acted(r)' <= Budget(r)'
                    /\ Owed(r)' => Acted(r)' < Budget(r)'
  BY DEF Budgeted
<1>1. /\ stream \in Seq(Message) /\ delivery \in [1..Len(stream) -> Standing]
      /\ stream' \in Seq(Message) /\ delivery' \in [1..Len(stream') -> Standing]
      /\ execs \in Seq(Exec) /\ execs' \in Seq(Exec)
  BY DEF TypeOK, BusTypeOK, ThumpTypeOK
<1>2. Actions(execs', r) = Actions(execs, r)
  BY <1>1 DEF Actions
<1>3. Acted(r)' = Acted(r)
  BY <1>2 DEF Acted
<1> DEFINE s == stream
           d == delivery
           t == stream'
           c == delivery'
<1>4. Budget(r) <= Budget(r)'
  <2>1. Cardinality(Deliveries(s, d, r)) <= Cardinality(Deliveries(t, c, r))
    <3>1. \A k \in 1..Len(s) : t[k] = s[k] /\ d[k].n <= c[k].n
      OBVIOUS
    <3>2. /\ s \in Seq(Message) /\ d \in [1..Len(s) -> Standing]
          /\ t \in Seq(Message) /\ c \in [1..Len(t) -> Standing]
          /\ Len(s) <= Len(t)
      BY <1>1
    <3> HIDE DEF s, d, t, c
    <3> QED
      BY <3>1, <3>2, DeliveriesGrow, Zenon
  <2> QED
    BY <2>1 DEF Budget
<1>5. Acted(r) \in Nat /\ Budget(r) \in Nat
  BY <1>1, ActionsFinite, DeliveriesFinite DEF Acted, Budget
<1>6. Budget(r)' \in Nat
  <2>1. Cardinality(Deliveries(t, c, r)) \in Nat
    <3>1. t \in Seq(Message) /\ c \in [1..Len(t) -> Standing]
      BY <1>1, Zenon
    <3> HIDE DEF t, c
    <3> QED
      BY <3>1, DeliveriesFinite, Zenon
  <2> QED
    BY <2>1 DEF Budget
<1>7. Owed(r)' => Owed(r)
  BY DEF Owed
<1> QED
  BY <1>3, <1>4, <1>5, <1>6, <1>7 DEF Budgeted

\* Taking an order is a delivery of its approval that no action has used.
LEMMA TakeOrderBudget ==
    ASSUME IInv, Budgeted, NEW i, TakeOrder(i)
    PROVE  Budgeted'
<1> SUFFICES ASSUME NEW r \in Run
             PROVE  /\ Acted(r)' <= Budget(r)'
                    /\ Owed(r)' => Acted(r)' < Budget(r)'
  BY DEF Budgeted
<1>1. /\ stream \in Seq(Message) /\ delivery \in [1..Len(stream) -> Standing]
      /\ execs \in Seq(Exec) /\ BusTypeOK
  BY DEF IInv, TypeOK, BusTypeOK, ThumpTypeOK
<1> DEFINE c == Delivered(i)
           x == <<i, delivery[i].n + 1>>
<1>2. /\ i \in 1..Len(stream) /\ c \in [1..Len(stream) -> Standing]
      /\ delivery' = c /\ stream' = stream /\ execs' = execs
      /\ stream[i].subject = "decisions" /\ stream[i].tag = "approved"
      /\ acting'.step = "run" => acting'.msg = i
  BY <1>1, DeliveredType DEF TakeOrder, Subject, Deliverable, Gated
<1>3. /\ \A k \in 1..Len(stream) : delivery[k].n \in Nat
      /\ \A k \in 1..Len(stream) : stream[k] = stream[k] /\ delivery[k].n <= c[k].n
      /\ c[i].n = delivery[i].n + 1
  <2>1. \A k \in 1..Len(stream) : delivery[k].n \in Nat
    BY <1>1, BusAssumption DEF Standing
  <2>2. \A k \in 1..Len(stream) :
            c[k] = IF k = i THEN [state |-> "inflight", n |-> delivery[i].n + 1]
                   ELSE delivery[k]
    BY <1>1, <1>2 DEF Delivered
  <2> HIDE DEF c
  <2> QED
    BY <1>2, <2>1, <2>2
<1>4. Acted(r)' = Acted(r) /\ Budget(r)' = Cardinality(Deliveries(stream, c, r))
  BY <1>2 DEF Acted, Budget
<1>5. x \notin Deliveries(stream, delivery, r)
  BY <1>2, <1>3 DEF Deliveries, Grants
<1>6. stream[i].run = r => x \in Deliveries(stream, c, r)
  <2> SUFFICES ASSUME stream[i].run = r
               PROVE  x \in Deliveries(stream, c, r)
    OBVIOUS
  <2>1. i \in Grants(stream, r)
    BY <1>1, <1>2 DEF Grants
  <2>2. x \in {i} \X (1..c[i].n)
    BY <1>2, <1>3
  <2> HIDE DEF x, c
  <2> QED
    BY <2>1, <2>2 DEF Deliveries
<1> HIDE DEF x, c
<1>7. /\ Deliveries(stream, delivery, r) \subseteq Deliveries(stream, c, r)
      /\ Budget(r) <= Cardinality(Deliveries(stream, c, r))
  <2>1. Len(stream) <= Len(stream)
    BY <1>1
  <2> QED
    BY <1>1, <1>2, <1>3, <2>1, DeliveriesGrow, Zenon DEF Budget
<1>8. /\ Acted(r) \in Nat /\ Budget(r) \in Nat
      /\ IsFiniteSet(Deliveries(stream, c, r))
      /\ Cardinality(Deliveries(stream, c, r)) \in Nat
  BY <1>1, <1>2, ActionsFinite, DeliveriesFinite DEF Acted, Budget
<1>9. stream[i].run = r => Budget(r) < Cardinality(Deliveries(stream, c, r))
  BY <1>5, <1>6, <1>7, <1>8, FS_Subset DEF Budget
<1>10. Owed(r)' => stream[i].run = r
  BY <1>2 DEF Owed
<1> QED
  BY <1>4, <1>7, <1>8, <1>9, <1>10 DEF Budgeted

\* Running the order uses that delivery up.
LEMMA RunForwardBudget ==
    ASSUME IInv, Budgeted, RunForward
    PROVE  Budgeted'
<1> SUFFICES ASSUME NEW r \in Run
             PROVE  /\ Acted(r)' <= Budget(r)'
                    /\ Owed(r)' => Acted(r)' < Budget(r)'
  BY DEF Budgeted
<1>1. /\ stream \in Seq(Message) /\ delivery \in [1..Len(stream) -> Standing]
      /\ execs \in Seq(Exec) /\ acting \in Order
  BY DEF IInv, TypeOK, BusTypeOK, ThumpTypeOK
<1>2. PICK x : x.run = stream[acting.msg].run /\ execs' = Append(execs, x)
  BY DEF RunForward
<1>3. stream' = stream /\ delivery' = delivery /\ acting'.step = "order"
  BY <1>1 DEF RunForward, Order
<1>4. Budget(r)' = Budget(r) /\ ~Owed(r)'
  BY <1>3 DEF Budget, Owed
<1> DEFINE n == Len(execs) + 1
<1>5. Actions(execs', r) = IF stream[acting.msg].run = r
                           THEN Actions(execs, r) \cup {n} ELSE Actions(execs, r)
  BY <1>1, <1>2 DEF Actions
<1>6. n \notin Actions(execs, r)
  BY <1>1 DEF Actions
<1>7. /\ IsFiniteSet(Actions(execs, r)) /\ Acted(r) \in Nat
      /\ Budget(r) \in Nat
  BY <1>1, ActionsFinite, DeliveriesFinite DEF Acted, Budget
<1> HIDE DEF n
<1>8. Acted(r)' = IF stream[acting.msg].run = r THEN Acted(r) + 1 ELSE Acted(r)
  BY <1>5, <1>6, <1>7, FS_AddElement, Zenon DEF Acted
<1>9. Acted(r) <= Budget(r) /\ (stream[acting.msg].run = r => Acted(r) < Budget(r))
  BY DEF Budgeted, Owed, RunForward
<1> QED
  BY <1>4, <1>7, <1>8, <1>9

\* A step that settles the delivery in hand and ends the job.
LEMMA SettledBudget ==
    ASSUME IInv, IInv', Budgeted,
           stream' = stream \/ \E m \in Message : Stored(m),
           \A k \in 1..Len(stream) : delivery'[k].n = delivery[k].n,
           Len(execs') = Len(execs),
           \A e \in 1..Len(execs) : execs'[e].run = execs[e].run,
           acting'.step = "run" => acting' = acting
    PROVE  Budgeted'
<1>1. TypeOK /\ TypeOK' /\ stream \in Seq(Message) /\ Len(stream) \in Nat
  BY DEF IInv, TypeOK, BusTypeOK
<1>2. Len(stream) <= Len(stream') /\ \A k \in 1..Len(stream) : stream'[k] = stream[k]
  BY <1>1, StoredExtends
<1>3. \A k \in 1..Len(stream) : delivery[k].n <= delivery'[k].n
  <2>1. \A k \in 1..Len(stream) : delivery[k].n \in Nat
    BY <1>1, BusAssumption DEF TypeOK, BusTypeOK, Standing
  <2> QED
    BY <2>1
<1>4. acting'.step = "run" => acting' = acting /\ acting.msg \in 1..Len(stream)
  BY DEF IInv, ActingSound
<1> QED
  BY <1>1, <1>2, <1>3, <1>4, BudgetKept

\* A decision refused, or taken without an order, is delivered and not acted on.
LEMMA TakenBudget ==
    ASSUME IInv, IInv', Budgeted, NEW i, RefuseOrder(i) \/ TakeNonApproval(i)
    PROVE  Budgeted'
<1>1. /\ TypeOK /\ TypeOK' /\ BusTypeOK /\ Len(stream) \in Nat
      /\ delivery \in [1..Len(stream) -> Standing]
  BY DEF IInv, TypeOK, BusTypeOK
<1> DEFINE c == Delivered(i)
<1>2. /\ i \in 1..Len(stream) /\ c \in [1..Len(stream) -> Standing]
      /\ stream' = stream /\ execs' = execs /\ acting'.step # "run"
  <2>1. Deliverable("decisions", i) /\ "decisions" \in Subject
    BY Zenon DEF RefuseOrder, TakeNonApproval, Subject
  <2>2. i \in 1..Len(stream) /\ c \in [1..Len(stream) -> Standing]
    BY <1>1, <2>1, DeliveredType, Zenon
  <2>3. stream' = stream /\ execs' = execs
    BY Zenon DEF RefuseOrder, TakeNonApproval, thumpVars
  <2>4. ASSUME RefuseOrder(i)
        PROVE  acting'.step # "run"
    <3>1. acting' = acting /\ acting.step = "idle"
      BY <2>4, Zenon DEF RefuseOrder, thumpVars
    <3> QED
      BY <3>1, Zenon
  <2>5. ASSUME TakeNonApproval(i)
        PROVE  acting'.step # "run"
    <3>1. acting'.step = IF stream[i].tag = "hold" THEN "held" ELSE "decline"
      BY <2>5, Zenon DEF TakeNonApproval
    <3> QED
      BY <3>1, Zenon
  <2> QED
    BY <2>2, <2>3, <2>4, <2>5, Zenon
<1>3. \A k \in 1..Len(stream) : delivery[k].n <= c[k].n
  <2>1. \A k \in 1..Len(stream) : delivery[k].n \in Nat
    BY <1>1, BusAssumption DEF Standing
  <2>2. \A k \in 1..Len(stream) :
            c[k] = IF k = i THEN [state |-> "inflight", n |-> delivery[i].n + 1]
                   ELSE delivery[k]
    BY <1>1, <1>2 DEF Delivered
  <2> HIDE DEF c
  <2> QED
    BY <1>2, <2>1, <2>2
<1>4. Naked(i, c) \/ delivery' = c
  BY Zenon DEF RefuseOrder, TakeNonApproval
<1> HIDE DEF c
<1>5. \A k \in 1..Len(stream) : delivery'[k].n = c[k].n
  BY <1>1, <1>2, <1>4, NakedCounts
<1>6. /\ Len(stream) <= Len(stream') /\ \A k \in 1..Len(stream) : stream'[k] = stream[k]
      /\ \A k \in 1..Len(stream) : delivery[k].n <= delivery'[k].n
      /\ Len(execs') = Len(execs)
      /\ \A e \in 1..Len(execs) : execs'[e].run = execs[e].run
  BY <1>1, <1>2, <1>3, <1>5
<1> QED
  BY <1>1, <1>2, <1>6, BudgetKept

LEMMA HandlerBudget ==
    ASSUME IInv, IInv', Budgeted,
           PublishOrder \/ PublishOutcome \/ PublishDecline \/ PublishHeld
    PROVE  Budgeted'
<1> DEFINE i == acting.msg
           m == stream[i]
<1>1. /\ BusTypeOK /\ ThumpTypeOK /\ ActingSound /\ TypeOK /\ StreamSound
      /\ Len(stream) \in Nat /\ delivery \in [1..Len(stream) -> Standing]
  BY DEF IInv, TypeOK, BusTypeOK
<1>2. i \in 1..Len(stream) /\ m.subject = "decisions"
  BY <1>1 DEF ActingSound, PublishOrder, PublishOutcome, PublishDecline, PublishHeld
<1>3. execs' = execs /\ acting'.step # "run"
  BY <1>1 DEF PublishOrder, PublishOutcome, PublishDecline, PublishHeld, NoOrder,
     ThumpTypeOK, Order
<1>4. CASE PublishOrder \/ PublishHeld
  <2>1. \/ delivery' = delivery
        \/ Naked(i, delivery) \/ Acked(i, delivery)
    BY <1>4 DEF PublishOrder, PublishHeld
  <2>2. stream' = stream
    BY <1>4 DEF PublishOrder, PublishHeld
  <2> HIDE DEF i
  <2>3. \A k \in 1..Len(stream) : delivery'[k].n = delivery[k].n
    BY <1>1, <1>2, <2>1, NakedCounts, AckedCounts
  <2> QED
    BY <1>3, <2>2, <2>3, SettledBudget
<1>5. CASE PublishOutcome \/ PublishDecline
  <2>1. PICK subject \in {"outcomes", "declines"} : Answer(subject)
    BY <1>5 DEF PublishOutcome, PublishDecline
  <2> DEFINE a == Msg(subject, m.fp, m.run, acting.result)
  <2>2. PublishedThenReturned(i, a)
    BY <2>1 DEF Answer
  <2>3. a \in Message
    <3>1. acting.result \in Verdict \cup Result \cup {"none"}
      BY <1>1 DEF ThumpTypeOK, Order
    <3>2. m.fp \in Fingerprint /\ m.run \in Run
      BY <1>1, <1>2, InHand, Zenon
    <3> QED
      BY <3>1, <3>2, MsgType DEF Subject
  <2> HIDE DEF a, i, m
  <2>4. stream' = stream \/ Stored(a)
    BY <1>1, <1>2, <2>2, <2>3, PublishedThenReturnedType
  <2>5. \A k \in 1..Len(stream) : delivery'[k].n = delivery[k].n
    BY <1>1, <1>2, <2>2, PublishedThenReturnedCounts
  <2> QED
    BY <1>3, <2>3, <2>4, <2>5, SettledBudget
<1> QED
  BY <1>4, <1>5

\* Moving a watcher on, or losing it with the process, begins no action.
LEMMA MovedRuns ==
    ASSUME ThumpTypeOK, NEW e \in 1..Len(execs),
           NEW ph \in Progress, NEW w \in Reading, execs' = Moved(e, ph, w)
    PROVE  Len(execs') = Len(execs)
           /\ \A k \in 1..Len(execs) : execs'[k].run = execs[k].run
<1> DEFINE ex == execs'
<1>1. ex = Moved(e, ph, w)
  OBVIOUS
<1> HIDE DEF ex
<1>2. Len(ex) = Len(execs) /\ \A k \in 1..Len(execs) : ex[k].run = execs[k].run
  BY <1>1, MovedType
<1> QED
  BY <1>2 DEF ex

LEMMA WatcherBudget ==
    ASSUME IInv, IInv', Budgeted, NEW e \in 1..Len(execs),
           ReleaseNotAccepted(e) \/ SettleWindow(e) \/ RunUndo(e)
    PROVE  Budgeted'
<1>1. ThumpTypeOK /\ BusTypeOK /\ execs[e] \in Exec
  BY DEF IInv, TypeOK, ThumpTypeOK
<1>2. PICK result \in Result, ph \in Progress, w \in Reading :
          TriedPublish(Outcome(e, result)) /\ execs' = Moved(e, ph, w)
  <2>1. execs[e].window \in Reading
    BY <1>1, Zenon DEF Exec, Reading
  <2>2. {"applied", "proposed", "success", "failure", "partial_non_converging"} \subseteq Result
    BY Zenon DEF Result
  <2>3. /\ {"withdrawn", "undoing", "settled", "stuck", "undone"} \subseteq Progress
        /\ {"unread", "met", "missed"} \subseteq Reading
    BY Zenon DEF Progress, Reading
  <2>4. CASE ReleaseNotAccepted(e)
    BY <2>2, <2>3, <2>4, Zenon DEF ReleaseNotAccepted
  <2>5. CASE SettleWindow(e)
    <3>1. PICK converged \in BOOLEAN :
             /\ TriedPublish(Outcome(e, IF converged THEN "success" ELSE "partial_non_converging"))
             /\ execs' = Moved(e, IF Fires(execs[e].run, converged) THEN "undoing" ELSE "settled",
                               IF converged THEN "met" ELSE "missed")
      BY <2>5, Zenon DEF SettleWindow
    <3>2. /\ (IF converged THEN "success" ELSE "partial_non_converging") \in Result
          /\ (IF Fires(execs[e].run, converged) THEN "undoing" ELSE "settled") \in Progress
          /\ (IF converged THEN "met" ELSE "missed") \in Reading
      BY <2>2, <2>3, Zenon
    <3> QED
      BY <3>1, <3>2, Zenon
  <2>6. CASE RunUndo(e)
    <3>1. PICK result \in {Reported(execs[e].run), "failure"} :
             /\ TriedPublish(Outcome(e, result))
             /\ execs' = Moved(e, IF result = "failure" THEN "stuck" ELSE "undone", execs[e].window)
      BY <2>6, Zenon DEF RunUndo
    <3>2. /\ result \in Result
          /\ (IF result = "failure" THEN "stuck" ELSE "undone") \in Progress
      BY <2>2, <2>3, Zenon DEF Reported
    <3> QED
      BY <2>1, <3>1, <3>2, Zenon
  <2> QED
    BY <2>4, <2>5, <2>6, Zenon
<1>3. acting' = acting
  BY Zenon DEF ReleaseNotAccepted, SettleWindow, RunUndo
<1>4. Len(execs') = Len(execs) /\ \A k \in 1..Len(execs) : execs'[k].run = execs[k].run
  BY <1>1, <1>2, MovedRuns
<1> DEFINE m == Outcome(e, result)
<1>5. m \in Message /\ TriedPublish(m)
  BY <1>1, <1>2, OutcomeType
<1> HIDE DEF m
<1>6. stream' = stream \/ Stored(m)
  BY <1>1, <1>5, TriedPublishType
<1>7. \A k \in 1..Len(stream) : delivery'[k].n = delivery[k].n
  BY <1>1, <1>5, TriedPublishCounts
<1> QED
  BY <1>3, <1>4, <1>5, <1>6, <1>7, SettledBudget

LEMMA DiedBudget ==
    ASSUME IInv, IInv', Budgeted, NEW after \in Seq(Exec), Len(after) = Len(execs),
           \A k \in 1..Len(execs) : after[k].run = execs[k].run, Died(after)
    PROVE  Budgeted'
<1>1. BusTypeOK /\ Len(execs) \in Nat
  BY DEF IInv, TypeOK, ThumpTypeOK
<1> DEFINE n == Len(execs)
           ex == execs'
<1>2. ex = [e \in 1..n |-> IF after[e].phase \in Live
                           THEN [after[e] EXCEPT !.phase = "orphaned"]
                           ELSE after[e]]
  BY DEF Died
<1>3. \A e \in 1..n : [after[e] EXCEPT !.phase = "orphaned"].run = after[e].run
  <2> SUFFICES ASSUME NEW e \in 1..n
               PROVE  [after[e] EXCEPT !.phase = "orphaned"].run = after[e].run
    OBVIOUS
  <2>1. after[e] \in Exec
    OBVIOUS
  <2> QED
    BY <2>1 DEF Exec
<1>4. ex \in Seq(Exec)
  BY DEF IInv, TypeOK, ThumpTypeOK
<1>5. \A k \in 1..n : ex[k].run = execs[k].run
  BY <1>2, <1>3
<1>6. Len(ex) = n
  <2>1. DOMAIN ex = 1..n
    BY <1>2
  <2> HIDE DEF ex
  <2> QED
    BY <1>1, <1>4, <2>1
<1>7. \A k \in 1..Len(stream) : delivery'[k].n = delivery[k].n
  BY <1>1, AbandonedCounts DEF Died
<1>8. stream' = stream /\ acting'.step # "run"
  BY DEF Died, NoOrder
<1> QED
  BY <1>5, <1>6, <1>7, <1>8, SettledBudget

LEMMA ReleaseAcceptedBudget ==
    ASSUME IInv, IInv', Budgeted, NEW e \in 1..Len(execs), ReleaseAccepted(e)
    PROVE  Budgeted'
<1>1. ThumpTypeOK /\ "watching" \in Progress /\ "panicked" \in Progress
      /\ "unread" \in Reading
  BY DEF IInv, TypeOK, Progress, Reading
<1>2. CASE HasReversal
  <2>1. execs' = Moved(e, "watching", "unread") /\ UNCHANGED <<stream, delivery, acting>>
    BY <1>2 DEF ReleaseAccepted
  <2>2. Len(execs') = Len(execs) /\ \A k \in 1..Len(execs) : execs'[k].run = execs[k].run
    BY <1>1, <2>1, MovedRuns
  <2> QED
    BY <2>1, <2>2, SettledBudget
<1>3. CASE ~HasReversal
  <2> DEFINE after == Moved(e, "panicked", "unread")
  <2>1. Died(after)
    BY <1>3 DEF ReleaseAccepted
  <2>2. after = Moved(e, "panicked", "unread")
    OBVIOUS
  <2> HIDE DEF after
  <2>3. /\ after \in Seq(Exec) /\ Len(after) = Len(execs)
        /\ \A k \in 1..Len(execs) : after[k].run = execs[k].run
    BY <1>1, <2>2, MovedType
  <2> QED
    BY <2>1, <2>3, DiedBudget
<1> QED
  BY <1>2, <1>3

LEMMA DecideBudget ==
    ASSUME IInv, IInv', Budgeted, NEW r \in Run, NEW v \in Verdict, Decide(r, v)
    PROVE  Budgeted'
<1>1. BusTypeOK
  BY DEF IInv, TypeOK
<1>2. PICK fp \in Fingerprint : Published(Msg("decisions", fp, r, v))
  BY DEF Decide
<1> DEFINE m == Msg("decisions", fp, r, v)
<1>3. m \in Message
  BY MsgType DEF Subject
<1>4. Stored(m) /\ TriedPublish(m)
  BY <1>2 DEF Published, TriedPublish
<1> HIDE DEF m
<1>5. \A k \in 1..Len(stream) : delivery'[k].n = delivery[k].n
  BY <1>1, <1>4, TriedPublishCounts
<1>6. UNCHANGED <<acting, execs>>
  BY DEF Decide, thumpVars
<1> QED
  BY <1>3, <1>4, <1>5, <1>6, SettledBudget

LEMMA NextBudget == IInv /\ Budgeted /\ [Next]_vars => Budgeted'
<1> SUFFICES ASSUME IInv, Budgeted, [Next]_vars PROVE Budgeted'
  OBVIOUS
<1>0. IInv' /\ DOMAIN execs = 1..Len(execs)
  BY NextIInv DEF IInv, TypeOK, ThumpTypeOK
<1>1. ASSUME NEW i \in DOMAIN stream,
             RefuseOrder(i) \/ TakeOrder(i) \/ TakeNonApproval(i)
      PROVE  Budgeted'
  BY <1>0, <1>1, TakenBudget, TakeOrderBudget
<1>2. CASE RunForward
  BY <1>2, RunForwardBudget
<1>3. CASE PublishOrder \/ PublishOutcome \/ PublishDecline \/ PublishHeld
  BY <1>0, <1>3, HandlerBudget
<1>4. ASSUME NEW e \in DOMAIN execs,
             \/ ReleaseAccepted(e) \/ ReleaseNotAccepted(e)
             \/ SettleWindow(e) \/ RunUndo(e)
      PROVE  Budgeted'
  BY <1>0, <1>4, ReleaseAcceptedBudget, WatcherBudget
<1>5. CASE RestartThump
  <2>1. execs \in Seq(Exec) /\ Died(execs)
    BY <1>5 DEF IInv, TypeOK, ThumpTypeOK, RestartThump
  <2> QED
    BY <1>0, <2>1, DiedBudget
<1>6. CASE Reload \/ OperatorSwitch \/ UNCHANGED vars
  <2>1. UNCHANGED <<stream, delivery, acting, execs>>
    BY <1>6 DEF Reload, OperatorSwitch, vars, busVars, thumpVars
  <2> QED
    BY <1>0, <2>1, SettledBudget
<1>7. ASSUME NEW r \in Run, NEW v \in Verdict, Decide(r, v)
      PROVE  Budgeted'
  BY <1>0, <1>7, DecideBudget
<1> QED
  BY <1>1, <1>2, <1>3, <1>4, <1>5, <1>6, <1>7 DEF Next, ThumpStep

LEMMA InitBudget == Init => Budgeted
<1> SUFFICES ASSUME Init, NEW r \in Run
             PROVE  Acted(r) <= Budget(r) /\ ~Owed(r)
  BY DEF Budgeted
<1>1. Actions(execs, r) = {} /\ Deliveries(stream, delivery, r) = {}
  BY DEF Init, BusInit, ThumpInit, Actions, Deliveries, Grants
<1>2. Acted(r) = 0 /\ Budget(r) = 0
  BY <1>1, FS_EmptySet DEF Acted, Budget
<1> QED
  BY <1>2 DEF Owed, Init, ThumpInit, NoOrder

\* A grant is acted on at most once per delivery, whatever fails or crashes: the
\* retry budget bounds the forward actions on every set (handle,
\* GatedExecutor.Execute, Subscriber's MaxDeliver).
THEOREM RetriesBoundActions == Spec => []ActsOncePerDelivery
<1>1. Budgeted => ActsOncePerDelivery
  BY DEF Budgeted, ActsOncePerDelivery, Acted, Budget, Actions, Deliveries, Grants
<1>2. Init => IInv /\ Budgeted
  BY InitIInv, InitBudget
<1>3. (IInv /\ Budgeted) /\ [Next]_vars => (IInv /\ Budgeted)'
  BY NextIInv, NextBudget
<1> QED
  BY <1>1, <1>2, <1>3, PTL DEF Spec

\* The bound in the broker's own terms.
WithinMaxDeliver ==
    \A r \in Run : Acted(r) <= Cardinality(Grants(stream, r)) * MaxDeliver

\* A set is acted on at most MaxDeliver times per approval of it on the stream,
\* for every MaxDeliver (broker.go's maxDeliver, GatedExecutor.Execute).
THEOREM MaxDeliverBoundsActions == Spec => []WithinMaxDeliver
<1>1. ASSUME IInv, Budgeted
      PROVE  WithinMaxDeliver
  <2> SUFFICES ASSUME NEW r \in Run
               PROVE  Acted(r) <= Cardinality(Grants(stream, r)) * MaxDeliver
    BY DEF WithinMaxDeliver
  <2>1. /\ stream \in Seq(Message) /\ delivery \in [1..Len(stream) -> Standing]
        /\ execs \in Seq(Exec) /\ MaxDeliver \in Nat
    BY <1>1, BusAssumption DEF IInv, TypeOK, BusTypeOK, ThumpTypeOK
  <2> DEFINE G == Grants(stream, r)
             B == 1..MaxDeliver
             D == Deliveries(stream, delivery, r)
  <2>2. G \subseteq 1..Len(stream) /\ Len(stream) \in Nat
    BY <2>1 DEF Grants
  <2>3. IsFiniteSet(1..Len(stream)) /\ IsFiniteSet(B) /\ Cardinality(B) = MaxDeliver
    <3>1. IsFiniteSet(1..Len(stream)) /\ IsFiniteSet(B)
      BY <2>1, <2>2, FS_Interval
    <3>2. Cardinality(1..MaxDeliver) = IF 1 > MaxDeliver THEN 0 ELSE MaxDeliver - 1 + 1
      BY <2>1, FS_Interval
    <3> QED
      BY <2>1, <3>1, <3>2
  <2>4. IsFiniteSet(G)
    BY <2>2, <2>3, FS_Subset
  <2>5. D \subseteq G \X B
    <3>1. \A i \in G : delivery[i].n \in 0..MaxDeliver
      BY <2>1, <2>2 DEF Standing
    <3> QED
      BY <2>1, <3>1 DEF Deliveries
  <2>6. Acted(r) <= Cardinality(D) /\ Acted(r) \in Nat /\ Cardinality(D) \in Nat
    BY <1>1, <2>1, ActionsFinite, DeliveriesFinite DEF Budgeted, Budget, Acted
  <2> HIDE DEF G, B, D
  <2>7. IsFiniteSet(G \X B) /\ Cardinality(G \X B) = Cardinality(G) * Cardinality(B)
    BY <2>3, <2>4, FS_Product, Zenon
  <2>8. Cardinality(D) <= Cardinality(G \X B)
    BY <2>5, <2>7, FS_Subset
  <2>9. Cardinality(G) \in Nat /\ Cardinality(G \X B) \in Nat
    BY <2>4, <2>7, FS_CardinalityType
  <2>10. Acted(r) <= Cardinality(G) * MaxDeliver
    BY <2>3, <2>6, <2>7, <2>8, <2>9
  <2> QED
    BY <2>10 DEF G
<1>2. Init => IInv /\ Budgeted
  BY InitIInv, InitBudget
<1>3. (IInv /\ Budgeted) /\ [Next]_vars => (IInv /\ Budgeted)'
  BY NextIInv, NextBudget
<1>4. IInv /\ Budgeted => WithinMaxDeliver
  BY <1>1
<1> QED
  BY <1>2, <1>3, <1>4, PTL DEF Spec
=============================================================================
