----------------------------- MODULE HissProofs -----------------------------
(***************************************************************************)
(* Every grant on thump.decisions is earned: it is about a proposed, gated *)
(* set, and is Evaluate's own approval, an ack's re-issue, or a force of a *)
(* set on record as held, for any number of fingerprints, sets, faults and *)
(* restarts.                                                               *)
(***************************************************************************)
EXTENDS Hiss, BusProofs

\* A leaf that names no backend is tried with SMT, then with Zenon.
USE SMTT(40), ZenonT(30)

\* A set was proposed for the fingerprint before position i of stream s.
ProposedBefore(s, fp, r, i) ==
    \E k \in 1..(i - 1) :
        /\ s[k].subject = "proposals"
        /\ s[k].fp = fp
        /\ s[k].run = r

AckedBefore(s, fp, i) ==
    \E j \in 1..(i - 1) : s[j].subject = "approvals" /\ s[j].fp = fp

\* A set hiss has standing to hold for the fingerprint.
Holdable(s, fp, r, i) ==
    /\ r \in Run
    /\ ProposedBefore(s, fp, r, i)
    /\ Judgement[r] # "rejected"

\* Evaluate approves the set, or it is on record as held before position i.
Grantable(s, fp, r, i) ==
    \/ Judgement[r] = "approved"
    \/ \E j \in 1..(i - 1) :
          /\ s[j].subject = "decisions"
          /\ s[j].fp = fp
          /\ s[j].run = r
          /\ s[j].tag \in Awaits

\* What the message at position i of stream s satisfies: a proposal names a
\* set; a decision that is not a rejection is about a set hiss has standing to
\* hold; an ack came before a decision that carries an approver; and a grant
\* that carries none was Evaluate's to give, or was on record as held.
SoundMsg(s, i) ==
    /\ s[i].subject = "proposals" => s[i].run \in Run
    /\ s[i].subject = "decisions" =>
          /\ s[i].tag # "rejected" => Holdable(s, s[i].fp, s[i].run, i)
          /\ s[i].acked => AckedBefore(s, s[i].fp, i)
          /\ s[i].tag = "approved" /\ ~s[i].acked =>
                Grantable(s, s[i].fp, s[i].run, i)

StreamSound == \A i \in 1..Len(stream) : SoundMsg(stream, i)

\* What hiss holds it has standing to hold.
HoldsSound ==
    \A fp \in Fingerprint :
        holds[fp] # NoRun => Holdable(stream, fp, holds[fp], Len(stream) + 1)

\* The handlers' jobs: the message in hand, and what was read from it.
ProposingSound ==
    proposing.step # "idle" =>
        /\ proposing.msg \in 1..Len(stream)
        /\ stream[proposing.msg].subject = "proposals"
        /\ proposing.run = stream[proposing.msg].run
        /\ proposing.verdict # "rejected" => Judgement[proposing.run] # "rejected"
        /\ proposing.verdict = "approved" => Judgement[proposing.run] = "approved"

ApprovingSound ==
    approving.step # "idle" =>
        /\ approving.msg \in 1..Len(stream)
        /\ stream[approving.msg].subject = "approvals"
        /\ Holdable(stream, stream[approving.msg].fp, approving.run, Len(stream) + 1)

IInv ==
    /\ TypeOK
    /\ StreamSound
    /\ HoldsSound
    /\ ProposingSound
    /\ ApprovingSound

-----------------------------------------------------------------------------
\* A stream that only grows keeps what came before a position.
LEMMA BeforeGrows ==
    ASSUME NEW s \in Seq(Message), NEW t \in Seq(Message),
           \A k \in 1..Len(s) : t[k] = s[k],
           NEW i \in Nat, NEW j \in Nat, i <= Len(s) + 1, i <= j,
           NEW fp, NEW r
    PROVE  /\ Holdable(s, fp, r, i) => Holdable(t, fp, r, j)
           /\ AckedBefore(s, fp, i) => AckedBefore(t, fp, j)
           /\ Grantable(s, fp, r, i) => Grantable(t, fp, r, j)
<1>1. Len(s) \in Nat
  OBVIOUS
<1>2. \A k \in 1..(i - 1) : k \in 1..(j - 1) /\ t[k] = s[k]
  BY <1>1
<1>3. ASSUME Holdable(s, fp, r, i)
      PROVE  Holdable(t, fp, r, j)
  <2>1. PICK k \in 1..(i - 1) :
            s[k].subject = "proposals" /\ s[k].fp = fp /\ s[k].run = r
    BY <1>3 DEF Holdable, ProposedBefore
  <2>2. k \in 1..(j - 1) /\ t[k] = s[k]
    BY <1>2
  <2> QED
    BY <1>3, <2>1, <2>2, Zenon DEF Holdable, ProposedBefore
<1>4. ASSUME AckedBefore(s, fp, i)
      PROVE  AckedBefore(t, fp, j)
  <2>1. PICK k \in 1..(i - 1) : s[k].subject = "approvals" /\ s[k].fp = fp
    BY <1>4 DEF AckedBefore
  <2>2. k \in 1..(j - 1) /\ t[k] = s[k]
    BY <1>2
  <2> QED
    BY <2>1, <2>2, Zenon DEF AckedBefore
<1>5. ASSUME Grantable(s, fp, r, i)
      PROVE  Grantable(t, fp, r, j)
  <2>1. CASE Judgement[r] = "approved"
    BY <2>1 DEF Grantable
  <2>2. CASE \E k \in 1..(i - 1) :
                /\ s[k].subject = "decisions" /\ s[k].fp = fp /\ s[k].run = r
                /\ s[k].tag \in Awaits
    <3>1. PICK k \in 1..(i - 1) :
              /\ s[k].subject = "decisions" /\ s[k].fp = fp /\ s[k].run = r
              /\ s[k].tag \in Awaits
      BY <2>2
    <3>2. k \in 1..(j - 1) /\ t[k] = s[k]
      BY <1>2
    <3> QED
      BY <3>1, <3>2, Zenon DEF Grantable
  <2> QED
    BY <1>5, <2>1, <2>2 DEF Grantable
<1> QED
  BY <1>3, <1>4, <1>5

\* A step that stores nothing, or one message that is sound at the end of the
\* stream, keeps the stream sound, and keeps what may be held.
LEMMA StreamStep ==
    ASSUME TypeOK, StreamSound,
           \/ stream' = stream
           \/ \E m \in Message :
                 Stored(m) /\ SoundMsg(Append(stream, m), Len(stream) + 1)
    PROVE  /\ StreamSound'
           /\ \A fp, r : Holdable(stream, fp, r, Len(stream) + 1)
                         => Holdable(stream', fp, r, Len(stream') + 1)
           /\ stream' \in Seq(Message)
           /\ Len(stream) <= Len(stream')
           /\ \A k \in 1..Len(stream) : stream'[k] = stream[k]
<1>1. stream \in Seq(Message) /\ Len(stream) \in Nat
  BY DEF TypeOK, BusTypeOK
<1>2. CASE stream' = stream
  BY <1>1, <1>2 DEF StreamSound
<1>3. CASE \E m \in Message : Stored(m) /\ SoundMsg(Append(stream, m), Len(stream) + 1)
  <2>1. PICK m \in Message : Stored(m) /\ SoundMsg(Append(stream, m), Len(stream) + 1)
    BY <1>3
  <2>2. /\ stream' \in Seq(Message)
        /\ Len(stream') = Len(stream) + 1
        /\ \A k \in 1..Len(stream) : stream'[k] = stream[k]
        /\ stream' = Append(stream, m)
    BY <1>1, <2>1, StoredExtends DEF Stored
  <2>3. /\ Len(stream) + 1 \in Nat
        /\ Len(stream') + 1 \in Nat
        /\ Len(stream) + 1 <= Len(stream) + 1
        /\ Len(stream) + 1 <= Len(stream') + 1
        /\ Len(stream) <= Len(stream')
    BY <1>1, <2>2
  <2>4. ASSUME NEW fp, NEW r
        PROVE  Holdable(stream, fp, r, Len(stream) + 1)
                  => Holdable(stream', fp, r, Len(stream') + 1)
    <3> DEFINE t == stream'
               i == Len(stream) + 1
               j == Len(stream') + 1
    <3>1. /\ t \in Seq(Message) /\ \A k \in 1..Len(stream) : t[k] = stream[k]
          /\ i \in Nat /\ j \in Nat /\ i <= Len(stream) + 1 /\ i <= j
      BY <2>2, <2>3
    <3> HIDE DEF t, i, j
    <3>2. Holdable(stream, fp, r, i) => Holdable(t, fp, r, j)
      BY <1>1, <3>1, BeforeGrows
    <3> QED
      BY <3>2 DEF t, i, j
  <2>5. ASSUME NEW i \in 1..Len(stream)
        PROVE  SoundMsg(stream', i)
    <3>1. SoundMsg(stream, i) /\ stream'[i] = stream[i]
      BY <2>2 DEF StreamSound
    <3>2. i \in Nat /\ i <= Len(stream) + 1 /\ i <= i
      BY <1>1
    <3>3. ASSUME NEW fp, NEW r
          PROVE  /\ Holdable(stream, fp, r, i) => Holdable(stream', fp, r, i)
                 /\ AckedBefore(stream, fp, i) => AckedBefore(stream', fp, i)
                 /\ Grantable(stream, fp, r, i) => Grantable(stream', fp, r, i)
      <4> DEFINE t == stream'
      <4>1. t \in Seq(Message) /\ \A k \in 1..Len(stream) : t[k] = stream[k]
        BY <2>2
      <4> HIDE DEF t
      <4>2. /\ Holdable(stream, fp, r, i) => Holdable(t, fp, r, i)
            /\ AckedBefore(stream, fp, i) => AckedBefore(t, fp, i)
            /\ Grantable(stream, fp, r, i) => Grantable(t, fp, r, i)
        BY <1>1, <3>2, <4>1, BeforeGrows
      <4> QED
        BY <4>2 DEF t
    <3> QED
      BY <3>1, <3>3 DEF SoundMsg
  <2>6. SoundMsg(stream', Len(stream) + 1)
    BY <2>1, <2>2
  <2>7. StreamSound'
    BY <1>1, <2>2, <2>5, <2>6 DEF StreamSound
  <2> QED
    BY <2>2, <2>3, <2>4, <2>7
<1> QED
  BY <1>2, <1>3

\* The invariant's parts that a step leaves alone follow from how it treats the
\* stream: what is held and what the jobs hold stays justified.
LEMMA Kept ==
    ASSUME IInv, TypeOK',
           \/ stream' = stream
           \/ \E m \in Message :
                 Stored(m) /\ SoundMsg(Append(stream, m), Len(stream) + 1)
    PROVE  /\ StreamSound'
           /\ (\A fp \in Fingerprint : holds'[fp] = holds[fp] \/ holds'[fp] = NoRun)
                => HoldsSound'
           /\ UNCHANGED proposing \/ proposing' = Idle => ProposingSound'
           /\ UNCHANGED approving \/ approving' = Idle => ApprovingSound'
<1> USE DEF IInv
<1>1. /\ StreamSound'
      /\ \A fp, r : Holdable(stream, fp, r, Len(stream) + 1)
                    => Holdable(stream', fp, r, Len(stream') + 1)
      /\ Len(stream) \in Nat /\ Len(stream') \in Nat
      /\ Len(stream) <= Len(stream')
      /\ \A k \in 1..Len(stream) : stream'[k] = stream[k]
  BY StreamStep DEF TypeOK, BusTypeOK
<1>2. ASSUME \A fp \in Fingerprint : holds'[fp] = holds[fp] \/ holds'[fp] = NoRun
      PROVE  HoldsSound'
  BY <1>1, <1>2 DEF HoldsSound
<1>3. ASSUME UNCHANGED proposing \/ proposing' = Idle
      PROVE  ProposingSound'
  BY <1>1, <1>3 DEF ProposingSound, Idle
<1>4. ASSUME UNCHANGED approving \/ approving' = Idle
      PROVE  ApprovingSound'
  BY <1>1, <1>4 DEF ApprovingSound, Idle
<1> QED
  BY <1>1, <1>2, <1>3, <1>4

\* A message at a position in hand belongs to the bus's types.
LEMMA InHand ==
    ASSUME TypeOK, NEW i \in 1..Len(stream)
    PROVE  stream[i] \in Message /\ stream[i].fp \in Fingerprint
           /\ stream[i].run \in Run \cup {NoRun}
<1>1. stream[i] \in Message
  BY DEF TypeOK, BusTypeOK
<1> QED
  BY <1>1 DEF Message

\* A proposal at position i makes its set proposed for its fingerprint.
LEMMA InHandProposed ==
    ASSUME TypeOK, StreamSound, NEW i \in 1..Len(stream),
           stream[i].subject = "proposals"
    PROVE  /\ stream[i].run \in Run
           /\ ProposedBefore(stream, stream[i].fp, stream[i].run, Len(stream) + 1)
<1>1. Len(stream) \in Nat
  BY DEF TypeOK, BusTypeOK
<1>2. stream[i].run \in Run
  BY DEF StreamSound, SoundMsg
<1>3. i \in 1..((Len(stream) + 1) - 1)
  BY <1>1
<1> QED
  BY <1>2, <1>3, Zenon DEF ProposedBefore

LEMMA JobType ==
    ASSUME NEW i \in Nat, NEW r \in Run \cup {NoRun}, NEW v \in Verdict,
           NEW s \in {"idle", "create", "publish"}
    PROVE  [msg |-> i, run |-> r, verdict |-> v, step |-> s] \in Job
BY DEF Job

LEMMA IdleType == Idle \in Job
BY DEF Idle, Job, Verdict

LEMMA EvaluateType ==
    ASSUME NEW r \in Run
    PROVE  Evaluate(r) \in Verdict
           /\ (Evaluate(r) # "rejected" => Judgement[r] # "rejected")
           /\ (Evaluate(r) = "approved" => Judgement[r] = "approved")
BY HissAssumption DEF Evaluate, Verdict, Awaits

LEMMA HandleProposalKeeps ==
    ASSUME IInv, NEW i, HandleProposal(i)
    PROVE  IInv'
<1> DEFINE r == stream[i].run
           fp == stream[i].fp
           v == Evaluate(r)
<1>1. BusTypeOK /\ HissTypeOK /\ StreamSound /\ TypeOK
  BY DEF IInv, TypeOK
<1>2. i \in 1..Len(stream) /\ Delivered(i) \in [1..Len(stream) -> Standing]
      /\ stream[i].subject = "proposals"
  BY <1>1, DeliveredType DEF HandleProposal, Subject, Deliverable
<1>3. r \in Run /\ fp \in Fingerprint
      /\ ProposedBefore(stream, fp, r, Len(stream) + 1)
  BY <1>1, <1>2, InHand, InHandProposed
<1>4. /\ v \in Verdict
      /\ v # "rejected" => Judgement[r] # "rejected"
      /\ v = "approved" => Judgement[r] = "approved"
  BY <1>3, EvaluateType
<1>5. BusTypeOK'
  BY <1>1, <1>2 DEF BusTypeOK, HandleProposal
<1>6. i \in Nat
  BY <1>1, <1>2 DEF BusTypeOK
<1> HIDE DEF v, r, fp
<1>7. /\ proposing' \in Job
      /\ proposing'.msg = i /\ proposing'.run = r /\ proposing'.verdict = v
  BY <1>3, <1>4, <1>6, JobType, Zenon DEF HandleProposal, v, r
<1>8. holds' = holds \/ (v \in Awaits /\ holds' = [holds EXCEPT ![fp] = r])
  BY DEF HandleProposal, v, r, fp
<1>9. holds' \in [Fingerprint -> Run \cup {NoRun}]
  BY <1>1, <1>3, <1>8 DEF HissTypeOK
<1>10. TypeOK'
  BY <1>1, <1>5, <1>7, <1>9 DEF TypeOK, HissTypeOK, HandleProposal
<1>11. stream' = stream /\ UNCHANGED approving
  BY DEF HandleProposal
<1>12. StreamSound' /\ ApprovingSound'
  BY <1>10, <1>11, Kept
<1>13. Holdable(stream, fp, r, Len(stream) + 1) \/ v \notin Awaits
  BY <1>3, <1>4 DEF Holdable, Awaits
<1>14. HoldsSound'
  BY <1>1, <1>8, <1>11, <1>13 DEF HoldsSound, IInv, HissTypeOK
<1>15. ProposingSound'
  BY <1>2, <1>4, <1>7, <1>11 DEF ProposingSound, r
<1> QED
  BY <1>10, <1>12, <1>14, <1>15 DEF IInv

LEMMA RequestType ==
    ASSUME HissTypeOK, NEW fp \in Fingerprint, NEW r \in Run \cup {NoRun},
           NEW ph \in {"absent", "open", "decided", "unstamped", "processed"}
    PROVE  /\ [requests EXCEPT ![fp] = [phase |-> ph, run |-> r]]
                 \in [Fingerprint -> Request]
           /\ [requests EXCEPT ![fp].phase = ph] \in [Fingerprint -> Request]
<1>1. [phase |-> ph, run |-> r] \in Request
  BY DEF Request
<1>2. [requests[fp] EXCEPT !.phase = ph] \in Request
  BY DEF HissTypeOK, Request
<1> QED
  BY <1>1, <1>2 DEF HissTypeOK

LEMMA CreatedType ==
    ASSUME HissTypeOK, NEW fp \in Fingerprint, NEW r \in Run \cup {NoRun}
    PROVE  Created(fp, r) \in [Fingerprint -> Request]
<1>1. [requests EXCEPT ![fp] = [phase |-> "open", run |-> r]] \in [Fingerprint -> Request]
  BY RequestType, Zenon
<1> QED
  BY <1>1 DEF Created, HissTypeOK

LEMMA CreateRequestKeeps ==
    ASSUME IInv, CreateRequest
    PROVE  IInv'
<1> DEFINE i == proposing.msg
           fp == stream[i].fp
<1>1. BusTypeOK /\ HissTypeOK /\ StreamSound /\ TypeOK /\ ProposingSound
  BY DEF IInv, TypeOK
<1>2. i \in 1..Len(stream) /\ Len(stream) \in Nat
  BY <1>1 DEF ProposingSound, CreateRequest, BusTypeOK
<1>3. fp \in Fingerprint
  BY <1>1, <1>2, InHand
<1>4. Created(fp, proposing.run) \in [Fingerprint -> Request]
  BY <1>1, <1>3, CreatedType DEF HissTypeOK, Job
<1>5. requests' \in [Fingerprint -> Request]
  BY <1>1, <1>4 DEF CreateRequest, HissTypeOK
<1>6. \/ proposing' = Idle
      \/ proposing' = [proposing EXCEPT !.step = "publish"]
  BY DEF CreateRequest
<1>7. proposing' \in Job
  BY <1>1, <1>6, IdleType DEF HissTypeOK, Job
<1>8. BusTypeOK'
  <2>1. CASE UNCHANGED <<delivery, faults>>
    BY <1>1, <2>1 DEF BusTypeOK, CreateRequest
  <2>2. CASE Fault /\ Naked(i, delivery)
    <3>1. delivery' \in [1..Len(stream) -> Standing]
      BY <1>1, <1>2, <2>2, NakedType DEF BusTypeOK
    <3> QED
      BY <1>1, <2>2, <3>1, FaultType DEF BusTypeOK, CreateRequest
  <2> QED
    BY <2>1, <2>2 DEF CreateRequest
<1>9. TypeOK'
  BY <1>1, <1>5, <1>7, <1>8 DEF TypeOK, HissTypeOK, CreateRequest
<1>10. stream' = stream /\ UNCHANGED <<approving, holds>>
  BY DEF CreateRequest
<1>11. StreamSound' /\ ApprovingSound' /\ HoldsSound'
  BY <1>9, <1>10, Kept
<1>12. ProposingSound'
  BY <1>1, <1>6, <1>10 DEF ProposingSound, Idle, CreateRequest, HissTypeOK, Job
<1> QED
  BY <1>9, <1>11, <1>12 DEF IInv

LEMMA PublishDecisionKeeps ==
    ASSUME IInv, PublishDecision
    PROVE  IInv'
<1> DEFINE i == proposing.msg
           r == proposing.run
           v == proposing.verdict
           fp == stream[i].fp
           m == Msg("decisions", fp, r, v)
           last == Len(stream) + 1
<1>1. BusTypeOK /\ HissTypeOK /\ StreamSound /\ TypeOK /\ ProposingSound
  BY DEF IInv, TypeOK
<1>2. /\ i \in 1..Len(stream) /\ Len(stream) \in Nat
      /\ stream[i].subject = "proposals" /\ r = stream[i].run
      /\ v # "rejected" => Judgement[r] # "rejected"
      /\ v = "approved" => Judgement[r] = "approved"
  BY <1>1 DEF ProposingSound, PublishDecision, BusTypeOK
<1>3. fp \in Fingerprint /\ r \in Run /\ ProposedBefore(stream, fp, r, last)
  BY <1>1, <1>2, InHand, InHandProposed
<1>4. m \in Message
  <2>1. v \in Verdict
    BY <1>1 DEF HissTypeOK, Job
  <2> QED
    BY <1>3, <2>1, MsgType DEF Subject
<1>5. BusTypeOK' /\ (stream' = stream \/ Stored(m))
  <2>1. PublishedThenReturned(i, m)
    BY DEF PublishDecision
  <2> HIDE DEF m, i
  <2> QED
    BY <1>1, <1>2, <1>4, <2>1, PublishedThenReturnedType
<1>6. UNCHANGED <<holds, approving>> /\ proposing' = Idle
  BY DEF PublishDecision
<1>7. TypeOK'
  BY <1>1, <1>5, IdleType DEF TypeOK, HissTypeOK, PublishDecision
<1>8. SoundMsg(Append(stream, m), last)
  <2> DEFINE t == Append(stream, m)
  <2>1. /\ t \in Seq(Message) /\ \A k \in 1..Len(stream) : t[k] = stream[k]
        /\ t[last] = m
    BY <1>1, <1>4 DEF BusTypeOK
  <2>2. last \in Nat /\ last <= Len(stream) + 1 /\ last <= last
    BY <1>2
  <2>3. m.subject = "decisions" /\ m.fp = fp /\ m.run = r /\ m.tag = v /\ ~m.acked
    BY DEF Msg
  <2> HIDE DEF t, last, m, fp, r, v
  <2>4. v # "rejected" => Holdable(stream, fp, r, last)
    BY <1>2, <1>3 DEF Holdable, r, v
  <2>5. v # "rejected" => Holdable(t, fp, r, last)
    BY <1>1, <2>1, <2>2, <2>4, BeforeGrows DEF BusTypeOK
  <2>6. v = "approved" => Grantable(t, fp, r, last)
    BY <1>2 DEF Grantable, r, v
  <2>7. SoundMsg(t, last)
    BY <2>1, <2>3, <2>5, <2>6 DEF SoundMsg
  <2> QED
    BY <2>7 DEF t, last, m, fp, r, v
<1> HIDE DEF m, last
<1>9. StreamSound' /\ ApprovingSound' /\ HoldsSound' /\ ProposingSound'
  <2>1. stream' = stream \/ \E mm \in Message :
                 Stored(mm) /\ SoundMsg(Append(stream, mm), Len(stream) + 1)
    BY <1>4, <1>5, <1>8 DEF last
  <2> QED
    BY <1>6, <1>7, <2>1, Kept
<1> QED
  BY <1>7, <1>9 DEF IInv

LEMMA IgnoreApprovalKeeps ==
    ASSUME IInv, NEW i, IgnoreApproval(i)
    PROVE  IInv'
<1>1. BusTypeOK /\ HissTypeOK
  BY DEF IInv, TypeOK
<1>2. i \in 1..Len(stream) /\ Delivered(i) \in [1..Len(stream) -> Standing]
      /\ Len(stream) \in Nat
  BY <1>1, DeliveredType DEF IgnoreApproval, Subject, BusTypeOK
<1>3. delivery' \in [1..Len(stream) -> Standing] /\ faults' \in 0..MaxFaults
  <2> DEFINE d == Delivered(i)
  <2>1. d \in [1..Len(stream) -> Standing] /\ Acked(i, d)
    BY <1>2 DEF IgnoreApproval
  <2> HIDE DEF d
  <2> QED
    BY <1>1, <1>2, <2>1, AckedType, Zenon DEF BusTypeOK
<1>4. UNCHANGED <<stream, hissVars>>
  BY DEF IgnoreApproval
<1>5. TypeOK'
  BY <1>1, <1>3, <1>4 DEF TypeOK, BusTypeOK, HissTypeOK, hissVars
<1>6. StreamSound' /\ ApprovingSound' /\ HoldsSound' /\ ProposingSound'
  BY <1>4, <1>5, Kept DEF hissVars
<1> QED
  BY <1>5, <1>6 DEF IInv

LEMMA TakeHoldKeeps ==
    ASSUME IInv, NEW i, TakeHold(i)
    PROVE  IInv'
<1> DEFINE fp == stream[i].fp
           r == holds[fp]
<1>1. BusTypeOK /\ HissTypeOK /\ TypeOK
  BY DEF IInv, TypeOK
<1>2. i \in 1..Len(stream) /\ Delivered(i) \in [1..Len(stream) -> Standing]
      /\ stream[i].subject = "approvals" /\ i \in Nat
  BY <1>1, DeliveredType DEF TakeHold, Subject, Deliverable, BusTypeOK
<1>3. fp \in Fingerprint
  BY <1>1, <1>2, InHand
<1>4. r \in Run \cup {NoRun} /\ r # NoRun
  BY <1>1, <1>3 DEF HissTypeOK, TakeHold
<1>5. Holdable(stream, fp, r, Len(stream) + 1)
  BY <1>3, <1>4 DEF IInv, HoldsSound
<1>6. BusTypeOK'
  BY <1>1, <1>2 DEF BusTypeOK, TakeHold
<1>7. /\ approving' \in Job
      /\ approving'.msg = i /\ approving'.run = r
  <2>1. approving' = [msg |-> i, run |-> r, verdict |-> "approved", step |-> "publish"]
    BY DEF TakeHold
  <2> HIDE DEF r
  <2> QED
    BY <1>2, <1>4, <2>1, JobType, Zenon DEF Verdict
<1>8. holds' = [holds EXCEPT ![fp] = NoRun]
  BY DEF TakeHold
<1>9. TypeOK'
  BY <1>1, <1>3, <1>6, <1>7, <1>8 DEF TypeOK, HissTypeOK, TakeHold
<1>10. stream' = stream /\ UNCHANGED proposing
  BY DEF TakeHold
<1>11. \A f \in Fingerprint : holds'[f] = holds[f] \/ holds'[f] = NoRun
  BY <1>1, <1>8 DEF HissTypeOK
<1>12. StreamSound' /\ HoldsSound' /\ ProposingSound'
  BY <1>9, <1>10, <1>11, Kept
<1>13. ApprovingSound'
  BY <1>2, <1>5, <1>7, <1>10 DEF ApprovingSound
<1> QED
  BY <1>9, <1>12, <1>13 DEF IInv

LEMMA PublishReissueKeeps ==
    ASSUME IInv, PublishReissue
    PROVE  IInv'
<1> DEFINE i == approving.msg
           r == approving.run
           fp == stream[i].fp
           m == Reissue(fp, r)
           last == Len(stream) + 1
<1>1. BusTypeOK /\ HissTypeOK /\ StreamSound /\ TypeOK /\ ApprovingSound
  BY DEF IInv, TypeOK
<1>2. /\ i \in 1..Len(stream) /\ Len(stream) \in Nat
      /\ stream[i].subject = "approvals"
      /\ Holdable(stream, fp, r, last)
  BY <1>1 DEF ApprovingSound, PublishReissue, BusTypeOK
<1>3. fp \in Fingerprint /\ r \in Run
  BY <1>1, <1>2, InHand DEF Holdable
<1>4. m \in Message
  BY <1>3 DEF Reissue, Message, Subject, Verdict
<1>5. BusTypeOK' /\ (stream' = stream \/ Stored(m))
  <2>1. PublishedThenReturned(i, m)
    BY DEF PublishReissue
  <2> HIDE DEF m, i
  <2> QED
    BY <1>1, <1>2, <1>4, <2>1, PublishedThenReturnedType
<1>6. UNCHANGED <<holds, proposing>> /\ approving' = Idle
  BY DEF PublishReissue
<1>7. TypeOK'
  BY <1>1, <1>5, IdleType DEF TypeOK, HissTypeOK, PublishReissue
<1>8. SoundMsg(Append(stream, m), last)
  <2> DEFINE t == Append(stream, m)
  <2>1. /\ t \in Seq(Message) /\ \A k \in 1..Len(stream) : t[k] = stream[k]
        /\ t[last] = m
    BY <1>1, <1>4 DEF BusTypeOK
  <2>2. last \in Nat /\ last <= Len(stream) + 1 /\ last <= last
        /\ i \in 1..(last - 1)
    BY <1>2
  <2>3. m.subject = "decisions" /\ m.fp = fp /\ m.run = r /\ m.acked
    BY DEF Reissue
  <2> HIDE DEF t, last, m, r
  <2>4. AckedBefore(stream, fp, last)
    BY <1>2, <2>2, Zenon DEF AckedBefore
  <2> HIDE DEF fp
  <2>5. Holdable(t, fp, r, last) /\ AckedBefore(t, fp, last)
    BY <1>1, <1>2, <2>1, <2>2, <2>4, BeforeGrows DEF BusTypeOK
  <2>6. SoundMsg(t, last)
    BY <2>1, <2>3, <2>5 DEF SoundMsg
  <2> QED
    BY <2>6 DEF t, last, m, fp, r
<1> HIDE DEF m, last
<1>9. StreamSound' /\ ApprovingSound' /\ HoldsSound' /\ ProposingSound'
  <2>1. stream' = stream \/ \E mm \in Message :
                 Stored(mm) /\ SoundMsg(Append(stream, mm), Len(stream) + 1)
    BY <1>4, <1>5, <1>8 DEF last
  <2> QED
    BY <1>6, <1>7, <2>1, Kept
<1> QED
  BY <1>7, <1>9 DEF IInv

\* An ack, or a proposal of a set, is sound wherever it is stored.
LEMMA InputSound ==
    ASSUME TypeOK, NEW fp \in Fingerprint, NEW r \in Run \cup {NoRun},
           NEW s \in {"approvals", "proposals"}, s = "proposals" => r \in Run
    PROVE  /\ Msg(s, fp, r, "none") \in Message
           /\ SoundMsg(Append(stream, Msg(s, fp, r, "none")), Len(stream) + 1)
<1> DEFINE m == Msg(s, fp, r, "none")
           t == Append(stream, m)
<1>1. m \in Message
  BY MsgType DEF Subject
<1>2. m.subject = s /\ m.run = r
  BY DEF Msg
<1> HIDE DEF m
<1>3. t[Len(stream) + 1] = m
  BY <1>1 DEF TypeOK, BusTypeOK
<1> HIDE DEF t
<1>4. SoundMsg(t, Len(stream) + 1)
  BY <1>2, <1>3 DEF SoundMsg
<1> QED
  BY <1>1, <1>4 DEF m, t

\* A step that stores a sound message and touches no hold and no handler's job.
LEMMA StoredKeeps ==
    ASSUME IInv, NEW m \in Message, SoundMsg(Append(stream, m), Len(stream) + 1),
           Stored(m), delivery' = Extended(delivery),
           faults' \in 0..MaxFaults, HissTypeOK',
           UNCHANGED <<holds, proposing, approving>>
    PROVE  IInv'
<1>1. TypeOK
  BY DEF IInv
<1>2. BusTypeOK'
  BY <1>1, PublishedType DEF TypeOK
<1>3. TypeOK'
  BY <1>2 DEF TypeOK
<1>4. \E mm \in Message : Stored(mm) /\ SoundMsg(Append(stream, mm), Len(stream) + 1)
  OBVIOUS
<1>5. StreamSound' /\ ApprovingSound' /\ HoldsSound' /\ ProposingSound'
  BY <1>3, <1>4, Kept
<1> QED
  BY <1>3, <1>5 DEF IInv

LEMMA InputKeeps ==
    ASSUME IInv, NEW fp \in Fingerprint, NEW r \in Run \cup {NoRun},
           NEW s \in {"approvals", "proposals"}, s = "proposals" => r \in Run,
           Stored(Msg(s, fp, r, "none")), delivery' = Extended(delivery),
           faults' \in 0..MaxFaults, HissTypeOK',
           UNCHANGED <<holds, proposing, approving>>
    PROVE  IInv'
<1> DEFINE m == Msg(s, fp, r, "none")
<1>1. m \in Message /\ SoundMsg(Append(stream, m), Len(stream) + 1) /\ Stored(m)
  BY InputSound DEF IInv
<1> HIDE DEF m
<1> QED
  BY <1>1, StoredKeeps

LEMMA ReconcileRequestKeeps ==
    ASSUME IInv, NEW fp \in Fingerprint, ReconcileRequest(fp)
    PROVE  IInv'
<1>1. BusTypeOK /\ HissTypeOK
  BY DEF IInv, TypeOK
<1>2. /\ Stored(Msg("approvals", fp, NoRun, "none"))
      /\ delivery' = Extended(delivery)
      /\ UNCHANGED <<holds, proposing, approving>>
  BY DEF ReconcileRequest, Published
<1>3. faults' \in 0..MaxFaults
  BY <1>1, FaultType DEF ReconcileRequest, Published, BusTypeOK
<1>4. HissTypeOK'
  BY <1>1 DEF HissTypeOK, ReconcileRequest
<1> QED
  BY <1>2, <1>3, <1>4, InputKeeps

LEMMA OperatorApproveKeeps ==
    ASSUME IInv, NEW fp \in Fingerprint, OperatorApprove(fp)
    PROVE  IInv'
<1>1. BusTypeOK /\ HissTypeOK
  BY DEF IInv, TypeOK
<1>2. /\ Stored(Msg("approvals", fp, NoRun, "none"))
      /\ delivery' = Extended(delivery)
      /\ UNCHANGED <<holds, proposing, approving>>
  BY DEF OperatorApprove, Published, hissVars
<1>3. faults' \in 0..MaxFaults
  BY <1>1 DEF OperatorApprove, Published, BusTypeOK
<1>4. HissTypeOK'
  BY <1>1 DEF HissTypeOK, OperatorApprove, hissVars
<1> QED
  BY <1>2, <1>3, <1>4, InputKeeps

LEMMA ProposeSetKeeps ==
    ASSUME IInv, NEW fp \in Fingerprint, NEW r \in Run, ProposeSet(fp, r)
    PROVE  IInv'
<1>1. BusTypeOK /\ HissTypeOK
  BY DEF IInv, TypeOK
<1>2. /\ Stored(Msg("proposals", fp, r, "none"))
      /\ delivery' = Extended(delivery)
      /\ UNCHANGED <<holds, proposing, approving>>
  BY DEF ProposeSet, Published, hissVars
<1>3. faults' \in 0..MaxFaults
  BY <1>1 DEF ProposeSet, Published, BusTypeOK
<1>4. HissTypeOK'
  BY <1>1 DEF HissTypeOK, ProposeSet, hissVars
<1> QED
  BY <1>2, <1>3, <1>4, InputKeeps

\* The controller's and the environment's steps that leave the stream alone.
LEMMA QuietKeeps ==
    ASSUME IInv, BusTypeOK', HissTypeOK', UNCHANGED <<stream, holds, proposing, approving>>
    PROVE  IInv'
<1>1. TypeOK'
  BY DEF TypeOK
<1>2. StreamSound' /\ ApprovingSound' /\ HoldsSound' /\ ProposingSound'
  BY <1>1, Kept
<1> QED
  BY <1>1, <1>2 DEF IInv

LEMMA MarkProcessedKeeps ==
    ASSUME IInv, NEW fp \in Fingerprint, MarkProcessed(fp)
    PROVE  IInv'
<1>1. BusTypeOK /\ HissTypeOK
  BY DEF IInv, TypeOK
<1>2. [requests EXCEPT ![fp].phase = "processed"] \in [Fingerprint -> Request]
  BY <1>1, RequestType, Zenon
<1>3. HissTypeOK'
  BY <1>1, <1>2 DEF HissTypeOK, MarkProcessed
<1>4. BusTypeOK'
  BY <1>1, FaultType DEF BusTypeOK, MarkProcessed
<1> QED
  BY <1>3, <1>4, QuietKeeps DEF MarkProcessed

LEMMA SweepRequestKeeps ==
    ASSUME IInv, NEW fp \in Fingerprint, SweepRequest(fp)
    PROVE  IInv'
<1>1. BusTypeOK /\ HissTypeOK
  BY DEF IInv, TypeOK
<1>2. [requests EXCEPT ![fp] = Absent] \in [Fingerprint -> Request]
  BY <1>1, RequestType, Zenon DEF Absent
<1>3. HissTypeOK'
  BY <1>1, <1>2 DEF HissTypeOK, SweepRequest
<1>4. BusTypeOK'
  BY <1>1 DEF BusTypeOK, SweepRequest, busVars
<1> QED
  BY <1>3, <1>4, QuietKeeps DEF SweepRequest, busVars

LEMMA PatchRequestKeeps ==
    ASSUME IInv, NEW fp \in Fingerprint, PatchRequest(fp)
    PROVE  IInv'
<1>1. BusTypeOK /\ HissTypeOK
  BY DEF IInv, TypeOK
<1>2. \A p \in {"decided", "unstamped"} :
          [requests EXCEPT ![fp].phase = p] \in [Fingerprint -> Request]
  BY <1>1, RequestType, Zenon
<1>3. HissTypeOK'
  BY <1>1, <1>2 DEF HissTypeOK, PatchRequest
<1>4. BusTypeOK'
  BY <1>1 DEF BusTypeOK, PatchRequest, busVars
<1> QED
  BY <1>3, <1>4, QuietKeeps DEF PatchRequest, busVars

\* What the record says is held: a set hiss had standing to hold, and on record
\* as held.
LEMMA RebuiltHoldable ==
    ASSUME IInv, NEW fp \in Fingerprint, Unresolved(fp) # {}
    PROVE  /\ Holdable(stream, fp, RebuiltHold(fp), Len(stream) + 1)
           /\ Grantable(stream, fp, RebuiltHold(fp), Len(stream) + 1)
<1> DEFINE i == CHOOSE i \in Unresolved(fp) : TRUE
           r == stream[i].run
           last == Len(stream) + 1
<1>1. StreamSound /\ Len(stream) \in Nat /\ stream \in Seq(Message)
  BY DEF IInv, TypeOK, BusTypeOK
<1>2. i \in Unresolved(fp) /\ RebuiltHold(fp) = r
  BY DEF RebuiltHold
<1> HIDE DEF i
<1>3. /\ i \in 1..Len(stream) /\ stream[i].subject = "decisions"
      /\ stream[i].fp = fp /\ stream[i].tag \in Awaits
  BY <1>1, <1>2 DEF Unresolved, On
<1>4. Holdable(stream, fp, r, i)
  BY <1>1, <1>3 DEF StreamSound, SoundMsg, Awaits
<1>5. i \in Nat /\ last \in Nat /\ i <= Len(stream) + 1 /\ i <= last
      /\ i \in 1..(last - 1) /\ stream[i].run = r
  BY <1>1, <1>3
<1> HIDE DEF r, last
<1>6. Holdable(stream, fp, r, last)
  BY <1>1, <1>4, <1>5, BeforeGrows
<1>7. Grantable(stream, fp, r, last)
  BY <1>3, <1>5, Zenon DEF Grantable
<1> QED
  BY <1>2, <1>6, <1>7 DEF r, last

LEMMA OperatorForceKeeps ==
    ASSUME IInv, NEW fp \in Fingerprint, OperatorForce(fp)
    PROVE  IInv'
<1> DEFINE r == RebuiltHold(fp)
           m == Msg("decisions", fp, r, "approved")
           last == Len(stream) + 1
           t == Append(stream, m)
<1>1. BusTypeOK /\ HissTypeOK /\ stream \in Seq(Message) /\ Len(stream) \in Nat
  BY DEF IInv, TypeOK, BusTypeOK
<1>2. Holdable(stream, fp, r, last) /\ Grantable(stream, fp, r, last)
  BY RebuiltHoldable DEF OperatorForce
<1>3. m \in Message
  <2>1. r \in Run
    BY <1>2 DEF Holdable
  <2> HIDE DEF r
  <2> QED
    BY <2>1, MsgType DEF Subject, Verdict
<1>4. m.subject = "decisions" /\ m.fp = fp /\ m.run = r /\ m.tag = "approved"
      /\ ~m.acked
  BY DEF Msg
<1>5. Stored(m) /\ delivery' = Extended(delivery) /\ UNCHANGED <<faults, hissVars>>
  BY DEF OperatorForce, Published
<1>6. HissTypeOK' /\ faults' \in 0..MaxFaults /\ UNCHANGED <<holds, proposing, approving>>
  BY <1>1, <1>5 DEF HissTypeOK, hissVars, BusTypeOK
<1> HIDE DEF m, r
<1>7. /\ t \in Seq(Message) /\ \A k \in 1..Len(stream) : t[k] = stream[k]
      /\ t[last] = m
      /\ last \in Nat /\ last <= Len(stream) + 1 /\ last <= last
  BY <1>1, <1>3
<1> HIDE DEF t, last
<1>8. Holdable(t, fp, r, last) /\ Grantable(t, fp, r, last)
  BY <1>1, <1>2, <1>7, BeforeGrows
<1>9. SoundMsg(t, last)
  BY <1>4, <1>7, <1>8 DEF SoundMsg
<1> QED
  BY <1>3, <1>5, <1>6, <1>9, StoredKeeps DEF t, last

\* What a restart holds again was held on the record.
LEMMA RestartHissKeeps ==
    ASSUME IInv, RestartHiss
    PROVE  IInv'
<1>1. BusTypeOK /\ HissTypeOK
  BY DEF IInv, TypeOK
<1>2. BusTypeOK'
  BY <1>1, FaultType, AbandonedType DEF RestartHiss, BusTypeOK
<1>3. ASSUME NEW fp \in Fingerprint, RebuiltHold(fp) # NoRun
      PROVE  Holdable(stream, fp, RebuiltHold(fp), Len(stream) + 1)
  BY <1>3, RebuiltHoldable DEF RebuiltHold
<1>4. /\ stream' = stream
      /\ holds' = [fp \in Fingerprint |-> RebuiltHold(fp)]
      /\ proposing' = Idle /\ approving' = Idle
  BY DEF RestartHiss
<1>5. \A fp \in Fingerprint : RebuiltHold(fp) \in Run \cup {NoRun}
  BY <1>3, Zenon DEF Holdable
<1>6. TypeOK'
  BY <1>1, <1>2, <1>4, <1>5, IdleType DEF TypeOK, HissTypeOK, RestartHiss
<1>7. HoldsSound'
  BY <1>3, <1>4 DEF HoldsSound
<1>8. StreamSound' /\ ApprovingSound' /\ ProposingSound'
  BY <1>4, <1>6, Kept
<1> QED
  BY <1>6, <1>7, <1>8 DEF IInv

LEMMA InitIInv == Init => IInv
<1> SUFFICES ASSUME Init PROVE IInv
  OBVIOUS
<1>1. BusTypeOK
  BY BusAssumption DEF Init, BusInit, BusTypeOK
<1>2. HissTypeOK
  BY IdleType, Zenon DEF Init, HissInit, HissTypeOK, Absent, Request
<1>3. StreamSound
  BY DEF Init, BusInit, StreamSound
<1>4. HoldsSound /\ ProposingSound /\ ApprovingSound
  BY DEF Init, HissInit, HoldsSound, ProposingSound, ApprovingSound, Idle
<1> QED
  BY <1>1, <1>2, <1>3, <1>4 DEF IInv, TypeOK

LEMMA NextIInv == IInv /\ [Next]_vars => IInv'
<1> SUFFICES ASSUME IInv, [Next]_vars PROVE IInv'
  OBVIOUS
<1>1. ASSUME NEW i \in DOMAIN stream,
             HandleProposal(i) \/ IgnoreApproval(i) \/ TakeHold(i)
      PROVE  IInv'
  BY <1>1, HandleProposalKeeps, IgnoreApprovalKeeps, TakeHoldKeeps
<1>2. CASE CreateRequest \/ PublishDecision \/ PublishReissue \/ RestartHiss
  BY <1>2, CreateRequestKeeps, PublishDecisionKeeps, PublishReissueKeeps,
     RestartHissKeeps
<1>3. ASSUME NEW fp \in Fingerprint,
             \/ ReconcileRequest(fp) \/ MarkProcessed(fp) \/ SweepRequest(fp)
             \/ PatchRequest(fp) \/ OperatorApprove(fp) \/ OperatorForce(fp)
      PROVE  IInv'
  BY <1>3, ReconcileRequestKeeps, MarkProcessedKeeps, SweepRequestKeeps,
     PatchRequestKeeps, OperatorApproveKeeps, OperatorForceKeeps
<1>4. ASSUME NEW fp \in Fingerprint, NEW r \in Run, ProposeSet(fp, r)
      PROVE  IInv'
  BY <1>4, ProposeSetKeeps
<1>5. CASE FreezeWindow
  <2>1. BusTypeOK' /\ HissTypeOK'
    BY <1>5 DEF IInv, TypeOK, BusTypeOK, HissTypeOK, FreezeWindow, busVars
  <2> QED
    BY <1>5, <2>1, QuietKeeps DEF FreezeWindow, busVars
<1>6. CASE UNCHANGED vars
  <2>1. BusTypeOK' /\ HissTypeOK'
    BY <1>6 DEF IInv, TypeOK, BusTypeOK, HissTypeOK, vars, busVars, hissVars
  <2> QED
    BY <1>6, <2>1, QuietKeeps DEF vars, busVars, hissVars
<1> QED
  BY <1>1, <1>2, <1>3, <1>4, <1>5, <1>6 DEF Next, HissStep

-----------------------------------------------------------------------------
\* Every variable of hiss and of the bus keeps its type (Transport,
\* PendingHolds, ApprovalRequestController, Subscriber).
THEOREM TypeCorrect == Spec => []TypeOK
<1>1. IInv => TypeOK
  BY DEF IInv
<1> QED
  BY <1>1, InitIInv, NextIInv, PTL DEF Spec

\* Every grant on thump.decisions is earned: it follows a proposal of that set
\* for its fingerprint and is never about a set Evaluate rejects outright; an
\* ack came before one that carries an approver, and any other was Evaluate's
\* to give or on record as held (handle, approveHandler, rebuildHolds).
THEOREM EveryGrantEarned == Spec => []GrantsEarned
<1>1. IInv => GrantsEarned
  <2> SUFFICES ASSUME IInv, NEW i \in Grants
               PROVE  /\ Holdable(stream, stream[i].fp, stream[i].run, i)
                      /\ stream[i].acked => AckedBefore(stream, stream[i].fp, i)
                      /\ ~stream[i].acked =>
                            Grantable(stream, stream[i].fp, stream[i].run, i)
    BY Zenon DEF GrantsEarned, AckedBefore, Holdable, ProposedBefore, Grantable
  <2>1. /\ i \in 1..Len(stream) /\ stream[i].subject = "decisions"
        /\ stream[i].tag = "approved"
    BY DEF Grants, IInv, TypeOK, BusTypeOK
  <2> QED
    BY <2>1 DEF IInv, StreamSound, SoundMsg
<1> QED
  BY <1>1, InitIInv, NextIInv, PTL DEF Spec

=============================================================================
