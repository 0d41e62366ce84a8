------------------------------ MODULE BusProofs ------------------------------
(***************************************************************************)
(* What every use of the bus preserves: its type, and the messages already *)
(* stored.  The beats' proofs cite these lemmas and never look inside a    *)
(* delivery.                                                               *)
(***************************************************************************)
EXTENDS Bus, TLAPS

\* A leaf that names no backend is tried with SMT, then with Zenon.
USE SMTT(40), ZenonT(30)

\* Storing a message extends the stream by that message and moves no other.
LEMMA StoredExtends ==
    ASSUME NEW m \in Message, stream \in Seq(Message), Stored(m)
    PROVE  /\ stream' \in Seq(Message)
           /\ Len(stream') = Len(stream) + 1
           /\ Len(stream) \in Nat
           /\ DOMAIN stream = 1..Len(stream)
           /\ DOMAIN stream' = 1..(Len(stream) + 1)
           /\ \A i \in 1..Len(stream) : stream'[i] = stream[i]
           /\ stream'[Len(stream) + 1] = m
BY DEF Stored

\* A message built from a subject's fields is a message.
LEMMA MsgType ==
    ASSUME NEW s \in Subject, NEW fp \in Fingerprint, NEW r \in Run \cup {NoRun},
           NEW t \in Verdict \cup Result \cup {"none"}
    PROVE  Msg(s, fp, r, t) \in Message
BY DEF Msg, Message

LEMMA ExtendedType ==
    ASSUME BusTypeOK
    PROVE  Extended(delivery) \in [1..(Len(stream) + 1) -> Standing]
<1>1. Fresh \in Standing
  BY BusAssumption DEF Fresh, Standing
<1>2. Len(stream) \in Nat
  BY DEF BusTypeOK
<1> QED
  BY <1>1, <1>2 DEF Extended, BusTypeOK

LEMMA DeliveredType ==
    ASSUME BusTypeOK, NEW s \in Subject, NEW i, Deliverable(s, i)
    PROVE  /\ i \in 1..Len(stream)
           /\ Delivered(i) \in [1..Len(stream) -> Standing]
<1>1. i \in 1..Len(stream)
  BY DEF BusTypeOK, Deliverable
<1>2. delivery[i] \in Standing /\ delivery[i].n < MaxDeliver
  BY <1>1 DEF BusTypeOK, Deliverable
<1>3. [state |-> "inflight", n |-> delivery[i].n + 1] \in Standing
  BY <1>2, BusAssumption DEF Standing
<1> QED
  BY <1>1, <1>3 DEF Delivered, BusTypeOK

\* Re-stating one delivery keeps the type.
LEMMA RestandType ==
    ASSUME NEW n \in Nat, NEW d \in [1..n -> Standing], NEW i \in 1..n,
           NEW s \in {"pending", "acked", "deadlettered", "dropped"}
    PROVE  [d EXCEPT ![i].state = s] \in [1..n -> Standing]
<1>1. [d[i] EXCEPT !.state = s] \in Standing
  BY DEF Standing
<1> QED
  BY <1>1

LEMMA AckedType ==
    ASSUME NEW n \in Nat, NEW d \in [1..n -> Standing], NEW i \in 1..n,
           faults \in 0..MaxFaults, Acked(i, d)
    PROVE  delivery' \in [1..n -> Standing] /\ faults' \in 0..MaxFaults
<1>1. /\ [d EXCEPT ![i].state = "acked"] \in [1..n -> Standing]
      /\ [d EXCEPT ![i].state = "pending"] \in [1..n -> Standing]
  BY RestandType, Zenon
<1>2. delivery' \in [1..n -> Standing]
  BY <1>1, Zenon DEF Acked
<1>3. faults' \in 0..MaxFaults
  BY BusAssumption DEF Acked, Fault
<1> QED
  BY <1>2, <1>3

LEMMA NakedType ==
    ASSUME NEW n \in Nat, NEW d \in [1..n -> Standing], NEW i \in 1..n, Naked(i, d)
    PROVE  delivery' \in [1..n -> Standing]
<1>1. \A s \in {"pending", "deadlettered", "dropped"} :
         [d EXCEPT ![i].state = s] \in [1..n -> Standing]
  BY RestandType, Zenon
<1> QED
  BY <1>1 DEF Naked

LEMMA FaultType ==
    ASSUME faults \in 0..MaxFaults, Fault
    PROVE  faults' \in 0..MaxFaults
BY BusAssumption DEF Fault

\* A handler's last publish keeps the type, and stores the message or nothing.
LEMMA PublishedThenReturnedType ==
    ASSUME BusTypeOK, NEW i \in 1..Len(stream), NEW m \in Message,
           PublishedThenReturned(i, m)
    PROVE  BusTypeOK' /\ (stream' = stream \/ Stored(m))
<1>0. Len(stream) \in Nat /\ stream \in Seq(Message)
      /\ delivery \in [1..Len(stream) -> Standing] /\ faults \in 0..MaxFaults
  BY DEF BusTypeOK
<1> DEFINE n == Len(stream) + 1
           d == Extended(delivery)
<1>1. n \in Nat /\ d \in [1..n -> Standing] /\ i \in 1..n
  BY <1>0, ExtendedType
<1>2. CASE Stored(m) /\ Acked(i, d)
  <2>1. delivery' \in [1..n -> Standing] /\ faults' \in 0..MaxFaults
    <3> HIDE DEF n, d
    <3> QED
      BY <1>0, <1>1, <1>2, AckedType
  <2> QED
    BY <1>0, <1>2, <2>1, StoredExtends DEF BusTypeOK
<1>3. CASE Fault /\ Stored(m) /\ Naked(i, d)
  <2>1. delivery' \in [1..n -> Standing]
    <3> HIDE DEF n, d
    <3> QED
      BY <1>1, <1>3, NakedType
  <2> QED
    BY <1>0, <1>3, <2>1, StoredExtends, FaultType DEF BusTypeOK
<1>4. CASE Fault /\ UNCHANGED stream /\ Naked(i, delivery)
  <2>1. delivery' \in [1..Len(stream) -> Standing]
    BY <1>0, <1>4, NakedType
  <2> QED
    BY <1>0, <1>4, <2>1, FaultType DEF BusTypeOK
<1> QED
  BY <1>2, <1>3, <1>4 DEF PublishedThenReturned

LEMMA PublishedType ==
    ASSUME BusTypeOK, NEW m \in Message, Stored(m), delivery' = Extended(delivery),
           faults' \in 0..MaxFaults
    PROVE  BusTypeOK'
BY StoredExtends, ExtendedType DEF BusTypeOK

LEMMA AbandonedType ==
    ASSUME BusTypeOK, NEW S, Abandoned(S), UNCHANGED stream, faults' \in 0..MaxFaults
    PROVE  BusTypeOK'
<1>1. \A i \in 1..Len(stream) : [delivery[i] EXCEPT !.state = "pending"] \in Standing
  BY DEF BusTypeOK, Standing
<1> QED
  BY <1>1 DEF BusTypeOK, Abandoned

\* A publish whose error is only logged stores the message or nothing.
LEMMA TriedPublishType ==
    ASSUME BusTypeOK, NEW m \in Message, TriedPublish(m)
    PROVE  BusTypeOK' /\ (stream' = stream \/ Stored(m))
<1>1. CASE Published(m)
  <2>1. Stored(m) /\ delivery' = Extended(delivery) /\ faults' \in 0..MaxFaults
    BY <1>1 DEF Published, BusTypeOK
  <2> QED
    BY <2>1, PublishedType
<1>2. CASE Fault /\ UNCHANGED <<stream, delivery>>
  BY <1>2, FaultType DEF BusTypeOK
<1> QED
  BY <1>1, <1>2 DEF TriedPublish
-----------------------------------------------------------------------------
\* How often a message was delivered is never forgotten: settling a delivery,
\* storing another message and losing the consumer all leave the counts alone.
LEMMA AckedCounts ==
    ASSUME NEW n \in Nat, NEW d \in [1..n -> Standing], NEW i \in 1..n, Acked(i, d)
    PROVE  \A k \in 1..n : delivery'[k].n = d[k].n
<1>1. d[i] \in Standing
  OBVIOUS
<1>2. \A s : [d[i] EXCEPT !.state = s].n = d[i].n
  BY <1>1 DEF Standing
<1>3. PICK s : delivery' = [d EXCEPT ![i].state = s]
  BY Zenon DEF Acked
<1>4. delivery' = [d EXCEPT ![i] = [d[i] EXCEPT !.state = s]]
  BY <1>3
<1>5. \A k \in 1..n : delivery'[k] = IF k = i THEN [d[i] EXCEPT !.state = s] ELSE d[k]
  BY <1>4
<1> QED
  BY <1>2, <1>5, Zenon

LEMMA NakedCounts ==
    ASSUME NEW n \in Nat, NEW d \in [1..n -> Standing], NEW i \in 1..n, Naked(i, d)
    PROVE  \A k \in 1..n : delivery'[k].n = d[k].n
<1>1. d[i] \in Standing
  OBVIOUS
<1>2. PICK s : delivery' = [d EXCEPT ![i].state = s]
  BY DEF Naked
<1>3. [d[i] EXCEPT !.state = s].n = d[i].n
  BY <1>1 DEF Standing
<1> QED
  BY <1>2, <1>3

LEMMA PublishedThenReturnedCounts ==
    ASSUME BusTypeOK, NEW i \in 1..Len(stream), NEW m, PublishedThenReturned(i, m)
    PROVE  \A k \in 1..Len(stream) : delivery'[k].n = delivery[k].n
<1>0. Len(stream) \in Nat /\ delivery \in [1..Len(stream) -> Standing]
  BY DEF BusTypeOK
<1> DEFINE n == Len(stream) + 1
           d == Extended(delivery)
<1>1. n \in Nat /\ d \in [1..n -> Standing] /\ i \in 1..n
  BY <1>0, ExtendedType
<1>2. \A k \in 1..Len(stream) : k \in 1..n /\ d[k] = delivery[k]
  BY <1>0 DEF Extended
<1>3. Acked(i, d) \/ Naked(i, d) \/ Naked(i, delivery)
  BY DEF PublishedThenReturned
<1> HIDE DEF n, d
<1>4. CASE Acked(i, d) \/ Naked(i, d)
  BY <1>1, <1>2, <1>4, AckedCounts, NakedCounts
<1>5. CASE Naked(i, delivery)
  BY <1>0, <1>5, NakedCounts
<1> QED
  BY <1>3, <1>4, <1>5

LEMMA TriedPublishCounts ==
    ASSUME BusTypeOK, NEW m, TriedPublish(m)
    PROVE  \A k \in 1..Len(stream) : delivery'[k].n = delivery[k].n
<1>1. Len(stream) \in Nat
  BY DEF BusTypeOK
<1> QED
  BY <1>1 DEF TriedPublish, Published, Extended

LEMMA AbandonedCounts ==
    ASSUME BusTypeOK, NEW S, Abandoned(S)
    PROVE  \A k \in 1..Len(stream) : delivery'[k].n = delivery[k].n
<1>1. \A k \in 1..Len(stream) : [delivery[k] EXCEPT !.state = "pending"].n = delivery[k].n
  BY DEF BusTypeOK, Standing
<1> QED
  BY <1>1 DEF Abandoned
=============================================================================
