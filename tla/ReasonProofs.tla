---------------------------- MODULE ReasonProofs ----------------------------
(***************************************************************************)
(* What a grant rests on, for any catalog, policies, evidence and model:   *)
(* the candidates of a set are scored within bounds, the gated one cites a *)
(* live coherent reading, and hiss approves nothing else.                  *)
(***************************************************************************)
EXTENDS Reason, FiniteSetTheorems, WellFoundedInduction, TLAPS

\* A leaf that names no backend is tried with SMT, then with Zenon.
USE SMTT(40), ZenonT(30)

-----------------------------------------------------------------------------
\* A reading is live only when a registered tool answered.
SoundReadings(readings) ==
    /\ \E S : readings \in Seq(S)
    /\ \A i \in DOMAIN readings : readings[i].live => readings[i].tool \in Tools

SoundCases(votes) == votes.votes \in Nat /\ votes.successes \in 0..votes.votes

\* The changes that fall into the topology can be scored.
SoundSnapshot(snapshot) ==
    /\ snapshot = [origin |-> Origin, signal |-> Signal, topology |-> snapshot.topology,
                   changes |-> snapshot.changes]
    /\ \A e \in snapshot.changes :
         findNode(snapshot.topology, e.target) # {} =>
            /\ temporalScore(e.age) \in Nat
            /\ topologicalScore(snapshot.topology, e.target) \in Nat

\* What one backend and the largest causal bonus can support.
OneBackend == Signal * 7 * 40 * 180

SoundCandidate(c, s) ==
    /\ \E k \in Catalog : k.name = c.ref /\ s.class \in k.classes /\ Tier \in k.tiers
    /\ c.self \in Nat /\ c.computed \in 0..Full
    /\ c.confidence = IF c.computed < c.self THEN c.computed ELSE c.self
    /\ \/ c.computed <= OneBackend
       \/ Cardinality(Backends(c.cites, s.evidence, s.sao)) >= 2

SoundSet(s) ==
    /\ s.phase \in {"none", "budget_exhausted", "no_action", "proposed"}
    /\ s.passed = (s.phase = "proposed")
    /\ \E n \in Nat : DOMAIN s.proposals = 1..n
    /\ \A i \in DOMAIN s.proposals : SoundCandidate(s.proposals[i], s)
    /\ s.passed => SoundReadings(s.evidence) /\ s.sao.origin = Origin
    /\ s.passed /\ 1 \in DOMAIN s.proposals =>
         /\ s.recommended = s.proposals[1].id
         /\ Backends(s.proposals[1].cites, s.evidence, s.sao) # {}

\* The run.  Nothing is out while the run that will publish next is under way.
Forming == {"intake", "ask", "call", "judge"}

RunInv ==
    /\ pc \in Forming \cup {"idle", "journal", "publish", "finish"}
    /\ step \in 0..MaxSteps /\ (pc = "call" => step < MaxSteps)
    /\ todo \in Seq(Calls) /\ (pc = "call" => todo # <<>>)
    /\ SoundReadings(evidence)
    /\ pc \in Forming \ {"intake"} => SoundSnapshot(sao)
    /\ answer.name \in {"none", "insufficient", "propose"}
    /\ answer.name = "propose" => answer \in Calls /\ answer.args # "undecodable"
    /\ open \in BOOLEAN
    /\ pc \in Forming => open = FALSE
    /\ pc \notin {"idle", "finish"} => sent = NoSet
    /\ pc \in {"journal", "publish"} => open = set.passed
    /\ pc = "publish" => set.passed = TRUE
    /\ sent # NoSet => open = TRUE

\* The ruling is of the set that is out.
RulingInv ==
    /\ sent = NoSet => decision = NoDecision
    /\ decision = NoDecision \/
         \E pol \in Policies, frozen \in BOOLEAN :
            LET d == EvaluateSet(sent, pol, frozen, Full)
            IN  decision = [verdict |-> d.verdict, reasons |-> d.reasons, policy |-> pol]

ReasonInv == RunInv /\ RulingInv /\ SoundSet(set) /\ SoundSet(sent) /\ SoundCases(cases)

-----------------------------------------------------------------------------
\* Confidence.

LEMMA TimesMonotone ==
    ASSUME NEW a \in Nat, NEW b \in Nat, NEW c \in Nat, NEW d \in Nat, a <= b, c <= d
    PROVE  a * c \in Nat /\ a * c <= b * d
<1>1. PICK x \in Nat : b = a + x
  <2>1. b - a \in Nat /\ b = a + (b - a)
    OBVIOUS
  <2> QED
    BY <2>1
<1>2. PICK y \in Nat : d = c + y
  <2>1. d - c \in Nat /\ d = c + (d - c)
    OBVIOUS
  <2> QED
    BY <2>1
<1>3. b * d = a * c + a * y + x * c + x * y
  BY <1>1, <1>2
<1>4. a * c \in Nat /\ a * y \in Nat /\ x * c \in Nat /\ x * y \in Nat
  OBVIOUS
<1> QED
  BY <1>3, <1>4

LEMMA AlignmentBounds ==
    ASSUME NEW votes, SoundCases(votes)
    PROVE  Alignment(votes).ok \in BOOLEAN /\ Alignment(votes).rate \in 0..20
<1>1. ASSUME votes.votes >= 2
      PROVE  (20 * votes.successes) \div votes.votes \in 0..20
  <2> DEFINE v == votes.votes
             s == votes.successes
  <2>1. v \in Nat /\ s \in Nat /\ s <= v /\ v > 0
    BY <1>1 DEF SoundCases
  <2> HIDE DEF v, s
  <2>2. (20 * s) \div v \in Int /\ v * ((20 * s) \div v) <= 20 * s /\ 20 * s < v * ((20 * s) \div v) + v
    BY <2>1
  <2> DEFINE q == (20 * s) \div v
  <2>3. q \in Int /\ v * q <= 20 * v /\ 0 < v * q + v
    BY <2>1, <2>2
  <2> HIDE DEF q
  <2>4. q <= 20 /\ q >= 0
    BY <2>1, <2>3
  <2> QED
    BY <2>3, <2>4 DEF q, v, s
<1>2. Alignment(votes).rate = IF votes.votes >= 2 THEN (20 * votes.successes) \div votes.votes ELSE 0
  BY DEF Alignment
<1>3. Alignment(votes).ok \in BOOLEAN
  BY DEF Alignment
<1> QED
  BY <1>1, <1>2, <1>3

\* Of a bounded set of numbers one is the largest.
LEMMA MaxBounds ==
    ASSUME NEW b \in Nat, NEW S \in SUBSET (0..b), S # {}
    PROVE  Max(S) \in 0..b
<1> DEFINE T == {b - x : x \in S}
<1>1. T \in SUBSET Nat /\ T # {}
  <2>1. \A x \in S : b - x \in Nat
    OBVIOUS
  <2> QED
    BY <2>1, Zenon
<1>2. \E m \in T : \A n \in T : m <= n
  <2> HIDE DEF T
  <2>1. PICK m \in T : \A n \in T : ~(<<n, m>> \in OpToRel(<, Nat))
    BY <1>1, NatLessThanWellFounded, WFMin, Zenon
  <2>2. \A n \in T : ~(n < m)
    BY <1>1, <2>1, Zenon DEF OpToRel
  <2>3. m \in T
    BY <2>1, Zenon
  <2> QED
    BY <1>1, <2>2, <2>3
<1>3. PICK x \in S : \A y \in S : b - x <= b - y
  BY <1>2, Zenon
<1>4. \A y \in S : x >= y
  BY <1>3
<1>5. Max(S) \in S
  BY <1>4, Zenon DEF Max
<1> QED
  BY <1>5, Zenon

\* scoreEvent, of an event in the topology.
LEMMA LikelihoodBounds ==
    ASSUME NEW e, NEW topo, NEW votes, SoundCases(votes),
           temporalScore(e.age) \in Nat, topologicalScore(topo, e.target) \in Nat
    PROVE  Likelihood(e, topo, votes) \in 0..60
<1>1. Alignment(votes).ok \in BOOLEAN /\ Alignment(votes).rate \in 0..20
  BY AlignmentBounds
<1> DEFINE sum == temporalScore(e.age) + topologicalScore(topo, e.target)
                    + (IF Alignment(votes).ok THEN Alignment(votes).rate ELSE 18)
<1>2. sum \in Nat
  BY <1>1
<1>3. Likelihood(e, topo, votes) = IF Degraded(topo, e.target) = {} /\ sum > 30 THEN 30 ELSE clampUnit(sum)
  BY DEF Likelihood
<1> HIDE DEF sum
<1> QED
  BY <1>2, <1>3 DEF clampUnit

LEMMA CausalBounds ==
    ASSUME NEW snapshot, SoundSnapshot(snapshot), NEW votes, SoundCases(votes)
    PROVE  Causal(snapshot, votes).ok \in BOOLEAN /\ Causal(snapshot, votes).max \in 0..60
<1> DEFINE placed == {e \in snapshot.changes : findNode(snapshot.topology, e.target) # {}}
           all == {Likelihood(e, snapshot.topology, votes) : e \in placed}
<1>1. all \in SUBSET (0..60)
  BY LikelihoodBounds DEF SoundSnapshot
<1>2. placed # {} => all # {}
  OBVIOUS
<1> HIDE DEF all
<1>3. all # {} => Max(all) \in 0..60
  BY <1>1, MaxBounds, Zenon
<1>4. /\ Causal(snapshot, votes).ok = (placed # {})
      /\ Causal(snapshot, votes).max = IF placed = {} THEN 0 ELSE Max(all)
  BY DEF Causal, all
<1> HIDE DEF placed
<1> QED
  BY <1>2, <1>3, <1>4

\* groundedConfidence stays within 1.0, within what one backend supports when
\* there is no second, and never below what it is without the causal term.
WithinBounds(signal, corroborated, prior, causal) ==
    LET got == groundedConfidence(signal, corroborated, prior, causal)
    IN  /\ got \in 0..Full
        /\ corroborated < 2 => got <= signal * 7 * 40 * 180

Raises(signal, corroborated, prior, causal) ==
    \A none : none.ok = FALSE =>
        groundedConfidence(signal, corroborated, prior, causal) >=
          groundedConfidence(signal, corroborated, prior, none)

LEMMA ConfidenceBounds ==
    ASSUME NEW signal \in 0..10, NEW corroborated \in Nat, NEW prior, NEW causal,
           prior.ok \in BOOLEAN, prior.rate \in 0..20,
           causal.ok \in BOOLEAN, causal.max \in 0..60
    PROVE  /\ WithinBounds(signal, corroborated, prior, causal)
           /\ Raises(signal, corroborated, prior, causal)
<1> DEFINE weight == groundingWeight(corroborated)
           factor == IF prior.ok THEN 20 + prior.rate ELSE 40
           bonus == 120 + causal.max
           base == signal * weight * factor
           raised == base * bonus
           plain == base * 120
<1>1. weight \in 0..10 /\ (corroborated < 2 => weight <= 7)
  BY DEF groundingWeight
<1>2. factor \in 0..40 /\ bonus \in 120..180
  OBVIOUS
<1>3. signal * weight \in Nat /\ signal * weight <= 100
  <2>1. signal * weight \in Nat /\ signal * weight <= 10 * 10
    BY <1>1, TimesMonotone
  <2> QED
    BY <2>1
<1>4. base \in Nat /\ base <= 4000
  <2> HIDE DEF weight, factor
  <2> DEFINE a == signal * weight
  <2>1. a \in Nat /\ a <= 100
    BY <1>3
  <2> HIDE DEF a
  <2>2. a * factor \in Nat /\ a * factor <= 100 * 40
    BY <1>2, <2>1, TimesMonotone
  <2> QED
    BY <2>2 DEF a
<1>5. corroborated < 2 => base <= signal * 7 * 40
  <2> HIDE DEF weight, factor
  <2>1. ASSUME corroborated < 2
        PROVE  base <= signal * 7 * 40
    <3> DEFINE a == signal * weight
               b == signal * 7
    <3>1. a \in Nat /\ a <= b
      BY <1>1, <2>1, TimesMonotone
    <3>2. b \in Nat
      OBVIOUS
    <3> HIDE DEF a, b
    <3>3. a * factor <= b * 40
      BY <1>2, <3>1, <3>2, TimesMonotone
    <3> QED
      BY <3>3 DEF a, b
  <2> QED
    BY <2>1
<1> HIDE DEF base
<1>6. plain \in Nat /\ plain <= Full
  BY <1>4 DEF Full
<1>7. raised \in Nat /\ plain <= raised
  <2>1. base * 120 <= base * bonus
    BY <1>2, <1>4, TimesMonotone
  <2>2. base * bonus \in Nat
    BY <1>2, <1>4, TimesMonotone
  <2> QED
    BY <2>1, <2>2
<1>8. corroborated < 2 => raised <= signal * 7 * 40 * 180 /\ plain <= signal * 7 * 40 * 180
  <2>1. ASSUME corroborated < 2
        PROVE  raised <= signal * 7 * 40 * 180 /\ plain <= signal * 7 * 40 * 180
    <3> DEFINE most == signal * 7 * 40
    <3>1. base <= most /\ most \in Nat
      BY <1>5, <2>1
    <3> HIDE DEF most, bonus
    <3>2. base * bonus <= most * 180
      BY <1>2, <1>4, <3>1, TimesMonotone
    <3>3. base * 120 <= most * 180
      BY <1>4, <3>1, TimesMonotone
    <3> QED
      BY <3>2, <3>3 DEF most
  <2> QED
    BY <2>1
<1> DEFINE got == groundedConfidence(signal, corroborated, prior, causal)
<1>9. got = IF causal.ok THEN (IF raised > Full THEN Full ELSE raised) ELSE plain
  BY DEF groundedConfidence, base
<1>10. ASSUME NEW none, none.ok = FALSE
       PROVE  groundedConfidence(signal, corroborated, prior, none) = plain
  BY <1>10 DEF groundedConfidence, base
<1>11. Full \in Nat /\ signal * 7 * 40 * 180 \in Nat
  BY DEF Full
<1> HIDE DEF raised, plain, got
<1>12. got \in 0..Full
  BY <1>6, <1>7, <1>9, <1>11
<1>13. corroborated < 2 => got <= signal * 7 * 40 * 180
  <2> DEFINE cap == signal * 7 * 40 * 180
  <2>1. cap \in Nat /\ (corroborated < 2 => raised <= cap /\ plain <= cap)
    BY <1>8, <1>11
  <2> HIDE DEF cap
  <2>2. corroborated < 2 => got <= cap
    BY <1>6, <1>7, <1>9, <1>11, <2>1
  <2> QED
    BY <2>2 DEF cap
<1>14. got >= plain
  BY <1>6, <1>7, <1>9, <1>11
<1>15. WithinBounds(signal, corroborated, prior, causal)
  BY <1>12, <1>13 DEF got, WithinBounds
<1>16. Raises(signal, corroborated, prior, causal)
  BY <1>10, <1>14, Zenon DEF got, Raises
<1> QED
  BY <1>15, <1>16

-----------------------------------------------------------------------------
\* The set.

\* The backends behind some of the readings are finitely many.
LEMMA FinitelyMany ==
    ASSUME NEW readings, SoundReadings(readings), NEW I \in SUBSET DOMAIN readings
    PROVE  IsFiniteSet({readings[i].tool : i \in I})
<1> DEFINE tools == {readings[i].tool : i \in I}
           toolOf == [i \in I |-> readings[i].tool]
<1>1. PICK S : readings \in Seq(S)
  BY DEF SoundReadings
<1>2. DOMAIN readings = 1..Len(readings) /\ Len(readings) \in Int
  BY <1>1
<1>3. IsFiniteSet(DOMAIN readings)
  BY <1>2, FS_Interval
<1>4. IsFiniteSet(I)
  BY <1>3, FS_Subset
<1>5. toolOf \in Surjection(I, tools)
  BY DEF Surjection
<1> HIDE DEF toolOf, tools
<1>6. IsFiniteSet(tools)
  BY <1>4, <1>5, FS_Surjection
<1> QED
  BY <1>6 DEF tools

LEMMA BackendsCounted ==
    ASSUME NEW readings, SoundReadings(readings), NEW cites, NEW snapshot
    PROVE  /\ IsFiniteSet(Backends(cites, readings, snapshot))
           /\ Cardinality(Backends(cites, readings, snapshot)) \in Nat
<1> DEFINE I == {j \in DOMAIN readings : readings[j].key \in cites /\ readings[j].live
                                           /\ coherentSubject(readings[j], snapshot)}
<1>1. Backends(cites, readings, snapshot) = {readings[i].tool : i \in I}
  BY DEF Backends
<1>2. I \in SUBSET DOMAIN readings
  OBVIOUS
<1> HIDE DEF I
<1>3. IsFiniteSet(Backends(cites, readings, snapshot))
  BY <1>1, <1>2, FinitelyMany
<1> QED
  BY <1>3, FS_CardinalityType

\* No candidate states a time to effect, so the stable sort leaves the
\* candidates as the model ordered them.
LEMMA RankKeepsOrder ==
    ASSUME NEW n \in Nat, NEW cands, cands = [i \in 1..n |-> cands[i]]
    PROVE  Rank(cands, Velocity) = cands
<1> DEFINE Before(j, i) == \/ timeToEffect(cands[j]) < timeToEffect(cands[i])
                           \/ timeToEffect(cands[j]) = timeToEffect(cands[i]) /\ j <= i
           Place(i) == Cardinality({j \in DOMAIN cands : Before(j, i)})
           pick(k) == CHOOSE i \in DOMAIN cands : Place(i) = k
<1>1. ASSUME NEW i \in 1..n
      PROVE  Place(i) = i
  <2>1. {j \in DOMAIN cands : Before(j, i)} = 1..i
    BY DEF timeToEffect
  <2>2. Cardinality(1..i) = i
    BY FS_Interval
  <2> QED
    BY <2>1, <2>2, Zenon
<1> HIDE DEF Place
<1>2. ASSUME NEW k \in 1..n
      PROVE  pick(k) = k
  BY <1>1
<1>3. Rank(cands, Velocity) = IF Velocity = "accelerating"
                              THEN [k \in DOMAIN cands |-> cands[pick(k)]] ELSE cands
  BY DEF Rank, Place
<1> HIDE DEF pick
<1> QED
  BY <1>2, <1>3

\* enrichFromCatalog and scoreConfidences, of each candidate.
LEMMA ScoredBounds ==
    ASSUME NEW n \in Nat, NEW proposals, DOMAIN proposals = 1..n,
           \A i \in 1..n : proposals[i].self \in Nat,
           SoundReadings(evidence), SoundSnapshot(sao), SoundCases(cases)
    PROVE  LET scored == Scored(Enriched(proposals, Catalog), evidence, sao, cases)
           IN  /\ scored = [i \in 1..n |-> scored[i]]
               /\ \A i \in 1..n :
                    LET c == scored[i]
                    IN  /\ c.ref = proposals[i].ref /\ c.self \in Nat
                        /\ c.computed \in 0..Full
                        /\ c.confidence = IF c.computed < c.self THEN c.computed ELSE c.self
                        /\ \/ c.computed <= OneBackend
                           \/ Cardinality(Backends(c.cites, evidence, sao)) >= 2
<1> DEFINE rich == Enriched(proposals, Catalog)
           scored == Scored(rich, evidence, sao, cases)
           prior == Alignment(cases)
           causal == Causal(sao, cases)
           counted(i) == Cardinality(Backends(rich[i].cites, evidence, sao))
<1>1. DOMAIN rich = 1..n /\ \A i \in 1..n : rich[i].ref = proposals[i].ref /\ rich[i].self = proposals[i].self
  BY Zenon DEF Enriched
<1> HIDE DEF rich
<1>2. prior.ok \in BOOLEAN /\ prior.rate \in 0..20 /\ causal.ok \in BOOLEAN /\ causal.max \in 0..60
  BY AlignmentBounds, CausalBounds, Zenon
<1>3. sao.signal = Signal /\ Signal \in 0..10
  BY ReasonAssumption DEF SoundSnapshot
<1>4. \A i \in 1..n : counted(i) \in Nat
  BY BackendsCounted
<1>5. /\ scored = [i \in 1..n |-> scored[i]]
      /\ \A i \in 1..n :
           /\ scored[i].ref = rich[i].ref /\ scored[i].self = rich[i].self /\ scored[i].cites = rich[i].cites
           /\ scored[i].computed = groundedConfidence(sao.signal, counted(i), prior, causal)
           /\ scored[i].confidence = IF scored[i].computed < scored[i].self
                                     THEN scored[i].computed ELSE scored[i].self
  BY <1>1, Zenon DEF Scored
<1> HIDE DEF prior, causal, counted, scored
<1>6. ASSUME NEW i \in 1..n
      PROVE  /\ scored[i].computed \in 0..Full
             /\ counted(i) < 2 => scored[i].computed <= OneBackend
  <2>1. sao.signal \in 0..10 /\ counted(i) \in Nat
    BY <1>3, <1>4
  <2>2. WithinBounds(sao.signal, counted(i), prior, causal)
    BY <1>2, <2>1, ConfidenceBounds
  <2> QED
    BY <1>3, <1>5, <2>2 DEF OneBackend, WithinBounds
<1>7. ASSUME NEW i \in 1..n
      PROVE  counted(i) = Cardinality(Backends(scored[i].cites, evidence, sao))
  BY <1>5 DEF counted
<1>8. ASSUME NEW i \in 1..n
      PROVE  \/ scored[i].computed <= OneBackend
             \/ Cardinality(Backends(scored[i].cites, evidence, sao)) >= 2
  BY <1>4, <1>6, <1>7
<1>9. \A i \in 1..n : scored[i].self \in Nat /\ scored[i].ref = proposals[i].ref
  BY <1>1, <1>5
<1> QED
  BY <1>5, <1>6, <1>8, <1>9, Zenon DEF scored, rich

\* What enforceCatalog let through is formed into a sound set, gated or not.
LEMMA FormedSound ==
    ASSUME answer \in Calls, answer.name = "propose", answer.args # "undecodable",
           InCatalog(answer.proposals, Catalog, answer.class, Tier),
           SoundReadings(evidence), SoundSnapshot(sao), SoundCases(cases)
    PROVE  SoundSet(Formed)
<1> DEFINE n == Len(answer.proposals)
           scored == Scored(Enriched(answer.proposals, Catalog), evidence, sao, cases)
           gated == Gate(scored, evidence, sao, open)
           formed == Formed
<1>1. n \in Nat /\ DOMAIN answer.proposals = 1..n /\ \A i \in 1..n : answer.proposals[i].self \in Nat
  BY ReasonAssumption
<1> HIDE DEF n
<1>2. /\ scored = [i \in 1..n |-> scored[i]]
      /\ \A i \in 1..n :
           /\ scored[i].ref = answer.proposals[i].ref /\ scored[i].self \in Nat
           /\ scored[i].computed \in 0..Full
           /\ scored[i].confidence = IF scored[i].computed < scored[i].self
                                     THEN scored[i].computed ELSE scored[i].self
           /\ \/ scored[i].computed <= OneBackend
              \/ Cardinality(Backends(scored[i].cites, evidence, sao)) >= 2
  BY <1>1, ScoredBounds, Zenon
<1> HIDE DEF scored
<1>3. Rank(scored, Velocity) = scored
  BY <1>1, <1>2, RankKeepsOrder
<1>4. /\ formed.phase = IF gated THEN "proposed" ELSE "no_action"
      /\ formed.passed = gated /\ formed.class = answer.class /\ formed.proposals = scored
      /\ formed.recommended = IF scored = <<>> THEN Unstated ELSE Head(scored).id
      /\ formed.evidence = evidence /\ formed.sao = sao
  BY <1>3, Zenon DEF Formed, scored
<1> HIDE DEF formed
<1>5. gated \in BOOLEAN /\ (gated => Backends(RecommendedCites(scored, evidence), evidence, sao) # {})
  BY DEF Gate
<1> HIDE DEF gated
<1>6. ASSUME 1 \in DOMAIN scored
      PROVE  scored # <<>> /\ Head(scored) = scored[1]
  <2>1. scored \in Seq({scored[i] : i \in 1..n}) /\ 1 \in 1..n
    BY <1>1, <1>2, <1>6
  <2> QED
    BY <1>6, <2>1
<1>7. \A i \in 1..n : \E k \in Catalog :
         k.name = scored[i].ref /\ answer.class \in k.classes /\ Tier \in k.tiers
  BY <1>1, <1>2 DEF InCatalog, Applicable, ApplicableToTier
<1>8. \A i \in DOMAIN formed.proposals : SoundCandidate(formed.proposals[i], formed)
  BY <1>2, <1>4, <1>7 DEF SoundCandidate
<1>9. formed.passed /\ 1 \in DOMAIN formed.proposals =>
         /\ formed.recommended = formed.proposals[1].id
         /\ Backends(formed.proposals[1].cites, formed.evidence, formed.sao) # {}
  BY <1>4, <1>5, <1>6, Zenon DEF RecommendedCites
<1>10. sao.origin = Origin
  BY DEF SoundSnapshot
<1>11. SoundSet(formed)
  BY <1>1, <1>2, <1>4, <1>5, <1>8, <1>9, <1>10, Zenon DEF SoundSet
<1> QED
  BY <1>11 DEF formed

\* A set with no candidate.
Empty(s) ==
    /\ s.phase \in {"none", "budget_exhausted", "no_action"}
    /\ s.passed = FALSE /\ s.proposals = <<>>

LEMMA EmptySound ==
    ASSUME NEW s, Empty(s)
    PROVE  SoundSet(s)
<1> USE DEF Empty
<1>1. DOMAIN s.proposals = 1..0 /\ 0 \in Nat /\ 1..0 = {}
  OBVIOUS
<1>2. \E n \in Nat : DOMAIN s.proposals = 1..n
  BY <1>1, Zenon
<1>3. s.passed = (s.phase = "proposed")
  BY Zenon
<1> QED
  BY <1>1, <1>2, <1>3, Zenon DEF SoundSet

LEMMA ClosedSound ==
    ASSUME NEW phase \in {"budget_exhausted", "no_action"}, NEW class
    PROVE  SoundSet(Closed(phase, class))
<1>1. Empty(Closed(phase, class))
  BY DEF Closed, Empty
<1> QED
  BY <1>1, EmptySound

LEMMA NoSetSound == SoundSet(NoSet)
<1>1. Empty(NoSet)
  BY DEF NoSet, Empty
<1> QED
  BY <1>1, EmptySound

-----------------------------------------------------------------------------
\* The tools.

\* A live reading names the tool that was called.
Honest(got, call) ==
    \E tool, key, live, subject :
        /\ got.ref = Ref(tool, key, live, subject)
        /\ live = TRUE => tool = call.name

LEMMA ToolsAreHonest ==
    ASSUME NEW call, NEW reply
    PROVE  /\ call.name = "metrics" => Honest(RunMetrics(Queries, call, reply), call)
           /\ Honest(RunLoki(Index, call, reply), call)
           /\ Honest(RunTraces(Index, call, reply), call)
           /\ Honest(RunKube(Index, call, reply), call)
<1>1. \A tool, key, live, subject :
        (live = TRUE => tool = call.name) => Honest(Read(Ref(tool, key, live, subject)), call)
  BY DEF Read, Honest
<1>2. Honest(Failed, call)
  BY Zenon DEF Failed, Honest
<1>3. Honest(Asked(Index, call, reply), call) /\ Honest(Unsent(Index, call), call)
  BY <1>1, Zenon DEF Asked, Unsent
<1> HIDE DEF Honest
<1>4. call.name = "metrics" => Honest(RunMetrics(Queries, call, reply), call)
  BY <1>1, <1>2, Zenon DEF RunMetrics
<1>5. Honest(RunLoki(Index, call, reply), call)
  BY <1>2, <1>3 DEF RunLoki
<1>6. Honest(RunTraces(Index, call, reply), call)
  BY <1>2, <1>3 DEF RunTraces
<1>7. Honest(RunKube(Index, call, reply), call)
  BY <1>2, <1>3 DEF RunKube
<1> QED
  BY <1>4, <1>5, <1>6, <1>7

LEMMA ReadingKept ==
    ASSUME SoundReadings(evidence), NEW got, NEW call, call.name \in Tools, Honest(got, call)
    PROVE  SoundReadings(Append(evidence, Keyed(got.ref, call.name)))
<1>1. PICK tool, key, live, subject :
         got.ref = Ref(tool, key, live, subject) /\ (live = TRUE => tool = call.name)
  BY DEF Honest
<1> DEFINE new == Keyed(got.ref, call.name)
<1>2. new.tool = tool /\ new.live = live
  BY <1>1 DEF Keyed, Ref
<1> HIDE DEF new
<1>3. PICK S : evidence \in Seq(S)
  BY DEF SoundReadings
<1>4. evidence \in Seq(S \cup {new})
  BY <1>3
<1> DEFINE more == Append(evidence, new)
<1>5. more \in Seq(S \cup {new})
  BY <1>4
<1>6. /\ DOMAIN more = 1..(Len(evidence) + 1) /\ more[Len(evidence) + 1] = new
      /\ DOMAIN evidence = 1..Len(evidence) /\ Len(evidence) \in Nat
      /\ \A i \in 1..Len(evidence) : more[i] = evidence[i]
  BY <1>4
<1> HIDE DEF more
<1>7. new.live => new.tool \in Tools
  BY <1>1, <1>2
<1>8. \A i \in DOMAIN more : more[i].live => more[i].tool \in Tools
  BY <1>6, <1>7 DEF SoundReadings
<1> QED
  BY <1>5, <1>8 DEF more, new, SoundReadings

-----------------------------------------------------------------------------
\* The run.

\* What is out, and the ruling on it, rests while a run forms its set.
LEMMA RestKeeps ==
    ASSUME ReasonInv, UNCHANGED restVars, UNCHANGED set
    PROVE  RulingInv' /\ SoundSet(set)' /\ SoundSet(sent)' /\ SoundCases(cases)'
<1>1. UNCHANGED <<open, sent, decision, cases, set>>
  BY DEF restVars
<1> QED
  BY <1>1 DEF ReasonInv, RulingInv

LEMMA TypedBounds ==
    /\ MaxSteps \in Nat /\ Lookback \in Nat
    /\ Completions \subseteq Seq(Calls)
BY ReasonAssumption

LEMMA AssembleKeeps ==
    ASSUME ReasonInv, Assemble
    PROVE  ReasonInv'
<1>1. PICK v \in Views :
         sao' = [origin |-> Origin, signal |-> Signal, topology |-> SnapshotTopology(v),
                 changes |-> KubeChanges(objects, Index, Lookback)
                               \cup ArgoChanges(Apps, Index, Lookback)]
  BY Zenon DEF Assemble
<1> DEFINE topo == SnapshotTopology(v)
           changed == KubeChanges(objects, Index, Lookback) \cup ArgoChanges(Apps, Index, Lookback)
           new == [origin |-> Origin, signal |-> Signal, topology |-> topo, changes |-> changed]
<1>2. ASSUME NEW e \in KubeChanges(objects, Index, Lookback)
      PROVE  e.age \in 0..Lookback
  BY DEF KubeChanges, Event
<1>3. ASSUME NEW e \in ArgoChanges(Apps, Index, Lookback)
      PROVE  \E app \in Apps : e.age = app.age
  BY DEF ArgoChanges, Event
<1>4. ASSUME NEW e \in changed
      PROVE  temporalScore(e.age) \in Nat
  BY <1>2, <1>3, ScoresAssumption
<1>5. ASSUME NEW name, findNode(topo, name) # {}
      PROVE  topologicalScore(topo, name) \in Nat
  <2>1. PICK n \in Topology(topo) : n.name = name
    BY <1>5 DEF findNode, Topology
  <2> QED
    BY <2>1, ScoresAssumption
<1>6. SoundSnapshot(new)
  <2> HIDE DEF topo, changed
  <2> QED
    BY <1>4, <1>5 DEF SoundSnapshot
<1>7. SoundSnapshot(sao')
  BY <1>1, <1>6
<1>8. UNCHANGED <<step, todo, evidence, answer, set, restVars>> /\ pc = "intake" /\ pc' = "ask"
  BY DEF Assemble
<1>9. RulingInv' /\ SoundSet(set)' /\ SoundSet(sent)' /\ SoundCases(cases)'
  BY <1>8, RestKeeps
<1>10. UNCHANGED <<open, sent>>
  BY <1>8 DEF restVars
<1>11. RunInv'
  BY <1>7, <1>8, <1>10 DEF ReasonInv, RunInv, Forming
<1> QED
  BY <1>9, <1>11 DEF ReasonInv

LEMMA TurnKeeps ==
    ASSUME ReasonInv, Begin \/ Complete \/ CallUnknown \/ CallTerminal
    PROVE  ReasonInv'
<1>1. UNCHANGED <<sao, evidence, set>> /\ UNCHANGED restVars
  BY DEF Begin, Complete, CallUnknown, CallTerminal
<1>2. RulingInv' /\ SoundSet(set)' /\ SoundSet(sent)' /\ SoundCases(cases)'
  BY <1>1, RestKeeps
<1>3. UNCHANGED <<open, sent>>
  BY <1>1 DEF restVars
<1>4. CASE Begin
  <2>1. UNCHANGED <<step, todo, answer>> /\ pc = "idle" /\ pc' = IF open THEN "idle" ELSE "intake"
    BY <1>4 DEF Begin
  <2>2. RunInv'
    BY <1>1, <1>3, <2>1 DEF ReasonInv, RunInv, Forming
  <2> QED
    BY <1>2, <2>2 DEF ReasonInv
<1>5. CASE Complete
  <2>1. PICK calls \in Completions :
           /\ todo' = calls
           /\ pc' = IF calls = <<>> THEN "judge" ELSE "call"
           /\ answer' = IF calls = <<>> THEN [name |-> "insufficient"] ELSE answer
    BY <1>5 DEF Complete
  <2>2. pc = "ask" /\ step < MaxSteps /\ UNCHANGED step
    BY <1>5 DEF Complete
  <2>3. todo' \in Seq(Calls)
    BY <2>1, TypedBounds
  <2>4. answer' = answer \/ answer'.name = "insufficient"
    BY <2>1
  <2>5. RunInv'
    BY <1>1, <1>3, <2>1, <2>2, <2>3, <2>4 DEF ReasonInv, RunInv, Forming
  <2> QED
    BY <1>2, <2>5 DEF ReasonInv
<1>6. CASE CallUnknown
  <2>1. pc = "call" /\ Continue(Tail(todo)) /\ UNCHANGED answer
    BY <1>6 DEF CallUnknown
  <2>2. Tail(todo) \in Seq(Calls) /\ step \in Nat /\ step < MaxSteps
    BY <2>1, TypedBounds DEF ReasonInv, RunInv
  <2>3. RunInv'
    BY <1>1, <1>3, <2>1, <2>2, TypedBounds DEF ReasonInv, RunInv, Forming, Continue
  <2> QED
    BY <1>2, <2>3 DEF ReasonInv
<1>7. CASE CallTerminal
  <2>1. /\ pc = "call" /\ UNCHANGED <<step, todo>>
        /\ \/ pc' = "finish" /\ UNCHANGED answer
           \/ /\ pc' = "judge" /\ answer' = Head(todo) /\ answer'.args # "undecodable"
              /\ answer'.name \in {"propose", "insufficient"}
    BY <1>7 DEF CallTerminal, Return
  <2>2. Head(todo) \in Calls
    BY <2>1 DEF ReasonInv, RunInv
  <2>3. RunInv'
    BY <1>1, <1>3, <2>1, <2>2 DEF ReasonInv, RunInv, Forming
  <2> QED
    BY <1>2, <2>3 DEF ReasonInv
<1> QED
  BY <1>4, <1>5, <1>6, <1>7

LEMMA ToolKeeps ==
    ASSUME ReasonInv, CallTool
    PROVE  ReasonInv'
<1>1. UNCHANGED <<sao, answer, set>> /\ UNCHANGED restVars /\ pc = "call" /\ Head(todo).name \in Tools
  BY DEF CallTool
<1>2. RulingInv' /\ SoundSet(set)' /\ SoundSet(sent)' /\ SoundCases(cases)'
  BY <1>1, RestKeeps
<1>3. UNCHANGED <<open, sent>>
  BY <1>1 DEF restVars
<1> DEFINE call == Head(todo)
           got(reply) == CASE call.name = "metrics" -> RunMetrics(Queries, call, reply)
                           [] call.name = "loki" -> RunLoki(Index, call, reply)
                           [] call.name = "traces" -> RunTraces(Index, call, reply)
                           [] call.name = "kube" -> RunKube(Index, call, reply)
<1>4. PICK reply \in Reply :
        IF got(reply).err # Unstated
        THEN Return /\ UNCHANGED <<step, todo, evidence>>
        ELSE /\ evidence' = Append(evidence, Keyed(got(reply).ref, call.name))
             /\ Continue(Tail(todo))
  BY Zenon DEF CallTool
<1>5. Honest(got(reply), call)
  <2>1. call.name \in {"metrics", "loki", "traces", "kube"}
    BY <1>1, ReasonAssumption, Zenon
  <2> QED
    BY <2>1, ToolsAreHonest
<1> HIDE DEF got
<1>6. CASE got(reply).err # Unstated
  <2>1. pc' = "finish" /\ UNCHANGED <<step, todo, evidence>>
    BY <1>4, <1>6 DEF Return
  <2>2. RunInv'
    BY <1>1, <1>3, <2>1 DEF ReasonInv, RunInv, Forming
  <2> QED
    BY <1>2, <2>2 DEF ReasonInv
<1>7. CASE got(reply).err = Unstated
  <2>1. evidence' = Append(evidence, Keyed(got(reply).ref, call.name)) /\ Continue(Tail(todo))
    BY <1>4, <1>7
  <2>2. SoundReadings(evidence')
    BY <1>1, <1>5, <2>1, ReadingKept, Zenon DEF ReasonInv, RunInv
  <2>3. Tail(todo) \in Seq(Calls) /\ step \in Nat /\ step < MaxSteps
    BY <1>1, TypedBounds DEF ReasonInv, RunInv
  <2>4. RunInv'
    BY <1>1, <1>3, <2>1, <2>2, <2>3, TypedBounds DEF ReasonInv, RunInv, Forming, Continue
  <2> QED
    BY <1>2, <2>4 DEF ReasonInv
<1> QED
  BY <1>6, <1>7

LEMMA JudgeKeeps ==
    ASSUME ReasonInv, Judge
    PROVE  ReasonInv'
<1>1. /\ pc \in {"judge", "ask"} /\ pc' = "journal"
      /\ UNCHANGED <<step, todo, sao, evidence, answer, sent, decision, cases>>
      /\ open' = (open \/ set'.phase = "proposed")
  BY DEF Judge
<1> DEFINE refused == \/ ~InCatalog(answer.proposals, Catalog, answer.class, Tier)
                      \/ ~Cited(answer.proposals, evidence)
<1>2. set' = CASE answer.name = "none" -> Closed("budget_exhausted", Unstated)
               [] answer.name = "insufficient" -> Closed("no_action", Unstated)
               [] refused -> Closed("no_action", answer.class)
               [] OTHER -> Formed
  BY DEF Judge
<1> HIDE DEF refused
<1>3. \/ \E class : \E phase \in {"budget_exhausted", "no_action"} : set' = Closed(phase, class)
      \/ set' = Formed /\ ~refused /\ answer.name \notin {"none", "insufficient"}
  BY <1>2
<1>4. answer.name \in {"none", "insufficient", "propose"}
  BY DEF ReasonInv, RunInv
<1>5. SoundSet(set')
  <2>1. ASSUME set' = Formed, ~refused, answer.name \notin {"none", "insufficient"}
        PROVE  SoundSet(set')
    <3>1. answer.name = "propose" /\ InCatalog(answer.proposals, Catalog, answer.class, Tier)
      BY <1>4, <2>1 DEF refused
    <3>2. SoundSet(Formed)
      BY <1>1, <3>1, FormedSound DEF ReasonInv, RunInv, Forming
    <3> QED
      BY <2>1, <3>2
  <2> QED
    BY <1>3, <2>1, ClosedSound
<1>6. open = FALSE /\ sent = NoSet
  BY <1>1 DEF ReasonInv, RunInv, Forming
<1>7. open' = set'.passed /\ open' \in BOOLEAN
  BY <1>1, <1>5, <1>6, Zenon DEF SoundSet
<1>8. RunInv'
  BY <1>1, <1>6, <1>7 DEF ReasonInv, RunInv, Forming
<1>9. RulingInv' /\ SoundSet(sent)' /\ SoundCases(cases)'
  BY <1>1 DEF ReasonInv, RulingInv
<1> QED
  BY <1>5, <1>8, <1>9 DEF ReasonInv

LEMMA DeliverKeeps ==
    ASSUME ReasonInv, Journal \/ Publish \/ CallFails
    PROVE  ReasonInv'
<1>1. UNCHANGED <<step, todo, sao, evidence, answer, set, open, cases>>
  BY DEF Journal, Publish, CallFails
<1>2. pc \notin {"idle", "finish"} /\ sent = NoSet /\ decision = NoDecision
  BY Zenon DEF Journal, Publish, CallFails, ReasonInv, RunInv, RulingInv
<1>3. \/ /\ pc = "journal" /\ UNCHANGED <<sent, decision>>
         /\ pc' = IF set.passed THEN "publish" ELSE "finish"
      \/ pc = "publish" /\ sent' = set /\ decision' = NoDecision /\ pc' = "finish"
      \/ pc' = "finish" /\ UNCHANGED <<sent, decision>>
  BY <1>2 DEF Journal, Publish, CallFails, Return
<1>4. pc = "publish" => open = TRUE
  BY DEF ReasonInv, RunInv
<1>5. set.passed \in BOOLEAN
  BY Zenon DEF ReasonInv, SoundSet
<1>6. RunInv'
  BY <1>1, <1>2, <1>3, <1>4, <1>5 DEF ReasonInv, RunInv, Forming
<1>7. SoundSet(set)' /\ SoundSet(sent)' /\ SoundCases(cases)'
  BY <1>1, <1>3 DEF ReasonInv
<1>8. RulingInv'
  BY <1>2, <1>3 DEF RulingInv
<1> QED
  BY <1>6, <1>7, <1>8 DEF ReasonInv

LEMMA OverKeeps ==
    ASSUME ReasonInv, Finish \/ Crash
    PROVE  ReasonInv'
<1>1. Cleared /\ UNCHANGED <<sent, decision, cases>> /\ open' \in {open, sent # NoSet}
  BY DEF Finish, Crash, restVars
<1>2. /\ pc' = "idle" /\ step' = 0 /\ todo' = <<>> /\ evidence' = <<>> /\ answer'.name = "none"
      /\ set' = NoSet
  BY <1>1 DEF Cleared, NoAnswer
<1>3. SoundReadings(evidence')
  <2>1. <<>> \in Seq({})
    OBVIOUS
  <2> QED
    BY <1>2, <2>1 DEF SoundReadings
<1>4. open' \in BOOLEAN /\ (sent # NoSet => open' = TRUE)
  BY <1>1, Zenon DEF ReasonInv, RunInv
<1>5. RunInv'
  BY <1>1, <1>2, <1>3, <1>4, TypedBounds DEF RunInv, Forming
<1>6. RulingInv' /\ SoundSet(sent)' /\ SoundCases(cases)'
  BY <1>1 DEF ReasonInv, RulingInv
<1> QED
  BY <1>2, <1>5, <1>6, NoSetSound DEF ReasonInv

LEMMA AnswerKeeps ==
    ASSUME ReasonInv, Govern \/ Settle
    PROVE  ReasonInv'
<1>1. UNCHANGED <<pc, step, todo, sao, evidence, answer, set>>
  BY DEF Govern, Settle, clankVars
<1>2. CASE Govern
  <2>1. UNCHANGED <<open, sent, cases>> /\ sent # NoSet
    BY <1>2 DEF Govern
  <2>2. RulingInv'
    BY <1>2, <2>1, Zenon DEF Govern, RulingInv
  <2>3. RunInv'
    BY <1>1, <2>1, Zenon DEF ReasonInv, RunInv
  <2> QED
    BY <1>1, <2>1, <2>2, <2>3 DEF ReasonInv
<1>3. CASE Settle
  <2>1. open' = FALSE /\ sent' = NoSet /\ decision' = NoDecision /\ decision # NoDecision
    BY <1>3 DEF Settle
  <2>2. pc \in {"idle", "finish"}
    BY <2>1 DEF ReasonInv, RunInv, RulingInv
  <2>3. SoundCases(cases')
    <3>1. \/ UNCHANGED cases
          \/ \E won \in {0, 1} : cases' = [votes |-> cases.votes + 1, successes |-> cases.successes + won]
      BY <1>3 DEF Settle
    <3> QED
      BY <3>1 DEF ReasonInv, SoundCases
  <2>4. RunInv'
    BY <1>1, <2>1, <2>2, Zenon DEF ReasonInv, RunInv, Forming
  <2>5. RulingInv'
    BY <2>1 DEF RulingInv
  <2> QED
    BY <1>1, <2>1, <2>3, <2>4, <2>5, NoSetSound DEF ReasonInv
<1> QED
  BY <1>2, <1>3

LEMMA InitSound ==
    ASSUME Init
    PROVE  ReasonInv
<1>1. /\ pc = "idle" /\ step = 0 /\ todo = <<>> /\ evidence = <<>> /\ answer.name = "none"
      /\ set = NoSet /\ sent = NoSet /\ decision = NoDecision /\ open = FALSE /\ cases = Cases
  BY DEF Init, NoAnswer
<1>2. SoundReadings(evidence)
  <2>1. <<>> \in Seq({})
    OBVIOUS
  <2> QED
    BY <1>1, <2>1 DEF SoundReadings
<1>3. RunInv
  <2>1. todo \in Seq(Calls) /\ step \in 0..MaxSteps
    BY <1>1, TypedBounds
  <2> QED
    BY <1>1, <1>2, <2>1, Zenon DEF RunInv, Forming
<1>4. RulingInv /\ SoundCases(cases)
  BY <1>1, ReasonAssumption, Zenon DEF RulingInv, SoundCases
<1> QED
  BY <1>1, <1>3, <1>4, NoSetSound DEF ReasonInv

LEMMA NextKeeps ==
    ASSUME ReasonInv, [Next]_vars
    PROVE  ReasonInv'
<1>1. CASE Next
  BY <1>1, AssembleKeeps, TurnKeeps, ToolKeeps, JudgeKeeps, DeliverKeeps, OverKeeps, AnswerKeeps
     DEF Next, Propose
<1>2. CASE UNCHANGED vars
  <2>1. UNCHANGED <<pc, step, todo, sao, evidence, answer, set, open, sent, decision, cases>>
    BY <1>2 DEF vars
  <2> QED
    BY <2>1, Zenon DEF ReasonInv, RunInv, RulingInv
<1> QED
  BY <1>1, <1>2

-----------------------------------------------------------------------------
\* The ruling.

\* The candidate hiss rules on is the one the gate looked at.
LEMMA FirstIsRecommended ==
    ASSUME NEW s, SoundSet(s), s.passed, Recommends(s) # {}
    PROVE  1 \in DOMAIN s.proposals /\ (CHOOSE i \in Recommends(s) : TRUE) = 1
<1>1. PICK n \in Nat : DOMAIN s.proposals = 1..n
  BY Zenon DEF SoundSet
<1>2. 1 \in DOMAIN s.proposals
  BY <1>1 DEF Recommends
<1>3. s.recommended = s.proposals[1].id
  BY <1>2, Zenon DEF SoundSet
<1>4. Recommends(s) = {1}
  <2>1. 1 \in Recommends(s)
    BY <1>2, <1>3 DEF Recommends
  <2>2. ASSUME NEW i \in Recommends(s)
        PROVE  i = 1
    <3>1. i \in 1..n /\ \A j \in 1..(i - 1) : s.proposals[j].id # s.recommended
      BY <1>1 DEF Recommends
    <3>2. 1 \notin 1..(i - 1)
      BY <1>3, <3>1
    <3> QED
      BY <3>1, <3>2
  <2> QED
    BY <2>1, <2>2
<1>5. (CHOOSE i \in {1} : TRUE) = 1
  OBVIOUS
<1> QED
  BY <1>2, <1>4, <1>5

\* Authority.Evaluate, once the candidate is known.
LEMMA EvaluateCases ==
    ASSUME NEW s, NEW pol, NEW frozen \in BOOLEAN
    PROVE  LET c == s.proposals[CHOOSE i \in Recommends(s) : TRUE]
               d == EvaluateSet(s, pol, frozen, Full)
           IN  /\ d.verdict \in {"rejected", "escalate", "hold", "approved"}
               /\ d.verdict = "approved" =>
                    s.passed /\ Recommends(s) # {} /\ Vetoes(s, c, pol, frozen, Full) = {}
<1> DEFINE c == s.proposals[CHOOSE i \in Recommends(s) : TRUE]
           vetoes == Vetoes(s, c, pol, frozen, Full)
           risky == bandRank(RiskBand(c.reversal, c.blast)) > bandRank(pol.autoBand)
           d == EvaluateSet(s, pol, frozen, Full)
           ruling == CASE vetoes # {} -> Decision("escalate", vetoes)
                       [] risky -> Decision("hold", {"risk_ceiling"})
                       [] OTHER -> Decision("approved", {})
<1>1. d = IF ~s.passed \/ Recommends(s) = {} THEN Decision("rejected", {"ungated_input"}) ELSE ruling
  BY Zenon DEF EvaluateSet
<1>2. \/ ruling = Decision("escalate", vetoes)
      \/ ruling = Decision("hold", {"risk_ceiling"})
      \/ ruling = Decision("approved", {}) /\ vetoes = {}
  <2> HIDE DEF vetoes, risky
  <2> QED
    OBVIOUS
<1> HIDE DEF ruling, vetoes, d
<1>3. \/ d = Decision("rejected", {"ungated_input"})
      \/ /\ s.passed /\ Recommends(s) # {}
         /\ \/ d = Decision("escalate", vetoes)
            \/ d = Decision("hold", {"risk_ceiling"})
            \/ d = Decision("approved", {}) /\ vetoes = {}
  BY <1>1, <1>2, Zenon
<1>4. /\ Decision("rejected", {"ungated_input"}).verdict = "rejected"
      /\ Decision("escalate", vetoes).verdict = "escalate"
      /\ Decision("hold", {"risk_ceiling"}).verdict = "hold"
      /\ Decision("approved", {}).verdict = "approved"
  BY DEF Decision
<1>5. /\ d.verdict \in {"rejected", "escalate", "hold", "approved"}
      /\ d.verdict = "approved" => s.passed /\ Recommends(s) # {} /\ vetoes = {}
  BY <1>3, <1>4
<1> QED
  BY <1>5 DEF d, vetoes

LEMMA FloorsCount ==
    ASSUME NEW pol \in Policies, NEW class
    PROVE  FloorFor(pol, class, Full) \in Nat
<1>1. ASSUME class \in DOMAIN pol.floors
      PROVE  (pol.floors[class] * Full) \div 10 \in Nat
  <2> DEFINE f == pol.floors[class]
  <2>1. f \in Nat
    BY <1>1, ReasonAssumption
  <2> HIDE DEF f
  <2>2. f * Full \in Nat
    BY <2>1 DEF Full
  <2> DEFINE g == f * Full
  <2> HIDE DEF g
  <2>3. g \div 10 \in Nat
    BY <2>2 DEF g
  <2> QED
    BY <2>3 DEF f, g
<1> QED
  BY <1>1 DEF FloorFor

\* What no veto says of the candidate's confidence.
LEMMA UnvetoedFloors ==
    ASSUME NEW s, NEW c, NEW pol \in Policies, NEW frozen \in BOOLEAN,
           SoundCandidate(c, s), Vetoes(s, c, pol, frozen, Full) = {}
    PROVE  /\ pol.gate # "split" => c.confidence >= FloorFor(pol, s.class, Full)
           /\ c.computed >= FloorFor(pol, s.class, Full)
           /\ c.confidence <= c.self
<1> DEFINE floor == FloorFor(pol, s.class, Full)
           split == pol.gate = "split"
<1>1. floor \in Nat /\ Full \in Nat
  BY FloorsCount DEF Full
<1>2. /\ c.self \in Nat /\ c.computed \in Nat
      /\ c.confidence = IF c.computed < c.self THEN c.computed ELSE c.self
  <2>1. /\ c.self \in Nat /\ c.computed \in 0..Full
        /\ c.confidence = IF c.computed < c.self THEN c.computed ELSE c.self
    BY Zenon DEF SoundCandidate
  <2>2. c.computed \in Nat
    BY <1>1, <2>1
  <2> QED
    BY <2>1, <2>2, Zenon
<1>3. "grounding_floor" \notin Vetoes(s, c, pol, frozen, Full)
  OBVIOUS
<1>4. "confidence_floor" \notin Vetoes(s, c, pol, frozen, Full)
  OBVIOUS
<1>5. ~(split /\ effectiveComputedConfidence(c) < floor)
  BY <1>3 DEF Vetoes
<1>6. ~((split => selfReportBinds(c)) /\ c.confidence < floor)
  BY <1>4 DEF Vetoes
<1> HIDE DEF floor
<1>7. c.confidence \in Nat /\ c.confidence <= c.self /\ c.confidence <= c.computed
  BY <1>2
<1>8. ~split => c.confidence >= floor
  BY <1>1, <1>6, <1>7
<1>9. split => c.computed >= floor
  <2>1. effectiveComputedConfidence(c) \in Nat /\ effectiveComputedConfidence(c) <= c.computed
    BY <1>2, <1>7 DEF effectiveComputedConfidence
  <2> QED
    BY <1>1, <1>2, <1>5, <2>1
<1>10. c.computed >= floor
  BY <1>1, <1>2, <1>7, <1>8, <1>9
<1> QED
  BY <1>7, <1>8, <1>10 DEF floor

-----------------------------------------------------------------------------
\* The run, its set and the ruling on it are sound in every reachable state
\* (Engine.Propose, ReadinessGate.Evaluate, Authority.Evaluate).
THEOREM ReasonIsSound == Spec => []ReasonInv
BY InitSound, NextKeeps, PTL DEF Spec

\* Type correctness of the loop and of what it hands on (Engine.Propose): the
\* turns stay within MaxSteps and every computed confidence within 1.0, for
\* any catalog, weights of the case base and answers of the tools.
THEOREM TypeCorrect == Spec => []TypeOK
<1>1. ASSUME ReasonInv
      PROVE  TypeOK
  <2>1. NoDecision.verdict = "none"
    BY DEF NoDecision
  <2>2. decision.verdict \in {"none", "rejected", "escalate", "hold", "approved"}
    <3>1. CASE decision = NoDecision
      BY <2>1, <3>1
    <3>2. ASSUME decision # NoDecision
          PROVE  decision.verdict \in {"rejected", "escalate", "hold", "approved"}
      <4>1. PICK pol \in Policies, frozen \in BOOLEAN :
               decision.verdict = EvaluateSet(sent, pol, frozen, Full).verdict
        BY <1>1, <3>2 DEF ReasonInv, RulingInv
      <4> QED
        BY <4>1, EvaluateCases
    <3> QED
      BY <3>1, <3>2
  <2>3. set.phase \in {"none", "budget_exhausted", "no_action", "proposed"}
    BY <1>1, Zenon DEF ReasonInv, SoundSet
  <2>4. \A i \in DOMAIN set.proposals : set.proposals[i].computed \in 0..Full
    BY <1>1, Zenon DEF ReasonInv, SoundSet, SoundCandidate
  <2> QED
    BY <1>1, <2>2, <2>3, <2>4 DEF TypeOK, ReasonInv, RunInv, Forming
<1> QED
  BY <1>1, ReasonIsSound, PTL

\* The backends ApprovedIsGrounded counts hold those the gate counted.
ReadFrom(cites, s) ==
    {s.evidence[i].tool : i \in {j \in DOMAIN s.evidence :
        /\ s.evidence[j].key \in cites
        /\ s.evidence[j].live
        /\ s.evidence[j].subject \in {Origin} \cup {n.name : n \in Topology(s.sao.topology)}}}

LEMMA BackendsAreRead ==
    ASSUME NEW s, SoundSet(s), s.passed, NEW cites
    PROVE  /\ Backends(cites, s.evidence, s.sao) \subseteq ReadFrom(cites, s)
           /\ ReadFrom(cites, s) \subseteq Tools
           /\ IsFiniteSet(ReadFrom(cites, s)) /\ Cardinality(ReadFrom(cites, s)) \in Nat
<1> DEFINE near == {Origin} \cup {n.name : n \in Topology(s.sao.topology)}
           read == {i \in DOMAIN s.evidence : /\ s.evidence[i].key \in cites
                                              /\ s.evidence[i].live
                                              /\ s.evidence[i].subject \in near}
           backends == {s.evidence[i].tool : i \in read}
<1>1. SoundReadings(s.evidence) /\ s.sao.origin = Origin
  BY Zenon DEF SoundSet
<1>2. \A ref : coherentSubject(ref, s.sao) => ref.subject \in near
  <2>1. \A ref : coherentSubject(ref, s.sao) =>
           \/ ref.subject = s.sao.origin
           \/ \E n \in Topology(s.sao.topology) : n.name = ref.subject
    BY Zenon DEF coherentSubject
  <2> QED
    BY <1>1, <2>1, Zenon
<1> HIDE DEF near
<1>3. Backends(cites, s.evidence, s.sao) \subseteq backends
  BY <1>2 DEF Backends
<1>4. backends \subseteq Tools
  BY <1>1 DEF SoundReadings
<1>5. read \in SUBSET DOMAIN s.evidence
  OBVIOUS
<1> HIDE DEF read
<1>6. IsFiniteSet(backends)
  BY <1>1, <1>5, FinitelyMany
<1> HIDE DEF backends
<1>7. Cardinality(backends) \in Nat
  BY <1>6, FS_CardinalityType
<1> QED
  BY <1>3, <1>4, <1>6, <1>7, Zenon DEF ReadFrom, backends, read, near

\* A grant rests on what the loop read (engine.go enforceCatalog,
\* enforceCitations and scoreConfidences, gate.go and authority.go Evaluate):
\* for every catalog, set of policies, case base and answer of the tools, an
\* action approved without a person is a catalogued one, has a live reading
\* behind it, claims no more than the model did, and has two backends where
\* the floor is above what one can support.
THEOREM GrantsAreGrounded == Spec => []ApprovedIsGrounded
<1>1. ASSUME ReasonInv, decision.verdict = "approved"
      PROVE  ApprovedIsGrounded
  <2>1. decision # NoDecision
    BY <1>1 DEF NoDecision
  <2>2. PICK pol \in Policies, frozen \in BOOLEAN :
           /\ decision.verdict = EvaluateSet(sent, pol, frozen, Full).verdict
           /\ decision.policy = pol
    BY <1>1, <2>1 DEF ReasonInv, RulingInv
  <2>3. sent.passed /\ Recommends(sent) # {} /\ Vetoes(sent, Granted, pol, frozen, Full) = {}
    BY <1>1, <2>2, EvaluateCases DEF Granted
  <2>4. SoundSet(sent)
    BY <1>1 DEF ReasonInv
  <2>5. 1 \in DOMAIN sent.proposals /\ Granted = sent.proposals[1]
    BY <2>3, <2>4, FirstIsRecommended, Zenon DEF Granted
  <2>6. SoundCandidate(Granted, sent)
    BY <2>4, <2>5 DEF SoundSet
  <2>7. Backends(Granted.cites, sent.evidence, sent.sao) # {}
    BY <2>3, <2>4, <2>5, Zenon DEF SoundSet
  <2> DEFINE floor == FloorFor(pol, sent.class, Full)
             backends == ReadFrom(Granted.cites, sent)
             counted == Backends(Granted.cites, sent.evidence, sent.sao)
  <2>8. /\ counted \subseteq backends /\ backends \subseteq Tools
        /\ IsFiniteSet(backends) /\ Cardinality(backends) \in Nat
    BY <2>3, <2>4, BackendsAreRead
  <2>9. floor \in Nat
    BY FloorsCount
  <2>10. /\ pol.gate # "split" => Granted.confidence >= floor
         /\ Granted.computed >= floor /\ Granted.confidence <= Granted.self
    BY <2>2, <2>3, <2>6, UnvetoedFloors, Zenon
  <2>11. \E c \in Catalog : c.name = Granted.ref /\ sent.class \in c.classes /\ Tier \in c.tiers
    BY <2>6, Zenon DEF SoundCandidate
  <2> HIDE DEF backends
  <2>12. ASSUME floor > OneBackend
         PROVE  Cardinality(backends) >= 2
    <3> DEFINE computed == Granted.computed
    <3>1. computed \in Nat
      <4>1. Full \in Nat
        BY DEF Full
      <4> QED
        BY <2>6, <4>1 DEF SoundCandidate
    <3>2. OneBackend \in Nat
      <4>1. Signal \in Nat
        BY ReasonAssumption
      <4> QED
        BY <4>1 DEF OneBackend
    <3>3. ~(computed <= OneBackend)
      BY <2>9, <2>10, <2>12, <3>1, <3>2
    <3>4. Cardinality(counted) >= 2
      BY <2>6, <3>3 DEF SoundCandidate
    <3>5. Cardinality(counted) \in Nat /\ Cardinality(counted) <= Cardinality(backends)
      BY <2>8, FS_Subset, FS_CardinalityType
    <3> QED
      BY <2>8, <3>4, <3>5
  <2>13. /\ backends # {} /\ backends \subseteq Tools
         /\ floor > Signal * 7 * 40 * 180 => Cardinality(backends) >= 2
    BY <2>7, <2>8, <2>12 DEF OneBackend
  <2> QED
    BY <2>2, <2>10, <2>11, <2>13, Zenon DEF ApprovedIsGrounded, ReadFrom, backends
<1>2. ReasonInv => ApprovedIsGrounded
  BY <1>1, Zenon DEF ApprovedIsGrounded
<1> QED
  BY <1>2, ReasonIsSound, PTL

\* What a candidate would score had nothing changed around the service.
LEMMA ChangesRaise ==
    ASSUME NEW cands, NEW i \in DOMAIN cands,
           SoundReadings(evidence), SoundSnapshot(sao), SoundCases(cases)
    PROVE  Scored(cands, evidence, sao, cases)[i].computed >=
             Scored(cands, evidence, [sao EXCEPT !.changes = {}], cases)[i].computed
<1> DEFINE calm == [sao EXCEPT !.changes = {}]
           prior == Alignment(cases)
           causal == Causal(sao, cases)
           none == Causal(calm, cases)
           cites == cands[i].cites
           counted == Cardinality(Backends(cites, evidence, sao))
<1>1. /\ calm.signal = sao.signal /\ calm.origin = sao.origin
      /\ calm.topology = sao.topology /\ calm.changes = {}
  BY DEF SoundSnapshot
<1>2. sao.signal = Signal /\ Signal \in 0..10
  BY ReasonAssumption DEF SoundSnapshot
<1> HIDE DEF calm
<1>3. \A ref : coherentSubject(ref, calm) = coherentSubject(ref, sao)
  BY <1>1, Zenon DEF coherentSubject
<1>4. Backends(cites, evidence, calm) = Backends(cites, evidence, sao)
  BY <1>3, Zenon DEF Backends
<1>5. none.ok = FALSE
  BY <1>1, Zenon DEF Causal
<1>6. counted \in Nat
  BY BackendsCounted
<1>7. prior.ok \in BOOLEAN /\ prior.rate \in 0..20 /\ causal.ok \in BOOLEAN /\ causal.max \in 0..60
  BY AlignmentBounds, CausalBounds
<1>8. /\ Scored(cands, evidence, sao, cases)[i].computed
           = groundedConfidence(sao.signal, counted, prior, causal)
      /\ Scored(cands, evidence, calm, cases)[i].computed
           = groundedConfidence(sao.signal, counted, prior, none)
  BY <1>1, <1>4, Zenon DEF Scored
<1> HIDE DEF prior, causal, none, counted
<1>9. Raises(sao.signal, counted, prior, causal)
  BY <1>2, <1>6, <1>7, ConfidenceBounds
<1>10. groundedConfidence(sao.signal, counted, prior, causal) >=
         groundedConfidence(sao.signal, counted, prior, none)
  BY <1>5, <1>9 DEF Raises
<1> QED
  BY <1>8, <1>10 DEF calm

\* The causal term is a bonus (confidence.go groundedConfidence): whatever
\* changed around the service, no candidate scores below what it would have
\* scored had nothing changed.
THEOREM ChangesNeverCost == Spec => []ChangesOnlyRaise
<1>1. ASSUME ReasonInv, pc = "judge"
      PROVE  ChangesOnlyRaise
  <2>1. SoundReadings(evidence) /\ SoundSnapshot(sao) /\ SoundCases(cases)
    BY <1>1 DEF ReasonInv, RunInv, Forming
  <2> QED
    BY <2>1, ChangesRaise, Zenon DEF ChangesOnlyRaise
<1>2. ReasonInv => ChangesOnlyRaise
  BY <1>1, Zenon DEF ChangesOnlyRaise
<1> QED
  BY <1>2, ReasonIsSound, PTL
=============================================================================
