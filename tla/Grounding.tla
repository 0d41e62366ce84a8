----------------------------- MODULE Grounding -----------------------------
(***************************************************************************)
(* What clank makes of a proposal once the model has spoken: the catalog   *)
(* and citation checks, enrichment from the catalog, causal scoring,       *)
(* confidence, ranking and the readiness gate.  Pure operators.            *)
(*                                                                         *)
(* A confidence is an integer, Full standing for 1.0: the product of a     *)
(* signal confidence in tenths, a grounding weight in tenths, an alignment *)
(* factor in fortieths and a causal factor in hundred-and-twentieths is    *)
(* exact.  The weights are DefaultScoringWeights.                          *)
(***************************************************************************)
EXTENDS Integers, Sequences, FiniteSetsExt

Full == 10 * 10 * 40 * 120

\* A confidence stated in tenths.
Tenths(t) == (t * Full) \div 10

-----------------------------------------------------------------------------
\* The catalog.  A contract is [name, classes, tiers, blast, reversible,
\* undo], undo being the verbs of its reverse steps.  No precondition is
\* registered, so a catalog that loads carries none.

ByName(catalog, name) == {c \in catalog : c.name = name}

ApplicableToTier(catalog, tier) == {c \in catalog : tier \in c.tiers}

Applicable(catalog, class, tier) ==
    {c \in ApplicableToTier(catalog, tier) : class \in c.classes}

\* enforceCatalog: every candidate names a contract of the declared class.
InCatalog(proposals, catalog, class, tier) ==
    \A i \in DOMAIN proposals :
        \E c \in Applicable(catalog, class, tier) : c.name = proposals[i].ref

\* enforceCitations: every candidate cites, and only what was gathered.
Cited(proposals, evidence) ==
    \A i \in DOMAIN proposals :
        /\ proposals[i].cites # {}
        /\ proposals[i].cites \subseteq {evidence[j].key : j \in DOMAIN evidence}

\* automaticReversal, and ReversalPath as one of three values.
Reversal(c) ==
    CASE ~c.reversible -> "none"
      [] "maintenanceRelease" \in c.undo -> "manual"
      [] OTHER -> "automatic"

\* enrichFromCatalog: the authored facts, copied onto each candidate.
Enriched(proposals, catalog) ==
    [i \in DOMAIN proposals |->
        LET c == CHOOSE x \in ByName(catalog, proposals[i].ref) : TRUE
        IN  [id |-> proposals[i].id, ref |-> proposals[i].ref,
             cites |-> proposals[i].cites, self |-> proposals[i].self,
             blast |-> c.blast, reversal |-> Reversal(c),
             band |-> IF c.reversible THEN "act-reversible" ELSE "act-disruptive"]]

-----------------------------------------------------------------------------
\* Causal scoring.  A node's share and an event's temporal and historical
\* scores are twentieths, a likelihood sixtieths; an event's age is counted
\* in recency half-lives.  No source predicts signals, so nothing is
\* subtracted for an absent one, and the historical half-life is so much
\* longer than the lookback that freshness is 1.

Topology(topo) == topo.upstream \cup topo.downstream

\* findNode: the upstream node of that name, else the downstream one.
findNode(topo, name) ==
    LET up == {n \in topo.upstream : n.name = name}
        down == {n \in topo.downstream : n.name = name}
    IN  IF up # {} THEN up ELSE down

\* A sync finished in the future of this clock scores above 1.
temporalScore(age) == IF age < 0 THEN 20 * 2 ^ (-age) ELSE 20 \div (2 ^ age)

\* Prior.Alignment, of a case base holding that many live votes: no prior
\* below two of them.
Alignment(cases) ==
    [ok |-> cases.votes >= 2,
     rate |-> IF cases.votes >= 2 THEN (20 * cases.successes) \div cases.votes ELSE 0]

Degraded(topo, name) == {n \in findNode(topo, name) : n.state = "degraded"}

topologicalScore(topo, name) == MapThenSumSet(LAMBDA n : n.share, Degraded(topo, name))

\* No term is negative here.
clampUnit(x) == IF x > 60 THEN 60 ELSE x

\* scoreEvent: capped at one half unless its node is live and degraded.
Likelihood(e, topo, cases) ==
    LET prior == Alignment(cases)
        sum == temporalScore(e.age) + topologicalScore(topo, e.target)
                 + (IF prior.ok THEN prior.rate ELSE 18)
    IN  IF Degraded(topo, e.target) = {} /\ sum > 30 THEN 30 ELSE clampUnit(sum)

-----------------------------------------------------------------------------
\* Confidence.

\* coherentSubject: the affected service, or a node of the frozen topology.
coherentSubject(ref, sao) ==
    /\ ref.subject # ""
    /\ \/ ref.subject = sao.origin
       \/ \E n \in Topology(sao.topology) : n.name = ref.subject

\* Mutant: a backend queried twice corroborates itself.
BackendsPerRef(cites, evidence, sao) ==
    {i \in DOMAIN evidence :
        /\ evidence[i].key \in cites
        /\ evidence[i].live
        /\ coherentSubject(evidence[i], sao)}

\* coherentLiveCitations: the distinct backends behind the citations.
Backends(cites, evidence, sao) ==
    {evidence[i].tool : i \in {j \in DOMAIN evidence :
        /\ evidence[j].key \in cites
        /\ evidence[j].live
        /\ coherentSubject(evidence[j], sao)}}

groundingWeight(corroborated) ==
    CASE corroborated >= 2 -> 10
      [] corroborated = 1 -> 7
      [] OTHER -> 3

\* The strongest likelihood of an event that resolved into the topology.
Causal(sao, cases) ==
    LET placed == {e \in sao.changes : findNode(sao.topology, e.target) # {}}
    IN  [ok |-> placed # {},
         max |-> IF placed = {} THEN 0
                 ELSE Max({Likelihood(e, sao.topology, cases) : e \in placed})]

\* Mutant: the causal term is a factor, not a bonus.
groundedConfidenceFactor(signal, corroborated, prior, causal) ==
    LET base == signal * groundingWeight(corroborated)
                  * (IF prior.ok THEN 20 + prior.rate ELSE 40)
    IN  IF causal.ok THEN base * 2 * causal.max ELSE base * 120

\* Mutant: the product is not clamped.
groundedConfidenceUnbounded(signal, corroborated, prior, causal) ==
    signal * groundingWeight(corroborated)
      * (IF prior.ok THEN 20 + prior.rate ELSE 40)
      * (IF causal.ok THEN 120 + causal.max ELSE 120)

\* groundedConfidence: a term that is not there drops out; the causal one is
\* a bonus of up to one half, and only with it is the product clamped.
groundedConfidence(signal, corroborated, prior, causal) ==
    LET base == signal * groundingWeight(corroborated)
                  * (IF prior.ok THEN 20 + prior.rate ELSE 40)
        raised == base * (120 + causal.max)
    IN  IF causal.ok THEN (IF raised > Full THEN Full ELSE raised) ELSE base * 120

\* scoreConfidences: the model's own number is a ceiling.
Scored(proposals, evidence, sao, cases) ==
    [i \in DOMAIN proposals |->
        LET p == proposals[i]
            computed == groundedConfidence(sao.signal,
                            Cardinality(Backends(p.cites, evidence, sao)),
                            Alignment(cases), Causal(sao, cases))
        IN  [id |-> p.id, ref |-> p.ref, cites |-> p.cites, self |-> p.self,
             blast |-> p.blast, reversal |-> p.reversal, band |-> p.band,
             computed |-> computed,
             confidence |-> IF computed < p.self THEN computed ELSE p.self]]

\* timeToEffect: neither the model nor the catalog writes a candidate's
\* SLOEffects, so it reads 0 for every one.
timeToEffect(cand) == 0

\* Ranker.Rank: soonest effect first while the burn accelerates, stably.
Rank(cands, velocity) ==
    LET Before(j, i) == \/ timeToEffect(cands[j]) < timeToEffect(cands[i])
                        \/ timeToEffect(cands[j]) = timeToEffect(cands[i]) /\ j <= i
        Place(i) == Cardinality({j \in DOMAIN cands : Before(j, i)})
    IN  IF velocity = "accelerating"
        THEN [k \in DOMAIN cands |-> cands[CHOOSE i \in DOMAIN cands : Place(i) = k]]
        ELSE cands

-----------------------------------------------------------------------------
\* The readiness gate.

\* recommendedEvidence: with no proposal at all, everything gathered.
RecommendedCites(proposals, evidence) ==
    IF proposals = <<>>
    THEN {evidence[i].key : i \in DOMAIN evidence}
    ELSE Head(proposals).cites

\* ReadinessGate.Evaluate: no open set of the fingerprint, and a live,
\* coherent reading among those the recommended candidate cites.
Gate(proposals, evidence, sao, dupes) ==
    /\ ~dupes
    /\ Backends(RecommendedCites(proposals, evidence), evidence, sao) # {}
=============================================================================
