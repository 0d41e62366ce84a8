------------------------------- MODULE Reason -------------------------------
(***************************************************************************)
(* One fingerprint's detections through clank's reason loop                *)
(* (Engine.Propose) and on to hiss's ruling and thump's action: intake,    *)
(* the model's turns and their checkpoints, the tool calls, the checks on  *)
(* what was proposed, the ledger, the journal and the delivery, then       *)
(* Authority.Evaluate on the delivered set and what the action leaves in   *)
(* the cluster for the next run's change sources to read.                  *)
(***************************************************************************)
EXTENDS Evidence, Grounding, Authority

CONSTANTS
    Origin,        \* the detection's OriginService
    Tier,          \* its ServiceTier
    Signal,        \* its confidence, in tenths
    Velocity,      \* its blast radius velocity
    Class,         \* the failure classes
    Tools,         \* the names buildTools registered
    Queries,       \* the metrics tool's queries: name -> subject
    Index,         \* the authored subject rules
    Catalog,       \* the action contracts
    Completions,   \* what the model may say in a turn: sequences of calls
    Views,         \* what the topology queries may answer
    Apps,          \* the ArgoCD Applications
    Policies,      \* the policies hiss may have loaded
    Cases,         \* the case base's votes at the start
    Objects,       \* the cluster objects' coordinates, with first writes
    Lookback,      \* ChangeLookback, in recency half-lives
    MaxSteps,      \* Limits.MaxSteps
    MaxRuns,       \* bound: detections delivered
    MaxFaults      \* bound: failed calls and crashes

\* Every call the model may make.
Calls == UNION {{turn[i] : i \in DOMAIN turn} : turn \in Completions}

\* The topology Assemble freezes: the source's, or what rattle observed when
\* it has nothing to say.
SnapshotTopology(v) ==
    LET topo == ObservedTopology(v.out, v.in, v.catalog, v.readings, Origin)
    IN  IF Topology(topo) = {} THEN v.signal ELSE topo

\* buildTools knows four tools, counts are naturals, a turn is a list of
\* calls, and a propose call that decodes holds a list of candidates.
ASSUME ReasonAssumption ==
    /\ Signal \in 0..10 /\ Tools \subseteq {"metrics", "loki", "traces", "kube"}
    /\ {MaxSteps, MaxRuns, MaxFaults, Lookback} \subseteq Nat
    /\ Cases.votes \in Nat /\ Cases.successes \in 0..Cases.votes
    /\ \A pol \in Policies : \A c \in DOMAIN pol.floors : pol.floors[c] \in Nat
    /\ Completions \subseteq Seq(Calls)
    /\ \A call \in Calls : call.name = "propose" /\ call.args # "undecodable" =>
         /\ Len(call.proposals) \in Nat /\ DOMAIN call.proposals = 1..Len(call.proposals)
         /\ \A i \in DOMAIN call.proposals : call.proposals[i].self \in Nat

\* Arithmetic on the constants: powers of two and sums of shares are naturals.
ASSUME ScoresAssumption ==
    /\ \A age \in 0..Lookback \cup {app.age : app \in Apps} : temporalScore(age) \in Nat
    /\ \A v \in Views : \A n \in Topology(SnapshotTopology(v)) :
         topologicalScore(SnapshotTopology(v), n.name) \in Nat

VARIABLES
    pc,         \* where Propose is; "idle" between detections
    step,       \* the turn it is in
    todo,       \* the calls of the turn not yet dispatched
    sao,        \* the snapshot Assemble froze
    evidence,   \* the readings gathered
    answer,     \* the propose or insufficient call that ended the loop
    set,        \* the formed set
    open,       \* the ledger holds a live set of the fingerprint
    sent,       \* the delivered set nobody has answered, or NoSet
    decision,   \* hiss's ruling on it
    objects,    \* the cluster's objects and who wrote them last
    cases,      \* the case base's live votes for the fingerprint
    runs, faults

vars == <<pc, step, todo, sao, evidence, answer, set, open, sent, decision, objects, cases, runs, faults>>

clankVars == <<pc, step, todo, sao, evidence, answer, set>>
restVars == <<open, sent, decision, objects, cases>>

NoSao == [origin |-> Unstated, signal |-> 0, changes |-> {},
          topology |-> [upstream |-> {}, downstream |-> {}]]
NoSet == [phase |-> "none", class |-> Unstated, proposals |-> <<>>, recommended |-> Unstated,
          evidence |-> <<>>, sao |-> NoSao, passed |-> FALSE]
NoAnswer == [name |-> "none"]
NoDecision == [verdict |-> "none", reasons |-> {}, policy |-> ZeroPolicy(Class)]

Init ==
    /\ pc = "idle"
    /\ step = 0 /\ todo = <<>> /\ sao = NoSao /\ evidence = <<>>
    /\ answer = NoAnswer /\ set = NoSet
    /\ open = FALSE /\ sent = NoSet /\ decision = NoDecision
    /\ objects = Objects
    /\ cases = Cases
    /\ runs = 0 /\ faults = 0

\* A run's locals are gone when it returns or dies.
Cleared ==
    /\ pc' = "idle"
    /\ step' = 0 /\ todo' = <<>> /\ evidence' = <<>> /\ answer' = NoAnswer
    /\ sao' = NoSao /\ set' = NoSet

Fault == faults < MaxFaults /\ faults' = faults + 1

\* Every return of Propose past the dedupe check goes through the deferred
\* Store.Finish.
Return == pc' = "finish"

-----------------------------------------------------------------------------
\* Propose: the dedupe check and the snapshot.

\* A live set of the fingerprint answers the detection already.
Begin ==
    /\ pc = "idle" /\ runs < MaxRuns
    /\ runs' = runs + 1
    /\ pc' = IF open THEN "idle" ELSE "intake"
    /\ UNCHANGED <<step, todo, sao, evidence, answer, set, restVars, faults>>

\* Intake.Assemble: the topology and every change source.
Assemble ==
    /\ pc = "intake"
    /\ \E v \in Views :
         sao' = [origin |-> Origin, signal |-> Signal, topology |-> SnapshotTopology(v),
                 changes |-> KubeChanges(objects, Index, Lookback)
                               \cup ArgoChanges(Apps, Index, Lookback)]
    /\ pc' = "ask"
    /\ UNCHANGED <<step, todo, evidence, answer, set, restVars, runs, faults>>

\* A source, the model, the checkpoint, the journal or the broker fails.
CallFails ==
    /\ pc \in {"intake", "ask", "journal", "publish"}
    /\ pc = "ask" => step < MaxSteps
    /\ Fault /\ Return
    /\ sent' \in IF pc = "publish" THEN {sent, set} ELSE {sent}
    /\ UNCHANGED <<step, todo, sao, evidence, answer, set, open,
                   decision, objects, cases, runs>>

-----------------------------------------------------------------------------
\* The loop.

\* One completion, checkpointed (and a heartbeat sent) before its calls run;
\* a turn with no tool call is a decline.
Complete ==
    /\ pc = "ask" /\ step < MaxSteps
    /\ \E calls \in Completions :
         /\ todo' = calls
         /\ pc' = IF calls = <<>> THEN "judge" ELSE "call"
         /\ answer' = IF calls = <<>> THEN [name |-> "insufficient"] ELSE answer
    /\ UNCHANGED <<step, sao, evidence, set, restVars, runs, faults>>

\* The turn's next call, or the next turn.
Continue(calls) ==
    /\ todo' = calls
    /\ pc' = IF calls = <<>> THEN "ask" ELSE "call"
    /\ step' = IF calls = <<>> THEN step + 1 ELSE step

\* Mutant: a turn of calls to tools nobody registered is not counted.
CallUnknownFree ==
    /\ pc = "call" /\ Head(todo).name \notin Tools \cup {"propose", "insufficient"}
    /\ todo' = Tail(todo)
    /\ pc' = IF Tail(todo) = <<>> THEN "ask" ELSE "call"
    /\ UNCHANGED <<step, sao, evidence, answer, set, restVars, runs, faults>>

\* A tool nobody registered is an error result, and the turn goes on.
CallUnknown ==
    /\ pc = "call" /\ Head(todo).name \notin Tools \cup {"propose", "insufficient"}
    /\ Continue(Tail(todo))
    /\ UNCHANGED <<sao, evidence, answer, set, restVars, runs, faults>>

\* propose and insufficient end the loop, with the rest of the turn undone.
CallTerminal ==
    /\ pc = "call" /\ Head(todo).name \in {"propose", "insufficient"}
    /\ IF Head(todo).args = "undecodable"
       THEN Return /\ UNCHANGED answer
       ELSE pc' = "judge" /\ answer' = Head(todo)
    /\ UNCHANGED <<step, todo, sao, evidence, set, restVars, runs, faults>>

Keyed(ref, tool) ==
    IF ref.key = <<>> THEN [ref EXCEPT !.key = <<tool, Len(evidence)>>] ELSE ref

\* An evidence tool runs; the reading is keyed and kept.
CallTool ==
    /\ pc = "call" /\ Head(todo).name \in Tools
    /\ \E reply \in Reply :
         LET call == Head(todo)
             got == CASE call.name = "metrics" -> RunMetrics(Queries, call, reply)
                      [] call.name = "loki" -> RunLoki(Index, call, reply)
                      [] call.name = "traces" -> RunTraces(Index, call, reply)
                      [] call.name = "kube" -> RunKube(Index, call, reply)
         IN  IF got.err # Unstated
             THEN Return /\ UNCHANGED <<step, todo, evidence>>
             ELSE /\ evidence' = Append(evidence, Keyed(got.ref, call.name))
                  /\ Continue(Tail(todo))
    /\ UNCHANGED <<sao, answer, set, restVars, runs, faults>>

-----------------------------------------------------------------------------
\* Past the loop.

\* The set of a run that ends without one worth checking, or refused by
\* enforceCatalog or enforceCitations.
Closed(phase, class) ==
    [phase |-> phase, class |-> class, proposals |-> <<>>, recommended |-> Unstated,
     evidence |-> evidence, sao |-> sao, passed |-> FALSE]

\* Enriched, scored, ranked, recommended and gated, in that order.
Formed ==
    LET scored == Scored(Enriched(answer.proposals, Catalog), evidence, sao, cases)
        ranked == Rank(scored, Velocity)
        passed == Gate(ranked, evidence, sao, open)
    IN  [phase |-> IF passed THEN "proposed" ELSE "no_action", class |-> answer.class,
         proposals |-> ranked,
         recommended |-> IF ranked = <<>> THEN Unstated ELSE Head(ranked).id,
         evidence |-> evidence, sao |-> sao, passed |-> passed]

\* The budget, the decline, the two refusals, or the formed set: recorded in
\* the ledger, where only a proposed set is live.
Judge ==
    /\ \/ pc = "judge"
       \/ pc = "ask" /\ step = MaxSteps
    /\ set' = CASE answer.name = "none" -> Closed("budget_exhausted", Unstated)
                [] answer.name = "insufficient" -> Closed("no_action", Unstated)
                [] ~InCatalog(answer.proposals, Catalog, answer.class, Tier)
                     \/ ~Cited(answer.proposals, evidence) ->
                       Closed("no_action", answer.class)
                [] OTHER -> Formed
    /\ open' = (open \/ set'.phase = "proposed")
    /\ pc' = "journal"
    /\ UNCHANGED <<step, todo, sao, evidence, answer, sent,
                   decision, objects, cases, runs, faults>>

\* The journal keeps every terminal phase; only a gated set goes further.
Journal ==
    /\ pc = "journal"
    /\ pc' = IF set.passed THEN "publish" ELSE "finish"
    /\ UNCHANGED <<step, todo, sao, evidence, answer, set, open, sent,
                   decision, objects, cases, runs, faults>>

Publish ==
    /\ pc = "publish"
    /\ sent' = set /\ decision' = NoDecision
    /\ Return
    /\ UNCHANGED <<step, todo, sao, evidence, answer, set, open,
                   objects, cases, runs, faults>>

\* The deferred Store.Finish: its error is logged, and the run is over.
Finish ==
    /\ pc = "finish"
    /\ Cleared
    /\ UNCHANGED <<restVars, runs, faults>>

\* A crash: the run is gone, and the ledger is rebuilt from the stream.
Crash ==
    /\ Fault
    /\ Cleared
    /\ open' = (sent # NoSet)
    /\ UNCHANGED <<sent, decision, objects, cases, runs>>

-----------------------------------------------------------------------------
\* hiss and thump.

\* hiss rules on the delivered set under the policy it loaded, inside a freeze
\* window or outside one.
Govern ==
    /\ sent # NoSet /\ decision = NoDecision
    /\ \E pol \in Policies, frozen \in BOOLEAN :
         LET d == EvaluateSet(sent, pol, frozen, Full)
         IN  decision' = [verdict |-> d.verdict, reasons |-> d.reasons, policy |-> pol]
    /\ UNCHANGED <<clankVars, open, sent, objects, cases, runs, faults>>

\* The set is answered: a refusal is a decline; a grant is acted on, which
\* writes the contract's objects as thump-actuator, and its live outcome is a
\* vote.
Settle ==
    /\ decision # NoDecision
    /\ IF decision.verdict # "approved"
       THEN UNCHANGED <<objects, cases>>
       ELSE LET ref == sent.proposals[CHOOSE i \in Recommends(sent) : TRUE].ref
                c == CHOOSE x \in ByName(Catalog, ref) : TRUE
            IN  /\ objects' = {IF o.at \in c.writes
                               THEN [o EXCEPT !.wrote = @ \cup
                                        {[manager |-> "thump-actuator", age |-> 0]}]
                               ELSE o : o \in objects}
                /\ \E won \in {0, 1} :
                     cases' = [votes |-> cases.votes + 1,
                               successes |-> cases.successes + won]
    /\ open' = FALSE /\ sent' = NoSet /\ decision' = NoDecision
    /\ UNCHANGED <<clankVars, runs, faults>>

-----------------------------------------------------------------------------
Propose == \/ Assemble \/ Complete \/ CallUnknown \/ CallTerminal \/ CallTool
           \/ Judge \/ Journal \/ Publish \/ Finish

Next == Begin \/ Propose \/ CallFails \/ Crash \/ Govern \/ Settle

\* Propose runs to its end on the consumer's goroutine: each of its calls is
\* bounded by a client timeout, so a run that can step does.
Spec == Init /\ [][Next]_vars /\ WF_vars(Propose)

-----------------------------------------------------------------------------
\* Type correctness of the loop and of what it hands on.
TypeOK ==
    /\ pc \in {"idle", "intake", "ask", "call", "judge", "journal", "publish", "finish"}
    /\ step \in 0..MaxSteps
    /\ set.phase \in {"none", "budget_exhausted", "no_action", "proposed"}
    /\ open \in BOOLEAN
    /\ decision.verdict \in {"none", "rejected", "escalate", "hold", "approved"}
    /\ \A i \in DOMAIN set.proposals : set.proposals[i].computed \in 0..Full

Granted == sent.proposals[CHOOSE i \in Recommends(sent) : TRUE]

\* A grant rests on what the loop read.  When hiss approves a set on its own,
\* the action is one the catalog lists for the declared class and the tier;
\* it cites a reading that came back live from a registered tool and is about
\* the burning service or a node the run's own snapshot placed beside it; its
\* confidence is no more than the model claimed; and where the floor is above
\* what one backend and the largest causal bonus can support, two different
\* backends are behind it.  (engine.go enforceCatalog, enforceCitations,
\* scoreConfidences; gate.go Evaluate; authority.go Evaluate)
ApprovedIsGrounded ==
    decision.verdict = "approved" =>
        LET floor == FloorFor(decision.policy, sent.class, Full)
            read == {i \in DOMAIN sent.evidence :
                        /\ sent.evidence[i].key \in Granted.cites
                        /\ sent.evidence[i].live
                        /\ sent.evidence[i].subject \in
                             {Origin} \cup {n.name : n \in Topology(sent.sao.topology)}}
            backends == {sent.evidence[i].tool : i \in read}
        IN  /\ \E c \in Catalog : c.name = Granted.ref /\ sent.class \in c.classes
                                    /\ Tier \in c.tiers
            /\ backends # {} /\ backends \subseteq Tools
            /\ Granted.confidence <= Granted.self
            /\ decision.policy.gate # "split" => Granted.confidence >= floor
            /\ floor > Signal * 7 * 40 * 180 => Cardinality(backends) >= 2

\* Holding change data never costs confidence: each candidate about to be
\* gated is computed at least as confident as the identical run would have
\* computed it with no change event in hand.  (confidence.go
\* groundedConfidence, scoreConfidences; causal.go Score)
ChangesOnlyRaise ==
    (pc = "judge" /\ answer.name = "propose"
        /\ InCatalog(answer.proposals, Catalog, answer.class, Tier)) =>
        LET cands == Enriched(answer.proposals, Catalog)
            without == Scored(cands, evidence, [sao EXCEPT !.changes = {}], cases)
        IN  \A i \in DOMAIN cands :
                Scored(cands, evidence, sao, cases)[i].computed >= without[i].computed

\* Every run of the loop ends, whatever the model says in its turns.
\* (engine.go Propose, MaxSteps)
RunsEnd == (pc # "idle") ~> (pc = "idle")

\* Refuted: "a governor that started with a zero-value Policy would fail
\* *closed* (MaxBand empty everywhere => everything escalates)".
\* (hiss.go LoadPolicy)
EmptyPolicyEscalates ==
    decision.policy = ZeroPolicy(Class) => decision.verdict # "approved"

\* Refuted: the field managers in DefaultIgnoredManagers "are the field
\* managers whose writes are never change events": the changes a run scores
\* are there without the engine's own writes.  (kube_change.go)
SelfWritesIgnored ==
    sao # NoSao =>
        sao.changes \subseteq
            {Event(For(Index, o.at), w.age) :
                o \in objects, w \in UNION {{x \in p.wrote :
                    x.manager \notin DefaultIgnoredManagers} : p \in objects}}
            \cup ArgoChanges(Apps, Index, Lookback)
=============================================================================
