------------------------------ MODULE Evidence ------------------------------
(***************************************************************************)
(* What clank reads: the evidence tools, the authored subject rules that   *)
(* say which topology node a reading is about, the change sources and the  *)
(* dependency graph.  Pure operators: a backend's answer is an argument.   *)
(*                                                                         *)
(* A selector is a set of label pairs, Unstated a field left empty, and an *)
(* EvidenceRef keeps what the gate and the scorer look at.                 *)
(***************************************************************************)
EXTENDS Integers, FiniteSetsExt

Unstated == ""

-----------------------------------------------------------------------------
\* subjects: which topology node do these coordinates belong to?

At(ns, kind, name, labels) ==
    [namespace |-> ns, kind |-> kind, name |-> name, labels |-> labels]

\* SubjectRule.matches: a field the rule does not state is unconstrained.
matches(rule, c) ==
    /\ \A f \in {"namespace", "kind", "name"} : rule.at[f] \in {Unstated, c[f]}
    /\ rule.at.labels \subseteq c.labels

constraints(rule) ==
    Cardinality(rule.at.labels)
      + Cardinality({f \in {"namespace", "kind", "name"} : rule.at[f] # Unstated})

MostSpecific(index, c) ==
    LET hits == {rule \in index : matches(rule, c)}
    IN  {rule \in hits : \A other \in hits : constraints(other) <= constraints(rule)}

\* SubjectIndex.For: the most specific rules, when they agree on one node.
For(index, c) ==
    LET named == {rule.subject : rule \in MostSpecific(index, c)}
    IN  IF Cardinality(named) = 1 THEN CHOOSE s \in named : TRUE ELSE Unstated

-----------------------------------------------------------------------------
\* The tools.  A call's args are "ok", or one of the ways they can be wrong;
\* reply is what the backend answers: "data", "empty", "refused" (a status
\* that is not 200), "unreachable", "garbled" (a body that does not decode),
\* or "odd" (a body that decodes, with a value that is not a string).

Reply == {"data", "empty", "refused", "unreachable", "garbled", "odd"}

\* A citation key is a tuple: a metrics query's name, or a tool's name and the
\* reading's place in the run's evidence; <<>> is a key not yet assigned.
Ref(tool, key, live, subject) ==
    [tool |-> tool, key |-> key, live |-> live, subject |-> subject]

Failed == [err |-> "tool", ref |-> Ref(Unstated, <<>>, FALSE, Unstated)]
Read(ref) == [err |-> Unstated, ref |-> ref]

\* MetricsTool.Run: a reading is named by its query, so that it can be cited;
\* a body that does not decode is a zero EvidenceRef and no error.
RunMetrics(queries, call, reply) ==
    CASE call.args = "undecodable" -> Failed
      [] call.q \notin DOMAIN queries -> Read(Ref("metrics", <<call.q>>, FALSE, Unstated))
      [] reply = "garbled" -> Read(Ref(Unstated, <<>>, FALSE, Unstated))
      [] reply = "odd" -> Failed
      [] OTHER -> Read(Ref("metrics", <<call.q>>, reply = "data", queries[call.q]))

\* A request that was sent: only a non-empty answer is live.  The subject is
\* resolved from the coordinates asked about.
Asked(index, call, reply) ==
    Read(Ref(call.name, <<>>, reply = "data", For(index, call.at)))

Unsent(index, call) == Read(Ref(call.name, <<>>, FALSE, For(index, call.at)))

\* LokiTool.Run: a bad lookback is a dead reading, not an error.
RunLoki(index, call, reply) ==
    CASE call.args = "undecodable" -> Failed
      [] call.args = "lookback" -> Unsent(index, call)
      [] OTHER -> Asked(index, call, reply)

\* TracesTool.Run: so is a label key that is no identifier.
RunTraces(index, call, reply) ==
    CASE call.args = "undecodable" -> Failed
      [] call.args \in {"labelKey", "lookback"} -> Unsent(index, call)
      [] OTHER -> Asked(index, call, reply)

\* KubeTool.Run: so is a resource other than pods.
RunKube(index, call, reply) ==
    CASE call.args = "undecodable" -> Failed
      [] call.args = "resource" -> Unsent(index, call)
      [] OTHER -> Asked(index, call, reply)

\* buildTools: a tool is registered when its backend is configured.
buildTools(env, kube) ==
    (IF {"PROM_URL", "EVIDENCE_QUERIES"} \subseteq env THEN {"metrics"} ELSE {})
      \cup (IF "LOKI_URL" \in env THEN {"loki"} ELSE {})
      \cup (IF "TEMPO_URL" \in env THEN {"traces"} ELSE {})
      \cup (IF kube THEN {"kube"} ELSE {})

-----------------------------------------------------------------------------
\* The change sources.  An object is [at, wrote] with wrote the writes on it,
\* each a [manager, age]; an age outside 0..Lookback is not reported.

DefaultIgnoredManagers == {"beat", "thump-actuator"}

Event(target, age) == [target |-> target, age |-> age]

Youngest(writes) == CHOOSE a \in {w.age : w \in writes} :
                        \A w \in writes : a <= w.age

\* A Deployment's Progressing condition is dated by its last write, whoever
\* made it; a ConfigMap by the youngest write of a manager not ignored.
WritesCounted(object) ==
    IF object.at.kind = "Deployment"
    THEN object.wrote
    ELSE {w \in object.wrote : w.manager \notin DefaultIgnoredManagers}

\* KubeChangeSource.Changes: the objects of the namespaces the rules name.
KubeChanges(objects, index, lookback) ==
    LET seen == {o \in objects :
                    /\ o.at.namespace \in {rule.at.namespace : rule \in index} \ {Unstated}
                    /\ WritesCounted(o) # {}
                    /\ Youngest(WritesCounted(o)) \in 0..lookback
                    /\ For(index, o.at) # Unstated}
    IN  {Event(For(index, o.at), Youngest(WritesCounted(o))) : o \in seen}

\* ArgoChangeSource: one event per node a succeeded sync touched, or one
\* naming the Application when no rule claims what it manages.
ArgoChanges(apps, index, lookback) ==
    UNION {LET nodes == {For(index, r) : r \in app.manages} \ {Unstated}
           IN  {Event(t, app.age) : t \in IF nodes = {} THEN {app.name} ELSE nodes}
           : app \in {a \in apps : a.phase = "Succeeded" /\ a.age <= lookback}}

-----------------------------------------------------------------------------
\* whir: the dependencies of a service, observed or authored.  A rate or a
\* share is a count of twentieths.

Node(name, state, share) == [name |-> name, state |-> state, share |-> share]

\* Resolver.State: a reading is "up" or "down"; anything else is unknown.
State(reading) ==
    CASE reading = "up" -> "healthy"
      [] reading = "down" -> "degraded"
      [] OTHER -> "unknown"

\* GraphSource.queryEdges: calls is a set of [other, rate, failed]; an edge
\* failing at the threshold, a twentieth of its calls, or above is degraded.
queryEdges(calls) ==
    LET live == {c \in calls : c.other # Unstated /\ c.rate > 0}
        total == MapThenSumSet(LAMBDA c : c.rate, live)
    IN  {Node(c.other, IF 20 * c.failed >= c.rate THEN "degraded" ELSE "healthy",
              (20 * c.rate) \div total) : c \in live}

\* catalogUpstream and catalogDownstream: the authored dependencies, and who
\* declares one on the service.
Upstream(catalog, readings, origin) ==
    IF origin \in DOMAIN catalog
    THEN {Node(d, State(readings[d]), 0) : d \in catalog[origin]}
    ELSE {}

Downstream(catalog, readings, origin) ==
    {Node(s, State(readings[s]), 0) :
        s \in {x \in DOMAIN catalog \ {origin} : origin \in catalog[x]}}

\* ObservedTopology.Topology: each side is the observed graph, or the
\* authored catalog when nothing was observed.
ObservedTopology(out, in, catalog, readings, origin) ==
    [upstream |-> IF queryEdges(out) # {} THEN queryEdges(out)
                  ELSE Upstream(catalog, readings, origin),
     downstream |-> IF queryEdges(in) # {} THEN queryEdges(in)
                    ELSE Downstream(catalog, readings, origin)]
=============================================================================
