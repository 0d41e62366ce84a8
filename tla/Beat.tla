-------------------------------- MODULE Beat --------------------------------
(***************************************************************************)
(* The life of one beat process, from its environment to its exit code:    *)
(* internal/config reads the environment, Main (internal/rattle, clank,    *)
(* hiss, thump) takes its startup steps in order and returns 1 from the    *)
(* first that fails, the beat runs until its context is cancelled, and the *)
(* deferred calls run last in, first out.  Meanwhile the NATS client drops *)
(* and restores the connection and runs its callbacks on a goroutine of    *)
(* its own, in the order the events happened (internal/beat BrokerHooks,   *)
(* internal/broker connect.go), and they write the same readiness flag as  *)
(* Main.                                                                   *)
(***************************************************************************)
EXTENDS Naturals, Sequences, Functions

CONSTANTS
    Environments,  \* the sets of environment variables a beat is started with
    Malformed,     \* the sets of them that hold an unusable value
    MaxFaults      \* bound on connection drops and on giving up

ASSUME BeatAssumption == MaxFaults \in Nat

VARIABLES
    beat,      \* which beat, and whether NATS_URL is set
    env, bad,  \* variables that are set, and those with an unusable value
    pc,        \* "start", "run", "return" or "exit"
    todo,      \* the startup steps Main still has to take
    defers,    \* the deferred calls, the next one to run first
    conn,      \* "none", "up", "down", "lost" or "shut" (by the beat itself)
    calls,     \* connection events whose callback has not run yet
    ready,     \* the /readyz verdict
    ctx,       \* "live", or why it was cancelled: "signal" or "lost"
    code,      \* exit code, once Main returns
    drained,   \* WAL subjects drained on the way out
    late,      \* the last drop came after Main had set ready
    faults

vars == <<beat, env, bad, pc, todo, defers, conn, calls, ready, ctx, code,
          drained, late, faults>>

-----------------------------------------------------------------------------
(* internal/config: what each beat must and may find in its environment *)

BrokerStore == {"WAL_DIR", "WAL_CONFIG", "S3_ENDPOINT", "S3_BUCKET", "S3_ACCESS_KEY",
                "S3_SECRET_KEY", "TLS_CERT_FILE", "TLS_KEY_FILE", "TLS_CA_FILE",
                "THUMP_SEAL_KEY"}

\* Variables whose value is checked when set: URL schemes, the base64 seal key,
\* durations, booleans and the executor's enum.
Typed == {"NATS_URL", "OTEL_EXPORTER_OTLP_ENDPOINT", "S3_ENDPOINT", "THUMP_SEAL_KEY",
          "DEDUPE_WINDOW", "WHIR_GRAPH_WINDOW", "ARGOCD_ENABLED",
          "APPROVALREQUESTS_ENABLED", "APPROVALREQUEST_RETENTION", "THUMP_EXECUTOR"}

\* The errors of a loader that requires the variables need and reads the
\* variables may: every one of them, joined.
LoadErrors(need, may) == (need \ env) \cup (bad \cap Typed \cap (need \cup may) \cap env)

Wire == {"NATS_URL", "OTEL_EXPORTER_OTLP_ENDPOINT"}

LoadClank(broker) ==
    LoadErrors({"ANTHROPIC_API_KEY", "ACTION_CATALOG", "FAILURE_CLASSES", "CLANK_WEIGHTS",
                "CLANK_LIMITS"}
               \cup IF broker THEN BrokerStore
                    ELSE {"CLANK_INBOX", "CLANK_OUTBOX", "CLANK_OUTCOMES", "CLANK_DECLINES"},
               Wire \cup {"DEDUPE_WINDOW", "WHIR_GRAPH_WINDOW", "ARGOCD_ENABLED"})
    \cup IF /\ \/ {"WHIR_CATALOG", "WHIR_STATE_QUERIES"} \subseteq env
               \/ "WHIR_GRAPH_QUERIES" \in env
            /\ "PROM_URL" \notin env
         THEN {"PROM_URL"} ELSE {}

LoadHiss(broker) ==
    LoadErrors({"HISS_POLICY"} \cup IF broker THEN BrokerStore ELSE {"HISS_INBOX", "HISS_OUTBOX"},
               Wire \cup IF broker THEN {"APPROVALREQUESTS_ENABLED", "APPROVALREQUEST_RETENTION"}
                         ELSE {})

LoadRattle(broker) ==
    LoadErrors({"PROM_URL", "RATTLE_WATCH", "RATTLE_QUERY_CONFIG"}
               \cup IF broker THEN BrokerStore ELSE {}, Wire)

LoadThump(broker) ==
    LoadErrors({"ACTION_CATALOG"} \cup IF broker THEN BrokerStore ELSE {"THUMP_INBOX", "THUMP_OUTBOX"},
               Wire \cup {"THUMP_EXECUTOR"})

LoadConfig == CASE beat.name = "clank" -> LoadClank(beat.broker)
                [] beat.name = "hiss" -> LoadHiss(beat.broker)
                [] beat.name = "rattle" -> LoadRattle(beat.broker)
                [] beat.name = "thump" -> LoadThump(beat.broker)

-----------------------------------------------------------------------------
(* The startup steps of each Main, in order; every step may fail, and a    *)
(* failure returns 1.  "bind" and "ready" are the two halves of            *)
(* beat.AwaitConsumers.                                                    *)

RattleMain(broker) ==
    <<"config", "watch", "query", "backend_tls", "sources", "metrics">>
    \o (IF broker THEN <<"connect", "wal_config", "wal">> ELSE <<"outbox">>)
    \o <<"ready", "tracer">> \o (IF broker THEN <<"sink">> ELSE <<>>)

ClankMain ==
    <<"config", "catalog", "classes", "weights", "limits", "backend_tls", "evidence",
      "intake", "store", "tracer", "metrics">>

ClankBroker == <<"connect", "bind", "ready", "wal_config", "wal", "journal", "sink", "ledger">>

HissMain == <<"config", "policy", "tracer", "metrics">>

HissBroker == <<"connect", "bind", "ready", "wal_config", "wal", "sink", "approvals", "transport">>

ThumpMain == <<"config", "catalog", "tracer", "metrics">>

ThumpBroker == <<"connect", "bind", "ready", "wal_config", "wal", "sink", "executor", "watcher">>

Main(name, broker) ==
    CASE name = "rattle" -> RattleMain(broker)
      [] name = "clank" -> ClankMain \o (IF broker THEN ClankBroker ELSE <<"ready">>)
      [] name = "hiss" -> HissMain \o (IF broker THEN HissBroker ELSE <<"ready">>)
      [] name = "thump" -> ThumpMain \o (IF broker THEN ThumpBroker
                                         ELSE <<"ready", "executor", "watcher">>)

\* The WALs each broker path opens, the last opened, and first drained, first.
Wals(name) == CASE name = "rattle" -> <<"detections">>
                [] name = "clank" -> <<"reasoning", "proposals">>
                [] name = "hiss" -> <<"decisions">>
                [] name = "thump" -> <<"held", "declines", "outcomes", "orders">>

\* What a step reads of the environment without the loader's having required it:
\* thump's reversal watcher opens EVIDENCE_QUERIES whenever PROM_URL is set.
Reads(step) == IF step = "watcher" /\ "PROM_URL" \in env THEN {"EVIDENCE_QUERIES"} ELSE {}

-----------------------------------------------------------------------------
Init ==
    /\ env \in Environments /\ bad \in Malformed
    /\ \E n \in {"rattle", "clank", "hiss", "thump"} :
           /\ beat = [name |-> n, broker |-> "NATS_URL" \in env]
           /\ todo = Main(n, "NATS_URL" \in env)
    /\ pc = "start" /\ defers = <<>> /\ conn = "none" /\ calls = <<>>
    /\ ready = FALSE /\ ctx = "live" /\ code = 0
    /\ drained = {} /\ late = FALSE /\ faults = 0

\* Main returns c: from now on only the deferred calls run.
Return(c) == pc' = "return" /\ code' = c

\* A step succeeds, and leaves its deferred calls.
Takes(step) ==
    /\ pc = "start" /\ todo # <<>> /\ Head(todo) = step
    /\ todo' = Tail(todo)
    /\ UNCHANGED <<beat, env, bad, pc, ctx, code, drained, late, faults>>

Config == /\ LoadConfig = {}
          /\ Takes("config")
          /\ UNCHANGED <<defers, conn, calls, ready>>

Dial == /\ Takes("connect")
        /\ conn' = "up" /\ defers' = <<"close">> \o defers
        /\ UNCHANGED <<calls, ready>>

\* js.Consumer answers for every subject, over a connection that is up.
Bind == /\ Takes("bind")
        /\ conn = "up"
        /\ UNCHANGED <<defers, conn, calls, ready>>

SetReady == /\ Takes("ready")
            /\ ready' = TRUE
            /\ UNCHANGED <<defers, conn, calls>>

\* Only the first of the beat's WALs is drained.
SinkFirst == /\ Takes("sink")
             /\ defers' = <<Head(Wals(beat.name))>> \o defers
             /\ UNCHANGED <<conn, calls, ready>>

Sink == /\ Takes("sink")
        /\ defers' = Wals(beat.name) \o defers
        /\ UNCHANGED <<conn, calls, ready>>

Serve(step) == /\ Takes(step)
               /\ defers' = <<step>> \o defers
               /\ UNCHANGED <<conn, calls, ready>>

Opens == /\ pc = "start" /\ todo # <<>>
         /\ Head(todo) \notin {"config", "connect", "bind", "ready", "sink", "tracer", "metrics"}
         /\ Reads(Head(todo)) \subseteq env
         /\ Takes(Head(todo))
         /\ UNCHANGED <<defers, conn, calls, ready>>

StartStep == Config \/ Dial \/ Bind \/ SetReady \/ Sink \/ Serve("tracer") \/ Serve("metrics")
             \/ Opens

\* A step fails: the configuration lacks something, or a file, the broker, the
\* object store or the cluster does not answer.  Setting the flag cannot fail.
StartFails ==
    /\ pc = "start" /\ todo # <<>> /\ Head(todo) # "ready"
    /\ Head(todo) = "config" => LoadConfig # {}
    /\ Return(1)
    /\ UNCHANGED <<beat, env, bad, todo, defers, conn, calls, ready, ctx, drained, late, faults>>

Started ==
    /\ pc = "start" /\ todo = <<>>
    /\ pc' = "run"
    /\ UNCHANGED <<beat, env, bad, todo, defers, conn, calls, ready, ctx, code, drained, late, faults>>

\* An exit code that looks at the consumers' error alone.
ExitOnFailure(failed) == IF failed /\ ctx = "live" THEN 1 ELSE 0

\* beat.ExitOnError: a broker lost for good is never a clean exit.
ExitOnError(failed) == IF ctx = "lost" \/ (failed /\ ctx = "live") THEN 1 ELSE 0

\* A consumer's error cancels the group; an offline loop has none to return.
RunFails ==
    /\ pc = "run" /\ beat.broker /\ beat.name # "rattle"
    /\ Return(ExitOnError(TRUE))
    /\ UNCHANGED <<beat, env, bad, todo, defers, conn, calls, ready, ctx, drained, late, faults>>

RunEnds ==
    /\ pc = "run" /\ ctx # "live"
    /\ Return(ExitOnError(FALSE))
    /\ UNCHANGED <<beat, env, bad, todo, defers, conn, calls, ready, ctx, drained, late, faults>>

\* Every deferred call counts as a drained subject.
DeferredAll ==
    /\ pc = "return" /\ defers # <<>>
    /\ defers' = Tail(defers)
    /\ conn' = IF Head(defers) = "close" THEN "shut" ELSE conn
    /\ drained' = drained \cup {Head(defers)}
    /\ UNCHANGED <<beat, env, bad, pc, todo, calls, ready, ctx, code, late, faults>>

\* One deferred call.
Deferred ==
    /\ pc = "return" /\ defers # <<>>
    /\ defers' = Tail(defers)
    /\ conn' = IF Head(defers) = "close" THEN "shut" ELSE conn
    /\ drained' = drained \cup ({Head(defers)} \cap Range(Wals(beat.name)))
    /\ UNCHANGED <<beat, env, bad, pc, todo, calls, ready, ctx, code, late, faults>>

Exit == /\ pc = "return" /\ defers = <<>>
        /\ pc' = "exit"
        /\ UNCHANGED <<beat, env, bad, todo, defers, conn, calls, ready, ctx, code, drained, late, faults>>

-----------------------------------------------------------------------------
(* The NATS client and the operating system *)

Event(from, to, e) ==
    /\ pc # "exit" /\ conn \in from /\ conn' = to
    /\ calls' = Append(calls, e)
    /\ UNCHANGED <<beat, env, bad, pc, todo, defers, ready, ctx, code, drained>>

Drop == /\ Event({"up"}, "down", "disconnect")
        /\ faults < MaxFaults /\ faults' = faults + 1
        /\ late' = (pc = "run" \/ "ready" \notin Range(todo))

Reconnect == Event({"down"}, "up", "reconnect") /\ UNCHANGED <<late, faults>>

\* nats.go gives the connection up (it retries without a budget, but a refused
\* login ends it).
GiveUp == /\ Event({"up", "down"}, "lost", "closed")
          /\ faults < MaxFaults /\ faults' = faults + 1
          /\ UNCHANGED late

\* Hooks that only log a closed connection.
CallbackLogs ==
    /\ pc # "exit" /\ calls # <<>>
    /\ calls' = Tail(calls)
    /\ ready' = (Head(calls) = "reconnect")
    /\ UNCHANGED <<beat, env, bad, pc, todo, defers, conn, ctx, code, drained, late, faults>>

\* Hooks that miss the disconnect and act on a closed connection alone.
CallbackOnClosed ==
    /\ pc # "exit" /\ calls # <<>>
    /\ calls' = Tail(calls)
    /\ LET acts == Head(calls) = "closed" /\ conn # "shut" IN
       /\ ready' = (ready /\ ~acts)
       /\ ctx' = IF acts /\ ctx = "live" THEN "lost" ELSE ctx
    /\ UNCHANGED <<beat, env, bad, pc, todo, defers, conn, code, drained, late, faults>>

\* The callbacks of beat.BrokerHooks, one at a time and in order; ClosedHandler
\* stays silent when the beat itself is closing.
Callback ==
    /\ pc # "exit" /\ calls # <<>>
    /\ calls' = Tail(calls)
    /\ LET hushed == Head(calls) = "closed" /\ conn = "shut" IN
       /\ ready' = IF hushed THEN ready ELSE Head(calls) = "reconnect"
       /\ ctx' = IF Head(calls) = "closed" /\ ~hushed /\ ctx = "live" THEN "lost" ELSE ctx
    /\ UNCHANGED <<beat, env, bad, pc, todo, defers, conn, code, drained, late, faults>>

\* SIGTERM or SIGINT.
Signal ==
    /\ pc \in {"start", "run"} /\ ctx = "live"
    /\ ctx' = "signal"
    /\ UNCHANGED <<beat, env, bad, pc, todo, defers, conn, calls, ready, code, drained, late, faults>>

Stopped == pc = "exit" /\ UNCHANGED vars

Proceed == StartStep \/ StartFails \/ Started \/ RunEnds \/ Deferred \/ Exit

Next == Proceed \/ RunFails \/ Drop \/ Reconnect \/ GiveUp \/ Callback \/ Signal \/ Stopped

\* Main never stands still (its dials and queries time out), and the client's
\* callback goroutine runs; nothing else is promised.
Spec == Init /\ [][Next]_vars /\ WF_vars(Proceed) /\ WF_vars(Callback)

-----------------------------------------------------------------------------
\* Type correctness: only the beat's own WALs are drained, and an exit code is 0
\* or 1 (each Main).
TypeOK ==
    /\ pc \in {"start", "run", "return", "exit"}
    /\ conn \in {"none", "up", "down", "lost", "shut"}
    /\ ctx \in {"live", "signal", "lost"}
    /\ code \in {0, 1} /\ ready \in BOOLEAN /\ late \in BOOLEAN
    /\ drained \subseteq Range(Wals(beat.name))
    /\ faults \in 0..MaxFaults

Exited == pc = "exit"

\* A process exits 0 only because it was asked to stop: no failed start, failed
\* consumer or lost broker is ever reported as success to the orchestrator that
\* would have to restart it (internal/beat/consumer.go, ExitOnError, and the
\* return of each Main).
CleanExit == Exited /\ code = 0 => ctx = "signal"

\* Once the object store is open, every way out of the process drains every WAL
\* of the beat, also the exits of the startup steps after it (runBroker of each
\* beat; internal/rattle/rattle.go, Main).
ExitDrains ==
    Exited /\ beat.broker /\ "sink" \notin Range(todo) => drained = Range(Wals(beat.name))

\* A beat whose broker is gone for good does not idle: it exits, and with 1
\* unless it was already stopping (internal/beat/consumer.go, ErrBrokerClosed).
LostBrokerExits ==
    /\ (conn = "lost" /\ calls # <<>>) ~> Exited
    /\ (ctx = "lost") ~> (Exited /\ code = 1)

\* A drop that comes after Main has set ready takes the pod out of rotation, for
\* as long as the connection stays down (internal/beat/consumer.go, BrokerHooks).
LateDropSeen ==
    (conn = "down" /\ late) ~> (~ready \/ conn # "down" \/ Exited)

\* What BrokerHooks and dialOptions promise of every drop.  (A drop between
\* AwaitConsumers' last answer and its SetReady breaks it: the callback runs
\* first, Main's SetReady(true) overwrites it, and nothing resets the flag until
\* the connection comes back.)
DropSeen == (conn = "down" /\ pc = "run") ~> (~ready \/ conn # "down" \/ Exited)

\* A beat whose configuration loaded finds everything its later steps read.
NoLateMissing ==
    pc = "start" /\ todo # <<>> /\ Head(todo) # "config" => Reads(Head(todo)) \subseteq env
=============================================================================
