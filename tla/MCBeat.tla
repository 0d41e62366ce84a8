------------------------------- MODULE MCBeat -------------------------------
(* Every variable set, every single variable missing, or nothing optional set. *)
EXTENDS Beat

MCOptional == {"PROM_URL", "EVIDENCE_QUERIES", "WHIR_CATALOG", "WHIR_STATE_QUERIES",
               "WHIR_GRAPH_QUERIES"}
MCVars == BrokerStore \cup Typed \cup MCOptional
          \cup {"ANTHROPIC_API_KEY", "ACTION_CATALOG", "FAILURE_CLASSES", "CLANK_WEIGHTS",
                "CLANK_LIMITS", "CLANK_INBOX", "CLANK_OUTBOX", "CLANK_OUTCOMES",
                "CLANK_DECLINES", "HISS_POLICY", "HISS_INBOX", "HISS_OUTBOX", "RATTLE_WATCH",
                "RATTLE_QUERY_CONFIG", "THUMP_INBOX", "THUMP_OUTBOX"}
MCEnvironments == {MCVars, MCVars \ MCOptional, MCVars \ {"NATS_URL"}, MCVars \ BrokerStore}
                  \cup {MCVars \ {v} : v \in {"PROM_URL", "HISS_POLICY", "EVIDENCE_QUERIES"}}
MCMalformed == {{}, {"THUMP_EXECUTOR"}, {"NATS_URL"}}
=============================================================================
