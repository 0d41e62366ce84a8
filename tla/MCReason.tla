------------------------------ MODULE MCReason ------------------------------
(***************************************************************************)
(* cart burns; flagd is a dependency of cart and mq is not.  The catalog   *)
(* restarts cart (a Deployment) or flips a flag (flagd's ConfigMap).       *)
(***************************************************************************)
EXTENDS Reason

MCClass == {"saturation", "exhaustion"}

MCQueries == [errors |-> "cart", load |-> ""]

\* Two rules of one specificity disagree about the pods labelled shared.
MCIndex ==
    {[subject |-> "cart", at |-> At("shop", "Deployment", "cart", {})],
     [subject |-> "flagd", at |-> At("shop", "ConfigMap", "flags", {})],
     [subject |-> "cart", at |-> At("shop", "", "", {"app=cart"})],
     [subject |-> "mq", at |-> At("shop", "", "", {"tier=shared"})],
     [subject |-> "flagd", at |-> At("shop", "", "", {"app=flagd"})]}

Contract(name, classes, blast, reversible, undo, writes) ==
    [name |-> name, classes |-> classes, tiers |-> {"gold"}, blast |-> blast,
     reversible |-> reversible, undo |-> undo, writes |-> writes]

Deployment == At("shop", "Deployment", "cart", {})
Flags == At("shop", "ConfigMap", "flags", {})

MCCatalog ==
    {Contract("restart", {"saturation"}, "low", TRUE, {"restart"}, {Deployment}),
     Contract("release", {"exhaustion"}, "low", TRUE, {"maintenanceRelease"}, {Flags})}

MCObjects ==
    {[at |-> Deployment, wrote |-> {}],
     [at |-> Flags, wrote |-> {[manager |-> "argocd", age |-> 1]}]}

Metrics(q) == [name |-> "metrics", args |-> "ok", q |-> q]
Selects(tool, labels, args) ==
    [name |-> tool, args |-> args, at |-> At("shop", "", "", labels)]
Answers(class, proposals) ==
    [name |-> "propose", args |-> "ok", class |-> class, proposals |-> proposals]
Candidate(id, ref, self, cites) ==
    [id |-> id, ref |-> ref, self |-> Tenths(self), cites |-> cites]

\* The model gathers one, two or an ambiguous reading, and then answers with
\* grounded, ungrounded, empty or out-of-catalog proposals, or declines.
MCCompletions ==
    {<<Metrics("errors"), Metrics("errors")>>,
     <<Metrics("errors"), Selects("kube", {"app=flagd"}, "ok")>>,
     <<Selects("kube", {"app=cart", "tier=shared"}, "ok")>>,
     <<Selects("loki", {"app=cart"}, "lookback"), Selects("traces", {"app=cart"}, "labelKey")>>,
     <<[name |-> "ssh", args |-> "ok"]>>,
     <<Answers("saturation",
           <<Candidate("a", "restart", 10, {<<"errors">>, <<"kube", 1>>})>>)>>,
     <<Answers("saturation",
           <<Candidate("a", "restart", 10, {<<"errors">>}),
             Candidate("b", "restart", 5, {<<"errors">>})>>)>>,
     <<Answers("saturation", <<Candidate("", "restart", 10, {<<"kube", 0>>})>>)>>,
     <<Answers("exhaustion", <<Candidate("a", "release", 10, {<<"errors">>})>>)>>,
     <<Answers("exhaustion", <<Candidate("a", "restart", 10, {<<"errors">>})>>)>>,
     <<Answers("saturation", <<>>)>>,
     <<[name |-> "insufficient", args |-> "ok"]>>,
     <<>>}

Unread == [cart |-> "none", flagd |-> "none", mq |-> "none"]

\* The service graph sees flagd failing, or nothing and the catalog speaks,
\* or neither and rattle's own topology does.
MCViews ==
    {[out |-> {[other |-> "flagd", rate |-> 20, failed |-> 2]}, in |-> {},
      catalog |-> [cart |-> {"flagd"}], readings |-> Unread,
      signal |-> [upstream |-> {}, downstream |-> {}]],
     [out |-> {}, in |-> {},
      catalog |-> [cart |-> {"flagd"}, mq |-> {"cart"}],
      readings |-> [Unread EXCEPT !["flagd"] = "up"],
      signal |-> [upstream |-> {}, downstream |-> {}]],
     [out |-> {}, in |-> {}, catalog |-> [mq |-> {"flagd"}], readings |-> Unread,
      signal |-> [upstream |-> {}, downstream |-> {}]]}

\* One sync finished in the future of clank's clock.
MCApps == {[name |-> "app", phase |-> "Succeeded", age |-> 2,
            manages |-> {At("shop", "Service", "cart", {})}],
           [name |-> "skewed", phase |-> "Succeeded", age |-> -2, manages |-> {Flags}]}

Policy(gate, floor, max, auto) ==
    [gate |-> gate, floors |-> [c \in MCClass |-> floor], maxBand |-> max,
     autoBand |-> auto, requireReversal |-> TRUE]

MCPolicies == {Policy("collapsed", 9, "act-reversible", "act-reversible"),
               Policy("split", 4, "act-reversible", "act-reversible")}

MCCases == [votes |-> 1, successes |-> 1]
MCTools == buildTools({"PROM_URL", "EVIDENCE_QUERIES", "LOKI_URL", "TEMPO_URL"}, TRUE)
MCZero == {ZeroPolicy(MCClass)}
=============================================================================
