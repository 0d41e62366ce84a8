------------------------------- MODULE Rattle -------------------------------
(***************************************************************************)
(* rattle, the Detect beat: one single-threaded loop (internal/rattle)     *)
(* that on every tick scans the watched SLOs in order, runs the detectors  *)
(* over each burn window, debounces what fires and publishes the           *)
(* detections the pass collected.  A failed query aborts the whole pass,   *)
(* and nothing the aborted pass collected is published, but the debounce   *)
(* stamps it made stay: what this module checks is what that costs.        *)
(*                                                                         *)
(* Burn rates are integers in half units (2 is a burn rate of 1.0), so the *)
(* compiled thresholds 0.5 and 1.0 are 1 and 2.  Time is counted in steps  *)
(* of the debounce: held[f] is what is left of f's hold window, so         *)
(* now - last < Hold is held[f] > 0.                                       *)
(***************************************************************************)
EXTENDS Integers, Sequences, Functions

CONSTANTS
    Watch,        \* the watch list: a sequence of SLO ids, in file order
    Object,       \* SLO id -> the object it watches
    Windows,      \* the burn windows Prometheus can answer with
    Hold,         \* QueryConfig.Debounce, in debounce steps
    FreshnessBound, MinSamples,   \* QueryConfig
    MaxFaults     \* bound on failed queries, failed publishes and restarts

\* The watch list is a list, and the hold window is a length of time (0: none).
Wellformed == Watch \in Seq(Range(Watch)) /\ Hold \in Nat /\ MaxFaults \in Nat

ASSUME RattleAssumption == Wellformed

VARIABLES
    load,    \* SLO id -> the window Prometheus holds for it now
    pc,      \* "tick" (waiting on the ticker), "scan" or "publish"
    next,    \* index into Watch of the SLO the pass scans next
    out,     \* the detections this pass collected and has not published
    held,    \* fingerprint -> time left of its hold window (Debouncer.last)
    said,    \* fingerprints published in their present hold window
    lost,    \* fingerprints stamped and then dropped by a fault
    faults

vars == <<load, pc, next, out, held, said, lost, faults>>

Slos == Range(Watch)

\* The dedup key: kind plus object, and every SLO has kind "slo_burn".
fingerprint(slo) == Object[slo]

Fingerprints == {fingerprint(s) : s \in Slos}

-----------------------------------------------------------------------------
(* The detectors over one window [rates, age], the age of its newest sample *)

diffs(xs) == IF Len(xs) < 2 THEN <<>> ELSE [i \in 1..(Len(xs) - 1) |-> xs[i + 1] - xs[i]]

\* mean(xs) > bound, over the integers; the mean of no value is 0.
MeanAbove(xs, bound) == IF xs = <<>> THEN 0 > bound ELSE SumFunction(xs) > bound * Len(xs)

Accelerates(w) ==
    /\ Len(w.rates) >= 3
    /\ MeanAbove(diffs(w.rates), 0)
    /\ MeanAbove(diffs(diffs(w.rates)), 1)

Sustains(w) ==
    /\ MinSamples # 0
    /\ Len(w.rates) >= MinSamples
    /\ \A i \in (Len(w.rates) - MinSamples + 1)..Len(w.rates) : w.rates[i] >= 2

\* The detectors in the order newReconciler wires them; "" when none fires.
Detect(w) == CASE Accelerates(w) -> "burn_rate_acceleration"
               [] ~Accelerates(w) /\ Sustains(w) -> "sustained_burn"
               [] OTHER -> ""

Fresh(w) == w.rates # <<>> /\ w.age <= FreshnessBound

trajectory(xs) == CASE MeanAbove(diffs(xs), 0) -> "accelerating"
                    [] SumFunction(diffs(xs)) < 0 -> "recovering"
                    [] OTHER -> "stable"

\* A detection, and the enrichment that never stops it: the severity from the
\* window, the topology (an unanswered dependency is skipped) and the traffic.
SignalFor(slo, w) == [slo |-> slo, fingerprint |-> fingerprint(slo),
                      detector |-> Detect(w), trajectory |-> trajectory(w.rates)]

-----------------------------------------------------------------------------
Init ==
    /\ load \in [Slos -> Windows]
    /\ pc = "tick" /\ next = 1 /\ out = <<>>
    /\ held = [f \in Fingerprints |-> 0]
    /\ said = {} /\ lost = {} /\ faults = 0

Scanned == pc = "scan" /\ next <= Len(Watch)

\* A reconciler that collects every fresh window, whatever the detectors say.
FiresFresh(slo) == Fresh(load[slo])

Fires(slo) == Fresh(load[slo]) /\ Detect(load[slo]) # ""

\* Debouncer.Allow: outside the hold window, and then it stamps.
Allow(f) == held[f] = 0

Stamp(f) == /\ held' = [held EXCEPT ![f] = Hold]
            /\ said' = said \ {f}
            /\ lost' = lost \ {f}

Keep == UNCHANGED <<held, said, lost>>

Fault == faults < MaxFaults /\ faults' = faults + 1

\* The ticker fires and a pass begins.
Tick ==
    /\ pc = "tick"
    /\ pc' = "scan" /\ next' = 1 /\ out' = <<>>
    /\ Keep /\ UNCHANGED <<load, faults>>

\* BurnSamples fails, or the pass runs into its timeout: Reconcile returns no
\* detections at all, and what the pass had stamped is dropped.
ScanFails ==
    /\ Scanned /\ Fault
    /\ lost' = lost \cup {d.fingerprint : d \in Range(out)}
    /\ pc' = "tick" /\ out' = <<>>
    /\ UNCHANGED <<load, next, held, said>>

\* A debouncer that stamps every time it is asked, also when it refuses.
ScanQuietStamps ==
    /\ Scanned
    /\ Fires(Watch[next]) => ~Allow(fingerprint(Watch[next]))
    /\ next' = next + 1
    /\ IF Fires(Watch[next]) THEN Stamp(fingerprint(Watch[next])) ELSE Keep
    /\ UNCHANGED <<load, pc, out, faults>>

\* A pass that stops at the first window that is stale or empty.
ScanQuietReturns ==
    /\ Scanned
    /\ Fires(Watch[next]) => ~Allow(fingerprint(Watch[next]))
    /\ next' = IF Fresh(load[Watch[next]]) THEN next + 1 ELSE Len(Watch) + 1
    /\ Keep /\ UNCHANGED <<load, pc, out, faults>>

\* A stale or empty window, no detector, or a fingerprint still held: go on.
ScanQuiet ==
    /\ Scanned
    /\ Fires(Watch[next]) => ~Allow(fingerprint(Watch[next]))
    /\ next' = next + 1
    /\ Keep /\ UNCHANGED <<load, pc, out, faults>>

\* A detector fires, the debouncer stamps, and the detection joins the pass.
ScanDetects ==
    LET s == Watch[next] IN
    /\ Scanned
    /\ Fires(s) /\ Allow(fingerprint(s))
    /\ Stamp(fingerprint(s))
    /\ out' = Append(out, SignalFor(s, load[s]))
    /\ next' = next + 1
    /\ UNCHANGED <<load, pc, faults>>

\* The same, but the traffic query fails after the stamp: the pass is over and
\* this detection is dropped with the others.
ScanLoses ==
    LET f == fingerprint(Watch[next]) IN
    /\ Scanned /\ Fault
    /\ Fires(Watch[next]) /\ Allow(f)
    /\ held' = [held EXCEPT ![f] = Hold]
    /\ said' = said \ {f}
    /\ lost' = lost \cup {f} \cup {d.fingerprint : d \in Range(out)}
    /\ pc' = "tick" /\ out' = <<>>
    /\ UNCHANGED <<load, next>>

ScanEnds ==
    /\ pc = "scan" /\ next > Len(Watch)
    /\ pc' = IF out = <<>> THEN "tick" ELSE "publish"
    /\ Keep /\ UNCHANGED <<load, next, out, faults>>

\* runLoop publishes one detection; a failed publish is logged, never retried.
Sent == /\ pc = "publish"
        /\ out' = Tail(out)
        /\ pc' = IF Len(out) = 1 THEN "tick" ELSE "publish"
        /\ UNCHANGED <<load, next, held>>

PublishOk == /\ Sent
             /\ said' = said \cup {Head(out).fingerprint}
             /\ UNCHANGED <<lost, faults>>

PublishFails == /\ Sent /\ Fault
                /\ lost' = lost \cup {Head(out).fingerprint}
                /\ UNCHANGED said

\* SIGTERM or a crash, and the next process: the debounce history is in memory.
Restart ==
    /\ Fault
    /\ pc' = "tick" /\ next' = 1 /\ out' = <<>>
    /\ held' = [f \in Fingerprints |-> 0]
    /\ said' = {} /\ lost' = {}
    /\ UNCHANGED load

\* Time passes, at any point of a pass.
Elapse ==
    /\ \E f \in Fingerprints : held[f] > 0
    /\ held' = [f \in Fingerprints |-> IF held[f] > 0 THEN held[f] - 1 ELSE 0]
    /\ UNCHANGED <<load, pc, next, out, said, lost, faults>>

\* The service moves: Prometheus holds another window for the SLO.
Shift(s) ==
    /\ \E w \in Windows : load' = [load EXCEPT ![s] = w]
    /\ Keep /\ UNCHANGED <<pc, next, out, faults>>

Step == Tick \/ ScanQuiet \/ ScanDetects \/ ScanEnds \/ PublishOk

Next == \/ Step \/ ScanFails \/ ScanLoses \/ PublishFails \/ Restart \/ Elapse
        \/ \E s \in Slos : Shift(s)

\* The loop keeps running and the clock keeps ticking; faults may not happen.
Spec == Init /\ [][Next]_vars /\ WF_vars(Step) /\ WF_vars(Elapse)

-----------------------------------------------------------------------------
\* Type correctness: a pass stays within the watch list, and collects detections
\* only (Reconciler.Reconcile).
TypeOK ==
    /\ load \in [Slos -> Windows]
    /\ pc \in {"tick", "scan", "publish"}
    /\ next \in 1..(Len(Watch) + 1)
    /\ \A d \in Range(out) : d.slo \in Slos /\ d.detector # ""
    /\ held \in [Fingerprints -> 0..Hold]
    /\ said \in SUBSET Fingerprints /\ lost \in SUBSET Fingerprints
    /\ faults \in 0..MaxFaults

\* A fingerprint is held only for a reason an operator can find: its detection
\* of this hold window was published, or is still in the pass, or a fault (a
\* failed query of the same pass, a failed publish) dropped it.  The debouncer
\* never silences a detector by being asked about it (debounce.go, Allow; the
\* order of Allow and TrafficSamples in reconcile.go, Reconcile).
SilenceExplained ==
    \A f \in Fingerprints : held[f] > 0 =>
        f \in said \cup lost \cup {d.fingerprint : d \in Range(out)}

\* The first SLO of the watch list that watches fingerprint f.
Leads(s) == \A i, j \in 1..Len(Watch) :
    Watch[i] = s /\ fingerprint(Watch[j]) = fingerprint(s) => i <= j

\* A service that keeps burning is reported again and again, whatever finite
\* number of queries and publishes fail on the way: a dropped detection costs
\* its hold window and no more (reconcile.go, Reconcile; rattle.go, runLoop).
BurnReported ==
    \A s \in Slos : (<>[](Fires(s)) /\ Leads(s)) => []<>(fingerprint(s) \in said)
=============================================================================
