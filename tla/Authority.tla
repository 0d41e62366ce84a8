------------------------------ MODULE Authority ------------------------------
(***************************************************************************)
(* hiss's ruling on one proposal.Set: Authority.Evaluate over a loaded     *)
(* Policy, RiskBand and the ranks of the bands.  Pure operators.           *)
(*                                                                         *)
(* A policy is the slice of a Policy that one service tier reads:          *)
(*   gate      "split" or "collapsed";                                     *)
(*   floors    failure class -> tenths, for the classes it names;          *)
(*   maxBand, autoBand   a band, or "" for a tier the map does not name;   *)
(*   requireReversal                                                       *)
(***************************************************************************)
EXTENDS Integers, Sequences

\* LoadPolicy of an empty file: it decodes, to a Policy with every map empty.
ZeroPolicy(classes) ==
    [gate |-> "", floors |-> [c \in classes |-> 0], maxBand |-> "",
     autoBand |-> "", requireReversal |-> FALSE]

\* bandRank: a band it does not know outranks every real one.
bandRank(b) ==
    CASE b = "observe" -> 0
      [] b = "act-reversible" -> 1
      [] b = "act-disruptive" -> 2
      [] OTHER -> 3

\* RiskBand, of a candidate's reversal ("none", "manual" or "automatic") and
\* its authored blast tier.
RiskBand(reversal, blast) ==
    IF reversal = "automatic" /\ blast # "high"
    THEN "act-reversible" ELSE "act-disruptive"

\* selfReportBinds: the model's own confidence keeps its veto where the
\* engine cannot complete the undo of a bounded action by itself.
selfReportBinds(c) ==
    bandRank(RiskBand(c.reversal, c.blast)) > bandRank("act-reversible")

effectiveComputedConfidence(c) ==
    IF c.computed = 0 THEN c.confidence ELSE c.computed

\* Policy.Floors: a class the map does not name reads 0.
FloorFor(pol, class, full) ==
    IF class \in DOMAIN pol.floors THEN (pol.floors[class] * full) \div 10 ELSE 0

\* The candidate a set recommends: the first one carrying that id.
Recommends(set) ==
    {i \in DOMAIN set.proposals :
        /\ set.proposals[i].id = set.recommended
        /\ \A j \in 1..(i - 1) : set.proposals[j].id # set.recommended}

\* Stage one: the vetoes that escalate.  full is a confidence of 1.0.
Vetoes(set, c, pol, frozen, full) ==
    LET floor == FloorFor(pol, set.class, full)
        split == pol.gate = "split"
    IN  {v \in {"grounding_floor", "confidence_floor", "authority_ceiling",
                "irreversible", "freeze_window"} :
            CASE v = "grounding_floor" ->
                    split /\ effectiveComputedConfidence(c) < floor
              [] v = "confidence_floor" ->
                    (split => selfReportBinds(c)) /\ c.confidence < floor
              [] v = "authority_ceiling" ->
                    bandRank(c.band) > bandRank(pol.maxBand)
              [] v = "irreversible" ->
                    pol.requireReversal /\ c.reversal = "none"
              [] v = "freeze_window" -> frozen}

Decision(verdict, reasons) == [verdict |-> verdict, reasons |-> reasons]

\* Mutant: the collapsed gate never reads the confidence floor.
EvaluateNoFloor(set, pol, frozen, full) ==
    IF ~set.passed \/ Recommends(set) = {}
    THEN Decision("rejected", {"ungated_input"})
    ELSE LET c == set.proposals[CHOOSE i \in Recommends(set) : TRUE]
             vetoes == Vetoes(set, c, pol, frozen, full) \ {"confidence_floor"}
         IN  CASE vetoes # {} -> Decision("escalate", vetoes)
               [] bandRank(RiskBand(c.reversal, c.blast)) > bandRank(pol.autoBand) ->
                      Decision("hold", {"risk_ceiling"})
               [] OTHER -> Decision("approved", {})

\* Authority.Evaluate: an ungated set or one that recommends nothing it holds
\* is rejected; any veto escalates; stage two holds a risk above the tier's
\* automatic band; and what is left is approved.
EvaluateSet(set, pol, frozen, full) ==
    IF ~set.passed \/ Recommends(set) = {}
    THEN Decision("rejected", {"ungated_input"})
    ELSE LET c == set.proposals[CHOOSE i \in Recommends(set) : TRUE]
             vetoes == Vetoes(set, c, pol, frozen, full)
         IN  CASE vetoes # {} -> Decision("escalate", vetoes)
               [] bandRank(RiskBand(c.reversal, c.blast)) > bandRank(pol.autoBand) ->
                      Decision("hold", {"risk_ceiling"})
               [] OTHER -> Decision("approved", {})
=============================================================================
