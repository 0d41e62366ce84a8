----------------------------- MODULE MCObserve -----------------------------
(* Instance of Observe: three authored rows, of which one loads, and four   *)
(* artifacts a miner may find.                                              *)
EXTENDS Observe

MCMaxDetections == [harvest |-> 1, incident |-> 2, corpus |-> 1]
MCMaxStored == [harvest |-> 2, incident |-> 4, corpus |-> 4]

MCAction == [path |-> TRUE, apply |-> "exec"]
MCRow == [name |-> TRUE, signalRef |-> TRUE, fault |-> MCAction, restore |-> MCAction,
          verdict |-> "approved", contractRef |-> TRUE, window |-> 1,
          preconditions |-> <<[set |-> TRUE, restore |-> TRUE]>>]
MCAuthored == {MCRow, [MCRow EXCEPT !.restore.path = FALSE],
               [MCRow EXCEPT !.preconditions[1].restore = FALSE]}

MCLegacy(s) == [signal |-> s, decision |-> 0, outcome |-> 0, run |-> 0,
                result |-> "settled", at |-> 0]
MCFile(v, cs) == [is |-> "file", version |-> v, cases |-> cs]
MCArtifacts == {[is |-> "absent", version |-> 3, cases |-> {}],
                MCFile(0, {MCLegacy("decisionRef"),
                           [MCLegacy("fingerprint") EXCEPT !.result = "applied"]}),
                MCFile(0, {MCLegacy("gone")}), MCFile(4, {})}
=============================================================================
