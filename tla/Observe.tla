------------------------------ MODULE Observe ------------------------------
(***************************************************************************)
(* The tools that read the loop's records from outside: the harvest, the   *)
(* incident projection and the corpus miner, each beside an engine that    *)
(* goes on publishing.  They share nothing but the records, so a behaviour *)
(* runs one of them; the tool it runs is chosen at the start.              *)
(***************************************************************************)
EXTENDS Harvest, Incident, Corpus

CONSTANT Tools    \* of "harvest", "incident", "corpus"

toolVars == <<harvestVars, incidentVars, corpusVars>>
vars == <<recordVars, toolVars>>

Init ==
    /\ tool \in Tools
    /\ RecordsInit /\ HarvestInit /\ IncidentInit /\ CorpusInit
    /\ tool # "harvest" => scenario = CHOOSE s \in Authored : TRUE
    /\ tool # "corpus" => artifact = CHOOSE a \in Artifacts : TRUE

\* Bound: the records are of no more interest once their reader is done.
Ended == CASE tool = "harvest" -> hpc = "exit"
           [] tool = "incident" -> snaps = MaxSnapshots /\ ipc \in {"rest", "done"}
           [] tool = "corpus" -> mines = MaxMines /\ mpc = "rest"

Next ==
    \/ Engine /\ ~Ended /\ UNCHANGED toolVars
    \/ tool = "harvest" /\ (HarvestStep \/ Interrupt) /\ UNCHANGED <<incidentVars, corpusVars>>
    \/ tool = "incident" /\ IncidentStep /\ UNCHANGED <<harvestVars, corpusVars>>
    \/ tool = "corpus" /\ CorpusStep /\ UNCHANGED <<harvestVars, incidentVars>>

\* The harvest's process runs: its commands, its timers and its waits all end.
\* No fairness is asked of the engine, of the other tools or of a person.
Spec == Init /\ [][Next]_vars
             /\ WF_vars(tool = "harvest" /\ HarvestStep /\ UNCHANGED <<incidentVars, corpusVars>>)

-----------------------------------------------------------------------------
\* Every variable stays in its type: of the harvest, the projection and the corpus.
TypeOK ==
    /\ \A i \in DOMAIN stream : stream[i].kind \in Replayed
    /\ \A s \in Subjects \ open : queue[s] = <<>>
    /\ now \in 0..Repeat /\ row \in 0..Repeat /\ Len(results) <= row
    /\ hpc \in {"main", "next", "set", "fault", "open", "settle", "restore", "report", "cool", "exit"}
    /\ rig \subseteq 0..N /\ stuck \subseteq 0..N
    /\ refusal \in {"unset", "armed", "stopped"} /\ matched \in 0..MaxRuns
    /\ ipc \in {"rest", "drain", "apply", "done"} /\ snap.updatedAt \in 0..Len(stream)
    /\ events \subseteq DOMAIN stream
    /\ shipped \subseteq DOMAIN stream /\ sets \cup outs \subseteq shipped
    /\ \A c, d \in merged : IncidentOf(c) = IncidentOf(d) => c = d

\* Between rows and at the end, everything a row applied to the rig has been
\* undone or its restore step failed, and then the exit code says so: whatever
\* failed, and whenever a person interrupted (Harvest.Run's deferred restore).
RigPutBack ==
    tool = "harvest" /\ hpc \in {"main", "next", "cool", "exit"} =>
        /\ rig \subseteq stuck
        /\ rig # {} => failed

\* Two rows of one scenario never report the same run of the reason loop,
\* although the sets leg replays the stream to each (Settle, runIDFresh).
RowsOwnTheirRuns ==
    \A i, j \in DOMAIN results :
        i # j /\ results[i].run # 0 => results[i].run # results[j].run

\* Every harvest ends, answered or not (Settle's window, run).
HarvestEnds == tool = "harvest" ~> hpc = "exit"

\* A finished projection is no older than the stream was when it began: it has
\* applied every object stored before, each of its fields is that of the last
\* of its kind, and the outcomes are in the order they were stored
\* (SnapshotBroker's sort, DrainSubject's batches).
SnapshotCurrent ==
    ipc = "done" =>
        LET before(kind) == {i \in Of(kind) : i <= began /\ stream[i].what # "poison"}
        IN  /\ \A kind \in Subjects : \A i \in before(kind) : i <= snap.updatedAt
            /\ \A i \in before("detection") : i <= snap.detected
            /\ \A i \in before("set") : i <= snap.proposed
            /\ \A i \in before("decision") : i <= snap.governed
            /\ \A i \in before("outcome") : \E k \in DOMAIN snap.settled : snap.settled[k] = i
            /\ \A k, l \in DOMAIN snap.settled : k < l => snap.settled[k] < snap.settled[l]

\* A readable artifact labels every incident an earlier readable one labelled:
\* a run that reads less, or is killed between truncating the file and
\* encoding it, loses no label in silence (writeCorpus, ReadCorpus).
LabelsKept ==
    artifact.is = "file" /\ Readable(artifact) =>
        known \subseteq Labelled(ReadCorpus(artifact))

-----------------------------------------------------------------------------
(* Statements the code's comments make and TLC refutes.                    *)

\* "All four are zero on a refused row: nothing was ever proposed"
\* (settle.go:85-86): a row ends refused only when no fresh set was seen.
RefusedSawNoSet == term = "refused" => matched = 0

\* "a freshly mined batch and an artifact merged across many mining runs
\* collapse the same way" (clank/corpus.go:96-98): a run that read everything
\* leaves the cases a first run would have mined.
MergedAsFresh ==
    [][tool = "corpus" /\ mpc = "encode" /\ mpc' = "rest" /\ artifact'.is = "file" /\ whole
         => MineCorpus(sets, outs) \subseteq artifact'.cases]_vars
=============================================================================
