------------------------------- MODULE Corpus -------------------------------
(***************************************************************************)
(* The corpus miner (internal/corpus, clank.MineCorpus): it walks the      *)
(* shipped proposals, then the shipped outcomes, then the journal, joins   *)
(* them into cases, merges the cases into the artifact on disk and writes  *)
(* the artifact back.  Segments ship while it runs and in any order, an    *)
(* unreadable segment is skipped, and the miner may be killed at any step. *)
(***************************************************************************)
EXTENDS Records

CONSTANTS
    Artifacts,     \* what may be on disk before the first run
    CorpusVersion, \* the layout this build writes
    MaxMines,      \* bound: runs of the miner
    MaxUnread      \* bound: segments that do not unseal

Case == [signal : STRING, decision : Nat, outcome : Nat, run : Nat, result : STRING, at : Nat]

\* An artifact is a list of cases; the layout's version is its tag, and 0 is
\* an artifact written before there was one.
ASSUME CorpusAssumption ==
    /\ CorpusVersion \in Nat \ {0}
    /\ \A a \in Artifacts : a.cases \in SUBSET Case /\ IsFiniteSet(a.cases)

VARIABLES
    shipped,   \* the objects whose segments are in the object store
    mpc,       \* "rest", "sets", "outcomes", "merge" or "encode"
    sets,      \* the sets read
    outs,      \* the outcomes read
    merged,    \* the cases about to be written
    artifact,  \* the file: [is, version, cases]
    known,     \* the incidents some readable artifact has held a label of
    whole,     \* this run has read every object there was
    mines, unread

corpusVars == <<shipped, mpc, sets, outs, merged, artifact, known, whole, mines, unread>>

-----------------------------------------------------------------------------
\* latestSetBefore: the latest set read that was formed before outcome o.
SetsBefore(read, o) == {s \in read : s < o}

\* newCase: an incident is (signal, decision); the outcome's run stands for its decision.
newCase(s, o) ==
    [signal |-> "fp", decision |-> stream[o].run, outcome |-> o, run |-> stream[s].run,
     result |-> stream[o].what, at |-> o]

IncidentOf(c) == <<c.signal, c.decision>>

\* The incidents these cases label: an applied action is not settled yet.
Labelled(cases) == {IncidentOf(c) : c \in {d \in cases : d.result # "applied"}}

\* The settled cases of one incident, and the latest observed; of a tie the
\* list's order decides, which a set of cases leaves open.
SettledOf(cases, incident) == {c \in cases : c.result # "applied" /\ IncidentOf(c) = incident}

Latest(group) == CHOOSE c \in group : \A d \in group : d.at <= c.at

\* CollapseCases: one settled case per incident.
CollapseCases(cases) == {Latest(SettledOf(cases, incident)) : incident \in Labelled(cases)}

\* MineCorpus: an outcome with no set before it makes no case.
MineCorpus(read, outcomes) ==
    CollapseCases({newCase(Max(SetsBefore(read, o)), o) :
                     o \in {x \in outcomes : SetsBefore(read, x) # {}}})

\* A mutant of mergeCorpus: what was mined replaces what was there.
mergeReplacing(existing, mined) == IF mined = {} THEN existing ELSE mined

\* mergeCorpus: the first case of an outcome wins, and the file's come first.
mergeCorpus(existing, mined) ==
    CollapseCases(existing \cup {c \in mined : \A d \in existing : d.outcome # c.outcome})

\* migrateLegacy: the signal from whichever field still has it.
migrateLegacy(cases) ==
    {[c EXCEPT !.signal = IF c.signal \in {"field", "fingerprint", "decisionRef"}
                          THEN "fp" ELSE ""] : c \in cases}

\* A mutant of Readable: a torn file reads as an empty one.
ReadableTorn(file) == file.is = "torn" \/ file.version <= CorpusVersion

\* ReadCorpus: a missing file is empty, a torn or a newer one is an error.
Readable(file) == file.is # "torn" /\ file.version <= CorpusVersion

ReadCorpus(file) == IF file.version = 0 THEN migrateLegacy(file.cases) ELSE file.cases

-----------------------------------------------------------------------------
CorpusInit ==
    /\ shipped = {} /\ mpc = "rest" /\ sets = {} /\ outs = {} /\ merged = {}
    /\ artifact \in Artifacts
    /\ known = IF Readable(artifact) THEN Labelled(ReadCorpus(artifact)) ELSE {}
    /\ whole = FALSE /\ mines = 0 /\ unread = 0

\* A beat's shipper puts the segment that holds object i.
Ship ==
    /\ \E i \in DOMAIN stream \ shipped : shipped' = shipped \cup {i}
    /\ UNCHANGED <<mpc, sets, outs, merged, artifact, known, whole, mines, unread>>

Mine ==
    /\ mpc = "rest" /\ mines < MaxMines
    /\ mpc' = "sets" /\ mines' = mines + 1 /\ whole' = TRUE
    /\ sets' = {} /\ outs' = {} /\ merged' = {}
    /\ UNCHANGED <<shipped, artifact, known, unread>>

\* Walk: the segments listed, less one that does not unseal; an error when
\* none of them does.
Walk(kind, read) ==
    LET listed == Of(kind) \cap shipped
    IN  \/ read = listed /\ UNCHANGED unread
        \/ /\ unread < MaxUnread /\ unread' = unread + 1
           /\ \E i \in listed : read = listed \ {i}
           /\ read # {}

\* Everything of this kind that the engine stored has been read.
All(kind, read) == read = Of(kind)

WalkProposals ==
    /\ mpc = "sets"
    /\ \E read \in SUBSET (Of("set") \cap shipped) :
         Walk("set", read) /\ sets' = read /\ whole' = All("set", read)
    /\ mpc' = "outcomes"
    /\ UNCHANGED <<shipped, outs, merged, artifact, known, mines>>

WalkOutcomes ==
    /\ mpc = "outcomes"
    /\ \E read \in SUBSET (Of("outcome") \cap shipped) :
         /\ Walk("outcome", read) /\ outs' = read
         /\ whole' = (whole /\ All("outcome", read) /\ All("set", sets))
    /\ mpc' = "merge"
    /\ UNCHANGED <<shipped, sets, merged, artifact, known, mines>>

\* writeCorpus: read, merge, truncate the file ...
Truncate ==
    /\ mpc = "merge" /\ Readable(artifact)
    /\ merged' = mergeCorpus(ReadCorpus(artifact), MineCorpus(sets, outs))
    /\ artifact' = [is |-> "torn", version |-> CorpusVersion, cases |-> {}]
    /\ mpc' = "encode"
    /\ UNCHANGED <<shipped, sets, outs, known, whole, mines, unread>>

\* ... and encode into it.
Encode ==
    /\ mpc = "encode"
    /\ artifact' = [is |-> "file", version |-> CorpusVersion, cases |-> merged]
    /\ known' = known \cup Labelled(merged)
    /\ mpc' = "rest"
    /\ UNCHANGED <<shipped, sets, outs, merged, whole, mines, unread>>

\* The miner ends early: an error of any step, or it is killed.
MineFails ==
    /\ mpc # "rest"
    /\ mpc' = "rest" /\ whole' = FALSE
    /\ UNCHANGED <<shipped, sets, outs, merged, artifact, known, mines, unread>>

CorpusStep ==
    /\ Ship \/ Mine \/ WalkProposals \/ WalkOutcomes \/ Truncate \/ Encode \/ MineFails
    /\ UNCHANGED recordVars
=============================================================================
