------------------------------- MODULE Forge -------------------------------
(***************************************************************************)
(* The GitHub client thump cuts maintenance releases with: Read, Cut and   *)
(* Withdraw, one HTTP call at a time, against a repository that people and *)
(* thump's other goroutines also change.                                   *)
(*                                                                         *)
(* setDefaultVariant writes the document back on one line, so a merge sees *)
(* one blob: it goes through when either side left the blob alone.  A blob *)
(* sha is its content.  Pull requests are seen newest first, and nobody    *)
(* reopens one.                                                            *)
(***************************************************************************)
EXTENDS Integers, Sequences

CONSTANTS
    Worker,      \* goroutines that may be inside the client
    Key,         \* release keys: [ref, revert], a ref being a name's parts
    Flag,        \* flags of the flagd document
    Variant,     \* their variants
    Asked,       \* the step a key releases: key -> [flag, variant]
    NoDoc,       \* no document
    MaxFaults    \* bound: failed calls

\* The key of a commit people made.
NoKey == [ref |-> <<>>, revert |-> FALSE]

\* The flagd document of the released path.
Doc == [Flag -> Variant]

\* branchFor: the colon of a revert's key becomes one more dash.
branchFor(key) == IF key.revert THEN Append(key.ref, "revert") ELSE key.ref

\* No contract is named as another's revert branch: the two would share it.
ASSUME ForgeAssumption ==
    /\ \A j, k \in Key : branchFor(j) = branchFor(k) => j = k
    /\ Asked \in [Key -> [flag : Flag, variant : Variant]]
    /\ NoDoc \notin Doc
    /\ NoKey \notin Key
    /\ MaxFaults \in Nat

VARIABLES
    log,       \* the base branch: every commit's document, and who made it
    branch,    \* key -> its branch: absent, cut from base, or ahead of it
    pull,      \* key -> its newest pull request: its number and its state
    job,       \* worker -> the call it is about to make, and its locals
    faults

forgeVars == <<log, branch, pull, job, faults>>

\* A mutant of setDefaultVariant: the flags nobody named are lost.
setOnlyVariant(doc, flag, variant) ==
    [f \in Flag |-> IF f = flag THEN variant ELSE CHOOSE v \in Variant : TRUE]

setDefaultVariant(doc, flag, variant) == [doc EXCEPT ![flag] = variant]

Base == log[Len(log)].doc

Absent == [is |-> "absent", doc |-> NoDoc, from |-> NoDoc]
NoJob(result) == [at |-> "idle", key |-> NoKey, doc |-> NoDoc, read |-> NoDoc, n |-> 0,
                  result |-> result]
Start(at, k) == [at |-> at, key |-> k, doc |-> NoDoc, read |-> NoDoc, n |-> 0,
                 result |-> "none"]

ForgeInit ==
    /\ \E d \in Doc : log = <<[doc |-> d, by |-> NoKey]>>
    /\ branch = [k \in Key |-> Absent]
    /\ pull = [k \in Key |-> [n |-> 0, state |-> "none"]]
    /\ job = [w \in Worker |-> NoJob("none")]
    /\ faults = 0

\* The worker's next call, its locals kept; or the end of the method.
Goes(w, j) == job' = [job EXCEPT ![w] = j]
At(w, at) == Goes(w, [job[w] EXCEPT !.at = at])
Ends(w, result) == Goes(w, [NoJob(result) EXCEPT !.key = job[w].key, !.n = job[w].n])

Fault == faults < MaxFaults /\ faults' = faults + 1

\* A mutating call's answer: seen, or lost after the call took effect.
Answered(w, seen) ==
    \/ seen /\ UNCHANGED faults
    \/ Ends(w, "error") /\ Fault

-----------------------------------------------------------------------------
\* maintenanceReleaseOp: Read, then Cut.

ReadBase(w) ==
    /\ job[w].at = "read"
    /\ Goes(w, [job[w] EXCEPT !.at = "ref",
                   !.doc = setDefaultVariant(Base, Asked[job[w].key].flag,
                                             Asked[job[w].key].variant)])
    /\ UNCHANGED <<log, branch, pull, faults>>

RefSHA(w) ==
    /\ job[w].at = "ref"
    /\ At(w, IF branch[job[w].key] = Absent THEN "base" ELSE "blob")
    /\ UNCHANGED <<log, branch, pull, faults>>

BaseSHA(w) ==
    /\ job[w].at = "base"
    /\ Goes(w, [job[w] EXCEPT !.at = "create", !.read = Base])
    /\ UNCHANGED <<log, branch, pull, faults>>

\* A ref that exists by now is refused.
CreateRef(w) ==
    /\ job[w].at = "create"
    /\ LET k == job[w].key
       IN  IF branch[k] = Absent
           THEN /\ branch' = [branch EXCEPT ![k] =
                                [is |-> "cut", doc |-> job[w].read, from |-> job[w].read]]
                /\ Answered(w, At(w, "blob"))
           ELSE Ends(w, "error") /\ UNCHANGED <<branch, faults>>
    /\ UNCHANGED <<log, pull>>

\* A branch gone by now reads as a file not there yet.
BlobAt(w) ==
    /\ job[w].at = "blob"
    /\ LET current == branch[job[w].key].doc
       IN  Goes(w, [job[w] EXCEPT !.at = IF current = job[w].doc THEN "find" ELSE "put",
                                  !.read = current])
    /\ UNCHANGED <<log, branch, pull, faults>>

\* Mutant: the commit names no branch, and lands on the base.
PutOnBase(w) ==
    /\ job[w].at = "put"
    /\ log' = Append(log, [doc |-> job[w].doc, by |-> job[w].key])
    /\ Answered(w, At(w, "find"))
    /\ UNCHANGED <<branch, pull>>

\* The sha guards the write: a blob that moved is refused.
PutContents(w) ==
    /\ job[w].at = "put"
    /\ LET k == job[w].key
       IN  IF branch[k] # Absent /\ branch[k].doc = job[w].read
           THEN /\ branch' = [branch EXCEPT ![k] = [is |-> "ahead", doc |-> job[w].doc,
                                                    from |-> branch[k].from]]
                /\ Answered(w, At(w, "find"))
           ELSE Ends(w, "error") /\ UNCHANGED <<branch, faults>>
    /\ UNCHANGED <<log, pull>>

FindOpen(w) ==
    /\ job[w].at = "find"
    /\ IF pull[job[w].key].state = "open" THEN Ends(w, "proposed") ELSE At(w, "pull")
    /\ UNCHANGED <<log, branch, pull, faults>>

\* GitHub refuses a second open pull request of a branch, and one with no
\* commit the base lacks.
CreatePull(w) ==
    /\ job[w].at = "pull"
    /\ LET k == job[w].key
       IN  IF branch[k].is = "ahead" /\ pull[k].state # "open"
           THEN /\ pull' = [pull EXCEPT ![k] = [n |-> pull[k].n + 1, state |-> "open"]]
                /\ Answered(w, Ends(w, "proposed"))
           ELSE Ends(w, "error") /\ UNCHANGED <<pull, faults>>
    /\ UNCHANGED <<log, branch>>

-----------------------------------------------------------------------------
\* Withdraw, which is how AcceptanceWatcher.Poll asks.

FindAll(w) ==
    /\ job[w].at = "all"
    /\ LET p == pull[job[w].key]
           at(step, result) == Goes(w, [job[w] EXCEPT !.at = step, !.n = p.n,
                                                      !.result = result])
       IN  CASE p.state = "merged" -> at("idle", "accepted")
             [] p.state = "open"   -> at("close", "none")
             [] OTHER              -> at("idle", "unaccepted")
    /\ UNCHANGED <<log, branch, pull, faults>>

\* Mutant: the pull request is left as it is.
SkipClose(w) ==
    /\ job[w].at = "close"
    /\ Ends(w, "unaccepted")
    /\ UNCHANGED <<log, branch, pull, faults>>

\* The pull request found a moment ago may be merged by now; GitHub then
\* changes nothing, and accepts the call or refuses it.
ClosePull(w) ==
    /\ job[w].at = "close"
    /\ LET k == job[w].key
       IN  /\ pull' = IF pull[k] = [n |-> job[w].n, state |-> "open"]
                      THEN [pull EXCEPT ![k] = [n |-> job[w].n, state |-> "closed"]]
                      ELSE pull
           /\ \/ Answered(w, At(w, "delete"))
              \/ pull[k].state = "merged" /\ Ends(w, "error") /\ UNCHANGED faults
    /\ UNCHANGED <<log, branch>>

\* Deleting a branch closes a pull request still open on it.
DeleteRef(w) ==
    /\ job[w].at = "delete"
    /\ LET k == job[w].key
       IN  IF branch[k] # Absent
           THEN /\ branch' = [branch EXCEPT ![k] = Absent]
                /\ pull' = IF pull[k].state = "open"
                           THEN [pull EXCEPT ![k] = [n |-> pull[k].n, state |-> "closed"]]
                           ELSE pull
                /\ Answered(w, Ends(w, "unaccepted"))
           ELSE Ends(w, "error") /\ UNCHANGED <<branch, pull, faults>>
    /\ UNCHANGED log

\* A call that fails without effect: the network, a status, the deadline.
CallFails(w) ==
    /\ job[w].at # "idle"
    /\ Fault
    /\ Ends(w, "error")
    /\ UNCHANGED <<log, branch, pull>>

ForgeCall(w) ==
    \/ ReadBase(w) \/ RefSHA(w) \/ BaseSHA(w) \/ CreateRef(w) \/ BlobAt(w)
    \/ PutContents(w) \/ FindOpen(w) \/ CreatePull(w)
    \/ FindAll(w) \/ ClosePull(w) \/ DeleteRef(w) \/ CallFails(w)

-----------------------------------------------------------------------------
\* People, and GitHub on their behalf.

Merge(k) ==
    /\ pull[k].state = "open"
    /\ branch[k].is = "ahead"
    /\ Base \in {branch[k].from, branch[k].doc}
    /\ log' = Append(log, [doc |-> branch[k].doc, by |-> k])
    /\ pull' = [pull EXCEPT ![k] = [n |-> pull[k].n, state |-> "merged"]]
    /\ branch' = [branch EXCEPT ![k] =
                    [is |-> "cut", doc |-> branch[k].doc, from |-> branch[k].doc]]
    /\ UNCHANGED <<job, faults>>

Reject(k) ==
    /\ pull[k].state = "open"
    /\ pull' = [pull EXCEPT ![k] = [n |-> pull[k].n, state |-> "closed"]]
    /\ UNCHANGED <<log, branch, job, faults>>

Prune(k) ==
    /\ branch[k] # Absent
    /\ pull[k].state \in {"closed", "merged"}
    /\ branch' = [branch EXCEPT ![k] = Absent]
    /\ UNCHANGED <<log, pull, job, faults>>

EditBase ==
    /\ \E d \in Doc \ {Base} : log' = Append(log, [doc |-> d, by |-> NoKey])
    /\ UNCHANGED <<branch, pull, job, faults>>

-----------------------------------------------------------------------------
\* The client on its own: any worker cuts or withdraws any key.
Call(w, at, k) ==
    /\ job[w].at = "idle"
    /\ Goes(w, Start(at, k))
    /\ UNCHANGED <<log, branch, pull, faults>>

ForgeNext ==
    \/ \E w \in Worker : ForgeCall(w)
    \/ \E w \in Worker, k \in Key : Call(w, "read", k) \/ Call(w, "all", k)
    \/ \E k \in Key : Merge(k) \/ Reject(k) \/ Prune(k)
    \/ EditBase

ForgeSpec == ForgeInit /\ [][ForgeNext]_forgeVars

-----------------------------------------------------------------------------
\* The client's state, and what makes its promise inductive: a cut in
\* progress holds content that carries its key's change, and so does a
\* branch with commits of its own; an open pull request has such a branch.
Step == {"idle", "read", "ref", "base", "create", "blob", "put", "find", "pull",
         "all", "close", "delete"}
Job == [at : Step, key : Key \cup {NoKey}, doc : Doc \cup {NoDoc},
        read : Doc \cup {NoDoc}, n : Nat,
        result : {"none", "error", "proposed", "accepted", "unaccepted"}]

Branch == [is : {"absent", "cut", "ahead"}, doc : Doc \cup {NoDoc},
           from : Doc \cup {NoDoc}]
Pull == [n : Nat, state : {"none", "open", "closed", "merged"}]

ForgeTypeOK ==
    /\ log \in Seq([doc : Doc, by : Key \cup {NoKey}]) /\ log # <<>>
    /\ branch \in [Key -> Branch]
    /\ pull \in [Key -> Pull]
    /\ job \in [Worker -> Job]

\* The promise.  A key's release is its newest pull request; its content is
\* its branch's.
Asks(k, d) == d[Asked[k].flag] = Asked[k].variant

Shown == [none |-> "none", open |-> "open", merged |-> "accepted", closed |-> "withdrawn"]

Reviewed(k) ==
    [state |-> Shown[pull[k].state],
     doc |-> IF pull[k].state = "open" THEN branch[k].doc ELSE NoDoc]

Holds(j) ==
    /\ j.at # "idle" => j.key \in Key
    /\ j.at \in {"ref", "base", "create", "blob", "put", "find", "pull"} =>
           j.doc \in Doc /\ Asks(j.key, j.doc)

ReviewInv ==
    /\ ForgeTypeOK
    /\ \A w \in Worker : Holds(job[w])
    /\ \A k \in Key : branch[k].is = "ahead" => branch[k].doc \in Doc /\ Asks(k, branch[k].doc)
    /\ \A k \in Key : pull[k].state = "open" => branch[k].is = "ahead"

Promise == INSTANCE Review WITH review <- [k \in Key |-> Reviewed(k)],
                               NoKey <- NoKey

\* Cut, Withdraw and everyone else together keep a forge's promise: at most
\* one release of a key is open, it always carries the key's own change, a
\* redelivery rewrites it in place, and the source of record takes a release
\* only through a reviewer who accepted it as it stood.  (github.go Cut,
\* Withdraw; runner.go maintenanceReleaseOp)
KeepsReviewPromise == Promise!Spec
=============================================================================
