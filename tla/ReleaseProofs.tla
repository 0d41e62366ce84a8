---------------------------- MODULE ReleaseProofs ----------------------------
(***************************************************************************)
(* From an authored profile to a change, for any profiles, workers, keys   *)
(* and flags.  First the GitHub client: ReviewInv is inductive, and under  *)
(* it every HTTP call, and everything people do, is a step of Review or a  *)
(* stutter.  Then the runner and its watchers around it.                   *)
(***************************************************************************)
EXTENDS Release, SequenceTheorems, TLAPS

\* A leaf that names no backend is tried with SMT, then with Zenon.
USE SMTT(40), ZenonT(30)

absVars == <<[k \in Key |-> Reviewed(k)], log>>

\* A worker that moves to a sound job leaves every job sound.
LEMMA GoesKeeps ==
    ASSUME ReviewInv, NEW w \in Worker, NEW j \in Job, Holds(j), Goes(w, j)
    PROVE  job' \in [Worker -> Job] /\ \A v \in Worker : Holds(job'[v])
BY DEF ReviewInv, ForgeTypeOK, Goes

\* A method that returns leaves its worker with nothing to hold.
LEMMA EndsKeeps ==
    ASSUME ReviewInv, NEW w \in Worker, Ends(w, "error") \/ Ends(w, "proposed") \/ Ends(w, "unaccepted")
    PROVE  job' \in [Worker -> Job] /\ \A v \in Worker : Holds(job'[v])
<1>1. PICK r \in {"error", "proposed", "unaccepted"} : Ends(w, r)
  OBVIOUS
<1> DEFINE j == [NoJob(r) EXCEPT !.key = job[w].key, !.n = job[w].n]
<1>2. job[w] \in Job
  BY DEF ReviewInv, ForgeTypeOK
<1>3. j \in Job /\ Holds(j)
  BY <1>2, Zenon DEF NoJob, Job, Step, Holds
<1>4. Goes(w, j)
  BY <1>1 DEF Ends
<1> HIDE DEF j
<1> QED
  BY <1>3, <1>4, GoesKeeps

\* A worker that goes on to its next call keeps its locals, so a cut goes on
\* holding its content.
LEMMA AtKeeps ==
    ASSUME ReviewInv, NEW w \in Worker, NEW at \in Step, At(w, at), job[w].at # "idle",
           at \in {"base", "create", "blob", "put", "find", "pull"} =>
               job[w].at \in {"ref", "base", "create", "blob", "put", "find", "pull"},
           at # "ref"
    PROVE  job' \in [Worker -> Job] /\ \A v \in Worker : Holds(job'[v])
<1> DEFINE j == [job[w] EXCEPT !.at = at]
<1>2. job[w] \in Job /\ Holds(job[w])
  BY DEF ReviewInv, ForgeTypeOK
<1>3. j \in Job /\ Holds(j)
  BY <1>2 DEF Job, Step, Holds
<1>4. Goes(w, j)
  BY DEF At
<1> HIDE DEF j
<1> QED
  BY <1>3, <1>4, GoesKeeps

\* A call that changes nothing in the repository is a stutter.
LEMMA ReadsStutter ==
    ASSUME ReviewInv, UNCHANGED <<log, branch, pull>>,
           job' \in [Worker -> Job], \A v \in Worker : Holds(job'[v])
    PROVE  ReviewInv' /\ UNCHANGED absVars
<1>1. ReviewInv'
  BY DEF ReviewInv, ForgeTypeOK, Asks
<1>2. \A k \in Key : Reviewed(k)' = Reviewed(k)
  BY DEF Reviewed
<1> QED
  BY <1>1, <1>2 DEF absVars

\* The repository after a change to one key's branch and pull request, and to
\* nothing else of it.
LEMMA OneKeyMoves ==
    ASSUME ReviewInv, NEW k \in Key,
           NEW b \in Branch, NEW p \in Pull,
           branch' = [branch EXCEPT ![k] = b], pull' = [pull EXCEPT ![k] = p],
           b.is = "ahead" => b.doc \in Doc /\ Asks(k, b.doc),
           p.state = "open" => b.is = "ahead",
           log' \in Seq([doc : Doc, by : Key \cup {NoKey}]), log' # <<>>,
           job' \in [Worker -> Job], \A v \in Worker : Holds(job'[v])
    PROVE  /\ ReviewInv'
           /\ \A i \in Key \ {k} : Reviewed(i)' = Reviewed(i)
           /\ branch'[k] = b /\ pull'[k] = p
<1>1. branch' \in [Key -> Branch] /\ pull' \in [Key -> Pull]
  BY DEF ReviewInv, ForgeTypeOK
<1>2. branch'[k] = b /\ pull'[k] = p
  BY DEF ReviewInv, ForgeTypeOK
<1>3. \A i \in Key \ {k} : branch'[i] = branch[i] /\ pull'[i] = pull[i]
  BY DEF ReviewInv, ForgeTypeOK
<1>4. \A i \in Key : branch'[i].is = "ahead" => branch'[i].doc \in Doc /\ Asks(i, branch'[i].doc)
  BY <1>2, <1>3 DEF ReviewInv
<1>5. \A i \in Key : pull'[i].state = "open" => branch'[i].is = "ahead"
  BY <1>2, <1>3 DEF ReviewInv
<1>6. ReviewInv'
  BY <1>1, <1>4, <1>5 DEF ReviewInv, ForgeTypeOK, Asks
<1>7. \A i \in Key \ {k} : Reviewed(i)' = Reviewed(i)
  BY <1>3 DEF Reviewed
<1> QED
  BY <1>2, <1>6, <1>7

\* A key whose release reads the same before and after leaves every release
\* as it was.
LEMMA SameReview ==
    ASSUME NEW k \in Key, \A i \in Key \ {k} : Reviewed(i)' = Reviewed(i),
           Reviewed(k)' = Reviewed(k), log' = log
    PROVE  UNCHANGED absVars
<1>1. \A i \in Key : Reviewed(i)' = Reviewed(i)
  OBVIOUS
<1> QED
  BY <1>1 DEF absVars

\* A key whose release changed, and no other key's: the mapped variable is the
\* old one with that key replaced.
LEMMA NewReview ==
    ASSUME NEW k \in Key, \A i \in Key \ {k} : Reviewed(i)' = Reviewed(i)
    PROVE  [i \in Key |-> Reviewed(i)]' = [[i \in Key |-> Reviewed(i)] EXCEPT ![k] = Reviewed(k)']
BY Zenon

CallSound == ReviewInv' /\ [Promise!Next]_absVars

\* The key a busy worker is on, with what the state holds for it.
LEMMA Busy ==
    ASSUME ReviewInv, NEW w \in Worker, job[w].at # "idle"
    PROVE  \E k \in Key : /\ k = job[w].key
                          /\ branch[k] \in Branch /\ pull[k] \in Pull
                          /\ branch = [branch EXCEPT ![k] = branch[k]]
                          /\ pull = [pull EXCEPT ![k] = pull[k]]
                          /\ pull[k].state = "open" => branch[k].is = "ahead"
                          /\ branch[k].is = "ahead" => branch[k].doc \in Doc /\ Asks(k, branch[k].doc)
BY DEF ReviewInv, ForgeTypeOK, Holds

LEMMA CreateRefKeeps ==
    ASSUME ReviewInv, NEW w \in Worker, CreateRef(w)
    PROVE  CallSound
<1>1. job[w].at = "create" /\ job[w] \in Job
  BY DEF ReviewInv, ForgeTypeOK, CreateRef
<1>2. PICK k \in Key : /\ k = job[w].key
                       /\ branch[k] \in Branch /\ pull[k] \in Pull
                       /\ pull = [pull EXCEPT ![k] = pull[k]]
                       /\ pull[k].state = "open" => branch[k].is = "ahead"
  BY <1>1, Busy
<1>3. job' \in [Worker -> Job] /\ \A v \in Worker : Holds(job'[v])
  <2>1. At(w, "blob") \/ Ends(w, "error")
    BY DEF CreateRef, Answered
  <2> QED
    BY <2>1, <1>1, AtKeeps, EndsKeeps DEF Step
<1>4. CASE branch[k] = Absent
  <2>1. PICK b : b = [is |-> "cut", doc |-> job[w].read, from |-> job[w].read]
    BY Zenon
  <2>2. branch' = [branch EXCEPT ![k] = b] /\ pull' = pull /\ log' = log
    BY <1>2, <1>4, <2>1 DEF CreateRef
  <2>3. PICK p : p = pull[k]
    OBVIOUS
  <2>4. p.state # "open" /\ p \in Pull /\ pull' = [pull EXCEPT ![k] = p]
    BY <1>2, <1>4, <2>2, <2>3 DEF Absent
  <2>5. b \in Branch /\ b.is = "cut"
    BY <1>1, <2>1 DEF Branch, Job
  <2>6. /\ ReviewInv' /\ (\A i \in Key \ {k} : Reviewed(i)' = Reviewed(i))
        /\ pull'[k] = p
    BY <1>3, <2>2, <2>4, <2>5, OneKeyMoves, Zenon DEF ReviewInv, ForgeTypeOK
  <2>7. Reviewed(k)' = Reviewed(k)
    BY <2>3, <2>4, <2>6 DEF Reviewed
  <2> QED
    BY <2>2, <2>6, <2>7, SameReview DEF CallSound
<1>5. CASE branch[k] # Absent
  <2>1. UNCHANGED <<log, branch, pull>>
    BY <1>2, <1>5 DEF CreateRef
  <2> QED
    BY <2>1, <1>3, ReadsStutter DEF CallSound
<1> QED
  BY <1>4, <1>5

LEMMA PutContentsKeeps ==
    ASSUME ReviewInv, NEW w \in Worker, PutContents(w)
    PROVE  CallSound
<1>1. job[w].at = "put" /\ job[w] \in Job
  BY DEF ReviewInv, ForgeTypeOK, PutContents
<1>2. PICK k \in Key : /\ k = job[w].key
                       /\ branch[k] \in Branch /\ pull[k] \in Pull
                       /\ pull = [pull EXCEPT ![k] = pull[k]]
  BY <1>1, Busy
<1>3. job' \in [Worker -> Job] /\ \A v \in Worker : Holds(job'[v])
  <2>1. At(w, "find") \/ Ends(w, "error")
    BY DEF PutContents, Answered
  <2> QED
    BY <2>1, <1>1, AtKeeps, EndsKeeps DEF Step
<1>4. CASE branch[k] # Absent /\ branch[k].doc = job[w].read
  <2>1. PICK d \in Doc : d = job[w].doc /\ Asks(k, d)
    BY <1>1, <1>2 DEF ReviewInv, Holds
  <2>2. PICK b : b = [is |-> "ahead", doc |-> d, from |-> branch[k].from]
    BY Zenon
  <2>3. PICK p : p = pull[k]
    OBVIOUS
  <2>4. /\ branch' = [branch EXCEPT ![k] = b] /\ log' = log
        /\ pull' = [pull EXCEPT ![k] = p] /\ p \in Pull
    BY <1>2, <1>4, <2>1, <2>2, <2>3 DEF PutContents
  <2>5. b \in Branch /\ b.is = "ahead" /\ b.doc = d
    BY <1>2, <2>2 DEF Branch
  <2>6. /\ ReviewInv' /\ (\A i \in Key \ {k} : Reviewed(i)' = Reviewed(i))
        /\ branch'[k] = b /\ pull'[k] = p
    BY <1>3, <2>1, <2>4, <2>5, OneKeyMoves, Zenon DEF ReviewInv, ForgeTypeOK
  <2>7. CASE p.state = "open"
    <3>1. Reviewed(k)' = [state |-> "open", doc |-> d]
      BY <2>5, <2>6, <2>7 DEF Reviewed, Shown
    <3>2. [i \in Key |-> Reviewed(i)]'
             = [[i \in Key |-> Reviewed(i)] EXCEPT ![k] = [state |-> "open", doc |-> d]]
      BY <3>1, <2>6, NewReview
    <3>3. Promise!Offer(k)
      BY <3>2, <2>1, <2>4, Zenon DEF Promise!Offer
    <3> QED
      BY <3>3, <2>6 DEF CallSound, Promise!Next
  <2>8. CASE p.state # "open"
    <3>1. Reviewed(k)' = Reviewed(k)
      BY <2>3, <2>4, <2>6, <2>8 DEF Reviewed
    <3> QED
      BY <3>1, <2>4, <2>6, SameReview DEF CallSound
  <2> QED
    BY <2>7, <2>8
<1>5. CASE ~(branch[k] # Absent /\ branch[k].doc = job[w].read)
  <2>1. UNCHANGED <<log, branch, pull>>
    BY <1>2, <1>5 DEF PutContents
  <2> QED
    BY <2>1, <1>3, ReadsStutter DEF CallSound
<1> QED
  BY <1>4, <1>5

\* The newest pull request of k, open, is closed: the release is withdrawn.
LEMMA ClosingRetracts ==
    ASSUME ReviewInv, NEW k \in Key, NEW b \in Branch, pull[k].state = "open",
           b \in {branch[k], Absent}, log' = log,
           branch' = [branch EXCEPT ![k] = b],
           pull' = [pull EXCEPT ![k] = [n |-> pull[k].n, state |-> "closed"]],
           job' \in [Worker -> Job], \A v \in Worker : Holds(job'[v])
    PROVE  CallSound
<1>1. PICK p : p = [n |-> pull[k].n, state |-> "closed"]
  BY Zenon
<1>2. p \in Pull /\ p.state = "closed"
  BY <1>1 DEF ReviewInv, ForgeTypeOK, Pull
<1>3. b.is = "ahead" => b.doc \in Doc /\ Asks(k, b.doc)
  BY DEF ReviewInv, Absent
<1>4. ReviewInv' /\ (\A i \in Key \ {k} : Reviewed(i)' = Reviewed(i)) /\ pull'[k] = p
  BY <1>1, <1>2, <1>3, OneKeyMoves, Zenon DEF ReviewInv, ForgeTypeOK
<1>5. Reviewed(k)' = [state |-> "withdrawn", doc |-> NoDoc]
  BY <1>2, <1>4 DEF Reviewed, Shown
<1>6. [i \in Key |-> Reviewed(i)]'
        = [[i \in Key |-> Reviewed(i)] EXCEPT ![k] = [state |-> "withdrawn", doc |-> NoDoc]]
  BY <1>4, <1>5, NewReview
<1>7. [i \in Key |-> Reviewed(i)][k].state = "open"
  BY DEF Reviewed, Shown
<1>8. Promise!Retract(k)
  BY <1>6, <1>7 DEF Promise!Retract
<1> QED
  BY <1>4, <1>8 DEF CallSound, Promise!Next

LEMMA CreatePullKeeps ==
    ASSUME ReviewInv, NEW w \in Worker, CreatePull(w)
    PROVE  CallSound
<1>1. job[w].at = "pull"
  BY DEF CreatePull
<1>2. PICK k \in Key : /\ k = job[w].key
                       /\ branch[k] \in Branch /\ pull[k] \in Pull
                       /\ branch = [branch EXCEPT ![k] = branch[k]]
                       /\ branch[k].is = "ahead" => branch[k].doc \in Doc /\ Asks(k, branch[k].doc)
  BY <1>1, Busy
<1>3. job' \in [Worker -> Job] /\ \A v \in Worker : Holds(job'[v])
  <2>1. Ends(w, "proposed") \/ Ends(w, "error")
    BY DEF CreatePull, Answered
  <2> QED
    BY <2>1, EndsKeeps
<1>4. CASE branch[k].is = "ahead" /\ pull[k].state # "open"
  <2>1. PICK p : p = [n |-> pull[k].n + 1, state |-> "open"]
    BY Zenon
  <2>2. PICK b : b = branch[k]
    OBVIOUS
  <2>3. /\ pull' = [pull EXCEPT ![k] = p] /\ log' = log
        /\ branch' = [branch EXCEPT ![k] = b]
    BY <1>2, <1>4, <2>1, <2>2 DEF CreatePull
  <2>4. p \in Pull /\ p.state = "open" /\ b \in Branch
    BY <1>2, <2>1, <2>2 DEF Pull
  <2>5. b.is = "ahead" /\ b.doc \in Doc /\ Asks(k, b.doc)
    BY <1>2, <1>4, <2>2
  <2>6. /\ ReviewInv' /\ (\A i \in Key \ {k} : Reviewed(i)' = Reviewed(i))
        /\ branch'[k] = b /\ pull'[k] = p
    BY <1>3, <2>3, <2>4, <2>5, OneKeyMoves, Zenon DEF ReviewInv, ForgeTypeOK
  <2>7. Reviewed(k)' = [state |-> "open", doc |-> b.doc]
    <3>1. Shown["open"] = "open"
      BY DEF Shown
    <3>2. Reviewed(k)' = [state |-> Shown["open"], doc |-> b.doc]
      BY <2>4, <2>6, Zenon DEF Reviewed
    <3> QED
      BY <3>1, <3>2, Zenon
  <2>8. [i \in Key |-> Reviewed(i)]'
          = [[i \in Key |-> Reviewed(i)] EXCEPT ![k] = [state |-> "open", doc |-> b.doc]]
    BY <2>6, <2>7, NewReview
  <2>9. Promise!Offer(k)
    BY <2>3, <2>5, <2>8, Zenon DEF Promise!Offer
  <2> QED
    BY <2>6, <2>9 DEF CallSound, Promise!Next
<1>5. CASE ~(branch[k].is = "ahead" /\ pull[k].state # "open")
  <2>1. UNCHANGED <<log, branch, pull>>
    BY <1>2, <1>5 DEF CreatePull
  <2> QED
    BY <2>1, <1>3, ReadsStutter DEF CallSound
<1> QED
  BY <1>4, <1>5

LEMMA ClosePullKeeps ==
    ASSUME ReviewInv, NEW w \in Worker, ClosePull(w)
    PROVE  CallSound
<1>1. job[w].at = "close"
  BY DEF ClosePull
<1>2. PICK k \in Key : /\ k = job[w].key
                       /\ branch[k] \in Branch /\ pull[k] \in Pull
                       /\ branch = [branch EXCEPT ![k] = branch[k]]
  BY <1>1, Busy
<1>3. job' \in [Worker -> Job] /\ \A v \in Worker : Holds(job'[v])
  <2>1. At(w, "delete") \/ Ends(w, "error")
    BY DEF ClosePull, Answered
  <2> QED
    BY <2>1, <1>1, AtKeeps, EndsKeeps DEF Step
<1>4. CASE pull[k] = [n |-> job[w].n, state |-> "open"]
  <2>1. pull[k].state = "open" /\ pull[k].n = job[w].n
    BY <1>4
  <2>2. /\ pull' = [pull EXCEPT ![k] = [n |-> pull[k].n, state |-> "closed"]]
        /\ log' = log /\ branch' = [branch EXCEPT ![k] = branch[k]]
    BY <1>2, <1>4, <2>1 DEF ClosePull
  <2>3. PICK b : b = branch[k]
    OBVIOUS
  <2> QED
    BY <1>2, <1>3, <2>1, <2>2, <2>3, ClosingRetracts, Zenon
<1>5. CASE pull[k] # [n |-> job[w].n, state |-> "open"]
  <2>1. UNCHANGED <<log, branch, pull>>
    BY <1>2, <1>5 DEF ClosePull
  <2> QED
    BY <2>1, <1>3, ReadsStutter DEF CallSound
<1> QED
  BY <1>4, <1>5

\* A branch that no open pull request needs may go.
LEMMA DroppingStutters ==
    ASSUME ReviewInv, NEW k \in Key, pull[k].state # "open", pull' = pull, log' = log,
           branch' = [branch EXCEPT ![k] = Absent],
           job' \in [Worker -> Job], \A v \in Worker : Holds(job'[v])
    PROVE  CallSound
<1>1. PICK b, p : b = Absent /\ p = pull[k]
  OBVIOUS
<1>2. /\ b \in Branch /\ p \in Pull /\ b.is = "absent" /\ p.state # "open"
      /\ pull' = [pull EXCEPT ![k] = p] /\ branch' = [branch EXCEPT ![k] = b]
  BY <1>1 DEF ReviewInv, ForgeTypeOK, Branch, Absent
<1>3. ReviewInv' /\ (\A i \in Key \ {k} : Reviewed(i)' = Reviewed(i)) /\ pull'[k] = p
  BY <1>2, OneKeyMoves, Zenon DEF ReviewInv, ForgeTypeOK
<1>4. Reviewed(k)' = Reviewed(k)
  BY <1>1, <1>2, <1>3 DEF Reviewed
<1> QED
  BY <1>3, <1>4, SameReview DEF CallSound

LEMMA DeleteRefKeeps ==
    ASSUME ReviewInv, NEW w \in Worker, DeleteRef(w)
    PROVE  CallSound
<1>1. job[w].at = "delete"
  BY DEF DeleteRef
<1>2. PICK k \in Key : k = job[w].key
  BY <1>1, Busy
<1>3. job' \in [Worker -> Job] /\ \A v \in Worker : Holds(job'[v])
  <2>1. Ends(w, "unaccepted") \/ Ends(w, "error")
    BY DEF DeleteRef, Answered
  <2> QED
    BY <2>1, EndsKeeps
<1>4. CASE branch[k] # Absent /\ pull[k].state = "open"
  <2>1. /\ branch' = [branch EXCEPT ![k] = Absent] /\ log' = log
        /\ pull' = [pull EXCEPT ![k] = [n |-> pull[k].n, state |-> "closed"]]
    BY <1>2, <1>4 DEF DeleteRef
  <2>2. Absent \in Branch
    BY DEF Absent, Branch
  <2>3. PICK b : b = Absent
    OBVIOUS
  <2> QED
    BY <1>3, <1>4, <2>1, <2>2, <2>3, ClosingRetracts, Zenon
<1>5. CASE branch[k] # Absent /\ pull[k].state # "open"
  <2>1. branch' = [branch EXCEPT ![k] = Absent] /\ log' = log /\ pull' = pull
    BY <1>2, <1>5 DEF DeleteRef
  <2> QED
    BY <1>3, <1>5, <2>1, DroppingStutters, Zenon
<1>6. CASE branch[k] = Absent
  <2>1. UNCHANGED <<log, branch, pull>>
    BY <1>2, <1>6 DEF DeleteRef
  <2> QED
    BY <2>1, <1>3, ReadsStutter DEF CallSound
<1> QED
  BY <1>4, <1>5, <1>6

LEMMA BaseType ==
    ASSUME ReviewInv
    PROVE  Base \in Doc
<1>1. PICK C : C = [doc : Doc, by : Key \cup {NoKey}]
  BY Zenon
<1>2. log \in Seq(C) /\ log # <<>>
  BY <1>1 DEF ReviewInv, ForgeTypeOK
<1>3. log[Len(log)] \in C
  BY <1>2
<1> QED
  BY <1>1, <1>3 DEF Base

\* The calls that only read, and the ones that fail or begin.
LEMMA ReadingKeeps ==
    ASSUME ReviewInv, NEW w \in Worker,
           \/ ReadBase(w) \/ RefSHA(w) \/ BaseSHA(w) \/ BlobAt(w) \/ FindOpen(w)
           \/ FindAll(w) \/ CallFails(w)
           \/ \E k \in Key : Call(w, "read", k) \/ Call(w, "all", k)
    PROVE  CallSound
<1>1. UNCHANGED <<log, branch, pull>>
  BY DEF ReadBase, RefSHA, BaseSHA, BlobAt, FindOpen, FindAll, CallFails, Call
<1>2. job[w] \in Job /\ Holds(job[w])
  BY DEF ReviewInv, ForgeTypeOK
<1>3. Base \in Doc
  BY BaseType
<1>4. job' \in [Worker -> Job] /\ \A v \in Worker : Holds(job'[v])
  <2>1. CASE ReadBase(w)
    <3>1. PICK d : d = setDefaultVariant(Base, Asked[job[w].key].flag, Asked[job[w].key].variant)
      OBVIOUS
    <3>2. job[w].key \in Key
      BY <2>1, <1>2 DEF ReadBase, Holds
    <3>3. Asked[job[w].key].flag \in Flag /\ Asked[job[w].key].variant \in Variant
      BY <3>2, ForgeAssumption
    <3>4. d \in Doc /\ Asks(job[w].key, d)
      BY <3>1, <3>3, <1>3 DEF setDefaultVariant, Doc, Asks
    <3>5. PICK j : j = [job[w] EXCEPT !.at = "ref", !.doc = d]
      OBVIOUS
    <3>6. j \in Job /\ Holds(j)
      BY <3>2, <3>4, <3>5, <1>2, Zenon DEF Job, Step, Holds
    <3>7. Goes(w, j)
      BY <2>1, <3>1, <3>5 DEF ReadBase
    <3> QED
      BY <3>6, <3>7, GoesKeeps
  <2>2. CASE RefSHA(w)
    <3>1. job[w].at = "ref" /\ (At(w, "base") \/ At(w, "blob"))
      BY <2>2 DEF RefSHA
    <3> QED
      BY <3>1, AtKeeps DEF Step
  <2>3. CASE BaseSHA(w)
    <3>1. PICK j : j = [job[w] EXCEPT !.at = "create", !.read = Base]
      OBVIOUS
    <3>2. j \in Job /\ Holds(j)
      BY <2>3, <3>1, <1>2, <1>3, Zenon DEF BaseSHA, Job, Step, Holds
    <3> QED
      BY <2>3, <3>1, <3>2, GoesKeeps DEF BaseSHA
  <2>4. CASE BlobAt(w)
    <3>1. PICK j : j = [job[w] EXCEPT !.at = IF branch[job[w].key].doc = job[w].doc THEN "find" ELSE "put",
                                      !.read = branch[job[w].key].doc]
      OBVIOUS
    <3>2. branch[job[w].key].doc \in Doc \cup {NoDoc}
      BY <2>4, <1>2 DEF BlobAt, Holds, ReviewInv, ForgeTypeOK, Branch
    <3>3. j \in Job /\ Holds(j)
      BY <2>4, <3>1, <3>2, <1>2, Zenon DEF BlobAt, Job, Step, Holds
    <3> QED
      BY <2>4, <3>1, <3>3, GoesKeeps DEF BlobAt
  <2>5. CASE FindOpen(w)
    <3>1. job[w].at = "find" /\ (Ends(w, "proposed") \/ At(w, "pull"))
      BY <2>5 DEF FindOpen
    <3> QED
      BY <3>1, AtKeeps, EndsKeeps DEF Step
  <2>6. CASE FindAll(w)
    <3>1. pull[job[w].key].n \in Nat
      BY <2>6, <1>2 DEF FindAll, Holds, ReviewInv, ForgeTypeOK, Pull
    <3>2. PICK at \in {"idle", "close"}, r \in {"accepted", "none", "unaccepted"} :
             Goes(w, [job[w] EXCEPT !.at = at, !.n = pull[job[w].key].n, !.result = r])
      BY <2>6 DEF FindAll
    <3>3. PICK j : j = [job[w] EXCEPT !.at = at, !.n = pull[job[w].key].n, !.result = r]
      OBVIOUS
    <3>4. j \in Job /\ Holds(j)
      BY <2>6, <3>1, <3>3, <1>2, Zenon DEF FindAll, Job, Step, Holds
    <3> QED
      BY <3>2, <3>3, <3>4, GoesKeeps
  <2>7. CASE CallFails(w)
    BY <2>7, EndsKeeps DEF CallFails
  <2>8. ASSUME NEW k \in Key, Call(w, "read", k) \/ Call(w, "all", k)
        PROVE  job' \in [Worker -> Job] /\ \A v \in Worker : Holds(job'[v])
    <3>1. PICK at \in {"read", "all"} : Goes(w, Start(at, k))
      BY <2>8 DEF Call
    <3>2. PICK j : j = Start(at, k)
      OBVIOUS
    <3>3. j \in Job /\ Holds(j)
      BY <3>2 DEF Start, Job, Step, Holds
    <3> QED
      BY <3>1, <3>2, <3>3, GoesKeeps
  <2> QED
    BY <2>1, <2>2, <2>3, <2>4, <2>5, <2>6, <2>7, <2>8
<1> QED
  BY <1>1, <1>4, ReadsStutter DEF CallSound

\* A commit on the base branch extends its log.
LEMMA Committed ==
    ASSUME ReviewInv, NEW c \in [doc : Doc, by : Key \cup {NoKey}], log' = Append(log, c)
    PROVE  log' \in Seq([doc : Doc, by : Key \cup {NoKey}]) /\ log' # <<>>
BY DEF ReviewInv, ForgeTypeOK

\* What people do: a merge accepts, a rejection withdraws.
LEMMA PeopleKeep ==
    ASSUME ReviewInv,
           \/ \E k \in Key : Merge(k) \/ Reject(k) \/ Prune(k)
           \/ EditBase
    PROVE  CallSound
<1>1. job' \in [Worker -> Job] /\ \A v \in Worker : Holds(job'[v])
  BY Zenon DEF Merge, Reject, Prune, EditBase, ReviewInv, ForgeTypeOK
<1>2. ASSUME NEW k \in Key, Merge(k)
      PROVE  CallSound
  <2>1. PICK d : d = branch[k].doc
    OBVIOUS
  <2>2. d \in Doc /\ Asks(k, d) /\ branch[k].is = "ahead" /\ pull[k].state = "open"
    BY <1>2, <2>1 DEF Merge, ReviewInv
  <2>3. PICK b, p, c : /\ b = [is |-> "cut", doc |-> d, from |-> d]
                       /\ p = [n |-> pull[k].n, state |-> "merged"]
                       /\ c = [doc |-> d, by |-> k]
    BY Zenon
  <2>4. /\ branch' = [branch EXCEPT ![k] = b] /\ pull' = [pull EXCEPT ![k] = p]
        /\ log' = Append(log, c)
    BY <1>2, <2>1, <2>3 DEF Merge
  <2>5. b \in Branch /\ b.is = "cut" /\ p.state = "merged"
    BY <2>2, <2>3, Zenon DEF Branch
  <2>6. p \in Pull
    BY <2>3 DEF ReviewInv, ForgeTypeOK, Pull
  <2>7. log' \in Seq([doc : Doc, by : Key \cup {NoKey}]) /\ log' # <<>>
    BY <2>2, <2>3, <2>4, Committed, Zenon
  <2>8. ReviewInv' /\ (\A i \in Key \ {k} : Reviewed(i)' = Reviewed(i)) /\ pull'[k] = p
    BY <1>1, <2>4, <2>5, <2>6, <2>7, OneKeyMoves, Zenon
  <2>9. Reviewed(k)' = [state |-> "accepted", doc |-> NoDoc]
    <3>1. Shown["merged"] = "accepted" /\ "merged" # "open"
      BY DEF Shown
    <3>2. Reviewed(k)' = [state |-> Shown["merged"], doc |-> NoDoc]
      BY <2>5, <2>8, <3>1, Zenon DEF Reviewed
    <3> QED
      BY <3>1, <3>2, Zenon
  <2>10. [i \in Key |-> Reviewed(i)]'
           = [[i \in Key |-> Reviewed(i)] EXCEPT ![k] = [state |-> "accepted", doc |-> NoDoc]]
    BY <2>8, <2>9, NewReview
  <2>11. [i \in Key |-> Reviewed(i)][k] = [state |-> "open", doc |-> d]
    BY <2>1, <2>2 DEF Reviewed, Shown
  <2>12. Promise!Accept(k)
    BY <2>3, <2>4, <2>10, <2>11 DEF Promise!Accept
  <2> QED
    BY <2>8, <2>12 DEF CallSound, Promise!Next
<1>3. ASSUME NEW k \in Key, Reject(k)
      PROVE  CallSound
  <2>1. PICK b : b = branch[k]
    OBVIOUS
  <2>2. b \in Branch /\ branch' = [branch EXCEPT ![k] = b]
    BY <1>3, <2>1 DEF Reject, ReviewInv, ForgeTypeOK
  <2> QED
    BY <1>1, <1>3, <2>1, <2>2, ClosingRetracts, Zenon DEF Reject
<1>4. ASSUME NEW k \in Key, Prune(k)
      PROVE  CallSound
  <2>1. pull[k].state # "open"
    BY <1>4 DEF Prune
  <2> QED
    BY <1>1, <1>4, <2>1, DroppingStutters, Zenon DEF Prune
<1>5. CASE EditBase
  <2>1. PICK d \in Doc : log' = Append(log, [doc |-> d, by |-> NoKey])
    BY <1>5 DEF EditBase
  <2>2. PICK c : c = [doc |-> d, by |-> NoKey]
    BY Zenon
  <2>3. log' \in Seq([doc : Doc, by : Key \cup {NoKey}]) /\ log' # <<>>
    BY <2>1, <2>2, Committed, Zenon
  <2>4. UNCHANGED <<branch, pull, job>>
    BY <1>5 DEF EditBase
  <2>5. ReviewInv'
    BY <2>3, <2>4, Zenon DEF ReviewInv, ForgeTypeOK, Asks, Holds
  <2>6. [i \in Key |-> Reviewed(i)]' = [i \in Key |-> Reviewed(i)]
    BY <2>4 DEF Reviewed
  <2>7. Promise!Commit
    BY <2>1, <2>6 DEF Promise!Commit
  <2> QED
    BY <2>5, <2>7 DEF CallSound, Promise!Next
<1> QED
  BY <1>2, <1>3, <1>4, <1>5

\* The initial states: no branch, no pull request, and people's first commit.
LEMMA InitKeeps ==
    ASSUME ForgeInit
    PROVE  ReviewInv /\ Promise!Init
<1>1. PICK d \in Doc : log = <<[doc |-> d, by |-> NoKey]>>
  BY DEF ForgeInit
<1>2. log \in Seq([doc : Doc, by : Key \cup {NoKey}]) /\ log # <<>>
  BY <1>1
<1>3. branch \in [Key -> Branch] /\ pull \in [Key -> Pull] /\ job \in [Worker -> Job]
  BY DEF ForgeInit, Branch, Pull, Job, Step, NoJob, Absent
<1>4. \A w \in Worker : Holds(job[w])
  BY Zenon DEF ForgeInit, NoJob, Holds
<1>5. \A k \in Key : branch[k].is = "absent" /\ pull[k].state = "none"
  BY DEF ForgeInit, Absent
<1>6. ReviewInv
  BY <1>2, <1>3, <1>4, <1>5 DEF ReviewInv, ForgeTypeOK
<1>7. \A k \in Key : Reviewed(k) = [state |-> "none", doc |-> NoDoc]
  BY <1>5 DEF Reviewed, Shown
<1>8. [k \in Key |-> Reviewed(k)] = [k \in Key |-> [state |-> "none", doc |-> NoDoc]]
  BY <1>7
<1> QED
  BY <1>1, <1>6, <1>8 DEF Promise!Init

\* The client implements the promise, whatever the workers, the keys, the
\* flags and the number of failed calls: every behaviour of Cut and Withdraw
\* among people who merge, reject, prune and edit is, seen through its newest
\* pull requests, a behaviour of Review.
THEOREM ForgeImplementsReview == ForgeSpec => KeepsReviewPromise
<1>1. ForgeInit => ReviewInv /\ Promise!Init
  BY InitKeeps
<1>2. ReviewInv /\ [ForgeNext]_forgeVars => ReviewInv' /\ [Promise!Next]_absVars
  <2> SUFFICES ASSUME ReviewInv, [ForgeNext]_forgeVars
               PROVE  CallSound
    BY DEF CallSound
  <2>1. CASE UNCHANGED forgeVars
    <3>1. UNCHANGED <<log, branch, pull, job>>
      BY <2>1 DEF forgeVars
    <3>2. job' \in [Worker -> Job] /\ \A v \in Worker : Holds(job'[v])
      BY <3>1 DEF ReviewInv, ForgeTypeOK
    <3> QED
      BY <3>1, <3>2, ReadsStutter DEF CallSound
  <2>2. ASSUME NEW w \in Worker, ForgeCall(w)
        PROVE  CallSound
    BY <2>2, ReadingKeeps, CreateRefKeeps, PutContentsKeeps, CreatePullKeeps,
       ClosePullKeeps, DeleteRefKeeps DEF ForgeCall
  <2>3. ASSUME NEW w \in Worker, NEW k \in Key, Call(w, "read", k) \/ Call(w, "all", k)
        PROVE  CallSound
    BY <2>3, ReadingKeeps
  <2> QED
    BY <2>1, <2>2, <2>3, PeopleKeep DEF ForgeNext
<1> QED
  BY <1>1, <1>2, PTL DEF ForgeSpec, KeepsReviewPromise, Promise!Spec, absVars

-----------------------------------------------------------------------------
\* The runner.  A run in progress carries out the rest of the steps of a
\* contract of the catalog; a document it is about to patch in is the one it
\* read with the step's flag set.
StepsOf(c, reverse) == IF reverse THEN c.reverse ELSE c.forward

RunOf(p) ==
    [ref : {c.name : c \in p.catalog.has}, reverse : BOOLEAN,
     todo : Seq(AuthoredStep), steps : Seq(AuthoredStep),
     read : Doc \cup {NoDoc}, doc : Doc \cup {NoDoc}, cutting : BOOLEAN]

CarriesOut(p, r) ==
    /\ r \in RunOf(p)
    /\ r.todo # <<>>
    /\ \E c \in p.catalog.has :
         /\ r.ref = c.name
         /\ r.steps = StepsOf(c, r.reverse)
         /\ \A i \in DOMAIN r.todo : \E j \in DOMAIN r.steps : r.todo[i] = r.steps[j]
    /\ r.doc # NoDoc =>
         /\ r.read \in Doc /\ Head(r.todo).flag \in Flag
         /\ r.doc = setDefaultVariant(r.read, Head(r.todo).flag, Head(r.todo).variant)

\* What is about to be patched in, if anything, is the document read with the
\* step's flag set.
Patches(r) ==
    r.doc # NoDoc =>
        /\ r.read \in Doc /\ Head(r.todo).flag \in Flag
        /\ r.doc = setDefaultVariant(r.read, Head(r.todo).flag, Head(r.todo).variant)

\* A later moment of the same run.
LEMMA SameContract ==
    ASSUME NEW p, NEW r, NEW x, CarriesOut(p, r), x \in RunOf(p), x.todo # <<>>,
           x.ref = r.ref, x.reverse = r.reverse, x.steps = r.steps,
           \A i \in DOMAIN x.todo : \E j \in DOMAIN r.todo : x.todo[i] = r.todo[j],
           Patches(x)
    PROVE  CarriesOut(p, x)
<1>1. PICK c \in p.catalog.has :
         /\ r.ref = c.name
         /\ r.steps = StepsOf(c, r.reverse)
         /\ \A i \in DOMAIN r.todo : \E j \in DOMAIN r.steps : r.todo[i] = r.steps[j]
  BY Zenon DEF CarriesOut
<1>2. x.ref = c.name /\ x.steps = StepsOf(c, x.reverse)
  BY <1>1, Zenon
<1>3. \A i \in DOMAIN x.todo : \E j \in DOMAIN x.steps : x.todo[i] = x.steps[j]
  <2>1. TAKE i \in DOMAIN x.todo
  <2>2. PICK m \in DOMAIN r.todo : x.todo[i] = r.todo[m]
    BY Zenon
  <2>3. PICK j \in DOMAIN r.steps : r.todo[m] = r.steps[j]
    BY <1>1, Zenon
  <2> QED
    BY <2>2, <2>3, Zenon
<1> QED
  BY <1>2, <1>3, Zenon DEF CarriesOut, Patches

RunsSound ==
    /\ run = [w \in Worker |-> run[w]]
    /\ \A w \in Worker : run[w] = NoRun \/ CarriesOut(profile, run[w])

\* A release to poll was cut under a key of its contract.
OwedSound == \A o \in owed : o.kind = "poll" => releaseKey(o.ref, FALSE) \in Key

\* thump runs on the profile it bound, and nothing is under way while it is down.
UpSound ==
    /\ profile \in Profiles
    /\ up => bind(profile.catalog.has, ForgeWired)
    /\ ~up => /\ owed = {}
              /\ \A w \in Worker : run[w] = NoRun /\ job[w] = NoJob("none")

\* Pull request n is no longer the open one of its key, and nobody reopens one.
Shut(q, n) == q.n > n \/ (q.n = n /\ q.state # "open")

Withdrawing(j, pulls) ==
    /\ j.at \in {"close", "delete"} \/ j.result = "unaccepted" => j.key \in Key
    /\ j.at = "close" => pulls[j.key].n >= j.n
    /\ j.at = "delete" \/ j.result = "unaccepted" => Shut(pulls[j.key], j.n)

LEMMA LaterIsShut ==
    ASSUME NEW q, NEW n \in Nat, q.n \in Nat, q.n >= n, q.n # n \/ q.state # "open"
    PROVE  Shut(q, n)
BY DEF Shut

LEMMA ShutIsNotOpen ==
    ASSUME NEW q, NEW n \in Nat, q.n \in Nat, Shut(q, n)
    PROVE  q # [n |-> n, state |-> "open"]
BY DEF Shut

WithdrawSound == \A w \in Worker : Withdrawing(job[w], pull)

ReleaseInv ==
    /\ TypeOK
    /\ ReviewInv
    /\ RunsSound
    /\ OwedSound
    /\ UpSound
    /\ WithdrawSound
    /\ verdict = "ok" => All({profile})

-----------------------------------------------------------------------------
\* A key's newest pull request changes by being superseded, or by ceasing to be
\* open.
Advances(q, r) ==
    \/ r = q
    \/ r.n = q.n /\ r.state # "open"
    \/ r.n = q.n + 1

LEMMA WithdrawingKept ==
    ASSUME NEW j \in Job, NEW before \in [Key -> Pull], NEW after \in [Key -> Pull],
           \A k \in Key : Advances(before[k], after[k]), Withdrawing(j, before)
    PROVE  Withdrawing(j, after)
<1>1. j.n \in Nat
  BY DEF Job
<1>2. \A k \in Key : before[k].n \in Nat /\ after[k].n \in Nat
  BY DEF Pull
<1>3. \A k \in Key : before[k].n <= after[k].n
                     /\ (Shut(before[k], j.n) => Shut(after[k], j.n))
  BY <1>1, <1>2 DEF Advances, Shut
<1> QED
  BY <1>1, <1>2, <1>3 DEF Withdrawing

\* A job that withdraws nothing, or goes on with what it knew.
LEMMA WithdrawingNothing ==
    ASSUME NEW i \in Job, NEW j \in Job, NEW pulls, Withdrawing(i, pulls),
           j.at \notin {"close", "delete"},
           \/ j.result # "unaccepted"
           \/ j.result = i.result /\ j.key = i.key /\ j.n = i.n
    PROVE  Withdrawing(j, pulls)
BY DEF Withdrawing

\* One worker's call, whatever it did to the pull requests.
LEMMA WithdrawStep ==
    ASSUME ReviewInv, ReviewInv', WithdrawSound, NEW w \in Worker, NEW j \in Job,
           Goes(w, j), \A k \in Key : Advances(pull[k], pull'[k]),
           Withdrawing(j, pull')
    PROVE  WithdrawSound'
<1>1. /\ pull \in [Key -> Pull] /\ pull' \in [Key -> Pull]
      /\ job \in [Worker -> Job]
  BY DEF ReviewInv, ForgeTypeOK
<1> SUFFICES ASSUME NEW v \in Worker
             PROVE  Withdrawing(job'[v], pull')
  BY DEF WithdrawSound
<1>2. CASE v = w
  BY <1>1, <1>2 DEF Goes
<1>3. CASE v # w
  <2> DEFINE before == pull
             after == pull'
  <2>1. job'[v] = job[v] /\ job[v] \in Job /\ Withdrawing(job[v], before)
    BY <1>1, <1>3 DEF Goes, WithdrawSound
  <2>2. /\ before \in [Key -> Pull] /\ after \in [Key -> Pull]
        /\ \A k \in Key : Advances(before[k], after[k])
    BY <1>1
  <2> HIDE DEF before, after
  <2>3. Withdrawing(job[v], after)
    BY <2>1, <2>2, WithdrawingKept
  <2> QED
    BY <2>1, <2>3 DEF after
<1> QED
  BY <1>2, <1>3

\* Every call but those of Withdraw moves its worker to a job that withdraws
\* nothing.
LEMMA CutWithdrawsNothing ==
    ASSUME ReviewInv, NEW w \in Worker,
           \/ ReadBase(w) \/ RefSHA(w) \/ BaseSHA(w) \/ CreateRef(w) \/ BlobAt(w)
           \/ PutContents(w) \/ FindOpen(w) \/ CreatePull(w) \/ CallFails(w)
    PROVE  /\ Goes(w, job'[w])
           /\ job'[w].at \notin {"close", "delete"}
           /\ \/ job'[w].result # "unaccepted"
              \/ /\ job'[w].result = job[w].result
                 /\ job'[w].key = job[w].key /\ job'[w].n = job[w].n
<1>1. job \in [Worker -> Job] /\ job[w] \in Job
  BY DEF ReviewInv, ForgeTypeOK
<1>2. ASSUME NEW x, Goes(w, x)
      PROVE  job'[w] = x /\ Goes(w, job'[w])
  BY <1>1, <1>2 DEF Goes
<1>3. CASE ReadBase(w)
  <2>1. PICK doc : Goes(w, [job[w] EXCEPT !.at = "ref", !.doc = doc])
    BY <1>3, Zenon DEF ReadBase
  <2> DEFINE x == [job[w] EXCEPT !.at = "ref", !.doc = doc]
  <2>2. /\ Goes(w, x) /\ x.at \notin {"close", "delete"}
        /\ x.result = job[w].result /\ x.key = job[w].key /\ x.n = job[w].n
    BY <1>1, <2>1 DEF Job
  <2> HIDE DEF x
  <2> QED
    BY <1>2, <2>2, Zenon
<1>4. CASE BaseSHA(w)
  <2>1. PICK read : Goes(w, [job[w] EXCEPT !.at = "create", !.read = read])
    BY <1>4, Zenon DEF BaseSHA
  <2> DEFINE x == [job[w] EXCEPT !.at = "create", !.read = read]
  <2>2. /\ Goes(w, x) /\ x.at \notin {"close", "delete"}
        /\ x.result = job[w].result /\ x.key = job[w].key /\ x.n = job[w].n
    BY <1>1, <2>1 DEF Job
  <2> HIDE DEF x
  <2> QED
    BY <1>2, <2>2, Zenon
<1>5. CASE BlobAt(w)
  <2>1. PICK at, read :
           /\ at = IF branch[job[w].key].doc = job[w].doc THEN "find" ELSE "put"
           /\ Goes(w, [job[w] EXCEPT !.at = at, !.read = read])
    BY <1>5, Zenon DEF BlobAt
  <2> DEFINE x == [job[w] EXCEPT !.at = at, !.read = read]
  <2>2. /\ Goes(w, x) /\ x.at \notin {"close", "delete"}
        /\ x.result = job[w].result /\ x.key = job[w].key /\ x.n = job[w].n
    BY <1>1, <2>1 DEF Job
  <2> HIDE DEF x
  <2> QED
    BY <1>2, <2>2, Zenon
<1>6. CASE \/ RefSHA(w) \/ CreateRef(w) \/ PutContents(w) \/ FindOpen(w)
           \/ CreatePull(w) \/ CallFails(w)
  <2>1. \/ \E at \in {"base", "blob", "find", "pull"} : At(w, at)
        \/ \E r \in {"error", "proposed"} : Ends(w, r)
    <3>1. CASE RefSHA(w)
      BY <3>1, Zenon DEF RefSHA
    <3>2. CASE CreateRef(w)
      BY <3>2, Zenon DEF CreateRef, Answered
    <3>3. CASE PutContents(w)
      BY <3>3 DEF PutContents, Answered
    <3>4. CASE FindOpen(w)
      BY <3>4, Zenon DEF FindOpen
    <3>5. CASE CreatePull(w)
      BY <3>5, Zenon DEF CreatePull, Answered
    <3>6. CASE CallFails(w)
      BY <3>6, Zenon DEF CallFails
    <3> QED
      BY <1>6, <3>1, <3>2, <3>3, <3>4, <3>5, <3>6
  <2>2. ASSUME NEW at \in {"base", "blob", "find", "pull"}, At(w, at)
        PROVE  /\ Goes(w, job'[w]) /\ job'[w].at \notin {"close", "delete"}
               /\ job'[w].result = job[w].result
               /\ job'[w].key = job[w].key /\ job'[w].n = job[w].n
    <3> DEFINE x == [job[w] EXCEPT !.at = at]
    <3>1. /\ Goes(w, x) /\ x.at = at
          /\ x.result = job[w].result /\ x.key = job[w].key /\ x.n = job[w].n
      BY <1>1, <2>2 DEF At, Job
    <3> HIDE DEF x
    <3> QED
      BY <1>2, <2>2, <3>1
  <2>3. ASSUME NEW r \in {"error", "proposed"}, Ends(w, r)
        PROVE  /\ Goes(w, job'[w]) /\ job'[w].at \notin {"close", "delete"}
               /\ job'[w].result # "unaccepted"
    <3> DEFINE x == [NoJob(r) EXCEPT !.key = job[w].key, !.n = job[w].n]
    <3>1. Goes(w, x) /\ x.at = "idle" /\ x.result = r
      BY <2>3 DEF Ends, NoJob
    <3> HIDE DEF x
    <3> QED
      BY <1>2, <2>3, <3>1
  <2> QED
    BY <2>1, <2>2, <2>3, Zenon
<1> QED
  BY <1>3, <1>4, <1>5, <1>6, Zenon

\* What the client does to the newest pull request of a key.
LEMMA PullsAdvance ==
    ASSUME ReviewInv,
           \/ \E w \in Worker : ForgeCall(w)
           \/ \E k \in Key : Merge(k) \/ Reject(k) \/ Prune(k)
           \/ EditBase
    PROVE  \A k \in Key : Advances(pull[k], pull'[k])
<1>1. pull \in [Key -> Pull]
  BY DEF ReviewInv, ForgeTypeOK
<1>2. ASSUME NEW i \in Key, NEW q, Advances(pull[i], q), pull' = [pull EXCEPT ![i] = q]
      PROVE  \A k \in Key : Advances(pull[k], pull'[k])
  BY <1>1, <1>2 DEF Advances
<1>3. CASE pull' = pull
  BY <1>3 DEF Advances
<1>4. ASSUME NEW w \in Worker, CreatePull(w) \/ ClosePull(w) \/ DeleteRef(w)
      PROVE  \A k \in Key : Advances(pull[k], pull'[k])
  <2>1. PICK i \in Key : i = job[w].key
    BY <1>4, Busy, Zenon DEF CreatePull, ClosePull, DeleteRef
  <2>2. PICK q : /\ pull' = pull \/ pull' = [pull EXCEPT ![i] = q]
                 /\ \/ q = [n |-> pull[i].n + 1, state |-> "open"]
                    \/ q = [n |-> job[w].n, state |-> "closed"]
                       /\ pull[i] = [n |-> job[w].n, state |-> "open"]
                    \/ q = [n |-> pull[i].n, state |-> "closed"]
    <3>1. CASE CreatePull(w)
      BY <2>1, <3>1, Zenon DEF CreatePull
    <3>2. CASE ClosePull(w)
      BY <2>1, <3>2, Zenon DEF ClosePull
    <3>3. CASE DeleteRef(w)
      BY <2>1, <3>3 DEF DeleteRef
    <3> QED
      BY <1>4, <3>1, <3>2, <3>3, Zenon
  <2>3. Advances(pull[i], q)
    BY <2>2 DEF Advances
  <2> QED
    BY <1>2, <1>3, <2>2, <2>3, Zenon
<1>5. ASSUME NEW k \in Key, Merge(k) \/ Reject(k) \/ Prune(k)
      PROVE  \A i \in Key : Advances(pull[i], pull'[i])
  <2>1. PICK q : /\ pull' = pull \/ pull' = [pull EXCEPT ![k] = q]
                 /\ \/ q = [n |-> pull[k].n, state |-> "merged"]
                    \/ q = [n |-> pull[k].n, state |-> "closed"]
    BY <1>5, Zenon DEF Merge, Reject, Prune
  <2>2. Advances(pull[k], q)
    BY <2>1 DEF Advances
  <2> QED
    BY <1>2, <1>3, <2>1, <2>2, Zenon
<1>6. CASE EditBase
  BY <1>3, <1>6 DEF EditBase
<1>7. ASSUME NEW w \in Worker,
             \/ ReadBase(w) \/ RefSHA(w) \/ BaseSHA(w) \/ CreateRef(w) \/ BlobAt(w)
             \/ PutContents(w) \/ FindOpen(w) \/ FindAll(w) \/ CallFails(w)
      PROVE  pull' = pull
  BY <1>7 DEF ReadBase, RefSHA, BaseSHA, CreateRef, BlobAt, PutContents, FindOpen,
     FindAll, CallFails
<1> QED
  BY <1>3, <1>4, <1>5, <1>6, <1>7 DEF ForgeCall

\* Withdraw's own calls.  The answer that nobody accepted is given about a pull
\* request that was not open, or that the close and the deletion shut.
LEMMA WithdrawCalls ==
    ASSUME ReviewInv, WithdrawSound, NEW w \in Worker, pull' \in [Key -> Pull],
           FindAll(w) \/ ClosePull(w) \/ DeleteRef(w)
    PROVE  Goes(w, job'[w]) /\ Withdrawing(job'[w], pull')
<1>1. /\ job \in [Worker -> Job] /\ job[w] \in Job /\ pull \in [Key -> Pull]
      /\ Withdrawing(job[w], pull)
  BY DEF ReviewInv, ForgeTypeOK, WithdrawSound
<1>2. ASSUME NEW x, Goes(w, x)
      PROVE  job'[w] = x /\ Goes(w, job'[w])
  BY <1>1, <1>2 DEF Goes
<1>3. PICK k \in Key : k = job[w].key
  BY Busy, Zenon DEF FindAll, ClosePull, DeleteRef
<1>4. pull[k] \in Pull /\ pull[k].n \in Nat /\ job[w].n \in Nat /\ pull'[k].n \in Nat
  BY <1>1 DEF Pull, Job
<1>5. CASE FindAll(w)
  <2>1. PICK at, r :
           /\ Goes(w, [job[w] EXCEPT !.at = at, !.n = pull[k].n, !.result = r])
           /\ \/ at = "idle" /\ r = "accepted"
              \/ at = "close" /\ r = "none"
              \/ at = "idle" /\ r = "unaccepted" /\ pull[k].state # "open"
    BY <1>3, <1>5, Zenon DEF FindAll
  <2> DEFINE x == [job[w] EXCEPT !.at = at, !.n = pull[k].n, !.result = r]
  <2>2. Goes(w, x) /\ x.at = at /\ x.n = pull[k].n /\ x.result = r /\ x.key = k
    BY <1>1, <1>3, <2>1 DEF Job
  <2> HIDE DEF x
  <2>3. pull' = pull
    BY <1>5 DEF FindAll
  <2>4. Withdrawing(x, pull)
    BY <1>4, <2>1, <2>2 DEF Withdrawing, Shut
  <2> QED
    BY <1>2, <2>2, <2>3, <2>4
<1>6. CASE ClosePull(w)
  <2>1. job[w].at = "close" /\ pull[k].n >= job[w].n
    BY <1>1, <1>3, <1>6, Zenon DEF ClosePull, Withdrawing
  <2>2. Shut(pull'[k], job[w].n)
    <3>1. CASE pull[k] = [n |-> job[w].n, state |-> "open"]
      <4>1. pull'[k] = [n |-> job[w].n, state |-> "closed"]
        BY <1>1, <1>3, <1>6, <3>1, Zenon DEF ClosePull
      <4> QED
        BY <4>1 DEF Shut
    <3>2. CASE pull[k] # [n |-> job[w].n, state |-> "open"]
      <4>1. pull' = pull
        BY <1>3, <1>6, <3>2, Zenon DEF ClosePull
      <4>2. pull[k].n # job[w].n \/ pull[k].state # "open"
        BY <1>4, <3>2 DEF Pull
      <4>3. pull[k].n \in Nat /\ job[w].n \in Nat
        BY <1>4 DEF Pull
      <4>4. Shut(pull[k], job[w].n)
        BY <2>1, <4>2, <4>3, LaterIsShut, Zenon
      <4> QED
        BY <4>1, <4>4, Zenon
    <3> QED
      BY <3>1, <3>2, Zenon
  <2>3. At(w, "delete") \/ Ends(w, "error")
    BY <1>6, Zenon DEF ClosePull, Answered
  <2>4. CASE At(w, "delete")
    <3> DEFINE x == [job[w] EXCEPT !.at = "delete"]
    <3>1. /\ Goes(w, x) /\ x.at = "delete" /\ x.key = k /\ x.n = job[w].n
      BY <1>1, <1>3, <2>4 DEF At, Job
    <3> HIDE DEF x
    <3>2. Withdrawing(x, pull')
      BY <2>2, <3>1, Zenon DEF Withdrawing
    <3> QED
      BY <1>2, <3>1, <3>2, Zenon
  <2>5. CASE Ends(w, "error")
    <3> DEFINE x == [NoJob("error") EXCEPT !.key = job[w].key, !.n = job[w].n]
    <3>1. Goes(w, x) /\ x.at = "idle" /\ x.result = "error"
      BY <2>5 DEF Ends, NoJob
    <3> HIDE DEF x
    <3>2. Withdrawing(x, pull')
      BY <3>1 DEF Withdrawing
    <3> QED
      BY <1>2, <3>1, <3>2, Zenon
  <2> QED
    BY <2>3, <2>4, <2>5
<1>7. CASE DeleteRef(w)
  <2>1. Shut(pull[k], job[w].n)
    BY <1>1, <1>3, <1>7, Zenon DEF DeleteRef, Withdrawing
  <2>2. Shut(pull'[k], job[w].n)
    <3>1. pull' = pull \/ pull' = [pull EXCEPT ![k] = [n |-> pull[k].n, state |-> "closed"]]
      BY <1>3, <1>7, Zenon DEF DeleteRef
    <3> QED
      BY <1>1, <1>4, <2>1, <3>1 DEF Shut
  <2>3. PICK r \in {"unaccepted", "error"} : Ends(w, r)
    BY <1>7, Zenon DEF DeleteRef, Answered
  <2> DEFINE x == [NoJob(r) EXCEPT !.key = job[w].key, !.n = job[w].n]
  <2>4. Goes(w, x) /\ x.at = "idle" /\ x.key = k /\ x.n = job[w].n
    BY <1>3, <2>3 DEF Ends, NoJob
  <2> HIDE DEF x
  <2>5. Withdrawing(x, pull')
    BY <2>2, <2>4 DEF Withdrawing
  <2> QED
    BY <1>2, <2>4, <2>5, Zenon
<1> QED
  BY <1>5, <1>6, <1>7

LEMMA CallWithdraws ==
    ASSUME ReviewInv, ReviewInv', WithdrawSound, NEW w \in Worker, ForgeCall(w)
    PROVE  WithdrawSound'
<1>1. /\ \A k \in Key : Advances(pull[k], pull'[k])
      /\ job \in [Worker -> Job] /\ job' \in [Worker -> Job]
      /\ pull \in [Key -> Pull] /\ pull' \in [Key -> Pull]
  BY PullsAdvance, Zenon DEF ReviewInv, ForgeTypeOK
<1> DEFINE i == job[w]
           j == job'[w]
           before == pull
           after == pull'
<1>2. i \in Job /\ j \in Job /\ Withdrawing(i, before)
  BY <1>1 DEF WithdrawSound
<1>3. CASE FindAll(w) \/ ClosePull(w) \/ DeleteRef(w)
  <2>1. Goes(w, j) /\ Withdrawing(j, pull')
    BY <1>1, <1>3, WithdrawCalls
  <2> HIDE DEF j
  <2> QED
    BY <1>1, <1>2, <2>1, WithdrawStep
<1>4. CASE ~(FindAll(w) \/ ClosePull(w) \/ DeleteRef(w))
  <2>1. /\ Goes(w, j) /\ j.at \notin {"close", "delete"}
        /\ \/ j.result # "unaccepted"
           \/ j.result = i.result /\ j.key = i.key /\ j.n = i.n
    BY <1>4, CutWithdrawsNothing, Zenon DEF ForgeCall
  <2>2. Withdrawing(i, after)
    <3>1. /\ before \in [Key -> Pull] /\ after \in [Key -> Pull]
          /\ \A k \in Key : Advances(before[k], after[k])
      BY <1>1
    <3> HIDE DEF i, before, after
    <3> QED
      BY <1>2, <3>1, WithdrawingKept
  <2>3. Withdrawing(j, after)
    <3> HIDE DEF i, j, after
    <3> QED
      BY <1>2, <2>1, <2>2, WithdrawingNothing
  <2> HIDE DEF j
  <2> QED
    BY <1>1, <1>2, <2>1, <2>3, WithdrawStep
<1> QED
  BY <1>3, <1>4

\* The runner and the watchers enter and leave the client: no pull request moves.
LEMMA EnteringKeeps ==
    ASSUME ReviewInv, WithdrawSound, NEW w \in Worker, UNCHANGED <<log, branch, pull>>,
           \/ Goes(w, NoJob("none"))
           \/ \E k \in Key : Goes(w, Start("read", k)) \/ Goes(w, Start("all", k))
    PROVE  CallSound /\ WithdrawSound'
<1>1. PICK j : /\ Goes(w, j) /\ j \in Job /\ Holds(j)
               /\ j.at \notin {"close", "delete"} /\ j.result = "none"
  <2>1. CASE Goes(w, NoJob("none"))
    <3>1. /\ NoJob("none") \in Job /\ Holds(NoJob("none"))
          /\ NoJob("none").at = "idle" /\ NoJob("none").result = "none"
      BY Zenon DEF NoJob, Job, Step, Holds
    <3> QED
      BY <2>1, <3>1
  <2>2. ASSUME NEW k \in Key, NEW at \in {"read", "all"}, Goes(w, Start(at, k))
        PROVE  \E j : /\ Goes(w, j) /\ j \in Job /\ Holds(j)
                      /\ j.at \notin {"close", "delete"} /\ j.result = "none"
    <3>1. /\ Start(at, k) \in Job /\ Holds(Start(at, k))
          /\ Start(at, k).at = at /\ Start(at, k).result = "none"
      BY Zenon DEF Start, Job, Step, Holds
    <3> QED
      BY <2>2, <3>1
  <2> QED
    BY <2>1, <2>2
<1>2. job' \in [Worker -> Job] /\ \A v \in Worker : Holds(job'[v])
  BY <1>1, GoesKeeps
<1>3. CallSound
  BY <1>2, ReadsStutter DEF CallSound
<1>4. \A k \in Key : Advances(pull[k], pull'[k])
  BY Zenon DEF Advances
<1>5. Withdrawing(j, pull')
  BY <1>1, Zenon DEF Withdrawing
<1>6. WithdrawSound'
  BY <1>1, <1>3, <1>4, <1>5, WithdrawStep DEF CallSound
<1> QED
  BY <1>3, <1>6

\* What people do leaves every worker's call as it was.
LEMMA PeopleWithdraw ==
    ASSUME ReviewInv, ReviewInv', WithdrawSound, UNCHANGED job,
           \/ \E k \in Key : Merge(k) \/ Reject(k) \/ Prune(k)
           \/ EditBase
    PROVE  WithdrawSound'
<1> DEFINE before == pull
           after == pull'
<1>1. /\ before \in [Key -> Pull] /\ after \in [Key -> Pull]
      /\ \A k \in Key : Advances(before[k], after[k])
      /\ \A w \in Worker : job[w] \in Job /\ Withdrawing(job[w], before)
  BY PullsAdvance, Zenon DEF ReviewInv, ForgeTypeOK, WithdrawSound
<1>2. \A w \in Worker : Withdrawing(job[w], after)
  <2> HIDE DEF before, after
  <2> QED
    BY <1>1, WithdrawingKept
<1> QED
  BY <1>2 DEF WithdrawSound

-----------------------------------------------------------------------------
\* The runner's steps.

\* A worker with steps to go is carrying a contract out, and thump is up.
LEMMA Carrying ==
    ASSUME ReleaseInv, NEW w \in Worker, run[w].todo # <<>>
    PROVE  up /\ CarriesOut(profile, run[w])
<1>1. run[w] # NoRun
  BY DEF NoRun
<1> QED
  BY <1>1 DEF ReleaseInv, RunsSound, UpSound

LEMMA RunSet ==
    ASSUME RunsSound, NEW w \in Worker, NEW r, r = NoRun \/ CarriesOut(profile, r),
           run' = [run EXCEPT ![w] = r], UNCHANGED profile
    PROVE  RunsSound'
<1>1. DOMAIN run = Worker
  BY DEF RunsSound
<1>2. run' = [v \in Worker |-> run'[v]]
  BY <1>1, Zenon
<1>3. \A v \in Worker : run'[v] = IF v = w THEN r ELSE run[v]
  BY <1>1
<1> QED
  BY <1>2, <1>3 DEF RunsSound

\* The step at hand is one of its contract's.
LEMMA AtHand ==
    ASSUME profile \in Profiles, NEW r, CarriesOut(profile, r)
    PROVE  \E c \in profile.catalog.has :
              /\ r.ref = c.name
              /\ r.reverse \in BOOLEAN
              /\ r.steps = StepsOf(c, r.reverse)
              /\ r.steps \in Seq(AuthoredStep)
              /\ r.todo \in Seq(AuthoredStep) /\ Len(r.todo) \in Nat \ {0}
              /\ \A i \in 1..Len(r.todo) : \E j \in 1..Len(r.steps) : r.todo[i] = r.steps[j]
              /\ \E j \in 1..Len(r.steps) : Head(r.todo) = r.steps[j]
<1>1. /\ r.reverse \in BOOLEAN /\ r.todo \in Seq(AuthoredStep)
      /\ r.steps \in Seq(AuthoredStep) /\ r.todo # <<>>
  BY Zenon DEF CarriesOut, RunOf
<1>2. PICK c \in profile.catalog.has :
         /\ r.ref = c.name
         /\ r.steps = StepsOf(c, r.reverse)
         /\ \A i \in DOMAIN r.todo : \E j \in DOMAIN r.steps : r.todo[i] = r.steps[j]
  BY DEF CarriesOut
<1>3. /\ DOMAIN r.todo = 1..Len(r.todo) /\ DOMAIN r.steps = 1..Len(r.steps)
      /\ Len(r.todo) \in Nat \ {0} /\ Head(r.todo) = r.todo[1]
  BY <1>1
<1>4. 1 \in DOMAIN r.todo
  BY <1>3
<1> QED
  BY <1>1, <1>2, <1>3, <1>4

\* What the authors promise of a step of the catalog.
LEMMA Authored ==
    ASSUME profile \in Profiles, NEW c \in profile.catalog.has, NEW reverse \in BOOLEAN,
           NEW j \in 1..Len(StepsOf(c, reverse))
    PROVE  /\ StepsOf(c, reverse) \in Seq(AuthoredStep)
           /\ StepsOf(c, reverse)[j].flag \in Flag => StepsOf(c, reverse)[j].variant \in Variant
           /\ StepsOf(c, reverse)[j].verb = "maintenanceRelease" =>
                releaseKey(c.name, reverse) \in Key
<1> DEFINE steps == StepsOf(c, reverse)
<1>1. /\ steps \in Seq(AuthoredStep)
      /\ \A i \in DOMAIN steps :
            /\ steps[i].flag \in Flag => steps[i].variant \in Variant
            /\ steps[i].verb = "maintenanceRelease" => releaseKey(c.name, reverse) \in Key
  BY ReleaseAssumption, Zenon DEF StepsOf
<1> HIDE DEF steps
<1>2. j \in DOMAIN steps
  BY <1>1 DEF steps
<1> QED
  BY <1>1, <1>2 DEF steps

\* A run that returns leaves nothing of itself, and a release only under a key of
\* its contract.
LEMMA ReturnsKeeps ==
    ASSUME ReleaseInv, NEW w \in Worker, run[w].todo # <<>>, UNCHANGED profile,
           NEW result, Returns(w, result),
           result = "proposed" => result = resultOf(run[w].steps)
    PROVE  RunsSound' /\ OwedSound'
<1>1. CarriesOut(profile, run[w]) /\ profile \in Profiles
  BY Carrying, Zenon DEF ReleaseInv, UpSound
<1>2. RunsSound'
  BY RunSet, Zenon DEF ReleaseInv, Returns
<1> DEFINE r == run[w]
<1>3. PICK c \in profile.catalog.has :
         /\ r.ref = c.name /\ r.reverse \in BOOLEAN /\ r.steps = StepsOf(c, r.reverse)
         /\ r.steps \in Seq(AuthoredStep)
         /\ \E j \in 1..Len(r.steps) : Head(r.todo) = r.steps[j]
  <2>1. CarriesOut(profile, r)
    BY <1>1
  <2> HIDE DEF r
  <2> QED
    BY <1>1, <2>1, AtHand, Zenon
<1>4. ASSUME NEW o \in Leaves(r, result), o.kind = "poll"
      PROVE  releaseKey(o.ref, FALSE) \in Key
  <2>1. result = "proposed" /\ ~r.reverse /\ o.ref = r.ref
    BY <1>4 DEF Leaves
  <2>2. r.reverse = FALSE
    BY <1>3, <2>1, Zenon
  <2>3. r.steps[Len(r.steps)].verb = "maintenanceRelease"
    BY <2>1 DEF resultOf
  <2>4. Len(r.steps) \in 1..Len(r.steps)
    BY <1>3
  <2>5. StepsOf(c, FALSE) = r.steps /\ FALSE \in BOOLEAN
    BY <1>3, <2>2, Zenon
  <2>6. releaseKey(c.name, FALSE) \in Key
    BY <1>1, <2>3, <2>4, <2>5, Authored, Zenon
  <2> QED
    BY <1>3, <2>1, <2>6, Zenon
<1>5. OwedSound'
  BY <1>4, Zenon DEF ReleaseInv, OwedSound, Returns
<1> QED
  BY <1>2, <1>5

LEMMA TailOf ==
    ASSUME NEW S, NEW s \in Seq(S), Len(s) # 0, Len(s) # 1
    PROVE  /\ Tail(s) \in Seq(S) /\ Tail(s) # <<>>
           /\ DOMAIN Tail(s) = 1..(Len(s) - 1)
           /\ \A i \in DOMAIN Tail(s) : i + 1 \in DOMAIN s /\ Tail(s)[i] = s[i + 1]
<1>0. \A n \in Nat : n # 0 /\ n # 1 => n > 1
  OBVIOUS
<1>1. Len(s) \in Nat /\ Len(s) > 1
  BY <1>0
<1>2. /\ Tail(s) \in Seq(S) /\ Len(Tail(s)) = Len(s) - 1
      /\ \A i \in 1..Len(Tail(s)) : Tail(s)[i] = s[i + 1]
  BY <1>1, HeadTailProperties
<1> DEFINE n == Len(s)
           t == Tail(s)
<1>3. t \in Seq(S) /\ Len(t) = n - 1 /\ n \in Nat /\ n > 1 /\ DOMAIN s = 1..n
  BY <1>1, <1>2
<1> HIDE DEF n, t
<1>4. DOMAIN t = 1..(n - 1) /\ t # <<>>
  BY <1>3
<1>5. \A i \in 1..(n - 1) : i + 1 \in 1..n
  BY <1>3
<1>6. \A i \in 1..(n - 1) : t[i] = s[i + 1]
  BY <1>2, <1>3 DEF t
<1> QED
  BY <1>3, <1>4, <1>5, <1>6, Zenon DEF n, t

\* The next step of a contract is still the contract's.
LEMMA SteppedKeeps ==
    ASSUME ReleaseInv, NEW w \in Worker, run[w].todo # <<>>, UNCHANGED profile, Stepped(w)
    PROVE  RunsSound' /\ OwedSound'
<1>1. CarriesOut(profile, run[w]) /\ profile \in Profiles
  BY Carrying, Zenon DEF ReleaseInv, UpSound
<1>2. CASE Len(run[w].todo) = 1
  BY <1>2, ReturnsKeeps DEF Stepped
<1>3. CASE Len(run[w].todo) # 1
  <2> DEFINE r == run[w]
             t == Tail(r.todo)
             x == [r EXCEPT !.todo = t, !.read = NoDoc, !.doc = NoDoc, !.cutting = FALSE]
  <2>1. run' = [run EXCEPT ![w] = x] /\ UNCHANGED owed
    BY <1>3 DEF Stepped
  <2>2. /\ r \in RunOf(profile)
        /\ r.todo \in Seq(AuthoredStep) /\ Len(r.todo) \in Nat \ {0}
    BY <1>1, AtHand, Zenon DEF CarriesOut
  <2>3. /\ t \in Seq(AuthoredStep) /\ t # <<>>
        /\ DOMAIN t = 1..(Len(r.todo) - 1)
        /\ \A i \in DOMAIN t : i + 1 \in DOMAIN r.todo /\ t[i] = r.todo[i + 1]
    <3>1. PICK s : s = r.todo
      OBVIOUS
    <3>2. s \in Seq(AuthoredStep) /\ Len(s) # 0 /\ Len(s) # 1
      BY <1>3, <2>2, <3>1
    <3>3. /\ Tail(s) \in Seq(AuthoredStep) /\ Tail(s) # <<>>
          /\ DOMAIN Tail(s) = 1..(Len(s) - 1)
          /\ \A i \in DOMAIN Tail(s) : i + 1 \in DOMAIN s /\ Tail(s)[i] = s[i + 1]
      BY <3>2, TailOf
    <3> QED
      BY <3>1, <3>3
  <2> HIDE DEF t
  <2>4. /\ x \in RunOf(profile) /\ x.ref = r.ref /\ x.reverse = r.reverse
        /\ x.steps = r.steps /\ x.todo = t /\ x.doc = NoDoc
    BY <2>2, <2>3, Zenon DEF RunOf
  <2>5. PICK c \in profile.catalog.has :
           /\ r.ref = c.name
           /\ r.steps = StepsOf(c, r.reverse)
           /\ \A i \in DOMAIN r.todo : \E j \in DOMAIN r.steps : r.todo[i] = r.steps[j]
    BY <1>1, Zenon DEF CarriesOut
  <2>6. \A i \in DOMAIN t : \E j \in DOMAIN r.steps : t[i] = r.steps[j]
    BY <2>3, <2>5, Zenon
  <2> HIDE DEF x, r
  <2>7. CarriesOut(profile, x)
    <3>1. \A i \in DOMAIN x.todo : \E j \in DOMAIN r.todo : x.todo[i] = r.todo[j]
      BY <2>3, <2>4
    <3> QED
      BY <1>1, <2>3, <2>4, <3>1, SameContract, Zenon DEF Patches, r
  <2>8. RunsSound'
    BY <2>1, <2>7, RunSet, Zenon DEF ReleaseInv
  <2> QED
    BY <2>1, <2>8, Zenon DEF ReleaseInv, OwedSound
<1> QED
  BY <1>2, <1>3

\* A contract of the bound catalog has steps to begin with.
LEMMA BeginsKeeps ==
    ASSUME ReleaseInv, up, NEW w \in Worker, NEW c \in profile.catalog.has,
           NEW reverse \in BOOLEAN, Begins(w, c, reverse), UNCHANGED profile
    PROVE  RunsSound'
<1>1. profile \in Profiles /\ bind(profile.catalog.has, ForgeWired)
  BY DEF ReleaseInv, UpSound
<1> DEFINE s == StepsOf(c, reverse)
           x == [ref |-> c.name, reverse |-> reverse, todo |-> s, steps |-> s,
                 read |-> NoDoc, doc |-> NoDoc, cutting |-> FALSE]
<1>2. s # <<>>
  BY <1>1 DEF bind, opFor, StepsOf
<1>3. s \in Seq(AuthoredStep)
  BY <1>1, ReleaseAssumption, Zenon DEF StepsOf
<1>4. run' = [run EXCEPT ![w] = x]
  BY Zenon DEF Begins, StepsOf
<1> HIDE DEF s
<1>5. /\ x \in RunOf(profile) /\ x.ref = c.name /\ x.reverse = reverse
      /\ x.steps = s /\ x.todo = s /\ x.doc = NoDoc
  BY <1>3, Zenon DEF RunOf
<1> HIDE DEF x
<1>6. CarriesOut(profile, x)
  BY <1>2, <1>3, <1>5, Zenon DEF CarriesOut, s
<1> QED
  BY <1>4, <1>6, RunSet, Zenon DEF ReleaseInv

\* Reading the document sets the step's flag in what was read.
LEMMA ReadingFlagsKeeps ==
    ASSUME ReleaseInv, NEW w \in Worker, ReadFlags(w)
    PROVE  RunsSound' /\ OwedSound'
<1>0. run[w].todo # <<>> /\ UNCHANGED profile
  BY DEF ReadFlags, AtVerb
<1>1. CarriesOut(profile, run[w]) /\ profile \in Profiles /\ flags \in Doc
  BY <1>0, Carrying, Zenon DEF ReleaseInv, UpSound, TypeOK
<1>2. CASE Returns(w, "failure")
  BY <1>0, <1>2, ReturnsKeeps, Zenon
<1>3. CASE ~Returns(w, "failure")
  <2> DEFINE r == run[w]
             h == Head(r.todo)
             d == setDefaultVariant(flags, h.flag, h.variant)
             x == [r EXCEPT !.read = flags, !.doc = d]
  <2>1. h.flag \in Flag /\ run' = [run EXCEPT ![w] = x] /\ UNCHANGED owed
    BY <1>3 DEF ReadFlags
  <2>2. PICK c \in profile.catalog.has, j \in 1..Len(r.steps) :
           /\ r.reverse \in BOOLEAN /\ r.steps = StepsOf(c, r.reverse)
           /\ h = r.steps[j]
    <3>1. CarriesOut(profile, r)
      BY <1>1
    <3> HIDE DEF r
    <3> QED
      BY <1>1, <3>1, AtHand, Zenon
  <2>3. h.variant \in Variant
    <3>1. j \in 1..Len(StepsOf(c, r.reverse)) /\ h = StepsOf(c, r.reverse)[j]
      BY <2>2, Zenon
    <3> HIDE DEF h, r
    <3> QED
      BY <1>1, <2>1, <2>2, <3>1, Authored
  <2>4. d \in Doc
    BY <1>1, <2>1, <2>3 DEF Doc, setDefaultVariant
  <2> HIDE DEF d
  <2>5. /\ x \in RunOf(profile) /\ x.ref = r.ref /\ x.reverse = r.reverse
        /\ x.steps = r.steps /\ x.todo = r.todo /\ x.doc = d /\ x.read = flags
    BY <1>1, <2>4, Zenon DEF CarriesOut, RunOf
  <2> HIDE DEF x
  <2>6. CarriesOut(profile, x)
    <3>1. \A i \in DOMAIN x.todo : \E n \in DOMAIN r.todo : x.todo[i] = r.todo[n]
      BY <2>5, Zenon
    <3>2. Patches(x)
      BY <1>1, <2>1, <2>5, Zenon DEF Patches, d
    <3>3. x.todo # <<>>
      BY <1>1, <2>5, Zenon DEF CarriesOut
    <3> QED
      BY <1>1, <2>5, <3>1, <3>2, <3>3, SameContract DEF r
  <2>7. RunsSound'
    BY <1>0, <2>1, <2>6, RunSet, Zenon DEF ReleaseInv
  <2> QED
    BY <2>1, <2>7, Zenon DEF ReleaseInv, OwedSound
<1> QED
  BY <1>2, <1>3

-----------------------------------------------------------------------------
\* One lemma per group of actions: the invariant is kept, and the forge, seen
\* through its pull requests, takes a step of Review or none.
StepSound == ReleaseInv' /\ [Promise!Next]_absVars

LEMMA Assembled ==
    ASSUME ReleaseInv, CallSound, WithdrawSound', RunsSound', OwedSound', UpSound',
           UNCHANGED <<profile, verdict>>, up' \in BOOLEAN, flags' \in Doc
    PROVE  StepSound
<1>1. TypeOK'
  BY Zenon DEF ReleaseInv, TypeOK, CallSound, ReviewInv
<1>2. verdict' = "ok" => All({profile'})
  BY DEF ReleaseInv
<1> QED
  BY <1>1, <1>2 DEF StepSound, ReleaseInv, CallSound

LEMMA UpStays ==
    ASSUME ReleaseInv, up, UNCHANGED <<profile, up>>
    PROVE  UpSound' /\ up' \in BOOLEAN
BY Zenon DEF ReleaseInv, UpSound, TypeOK

LEMMA ForgeRests ==
    ASSUME ReleaseInv, UNCHANGED <<log, branch, pull, job>>
    PROVE  CallSound /\ WithdrawSound'
<1>1. job' \in [Worker -> Job] /\ \A v \in Worker : Holds(job'[v])
  BY DEF ReleaseInv, ReviewInv, ForgeTypeOK
<1>2. CallSound
  BY <1>1, ReadsStutter DEF ReleaseInv, CallSound
<1>3. WithdrawSound'
  BY DEF ReleaseInv, WithdrawSound
<1> QED
  BY <1>2, <1>3

\* execOp, scaleOp, restartOp and flagVariantOp.
LEMMA OpKeeps ==
    ASSUME ReleaseInv, NEW w \in Worker, Mutate(w) \/ ReadFlags(w) \/ PatchFlags(w)
    PROVE  StepSound
<1>1. /\ run[w].todo # <<>> /\ UNCHANGED <<profile, verdict, up>>
      /\ UNCHANGED <<log, branch, pull, job>>
  BY DEF Mutate, ReadFlags, PatchFlags, AtVerb
<1>2. up /\ CarriesOut(profile, run[w])
  BY <1>1, Carrying
<1>3. CallSound /\ WithdrawSound' /\ UpSound' /\ up' \in BOOLEAN
  BY <1>1, <1>2, ForgeRests, UpStays, Zenon
<1>4. RunsSound' /\ OwedSound'
  <2>1. CASE ReadFlags(w)
    BY <2>1, ReadingFlagsKeeps
  <2>2. CASE Mutate(w) \/ PatchFlags(w)
    <3>1. Stepped(w) \/ Returns(w, "failure")
      BY <2>2, Zenon DEF Mutate, PatchFlags
    <3> QED
      BY <1>1, <3>1, SteppedKeeps, ReturnsKeeps, Zenon
  <2> QED
    BY <2>1, <2>2
<1>5. flags' \in Doc
  <2>1. flags \in Doc
    BY DEF ReleaseInv, TypeOK
  <2>2. CASE PatchFlags(w)
    <3>1. run[w].doc \in Doc
      BY <1>2, <2>2, Zenon DEF CarriesOut, RunOf, PatchFlags
    <3> QED
      BY <2>1, <2>2, <3>1 DEF PatchFlags
  <2> QED
    BY <2>1, <2>2 DEF Mutate, ReadFlags
<1> QED
  BY <1>1, <1>3, <1>4, <1>5, Assembled

\* maintenanceReleaseOp.
LEMMA ReleaseOpKeeps ==
    ASSUME ReleaseInv, NEW w \in Worker, EnterForge(w) \/ LeaveForge(w)
    PROVE  StepSound
<1>1. /\ run[w].todo # <<>> /\ UNCHANGED <<profile, verdict, up, flags>>
      /\ UNCHANGED <<log, branch, pull>>
  BY DEF EnterForge, LeaveForge, AtVerb
<1>2. up /\ CarriesOut(profile, run[w]) /\ profile \in Profiles
  BY <1>1, Carrying, Zenon DEF ReleaseInv, UpSound
<1>3. UpSound' /\ up' \in BOOLEAN /\ flags' \in Doc
  BY <1>1, <1>2, UpStays DEF ReleaseInv, TypeOK
<1>4. CASE EnterForge(w)
  <2> DEFINE r == run[w]
             x == [r EXCEPT !.cutting = TRUE]
  <2>1. PICK c \in profile.catalog.has, j \in 1..Len(r.steps) :
           /\ r.ref = c.name /\ r.reverse \in BOOLEAN /\ r.steps = StepsOf(c, r.reverse)
           /\ Head(r.todo) = r.steps[j]
    <3>1. CarriesOut(profile, r)
      BY <1>2
    <3> HIDE DEF r
    <3> QED
      BY <1>2, <3>1, AtHand, Zenon
  <2>2. releaseKey(r.ref, r.reverse) \in Key
    <3>1. /\ j \in 1..Len(StepsOf(c, r.reverse))
          /\ StepsOf(c, r.reverse)[j].verb = "maintenanceRelease"
      BY <1>4, <2>1 DEF EnterForge, AtVerb
    <3> HIDE DEF r
    <3> QED
      BY <1>2, <2>1, <3>1, Authored, Zenon
  <2>3. CallSound /\ WithdrawSound'
    <3>1. Goes(w, Start("read", releaseKey(r.ref, r.reverse)))
      BY <1>4 DEF EnterForge
    <3> QED
      BY <1>1, <2>2, <3>1, EnteringKeeps, Zenon DEF ReleaseInv
  <2>4. /\ x \in RunOf(profile) /\ x.ref = r.ref /\ x.reverse = r.reverse
        /\ x.steps = r.steps /\ x.todo = r.todo /\ x.doc = r.doc /\ x.read = r.read
    BY <1>2, Zenon DEF CarriesOut, RunOf
  <2>5. run' = [run EXCEPT ![w] = x] /\ UNCHANGED owed
    BY <1>4 DEF EnterForge
  <2> HIDE DEF x
  <2>6. CarriesOut(profile, x)
    <3>1. \A i \in DOMAIN x.todo : \E n \in DOMAIN r.todo : x.todo[i] = r.todo[n]
      BY <2>4, Zenon
    <3>2. x.todo # <<>> /\ Patches(x)
      BY <1>2, <2>4, Zenon DEF CarriesOut, Patches
    <3> QED
      BY <1>2, <2>4, <3>1, <3>2, SameContract DEF r
  <2>7. RunsSound' /\ OwedSound'
    BY <1>1, <2>5, <2>6, RunSet, Zenon DEF ReleaseInv, OwedSound
  <2> QED
    BY <1>1, <1>3, <2>3, <2>7, Assembled, Zenon
<1>5. CASE LeaveForge(w)
  <2>1. CallSound /\ WithdrawSound'
    BY <1>1, <1>5, EnteringKeeps, Zenon DEF LeaveForge, ReleaseInv
  <2>2. Stepped(w) \/ Returns(w, "failure")
    BY <1>5, Zenon DEF LeaveForge
  <2>3. RunsSound' /\ OwedSound'
    BY <1>1, <2>2, SteppedKeeps, ReturnsKeeps, Zenon
  <2> QED
    BY <1>1, <1>3, <2>1, <2>3, Assembled, Zenon
<1> QED
  BY <1>4, <1>5

\* Runner.Run enters a contract's steps, forward or as an undo.
LEMMA RunKeeps ==
    ASSUME ReleaseInv, NEW w \in Worker, RunForward \/ RunUndo(w)
    PROVE  StepSound
<1>1. /\ UNCHANGED <<profile, verdict, up, flags>>
      /\ UNCHANGED <<log, branch, pull, job>>
  BY Zenon DEF RunForward, RunUndo, forgeVars
<1>2. up
  BY Zenon DEF RunForward, RunUndo, ReleaseInv, UpSound
<1>3. CallSound /\ WithdrawSound' /\ UpSound' /\ up' \in BOOLEAN /\ flags' \in Doc
  BY <1>1, <1>2, ForgeRests, UpStays DEF ReleaseInv, TypeOK
<1>4. OwedSound'
  BY Zenon DEF RunForward, RunUndo, ReleaseInv, OwedSound
<1>5. RunsSound'
  <2>1. PICK v \in Worker, c \in profile.catalog.has, reverse \in BOOLEAN :
           Begins(v, c, reverse)
    BY ReleaseAssumption, Zenon DEF RunForward, RunUndo
  <2> QED
    BY <1>1, <1>2, <2>1, BeginsKeeps
<1> QED
  BY <1>1, <1>3, <1>4, <1>5, Assembled

\* AcceptanceWatcher.Poll and watchAndAccept.
LEMMA PollKeeps ==
    ASSUME ReleaseInv, NEW w \in Worker, Poll(w) \/ Polled(w)
    PROVE  StepSound
<1>1. /\ UNCHANGED <<profile, verdict, up, flags, run>>
      /\ UNCHANGED <<log, branch, pull>>
  BY Zenon DEF Poll, Polled
<1>2. up
  <2>1. owed # {} \/ job[w].result # "none"
    BY Zenon DEF Poll, Polled
  <2>2. ~up => owed = {} /\ job[w] = NoJob("none")
    BY Zenon DEF ReleaseInv, UpSound
  <2>3. NoJob("none").result = "none"
    BY DEF NoJob
  <2> QED
    BY <2>1, <2>2, <2>3, Zenon
<1>3. UpSound' /\ up' \in BOOLEAN /\ flags' \in Doc
  BY <1>1, <1>2, UpStays DEF ReleaseInv, TypeOK
<1>4. RunsSound'
  BY <1>1 DEF ReleaseInv, RunsSound
<1>5. CASE Poll(w)
  <2>1. PICK o \in owed : /\ o.kind = "poll" /\ owed' = owed \ {o}
                          /\ Goes(w, Start("all", releaseKey(o.ref, FALSE)))
    BY <1>5, Zenon DEF Poll
  <2>2. releaseKey(o.ref, FALSE) \in Key
    BY <2>1, Zenon DEF ReleaseInv, OwedSound
  <2>3. CallSound /\ WithdrawSound'
    BY <1>1, <2>1, <2>2, EnteringKeeps, Zenon DEF ReleaseInv
  <2>4. OwedSound'
    BY <2>1, Zenon DEF ReleaseInv, OwedSound
  <2> QED
    BY <1>1, <1>3, <1>4, <2>3, <2>4, Assembled
<1>6. CASE Polled(w)
  <2>1. CallSound /\ WithdrawSound'
    BY <1>1, <1>6, EnteringKeeps, Zenon DEF Polled, ReleaseInv
  <2>2. owed' = owed \/ owed' = owed \cup {[ref |-> job[w].key.ref, kind |-> "settle"]}
    BY <1>6, Zenon DEF Polled
  <2>3. \A o \in owed' : o \in owed \/ o.kind = "settle"
    BY <2>2
  <2>4. OwedSound'
    BY <2>3, Zenon DEF ReleaseInv, OwedSound
  <2> QED
    BY <1>1, <1>3, <1>4, <2>1, <2>4, Assembled
<1> QED
  BY <1>5, <1>6

\* The GitHub client's calls, from inside a cut or a withdrawal.
LEMMA ForgeCallKeeps ==
    ASSUME ReleaseInv, NEW w \in Worker, ForgeCall(w), UNCHANGED releaseVars
    PROVE  StepSound
<1>1. ReviewInv /\ WithdrawSound
  BY DEF ReleaseInv
<1>2. CallSound
  BY <1>1, ReadingKeeps, CreateRefKeeps, PutContentsKeeps, CreatePullKeeps, ClosePullKeeps,
     DeleteRefKeeps, Zenon DEF ForgeCall
<1>3. WithdrawSound'
  BY <1>1, <1>2, CallWithdraws DEF CallSound
<1>4. job[w].at # "idle"
  BY Zenon DEF ForgeCall, ReadBase, RefSHA, BaseSHA, CreateRef, BlobAt, PutContents, FindOpen,
         CreatePull, FindAll, ClosePull, DeleteRef, CallFails
<1>5. up
  <2>1. NoJob("none").at = "idle"
    BY DEF NoJob
  <2> QED
    BY <1>4, <2>1, Zenon DEF ReleaseInv, UpSound
<1>6. UNCHANGED <<profile, verdict, up, flags, run, owed>>
  BY DEF releaseVars
<1>7. UpSound' /\ up' \in BOOLEAN /\ flags' \in Doc
  BY <1>5, <1>6, UpStays DEF ReleaseInv, TypeOK
<1>8. RunsSound' /\ OwedSound'
  BY <1>6, Zenon DEF ReleaseInv, RunsSound, OwedSound
<1> QED
  BY <1>2, <1>3, <1>6, <1>7, <1>8, Assembled

\* calipers validate, thump's startup and its crash.
LEMMA ProcessKeeps ==
    ASSUME ReleaseInv, Validate \/ Boot \/ Crash
    PROVE  StepSound
<1>1. CASE Validate
  <2>1. /\ UNCHANGED <<profile, up, flags, run, owed>>
        /\ UNCHANGED <<log, branch, pull, job>>
        /\ verdict' \in {"ok", "failed"} /\ (verdict' = "ok" => All({profile}))
    BY <1>1 DEF Validate, forgeVars
  <2>2. CallSound /\ WithdrawSound'
    BY <2>1, ForgeRests
  <2>3. RunsSound' /\ OwedSound' /\ UpSound'
    BY <2>1, Zenon DEF ReleaseInv, RunsSound, OwedSound, UpSound
  <2>4. TypeOK'
    BY <2>1, <2>2, Zenon DEF ReleaseInv, TypeOK, CallSound, ReviewInv
  <2> QED
    BY <2>1, <2>2, <2>3, <2>4 DEF StepSound, ReleaseInv, CallSound
<1>2. CASE Boot
  <2>1. /\ UNCHANGED <<profile, verdict, flags, run, owed>>
        /\ UNCHANGED <<log, branch, pull, job>>
        /\ up' = TRUE /\ bind(profile.catalog.has, ForgeWired)
    BY <1>2 DEF Boot, forgeVars
  <2>2. CallSound /\ WithdrawSound'
    BY <2>1, ForgeRests
  <2>3. RunsSound' /\ OwedSound'
    BY <2>1, Zenon DEF ReleaseInv, RunsSound, OwedSound
  <2>4. UpSound' /\ up' \in BOOLEAN /\ flags' \in Doc
    BY <2>1, Zenon DEF ReleaseInv, UpSound, TypeOK
  <2> QED
    BY <2>1, <2>2, <2>3, <2>4, Assembled
<1>3. CASE Crash
  <2>1. /\ UNCHANGED <<profile, verdict, flags>>
        /\ UNCHANGED <<log, branch, pull>>
        /\ up' = FALSE /\ owed' = {}
        /\ run' = [v \in Worker |-> NoRun]
        /\ job' = [v \in Worker |-> NoJob("none")]
    BY <1>3 DEF Crash
  <2>2. NoJob("none") \in Job /\ Holds(NoJob("none"))
    BY Zenon DEF NoJob, Job, Step, Holds
  <2>3. CallSound
    BY <2>1, <2>2, ReadsStutter DEF ReleaseInv, CallSound
  <2>4. WithdrawSound'
    BY <2>1, Zenon DEF WithdrawSound, Withdrawing, NoJob
  <2>5. RunsSound' /\ OwedSound'
    BY <2>1 DEF RunsSound, OwedSound
  <2>6. UpSound' /\ up' \in BOOLEAN /\ flags' \in Doc
    BY <2>1, Zenon DEF ReleaseInv, UpSound, TypeOK
  <2> QED
    BY <2>1, <2>3, <2>4, <2>5, <2>6, Assembled
<1> QED
  BY <1>1, <1>2, <1>3

\* What people do to the repository and to the ConfigMap.
LEMMA PeopleKeeps ==
    ASSUME ReleaseInv, People \/ EditFlags
    PROVE  StepSound
<1>1. UNCHANGED <<profile, verdict, up, run, owed, job>> /\ flags' \in Doc
  BY Zenon DEF People, EditFlags, Merge, Reject, Prune, EditBase, forgeVars, ReleaseInv, TypeOK
<1>2. CallSound /\ WithdrawSound'
  <2>1. CASE People
    <3>1. (\E k \in Key : Merge(k) \/ Reject(k) \/ Prune(k)) \/ EditBase
      BY <2>1 DEF People
    <3>2. CallSound
      BY <3>1, PeopleKeep DEF ReleaseInv
    <3> QED
      BY <1>1, <3>1, <3>2, PeopleWithdraw DEF ReleaseInv, CallSound
  <2>2. CASE EditFlags
    BY <2>2, ForgeRests DEF EditFlags, forgeVars
  <2> QED
    BY <2>1, <2>2
<1>3. RunsSound' /\ OwedSound' /\ UpSound' /\ up' \in BOOLEAN
  BY <1>1, Zenon DEF ReleaseInv, RunsSound, OwedSound, UpSound, TypeOK
<1> QED
  BY <1>1, <1>2, <1>3, Assembled

LEMMA NextKeeps ==
    ASSUME ReleaseInv, [Next]_vars
    PROVE  StepSound
<1>1. CASE UNCHANGED vars
  <2>1. /\ UNCHANGED <<profile, verdict, up, run, owed, flags>>
        /\ UNCHANGED <<log, branch, pull, job>>
    BY <1>1 DEF vars, releaseVars, forgeVars
  <2>2. CallSound /\ WithdrawSound'
    BY <2>1, ForgeRests
  <2>3. RunsSound' /\ OwedSound' /\ UpSound' /\ up' \in BOOLEAN /\ flags' \in Doc
    BY <2>1, Zenon DEF ReleaseInv, RunsSound, OwedSound, UpSound, TypeOK
  <2> QED
    BY <2>1, <2>2, <2>3, Assembled
<1>2. ASSUME NEW w \in Worker, WorkerStep(w)
      PROVE  StepSound
  BY <1>2, RunKeeps, OpKeeps, ReleaseOpKeeps, PollKeeps, ForgeCallKeeps DEF WorkerStep
<1>3. CASE Validate \/ Boot \/ RunForward \/ Crash \/ People \/ EditFlags
  BY <1>3, ReleaseAssumption, ProcessKeeps, RunKeeps, PeopleKeeps, Zenon
<1> QED
  BY <1>1, <1>2, <1>3 DEF Next

LEMMA InitSound ==
    ASSUME Init
    PROVE  ReleaseInv /\ Promise!Init
<1>1. ReviewInv /\ Promise!Init
  BY InitKeeps DEF Init
<1>2. job = [w \in Worker |-> NoJob("none")]
  BY DEF Init, ForgeInit
<1>3. WithdrawSound
  BY <1>2, Zenon DEF WithdrawSound, Withdrawing, NoJob
<1>4. RunsSound /\ OwedSound
  BY DEF Init, RunsSound, OwedSound
<1>5. UpSound
  BY <1>2 DEF Init, UpSound
<1>6. TypeOK /\ verdict # "ok"
  BY <1>1, Zenon DEF Init, TypeOK, ReviewInv
<1> QED
  BY <1>1, <1>3, <1>4, <1>5, <1>6 DEF ReleaseInv

\* The forge, the flag document, the runner and the watchers keep their
\* invariants together, from any authored profile on (Profile, bind, Run, Poll).
THEOREM ReleaseIsSound == Spec => []ReleaseInv
<1>1. Init => ReleaseInv
  BY InitSound
<1>2. ReleaseInv /\ [Next]_vars => ReleaseInv'
  BY NextKeeps DEF StepSound
<1> QED
  BY <1>1, <1>2, PTL DEF Spec

\* Type correctness of the profile's state, the flag document, the repository
\* and the workers' calls.
THEOREM TypeCorrect == Spec => []TypeOK
<1>1. ReleaseInv => TypeOK
  BY DEF ReleaseInv
<1> QED
  BY <1>1, ReleaseIsSound, PTL

-----------------------------------------------------------------------------
\* What a watcher withdrew is shut for good, whoever merges, rejects or
\* prunes meanwhile, however many workers cut and withdraw at once and
\* whichever of their calls fail.  (github.go Withdraw; acceptance.go Poll)
THEOREM WithdrawalIsFinal == Spec => []WithdrawnStaysShut
<1>1. ReleaseInv => WithdrawnStaysShut
  <2> SUFFICES ASSUME ReleaseInv, NEW w \in Worker, job[w].result = "unaccepted"
               PROVE  pull[job[w].key] # [n |-> job[w].n, state |-> "open"]
    BY DEF WithdrawnStaysShut
  <2>1. job[w].key \in Key /\ Shut(pull[job[w].key], job[w].n)
    BY Zenon DEF ReleaseInv, WithdrawSound, Withdrawing
  <2>2. job[w].n \in Nat /\ pull[job[w].key].n \in Nat
    BY <2>1 DEF ReleaseInv, ReviewInv, ForgeTypeOK, Job, Pull
  <2> QED
    BY <2>1, <2>2, ShutIsNotOpen, Zenon
<1> QED
  BY <1>1, ReleaseIsSound, PTL

\* A run meets no step without a mechanism, for any catalog that bind let
\* thump start on.  (binding.go bind; runner.go Run)
THEOREM BindingSuffices == Spec => []BoundRunsDispatch
<1>1. ReleaseInv => BoundRunsDispatch
  <2> SUFFICES ASSUME ReleaseInv, NEW w \in Worker, run[w].todo # <<>>
               PROVE  mechanismFor(Head(run[w].todo), ForgeWired)
    BY DEF BoundRunsDispatch
  <2> DEFINE r == run[w]
  <2>1. up /\ CarriesOut(profile, r) /\ profile \in Profiles
    BY Carrying, Zenon DEF ReleaseInv, UpSound
  <2> HIDE DEF r
  <2>2. PICK c \in profile.catalog.has, j \in 1..Len(r.steps) :
           /\ r.reverse \in BOOLEAN /\ r.steps = StepsOf(c, r.reverse)
           /\ r.steps \in Seq(AuthoredStep) /\ Head(r.todo) = r.steps[j]
    BY <2>1, AtHand, Zenon
  <2>3. opFor(StepsOf(c, r.reverse), ForgeWired)
    BY <2>1, <2>2, Zenon DEF ReleaseInv, UpSound, bind, StepsOf
  <2>4. j \in DOMAIN r.steps
    BY <2>2
  <2>5. mechanismFor(r.steps[j], ForgeWired)
    BY <2>2, <2>3, <2>4, Zenon DEF opFor
  <2> QED
    BY <2>2, <2>5 DEF r
<1> QED
  BY <1>1, ReleaseIsSound, PTL

\* A patch whose read was not overtaken changes the step's flag alone.
\* (runner.go flagVariantOp.do, setDefaultVariant)
THEOREM FlipsTouchOneFlag == Spec => FlipTouchesOneFlag
<1>1. ReleaseInv /\ [Next]_vars =>
        [\A w \in Worker :
           PatchFlags(w) /\ run[w].read = flags =>
              \A f \in Flag : f # Head(run[w].todo).flag => flags'[f] = flags[f]]_vars
  <2> SUFFICES ASSUME ReleaseInv, NEW w \in Worker, PatchFlags(w), run[w].read = flags,
                      NEW f \in Flag, f # Head(run[w].todo).flag
               PROVE  flags'[f] = flags[f]
    OBVIOUS
  <2>1. run[w].todo # <<>> /\ run[w].doc # NoDoc /\ flags' \in {flags, run[w].doc}
    BY Zenon DEF PatchFlags, AtVerb
  <2>2. CarriesOut(profile, run[w])
    BY <2>1, Carrying, Zenon
  <2>3. run[w].doc = setDefaultVariant(flags, Head(run[w].todo).flag, Head(run[w].todo).variant)
    BY <2>1, <2>2, Zenon DEF CarriesOut
  <2>4. flags \in Doc
    BY DEF ReleaseInv, TypeOK
  <2> QED
    BY <2>1, <2>3, <2>4, Zenon DEF setDefaultVariant, Doc
<1> QED
  BY <1>1, ReleaseIsSound, PTL DEF Spec, FlipTouchesOneFlag

\* Seen from the repository, thump as a whole (its runner, its watchers, their
\* crashes) is Review: nothing reaches the default branch but through a pull
\* request a person merged.  (github.go Cut, Withdraw; runner.go Run)
THEOREM ReleaseImplementsReview == Spec => KeepsReviewPromise
<1>1. Init => ReleaseInv /\ Promise!Init
  BY InitSound
<1>2. ReleaseInv /\ [Next]_vars => [Promise!Next]_absVars
  BY NextKeeps DEF StepSound
<1> QED
  BY <1>1, <1>2, ReleaseIsSound, PTL DEF Spec, KeepsReviewPromise, Promise!Spec, absVars

-----------------------------------------------------------------------------
\* A gate that vetoes what it is shown approves nothing.
LEMMA VetoedIsNotApproved ==
    ASSUME NEW set, NEW pol, NEW frozen, NEW full, NEW c, set.proposals = <<c>>,
           Vetoes(set, c, pol, frozen, full) # {}
    PROVE  EvaluateSet(set, pol, frozen, full).verdict # "approved"
<1>1. CASE ~set.passed \/ Recommends(set) = {}
  BY <1>1 DEF EvaluateSet, Decision
<1>2. CASE set.passed /\ Recommends(set) # {}
  <2> DEFINE first == CHOOSE i \in Recommends(set) : TRUE
  <2>1. /\ DOMAIN set.proposals = 1..1
        /\ set.proposals[1] = c
    OBVIOUS
  <2>2. first \in Recommends(set)
    BY <1>2
  <2>3. first \in DOMAIN set.proposals
    BY <2>2, Zenon DEF Recommends
  <2>4. set.proposals[first] = c
    <3> HIDE DEF first
    <3>1. first = 1
      BY <2>1, <2>3
    <3> QED
      BY <2>1, <3>1
  <2> DEFINE d == set.proposals[first]
             vetoes == Vetoes(set, d, pol, frozen, full)
             held == bandRank(RiskBand(d.reversal, d.blast)) > bandRank(pol.autoBand)
             ruling == CASE vetoes # {} -> Decision("escalate", vetoes)
                         [] held -> Decision("hold", {"risk_ceiling"})
                         [] OTHER -> Decision("approved", {})
  <2>5. EvaluateSet(set, pol, frozen, full) = ruling
    BY <1>2, Zenon DEF EvaluateSet
  <2>6. vetoes # {}
    BY <2>4, Zenon
  <2> HIDE DEF vetoes, held
  <2>7. ruling \in {Decision("escalate", vetoes), Decision("hold", {"risk_ceiling"})}
    BY <2>6
  <2> HIDE DEF ruling
  <2> QED
    BY <2>5, <2>7 DEF Decision
<1> QED
  BY <1>1, <1>2, Zenon

\* What calipers validate guarantees of every pair a contract names.
LEMMA ValidatedPair ==
    ASSUME All({profile}), NEW c \in profile.catalog.has, NEW tier \in c.tiers,
           NEW class \in c.classes
    PROVE  /\ class \in DOMAIN PolicyOf(profile.policy.has, tier).floors
           /\ PolicyOf(profile.policy.has, tier).floors[class] \in 1..10
<1>1. Profile(profile)
  BY DEF All
<1>2. /\ validateActionContract(c)
      /\ validatePolicy(profile.policy, profile.catalog.has)
  BY <1>1, Zenon DEF Profile
<1>3. class \in canonicalFailureClasses
  BY <1>2 DEF validateActionContract
<1>4. floorCovers(profile.policy.has, tier, class)
  BY <1>2, Zenon DEF validatePolicy
<1>5. PolicyOf(profile.policy.has, tier).floors[class] = profile.policy.has.floors[tier][class]
  BY <1>3, <1>4, Zenon DEF floorCovers, PolicyOf
<1>6. DOMAIN PolicyOf(profile.policy.has, tier).floors = canonicalFailureClasses
  BY Zenon DEF PolicyOf
<1> QED
  BY <1>3, <1>4, <1>5, <1>6, Zenon DEF floorCovers

\* Whatever profile calipers validate passes, hiss approves no candidate of
\* its catalog that carries no confidence, under either gate and any bands.
\* (validate.go Profile; authority.go Evaluate)
THEOREM ValidationKeepsFloors == Spec => []ValidatedFloorsHold
<1>1. ReleaseInv => ValidatedFloorsHold
  <2> SUFFICES ASSUME ReleaseInv, verdict = "ok", NEW c \in profile.catalog.has,
                      NEW tier \in c.tiers, NEW class \in c.classes
               PROVE  EvaluateSet(Ungrounded(c, class), PolicyOf(profile.policy.has, tier),
                                  FALSE, 10).verdict # "approved"
    BY Zenon DEF ValidatedFloorsHold
  <2> DEFINE pol == PolicyOf(profile.policy.has, tier)
             set == Ungrounded(c, class)
             p == [id |-> "a", ref |-> c.name, computed |-> 0, confidence |-> 0,
                   blast |-> c.blast, reversal |-> "automatic", band |-> "act-reversible"]
  <2>1. class \in DOMAIN pol.floors /\ pol.floors[class] \in 1..10
    BY ValidatedPair, Zenon DEF ReleaseInv
  <2>2. set.class = class /\ set.proposals = <<p>>
    BY Zenon DEF Ungrounded
  <2>3. p.computed = 0 /\ p.confidence = 0
    BY Zenon
  <2> HIDE DEF pol, set, p
  <2>4. FloorFor(pol, set.class, 10) > 0
    BY <2>1, <2>2 DEF FloorFor
  <2>5. effectiveComputedConfidence(p) < FloorFor(pol, set.class, 10)
    BY <2>3, <2>4 DEF effectiveComputedConfidence
  <2>6. Vetoes(set, p, pol, FALSE, 10) # {}
    <3>1. CASE pol.gate = "split"
      <4>1. "grounding_floor" \in Vetoes(set, p, pol, FALSE, 10)
        BY <2>5, <3>1 DEF Vetoes
      <4> QED
        BY <4>1, Zenon
    <3>2. CASE pol.gate # "split"
      <4>1. "confidence_floor" \in Vetoes(set, p, pol, FALSE, 10)
        BY <2>3, <2>4, <3>2 DEF Vetoes
      <4> QED
        BY <4>1, Zenon
    <3> QED
      BY <3>1, <3>2, Zenon
  <2>7. EvaluateSet(set, pol, FALSE, 10).verdict # "approved"
    BY <2>2, <2>6, VetoedIsNotApproved, Zenon
  <2> QED
    BY <2>7, Zenon DEF set, pol
<1> QED
  BY <1>1, ReleaseIsSound, PTL
=============================================================================
