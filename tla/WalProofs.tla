------------------------------ MODULE WalProofs ------------------------------
(***************************************************************************)
(* Proofs about Wal: types, that sealed segments survive, and that nothing *)
(* but the shipper's race with recoverOrphan loses an acknowledged line.   *)
(* At the end, the lives of the processes that own the logs: when a beat   *)
(* may report success, and that every way out drains its logs.             *)
(***************************************************************************)
EXTENDS Wal, FiniteSetTheorems, TLAPS

\* A leaf that names no backend is tried with SMT, then with Zenon.
USE SMTT(40), ZenonT(30)

-----------------------------------------------------------------------------
\* The parts of the invariant.  Those that concern a log and a bucket are
\* stated of any, so that they pass through the calls Append is made of.

\* An active handle has a file, and no file has no lines.
FileFits(w) ==
    /\ w.handle # "nil" => w.file.exists
    /\ ~w.file.exists => w.file.lines = <<>>
    /\ IsFiniteSet(w.segments)

\* Every name in use is older than the clock, so the next one is new.
NamesUsed(w, b) == \A s \in w.segments \cup b \cup w.sealed : s.name.at < w.clock

\* Nothing else has the name of a segment that seal renamed.
SealedUnique(w, b) ==
    \A s \in w.sealed : \A t \in w.segments \cup b : t.name = s.name => t = s

SealedThere(w, b) == w.sealed \subseteq w.segments \cup b

LogFits(w, b) ==
    /\ w \in Log
    /\ FileFits(w)
    /\ NamesUsed(w, b)
    /\ SealedUnique(w, b)
    /\ SealedThere(w, b)

\* recoverOrphan runs under the mutex, on a file, into a segment of its own.
RecoveryFits ==
    recovering.step # "no" =>
        /\ wal.handle = "nil"
        /\ wal.file.exists
        /\ recovering.name.at < wal.clock
        /\ \A s \in wal.sealed : s.name # recovering.name

\* Ship is about segments that exist already, and has uploaded the one it is
\* about to remove.
ShipFits ==
    /\ \A n \in ship.left : n.at < wal.clock
    /\ ship.step = "put" =>
          \A s \in wal.sealed : FirstLeft(s.name) => s \in bucket

\* The inductive invariant behind SealedKept.
Inv ==
    /\ TypeOK
    /\ LogFits(wal, bucket)
    /\ RecoveryFits
    /\ ShipFits

\* As long as the shipper has not raced with recoverOrphan: a name means one
\* content,
OneContent(w, b) ==
    \A s \in w.segments : \A t \in w.segments \cup b : t.name = s.name => t = s

\* what is being copied is still empty and not uploaded,
CopyPrivate ==
    recovering.step = "copy" =>
        /\ \E s \in wal.segments : s.name = recovering.name
        /\ \A s \in wal.segments : s.name = recovering.name => s.lines = <<>>
        /\ \A t \in bucket : t.name # recovering.name

Stored(x, w, b) == \E s \in w.segments \cup b : x \in Lines(s.lines)

\* what was copied is stored,
CopyStored ==
    recovering.step = "copied" =>
        \A x \in Lines(wal.file.lines) : Stored(x, wal, bucket)

\* and what is about to be removed is uploaded.
RemovedUploaded ==
    ship.step = "put" =>
        \A s \in wal.segments : FirstLeft(s.name) => s \in bucket

\* The inductive invariant behind KeptUnlessRaced, with Inv.
Unraced ==
    /\ OneContent(wal, bucket)
    /\ CopyPrivate
    /\ CopyStored
    /\ RemovedUploaded
    /\ RecordsKept

UnracedInv == raced \/ Unraced

-----------------------------------------------------------------------------
\* Lines.

\* A line is in the sequence that holds it, whatever is appended to it.
LEMMA LinesAppend ==
    ASSUME NEW q \in Seq(Nat), NEW n \in Nat
    PROVE  Lines(Append(q, n)) = Lines(q) \cup {n}
<1>1. \A i \in 1..Len(q) : Append(q, n)[i] = q[i]
  OBVIOUS
<1>2. Append(q, n)[Len(q) + 1] = n
  OBVIOUS
<1>3. 1..Len(Append(q, n)) = 1..Len(q) \cup {Len(q) + 1}
  OBVIOUS
<1> QED BY <1>1, <1>2, <1>3 DEF Lines

\* A prefix is a sequence, and what it leaves out comes after it.
LEMMA LinesPrefix ==
    ASSUME NEW q \in Seq(Nat), NEW k \in 0..Len(q)
    PROVE  /\ SubSeq(q, 1, k) \in Seq(Nat)
           /\ \A x \in Lines(q) :
                 \/ x \in Lines(SubSeq(q, 1, k))
                 \/ x \in {q[i] : i \in (k + 1)..Len(q)}
<1> DEFINE p == SubSeq(q, 1, k)
<1>1. p \in Seq(Nat) /\ Len(p) = k /\ \A i \in 1..k : p[i] = q[i]
  OBVIOUS
<1>2. ASSUME NEW i \in 1..Len(q)
      PROVE  q[i] \in Lines(p) \/ q[i] \in {q[j] : j \in (k + 1)..Len(q)}
  <2>1. CASE i \in 1..k
    BY <1>1, <2>1 DEF Lines
  <2>2. CASE i \in (k + 1)..Len(q)
    BY <2>2
  <2> QED BY <2>1, <2>2
<1> QED BY <1>1, <1>2 DEF Lines

LEMMA LinesWhole ==
    ASSUME NEW q \in Seq(Nat)
    PROVE  SubSeq(q, 1, Len(q)) = q
OBVIOUS

\* The lines of a sequence are numbers.
LEMMA LinesNat ==
    ASSUME NEW q \in Seq(Nat)
    PROVE  Lines(q) \subseteq Nat
BY DEF Lines

-----------------------------------------------------------------------------
\* The calls under the mutex.

\* v holds what w does, under the same names, and what v adds is newly named.
Continues(w, v) ==
    /\ w.clock <= v.clock
    /\ w.segments \subseteq v.segments
    /\ w.sealed \subseteq v.sealed
    /\ \A s \in v.segments : s \in w.segments \/ w.clock <= s.name.at
    /\ \A s \in v.sealed : s \in w.sealed \/ w.clock <= s.name.at
    /\ \A x \in Lines(w.file.lines) :
          x \in Lines(v.file.lines) \/ Stored(x, v, {})

\* What a call returns: a log that fits, whose names stay unique if they were.
CallFits(w, b, d) ==
    /\ LogFits(d.log, b)
    /\ Continues(w, d.log)
    /\ d.cost \in Nat
    /\ OneContent(w, b) => OneContent(d.log, b)

LEMMA ContinuesItself ==
    ASSUME NEW w \in Log
    PROVE  Continues(w, w)
BY DEF Continues, Log

LEMMA ContinuesOn ==
    ASSUME NEW u \in Log, NEW v \in Log, NEW w \in Log,
           Continues(u, v), Continues(v, w)
    PROVE  Continues(u, w)
<1>1. u.clock <= w.clock
  BY DEF Continues, Log
<1>2. ASSUME NEW s \in w.segments PROVE s \in u.segments \/ u.clock <= s.name.at
  <2>1. s.name.at \in Nat /\ u.clock \in Nat /\ v.clock \in Nat
    BY DEF Log, Segment, Name
  <2> QED BY <2>1 DEF Continues
<1>3. ASSUME NEW s \in w.sealed PROVE s \in u.sealed \/ u.clock <= s.name.at
  <2>1. s.name.at \in Nat /\ u.clock \in Nat /\ v.clock \in Nat
    BY DEF Log, Segment, Name
  <2> QED BY <2>1 DEF Continues
<1>4. ASSUME NEW x \in Lines(u.file.lines)
      PROVE  x \in Lines(w.file.lines) \/ Stored(x, w, {})
  BY DEF Continues, Stored
<1>5. u.segments \subseteq w.segments /\ u.sealed \subseteq w.sealed
  BY DEF Continues
<1> QED BY <1>1, <1>2, <1>3, <1>4, <1>5 DEF Continues

\* The two files a log may start with.
LEMMA NewFiles ==
    /\ NoFile \in File
    /\ NoFile.lines = <<>>
    /\ EmptyFile \in File
    /\ EmptyFile.lines = <<>>
    /\ EmptyFile.exists
<1>1. <<>> \in Seq(Nat)
  OBVIOUS
<1>2. NoFile \in File
  BY <1>1 DEF NoFile, File
<1>3. EmptyFile \in File
  BY <1>1 DEF EmptyFile, File
<1> QED BY <1>2, <1>3 DEF NoFile, EmptyFile

\* A file with other lines, or synced further.
LEMMA WithLines ==
    ASSUME NEW f \in File, NEW q \in Seq(Nat)
    PROVE  LET g == [f EXCEPT !.lines = q]
           IN  g \in File /\ g.exists = f.exists /\ g.lines = q
<1> DEFINE g == [f EXCEPT !.lines = q]
<1>1. g \in File
  BY DEF File
<1>2. g.lines = q
  BY DEF File
<1>3. g.exists = f.exists
  BY DEF File
<1> QED BY <1>1, <1>2, <1>3, Zenon

LEMMA WithSynced ==
    ASSUME NEW f \in File, NEW k \in Nat
    PROVE  LET g == [f EXCEPT !.synced = k]
           IN  g \in File /\ g.exists = f.exists /\ g.lines = f.lines
<1> DEFINE g == [f EXCEPT !.synced = k]
<1>1. g \in File
  BY DEF File
<1>2. g.lines = f.lines
  BY DEF File
<1>3. g.exists = f.exists
  BY DEF File
<1> QED BY <1>1, <1>2, <1>3, Zenon

\* A log with another file is a log.
LEMMA WithFile ==
    ASSUME NEW w \in Log, NEW f \in File
    PROVE  LET v == [w EXCEPT !.file = f]
           IN  /\ v \in Log
               /\ v.handle = w.handle
               /\ v.file = f
               /\ v.clock = w.clock
               /\ v.segments = w.segments
               /\ v.sealed = w.sealed
BY DEF Log

\* seal, whichever of its calls fails.
LEMMA SealsFit ==
    ASSUME NEW w, NEW b \in SUBSET Segment, LogFits(w, b), w.handle # "nil",
           NEW d \in Seals(w)
    PROVE  CallFits(w, b, d) /\ (d.err = "nil" => d.log.handle # "nil")
<1> DEFINE segment == [name |-> SegmentName(w.base, w.clock), lines |-> w.file.lines,
                       by |-> "seal"]
           closed == [w EXCEPT !.handle = "closed", !.file.synced = Len(w.file.lines)]
           renamed == [w EXCEPT !.handle = "nil", !.file = NoFile, !.base = w.base + 1,
                                !.clock = w.clock + 1,
                                !.segments = Replacing(w.segments, segment),
                                !.sealed = w.sealed \cup {segment}]
           fresh == [renamed EXCEPT !.handle = "open", !.file = EmptyFile]
<1>0. w \in Log
  BY DEF LogFits
<1>1. w.base \in Nat /\ w.clock \in Nat /\ w.file \in File /\ w.file.lines \in Seq(Nat)
  BY <1>0 DEF Log, File
<1>2. segment \in Segment /\ segment.name.at = w.clock /\ segment.lines = w.file.lines
  BY <1>1 DEF Segment, Name, SegmentName
<1>3. \A t \in w.segments \cup b \cup w.sealed : t.name # segment.name
  <2> SUFFICES ASSUME NEW t \in w.segments \cup b \cup w.sealed PROVE t.name # segment.name
    OBVIOUS
  <2>1. t.name.at < w.clock /\ t.name.at \in Nat
    BY <1>0 DEF LogFits, NamesUsed, Log, Segment, Name
  <2> QED BY <2>1, <1>1, <1>2
<1>4. Replacing(w.segments, segment) = w.segments \cup {segment}
  BY <1>3 DEF Replacing
<1>5. /\ NoFile \in File /\ NoFile.lines = <<>>
      /\ EmptyFile \in File /\ EmptyFile.lines = <<>> /\ EmptyFile.exists
  BY NewFiles
<1>6. renamed \in Log /\ renamed.handle = "nil" /\ renamed.file = NoFile
      /\ renamed.clock = w.clock + 1 /\ renamed.segments = w.segments \cup {segment}
      /\ renamed.sealed = w.sealed \cup {segment}
  <2>1. renamed = [w EXCEPT !.handle = "nil", !.file = NoFile, !.base = w.base + 1,
                            !.clock = w.clock + 1, !.segments = w.segments \cup {segment},
                            !.sealed = w.sealed \cup {segment}]
    BY <1>4, Zenon
  <2>2. /\ w.base + 1 \in Nat /\ w.clock + 1 \in Nat
        /\ w.segments \cup {segment} \in SUBSET Segment
        /\ w.sealed \cup {segment} \in SUBSET Segment
    BY <1>0, <1>1, <1>2 DEF Log
  <2> HIDE DEF renamed, segment
  <2>3. renamed \in Log
    BY <1>0, <1>5, <2>1, <2>2, Zenon DEF Log
  <2>4. renamed.handle = "nil" /\ renamed.file = NoFile /\ renamed.clock = w.clock + 1
    BY <1>0, <2>1 DEF Log
  <2>5. renamed.segments = w.segments \cup {segment} /\ renamed.sealed = w.sealed \cup {segment}
    BY <1>0, <2>1 DEF Log
  <2> QED BY <2>3, <2>4, <2>5
<1>7. fresh \in Log /\ fresh.handle = "open" /\ fresh.file = EmptyFile
      /\ fresh.clock = w.clock + 1 /\ fresh.segments = w.segments \cup {segment}
      /\ fresh.sealed = w.sealed \cup {segment}
  BY <1>5, <1>6, Zenon DEF Log
<1>8. closed \in Log /\ closed.handle = "closed" /\ closed.file.exists = w.file.exists
      /\ closed.file.lines = w.file.lines /\ closed.segments = w.segments
      /\ closed.sealed = w.sealed /\ closed.clock = w.clock
  <2> DEFINE f == [w.file EXCEPT !.synced = Len(w.file.lines)]
  <2>1. f \in File /\ f.exists = w.file.exists /\ f.lines = w.file.lines
    <3>1. Len(w.file.lines) \in Nat
      BY <1>1
    <3> QED BY <1>1, <3>1, WithSynced, Zenon
  <2>2. closed = [w EXCEPT !.handle = "closed", !.file = f]
    OBVIOUS
  <2> HIDE DEF f, closed
  <2> QED BY <1>0, <2>1, <2>2, Zenon DEF Log
<1>9. d \in {Did(w, "failed", 0), Did(fresh, "nil", 0), Did(renamed, "failed", 1),
             Did(closed, "failed", 1), Did(w, "failed", 1)}
  BY DEF Seals
<1>10. /\ d.log \in {w, fresh, renamed, closed}
       /\ d.cost \in Nat
      
       /\ d.err = "nil" => d.log = fresh
  <2> HIDE DEF fresh, renamed, closed, segment
  <2>1. CASE d = Did(fresh, "nil", 0)
    <3>1. d.log = fresh /\ d.err = "nil" /\ d.cost = 0
      BY <2>1 DEF Did
    <3> QED BY <3>1
  <2>2. CASE d \in {Did(w, "failed", 0), Did(renamed, "failed", 1), Did(closed, "failed", 1),
                    Did(w, "failed", 1)}
    <3>1. d.log \in {w, renamed, closed} /\ d.err = "failed" /\ d.cost \in {0, 1}
      BY <2>2 DEF Did
    <3> QED BY <3>1
  <2> QED BY <1>9, <2>1, <2>2
<1>11. ASSUME NEW v \in Log, v.clock = w.clock + 1, v.segments = w.segments \cup {segment},
              v.sealed = w.sealed \cup {segment}, FileFits(v)
       PROVE  LogFits(v, b) /\ Continues(w, v) /\ (OneContent(w, b) => OneContent(v, b))
  <2>1. NamesUsed(v, b)
    <3> SUFFICES ASSUME NEW t \in v.segments \cup b \cup v.sealed PROVE t.name.at < v.clock
      BY DEF NamesUsed
    <3>1. CASE t = segment
      BY <3>1, <1>1, <1>2, <1>11
    <3>2. CASE t \in w.segments \cup b \cup w.sealed
      <4>1. t.name.at < w.clock /\ t.name.at \in Nat
        BY <3>2, <1>0 DEF LogFits, NamesUsed, Log, Segment, Name
      <4> QED BY <4>1, <1>1, <1>11
    <3> QED BY <3>1, <3>2, <1>11
  <2>2. SealedUnique(v, b)
    BY <1>3, <1>11 DEF LogFits, SealedUnique
  <2>3. SealedThere(v, b)
    BY <1>11 DEF LogFits, SealedThere
  <2>4. Continues(w, v)
    <3>1. \A x \in Lines(w.file.lines) : Stored(x, v, {})
      BY <1>2, <1>11 DEF Stored
    <3>2. w.clock <= v.clock /\ w.clock <= segment.name.at
      BY <1>1, <1>2, <1>11
    <3> HIDE DEF segment
    <3> QED BY <3>1, <3>2, <1>11 DEF Continues
  <2>5. OneContent(w, b) => OneContent(v, b)
    BY <1>3, <1>11 DEF OneContent
  <2> QED BY <2>1, <2>2, <2>3, <2>4, <2>5, <1>11 DEF LogFits
<1>12. IsFiniteSet(w.segments \cup {segment})
  BY FS_AddElement, Zenon DEF LogFits, FileFits
<1>13. FileFits(fresh) /\ FileFits(renamed)
  <2> HIDE DEF fresh, renamed, segment
  <2> QED BY <1>5, <1>6, <1>7, <1>12 DEF FileFits
<1>14. LogFits(closed, b) /\ Continues(w, closed) /\ (OneContent(w, b) => OneContent(closed, b))
  <2> HIDE DEF closed
  <2>1. LogFits(closed, b)
    BY <1>8 DEF LogFits, FileFits, NamesUsed, SealedUnique, SealedThere
  <2>2. Continues(w, closed)
    BY <1>1, <1>8 DEF Continues
  <2> QED BY <1>8, <2>1, <2>2 DEF OneContent
<1>15. Continues(w, w)
  BY <1>0, ContinuesItself
<1> HIDE DEF closed, fresh, renamed, segment
<1>16. ASSUME NEW v \in {w, fresh, renamed, closed}
       PROVE  LogFits(v, b) /\ Continues(w, v) /\ (OneContent(w, b) => OneContent(v, b))
  BY <1>6, <1>7, <1>11, <1>13, <1>14, <1>15
<1> QED BY <1>7, <1>10, <1>16 DEF CallFits

\* The write of a line, whether it succeeds or not.
LEMMA WritesFit ==
    ASSUME NEW w, NEW b \in SUBSET Segment, LogFits(w, b), w.handle # "nil",
           NEW n \in Nat, NEW d \in Writes(w, n)
    PROVE  /\ CallFits(w, b, d)
          
           /\ d.log.handle # "nil"
           /\ d.err = "nil" => n \in Lines(d.log.file.lines)
<1> DEFINE written == [w EXCEPT !.file.lines = Append(w.file.lines, n)]
<1>0. w \in Log
  BY DEF LogFits
<1>1. w.file \in File /\ w.file.lines \in Seq(Nat)
  BY <1>0 DEF Log, File
<1>2. written \in Log /\ written.handle = w.handle /\ written.file.exists = w.file.exists
      /\ written.file.lines = Append(w.file.lines, n) /\ written.segments = w.segments
      /\ written.sealed = w.sealed /\ written.clock = w.clock
  <2> DEFINE f == [w.file EXCEPT !.lines = Append(w.file.lines, n)]
  <2>1. f \in File /\ f.exists = w.file.exists /\ f.lines = Append(w.file.lines, n)
    <3>1. Append(w.file.lines, n) \in Seq(Nat)
      BY <1>1
    <3> QED BY <1>1, <3>1, WithLines, Zenon
  <2>2. written = [w EXCEPT !.file = f]
    OBVIOUS
  <2> HIDE DEF f, written
  <2> QED BY <1>0, <2>1, <2>2, WithFile
<1>3. Lines(written.file.lines) = Lines(w.file.lines) \cup {n}
  BY <1>1, <1>2, LinesAppend, Zenon
<1>4. d \in {Did(w, "failed", 0), Did(written, "nil", 0), Did(w, "failed", 1)}
  BY DEF Writes
<1>5. d.log \in {w, written} /\ d.cost \in Nat /\ (d.err = "nil" => d.log = written)
  <2> HIDE DEF written
  <2>1. CASE d = Did(written, "nil", 0)
    <3>1. d.log = written /\ d.err = "nil" /\ d.cost = 0
      BY <2>1 DEF Did
    <3> QED BY <3>1
  <2>2. CASE d \in {Did(w, "failed", 0), Did(w, "failed", 1)}
    <3>1. d.log = w /\ d.err = "failed" /\ d.cost \in {0, 1}
      BY <2>2 DEF Did
    <3> QED BY <3>1
  <2> QED BY <1>4, <2>1, <2>2
<1> HIDE DEF written
<1>6. LogFits(written, b)
  BY <1>2 DEF LogFits, FileFits, NamesUsed, SealedUnique, SealedThere
<1>7. Continues(w, written)
  BY <1>0, <1>2, <1>3 DEF Continues, Log
<1>8. OneContent(w, b) => OneContent(written, b)
  BY <1>2 DEF OneContent
<1>9. Continues(w, w)
  BY <1>0, ContinuesItself
<1> QED BY <1>2, <1>3, <1>5, <1>6, <1>7, <1>8, <1>9, Zenon DEF CallFits

\* Append past ensureActive, whichever of its calls fails.
LEMMA AppendsFit ==
    ASSUME LogFits(wal, bucket), bucket \in SUBSET Segment, wal.handle # "nil",
           NEW n \in Nat, NEW d \in Appends(n)
    PROVE  /\ CallFits(wal, bucket, d)
           /\ d.err = "nil" => n \in Lines(d.log.file.lines) \/ Stored(n, d.log, {})
<1> DEFINE Last(b) == IF Len(b.log.file.lines) >= SegmentLines THEN Seals(b.log)
                      ELSE Idle(b.log)
           Ends(a, b) == IF b.err # "nil" THEN {[b EXCEPT !.cost = a.cost + b.cost]}
                         ELSE {[c EXCEPT !.cost = a.cost + b.cost + c.cost] : c \in Last(b)}
           Goes(a) == IF a.err # "nil" THEN {a}
                      ELSE UNION {Ends(a, b) : b \in Writes(a.log, n)}
<1>1. PICK a \in Idle(wal) \cup Seals(wal) : d \in Goes(a)
  BY DEF Appends
<1>2. CallFits(wal, bucket, a) /\ (a.err = "nil" => a.log.handle # "nil")
  <2>1. CASE a \in Idle(wal)
    <3>1. a.log = wal /\ a.cost = 0
      BY <2>1 DEF Idle, Did
    <3>2. Continues(wal, wal)
      BY ContinuesItself DEF LogFits
    <3> QED BY <3>1, <3>2 DEF CallFits
  <2>2. CASE a \in Seals(wal)
    BY <2>2, SealsFit
  <2> QED BY <2>1, <2>2
<1>3. CASE a.err # "nil"
  BY <1>1, <1>2, <1>3
<1>4. CASE a.err = "nil"
  <2> HIDE DEF Ends
  <2>1. PICK b \in Writes(a.log, n) : d \in Ends(a, b)
    BY <1>1, <1>4
  <2> USE DEF Ends
  <2> HIDE DEF Last
  <2>2. /\ CallFits(a.log, bucket, b)
        /\ b.log.handle # "nil"
        /\ b.err = "nil" => n \in Lines(b.log.file.lines)
    BY <1>2, <1>4, WritesFit DEF CallFits
  <2>3. CallFits(wal, bucket, b)
    <3>1. wal \in Log /\ a.log \in Log /\ b.log \in Log
      BY <1>2, <2>2 DEF CallFits, LogFits
    <3>2. Continues(wal, b.log)
      BY <1>2, <2>2, <3>1, ContinuesOn DEF CallFits
    <3> QED BY <1>2, <2>2, <3>2 DEF CallFits
  <2>4. CASE b.err # "nil"
    <3>1. d = [b EXCEPT !.cost = a.cost + b.cost]
      BY <2>1, <2>4
    <3>2. b \in {Did(a.log, "failed", 0), Did(a.log, "failed", 1),
                 Did([a.log EXCEPT !.file.lines = Append(a.log.file.lines, n)], "nil", 0)}
      BY DEF Writes
    <3>3. d.log = b.log /\ d.err = b.err /\ d.cost = a.cost + b.cost
      BY <3>1, <3>2 DEF Did
    <3> QED BY <1>2, <2>3, <2>4, <3>3 DEF CallFits
  <2>5. CASE b.err = "nil"
    <3>1. PICK c \in Last(b) : d = [c EXCEPT !.cost = a.cost + b.cost + c.cost]
      BY <2>1, <2>5
    <3>2. CallFits(b.log, bucket, c)
      <4>1. CASE c \in Idle(b.log)
        <5>1. c.log = b.log /\ c.cost = 0
          BY <4>1 DEF Idle, Did
        <5>2. Continues(b.log, b.log)
          BY <2>3, ContinuesItself DEF CallFits, LogFits
        <5> QED BY <2>3, <5>1, <5>2 DEF CallFits
      <4>2. CASE c \in Seals(b.log)
        BY <2>2, <4>2, SealsFit DEF CallFits
      <4> QED BY <4>1, <4>2 DEF Last
    <3>3. \E v, e, k : c = Did(v, e, k)
      BY DEF Last, Idle, Seals
    <3>4. d.log = c.log /\ d.cost = a.cost + b.cost + c.cost
      BY <3>1, <3>3 DEF Did
    <3>5. wal \in Log /\ b.log \in Log /\ c.log \in Log
      BY <2>3, <3>2 DEF CallFits, LogFits
    <3>6. Continues(wal, c.log)
      BY <2>3, <3>2, <3>5, ContinuesOn DEF CallFits
    <3>7. CallFits(wal, bucket, d)
      BY <1>2, <2>3, <3>2, <3>4, <3>6 DEF CallFits
    <3>8. n \in Lines(c.log.file.lines) \/ Stored(n, c.log, {})
      BY <2>2, <2>5, <3>2 DEF CallFits, Continues
    <3> QED BY <3>4, <3>7, <3>8
  <2> QED BY <2>4, <2>5
<1> QED BY <1>3, <1>4

-----------------------------------------------------------------------------
\* What a log that continues the one before does to the invariants.

\* Ship's names are old.
LEMMA ShipContinues ==
    ASSUME Inv, wal' \in Log, Continues(wal, wal'), UNCHANGED <<ship, bucket>>
    PROVE  ShipFits'
<1>1. wal \in Log
  BY DEF Inv, LogFits
<1>2. \A n \in ship'.left : n.at < wal'.clock
  <2> SUFFICES ASSUME NEW n \in ship.left PROVE n.at < wal'.clock
    OBVIOUS
  <2>1. n.at \in Nat /\ n.at < wal.clock
    BY DEF Inv, TypeOK, ShipFits, Name
  <2> QED BY <1>1, <2>1 DEF Continues, Log
<1>3. ASSUME ship'.step = "put", NEW s \in wal'.sealed, FirstLeft(s.name)'
      PROVE  s \in bucket'
  <2>1. FirstLeft(s.name)
    BY <1>3 DEF FirstLeft
  <2>2. s.name.at < wal.clock /\ s.name.at \in Nat /\ wal.clock \in Nat
    BY <1>1, <2>1 DEF Inv, ShipFits, FirstLeft, Log, Segment, Name
  <2>3. s \in wal.sealed
    BY <2>2 DEF Continues
  <2> QED BY <1>3, <2>1, <2>3 DEF Inv, ShipFits
<1> QED BY <1>2, <1>3 DEF ShipFits

LEMMA UploadContinues ==
    ASSUME Inv, Unraced, wal' \in Log, Continues(wal, wal'), UNCHANGED <<ship, bucket>>
    PROVE  RemovedUploaded'
<1> SUFFICES ASSUME ship'.step = "put", NEW s \in wal'.segments, FirstLeft(s.name)'
             PROVE  s \in bucket'
  BY DEF RemovedUploaded
<1>1. wal \in Log
  BY DEF Inv, LogFits
<1>2. FirstLeft(s.name)
  BY DEF FirstLeft
<1>3. s.name.at < wal.clock /\ s.name.at \in Nat /\ wal.clock \in Nat
  BY <1>1, <1>2 DEF Inv, ShipFits, FirstLeft, Log, Segment, Name
<1>4. s \in wal.segments
  BY <1>3 DEF Continues
<1> QED BY <1>2, <1>4 DEF Unraced, RemovedUploaded

\* A line that was kept, or is new and in the log, is kept.
LEMMA KeptContinues ==
    ASSUME RecordsKept, Continues(wal, wal'), UNCHANGED <<bucket, lost>>,
           \A x \in appended' : x \in appended \/ x \in Lines(wal'.file.lines)
                                               \/ Stored(x, wal', {})
    PROVE  RecordsKept'
<1> SUFFICES ASSUME NEW x \in appended' PROVE x \in Kept' \cup lost'
  BY DEF RecordsKept
<1>1. Stored(x, wal', {}) => x \in Kept'
  BY DEF Stored, Kept
<1>2. x \in Lines(wal'.file.lines) => x \in Kept'
  BY DEF Kept
<1>3. ASSUME x \in Kept PROVE x \in Kept'
  <2>1. CASE x \in Lines(wal.file.lines)
    BY <1>1, <1>2, <2>1 DEF Continues
  <2>2. CASE \E s \in wal.segments \cup bucket : x \in Lines(s.lines)
    BY <2>2 DEF Continues, Kept
  <2> QED BY <1>3, <2>1, <2>2 DEF Kept
<1> QED BY <1>1, <1>2, <1>3 DEF RecordsKept

\* A call under the mutex: recovery is not running.
LEMMA CallKeeps ==
    ASSUME Inv, wal.handle # "nil" \/ ~wal.file.exists,
           LogFits(wal', bucket), Continues(wal, wal'),
           UNCHANGED <<recovering, ship, bucket>>
    PROVE  LogFits(wal', bucket') /\ RecoveryFits' /\ ShipFits'
<1>1. wal' \in Log
  BY DEF LogFits
<1>2. RecoveryFits'
  BY DEF Inv, RecoveryFits
<1> QED BY <1>1, <1>2, ShipContinues

LEMMA CallKeepsUnraced ==
    ASSUME Inv, Unraced, wal.handle # "nil" \/ ~wal.file.exists,
           wal' \in Log, OneContent(wal', bucket), Continues(wal, wal'),
           UNCHANGED <<recovering, ship, bucket, lost>>,
           \A x \in appended' : x \in appended \/ x \in Lines(wal'.file.lines)
                                               \/ Stored(x, wal', {})
    PROVE  Unraced'
<1>1. recovering.step = "no"
  BY DEF Inv, RecoveryFits
<1>2. CopyPrivate' /\ CopyStored'
  BY <1>1 DEF CopyPrivate, CopyStored
<1>3. RemovedUploaded'
  BY UploadContinues
<1>4. RecordsKept'
  BY KeptContinues DEF Unraced
<1>5. OneContent(wal, bucket)'
  BY DEF OneContent
<1> QED BY <1>2, <1>3, <1>4, <1>5 DEF Unraced

-----------------------------------------------------------------------------
\* One lemma per action.

LEMMA SpendTyped ==
    ASSUME TypeOK, NEW cost \in Nat, Spend(cost)
    PROVE  faults' \in 0..MaxFaults
BY WalAssumption DEF TypeOK, Spend

LEMMA AppendLineKeeps ==
    ASSUME Inv, UnracedInv, AppendLine
    PROVE  Inv' /\ UnracedInv'
<1> DEFINE n == tried + 1
<1>1. n \in Nat
  BY DEF Inv, TypeOK
<1>2. PICK d \in Appends(n) :
        /\ Spend(d.cost)
        /\ wal' = d.log
        /\ appended' = IF d.err = "nil" THEN appended \cup {n} ELSE appended
  BY DEF AppendLine
<1>3. /\ wal.handle # "nil" /\ tried < MaxAppends /\ tried' = tried + 1
      /\ UNCHANGED <<recovering, ship, bucket, lost, raced>>
  BY DEF AppendLine
<1> HIDE DEF n
<1>4. /\ CallFits(wal, bucket, d)
      /\ d.err = "nil" => n \in Lines(d.log.file.lines) \/ Stored(n, d.log, {})
  BY <1>1, <1>3, AppendsFit DEF Inv, TypeOK
<1>5. LogFits(wal', bucket) /\ Continues(wal, wal') /\ d.cost \in Nat
      /\ (OneContent(wal, bucket) => OneContent(wal', bucket))
  BY <1>2, <1>4 DEF CallFits
<1>6. TypeOK'
  <2>1. faults' \in 0..MaxFaults
    BY <1>2, <1>5, SpendTyped DEF Inv
  <2>2. tried' \in 0..MaxAppends
    BY <1>3, WalAssumption DEF Inv, TypeOK
  <2>3. appended' \in SUBSET Nat
    BY <1>1, <1>2 DEF Inv, TypeOK
  <2>4. wal' \in Log
    BY <1>5 DEF LogFits
  <2> QED BY <1>3, <2>1, <2>2, <2>3, <2>4 DEF Inv, TypeOK
<1>7. Inv'
  BY <1>3, <1>5, <1>6, CallKeeps DEF Inv
<1>8. ASSUME Unraced PROVE Unraced'
  <2>1. \A x \in appended' : x \in appended \/ x \in Lines(wal'.file.lines)
                                            \/ Stored(x, wal', {})
    BY <1>2, <1>4
  <2>2. wal' \in Log /\ OneContent(wal', bucket)
    BY <1>5, <1>8 DEF LogFits, Unraced
  <2> QED BY <1>3, <1>5, <1>8, <2>1, <2>2, CallKeepsUnraced
<1> QED BY <1>3, <1>7, <1>8 DEF UnracedInv

LEMMA SealStaleKeeps ==
    ASSUME Inv, UnracedInv, SealStale
    PROVE  Inv' /\ UnracedInv'
<1>1. PICK d \in Seals(wal) : Spend(d.cost) /\ wal' = d.log
  BY DEF SealStale
<1>2. wal.handle # "nil" /\ UNCHANGED <<recovering, ship, bucket, tried, appended, lost, raced>>
  BY DEF SealStale
<1>3. CallFits(wal, bucket, d)
  BY <1>2, SealsFit DEF Inv, TypeOK
<1>4. LogFits(wal', bucket) /\ Continues(wal, wal') /\ d.cost \in Nat
      /\ (OneContent(wal, bucket) => OneContent(wal', bucket))
  BY <1>1, <1>3 DEF CallFits
<1>5. TypeOK'
  <2>1. faults' \in 0..MaxFaults
    BY <1>1, <1>4, SpendTyped DEF Inv
  <2> QED BY <1>2, <1>4, <2>1 DEF Inv, TypeOK, LogFits
<1>6. Inv'
  BY <1>2, <1>4, <1>5, CallKeeps DEF Inv
<1>7. ASSUME Unraced PROVE Unraced'
  <2>1. wal' \in Log /\ OneContent(wal', bucket)
    BY <1>4, <1>7 DEF LogFits, Unraced
  <2> QED BY <1>2, <1>4, <1>7, <2>1, CallKeepsUnraced
<1> QED BY <1>2, <1>6, <1>7 DEF UnracedInv

LEMMA SyncActiveKeeps ==
    ASSUME Inv, UnracedInv, SyncActive
    PROVE  Inv' /\ UnracedInv'
<1> DEFINE f == [wal.file EXCEPT !.synced = Len(wal.file.lines)]
<1>1. /\ wal.handle = "open"
      /\ UNCHANGED <<recovering, ship, bucket, tried, appended, lost, raced, faults>>
  BY DEF SyncActive
<1>2. wal' = [wal EXCEPT !.file = f]
  BY DEF SyncActive
<1>3. wal \in Log /\ wal.file \in File /\ wal.file.lines \in Seq(Nat)
  BY DEF Inv, TypeOK, Log, File
<1>4. f \in File /\ f.exists = wal.file.exists /\ f.lines = wal.file.lines
  <2>1. Len(wal.file.lines) \in Nat
    BY <1>3
  <2> QED BY <1>3, <2>1, WithSynced, Zenon
<1> HIDE DEF f
<1>5. /\ wal' \in Log /\ wal'.handle = wal.handle /\ wal'.file = f /\ wal'.clock = wal.clock
      /\ wal'.segments = wal.segments /\ wal'.sealed = wal.sealed
  BY <1>2, <1>3, <1>4, WithFile
<1>6. LogFits(wal', bucket) /\ OneContent(wal', bucket) = OneContent(wal, bucket)
  BY <1>1, <1>4, <1>5 DEF Inv, LogFits, FileFits, NamesUsed, SealedUnique, SealedThere, OneContent
<1>7. Continues(wal, wal')
  BY <1>3, <1>4, <1>5 DEF Continues, Log
<1>8. TypeOK'
  BY <1>1, <1>5 DEF Inv, TypeOK
<1>9. Inv'
  BY <1>1, <1>6, <1>7, <1>8, CallKeeps DEF Inv
<1>10. ASSUME Unraced PROVE Unraced'
  <2>1. OneContent(wal', bucket)
    BY <1>6, <1>10 DEF Unraced
  <2> QED BY <1>1, <1>5, <1>7, <1>10, <2>1, CallKeepsUnraced
<1> QED BY <1>1, <1>9, <1>10 DEF UnracedInv

LEMMA NextBaseOffsetNat ==
    ASSUME Inv
    PROVE  NextBaseOffset \in Nat
BY FS_CardinalityType DEF Inv, LogFits, FileFits, NextBaseOffset

LEMMA OpenActiveKeeps ==
    ASSUME Inv, UnracedInv, OpenActive
    PROVE  Inv' /\ UnracedInv'
<1>1. /\ ~wal.file.exists
      /\ wal' = [wal EXCEPT !.handle = "open", !.file = EmptyFile, !.base = NextBaseOffset]
      /\ UNCHANGED <<recovering, ship, bucket, tried, appended, lost, raced, faults>>
  BY DEF OpenActive
<1>2. wal \in Log
  BY DEF Inv, TypeOK
<1>3. /\ wal' \in Log /\ wal'.handle = "open" /\ wal'.file = EmptyFile
      /\ wal'.clock = wal.clock /\ wal'.segments = wal.segments /\ wal'.sealed = wal.sealed
  BY <1>1, <1>2, NewFiles, NextBaseOffsetNat, Zenon DEF Log
<1>4. wal.file.lines = <<>>
  BY <1>1 DEF Inv, LogFits, FileFits
<1>5. FileFits(wal')
  BY <1>3, NewFiles DEF Inv, LogFits, FileFits
<1>6. LogFits(wal', bucket)
  BY <1>3, <1>5 DEF Inv, LogFits, NamesUsed, SealedUnique, SealedThere
<1>7. Continues(wal, wal')
  <2>1. Lines(wal.file.lines) = {}
    BY <1>4 DEF Lines
  <2> QED BY <1>2, <1>3, <2>1 DEF Continues, Log
<1>8. TypeOK'
  BY <1>1, <1>3 DEF Inv, TypeOK
<1>9. Inv'
  BY <1>1, <1>6, <1>7, <1>8, CallKeeps DEF Inv
<1>10. ASSUME Unraced PROVE Unraced'
  <2>1. OneContent(wal', bucket)
    BY <1>3, <1>10 DEF Unraced, OneContent
  <2> QED BY <1>1, <1>3, <1>7, <1>10, <2>1, CallKeepsUnraced
<1> QED BY <1>1, <1>9, <1>10 DEF UnracedInv

LEMMA BeginRecoveryKeeps ==
    ASSUME Inv, UnracedInv, BeginRecovery
    PROVE  Inv' /\ UnracedInv'
<1> DEFINE name == SegmentName(NextBaseOffset, wal.clock)
           empty == [name |-> name, lines |-> <<>>, by |-> "recovery"]
<1>1. /\ wal.handle = "nil" /\ wal.file.exists
      /\ recovering' = [step |-> "copy", name |-> name]
      /\ wal' = [wal EXCEPT !.clock = wal.clock + 1, !.base = NextBaseOffset,
                            !.segments = Replacing(wal.segments, empty)]
      /\ UNCHANGED <<ship, bucket, tried, appended, lost, raced, faults>>
  BY DEF BeginRecovery
<1>2. wal \in Log /\ wal.clock \in Nat
  BY DEF Inv, TypeOK, Log
<1>3. name \in Name /\ name.at = wal.clock
  BY <1>2, NextBaseOffsetNat DEF Name, SegmentName
<1>4. empty \in Segment /\ empty.name = name /\ empty.lines = <<>>
  BY <1>3 DEF Segment
<1> HIDE DEF name, empty
<1>5. \A t \in wal.segments \cup bucket \cup wal.sealed : t.name # name
  <2> SUFFICES ASSUME NEW t \in wal.segments \cup bucket \cup wal.sealed PROVE t.name # name
    OBVIOUS
  <2>1. t.name.at < wal.clock /\ t.name.at \in Nat
    BY <1>2 DEF Inv, TypeOK, LogFits, NamesUsed, Log, Segment, Name
  <2> QED BY <1>2, <1>3, <2>1
<1>6. Replacing(wal.segments, empty) = wal.segments \cup {empty}
  BY <1>4, <1>5 DEF Replacing
<1>7. /\ wal' \in Log /\ wal'.handle = "nil" /\ wal'.file = wal.file
      /\ wal'.clock = wal.clock + 1 /\ wal'.segments = wal.segments \cup {empty}
      /\ wal'.sealed = wal.sealed
  <2>1. wal.clock + 1 \in Nat /\ wal.segments \cup {empty} \in SUBSET Segment
    BY <1>2, <1>4 DEF Log
  <2> QED BY <1>1, <1>2, <1>6, <2>1, NextBaseOffsetNat, Zenon DEF Log
<1>8. FileFits(wal')
  <2>1. IsFiniteSet(wal.segments \cup {empty})
    BY FS_AddElement DEF Inv, LogFits, FileFits
  <2> QED BY <1>7, <2>1 DEF Inv, LogFits, FileFits
<1>9. NamesUsed(wal', bucket)
  <2> SUFFICES ASSUME NEW t \in wal'.segments \cup bucket \cup wal'.sealed
               PROVE  t.name.at < wal'.clock
    BY DEF NamesUsed
  <2>1. CASE t = empty
    BY <1>2, <1>3, <1>4, <1>7, <2>1
  <2>2. CASE t \in wal.segments \cup bucket \cup wal.sealed
    <3>1. t.name.at < wal.clock /\ t.name.at \in Nat
      BY <1>2, <2>2 DEF Inv, TypeOK, LogFits, NamesUsed, Log, Segment, Name
    <3> QED BY <1>2, <1>7, <3>1
  <2> QED BY <1>7, <2>1, <2>2
<1>10. LogFits(wal', bucket)
  <2>1. SealedUnique(wal', bucket)
    BY <1>4, <1>5, <1>7 DEF Inv, LogFits, SealedUnique
  <2>2. SealedThere(wal', bucket)
    BY <1>7 DEF Inv, LogFits, SealedThere
  <2> QED BY <1>7, <1>8, <1>9, <2>1, <2>2 DEF LogFits
<1>11. Continues(wal, wal')
  <2>1. wal.clock <= wal'.clock /\ wal.clock <= empty.name.at
    BY <1>2, <1>3, <1>4, <1>7
  <2> QED BY <1>7, <2>1 DEF Continues
<1>12. recovering'.step = "copy" /\ recovering'.name = name
  BY <1>1
<1>13. TypeOK'
  BY <1>1, <1>3, <1>7 DEF Inv, TypeOK
<1>14. RecoveryFits'
  <2>1. name.at < wal'.clock
    BY <1>2, <1>3, <1>7
  <2> QED BY <1>1, <1>5, <1>7, <1>12, <2>1 DEF RecoveryFits
<1>15. ShipFits'
  BY <1>1, <1>7, <1>11, ShipContinues
<1>16. Inv'
  BY <1>1, <1>10, <1>13, <1>14, <1>15 DEF Inv
<1>17. ASSUME Unraced PROVE Unraced'
  <2>1. OneContent(wal, bucket)'
    BY <1>1, <1>4, <1>5, <1>7, <1>17 DEF Unraced, OneContent
  <2>2. CopyPrivate'
    BY <1>1, <1>4, <1>5, <1>7, <1>12 DEF CopyPrivate
  <2>3. CopyStored'
    BY <1>12 DEF CopyStored
  <2>4. RemovedUploaded'
    BY <1>1, <1>7, <1>11, <1>17, UploadContinues
  <2>5. RecordsKept'
    BY <1>1, <1>11, <1>17, KeptContinues DEF Unraced
  <2> QED BY <2>1, <2>2, <2>3, <2>4, <2>5 DEF Unraced
<1> QED BY <1>1, <1>16, <1>17 DEF UnracedInv

\* Copied changes one segment's lines and nothing else.
LEMMA CopiedSegments ==
    ASSUME Inv, NEW q \in Seq(Nat)
    PROVE  /\ Copied(q) \in SUBSET Segment
           /\ IsFiniteSet(Copied(q))
           /\ \A s \in wal.segments : s.name # recovering.name => s \in Copied(q)
           /\ \A s \in wal.segments : s.name = recovering.name =>
                 \E t \in Copied(q) : t.name = recovering.name /\ t.lines = q
           /\ \A t \in Copied(q) : t.name # recovering.name => t \in wal.segments
           /\ \A t \in Copied(q) : \E s \in wal.segments : t.name = s.name
           /\ OneContent(wal, {}) =>
                 \A t, u \in Copied(q) : t.name = u.name => t = u
<1> DEFINE F(s) == IF s.name = recovering.name THEN [s EXCEPT !.lines = q] ELSE s
<1>1. Copied(q) = {F(s) : s \in wal.segments}
  BY DEF Copied
<1>2. IsFiniteSet(Copied(q))
  <2>1. IsFiniteSet(wal.segments)
    BY DEF Inv, LogFits, FileFits
  <2> HIDE DEF F
  <2>2. [s \in wal.segments |-> F(s)] \in Surjection(wal.segments, Copied(q))
    BY <1>1 DEF Surjection
  <2> QED BY <2>1, <2>2, FS_Surjection
<1>3. \A s \in wal.segments : s \in Segment
  BY DEF Inv, TypeOK, Log
<1>4. \A s \in wal.segments :
        /\ F(s) \in Segment
        /\ F(s).name = s.name
        /\ s.name # recovering.name => F(s) = s
        /\ s.name = recovering.name => F(s).lines = q
  BY <1>3 DEF Segment
<1> HIDE DEF F
<1>5. Copied(q) \in SUBSET Segment
  BY <1>1, <1>4
<1>6. \A s \in wal.segments : s.name # recovering.name => s \in Copied(q)
  BY <1>1, <1>4
<1>7. \A s \in wal.segments : s.name = recovering.name =>
        \E t \in Copied(q) : t.name = recovering.name /\ t.lines = q
  BY <1>1, <1>4
<1>8. \A t \in Copied(q) : t.name # recovering.name => t \in wal.segments
  BY <1>1, <1>4
<1>9. \A t \in Copied(q) : \E s \in wal.segments : t.name = s.name
  BY <1>1, <1>4
<1>10. ASSUME OneContent(wal, {}), NEW t \in Copied(q), NEW u \in Copied(q), t.name = u.name
       PROVE  t = u
  <2>1. PICK s \in wal.segments : t = F(s)
    BY <1>1
  <2>2. PICK r \in wal.segments : u = F(r)
    BY <1>1
  <2>3. s.name = r.name
    BY <1>4, <1>10, <2>1, <2>2
  <2>4. s = r
    BY <1>10, <2>3 DEF OneContent
  <2> QED BY <2>1, <2>2, <2>4
<1> QED BY <1>2, <1>5, <1>6, <1>7, <1>8, <1>9, <1>10

\* A copy, whole or cut short, leaves the rest alone.
LEMMA CopyFits ==
    ASSUME Inv, UnracedInv, recovering.step = "copy", NEW q \in Seq(Nat),
           wal' = [wal EXCEPT !.segments = Copied(q)],
           UNCHANGED <<ship, bucket, appended, lost>>
    PROVE  /\ LogFits(wal', bucket') /\ ShipFits'
           /\ wal'.handle = wal.handle /\ wal'.file = wal.file /\ wal'.clock = wal.clock
           /\ wal'.sealed = wal.sealed /\ wal'.segments = Copied(q)
           /\ Unraced => OneContent(wal, bucket)' /\ RemovedUploaded' /\ RecordsKept'
<1>1. wal \in Log
  BY DEF Inv, TypeOK
<1>2. /\ wal' \in Log /\ wal'.handle = wal.handle /\ wal'.file = wal.file
      /\ wal'.clock = wal.clock /\ wal'.sealed = wal.sealed /\ wal'.segments = Copied(q)
  BY <1>1, CopiedSegments DEF Log
<1>3. \A s \in wal.sealed : s.name # recovering.name
  BY DEF Inv, RecoveryFits
<1>4. LogFits(wal', bucket')
  <2>1. FileFits(wal')
    BY <1>2, CopiedSegments DEF Inv, LogFits, FileFits
  <2>2. NamesUsed(wal', bucket')
    <3> SUFFICES ASSUME NEW t \in wal'.segments \cup bucket \cup wal'.sealed
                 PROVE  t.name.at < wal'.clock
      BY DEF NamesUsed
    <3>1. CASE t \in bucket \cup wal.sealed
      BY <1>2, <3>1 DEF Inv, LogFits, NamesUsed
    <3>2. CASE t \in Copied(q)
      <4>1. PICK s \in wal.segments : t.name = s.name
        BY <3>2, CopiedSegments
      <4> QED BY <1>2, <4>1 DEF Inv, LogFits, NamesUsed
    <3> QED BY <1>2, <3>1, <3>2
  <2>3. SealedUnique(wal', bucket')
    BY <1>2, <1>3, CopiedSegments DEF Inv, LogFits, SealedUnique
  <2>4. SealedThere(wal', bucket')
    BY <1>2, <1>3, CopiedSegments DEF Inv, LogFits, SealedThere
  <2> QED BY <1>2, <2>1, <2>2, <2>3, <2>4 DEF LogFits
<1>5. ShipFits'
  BY <1>2 DEF Inv, ShipFits, FirstLeft
<1>6. ASSUME Unraced PROVE OneContent(wal, bucket)'
  <2> SUFFICES ASSUME NEW s \in wal'.segments, NEW t \in wal'.segments \cup bucket,
                      t.name = s.name
               PROVE  t = s
    BY DEF OneContent
  <2>1. OneContent(wal, {})
    BY <1>6 DEF Unraced, OneContent
  <2>2. CASE t \in Copied(q)
    BY <1>2, <2>1, <2>2, CopiedSegments
  <2>3. CASE t \in bucket
    <3>1. t.name # recovering.name
      BY <1>6, <2>3 DEF Unraced, CopyPrivate
    <3>2. s \in wal.segments
      BY <1>2, <3>1, CopiedSegments
    <3> QED BY <1>6, <2>3, <3>2 DEF Unraced, OneContent
  <2> QED BY <1>2, <2>2, <2>3
<1>7. ASSUME Unraced PROVE RemovedUploaded'
  <2> SUFFICES ASSUME ship.step = "put", NEW s \in Copied(q), FirstLeft(s.name)
               PROVE  s \in bucket
    BY <1>2 DEF RemovedUploaded, FirstLeft
  <2>1. PICK u \in wal.segments : s.name = u.name
    BY CopiedSegments
  <2>2. u \in bucket
    BY <1>7, <2>1 DEF Unraced, RemovedUploaded
  <2>3. s.name # recovering.name
    BY <1>7, <2>1, <2>2 DEF Unraced, CopyPrivate
  <2>4. s \in wal.segments
    BY <2>3, CopiedSegments
  <2> QED BY <1>7, <2>4 DEF Unraced, RemovedUploaded
<1>8. ASSUME Unraced PROVE RecordsKept'
  <2> SUFFICES ASSUME NEW x \in Kept PROVE x \in Kept'
    BY <1>8 DEF Unraced, RecordsKept
  <2>1. CASE x \in Lines(wal.file.lines)
    BY <1>2, <2>1 DEF Kept
  <2>2. CASE \E s \in wal.segments \cup bucket : x \in Lines(s.lines)
    <3>1. PICK s \in wal.segments \cup bucket : x \in Lines(s.lines)
      BY <2>2
    <3>2. CASE s \in wal.segments /\ s.name = recovering.name
      <4>1. s.lines = <<>>
        BY <1>8, <3>2 DEF Unraced, CopyPrivate
      <4> QED BY <3>1, <4>1 DEF Lines
    <3>3. CASE s \in wal'.segments \cup bucket
      BY <3>1, <3>3 DEF Kept
    <3> QED BY <1>2, <3>2, <3>3, CopiedSegments
  <2> QED BY <2>1, <2>2 DEF Kept
<1> QED BY <1>2, <1>4, <1>5, <1>6, <1>7, <1>8

LEMMA CopyOrphanKeeps ==
    ASSUME Inv, UnracedInv, CopyOrphan
    PROVE  Inv' /\ UnracedInv'
<1>1. recovering.step = "copy" /\ UNCHANGED <<ship, bucket, tried, appended, lost, raced>>
  BY DEF CopyOrphan
<1>2. wal.file.lines \in Seq(Nat)
  BY DEF Inv, TypeOK, Log, File
<1>3. CASE /\ wal' = [wal EXCEPT !.segments = Copied(wal.file.lines)]
           /\ recovering' = [recovering EXCEPT !.step = "copied"]
           /\ UNCHANGED faults
  <2>1. /\ LogFits(wal', bucket') /\ ShipFits'
        /\ wal'.handle = wal.handle /\ wal'.file = wal.file /\ wal'.clock = wal.clock
        /\ wal'.sealed = wal.sealed /\ wal'.segments = Copied(wal.file.lines)
        /\ Unraced => OneContent(wal, bucket)' /\ RemovedUploaded' /\ RecordsKept'
    BY <1>1, <1>2, <1>3, CopyFits
  <2>2. /\ recovering' \in [step : {"no", "copy", "copied"}, name : Name]
        /\ recovering'.step = "copied" /\ recovering'.name = recovering.name
    BY <1>3 DEF Inv, TypeOK
  <2>3. TypeOK'
    BY <1>1, <1>3, <2>1, <2>2 DEF Inv, TypeOK, LogFits
  <2>4. RecoveryFits'
    BY <1>1, <2>1, <2>2 DEF Inv, RecoveryFits
  <2>5. ASSUME Unraced PROVE CopyPrivate' /\ CopyStored'
    <3>1. PICK s \in wal.segments : s.name = recovering.name
      BY <1>1, <2>5 DEF Unraced, CopyPrivate
    <3>2. PICK t \in Copied(wal.file.lines) : t.lines = wal.file.lines
      BY <1>2, <3>1, CopiedSegments
    <3>3. CopyStored'
      BY <2>1, <3>2 DEF CopyStored, Stored
    <3> QED BY <2>2, <3>3 DEF CopyPrivate
  <2> QED BY <1>1, <2>1, <2>3, <2>4, <2>5 DEF Inv, UnracedInv, Unraced
<1>4. CASE /\ Spend(1)
           /\ \E k \in 0..Len(wal.file.lines) :
                 wal' = [wal EXCEPT !.segments = Copied(SubSeq(wal.file.lines, 1, k))]
           /\ recovering' = NotRecovering
  <2>1. PICK k \in 0..Len(wal.file.lines) :
          wal' = [wal EXCEPT !.segments = Copied(SubSeq(wal.file.lines, 1, k))]
    BY <1>4
  <2>2. SubSeq(wal.file.lines, 1, k) \in Seq(Nat)
    BY <1>2, LinesPrefix
  <2>3. /\ LogFits(wal', bucket') /\ ShipFits'
        /\ Unraced => OneContent(wal, bucket)' /\ RemovedUploaded' /\ RecordsKept'
    BY <1>1, <2>1, <2>2, CopyFits, Zenon
  <2>4. recovering' \in [step : {"no", "copy", "copied"}, name : Name] /\ recovering'.step = "no"
    BY <1>4 DEF NotRecovering, NoName, Name
  <2>5. faults' \in 0..MaxFaults
    BY <1>4, SpendTyped DEF Inv
  <2>6. TypeOK'
    BY <1>1, <2>3, <2>4, <2>5 DEF Inv, TypeOK, LogFits
  <2>7. RecoveryFits' /\ CopyPrivate' /\ CopyStored'
    BY <2>4 DEF RecoveryFits, CopyPrivate, CopyStored
  <2> QED BY <1>1, <2>3, <2>6, <2>7 DEF Inv, UnracedInv, Unraced
<1> QED BY <1>3, <1>4 DEF CopyOrphan

LEMMA RemoveOrphanKeeps ==
    ASSUME Inv, UnracedInv, RemoveOrphan
    PROVE  Inv' /\ UnracedInv'
<1>1. /\ recovering.step = "copied"
      /\ recovering' = NotRecovering
      /\ UNCHANGED <<ship, bucket, tried, appended, lost, raced>>
  BY DEF RemoveOrphan
<1>2. wal \in Log /\ wal.handle = "nil"
  BY <1>1 DEF Inv, TypeOK, RecoveryFits
<1>3. faults' \in 0..MaxFaults
  <2>1. UNCHANGED faults \/ Spend(1)
    BY DEF RemoveOrphan
  <2> QED BY <2>1, SpendTyped DEF Inv, TypeOK
<1>4. \/ wal' = wal
      \/ wal' = [wal EXCEPT !.handle = "open", !.file = EmptyFile, !.base = wal.base + 1]
      \/ wal' = [wal EXCEPT !.file = NoFile, !.base = wal.base + 1]
  BY DEF RemoveOrphan
<1>5. /\ wal' \in Log /\ wal'.clock = wal.clock /\ wal'.segments = wal.segments
      /\ wal'.sealed = wal.sealed
  <2>1. wal.base + 1 \in Nat
    BY <1>2 DEF Log
  <2> QED BY <1>2, <1>4, <2>1, NewFiles, Zenon DEF Log
<1>6. \/ wal'.file = wal.file /\ wal'.handle = wal.handle
      \/ wal'.file = EmptyFile
      \/ wal'.file = NoFile /\ wal'.handle = "nil"
  BY <1>2, <1>4, Zenon DEF Log
<1>7. FileFits(wal')
  BY <1>5, <1>6, NewFiles DEF Inv, LogFits, FileFits
<1>8. LogFits(wal', bucket')
  BY <1>1, <1>5, <1>7 DEF Inv, LogFits, NamesUsed, SealedUnique, SealedThere
<1>9. ShipFits'
  BY <1>1, <1>5 DEF Inv, ShipFits, FirstLeft
<1>10. recovering' \in [step : {"no", "copy", "copied"}, name : Name] /\ recovering'.step = "no"
  BY <1>1 DEF NotRecovering, NoName, Name
<1>11. TypeOK'
  BY <1>1, <1>3, <1>5, <1>10 DEF Inv, TypeOK
<1>12. RecoveryFits' /\ CopyPrivate' /\ CopyStored'
  BY <1>10 DEF RecoveryFits, CopyPrivate, CopyStored
<1>13. ASSUME Unraced PROVE Unraced'
  <2>1. OneContent(wal, bucket)' /\ RemovedUploaded'
    BY <1>1, <1>5, <1>13 DEF Unraced, OneContent, RemovedUploaded, FirstLeft
  <2>2. ASSUME NEW x \in Kept PROVE x \in Kept'
    <3>1. Stored(x, wal, bucket)
      BY <1>1, <1>13, <2>2 DEF Unraced, CopyStored, Stored, Kept
    <3> QED BY <1>1, <1>5, <3>1 DEF Stored, Kept
  <2>3. RecordsKept'
    BY <1>1, <1>13, <2>2 DEF Unraced, RecordsKept
  <2> QED BY <1>12, <2>1, <2>3 DEF Unraced
<1> QED BY <1>1, <1>8, <1>9, <1>11, <1>12, <1>13 DEF Inv, UnracedInv

LEMMA BeginShipKeeps ==
    ASSUME Inv, UnracedInv, BeginShip
    PROVE  Inv' /\ UnracedInv'
<1>1. /\ ship' = [step |-> "listed", left |-> {s.name : s \in wal.segments}]
      /\ UNCHANGED <<wal, recovering, bucket, tried, appended, lost, raced, faults>>
  BY DEF BeginShip
<1>2. ship'.step = "listed" /\ ship'.left = {s.name : s \in wal.segments}
  BY <1>1
<1>3. \A s \in wal.segments : s.name \in Name /\ s.name.at < wal.clock
  BY DEF Inv, TypeOK, LogFits, NamesUsed, Log, Segment
<1>4. TypeOK'
  BY <1>1, <1>3 DEF Inv, TypeOK
<1>5. ShipFits' /\ RemovedUploaded'
  BY <1>1, <1>2, <1>3 DEF ShipFits, RemovedUploaded
<1>6. LogFits(wal', bucket') /\ RecoveryFits'
  BY <1>1 DEF Inv, RecoveryFits
<1>7. Unraced => Unraced'
  BY <1>1, <1>5 DEF Unraced, OneContent, CopyPrivate, CopyStored, Stored, RecordsKept, Kept
<1> QED BY <1>1, <1>4, <1>5, <1>6, <1>7 DEF Inv, UnracedInv

\* Ship gives up: nothing is about to be removed.
LEMMA ShipStops ==
    ASSUME Inv, ship' = NotShipping
    PROVE  /\ ship' \in [step : {"no", "listed", "put"}, left : SUBSET Name]
           /\ ShipFits' /\ RemovedUploaded'
<1>1. ship'.step = "no" /\ ship'.left = {}
  BY DEF NotShipping
<1> QED BY <1>1 DEF NotShipping, ShipFits, RemovedUploaded

\* At most one name is first.
LEMMA FirstUnique ==
    ASSUME TypeOK, NEW n, NEW m, FirstLeft(n), FirstLeft(m)
    PROVE  n = m
<1>1. n \in Name /\ m \in Name
  BY DEF TypeOK, FirstLeft
<1>2. n # m => Before(n, m) /\ Before(m, n)
  BY DEF FirstLeft
<1> QED BY <1>1, <1>2 DEF Before, Name

LEMMA PutSegmentKeeps ==
    ASSUME Inv, UnracedInv, PutSegment
    PROVE  Inv' /\ UnracedInv'
<1>1. UNCHANGED <<wal, recovering, tried, appended, lost>>
  BY DEF PutSegment
<1>2. CASE Spend(1) /\ ship' = NotShipping /\ UNCHANGED <<bucket, raced>>
  <2>1. faults' \in 0..MaxFaults
    BY <1>2, SpendTyped DEF Inv
  <2>2. /\ ship' \in [step : {"no", "listed", "put"}, left : SUBSET Name]
        /\ ShipFits' /\ RemovedUploaded'
    BY <1>2, ShipStops
  <2>3. TypeOK'
    BY <1>1, <1>2, <2>1, <2>2 DEF Inv, TypeOK
  <2>4. LogFits(wal', bucket') /\ RecoveryFits'
    BY <1>1, <1>2 DEF Inv, RecoveryFits
  <2>5. Unraced => Unraced'
    BY <1>1, <1>2, <2>2 DEF Unraced, OneContent, CopyPrivate, CopyStored, Stored,
                            RecordsKept, Kept
  <2> QED BY <1>2, <2>2, <2>3, <2>4, <2>5 DEF Inv, UnracedInv
<1>3. ASSUME NEW s \in wal.segments, FirstLeft(s.name),
             bucket' = Replacing(bucket, s),
             raced' = (raced \/ (recovering.step = "copy" /\ s.name = recovering.name)),
             \/ ship' = [ship EXCEPT !.step = "put"] /\ UNCHANGED faults
             \/ ship' = NotShipping /\ Spend(1)
      PROVE  Inv' /\ UnracedInv'
  <2>1. s \in Segment /\ s \in bucket' /\ \A t \in bucket' : t \in bucket \/ t = s
    BY <1>3 DEF Inv, TypeOK, Log, Replacing
  <2>2. \A t \in bucket : t \in bucket' \/ t.name = s.name
    BY <1>3 DEF Replacing
  <2>3. \/ ship'.left = ship.left /\ ship' \in [step : {"no", "listed", "put"}, left : SUBSET Name]
        \/ ship' = NotShipping
    BY <1>3 DEF Inv, TypeOK
  <2>4. TypeOK'
    <3>1. faults' \in 0..MaxFaults
      BY <1>3, SpendTyped DEF Inv, TypeOK
    <3>2. raced' \in BOOLEAN
      BY <1>3, Zenon
    <3>3. ship' \in [step : {"no", "listed", "put"}, left : SUBSET Name]
      BY <2>3, ShipStops
    <3>4. bucket' \in SUBSET Segment
      BY <2>1 DEF Inv, TypeOK
    <3> QED BY <1>1, <3>1, <3>2, <3>3, <3>4 DEF Inv, TypeOK
  <2>5. LogFits(wal', bucket')
    <3>1. NamesUsed(wal, bucket')
      BY <2>1 DEF Inv, LogFits, NamesUsed
    <3>2. SealedUnique(wal, bucket')
      BY <2>1 DEF Inv, LogFits, SealedUnique
    <3>3. SealedThere(wal, bucket')
      BY <2>1, <2>2 DEF Inv, LogFits, SealedUnique, SealedThere
    <3> QED BY <1>1, <3>1, <3>2, <3>3 DEF Inv, LogFits
  <2>6. RecoveryFits'
    BY <1>1 DEF Inv, RecoveryFits
  <2>7. ASSUME ship'.left = ship.left, NEW r \in wal.segments \cup wal.sealed, FirstLeft(r.name)'
        PROVE  r.name = s.name
    <3>1. FirstLeft(r.name)
      BY <2>7 DEF FirstLeft
    <3> QED BY <1>3, <3>1, FirstUnique DEF Inv
  <2>8. ShipFits'
    <3>1. CASE ship'.left = ship.left
      <4>1. \A r \in wal.sealed : FirstLeft(r.name)' => r \in bucket'
        BY <2>1, <2>7, <3>1 DEF Inv, LogFits, SealedUnique
      <4> QED BY <1>1, <3>1, <4>1 DEF Inv, ShipFits
    <3> QED BY <2>3, <3>1, ShipStops
  <2>9. ASSUME ~raced' PROVE Unraced'
    <3>1. Unraced /\ ~(recovering.step = "copy" /\ s.name = recovering.name)
      BY <1>3, <2>9, Zenon DEF UnracedInv
    <3>2. \A t \in bucket : t \in bucket' \/ t = s
      BY <2>2, <3>1 DEF Unraced, OneContent
    <3>3. OneContent(wal, bucket)'
      BY <1>1, <2>1, <3>1 DEF Unraced, OneContent
    <3>4. CopyPrivate'
      BY <1>1, <2>1, <3>1 DEF Unraced, CopyPrivate
    <3>5. \A x : Stored(x, wal, bucket) => Stored(x, wal', bucket')
      BY <1>1, <2>1, <3>2 DEF Stored
    <3>6. CopyStored'
      BY <1>1, <3>1, <3>5 DEF Unraced, CopyStored
    <3>7. RemovedUploaded'
      <4>1. CASE ship'.left = ship.left
        <5>1. \A r \in wal.segments : FirstLeft(r.name)' => r \in bucket'
          BY <2>1, <2>7, <3>1, <4>1 DEF Unraced, OneContent
        <5> QED BY <1>1, <5>1 DEF RemovedUploaded
      <4> QED BY <2>3, <4>1, ShipStops
    <3>8. RecordsKept'
      BY <1>1, <2>1, <3>1, <3>2 DEF Unraced, RecordsKept, Kept
    <3> QED BY <3>3, <3>4, <3>6, <3>7, <3>8 DEF Unraced
  <2>10. UnracedInv'
    BY <2>9 DEF UnracedInv
  <2> QED BY <2>4, <2>5, <2>6, <2>8, <2>10 DEF Inv
<1> QED BY <1>2, <1>3 DEF PutSegment

LEMMA RemoveSegmentKeeps ==
    ASSUME Inv, UnracedInv, RemoveSegment
    PROVE  Inv' /\ UnracedInv'
<1>1. ship.step = "put" /\ UNCHANGED <<recovering, bucket, tried, appended, lost, raced>>
  BY DEF RemoveSegment
<1>2. CASE Spend(1) /\ ship' = NotShipping /\ UNCHANGED wal
  <2>1. faults' \in 0..MaxFaults
    BY <1>2, SpendTyped DEF Inv
  <2>2. /\ ship' \in [step : {"no", "listed", "put"}, left : SUBSET Name]
        /\ ShipFits' /\ RemovedUploaded'
    BY <1>2, ShipStops
  <2>3. TypeOK'
    BY <1>1, <1>2, <2>1, <2>2 DEF Inv, TypeOK
  <2>4. LogFits(wal', bucket') /\ RecoveryFits'
    BY <1>1, <1>2 DEF Inv, RecoveryFits
  <2>5. Unraced => Unraced'
    BY <1>1, <1>2, <2>2 DEF Unraced, OneContent, CopyPrivate, CopyStored, Stored,
                            RecordsKept, Kept
  <2> QED BY <1>1, <2>2, <2>3, <2>4, <2>5 DEF Inv, UnracedInv
<1>3. ASSUME NEW n \in ship.left, FirstLeft(n), UNCHANGED faults,
             wal' = [wal EXCEPT !.segments = {s \in wal.segments : s.name # n}],
             ShipRest(ship.left \ {n})
      PROVE  Inv' /\ UnracedInv'
  <2>1. /\ wal' \in Log /\ wal'.handle = wal.handle /\ wal'.file = wal.file
        /\ wal'.clock = wal.clock /\ wal'.sealed = wal.sealed
        /\ wal'.segments = {s \in wal.segments : s.name # n}
    BY <1>3 DEF Inv, TypeOK, Log
  <2>2. \A s \in wal.sealed : s.name = n => s \in bucket
    BY <1>1, <1>3 DEF Inv, ShipFits
  <2>3. \/ ship' = NotShipping
        \/ /\ ship'.step = "listed" /\ ship'.left = ship.left \ {n}
           /\ ship' \in [step : {"no", "listed", "put"}, left : SUBSET Name]
    BY <1>3 DEF Inv, TypeOK, ShipRest
  <2>4. TypeOK'
    <3>1. ship' \in [step : {"no", "listed", "put"}, left : SUBSET Name]
      BY <2>3, ShipStops
    <3> QED BY <1>1, <1>3, <2>1, <3>1 DEF Inv, TypeOK
  <2>5. LogFits(wal', bucket')
    <3>1. FileFits(wal')
      BY <2>1, FS_Subset DEF Inv, LogFits, FileFits
    <3>2. NamesUsed(wal', bucket') /\ SealedUnique(wal', bucket')
      BY <1>1, <2>1 DEF Inv, LogFits, NamesUsed, SealedUnique
    <3>3. SealedThere(wal', bucket')
      BY <1>1, <2>1, <2>2 DEF Inv, LogFits, SealedThere
    <3> QED BY <2>1, <3>1, <3>2, <3>3 DEF LogFits
  <2>6. RecoveryFits'
    BY <1>1, <2>1 DEF Inv, RecoveryFits
  <2>7. ShipFits' /\ RemovedUploaded'
    <3>1. CASE ship'.step = "listed" /\ ship'.left = ship.left \ {n}
      BY <2>1, <3>1 DEF Inv, ShipFits, RemovedUploaded
    <3> QED BY <2>3, <3>1, ShipStops
  <2>8. ASSUME Unraced PROVE Unraced'
    <3>1. \A s \in wal.segments : s \in wal'.segments \/ s \in bucket
      BY <1>1, <1>3, <2>1, <2>8 DEF Unraced, RemovedUploaded
    <3>2. OneContent(wal, bucket)'
      BY <1>1, <2>1, <2>8 DEF Unraced, OneContent
    <3>3. CopyPrivate'
      BY <1>1, <2>1, <2>8, <3>1 DEF Unraced, CopyPrivate
    <3>4. CopyStored'
      BY <1>1, <2>1, <2>8, <3>1 DEF Unraced, CopyStored, Stored
    <3>5. RecordsKept'
      BY <1>1, <2>1, <2>8, <3>1 DEF Unraced, RecordsKept, Kept
    <3> QED BY <2>7, <3>2, <3>3, <3>4, <3>5 DEF Unraced
  <2> QED BY <1>1, <2>4, <2>5, <2>6, <2>7, <2>8 DEF Inv, UnracedInv
<1> QED BY <1>2, <1>3, Zenon DEF RemoveSegment

\* The log a new process finds.
LEMMA ReopenedFits ==
    ASSUME Inv, NEW k \in 0..Len(wal.file.lines)
    PROVE  /\ LogFits(Reopened(k), bucket)
           /\ Reopened(k).handle = "nil"
           /\ Reopened(k).segments = wal.segments
           /\ Reopened(k).sealed = wal.sealed
           /\ Reopened(k).clock = wal.clock
           /\ Reopened(k).file.lines = SubSeq(wal.file.lines, 1, k)
<1> DEFINE kept == SubSeq(wal.file.lines, 1, k)
           f == IF wal.file.exists THEN [EmptyFile EXCEPT !.lines = kept, !.synced = k]
                ELSE NoFile
<1>1. wal \in Log /\ wal.file.lines \in Seq(Nat)
  BY DEF Inv, TypeOK, Log, File
<1>2. kept \in Seq(Nat) /\ k \in Nat
  BY <1>1, LinesPrefix
<1> HIDE DEF kept
<1>3. f \in File /\ f.lines = kept /\ (~f.exists => f.lines = <<>>)
  <2>1. CASE wal.file.exists
    <3>1. f = [exists |-> TRUE, lines |-> kept, synced |-> k]
      BY <2>1, Zenon DEF EmptyFile
    <3> HIDE DEF f
    <3>2. f \in File
      BY <1>2, <3>1 DEF File
    <3>3. f.lines = kept /\ f.exists
      BY <3>1
    <3> QED BY <3>2, <3>3
  <2>2. CASE ~wal.file.exists
    <3>1. f = NoFile
      BY <2>2
    <3>2. wal.file.lines = <<>>
      BY <2>2 DEF Inv, LogFits, FileFits
    <3>3. kept = <<>>
      BY <3>2 DEF kept
    <3> HIDE DEF f
    <3> QED BY <3>1, <3>3, NewFiles
  <2> QED BY <2>1, <2>2
<1>4. Reopened(k) = [wal EXCEPT !.handle = "nil", !.file = f]
  BY DEF Reopened, kept
<1> HIDE DEF f
<1>5. /\ Reopened(k) \in Log /\ Reopened(k).handle = "nil" /\ Reopened(k).file = f
      /\ Reopened(k).clock = wal.clock /\ Reopened(k).segments = wal.segments
      /\ Reopened(k).sealed = wal.sealed
  BY <1>1, <1>3, <1>4, Zenon DEF Log
<1>6. FileFits(Reopened(k))
  BY <1>3, <1>5 DEF Inv, LogFits, FileFits
<1>7. LogFits(Reopened(k), bucket)
  BY <1>5, <1>6 DEF Inv, LogFits, NamesUsed, SealedUnique, SealedThere
<1> QED BY <1>3, <1>5, <1>7 DEF kept

LEMMA CrashKeeps ==
    ASSUME Inv, UnracedInv, Crash
    PROVE  Inv' /\ UnracedInv'
<1>1. PICK k \in wal.file.synced..Len(wal.file.lines) :
        /\ wal' = Reopened(k)
        /\ lost' = lost \cup {wal.file.lines[i] : i \in (k + 1)..Len(wal.file.lines)}
  BY DEF Crash
<1>2. /\ Spend(1) /\ recovering' = NotRecovering /\ ship' = NotShipping
      /\ UNCHANGED <<bucket, tried, appended, raced>>
  BY DEF Crash
<1>3. wal.file.lines \in Seq(Nat) /\ wal.file.synced \in Nat
  BY DEF Inv, TypeOK, Log, File
<1>4. k \in 0..Len(wal.file.lines)
  BY <1>3
<1>5. /\ LogFits(wal', bucket) /\ wal'.segments = wal.segments
      /\ wal'.file.lines = SubSeq(wal.file.lines, 1, k)
  BY <1>1, <1>4, ReopenedFits
<1>6. recovering' \in [step : {"no", "copy", "copied"}, name : Name] /\ recovering'.step = "no"
  BY <1>2 DEF NotRecovering, NoName, Name
<1>7. /\ ship' \in [step : {"no", "listed", "put"}, left : SUBSET Name]
      /\ ShipFits' /\ RemovedUploaded'
  BY <1>2, ShipStops
<1>8. TypeOK'
  <2>1. faults' \in 0..MaxFaults
    BY <1>2, SpendTyped DEF Inv
  <2>2. lost' \in SUBSET Nat
    <3>1. \A i \in (k + 1)..Len(wal.file.lines) : wal.file.lines[i] \in Nat
      <4> SUFFICES ASSUME NEW i \in (k + 1)..Len(wal.file.lines)
                   PROVE  wal.file.lines[i] \in Nat
        OBVIOUS
      <4>1. i \in 1..Len(wal.file.lines)
        BY <1>3, <1>4
      <4>2. wal.file.lines[i] \in Lines(wal.file.lines)
        BY <4>1 DEF Lines
      <4> QED BY <1>3, <4>2, LinesNat
    <3>2. lost \in SUBSET Nat
      BY DEF Inv, TypeOK
    <3> QED BY <1>1, <3>1, <3>2, Zenon
  <2>3. wal' \in Log
    BY <1>5 DEF LogFits
  <2> QED BY <1>2, <1>6, <1>7, <2>1, <2>2, <2>3 DEF Inv, TypeOK
<1>9. RecoveryFits' /\ CopyPrivate' /\ CopyStored'
  BY <1>6 DEF RecoveryFits, CopyPrivate, CopyStored
<1>10. Inv'
  BY <1>2, <1>5, <1>7, <1>8, <1>9 DEF Inv
<1>11. ASSUME Unraced PROVE Unraced'
  <2>1. OneContent(wal, bucket)'
    BY <1>2, <1>5, <1>11 DEF Unraced, OneContent
  <2>2. ASSUME NEW x \in Kept PROVE x \in Kept' \cup lost'
    <3>1. CASE x \in Lines(wal.file.lines)
      <4>1. x \in Lines(wal'.file.lines) \/ x \in lost'
        BY <1>1, <1>3, <1>4, <1>5, <3>1, LinesPrefix
      <4> QED BY <4>1 DEF Kept
    <3>2. CASE \E s \in wal.segments \cup bucket : x \in Lines(s.lines)
      BY <1>2, <1>5, <3>2 DEF Kept
    <3> QED BY <2>2, <3>1, <3>2 DEF Kept
  <2>3. RecordsKept'
    BY <1>1, <1>2, <1>11, <2>2 DEF Unraced, RecordsKept
  <2> QED BY <1>7, <1>9, <2>1, <2>3 DEF Unraced
<1> QED BY <1>2, <1>10, <1>11 DEF UnracedInv

LEMMA CloseKeeps ==
    ASSUME Inv, UnracedInv, Close
    PROVE  Inv' /\ UnracedInv'
<1>1. /\ Spend(1) /\ wal.handle # "nil" /\ wal' = Reopened(Len(wal.file.lines))
      /\ UNCHANGED <<recovering, ship, bucket, tried, appended, lost, raced>>
  BY DEF Close
<1>2. wal \in Log /\ wal.file.lines \in Seq(Nat)
  BY DEF Inv, TypeOK, Log, File
<1>3. Len(wal.file.lines) \in 0..Len(wal.file.lines)
  BY <1>2
<1>4. /\ LogFits(wal', bucket) /\ wal'.segments = wal.segments /\ wal'.sealed = wal.sealed
      /\ wal'.clock = wal.clock /\ wal'.file.lines = wal.file.lines
  BY <1>1, <1>2, <1>3, ReopenedFits, LinesWhole, Zenon
<1>5. Continues(wal, wal')
  BY <1>2, <1>4 DEF Continues, Log
<1>6. TypeOK'
  <2>1. faults' \in 0..MaxFaults
    BY <1>1, SpendTyped DEF Inv
  <2> QED BY <1>1, <1>4, <2>1 DEF Inv, TypeOK, LogFits
<1>7. Inv'
  BY <1>1, <1>4, <1>5, <1>6, CallKeeps DEF Inv
<1>8. ASSUME Unraced PROVE Unraced'
  <2>1. wal' \in Log /\ OneContent(wal', bucket)
    BY <1>4, <1>8 DEF LogFits, Unraced, OneContent
  <2> QED BY <1>1, <1>5, <1>8, <2>1, CallKeepsUnraced
<1> QED BY <1>1, <1>7, <1>8 DEF UnracedInv

-----------------------------------------------------------------------------
\* The theorems.

LEMMA InitFits ==
    ASSUME Init
    PROVE  Inv /\ UnracedInv
<1>1. wal = [handle |-> "nil", file |-> NoFile, base |-> 0, clock |-> 0,
             segments |-> {}, sealed |-> {}]
  BY DEF Init
<1>2. /\ wal \in Log /\ wal.handle = "nil" /\ wal.file = NoFile /\ wal.segments = {}
      /\ wal.sealed = {}
  BY <1>1, NewFiles DEF Log
<1>3. recovering \in [step : {"no", "copy", "copied"}, name : Name] /\ recovering.step = "no"
  BY DEF Init, NotRecovering, NoName, Name
<1>4. /\ ship \in [step : {"no", "listed", "put"}, left : SUBSET Name]
      /\ ship.step = "no" /\ ship.left = {}
  BY DEF Init, NotShipping
<1>5. TypeOK
  <2>1. raced \in BOOLEAN
    BY Zenon DEF Init
  <2>2. tried \in 0..MaxAppends /\ faults \in 0..MaxFaults
    BY WalAssumption DEF Init
  <2>3. bucket \in SUBSET Segment /\ appended \in SUBSET Nat /\ lost \in SUBSET Nat
    BY DEF Init
  <2> QED BY <1>2, <1>3, <1>4, <2>1, <2>2, <2>3 DEF TypeOK
<1>6. LogFits(wal, bucket)
  BY <1>2, NewFiles, FS_EmptySet
  DEF Init, LogFits, FileFits, NamesUsed, SealedUnique, SealedThere
<1>7. RecoveryFits /\ ShipFits
  BY <1>3, <1>4 DEF RecoveryFits, ShipFits
<1>8. Unraced
  BY <1>2, <1>3, <1>4
  DEF Init, Unraced, OneContent, CopyPrivate, CopyStored, RemovedUploaded, RecordsKept
<1> QED BY <1>5, <1>6, <1>7, <1>8 DEF Inv, UnracedInv

LEMMA NextKeeps ==
    ASSUME Inv, UnracedInv, [Next]_vars
    PROVE  Inv' /\ UnracedInv'
<1>1. CASE UNCHANGED vars
  <2>1. Inv'
    BY <1>1 DEF vars, Inv, TypeOK, RecoveryFits, ShipFits, FirstLeft
  <2>2. UnracedInv'
    BY <1>1
    DEF vars, UnracedInv, Unraced, OneContent, CopyPrivate, CopyStored, Stored,
        RemovedUploaded, FirstLeft, RecordsKept, Kept
  <2> QED BY <2>1, <2>2
<1>2. CASE Next
  BY <1>2, AppendLineKeeps, SealStaleKeeps, SyncActiveKeeps, OpenActiveKeeps,
     BeginRecoveryKeeps, CopyOrphanKeeps, RemoveOrphanKeeps, BeginShipKeeps,
     PutSegmentKeeps, RemoveSegmentKeeps, CrashKeeps, CloseKeeps DEF Next
<1> QED BY <1>1, <1>2

\* The state of the log, the shipper and the bucket keeps its type: the WAL
\* struct, its directory, recoverOrphan's and Ship's progress.
THEOREM TypeCorrect == Spec => []TypeOK
<1>1. Inv => TypeOK
  BY DEF Inv
<1> QED BY <1>1, InitFits, NextKeeps, PTL DEF Spec

\* A sealed segment is never lost or corrupted, for any segment size and any
\* number of appends, failed calls and crashes: seal's names are never used
\* again, and Ship removes only what it uploaded.
THEOREM SealedSurvives == Spec => []SealedKept
<1>1. Inv => SealedKept
  BY DEF Inv, LogFits, SealedThere, SealedKept
<1> QED BY <1>1, InitFits, NextKeeps, PTL DEF Spec

\* An acknowledged line is lost only from the unsynced tail at a crash, or to a
\* shipper that uploaded a segment recoverOrphan was still writing.
THEOREM OnlyTheRaceLoses == Spec => []KeptUnlessRaced
<1>1. UnracedInv => KeptUnlessRaced
  BY DEF UnracedInv, Unraced, KeptUnlessRaced
<1> QED BY <1>1, InitFits, NextKeeps, PTL DEF Spec

-----------------------------------------------------------------------------
(***************************************************************************)
(* The process the logs live in.  Every way out of a beat that has opened  *)
(* its WALs drains all of them, and it exits 0 only when it was asked to   *)
(* stop: for each beat, any environment and any fate of its connection.    *)
(***************************************************************************)
CONSTANTS Environments, Malformed
VARIABLES beat, env, bad, pc, todo, defers, conn, calls, ready, ctx, code, drained, late

Beat == INSTANCE Beat

Beats == {"rattle", "clank", "hiss", "thump"}

\* What a list of startup steps, of deferred calls or of events is made of.
Word == {"config", "watch", "query", "backend_tls", "sources", "metrics", "connect", "wal_config",
         "wal", "outbox", "ready", "tracer", "sink", "catalog", "classes", "weights", "limits",
         "evidence", "intake", "store", "bind", "journal", "ledger", "policy", "approvals",
         "transport", "executor", "watcher", "close", "detections", "reasoning", "proposals",
         "decisions", "held", "declines", "outcomes", "orders", "disconnect", "reconnect",
         "closed"}

\* The deferred drains are those of the WALs that were opened and are not yet
\* drained; a beat that returned 0 had been told to stop.
LifeSound ==
    /\ beat \in [name : Beats, broker : BOOLEAN]
    /\ pc \in {"start", "run", "return", "exit"}
    /\ conn \in {"none", "up", "down", "lost", "shut"}
    /\ ctx \in {"live", "signal", "lost"}
    /\ code \in {0, 1} /\ ready \in BOOLEAN /\ late \in BOOLEAN
    /\ faults \in 0..MaxFaults
    /\ todo \in Seq(Word) /\ defers \in Seq(Word) /\ calls \in Seq(Word)
    /\ drained \subseteq Range(Beat!Wals(beat.name))
    /\ beat.broker /\ "sink" \notin Range(todo) =>
          Range(Beat!Wals(beat.name)) \subseteq Range(defers) \cup drained
    /\ pc = "exit" => defers = <<>>
    /\ pc \in {"return", "exit"} /\ code = 0 => ctx = "signal"

LEMMA RangeOfConcat ==
    ASSUME NEW s \in Seq(Word), NEW t \in Seq(Word)
    PROVE  s \o t \in Seq(Word) /\ Range(s \o t) = Range(s) \cup Range(t)
<1>1. /\ s \o t \in Seq(Word) /\ Len(s) \in Nat /\ Len(t) \in Nat
      /\ DOMAIN s = 1..Len(s) /\ DOMAIN t = 1..Len(t)
      /\ DOMAIN (s \o t) = 1..(Len(s) + Len(t))
      /\ \A i \in 1..(Len(s) + Len(t)) :
            (s \o t)[i] = IF i <= Len(s) THEN s[i] ELSE t[i - Len(s)]
  OBVIOUS
<1> DEFINE u == s \o t
<1> HIDE DEF u
<1>2. ASSUME NEW i \in DOMAIN u
      PROVE  u[i] \in Range(s) \cup Range(t)
  <2>1. CASE i <= Len(s)
    BY <1>1, <2>1 DEF Range, u
  <2>2. CASE ~(i <= Len(s))
    <3>1. i - Len(s) \in DOMAIN t /\ u[i] = t[i - Len(s)]
      BY <1>1, <2>2 DEF u
    <3> QED
      BY <3>1, Zenon DEF Range
  <2> QED
    BY <2>1, <2>2
<1>3. ASSUME NEW i \in DOMAIN s
      PROVE  s[i] \in Range(u)
  <2>1. i \in DOMAIN u /\ u[i] = s[i]
    BY <1>1 DEF u
  <2> QED
    BY <2>1, Zenon DEF Range
<1>4. ASSUME NEW i \in DOMAIN t
      PROVE  t[i] \in Range(u)
  <2>1. i + Len(s) \in DOMAIN u /\ u[i + Len(s)] = t[i]
    BY <1>1 DEF u
  <2> QED
    BY <2>1, Zenon DEF Range
<1>5. Range(u) = Range(s) \cup Range(t)
  BY <1>2, <1>3, <1>4, Zenon DEF Range
<1> QED
  BY <1>1, <1>5 DEF u

LEMMA HeadAndTail ==
    ASSUME NEW s \in Seq(Word), s # <<>>
    PROVE  /\ Tail(s) \in Seq(Word) /\ Head(s) \in Range(s)
           /\ Range(s) = {Head(s)} \cup Range(Tail(s))
<1>1. /\ Len(s) \in Nat \ {0} /\ DOMAIN s = 1..Len(s) /\ Head(s) = s[1]
      /\ Tail(s) \in Seq(Word) /\ DOMAIN Tail(s) = 1..(Len(s) - 1)
      /\ \A i \in 1..(Len(s) - 1) : Tail(s)[i] = s[i + 1]
  OBVIOUS
<1>2. ASSUME NEW i \in DOMAIN s
      PROVE  s[i] \in {Head(s)} \cup Range(Tail(s))
  <2>1. CASE i = 1
    BY <1>1, <2>1
  <2>2. CASE i # 1
    <3>1. i - 1 \in DOMAIN Tail(s) /\ s[i] = Tail(s)[i - 1]
      BY <1>1, <2>2
    <3> QED
      BY <3>1, Zenon DEF Range
  <2> QED
    BY <2>1, <2>2
<1>3. ASSUME NEW i \in DOMAIN Tail(s)
      PROVE  Tail(s)[i] \in Range(s)
  <2>1. i + 1 \in DOMAIN s /\ s[i + 1] = Tail(s)[i]
    BY <1>1
  <2> QED
    BY <2>1, Zenon DEF Range
<1>4. Head(s) \in Range(s)
  BY <1>1 DEF Range
<1>5. \A x \in Range(s) : x \in {Head(s)} \cup Range(Tail(s))
  BY <1>2, Zenon DEF Range
<1>6. \A x \in Range(Tail(s)) : x \in Range(s)
  <2> HIDE DEF Range
  <2> SUFFICES ASSUME NEW x \in Range(Tail(s)) PROVE x \in Range(s)
    OBVIOUS
  <2>1. PICK i \in DOMAIN Tail(s) : x = Tail(s)[i]
    BY Zenon DEF Range
  <2> QED
    BY <1>3, <2>1, Zenon
<1> QED
  BY <1>1, <1>4, <1>5, <1>6

LEMMA WalsListed ==
    ASSUME NEW n \in Beats
    PROVE  Beat!Wals(n) \in Seq(Word)
<1>1. /\ <<"detections">> \in Seq(Word) /\ <<"reasoning", "proposals">> \in Seq(Word)
      /\ <<"decisions">> \in Seq(Word)
      /\ <<"held", "declines", "outcomes", "orders">> \in Seq(Word)
  BY DEF Word
<1>2. CASE n = "rattle"
  BY <1>1, <1>2, Zenon DEF Beat!Wals
<1>3. CASE n = "clank"
  BY <1>1, <1>3 DEF Beat!Wals
<1>4. CASE n = "hiss"
  BY <1>1, <1>4 DEF Beat!Wals
<1>5. CASE n = "thump"
  BY <1>1, <1>5 DEF Beat!Wals
<1> QED
  BY <1>2, <1>3, <1>4, <1>5, Zenon DEF Beats

\* A beat that talks to a broker opens its WALs at some step of its Main.
LEMMA BrokersSink ==
    ASSUME NEW n \in Beats, NEW b \in BOOLEAN
    PROVE  /\ Beat!Main(n, b) \in Seq(Word)
           /\ b => "sink" \in Range(Beat!Main(n, b))
<1>1. CASE n = "rattle"
  <2> DEFINE first == <<"config", "watch", "query", "backend_tls", "sources", "metrics">>
             second == IF b THEN <<"connect", "wal_config", "wal">> ELSE <<"outbox">>
             third == <<"ready", "tracer">>
             last == IF b THEN <<"sink">> ELSE <<>>
  <2>1. /\ first \in Seq(Word) /\ second \in Seq(Word) /\ third \in Seq(Word)
        /\ last \in Seq(Word)
    <3>1. first \in Seq(Word)
      BY DEF Word
    <3>2. <<"connect", "wal_config", "wal">> \in Seq(Word) /\ <<"outbox">> \in Seq(Word)
      BY DEF Word
    <3>3. third \in Seq(Word) /\ <<"sink">> \in Seq(Word) /\ <<>> \in Seq(Word)
      BY DEF Word
    <3> QED
      BY <3>1, <3>2, <3>3, Zenon
  <2>2. b => "sink" \in Range(last)
    BY DEF Range
  <2>3. Beat!Main(n, b) = ((first \o second) \o third) \o last
    BY <1>1 DEF Beat!Main, Beat!RattleMain
  <2> HIDE DEF first, second, third, last
  <2>4. first \o second \in Seq(Word)
    BY <2>1, RangeOfConcat
  <2>5. (first \o second) \o third \in Seq(Word)
    BY <2>1, <2>4, RangeOfConcat
  <2> QED
    BY <2>1, <2>2, <2>3, <2>5, RangeOfConcat, Zenon
<1>2. CASE n = "clank"
  <2> DEFINE last == IF b THEN Beat!ClankBroker ELSE <<"ready">>
  <2>1. Beat!ClankMain \in Seq(Word) /\ last \in Seq(Word)
    <3>1. Beat!ClankMain \in Seq(Word)
      BY DEF Word, Beat!ClankMain
    <3>2. Beat!ClankBroker \in Seq(Word)
      BY DEF Word, Beat!ClankBroker
    <3>3. <<"ready">> \in Seq(Word)
      BY DEF Word
    <3> QED
      BY <3>1, <3>2, <3>3, Zenon
  <2>2. b => "sink" \in Range(last)
    <3>1. 7 \in DOMAIN Beat!ClankBroker /\ Beat!ClankBroker[7] = "sink"
      BY DEF Beat!ClankBroker
    <3> QED
      BY <3>1, Zenon DEF Range
  <2>3. Beat!Main(n, b) = Beat!ClankMain \o last
    BY <1>2, Zenon DEF Beat!Main
  <2> HIDE DEF last
  <2> QED
    BY <2>1, <2>2, <2>3, RangeOfConcat
<1>3. CASE n = "hiss"
  <2> DEFINE last == IF b THEN Beat!HissBroker ELSE <<"ready">>
  <2>1. Beat!HissMain \in Seq(Word) /\ last \in Seq(Word)
    <3>1. Beat!HissMain \in Seq(Word)
      BY DEF Word, Beat!HissMain
    <3>2. Beat!HissBroker \in Seq(Word)
      BY DEF Word, Beat!HissBroker
    <3>3. <<"ready">> \in Seq(Word)
      BY DEF Word
    <3> QED
      BY <3>1, <3>2, <3>3, Zenon
  <2>2. b => "sink" \in Range(last)
    <3>1. 6 \in DOMAIN Beat!HissBroker /\ Beat!HissBroker[6] = "sink"
      BY DEF Beat!HissBroker
    <3> QED
      BY <3>1, Zenon DEF Range
  <2>3. Beat!Main(n, b) = Beat!HissMain \o last
    BY <1>3, Zenon DEF Beat!Main
  <2> HIDE DEF last
  <2> QED
    BY <2>1, <2>2, <2>3, RangeOfConcat
<1>4. CASE n = "thump"
  <2> DEFINE last == IF b THEN Beat!ThumpBroker ELSE <<"ready", "executor", "watcher">>
  <2>1. Beat!ThumpMain \in Seq(Word) /\ last \in Seq(Word)
    <3>1. Beat!ThumpMain \in Seq(Word)
      BY DEF Word, Beat!ThumpMain
    <3>2. Beat!ThumpBroker \in Seq(Word)
      BY DEF Word, Beat!ThumpBroker
    <3>3. <<"ready", "executor", "watcher">> \in Seq(Word)
      BY DEF Word
    <3> QED
      BY <3>1, <3>2, <3>3, Zenon
  <2>2. b => "sink" \in Range(last)
    <3>1. 6 \in DOMAIN Beat!ThumpBroker /\ Beat!ThumpBroker[6] = "sink"
      BY DEF Beat!ThumpBroker
    <3> QED
      BY <3>1, Zenon DEF Range
  <2>3. Beat!Main(n, b) = Beat!ThumpMain \o last
    BY <1>4, Zenon DEF Beat!Main
  <2> HIDE DEF last
  <2> QED
    BY <2>1, <2>2, <2>3, RangeOfConcat
<1> QED
  BY <1>1, <1>2, <1>3, <1>4 DEF Beats

LEMMA LifeBegins ==
    ASSUME Beat!Init
    PROVE  LifeSound
<1> DEFINE b == "NATS_URL" \in env
<1>1. PICK n \in Beats : beat = [name |-> n, broker |-> b] /\ todo = Beat!Main(n, b)
  BY DEF Beat!Init, Beats
<1>2. b \in BOOLEAN
  OBVIOUS
<1> HIDE DEF b
<1>3. /\ beat \in [name : Beats, broker : BOOLEAN] /\ todo \in Seq(Word)
      /\ beat.broker => "sink" \in Range(todo)
  BY <1>1, <1>2, BrokersSink
<1>4. <<>> \in Seq(Word) /\ 0 \in 0..MaxFaults
  BY WalAssumption
<1>5. pc = "start"
  BY DEF Beat!Init
<1> QED
  BY <1>3, <1>4, <1>5, Zenon DEF Beat!Init, LifeSound
\* A startup step succeeds: it only adds to the deferred calls, and the step that
\* opens the WALs adds all their drains.
LEMMA TakesKeeps ==
    ASSUME LifeSound, NEW step, Beat!Takes(step),
           conn' \in {"none", "up", "down", "lost", "shut"}, calls' = calls, ready' \in BOOLEAN,
           defers' \in Seq(Word), Range(defers) \subseteq Range(defers'),
           step = "sink" => Range(Beat!Wals(beat.name)) \subseteq Range(defers')
    PROVE  LifeSound'
<1>1. /\ pc = "start" /\ todo # <<>> /\ Head(todo) = step /\ todo' = Tail(todo)
      /\ UNCHANGED <<beat, pc, ctx, code, drained, late, faults>>
  BY DEF Beat!Takes
<1>2. /\ todo' \in Seq(Word) /\ Range(todo) = {step} \cup Range(todo')
  BY <1>1, HeadAndTail DEF LifeSound
<1>3. beat'.broker /\ "sink" \notin Range(todo') =>
          Range(Beat!Wals(beat'.name)) \subseteq Range(defers') \cup drained'
  <2>1. CASE step = "sink"
    BY <1>1, <2>1
  <2>2. CASE step # "sink"
    <3>1. "sink" \notin Range(todo') => "sink" \notin Range(todo)
      BY <1>2, <2>2
    <3>2. beat.broker /\ "sink" \notin Range(todo) =>
              Range(Beat!Wals(beat.name)) \subseteq Range(defers) \cup drained
      BY DEF LifeSound
    <3> QED
      BY <1>1, <3>1, <3>2
  <2> QED
    BY <2>1, <2>2
<1> QED
  BY <1>1, <1>2, <1>3 DEF LifeSound

LEMMA StartStepKeeps ==
    ASSUME LifeSound, Beat!StartStep
    PROVE  LifeSound'
<1>0. /\ defers \in Seq(Word) /\ conn \in {"none", "up", "down", "lost", "shut"}
      /\ ready \in BOOLEAN /\ beat.name \in Beats
  BY DEF LifeSound
<1>1. CASE Beat!Config
  BY <1>0, <1>1, TakesKeeps DEF Beat!Config
<1>2. CASE Beat!Dial
  <2>1. <<"close">> \in Seq(Word)
    BY DEF Word
  <2>2. Beat!Takes("connect") /\ conn' = "up" /\ defers' = <<"close">> \o defers
        /\ calls' = calls /\ ready' = ready
    BY <1>2 DEF Beat!Dial
  <2>3. defers' \in Seq(Word) /\ Range(defers) \subseteq Range(defers')
    BY <1>0, <2>1, <2>2, RangeOfConcat, Zenon
  <2> QED
    BY <1>0, <2>2, <2>3, TakesKeeps
<1>3. CASE Beat!Bind
  BY <1>0, <1>3, TakesKeeps DEF Beat!Bind
<1>4. CASE Beat!SetReady
  BY <1>0, <1>4, TakesKeeps DEF Beat!SetReady
<1>5. CASE Beat!Sink
  <2>1. Beat!Wals(beat.name) \in Seq(Word)
    BY <1>0, WalsListed
  <2>2. /\ Beat!Takes("sink") /\ defers' = Beat!Wals(beat.name) \o defers
        /\ conn' = conn /\ calls' = calls /\ ready' = ready
    BY <1>5 DEF Beat!Sink
  <2>3. /\ defers' \in Seq(Word) /\ Range(defers) \subseteq Range(defers')
        /\ Range(Beat!Wals(beat.name)) \subseteq Range(defers')
    BY <1>0, <2>1, <2>2, RangeOfConcat
  <2> QED
    BY <1>0, <2>2, <2>3, TakesKeeps
<1>6. ASSUME NEW step \in {"tracer", "metrics"}, Beat!Serve(step)
      PROVE  LifeSound'
  <2>1. <<step>> \in Seq(Word)
    BY DEF Word
  <2>2. /\ Beat!Takes(step) /\ step # "sink" /\ defers' = <<step>> \o defers
        /\ conn' = conn /\ calls' = calls /\ ready' = ready
    BY <1>6 DEF Beat!Serve
  <2>3. defers' \in Seq(Word) /\ Range(defers) \subseteq Range(defers')
    BY <1>0, <2>1, <2>2, RangeOfConcat, Zenon
  <2> QED
    BY <1>0, <2>2, <2>3, TakesKeeps
<1>7. CASE Beat!Opens
  BY <1>0, <1>7, TakesKeeps DEF Beat!Opens
<1> QED
  BY <1>1, <1>2, <1>3, <1>4, <1>5, <1>6, <1>7 DEF Beat!StartStep

\* Main returns, and its code is 0 only after a signal.
LEMMA ReturnKeeps ==
    ASSUME LifeSound, NEW c \in {0, 1}, Beat!Return(c), pc # "exit", c = 0 => ctx = "signal",
           UNCHANGED <<beat, env, bad, todo, defers, conn, calls, ready, ctx, drained, late, faults>>
    PROVE  LifeSound'
BY DEF LifeSound, Beat!Return

LEMMA DeferredKeeps ==
    ASSUME LifeSound, Beat!Deferred
    PROVE  LifeSound'
<1> DEFINE h == Head(defers)
           W == Range(Beat!Wals(beat.name))
<1>1. /\ pc = "return" /\ defers # <<>> /\ defers' = Tail(defers)
      /\ conn' = (IF h = "close" THEN "shut" ELSE conn)
      /\ drained' = drained \cup ({h} \cap W)
      /\ UNCHANGED <<beat, pc, todo, calls, ready, ctx, code, late, faults>>
  BY Zenon DEF Beat!Deferred, Beat!Range, Range
<1>2. defers' \in Seq(Word) /\ Range(defers) = {h} \cup Range(defers')
  BY <1>1, HeadAndTail DEF LifeSound
<1> HIDE DEF h
<1>3. conn' \in {"none", "up", "down", "lost", "shut"}
  BY <1>1 DEF LifeSound
<1>4. /\ drained \subseteq W
      /\ beat.broker /\ "sink" \notin Range(todo) => W \subseteq Range(defers) \cup drained
  BY DEF LifeSound
<1>5. drained' \subseteq W /\ Range(Beat!Wals(beat'.name)) = W
  BY <1>1, <1>4
<1> HIDE DEF W
<1>6. beat.broker /\ "sink" \notin Range(todo) => W \subseteq Range(defers') \cup drained'
  BY <1>1, <1>2, <1>4
<1> QED
  BY <1>1, <1>2, <1>3, <1>5, <1>6 DEF LifeSound
\* What the client does reaches the process through its callbacks alone.
LEMMA EventKeeps ==
    ASSUME LifeSound, NEW from, NEW to \in {"up", "down", "lost"},
           NEW e \in {"disconnect", "reconnect", "closed"}, Beat!Event(from, to, e),
           late' \in BOOLEAN, faults' \in 0..MaxFaults
    PROVE  LifeSound'
<1>1. calls' \in Seq(Word) /\ pc # "exit" /\ conn' \in {"none", "up", "down", "lost", "shut"}
  BY DEF LifeSound, Beat!Event, Word
<1>2. UNCHANGED <<beat, env, bad, pc, todo, defers, ready, ctx, code, drained>>
  BY DEF Beat!Event
<1> QED
  BY <1>1, <1>2 DEF LifeSound

LEMMA CallbackKeeps ==
    ASSUME LifeSound, Beat!Callback
    PROVE  LifeSound'
<1>1. /\ pc # "exit" /\ calls # <<>> /\ calls' = Tail(calls)
      /\ ready' \in BOOLEAN
      /\ ctx' \in {ctx, "lost"} /\ (ctx # "live" => ctx' = ctx)
      /\ UNCHANGED <<beat, env, bad, pc, todo, defers, conn, code, drained, late, faults>>
  BY Zenon DEF Beat!Callback, LifeSound
<1>2. calls' \in Seq(Word)
  BY <1>1, HeadAndTail DEF LifeSound
<1>3. pc \in {"return", "exit"} /\ code = 0 => ctx' = "signal"
  BY <1>1 DEF LifeSound
<1> QED
  BY <1>1, <1>2, <1>3 DEF LifeSound

LEMMA LifeStepKeeps ==
    ASSUME LifeSound, [Beat!Next]_Beat!vars
    PROVE  LifeSound'
<1>1. CASE Beat!StartFails
  BY <1>1, ReturnKeeps DEF Beat!StartFails
<1>2. CASE Beat!Started
  BY <1>2 DEF Beat!Started, LifeSound
<1>3. CASE Beat!RunFails
  <2>1. /\ Beat!ExitOnError(TRUE) \in {0, 1}
        /\ Beat!ExitOnError(TRUE) = 0 => ctx = "signal"
    BY DEF Beat!ExitOnError, LifeSound
  <2> QED
    BY <1>3, <2>1, ReturnKeeps, Zenon DEF Beat!RunFails
<1>4. CASE Beat!RunEnds
  <2>1. /\ Beat!ExitOnError(FALSE) \in {0, 1}
        /\ Beat!ExitOnError(FALSE) = 0 => ctx = "signal"
    BY <1>4 DEF Beat!ExitOnError, Beat!RunEnds, LifeSound
  <2> QED
    BY <1>4, <2>1, ReturnKeeps, Zenon DEF Beat!RunEnds
<1>5. CASE Beat!Exit
  BY <1>5 DEF Beat!Exit, LifeSound
<1>6. CASE Beat!Drop
  <2>1. late' \in BOOLEAN /\ faults' \in 0..MaxFaults
    BY <1>6, WalAssumption DEF Beat!Drop, LifeSound
  <2> QED
    BY <1>6, <2>1, EventKeeps DEF Beat!Drop
<1>7. CASE Beat!Reconnect
  <2>1. late' \in BOOLEAN /\ faults' \in 0..MaxFaults
    BY <1>7 DEF Beat!Reconnect, LifeSound
  <2> QED
    BY <1>7, <2>1, EventKeeps DEF Beat!Reconnect
<1>8. CASE Beat!GiveUp
  <2>1. late' \in BOOLEAN /\ faults' \in 0..MaxFaults
    BY <1>8, WalAssumption DEF Beat!GiveUp, LifeSound
  <2> QED
    BY <1>8, <2>1, EventKeeps DEF Beat!GiveUp
<1>9. CASE Beat!Signal
  BY <1>9 DEF Beat!Signal, LifeSound
<1>10. CASE UNCHANGED Beat!vars
  BY <1>10 DEF Beat!vars, LifeSound
<1> QED
  BY <1>1, <1>2, <1>3, <1>4, <1>5, <1>6, <1>7, <1>8, <1>9, <1>10, StartStepKeeps,
     DeferredKeeps, CallbackKeeps DEF Beat!Next, Beat!Proceed, Beat!Stopped

\* A beat drains no WAL but its own, and its exit code is 0 or 1 (each Main).
THEOREM LivesAreTyped == Beat!Spec => []Beat!TypeOK
<1>1. LifeSound => Beat!TypeOK
  BY DEF LifeSound, Beat!TypeOK, Beat!Range, Range
<1> QED
  BY <1>1, LifeBegins, LifeStepKeeps, PTL DEF Beat!Spec

\* A beat exits 0 only after a signal: whichever startup step, consumer or
\* connection failed, and in whatever order the callbacks ran meanwhile, the
\* orchestrator is told (ExitOnError, and the returns of each Main).
THEOREM SuccessWasAsked == Beat!Spec => []Beat!CleanExit
<1>1. LifeSound => Beat!CleanExit
  BY DEF LifeSound, Beat!CleanExit, Beat!Exited
<1> QED
  BY <1>1, LifeBegins, LifeStepKeeps, PTL DEF Beat!Spec

\* A beat that opened its WALs has drained every one of them when it exits,
\* whatever ended it (the deferred drains of runBroker and of rattle's Main).
THEOREM ExitsDrainTheLogs == Beat!Spec => []Beat!ExitDrains
<1>1. ASSUME LifeSound
      PROVE  Beat!ExitDrains
  <2>1. Beat!Range(todo) = Range(todo)
        /\ Beat!Range(Beat!Wals(beat.name)) = Range(Beat!Wals(beat.name))
    BY DEF Beat!Range, Range
  <2>2. Range(<<>>) = {}
    BY DEF Range
  <2> SUFFICES ASSUME pc = "exit", beat.broker, "sink" \notin Range(todo)
               PROVE  drained = Range(Beat!Wals(beat.name))
    BY <2>1, Zenon DEF Beat!ExitDrains, Beat!Exited
  <2>3. /\ defers = <<>> /\ drained \subseteq Range(Beat!Wals(beat.name))
        /\ Range(Beat!Wals(beat.name)) \subseteq Range(defers) \cup drained
    BY <1>1, Zenon DEF LifeSound
  <2> QED
    BY <2>2, <2>3, Zenon
<1> QED
  BY <1>1, LifeBegins, LifeStepKeeps, PTL DEF Beat!Spec

=============================================================================
