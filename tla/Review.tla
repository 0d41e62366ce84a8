------------------------------- MODULE Review -------------------------------
(***************************************************************************)
(* What a forge promises thump: a release of a key is open to review, and  *)
(* the source of record takes it only when a reviewer accepts it.  Forge   *)
(* implements this with branches, blobs and pull requests.                 *)
(***************************************************************************)
EXTENDS Sequences

CONSTANTS
    Key,         \* release keys
    Doc,         \* contents of the released file
    NoDoc,       \* no content
    NoKey,       \* no key: a change people made themselves
    Asks(_, _)   \* Asks(k, d): content d carries the change key k releases

VARIABLES
    review,      \* key -> its release: state, and the content under review
    log          \* the source of record: every content it took, and from whom

Release == [state : {"none", "open", "accepted", "withdrawn"}, doc : Doc \cup {NoDoc}]

Init ==
    /\ review = [k \in Key |-> [state |-> "none", doc |-> NoDoc]]
    /\ \E d \in Doc : log = <<[doc |-> d, by |-> NoKey]>>

\* A release opens, or a redelivery rewrites the open one.
Offer(k) ==
    /\ \E d \in Doc :
         /\ Asks(k, d)
         /\ review' = [review EXCEPT ![k] = [state |-> "open", doc |-> d]]
    /\ UNCHANGED log

Accept(k) ==
    /\ review[k].state = "open"
    /\ review' = [review EXCEPT ![k] = [state |-> "accepted", doc |-> NoDoc]]
    /\ log' = Append(log, [doc |-> review[k].doc, by |-> k])

Retract(k) ==
    /\ review[k].state = "open"
    /\ review' = [review EXCEPT ![k] = [state |-> "withdrawn", doc |-> NoDoc]]
    /\ UNCHANGED log

\* People commit to the source of record as they please.
Commit ==
    /\ \E d \in Doc : log' = Append(log, [doc |-> d, by |-> NoKey])
    /\ UNCHANGED review

Next ==
    \/ \E k \in Key : Offer(k) \/ Accept(k) \/ Retract(k)
    \/ Commit

Spec == Init /\ [][Next]_<<review, log>>
=============================================================================
