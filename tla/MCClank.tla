------------------------------ MODULE MCClank ------------------------------
(***************************************************************************)
(* Instances of Clank: which fingerprint each run is about.                *)
(***************************************************************************)
EXTENDS Clank, TLC

CONSTANTS f1, f2

Two == <<f1, f1>>

Three == <<f1, f1, f1>>

\* Enough identities that two detections of either fingerprint, one of them
\* redelivered, never run out of them in any order.
Alternating == <<f1, f2, f1, f2, f1, f2>>
=============================================================================
