------------------------------ MODULE MCThump ------------------------------
(***************************************************************************)
(* Instances of Thump: which contract each run recommends and how the      *)
(* contracts are authored.                                                 *)
(***************************************************************************)
EXTENDS Thump, TLC

CONSTANTS r1, r2, r3, mutate, release, retired

\* r1 changes the cluster, r2 opens a release for review, r3 recommends a
\* contract that has left thump's catalog.
OneOfEach == r1 :> mutate @@ r2 :> release @@ r3 :> retired

OneMutation == r1 :> mutate
=============================================================================
