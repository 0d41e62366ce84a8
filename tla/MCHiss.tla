------------------------------- MODULE MCHiss -------------------------------
EXTENDS Hiss, TLC

CONSTANTS r1, r2

\* r1 is held by the risk ceiling, r2 is ungated.
HoldAndReject == (r1 :> "hold") @@ (r2 :> "rejected")

OneHold == r1 :> "hold"
=============================================================================
