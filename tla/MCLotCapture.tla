----------------------------- MODULE MCLotCapture -----------------------------
EXTENDS LotCapture, TLC

CONSTANTS r1, r2
=============================================================================
