----------------------------- MODULE MCExitData -----------------------------
EXTENDS ExitData

CONSTANTS t1, t2

MCOneThread == {t1}
MCTwoThreads == {t1, t2}
=============================================================================
