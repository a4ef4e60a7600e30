---------------------------- MODULE MCTimerQueue ----------------------------
EXTENDS TimerQueue, TLC

CONSTANTS c1, c2, c3

MCConns3 == {c1, c2, c3}
MCSymmetry3 == Permutations(MCConns3)
=============================================================================
