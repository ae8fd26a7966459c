---------------------------- MODULE MCTimerArith ----------------------------
EXTENDS TimerArith
=============================================================================
