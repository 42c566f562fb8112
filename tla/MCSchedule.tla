----------------------------- MODULE MCSchedule -----------------------------
EXTENDS Schedule

Seconds == {1, 2, 7, 35, 36, 37, 49}
=============================================================================
