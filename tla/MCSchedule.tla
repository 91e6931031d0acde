----------------------------- MODULE MCSchedule -----------------------------
\* Values for the runs arithmetic and schedule_jitter.
EXTENDS Schedule

MCDurations == {1, 3, 7, 16, 19, 40, 63}

\* Multipliers with a four-bit mantissa, from one to almost four.
MCMultipliers == {16, 18, 24, 30, 60}

MCJitters == {0, 5, 15}

=============================================================================
