----------------------------- MODULE MCPollWait -----------------------------
\* PollWait with a clock of a few ticks in a millisecond.
EXTENDS PollWait

CONSTANTS s1, s2

\* Timeouts of poll(): infinite, none, and one longer than the shortest deadline.
PollTimeouts == {-1, 0, 2}
=============================================================================
