------------------------------ MODULE MCTerminal ------------------------------
\* Terminal and Metrics over a few operations of the stages: a window of one
\* tick, so that a blip can fade, and a latency ring that wraps.
EXTENDS Terminal

Delays == {-1, 1, 2}
SnapshotReaders == {"status", "summary"}
=============================================================================
