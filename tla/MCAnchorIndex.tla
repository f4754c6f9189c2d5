---------------------------- MODULE MCAnchorIndex ----------------------------
\* AnchorIndex over chunks of one and three samples: the window is smaller
\* than a connection, and short chunks reach MaxAnchors before the window.  Two
\* chunks may be released at one instant or further apart than they are long.
EXTENDS AnchorIndex

ChunkLengths == {1, 3}
ReleaseGaps == {0, 2}
=============================================================================
