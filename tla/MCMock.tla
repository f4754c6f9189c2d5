-------------------------------- MODULE MCMock --------------------------------
\* MockEngine over frames of two lengths: long enough for two passes of a
\* silent file and a pause in each, for a whole cycle of mock-2's schedule,
\* and for the phrase that follows a pause.
EXTENDS MockEngine

ChunkLengths == {1, 2}
=============================================================================
