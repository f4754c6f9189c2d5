------------------------------- MODULE MCViewer -------------------------------
\* Viewer with two short words and one that only the wider page holds whole.
\* A row of width three takes two short words, one of width five three.
EXTENDS Viewer

MCGlyphs == {"a", "b", "l", "o", "n", "g"}
A == <<"a">>
B == <<"b">>
Long == <<"l", "o", "n", "g">>

\* Revisions that confirm, extend, shorten and contradict each other.
MCTexts == {<<A>>, <<A, B>>, <<B, B>>, <<A, B, A>>, <<B, B, A>>, <<A, B, B, A>>, <<A, Long, B>>}
=============================================================================
