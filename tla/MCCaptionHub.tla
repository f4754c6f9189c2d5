---------------------------- MODULE MCCaptionHub -----------------------------
\* CaptionHub with one connection, enough to join, fall behind and leave in
\* every order relative to both publishers.
EXTENDS CaptionHub

CONSTANTS c1
=============================================================================
