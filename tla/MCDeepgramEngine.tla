--------------------------- MODULE MCDeepgramEngine --------------------------
\* DeepgramEngine on small instances; every constant is a number or a Boolean,
\* so the configurations give them directly.  The hold is never shorter than
\* the ring, as with the defaults of 60 s and 2 s.
EXTENDS DeepgramEngine
=============================================================================
