------------------------------ MODULE MCCapture ------------------------------
\* Capture with a file, a looped file and a device; the file is two chunks and
\* a half, a tap of one frame fills at once, and there are two lives, so that
\* a pass follows a pass and a restart an unplugged device.
EXTENDS Capture
=============================================================================
