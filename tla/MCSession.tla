------------------------------ MODULE MCSession ------------------------------
\* Session with two connections, so that a reader can outlive its own, and a
\* bufio buffer of three pieces, so that lines are torn by a full buffer.
EXTENDS Session
=============================================================================
