------------------------------- MODULE MCTtys -------------------------------
\* Two terminals, one game that both can play, one other word, lines of two words.
EXTENDS Ttys

MCTTYs == {0, 1}
=============================================================================
