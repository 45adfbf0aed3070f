------------------------------ MODULE MCSnake ------------------------------
EXTENDS Snake
=============================================================================
