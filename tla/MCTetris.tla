------------------------------ MODULE MCTetris ------------------------------
EXTENDS Tetris
=============================================================================
