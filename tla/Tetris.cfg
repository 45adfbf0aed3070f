CONSTANTS
    BOARD_WIDTH = 4
    BOARD_HEIGHT = 3
    TETRIS_UPDATE_INTERVAL = 2
    ScoreMod = 3
SPECIFICATION Spec
INVARIANTS LinesCleared PieceFree
PROPERTY PieceLands
