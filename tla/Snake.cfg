CONSTANTS
    GRID_WIDTH = 6
    GRID_HEIGHT = 6
    MAX_SNAKE_LENGTH = 17
    SNAKE_UPDATE_INTERVAL = 1
SPECIFICATION Spec
INVARIANTS SnakeIsPath FoodFree SearchEnds
PROPERTY PictureIsDrawn
CHECK_DEADLOCK FALSE
