CONSTANTS
    Letters = {"l"}
    SHELL_BUFFER_SIZE = 4
    SHELL_HISTORY_SIZE = 2
    available_commands <- MCCommands
    file_commands <- MCFileCommands
    games <- MCGames
    Files <- MCFiles
    Runs <- MCRuns
    Width = 5
    Height = 1
    Prompt <- MCPrompt
    Outputs <- MCOutputs
SPECIFICATION ScreenSpec
INVARIANTS Terminated RowShowsLine
PROPERTY RefinesLineEditor
