CONSTANTS
    Letters = {"l"}
    SHELL_BUFFER_SIZE = 5
    SHELL_HISTORY_SIZE = 2
    available_commands <- MCCommands
    file_commands <- MCFileCommands
    games <- MCGames
    Files <- MCFiles
    Runs <- MCRuns
SPECIFICATION Spec
PROPERTY CompletionKeepsCommand
