---------------------------- MODULE MCShellScreen ----------------------------
\* A prompt of one cell on the screen's last row, where a new line always
\* scrolls.  One letter besides the space: l starts a game and may have a file
\* behind it, ll is another command, and Tab has ll and lll to complete.
EXTENDS ShellScreen

MCCommands == {<<"l", "l">>, <<"l", "l", "l">>}
MCFileCommands == {<<"l">>}
MCGames == {<<"l">>}
MCFiles == {[name |-> <<"l">>, slash |-> FALSE]}
MCRuns == {<< >>, <<"l">>, <<"l", "l">>, <<"l", SPACE, "l">>, <<SPACE, "l">>}
MCPrompt == <<"$">>
MCOutputs == {<<"l", NEWLINE>>}
=============================================================================
