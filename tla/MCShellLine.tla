---------------------------- MODULE MCShellLine ----------------------------
\* One letter besides the space: l lists a directory, with an entry l to
\* complete, ll starts a game, and lll is the command Tab completes.
EXTENDS ShellLine

MCCommands == {<<"l", "l", "l">>}
MCFileCommands == {<<"l">>}
MCGames == {<<"l", "l">>}
MCFiles == {[name |-> <<"l">>, slash |-> TRUE]}
MCRuns == {<< >>, <<"l">>, <<"l", "l", SPACE, "l">>, <<SPACE, "l">>}
=============================================================================
