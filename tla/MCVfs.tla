------------------------------- MODULE MCVfs -------------------------------
\* Small archives: one with texts whose characters the reads do not cut, with a
\* NUL and with characters they cut, one with a directory and a repeated name, one
\* whose third header is not a tar header.
EXTENDS Vfs

Header(parts, slash, type, text) ==
    [name |-> [parts |-> parts, slash |-> slash], type |-> type, text |-> text, magic |-> TRUE]
File(name, text) == Header(<<name>>, FALSE, "file", text)
Broken(header) == [header EXCEPT !.magic = FALSE]

\* A text of n characters of one byte.
Ascii(n) == [i \in 1 .. n |-> i]

MCArchives == {
    << >>,
    <<File("welcome", Ascii(5)), File("test", <<1, 1>>)>>,
    <<File("welcome", <<1, 2, 2, 3, 3, 3, 4>>), File("test", <<1, NUL, 2, NUL, 3>>)>>,
    <<Header(<<"docs">>, TRUE, "directory", << >>), Header(<<"docs", "a">>, FALSE, "file", Ascii(1)),
      Header(<<"link">>, FALSE, "other", << >>), File("test", <<1, 1, 2>>), File("test", Ascii(1))>>,
    <<File("welcome", Ascii(1)), Header(<<"bin">>, FALSE, "directory", << >>),
      Broken(File("junk", Ascii(1))), File("late", Ascii(1))>>}

Path(absolute, parts) == [absolute |-> absolute, parts |-> parts]
MCPaths == {
    Path(TRUE, << >>), Path(FALSE, <<"welcome">>), Path(FALSE, <<"test">>),
    Path(FALSE, <<"bin">>), Path(TRUE, <<"docs", "a">>), Path(FALSE, <<"..", "test">>),
    Path(TRUE, <<".", "bin", "welcome">>)}

MCReads == {3}
MCOffsets == {-1, 2}
=============================================================================
