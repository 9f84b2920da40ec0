------------------------------ MODULE MCFsPath ------------------------------
(* All paths up to a length, over the slash, the dot and one more character. *)
EXTENDS FsRoot

CONSTANT MaxFile   \* the longest path

MCChars == {"/", ".", "a"}
MCFiles == SeqOf(MCChars, MaxFile)
MCRoots == {<<>>, <<"/">>, <<"/", "/">>, <<"a">>, <<"/", "a", "/", "/">>, <<".", ".", "/">>}
=============================================================================
