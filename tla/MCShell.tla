------------------------------ MODULE MCShell ------------------------------
(* A screen of four rows, of which the shell owns three, and lines of up to *)
(* three characters: replies fill a row or less, and the screen scrolls.    *)
EXTENDS Shell, TLC

MCLetters == {"a", "b"}
MCReplyLengths == (<<"a">> :> {1, 3}) @@ (<<"a", "b">> :> {2})
MCClearLine == <<"b">>
MCDiskLine == <<"b", "a">>
MCDiskLengths == {2}
=============================================================================
