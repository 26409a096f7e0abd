------------------------------- MODULE MCWrite -------------------------------
(***************************************************************************)
(* Write with a table of two, three ports that are present and one that is *)
(* not: the table fills up.  Three messages, each within another, on a     *)
(* screen of two rows of two: it wraps and scrolls.                        *)
(***************************************************************************)
EXTENDS Write

MCMessages == {<<>>, <<"a", NEWLINE, "b">>}

=============================================================================
