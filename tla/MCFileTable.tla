----------------------------- MODULE MCFileTable -----------------------------
(* FileTable with two devices: the console, and one that looks at its flags. *)
(* Writers also ask for truncation, which OPEN ignores.                      *)
EXTENDS FileTable

MCDevices == <<"stdin", "null">>
MCFlagSets == {{"read"}, {"read", "write", "truncate"}}
=============================================================================
