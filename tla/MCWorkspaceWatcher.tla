------------------------- MODULE MCWorkspaceWatcher -------------------------
(* Instances of WorkspaceWatcher for TLC. *)
EXTENDS WorkspaceWatcher

docs == <<"docs">>
adr == <<"docs", "adr">>

\* A directory in a directory, with a file in each.
MCDirs == {docs, adr}
MCFiles == {Append(docs, "guide.md"), Append(adr, "1.md")}
=============================================================================
