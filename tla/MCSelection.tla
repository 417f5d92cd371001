----------------------------- MODULE MCSelection -----------------------------
(* Three patches of one minor version, two of them the same in different      *)
(* installations; two directories for the configuration; three programs two   *)
(* runtimes may have as `pip', and one of them with the other subsystem.      *)
EXTENDS Selection, TLC

CONSTANTS work, home, elsewhere

MCInitial == {[id |-> <<3, 12, 1, 0>>, aliases |-> {work}, ready |-> TRUE, managed |-> FALSE],
              [id |-> <<3, 12, 2, 1>>, aliases |-> {}, ready |-> TRUE, managed |-> FALSE]}

MCLater == {[id |-> <<3, 12, 2, 2>>, aliases |-> {}, ready |-> TRUE, managed |-> TRUE]}

Short == [kind |-> "minor", of |-> <<3, 12>>]
Named == [kind |-> "alias", of |-> <<work>>]

MCWanted == {Short}
MCSaved == {Absent, ById(<<3, 12, 1, 0>>), ById(<<3, 12, 2, 2>>)}
MCLocal == {Absent, Corrupt, Short, Named, System}
MCDirectories == <<"project", "parent">>

MCDefault == [runtimes_dir |-> <<home, "runtimes">>, cache_dir |-> <<home, "cache">>]
MCDirectory == {<<home, "runtimes">>, <<home, "cache">>, <<home, "cache", "in">>, <<elsewhere>>}

\* Processes are alike, whatever their numbers.
Symmetry == Permutations(Pid) \cup Permutations(Editor)

Pip(dir, ext, kind) == [dir |-> dir, stem |-> "pip", ext |-> ext, kind |-> kind, at |-> 0]

MCPrograms == {Pip(0, "cmd", "script"), Pip(0, "com", "rejected"), Pip(1, "exe", "console"), Pip(1, "exe", "gui")}
MCShipped == {{}, {Pip(1, "exe", "console")}}

MCMixes == {{"terminals", "shell"}, {"shell", "registry"}, {"files", "registry"}, {"settings"}, {"commands"}}
=============================================================================
