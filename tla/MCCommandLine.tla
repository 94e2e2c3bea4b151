---------------------------- MODULE MCCommandLine ----------------------------
(***************************************************************************)
(* Bounds for model-checking CommandLine: two processes, one after the     *)
(* other in all commands, and an application that undoes once.             *)
(***************************************************************************)
EXTENDS CommandLine

CliKeys == {"demo/session:1", "recovery/session:1", "edit/session:1"}
CliCommandIds == {DemoCommand, CrashCommand, RetryCommand, "edit-001"}
CliDeltas == {1, 2}

OneUndo ==
  {r \in Requests : /\ r.command = "edit-001" /\ r.key = "edit/session:1"
                     /\ r.expected > 0 /\ r.change.kind = "history.undo"}
==============================================================================
