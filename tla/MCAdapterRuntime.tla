-------------------------- MODULE MCAdapterRuntime ---------------------------
(* Executions of an import, an export and two webhooks with one event id.     *)
EXTENDS AdapterRuntime

Import == "import-i"
Export == "export-x"
HookA  == "webhook-a"
HookB  == "webhook-b"

MCCapability ==
  [i \in Input |-> CASE i = Import -> "import" [] i = Export -> "export" [] OTHER -> "webhook"]
\* Executions are alike: they begin in turn.
InTurn == \A r \in Run \ {1} : At(r - 1, "idle") => At(r, "idle")

\* A second failure, of a retry or of the sink, is followed by no third execution.
TwoTroubles == errors = 2 => At(3, "idle")

MCEventOf == [i \in Input |-> "event"]
=============================================================================
