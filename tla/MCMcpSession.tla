---------------------------- MODULE MCMcpSession ----------------------------
(***************************************************************************)
(* A small instance of McpSession: the Project a session begins with and a *)
(* second one, two commands and one that meets a Lock, two reports; two    *)
(* calls of any kind side by side.                                         *)
(***************************************************************************)
EXTENDS McpSession

CONSTANTS p1, p2, k1, k2, k3, i1, i2, c1, c2

\* When calls have crossed, nothing fails, and the last call comes when the
\* session is mended.
OneTrouble == crossed => failures = 0 /\ started < MaxCalls

\* The calls are alike: one that comes alone is the first.
FirstAlone == Busy = {} => At(c2, "idle")'
=============================================================================
