------------------------ MODULE MCCollaborationStream ------------------------
(* Two PUTs of other sessions and one save of the page, pages of one event. *)
EXTENDS CollaborationStream, TLC

CONSTANTS p1, p2, s1

MCPut  == {p1, p2}
MCSave == {s1}
MCTypes == (p1 :> {1}) @@ (p2 :> {1}) @@ (s1 :> {1})

\* PUTs are alike: the same one comes first.
InOrder == write[p1].pc = "new" => write[p2].pc = "new"
=============================================================================
