------------------------ MODULE MCProjectRepository ------------------------
(* The instance of ProjectRepository that the runs check.                    *)
EXTENDS ProjectRepository
=============================================================================
