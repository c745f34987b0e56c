--------------------------- MODULE MC_BuildRelease ---------------------------
(* Every form of an instance renders on the same worker.                    *)
EXTENDS BuildRelease

MCHome == [f \in Forms |-> CHOOSE w \in Workers : TRUE]
==============================================================================
