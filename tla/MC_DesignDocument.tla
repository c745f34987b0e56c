-------------------------- MODULE MC_DesignDocument --------------------------
(* One form and two images of its source, which may be exchanged.            *)
EXTENDS DesignDocument, TLC

Images == Permutations(Text)
=============================================================================
