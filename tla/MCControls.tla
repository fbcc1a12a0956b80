----------------------------- MODULE MCControls -----------------------------
(* The editor's controls on a small instance. *)
EXTENDS EditorControls, TLC

\* One melodic part, which is 1, and the drum part.
OneAndKit == (1 :> 1) @@ (2 :> 3)
=============================================================================
