-------------------------- MODULE MCPlayerSettings --------------------------
(* The player's settings on a small instance. *)
EXTENDS PlayerSettings, TLC

CONSTANTS opn2, opna, wild, d1, d2

\* wild is what a project can hold and no player can run; opna is a chip that
\* runs at a rate of its own.
Played == (opn2 :> opn2) @@ (opna :> opna) @@ (wild :> opn2)
RateOf == (opn2 :> 1) @@ (opna :> 2) @@ (wild :> 1)
=============================================================================
