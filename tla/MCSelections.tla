---------------------------- MODULE MCSelections ----------------------------
(* One melodic part and the drum part. *)
EXTENDS Selections, TLC

CONSTANTS m1, m2, k1, k2, soft, loud, wide

\* A wide sound is held as a loud one.
HeldSounds == (soft :> soft) @@ (loud :> loud) @@ (wide :> loud)

FirstBanks == {m1, k1}
FirstIns == [b \in Banks |-> [n \in Programs |->
                [sound |-> soft, blank |-> b \notin FirstBanks \/ n # 0]]]
FirstSelection == <<[bank |-> m1, program |-> 0], [bank |-> k1, program |-> 0]>>
=============================================================================
