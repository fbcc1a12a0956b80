------------------------------ MODULE MCCopies ------------------------------
(* What is kept in several places, each kind by itself on a small          *)
(* instance: the player's settings as wholes and field by field, the       *)
(* parameters of a bank, and the programs the editor and the worker copy.  *)
EXTENDS MCBanks, MCPlayerSettings, GlobalParameters, ChipControls

VARIABLE kind

\* The resamplings are told apart by nothing.
SameDesigns == Permutations({d1, d2})

copies_vars == <<kind, all_vars, settingsVars, globalVars, chipVars>>

NoneSet == [g \in Globals |-> 0]
PlainChip == [emulator |-> 0, count |-> 1, fourop |-> 0, type |-> 0, alloc |-> -1]

\* Two projects no parameters hold, with too much of everything and with too little.
SomeProjects == {[emulator |-> 1, count |-> 9, fourop |-> 9, type |-> 9, alloc |-> 9],
                 [emulator |-> 3, count |-> -1, fourop |-> 2, type |-> 1, alloc |-> -9]}

\* What is not the kind in question is in one of its initial states.
CopiesInit ==
    /\ kind \in {"settings", "chip", "globals", "programs"}
    /\ SettingsInit /\ (kind = "settings" \/ (params = opn2 /\ ~changed))
    /\ ChipInit
    /\ GlobalInit
    /\ BanksInit /\ (kind = "programs" \/ client = "editor")

\* The other kinds stay in the state they are in.
OthersStill(mine) ==
    /\ kind = mine /\ kind' = kind
    /\ mine # "settings" => UNCHANGED settingsVars
    /\ mine # "chip" => UNCHANGED chipVars
    /\ mine # "globals" => UNCHANGED globalVars
    /\ mine # "programs" => UNCHANGED all_vars

CopiesNext ==
    \/ OthersStill("settings") /\ SettingsNext
    \/ OthersStill("chip") /\ ChipNext
    \/ OthersStill("globals") /\ GlobalNext
    \/ OthersStill("programs") /\ BanksNext

CopiesSpec == CopiesInit /\ [][CopiesNext]_copies_vars
=============================================================================
