------------------------------ MODULE MCFiles ------------------------------
(* The bank manager with another of its clients: the files and dialogs of  *)
(* the editor.                                                             *)
EXTENDS MCBanks, BankFiles

PlainNew == [instrument |-> Plain, name |-> n0]

\* Files from elsewhere, with the other half of an entry and another bank; in one of them
\* all programs of that bank are blank.
TwoBanks ==
    {[banks |-> [b \in {p1, m2} |->
                    [name |-> n1,
                     ins |-> [p \in (IF b = p1 THEN {0} ELSE P) |->
                                 [instrument |-> Plain, name |-> n1]]]],
      there |-> <<>>] : P \in {{}, {0}}}

clients_vars == <<all_vars, fileVars>>

\* Of the other clients there is one initial state for each program that is selected.
ClientsInit ==
    /\ BanksInit /\ FilesInit
    /\ client = "files" \/ box = <<m1, 0>>

ClientsNext ==
    \/ BanksNext /\ UNCHANGED fileVars
    \/ client = "files" /\ client' = client /\ FilesNext /\ NoWorker

ClientsSpec == ClientsInit /\ [][ClientsNext]_clients_vars

\* A program that goes is one the user was told would go (GoesAsConfirmed of BankFiles,
\* for the dialogs, send_bank_file and handle_message), where no other client is there.
OnlyWhatWasConfirmedGoes == [][client = "files" => GoesAsConfirmed]_clients_vars
=============================================================================
