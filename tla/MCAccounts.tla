----------------------------- MODULE MCAccounts -----------------------------
(***************************************************************************)
(* Small instances of Accounts for TLC.                                    *)
(***************************************************************************)
EXTENDS Accounts, TLC

AllScopes == {{"all:any", "tokens:refresh"}}
Interchangeable == Permutations(Servers) \cup Permutations(Clients)
=============================================================================
