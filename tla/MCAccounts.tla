------------------------------ MODULE MCAccounts ------------------------------
EXTENDS Accounts, TLC
Interchangeable == Permutations(Handlers) \cup Permutations(Workers)
=============================================================================
