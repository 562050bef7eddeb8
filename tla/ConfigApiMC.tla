------------------------------ MODULE ConfigApiMC ------------------------------
(* Values for the run of ConfigApi: an environment in which live trading   *)
(* is on and no account is set, and what may be exchanged.                 *)
EXTENDS ConfigApi, TLC

LiveWithoutAccount == [s \in Settings |-> IF s = "enabled" THEN "true" ELSE ""]

Interchangeable ==
    Permutations(Handlers) \cup Permutations(Credentials) \cup Permutations(MasterKeys)
=============================================================================
