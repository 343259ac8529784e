------------------------------ MODULE MCDeviceAuth ------------------------------
(* Symmetry for model-checking DeviceAuth: requests of one kind are           *)
(* interchangeable.                                                           *)
EXTENDS DeviceAuth, TLC

Symmetry ==
    Permutations(Emails) \cup Permutations(Logins) \cup Permutations(PinSets)
=============================================================================
