-------------------------- MODULE MCDeviceRegistry --------------------------
(* DeviceRegistry for TLC.  Names, tokens, handlers and the ids not yet    *)
(* handed out are interchangeable.                                         *)
EXTENDS DeviceRegistryInv, TLC

RegistrySymmetry ==
  Permutations(Names) \cup Permutations(Tokens) \cup Permutations(Handlers)
    \cup Permutations(Devices \ Seeded)

=============================================================================
