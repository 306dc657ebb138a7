---------------------------- MODULE MCCredentials ----------------------------
(* Credentials for TLC.  Commands and values drawn at random are           *)
(* interchangeable.                                                        *)
EXTENDS Credentials, TLC

CredentialsSymmetry ==
  Permutations(Procs) \cup Permutations(Keys) \cup Permutations(Devices)
  \cup Permutations(Seeds)

=============================================================================
