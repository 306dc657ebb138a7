------------------------------- MODULE MCMesh -------------------------------
(* Mesh and MeshDaemon for TLC.  Ids that are drawn at random, targets and *)
(* handlers are interchangeable.                                           *)
EXTENDS MeshDaemon, TLC

MeshSymmetry ==
  Permutations(Devices) \cup Permutations(Targets) \cup Permutations(Handlers)

=============================================================================
