---------------------------- MODULE MCAdminAuth ----------------------------
(* AdminAuth for TLC.  Passwords and handlers are interchangeable; ids are *)
(* drawn in a fixed order already.                                         *)
EXTENDS AdminAuth, TLC

AuthSymmetry == Permutations(Handlers) \cup Permutations(Passwords)

=============================================================================
