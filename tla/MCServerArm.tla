---------------------------- MODULE MCServerArm ----------------------------
(* Small instances of ServerArm for TLC.                                   *)
EXTENDS ServerArm
=============================================================================
