------------------------------ MODULE MCRayArm ------------------------------
(* A head and one worker for TLC; the instance is in the .cfg.             *)
EXTENDS RayArm
=============================================================================
