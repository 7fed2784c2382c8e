--------------------------- MODULE MCImageCluster ---------------------------
(* Small instances of ImageCluster for TLC.                                *)
EXTENDS ImageCluster
=============================================================================
