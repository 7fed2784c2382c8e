----------------------------- MODULE MCFrontier -----------------------------
(* Small instances of Frontier for TLC.                                    *)
EXTENDS Frontier, TLC

CONSTANTS c1, c2, win, small

\* On a grid of 1000: a x1.203 win, and a x1.017 win that costs some prefill.
MCRecords == {win, small}
MCDecode == (win :> 1203) @@ (small :> 1017)
MCPrefill == (win :> 1000) @@ (small :> 989)
=============================================================================
