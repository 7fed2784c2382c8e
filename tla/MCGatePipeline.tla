--------------------------- MODULE MCGatePipeline ---------------------------
(* Small instances of GatePipeline for TLC.                                *)
EXTENDS GatePipeline, TLC

CONSTANTS here, away, t1, t2, t3, t4, h1, h2, pa, pb

\* A real win, a bigger real win, a win that lives on the target's prompts
\* only, a win that changes an unseen output, one that changes a known one,
\* and a decode win that costs too much prefill.
AllContents == {"honest", "better", "narrow", "drifts", "alters", "lopsided"}

MCSpeed == [c \in AllContents |->
    CASE c = "honest"   -> [decode |-> 110, prefill |-> 100, heldDecode |-> 108]
      [] c = "better"   -> [decode |-> 120, prefill |-> 102, heldDecode |-> 118]
      [] c = "narrow"   -> [decode |-> 140, prefill |-> 100, heldDecode |-> 110]
      [] c = "drifts"   -> [decode |-> 120, prefill |-> 100, heldDecode |-> 120]
      [] c = "alters"   -> [decode |-> 130, prefill |-> 100, heldDecode |-> 130]
      [] c = "lopsided" -> [decode |-> 112, prefill |->  90, heldDecode |-> 112]]

MCChanges == [c \in AllContents |->
    CASE c = "drifts" -> {h1}
      [] c = "alters" -> {t1}
      [] OTHER        -> {}]

\* Nodes differ only in what they hold, and so do patch names.
Alike == Permutations(Nodes) \cup Permutations(Patches)
=============================================================================
