----------------------------- MODULE MCAttempt -----------------------------
(* Small instances of Attempt for TLC.                                     *)
EXTENDS Attempt

\* A patch that does nothing, one that changes an output, one that changes an
\* output a probe does not look at and gains nothing, and one that wins.
MCPatches == {"inert", "alters", "subtle", "wins"}
MCPrompts == <<"t1", "t2", "t3">>
MCChanges == [p \in MCPatches |->
    CASE p = "alters" -> {"t2"}
      [] p = "subtle" -> {"t3"}
      [] OTHER        -> {}]
MCDispatch == {"subtle", "wins"}
MCFaster == {"wins"}
MCPromotable == {"wins"}
=============================================================================
