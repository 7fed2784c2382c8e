----------------------------- MODULE MCOverlay -----------------------------
(* Small instances of Overlay for TLC.                                     *)
EXTENDS Overlay, TLC

CONSTANTS p1, p2, p3

\* Two processes of one submission and one of another, which owns the same file
\* and a second one that its manifest does not list; nobody owns the third.
TwoSubmissions == (p1 :> {1}) @@ (p2 :> {1}) @@ (p3 :> {1, 2})
OneListed == (p1 :> {1}) @@ (p2 :> {1}) @@ (p3 :> {1})

OneSubmission == (p1 :> {1}) @@ (p2 :> {1})

Symmetry == Permutations({p1, p2})
=============================================================================
