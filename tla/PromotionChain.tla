--------------------------- MODULE PromotionChain ---------------------------
(***************************************************************************)
(* What a leaderboard promises, whatever files and processes keep it: an   *)
(* origin that is fixed once it is chosen and a chain of promotions that   *)
(* only ever grows, one entry at a time.  The promise is made to operators *)
(* who run one command at a time and let it end; it is void from the step  *)
(* on in which they do not.                                                *)
(***************************************************************************)
EXTENDS Board

CONSTANT MaxBaselines   \* how many baselines are ever recorded (a bound)

VARIABLES
    chain,        \* the published board, or Unpublished
    disciplined   \* no command has overlapped another or been killed

Unpublished == EmptyBoard(0)   \* baselines are numbered from 1

Init == chain = Unpublished /\ disciplined = TRUE

\* The chart exists before there is anything to plot.
Publish ==
    /\ chain = Unpublished
    /\ \E o \in 1..MaxBaselines : chain' = EmptyBoard(o)

\* One record joins the chain; the first one may also found it.
Promote ==
    \E rec \in Records :
      \/ /\ chain # Unpublished
         /\ chain' = Extend(chain, rec)
      \/ /\ chain = Unpublished
         /\ \E o \in 1..MaxBaselines : chain' = Extend(EmptyBoard(o), rec)

Next ==
    \/ /\ disciplined = TRUE /\ disciplined' = TRUE
       /\ Publish \/ Promote
    \/ disciplined' = FALSE

Spec == Init /\ [][Next]_<<chain, disciplined>>
=============================================================================
