------------------------------- MODULE Board -------------------------------
(***************************************************************************)
(* The document leaderboard.json of one target, and the two operations     *)
(* that build it: load_leaderboard's empty board and cmd_promote's append. *)
(*                                                                         *)
(* Ratios and cumulative speedups are fixed-point integers: GRID stands    *)
(* for 1.0 (the code keeps 5 decimals, GRID = 10^5), and percentages are   *)
(* kept on a grid PCT times coarser (the code: 2 decimals of a percent,    *)
(* PCT = 10).  Tok/s, authors, notes and times are left out: no property   *)
(* below depends on them.                                                  *)
(***************************************************************************)
EXTENDS Integers, Sequences

CONSTANTS
    Records,          \* the bench records that may be promoted
    DecodeSpeedup,    \* record -> "decodeSpeedup", on the grid
    PrefillSpeedup,   \* record -> "prefillSpeedup", on the grid
    GRID,             \* the fixed-point 1.0
    PCT               \* cumulative grid steps per percentage step

ASSUME GridAssumption ==
    /\ GRID \in Nat \ {0}
    /\ PCT \in Nat \ {0}

ASSUME SpeedupAssumption ==
    /\ DecodeSpeedup \in [Records -> Nat]
    /\ PrefillSpeedup \in [Records -> Nat]

\* Python's round(): to the nearest, ties to the even neighbour, of a / b.
RoundDiv(a, b) ==
    LET q == a \div b
        twice == 2 * (a % b)
    IN  IF twice > b \/ (twice = b /\ q % 2 = 1) THEN q + 1 ELSE q

Promotion == [seq : Nat, record : Records, decode : Nat, prefill : Nat,
              percent : Int, added : Int]

Board == [origin : Nat,
          promotions : Seq(Promotion),
          current : [decode : Nat, prefill : Nat, count : Nat]]

\* load_leaderboard(create=True) when no file exists: the frontier starts at
\* the baseline recorded as `origin`.
EmptyBoard(origin) ==
    [origin |-> origin,
     promotions |-> << >>,
     current |-> [decode |-> GRID, prefill |-> GRID, count |-> 0]]

\* "addedPct": the difference of the cumulatives, in percentage steps.
AddedFromRatio(before, decode) == RoundDiv(decode \div before - GRID, PCT)  \* mutant

Added(before, decode) == RoundDiv(decode - before * GRID, GRID * PCT)

\* The entry cmd_promote appends.  The products are exact here, as they are
\* (to a double) in the code until each field rounds them on its own grid.
NextPromotion(b, rec) ==
    LET decode == b.current.decode * DecodeSpeedup[rec]
        prefill == b.current.prefill * PrefillSpeedup[rec]
    IN  [seq |-> Len(b.promotions) + 1,
         record |-> rec,
         decode |-> RoundDiv(decode, GRID),
         prefill |-> RoundDiv(prefill, GRID),
         percent |-> RoundDiv(decode - GRID * GRID, GRID * PCT),
         added |-> Added(b.current.decode, decode)]

\* Mutants: "current" is forgotten; the entry is written without its document.
ExtendKeepingCurrent(b, rec) == [b EXCEPT !.promotions = Append(@, NextPromotion(b, rec))]
EntryOnly(b, rec) == NextPromotion(b, rec)

\* cmd_promote's update of the whole document: the entry and "current".
Extend(b, rec) ==
    LET p == NextPromotion(b, rec)
    IN  [origin |-> b.origin,
         promotions |-> Append(b.promotions, p),
         current |-> [decode |-> p.decode, prefill |-> p.prefill, count |-> p.seq]]

-----------------------------------------------------------------------------
(* What a document written by these operations looks like.                 *)

\* The cumulative speedups the i-th promotion started from.
Before(b, i) ==
    IF i = 1 THEN [decode |-> GRID, prefill |-> GRID]
    ELSE [decode |-> b.promotions[i - 1].decode,
          prefill |-> b.promotions[i - 1].prefill]

\* Sequence numbers are positions, every cumulative number is the product of
\* the paired ratios up to it, and "current" is the end of that chain.
WellFormed(b) ==
    LET n == Len(b.promotions)
        end == Before(b, n + 1)
    IN  /\ b.current = [decode |-> end.decode, prefill |-> end.prefill, count |-> n]
        /\ \A i \in 1..n :
             /\ b.promotions[i].seq = i
             /\ b.promotions[i].decode =
                  RoundDiv(Before(b, i).decode * DecodeSpeedup[b.promotions[i].record], GRID)
             /\ b.promotions[i].prefill =
                  RoundDiv(Before(b, i).prefill * PrefillSpeedup[b.promotions[i].record], GRID)
=============================================================================
