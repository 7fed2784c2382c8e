------------------------------ MODULE Frontier ------------------------------
(***************************************************************************)
(* The life of results/<target>/leaderboard.json under concurrent          *)
(* `arena.py promote` and `arena.py leaderboard --init` commands.          *)
(*                                                                         *)
(* A command reads the file, builds the whole new document in memory and   *)
(* writes it with Path.write_text, which truncates the file and then fills *)
(* it.  Nothing locks the file, so the steps of two commands interleave,   *)
(* and a command can die between any two of them.  The gates cmd_promote   *)
(* checks before it touches the file are the subject of GatePipeline: here *)
(* every record in Records has passed them.                                *)
(***************************************************************************)
EXTENDS Board

CONSTANTS
    Commands,        \* processes that can run promote / leaderboard --init
    MaxPromotions,   \* bound: no promote starts after this many announcements
    MaxBaselines,    \* bound: how often `baseline` records baseline.json
    MaxCrashes       \* bound: how many commands die halfway

ASSUME BoundAssumption ==
    /\ MaxPromotions \in Nat
    /\ MaxBaselines \in Nat
    /\ MaxCrashes \in Nat

VARIABLES
    file,        \* leaderboard.json: Absent, Torn, or a board
    baseline,    \* which baseline.json is on disk; 0 when there is none
    pc,          \* command -> where it is
    mem,         \* command -> the document it is about to write
    \* What an observer of the terminal knows; no command reads these.
    announced,   \* the "promoted #n" lines printed so far, in order
    overlapped,  \* two commands have been in flight at once
    crashes      \* commands that have died in flight

vars == <<file, baseline, pc, mem, announced, overlapped, crashes>>

Absent == [state |-> "absent"]
Torn == [state |-> "torn"]       \* truncated or garbled: json.loads raises
Good(b) == [state |-> "good", board |-> b]

Files == [state : {"absent", "torn"}] \cup [state : {"good"}, board : Board]

\* "idle", "built": a promote has its document; "found-absent": init has
\* loaded and will look again; "init-built": init will write; "opened":
\* the file is truncated and not filled yet.
Places == {"idle", "built", "found-absent", "init-built",
           "opened", "init-opened"}

Init ==
    /\ file = Absent
    /\ baseline = 0
    /\ pc = [c \in Commands |-> "idle"]
    /\ mem = [c \in Commands |-> EmptyBoard(0)]
    /\ announced = << >>
    /\ overlapped = FALSE
    /\ crashes = 0

-----------------------------------------------------------------------------

InFlight == {c \in Commands : pc[c] # "idle"}

\* load_leaderboard(create=True) succeeds, and returns this document.  A torn
\* file raises in json.loads and no baseline.json dies: nothing changes then.
CanLoad == file.state = "good" \/ (file = Absent /\ baseline # 0)

\* Mutants: the file is not looked at; the origin follows the baseline.
LoadedAfresh == EmptyBoard(baseline)
LoadedOntoBaseline ==
    IF file.state = "good" THEN [file.board EXCEPT !.origin = baseline]
    ELSE EmptyBoard(baseline)

Loaded == IF file.state = "good" THEN file.board ELSE EmptyBoard(baseline)

Start(c, place, doc) ==
    /\ pc[c] = "idle"
    /\ pc' = [pc EXCEPT ![c] = place]
    /\ mem' = [mem EXCEPT ![c] = doc]
    /\ overlapped' = (overlapped \/ InFlight # {})
    /\ UNCHANGED <<file, baseline, announced, crashes>>

\* cmd_promote: read the chain, multiply the record's ratios onto it.
StartPromote(c, rec) ==
    /\ Len(announced) < MaxPromotions
    /\ CanLoad
    /\ Start(c, "built", Extend(Loaded, rec))

\* cmd_leaderboard --init: load first ...
StartInit(c) ==
    /\ CanLoad
    /\ file = Absent
    /\ Start(c, "found-absent", Loaded)

\* ... and only then ask whether the file exists.
CheckAbsent(c) ==
    /\ pc[c] = "found-absent"
    /\ pc' = [pc EXCEPT ![c] = IF file = Absent THEN "init-built" ELSE "idle"]
    /\ UNCHANGED <<file, baseline, mem, announced, overlapped, crashes>>

\* write_text opens with mode "w": the old document is gone at once.
Truncate(c) ==
    /\ pc[c] \in {"built", "init-built"}
    /\ file' = Torn
    /\ pc' = [pc EXCEPT ![c] = IF @ = "built" THEN "opened" ELSE "init-opened"]
    /\ UNCHANGED <<baseline, mem, announced, overlapped, crashes>>

\* ... and then fills it from offset 0.  Over another writer's bytes the
\* result is this document, or this document with the tail of the other.
Fill(c) ==
    /\ pc[c] \in {"opened", "init-opened"}
    /\ \/ file' = Good(mem[c])
       \/ file # Torn /\ file' = Torn
    /\ announced' = IF pc[c] = "opened"
                    THEN Append(announced, mem[c].promotions[Len(mem[c].promotions)])
                    ELSE announced
    /\ pc' = [pc EXCEPT ![c] = "idle"]
    /\ UNCHANGED <<baseline, mem, overlapped, crashes>>

\* The command is killed.  What it has done to the file stays done.
Crash(c) ==
    /\ crashes < MaxCrashes
    /\ pc[c] # "idle"
    /\ pc' = [pc EXCEPT ![c] = "idle"]
    /\ crashes' = crashes + 1
    /\ UNCHANGED <<file, baseline, mem, announced, overlapped>>

\* `arena.py baseline` replaces baseline.json.
Rebaseline ==
    /\ baseline < MaxBaselines
    /\ baseline' = baseline + 1
    /\ UNCHANGED <<file, pc, mem, announced, overlapped, crashes>>

Next ==
    \/ Rebaseline
    \/ \E c \in Commands :
         \/ \E rec \in Records : StartPromote(c, rec)
         \/ StartInit(c)
         \/ CheckAbsent(c)
         \/ Truncate(c)
         \/ Fill(c)
         \/ Crash(c)

Spec == Init /\ [][Next]_vars

-----------------------------------------------------------------------------
(* Properties                                                              *)

TypeOK ==
    /\ file \in Files
    /\ baseline \in 0..MaxBaselines
    /\ pc \in [Commands -> Places]
    /\ mem \in [Commands -> Board]
    /\ announced \in Seq(Promotion)
    /\ overlapped \in BOOLEAN
    /\ crashes \in 0..MaxCrashes

\* However commands interleave and wherever they die, a leaderboard.json that
\* parses is one consistent chain: numbered without gaps, every cumulative
\* number the product of the ratios before it, "current" its end
\* (cmd_promote rewrites the whole document, arena.py:1496-1580).
ChainConsistent == file.state = "good" => WellFormed(file.board)

\* One command at a time so far, and each has come to its end.
Disciplined == ~overlapped /\ crashes = 0

\* Commands that ran one after another, none killed, lose nothing: the file
\* holds exactly the promotions that were announced, in that order.
SerialDurability ==
    Disciplined /\ InFlight = {} =>
        /\ file # Torn
        /\ file = Absent => announced = << >>
        /\ file.state = "good" => file.board.promotions = announced

\* The points solvers are credited with ("addedPct") add up to the headline
\* ("percentFaster"), up to the rounding of each entry: arena.py:1541-1546
\* picks the difference of cumulatives over the ratio for this reason.
HeadlineTelescopes ==
    file.state = "good" =>
        LET ps == file.board.promotions
            n == Len(ps)
            credited[i \in 0..n] ==
                IF i = 0 THEN 0 ELSE credited[i - 1] + ps[i].added
            off == ps[n].percent - credited[n]
        IN  n > 0 => /\ 2 * PCT * off <= (n + 1) * (PCT + 1)
                     /\ -(2 * PCT * off) <= (n + 1) * (PCT + 1)

\* The board a reader gets once the command that is filling it is done: the
\* truncation is where a promotion takes effect.
View ==
    IF file.state = "good" THEN file.board
    ELSE IF \E c \in Commands : pc[c] \in {"opened", "init-opened"}
         THEN mem[CHOOSE c \in Commands : pc[c] \in {"opened", "init-opened"}]
         ELSE EmptyBoard(0)

Chain == INSTANCE PromotionChain WITH chain <- View, disciplined <- Disciplined

\* The file keeps the promise of PromotionChain: as long as commands run one at
\* a time and end, the origin is chosen once and the chain only grows
\* (arena.py:1496-1580), whatever was re-recorded in between.
KeepsTheChain == Chain!Spec
=============================================================================
