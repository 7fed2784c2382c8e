---------------------------- MODULE GatePipeline ----------------------------
(***************************************************************************)
(* The gates between a patch and the frontier of one target, and the       *)
(* commands that apply them: `baseline` records the goldens, `bench` runs  *)
(* gates 1, 2 and 4 on paired arms, `heldout` runs gate 3, and `promote`   *)
(* checks the two records and appends to the chain.                        *)
(*                                                                         *)
(* Each node has its own checkout and compile cache and runs one measuring *)
(* command at a time, boot by boot; its patches/ directory can be edited,  *)
(* and its cache lost, between any two boots, because a boot reads both.   *)
(* Gate 1 is assumed to pass (one pinned wheel); the file steps of promote *)
(* are the subject of Frontier.                                            *)
(***************************************************************************)
EXTENDS Integers, Sequences, FiniteSets

CONSTANTS
    Nodes,
    Patches,         \* names under patches/
    Contents,        \* what such a directory can hold
    Stock,           \* what a baseline arm boots: no patch beyond patchRequired
    Prompts,         \* the target's prompt set
    HeldOut,         \* the prompts one held-out seed generates
    Knife,           \* prompts whose greedy output can flip between two boots
    KnownUnstable,   \* the target's knownUnstablePrompts
    Shipped,         \* prompts with a golden in the repository's goldens.json
    Changes,         \* content -> prompts whose output it changes
    Speed,           \* content -> its speedup over stock, on the GRID:
                     \*   decode and prefill on Prompts, heldDecode on HeldOut
    Repeats,         \* boots of `baseline` (the code: 4)
    BenchPairs,      \* pairs of `bench` (the contract: 2)
    HeldPairs,       \* pairs of `heldout` (the code: 1)
    GRID, PCT,       \* see Board
    FLOOR,           \* scoring.floor, on the grid
    TOLERANCE,       \* gate 3's tolerance, on the grid
    MaxPromotions,   \* bound: length of the chain
    MaxRecords,      \* bound: different records on disk when a command starts
    MaxBaselines,    \* bound: `baseline` commands over a behaviour
    MaxRunning,      \* bound: commands in progress at the same time
    MaxIncidents     \* bound: edits of patches/ and losses of a cache, together

ASSUME PipelineAssumption ==
    /\ Stock \notin Contents
    /\ Prompts \cap HeldOut = {}
    /\ Knife \subseteq Prompts \cup HeldOut
    /\ KnownUnstable \subseteq Prompts
    /\ Shipped \subseteq Prompts /\ Shipped # {}
    /\ \A c \in Contents :
         /\ Changes[c] \subseteq Prompts \cup HeldOut
         /\ Speed[c] \in [decode : Nat, prefill : Nat, heldDecode : Nat]
    /\ Repeats \in Nat \ {0}
    /\ {BenchPairs, HeldPairs} \subseteq {1, 2}
    /\ {GRID, FLOOR, TOLERANCE, MaxBaselines, MaxIncidents} \subseteq Nat

VARIABLES
    patches,    \* node -> patch name -> content
    warm,       \* nodes whose VLLM_CACHE_ROOT holds the compiled kernels
    goldens,    \* node -> goldens.json
    run,        \* node -> the command in progress, or Idle
    benches,    \* bench records written so far
    helds,      \* held-out records written so far
    board,      \* leaderboard.json
    history,    \* what was promoted: record, held-out record, node, --force
    baselines, incidents    \* how many there were so far

bounds == <<baselines, incidents>>
records == <<benches, helds>>
chain == <<board, history>>
vars == <<patches, warm, goldens, run, records, chain, bounds>>

\* goldens.json: screened prompt -> output, when it is there and whole.
Absent == [state |-> "absent", prompts |-> << >>]
Torn == [state |-> "torn", prompts |-> << >>]
Good(outputs) == [state |-> "good", prompts |-> outputs]

NoRecord == [kind |-> "none"]
Idle == [cmd |-> "idle", arms |-> << >>]

-----------------------------------------------------------------------------
(* Arms: one boot of the server over a prompt set.                         *)

\* A boot of `content` in which the knife-edge prompts in `flipped` took the
\* rare one of their two outputs, on a "cold" or a "warm" compile cache.
Arm(content, flipped, cache) ==
    [content |-> content, flipped |-> flipped, cache |-> cache]

\* The sha256 an arm reports for a prompt.  A cold cache changes the kernels
\* that are selected, and with them every output (arena.py:1155-1159).
Output(arm, p) ==
    [text |-> IF arm.content # Stock /\ p \in Changes[arm.content]
              THEN arm.content ELSE Stock,
     side |-> IF p \in arm.flipped THEN "rare" ELSE "usual",
     cache |-> arm.cache]

Agree(a, b, prompts) == \A p \in prompts : Output(a, p) = Output(b, p)

\* _paired appends baseline, candidate, baseline, candidate, ...
Baselines(arms) == {arms[i] : i \in {j \in 1..Len(arms) : j % 2 = 1}}
Candidates(arms) == {arms[i] : i \in {j \in 1..Len(arms) : j % 2 = 0}}
LastArm(arms) == arms[Len(arms)]            \* mutant: base_rows of all arms
LastBaseline(arms) == arms[Len(arms) - 1]

\* The contents that served the candidate arms.
Booted(arms) == {a.content : a \in Candidates(arms)}

\* statistics.median of one axis of the per-pair ratios, for one or two pairs
\* (the contract runs two): the middle, or the mean of the two.
Median(arms, axis) ==
    LET ratio(i) == Speed[arms[2 * i].content][axis]
    IN  IF Len(arms) = 2 THEN ratio(1) ELSE (ratio(1) + ratio(2)) \div 2

\* decode^0.75 * prefill^0.25, raised to the fourth power to stay integer.
Score4(decode, prefill) == decode * decode * decode * prefill
One4 == GRID * GRID * GRID * GRID

-----------------------------------------------------------------------------
(* Records.                                                                *)

\* Mutant: only the last arm is compared.
LastDiffering(arms, gold) ==
    {p \in DOMAIN gold : Output(arms[Len(arms)], p) # gold[p]}

\* Gate 2 as bench applies it: candidate arms against goldens.json, prompts
\* without a golden unexamined.
Differing(arms, gold) ==
    {p \in DOMAIN gold : \E a \in Candidates(arms) : Output(a, p) # gold[p]}

\* `seen` is history, for the properties alone: what the arms really were.
BenchRecord(n, r) ==
    LET decode == Median(r.arms, "decode")
        prefill == Median(r.arms, "prefill")
        differing == Differing(r.arms, r.gold)
        floors == decode >= FLOOR /\ prefill >= FLOOR
    IN  [kind |-> "bench", node |-> n, patch |-> r.patch,
         pairs |-> Len(r.arms) \div 2, decode |-> decode, prefill |-> prefill,
         identity |-> differing = {}, floors |-> floors,
         promotable |-> /\ differing = {}
                        /\ floors
                        /\ Score4(decode, prefill) > One4,
         seen |-> [booted |-> Booted(r.arms),
                   differing |-> differing,
                   examined |-> DOMAIN r.gold,
                   warm |-> \A a \in Candidates(r.arms) : a.cache = "warm",
                   likeBaseline |-> \A a \in Candidates(r.arms), b \in Baselines(r.arms) :
                       a.cache = b.cache => Agree(a, b, (DOMAIN r.gold) \ Knife)]]

\* Mutant: any gain will do.
GainsAtAll(decode, claim) == decode > GRID

\* The fraction of the claimed gain that has to reproduce, when there is a
\* claim above 1.0.
Generalizes(decode, claim) ==
    claim > GRID => (decode - GRID) * GRID >= (claim - GRID) * TOLERANCE

\* Gate 3: candidates against the last pair's baseline, and the gain.
HeldRecord(n, r) ==
    LET decode == Median(r.arms, "heldDecode")
        identical == \A a \in Candidates(r.arms) : Agree(a, LastBaseline(r.arms), HeldOut)
        generalizes == Generalizes(decode, r.claim)
    IN  [kind |-> "heldout", node |-> n, patch |-> r.patch, claim |-> r.claim,
         decode |-> decode, identical |-> identical, generalizes |-> generalizes,
         passed |-> identical /\ generalizes,
         seen |-> [booted |-> Booted(r.arms)]]

\* The leaderboard document, over whatever bench records exist.
B == INSTANCE Board WITH
        Records <- benches,
        DecodeSpeedup <- [r \in benches |-> r.decode],
        PrefillSpeedup <- [r \in benches |-> r.prefill]

Init ==
    /\ patches \in [Nodes -> [Patches -> Contents]]
    /\ \A m, n \in Nodes : patches[m] = patches[n]      \* clones of one commit
    /\ warm = Nodes                     \* a fresh node: EvictCache first
    \* One target has its goldens in the repository, a new one has none yet.
    /\ \E gold \in {Good([p \in Shipped |-> Output(Arm(Stock, {}, "warm"), p)]), Absent} :
         goldens = [n \in Nodes |-> gold]
    /\ run = [n \in Nodes |-> Idle]
    /\ benches = {}
    /\ helds = {}
    /\ board = B!EmptyBoard(1)
    /\ history = << >>
    /\ baselines = 0 /\ incidents = 0

-----------------------------------------------------------------------------
(* Actions.                                                                *)

\* The contributor changes what patches/<p> holds in the checkout of n.
EditPatch(n, p) ==
    /\ incidents < MaxIncidents
    /\ \E c \in Contents \ {patches[n][p]} :
         patches' = [patches EXCEPT ![n][p] = c]
    /\ incidents' = incidents + 1
    /\ UNCHANGED <<warm, goldens, run, records, chain, baselines>>

\* The compile cache of n is deleted.
EvictCache(n) ==
    /\ incidents < MaxIncidents
    /\ n \in warm
    /\ warm' = warm \ {n}
    /\ incidents' = incidents + 1
    /\ UNCHANGED <<patches, goldens, run, records, chain, baselines>>

\* `warm`: one boot over every prompt, whose results are thrown away.
Warm(n) ==
    /\ run[n] = Idle
    /\ warm' = warm \cup {n}
    /\ UNCHANGED <<patches, goldens, run, records, chain, bounds>>

Running == {n \in Nodes : run[n] # Idle}

Begin(n, command) ==
    /\ run[n] = Idle
    /\ Cardinality(Running) < MaxRunning
    /\ run' = [run EXCEPT ![n] = command]
    /\ UNCHANGED <<patches, warm, goldens, records, chain, incidents>>

StartBaseline(n) ==
    /\ baselines < MaxBaselines
    /\ baselines' = baselines + 1
    /\ Begin(n, [cmd |-> "baseline", arms |-> << >>])

RecordsOnDisk == Cardinality(benches) + Cardinality(helds)

\* Mutant: a goldens.json that does not parse counts as none.
StartBenchAnyway(n, p) ==
    /\ RecordsOnDisk < MaxRecords
    /\ Begin(n, [cmd |-> "bench", patch |-> p, gold |-> goldens[n].prompts, arms |-> << >>])
    /\ UNCHANGED baselines

\* `bench` reads goldens.json before its first arm; a missing file is no
\* goldens at all, a torn one raises in json.loads.
StartBench(n, p) ==
    /\ RecordsOnDisk < MaxRecords
    /\ goldens[n].state # "torn"
    /\ Begin(n, [cmd |-> "bench", patch |-> p, gold |-> goldens[n].prompts, arms |-> << >>])
    /\ UNCHANGED baselines

\* The claims an operator can type: the decode speedup of a bench record of
\* this patch, or none (0).
Claims(p) == {0} \cup {r.decode : r \in {b \in benches : b.patch = p}}

StartHeldout(n, p) ==
    /\ RecordsOnDisk < MaxRecords
    /\ \E claim \in Claims(p) :
         Begin(n, [cmd |-> "heldout", patch |-> p, claim |-> claim, arms |-> << >>])
    /\ UNCHANGED baselines

ArmsOf(cmd) ==
    CASE cmd = "baseline" -> Repeats
      [] cmd = "bench"    -> 2 * BenchPairs
      [] cmd = "heldout"  -> 2 * HeldPairs
      [] OTHER            -> 0

NextIsCandidate(r) == r.cmd # "baseline" /\ Len(r.arms) % 2 = 1

\* The prompts of the next arm whose hash will be looked at: none of a boot
\* that is discarded or of a baseline arm of bench.
Watched(r) ==
    CASE r.cmd = "heldout" -> HeldOut
      [] r.cmd = "bench" /\ NextIsCandidate(r) -> DOMAIN r.gold
      [] r.cmd = "baseline" /\ r.arms # << >> -> Prompts \ KnownUnstable
      [] OTHER -> {}

Cache(n) == IF n \in warm THEN "warm" ELSE "cold"

\* run_arm: the server boots with what the patch directory and the cache hold
\* now, every prompt goes through it, and the cache is warm from then on.
RunArm(n) ==
    /\ Len(run[n].arms) < ArmsOf(run[n].cmd)
    /\ LET content == IF NextIsCandidate(run[n]) THEN patches[n][run[n].patch] ELSE Stock
       IN  \E flipped \in SUBSET (Knife \cap Watched(run[n])) :
             run' = [run EXCEPT ![n].arms = Append(@, Arm(content, flipped, Cache(n)))]
    /\ warm' = warm \cup {n}
    /\ UNCHANGED <<patches, goldens, records, chain, bounds>>

\* The command dies or is killed: no record, and what it had begun to write
\* stays as it is.
Abort(n) ==
    /\ run[n] # Idle
    /\ run' = [run EXCEPT ![n] = Idle]
    /\ UNCHANGED <<patches, warm, goldens, records, chain, bounds>>

ArmsDone(n, cmd) == run[n].cmd = cmd /\ Len(run[n].arms) = ArmsOf(cmd)

\* Boot 0 is discarded when there is another.
Kept(arms) == IF Len(arms) > 1 THEN Tail(arms) ELSE arms

Unanimous(arms, p) == \A i \in 1..Len(arms) : Output(arms[i], p) = Output(arms[1], p)

\* Mutant: the outputs of the discarded boot.
ScreenedFromBoot0(arms) ==
    [p \in {q \in Prompts \ KnownUnstable : Unanimous(Kept(arms), q)} |->
        Output(arms[1], p)]

\* A prompt gets a golden when the boots that count agree on it and no flip of
\* it is on record.
Screened(arms) ==
    [p \in {q \in Prompts \ KnownUnstable : Unanimous(Kept(arms), q)} |->
        Output(Kept(arms)[1], p)]

\* `baseline` after its last boot: fewer than two survivors die; otherwise
\* write_text opens goldens.json and truncates it ...
ScreenBaseline(n) ==
    /\ ArmsDone(n, "baseline")
    /\ LET outputs == Screened(run[n].arms)
       IN  IF Cardinality(DOMAIN outputs) < 2
           THEN run' = [run EXCEPT ![n] = Idle] /\ UNCHANGED goldens
           ELSE /\ goldens' = [goldens EXCEPT ![n] = Torn]
                /\ run' = [run EXCEPT ![n] = [cmd |-> "recording", outputs |-> outputs, arms |-> << >>]]
    /\ UNCHANGED <<patches, warm, records, chain, bounds>>

\* ... and fills it (baseline.json, written next, is read by no gate).
RecordGoldens(n) ==
    /\ run[n].cmd = "recording"
    /\ goldens' = [goldens EXCEPT ![n] = Good(run[n].outputs)]
    /\ run' = [run EXCEPT ![n] = Idle]
    /\ UNCHANGED <<patches, warm, records, chain, bounds>>

\* Mutant: a bench that lost its second pair writes what it has.
FinishBenchShort(n) ==
    /\ run[n].cmd = "bench"
    /\ Len(run[n].arms) = 2
    /\ benches' = benches \cup {BenchRecord(n, run[n])}
    /\ run' = [run EXCEPT ![n] = Idle]
    /\ UNCHANGED <<patches, warm, goldens, helds, chain, bounds>>

\* All arms are in: judge them and write the record.
FinishBench(n) ==
    /\ ArmsDone(n, "bench")
    /\ benches' = benches \cup {BenchRecord(n, run[n])}
    /\ run' = [run EXCEPT ![n] = Idle]
    /\ UNCHANGED <<patches, warm, goldens, helds, chain, bounds>>

FinishHeldout(n) ==
    /\ ArmsDone(n, "heldout")
    /\ helds' = helds \cup {HeldRecord(n, run[n])}
    /\ run' = [run EXCEPT ![n] = Idle]
    /\ UNCHANGED <<patches, warm, goldens, benches, chain, bounds>>

\* Mutant: a record from anywhere.
AnyNode(n, rec, force) == TRUE

\* require_local_node.  It also lets a record without a node through; every
\* record written here has one.
Local(n, rec, force) == rec.node = n \/ force

\* The held-out record has passed and is about this patch.
Fits(rec, held) ==
    /\ held.passed
    /\ held.patch = rec.patch
    /\ held.generalizes

\* Every check of cmd_promote, on node n.  --force excuses a failed gate, a
\* foreign node and a missing held-out record; it does not excuse a held-out
\* record that is there and does not fit.
CanPromote(n, rec, held, force) ==
    /\ rec.promotable \/ force
    /\ Local(n, rec, force)
    /\ \/ held = NoRecord /\ force
       \/ /\ held # NoRecord
          /\ Local(n, held, force)
          /\ Fits(rec, held)

Promote(n, rec, held, force) ==
    /\ Len(history) < MaxPromotions
    /\ Cardinality(Running) < MaxRunning
    /\ CanPromote(n, rec, held, force)
    /\ board' = B!Extend(board, rec)
    /\ history' = Append(history, [record |-> rec, held |-> held, node |-> n, force |-> force])
    /\ UNCHANGED <<patches, warm, goldens, run, records, bounds>>

Next ==
    \E n \in Nodes :
      \/ \E p \in Patches : EditPatch(n, p)
      \/ EvictCache(n)
      \/ Warm(n)
      \/ StartBaseline(n)
      \/ \E p \in Patches : StartBench(n, p)
      \/ \E p \in Patches : StartHeldout(n, p)
      \/ RunArm(n)
      \/ Abort(n)
      \/ ScreenBaseline(n)
      \/ RecordGoldens(n)
      \/ FinishBench(n)
      \/ FinishHeldout(n)
      \/ \E rec \in benches, held \in helds \cup {NoRecord}, force \in BOOLEAN :
           Promote(n, rec, held, force)

Spec == Init /\ [][Next]_vars

-----------------------------------------------------------------------------
(* Properties.                                                             *)

Promoted == {history[i] : i \in 1..Len(history)}

TypeOK ==
    /\ patches \in [Nodes -> [Patches -> Contents]]
    /\ warm \subseteq Nodes
    /\ \A n \in Nodes : /\ goldens[n].state \in {"absent", "torn", "good"}
                        /\ DOMAIN goldens[n].prompts \subseteq Prompts
    /\ \A n \in Nodes : run[n].cmd \in {"idle", "baseline", "recording", "bench", "heldout"}
    /\ \A r \in benches : r.kind = "bench" /\ r.node \in Nodes /\ r.pairs = BenchPairs
    /\ \A r \in helds : r.kind = "heldout" /\ r.node \in Nodes
    /\ Len(history) = board.current.count
    /\ baselines \in 0..MaxBaselines /\ incidents \in 0..MaxIncidents

\* Without --force, both measurements behind a promotion were made on the
\* promoting node, for one patch name, and every gate they carry was passed
\* (arena.py:1443-1494); with --force a held-out record still has to fit.
PromotionsAreBacked ==
    \A h \in Promoted :
        /\ h.held # NoRecord => h.held.passed /\ h.held.patch = h.record.patch
        /\ ~h.force =>
             /\ h.record.node = h.node
             /\ h.record.identity /\ h.record.floors
             /\ h.held # NoRecord /\ h.held.node = h.node

\* Gate 3 verified the content that was benched.  promote compares names, so
\* this is the operator's to see to (arena.py:1476).
SameContent(h) == h.held.seen.booted = h.record.seen.booted

\* "the speedup has to reproduce to within 50% of the claimed gain"
\* (README.md:82-83): what is promoted unforced, with the benched content
\* verified and the benched speedup claimed, keeps that fraction of its
\* published decode speedup on unseen prompts.
PromotedGeneralizes ==
    \A h \in Promoted : ~h.force /\ h.record.decode > GRID =>
        (SameContent(h) /\ h.held.claim >= h.record.decode =>
            \A c \in h.record.seen.booted :
                (Speed[c].heldDecode - GRID) * GRID >= (h.record.decode - GRID) * TOLERANCE)

\* What is promoted unforced, with the benched content verified, leaves alone
\* the output of every prompt that is not on a knife edge: those its bench had
\* goldens for and those of gate 3.
PromotedKeepsTokens ==
    \A h \in Promoted : ~h.force => (SameContent(h) =>
        \A c \in h.record.seen.booted :
            Changes[c] \cap (h.record.seen.examined \cup HeldOut) \subseteq Knife)

\* "Candidate output is byte-identical to the baseline arm on the target's
\* prompts" (benchmark.json:86): the goldens stand in for the baseline arms
\* of the session, for the prompts that have one and whose output is stable,
\* whatever was re-recorded, edited or evicted between the arms.
IdentityIsToBaseline == \A r \in benches : r.identity => r.seen.likeBaseline

\* "it would fail honest submissions at random" (arena.py:1169-1170): a warm
\* bench of a patch that changes no output differs from goldens at most on
\* knife-edge prompts, whichever one boot behind them was cold (two cold ones
\* in a row would agree on the wrong outputs).  Goldens that a baseline
\* recorded leave it no prompt with a flip on record, which "stays excluded"
\* (target.json:43 of qwen3-6-27b-nvfp4).  Those of the repository may: bench
\* compares whatever has a golden, and c-code-2k of that target has one.
HonestIsIdentical ==
    \A r \in benches :
        /\ incidents <= 1
        /\ r.seen.warm
        /\ \A c \in r.seen.booted : Changes[c] \cap Prompts = {}
        => /\ r.seen.differing \subseteq Knife
           /\ r.seen.examined # Shipped => r.seen.differing \cap KnownUnstable = {}

\* A bench whose gate 2 compared nothing is only ever written where no
\* baseline was recorded or begun to be, even when a `baseline` was killed
\* over its goldens (arena.py:1208-1216, 1246).
NeverUnexamined ==
    [][\A r \in benches' \ benches :
          r.seen.examined = {} => goldens[r.node].state = "absent"]_vars

\* --force is a deliberate exception: what follows is about chains without it.
NeverForced == \A h \in Promoted : ~h.force

\* "Each ratio was measured against the incumbent of its day, so the chain
\* multiplies" (arena.py:1499-1500): then the cumulative speedup on file is
\* what the leader gains over stock.
HeadlineIsReal ==
    NeverForced /\ history # << >> =>
        \A c \in history[Len(history)].record.seen.booted :
            board.current.decode = Speed[c].decode
=============================================================================
