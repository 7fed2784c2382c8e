------------------------- MODULE GatePipelineProofs -------------------------
(***************************************************************************)
(* Proofs about GatePipeline, for any nodes, patches, contents, prompts,   *)
(* speeds and bounds: what an unforced promotion rests on, that it keeps   *)
(* its tokens, that gate 2 never passes by comparing nothing after a       *)
(* baseline was begun, and that it fails no honest warm bench when one     *)
(* cache at most was lost.                                                 *)
(***************************************************************************)
EXTENDS GatePipeline, FiniteSetTheorems, TLAPS

(* The types of what a command carries.                                    *)

OutputType == [text : Contents \cup {Stock}, side : {"rare", "usual"}, cache : {"cold", "warm"}]
ArmType == [content : Contents \cup {Stock}, flipped : SUBSET Knife, cache : {"cold", "warm"}]

\* Goldens are outputs of stock, off the knife edge the usual ones.
OfStock(g) == \A p \in DOMAIN g : g[p].text = Stock /\ (p \notin Knife => g[p].side = "usual")

Golds == {<< >>} \cup {g \in UNION {[S -> OutputType] : S \in SUBSET Prompts} : OfStock(g)}
Usable == {g \in Golds : DOMAIN g # {}}
GoldFiles == {Absent, Torn} \cup {Good(g) : g \in Usable}

\* The arms of a baseline, and of a bench or a held-out run.
AllStock(arms) == \A i \in 1..Len(arms) : arms[i].content = Stock
Alternating(arms) ==
    \A i \in 1..Len(arms) : IF i % 2 = 1 THEN arms[i].content = Stock
                                         ELSE arms[i].content \in Contents

BaselineRuns == {r \in [cmd : {"baseline"}, arms : Seq(ArmType)] : AllStock(r.arms)}
RecordingRuns == [cmd : {"recording"}, outputs : Usable, arms : {<< >>}]
BenchRuns == {r \in [cmd : {"bench"}, patch : Patches, gold : Golds, arms : Seq(ArmType)] :
                Alternating(r.arms)}
HeldRuns == {r \in [cmd : {"heldout"}, patch : Patches, claim : Nat, arms : Seq(ArmType)] :
               Alternating(r.arms)}
Runs == {Idle} \cup BaselineRuns \cup RecordingRuns \cup BenchRuns \cup HeldRuns

\* What the gates of a record say about what its arms were.
BenchSound(r) ==
    /\ r.kind = "bench" /\ r.node \in Nodes /\ r.pairs = BenchPairs
    /\ r.decode \in Nat
    /\ r.promotable => r.identity /\ r.floors
    /\ r.identity => r.seen.likeBaseline
    /\ r.identity => \A c \in r.seen.booted : Changes[c] \cap r.seen.examined = {}

HeldSound(r) ==
    /\ r.kind = "heldout" /\ r.node \in Nodes
    /\ r.claim \in Nat
    /\ r.passed => \A c \in r.seen.booted : Changes[c] \cap HeldOut = {}
    /\ r.passed /\ HeldPairs = 1 =>
         \A c \in r.seen.booted : c \in Contents /\ Generalizes(Speed[c].heldDecode, r.claim)

(* The inductive invariant.                                                *)

StateTyped ==
    /\ patches \in [Nodes -> [Patches -> Contents]]
    /\ warm \subseteq Nodes
    /\ goldens \in [Nodes -> GoldFiles]
    /\ run \in [Nodes -> Runs]
    /\ baselines \in 0..MaxBaselines /\ incidents \in 0..MaxIncidents

\* A bench that read no goldens runs where there are none.
GoldsRead == \A n \in Nodes : run[n].cmd = "bench" /\ DOMAIN run[n].gold = {} => goldens[n] = Absent

RecordsSound ==
    /\ \A r \in benches : BenchSound(r)
    /\ \A r \in helds : HeldSound(r)

Earned(h) ==
    /\ h.record \in benches
    /\ h.held \in helds \cup {NoRecord}
    /\ CanPromote(h.node, h.record, h.held, h.force)

ChainEarned ==
    /\ history \in Seq(Promoted)
    /\ \A h \in Promoted : Earned(h)
    /\ \E S : board.promotions \in Seq(S)
    /\ board.current.count = Len(board.promotions)
    /\ Len(history) = Len(board.promotions)

IInv == StateTyped /\ GoldsRead /\ RecordsSound /\ ChainEarned

-----------------------------------------------------------------------------
(* Goldens and arms.                                                       *)

LEMMA GoldFacts ==
    ASSUME NEW g \in Golds
    PROVE  DOMAIN g \subseteq Prompts /\ OfStock(g)
  BY DEF Golds, OfStock

LEMMA EmptyGold == << >> \in Golds
  BY DEF Golds

LEMMA ArmTyped ==
    ASSUME NEW content \in Contents \cup {Stock}, NEW flipped \in SUBSET Knife, NEW cache \in {"cold", "warm"}
    PROVE  Arm(content, flipped, cache) \in ArmType /\ Arm(content, flipped, cache).content = content
  BY DEF Arm, ArmType

LEMMA OutputTyped ==
    ASSUME NEW a \in ArmType, NEW p
    PROVE  /\ Output(a, p) \in OutputType
           /\ Output(a, p).cache = a.cache
           /\ a.content = Stock => Output(a, p).text = Stock
           /\ p \notin Knife => Output(a, p).side = "usual"
  BY DEF ArmType, OutputType, Output

LEMMA ScreenedIsGold ==
    ASSUME NEW arms \in Seq(ArmType), AllStock(arms), Len(arms) >= 1
    PROVE  Screened(arms) \in Golds
<1> DEFINE kept == Kept(arms)
           S == {q \in Prompts \ KnownUnstable : Unanimous(kept, q)}
<1>1. kept[1] \in ArmType /\ kept[1].content = Stock
  BY DEF Kept, AllStock
<1>2. Screened(arms) = [p \in S |-> Output(kept[1], p)]
  BY DEF Screened
<1> HIDE DEF kept
<1>3. Screened(arms) \in [S -> OutputType]
  BY <1>1, <1>2, OutputTyped
<1>4. OfStock(Screened(arms))
  <2>1. ASSUME NEW p \in S
        PROVE  Screened(arms)[p].text = Stock /\ (p \notin Knife => Screened(arms)[p].side = "usual")
    <3>1. Screened(arms)[p] = Output(kept[1], p)
      BY <1>2
    <3> QED
      BY <1>1, <3>1, OutputTyped
  <2> QED
    BY <1>2, <2>1 DEF OfStock
<1>5. S \in SUBSET Prompts
  OBVIOUS
<1> QED
  BY <1>3, <1>4, <1>5 DEF Golds

\* One more arm: stock first, then stock and the candidate in turn.
LEMMA AppendStock ==
    ASSUME NEW r \in BaselineRuns, NEW a \in ArmType, a.content = Stock
    PROVE  [r EXCEPT !.arms = Append(@, a)] \in BaselineRuns
  BY DEF BaselineRuns, AllStock

LEMMA AppendTurn ==
    ASSUME NEW arms \in Seq(ArmType), Alternating(arms), NEW a \in ArmType,
           IF Len(arms) % 2 = 1 THEN a.content \in Contents ELSE a.content = Stock
    PROVE  Append(arms, a) \in Seq(ArmType) /\ Alternating(Append(arms, a))
<1>1. ASSUME NEW i \in 1..Len(Append(arms, a))
      PROVE  IF i % 2 = 1 THEN Append(arms, a)[i].content = Stock
                          ELSE Append(arms, a)[i].content \in Contents
  <2>1. CASE i \in 1..Len(arms)
    BY <2>1 DEF Alternating
  <2>2. CASE i = Len(arms) + 1
    BY <2>2
  <2> QED
    BY <2>1, <2>2
<1> QED
  BY <1>1 DEF Alternating

\* Candidate arms are even, the baseline of the last pair is odd.
LEMMA Sides ==
    ASSUME NEW arms \in Seq(ArmType), Alternating(arms)
    PROVE  /\ \A a \in Candidates(arms) : a \in ArmType /\ a.content \in Contents
           /\ \A b \in Baselines(arms) : b \in ArmType /\ b.content = Stock
  BY DEF Alternating, Candidates, Baselines

LEMMA LastBaselineIsStock ==
    ASSUME NEW arms \in Seq(ArmType), Alternating(arms),
           NEW pairs \in {1, 2}, Len(arms) = 2 * pairs
    PROVE  LastBaseline(arms) \in ArmType /\ LastBaseline(arms).content = Stock
<1>1. Len(arms) - 1 \in {1, 3}
  OBVIOUS
<1>2. Len(arms) - 1 \in 1..Len(arms) /\ (Len(arms) - 1) % 2 = 1
  BY <1>1
<1> QED
  BY <1>2 DEF LastBaseline, Alternating

LEMMA MedianNat ==
    ASSUME NEW arms \in Seq(ArmType), Alternating(arms),
           NEW pairs \in {1, 2}, Len(arms) = 2 * pairs,
           NEW axis \in {"decode", "prefill", "heldDecode"}
    PROVE  Median(arms, axis) \in Nat
<1>1. \A c \in Contents : Speed[c][axis] \in Nat
  BY PipelineAssumption
<1>2. CASE pairs = 1
  BY <1>1, <1>2 DEF Median, Alternating
<1>3. CASE pairs = 2
  <2>1. arms[2].content \in Contents /\ arms[4].content \in Contents
    BY <1>3 DEF Alternating
  <2>2. \A x, y \in Nat : (x + y) \div 2 \in Nat
    OBVIOUS
  <2> QED
    BY <1>1, <1>3, <2>1, <2>2 DEF Median
<1> QED
  BY <1>2, <1>3

LEMMA SameOutput ==
    ASSUME NEW o \in OutputType, NEW u \in OutputType,
           o.text = u.text, o.side = u.side, o.cache = u.cache
    PROVE  o = u
  BY DEF OutputType

\* An arm that answers what stock answers does not change that output.
LEMMA StockTextUnchanged ==
    ASSUME NEW a \in ArmType, a.content \in Contents, NEW p, Output(a, p).text = Stock
    PROVE  p \notin Changes[a.content]
  BY PipelineAssumption DEF Output

-----------------------------------------------------------------------------
(* Records.                                                                *)

\* Gate 2 through the goldens: candidates that match them match the baseline
\* arms, and change nothing that was examined.
LEMMA BenchRecordSound ==
    ASSUME NEW n \in Nodes, NEW r \in BenchRuns, Len(r.arms) = 2 * BenchPairs
    PROVE  BenchSound(BenchRecord(n, r))
<1> DEFINE rec == BenchRecord(n, r)
           same == Differing(r.arms, r.gold) = {}
<1>1. r.arms \in Seq(ArmType) /\ Alternating(r.arms) /\ r.gold \in Golds
  BY DEF BenchRuns
<1>2. DOMAIN r.gold \subseteq Prompts /\ OfStock(r.gold)
  BY <1>1, GoldFacts
<1>3. BenchPairs \in {1, 2}
  BY PipelineAssumption
<1>4. /\ rec.kind = "bench" /\ rec.node = n /\ rec.pairs = Len(r.arms) \div 2
      /\ rec.decode = Median(r.arms, "decode")
      /\ rec.seen.booted = Booted(r.arms)
      /\ rec.seen.examined = DOMAIN r.gold
  BY DEF BenchRecord
<1>5. rec.pairs = BenchPairs
  BY <1>3, <1>4
<1>6. rec.decode \in Nat
  BY <1>1, <1>3, <1>4, MedianNat
<1>7. rec.promotable => rec.identity /\ rec.floors
  BY DEF BenchRecord
<1>8. rec.identity => same
  BY DEF BenchRecord
<1>9. ASSUME same, NEW a \in Candidates(r.arms), NEW p \in DOMAIN r.gold
      PROVE  a \in ArmType /\ a.content \in Contents /\ Output(a, p) = r.gold[p]
             /\ Output(a, p).text = Stock
  <2>1. Output(a, p) = r.gold[p]
    BY <1>9 DEF Differing
  <2> QED
    BY <1>1, <1>2, <2>1, Sides DEF OfStock
<1>10. ASSUME same
       PROVE  \A a \in Candidates(r.arms), b \in Baselines(r.arms) :
                a.cache = b.cache => Agree(a, b, (DOMAIN r.gold) \ Knife)
  <2>1. ASSUME NEW a \in Candidates(r.arms), NEW b \in Baselines(r.arms), a.cache = b.cache,
               NEW p \in (DOMAIN r.gold) \ Knife
        PROVE  Output(a, p) = Output(b, p)
    <3>1. a \in ArmType /\ Output(a, p).text = Stock
      BY <1>9, <1>10
    <3>2. b \in ArmType /\ b.content = Stock
      BY <1>1, Sides
    <3>3. Output(b, p).text = Stock /\ Output(a, p).side = Output(b, p).side
      BY <3>1, <3>2, OutputTyped
    <3>4. Output(a, p).cache = Output(b, p).cache
      BY <2>1, <3>1, <3>2, OutputTyped
    <3> QED
      BY <3>1, <3>2, <3>3, <3>4, OutputTyped, SameOutput
  <2> QED
    BY <2>1 DEF Agree
<1>11. rec.identity => rec.seen.likeBaseline
  BY <1>8, <1>10, Zenon DEF BenchRecord
<1>12. ASSUME same, NEW c \in Booted(r.arms)
       PROVE  Changes[c] \cap DOMAIN r.gold = {}
  <2>1. PICK a \in Candidates(r.arms) : c = a.content
    BY DEF Booted
  <2>2. ASSUME NEW p \in DOMAIN r.gold
        PROVE  p \notin Changes[c]
    BY <1>9, <1>12, <2>1, StockTextUnchanged
  <2> QED
    BY <2>2
<1> HIDE DEF rec, same
<1> QED
  BY <1>4, <1>5, <1>6, <1>7, <1>8, <1>11, <1>12 DEF BenchSound, rec

\* Gate 3 against the last pair's baseline.
LEMMA HeldRecordSound ==
    ASSUME NEW n \in Nodes, NEW r \in HeldRuns, Len(r.arms) = 2 * HeldPairs
    PROVE  HeldSound(HeldRecord(n, r))
<1> DEFINE rec == HeldRecord(n, r)
           last == LastBaseline(r.arms)
           same == \A a \in Candidates(r.arms) : Agree(a, last, HeldOut)
<1>1. r.arms \in Seq(ArmType) /\ Alternating(r.arms)
  BY DEF HeldRuns
<1>2. HeldPairs \in {1, 2}
  BY PipelineAssumption
<1>3. last \in ArmType /\ last.content = Stock
  BY <1>1, <1>2, LastBaselineIsStock
<1>4. rec.kind = "heldout" /\ rec.node = n /\ rec.seen.booted = Booted(r.arms)
  BY DEF HeldRecord
<1>5. rec.passed => same
  BY DEF HeldRecord
<1> HIDE DEF last
<1>6. ASSUME same, NEW c \in Booted(r.arms)
      PROVE  Changes[c] \cap HeldOut = {}
  <2>1. PICK a \in Candidates(r.arms) : c = a.content
    BY DEF Booted
  <2>2. a \in ArmType /\ a.content \in Contents
    BY <1>1, Sides
  <2>3. ASSUME NEW p \in HeldOut
        PROVE  p \notin Changes[c]
    <3>1. Output(a, p) = Output(last, p)
      BY <1>6 DEF Agree
    <3>2. Output(last, p).text = Stock
      BY <1>3, OutputTyped
    <3> QED
      BY <2>1, <2>2, <3>1, <3>2, StockTextUnchanged
  <2> QED
    BY <2>3
<1>7. rec.claim \in Nat
  BY DEF HeldRecord, HeldRuns
<1>8. ASSUME rec.passed, HeldPairs = 1, NEW c \in Booted(r.arms)
      PROVE  c \in Contents /\ Generalizes(Speed[c].heldDecode, rec.claim)
  <2>1. PICK a \in Candidates(r.arms) : c = a.content
    BY DEF Booted
  <2>2. a.content \in Contents
    BY <1>1, Sides
  <2>3. Len(r.arms) = 2
    BY <1>8
  <2>4. a = r.arms[2]
    BY <2>3 DEF Candidates
  <2>5. Median(r.arms, "heldDecode") = Speed[c].heldDecode
    <3>1. Speed[c] \in [decode : Nat, prefill : Nat, heldDecode : Nat]
      BY <2>1, <2>2, PipelineAssumption
    <3>2. Median(r.arms, "heldDecode") = Speed[r.arms[2].content]["heldDecode"]
      <4>1. 2 * 1 = 2
        OBVIOUS
      <4> QED
        BY <2>3, <4>1, Zenon DEF Median
    <3>3. r.arms[2].content = c
      BY <2>1, <2>4
    <3> QED
      BY <3>1, <3>2, <3>3
  <2>6. Generalizes(Median(r.arms, "heldDecode"), rec.claim)
    BY <1>8 DEF HeldRecord
  <2> QED
    BY <2>1, <2>2, <2>5, <2>6
<1> HIDE DEF rec, same
<1> QED
  BY <1>4, <1>5, <1>6, <1>7, <1>8 DEF HeldSound, rec

-----------------------------------------------------------------------------
(* The invariant holds at first.                                           *)

LEMMA ShippedUsable == Good([p \in Shipped |-> Output(Arm(Stock, {}, "warm"), p)]) \in GoldFiles
<1> DEFINE a == Arm(Stock, {}, "warm")
           g == [p \in Shipped |-> Output(a, p)]
<1>1. a \in ArmType /\ a.content = Stock
  BY ArmTyped
<1> HIDE DEF a
<1>2. g \in [Shipped -> OutputType] /\ OfStock(g)
  BY <1>1, OutputTyped DEF OfStock
<1>3. Shipped \in SUBSET Prompts /\ Shipped # {}
  BY PipelineAssumption
<1>4. g \in Golds /\ DOMAIN g # {}
  BY <1>2, <1>3 DEF Golds
<1> QED
  BY <1>4 DEF GoldFiles, Usable, a

LEMMA IInvInit == Init => IInv
<1> SUFFICES ASSUME Init PROVE IInv
  OBVIOUS
<1>1. StateTyped
  <2>1. goldens \in [Nodes -> GoldFiles]
    BY ShippedUsable DEF Init, GoldFiles
  <2>2. run \in [Nodes -> Runs]
    BY DEF Init, Runs
  <2>3. baselines \in 0..MaxBaselines /\ incidents \in 0..MaxIncidents
    BY PipelineAssumption DEF Init
  <2> QED
    BY <2>1, <2>2, <2>3 DEF Init, StateTyped
<1>2. GoldsRead
  BY DEF Init, GoldsRead, Idle
<1>3. RecordsSound
  BY DEF Init, RecordsSound
<1>4. ChainEarned
  <2>1. history = << >> /\ board.promotions = << >> /\ board.current.count = 0
    BY DEF Init, B!EmptyBoard
  <2>2. board.promotions \in Seq({})
    BY <2>1
  <2> QED
    BY <2>1, <2>2 DEF ChainEarned, Promoted
<1> QED
  BY <1>1, <1>2, <1>3, <1>4 DEF IInv

-----------------------------------------------------------------------------
(* Steps that only move a command, goldens, directories or caches.         *)

\* One more boot of whatever the node is running.
LEMMA RunArmKeeps ==
    ASSUME IInv, NEW n \in Nodes, RunArm(n)
    PROVE  StateTyped' /\ GoldsRead'
<1> DEFINE r == run[n]
           content == IF NextIsCandidate(r) THEN patches[n][r.patch] ELSE Stock
<1>1. /\ r \in Runs /\ run \in [Nodes -> Runs] /\ Len(r.arms) < ArmsOf(r.cmd)
      /\ patches \in [Nodes -> [Patches -> Contents]]
  BY DEF IInv, StateTyped, RunArm
<1>2. r \in BaselineRuns \cup BenchRuns \cup HeldRuns
  BY <1>1 DEF Runs, Idle, RecordingRuns, ArmsOf
<1>3. PICK flipped \in SUBSET (Knife \cap Watched(r)) :
        run' = [run EXCEPT ![n].arms = Append(@, Arm(content, flipped, Cache(n)))]
  BY DEF RunArm
<1> DEFINE a == Arm(content, flipped, Cache(n))
           next == [r EXCEPT !.arms = Append(@, a)]
<1>4. content \in Contents \cup {Stock}
  BY <1>1, <1>2 DEF NextIsCandidate, BaselineRuns, BenchRuns, HeldRuns
<1>5. a \in ArmType /\ a.content = content
  BY <1>4, ArmTyped DEF Cache
<1>6. run' = [run EXCEPT ![n] = next]
  BY <1>3
<1> HIDE DEF a
<1>7. /\ r \in BaselineRuns => next \in BaselineRuns
      /\ r \in BenchRuns => next \in BenchRuns
      /\ r \in HeldRuns => next \in HeldRuns
  <2>1. CASE r \in BaselineRuns
    <3>1. a.content = Stock
      BY <1>5, <2>1 DEF NextIsCandidate, BaselineRuns
    <3>2. r \notin BenchRuns /\ r \notin HeldRuns
      BY <2>1 DEF BaselineRuns, BenchRuns, HeldRuns
    <3> QED
      BY <1>5, <2>1, <3>1, <3>2, AppendStock
  <2>2. CASE r \in BenchRuns \cup HeldRuns
    <3>1. r.arms \in Seq(ArmType) /\ Alternating(r.arms) /\ r.cmd \in {"bench", "heldout"}
      BY <2>2 DEF BenchRuns, HeldRuns
    <3>2. IF Len(r.arms) % 2 = 1 THEN a.content \in Contents ELSE a.content = Stock
      BY <1>1, <1>5, <2>2, <3>1 DEF NextIsCandidate, BenchRuns, HeldRuns
    <3>3. Append(r.arms, a) \in Seq(ArmType) /\ Alternating(Append(r.arms, a))
      BY <1>5, <3>1, <3>2, AppendTurn
    <3> QED
      BY <2>2, <3>3 DEF BaselineRuns, BenchRuns, HeldRuns
  <2> QED
    BY <1>2, <2>1, <2>2
<1>8. next \in Runs
  BY <1>2, <1>7 DEF Runs
<1>9. next.cmd = r.cmd /\ (r.cmd = "bench" => next.gold = r.gold)
  BY <1>2 DEF BaselineRuns, BenchRuns, HeldRuns
<1> HIDE DEF next
<1>10. UNCHANGED <<patches, goldens, baselines, incidents>> /\ warm' = warm \cup {n}
  BY DEF RunArm, bounds
<1>11. StateTyped'
  BY <1>1, <1>6, <1>8, <1>10 DEF IInv, StateTyped
<1>12. GoldsRead'
  BY <1>1, <1>6, <1>9, <1>10 DEF IInv, GoldsRead
<1> QED
  BY <1>11, <1>12

\* A command begins: a bench has read goldens that are there, or none.
LEMMA BeginKeeps ==
    ASSUME IInv, NEW n \in Nodes, NEW command \in Runs, Begin(n, command),
           baselines' \in 0..MaxBaselines,
           command.cmd = "bench" /\ DOMAIN command.gold = {} => goldens[n] = Absent
    PROVE  StateTyped' /\ GoldsRead'
<1>1. run' = [run EXCEPT ![n] = command] /\ UNCHANGED <<patches, warm, goldens, incidents>>
  BY DEF Begin
<1> QED
  BY <1>1 DEF IInv, StateTyped, GoldsRead

\* What a node reads when goldens.json parses.
LEMMA GoldensRead ==
    ASSUME StateTyped, NEW n \in Nodes, goldens[n].state # "torn"
    PROVE  /\ goldens[n].prompts \in Golds
           /\ DOMAIN goldens[n].prompts = {} => goldens[n] = Absent
<1>1. goldens[n] \in GoldFiles
  BY DEF StateTyped
<1>2. CASE goldens[n] = Absent
  BY <1>2, EmptyGold DEF Absent
<1>3. CASE goldens[n] = Torn
  BY <1>3 DEF Torn
<1>4. ASSUME NEW g \in Usable, goldens[n] = Good(g)
      PROVE  goldens[n].prompts \in Golds /\ DOMAIN goldens[n].prompts # {}
  BY <1>4 DEF Good, Usable
<1> QED
  BY <1>1, <1>2, <1>3, <1>4 DEF GoldFiles

LEMMA StartsKeep ==
    ASSUME IInv, NEW n \in Nodes,
           \/ StartBaseline(n)
           \/ \E p \in Patches : StartBench(n, p) \/ StartHeldout(n, p)
    PROVE  StateTyped' /\ GoldsRead'
<1>1. CASE StartBaseline(n)
  <2> DEFINE command == [cmd |-> "baseline", arms |-> << >>]
  <2>1. command \in Runs
    BY DEF Runs, BaselineRuns, AllStock
  <2>2. baselines' \in 0..MaxBaselines
    BY <1>1, PipelineAssumption DEF StartBaseline, IInv, StateTyped
  <2> QED
    BY <1>1, <2>1, <2>2, BeginKeeps DEF StartBaseline
<1>2. ASSUME NEW p \in Patches, StartBench(n, p)
      PROVE  StateTyped' /\ GoldsRead'
  <2> DEFINE command == [cmd |-> "bench", patch |-> p, gold |-> goldens[n].prompts, arms |-> << >>]
  <2>1. goldens[n].prompts \in Golds /\ (DOMAIN goldens[n].prompts = {} => goldens[n] = Absent)
    BY <1>2, GoldensRead DEF StartBench, IInv
  <2>2. command \in BenchRuns
    BY <2>1 DEF BenchRuns, Alternating
  <2>3. command \in Runs /\ command.gold = goldens[n].prompts
    BY <2>2 DEF Runs
  <2>4. Begin(n, command) /\ baselines' \in 0..MaxBaselines
    BY <1>2 DEF StartBench, IInv, StateTyped
  <2> HIDE DEF command
  <2> QED
    BY <2>1, <2>3, <2>4, BeginKeeps
<1>3. ASSUME NEW p \in Patches, StartHeldout(n, p)
      PROVE  StateTyped' /\ GoldsRead'
  <2>1. PICK claim \in Claims(p) :
          Begin(n, [cmd |-> "heldout", patch |-> p, claim |-> claim, arms |-> << >>])
    BY <1>3 DEF StartHeldout
  <2> DEFINE command == [cmd |-> "heldout", patch |-> p, claim |-> claim, arms |-> << >>]
  <2>2. claim \in Nat
    BY DEF Claims, IInv, RecordsSound, BenchSound
  <2>3. command \in HeldRuns
    BY <2>2 DEF HeldRuns, Alternating
  <2>4. command \in Runs /\ command.cmd = "heldout"
    BY <2>3 DEF Runs
  <2>5. baselines' \in 0..MaxBaselines
    BY <1>3 DEF StartHeldout, IInv, StateTyped
  <2> HIDE DEF command
  <2> QED
    BY <2>1, <2>4, <2>5, BeginKeeps DEF command
<1> QED
  BY <1>1, <1>2, <1>3

\* A command is over: it ends, dies or is killed.
LEMMA EndKeeps ==
    ASSUME IInv, NEW n \in Nodes, run' = [run EXCEPT ![n] = Idle],
           UNCHANGED <<patches, warm, goldens, bounds>>
    PROVE  StateTyped' /\ GoldsRead'
<1>1. Idle \in Runs /\ Idle.cmd = "idle"
  BY DEF Runs, Idle
<1> HIDE DEF Idle
<1> QED
  BY <1>1 DEF IInv, StateTyped, GoldsRead, bounds

\* The boots of a baseline that count give goldens of stock; truncating the
\* file, and filling it with more than one of them, keeps it usable or torn.
LEMMA ScreenKeeps ==
    ASSUME IInv, NEW n \in Nodes, ScreenBaseline(n)
    PROVE  StateTyped' /\ GoldsRead'
<1> DEFINE arms == run[n].arms
           outputs == Screened(arms)
           command == [cmd |-> "recording", outputs |-> outputs, arms |-> << >>]
<1>1. run[n] \in Runs /\ run[n].cmd = "baseline" /\ Len(arms) = Repeats
  BY DEF IInv, StateTyped, ScreenBaseline, ArmsDone, ArmsOf
<1>2. run[n] \in BaselineRuns
  BY <1>1 DEF Runs, Idle, RecordingRuns, BenchRuns, HeldRuns
<1>3. arms \in Seq(ArmType) /\ AllStock(arms) /\ Len(arms) >= 1
  BY <1>1, <1>2, PipelineAssumption DEF BaselineRuns
<1>4. outputs \in Golds
  BY <1>3, ScreenedIsGold
<1> HIDE DEF arms, outputs
<1>5. UNCHANGED <<patches, warm, bounds>>
  BY DEF ScreenBaseline
<1>6. CASE Cardinality(DOMAIN outputs) < 2
  BY <1>5, <1>6, EndKeeps DEF ScreenBaseline, outputs, arms, bounds
<1>7. CASE ~(Cardinality(DOMAIN outputs) < 2)
  <2>1. goldens' = [goldens EXCEPT ![n] = Torn] /\ run' = [run EXCEPT ![n] = command]
    BY <1>7 DEF ScreenBaseline, outputs, arms
  <2>2. DOMAIN outputs # {}
    BY <1>7, FS_EmptySet
  <2>3. command \in RecordingRuns
    BY <1>4, <2>2 DEF RecordingRuns, Usable
  <2>4. command \in Runs /\ command.cmd = "recording" /\ Torn \in GoldFiles
    BY <2>3 DEF Runs, GoldFiles
  <2> HIDE DEF command
  <2>5. StateTyped'
    BY <1>5, <2>1, <2>4 DEF IInv, StateTyped, bounds
  <2>6. GoldsRead'
    BY <2>1, <2>4 DEF IInv, StateTyped, GoldsRead
  <2> QED
    BY <2>5, <2>6
<1> QED
  BY <1>6, <1>7

LEMMA RecordKeeps ==
    ASSUME IInv, NEW n \in Nodes, RecordGoldens(n)
    PROVE  StateTyped' /\ GoldsRead'
<1>1. run[n] \in Runs /\ run[n].cmd = "recording"
  BY DEF IInv, StateTyped, RecordGoldens
<1>2. run[n].outputs \in Usable
  BY <1>1 DEF Runs, Idle, BaselineRuns, RecordingRuns, BenchRuns, HeldRuns
<1>3. Good(run[n].outputs) \in GoldFiles
  BY <1>2 DEF GoldFiles
<1>4. /\ goldens' = [goldens EXCEPT ![n] = Good(run[n].outputs)]
      /\ run' = [run EXCEPT ![n] = Idle]
      /\ UNCHANGED <<patches, warm, bounds>>
  BY DEF RecordGoldens
<1>5. Idle \in Runs /\ Idle.cmd = "idle"
  BY DEF Runs, Idle
<1> HIDE DEF Idle
<1>6. StateTyped'
  BY <1>3, <1>4, <1>5 DEF IInv, StateTyped, bounds
<1>7. GoldsRead'
  BY <1>4, <1>5 DEF IInv, StateTyped, GoldsRead
<1> QED
  BY <1>6, <1>7

\* Steps that touch neither runs nor goldens.
LEMMA AsideKeeps ==
    ASSUME IInv, NEW n \in Nodes,
           \/ \E p \in Patches : EditPatch(n, p)
           \/ EvictCache(n)
           \/ Warm(n)
           \/ UNCHANGED <<patches, warm, goldens, run, bounds>>
    PROVE  StateTyped' /\ GoldsRead'
<1>1. UNCHANGED <<goldens, run, baselines>>
  BY DEF EditPatch, EvictCache, Warm, bounds
<1>2. GoldsRead'
  BY <1>1 DEF IInv, GoldsRead
<1>3. ASSUME NEW p \in Patches, EditPatch(n, p)
      PROVE  patches' \in [Nodes -> [Patches -> Contents]]
  BY <1>3 DEF EditPatch, IInv, StateTyped
<1>4. patches' \in [Nodes -> [Patches -> Contents]]
  BY <1>3 DEF EvictCache, Warm, IInv, StateTyped
<1>5. warm' \subseteq Nodes
  BY DEF EditPatch, EvictCache, Warm, IInv, StateTyped
<1>6. incidents' \in 0..MaxIncidents
  BY PipelineAssumption DEF EditPatch, EvictCache, Warm, bounds, IInv, StateTyped
<1>7. StateTyped'
  BY <1>1, <1>4, <1>5, <1>6 DEF IInv, StateTyped
<1> QED
  BY <1>2, <1>7

-----------------------------------------------------------------------------
(* Records and the chain.                                                  *)

LEMMA RecordsNext ==
    ASSUME IInv, [Next]_vars
    PROVE  RecordsSound'
<1>1. ASSUME NEW n \in Nodes, FinishBench(n)
      PROVE  RecordsSound'
  <2>1. run[n] \in Runs /\ run[n].cmd = "bench" /\ Len(run[n].arms) = 2 * BenchPairs
    BY <1>1 DEF FinishBench, ArmsDone, ArmsOf, IInv, StateTyped
  <2>2. run[n] \in BenchRuns
    BY <2>1 DEF Runs, Idle, BaselineRuns, RecordingRuns, HeldRuns
  <2>3. BenchSound(BenchRecord(n, run[n]))
    BY <2>1, <2>2, BenchRecordSound
  <2>4. benches' = benches \cup {BenchRecord(n, run[n])} /\ helds' = helds
    BY <1>1 DEF FinishBench
  <2> QED
    BY <2>3, <2>4 DEF IInv, RecordsSound
<1>2. ASSUME NEW n \in Nodes, FinishHeldout(n)
      PROVE  RecordsSound'
  <2>1. run[n] \in Runs /\ run[n].cmd = "heldout" /\ Len(run[n].arms) = 2 * HeldPairs
    BY <1>2 DEF FinishHeldout, ArmsDone, ArmsOf, IInv, StateTyped
  <2>2. run[n] \in HeldRuns
    BY <2>1 DEF Runs, Idle, BaselineRuns, RecordingRuns, BenchRuns
  <2>3. HeldSound(HeldRecord(n, run[n]))
    BY <2>1, <2>2, HeldRecordSound
  <2>4. helds' = helds \cup {HeldRecord(n, run[n])} /\ benches' = benches
    BY <1>2 DEF FinishHeldout
  <2> QED
    BY <2>3, <2>4 DEF IInv, RecordsSound
<1>3. CASE UNCHANGED <<benches, helds>>
  BY <1>3 DEF IInv, RecordsSound
<1> QED
  BY <1>1, <1>2, <1>3 DEF Next, vars, records, EditPatch, EvictCache, Warm, StartBaseline,
     StartBench, StartHeldout, Begin, RunArm, Abort, ScreenBaseline, RecordGoldens, Promote

LEMMA ChainNext ==
    ASSUME IInv, [Next]_vars
    PROVE  ChainEarned'
<1>1. benches \subseteq benches' /\ helds \subseteq helds'
  BY DEF Next, vars, records, EditPatch, EvictCache, Warm, StartBaseline,
     StartBench, StartHeldout, Begin, RunArm, Abort, ScreenBaseline, RecordGoldens, Promote,
     FinishBench, FinishHeldout
<1>2. ASSUME NEW h, Earned(h)
      PROVE  Earned(h)'
  BY <1>1, <1>2 DEF Earned
<1>3. CASE UNCHANGED <<board, history>>
  BY <1>2, <1>3 DEF IInv, ChainEarned, Promoted
<1>4. ASSUME NEW n \in Nodes, NEW rec \in benches, NEW held \in helds \cup {NoRecord},
             NEW force \in BOOLEAN, Promote(n, rec, held, force)
      PROVE  ChainEarned'
  <2> DEFINE h == [record |-> rec, held |-> held, node |-> n, force |-> force]
  <2>1. /\ history' = Append(history, h)
        /\ board' = B!Extend(board, rec)
        /\ CanPromote(n, rec, held, force)
    BY <1>4 DEF Promote
  <2>2. Earned(h)
    BY <2>1 DEF Earned
  <2>3. history \in Seq(Promoted) /\ (\A x \in Promoted : Earned(x))
    BY DEF IInv, ChainEarned
  <2> HIDE DEF h
  <2>4. Promoted' = Promoted \cup {h} /\ Len(history') = Len(history) + 1
    BY <2>1, <2>3 DEF Promoted
  <2>5. history' \in Seq(Promoted')
    BY <2>1, <2>3, <2>4
  <2>6. \A x \in Promoted' : Earned(x)'
    BY <1>2, <2>2, <2>3, <2>4
  <2>7. PICK S : board.promotions \in Seq(S)
    BY DEF IInv, ChainEarned
  <2>8. PICK p : /\ board'.promotions = Append(board.promotions, p)
                 /\ board'.current.count = Len(board.promotions) + 1
    BY <2>1 DEF B!Extend, B!NextPromotion
  <2>9. board'.promotions \in Seq(S \cup {p}) /\ Len(board'.promotions) = Len(board.promotions) + 1
    BY <2>7, <2>8
  <2> QED
    BY <2>4, <2>5, <2>6, <2>8, <2>9 DEF IInv, ChainEarned
<1> QED
  BY <1>3, <1>4 DEF Next, vars, chain, EditPatch, EvictCache, Warm, StartBaseline,
     StartBench, StartHeldout, Begin, RunArm, Abort, ScreenBaseline, RecordGoldens,
     FinishBench, FinishHeldout

LEMMA IInvNext == IInv /\ [Next]_vars => IInv'
<1> SUFFICES ASSUME IInv, [Next]_vars PROVE StateTyped' /\ GoldsRead'
  BY RecordsNext, ChainNext DEF IInv
<1>1. CASE UNCHANGED vars
  BY <1>1 DEF vars, bounds, IInv, StateTyped, GoldsRead
<1>2. ASSUME NEW n \in Nodes, \/ \E p \in Patches : EditPatch(n, p)
                              \/ EvictCache(n)
                              \/ Warm(n)
      PROVE  StateTyped' /\ GoldsRead'
  BY <1>2, AsideKeeps
<1>3. ASSUME NEW n \in Nodes, \/ StartBaseline(n)
                              \/ \E p \in Patches : StartBench(n, p)
                              \/ \E p \in Patches : StartHeldout(n, p)
      PROVE  StateTyped' /\ GoldsRead'
  BY <1>3, StartsKeep
<1>4. ASSUME NEW n \in Nodes, RunArm(n) PROVE StateTyped' /\ GoldsRead'
  BY <1>4, RunArmKeeps
<1>5. ASSUME NEW n \in Nodes, Abort(n) \/ FinishBench(n) \/ FinishHeldout(n)
      PROVE  StateTyped' /\ GoldsRead'
  BY <1>5, EndKeeps DEF Abort, FinishBench, FinishHeldout
<1>6. ASSUME NEW n \in Nodes, ScreenBaseline(n) PROVE StateTyped' /\ GoldsRead'
  BY <1>6, ScreenKeeps
<1>7. ASSUME NEW n \in Nodes, RecordGoldens(n) PROVE StateTyped' /\ GoldsRead'
  BY <1>7, RecordKeeps
<1>8. ASSUME NEW n \in Nodes, NEW rec, NEW held, NEW force, Promote(n, rec, held, force)
      PROVE  StateTyped' /\ GoldsRead'
  BY <1>8, AsideKeeps DEF Promote
<1> QED
  BY <1>1, <1>2, <1>3, <1>4, <1>5, <1>6, <1>7, <1>8 DEF Next

LEMMA Invariance == Spec => []IInv
<1>1. Init => IInv
  BY IInvInit
<1>2. IInv /\ [Next]_vars => IInv'
  BY IInvNext
<1> QED
  BY <1>1, <1>2, PTL DEF Spec

-----------------------------------------------------------------------------
(* Cold boots.  A cache is lost by an incident, and the first boot after it *)
(* is the cold one; with one incident at most, no command sees two.        *)

Cold(arms, i) == arms[i].cache = "cold"
NoneCold(arms) == \A i \in 1..Len(arms) : ~Cold(arms, i)
OneCold(arms) == \A i, j \in 1..Len(arms) : Cold(arms, i) /\ Cold(arms, j) => i = j

\* Goldens of warm boots, with no prompt whose flip is on record unless they
\* are those of the repository.
WarmGold(g) ==
    /\ \A p \in DOMAIN g : g[p].cache = "warm"
    /\ DOMAIN g = Shipped \/ DOMAIN g \cap KnownUnstable = {}

Tempered(n) ==
    /\ incidents = 0 => n \in warm /\ NoneCold(run[n].arms)
    /\ n \notin warm => NoneCold(run[n].arms)
    /\ OneCold(run[n].arms)
    /\ WarmGold(goldens[n].prompts)
    /\ run[n].cmd = "bench" => WarmGold(run[n].gold)
    /\ run[n].cmd = "recording" => WarmGold(run[n].outputs)

\* A warm bench of a patch that changes no output of the target's prompts
\* differs from such goldens on knife-edge prompts at most.
HonestDiffers(r) ==
    r.seen.warm /\ (\A c \in r.seen.booted : Changes[c] \cap Prompts = {}) =>
        /\ r.seen.differing \subseteq Knife
        /\ r.seen.examined # Shipped => r.seen.differing \cap KnownUnstable = {}

OneIncident ==
    incidents <= 1 => (\A n \in Nodes : Tempered(n)) /\ \A r \in benches : HonestDiffers(r)

LEMMA NoArms == NoneCold(<< >>) /\ OneCold(<< >>) /\ WarmGold(<< >>)
BY DEF NoneCold, OneCold, WarmGold

LEMMA AppendCold ==
    ASSUME NEW arms \in Seq(ArmType), NEW a \in ArmType
    PROVE  /\ a.cache = "warm" /\ NoneCold(arms) => NoneCold(Append(arms, a))
           /\ a.cache = "warm" /\ OneCold(arms) => OneCold(Append(arms, a))
           /\ NoneCold(arms) => OneCold(Append(arms, a))
<1> DEFINE next == Append(arms, a)
<1>1. Len(next) = Len(arms) + 1 /\ next[Len(arms) + 1] = a /\ Len(arms) \in Nat
      /\ \A i \in 1..Len(arms) : next[i] = arms[i]
  OBVIOUS
<1>2. \A i \in 1..Len(next) : i \in 1..Len(arms) \/ i = Len(arms) + 1
  BY <1>1
<1> HIDE DEF next
<1>3. \A i \in 1..Len(next) : Cold(next, i) => (i \in 1..Len(arms) /\ Cold(arms, i))
                                              \/ (i = Len(arms) + 1 /\ a.cache # "warm")
  BY <1>1, <1>2 DEF Cold
<1>4. a.cache = "warm" /\ NoneCold(arms) => NoneCold(next)
  BY <1>3 DEF NoneCold
<1>5. a.cache = "warm" /\ OneCold(arms) => OneCold(next)
  BY <1>3 DEF OneCold
<1>6. NoneCold(arms) => OneCold(next)
  BY <1>3 DEF NoneCold, OneCold
<1> QED
  BY <1>4, <1>5, <1>6 DEF next

\* Two boots that count and agree are not both cold, so neither is.
LEMMA ScreenedIsWarm ==
    ASSUME NEW arms \in Seq(ArmType), Len(arms) >= 3, OneCold(arms)
    PROVE  WarmGold(Screened(arms))
<1> DEFINE kept == Tail(arms)
<1>1. Kept(arms) = kept
  BY DEF Kept
<1>2. Len(kept) >= 2 /\ Len(kept) \in Nat /\ kept[1] = arms[2] /\ kept[2] = arms[3]
  OBVIOUS
<1>3. kept[1] \in ArmType /\ kept[2] \in ArmType
  BY <1>2
<1>4. ~(kept[1].cache = "cold" /\ kept[2].cache = "cold")
  BY <1>2 DEF OneCold, Cold
<1> HIDE DEF kept
<1>5. ASSUME NEW p \in Prompts \ KnownUnstable, Unanimous(kept, p)
      PROVE  Output(kept[1], p).cache = "warm"
  <2>1. Output(kept[2], p) = Output(kept[1], p)
    BY <1>2, <1>5 DEF Unanimous
  <2>2. kept[1].cache = kept[2].cache
    BY <1>3, <2>1, OutputTyped
  <2> QED
    BY <1>3, <1>4, <2>2, OutputTyped DEF ArmType
<1> QED
  BY <1>1, <1>5 DEF Screened, WarmGold

\* Against warm goldens of stock, an arm that changes nothing and is warm can
\* only differ in the side a knife-edge prompt fell on.
LEMMA HonestRecord ==
    ASSUME NEW n \in Nodes, NEW r \in BenchRuns, WarmGold(r.gold)
    PROVE  HonestDiffers(BenchRecord(n, r))
<1> DEFINE rec == BenchRecord(n, r)
<1>1. r.arms \in Seq(ArmType) /\ Alternating(r.arms) /\ r.gold \in Golds
  BY DEF BenchRuns
<1>2. DOMAIN r.gold \subseteq Prompts /\ OfStock(r.gold)
      /\ \A p \in DOMAIN r.gold : r.gold[p] \in OutputType
  BY <1>1, GoldFacts DEF Golds
<1>3. /\ rec.seen.booted = Booted(r.arms)
      /\ rec.seen.examined = DOMAIN r.gold
      /\ rec.seen.differing = Differing(r.arms, r.gold)
      /\ rec.seen.warm => \A a \in Candidates(r.arms) : a.cache = "warm"
  BY DEF BenchRecord
<1> HIDE DEF rec
<1>4. ASSUME rec.seen.warm, \A c \in rec.seen.booted : Changes[c] \cap Prompts = {},
             NEW p \in DOMAIN r.gold, NEW a \in Candidates(r.arms), Output(a, p) # r.gold[p]
      PROVE  p \in Knife
  <2>1. a \in ArmType /\ a.content \in Contents /\ a.cache = "warm"
    BY <1>1, <1>3, <1>4, Sides
  <2>2. p \notin Changes[a.content]
    BY <1>2, <1>3, <1>4 DEF Booted
  <2>3. Output(a, p).text = Stock /\ Output(a, p).cache = "warm" /\ Output(a, p) \in OutputType
    BY <2>1, <2>2, OutputTyped DEF Output
  <2>4. r.gold[p].text = Stock /\ r.gold[p].cache = "warm" /\ r.gold[p] \in OutputType
    BY <1>2 DEF OfStock, WarmGold
  <2>5. Output(a, p).side # r.gold[p].side
    BY <1>4, <2>3, <2>4, SameOutput
  <2> QED
    BY <1>2, <2>1, <2>5, OutputTyped DEF OfStock
<1>5. rec.seen.differing \subseteq DOMAIN r.gold
  BY <1>3 DEF Differing
<1>6. ASSUME rec.seen.warm, \A c \in rec.seen.booted : Changes[c] \cap Prompts = {}
      PROVE  rec.seen.differing \subseteq Knife
  BY <1>3, <1>4, <1>6 DEF Differing
<1>7. rec.seen.examined # Shipped => rec.seen.differing \cap KnownUnstable = {}
  BY <1>3, <1>5 DEF WarmGold
<1> QED
  BY <1>6, <1>7 DEF HonestDiffers, rec

\* What a node is left with when its command is over.
LEMMA IdleTempered ==
    ASSUME NEW n \in Nodes, Tempered(n), run'[n].cmd # "bench", run'[n].cmd # "recording",
           run'[n].arms = << >>, UNCHANGED <<warm, incidents>>, WarmGold(goldens'[n].prompts)
    PROVE  Tempered(n)'
BY NoArms DEF Tempered

LEMMA SameTempered ==
    ASSUME NEW n \in Nodes, Tempered(n), run'[n] = run[n], goldens'[n] = goldens[n],
           n \in warm => n \in warm', incidents' >= incidents, incidents \in Nat, incidents' \in Nat
    PROVE  Tempered(n)'
BY DEF Tempered

\* The one incident that takes a cache finds it, and every boot before it, warm.
LEMMA EvictTempers ==
    ASSUME IInv, NEW n \in Nodes, EvictCache(n), incidents' <= 1, NEW m \in Nodes, Tempered(m)
    PROVE  Tempered(m)'
<1>1. incidents = 0 /\ incidents' = 1
  BY PipelineAssumption DEF EvictCache, IInv, StateTyped
<1>2. NoneCold(run[m].arms) /\ UNCHANGED <<run, goldens>>
  BY <1>1 DEF Tempered, EvictCache
<1> QED
  BY <1>1, <1>2 DEF Tempered

LEMMA RunArmTempers ==
    ASSUME IInv, NEW n \in Nodes, RunArm(n), Tempered(n)
    PROVE  Tempered(n)'
<1> DEFINE r == run[n]
<1>1. /\ r \in Runs /\ run \in [Nodes -> Runs] /\ Len(r.arms) < ArmsOf(r.cmd)
      /\ patches \in [Nodes -> [Patches -> Contents]]
  BY DEF IInv, StateTyped, RunArm
<1>2. r \in BaselineRuns \cup BenchRuns \cup HeldRuns
  BY <1>1 DEF Runs, Idle, RecordingRuns, ArmsOf
<1>3. r.arms \in Seq(ArmType)
  BY <1>2 DEF BaselineRuns, BenchRuns, HeldRuns
<1>4. PICK content \in Contents \cup {Stock}, flipped \in SUBSET Knife :
        run' = [run EXCEPT ![n].arms = Append(@, Arm(content, flipped, Cache(n)))]
  <2>1. (IF NextIsCandidate(r) THEN patches[n][r.patch] ELSE Stock) \in Contents \cup {Stock}
    BY <1>1, <1>2 DEF NextIsCandidate, BaselineRuns, BenchRuns, HeldRuns
  <2> QED
    BY <2>1 DEF RunArm
<1> DEFINE a == Arm(content, flipped, Cache(n))
<1>5. a \in ArmType /\ a.cache = Cache(n)
  BY ArmTyped DEF Cache, Arm
<1>6. run'[n] = [r EXCEPT !.arms = Append(@, a)]
  BY <1>1, <1>4
<1> HIDE DEF a
<1>7. run'[n].arms = Append(r.arms, a) /\ run'[n].cmd = r.cmd
      /\ (r.cmd = "bench" => run'[n].gold = r.gold) /\ r.cmd # "recording"
  BY <1>2, <1>6 DEF BaselineRuns, BenchRuns, HeldRuns
<1>8. n \in warm' /\ UNCHANGED <<goldens, incidents>>
  BY DEF RunArm, bounds
<1>9. incidents = 0 => NoneCold(run'[n].arms)
  <2>1. incidents = 0 => a.cache = "warm" /\ NoneCold(r.arms)
    BY <1>5 DEF Tempered, Cache
  <2> QED
    BY <1>3, <1>5, <1>7, <2>1, AppendCold
<1>10. OneCold(run'[n].arms)
  <2>1. a.cache = "warm" \/ NoneCold(r.arms)
    BY <1>5 DEF Tempered, Cache
  <2> QED
    BY <1>3, <1>5, <1>7, <2>1, AppendCold DEF Tempered
<1> QED
  BY <1>7, <1>8, <1>9, <1>10 DEF Tempered

LEMMA ScreenTempers ==
    ASSUME IInv, Repeats >= 3, NEW n \in Nodes, ScreenBaseline(n), Tempered(n)
    PROVE  Tempered(n)'
<1> DEFINE arms == run[n].arms
           outputs == Screened(arms)
           command == [cmd |-> "recording", outputs |-> outputs, arms |-> << >>]
<1>1. run[n] \in Runs /\ run[n].cmd = "baseline" /\ Len(arms) = Repeats
      /\ run \in [Nodes -> Runs] /\ goldens \in [Nodes -> GoldFiles]
  BY DEF IInv, StateTyped, ScreenBaseline, ArmsDone, ArmsOf
<1>2. run[n] \in BaselineRuns
  BY <1>1 DEF Runs, Idle, RecordingRuns, BenchRuns, HeldRuns
<1>3. arms \in Seq(ArmType) /\ Len(arms) >= 3
  BY <1>1, <1>2 DEF BaselineRuns
<1>4. WarmGold(outputs)
  BY <1>3, ScreenedIsWarm DEF Tempered
<1> HIDE DEF arms, outputs
<1>5. UNCHANGED <<warm, incidents>>
  BY DEF ScreenBaseline, bounds
<1>6. CASE run' = [run EXCEPT ![n] = Idle] /\ UNCHANGED goldens
  BY <1>1, <1>5, <1>6, IdleTempered DEF Tempered, Idle
<1>7. CASE goldens' = [goldens EXCEPT ![n] = Torn] /\ run' = [run EXCEPT ![n] = command]
  <2>1. run'[n] = command /\ goldens'[n] = Torn
    BY <1>1, <1>7
  <2> QED
    BY <1>4, <1>5, <2>1, NoArms DEF Tempered, Torn
<1> QED
  BY <1>6, <1>7 DEF ScreenBaseline, outputs, arms

\* A command begins without an arm, a bench with the goldens of its node.
LEMMA BeginTempers ==
    ASSUME IInv, NEW n \in Nodes, Tempered(n),
           \/ StartBaseline(n)
           \/ \E p \in Patches : StartBench(n, p) \/ StartHeldout(n, p)
    PROVE  Tempered(n)'
<1>1. run \in [Nodes -> Runs] /\ UNCHANGED <<warm, goldens, incidents>>
  BY DEF IInv, StateTyped, StartBaseline, StartBench, StartHeldout, Begin
<1>2. /\ run'[n].arms = << >> /\ run'[n].cmd # "recording"
      /\ run'[n].cmd = "bench" => run'[n].gold = goldens[n].prompts
  BY <1>1 DEF StartBaseline, StartBench, StartHeldout, Begin
<1> QED
  BY <1>1, <1>2, NoArms DEF Tempered

\* Every step, at its own node ...
LEMMA TemperedHere ==
    ASSUME IInv, Repeats >= 3, [Next]_vars, incidents' <= 1, \A m \in Nodes : Tempered(m),
           NEW n \in Nodes
    PROVE  Tempered(n)'
<1>1. /\ run \in [Nodes -> Runs] /\ goldens \in [Nodes -> GoldFiles]
      /\ incidents \in Nat /\ Tempered(n)
  BY PipelineAssumption DEF IInv, StateTyped
<1>2. CASE UNCHANGED vars
  BY <1>1, <1>2, SameTempered DEF vars, bounds
<1>3. ASSUME NEW m \in Nodes, NEW p \in Patches, EditPatch(m, p) PROVE Tempered(n)'
  BY <1>1, <1>3, SameTempered DEF EditPatch
<1>4. ASSUME NEW m \in Nodes, EvictCache(m) PROVE Tempered(n)'
  BY <1>1, <1>4, EvictTempers
<1>5. ASSUME NEW m \in Nodes, Warm(m) PROVE Tempered(n)'
  BY <1>1, <1>5, SameTempered DEF Warm, bounds
<1>6. ASSUME NEW m \in Nodes,
             \/ StartBaseline(m) \/ \E p \in Patches : StartBench(m, p) \/ StartHeldout(m, p)
      PROVE  Tempered(n)'
  <2>1. n # m => run'[n] = run[n]
    BY <1>1, <1>6 DEF StartBaseline, StartBench, StartHeldout, Begin
  <2>2. UNCHANGED <<warm, goldens, incidents>>
    BY <1>6 DEF StartBaseline, StartBench, StartHeldout, Begin
  <2> QED
    BY <1>1, <1>6, <2>1, <2>2, BeginTempers, SameTempered
<1>7. ASSUME NEW m \in Nodes, RunArm(m) PROVE Tempered(n)'
  <2>1. n # m => run'[n] = run[n]
    BY <1>1, <1>7 DEF RunArm
  <2>2. UNCHANGED <<goldens, incidents>> /\ (n \in warm => n \in warm')
    BY <1>7 DEF RunArm, bounds
  <2> QED
    BY <1>1, <1>7, <2>1, <2>2, RunArmTempers, SameTempered
<1>8. ASSUME NEW m \in Nodes, Abort(m) \/ FinishBench(m) \/ FinishHeldout(m) PROVE Tempered(n)'
  <2>1. run' = [run EXCEPT ![m] = Idle] /\ UNCHANGED <<warm, goldens, incidents>>
    BY <1>8 DEF Abort, FinishBench, FinishHeldout, bounds
  <2>2. CASE n = m
    BY <1>1, <2>1, <2>2, IdleTempered DEF Tempered, Idle
  <2>3. CASE n # m
    BY <1>1, <2>1, <2>3, SameTempered
  <2> QED
    BY <2>2, <2>3
<1>9. ASSUME NEW m \in Nodes, ScreenBaseline(m) PROVE Tempered(n)'
  <2>1. n # m => run'[n] = run[n] /\ goldens'[n] = goldens[n]
    BY <1>1, <1>9 DEF ScreenBaseline
  <2>2. UNCHANGED <<warm, incidents>>
    BY <1>9 DEF ScreenBaseline, bounds
  <2> QED
    BY <1>1, <1>9, <2>1, <2>2, ScreenTempers, SameTempered
<1>10. ASSUME NEW m \in Nodes, RecordGoldens(m) PROVE Tempered(n)'
  <2>1. /\ goldens' = [goldens EXCEPT ![m] = Good(run[m].outputs)]
        /\ run' = [run EXCEPT ![m] = Idle] /\ UNCHANGED <<warm, incidents>>
        /\ run[m].cmd = "recording"
    BY <1>10 DEF RecordGoldens, bounds
  <2>2. CASE n = m
    <3>1. goldens'[n].prompts = run[n].outputs
      BY <1>1, <2>1, <2>2 DEF Good
    <3> QED
      BY <1>1, <2>1, <2>2, <3>1, IdleTempered DEF Tempered, Idle
  <2>3. CASE n # m
    BY <1>1, <2>1, <2>3, SameTempered
  <2> QED
    BY <2>2, <2>3
<1>11. ASSUME NEW m, NEW rec, NEW held, NEW force, Promote(m, rec, held, force) PROVE Tempered(n)'
  BY <1>1, <1>11, SameTempered DEF Promote, bounds
<1> QED
  BY <1>2, <1>3, <1>4, <1>5, <1>6, <1>7, <1>8, <1>9, <1>10, <1>11 DEF Next

LEMMA IncidentsGrow == ASSUME IInv, [Next]_vars, incidents' <= 1 PROVE incidents <= 1
<1>1. incidents \in Nat
  BY PipelineAssumption DEF IInv, StateTyped
<1>2. incidents' \in {incidents, incidents + 1}
  BY DEF Next, vars, bounds, EditPatch, EvictCache, Warm, StartBaseline, StartBench, StartHeldout,
     Begin, RunArm, Abort, ScreenBaseline, RecordGoldens, FinishBench, FinishHeldout, Promote
<1> QED
  BY <1>1, <1>2

LEMMA OneIncidentNext ==
    ASSUME IInv, Repeats >= 3, OneIncident, [Next]_vars PROVE OneIncident'
<1> SUFFICES ASSUME incidents' <= 1
             PROVE  (\A n \in Nodes : Tempered(n)') /\ \A r \in benches' : HonestDiffers(r)
  BY DEF OneIncident, HonestDiffers
<1>1. (\A n \in Nodes : Tempered(n)) /\ \A r \in benches : HonestDiffers(r)
  BY IncidentsGrow DEF OneIncident
<1>2. \A n \in Nodes : Tempered(n)'
  BY <1>1, TemperedHere
<1>3. ASSUME NEW n \in Nodes, FinishBench(n) PROVE \A r \in benches' : HonestDiffers(r)
  <2>1. run[n] \in Runs /\ run[n].cmd = "bench"
    BY <1>3 DEF FinishBench, ArmsDone, IInv, StateTyped
  <2>2. run[n] \in BenchRuns /\ WarmGold(run[n].gold)
    BY <1>1, <2>1 DEF Runs, Idle, BaselineRuns, RecordingRuns, HeldRuns, Tempered
  <2>3. HonestDiffers(BenchRecord(n, run[n]))
    BY <2>2, HonestRecord
  <2> QED
    BY <1>1, <1>3, <2>3 DEF FinishBench
<1>4. ASSUME benches' = benches PROVE \A r \in benches' : HonestDiffers(r)
  BY <1>1, <1>4
<1>5. benches' = benches \/ \E n \in Nodes : FinishBench(n)
  BY DEF Next, vars, records, EditPatch, EvictCache, Warm, StartBaseline, StartBench, StartHeldout,
     Begin, RunArm, Abort, ScreenBaseline, RecordGoldens, FinishHeldout, Promote
<1> QED
  BY <1>2, <1>3, <1>4, <1>5

LEMMA OneIncidentInit == Init => OneIncident
<1> SUFFICES ASSUME Init PROVE OneIncident
  OBVIOUS
<1>1. WarmGold(Absent.prompts)
  BY NoArms DEF Absent
<1>2. WarmGold(Good([p \in Shipped |-> Output(Arm(Stock, {}, "warm"), p)]).prompts)
  BY DEF Good, WarmGold, Output, Arm
<1>3. \A n \in Nodes : n \in warm /\ run[n] = Idle /\ WarmGold(goldens[n].prompts)
  BY <1>1, <1>2 DEF Init
<1>4. \A n \in Nodes : Tempered(n)
  BY <1>3, NoArms DEF Tempered, Idle
<1> QED
  BY <1>4 DEF Init, OneIncident

LEMMA OneIncidentAlways == ASSUME Repeats >= 3 PROVE Spec => []OneIncident
<1>1. IInv /\ OneIncident /\ [Next]_vars => OneIncident'
  BY OneIncidentNext
<1> QED
  BY <1>1, OneIncidentInit, Invariance, PTL DEF Spec

-----------------------------------------------------------------------------
(* The theorems.                                                           *)

\* Every reachable state is well typed: no command writes a record of fewer
\* pairs than it was to run, goldens.json only ever holds prompts of the target,
\* and the board counts what was promoted.
THEOREM TypeCorrect == Spec => []TypeOK
<1>1. IInv => TypeOK
  <2> SUFFICES ASSUME IInv PROVE TypeOK
    OBVIOUS
  <2>1. ASSUME NEW n \in Nodes
        PROVE  /\ goldens[n].state \in {"absent", "torn", "good"}
               /\ DOMAIN goldens[n].prompts \subseteq Prompts
    <3>1. goldens[n] \in GoldFiles
      BY DEF IInv, StateTyped
    <3>2. CASE goldens[n] \in {Absent, Torn}
      BY <3>2 DEF Absent, Torn
    <3>3. ASSUME NEW g \in Usable, goldens[n] = Good(g)
          PROVE  goldens[n].state = "good" /\ DOMAIN goldens[n].prompts \subseteq Prompts
      BY <3>3, GoldFacts DEF Good, Usable
    <3> QED
      BY <3>1, <3>2, <3>3 DEF GoldFiles
  <2>2. ASSUME NEW n \in Nodes
        PROVE  run[n].cmd \in {"idle", "baseline", "recording", "bench", "heldout"}
    BY DEF IInv, StateTyped, Runs, Idle, BaselineRuns, RecordingRuns, BenchRuns, HeldRuns
  <2> QED
    BY <2>1, <2>2 DEF TypeOK, IInv, StateTyped, RecordsSound, BenchSound, HeldSound, ChainEarned
<1> QED
  BY <1>1, Invariance, PTL

\* Without --force, what promote appends rests on a bench and a held-out run of
\* the promoting node, for one patch name, that passed the gates they carry;
\* with --force a held-out record still has to fit (arena.py:1440-1494).
THEOREM PromotionsBacked == Spec => []PromotionsAreBacked
<1>1. IInv => PromotionsAreBacked
  <2> SUFFICES ASSUME IInv, NEW h \in Promoted
               PROVE  /\ h.held # NoRecord => h.held.passed /\ h.held.patch = h.record.patch
                      /\ ~h.force => /\ h.record.node = h.node
                                     /\ h.record.identity /\ h.record.floors
                                     /\ h.held # NoRecord /\ h.held.node = h.node
    BY DEF PromotionsAreBacked
  <2>1. Earned(h) /\ BenchSound(h.record)
    BY DEF IInv, ChainEarned, RecordsSound, Earned
  <2>2. CanPromote(h.node, h.record, h.held, h.force)
    BY <2>1 DEF Earned
  <2> QED
    BY <2>1, <2>2 DEF CanPromote, Local, Fits, BenchSound
<1> QED
  BY <1>1, Invariance, PTL

\* What bench compares with goldens.json agrees with the baseline arms of its
\* own session, wherever the goldens came from and whatever happened since
\* (arena.py:1262-1271).
THEOREM GoldensStandForBaseline == Spec => []IdentityIsToBaseline
<1>1. IInv => IdentityIsToBaseline
  BY DEF IInv, RecordsSound, BenchSound, IdentityIsToBaseline
<1> QED
  BY <1>1, Invariance, PTL

\* An unforced promotion whose held-out run saw the benched content leaves the
\* output of every examined prompt alone (arena.py:1262-1271, 1323-1333).
THEOREM TokensKept == Spec => []PromotedKeepsTokens
<1>1. IInv => PromotedKeepsTokens
  <2> SUFFICES ASSUME IInv, NEW h \in Promoted, ~h.force, SameContent(h),
                      NEW c \in h.record.seen.booted
               PROVE  Changes[c] \cap (h.record.seen.examined \cup HeldOut) \subseteq Knife
    BY DEF PromotedKeepsTokens
  <2>1. Earned(h)
    BY DEF IInv, ChainEarned
  <2>2. /\ h.record.promotable /\ h.held.passed
        /\ h.record \in benches /\ h.held \in helds
    BY <2>1 DEF Earned, CanPromote, Fits
  <2>3. Changes[c] \cap h.record.seen.examined = {}
    BY <2>2 DEF IInv, RecordsSound, BenchSound
  <2>4. Changes[c] \cap HeldOut = {}
    BY <2>2 DEF IInv, RecordsSound, HeldSound, SameContent
  <2> QED
    BY <2>3, <2>4
<1> QED
  BY <1>1, Invariance, PTL

\* With the one pair heldout runs by default, the benched speedup claimed and
\* the benched content verified, an unforced promotion keeps the tolerated
\* fraction of its published gain on unseen prompts (arena.py:1335-1343).
THEOREM GainsGeneralize == ASSUME HeldPairs = 1 PROVE Spec => []PromotedGeneralizes
<1>1. ASSUME NEW x \in Int, NEW y \in Int, NEW t \in Nat, x >= y
      PROVE  x * t >= y * t
  <2>1. x - y \in Nat
    BY <1>1
  <2>2. (x - y) * t \in Nat
    BY <2>1
  <2>3. (x - y) * t = x * t - y * t
    OBVIOUS
  <2>4. x * t \in Int /\ y * t \in Int
    OBVIOUS
  <2> QED
    BY <2>2, <2>3, <2>4
<1>2. IInv => PromotedGeneralizes
  <2> SUFFICES ASSUME IInv, NEW h \in Promoted, ~h.force, h.record.decode > GRID,
                      SameContent(h), h.held.claim >= h.record.decode,
                      NEW c \in h.record.seen.booted
               PROVE  (Speed[c].heldDecode - GRID) * GRID >= (h.record.decode - GRID) * TOLERANCE
    BY DEF PromotedGeneralizes
  <2>1. Earned(h)
    BY DEF IInv, ChainEarned
  <2>2. h.held.passed /\ h.record \in benches /\ h.held \in helds
    BY <2>1 DEF Earned, CanPromote, Fits
  <2>3. h.record.decode \in Nat /\ h.held.claim \in Nat
    BY <2>2 DEF IInv, RecordsSound, BenchSound, HeldSound
  <2>4. c \in Contents /\ Generalizes(Speed[c].heldDecode, h.held.claim)
    BY <2>2 DEF IInv, RecordsSound, HeldSound, SameContent
  <2>5. GRID \in Nat /\ TOLERANCE \in Nat /\ Speed[c].heldDecode \in Nat
    BY <2>4, PipelineAssumption
  <2> DEFINE unseen == (Speed[c].heldDecode - GRID) * GRID
             claimed == (h.held.claim - GRID) * TOLERANCE
             published == (h.record.decode - GRID) * TOLERANCE
  <2>6. h.held.claim > GRID
    BY <2>3, <2>5
  <2>7. unseen >= claimed
    BY <2>4, <2>6 DEF Generalizes
  <2>8. claimed >= published
    BY <1>1, <2>3, <2>5
  <2>9. unseen \in Int /\ claimed \in Int /\ published \in Int
    BY <2>3, <2>5
  <2> HIDE DEF unseen, claimed, published
  <2>10. unseen >= published
    BY <2>7, <2>8, <2>9
  <2> QED
    BY <2>10 DEF unseen, published
<1> QED
  BY <1>2, Invariance, PTL

\* A bench record whose gate 2 compared nothing is only ever written on a node
\* that has no goldens.json at all, whoever was killed over one
\* (arena.py:1208-1216, 1246).
THEOREM NothingPassesUnexamined == Spec => NeverUnexamined
<1>1. IInv /\ [Next]_vars =>
        [\A r \in benches' \ benches : r.seen.examined = {} => goldens[r.node].state = "absent"]_vars
  <2> SUFFICES ASSUME IInv, [Next]_vars, NEW r \in benches' \ benches, r.seen.examined = {}
               PROVE  goldens[r.node].state = "absent"
    OBVIOUS
  <2>1. PICK n \in Nodes : FinishBench(n)
    BY DEF Next, vars, records, EditPatch, EvictCache, Warm, StartBaseline, StartBench,
       StartHeldout, Begin, RunArm, Abort, ScreenBaseline, RecordGoldens, FinishHeldout, Promote
  <2>2. r = BenchRecord(n, run[n])
    BY <2>1 DEF FinishBench
  <2>3. r.node = n /\ r.seen.examined = DOMAIN run[n].gold
    BY <2>2 DEF BenchRecord
  <2>4. goldens[n] = Absent
    BY <2>1, <2>3 DEF FinishBench, ArmsDone, IInv, GoldsRead
  <2> QED
    BY <2>3, <2>4 DEF Absent
<1> QED
  BY <1>1, Invariance, PTL DEF Spec, NeverUnexamined

\* "it would fail honest submissions at random" (arena.py:1169-1170): with the
\* four boots `baseline` makes by default, or three, a warm bench of a patch that
\* changes nothing differs on a knife-edge prompt or not at all, whichever one
\* cache was lost, whatever the repository ships; and against goldens that a
\* baseline recorded, on one nobody has seen flip.  With two boots the one that
\* counts may be cold.
THEOREM HonestPass ==
    ASSUME Repeats >= 3 PROVE Spec => []HonestIsIdentical
<1>1. OneIncident => HonestIsIdentical
  BY DEF OneIncident, HonestDiffers, HonestIsIdentical
<1> QED
  BY <1>1, OneIncidentAlways, PTL
=============================================================================
