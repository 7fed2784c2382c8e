--------------------------- MODULE AttemptProofs ---------------------------
(***************************************************************************)
(* Proofs about Attempt, for any patches, prompts, effects and bounds: the *)
(* probe filter never lets a refused patch reach a bench, and a verdict    *)
(* says something true of the patch whenever its two boots can be compared.*)
(***************************************************************************)
EXTENDS Attempt, TLAPS

(* The inductive invariant.                                                *)

Typed ==
    /\ config \in 1..incidents + 1
    /\ warm \in BOOLEAN /\ incidents \in 0..MaxIncidents
    /\ stage \in {"none", "probe", "bench"}
    /\ patch \in Patches
    /\ anyway \in BOOLEAN
    /\ attempts \in 0..MaxAttempts
    /\ stage # "none" => attempts >= 1
    /\ DOMAIN ledger \subseteq 1..attempts
    /\ DOMAIN probes \subseteq 1..attempts
    /\ DOMAIN benches \subseteq 1..attempts

\* The verdicts that end an attempt.
Refused(r) ==
    \/ r.verdict = "no-effect"
    \/ r.verdict = "will-fail-gate-2" /\ ~r.anyway

\* An attempt has not written the records of a stage it is still in, and is
\* at its bench only with a probe that let it on, or none.
RecordsFollowStages ==
    /\ stage = "probe" => attempts \notin DOMAIN probes \cup DOMAIN benches
    /\ stage = "bench" => /\ attempts \notin DOMAIN benches
                          /\ attempts \in DOMAIN probes => ~Refused(probes[attempts])

\* The stored baseline is a boot of the stock wheel, so every output in it is
\* stock's, on the usual side off the knife edge.
StockBoot(b) ==
    \E c \in Nat, f \in SUBSET Knife : \E ps, cache : \E l \in Fingerprints(c, Stock) :
        b = Boot(c, Stock, ps, l, f, cache)

BaseIsStock == probeBase = NoBase \/ probeBase = Torn \/ StockBoot(probeBase)

NeverBenched(r, i) == Refused(r) => i \notin DOMAIN benches
Inert(r) == r.verdict = "no-effect" /\ r.sameConfig /\ r.shown => r.patch \notin Dispatch
Blamed(r) == Changes[r.patch] \cap First(ProbePrompts) # {} => r.verdict = "will-fail-gate-2"
Blames(r) == r.comparable => r.mismatched \subseteq Changes[r.patch] \cup Knife

RecordsSound ==
    \A i \in DOMAIN probes :
        NeverBenched(probes[i], i) /\ Inert(probes[i]) /\ Blamed(probes[i]) /\ Blames(probes[i])

IInv == Typed /\ RecordsFollowStages /\ BaseIsStock /\ RecordsSound

-----------------------------------------------------------------------------
(* What a verdict says.                                                    *)

\* A probed prompt shows a change of the patch, unless the stored baseline is
\* no boot of the stock wheel: the outputs differ in their text.
LEMMA ChangesMismatch ==
    ASSUME NEW b, StockBoot(b),
           NEW c, NEW p \in Patches, NEW ps, NEW l, NEW f, NEW cache,
           NEW q \in Changes[p] \cap ps
    PROVE  q \in Mismatched(b, Boot(c, p, ps, l, f, cache))
<1> DEFINE cand == Boot(c, p, ps, l, f, cache)
<1>1. PICK d, qs, m, g, old :
        d \in Nat /\ g \in SUBSET Knife /\ m \in Fingerprints(d, Stock)
        /\ b = Boot(d, Stock, qs, m, g, old)
  BY DEF StockBoot
<1>2. cand.prompts = ps /\ cand.output[q] = Output(p, q, f, cache)
  BY DEF Boot
<1>3. p # Stock
  BY AttemptAssumption
<1>4. Output(p, q, f, cache)[1] = p
  BY <1>3 DEF Output
<1>5. CASE q \notin b.prompts
  BY <1>2, <1>5 DEF Mismatched
<1>6. CASE q \in b.prompts
  <2>1. b.output[q] = Output(Stock, q, g, old)
    BY <1>1, <1>6 DEF Boot
  <2>2. Output(Stock, q, g, old)[1] = Stock
    BY DEF Output
  <2>3. b.output[q] # cand.output[q]
    BY <1>2, <1>3, <1>4, <2>1, <2>2
  <2> QED
    BY <1>2, <2>3 DEF Mismatched
<1> QED
  BY <1>5, <1>6

\* Under one config, a patch that moves the dispatch shows another line, if any.
LEMMA DispatchShows ==
    ASSUME NEW c \in Nat, NEW p \in Dispatch, NEW l \in Fingerprints(c, Stock),
           l \in Fingerprints(c, p)
    PROVE  l = {}
<1>1. Stock \notin Dispatch
  BY AttemptAssumption
<1>2. Kernel(c, p) # Kernel(c, Stock)
  BY <1>1 DEF Kernel
<1> QED
  BY <1>2 DEF Fingerprints

\* "no-effect" against a stock boot of the same config that shows its lines is
\* true of the patch.
LEMMA NoEffectIsTrue ==
    ASSUME NEW b, StockBoot(b), b.fingerprint # {},
           NEW p \in Patches, NEW ps, NEW l \in Fingerprints(b.config, p), NEW f, NEW cache,
           Verdict(b, Boot(b.config, p, ps, l, f, cache), p) = "no-effect"
    PROVE  p \notin Dispatch
<1> DEFINE cand == Boot(b.config, p, ps, l, f, cache)
<1>1. PICK d, qs, m, g, old :
        d \in Nat /\ g \in SUBSET Knife /\ m \in Fingerprints(d, Stock)
        /\ b = Boot(d, Stock, qs, m, g, old)
  BY DEF StockBoot
<1>2. b.fingerprint = cand.fingerprint
  BY DEF Verdict
<1>3. b.config = d /\ b.fingerprint = m /\ cand.fingerprint = l
  BY <1>1 DEF Boot
<1> QED
  BY <1>1, <1>2, <1>3, DispatchShows

\* A probed prompt that the patch changes decides the verdict.
LEMMA ChangesDecide ==
    ASSUME NEW b, StockBoot(b),
           NEW c, NEW p \in Patches, NEW ps, NEW l, NEW f, NEW cache, Changes[p] \cap ps # {}
    PROVE  Verdict(b, Boot(c, p, ps, l, f, cache), p) = "will-fail-gate-2"
<1>1. PICK q : q \in Changes[p] \cap ps
  OBVIOUS
<1>2. Mismatched(b, Boot(c, p, ps, l, f, cache)) # {}
  BY <1>1, ChangesMismatch
<1> QED
  BY <1>2 DEF Verdict

\* Off the knife edge, two boots on a warm cache differ where the patch does.
LEMMA BlameIsTrue ==
    ASSUME NEW b, StockBoot(b),
           NEW c, NEW p \in Patches, NEW ps, NEW l, NEW f \in SUBSET Knife, NEW cache,
           Comparable(b, Boot(c, p, ps, l, f, cache))
    PROVE  Mismatched(b, Boot(c, p, ps, l, f, cache)) \subseteq Changes[p] \cup Knife
<1> DEFINE cand == Boot(c, p, ps, l, f, cache)
<1> SUFFICES ASSUME NEW q \in Mismatched(b, cand), q \notin Changes[p], q \notin Knife
             PROVE  FALSE
  OBVIOUS
<1>1. PICK d, qs, m, g, old :
        d \in Nat /\ g \in SUBSET Knife /\ m \in Fingerprints(d, Stock)
        /\ b = Boot(d, Stock, qs, m, g, old)
  BY DEF StockBoot
<1>2. cand.prompts = ps /\ cand.cache = cache
  BY DEF Boot
<1>3. b.prompts = qs /\ b.cache = old
  BY <1>1 DEF Boot
<1>4. ps \subseteq qs /\ old = "warm" /\ cache = "warm"
  BY <1>2, <1>3 DEF Comparable
<1>5. q \in ps
  BY <1>2 DEF Mismatched
<1>6. b.output[q] = Output(Stock, q, g, old)
  BY <1>1, <1>4, <1>5 DEF Boot
<1>7. cand.output[q] = Output(p, q, f, cache)
  BY <1>5 DEF Boot
<1>8. Output(Stock, q, g, old) = Output(p, q, f, cache)
  BY <1>1, <1>4 DEF Output
<1> QED
  BY <1>3, <1>4, <1>5, <1>6, <1>7, <1>8 DEF Mismatched

-----------------------------------------------------------------------------
(* The invariant is inductive.                                             *)

LEMMA InitHolds == Init => IInv
<1> SUFFICES ASSUME Init PROVE IInv
  OBVIOUS
<1>1. DOMAIN ledger = {} /\ DOMAIN probes = {} /\ DOMAIN benches = {}
  BY DEF Init
<1>2. config \in 1..incidents + 1 /\ incidents \in 0..MaxIncidents /\ attempts \in 0..MaxAttempts
  BY AttemptAssumption DEF Init
<1> warm \in BOOLEAN /\ anyway \in BOOLEAN /\ stage = "none" /\ patch \in Patches
  BY DEF Init
<1> Typed
  BY <1>1, <1>2 DEF Typed
<1>3. RecordsFollowStages /\ BaseIsStock
  BY DEF Init, RecordsFollowStages, BaseIsStock
<1>4. RecordsSound
  BY <1>1 DEF RecordsSound
<1> QED
  BY <1>3, <1>4 DEF IInv

\* A boot of the stock wheel under the current config is a stock boot.
LEMMA StockBoots ==
    ASSUME Typed, NEW ps, NEW l \in Fingerprints(config, Stock), NEW f \in Flips(ps)
    PROVE  StockBoot(Boot(config, Stock, ps, l, f, Cache))
<1>1. config \in Nat /\ f \in SUBSET Knife
  BY DEF Typed, Flips
<1> QED
  BY <1>1 DEF StockBoot

\* Whatever ends an attempt writes its entry under its own number.
LEMMA FinishKeepsLedger ==
    ASSUME Typed, stage # "none", NEW st, NEW outcome, Finish(st, outcome)
    PROVE  DOMAIN ledger' \subseteq 1..attempts
BY DEF Finish, Typed

\* The probe record of an attempt says something true, whatever it was
\* compared with.
LEMMA ProbeSpeaksTruly ==
    ASSUME Typed, BaseIsStock, probeBase # NoBase, probeBase # Torn,
           NEW l \in Fingerprints(config, patch), NEW f \in Flips(First(ProbePrompts)), NEW r,
           LET cand == Boot(config, patch, First(ProbePrompts), l, f, Cache)
           IN  r = [verdict |-> Verdict(probeBase, cand, patch), patch |-> patch, anyway |-> anyway,
                    mismatched |-> Mismatched(probeBase, cand),
                    sameConfig |-> probeBase.config = config,
                    shown |-> probeBase.fingerprint # {},
                    comparable |-> Comparable(probeBase, cand)]
    PROVE  Inert(r) /\ Blamed(r) /\ Blames(r)
<1> DEFINE cand == Boot(config, patch, First(ProbePrompts), l, f, Cache)
<1>1. StockBoot(probeBase) /\ patch \in Patches /\ f \in SUBSET Knife
  BY DEF BaseIsStock, Typed, Flips
<1>2. Inert(r)
  <2> SUFFICES ASSUME r.verdict = "no-effect", r.sameConfig, r.shown
               PROVE  r.patch \notin Dispatch
    BY DEF Inert
  <2>1. Verdict(probeBase, cand, patch) = "no-effect" /\ probeBase.config = config
        /\ r.patch = patch /\ probeBase.fingerprint # {}
    OBVIOUS
  <2> HIDE DEF cand
  <2>2. cand = Boot(probeBase.config, patch, First(ProbePrompts), l, f, Cache)
    BY <2>1 DEF cand
  <2>3. l \in Fingerprints(probeBase.config, patch)
    BY <2>1
  <2> QED
    BY <1>1, <2>1, <2>2, <2>3, NoEffectIsTrue
<1>3. Blamed(r)
  <2>1. r.verdict = Verdict(probeBase, cand, patch) /\ r.patch = patch
    OBVIOUS
  <2> HIDE DEF cand
  <2>2. Changes[patch] \cap First(ProbePrompts) # {}
        => Verdict(probeBase, cand, patch) = "will-fail-gate-2"
    BY <1>1, ChangesDecide DEF cand
  <2> QED
    BY <2>1, <2>2 DEF Blamed
<1>4. Blames(r)
  <2> SUFFICES ASSUME r.comparable
               PROVE  r.mismatched \subseteq Changes[r.patch] \cup Knife
    BY DEF Blames
  <2>1. Comparable(probeBase, cand) /\ r.mismatched = Mismatched(probeBase, cand) /\ r.patch = patch
    OBVIOUS
  <2> QED
    BY <1>1, <2>1, BlameIsTrue
<1> QED
  BY <1>2, <1>3, <1>4

\* Steps that leave the records of probes and benches alone.
LEMMA QuietSteps ==
    ASSUME IInv, UNCHANGED <<probes, benches>>,
           Typed', BaseIsStock',
           \/ stage' = "none"
           \/ UNCHANGED <<stage, attempts>>
           \/ attempts' = attempts + 1
    PROVE  IInv'
<1>1. RecordsSound'
  BY DEF IInv, RecordsSound, NeverBenched, Inert, Blamed, Blames, Refused
<1>2. RecordsFollowStages'
  <2>1. CASE stage' = "none"
    BY <2>1 DEF RecordsFollowStages
  <2>2. CASE UNCHANGED <<stage, attempts>>
    BY <2>2 DEF IInv, RecordsFollowStages, Refused
  <2>3. CASE attempts' = attempts + 1
    <3>1. attempts' \notin DOMAIN probes /\ attempts' \notin DOMAIN benches
      BY <2>3 DEF IInv, Typed
    <3> QED
      BY <3>1 DEF RecordsFollowStages
  <2> QED
    BY <2>1, <2>2, <2>3
<1> QED
  BY <1>1, <1>2 DEF IInv

LEMMA ConfigPreserved == ASSUME IInv, ChangeConfig PROVE IInv'
<1>1. Typed'
  BY AttemptAssumption DEF IInv, Typed, ChangeConfig
<1>2. BaseIsStock'
  BY DEF IInv, BaseIsStock, ChangeConfig
<1> QED
  BY <1>1, <1>2, QuietSteps DEF ChangeConfig

LEMMA EvictPreserved == ASSUME IInv, EvictCache PROVE IInv'
<1>1. Typed'
  <2>1. config' \in 1..incidents' + 1 /\ incidents' \in 0..MaxIncidents
    BY AttemptAssumption DEF IInv, Typed, EvictCache
  <2>2. warm' = FALSE /\ UNCHANGED <<stage, patch, anyway, attempts, ledger, probes, benches>>
    BY DEF EvictCache
  <2> QED
    BY <2>1, <2>2 DEF IInv, Typed
<1>2. BaseIsStock'
  BY DEF IInv, BaseIsStock, EvictCache
<1> QED
  BY <1>1, <1>2, QuietSteps DEF EvictCache

LEMMA RebaselinePreserved == ASSUME IInv, Rebaseline PROVE IInv'
<1>1. Typed'
  BY DEF IInv, Typed, Rebaseline
<1>2. BaseIsStock'
  <2>1. \E ps : \E l \in Fingerprints(config, Stock), f \in Flips(ps) :
          probeBase' = Boot(config, Stock, ps, l, f, Cache)
    BY DEF Rebaseline
  <2> QED
    BY <2>1, StockBoots DEF IInv, BaseIsStock
<1> QED
  BY <1>1, <1>2, QuietSteps DEF Rebaseline

LEMMA StartPreserved == ASSUME IInv, StartAttempt PROVE IInv'
<1>1. Typed'
  BY AttemptAssumption DEF IInv, Typed, StartAttempt, node
<1>2. BaseIsStock'
  BY DEF IInv, BaseIsStock, StartAttempt
<1> QED
  BY <1>1, <1>2, QuietSteps DEF StartAttempt

LEMMA BaselinePreserved == ASSUME IInv, ProbeBaseline PROVE IInv'
<1>1. Typed'
  BY DEF IInv, Typed, ProbeBaseline
<1>2. BaseIsStock'
  <2>1. PICK l \in Fingerprints(config, Stock), f \in Flips(First(ProbePrompts)) :
          probeBase' = Boot(config, Stock, First(ProbePrompts), l, f, Cache)
    BY DEF ProbeBaseline
  <2> QED
    BY <2>1, StockBoots DEF IInv, BaseIsStock
<1> QED
  BY <1>1, <1>2, QuietSteps DEF ProbeBaseline

LEMMA TornPreserved == ASSUME IInv, BaselineTorn PROVE IInv'
<1>1. Typed'
  BY DEF IInv, Typed, BaselineTorn
<1>2. BaseIsStock'
  BY DEF BaseIsStock, BaselineTorn
<1> QED
  BY <1>1, <1>2, QuietSteps DEF BaselineTorn

LEMMA EscapePreserved == ASSUME IInv, Escape PROVE IInv'
<1>1. Typed'
  BY DEF IInv, Typed, Escape
<1>2. BaseIsStock'
  BY DEF IInv, BaseIsStock, Escape
<1> QED
  BY <1>1, <1>2, QuietSteps DEF Escape

LEMMA DeathPreserved == ASSUME IInv, BenchDies PROVE IInv'
<1>1. DOMAIN ledger' \subseteq 1..attempts /\ stage' = "none"
  BY FinishKeepsLedger DEF IInv, BenchDies, Finish
<1>2. Typed'
  BY <1>1 DEF IInv, Typed, BenchDies
<1>3. BaseIsStock'
  BY DEF IInv, BaseIsStock, BenchDies
<1> QED
  BY <1>1, <1>2, <1>3, QuietSteps DEF BenchDies

\* The probe: its record is new, true, and refuses exactly when the attempt
\* does not go on to its bench.
LEMMA CandidatePreserved == ASSUME IInv, ProbeCandidate PROVE IInv'
<1>1. PICK l \in Fingerprints(config, patch), f \in Flips(First(ProbePrompts)) :
        LET cand == Boot(config, patch, First(ProbePrompts), l, f, Cache)
            verdict == Verdict(probeBase, cand, patch)
        IN  /\ probes' = [i \in DOMAIN probes \cup {attempts} |->
                            IF i = attempts
                            THEN [verdict |-> verdict, patch |-> patch, anyway |-> anyway,
                                  mismatched |-> Mismatched(probeBase, cand),
                                  sameConfig |-> probeBase.config = config,
                                  shown |-> probeBase.fingerprint # {},
                                  comparable |-> Comparable(probeBase, cand)]
                            ELSE probes[i]]
            /\ CASE verdict = "no-effect" -> Finish("probe", "no-effect")
                 [] verdict = "will-fail-gate-2" /\ ~anyway ->
                      Finish("probe", "would-fail-token-identity")
                 [] OTHER -> stage' = "bench" /\ UNCHANGED ledger
  BY DEF ProbeCandidate
<1> DEFINE cand == Boot(config, patch, First(ProbePrompts), l, f, Cache)
           verdict == Verdict(probeBase, cand, patch)
           record == [verdict |-> verdict, patch |-> patch, anyway |-> anyway,
                      mismatched |-> Mismatched(probeBase, cand),
                      sameConfig |-> probeBase.config = config,
                      shown |-> probeBase.fingerprint # {},
                      comparable |-> Comparable(probeBase, cand)]
<1>2. Inert(record) /\ Blamed(record) /\ Blames(record)
  BY ProbeSpeaksTruly DEF IInv, ProbeCandidate
<1>3. Refused(record) <=> verdict = "no-effect" \/ (verdict = "will-fail-gate-2" /\ ~anyway)
  BY DEF Refused
<1> HIDE DEF record, verdict, cand
<1>4. probes' = [i \in DOMAIN probes \cup {attempts} |-> IF i = attempts THEN record ELSE probes[i]]
  BY <1>1 DEF record, verdict, cand
<1>5. \/ verdict = "no-effect" /\ Finish("probe", "no-effect")
      \/ /\ verdict = "will-fail-gate-2" /\ ~anyway
         /\ Finish("probe", "would-fail-token-identity")
      \/ /\ verdict # "no-effect" /\ ~(verdict = "will-fail-gate-2" /\ ~anyway)
         /\ stage' = "bench" /\ UNCHANGED ledger
  BY <1>1 DEF verdict, cand
<1>6. \/ Refused(record) /\ \E st, outcome : Finish(st, outcome)
      \/ ~Refused(record) /\ stage' = "bench" /\ UNCHANGED ledger
  BY <1>3, <1>5
<1>7. stage = "probe" /\ UNCHANGED <<config, incidents, probeBase, patch, anyway, attempts, benches>>
      /\ warm' = TRUE
  BY DEF ProbeCandidate
<1>8. /\ stage' \in {"none", "bench"}
      /\ stage' = "bench" => ~Refused(record)
      /\ DOMAIN ledger' \subseteq 1..attempts
  BY <1>6, <1>7, FinishKeepsLedger DEF IInv, Finish, Typed
<1>9. attempts \notin DOMAIN probes \cup DOMAIN benches
  BY <1>7 DEF IInv, RecordsFollowStages
<1>10. Typed'
  BY <1>4, <1>7, <1>8 DEF IInv, Typed
<1>11. RecordsFollowStages'
  BY <1>4, <1>7, <1>8, <1>9 DEF RecordsFollowStages, Refused
<1>12. BaseIsStock'
  BY <1>7 DEF IInv, BaseIsStock
<1>13. RecordsSound'
  <2> SUFFICES ASSUME NEW i \in DOMAIN probes'
               PROVE  (NeverBenched(probes[i], i) /\ Inert(probes[i]) /\ Blamed(probes[i]) /\ Blames(probes[i]))'
    BY DEF RecordsSound
  <2>1. CASE i = attempts
    <3>1. probes'[i] = record /\ i \notin DOMAIN benches'
      BY <1>4, <1>7, <1>9, <2>1
    <3> QED
      BY <1>2, <3>1 DEF NeverBenched, Inert, Blamed, Blames
  <2>2. CASE i # attempts
    <3>1. i \in DOMAIN probes /\ probes'[i] = probes[i]
      BY <1>4, <2>2
    <3> QED
      BY <1>7, <3>1 DEF IInv, RecordsSound, NeverBenched, Inert, Blamed, Blames, Refused
  <2> QED
    BY <2>1, <2>2
<1> QED
  BY <1>10, <1>11, <1>12, <1>13 DEF IInv

\* A bench record appears only for an attempt whose probe did not refuse.
LEMMA ExitsPreserved == ASSUME IInv, BenchExits PROVE IInv'
<1>1. stage = "bench" /\ stage' = "none" /\ DOMAIN ledger' \subseteq 1..attempts
  BY FinishKeepsLedger DEF IInv, BenchExits, Finish
<1>2. DOMAIN benches' = DOMAIN benches \cup {attempts}
      /\ UNCHANGED <<config, incidents, probeBase, patch, anyway, attempts, probes>> /\ warm' = TRUE
  BY DEF BenchExits
<1>3. Typed'
  BY <1>1, <1>2 DEF IInv, Typed
<1>4. RecordsFollowStages'
  BY <1>1 DEF RecordsFollowStages
<1>5. BaseIsStock'
  BY <1>2 DEF IInv, BaseIsStock
<1>6. attempts \in DOMAIN probes => ~Refused(probes[attempts])
  BY <1>1 DEF IInv, RecordsFollowStages
<1>7. RecordsSound'
  <2> SUFFICES ASSUME NEW i \in DOMAIN probes
               PROVE  (NeverBenched(probes[i], i) /\ Inert(probes[i]) /\ Blamed(probes[i]) /\ Blames(probes[i]))'
    BY <1>2 DEF RecordsSound
  <2>1. NeverBenched(probes[i], i) /\ Inert(probes[i]) /\ Blamed(probes[i]) /\ Blames(probes[i])
    BY DEF IInv, RecordsSound
  <2> QED
    BY <1>2, <1>6, <2>1 DEF NeverBenched, Inert, Blamed, Blames, Refused
<1> QED
  BY <1>3, <1>4, <1>5, <1>7 DEF IInv

LEMMA IdlePreserved == ASSUME IInv, UNCHANGED vars PROVE IInv'
<1>1. Typed' /\ BaseIsStock'
  BY DEF IInv, Typed, BaseIsStock, vars, node
<1> QED
  BY <1>1, QuietSteps DEF vars

LEMMA StepHolds == ASSUME IInv, [Next]_vars PROVE IInv'
BY ConfigPreserved, EvictPreserved, RebaselinePreserved, StartPreserved, BaselinePreserved, TornPreserved,
   CandidatePreserved, EscapePreserved, ExitsPreserved, DeathPreserved, IdlePreserved DEF Next

LEMMA AlwaysIInv == Spec => []IInv
<1>1. IInv /\ [Next]_vars => IInv'
  BY StepHolds
<1> QED
  BY <1>1, InitHolds, PTL DEF Spec

-----------------------------------------------------------------------------
(* The theorems.                                                           *)

\* Every reachable state is well typed: an attempt has at most one ledger
\* entry, one probe record and one bench record, under its own number.
THEOREM TypeCorrect == Spec => []TypeOK
<1>1. IInv => TypeOK
  BY AttemptAssumption DEF IInv, Typed, TypeOK
<1> QED
  BY <1>1, AlwaysIInv, PTL

\* The filter holds (arena.py:1625-1634): a patch that cmd_attempt's probe
\* refused is never benched by that attempt, wherever commands are killed.
THEOREM FilterHolds == Spec => []FilteredIsNeverBenched
<1>1. IInv => FilteredIsNeverBenched
  BY DEF IInv, RecordsSound, NeverBenched, Refused, FilteredIsNeverBenched
<1> QED
  BY <1>1, AlwaysIInv, PTL

\* A "no-effect" verdict of cmd_probe against a baseline of the same config
\* whose log had its selection lines is true of the patch's dispatch, whatever
\* the caches, the knife-edge prompts and the candidate's own log did.
THEOREM NoEffectIsTrusted == Spec => []NoEffectIsInert
<1>1. IInv => NoEffectIsInert
  BY DEF IInv, RecordsSound, Inert, NoEffectIsInert
<1> QED
  BY <1>1, AlwaysIInv, PTL

\* A patch that changes a probed output is refused for it, whatever cmd_probe
\* found in probe-baseline.json.
THEOREM ChangeIsSeen == Spec => []ChangedIsBlamed
<1>1. IInv => ChangedIsBlamed
  BY DEF IInv, RecordsSound, Blamed, ChangedIsBlamed
<1> QED
  BY <1>1, AlwaysIInv, PTL

\* What cmd_probe blames on a patch is its doing or a knife-edge prompt's when
\* its two boots differ in the patch alone.
THEOREM BlameIsEarned == Spec => []BlamedIsChanged
<1>1. IInv => BlamedIsChanged
  BY DEF IInv, RecordsSound, Blames, BlamedIsChanged
<1> QED
  BY <1>1, AlwaysIInv, PTL
=============================================================================
