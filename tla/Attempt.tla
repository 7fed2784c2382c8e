------------------------------ MODULE Attempt ------------------------------
(***************************************************************************)
(* `arena.py attempt`: probe -> bench -> heldout -> promote for one patch, *)
(* unattended, with a ledger entry at the end, and the `probe` filter it   *)
(* starts with.  Attempts run one after another on one node.               *)
(*                                                                         *)
(* A command ends a stage in one of three ways: it returns, it calls       *)
(* sys.exit or die (SystemExit), or another exception escapes it.          *)
(* cmd_bench ends in sys.exit on every path (arena.py:1301), so the        *)
(* attempt's handler at 1641 takes every bench and nothing after it runs:  *)
(* the held-out and promote stages of cmd_attempt have no action here.     *)
(***************************************************************************)
EXTENDS Integers, Sequences, FiniteSets

CONSTANTS
    Patches,
    Prompts,         \* the target's prompts in order, a sequence
    ProbePrompts,    \* how many of them an attempt probes (the code: 2)
    Dispatch,        \* patches that change a kernel the engine selects
    Changes,         \* patch -> prompts whose output it changes
    Knife,           \* prompts whose greedy output can flip between two boots
    Faster,          \* patches whose one-boot ratio clears probeNoise
    Promotable,      \* patches whose bench passes gates 1, 2, 4, score > 1.0
    MaxAttempts,     \* bound: attempts over a behaviour
    MaxIncidents     \* bound: changes of the pinned serve config and losses of
                     \*   the compile cache, together

Stock == "stock"

ASSUME AttemptAssumption ==
    /\ Stock \notin Patches
    /\ ProbePrompts \in 1..Len(Prompts)
    /\ Dispatch \subseteq Patches /\ Faster \subseteq Patches
    /\ Promotable \subseteq Patches
    /\ {MaxAttempts, MaxIncidents} \subseteq Nat

VARIABLES
    config,      \* version of the target's pinned serve config
    warm,        \* VLLM_CACHE_ROOT holds the compiled kernels
    incidents,   \* config changes and lost caches so far
    probeBase,   \* probe-baseline.json, or NoBase
    stage,       \* where the attempt in progress is: "none" when there is none
    patch,       \* its patch
    anyway,      \* its --bench-anyway
    attempts,    \* attempts started so far
    ledger,      \* results/_attempts/attempt-*.json: attempt number -> entry
    probes,      \* probe records: attempt number -> record
    benches      \* bench records: attempt number -> promotable

node == <<config, warm, incidents>>
vars == <<node, probeBase, stage, patch, anyway, attempts, ledger, probes, benches>>

\* No file, and a file that holds part of a boot's JSON.
NoBase == [prompts |-> {}]
Torn == [torn |-> TRUE]

\* What one boot shows under a config: the selection line, here which of two
\* kernels was chosen (a config change can flip that choice as a patch can),
\* and an output per prompt, which a cold cache changes throughout
\* (arena.py:1155-1159) and a knife-edge prompt may flip.
Kernel(c, p) == IF (c % 2 = 0) = (p \in Dispatch) THEN "kernel-a" ELSE "kernel-b"

\* The selection lines of a boot, or none of them: an unreadable log is passed
\* over (arena.py:981-983), and of a container only the last 400 lines are
\* kept (arena.py:734).
Fingerprints(c, p) == {{Kernel(c, p)}, {}}
Output(p, prompt, flipped, cache) ==
    <<IF p # Stock /\ prompt \in Changes[p] THEN p ELSE Stock,
      IF prompt \in flipped THEN "rare" ELSE "usual",
      cache>>

First(k) == {Prompts[i] : i \in 1..k}

Boot(c, p, prompts, lines, flipped, cache) ==
    [prompts |-> prompts,
     fingerprint |-> lines,
     output |-> [q \in prompts |-> Output(p, q, flipped, cache)],
     config |-> c,
     cache |-> cache]

Flips(prompts) == SUBSET (Knife \cap prompts)
Cache == IF warm THEN "warm" ELSE "cold"

\* Mutant: a prompt only the stored baseline has counts too.
MismatchedEitherWay(base, cand) ==
    {q \in base.prompts \cup cand.prompts :
        q \notin base.prompts \cap cand.prompts \/ base.output[q] # cand.output[q]}

\* A prompt the stored baseline does not have compares unequal: bh.get() is
\* None (arena.py:1051).
Mismatched(base, cand) ==
    {q \in cand.prompts : q \notin base.prompts \/ base.output[q] # cand.output[q]}

\* History: the two boots differ in the patch alone.
Comparable(base, cand) ==
    /\ base.config = cand.config
    /\ cand.prompts \subseteq base.prompts
    /\ base.cache = "warm" /\ cand.cache = "warm"

\* Mutants: equal dispatch is taken for no effect whatever the outputs; no gain
\* is taken for no effect whatever the dispatch.
VerdictByDispatch(base, cand, p) ==
    IF base.fingerprint = cand.fingerprint THEN "no-effect"
    ELSE IF Mismatched(base, cand) # {} THEN "will-fail-gate-2"
    ELSE IF p \in Faster THEN "promising" ELSE "inconclusive"

VerdictBySpeed(base, cand, p) ==
    IF Mismatched(base, cand) # {} THEN "will-fail-gate-2"
    ELSE IF p \notin Faster THEN "no-effect" ELSE "promising"

Verdict(base, cand, p) ==
    IF Mismatched(base, cand) # {} THEN "will-fail-gate-2"
    ELSE IF base.fingerprint = cand.fingerprint THEN "no-effect"
    ELSE IF p \in Faster THEN "promising" ELSE "inconclusive"

Init ==
    /\ config = 1
    /\ warm = TRUE
    /\ incidents = 0
    /\ probeBase = NoBase
    /\ stage = "none"
    /\ patch \in Patches
    /\ anyway = FALSE
    /\ attempts = 0
    /\ ledger = << >>
    /\ probes = << >>
    /\ benches = << >>

-----------------------------------------------------------------------------

\* The operator edits target.json's serveArgs between attempts.
ChangeConfig ==
    /\ stage = "none"
    /\ incidents < MaxIncidents
    /\ config' = config + 1
    /\ incidents' = incidents + 1
    /\ UNCHANGED <<warm, probeBase, stage, patch, anyway, attempts, ledger, probes, benches>>

\* The compile cache is deleted, between any two boots.
EvictCache ==
    /\ warm
    /\ incidents < MaxIncidents
    /\ warm' = FALSE
    /\ incidents' = incidents + 1
    /\ UNCHANGED <<config, probeBase, stage, patch, anyway, attempts, ledger, probes, benches>>

\* `probe --rebaseline --prompts k`, on its own.
Rebaseline ==
    /\ stage = "none"
    /\ \E k \in 1..Len(Prompts) :
       \E lines \in Fingerprints(config, Stock), flipped \in Flips(First(k)) :
         probeBase' = Boot(config, Stock, First(k), lines, flipped, Cache)
    /\ warm' = TRUE
    /\ UNCHANGED <<config, incidents, stage, patch, anyway, attempts, ledger, probes, benches>>

Entry(st, outcome) == [stage |-> st, outcome |-> outcome]

\* Mutants: the entry gets the next attempt's number; a caller of finish goes
\* on after the probe.
FinishNext(st, outcome) ==
    /\ ledger' = [i \in DOMAIN ledger \cup {attempts + 1} |->
                    IF i = attempts + 1 THEN Entry(st, outcome) ELSE ledger[i]]
    /\ stage' = "none"
FinishAndGoOn(st, outcome) ==
    /\ ledger' = [i \in DOMAIN ledger \cup {attempts} |->
                    IF i = attempts THEN Entry(st, outcome) ELSE ledger[i]]
    /\ stage' = IF st = "probe" THEN "bench" ELSE "none"

\* finish(): write the ledger entry; the attempt is over.
Finish(st, outcome) ==
    /\ ledger' = [i \in DOMAIN ledger \cup {attempts} |->
                    IF i = attempts THEN Entry(st, outcome) ELSE ledger[i]]
    /\ stage' = "none"

StartAttempt ==
    /\ stage = "none"
    /\ attempts < MaxAttempts
    /\ attempts' = attempts + 1
    /\ patch' \in Patches
    /\ anyway' \in BOOLEAN
    /\ \E skip \in BOOLEAN : stage' = IF skip THEN "bench" ELSE "probe"
    /\ UNCHANGED <<node, probeBase, ledger, probes, benches>>

\* The first probe of a target records the baseline before its candidate.
ProbeBaseline ==
    /\ stage = "probe"
    /\ probeBase = NoBase
    /\ \E lines \in Fingerprints(config, Stock), flipped \in Flips(First(ProbePrompts)) :
         probeBase' = Boot(config, Stock, First(ProbePrompts), lines, flipped, Cache)
    /\ warm' = TRUE
    /\ UNCHANGED <<config, incidents, stage, patch, anyway, attempts, ledger, probes, benches>>

\* A probe is killed in write_text, which has truncated the old baseline
\* (arena.py:1036), on its own or in an attempt.
BaselineTorn ==
    /\ stage = "none" \/ (stage = "probe" /\ probeBase = NoBase)
    /\ probeBase' = Torn
    /\ stage' = "none"
    /\ warm' = TRUE
    /\ UNCHANGED <<config, incidents, patch, anyway, attempts, ledger, probes, benches>>

\* The candidate boot, the verdict, the probe record, and what cmd_attempt
\* does with the verdict.  A torn baseline exists (arena.py:1033), so it is not
\* recorded again, and json.loads raises on it (1043): only Escape is left.
ProbeCandidate ==
    /\ stage = "probe"
    /\ probeBase # NoBase /\ probeBase # Torn
    /\ \E lines \in Fingerprints(config, patch), flipped \in Flips(First(ProbePrompts)) :
       LET cand == Boot(config, patch, First(ProbePrompts), lines, flipped, Cache)
           verdict == Verdict(probeBase, cand, patch)
       IN  /\ probes' = [i \in DOMAIN probes \cup {attempts} |->
                           IF i = attempts
                           THEN [verdict |-> verdict, patch |-> patch, anyway |-> anyway,
                                 mismatched |-> Mismatched(probeBase, cand),
                                 sameConfig |-> probeBase.config = config,
                                 shown |-> probeBase.fingerprint # {},
                                 comparable |-> Comparable(probeBase, cand)]
                           ELSE probes[i]]
           /\ CASE verdict = "no-effect" -> Finish("probe", "no-effect")
                [] verdict = "will-fail-gate-2" /\ ~anyway ->
                     Finish("probe", "would-fail-token-identity")
                [] OTHER -> stage' = "bench" /\ UNCHANGED ledger
    /\ warm' = TRUE
    /\ UNCHANGED <<config, incidents, probeBase, patch, anyway, attempts, benches>>

\* A boot of the probe dies, its baseline cannot be parsed, or any stage is
\* interrupted: nothing catches it.
Escape ==
    /\ stage \in {"probe", "bench"}
    /\ stage' = "none"
    /\ warm' \in {warm, TRUE}
    /\ UNCHANGED <<config, incidents, probeBase, patch, anyway, attempts, ledger, probes, benches>>

\* cmd_bench runs to its end: the record is written, then sys.exit.
BenchExits ==
    /\ stage = "bench"
    /\ benches' = [i \in DOMAIN benches \cup {attempts} |->
                     IF i = attempts THEN patch \in Promotable ELSE benches[i]]
    /\ Finish("bench", "bench-failed")
    /\ warm' = TRUE
    /\ UNCHANGED <<config, incidents, probeBase, patch, anyway, attempts, probes>>

\* An arm of the bench dies: the same handler, and no record.
BenchDies ==
    /\ stage = "bench"
    /\ Finish("bench", "bench-failed")
    /\ warm' \in {warm, TRUE}
    /\ UNCHANGED <<config, incidents, probeBase, patch, anyway, attempts, probes, benches>>

Next ==
    \/ ChangeConfig
    \/ EvictCache
    \/ Rebaseline
    \/ StartAttempt
    \/ ProbeBaseline
    \/ BaselineTorn
    \/ ProbeCandidate
    \/ Escape
    \/ BenchExits
    \/ BenchDies

Spec == Init /\ [][Next]_vars

-----------------------------------------------------------------------------
(* Properties.                                                             *)

TypeOK ==
    /\ config \in 1..MaxIncidents + 1
    /\ warm \in BOOLEAN /\ incidents \in 0..MaxIncidents
    /\ stage \in {"none", "probe", "bench"}
    /\ patch \in Patches
    /\ anyway \in BOOLEAN
    /\ attempts \in 0..MaxAttempts
    /\ DOMAIN ledger \subseteq 1..attempts
    /\ DOMAIN probes \subseteq 1..attempts
    /\ DOMAIN benches \subseteq 1..attempts

\* "It STOPS EARLY" (arena.py:1594-1596): an attempt whose probe said no, and
\* was not overruled by --bench-anyway, never spends a bench, then or later.
FilteredIsNeverBenched ==
    \A i \in DOMAIN probes :
        \/ probes[i].verdict = "no-effect"
        \/ probes[i].verdict = "will-fail-gate-2" /\ ~probes[i].anyway
        => i \notin DOMAIN benches

\* "changed no decision the engine makes" (arena.py:1070-1071): a "no-effect"
\* verdict against a baseline of the same config, whose boot left its selection
\* lines in a readable log, is never given to a patch that moves the dispatch.
NoEffectIsInert ==
    \A i \in DOMAIN probes :
        probes[i].verdict = "no-effect" /\ probes[i].sameConfig /\ probes[i].shown =>
            probes[i].patch \notin Dispatch

\* "output held" (arena.py:1074, benchmark.json:219-221): a patch that changes a
\* probed output is refused for it, whatever stands in probe-baseline.json: a
\* boot of other prompts, of an older config, on a cold cache, without its
\* lines, or what a killed probe left of one.
ChangedIsBlamed ==
    \A i \in DOMAIN probes :
        Changes[probes[i].patch] \cap First(ProbePrompts) # {} =>
            probes[i].verdict = "will-fail-gate-2"

\* "A bench would reject this on token identity" (arena.py:1066-1067,
\* benchmark.json:219): what a probe blames is what the patch changes, or a
\* knife-edge prompt, when the stored baseline is of this config, covers the
\* probed prompts, and neither boot was on a cold cache.
BlamedIsChanged ==
    \A i \in DOMAIN probes : probes[i].comparable =>
        probes[i].mismatched \subseteq Changes[probes[i].patch] \cup Knife

\* "stops at the first stage that says no" (RUNBOOK.md:106-107): an attempt
\* does not stop at a bench that said yes.
StopsOnlyAtANo ==
    \A i \in DOMAIN ledger :
        ledger[i].stage = "bench" /\ i \in DOMAIN benches => ~benches[i]
=============================================================================
