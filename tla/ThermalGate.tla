---------------------------- MODULE ThermalGate ----------------------------
(***************************************************************************)
(* thermal_gate before each arm of a pair, on every node.  A node's GPU    *)
(* cools while nobody uses it and is hot after an arm; nvidia-smi reports  *)
(* a temperature, or fails (gpu() returns None).                           *)
(***************************************************************************)
EXTENDS Integers, Sequences

CONSTANTS
    Nodes,        \* how many nodes, gated in the order 1..Nodes
    Busy,         \* the nodes on which somebody else's job may run
    Idle,         \* the temperature an unused node settles at
    Heat,         \* how much an arm adds
    Tolerance,    \* thermalGate.toleranceC
    Budget,       \* thermalGate.maxWaitSeconds, in sleeps
    Arms,         \* arms of one command
    MaxFailures   \* bound: readings that fail

Hosts == 1..Nodes

ASSUME ThermalAssumption ==
    /\ Nodes \in Nat \ {0}
    /\ Busy \subseteq Hosts
    /\ Idle \in Nat /\ Heat \in Nat /\ Tolerance \in Nat
    /\ Budget \in Nat \ {0} /\ Arms \in Nat \ {0} /\ MaxFailures \in Nat

VARIABLES
    temp,      \* host -> temperature of its GPU
    at,        \* "read", "sample", "compare", "sleep", "arm", "done" or "died"
    host,      \* the host being gated
    t, floor, samples, waited,     \* the locals of thermal_gate
    starts,    \* arm -> host -> the reading it was let in with, or None
    failures

gate == <<at, host, t, floor, samples, waited, starts>>
vars == <<temp, gate, failures>>

None == -1
Arm == Len(starts)                 \* the arm in preparation or in flight

Ungated == [h \in Hosts |-> None]

Init ==
    /\ temp \in [Hosts -> Idle..(Idle + Heat)]
    /\ at = "read"
    /\ host = 1
    /\ t = None /\ floor = None /\ samples = 0 /\ waited = 0
    /\ starts = <<Ungated>>
    /\ failures = 0

-----------------------------------------------------------------------------

\* gpu("temperature.gpu"): what is there, or None.
Reading(r) ==
    \/ r = temp[host] /\ UNCHANGED failures
    \/ r = None /\ failures < MaxFailures /\ failures' = failures + 1

Readings == {None} \cup (Idle..(Idle + Heat))

\* On with the next host, or into the arm.
Advance ==
    /\ at' = IF host = Nodes THEN "arm" ELSE "read"
    /\ host' = IF host = Nodes THEN 1 ELSE host + 1
    /\ t' = None /\ floor' = None /\ samples' = 0 /\ waited' = 0

\* Mutant: asks again until there is an answer.
ReadAgain ==
    /\ at = "read"
    /\ \E r \in Readings :
         /\ Reading(r)
         /\ \/ r = None /\ UNCHANGED gate
            \/ /\ r # None
               /\ t' = r /\ floor' = r /\ samples' = 0 /\ waited' = 0
               /\ at' = "sample"
               /\ UNCHANGED <<host, starts>>
    /\ UNCHANGED temp

\* The first reading; a node without one is not gated ("advisory").
Read ==
    /\ at = "read"
    /\ \E r \in Readings :
         /\ Reading(r)
         /\ \/ r = None /\ Advance
            \/ /\ r # None
               /\ t' = r /\ floor' = r /\ samples' = 0 /\ waited' = 0
               /\ at' = "sample"
               /\ UNCHANGED host
    /\ UNCHANGED <<temp, starts>>

\* min([gpu(...) or t for _ in range(3)] + [t])
Sample ==
    /\ at = "sample"
    /\ \E r \in Readings :
         /\ Reading(r)
         /\ floor' = IF r # None /\ r < floor THEN r ELSE floor
    /\ samples' = samples + 1
    /\ at' = IF samples = 2 THEN "compare" ELSE "sample"
    /\ UNCHANGED <<temp, host, t, waited, starts>>

\* The two halves of the loop's condition.
BudgetLeftLate == waited <= Budget    \* mutant
BudgetLeft == waited < Budget

TooHot == t > floor + Tolerance

\* The loop's condition, and what follows the loop.  Comparing None raises.
Compare ==
    /\ at = "compare"
    /\ \/ /\ t # None /\ TooHot /\ BudgetLeft
          /\ at' = "sleep"
          /\ UNCHANGED <<host, t, floor, samples, waited, starts>>
       \/ /\ t = None \/ (TooHot /\ ~BudgetLeft)
          /\ at' = "died"
          /\ UNCHANGED <<host, t, floor, samples, waited, starts>>
       \/ /\ t # None /\ ~TooHot
          /\ starts' = [starts EXCEPT ![Arm][host] = t]
          /\ Advance
    /\ UNCHANGED <<temp, failures>>

\* Mutant: the sleep is not counted.
SleepUncounted ==
    /\ at = "sleep"
    /\ \E r \in Readings : Reading(r) /\ t' = r
    /\ at' = "compare"
    /\ UNCHANGED <<temp, host, floor, samples, waited, starts>>

\* time.sleep(20) and the next reading.
Sleep ==
    /\ at = "sleep"
    /\ waited' = waited + 1
    /\ \E r \in Readings : Reading(r) /\ t' = r
    /\ at' = "compare"
    /\ UNCHANGED <<temp, host, floor, samples, starts>>

\* The arm heats every node it runs on; the next one is gated at once.
RunArm ==
    /\ at = "arm"
    /\ temp' = [h \in Hosts |-> Idle + Heat]
    /\ IF Arm < Arms
       THEN at' = "read" /\ starts' = Append(starts, Ungated)
       ELSE at' = "done" /\ UNCHANGED starts
    /\ UNCHANGED <<host, t, floor, samples, waited, failures>>

\* Whatever the harness is doing, a node cools by a degree, or somebody
\* else's job warms it.
Drift(h) ==
    /\ at # "arm"
    /\ \/ temp[h] > Idle /\ temp' = [temp EXCEPT ![h] = @ - 1]
       \/ h \in Busy /\ temp[h] < Idle + Heat /\ temp' = [temp EXCEPT ![h] = @ + 1]
    /\ UNCHANGED <<gate, failures>>

Harness ==
    \/ Read
    \/ Sample
    \/ Compare
    \/ Sleep
    \/ RunArm

Next == Harness \/ \E h \in Hosts : Drift(h)

\* The harness is sequential and sleeps for a bounded time.
Spec == Init /\ [][Next]_vars /\ WF_vars(Harness)

-----------------------------------------------------------------------------
(* Properties.                                                             *)

TypeOK ==
    /\ temp \in [Hosts -> Idle..(Idle + Heat)]
    /\ at \in {"read", "sample", "compare", "sleep", "arm", "done", "died"}
    /\ host \in Hosts
    /\ t \in Readings /\ floor \in Readings
    /\ samples \in 0..3 /\ waited \in 0..Budget
    /\ Len(starts) \in 1..Arms
    /\ failures \in 0..MaxFailures

\* The gate lets the command through or ends it, within its budget, whether
\* nodes cool down, stay hot or stop reporting (arena.py:228-250).
GateEnds == <>(at \in {"done", "died"})

\* What the harness may still do: the steps left of the node being gated (two
\* for each sleep that its budget allows), of the nodes after it, and of the
\* arms after this one.
NodeSteps == 2 * Budget + 5

HereLeft ==
    CASE at = "read" -> NodeSteps
      [] at = "sample" -> 2 * Budget + 4 - samples
      [] at = "compare" -> 2 * (Budget - waited) + 1
      [] OTHER -> 2 * (Budget - waited)

GateLeft ==
    CASE at \in {"done", "died"} -> 0
      [] at = "arm" -> 1
      [] OTHER -> (Nodes - host) * NodeSteps + HereLeft + 1

StepsLeft == (Arms - Arm) * (Nodes * NodeSteps + 1) + GateLeft

\* Whatever the nodes do meanwhile and whichever readings fail, each step of
\* the harness uses up some of a finite number of steps, so the loop at
\* arena.py:241 cannot hold a command for ever.
EveryStepCounts == [][Harness => StepsLeft \in Nat /\ StepsLeft' < StepsLeft]_vars

\* "Every node starts an arm from the same thermal state" (arena.py:217): the
\* starting temperatures of a node over the arms of a pair are within the
\* tolerance of each other.
SameThermalState ==
    \A i, k \in 1..Len(starts), h \in Hosts :
        starts[i][h] # None /\ starts[k][h] # None =>
            starts[i][h] - starts[k][h] <= Tolerance
=============================================================================
