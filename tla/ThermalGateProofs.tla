------------------------- MODULE ThermalGateProofs -------------------------
(***************************************************************************)
(* Proofs about ThermalGate, for any number of nodes and arms, any budget, *)
(* tolerance and temperatures: its types, and that a command takes no more *)
(* steps than its budgets allow, however the readings turn out.            *)
(***************************************************************************)
EXTENDS ThermalGate, TLAPS

\* What the constants and the model's names stand for, as numbers.
LEMMA Constants ==
    /\ Nodes \in Nat /\ Nodes >= 1 /\ Busy \subseteq Hosts
    /\ Idle \in Nat /\ Heat \in Nat /\ Tolerance \in Nat
    /\ Budget \in Nat /\ Budget >= 1 /\ Arms \in Nat /\ Arms >= 1
    /\ MaxFailures \in Nat
  BY ThermalAssumption

(* The inductive invariant: while a node is sampled the first reading is   *)
(* there, the loop sleeps only within its budget, and an arm begins with   *)
(* the first node.                                                         *)

Temps == Idle..(Idle + Heat)

Places ==
    /\ at = "sample" => t # None /\ samples \in 0..2
    /\ at \in {"compare", "sleep"} => floor # None
    /\ at = "sample" => floor # None
    /\ at = "sleep" => waited < Budget
    /\ at \in {"read", "sample", "arm"} => waited = 0
    /\ at \in {"arm", "done"} => host = 1

IInv ==
    /\ temp \in [Hosts -> Temps]
    /\ at \in {"read", "sample", "compare", "sleep", "arm", "done", "died"}
    /\ host \in Hosts
    /\ t \in Readings /\ floor \in Readings
    /\ samples \in 0..3 /\ waited \in 0..Budget
    /\ starts \in Seq([Hosts -> Readings])
    /\ Len(starts) \in 1..Arms
    /\ failures \in 0..MaxFailures
    /\ Places

LEMMA InitHolds == Init => IInv
<1> SUFFICES ASSUME Init PROVE IInv
  OBVIOUS
<1> USE Constants DEF Init
<1>1. None \in Readings
  BY DEF Readings
<1>2. Ungated \in [Hosts -> Readings]
  BY <1>1 DEF Ungated
<1>3. starts \in Seq([Hosts -> Readings]) /\ Len(starts) = 1
  BY <1>2
<1>4. temp \in [Hosts -> Temps] /\ 1 \in Hosts
  BY DEF Temps, Hosts
<1> QED
  BY <1>1, <1>3, <1>4 DEF IInv, Places

\* A reading is a temperature of the model or None, and a failed one counts.
LEMMA ReadingType ==
    ASSUME IInv, NEW r, Reading(r)
    PROVE  r \in Readings /\ failures' \in 0..MaxFailures
<1>1. CASE r = temp[host] /\ UNCHANGED failures
  BY <1>1 DEF IInv, Readings, Temps
<1>2. CASE r = None /\ failures < MaxFailures /\ failures' = failures + 1
  BY <1>2, Constants DEF IInv, Readings
<1> QED
  BY <1>1, <1>2 DEF Reading

\* The next node is one of the nodes.
LEMMA AdvanceType ==
    ASSUME IInv, Advance
    PROVE  /\ host' \in Hosts /\ at' \in {"arm", "read"} /\ waited' = 0 /\ samples' = 0
           /\ t' \in Readings /\ floor' \in Readings
           /\ at' = "arm" => host' = 1
<1>1. host \in 1..Nodes
  BY DEF IInv, Hosts
<1>2. host' \in 1..Nodes
  BY <1>1, Constants DEF Advance
<1>3. None \in Readings
  BY DEF Readings
<1> QED
  BY <1>2, <1>3 DEF Advance, Hosts

LEMMA ReadHolds == ASSUME IInv, Read PROVE IInv'
<1>1. PICK r \in Readings :
         /\ Reading(r)
         /\ \/ r = None /\ Advance
            \/ /\ r # None
               /\ t' = r /\ floor' = r /\ samples' = 0 /\ waited' = 0
               /\ at' = "sample"
               /\ UNCHANGED host
  BY DEF Read
<1>2. failures' \in 0..MaxFailures
  BY <1>1, ReadingType
<1>3. temp' = temp /\ starts' = starts
  BY DEF Read
<1>4. CASE r = None /\ Advance
  BY <1>2, <1>3, <1>4, AdvanceType, Constants DEF IInv, Places
<1>5. CASE r # None /\ t' = r /\ floor' = r /\ samples' = 0 /\ waited' = 0 /\ at' = "sample"
           /\ UNCHANGED host
  BY <1>2, <1>3, <1>5, Constants DEF IInv, Places
<1> QED
  BY <1>1, <1>4, <1>5

LEMMA SampleHolds == ASSUME IInv, Sample PROVE IInv'
<1>1. PICK r \in Readings :
         /\ Reading(r)
         /\ floor' = IF r # None /\ r < floor THEN r ELSE floor
  BY DEF Sample
<1>2. failures' \in 0..MaxFailures
  BY <1>1, ReadingType
<1>3. floor # None /\ samples \in 0..2 /\ t # None
  BY DEF IInv, Places, Sample
<1>4. floor' \in Readings /\ floor' # None
  BY <1>1, <1>3 DEF IInv
<1>5. samples' \in 0..3 /\ (at' = "sample" => samples' \in 0..2)
  BY <1>3 DEF Sample
<1> QED
  BY <1>2, <1>3, <1>4, <1>5 DEF IInv, Places, Sample

LEMMA CompareHolds == ASSUME IInv, Compare PROVE IInv'
<1>1. temp' = temp /\ failures' = failures /\ at = "compare" /\ floor # None
  BY DEF Compare, IInv, Places
<1>2. CASE /\ t # None /\ TooHot /\ BudgetLeft
           /\ at' = "sleep"
           /\ UNCHANGED <<host, t, floor, samples, waited, starts>>
  BY <1>1, <1>2 DEF IInv, Places, BudgetLeft
<1>3. CASE /\ at' = "died"
           /\ UNCHANGED <<host, t, floor, samples, waited, starts>>
  BY <1>1, <1>3 DEF IInv, Places
<1>4. CASE t # None /\ starts' = [starts EXCEPT ![Arm][host] = t] /\ Advance
  <2>1. starts \in Seq([Hosts -> Readings]) /\ Arm \in 1..Len(starts)
    BY DEF IInv, Arm
  <2>2. starts[Arm] \in [Hosts -> Readings]
    BY <2>1
  <2> DEFINE row == [starts[Arm] EXCEPT ![host] = t]
  <2>3. row \in [Hosts -> Readings]
    BY <2>2 DEF IInv
  <2>4. starts' = [starts EXCEPT ![Arm] = row]
    BY <1>4
  <2> HIDE DEF row
  <2>5. starts' \in Seq([Hosts -> Readings]) /\ Len(starts') = Len(starts)
    BY <2>1, <2>3, <2>4
  <2> QED
    BY <1>1, <1>4, <2>5, AdvanceType, Constants DEF IInv, Places
<1> QED
  BY <1>2, <1>3, <1>4 DEF Compare

LEMMA SleepHolds == ASSUME IInv, Sleep PROVE IInv'
<1>1. PICK r \in Readings : Reading(r) /\ t' = r
  BY DEF Sleep
<1>2. failures' \in 0..MaxFailures
  BY <1>1, ReadingType
<1>3. waited \in 0..Budget /\ waited < Budget
  BY DEF IInv, Places, Sleep
<1>4. waited' \in 0..Budget
  BY <1>3, Constants DEF Sleep
<1> QED
  BY <1>1, <1>2, <1>4 DEF IInv, Places, Sleep

LEMMA RunArmHolds == ASSUME IInv, RunArm PROVE IInv'
<1>1. temp' \in [Hosts -> Temps]
  <2>1. Idle + Heat \in Temps
    BY Constants DEF Temps
  <2> QED
    BY <2>1 DEF RunArm
<1>2. /\ at = "arm" /\ host = 1
      /\ UNCHANGED <<host, t, floor, samples, waited, failures>>
  BY DEF RunArm, IInv, Places
<1>3. CASE Arm < Arms /\ at' = "read" /\ starts' = Append(starts, Ungated)
  <2>1. Ungated \in [Hosts -> Readings]
    BY DEF Ungated, Readings
  <2>2. starts \in Seq([Hosts -> Readings]) /\ Len(starts) \in 1..Arms /\ Len(starts) < Arms
    BY <1>3 DEF IInv, Arm
  <2>3. starts' \in Seq([Hosts -> Readings]) /\ Len(starts') = Len(starts) + 1
    BY <1>3, <2>1, <2>2
  <2>4. Len(starts') \in 1..Arms
    BY <2>2, <2>3, Constants
  <2> QED
    BY <1>1, <1>2, <1>3, <2>3, <2>4, Constants DEF IInv, Places
<1>4. CASE at' = "done" /\ UNCHANGED starts
  BY <1>1, <1>2, <1>4 DEF IInv, Places
<1> QED
  BY <1>3, <1>4 DEF RunArm

LEMMA DriftHolds == ASSUME IInv, NEW h \in Hosts, Drift(h) PROVE IInv'
<1>1. temp' \in [Hosts -> Temps]
  BY Constants DEF Drift, IInv, Temps
<1> QED
  BY <1>1 DEF Drift, gate, IInv, Places

LEMMA IInvNext == IInv /\ [Next]_vars => IInv'
<1> SUFFICES ASSUME IInv, [Next]_vars PROVE IInv'
  OBVIOUS
<1>1. CASE UNCHANGED vars
  BY <1>1 DEF vars, gate, IInv, Places
<1> QED
  BY <1>1, ReadHolds, SampleHolds, CompareHolds, SleepHolds, RunArmHolds, DriftHolds
     DEF Next, Harness

LEMMA Invariance == Spec => []IInv
  BY InitHolds, IInvNext, PTL DEF Spec

-----------------------------------------------------------------------------

\* Every variable of the gate keeps its type: no loop samples a fourth time or
\* waits past the budget, and a command gates no more arms than it has.
THEOREM TypeCorrect == Spec => []TypeOK
<1>1. IInv => TypeOK
  BY DEF IInv, TypeOK, Places, Temps
<1> QED
  BY <1>1, Invariance, PTL

-----------------------------------------------------------------------------
(* The steps that are left are a natural number, and each step of the      *)
(* harness lowers it.  The products are named, so that the provers see     *)
(* linear arithmetic over them.                                            *)

\* A row of n + 1 equal blocks is a row of n and one block more.
LEMMA OneBlock ==
    ASSUME NEW n \in Nat, NEW k \in Nat
    PROVE  n * k \in Nat /\ (n + 1) * k = n * k + k
  OBVIOUS

LEMMA BlocksNatural ==
    ASSUME NEW n \in Nat, NEW k \in Nat
    PROVE  n * k \in Nat
  OBVIOUS

LEMMA HereLeftBounds ==
    ASSUME IInv, at \in {"read", "sample", "compare", "sleep"}
    PROVE  NodeSteps \in Nat /\ HereLeft \in 1..NodeSteps
<1>1. /\ Budget \in Nat /\ samples \in 0..3 /\ waited \in 0..Budget
      /\ at = "sample" => samples \in 0..2
      /\ at = "sleep" => waited < Budget
  BY Constants DEF IInv, Places
<1> QED
  BY <1>1 DEF HereLeft, NodeSteps

\* On with the next node, or into the arm: at least the steps of this node,
\* of which one at least was left, are gone.
LEMMA AdvanceLowers ==
    ASSUME IInv, Advance, at \in {"read", "compare"}
    PROVE  GateLeft \in Nat /\ GateLeft' \in Nat /\ GateLeft' < GateLeft
<1>1. NodeSteps \in Nat /\ HereLeft \in Nat /\ HereLeft >= 1
  BY HereLeftBounds
<1>2. host \in 1..Nodes /\ Nodes \in Nat
  BY Constants DEF IInv, Hosts
<1>3. NodeSteps' = NodeSteps
  BY DEF NodeSteps
<1>4. (Nodes - host) * NodeSteps \in Nat
  BY <1>1, <1>2, BlocksNatural
<1>5. GateLeft = (Nodes - host) * NodeSteps + HereLeft + 1
  BY DEF GateLeft
<1>6. CASE host = Nodes
  <2>1. GateLeft' = 1
    BY <1>6 DEF Advance, GateLeft
  <2> QED
    BY <1>1, <1>4, <1>5, <2>1
<1>7. CASE host # Nodes
  <2>1. at' = "read" /\ host' = host + 1
    BY <1>7 DEF Advance
  <2>2. HereLeft' = NodeSteps
    BY <1>3, <2>1 DEF HereLeft
  <2>3. GateLeft' = (Nodes - (host + 1)) * NodeSteps + NodeSteps + 1
    BY <1>3, <2>1, <2>2 DEF GateLeft
  <2>4. PICK k \in Nat : k = Nodes - (host + 1)
    BY <1>2, <1>7
  <2>5. Nodes - host = k + 1
    BY <1>2, <2>4
  <2>6. (Nodes - host) * NodeSteps = k * NodeSteps + NodeSteps /\ k * NodeSteps \in Nat
    BY <1>1, <2>5, OneBlock
  <2> QED
    BY <1>1, <1>5, <2>3, <2>4, <2>6
<1> QED
  BY <1>6, <1>7

\* A step at the same node, that lowers what is left there.
LEMMA HereLowers ==
    ASSUME IInv, at \in {"read", "sample", "compare", "sleep"},
           at' \in {"read", "sample", "compare", "sleep"}, host' = host,
           HereLeft' \in Nat, HereLeft' < HereLeft
    PROVE  GateLeft \in Nat /\ GateLeft' \in Nat /\ GateLeft' < GateLeft
<1>1. NodeSteps \in Nat /\ HereLeft \in Nat
  BY HereLeftBounds
<1>2. host \in 1..Nodes /\ Nodes \in Nat
  BY Constants DEF IInv, Hosts
<1>3. (Nodes - host) * NodeSteps \in Nat
  BY <1>1, <1>2, BlocksNatural
<1>4. /\ GateLeft = (Nodes - host) * NodeSteps + HereLeft + 1
      /\ GateLeft' = (Nodes - host) * NodeSteps + HereLeft' + 1
  BY DEF GateLeft, NodeSteps
<1> QED
  BY <1>1, <1>3, <1>4

LEMMA GateLowers ==
    ASSUME IInv, IInv', Read \/ Sample \/ Compare \/ Sleep
    PROVE  GateLeft \in Nat /\ GateLeft' \in Nat /\ GateLeft' < GateLeft
<1>1. Budget \in Nat /\ samples \in 0..3 /\ waited \in 0..Budget
  BY Constants DEF IInv
<1>2. CASE Read
  <2>1. CASE Advance
    BY <1>2, <2>1, AdvanceLowers DEF Read
  <2>2. CASE at' = "sample" /\ samples' = 0 /\ UNCHANGED host
    <3>1. HereLeft = 2 * Budget + 5 /\ HereLeft' = 2 * Budget + 4
      BY <1>1, <1>2, <2>2 DEF Read, HereLeft, NodeSteps
    <3> QED
      BY <1>1, <1>2, <2>2, <3>1, HereLowers DEF Read
  <2> QED
    BY <1>2, <2>1, <2>2 DEF Read
<1>3. CASE Sample
  <2>1. samples \in 0..2 /\ samples' = samples + 1 /\ at = "sample" /\ host' = host /\ waited = 0
        /\ waited' = waited
    BY <1>3 DEF IInv, Places, Sample
  <2>2. HereLeft = 2 * Budget + 4 - samples
    BY <2>1 DEF HereLeft
  <2>3. CASE samples = 2
    <3>1. at' = "compare" /\ HereLeft' = 2 * Budget + 1
      BY <1>1, <1>3, <2>1, <2>3 DEF Sample, HereLeft
    <3> QED
      BY <1>1, <2>1, <2>2, <2>3, <3>1, HereLowers
  <2>4. CASE samples # 2
    <3>1. at' = "sample" /\ HereLeft' = 2 * Budget + 4 - (samples + 1)
      BY <1>1, <1>3, <2>1, <2>4 DEF Sample, HereLeft
    <3> QED
      BY <1>1, <2>1, <2>2, <2>4, <3>1, HereLowers
  <2> QED
    BY <2>3, <2>4
<1>4. CASE Compare
  <2>1. at = "compare" /\ HereLeft = 2 * (Budget - waited) + 1
    BY <1>4 DEF Compare, HereLeft
  <2>2. CASE at' = "sleep" /\ UNCHANGED <<host, t, floor, samples, waited, starts>>
    <3>1. HereLeft' = 2 * (Budget - waited)
      BY <2>2 DEF HereLeft
    <3> QED
      BY <1>1, <2>1, <2>2, <3>1, HereLowers
  <2>3. CASE at' = "died"
    <3>1. GateLeft' = 0
      BY <2>3 DEF GateLeft
    <3>2. NodeSteps \in Nat /\ HereLeft \in Nat
      BY <2>1, HereLeftBounds
    <3>3. (Nodes - host) * NodeSteps \in Nat
      <4>1. host \in 1..Nodes /\ Nodes \in Nat
        BY Constants DEF IInv, Hosts
      <4> QED
        BY <3>2, <4>1, BlocksNatural
    <3>4. GateLeft = (Nodes - host) * NodeSteps + HereLeft + 1
      BY <2>1 DEF GateLeft
    <3> QED
      BY <3>1, <3>2, <3>3, <3>4
  <2>4. CASE Advance
    BY <2>1, <2>4, AdvanceLowers
  <2> QED
    BY <1>4, <2>2, <2>3, <2>4 DEF Compare
<1>5. CASE Sleep
  <2>1. at = "sleep" /\ waited < Budget /\ at' = "compare" /\ host' = host /\ waited' = waited + 1
    BY <1>5 DEF IInv, Places, Sleep
  <2>2. HereLeft = 2 * (Budget - waited) /\ HereLeft' = 2 * (Budget - (waited + 1)) + 1
    BY <2>1 DEF HereLeft
  <2> QED
    BY <1>1, <2>1, <2>2, HereLowers
<1> QED
  BY <1>2, <1>3, <1>4, <1>5

\* Read to Sleep belong to one arm.
LEMMA SameArm == ASSUME IInv, Read \/ Sample \/ Compare \/ Sleep PROVE Arm' = Arm
<1>1. CASE Compare
  <2>1. starts' = starts \/ starts' = [starts EXCEPT ![Arm][host] = t]
    BY <1>1 DEF Compare
  <2>2. starts \in Seq([Hosts -> Readings])
    BY DEF IInv
  <2>3. Len([starts EXCEPT ![Arm][host] = t]) = Len(starts)
    <3> DEFINE row == [starts[Arm] EXCEPT ![host] = t]
    <3>1. Arm \in 1..Len(starts)
      BY DEF IInv, Arm
    <3>2. starts[Arm] \in [Hosts -> Readings]
      BY <2>2, <3>1
    <3>3. row \in [Hosts -> Readings]
      BY <3>2 DEF IInv
    <3> HIDE DEF row
    <3>4. Len([starts EXCEPT ![Arm] = row]) = Len(starts)
      BY <2>2, <3>1, <3>3
    <3> QED
      BY <3>4 DEF row
  <2> QED
    BY <2>1, <2>3 DEF Arm
<1> QED
  BY <1>1 DEF Read, Sample, Sleep, Arm

LEMMA StepsLower ==
    ASSUME IInv, IInv', Harness
    PROVE  StepsLeft \in Nat /\ StepsLeft' < StepsLeft
<1> DEFINE block == Nodes * NodeSteps + 1
<1>1. NodeSteps \in Nat /\ Nodes \in Nat /\ block \in Nat /\ Nodes * NodeSteps \in Nat
  <2>1. NodeSteps \in Nat /\ Nodes \in Nat
    BY Constants DEF NodeSteps
  <2>2. Nodes * NodeSteps \in Nat
    BY <2>1, BlocksNatural
  <2> QED
    BY <2>1, <2>2
<1>2. Arm \in 1..Arms /\ Arms \in Nat
  BY Constants DEF IInv, Arm
<1>3. (Arms - Arm) * block \in Nat
  <2>1. Arms - Arm \in Nat
    BY <1>2
  <2> HIDE DEF block
  <2> QED
    BY <1>1, <2>1, BlocksNatural
<1>4. /\ StepsLeft = (Arms - Arm) * block + GateLeft
      /\ StepsLeft' = (Arms - Arm') * block + GateLeft'
  BY DEF StepsLeft, NodeSteps
<1>5. CASE Read \/ Sample \/ Compare \/ Sleep
  <2>1. Arm' = Arm
    BY <1>5, SameArm
  <2>2. GateLeft \in Nat /\ GateLeft' \in Nat /\ GateLeft' < GateLeft
    BY <1>5, GateLowers
  <2> HIDE DEF block
  <2> QED
    BY <1>3, <1>4, <2>1, <2>2
<1>6. CASE RunArm
  <2>1. at = "arm" /\ host = 1 /\ host' = 1
    BY <1>6 DEF RunArm, IInv, Places
  <2>2. GateLeft = 1
    BY <2>1 DEF GateLeft
  <2>3. CASE Arm < Arms
    <3>1. at' = "read" /\ starts' = Append(starts, Ungated)
      BY <1>6, <2>3 DEF RunArm
    <3>2. Arm' = Arm + 1
      BY <3>1 DEF Arm, IInv
    <3>3. GateLeft' = (Nodes - 1) * NodeSteps + NodeSteps + 1
      BY <2>1, <3>1 DEF GateLeft, HereLeft, NodeSteps
    <3>4. PICK k \in Nat : k = Nodes - 1
      BY Constants
    <3>5. Nodes = k + 1
      BY <1>1, <3>4
    <3>6. Nodes * NodeSteps = k * NodeSteps + NodeSteps
      BY <1>1, <3>5, OneBlock
    <3>7. GateLeft' = block
      BY <1>1, <3>3, <3>4, <3>6
    <3>8. PICK m \in Nat : m = Arms - (Arm + 1)
      BY <1>2, <2>3
    <3>9. Arms - Arm = m + 1
      BY <1>2, <3>8
    <3> HIDE DEF block
    <3>10. (Arms - Arm) * block = m * block + block /\ m * block \in Nat
      BY <1>1, <3>9, OneBlock
    <3>11. StepsLeft' = m * block + block
      BY <1>4, <3>2, <3>7, <3>8
    <3> QED
      BY <1>1, <1>4, <2>2, <3>10, <3>11
  <2>4. CASE ~(Arm < Arms)
    <3>1. at' = "done" /\ Arm' = Arm
      BY <1>6, <2>4 DEF RunArm, Arm
    <3>2. GateLeft' = 0
      BY <3>1 DEF GateLeft
    <3> HIDE DEF block
    <3> QED
      BY <1>3, <1>4, <2>2, <3>1, <3>2
  <2> QED
    BY <2>3, <2>4
<1> QED
  BY <1>5, <1>6 DEF Harness

\* What a command may do in all.
LEMMA StepsAllowed == Init => StepsLeft = Arms * (Nodes * NodeSteps + 1)
<1> SUFFICES ASSUME Init PROVE StepsLeft = Arms * (Nodes * NodeSteps + 1)
  OBVIOUS
<1> DEFINE block == Nodes * NodeSteps + 1
<1>1. at = "read" /\ host = 1 /\ Arm = 1
  BY DEF Init, Arm
<1>2. NodeSteps \in Nat
  BY Constants DEF NodeSteps
<1>3. PICK k \in Nat : Nodes = k + 1
  <2>1. Nodes - 1 \in Nat /\ Nodes = (Nodes - 1) + 1
    BY Constants
  <2> QED
    BY <2>1
<1>4. PICK m \in Nat : Arms = m + 1
  <2>1. Arms - 1 \in Nat /\ Arms = (Arms - 1) + 1
    BY Constants
  <2> QED
    BY <2>1
<1>5. k * NodeSteps \in Nat /\ Nodes * NodeSteps = k * NodeSteps + NodeSteps
  BY <1>2, <1>3, OneBlock
<1>6. Nodes - host = k
  BY <1>1, <1>3
<1>7. GateLeft = k * NodeSteps + NodeSteps + 1
  BY <1>1, <1>6 DEF GateLeft, HereLeft
<1>8. GateLeft = block /\ block \in Nat
  BY <1>2, <1>5, <1>7
<1>9. Arms - Arm = m
  BY <1>1, <1>4
<1>10. StepsLeft = m * block + GateLeft
  BY <1>9 DEF StepsLeft
<1> HIDE DEF block
<1>11. m * block \in Nat /\ Arms * block = m * block + block
  BY <1>4, <1>8, OneBlock
<1>12. StepsLeft = Arms * block
  BY <1>8, <1>10, <1>11
<1> QED
  BY <1>12 DEF block

\* No command waits for ever at the thermal gate: with n nodes, a budget of b
\* sleeps and a arms it takes at most a * (n * (2b + 5) + 1) steps, whatever
\* the temperatures, whichever readings fail, and for any tolerance.
THEOREM StepsRunOut == Spec => EveryStepCounts
<1>1. IInv /\ IInv' /\ [Next]_vars => [Harness => StepsLeft \in Nat /\ StepsLeft' < StepsLeft]_vars
  BY StepsLower
<1> QED
  BY <1>1, Invariance, PTL DEF Spec, EveryStepCounts

=============================================================================
