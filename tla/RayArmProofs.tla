---------------------------- MODULE RayArmProofs ----------------------------
(***************************************************************************)
(* Proofs about RayArm, for any number of nodes, arms, looks, polls, lost  *)
(* commands, deaths and interrupts: where no ssh command of its start was  *)
(* lost, an arm starts on free GPUs and is measured on its own raylets;    *)
(* the latter where one was lost too, if nothing died by itself.           *)
(***************************************************************************)
EXTENDS RayArm, FiniteSetTheorems, TLAPS

Looking == {"count raylets", "count vllm", "free"}
Tearing == {"kill"} \cup Looking
Starting == {"preflight", "ray", "gpus", "spawn"}
Up == {"boot", "ask", "transport", "serving"}
Places == {"idle", "gate", "exit"} \cup Tearing \cup Starting \cup Up

RankType == [state : {"none", "up", "killed", "exiting"}, env : {Nobody} \cup Boots]

(* The inductive invariant.                                                *)

CommandTyped ==
    /\ at \in Places /\ host \in Hosts
    /\ round \in 0..(IF at = "free" THEN Rounds - 1 ELSE MaxPolls)
    /\ at \notin {"free", "boot", "ask", "transport"} => round = 0
    /\ armsLeft \in IF at = "idle" THEN {0} ELSE 1..Arms
    /\ answered \in 0..Requests

ClusterTyped ==
    /\ raylet \in [Hosts -> {Nobody} \cup Boots]
    /\ serve \in [Boots -> {"unborn", "loading", "ready", "gone"}]
    /\ ranks \in [Boots -> [Hosts -> RankType]]
    /\ port \in {Nobody} \cup Boots

CountsTyped ==
    /\ boots \in 0..MaxBoots /\ lost \in 0..MaxLost
    /\ deaths \in 0..MaxDeaths /\ kills \in 0..MaxKills
    /\ mislaid \in Nat

\* The server of an arm is there from its spawn to the teardown of __exit__,
\* and what is left of the command fits the servers that are left.
Turns ==
    /\ ending \in {"no", "normal", "escaping"} /\ own \in {Nobody} \cup Boots
    /\ at \in {"idle", "gate"} \cup Starting => ending = "no" /\ own = Nobody
    /\ at \in Tearing => (ending = "no" <=> own = Nobody)
    /\ at \in Up => ending = "no" /\ own = boots /\ own # Nobody
    /\ at = "exit" => ending # "no" /\ own # Nobody
    /\ own = Nobody => boots + armsLeft <= MaxBoots
    /\ own # Nobody => boots + armsLeft <= MaxBoots + 1

\* Once the head was told to kill, no API server is left to load.
NoServer == (\A b \in Boots : serve[b] \in {"unborn", "gone"}) /\ port = Nobody

Cleared ==
    at \in Looking \cup Starting \/ (at = "kill" /\ host # Head) => NoServer

\* The raylets fall host by host; those that start again are this arm's.
Fresh ==
    /\ at = "kill" => \A h \in Hosts : h < host => raylet[h] = Nobody
    /\ at \in Looking \cup {"preflight"} => \A h \in Hosts : raylet[h] = Nobody
    /\ at \in Starting => \A h \in Hosts : raylet[h] \in {Nobody, boots + 1}

Unused == at \in Starting => \A b \in Boots, h \in Hosts : ranks[b][h].state = "none"

\* The arm's server is the only one, on raylets of its own.
Lone ==
    at \in Up =>
        /\ \A b \in Boots \ {own} :
             serve[b] \in {"unborn", "gone"} /\ \A h \in Hosts : ranks[b][h].state = "none"
        /\ port \in {Nobody, own}
        /\ \A h \in Hosts : raylet[h] \in {Nobody, own}
        /\ serve[own] = "ready" => \A h \in Hosts : ranks[own][h] = Rank("up", own)

Quiet == mislaid = 0 => Cleared /\ Fresh /\ Unused /\ Lone

IInv == CommandTyped /\ ClusterTyped /\ CountsTyped /\ Turns /\ Quiet

-----------------------------------------------------------------------------

LEMMA Constants ==
    /\ Nodes \in Nat /\ Arms \in Nat /\ Requests \in Nat /\ Rounds \in Nat /\ MaxPolls \in Nat
    /\ Nodes >= 1 /\ Arms >= 1 /\ Requests >= 1 /\ Rounds >= 1 /\ MaxPolls >= 1
    /\ MaxBoots \in Nat /\ MaxLost \in Nat /\ MaxDeaths \in Nat /\ MaxKills \in Nat
<1>1. \A n \in Nat \ {0} : n \in Nat /\ n >= 1
  OBVIOUS
<1>2. /\ Nodes \in Nat \ {0} /\ Arms \in Nat \ {0} /\ Requests \in Nat \ {0}
      /\ Rounds \in Nat \ {0} /\ MaxPolls \in Nat \ {0}
      /\ MaxBoots \in Nat /\ MaxLost \in Nat /\ MaxDeaths \in Nat /\ MaxKills \in Nat
  BY RayAssumption
<1> QED
  BY <1>1, <1>2

LEMMA HeadIsHost == Head \in Hosts /\ Nobody \notin Boots
BY Constants DEF Head, Hosts, Nobody, Boots

LEMMA HostsInARow ==
    /\ \A h \in Hosts : h # Nodes => h + 1 \in Hosts
    /\ \A h, k \in Hosts : h <= k => h = k \/ h < k
    /\ \A h, k \in Hosts : h < k + 1 => h <= k
    /\ \A h \in Hosts : h <= Nodes
BY Constants DEF Hosts

LEMMA NoneYet == 0 \in 0..(Rounds - 1) /\ 0 \in 0..MaxPolls
BY Constants

LEMMA InitHolds == Init => IInv
<1> SUFFICES ASSUME Init PROVE IInv
  OBVIOUS
<1> USE Constants, HeadIsHost DEF Init
<1>1. CommandTyped
  BY DEF CommandTyped, Places
<1>2. ClusterTyped
  <2>1. \A b \in Boots : ranks[b] \in [Hosts -> RankType]
    BY DEF RankType, NoRank
  <2> QED
    BY <2>1 DEF ClusterTyped
<1>3. CountsTyped
  BY DEF CountsTyped
<1>4. Turns
  BY DEF Turns, Tearing, Looking, Starting, Up
<1>5. Quiet
  BY DEF Quiet, Cleared, Fresh, Unused, Lone, Tearing, Looking, Starting, Up
<1> QED
  BY <1>1, <1>2, <1>3, <1>4, <1>5 DEF IInv

Loses == \E n \in Nat : Lose(n)

\* How many hosts were silent.
LEMMA SilentHosts ==
    ASSUME NEW silent \in SUBSET Hosts
    PROVE  Cardinality(silent) \in Nat /\ (Cardinality(silent) = 0 => silent = {})
<1>1. IsFiniteSet(Hosts)
  BY Constants, FS_Interval DEF Hosts
<1>2. IsFiniteSet(silent)
  BY <1>1, FS_Subset
<1> QED
  BY <1>2, FS_CardinalityType, FS_EmptySet

\* An ssh command is answered or lost.
LEMMA CountsKept ==
    ASSUME IInv, Delivered \/ Lost \/ Loses, UNCHANGED <<boots, deaths, kills>>
    PROVE  CountsTyped' /\ (mislaid' = 0 => mislaid = 0 /\ Delivered)
<1>1. mislaid \in Nat /\ lost \in 0..MaxLost
  BY DEF IInv, CountsTyped
<1>2. CASE Delivered
  BY <1>2 DEF IInv, CountsTyped, Delivered
<1>3. CASE Lost
  <2>1. lost' \in 0..MaxLost /\ mislaid' \in Nat /\ mislaid' # 0
    BY <1>1, <1>3, Constants DEF Lost
  <2> QED
    BY <2>1 DEF IInv, CountsTyped
<1>4. CASE Loses
  <2>1. PICK n \in Nat : Lose(n)
    BY <1>4 DEF Loses
  <2>2. lost' \in 0..MaxLost /\ mislaid' \in Nat /\ (mislaid' = 0 => mislaid = 0 /\ n = 0)
    BY <1>1, <2>1, Constants DEF Lose
  <2>3. n = 0 => Delivered
    BY <1>1, <2>1 DEF Lose, Delivered
  <2> QED
    BY <2>2, <2>3 DEF IInv, CountsTyped
<1> QED
  BY <1>2, <1>3, <1>4

LEMMA NotBoth == IInv => ~(Delivered /\ Lost)
BY DEF IInv, CountsTyped, Delivered, Lost

\* A command that leaves forgets what it started.
LEMMA LeaveKeeps ==
    ASSUME IInv, Leave, ClusterTyped', CountsTyped', boots' = boots, rows' = rows
    PROVE  IInv'
<1> USE Constants, HeadIsHost DEF IInv, Leave
<1>1. CommandTyped'
  BY DEF CommandTyped, Places
<1>2. Turns'
  <2>1. boots' + armsLeft' <= MaxBoots
    BY DEF CountsTyped
  <2> QED
    BY <2>1 DEF Turns, Tearing, Looking, Starting, Up
<1>3. Quiet'
  BY DEF Quiet, Cleared, Fresh, Unused, Lone, Tearing, Looking, Starting, Up
<1> QED
  BY <1>1, <1>2, <1>3

LEMMA StartCommandKeeps == ASSUME IInv, StartCommand PROVE IInv'
<1> USE Constants DEF IInv, StartCommand, cluster, counts
<1>1. PICK k \in 1..Arms : boots + k <= MaxBoots /\ armsLeft' = k
  OBVIOUS
<1>2. CommandTyped'
  BY <1>1 DEF CommandTyped, Places
<1>3. ClusterTyped' /\ CountsTyped'
  BY DEF ClusterTyped, CountsTyped
<1>4. Turns'
  BY <1>1 DEF Turns, Tearing, Looking, Starting, Up, CountsTyped
<1>5. Quiet'
  BY DEF Quiet, Cleared, Fresh, Unused, Lone, Tearing, Looking, Starting, Up
<1> QED
  BY <1>2, <1>3, <1>4, <1>5

LEMMA GateKeeps == ASSUME IInv, Gate PROVE IInv'
<1> USE Constants, HeadIsHost DEF Gate, cluster, counts
<1>1. ClusterTyped' /\ CountsTyped'
  BY DEF IInv, ClusterTyped, CountsTyped
<1>2. CASE Goto("kill")
  <2> USE <1>2 DEF IInv, Goto
  <2>1. CommandTyped'
    BY DEF CommandTyped, Places, Tearing, Looking
  <2>2. Turns'
    BY DEF Turns, Tearing, Looking, Starting, Up
  <2>3. Quiet'
    BY DEF Quiet, Cleared, Fresh, Unused, Lone, Tearing, Looking, Starting, Up, Head, Hosts
  <2> QED
    BY <1>1, <2>1, <2>2, <2>3
<1>3. CASE Leave
  BY <1>1, <1>3, LeaveKeeps
<1> QED
  BY <1>2, <1>3

\* Where the loop over the hosts goes.
LEMMA NextHostKeeps ==
    ASSUME IInv, at \in Places \ {"free", "boot", "ask", "transport"}, NEW place \in Places,
           place # "idle", at # "idle", NextHost(place)
    PROVE  CommandTyped' /\ host' \in Hosts
<1>1. host' \in Hosts
  BY Constants DEF NextHost, IInv, CommandTyped, Hosts, Head
<1>2. round' = 0 /\ armsLeft' = armsLeft /\ answered' = answered /\ at' \in Places /\ at' # "idle"
  BY DEF NextHost, IInv, CommandTyped
<1> QED
  BY <1>1, <1>2, NoneYet DEF CommandTyped, IInv

LEMMA KilledTyped ==
    ASSUME IInv, NEW h \in Hosts, Killed(h)
    PROVE  /\ ClusterTyped'
           /\ raylet' = [raylet EXCEPT ![h] = Nobody]
           /\ h = Head => NoServer'
           /\ NoServer => NoServer'
<1> USE DEF IInv, ClusterTyped, Killed
<1>1. raylet' \in [Hosts -> {Nobody} \cup Boots] /\ port' \in {Nobody} \cup Boots
  OBVIOUS
<1>2. serve' \in [Boots -> {"unborn", "loading", "ready", "gone"}]
  OBVIOUS
<1>3. ranks' \in [Boots -> [Hosts -> RankType]]
  <2>1. ASSUME NEW b \in Boots
        PROVE  [ranks[b] EXCEPT ![h].state = IF @ = "up" THEN "killed" ELSE @]
                 \in [Hosts -> RankType]
    <3>1. ranks[b] \in [Hosts -> RankType] /\ ranks[b][h] \in RankType
      OBVIOUS
    <3>2. [ranks[b][h] EXCEPT !.state = IF @ = "up" THEN "killed" ELSE @] \in RankType
      BY <3>1 DEF RankType
    <3> QED
      BY <3>1, <3>2
  <2> QED
    BY <2>1
<1>4. (h = Head => NoServer') /\ (NoServer => NoServer')
  BY DEF NoServer
<1> QED
  BY <1>1, <1>2, <1>3, <1>4

LEMMA KillKeeps == ASSUME IInv, Kill PROVE IInv'
<1> USE DEF Kill
<1>1. host \in Hosts
  BY DEF IInv, CommandTyped
<1>2. ASSUME NextHost("count raylets"), ClusterTyped', Delivered \/ Lost, Delivered => Killed(host)
      PROVE  IInv'
  <2> USE <1>2
  <2>1. CommandTyped'
    BY NextHostKeeps DEF Places, Tearing, Looking
  <2>2. CountsTyped' /\ (mislaid' = 0 => mislaid = 0 /\ Delivered)
    BY CountsKept DEF IInv
  <2>3. Turns'
    BY DEF IInv, Turns, NextHost, Tearing, Looking, Starting, Up
  <2>4. Quiet'
    <3> SUFFICES ASSUME mislaid' = 0 PROVE Cleared' /\ Fresh' /\ Unused' /\ Lone'
      BY DEF Quiet
    <3>1. at' \in {"kill", "count raylets"} /\ host' \in Hosts
          /\ (at' = "kill" => host' = host + 1) /\ (at' # "kill" => host = Nodes)
      BY <2>1 DEF NextHost, CommandTyped
    <3>2. NoServer' /\ raylet' = [raylet EXCEPT ![host] = Nobody] /\ mislaid = 0
      BY <1>1, <2>2, KilledTyped DEF IInv, Quiet, Cleared
    <3>3. \A h \in Hosts : h <= host => raylet'[h] = Nobody
      <4> SUFFICES ASSUME NEW h \in Hosts, h <= host PROVE raylet'[h] = Nobody
        OBVIOUS
      <4>1. CASE h = host
        BY <3>2, <4>1 DEF IInv, ClusterTyped
      <4>2. CASE h # host
        <5>1. h < host
          BY <1>1, <4>2, HostsInARow
        <5>2. raylet[h] = Nobody
          BY <3>2, <5>1 DEF IInv, Quiet, Fresh
        <5> QED
          BY <3>2, <4>2, <5>2 DEF IInv, ClusterTyped
      <4> QED
        BY <4>1, <4>2
    <3>4. ASSUME NEW h \in Hosts, h < host' \/ at' # "kill" PROVE raylet'[h] = Nobody
      <4>1. h <= host
        BY <1>1, <3>1, <3>4, HostsInARow
      <4> QED
        BY <3>3, <4>1
    <3>5. Fresh'
      BY <3>1, <3>4 DEF Fresh, Looking, Starting
    <3> QED
      BY <3>1, <3>2, <3>5 DEF Cleared, Unused, Lone, Tearing, Looking, Starting, Up
  <2> QED
    BY <2>1, <2>2, <2>3, <2>4, <1>2 DEF IInv
<1>3. CountsTyped' /\ boots' = boots /\ rows' = rows
  BY CountsKept
<1>4. ClusterTyped'
  BY <1>1, KilledTyped DEF IInv, ClusterTyped, cluster
<1>5. Lost => ~Delivered
  BY NotBoth
<1>6. CASE ((Delivered /\ Killed(host)) \/ Lost) /\ NextHost("count raylets")
  BY <1>2, <1>4, <1>5, <1>6
<1>7. CASE Leave
  BY <1>3, <1>4, <1>7, LeaveKeeps
<1> QED
  BY <1>6, <1>7

\* From one look at the cluster to the next.
LEMMA LookKeeps ==
    ASSUME IInv, at \in Looking, at' \in Looking, Delivered \/ Lost \/ Loses, CommandTyped',
           UNCHANGED <<cluster, boots, deaths, kills, rows, ending, armsLeft, own>>
    PROVE  IInv'
<1>1. ClusterTyped'
  BY DEF IInv, ClusterTyped, cluster
<1>2. CountsTyped' /\ (mislaid' = 0 => mislaid = 0)
  BY CountsKept
<1>3. Turns'
  BY DEF IInv, Turns, Tearing, Looking, Starting, Up
<1>4. Quiet'
  <2> SUFFICES ASSUME mislaid' = 0 PROVE Cleared' /\ Fresh' /\ Unused' /\ Lone'
    BY DEF Quiet
  <2>1. NoServer /\ \A h \in Hosts : raylet[h] = Nobody
    BY <1>2 DEF IInv, Quiet, Cleared, Fresh
  <2>2. at' # "kill" /\ at' \notin Starting /\ at' \notin Up
    BY DEF Looking, Starting, Up
  <2> QED
    BY <2>1, <2>2 DEF cluster, Cleared, Fresh, Unused, Lone, NoServer
<1> QED
  BY <1>1, <1>2, <1>3, <1>4 DEF IInv

LEMMA CountRayletsKeeps == ASSUME IInv, CountRaylets PROVE IInv'
<1> USE DEF CountRaylets
<1>1. ClusterTyped' /\ CountsTyped'
  BY CountsKept DEF IInv, ClusterTyped, cluster
<1>2. CASE Leave
  BY <1>1, <1>2, LeaveKeeps
<1>3. CASE at' = "count vllm" /\ UNCHANGED <<host, round, ending, armsLeft, answered, own>>
           /\ (Delivered \/ Lost)
  <2>1. CommandTyped'
    BY <1>3, Constants DEF IInv, CommandTyped, Places, Tearing, Looking
  <2> QED
    BY <1>3, <2>1, LookKeeps DEF Looking
<1> QED
  BY <1>2, <1>3

LEMMA CountVllmKeeps == ASSUME IInv, CountVllm PROVE IInv'
<1> USE DEF CountVllm
<1>1. ClusterTyped' /\ CountsTyped'
  BY CountsKept DEF IInv, ClusterTyped, cluster
<1>2. CASE Leave
  BY <1>1, <1>2, LeaveKeeps
<1>3. CASE /\ at' = IF host = Nodes THEN "free" ELSE "count raylets"
           /\ host' = IF host = Nodes THEN Head ELSE host + 1
           /\ UNCHANGED <<round, ending, armsLeft, answered, own>>
           /\ Delivered \/ Lost
  <2>1. host' \in Hosts
    <3>1. host \in Hosts
      BY DEF IInv, CommandTyped
    <3> QED
      BY <1>3, <3>1, HostsInARow, HeadIsHost
  <2>2. round = 0 /\ armsLeft \in 1..Arms /\ answered \in 0..Requests
    BY DEF IInv, CommandTyped
  <2>3. at' \in Looking
    BY <1>3 DEF Looking
  <2>4. at' \in Places /\ at' # "idle"
    BY <2>3 DEF Places, Tearing, Looking
  <2>5. CommandTyped'
    BY <1>3, <2>1, <2>2, <2>4, NoneYet DEF CommandTyped
  <2> QED
    BY <1>3, <2>3, <2>5, LookKeeps DEF Looking
<1> QED
  BY <1>2, <1>3

\* teardown returns to start only when every answer said that the GPUs are free.
LEMMA TornDownKeeps ==
    ASSUME IInv, at = "free", TornDown, ClusterTyped', CountsTyped', boots' = boots, rows' = rows,
           UNCHANGED <<raylet, serve, ranks, port>>,
           mislaid' = 0 => mislaid = 0 /\ \A h \in Hosts : ~OnGpu(h)
    PROVE  IInv'
<1> USE DEF IInv
<1>2. CASE ending = "no"
  <2> USE <1>2 DEF Goto, TornDown
  <2>1. CommandTyped'
    BY Constants, HeadIsHost DEF CommandTyped, Places, Tearing, Looking, Starting
  <2>2. Turns'
    BY DEF Turns, Tearing, Looking, Starting, Up
  <2>3. Quiet'
    <3>1. ASSUME mislaid' = 0 PROVE Cleared' /\ Fresh' /\ Lone'
      BY <3>1 DEF Quiet, Cleared, Fresh, Lone, Tearing, Looking, Starting, Up, NoServer
    <3>2. ASSUME mislaid' = 0 PROVE Unused'
      BY <3>2 DEF Unused, OnGpu
    <3> QED
      BY <3>1, <3>2 DEF Quiet
  <2> QED
    BY <2>1, <2>2, <2>3
<1>3. CASE ending # "no" /\ Leave
  BY <1>3, LeaveKeeps
<1>4. CASE ending # "no" /\ ~(ending = "escaping" \/ armsLeft = 1)
  <2> USE <1>4 DEF TornDown
  <2>1. armsLeft \in 1..Arms
    BY DEF CommandTyped
  <2>2. CommandTyped'
    BY <2>1, Constants, HeadIsHost DEF CommandTyped, Places
  <2>3. Turns'
    <3>1. boots \in Nat /\ armsLeft' = armsLeft - 1 /\ own' = Nobody
      BY DEF CountsTyped
    <3>2. boots + armsLeft <= MaxBoots + 1
      BY <1>4 DEF Turns, Tearing, Looking
    <3>3. boots' + armsLeft' <= MaxBoots
      BY <2>1, <3>1, <3>2, Constants
    <3> QED
      BY <3>1, <3>3 DEF Turns, Tearing, Looking, Starting, Up
  <2>4. Quiet'
    BY DEF Quiet, Cleared, Fresh, Unused, Lone, Tearing, Looking, Starting, Up
  <2> QED
    BY <2>2, <2>3, <2>4
<1> QED
  BY <1>2, <1>3, <1>4 DEF TornDown

LEMMA FreeKeeps == ASSUME IInv, Free PROVE IInv'
<1> USE DEF Free, cluster
<1>1. PICK silent \in SUBSET Hosts :
         /\ Lose(Cardinality(silent))
         /\ \/ (\A h \in Hosts \ silent : ~OnGpu(h)) /\ TornDown
            \/ /\ \E h \in Hosts \ silent : OnGpu(h)
               /\ \/ /\ round < Rounds - 1
                     /\ round' = round + 1
                     /\ UNCHANGED <<at, host, ending, armsLeft, answered, own>>
                  \/ round = Rounds - 1 /\ Leave
            \/ silent # {} /\ Leave
  OBVIOUS
<1>2. CountsTyped' /\ (mislaid' = 0 => mislaid = 0 /\ silent = {})
  <2>1. Cardinality(silent) \in Nat /\ (Cardinality(silent) = 0 => silent = {})
    BY SilentHosts
  <2>2. Loses
    BY <1>1, <2>1 DEF Loses
  <2>3. mislaid' = 0 => Cardinality(silent) = 0
    BY <1>1, <2>1 DEF Lose, IInv, CountsTyped
  <2> QED
    BY <2>1, <2>2, <2>3, CountsKept
<1>3. ClusterTyped'
  BY DEF IInv, ClusterTyped
<1>4. CASE (\A h \in Hosts \ silent : ~OnGpu(h)) /\ TornDown
  <2>1. mislaid' = 0 => mislaid = 0 /\ \A h \in Hosts : ~OnGpu(h)
    BY <1>2, <1>4
  <2>2. boots' = boots /\ rows' = rows /\ at = "free" /\ TornDown
    BY <1>4
  <2>3. UNCHANGED <<raylet, serve, ranks, port>>
    OBVIOUS
  <2> HIDE DEF Free, cluster
  <2> QED
    BY <1>2, <1>3, <2>1, <2>2, <2>3, TornDownKeeps
<1>5. CASE Leave
  BY <1>2, <1>3, <1>5, LeaveKeeps
<1>6. CASE /\ round < Rounds - 1
           /\ round' = round + 1
           /\ UNCHANGED <<at, host, ending, armsLeft, answered, own>>
  <2>1. CommandTyped'
    BY <1>6, Constants DEF IInv, CommandTyped
  <2>2. Loses
    BY <1>1, SilentHosts DEF Loses
  <2> QED
    BY <1>6, <2>1, <2>2, LookKeeps DEF Looking
<1> QED
  BY <1>1, <1>4, <1>5, <1>6

LEMMA PreflightKeeps == ASSUME IInv, Preflight PROVE IInv'
<1> USE Constants, HeadIsHost DEF Preflight, cluster, counts
<1>1. ClusterTyped' /\ CountsTyped'
  BY DEF IInv, ClusterTyped, CountsTyped
<1>2. CASE Goto("ray")
  <2> USE <1>2 DEF IInv, Goto
  <2>1. CommandTyped'
    BY DEF CommandTyped, Places, Starting
  <2>2. Turns'
    BY DEF Turns, Tearing, Looking, Starting, Up
  <2>3. Quiet'
    BY DEF Quiet, Cleared, Fresh, Unused, Lone, Tearing, Looking, Starting, Up, NoServer
  <2> QED
    BY <1>1, <2>1, <2>2, <2>3
<1>3. CASE Leave
  BY <1>1, <1>3, LeaveKeeps
<1> QED
  BY <1>2, <1>3

\* An arm that is starting has room for its server.
LEMMA ServerToCome == ASSUME IInv, at \in Starting PROVE boots + 1 \in Boots /\ boots \in Nat
<1>1. armsLeft >= 1 /\ armsLeft \in Nat /\ boots \in Nat /\ own = Nobody
  BY DEF IInv, CommandTyped, Turns, CountsTyped, Starting
<1>2. boots + armsLeft <= MaxBoots /\ MaxBoots \in Nat
  BY <1>1, Constants DEF IInv, Turns
<1> QED
  BY <1>1, <1>2 DEF Boots

LEMMA RayStartKeeps == ASSUME IInv, RayStart PROVE IInv'
<1> USE DEF RayStart, Starting
<1>1. host \in Hosts /\ boots + 1 \in Boots
  BY ServerToCome DEF IInv, CommandTyped
<1>2. ClusterTyped' /\ CountsTyped'
  BY <1>1, Constants DEF IInv, ClusterTyped, CountsTyped, Delivered, Lost, Attach, cluster
<1>3. CASE Leave
  BY <1>2, <1>3, LeaveKeeps
<1>4. CASE Delivered /\ Attach(host) /\ NextHost("gpus")
  <2> USE <1>4
  <2>1. CommandTyped'
    BY NextHostKeeps DEF Places
  <2>2. Turns'
    BY DEF IInv, Turns, NextHost, Tearing, Looking, Up
  <2>3. ASSUME mislaid' = 0 PROVE Cleared' /\ Fresh' /\ Unused' /\ Lone'
    <3>1. /\ at' \in {"ray", "gpus"} /\ mislaid = 0 /\ boots' = boots
          /\ UNCHANGED <<serve, ranks, port>>
      BY <2>3 DEF NextHost, Delivered, Attach
    <3>2. \A h \in Hosts : raylet'[h] \in {Nobody, boots + 1}
      BY <1>1, <3>1 DEF Attach, IInv, Quiet, Fresh, ClusterTyped
    <3>3. Cleared' /\ Unused'
      BY <3>1 DEF IInv, Quiet, Cleared, Unused, NoServer, Tearing, Looking
    <3> QED
      BY <3>1, <3>2, <3>3 DEF Fresh, Lone, Tearing, Looking, Up
  <2> QED
    BY <1>2, <2>1, <2>2, <2>3 DEF IInv, Quiet
<1> QED
  BY <1>3, <1>4

LEMMA CountGpusKeeps == ASSUME IInv, CountGpus PROVE IInv'
<1> USE Constants, HeadIsHost DEF CountGpus, cluster
<1>1. ClusterTyped' /\ CountsTyped'
  BY DEF IInv, ClusterTyped, CountsTyped, Delivered, Lost
<1>2. CASE Delivered /\ Goto("spawn")
  <2> USE <1>2 DEF IInv, Goto
  <2>1. CommandTyped'
    BY DEF CommandTyped, Places, Starting
  <2>2. Turns'
    BY DEF Turns, Tearing, Looking, Starting, Up
  <2>3. Quiet'
    BY DEF Quiet, Cleared, Fresh, Unused, Lone, Tearing, Looking, Starting, Up, NoServer,
           Delivered
  <2> QED
    BY <1>1, <2>1, <2>2, <2>3
<1>3. CASE Leave
  BY <1>1, <1>3, LeaveKeeps
<1> QED
  BY <1>2, <1>3

LEMMA SpawnKeeps == ASSUME IInv, Spawn PROVE IInv'
<1> USE DEF Spawn
<1>1. boots + 1 \in Boots /\ boots \in Nat /\ boots + 1 # Nobody
  BY ServerToCome, HeadIsHost DEF Starting
<1>2. CommandTyped'
  BY Constants DEF IInv, CommandTyped, Places, Up
<1>3. ClusterTyped' /\ CountsTyped'
  BY <1>1 DEF IInv, ClusterTyped, CountsTyped, Boots
<1>4. Turns'
  <2>1. boots + armsLeft <= MaxBoots /\ ending = "no" /\ armsLeft \in Nat
    BY DEF IInv, Turns, Starting, CommandTyped
  <2>2. boots' + armsLeft' <= MaxBoots + 1
    BY <1>1, <2>1, Constants
  <2> QED
    BY <1>1, <2>1, <2>2 DEF Turns, Tearing, Looking, Starting, Up
<1>5. ASSUME mislaid' = 0 PROVE Cleared' /\ Fresh' /\ Unused' /\ Lone'
  <2>1. NoServer /\ (\A h \in Hosts : raylet[h] \in {Nobody, boots + 1})
        /\ \A b \in Boots, h \in Hosts : ranks[b][h].state = "none"
    BY <1>5 DEF IInv, Quiet, Cleared, Fresh, Unused, Starting
  <2>2. serve'[boots + 1] = "loading" /\ \A b \in Boots \ {boots + 1} : serve'[b] = serve[b]
    BY <1>1 DEF IInv, ClusterTyped
  <2>3. Lone'
    BY <1>1, <2>1, <2>2 DEF Lone, NoServer
  <2> QED
    BY <2>3 DEF Cleared, Fresh, Unused, Tearing, Looking, Starting
<1> QED
  BY <1>2, <1>3, <1>4, <1>5 DEF IInv, Quiet

\* Steps of the harness while its server is there: the cluster is as it was.
LEMMA ArmKeeps ==
    ASSUME IInv, at \in Up, UNCHANGED <<cluster, counts, mislaid, rows>>, CommandTyped',
           own' = own, armsLeft' = armsLeft,
           \/ at' \in Up /\ ending' = ending
           \/ at' = "exit" /\ ending' \in {"normal", "escaping"}
    PROVE  IInv'
<1> USE DEF cluster, counts
<1>1. ClusterTyped' /\ CountsTyped'
  BY DEF IInv, ClusterTyped, CountsTyped
<1>2. Turns'
  BY DEF IInv, Turns, Tearing, Looking, Starting, Up
<1>3. Quiet'
  <2>1. ASSUME mislaid' = 0, at' \in Up PROVE Lone'
    BY <2>1 DEF IInv, Quiet, Lone
  <2>2. at' \in Up \cup {"exit"} /\ (at' = "exit" => at' \notin Up)
    BY DEF Up
  <2>3. at' \notin Tearing \cup Starting
    BY <2>2 DEF Up, Tearing, Looking, Starting
  <2> QED
    BY <2>1, <2>3 DEF Quiet, Cleared, Fresh, Unused, Lone, Tearing, Looking, Starting
<1> QED
  BY <1>1, <1>2, <1>3 DEF IInv

LEMMA UnchangedTyped ==
    ASSUME IInv, UNCHANGED <<cluster, counts, mislaid>> PROVE ClusterTyped' /\ CountsTyped'
BY DEF IInv, ClusterTyped, CountsTyped, cluster, counts

LEMMA PollKeeps == ASSUME IInv, Poll PROVE IInv'
<1> USE DEF Poll
<1>1. CASE Leave
  BY <1>1, UnchangedTyped, LeaveKeeps DEF counts
<1>2. CASE at' = "ask" /\ round' = round + 1 /\ UNCHANGED <<host, ending, armsLeft, answered, own>>
  <2>1. CommandTyped'
    BY <1>2, Constants DEF IInv, CommandTyped, Places, Up
  <2> QED
    BY <1>2, <2>1, ArmKeeps DEF Up
<1> QED
  BY <1>1, <1>2

LEMMA AskKeeps == ASSUME IInv, Ask PROVE IInv'
<1>1. CommandTyped'
  BY DEF Ask, IInv, CommandTyped, Places, Up
<1> QED
  BY <1>1, ArmKeeps DEF Ask, Up

LEMMA TransportKeeps == ASSUME IInv, Transport PROVE IInv'
<1> USE DEF Transport
<1>1. CASE Leave
  BY <1>1, UnchangedTyped, LeaveKeeps DEF counts
<1>2. CASE Goto("serving")
  <2>1. CommandTyped'
    BY <1>2, Constants, HeadIsHost DEF IInv, CommandTyped, Places, Up, Goto
  <2> QED
    BY <1>2, <2>1, ArmKeeps DEF Up, Goto
<1> QED
  BY <1>1, <1>2

LEMMA DeadlineKeeps == ASSUME IInv, Deadline PROVE IInv'
<1>1. CommandTyped'
  BY Constants DEF Deadline, Exit, IInv, CommandTyped, Places
<1> QED
  BY <1>1, ArmKeeps DEF Deadline, Exit, Up

LEMMA LastRowKeeps == ASSUME IInv, LastRow PROVE IInv'
<1>1. CommandTyped'
  BY Constants DEF LastRow, Exit, IInv, CommandTyped, Places
<1> QED
  BY <1>1, ArmKeeps DEF LastRow, Exit, Up

\* A row of an arm that lost no command is its own server's.
LEMMA BehindIsOwn ==
    ASSUME IInv, at = "serving", Answers, mislaid = 0
    PROVE  Behind.serve = Behind.own /\ Behind.envs = {Behind.own} /\ ~Behind.strangers
<1>1. port = own /\ serve[own] = "ready" /\ own \in Boots
  BY DEF Answers, IInv, Quiet, Lone, Up, Turns
<1>2. \A h \in Hosts : ranks[own][h] = Rank("up", own)
  BY <1>1 DEF IInv, Quiet, Lone, Up
<1>3. {ranks[port][h].env : h \in Hosts} = {own}
  BY <1>1, <1>2, HeadIsHost DEF Rank
<1>4. ~\E b \in Boots \ {port}, h \in Hosts : ranks[b][h].state = "up"
  BY <1>1 DEF IInv, Quiet, Lone, Up
<1> QED
  BY <1>1, <1>3, <1>4 DEF Behind

LEMMA RequestKeeps == ASSUME IInv, Request PROVE IInv'
<1> USE DEF Request
<1>1. CASE Exit("escaping") /\ UNCHANGED <<round, rows>>
  <2>1. CommandTyped'
    BY <1>1, Constants DEF Exit, IInv, CommandTyped, Places
  <2> QED
    BY <1>1, <2>1, ArmKeeps DEF Exit, Up
<1>2. CASE /\ Answers
           /\ rows' = rows \cup {Behind}
           /\ answered' = answered + 1
           /\ UNCHANGED <<at, host, round, ending, armsLeft, own>>
  <2>1. CommandTyped'
    BY <1>2, Constants DEF IInv, CommandTyped
  <2>2. ClusterTyped' /\ CountsTyped'
    BY UnchangedTyped
  <2>3. Turns'
    BY <1>2 DEF IInv, Turns, counts
  <2>4. Quiet'
    BY <1>2 DEF IInv, Quiet, Cleared, Fresh, Unused, Lone, cluster, counts, NoServer
  <2> QED
    BY <2>1, <2>2, <2>3, <2>4 DEF IInv
<1> QED
  BY <1>1, <1>2

LEMMA TerminateKeeps == ASSUME IInv, Terminate PROVE IInv'
<1> USE DEF Terminate
<1>1. CommandTyped'
  BY Constants, HeadIsHost DEF IInv, CommandTyped, Places, Tearing, Looking, Goto
<1>2. ClusterTyped' /\ CountsTyped'
  BY DEF IInv, ClusterTyped, CountsTyped, counts
<1>3. Turns'
  BY DEF IInv, Turns, Tearing, Looking, Starting, Up, Goto, counts
<1>4. Quiet'
  BY DEF IInv, Quiet, Cleared, Fresh, Unused, Lone, Tearing, Looking, Starting, Up,
         Goto, Head, Hosts
<1> QED
  BY <1>1, <1>2, <1>3, <1>4 DEF IInv

LEMMA InterruptKeeps == ASSUME IInv, Interrupt PROVE IInv'
<1> USE DEF Interrupt
<1>1. ClusterTyped' /\ CountsTyped'
  BY Constants DEF IInv, ClusterTyped, CountsTyped, cluster
<1>2. CASE Leave
  BY <1>1, <1>2, LeaveKeeps
<1>3. CASE at = "serving" /\ Exit("escaping") /\ UNCHANGED round
  <2> USE <1>3 DEF Exit
  <2>1. CommandTyped'
    BY Constants DEF IInv, CommandTyped, Places
  <2>2. Turns'
    BY DEF IInv, Turns, Tearing, Looking, Starting, Up
  <2>3. Quiet'
    BY DEF IInv, Quiet, Cleared, Fresh, Unused, Lone, Tearing, Looking, Starting, Up
  <2> QED
    BY <1>1, <2>1, <2>2, <2>3 DEF IInv
<1> QED
  BY <1>2, <1>3

-----------------------------------------------------------------------------

\* Steps of the cluster, which leave the command alone.
LEMMA ClusterKeeps ==
    ASSUME IInv, UNCHANGED <<command, boots, lost, kills, mislaid, rows>>, ClusterTyped',
           deaths' \in 0..MaxDeaths, mislaid = 0 => Cleared' /\ Fresh' /\ Unused' /\ Lone'
    PROVE  IInv'
<1>1. CommandTyped' /\ CountsTyped' /\ Turns'
  BY DEF command, IInv, CommandTyped, CountsTyped, Turns
<1> QED
  BY <1>1 DEF IInv, Quiet

LEMMA LoadKeeps == ASSUME IInv, NEW b \in Boots, Load(b) PROVE IInv'
<1> USE DEF Load
<1>1. \A h \in Hosts : Rank("up", raylet[h]) \in RankType
  BY DEF IInv, ClusterTyped, RankType, Rank
<1>2. ClusterTyped'
  BY <1>1 DEF IInv, ClusterTyped
<1>3. ASSUME mislaid = 0 PROVE Cleared' /\ Fresh' /\ Unused' /\ Lone'
  <2>1. ~NoServer
    BY DEF NoServer
  <2>2. at \notin Looking \cup Starting /\ ~(at = "kill" /\ host # Head)
    BY <1>3, <2>1 DEF IInv, Quiet, Cleared
  <2>3. Cleared' /\ Fresh' /\ Unused'
    BY <1>3, <2>2 DEF command, IInv, Quiet, Cleared, Fresh, Unused, Starting
  <2>4. ASSUME at \in Up PROVE Lone'
    <3>1. b = own
      BY <1>3, <2>4 DEF IInv, Quiet, Lone
    <3>2. \A h \in Hosts : raylet[h] = own
      BY <1>3, <2>4 DEF IInv, Quiet, Lone
    <3>3. ranks'[own] = [h \in Hosts |-> Rank("up", raylet[h])]
          /\ \A c \in Boots \ {own} : ranks'[c] = ranks[c] /\ serve'[c] = serve[c]
      BY <3>1 DEF IInv, ClusterTyped
    <3> QED
      BY <1>3, <2>4, <3>1, <3>2, <3>3 DEF command, IInv, Quiet, Lone
  <2> QED
    BY <2>3, <2>4 DEF command, Lone
<1> QED
  BY <1>2, <1>3, ClusterKeeps DEF counts, IInv, CountsTyped

\* A server that is gone stays out of the way.
LEMMA GoneKeeps ==
    ASSUME IInv, NEW b \in Boots, serve[b] \in {"loading", "ready"},
           serve' = [serve EXCEPT ![b] = "gone"],
           UNCHANGED <<command, raylet, ranks, boots, lost, kills, mislaid, rows>>,
           deaths' \in 0..MaxDeaths, port' \in {port, Nobody}
    PROVE  IInv'
<1>1. ClusterTyped'
  BY DEF IInv, ClusterTyped
<1>2. \A c \in Boots : serve'[c] \in {serve[c], "gone"}
  BY DEF IInv, ClusterTyped
<1>3. ASSUME mislaid = 0 PROVE Cleared' /\ Fresh' /\ Unused' /\ Lone'
  <2>1. Cleared' /\ Fresh' /\ Unused'
    BY <1>2, <1>3 DEF command, IInv, Quiet, Cleared, Fresh, Unused, NoServer
  <2>2. Lone'
    <3>1. at \in Up => own \in Boots
      BY DEF IInv, Turns
    <3> QED
      BY <1>2, <1>3, <3>1 DEF command, IInv, Quiet, Lone
  <2> QED
    BY <2>1, <2>2
<1> QED
  BY <1>1, <1>3, ClusterKeeps

LEMMA NoMemoryKeeps == ASSUME IInv, NEW b \in Boots, NoMemory(b) PROVE IInv'
BY GoneKeeps DEF NoMemory, counts, IInv, CountsTyped

LEMMA DieKeeps == ASSUME IInv, NEW b \in Boots, Die(b) PROVE IInv'
<1>1. deaths' \in 0..MaxDeaths
  BY Constants DEF Die, IInv, CountsTyped
<1> QED
  BY <1>1, GoneKeeps DEF Die

LEMMA RayletDiesKeeps == ASSUME IInv, NEW h \in Hosts, RayletDies(h) PROVE IInv'
<1>1. deaths' \in 0..MaxDeaths
  BY Constants DEF RayletDies, IInv, CountsTyped
<1>2. ClusterTyped' /\ \A k \in Hosts : raylet'[k] \in {raylet[k], Nobody}
  BY DEF RayletDies, IInv, ClusterTyped
<1>3. ASSUME mislaid = 0 PROVE Cleared' /\ Fresh' /\ Unused' /\ Lone'
  BY <1>2, <1>3 DEF RayletDies, command, IInv, Quiet, Cleared, Fresh, Unused, Lone, NoServer
<1> QED
  BY <1>1, <1>2, <1>3, ClusterKeeps DEF RayletDies

LEMMA FadeKeeps == ASSUME IInv, NEW b \in Boots, NEW h \in Hosts, Fade(b, h) PROVE IInv'
<1>1. ranks[b] \in [Hosts -> RankType] /\ ranks[b][h] \in RankType
  BY DEF IInv, ClusterTyped
<1>2. PICK r \in RankType : ranks' = [ranks EXCEPT ![b][h] = r]
  <2>1. NoRank \in RankType /\ Rank("exiting", ranks[b][h].env) \in RankType
    BY <1>1 DEF NoRank, Rank, RankType
  <2>2. ranks' = [ranks EXCEPT ![b][h] =
                   IF ranks[b][h].state = "exiting" THEN NoRank
                   ELSE Rank("exiting", ranks[b][h].env)]
    BY <1>1 DEF Fade, IInv, ClusterTyped
  <2> QED
    BY <2>1, <2>2
<1>3. ClusterTyped'
  BY <1>1, <1>2 DEF Fade, IInv, ClusterTyped
<1>4. \A c \in Boots, k \in Hosts : (c # b \/ k # h) => ranks'[c][k] = ranks[c][k]
  BY <1>2 DEF IInv, ClusterTyped
<1>5. ranks[b][h].state # "none" /\ (ranks[b][h].state = "up" => serve[b] = "gone")
  BY DEF Fade
<1>6. ASSUME mislaid = 0 PROVE Cleared' /\ Fresh' /\ Unused' /\ Lone'
  <2>1. at \notin Starting
    BY <1>5, <1>6 DEF IInv, Quiet, Unused
  <2>2. Cleared' /\ Fresh' /\ Unused'
    BY <1>6, <2>1 DEF Fade, command, counts, IInv, Quiet, Cleared, Fresh, Unused, NoServer
  <2>3. ASSUME at \in Up PROVE b = own /\ serve[own] # "ready"
    BY <1>5, <1>6, <2>3 DEF IInv, Quiet, Lone, Rank
  <2>4. Lone'
    BY <1>4, <1>6, <2>3 DEF Fade, command, IInv, Quiet, Lone
  <2> QED
    BY <2>2, <2>4
<1> QED
  BY <1>3, <1>6, ClusterKeeps DEF Fade, counts, IInv, CountsTyped

LEMMA IdleKeeps == ASSUME IInv, UNCHANGED vars PROVE IInv'
BY DEF vars, command, cluster, counts, IInv, CommandTyped, ClusterTyped, CountsTyped, Turns, Quiet,
       Cleared, Fresh, Unused, Lone, NoServer

LEMMA StepHolds == ASSUME IInv, [Next]_vars PROVE IInv'
<1>1. CASE Harness
  BY <1>1, GateKeeps, KillKeeps, CountRayletsKeeps, CountVllmKeeps, FreeKeeps, PreflightKeeps,
     RayStartKeeps, CountGpusKeeps, SpawnKeeps, PollKeeps, AskKeeps, DeadlineKeeps,
     TransportKeeps, RequestKeeps, LastRowKeeps, TerminateKeeps DEF Harness
<1>2. CASE StartCommand \/ Interrupt \/ UNCHANGED vars
  BY <1>2, StartCommandKeeps, InterruptKeeps, IdleKeeps
<1>3. ASSUME NEW b \in Boots, Load(b) \/ NoMemory(b) \/ Die(b) \/ \E h \in Hosts : Fade(b, h)
      PROVE  IInv'
  BY <1>3, LoadKeeps, NoMemoryKeeps, DieKeeps, FadeKeeps
<1>4. CASE \E h \in Hosts : RayletDies(h)
  BY <1>4, RayletDiesKeeps
<1> QED
  BY <1>1, <1>2, <1>3, <1>4 DEF Next

LEMMA AlwaysIInv == Spec => []IInv
<1>1. Init => IInv
  BY InitHolds
<1>2. IInv /\ [Next]_vars => IInv'
  BY StepHolds
<1> QED
  BY <1>1, <1>2, PTL DEF Spec

-----------------------------------------------------------------------------
(* One lost command of the start, where nothing died by itself.            *)

\* While nothing has died, only teardown takes a raylet away, and it takes the
\* server and the ranks that need it along: a raylet that was seen is there.
Lively ==
    /\ port # Nobody => serve[port] = "ready"
    /\ \A b \in Boots : serve[b] \in {"loading", "ready"} => raylet[Head] # Nobody
    /\ \A b \in Boots, h \in Hosts : ranks[b][h].state = "up" => raylet[h] # Nobody
    /\ at = "spawn" => \A h \in Hosts : raylet[h] # Nobody
    /\ own <= boots
    /\ \A b \in Boots : b > boots => serve[b] = "unborn"

\* The answers that did come say that no raylet is left.
Bare ==
    /\ at = "count raylets" => \A h \in Hosts : h < host => raylet[h] = Nobody
    /\ at = "count vllm" => \A h \in Hosts : h <= host => raylet[h] = Nobody
    /\ at \in {"free", "preflight"} => \A h \in Hosts : raylet[h] = Nobody

NoneUp == \A b \in Boots, h \in Hosts : ranks[b][h].state # "up"

Clean ==
    at \in {"ray", "gpus", "spawn"} =>
        NoServer /\ NoneUp /\ \A h \in Hosts : raylet[h] \in {Nobody, boots + 1}

\* The arm's server is the only one; ranks of others may still be going.
Alone ==
    at \in Up =>
        /\ \A b \in Boots \ {own} :
             serve[b] \in {"unborn", "gone"} /\ \A h \in Hosts : ranks[b][h].state # "up"
        /\ port \in {Nobody, own}
        /\ \A h \in Hosts : raylet[h] \in {Nobody, own}
        /\ serve[own] = "ready" => \A h \in Hosts : ranks[own][h] = Rank("up", own)

Swept == mislaid = 1 => Bare /\ Clean /\ Alone

Undying == deaths = 0 => Lively /\ Swept

SInv == Undying /\ ArmIsItsOwn

LEMMA CalmLively ==
    ASSUME Lively, UNCHANGED <<cluster, boots>>, own' \in {own, Nobody}, boots \in Nat,
           at' = "spawn" => at = "spawn" \/ \A h \in Hosts : raylet[h] # Nobody
    PROVE  Lively'
<1>1. own' <= boots'
  BY DEF Lively, Nobody
<1> QED
  BY <1>1 DEF Lively, cluster

LEMMA BootsNatural == IInv => boots \in Nat
BY Constants DEF IInv, CountsTyped

LEMMA HeadIsFirst == \A h \in Hosts : ~(h < Head)
BY Constants DEF Hosts, Head

LEMMA NowhereSwept == ASSUME at' \in {"idle", "gate", "kill", "exit"} PROVE Swept'
BY DEF Swept, Bare, Clean, Alone, Up

\* A first command is lost where none was.
LEMMA FirstLost ==
    ASSUME IInv, Delivered \/ Lost \/ Loses
    PROVE  mislaid' = 1 => (mislaid = 1 /\ Delivered) \/ (mislaid = 0 /\ Lost)
<1>1. mislaid \in Nat /\ lost \in 0..MaxLost
  BY DEF IInv, CountsTyped
<1>2. CASE Delivered \/ Lost
  BY <1>1, <1>2 DEF Delivered, Lost
<1>3. ASSUME NEW n \in Nat, Lose(n), mislaid' = 1
      PROVE  (mislaid = 1 /\ Delivered) \/ (mislaid = 0 /\ Lost)
  <2>1. (mislaid = 1 /\ n = 0) \/ (mislaid = 0 /\ n = 1)
    BY <1>1, <1>3 DEF Lose
  <2> QED
    BY <1>1, <1>3, <2>1, Constants DEF Lose, Delivered, Lost
<1> QED
  BY <1>2, <1>3 DEF Loses

LEMMA KillLively ==
    ASSUME IInv, Lively, Kill PROVE Lively' /\ Swept'
<1>1. host \in Hosts /\ boots \in Nat
  BY BootsNatural DEF IInv, CommandTyped
<1>9. own' \in {own, Nobody} /\ boots' = boots
  BY DEF Kill, Leave, NextHost
<1>8. own' \in {own, Nobody} /\ boots' = boots /\ own' <= boots'
  BY <1>1, <1>9 DEF Lively, Nobody
<1> USE DEF Kill
<1>2. at' \in {"idle", "kill"} \/ (at' = "count raylets" /\ host' = Head)
  BY DEF Leave, NextHost
<1>3. Swept'
  BY <1>2, HeadIsFirst DEF Swept, Bare, Clean, Alone, Up
<1>4. at' # "spawn"
  BY <1>2
<1>5. CASE UNCHANGED cluster
  BY <1>8, <1>1, <1>3, <1>4, <1>5, CalmLively
<1>6. CASE Killed(host)
  <2> USE <1>6 DEF Killed, IInv, ClusterTyped
  <2>1. port' # Nobody => serve'[port'] = "ready"
    BY DEF Lively, Head
  <2>2. ASSUME NEW b \in Boots, serve'[b] \in {"loading", "ready"} PROVE raylet'[Head] # Nobody
    <3>1. host # Head /\ serve[b] \in {"loading", "ready"}
      BY <2>2
    <3> QED
      BY <1>1, <3>1, HeadIsHost DEF Lively
  <2>3. ASSUME NEW b \in Boots, NEW h \in Hosts, ranks'[b][h].state = "up"
        PROVE  raylet'[h] # Nobody
    <3>1. ranks[b] \in [Hosts -> RankType] /\ ranks[b][host] \in RankType
      BY <1>1
    <3>2. ranks'[b] = [ranks[b] EXCEPT ![host].state = IF @ = "up" THEN "killed" ELSE @]
      OBVIOUS
    <3>3. ranks'[b][host].state # "up"
      BY <1>1, <3>1, <3>2 DEF RankType
    <3>4. h # host
      BY <2>3, <3>3
    <3>5. ranks[b][h].state = "up"
      BY <1>1, <2>3, <3>1, <3>2, <3>4
    <3> QED
      BY <1>1, <3>4, <3>5 DEF Lively
  <2>4. \A b \in Boots : b > boots' => serve'[b] = "unborn"
    BY <1>8 DEF Lively
  <2> QED
    BY <1>8, <1>3, <1>4, <2>1, <2>2, <2>3, <2>4 DEF Lively
<1> QED
  BY <1>5, <1>6

\* No raylet is left where one command was lost on the way, or none.
LEMMA CountRayletsSwept == ASSUME IInv, Lively, Swept, CountRaylets PROVE Lively' /\ Swept'
<1> USE DEF CountRaylets
<1>1. Lively'
  <2>1. own' \in {own, Nobody} /\ at' # "spawn" /\ boots \in Nat
    BY BootsNatural DEF Leave
  <2> QED
    BY <2>1, CalmLively
<1>2. CASE Leave
  BY <1>1, <1>2, NowhereSwept DEF Leave
<1>3. CASE /\ (Delivered /\ raylet[host] = Nobody) \/ Lost
           /\ at' = "count vllm"
           /\ UNCHANGED <<host, round, ending, armsLeft, answered, own>>
  <2>1. ASSUME mislaid' = 1, NEW h \in Hosts, h <= host PROVE raylet[h] = Nobody
    <3>1. CASE mislaid = 1 /\ Delivered
      <4>1. host \in Hosts /\ raylet[host] = Nobody
        BY <1>3, <3>1, NotBoth DEF IInv, CommandTyped
      <4>2. h = host \/ h < host
        BY <2>1, <4>1, HostsInARow
      <4> QED
        BY <3>1, <4>1, <4>2 DEF Swept, Bare
    <3>2. CASE mislaid = 0
      BY <3>2 DEF IInv, Quiet, Fresh, Looking
    <3> QED
      BY <1>3, <2>1, <3>1, <3>2, FirstLost
  <2> QED
    BY <1>1, <1>3, <2>1 DEF Swept, Bare, Clean, Alone, Up, cluster
<1> QED
  BY <1>2, <1>3

LEMMA CountVllmSwept == ASSUME IInv, Lively, Swept, CountVllm PROVE Lively' /\ Swept'
<1> USE DEF CountVllm
<1>1. Lively'
  <2>1. own' \in {own, Nobody} /\ at' # "spawn" /\ boots \in Nat
    BY BootsNatural DEF Leave
  <2> QED
    BY <2>1, CalmLively
<1>2. CASE Leave
  BY <1>1, <1>2, NowhereSwept DEF Leave
<1>3. CASE /\ Delivered \/ Lost
           /\ at' = IF host = Nodes THEN "free" ELSE "count raylets"
           /\ host' = IF host = Nodes THEN Head ELSE host + 1
  <2>1. ASSUME mislaid' = 1, NEW h \in Hosts, h <= host PROVE raylet[h] = Nobody
    BY <1>3, <2>1, FirstLost DEF Swept, Bare, IInv, Quiet, Fresh, Looking
  <2>2. host \in Hosts
    BY DEF IInv, CommandTyped
  <2>3. CASE host = Nodes
    <3>1. at' = "free" /\ \A h \in Hosts : h <= host
      BY <1>3, <2>3, HostsInARow
    <3> QED
      BY <1>1, <2>1, <3>1 DEF Swept, Bare, Clean, Alone, Up, cluster
  <2>4. CASE host # Nodes
    <3>1. at' = "count raylets" /\ \A h \in Hosts : h < host' => h <= host
      BY <1>3, <2>2, <2>4, HostsInARow
    <3> QED
      BY <1>1, <2>1, <3>1 DEF Swept, Bare, Clean, Alone, Up, cluster
  <2> QED
    BY <2>3, <2>4
<1> QED
  BY <1>2, <1>3

LEMMA FreeSwept == ASSUME IInv, Lively, Swept, Free PROVE Lively' /\ Swept'
<1>1. /\ Loses
      /\ UNCHANGED <<boots, cluster>> /\ at = "free"
      /\ at' \in {"idle", "gate", "free", "preflight"} /\ own' \in {own, Nobody}
  BY SilentHosts DEF Free, TornDown, Goto, Leave, Loses
<1>2. Lively'
  BY <1>1, CalmLively DEF IInv, CountsTyped
<1>3. mislaid' = 1 => \A h \in Hosts : raylet[h] = Nobody
  BY <1>1, FirstLost DEF Swept, Bare, IInv, Quiet, Fresh, Looking
<1>4. Swept'
  BY <1>1, <1>3 DEF Swept, Bare, Clean, Alone, Up, cluster
<1> QED
  BY <1>2, <1>4

\* Where no raylet is left, no server and no rank is.
LEMMA PreflightSwept == ASSUME IInv, Lively, Swept, Preflight PROVE Lively' /\ Swept'
<1>1. Lively'
  BY CalmLively DEF Preflight, Goto, Leave, IInv, CountsTyped, counts
<1>2. CASE Leave
  BY <1>1, <1>2, NowhereSwept DEF Leave
<1>3. CASE Goto("ray")
  <2>1. ASSUME mislaid' = 1
        PROVE  NoServer /\ NoneUp /\ \A h \in Hosts : raylet[h] = Nobody
    <3>1. \A h \in Hosts : raylet[h] = Nobody
      BY <2>1 DEF Preflight, Swept, Bare
    <3>2. \A b \in Boots : serve[b] \in {"unborn", "gone"}
      BY <3>1, HeadIsHost DEF Lively, IInv, ClusterTyped
    <3>3. port = Nobody
      BY <3>2 DEF Lively, IInv, ClusterTyped
    <3> QED
      BY <3>1, <3>2, <3>3 DEF NoServer, NoneUp, Lively
  <2> QED
    BY <1>1, <1>3, <2>1
       DEF Preflight, Goto, cluster, counts, Swept, Bare, Clean, Alone, Up, NoServer, NoneUp
<1> QED
  BY <1>2, <1>3 DEF Preflight

LEMMA RayStartSwept == ASSUME IInv, Lively, Swept, RayStart PROVE Lively' /\ Swept'
<1> USE DEF RayStart
<1>1. host \in Hosts /\ boots + 1 \in Boots /\ boots \in Nat /\ boots + 1 # Nobody
  BY ServerToCome DEF IInv, CommandTyped, Starting, Nobody
<1>2. /\ own' \in {own, Nobody} /\ at' # "spawn" /\ boots' = boots
      /\ Attach(host) \/ UNCHANGED cluster
  BY DEF Leave, NextHost
<1>3. Lively'
  <2>1. CASE UNCHANGED cluster
    BY <1>1, <1>2, <2>1, CalmLively
  <2>2. CASE Attach(host)
    <3>1. \A h \in Hosts : raylet[h] # Nobody => raylet'[h] # Nobody
      BY <1>1, <2>2 DEF Attach, IInv, ClusterTyped
    <3>2. own' <= boots'
      BY <1>1, <1>2 DEF Lively, Nobody
    <3> QED
      BY <1>2, <2>2, <3>1, <3>2, HeadIsHost DEF Lively, Attach
  <2> QED
    BY <1>2, <2>1, <2>2
<1>4. CASE Leave
  BY <1>3, <1>4, NowhereSwept DEF Leave
<1>5. CASE Delivered /\ Attach(host) /\ NextHost("gpus")
  <2>1. ASSUME mislaid' = 1
        PROVE  NoServer' /\ NoneUp' /\ \A h \in Hosts : raylet'[h] \in {Nobody, boots + 1}
    <3>1. NoServer /\ NoneUp /\ \A h \in Hosts : raylet[h] \in {Nobody, boots + 1}
      BY <1>5, <2>1 DEF Delivered, Swept, Clean
    <3> QED
      BY <1>1, <1>5, <3>1 DEF Attach, NoServer, NoneUp, IInv, ClusterTyped
  <2>2. at' \in {"ray", "gpus"}
    BY <1>5 DEF NextHost
  <2> QED
    BY <1>2, <1>3, <2>1, <2>2 DEF Swept, Bare, Clean, Alone, Up
<1> QED
  BY <1>4, <1>5

LEMMA CountGpusSwept == ASSUME IInv, Lively, Swept, CountGpus PROVE Lively' /\ Swept'
<1> USE DEF CountGpus
<1>1. Lively'
  <2>1. own' \in {own, Nobody} /\ boots \in Nat /\ boots' = boots
        /\ (at' = "spawn" => \A h \in Hosts : raylet[h] # Nobody)
    BY DEF Leave, Goto, IInv, CountsTyped
  <2> QED
    BY <2>1, CalmLively
<1>2. CASE Leave
  BY <1>1, <1>2, NowhereSwept DEF Leave
<1>3. CASE Delivered /\ Goto("spawn")
  BY <1>1, <1>3
     DEF Delivered, Goto, cluster, Swept, Bare, Clean, Alone, Up, NoServer, NoneUp
<1> QED
  BY <1>2, <1>3

LEMMA SpawnSwept == ASSUME IInv, Lively, Swept, Spawn PROVE Lively' /\ Swept'
<1> USE DEF Spawn
<1>1. boots + 1 \in Boots /\ boots \in Nat /\ boots + 1 # Nobody
  BY ServerToCome, HeadIsHost DEF Starting
<1>2. serve'[boots + 1] = "loading" /\ \A b \in Boots \ {boots + 1} : serve'[b] = serve[b]
  BY <1>1 DEF IInv, ClusterTyped
<1>3. Lively'
  <2>1. port # Nobody => serve'[port] = "ready"
    <3>1. serve[boots + 1] = "unborn"
      BY <1>1 DEF Lively
    <3> QED
      BY <1>2, <3>1 DEF Lively, IInv, ClusterTyped
  <2>2. \A b \in Boots : b > boots + 1 => serve'[b] = "unborn"
    BY <1>1, <1>2 DEF Lively, Boots
  <2>3. raylet[Head] # Nobody
    BY HeadIsHost DEF Lively
  <2>4. own' <= boots' /\ boots' = boots + 1 /\ at' # "spawn"
    BY <1>1
  <2> QED
    BY <2>1, <2>2, <2>3, <2>4 DEF Lively
<1>4. ASSUME mislaid' = 1 PROVE Alone'
  BY <1>1, <1>2, <1>4 DEF Swept, Clean, NoServer, NoneUp, Alone
<1> QED
  BY <1>3, <1>4 DEF Swept, Bare, Clean, Alone

\* Steps of the harness that leave the cluster alone, with or without its server.
LEMMA AwaySwept ==
    ASSUME IInv, Lively, Swept, UNCHANGED <<cluster, boots>>,
           \/ at' \in {"idle", "gate", "kill", "exit"} /\ own' \in {own, Nobody}
           \/ at \in Up /\ at' \in Up /\ own' = own /\ mislaid' = mislaid
    PROVE  Lively' /\ Swept'
<1>1. Lively'
  BY CalmLively DEF IInv, CountsTyped, Up
<1>2. CASE at' \in {"idle", "gate", "kill", "exit"}
  BY <1>1, <1>2, NowhereSwept
<1>3. CASE at \in Up /\ at' \in Up /\ own' = own /\ mislaid' = mislaid
  <2>1. at' \notin {"count raylets", "count vllm", "free", "preflight", "ray", "gpus", "spawn"}
    BY <1>3 DEF Up
  <2> QED
    BY <1>1, <1>3, <2>1 DEF Swept, Bare, Clean, Alone, cluster
<1> QED
  BY <1>2, <1>3

LEMMA TerminateSwept == ASSUME IInv, Lively, Swept, Terminate PROVE Lively' /\ Swept'
<1> USE DEF Terminate, Goto, counts
<1>1. own \in Boots /\ boots \in Nat
  BY DEF IInv, Turns, CountsTyped
<1>2. \A b \in Boots : serve'[b] \in {serve[b], "gone"} /\ (b # own => serve'[b] = serve[b])
  BY <1>1 DEF IInv, ClusterTyped
<1>3. port' # Nobody => serve'[port'] = "ready"
  BY <1>2 DEF Lively, IInv, ClusterTyped
<1>4. \A b \in Boots : b > boots => serve'[b] = "unborn"
  BY <1>1, <1>2 DEF Lively, Boots
<1> QED
  BY <1>2, <1>3, <1>4, NowhereSwept DEF Lively

-----------------------------------------------------------------------------

\* Steps of the cluster in which nothing dies by itself.
LEMMA LoadSwept == ASSUME IInv, Lively, Swept, NEW b \in Boots, Load(b) PROVE Lively' /\ Swept'
<1> USE DEF Load, command
<1>1. \A c \in Boots \ {b} : ranks'[c] = ranks[c] /\ serve'[c] = serve[c]
  BY DEF IInv, ClusterTyped
<1>2. ranks'[b] = [h \in Hosts |-> Rank("up", raylet[h])] /\ serve'[b] \in {"ready", "gone"}
  BY DEF IInv, ClusterTyped
<1>3. port' # Nobody => serve'[port'] = "ready"
  BY <1>1, HeadIsHost DEF Lively, IInv, ClusterTyped
<1>4. ~(b > boots)
  BY DEF Lively
<1>5. Lively'
  BY <1>1, <1>3, <1>4, HeadIsHost DEF Lively, counts
<1>6. ~NoServer
  BY DEF NoServer
<1>7. ASSUME mislaid = 1 PROVE Bare' /\ Clean'
  BY <1>6, <1>7 DEF Swept, Bare, Clean
<1>8. ASSUME mislaid = 1, at \in Up PROVE Alone'
  <2>1. b = own /\ \A h \in Hosts : raylet[h] = own
    BY <1>8 DEF Swept, Alone
  <2> QED
    BY <1>1, <1>2, <1>8, <2>1 DEF Swept, Alone
<1> QED
  BY <1>5, <1>7, <1>8 DEF Swept, Alone

LEMMA NoMemorySwept == ASSUME IInv, Lively, Swept, NEW b \in Boots, NoMemory(b) PROVE Lively' /\ Swept'
<1> USE DEF NoMemory, command, counts
<1>1. \A c \in Boots : serve'[c] \in {serve[c], "gone"} /\ (c # b => serve'[c] = serve[c])
  BY DEF IInv, ClusterTyped
<1>2. ~(b > boots) /\ port # b
  BY HeadIsHost DEF Lively
<1>3. Lively'
  BY <1>1, <1>2 DEF Lively, IInv, ClusterTyped
<1>4. at \in Up => own \in Boots
  BY DEF IInv, Turns
<1>5. Swept'
  BY <1>1, <1>4 DEF Swept, Bare, Clean, Alone, NoServer, NoneUp
<1> QED
  BY <1>3, <1>5

LEMMA FadeSwept ==
    ASSUME IInv, Lively, Swept, NEW b \in Boots, NEW h \in Hosts, Fade(b, h) PROVE Lively' /\ Swept'
<1>1. ranks[b] \in [Hosts -> RankType] /\ ranks[b][h] \in RankType
  BY DEF IInv, ClusterTyped
<1>2. PICK r \in RankType : ranks' = [ranks EXCEPT ![b][h] = r] /\ r.state # "up"
  <2>1. /\ NoRank \in RankType /\ Rank("exiting", ranks[b][h].env) \in RankType
        /\ NoRank.state # "up" /\ Rank("exiting", ranks[b][h].env).state # "up"
    BY <1>1 DEF NoRank, Rank, RankType
  <2>2. ranks' = [ranks EXCEPT ![b][h] =
                   IF ranks[b][h].state = "exiting" THEN NoRank
                   ELSE Rank("exiting", ranks[b][h].env)]
    BY <1>1 DEF Fade, IInv, ClusterTyped
  <2> QED
    BY <2>1, <2>2
<1>3. \A c \in Boots, k \in Hosts : (c # b \/ k # h) => ranks'[c][k] = ranks[c][k]
  BY <1>2 DEF IInv, ClusterTyped
<1>4. ranks'[b][h].state # "up"
  BY <1>1, <1>2 DEF IInv, ClusterTyped
<1>5. \A c \in Boots, k \in Hosts : ranks'[c][k].state = "up" => ranks[c][k].state = "up"
  BY <1>3, <1>4
<1>6. Lively'
  BY <1>5 DEF Fade, command, counts, Lively
<1>7. ASSUME mislaid = 1 PROVE Bare' /\ Clean'
  BY <1>5, <1>7 DEF Fade, command, counts, Swept, Bare, Clean, NoServer, NoneUp
<1>8. ASSUME mislaid = 1, at \in Up PROVE Alone'
  <2>1. ranks[b][h].state # "none" /\ (ranks[b][h].state = "up" => serve[b] = "gone")
    BY DEF Fade
  <2>2. b = own => serve[own] # "ready"
    BY <1>8, <2>1 DEF Swept, Alone, Rank
  <2> QED
    BY <1>3, <1>5, <1>8, <2>2 DEF Fade, command, Swept, Alone
<1> QED
  BY <1>6, <1>7, <1>8 DEF Fade, Swept, Alone, command

\* Who died stays dead.
LEMMA DeathsStay == ASSUME IInv, [Next]_vars, deaths' = 0 PROVE deaths = 0
<1>1. deaths \in Nat
  BY Constants DEF IInv, CountsTyped
<1>2. deaths' \in {deaths, deaths + 1}
  <2>1. CASE StartCommand \/ Interrupt \/ UNCHANGED vars
    BY <2>1 DEF StartCommand, Interrupt, vars, counts
  <2>2. CASE Harness
    BY <2>2 DEF Harness, Gate, Kill, CountRaylets, CountVllm, Free, Preflight, RayStart, CountGpus,
                Spawn, Poll, Ask, Deadline, Transport, Request, LastRow, Terminate, counts
  <2>3. ASSUME NEW b \in Boots, Load(b) \/ NoMemory(b) \/ Die(b) \/ \E h \in Hosts : Fade(b, h)
        PROVE  deaths' \in {deaths, deaths + 1}
    BY <2>3 DEF Load, NoMemory, Die, Fade, counts
  <2>4. CASE \E h \in Hosts : RayletDies(h)
    BY <2>4 DEF RayletDies
  <2> QED
    BY <2>1, <2>2, <2>3, <2>4 DEF Next
<1> QED
  BY <1>1, <1>2

LEMMA StepSwept == ASSUME IInv, Undying, [Next]_vars PROVE Undying'
<1> SUFFICES ASSUME deaths' = 0, deaths = 0 PROVE Lively' /\ Swept'
  BY DeathsStay DEF Undying
<1>1. Lively /\ Swept
  BY DEF Undying
<1>2. CASE Kill \/ CountRaylets \/ CountVllm \/ Free \/ Preflight \/ RayStart \/ CountGpus \/ Spawn
           \/ Terminate
  BY <1>1, <1>2, KillLively, CountRayletsSwept, CountVllmSwept, FreeSwept, PreflightSwept,
     RayStartSwept, CountGpusSwept, SpawnSwept, TerminateSwept
<1>3. CASE Gate \/ StartCommand \/ Interrupt
  <2>1. UNCHANGED <<cluster, boots>> /\ at' \in {"idle", "gate", "kill", "exit"}
        /\ own' \in {own, Nobody}
    BY <1>3 DEF Gate, StartCommand, Interrupt, Goto, Leave, Exit, counts
  <2> QED
    BY <1>1, <2>1, AwaySwept
<1>4. CASE Poll \/ Ask \/ Transport \/ Request \/ LastRow \/ Deadline
  <2>1. UNCHANGED <<cluster, boots, mislaid>> /\ at \in Up
    BY <1>4 DEF Poll, Ask, Transport, Request, LastRow, Deadline, counts, Up
  <2>2. \/ at' \in {"idle", "exit"} /\ own' \in {own, Nobody}
        \/ at' \in Up /\ own' = own
    BY <1>4 DEF Poll, Ask, Transport, Request, LastRow, Deadline, Goto, Leave, Exit, Up
  <2> QED
    BY <1>1, <2>1, <2>2, AwaySwept
<1>5. ASSUME NEW b \in Boots, Load(b) \/ NoMemory(b) \/ Die(b) \/ \E h \in Hosts : Fade(b, h)
      PROVE  Lively' /\ Swept'
  <2>1. ~Die(b)
    BY DEF Die
  <2> QED
    BY <1>1, <1>5, <2>1, LoadSwept, NoMemorySwept, FadeSwept
<1>6. \A h \in Hosts : ~RayletDies(h)
  BY DEF RayletDies
<1>7. CASE UNCHANGED vars
  BY <1>1, <1>7 DEF vars, command, cluster, counts, Lively, Swept, Bare, Clean, Alone, NoServer, NoneUp
<1> QED
  BY <1>2, <1>3, <1>4, <1>5, <1>6, <1>7 DEF Next, Harness

\* A row of such an arm is its own server's too.
LEMMA AloneIsOwn ==
    ASSUME IInv, Undying, at = "serving", Answers, mislaid = 1, deaths = 0
    PROVE  Behind.serve = Behind.own /\ Behind.envs = {Behind.own} /\ ~Behind.strangers
<1>1. Alone /\ at \in Up /\ own \in Boots
  BY DEF Undying, Swept, Up, IInv, Turns
<1>2. port = own /\ serve[own] = "ready"
  BY <1>1 DEF Answers, Alone
<1>3. \A h \in Hosts : ranks[own][h] = Rank("up", own)
  BY <1>1, <1>2 DEF Alone
<1>4. {ranks[port][h].env : h \in Hosts} = {own}
  BY <1>2, <1>3, HeadIsHost DEF Rank
<1>5. ~\E b \in Boots \ {port}, h \in Hosts : ranks[b][h].state = "up"
  BY <1>1, <1>2 DEF Alone
<1> QED
  BY <1>2, <1>4, <1>5 DEF Behind

LEMMA RowsStayOwn == ASSUME IInv, SInv, [Next]_vars PROVE ArmIsItsOwn'
<1>1. CASE rows' = rows
  <2>1. deaths' = 0 => deaths = 0
    BY DeathsStay
  <2> QED
    BY <1>1, <2>1 DEF SInv, ArmIsItsOwn
<1>2. CASE rows' # rows
  <2>1. Request
    <3>1. ~(StartCommand \/ Interrupt \/ UNCHANGED vars)
      BY <1>2 DEF StartCommand, Interrupt, vars
    <3>2. Harness => Request
      BY <1>2 DEF Harness, Gate, Kill, CountRaylets, CountVllm, Free, Preflight, RayStart, CountGpus,
                  Spawn, Poll, Ask, Deadline, Transport, LastRow, Terminate
    <3>3. \A b \in Boots : ~(Load(b) \/ NoMemory(b) \/ Die(b) \/ \E h \in Hosts : Fade(b, h))
      BY <1>2 DEF Load, NoMemory, Die, Fade
    <3>4. ~\E h \in Hosts : RayletDies(h)
      BY <1>2 DEF RayletDies
    <3> QED
      BY <3>1, <3>2, <3>3, <3>4 DEF Next
  <2>2. rows' = rows \cup {Behind} /\ Answers /\ at = "serving" /\ deaths' = deaths
    BY <1>2, <2>1 DEF Request, counts
  <2>3. Behind.mislaid = mislaid
    BY DEF Behind
  <2>4. mislaid = 0 \/ (mislaid = 1 /\ deaths = 0) =>
          Behind.serve = Behind.own /\ Behind.envs = {Behind.own} /\ ~Behind.strangers
    BY <2>2, BehindIsOwn, AloneIsOwn DEF SInv
  <2> QED
    BY <2>2, <2>3, <2>4 DEF SInv, ArmIsItsOwn
<1> QED
  BY <1>1, <1>2

LEMMA AlwaysSInv == Spec => []SInv
<1>1. Init => SInv
  <2> SUFFICES ASSUME Init PROVE SInv
    OBVIOUS
  <2>1. Lively
    BY Constants DEF Init, Lively, NoRank, Nobody, Boots
  <2>2. Swept /\ ArmIsItsOwn
    BY DEF Init, Swept, Bare, Clean, Alone, Up, ArmIsItsOwn
  <2> QED
    BY <2>1, <2>2 DEF SInv, Undying
<1>2. IInv /\ SInv /\ [Next]_vars => SInv'
  BY StepSwept, RowsStayOwn DEF SInv
<1> QED
  BY <1>1, <1>2, AlwaysIInv, PTL DEF Spec

-----------------------------------------------------------------------------
(* The theorems.                                                           *)

\* Every reachable state is well typed: no look at the GPUs, poll or arm is one
\* too many, and every raylet and rank is of a server that can have been.
THEOREM TypeCorrect == Spec => []TypeOK
<1>1. IInv => TypeOK
  <2> SUFFICES ASSUME IInv PROVE TypeOK
    OBVIOUS
  <2>1. at \in {"idle", "gate", "kill", "count raylets", "count vllm", "free", "preflight",
                "ray", "gpus", "spawn", "boot", "ask", "transport", "serving", "exit"}
    BY DEF IInv, CommandTyped, Places, Tearing, Looking, Starting, Up
  <2>2. host \in Hosts /\ round \in 0..(IF at = "free" THEN Rounds - 1 ELSE MaxPolls)
        /\ armsLeft \in (IF at = "idle" THEN {0} ELSE 1..Arms) /\ answered \in 0..Requests
    BY DEF IInv, CommandTyped
  <2>3. own \in {Nobody} \cup Boots /\ ending \in {"no", "normal", "escaping"}
    BY DEF IInv, Turns
  <2>4. /\ raylet \in [Hosts -> {Nobody} \cup Boots]
        /\ serve \in [Boots -> {"unborn", "loading", "ready", "gone"}]
        /\ ranks \in [Boots -> [Hosts -> [state : {"none", "up", "killed", "exiting"},
                                          env : {Nobody} \cup Boots]]]
        /\ port \in {Nobody} \cup Boots
    BY DEF IInv, ClusterTyped, RankType
  <2> QED
    BY <2>1, <2>2, <2>3, <2>4 DEF IInv, CountsTyped, TypeOK
<1> QED
  BY <1>1, AlwaysIInv, PTL

\* Cluster.teardown returns into a start only after every node answered that
\* nothing owns its GPU memory, and nothing can load before the spawn
\* (arena.py:310-339).
THEOREM GpusAreFree == Spec => []StartsOnFreeGpus
<1>1. IInv => StartsOnFreeGpus
  BY DEF IInv, Quiet, Unused, Starting, StartsOnFreeGpus, OnGpu
<1> QED
  BY <1>1, AlwaysIInv, PTL

\* "an arm must not inherit the previous arm's raylets" (arena.py:509-511):
\* where at most one ssh command of an arm's start was lost, and none if
\* something died by itself, every answer comes from the server of that arm, on
\* ranks in its environment and with no other rank running, whatever earlier
\* arms and commands left behind.
THEOREM ArmsAreTheirOwn == Spec => []ArmIsItsOwn
<1>1. SInv => ArmIsItsOwn
  BY DEF SInv
<1> QED
  BY <1>1, AlwaysSInv, PTL
=============================================================================
