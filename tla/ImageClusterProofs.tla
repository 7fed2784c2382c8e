------------------------- MODULE ImageClusterProofs -------------------------
(***************************************************************************)
(* Proofs about ImageCluster, for any number of nodes, arms, losses and    *)
(* interrupts: an arm is measured on the containers it started, and the    *)
(* arms of one command never meet each other's master port.                *)
(***************************************************************************)
EXTENDS ImageCluster, TLAPS

Places == {"idle", "new", "rm", "check", "run", "health", "serving", "exit"}
Booted == {"rm", "check", "run", "health", "serving", "exit"}
Up == {"loading", "listening"}

ContType ==
    [state : {"loading", "listening", "joined", "exited"},
     boot : Nat, command : Nat, port : Nat, group : Nat]

(* The inductive invariant.                                                *)

HarnessTyped ==
    /\ at \in Places /\ host \in Hosts
    /\ command \in Nat /\ boot \in Nat /\ polls \in 0..MaxPolls
    /\ seq \in 0..Arms /\ arm \in 0..Arms
    /\ at = "new" => arm = seq + 1
    /\ at \in Booted => arm = seq /\ arm >= 1
    /\ at \in {"new", "health", "serving"} \cup Booted => command >= 1
    /\ at \in Booted => boot >= 1
    /\ escaping \in BOOLEAN

ContTyped ==
    /\ cont \in [Hosts -> {None} \cup ContType]
    /\ \A h \in Hosts : cont[h] # None => cont[h].boot \in 1..boot /\ cont[h].command \in 1..command

CountsTyped == lost \in 0..MaxLost /\ deaths \in 0..MaxDeaths /\ kills \in 0..MaxKills

\* docker run fails on a name that is taken, so the nodes the loop has passed
\* hold containers of this boot.
Started ==
    /\ at = "run" => \A h \in Hosts : h < host => cont[h] # None /\ cont[h].boot = boot
    /\ at \in {"health", "serving"} => \A h \in Hosts : cont[h] # None /\ cont[h].boot = boot

\* Until the arm that is booting has run its head, its port is not in use.
HeadIsNew == at \in {"rm", "check"} \/ (at = "run" /\ host = 1)
Newest == IF HeadIsNew THEN BasePort + seq - 1 ELSE BasePort + seq

SocketsFresh ==
    /\ waiting \subseteq [port : Nat, command : Nat]
    /\ \A w \in waiting : w.command \in 1..command /\ (w.command = command => w.port <= Newest)

HeadFresh == cont[1] # None /\ cont[1].command = command => cont[1].port <= Newest

\* A head that is up has a newer port than any socket its command left.
HeadIsAhead ==
    cont[1] # None /\ cont[1].state \in Up =>
        \A w \in waiting : w.command = cont[1].command => w.port < cont[1].port

Ports == SocketsFresh /\ HeadFresh /\ HeadIsAhead

IInv ==
    /\ HarnessTyped
    /\ ContTyped
    /\ CountsTyped
    /\ Started
    /\ Ports
    /\ GroupIsOwn
    /\ NoSelfClash
    /\ clash \in BOOLEAN

-----------------------------------------------------------------------------

LEMMA HeadIsHost == 1 \in Hosts
BY ImageAssumption DEF Hosts

LEMMA NoContainer == None \notin ContType /\ None.state = "none"
BY DEF None, ContType

LEMMA InitHolds == Init => IInv
<1> SUFFICES ASSUME Init PROVE IInv
  OBVIOUS
<1>1. HarnessTyped
  <2>1. host \in Hosts /\ polls \in 0..MaxPolls /\ seq \in 0..Arms /\ arm \in 0..Arms
    BY ImageAssumption DEF Init, Hosts
  <2> QED
    BY <2>1 DEF Init, HarnessTyped, Places, Booted
<1>2. ContTyped /\ CountsTyped
  <2>1. lost \in 0..MaxLost /\ deaths \in 0..MaxDeaths /\ kills \in 0..MaxKills
    BY ImageAssumption DEF Init
  <2> QED
    BY <2>1 DEF Init, ContTyped, CountsTyped
<1>3. Started /\ Ports
  BY HeadIsHost DEF Init, Started, Ports, SocketsFresh, HeadFresh, HeadIsAhead
<1>4. GroupIsOwn /\ NoSelfClash
  BY DEF Init, GroupIsOwn, NoSelfClash, Unmeasured
<1> QED
  BY <1>1, <1>2, <1>3, <1>4 DEF IInv, Init

\* Steps that leave the containers and the sockets alone.
LEMMA PortsKept ==
    ASSUME IInv, HarnessTyped', UNCHANGED <<cont, waiting>>,
           \/ command' = command /\ Newest' >= Newest
           \/ command' = command + 1
    PROVE  Ports'
<1> USE DEF IInv, Ports
<1>1. Newest \in Int /\ Newest' \in Int /\ command \in Nat
  BY ImageAssumption DEF Newest, HarnessTyped
<1>2. SocketsFresh'
  <2> SUFFICES ASSUME NEW w \in waiting
               PROVE  w.command \in 1..command' /\ (w.command = command' => w.port <= Newest')
    BY DEF SocketsFresh
  <2>1. w.command \in 1..command /\ (w.command = command => w.port <= Newest) /\ w.port \in Nat
    BY DEF SocketsFresh
  <2> QED
    BY <1>1, <2>1
<1>3. HeadFresh'
  <2> SUFFICES ASSUME cont[1] # None, cont[1].command = command' PROVE cont[1].port <= Newest'
    BY DEF HeadFresh
  <2>1. cont[1].command \in 1..command /\ cont[1].port \in Nat
    BY HeadIsHost DEF ContTyped, ContType
  <2> QED
    BY <1>1, <2>1 DEF HeadFresh
<1>4. HeadIsAhead'
  BY DEF HeadIsAhead
<1> QED
  BY <1>2, <1>3, <1>4

\* Steps of the harness that touch nothing but its own place.
LEMMA MoveKeeps ==
    ASSUME IInv, HarnessTyped', UNCHANGED <<cont, waiting, clash, measured>>, CountsTyped',
           \/ command' = command /\ Newest' >= Newest
           \/ command' = command + 1,
           boot' \in Nat, boot' >= boot, Started'
    PROVE  IInv'
<1>1. Ports'
  BY PortsKept
<1>2. ContTyped'
  <2> SUFFICES ASSUME NEW h \in Hosts, cont[h] # None
               PROVE  cont[h].boot \in 1..boot' /\ cont[h].command \in 1..command'
    BY DEF IInv, ContTyped
  <2>1. cont[h].boot \in 1..boot /\ cont[h].command \in 1..command
    BY DEF IInv, ContTyped
  <2> QED
    BY <2>1 DEF IInv, HarnessTyped
<1> QED
  BY <1>1, <1>2 DEF IInv, GroupIsOwn, NoSelfClash

\* A command that is over, with the cluster as it is.
LEMMA LeaveKeeps ==
    ASSUME IInv, Leave, UNCHANGED <<cont, waiting, clash>>, CountsTyped'
    PROVE  IInv'
<1>1. at' = "idle" /\ UNCHANGED <<host, command, seq, arm, boot, polls, escaping, measured>>
  BY DEF Leave
<1>2. HarnessTyped'
  BY <1>1 DEF IInv, HarnessTyped, Places, Booted
<1>3. Started'
  BY <1>1 DEF Started
<1>4. Newest' >= Newest
  BY <1>1, ImageAssumption DEF Newest, HeadIsNew, IInv, HarnessTyped
<1>5. boot \in Nat /\ boot >= boot
  BY DEF IInv, HarnessTyped
<1> QED
  BY <1>1, <1>2, <1>3, <1>4, <1>5, MoveKeeps

LEMMA CountsKept ==
    ASSUME IInv,
           UNCHANGED lost \/ Lost,
           UNCHANGED deaths \/ (deaths < MaxDeaths /\ deaths' = deaths + 1),
           UNCHANGED kills \/ (kills < MaxKills /\ kills' = kills + 1)
    PROVE  CountsTyped'
BY ImageAssumption DEF IInv, CountsTyped, Lost

LEMMA StartKeeps == ASSUME IInv, StartCommand PROVE IInv'
<1> USE DEF StartCommand
<1>1. HarnessTyped'
  BY ImageAssumption DEF IInv, HarnessTyped, Places, Booted
<1>2. CountsTyped' /\ Started'
  BY DEF IInv, CountsTyped, Started
<1>3. boot' \in Nat /\ boot' >= boot
  BY DEF IInv, HarnessTyped
<1> QED
  BY <1>1, <1>2, <1>3, MoveKeeps

LEMMA NewServerKeeps == ASSUME IInv, NewServer PROVE IInv'
<1> USE DEF NewServer
<1>1. HarnessTyped'
  BY ImageAssumption, HeadIsHost DEF IInv, HarnessTyped, Places, Booted
<1>2. CountsTyped' /\ Started'
  BY DEF IInv, CountsTyped, Started
<1>3. boot' \in Nat /\ boot' >= boot
  BY DEF IInv, HarnessTyped
<1>4. Newest' >= Newest
  BY ImageAssumption DEF Newest, HeadIsNew, IInv, HarnessTyped
<1> QED
  BY <1>1, <1>2, <1>3, <1>4, MoveKeeps

\* The next node of a loop, or the stage after it.
LEMMA NextHostIs ==
    ASSUME IInv, NEW to, NextHost(to)
    PROVE  /\ host' \in Hosts
           /\ \/ host < Nodes /\ at' = at /\ host' = host + 1
              \/ host = Nodes /\ at' = to /\ host' = 1
<1>1. host \in 1..Nodes /\ Nodes \in Nat
  BY ImageAssumption DEF IInv, HarnessTyped, Hosts
<1>2. CASE host = Nodes
  BY <1>1, <1>2, HeadIsHost DEF NextHost
<1>3. CASE host # Nodes
  BY <1>1, <1>3 DEF NextHost, Hosts
<1> QED
  BY <1>2, <1>3

LEMMA CheckKeeps == ASSUME IInv, Check PROVE IInv'
<1>1. CountsTyped'
  BY CountsKept DEF Check, Sent
<1>2. CASE Lost /\ Leave
  BY <1>1, <1>2, LeaveKeeps DEF Check
<1>3. CASE NextHost("run") /\ UNCHANGED <<command, seq, arm, boot, polls, escaping, measured>>
  <2>1. /\ host' \in Hosts
        /\ at' = "check" \/ (at' = "run" /\ host' = 1)
    BY <1>3, NextHostIs DEF Check
  <2>2. HarnessTyped'
    BY <1>3, <2>1 DEF Check, IInv, HarnessTyped, Places, Booted
  <2>3. Started'
    BY <2>1 DEF Started, Hosts
  <2>4. Newest' >= Newest
    BY <1>3, <2>1, ImageAssumption DEF Check, Newest, HeadIsNew, IInv, HarnessTyped
  <2>5. boot' \in Nat /\ boot' >= boot
    BY <1>3 DEF IInv, HarnessTyped
  <2> QED
    BY <1>1, <1>3, <2>2, <2>3, <2>4, <2>5, MoveKeeps DEF Check
<1> QED
  BY <1>2, <1>3 DEF Check

LEMMA AskKeeps == ASSUME IInv, Ask PROVE IInv'
<1> USE DEF Ask
<1>1. HarnessTyped' /\ CountsTyped' /\ Started'
  BY DEF IInv, HarnessTyped, CountsTyped, Started, Places, Booted
<1>2. Newest' >= Newest /\ boot' \in Nat /\ boot' >= boot
  BY ImageAssumption DEF Newest, HeadIsNew, IInv, HarnessTyped
<1> QED
  BY <1>1, <1>2, MoveKeeps

LEMMA PollKeeps == ASSUME IInv, Poll PROVE IInv'
<1>1. CountsTyped'
  BY CountsKept DEF Poll, Sent
<1>2. CASE Leave
  BY <1>1, <1>2, LeaveKeeps DEF Poll
<1>3. CASE polls' = polls + 1 /\ UNCHANGED <<at, host, command, seq, arm, boot, escaping, measured>>
  <2> USE <1>3 DEF Poll
  <2>1. HarnessTyped' /\ Started'
    BY ImageAssumption DEF IInv, HarnessTyped, Started
  <2>2. Newest' >= Newest /\ boot' \in Nat /\ boot' >= boot
    BY ImageAssumption DEF Newest, HeadIsNew, IInv, HarnessTyped
  <2> QED
    BY <1>1, <2>1, <2>2, MoveKeeps
<1> QED
  BY <1>2, <1>3 DEF Poll

\* To __exit__, after a deadline, an answer or a Ctrl-C.
LEMMA ExitKeeps ==
    ASSUME IInv, at \in {"health", "serving"}, at' = "exit", escaping' \in BOOLEAN, CountsTyped',
           UNCHANGED <<host, command, seq, arm, boot, polls, cont, waiting, clash>>,
           GroupIsOwn'
    PROVE  IInv'
<1>1. HarnessTyped' /\ Started'
  BY DEF IInv, HarnessTyped, Started, Places, Booted
<1>2. Newest' >= Newest
  BY ImageAssumption DEF Newest, HeadIsNew, IInv, HarnessTyped
<1>3. Ports' /\ ContTyped'
  BY <1>1, <1>2, PortsKept DEF IInv, ContTyped
<1> QED
  BY <1>1, <1>3 DEF IInv, NoSelfClash

LEMMA DeadlineKeeps == ASSUME IInv, Deadline PROVE IInv'
<1>1. CountsTyped'
  BY CountsKept DEF Deadline, Sent
<1> QED
  BY <1>1, LeaveKeeps, ExitKeeps DEF Deadline, IInv, GroupIsOwn

\* The group that answers is the one the arm started.
LEMMA ServeKeeps == ASSUME IInv, Serve PROVE IInv'
<1>1. CountsTyped'
  BY CountsKept DEF Serve
<1>2. \A h \in Hosts : cont[h].boot = boot
  BY DEF IInv, Started, Serve
<1>3. {cont[h].boot : h \in Hosts} = {boot}
  BY <1>2, HeadIsHost
<1>4. GroupIsOwn'
  BY <1>3 DEF Serve, IInv, GroupIsOwn
<1>5. escaping' \in BOOLEAN
  <2>1. escaping' = ~Healthy
    BY DEF Serve
  <2> QED
    BY <2>1
<1> QED
  BY <1>1, <1>4, <1>5, ExitKeeps DEF Serve

LEMMA InterruptKeeps == ASSUME IInv, Interrupt PROVE IInv'
<1>1. CountsTyped'
  BY CountsKept DEF Interrupt
<1> QED
  BY <1>1, LeaveKeeps, ExitKeeps DEF Interrupt, IInv, GroupIsOwn

(* The steps that change what runs.                                        *)

LEMMA HeadSockets ==
    ASSUME IInv, NEW h \in Hosts, NEW w \in Sockets(h)
    PROVE  /\ h = 1 /\ cont[1] \in ContType
           /\ w \in [port : Nat, command : Nat]
           /\ w.port = cont[1].port /\ w.command = cont[1].command
           /\ w.command \in 1..command /\ (w.command = command => w.port <= Newest)
<1>1. h = 1 /\ cont[1].state = "listening" /\ w = [port |-> cont[1].port, command |-> cont[1].command]
  BY DEF Sockets
<1>2. cont[1] # None
  BY <1>1, NoContainer
<1>3. cont[1] \in ContType /\ cont[1].command \in 1..command
  BY <1>2, HeadIsHost DEF IInv, ContTyped
<1> QED
  BY <1>1, <1>2, <1>3 DEF ContType, IInv, Ports, HeadFresh

\* The container of h goes, or exits.
LEMMA PortsGone ==
    ASSUME IInv, HarnessTyped', NEW h \in Hosts, waiting' = waiting \cup Sockets(h),
           h # 1 => cont'[1] = cont[1],
           h = 1 => \/ cont'[1] = None
                    \/ /\ cont[1] # None /\ cont'[1] # None /\ cont'[1].state \notin Up
                       /\ cont'[1].port = cont[1].port /\ cont'[1].command = cont[1].command,
           command' = command, Newest' >= Newest
    PROVE  Ports'
<1> USE DEF IInv, Ports
<1>1. Newest \in Int /\ Newest' \in Int /\ command \in Nat
  BY ImageAssumption DEF Newest, HarnessTyped
<1>2. SocketsFresh'
  <2>1. waiting' \subseteq [port : Nat, command : Nat]
    BY HeadSockets DEF SocketsFresh
  <2>2. ASSUME NEW w \in waiting'
        PROVE  w.command \in 1..command' /\ (w.command = command' => w.port <= Newest')
    <3>1. w.command \in 1..command /\ (w.command = command => w.port <= Newest) /\ w.port \in Nat
      BY HeadSockets DEF SocketsFresh
    <3> QED
      BY <1>1, <3>1
  <2> QED
    BY <2>1, <2>2 DEF SocketsFresh
<1>3. HeadFresh'
  <2> SUFFICES ASSUME cont'[1] # None, cont'[1].command = command PROVE cont'[1].port <= Newest'
    BY DEF HeadFresh
  <2>1. cont[1] # None /\ cont[1].command = command /\ cont'[1].port = cont[1].port
    OBVIOUS
  <2>2. cont[1].port \in Nat /\ cont[1].port <= Newest
    BY <2>1, HeadIsHost DEF HeadFresh, ContTyped, ContType
  <2> QED
    BY <1>1, <2>1, <2>2
<1>4. HeadIsAhead'
  <2>1. CASE h = 1
    BY <2>1 DEF HeadIsAhead
  <2>2. CASE h # 1
    BY <2>2, HeadSockets DEF HeadIsAhead
  <2> QED
    BY <2>1, <2>2
<1> QED
  BY <1>2, <1>3, <1>4

LEMMA RemoveKeeps == ASSUME IInv, Remove PROVE IInv'
<1>1. CountsTyped'
  BY CountsKept DEF Remove, Sent
<1>2. CASE Lost /\ Leave /\ UNCHANGED <<cont, waiting>>
  BY <1>1, <1>2, LeaveKeeps DEF Remove
<1>3. CASE /\ NextHost(Removed)
           /\ arm' = IF at' = "new" THEN arm + 1 ELSE arm
           /\ UNCHANGED <<command, seq, boot, polls, escaping, measured>>
           /\ \/ UNCHANGED <<cont, waiting>>
              \/ /\ cont' = [cont EXCEPT ![host] = None]
                 /\ waiting' = waiting \cup Sockets(host)
  <2> USE <1>3
  <2>1. at \in {"rm", "exit"} /\ UNCHANGED clash
    BY DEF Remove
  <2>2. /\ host' \in Hosts
        /\ at' = at \/ at' = Removed
    BY HeadIsHost, ImageAssumption DEF NextHost, IInv, HarnessTyped, Hosts
  <2>3. /\ at = "rm" => at' \in {"rm", "check"}
        /\ at = "exit" => at' \in {"exit", "idle"} \/ (at' = "new" /\ arm # Arms)
    BY <2>1, <2>2 DEF Removed
  <2>4. HarnessTyped'
    BY <2>1, <2>2, <2>3, ImageAssumption DEF IInv, HarnessTyped, Places, Booted
  <2>5. Newest' >= Newest
    BY <2>1, <2>3, ImageAssumption DEF Newest, HeadIsNew, IInv, HarnessTyped
  <2>6. Started' /\ GroupIsOwn' /\ NoSelfClash' /\ clash' \in BOOLEAN
    BY <2>1, <2>3 DEF IInv, Started, GroupIsOwn, NoSelfClash
  <2>7. host \in Hosts
    BY DEF IInv, HarnessTyped
  <2>8. ContTyped'
    BY <2>7 DEF IInv, ContTyped
  <2>9. Ports'
    <3>1. CASE UNCHANGED <<cont, waiting>>
      BY <2>4, <2>5, <3>1, PortsKept
    <3>2. CASE cont' = [cont EXCEPT ![host] = None] /\ waiting' = waiting \cup Sockets(host)
      <4>1. PICK h \in Hosts : h = host
        BY <2>7
      <4>2. waiting' = waiting \cup Sockets(h)
        BY <3>2, <4>1 DEF Sockets
      <4>3. (h # 1 => cont'[1] = cont[1]) /\ (h = 1 => cont'[1] = None)
        BY <3>2, <4>1 DEF IInv, ContTyped
      <4> QED
        BY <2>4, <2>5, <4>2, <4>3, PortsGone
    <3> QED
      BY <3>1, <3>2
  <2> QED
    BY <1>1, <2>4, <2>6, <2>8, <2>9 DEF IInv
<1> QED
  BY <1>2, <1>3 DEF Remove

\* A new container: of this boot, and as a head with a port of its own.
LEMMA RunKeeps == ASSUME IInv, Run PROVE IInv'
<1> at = "run" /\ UNCHANGED <<waiting, clash>>
  BY DEF Run
<1>1. CountsTyped'
  BY CountsKept DEF Run, Sent
<1>2. CASE Leave /\ UNCHANGED cont
  BY <1>1, <1>2, LeaveKeeps DEF Run
<1>3. CASE /\ cont[host] = None
           /\ cont' = [cont EXCEPT ![host] = Container]
           /\ \/ /\ NextHost("health")
                 /\ UNCHANGED <<command, seq, arm, boot, polls, escaping, measured>>
              \/ Leave
  <2> USE <1>3
  <2>1. /\ host \in Hosts /\ host' \in Hosts
        /\ \/ host < Nodes /\ at' = "run" /\ host' = host + 1
           \/ host = Nodes /\ at' = "health" /\ host' = 1
           \/ at' = "idle" /\ host' = host
        /\ UNCHANGED <<command, seq, arm, boot, polls, escaping, measured>>
    BY NextHostIs DEF Leave, IInv, HarnessTyped
  <2>2. HarnessTyped'
    BY <2>1 DEF IInv, HarnessTyped, Places, Booted
  <2>3. Container \in ContType /\ Container.boot = boot /\ Container.command = command
        /\ Container.port = BasePort + seq /\ boot >= 1 /\ command >= 1
    BY ImageAssumption DEF Container, ContType, IInv, HarnessTyped, Booted
  <2>4. cont'[host] = Container /\ \A h \in Hosts \ {host} : cont'[h] = cont[h]
    BY <2>1 DEF IInv, ContTyped
  <2>5. ContTyped'
    <3>1. cont' \in [Hosts -> {None} \cup ContType]
      BY <2>1, <2>3 DEF IInv, ContTyped
    <3>2. ASSUME NEW h \in Hosts, cont'[h] # None
          PROVE  cont'[h].boot \in 1..boot /\ cont'[h].command \in 1..command
      BY <2>3, <2>4, <3>2 DEF IInv, ContTyped, HarnessTyped
    <3> QED
      BY <2>1, <3>1, <3>2 DEF ContTyped
  <2>6. Started'
    <3>1. Container # None
      BY <2>3, NoContainer
    <3>2. \A h \in Hosts : h < host \/ h = host => cont'[h] # None /\ cont'[h].boot = boot
      BY <2>1, <2>3, <2>4, <3>1 DEF IInv, Started
    <3>3. CASE host < Nodes /\ at' = "run" /\ host' = host + 1
      BY <2>1, <3>2, <3>3 DEF Started, Hosts
    <3>4. CASE host = Nodes /\ at' = "health"
      BY <2>1, <3>2, <3>4, ImageAssumption DEF Started, Hosts
    <3>5. CASE at' = "idle"
      BY <3>5 DEF Started
    <3> QED
      BY <2>1, <3>3, <3>4, <3>5
  <2>7. Ports'
    <3>1. BasePort \in Nat /\ seq \in Nat /\ Newest' = BasePort + seq /\ Newest <= BasePort + seq
          /\ (host = 1 => Newest = BasePort + seq - 1)
      BY <2>1, ImageAssumption DEF Newest, HeadIsNew, IInv, HarnessTyped, Hosts
    <3>2. SocketsFresh'
      <4> SUFFICES ASSUME NEW w \in waiting
                   PROVE  w.command \in 1..command /\ (w.command = command => w.port <= Newest')
        BY <2>1 DEF IInv, Ports, SocketsFresh
      <4>1. w.command \in 1..command /\ (w.command = command => w.port <= Newest) /\ w.port \in Nat
        BY DEF IInv, Ports, SocketsFresh
      <4>2. Newest \in Int
        BY <3>1 DEF Newest
      <4> QED
        BY <3>1, <4>1, <4>2
    <3>3. CASE host = 1
      <4>1. cont'[1] = Container
        BY <2>4, <3>3
      <4>2. HeadFresh'
        BY <2>1, <2>3, <3>1, <4>1 DEF HeadFresh
      <4>3. \A w \in waiting : w.command = command => w.port \in Nat /\ w.port <= BasePort + seq - 1
        BY <3>1, <3>3 DEF IInv, Ports, SocketsFresh
      <4>4. \A w \in waiting : w.command = command => w.port < BasePort + seq
        BY <3>1, <4>3
      <4>5. HeadIsAhead'
        BY <2>3, <4>1, <4>4 DEF HeadIsAhead
      <4> QED
        BY <3>2, <4>2, <4>5 DEF Ports
    <3>4. CASE host # 1
      <4>1. cont'[1] = cont[1]
        BY <2>4, <3>4, HeadIsHost
      <4>2. HeadFresh'
        <5> SUFFICES ASSUME cont[1] # None, cont[1].command = command PROVE cont[1].port <= Newest'
          BY <2>1, <4>1 DEF HeadFresh
        <5>1. cont[1].port \in Nat /\ cont[1].port <= Newest /\ Newest \in Int
          BY <3>1, HeadIsHost DEF IInv, Ports, HeadFresh, ContTyped, ContType, Newest
        <5> QED
          BY <3>1, <5>1
      <4>3. HeadIsAhead'
        BY <4>1 DEF IInv, Ports, HeadIsAhead
      <4> QED
        BY <3>2, <4>2, <4>3 DEF Ports
    <3> QED
      BY <3>3, <3>4
  <2> QED
    BY <1>1, <2>1, <2>2, <2>5, <2>6, <2>7 DEF IInv, GroupIsOwn, NoSelfClash
<1> QED
  BY <1>2, <1>3 DEF Run

\* A container moves on where it is, as the same container.
LEMMA SameContainer ==
    ASSUME IInv, NEW h \in Hosts, NEW state \in {"loading", "listening", "joined", "exited"},
           NEW group \in Nat, cont[h].state # "none",
           cont' = [cont EXCEPT ![h].state = state, ![h].group = group] \/
           cont' = [cont EXCEPT ![h].state = state],
           UNCHANGED <<at, host, command, seq, arm, boot, polls, escaping, measured>>
    PROVE  /\ HarnessTyped' /\ ContTyped' /\ Started' /\ GroupIsOwn' /\ Newest' = Newest
           /\ cont[h] \in ContType /\ cont[h] # None /\ cont'[h] # None
           /\ cont'[h].state = state
           /\ cont'[h].port = cont[h].port /\ cont'[h].command = cont[h].command
           /\ \A k \in Hosts \ {h} : cont'[k] = cont[k]
<1>1. cont[h] # None
  BY NoContainer
<1>2. cont[h] \in ContType /\ cont[h].boot \in 1..boot /\ cont[h].command \in 1..command
  BY <1>1 DEF IInv, ContTyped
<1>3. \A k \in Hosts \ {h} : cont'[k] = cont[k]
  BY DEF IInv, ContTyped
<1>4. cont'[h] = [cont[h] EXCEPT !.state = state, !.group = group]
      \/ cont'[h] = [cont[h] EXCEPT !.state = state]
  BY DEF IInv, ContTyped
<1>5. /\ cont'[h] \in ContType /\ cont'[h].state = state
      /\ cont'[h].port = cont[h].port /\ cont'[h].command = cont[h].command
      /\ cont'[h].boot = cont[h].boot
  BY <1>2, <1>4 DEF ContType
<1>6. cont'[h] # None
  BY <1>5, NoContainer
<1>7. HarnessTyped' /\ Newest' = Newest /\ GroupIsOwn'
  BY DEF IInv, HarnessTyped, Newest, HeadIsNew, GroupIsOwn
<1>8. ContTyped'
  <2>1. cont' \in [Hosts -> {None} \cup ContType]
    <3>1. DOMAIN cont' = Hosts /\ cont' = [k \in Hosts |-> cont'[k]]
      BY DEF IInv, ContTyped
    <3>2. \A k \in Hosts : cont'[k] \in {None} \cup ContType
      BY <1>3, <1>5 DEF IInv, ContTyped
    <3> QED
      BY <3>1, <3>2
  <2> QED
    BY <1>2, <1>3, <1>5, <2>1 DEF IInv, ContTyped
<1>9. Started'
  BY <1>1, <1>3, <1>5, <1>6 DEF IInv, Started
<1> QED
  BY <1>1, <1>2, <1>3, <1>5, <1>6, <1>7, <1>8, <1>9

LEMMA ListenKeeps == ASSUME IInv, Listen PROVE IInv'
<1> USE DEF Listen, harness
<1>1. PICK state \in {"listening", "exited"} : cont' = [cont EXCEPT ![1].state = state]
  OBVIOUS
<1>2. /\ HarnessTyped' /\ ContTyped' /\ Started' /\ GroupIsOwn' /\ Newest' = Newest
      /\ cont[1] # None /\ cont'[1] # None
      /\ cont'[1].port = cont[1].port /\ cont'[1].command = cont[1].command
  BY <1>1, HeadIsHost, SameContainer
<1>3. HeadIsAhead
  BY DEF IInv, Ports
<1>4. \A w \in waiting : w.command = cont[1].command => w.port < cont[1].port
  BY <1>2, <1>3 DEF HeadIsAhead, Up
<1>5. Ports'
  BY <1>2, <1>4 DEF IInv, Ports, SocketsFresh, HeadFresh, HeadIsAhead
<1>6. ASSUME NEW w \in waiting, w.port = cont[1].port PROVE w.command # cont[1].command
  <2>1. w.port \in Nat
    BY DEF IInv, Ports, SocketsFresh
  <2> QED
    BY <1>4, <1>6, <2>1
<1>7. UNCHANGED clash
  <2>1. ~clash
    BY DEF IInv, NoSelfClash
  <2>2. CASE clash' = (clash \/ \E w \in {v \in waiting : v.port = cont[1].port} :
                        w.command = cont[1].command)
    BY <1>6, <2>1, <2>2 DEF IInv
  <2> QED
    BY <2>2
<1>8. CountsTyped'
  BY DEF IInv, CountsTyped
<1> QED
  BY <1>2, <1>5, <1>7, <1>8 DEF IInv, NoSelfClash

LEMMA JoinKeeps == ASSUME IInv, NEW h \in Hosts, Join(h) PROVE IInv'
<1> USE DEF Join, harness
<1>1. cont[1].boot \in Nat
  <2>1. cont[1] # None
    BY NoContainer
  <2> QED
    BY <2>1, HeadIsHost DEF IInv, ContTyped, ContType
<1>2. cont' = [cont EXCEPT ![h].state = "joined", ![h].group = cont[1].boot] \/
      cont' = [cont EXCEPT ![h].state = "exited"]
  OBVIOUS
<1>3. /\ HarnessTyped' /\ ContTyped' /\ Started' /\ GroupIsOwn' /\ Newest' = Newest
      /\ \A k \in Hosts \ {h} : cont'[k] = cont[k]
  <2>1. cont[h].state # "none"
    OBVIOUS
  <2>2. UNCHANGED <<at, host, command, seq, arm, boot, polls, escaping, measured>>
    OBVIOUS
  <2> HIDE DEF Join
  <2>3. CASE cont' = [cont EXCEPT ![h].state = "joined", ![h].group = cont[1].boot]
    BY <1>1, <2>1, <2>2, <2>3, SameContainer
  <2>4. CASE cont' = [cont EXCEPT ![h].state = "exited"]
    BY <1>1, <2>1, <2>2, <2>4, SameContainer
  <2> QED
    BY <1>2, <2>3, <2>4
<1>4. cont'[1] = cont[1]
  BY <1>3, HeadIsHost
<1>5. Ports'
  BY <1>3, <1>4 DEF IInv, Ports, SocketsFresh, HeadFresh, HeadIsAhead
<1>6. CountsTyped'
  BY DEF IInv, CountsTyped
<1> QED
  BY <1>3, <1>5, <1>6 DEF IInv, NoSelfClash

LEMMA ExitedKeeps == ASSUME IInv, NEW h \in Hosts, Exit(h) PROVE IInv'
<1> USE DEF Exit, harness
<1>1. /\ HarnessTyped' /\ ContTyped' /\ Started' /\ GroupIsOwn' /\ Newest' = Newest
      /\ cont[h] # None /\ cont'[h] # None /\ cont'[h].state = "exited"
      /\ cont'[h].port = cont[h].port /\ cont'[h].command = cont[h].command
      /\ \A k \in Hosts \ {h} : cont'[k] = cont[k]
  BY SameContainer
<1>2. Newest \in Int
  BY ImageAssumption DEF Newest, IInv, HarnessTyped
<1>3. Ports'
  BY <1>1, <1>2, HeadIsHost, PortsGone DEF Up
<1>4. CountsTyped'
  BY CountsKept
<1> QED
  BY <1>1, <1>3, <1>4 DEF IInv, NoSelfClash

LEMMA ExpireKeeps == ASSUME IInv, Expire PROVE IInv'
<1> USE DEF Expire, harness
<1>1. waiting' \subseteq waiting
  OBVIOUS
<1>2. Ports'
  BY <1>1 DEF IInv, Ports, SocketsFresh, HeadFresh, HeadIsAhead, Newest, HeadIsNew
<1> QED
  BY <1>2 DEF IInv, HarnessTyped, ContTyped, CountsTyped, Started, GroupIsOwn, NoSelfClash

LEMMA IdleKeeps == ASSUME IInv, UNCHANGED vars PROVE IInv'
BY DEF vars, harness, IInv, HarnessTyped, ContTyped, CountsTyped, Started, GroupIsOwn, NoSelfClash,
       Ports, SocketsFresh, HeadFresh, HeadIsAhead, Newest, HeadIsNew

LEMMA StepHolds == ASSUME IInv, [Next]_vars PROVE IInv'
BY StartKeeps, NewServerKeeps, RemoveKeeps, CheckKeeps, RunKeeps, AskKeeps, PollKeeps,
   DeadlineKeeps, ServeKeeps, InterruptKeeps, ListenKeeps, JoinKeeps, ExitedKeeps, ExpireKeeps,
   IdleKeeps
   DEF Next, Harness

LEMMA AlwaysIInv == Spec => []IInv
<1>1. IInv /\ [Next]_vars => IInv'
  BY StepHolds
<1> QED
  BY <1>1, InitHolds, PTL DEF Spec

-----------------------------------------------------------------------------
(* The theorems.                                                           *)

\* Every reachable state is well typed: _boot_seq stays within the arms of its
\* command, and every container and socket is of a boot that was.
THEOREM TypeCorrect == Spec => []TypeOK
<1>1. IInv => TypeOK
  <2> SUFFICES ASSUME IInv PROVE TypeOK
    OBVIOUS
  <2>1. \A w \in waiting : w.command \in 1..command
    BY DEF IInv, Ports, SocketsFresh
  <2>2. \A h \in Hosts : cont[h] = None \/ cont[h].boot \in 1..boot
    BY DEF IInv, ContTyped
  <2>3. /\ at \in {"idle", "new", "rm", "check", "run", "health", "serving", "exit"}
        /\ host \in Hosts
        /\ seq \in 0..Arms /\ arm \in 0..Arms /\ boot \in Nat /\ polls \in 0..MaxPolls
    BY DEF IInv, HarnessTyped, Places
  <2>4. lost \in 0..MaxLost /\ deaths \in 0..MaxDeaths /\ kills \in 0..MaxKills
    BY DEF IInv, CountsTyped
  <2>5. escaping \in BOOLEAN /\ clash \in BOOLEAN
    BY DEF IInv, HarnessTyped
  <2> QED
    BY <2>1, <2>2, <2>3, <2>4, <2>5 DEF TypeOK
<1> QED
  BY <1>1, AlwaysIInv, PTL

\* `docker run` with a fixed name and check=True (arena.py:760-770) keeps what
\* an earlier boot left out of the group that is measured, however many of the
\* unchecked `docker rm` were lost.
THEOREM ArmsMeasureTheirOwn == Spec => []GroupIsOwn
<1>1. IInv => GroupIsOwn
  BY DEF IInv
<1> QED
  BY <1>1, AlwaysIInv, PTL

\* Bumping the master port in __init__ (arena.py:642-643) keeps every head of a
\* command clear of the sockets its earlier heads left in TIME_WAIT.
THEOREM PortsNeverClash == Spec => []NoSelfClash
<1>1. IInv => NoSelfClash
  BY DEF IInv
<1> QED
  BY <1>1, AlwaysIInv, PTL
=============================================================================
