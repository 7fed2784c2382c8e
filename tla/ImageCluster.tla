---------------------------- MODULE ImageCluster ----------------------------
(***************************************************************************)
(* ImageServer: the arms of a clustered target, one Docker container per   *)
(* node, driven over ssh.  Node 1 is the head: rank 0, the store the other *)
(* ranks connect to, and the API.                                          *)
(*                                                                         *)
(* An ssh command may be lost.  `docker rm` is sent without looking at its *)
(* outcome, `docker run` with check=True.  A container keeps its name when *)
(* it exits (no --rm), and the name is the same in every boot.             *)
(***************************************************************************)
EXTENDS Integers, FiniteSets

CONSTANTS
    Nodes,       \* how many; node 1 is the head
    BasePort,    \* cluster.masterPort
    Arms,        \* arms of one command
    MaxBoots,    \* bound: ImageServer objects over a behaviour
    MaxPolls,    \* the deadline of a boot, in health checks
    MaxLost,     \* bound: ssh commands that fail or time out
    MaxDeaths,   \* bound: containers that exit by themselves
    MaxKills     \* bound: interruptions of the harness

ASSUME ImageAssumption ==
    /\ Nodes \in Nat \ {0}
    /\ BasePort \in Nat
    /\ Arms \in Nat \ {0}
    /\ MaxBoots \in Nat /\ MaxPolls \in Nat
    /\ MaxLost \in Nat /\ MaxDeaths \in Nat /\ MaxKills \in Nat

VARIABLES
    at,        \* where the harness is
    host,      \* the node its loop has come to
    command,   \* number of the command, a process of its own
    seq,       \* _boot_seq of that process
    arm, boot, polls,
    escaping,  \* an exception is on its way out of __exit__
    cont,      \* node -> the container named self.name, or None
    waiting,   \* sockets in TIME_WAIT on the head: [port, command]
    clash,     \* history: a head met a socket of its own command
    measured,  \* history: the last arm whose requests were answered
    lost, deaths, kills

harness == <<at, host, command, seq, arm, boot, polls, escaping, measured>>
vars == <<harness, cont, waiting, clash, lost, deaths, kills>>

Hosts == 1..Nodes
None == [state |-> "none"]
Unmeasured == [boot |-> 0, ranks |-> {0}]

Init ==
    /\ at = "idle" /\ host = 1
    /\ command = 0 /\ seq = 0 /\ arm = 0 /\ boot = 0 /\ polls = 0
    /\ escaping = FALSE
    /\ cont = [h \in Hosts |-> None]
    /\ waiting = {}
    /\ clash = FALSE
    /\ measured = Unmeasured
    /\ lost = 0 /\ deaths = 0 /\ kills = 0

-----------------------------------------------------------------------------
(* Helpers.                                                                *)

\* An ssh command to a node is carried out, or is lost.
Sent == UNCHANGED lost
Lost == lost < MaxLost /\ lost' = lost + 1

\* die(), or an exception that nothing catches: the command is over, and what
\* __enter__ has started stays.
Leave ==
    /\ at' = "idle"
    /\ UNCHANGED <<host, command, seq, arm, boot, polls, escaping, measured>>

\* On to the next node with the same stage, or to stage `to`.
NextHost(to) ==
    /\ at' = IF host = Nodes THEN to ELSE at
    /\ host' = IF host = Nodes THEN 1 ELSE host + 1

\* The sockets a head leaves behind when it goes.
Sockets(h) ==
    IF h = 1 /\ cont[h].state = "listening"
    THEN {[port |-> cont[h].port, command |-> cont[h].command]}
    ELSE {}

\* Every rank is up and has joined the head.
Healthy ==
    /\ cont[1].state = "listening"
    /\ \A h \in Hosts \ {1} : cont[h].state = "joined" /\ cont[h].group = cont[1].boot

-----------------------------------------------------------------------------
(* The harness.                                                            *)

\* A command that runs arms: baseline, heldout, probe, warm.
StartCommand ==
    /\ at = "idle"
    /\ boot < MaxBoots
    /\ at' = "new"
    /\ command' = command + 1
    /\ seq' = 0 /\ arm' = 1
    /\ UNCHANGED <<host, boot, polls, escaping, measured, cont, waiting, clash,
                   lost, deaths, kills>>

\* Mutant: the master port is the same in every boot.
NewServerSamePort ==
    /\ at = "new"
    /\ boot' = boot + 1
    /\ at' = "rm" /\ host' = 1 /\ polls' = 0
    /\ UNCHANGED <<seq, command, arm, escaping, measured, cont, waiting, clash, lost, deaths, kills>>

\* __init__ takes a port of its own.
NewServer ==
    /\ at = "new"
    /\ seq' = seq + 1 /\ boot' = boot + 1
    /\ at' = "rm" /\ host' = 1 /\ polls' = 0
    /\ UNCHANGED <<command, arm, escaping, measured, cont, waiting, clash, lost, deaths, kills>>

\* Mutant: one arm too many.
RemovedLate ==
    IF at = "rm" THEN "check"
    ELSE IF escaping \/ arm > Arms THEN "idle"
    ELSE "new"

\* Where an arm goes when its last container has been removed.
Removed ==
    IF at = "rm" THEN "check"
    ELSE IF escaping \/ arm = Arms THEN "idle"
    ELSE "new"

\* _rm_containers, on one node: its outcome is not looked at, but an ssh that
\* times out raises.
Remove ==
    /\ at \in {"rm", "exit"}
    /\ \/ /\ cont' = [cont EXCEPT ![host] = None]
          /\ waiting' = waiting \cup Sockets(host)
          /\ Sent
          /\ NextHost(Removed)
          /\ arm' = IF at' = "new" THEN arm + 1 ELSE arm
          /\ UNCHANGED <<command, seq, boot, polls, escaping, measured>>
       \/ /\ Lost
          /\ NextHost(Removed)
          /\ arm' = IF at' = "new" THEN arm + 1 ELSE arm
          /\ UNCHANGED <<command, seq, boot, polls, escaping, measured, cont, waiting>>
       \/ Lost /\ Leave /\ UNCHANGED <<cont, waiting>>
    /\ UNCHANGED <<clash, deaths, kills>>

\* ulimit and docker image inspect on every node: an answer that does not come
\* is a wrong answer.
Check ==
    /\ at = "check"
    /\ \/ /\ Sent
          /\ NextHost("run")
          /\ UNCHANGED <<command, seq, arm, boot, polls, escaping, measured>>
       \/ Lost /\ Leave
    /\ UNCHANGED <<cont, waiting, clash, deaths, kills>>

Container ==
    [state |-> "loading", boot |-> boot, command |-> command,
     port |-> BasePort + seq, group |-> 0]

\* Mutant: a docker run that failed is not noticed.
RunUnchecked ==
    /\ at = "run"
    /\ cont' = [cont EXCEPT ![host] = IF @ = None THEN Container ELSE @]
    /\ NextHost("health")
    /\ UNCHANGED <<command, seq, arm, boot, polls, escaping, measured, waiting, clash,
                   lost, deaths, kills>>

\* docker run on one node, the head first.  It fails if the name is taken;
\* when only its answer is lost, the container runs all the same.
Run ==
    /\ at = "run"
    /\ \/ /\ cont[host] = None
          /\ cont' = [cont EXCEPT ![host] = Container]
          /\ \/ /\ Sent
                /\ NextHost("health")
                /\ UNCHANGED <<command, seq, arm, boot, polls, escaping, measured>>
             \/ Lost /\ Leave
       \/ cont[host] # None /\ Sent /\ Leave /\ UNCHANGED cont
       \/ Lost /\ Leave /\ UNCHANGED cont
    /\ UNCHANGED <<waiting, clash, deaths, kills>>

\* GET /health says 200.
Ask ==
    /\ at = "health"
    /\ Healthy
    /\ at' = "serving"
    /\ UNCHANGED <<host, command, seq, arm, boot, polls, escaping, measured, cont, waiting,
                   clash, lost, deaths, kills>>

\* Mutant: there is no deadline.
PollForever ==
    /\ at = "health"
    /\ ~Healthy
    /\ cont[1].state \notin {"loading", "listening"}
    /\ Leave
    /\ UNCHANGED <<cont, waiting, clash, lost, deaths, kills>>

\* Not healthy: docker ps on the head.  No name in its answer means the head
\* has exited, also when the answer is lost; then __enter__ dies.
Poll ==
    /\ at = "health"
    /\ ~Healthy
    /\ polls < MaxPolls
    /\ \/ /\ cont[1].state \in {"loading", "listening"}
          /\ Sent
          /\ polls' = polls + 1
          /\ UNCHANGED <<at, host, command, seq, arm, boot, escaping, measured>>
       \/ cont[1].state \notin {"loading", "listening"} /\ Sent /\ Leave
       \/ Lost /\ Leave
    /\ UNCHANGED <<cont, waiting, clash, deaths, kills>>

\* The deadline passes: the logs, __exit__, then die.  These logs are not
\* captured in a try: a command that times out there skips __exit__.
Deadline ==
    /\ at = "health"
    /\ polls = MaxPolls
    /\ \/ /\ at' = "exit" /\ escaping' = TRUE
          /\ Sent
          /\ UNCHANGED <<host, command, seq, arm, boot, polls, measured>>
       \/ Lost /\ Leave
    /\ UNCHANGED <<cont, waiting, clash, deaths, kills>>

\* run_arm's requests, answered by the group as it is, or one of them fails.
Serve ==
    /\ at = "serving"
    /\ at' = "exit"
    /\ escaping' = ~Healthy
    /\ measured' = IF Healthy
                   THEN [boot |-> boot, ranks |-> {cont[h].boot : h \in Hosts}]
                   ELSE measured
    /\ UNCHANGED <<host, command, seq, arm, boot, polls, cont, waiting, clash,
                   lost, deaths, kills>>

\* Ctrl-C: inside the with block __exit__ still runs; a kill runs nothing.
Interrupt ==
    /\ at # "idle"
    /\ kills < MaxKills
    /\ kills' = kills + 1
    /\ \/ Leave
       \/ /\ at = "serving"
          /\ at' = "exit" /\ escaping' = TRUE
          /\ UNCHANGED <<host, command, seq, arm, boot, polls, measured>>
    /\ UNCHANGED <<cont, waiting, clash, lost, deaths>>

-----------------------------------------------------------------------------
(* The containers.                                                         *)

\* Rank 0 opens the store, unless its port is still taken.
Listen ==
    /\ cont[1].state = "loading"
    /\ LET taken == {w \in waiting : w.port = cont[1].port}
       IN  \/ /\ taken = {}
              /\ cont' = [cont EXCEPT ![1].state = "listening"]
              /\ UNCHANGED clash
           \/ /\ taken # {}
              /\ cont' = [cont EXCEPT ![1].state = "exited"]
              /\ clash' = (clash \/ \E w \in taken : w.command = cont[1].command)
    /\ UNCHANGED <<harness, waiting, lost, deaths, kills>>

\* Another rank connects to whatever store answers on its master port.
Join(h) ==
    /\ h # 1
    /\ cont[h].state = "loading"
    /\ cont[1].state = "listening"
    /\ cont[1].port = cont[h].port
    /\ cont' = [cont EXCEPT ![h].state = "joined", ![h].group = cont[1].boot]
    /\ UNCHANGED <<harness, waiting, clash, lost, deaths, kills>>

\* A container exits: a crash, or a rank that has waited for a head in vain.
Exit(h) ==
    /\ deaths < MaxDeaths
    /\ cont[h].state \in {"loading", "listening", "joined"}
    /\ cont' = [cont EXCEPT ![h].state = "exited"]
    /\ waiting' = waiting \cup Sockets(h)
    /\ deaths' = deaths + 1
    /\ UNCHANGED <<harness, clash, lost, kills>>

\* A minute later the kernel forgets a socket.
Expire ==
    /\ \E w \in waiting : waiting' = waiting \ {w}
    /\ UNCHANGED <<harness, cont, clash, lost, deaths, kills>>

Harness ==
    \/ NewServer
    \/ Remove
    \/ Check
    \/ Run
    \/ Ask
    \/ Poll
    \/ Deadline
    \/ Serve

Next ==
    \/ StartCommand
    \/ Harness
    \/ Interrupt
    \/ Listen
    \/ \E h \in Hosts : Join(h) \/ Exit(h)
    \/ Expire

\* Every command of the harness has a timeout; nothing is assumed of the
\* containers.
Spec == Init /\ [][Next]_vars /\ WF_vars(Harness)

-----------------------------------------------------------------------------
(* Properties.                                                             *)

TypeOK ==
    /\ at \in {"idle", "new", "rm", "check", "run", "health", "serving", "exit"}
    /\ host \in Hosts
    /\ seq \in 0..Arms /\ arm \in 0..Arms /\ boot \in Nat /\ polls \in 0..MaxPolls
    /\ \A h \in Hosts : cont[h] = None \/ cont[h].boot \in 1..boot
    /\ \A w \in waiting : w.command \in 1..command
    /\ escaping \in BOOLEAN /\ clash \in BOOLEAN
    /\ lost \in 0..MaxLost /\ deaths \in 0..MaxDeaths /\ kills \in 0..MaxKills

\* Whatever was lost, killed or left behind, an arm is measured on the
\* containers it started: a container of an earlier boot that is still there,
\* and may have joined the new head, stops the arm (check=True in
\* arena.py:760-770, and no --rm).
GroupIsOwn == measured.ranks = {measured.boot}

\* "The master port is bumped every boot" (arena.py:623-624): no head of a
\* command fails to listen because of an earlier arm of the same command.
NoSelfClash == ~clash

\* A command ends, whatever ssh and the containers do.
CommandEnds == at # "idle" ~> at = "idle"
=============================================================================
