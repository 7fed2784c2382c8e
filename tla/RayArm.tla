------------------------------ MODULE RayArm ------------------------------
(***************************************************************************)
(* The arms of a command on a clustered wheel target: Cluster.start and    *)
(* Cluster.teardown around the server, inside Server.__enter__ and         *)
(* Server.__exit__.  Host 1 is the head, where the harness and the API     *)
(* server (`vllm serve`) run; Ray starts one VLLM:: process per host, in   *)
(* the environment of that host's raylet, which carries the patch chain.   *)
(*                                                                         *)
(* Everything is an ssh command, to the head too.  One that is lost may    *)
(* have had its effect or not; its answer is then empty, or the timeout    *)
(* raises.  __exit__ runs only when __enter__ has returned or its deadline *)
(* has passed; every other way out leaves what was started.                *)
(***************************************************************************)
EXTENDS Integers, FiniteSets

CONSTANTS
    Nodes,        \* hosts of the cluster
    Arms,         \* most arms of one command
    Requests,     \* requests of one arm
    Rounds,       \* looks at the GPUs before teardown gives up (the code: 4)
    MaxPolls,     \* startupTimeout, in polls
    MaxBoots,     \* bound: servers spawned over a behaviour
    MaxLost,      \* bound: ssh commands that are lost
    MaxDeaths,    \* bound: servers and raylets that die by themselves
    MaxKills      \* bound: interrupted or killed commands

ASSUME RayAssumption ==
    /\ {Nodes, Arms, Requests, Rounds, MaxPolls} \subseteq Nat \ {0}
    /\ {MaxBoots, MaxLost, MaxDeaths, MaxKills} \subseteq Nat

VARIABLES
    at,        \* where the command is; "idle" when none runs
    host,      \* the host its loop has come to
    round,     \* looks at the GPUs, or polls, so far
    ending,    \* why __exit__ runs: "no" (it does not), "normal", "escaping"
    armsLeft,  \* arms the command still has to finish, this one included
    answered,  \* requests of this arm answered so far
    own,       \* the server spawned for this arm, or Nobody
    raylet,    \* host -> the boot whose environment its raylet has, or Nobody
    serve,     \* boot -> state of its API server on the head
    ranks,     \* boot -> host -> its VLLM:: process there
    port,      \* the boot that holds the port of the API, or Nobody
    boots, lost, deaths, kills,
    mislaid,   \* history: commands lost in the teardown before this arm
    rows       \* history: who was behind the answers of the arms so far

command == <<at, host, round, ending, armsLeft, answered, own>>
cluster == <<raylet, serve, ranks, port>>
counts == <<boots, lost, deaths, kills>>
vars == <<command, cluster, counts, mislaid, rows>>

Hosts == 1..Nodes
Head == 1
Boots == 1..MaxBoots
Nobody == 0

\* A VLLM:: process: `env` is the boot whose environment it runs in.  One that
\* is "killed" is still counted by pgrep; one that is "exiting" is not, but
\* still owns GPU memory.
NoRank == [state |-> "none", env |-> Nobody]
Rank(state, env) == [state |-> state, env |-> env]

Counted(h) == \E b \in Boots : ranks[b][h].state \in {"up", "killed"}
OnGpu(h) == \E b \in Boots : ranks[b][h].state # "none"

Init ==
    /\ at = "idle"
    /\ host = Head /\ round = 0 /\ ending = "no" /\ armsLeft = 0 /\ answered = 0
    /\ own = Nobody
    /\ raylet = [h \in Hosts |-> Nobody]
    /\ serve = [b \in Boots |-> "unborn"]
    /\ ranks = [b \in Boots |-> [h \in Hosts |-> NoRank]]
    /\ port = Nobody
    /\ boots = 0 /\ lost = 0 /\ deaths = 0 /\ kills = 0
    /\ mislaid = 0
    /\ rows = {}

-----------------------------------------------------------------------------
(* Ways on.                                                                *)

\* The command is over without a result.  What it started is not touched.
Leave ==
    /\ at' = "idle"
    /\ host' = Head /\ round' = 0 /\ ending' = "no" /\ armsLeft' = 0 /\ answered' = 0
    /\ own' = Nobody

Goto(place) ==
    /\ at' = place
    /\ host' = Head /\ round' = 0
    /\ UNCHANGED <<ending, armsLeft, answered, own>>

\* The loop over the hosts: the next one, or on to `place`.
NextHost(place) ==
    /\ at' = IF host = Nodes THEN place ELSE at
    /\ host' = IF host = Nodes THEN Head ELSE host + 1
    /\ UNCHANGED <<round, ending, armsLeft, answered, own>>

\* An ssh command arrives and is answered, or is lost.
Delivered == UNCHANGED <<lost, mislaid>>
Lost ==
    /\ lost < MaxLost
    /\ lost' = lost + 1
    /\ mislaid' = mislaid + 1

\* Of several commands, n are lost.
Lose(n) ==
    /\ lost + n <= MaxLost
    /\ lost' = lost + n
    /\ mislaid' = mislaid + n

-----------------------------------------------------------------------------
(* The command and its teardowns.                                          *)

\* A bench has several arms, a probe or a `warm` has one.
StartCommand ==
    /\ at = "idle"
    /\ \E k \in 1..Arms :
         /\ boots + k <= MaxBoots
         /\ armsLeft' = k
    /\ at' = "gate"
    /\ UNCHANGED <<host, round, ending, answered, own, cluster, counts, mislaid, rows>>

\* thermal_gate returns, or dies.
Gate ==
    /\ at = "gate"
    /\ Goto("kill") \/ Leave
    /\ mislaid' = 0
    /\ UNCHANGED <<cluster, counts, rows>>

\* What the one kill command does on h: pkill -9 of VLLM:: and of the API
\* server, ray stop, pkill -9 of the raylet.
Killed(h) ==
    /\ raylet' = [raylet EXCEPT ![h] = Nobody]
    /\ ranks' = [b \in Boots |-> [ranks[b] EXCEPT ![h].state =
                   IF @ = "up" THEN "killed" ELSE @]]
    /\ serve' = [b \in Boots |->
                   IF h = Head /\ serve[b] # "unborn" THEN "gone" ELSE serve[b]]
    /\ port' = IF h = Head THEN Nobody ELSE port

Kill ==
    /\ at = "kill"
    /\ \/ Delivered /\ Killed(host) /\ NextHost("count raylets")
       \/ /\ Lost
          /\ Killed(host) \/ UNCHANGED cluster
          /\ NextHost("count raylets") \/ Leave
    /\ UNCHANGED <<boots, deaths, kills, rows>>

\* Mutant: nobody looks for raylets.
CountNoRaylets ==
    /\ at = "count raylets"
    /\ Delivered /\ at' = "count vllm" /\ UNCHANGED <<host, round, ending, armsLeft, answered, own>>
    /\ UNCHANGED <<boots, deaths, kills, cluster, rows>>

\* pgrep on this host; no answer reads as "0".
CountRaylets ==
    /\ at = "count raylets"
    /\ \/ Delivered /\ raylet[host] # Nobody /\ Leave
       \/ /\ (Delivered /\ raylet[host] = Nobody) \/ Lost
          /\ at' = "count vllm"
          /\ UNCHANGED <<host, round, ending, armsLeft, answered, own>>
       \/ Lost /\ Leave
    /\ UNCHANGED <<boots, deaths, kills, cluster, rows>>

CountVllm ==
    /\ at = "count vllm"
    /\ \/ Delivered /\ Counted(host) /\ Leave
       \/ /\ (Delivered /\ ~Counted(host)) \/ Lost
          /\ at' = IF host = Nodes THEN "free" ELSE "count raylets"
          /\ host' = IF host = Nodes THEN Head ELSE host + 1
          /\ UNCHANGED <<round, ending, armsLeft, answered, own>>
       \/ Lost /\ Leave
    /\ UNCHANGED <<boots, deaths, kills, cluster, rows>>

\* Mutant: one arm too many.
TornDownLate ==
    IF ending = "no" THEN Goto("preflight")
    ELSE /\ at' = IF armsLeft = 0 THEN "idle" ELSE "gate"
         /\ host' = Head /\ round' = 0 /\ ending' = "no" /\ answered' = 0 /\ own' = Nobody
         /\ armsLeft' = armsLeft - 1

\* teardown has returned: on with start, or out of __exit__ to the next arm,
\* to the end, or with the exception.
TornDown ==
    IF ending = "no" THEN Goto("preflight")
    ELSE IF ending = "escaping" \/ armsLeft = 1 THEN Leave
    ELSE /\ at' = "gate"
         /\ host' = Head /\ round' = 0 /\ ending' = "no" /\ answered' = 0 /\ own' = Nobody
         /\ armsLeft' = armsLeft - 1

\* Mutants: nobody looks at the GPUs; the looking has no end.
FreeUnseen ==
    /\ at = "free"
    /\ Delivered /\ TornDown
    /\ UNCHANGED <<boots, deaths, kills, cluster, rows>>
FreeForever ==
    /\ at = "free"
    /\ Delivered
    /\ \/ (\A h \in Hosts : ~OnGpu(h)) /\ TornDown
       \/ (\E h \in Hosts : OnGpu(h)) /\ Goto("free")
    /\ UNCHANGED <<boots, deaths, kills, cluster, rows>>

\* One look at the GPUs of every host.  The hosts whose answers are lost
\* (`silent`), any of them, read as free.
Free ==
    /\ at = "free"
    /\ \E silent \in SUBSET Hosts :
         /\ Lose(Cardinality(silent))
         /\ \/ (\A h \in Hosts \ silent : ~OnGpu(h)) /\ TornDown
            \/ /\ \E h \in Hosts \ silent : OnGpu(h)
               /\ \/ /\ round < Rounds - 1
                     /\ round' = round + 1
                     /\ UNCHANGED <<at, host, ending, armsLeft, answered, own>>
                  \/ round = Rounds - 1 /\ Leave
            \/ silent # {} /\ Leave
    /\ UNCHANGED <<boots, deaths, kills, cluster, rows>>

-----------------------------------------------------------------------------
(* The start of the cluster and of the server.                             *)

\* memlock and the target's probes on every host: a wrong answer, or none, dies.
Preflight ==
    /\ at = "preflight"
    /\ Goto("ray") \/ Leave
    /\ UNCHANGED <<cluster, counts, mislaid, rows>>

\* `ray start` attaches to a raylet that is there and inherits its environment.
\* The environment is that of the server about to be spawned.
Attach(h) ==
    /\ raylet' = [raylet EXCEPT ![h] = IF @ = Nobody THEN boots + 1 ELSE @]
    /\ UNCHANGED <<serve, ranks, port>>

\* The head first, then every worker; a command that is lost dies (check=True).
RayStart ==
    /\ at = "ray"
    /\ \/ Delivered /\ Attach(host) /\ NextHost("gpus")
       \/ Lost /\ (Attach(host) \/ UNCHANGED cluster) /\ Leave
    /\ UNCHANGED <<boots, deaths, kills, rows>>

\* ray.cluster_resources has to see every GPU.
CountGpus ==
    /\ at = "gpus"
    /\ \/ Delivered /\ (\A h \in Hosts : raylet[h] # Nobody) /\ Goto("spawn")
       \/ Delivered /\ (\E h \in Hosts : raylet[h] = Nobody) /\ Leave
       \/ Lost /\ Leave
    /\ UNCHANGED <<boots, deaths, kills, cluster, rows>>

\* Popen.
Spawn ==
    /\ at = "spawn"
    /\ boots' = boots + 1
    /\ serve' = [serve EXCEPT ![boots + 1] = "loading"]
    /\ own' = boots + 1
    /\ at' = "boot"
    /\ UNCHANGED <<host, round, ending, armsLeft, answered, raylet, ranks, port,
                   lost, deaths, kills, mislaid, rows>>

\* One turn of the startup loop: the own process first, without __exit__ when
\* it is gone ...
Poll ==
    /\ at = "boot"
    /\ round < MaxPolls
    /\ \/ serve[own] = "gone" /\ Leave
       \/ /\ serve[own] # "gone"
          /\ at' = "ask"
          /\ round' = round + 1
          /\ UNCHANGED <<host, ending, armsLeft, answered, own>>
    /\ UNCHANGED <<cluster, counts, mislaid, rows>>

Answers == port # Nobody /\ serve[port] = "ready"

\* ... then /health.
Ask ==
    /\ at = "ask"
    /\ \/ Answers /\ at' = "transport"
       \/ at' = "boot"
    /\ UNCHANGED <<host, round, ending, armsLeft, answered, own, cluster, counts, mislaid, rows>>

\* assert_transport: the log shows RDMA, or it dies, without __exit__.
Transport ==
    /\ at = "transport"
    /\ Goto("serving") \/ Leave
    /\ UNCHANGED <<cluster, counts, mislaid, rows>>

Exit(why) ==
    /\ at' = "exit"
    /\ ending' = why
    /\ UNCHANGED <<host, armsLeft, answered, own>>

Deadline ==
    /\ at = "boot"
    /\ round = MaxPolls
    /\ Exit("escaping") /\ round' = 0
    /\ UNCHANGED <<cluster, counts, mislaid, rows>>

-----------------------------------------------------------------------------
(* The arm and its end.                                                    *)

\* What is behind an answer: the server that has the port, the environments of
\* its ranks, and whether a rank of another boot is running.
Behind ==
    [own |-> own, mislaid |-> mislaid, serve |-> port,
     envs |-> {ranks[port][h].env : h \in Hosts},
     strangers |-> \E b \in Boots \ {port}, h \in Hosts : ranks[b][h].state = "up"]

\* complete(): a row, or an exception through the with block.
Request ==
    /\ at = "serving"
    /\ answered < Requests
    /\ \/ /\ Answers
          /\ rows' = rows \cup {Behind}
          /\ answered' = answered + 1
          /\ UNCHANGED <<at, host, round, ending, armsLeft, own>>
       \/ Exit("escaping") /\ UNCHANGED <<round, rows>>
    /\ UNCHANGED <<cluster, counts, mislaid>>

LastRow ==
    /\ at = "serving"
    /\ answered = Requests
    /\ Exit("normal")
    /\ UNCHANGED <<round, cluster, counts, mislaid, rows>>

\* __exit__: SIGTERM to the server's group, wait, SIGKILL; then teardown.  Its
\* ranks belong to Ray and are not in that group.
Terminate ==
    /\ at = "exit"
    /\ serve' = [serve EXCEPT ![own] = "gone"]
    /\ port' = IF port = own THEN Nobody ELSE port
    /\ Goto("kill")
    /\ UNCHANGED <<raylet, ranks, counts, mislaid, rows>>

\* Ctrl-C or a kill: inside the with block a Ctrl-C goes through __exit__.
Interrupt ==
    /\ at # "idle"
    /\ kills < MaxKills
    /\ kills' = kills + 1
    /\ Leave \/ (at = "serving" /\ Exit("escaping") /\ UNCHANGED round)
    /\ UNCHANGED <<cluster, boots, lost, deaths, mislaid, rows>>

-----------------------------------------------------------------------------
(* The servers, the raylets and the ranks.                                 *)

\* vLLM has a rank on every host and has loaded the model: it serves, or finds
\* its port taken.
Load(b) ==
    /\ serve[b] = "loading"
    /\ \A h \in Hosts : raylet[h] # Nobody
    /\ ranks' = [ranks EXCEPT ![b] = [h \in Hosts |-> Rank("up", raylet[h])]]
    /\ serve' = [serve EXCEPT ![b] = IF port = Nobody THEN "ready" ELSE "gone"]
    /\ port' = IF port = Nobody THEN b ELSE port
    /\ UNCHANGED <<command, raylet, counts, mislaid, rows>>

\* "Free memory ... less than desired GPU memory utilization".
NoMemory(b) ==
    /\ serve[b] = "loading"
    /\ \E h \in Hosts : OnGpu(h)
    /\ serve' = [serve EXCEPT ![b] = "gone"]
    /\ UNCHANGED <<command, raylet, ranks, port, counts, mislaid, rows>>

Die(b) ==
    /\ deaths < MaxDeaths
    /\ serve[b] \in {"loading", "ready"}
    /\ deaths' = deaths + 1
    /\ serve' = [serve EXCEPT ![b] = "gone"]
    /\ port' = IF port = b THEN Nobody ELSE port
    /\ UNCHANGED <<command, raylet, ranks, boots, lost, kills, mislaid, rows>>

RayletDies(h) ==
    /\ deaths < MaxDeaths
    /\ raylet[h] # Nobody
    /\ deaths' = deaths + 1
    /\ raylet' = [raylet EXCEPT ![h] = Nobody]
    /\ UNCHANGED <<command, serve, ranks, port, boots, lost, kills, mislaid, rows>>

\* A rank that was killed, or has lost its server, goes, and its memory later.
Fade(b, h) ==
    /\ \/ ranks[b][h].state = "up" /\ serve[b] = "gone"
       \/ ranks[b][h].state \in {"killed", "exiting"}
    /\ ranks' = [ranks EXCEPT ![b][h] =
                   IF @.state = "exiting" THEN NoRank ELSE Rank("exiting", @.env)]
    /\ UNCHANGED <<command, raylet, serve, port, counts, mislaid, rows>>

Harness ==
    \/ Gate
    \/ Kill
    \/ CountRaylets
    \/ CountVllm
    \/ Free
    \/ Preflight
    \/ RayStart
    \/ CountGpus
    \/ Spawn
    \/ Poll
    \/ Ask
    \/ Deadline
    \/ Transport
    \/ Request
    \/ LastRow
    \/ Terminate

Next ==
    \/ StartCommand
    \/ Harness
    \/ Interrupt
    \/ \E b \in Boots :
         \/ Load(b)
         \/ NoMemory(b)
         \/ Die(b)
         \/ \E h \in Hosts : Fade(b, h)
    \/ \E h \in Hosts : RayletDies(h)

\* Every wait of the harness has a timeout, so it takes its next step whatever
\* the cluster does.  Nothing is assumed of the cluster.
Spec == Init /\ [][Next]_vars /\ WF_vars(Harness)

-----------------------------------------------------------------------------
(* Properties.                                                             *)

TypeOK ==
    /\ at \in {"idle", "gate", "kill", "count raylets", "count vllm", "free", "preflight",
               "ray", "gpus", "spawn", "boot", "ask", "transport", "serving", "exit"}
    /\ host \in Hosts /\ own \in {Nobody} \cup Boots
    /\ round \in 0..(IF at = "free" THEN Rounds - 1 ELSE MaxPolls)
    /\ ending \in {"no", "normal", "escaping"}
    /\ armsLeft \in (IF at = "idle" THEN {0} ELSE 1..Arms) /\ answered \in 0..Requests
    /\ raylet \in [Hosts -> {Nobody} \cup Boots]
    /\ serve \in [Boots -> {"unborn", "loading", "ready", "gone"}]
    /\ ranks \in [Boots -> [Hosts -> [state : {"none", "up", "killed", "exiting"},
                                      env : {Nobody} \cup Boots]]]
    /\ port \in {Nobody} \cup Boots
    /\ boots \in 0..MaxBoots /\ lost \in 0..MaxLost
    /\ deaths \in 0..MaxDeaths /\ kills \in 0..MaxKills

\* "an arm must not inherit the previous arm's raylets, which is how a candidate
\* tree silently gets measured against itself" (arena.py:509-511): every row of
\* an arm comes from the server it spawned, over ranks in that arm's environment,
\* with no rank of another boot running, whatever earlier arms and commands left
\* behind.  One ssh command of the start may be lost if nothing has died by
\* itself: nobody counts `vllm serve`, and an old one whose raylet is gone can
\* load on the new ones.
ArmIsItsOwn ==
    \A r \in rows : r.mislaid = 0 \/ (r.mislaid = 1 /\ deaths = 0) =>
        r.serve = r.own /\ r.envs = {r.own} /\ ~r.strangers

\* "The GPUs must actually be free before an arm starts" (arena.py:325-327):
\* they are, whoever died late, when no answer was lost on the way.
StartsOnFreeGpus ==
    at = "spawn" /\ mislaid = 0 => \A h \in Hosts : ~OnGpu(h)

\* A command ends, even when ranks hold their memory for ever, raylets survive
\* and no server becomes healthy.
CommandEnds == at # "idle" ~> at = "idle"
=============================================================================
