----------------------------- MODULE ServerArm -----------------------------
(***************************************************************************)
(* A measuring command booting one server per arm: Server.__enter__, the   *)
(* requests of run_arm, and Server.__exit__, on a wheel target without a   *)
(* cluster.  The harness polls its own process and asks /health of whoever *)
(* holds the port; servers run in sessions of their own, so nothing but    *)
(* __exit__ ever stops one.  A server is one process: its engine children  *)
(* are taken to end with it, since __exit__ signals their group only while *)
(* their leader lives (arena.py:545-548).                                  *)
(***************************************************************************)
EXTENDS Integers, Sequences

CONSTANTS
    Arms,         \* arms of one command
    Requests,     \* requests of one arm: the warmup and the prompts
    MaxPolls,     \* startupTimeout, in polls
    MaxServers,   \* bound: servers spawned over a behaviour
    MaxDeaths,    \* bound: servers that die by themselves
    MaxKills      \* bound: interrupted or killed commands

ASSUME ArmAssumption ==
    /\ Arms \in Nat \ {0} /\ Requests \in Nat \ {0} /\ MaxPolls \in Nat \ {0}
    /\ MaxServers \in Nat /\ MaxDeaths \in Nat /\ MaxKills \in Nat

VARIABLES
    at,        \* where the command is; "idle" when none runs
    own,       \* the server it spawned for this arm
    polls,     \* iterations of the startup loop so far
    rows,      \* who answered the requests of this arm, in order
    arms,      \* the arms this command has finished: [own, rows]
    escaping,  \* an exception or a die is on its way out
    server,    \* id -> state of the process
    port,      \* the server that is bound to the port, or Nobody
    spawned, deaths, kills,
    records    \* the finished commands: their arms

harness == <<at, own, polls, rows, arms, escaping, records>>
vars == <<harness, server, port, spawned, deaths, kills>>

Nobody == 0
Ids == 1..MaxServers
Alive == {"loading", "ready"}

Init ==
    /\ at = "idle"
    /\ own = Nobody
    /\ polls = 0
    /\ rows = << >>
    /\ arms = << >>
    /\ escaping = FALSE
    /\ server = [s \in Ids |-> "unborn"]
    /\ port = Nobody
    /\ spawned = 0 /\ deaths = 0 /\ kills = 0
    /\ records = {}

-----------------------------------------------------------------------------
(* The harness.                                                            *)

\* The command is over without a record.  What it started is not touched.
Leave ==
    /\ at' = "idle"
    /\ own' = Nobody /\ polls' = 0 /\ rows' = << >> /\ arms' = << >>
    /\ escaping' = FALSE
    /\ UNCHANGED records

StartCommand ==
    /\ at = "idle"
    /\ spawned + Arms <= MaxServers
    /\ at' = "gate"
    /\ UNCHANGED <<own, polls, rows, arms, escaping, records,
                   server, port, spawned, deaths, kills>>

\* thermal_gate returns, or dies.
Gate ==
    /\ at = "gate"
    /\ \/ at' = "spawn" /\ UNCHANGED <<own, polls, rows, arms, escaping, records>>
       \/ Leave
    /\ UNCHANGED <<server, port, spawned, deaths, kills>>

\* Popen(start_new_session=True): nobody looks at the port first.
Spawn ==
    /\ at = "spawn"
    /\ spawned' = spawned + 1
    /\ server' = [server EXCEPT ![spawned + 1] = "loading"]
    /\ own' = spawned + 1
    /\ at' = "boot"
    /\ polls' = 0
    /\ UNCHANGED <<rows, arms, escaping, records, port, deaths, kills>>

\* One turn of the startup loop: the own process first ...
Poll ==
    /\ at = "boot"
    /\ polls < MaxPolls
    /\ \/ server[own] = "gone" /\ Leave
       \/ /\ server[own] # "gone"
          /\ at' = "ask"
          /\ polls' = polls + 1
          /\ UNCHANGED <<own, rows, arms, escaping, records>>
    /\ UNCHANGED <<server, port, spawned, deaths, kills>>

Answers == port # Nobody /\ server[port] = "ready"

\* ... then /health, which may also fail to answer within its 3 seconds.
Ask ==
    /\ at = "ask"
    /\ \/ Answers /\ at' = "serving"
       \/ at' = "boot"
    /\ UNCHANGED <<own, polls, rows, arms, escaping, records,
                   server, port, spawned, deaths, kills>>

\* Mutant: die without __exit__.
DeadlineDies ==
    /\ at = "boot"
    /\ polls = MaxPolls
    /\ Leave
    /\ UNCHANGED <<server, port, spawned, deaths, kills>>

\* The loop's else: __exit__ by hand, then die.
Deadline ==
    /\ at = "boot"
    /\ polls = MaxPolls
    /\ at' = "exit"
    /\ escaping' = TRUE
    /\ UNCHANGED <<own, polls, rows, arms, records, server, port, spawned, deaths, kills>>

\* complete(): one request, answered by whoever holds the port, or an
\* exception through the with block.
Request ==
    /\ at = "serving"
    /\ Len(rows) < Requests
    /\ \/ Answers /\ rows' = Append(rows, port) /\ UNCHANGED <<at, escaping>>
       \/ at' = "exit" /\ escaping' = TRUE /\ UNCHANGED rows
    /\ UNCHANGED <<own, polls, arms, records, server, port, spawned, deaths, kills>>

\* The with block ends.
LastRow ==
    /\ at = "serving"
    /\ Len(rows) = Requests
    /\ at' = "exit"
    /\ UNCHANGED <<own, polls, rows, arms, escaping, records,
                   server, port, spawned, deaths, kills>>

\* Mutant: one arm too many.
ExitedLate ==
    IF escaping THEN Leave
    ELSE /\ arms' = IF Len(arms) = Arms THEN << >>
                    ELSE Append(arms, [own |-> own, rows |-> rows])
         /\ at' = IF Len(arms) = Arms THEN "idle" ELSE "gate"
         /\ own' = Nobody /\ polls' = 0 /\ rows' = << >>
         /\ UNCHANGED <<escaping, records>>

\* __exit__ returns: on with the next arm, with the record, or with the
\* exception.
Exited ==
    IF escaping THEN Leave
    ELSE LET all == Append(arms, [own |-> own, rows |-> rows])
         IN  /\ arms' = IF Len(all) = Arms THEN << >> ELSE all
             /\ at' = IF Len(all) = Arms THEN "idle" ELSE "gate"
             /\ records' = IF Len(all) = Arms THEN records \cup {all} ELSE records
             /\ own' = Nobody /\ polls' = 0 /\ rows' = << >>
             /\ UNCHANGED escaping

\* poll() and SIGTERM to the server's process group.
Terminate ==
    /\ at = "exit"
    /\ \/ /\ server[own] \in Alive
          /\ server' = [server EXCEPT ![own] = "terminating"]
          /\ at' = "wait"
          /\ UNCHANGED <<own, polls, rows, arms, escaping, records>>
       \/ server[own] \notin Alive /\ Exited /\ UNCHANGED server
    /\ UNCHANGED <<port, spawned, deaths, kills>>

\* Mutants: no SIGKILL after the timeout; no timeout.
WaitWithoutKill ==
    /\ at = "wait"
    /\ server[own] \in {"gone", "terminating"}
    /\ Exited
    /\ UNCHANGED <<server, port, spawned, deaths, kills>>
WaitForever ==
    /\ at = "wait"
    /\ server[own] = "gone"
    /\ Exited
    /\ UNCHANGED <<server, port, spawned, deaths, kills>>

\* wait(timeout=180) returns, or expires and SIGKILL follows, unawaited.
Wait ==
    /\ at = "wait"
    /\ \/ server[own] = "gone" /\ UNCHANGED server
       \/ /\ server[own] = "terminating"
          /\ server' = [server EXCEPT ![own] = "killed"]
    /\ Exited
    /\ UNCHANGED <<port, spawned, deaths, kills>>

\* Ctrl-C or a kill.  Before __enter__ has returned, and while __exit__ runs,
\* it takes the command away at once; inside the with block a Ctrl-C still
\* goes through __exit__, a SIGKILL does not.
Interrupt ==
    /\ at # "idle"
    /\ kills < MaxKills
    /\ kills' = kills + 1
    /\ \/ Leave
       \/ /\ at = "serving"
          /\ at' = "exit" /\ escaping' = TRUE
          /\ UNCHANGED <<own, polls, rows, arms, records>>
    /\ UNCHANGED <<server, port, spawned, deaths>>

-----------------------------------------------------------------------------
(* The servers (vllm serve).                                               *)

Become(s, from, to) ==
    /\ server[s] = from
    /\ server' = [server EXCEPT ![s] = to]
    /\ port' = IF to = "ready" THEN s ELSE IF port = s THEN Nobody ELSE port
    /\ UNCHANGED <<harness, spawned, kills>>

\* The model is loaded: bind and serve, or exit because the port is taken.
Listen(s) == port = Nobody /\ Become(s, "loading", "ready") /\ UNCHANGED deaths

BindFails(s) == port # Nobody /\ Become(s, "loading", "gone") /\ UNCHANGED deaths

\* Out of memory, a failing patch, a bad argument.
Die(s) ==
    /\ deaths < MaxDeaths
    /\ deaths' = deaths + 1
    /\ Become(s, "loading", "gone") \/ Become(s, "ready", "gone")

\* SIGTERM obeyed; SIGKILL carried out.
Quit(s) == Become(s, "terminating", "gone") /\ UNCHANGED deaths

Reap(s) == Become(s, "killed", "gone") /\ UNCHANGED deaths

Harness ==
    \/ Gate
    \/ Spawn
    \/ Poll
    \/ Ask
    \/ Deadline
    \/ Request
    \/ LastRow
    \/ Terminate
    \/ Wait

Next ==
    \/ StartCommand
    \/ Harness
    \/ Interrupt
    \/ \E s \in Ids : Listen(s) \/ BindFails(s) \/ Die(s) \/ Quit(s) \/ Reap(s)

\* Every wait of the harness has a timeout, so it takes its next step whatever
\* the servers do.  Nothing is assumed of the servers.
Spec == Init /\ [][Next]_vars /\ WF_vars(Harness)

-----------------------------------------------------------------------------
(* Properties.                                                             *)

TypeOK ==
    /\ at \in {"idle", "gate", "spawn", "boot", "ask", "serving", "exit", "wait"}
    /\ own \in {Nobody} \cup Ids
    /\ polls \in 0..MaxPolls
    /\ Len(rows) <= Requests /\ Len(arms) < Arms
    /\ escaping \in BOOLEAN
    /\ server \in [Ids -> {"unborn", "loading", "ready", "terminating", "killed", "gone"}]
    /\ port \in {Nobody} \cup Ids
    /\ spawned \in 0..MaxServers /\ deaths \in 0..MaxDeaths /\ kills \in 0..MaxKills

\* As long as no command is interrupted, every row of a record was answered by
\* the server its arm booted, although /health and the requests only name a
\* port (arena.py:526-536): servers may crash, hang or outlive their SIGTERM.
ArmMeasuresItsServer ==
    kills = 0 => \A r \in records : \A i \in 1..Arms :
        \A j \in 1..Requests : r[i].rows[j] = r[i].own

\* As long as no command is interrupted, an arm starts on a node where every
\* earlier server is gone or has been killed (arena.py:544-552).
StartsAlone ==
    kills = 0 /\ at \in {"idle", "gate", "spawn"} =>
        \A s \in Ids : server[s] \notin Alive \cup {"terminating"}

\* A command ends, even when no server ever becomes healthy, answers or obeys
\* its SIGTERM.
CommandEnds == at # "idle" ~> at = "idle"
=============================================================================
