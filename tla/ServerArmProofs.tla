-------------------------- MODULE ServerArmProofs --------------------------
(***************************************************************************)
(* Proofs about ServerArm, for any number of arms, requests, polls and     *)
(* servers: while no command is interrupted, an arm starts alone and every *)
(* row it measures is its own server's, although it only knows a port.     *)
(***************************************************************************)
EXTENDS ServerArm, SequenceTheorems, TLAPS

ArmType == [own : Ids, rows : Seq(Ids)]
Running == {"boot", "ask", "serving", "exit", "wait"}

(* The inductive invariant.                                                *)

HarnessTyped ==
    /\ at \in {"idle", "gate", "spawn"} \cup Running
    /\ own \in IF at \in Running THEN Ids ELSE {Nobody}
    /\ polls \in 0..MaxPolls
    /\ rows \in Seq(Ids) /\ Len(rows) <= Requests
    /\ arms \in Seq(ArmType) /\ Len(arms) < Arms
    /\ escaping \in BOOLEAN
    /\ records \subseteq Seq(ArmType)

ServersTyped ==
    /\ server \in [Ids -> {"unborn", "loading", "ready", "terminating", "killed", "gone"}]
    /\ port \in {Nobody} \cup Ids
    /\ spawned \in 0..MaxServers /\ deaths \in 0..MaxDeaths /\ kills \in 0..MaxKills

\* What is left of the command fits the servers that are left.
Room ==
    /\ at \in {"gate", "spawn"} => spawned + Arms <= MaxServers + Len(arms)
    /\ at \in Running => spawned + Arms <= MaxServers + Len(arms) + 1

\* Nothing is measured before the server answers, and an arm that leaves its
\* with block without an exception has all its rows.
RowsFollow ==
    /\ at \notin {"serving", "exit", "wait"} => rows = << >>
    /\ at = "idle" => arms = << >>
    /\ at \notin {"exit", "wait"} => ~escaping
    /\ at \in {"exit", "wait"} /\ ~escaping => Len(rows) = Requests

\* No server but the arm's own can answer, and it is only asked to terminate
\* where the harness waits for it.
Alone ==
    kills = 0 =>
        /\ \A s \in Ids \ {own} : server[s] \notin Alive \cup {"terminating"}
        /\ at \in Running \ {"wait"} => server[own] # "terminating"

OwnRows(a) == Len(a.rows) = Requests /\ \A j \in 1..Requests : a.rows[j] = a.own
Measured(r) == Len(r) = Arms /\ \A i \in 1..Arms : OwnRows(r[i])

RowsAreOwn ==
    kills = 0 =>
        /\ \A j \in 1..Len(rows) : rows[j] = own
        /\ \A i \in 1..Len(arms) : OwnRows(arms[i])
        /\ \A r \in records : Measured(r)

IInv == HarnessTyped /\ ServersTyped /\ Room /\ RowsFollow /\ Alone /\ RowsAreOwn

-----------------------------------------------------------------------------

LEMMA InitHolds == Init => IInv
<1> SUFFICES ASSUME Init PROVE IInv
  OBVIOUS
<1> USE ArmAssumption
<1>1. HarnessTyped
  <2>1. at = "idle" /\ own = Nobody /\ rows = << >> /\ arms = << >> /\ records = {}
        /\ polls = 0 /\ escaping = FALSE
    BY DEF Init
  <2>2. rows \in Seq(Ids) /\ arms \in Seq(ArmType) /\ Len(rows) = 0 /\ Len(arms) = 0
    BY <2>1
  <2>3. polls \in 0..MaxPolls /\ Len(rows) <= Requests /\ Len(arms) < Arms
    BY <2>1, <2>2
  <2> QED
    BY <2>1, <2>2, <2>3 DEF HarnessTyped, Running
<1>2. ServersTyped
  BY DEF Init, ServersTyped
<1>3. Room /\ RowsFollow /\ Alone /\ RowsAreOwn
  BY DEF Init, Room, RowsFollow, Alone, RowsAreOwn, Running, Alive
<1> QED
  BY <1>1, <1>2, <1>3 DEF IInv

\* A command that leaves holds nothing any more.
LEMMA LeaveKeeps ==
    ASSUME IInv, Leave, UNCHANGED <<server, port, spawned, deaths>>,
           kills' \in kills..MaxKills,
           kills' = 0 /\ own # Nobody => server[own] \notin Alive \cup {"terminating"}
    PROVE  IInv'
<1> USE ArmAssumption DEF IInv
<1>1. at' = "idle" /\ own' = Nobody /\ polls' = 0 /\ rows' = << >> /\ arms' = << >>
      /\ escaping' = FALSE /\ records' = records
  BY DEF Leave
<1>2. HarnessTyped'
  <2>1. Len(rows') = 0 /\ Len(arms') = 0 /\ rows' \in Seq(Ids) /\ arms' \in Seq(ArmType)
    BY <1>1
  <2>2. polls' \in 0..MaxPolls /\ Len(rows') <= Requests /\ Len(arms') < Arms
    BY <1>1, <2>1
  <2> QED
    BY <1>1, <2>1, <2>2 DEF HarnessTyped, Running
<1>3. kills \in Nat /\ (kills' = 0 => kills = 0) /\ kills' \in 0..MaxKills
  BY DEF ServersTyped
<1>4. ServersTyped'
  BY <1>3 DEF ServersTyped
<1>5. Room' /\ RowsFollow'
  BY <1>1 DEF Room, RowsFollow, Running
<1>6. Alone'
  BY <1>1, <1>3 DEF Alone, Running, HarnessTyped
<1>7. RowsAreOwn'
  BY <1>1, <1>3 DEF RowsAreOwn, OwnRows, Measured
<1> QED
  BY <1>2, <1>4, <1>5, <1>6, <1>7

\* The end of an arm: its server is no longer alive nor asked to terminate.
LEMMA ExitedKeeps ==
    ASSUME IInv, Exited, at \in {"exit", "wait"}, UNCHANGED <<port, spawned, deaths, kills>>,
           ServersTyped',
           \A s \in Ids \ {own} : server'[s] = server[s],
           kills = 0 => server'[own] \notin Alive \cup {"terminating"}
    PROVE  IInv'
<1> USE ArmAssumption DEF IInv
<1> DEFINE arm == [own |-> own, rows |-> rows]
           all == Append(arms, arm)
<1>1. own \in Ids /\ rows \in Seq(Ids) /\ arms \in Seq(ArmType) /\ Len(arms) \in Nat /\ Len(arms) < Arms
  BY DEF HarnessTyped, Running
<1>2. arm \in ArmType /\ all \in Seq(ArmType) /\ Len(all) = Len(arms) + 1
  BY <1>1 DEF ArmType
<1>3. \A i \in 1..Len(all) : all[i] = IF i = Len(arms) + 1 THEN arm ELSE arms[i]
  BY <1>1, <1>2
<1>4. kills = 0 => \A s \in Ids : server'[s] \notin Alive \cup {"terminating"}
  BY DEF Alone
<1> HIDE DEF all
<1>5. at' \in {"idle", "gate"} /\ own' = Nobody /\ polls' = 0 /\ rows' = << >>
      /\ (at' = "idle" => arms' = << >>) /\ escaping' = FALSE
  BY DEF Exited, Leave, all, RowsFollow
<1>6. \/ arms' = << >> /\ at' = "idle" /\ records' = records
      \/ /\ ~escaping /\ Len(all) = Arms
         /\ arms' = << >> /\ at' = "idle" /\ records' = records \cup {all}
      \/ /\ ~escaping /\ Len(all) # Arms
         /\ arms' = all /\ at' = "gate" /\ records' = records
  BY DEF Exited, Leave, all
<1>7. arms' \in Seq(ArmType) /\ Len(arms') < Arms /\ records' \subseteq Seq(ArmType)
  <2>1. Arms \in Nat /\ Arms > 0 /\ records \subseteq Seq(ArmType)
    BY DEF HarnessTyped
  <2>2. << >> \in Seq(ArmType) /\ Len(<< >>) = 0
    OBVIOUS
  <2>3. CASE arms' = << >> /\ at' = "idle" /\ records' = records
    BY <2>1, <2>2, <2>3
  <2>4. CASE arms' = << >> /\ records' = records \cup {all}
    BY <1>2, <2>1, <2>2, <2>4
  <2>5. CASE Len(all) # Arms /\ arms' = all /\ records' = records
    BY <1>1, <1>2, <2>1, <2>5
  <2> QED
    BY <1>6, <2>3, <2>4, <2>5
<1>8. polls' \in 0..MaxPolls /\ rows' \in Seq(Ids) /\ Len(rows') = 0 /\ Len(rows') <= Requests
  BY <1>5
<1>9. HarnessTyped'
  <2>1. own' \in IF at' \in Running THEN Ids ELSE {Nobody}
    BY <1>5 DEF Running
  <2>2. escaping' \in BOOLEAN
    BY <1>5
  <2> QED
    BY <1>5, <1>7, <1>8, <2>1, <2>2 DEF HarnessTyped
<1>10. Room'
  <2>1. at' = "gate" => Len(arms') = Len(arms) + 1
    BY <1>2, <1>6
  <2> QED
    BY <1>5, <1>1, <2>1 DEF Room, Running, ServersTyped
<1>11. RowsFollow' /\ Alone'
  BY <1>4, <1>5 DEF RowsFollow, Alone, Running
<1>12. RowsAreOwn'
  <2> SUFFICES ASSUME kills = 0 PROVE RowsAreOwn'
    BY DEF RowsAreOwn
  <2>1. ~escaping => OwnRows(arm)
    BY DEF RowsAreOwn, RowsFollow, OwnRows
  <2>2. ~escaping => \A i \in 1..Len(all) : OwnRows(all[i])
    BY <1>2, <1>3, <2>1 DEF RowsAreOwn
  <2>3. ~escaping /\ Len(all) = Arms => Measured(all)
    BY <2>2 DEF Measured
  <2>4. \A i \in 1..Len(arms') : OwnRows(arms'[i])
    BY <1>6, <2>2
  <2>5. \A r \in records' : Measured(r)
    BY <1>6, <2>3 DEF RowsAreOwn
  <2> QED
    BY <1>8, <2>4, <2>5 DEF RowsAreOwn, OwnRows, Measured
<1> QED
  BY <1>9, <1>10, <1>11, <1>12

(* The steps of the harness.                                               *)

LEMMA StartKeeps == ASSUME IInv, StartCommand PROVE IInv'
<1> USE DEF IInv, StartCommand
<1>1. HarnessTyped' /\ RowsFollow' /\ Alone'
  BY DEF HarnessTyped, RowsFollow, Alone, Running
<1>2. ServersTyped' /\ RowsAreOwn'
  BY DEF ServersTyped, RowsAreOwn
<1>3. Room'
  BY ArmAssumption DEF Room, Running, RowsFollow, ServersTyped
<1> QED
  BY <1>1, <1>2, <1>3

\* Steps of the harness that neither leave nor touch the servers, the arms
\* that are done or the rows.
LEMMA MoveKeeps ==
    ASSUME IInv, UNCHANGED <<own, rows, arms, records, server, port, spawned, deaths>>,
           polls' \in 0..MaxPolls, escaping' \in BOOLEAN, kills' \in kills..MaxKills,
           \/ at = "gate" /\ at' = "spawn"
           \/ at \in {"boot", "ask", "serving"} /\ at' \in Running \ {"wait"},
           RowsFollow'
    PROVE  IInv'
<1> USE DEF IInv
<1>1. at' \in {"spawn"} \cup Running
  OBVIOUS
<1>2. own' \in IF at' \in Running THEN Ids ELSE {Nobody}
  BY DEF HarnessTyped, Running
<1>3. HarnessTyped'
  BY <1>1, <1>2 DEF HarnessTyped
<1>4. kills \in Nat /\ (kills' = 0 => kills = 0) /\ kills' \in 0..MaxKills
  BY ArmAssumption DEF ServersTyped
<1>5. ServersTyped'
  BY <1>4 DEF ServersTyped
<1>6. Room'
  BY DEF Room, Running
<1>7. Alone'
  BY <1>4 DEF Alone, Running
<1>8. RowsAreOwn'
  BY <1>4 DEF RowsAreOwn, OwnRows, Measured
<1> QED
  BY <1>3, <1>5, <1>6, <1>7, <1>8

LEMMA KillsTyped == ASSUME IInv PROVE kills \in kills..MaxKills /\ MaxPolls \in Nat /\ kills \in Nat
BY ArmAssumption DEF IInv, ServersTyped

LEMMA GateKeeps == ASSUME IInv, Gate PROVE IInv'
<1>1. CASE Leave
  BY <1>1, LeaveKeeps, KillsTyped DEF Gate, IInv, HarnessTyped, Running
<1>2. CASE at' = "spawn" /\ UNCHANGED <<own, polls, rows, arms, escaping, records>>
  <2>1. polls' \in 0..MaxPolls /\ escaping' \in BOOLEAN
    BY <1>2 DEF IInv, HarnessTyped
  <2>2. RowsFollow'
    BY <1>2 DEF Gate, IInv, RowsFollow
  <2> QED
    BY <1>2, <2>1, <2>2, MoveKeeps, KillsTyped DEF Gate
<1> QED
  BY <1>1, <1>2 DEF Gate

LEMMA PollKeeps == ASSUME IInv, Poll PROVE IInv'
<1>1. CASE server[own] = "gone" /\ Leave
  BY <1>1, LeaveKeeps, KillsTyped DEF Poll, Alive
<1>2. CASE at' = "ask" /\ polls' = polls + 1 /\ UNCHANGED <<own, rows, arms, escaping, records>>
  <2>1. polls' \in 0..MaxPolls
    BY <1>2, KillsTyped DEF Poll, IInv, HarnessTyped
  <2>2. escaping' \in BOOLEAN
    BY <1>2 DEF IInv, HarnessTyped
  <2>3. RowsFollow'
    BY <1>2 DEF Poll, IInv, RowsFollow
  <2> QED
    BY <1>2, <2>1, <2>2, <2>3, MoveKeeps, KillsTyped DEF Poll, Running
<1> QED
  BY <1>1, <1>2 DEF Poll

LEMMA AskKeeps == ASSUME IInv, Ask PROVE IInv'
<1>1. polls' \in 0..MaxPolls /\ escaping' \in BOOLEAN
  BY DEF Ask, IInv, HarnessTyped
<1>2. RowsFollow'
  BY DEF Ask, IInv, RowsFollow
<1> QED
  BY <1>1, <1>2, MoveKeeps, KillsTyped DEF Ask, Running

LEMMA DeadlineKeeps == ASSUME IInv, Deadline PROVE IInv'
<1>1. polls' \in 0..MaxPolls /\ escaping' \in BOOLEAN
  BY DEF Deadline, IInv, HarnessTyped
<1>2. RowsFollow'
  BY DEF Deadline, IInv, RowsFollow
<1> QED
  BY <1>1, <1>2, MoveKeeps, KillsTyped DEF Deadline, Running

LEMMA LastRowKeeps == ASSUME IInv, LastRow PROVE IInv'
<1>1. polls' \in 0..MaxPolls /\ escaping' \in BOOLEAN
  BY DEF LastRow, IInv, HarnessTyped
<1>2. RowsFollow'
  BY DEF LastRow, IInv, RowsFollow
<1> QED
  BY <1>1, <1>2, MoveKeeps, KillsTyped DEF LastRow, Running

\* The one ready server there can be is the arm's own, so its row is too.
LEMMA RequestKeeps == ASSUME IInv, Request PROVE IInv'
<1>1. CASE at' = "exit" /\ escaping' = TRUE /\ UNCHANGED rows
  <2>1. polls' \in 0..MaxPolls
    BY DEF Request, IInv, HarnessTyped
  <2>2. RowsFollow'
    BY <1>1 DEF IInv, RowsFollow, Request
  <2> QED
    BY <1>1, <2>1, <2>2, MoveKeeps, KillsTyped DEF Request, Running
<1>2. CASE Answers /\ rows' = Append(rows, port) /\ UNCHANGED <<at, escaping>>
  <2> USE DEF IInv, Request
  <2>1. rows \in Seq(Ids) /\ Len(rows) < Requests /\ port \in Ids /\ server[port] = "ready"
        /\ own \in Ids
    BY <1>2 DEF HarnessTyped, ServersTyped, Answers, Running
  <2>2. /\ rows' \in Seq(Ids) /\ Len(rows') = Len(rows) + 1
        /\ \A j \in 1..Len(rows') : rows'[j] = IF j = Len(rows) + 1 THEN port ELSE rows[j]
    BY <1>2, <2>1
  <2>3. kills = 0 => port = own
    BY <2>1 DEF Alone, Alive
  <2>4. Len(rows') <= Requests
    BY <2>1, <2>2, ArmAssumption
  <2>5. HarnessTyped'
    BY <1>2, <2>2, <2>4 DEF HarnessTyped
  <2>6. ServersTyped' /\ Room' /\ RowsFollow' /\ Alone'
    BY <1>2 DEF ServersTyped, Room, RowsFollow, Alone
  <2>7. RowsAreOwn'
    <3> SUFFICES ASSUME kills = 0 PROVE RowsAreOwn'
      BY DEF RowsAreOwn
    <3>1. \A j \in 1..Len(rows') : rows'[j] = own
      BY <2>1, <2>2, <2>3 DEF RowsAreOwn
    <3> QED
      BY <3>1 DEF RowsAreOwn, OwnRows, Measured
  <2> QED
    BY <2>5, <2>6, <2>7
<1> QED
  BY <1>1, <1>2 DEF Request

\* The new server is the arm's own; every other one was gone or killed.
LEMMA SpawnKeeps == ASSUME IInv, Spawn PROVE IInv'
<1> USE ArmAssumption DEF IInv, Spawn
<1>1. spawned \in Nat /\ Len(arms) \in Nat /\ Len(arms) < Arms
      /\ spawned + Arms <= MaxServers + Len(arms)
  BY DEF HarnessTyped, ServersTyped, Room
<1>2. spawned + 1 \in Ids
  BY <1>1 DEF Ids
<1>3. own = Nobody /\ own' = spawned + 1 /\ polls' = 0 /\ at' = "boot"
  BY DEF HarnessTyped, Running
<1>4. HarnessTyped'
  <2>1. polls' \in 0..MaxPolls
    BY <1>3
  <2>2. own' \in IF at' \in Running THEN Ids ELSE {Nobody}
    BY <1>2, <1>3 DEF Running
  <2> QED
    BY <1>3, <2>1, <2>2 DEF HarnessTyped, Running
<1>5. spawned' \in 0..MaxServers
  BY <1>1, <1>2 DEF Ids
<1>6. ServersTyped'
  BY <1>2, <1>5 DEF ServersTyped
<1>7. Room'
  BY <1>1, <1>3 DEF Room, Running
<1>8. RowsFollow'
  BY <1>3 DEF RowsFollow
<1>9. Alone'
  <2>1. Nobody \notin Ids
    BY DEF Nobody, Ids
  <2> QED
    BY <1>2, <1>3, <2>1 DEF Alone, Alive, ServersTyped
<1>10. RowsAreOwn'
  BY DEF RowsAreOwn, RowsFollow, OwnRows, Measured
<1> QED
  BY <1>4, <1>6, <1>7, <1>8, <1>9, <1>10

LEMMA TerminateKeeps == ASSUME IInv, Terminate PROVE IInv'
<1>1. own \in Ids /\ server \in [Ids -> {"unborn", "loading", "ready", "terminating", "killed", "gone"}]
  BY DEF Terminate, IInv, HarnessTyped, ServersTyped, Running
<1>2. CASE server[own] \notin Alive /\ Exited /\ UNCHANGED server
  <2>1. ServersTyped'
    BY <1>2 DEF Terminate, IInv, ServersTyped
  <2>2. CASE kills = 0
    <3>1. server'[own] \notin Alive \cup {"terminating"}
      BY <1>2, <2>2 DEF Terminate, IInv, Alone, Running
    <3> QED
      BY <1>2, <2>1, <3>1, ExitedKeeps DEF Terminate
  <2>3. CASE kills # 0
    BY <1>2, <2>1, <2>3, ExitedKeeps DEF Terminate
  <2> QED
    BY <2>2, <2>3
<1>3. CASE /\ server' = [server EXCEPT ![own] = "terminating"]
           /\ at' = "wait"
           /\ UNCHANGED <<own, polls, rows, arms, escaping, records>>
  <2> USE <1>3 DEF IInv, Terminate
  <2>1. HarnessTyped'
    BY <1>1 DEF HarnessTyped, Running
  <2>2. ServersTyped'
    BY <1>1 DEF ServersTyped
  <2>3. Room' /\ RowsFollow'
    BY DEF Room, RowsFollow, Running
  <2>4. Alone' /\ RowsAreOwn'
    BY <1>1 DEF Alone, RowsAreOwn, OwnRows, Measured, Running
  <2> QED
    BY <2>1, <2>2, <2>3, <2>4
<1> QED
  BY <1>2, <1>3 DEF Terminate

\* Gone by itself or killed: either way it never answers again.
LEMMA WaitKeeps == ASSUME IInv, Wait PROVE IInv'
<1>1. own \in Ids /\ server \in [Ids -> {"unborn", "loading", "ready", "terminating", "killed", "gone"}]
  BY DEF Wait, IInv, HarnessTyped, ServersTyped, Running
<1>2. /\ server' \in [Ids -> {"unborn", "loading", "ready", "terminating", "killed", "gone"}]
      /\ \A s \in Ids \ {own} : server'[s] = server[s]
      /\ server'[own] \notin Alive \cup {"terminating"}
  BY <1>1 DEF Wait, Alive
<1>3. ServersTyped'
  BY <1>2 DEF Wait, IInv, ServersTyped
<1> QED
  BY <1>2, <1>3, ExitedKeeps DEF Wait

\* An interrupt ends the promise of Alone and RowsAreOwn, and keeps the rest.
LEMMA InterruptKeeps == ASSUME IInv, Interrupt PROVE IInv'
<1>1. kills' \in kills..MaxKills /\ kills' # 0
  BY KillsTyped, ArmAssumption DEF Interrupt
<1>2. CASE Leave
  BY <1>1, <1>2, LeaveKeeps DEF Interrupt
<1>3. CASE /\ at = "serving"
           /\ at' = "exit" /\ escaping' = TRUE
           /\ UNCHANGED <<own, polls, rows, arms, records>>
  <2>1. polls' \in 0..MaxPolls
    BY <1>3 DEF IInv, HarnessTyped
  <2>2. RowsFollow'
    BY <1>3 DEF IInv, RowsFollow
  <2> QED
    BY <1>1, <1>3, <2>1, <2>2, MoveKeeps DEF Interrupt, Running
<1> QED
  BY <1>2, <1>3 DEF Interrupt

(* The steps of the servers.                                               *)

\* A server becomes ready from loading only, and is gone from anywhere.
LEMMA BecomeKeeps ==
    ASSUME IInv, NEW s \in Ids, NEW from, NEW to, Become(s, from, to),
           to = "gone" \/ (to = "ready" /\ from = "loading"),
           deaths' \in 0..MaxDeaths
    PROVE  IInv'
<1> USE DEF IInv, Become, harness
<1>1. HarnessTyped' /\ Room' /\ RowsFollow' /\ RowsAreOwn'
  BY DEF HarnessTyped, Room, RowsFollow, RowsAreOwn, OwnRows, Measured
<1>2. ServersTyped'
  BY DEF ServersTyped
<1>3. Alone'
  <2> SUFFICES ASSUME kills = 0 PROVE Alone'
    BY DEF Alone
  <2>1. server'[s] = to /\ \A t \in Ids \ {s} : server'[t] = server[t]
    BY DEF ServersTyped
  <2>2. to = "ready" => s = own
    BY DEF Alone, Alive
  <2>3. \A t \in Ids \ {own} : server'[t] \notin Alive \cup {"terminating"}
    BY <2>1, <2>2 DEF Alone, Alive
  <2>4. at \in Running \ {"wait"} => own \in Ids /\ server[own] # "terminating"
    BY DEF Alone, HarnessTyped
  <2> QED
    BY <2>1, <2>3, <2>4 DEF Alone
<1> QED
  BY <1>1, <1>2, <1>3

LEMMA ServersKeep ==
    ASSUME IInv, NEW s \in Ids, Listen(s) \/ BindFails(s) \/ Die(s) \/ Quit(s) \/ Reap(s)
    PROVE  IInv'
<1>1. deaths' \in 0..MaxDeaths
  BY ArmAssumption DEF IInv, ServersTyped, Listen, BindFails, Die, Quit, Reap
<1>2. CASE Listen(s)
  BY <1>1, <1>2, BecomeKeeps DEF Listen
<1>3. CASE BindFails(s)
  BY <1>1, <1>3, BecomeKeeps DEF BindFails
<1>4. CASE Die(s)
  BY <1>1, <1>4, BecomeKeeps DEF Die
<1>5. CASE Quit(s)
  BY <1>1, <1>5, BecomeKeeps DEF Quit
<1>6. CASE Reap(s)
  BY <1>1, <1>6, BecomeKeeps DEF Reap
<1> QED
  BY <1>2, <1>3, <1>4, <1>5, <1>6

LEMMA IdleKeeps == ASSUME IInv, UNCHANGED vars PROVE IInv'
BY DEF vars, harness, IInv, HarnessTyped, ServersTyped, Room, RowsFollow, Alone, RowsAreOwn,
       OwnRows, Measured

LEMMA StepHolds == ASSUME IInv, [Next]_vars PROVE IInv'
BY StartKeeps, GateKeeps, SpawnKeeps, PollKeeps, AskKeeps, DeadlineKeeps, RequestKeeps,
   LastRowKeeps, TerminateKeeps, WaitKeeps, InterruptKeeps, ServersKeep, IdleKeeps
   DEF Next, Harness

LEMMA AlwaysIInv == Spec => []IInv
<1>1. IInv /\ [Next]_vars => IInv'
  BY StepHolds
<1> QED
  BY <1>1, InitHolds, PTL DEF Spec

-----------------------------------------------------------------------------
(* The theorems.                                                           *)

\* Every reachable state is well typed: no arm has more rows than requests,
\* and no command more arms than it should.
THEOREM TypeCorrect == Spec => []TypeOK
<1>1. IInv => TypeOK
  <2> SUFFICES ASSUME IInv PROVE TypeOK
    OBVIOUS
  <2>1. own \in {Nobody} \cup Ids /\ at \in {"idle", "gate", "spawn"} \cup Running
    BY DEF IInv, HarnessTyped
  <2> QED
    BY <2>1 DEF IInv, HarnessTyped, ServersTyped, Running, TypeOK
<1> QED
  BY <1>1, AlwaysIInv, PTL

\* Server.__exit__ leaves nothing behind that could answer or hold on
\* (arena.py:544-552), as long as no command is interrupted.
THEOREM ArmsStartAlone == Spec => []StartsAlone
<1>1. IInv => StartsAlone
  <2> SUFFICES ASSUME IInv, kills = 0, at \in {"idle", "gate", "spawn"}, NEW s \in Ids
               PROVE  server[s] \notin Alive \cup {"terminating"}
    BY DEF StartsAlone
  <2>1. own \notin Ids
    BY DEF IInv, HarnessTyped, Running, Nobody, Ids
  <2> QED
    BY <2>1 DEF IInv, Alone
<1> QED
  BY <1>1, AlwaysIInv, PTL

\* Server.__enter__ asks a port and not a process (arena.py:526-536), and
\* still every row of a record is its own server's, as long as no command is
\* interrupted: whatever crashes, hangs or outlives its SIGTERM.
THEOREM RowsAreMeasured == Spec => []ArmMeasuresItsServer
<1>1. IInv => ArmMeasuresItsServer
  BY DEF IInv, RowsAreOwn, Measured, OwnRows, ArmMeasuresItsServer
<1> QED
  BY <1>1, AlwaysIInv, PTL
=============================================================================
