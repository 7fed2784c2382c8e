# A verification development of vllm-spark-arena

TLA+ models of the benchmark harness of vLLM Spark Arena: what it measures, how
a measurement becomes an entry of the leaderboard, and what may happen in
between. The modules are checked with TLC on small instances, and every safety
property of a run that holds is proved with TLAPS for every instance, with the
premises that §4 names: the leaderboard file under concurrent commands, the gates in
front of it, the probe filter, the kernel overlay, the arms of all three substrates
and the thermal gate. Line numbers refer to the files under `src/`;
`arena.py` is `harness/arena.py`, `overlay.py` is `harness/overlay.py`.

## 1. The system

The arena compares two servers: stock vLLM (the baseline) and stock vLLM with a
directory `patches/<name>` on its `PYTHONPATH` (the candidate). One Python
program, `harness/arena.py`, runs on a node and has these commands.

| Command | What it does | What it leaves |
|---|---|---|
| `baseline` | boots stock a few times, screens the prompts whose output differs between boots, records goldens | `goldens.json`, then `baseline.json` |
| `probe` | one boot of the candidate against a stored boot of stock | `probe-baseline.json`, a probe record |
| `bench` | pairs of arms (baseline, candidate), gates 1, 2 and 4 | a bench record |
| `heldout` | the same on freshly generated prompts, gate 3 | a held-out record |
| `promote` | checks both records, multiplies the ratios onto the chain | `leaderboard.json` |
| `attempt` | probe, bench, heldout, promote in one go, unattended | a ledger entry |
| `leaderboard --init` | an empty board from the baseline | `leaderboard.json` |
| `warm` | one long boot over every prompt | a warm compile cache |

### Components

| Component | State | Operations | Interacts with | Modelled in |
|---|---|---|---|---|
| Frontier (`arena.py` 1380-1585, 1700-1720) | `leaderboard.json`, `baseline.json` | load, append, write, `--init` | every promote of every process shares one file | `Board`, `Frontier`, `PromotionChain` |
| Gates (`arena.py` 75-96, 1099-1376, 1433-1494) | goldens, bench and held-out records, `patches/`, the compile cache | `baseline`, `warm`, `bench`, `heldout`, `promote` | records are files; a promote joins two of them; every boot reads the directory and the cache | `GatePipeline` |
| Attempt and probe (`arena.py` 968-1096, 1588-1700) | `probe-baseline.json`, probe records, ledger | `probe`, `attempt` | calls the commands above in the same process, through `sys.exit` | `Attempt` |
| Kernel overlay (`overlay.py`, `patches/flashinfer-dsv4-pbs256/sitecustomize.py`) | the farm directory, the installed wheel | verify, wipe, link, copy, compile | every Python process of a server builds the same directory | `Overlay` |
| Server of an arm (`arena.py` 440-604, 802-831) | a process, its port | boot, health, request, terminate | the harness waits on a port, not on a process | `ServerArm` |
| Thermal gate (`arena.py` 203-251) | GPU temperatures | read, sample, wait | runs before every arm, on every node of it | `ThermalGate` |
| Image servers (`arena.py` 607-799) | one container per node, the master port, sockets in `TIME_WAIT` | remove, run, wait for health, serve, remove | ssh, docker, the next boot and the next command | `ImageCluster` |
| Ray cluster (`arena.py` 256-399, inside 503-559) | raylets, ranks, GPU memory on each node | start on each node, tear down, count survivors | ssh, the server of the arm, earlier arms and commands | `RayArm` |
| Sandbox guard, contract and targets, patch chain, engine patches, shell scripts, CUDA kernel | see `PROJECT.json` | | | not modelled |

### What is hard about it

* **Concurrency on files.** Nothing locks `leaderboard.json` or the overlay
  directory. A promote is a read, a computation and a truncating write; a build
  of the overlay is dozens of unlinks, links and copies, run by an API server,
  an engine and one worker per rank at the same time.
* **State that changes between two looks.** An arm reads the patch directory and
  the compile cache when it boots; a record carries a name. Two prompts of one
  target may come out differently in two boots of the same thing. `--init` loads before it asks
  whether the file exists. The floor of the thermal gate is read when the
  previous arm has just ended.
* **Commands that die.** An arm is minutes of GPU time behind a server that may
  hang, crash or ignore its SIGTERM, and the operator may interrupt at any
  point.
* **Commands on other nodes.** A clustered arm is started and removed by ssh
  commands of which some look at the outcome and some do not; what one boot left
  behind meets the next one.
* **Control flow through exceptions.** `die` and `sys.exit` are `SystemExit`;
  `attempt` calls commands that end with them.
* **Protocols of several commands.** Gates 2 and 3 are separate commands on
  possibly different nodes, tied together by a promote that sees two files.

### What makes each component correct

* Frontier: a file that parses is one consistent chain; commands that do not
  overlap lose nothing; credited points add up to the headline; the origin is
  chosen once.
* Gates: an unforced promotion rests on passing records of the promoting node,
  keeps its gain on unseen prompts and changes no stable output; gate 2 stands in
  for the session's own baseline, compares something, and on a warm cache an honest
  patch can only fail it on a knife-edge prompt.
* Attempt: no bench is spent on what the probe ruled out; a patch that changes a
  probed output is refused whatever the stored baseline is; a no-effect verdict is
  true and what a probe blames is the patch's doing.
* Ray cluster: every row comes from the arm's own server over its own raylets; the
  GPUs are free when it starts; commands end.
* Overlay: a build that succeeds is exactly the submission's files over the
  installed sources; no file that its manifest lists reverts a newer upstream; no
  source that nobody owns is touched.
* Server: rows of an arm come from that arm's server; arms do not share a node;
  commands end.
* Image servers: an arm is measured on the containers it started and on no
  other; the ranks of a boot do not trip over an earlier arm's socket; commands
  end.
* Thermal gate: it ends within its budget; the arms of a pair start alike.

## 2. The modules

### Board, Frontier and PromotionChain

`Board` is the document: `EmptyBoard` is what `load_leaderboard(create=True)`
builds (1400-1430), `NextPromotion` and `Extend` are the entry and the update of
`cmd_promote` (1497-1576). Ratios are integers on a grid, `GRID` standing for
1.0, and `RoundDiv` is Python's `round`, to the nearest with ties to even, so
that the two roundings of the code (5 decimals for cumulatives, 2 for
percentages) are there. Scores, tok/s, authors and notes are left out.

`Frontier` is the file under any number of commands.

| Variable | In the code |
|---|---|
| `file` | `results/<target>/leaderboard.json`: absent, torn (does not parse), or a board |
| `baseline` | which `baseline.json` is there |
| `pc`, `mem` | where a command is, and the document in its memory |
| `announced`, `overlapped`, `crashes` | history: what was printed, whether two commands were in flight at once, how many died |

`StartPromote` reads the file and builds the document (1496-1576); `Truncate`
and `Fill` are the two halves of `write_text` (1580) - a second writer can fill
over the bytes of the first, and what results is its document or one with a
tail, which does not parse; `StartInit` and `CheckAbsent` are the two looks of
`leaderboard --init` (1708-1717); `Crash` kills a command wherever it is.

`PromotionChain` is what the file promises: an origin chosen once and a chain
that grows by one entry, promised for as long as commands run one at a time and
end (`disciplined`). `Frontier` implements it in every instance: the view of a
reader is the document being filled, from the truncation on, and
`Disciplined` says whether the promise still stands.

### GatePipeline

Contents of a patch directory are a small set, each with the prompts whose
output it changes and its speed on the target's prompts and on held-out ones.
An arm (one boot) is a content, the knife-edge prompts that came out on the rare
side, and whether the compile cache was cold; `Output` is the hash it reports.

| Variable | In the code |
|---|---|
| `patches`, `warm` | each node's `patches/` and whether its `VLLM_CACHE_ROOT` holds the compiled kernels |
| `goldens` | `goldens.json` of each node's checkout: absent, torn, or a hash per screened prompt |
| `run` | the command in progress on a node, with the arms it has run and the goldens it has read |
| `benches`, `helds` | the records written; `seen` is history, what the arms really were |
| `board`, `history` | `leaderboard.json` (module `Board`, through `INSTANCE`) and what was promoted |
| `baselines`, `incidents` | how often a baseline ran, and a directory was edited or a cache lost |

`StartBench`, `RunArm` and `FinishBench` are `cmd_bench` cut at the boots, the
points where directory and cache are read; `StartHeldout` and `FinishHeldout` are
`cmd_heldout`; `StartBaseline`, `RunArm`, `ScreenBaseline` and `RecordGoldens` are
`cmd_baseline`, with the discarded boot (1160), the screening against
`knownUnstablePrompts` (1179-1195) and the two halves of the write of
`goldens.json`; `Warm` is `cmd_warm`; `Abort` is a command that dies anywhere;
`CanPromote` has every check of `cmd_promote` in its order, with what `--force`
excuses. Two nodes have their own checkout, and any record can be presented on
any node. The medians are the code's for one or two pairs (the contract runs
two). `Score4` is the score raised to the fourth power, which stays an integer
and keeps the comparison with 1.

`Shipped` are the prompts the repository's own `goldens.json` has a golden for. It may
overlap `KnownUnstable`, and does in the run, as `c-code-2k` does in qwen3-6-27b-nvfp4:
`bench` compares whatever has a golden. A baseline replaces them by what it screened.

Assumed: every record names its node (`require_local_node` lets one without a node
through), gate 1 passes (one pinned wheel), a speed is a function of the content
(the noise of a measurement is left out), a cold cache changes every output
(1155-1159 measured all four), and no two commands share a checkout on one node.

### Attempt

One attempt at a time. A boot is a fingerprint (the selection line of its log for the
kernel the patch is about, or nothing where the log is unreadable, 981-983, or the line
was not among the last 400 of a container's, 734) and an output per prompt. The fingerprint depends on the config too,
which the operator may change between attempts while `probe-baseline.json` stays;
the outputs depend on the compile cache, which may be deleted between boots, and on
the side a knife-edge prompt falls.
`ProbeBaseline` and `ProbeCandidate` are `cmd_probe` as `cmd_attempt` calls it, and
`BaselineTorn` is a probe that is killed between the two halves of its `write_text`
(1036): the file is there from then on, so nothing records it again but `Rebaseline`, and
every probe that reads it raises (1043), which leaves `Escape`;
`BenchExits` is a bench that ran to its end, `BenchDies` one that called `die`,
`Escape` any other exception. `cmd_bench` leaves by `sys.exit` on every path
(1301), so the held-out and promote stages of `cmd_attempt` cannot be reached and
have no action.

### Overlay

`site` is the installed wheel, `farm` the shared directory, `proc` where each
Python process is. The passes of `build_overlay` (98-119) are loops over file
names: `List` takes the listing once, `WipeCheck` and `Unlink` are the test and
the unlink of one name, `LinkStock` one `symlink_to`, `OwnCheck`, a second
`Unlink` and `Copy` the replacement of an owned file. `Copy` follows a link that
has appeared in between, as `copy2` does. `Verify` looks at the files of
`MANIFEST.json` (`Listed`, empty where there is no manifest, 74-76) and at no other
owned file. `Fail` is the exception that
`sitecustomize.py` prints and swallows (70-71); a failed manifest check is
`SystemExit` and ends the process. `party` is history: who has run since nobody
was running.

### ServerArm

The harness's side of an arm: `Gate`, `Spawn` (`Popen`), `Poll` and `Ask` (the
loop over `proc.poll()` and `/health`), `Deadline`, `Request`, `Exited` (the rows
are kept), `Terminate` and `Wait` (`SIGTERM`, then `SIGKILL`), `Interrupt`. The
servers' side is external: they load, bind a port that must be free, die, obey
SIGTERM or not, and hang. Requests go to the port. A server is one process: `__exit__`
signals the server's process group only while its leader lives (545), and what engine
processes do that outlive a dead leader is left out. They are taken to end with it.

### ImageCluster

The harness over `Nodes` hosts, node 1 being the head: `NewServer` is
`ImageServer.__init__`, which takes the next master port; `Remove`, `Check` and `Run` are the
loops of `__enter__` over the hosts, one host at a time; `Ask`, `Poll` and
`Deadline` are its health loop; `Serve` is `run_arm`'s requests and `Remove`
again `__exit__`. An ssh command is carried out, or is lost with or without
effect. What the code makes of a lost one differs: `docker rm` goes on
regardless unless ssh itself times out, `ulimit` and `docker image inspect` read
no answer as a wrong one, `docker run` has `check=True`. `Leave` is a `die` or an
uncaught exception inside `__enter__`, after which `__exit__` does not run.

| Variable | In the code |
|---|---|
| `at`, `host` | the line of `__enter__` or `__exit__`, and the node its loop has come to |
| `seq` | `_boot_seq[0]`, a module variable: a new process starts over |
| `cont` | the container named `self.name` on each node; it keeps the name when it exits |
| `waiting` | the head's sockets in `TIME_WAIT`, by port |
| `clash`, `measured` | history: a head that could not listen; whose containers answered the last arm |

The containers' side is external: rank 0 listens if its port is free, the other
ranks join whatever answers at their master port, also when it is the head of
another boot, and any of them may exit.

### RayArm

An arm of a clustered wheel target: `Server.__enter__` and `__exit__` with
`Cluster.start` and `Cluster.teardown` around the server. `Kill`, `CountRaylets`,
`CountVllm` and `Free` are the loops of `teardown` (295-339), one host at a time;
`Preflight`, `RayStart` and `CountGpus` the rest of `start`; `Spawn` to `Transport`
the boot; `Terminate` and the same teardown again the exit. An ssh command arrives
or is lost, with or without its effect, and its missing answer reads as `"0"`
(316-332) or raises; at each look at the GPUs any of the hosts' answers may be lost.
`Leave` is a `die` inside `__enter__`, where `__exit__` does not
run; what was started stays for the next command.

| Variable | In the code |
|---|---|
| `at`, `host`, `round` | the line of `teardown`, `start` or the boot, the node its loop has come to, the look at the GPUs or the poll |
| `ending` | why `__exit__` runs: it does not, after the last row, or for an exception |
| `raylet` | whose environment (patch chain) each node's raylet has: `ray start` attaches to one that is there |
| `serve`, `port` | the API servers on the head, and which one holds the port |
| `ranks` | the `VLLM::` processes: running, killed and still counted, or exiting with their memory held |
| `mislaid`, `rows` | history: commands lost since the arm began; what was behind each answer |

The cluster's side is external: a server loads when every node has a raylet, its
ranks run in the raylets' environments, it finds too little memory or its port
taken, servers and raylets die, and killed ranks take their time.

### ThermalGate

`Read`, `Sample`, `Compare` and `Sleep` are the lines of `thermal_gate`; every
node of an arm is gated in turn, and the arm heats all of them. A reading can
fail. Nodes cool by themselves, and a busy one is warmed by somebody else.

## 3. The runs

Every run takes at most about two and a half minutes with two workers.

| Run | Instance | Shows |
|---|---|---|
| `frontier_shared` | two commands, two records, chains of 4, 2 baselines, one crash | typing; in any interleaving a file that parses is a consistent chain and its credited points add up to the headline within the roundings; commands that did not overlap lost nothing; the file implements `PromotionChain` |
| `pipeline_gates` | a contributor's and a referee's node, two patches of three contents, four prompts of which two are on a knife edge and one of these has its flip on record and a shipped golden all the same, one baseline of three boots, two pairs, one edit or lost cache anywhere, two records, a promotion | promotions rest on the promoting node's passing records, generalize and keep their tokens; gate 2 stands in for the session's baseline, is never empty once a baseline was begun, and an honest warm bench fails it on knife-edge prompts only, on the one on record only with the shipped goldens |
| `pipeline_headline` | two patches, one better than the other | *violated*: the headline is the product of gains over stock |
| `attempt_filter` | two attempts, four patches, a knife-edge prompt, one config change or lost cache, logs without their lines, probes killed over the baseline | the filter spends no bench; a changed probed output is always refused; no-effect is true; what a comparable probe blames the patch changes |
| `attempt_stops` | one attempt | *violated*: a bench that passes ends the attempt as `bench-failed` |
| `overlay_shared` | two processes of one submission and one of another that owns the same file and an unlisted one, three files, three starts, one reinstallation | a lone build is exactly the overlay and what is compiled; so is a race nobody lost; no listed file reverts upstream; unowned sources stay |
| `overlay_site` | two processes, two files | *violated*: a copy goes through a link into site-packages |
| `arm_servers` | two arms of two requests, four servers, one death, one interruption | rows come from the arm's server; arms start alone; commands end |
| `image_cluster` | two nodes, three boots, arms in pairs, two lost ssh commands, one container that exits, one interruption | an arm is measured on its own containers; no head meets a socket of its own command; commands end |
| `ray_arms` | a head and a worker, three boots in commands of one or two arms, two lost ssh commands, one server or raylet that dies, one interruption | rows come from the arm's own server over its own raylets; the GPUs are free at a start; commands end |
| `thermal_ends` | two nodes, one busy, three degrees of heat, one failed reading | the gate ends; every step of the harness uses up some of a finite number of steps |
| `thermal_pair` | one node with the contract's degrees and budget | *violated*: the second arm of a pair starts hotter than the tolerance allows |

### Bounds

* Frontier: two commands are enough for every conflict of the file, which has
  one reader-writer pattern; the proofs remove the bound. Chains of four make
  the rounding errors of several entries add up, and the ratios (1.203 and
  1.017 on a grid of 1000) do not divide evenly.
* GatePipeline: three contents are one for each way to be wrong: narrow (fast on
  known prompts only, and honest in its outputs), drifting on unseen prompts,
  altering known ones. Four prompts are a stable pair, one on a knife edge, and one
  whose flip is on record (`KnownUnstable`). The pair and the last have shipped goldens:
  the prompt on record is compared until a baseline screens it out. A baseline of three boots discards one
  and compares two. `MaxRecords` limits the records on disk when a command starts:
  a bench and a held-out run of one patch, or of two, or on two nodes.
  `MaxRunning = 1`: commands of two nodes share nothing but records and the
  leaderboard, and a command of another node between any two of a node's own is
  still explored. `MaxIncidents` is one edit or one lost cache, at any moment. Names of
  nodes and patches are interchangeable (`SYMMETRY`). A fresh node is one whose cache was
  lost first. The proofs remove all of these.
* Attempt: two attempts let the second meet what the first left, and two configs
  let the stored probe be stale; one incident is a config change or a lost cache, and one probed prompt
  is on a knife edge. One probe asks two prompts, `Rebaseline` any number of three.
* Overlay: two builders and a third of another submission, three file names
  (owned and listed by both, owned by the third and not listed, owned by nobody), and a start for each or a restart of
  one after it was killed. A fourth start repeats the third.
* ServerArm: two arms and one more server than a command needs, so that one of
  an earlier command can be in the way; two polls stand for 300.
* ImageCluster: a head and one worker have every pair of roles (workers do not
  talk to each other in the model); three boots are the two arms of one command
  and the first of a second one, which starts over at the same port; two losses
  let a container survive the teardown of one arm and the clean-up of the next;
  one health check stands for 360 of them.
* RayArm: a head and a worker have every role; three boots are the two arms of one
  command and one of a command before or after it; two losses are the smallest
  number that defeats `teardown`'s counts, and the properties say so; two looks at
  the GPUs stand for four and one poll for 600.
* ThermalGate: the shape of the loop does not depend on the number of degrees;
  `thermal_pair` takes the contract's 43, 10, 3 and 45.

### Fairness

`ServerArm`, `ImageCluster`, `RayArm` and `ThermalGate` assume weak fairness of the
harness's step, a sequential program whose waits all have a timeout. Nothing is assumed of
servers, containers, the network, sensors, operators or other users of a node. `Frontier`,
`GatePipeline`, `Attempt` and `Overlay` make no liveness claim and have no fairness: their
commands are straight lines of boots, whose ends are the business of the arms.

`CHECK_DEADLOCK FALSE` is in the runs that stop when a bound is used up
(Frontier, Overlay, ServerArm, ImageCluster, RayArm) or when the command is over (ThermalGate).

### Where the code and its documents disagree

Four violated runs are findings in `PROJECT.json`: the headline
(`pipeline_headline`), the attempt that stops at a bench that passed
(`attempt_stops`), the copy into site-packages (`overlay_site`) and the thermal
floor of a hot node (`thermal_pair`).

The following limits of the code are preconditions of the properties that hold;
each is visible in the module, at the named place, and has no run of its own.

* Two promotes that overlap can lose one of two announced promotions, and
  `--init` can overwrite a promotion made after it looked. `SerialDurability`
  says what remains: `~overlapped`.
* Where no baseline was ever recorded, gate 2 compares nothing. `NeverUnexamined`
  says that this is the only way.
* bench compares whatever has a golden and never consults `knownUnstablePrompts`;
  only `baseline` does. The `goldens.json` of qwen3-6-27b-nvfp4 still has one for
  `c-code-2k`, which its `target.json` (37-43) excludes. The run has such a golden, and
  there an honest patch can fail gate 2 on that prompt: `HonestIsIdentical` says that
  it can fail on knife-edge prompts only, and on one whose flip is on record only while
  the goldens are still those of the repository (`examined = Shipped`).
* Two cold boots in a row behind the goldens agree on the wrong outputs, and with
  `--repeats 1` or `--no-discard-first` one does: `HonestIsIdentical` is about a
  single incident and a discarded boot.
* Without `--claimed-speedup`, or with an old one, a held-out run records that the
  win generalizes; `PromotedGeneralizes` is about runs that were given at least the
  promoted speedup.
* promote compares the names of patches, not their contents: the two properties
  about promoted patches are about held-out runs that saw the benched content
  (`SameContent`).
* Held-out prompts are not screened for knife edges, and a cold cache in the first
  of the two arms differs from the second: an honest patch can fail gate 3. What
  passes is right all the same (`PromotedKeepsTokens`).
* The stored probe baseline remembers neither config nor cache: `Comparable` names
  what has to be the same for a blamed prompt to mean something.
* Two boots whose logs have lost their selection lines have the same fingerprint, so a
  patch that moves the dispatch is reported as `no-effect`: `NoEffectIsInert` is about
  baselines that show their lines (`shown`).
* A probe killed over `probe-baseline.json` leaves a file that every later probe and
  attempt fails to parse, until somebody rebaselines (`BaselineTorn`, `Escape`).
* "The safety property is MANIFEST.json" (overlay.py:36-39), but `build_overlay`
  verifies the files a manifest lists, where there is a manifest (74-76). An owned file
  without an entry, or a submission without a manifest, reverts a newer upstream
  silently; `NeverRevertsUpstream` is about listed files. The one kernel submission of
  the repository lists its one file.
* `teardown` counts raylets and `VLLM::` processes and never `vllm serve`, and reads a
  lost answer as none: `ArmIsItsOwn` stands one lost command per start when nothing
  has died by itself, and any deaths when none was lost.
* An exception other than `SystemExit` leaves an attempt without a ledger entry
  (`Escape`).
* A prompt the stored baseline probe lacks counts as a mismatch (`Mismatched`).
* A build that loses a race goes on with the stock sources behind the widened
  page-size guard (`Fail`).
* A server whose boot is interrupted is left behind; `ArmMeasuresItsServer` and
  `StartsAlone` are about commands that are not interrupted (`kills = 0`).
* A head whose worker did not start is left running until a later command removes
  containers of that name (`Leave` in `Run`).
* `_boot_seq` starts over with every process: the first head of a command can
  find its port in `TIME_WAIT` from an earlier command. `NoSelfClash` says what
  the bump does give, within one command.

## 4. The proofs

### The leaderboard file

`FrontierProofs` proves, for any set of commands, any set of records with
natural-number ratios, any positive grids and any bounds
(`GridAssumption`, `SpeedupAssumption`, `BoundAssumption`, all in `Board` and `Frontier`):

* `TypeCorrect`: `Spec => []TypeOK`.
* `ReadableBoardsAreConsistent`: `Spec => []ChainConsistent`. However promotes
  and `--init` commands interleave and wherever they are killed, a file that
  parses is one consistent chain.
* `SerialCommandsLoseNothing`: `Spec => []SerialDurability`.
* `FrontierKeepsTheChain`: `Spec => KeepsTheChain`, the refinement of
  `PromotionChain`.
* `PointsAddUp`: `Spec => []HeadlineTelescopes`. The credited points of a file that
  parses add up to its headline, up to the roundings, whatever the ratios are.

**The inductive invariant.** `ChainConsistent` speaks of the file, but a file
becomes a board by being filled from a command's memory, which was computed from
an earlier file. `IInv` therefore adds to `TypeOK` and `ChainConsistent` that
every document a command carries is well formed (`Carried`), and that a document a
promote carries has an entry to announce (`PromoteHasEntry`). The only step that
makes a new document is `Start`; `LoadedGood` and `ExtendGood` say that loading
and extending keep a document well formed, from `EmptyBoardGood` and the facts
about rounding. Every other step moves documents around, and the proof of
`IInvNext` has one step per action.

`SerialInv` is what holds as long as nobody overlapped and nobody died: at most one
command is in flight, and the file, its document and the announcements agree at
each place the command can be. It is inductive relative to `IInv`
(`SerialStart`, `SerialMove`, `SerialNext`).

The refinement needs one thing more, `ChainInv`: every document that can be read,
or that a command carries, has an origin, and while commands are disciplined
what a command carries is exactly one entry ahead of the file (`OneMore`), or
the first board where there was no file (`FirstBoard`). With it `RefinesNext`
maps each step: a truncation is the abstract `Publish` or `Promote`, the step
that overlaps or kills ends the promise, and every other step changes nothing a
reader sees (`ViewSettled`, `ViewOpened`).

**The sum of the points.** `WellFormed` says nothing of percentages, so `ScoreInv` adds,
on top of `IInv`, that the entries of every board, on file or in memory, carry the
points and the percentage of their own product (`Scored`). `RoundBounds` says that
`RoundDiv` moves a quotient by half a unit at most; an entry rounds twice, its points on
the percentage grid and the cumulative it leaves behind on the fine one, so it is off by
`PCT + 1` half steps of the fine grid at most (`EntryOff`). `CreditsOff` adds this up
over the positions of a chain. The induction is one over a set of numbers
(`SetInduction`), which the library's minimum of a well-founded order gives without
a higher-order theorem; the same lemma shows that the recursive sum of the property is
defined (`CreditsExist`).

### The gates

`GatePipelineProofs` proves, for any nodes, patches, contents, prompts and speeds and
any bounds on commands, records and incidents (`PipelineAssumption` in
`GatePipeline`: gates run one or two pairs, prompts and held-out prompts are
disjoint, goldens in the repository are not empty):

* `TypeCorrect`: `Spec => []TypeOK`.
* `PromotionsBacked`: `Spec => []PromotionsAreBacked`.
* `GoldensStandForBaseline`: `Spec => []IdentityIsToBaseline`. The goldens may be of
  any session; a candidate that matches them matches the baseline arms of its own,
  off the knife edge.
* `TokensKept`: `Spec => []PromotedKeepsTokens`.
* `GainsGeneralize`: `Spec => []PromotedGeneralizes`, for the one pair that `heldout`
  runs by default. With two pairs and an edit between them the median is of two
  contents, and the property would be false of each.
* `NothingPassesUnexamined`: `Spec => NeverUnexamined`, an action property.
* `HonestPass`: `Spec => []HonestIsIdentical`, if a baseline boots three times or more
  (`Repeats >= 3`; the default is four). With two boots the one that is kept may be cold.
  Of the goldens that came with the repository nothing is assumed: they may include
  prompts that `knownUnstablePrompts` names, as those of `qwen3-6-27b-nvfp4` do.

**The inductive invariant.** None of these is inductive: a record is judged when the
last arm is in, from arms and goldens that came in over many steps. `IInv` has four
parts. `StateTyped` says what a command may carry: goldens are outputs of stock
(`Golds`), the arms of a baseline are all stock, those of a bench and a held-out run
alternate, and what a baseline is about to write has a prompt in it (two or more,
1196-1203). `GoldsRead` ties a running bench to the file: one that read nothing runs
where nothing is, which holds because a node's own baseline cannot run meanwhile.
`RecordsSound` says what a record's verdicts imply about its arms (`BenchSound`,
`HeldSound`); it is where gates 2 and 3 meet the arms (`BenchRecordSound`,
`HeldRecordSound`, from `StockTextUnchanged`: an arm that answers what stock answers
does not change that prompt). `ChainEarned` says that every promotion has two records
that passed `CanPromote`. Each group of actions has its lemma (`RunArmKeeps`,
`StartsKeep`, `ScreenKeeps`, ...), and `IInvNext` puts them together.

`HonestPass` counts cold boots. `OneIncident`, on top of `IInv`, says of each node what
one lost cache can have done (`Tempered`): none of the arms of the running command is
cold while the cache has yet to be lost, or is lost and not yet compiled again; and one is
at most from then on (`OneCold`). Of two screened boots one is therefore warm. A cold boot
changes every output, so a prompt on which two screened boots agree has its warm output,
and what a baseline records is warm and has no prompt with a flip on record, unlike what
the repository may have shipped (`WarmGold`). A warm arm of a patch that changes nothing
can differ from that on a knife-edge prompt only (`HonestRecord`).

### The probe filter

`AttemptProofs` proves, for any patches, prompts, effects and bounds
(`AttemptAssumption`: `stock` names no patch, and a probe takes at most the prompts
there are):

* `TypeCorrect`: `Spec => []TypeOK`.
* `FilterHolds`: `Spec => []FilteredIsNeverBenched`.
* `NoEffectIsTrusted`: `Spec => []NoEffectIsInert`.
* `ChangeIsSeen`: `Spec => []ChangedIsBlamed`.
* `BlameIsEarned`: `Spec => []BlamedIsChanged`.

**The inductive invariant.** A verdict compares a fresh boot with a file that an earlier
command wrote, so `BaseIsStock` says that the stored baseline, unless it is torn, is a
boot of the stock wheel, under whatever config and cache. From it `ChangesDecide`,
`NoEffectIsTrue` and `BlameIsTrue` derive what a verdict means: a changed prompt differs
in its text on any cache (`ChangesMismatch`), a moved dispatch shows another line under
one config if it shows one (`DispatchShows`), and on a warm cache nothing but the patch and the knife edge can
differ. `RecordsFollowStages` relates the stage to the records: an attempt at its
bench has no bench record yet, and a probe record only if it let the attempt on.
`ProbeCandidate` alone writes a verdict (`CandidatePreserved`), `BenchExits` alone a
bench record (`ExitsPreserved`); the steps that write neither share `QuietSteps`.

### The kernel overlay

`OverlayProofs` proves, for any processes, submissions and file names that are numbers,
and any bounds (`OverlayAssumption`):

* `TypeCorrect`: `Spec => []TypeOK`.
* `LoneBuildsAreRight`: `Spec => []AppliedIsOverlay`. Whatever a directory holds from
  dead builds, other submissions and upgrades, a build that nobody disturbs leaves
  exactly its overlay.
* `ListedRevertNothing`: `Spec => []NeverRevertsUpstream`, in any interleaving, for the
  owned files that a manifest lists.
* `OthersStay`: `Spec => []OthersUntouched`, in any interleaving of builds.
* `RacesAgree`: `Spec => []RacesThatSucceedAgree`. Any number of processes of one
  submission may race; where all of them come through, the farm is the overlay.

**The inductive invariant.** For the lone builder, `IInv` says of each stage of
`build_overlay` what it has done so far: the files its manifest lists are still those
it was derived from (`Checked`), the names that are no longer to do are wiped (`Wiping`), linked
(`Linking`), owned (`Filling`), and at the end all are (`Complete`). A party is who has
run since the directory was last idle, so `PartyRuns` makes a party of one a process
whose steps alone change the farm. That the loops take their names in order comes from
`FirstIsOne`, the least element of a set of numbers, which is where the library's
well-founded induction comes in. For the many builders it is enough that the name in
hand in the last pass is an owned one (`HandTyped`): `copy2` through anybody's link
then writes a source that a submission owns. And no build that is past its check meets
a newer upstream under a listed file, whoever else builds (`Unmoved`): no step of a build
brings one in (`NothingNewer`), and the wheel is only replaced while nothing runs.

For a race, no single builder knows what the farm holds, and nothing can be said of it at
any one stage. `Races` turns the question round: whatever a name of the farm still lacks,
some process of the party has yet to put there (`RaceAt`). A name that is nobody's and has
no link waits for a process that has not linked it (`Linked`); an owned name that holds a
link waits for one that has yet to unlink it, not only to copy (`Pending`), since a copy
follows the link; an owned name that holds anything else wrong waits for a copy
(`Filled`). Each call of a build, its own or another's, keeps the debt or pays it
(`RaceStep`); when everybody is done there is none.

### The arms

`ServerArmProofs`, for any arms, requests, polls, servers, deaths and interrupts
(`ArmAssumption`):

* `TypeCorrect`: `Spec => []TypeOK`.
* `ArmsStartAlone`: `Spec => []StartsAlone`.
* `RowsAreMeasured`: `Spec => []ArmMeasuresItsServer`.

**The inductive invariant.** `Alone`: until a command is interrupted, no server but the
arm's own is alive or terminating, and its own terminates only where `__exit__` waits
for it. So the one server that can have the port is the arm's, and a row is its row
(`RowsAreOwn`). `RowsFollow` says that an arm which leaves its `with` block without an
exception has all its rows, and `Room` that what is left of a command fits the servers
that are left.

`ImageClusterProofs`, for any nodes, arms, boots, losses, deaths and interrupts
(`ImageAssumption`):

* `TypeCorrect`: `Spec => []TypeOK`.
* `ArmsMeasureTheirOwn`: `Spec => []GroupIsOwn`.
* `PortsNeverClash`: `Spec => []NoSelfClash`.

**The inductive invariant.** `Started`: `docker run` fails on a name that is taken and is
sent with `check=True`, so the nodes the loop has passed hold containers of this boot,
and no later step of an arm replaces one. `Ports`: no socket, and no head, of the running
command has a port above `Newest`, the port of the last boot that may have run its head,
and a head that is up is ahead of every socket its command has left; `NewServer` raises
`Newest` before the next head is run.

`RayArmProofs`, for any nodes, arms, looks at the GPUs, polls, losses, deaths and
interrupts (`RayAssumption`):

* `TypeCorrect`: `Spec => []TypeOK`.
* `GpusAreFree`: `Spec => []StartsOnFreeGpus`.
* `ArmsAreTheirOwn`: `Spec => []ArmIsItsOwn`, in both its parts: no ssh command of the
  start lost and any deaths, and one lost and no death.

**The inductive invariant.** `Quiet` follows a teardown and a start that lost nothing:
after the head was told to kill, no API server is left that could load (`Cleared`);
the raylets fall host by host and those that come up again are the arm's (`Fresh`);
the last look at the GPUs found none in use, and without a server nobody can take one
before the spawn (`Unused`); then the arm's server is the only one, and every rank it
loads is in its environment (`Lone`). `Turns` says when an arm has a server, which
decides whether a teardown goes on to a start or out of `__exit__`.

`SInv`, on top of `IInv`, follows a start that lost one command while nothing dies by
itself. `Lively`: then only a teardown takes raylets away, and it takes along the server
and the ranks that need them, so a raylet is what every one of them depends on. The one
lost command has either killed nothing or hidden one answer, and the other answers say
that no raylet is left (`Bare`); with no raylet there is no server and no rank that
runs (`Clean`), and what comes up afterwards is the arm's (`Alone`).

### The thermal gate

`ThermalGateProofs`, for any nodes, arms, budget, tolerance, temperatures and failed
readings (`ThermalAssumption`):

* `TypeCorrect`: `Spec => []TypeOK`.
* `StepsRunOut`: `Spec => EveryStepCounts`. Each step of the harness lowers `StepsLeft`, a
  natural number which is `Arms * (Nodes * (2 * Budget + 5) + 1)` at the beginning
  (`StepsAllowed`). This is what liveness rests on apart from fairness: a harness that goes
  on taking steps comes to the end.

**The inductive invariant.** `IInv` adds to the types where each local variable of the
loop has a value (`Places`): a node is sampled only after a first reading, the loop sleeps
only with budget left, and an arm starts with the first node. `GateLowers` and
`StepsLower` then go through the steps; the products are named (`OneBlock`), because the
provers do linear arithmetic only.

### Model-checked only

* Liveness under fairness, which the prover does not do: `CommandEnds` of the three arms, `GateEnds`. Of `GateEnds` the half without fairness is proved
  (`StepsRunOut`).
* The four violated properties, which TLC refutes.

## 5. What is not modelled

* Measurement noise, tok/s and log text: no property tells them apart.
* The sandbox guard: one read of the node's state per boot, with a yes or a no.
* The engine patches and the CUDA kernel: they rebind functions of a library
  that is not here; their effect is a content's outputs and speeds.
* The diagnostic shell scripts: run by hand.
* The patch chain loader: a loop over a list in a starting interpreter, with no state
  that outlives it.
* `load_target`, `prompt_set`, `model_fingerprint`, the argument parser and printing:
  stateless.
* What only the clustered image target meets at gate 1: `bench` compares its
  version with the contract's wheel (1249-1252), two constants that never agree.

## 6. Plan

1. What `EveryStepCounts` says of the thermal gate, for the harness of an arm on each of
   the three substrates: the half of `CommandEnds` that needs no fairness.
2. Record names with their one-second stamp (1289) and `attempt`'s choice of the
   newest file, which needs a clock in `GatePipeline`.
