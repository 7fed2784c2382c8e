------------------------------ MODULE Overlay ------------------------------
(***************************************************************************)
(* harness/overlay.py: the symlink farm a kernel submission compiles from, *)
(* built by its sitecustomize.py in every Python process that starts with  *)
(* the patch (API server, engine, one worker per rank), all of them in the *)
(* same ARENA_OVERLAY_DIR.                                                 *)
(*                                                                         *)
(* Building is a sequence of file-system calls without a lock: wipe what   *)
(* is there, link every stock file, then replace the owned ones.  copy2    *)
(* follows a symbolic link it finds at the destination.                    *)
(***************************************************************************)
EXTENDS Integers, FiniteSets

CONSTANTS
    Processes,    \* Python processes that run the patch at start-up
    Owned,        \* process -> file names its submission owns
    Listed,       \* process -> names its MANIFEST.json lists: none without one
    Names,        \* the stock source files, numbered in sorted order
    MaxStarts,    \* bound: interpreter starts over a behaviour
    MaxInstalls   \* bound: reinstallations of the wheel

ASSUME OverlayAssumption ==
    /\ Names \subseteq Nat
    /\ \A p \in Processes : Owned[p] \subseteq Names /\ Listed[p] \subseteq Names
    /\ {MaxStarts, MaxInstalls} \subseteq Nat

VARIABLES
    site,      \* name -> the source in site-packages
    farm,      \* name -> what the overlay directory holds
    proc,      \* process -> [at, todo, name]
    compiled,  \* process -> the sources its JIT read, or NotCompiled
    starts, installs,
    party      \* history: who has run since nobody was running

vars == <<site, farm, proc, compiled, starts, installs, party>>

\* Contents of a source: the upstream version the manifest pins, a newer
\* upstream one, or the owned file of a submission (named by its file set).
Pinned == [kind |-> "pinned"]
Newer == [kind |-> "newer"]
Ours(p) == [kind |-> "owned", by |-> Owned[p]]

\* Entries of the farm that are not the copy of an owned file.
Nothing == [kind |-> "nothing"]
Link == [kind |-> "link"]

NotCompiled == [n \in {} |-> Pinned]

Init ==
    /\ site = [n \in Names |-> Pinned]
    /\ farm = [n \in Names |-> Nothing]
    /\ proc = [p \in Processes |-> [at |-> "off", todo |-> {}, name |-> 0]]
    /\ compiled = [p \in Processes |-> NotCompiled]
    /\ starts = 0
    /\ installs = 0
    /\ party = {}

-----------------------------------------------------------------------------

First(names) == CHOOSE n \in names : \A m \in names : n <= m

\* Process p goes on at `at` with `todo` left and `name` in hand.
Goto(p, at, todo, name) ==
    proc' = [proc EXCEPT ![p] = [at |-> at, todo |-> todo, name |-> name]]

\* An exception out of activate(): sitecustomize prints "NOT applied" and the
\* process goes on with the stock sources.
Fail(p) == Goto(p, "unapplied", {}, 0)

Alone(p) == \A q \in Processes \ {p} : proc[q].at = "off"

\* The interpreter starts and _widen_python_guard rebinds the page-size guard.
Start(p) ==
    /\ proc[p].at = "off"
    /\ starts < MaxStarts
    /\ Goto(p, "verify", {}, 0)
    /\ compiled' = [compiled EXCEPT ![p] = NotCompiled]
    /\ starts' = starts + 1
    /\ party' = {p} \cup (IF Alone(p) THEN {} ELSE party)
    /\ UNCHANGED <<site, farm, installs>>

\* Mutant: the manifest is not checked.
VerifyNothing(p) ==
    /\ proc[p].at = "verify"
    /\ Goto(p, "list", {}, 0)
    /\ UNCHANGED <<site, farm, compiled, starts, installs, party>>

\* MANIFEST.json, where there is one, against the installed sources it lists;
\* an owned file it does not list is not looked at.  SystemExit ends the process.
Verify(p) ==
    /\ proc[p].at = "verify"
    /\ IF \A n \in Listed[p] : site[n] = Pinned
       THEN Goto(p, "list", {}, 0)
       ELSE Goto(p, "off", {}, 0)
    /\ UNCHANGED <<site, farm, compiled, starts, installs, party>>

\* iterdir() takes its listing once.
List(p) ==
    /\ proc[p].at = "list"
    /\ Goto(p, "wipe", {n \in Names : farm[n] # Nothing}, 0)
    /\ UNCHANGED <<site, farm, compiled, starts, installs, party>>

\* is_symlink() or is_file(): an entry that is gone by now is passed over.
WipeCheck(p) ==
    /\ proc[p].at = "wipe"
    /\ \E n \in proc[p].todo :
         Goto(p, IF farm[n] = Nothing THEN "wipe" ELSE "unlink", proc[p].todo \ {n}, n)
    /\ UNCHANGED <<site, farm, compiled, starts, installs, party>>

\* unlink() of an entry that was there when it was checked.
Unlink(p, from, to) ==
    /\ proc[p].at = from
    /\ \/ /\ farm[proc[p].name] = Nothing
          /\ Fail(p)
          /\ UNCHANGED farm
       \/ /\ farm[proc[p].name] # Nothing
          /\ farm' = [farm EXCEPT ![proc[p].name] = Nothing]
          /\ Goto(p, to, proc[p].todo, proc[p].name)
    /\ UNCHANGED <<site, compiled, starts, installs, party>>

\* Mutant: the last pass copies every file instead of the owned ones.
NextPassOwnsAll(p) ==
    /\ proc[p].todo = {}
    /\ \/ proc[p].at = "wipe" /\ Goto(p, "link", Names, 0)
       \/ proc[p].at = "link" /\ Goto(p, "own", Names, 0)
       \/ proc[p].at = "own" /\ Goto(p, "applied", {}, 0)
    /\ UNCHANGED <<site, farm, compiled, starts, installs, party>>

\* One pass is over, the next begins.
NextPass(p) ==
    /\ proc[p].todo = {}
    /\ \/ proc[p].at = "wipe" /\ Goto(p, "link", Names, 0)
       \/ proc[p].at = "link" /\ Goto(p, "own", Owned[p], 0)
       \/ proc[p].at = "own" /\ Goto(p, "applied", {}, 0)
    /\ UNCHANGED <<site, farm, compiled, starts, installs, party>>

\* symlink_to() raises if the name is taken.
LinkStock(p) ==
    /\ proc[p].at = "link"
    /\ proc[p].todo # {}
    /\ LET n == First(proc[p].todo)
       IN  \/ /\ farm[n] = Nothing
              /\ farm' = [farm EXCEPT ![n] = Link]
              /\ Goto(p, "link", proc[p].todo \ {n}, 0)
           \/ /\ farm[n] # Nothing
              /\ Fail(p)
              /\ UNCHANGED farm
    /\ UNCHANGED <<site, compiled, starts, installs, party>>

\* Mutant: an entry that exists is taken for done.
OwnCheckSkips(p) ==
    /\ proc[p].at = "own"
    /\ proc[p].todo # {}
    /\ LET n == First(proc[p].todo)
       IN  Goto(p, IF farm[n] = Nothing THEN "copy" ELSE "own", proc[p].todo \ {n}, n)
    /\ UNCHANGED <<site, farm, compiled, starts, installs, party>>

\* exists() or is_symlink(), before an owned file goes in.
OwnCheck(p) ==
    /\ proc[p].at = "own"
    /\ proc[p].todo # {}
    /\ LET n == First(proc[p].todo)
       IN  Goto(p, IF farm[n] = Nothing THEN "copy" ELSE "own-unlink", proc[p].todo \ {n}, n)
    /\ UNCHANGED <<site, farm, compiled, starts, installs, party>>

\* copy2(): into the farm, or through a link that has appeared there.
Copy(p) ==
    /\ proc[p].at = "copy"
    /\ LET n == proc[p].name
       IN  \/ /\ farm[n] # Link
              /\ farm' = [farm EXCEPT ![n] = Ours(p)]
              /\ UNCHANGED site
           \/ /\ farm[n] = Link
              /\ site' = [site EXCEPT ![n] = Ours(p)]
              /\ UNCHANGED farm
    /\ Goto(p, "own", proc[p].todo, 0)
    /\ UNCHANGED <<compiled, starts, installs, party>>

\* What a name in the farm reads as.
Read(n) == IF farm[n] = Link THEN site[n] ELSE farm[n]

\* Mutant: the include path has the overlay's own files and nothing else.
CompileOwned(p) ==
    /\ proc[p].at \in {"applied", "unapplied"}
    /\ compiled[p] = NotCompiled
    /\ compiled' = [compiled EXCEPT ![p] = [n \in Owned[p] |-> Read(n)]]
    /\ UNCHANGED <<site, farm, proc, starts, installs, party>>

\* The first kernel launch compiles: from the farm where activate() rebound
\* FLASHINFER_CSRC_DIR, from site-packages otherwise.
Compile(p) ==
    /\ proc[p].at \in {"applied", "unapplied"}
    /\ compiled[p] = NotCompiled
    /\ compiled' = [compiled EXCEPT ![p] =
                      [n \in Names |-> IF proc[p].at = "applied" THEN Read(n) ELSE site[n]]]
    /\ UNCHANGED <<site, farm, proc, starts, installs, party>>

\* The process ends, or is killed wherever it is.
Stop(p) ==
    /\ proc[p].at # "off"
    /\ Goto(p, "off", {}, 0)
    /\ UNCHANGED <<site, farm, compiled, starts, installs, party>>

\* pip installs the wheel again, the pinned one or a newer one, while nothing
\* is running.
Install ==
    /\ installs < MaxInstalls
    /\ \A p \in Processes : proc[p].at = "off"
    /\ \E v \in {Pinned, Newer} : site' = [n \in Names |-> v]
    /\ installs' = installs + 1
    /\ UNCHANGED <<farm, proc, compiled, starts, party>>

Next ==
    \/ Install
    \/ \E p \in Processes :
         \/ Start(p)
         \/ Verify(p)
         \/ List(p)
         \/ WipeCheck(p)
         \/ Unlink(p, "unlink", "wipe")
         \/ Unlink(p, "own-unlink", "copy")
         \/ NextPass(p)
         \/ LinkStock(p)
         \/ OwnCheck(p)
         \/ Copy(p)
         \/ Compile(p)
         \/ Stop(p)

Spec == Init /\ [][Next]_vars

-----------------------------------------------------------------------------
(* Properties.                                                             *)

Stages == {"off", "verify", "list", "wipe", "unlink", "link", "own",
           "own-unlink", "copy", "applied", "unapplied"}

Sources == {Pinned, Newer} \cup {Ours(p) : p \in Processes}

TypeOK ==
    /\ site \in [Names -> Sources]
    /\ farm \in [Names -> {Nothing, Link} \cup {Ours(p) : p \in Processes}]
    /\ \A p \in Processes :
         /\ proc[p].at \in Stages
         /\ proc[p].todo \subseteq Names
         /\ compiled[p] # NotCompiled => DOMAIN compiled[p] = Names
    /\ starts \in 0..MaxStarts
    /\ installs \in 0..MaxInstalls
    /\ party \subseteq Processes

\* The overlay of p: its own files over the installed ones.
Overlaid(p) == [n \in Names |-> IF n \in Owned[p] THEN Ours(p) ELSE site[n]]

\* Whatever killed builds, lost races or other submissions left in the
\* directory, a build that succeeds with no other process about yields exactly
\* its overlay (overlay.py:100-101: "Rebuild the farm each time"), and that is
\* what its process compiles.
AppliedIsOverlay ==
    \A p \in Processes : proc[p].at = "applied" /\ party = {p} =>
        /\ \A n \in Names : Read(n) = Overlaid(p)[n]
        /\ compiled[p] # NotCompiled => compiled[p] = Overlaid(p)

\* "If the wheel moves under us, the hash mismatches and the build stops"
\* (overlay.py:36-39), for the owned files that a manifest lists: in any
\* interleaving none of them is applied over a newer upstream version, and a
\* lone build applies them over the version they were derived from, not over
\* what another submission's build has copied through a link either.  Of an
\* owned file without an entry, or without a manifest, the code promises
\* nothing: it reverts upstream silently.
NeverRevertsUpstream ==
    \A p \in Processes : proc[p].at = "applied" =>
        \A n \in Owned[p] \cap Listed[p] :
            /\ site[n] # Newer
            /\ party = {p} => site[n] = Pinned

\* If the processes that raced are of one submission and every one of them got
\* its overlay in the end, the farm they share is complete and right for them.
RacesThatSucceedAgree ==
    (\A p, q \in party : Owned[p] = Owned[q] /\ proc[p].at = "applied") =>
        \A p \in party, n \in Names :
            farm[n] = IF n \in Owned[p] THEN Ours(p) ELSE Link

\* However builds race, a source that no submission owns stays as installed.
OthersUntouched ==
    \A n \in Names : (\A p \in Processes : n \notin Owned[p]) => site[n] \in {Pinned, Newer}

\* "nothing in site-packages is ever modified" (RUNBOOK.md:63-64).
SitePackagesUntouched == \A n \in Names : site[n] \in {Pinned, Newer}
=============================================================================
