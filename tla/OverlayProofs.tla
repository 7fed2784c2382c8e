--------------------------- MODULE OverlayProofs ---------------------------
(***************************************************************************)
(* Proofs about Overlay, for any processes, submissions and file names: a  *)
(* build that nobody disturbs yields exactly its overlay, whatever the     *)
(* directory held before; no build, disturbed or not, applies a file that  *)
(* its manifest lists over a newer upstream version;                       *)
(* builds of one submission that race and all succeed agree on the farm;   *)
(* and no build, disturbed or not, touches a source that nobody owns.      *)
(***************************************************************************)
EXTENDS Overlay, WellFoundedInduction, TLAPS

(* The inductive invariant.                                                *)

Entries == {Nothing, Link} \cup {Ours(p) : p \in Processes}
InHand == {"unlink", "own-unlink", "copy"}
Owning == {"own", "own-unlink", "copy"}
PastCheck == {"list", "wipe", "unlink", "link", "applied"} \cup Owning

ProcType == [at : Stages, todo : SUBSET Names, name : Nat]

Typed ==
    /\ site \in [Names -> Sources]
    /\ farm \in [Names -> Entries]
    /\ proc \in [Processes -> ProcType]
    /\ compiled \in [Processes -> {NotCompiled} \cup [Names -> Sources \cup Entries]]
    /\ starts \in 0..MaxStarts /\ installs \in 0..MaxInstalls
    /\ party \subseteq Processes

\* The name in hand is one of the farm, and in the last pass an owned one.
HandTyped ==
    \A p \in Processes :
        /\ proc[p].at \in InHand => proc[p].name \in Names
        /\ proc[p].at \in Owning => proc[p].todo \subseteq Owned[p]
        /\ proc[p].at \in {"own-unlink", "copy"} => proc[p].name \in Owned[p] \ proc[p].todo

\* Who runs is of the party.
PartyRuns == \A p \in Processes : proc[p].at # "off" => p \in party

(* What a build that is alone has done when it is at a stage.              *)

\* The manifest was checked, and no upstream source has moved since.
Checked(p) ==
    proc[p].at \in PastCheck => \A n \in Listed[p] : site[n] = Pinned

\* What is still in the directory is still to be wiped.
Wiping(p) ==
    /\ proc[p].at = "wipe" => \A n \in Names \ proc[p].todo : farm[n] = Nothing
    /\ proc[p].at = "unlink" =>
         /\ \A n \in Names \ (proc[p].todo \cup {proc[p].name}) : farm[n] = Nothing

Linking(p) ==
    proc[p].at = "link" =>
        \A n \in Names : farm[n] = IF n \in proc[p].todo THEN Nothing ELSE Link

\* The names of the last pass that are not done.
Left(p) == proc[p].todo \cup (IF proc[p].at = "own" THEN {} ELSE {proc[p].name})

Filling(p) ==
    /\ proc[p].at \in Owning =>
         \A n \in Names :
             \/ proc[p].at = "copy" /\ n = proc[p].name
             \/ farm[n] = IF n \in Owned[p] \ Left(p) THEN Ours(p) ELSE Link
    /\ proc[p].at = "copy" => farm[proc[p].name] = Nothing

Complete(p) ==
    proc[p].at = "applied" =>
        /\ \A n \in Names : farm[n] = IF n \in Owned[p] THEN Ours(p) ELSE Link
        /\ compiled[p] # NotCompiled => compiled[p] = Overlaid(p)

\* Nothing is compiled before the build is over.
NotYet(p) == proc[p].at \notin {"off", "applied", "unapplied"} => compiled[p] = NotCompiled

AloneBuilds ==
    \A p \in Processes : party = {p} =>
        Checked(p) /\ Wiping(p) /\ Linking(p) /\ Filling(p) /\ Complete(p) /\ NotYet(p)

IInv == Typed /\ HandTyped /\ PartyRuns /\ AloneBuilds /\ OthersUntouched

-----------------------------------------------------------------------------

LEMMA Kinds ==
    /\ Pinned # Newer /\ Nothing # Link
    /\ \A p : Ours(p) # Nothing /\ Ours(p) # Link
BY DEF Pinned, Newer, Nothing, Link, Ours

LEMMA FirstIsOne == ASSUME NEW S \in SUBSET Names, S # {} PROVE First(S) \in S
<1> DEFINE Below == {ss \in Nat \X Nat : ss[1] < ss[2]}
<1>1. IsWellFoundedOn(Below, Nat)
  BY NatLessThanWellFounded DEF OpToRel
<1>2. S \subseteq Nat
  BY OverlayAssumption
<1>3. PICK x \in S : \A y \in S : ~(<<y, x>> \in Below)
  <2> HIDE DEF Below
  <2> QED
    BY <1>1, <1>2, WFMin
<1>4. ASSUME NEW y \in S PROVE x <= y
  <2>1. x \in Nat /\ y \in Nat
    BY <1>2
  <2>2. ~(y < x)
    BY <1>3, <2>1
  <2> QED
    BY <2>1, <2>2
<1> QED
  BY <1>4 DEF First

LEMMA InitHolds == Init => IInv
<1> SUFFICES ASSUME Init PROVE IInv
  OBVIOUS
<1> USE OverlayAssumption DEF Init
<1>1. Typed
  <2>1. \A p \in Processes : proc[p] \in ProcType
    BY DEF ProcType, Stages
  <2>2. proc \in [Processes -> ProcType]
    BY <2>1
  <2>3. site \in [Names -> Sources] /\ farm \in [Names -> Entries]
    BY DEF Sources, Entries
  <2>4. compiled \in [Processes -> {NotCompiled} \cup [Names -> Sources \cup Entries]]
    OBVIOUS
  <2>5. starts \in 0..MaxStarts /\ installs \in 0..MaxInstalls /\ party = {}
    OBVIOUS
  <2> QED
    BY <2>2, <2>3, <2>4, <2>5 DEF Typed
<1>2. HandTyped /\ PartyRuns /\ AloneBuilds
  BY DEF HandTyped, PartyRuns, AloneBuilds, InHand, Owning
<1>3. OthersUntouched
  BY DEF OthersUntouched
<1> QED
  BY <1>1, <1>2, <1>3 DEF IInv

\* Where a process goes.
LEMMA GotoIs ==
    ASSUME Typed, NEW p \in Processes, NEW at, NEW todo, NEW name, Goto(p, at, todo, name)
    PROVE  /\ proc'[p] = [at |-> at, todo |-> todo, name |-> name]
           /\ proc'[p].at = at /\ proc'[p].todo = todo /\ proc'[p].name = name
           /\ \A q \in Processes \ {p} : proc'[q] = proc[q]
           /\ at \in Stages /\ todo \subseteq Names /\ name \in Nat =>
                proc' \in [Processes -> ProcType]
<1>1. /\ proc'[p] = [at |-> at, todo |-> todo, name |-> name]
      /\ \A q \in Processes \ {p} : proc'[q] = proc[q]
  BY DEF Goto, Typed
<1>2. proc'[p].at = at /\ proc'[p].todo = todo /\ proc'[p].name = name
  BY <1>1
<1>3. at \in Stages /\ todo \subseteq Names /\ name \in Nat => proc' \in [Processes -> ProcType]
  BY DEF Goto, Typed, ProcType
<1> QED
  BY <1>1, <1>2, <1>3

\* A step of p inside its build leaves what is known of the others alone: in
\* a party of one, that is p.
LEMMA BuildStep ==
    ASSUME IInv, NEW p \in Processes, NEW at, NEW todo, NEW name,
           Goto(p, at, todo, name), proc[p].at # "off",
           at \in Stages, todo \subseteq Names, name \in Nat,
           at \in InHand => name \in Names,
           at \in Owning => todo \subseteq Owned[p],
           at \in {"own-unlink", "copy"} => name \in Owned[p] \ todo,
           UNCHANGED <<compiled, starts, installs, party>>,
           site' \in [Names -> Sources], farm' \in [Names -> Entries],
           OthersUntouched',
           party = {p} =>
             (Checked(p) /\ Wiping(p) /\ Linking(p) /\ Filling(p) /\ Complete(p) /\ NotYet(p))'
    PROVE  IInv'
<1>1. Typed /\ HandTyped /\ PartyRuns
  BY DEF IInv
<1>2. Typed'
  BY <1>1, GotoIs DEF Typed
<1>3. proc'[p].at = at /\ proc'[p].todo = todo /\ proc'[p].name = name
      /\ \A q \in Processes \ {p} : proc'[q] = proc[q]
  BY <1>1, GotoIs
<1>4. HandTyped'
  BY <1>1, <1>3 DEF HandTyped
<1>5. PartyRuns'
  BY <1>1, <1>3 DEF PartyRuns
<1>6. AloneBuilds'
  <2> SUFFICES ASSUME NEW q \in Processes, party' = {q}
               PROVE  (Checked(q) /\ Wiping(q) /\ Linking(q) /\ Filling(q) /\ Complete(q)
                        /\ NotYet(q))'
    BY DEF AloneBuilds
  <2>1. p \in party
    BY <1>1 DEF PartyRuns
  <2>2. q = p
    BY <2>1
  <2> QED
    BY <2>2
<1> QED
  BY <1>2, <1>4, <1>5, <1>6 DEF IInv

\* A step that leaves the build, the directory as it is.
LEMMA LeaveStep ==
    ASSUME IInv, NEW p \in Processes, NEW at \in {"off", "unapplied"},
           Goto(p, at, {}, 0), proc[p].at # "off",
           UNCHANGED <<site, farm, compiled, starts, installs, party>>
    PROVE  IInv'
<1>1. proc'[p].at = at
  BY DEF Goto, IInv, Typed
<1>2. (Checked(p) /\ Wiping(p) /\ Linking(p) /\ Filling(p) /\ Complete(p) /\ NotYet(p))'
  BY <1>1 DEF Checked, PastCheck, Wiping, Linking, Filling, Complete, NotYet, Owning
<1>3. at \in Stages /\ at \notin InHand \cup Owning
  BY DEF Stages, InHand, Owning
<1>4. site' \in [Names -> Sources] /\ farm' \in [Names -> Entries] /\ OthersUntouched'
  BY DEF IInv, Typed, OthersUntouched
<1> QED
  BY <1>2, <1>3, <1>4, BuildStep

\* What the invariant says of a process that builds.
LEMMA Builder ==
    ASSUME IInv, NEW p \in Processes
    PROVE  /\ Typed /\ proc[p] \in ProcType /\ proc[p].todo \subseteq Names /\ proc[p].name \in Nat
           /\ site \in [Names -> Sources] /\ farm \in [Names -> Entries]
           /\ Owned[p] \subseteq Names
           /\ party = {p} => Checked(p) /\ Wiping(p) /\ Linking(p) /\ Filling(p) /\ Complete(p)
                               /\ NotYet(p)
BY OverlayAssumption DEF IInv, Typed, ProcType, AloneBuilds

LEMMA SameSite == ASSUME IInv, UNCHANGED site PROVE OthersUntouched'
BY DEF IInv, OthersUntouched

LEMMA VerifyKeeps == ASSUME IInv, NEW p \in Processes, Verify(p) PROVE IInv'
<1>1. CASE Goto(p, "off", {}, 0)
  BY <1>1, LeaveStep DEF Verify
<1>2. CASE (\A n \in Listed[p] : site[n] = Pinned) /\ Goto(p, "list", {}, 0)
  <2>1. proc'[p].at = "list"
    BY <1>2 DEF Goto, IInv, Typed
  <2>2. party = {p} =>
          (Checked(p) /\ Wiping(p) /\ Linking(p) /\ Filling(p) /\ Complete(p) /\ NotYet(p))'
    BY <1>2, <2>1, Builder
       DEF Verify, Checked, Wiping, Linking, Filling, Complete, NotYet, Owning
  <2>3. "list" \in Stages /\ "list" \notin InHand \cup Owning
    BY DEF Stages, InHand, Owning
  <2> QED
    BY <1>2, <2>2, <2>3, Builder, SameSite, BuildStep DEF Verify
<1> QED
  BY <1>1, <1>2 DEF Verify

LEMMA ListKeeps == ASSUME IInv, NEW p \in Processes, List(p) PROVE IInv'
<1>1. PICK listed : listed = {n \in Names : farm[n] # Nothing}
  OBVIOUS
<1>2. Goto(p, "wipe", listed, 0) /\ proc[p].at = "list"
      /\ UNCHANGED <<site, farm, compiled, starts, installs, party>>
  BY <1>1 DEF List, Goto
<1>3. proc'[p].at = "wipe" /\ proc'[p].todo = listed
  BY <1>2 DEF Goto, IInv, Typed
<1>4. party = {p} =>
        (Checked(p) /\ Wiping(p) /\ Linking(p) /\ Filling(p) /\ Complete(p) /\ NotYet(p))'
  BY <1>1, <1>2, <1>3, Builder
     DEF Checked, PastCheck, Wiping, Linking, Filling, Complete, NotYet, Owning
<1>5. "wipe" \in Stages /\ "wipe" \notin InHand \cup Owning
  BY DEF Stages, InHand, Owning
<1>6. listed \subseteq Names
  BY <1>1
<1> QED
  BY <1>2, <1>4, <1>5, <1>6, Builder, SameSite, BuildStep

LEMMA WipeCheckKeeps == ASSUME IInv, NEW p \in Processes, WipeCheck(p) PROVE IInv'
<1>1. PICK n \in proc[p].todo :
        Goto(p, IF farm[n] = Nothing THEN "wipe" ELSE "unlink", proc[p].todo \ {n}, n)
  BY DEF WipeCheck
<1>2. PICK at, todo : at = (IF farm[n] = Nothing THEN "wipe" ELSE "unlink") /\ todo = proc[p].todo \ {n}
  OBVIOUS
<1>3. Goto(p, at, todo, n) /\ proc[p].at = "wipe"
      /\ UNCHANGED <<site, farm, compiled, starts, installs, party>>
  BY <1>1, <1>2 DEF WipeCheck, Goto
<1>4. n \in Names /\ n \in Nat /\ todo \subseteq Names
  BY <1>2, Builder, OverlayAssumption
<1>5. proc'[p].at = at /\ proc'[p].todo = todo /\ proc'[p].name = n
  BY <1>3 DEF Goto, IInv, Typed
<1>6. at \in {"wipe", "unlink"} /\ (at = "wipe" => farm[n] = Nothing)
  BY <1>2
<1>7. party = {p} =>
        (Checked(p) /\ Wiping(p) /\ Linking(p) /\ Filling(p) /\ Complete(p) /\ NotYet(p))'
  BY <1>2, <1>3, <1>5, <1>6, Builder
     DEF Checked, PastCheck, Wiping, Linking, Filling, Complete, NotYet, Owning
<1>8. at \in Stages /\ at \notin Owning
  BY <1>6 DEF Stages, Owning
<1> QED
  BY <1>3, <1>4, <1>7, <1>8, Builder, SameSite, BuildStep DEF Owning

LEMMA NextPassKeeps == ASSUME IInv, NEW p \in Processes, NextPass(p) PROVE IInv'
<1> USE DEF NextPass
<1>1. CASE proc[p].at = "wipe" /\ Goto(p, "link", Names, 0)
  <2>1. proc'[p].at = "link" /\ proc'[p].todo = Names
    BY <1>1 DEF Goto, IInv, Typed
  <2>2. party = {p} =>
          (Checked(p) /\ Wiping(p) /\ Linking(p) /\ Filling(p) /\ Complete(p) /\ NotYet(p))'
    BY <1>1, <2>1, Builder
       DEF Checked, PastCheck, Wiping, Linking, Filling, Complete, NotYet, Owning
  <2>3. "link" \in Stages /\ "link" \notin InHand \cup Owning
    BY DEF Stages, InHand, Owning
  <2> QED
    BY <1>1, <2>2, <2>3, Builder, SameSite, BuildStep
<1>2. CASE proc[p].at = "link" /\ Goto(p, "own", Owned[p], 0)
  <2>1. proc'[p].at = "own" /\ proc'[p].todo = Owned[p]
    BY <1>2 DEF Goto, IInv, Typed
  <2>2. party = {p} =>
          (Checked(p) /\ Wiping(p) /\ Linking(p) /\ Filling(p) /\ Complete(p) /\ NotYet(p))'
    BY <1>2, <2>1, Builder
       DEF Checked, PastCheck, Wiping, Linking, Filling, Left, Complete, NotYet, Owning
  <2>3. "own" \in Stages /\ "own" \notin InHand
    BY DEF Stages, InHand
  <2> QED
    BY <1>2, <2>2, <2>3, Builder, SameSite, BuildStep
<1>3. CASE proc[p].at = "own" /\ Goto(p, "applied", {}, 0)
  <2>1. proc'[p].at = "applied"
    BY <1>3 DEF Goto, IInv, Typed
  <2>2. party = {p} =>
          (Checked(p) /\ Wiping(p) /\ Linking(p) /\ Filling(p) /\ Complete(p) /\ NotYet(p))'
    BY <1>3, <2>1, Builder
       DEF Checked, PastCheck, Wiping, Linking, Filling, Left, Complete, NotYet, Owning
  <2>3. "applied" \in Stages /\ "applied" \notin InHand \cup Owning
    BY DEF Stages, InHand, Owning
  <2> QED
    BY <1>3, <2>2, <2>3, Builder, SameSite, BuildStep
<1> QED
  BY <1>1, <1>2, <1>3

LEMMA LinkStockKeeps == ASSUME IInv, NEW p \in Processes, LinkStock(p) PROVE IInv'
<1>1. PICK n, todo : n = First(proc[p].todo) /\ todo = proc[p].todo \ {n}
  OBVIOUS
<1>2. n \in proc[p].todo /\ n \in Names /\ todo \subseteq Names
  BY <1>1, Builder, FirstIsOne DEF LinkStock
<1>3. CASE farm[n] # Nothing
  <2>1. Goto(p, "unapplied", {}, 0) /\ UNCHANGED <<site, farm, compiled, starts, installs, party>>
    BY <1>1, <1>3 DEF LinkStock, Fail
  <2> QED
    BY <2>1, LeaveStep DEF LinkStock
<1>4. CASE farm[n] = Nothing
  <2>1. /\ farm' = [farm EXCEPT ![n] = Link]
        /\ Goto(p, "link", todo, 0)
        /\ proc[p].at = "link"
        /\ UNCHANGED <<site, compiled, starts, installs, party>>
    BY <1>1, <1>4 DEF LinkStock, Goto
  <2>2. proc'[p].at = "link" /\ proc'[p].todo = todo
    BY <2>1 DEF Goto, IInv, Typed
  <2>3. farm' \in [Names -> Entries]
    BY <1>2, <2>1, Builder DEF Entries
  <2>4. party = {p} =>
          (Checked(p) /\ Wiping(p) /\ Linking(p) /\ Filling(p) /\ Complete(p) /\ NotYet(p))'
    BY <1>1, <1>2, <2>1, <2>2, Builder
       DEF Checked, PastCheck, Wiping, Linking, Filling, Complete, NotYet, Owning
  <2>5. "link" \in Stages /\ "link" \notin InHand \cup Owning
    BY DEF Stages, InHand, Owning
  <2> QED
    BY <1>2, <2>1, <2>3, <2>4, <2>5, Builder, SameSite, BuildStep
<1> QED
  BY <1>3, <1>4

LEMMA OwnCheckKeeps == ASSUME IInv, NEW p \in Processes, OwnCheck(p) PROVE IInv'
<1>1. PICK n, todo, at : /\ n = First(proc[p].todo) /\ todo = proc[p].todo \ {n}
                         /\ at = IF farm[n] = Nothing THEN "copy" ELSE "own-unlink"
  OBVIOUS
<1>2. Goto(p, at, todo, n) /\ proc[p].at = "own"
      /\ UNCHANGED <<site, farm, compiled, starts, installs, party>>
  BY <1>1 DEF OwnCheck, Goto
<1>3. n \in proc[p].todo /\ n \in Names /\ n \in Nat /\ todo \subseteq Names
  BY <1>1, Builder, FirstIsOne, OverlayAssumption DEF OwnCheck
<1>4. proc[p].todo \subseteq Owned[p]
  BY <1>2 DEF IInv, HandTyped, Owning
<1>5. proc'[p].at = at /\ proc'[p].todo = todo /\ proc'[p].name = n
  BY <1>2 DEF Goto, IInv, Typed
<1>6. at \in {"copy", "own-unlink"} /\ at \in Stages /\ n \in Owned[p] \ todo /\ todo \subseteq Owned[p]
  BY <1>1, <1>3, <1>4 DEF Stages
<1>7. party = {p} =>
        (Checked(p) /\ Wiping(p) /\ Linking(p) /\ Filling(p) /\ Complete(p) /\ NotYet(p))'
  <2> SUFFICES ASSUME party = {p}
               PROVE  (Checked(p) /\ Wiping(p) /\ Linking(p) /\ Filling(p) /\ Complete(p)
                        /\ NotYet(p))'
    OBVIOUS
  <2>1. \A m \in Names : farm[m] = IF m \in Owned[p] \ proc[p].todo THEN Ours(p) ELSE Link
    BY <1>2, Builder DEF Filling, Owning, Left
  <2>2. farm[n] # Nothing /\ at = "own-unlink"
    BY <1>1, <1>3, <2>1, Kinds
  <2>3. Left(p)' = proc[p].todo
    BY <1>1, <1>3, <1>5, <2>2 DEF Left
  <2> QED
    BY <1>2, <1>5, <2>1, <2>2, <2>3, Builder
       DEF Checked, PastCheck, Wiping, Linking, Filling, Complete, NotYet, Owning
<1> QED
  BY <1>2, <1>3, <1>6, <1>7, Builder, SameSite, BuildStep

\* Unlinking while wiping.
LEMMA UnlinkKeeps == ASSUME IInv, NEW p \in Processes, Unlink(p, "unlink", "wipe") PROVE IInv'
<1>1. PICK n, todo : n = proc[p].name /\ todo = proc[p].todo
  OBVIOUS
<1>2. n \in Names /\ n \in Nat /\ todo \subseteq Names
  BY <1>1, Builder DEF Unlink, IInv, HandTyped, InHand
<1>3. CASE farm[n] = Nothing
  <2>1. Goto(p, "unapplied", {}, 0) /\ UNCHANGED <<site, farm, compiled, starts, installs, party>>
    BY <1>1, <1>3 DEF Unlink, Fail
  <2> QED
    BY <2>1, LeaveStep DEF Unlink
<1>4. CASE farm[n] # Nothing
  <2>1. /\ farm' = [farm EXCEPT ![n] = Nothing]
        /\ Goto(p, "wipe", todo, n)
        /\ proc[p].at = "unlink"
        /\ UNCHANGED <<site, compiled, starts, installs, party>>
    BY <1>1, <1>4 DEF Unlink, Goto
  <2>2. proc'[p].at = "wipe" /\ proc'[p].todo = todo
    BY <2>1 DEF Goto, IInv, Typed
  <2>3. farm' \in [Names -> Entries]
    BY <1>2, <2>1, Builder DEF Entries
  <2>4. party = {p} =>
          (Checked(p) /\ Wiping(p) /\ Linking(p) /\ Filling(p) /\ Complete(p) /\ NotYet(p))'
    BY <1>1, <1>2, <2>1, <2>2, Builder
       DEF Checked, PastCheck, Wiping, Linking, Filling, Complete, NotYet, Owning
  <2>5. "wipe" \in Stages /\ "wipe" \notin InHand \cup Owning
    BY DEF Stages, InHand, Owning
  <2> QED
    BY <1>2, <2>1, <2>3, <2>4, <2>5, Builder, SameSite, BuildStep
<1> QED
  BY <1>3, <1>4

\* Unlinking before a copy.
LEMMA OwnUnlinkKeeps == ASSUME IInv, NEW p \in Processes, Unlink(p, "own-unlink", "copy") PROVE IInv'
<1>1. PICK n, todo : n = proc[p].name /\ todo = proc[p].todo
  OBVIOUS
<1>2. /\ n \in Names /\ n \in Nat /\ todo \subseteq Names
      /\ n \in Owned[p] \ todo /\ todo \subseteq Owned[p]
  BY <1>1, Builder DEF Unlink, IInv, HandTyped, InHand, Owning
<1>3. CASE farm[n] = Nothing
  <2>1. Goto(p, "unapplied", {}, 0) /\ UNCHANGED <<site, farm, compiled, starts, installs, party>>
    BY <1>1, <1>3 DEF Unlink, Fail
  <2> QED
    BY <2>1, LeaveStep DEF Unlink
<1>4. CASE farm[n] # Nothing
  <2>1. /\ farm' = [farm EXCEPT ![n] = Nothing]
        /\ Goto(p, "copy", todo, n)
        /\ proc[p].at = "own-unlink"
        /\ UNCHANGED <<site, compiled, starts, installs, party>>
    BY <1>1, <1>4 DEF Unlink, Goto
  <2>2. proc'[p].at = "copy" /\ proc'[p].todo = todo /\ proc'[p].name = n
    BY <2>1 DEF Goto, IInv, Typed
  <2>3. farm' \in [Names -> Entries]
    BY <1>2, <2>1, Builder DEF Entries
  <2>4. farm'[n] = Nothing /\ \A m \in Names \ {n} : farm'[m] = farm[m]
    BY <1>2, <2>1, Builder
  <2>5. party = {p} =>
          (Checked(p) /\ Wiping(p) /\ Linking(p) /\ Filling(p) /\ Complete(p) /\ NotYet(p))'
    BY <1>1, <1>2, <2>1, <2>2, <2>4, Builder
       DEF Checked, PastCheck, Wiping, Linking, Filling, Left, Complete, NotYet, Owning
  <2>6. "copy" \in Stages
    BY DEF Stages
  <2> QED
    BY <1>2, <2>1, <2>3, <2>5, <2>6, Builder, SameSite, BuildStep
<1> QED
  BY <1>3, <1>4

\* copy2() writes a name its process owns: the farm's, or through a link
\* that another build has made there, the one in site-packages.
LEMMA CopyKeeps == ASSUME IInv, NEW p \in Processes, Copy(p) PROVE IInv'
<1>1. PICK n, todo : n = proc[p].name /\ todo = proc[p].todo
  OBVIOUS
<1>2. /\ n \in Names /\ todo \subseteq Names /\ n \in Owned[p] \ todo /\ todo \subseteq Owned[p]
  BY <1>1, Builder DEF Copy, IInv, HandTyped, InHand, Owning
<1>3. Goto(p, "own", todo, 0) /\ proc[p].at = "copy"
      /\ UNCHANGED <<compiled, starts, installs, party>>
  BY <1>1 DEF Copy, Goto
<1>4. proc'[p].at = "own" /\ proc'[p].todo = todo
  BY <1>3 DEF Goto, IInv, Typed
<1>5. \/ farm[n] # Link /\ farm' = [farm EXCEPT ![n] = Ours(p)] /\ UNCHANGED site
      \/ farm[n] = Link /\ site' = [site EXCEPT ![n] = Ours(p)] /\ UNCHANGED farm
  BY <1>1 DEF Copy
<1>6. site' \in [Names -> Sources] /\ farm' \in [Names -> Entries]
  BY <1>2, <1>5, Builder DEF Sources, Entries
<1>7. OthersUntouched'
  <2> SUFFICES ASSUME NEW m \in Names, \A q \in Processes : m \notin Owned[q]
               PROVE  site'[m] \in {Pinned, Newer}
    BY DEF OthersUntouched
  <2>1. m # n
    BY <1>2
  <2> QED
    BY <1>5, <2>1, Builder DEF IInv, OthersUntouched
<1>8. party = {p} =>
        (Checked(p) /\ Wiping(p) /\ Linking(p) /\ Filling(p) /\ Complete(p) /\ NotYet(p))'
  <2> SUFFICES ASSUME party = {p}
               PROVE  (Checked(p) /\ Wiping(p) /\ Linking(p) /\ Filling(p) /\ Complete(p)
                        /\ NotYet(p))'
    OBVIOUS
  <2>1. farm[n] = Nothing
    BY <1>1, <1>3, Builder DEF Filling
  <2>2. farm' = [farm EXCEPT ![n] = Ours(p)] /\ UNCHANGED site
    BY <1>5, <2>1, Kinds
  <2>3. farm'[n] = Ours(p) /\ \A m \in Names \ {n} : farm'[m] = farm[m]
    BY <1>2, <2>2, Builder
  <2>4. \A m \in Names \ {n} :
          farm[m] = IF m \in Owned[p] \ (todo \cup {n}) THEN Ours(p) ELSE Link
    BY <1>1, <1>3, Builder DEF Filling, Owning, Left
  <2>5. Left(p)' = todo
    BY <1>4 DEF Left
  <2> QED
    BY <1>2, <1>3, <1>4, <2>2, <2>3, <2>4, <2>5, Builder
       DEF Checked, PastCheck, Wiping, Linking, Filling, Complete, NotYet, Owning
<1>9. "own" \in Stages /\ "own" \notin InHand
  BY DEF Stages, InHand
<1> QED
  BY <1>2, <1>3, <1>6, <1>7, <1>8, <1>9, BuildStep

LEMMA StopKeeps == ASSUME IInv, NEW p \in Processes, Stop(p) PROVE IInv'
BY LeaveStep DEF Stop

\* A process that starts alone is a party of its own; one that joins others
\* makes them more than one.
LEMMA StartKeeps == ASSUME IInv, NEW p \in Processes, Start(p) PROVE IInv'
<1>1. /\ Goto(p, "verify", {}, 0) /\ proc[p].at = "off"
      /\ UNCHANGED <<site, farm, installs>>
      /\ compiled' = [compiled EXCEPT ![p] = NotCompiled]
      /\ party' = {p} \cup (IF Alone(p) THEN {} ELSE party)
  BY DEF Start
<1>2. /\ proc'[p].at = "verify" /\ proc'[p].todo = {}
      /\ \A q \in Processes \ {p} : proc'[q] = proc[q]
  BY <1>1 DEF Goto, IInv, Typed
<1>3. proc' \in [Processes -> ProcType]
  BY <1>1 DEF Goto, IInv, Typed, ProcType, Stages
<1>4. Typed'
  <2>1. starts' \in 0..MaxStarts
    BY OverlayAssumption DEF Start, IInv, Typed
  <2>2. compiled' \in [Processes -> {NotCompiled} \cup [Names -> Sources \cup Entries]]
    BY <1>1 DEF IInv, Typed
  <2> QED
    BY <1>1, <1>3, <2>1, <2>2 DEF IInv, Typed
<1>5. HandTyped'
  BY <1>2 DEF IInv, HandTyped, InHand, Owning
<1>6. PartyRuns'
  BY <1>1, <1>2 DEF IInv, PartyRuns, Alone
<1>7. AloneBuilds'
  <2> SUFFICES ASSUME NEW q \in Processes, party' = {q}
               PROVE  (Checked(q) /\ Wiping(q) /\ Linking(q) /\ Filling(q) /\ Complete(q)
                        /\ NotYet(q))'
    BY DEF AloneBuilds
  <2>1. q = p
    BY <1>1
  <2>2. compiled'[p] = NotCompiled
    BY <1>1 DEF IInv, Typed
  <2> QED
    BY <1>2, <2>1, <2>2 DEF Checked, PastCheck, Wiping, Linking, Filling, Complete, NotYet, Owning
<1> QED
  BY <1>1, <1>4, <1>5, <1>6, <1>7, SameSite DEF IInv

\* What a lone process compiles is its overlay.
LEMMA CompileKeeps == ASSUME IInv, NEW p \in Processes, Compile(p) PROVE IInv'
<1>1. /\ proc[p].at \in {"applied", "unapplied"}
      /\ UNCHANGED <<site, farm, proc, starts, installs, party>>
  BY DEF Compile
<1>2. PICK read : read = [n \in Names |-> IF proc[p].at = "applied" THEN Read(n) ELSE site[n]]
  OBVIOUS
<1>3. compiled' = [compiled EXCEPT ![p] = read]
  BY <1>2 DEF Compile
<1>4. read \in [Names -> Sources \cup Entries]
  <2>1. \A n \in Names : site[n] \in Sources /\ farm[n] \in Entries
    BY Builder
  <2> QED
    BY <1>2, <2>1 DEF Read
<1>5. Typed'
  BY <1>1, <1>3, <1>4 DEF IInv, Typed
<1>6. HandTyped' /\ PartyRuns'
  BY <1>1 DEF IInv, HandTyped, PartyRuns
<1>7. AloneBuilds'
  <2> SUFFICES ASSUME NEW q \in Processes, party' = {q}
               PROVE  (Checked(q) /\ Wiping(q) /\ Linking(q) /\ Filling(q) /\ Complete(q)
                        /\ NotYet(q))'
    BY DEF AloneBuilds
  <2>1. q = p /\ party = {p}
    BY <1>1 DEF IInv, PartyRuns
  <2>2. (Checked(p) /\ Wiping(p) /\ Linking(p) /\ Filling(p))'
    BY <1>1, <2>1, Builder DEF Checked, PastCheck, Wiping, Linking, Filling, Left, Owning
  <2>3. NotYet(p)'
    BY <1>1 DEF NotYet
  <2>4. Complete(p)'
    <3> SUFFICES ASSUME proc[p].at = "applied" PROVE Complete(p)'
      BY <1>1 DEF Complete
    <3>1. \A n \in Names : farm[n] = IF n \in Owned[p] THEN Ours(p) ELSE Link
      BY <2>1, Builder DEF Complete
    <3>2. \A n \in Names : Read(n) = IF n \in Owned[p] THEN Ours(p) ELSE site[n]
      BY <3>1, Kinds DEF Read
    <3>3. read = Overlaid(p)
      BY <1>2, <3>2 DEF Overlaid
    <3>4. compiled'[p] = read
      BY <1>3 DEF IInv, Typed
    <3>5. Overlaid(p)' = Overlaid(p)
      BY <1>1 DEF Overlaid
    <3> QED
      BY <1>1, <3>1, <3>3, <3>4, <3>5 DEF Complete
  <2> QED
    BY <2>1, <2>2, <2>3, <2>4
<1> QED
  BY <1>1, <1>5, <1>6, <1>7, SameSite DEF IInv

LEMMA InstallKeeps == ASSUME IInv, Install PROVE IInv'
<1>1. /\ \A p \in Processes : proc[p].at = "off"
      /\ UNCHANGED <<farm, proc, compiled, starts, party>>
  BY DEF Install
<1>2. PICK v \in {Pinned, Newer} : site' = [n \in Names |-> v]
  BY DEF Install
<1>3. Typed'
  <2>1. installs' \in 0..MaxInstalls
    BY OverlayAssumption DEF Install, IInv, Typed
  <2>2. site' \in [Names -> Sources]
    BY <1>2 DEF Sources
  <2> QED
    BY <1>1, <2>1, <2>2 DEF IInv, Typed
<1>4. HandTyped' /\ PartyRuns'
  BY <1>1 DEF IInv, HandTyped, PartyRuns
<1>5. AloneBuilds'
  BY <1>1 DEF AloneBuilds, Checked, PastCheck, Wiping, Linking, Filling, Complete, NotYet, Owning
<1>6. OthersUntouched'
  BY <1>2 DEF OthersUntouched
<1> QED
  BY <1>3, <1>4, <1>5, <1>6 DEF IInv

LEMMA IdleKeeps == ASSUME IInv, UNCHANGED vars PROVE IInv'
BY DEF vars, IInv, Typed, HandTyped, PartyRuns, AloneBuilds, OthersUntouched,
       Checked, PastCheck, Wiping, Linking, Filling, Left, Complete, NotYet, Overlaid

LEMMA StepHolds == ASSUME IInv, [Next]_vars PROVE IInv'
BY InstallKeeps, StartKeeps, VerifyKeeps, ListKeeps, WipeCheckKeeps, UnlinkKeeps, OwnUnlinkKeeps,
   NextPassKeeps, LinkStockKeeps, OwnCheckKeeps, CopyKeeps, CompileKeeps, StopKeeps, IdleKeeps
   DEF Next

LEMMA AlwaysIInv == Spec => []IInv
<1>1. IInv /\ [Next]_vars => IInv'
  BY StepHolds
<1> QED
  BY <1>1, InitHolds, PTL DEF Spec

-----------------------------------------------------------------------------
(* The manifest and the wheel, in any interleaving.                        *)

\* Past its check, no listed source of a process is a newer upstream one: the
\* wheel is installed while nothing runs, and a copy is never upstream's.
Unmoved ==
    \A p \in Processes : proc[p].at \in PastCheck => \A n \in Listed[p] : site[n] # Newer

\* A step after which no source is newly upstream's newer one, and only the
\* check lets a process past it.
LEMMA NothingNewer ==
    ASSUME IInv, NEW p \in Processes,
           \/ Start(p) \/ Verify(p) \/ List(p) \/ WipeCheck(p) \/ Unlink(p, "unlink", "wipe")
           \/ Unlink(p, "own-unlink", "copy") \/ NextPass(p) \/ LinkStock(p) \/ OwnCheck(p)
           \/ Copy(p) \/ Compile(p) \/ Stop(p)
    PROVE  /\ \A n \in Names : site'[n] = Newer => site[n] = Newer
           /\ \A q \in Processes \ {p} : proc'[q] = proc[q]
           /\ proc'[p].at \in PastCheck =>
                \/ proc[p].at \in PastCheck
                \/ \A n \in Listed[p] : site[n] = Pinned
<1>1. \A n \in Names : site'[n] = Newer => site[n] = Newer
  <2>1. CASE Copy(p)
    <3>1. UNCHANGED site \/ \E n : site' = [site EXCEPT ![n] = Ours(p)]
      BY <2>1 DEF Copy
    <3>2. Ours(p) # Newer
      BY DEF Ours, Newer
    <3> QED
      BY <3>1, <3>2 DEF IInv, Typed
  <2>2. CASE ~Copy(p)
    <3>1. UNCHANGED site
      BY <2>2 DEF Start, Verify, List, WipeCheck, Unlink, NextPass, LinkStock, OwnCheck, Compile, Stop
    <3> QED
      BY <3>1
  <2> QED
    BY <2>1, <2>2
<1>2. \A q \in Processes \ {p} : proc'[q] = proc[q]
  BY DEF Start, Verify, List, WipeCheck, Unlink, NextPass, LinkStock, OwnCheck, Copy, Compile, Stop,
         Fail, Goto, IInv, Typed
<1>3. CASE Verify(p)
  BY <1>1, <1>2, <1>3 DEF Verify, Goto, PastCheck, Owning, IInv, Typed
<1>4. CASE Start(p) \/ Stop(p)
  <2>1. proc'[p].at \in {"verify", "off"}
    BY <1>4 DEF Start, Stop, Goto, IInv, Typed
  <2> QED
    BY <1>1, <1>2, <2>1 DEF PastCheck, Owning
<1>5. CASE Compile(p)
  BY <1>1, <1>2, <1>5 DEF Compile
<1>6. CASE \/ List(p) \/ WipeCheck(p) \/ Unlink(p, "unlink", "wipe") \/ Unlink(p, "own-unlink", "copy")
           \/ NextPass(p) \/ LinkStock(p) \/ OwnCheck(p) \/ Copy(p)
  <2>1. proc[p].at \in PastCheck
    BY <1>6 DEF List, WipeCheck, Unlink, NextPass, LinkStock, OwnCheck, Copy, PastCheck, Owning
  <2> QED
    BY <1>1, <1>2, <2>1
<1> QED
  BY <1>3, <1>4, <1>5, <1>6

LEMMA StepUnmoved == ASSUME IInv, Unmoved, [Next]_vars PROVE Unmoved'
<1>1. \A p \in Processes : Listed[p] \subseteq Names
  BY OverlayAssumption
<1>2. CASE UNCHANGED vars
  BY <1>2 DEF Unmoved, vars
<1>3. CASE Install
  BY <1>3 DEF Install, Unmoved, PastCheck, Owning
<1>4. ASSUME NEW p \in Processes,
             \/ Start(p) \/ Verify(p) \/ List(p) \/ WipeCheck(p) \/ Unlink(p, "unlink", "wipe")
             \/ Unlink(p, "own-unlink", "copy") \/ NextPass(p) \/ LinkStock(p) \/ OwnCheck(p)
             \/ Copy(p) \/ Compile(p) \/ Stop(p)
      PROVE  Unmoved'
  <2>1. Pinned # Newer
    BY Kinds
  <2>2. /\ \A n \in Names : site'[n] = Newer => site[n] = Newer
        /\ \A q \in Processes \ {p} : proc'[q] = proc[q]
        /\ proc'[p].at \in PastCheck =>
             \/ proc[p].at \in PastCheck
             \/ \A n \in Listed[p] : site[n] = Pinned
    BY <1>4, NothingNewer
  <2> SUFFICES ASSUME NEW q \in Processes, proc'[q].at \in PastCheck, NEW n \in Listed[q]
               PROVE  site'[n] # Newer
    BY DEF Unmoved
  <2>3. site[n] # Newer
    BY <2>1, <2>2 DEF Unmoved
  <2> QED
    BY <1>1, <2>2, <2>3
<1> QED
  BY <1>2, <1>3, <1>4 DEF Next

LEMMA AlwaysUnmoved == Spec => []Unmoved
<1>1. Init => Unmoved
  BY DEF Init, Unmoved, PastCheck, Owning
<1>2. IInv /\ Unmoved /\ [Next]_vars => Unmoved'
  BY StepUnmoved
<1> QED
  BY <1>1, <1>2, AlwaysIInv, PTL DEF Spec

-----------------------------------------------------------------------------
(* Builds of one submission that race.  What the farm still lacks, some    *)
(* process of the party has yet to put there.                              *)

SameParty == \A p, q \in party : Owned[p] = Owned[q]

\* Process r has made its link of n; has put the owned n in its place; has
\* neither done that nor made sure, for its copy, that nothing is there.
Linked(r, n) ==
    \/ proc[r].at = "link" /\ n \notin proc[r].todo
    \/ proc[r].at \in Owning \cup {"applied"}
Filled(r, n) == proc[r].at = "applied" \/ (proc[r].at \in Owning /\ n \notin Left(r))
Pending(r, n) == ~Filled(r, n) /\ ~(proc[r].at = "copy" /\ proc[r].name = n)

RaceAt(p, n) ==
    /\ n \notin Owned[p] /\ farm[n] # Link => \E r \in party : ~Linked(r, n)
    /\ n \in Owned[p] /\ farm[n] = Link => \E r \in party : Pending(r, n)
    /\ n \in Owned[p] /\ farm[n] \notin {Link, Ours(p)} => \E r \in party : ~Filled(r, n)

Races == SameParty => \A p \in party, n \in Names : RaceAt(p, n)

\* A process of the party that is not building yet, or no more, will still
\* have to: nothing is claimed of the farm.
LEMMA Unbuilt ==
    ASSUME NEW q \in Processes, q \in party', proc'[q].at \notin {"link", "applied"} \cup Owning
    PROVE  Races'
BY DEF Races, RaceAt, Linked, Filled, Pending, Owning

\* Where a step of q leaves the entry of n and what q has yet to do about it.
LEMMA RaceKept ==
    ASSUME NEW p, NEW n, RaceAt(p, n), NEW q \in party, party' = party,
           \A r \in party \ {q} : proc'[r] = proc[r],
           farm'[n] = farm[n],
           n \notin Owned[p] => (Linked(q, n)' => Linked(q, n)),
           n \in Owned[p] => (Pending(q, n) => Pending(q, n)') /\ (Filled(q, n)' => Filled(q, n))
    PROVE  RaceAt(p, n)'
<1>1. \A r \in party \ {q} : /\ Linked(r, n)' <=> Linked(r, n)
                             /\ Filled(r, n)' <=> Filled(r, n)
                             /\ Pending(r, n)' <=> Pending(r, n)
  BY DEF Linked, Filled, Pending, Left
<1>2. CASE n \notin Owned[p]
  <2>1. (\E r \in party : ~Linked(r, n)) => \E r \in party' : ~Linked(r, n)'
    BY <1>1, <1>2
  <2> QED
    BY <1>2, <2>1 DEF RaceAt, Ours
<1>3. CASE n \in Owned[p]
  <2>1. (\E r \in party : Pending(r, n)) => \E r \in party' : Pending(r, n)'
    BY <1>1, <1>3
  <2>2. (\E r \in party : ~Filled(r, n)) => \E r \in party' : ~Filled(r, n)'
    BY <1>1, <1>3
  <2> QED
    BY <1>3, <2>1, <2>2 DEF RaceAt, Ours
<1> QED
  BY <1>2, <1>3

\* A step inside a build, entry by entry.
LEMMA RaceStep ==
    ASSUME IInv, Races, NEW q \in Processes, proc[q].at # "off", UNCHANGED party,
           \A r \in Processes \ {q} : proc'[r] = proc[r],
           \A p \in party, n \in Names :
             SameParty /\ Owned[p] = Owned[q] =>
               \/ RaceAt(p, n)'
               \/ /\ farm'[n] = farm[n]
                  /\ n \notin Owned[p] => (Linked(q, n)' => Linked(q, n))
                  /\ n \in Owned[p] =>
                       (Pending(q, n) => Pending(q, n)') /\ (Filled(q, n)' => Filled(q, n))
    PROVE  Races'
<1>1. q \in party /\ party \subseteq Processes
  BY DEF IInv, PartyRuns, Typed
<1> SUFFICES ASSUME SameParty, NEW p \in party, NEW n \in Names PROVE RaceAt(p, n)'
  BY DEF Races, SameParty
<1>2. RaceAt(p, n) /\ Owned[p] = Owned[q]
  BY <1>1 DEF Races, SameParty
<1>3. CASE /\ farm'[n] = farm[n]
           /\ n \notin Owned[p] => (Linked(q, n)' => Linked(q, n))
           /\ n \in Owned[p] =>
                (Pending(q, n) => Pending(q, n)') /\ (Filled(q, n)' => Filled(q, n))
  BY <1>1, <1>2, <1>3, RaceKept
<1> QED
  BY <1>2, <1>3

LEMMA NextPassRaces == ASSUME IInv, Races, NEW q \in Processes, NextPass(q) PROVE Races'
<1> USE DEF NextPass
<1>1. q \in party' /\ \A r \in Processes \ {q} : proc'[r] = proc[r]
  BY DEF IInv, PartyRuns, Typed, Goto
<1>2. CASE proc[q].at = "wipe" /\ Goto(q, "link", Names, 0)
  <2>1. proc'[q].at = "link" /\ proc'[q].todo = Names
    BY <1>2 DEF Goto, IInv, Typed
  <2> QED
    BY <1>1, <2>1 DEF Races, RaceAt, Linked, Filled, Pending, Owning
<1>3. CASE proc[q].at = "link" /\ Goto(q, "own", Owned[q], 0)
  <2>1. proc'[q].at = "own" /\ proc'[q].todo = Owned[q]
    BY <1>3 DEF Goto, IInv, Typed
  <2>2. \A n \in Names : Linked(q, n) /\ (n \in Owned[q] => ~Filled(q, n)' /\ Pending(q, n)')
    BY <1>3, <2>1 DEF Linked, Filled, Pending, Left, Owning
  <2> QED
    BY <1>1, <1>3, <2>2, RaceStep
<1>4. CASE proc[q].at = "own" /\ Goto(q, "applied", {}, 0)
  <2>1. \A n \in Names : Linked(q, n) /\ Filled(q, n) /\ ~Pending(q, n)
    BY <1>4 DEF Linked, Filled, Pending, Left, Owning
  <2> QED
    BY <1>1, <1>4, <2>1, RaceStep
<1> QED
  BY <1>2, <1>3, <1>4

LEMMA LinkStockRaces == ASSUME IInv, Races, NEW q \in Processes, LinkStock(q) PROVE Races'
<1>1. PICK m, todo : m = First(proc[q].todo) /\ todo = proc[q].todo \ {m}
  OBVIOUS
<1>2. m \in proc[q].todo /\ m \in Names /\ proc[q].at = "link" /\ UNCHANGED party /\ q \in party
  BY <1>1, Builder, FirstIsOne DEF LinkStock, IInv, PartyRuns
<1>3. CASE farm[m] # Nothing
  <2>1. proc'[q].at = "unapplied"
    BY <1>1, <1>3 DEF LinkStock, Fail, Goto, IInv, Typed
  <2> QED
    BY <1>2, <2>1, Unbuilt DEF Owning
<1>4. CASE farm[m] = Nothing
  <2>1. /\ farm' = [farm EXCEPT ![m] = Link]
        /\ proc'[q].at = "link" /\ proc'[q].todo = todo
        /\ \A r \in Processes \ {q} : proc'[r] = proc[r]
    BY <1>1, <1>4 DEF LinkStock, Goto, IInv, Typed
  <2>2. farm'[m] = Link /\ \A n \in Names \ {m} : farm'[n] = farm[n]
    BY <1>2, <2>1, Builder
  <2>3. \A n : Pending(q, n)' /\ ~Filled(q, n)'
    BY <2>1 DEF Pending, Filled, Owning
  <2>4. \A n \in Names \ {m} : Linked(q, n)' <=> Linked(q, n)
    BY <1>1, <1>2, <2>1 DEF Linked
  <2>5. \A p \in party : RaceAt(p, m)'
    BY <1>2, <2>2, <2>3 DEF RaceAt
  <2> QED
    BY <1>2, <2>1, <2>2, <2>3, <2>4, <2>5, RaceStep
<1> QED
  BY <1>3, <1>4

LEMMA OwnCheckRaces == ASSUME IInv, Races, NEW q \in Processes, OwnCheck(q) PROVE Races'
<1>1. PICK m, todo, at : /\ m = First(proc[q].todo) /\ todo = proc[q].todo \ {m}
                         /\ at = IF farm[m] = Nothing THEN "copy" ELSE "own-unlink"
  OBVIOUS
<1>2. /\ Goto(q, at, todo, m) /\ proc[q].at = "own"
      /\ UNCHANGED <<farm, party>>
  BY <1>1 DEF OwnCheck, Goto
<1>3. m \in proc[q].todo /\ m \in Names /\ at \in {"copy", "own-unlink"}
  BY <1>1, Builder, FirstIsOne DEF OwnCheck
<1>4. proc'[q].at = at /\ proc'[q].todo = todo /\ proc'[q].name = m
      /\ \A r \in Processes \ {q} : proc'[r] = proc[r]
  BY <1>2 DEF Goto, IInv, Typed
<1>5. Left(q)' = Left(q)
  BY <1>1, <1>2, <1>3, <1>4 DEF Left
<1>6. \A n : (Linked(q, n)' <=> Linked(q, n)) /\ (Filled(q, n)' <=> Filled(q, n))
  BY <1>2, <1>3, <1>4, <1>5 DEF Linked, Filled, Owning
<1>7. \A n : n # m => (Pending(q, n) => Pending(q, n)')
  BY <1>2, <1>3, <1>4, <1>6 DEF Pending
<1>8. at # "copy" => \A n : Pending(q, n) => Pending(q, n)'
  BY <1>4, <1>6 DEF Pending
<1>9. ASSUME at = "copy", NEW p \in party, SameParty, Owned[p] = Owned[q] PROVE RaceAt(p, m)'
  <2>1. farm[m] = Nothing /\ q \in party /\ m \in Owned[p]
    BY <1>1, <1>2, <1>3, <1>9 DEF IInv, PartyRuns, HandTyped, Owning
  <2>2. ~Filled(q, m)'
    BY <1>2, <1>3, <1>5, <1>6 DEF Filled, Left
  <2> QED
    BY <1>2, <2>1, <2>2, Kinds DEF RaceAt
<1>10. proc[q].at # "off"
  BY <1>2
<1> QED
  BY <1>2, <1>4, <1>6, <1>7, <1>8, <1>9, <1>10, RaceStep

LEMMA OwnUnlinkRaces ==
    ASSUME IInv, Races, NEW q \in Processes, Unlink(q, "own-unlink", "copy") PROVE Races'
<1>1. PICK m, todo : m = proc[q].name /\ todo = proc[q].todo
  OBVIOUS
<1>2. m \in Names /\ m \in Owned[q] /\ q \in party /\ UNCHANGED party /\ proc[q].at = "own-unlink"
  BY <1>1 DEF Unlink, IInv, HandTyped, PartyRuns, InHand, Owning
<1>3. CASE farm[m] = Nothing
  <2>1. proc'[q].at = "unapplied"
    BY <1>1, <1>3 DEF Unlink, Fail, Goto, IInv, Typed
  <2> QED
    BY <1>2, <2>1, Unbuilt DEF Owning
<1>4. CASE farm[m] # Nothing
  <2>1. /\ farm' = [farm EXCEPT ![m] = Nothing]
        /\ proc'[q].at = "copy" /\ proc'[q].todo = todo /\ proc'[q].name = m
        /\ \A r \in Processes \ {q} : proc'[r] = proc[r]
    BY <1>1, <1>4 DEF Unlink, Goto, IInv, Typed
  <2>2. farm'[m] = Nothing /\ \A n \in Names \ {m} : farm'[n] = farm[n]
    BY <1>2, <2>1, Builder
  <2>3. Left(q)' = Left(q) /\ m \in Left(q)
    BY <1>1, <1>2, <2>1 DEF Left
  <2>4. \A n : (Linked(q, n)' <=> Linked(q, n)) /\ (Filled(q, n)' <=> Filled(q, n))
    BY <1>2, <2>1, <2>3 DEF Linked, Filled, Owning
  <2>5. \A n : n # m => (Pending(q, n) => Pending(q, n)')
    BY <2>1, <2>4 DEF Pending
  <2>6. ASSUME NEW p \in party, Owned[p] = Owned[q] PROVE RaceAt(p, m)'
    <3>1. ~Filled(q, m)'
      BY <1>2, <2>3, <2>4 DEF Filled
    <3> QED
      BY <1>2, <2>2, <2>6, <3>1, Kinds DEF RaceAt
  <2>7. proc[q].at # "off"
    BY <1>2
  <2> QED
    BY <1>2, <2>1, <2>2, <2>4, <2>5, <2>6, <2>7, RaceStep
<1> QED
  BY <1>3, <1>4

\* What q copies through a link, another has yet to unlink.
LEMMA CopyRaces == ASSUME IInv, Races, NEW q \in Processes, Copy(q) PROVE Races'
<1>1. PICK m, todo : m = proc[q].name /\ todo = proc[q].todo
  OBVIOUS
<1>2. /\ m \in Names /\ m \in Owned[q] /\ m \notin todo
      /\ q \in party /\ UNCHANGED party /\ proc[q].at = "copy"
  BY <1>1 DEF Copy, IInv, HandTyped, PartyRuns, InHand, Owning
<1>3. proc'[q].at = "own" /\ proc'[q].todo = todo
      /\ \A r \in Processes \ {q} : proc'[r] = proc[r]
  BY <1>1 DEF Copy, Goto, IInv, Typed
<1>4. \/ farm[m] # Link /\ farm' = [farm EXCEPT ![m] = Ours(q)]
      \/ farm[m] = Link /\ UNCHANGED farm
  BY <1>1 DEF Copy
<1>5. Left(q) = todo \cup {m} /\ Left(q)' = todo
  BY <1>1, <1>2, <1>3 DEF Left
<1>6. \A n : n # m => /\ Linked(q, n)' <=> Linked(q, n)
                      /\ Filled(q, n)' <=> Filled(q, n)
                      /\ Pending(q, n) => Pending(q, n)'
  BY <1>1, <1>2, <1>3, <1>5 DEF Linked, Filled, Pending, Owning
<1>7. \A n \in Names \ {m} : farm'[n] = farm[n]
  BY <1>2, <1>4, Builder
<1>8. ASSUME NEW p \in party, SameParty, Owned[p] = Owned[q] PROVE RaceAt(p, m)'
  <2>1. CASE farm[m] # Link
    <3>1. farm'[m] = Ours(p)
      BY <1>2, <1>4, <1>8, <2>1, Builder DEF Ours
    <3>2. Ours(p)' = Ours(p)
      BY DEF Ours
    <3> QED
      BY <1>2, <1>8, <3>1, <3>2, Kinds DEF RaceAt
  <2>2. CASE farm[m] = Link
    <3>1. PICK r \in party : Pending(r, m)
      BY <1>2, <1>8, <2>2 DEF Races, RaceAt
    <3>2. r # q /\ r \in Processes
      BY <1>1, <1>2, <3>1 DEF Pending, IInv, Typed
    <3>3. Pending(r, m)'
      BY <1>3, <3>1, <3>2 DEF Pending, Filled, Left
    <3> QED
      BY <1>2, <1>4, <1>8, <2>2, <3>3 DEF RaceAt
  <2> QED
    BY <2>1, <2>2
<1>9. proc[q].at # "off"
  BY <1>2
<1> QED
  BY <1>2, <1>3, <1>6, <1>7, <1>8, <1>9, RaceStep

\* Steps after which their process has its build before it, or none at all.
LEMMA OutsideRaces ==
    ASSUME IInv, NEW q \in Processes,
           \/ Start(q) \/ Verify(q) \/ List(q) \/ WipeCheck(q) \/ Stop(q)
           \/ Unlink(q, "unlink", "wipe")
    PROVE  Races'
<1>1. q \in party'
  BY DEF Start, Verify, List, WipeCheck, Stop, Unlink, IInv, PartyRuns
<1>2. proc'[q].at \in {"verify", "list", "wipe", "unlink", "off", "unapplied"}
  BY DEF Start, Verify, List, WipeCheck, Stop, Unlink, Fail, Goto, IInv, Typed
<1> QED
  BY <1>1, <1>2, Unbuilt DEF Owning

LEMMA StepRaces == ASSUME IInv, Races, [Next]_vars PROVE Races'
<1>1. ASSUME NEW q \in Processes, NextPass(q) \/ LinkStock(q) \/ OwnCheck(q) \/ Copy(q)
                                  \/ Unlink(q, "own-unlink", "copy")
      PROVE  Races'
  BY <1>1, NextPassRaces, LinkStockRaces, OwnCheckRaces, CopyRaces, OwnUnlinkRaces
<1>2. CASE Install \/ UNCHANGED vars \/ \E q \in Processes : Compile(q)
  <2>1. UNCHANGED <<farm, proc, party>>
    BY <1>2 DEF Install, Compile, vars
  <2> QED
    BY <2>1 DEF Races, SameParty, RaceAt, Linked, Filled, Pending, Left, Ours
<1> QED
  BY <1>1, <1>2, OutsideRaces DEF Next

LEMMA AlwaysRaces == Spec => []Races
<1>1. Init => Races
  BY DEF Init, Races
<1>2. IInv /\ Races /\ [Next]_vars => Races'
  BY StepRaces
<1> QED
  BY <1>1, <1>2, AlwaysIInv, PTL DEF Spec

-----------------------------------------------------------------------------
(* The theorems.                                                           *)

\* Every reachable state is well typed: the farm never holds anything but
\* links and owned files, and what a process compiled has every source.
THEOREM TypeCorrect == Spec => []TypeOK
<1>1. IInv => TypeOK
  <2> SUFFICES ASSUME IInv PROVE TypeOK
    OBVIOUS
  <2>1. \A p \in Processes : /\ proc[p].at \in Stages /\ proc[p].todo \subseteq Names
                             /\ compiled[p] # NotCompiled => DOMAIN compiled[p] = Names
    BY DEF IInv, Typed, ProcType
  <2> QED
    BY <2>1 DEF IInv, Typed, Entries, TypeOK
<1> QED
  BY <1>1, AlwaysIInv, PTL

\* build_overlay rebuilds the farm from whatever is there (overlay.py:98-119):
\* a build that nobody disturbs yields its overlay, and its process compiles it.
THEOREM LoneBuildsAreRight == Spec => []AppliedIsOverlay
<1>1. IInv => AppliedIsOverlay
  <2> SUFFICES ASSUME IInv, NEW p \in Processes, proc[p].at = "applied", party = {p}
               PROVE  /\ \A n \in Names : Read(n) = Overlaid(p)[n]
                      /\ compiled[p] # NotCompiled => compiled[p] = Overlaid(p)
    BY DEF AppliedIsOverlay
  <2>1. Complete(p)
    BY Builder
  <2>2. \A n \in Names : Read(n) = IF n \in Owned[p] THEN Ours(p) ELSE site[n]
    BY <2>1, Kinds DEF Complete, Read
  <2> QED
    BY <2>1, <2>2 DEF Complete, Overlaid
<1> QED
  BY <1>1, AlwaysIInv, PTL

\* build_overlay checks the files of its manifest once, if it has one
\* (overlay.py:74-96); when its overlay is applied, however builds raced, none
\* of those files has a newer upstream version, and after a lone build they
\* are all still the pinned ones.
THEOREM ListedRevertNothing == Spec => []NeverRevertsUpstream
<1>1. IInv /\ Unmoved => NeverRevertsUpstream
  BY DEF IInv, AloneBuilds, Checked, Unmoved, PastCheck, NeverRevertsUpstream
<1> QED
  BY <1>1, AlwaysIInv, AlwaysUnmoved, PTL

\* Even where copy2 follows a link that another build has made
\* (overlay.py:106-119), it writes a name some submission owns.
THEOREM OthersStay == Spec => []OthersUntouched
<1>1. IInv => OthersUntouched
  BY DEF IInv
<1> QED
  BY <1>1, AlwaysIInv, PTL

\* Processes of one submission build the same farm at the same time, with no
\* lock (overlay.py:98-119), and step on each other's files; where every one of
\* them comes through, what they leave is the overlay of all of them.
THEOREM RacesAgree == Spec => []RacesThatSucceedAgree
<1>1. Races => RacesThatSucceedAgree
  <2> SUFFICES ASSUME Races, \A p, q \in party : Owned[p] = Owned[q] /\ proc[p].at = "applied",
                      NEW p \in party, NEW n \in Names
               PROVE  farm[n] = IF n \in Owned[p] THEN Ours(p) ELSE Link
    BY DEF RacesThatSucceedAgree
  <2>1. RaceAt(p, n)
    BY DEF Races, SameParty
  <2>2. \A r \in party : Linked(r, n) /\ Filled(r, n) /\ ~Pending(r, n)
    BY DEF Linked, Filled, Pending
  <2> QED
    BY <2>1, <2>2 DEF RaceAt
<1> QED
  BY <1>1, AlwaysRaces, PTL
=============================================================================
