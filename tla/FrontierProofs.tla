--------------------------- MODULE FrontierProofs ---------------------------
(***************************************************************************)
(* Proofs about Frontier, for any set of commands, any records and ratios, *)
(* and any bounds: typing, that a leaderboard that parses is one           *)
(* consistent chain whose points add up to its headline, whatever the      *)
(* interleaving and whoever dies, and that commands which run one after    *)
(* another lose nothing and keep the promise of PromotionChain.            *)
(***************************************************************************)
EXTENDS Frontier, WellFoundedInduction, TLAPS

\* Rounding a natural product stays a natural number.
LEMMA RoundDivNat ==
    ASSUME NEW a \in Nat, NEW b \in Nat \ {0}
    PROVE  RoundDiv(a, b) \in Nat
<1>1. a \div b \in Nat
  OBVIOUS
<1> QED
  BY <1>1 DEF RoundDiv

\* ... and rounding a difference stays an integer.
LEMMA RoundDivInt ==
    ASSUME NEW a \in Int, NEW b \in Nat \ {0}
    PROVE  RoundDiv(a, b) \in Int
  BY DEF RoundDiv

\* Products of naturals, kept apart from the larger goals they occur in.
LEMMA ProductNat ==
    ASSUME NEW a \in Nat, NEW b \in Nat
    PROVE  a * b \in Nat
  OBVIOUS

\* A product with a positive factor is positive: GRID * PCT divides.
LEMMA ProductPositive ==
    ASSUME NEW a \in Nat \ {0}, NEW b \in Nat \ {0}
    PROVE  a * b \in Nat \ {0}
  OBVIOUS

\* The empty board is a board, and an empty chain is consistent.
LEMMA EmptyBoardGood ==
    ASSUME NEW o \in Nat
    PROVE  EmptyBoard(o) \in Board /\ WellFormed(EmptyBoard(o))
<1>1. EmptyBoard(o) \in Board
  BY GridAssumption DEF EmptyBoard, Board
<1>2. WellFormed(EmptyBoard(o))
  BY GridAssumption DEF WellFormed, EmptyBoard, Before
<1> QED
  BY <1>1, <1>2

\* The entry cmd_promote builds is an entry.
LEMMA NextPromotionType ==
    ASSUME NEW b \in Board, NEW rec \in Records
    PROVE  NextPromotion(b, rec) \in Promotion
<1> DEFINE decode == b.current.decode * DecodeSpeedup[rec]
           prefill == b.current.prefill * PrefillSpeedup[rec]
<1>1. /\ b.current.decode \in Nat /\ b.current.prefill \in Nat
      /\ Len(b.promotions) + 1 \in Nat
  BY DEF Board
<1>2. DecodeSpeedup[rec] \in Nat /\ PrefillSpeedup[rec] \in Nat
  BY SpeedupAssumption
<1>3. decode \in Nat /\ prefill \in Nat /\ b.current.decode * GRID \in Nat
  BY <1>1, <1>2, GridAssumption, ProductNat
<1>4. GRID * GRID \in Nat /\ GRID * PCT \in Nat \ {0} /\ GRID \in Nat \ {0}
  BY GridAssumption, ProductPositive
<1> HIDE DEF decode, prefill
<1>5. /\ RoundDiv(decode, GRID) \in Nat
      /\ RoundDiv(prefill, GRID) \in Nat
  BY <1>3, <1>4, RoundDivNat
<1>6. /\ decode - GRID * GRID \in Int
      /\ decode - b.current.decode * GRID \in Int
  BY <1>3, <1>4
<1>7. /\ RoundDiv(decode - GRID * GRID, GRID * PCT) \in Int
      /\ RoundDiv(decode - b.current.decode * GRID, GRID * PCT) \in Int
  BY <1>4, <1>6, RoundDivInt
<1> QED
  BY <1>1, <1>5, <1>7 DEF NextPromotion, Added, Promotion, decode, prefill

\* Appending one entry to a consistent chain gives a consistent chain.
LEMMA ExtendGood ==
    ASSUME NEW b \in Board, WellFormed(b), NEW rec \in Records
    PROVE  Extend(b, rec) \in Board /\ WellFormed(Extend(b, rec))
<1> DEFINE p == NextPromotion(b, rec)
           n == Len(b.promotions)
           e == Extend(b, rec)
<1>1. p \in Promotion
  BY NextPromotionType
<1>2. b.promotions \in Seq(Promotion) /\ n \in Nat
  BY DEF Board
<1>3. /\ e.promotions = Append(b.promotions, p)
      /\ e.current = [decode |-> p.decode, prefill |-> p.prefill, count |-> p.seq]
      /\ e.origin = b.origin
  BY DEF Extend, Board
<1>4. e \in Board
  <2>1. p.decode \in Nat /\ p.prefill \in Nat /\ p.seq \in Nat
    BY <1>1 DEF Promotion
  <2>2. Append(b.promotions, p) \in Seq(Promotion)
    BY <1>1, <1>2
  <2> HIDE DEF p
  <2>3. e = [origin |-> b.origin,
             promotions |-> Append(b.promotions, p),
             current |-> [decode |-> p.decode, prefill |-> p.prefill, count |-> p.seq]]
    BY DEF Extend, p
  <2>4. b.origin \in Nat
    BY DEF Board
  <2> HIDE DEF e
  <2> QED
    BY <2>1, <2>2, <2>3, <2>4 DEF Board
<1>5. /\ Len(e.promotions) = n + 1
      /\ e.promotions[n + 1] = p
      /\ \A i \in 1..n : e.promotions[i] = b.promotions[i]
  BY <1>1, <1>2, <1>3
<1>6. /\ p.seq = n + 1
      /\ p.record = rec
      /\ p.decode = RoundDiv(b.current.decode * DecodeSpeedup[rec], GRID)
      /\ p.prefill = RoundDiv(b.current.prefill * PrefillSpeedup[rec], GRID)
  BY DEF NextPromotion
<1> HIDE DEF p, n, e
<1>7. \A i \in 1..(n + 1) : Before(e, i) = Before(b, i)
  BY <1>2, <1>5 DEF Before
<1>8. Before(e, n + 2) = [decode |-> p.decode, prefill |-> p.prefill]
  BY <1>2, <1>5 DEF Before
<1>9. Before(b, n + 1) = [decode |-> b.current.decode, prefill |-> b.current.prefill]
  <2>1. LET end == Before(b, n + 1)
        IN  b.current = [decode |-> end.decode, prefill |-> end.prefill, count |-> n]
    BY DEF WellFormed, n
  <2>2. Before(b, n + 1).decode = b.current.decode
        /\ Before(b, n + 1).prefill = b.current.prefill
    BY <2>1
  <2> QED
    BY <2>2 DEF Before
<1>10. e.current = [decode |-> Before(e, n + 2).decode,
                    prefill |-> Before(e, n + 2).prefill, count |-> n + 1]
  BY <1>3, <1>6, <1>8
<1>11. ASSUME NEW i \in 1..(n + 1)
       PROVE  /\ e.promotions[i].seq = i
              /\ e.promotions[i].decode =
                   RoundDiv(Before(e, i).decode * DecodeSpeedup[e.promotions[i].record], GRID)
              /\ e.promotions[i].prefill =
                   RoundDiv(Before(e, i).prefill * PrefillSpeedup[e.promotions[i].record], GRID)
  <2>1. CASE i = n + 1
    BY <1>5, <1>6, <1>7, <1>9, <2>1
  <2>2. CASE i # n + 1
    <3>1. i \in 1..n
      BY <1>2, <2>2
    <3>2. /\ b.promotions[i].seq = i
          /\ b.promotions[i].decode =
               RoundDiv(Before(b, i).decode * DecodeSpeedup[b.promotions[i].record], GRID)
          /\ b.promotions[i].prefill =
               RoundDiv(Before(b, i).prefill * PrefillSpeedup[b.promotions[i].record], GRID)
      BY <3>1 DEF WellFormed, n
    <3> QED
      BY <1>5, <1>7, <3>1, <3>2
  <2> QED
    BY <2>1, <2>2
<1>12. n + 2 = (n + 1) + 1
  BY <1>2
<1>13. WellFormed(e)
  BY <1>5, <1>10, <1>11, <1>12 DEF WellFormed
<1> QED
  BY <1>4, <1>13 DEF e

-----------------------------------------------------------------------------
(* Typing and consistency.  Neither is inductive alone: what Fill puts in  *)
(* the file is what some command has carried in memory since it loaded.    *)

PromoteHasEntry ==
    \A c \in Commands :
        pc[c] \in {"built", "opened"} => mem[c].promotions # << >>

Carried == \A c \in Commands : WellFormed(mem[c])

IInv == TypeOK /\ ChainConsistent /\ Carried /\ PromoteHasEntry

\* What load_leaderboard returns is a consistent board.
LEMMA LoadedGood ==
    ASSUME TypeOK, ChainConsistent, CanLoad
    PROVE  Loaded \in Board /\ WellFormed(Loaded)
<1>1. CASE file.state = "good"
  <2>1. file.board \in Board
    BY <1>1 DEF TypeOK, Files
  <2> QED
    BY <1>1, <2>1 DEF Loaded, ChainConsistent
<1>2. CASE file.state # "good"
  <2>1. baseline \in Nat
    BY BoundAssumption DEF TypeOK
  <2> QED
    BY <1>2, <2>1, EmptyBoardGood DEF Loaded
<1> QED
  BY <1>1, <1>2

\* Appending an entry leaves a board with at least one.
LEMMA ExtendHasEntry ==
    ASSUME NEW b \in Board, NEW rec \in Records
    PROVE  /\ Extend(b, rec).promotions = Append(b.promotions, NextPromotion(b, rec))
           /\ Extend(b, rec).promotions # << >>
<1>1. Extend(b, rec).promotions = Append(b.promotions, NextPromotion(b, rec))
  BY DEF Extend, Board
<1>2. b.promotions \in Seq(Promotion)
  BY DEF Board
<1>3. Append(b.promotions, NextPromotion(b, rec)) # << >>
  BY <1>2, NextPromotionType
<1> QED
  BY <1>1, <1>3

\* A command that starts takes a consistent document into memory.
LEMMA StartKeepsIInv ==
    ASSUME IInv, NEW c \in Commands, NEW place \in Places, NEW doc \in Board,
           WellFormed(doc), place \in {"built", "opened"} => doc.promotions # << >>,
           Start(c, place, doc)
    PROVE  IInv'
<1> USE DEF IInv
<1>1. TypeOK'
  BY DEF TypeOK, Start, InFlight
<1>2. ChainConsistent'
  BY DEF ChainConsistent, Start
<1>3. Carried' /\ PromoteHasEntry'
  BY DEF Carried, PromoteHasEntry, Start, TypeOK
<1> QED
  BY <1>1, <1>2, <1>3

\* The inductive invariant holds before the first command.
LEMMA IInvInit == Init => IInv
<1> SUFFICES ASSUME Init PROVE IInv
  OBVIOUS
<1>1. EmptyBoard(0) \in Board /\ WellFormed(EmptyBoard(0))
  BY EmptyBoardGood
<1>2. TypeOK
  <2>1. file \in Files
    BY DEF Init, Files, Absent
  <2>2. pc \in [Commands -> Places] /\ mem \in [Commands -> Board]
    BY <1>1 DEF Init, Places
  <2>3. announced \in Seq(Promotion)
    BY DEF Init
  <2>4. baseline \in 0..MaxBaselines /\ crashes \in 0..MaxCrashes
    BY BoundAssumption DEF Init
  <2>5. overlapped \in BOOLEAN
    BY DEF Init
  <2> QED
    BY <2>1, <2>2, <2>3, <2>4, <2>5 DEF TypeOK
<1>3. ChainConsistent
  BY DEF Init, ChainConsistent, Absent
<1>4. Carried /\ PromoteHasEntry
  BY <1>1 DEF Init, Carried, PromoteHasEntry
<1> QED
  BY <1>2, <1>3, <1>4 DEF IInv

\* Every step of a promote, an init, a baseline or a crash preserves the
\* inductive invariant.
LEMMA IInvNext == IInv /\ [Next]_vars => IInv'
<1> SUFFICES ASSUME IInv, [Next]_vars PROVE IInv'
  OBVIOUS
<1> USE DEF IInv
<1>1. CASE Rebaseline
  <2>1. TypeOK'
    BY <1>1, BoundAssumption DEF Rebaseline, TypeOK
  <2>2. ChainConsistent' /\ Carried' /\ PromoteHasEntry'
    BY <1>1 DEF Rebaseline, ChainConsistent, Carried, PromoteHasEntry
  <2> QED
    BY <2>1, <2>2
<1>2. ASSUME NEW c \in Commands, NEW rec \in Records, StartPromote(c, rec)
      PROVE  IInv'
  <2>1. Loaded \in Board /\ WellFormed(Loaded)
    BY <1>2, LoadedGood DEF StartPromote
  <2>2. Extend(Loaded, rec) \in Board /\ WellFormed(Extend(Loaded, rec))
    BY <2>1, ExtendGood
  <2>3. Extend(Loaded, rec).promotions # << >>
    BY <2>1, ExtendHasEntry
  <2> QED
    BY <1>2, <2>2, <2>3, StartKeepsIInv DEF StartPromote, Places
<1>3. ASSUME NEW c \in Commands, StartInit(c)
      PROVE  IInv'
  <2>1. Loaded \in Board /\ WellFormed(Loaded)
    BY <1>3, LoadedGood DEF StartInit
  <2> QED
    BY <1>3, <2>1, StartKeepsIInv DEF StartInit, Places
<1>4. ASSUME NEW c \in Commands, CheckAbsent(c)
      PROVE  IInv'
  <2>1. TypeOK'
    BY <1>4 DEF CheckAbsent, TypeOK, Places
  <2>2. ChainConsistent' /\ Carried' /\ PromoteHasEntry'
    BY <1>4 DEF CheckAbsent, ChainConsistent, Carried, PromoteHasEntry, TypeOK
  <2> QED
    BY <2>1, <2>2
<1>5. ASSUME NEW c \in Commands, Truncate(c)
      PROVE  IInv'
  <2>1. TypeOK'
    BY <1>5 DEF Truncate, TypeOK, Places, Files, Torn
  <2>2. ChainConsistent'
    BY <1>5 DEF Truncate, ChainConsistent, Torn
  <2>3. Carried' /\ PromoteHasEntry'
    BY <1>5 DEF Truncate, Carried, PromoteHasEntry, TypeOK
  <2> QED
    BY <2>1, <2>2, <2>3
<1>6. ASSUME NEW c \in Commands, Fill(c)
      PROVE  IInv'
  <2>1. mem[c] \in Board /\ WellFormed(mem[c])
    BY DEF TypeOK, Carried
  <2>2. file' \in Files
    BY <1>6, <2>1 DEF Fill, Files, Good, Torn
  <2>3. announced' \in Seq(Promotion)
    <3>1. CASE pc[c] = "opened"
      <4>1. mem[c].promotions \in Seq(Promotion) /\ mem[c].promotions # << >>
        BY <2>1, <3>1 DEF PromoteHasEntry, Board
      <4>2. mem[c].promotions[Len(mem[c].promotions)] \in Promotion
        BY <4>1
      <4> QED
        BY <1>6, <3>1, <4>2 DEF Fill, TypeOK
    <3>2. CASE pc[c] # "opened"
      BY <1>6, <3>2 DEF Fill, TypeOK
    <3> QED
      BY <3>1, <3>2
  <2>4. TypeOK'
    BY <1>6, <2>2, <2>3 DEF Fill, TypeOK, Places
  <2>5. ChainConsistent'
    BY <1>6, <2>1 DEF Fill, ChainConsistent, Good, Torn
  <2>6. Carried' /\ PromoteHasEntry'
    BY <1>6 DEF Fill, Carried, PromoteHasEntry, TypeOK
  <2> QED
    BY <2>4, <2>5, <2>6
<1>7. ASSUME NEW c \in Commands, Crash(c)
      PROVE  IInv'
  <2>1. TypeOK'
    BY <1>7, BoundAssumption DEF Crash, TypeOK, Places
  <2>2. ChainConsistent' /\ Carried' /\ PromoteHasEntry'
    BY <1>7 DEF Crash, ChainConsistent, Carried, PromoteHasEntry, TypeOK
  <2> QED
    BY <2>1, <2>2
<1>8. CASE UNCHANGED vars
  BY <1>8 DEF vars, TypeOK, ChainConsistent, Carried, PromoteHasEntry
<1> QED
  BY <1>1, <1>2, <1>3, <1>4, <1>5, <1>6, <1>7, <1>8 DEF Next

\* Every variable of Frontier keeps its type in every behaviour.
THEOREM TypeCorrect == Spec => []TypeOK
<1>1. Init => IInv
  BY IInvInit
<1>2. IInv /\ [Next]_vars => IInv'
  BY IInvNext
<1>3. IInv => TypeOK
  BY DEF IInv
<1> QED
  BY <1>1, <1>2, <1>3, PTL DEF Spec

\* A leaderboard.json that parses is one consistent chain, for any number of
\* concurrent promotes and inits and any crashes among them
\* (arena.py:1496-1580 rewrites the whole document from one load).
THEOREM ReadableBoardsAreConsistent == Spec => []ChainConsistent
<1>1. Init => IInv
  BY IInvInit
<1>2. IInv /\ [Next]_vars => IInv'
  BY IInvNext
<1>3. IInv => ChainConsistent
  BY DEF IInv
<1> QED
  BY <1>1, <1>2, <1>3, PTL DEF Spec

-----------------------------------------------------------------------------
(* Serial commands.  While no two commands have overlapped and none has    *)
(* died, the only command in flight stands for one promotion (or for an    *)
(* init of an absent file) on top of everything announced so far.          *)

Settled ==
    /\ file # Torn
    /\ file = Absent => announced = << >>
    /\ file.state = "good" => file.board.promotions = announced

AddsOne(c) == \E p \in Promotion : mem[c].promotions = Append(announced, p)

Founds(c) == announced = << >> /\ mem[c].promotions = << >>

SerialInv ==
    ~overlapped /\ crashes = 0 =>
        /\ \A c \in InFlight, d \in InFlight : c = d
        /\ \A c \in Commands :
             /\ pc[c] = "built" => Settled /\ AddsOne(c)
             /\ pc[c] \in {"found-absent", "init-built"} => file = Absent /\ Founds(c)
             /\ pc[c] = "opened" => file = Torn /\ AddsOne(c)
             /\ pc[c] = "init-opened" => file = Torn /\ Founds(c)
        /\ InFlight = {} => Settled

\* The document of a promote holds what was announced and one entry more.
LEMMA AppendLast ==
    ASSUME NEW s \in Seq(Promotion), NEW p \in Promotion
    PROVE  /\ Append(s, p)[Len(Append(s, p))] = p
           /\ Append(s, p) # << >>
  OBVIOUS

\* A command that starts alone on a settled file, with that file's chain.
LEMMA SerialStart ==
    ASSUME IInv, SerialInv, NEW c \in Commands, NEW place, NEW doc,
           Start(c, place, doc), CanLoad,
           \/ /\ place = "built"
              /\ \E p \in Promotion : doc.promotions = Append(Loaded.promotions, p)
           \/ /\ place = "found-absent" /\ file = Absent
              /\ doc.promotions = << >>
    PROVE  SerialInv'
<1> SUFFICES ASSUME ~overlapped', crashes' = 0
             PROVE  /\ \A a \in InFlight', d \in InFlight' : a = d
                    /\ \A a \in Commands :
                         /\ pc'[a] = "built" => Settled' /\ AddsOne(a)'
                         /\ pc'[a] \in {"found-absent", "init-built"} => file' = Absent /\ Founds(a)'
                         /\ pc'[a] = "opened" => file' = Torn /\ AddsOne(a)'
                         /\ pc'[a] = "init-opened" => file' = Torn /\ Founds(a)'
                    /\ InFlight' = {} => Settled'
  BY DEF SerialInv, Torn, Absent
<1>1. ~overlapped /\ crashes = 0 /\ InFlight = {}
  BY DEF Start
<1>2. Settled /\ Settled'
  BY <1>1 DEF SerialInv, Settled, Start, Torn, Absent
<1>3. \A a \in Commands : pc[a] = "idle"
  BY <1>1 DEF InFlight
<1>4. pc \in [Commands -> Places] /\ mem \in [Commands -> Board]
  BY DEF IInv, TypeOK
<1>5. \A a \in Commands : pc'[a] = IF a = c THEN place ELSE "idle"
  BY <1>3, <1>4 DEF Start
<1>6. mem'[c] = doc /\ announced' = announced /\ file' = file
  BY <1>4 DEF Start
<1>7. \A a \in InFlight', d \in InFlight' : a = d
  BY <1>5 DEF InFlight
<1>8. Loaded.promotions = announced
  BY <1>2 DEF Settled, Loaded, CanLoad, EmptyBoard, Absent
<1>9. CASE place = "built"
  <2>1. AddsOne(c)'
    BY <1>6, <1>8, <1>9 DEF AddsOne
  <2> QED
    BY <1>2, <1>5, <1>7, <1>9, <2>1
<1>10. CASE place = "found-absent"
  <2>1. file = Absent /\ doc.promotions = << >>
    BY <1>10
  <2>2. announced = << >>
    BY <1>2, <2>1 DEF Settled
  <2>3. Founds(c)' /\ file' = Absent
    BY <1>6, <2>1, <2>2 DEF Founds
  <2> QED
    BY <1>2, <1>5, <1>7, <1>10, <2>3
<1> QED
  BY <1>9, <1>10

\* A step of the only command in flight, to a place it stays in flight at.
LEMMA SerialMove ==
    ASSUME IInv, SerialInv, NEW c \in Commands, pc[c] # "idle",
           NEW place \in Places \ {"idle"},
           pc' = [pc EXCEPT ![c] = place],
           UNCHANGED <<mem, announced, overlapped, crashes>>,
           ~overlapped /\ crashes = 0 =>
             \/ place = "init-built" /\ pc[c] = "found-absent" /\ file' = file
             \/ place = "opened" /\ pc[c] = "built" /\ file' = Torn
             \/ place = "init-opened" /\ pc[c] = "init-built" /\ file' = Torn
    PROVE  SerialInv'
<1> SUFFICES ASSUME ~overlapped, crashes = 0 PROVE SerialInv'
  BY DEF SerialInv
<1>1. pc \in [Commands -> Places]
  BY DEF IInv, TypeOK
<1>2. c \in InFlight /\ \A d \in InFlight : d = c
  BY DEF SerialInv, InFlight
<1>3. \A d \in Commands : pc'[d] = IF d = c THEN place ELSE "idle"
  BY <1>1, <1>2 DEF InFlight
<1>4. InFlight' = {c}
  BY <1>3 DEF InFlight
<1>5. /\ place \in {"init-built", "init-opened"} => Founds(c)'
      /\ place = "opened" => AddsOne(c)'
  BY DEF SerialInv, Founds, AddsOne
<1>6. /\ place = "init-built" => file' = Absent
      /\ place \in {"opened", "init-opened"} => file' = Torn
      /\ place # "built" /\ place # "found-absent"
  BY DEF SerialInv
<1> QED
  BY <1>3, <1>4, <1>5, <1>6 DEF SerialInv

\* Every step preserves what holds while commands have not overlapped: idle,
\* the file is what was announced; in flight, one document extends it.
LEMMA SerialNext == IInv /\ SerialInv /\ [Next]_vars => SerialInv'
<1> SUFFICES ASSUME IInv, SerialInv, [Next]_vars PROVE SerialInv'
  OBVIOUS
<1>0. /\ pc \in [Commands -> Places] /\ mem \in [Commands -> Board]
      /\ announced \in Seq(Promotion)
      /\ crashes \in Nat
  BY BoundAssumption DEF IInv, TypeOK
<1>1. CASE Rebaseline
  BY <1>1 DEF Rebaseline, SerialInv, Settled, AddsOne, Founds, InFlight, Torn, Absent
<1>2. ASSUME NEW c \in Commands, NEW rec \in Records, StartPromote(c, rec)
      PROVE  SerialInv'
  <2>1. Loaded \in Board
    BY <1>2, LoadedGood DEF StartPromote, IInv
  <2>2. NextPromotion(Loaded, rec) \in Promotion
    BY <2>1, NextPromotionType
  <2>3. Extend(Loaded, rec).promotions
          = Append(Loaded.promotions, NextPromotion(Loaded, rec))
    BY <2>1, ExtendHasEntry
  <2> QED
    BY <1>2, <2>2, <2>3, SerialStart DEF StartPromote
<1>3. ASSUME NEW c \in Commands, StartInit(c)
      PROVE  SerialInv'
  <2>1. Loaded.promotions = << >>
    BY <1>3 DEF StartInit, Loaded, EmptyBoard, Absent
  <2> QED
    BY <1>3, <2>1, SerialStart DEF StartInit
<1>4. ASSUME NEW c \in Commands, CheckAbsent(c)
      PROVE  SerialInv'
  <2>1. CASE file = Absent
    <3>1. pc' = [pc EXCEPT ![c] = "init-built"] /\ file' = file
      BY <1>4, <2>1 DEF CheckAbsent
    <3> QED
      BY <1>4, <3>1, SerialMove DEF CheckAbsent, Places
  <2>2. CASE file # Absent
    BY <1>4, <2>2 DEF CheckAbsent, SerialInv
  <2> QED
    BY <2>1, <2>2
<1>5. ASSUME NEW c \in Commands, Truncate(c)
      PROVE  SerialInv'
  <2>1. CASE pc[c] = "built"
    BY <1>0, <1>5, <2>1, SerialMove DEF Truncate, Places
  <2>2. CASE pc[c] = "init-built"
    BY <1>0, <1>5, <2>2, SerialMove DEF Truncate, Places
  <2> QED
    BY <1>5, <2>1, <2>2 DEF Truncate
<1>6. ASSUME NEW c \in Commands, Fill(c)
      PROVE  SerialInv'
  <2> SUFFICES ASSUME ~overlapped, crashes = 0 PROVE SerialInv'
    BY <1>6 DEF Fill, SerialInv
  <2>1. file = Torn /\ file' = Good(mem[c])
    BY <1>6 DEF Fill, SerialInv
  <2>2. \A d \in Commands : pc'[d] = "idle"
    BY <1>0, <1>6 DEF Fill, SerialInv, InFlight
  <2>3. announced' = mem[c].promotions
    <3>1. CASE pc[c] = "opened"
      <4>1. PICK p \in Promotion : mem[c].promotions = Append(announced, p)
        BY <3>1 DEF SerialInv, AddsOne
      <4> QED
        BY <1>0, <1>6, <3>1, <4>1, AppendLast DEF Fill
    <3>2. CASE pc[c] = "init-opened"
      BY <1>6, <3>2 DEF Fill, SerialInv, Founds
    <3> QED
      BY <1>6, <3>1, <3>2 DEF Fill
  <2>4. Settled'
    BY <2>1, <2>3 DEF Settled, Good, Torn, Absent
  <2>5. InFlight' = {}
    BY <2>2 DEF InFlight
  <2>6. \A d \in Commands : pc'[d] \notin (Places \ {"idle"})
    BY <2>2
  <2> QED
    BY <2>4, <2>5, <2>6 DEF SerialInv, Places
<1>7. ASSUME NEW c \in Commands, Crash(c)
      PROVE  SerialInv'
  <2>1. crashes' # 0
    BY <1>0, <1>7 DEF Crash
  <2> QED
    BY <2>1 DEF SerialInv
<1>8. CASE UNCHANGED vars
  BY <1>8 DEF vars, SerialInv, Settled, AddsOne, Founds, InFlight, Torn, Absent
<1> QED
  BY <1>1, <1>2, <1>3, <1>4, <1>5, <1>6, <1>7, <1>8 DEF Next

\* Promotes and inits that ran one after another, none killed, lose nothing:
\* the board on file is the announced promotions in order (cmd_promote and
\* cmd_leaderboard --init have no lock, so "one after another" is needed).
THEOREM SerialCommandsLoseNothing == Spec => []SerialDurability
<1>1. Init => SerialInv
  BY DEF Init, SerialInv, Settled, InFlight, Absent, Torn
<1>2. Init => IInv
  BY IInvInit
<1>3. IInv /\ [Next]_vars => IInv'
  BY IInvNext
<1>4. IInv /\ SerialInv /\ [Next]_vars => SerialInv'
  BY SerialNext
<1>5. SerialInv => SerialDurability
  BY DEF SerialInv, SerialDurability, Settled, Disciplined
<1> QED
  BY <1>1, <1>2, <1>3, <1>4, <1>5, PTL DEF Spec

-----------------------------------------------------------------------------
(* The refinement of PromotionChain.  The promise is about origins and     *)
(* whole entries, which SerialInv does not follow: a document in memory is *)
(* one promotion on the board a reader sees, or founds it.                 *)

Origins == 1..MaxBaselines

\* A promote's document, and an init's.
OneMore(c) ==
    \E rec \in Records :
        \/ file.state = "good" /\ mem[c] = Extend(file.board, rec)
        \/ file = Absent /\ \E o \in Origins : mem[c] = Extend(EmptyBoard(o), rec)

FirstBoard(c) == file = Absent /\ \E o \in Origins : mem[c] = EmptyBoard(o)

ChainInv ==
    /\ file.state = "good" => file.board.origin # 0
    /\ \A c \in Commands : pc[c] # "idle" => mem[c].origin # 0
    /\ Disciplined => \A c \in Commands :
         /\ pc[c] = "built" => OneMore(c)
         /\ pc[c] \in {"found-absent", "init-built"} => FirstBoard(c)

\* Extending keeps the origin.
LEMMA ExtendOrigin ==
    ASSUME NEW b, NEW rec
    PROVE  Extend(b, rec).origin = b.origin
  BY DEF Extend

\* A document that was just loaded, or extends what was, has an origin.
LEMMA LoadedOrigin ==
    ASSUME ChainInv, CanLoad
    PROVE  Loaded.origin # 0
  BY DEF ChainInv, CanLoad, Loaded, EmptyBoard

\* The origin a command finds when there is no file is a recorded baseline.
LEMMA AbsentOrigin ==
    ASSUME IInv, CanLoad, file = Absent
    PROVE  Loaded = EmptyBoard(baseline) /\ baseline \in Origins
<1>1. baseline \in 0..MaxBaselines /\ baseline # 0
  BY DEF IInv, TypeOK, CanLoad, Absent
<1>2. file.state # "good"
  BY DEF Absent
<1> QED
  BY <1>1, <1>2, BoundAssumption DEF Loaded, Origins

\* Nobody has loaded anything at first.
LEMMA ChainInit == Init => ChainInv
  BY DEF Init, ChainInv, Absent

\* What a command carries stays one step ahead of the file.
LEMMA ChainNext == IInv /\ SerialInv /\ ChainInv /\ [Next]_vars => ChainInv'
<1> SUFFICES ASSUME IInv, SerialInv, ChainInv, [Next]_vars PROVE ChainInv'
  OBVIOUS
<1>0. /\ pc \in [Commands -> Places] /\ mem \in [Commands -> Board]
      /\ crashes \in Nat
  BY BoundAssumption DEF IInv, TypeOK
<1>1. CASE Rebaseline
  BY <1>1 DEF Rebaseline, ChainInv, Disciplined, OneMore, FirstBoard
<1>2. ASSUME NEW c \in Commands, NEW rec \in Records, StartPromote(c, rec)
      PROVE  ChainInv'
  <2>1. Extend(Loaded, rec).origin # 0
    BY <1>2, LoadedOrigin, ExtendOrigin DEF StartPromote
  <2>2. pc' = [pc EXCEPT ![c] = "built"] /\ mem' = [mem EXCEPT ![c] = Extend(Loaded, rec)]
        /\ file' = file
    BY <1>2 DEF StartPromote, Start
  <2>3. OneMore(c)'
    <3>1. CASE file.state = "good"
      BY <1>0, <2>2, <3>1 DEF OneMore, Loaded
    <3>2. CASE file.state # "good"
      <4>1. file = Absent
        BY <1>2, <3>2 DEF StartPromote, CanLoad
      <4>2. Loaded = EmptyBoard(baseline) /\ baseline \in Origins
        BY <1>2, <4>1, AbsentOrigin DEF StartPromote
      <4> QED
        BY <1>0, <2>2, <4>1, <4>2 DEF OneMore
    <3> QED
      BY <3>1, <3>2
  <2>4. ASSUME Disciplined', NEW d \in Commands, d # c
        PROVE  pc'[d] = "idle"
    BY <1>0, <1>2, <2>2, <2>4 DEF Disciplined, StartPromote, Start, InFlight
  <2> QED
    BY <1>0, <2>1, <2>2, <2>3, <2>4 DEF ChainInv
<1>3. ASSUME NEW c \in Commands, StartInit(c)
      PROVE  ChainInv'
  <2>1. Loaded = EmptyBoard(baseline) /\ baseline \in Origins /\ Loaded.origin # 0
    BY <1>3, AbsentOrigin, LoadedOrigin DEF StartInit
  <2>2. pc' = [pc EXCEPT ![c] = "found-absent"] /\ mem' = [mem EXCEPT ![c] = Loaded]
        /\ file' = file /\ file = Absent
    BY <1>3 DEF StartInit, Start
  <2>3. FirstBoard(c)'
    BY <1>0, <2>1, <2>2 DEF FirstBoard
  <2>4. ASSUME Disciplined', NEW d \in Commands, d # c
        PROVE  pc'[d] = "idle"
    BY <1>0, <1>3, <2>2, <2>4 DEF Disciplined, StartInit, Start, InFlight
  <2> QED
    BY <1>0, <2>1, <2>2, <2>3, <2>4 DEF ChainInv
<1>4. ASSUME NEW c \in Commands, CheckAbsent(c)
      PROVE  ChainInv'
  BY <1>0, <1>4 DEF CheckAbsent, ChainInv, Disciplined, OneMore, FirstBoard
<1>5. ASSUME NEW c \in Commands, Truncate(c)
      PROVE  ChainInv'
  <2>1. file'.state # "good" /\ mem' = mem
    BY <1>5 DEF Truncate, Torn
  <2>2. \A d \in Commands : pc'[d] # "idle" => pc[d] # "idle"
    BY <1>0, <1>5 DEF Truncate
  <2>3. ASSUME Disciplined', NEW d \in Commands
        PROVE  pc'[d] \notin {"built", "found-absent", "init-built"}
    <3>1. Disciplined /\ \A a \in InFlight : a = c
      BY <1>5, <2>3 DEF Truncate, Disciplined, SerialInv, InFlight
    <3>2. d # c => pc[d] = "idle"
      BY <3>1 DEF InFlight
    <3> QED
      BY <1>0, <1>5, <3>2 DEF Truncate
  <2> QED
    BY <2>1, <2>2, <2>3 DEF ChainInv
<1>6. ASSUME NEW c \in Commands, Fill(c)
      PROVE  ChainInv'
  <2>1. mem' = mem /\ (file'.state = "good" => file'.board = mem[c])
    BY <1>6 DEF Fill, Good, Torn
  <2>2. mem[c].origin # 0
    BY <1>6 DEF Fill, ChainInv
  <2>3. \A d \in Commands : pc'[d] # "idle" => pc[d] # "idle"
    BY <1>0, <1>6 DEF Fill
  <2>4. ASSUME Disciplined', NEW d \in Commands
        PROVE  pc'[d] = "idle"
    <3>1. \A a \in InFlight : a = c
      BY <1>6, <2>4 DEF Fill, Disciplined, SerialInv, InFlight
    <3> QED
      BY <1>0, <1>6, <3>1 DEF Fill, InFlight
  <2> QED
    BY <2>1, <2>2, <2>3, <2>4 DEF ChainInv
<1>7. ASSUME NEW c \in Commands, Crash(c)
      PROVE  ChainInv'
  <2>1. ~Disciplined'
    BY <1>0, <1>7 DEF Crash, Disciplined
  <2>2. \A d \in Commands : pc'[d] # "idle" => pc[d] # "idle"
    BY <1>0, <1>7 DEF Crash
  <2> QED
    BY <1>7, <2>1, <2>2 DEF Crash, ChainInv
<1>8. CASE UNCHANGED vars
  BY <1>8 DEF vars, ChainInv, Disciplined, OneMore, FirstBoard
<1> QED
  BY <1>1, <1>2, <1>3, <1>4, <1>5, <1>6, <1>7, <1>8 DEF Next

\* The abstract module's operators are the concrete ones.
LEMMA SameBoards ==
    /\ Chain!Unpublished = EmptyBoard(0)
    /\ \A o : Chain!EmptyBoard(o) = EmptyBoard(o)
    /\ \A b, rec : Chain!Extend(b, rec) = Extend(b, rec)
<1>1. \A o : Chain!EmptyBoard(o) = EmptyBoard(o)
  BY DEF Chain!EmptyBoard, EmptyBoard
<1>2. Chain!Unpublished = EmptyBoard(0)
  BY <1>1 DEF Chain!Unpublished
<1>3. \A a, b : Chain!RoundDiv(a, b) = RoundDiv(a, b)
  BY DEF Chain!RoundDiv, RoundDiv
<1>4. \A a, b : Chain!Added(a, b) = Added(a, b)
  BY <1>3 DEF Chain!Added, Added
<1>5. \A b, rec : Chain!NextPromotion(b, rec) = NextPromotion(b, rec)
  BY <1>3, <1>4 DEF Chain!NextPromotion, NextPromotion
<1>6. \A b, rec : Chain!Extend(b, rec) = Extend(b, rec)
  BY <1>5 DEF Chain!Extend, Extend
<1> QED
  BY <1>1, <1>2, <1>6

\* What a reader sees while commands run one at a time.
LEMMA ViewSettled ==
    ASSUME SerialInv, Disciplined
    PROVE  /\ file.state = "good" => View = file.board
           /\ file = Absent => View = EmptyBoard(0)
<1>1. file = Absent => \A c \in Commands : pc[c] \notin {"opened", "init-opened"}
  BY DEF SerialInv, Disciplined, Absent, Torn
<1> QED
  BY <1>1 DEF View, Absent

\* ... and while one of them fills the file.
LEMMA ViewOpened ==
    ASSUME SerialInv, Disciplined, NEW c \in Commands,
           pc[c] \in {"opened", "init-opened"}
    PROVE  file = Torn /\ View = mem[c]
<1>1. file = Torn
  BY DEF SerialInv, Disciplined
<1>2. \A d \in Commands : pc[d] \in {"opened", "init-opened"} => d = c
  BY DEF SerialInv, Disciplined, InFlight
<1>3. (CHOOSE d \in Commands : pc[d] \in {"opened", "init-opened"}) = c
  BY <1>2
<1> QED
  BY <1>1, <1>3 DEF View, Torn

\* The first states agree.
LEMMA RefinesInit == Init => Chain!Init
<1> SUFFICES ASSUME Init PROVE Chain!Init
  OBVIOUS
<1>1. View = EmptyBoard(0)
  BY DEF Init, View, Absent
<1> QED
  BY <1>1, SameBoards DEF Chain!Init, Init, Disciplined

\* Every step of a command publishes, promotes, or changes nothing a reader
\* sees: the truncation is the step that counts.
LEMMA RefinesNext ==
    IInv /\ SerialInv /\ ChainInv /\ [Next]_vars /\ SerialInv'
        => [Chain!Next]_<<View, Disciplined>>
<1> SUFFICES ASSUME IInv, SerialInv, ChainInv, [Next]_vars, SerialInv', Disciplined'
             PROVE  (Disciplined /\ (Chain!Publish \/ Chain!Promote))
                       \/ (View' = View /\ Disciplined' = Disciplined)
  BY DEF Chain!Next, Disciplined
<1>0. /\ pc \in [Commands -> Places] /\ mem \in [Commands -> Board]
      /\ crashes \in Nat
  BY BoundAssumption DEF IInv, TypeOK
<1>1. CASE Rebaseline \/ UNCHANGED vars
  <2>1. UNCHANGED <<file, pc, mem, overlapped, crashes>>
    BY <1>1 DEF Rebaseline, vars
  <2> QED
    BY <2>1 DEF View, Disciplined
<1>2. ASSUME NEW c \in Commands, file' = file, file.state = "good" \/ file = Absent,
             UNCHANGED crashes, overlapped => overlapped'
      PROVE  View' = View /\ Disciplined' = Disciplined
  <2>1. Disciplined
    BY <1>2 DEF Disciplined
  <2> QED
    BY <1>2, <2>1, ViewSettled DEF View, Disciplined, Absent, SerialInv, Torn
<1>3. ASSUME NEW c \in Commands, NEW rec \in Records, StartPromote(c, rec)
      PROVE  View' = View /\ Disciplined' = Disciplined
  BY <1>2, <1>3 DEF StartPromote, Start, CanLoad
<1>4. ASSUME NEW c \in Commands, StartInit(c)
      PROVE  View' = View /\ Disciplined' = Disciplined
  BY <1>2, <1>4 DEF StartInit, Start, CanLoad
<1>5. ASSUME NEW c \in Commands, CheckAbsent(c)
      PROVE  View' = View /\ Disciplined' = Disciplined
  <2>1. Disciplined
    BY <1>5 DEF CheckAbsent, Disciplined
  <2>2. file = Absent
    BY <1>5, <2>1 DEF CheckAbsent, SerialInv, Disciplined
  <2> QED
    BY <1>2, <1>5, <2>2 DEF CheckAbsent
<1>6. ASSUME NEW c \in Commands, Truncate(c)
      PROVE  Disciplined /\ (Chain!Publish \/ Chain!Promote)
  <2>1. Disciplined
    BY <1>6 DEF Truncate, Disciplined
  <2>2. pc'[c] \in {"opened", "init-opened"} /\ mem' = mem
    BY <1>0, <1>6 DEF Truncate
  <2>3. View' = mem[c]
    <3>1. \A d \in Commands : pc'[d] \in {"opened", "init-opened"} => d = c
      BY <2>2 DEF SerialInv, Disciplined, InFlight
    <3>2. (CHOOSE d \in Commands : pc'[d] \in {"opened", "init-opened"}) = c
      BY <2>2, <3>1
    <3>3. file'.state # "good"
      BY <1>6 DEF Truncate, Torn
    <3> QED
      BY <2>2, <3>2, <3>3 DEF View
  <2>4. CASE pc[c] = "built"
    <3>1. PICK rec \in Records :
            \/ file.state = "good" /\ mem[c] = Extend(file.board, rec)
            \/ file = Absent /\ \E o \in Origins : mem[c] = Extend(EmptyBoard(o), rec)
      BY <2>1, <2>4 DEF ChainInv, OneMore
    <3>2. CASE file.state = "good" /\ mem[c] = Extend(file.board, rec)
      <4>1. View = file.board /\ View.origin # 0
        BY <2>1, <3>2, ViewSettled DEF ChainInv
      <4>2. View # EmptyBoard(0)
        BY <4>1 DEF EmptyBoard
      <4> QED
        BY <2>1, <2>3, <3>2, <4>1, <4>2, SameBoards DEF Chain!Promote
    <3>3. CASE file = Absent /\ \E o \in Origins : mem[c] = Extend(EmptyBoard(o), rec)
      <4>1. View = EmptyBoard(0)
        BY <2>1, <3>3, ViewSettled
      <4> QED
        BY <2>1, <2>3, <3>3, <4>1, SameBoards DEF Chain!Promote, Origins
    <3> QED
      BY <3>1, <3>2, <3>3
  <2>5. CASE pc[c] = "init-built"
    <3>1. file = Absent /\ \E o \in Origins : mem[c] = EmptyBoard(o)
      BY <2>1, <2>5 DEF ChainInv, FirstBoard
    <3>2. View = EmptyBoard(0)
      BY <2>1, <3>1, ViewSettled
    <3> QED
      BY <2>1, <2>3, <3>1, <3>2, SameBoards DEF Chain!Publish, Origins
  <2> QED
    BY <1>6, <2>4, <2>5 DEF Truncate
<1>7. ASSUME NEW c \in Commands, Fill(c)
      PROVE  View' = View /\ Disciplined' = Disciplined
  <2>1. Disciplined /\ Disciplined'
    BY <1>7 DEF Fill, Disciplined
  <2>2. file = Torn /\ View = mem[c]
    BY <1>7, <2>1, ViewOpened DEF Fill
  <2>3. file' = Good(mem[c])
    BY <1>7, <2>2 DEF Fill
  <2> QED
    BY <2>1, <2>2, <2>3 DEF View, Good
<1>8. ASSUME NEW c \in Commands, Crash(c)
      PROVE  FALSE
  BY <1>0, <1>8 DEF Crash, Disciplined
<1> QED
  BY <1>1, <1>3, <1>4, <1>5, <1>6, <1>7, <1>8 DEF Next

\* The leaderboard file implements PromotionChain: as long as promotes and
\* inits run one at a time and end, a reader sees an origin that is chosen
\* once and a chain that grows by one whole entry (arena.py:1496-1580).
THEOREM FrontierKeepsTheChain == Spec => KeepsTheChain
<1>1. Init => IInv /\ SerialInv /\ ChainInv /\ Chain!Init
  <2>1. Init => SerialInv
    BY DEF Init, SerialInv, Settled, InFlight, Absent, Torn
  <2> QED
    BY <2>1, IInvInit, ChainInit, RefinesInit
<1>2. IInv /\ SerialInv /\ ChainInv /\ [Next]_vars => IInv' /\ SerialInv' /\ ChainInv'
  BY IInvNext, SerialNext, ChainNext
<1>3. IInv /\ SerialInv /\ ChainInv /\ [Next]_vars /\ SerialInv'
        => [Chain!Next]_<<View, Disciplined>>
  BY RefinesNext
<1> QED
  BY <1>1, <1>2, <1>3, PTL DEF Spec, KeepsTheChain, Chain!Spec

-----------------------------------------------------------------------------
(* The points of the solvers add up to the headline.  Each rounding is     *)
(* bounded; an induction over the positions of a chain bounds their sum;   *)
(* and the entries of every board, on file or carried by a command, are    *)
(* the roundings of their own products (ScoreInv, on top of IInv).         *)

\* Induction over the naturals for one set.
LEMMA SetInduction ==
    ASSUME NEW S, 0 \in S, \A n \in Nat : n \in S => n + 1 \in S
    PROVE  Nat \subseteq S
<1> DEFINE Below == {ss \in Nat \X Nat : ss[1] < ss[2]}
           T == Nat \ S
<1> SUFFICES ASSUME T # {} PROVE FALSE
  OBVIOUS
<1>1. IsWellFoundedOn(Below, Nat)
  BY NatLessThanWellFounded DEF OpToRel
<1>2. PICK x \in T : \A y \in T : ~(<<y, x>> \in Below)
  <2>1. T \subseteq Nat
    OBVIOUS
  <2> HIDE DEF Below, T
  <2> QED
    BY <1>1, <2>1, WFMin
<1>3. x \in Nat \ {0} /\ x - 1 \in Nat /\ x - 1 < x
  BY <1>2
<1>4. x - 1 \in S
  BY <1>2, <1>3
<1>5. (x - 1) + 1 = x
  BY <1>3
<1> QED
  BY <1>2, <1>3, <1>4, <1>5

\* Floor division, and what it leaves.
LEMMA DivMod ==
    ASSUME NEW a \in Int, NEW b \in Nat \ {0}
    PROVE  /\ a \div b \in Int /\ a % b \in 0..(b - 1)
           /\ a = b * (a \div b) + (a % b)
  OBVIOUS

\* Rounding moves a quotient by half a unit at most.
LEMMA RoundBounds ==
    ASSUME NEW a \in Int, NEW b \in Nat \ {0}
    PROVE  /\ RoundDiv(a, b) \in Int
           /\ 2 * (b * RoundDiv(a, b)) - 2 * a <= b
           /\ 2 * a - 2 * (b * RoundDiv(a, b)) <= b
<1> DEFINE q == a \div b
           r == a % b
<1>1. q \in Int /\ r \in 0..(b - 1) /\ a = b * q + r
  BY DivMod
<1>2. CASE RoundDiv(a, b) = q /\ 2 * r <= b
  BY <1>1, <1>2
<1>3. CASE RoundDiv(a, b) = q + 1 /\ 2 * r >= b
  <2>1. b * (q + 1) = b * q + b
    BY <1>1
  <2> QED
    BY <1>1, <1>3, <2>1
<1>4. (RoundDiv(a, b) = q /\ 2 * r <= b) \/ (RoundDiv(a, b) = q + 1 /\ 2 * r >= b)
  BY <1>1 DEF RoundDiv
<1> QED
  BY <1>2, <1>3, <1>4

\* A positive factor cancels.
LEMMA Cancel ==
    ASSUME NEW g \in Nat \ {0}, NEW u \in Int, NEW v \in Int, g * u <= g * v
    PROVE  u <= v
  OBVIOUS

\* One entry: rounding the points it adds and rounding the cumulative speedup
\* it leaves behind together lose at most half a percentage step and half a
\* grid step.
LEMMA EntryOff ==
    ASSUME NEW g \in Nat \ {0}, NEW p \in Nat \ {0}, NEW product \in Nat, NEW before \in Nat
    PROVE  LET d == RoundDiv(product, g)
               points == RoundDiv(product - before * g, g * p)
           IN  /\ d \in Int /\ points \in Int
               /\ 2 * (p * points - (d - before)) <= p + 1
               /\ -(2 * (p * points - (d - before))) <= p + 1
<1> DEFINE d == RoundDiv(product, g)
           points == RoundDiv(product - before * g, g * p)
           off == 2 * (p * points - (d - before))
<1>1. before * g \in Nat /\ g * p \in Nat \ {0} /\ product - before * g \in Int
  <2>1. before * g \in Nat /\ g * p \in Nat \ {0}
    OBVIOUS
  <2> QED
    BY <2>1
<1>2. /\ d \in Int
      /\ 2 * (g * d) - 2 * product <= g
      /\ 2 * product - 2 * (g * d) <= g
  BY RoundBounds
<1>3. /\ points \in Int
      /\ 2 * ((g * p) * points) - 2 * (product - before * g) <= g * p
      /\ 2 * (product - before * g) - 2 * ((g * p) * points) <= g * p
  BY <1>1, RoundBounds
<1> HIDE DEF d, points
<1>4. p * points \in Int /\ off \in Int /\ g * d \in Int /\ (g * p) * points \in Int
  <2>1. p * points \in Int /\ g * d \in Int
    BY <1>2, <1>3
  <2>2. (g * p) * points \in Int
    BY <1>1, <1>3
  <2> QED
    BY <1>2, <2>1, <2>2
<1>5. g * off = 2 * ((g * p) * points) - 2 * (g * d) + 2 * (before * g)
  BY <1>2, <1>3
<1>6. g * (-off) = 2 * (g * d) - 2 * ((g * p) * points) - 2 * (before * g)
  BY <1>2, <1>3
<1>7. g * (p + 1) = g * p + g
  OBVIOUS
<1> HIDE DEF off
<1>8. g * off <= g * (p + 1)
  BY <1>1, <1>2, <1>3, <1>4, <1>5, <1>7
<1>9. g * (-off) <= g * (p + 1)
  BY <1>1, <1>2, <1>3, <1>4, <1>6, <1>7
<1>10. off <= p + 1 /\ -off <= p + 1
  BY <1>4, <1>8, <1>9, Cancel
<1> QED
  BY <1>2, <1>3, <1>10 DEF off, d, points

\* The running sum of the points of a chain.
Credits(ps, n, f) == f = [i \in 0..n |-> IF i = 0 THEN 0 ELSE f[i - 1] + ps[i].added]

\* The sum is defined for every chain, by induction over its length.
LEMMA CreditsExist ==
    ASSUME NEW ps
    PROVE  \A n \in Nat : \E f : Credits(ps, n, f)
<1> DEFINE S == {n \in Nat : \E f : Credits(ps, n, f)}
<1>1. 0 \in S
  <2>1. Credits(ps, 0, [i \in 0..0 |-> 0])
    BY DEF Credits
  <2> QED
    BY <2>1
<1>2. ASSUME NEW n \in Nat, n \in S PROVE n + 1 \in S
  <2>1. PICK f : f = [i \in 0..n |-> IF i = 0 THEN 0 ELSE f[i - 1] + ps[i].added]
    BY <1>2 DEF Credits
  <2> DEFINE h == [i \in 0..(n + 1) |-> IF i <= n THEN f[i] ELSE f[n] + ps[n + 1].added]
  <2>2. ASSUME NEW i \in 0..(n + 1)
        PROVE  h[i] = IF i = 0 THEN 0 ELSE h[i - 1] + ps[i].added
    <3>1. CASE i = 0
      BY <2>1, <3>1
    <3>2. CASE i \in 1..n
      <4>1. h[i] = f[i] /\ h[i - 1] = f[i - 1]
        BY <3>2
      <4>2. f[i] = f[i - 1] + ps[i].added
        BY <2>1, <3>2
      <4> QED
        BY <3>2, <4>1, <4>2
    <3>3. CASE i = n + 1
      <4>1. h[i] = f[n] + ps[n + 1].added /\ i - 1 = n /\ i # 0
        BY <3>3
      <4>2. h[i - 1] = f[n]
        BY <4>1
      <4> QED
        BY <3>3, <4>1, <4>2
    <3> QED
      BY <3>1, <3>2, <3>3
  <2>3. Credits(ps, n + 1, h)
    <3>1. h = [i \in 0..(n + 1) |-> h[i]]
      OBVIOUS
    <3> HIDE DEF h
    <3> QED
      BY <2>2, <3>1 DEF Credits
  <2> QED
    BY <2>3
<1>3. Nat \subseteq S
  <2> HIDE DEF S
  <2> QED
    BY <1>1, <1>2, SetInduction
<1> QED
  BY <1>3

\* Each entry states the points and the percentage of its own product.
Scored(b) ==
    \A i \in 1..Len(b.promotions) :
        LET p == b.promotions[i]
            product == Before(b, i).decode * DecodeSpeedup[p.record]
        IN  /\ p.percent = RoundDiv(product - GRID * GRID, GRID * PCT)
            /\ p.added = Added(Before(b, i).decode, product)

\* The cumulative speedup after i entries.
After(b, i) == Before(b, i + 1).decode

\* ... and is off by no more than its roundings.
LEMMA EntryFacts ==
    ASSUME NEW b \in Board, WellFormed(b), Scored(b), NEW i \in 1..Len(b.promotions)
    PROVE  LET p == b.promotions[i]
               off == 2 * (PCT * p.added - (After(b, i) - After(b, i - 1)))
               total == 2 * (PCT * p.percent - (After(b, i) - GRID))
           IN  /\ After(b, i) \in Nat /\ After(b, i - 1) \in Nat
               /\ p.added \in Int /\ p.percent \in Int
               /\ off <= PCT + 1 /\ -off <= PCT + 1
               /\ total <= PCT + 1 /\ -total <= PCT + 1
<1> DEFINE p == b.promotions[i]
           before == Before(b, i).decode
           product == before * DecodeSpeedup[p.record]
<1>1. b.promotions \in Seq(Promotion) /\ Len(b.promotions) \in Nat /\ i \in Nat /\ i >= 1
  BY DEF Board
<1>2. p \in Promotion
  BY <1>1
<1>3. p.added \in Int /\ p.percent \in Int /\ p.record \in Records /\ p.decode \in Nat
  BY <1>2 DEF Promotion
<1>4. before \in Nat
  <2>1. CASE i = 1
    BY <2>1, GridAssumption DEF Before
  <2>2. CASE i # 1
    <3>1. i - 1 \in 1..Len(b.promotions)
      BY <1>1, <2>2
    <3>2. b.promotions[i - 1] \in Promotion
      BY <1>1, <3>1
    <3> QED
      BY <2>2, <3>2 DEF Before, Promotion
  <2> QED
    BY <2>1, <2>2
<1>5. After(b, i) = p.decode
  <2>1. i + 1 # 1 /\ (i + 1) - 1 = i
    BY <1>1
  <2> QED
    BY <2>1 DEF After, Before
<1>6. After(b, i - 1) = before
  <2>1. (i - 1) + 1 = i
    BY <1>1
  <2> QED
    BY <2>1 DEF After
<1>7. product \in Nat
  <2>1. DecodeSpeedup[p.record] \in Nat
    BY <1>3, SpeedupAssumption
  <2> HIDE DEF before
  <2> QED
    BY <1>4, <2>1
<1>8. /\ p.decode = RoundDiv(product, GRID)
      /\ p.percent = RoundDiv(product - GRID * GRID, GRID * PCT)
      /\ p.added = RoundDiv(product - before * GRID, GRID * PCT)
  BY DEF WellFormed, Scored, Added
<1>9. GRID \in Nat \ {0} /\ PCT \in Nat \ {0}
  BY GridAssumption
<1> HIDE DEF p, before, product
<1>10. /\ 2 * (PCT * p.added - (p.decode - before)) <= PCT + 1
       /\ -(2 * (PCT * p.added - (p.decode - before))) <= PCT + 1
  BY <1>4, <1>7, <1>8, <1>9, EntryOff
<1>11. /\ 2 * (PCT * p.percent - (p.decode - GRID)) <= PCT + 1
       /\ -(2 * (PCT * p.percent - (p.decode - GRID))) <= PCT + 1
  BY <1>7, <1>8, <1>9, EntryOff
<1> QED
  BY <1>3, <1>4, <1>5, <1>6, <1>10, <1>11 DEF p

\* What a sum is off by and what its next entry is off by add up.
LEMMA OffsAdd ==
    ASSUME NEW g \in Nat, NEW p \in Nat, NEW i \in Nat, NEW before \in Nat, NEW after \in Nat,
           NEW sum \in Int, NEW points \in Int,
           2 * (p * sum - (before - g)) <= i * (p + 1),
           -(2 * (p * sum - (before - g))) <= i * (p + 1),
           2 * (p * points - (after - before)) <= p + 1,
           -(2 * (p * points - (after - before))) <= p + 1
    PROVE  /\ sum + points \in Int
           /\ 2 * (p * (sum + points) - (after - g)) <= (i + 1) * (p + 1)
           /\ -(2 * (p * (sum + points) - (after - g))) <= (i + 1) * (p + 1)
<1>1. p * sum \in Int /\ p * points \in Int /\ i * (p + 1) \in Int
  OBVIOUS
<1>2. p * (sum + points) = p * sum + p * points
  OBVIOUS
<1>3. (i + 1) * (p + 1) = i * (p + 1) + (p + 1)
  OBVIOUS
<1> QED
  BY <1>1, <1>2, <1>3

\* The sum of the points is off by what its entries are off.
LEMMA CreditsOff ==
    ASSUME NEW b \in Board, WellFormed(b), Scored(b),
           NEW f, Credits(b.promotions, Len(b.promotions), f)
    PROVE  \A i \in 0..Len(b.promotions) :
             LET off == 2 * (PCT * f[i] - (After(b, i) - GRID))
             IN  f[i] \in Int /\ off <= i * (PCT + 1) /\ -off <= i * (PCT + 1)
<1> DEFINE n == Len(b.promotions)
           off(i) == 2 * (PCT * f[i] - (After(b, i) - GRID))
           Fine(i) == f[i] \in Int /\ off(i) <= i * (PCT + 1) /\ -off(i) <= i * (PCT + 1)
           S == {i \in Nat : i <= n => Fine(i)}
<1>1. n \in Nat /\ GRID \in Nat /\ PCT \in Nat
  BY GridAssumption DEF Board
<1>2. \A i \in 0..n : f[i] = IF i = 0 THEN 0 ELSE f[i - 1] + b.promotions[i].added
  BY DEF Credits
<1>3. 0 \in S
  <2>1. f[0] = 0
    BY <1>1, <1>2
  <2>2. After(b, 0) = GRID
    BY DEF After, Before
  <2>3. off(0) = 0
    BY <1>1, <2>1, <2>2
  <2> QED
    BY <1>1, <2>1, <2>3
<1>4. ASSUME NEW i \in Nat, i \in S PROVE i + 1 \in S
  <2> SUFFICES ASSUME i + 1 <= n PROVE Fine(i + 1)
    OBVIOUS
  <2> DEFINE p == b.promotions[i + 1]
  <2>1. i + 1 \in 1..n /\ i + 1 \in 0..n /\ (i + 1) - 1 = i /\ i + 1 # 0 /\ i <= n
    BY <1>1
  <2>2. /\ After(b, i + 1) \in Nat /\ After(b, i) \in Nat /\ p.added \in Int
        /\ 2 * (PCT * p.added - (After(b, i + 1) - After(b, i))) <= PCT + 1
        /\ -(2 * (PCT * p.added - (After(b, i + 1) - After(b, i)))) <= PCT + 1
    BY <2>1, EntryFacts
  <2>3. f[i + 1] = f[i] + p.added
    BY <1>2, <2>1
  <2>4. Fine(i)
    BY <1>4, <2>1
  <2> HIDE DEF p
  <2>5. f[i] \in Int /\ off(i) <= i * (PCT + 1) /\ -off(i) <= i * (PCT + 1)
    BY <2>4
  <2>6. /\ f[i] + p.added \in Int
        /\ 2 * (PCT * (f[i] + p.added) - (After(b, i + 1) - GRID)) <= (i + 1) * (PCT + 1)
        /\ -(2 * (PCT * (f[i] + p.added) - (After(b, i + 1) - GRID))) <= (i + 1) * (PCT + 1)
    BY <1>1, <2>2, <2>5, OffsAdd
  <2> QED
    BY <2>3, <2>6
<1>5. Nat \subseteq S
  <2> HIDE DEF S
  <2> QED
    BY <1>3, <1>4, SetInduction
<1>6. ASSUME NEW i \in 0..n PROVE Fine(i)
  BY <1>1, <1>5, <1>6
<1> QED
  BY <1>6

\* Two numbers close to a third are close to each other.
LEMMA Apart ==
    ASSUME NEW p \in Nat, NEW n \in Nat, NEW percent \in Int, NEW sum \in Int, NEW gain \in Int,
           2 * (p * percent - gain) <= p + 1,
           -(2 * (p * percent - gain)) <= p + 1,
           2 * (p * sum - gain) <= n * (p + 1),
           -(2 * (p * sum - gain)) <= n * (p + 1)
    PROVE  /\ 2 * p * (percent - sum) <= (n + 1) * (p + 1)
           /\ -(2 * p * (percent - sum)) <= (n + 1) * (p + 1)
<1>1. p * percent \in Int /\ p * sum \in Int /\ n * (p + 1) \in Int
  OBVIOUS
<1>2. (n + 1) * (p + 1) = n * (p + 1) + (p + 1)
  OBVIOUS
<1>3. 2 * p * (percent - sum) = 2 * (p * percent) - 2 * (p * sum)
  OBVIOUS
<1> QED
  BY <1>1, <1>2, <1>3

\* The points of the solvers and the headline are each off by what their
\* roundings may lose.
LEMMA Telescopes ==
    ASSUME NEW b \in Board, WellFormed(b), Scored(b), Len(b.promotions) > 0,
           NEW f, Credits(b.promotions, Len(b.promotions), f)
    PROVE  LET n == Len(b.promotions)
               off == b.promotions[n].percent - f[n]
           IN  /\ 2 * PCT * off <= (n + 1) * (PCT + 1)
               /\ -(2 * PCT * off) <= (n + 1) * (PCT + 1)
<1> DEFINE n == Len(b.promotions)
           p == b.promotions[n]
           sum == f[n]
           gain == After(b, n) - GRID
<1>1. n \in Nat /\ n \in 1..n /\ n \in 0..n /\ GRID \in Nat /\ PCT \in Nat
  BY GridAssumption DEF Board
<1>2. /\ After(b, n) \in Nat /\ p.percent \in Int
      /\ 2 * (PCT * p.percent - gain) <= PCT + 1
      /\ -(2 * (PCT * p.percent - gain)) <= PCT + 1
  BY <1>1, EntryFacts
<1>3. /\ sum \in Int
      /\ 2 * (PCT * sum - gain) <= n * (PCT + 1)
      /\ -(2 * (PCT * sum - gain)) <= n * (PCT + 1)
  BY <1>1, CreditsOff
<1>4. gain \in Int
  BY <1>1, <1>2
<1> HIDE DEF p, sum, gain, n
<1>5. /\ 2 * PCT * (p.percent - sum) <= (n + 1) * (PCT + 1)
      /\ -(2 * PCT * (p.percent - sum)) <= (n + 1) * (PCT + 1)
  BY <1>1, <1>2, <1>3, <1>4, Apart
<1> QED
  BY <1>5 DEF n, p, sum

\* A board that is consistent and scored adds up, as the run states it.
LEMMA BoardTelescopes ==
    ASSUME NEW b \in Board, WellFormed(b), Scored(b)
    PROVE  LET ps == b.promotions
               n == Len(ps)
               credited[i \in 0..n] ==
                 IF i = 0 THEN 0 ELSE credited[i - 1] + ps[i].added
               off == ps[n].percent - credited[n]
           IN  n > 0 => /\ 2 * PCT * off <= (n + 1) * (PCT + 1)
                        /\ -(2 * PCT * off) <= (n + 1) * (PCT + 1)
<1> DEFINE ps == b.promotions
           n == Len(ps)
           f == CHOOSE f : f = [i \in 0..n |-> IF i = 0 THEN 0 ELSE f[i - 1] + ps[i].added]
<1>1. n \in Nat
  BY DEF Board
<1>2. \E h : Credits(ps, n, h)
  BY <1>1, CreditsExist
<1>3. Credits(ps, n, f)
  BY <1>2 DEF Credits
<1> HIDE DEF f
<1>4. n > 0 => /\ 2 * PCT * (ps[n].percent - f[n]) <= (n + 1) * (PCT + 1)
               /\ -(2 * PCT * (ps[n].percent - f[n])) <= (n + 1) * (PCT + 1)
  BY <1>3, Telescopes
<1> QED
  BY <1>4 DEF f

\* What is on file, and what a command is about to write, is scored.
ScoreInv ==
    /\ file.state = "good" => Scored(file.board)
    /\ \A c \in Commands : Scored(mem[c])

\* A chain without entries is scored.
LEMMA EmptyScored == ASSUME NEW o PROVE Scored(EmptyBoard(o))
  BY DEF Scored, EmptyBoard

\* The entry cmd_promote appends is scored from where the chain ended.
LEMMA ExtendScored ==
    ASSUME NEW b \in Board, WellFormed(b), Scored(b), NEW rec \in Records
    PROVE  Scored(Extend(b, rec))
<1> DEFINE n == Len(b.promotions)
           e == Extend(b, rec)
           p == NextPromotion(b, rec)
<1>1. n \in Nat /\ b.promotions \in Seq(Promotion) /\ p \in Promotion
  BY NextPromotionType DEF Board
<1>2. e.promotions = Append(b.promotions, p)
  BY ExtendHasEntry
<1>3. /\ Len(e.promotions) = n + 1
      /\ e.promotions[n + 1] = p
      /\ \A i \in 1..n : e.promotions[i] = b.promotions[i]
  BY <1>1, <1>2
<1>4. Before(b, n + 1).decode = b.current.decode
  <2>1. b.current = [decode |-> Before(b, n + 1).decode,
                     prefill |-> Before(b, n + 1).prefill, count |-> n]
    BY DEF WellFormed
  <2> QED
    BY <2>1
<1>5. /\ p.record = rec
      /\ p.percent = RoundDiv(b.current.decode * DecodeSpeedup[rec] - GRID * GRID, GRID * PCT)
      /\ p.added = Added(b.current.decode, b.current.decode * DecodeSpeedup[rec])
  BY DEF NextPromotion
<1> HIDE DEF n, e, p
<1>6. \A i \in 1..(n + 1) : Before(e, i) = Before(b, i)
  BY <1>1, <1>3 DEF Before
<1>7. ASSUME NEW i \in 1..(n + 1)
      PROVE  LET q == e.promotions[i]
                 product == Before(e, i).decode * DecodeSpeedup[q.record]
             IN  /\ q.percent = RoundDiv(product - GRID * GRID, GRID * PCT)
                 /\ q.added = Added(Before(e, i).decode, product)
  <2>1. CASE i = n + 1
    BY <1>3, <1>4, <1>5, <1>6, <2>1
  <2>2. CASE i # n + 1
    <3>1. i \in 1..n
      BY <1>1, <2>2
    <3>2. LET q == b.promotions[i]
              product == Before(b, i).decode * DecodeSpeedup[q.record]
          IN  /\ q.percent = RoundDiv(product - GRID * GRID, GRID * PCT)
              /\ q.added = Added(Before(b, i).decode, product)
      BY <3>1 DEF Scored, n
    <3> QED
      BY <1>3, <1>6, <3>1, <3>2
  <2> QED
    BY <2>1, <2>2
<1>8. Scored(e)
  BY <1>3, <1>7 DEF Scored
<1> QED
  BY <1>8 DEF e

\* ... and so is what load_leaderboard returns.
LEMMA LoadedScored == ASSUME ScoreInv PROVE Scored(Loaded)
  BY EmptyScored DEF ScoreInv, Loaded

\* Nothing has been written before the first command.
LEMMA ScoreInit == Init => ScoreInv
  BY EmptyScored DEF Init, ScoreInv, Absent

\* Only Fill writes a board, and it is one a command carried.
LEMMA ScoreNext == IInv /\ ScoreInv /\ [Next]_vars => ScoreInv'
<1> SUFFICES ASSUME IInv, ScoreInv, [Next]_vars PROVE ScoreInv'
  OBVIOUS
<1>1. ASSUME NEW c \in Commands, NEW place, NEW doc, Start(c, place, doc), Scored(doc)
      PROVE  ScoreInv'
  BY <1>1 DEF Start, ScoreInv, IInv, TypeOK
<1>2. ASSUME NEW c \in Commands, NEW rec \in Records, StartPromote(c, rec)
      PROVE  ScoreInv'
  <2>1. Loaded \in Board /\ WellFormed(Loaded)
    BY <1>2, LoadedGood DEF StartPromote, IInv
  <2>2. Scored(Extend(Loaded, rec))
    BY <2>1, LoadedScored, ExtendScored
  <2> QED
    BY <1>1, <1>2, <2>2 DEF StartPromote
<1>3. ASSUME NEW c \in Commands, StartInit(c) PROVE ScoreInv'
  BY <1>1, <1>3, LoadedScored DEF StartInit
<1>4. ASSUME NEW c \in Commands, Fill(c) PROVE ScoreInv'
  BY <1>4 DEF Fill, ScoreInv, Good, Torn
<1>5. ASSUME NEW c \in Commands, Truncate(c) PROVE ScoreInv'
  BY <1>5 DEF Truncate, ScoreInv, Torn
<1>6. CASE UNCHANGED <<file, mem>>
  BY <1>6 DEF ScoreInv
<1> QED
  BY <1>2, <1>3, <1>4, <1>5, <1>6 DEF Next, vars, Rebaseline, CheckAbsent, Crash

\* Whoever runs and dies, and for every grid and every ratio: the "addedPct" of
\* a readable board's solvers add up to its "percentFaster", up to the rounding
\* of each entry and of the headline (arena.py:1541-1546).
THEOREM PointsAddUp == Spec => []HeadlineTelescopes
<1>1. IInv /\ ScoreInv => HeadlineTelescopes
  <2> SUFFICES ASSUME IInv, ScoreInv, file.state = "good"
               PROVE  LET ps == file.board.promotions
                          n == Len(ps)
                          credited[i \in 0..n] ==
                            IF i = 0 THEN 0 ELSE credited[i - 1] + ps[i].added
                          off == ps[n].percent - credited[n]
                      IN  n > 0 => /\ 2 * PCT * off <= (n + 1) * (PCT + 1)
                                   /\ -(2 * PCT * off) <= (n + 1) * (PCT + 1)
    BY DEF HeadlineTelescopes
  <2>1. file.board \in Board /\ WellFormed(file.board) /\ Scored(file.board)
    BY DEF IInv, TypeOK, Files, ChainConsistent, ScoreInv
  <2> QED
    BY <2>1, BoardTelescopes
<1>2. Init => IInv /\ ScoreInv
  BY IInvInit, ScoreInit
<1>3. IInv /\ ScoreInv /\ [Next]_vars => IInv' /\ ScoreInv'
  BY IInvNext, ScoreNext
<1> QED
  BY <1>1, <1>2, <1>3, PTL DEF Spec
=============================================================================
