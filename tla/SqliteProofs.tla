---------------------------- MODULE SqliteProofs ----------------------------
(***************************************************************************)
(* What the SQLite targets do, for every script and every job: what a WAL  *)
(* script starts it ends, and what an executor tells is what it did and    *)
(* found.                                                                  *)
(***************************************************************************)
EXTENDS SqliteTargets, SequenceTheorems, WellFoundedInduction, TLAPS

LEMMA MinIsLeast ==
  ASSUME NEW S \in SUBSET Nat, S # {}
  PROVE  Min(S) \in S /\ \A n \in S : Min(S) <= n
<1> DEFINE R == OpToRel(<, Nat)
<1>1. IsWellFoundedOn(R, Nat)
  BY NatLessThanWellFounded
<1>2. PICK x \in S : \A y \in S : ~ (<<y, x>> \in R)
  <2> HIDE DEF R
  <2> QED BY <1>1, WFMin
<1>3. \A y \in S : x <= y
  <2> SUFFICES ASSUME NEW y \in S PROVE x <= y
    OBVIOUS
  <2>1. ~ (y < x)
    BY <1>2 DEF OpToRel
  <2> QED BY <2>1
<1> QED BY <1>3 DEF Min

(***************************************************************************)
(* A database and its log.  What was copied of the log into the file is    *)
(* part of it, and no snapshot ends behind it.                             *)
(***************************************************************************)
Files == [wal : BOOLEAN, base : Value \cup {Nothing}, log : Seq(Value), backfilled : Nat]

Sound(f) == f \in Files /\ f.backfilled <= Len(f.log)
HoldsMarks(f, M) == Sound(f) /\ \A m \in M : m <= Len(f.log)

\* Snapshots of the connections that are in a transaction.
SnapshotsAreHeld ==
  \A c \in Connection : mark[c] # NoSnapshot => c \in open /\ mark[c] <= Len(file[Home[c]].log)

EngineTypes ==
  /\ file \in [Database -> Files] /\ open \subseteq Connection
  /\ mark \in [Connection -> Nat \cup {NoSnapshot}]
  /\ pending \in [Connection -> Value \cup {Nothing}]
EngineInv ==
  /\ EngineTypes
  /\ \A d \in Database : Sound(file[d])
  /\ SnapshotsAreHeld

LEMMA SnapshotMarks ==
  ASSUME EngineInv, NEW c \in Connection
  PROVE  /\ Home[c] \in Database /\ HoldsMarks(file[Home[c]], Marks(Others(c)))
         /\ Len(file[Home[c]].log) \in Nat /\ Marks(Others(c)) \subseteq Nat
<1> USE DEF EngineInv, EngineTypes
<1>1. Home[c] \in Database /\ Sound(file[Home[c]])
  BY ConnectionAssumption
<1>2. Len(file[Home[c]].log) \in Nat
  BY <1>1 DEF Sound, Files
<1>3. ASSUME NEW m \in Marks(Others(c))
      PROVE  m \in Nat /\ m <= Len(file[Home[c]].log)
  <2>1. PICK x \in Others(c) : m = mark[x] /\ m # NoSnapshot
    BY <1>3 DEF Marks
  <2>2. x \in Connection /\ Home[x] = Home[c]
    BY <2>1 DEF Others
  <2> QED BY <2>1, <2>2 DEF SnapshotsAreHeld
<1> QED BY <1>1, <1>2, <1>3 DEF HoldsMarks

LEMMA LogValues ==
  ASSUME NEW f, Sound(f)
  PROVE  /\ f.log \in Seq(Value) /\ Len(f.log) \in Nat /\ f.base \in Value \cup {Nothing}
         /\ \A m \in 1..Len(f.log) : f.log[m] \in Value
BY DEF Sound, Files

\* A checkpoint copies no more than the log has.
LEMMA BackfillIsHeld ==
  ASSUME EngineInv, NEW c \in Connection
  PROVE  HoldsMarks(Backfilled(c), Marks(Others(c)))
<1> DEFINE M == Marks(Others(c))
           S == {Len(file[Home[c]].log)} \cup (M \ {0})
<1>1. PICK f : f = file[Home[c]]
  OBVIOUS
<1>2. HoldsMarks(f, M) /\ Len(f.log) \in Nat /\ M \subseteq Nat
  BY <1>1, SnapshotMarks
<1>3. PICK safe : safe = Min(S)
  OBVIOUS
<1>4. safe \in S /\ safe \in Nat /\ safe <= Len(f.log)
  <2>1. S \in SUBSET Nat /\ S # {} /\ Len(f.log) \in S
    BY <1>1, <1>2
  <2> HIDE DEF S
  <2> QED BY <1>3, <2>1, MinIsLeast
<1>5. Backfilled(c) = IF 0 \in M \/ safe <= f.backfilled
                      THEN f ELSE [f EXCEPT !.base = f.log[safe], !.backfilled = safe]
  BY <1>1, <1>3 DEF Backfilled
<1>6. CASE ~(0 \in M \/ safe <= f.backfilled)
  <2>1. safe \in 1..Len(f.log)
    BY <1>2, <1>4, <1>6 DEF HoldsMarks, Sound, Files
  <2>2. f.log[safe] \in Value
    BY <1>2, <2>1, LogValues DEF HoldsMarks
  <2>3. PICK g : g = [f EXCEPT !.base = f.log[safe], !.backfilled = safe]
    OBVIOUS
  <2>4. g \in Files /\ g.log = f.log /\ g.backfilled = safe
    BY <1>2, <1>4, <2>2, <2>3 DEF HoldsMarks, Sound, Files
  <2>5. HoldsMarks(g, M)
    BY <1>2, <1>4, <2>4 DEF HoldsMarks, Sound
  <2> QED BY <1>5, <1>6, <2>3, <2>5
<1>7. CASE 0 \in M \/ safe <= f.backfilled
  BY <1>2, <1>5, <1>7
<1> QED BY <1>6, <1>7

LEMMA EmptyIsHeld ==
  ASSUME NEW f, Sound(f), NEW M \in SUBSET {0}
  PROVE  HoldsMarks(Emptied(f), M)
<1>1. <<>> \in Seq(Value) /\ Len(<<>>) = 0
  OBVIOUS
<1>2. PICK g : g = Emptied(f)
  OBVIOUS
<1>3. g \in Files /\ g.log = <<>> /\ g.backfilled = 0
  BY <1>1, <1>2 DEF Emptied, Sound, Files
<1> QED BY <1>1, <1>2, <1>3 DEF HoldsMarks, Sound

LEMMA CheckpointIsHeld ==
  ASSUME EngineInv, NEW c \in Connection
  PROVE  HoldsMarks(Checkpointed(c), Marks(Others(c)))
<1>1. HoldsMarks(Backfilled(c), Marks(Others(c)))
  BY BackfillIsHeld
<1>2. CASE ~Busy(c)
  <2>1. Marks(Others(c)) \in SUBSET {0}
    BY <1>2, SnapshotMarks DEF Busy
  <2> QED BY <1>1, <1>2, <2>1, EmptyIsHeld DEF HoldsMarks, Checkpointed
<1> QED BY <1>1, <1>2 DEF Checkpointed

LEMMA ClosedIsHeld ==
  ASSUME EngineInv, NEW c \in Connection
  PROVE  HoldsMarks(Closed(c), Marks(Others(c)))
<1>1. CASE Others(c) = {}
  <2>1. Marks(Others(c)) = {}
    BY <1>1 DEF Marks
  <2> QED BY <1>1, <2>1, BackfillIsHeld, EmptyIsHeld DEF HoldsMarks, Closed
<1> QED BY <1>1, SnapshotMarks DEF Closed

\* Opening a log never shortens it.
LEMMA RecoveredIsHeld ==
  ASSUME EngineInv, NEW c \in Connection
  PROVE  Sound(Recovered(c)) /\ Recovered(c).log = file[Home[c]].log
<1>1. PICK f, g : f = file[Home[c]] /\ g = [f EXCEPT !.backfilled = 0]
  OBVIOUS
<1>2. Sound(f) /\ Len(f.log) \in Nat
  BY <1>1, SnapshotMarks DEF HoldsMarks
<1>3. Sound(g) /\ g.log = f.log
  BY <1>1, <1>2 DEF Sound, Files
<1> QED BY <1>1, <1>2, <1>3 DEF Recovered

\* A commit restarts the log only where all other snapshots are in the file.
LEMMA StoredIsHeld ==
  ASSUME EngineInv, NEW c \in Connection, NEW m, NEW v \in Value
  PROVE  HoldsMarks(Stored(c, m, v), Marks(Others(c)))
<1>1. PICK f, M, g : f = file[Home[c]] /\ M = Marks(Others(c)) /\ g = Stored(c, m, v)
  OBVIOUS
<1>2. /\ f \in Files /\ HoldsMarks(f, M) /\ M \subseteq Nat
      /\ f.log \in Seq(Value) /\ Len(f.log) \in Nat /\ f.backfilled \in Nat
  BY <1>1, SnapshotMarks DEF HoldsMarks, Sound, Files
<1>3. CASE ~f.wal
  <2>1. g = [f EXCEPT !.base = v]
    BY <1>1, <1>3 DEF Stored
  <2>2. g \in Files /\ g.log = f.log /\ g.backfilled = f.backfilled
    BY <1>2, <2>1 DEF Files
  <2> QED BY <1>1, <1>2, <2>2 DEF HoldsMarks, Sound
<1>4. CASE f.wal /\ m = 0 /\ f.backfilled > 0 /\ M \subseteq {0}
  <2>1. g = [f EXCEPT !.log = <<v>>, !.backfilled = 0]
    BY <1>1, <1>4 DEF Stored
  <2>2. <<v>> \in Seq(Value) /\ Len(<<v>>) = 1
    OBVIOUS
  <2>3. g \in Files /\ g.log = <<v>> /\ g.backfilled = 0
    BY <1>2, <2>1, <2>2 DEF Files
  <2> QED BY <1>1, <1>4, <2>2, <2>3 DEF HoldsMarks, Sound
<1>5. CASE f.wal /\ ~(m = 0 /\ f.backfilled > 0 /\ M \subseteq {0})
  <2>1. g = [f EXCEPT !.log = Append(f.log, v)]
    BY <1>1, <1>5 DEF Stored
  <2>2. PICK log : log = Append(f.log, v)
    OBVIOUS
  <2>3. log \in Seq(Value) /\ Len(log) = Len(f.log) + 1
    BY <1>2, <2>2, AppendProperties
  <2>4. g \in Files /\ g.log = log /\ g.backfilled = f.backfilled
    BY <1>2, <2>1, <2>2, <2>3 DEF Files
  <2> QED BY <1>1, <1>2, <2>3, <2>4 DEF HoldsMarks, Sound
<1> QED BY <1>3, <1>4, <1>5

----------------------------------------------------------------------------
(***************************************************************************)
(* The script and its children.  Unless something is on its way out, the   *)
(* blocks entered are those around the next step, and whoever runs was     *)
(* started and not ended.  Once something is, a child that no block will   *)
(* end is a reader; if the expectations agree (agree is TRUE), then an     *)
(* operation has failed, and if it is the only one it was a connect.       *)
(***************************************************************************)
ControlTypes ==
  /\ script \in Script /\ at \in 1..(Len(Steps[script]) + 1)
  /\ alive \subseteq Child /\ answers \in [Child -> {"never", "once", "always"}]
  /\ scopes \in Seq(Seq(Child)) /\ raising \in BOOLEAN /\ failures \in 0..MaxFailures

SleepersComeFirst(blocks) ==
  \A n \in DOMAIN blocks : \A m \in DOMAIN blocks[n] : blocks[n][m] \in Sleeper => m = 1

Excused(agree, c) ==
  c \notin Sleeper /\ (agree => failures > 0 /\ (failures = 1 => Step.do = "open"))

ControlInv(agree) ==
  /\ ControlTypes
  /\ SleepersComeFirst(scopes)
  /\ ~raising => scopes = Blocks[script][at] /\ \A c \in alive : Started(Steps[script], at, c)
  /\ raising => \A c \in alive : InABlock(c, scopes) \/ Excused(agree, c)

\* The assumption on scripts, script by script.
LEMMA StepsAreTyped ==
  \A s \in Script : Len(Steps[s]) \in Nat /\ \A i \in 1..Len(Steps[s]) :
    LET step == Steps[s][i] IN
      /\ step.by \in Connection
      /\ step.do \in {"insert", "update"} => step.value \in Value
      /\ step.do = "backup" => step.value \in Connection
      /\ step.do = "spawn" => step.by \in Child /\ step.value \in {"never", "once", "always"}
      /\ step.do = "ask" => step.by \in Child
      /\ step.do = "try" => step.value \in Seq(Child)
BY ScriptsAssumption, Zenon DEF WellFormed

LEMMA BlocksAreNested ==
  \A s \in Script :
    /\ Blocks[s][1] = <<>> /\ Blocks[s][Len(Steps[s]) + 1] = <<>>
    /\ \A i \in 1..Len(Steps[s]) :
         LET step == Steps[s][i]
             around == Blocks[s][i]
             next == Blocks[s][i + 1]
         IN  /\ around \in Seq(Seq(Child))
             /\ \A n \in DOMAIN around : \A m \in DOMAIN around[n] :
                  around[n][m] \in Sleeper => m = 1
             /\ IF step.do = "try" THEN next = <<step.value>> \o around
                ELSE IF step.do \in {"hand over", "finally"}
                THEN around # <<>> /\ next = Tail(around)
                ELSE next = around
BY ScriptsAssumption, Zenon DEF Nested

LEMMA ChildrenAreProtected ==
  \A s \in Script : \A i \in 1..(Len(Steps[s]) + 1) : \A c \in Child : Started(Steps[s], i, c) =>
    /\ \/ InABlock(c, Blocks[s][i])
       \/ i <= Len(Steps[s]) /\ Steps[s][i].do = "try" /\ InABlock(c, <<Steps[s][i].value>>)
       \/ i <= Len(Steps[s]) /\ Steps[s][i].do = "open" /\ c \notin Sleeper
    /\ i <= Len(Steps[s]) /\ Steps[s][i].do = "finally" =>
         ~InABlock(c, <<Head(Blocks[s][i])>>)
BY ScriptsAssumption, Zenon DEF Protecting

LEMMA StepTypes ==
  ASSUME ControlTypes, at <= Len(Steps[script])
  PROVE  /\ Len(Steps[script]) \in Nat /\ at \in Nat /\ at \in 1..Len(Steps[script])
         /\ at + 1 \in 1..(Len(Steps[script]) + 1) /\ Step.by \in Connection
         /\ Step.do \in {"insert", "update"} => Step.value \in Value
         /\ Step.do = "backup" => Step.value \in Connection
         /\ Step.do = "spawn" => Step.by \in Child /\ Step.value \in {"never", "once", "always"}
         /\ Step.do = "ask" => Step.by \in Child
         /\ Step.do = "try" => Step.value \in Seq(Child)
<1>1. script \in Script /\ Len(Steps[script]) \in Nat
  BY StepsAreTyped DEF ControlTypes
<1>2. at \in 1..Len(Steps[script]) /\ at + 1 \in 1..(Len(Steps[script]) + 1) /\ at \in Nat
  BY <1>1 DEF ControlTypes
<1> QED BY <1>1, <1>2, StepsAreTyped DEF Step

LEMMA Bracketed ==
  ASSUME ControlTypes, at <= Len(Steps[script])
  PROVE  /\ Blocks[script][at] \in Seq(Seq(Child)) /\ SleepersComeFirst(Blocks[script][at])
         /\ Step.do = "try" => Blocks[script][at + 1] = <<Step.value>> \o Blocks[script][at]
         /\ Step.do \in {"hand over", "finally"} =>
              Blocks[script][at] # <<>> /\ Blocks[script][at + 1] = Tail(Blocks[script][at])
         /\ Step.do \notin {"try", "hand over", "finally"} =>
              Blocks[script][at + 1] = Blocks[script][at]
<1>1. script \in Script /\ at \in 1..Len(Steps[script])
  BY StepTypes DEF ControlTypes
<1> QED BY <1>1, BlocksAreNested, Zenon DEF Step, SleepersComeFirst

\* The blocks around any step, those at the end included.
LEMMA BlocksAnywhere ==
  ASSUME NEW s \in Script, NEW i \in 1..(Len(Steps[s]) + 1)
  PROVE  Blocks[s][i] \in Seq(Seq(Child)) /\ SleepersComeFirst(Blocks[s][i])
<1>1. Len(Steps[s]) \in Nat
  BY StepsAreTyped
<1>2. CASE i = Len(Steps[s]) + 1
  <2>1. Blocks[s][i] = <<>>
    BY <1>2, BlocksAreNested
  <2> QED BY <2>1 DEF SleepersComeFirst
<1>3. CASE i # Len(Steps[s]) + 1
  <2>1. i \in 1..Len(Steps[s])
    BY <1>1, <1>3
  <2> QED BY <2>1, BlocksAreNested, Zenon DEF SleepersComeFirst
<1> QED BY <1>2, <1>3

LEMMA StartedGoesOn ==
  ASSUME NEW s \in Script, NEW i \in 1..Len(Steps[s]), NEW c,
         Started(Steps[s], i, c), ~(Steps[s][i].do \in {"kill", "exit"} /\ Steps[s][i].by = c)
  PROVE  Started(Steps[s], i + 1, c)
<1>1. Len(Steps[s]) \in Nat /\ i \in Nat
  BY StepsAreTyped
<1>2. PICK j \in 1..(i - 1) :
        /\ Steps[s][j].do = "spawn" /\ Steps[s][j].by = c
        /\ \A k \in (j + 1)..(i - 1) : ~(Steps[s][k].do \in {"kill", "exit"} /\ Steps[s][k].by = c)
  BY DEF Started
<1>3. j \in 1..((i + 1) - 1)
  BY <1>1, <1>2
<1>4. ASSUME NEW k \in (j + 1)..((i + 1) - 1)
      PROVE  ~(Steps[s][k].do \in {"kill", "exit"} /\ Steps[s][k].by = c)
  <2>1. k = i \/ k \in (j + 1)..(i - 1)
    BY <1>1, <1>2
  <2> QED BY <1>2, <2>1
<1> QED BY <1>2, <1>3, <1>4 DEF Started

LEMMA StartedNow ==
  ASSUME NEW s \in Script, NEW i \in 1..Len(Steps[s]), Steps[s][i].do = "spawn"
  PROVE  Started(Steps[s], i + 1, Steps[s][i].by)
<1>1. Len(Steps[s]) \in Nat /\ i \in Nat /\ i \in 1..((i + 1) - 1)
  BY StepsAreTyped
<1>2. \A k \in (i + 1)..((i + 1) - 1) : FALSE
  BY <1>1
<1> QED BY <1>1, <1>2 DEF Started

\* What is taken is in the script; whose child is in no block then is a reader, before a connect.
LEMMA RunningIsProtected ==
  ASSUME NEW agree \in BOOLEAN, ControlInv(agree), ~raising, at <= Len(Steps[script]),
         Step.do # "try", NEW c \in alive
  PROVE  InABlock(c, scopes) \/ (Step.do = "open" /\ c \notin Sleeper)
<1>1. script \in Script /\ at \in 1..Len(Steps[script]) /\ at \in 1..(Len(Steps[script]) + 1)
  BY StepTypes DEF ControlInv, ControlTypes
<1>2. c \in Child /\ Started(Steps[script], at, c) /\ scopes = Blocks[script][at]
  BY DEF ControlInv, ControlTypes
<1> QED BY <1>1, <1>2, ChildrenAreProtected, Zenon DEF Step

\* The next step is reached: the blocks are those around it, the children those it finds.
LEMMA AdvanceKeepsControl ==
  ASSUME NEW agree \in BOOLEAN, ControlInv(agree), ~raising, at <= Len(Steps[script]), Advance,
         scopes' = Blocks[script][at + 1], \A c \in alive' : c \in Child /\ Started(Steps[script], at + 1, c),
         answers' \in [Child -> {"never", "once", "always"}]
  PROVE  ControlInv(agree)'
<1>1. /\ script' = script /\ at' = at + 1 /\ raising' = FALSE /\ failures' = failures
      /\ script \in Script /\ at + 1 \in 1..(Len(Steps[script]) + 1)
  BY StepTypes DEF Advance, ControlInv, ControlTypes
<1>2. scopes' \in Seq(Seq(Child)) /\ SleepersComeFirst(scopes)'
  BY <1>1, BlocksAnywhere DEF SleepersComeFirst
<1>3. ControlTypes'
  BY <1>1, <1>2 DEF ControlInv, ControlTypes
<1> QED BY <1>1, <1>2, <1>3 DEF ControlInv

\* Most steps enter no block and end no child.
LEMMA PlainAdvance ==
  ASSUME NEW agree \in BOOLEAN, ControlInv(agree), ~raising, at <= Len(Steps[script]), Advance,
         Step.do \notin {"try", "hand over", "finally", "kill", "exit"},
         UNCHANGED scopes, alive' \subseteq alive, answers' \in [Child -> {"never", "once", "always"}]
  PROVE  ControlInv(agree)'
<1>1. script \in Script /\ at \in 1..Len(Steps[script])
  BY StepTypes DEF ControlInv, ControlTypes
<1>2. scopes' = Blocks[script][at + 1]
  BY Bracketed DEF ControlInv
<1>3. ASSUME NEW c \in alive'
      PROVE  c \in Child /\ Started(Steps[script], at + 1, c)
  <2>1. c \in Child /\ Started(Steps[script], at, c)
    BY <1>3 DEF ControlInv, ControlTypes
  <2> QED BY <1>1, <2>1, StartedGoesOn DEF Step
<1> QED BY <1>2, <1>3, AdvanceKeepsControl

\* Something raises: whoever runs is in a block, or what failed was a connect.
LEMMA RaiseKeepsControl ==
  ASSUME NEW agree \in BOOLEAN, ControlInv(agree), ~raising, at <= Len(Steps[script]), Raise,
         Step.do # "try", UNCHANGED scopes, alive' \subseteq alive,
         answers' \in [Child -> {"never", "once", "always"}],
         (failures' = failures /\ Step.do # "open") \/ MayFail
  PROVE  ControlInv(agree)'
<1>1. raising' = TRUE /\ script' = script /\ at' = at
  BY DEF Raise
<1>2. failures \in Nat /\ failures' \in 0..MaxFailures /\ (Step.do = "open" => failures' > 0)
  BY ValueAssumption DEF ControlInv, ControlTypes, MayFail
<1>3. ControlTypes' /\ SleepersComeFirst(scopes)'
  BY <1>1, <1>2 DEF ControlInv, ControlTypes, SleepersComeFirst
<1>4. ASSUME NEW c \in alive'
      PROVE  InABlock(c, scopes)' \/ Excused(agree, c)'
  <2>1. InABlock(c, scopes) \/ (Step.do = "open" /\ c \notin Sleeper)
    BY <1>4, RunningIsProtected
  <2>2. Step' = Step /\ (InABlock(c, scopes)' <=> InABlock(c, scopes))
    BY <1>1 DEF Step, InABlock
  <2> QED BY <1>2, <2>1, <2>2 DEF Excused
<1> QED BY <1>1, <1>3, <1>4 DEF ControlInv

\* Only what is in a block is killed, and it is the first that lives.
LEMMA FirstLivingLives ==
  ASSUME ControlTypes, scopes # <<>>, Living # {}
  PROVE  /\ FirstLiving \in alive /\ Min(Living) \in DOMAIN Head(scopes)
         /\ \A i \in DOMAIN Head(scopes) : i < Min(Living) => Head(scopes)[i] \notin alive
<1>1. Head(scopes) \in Seq(Child)
  BY DEF ControlTypes
<1>2. DOMAIN Head(scopes) \subseteq Nat
  BY <1>1
<1>3. Living \in SUBSET Nat
  BY <1>2 DEF Living
<1>4. Min(Living) \in Living /\ \A n \in Living : Min(Living) <= n
  BY <1>3, MinIsLeast
<1>5. Min(Living) \in Nat
  BY <1>3, <1>4
<1>6. ASSUME NEW i \in DOMAIN Head(scopes), i < Min(Living)
      PROVE  Head(scopes)[i] \notin alive
  <2>1. i \notin Living
    BY <1>2, <1>4, <1>5, <1>6
  <2> QED BY <2>1 DEF Living
<1> QED BY <1>4, <1>6 DEF Living, FirstLiving

\* The children of all blocks but the first are those of the blocks that are left.
LEMMA BlocksBehind ==
  ASSUME NEW blocks \in Seq(Seq(Child)), blocks # <<>>
  PROVE  /\ Tail(blocks) \in Seq(Seq(Child))
         /\ SleepersComeFirst(blocks) => SleepersComeFirst(Tail(blocks))
         /\ \A c : InABlock(c, blocks) =>
              InABlock(c, Tail(blocks)) \/ \E m \in DOMAIN Head(blocks) : Head(blocks)[m] = c
<1>1. /\ Tail(blocks) \in Seq(Seq(Child)) /\ Len(blocks) \in Nat /\ Len(blocks) > 0
      /\ DOMAIN blocks = 1..Len(blocks) /\ DOMAIN Tail(blocks) = 1..(Len(blocks) - 1)
      /\ \A n \in 1..(Len(blocks) - 1) : Tail(blocks)[n] = blocks[n + 1]
      /\ Head(blocks) = blocks[1]
  OBVIOUS
<1>2. SleepersComeFirst(blocks) => SleepersComeFirst(Tail(blocks))
  <2>1. \A n \in DOMAIN Tail(blocks) : n + 1 \in DOMAIN blocks /\ Tail(blocks)[n] = blocks[n + 1]
    BY <1>1
  <2> QED BY <2>1 DEF SleepersComeFirst
<1>3. ASSUME NEW c, InABlock(c, blocks)
      PROVE  InABlock(c, Tail(blocks)) \/ \E m \in DOMAIN Head(blocks) : Head(blocks)[m] = c
  <2>1. PICK n \in DOMAIN blocks : \E m \in DOMAIN blocks[n] : blocks[n][m] = c
    BY <1>3 DEF InABlock
  <2>2. CASE n = 1
    BY <1>1, <2>1, <2>2
  <2>3. CASE n # 1
    <3>1. n - 1 \in DOMAIN Tail(blocks) /\ Tail(blocks)[n - 1] = blocks[n]
      BY <1>1, <2>3
    <3> QED BY <2>1, <3>1 DEF InABlock
  <2> QED BY <2>2, <2>3
<1> QED BY <1>1, <1>2, <1>3

\* Nothing lives in the block that a script leaves in its finally.
LEMMA FinallyFindsNobody ==
  ASSUME NEW agree \in BOOLEAN, ControlInv(agree), ~raising, Cleaning
  PROVE  /\ at <= Len(Steps[script]) /\ Step.do = "finally" /\ Living = {} /\ scopes # <<>>
         /\ Blocks[script][at + 1] = Tail(scopes)
<1>1. at <= Len(Steps[script]) /\ Step.do = "finally" /\ scopes # <<>>
  BY DEF Cleaning, Doing
<1>2. /\ script \in Script /\ at \in 1..Len(Steps[script]) /\ at \in 1..(Len(Steps[script]) + 1)
      /\ ControlTypes /\ scopes = Blocks[script][at]
  BY <1>1, StepTypes DEF ControlInv, ControlTypes
<1>3. Blocks[script][at + 1] = Tail(scopes)
  BY <1>1, <1>2, Bracketed
<1>4. ASSUME NEW i \in Living PROVE FALSE
  <2>1. i \in DOMAIN Head(scopes) /\ Head(scopes)[i] \in alive
    BY DEF Living
  <2>2. InABlock(Head(scopes)[i], <<Head(scopes)>>)
    BY <2>1 DEF InABlock
  <2>3. Head(scopes)[i] \in Child /\ Started(Steps[script], at, Head(scopes)[i])
    BY <2>1 DEF ControlInv, ControlTypes
  <2> QED BY <1>1, <1>2, <2>2, <2>3, ChildrenAreProtected DEF Step
<1> QED BY <1>1, <1>3, <1>4

LEMMA ControlStep ==
  ASSUME NEW agree \in BOOLEAN, ControlInv(agree), agree => ScriptsAgree, [Next]_vars
  PROVE  ControlInv(agree)'
<1> USE DEF ControlInv
<1>types. /\ answers \in [Child -> {"never", "once", "always"}] /\ alive \subseteq Child
          /\ ControlTypes
  BY DEF ControlTypes
<1>1. ASSUME NEW c \in Connection, Open(c) PROVE ControlInv(agree)'
  BY <1>1, <1>types, PlainAdvance DEF Open, Doing, Quiet
<1>2. ASSUME NEW c \in Connection, Close(c) PROVE ControlInv(agree)'
  BY <1>2, <1>types, PlainAdvance DEF Close, Doing, Quiet
<1>3. ASSUME NEW c \in Connection, SetWal(c) PROVE ControlInv(agree)'
  BY <1>3, <1>types, PlainAdvance DEF SetWal, Doing, Quiet
<1>4. ASSUME NEW c \in Connection, Insert(c) PROVE ControlInv(agree)'
  BY <1>4, <1>types, PlainAdvance DEF Insert, Doing, Quiet
<1>5. ASSUME NEW c \in Connection, Update(c) PROVE ControlInv(agree)'
  BY <1>5, <1>types, PlainAdvance DEF Update, Doing, Quiet
<1>6. ASSUME NEW c \in Connection, Commit(c) PROVE ControlInv(agree)'
  BY <1>6, <1>types, PlainAdvance DEF Commit, Doing, Quiet
<1>7. ASSUME NEW c \in Connection, Rollback(c) PROVE ControlInv(agree)'
  BY <1>7, <1>types, PlainAdvance DEF Rollback, Doing, Quiet
<1>8. ASSUME NEW c \in Connection, Backup(c) PROVE ControlInv(agree)'
  BY <1>8, <1>types, PlainAdvance DEF Backup, Doing, Quiet
<1>9. ASSUME NEW c \in Connection, Unlink(c) PROVE ControlInv(agree)'
  BY <1>9, <1>types, PlainAdvance DEF Unlink, Doing, Quiet
<1>10. ASSUME NEW c \in Connection, IsWal(c) PROVE ControlInv(agree)'
  BY <1>10, <1>types, PlainAdvance, RaiseKeepsControl DEF IsWal, Doing, Quiet
<1>11. ASSUME NEW c \in Connection, Pin(c) PROVE ControlInv(agree)'
  BY <1>11, <1>types, PlainAdvance, RaiseKeepsControl DEF Pin, Doing, Quiet
<1>12. ASSUME NEW c \in Connection, Read(c) PROVE ControlInv(agree)'
  BY <1>12, <1>types, PlainAdvance, RaiseKeepsControl DEF Read, Doing, Quiet
<1>13. ASSUME NEW c \in Connection, Checkpoint(c) PROVE ControlInv(agree)'
  BY <1>13, <1>types, PlainAdvance, RaiseKeepsControl DEF Checkpoint, Doing, Quiet
<1>14. ASSUME NEW c \in Connection, Ask(c) PROVE ControlInv(agree)'
  <2>1. answers' \in [Child -> {"never", "once", "always"}]
    BY <1>14, <1>types DEF Ask
  <2> QED BY <1>14, <2>1, PlainAdvance, RaiseKeepsControl DEF Ask, Doing
<1>15. ASSUME NEW c \in Connection, Spawn(c) PROVE ControlInv(agree)'
  <2>1. ~raising /\ at <= Len(Steps[script]) /\ Step.do = "spawn" /\ Step.by = c /\ Advance
    BY <1>15 DEF Spawn, Doing
  <2>2. /\ script \in Script /\ at \in 1..Len(Steps[script]) /\ c \in Child
        /\ Step.value \in {"never", "once", "always"}
    BY <1>types, <2>1, StepTypes DEF ControlTypes
  <2>3. alive' = alive \cup {c} /\ scopes' = scopes /\ answers' = [answers EXCEPT ![c] = Step.value]
    BY <1>15 DEF Spawn
  <2>4. scopes' = Blocks[script][at + 1]
    BY <1>types, <2>1, <2>3, Bracketed
  <2>5. ASSUME NEW x \in alive' PROVE x \in Child /\ Started(Steps[script], at + 1, x)
    <3>1. CASE x = c
      BY <2>1, <2>2, <3>1, StartedNow DEF Step
    <3>2. CASE x \in alive
      <4>1. x \in Child /\ Started(Steps[script], at, x)
        BY <1>types, <2>1, <3>2
      <4> QED BY <2>1, <2>2, <4>1, StartedGoesOn DEF Step
    <3> QED BY <2>3, <3>1, <3>2
  <2>6. answers' \in [Child -> {"never", "once", "always"}]
    BY <1>types, <2>2, <2>3
  <2> QED BY <2>1, <2>4, <2>5, <2>6, AdvanceKeepsControl
<1>16. ASSUME NEW c \in Connection, KillChild(c) \/ Exit(c) PROVE ControlInv(agree)'
  <2>1. /\ ~raising /\ at <= Len(Steps[script]) /\ Step.do \in {"kill", "exit"} /\ Step.by = c
        /\ Advance /\ alive' = alive \ {c} /\ scopes' = scopes /\ answers' = answers
    BY <1>16 DEF KillChild, Exit, Kill, Doing
  <2>2. script \in Script /\ at \in 1..Len(Steps[script])
    BY <1>types, <2>1, StepTypes DEF ControlTypes
  <2>3. scopes' = Blocks[script][at + 1]
    BY <1>types, <2>1, Bracketed
  <2>4. ASSUME NEW x \in alive' PROVE x \in Child /\ Started(Steps[script], at + 1, x)
    <3>1. x \in Child /\ Started(Steps[script], at, x) /\ x # c
      BY <1>types, <2>1
    <3> QED BY <2>1, <2>2, <3>1, StartedGoesOn DEF Step
  <2> QED BY <1>types, <2>1, <2>3, <2>4, AdvanceKeepsControl
<1>17. CASE Try \/ HandOver
  <2>1. /\ ~raising /\ at <= Len(Steps[script]) /\ Step.do \in {"try", "hand over"} /\ Advance
        /\ scopes' = IF Step.do = "try" THEN <<Step.value>> \o scopes ELSE Tail(scopes)
        /\ alive' = alive /\ answers' = answers
    BY <1>17 DEF Try, HandOver, Doing
  <2>2. script \in Script /\ at \in 1..Len(Steps[script])
    BY <1>types, <2>1, StepTypes DEF ControlTypes
  <2>3. scopes' = Blocks[script][at + 1]
    BY <1>types, <2>1, Bracketed
  <2>4. ASSUME NEW x \in alive' PROVE x \in Child /\ Started(Steps[script], at + 1, x)
    <3>1. x \in Child /\ Started(Steps[script], at, x)
      BY <1>types, <2>1
    <3> QED BY <2>1, <2>2, <3>1, StartedGoesOn DEF Step
  <2> QED BY <1>types, <2>1, <2>3, <2>4, AdvanceKeepsControl
<1>18. CASE KillLiving
  <2>1. /\ scopes # <<>> /\ Living # {} /\ alive' = alive \ {FirstLiving} /\ answers' = answers
        /\ UNCHANGED <<script, at, scopes, raising, failures>> /\ Cleaning
    BY <1>18 DEF KillLiving, Kill, Cleaning
  <2>2. raising
    BY <2>1, FinallyFindsNobody
  <2>3. ControlTypes'
    BY <1>types, <2>1 DEF ControlTypes
  <2>4. ASSUME NEW c \in alive' PROVE InABlock(c, scopes)' \/ Excused(agree, c)'
    BY <2>1, <2>2 DEF InABlock, Excused, Step
  <2> QED BY <2>1, <2>2, <2>3, <2>4 DEF SleepersComeFirst
<1>19. CASE LeaveScope
  <2>1. /\ scopes # <<>> /\ Living = {} /\ scopes' = Tail(scopes) /\ alive' = alive
        /\ answers' = answers /\ Cleaning
        /\ IF raising THEN UNCHANGED <<script, at, raising, failures>> ELSE Advance
    BY <1>19 DEF LeaveScope, Cleaning
  <2>2. CASE ~raising
    <3>1. /\ at <= Len(Steps[script]) /\ Step.do = "finally" /\ Advance
          /\ scopes' = Blocks[script][at + 1]
      BY <2>1, <2>2, FinallyFindsNobody
    <3>2. script \in Script /\ at \in 1..Len(Steps[script])
      BY <1>types, <3>1, StepTypes DEF ControlTypes
    <3>3. ASSUME NEW x \in alive' PROVE x \in Child /\ Started(Steps[script], at + 1, x)
      <4>1. x \in Child /\ Started(Steps[script], at, x)
        BY <1>types, <2>1, <2>2
      <4> QED BY <3>1, <3>2, <4>1, StartedGoesOn DEF Step
    <3> QED BY <1>types, <2>1, <2>2, <3>1, <3>3, AdvanceKeepsControl
  <2>3. CASE raising
    <3>1. UNCHANGED <<script, at, raising, failures>>
      BY <2>1, <2>3
    <3>2. scopes \in Seq(Seq(Child))
      BY DEF ControlTypes
    <3>3. ControlTypes' /\ SleepersComeFirst(scopes)'
      BY <2>1, <3>1, <3>2, BlocksBehind DEF ControlTypes, SleepersComeFirst
    <3>4. ASSUME NEW c \in alive' PROVE InABlock(c, scopes)' \/ Excused(agree, c)'
      <4>1. InABlock(c, scopes) \/ Excused(agree, c)
        BY <2>1, <2>3
      <4>2. \A m \in DOMAIN Head(scopes) : Head(scopes)[m] # c
        BY <2>1 DEF Living
      <4>3. InABlock(c, Tail(scopes)) \/ Excused(agree, c)
        BY <2>1, <3>2, <4>1, <4>2, BlocksBehind
      <4> QED BY <2>1, <3>1, <4>3 DEF InABlock, Excused, Step
    <3> QED BY <2>3, <3>1, <3>3, <3>4
  <2> QED BY <2>2, <2>3
<1>20. CASE StepFails
  <2>1. /\ ~raising /\ at <= Len(Steps[script]) /\ Raise /\ Step.do # "try"
        /\ UNCHANGED <<scopes, alive, answers>>
    BY <1>20 DEF StepFails, Quiet
  <2>2. (failures' = failures /\ Step.do # "open") \/ MayFail
    BY <1>20 DEF StepFails, Rejected
  <2> QED BY <1>types, <2>1, <2>2, RaiseKeepsControl
<1>21. CASE KillTimesOut
  <2>1. /\ ~raising /\ at <= Len(Steps[script]) /\ Raise /\ Step.do # "try" /\ MayFail
        /\ scopes' = scopes /\ answers' = answers /\ alive' \subseteq alive
    BY <1>21 DEF KillTimesOut, Kill
  <2> QED BY <1>types, <2>1, RaiseKeepsControl
<1>22. CASE CleaningTimesOut
  <2>1. /\ scopes # <<>> /\ Living # {} /\ scopes' = Tail(scopes) /\ alive' = alive \ {FirstLiving}
        /\ answers' = answers /\ Cleaning /\ MayFail /\ script' = script /\ at' = at /\ raising' = TRUE
    BY <1>22 DEF CleaningTimesOut, Kill, Raise, Cleaning
  <2>2. raising
    BY <2>1, FinallyFindsNobody
  <2>3. scopes \in Seq(Seq(Child)) /\ failures \in Nat /\ failures' = failures + 1
        /\ failures' \in 0..MaxFailures
    BY <2>1, ValueAssumption DEF ControlTypes, MayFail
  <2>4. ControlTypes' /\ SleepersComeFirst(scopes)'
    BY <2>1, <2>3, BlocksBehind DEF ControlTypes, SleepersComeFirst
  <2>5. agree => failures > 0
    BY <2>2 DEF ScriptsAgree
  <2>6. ASSUME NEW c \in alive' PROVE InABlock(c, scopes)' \/ Excused(agree, c)'
    <3>1. c \in alive /\ c # FirstLiving
      BY <2>1
    <3>2. InABlock(c, Tail(scopes)) \/ c \notin Sleeper
      <4>1. CASE InABlock(c, scopes) /\ c \in Sleeper
        <5>1. ASSUME NEW m \in DOMAIN Head(scopes), Head(scopes)[m] = c PROVE FALSE
          <6>1. scopes[1] = Head(scopes) /\ 1 \in DOMAIN scopes
            BY <2>1, <2>3
          <6>2. m = 1
            BY <4>1, <5>1, <6>1 DEF SleepersComeFirst
          <6>3. Min(Living) \in DOMAIN Head(scopes) /\ ~(m < Min(Living))
            BY <2>1, <3>1, <5>1, FirstLivingLives
          <6>4. DOMAIN Head(scopes) \subseteq Nat \ {0}
            BY <2>1, <2>3
          <6>5. Min(Living) = 1
            BY <6>2, <6>3, <6>4
          <6> QED BY <3>1, <5>1, <6>2, <6>5 DEF FirstLiving
        <5> QED BY <2>1, <2>3, <4>1, <5>1, BlocksBehind
      <4>2. CASE ~InABlock(c, scopes)
        BY <2>2, <3>1, <4>2 DEF Excused
      <4> QED BY <4>1, <4>2
    <3>3. c \notin Sleeper => Excused(agree, c)'
      BY <2>3, <2>5 DEF Excused
    <3> QED BY <2>1, <3>2, <3>3 DEF InABlock
  <2> QED BY <2>1, <2>4, <2>6
<1>23. CASE Stopped \/ UNCHANGED vars
  <2>1. UNCHANGED vars
    BY <1>23 DEF Stopped
  <2> QED BY <1>types, <2>1 DEF vars, processes, ControlTypes, SleepersComeFirst, InABlock, Excused, Step
<1> QED BY <1>1, <1>2, <1>3, <1>4, <1>5, <1>6, <1>7, <1>8, <1>9, <1>10, <1>11, <1>12, <1>13, <1>14,
           <1>15, <1>16, <1>17, <1>18, <1>19, <1>20, <1>21, <1>22, <1>23 DEF Next

----------------------------------------------------------------------------
(***************************************************************************)
(* The steps of the scripts on the databases.                              *)
(***************************************************************************)

\* The marks of a database's connections but for some.
MarksBut(d, C) == {mark[x] : x \in {y \in Connection \ C : Home[y] = d}} \ {NoSnapshot}

LEMMA MarksOfOthers ==
  ASSUME EngineInv, NEW c \in Connection
  PROVE  MarksBut(Home[c], {c}) = Marks(Others(c))
BY DEF MarksBut, Marks, Others, EngineInv, EngineTypes, SnapshotsAreHeld

LEMMA MarksOfUsers ==
  ASSUME EngineInv, NEW d \in Database
  PROVE  MarksBut(d, {}) = Marks(Users(d))
BY DEF MarksBut, Marks, Users, EngineInv, EngineTypes, SnapshotsAreHeld

\* A step writes a database; whoever stays in a transaction, or enters one, has a snapshot
\* within the log that is left.
LEMMA Written ==
  ASSUME EngineInv, NEW d \in Database, NEW g, NEW C,
         HoldsMarks(g, MarksBut(d, C)), file' = [file EXCEPT ![d] = g],
         open' \subseteq Connection, mark' \in [Connection -> Nat \cup {NoSnapshot}],
         pending' \in [Connection -> Value \cup {Nothing}],
         \A c \in Connection : mark'[c] # NoSnapshot =>
           mark'[c] = mark[c] /\ c \in open' /\ c \notin C
  PROVE  EngineInv'
<1>1. Sound(g) /\ \A m \in MarksBut(d, C) : m <= Len(g.log)
  BY DEF HoldsMarks
<1>2. file' \in [Database -> Files] /\ file'[d] = g /\ \A e \in Database \ {d} : file'[e] = file[e]
  BY <1>1 DEF EngineInv, EngineTypes, Sound
<1>3. EngineTypes' /\ \A e \in Database : Sound(file'[e])
  BY <1>1, <1>2 DEF EngineInv, EngineTypes
<1>4. ASSUME NEW c \in Connection, mark'[c] # NoSnapshot
      PROVE  c \in open' /\ mark'[c] <= Len(file'[Home[c]].log)
  <2>1. mark'[c] = mark[c] /\ c \in open' /\ c \notin C /\ Home[c] \in Database
    BY <1>4, ConnectionAssumption
  <2>2. CASE Home[c] = d
    <3>1. mark[c] \in MarksBut(d, C)
      BY <1>4, <2>1, <2>2 DEF MarksBut
    <3> QED BY <1>1, <1>2, <2>1, <2>2, <3>1
  <2>3. CASE Home[c] # d
    BY <1>2, <1>4, <2>1, <2>3 DEF EngineInv, SnapshotsAreHeld
  <2> QED BY <2>2, <2>3
<1> QED BY <1>3, <1>4 DEF EngineInv, SnapshotsAreHeld

LEMMA NotWritten ==
  ASSUME EngineInv, UNCHANGED file,
         open' \subseteq Connection, mark' \in [Connection -> Nat \cup {NoSnapshot}],
         pending' \in [Connection -> Value \cup {Nothing}],
         \A c \in Connection : mark'[c] # NoSnapshot =>
           c \in open' /\ (mark'[c] = mark[c] \/ mark'[c] <= Len(file[Home[c]].log))
  PROVE  EngineInv'
<1>1. EngineTypes' /\ \A d \in Database : Sound(file'[d])
  BY DEF EngineInv, EngineTypes
<1>2. SnapshotsAreHeld'
  BY DEF EngineInv, SnapshotsAreHeld
<1> QED BY <1>1, <1>2 DEF EngineInv

\* Nobody enters or leaves a transaction.
LEMMA Staying ==
  ASSUME EngineInv, open \subseteq open', open' \subseteq Connection, UNCHANGED <<mark, pending>>
  PROVE  /\ UNCHANGED file => EngineInv'
         /\ \A d \in Database : \A g :
              file' = [file EXCEPT ![d] = g] /\ HoldsMarks(g, MarksBut(d, {})) => EngineInv'
<1>1. /\ mark' \in [Connection -> Nat \cup {NoSnapshot}]
      /\ pending' \in [Connection -> Value \cup {Nothing}]
      /\ \A c \in Connection : mark'[c] # NoSnapshot =>
           mark'[c] = mark[c] /\ c \in open' /\ c \notin {}
  BY DEF EngineInv, EngineTypes, SnapshotsAreHeld
<1>2. UNCHANGED file => EngineInv'
  BY <1>1, NotWritten
<1>3. ASSUME NEW d \in Database, NEW g, file' = [file EXCEPT ![d] = g], HoldsMarks(g, MarksBut(d, {}))
      PROVE  EngineInv'
  <2>1. PICK C : C = {}
    OBVIOUS
  <2>2. /\ HoldsMarks(g, MarksBut(d, C))
        /\ \A c \in Connection : mark'[c] # NoSnapshot =>
             mark'[c] = mark[c] /\ c \in open' /\ c \notin C
    BY <1>1, <1>3, <2>1
  <2> QED BY <1>1, <1>3, <2>2, Written
<1> QED BY <1>2, <1>3

\* c leaves its transaction, if it is in one.
LEMMA Leaving ==
  ASSUME EngineInv, NEW c \in Connection, open \ {c} \subseteq open', open' \subseteq open,
         mark' = [mark EXCEPT ![c] = NoSnapshot], pending' = [pending EXCEPT ![c] = Nothing]
  PROVE  /\ UNCHANGED file => EngineInv'
         /\ \A g : file' = [file EXCEPT ![Home[c]] = g] /\ HoldsMarks(g, Marks(Others(c))) => EngineInv'
<1>1. /\ mark' \in [Connection -> Nat \cup {NoSnapshot}] /\ open' \subseteq Connection
      /\ pending' \in [Connection -> Value \cup {Nothing}] /\ Home[c] \in Database
      /\ \A x \in Connection : mark'[x] # NoSnapshot =>
           mark'[x] = mark[x] /\ x \in open' /\ x \notin {c}
  BY ConnectionAssumption DEF EngineInv, EngineTypes, SnapshotsAreHeld
<1>2. UNCHANGED file => EngineInv'
  BY <1>1, NotWritten
<1>3. ASSUME NEW g, file' = [file EXCEPT ![Home[c]] = g], HoldsMarks(g, Marks(Others(c)))
      PROVE  EngineInv'
  <2>1. HoldsMarks(g, MarksBut(Home[c], {c}))
    BY <1>3, MarksOfOthers
  <2> QED BY <1>1, <1>3, <2>1, Written
<1> QED BY <1>2, <1>3

\* c enters a transaction, with an update or without.
LEMMA Entering ==
  ASSUME EngineInv, NEW c \in Connection, NEW v \in Value \cup {Nothing}, c \in open,
         UNCHANGED <<file, open>>, mark' = [mark EXCEPT ![c] = FreshMark(Home[c])],
         pending' = [pending EXCEPT ![c] = v]
  PROVE  EngineInv'
<1>1. FreshMark(Home[c]) \in Nat /\ FreshMark(Home[c]) <= Len(file[Home[c]].log)
  BY SnapshotMarks DEF FreshMark, Frames
<1>2. PICK m : m = FreshMark(Home[c])
  OBVIOUS
<1>3. /\ mark' \in [Connection -> Nat \cup {NoSnapshot}] /\ open' \subseteq Connection
      /\ pending' \in [Connection -> Value \cup {Nothing}]
      /\ \A x \in Connection : mark'[x] # NoSnapshot =>
           x \in open' /\ (mark'[x] = mark[x] \/ mark'[x] <= Len(file[Home[x]].log))
  BY <1>1, <1>2 DEF EngineInv, EngineTypes, SnapshotsAreHeld
<1> QED BY <1>3, NotWritten

LEMMA NotRefused ==
  ASSUME ~Rejected(Step)
  PROVE  LET c == Step.by IN
         /\ Step.do \in {"pin", "update", "insert", "checkpoint"} =>
              c \in open /\ mark[c] = NoSnapshot
         /\ Step.do = "backup" => Marks(Users(Home[Step.value])) = {}
         /\ Step.do = "unlink" => Marks(Users(Home[c])) = {}
BY DEF Rejected

LEMMA EmptyFiles ==
  /\ Sound(Missing)
  /\ \A w \in BOOLEAN, v \in Value \cup {Nothing} : Sound([Missing EXCEPT !.wal = w, !.base = v])
<1>1. <<>> \in Seq(Value) /\ Len(<<>>) = 0
  OBVIOUS
<1>2. Sound(Missing)
  BY <1>1 DEF Missing, Files, Sound
<1>3. ASSUME NEW w \in BOOLEAN, NEW v \in Value \cup {Nothing}
      PROVE  Sound([Missing EXCEPT !.wal = w, !.base = v])
  <2>1. PICK f : f = [Missing EXCEPT !.wal = w, !.base = v]
    OBVIOUS
  <2>2. f = [wal |-> w, base |-> v, log |-> <<>>, backfilled |-> 0]
    BY <2>1 DEF Missing
  <2>3. f \in Files /\ f.log = <<>> /\ f.backfilled = 0
    BY <1>1, <2>2 DEF Files
  <2>4. Sound(f)
    BY <1>1, <2>3 DEF Sound
  <2> QED BY <2>1, <2>4
<1> QED BY <1>2, <1>3

\* A file that is put in the place of one that nobody reads.
LEMMA Replacing ==
  ASSUME EngineInv, NEW d \in Database, NEW g, Sound(g), Marks(Users(d)) = {},
         file' = [file EXCEPT ![d] = g], UNCHANGED <<open, mark, pending>>
  PROVE  EngineInv'
<1>1. HoldsMarks(g, MarksBut(d, {}))
  BY MarksOfUsers DEF HoldsMarks
<1> QED BY <1>1, Staying DEF EngineInv, EngineTypes

LEMMA EngineStep == EngineInv /\ ControlInv(FALSE) /\ [Next]_vars => EngineInv'
<1> SUFFICES ASSUME EngineInv, ControlInv(FALSE), [Next]_vars PROVE EngineInv'
    OBVIOUS
<1>types. ControlTypes /\ open \subseteq Connection /\ Child \subseteq Connection
  BY ConnectionAssumption DEF ControlInv, EngineInv, EngineTypes
<1>idle. ASSUME UNCHANGED engine PROVE EngineInv'
  BY <1>types, <1>idle, Staying DEF engine
<1>1. ASSUME NEW c \in Connection, Open(c) PROVE EngineInv'
  <2>1. /\ open' = open \cup {c} /\ UNCHANGED <<mark, pending>>
        /\ file' = [file EXCEPT ![Home[c]] = Recovered(c)] /\ Home[c] \in Database
    BY <1>1, ConnectionAssumption DEF Open, Becomes
  <2>2. HoldsMarks(Recovered(c), MarksBut(Home[c], {}))
    BY RecoveredIsHeld DEF HoldsMarks, MarksBut, EngineInv, SnapshotsAreHeld
  <2>3. open \subseteq open' /\ open' \subseteq Connection
    BY <1>types, <2>1
  <2> QED BY <2>1, <2>2, <2>3, Staying
<1>2. ASSUME NEW c \in Connection, Close(c) \/ Exit(c) PROVE EngineInv'
  BY <1>2, ClosedIsHeld, Leaving DEF Close, Exit, Detach, Becomes
<1>3. ASSUME NEW c \in Connection, SetWal(c) PROVE EngineInv'
  <2>1. PICK f, g : f = file[Home[c]] /\ g = [f EXCEPT !.wal = TRUE]
    OBVIOUS
  <2>2. /\ file' = [file EXCEPT ![Home[c]] = g] /\ UNCHANGED <<open, mark, pending>>
        /\ Home[c] \in Database /\ Sound(f)
    BY <1>3, <2>1, SnapshotMarks DEF SetWal, Becomes, HoldsMarks
  <2>3. Sound(g) /\ g.log = f.log
    BY <2>1, <2>2 DEF Sound, Files
  <2>4. HoldsMarks(g, MarksBut(Home[c], {}))
    BY <2>1, <2>3 DEF HoldsMarks, MarksBut, EngineInv, SnapshotsAreHeld
  <2> QED BY <1>types, <2>2, <2>4, Staying
<1>4. ASSUME NEW c \in Connection, Insert(c) PROVE EngineInv'
  <2>1. /\ ~Rejected(Step) /\ Step.by = c /\ Step.do = "insert" /\ at <= Len(Steps[script])
        /\ file' = [file EXCEPT ![Home[c]] = Stored(c, FreshMark(Home[c]), Step.value)]
        /\ UNCHANGED <<open, mark, pending>>
    BY <1>4 DEF Insert, Doing, Becomes
  <2>2. mark[c] = NoSnapshot /\ Step.value \in Value /\ Home[c] \in Database
    BY <1>types, <2>1, NotRefused, StepTypes, ConnectionAssumption
  <2>3. PICK g, C : g = Stored(c, FreshMark(Home[c]), Step.value) /\ C = {c}
    OBVIOUS
  <2>4. HoldsMarks(g, MarksBut(Home[c], C))
    BY <2>2, <2>3, StoredIsHeld, MarksOfOthers
  <2>5. /\ open' \subseteq Connection /\ mark' \in [Connection -> Nat \cup {NoSnapshot}]
        /\ pending' \in [Connection -> Value \cup {Nothing}]
        /\ \A x \in Connection : mark'[x] # NoSnapshot =>
             mark'[x] = mark[x] /\ x \in open' /\ x \notin C
    BY <2>1, <2>2, <2>3 DEF EngineInv, EngineTypes, SnapshotsAreHeld
  <2>6. file' = [file EXCEPT ![Home[c]] = g]
    BY <2>1, <2>3
  <2> QED BY ONLY EngineInv, <2>2, <2>4, <2>5, <2>6, Written
<1>5. ASSUME NEW c \in Connection, IsWal(c) \/ Read(c) PROVE EngineInv'
  BY <1>idle, <1>5 DEF IsWal, Read
<1>6. ASSUME NEW c \in Connection, Pin(c) PROVE EngineInv'
  <2>1. CASE Select(c) = Step.value
    <3>1. /\ ~Rejected(Step) /\ Step.by = c /\ Step.do = "pin" /\ UNCHANGED <<file, open, pending>>
          /\ mark' = [mark EXCEPT ![c] = FreshMark(Home[c])]
      BY <1>6, <2>1 DEF Pin, Doing
    <3>2. c \in open
      BY <3>1, NotRefused
    <3>3. PICK v : v = pending[c]
      OBVIOUS
    <3>4. v \in Value \cup {Nothing} /\ pending' = [pending EXCEPT ![c] = v]
      BY <3>1, <3>3 DEF EngineInv, EngineTypes
    <3> QED BY <3>1, <3>2, <3>4, Entering
  <2>2. CASE Select(c) # Step.value
    BY <1>idle, <1>6, <2>2 DEF Pin, engine
  <2> QED BY <2>1, <2>2
<1>7. ASSUME NEW c \in Connection, Update(c) PROVE EngineInv'
  <2>1. /\ ~Rejected(Step) /\ Step.by = c /\ Step.do = "update" /\ UNCHANGED <<file, open>>
        /\ mark' = [mark EXCEPT ![c] = FreshMark(Home[c])] /\ at <= Len(Steps[script])
        /\ pending' = [pending EXCEPT ![c] = Step.value]
    BY <1>7 DEF Update, Doing
  <2>2. PICK v : v = Step.value
    OBVIOUS
  <2>3. c \in open /\ v \in Value
    BY <1>types, <2>1, <2>2, NotRefused, StepTypes
  <2> QED BY <2>1, <2>2, <2>3, Entering
<1>8. ASSUME NEW c \in Connection, Commit(c) PROVE EngineInv'
  <2>1. /\ open' = open
        /\ mark' = [mark EXCEPT ![c] = NoSnapshot] /\ pending' = [pending EXCEPT ![c] = Nothing]
        /\ IF pending[c] = Nothing THEN UNCHANGED file
           ELSE file' = [file EXCEPT ![Home[c]] = Stored(c, mark[c], pending[c])]
    BY <1>8 DEF Commit, Becomes
  <2>2. CASE pending[c] = Nothing
    BY <2>1, <2>2, Leaving
  <2>3. CASE pending[c] # Nothing
    <3>1. PICK m, v : m = mark[c] /\ v = pending[c]
      OBVIOUS
    <3>2. v \in Value
      BY <2>3, <3>1 DEF EngineInv, EngineTypes
    <3>3. HoldsMarks(Stored(c, m, v), Marks(Others(c)))
      BY <3>2, StoredIsHeld
    <3> QED BY <2>1, <2>3, <3>1, <3>3, Leaving
  <2> QED BY <2>2, <2>3
<1>9. ASSUME NEW c \in Connection, Rollback(c) PROVE EngineInv'
  BY <1>9, Leaving DEF Rollback
<1>10. ASSUME NEW c \in Connection, Checkpoint(c) PROVE EngineInv'
  <2>1. /\ ~Rejected(Step) /\ Step.by = c /\ Step.do = "checkpoint"
        /\ file' = [file EXCEPT ![Home[c]] = Checkpointed(c)] /\ UNCHANGED <<open, mark, pending>>
    BY <1>10 DEF Checkpoint, Doing, Becomes
  <2>2. mark[c] = NoSnapshot /\ Home[c] \in Database
    BY <2>1, NotRefused, ConnectionAssumption
  <2>3. MarksBut(Home[c], {}) = MarksBut(Home[c], {c})
    BY <2>2 DEF MarksBut
  <2>4. HoldsMarks(Checkpointed(c), MarksBut(Home[c], {}))
    BY <2>3, CheckpointIsHeld, MarksOfOthers
  <2> QED BY <1>types, <2>1, <2>2, <2>4, Staying
<1>11. ASSUME NEW c \in Connection, Backup(c) PROVE EngineInv'
  <2>1. PICK d, v, g :
          /\ d = Home[Step.value] /\ v = ValueAt(Home[c], FreshMark(Home[c]))
          /\ g = [Missing EXCEPT !.wal = file[Home[c]].wal, !.base = v]
    OBVIOUS
  <2>2. /\ ~Rejected(Step) /\ Step.by = c /\ Step.do = "backup" /\ at <= Len(Steps[script])
        /\ UNCHANGED <<open, mark, pending>> /\ file' = [file EXCEPT ![d] = g]
    BY <1>11, <2>1 DEF Backup, Doing, Becomes
  <2>3. d \in Database /\ Marks(Users(d)) = {} /\ Sound(file[Home[c]])
    BY <1>types, <2>1, <2>2, NotRefused, StepTypes, SnapshotMarks, ConnectionAssumption DEF HoldsMarks
  <2>4. file[Home[c]].wal \in BOOLEAN /\ v \in Value \cup {Nothing}
    <3>1. PICK f : f = file[Home[c]]
      OBVIOUS
    <3>2. Sound(f) /\ Len(f.log) \in Nat /\ \A m \in 1..Len(f.log) : f.log[m] \in Value
      BY <2>3, <3>1, LogValues
    <3>3. v = IF f.backfilled = Len(f.log) THEN f.base
              ELSE IF Len(f.log) = 0 THEN f.base ELSE f.log[Len(f.log)]
      BY <2>1, <3>1 DEF ValueAt, FreshMark, Frames
    <3> QED BY <3>1, <3>2, <3>3 DEF Sound, Files
  <2>5. Sound(g)
    BY <2>1, <2>4, EmptyFiles
  <2> QED BY <2>2, <2>3, <2>5, Replacing
<1>12. ASSUME NEW c \in Connection, Unlink(c) PROVE EngineInv'
  <2>1. /\ ~Rejected(Step) /\ Step.by = c /\ Step.do = "unlink"
        /\ UNCHANGED <<open, mark, pending>> /\ file' = [file EXCEPT ![Home[c]] = Missing]
    BY <1>12 DEF Unlink, Doing, Becomes
  <2>2. Marks(Users(Home[c])) = {} /\ Home[c] \in Database
    BY <2>1, NotRefused, ConnectionAssumption
  <2> QED BY <2>1, <2>2, EmptyFiles, Replacing
<1>13. ASSUME NEW c \in Connection, Spawn(c) \/ Ask(c) PROVE EngineInv'
  BY <1>idle, <1>13 DEF Spawn, Ask
<1>14. ASSUME NEW c \in Connection, Kill(c) PROVE EngineInv'
  BY <1>14, Leaving DEF Kill, Detach
<1>15. ASSUME NEW c \in Connection, KillChild(c) PROVE EngineInv'
  BY <1>14, <1>15 DEF KillChild
<1>16. CASE Try \/ HandOver \/ LeaveScope \/ StepFails \/ Stopped \/ UNCHANGED vars
  BY <1>idle, <1>16 DEF Try, HandOver, LeaveScope, StepFails, Stopped, vars
<1>17. CASE KillLiving \/ CleaningTimesOut
  <2>1. Kill(FirstLiving) /\ scopes # <<>> /\ Living # {}
    BY <1>17 DEF KillLiving, CleaningTimesOut, Cleaning
  <2>2. FirstLiving \in Connection
    BY <1>types, <2>1, FirstLivingLives DEF ControlTypes
  <2> QED BY <1>14, <2>1, <2>2
<1>18. CASE KillTimesOut
  <2>1. Kill(Step.by) /\ Step.by \in Connection
    BY <1>types, <1>18, StepTypes DEF KillTimesOut
  <2> QED BY <1>14, <2>1
<1> QED BY <1>1, <1>2, <1>3, <1>4, <1>5, <1>6, <1>7, <1>8, <1>9, <1>10, <1>11, <1>12, <1>13,
           <1>15, <1>16, <1>17, <1>18 DEF Next

----------------------------------------------------------------------------
LEMMA InitiallySound ==
  ASSUME Init
  PROVE  EngineInv /\ \A agree \in BOOLEAN : ControlInv(agree)
<1>1. EngineInv
  <2>1. EngineTypes /\ \A d \in Database : Sound(file[d])
    BY EmptyFiles DEF Init, EngineTypes, Sound
  <2> QED BY <2>1 DEF EngineInv, Init, SnapshotsAreHeld
<1>2. \A agree \in BOOLEAN : ControlInv(agree)
  <2>1. script \in Script /\ Len(Steps[script]) \in Nat /\ 1 \in 1..(Len(Steps[script]) + 1)
    BY StepsAreTyped DEF Init
  <2>2. Blocks[script][1] = <<>>
    BY <2>1, BlocksAreNested
  <2>3. <<>> \in Seq(Seq(Child)) /\ SleepersComeFirst(<<>>) /\ 0 \in 0..MaxFailures
    BY ValueAssumption DEF SleepersComeFirst
  <2> QED BY <2>1, <2>2, <2>3 DEF Init, ControlInv, ControlTypes
<1> QED BY <1>1, <1>2

LEMMA Invariance == Spec => [](EngineInv /\ ControlInv(FALSE))
<1>1. Init => EngineInv /\ ControlInv(FALSE)
  BY InitiallySound
<1>2. EngineInv /\ ControlInv(FALSE) /\ [Next]_vars => (EngineInv /\ ControlInv(FALSE))'
  BY EngineStep, ControlStep
<1> QED BY <1>1, <1>2, PTL DEF Spec

\* Every script, whatever fails in it, leaves the variables what their names say.
THEOREM TypeCorrect == Spec => []TypeOK
<1>1. EngineInv /\ ControlInv(FALSE) => TypeOK
  BY DEF EngineInv, EngineTypes, ControlInv, ControlTypes, TypeOK, Files
<1> QED BY <1>1, Invariance, PTL

\* At the end of a script that raised nothing, no child runs: every block was left.
LEMMA NobodyIsLeftAtTheEnd ==
  ASSUME NEW agree \in BOOLEAN, ControlInv(agree), ~raising, at > Len(Steps[script])
  PROVE  alive = {}
<1>1. /\ script \in Script /\ Len(Steps[script]) \in Nat /\ at = Len(Steps[script]) + 1
      /\ at \in 1..(Len(Steps[script]) + 1)
  BY StepsAreTyped DEF ControlInv, ControlTypes
<1>2. ASSUME NEW c \in alive PROVE FALSE
  <2>1. c \in Child /\ Started(Steps[script], at, c)
    BY DEF ControlInv, ControlTypes
  <2>2. Blocks[script][at] = <<>>
    BY <1>1, BlocksAreNested
  <2>3. ~InABlock(c, Blocks[script][at])
    BY <2>2 DEF InABlock
  <2>4. ~(at <= Len(Steps[script]))
    BY <1>1
  <2> QED BY <1>1, <2>1, <2>3, <2>4, ChildrenAreProtected
<1> QED BY <1>2

\* No writer, which would sleep for ever or until its pipe closes, is left running when its
\* target ends, however many operations failed on the way, those of the cleanup included.
THEOREM WritersAreEnded == Spec => [](Over => alive \cap Sleeper = {})
<1>1. ASSUME EngineInv /\ ControlInv(FALSE), Over PROVE alive \cap Sleeper = {}
  <2>1. CASE raising
    <3>1. scopes = <<>>
      BY <1>1, <2>1 DEF Over, Cleaning
    <3> QED BY <1>1, <2>1, <3>1 DEF ControlInv, InABlock, Excused
  <2>2. CASE ~raising
    BY <1>1, <2>2, NobodyIsLeftAtTheEnd DEF Over
  <2> QED BY <2>1, <2>2
<1>2. EngineInv /\ ControlInv(FALSE) => (Over => alive \cap Sleeper = {})
  BY <1>1
<1> QED BY <1>2, Invariance, PTL

\* A script whose expectations agree, so that only failures make it raise, leaves no child
\* running if nothing failed, and if one operation failed at most the reader that was started
\* before a connect.
THEOREM ChildrenAreEnded == Spec /\ []ScriptsAgree => []NothingIsLeftRunning
<1>1. Init => ControlInv(TRUE)
  BY InitiallySound
<1>2. ControlInv(TRUE) /\ ScriptsAgree /\ [Next]_vars => ControlInv(TRUE)'
  BY ControlStep
<1>3. ASSUME ControlInv(TRUE), ScriptsAgree, Over
      PROVE  /\ alive \cap Sleeper = {}
             /\ failures = 0 => alive = {}
             /\ failures = 1 /\ alive # {} => Step.do = "open"
  <2>1. CASE raising
    <3>1. scopes = <<>>
      BY <1>3, <2>1 DEF Over, Cleaning
    <3>2. \A c \in alive : Excused(TRUE, c)
      <4>1. \A c \in alive : InABlock(c, scopes) \/ Excused(TRUE, c)
        BY <1>3, <2>1 DEF ControlInv
      <4>2. \A c : ~InABlock(c, scopes)
        BY <3>1 DEF InABlock
      <4> QED BY <4>1, <4>2
    <3> QED BY <3>2 DEF Excused
  <2>2. CASE ~raising
    BY <1>3, <2>2, NobodyIsLeftAtTheEnd DEF Over
  <2> QED BY <2>1, <2>2
<1>4. ControlInv(TRUE) /\ ScriptsAgree => NothingIsLeftRunning
  BY <1>3 DEF NothingIsLeftRunning
<1> QED BY <1>1, <1>2, <1>4, PTL DEF Spec

-----------------------------------------------------------------------------

LEMMA MaxIsGreatest ==
  ASSUME NEW n \in Nat, NEW S \in SUBSET (1..n), S # {}
  PROVE  Max(S) \in S /\ \A y \in S : Max(S) >= y
<1> DEFINE T == {n - x : x \in S}
<1>1. T \in SUBSET Nat /\ T # {}
  <2>1. \A x \in S : n - x \in Nat
    OBVIOUS
  <2> QED BY <2>1
<1>2. Min(T) \in T /\ \A y \in T : Min(T) <= y
  <2> HIDE DEF T
  <2> QED BY <1>1, MinIsLeast
<1>3. PICK x \in S : Min(T) = n - x
  BY <1>2
<1>4. ASSUME NEW y \in S PROVE x >= y
  <2>1. n - x <= n - y
    BY <1>2, <1>3
  <2> QED BY <2>1
<1> HIDE DEF T
<1> QED BY <1>4 DEF Max

----------------------------------------------------------------------------
(***************************************************************************)
(* Sums.  Total is a fold; it is the last of the partial sums.             *)
(***************************************************************************)
IsFold(g, s, n) ==
  g = [t \in SUBSET (1..n) |-> IF t = {} THEN 0 ELSE g[t \ {Max(t)}] + s[Max(t)]]
Fold(s, n) == CHOOSE g : IsFold(g, s, n)

LEMMA TotalIsAFold ==
  ASSUME NEW s, DOMAIN s = 1..Len(s)
  PROVE  Total(s) = Fold(s, Len(s))[1..Len(s)]
BY DEF Total, FoldLeft, MapThenFoldSet, Fold, IsFold

LEMMA FoldExists ==
  ASSUME NEW s \in Seq(Nat), NEW n \in 0..Len(s)
  PROVE  \E g \in [SUBSET (1..n) -> Nat] : IsFold(g, s, n)
<1> DEFINE Bad == {k \in 0..Len(s) : ~ \E g \in [SUBSET (1..k) -> Nat] : IsFold(g, s, k)}
<1>1. Bad = {}
  <2> SUFFICES ASSUME Bad # {} PROVE FALSE
    OBVIOUS
  <2>1. PICK k \in Bad : \A j \in Bad : k <= j
    <3>1. Bad \in SUBSET Nat
      OBVIOUS
    <3> HIDE DEF Bad
    <3> QED BY <3>1, MinIsLeast
  <2>2. CASE k = 0
    <3> DEFINE g == [t \in {{}} |-> 0]
    <3>1. SUBSET (1..0) = {{}}
      OBVIOUS
    <3>2. g \in [SUBSET (1..0) -> Nat] /\ IsFold(g, s, 0)
      BY <3>1 DEF IsFold
    <3>3. \E f \in [SUBSET (1..0) -> Nat] : IsFold(f, s, 0)
      BY <3>2
    <3> QED BY <2>1, <2>2, <3>3
  <2>3. CASE k # 0
    <3>0. k \in 0..Len(s)
      BY <2>1
    <3>1. k \in Nat /\ k \in 1..Len(s) /\ k - 1 \in 0..Len(s) /\ k - 1 \notin Bad
      <4> HIDE DEF Bad
      <4> QED BY <2>1, <2>3, <3>0
    <3>2. PICK h \in [SUBSET (1..(k - 1)) -> Nat] : IsFold(h, s, k - 1)
      BY <3>1
    <3> DEFINE g == [t \in SUBSET (1..k) |-> IF k \in t THEN h[t \ {k}] + s[k] ELSE h[t]]
    <3>3. \A t \in SUBSET (1..k) : /\ k \in t => t \ {k} \in SUBSET (1..(k - 1))
                                   /\ k \notin t => t \in SUBSET (1..(k - 1))
      BY <3>1
    <3>4. g \in [SUBSET (1..k) -> Nat]
      <4>1. \A t \in SUBSET (1..k) : (IF k \in t THEN h[t \ {k}] + s[k] ELSE h[t]) \in Nat
        <5> SUFFICES ASSUME NEW t \in SUBSET (1..k)
                     PROVE  (IF k \in t THEN h[t \ {k}] + s[k] ELSE h[t]) \in Nat
          OBVIOUS
        <5>1. s[k] \in Nat
          BY <3>1
        <5>2. k \in t => h[t \ {k}] \in Nat
          BY <3>2, <3>3
        <5>3. k \notin t => h[t] \in Nat
          BY <3>2, <3>3
        <5> QED BY <5>1, <5>2, <5>3
      <4> QED BY <4>1
    <3>5. ASSUME NEW t \in SUBSET (1..k)
          PROVE  g[t] = IF t = {} THEN 0 ELSE g[t \ {Max(t)}] + s[Max(t)]
      <4>1. CASE t = {}
        <5>1. g[t] = h[{}]
          BY <4>1
        <5>2. h[{}] = 0
          BY <3>2 DEF IsFold
        <5> QED BY <4>1, <5>1, <5>2
      <4>2. CASE k \in t
        <5>1. Max(t) \in t /\ Max(t) >= k
          <6>1. t # {} BY <4>2
          <6>2. Max(t) \in t /\ \A y \in t : Max(t) >= y
            BY <3>1, <6>1, MaxIsGreatest
          <6> QED BY <4>2, <6>2
        <5>2. Max(t) = k
          <6>1. Max(t) \in 1..k BY <5>1
          <6> QED BY <3>1, <5>1, <6>1
        <5>3. g[t] = h[t \ {k}] + s[k]
          BY <4>2
        <5>4. t \ {k} \in SUBSET (1..k) /\ g[t \ {k}] = h[t \ {k}]
          BY <3>3
        <5> QED BY <4>2, <5>2, <5>3, <5>4
      <4>3. CASE t # {} /\ k \notin t
        <5>1. t \in SUBSET (1..(k - 1))
          BY <3>3, <4>3
        <5>2. Max(t) \in t
          <6>1. t # {} BY <4>3
          <6> QED BY <3>1, <6>1, MaxIsGreatest
        <5>3. g[t] = h[t]
          BY <4>3
        <5>4. h[t] = h[t \ {Max(t)}] + s[Max(t)]
          BY <3>2, <4>3, <5>1 DEF IsFold
        <5>5. t \ {Max(t)} \in SUBSET (1..k) /\ k \notin t \ {Max(t)}
          BY <4>3
        <5>6. g[t \ {Max(t)}] = h[t \ {Max(t)}]
          BY <5>5
        <5> QED BY <4>3, <5>3, <5>4, <5>6
      <4> QED BY <4>1, <4>2, <4>3
    <3>6. IsFold(g, s, k)
      <4>1. DOMAIN g = SUBSET (1..k)
        OBVIOUS
      <4> HIDE DEF g
      <4> QED BY <3>4, <3>5, <4>1 DEF IsFold
    <3> QED BY <2>1, <3>4, <3>6
  <2> QED BY <2>2, <2>3
<1> QED BY <1>1

\* The partial sums of s.
Partial(p, s) ==
  /\ p \in [0..Len(s) -> Nat] /\ p[0] = 0
  /\ \A i \in 1..Len(s) : p[i] = p[i - 1] + s[i]

LEMMA TotalIsPartial ==
  ASSUME NEW s \in Seq(Nat)
  PROVE  \E p : Partial(p, s) /\ Total(s) = p[Len(s)]
<1> DEFINE n == Len(s)
           G == Fold(s, n)
<1>1. n \in Nat /\ DOMAIN s = 1..n
  OBVIOUS
<1>2. IsFold(G, s, n)
  <2>1. n \in 0..Len(s)
    BY <1>1
  <2>2. \E g : IsFold(g, s, n)
    <3> HIDE DEF n
    <3> QED BY <2>1, FoldExists
  <2> QED BY <2>2 DEF Fold
<1>3. \A i \in 0..n : 1..i \in SUBSET (1..n)
  BY <1>1
<1>4. ASSUME NEW i \in 1..n PROVE G[1..i] = G[1..(i - 1)] + s[i]
  <2>0. i \in Nat /\ i \in 1..i /\ 1..i \in SUBSET (1..i) /\ 1..i # {}
    BY <1>1
  <2>1. 1..i # {} /\ Max(1..i) \in 1..i /\ Max(1..i) >= i
    <3>1. Max(1..i) \in 1..i /\ \A y \in 1..i : Max(1..i) >= y
      BY <2>0, MaxIsGreatest
    <3> QED BY <2>0, <3>1
  <2>2. Max(1..i) = i /\ (1..i) \ {i} = 1..(i - 1)
    BY <1>1, <2>1
  <2>3. 1..i \in SUBSET (1..n)
    BY <1>1, <1>3
  <2> HIDE DEF G, n
  <2> QED BY <1>2, <2>1, <2>2, <2>3 DEF IsFold
<1>5. G[1..0] = 0
  BY <1>2, <1>1 DEF IsFold
<1> DEFINE p == [i \in 0..n |-> G[1..i]]
<1>6. ASSUME NEW i \in 0..n PROVE p[i] \in Nat
  <2> DEFINE Bad == {k \in 0..n : G[1..k] \notin Nat}
  <2> SUFFICES Bad = {}
    OBVIOUS
  <2>2. ASSUME Bad # {} PROVE FALSE
    <3>1. Bad \in SUBSET Nat
      BY <1>1
    <3>2. PICK k \in Bad : \A j \in Bad : k <= j
      <4> HIDE DEF Bad
      <4> QED BY <2>2, <3>1, MinIsLeast
    <3>3. k # 0
      BY <1>5, <3>2
    <3>4. k \in 1..n /\ k - 1 \in 0..n /\ k - 1 \notin Bad
      BY <1>1, <3>2, <3>3
    <3>5. G[1..(k - 1)] \in Nat /\ s[k] \in Nat
      BY <3>4, <1>1
    <3> HIDE DEF G
    <3> QED BY <1>4, <3>2, <3>4, <3>5
  <2> QED BY <2>2
<1>7. Partial(p, s)
  <2> HIDE DEF G
  <2> QED BY <1>1, <1>4, <1>5, <1>6 DEF Partial
<1>8. Total(s) = p[n]
  BY <1>1, TotalIsAFold
<1> QED BY <1>7, <1>8

LEMMA PartialsAgree ==
  ASSUME NEW s \in Seq(Nat), NEW t \in Seq(Nat), Len(s) <= Len(t),
         \A i \in 1..Len(s) : s[i] = t[i],
         NEW p, NEW q, Partial(p, s), Partial(q, t)
  PROVE  \A i \in 0..Len(s) : p[i] = q[i]
<1> DEFINE Bad == {i \in 0..Len(s) : p[i] # q[i]}
<1>1. ASSUME Bad # {} PROVE FALSE
  <2>1. Bad \in SUBSET Nat
    OBVIOUS
  <2>2. PICK k \in Bad : \A j \in Bad : k <= j
    <3> HIDE DEF Bad
    <3> QED BY <1>1, <2>1, MinIsLeast
  <2>3. k # 0 /\ k \in 0..Len(s) /\ p[k] # q[k]
    BY <2>2 DEF Partial
  <2>4. k \in 1..Len(s) /\ k - 1 \in 0..Len(s) /\ k - 1 \notin Bad /\ k \in 1..Len(t)
    <3> HIDE DEF Bad
    <3> QED BY <2>2, <2>3
  <2>5. p[k - 1] = q[k - 1]
    BY <2>4
  <2> HIDE DEF Bad
  <2> QED BY <2>3, <2>4, <2>5 DEF Partial
<1> QED BY <1>1

\* A longer list has no smaller sum.
LEMMA TotalGrows ==
  ASSUME NEW s \in Seq(Nat), NEW t \in Seq(Nat), Len(s) <= Len(t),
         \A i \in 1..Len(s) : s[i] = t[i]
  PROVE  Total(s) \in Nat /\ Total(t) \in Nat /\ Total(s) <= Total(t)
<1>1. PICK p : Partial(p, s) /\ Total(s) = p[Len(s)]
  BY TotalIsPartial
<1>2. PICK q : Partial(q, t) /\ Total(t) = q[Len(t)]
  BY TotalIsPartial
<1>3. Len(s) \in Nat /\ Len(t) \in Nat
  OBVIOUS
<1>4. p[Len(s)] = q[Len(s)]
  BY <1>1, <1>2, <1>3, PartialsAgree
<1> DEFINE Bad == {i \in Nat : i >= Len(s) /\ i <= Len(t) /\ ~(q[Len(s)] <= q[i])}
<1>5. ASSUME Bad # {} PROVE FALSE
  <2>2. PICK k \in Bad : \A j \in Bad : k <= j
    <3>1. Bad \in SUBSET Nat
      OBVIOUS
    <3> HIDE DEF Bad
    <3> QED BY <1>5, <3>1, MinIsLeast
  <2>3. k \in Nat /\ k >= Len(s) /\ k <= Len(t) /\ ~(q[Len(s)] <= q[k])
    BY <2>2
  <2>4. k # Len(s)
    BY <2>3, <1>2, <1>3 DEF Partial
  <2>5. k - 1 \in Nat /\ k - 1 >= Len(s) /\ k - 1 <= Len(t) /\ k \in 1..Len(t) /\ k - 1 \notin Bad
    <3> HIDE DEF Bad
    <3> QED BY <2>2, <2>3, <2>4, <1>3
  <2>6. q[Len(s)] <= q[k - 1]
    BY <2>5
  <2>7. q[k] = q[k - 1] + t[k] /\ t[k] \in Nat /\ q[k - 1] \in Nat /\ q[Len(s)] \in Nat
    <3>1. k - 1 \in 0..Len(t) /\ Len(s) \in 0..Len(t)
      BY <1>3, <2>3, <2>5
    <3>2. q \in [0..Len(t) -> Nat] /\ \A i \in 1..Len(t) : q[i] = q[i - 1] + t[i]
      BY <1>2 DEF Partial
    <3>3. t[k] \in Nat
      BY <2>5
    <3>4. q[k - 1] \in Nat /\ q[Len(s)] \in Nat /\ q[k] = q[k - 1] + t[k]
      <4> HIDE DEF Bad
      <4> QED BY <2>5, <3>1, <3>2
    <3> HIDE DEF Bad
    <3> QED BY <3>3, <3>4
  <2> QED BY <2>3, <2>6, <2>7
<1>6. Len(t) \notin Bad
  BY <1>5
<1>7. q[Len(s)] <= q[Len(t)]
  BY <1>3, <1>6
<1>8. p[Len(s)] \in Nat /\ q[Len(t)] \in Nat
  <2> HIDE DEF Bad
  <2>1. Len(s) \in 0..Len(s) /\ Len(t) \in 0..Len(t)
    BY <1>3
  <2>2. p \in [0..Len(s) -> Nat] /\ q \in [0..Len(t) -> Nat]
    BY <1>1, <1>2 DEF Partial
  <2> QED BY <2>1, <2>2
<1> HIDE DEF Bad
<1> QED BY <1>1, <1>2, <1>4, <1>7, <1>8

LEMMA TotalOfNothing == Total(<<>>) = 0
<1>1. <<>> \in Seq(Nat) /\ Len(<<>>) = 0
  OBVIOUS
<1>2. PICK p : Partial(p, <<>>) /\ Total(<<>>) = p[Len(<<>>)]
  BY <1>1, TotalIsPartial
<1> QED BY <1>1, <1>2 DEF Partial

----------------------------------------------------------------------------
(***************************************************************************)
(* Ceilings.  What the loops count row by row is the size of what they     *)
(* write.                                                                  *)
(***************************************************************************)
LEMMA RowsHaveSizes ==
  ASSUME NEW columns \in Nat, NEW text \in Nat PROVE RowBytes(columns, text) \in Nat
<1> DEFINE sizes == Repeated(columns, text + 2)
<1>1. sizes \in Seq(Nat) /\ Len(sizes) = columns
  BY DEF Repeated
<1>2. Total(sizes) \in Nat
  <2> HIDE DEF sizes
  <2>1. Len(sizes) <= Len(sizes)
    BY <1>1
  <2> QED BY <1>1, <2>1, TotalGrows
<1>3. sizes = <<>> \/ Len(sizes) - 1 \in Nat
  BY <1>1
<1> QED BY <1>1, <1>2, <1>3 DEF RowBytes, SizeOfJsonList

LEMMA ColumnsHaveSizes == ASSUME NEW columns \in Nat PROVE ColumnsBytes(columns) \in Nat
<1> DEFINE sizes == Repeated(columns, 3)
<1>1. sizes \in Seq(Nat) /\ Len(sizes) = columns
  BY DEF Repeated
<1>2. Total(sizes) \in Nat
  <2> HIDE DEF sizes
  <2>1. Len(sizes) <= Len(sizes)
    BY <1>1
  <2> QED BY <1>1, <2>1, TotalGrows
<1>3. sizes = <<>> \/ Len(sizes) - 1 \in Nat
  BY <1>1
<1> QED BY <1>1, <1>2, <1>3 DEF ColumnsBytes, SizeOfJsonList

FirstRows(r, n) == [i \in 1..n |-> RowBytes(r.columns, r.rows[i])]

LEMMA FirstRowsAreSizes ==
  ASSUME NEW r \in Results, NEW n \in 0..Len(r.rows)
  PROVE  /\ FirstRows(r, n) \in Seq(Nat) /\ Len(FirstRows(r, n)) = n
         /\ \A i \in 1..n : FirstRows(r, n)[i] = RowBytes(r.columns, r.rows[i])
<1>1. r.columns \in Nat /\ r.rows \in Seq(Nat) /\ Len(r.rows) \in Nat
  BY DEF Results
<1>2. \A i \in 1..n : r.rows[i] \in Nat
  BY <1>1
<1>3. \A i \in 1..n : RowBytes(r.columns, r.rows[i]) \in Nat
  BY <1>1, <1>2, RowsHaveSizes
<1> QED BY <1>1, <1>3 DEF FirstRows

\* What is to be no larger than the ceiling on bytes.
Measured(r) == IF job.worker = "two_connection" THEN ResultBytes(r) ELSE RowsBytes(r)

LEMMA BytesAreCounted ==
  ASSUME NEW r \in Results
  PROVE  /\ UsedBytes(r, 0) = FrameBytes(r)
         /\ UsedBytes(r, Len(r.rows)) = Measured(r)
         /\ \A n \in 0..Len(r.rows) : UsedBytes(r, n) \in Nat /\ UsedBytes(r, n) <= Measured(r)
<1> DEFINE m == Len(r.rows)
<1>1. r.columns \in Nat /\ m \in Nat /\ ColumnsBytes(r.columns) \in Nat
  BY ColumnsHaveSizes DEF Results
<1>2. FrameBytes(r) \in Nat
  BY <1>1 DEF FrameBytes
<1>3. \A n \in 0..m : UsedBytes(r, n) = FrameBytes(r) + Total(FirstRows(r, n)) + (IF n = 0 THEN 0 ELSE n - 1)
  BY DEF UsedBytes, FirstRows
<1>4. \A n \in 0..m : /\ Total(FirstRows(r, n)) \in Nat /\ Total(FirstRows(r, m)) \in Nat
                      /\ Total(FirstRows(r, n)) <= Total(FirstRows(r, m))
  <2> SUFFICES ASSUME NEW n \in 0..m
               PROVE  /\ Total(FirstRows(r, n)) \in Nat /\ Total(FirstRows(r, m)) \in Nat
                      /\ Total(FirstRows(r, n)) <= Total(FirstRows(r, m))
    OBVIOUS
  <2>1. m \in 0..m /\ n <= m
    BY <1>1
  <2>2. /\ FirstRows(r, n) \in Seq(Nat) /\ Len(FirstRows(r, n)) = n
        /\ \A i \in 1..n : FirstRows(r, n)[i] = RowBytes(r.columns, r.rows[i])
    BY FirstRowsAreSizes
  <2>3. /\ FirstRows(r, m) \in Seq(Nat) /\ Len(FirstRows(r, m)) = m
        /\ \A i \in 1..m : FirstRows(r, m)[i] = RowBytes(r.columns, r.rows[i])
    BY <2>1, FirstRowsAreSizes
  <2>4. \A i \in 1..n : FirstRows(r, n)[i] = FirstRows(r, m)[i]
    <3> SUFFICES ASSUME NEW i \in 1..n PROVE FirstRows(r, n)[i] = FirstRows(r, m)[i]
      OBVIOUS
    <3>1. i \in 1..m
      BY <1>1, <2>1
    <3>2. FirstRows(r, n)[i] = RowBytes(r.columns, r.rows[i])
      BY <2>2
    <3>3. FirstRows(r, m)[i] = RowBytes(r.columns, r.rows[i])
      BY <2>3, <3>1
    <3> QED BY <3>2, <3>3
  <2> HIDE DEF m
  <2> QED BY <2>1, <2>2, <2>3, <2>4, TotalGrows
<1>5. Total(FirstRows(r, 0)) = 0
  <2>1. FirstRows(r, 0) = <<>>
    BY DEF FirstRows
  <2> QED BY <2>1, TotalOfNothing
<1>6. UsedBytes(r, 0) = FrameBytes(r)
  BY <1>1, <1>2, <1>3, <1>5
<1>7. RowsBytes(r) = 2 + Total(FirstRows(r, m)) + (IF m = 0 THEN 0 ELSE m - 1)
  <2>1. Len(FirstRows(r, m)) = m /\ FirstRows(r, m) \in Seq(Nat)
    BY <1>1, FirstRowsAreSizes
  <2>2. FirstRows(r, m) = <<>> <=> m = 0
    BY <2>1
  <2>3. RowsBytes(r) = SizeOfJsonList(FirstRows(r, m))
    BY DEF RowsBytes, FirstRows
  <2> HIDE DEF m
  <2> QED BY <2>1, <2>2, <2>3 DEF SizeOfJsonList
<1>8. UsedBytes(r, m) = Measured(r)
  <2>1. m \in 0..m /\ Total(FirstRows(r, m)) \in Nat
    BY <1>1, <1>4
  <2> HIDE DEF m
  <2> QED BY <1>1, <1>3, <1>7, <2>1 DEF Measured, ResultBytes, FrameBytes
<1>9. ASSUME NEW n \in 0..m PROVE UsedBytes(r, n) \in Nat /\ UsedBytes(r, n) <= Measured(r)
  <2>1. m \in 0..m /\ Total(FirstRows(r, m)) \in Nat /\ Total(FirstRows(r, n)) \in Nat
        /\ Total(FirstRows(r, n)) <= Total(FirstRows(r, m))
    BY <1>1, <1>4
  <2> HIDE DEF m
  <2> QED BY <1>1, <1>2, <1>3, <1>8, <2>1
<1> QED BY <1>6, <1>8, <1>9

\* The loops collect exactly what fits.
LEMMA CollectsWhatFits ==
  ASSUME job \in Job, NEW r \in Results PROVE Collects(r) <=> Fits(r)
<1>1. /\ job.ceilings.bytes \in Nat /\ job.ceilings.rows \in Nat
  BY JobAssumption
<1>2. r.columns \in Nat /\ Len(r.rows) \in Nat /\ Measured(r) \in Nat
  BY BytesAreCounted DEF Results
<1>3. FrameBytes(r) <= Measured(r) /\ FrameBytes(r) \in Nat
  <2>1. 0 \in 0..Len(r.rows)
    BY <1>2
  <2> QED BY <2>1, BytesAreCounted
<1>4. ASSUME Fits(r) PROVE Collects(r)
  <2>1. Measured(r) <= job.ceilings.bytes
    BY <1>4 DEF Fits, Measured
  <2>2. \A i \in 1..Len(r.rows) : UsedBytes(r, i) \in Nat /\ UsedBytes(r, i) <= Measured(r)
    BY <1>2, BytesAreCounted
  <2>3. \A i \in 1..Len(r.rows) : UsedBytes(r, i) <= job.ceilings.bytes
    BY <1>1, <1>2, <2>1, <2>2
  <2>4. \A i \in 1..Len(r.rows) : i - 1 < job.ceilings.rows /\ Normalizes(r.rows[i])
    BY <1>1, <1>2, <1>4 DEF Fits, Normalizes
  <2>5. CollectsColumns(r)
    BY <1>1, <1>2, <1>3, <1>4, <2>1 DEF Fits, CollectsColumns
  <2> QED BY <2>3, <2>4, <2>5 DEF Collects
<1>5. ASSUME Collects(r) PROVE Fits(r)
  <2>1. CASE Len(r.rows) = 0
    <3>1. Measured(r) = FrameBytes(r)
      BY <2>1, BytesAreCounted
    <3> QED BY <1>1, <1>2, <1>5, <2>1, <3>1 DEF Collects, CollectsColumns, Fits, Measured
  <2>2. CASE Len(r.rows) # 0
    <3>1. Len(r.rows) \in 1..Len(r.rows)
      BY <1>2, <2>2
    <3>2. Measured(r) <= job.ceilings.bytes /\ Len(r.rows) - 1 < job.ceilings.rows
      BY <1>5, <3>1, BytesAreCounted DEF Collects
    <3>3. Len(r.rows) <= job.ceilings.rows
      BY <1>1, <1>2, <3>2
    <3> QED BY <1>5, <3>2, <3>3 DEF Collects, CollectsColumns, Fits, Measured, Normalizes
  <2> QED BY <2>1, <2>2
<1> QED BY <1>4, <1>5

----------------------------------------------------------------------------
(***************************************************************************)
(* Type correctness.                                                       *)
(***************************************************************************)
LEMMA StatementsAreTyped ==
  ASSUME NEW s \in Statement
  PROVE  /\ s.sql \in {"insert", "select", "broken", "control"} /\ s.value \in Nat
         /\ s.columns \in Nat /\ (s.sql \in {"broken", "control"} => s.columns = 0)
         /\ Adds(s) \in Seq(Nat)
BY TextAssumption DEF Statement, Insertion, InsertReturning, Selection, BrokenStatement, ControlStatement, Adds

LEMMA RowsAreTyped ==
  ASSUME NEW s \in Statement, NEW table \in Seq(Nat), ~Refused(s)
  PROVE  [columns |-> s.columns, rows |-> RowsOf(s, table)] \in Results
<1>1. RowsOf(s, table) \in Seq(Nat)
  BY StatementsAreTyped DEF RowsOf, Refused
<1> QED BY <1>1, StatementsAreTyped DEF Results

LEMMA DrawnStepsAreTyped ==
  ASSUME NEW step \in ScenarioSteps
  PROVE  /\ step.connection \in Live
         /\ step.op \in {"begin", "try_begin", "commit", "rollback", "execute", "query",
                         "try_execute", "try_query"}
         /\ step.op \in {"begin", "try_begin"} => step.mode \in BeginModes
         /\ step.op \in {"execute", "query", "try_execute", "try_query"} =>
              step.statement \in Statement /\ Admits(step.statement)
BY DEF ScenarioSteps

LEMMA FieldsAreTyped ==
  ASSUME ExecutorTypeOK, NEW c \in Live
  PROVE  /\ session[c] \in Sessions /\ session[c].active \in BOOLEAN /\ session[c].reads \in BOOLEAN
         /\ session[c].base \in Seq(Nat) /\ session[c].own \in Seq(Nat)
         /\ session[c].lock \in {"none", "reserved", "exclusive"}
         /\ Tabled(c) \in Seq(Nat) /\ CommittedBy(c) \in Seq(Nat) /\ Peer(c) \in Live /\ Peer(c) # c
BY DEF ExecutorTypeOK, Sessions, Tabled, CommittedBy, Peer, Live

LEMMA IdleIsTyped == Idle \in Sessions /\ [c \in Live |-> Idle] \in [Live -> Sessions]
BY DEF Idle, Sessions

LEMMA BeganIsTyped ==
  ASSUME ExecutorTypeOK, NEW c \in Live, NEW mode \in BeginModes
  PROVE  Began(c, mode) \in [Live -> Sessions]
<1> DEFINE b == [active |-> TRUE, reads |-> mode # "deferred",
                 base |-> IF mode # "deferred" THEN stored ELSE <<>>, own |-> <<>>,
                 lock |-> CASE mode = "deferred" -> "none"
                            [] mode # "deferred" /\ mode = "immediate" -> "reserved"
                            [] mode # "deferred" /\ mode = "exclusive" ->
                                 IF job.journal = "wal" THEN "reserved" ELSE "exclusive"]
<1>1. b \in Sessions
  <2>1. stored \in Seq(Nat) /\ <<>> \in Seq(Nat)
    BY DEF ExecutorTypeOK
  <2> QED BY <2>1 DEF Sessions, BeginModes
<1>2. Began(c, mode) = [session EXCEPT ![c] = b]
  BY DEF Began
<1> HIDE DEF b
<1> QED BY <1>1, <1>2 DEF ExecutorTypeOK

LEMMA ExecutedIsTyped ==
  ASSUME ExecutorTypeOK, NEW c \in Live, NEW s \in Statement
  PROVE  Executed(c, s) \in [Live -> Sessions] /\ StoredAfter(c, s) \in Seq(Nat)
<1>1. Adds(s) \in Seq(Nat) /\ stored \in Seq(Nat) /\ session \in [Live -> Sessions]
  BY StatementsAreTyped DEF ExecutorTypeOK
<1> DEFINE t == session[c]
           e == [t EXCEPT !.reads = TRUE, !.base = IF t.reads THEN @ ELSE stored,
                          !.own = @ \o Adds(s),
                          !.lock = IF @ = "none" /\ s.sql = "insert" THEN "reserved" ELSE @]
<1>2. t \in Sessions
  BY <1>1
<1>3. e \in Sessions
  <2> HIDE DEF t
  <2>1. PICK b : b = IF t.reads THEN t.base ELSE stored
    OBVIOUS
  <2>2. PICK o : o = t.own \o Adds(s)
    OBVIOUS
  <2>3. PICK l : l = IF t.lock = "none" /\ s.sql = "insert" THEN "reserved" ELSE t.lock
    OBVIOUS
  <2>4. b \in Seq(Nat) /\ o \in Seq(Nat) /\ l \in {"none", "reserved", "exclusive"}
    BY <1>1, <1>2, <2>1, <2>2, <2>3 DEF Sessions
  <2>5. e = [t EXCEPT !.reads = TRUE, !.base = b, !.own = o, !.lock = l]
    BY <1>2, <2>1, <2>2, <2>3 DEF Sessions
  <2> HIDE DEF e
  <2> QED BY <1>2, <2>4, <2>5 DEF Sessions
<1>4. session[c].active => Executed(c, s) = [session EXCEPT ![c] = e]
  BY <1>1 DEF Executed
<1>5. ~session[c].active => Executed(c, s) = session
  BY DEF Executed
<1>6. Executed(c, s) \in [Live -> Sessions]
  <2> HIDE DEF e, t
  <2> QED BY <1>1, <1>3, <1>4, <1>5
<1> QED BY <1>1, <1>6 DEF StoredAfter

LEMMA CheckpointsAreTyped ==
  ASSUME ExecutorTypeOK, NEW operation PROVE checkpoint(controller, operation) \in Controllers(Faultable)
BY DEF ExecutorTypeOK, checkpoint, Controllers, Fires, Matches

LEMMA ResultsAreTyped == NoResult \in Results
BY DEF NoResult, Results

LEMMA FailsTyped ==
  ASSUME ExecutorTypeOK, NEW code \in {2, 3, 4, 5, 6}, Fails(code), job' = job,
         controller' \in Controllers(Faultable), remaining' \in Int, result' \in Results
  PROVE  ExecutorTypeOK'
BY IdleIsTyped DEF ExecutorTypeOK, PhasesOf, Fails, Ends, Exited, Running

\* What a statement or step that ran leaves in the request.
LEMMA RanIsTyped ==
  ASSUME ExecutorTypeOK, NEW stage \in Stages, NEW what, Ran(stage, what),
         IF stage = "steps" THEN what \in ScenarioSteps ELSE what \in Statement \cup {NoStatement}
  PROVE  /\ DOMAIN request' = Stages /\ request'["steps"] \in Seq(ScenarioSteps)
         /\ \A x \in Stages \ {"steps"} : request'[x] \in Seq(Statement \cup {NoStatement})
<1>1. /\ DOMAIN request' = Stages /\ request'[stage] = Append(request[stage], what)
      /\ \A x \in Stages : x # stage => request'[x] = request[x]
  BY DEF Ran, ExecutorTypeOK
<1>2. "steps" \in Stages
  BY DEF Stages
<1>3. request["steps"] \in Seq(ScenarioSteps)
      /\ \A x \in Stages \ {"steps"} : request[x] \in Seq(Statement \cup {NoStatement})
  BY DEF ExecutorTypeOK
<1>4. stage = "steps" => request'[stage] \in Seq(ScenarioSteps)
  BY <1>1, <1>3
<1>5. stage # "steps" => request'[stage] \in Seq(Statement \cup {NoStatement})
  <2> SUFFICES ASSUME stage # "steps"
               PROVE  request'[stage] \in Seq(Statement \cup {NoStatement})
    OBVIOUS
  <2>1. PICK S : S = Statement \cup {NoStatement}
    OBVIOUS
  <2>2. request[stage] \in Seq(S) /\ what \in S
    BY <1>3, <2>1
  <2>3. Append(request[stage], what) \in Seq(S)
    BY <2>2
  <2> QED BY <1>1, <2>1, <2>3
<1> QED BY <1>1, <1>2, <1>3, <1>4, <1>5

LEMMA SpendTyped == ASSUME ExecutorTypeOK, Spend PROVE remaining' \in Int
BY DEF ExecutorTypeOK, Spend

LEMMA AppendedIsTyped ==
  ASSUME ExecutorTypeOK, NEW record \in Transcribed PROVE Append(records, record) \in Seq(Transcribed)
BY DEF ExecutorTypeOK

LEMMA RejectedTyped ==
  ASSUME ExecutorTypeOK, Rejects PROVE ExecutorTypeOK'
<1>1. controller' \in Controllers(Faultable) /\ remaining' \in Int /\ result' \in Results /\ job' = job
  BY DEF Rejects, ExecutorTypeOK
<1> QED BY <1>1, FailsTyped DEF Rejects

\* A call that the fault or the budget prevents.
Prevented(operation) ==
  /\ controller' = checkpoint(controller, operation) /\ job' = job /\ result' = result
  /\ \/ Fires(controller, operation) /\ Fails(5) /\ remaining' = remaining
     \/ ~Fires(controller, operation) /\ OutOfSteps /\ Fails(6) /\ Spend
\* A call that is made.
Made(operation) ==
  /\ controller' = checkpoint(controller, operation) /\ job' = job
  /\ ~Fires(controller, operation) /\ ~OutOfSteps /\ Spend

LEMMA PreventedTyped ==
  ASSUME ExecutorTypeOK, NEW operation, Prevented(operation) PROVE ExecutorTypeOK'
<1>1. controller' \in Controllers(Faultable) /\ result' \in Results /\ job' = job
  BY CheckpointsAreTyped DEF Prevented, ExecutorTypeOK
<1>2. remaining' \in Int
  BY SpendTyped DEF Prevented, ExecutorTypeOK
<1> QED BY <1>1, <1>2, FailsTyped DEF Prevented

LEMMA MadeTyped ==
  ASSUME ExecutorTypeOK, NEW operation, Made(operation)
  PROVE  controller' \in Controllers(Faultable) /\ remaining' \in Int /\ job' = job
BY CheckpointsAreTyped, SpendTyped DEF Made, ExecutorTypeOK

LEMMA PhasesAreWorkers ==
  ASSUME ExecutorTypeOK
  PROVE  /\ job \in Job /\ job.worker \in {"query", "transaction", "two_connection", "lock"}
         /\ phase = "setup" => job.worker \in {"query", "transaction", "two_connection"}
         /\ phase \in {"begin", "transaction", "observe"} => job.worker = "transaction"
         /\ phase = "query" => job.worker = "query"
         /\ phase = "steps" => job.worker = "two_connection"
         /\ phase \in {"hold", "contend", "release", "retry", "settle"} => job.worker = "lock"
BY JobAssumption DEF ExecutorTypeOK, PhasesOf

LEMMA RunningTyped ==
  ASSUME ExecutorTypeOK, job' = job, controller' \in Controllers(Faultable), remaining' \in Int,
         phase # "over", exit' = exit, phase' # "over",
         phase' \in PhasesOf(job.worker),
         stored' \in Seq(Nat), session' \in [Live -> Sessions],
         records' \in Seq(Transcribed), result' \in Results,
         DOMAIN request' = Stages, request'["steps"] \in Seq(ScenarioSteps),
         \A x \in Stages \ {"steps"} : request'[x] \in Seq(Statement \cup {NoStatement})
  PROVE  ExecutorTypeOK'
BY DEF ExecutorTypeOK, Exited

\* What a statement answered, and what it then does to the database, or why it ended the run.
AnsweredWith(s, r) ==
  /\ ~Refused(s) /\ r = [columns |-> s.columns, rows |-> RowsOf(s, Tabled("a"))]
  /\ result' = r /\ Collects(r) /\ HasRoomFor(RecordOf("execute", "a", NoError, r))
  /\ records' = Append(records, RecordOf("execute", "a", NoError, r))
Unanswered(s) ==
  \/ Refused(s) /\ Fails(3) /\ result' = result
  \/ \E r : /\ ~Refused(s) /\ r = [columns |-> s.columns, rows |-> RowsOf(s, Tabled("a"))]
            /\ result' = r /\ ~(Collects(r) /\ HasRoomFor(RecordOf("execute", "a", NoError, r)))
            /\ Fails(4)

LEMMA AnswersAreTyped ==
  ASSUME ExecutorTypeOK, NEW s \in Statement, NEW r, AnsweredWith(s, r)
  PROVE  result' \in Results /\ r \in Results /\ records' \in Seq(Transcribed)
<1>1. "a" \in Live
  BY DEF Live
<1>2. r \in Results
  BY <1>1, FieldsAreTyped, RowsAreTyped DEF AnsweredWith
<1>3. RecordOf("execute", "a", NoError, r) \in Transcribed
  BY <1>1, <1>2 DEF RecordOf, Transcribed
<1> QED BY <1>2, <1>3, AppendedIsTyped DEF AnsweredWith

LEMMA UnansweredTyped ==
  ASSUME ExecutorTypeOK, NEW s \in Statement, Unanswered(s), NEW operation, Made(operation)
  PROVE  ExecutorTypeOK' /\ result' \in Results
<1>1. controller' \in Controllers(Faultable) /\ remaining' \in Int /\ job' = job
  BY MadeTyped
<1>2. CASE Refused(s) /\ Fails(3) /\ result' = result
  <2>1. result' \in Results
    BY <1>2 DEF ExecutorTypeOK
  <2> QED BY <1>1, <1>2, <2>1, FailsTyped
<1>3. CASE ~(Refused(s) /\ Fails(3) /\ result' = result)
  <2>1. "a" \in Live
    BY DEF Live
  <2>2. result' \in Results /\ Fails(4)
    BY <1>3, <2>1, FieldsAreTyped, RowsAreTyped DEF Unanswered
  <2> QED BY <1>1, <2>2, FailsTyped
<1> QED BY <1>2, <1>3

\* What each action does.
LEMMA SetupShape ==
  ASSUME NEW s, SetupStatement(s)
  PROVE  /\ phase = "setup" /\ s \in job.statements /\ job.worker \in {"transaction", "query"}
         /\ \/ Prevented("setup")
            \/ /\ Made("setup") /\ result' = result
               /\ \/ Refused(s) /\ Fails(3)
                  \/ /\ ~Refused(s) /\ stored' = stored \o Adds(s) /\ Ran("setup", s)
                     /\ UNCHANGED <<phase, session, records, exit>>
BY DEF SetupStatement, Attempted, Prevented, Made, Sets

LEMMA BeginShape ==
  ASSUME BeginTransaction
  PROVE  /\ phase = "begin"
         /\ \/ Prevented("begin")
            \/ /\ Made("begin") /\ session' = Began("a", job.begin) /\ phase' = "transaction"
               /\ UNCHANGED <<stored, request, records, result, exit>>
BY DEF BeginTransaction, Attempted, Prevented, Made

LEMMA TransactionShape ==
  ASSUME NEW s, TransactionStatement(s)
  PROVE  /\ phase = "transaction" /\ s \in job.statements
         /\ \/ Prevented("transaction")
            \/ Made("transaction") /\ Unanswered(s)
            \/ \E r : /\ Made("transaction") /\ AnsweredWith(s, r)
                      /\ session' = Executed("a", s) /\ Ran("transaction", s)
                      /\ UNCHANGED <<phase, stored, exit>>
BY DEF TransactionStatement, Attempted, Prevented, Made, Answered, AnsweredWith, Unanswered

LEMMA FinalizeShape ==
  ASSUME Finalize
  PROVE  /\ phase = "transaction"
         /\ \/ Prevented("finalize")
            \/ /\ Made("finalize")
               /\ stored' = IF job.reopen /\ ~OnDisk THEN <<>>
                            ELSE IF job.commit THEN CommittedBy("a") ELSE stored
               /\ session' = [session EXCEPT !["a"] = Idle] /\ phase' = "observe"
               /\ Ran("finalize", NoStatement) /\ UNCHANGED <<records, result, exit>>
BY DEF Finalize, Attempted, Prevented, Made

LEMMA ObserveShape ==
  ASSUME NEW s, ObserveStatement(s)
  PROVE  /\ phase = "observe" /\ s \in job.statements
         /\ \/ Prevented("observe")
            \/ Made("observe") /\ Unanswered(s)
            \/ \E r : /\ Made("observe") /\ AnsweredWith(s, r)
                      /\ stored' = StoredAfter("a", s) /\ Ran("observe", s) /\ Ends(0)
BY DEF ObserveStatement, Attempted, Prevented, Made, Answered, AnsweredWith, Unanswered

LEMMA QueryShape ==
  ASSUME NEW s, QueryStatement(s)
  PROVE  /\ phase = "query" /\ s \in job.statements
         /\ \/ Prevented("query")
            \/ Made("query") /\ Unanswered(s)
            \/ \E r : /\ Made("query") /\ AnsweredWith(s, r)
                      /\ stored' = StoredAfter("a", s) /\ Ran("query", s) /\ Ends(0)
BY DEF QueryStatement, Attempted, Prevented, Made, Answered, AnsweredWith, Unanswered

\* A step of a scenario is recorded, or ends it.
Still == UNCHANGED <<job, controller, remaining>>
Kept(step, error, r, sessionAfter, storedAfter) ==
  /\ result' = r /\ HasRoomFor(RecordOf(step.op, step.connection, error, r))
  /\ records' = Append(records, RecordOf(step.op, step.connection, error, r)) /\ Ran("steps", step)
  /\ session' = sessionAfter /\ stored' = storedAfter /\ UNCHANGED <<phase, exit>>
MeetsALock(step) == \E error \in BusyErrors : Kept(step, error, NoResult, session, stored)
Overflows(step) ==
  /\ Fails(4)
  /\ \/ ~Collects(result')
     \/ \E error : ~HasRoomFor(RecordOf(step.op, step.connection, error, result'))

LEMMA RaisedShape ==
  ASSUME NEW step, NEW error, Raised(step, error), result' = NoResult
  PROVE  Fails(3) \/ Overflows(step) \/ MeetsALock(step)
BY DEF Raised, Retained, MeetsALock, Kept, Overflows

LEMMA RetainedShape ==
  ASSUME NEW step, NEW error, NEW r, NEW after, NEW table, Retained(step, error, r, after, table), result' = r
  PROVE  Overflows(step) \/ Kept(step, error, r, after, table)
BY DEF Retained, Kept, Overflows

LEMMA BeginStepShape ==
  ASSUME NEW step, BeginStep(step)
  PROVE  /\ phase = "steps" /\ step \in job.steps /\ Still /\ step.op \in {"begin", "try_begin"}
         /\ result' = NoResult
         /\ \/ Fails(3) \/ Overflows(step) \/ MeetsALock(step)
            \/ /\ BeginError(step.connection, step.mode) = NoError
               /\ Kept(step, NoError, NoResult, Began(step.connection, step.mode), stored)
<1>1. /\ phase = "steps" /\ step \in job.steps /\ Still /\ step.op \in {"begin", "try_begin"}
      /\ result' = NoResult
  BY DEF BeginStep, Scenario, Still
<1>2. PICK after : after = Began(step.connection, step.mode)
  OBVIOUS
<1>3. PICK table : table = stored
  OBVIOUS
<1>4. CASE BeginError(step.connection, step.mode) = NoError
  <2>1. Retained(step, NoError, NoResult, after, table)
    BY <1>2, <1>3, <1>4 DEF BeginStep
  <2>2. PICK r, e : r = NoResult /\ e = NoError
    OBVIOUS
  <2>3. Overflows(step) \/ Kept(step, e, r, after, table)
    BY <1>1, <2>1, <2>2, RetainedShape
  <2> QED BY <1>1, <1>2, <1>3, <1>4, <2>2, <2>3
<1>5. CASE BeginError(step.connection, step.mode) # NoError
  <2>1. PICK error : error = BeginError(step.connection, step.mode)
    OBVIOUS
  <2>2. Raised(step, error)
    BY <1>5, <2>1 DEF BeginStep
  <2> QED BY <1>1, <2>2, RaisedShape
<1> QED BY <1>4, <1>5

LEMMA EndStepShape ==
  ASSUME NEW step, EndStep(step)
  PROVE  /\ phase = "steps" /\ step \in job.steps /\ Still /\ step.op \in {"commit", "rollback"}
         /\ result' = NoResult
         /\ \/ Fails(3) \/ Overflows(step)
            \/ /\ session[step.connection].active
               /\ step.op = "commit" => EndError(step.connection) = NoError
               /\ Kept(step, NoError, NoResult, [session EXCEPT ![step.connection] = Idle],
                       IF step.op = "commit" THEN CommittedBy(step.connection) ELSE stored)
<1>1. /\ phase = "steps" /\ step \in job.steps /\ Still /\ step.op \in {"commit", "rollback"}
      /\ result' = NoResult
  BY DEF EndStep, Scenario, Still
<1>2. PICK after : after = [session EXCEPT ![step.connection] = Idle]
  OBVIOUS
<1>3. PICK table : table = IF step.op = "commit" THEN CommittedBy(step.connection) ELSE stored
  OBVIOUS
<1>4. CASE ~session[step.connection].active
           \/ (step.op = "commit" /\ EndError(step.connection) # NoError)
  BY <1>1, <1>4 DEF EndStep
<1>5. CASE ~(~session[step.connection].active
             \/ (step.op = "commit" /\ EndError(step.connection) # NoError))
  <2>1. Retained(step, NoError, NoResult, after, table)
    BY <1>2, <1>3, <1>5 DEF EndStep
  <2>2. PICK r, e : r = NoResult /\ e = NoError
    OBVIOUS
  <2>3. Overflows(step) \/ Kept(step, e, r, after, table)
    BY <1>1, <2>1, <2>2, RetainedShape
  <2> QED BY <1>1, <1>2, <1>3, <1>5, <2>2, <2>3
<1> QED BY <1>4, <1>5

LEMMA ExecuteStepShape ==
  ASSUME NEW step, ExecuteStep(step)
  PROVE  /\ phase = "steps" /\ step \in job.steps /\ Still /\ step.op \in {"execute", "try_execute"}
         /\ result' = NoResult
         /\ \/ Fails(2) \/ Fails(3) \/ Overflows(step) \/ MeetsALock(step)
            \/ /\ NoError \in ExecuteErrors(step.connection, step.statement)
               /\ ~(step.statement.columns > 0)
               /\ Kept(step, NoError, NoResult, Executed(step.connection, step.statement),
                       StoredAfter(step.connection, step.statement))
<1>1. /\ phase = "steps" /\ step \in job.steps /\ Still /\ step.op \in {"execute", "try_execute"}
      /\ result' = NoResult
  BY DEF ExecuteStep, Scenario, Still
<1>2. PICK after : after = Executed(step.connection, step.statement)
  OBVIOUS
<1>3. PICK table : table = StoredAfter(step.connection, step.statement)
  OBVIOUS
<1>6. PICK error \in ExecuteErrors(step.connection, step.statement) :
        CASE error # NoError -> Raised(step, error)
          [] error = NoError /\ step.statement.columns > 0 -> Fails(2)
          [] OTHER -> Retained(step, NoError, NoResult, after, table)
  BY <1>2, <1>3 DEF ExecuteStep
<1>4. CASE error = NoError
  <2>1. CASE step.statement.columns > 0
    BY <1>1, <1>4, <1>6, <2>1
  <2>2. CASE ~(step.statement.columns > 0)
    <3>1. Retained(step, NoError, NoResult, after, table)
      BY <1>4, <1>6, <2>2
    <3>2. PICK r, e : r = NoResult /\ e = NoError
      OBVIOUS
    <3>3. Overflows(step) \/ Kept(step, e, r, after, table)
      BY <1>1, <3>1, <3>2, RetainedShape
    <3> QED BY <1>1, <1>2, <1>3, <1>4, <1>6, <2>2, <3>2, <3>3
  <2> QED BY <2>1, <2>2
<1>5. CASE error # NoError
  <2>2. Raised(step, error)
    BY <1>5, <1>6
  <2> QED BY <1>1, <2>2, RaisedShape
<1> QED BY <1>4, <1>5

LEMMA QueryStepShape ==
  ASSUME NEW step, QueryStep(step)
  PROVE  /\ phase = "steps" /\ step \in job.steps /\ Still /\ step.op \in {"query", "try_query"}
         /\ \/ (Fails(2) \/ Fails(3) \/ Overflows(step) \/ MeetsALock(step)) /\ result' = NoResult
            \/ \E r : /\ r = [columns |-> step.statement.columns,
                              rows |-> RowsOf(step.statement, Tabled(step.connection))]
                      /\ result' = r /\ step.statement.columns # 0
                      /\ NoError \in ExecuteErrors(step.connection, step.statement)
                      /\ \/ Fails(3) \/ Overflows(step)
                         \/ /\ Collects(r) /\ DrainError(step.connection, step.statement) = NoError
                            /\ Kept(step, NoError, r, Executed(step.connection, step.statement),
                                    StoredAfter(step.connection, step.statement))
<1>1. phase = "steps" /\ step \in job.steps /\ Still /\ step.op \in {"query", "try_query"}
  BY DEF QueryStep, Scenario, Still
<1>2. PICK after : after = Executed(step.connection, step.statement)
  OBVIOUS
<1>3. PICK table : table = StoredAfter(step.connection, step.statement)
  OBVIOUS
<1>7. PICK r : r = [columns |-> step.statement.columns,
                    rows |-> RowsOf(step.statement, Tabled(step.connection))]
  OBVIOUS
<1>6. PICK error \in ExecuteErrors(step.connection, step.statement) :
        CASE error # NoError -> Raised(step, error) /\ result' = NoResult
          [] error = NoError /\ step.statement.columns = 0 -> Fails(2) /\ result' = NoResult
          [] OTHER ->
               /\ result' = r
               /\ IF CollectsColumns(r) /\ DrainError(step.connection, step.statement) # NoError
                  THEN Fails(3)
                  ELSE IF ~Collects(r) THEN Fails(4)
                  ELSE Retained(step, NoError, r, after, table)
  BY <1>2, <1>3, <1>7 DEF QueryStep
<1>4. CASE error = NoError /\ step.statement.columns # 0
  <2>1. result' = r /\ NoError \in ExecuteErrors(step.connection, step.statement)
    BY <1>4, <1>6
  <2>2. CASE CollectsColumns(r) /\ DrainError(step.connection, step.statement) # NoError
    BY <1>1, <1>4, <1>6, <1>7, <2>1, <2>2
  <2>3. CASE ~(CollectsColumns(r) /\ DrainError(step.connection, step.statement) # NoError)
    <3>1. CASE ~Collects(r)
      <4>1. Fails(4)
        BY <1>4, <1>6, <2>3, <3>1
      <4>2. Overflows(step)
        BY <2>1, <3>1, <4>1 DEF Overflows
      <4> QED BY <1>1, <1>4, <1>7, <2>1, <4>2
    <3>2. CASE Collects(r)
      <4>1. Retained(step, NoError, r, after, table)
        BY <1>4, <1>6, <2>3, <3>2
      <4>2. PICK e : e = NoError
        OBVIOUS
      <4>3. Overflows(step) \/ Kept(step, e, r, after, table)
        BY <2>1, <4>1, <4>2, RetainedShape
      <4>4. DrainError(step.connection, step.statement) = NoError
        BY <2>3, <3>2 DEF Collects
      <4> QED BY <1>1, <1>2, <1>3, <1>4, <1>7, <2>1, <3>2, <4>2, <4>3, <4>4
    <3> QED BY <3>1, <3>2
  <2> QED BY <2>2, <2>3
<1>5. CASE ~(error = NoError /\ step.statement.columns # 0)
  <2>1. CASE error = NoError
    BY <1>1, <1>5, <1>6, <2>1
  <2>2. CASE error # NoError
    <3>1. Raised(step, error) /\ result' = NoResult
      BY <1>6, <2>2
    <3> QED BY <1>1, <3>1, RaisedShape
  <2> QED BY <2>1, <2>2
<1> QED BY <1>4, <1>5

----------------------------------------------------------------------------
LEMMA KeptTyped ==
  ASSUME ExecutorTypeOK, phase = "steps", NEW step \in job.steps, Still,
         NEW error \in BusyErrors \cup {NoError}, NEW r \in Results,
         NEW after \in [Live -> Sessions], NEW table \in Seq(Nat), Kept(step, error, r, after, table)
  PROVE  ExecutorTypeOK'
<1>1. step \in ScenarioSteps
  BY PhasesAreWorkers, DrawnAssumption
<1>2. RecordOf(step.op, step.connection, error, r) \in Transcribed
  BY <1>1, DrawnStepsAreTyped DEF RecordOf, Transcribed
<1>3. PICK record : record = RecordOf(step.op, step.connection, error, r)
  OBVIOUS
<1>4. records' \in Seq(Transcribed)
  BY <1>2, <1>3, AppendedIsTyped DEF Kept
<1>5. /\ DOMAIN request' = Stages /\ request'["steps"] \in Seq(ScenarioSteps)
      /\ \A x \in Stages \ {"steps"} : request'[x] \in Seq(Statement \cup {NoStatement})
  <2>1. "steps" \in Stages /\ Ran("steps", step)
    BY DEF Stages, Kept
  <2>2. PICK stage : stage = "steps"
    OBVIOUS
  <2> QED BY <1>1, <2>1, <2>2, RanIsTyped
<1>6. job' = job /\ controller' \in Controllers(Faultable) /\ remaining' \in Int
  BY DEF Still, ExecutorTypeOK
<1>7. phase' = phase /\ exit' = exit /\ session' = after /\ stored' = table /\ result' = r
  BY DEF Kept
<1>8. phase' \in PhasesOf(job.worker)
  BY <1>7 DEF ExecutorTypeOK
<1> QED BY <1>4, <1>5, <1>6, <1>7, <1>8, RunningTyped

LEMMA StoppedTyped ==
  ASSUME ExecutorTypeOK, Still, result' \in Results,
         NEW step, Fails(2) \/ Fails(3) \/ Overflows(step)
  PROVE  ExecutorTypeOK'
<1>1. job' = job /\ controller' \in Controllers(Faultable) /\ remaining' \in Int
  BY DEF Still, ExecutorTypeOK
<1>2. \E code \in {2, 3, 4, 5, 6} : Fails(code)
  BY DEF Overflows
<1> QED BY <1>1, <1>2, FailsTyped

LEMMA MeetsALockTyped ==
  ASSUME ExecutorTypeOK, phase = "steps", NEW step \in job.steps, Still, MeetsALock(step)
  PROVE  ExecutorTypeOK'
<1>1. PICK error \in BusyErrors : Kept(step, error, NoResult, session, stored)
  BY DEF MeetsALock
<1>2. PICK r, after, table : r = NoResult /\ after = session /\ table = stored
  OBVIOUS
<1>3. Kept(step, error, r, after, table) /\ r \in Results /\ after \in [Live -> Sessions]
      /\ table \in Seq(Nat)
  BY <1>1, <1>2, ResultsAreTyped DEF ExecutorTypeOK
<1> QED BY <1>3, KeptTyped

LEMMA DrawnStatements ==
  ASSUME ExecutorTypeOK PROVE job.statements \subseteq Statement /\ job.steps \subseteq ScenarioSteps
BY PhasesAreWorkers, DrawnAssumption

LEMMA BeganSteps ==
  ASSUME ExecutorTypeOK PROVE job.begin \in BeginModes /\ (job.worker = "lock" => job.contender \in BeginModes)
BY PhasesAreWorkers, JobAssumption DEF BeginModes

\* The three that draw their request stage by stage.
LEMMA SetupTyped ==
  ASSUME ExecutorTypeOK, NEW s, SetupStatement(s) PROVE ExecutorTypeOK'
<1>1. s \in Statement /\ phase = "setup"
  BY SetupShape, DrawnStatements
<1>2. CASE Prevented("setup")
  <2>1. PICK operation : operation = "setup"
    OBVIOUS
  <2> QED BY <1>2, <2>1, PreventedTyped
<1>3. CASE Made("setup") /\ result' = result /\ Fails(3)
  <2>1. PICK operation : operation = "setup"
    OBVIOUS
  <2>2. result' \in Results
    BY <1>3 DEF ExecutorTypeOK
  <2> QED BY <1>3, <2>1, <2>2, MadeTyped, FailsTyped
<1>4. CASE Made("setup") /\ result' = result /\ stored' = stored \o Adds(s) /\ Ran("setup", s)
           /\ UNCHANGED <<phase, session, records, exit>>
  <2>1. PICK stage : stage = "setup"
    OBVIOUS
  <2>2. stage \in Stages /\ stage # "steps"
    BY <2>1 DEF Stages
  <2>3. /\ DOMAIN request' = Stages /\ request'["steps"] \in Seq(ScenarioSteps)
        /\ \A x \in Stages \ {"steps"} : request'[x] \in Seq(Statement \cup {NoStatement})
    BY <1>1, <1>4, <2>1, <2>2, RanIsTyped
  <2>4. controller' \in Controllers(Faultable) /\ remaining' \in Int /\ job' = job
    BY <1>4, <2>1, MadeTyped
  <2>5. stored' \in Seq(Nat)
    BY <1>1, <1>4, StatementsAreTyped DEF ExecutorTypeOK
  <2>6. session' \in [Live -> Sessions] /\ records' \in Seq(Transcribed) /\ result' \in Results
        /\ phase' = phase /\ phase' # "over" /\ exit' = exit
    BY <1>1, <1>4 DEF ExecutorTypeOK
  <2>7. phase' \in PhasesOf(job.worker)
    BY <2>6 DEF ExecutorTypeOK
  <2> QED BY <1>1, <2>3, <2>4, <2>5, <2>6, <2>7, RunningTyped
<1> QED BY <1>2, <1>3, <1>4, SetupShape

LEMMA BootstrapTyped ==
  ASSUME ExecutorTypeOK, NEW s, BootstrapStatement(s) PROVE ExecutorTypeOK'
<1>1. s \in Statement /\ phase = "setup" /\ Sets(s) /\ UNCHANGED <<job, controller, remaining, result>>
  BY DrawnStatements DEF BootstrapStatement
<1>2. controller' \in Controllers(Faultable) /\ remaining' \in Int /\ job' = job /\ result' \in Results
  BY <1>1 DEF ExecutorTypeOK
<1>3. CASE Refused(s)
  BY <1>1, <1>2, <1>3, FailsTyped DEF Sets
<1>4. CASE ~Refused(s)
  <2>0. stored' = stored \o Adds(s) /\ Ran("setup", s) /\ UNCHANGED <<phase, session, records, exit>>
    BY <1>1, <1>4 DEF Sets
  <2>1. PICK stage : stage = "setup"
    OBVIOUS
  <2>2. stage \in Stages /\ stage # "steps"
    BY <2>1 DEF Stages
  <2>3. /\ DOMAIN request' = Stages /\ request'["steps"] \in Seq(ScenarioSteps)
        /\ \A x \in Stages \ {"steps"} : request'[x] \in Seq(Statement \cup {NoStatement})
    BY <1>1, <2>0, <2>1, <2>2, RanIsTyped
  <2>5. stored' \in Seq(Nat)
    BY <1>1, <2>0, StatementsAreTyped DEF ExecutorTypeOK
  <2>6. session' \in [Live -> Sessions] /\ records' \in Seq(Transcribed)
        /\ phase' = phase /\ phase' # "over" /\ exit' = exit
    BY <1>1, <2>0 DEF ExecutorTypeOK
  <2>7. phase' \in PhasesOf(job.worker)
    BY <2>6 DEF ExecutorTypeOK
  <2> QED BY <1>1, <1>2, <2>3, <2>5, <2>6, <2>7, RunningTyped
<1> QED BY <1>3, <1>4

LEMMA BeginTyped ==
  ASSUME ExecutorTypeOK, BeginTransaction PROVE ExecutorTypeOK'
<1>0. PICK operation : operation = "begin"
  OBVIOUS
<1>1. CASE Prevented("begin")
  BY <1>0, <1>1, PreventedTyped
<1>2. CASE /\ Made("begin") /\ session' = Began("a", job.begin) /\ phase' = "transaction"
           /\ UNCHANGED <<stored, request, records, result, exit>>
  <2>1. PICK c, mode : c = "a" /\ mode = job.begin
    OBVIOUS
  <2>2. c \in Live /\ mode \in BeginModes
    BY <2>1, BeganSteps DEF Live
  <2>3. session' \in [Live -> Sessions]
    BY <1>2, <2>1, <2>2, BeganIsTyped
  <2>4. controller' \in Controllers(Faultable) /\ remaining' \in Int /\ job' = job
    BY <1>0, <1>2, MadeTyped
  <2>5. job.worker = "transaction" /\ phase = "begin"
    BY BeginShape, PhasesAreWorkers
  <2>6. phase' \in PhasesOf(job.worker)
    BY <1>2, <2>5 DEF PhasesOf
  <2>7. /\ stored' \in Seq(Nat) /\ records' \in Seq(Transcribed) /\ result' \in Results /\ exit' = exit
        /\ DOMAIN request' = Stages /\ request'["steps"] \in Seq(ScenarioSteps)
        /\ \A x \in Stages \ {"steps"} : request'[x] \in Seq(Statement \cup {NoStatement})
    BY <1>2 DEF ExecutorTypeOK
  <2> QED BY <1>2, <2>3, <2>4, <2>5, <2>6, <2>7, RunningTyped
<1> QED BY <1>1, <1>2, BeginShape

LEMMA TransactionTyped ==
  ASSUME ExecutorTypeOK, NEW s, TransactionStatement(s) PROVE ExecutorTypeOK'
<1>0. PICK stage : stage = "transaction"
  OBVIOUS
<1>1. s \in Statement /\ phase = "transaction" /\ stage \in Stages /\ stage # "steps"
  BY <1>0, TransactionShape, DrawnStatements DEF Stages
<1>2. CASE Prevented("transaction")
  BY <1>0, <1>2, PreventedTyped
<1>3. CASE Made("transaction") /\ Unanswered(s)
  BY <1>0, <1>1, <1>3, UnansweredTyped
<1>4. ASSUME NEW r, Made("transaction"), AnsweredWith(s, r), session' = Executed("a", s),
             Ran("transaction", s), UNCHANGED <<phase, stored, exit>>
      PROVE  ExecutorTypeOK'
  <2>1. controller' \in Controllers(Faultable) /\ remaining' \in Int /\ job' = job
    BY <1>0, <1>4, MadeTyped
  <2>2. result' \in Results /\ records' \in Seq(Transcribed)
    BY <1>1, <1>4, AnswersAreTyped
  <2>3. /\ DOMAIN request' = Stages /\ request'["steps"] \in Seq(ScenarioSteps)
        /\ \A x \in Stages \ {"steps"} : request'[x] \in Seq(Statement \cup {NoStatement})
    BY <1>0, <1>1, <1>4, RanIsTyped
  <2>4. session' \in [Live -> Sessions]
    <3>1. PICK c : c = "a"
      OBVIOUS
    <3>2. c \in Live
      BY <3>1 DEF Live
    <3> QED BY <1>1, <1>4, <3>1, <3>2, ExecutedIsTyped
  <2>5. /\ stored' \in Seq(Nat) /\ exit' = exit /\ phase' = phase
        /\ phase' \in PhasesOf(job.worker)
    BY <1>4 DEF ExecutorTypeOK
  <2> QED BY <1>1, <2>1, <2>2, <2>3, <2>4, <2>5, RunningTyped
<1> QED BY <1>2, <1>3, <1>4, TransactionShape

LEMMA FinalizeTyped ==
  ASSUME ExecutorTypeOK, Finalize PROVE ExecutorTypeOK'
<1>0. PICK stage, what, c : stage = "finalize" /\ what = NoStatement /\ c = "a"
  OBVIOUS
<1>1. phase = "transaction" /\ stage \in Stages /\ stage # "steps" /\ c \in Live
      /\ what \in Statement \cup {NoStatement} /\ job.worker = "transaction"
  BY <1>0, FinalizeShape, PhasesAreWorkers DEF Stages, Live
<1>2. CASE Prevented("finalize")
  BY <1>0, <1>2, PreventedTyped
<1>3. CASE /\ Made("finalize")
           /\ stored' = IF job.reopen /\ ~OnDisk THEN <<>>
                        ELSE IF job.commit THEN CommittedBy("a") ELSE stored
           /\ session' = [session EXCEPT !["a"] = Idle] /\ phase' = "observe"
           /\ Ran("finalize", NoStatement) /\ UNCHANGED <<records, result, exit>>
  <2>1. controller' \in Controllers(Faultable) /\ remaining' \in Int /\ job' = job
    BY <1>0, <1>3, MadeTyped
  <2>3. /\ DOMAIN request' = Stages /\ request'["steps"] \in Seq(ScenarioSteps)
        /\ \A x \in Stages \ {"steps"} : request'[x] \in Seq(Statement \cup {NoStatement})
    BY <1>0, <1>1, <1>3, RanIsTyped
  <2>4. session' \in [Live -> Sessions]
    BY <1>0, <1>1, <1>3, IdleIsTyped DEF ExecutorTypeOK
  <2>5. stored' \in Seq(Nat)
    <3>1. CommittedBy(c) \in Seq(Nat) /\ stored \in Seq(Nat) /\ <<>> \in Seq(Nat)
      BY <1>1, FieldsAreTyped DEF ExecutorTypeOK
    <3> QED BY <1>0, <1>3, <3>1
  <2>6. phase' \in PhasesOf(job.worker)
    BY <1>1, <1>3 DEF PhasesOf
  <2>7. records' \in Seq(Transcribed) /\ result' \in Results /\ exit' = exit
    BY <1>3 DEF ExecutorTypeOK
  <2> QED BY <1>1, <1>3, <2>1, <2>3, <2>4, <2>5, <2>6, <2>7, RunningTyped
<1> QED BY <1>2, <1>3, FinalizeShape

\* The end of a run that wrote its answer.
LEMMA EndedTyped ==
  ASSUME ExecutorTypeOK, NEW s \in Statement, NEW r, AnsweredWith(s, r), NEW stage \in Stages \ {"steps"},
         Made(stage), stored' = StoredAfter("a", s), Ran(stage, s), Ends(0)
  PROVE  ExecutorTypeOK'
<1>1. controller' \in Controllers(Faultable) /\ remaining' \in Int /\ job' = job
  BY MadeTyped
<1>2. result' \in Results /\ records' \in Seq(Transcribed)
  BY AnswersAreTyped
<1>3. /\ DOMAIN request' = Stages /\ request'["steps"] \in Seq(ScenarioSteps)
      /\ \A x \in Stages \ {"steps"} : request'[x] \in Seq(Statement \cup {NoStatement})
  BY RanIsTyped
<1>4. stored' \in Seq(Nat)
  <2>1. PICK c : c = "a"
    OBVIOUS
  <2>2. c \in Live
    BY <2>1 DEF Live
  <2> QED BY <2>1, <2>2, ExecutedIsTyped
<1>5. session' \in [Live -> Sessions] /\ exit' = 0 /\ phase' = "over"
  BY IdleIsTyped DEF Ends
<1> QED BY <1>1, <1>2, <1>3, <1>4, <1>5 DEF ExecutorTypeOK, PhasesOf, Exited, Running

LEMMA ObserveTyped ==
  ASSUME ExecutorTypeOK, NEW s, ObserveStatement(s) PROVE ExecutorTypeOK'
<1>0. PICK stage : stage = "observe"
  OBVIOUS
<1>1. s \in Statement /\ stage \in Stages \ {"steps"}
  BY <1>0, ObserveShape, DrawnStatements DEF Stages
<1>2. CASE Prevented("observe")
  BY <1>0, <1>2, PreventedTyped
<1>3. CASE Made("observe") /\ Unanswered(s)
  BY <1>0, <1>1, <1>3, UnansweredTyped
<1>4. ASSUME NEW r, Made("observe"), AnsweredWith(s, r), stored' = StoredAfter("a", s),
             Ran("observe", s), Ends(0)
      PROVE  ExecutorTypeOK'
  BY <1>0, <1>1, <1>4, EndedTyped
<1> QED BY <1>2, <1>3, <1>4, ObserveShape

LEMMA QueryTyped ==
  ASSUME ExecutorTypeOK, NEW s, QueryStatement(s) PROVE ExecutorTypeOK'
<1>0. PICK stage : stage = "query"
  OBVIOUS
<1>1. s \in Statement /\ stage \in Stages \ {"steps"}
  BY <1>0, QueryShape, DrawnStatements DEF Stages
<1>2. CASE Prevented("query")
  BY <1>0, <1>2, PreventedTyped
<1>3. CASE Made("query") /\ Unanswered(s)
  BY <1>0, <1>1, <1>3, UnansweredTyped
<1>4. ASSUME NEW r, Made("query"), AnsweredWith(s, r), stored' = StoredAfter("a", s),
             Ran("query", s), Ends(0)
      PROVE  ExecutorTypeOK'
  BY <1>0, <1>1, <1>4, EndedTyped
<1> QED BY <1>2, <1>3, <1>4, QueryShape

\* The steps of a scenario.
LEMMA BeginStepTyped ==
  ASSUME ExecutorTypeOK, NEW step, BeginStep(step) PROVE ExecutorTypeOK'
<1>1. /\ phase = "steps" /\ step \in job.steps /\ Still /\ step.op \in {"begin", "try_begin"}
      /\ result' = NoResult
  BY BeginStepShape
<1>2. step \in ScenarioSteps /\ step.connection \in Live /\ step.mode \in BeginModes
  BY <1>1, DrawnStatements, DrawnStepsAreTyped
<1>3. CASE Fails(3) \/ Overflows(step)
  BY <1>1, <1>3, ResultsAreTyped, StoppedTyped
<1>4. CASE MeetsALock(step)
  BY <1>1, <1>4, MeetsALockTyped
<1>5. CASE Kept(step, NoError, NoResult, Began(step.connection, step.mode), stored)
  <2>1. PICK e, r, after, table :
          e = NoError /\ r = NoResult /\ after = Began(step.connection, step.mode) /\ table = stored
    OBVIOUS
  <2>2. e \in BusyErrors \cup {NoError} /\ r \in Results /\ after \in [Live -> Sessions]
        /\ table \in Seq(Nat) /\ Kept(step, e, r, after, table)
    BY <1>2, <1>5, <2>1, ResultsAreTyped, BeganIsTyped DEF ExecutorTypeOK
  <2> QED BY <1>1, <2>2, KeptTyped
<1> QED BY <1>3, <1>4, <1>5, BeginStepShape

LEMMA EndStepTyped ==
  ASSUME ExecutorTypeOK, NEW step, EndStep(step) PROVE ExecutorTypeOK'
<1>1. /\ phase = "steps" /\ step \in job.steps /\ Still /\ result' = NoResult
  BY EndStepShape
<1>2. step \in ScenarioSteps /\ step.connection \in Live
  BY <1>1, DrawnStatements, DrawnStepsAreTyped
<1>3. CASE Fails(3) \/ Overflows(step)
  BY <1>1, <1>3, ResultsAreTyped, StoppedTyped
<1>5. CASE Kept(step, NoError, NoResult, [session EXCEPT ![step.connection] = Idle],
                IF step.op = "commit" THEN CommittedBy(step.connection) ELSE stored)
  <2>1. PICK e, r, after, table :
          /\ e = NoError /\ r = NoResult /\ after = [session EXCEPT ![step.connection] = Idle]
          /\ table = IF step.op = "commit" THEN CommittedBy(step.connection) ELSE stored
    OBVIOUS
  <2>2. e \in BusyErrors \cup {NoError} /\ r \in Results /\ Kept(step, e, r, after, table)
    BY <1>5, <2>1, ResultsAreTyped
  <2>3. after \in [Live -> Sessions]
    BY <2>1, IdleIsTyped DEF ExecutorTypeOK
  <2>4. table \in Seq(Nat)
    BY <1>2, <2>1, FieldsAreTyped DEF ExecutorTypeOK
  <2> QED BY <1>1, <2>2, <2>3, <2>4, KeptTyped
<1> QED BY <1>3, <1>5, EndStepShape

LEMMA ExecuteStepTyped ==
  ASSUME ExecutorTypeOK, NEW step, ExecuteStep(step) PROVE ExecutorTypeOK'
<1>1. /\ phase = "steps" /\ step \in job.steps /\ Still /\ step.op \in {"execute", "try_execute"}
      /\ result' = NoResult
  BY ExecuteStepShape
<1>2. step \in ScenarioSteps /\ step.connection \in Live /\ step.statement \in Statement
  BY <1>1, DrawnStatements, DrawnStepsAreTyped
<1>3. CASE Fails(2) \/ Fails(3) \/ Overflows(step)
  BY <1>1, <1>3, ResultsAreTyped, StoppedTyped
<1>4. CASE MeetsALock(step)
  BY <1>1, <1>4, MeetsALockTyped
<1>5. CASE Kept(step, NoError, NoResult, Executed(step.connection, step.statement),
                StoredAfter(step.connection, step.statement))
  <2>1. PICK e, r, after, table :
          /\ e = NoError /\ r = NoResult /\ after = Executed(step.connection, step.statement)
          /\ table = StoredAfter(step.connection, step.statement)
    OBVIOUS
  <2>2. e \in BusyErrors \cup {NoError} /\ r \in Results /\ Kept(step, e, r, after, table)
    BY <1>5, <2>1, ResultsAreTyped
  <2>3. after \in [Live -> Sessions] /\ table \in Seq(Nat)
    BY <1>2, <2>1, ExecutedIsTyped
  <2> QED BY <1>1, <2>2, <2>3, KeptTyped
<1> QED BY <1>3, <1>4, <1>5, ExecuteStepShape

\* A statement that ran is one that SQLite takes.
LEMMA RanIsTaken ==
  ASSUME NEW c, NEW s \in Statement, NoError \in ExecuteErrors(c, s) PROVE ~Refused(s)
BY DEF ExecuteErrors, Refused, NoError

LEMMA QueryStepTyped ==
  ASSUME ExecutorTypeOK, NEW step, QueryStep(step) PROVE ExecutorTypeOK'
<1>1. /\ phase = "steps" /\ step \in job.steps /\ Still /\ step.op \in {"query", "try_query"}
  BY QueryStepShape
<1>2. step \in ScenarioSteps /\ step.connection \in Live /\ step.statement \in Statement
  BY <1>1, DrawnStatements, DrawnStepsAreTyped
<1>3. CASE (Fails(2) \/ Fails(3) \/ Overflows(step)) /\ result' = NoResult
  BY <1>1, <1>3, ResultsAreTyped, StoppedTyped
<1>4. CASE MeetsALock(step)
  BY <1>1, <1>4, MeetsALockTyped
<1>5. ASSUME NEW r, r = [columns |-> step.statement.columns,
                         rows |-> RowsOf(step.statement, Tabled(step.connection))],
             result' = r, NoError \in ExecuteErrors(step.connection, step.statement),
             \/ Fails(3) \/ Overflows(step)
             \/ Kept(step, NoError, r, Executed(step.connection, step.statement),
                     StoredAfter(step.connection, step.statement))
      PROVE  ExecutorTypeOK'
  <2>1. r \in Results
    BY <1>2, <1>5, RanIsTaken, FieldsAreTyped, RowsAreTyped
  <2>2. CASE Fails(3) \/ Overflows(step)
    BY <1>1, <1>5, <2>1, <2>2, StoppedTyped
  <2>3. CASE Kept(step, NoError, r, Executed(step.connection, step.statement),
                  StoredAfter(step.connection, step.statement))
    <3>1. PICK e, after, table :
            /\ e = NoError /\ after = Executed(step.connection, step.statement)
            /\ table = StoredAfter(step.connection, step.statement)
      OBVIOUS
    <3>2. e \in BusyErrors \cup {NoError} /\ Kept(step, e, r, after, table)
      BY <2>3, <3>1
    <3>3. after \in [Live -> Sessions] /\ table \in Seq(Nat)
      BY <1>2, <3>1, ExecutedIsTyped
    <3> QED BY <1>1, <2>1, <3>2, <3>3, KeptTyped
  <2> QED BY <1>5, <2>2, <2>3
<1> QED BY <1>3, <1>4, <1>5, QueryStepShape

LEMMA ScenarioDoneTyped ==
  ASSUME ExecutorTypeOK, ScenarioDone PROVE ExecutorTypeOK'
<1>1. controller' \in Controllers(Faultable) /\ remaining' \in Int /\ job' = job /\ result' \in Results
  BY DEF ScenarioDone, ExecutorTypeOK
<1>2. CASE Fails(3)
  BY <1>1, <1>2, FailsTyped
<1>3. CASE Ends(0) /\ UNCHANGED <<request, records, stored>>
  BY <1>1, <1>3, IdleIsTyped DEF ExecutorTypeOK, PhasesOf, Ends, Exited, Running
<1> QED BY <1>2, <1>3 DEF ScenarioDone

LEMMA SetupDoneTyped ==
  ASSUME ExecutorTypeOK, SetupDone PROVE ExecutorTypeOK'
<1>1. phase' \in PhasesOf(job.worker) /\ phase' # "over"
  BY PhasesAreWorkers DEF SetupDone, PhasesOf
<1> QED BY <1>1 DEF ExecutorTypeOK, SetupDone, Exited

\* The probe of the lock.
LEMMA HoldsTyped ==
  ASSUME ExecutorTypeOK, NEW c \in Live, NEW mode \in BeginModes, NEW v \in Nat
  PROVE  Holds(c, mode, v) \in [Live -> Sessions]
<1>1. PICK s : s = Began(c, mode)
  OBVIOUS
<1>2. s \in [Live -> Sessions] /\ s[c] \in Sessions
  BY <1>1, BeganIsTyped
<1>3. PICK o : o = <<v>>
  OBVIOUS
<1>4. o \in Seq(Nat)
  BY <1>3
<1>5. [s[c] EXCEPT !.own = o] \in Sessions
  BY <1>2, <1>4 DEF Sessions
<1>6. Holds(c, mode, v) = [s EXCEPT ![c] = [s[c] EXCEPT !.own = o]]
  BY <1>1, <1>2, <1>3 DEF Holds
<1> QED BY <1>2, <1>5, <1>6

LEMMA ProbedTyped ==
  ASSUME ExecutorTypeOK, NEW here, NEW next \in {"hold", "contend", "release", "retry", "settle"},
         Probing(here, next), here \in {"hold", "contend", "release", "retry", "settle"}, Unchanging,
         session' \in [Live -> Sessions]
  PROVE  ExecutorTypeOK'
<1>1. job.worker = "lock"
  BY PhasesAreWorkers DEF Probing
<1>2. phase' \in PhasesOf(job.worker) /\ phase' # "over"
  BY <1>1 DEF Probing, PhasesOf
<1> QED BY <1>2 DEF ExecutorTypeOK, Probing, Unchanging, Exited

LEMMA ProbeFailsTyped ==
  ASSUME ExecutorTypeOK, Unchanging, Fails(3), result' = result PROVE ExecutorTypeOK'
<1>1. controller' \in Controllers(Faultable) /\ remaining' \in Int /\ job' = job /\ result' \in Results
  BY DEF Unchanging, ExecutorTypeOK
<1> QED BY <1>1, FailsTyped

LEMMA HoldShape ==
  ASSUME HoldLock
  PROVE  Unchanging /\ Probing("hold", "contend") /\ session' = Holds("a", job.begin, 1)
BY DEF HoldLock, ProbeIf

LEMMA ContendShape ==
  ASSUME ContendForLock
  PROVE  /\ Unchanging /\ phase = "contend"
         /\ \/ /\ BeginError("b", job.contender) \in BusyErrors
               /\ Probing("contend", "release") /\ session' = session
            \/ BeginError("b", job.contender) \notin BusyErrors /\ Fails(3) /\ result' = result
BY DEF ContendForLock, ProbeIf

LEMMA RetryShape ==
  ASSUME RetryLock
  PROVE  /\ Unchanging /\ phase = "retry"
         /\ \/ /\ BeginError("b", job.contender) = NoError
               /\ Probing("retry", "settle") /\ session' = Holds("b", job.contender, 2)
            \/ BeginError("b", job.contender) # NoError /\ Fails(3) /\ result' = result
BY DEF RetryLock, ProbeIf

LEMMA LockTyped ==
  ASSUME ExecutorTypeOK, HoldLock \/ ContendForLock \/ ReleaseLock \/ RetryLock \/ SettleLock
  PROVE  ExecutorTypeOK'
<1>0. PICK a, b : a = "a" /\ b = "b"
  OBVIOUS
<1>1. a \in Live /\ b \in Live /\ 1 \in Nat /\ 2 \in Nat
  BY <1>0 DEF Live
<1>2. CASE HoldLock
  <2>1. PICK mode, v : mode = job.begin /\ v = 1
    OBVIOUS
  <2>2. mode \in BeginModes /\ v \in Nat /\ session' = Holds(a, mode, v)
    BY <1>0, <1>2, <2>1, HoldShape, BeganSteps
  <2>3. session' \in [Live -> Sessions]
    BY <1>1, <2>2, HoldsTyped
  <2>4. PICK here, next : here = "hold" /\ next = "contend"
    OBVIOUS
  <2> QED BY <1>2, <2>3, <2>4, HoldShape, ProbedTyped
<1>3. CASE ContendForLock
  <2>4. PICK here, next : here = "contend" /\ next = "release"
    OBVIOUS
  <2>5. (Probing(here, next) /\ session' = session) \/ (Fails(3) /\ result' = result)
    BY <1>3, <2>4, ContendShape
  <2>6. session' = session => session' \in [Live -> Sessions]
    BY DEF ExecutorTypeOK
  <2> QED BY <1>3, <2>4, <2>5, <2>6, ContendShape, ProbedTyped, ProbeFailsTyped
<1>4. CASE ReleaseLock
  <2>3. session' \in [Live -> Sessions]
    BY <1>4, IdleIsTyped DEF ReleaseLock, ExecutorTypeOK
  <2>4. PICK here, next : here = "release" /\ next = "retry"
    OBVIOUS
  <2>5. Probing(here, next) /\ Unchanging
    BY <1>4, <2>4 DEF ReleaseLock
  <2> QED BY <2>3, <2>4, <2>5, ProbedTyped
<1>5. CASE RetryLock
  <2>1. PICK mode, v : mode = job.contender /\ v = 2
    OBVIOUS
  <2>2. mode \in BeginModes /\ v \in Nat
    BY <1>5, <2>1, RetryShape, BeganSteps, PhasesAreWorkers
  <2>3. Holds(b, mode, v) \in [Live -> Sessions]
    BY <1>1, <2>2, HoldsTyped
  <2>4. PICK here, next : here = "retry" /\ next = "settle"
    OBVIOUS
  <2>5. CASE Probing(here, next) /\ session' = Holds(b, mode, v)
    BY <1>5, <2>3, <2>4, <2>5, RetryShape, ProbedTyped
  <2>6. CASE Fails(3) /\ result' = result
    BY <1>5, <2>6, RetryShape, ProbeFailsTyped
  <2> QED BY <1>0, <1>5, <2>1, <2>4, <2>5, <2>6, RetryShape
<1>6. CASE SettleLock
  <2>1. CASE Fails(3) /\ result' = result
    BY <1>6, <2>1, ProbeFailsTyped DEF SettleLock
  <2>2. CASE /\ stored' = CommittedBy("b") /\ result' = [columns |-> 1, rows |-> CommittedBy("b")]
             /\ Ends(0) /\ UNCHANGED <<request, records>>
    <3>1. PICK t : t = CommittedBy("b")
      OBVIOUS
    <3>2. t \in Seq(Nat)
      BY <1>0, <1>1, <3>1, FieldsAreTyped
    <3>3. result' \in Results /\ stored' \in Seq(Nat)
      BY <2>2, <3>1, <3>2 DEF Results
    <3>4. UNCHANGED <<job, controller, remaining>>
      BY <1>6 DEF SettleLock, Unchanging
    <3> QED BY <2>2, <3>3, <3>4, IdleIsTyped DEF ExecutorTypeOK, PhasesOf, Ends, Exited, Running
  <2> QED BY <1>6, <2>1, <2>2 DEF SettleLock
<1> QED BY <1>2, <1>3, <1>4, <1>5, <1>6

LEMMA ExecutorStartsTyped == ExecutorInit => ExecutorTypeOK
<1> SUFFICES ASSUME ExecutorInit PROVE ExecutorTypeOK
  OBVIOUS
<1>1. job \in Job /\ job.worker \in {"query", "transaction", "two_connection", "lock"}
      /\ job.budget \in Nat
      /\ (job.faults => job.fault \in [operation : Faultable, occurrence : Nat])
  BY JobAssumption DEF ExecutorInit, Faultable
<1>2. phase \in PhasesOf(job.worker) /\ phase # "over"
  BY <1>1 DEF ExecutorInit, PhasesOf
<1>3. controller \in Controllers(Faultable)
  <2>1. PICK spec : spec = (IF job.faults THEN job.fault ELSE NoFault)
    OBVIOUS
  <2>2. controller = NewController(spec)
    BY <2>1 DEF ExecutorInit
  <2>3. spec \in [operation : Faultable, occurrence : Nat]
    BY <1>1, <2>1 DEF NoFault, FaultSpec, Faultable
  <2> QED BY <2>2, <2>3 DEF NewController, Controllers
<1>4. remaining \in Int /\ stored \in Seq(Nat)
  BY <1>1 DEF ExecutorInit
<1>5. session \in [Live -> Sessions]
  BY IdleIsTyped DEF ExecutorInit
<1>6. /\ DOMAIN request = Stages /\ request["steps"] \in Seq(ScenarioSteps)
      /\ \A stage \in Stages \ {"steps"} : request[stage] \in Seq(Statement \cup {NoStatement})
  BY DEF ExecutorInit, Stages
<1>7. records \in Seq(Transcribed) /\ result \in Results
  BY ResultsAreTyped DEF ExecutorInit
<1>8. exit \in {0, 2, 3, 4, 5, 6, Running} /\ (Exited <=> phase = "over")
  BY <1>2 DEF ExecutorInit, Exited
<1> QED BY <1>1, <1>2, <1>3, <1>4, <1>5, <1>6, <1>7, <1>8 DEF ExecutorTypeOK

LEMMA ExecutorTypeStep ==
  ASSUME ExecutorTypeOK, [ExecutorNext]_executor
  PROVE  ExecutorTypeOK'
<1>1. CASE UNCHANGED executor
  BY <1>1 DEF executor, ExecutorTypeOK, Exited
<1>2. CASE RejectScenario \/ RejectTransaction \/ RejectQuery \/ RejectProbe
  BY <1>2, RejectedTyped DEF RejectScenario, RejectTransaction, RejectQuery, RejectProbe
<1>3. CASE SetupDone
  BY <1>3, SetupDoneTyped
<1>4. CASE BeginTransaction
  BY <1>4, BeginTyped
<1>5. CASE Finalize
  BY <1>5, FinalizeTyped
<1>6. CASE ScenarioDone
  BY <1>6, ScenarioDoneTyped
<1>7. ASSUME NEW s \in Statement, BootstrapStatement(s) PROVE ExecutorTypeOK'
  BY <1>7, BootstrapTyped
<1>8. ASSUME NEW s \in Statement, SetupStatement(s) PROVE ExecutorTypeOK'
  BY <1>8, SetupTyped
<1>9. ASSUME NEW s \in Statement, TransactionStatement(s) PROVE ExecutorTypeOK'
  BY <1>9, TransactionTyped
<1>10. ASSUME NEW s \in Statement, ObserveStatement(s) PROVE ExecutorTypeOK'
  BY <1>10, ObserveTyped
<1>11. ASSUME NEW s \in Statement, QueryStatement(s) PROVE ExecutorTypeOK'
  BY <1>11, QueryTyped
<1>12. ASSUME NEW step \in job.steps, BeginStep(step) PROVE ExecutorTypeOK'
  BY <1>12, BeginStepTyped
<1>13. ASSUME NEW step \in job.steps, EndStep(step) PROVE ExecutorTypeOK'
  BY <1>13, EndStepTyped
<1>14. ASSUME NEW step \in job.steps, ExecuteStep(step) PROVE ExecutorTypeOK'
  BY <1>14, ExecuteStepTyped
<1>15. ASSUME NEW step \in job.steps, QueryStep(step) PROVE ExecutorTypeOK'
  BY <1>15, QueryStepTyped
<1>16. CASE HoldLock \/ ContendForLock \/ ReleaseLock \/ RetryLock \/ SettleLock
  BY <1>16, LockTyped
<1> QED BY <1>1, <1>2, <1>3, <1>4, <1>5, <1>6, <1>7, <1>8, <1>9, <1>10, <1>11, <1>12, <1>13, <1>14,
           <1>15, <1>16 DEF ExecutorNext

\* Every variable of a target that executes what it is sent keeps to its values, and a target
\* that has an exit code does nothing more.
THEOREM ExecutorsAreTyped == ExecutorSpec => []ExecutorTypeOK
<1>1. ExecutorInit => ExecutorTypeOK
  BY ExecutorStartsTyped
<1>2. ExecutorTypeOK /\ [ExecutorNext]_executor => ExecutorTypeOK'
  BY ExecutorTypeStep
<1> QED BY <1>1, <1>2, PTL DEF ExecutorSpec

----------------------------------------------------------------------------
(***************************************************************************)
(* The ceilings are exact.                                                 *)
(***************************************************************************)
FitsIn(j, r) ==
  /\ r.columns <= j.ceilings.columns /\ Len(r.rows) <= j.ceilings.rows
  /\ \A i \in 1..Len(r.rows) : r.rows[i] <= j.ceilings.value
  /\ (IF j.worker = "two_connection" THEN ResultBytes(r) ELSE RowsBytes(r)) <= j.ceilings.bytes
SizeIn(j, r) ==
  IF j.worker = "two_connection"
  THEN HeaderBytes + (IF r = NoResult THEN 0 ELSE ResultBytes(r)) ELSE ResultBytes(r)
SizesIn(j, transcript) == [i \in 1..Len(transcript) |-> SizeIn(j, transcript[i].result)]
Unwritable(j, transcript, r) ==
  \/ ~FitsIn(j, r)
  \/ /\ j.worker # "query"
     /\ Total(SizesIn(j, Append(transcript, RecordOf("", "", NoError, r)))) > j.ceilings.transcript
\* The invariant, of the values of the variables.
Within(j, transcript, r, code) ==
  /\ \A i \in 1..Len(transcript) : transcript[i].result = NoResult \/ FitsIn(j, transcript[i].result)
  /\ code = 4 => Unwritable(j, transcript, r)

\* Writing nothing, writing a record, and giving up.
WritesNothing == records' = records /\ exit' # 4
Writes(record) ==
  /\ records' = Append(records, record) /\ exit' # 4
  /\ record.result = NoResult \/ Fits(record.result)
GivesUp(r, record) ==
  /\ records' = records /\ result' = r /\ exit' = 4
  /\ record.result = r
  /\ ~Collects(r) \/ ~HasRoomFor(record)

LEMMA SizesAreKnown ==
  ASSUME NEW j, NEW r \in Results PROVE ResultBytes(r) \in Nat /\ SizeIn(j, r) \in Nat
<1>1. r.columns \in Nat /\ ColumnsBytes(r.columns) \in Nat /\ Len(r.rows) \in Nat
  BY ColumnsHaveSizes DEF Results
<1>2. RowsBytes(r) \in Nat
  <2>1. FirstRows(r, Len(r.rows)) \in Seq(Nat) /\ Len(FirstRows(r, Len(r.rows))) = Len(r.rows)
    BY <1>1, FirstRowsAreSizes
  <2>2. Total(FirstRows(r, Len(r.rows))) \in Nat
    BY <2>1, TotalGrows
  <2>3. FirstRows(r, Len(r.rows)) = <<>> \/ Len(FirstRows(r, Len(r.rows))) - 1 \in Nat
    BY <2>1
  <2>4. RowsBytes(r) = SizeOfJsonList(FirstRows(r, Len(r.rows)))
    BY DEF RowsBytes, FirstRows
  <2> QED BY <2>2, <2>3, <2>4 DEF SizeOfJsonList
<1> QED BY <1>1, <1>2 DEF ResultBytes, SizeIn, HeaderBytes

LEMMA TranscriptsAreSized ==
  ASSUME NEW j, NEW transcript, NEW record, NEW other,
         transcript \in Seq(Transcribed), record.result \in Results, record.result = other.result
  PROVE  /\ Total(SizesIn(j, Append(transcript, record))) \in Nat
         /\ SizesIn(j, Append(transcript, record)) = SizesIn(j, Append(transcript, other))
<1> DEFINE n == Len(transcript)
           s == SizesIn(j, Append(transcript, record))
<1>1. n \in Nat /\ Len(Append(transcript, record)) = n + 1 /\ Len(Append(transcript, other)) = n + 1
  OBVIOUS
<1>2. \A i \in 1..(n + 1) : /\ Append(transcript, record)[i].result \in Results
                            /\ Append(transcript, record)[i].result = Append(transcript, other)[i].result
  <2> SUFFICES ASSUME NEW i \in 1..(n + 1)
               PROVE  /\ Append(transcript, record)[i].result \in Results
                      /\ Append(transcript, record)[i].result = Append(transcript, other)[i].result
    OBVIOUS
  <2>1. CASE i = n + 1
    BY <2>1
  <2>2. CASE i # n + 1
    <3>1. i \in 1..n
      BY <1>1, <2>2
    <3>2. transcript[i] \in Transcribed
      BY <3>1
    <3> QED BY <1>1, <3>1, <3>2 DEF Transcribed
  <2> QED BY <2>1, <2>2
<1>3. \A i \in 1..(n + 1) : SizeIn(j, Append(transcript, record)[i].result) \in Nat
  BY <1>2, SizesAreKnown
<1>4. s = [i \in 1..(n + 1) |-> SizeIn(j, Append(transcript, record)[i].result)]
  BY <1>1 DEF SizesIn
<1>5. SizesIn(j, Append(transcript, other)) = [i \in 1..(n + 1) |-> SizeIn(j, Append(transcript, other)[i].result)]
  BY <1>1 DEF SizesIn
<1>6. s = SizesIn(j, Append(transcript, other))
  BY <1>2, <1>4, <1>5
<1>7. s \in Seq(Nat)
  BY <1>1, <1>3, <1>4
<1> QED BY <1>6, <1>7, TotalGrows

LEMMA FittingIsWithin ==
  ASSUME NEW r PROVE Fits(r) <=> FitsIn(job, r)
BY DEF Fits, FitsIn

LEMMA RoomIsWithin ==
  ASSUME NEW record
  PROVE  /\ RecordBytes(record) = SizeIn(job, record.result)
         /\ HasRoomFor(record) <=>
              \/ job.worker = "query"
              \/ Total(SizesIn(job, Append(records, record))) <= job.ceilings.transcript
<1>1. \A x : RecordBytes(x) = SizeIn(job, x.result)
  BY DEF RecordBytes, SizeIn
<1>2. \A t : [i \in 1..Len(t) |-> RecordBytes(t[i])] = SizesIn(job, t)
  BY <1>1 DEF SizesIn
<1>3. \A t : TranscriptBytes(t) = Total(SizesIn(job, t))
  BY <1>2 DEF TranscriptBytes
<1> QED BY <1>1, <1>3 DEF HasRoomFor

LEMMA SilenceIsWithin ==
  ASSUME Within(job, records, result, exit), job' = job, WritesNothing
  PROVE  Within(job', records', result', exit')
BY DEF Within, WritesNothing

LEMMA WritingIsWithin ==
  ASSUME ExecutorTypeOK, Within(job, records, result, exit), job' = job, NEW record, Writes(record)
  PROVE  Within(job', records', result', exit')
<1>1. PICK j, t, u : j = job /\ t = records /\ u = records'
  OBVIOUS
<1>2. u = Append(t, record) /\ exit' # 4 /\ t \in Seq(Transcribed)
  BY <1>1 DEF Writes, ExecutorTypeOK
<1>3. record.result = NoResult \/ FitsIn(j, record.result)
  BY <1>1, FittingIsWithin DEF Writes
<1>4. \A i \in 1..Len(t) : t[i].result = NoResult \/ FitsIn(j, t[i].result)
  BY <1>1 DEF Within
<1>5. \A i \in 1..Len(u) : u[i].result = NoResult \/ FitsIn(j, u[i].result)
  BY <1>2, <1>3, <1>4
<1> QED BY <1>1, <1>2, <1>5 DEF Within

LEMMA GivingUpIsWithin ==
  ASSUME ExecutorTypeOK, ExecutorTypeOK', Within(job, records, result, exit), job' = job, NEW r, NEW record,
         GivesUp(r, record)
  PROVE  Within(job', records', result', exit')
<1>1. PICK j, t : j = job /\ t = records
  OBVIOUS
<1>2. t \in Seq(Transcribed) /\ r \in Results /\ job \in Job /\ records' = t /\ exit' = 4 /\ result' = r
      /\ record.result = r
  BY <1>1 DEF GivesUp, ExecutorTypeOK
<1>3. \A i \in 1..Len(t) : t[i].result = NoResult \/ FitsIn(j, t[i].result)
  BY <1>1 DEF Within
<1>4. CASE ~Collects(r)
  BY <1>1, <1>2, <1>3, <1>4, CollectsWhatFits, FittingIsWithin DEF Within, Unwritable
<1>5. CASE ~HasRoomFor(record)
  <2>1. PICK other : other = RecordOf("", "", NoError, r)
    OBVIOUS
  <2>2. other.result = record.result
    BY <1>2, <2>1 DEF RecordOf
  <2>3. /\ Total(SizesIn(j, Append(t, record))) \in Nat
        /\ SizesIn(j, Append(t, record)) = SizesIn(j, Append(t, other))
    BY <1>2, <2>2, TranscriptsAreSized
  <2>4. j.worker # "query" /\ ~(Total(SizesIn(j, Append(t, record))) <= j.ceilings.transcript)
    BY <1>1, <1>5, RoomIsWithin
  <2>5. j.ceilings.transcript \in Nat
    BY <1>1, <1>2, JobAssumption
  <2>6. Total(SizesIn(j, Append(t, other))) > j.ceilings.transcript
    BY <2>3, <2>4, <2>5
  <2>7. Unwritable(j, t, r)
    BY <2>1, <2>4, <2>6 DEF Unwritable
  <2> QED BY <1>1, <1>2, <1>3, <2>7 DEF Within
<1> QED BY <1>2, <1>4, <1>5 DEF GivesUp

LEMMA StoppingIsWithin ==
  ASSUME ExecutorTypeOK, Within(job, records, result, exit), job' = job, NEW code \in {2, 3, 5, 6}, Fails(code)
  PROVE  Within(job', records', result', exit')
<1>1. WritesNothing
  BY DEF WritesNothing, Fails, Ends
<1> QED BY <1>1, SilenceIsWithin

LEMMA RunningIsNotFour ==
  ASSUME ExecutorTypeOK, phase # "over" PROVE exit # 4 /\ exit = Running
BY DEF ExecutorTypeOK, Exited, Running

LEMMA AnswersAreWithin ==
  ASSUME ExecutorTypeOK, Within(job, records, result, exit), job' = job,
         NEW s \in Statement, NEW r, AnsweredWith(s, r), exit' # 4
  PROVE  Within(job', records', result', exit')
<1>1. PICK record : record = RecordOf("execute", "a", NoError, r)
  OBVIOUS
<1>2. r \in Results /\ job \in Job
  BY AnswersAreTyped DEF ExecutorTypeOK
<1>3. record.result = r /\ records' = Append(records, record) /\ Collects(r)
  BY <1>1 DEF RecordOf, AnsweredWith
<1>4. Writes(record)
  BY <1>2, <1>3, CollectsWhatFits DEF Writes
<1> QED BY <1>4, WritingIsWithin

LEMMA UnansweredIsWithin ==
  ASSUME ExecutorTypeOK, ExecutorTypeOK', Within(job, records, result, exit), job' = job,
         NEW s, Unanswered(s)
  PROVE  Within(job', records', result', exit')
<1>1. CASE Fails(3)
  BY <1>1, StoppingIsWithin
<1>2. CASE ~Fails(3)
  <2>1. PICK r : /\ result' = r /\ ~(Collects(r) /\ HasRoomFor(RecordOf("execute", "a", NoError, r)))
                 /\ Fails(4)
    BY <1>2 DEF Unanswered
  <2>2. PICK record : record = RecordOf("execute", "a", NoError, r)
    OBVIOUS
  <2>3. GivesUp(r, record)
    BY <2>1, <2>2 DEF GivesUp, Fails, Ends, RecordOf
  <2> QED BY <2>3, GivingUpIsWithin
<1> QED BY <1>1, <1>2

LEMMA PreventedIsWithin ==
  ASSUME ExecutorTypeOK, Within(job, records, result, exit), NEW operation, Prevented(operation)
  PROVE  Within(job', records', result', exit')
<1>1. job' = job /\ (Fails(5) \/ Fails(6))
  BY DEF Prevented
<1> QED BY <1>1, StoppingIsWithin

LEMMA OverflowIsWithin ==
  ASSUME ExecutorTypeOK, ExecutorTypeOK', Within(job, records, result, exit), job' = job,
         NEW step, Overflows(step)
  PROVE  Within(job', records', result', exit')
<1>1. PICK r : r = result'
  OBVIOUS
<1>2. Fails(4) /\ (~Collects(r) \/ \E error : ~HasRoomFor(RecordOf(step.op, step.connection, error, r)))
  <2>1. Fails(4)
    BY DEF Overflows
  <2>2. CASE ~Collects(result')
    BY <1>1, <2>1, <2>2
  <2>3. CASE \E error : ~HasRoomFor(RecordOf(step.op, step.connection, error, result'))
    BY <1>1, <2>1, <2>3
  <2> QED BY <2>2, <2>3 DEF Overflows
<1>3. PICK error : ~Collects(r) \/ ~HasRoomFor(RecordOf(step.op, step.connection, error, r))
  BY <1>2
<1>4. PICK record : record = RecordOf(step.op, step.connection, error, r)
  OBVIOUS
<1>5. GivesUp(r, record)
  BY <1>1, <1>2, <1>3, <1>4 DEF GivesUp, Fails, Ends, RecordOf
<1> QED BY <1>5, GivingUpIsWithin

LEMMA KeptIsWithin ==
  ASSUME ExecutorTypeOK, Within(job, records, result, exit), job' = job, phase # "over",
         NEW step, NEW error, NEW r, NEW after, NEW table, Kept(step, error, r, after, table),
         r = NoResult \/ (r \in Results /\ Collects(r))
  PROVE  Within(job', records', result', exit')
<1>1. PICK record : record = RecordOf(step.op, step.connection, error, r)
  OBVIOUS
<1>2. record.result = r /\ records' = Append(records, record) /\ exit' = exit
  BY <1>1 DEF RecordOf, Kept
<1>3. r = NoResult \/ Fits(r)
  BY CollectsWhatFits DEF ExecutorTypeOK
<1>4. Writes(record)
  BY <1>2, <1>3, RunningIsNotFour DEF Writes
<1> QED BY <1>4, WritingIsWithin

LEMMA BusyIsWithin ==
  ASSUME ExecutorTypeOK, Within(job, records, result, exit), job' = job, phase # "over",
         NEW step, MeetsALock(step)
  PROVE  Within(job', records', result', exit')
<1>1. PICK after, table : after = session /\ table = stored
  OBVIOUS
<1>2. PICK error : Kept(step, error, NoResult, after, table)
  BY <1>1 DEF MeetsALock
<1> QED BY <1>2, KeptIsWithin

LEMMA WithinStep ==
  ASSUME ExecutorTypeOK, ExecutorTypeOK', Within(job, records, result, exit), [ExecutorNext]_executor
  PROVE  Within(job', records', result', exit')
<1>1. CASE UNCHANGED executor
  BY <1>1 DEF executor
<1>2. CASE RejectScenario \/ RejectTransaction \/ RejectQuery \/ RejectProbe
  <2>1. job' = job /\ Fails(2)
    BY <1>2 DEF RejectScenario, RejectTransaction, RejectQuery, RejectProbe, Rejects
  <2> QED BY <2>1, StoppingIsWithin
<1>3. CASE SetupDone
  <2>1. job' = job /\ WritesNothing
    BY <1>3, RunningIsNotFour DEF SetupDone, WritesNothing
  <2> QED BY <2>1, SilenceIsWithin
<1>4. CASE BeginTransaction
  <2>1. CASE Prevented("begin")
    <3>1. PICK operation : operation = "begin" /\ Prevented(operation)
      BY <2>1
    <3> QED BY <3>1, PreventedIsWithin
  <2>2. CASE ~Prevented("begin")
    <3>1. job' = job /\ WritesNothing
      BY <1>4, <2>2, BeginShape, RunningIsNotFour DEF Made, WritesNothing
    <3> QED BY <3>1, SilenceIsWithin
  <2> QED BY <2>1, <2>2
<1>5. CASE Finalize
  <2>1. CASE Prevented("finalize")
    <3>1. PICK operation : operation = "finalize" /\ Prevented(operation)
      BY <2>1
    <3> QED BY <3>1, PreventedIsWithin
  <2>2. CASE ~Prevented("finalize")
    <3>1. job' = job /\ WritesNothing
      BY <1>5, <2>2, FinalizeShape, RunningIsNotFour DEF Made, WritesNothing
    <3> QED BY <3>1, SilenceIsWithin
  <2> QED BY <2>1, <2>2
<1>6. CASE ScenarioDone
  <2>1. job' = job /\ WritesNothing
    BY <1>6 DEF ScenarioDone, WritesNothing, Fails, Ends
  <2> QED BY <2>1, SilenceIsWithin
<1>7. ASSUME NEW s \in Statement, BootstrapStatement(s) PROVE Within(job', records', result', exit')
  <2>1. job' = job /\ WritesNothing
    BY <1>7, RunningIsNotFour DEF BootstrapStatement, Sets, WritesNothing, Fails, Ends
  <2> QED BY <2>1, SilenceIsWithin
<1>8. ASSUME NEW s \in Statement, SetupStatement(s) PROVE Within(job', records', result', exit')
  <2>1. CASE Prevented("setup")
    <3>1. PICK operation : operation = "setup" /\ Prevented(operation)
      BY <2>1
    <3> QED BY <3>1, PreventedIsWithin
  <2>2. CASE ~Prevented("setup")
    <3>1. job' = job /\ WritesNothing
      BY <1>8, <2>2, SetupShape, RunningIsNotFour DEF Made, WritesNothing, Fails, Ends
    <3> QED BY <3>1, SilenceIsWithin
  <2> QED BY <2>1, <2>2
<1>9. ASSUME NEW s \in Statement, TransactionStatement(s) PROVE Within(job', records', result', exit')
  <2>1. CASE Prevented("transaction")
    <3>1. PICK operation : operation = "transaction" /\ Prevented(operation)
      BY <2>1
    <3> QED BY <3>1, PreventedIsWithin
  <2>2. CASE Made("transaction") /\ Unanswered(s)
    BY <2>2, UnansweredIsWithin DEF Made
  <2>3. CASE \E r : Made("transaction") /\ AnsweredWith(s, r) /\ exit' = exit
    <3>1. PICK r : job' = job /\ AnsweredWith(s, r) /\ exit' = exit
      BY <2>3 DEF Made
    <3>2. exit' # 4
      BY <1>9, <3>1, TransactionShape, RunningIsNotFour
    <3> QED BY <3>1, <3>2, AnswersAreWithin
  <2> QED BY <1>9, <2>1, <2>2, <2>3, TransactionShape
<1>10. ASSUME NEW s \in Statement, ObserveStatement(s) PROVE Within(job', records', result', exit')
  <2>1. CASE Prevented("observe")
    <3>1. PICK operation : operation = "observe" /\ Prevented(operation)
      BY <2>1
    <3> QED BY <3>1, PreventedIsWithin
  <2>2. CASE Made("observe") /\ Unanswered(s)
    BY <2>2, UnansweredIsWithin DEF Made
  <2>3. CASE \E r : Made("observe") /\ AnsweredWith(s, r) /\ Ends(0)
    <3>1. PICK r : job' = job /\ AnsweredWith(s, r) /\ exit' # 4
      BY <2>3 DEF Made, Ends
    <3> QED BY <3>1, AnswersAreWithin
  <2> QED BY <1>10, <2>1, <2>2, <2>3, ObserveShape
<1>11. ASSUME NEW s \in Statement, QueryStatement(s) PROVE Within(job', records', result', exit')
  <2>1. CASE Prevented("query")
    <3>1. PICK operation : operation = "query" /\ Prevented(operation)
      BY <2>1
    <3> QED BY <3>1, PreventedIsWithin
  <2>2. CASE Made("query") /\ Unanswered(s)
    BY <2>2, UnansweredIsWithin DEF Made
  <2>3. CASE \E r : Made("query") /\ AnsweredWith(s, r) /\ Ends(0)
    <3>1. PICK r : job' = job /\ AnsweredWith(s, r) /\ exit' # 4
      BY <2>3 DEF Made, Ends
    <3> QED BY <3>1, AnswersAreWithin
  <2> QED BY <1>11, <2>1, <2>2, <2>3, QueryShape
<1>12. ASSUME NEW step \in job.steps, BeginStep(step) PROVE Within(job', records', result', exit')
  <2>1. job' = job /\ phase # "over"
    BY <1>12, BeginStepShape DEF Still
  <2>2. PICK after, table : after = Began(step.connection, step.mode) /\ table = stored
    OBVIOUS
  <2>3. Fails(3) \/ Overflows(step) \/ MeetsALock(step) \/ Kept(step, NoError, NoResult, after, table)
    BY <1>12, <2>2, BeginStepShape
  <2> QED BY <2>1, <2>3, StoppingIsWithin, OverflowIsWithin, BusyIsWithin, KeptIsWithin
<1>13. ASSUME NEW step \in job.steps, EndStep(step) PROVE Within(job', records', result', exit')
  <2>1. job' = job /\ phase # "over"
    BY <1>13, EndStepShape DEF Still
  <2>2. PICK after, table : /\ after = [session EXCEPT ![step.connection] = Idle]
                            /\ table = IF step.op = "commit" THEN CommittedBy(step.connection) ELSE stored
    OBVIOUS
  <2>3. Fails(3) \/ Overflows(step) \/ Kept(step, NoError, NoResult, after, table)
    BY <1>13, <2>2, EndStepShape
  <2> QED BY <2>1, <2>3, StoppingIsWithin, OverflowIsWithin, KeptIsWithin
<1>14. ASSUME NEW step \in job.steps, ExecuteStep(step) PROVE Within(job', records', result', exit')
  <2>1. job' = job /\ phase # "over"
    BY <1>14, ExecuteStepShape DEF Still
  <2>2. PICK after, table : /\ after = Executed(step.connection, step.statement)
                            /\ table = StoredAfter(step.connection, step.statement)
    OBVIOUS
  <2>3. \/ Fails(2) \/ Fails(3) \/ Overflows(step) \/ MeetsALock(step)
        \/ Kept(step, NoError, NoResult, after, table)
    BY <1>14, <2>2, ExecuteStepShape
  <2> QED BY <2>1, <2>3, StoppingIsWithin, OverflowIsWithin, BusyIsWithin, KeptIsWithin
<1>15. ASSUME NEW step \in job.steps, QueryStep(step) PROVE Within(job', records', result', exit')
  <2>1. job' = job /\ phase # "over"
    BY <1>15, QueryStepShape DEF Still
  <2>2. PICK after, table : /\ after = Executed(step.connection, step.statement)
                            /\ table = StoredAfter(step.connection, step.statement)
    OBVIOUS
  <2>3. \/ Fails(2) \/ Fails(3) \/ Overflows(step) \/ MeetsALock(step)
        \/ \E r : result' = r /\ Collects(r) /\ Kept(step, NoError, r, after, table)
    BY <1>15, <2>2, QueryStepShape
  <2>4. CASE \E r : result' = r /\ Collects(r) /\ Kept(step, NoError, r, after, table)
    <3>1. PICK r : result' = r /\ Collects(r) /\ Kept(step, NoError, r, after, table)
      BY <2>4
    <3>2. r \in Results
      BY <3>1 DEF ExecutorTypeOK
    <3> QED BY <2>1, <3>1, <3>2, KeptIsWithin
  <2> QED BY <2>1, <2>3, <2>4, StoppingIsWithin, OverflowIsWithin, BusyIsWithin
<1>16. CASE HoldLock \/ ContendForLock \/ ReleaseLock \/ RetryLock \/ SettleLock
  <2>1. job' = job /\ WritesNothing
    BY <1>16, RunningIsNotFour
       DEF HoldLock, ContendForLock, ReleaseLock, RetryLock, SettleLock, Unchanging, ProbeIf, Probing,
           Fails, Ends, WritesNothing
  <2> QED BY <2>1, SilenceIsWithin
<1> QED BY <1>1, <1>2, <1>3, <1>4, <1>5, <1>6, <1>7, <1>8, <1>9, <1>10, <1>11, <1>12, <1>13, <1>14,
           <1>15, <1>16 DEF ExecutorNext

LEMMA WithinIsExact ==
  ASSUME Within(job, records, result, exit) PROVE CeilingsAreExact
<1>1. \A i \in 1..Len(records) : records[i].result = NoResult \/ Fits(records[i].result)
  BY FittingIsWithin DEF Within
<1>2. ASSUME exit = 4, Fits(result)
      PROVE  /\ job.worker # "query"
             /\ TranscriptBytes(Append(records, RecordOf("", "", NoError, result))) > job.ceilings.transcript
  <2>1. \A x : RecordBytes(x) = SizeIn(job, x.result)
    BY DEF RecordBytes, SizeIn
  <2>2. \A t : [i \in 1..Len(t) |-> RecordBytes(t[i])] = SizesIn(job, t)
    BY <2>1 DEF SizesIn
  <2>3. \A t : TranscriptBytes(t) = Total(SizesIn(job, t))
    BY <2>2 DEF TranscriptBytes
  <2> QED BY <1>2, <2>3, FittingIsWithin DEF Within, Unwritable
<1> QED BY <1>1, <1>2 DEF CeilingsAreExact

\* CeilingsAreExact: what a target writes fits the ceilings of its job, whatever they are and
\* whatever the results, although a result is measured row by row while it is read; and what
\* it refuses as too large, as a result or as one more record, is.
THEOREM CeilingsAreKept == ExecutorSpec => []CeilingsAreExact
<1> DEFINE Inv == Within(job, records, result, exit)
<1>1. ExecutorInit => Inv
  BY DEF ExecutorInit, Within, Running
<1>2. ExecutorTypeOK /\ ExecutorTypeOK' /\ Inv /\ [ExecutorNext]_executor => Inv'
  BY WithinStep
<1>3. Inv => CeilingsAreExact
  BY WithinIsExact
<1> HIDE DEF Inv
<1> QED BY <1>1, <1>2, <1>3, ExecutorsAreTyped, PTL DEF ExecutorSpec

----------------------------------------------------------------------------
(***************************************************************************)
(* What a list of statements adds to the table.  FlattenSeq is the last of *)
(* the partial concatenations.                                             *)
(***************************************************************************)
Flat(ss) == CHOOSE f : f = [i \in 1..Len(ss) |-> IF i = 1 THEN ss[i] ELSE f[i - 1] \o ss[i]]
Flattens(f, ss, n) ==
  /\ f \in [1..n -> Seq(Nat)]
  /\ \A i \in 1..n : f[i] = IF i = 1 THEN ss[i] ELSE f[i - 1] \o ss[i]

LEMMA FlatteningExists ==
  ASSUME NEW ss \in Seq(Seq(Nat)), NEW n \in 0..Len(ss)
  PROVE  \E f : Flattens(f, ss, n)
<1> DEFINE Bad == {k \in 0..Len(ss) : ~ \E f : Flattens(f, ss, k)}
<1>1. ASSUME Bad # {} PROVE FALSE
  <2>1. PICK k \in Bad : \A j \in Bad : k <= j
    <3>1. Bad \in SUBSET Nat
      OBVIOUS
    <3> HIDE DEF Bad
    <3> QED BY <1>1, <3>1, MinIsLeast
  <2>2. CASE k = 0
    <3> DEFINE f == [i \in 1..0 |-> <<>>]
    <3>1. Flattens(f, ss, 0)
      BY DEF Flattens
    <3> QED BY <2>1, <2>2, <3>1
  <2>3. CASE k # 0
    <3>0. k \in 0..Len(ss)
      BY <2>1
    <3>1. k \in Nat /\ k \in 1..Len(ss) /\ k - 1 \in 0..Len(ss) /\ k - 1 \notin Bad
      <4> HIDE DEF Bad
      <4> QED BY <2>1, <2>3, <3>0
    <3>2. PICK h : Flattens(h, ss, k - 1)
      BY <3>1
    <3> DEFINE f == [i \in 1..k |-> IF i = k THEN IF k = 1 THEN ss[k] ELSE h[k - 1] \o ss[k] ELSE h[i]]
    <3>3. ss[k] \in Seq(Nat) /\ (k # 1 => h[k - 1] \in Seq(Nat))
      BY <3>1, <3>2 DEF Flattens
    <3>4. ASSUME NEW i \in 1..k PROVE f[i] \in Seq(Nat) /\ f[i] = IF i = 1 THEN ss[i] ELSE f[i - 1] \o ss[i]
      <4>1. CASE i = k
        <5>1. k # 1 => f[k - 1] = h[k - 1]
          BY <3>1
        <5>2. f[k] = IF k = 1 THEN ss[k] ELSE h[k - 1] \o ss[k]
          BY <3>1
        <5> HIDE DEF f
        <5> QED BY <3>3, <4>1, <5>1, <5>2
      <4>2. CASE i # k
        <5>0. i \in 1..(k - 1) /\ (i # 1 => i - 1 \in 1..(k - 1) /\ i - 1 # k /\ i - 1 \in 1..k)
          BY <3>1, <4>2
        <5>1. i \in 1..(k - 1) /\ f[i] = h[i] /\ (i # 1 => i - 1 \in 1..(k - 1) /\ f[i - 1] = h[i - 1])
          BY <4>2, <5>0
        <5> HIDE DEF f
        <5> QED BY <3>2, <5>1 DEF Flattens
      <4> QED BY <4>1, <4>2
    <3>5. f \in [1..k -> Seq(Nat)]
      <4>1. DOMAIN f = 1..k /\ f = [i \in 1..k |-> f[i]]
        OBVIOUS
      <4> HIDE DEF f
      <4> QED BY <3>4, <4>1
    <3>6. Flattens(f, ss, k)
      <4> HIDE DEF f
      <4> QED BY <3>4, <3>5 DEF Flattens
    <3> QED BY <2>1, <3>6
  <2> QED BY <2>2, <2>3
<1> QED BY <1>1

LEMMA FlattenSeqIsLast ==
  ASSUME NEW ss \in Seq(Seq(Nat)), Len(ss) # 0
  PROVE  \E f : Flattens(f, ss, Len(ss)) /\ FlattenSeq(ss) = f[Len(ss)]
<1> DEFINE n == Len(ss)
           IsFlat(g) == g = [i \in 1..n |-> IF i = 1 THEN ss[i] ELSE g[i - 1] \o ss[i]]
<1>1. n \in Nat /\ n \in 0..Len(ss)
  OBVIOUS
<1>2. PICK f : Flattens(f, ss, n)
  BY <1>1, FlatteningExists
<1>3. IsFlat(f)
  BY <1>2 DEF Flattens
<1>4. IsFlat(Flat(ss))
  BY <1>3 DEF Flat
<1>5. FlattenSeq(ss) = Flat(ss)[n]
  BY DEF FlattenSeq, Flat
<1>6. Flat(ss) = f
  <2> DEFINE g == Flat(ss)
             Bad == {i \in 1..n : g[i] # f[i]}
  <2>1. ASSUME Bad # {} PROVE FALSE
    <3>1. PICK k \in Bad : \A j \in Bad : k <= j
      <4>1. Bad \in SUBSET Nat
        OBVIOUS
      <4> HIDE DEF Bad
      <4> QED BY <2>1, <4>1, MinIsLeast
    <3>2. k \in 1..n /\ g[k] # f[k]
      BY <3>1
    <3>3. k # 1 => k - 1 \in 1..n /\ k - 1 \notin Bad
      <4> HIDE DEF Bad
      <4> QED BY <3>1, <3>2, <1>1
    <3>4. k # 1 => g[k - 1] = f[k - 1]
      BY <3>3
    <3>5. g[k] = IF k = 1 THEN ss[k] ELSE g[k - 1] \o ss[k]
      <4> HIDE DEF g
      <4> QED BY <1>4, <3>2 DEF g
    <3>6. f[k] = IF k = 1 THEN ss[k] ELSE f[k - 1] \o ss[k]
      BY <1>2, <3>2 DEF Flattens
    <3> QED BY <3>2, <3>4, <3>5, <3>6
  <2>2. \A i \in 1..n : g[i] = f[i]
    BY <2>1
  <2>3. g = [i \in 1..n |-> g[i]] /\ f = [i \in 1..n |-> f[i]]
    BY <1>3, <1>4
  <2> HIDE DEF g
  <2> QED BY <2>2, <2>3 DEF g
<1> QED BY <1>2, <1>5, <1>6

LEMMA FlatteningsAgree ==
  ASSUME NEW n \in Nat, NEW ss, NEW tt, \A i \in 1..n : ss[i] = tt[i],
         NEW m \in Nat, n <= m, NEW f, NEW g, Flattens(f, ss, n), Flattens(g, tt, m)
  PROVE  \A i \in 1..n : f[i] = g[i]
<1> DEFINE Bad == {i \in 1..n : f[i] # g[i]}
<1>1. ASSUME Bad # {} PROVE FALSE
  <2>1. PICK k \in Bad : \A j \in Bad : k <= j
    <3>1. Bad \in SUBSET Nat
      OBVIOUS
    <3> HIDE DEF Bad
    <3> QED BY <1>1, <3>1, MinIsLeast
  <2>2. k \in 1..n /\ f[k] # g[k]
    BY <2>1
  <2>3. k # 1 => k - 1 \in 1..n /\ k - 1 \notin Bad
    <3> HIDE DEF Bad
    <3> QED BY <2>1, <2>2
  <2>4. k # 1 => f[k - 1] = g[k - 1]
    BY <2>3
  <2>5. k \in 1..m
    BY <2>2
  <2> HIDE DEF Bad
  <2>6. f[k] = IF k = 1 THEN ss[k] ELSE f[k - 1] \o ss[k]
    BY <2>2 DEF Flattens
  <2>7. g[k] = IF k = 1 THEN tt[k] ELSE g[k - 1] \o tt[k]
    BY <2>5 DEF Flattens
  <2>8. ss[k] = tt[k]
    BY <2>2
  <2> QED BY <2>2, <2>4, <2>6, <2>7, <2>8
<1> QED BY <1>1

AnyStatement == Statement \cup {NoStatement}

LEMMA AddsIsTyped == ASSUME NEW s \in AnyStatement PROVE Adds(s) \in Seq(Nat)
BY StatementsAreTyped DEF AnyStatement, NoStatement, Adds

LEMMA AddedByIsTyped ==
  ASSUME NEW statements \in Seq(AnyStatement)
  PROVE  /\ AddedBy(statements) \in Seq(Nat)
         /\ statements = <<>> => AddedBy(statements) = <<>>
<1> DEFINE ss == [i \in 1..Len(statements) |-> Adds(statements[i])]
<1>1. ss \in Seq(Seq(Nat)) /\ Len(ss) = Len(statements)
  BY AddsIsTyped
<1>2. CASE statements = <<>>
  <2>1. Len(ss) = 0 /\ ss = <<>>
    BY <1>1, <1>2
  <2>2. AddedBy(statements) = <<>>
    BY <2>1 DEF AddedBy, FlattenSeq
  <2> QED BY <2>2
<1>3. CASE statements # <<>>
  <2>1. Len(ss) # 0
    BY <1>1, <1>3
  <2> HIDE DEF ss
  <2>2. PICK f : Flattens(f, ss, Len(ss)) /\ FlattenSeq(ss) = f[Len(ss)]
    BY <1>1, <2>1, FlattenSeqIsLast
  <2>3. f[Len(ss)] \in Seq(Nat)
    <3>1. Len(ss) \in 1..Len(ss)
      BY <1>1, <2>1
    <3>2. f \in [1..Len(ss) -> Seq(Nat)]
      BY <2>2 DEF Flattens
    <3> QED BY <3>1, <3>2
  <2> QED BY <1>3, <2>2, <2>3 DEF AddedBy, ss
<1> QED BY <1>2, <1>3

LEMMA AddedByGrows ==
  ASSUME NEW statements \in Seq(AnyStatement), NEW s \in AnyStatement
  PROVE  AddedBy(Append(statements, s)) = AddedBy(statements) \o Adds(s)
<1> DEFINE n == Len(statements)
           ss == [i \in 1..n |-> Adds(statements[i])]
           more == Append(statements, s)
           tt == [i \in 1..Len(more) |-> Adds(more[i])]
<1>1. n \in Nat /\ Len(more) = n + 1 /\ more \in Seq(AnyStatement)
  OBVIOUS
<1>2. ss \in Seq(Seq(Nat)) /\ Len(ss) = n
  BY AddsIsTyped
<1>3. tt \in Seq(Seq(Nat)) /\ Len(tt) = n + 1
  <2> HIDE DEF more
  <2> QED BY <1>1, AddsIsTyped
<1>4. \A i \in 1..n : ss[i] = tt[i]
  BY <1>1
<1>5. tt[n + 1] = Adds(s)
  BY <1>1
<1>6. AddedBy(statements) = FlattenSeq(ss) /\ AddedBy(more) = FlattenSeq(tt)
  BY DEF AddedBy
<1>7. Adds(s) \in Seq(Nat)
  BY AddsIsTyped
<1> HIDE DEF ss, tt, more
<1>8. PICK g : Flattens(g, tt, n + 1) /\ FlattenSeq(tt) = g[n + 1]
  BY <1>1, <1>3, FlattenSeqIsLast
<1>9. CASE n = 0
  <2>1. AddedBy(statements) = <<>>
    <3>1. statements = <<>>
      BY <1>9
    <3> QED BY <3>1, AddedByIsTyped
  <2>2. g[n + 1] = Adds(s)
    BY <1>5, <1>8, <1>9 DEF Flattens
  <2> QED BY <1>6, <1>7, <1>8, <2>1, <2>2 DEF more
<1>10. CASE n # 0
  <2>1. PICK f : Flattens(f, ss, n) /\ FlattenSeq(ss) = f[n]
    BY <1>2, <1>10, FlattenSeqIsLast
  <2>2. f[n] = g[n]
    <3>1. PICK m : m = n + 1
      OBVIOUS
    <3>2. m \in Nat /\ n <= m /\ Flattens(g, tt, m)
      BY <1>1, <1>8, <3>1
    <3>3. \A i \in 1..n : f[i] = g[i]
      BY <1>1, <1>4, <2>1, <3>2, FlatteningsAgree
    <3> QED BY <1>1, <1>10, <3>3
  <2>3. n + 1 \in 1..(n + 1) /\ n + 1 # 1 /\ (n + 1) - 1 = n
    BY <1>1, <1>10
  <2>4. g[n + 1] = g[n] \o tt[n + 1]
    BY <1>8, <2>3 DEF Flattens
  <2> QED BY <1>5, <1>6, <1>8, <2>1, <2>2, <2>4 DEF more
<1> QED BY <1>9, <1>10
----------------------------------------------------------------------------
(***************************************************************************)
(* One transaction, or one query.                                          *)
(***************************************************************************)
OfOneConnection(j) == j.worker \in {"transaction", "query"}
SetUpBy(q) == AddedBy(q["setup"])
Before(q, i) == SetUpBy(q) \o AddedBy(SubSeq(q["transaction"], 1, i - 1))
FinalTable(j, q) == SetUpBy(q) \o (IF j.commit THEN AddedBy(q["transaction"]) ELSE <<>>)
Operations(q) ==
  Len(q["setup"]) + Len(q["transaction"]) + Len(q["finalize"]) + Len(q["observe"] \o q["query"])
AnswersInOrder(q, transcript) ==
  \A i \in 1..Len(q["transaction"]) :
    transcript[i].result.rows = RowsOf(q["transaction"][i], Before(q, i))

\* While a target runs: its fault counts the operations made and has not fired; so does its budget,
\* and is not spent; the tables are those of the statements so far; every one of them is answered.
FaultIsCounted(j, ctl, q) ==
  /\ ctl.spec = (IF j.faults THEN j.fault ELSE NoFault) /\ ~ctl.triggered
  /\ j.faults => /\ ctl.matching_occurrences = Len(q[j.fault.operation])
                 /\ Len(q[j.fault.operation]) <= j.fault.occurrence
BudgetIsCounted(j, here, left, q) ==
  j.budget > 0 =>
    /\ left >= 1
    /\ left = j.budget - Operations(q) - (IF here \in {"transaction", "observe"} THEN 1 ELSE 0)
TablesFollow(j, here, table, own, q) ==
  /\ here \in {"setup", "begin", "query"} => table = SetUpBy(q) /\ own = Idle
  /\ here = "transaction" =>
       /\ own.active /\ table = SetUpBy(q) /\ own.own = AddedBy(q["transaction"])
       /\ own.reads => own.base = table
       /\ own.own # <<>> => own.reads
  /\ here = "observe" => table = FinalTable(j, q) /\ own = Idle
RequestFollows(here, q, transcript) ==
  /\ q["observe"] = <<>> /\ q["query"] = <<>>
  /\ here \in {"setup", "begin", "query"} => q["transaction"] = <<>>
  /\ Len(transcript) = Len(q["transaction"]) /\ AnswersInOrder(q, transcript)
\* The invariant: until it ends, and then.
RunsOn ==
  /\ FaultIsCounted(job, controller, request) /\ BudgetIsCounted(job, phase, remaining, request)
  /\ TablesFollow(job, phase, stored, session["a"], request)
  /\ RequestFollows(phase, request, records)
EndsWell(j, code, q, transcript) ==
  /\ code = 0 =>
       /\ Len(transcript) = Len(q["transaction"]) + 1 /\ AnswersInOrder(q, transcript)
       /\ Last(transcript).result.rows = RowsOf(Last(q["observe"] \o q["query"]), FinalTable(j, q))
       /\ j.faults => Len(q[j.fault.operation]) <= j.fault.occurrence
       /\ j.budget > 0 => Operations(q) < j.budget
  /\ code = 5 => j.faults /\ Len(q[j.fault.operation]) = j.fault.occurrence
  /\ code = 6 => Operations(q) + 1 \in {j.budget - 1, j.budget}
OneConnectionInv ==
  OfOneConnection(job) => (exit = Running => RunsOn) /\ EndsWell(job, exit, request, records)
LEMMA FaultsAreOperations ==
  ASSUME ExecutorTypeOK, OfOneConnection(job), job.faults
  PROVE  /\ job.fault.operation \in {"setup", "transaction", "finalize", "observe", "query"}
         /\ job.fault.operation \in Stages /\ job.fault.occurrence \in Nat
BY JobAssumption DEF ExecutorTypeOK, OfOneConnection, Stages

LEMMA StagesAreCounted ==
  ASSUME ExecutorTypeOK, NEW x \in {"setup", "transaction", "finalize", "observe", "query"}
  PROVE  request[x] \in Seq(AnyStatement) /\ Len(request[x]) \in Nat
<1>1. request[x] \in Seq(AnyStatement)
  BY DEF ExecutorTypeOK, Stages, AnyStatement
<1>2. PICK r : r = request[x]
  OBVIOUS
<1> QED BY <1>1, <1>2

LEMMA RanIsCounted ==
  ASSUME ExecutorTypeOK, NEW x \in {"setup", "transaction", "finalize", "observe", "query"},
         NEW what, Ran(x, what)
  PROVE  /\ request'[x] = Append(request[x], what) /\ Len(request'[x]) = Len(request[x]) + 1
         /\ \A y \in Stages : y # x => request'[y] = request[y]
         /\ Operations(request') = Operations(request) + 1
<1>1. PICK q, r : q = request /\ r = request'
  OBVIOUS
<1>2. DOMAIN q = Stages /\ r = [q EXCEPT ![x] = Append(@, what)] /\ x \in Stages
  BY <1>1 DEF Ran, ExecutorTypeOK, Stages
<1>3. r[x] = Append(q[x], what) /\ \A y \in Stages : y # x => r[y] = q[y]
  BY <1>2
<1>4. \A y \in {"setup", "transaction", "finalize", "observe", "query"} :
        y \in Stages /\ q[y] \in Seq(AnyStatement)
  BY <1>1, StagesAreCounted DEF Stages
<1>5. \A y \in {"setup", "transaction", "finalize", "observe", "query"} :
        Len(q[y]) \in Nat /\ Len(r[y]) = Len(q[y]) + (IF y = x THEN 1 ELSE 0)
  <2> SUFFICES ASSUME NEW y \in {"setup", "transaction", "finalize", "observe", "query"}
               PROVE  Len(q[y]) \in Nat /\ Len(r[y]) = Len(q[y]) + (IF y = x THEN 1 ELSE 0)
    OBVIOUS
  <2>1. q[y] \in Seq(AnyStatement) /\ (y # x => r[y] = q[y])
    BY <1>3, <1>4
  <2>2. y = x => r[y] = Append(q[y], what)
    BY <1>3
  <2>3. PICK s, t : s = q[y] /\ t = r[y]
    OBVIOUS
  <2>4. s \in Seq(AnyStatement \cup {what})
    BY <2>1, <2>3
  <2>5. CASE y = x
    <3>1. t = Append(s, what)
      BY <2>2, <2>3, <2>5
    <3>2. Len(s) \in Nat /\ Len(t) = Len(s) + 1
      BY <2>4, <3>1
    <3> QED BY <2>3, <2>5, <3>2
  <2>6. CASE y # x
    <3>1. t = s /\ Len(s) \in Nat
      BY <2>1, <2>3, <2>4, <2>6
    <3> QED BY <2>3, <2>6, <3>1
  <2> QED BY <2>5, <2>6
<1>6. /\ Len(q["observe"] \o q["query"]) = Len(q["observe"]) + Len(q["query"])
      /\ Len(r["observe"] \o r["query"]) = Len(r["observe"]) + Len(r["query"])
  <2>1. PICK o, u, n, v : o = q["observe"] /\ u = q["query"] /\ n = r["observe"] /\ v = r["query"]
    OBVIOUS
  <2>2. o \in Seq(AnyStatement) /\ u \in Seq(AnyStatement)
    BY <1>4, <2>1
  <2>3. (n = o \/ n = Append(o, what)) /\ (v = u \/ v = Append(u, what))
    BY <1>3, <1>4, <2>1
  <2>4. /\ Len(o \o u) = Len(o) + Len(u) /\ Len(n) \in Nat /\ Len(v) \in Nat
        /\ Len(n \o v) = Len(n) + Len(v)
    <3>1. \E S : n \in Seq(S) /\ v \in Seq(S)
      <4>1. o \in Seq(AnyStatement \cup {what}) /\ u \in Seq(AnyStatement \cup {what})
        BY <2>2
      <4>2. /\ Append(o, what) \in Seq(AnyStatement \cup {what})
            /\ Append(u, what) \in Seq(AnyStatement \cup {what})
        BY <4>1
      <4>3. n \in Seq(AnyStatement \cup {what}) /\ v \in Seq(AnyStatement \cup {what})
        BY <2>3, <4>1, <4>2
      <4> QED BY <4>3
    <3> QED BY <2>2, <3>1
  <2> QED BY <2>1, <2>4
<1>7. Operations(r) = Operations(q) + 1
  <2>1. PICK a, b, c, d, e : /\ a = Len(q["setup"]) /\ b = Len(q["transaction"]) /\ c = Len(q["finalize"])
                             /\ d = Len(q["observe"]) /\ e = Len(q["query"])
    OBVIOUS
  <2>2. PICK f, g, h, k, m : /\ f = Len(r["setup"]) /\ g = Len(r["transaction"]) /\ h = Len(r["finalize"])
                             /\ k = Len(r["observe"]) /\ m = Len(r["query"])
    OBVIOUS
  <2>3. /\ a \in Nat /\ f = a + (IF x = "setup" THEN 1 ELSE 0)
        /\ b \in Nat /\ g = b + (IF x = "transaction" THEN 1 ELSE 0)
        /\ c \in Nat /\ h = c + (IF x = "finalize" THEN 1 ELSE 0)
        /\ d \in Nat /\ k = d + (IF x = "observe" THEN 1 ELSE 0)
        /\ e \in Nat /\ m = e + (IF x = "query" THEN 1 ELSE 0)
    BY <1>5, <2>1, <2>2
  <2>4. Operations(q) = a + b + c + (d + e) /\ Operations(r) = f + g + h + (k + m)
    <3>1. Operations(q) = Len(q["setup"]) + Len(q["transaction"]) + Len(q["finalize"]) + (d + e)
      BY <1>6, <2>1 DEF Operations
    <3>2. Operations(r) = Len(r["setup"]) + Len(r["transaction"]) + Len(r["finalize"]) + (k + m)
      BY <1>6, <2>2 DEF Operations
    <3> QED BY <2>1, <2>2, <3>1, <3>2
  <2> QED BY <2>3, <2>4
<1> QED BY <1>1, <1>3, <1>5, <1>7

LEMMA OperationsAreCounted ==
  ASSUME ExecutorTypeOK
  PROVE  Operations(request) \in Nat
<1>1. PICK o, u : o = request["observe"] /\ u = request["query"]
  OBVIOUS
<1>2. o \in Seq(AnyStatement) /\ u \in Seq(AnyStatement)
  BY <1>1, StagesAreCounted
<1>3. Len(o \o u) \in Nat
  BY <1>2
<1>4. /\ Len(request["setup"]) \in Nat /\ Len(request["transaction"]) \in Nat
      /\ Len(request["finalize"]) \in Nat
  BY StagesAreCounted
<1>5. PICK a, b, c, d : /\ a = Len(request["setup"]) /\ b = Len(request["transaction"])
                        /\ c = Len(request["finalize"]) /\ d = Len(request["observe"] \o request["query"])
  OBVIOUS
<1>6. a \in Nat /\ b \in Nat /\ c \in Nat /\ d \in Nat
  BY <1>1, <1>3, <1>4, <1>5
<1>7. Operations(request) = a + b + c + d
  BY <1>5 DEF Operations
<1> QED BY <1>6, <1>7

\* Of a call the fault or the budget prevents, what was made before it is what is told.
LEMMA PreventedIsTold ==
  ASSUME ExecutorTypeOK, OfOneConnection(job), FaultIsCounted(job, controller, request),
         BudgetIsCounted(job, phase, remaining, request),
         NEW operation \in {"setup", "begin", "transaction", "finalize", "observe", "query"},
         Prevented(operation)
  PROVE  EndsWell(job', exit', request', records')
<1>1. CASE Fires(controller, operation) /\ Fails(5)
  <2>1. ~controller.triggered /\ operation = controller.spec.operation
        /\ controller.matching_occurrences = controller.spec.occurrence
    BY <1>1 DEF Fires, Matches
  <2>2. job.faults
    BY <2>1 DEF FaultIsCounted, NoFault, FaultSpec
  <2>3. Len(request[job.fault.operation]) = job.fault.occurrence
    BY <2>1, <2>2 DEF FaultIsCounted
  <2>4. job' = job /\ request' = request /\ exit' = 5
    BY <1>1 DEF Prevented, Fails, Ends
  <2> QED BY <2>2, <2>3, <2>4 DEF EndsWell
<1>2. CASE OutOfSteps /\ Fails(6)
  <2>1. job.budget > 0 /\ remaining - 1 <= 0
    BY <1>2 DEF OutOfSteps
  <2>2. job.budget \in Nat /\ remaining \in Int /\ Operations(request) \in Nat
    BY OperationsAreCounted, JobAssumption DEF ExecutorTypeOK
  <2>3. Operations(request) + 1 \in {job.budget - 1, job.budget}
    BY <2>1, <2>2 DEF BudgetIsCounted
  <2>4. PICK n : n = Operations(request)
    OBVIOUS
  <2>5. job' = job /\ request' = request /\ exit' = 6
    BY <1>2 DEF Prevented, Fails, Ends
  <2>6. Operations(request') = n
    BY <2>4, <2>5
  <2> QED BY <2>3, <2>4, <2>5, <2>6 DEF EndsWell
<1> QED BY <1>1, <1>2 DEF Prevented

\* A call that is made is counted by the fault and by the budget.
LEMMA MadeIsCounted ==
  ASSUME ExecutorTypeOK, OfOneConnection(job), FaultIsCounted(job, controller, request),
         BudgetIsCounted(job, phase, remaining, request),
         NEW x \in {"setup", "transaction", "finalize", "observe", "query"}, NEW what,
         Made(x), Ran(x, what)
  PROVE  /\ FaultIsCounted(job', controller', request')
         /\ job.budget > 0 => /\ remaining' >= 1 /\ remaining' = remaining - 1
                              /\ Operations(request') = Operations(request) + 1
<1>1. PICK j, ctl, q, c, r : j = job /\ ctl = controller /\ q = request /\ c = controller' /\ r = request'
  OBVIOUS
<1>2. /\ r[x] = Append(q[x], what) /\ Len(r[x]) = Len(q[x]) + 1
      /\ \A y \in Stages : y # x => r[y] = q[y]
  BY <1>1, RanIsCounted
<1>3. job' = j /\ c = checkpoint(ctl, x) /\ ~Fires(ctl, x)
  BY <1>1 DEF Made
<1>4. FaultIsCounted(j, ctl, q) /\ ctl \in Controllers(Faultable)
  BY <1>1 DEF ExecutorTypeOK
<1>5. j.faults => /\ j.fault.operation \in Stages /\ j.fault.occurrence \in Nat /\ Len(q[j.fault.operation]) \in Nat
  BY <1>1, FaultsAreOperations, StagesAreCounted
<1>6. FaultIsCounted(j, c, r)
  <2>1. CASE ~j.faults
    <3>1. ctl.spec = NoFault /\ ~Matches(ctl, x)
      BY <1>4, <2>1 DEF FaultIsCounted, NoFault, FaultSpec, Matches
    <3> QED BY <1>3, <1>4, <2>1, <3>1 DEF FaultIsCounted, checkpoint
  <2>2. CASE j.faults /\ j.fault.operation # x
    <3>1. ctl.spec = j.fault /\ ~Matches(ctl, x)
      BY <1>4, <2>2 DEF FaultIsCounted, Matches
    <3>2. c = ctl /\ r[j.fault.operation] = q[j.fault.operation]
      BY <1>2, <1>3, <1>5, <2>2, <3>1 DEF checkpoint
    <3> QED BY <1>4, <2>2, <3>2 DEF FaultIsCounted
  <2>3. CASE j.faults /\ j.fault.operation = x
    <3>1. ctl.spec = j.fault /\ Matches(ctl, x) /\ ctl.matching_occurrences = Len(q[x])
          /\ Len(q[x]) <= j.fault.occurrence
      BY <1>4, <2>3 DEF FaultIsCounted, Matches
    <3>2. Len(q[x]) # j.fault.occurrence
      BY <1>3, <3>1 DEF Fires
    <3>3. /\ c.spec = j.fault /\ c.matching_occurrences = Len(q[x]) + 1
          /\ c.triggered = Fires(ctl, x)
      BY <1>3, <3>1 DEF checkpoint
    <3>4. ~c.triggered
      BY <1>3, <3>3
    <3>5. Len(q[x]) \in Nat /\ Len(q[x]) + 1 <= j.fault.occurrence
      BY <1>5, <2>3, <3>1, <3>2
    <3> QED BY <1>2, <2>3, <3>3, <3>4, <3>5 DEF FaultIsCounted
  <2> QED BY <2>1, <2>2, <2>3
<1>7. job.budget > 0 => remaining' >= 1 /\ remaining' = remaining - 1
  <2>1. remaining \in Int /\ job.budget \in Nat
    BY JobAssumption DEF ExecutorTypeOK
  <2> QED BY <2>1 DEF Made, Spend, OutOfSteps
<1> QED BY <1>1, <1>3, <1>6, <1>7, RanIsCounted
LEMMA StoppedIsTold ==
  ASSUME exit' \in {2, 3, 4} PROVE OneConnectionInv'
BY DEF OneConnectionInv, EndsWell, Running

LEMMA RunningIsTold ==
  ASSUME exit' = Running, FaultIsCounted(job', controller', request'),
         BudgetIsCounted(job', phase', remaining', request'),
         TablesFollow(job', phase', stored', session'["a"], request'),
         RequestFollows(phase', request', records')
  PROVE  OneConnectionInv'
<1>1. RunsOn'
  BY DEF RunsOn
<1>2. EndsWell(job', exit', request', records')
  BY DEF EndsWell, Running
<1> QED BY <1>1, <1>2 DEF OneConnectionInv

\* Nothing but the phase changes before the operations of a transaction.
LEMMA BudgetFollows ==
  ASSUME ExecutorTypeOK, BudgetIsCounted(job, phase, remaining, request), job' = job,
         job.budget > 0 => /\ remaining' >= 1 /\ remaining' = remaining - 1
                           /\ Operations(request') = Operations(request) + 1,
         phase \in {"transaction", "observe"} <=> phase' \in {"transaction", "observe"}
  PROVE  BudgetIsCounted(job', phase', remaining', request')
<1>1. PICK n, m, r : n = Operations(request) /\ m = Operations(request') /\ r = remaining'
  OBVIOUS
<1>2. n \in Nat /\ remaining \in Int /\ job.budget \in Nat
  BY <1>1, OperationsAreCounted, JobAssumption DEF ExecutorTypeOK
<1>3. CASE job.budget > 0
  <2>1. /\ remaining >= 1
        /\ remaining = job.budget - n - (IF phase \in {"transaction", "observe"} THEN 1 ELSE 0)
    BY <1>1, <1>3 DEF BudgetIsCounted
  <2>2. r >= 1 /\ r = remaining - 1 /\ m = n + 1
    BY <1>1, <1>3
  <2>3. r = job.budget - m - (IF phase' \in {"transaction", "observe"} THEN 1 ELSE 0)
    <3>1. PICK d : d = IF phase \in {"transaction", "observe"} THEN 1 ELSE 0
      OBVIOUS
    <3>2. d \in Int /\ d = IF phase' \in {"transaction", "observe"} THEN 1 ELSE 0
      BY <3>1
    <3> QED BY <1>2, <2>1, <2>2, <3>1, <3>2
  <2> QED BY <1>1, <2>2, <2>3 DEF BudgetIsCounted
<1>4. CASE ~(job.budget > 0)
  BY <1>4 DEF BudgetIsCounted
<1> QED BY <1>3, <1>4

LEMMA SetupDoneIsTold ==
  ASSUME ExecutorTypeOK, OfOneConnection(job), OneConnectionInv, SetupDone
  PROVE  OneConnectionInv'
<1>1. phase = "setup" /\ phase' \in {"begin", "query"}
  BY DEF SetupDone, OfOneConnection
<1>2. exit = Running /\ exit' = Running /\ RunsOn
  BY <1>1, RunningIsNotFour DEF SetupDone, OneConnectionInv
<1>3. UNCHANGED <<job, controller, remaining, stored, session, request, records>>
  BY DEF SetupDone
<1>4. FaultIsCounted(job', controller', request')
  BY <1>2, <1>3 DEF RunsOn
<1>5. BudgetIsCounted(job', phase', remaining', request')
  BY <1>1, <1>2, <1>3 DEF RunsOn, BudgetIsCounted
<1>6. TablesFollow(job', phase', stored', session'["a"], request')
  BY <1>1, <1>2, <1>3 DEF RunsOn, TablesFollow
<1>7. RequestFollows(phase', request', records')
  BY <1>1, <1>2, <1>3 DEF RunsOn, RequestFollows
<1> QED BY <1>2, <1>4, <1>5, <1>6, <1>7, RunningIsTold

LEMMA SetupIsTold ==
  ASSUME ExecutorTypeOK, OfOneConnection(job), OneConnectionInv, NEW s, SetupStatement(s)
  PROVE  OneConnectionInv'
<1>1. phase = "setup" /\ s \in AnyStatement
  BY SetupShape, DrawnStatements DEF AnyStatement
<1>2. exit = Running /\ RunsOn
  BY <1>1, RunningIsNotFour DEF OneConnectionInv
<1>3. PICK x : x = "setup"
  OBVIOUS
<1>4. CASE Prevented("setup")
  <2>1. Prevented(x)
    BY <1>3, <1>4
  <2>2. exit' \in {5, 6}
    BY <1>4 DEF Prevented, Fails, Ends
  <2>3. EndsWell(job', exit', request', records')
    BY <1>2, <1>3, <2>1, PreventedIsTold DEF RunsOn
  <2> QED BY <2>2, <2>3 DEF OneConnectionInv, Running
<1>5. CASE Fails(3)
  BY <1>5, StoppedIsTold DEF Fails, Ends
<1>6. CASE ~Prevented("setup") /\ ~Fails(3)
  <2>1. /\ Made(x) /\ stored' = stored \o Adds(s) /\ Ran(x, s) /\ job' = job
        /\ UNCHANGED <<phase, session, records, exit>>
    BY <1>3, <1>6, SetupShape DEF Made
  <2>2. /\ FaultIsCounted(job', controller', request')
        /\ job.budget > 0 => /\ remaining' >= 1 /\ remaining' = remaining - 1
                             /\ Operations(request') = Operations(request) + 1
    BY <1>2, <1>3, <2>1, MadeIsCounted DEF RunsOn
  <2>3. BudgetIsCounted(job', phase', remaining', request')
    BY <1>2, <2>1, <2>2, BudgetFollows DEF RunsOn
  <2>4. PICK q, r : q = request /\ r = request'
    OBVIOUS
  <2>5. /\ r["setup"] = Append(q["setup"], s) /\ r["transaction"] = q["transaction"]
        /\ r["observe"] = q["observe"] /\ r["query"] = q["query"]
    BY <1>3, <2>1, <2>4, RanIsCounted DEF Stages
  <2>6. SetUpBy(r) = SetUpBy(q) \o Adds(s)
    <3>1. q["setup"] \in Seq(AnyStatement)
      BY <2>4, StagesAreCounted
    <3> QED BY <1>1, <2>5, <3>1, AddedByGrows DEF SetUpBy
  <2>7. TablesFollow(job, "setup", stored, session["a"], q) /\ RequestFollows("setup", q, records)
    BY <1>1, <1>2, <2>4 DEF RunsOn
  <2>8. TablesFollow(job', phase', stored', session'["a"], request')
    BY <1>1, <2>1, <2>4, <2>6, <2>7 DEF TablesFollow
  <2>9. RequestFollows(phase', request', records')
    <3>1. q["transaction"] = <<>> /\ Len(records) = 0
      BY <2>7 DEF RequestFollows
    <3>2. RequestFollows("setup", r, records)
      BY <2>5, <2>7, <3>1 DEF RequestFollows, AnswersInOrder
    <3> QED BY <1>1, <2>1, <2>4, <3>2
  <2> QED BY <1>2, <2>1, <2>2, <2>3, <2>8, <2>9, RunningIsTold
<1> QED BY <1>4, <1>5, <1>6

LEMMA BeginIsTold ==
  ASSUME ExecutorTypeOK, OfOneConnection(job), OneConnectionInv, BeginTransaction
  PROVE  OneConnectionInv'
<1>1. phase = "begin"
  BY BeginShape
<1>2. exit = Running /\ RunsOn
  BY <1>1, RunningIsNotFour DEF OneConnectionInv
<1>3. PICK x : x = "begin"
  OBVIOUS
<1>4. CASE Prevented("begin")
  <2>1. Prevented(x)
    BY <1>3, <1>4
  <2>2. exit' \in {5, 6}
    BY <1>4 DEF Prevented, Fails, Ends
  <2>3. EndsWell(job', exit', request', records')
    BY <1>2, <1>3, <2>1, PreventedIsTold DEF RunsOn
  <2> QED BY <2>2, <2>3 DEF OneConnectionInv, Running
<1>5. CASE ~Prevented("begin")
  <2>1. /\ Made("begin") /\ session' = Began("a", job.begin) /\ phase' = "transaction" /\ job' = job
        /\ UNCHANGED <<stored, request, records, result, exit>>
    BY <1>5, BeginShape DEF Made
  <2>2. controller' = controller
    <3>1. controller.spec.operation # "begin"
      BY <1>2, FaultsAreOperations DEF RunsOn, FaultIsCounted, NoFault, FaultSpec
    <3> QED BY <2>1, <3>1 DEF Made, checkpoint, Matches
  <2>3. FaultIsCounted(job', controller', request')
    BY <1>2, <2>1, <2>2 DEF RunsOn
  <2>4. BudgetIsCounted(job', phase', remaining', request')
    <3>1. PICK n : n = Operations(request)
      OBVIOUS
    <3>2. n \in Nat /\ remaining \in Int /\ job.budget \in Nat
      BY <3>1, OperationsAreCounted, JobAssumption DEF ExecutorTypeOK
    <3>3. job.budget > 0 => remaining >= 1 /\ remaining = job.budget - n
      BY <1>1, <1>2, <3>1, <3>2 DEF RunsOn, BudgetIsCounted
    <3>4. job.budget > 0 => remaining' = remaining - 1 /\ remaining' >= 1
      BY <2>1, <3>2 DEF Made, OutOfSteps, Spend
    <3>5. PICK r : r = remaining'
      OBVIOUS
    <3>6. BudgetIsCounted(job, "transaction", r, request)
      BY <3>1, <3>2, <3>3, <3>4, <3>5 DEF BudgetIsCounted
    <3> QED BY <2>1, <3>5, <3>6
  <2>5. PICK own : own = session'["a"]
    OBVIOUS
  <2>6. /\ own.active /\ own.own = <<>> /\ (own.reads => own.base = stored)
    <3>1. "a" \in Live /\ session \in [Live -> Sessions]
      BY DEF Live, ExecutorTypeOK
    <3> QED BY <2>1, <2>5, <3>1 DEF Began
  <2>7. PICK q : q = request
    OBVIOUS
  <2>8. TablesFollow(job, "begin", stored, session["a"], q) /\ RequestFollows("begin", q, records)
    BY <1>1, <1>2, <2>7 DEF RunsOn
  <2>9. q["transaction"] = <<>> /\ AddedBy(q["transaction"]) = <<>>
    <3>1. q["transaction"] \in Seq(AnyStatement)
      BY <2>7, StagesAreCounted
    <3> QED BY <2>8, <3>1, AddedByIsTyped DEF RequestFollows
  <2>10. TablesFollow(job, "transaction", stored, own, q)
    BY <2>6, <2>8, <2>9 DEF TablesFollow
  <2>11. RequestFollows("transaction", q, records)
    BY <2>8, <2>9 DEF RequestFollows
  <2> QED BY <1>2, <2>1, <2>3, <2>4, <2>5, <2>7, <2>10, <2>11, RunningIsTold
<1> QED BY <1>4, <1>5
LEMMA AnswersFollow ==
  ASSUME NEW q, NEW r, NEW s \in AnyStatement, NEW transcript \in Seq(Transcribed), NEW record,
         q["transaction"] \in Seq(AnyStatement),
         r["transaction"] = Append(q["transaction"], s), r["setup"] = q["setup"],
         Len(transcript) = Len(q["transaction"]), AnswersInOrder(q, transcript),
         record.result.rows = RowsOf(s, SetUpBy(q) \o AddedBy(q["transaction"]))
  PROVE  AnswersInOrder(r, Append(transcript, record))
<1>1. PICK t, u, n : t = q["transaction"] /\ u = r["transaction"] /\ n = Len(t)
  OBVIOUS
<1>2. n \in Nat /\ t \in Seq(AnyStatement) /\ u = Append(t, s) /\ Len(u) = n + 1 /\ Len(transcript) = n
  BY <1>1
<1>3. SetUpBy(r) = SetUpBy(q)
  BY DEF SetUpBy
<1>4. \A i \in 1..(n + 1) : SubSeq(u, 1, i - 1) = SubSeq(t, 1, i - 1)
  <2> SUFFICES ASSUME NEW i \in 1..(n + 1) PROVE SubSeq(u, 1, i - 1) = SubSeq(t, 1, i - 1)
    OBVIOUS
  <2>1. \A k \in 1..(i - 1) : u[k] = t[k]
    BY <1>2
  <2> QED BY <1>2, <2>1
<1>5. SubSeq(t, 1, n) = t
  BY <1>2
<1> SUFFICES ASSUME NEW i \in 1..Len(u)
             PROVE  Append(transcript, record)[i].result.rows = RowsOf(u[i], Before(r, i))
  BY <1>1 DEF AnswersInOrder
<1>6. CASE i = n + 1
  <2>1. Before(r, i) = SetUpBy(q) \o AddedBy(t)
    <3>1. SubSeq(u, 1, i - 1) = t
      BY <1>2, <1>4, <1>5, <1>6
    <3> QED BY <1>1, <1>3, <3>1 DEF Before
  <2>2. u[i] = s /\ Append(transcript, record)[i] = record
    BY <1>2, <1>6
  <2> QED BY <1>1, <2>1, <2>2
<1>7. CASE i # n + 1
  <2>1. i \in 1..n
    BY <1>2, <1>7
  <2>2. Before(r, i) = Before(q, i)
    <3>1. SubSeq(u, 1, i - 1) = SubSeq(t, 1, i - 1)
      BY <1>2, <1>4
    <3> QED BY <1>1, <1>3, <3>1 DEF Before
  <2>3. u[i] = t[i] /\ Append(transcript, record)[i] = transcript[i]
    BY <1>2, <2>1
  <2>4. transcript[i].result.rows = RowsOf(t[i], Before(q, i))
    BY <1>1, <2>1 DEF AnswersInOrder
  <2> QED BY <2>2, <2>3, <2>4
<1> QED BY <1>6, <1>7

LEMMA UnansweredIsTold ==
  ASSUME NEW s, Unanswered(s) PROVE OneConnectionInv'
<1>1. exit' \in {3, 4}
  BY DEF Unanswered, Fails, Ends
<1> QED BY <1>1, StoppedIsTold

LEMMA TransactionIsTold ==
  ASSUME ExecutorTypeOK, OfOneConnection(job), OneConnectionInv, NEW s, TransactionStatement(s)
  PROVE  OneConnectionInv'
<1>1. phase = "transaction" /\ s \in AnyStatement /\ s \in Statement
  BY TransactionShape, DrawnStatements DEF AnyStatement
<1>2. exit = Running /\ RunsOn
  BY <1>1, RunningIsNotFour DEF OneConnectionInv
<1>3. PICK x : x = "transaction"
  OBVIOUS
<1>4. CASE Prevented("transaction")
  <2>1. Prevented(x)
    BY <1>3, <1>4
  <2>2. exit' \in {5, 6}
    BY <1>4 DEF Prevented, Fails, Ends
  <2>3. EndsWell(job', exit', request', records')
    BY <1>2, <1>3, <2>1, PreventedIsTold DEF RunsOn
  <2> QED BY <2>2, <2>3 DEF OneConnectionInv, Running
<1>5. CASE Unanswered(s)
  BY <1>5, UnansweredIsTold
<1>6. CASE ~Prevented("transaction") /\ ~Unanswered(s)
  <2>1. PICK a : /\ Made(x) /\ AnsweredWith(s, a) /\ Ran(x, s) /\ job' = job
                 /\ session' = Executed("a", s) /\ UNCHANGED <<phase, stored, exit>>
    BY <1>3, <1>6, TransactionShape DEF Made
  <2>2. /\ FaultIsCounted(job', controller', request')
        /\ job.budget > 0 => /\ remaining' >= 1 /\ remaining' = remaining - 1
                             /\ Operations(request') = Operations(request) + 1
    BY <1>2, <1>3, <2>1, MadeIsCounted DEF RunsOn
  <2>3. BudgetIsCounted(job', phase', remaining', request')
    BY <1>2, <2>1, <2>2, BudgetFollows DEF RunsOn
  <2>4. PICK q, r, own, new, log : /\ q = request /\ r = request' /\ own = session["a"]
                                   /\ new = session'["a"] /\ log = records'
    OBVIOUS
  <2>5. /\ r["transaction"] = Append(q["transaction"], s) /\ r["setup"] = q["setup"]
        /\ r["observe"] = q["observe"] /\ r["query"] = q["query"]
    BY <1>3, <2>1, <2>4, RanIsCounted DEF Stages
  <2>6. TablesFollow(job, "transaction", stored, own, q) /\ RequestFollows("transaction", q, records)
    BY <1>1, <1>2, <2>4 DEF RunsOn
  <2>7. /\ q["transaction"] \in Seq(AnyStatement) /\ records \in Seq(Transcribed)
        /\ own \in Sessions /\ stored \in Seq(Nat) /\ Adds(s) \in Seq(Nat) /\ SetUpBy(q) \in Seq(Nat)
        /\ AddedBy(q["transaction"]) \in Seq(Nat)
    <3>1. q["setup"] \in Seq(AnyStatement) /\ q["transaction"] \in Seq(AnyStatement)
      BY <2>4, StagesAreCounted
    <3> QED BY <1>1, <2>4, <3>1, FieldsAreTyped, AddsIsTyped, AddedByIsTyped
            DEF ExecutorTypeOK, Live, SetUpBy
  <2>8. SetUpBy(r) = SetUpBy(q) /\ AddedBy(r["transaction"]) = AddedBy(q["transaction"]) \o Adds(s)
    BY <1>1, <2>5, <2>7, AddedByGrows DEF SetUpBy
  <2>9. /\ new.active /\ new.reads /\ new.base = (IF own.reads THEN own.base ELSE stored)
        /\ new.own = own.own \o Adds(s)
    <3>1. "a" \in Live /\ session \in [Live -> Sessions] /\ session["a"] \in Sessions
      BY DEF Live, ExecutorTypeOK
    <3>2. session["a"].active
      BY <2>4, <2>6 DEF TablesFollow
    <3> QED BY <2>1, <2>4, <3>1, <3>2 DEF Executed, Sessions
  <2>10. TablesFollow(job, "transaction", stored, new, r)
    BY <2>6, <2>8, <2>9 DEF TablesFollow
  <2>11. Tabled("a") = SetUpBy(q) \o AddedBy(q["transaction"])
    BY <2>4, <2>6 DEF Tabled, TablesFollow
  <2>12. RequestFollows("transaction", r, log)
    <3>1. PICK record : record = RecordOf("execute", "a", NoError, a)
      OBVIOUS
    <3>2. /\ log = Append(records, record)
          /\ record.result.rows = RowsOf(s, SetUpBy(q) \o AddedBy(q["transaction"]))
      BY <2>1, <2>4, <2>11, <3>1 DEF AnsweredWith, RecordOf
    <3>3. AnswersInOrder(r, log)
      BY <1>1, <2>5, <2>6, <2>7, <3>2, AnswersFollow DEF RequestFollows
    <3>4. Len(log) = Len(r["transaction"])
      <4>1. PICK t : t = q["transaction"]
        OBVIOUS
      <4>2. Len(t) = Len(records) /\ t \in Seq(AnyStatement) /\ r["transaction"] = Append(t, s)
        BY <2>5, <2>6, <2>7, <4>1 DEF RequestFollows
      <4> QED BY <2>7, <3>2, <4>2
    <3> QED BY <2>5, <2>6, <3>3, <3>4 DEF RequestFollows
  <2>13. job' = job /\ phase' = "transaction" /\ stored' = stored /\ exit' = Running
    BY <1>1, <1>2, <2>1
  <2> QED BY <2>2, <2>3, <2>4, <2>10, <2>12, <2>13, RunningIsTold
<1> QED BY <1>4, <1>5, <1>6

LEMMA FinalizeIsTold ==
  ASSUME ExecutorTypeOK, OfOneConnection(job), OneConnectionInv, Finalize
  PROVE  OneConnectionInv'
<1>1. phase = "transaction"
  BY FinalizeShape
<1>2. exit = Running /\ RunsOn
  BY <1>1, RunningIsNotFour DEF OneConnectionInv
<1>3. PICK x, s : x = "finalize" /\ s = NoStatement
  OBVIOUS
<1>4. CASE Prevented("finalize")
  <2>1. Prevented(x)
    BY <1>3, <1>4
  <2>2. exit' \in {5, 6}
    BY <1>4 DEF Prevented, Fails, Ends
  <2>3. EndsWell(job', exit', request', records')
    BY <1>2, <1>3, <2>1, PreventedIsTold DEF RunsOn
  <2> QED BY <2>2, <2>3 DEF OneConnectionInv, Running
<1>5. CASE ~Prevented("finalize")
  <2>0. PICK table : table = IF job.reopen /\ ~OnDisk THEN <<>>
                             ELSE IF job.commit THEN CommittedBy("a") ELSE stored
    OBVIOUS
  <2>1. /\ Made(x) /\ stored' = table /\ session' = [session EXCEPT !["a"] = Idle]
        /\ phase' = "observe" /\ Ran(x, s) /\ job' = job /\ UNCHANGED <<records, result, exit>>
    BY <1>3, <1>5, <2>0, FinalizeShape DEF Made
  <2>2. /\ FaultIsCounted(job', controller', request')
        /\ job.budget > 0 => /\ remaining' >= 1 /\ remaining' = remaining - 1
                             /\ Operations(request') = Operations(request) + 1
    BY <1>2, <1>3, <2>1, MadeIsCounted DEF RunsOn
  <2>3. BudgetIsCounted(job', phase', remaining', request')
    BY <1>1, <1>2, <2>1, <2>2, BudgetFollows DEF RunsOn
  <2>4. PICK q, r, own : q = request /\ r = request' /\ own = session["a"]
    OBVIOUS
  <2>5. /\ r["transaction"] = q["transaction"] /\ r["setup"] = q["setup"]
        /\ r["observe"] = q["observe"] /\ r["query"] = q["query"]
    BY <1>3, <2>1, <2>4, RanIsCounted DEF Stages
  <2>6. TablesFollow(job, "transaction", stored, own, q) /\ RequestFollows("transaction", q, records)
    BY <1>1, <1>2, <2>4 DEF RunsOn
  <2>7. SetUpBy(q) \in Seq(Nat) /\ AddedBy(q["transaction"]) \in Seq(Nat)
    <3>1. q["setup"] \in Seq(AnyStatement) /\ q["transaction"] \in Seq(AnyStatement)
      BY <2>4, StagesAreCounted
    <3> QED BY <3>1, AddedByIsTyped DEF SetUpBy
  <2>8. table = FinalTable(job, q)
    <3>1. table = IF job.commit THEN CommittedBy("a") ELSE stored
      BY <2>0 DEF OnDisk
    <3>2. CommittedBy("a") = SetUpBy(q) \o AddedBy(q["transaction"])
      <4>1. own.own = <<>> => CommittedBy("a") = SetUpBy(q) /\ AddedBy(q["transaction"]) = <<>>
        BY <2>4, <2>6 DEF CommittedBy, TablesFollow
      <4>2. own.own # <<>> => CommittedBy("a") = SetUpBy(q) \o AddedBy(q["transaction"])
        BY <2>4, <2>6 DEF CommittedBy, TablesFollow
      <4> QED BY <2>7, <4>1, <4>2
    <3>3. stored = SetUpBy(q) /\ SetUpBy(q) \o <<>> = SetUpBy(q)
      BY <2>6, <2>7 DEF TablesFollow
    <3> QED BY <3>1, <3>2, <3>3 DEF FinalTable
  <2>9. TablesFollow(job, "observe", table, Idle, r)
    BY <2>5, <2>8 DEF TablesFollow, FinalTable, SetUpBy
  <2>10. RequestFollows("observe", r, records)
    BY <2>5, <2>6 DEF RequestFollows, AnswersInOrder, Before, SetUpBy
  <2>11. session'["a"] = Idle
    BY <2>1 DEF ExecutorTypeOK, Live
  <2>12. exit' = Running
    BY <1>2, <2>1
  <2> QED BY <2>1, <2>2, <2>3, <2>4, <2>9, <2>10, <2>11, <2>12, RunningIsTold
<1> QED BY <1>4, <1>5

\* The last statement, of a transaction target or of a query target.
LEMMA LastIsTold ==
  ASSUME ExecutorTypeOK, OfOneConnection(job), exit = Running, RunsOn, NEW s \in Statement, NEW a,
         NEW x \in {"observe", "query"}, phase = x,
         Made(x), AnsweredWith(s, a), Ran(x, s), Ends(0)
  PROVE  OneConnectionInv'
<1>1. PICK q, r, log : q = request /\ r = request' /\ log = records'
  OBVIOUS
<1>2. s \in AnyStatement /\ job' = job /\ exit' = 0
  BY DEF AnyStatement, Made, Ends
<1>3. /\ FaultIsCounted(job', controller', request')
      /\ job.budget > 0 => /\ remaining' >= 1 /\ remaining' = remaining - 1
                           /\ Operations(request') = Operations(request) + 1
  BY <1>2, MadeIsCounted DEF RunsOn
<1>4. /\ r[x] = Append(q[x], s) /\ r["transaction"] = q["transaction"] /\ r["setup"] = q["setup"]
      /\ \A y \in {"observe", "query"} : y # x => r[y] = q[y]
  BY <1>1, RanIsCounted DEF Stages
<1>5. TablesFollow(job, x, stored, session["a"], q) /\ RequestFollows(x, q, records)
  BY <1>1 DEF RunsOn
<1>6. r["observe"] \o r["query"] = <<s>>
  <2>1. q["observe"] = <<>> /\ q["query"] = <<>>
    BY <1>5 DEF RequestFollows
  <2>2. Append(<<>>, s) = <<s>> /\ <<s>> \in Seq(Statement)
    OBVIOUS
  <2>3. r[x] = <<s>>
    BY <1>4, <2>1, <2>2
  <2>4. CASE x = "observe"
    <3>1. r["observe"] = <<s>> /\ r["query"] = <<>>
      BY <1>4, <2>1, <2>3, <2>4
    <3> QED BY <2>2, <3>1
  <2>5. CASE x = "query"
    <3>1. r["query"] = <<s>> /\ r["observe"] = <<>>
      BY <1>4, <2>1, <2>3, <2>5
    <3> QED BY <2>2, <3>1
  <2> QED BY <2>4, <2>5
<1>7. SetUpBy(q) \in Seq(Nat) /\ AddedBy(q["transaction"]) \in Seq(Nat)
      /\ q["transaction"] \in Seq(AnyStatement) /\ (q["transaction"] = <<>> => AddedBy(q["transaction"]) = <<>>)
  <2>1. q["setup"] \in Seq(AnyStatement) /\ q["transaction"] \in Seq(AnyStatement)
    BY <1>1, StagesAreCounted
  <2> QED BY <2>1, AddedByIsTyped DEF SetUpBy
<1>8. stored = FinalTable(job, q) /\ stored \in Seq(Nat)
  <2>1. CASE x = "observe"
    BY <1>5, <2>1 DEF TablesFollow, ExecutorTypeOK
  <2>2. CASE x = "query"
    <3>1. stored = SetUpBy(q) /\ AddedBy(q["transaction"]) = <<>>
      BY <1>5, <1>7, <2>2 DEF TablesFollow, RequestFollows
    <3> QED BY <1>7, <3>1 DEF FinalTable
  <2> QED BY <2>1, <2>2
<1>9. Tabled("a") = stored
  <2>1. session["a"] = Idle
    BY <1>5 DEF TablesFollow
  <2>2. ~session["a"].reads /\ session["a"].own = <<>>
    BY <2>1 DEF Idle
  <2> QED BY <1>8, <2>2 DEF Tabled
<1>10. PICK record : record = RecordOf("execute", "a", NoError, a)
  OBVIOUS
<1>11. log = Append(records, record) /\ record.result.rows = RowsOf(s, FinalTable(job, q))
  BY <1>1, <1>8, <1>9, <1>10 DEF AnsweredWith, RecordOf
<1>12. records \in Seq(Transcribed) /\ Len(records) = Len(q["transaction"]) /\ AnswersInOrder(q, records)
  BY <1>5 DEF ExecutorTypeOK, RequestFollows
<1>13. Len(log) = Len(r["transaction"]) + 1 /\ Last(log) = record
  BY <1>4, <1>11, <1>12 DEF Last
<1>14. AnswersInOrder(r, log)
  <2>1. \A i \in 1..Len(q["transaction"]) : log[i] = records[i]
    BY <1>11, <1>12
  <2> QED BY <1>4, <1>12, <2>1 DEF AnswersInOrder, Before, SetUpBy
<1>15. Last(log).result.rows = RowsOf(Last(r["observe"] \o r["query"]), FinalTable(job, r))
  <2>1. FinalTable(job, r) = FinalTable(job, q) /\ Last(<<s>>) = s
    BY <1>4 DEF FinalTable, SetUpBy, Last
  <2> QED BY <1>6, <1>11, <1>13, <2>1
<1>16. job.faults => Len(r[job.fault.operation]) <= job.fault.occurrence
  BY <1>1, <1>2, <1>3 DEF FaultIsCounted
<1>17. job.budget > 0 => Operations(r) < job.budget
  <2>1. PICK n : n = Operations(q)
    OBVIOUS
  <2>2. n \in Nat /\ remaining \in Int /\ job.budget \in Nat
    BY <1>1, <2>1, OperationsAreCounted, JobAssumption DEF ExecutorTypeOK
  <2>3. job.budget > 0 => /\ remaining = job.budget - n - (IF x \in {"transaction", "observe"} THEN 1 ELSE 0)
                          /\ remaining - 1 >= 1 /\ Operations(r) = n + 1
    BY <1>1, <1>3, <2>1 DEF RunsOn, BudgetIsCounted
  <2> QED BY <2>2, <2>3
<1>18. EndsWell(job, 0, r, log)
  BY <1>13, <1>14, <1>15, <1>16, <1>17 DEF EndsWell
<1> QED BY <1>1, <1>2, <1>18 DEF OneConnectionInv, Running

LEMMA ObserveIsTold ==
  ASSUME ExecutorTypeOK, OfOneConnection(job), OneConnectionInv, NEW s, ObserveStatement(s)
  PROVE  OneConnectionInv'
<1>1. phase = "observe" /\ s \in Statement
  BY ObserveShape, DrawnStatements
<1>2. exit = Running /\ RunsOn
  BY <1>1, RunningIsNotFour DEF OneConnectionInv
<1>3. PICK x : x = "observe"
  OBVIOUS
<1>4. CASE Prevented("observe")
  <2>1. Prevented(x)
    BY <1>3, <1>4
  <2>2. exit' \in {5, 6}
    BY <1>4 DEF Prevented, Fails, Ends
  <2>3. EndsWell(job', exit', request', records')
    BY <1>2, <1>3, <2>1, PreventedIsTold DEF RunsOn
  <2> QED BY <2>2, <2>3 DEF OneConnectionInv, Running
<1>5. CASE Unanswered(s)
  BY <1>5, UnansweredIsTold
<1>6. CASE ~Prevented("observe") /\ ~Unanswered(s)
  <2>1. PICK a : Made(x) /\ AnsweredWith(s, a) /\ Ran(x, s) /\ Ends(0)
    BY <1>3, <1>6, ObserveShape
  <2> QED BY <1>1, <1>2, <1>3, <2>1, LastIsTold
<1> QED BY <1>4, <1>5, <1>6

LEMMA QueryIsTold ==
  ASSUME ExecutorTypeOK, OfOneConnection(job), OneConnectionInv, NEW s, QueryStatement(s)
  PROVE  OneConnectionInv'
<1>1. phase = "query" /\ s \in Statement
  BY QueryShape, DrawnStatements
<1>2. exit = Running /\ RunsOn
  BY <1>1, RunningIsNotFour DEF OneConnectionInv
<1>3. PICK x : x = "query"
  OBVIOUS
<1>4. CASE Prevented("query")
  <2>1. Prevented(x)
    BY <1>3, <1>4
  <2>2. exit' \in {5, 6}
    BY <1>4 DEF Prevented, Fails, Ends
  <2>3. EndsWell(job', exit', request', records')
    BY <1>2, <1>3, <2>1, PreventedIsTold DEF RunsOn
  <2> QED BY <2>2, <2>3 DEF OneConnectionInv, Running
<1>5. CASE Unanswered(s)
  BY <1>5, UnansweredIsTold
<1>6. CASE ~Prevented("query") /\ ~Unanswered(s)
  <2>1. PICK a : Made(x) /\ AnsweredWith(s, a) /\ Ran(x, s) /\ Ends(0)
    BY <1>3, <1>6, QueryShape
  <2> QED BY <1>1, <1>2, <1>3, <2>1, LastIsTold
<1> QED BY <1>4, <1>5, <1>6

LEMMA JobIsKept == ASSUME [ExecutorNext]_executor PROVE job' = job
BY DEF ExecutorNext, SetupDone, BeginTransaction, Finalize, ScenarioDone, BootstrapStatement,
       SetupStatement, TransactionStatement, ObserveStatement, QueryStatement, Attempted, Scenario,
       BeginStep, EndStep, ExecuteStep, QueryStep, HoldLock, ContendForLock, ReleaseLock, RetryLock,
       SettleLock, Unchanging, executor, RejectScenario, RejectTransaction, RejectQuery, RejectProbe, Rejects

LEMMA OneConnectionStep ==
  ASSUME ExecutorTypeOK, OneConnectionInv, [ExecutorNext]_executor
  PROVE  OneConnectionInv'
<1>1. CASE UNCHANGED executor
  BY <1>1 DEF executor, OneConnectionInv, RunsOn
<1>2. CASE RejectScenario \/ RejectTransaction \/ RejectQuery \/ RejectProbe
  BY <1>2, StoppedIsTold DEF RejectScenario, RejectTransaction, RejectQuery, RejectProbe, Rejects, Fails, Ends
<1>3. CASE ~OfOneConnection(job)
  <2>1. job' = job
    BY JobIsKept
  <2> QED BY <1>3, <2>1 DEF OneConnectionInv
<1>4. CASE OfOneConnection(job)
  <2>1. CASE SetupDone
    BY <1>4, <2>1, SetupDoneIsTold
  <2>2. CASE BeginTransaction
    BY <1>4, <2>2, BeginIsTold
  <2>3. CASE Finalize
    BY <1>4, <2>3, FinalizeIsTold
  <2>4. ASSUME NEW s \in Statement, SetupStatement(s) PROVE OneConnectionInv'
    BY <1>4, <2>4, SetupIsTold
  <2>5. ASSUME NEW s \in Statement, TransactionStatement(s) PROVE OneConnectionInv'
    BY <1>4, <2>5, TransactionIsTold
  <2>6. ASSUME NEW s \in Statement, ObserveStatement(s) PROVE OneConnectionInv'
    BY <1>4, <2>6, ObserveIsTold
  <2>7. ASSUME NEW s \in Statement, QueryStatement(s) PROVE OneConnectionInv'
    BY <1>4, <2>7, QueryIsTold
  <2>8. ~ScenarioDone /\ (\A s \in Statement : ~BootstrapStatement(s))
    BY <1>4, PhasesAreWorkers DEF ScenarioDone, BootstrapStatement, OfOneConnection
  <2>9. \A step : ~BeginStep(step) /\ ~EndStep(step) /\ ~ExecuteStep(step) /\ ~QueryStep(step)
    <3>1. \A step : ~Scenario(step)
      BY <1>4, PhasesAreWorkers DEF Scenario, OfOneConnection
    <3> QED BY <3>1 DEF BeginStep, EndStep, ExecuteStep, QueryStep
  <2>10. ~HoldLock /\ ~ContendForLock /\ ~ReleaseLock /\ ~RetryLock /\ ~SettleLock
    BY <1>4, PhasesAreWorkers
       DEF HoldLock, ContendForLock, ReleaseLock, RetryLock, SettleLock, ProbeIf, Probing, OfOneConnection
  <2> QED BY <1>1, <1>2, <2>1, <2>2, <2>3, <2>4, <2>5, <2>6, <2>7, <2>8, <2>9, <2>10 DEF ExecutorNext
<1> QED BY <1>3, <1>4

LEMMA OneConnectionStarts == ExecutorInit => OneConnectionInv
<1> SUFFICES ASSUME ExecutorInit, OfOneConnection(job) PROVE OneConnectionInv
  BY DEF OneConnectionInv
<1>1. /\ phase = "setup" /\ exit = Running /\ remaining = job.budget /\ stored = <<>> /\ session["a"] = Idle
      /\ records = <<>> /\ \A x \in Stages : request[x] = <<>>
  BY DEF ExecutorInit, OfOneConnection, Live
<1>2. /\ request["setup"] = <<>> /\ request["transaction"] = <<>> /\ request["finalize"] = <<>>
      /\ request["observe"] = <<>> /\ request["query"] = <<>>
  BY <1>1 DEF Stages
<1>3. Operations(request) = 0
  BY <1>2 DEF Operations
<1>4. SetUpBy(request) = <<>>
  <2>1. <<>> \in Seq(AnyStatement)
    OBVIOUS
  <2> QED BY <1>2, <2>1, AddedByIsTyped DEF SetUpBy
<1>5. FaultIsCounted(job, controller, request)
  <2>1. ExecutorTypeOK
    BY ExecutorStartsTyped
  <2>2. job.faults => request[job.fault.operation] = <<>> /\ job.fault.occurrence \in Nat
    BY <1>1, <2>1, FaultsAreOperations
  <2>3. PICK spec : spec = IF job.faults THEN job.fault ELSE NoFault
    OBVIOUS
  <2>4. controller.spec = spec /\ ~controller.triggered /\ controller.matching_occurrences = 0
    BY <2>3 DEF ExecutorInit, NewController
  <2> QED BY <2>2, <2>3, <2>4 DEF FaultIsCounted
<1>6. BudgetIsCounted(job, phase, remaining, request)
  <2>1. job.budget \in Nat
    BY JobAssumption DEF ExecutorInit
  <2> QED BY <1>1, <1>3, <2>1 DEF BudgetIsCounted
<1>7. TablesFollow(job, phase, stored, session["a"], request)
  BY <1>1, <1>4 DEF TablesFollow
<1>8. RequestFollows(phase, request, records)
  BY <1>1, <1>2 DEF RequestFollows, AnswersInOrder
<1> QED BY <1>1, <1>5, <1>6, <1>7, <1>8 DEF OneConnectionInv, RunsOn, EndsWell, Running

LEMMA OneConnectionIsAllOrNothing == OneConnectionInv => ObservationIsAllOrNothing
<1> SUFFICES ASSUME OneConnectionInv, OfOneConnection(job) PROVE ObservationIsAllOrNothing
  BY DEF ObservationIsAllOrNothing, OfOneConnection
<1>1. EndsWell(job, exit, request, records)
  BY DEF OneConnectionInv
<1> QED BY <1>1 DEF EndsWell, ObservationIsAllOrNothing, OfOneConnection, Operations, AnswersInOrder, Before,
                    SetUpBy, FinalTable, Drawn, TableSetUp

\* ObservationIsAllOrNothing: whatever the statements, the ceilings, the fault and the budget,
\* every statement of a transaction is answered from the statements before it; what is observed
\* after it is all of the transaction if it was committed and nothing of it otherwise, also
\* when the database was closed and opened in between; a fault stops the run at its occurrence
\* and a budget at its end, no sooner and no later.
THEOREM ObservationsAreAllOrNothing == ExecutorSpec => []ObservationIsAllOrNothing
<1>1. ExecutorInit => OneConnectionInv
  BY OneConnectionStarts
<1>2. ExecutorTypeOK /\ OneConnectionInv /\ [ExecutorNext]_executor => OneConnectionInv'
  BY OneConnectionStep
<1>3. OneConnectionInv => ObservationIsAllOrNothing
  BY OneConnectionIsAllOrNothing
<1> QED BY <1>1, <1>2, <1>3, ExecutorsAreTyped, PTL DEF ExecutorSpec
----------------------------------------------------------------------------
(***************************************************************************)
(* Two connections.                                                        *)
(***************************************************************************)
OpeningStory(table) ==
  [table |-> table, active |-> [c \in Live |-> FALSE], own |-> [c \in Live |-> <<>>],
   views |-> [c \in Live |-> {}], agrees |-> TRUE]
Stories ==
  [table : Seq(Nat), active : [Live -> BOOLEAN], own : [Live -> Seq(Nat)],
   views : [Live -> SUBSET Seq(Nat)], agrees : BOOLEAN]
IsStory(f, table, steps, transcript, n) ==
  f = [i \in 0..n |-> IF i = 0 THEN OpeningStory(table) ELSE Tell(f[i - 1], steps[i], transcript[i])]
StoryOf(table, steps, transcript) ==
  (CHOOSE f : IsStory(f, table, steps, transcript, Len(transcript)))[Len(transcript)]

\* What the transcript tells of a connection is what SQLite holds for it.  A transaction that has
\* read looks at one table it may have been looking at; one that has not will look at the
\* present one; who holds the lock has read the present one, and only he has written.
Accounts(story, c, table, own) ==
  /\ story.active[c] <=> own.active
  /\ ~own.active => own = Idle
  /\ own.active =>
       /\ story.own[c] = own.own
       /\ own.reads => own.base \in story.views[c]
       /\ ~own.reads => own.own = <<>> /\ own.lock = "none" /\ table \in story.views[c]
       /\ own.lock # "none" => own.reads /\ own.base = table
       /\ own.own # <<>> => own.lock # "none"
Explains(story, table, sessions) ==
  /\ story \in Stories /\ story.agrees /\ story.table = table
  /\ \A c \in Live : Accounts(story, c, table, sessions[c])
  /\ sessions["a"].lock = "none" \/ sessions["b"].lock = "none"
\* The invariant: until the end, and then.
ScenarioRuns(here, table, sessions, q, transcript) ==
  /\ here = "setup" => /\ table = AddedBy(q["setup"]) /\ sessions = [c \in Live |-> Idle]
                       /\ q["steps"] = <<>> /\ transcript = <<>>
  /\ here = "steps" =>
       /\ Len(transcript) = Len(q["steps"])
       /\ Explains(StoryOf(AddedBy(q["setup"]), q["steps"], transcript), table, sessions)
ScenarioEnds(table, q, transcript) ==
  /\ Len(transcript) = Len(q["steps"])
  /\ LET told == StoryOf(AddedBy(q["setup"]), q["steps"], transcript) IN
       told.agrees /\ told.table = table /\ \A c \in Live : ~told.active[c]
ScenarioInv ==
  job.worker = "two_connection" =>
    /\ exit = Running => ScenarioRuns(phase, stored, session, request, records)
    /\ exit = 0 => ScenarioEnds(stored, request, records)
ProbeInv ==
  job.worker = "lock" =>
    /\ exit \in {0, 2, Running} /\ (exit = 0 => result.rows = <<2>>)
    /\ exit = Running =>
         /\ stored = <<>>
         /\ phase # "settle" => session["b"] = Idle
         /\ phase \notin {"contend", "release"} => session["a"] = Idle
         /\ phase \in {"contend", "release"} => session["a"].lock # "none"
         /\ phase = "settle" => session["b"].base = <<>> /\ session["b"].own = <<2>>

LEMMA StoryExists ==
  ASSUME NEW table, NEW steps, NEW transcript, NEW n \in Nat
  PROVE  \E f : IsStory(f, table, steps, transcript, n)
<1> DEFINE Bad == {k \in Nat : ~ \E f : IsStory(f, table, steps, transcript, k)}
<1>1. ASSUME Bad # {} PROVE FALSE
  <2>1. PICK k \in Bad : \A j \in Bad : k <= j
    <3>1. Bad \in SUBSET Nat
      OBVIOUS
    <3> HIDE DEF Bad
    <3> QED BY <1>1, <3>1, MinIsLeast
  <2>2. CASE k = 0
    <3> DEFINE f == [i \in 0..0 |-> OpeningStory(table)]
    <3>1. IsStory(f, table, steps, transcript, 0)
      BY DEF IsStory
    <3> QED BY <2>1, <2>2, <3>1
  <2>3. CASE k # 0
    <3>0. k \in Nat
      BY <2>1
    <3>1. k - 1 \in Nat /\ k - 1 \notin Bad
      <4> HIDE DEF Bad
      <4> QED BY <2>1, <2>3, <3>0
    <3>2. PICK h : IsStory(h, table, steps, transcript, k - 1)
      BY <3>1
    <3> DEFINE f == [i \in 0..k |-> IF i = k THEN Tell(h[k - 1], steps[k], transcript[k]) ELSE h[i]]
    <3>3. ASSUME NEW i \in 0..k
          PROVE  f[i] = IF i = 0 THEN OpeningStory(table) ELSE Tell(f[i - 1], steps[i], transcript[i])
      <4>1. CASE i = k
        <5>1. f[k - 1] = h[k - 1] /\ f[k] = Tell(h[k - 1], steps[k], transcript[k])
          BY <3>0, <3>1
        <5> HIDE DEF f
        <5> QED BY <2>3, <4>1, <5>1
      <4>2. CASE i # k
        <5>1. i \in 0..(k - 1) /\ (i # 0 => i - 1 \in 0..(k - 1) /\ i - 1 # k /\ i - 1 \in 0..k)
          BY <3>0, <4>2
        <5>2. f[i] = h[i] /\ (i # 0 => f[i - 1] = h[i - 1])
          BY <4>2, <5>1
        <5>3. h[i] = IF i = 0 THEN OpeningStory(table) ELSE Tell(h[i - 1], steps[i], transcript[i])
          BY <3>2, <5>1 DEF IsStory
        <5> HIDE DEF f
        <5> QED BY <5>2, <5>3
      <4> QED BY <4>1, <4>2
    <3>4. IsStory(f, table, steps, transcript, k)
      <4>1. f = [i \in 0..k |-> f[i]]
        OBVIOUS
      <4> HIDE DEF f
      <4> QED BY <3>3, <4>1 DEF IsStory
    <3> QED BY <2>1, <3>4
  <2> QED BY <2>2, <2>3
<1>2. n \notin Bad
  BY <1>1
<1> QED BY <1>2

LEMMA StoriesAgree ==
  ASSUME NEW table, NEW steps, NEW transcript, NEW more, NEW longer, NEW n \in Nat, NEW m \in Nat, n <= m,
         \A i \in 1..n : more[i] = steps[i] /\ longer[i] = transcript[i],
         NEW f, NEW g, IsStory(f, table, steps, transcript, n), IsStory(g, table, more, longer, m)
  PROVE  \A i \in 0..n : f[i] = g[i]
<1> DEFINE Bad == {i \in 0..n : f[i] # g[i]}
<1>1. ASSUME Bad # {} PROVE FALSE
  <2>1. PICK k \in Bad : \A j \in Bad : k <= j
    <3>1. Bad \in SUBSET Nat
      OBVIOUS
    <3> HIDE DEF Bad
    <3> QED BY <1>1, <3>1, MinIsLeast
  <2>2. k \in 0..n /\ f[k] # g[k]
    BY <2>1
  <2>3. k # 0 => k - 1 \in 0..n /\ k - 1 \notin Bad /\ k \in 1..n
    <3> HIDE DEF Bad
    <3> QED BY <2>1, <2>2
  <2>4. k # 0 => f[k - 1] = g[k - 1]
    BY <2>3
  <2>5. f[k] = IF k = 0 THEN OpeningStory(table) ELSE Tell(f[k - 1], steps[k], transcript[k])
    BY <2>2 DEF IsStory
  <2>6. g[k] = IF k = 0 THEN OpeningStory(table) ELSE Tell(g[k - 1], more[k], longer[k])
    <3>1. k \in 0..m
      BY <2>2
    <3> QED BY <3>1 DEF IsStory
  <2>7. k # 0 => steps[k] = more[k] /\ transcript[k] = longer[k]
    BY <2>3
  <2> HIDE DEF Bad
  <2> QED BY <2>2, <2>4, <2>5, <2>6, <2>7
<1> QED BY <1>1

LEMMA StoryOfIsLast ==
  ASSUME NEW table, NEW steps, NEW transcript, Len(transcript) \in Nat
  PROVE  \E f : IsStory(f, table, steps, transcript, Len(transcript))
                /\ StoryOf(table, steps, transcript) = f[Len(transcript)]
<1>1. \E f : IsStory(f, table, steps, transcript, Len(transcript))
  BY StoryExists
<1> DEFINE g == CHOOSE f : IsStory(f, table, steps, transcript, Len(transcript))
<1>2. IsStory(g, table, steps, transcript, Len(transcript))
  BY <1>1
<1>3. StoryOf(table, steps, transcript) = g[Len(transcript)]
  BY DEF StoryOf
<1> HIDE DEF g
<1> QED BY <1>2, <1>3

LEMMA StoryOpens ==
  ASSUME NEW table, NEW steps PROVE StoryOf(table, steps, <<>>) = OpeningStory(table)
<1>1. Len(<<>>) = 0
  OBVIOUS
<1>2. PICK f : IsStory(f, table, steps, <<>>, 0) /\ StoryOf(table, steps, <<>>) = f[0]
  BY <1>1, StoryOfIsLast
<1>3. f[0] = OpeningStory(table)
  BY <1>2 DEF IsStory
<1> QED BY <1>2, <1>3

LEMMA StoryGoesOn ==
  ASSUME NEW table, NEW S, NEW T, NEW steps \in Seq(S), NEW transcript \in Seq(T), NEW step \in S, NEW record \in T,
         Len(steps) = Len(transcript)
  PROVE  StoryOf(table, Append(steps, step), Append(transcript, record))
           = Tell(StoryOf(table, steps, transcript), step, record)
<1>0. PICK n, more, longer : /\ n = Len(transcript) /\ more = Append(steps, step)
                             /\ longer = Append(transcript, record)
  OBVIOUS
<1>1. /\ n \in Nat /\ n + 1 \in Nat /\ n <= n + 1 /\ Len(longer) = n + 1
      /\ more[n + 1] = step /\ longer[n + 1] = record
  BY <1>0
<1>2. \A i \in 1..n : more[i] = steps[i] /\ longer[i] = transcript[i]
  BY <1>0
<1>3. PICK f : IsStory(f, table, steps, transcript, n) /\ StoryOf(table, steps, transcript) = f[n]
  <2>1. Len(transcript) \in Nat /\ n = Len(transcript)
    BY <1>0, <1>1
  <2>2. \E f : IsStory(f, table, steps, transcript, Len(transcript))
               /\ StoryOf(table, steps, transcript) = f[Len(transcript)]
    BY ONLY <2>1, StoryOfIsLast
  <2> QED BY <2>1, <2>2
<1>4. PICK m : m = n + 1
  OBVIOUS
<1>5. PICK g : IsStory(g, table, more, longer, m) /\ StoryOf(table, more, longer) = g[m]
  BY <1>1, <1>4, StoryOfIsLast
<1>6. f[n] = g[n]
  <2>1. m \in Nat /\ n <= m /\ n \in 0..n
    BY <1>1, <1>4
  <2>2. \A i \in 0..n : f[i] = g[i]
    <3>1. IsStory(f, table, steps, transcript, n)
      BY <1>3
    <3>2. IsStory(g, table, more, longer, m)
      BY <1>5
    <3>3. n \in Nat /\ m \in Nat /\ n <= m
      BY <1>1, <2>1
    <3> QED BY <1>2, <3>1, <3>2, <3>3, StoriesAgree
  <2> QED BY <2>1, <2>2
<1>7. g[m] = Tell(g[n], step, record)
  <2>1. m \in 0..m /\ m # 0 /\ m - 1 = n
    BY <1>1, <1>4
  <2>2. g[m] = Tell(g[m - 1], more[m], longer[m])
    BY <1>5, <2>1 DEF IsStory
  <2> QED BY <1>1, <1>4, <2>1, <2>2
<1> QED BY <1>0, <1>3, <1>5, <1>6, <1>7

\* What one step adds to the story, for its own connection and for the other.
Tells(new, story, c, table, active, own, views, agrees) ==
  /\ new \in Stories /\ new.table = table /\ (new.agrees <=> agrees)
  /\ (new.active[c] <=> active) /\ new.own[c] = own /\ new.views[c] = views
  /\ \A d \in Live : d # c =>
       /\ new.active[d] <=> story.active[d]
       /\ new.own[d] = story.own[d] /\ story.views[d] \subseteq new.views[d]
       /\ (table # story.table /\ story.active[d]) => table \in new.views[d]

LEMMA TellsBegin ==
  ASSUME NEW story \in Stories, NEW step, NEW record, NEW c \in Live, step.connection = c,
         record.error = NoError, step.op \in {"begin", "try_begin"}
  PROVE  Tells(Tell(story, step, record), story, c, story.table, TRUE, <<>>, {story.table}, story.agrees)
<1>1. PICK new : new = [story EXCEPT !.active[c] = TRUE, !.own[c] = <<>>, !.views[c] = {story.table}]
  OBVIOUS
<1>2. Tell(story, step, record) = new
  BY <1>1 DEF Tell
<1>3. new \in Stories
  <2>1. PICK active, own, views : /\ active = [story.active EXCEPT ![c] = TRUE]
                                  /\ own = [story.own EXCEPT ![c] = <<>>]
                                  /\ views = [story.views EXCEPT ![c] = {story.table}]
    OBVIOUS
  <2>2. new = [story EXCEPT !.active = active, !.own = own, !.views = views]
    BY <1>1, <2>1
  <2>3. active \in [Live -> BOOLEAN] /\ own \in [Live -> Seq(Nat)] /\ views \in [Live -> SUBSET Seq(Nat)]
    BY <2>1 DEF Stories
  <2> QED BY <2>2, <2>3 DEF Stories
<1>4. /\ new.table = story.table /\ new.own[c] = <<>> /\ new.views[c] = {story.table} /\ new.active[c]
      /\ new.agrees <=> story.agrees
  BY <1>1 DEF Stories
<1>5. \A d \in Live : d # c =>
       /\ new.active[d] <=> story.active[d]
       /\ new.own[d] = story.own[d] /\ story.views[d] = new.views[d]
  BY <1>1 DEF Stories
<1> QED BY <1>2, <1>3, <1>4, <1>5 DEF Tells

LEMMA TellsRollback ==
  ASSUME NEW story \in Stories, NEW step, NEW record, NEW c \in Live, step.connection = c,
         record.error = NoError, step.op = "rollback"
  PROVE  Tells(Tell(story, step, record), story, c, story.table, FALSE, story.own[c], story.views[c],
               story.agrees /\ story.active[c])
<1>1. PICK new : new = [story EXCEPT !.active[c] = FALSE, !.agrees = @ /\ story.active[c]]
  OBVIOUS
<1>2. Tell(story, step, record) = new
  BY <1>1 DEF Tell
<1>3. new \in Stories
  BY <1>1 DEF Stories
<1>4. /\ new.table = story.table /\ new.own[c] = story.own[c] /\ new.views[c] = story.views[c] /\ ~new.active[c]
      /\ new.agrees <=> story.agrees /\ story.active[c]
  BY <1>1 DEF Stories
<1>5. \A d \in Live : d # c =>
       /\ new.active[d] <=> story.active[d]
       /\ new.own[d] = story.own[d] /\ story.views[d] = new.views[d]
  BY <1>1 DEF Stories
<1> QED BY <1>2, <1>3, <1>4, <1>5 DEF Tells

Published(story, c, table) ==
  [story EXCEPT !.table = table,
     !.views = [d \in Live |-> IF d # c /\ story.active[d] THEN @[d] \cup {table} ELSE @[d]]]

LEMMA PublishedIsTold ==
  ASSUME NEW story \in Stories, NEW c \in Live, NEW table \in Seq(Nat), NEW new, new = Published(story, c, table)
  PROVE  /\ new \in Stories /\ new.table = table /\ (new.agrees <=> story.agrees)
         /\ (new.active[c] <=> story.active[c]) /\ new.own[c] = story.own[c] /\ new.views[c] = story.views[c]
         /\ new.active = story.active
         /\ \A d \in Live : d # c =>
              /\ new.active[d] <=> story.active[d]
              /\ new.own[d] = story.own[d] /\ story.views[d] \subseteq new.views[d]
              /\ story.active[d] => table \in new.views[d]
<1>1. PICK views : views = [d \in Live |-> IF d # c /\ story.active[d] THEN story.views[d] \cup {table} ELSE story.views[d]]
  OBVIOUS
<1>2. new = [story EXCEPT !.table = table, !.views = views]
  BY <1>1 DEF Published, Stories
<1>3. views \in [Live -> SUBSET Seq(Nat)]
  BY <1>1 DEF Stories
<1>4. /\ new.table = table /\ new.active = story.active /\ new.own = story.own /\ new.views = views
      /\ (new.agrees <=> story.agrees)
  BY <1>2 DEF Stories
<1>5. new \in Stories
  BY <1>2, <1>3 DEF Stories
<1> QED BY <1>1, <1>4, <1>5

LEMMA TellsCommit ==
  ASSUME NEW story \in Stories, NEW step, NEW record, NEW c \in Live, step.connection = c,
         record.error = NoError, step.op = "commit"
  PROVE  Tells(Tell(story, step, record), story, c, story.table \o story.own[c], FALSE, story.own[c], story.views[c],
               /\ story.agrees /\ story.active[c]
               /\ story.own[c] # <<>> => story.table \in story.views[c])
<1>1. PICK table : table = story.table \o story.own[c]
  OBVIOUS
<1>2. table \in Seq(Nat)
  BY <1>1 DEF Stories
<1>3. PICK mid : mid = Published(story, c, table)
  OBVIOUS
<1>4. PICK new : new = [mid EXCEPT !.active[c] = FALSE,
                          !.agrees = /\ @ /\ story.active[c]
                                     /\ story.own[c] # <<>> => story.table \in story.views[c]]
  OBVIOUS
<1>5. Tell(story, step, record) = new
  BY <1>1, <1>3, <1>4 DEF Tell, Published
<1>6. /\ mid \in Stories /\ mid.table = table /\ (mid.agrees <=> story.agrees)
      /\ (mid.active[c] <=> story.active[c]) /\ mid.own[c] = story.own[c] /\ mid.views[c] = story.views[c]
      /\ \A d \in Live : d # c =>
           /\ mid.active[d] <=> story.active[d]
           /\ mid.own[d] = story.own[d] /\ story.views[d] \subseteq mid.views[d]
           /\ story.active[d] => table \in mid.views[d]
  BY <1>2, <1>3, PublishedIsTold
<1>7. new \in Stories
  BY <1>4, <1>6 DEF Stories
<1>8. /\ new.table = mid.table /\ new.own = mid.own /\ new.views = mid.views /\ ~new.active[c]
      /\ \A d \in Live : d # c => new.active[d] = mid.active[d]
      /\ new.agrees <=> /\ mid.agrees /\ story.active[c]
                        /\ story.own[c] # <<>> => story.table \in story.views[c]
  BY <1>4, <1>6 DEF Stories
<1>9. /\ new.table = table /\ new.own[c] = story.own[c] /\ new.views[c] = story.views[c]
      /\ new.agrees <=> /\ story.agrees /\ story.active[c]
                        /\ story.own[c] # <<>> => story.table \in story.views[c]
  BY <1>6, <1>8
<1>10. \A d \in Live : d # c =>
         /\ new.active[d] <=> story.active[d]
         /\ new.own[d] = story.own[d] /\ story.views[d] \subseteq new.views[d]
         /\ (table # story.table /\ story.active[d]) => table \in new.views[d]
  BY <1>6, <1>8
<1>11. ~new.active[c]
  BY <1>8
<1> QED BY <1>1, <1>5, <1>7, <1>9, <1>10, <1>11 DEF Tells

\* The tables a transaction may have been looking at after this statement.
SeenBy(story, c, step, rows) ==
  IF step.op \in {"query", "try_query"}
  THEN {t \in story.views[c] : rows = RowsOf(step.statement, t \o story.own[c])} ELSE story.views[c]

LEMMA TellsWithin ==
  ASSUME NEW story \in Stories, NEW step, NEW record, NEW c \in Live, step.connection = c,
         record.error = NoError, step.op \in {"execute", "query", "try_execute", "try_query"}, story.active[c],
         NEW s, step.statement = s, Adds(s) \in Seq(Nat), NEW views,
         views = SeenBy(story, c, step, record.result.rows), views # {}
  PROVE  Tells(Tell(story, step, record), story, c, story.table, TRUE, story.own[c] \o Adds(s), views, story.agrees)
<1>1. PICK own : own = story.own[c] \o Adds(s)
  OBVIOUS
<1>2. own \in Seq(Nat) /\ views \in SUBSET Seq(Nat)
  BY <1>1 DEF Stories, SeenBy
<1>3. PICK new : new = [story EXCEPT !.own[c] = own, !.views[c] = views, !.agrees = @ /\ views # {}]
  OBVIOUS
<1>4. Tell(story, step, record) = new
  <2>1. Tell(story, step, record)
          = [story EXCEPT !.own[c] = @ \o Adds(s), !.views[c] = views, !.agrees = @ /\ views # {}]
    BY DEF Tell, SeenBy
  <2>2. new = [story EXCEPT !.own[c] = @ \o Adds(s), !.views[c] = views, !.agrees = @ /\ views # {}]
    BY <1>1, <1>3
  <2> QED BY <2>1, <2>2
<1>5. PICK owns, seen : owns = [story.own EXCEPT ![c] = own] /\ seen = [story.views EXCEPT ![c] = views]
  OBVIOUS
<1>6. new = [story EXCEPT !.own = owns, !.views = seen, !.agrees = @ /\ views # {}]
  BY <1>3, <1>5
<1>7. owns \in [Live -> Seq(Nat)] /\ seen \in [Live -> SUBSET Seq(Nat)]
  BY <1>2, <1>5 DEF Stories
<1>8. new \in Stories
  BY <1>6, <1>7 DEF Stories
<1>9. /\ new.table = story.table /\ new.own = owns /\ new.views = seen /\ new.active = story.active
      /\ new.agrees <=> story.agrees /\ views # {}
  BY <1>6 DEF Stories
<1>10. /\ owns[c] = own /\ seen[c] = views
       /\ \A d \in Live : d # c => owns[d] = story.own[d] /\ seen[d] = story.views[d]
  BY <1>5 DEF Stories
<1> QED BY <1>1, <1>4, <1>8, <1>9, <1>10 DEF Tells

LEMMA TellsAlone ==
  ASSUME NEW story \in Stories, NEW step, NEW record, NEW c \in Live, step.connection = c,
         record.error = NoError, step.op \in {"execute", "query", "try_execute", "try_query"}, ~story.active[c],
         NEW s, step.statement = s, Adds(s) \in Seq(Nat)
  PROVE  Tells(Tell(story, step, record), story, c, story.table \o Adds(s), FALSE, story.own[c], story.views[c],
               story.agrees /\ record.result.rows = RowsOf(s, story.table))
<1>1. PICK table : table = story.table \o Adds(s)
  OBVIOUS
<1>2. table \in Seq(Nat)
  BY <1>1 DEF Stories
<1>3. PICK mid : mid = Published(story, c, table)
  OBVIOUS
<1>4. PICK new : new = [mid EXCEPT !.agrees = @ /\ record.result.rows = RowsOf(s, story.table)]
  OBVIOUS
<1>5. Tell(story, step, record) = new
  BY <1>1, <1>3, <1>4 DEF Tell, Published
<1>6. /\ mid \in Stories /\ mid.table = table /\ (mid.agrees <=> story.agrees)
      /\ mid.active = story.active /\ mid.own[c] = story.own[c] /\ mid.views[c] = story.views[c]
      /\ \A d \in Live : d # c =>
           /\ mid.own[d] = story.own[d] /\ story.views[d] \subseteq mid.views[d]
           /\ story.active[d] => table \in mid.views[d]
  BY <1>2, <1>3, PublishedIsTold
<1>7. new \in Stories
  BY <1>4, <1>6 DEF Stories
<1>8. /\ new.table = mid.table /\ new.own = mid.own /\ new.views = mid.views /\ new.active = mid.active
      /\ new.agrees <=> mid.agrees /\ record.result.rows = RowsOf(s, story.table)
  BY <1>4, <1>6 DEF Stories
<1> QED BY <1>1, <1>5, <1>6, <1>7, <1>8 DEF Tells

LEMMA PeersAreTwo ==
  ASSUME NEW c \in Live
  PROVE  Peer(c) \in Live /\ Peer(c) # c /\ \A d \in Live : d # c => d = Peer(c)
BY DEF Live, Peer

\* A step of one connection changes what the transcript tells of the other only by what it
\* publishes.
LEMMA PeerAccounts ==
  ASSUME NEW story, NEW new, NEW c \in Live, NEW d \in Live, d # c, NEW table, NEW next,
         NEW active, NEW own, NEW views, NEW agrees, Tells(new, story, c, next, active, own, views, agrees),
         story.table = table, NEW ses, Accounts(story, d, table, ses), ses.lock # "none" => next = table
  PROVE  Accounts(new, d, next, ses)
<1>1. /\ new.active[d] <=> story.active[d]
      /\ new.own[d] = story.own[d] /\ story.views[d] \subseteq new.views[d]
      /\ (next # table /\ story.active[d]) => next \in new.views[d]
  BY DEF Tells
<1> QED BY <1>1 DEF Accounts

LEMMA ExplainedBy ==
  ASSUME NEW story, NEW table, NEW sessions, Explains(story, table, sessions), NEW c \in Live,
         NEW new, NEW next, NEW after, NEW active, NEW own, NEW views, NEW agrees,
         Tells(new, story, c, next, active, own, views, agrees), agrees,
         after[Peer(c)] = sessions[Peer(c)], sessions[Peer(c)].lock # "none" => next = table,
         Accounts(new, c, next, after[c]),
         after[c].lock = "none" \/ sessions[Peer(c)].lock = "none"
  PROVE  Explains(new, next, after)
<1>1. new \in Stories /\ new.agrees /\ new.table = next
  BY DEF Tells
<1>2. Peer(c) \in Live /\ Peer(c) # c /\ \A d \in Live : d # c => d = Peer(c)
  BY PeersAreTwo
<1>3. Accounts(new, Peer(c), next, after[Peer(c)])
  <2>1. Accounts(story, Peer(c), table, sessions[Peer(c)]) /\ story.table = table
    BY <1>2 DEF Explains
  <2>2. PICK d : d = Peer(c)
    OBVIOUS
  <2>3. PICK ses : ses = sessions[d]
    OBVIOUS
  <2>4. Accounts(new, d, next, ses)
    BY <1>2, <2>1, <2>2, <2>3, PeerAccounts
  <2> QED BY <2>2, <2>3, <2>4
<1>4. \A d \in Live : Accounts(new, d, next, after[d])
  BY <1>2, <1>3
<1>5. after["a"].lock = "none" \/ after["b"].lock = "none"
  BY DEF Live, Peer
<1> QED BY <1>1, <1>4, <1>5 DEF Explains

LEMMA BeginExplained ==
  ASSUME NEW story, NEW table, NEW sessions, Explains(story, table, sessions), NEW c \in Live,
         NEW new, Tells(new, story, c, story.table, TRUE, <<>>, {story.table}, story.agrees),
         NEW after, after[Peer(c)] = sessions[Peer(c)],
         after[c].active, after[c].own = <<>>, after[c].reads => after[c].base = table,
         after[c].lock # "none" => after[c].reads /\ sessions[Peer(c)].lock = "none"
  PROVE  Explains(new, table, after)
<1>1. story.table = table /\ story.agrees
  BY DEF Explains
<1>2. Accounts(new, c, table, after[c])
  BY <1>1 DEF Accounts, Tells
<1>3. PICK active, own, views : active = TRUE /\ own = <<>> /\ views = {story.table}
  OBVIOUS
<1>4. Tells(new, story, c, table, TRUE, own, views, TRUE)
  BY <1>1, <1>3 DEF Tells
<1> QED BY <1>2, <1>4, ExplainedBy

LEMMA RollbackExplained ==
  ASSUME NEW story, NEW table, NEW sessions, Explains(story, table, sessions), NEW c \in Live,
         NEW new, NEW own, NEW views,
         Tells(new, story, c, story.table, FALSE, own, views, story.agrees /\ story.active[c]),
         sessions[c].active,
         NEW after, after[Peer(c)] = sessions[Peer(c)], after[c] = Idle
  PROVE  Explains(new, table, after)
<1>1. story.table = table /\ story.agrees /\ story.active[c]
  BY DEF Explains, Accounts
<1>2. Accounts(new, c, table, after[c])
  BY <1>1 DEF Accounts, Tells, Idle
<1>4. Tells(new, story, c, table, FALSE, own, views, TRUE)
  BY <1>1 DEF Tells
<1>5. after[c].lock = "none"
  BY DEF Idle
<1> QED BY <1>2, <1>4, <1>5, ExplainedBy

LEMMA CommitAddsUp ==
  ASSUME NEW story, NEW table, NEW sessions \in [Live -> Sessions], Explains(story, table, sessions), NEW c \in Live,
         sessions[c].active
  PROVE  /\ story.table = table /\ story.agrees /\ story.active[c] /\ story.own[c] = sessions[c].own
         /\ story.own[c] # <<>> => story.table \in story.views[c]
         /\ \A next : next = (IF sessions[c].own = <<>> THEN table ELSE sessions[c].base \o sessions[c].own)
                      => next = story.table \o story.own[c]
         /\ sessions[Peer(c)].lock # "none" => sessions[c].own = <<>>
<1>1. /\ story.table = table /\ story.agrees /\ story.active[c] /\ story.own[c] = sessions[c].own
      /\ table \in Seq(Nat) /\ story \in Stories
  BY DEF Explains, Accounts, Stories
<1>2. sessions[c].own # <<>> =>
        /\ sessions[c].lock # "none" /\ sessions[c].base = table /\ table \in story.views[c]
  BY DEF Explains, Accounts
<1>3. (IF sessions[c].own = <<>> THEN table ELSE sessions[c].base \o sessions[c].own) = table \o sessions[c].own
  <2>1. table \o <<>> = table
    BY <1>1
  <2>2. CASE sessions[c].own = <<>>
    BY <2>1, <2>2
  <2>3. CASE sessions[c].own # <<>>
    BY <1>2, <2>3
  <2> QED BY <2>2, <2>3
<1>4. sessions[c].lock = "none" \/ sessions[Peer(c)].lock = "none"
  BY DEF Explains, Live, Peer
<1> QED BY <1>1, <1>2, <1>3, <1>4

LEMMA CommitExplained ==
  ASSUME NEW story, NEW table, NEW sessions \in [Live -> Sessions], Explains(story, table, sessions), NEW c \in Live,
         sessions[c].active, NEW next, sessions[Peer(c)].lock # "none" => next = table,
         NEW new, NEW own, NEW views, Tells(new, story, c, next, FALSE, own, views, TRUE),
         NEW after, after[Peer(c)] = sessions[Peer(c)], after[c] = Idle
  PROVE  Explains(new, next, after)
<1>1. Accounts(new, c, next, after[c])
  BY DEF Accounts, Tells, Idle
<1>2. after[c].lock = "none"
  BY DEF Idle
<1> QED BY <1>1, <1>2, ExplainedBy

LEMMA TransactionSees ==
  ASSUME NEW story, NEW table, NEW sessions \in [Live -> Sessions], Explains(story, table, sessions), NEW c \in Live,
         sessions[c].active
  PROVE  /\ story.table = table /\ story.agrees /\ story.active[c] /\ story.own[c] = sessions[c].own
         /\ (IF sessions[c].reads THEN sessions[c].base ELSE table) \in story.views[c]
BY DEF Explains, Accounts

LEMMA WithinExplained ==
  ASSUME NEW story, NEW table, NEW sessions \in [Live -> Sessions], Explains(story, table, sessions), NEW c \in Live,
         sessions[c].active, NEW seen, seen = (IF sessions[c].reads THEN sessions[c].base ELSE table),
         NEW added \in Seq(Nat), NEW own, own = sessions[c].own \o added, NEW views, seen \in views,
         NEW new, Tells(new, story, c, table, TRUE, own, views, TRUE),
         NEW after, after[Peer(c)] = sessions[Peer(c)],
         after[c].active, after[c].reads, after[c].base = seen, after[c].own = own,
         sessions[c].lock # "none" => after[c].lock # "none",
         (after[c].lock # "none" /\ sessions[c].lock = "none") => sessions[Peer(c)].lock = "none" /\ seen = table,
         added # <<>> => after[c].lock # "none"
  PROVE  Explains(new, table, after)
<1>1. sessions[c].own \in Seq(Nat)
  BY DEF Sessions
<1>2. sessions[c].lock # "none" => seen = table
  BY DEF Explains, Accounts
<1>3. after[c].own # <<>> => after[c].lock # "none"
  <2>1. sessions[c].own # <<>> => sessions[c].lock # "none"
    BY DEF Explains, Accounts
  <2>2. (sessions[c].own = <<>> /\ added = <<>>) => own = <<>>
    OBVIOUS
  <2> QED BY <2>1, <2>2
<1>4. Accounts(new, c, table, after[c])
  BY <1>2, <1>3 DEF Accounts, Tells
<1>5. after[c].lock = "none" \/ sessions[Peer(c)].lock = "none"
  BY DEF Explains, Live, Peer
<1> QED BY <1>4, <1>5, ExplainedBy

LEMMA AloneExplained ==
  ASSUME NEW story, NEW table, NEW sessions \in [Live -> Sessions], Explains(story, table, sessions), NEW c \in Live,
         ~sessions[c].active, NEW s, Adds(s) \in Seq(Nat), NEW rows, rows = RowsOf(s, table),
         NEW new, NEW own, NEW views,
         Tells(new, story, c, story.table \o Adds(s), FALSE, own, views,
               story.agrees /\ rows = RowsOf(s, story.table)),
         NEW next, next = table \o Adds(s), Adds(s) # <<>> => sessions[Peer(c)].lock = "none"
  PROVE  Explains(new, next, sessions)
<1>1. story.table = table /\ story.agrees /\ table \in Seq(Nat)
  BY DEF Explains, Stories
<1>2. Tells(new, story, c, next, FALSE, own, views, TRUE)
  BY <1>1 DEF Tells
<1>3. sessions[c] = Idle
  BY DEF Explains, Accounts
<1>4. Accounts(new, c, next, sessions[c])
  BY <1>2, <1>3 DEF Accounts, Tells, Idle
<1>5. Adds(s) = <<>> => next = table
  BY <1>1
<1>6. sessions[c].lock = "none"
  BY <1>3 DEF Idle
<1> QED BY <1>2, <1>4, <1>5, <1>6, ExplainedBy

LEMMA ScenarioGoesOn ==
  ASSUME ExecutorTypeOK, job.worker = "two_connection", phase = "steps", ScenarioInv, Still,
         NEW step \in job.steps, NEW error \in BusyErrors \cup {NoError}, NEW r \in Results, NEW after, NEW table,
         Kept(step, error, r, after, table),
         NEW story, story = StoryOf(AddedBy(request["setup"]), request["steps"], records),
         NEW record, record = RecordOf(step.op, step.connection, error, r),
         Explains(Tell(story, step, record), table, after)
  PROVE  ScenarioInv'
<1>1. PICK q, u, log, base : /\ q = request /\ u = request' /\ log = records'
                             /\ base = AddedBy(request["setup"])
  OBVIOUS
<1>2. exit = Running /\ ScenarioRuns("steps", stored, session, q, records)
  BY <1>1, RunningIsNotFour DEF ScenarioInv
<1>3. Len(records) = Len(q["steps"])
  BY <1>2 DEF ScenarioRuns
<1>4. step \in ScenarioSteps /\ record \in Transcribed
  BY PhasesAreWorkers, DrawnAssumption, DrawnStepsAreTyped DEF RecordOf, Transcribed
<1>5. q["steps"] \in Seq(ScenarioSteps) /\ records \in Seq(Transcribed)
  BY <1>1 DEF ExecutorTypeOK
<1>6. log = Append(records, record) /\ u["steps"] = Append(q["steps"], step) /\ u["setup"] = q["setup"]
  BY <1>1 DEF Kept, Ran, ExecutorTypeOK, Stages
<1>7. PICK steps, longer : steps = q["steps"] /\ longer = u["steps"]
  OBVIOUS
<1>8. Len(log) = Len(longer)
  BY <1>3, <1>5, <1>6, <1>7
<1>9. StoryOf(base, longer, log) = Tell(story, step, record)
  <2>1. story = StoryOf(base, steps, records)
    BY <1>1, <1>7
  <2>2. steps \in Seq(ScenarioSteps) /\ Len(steps) = Len(records)
    BY <1>3, <1>5, <1>7
  <2>3. StoryOf(base, Append(steps, step), Append(records, record))
          = Tell(StoryOf(base, steps, records), step, record)
    BY <1>4, <1>5, <2>2, StoryGoesOn
  <2> QED BY <1>6, <1>7, <2>1, <2>3
<1>10. ScenarioRuns("steps", table, after, u, log)
  <2>1. AddedBy(u["setup"]) = base
    BY <1>1, <1>6
  <2> QED BY <1>7, <1>8, <1>9, <2>1 DEF ScenarioRuns
<1>11. job' = job /\ phase' = "steps" /\ exit' = Running /\ stored' = table /\ session' = after
  BY <1>2 DEF Kept, Still
<1> QED BY <1>1, <1>10, <1>11 DEF ScenarioInv, Running

LEMMA ScenarioStops ==
  ASSUME exit' \in {2, 3, 4} PROVE ScenarioInv'
BY DEF ScenarioInv, Running

LEMMA ScenarioOverflows ==
  ASSUME NEW step, Overflows(step) \/ Fails(2) \/ Fails(3) PROVE ScenarioInv'
<1>1. exit' \in {2, 3, 4}
  BY DEF Overflows, Fails, Ends
<1> QED BY <1>1, ScenarioStops

\* In the phase "steps", where the story is.
LEMMA ScenarioIsExplained ==
  ASSUME ExecutorTypeOK, job.worker = "two_connection", phase = "steps", ScenarioInv
  PROVE  /\ Explains(StoryOf(AddedBy(request["setup"]), request["steps"], records), stored, session)
         /\ session \in [Live -> Sessions] /\ stored \in Seq(Nat)
BY RunningIsNotFour DEF ScenarioInv, ScenarioRuns, ExecutorTypeOK

LEMMA BusyGoesOn ==
  ASSUME ExecutorTypeOK, job.worker = "two_connection", phase = "steps", ScenarioInv, Still,
         NEW step \in job.steps, MeetsALock(step)
  PROVE  ScenarioInv'
<1>1. PICK story, after, table : /\ story = StoryOf(AddedBy(request["setup"]), request["steps"], records)
                                 /\ after = session /\ table = stored
  OBVIOUS
<1>2. PICK error \in BusyErrors : Kept(step, error, NoResult, after, table)
  BY <1>1 DEF MeetsALock
<1>3. PICK record : record = RecordOf(step.op, step.connection, error, NoResult)
  OBVIOUS
<1>4. Tell(story, step, record) = story
  <2>1. record.error # NoError
    BY <1>3 DEF RecordOf, BusyErrors, NoError
  <2> QED BY <2>1 DEF Tell
<1>5. Explains(story, table, after)
  BY <1>1, ScenarioIsExplained
<1> QED BY <1>1, <1>2, <1>3, <1>4, <1>5, ResultsAreTyped, ScenarioGoesOn

LEMMA BeginGoesOn ==
  ASSUME ExecutorTypeOK, job.worker = "two_connection", ScenarioInv, NEW step, BeginStep(step)
  PROVE  ScenarioInv'
<1>1. phase = "steps" /\ step \in job.steps /\ Still /\ step.op \in {"begin", "try_begin"}
  BY BeginStepShape
<1>2. PICK c, mode, after, table, story :
        /\ c = step.connection /\ mode = step.mode /\ after = Began(step.connection, step.mode) /\ table = stored
        /\ story = StoryOf(AddedBy(request["setup"]), request["steps"], records)
  OBVIOUS
<1>3. c \in Live /\ mode \in BeginModes
  BY <1>1, <1>2, PhasesAreWorkers, DrawnAssumption, DrawnStepsAreTyped
<1>4. CASE BeginError(c, mode) = NoError /\ Kept(step, NoError, NoResult, after, table)
  <2>1. Explains(story, table, session) /\ session \in [Live -> Sessions]
    BY <1>1, <1>2, ScenarioIsExplained
  <2>2. ~session[c].active
    BY <1>4 DEF BeginError, NoError
  <2>3. session[c].lock = "none"
    BY <1>3, <2>1, <2>2 DEF Explains, Accounts, Idle
  <2>4. mode # "deferred" => session[Peer(c)].lock = "none"
    <3>1. mode # "deferred" => WriteError(c) = NoError
      BY <1>4, <2>2 DEF BeginError, NoError
    <3> QED BY <2>3, <3>1 DEF WriteError, NoError
  <2>5. /\ after[c].active /\ after[c].own = <<>> /\ (after[c].reads => after[c].base = table)
        /\ after[c].lock # "none" => after[c].reads /\ mode # "deferred"
        /\ after[Peer(c)] = session[Peer(c)]
    <3>1. DOMAIN session = Live /\ Peer(c) \in Live /\ Peer(c) # c
      BY <1>3, <2>1, PeersAreTwo
    <3> QED BY <1>2, <1>3, <3>1 DEF Began
  <2>6. PICK record : record = RecordOf(step.op, step.connection, NoError, NoResult)
    OBVIOUS
  <2>7. record.error = NoError
    BY <2>6 DEF RecordOf
  <2>8. PICK new : new = Tell(story, step, record)
    OBVIOUS
  <2>9. Tells(new, story, c, story.table, TRUE, <<>>, {story.table}, story.agrees)
    BY <1>1, <1>2, <1>3, <2>1, <2>7, <2>8, TellsBegin DEF Explains
  <2>10. Explains(new, table, after)
    BY <1>3, <2>1, <2>4, <2>5, <2>9, BeginExplained
  <2> QED BY <1>1, <1>2, <1>4, <2>6, <2>8, <2>10, ResultsAreTyped, ScenarioGoesOn
<1>5. \/ Fails(3) \/ Overflows(step) \/ MeetsALock(step)
      \/ BeginError(c, mode) = NoError /\ Kept(step, NoError, NoResult, after, table)
  BY <1>2, BeginStepShape
<1> QED BY <1>1, <1>4, <1>5, BusyGoesOn, ScenarioOverflows

LEMMA EndGoesOn ==
  ASSUME ExecutorTypeOK, job.worker = "two_connection", ScenarioInv, NEW step, EndStep(step)
  PROVE  ScenarioInv'
<1>1. phase = "steps" /\ step \in job.steps /\ Still /\ step.op \in {"commit", "rollback"}
  BY EndStepShape
<1>2. PICK c, after, table, story :
        /\ c = step.connection /\ after = [session EXCEPT ![step.connection] = Idle]
        /\ table = (IF step.op = "commit" THEN CommittedBy(step.connection) ELSE stored)
        /\ story = StoryOf(AddedBy(request["setup"]), request["steps"], records)
  OBVIOUS
<1>3. c \in Live
  BY <1>1, <1>2, PhasesAreWorkers, DrawnAssumption, DrawnStepsAreTyped
<1>4. CASE session[c].active /\ Kept(step, NoError, NoResult, after, table)
  <2>1. PICK before, sessions : before = stored /\ sessions = session
    OBVIOUS
  <2>2. Explains(story, before, sessions) /\ sessions \in [Live -> Sessions] /\ sessions[c].active
        /\ story \in Stories
    BY <1>1, <1>2, <1>4, <2>1, ScenarioIsExplained DEF Explains
  <2>3. after[c] = Idle /\ after[Peer(c)] = sessions[Peer(c)]
    BY <1>2, <1>3, <2>1, <2>2, PeersAreTwo
  <2>4. PICK record : record = RecordOf(step.op, step.connection, NoError, NoResult)
    OBVIOUS
  <2>5. record.error = NoError
    BY <2>4 DEF RecordOf
  <2>6. PICK new, own, views : new = Tell(story, step, record) /\ own = story.own[c] /\ views = story.views[c]
    OBVIOUS
  <2>7. CASE step.op = "rollback"
    <3>1. Tells(new, story, c, story.table, FALSE, own, views, story.agrees /\ story.active[c])
      BY <1>2, <1>3, <2>2, <2>5, <2>6, <2>7, TellsRollback
    <3>2. table = before
      BY <1>2, <2>1, <2>7
    <3>3. Explains(new, before, after)
      BY <1>3, <2>2, <2>3, <3>1, RollbackExplained
    <3> QED BY <1>1, <1>2, <1>4, <2>4, <2>6, <3>2, <3>3, ResultsAreTyped, ScenarioGoesOn
  <2>8. CASE step.op = "commit"
    <3>1. Tells(new, story, c, story.table \o story.own[c], FALSE, own, views,
                /\ story.agrees /\ story.active[c]
                /\ story.own[c] # <<>> => story.table \in story.views[c])
      BY <1>2, <1>3, <2>2, <2>5, <2>6, <2>8, TellsCommit
    <3>2. table = IF sessions[c].own = <<>> THEN before ELSE sessions[c].base \o sessions[c].own
      BY <1>2, <2>1, <2>8 DEF CommittedBy
    <3>4. /\ story.table = before /\ story.agrees /\ story.active[c] /\ story.own[c] = sessions[c].own
          /\ story.own[c] # <<>> => story.table \in story.views[c]
          /\ table = story.table \o story.own[c]
          /\ sessions[Peer(c)].lock # "none" => sessions[c].own = <<>>
      <4>1. /\ story.table = before /\ story.agrees /\ story.active[c] /\ story.own[c] = sessions[c].own
            /\ story.own[c] # <<>> => story.table \in story.views[c]
            /\ sessions[Peer(c)].lock # "none" => sessions[c].own = <<>>
        BY ONLY <1>3, <2>2, CommitAddsUp
      <4>2. \A next : next = (IF sessions[c].own = <<>> THEN before ELSE sessions[c].base \o sessions[c].own)
                       => next = story.table \o story.own[c]
        BY ONLY <1>3, <2>2, CommitAddsUp
      <4> QED BY <3>2, <4>1, <4>2
    <3>5. Tells(new, story, c, table, FALSE, own, views, TRUE)
      BY <3>1, <3>4 DEF Tells
    <3>6. sessions[Peer(c)].lock # "none" => table = before
      BY <3>2, <3>4
    <3>3. Explains(new, table, after)
      BY <1>3, <2>2, <2>3, <3>5, <3>6, CommitExplained
    <3> QED BY <1>1, <1>2, <1>4, <2>4, <2>6, <3>3, ResultsAreTyped, ScenarioGoesOn
  <2> QED BY <1>1, <2>7, <2>8
<1>5. \/ Fails(3) \/ Overflows(step)
      \/ session[c].active /\ Kept(step, NoError, NoResult, after, table)
  BY <1>2, EndStepShape
<1> QED BY <1>4, <1>5, ScenarioOverflows

\* A statement that SQLite lets through.
LEMMA AllowedStatements ==
  ASSUME ExecutorTypeOK, NEW c \in Live, NEW s \in Statement, NoError \in ExecuteErrors(c, s)
  PROVE  /\ ~Refused(s) /\ (Adds(s) # <<>> => s.sql = "insert")
         /\ s.sql = "insert" =>
              \/ session[c].lock # "none"
              \/ /\ session[Peer(c)].lock = "none"
                 /\ ~(session[c].reads /\ session[c].base # stored)
<1>1. s.sql \in {"insert", "select", "broken", "control"}
  BY StatementsAreTyped
<1>2. s.sql \in {"broken", "control"} => NoError \notin ExecuteErrors(c, s)
  BY DEF ExecuteErrors, NoError
<1>3. s.sql = "insert" => WriteError(c) = NoError
  <2> SUFFICES ASSUME s.sql = "insert" PROVE WriteError(c) = NoError
    OBVIOUS
  <2>1. ExecuteErrors(c, s) = {IF WriteError(c) = NoError /\ ~session[c].active /\ s.columns = 0
                               THEN CommitError(c) ELSE WriteError(c)}
    BY DEF ExecuteErrors
  <2> QED BY <2>1
<1>4. WriteError(c) = NoError =>
        \/ session[c].lock # "none"
        \/ session[Peer(c)].lock = "none" /\ ~(session[c].reads /\ session[c].base # stored)
  BY DEF WriteError, NoError
<1> QED BY <1>1, <1>2, <1>3, <1>4 DEF Refused, Adds

\* It answered with rows, if it is asked for any.
LEMMA StatementGoesOn ==
  ASSUME ExecutorTypeOK, job.worker = "two_connection", phase = "steps", ScenarioInv, Still,
         NEW step \in job.steps, step.op \in {"execute", "query", "try_execute", "try_query"},
         NEW c, c = step.connection, NEW s, s = step.statement,
         NoError \in ExecuteErrors(c, s), NEW r \in Results,
         Kept(step, NoError, r, Executed(c, s), StoredAfter(c, s)),
         step.op \in {"query", "try_query"} => r.rows = RowsOf(s, Tabled(c)),
         step.op \notin {"query", "try_query"} => r.rows = <<>> /\ s.columns = 0
  PROVE  ScenarioInv'
<1>1. PICK after, table, story, before, sessions, rows :
        /\ after = Executed(c, s) /\ table = StoredAfter(c, s)
        /\ story = StoryOf(AddedBy(request["setup"]), request["steps"], records)
        /\ before = stored /\ sessions = session /\ rows = r.rows
  OBVIOUS
<1>2. c \in Live /\ s \in Statement
  BY PhasesAreWorkers, DrawnAssumption, DrawnStepsAreTyped
<1>3. Explains(story, before, sessions) /\ sessions \in [Live -> Sessions] /\ story \in Stories
      /\ before \in Seq(Nat)
  BY <1>1, ScenarioIsExplained DEF Explains
<1>4. PICK record : record = RecordOf(step.op, step.connection, NoError, r)
  OBVIOUS
<1>5. record.error = NoError /\ record.result.rows = rows
  BY <1>1, <1>4 DEF RecordOf
<1>6. Adds(s) \in Seq(Nat) /\ s.columns \in Nat
  BY <1>2, StatementsAreTyped
<1>7. /\ Adds(s) # <<>> => s.sql = "insert"
      /\ s.sql = "insert" => \/ sessions[c].lock # "none"
                            \/ /\ sessions[Peer(c)].lock = "none"
                               /\ ~(sessions[c].reads /\ sessions[c].base # before)
  BY <1>1, <1>2, AllowedStatements
<1>8. PICK new : new = Tell(story, step, record)
  OBVIOUS
<1>9. Kept(step, NoError, r, after, table)
  BY <1>1
<1>10. (story.active[c] <=> sessions[c].active) /\ story.own[c] = story.own[c]
  BY <1>2, <1>3 DEF Explains, Accounts
<1>11. CASE sessions[c].active
  <2>1. PICK queries : queries <=> step.op \in {"query", "try_query"}
    OBVIOUS
  <2>2. PICK seen : seen = (IF sessions[c].reads THEN sessions[c].base ELSE before)
    OBVIOUS
  <2>3. queries => rows = RowsOf(s, seen \o sessions[c].own)
    BY <1>1, <2>1, <2>2 DEF Tabled
  <2>4. PICK views : views = SeenBy(story, c, step, rows)
    OBVIOUS
  <2>10. /\ story.table = before /\ story.agrees /\ story.own[c] = sessions[c].own
         /\ seen \in story.views[c]
    BY <1>2, <1>3, <1>11, <2>2, TransactionSees
  <2>11. seen \in views
    BY <2>1, <2>3, <2>4, <2>10 DEF SeenBy
  <2>5. Tells(new, story, c, story.table, TRUE, story.own[c] \o Adds(s), views, story.agrees)
    <3>1. views = SeenBy(story, c, step, record.result.rows) /\ views # {}
      BY <1>5, <2>4, <2>11
    <3>2. story.active[c]
      BY <1>10, <1>11
    <3>3. step.connection = c /\ step.statement = s
          /\ step.op \in {"execute", "query", "try_execute", "try_query"}
      OBVIOUS
    <3>4. story \in Stories /\ c \in Live /\ record.error = NoError /\ Adds(s) \in Seq(Nat)
      BY <1>2, <1>3, <1>5, <1>6
    <3> QED BY ONLY <1>8, <3>1, <3>2, <3>3, <3>4, TellsWithin
  <2>6. table = before
    BY <1>1, <1>11 DEF StoredAfter
  <2>7. /\ after[c].active /\ after[c].reads /\ after[c].base = seen
        /\ after[c].own = sessions[c].own \o Adds(s)
        /\ after[c].lock = (IF sessions[c].lock = "none" /\ s.sql = "insert" THEN "reserved" ELSE sessions[c].lock)
        /\ after[Peer(c)] = sessions[Peer(c)]
    <3>1. DOMAIN session = Live /\ session[c] \in Sessions /\ Peer(c) \in Live /\ Peer(c) # c
      BY <1>1, <1>2, <1>3, PeersAreTwo
    <3> QED BY <1>1, <1>2, <1>11, <2>2, <3>1 DEF Executed, Sessions
  <2>8. /\ sessions[c].lock # "none" => after[c].lock # "none"
        /\ (after[c].lock # "none" /\ sessions[c].lock = "none") =>
             sessions[Peer(c)].lock = "none" /\ seen = before
        /\ Adds(s) # <<>> => after[c].lock # "none"
    BY <1>7, <2>2, <2>7
  <2>9. Explains(new, before, after)
    <3>3. PICK own, added : added = Adds(s) /\ own = sessions[c].own \o added
      OBVIOUS
    <3>4. Tells(new, story, c, before, TRUE, own, views, TRUE)
      BY <2>5, <2>10, <3>3 DEF Tells
    <3>5. added \in Seq(Nat) /\ after[c].own = own /\ (added # <<>> => after[c].lock # "none")
      BY <1>6, <2>7, <2>8, <3>3
    <3> QED BY ONLY <1>2, <1>3, <1>11, <2>2, <2>7, <2>8, <2>11, <3>3, <3>4, <3>5, WithinExplained
  <2> QED BY <1>1, <1>4, <1>8, <1>9, <2>6, <2>9, ScenarioGoesOn
<1>12. CASE ~sessions[c].active
  <2>1. after = sessions /\ table = before \o Adds(s)
    BY <1>1, <1>12 DEF Executed, StoredAfter
  <2>2. sessions[c] = Idle
    BY <1>2, <1>3, <1>12 DEF Explains, Accounts
  <2>3. rows = RowsOf(s, before)
    <3>1. CASE step.op \in {"query", "try_query"}
      <4>1. Tabled(c) = before
        BY <1>1, <1>3, <2>2 DEF Tabled, Idle
      <4> QED BY <1>1, <3>1, <4>1
    <3>2. CASE step.op \notin {"query", "try_query"}
      <4>1. rows = <<>> /\ s.columns = 0
        BY <1>1, <3>2
      <4> QED BY <4>1 DEF RowsOf
    <3> QED BY <3>1, <3>2
  <2>4. PICK own, views : own = story.own[c] /\ views = story.views[c]
    OBVIOUS
  <2>5. Tells(new, story, c, story.table \o Adds(s), FALSE, own, views, story.agrees /\ rows = RowsOf(s, story.table))
    <3>1. ~story.active[c]
      BY <1>10, <1>12
    <3>2. Tells(new, story, c, story.table \o Adds(s), FALSE, own, views,
                story.agrees /\ record.result.rows = RowsOf(s, story.table))
      BY <1>2, <1>3, <1>5, <1>6, <1>8, <2>4, <3>1, TellsAlone
    <3> QED BY <1>5, <3>2
  <2>6. Adds(s) # <<>> => sessions[Peer(c)].lock = "none"
    BY <1>7, <2>2 DEF Idle
  <2>7. Explains(new, table, after)
    BY <1>2, <1>3, <1>6, <1>12, <2>1, <2>3, <2>5, <2>6, AloneExplained
  <2> QED BY <1>1, <1>4, <1>8, <1>9, <2>7, ScenarioGoesOn
<1> QED BY <1>11, <1>12

LEMMA ExecuteGoesOn ==
  ASSUME ExecutorTypeOK, job.worker = "two_connection", ScenarioInv, NEW step, ExecuteStep(step)
  PROVE  ScenarioInv'
<1>1. phase = "steps" /\ step \in job.steps /\ Still /\ step.op \in {"execute", "try_execute"}
  BY ExecuteStepShape
<1>2. PICK c, s, r : c = step.connection /\ s = step.statement /\ r = NoResult
  OBVIOUS
<1>3. CASE /\ NoError \in ExecuteErrors(c, s) /\ ~(s.columns > 0)
           /\ Kept(step, NoError, r, Executed(c, s), StoredAfter(c, s))
  <2>1. step.statement \in Statement
    BY <1>1, PhasesAreWorkers, DrawnAssumption, DrawnStepsAreTyped
  <2>2. s.columns \in Nat
    BY <1>2, <2>1, StatementsAreTyped
  <2>3. r \in Results /\ r.rows = <<>> /\ s.columns = 0
    BY <1>2, <1>3, <2>2, ResultsAreTyped DEF NoResult
  <2>4. step.op \in {"execute", "query", "try_execute", "try_query"} /\ step.op \notin {"query", "try_query"}
    BY <1>1
  <2> QED BY <1>1, <1>2, <1>3, <2>3, <2>4, StatementGoesOn
<1>4. \/ Fails(2) \/ Fails(3) \/ Overflows(step) \/ MeetsALock(step)
      \/ /\ NoError \in ExecuteErrors(c, s) /\ ~(s.columns > 0)
         /\ Kept(step, NoError, r, Executed(c, s), StoredAfter(c, s))
  BY <1>2, ExecuteStepShape
<1> QED BY <1>1, <1>3, <1>4, BusyGoesOn, ScenarioOverflows

LEMMA QueryGoesOn ==
  ASSUME ExecutorTypeOK, job.worker = "two_connection", ScenarioInv, NEW step, QueryStep(step)
  PROVE  ScenarioInv'
<1>1. phase = "steps" /\ step \in job.steps /\ Still /\ step.op \in {"query", "try_query"}
  BY QueryStepShape
<1>2. PICK c, s : c = step.connection /\ s = step.statement
  OBVIOUS
<1>3. ASSUME NEW r, r = [columns |-> s.columns, rows |-> RowsOf(s, Tabled(c))],
             NoError \in ExecuteErrors(c, s), Kept(step, NoError, r, Executed(c, s), StoredAfter(c, s))
      PROVE  ScenarioInv'
  <2>1. step.statement \in Statement /\ step.connection \in Live
    BY <1>1, PhasesAreWorkers, DrawnAssumption, DrawnStepsAreTyped
  <2>2. c \in Live /\ s \in Statement
    BY <1>2, <2>1
  <2>3. ~Refused(s) /\ Tabled(c) \in Seq(Nat)
    BY <1>3, <2>2, AllowedStatements, FieldsAreTyped
  <2>4. r \in Results /\ r.rows = RowsOf(s, Tabled(c))
    BY <1>3, <2>2, <2>3, RowsAreTyped
  <2>5. step.op \in {"execute", "query", "try_execute", "try_query"} /\ step.op \in {"query", "try_query"}
    BY <1>1
  <2> QED BY <1>1, <1>2, <1>3, <2>4, <2>5, StatementGoesOn
<1>4. \/ Fails(2) \/ Fails(3) \/ Overflows(step) \/ MeetsALock(step)
      \/ \E r : /\ r = [columns |-> s.columns, rows |-> RowsOf(s, Tabled(c))]
                /\ NoError \in ExecuteErrors(c, s)
                /\ Kept(step, NoError, r, Executed(c, s), StoredAfter(c, s))
  BY <1>2, QueryStepShape
<1> QED BY <1>1, <1>3, <1>4, BusyGoesOn, ScenarioOverflows

LEMMA BootstrapGoesOn ==
  ASSUME ExecutorTypeOK, job.worker = "two_connection", ScenarioInv, NEW s \in Statement, BootstrapStatement(s)
  PROVE  ScenarioInv'
<1>1. CASE Refused(s)
  <2>1. exit' \in {2, 3, 4}
    BY <1>1 DEF BootstrapStatement, Sets, Fails, Ends
  <2> QED BY <2>1, ScenarioStops
<1>2. CASE ~Refused(s)
  <2>1. PICK x, q, u : x = "setup" /\ q = request /\ u = request'
    OBVIOUS
  <2>2. /\ phase = "setup" /\ stored' = stored \o Adds(s) /\ Ran(x, s) /\ job' = job
        /\ UNCHANGED <<phase, session, records, exit>>
    BY <1>2, <2>1 DEF BootstrapStatement, Sets
  <2>3. exit = Running /\ ScenarioRuns("setup", stored, session, q, records)
    BY <2>1, <2>2, RunningIsNotFour DEF ScenarioInv
  <2>4. u["setup"] = Append(q["setup"], s) /\ u["steps"] = q["steps"]
    BY <2>1, <2>2, RanIsCounted DEF Stages
  <2>5. AddedBy(u["setup"]) = AddedBy(q["setup"]) \o Adds(s)
    <3>1. q["setup"] \in Seq(AnyStatement) /\ s \in AnyStatement
      BY <2>1, StagesAreCounted DEF AnyStatement
    <3> QED BY <2>4, <3>1, AddedByGrows
  <2>6. PICK table : table = stored'
    OBVIOUS
  <2>7. ScenarioRuns("setup", table, session, u, records)
    BY <2>2, <2>3, <2>4, <2>5, <2>6 DEF ScenarioRuns
  <2> QED BY <2>1, <2>2, <2>3, <2>6, <2>7 DEF ScenarioInv, Running
<1> QED BY <1>1, <1>2

LEMMA SetupDoneGoesOn ==
  ASSUME ExecutorTypeOK, job.worker = "two_connection", ScenarioInv, SetupDone
  PROVE  ScenarioInv'
<1>1. /\ phase = "setup" /\ phase' = "steps"
      /\ UNCHANGED <<job, stored, session, request, records, exit>>
  BY DEF SetupDone
<1>2. PICK q, steps, story : q = request /\ steps = request["steps"] /\ story = OpeningStory(stored)
  OBVIOUS
<1>3. exit = Running /\ ScenarioRuns("setup", stored, session, q, records)
  BY <1>1, <1>2, RunningIsNotFour DEF ScenarioInv
<1>4. stored = AddedBy(q["setup"]) /\ session = [c \in Live |-> Idle] /\ steps = <<>> /\ records = <<>>
      /\ stored \in Seq(Nat)
  BY <1>2, <1>3 DEF ScenarioRuns, ExecutorTypeOK
<1>5. StoryOf(stored, steps, records) = story
  BY <1>2, <1>4, StoryOpens
<1>6. story \in Stories /\ story.agrees /\ story.table = stored /\ \A c \in Live : ~story.active[c]
  BY <1>2, <1>4 DEF OpeningStory, Stories
<1>7. Explains(story, stored, session)
  <2>1. \A c \in Live : session[c] = Idle
    BY <1>4
  <2>2. \A c \in Live : Accounts(story, c, stored, session[c])
    BY <1>6, <2>1 DEF Accounts, Idle
  <2> QED BY <1>6, <2>1, <2>2 DEF Explains, Live, Idle
<1>8. ScenarioRuns("steps", stored, session, q, records)
  BY <1>2, <1>4, <1>5, <1>7 DEF ScenarioRuns
<1> QED BY <1>1, <1>2, <1>3, <1>8 DEF ScenarioInv, Running

LEMMA ScenarioDoneEnds ==
  ASSUME ExecutorTypeOK, job.worker = "two_connection", ScenarioInv, ScenarioDone
  PROVE  ScenarioInv'
<1>1. phase = "steps"
  BY DEF ScenarioDone
<1>2. CASE \E c \in Live : session[c].active
  <2>1. exit' \in {2, 3, 4}
    BY <1>2 DEF ScenarioDone, Fails, Ends
  <2> QED BY <2>1, ScenarioStops
<1>3. CASE \A c \in Live : ~session[c].active
  <2>1. UNCHANGED <<job, request, records, stored>> /\ exit' = 0
    BY <1>3 DEF ScenarioDone, Ends
  <2>2. PICK q, story : q = request /\ story = StoryOf(AddedBy(request["setup"]), request["steps"], records)
    OBVIOUS
  <2>3. Explains(story, stored, session) /\ Len(records) = Len(q["steps"])
    BY <1>1, <2>2, RunningIsNotFour DEF ScenarioInv, ScenarioRuns
  <2>4. story.agrees /\ story.table = stored /\ \A c \in Live : ~story.active[c]
    BY <1>3, <2>3 DEF Explains, Accounts
  <2>5. ScenarioEnds(stored, q, records)
    BY <2>2, <2>3, <2>4 DEF ScenarioEnds
  <2> QED BY <2>1, <2>2, <2>5 DEF ScenarioInv, Running
<1> QED BY <1>2, <1>3

LEMMA ScenarioStep ==
  ASSUME ExecutorTypeOK, ScenarioInv, [ExecutorNext]_executor
  PROVE  ScenarioInv'
<1>1. CASE UNCHANGED executor
  BY <1>1 DEF executor, ScenarioInv
<1>2. CASE RejectScenario \/ RejectTransaction \/ RejectQuery \/ RejectProbe
  BY <1>2, ScenarioStops DEF RejectScenario, RejectTransaction, RejectQuery, RejectProbe, Rejects, Fails, Ends
<1>3. CASE job.worker # "two_connection"
  <2>1. job' = job
    BY JobIsKept
  <2> QED BY <1>3, <2>1 DEF ScenarioInv
<1>4. CASE job.worker = "two_connection"
  <2>1. CASE SetupDone
    BY <1>4, <2>1, SetupDoneGoesOn
  <2>2. CASE ScenarioDone
    BY <1>4, <2>2, ScenarioDoneEnds
  <2>3. ASSUME NEW s \in Statement, BootstrapStatement(s) PROVE ScenarioInv'
    BY <1>4, <2>3, BootstrapGoesOn
  <2>4. ASSUME NEW step \in job.steps, BeginStep(step) PROVE ScenarioInv'
    BY <1>4, <2>4, BeginGoesOn
  <2>5. ASSUME NEW step \in job.steps, EndStep(step) PROVE ScenarioInv'
    BY <1>4, <2>5, EndGoesOn
  <2>6. ASSUME NEW step \in job.steps, ExecuteStep(step) PROVE ScenarioInv'
    BY <1>4, <2>6, ExecuteGoesOn
  <2>7. ASSUME NEW step \in job.steps, QueryStep(step) PROVE ScenarioInv'
    BY <1>4, <2>7, QueryGoesOn
  <2>8. /\ ~BeginTransaction /\ ~Finalize
        /\ \A s : ~SetupStatement(s) /\ ~TransactionStatement(s) /\ ~ObserveStatement(s) /\ ~QueryStatement(s)
    BY <1>4, PhasesAreWorkers
       DEF BeginTransaction, Finalize, SetupStatement, TransactionStatement, ObserveStatement, QueryStatement
  <2>9. ~HoldLock /\ ~ContendForLock /\ ~ReleaseLock /\ ~RetryLock /\ ~SettleLock
    BY <1>4, PhasesAreWorkers
       DEF HoldLock, ContendForLock, ReleaseLock, RetryLock, SettleLock, ProbeIf, Probing
  <2> QED BY <1>1, <1>2, <2>1, <2>2, <2>3, <2>4, <2>5, <2>6, <2>7, <2>8, <2>9 DEF ExecutorNext
<1> QED BY <1>3, <1>4

\* The probe of the writer lock.
LEMMA ProbeStep ==
  ASSUME ExecutorTypeOK, ProbeInv, [ExecutorNext]_executor
  PROVE  ProbeInv'
<1>1. CASE UNCHANGED executor
  BY <1>1 DEF executor, ProbeInv
<1>2. CASE RejectScenario \/ RejectTransaction \/ RejectQuery \/ RejectProbe
  <2>1. exit' = 2
    BY <1>2 DEF RejectScenario, RejectTransaction, RejectQuery, RejectProbe, Rejects, Fails, Ends
  <2> QED BY <2>1 DEF ProbeInv, Running
<1>3. CASE job.worker # "lock"
  <2>1. job' = job
    BY JobIsKept
  <2> QED BY <1>3, <2>1 DEF ProbeInv
<1>4. CASE job.worker = "lock"
  <2>0. "a" \in Live /\ "b" \in Live /\ session \in [Live -> Sessions] /\ DOMAIN session = Live
        /\ Peer("a") = "b" /\ Peer("b") = "a"
    BY DEF Live, ExecutorTypeOK, Peer
  <2>01. /\ job.begin \in {"immediate", "exclusive"} /\ job.contender \in {"immediate", "exclusive"}
         /\ job.journal \in {"delete", "wal"}
    BY <1>4, JobAssumption DEF ExecutorTypeOK
  <2>1. CASE HoldLock
    <3>1. phase = "hold" /\ phase' = "contend" /\ session' = Holds("a", job.begin, 1)
          /\ UNCHANGED <<job, stored, result, exit>>
      BY <2>1 DEF HoldLock, ProbeIf, Probing, Unchanging
    <3>2. exit = Running /\ stored = <<>> /\ session["b"] = Idle
      BY <1>4, <3>1, RunningIsNotFour DEF ProbeInv
    <3>3. session'["b"] = session["b"] /\ session'["a"].lock # "none"
      BY <2>0, <2>01, <3>1 DEF Holds, Began
    <3> QED BY <3>1, <3>2, <3>3 DEF ProbeInv, Running
  <2>2. CASE ContendForLock
    <3>1. phase = "contend"
      BY <2>2, ContendShape
    <3>2. exit = Running /\ stored = <<>> /\ session["b"] = Idle /\ session["a"].lock # "none"
      BY <1>4, <3>1, RunningIsNotFour DEF ProbeInv
    <3>3. BeginError("b", job.contender) \in BusyErrors
      BY <2>0, <2>01, <3>2 DEF BeginError, WriteError, Idle, BusyErrors, NoError
    <3>4. phase' = "release" /\ UNCHANGED <<job, stored, session, result, exit>>
      BY <2>2, <3>3 DEF ContendForLock, ProbeIf, Probing, Unchanging
    <3> QED BY <3>2, <3>4 DEF ProbeInv, Running
  <2>3. CASE ReleaseLock
    <3>1. phase = "release" /\ phase' = "retry" /\ session' = [session EXCEPT !["a"] = Idle]
          /\ UNCHANGED <<job, stored, result, exit>>
      BY <2>3 DEF ReleaseLock, Probing, Unchanging
    <3>2. exit = Running /\ stored = <<>> /\ session["b"] = Idle
      BY <1>4, <3>1, RunningIsNotFour DEF ProbeInv
    <3>3. session'["b"] = Idle /\ session'["a"] = Idle
      BY <2>0, <3>1, <3>2
    <3> QED BY <3>1, <3>2, <3>3 DEF ProbeInv, Running
  <2>4. CASE RetryLock
    <3>1. phase = "retry"
      BY <2>4, RetryShape
    <3>2. exit = Running /\ stored = <<>> /\ session["b"] = Idle /\ session["a"] = Idle
      BY <1>4, <3>1, RunningIsNotFour DEF ProbeInv
    <3>3. BeginError("b", job.contender) = NoError
      BY <2>0, <2>01, <3>2 DEF BeginError, WriteError, Idle, NoError
    <3>4. phase' = "settle" /\ session' = Holds("b", job.contender, 2) /\ UNCHANGED <<job, stored, result, exit>>
      BY <2>4, <3>3 DEF RetryLock, ProbeIf, Probing, Unchanging
    <3>5. session'["a"] = session["a"] /\ session'["b"].own = <<2>> /\ session'["b"].base = <<>>
      BY <2>0, <2>01, <3>2, <3>4 DEF Holds, Began
    <3> QED BY <3>2, <3>4, <3>5 DEF ProbeInv, Running
  <2>5. CASE SettleLock
    <3>1. phase = "settle"
      BY <2>5 DEF SettleLock
    <3>2. exit = Running /\ stored = <<>> /\ session["b"].base = <<>> /\ session["b"].own = <<2>>
          /\ session["a"] = Idle
      BY <1>4, <3>1, RunningIsNotFour DEF ProbeInv
    <3>3. EndError("b") = NoError
      BY <2>0, <3>2 DEF EndError, CommitError, Idle, NoError
    <3>4. CommittedBy("b") = <<2>>
      BY <3>2 DEF CommittedBy
    <3>5. result' = [columns |-> 1, rows |-> CommittedBy("b")] /\ exit' = 0 /\ job' = job
      BY <2>5, <3>3 DEF SettleLock, Ends, Unchanging
    <3>6. result'.rows = <<2>>
      BY <3>4, <3>5
    <3> QED BY <3>5, <3>6 DEF ProbeInv, Running
  <2>6. ~SetupDone /\ ~ScenarioDone /\ ~BeginTransaction /\ ~Finalize
        /\ \A s : /\ ~BootstrapStatement(s) /\ ~SetupStatement(s) /\ ~TransactionStatement(s)
                  /\ ~ObserveStatement(s) /\ ~QueryStatement(s)
    BY <1>4, PhasesAreWorkers
       DEF SetupDone, ScenarioDone, BeginTransaction, Finalize, BootstrapStatement, SetupStatement,
           TransactionStatement, ObserveStatement, QueryStatement
  <2>7. \A step : ~BeginStep(step) /\ ~EndStep(step) /\ ~ExecuteStep(step) /\ ~QueryStep(step)
    <3>1. \A step : ~Scenario(step)
      BY <1>4, PhasesAreWorkers DEF Scenario
    <3> QED BY <3>1 DEF BeginStep, EndStep, ExecuteStep, QueryStep
  <2> QED BY <1>1, <1>2, <2>1, <2>2, <2>3, <2>4, <2>5, <2>6, <2>7 DEF ExecutorNext
<1> QED BY <1>3, <1>4

LEMMA ScenarioStarts == ExecutorInit => ScenarioInv /\ ProbeInv
<1> SUFFICES ASSUME ExecutorInit PROVE ScenarioInv /\ ProbeInv
  OBVIOUS
<1>1. /\ exit = Running /\ stored = <<>> /\ session = [c \in Live |-> Idle] /\ records = <<>>
      /\ request = [stage \in Stages |-> <<>>] /\ phase = (IF job.worker = "lock" THEN "hold" ELSE "setup")
  BY DEF ExecutorInit
<1>2. request["setup"] = <<>> /\ request["steps"] = <<>> /\ session["a"] = Idle /\ session["b"] = Idle
  BY <1>1 DEF Stages, Live
<1>3. AddedBy(request["setup"]) = <<>>
  <2>1. <<>> \in Seq(AnyStatement)
    OBVIOUS
  <2> QED BY <1>2, <2>1, AddedByIsTyped
<1>4. ScenarioInv
  BY <1>1, <1>2, <1>3 DEF ScenarioInv, ScenarioRuns, Running
<1>5. ProbeInv
  BY <1>1, <1>2 DEF ProbeInv, Running
<1> QED BY <1>4, <1>5

LEMMA ScenarioIsTold == ScenarioInv /\ ProbeInv => TranscriptExplainsTheDatabase
<1> SUFFICES ASSUME ScenarioInv, ProbeInv PROVE TranscriptExplainsTheDatabase
  OBVIOUS
<1>1. \A steps, transcript : Told(steps, transcript) = StoryOf(TableSetUp, steps, transcript)
  BY DEF Told, StoryOf, IsStory, OpeningStory
<1>2. TableSetUp = AddedBy(request["setup"]) /\ Drawn("steps") = request["steps"]
  BY DEF TableSetUp, Drawn
<1>3. (exit = 0 /\ job.worker = "two_connection") =>
        /\ Len(records) = Len(Drawn("steps"))
        /\ LET told == Told(Drawn("steps"), records) IN
             told.agrees /\ told.table = stored /\ \A c \in Live : ~told.active[c]
  BY <1>1, <1>2 DEF ScenarioInv, ScenarioEnds
<1>4. (Exited /\ job.worker = "lock") => exit \in {0, 2} /\ (exit = 0 => result.rows = <<2>>)
  BY DEF ProbeInv, Exited
<1> QED BY <1>3, <1>4 DEF TranscriptExplainsTheDatabase

\* TranscriptExplainsTheDatabase: whatever the scenario, a transcript that is written accounts for
\* the database: what it calls done was done and what it calls busy had no effect; every read of
\* a transaction shows one committed table and the transaction's own writes, and nobody committed
\* between that table and its commit.  The probe of the writer lock finds the second
\* writer blocked, then alone.
THEOREM TranscriptsAreExplained == ExecutorSpec => []TranscriptExplainsTheDatabase
<1>1. ExecutorInit => ScenarioInv /\ ProbeInv
  BY ScenarioStarts
<1>2. ExecutorTypeOK /\ (ScenarioInv /\ ProbeInv) /\ [ExecutorNext]_executor => (ScenarioInv /\ ProbeInv)'
  BY ScenarioStep, ProbeStep
<1>3. ScenarioInv /\ ProbeInv => TranscriptExplainsTheDatabase
  BY ScenarioIsTold
<1> QED BY <1>1, <1>2, <1>3, ExecutorsAreTyped, PTL DEF ExecutorSpec

----------------------------------------------------------------------------
(***************************************************************************)
(* Side by side: whichever of the two runs, the other one stays as it is.  *)
(***************************************************************************)
LEMMA NoScriptStarts ==
  ASSUME NoScriptRuns, [Next]_vars
  PROVE  UNCHANGED vars
<1>1. script \in Script
  BY TargetsAssumption DEF NoScriptRuns
<1>2. Len(Steps[script]) \in Nat /\ ~(at <= Len(Steps[script]))
  BY <1>1, StepsAreTyped DEF NoScriptRuns
<1>3. (\A name : ~Doing(name)) /\ ~Cleaning
  BY <1>2 DEF Doing, Cleaning, NoScriptRuns
<1>4. \A c \in Connection :
        ~(\/ Open(c) \/ Close(c) \/ SetWal(c) \/ IsWal(c) \/ Insert(c) \/ Pin(c) \/ Read(c) \/ Update(c)
          \/ Commit(c) \/ Rollback(c) \/ Checkpoint(c) \/ Backup(c) \/ Unlink(c)
          \/ Spawn(c) \/ Ask(c) \/ KillChild(c) \/ Exit(c))
  BY <1>3, Zenon DEF Open, Close, SetWal, IsWal, Insert, Pin, Read, Update, Commit, Rollback, Checkpoint,
       Backup, Unlink, Spawn, Ask, KillChild, Exit
<1>5. ~(Try \/ HandOver \/ KillLiving \/ LeaveScope)
  BY <1>3 DEF Try, HandOver, KillLiving, LeaveScope
<1>6. ~(StepFails \/ KillTimesOut \/ CleaningTimesOut)
  BY <1>2, <1>3 DEF StepFails, KillTimesOut, CleaningTimesOut
<1> QED BY <1>4, <1>5, <1>6 DEF Next, Stopped

LEMMA NoExecutorStarts ==
  ASSUME NoExecutorRuns, [ExecutorNext]_executor
  PROVE  UNCHANGED executor
<1>1. phase = "none" /\ job.steps = {}
  BY DEF NoExecutorRuns, NoJob
<1>2. ~(RejectScenario \/ RejectTransaction \/ RejectQuery \/ RejectProbe)
  BY <1>1 DEF RejectScenario, RejectTransaction, RejectQuery, RejectProbe
<1>3. ~(SetupDone \/ BeginTransaction \/ Finalize \/ ScenarioDone)
  BY <1>1 DEF SetupDone, BeginTransaction, Finalize, ScenarioDone
<1>4. ~ \E s \in Statement :
          \/ BootstrapStatement(s) \/ SetupStatement(s)
          \/ TransactionStatement(s) \/ ObserveStatement(s) \/ QueryStatement(s)
  BY <1>1 DEF BootstrapStatement, SetupStatement, TransactionStatement, ObserveStatement, QueryStatement
<1>5. ~(HoldLock \/ ContendForLock \/ ReleaseLock \/ RetryLock \/ SettleLock)
  BY <1>1 DEF HoldLock, ContendForLock, ReleaseLock, RetryLock, SettleLock, Probing, ProbeIf
<1> QED BY <1>1, <1>2, <1>3, <1>4, <1>5 DEF ExecutorNext

LEMMA NoScriptLeavesNothing == NoScriptRuns => NothingIsLeftRunning
BY DEF NothingIsLeftRunning, NoScriptRuns

LEMMA NoExecutorTellsNothing ==
  NoExecutorRuns => TranscriptExplainsTheDatabase /\ ObservationIsAllOrNothing /\ CeilingsAreExact
BY DEF NoExecutorRuns, NoJob, Running, Exited,
  TranscriptExplainsTheDatabase, ObservationIsAllOrNothing, CeilingsAreExact

LEMMA OneSideRuns ==
  SqliteSpec =>
    \/ Spec /\ []NoExecutorRuns
    \/ ExecutorSpec /\ []NoScriptRuns /\ [][FALSE]_vars
<1>1. SqliteInit => (Init /\ NoExecutorRuns) \/ (NoScriptRuns /\ ExecutorInit)
  BY DEF SqliteInit
<1>2. [SqliteNext]_<<vars, executor>> => [Next]_vars /\ [ExecutorNext]_executor
  BY DEF SqliteNext
<1>3. NoScriptRuns /\ [Next]_vars => NoScriptRuns' /\ [FALSE]_vars
  <2>1. NoScriptRuns /\ UNCHANGED vars => NoScriptRuns'
    BY DEF NoScriptRuns, vars, engine, processes
  <2> QED BY <2>1, NoScriptStarts
<1>4. NoExecutorRuns /\ [ExecutorNext]_executor => NoExecutorRuns'
  <2>1. NoExecutorRuns /\ UNCHANGED executor => NoExecutorRuns'
    BY DEF NoExecutorRuns, executor
  <2> QED BY <2>1, NoExecutorStarts
<1> QED BY <1>1, <1>2, <1>3, <1>4, PTL DEF SqliteSpec, Spec, ExecutorSpec

\* A run of any target, as the runs check it: the transcripts of the scenarios tell what the
\* database holds, an observation is all or nothing, and no ceiling is missed or held against
\* a result that fits; the runs of WAL scripts beside them change none of it.
THEOREM TargetsTellTheTruth ==
  SqliteSpec => /\ []TranscriptExplainsTheDatabase
                /\ []ObservationIsAllOrNothing
                /\ []CeilingsAreExact
BY OneSideRuns, NoExecutorTellsNothing, TranscriptsAreExplained, ObservationsAreAllOrNothing,
   CeilingsAreKept, PTL

\* No target leaves a child behind, but where a second operation fails in the cleanup or a
\* connect fails between the start of a reader and its block.
THEOREM TargetsEndTheirChildren == SqliteSpec /\ []ScriptsAgree => []NothingIsLeftRunning
BY NoScriptLeavesNothing, OneSideRuns, ChildrenAreEnded, PTL
=============================================================================
