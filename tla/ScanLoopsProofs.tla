-------------------------- MODULE ScanLoopsProofs --------------------------
(***************************************************************************)
(* Proofs about ScanLoops, for any number of sheets and every set of       *)
(* faults: no sheet hands a debt to the next, and a batch is written whole *)
(* or not at all; and no invocation can go on for ever.                    *)
(***************************************************************************)
EXTENDS ScanLoops, CanonCaptureProofs, FiniteSetTheorems

Covers(these, n) == \A s \in 1 .. n : \E i \in DOMAIN these : these[i][1] = s

LoopTypes ==
    /\ sheet \in Nat /\ collected \in Seq(Nat \X Nat)
    /\ place \notin {"setup", "discharge", "release"}

\* What a batch has collected when it is between sheets, at a sheet, at its end.
BatchProgress ==
    mode = "batch" =>
        /\ place = "start" => sheet = 0
        /\ place = "loop" => Covers(collected, sheet)
        /\ place = "capture" => Covers(collected, sheet - 1)
        /\ place = "assemble" => Covers(collected, SheetCount)
        /\ pdf # <<>> => Covers(pdf, SheetCount)
        /\ place = "done" => pdf # <<>>

LoopsInv == mode # "setup" => CaptureInv /\ LoopTypes /\ BatchProgress

(* The pages of a sheet are pages.                                            *)
LEMMA CollectedSeq ==
  ASSUME CaptureTypes, LoopTypes, Frames > 0
  PROVE  /\ Frames \in Nat
         /\ PagesOfSheet \in Seq(Nat \X Nat) /\ Len(PagesOfSheet) = Frames
         /\ PagesOfSheet[1][1] = sheet
         /\ collected \o PagesOfSheet \in Seq(Nat \X Nat)
  <1>1. Frames \in Nat
    <2>1. stream \in Nat /\ device.size \in Nat \ {0}
      BY CaptureAssumption DEF CaptureTypes, DeviceType
    <2>2. QED BY <2>1 DEF Frames
  <1>2. /\ PagesOfSheet \in Seq(Nat \X Nat) /\ Len(PagesOfSheet) = Frames
        /\ PagesOfSheet[1][1] = sheet
    BY <1>1 DEF PagesOfSheet, LoopTypes
  <1>3. QED BY <1>1, <1>2 DEF LoopTypes

(* A sheet with frames adds pages of that sheet to those of the earlier ones. *)
LEMMA CollectedCovers ==
  ASSUME CaptureTypes, LoopTypes, Frames > 0, Covers(collected, sheet - 1)
  PROVE  /\ collected \o PagesOfSheet \in Seq(Nat \X Nat)
         /\ Covers(collected \o PagesOfSheet, sheet)
  <1> USE DEF LoopTypes
  <1>1. Frames \in Nat BY CollectedSeq
  <1>2. /\ PagesOfSheet \in Seq(Nat \X Nat) /\ Len(PagesOfSheet) = Frames
        /\ PagesOfSheet[1][1] = sheet
    BY CollectedSeq
  <1> DEFINE all == collected \o PagesOfSheet
  <1>3. /\ all \in Seq(Nat \X Nat)
        /\ Len(all) = Len(collected) + Frames
        /\ \A i \in 1 .. Len(all) :
              all[i] = IF i <= Len(collected) THEN collected[i]
                       ELSE PagesOfSheet[i - Len(collected)]
    BY <1>2, ConcatProperties
  <1> HIDE DEF all
  <1>4. ASSUME NEW s \in 1 .. sheet PROVE \E i \in DOMAIN all : all[i][1] = s
    <2>1. CASE s \in 1 .. sheet - 1
      <3>1. PICK i \in DOMAIN collected : collected[i][1] = s
        BY <2>1 DEF Covers
      <3>2. i \in 1 .. Len(collected) BY <3>1
      <3>3. i \in 1 .. Len(all) /\ i <= Len(collected)
        <4>1. Len(collected) \in Nat OBVIOUS
        <4>2. QED BY <1>1, <1>3, <3>2, <4>1
      <3>4. all[i] = collected[i] BY <1>3, <3>3
      <3>5. i \in DOMAIN all BY <1>3, <3>3
      <3>6. QED BY <3>1, <3>4, <3>5
    <2>2. CASE s = sheet
      <3> DEFINE first == Len(collected) + 1
      <3>1. first \in 1 .. Len(all) /\ ~(first <= Len(collected))
            /\ first - Len(collected) = 1
        BY <1>1, <1>3
      <3>2. all[first] = PagesOfSheet[1] BY <1>3, <3>1
      <3>3. first \in DOMAIN all BY <1>3, <3>1
      <3>4. QED BY <1>2, <2>2, <3>2, <3>3
    <2>3. QED BY <1>4, <2>1, <2>2
  <1>5. QED BY <1>3, <1>4 DEF Covers, all

(* The capture is right before the first sheet.                               *)
LEMMA InitLoopsInv == LoopsInit => LoopsInv
  <1> SUFFICES ASSUME LoopsInit PROVE LoopsInv
    OBVIOUS
  <1>1. CaptureInv BY InitCaptureInv DEF LoopsInit
  <1>2. LoopTypes BY DEF LoopsInit, LoopTypes
  <1>3. BatchProgress BY DEF LoopsInit, BatchProgress
  <1>4. QED BY <1>1, <1>2, <1>3 DEF LoopsInv

(* The way the tool is called never changes, and a setup run keeps to itself. *)
LEMMA ModeStays == [Tool]_toolVars => mode' = mode
  BY DEF Tool, Start, NextSheet, InCapture, SheetCaptured, Collect, SingleCaptured,
         NoFrames, CaptureRaised, LoopDone, Assemble, AssembleFails, StartSetup,
         SetupSend, SetupReply, SetupFails, SetupUndo, UndoNext, Skip, Undo, Goto,
         toolVars, loopVars

(* One step of the three captures keeps the invariant.                        *)
LEMMA LoopsStep ==
  ASSUME CaptureInv, LoopTypes, BatchProgress, mode # "setup", [Tool]_toolVars
  PROVE  CaptureInv' /\ LoopTypes' /\ BatchProgress'
  <1> USE DEF LoopTypes, BatchProgress, Covers
  <1>1. CASE Start
    <2>1. /\ place = "start" /\ place' \in {"loop", "error"}
          /\ UNCHANGED <<mode, sheet, collected, pdf>> /\ UNCHANGED captureVars
      BY <1>1 DEF Start, Goto
    <2>2. mode = "batch" => Covers(collected', sheet')
      BY <2>1
    <2>3. QED BY <2>1, <2>2, CaptureUnchanged
  <1>2. CASE NextSheet
    BY <1>2, CallKeeps DEF NextSheet
  <1>3. CASE InCapture
    BY <1>3, CaptureKeeps DEF InCapture
  <1>4. CASE SheetCaptured
    <2>1. /\ place = "capture" /\ Frames > 0 /\ place' = "loop"
          /\ collected' = collected \o PagesOfSheet
          /\ UNCHANGED <<mode, sheet, pdf>>
      BY <1>4 DEF SheetCaptured, Collect
    <2>2. CaptureInv' BY <1>4, LeaveKeeps DEF SheetCaptured
    <2>3. CASE mode = "batch"
      <3>1. Covers(collected, sheet - 1) BY <2>1, <2>3
      <3>2. /\ collected' \in Seq(Nat \X Nat)
            /\ Covers(collected', sheet)
        <4>1. CaptureTypes BY DEF CaptureInv
        <4>2. QED BY <2>1, <3>1, <4>1, CollectedCovers
      <3>3. QED BY <2>1, <2>2, <2>3, <3>2
    <2>4. CASE mode # "batch"
      <3>1. collected' \in Seq(Nat \X Nat)
        <4>1. CaptureTypes BY DEF CaptureInv
        <4>2. QED BY <2>1, <4>1, CollectedSeq
      <3>2. QED BY <2>1, <2>2, <2>4, <3>1
    <2>5. QED BY <2>3, <2>4
  <1>5. CASE SingleCaptured
    BY <1>5, LeaveKeeps DEF SingleCaptured, Goto
  <1>6. CASE NoFrames
    BY <1>6, LeaveKeeps DEF NoFrames, Goto
  <1>7. CASE CaptureRaised
    BY <1>7, LeaveKeeps DEF CaptureRaised, Goto
  <1>8. CASE LoopDone
    BY <1>8, CaptureUnchanged DEF LoopDone, Goto, SheetLimit
  <1>9. CASE Assemble
    BY <1>9, CaptureUnchanged DEF Assemble, Goto, KeptPages
  <1>10. CASE AssembleFails
    BY <1>10, CaptureUnchanged DEF AssembleFails, Goto
  <1>11. CASE UNCHANGED toolVars
    BY <1>11, CaptureUnchanged DEF toolVars, loopVars
  <1>12. ~(StartSetup \/ SetupSend \/ SetupReply \/ SetupFails \/ SetupUndo)
    BY DEF StartSetup, SetupSend, SetupReply, SetupFails, SetupUndo, UndoNext, Skip,
           Undo
  <1>13. QED
    BY <1>1, <1>2, <1>3, <1>4, <1>5, <1>6, <1>7, <1>8, <1>9, <1>10, <1>11, <1>12
    DEF Tool

(* The inductive invariant of the tool.                                       *)
THEOREM LoopsInvariant == LoopsSpec => []LoopsInv
  <1>1. LoopsInv /\ [Tool]_toolVars => LoopsInv'
    BY ModeStays, LoopsStep DEF LoopsInv
  <1>2. QED BY InitLoopsInv, <1>1, PTL DEF LoopsSpec

(* Between two sheets and at the end of every capture, each reservation and   *)
(* feed the tool could know of has been followed by an attempt to undo it.    *)
THEOREM SheetsSettled == LoopsSpec => []SheetsSettle
  <1>1. LoopsInv => SheetsSettle
    BY DEF LoopsInv, CaptureInv, CaptureTypes, DebtKnown, SheetsSettle, DebtSettled
  <1>2. QED BY <1>1, LoopsInvariant, PTL

(* A batch writes its file whole or not at all, for any number of sheets.     *)
THEOREM BatchWhole == LoopsSpec => []BatchAllOrNothing
  <1>1. LoopsInv => BatchAllOrNothing
    BY DEF LoopsInv, BatchProgress, Covers, BatchAllOrNothing
  <1>2. QED BY <1>1, LoopsInvariant, PTL

----------------------------------------------------------------------------
(* The pages: what is collected, and what is written, is in the order of the  *)
(* paper, in every way the tool is called.                                    *)

LoopPage == (1 .. SheetLimit) \X (1 .. Sides)

Before(p, q) == p[1] < q[1] \/ (p[1] = q[1] /\ p[2] < q[2])

Ordered(pages) == \A i, j \in DOMAIN pages : i < j => Before(pages[i], pages[j])

\* Nothing collected is of the sheet that is being captured, or of a later one:
\* without it a sheet could be appended behind its successor.
CollectedBehind ==
    \A i \in DOMAIN collected :
        collected[i][1] <= sheet /\ (place = "capture" => collected[i][1] < sheet)

PlaceTypes ==
    /\ mode \in Modes
    /\ place \in {"start", "loop", "capture", "assemble", "setup", "discharge",
                  "release", "done", "error"}
    /\ sheet \in 0 .. SheetLimit
    /\ place = "capture" => sheet > 0
    /\ place = "start" => stream = 0

PageTypes == collected \in Seq(LoopPage) /\ pdf \in Seq(LoopPage)

PageOrder == Ordered(collected) /\ Ordered(pdf) /\ CollectedBehind

LoopPagesInv == CaptureWell /\ PlaceTypes /\ PageTypes /\ PageOrder

(* The n-th position is there for every n, and further on for a larger n.     *)
LEMMA NthAscends ==
  ASSUME NEW m \in Nat, NEW positions \in SUBSET (1 .. m)
  PROVE  /\ Cardinality(positions) \in Nat
         /\ \A n \in 1 .. Cardinality(positions) : Nth(positions, n) \in positions
         /\ \A i, j \in 1 .. Cardinality(positions) :
               i < j => Nth(positions, i) < Nth(positions, j)
  <1> DEFINE size == Cardinality(positions)
             upto(p) == {i \in positions : i <= p}
             rank == [p \in positions |-> Cardinality(upto(p))]
  <1>1. IsFiniteSet(positions) /\ size \in Nat
    <2>1. IsFiniteSet(1 .. m) BY FS_Interval
    <2>2. IsFiniteSet(positions) BY <2>1, FS_Subset
    <2>3. QED BY <2>2, FS_CardinalityType
  <1>2. positions \subseteq Nat OBVIOUS
  <1>3. ASSUME NEW p \in positions
        PROVE  /\ IsFiniteSet(upto(p)) /\ Cardinality(upto(p)) \in 1 .. size
               /\ p \in upto(p)
    <2>1. upto(p) \in SUBSET positions /\ p \in upto(p) BY <1>2
    <2>2. IsFiniteSet(upto(p)) /\ Cardinality(upto(p)) <= size
      BY <1>1, <2>1, FS_Subset
    <2>3. Cardinality(upto(p)) \in Nat /\ Cardinality(upto(p)) # 0
      BY <2>1, <2>2, FS_CardinalityType, FS_EmptySet
    <2>4. QED BY <1>1, <2>1, <2>2, <2>3
  <1>4. ASSUME NEW p \in positions, NEW q \in positions, p < q
        PROVE  Cardinality(upto(p)) < Cardinality(upto(q))
    <2>1. ASSUME NEW i \in upto(p) PROVE i \in upto(q)
      <3>1. i \in Nat /\ p \in Nat /\ q \in Nat /\ i <= p BY <1>2
      <3>2. i <= q BY <1>4, <3>1
      <3>3. QED BY <3>2
    <2>2. q \in upto(q) /\ q \notin upto(p) BY <1>2, <1>4
    <2>3. IsFiniteSet(upto(q)) BY <1>3
    <2>4. /\ Cardinality(upto(p)) <= Cardinality(upto(q))
          /\ Cardinality(upto(q)) = Cardinality(upto(p)) => upto(q) = upto(p)
      <3>1. upto(p) \in SUBSET upto(q) BY <2>1
      <3>2. QED BY <2>3, <3>1, FS_Subset
    <2>5. Cardinality(upto(p)) \in Nat /\ Cardinality(upto(q)) \in Nat BY <1>3
    <2> HIDE DEF upto
    <2>6. QED BY <2>2, <2>4, <2>5
  <1>5. rank \in Injection(positions, 1 .. size)
    <2>1. rank \in [positions -> 1 .. size] BY <1>3
    <2>2. ASSUME NEW p \in positions, NEW q \in positions, rank[p] = rank[q]
          PROVE  p = q
      <3>1. Cardinality(upto(p)) \in Nat /\ Cardinality(upto(q)) \in Nat BY <1>3
      <3>2. Cardinality(upto(p)) = Cardinality(upto(q)) BY <2>2
      <3> HIDE DEF upto, rank
      <3>3. ~(p < q) /\ ~(q < p) BY <1>4, <3>1, <3>2
      <3>4. QED BY <1>2, <3>3
    <2> HIDE DEF rank
    <2>3. \A p, q \in positions : rank[p] = rank[q] => p = q BY <2>2
    <2>4. QED BY <2>1, <2>3 DEF Injection, IsInjective
  <1>6. rank \in Surjection(positions, 1 .. size)
    <2>1. IsFiniteSet(1 .. size) /\ Cardinality(1 .. size) = size
      BY <1>1, FS_Interval
    <2> HIDE DEF rank
    <2>2. QED BY <1>5, <2>1, FS_Injection
  <1>7. ASSUME NEW n \in 1 .. size
        PROVE  /\ Nth(positions, n) \in positions
               /\ Cardinality(upto(Nth(positions, n))) = n
    <2>1. \E p \in positions : rank[p] = n
      <3> HIDE DEF rank
      <3>1. QED BY <1>6 DEF Surjection
    <2>2. \E p \in positions : Cardinality(upto(p)) = n BY <2>1
    <2>3. QED BY <2>2 DEF Nth
  <1>8. ASSUME NEW i \in 1 .. size, NEW j \in 1 .. size, i < j
        PROVE  Nth(positions, i) < Nth(positions, j)
    <2>1. /\ Nth(positions, i) \in positions /\ Nth(positions, j) \in positions
          /\ Cardinality(upto(Nth(positions, i))) = i
          /\ Cardinality(upto(Nth(positions, j))) = j
      BY <1>7
    <2> HIDE DEF upto
    <2>2. Nth(positions, i) # Nth(positions, j) BY <1>8, <2>1
    <2>3. ~(Nth(positions, j) < Nth(positions, i))
      <3>1. ASSUME Nth(positions, j) < Nth(positions, i) PROVE j < i
        BY <1>4, <2>1, <3>1
      <3>2. QED BY <1>8, <3>1
    <2>4. Nth(positions, i) \in Nat /\ Nth(positions, j) \in Nat BY <1>2, <2>1
    <2>5. QED BY <2>2, <2>3, <2>4
  <1>9. QED BY <1>1, <1>7, <1>8

(* Leaving pages out does not change the order of the rest.                   *)
LEMMA KeptInOrder ==
  ASSUME PageTypes, PageOrder, NEW pages \in KeptPages
  PROVE  pages \in Seq(LoopPage) /\ Ordered(pages)
  <1>1. collected \in Seq(LoopPage) /\ Ordered(collected)
    BY DEF PageTypes, PageOrder
  <1>2. CASE mode = "auto"
    <2>1. PICK kept \in SUBSET DOMAIN collected :
             pages = [n \in 1 .. Cardinality(kept) |-> collected[Nth(kept, n)]]
      BY <1>2 DEF KeptPages
    <2>2. DOMAIN collected = 1 .. Len(collected) /\ Len(collected) \in Nat
      BY <1>1
    <2>3. /\ Cardinality(kept) \in Nat
          /\ \A n \in 1 .. Cardinality(kept) : Nth(kept, n) \in kept
          /\ \A i, j \in 1 .. Cardinality(kept) :
                i < j => Nth(kept, i) < Nth(kept, j)
      BY <2>1, <2>2, NthAscends
    <2>4. \A n \in 1 .. Cardinality(kept) :
             Nth(kept, n) \in DOMAIN collected /\ collected[Nth(kept, n)] \in LoopPage
      BY <1>1, <2>1, <2>2, <2>3
    <2>5. pages \in Seq(LoopPage) BY <2>1, <2>3, <2>4
    <2>6. Ordered(pages) BY <1>1, <2>1, <2>3, <2>4 DEF Ordered
    <2>7. QED BY <2>5, <2>6
  <1>3. CASE mode # "auto" BY <1>1, <1>3 DEF KeptPages
  <1>4. QED BY <1>2, <1>3

(* A sheet's own pages are in order, front before back.                       *)
LEMMA SheetInOrder ==
  ASSUME CaptureWell, PlaceTypes, sheet > 0
  PROVE  /\ PagesOfSheet \in Seq(LoopPage) /\ Ordered(PagesOfSheet)
         /\ Frames \in Nat /\ Len(PagesOfSheet) = Frames
         /\ \A i \in 1 .. Frames : PagesOfSheet[i][1] = sheet
  <1>1. Frames \in Nat /\ Frames \in 0 .. Sides /\ Sides \in Nat
    BY FramesFitSides DEF Sides
  <1>2. sheet \in 1 .. SheetLimit
    BY LoopsAssumption DEF PlaceTypes, SheetLimit
  <1>3. \A i \in 1 .. Frames : PagesOfSheet[i] = <<sheet, i>>
    BY <1>1 DEF PagesOfSheet
  <1>4. \A i \in 1 .. Frames : i \in 1 .. Sides BY <1>1
  <1>5. PagesOfSheet \in Seq(LoopPage) /\ Len(PagesOfSheet) = Frames
    BY <1>1, <1>2, <1>4 DEF PagesOfSheet, LoopPage
  <1>6. Ordered(PagesOfSheet)
    BY <1>1, <1>3, <1>5 DEF Ordered, Before
  <1>7. QED BY <1>1, <1>3, <1>5, <1>6

(* A sheet is appended behind the earlier ones.                               *)
LEMMA CollectInOrder ==
  ASSUME LoopPagesInv, place = "capture"
  PROVE  LET all == collected \o PagesOfSheet IN
         /\ all \in Seq(LoopPage) /\ Ordered(all)
         /\ \A i \in DOMAIN all : all[i][1] <= sheet
  <1> DEFINE all == collected \o PagesOfSheet
  <1>1. /\ collected \in Seq(LoopPage) /\ Ordered(collected) /\ sheet \in Nat
        /\ \A i \in DOMAIN collected : collected[i][1] < sheet
    BY DEF LoopPagesInv, PageTypes, PageOrder, CollectedBehind, PlaceTypes
  <1>2. /\ PagesOfSheet \in Seq(LoopPage) /\ Ordered(PagesOfSheet)
        /\ Frames \in Nat /\ Len(PagesOfSheet) = Frames
        /\ \A i \in 1 .. Frames : PagesOfSheet[i][1] = sheet
    BY SheetInOrder DEF LoopPagesInv, PlaceTypes
  <1> DEFINE n == Len(collected)
  <1>3. n \in Nat /\ DOMAIN collected = 1 .. n BY <1>1
  <1>4. /\ all \in Seq(LoopPage) /\ Len(all) = n + Frames
        /\ \A i \in 1 .. Len(all) :
              all[i] = IF i <= n THEN collected[i] ELSE PagesOfSheet[i - n]
    BY <1>1, <1>2, ConcatProperties
  <1>5. DOMAIN all = 1 .. n + Frames BY <1>4
  <1>6. DOMAIN PagesOfSheet = 1 .. Frames BY <1>2
  <1> HIDE DEF all, n
  <1>7. ASSUME NEW i \in DOMAIN all
        PROVE  /\ i <= n => all[i] = collected[i] /\ i \in DOMAIN collected
               /\ ~(i <= n) => /\ all[i] = PagesOfSheet[i - n]
                               /\ i - n \in 1 .. Frames
    BY <1>2, <1>3, <1>4, <1>5
  <1>8. ASSUME NEW i \in DOMAIN all PROVE all[i][1] <= sheet
    <2>1. CASE i <= n
      <3>1. all[i][1] < sheet BY <1>1, <1>7, <2>1
      <3>2. all[i][1] \in Int
        <4>1. all[i] \in LoopPage BY <1>4, <1>5
        <4>2. QED BY <4>1, LoopsAssumption DEF LoopPage, SheetLimit
      <3>3. QED BY <1>1, <3>1, <3>2
    <2>2. CASE ~(i <= n) BY <1>1, <1>2, <1>7, <2>2
    <2>3. QED BY <2>1, <2>2
  <1>9. ASSUME NEW i \in DOMAIN all, NEW j \in DOMAIN all, i < j
        PROVE  Before(all[i], all[j])
    <2>1. i \in Nat /\ j \in Nat BY <1>2, <1>3, <1>5
    <2>2. CASE j <= n
      <3>1. i <= n BY <1>3, <1>9, <2>1, <2>2
      <3>2. QED BY <1>1, <1>7, <1>9, <2>2, <3>1 DEF Ordered
    <2>3. CASE ~(j <= n) /\ i <= n
      <3>1. all[i][1] < sheet /\ all[j][1] = sheet BY <1>1, <1>2, <1>7, <2>3
      <3>2. QED BY <3>1 DEF Before
    <2>4. CASE ~(j <= n) /\ ~(i <= n)
      <3>1. i - n < j - n BY <1>3, <1>9, <2>1
      <3>2. QED BY <1>2, <1>6, <1>7, <2>4, <3>1 DEF Ordered
    <2>5. QED BY <2>2, <2>3, <2>4
  <1>10. Ordered(all) BY <1>9 DEF Ordered
  <1>11. QED BY <1>4, <1>8, <1>10 DEF all

(* A command of the setup's own cleanup reads and scans nothing.              *)
LEMMA SetupUndoWell == CaptureWell /\ SetupUndo => CaptureWell'
  <1> SUFFICES ASSUME CaptureWell, SetupUndo PROVE CaptureWell'
    OBVIOUS
  <1>1. PICK command, sent, next :
           command \in {"discharge", "release"} /\ UndoNext(command, sent, next)
    BY DEF SetupUndo
  <1>2. /\ pc' \in {"out", pc}
        /\ UNCHANGED <<item, waiting, sent_reserve, sent_feed, chunks, stream, raising,
                       excused>>
    BY <1>1 DEF UndoNext
  <1>3. \/ UNCHANGED <<device, owed>>
        \/ \E outcome \in Outcome : Exchange(command, 0, outcome)
    BY <1>1 DEF UndoNext, Skip, Undo
  <1>4. /\ device' \in DeviceType /\ stream' \in Nat
        /\ ImageConserved' /\ StreamWithinLimit'
        /\ owed' \subseteq {"release", "discharge"}
    <2>1. CASE UNCHANGED <<device, owed>>
      <3>1. device \in DeviceType /\ stream \in Nat BY WellDevice
      <3>2. QED
        BY <1>2, <2>1, <3>1
        DEF CaptureWell, CaptureTypeOK, ImageConserved, StreamWithinLimit, ImageUnits,
            Sides
    <2>2. CASE \E outcome \in Outcome : Exchange(command, 0, outcome)
      <3>1. command # "scan" BY <1>1
      <3>2. PICK outcome \in Outcome : Exchange(command, 0, outcome) BY <2>2
      <3>3. QED BY <1>2, <3>1, <3>2, ExchangeKeepsImage
    <2>3. QED BY <1>3, <2>1, <2>2
  <1>5. /\ pc \in {"out", "plan", "read", "save", "clean", "returned", "raised"}
        /\ item \in 1 .. Len(Plan) /\ chunks \in 0 .. MaxChunks
        /\ waiting \in BOOLEAN /\ raising \in BOOLEAN /\ excused \in BOOLEAN
        /\ sent_reserve \in BOOLEAN /\ sent_feed \in BOOLEAN
        /\ pc = "plan" => stream = 0
        /\ pc = "read" /\ waiting => chunks < MaxChunks
    BY DEF CaptureWell, CaptureTypeOK
  <1>6. CleanItem' BY <1>2 DEF CaptureWell, CleanItem
  <1>7. QED BY <1>2, <1>4, <1>5, <1>6, WellAgain

(* The capture that a step of the tool contains, or what a setup does of one. *)
LEMMA ToolWell ==
  ASSUME LoopPagesInv, [Tool]_toolVars
  PROVE  CaptureWell' /\ (place' = "start" => stream' = 0)
  <1> USE DEF LoopPagesInv
  <1>1. CASE \/ Start \/ LoopDone \/ Assemble \/ AssembleFails \/ UNCHANGED toolVars
    <2>1. UNCHANGED captureVars
      BY <1>1 DEF Start, LoopDone, Assemble, AssembleFails, toolVars
    <2>2. place' = "start" => place = "start"
      BY <1>1 DEF Start, LoopDone, Assemble, AssembleFails, toolVars, loopVars, Goto
    <2>3. QED BY <2>1, <2>2, WellUnchanged DEF captureVars, PlaceTypes
  <1>2. CASE NextSheet BY <1>2, CallWell DEF NextSheet
  <1>3. CASE InCapture BY <1>3, CaptureKeepsWell DEF InCapture
  <1>4. CASE SheetCaptured \/ SingleCaptured \/ NoFrames \/ CaptureRaised
    <2>1. Leave("returned") \/ Leave("raised")
      BY <1>4 DEF SheetCaptured, SingleCaptured, NoFrames, CaptureRaised
    <2>2. place' # "start"
      BY <1>4 DEF SheetCaptured, Collect, SingleCaptured, NoFrames, CaptureRaised, Goto
    <2>3. QED BY <2>1, <2>2, LeaveWell
  <1>5. CASE StartSetup
    <2>1. /\ pc' = "plan" /\ stream = 0 /\ place' = "setup"
          /\ UNCHANGED <<item, waiting, sent_reserve, sent_feed, chunks, stream,
                         raising, device, owed, excused>>
      BY <1>5 DEF StartSetup, PlaceTypes, Goto
    <2>2. QED
      BY <2>1
      DEF CaptureWell, CaptureTypeOK, ImageConserved, StreamWithinLimit, CleanItem,
          ImageUnits, Sides
  <1>6. CASE SetupSend \/ SetupReply \/ SetupFails
    <2>1. Capture
      BY <1>6 DEF SetupSend, SetupReply, SetupFails, Capture
    <2>2. place' # "start"
      BY <1>6 DEF SetupSend, SetupReply, SetupFails, Goto, loopVars
    <2>3. QED BY <2>1, <2>2, CaptureKeepsWell
  <1>7. CASE SetupUndo
    <2>1. place' # "start"
      BY <1>7 DEF SetupUndo, UndoNext, Skip, Undo, Goto
    <2>2. QED BY <1>7, <2>1, SetupUndoWell
  <1>8. QED
    BY <1>1, <1>2, <1>3, <1>4, <1>5, <1>6, <1>7 DEF Tool

(* Where the tool is, and which sheet it is at.                               *)
LEMMA ToolPlaces ==
  ASSUME LoopPagesInv, [Tool]_toolVars
  PROVE  /\ mode' = mode /\ SheetLimit' = SheetLimit
         /\ place' \in {"start", "loop", "capture", "assemble", "setup", "discharge",
                        "release", "done", "error"}
         /\ sheet' \in 0 .. SheetLimit /\ sheet' >= sheet
         /\ place' = "capture" => sheet' > 0
  <1> USE DEF LoopPagesInv, PlaceTypes
  <1>1. mode' = mode /\ SheetLimit' = SheetLimit BY ModeStays DEF SheetLimit
  <1>2. sheet \in Nat /\ SheetLimit \in Nat
    BY LoopsAssumption DEF SheetLimit
  <1>3. CASE NextSheet
    <2>1. sheet < SheetLimit /\ sheet' = sheet + 1 /\ place' = "capture"
      BY <1>3 DEF NextSheet
    <2>2. QED BY <1>1, <1>2, <2>1
  <1>4. CASE ~NextSheet
    <2>1. sheet' = sheet
      BY <1>4
      DEF Tool, Start, InCapture, SheetCaptured, Collect, SingleCaptured, NoFrames,
          CaptureRaised, LoopDone, Assemble, AssembleFails, StartSetup, SetupSend,
          SetupReply, SetupFails, SetupUndo, UndoNext, Skip, Undo, Goto, toolVars, loopVars
    <2>2. place' \in {place, "loop", "assemble", "setup", "discharge", "release",
                      "done", "error"}
      <3>1. CASE \/ Start \/ InCapture \/ SheetCaptured \/ SingleCaptured \/ NoFrames
                 \/ CaptureRaised \/ LoopDone \/ Assemble \/ AssembleFails
                 \/ UNCHANGED toolVars
        BY <3>1
        DEF Start, InCapture, SheetCaptured, Collect, SingleCaptured, NoFrames,
            CaptureRaised, LoopDone, Assemble, AssembleFails, Goto, toolVars, loopVars
      <3>2. CASE StartSetup \/ SetupSend \/ SetupReply \/ SetupFails \/ SetupUndo
        BY <3>2
        DEF StartSetup, SetupSend, SetupReply, SetupFails, SetupUndo, UndoNext, Skip,
            Undo, Goto, loopVars
      <3>3. QED BY <1>4, <3>1, <3>2 DEF Tool
    <2>3. QED BY <1>1, <1>2, <2>1, <2>2
  <1>5. QED BY <1>3, <1>4

(* What is collected and what is written.                                     *)
LEMMA ToolPages ==
  ASSUME LoopPagesInv, [Tool]_toolVars
  PROVE  PageTypes' /\ PageOrder'
  <1> USE DEF LoopPagesInv
  <1>1. /\ mode' = mode /\ LoopPage' = LoopPage /\ sheet' >= sheet
        /\ sheet \in Nat /\ sheet' \in Nat
    <2>1. SheetLimit \in Nat BY LoopsAssumption DEF SheetLimit
    <2>2. QED BY <2>1, ToolPlaces DEF LoopPage, Sides, PlaceTypes
  <1>2. CASE SheetCaptured
    <2>1. /\ place = "capture" /\ place' = "loop" /\ UNCHANGED <<sheet, pdf>>
          /\ collected' = collected \o PagesOfSheet
      BY <1>2 DEF SheetCaptured, Collect
    <2>2. /\ collected' \in Seq(LoopPage) /\ Ordered(collected')
          /\ \A i \in DOMAIN collected' : collected'[i][1] <= sheet
      BY <2>1, CollectInOrder
    <2>3. PageTypes' BY <1>1, <2>1, <2>2 DEF PageTypes
    <2>4. CollectedBehind' BY <2>1, <2>2 DEF CollectedBehind
    <2>5. QED BY <2>1, <2>2, <2>3, <2>4 DEF PageOrder, Ordered
  <1>3. CASE ~SheetCaptured
    <2>1. collected' = collected
      BY <1>3
      DEF Tool, Start, NextSheet, InCapture, SingleCaptured, NoFrames, CaptureRaised,
          LoopDone, Assemble, AssembleFails, StartSetup, SetupSend, SetupReply,
          SetupFails, SetupUndo, UndoNext, Skip, Undo, Goto, toolVars, loopVars
    <2>2. pdf' \in Seq(LoopPage) /\ Ordered(pdf')
      <3>1. CASE InCapture /\ mode = "sheet" /\ Save
        <4>1. pdf' = PagesOfSheet /\ sheet > 0
          BY <3>1 DEF InCapture, PlaceTypes
        <4>2. QED BY <4>1, SheetInOrder
      <3>2. CASE Assemble
        <4>1. PICK kept \in KeptPages :
                 IF kept = <<>> THEN Goto("error") ELSE pdf' = kept
          BY <3>2 DEF Assemble
        <4>2. pdf' \in {kept, pdf} BY <4>1 DEF Goto
        <4>3. QED BY <4>2, KeptInOrder DEF PageTypes, PageOrder
      <3>3. CASE ~Assemble /\ ~(InCapture /\ mode = "sheet" /\ Save)
        <4>1. pdf' = pdf
          BY <1>3, <3>3
          DEF Tool, Start, NextSheet, InCapture, SingleCaptured, NoFrames,
              CaptureRaised, LoopDone, AssembleFails, StartSetup, SetupSend,
              SetupReply, SetupFails, SetupUndo, UndoNext, Skip, Undo, Goto, toolVars,
              loopVars
        <4>2. QED BY <4>1 DEF PageTypes, PageOrder
      <3>4. QED BY <3>1, <3>2, <3>3
    <2>3. PageTypes' BY <1>1, <2>1, <2>2 DEF PageTypes
    <2>4. CollectedBehind'
      <3>1. place' = "capture" => place = "capture" \/ sheet' = sheet + 1
        BY <1>3
        DEF Tool, Start, NextSheet, InCapture, SingleCaptured, NoFrames, CaptureRaised,
            LoopDone, Assemble, AssembleFails, StartSetup, SetupSend, SetupReply,
            SetupFails, SetupUndo, UndoNext, Skip, Undo, Goto, toolVars, loopVars
      <3>2. ASSUME NEW i \in DOMAIN collected
            PROVE  /\ collected[i][1] <= sheet'
                   /\ place' = "capture" => collected[i][1] < sheet'
        <4>1. /\ collected[i][1] <= sheet
              /\ place = "capture" => collected[i][1] < sheet
          BY DEF PageOrder, CollectedBehind
        <4>2. collected[i][1] \in Int
          <5>1. collected[i] \in LoopPage BY DEF PageTypes
          <5>2. QED BY <5>1, LoopsAssumption DEF LoopPage, SheetLimit
        <4>3. QED BY <1>1, <3>1, <4>1, <4>2
      <3>3. QED BY <2>1, <3>2 DEF CollectedBehind
    <2>5. QED BY <2>1, <2>2, <2>3, <2>4 DEF PageOrder, Ordered
  <1>4. QED BY <1>2, <1>3

(* The inductive invariant of the tool's pages, for all four ways to call it. *)
THEOREM LoopPagesInvariant == LoopsSpec => []LoopPagesInv
  <1>1. LoopsInit => LoopPagesInv
    <2> SUFFICES ASSUME LoopsInit PROVE LoopPagesInv
      OBVIOUS
    <2>1. CaptureWell BY InitWell DEF LoopsInit
    <2>2. PlaceTypes
      BY LoopsAssumption DEF LoopsInit, CaptureInit, PlaceTypes, SheetLimit
    <2>3. PageTypes BY DEF LoopsInit, PageTypes
    <2>4. PageOrder BY DEF LoopsInit, PageOrder, Ordered, CollectedBehind
    <2>5. QED BY <2>1, <2>2, <2>3, <2>4 DEF LoopPagesInv
  <1>2. LoopPagesInv /\ [Tool]_toolVars => LoopPagesInv'
    <2> SUFFICES ASSUME LoopPagesInv, [Tool]_toolVars PROVE LoopPagesInv'
      OBVIOUS
    <2>1. mode' \in Modes BY ToolPlaces DEF LoopPagesInv, PlaceTypes
    <2>2. PlaceTypes' BY <2>1, ToolPlaces, ToolWell DEF PlaceTypes
    <2>3. QED BY <2>2, ToolWell, ToolPages DEF LoopPagesInv
  <1>3. QED BY <1>1, <1>2, PTL DEF LoopsSpec

(* Type correctness; no page is of a sheet or a side that does not exist.     *)
THEOREM LoopsTyping == LoopsSpec => []LoopsTypeOK
  <1>1. LoopPagesInv => LoopsTypeOK
    BY DEF LoopPagesInv, CaptureWell, PlaceTypes, PageTypes, LoopPage, LoopsTypeOK
  <1>2. QED BY <1>1, LoopPagesInvariant, PTL

(* The output file has its pages in the order of the paper, front before      *)
(* back, each once, for any number of sheets and whatever was left out.       *)
THEOREM PagesInOrder == LoopsSpec => []PdfInOrder
  <1>1. LoopPagesInv => PdfInOrder
    BY DEF LoopPagesInv, PageOrder, Ordered, Before, PdfInOrder
  <1>2. QED BY <1>1, LoopPagesInvariant, PTL

----------------------------------------------------------------------------
(* The end: what ToolEnds rests on besides fairness.                          *)

\* How many sheets the tool can still begin, and how many steps it can take at
\* most before the next.
SheetsAhead == SheetLimit - sheet
StepsInSheet ==
    CASE place = "start" -> 5 + CaptureMost
      [] place \in {"capture", "setup"} -> 4 + CaptureAhead
      [] place = "loop" -> 3
      [] place \in {"assemble", "discharge"} -> 2
      [] place = "release" -> 1
      [] OTHER -> 0
Nearer ==
    \/ SheetsAhead' < SheetsAhead
    \/ SheetsAhead' = SheetsAhead /\ StepsInSheet' < StepsInSheet

(* The tool cannot run for ever: each of its steps leaves it fewer sheets, or *)
(* as many and fewer steps in this one.                                       *)
ToolStepsFall == [][Nearer]_toolVars

(* What one step leaves of sheets and steps.                                  *)
LEMMA ToolNearer ==
  ASSUME LoopPagesInv, Tool
  PROVE  Nearer
  <1> USE DEF LoopPagesInv
  <1>1. /\ sheet \in 0 .. SheetLimit /\ SheetLimit \in Nat /\ SheetLimit' = SheetLimit
        /\ CaptureAhead \in 0 .. CaptureMost /\ CaptureMost \in Nat
        /\ CaptureAhead' \in 0 .. CaptureMost
    <2>1. SheetLimit' = SheetLimit /\ CaptureWell' BY ToolPlaces, ToolWell
    <2>2. QED
      BY <2>1, LoopsAssumption, CaptureAssumption, AheadBounded, AheadPrimed
      DEF PlaceTypes, SheetLimit, CaptureMost
  <1>2. CaptureAhead \in Nat /\ CaptureAhead' \in Nat BY <1>1
  <1>3. CASE NextSheet
    BY <1>1, <1>3 DEF NextSheet, Nearer, SheetsAhead
  <1>4. CASE ~NextSheet
    <2>1. sheet' = sheet
      BY <1>4
      DEF Tool, Start, InCapture, SheetCaptured, Collect, SingleCaptured, NoFrames,
          CaptureRaised, LoopDone, Assemble, AssembleFails, StartSetup, SetupSend,
          SetupReply, SetupFails, SetupUndo, UndoNext, Skip, Undo, Goto, toolVars, loopVars
    <2>2. SheetsAhead' = SheetsAhead BY <1>1, <2>1 DEF SheetsAhead
    <2>3. SUFFICES StepsInSheet' < StepsInSheet BY <2>2 DEF Nearer
    <2>4. /\ place = "start" => StepsInSheet = 5 + CaptureMost
          /\ place \in {"capture", "setup"} => StepsInSheet = 4 + CaptureAhead
          /\ place = "loop" => StepsInSheet = 3
          /\ place \in {"assemble", "discharge"} => StepsInSheet = 2
          /\ place = "release" => StepsInSheet = 1
      BY DEF StepsInSheet
    <2>5. /\ place' \in {"capture", "setup"} => StepsInSheet' = 4 + CaptureAhead'
          /\ place' = "loop" => StepsInSheet' = 3
          /\ place' \in {"assemble", "discharge"} => StepsInSheet' = 2
          /\ place' = "release" => StepsInSheet' = 1
          /\ place' \in {"done", "error"} => StepsInSheet' = 0
      BY DEF StepsInSheet
    <2>6. ASSUME Capture PROVE CaptureAhead' < CaptureAhead
      BY <2>6, CaptureFalls
    <2>7. CASE InCapture \/ SetupSend
      <3>1. /\ place \in {"capture", "setup"} /\ place' = place
            /\ CaptureAhead' < CaptureAhead
        BY <2>6, <2>7 DEF InCapture, SetupSend, Capture, loopVars
      <3>2. QED BY <1>2, <2>4, <2>5, <3>1
    <2>8. CASE SetupReply \/ SetupFails
      <3>1. /\ place = "setup" /\ place' \in {"setup", "discharge"}
            /\ CaptureAhead' < CaptureAhead
        BY <2>6, <2>8 DEF SetupReply, SetupFails, Capture, Goto
      <3>2. QED BY <1>2, <2>4, <2>5, <3>1
    <2>9. CASE SheetCaptured \/ SingleCaptured \/ NoFrames \/ CaptureRaised
      <3>1. place = "capture" /\ place' \in {"loop", "assemble", "done", "error"}
        BY <2>9 DEF SheetCaptured, Collect, SingleCaptured, NoFrames, CaptureRaised, Goto
      <3>2. QED BY <1>2, <2>4, <2>5, <3>1
    <2>10. CASE Start \/ StartSetup
      <3>1. place = "start" /\ place' \in {"loop", "error", "setup"}
        BY <2>10 DEF Start, StartSetup, Goto
      <3>2. QED BY <1>1, <1>2, <2>4, <2>5, <3>1
    <2>11. CASE LoopDone \/ Assemble \/ AssembleFails
      <3>1. \/ place = "loop" /\ place' = "assemble"
            \/ place = "assemble" /\ place' \in {"done", "error"}
        BY <2>11 DEF LoopDone, Assemble, AssembleFails, Goto
      <3>2. QED BY <2>4, <2>5, <3>1
    <2>12. CASE SetupUndo
      <3>1. \/ place = "discharge" /\ place' \in {"release", "error"}
            \/ place = "release" /\ place' \in {"done", "error"}
        BY <2>12 DEF SetupUndo, UndoNext, Skip, Undo, Goto
      <3>2. QED BY <2>4, <2>5, <3>1
    <2>13. QED BY <1>4, <2>7, <2>8, <2>9, <2>10, <2>11, <2>12 DEF Tool
  <1>5. QED BY <1>3, <1>4

(* For any number of sheets and reads, and each way to call it: what is left  *)
(* of an invocation only falls, and is never negative.                        *)
THEOREM ToolCannotLoop ==
  LoopsSpec =>
      /\ [](SheetsAhead \in 0 .. SheetLimit /\ StepsInSheet \in 0 .. 5 + CaptureMost)
      /\ ToolStepsFall
  <1>1. LoopPagesInv =>
          SheetsAhead \in 0 .. SheetLimit /\ StepsInSheet \in 0 .. 5 + CaptureMost
    <2> SUFFICES ASSUME LoopPagesInv
                 PROVE  /\ SheetsAhead \in 0 .. SheetLimit
                        /\ StepsInSheet \in 0 .. 5 + CaptureMost
      OBVIOUS
    <2>1. /\ sheet \in 0 .. SheetLimit /\ SheetLimit \in Nat
          /\ CaptureAhead \in 0 .. CaptureMost /\ MaxChunks \in Nat
      BY LoopsAssumption, CaptureAssumption, AheadBounded
      DEF LoopPagesInv, PlaceTypes, SheetLimit
    <2>2. QED BY <2>1 DEF SheetsAhead, StepsInSheet, CaptureMost
  <1>2. LoopPagesInv /\ [Tool]_toolVars => Nearer \/ UNCHANGED toolVars
    BY ToolNearer
  <1>3. QED BY <1>1, <1>2, LoopPagesInvariant, PTL DEF LoopsSpec, ToolStepsFall

=============================================================================
