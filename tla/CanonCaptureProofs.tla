------------------------- MODULE CanonCaptureProofs -------------------------
(***************************************************************************)
(* What every step of a capture keeps true, whoever runs the capture and   *)
(* whatever else talks to the scanner: the stream stays within max_bytes,  *)
(* and what the scanner is owed is what the flags will make the cleanup    *)
(* attempt; and no capture goes on for ever.  The proofs about CanonBackend*)
(* and ScanLoops rest on it.                                               *)
(***************************************************************************)
EXTENDS CanonCapture, SequenceTheorems, TLAPS

\* What the scanner can be, without the bound on what it has left to send.
DeviceType ==
    [reserved : BOOLEAN, fed : BOOLEAN, hopper : 0 .. Hopper, size : SideSizes,
     unread : Nat]

CaptureTypes ==
    /\ stream \in Nat /\ item \in Nat
    /\ device \in DeviceType
    /\ owed \subseteq {"release", "discharge"}
    /\ excused \in BOOLEAN /\ sent_feed \in BOOLEAN /\ sent_reserve \in BOOLEAN

\* While a capture is under way, what the scanner is owed is what the flags
\* will make the cleanup send, and the cleanup has not passed it yet.
DebtKnown ==
    ~excused =>
        /\ "release" \in owed =>
              sent_reserve /\ pc \in {"plan", "read", "save", "clean"}
        /\ "discharge" \in owed =>
              /\ sent_feed
              /\ pc \in {"plan", "read", "save"} \/ (pc = "clean" /\ item <= 2)

CleanItem == pc = "clean" => item \in 1 .. Len(Cleanup(sent_feed, sent_reserve))

CaptureInv == CaptureTypes /\ StreamWithinLimit /\ DebtKnown /\ CleanItem

(* Arithmetic of the image size.                                              *)
LEMMA ImageUnitsNat == \A size \in SideSizes : ImageUnits(size) \in Nat
  BY CaptureAssumption, SMT DEF ImageUnits, Sides

(* The list of best_effort_cleanup has the discharge second, if the feed was  *)
(* sent, and the RELEASE last, if the RESERVE was.                            *)
LEMMA CleanupShape ==
  ASSUME NEW feed \in BOOLEAN, NEW reserve \in BOOLEAN
  PROVE  LET commands == Cleanup(feed, reserve) IN
         /\ Len(commands) = 1 + (IF feed THEN 1 ELSE 0) + (IF reserve THEN 1 ELSE 0)
         /\ feed => commands[2] = "discharge"
         /\ reserve => commands[Len(commands)] = "release"
         /\ \A i \in 1 .. Len(commands) :
               commands[i] \in {"cancel", "discharge", "release"}
  <1> DEFINE Command == {"cancel", "discharge", "release"}
             first == <<"cancel">>
             second == IF feed THEN <<"discharge">> ELSE <<>>
             third == IF reserve THEN <<"release">> ELSE <<>>
             both == first \o second
  <1>1. /\ first \in Seq(Command) /\ Len(first) = 1
        /\ second \in Seq(Command) /\ Len(second) = (IF feed THEN 1 ELSE 0)
        /\ third \in Seq(Command) /\ Len(third) = (IF reserve THEN 1 ELSE 0)
        /\ feed => second[1] = "discharge"
        /\ reserve => third[1] = "release"
    <2>1. first \in Seq(Command) /\ Len(first) = 1 OBVIOUS
    <2>2. /\ second \in Seq(Command) /\ Len(second) = (IF feed THEN 1 ELSE 0)
          /\ feed => second[1] = "discharge"
      <3>1. CASE feed BY <3>1
      <3>2. CASE ~feed BY <3>2
      <3>3. QED BY <3>1, <3>2
    <2>3. /\ third \in Seq(Command) /\ Len(third) = (IF reserve THEN 1 ELSE 0)
          /\ reserve => third[1] = "release"
      <3>1. CASE reserve BY <3>1
      <3>2. CASE ~reserve BY <3>2
      <3>3. QED BY <3>1, <3>2
    <2>4. QED BY <2>1, <2>2, <2>3
  <1> HIDE DEF first, second, third, Command
  <1>2. /\ both \in Seq(Command)
        /\ Len(both) = 1 + (IF feed THEN 1 ELSE 0)
        /\ feed => both[2] = "discharge"
    BY <1>1, ConcatProperties
  <1> HIDE DEF both
  <1>3. /\ both \o third \in Seq(Command)
        /\ Len(both \o third) = Len(both) + Len(third)
        /\ \A i \in 1 .. Len(both) + Len(third) :
              (both \o third)[i] = IF i <= Len(both) THEN both[i]
                                   ELSE third[i - Len(both)]
    BY <1>1, <1>2, ConcatProperties
  <1>4. Cleanup(feed, reserve) = both \o third
    BY DEF Cleanup, both, first, second, third
  <1>5. /\ feed => (both \o third)[2] = "discharge"
        /\ reserve => (both \o third)[Len(both \o third)] = "release"
    BY <1>1, <1>2, <1>3
  <1>6. \A i \in 1 .. Len(both \o third) : (both \o third)[i] \in Command
    BY <1>3
  <1>7. QED BY <1>1, <1>2, <1>3, <1>4, <1>5, <1>6 DEF Command

(* One command carried out: the scanner stays a scanner, only RESERVE         *)
(* reserves it, only a feed feeds it, and a READ yields what was asked for.   *)
LEMMA CarriedEffect ==
  ASSUME NEW command, NEW want \in Nat,
         device \in DeviceType, Carried(command, want)
  PROVE  /\ device' \in DeviceType
         /\ command = "reserve" \/ device'.reserved \in {device.reserved, FALSE}
         /\ command = "feed" \/ device'.fed \in {device.fed, FALSE}
         /\ command = "read" => device.unread - device'.unread \in 0 .. want
  <1> DEFINE Goal ==
        /\ device' \in DeviceType
        /\ command = "reserve" \/ device'.reserved \in {device.reserved, FALSE}
        /\ command = "feed" \/ device'.fed \in {device.fed, FALSE}
        /\ command = "read" => device.unread - device'.unread \in 0 .. want
  <1>0. device.unread \in Nat
    BY DEF DeviceType
  <1>1. ASSUME command \in Settings, device' = device PROVE Goal
    BY <1>1 DEF Settings
  <1>2. ASSUME command = "reserve", device' = [device EXCEPT !.reserved = TRUE]
        PROVE Goal
    BY <1>2 DEF DeviceType
  <1>3. ASSUME command = "release", device' = [device EXCEPT !.reserved = FALSE]
        PROVE Goal
    BY <1>3 DEF DeviceType
  <1>4. ASSUME command = "feed",
               device' = IF device.hopper > 0 /\ ~device.fed
                         THEN [device EXCEPT !.fed = TRUE, !.hopper = @ - 1]
                         ELSE device
        PROVE Goal
    <2>1. CASE device.hopper > 0 /\ ~device.fed
      <3>1. device' = [device EXCEPT !.fed = TRUE, !.hopper = device.hopper - 1]
        BY <1>4, <2>1
      <3>2. device.hopper \in 0 .. Hopper /\ device.hopper - 1 \in 0 .. Hopper
        BY <2>1, CaptureAssumption DEF DeviceType
      <3>3. QED BY <1>4, <3>1, <3>2 DEF DeviceType
    <2>2. CASE ~(device.hopper > 0 /\ ~device.fed)
      <3>1. device' = device BY <1>4, <2>2
      <3>2. QED BY <1>4, <3>1
    <2>3. QED BY <2>1, <2>2
  <1>5. ASSUME command = "scan", NEW size \in SideSizes,
               device' = IF device.fed
                         THEN [device EXCEPT !.size = size, !.unread = ImageUnits(size)]
                         ELSE device
        PROVE Goal
    BY <1>5, ImageUnitsNat DEF DeviceType
  <1>6. ASSUME command = "read", NEW left \in 0 .. device.unread,
               device.unread - left <= want, device' = [device EXCEPT !.unread = left]
        PROVE Goal
    BY <1>6, <1>0 DEF DeviceType
  <1>7. ASSUME command = "cancel", device' = [device EXCEPT !.unread = 0] PROVE Goal
    BY <1>7, <1>0 DEF DeviceType
  <1>8. ASSUME command = "discharge",
               device' = [device EXCEPT !.fed = FALSE, !.unread = 0]
        PROVE Goal
    BY <1>8, <1>0 DEF DeviceType
  <1>9. QED
    <2> HIDE DEF Goal
    <2>1. Goal BY <1>1, <1>2, <1>3, <1>4, <1>5, <1>6, <1>7, <1>8 DEF Carried
    <2>2. QED BY <2>1 DEF Goal

(* One command, whatever its fate: only RESERVE and a feed make a debt, and   *)
(* an attempt pays it, answered or not.                                       *)
LEMMA ExchangeEffect ==
  ASSUME NEW command, NEW want \in Nat, NEW outcome,
         device \in DeviceType, owed \subseteq {"release", "discharge"},
         Exchange(command, want, outcome)
  PROVE  /\ device' \in DeviceType
         /\ owed' \subseteq {"release", "discharge"}
         /\ "release" \in owed' =>
               command = "reserve" \/ ("release" \in owed /\ command # "release")
         /\ "discharge" \in owed' =>
               command = "feed" \/ ("discharge" \in owed /\ command # "discharge")
         /\ command = "read" => device.unread - device'.unread \in 0 .. want
  <1>1. Carried(command, want) \/ device' = device
    BY DEF Exchange
  <1>2. /\ device' \in DeviceType
        /\ command = "reserve" \/ device'.reserved \in {device.reserved, FALSE}
        /\ command = "feed" \/ device'.fed \in {device.fed, FALSE}
        /\ command = "read" => device.unread - device'.unread \in 0 .. want
    <2>1. CASE device' = device
      <3>1. device.unread - device.unread \in 0 .. want
        BY DEF DeviceType
      <3>2. QED BY <2>1, <3>1
    <2>2. CASE Carried(command, want) BY <2>2, CarriedEffect
    <2>3. QED BY <1>1, <2>1, <2>2
  <1> DEFINE reserves == device'.reserved /\ ~device.reserved
             feeds == device'.fed /\ ~device.fed
  <1>3. /\ reserves => command = "reserve"
        /\ feeds => command = "feed"
    BY <1>2
  <1>4. owed' = (owed \ {command}) \cup (IF reserves THEN {"release"} ELSE {})
                                   \cup (IF feeds THEN {"discharge"} ELSE {})
    BY DEF Exchange
  <1> HIDE DEF reserves, feeds
  <1>5. QED BY <1>2, <1>3, <1>4

----------------------------------------------------------------------------
(* Every step of a capture keeps the invariant, whatever the step of a DELETE *)
(* or of a probe did to the scanner before it.                                *)
LEMMA CallKeeps == CaptureInv /\ Call => CaptureInv'
  <1> SUFFICES ASSUME CaptureInv, Call PROVE CaptureInv'
    OBVIOUS
  <1> USE DEF CaptureInv, CaptureTypes
  <1>1. excused' = (owed # {}) /\ owed' = owed
    BY DEF Call
  <1>2. excused' \in BOOLEAN BY <1>1
  <1>3. DebtKnown' BY <1>1 DEF DebtKnown
  <1>4. stream' \in Nat /\ stream' <= MaxUnits /\ item' \in Nat
    <2>1. stream' = 0 /\ item' = 1 BY DEF Call
    <2>2. QED BY <2>1, CaptureAssumption
  <1>5. /\ device' \in DeviceType /\ owed' \subseteq {"release", "discharge"}
        /\ sent_feed' \in BOOLEAN /\ sent_reserve' \in BOOLEAN
    BY DEF Call
  <1>6. pc' \in {"plan", "raised"} BY DEF Call
  <1>7. QED BY <1>2, <1>3, <1>4, <1>5, <1>6 DEF StreamWithinLimit, CleanItem

(* A reply sets the flag its command has earned; a lost one that changed the  *)
(* scanner is excused.                                                        *)
LEMMA PlanKeeps == CaptureInv /\ (PlanReply \/ PlanFails) => CaptureInv'
  <1> SUFFICES ASSUME CaptureInv, PlanReply \/ PlanFails PROVE CaptureInv'
    OBVIOUS
  <1> USE DEF CaptureInv, CaptureTypes
  <1>1. CASE PlanReply
    <2>1. /\ device' \in DeviceType /\ owed' \subseteq {"release", "discharge"}
          /\ "release" \in owed' => Plan[item] = "reserve" \/ "release" \in owed
          /\ "discharge" \in owed' => Plan[item] = "feed" \/ "discharge" \in owed
      BY <1>1, ExchangeEffect DEF PlanReply
    <2>2. CaptureTypes' BY <1>1, <2>1 DEF PlanReply
    <2>3. pc' \in {"plan", "read"} BY <1>1 DEF PlanReply
    <2>4. DebtKnown'
      <3>1. /\ excused' = excused /\ pc = "plan"
            /\ sent_reserve' = (sent_reserve \/ Plan[item] = "reserve")
            /\ sent_feed' = (sent_feed \/ Plan[item] = "feed")
        BY <1>1 DEF PlanReply, Answered
      <3>2. ~excused /\ "release" \in owed' => sent_reserve'
        BY <2>1, <3>1 DEF DebtKnown
      <3>3. ~excused /\ "discharge" \in owed' => sent_feed'
        BY <2>1, <3>1 DEF DebtKnown
      <3>4. QED BY <2>3, <3>1, <3>2, <3>3 DEF DebtKnown
    <2>5. QED
      BY <1>1, <2>2, <2>3, <2>4 DEF PlanReply, StreamWithinLimit, CleanItem
  <1>2. CASE PlanFails
    <2>1. device' \in DeviceType /\ owed' \subseteq {"release", "discharge"}
      BY <1>2, ExchangeEffect DEF PlanFails
    <2>2. CaptureTypes' BY <1>2, <2>1 DEF PlanFails, ToFinally
    <2>3. DebtKnown' BY <1>2 DEF PlanFails, ToFinally, Answered, DebtKnown
    <2>4. QED
      BY <1>2, <2>2, <2>3 DEF PlanFails, ToFinally, StreamWithinLimit, CleanItem
  <1>3. QED BY <1>1, <1>2

(* A READ adds no more than was asked for, and no more is asked for than      *)
(* max_bytes has room for.                                                    *)
LEMMA ReadKeeps == CaptureInv /\ (ReadReply \/ ReadFails \/ ReadStop) => CaptureInv'
  <1> SUFFICES ASSUME CaptureInv, ReadReply \/ ReadFails \/ ReadStop PROVE CaptureInv'
    OBVIOUS
  <1> USE DEF CaptureInv, CaptureTypes
  <1>1. Want \in Nat /\ Want <= MaxUnits - stream
    BY CaptureAssumption DEF Want, StreamWithinLimit
  <1>2. CASE ReadReply
    <2>1. /\ device' \in DeviceType /\ owed' \subseteq owed
          /\ device.unread - device'.unread \in 0 .. Want
      <3>1. Exchange("read", Want, "reply") BY <1>2 DEF ReadReply
      <3>2. QED BY <1>1, <3>1, ExchangeEffect
    <2>2. /\ pc = "read" /\ pc' \in {"read", "save"}
          /\ stream' = stream + (device.unread - device'.unread)
          /\ UNCHANGED <<item, excused, sent_reserve, sent_feed>>
      BY <1>2 DEF ReadReply, ToFinally, Answered
    <2>3. stream' \in Nat /\ stream' <= MaxUnits
      BY <1>1, <2>1, <2>2, CaptureAssumption
    <2>4. QED BY <2>1, <2>2, <2>3 DEF StreamWithinLimit, DebtKnown, CleanItem
  <1>3. CASE ReadFails
    <2>1. device' \in DeviceType /\ owed' \subseteq owed
      <3>1. PICK outcome : Exchange("read", Want, outcome) BY <1>3 DEF ReadFails
      <3>2. /\ device' \in DeviceType /\ owed' \subseteq {"release", "discharge"}
            /\ "release" \in owed' => "release" \in owed
            /\ "discharge" \in owed' => "discharge" \in owed
        BY <1>1, <3>1, ExchangeEffect
      <3>3. QED BY <3>2
    <2>2. /\ pc = "read" /\ pc' = "save"
          /\ UNCHANGED <<item, stream, excused, sent_reserve, sent_feed>>
      BY <1>3 DEF ReadFails, ToFinally, Answered
    <2>3. QED BY <2>1, <2>2 DEF StreamWithinLimit, DebtKnown, CleanItem
  <1>4. CASE ReadStop
    BY <1>4 DEF ReadStop, ToFinally, StreamWithinLimit, DebtKnown, CleanItem
  <1>5. QED BY <1>2, <1>3, <1>4

(* The cleanup starts at its first command, or is lost with the file.         *)
LEMMA SaveKeeps == CaptureInv /\ (Save \/ SaveFails) => CaptureInv'
  <1> SUFFICES ASSUME CaptureInv, Save \/ SaveFails PROVE CaptureInv'
    OBVIOUS
  <1> USE DEF CaptureInv, CaptureTypes
  <1>1. Len(Cleanup(sent_feed, sent_reserve)) \in Nat \ {0}
    BY CleanupShape
  <1>2. CASE Save
    BY <1>1, <1>2 DEF Save, StreamWithinLimit, DebtKnown, CleanItem
  <1>3. CASE SaveFails
    BY <1>3 DEF SaveFails, StreamWithinLimit, DebtKnown, CleanItem
  <1>4. QED BY <1>2, <1>3

(* The cleanup leaves its discharge, and then its RELEASE, behind it only     *)
(* after it has attempted them.                                               *)
LEMMA CleanKeeps == CaptureInv /\ (CleanReply \/ CleanFails) => CaptureInv'
  <1> SUFFICES ASSUME CaptureInv, CleanReply \/ CleanFails PROVE CaptureInv'
    OBVIOUS
  <1> DEFINE commands == Cleanup(sent_feed, sent_reserve)
  <1> USE DEF CaptureInv, CaptureTypes
  <1>1. /\ Len(commands) = 1 + (IF sent_feed THEN 1 ELSE 0)
                             + (IF sent_reserve THEN 1 ELSE 0)
        /\ sent_feed => commands[2] = "discharge"
        /\ sent_reserve => commands[Len(commands)] = "release"
        /\ \A i \in 1 .. Len(commands) :
              commands[i] \in {"cancel", "discharge", "release"}
    BY CleanupShape
  <1>2. pc = "clean" /\ item \in 1 .. Len(commands)
    BY DEF CleanReply, CleanFails, Answered, CleanItem
  <1>3. commands[item] \notin {"reserve", "feed"}
    BY <1>1, <1>2
  <1>4. /\ device' \in DeviceType /\ owed' \subseteq owed
        /\ "release" \in owed' => commands[item] # "release"
        /\ "discharge" \in owed' => commands[item] # "discharge"
    BY <1>3, ExchangeEffect DEF CleanReply, CleanFails
  <1>5. CASE CleanFails
    BY <1>4, <1>5 DEF CleanFails, StreamWithinLimit, DebtKnown, CleanItem
  <1>6. CASE CleanReply /\ item < Len(commands)
    <2>1. /\ pc' = "clean" /\ item' = item + 1
          /\ UNCHANGED <<sent_reserve, sent_feed, stream, excused>>
      BY <1>6 DEF CleanReply
    <2>2. CleanItem'
      <3>1. item' \in 1 .. Len(commands) BY <1>2, <1>6, <2>1, <1>1
      <3>2. QED BY <2>1, <3>1 DEF CleanItem
    <2>3. ~excused /\ "discharge" \in owed' => item = 1 /\ sent_feed
      BY <1>1, <1>2, <1>4 DEF DebtKnown
    <2>4. DebtKnown' BY <1>2, <1>4, <2>1, <2>3 DEF DebtKnown
    <2>5. QED BY <1>4, <2>1, <2>2, <2>4 DEF StreamWithinLimit
  <1>7. CASE CleanReply /\ ~(item < Len(commands))
    <2>1. /\ pc' # "clean" /\ item' = 1
          /\ UNCHANGED <<sent_reserve, sent_feed, stream, excused>>
      BY <1>7 DEF CleanReply
    <2>2. item = Len(commands) BY <1>1, <1>2, <1>7
    <2>3. ~excused => "release" \notin owed'
      BY <1>1, <1>4, <2>2 DEF DebtKnown
    <2>4. ~excused => "discharge" \notin owed'
      <3>1. sent_feed => Len(commands) >= 2 BY <1>1
      <3>2. QED BY <1>1, <1>2, <1>4, <2>2, <3>1 DEF DebtKnown
    <2>5. QED BY <1>4, <2>1, <2>3, <2>4 DEF StreamWithinLimit, DebtKnown, CleanItem
  <1>8. QED BY <1>5, <1>6, <1>7

(* One step of execute_scan_capture.                                          *)
LEMMA CaptureKeeps == CaptureInv /\ Capture => CaptureInv'
  <1>1. CaptureInv /\ Send => CaptureInv'
    BY DEF Send, CaptureInv, CaptureTypes, StreamWithinLimit, DebtKnown, CleanItem
  <1>2. QED
    BY <1>1, PlanKeeps, ReadKeeps, SaveKeeps, CleanKeeps DEF Capture

(* Returning and raising keep it, too.                                        *)
LEMMA LeaveKeeps ==
  ASSUME NEW how \in {"returned", "raised"}, CaptureInv, Leave(how)
  PROVE  CaptureInv'
  BY DEF Leave, CaptureInv, CaptureTypes, StreamWithinLimit, DebtKnown, CleanItem

(* Steps of others leave it alone.                                            *)
LEMMA CaptureUnchanged == CaptureInv /\ UNCHANGED captureVars => CaptureInv'
  BY DEF captureVars, CaptureInv, CaptureTypes, StreamWithinLimit, DebtKnown, CleanItem

(* Nothing is owed at the start.                                              *)
LEMMA InitCaptureInv == CaptureInit => CaptureInv
  <1> SUFFICES ASSUME CaptureInit PROVE CaptureInv
    OBVIOUS
  <1> USE DEF CaptureInit
  <1>1. device \in DeviceType
    <2>1. Hopper \in 0 .. Hopper BY CaptureAssumption
    <2>2. PICK size \in SideSizes :
             device = [reserved |-> FALSE, fed |-> FALSE, hopper |-> Hopper,
                       size |-> size, unread |-> 0]
      OBVIOUS
    <2>3. QED BY <2>1, <2>2 DEF DeviceType
  <1>2. CaptureTypes BY <1>1 DEF CaptureTypes
  <1>3. StreamWithinLimit BY CaptureAssumption DEF StreamWithinLimit
  <1>4. DebtKnown /\ CleanItem BY DEF DebtKnown, CleanItem
  <1>5. QED BY <1>2, <1>3, <1>4 DEF CaptureInv

----------------------------------------------------------------------------
(* The sizes: what a capture has received and what the scanner still has of   *)
(* the image are never more than the image.                                   *)

\* The sum is what is inductive: its parts alone are not, for a READ moves
\* units from one to the other.
ImageConserved == stream + device.unread <= ImageUnits(device.size)

\* Unlike CaptureInv it says nothing of debts, and so holds in a setup, too.
CaptureWell ==
    /\ CaptureTypeOK /\ ImageConserved /\ StreamWithinLimit /\ CleanItem
    /\ pc = "plan" => stream = 0
    /\ pc = "read" /\ waiting => chunks < MaxChunks

(* The plan has eight commands, or nine.                                      *)
LEMMA PlanLength == Len(Plan) \in Nat /\ Len(Plan) >= 8
  <1>1. CASE Duplex BY <1>1 DEF Plan
  <1>2. CASE ~Duplex BY <1>2 DEF Plan
  <1>3. QED BY <1>1, <1>2

(* The cleanup has at most three.                                             *)
LEMMA CleanupLength ==
  ASSUME NEW feed \in BOOLEAN, NEW reserve \in BOOLEAN
  PROVE  Len(Cleanup(feed, reserve)) \in 1 .. 3
  <1>1. Len(Cleanup(feed, reserve)) = 1 + (IF feed THEN 1 ELSE 0)
                                        + (IF reserve THEN 1 ELSE 0)
    BY CleanupShape
  <1>2. QED BY <1>1

(* A scanner that has no more to send than fits the image is well typed.      *)
LEMMA DeviceTyped ==
  ASSUME NEW d \in DeviceType, NEW units \in Nat,
         units + d.unread <= ImageUnits(d.size)
  PROVE  /\ d \in [reserved : BOOLEAN, fed : BOOLEAN, hopper : 0 .. Hopper,
                   size : SideSizes, unread : 0 .. ImageUnits(d.size)]
         /\ units \in 0 .. ImageUnits(d.size)
  <1>1. ImageUnits(d.size) \in Nat /\ d.unread \in Nat
    BY ImageUnitsNat DEF DeviceType
  <1>2. units <= ImageUnits(d.size) /\ d.unread <= ImageUnits(d.size)
    BY <1>1
  <1>3. QED BY <1>1, <1>2 DEF DeviceType

(* What CaptureWell says of the scanner, with the type the lemmas above use.  *)
LEMMA WellDevice ==
  ASSUME CaptureWell
  PROVE  /\ device \in DeviceType /\ stream \in Nat
         /\ device.unread \in Nat /\ device.unread <= ImageUnits(device.size)
         /\ Want \in Nat
  <1>1. device.size \in SideSizes BY DEF CaptureWell, CaptureTypeOK
  <1>2. ImageUnits(device.size) \in Nat BY <1>1, ImageUnitsNat
  <1>3. device \in DeviceType /\ stream \in Nat /\ device.unread \in Nat
        /\ device.unread <= ImageUnits(device.size)
    BY <1>2 DEF CaptureWell, CaptureTypeOK, DeviceType
  <1>4. Want \in Nat
    BY <1>3, CaptureAssumption DEF Want, CaptureWell, StreamWithinLimit
  <1>5. QED BY <1>3, <1>4

(* Only a SCAN gives the scanner a new image, and then all of it.             *)
LEMMA ExchangeSizes ==
  ASSUME NEW command, NEW want \in Nat, NEW outcome, device \in DeviceType,
         Exchange(command, want, outcome)
  PROVE  \/ device'.size = device.size /\ device'.unread <= device.unread
         \/ command = "scan" /\ device'.unread = ImageUnits(device'.size)
  <1> DEFINE Goal ==
        \/ device'.size = device.size /\ device'.unread <= device.unread
        \/ command = "scan" /\ device'.unread = ImageUnits(device'.size)
  <1>1. device.unread \in Nat BY DEF DeviceType
  <1>2. ASSUME device' = device PROVE Goal BY <1>1, <1>2
  <1>3. CASE Carried(command, want)
    <2>1. ASSUME device' = [device EXCEPT !.reserved = TRUE] PROVE Goal
      BY <1>1, <2>1 DEF DeviceType
    <2>2. ASSUME device' = [device EXCEPT !.reserved = FALSE] PROVE Goal
      BY <1>1, <2>2 DEF DeviceType
    <2>3. ASSUME device' = IF device.hopper > 0 /\ ~device.fed
                           THEN [device EXCEPT !.fed = TRUE, !.hopper = @ - 1]
                           ELSE device
          PROVE  Goal
      BY <1>1, <2>3 DEF DeviceType
    <2>4. ASSUME NEW size \in SideSizes, command = "scan",
                 device' = IF device.fed
                           THEN [device EXCEPT !.size = size, !.unread = ImageUnits(size)]
                           ELSE device
          PROVE  Goal
      BY <1>2, <2>4 DEF DeviceType
    <2>5. ASSUME NEW left \in 0 .. device.unread,
                 device' = [device EXCEPT !.unread = left]
          PROVE  Goal
      BY <1>1, <2>5 DEF DeviceType
    <2>6. ASSUME device' = [device EXCEPT !.unread = 0] PROVE Goal
      BY <1>1, <2>6 DEF DeviceType
    <2>7. ASSUME device' = [device EXCEPT !.fed = FALSE, !.unread = 0] PROVE Goal
      BY <1>1, <2>7 DEF DeviceType
    <2>8. QED
      <3> HIDE DEF Goal
      <3>1. Goal BY <1>2, <1>3, <2>1, <2>2, <2>3, <2>4, <2>5, <2>6, <2>7 DEF Carried
      <3>2. QED BY <3>1 DEF Goal
  <1>4. CASE device' = device BY <1>2, <1>4
  <1>5. QED BY <1>3, <1>4 DEF Exchange

(* The parts from which CaptureWell is put together again after a step.       *)
LEMMA WellAgain ==
  ASSUME device' \in DeviceType, stream' \in Nat, ImageConserved', StreamWithinLimit',
         CleanItem', item' \in 1 .. Len(Plan), chunks' \in 0 .. MaxChunks,
         pc' \in {"out", "plan", "read", "save", "clean", "returned", "raised"},
         waiting' \in BOOLEAN, raising' \in BOOLEAN, excused' \in BOOLEAN,
         sent_reserve' \in BOOLEAN, sent_feed' \in BOOLEAN,
         owed' \subseteq {"release", "discharge"},
         pc' = "plan" => stream' = 0,
         pc' = "read" /\ waiting' => chunks' < MaxChunks
  PROVE  CaptureWell'
  <1>1. stream' + device'.unread <= ImageUnits(device'.size)
    BY DEF ImageConserved, ImageUnits, Sides
  <1>2. /\ device' \in [reserved : BOOLEAN, fed : BOOLEAN, hopper : 0 .. Hopper,
                        size : SideSizes, unread : 0 .. ImageUnits(device'.size)]
        /\ stream' \in 0 .. ImageUnits(device'.size)
    BY <1>1, DeviceTyped
  <1>3. CaptureTypeOK' BY <1>2 DEF CaptureTypeOK, ImageUnits, Sides
  <1>4. QED BY <1>3 DEF CaptureWell

(* A command that is no SCAN, or is sent before anything has been read, keeps *)
(* the image.                                                                 *)
LEMMA ExchangeKeepsImage ==
  ASSUME CaptureWell, NEW command, NEW outcome, NEW want \in Nat,
         Exchange(command, want, outcome), stream' = stream,
         command = "scan" => stream = 0
  PROVE  /\ device' \in DeviceType /\ stream' \in Nat
         /\ ImageConserved' /\ StreamWithinLimit'
         /\ owed' \subseteq {"release", "discharge"}
  <1>1. /\ device \in DeviceType /\ stream \in Nat
        /\ owed \subseteq {"release", "discharge"}
    BY WellDevice DEF CaptureWell, CaptureTypeOK
  <1>2. device' \in DeviceType /\ owed' \subseteq {"release", "discharge"}
    BY <1>1, ExchangeEffect
  <1>3. \/ device'.size = device.size /\ device'.unread <= device.unread
        \/ command = "scan" /\ device'.unread = ImageUnits(device'.size)
    BY <1>1, ExchangeSizes
  <1>4. /\ ImageUnits(device.size) \in Nat /\ ImageUnits(device'.size) \in Nat
        /\ device.unread \in Nat /\ device'.unread \in Nat
    BY <1>1, <1>2, ImageUnitsNat DEF DeviceType
  <1>5. stream' + device'.unread <= ImageUnits(device'.size)
    <2>1. stream + device.unread <= ImageUnits(device.size)
      BY DEF CaptureWell, ImageConserved
    <2>2. QED BY <1>1, <1>3, <1>4, <2>1
  <1>6. ImageConserved' BY <1>5 DEF ImageConserved, ImageUnits, Sides
  <1>7. StreamWithinLimit' BY DEF CaptureWell, StreamWithinLimit
  <1>8. QED BY <1>1, <1>2, <1>6, <1>7

(* A call starts with an empty stream.                                       *)
LEMMA CallWell == CaptureWell /\ Call => CaptureWell'
  <1> SUFFICES ASSUME CaptureWell, Call PROVE CaptureWell'
    OBVIOUS
  <1>1. /\ device \in DeviceType
        /\ device.unread \in Nat /\ device.unread <= ImageUnits(device.size)
    BY WellDevice
  <1>2. stream' = 0 /\ device' = device /\ owed' = owed BY DEF Call
  <1>3. ImageConserved' BY <1>1, <1>2 DEF ImageConserved, ImageUnits, Sides
  <1>4. StreamWithinLimit' BY <1>2, CaptureAssumption DEF StreamWithinLimit
  <1>5. /\ pc' \in {"plan", "raised"} /\ item' = 1 /\ chunks' = 0 /\ ~waiting'
        /\ waiting' \in BOOLEAN /\ raising' \in BOOLEAN /\ excused' \in BOOLEAN
        /\ sent_reserve' \in BOOLEAN /\ sent_feed' \in BOOLEAN
    BY DEF Call
  <1>6. item' \in 1 .. Len(Plan) /\ chunks' \in 0 .. MaxChunks
    BY <1>5, PlanLength, CaptureAssumption
  <1>7. CleanItem' BY <1>5 DEF CleanItem
  <1>8. owed' \subseteq {"release", "discharge"}
    BY <1>2 DEF CaptureWell, CaptureTypeOK
  <1>9. QED BY <1>1, <1>2, <1>3, <1>4, <1>5, <1>6, <1>7, <1>8, WellAgain

(* A command of the plan, before the first READ.                             *)
LEMMA PlanWell == CaptureWell /\ (PlanReply \/ PlanFails) => CaptureWell'
  <1> SUFFICES ASSUME CaptureWell, PlanReply \/ PlanFails PROVE CaptureWell'
    OBVIOUS
  <1>1. /\ pc = "plan" /\ waiting' = FALSE /\ stream' = stream /\ stream = 0
        /\ chunks' = chunks
    BY DEF PlanReply, PlanFails, Answered, CaptureWell
  <1>2. PICK outcome : Exchange(Plan[item], 0, outcome)
    BY DEF PlanReply, PlanFails
  <1>3. /\ device' \in DeviceType /\ stream' \in Nat
        /\ ImageConserved' /\ StreamWithinLimit'
        /\ owed' \subseteq {"release", "discharge"}
    BY <1>1, <1>2, ExchangeKeepsImage
  <1>4. /\ item \in 1 .. Len(Plan) /\ chunks \in 0 .. MaxChunks
        /\ raising \in BOOLEAN /\ excused \in BOOLEAN
        /\ sent_reserve \in BOOLEAN /\ sent_feed \in BOOLEAN
    BY DEF CaptureWell, CaptureTypeOK
  <1>5. CASE PlanReply
    <2>1. /\ pc' \in {"plan", "read"} /\ item' \in {1, item + 1}
          /\ item' = item + 1 => item # Len(Plan)
      BY <1>4, <1>5, PlanLength DEF PlanReply
    <2>2. item' \in 1 .. Len(Plan) BY <1>4, <2>1, PlanLength
    <2>3. CleanItem' BY <2>1 DEF CleanItem
    <2>4. /\ sent_reserve' \in BOOLEAN /\ sent_feed' \in BOOLEAN
          /\ UNCHANGED <<raising, excused>>
      BY <1>4, <1>5 DEF PlanReply
    <2>5. QED BY <1>1, <1>3, <1>4, <2>1, <2>2, <2>3, <2>4, WellAgain
  <1>6. CASE PlanFails
    <2>1. /\ pc' = "save" /\ raising' \in BOOLEAN /\ excused' \in BOOLEAN
          /\ UNCHANGED <<item, sent_reserve, sent_feed>>
      BY <1>4, <1>6 DEF PlanFails, ToFinally
    <2>2. CleanItem' BY <2>1 DEF CleanItem
    <2>3. QED BY <1>1, <1>3, <1>4, <2>1, <2>2, WellAgain
  <1>7. QED BY <1>5, <1>6

(* A READ moves units from the scanner to the stream.                        *)
LEMMA ReadWell == CaptureWell /\ (ReadReply \/ ReadFails \/ ReadStop) => CaptureWell'
  <1> SUFFICES ASSUME CaptureWell, ReadReply \/ ReadFails \/ ReadStop
               PROVE  CaptureWell'
    OBVIOUS
  <1>1. /\ device \in DeviceType /\ stream \in Nat /\ device.unread \in Nat
        /\ Want \in Nat
    BY WellDevice
  <1>2. /\ item \in 1 .. Len(Plan) /\ chunks \in 0 .. MaxChunks
        /\ raising \in BOOLEAN /\ excused \in BOOLEAN /\ waiting \in BOOLEAN
        /\ sent_reserve \in BOOLEAN /\ sent_feed \in BOOLEAN
        /\ owed \subseteq {"release", "discharge"}
    BY DEF CaptureWell, CaptureTypeOK
  <1>3. /\ pc = "read" /\ pc' \in {"read", "save"} /\ waiting' = FALSE
        /\ raising' \in BOOLEAN
        /\ UNCHANGED <<item, sent_reserve, sent_feed, excused>>
    <2>1. CASE ReadReply
      <3>1. /\ pc = "read" /\ waiting' = FALSE /\ excused' = excused
            /\ \/ ToFinally(FALSE)
               \/ UNCHANGED <<pc, item, raising, sent_reserve, sent_feed>>
        BY <2>1 DEF ReadReply, Answered
      <3>2. CASE ToFinally(FALSE) BY <3>1, <3>2 DEF ToFinally
      <3>3. CASE UNCHANGED <<pc, item, raising, sent_reserve, sent_feed>>
        BY <1>2, <3>1, <3>3
      <3>4. QED BY <3>1, <3>2, <3>3
    <2>2. CASE ReadFails BY <2>2 DEF ReadFails, ToFinally, Answered
    <2>3. CASE ReadStop BY <1>2, <2>3 DEF ReadStop, ToFinally
    <2>4. QED BY <2>1, <2>2, <2>3
  <1>4. CleanItem' BY <1>3 DEF CleanItem
  <1>5. CASE ReadReply
    <2>1. /\ Exchange("read", Want, "reply") /\ waiting /\ chunks' = chunks + 1
          /\ stream' = stream + (device.unread - device'.unread)
      BY <1>5 DEF ReadReply, Answered
    <2>2. /\ device' \in DeviceType /\ owed' \subseteq {"release", "discharge"}
          /\ device.unread - device'.unread \in 0 .. Want
      <3>1. /\ device' \in DeviceType /\ owed' \subseteq {"release", "discharge"}
            /\ "read" = "read" => device.unread - device'.unread \in 0 .. Want
        BY <1>1, <1>2, <2>1, ExchangeEffect
      <3>2. QED BY <3>1
    <2>3. device'.size = device.size
      BY <1>1, <2>1, ExchangeSizes
    <2>4. device'.unread \in Nat /\ ImageUnits(device.size) \in Nat
      BY <1>1, <2>2, ImageUnitsNat DEF DeviceType
    <2>5. chunks' \in 0 .. MaxChunks
      BY <1>2, <1>3, <2>1, CaptureAssumption DEF CaptureWell
    <2>6. stream' \in Nat /\ StreamWithinLimit'
      <3>1. Want <= MaxUnits - stream
        BY <1>1, CaptureAssumption DEF Want
      <3>2. stream' \in Nat /\ stream' <= stream + Want
        BY <1>1, <2>1, <2>2
      <3>3. QED BY <1>1, <3>1, <3>2, CaptureAssumption DEF StreamWithinLimit
    <2>7. ImageConserved'
      <3>1. stream + device.unread <= ImageUnits(device.size)
        BY DEF CaptureWell, ImageConserved
      <3>2. stream' + device'.unread = stream + device.unread
        BY <1>1, <2>1, <2>4
      <3>3. QED BY <2>3, <3>1, <3>2 DEF ImageConserved, ImageUnits, Sides
    <2>8. QED
      BY <1>2, <1>3, <1>4, <2>2, <2>5, <2>6, <2>7, WellAgain
  <1>6. CASE ReadFails
    <2>1. PICK outcome : Exchange("read", Want, outcome) BY <1>6 DEF ReadFails
    <2>2. stream' = stream /\ chunks' = chunks BY <1>6 DEF ReadFails
    <2>3. /\ device' \in DeviceType /\ stream' \in Nat
          /\ ImageConserved' /\ StreamWithinLimit'
          /\ owed' \subseteq {"release", "discharge"}
      BY <1>1, <2>1, <2>2, ExchangeKeepsImage
    <2>4. QED BY <1>2, <1>3, <1>4, <2>2, <2>3, WellAgain
  <1>7. CASE ReadStop
    <2>1. UNCHANGED <<stream, chunks, device, owed>> BY <1>7 DEF ReadStop
    <2>2. ImageConserved' /\ StreamWithinLimit'
      BY <2>1
      DEF CaptureWell, ImageConserved, StreamWithinLimit, ImageUnits, Sides
    <2>3. QED BY <1>1, <1>2, <1>3, <1>4, <2>1, <2>2, WellAgain
  <1>8. QED BY <1>5, <1>6, <1>7

(* A command of the cleanup reads nothing.                                   *)
LEMMA CleanWell == CaptureWell /\ (CleanReply \/ CleanFails) => CaptureWell'
  <1> SUFFICES ASSUME CaptureWell, CleanReply \/ CleanFails PROVE CaptureWell'
    OBVIOUS
  <1> DEFINE commands == Cleanup(sent_feed, sent_reserve)
  <1>1. /\ item \in 1 .. Len(Plan) /\ chunks \in 0 .. MaxChunks
        /\ raising \in BOOLEAN /\ excused \in BOOLEAN
        /\ sent_reserve \in BOOLEAN /\ sent_feed \in BOOLEAN
    BY DEF CaptureWell, CaptureTypeOK
  <1>2. /\ Len(commands) \in 1 .. 3
        /\ \A i \in 1 .. Len(commands) :
              commands[i] \in {"cancel", "discharge", "release"}
    BY <1>1, CleanupLength, CleanupShape
  <1>3. pc = "clean" /\ item \in 1 .. Len(commands)
    BY DEF CleanReply, CleanFails, Answered, CaptureWell, CleanItem
  <1>4. commands[item] # "scan" BY <1>2, <1>3
  <1>5. /\ waiting' = FALSE /\ excused' \in BOOLEAN
        /\ UNCHANGED <<sent_reserve, sent_feed, chunks, stream, raising>>
        /\ pc' \in {"clean", "raised", "returned"}
    BY <1>1 DEF CleanReply, CleanFails, Answered
  <1>6. PICK outcome : Exchange(commands[item], 0, outcome)
    BY DEF CleanReply, CleanFails
  <1>7. /\ device' \in DeviceType /\ stream' \in Nat
        /\ ImageConserved' /\ StreamWithinLimit'
        /\ owed' \subseteq {"release", "discharge"}
    BY <1>4, <1>5, <1>6, ExchangeKeepsImage
  <1>8. /\ item' \in 1 .. Len(Plan)
        /\ pc' = "clean" => item' \in 1 .. Len(commands)
    <2>1. /\ item' \in {1, item, item + 1}
          /\ item' = item + 1 => item < Len(commands)
          /\ pc' = "clean" => item' = item + 1
      <3>1. CASE CleanReply
        <4>1. item # 0 /\ item \in Nat BY <1>2, <1>3
        <4>2. \/ item < Len(commands) /\ pc' = "clean" /\ item' = item + 1
              \/ pc' \in {"raised", "returned"} /\ item' = 1
          BY <3>1 DEF CleanReply
        <4>3. QED BY <4>1, <4>2
      <3>2. CASE CleanFails
        <4>1. pc' = "raised" /\ item' = item BY <3>2 DEF CleanFails
        <4>2. item # item + 1 BY <1>1, PlanLength
        <4>3. QED BY <4>1, <4>2
      <3>3. QED BY <3>1, <3>2
    <2>2. QED BY <1>1, <1>2, <1>3, <2>1, PlanLength
  <1>9. CleanItem' BY <1>5, <1>8 DEF CleanItem
  <1>10. QED BY <1>1, <1>5, <1>7, <1>8, <1>9, WellAgain

(* A step of a capture keeps the sizes.                                       *)
LEMMA CaptureKeepsWell == CaptureWell /\ Capture => CaptureWell'
  <1> SUFFICES ASSUME CaptureWell, Capture PROVE CaptureWell'
    OBVIOUS
  <1>1. CASE Send \/ Save \/ SaveFails
    <2>1. UNCHANGED <<sent_reserve, sent_feed, chunks, stream, raising, device, owed>>
      BY <1>1 DEF Send, Save, SaveFails
    <2>2. ImageConserved' /\ StreamWithinLimit'
      BY <2>1
      DEF CaptureWell, ImageConserved, StreamWithinLimit, ImageUnits, Sides
    <2>3. /\ device \in DeviceType /\ stream \in Nat BY WellDevice
    <2>4. /\ item \in 1 .. Len(Plan) /\ chunks \in 0 .. MaxChunks
          /\ pc \in {"out", "plan", "read", "save", "clean", "returned", "raised"}
          /\ raising \in BOOLEAN /\ excused \in BOOLEAN /\ waiting \in BOOLEAN
          /\ sent_reserve \in BOOLEAN /\ sent_feed \in BOOLEAN
          /\ owed \subseteq {"release", "discharge"}
      BY DEF CaptureWell, CaptureTypeOK
    <2>5. CASE Send
      <3>1. /\ UNCHANGED <<pc, item, excused>> /\ waiting' = TRUE
            /\ pc = "read" => chunks < MaxChunks
        BY <2>4, <2>5, CaptureAssumption DEF Send, LimitReached
      <3>2. CleanItem' BY <2>1, <3>1 DEF CaptureWell, CleanItem
      <3>3. pc' = "plan" => stream' = 0 BY <2>1, <3>1 DEF CaptureWell
      <3>4. QED BY <2>1, <2>2, <2>3, <2>4, <3>1, <3>2, <3>3, WellAgain
    <2>6. CASE Save
      <3>1. pc' = "clean" /\ item' = 1 /\ UNCHANGED <<waiting, excused>>
        BY <2>6 DEF Save
      <3>2. item' \in 1 .. Len(Plan) BY <3>1, PlanLength
      <3>3. 1 \in 1 .. Len(Cleanup(sent_feed, sent_reserve))
        <4>1. Len(Cleanup(sent_feed, sent_reserve)) \in 1 .. 3
          BY <2>4, CleanupLength
        <4>2. QED BY <4>1
      <3>4. CleanItem' BY <2>1, <3>1, <3>3 DEF CleanItem
      <3>5. QED BY <2>1, <2>2, <2>3, <2>4, <3>1, <3>2, <3>4, WellAgain
    <2>7. CASE SaveFails
      <3>1. pc' = "raised" /\ excused' = TRUE /\ UNCHANGED <<item, waiting>>
        BY <2>7 DEF SaveFails
      <3>2. CleanItem' BY <3>1 DEF CleanItem
      <3>3. QED BY <2>1, <2>2, <2>3, <2>4, <3>1, <3>2, WellAgain
    <2>8. QED BY <1>1, <2>5, <2>6, <2>7
  <1>2. QED BY <1>1, PlanWell, ReadWell, CleanWell DEF Capture

(* Returning and raising keep the sizes, too.                                *)
LEMMA LeaveWell ==
  ASSUME NEW how \in {"returned", "raised"}, CaptureWell, Leave(how)
  PROVE  CaptureWell'
  BY DEF Leave, CaptureWell, CaptureTypeOK, ImageConserved, StreamWithinLimit, CleanItem,
         ImageUnits, Sides

(* Steps of others leave them alone.                                         *)
LEMMA WellUnchanged == CaptureWell /\ UNCHANGED captureVars => CaptureWell'
  BY DEF captureVars, CaptureWell, CaptureTypeOK, ImageConserved, StreamWithinLimit,
         CleanItem, ImageUnits, Sides

(* At the start there is no image.                                           *)
LEMMA InitWell == CaptureInit => CaptureWell
  <1> SUFFICES ASSUME CaptureInit PROVE CaptureWell
    OBVIOUS
  <1>1. /\ device \in DeviceType /\ StreamWithinLimit /\ CleanItem
    BY InitCaptureInv DEF CaptureInv, CaptureTypes
  <1>2. stream = 0 /\ device.unread = 0 BY DEF CaptureInit
  <1>3. ImageUnits(device.size) \in Nat BY <1>1, ImageUnitsNat DEF DeviceType
  <1>4. ImageConserved BY <1>2, <1>3 DEF ImageConserved
  <1>5. /\ device \in [reserved : BOOLEAN, fed : BOOLEAN, hopper : 0 .. Hopper,
                       size : SideSizes, unread : 0 .. ImageUnits(device.size)]
        /\ stream \in 0 .. ImageUnits(device.size)
    BY <1>1, <1>2, <1>3 DEF DeviceType
  <1>6. CaptureTypeOK
    <2>1. item \in 1 .. Len(Plan) /\ chunks \in 0 .. MaxChunks
      BY PlanLength, CaptureAssumption DEF CaptureInit
    <2>2. QED BY <1>5, <2>1 DEF CaptureInit, CaptureTypeOK
  <1>7. QED BY <1>1, <1>2, <1>4, <1>6 DEF CaptureInit, CaptureWell

(* No more frames are extracted than the sheet has sides: what follows the    *)
(* last frame is too short for another.                                       *)
LEMMA FramesFitSides == CaptureWell => Frames \in 0 .. Sides
  <1> SUFFICES ASSUME CaptureWell PROVE Frames \in 0 .. Sides
    OBVIOUS
  <1> DEFINE size == device.size
  <1>1. /\ size \in Nat \ {0} /\ stream \in Nat /\ TailUnits \in Nat /\ TailUnits < size
        /\ stream <= ImageUnits(size)
    <2>1. /\ size \in SideSizes /\ stream \in 0 .. ImageUnits(size)
      BY DEF CaptureWell, CaptureTypeOK
    <2>2. ImageUnits(size) \in Nat BY <2>1, ImageUnitsNat
    <2>3. size \in Nat \ {0} /\ TailUnits \in Nat /\ TailUnits < size
      BY <2>1, CaptureAssumption
    <2>4. QED BY <2>1, <2>2, <2>3
  <1> HIDE DEF size
  <1>2. Frames = stream \div size BY DEF Frames, size
  <1>3. CASE Duplex
    <2>1. Sides = 2 /\ stream < 3 * size
      BY <1>1, <1>3 DEF ImageUnits, Sides
    <2>2. stream \div size \in 0 .. 2 BY <1>1, <2>1
    <2>3. QED BY <1>2, <2>1, <2>2
  <1>4. CASE ~Duplex
    <2>1. Sides = 1 /\ stream < 2 * size
      BY <1>1, <1>4 DEF ImageUnits, Sides
    <2>2. stream \div size \in 0 .. 1 BY <1>1, <2>1
    <2>3. QED BY <1>2, <2>1, <2>2
  <1>5. QED BY <1>3, <1>4

----------------------------------------------------------------------------
(* The end: what BackendEnds and ToolEnds rest on besides fairness.           *)

\* How many steps these commands take: each is sent, and answered.
CommandSteps(left) == 2 * left + IF waiting THEN 1 ELSE 2

\* How many steps a capture can still take at most: the rest of its plan, all
\* its reads, saving, and a cleanup of three commands.
CaptureAhead ==
    CASE pc = "plan"  -> 9 + 2 * MaxChunks + CommandSteps(Len(Plan) - item)
      [] pc = "read"  -> 7 + CommandSteps(MaxChunks - chunks)
      [] pc = "save"  -> 7
      [] pc = "clean" -> CommandSteps(3 - item)
      [] OTHER        -> 0
CaptureMost == 27 + 2 * MaxChunks

(* The numbers a capture counts with.                                         *)
LEMMA CaptureCounts ==
  ASSUME CaptureWell
  PROVE  /\ MaxChunks \in Nat /\ chunks \in 0 .. MaxChunks /\ waiting \in BOOLEAN
         /\ Len(Plan) \in 8 .. 9 /\ item \in 1 .. Len(Plan)
         /\ pc = "clean" => item \in 1 .. 3
         /\ Len(Cleanup(sent_feed, sent_reserve)) \in 1 .. 3
  <1>1. Len(Plan) \in 8 .. 9
    <2>1. CASE Duplex BY <2>1 DEF Plan
    <2>2. CASE ~Duplex BY <2>2 DEF Plan
    <2>3. QED BY <2>1, <2>2
  <1>2. Len(Cleanup(sent_feed, sent_reserve)) \in 1 .. 3
    BY CleanupLength DEF CaptureWell, CaptureTypeOK
  <1>3. pc = "clean" => item \in 1 .. Len(Cleanup(sent_feed, sent_reserve))
    BY DEF CaptureWell, CleanItem
  <1>4. MaxChunks \in Nat /\ chunks \in 0 .. MaxChunks /\ waiting \in BOOLEAN
        /\ item \in 1 .. Len(Plan)
    BY CaptureAssumption DEF CaptureWell, CaptureTypeOK
  <1>5. \A k \in 1 .. 3 : pc = "clean" /\ item \in 1 .. k => item \in 1 .. 3
    OBVIOUS
  <1>6. QED BY <1>1, <1>2, <1>3, <1>4, <1>5

(* No capture is longer than the plan, the reads and the cleanup allow.       *)
LEMMA AheadBounded == CaptureWell => CaptureAhead \in 0 .. CaptureMost
  <1> SUFFICES ASSUME CaptureWell PROVE CaptureAhead \in 0 .. CaptureMost
    OBVIOUS
  <1> DEFINE n == Len(Plan)
  <1>1. /\ MaxChunks \in Nat /\ chunks \in 0 .. MaxChunks /\ waiting \in BOOLEAN
        /\ n \in 8 .. 9 /\ item \in 1 .. n /\ (pc = "clean" => item \in 1 .. 3)
    BY CaptureCounts
  <1>2. pc = "plan" => CaptureAhead = 9 + 2 * MaxChunks + CommandSteps(n - item)
    BY DEF CaptureAhead
  <1> HIDE DEF n
  <1>3. CASE pc = "plan" BY <1>1, <1>2, <1>3 DEF CommandSteps, CaptureMost
  <1>4. CASE pc # "plan" BY <1>1, <1>4 DEF CaptureAhead, CommandSteps, CaptureMost
  <1>5. QED BY <1>3, <1>4

(* Each step of a capture, whatever the scanner answers, brings it nearer to  *)
(* its end: nothing is sent twice, and no loop goes on without counting.      *)
LEMMA CaptureFalls == CaptureWell /\ Capture => CaptureAhead' < CaptureAhead
  <1> SUFFICES ASSUME CaptureWell, Capture PROVE CaptureAhead' < CaptureAhead
    OBVIOUS
  <1> DEFINE n == Len(Plan)
  <1>1. /\ MaxChunks \in Nat /\ chunks \in 0 .. MaxChunks /\ waiting \in BOOLEAN
        /\ n \in 8 .. 9 /\ item \in 1 .. n /\ (pc = "clean" => item \in 1 .. 3)
    BY CaptureCounts
  <1>2. /\ pc = "plan" => CaptureAhead = 9 + 2 * MaxChunks + CommandSteps(n - item)
        /\ pc = "read" => CaptureAhead = 7 + CommandSteps(MaxChunks - chunks)
        /\ pc = "save" => CaptureAhead = 7
        /\ pc = "clean" => CaptureAhead = CommandSteps(3 - item)
        /\ pc \in {"returned", "raised"} => CaptureAhead = 0
    BY DEF CaptureAhead
  <1>3. /\ pc' = "plan" => CaptureAhead' = 9 + 2 * MaxChunks
                                + (2 * (n - item') + (IF waiting' THEN 1 ELSE 2))
        /\ pc' = "read" => CaptureAhead' = 7 + (2 * (MaxChunks - chunks')
                                               + (IF waiting' THEN 1 ELSE 2))
        /\ pc' = "save" => CaptureAhead' = 7
        /\ pc' = "clean" => CaptureAhead' = 2 * (3 - item')
                                            + (IF waiting' THEN 1 ELSE 2)
        /\ pc' \in {"returned", "raised"} => CaptureAhead' = 0
    BY DEF CaptureAhead, CommandSteps, Plan
  <1>4. CASE Send
    <2>1. /\ pc \in {"plan", "read", "clean"} /\ waiting = FALSE /\ waiting' = TRUE
          /\ pc' = pc /\ item' = item /\ chunks' = chunks
      BY <1>1, <1>4 DEF Send
    <2> HIDE DEF n
    <2>2. QED BY <1>1, <1>2, <1>3, <2>1 DEF CommandSteps
  <1>5. CASE PlanReply
    <2>1. /\ pc = "plan" /\ waiting = TRUE /\ waiting' = FALSE /\ chunks' = chunks
          /\ \/ item = n /\ pc' = "read"
             \/ item # n /\ pc' = "plan" /\ item' = item + 1
      BY <1>1, <1>5 DEF PlanReply, Answered
    <2> HIDE DEF n
    <2>2. QED BY <1>1, <1>2, <1>3, <2>1 DEF CommandSteps
  <1>6. CASE PlanFails \/ ReadFails \/ ReadStop
    <2>1. pc \in {"plan", "read"} /\ pc' = "save"
      BY <1>6 DEF PlanFails, ReadFails, ReadStop, Answered, ToFinally
    <2> HIDE DEF n
    <2>2. QED BY <1>1, <1>2, <1>3, <2>1 DEF CommandSteps
  <1>7. CASE ReadReply
    <2>1. /\ pc = "read" /\ waiting = TRUE /\ waiting' = FALSE /\ chunks' = chunks + 1
          /\ pc' \in {"read", "save"}
      <3>1. /\ pc = "read" /\ waiting = TRUE /\ waiting' = FALSE /\ chunks' = chunks + 1
            /\ ToFinally(FALSE) \/ UNCHANGED <<pc, item, raising, sent_reserve, sent_feed>>
        BY <1>1, <1>7 DEF ReadReply, Answered
      <3>2. QED BY <3>1 DEF ToFinally
    <2> HIDE DEF n
    <2>2. QED BY <1>1, <1>2, <1>3, <2>1 DEF CommandSteps
  <1>8. CASE Save \/ SaveFails
    <2>1. pc = "save" /\ (pc' = "raised" \/ (pc' = "clean" /\ item' = 1))
      BY <1>8 DEF Save, SaveFails
    <2>2. QED BY <1>2, <1>3, <2>1
  <1>9. CASE CleanReply \/ CleanFails
    <2>1. /\ pc = "clean" /\ waiting = TRUE /\ waiting' = FALSE
          /\ \/ pc' = "clean" /\ item' = item + 1
             \/ pc' \in {"returned", "raised"}
      BY <1>1, <1>9 DEF CleanReply, CleanFails, Answered
    <2> HIDE DEF n
    <2>2. QED BY <1>1, <1>2, <1>3, <2>1 DEF CommandSteps
  <1>10. QED BY <1>4, <1>5, <1>6, <1>7, <1>8, <1>9 DEF Capture

(* The same of the state after a step.                                        *)
LEMMA AheadPrimed == CaptureWell' => CaptureAhead' \in 0 .. CaptureMost
  <1>1. (CaptureWell => CaptureAhead \in 0 .. CaptureMost)'
    BY AheadBounded, PTL
  <1>2. CaptureMost' = CaptureMost BY DEF CaptureMost
  <1>3. QED BY <1>1, <1>2

=============================================================================
