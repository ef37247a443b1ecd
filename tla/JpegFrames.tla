----------------------------- MODULE JpegFrames -----------------------------
(***************************************************************************)
(* How a capture tells pages apart: extract_jpegs of                       *)
(* src/harness/scan_to_pdf.py is run on the stream received so far, after  *)
(* every READ, to decide whether to read on (CanonCapture's Frames), and   *)
(* on the whole stream to write the pages.  The scanner sends the sides of *)
(* a sheet, one or two, as JPEG images, with or without padding after each.*)
(***************************************************************************)
EXTENDS Integers, Sequences, FiniteSetsExt

CONSTANTS
    Bodies,      \* what may stand between the markers of an image
    Paddings,    \* what may follow an image
    Chunks       \* how many bytes a READ may bring
\* In entropy-coded data FF is followed by 00; metadata with an image of its
\* own (a thumbnail) is not something the scanner has been seen to send.
ASSUME FramesAssumption ==
    /\ \A bytes \in Bodies \cup Paddings :
          /\ bytes \in Seq({"FF", "D8", "D9", "00"})
          /\ \A i \in DOMAIN bytes : bytes[i] = "FF" => i < Len(bytes) /\ bytes[i + 1] = "00"
    /\ Chunks \subseteq Nat \ {0}

VARIABLES
    sides,       \* the images the scanner sends
    padding,     \* after each of them
    received,    \* how many bytes have been read
    place,       \* "read": in the capture; "extract": in the loop of extract_jpegs
    frames,      \* extract_jpegs's frames
    offset       \* and where it searches next, in positions from 1

frameVars == <<sides, padding, received, place, frames, offset>>

SOI == <<"FF", "D8">>
EOI == <<"FF", "D9">>
Images == {SOI \o body \o EOI : body \in Bodies}

Sheet ==
    IF Len(sides) = 1 THEN sides[1] \o padding
                      ELSE sides[1] \o padding \o sides[2] \o padding
stream == SubSeq(Sheet, 1, received)

FramesInit ==
    /\ sides \in UNION {[1..n -> Images] : n \in 1..2}
    /\ padding \in Paddings
    /\ received = 0
    /\ place = "read" /\ frames = <<>> /\ offset = 1

\* bytes.find(marker, from) in positions from 1; 0 for none.
Matches(bytes, marker, from) ==
    {i \in from..(Len(bytes) - 1) : bytes[i] = marker[1] /\ bytes[i + 1] = marker[2]}
Find(bytes, marker, from) ==
    IF Matches(bytes, marker, from) = {} THEN 0 ELSE Min(Matches(bytes, marker, from))

FrameStart == Find(stream, SOI, offset)
\* Variant: the last end marker ends the frame.
FrameEndLast ==
    IF Matches(stream, EOI, FrameStart + 2) = {} THEN 0
    ELSE Max(Matches(stream, EOI, FrameStart + 2))
FrameEnd == Find(stream, EOI, FrameStart + 2)

\* The next READ, until the scanner has no more; extract_jpegs is called.
Receive ==
    /\ place = "read" /\ received < Len(Sheet)
    /\ \E n \in Chunks : received' = Min({received + n, Len(Sheet)})
    /\ place' = "extract" /\ frames' = <<>> /\ offset' = 1
    /\ UNCHANGED <<sides, padding>>

NextFrame ==
    /\ place = "extract" /\ FrameStart # 0 /\ FrameEnd # 0
    /\ frames' = Append(frames, SubSeq(stream, FrameStart, FrameEnd + 1))
    /\ offset' = FrameEnd + 2
    /\ UNCHANGED <<sides, padding, received, place>>

ReturnFrames ==
    /\ place = "extract" /\ (FrameStart = 0 \/ FrameEnd = 0)
    /\ place' = "read"
    /\ UNCHANGED <<sides, padding, received, frames, offset>>

FramesNext == Receive \/ NextFrame \/ ReturnFrames
FramesSpec == FramesInit /\ [][FramesNext]_frameVars

----------------------------------------------------------------------------
\* Where in the sheet a side's image begins and ends.
BeginOf(i) == IF i = 1 THEN 1 ELSE Len(sides[1]) + Len(padding) + 1
EndOf(i)   == BeginOf(i) + Len(sides[i]) - 1

(* However the stream is cut into chunks, the frames extract_jpegs returns   *)
(* are exactly the sides that have arrived whole, in order: a capture that   *)
(* stops at the wanted number of frames has whole pages, and reading on      *)
(* disturbs none.                                                            *)
FramesAreSides ==
    place = "read" =>
        /\ DOMAIN frames = {i \in DOMAIN sides : EndOf(i) <= received}
        /\ \A i \in DOMAIN frames : frames[i] = sides[i]
=============================================================================
