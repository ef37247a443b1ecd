---------------------------- MODULE ScanRequest ----------------------------
(***************************************************************************)
(* A POST of ScanSettings: AirscanRequestHandler.do_POST and what          *)
(* scan_settings_from_xml (src/airscan_adapter/escl_models.py) accepts,    *)
(* against what scanner_capabilities_xml advertises.  A document is the    *)
(* sequence of its elements in document order, at whatever depth, each     *)
(* with its local name and its stripped text.  The slot is that of         *)
(* AirscanJobs; here somebody else has it or not.  A job made of a request *)
(* is followed to what the live backend asks the scanner for.              *)
(***************************************************************************)
EXTENDS Integers, Sequences, FiniteSetsExt

CONSTANTS
    Requests,
    Number     \* the texts that are integers, and which

ADF_MAX_WIDTH  == 2550
ADF_MAX_HEIGHT == 4200

\* Width and height, in 1200ths of an inch.
PAPER_SIZES_1200 ==
    [a4     |-> <<2480 * 4, 3508 * 4>>,
     letter |-> <<2550 * 4, 3300 * 4>>,
     legal  |-> <<2550 * 4, 4200 * 4>>]

Yes == {"true", "on"}
No  == {"false", "off"}
TwoSided == {"TwoSidedLongEdge", "Duplex"}
OneSided == {"OneSided", "Simplex"}

\* "absent" stands for an element that is not there.
ASSUME RequestsAssumption ==
    \A r \in Requests :
        /\ r.known \in BOOLEAN    \* the path is that of ScanJobs
        /\ r.content_length \in {"absent", "garbage", "outside", "within"}
        /\ r.xml \in {"well-formed", "malformed", "forbidden", "undecodable"}
        /\ r.elements \in Seq([name : STRING, text : STRING \ {"absent"}])
ASSUME NumberAssumption ==
    /\ \A t \in DOMAIN Number : Number[t] \in Int
    /\ {"absent", ""} \cap DOMAIN Number = {}
    /\ "300" \in DOMAIN Number /\ Number["300"] = 300

VARIABLES
    request,
    blank_back_skip,   \* of the configuration
    paper,             \* of the configuration
    slot,              \* "free", "taken" by another job, or "ours"
    status,            \* of the answer; "none" yet, "dropped" if there is none
    settings,          \* of the job
    capture            \* what the job has every sheet scanned as

requestVars == <<request, blank_back_skip, paper, slot, status, settings, capture>>

NoSettings == [duplex |-> FALSE, blank_page_detection |-> FALSE,
               region |-> [width |-> 0, height |-> 0, x_offset |-> 0, y_offset |-> 0]]
NoCapture  == [stop_after_frames |-> 0, window |-> <<0, 0>>, width_px |-> 0, height_px |-> 0]

----------------------------------------------------------------------------
\* escl_models.py

\* Variant: an element without text hides the ones after it.
FirstTextOrBlank(elements, names) ==
    LET at == {i \in DOMAIN elements : elements[i].name \in names} IN
    IF at = {} \/ elements[Min(at)].text = "" THEN "absent" ELSE elements[Min(at)].text
FirstText(elements, names) ==
    LET at == {i \in DOMAIN elements : elements[i].name \in names /\ elements[i].text # ""} IN
    IF at = {} THEN "absent" ELSE elements[Min(at)].text

Integer(elements, name, default) ==
    LET text == FirstText(elements, {name}) IN
    IF text = "absent" THEN default ELSE Number[text]
IsInteger(elements, name) ==
    FirstText(elements, {name}) \in DOMAIN Number \cup {"absent"}

Blank == {"BlankPageDetection", "BlankPageDetectionAndRemoval"}
Format == {"DocumentFormat", "DocumentFormatExt"}

\* Sides wins over Duplex.
IsDuplex(elements) ==
    \/ FirstText(elements, {"Sides"}) \in TwoSided
    \/ FirstText(elements, {"Sides"}) = "absent" /\ FirstText(elements, {"Duplex"}) \notin No

SettingsOf(elements, default) ==
    [duplex |-> IsDuplex(elements),
     blank_page_detection |->
        LET text == FirstText(elements, Blank) IN
        IF text = "absent" THEN default ELSE text \in Yes,
     region |-> [width    |-> Integer(elements, "Width", 2480),
                 height   |-> Integer(elements, "Height", 3508),
                 x_offset |-> Integer(elements, "XOffset", 0),
                 y_offset |-> Integer(elements, "YOffset", 0)]]

\* Variant: the offsets are not added.
RegionFitsAlone(region) ==
    /\ region.width  > 0 /\ region.x_offset >= 0 /\ region.width  <= ADF_MAX_WIDTH
    /\ region.height > 0 /\ region.y_offset >= 0 /\ region.height <= ADF_MAX_HEIGHT
RegionFits(region) ==
    /\ region.width  > 0 /\ region.x_offset >= 0
    /\ region.height > 0 /\ region.y_offset >= 0
    /\ region.x_offset + region.width  <= ADF_MAX_WIDTH
    /\ region.y_offset + region.height <= ADF_MAX_HEIGHT

\* No UnsupportedScanSetting is raised.
Supported(elements) ==
    LET Text(name) == FirstText(elements, {name}) IN
    /\ Text("InputSource") \in {"Feeder", "ADF", "Adf", "absent"}
    /\ Text("ColorMode") \in {"Grayscale8", "absent"}
    /\ FirstText(elements, Format) \in {"image/jpeg", "absent"}
    /\ \A name \in {"XResolution", "YResolution", "Width", "Height", "XOffset", "YOffset"} :
          IsInteger(elements, name)
    /\ \A name \in {"XResolution", "YResolution"} : Integer(elements, name, 300) = 300
    /\ Text("Duplex") \in Yes \cup No \cup {"absent"}
    /\ Text("Sides") \in TwoSided \cup OneSided \cup {"absent"}
    /\ FirstText(elements, Blank) \in Yes \cup No \cup {"absent"}
    /\ RegionFits(SettingsOf(elements, TRUE).region)

----------------------------------------------------------------------------
\* do_POST; every refusal is an answer and leaves the slot alone.

RequestInit ==
    /\ request \in Requests /\ slot \in {"free", "taken"}
    /\ blank_back_skip \in BOOLEAN /\ paper \in DOMAIN PAPER_SIZES_1200
    /\ status = "none" /\ settings = NoSettings /\ capture = NoCapture

Answer(code) ==
    /\ status = "none" /\ status' = code
    /\ UNCHANGED <<request, blank_back_skip, paper, capture>>
Refuse(code) == Answer(code) /\ UNCHANGED <<slot, settings>>

Body == request.known /\ request.content_length = "within"
Parsed == Body /\ request.xml = "well-formed" /\ Supported(request.elements)

Unknown  == ~request.known /\ Refuse("404")
NoLength == request.known /\ request.content_length = "absent" /\ Refuse("411")
NoNumber == request.known /\ request.content_length = "garbage" /\ Refuse("400")
TooLarge == request.known /\ request.content_length = "outside" /\ Refuse("413")
Unparsed == Body /\ ~Parsed /\ request.xml # "undecodable" /\ Refuse("400")
\* An encoding Python has not, or of several bytes: what that raises is not
\* caught, and the connection closes.
Undecodable == Body /\ request.xml = "undecodable" /\ Refuse("dropped")
\* create_job parses before it looks at the slot.
Busy     == Parsed /\ slot = "taken" /\ Refuse("409")
Created ==
    /\ Parsed /\ slot = "free"
    /\ Answer("201")
    /\ slot' = "ours"
    /\ settings' = SettingsOf(request.elements, blank_back_skip)

\* scan_pages of the live backend: the window is the configured paper's, and
\* the region only labels the pages.
CaptureOf(asked, preset) ==
    [stop_after_frames |-> IF asked.duplex THEN 2 ELSE 1,
     window            |-> PAPER_SIZES_1200[preset],
     width_px          |-> asked.region.width,
     height_px         |-> asked.region.height]
Capture ==
    /\ slot = "ours" /\ capture = NoCapture
    /\ capture' = CaptureOf(settings, paper)
    /\ UNCHANGED <<request, blank_back_skip, paper, slot, status, settings>>

RequestNext ==
    \/ Unknown \/ NoLength \/ NoNumber \/ TooLarge \/ Unparsed \/ Undecodable
    \/ Busy \/ Created \/ Capture

RequestSpec == RequestInit /\ [][RequestNext]_requestVars

----------------------------------------------------------------------------
\* scanner_capabilities_xml: what a client may choose from.
Advertised ==
    [InputSource |-> {"Feeder"}, ColorMode |-> {"Grayscale8"},
     DocumentFormat |-> {"image/jpeg"}, DocumentFormatExt |-> {"image/jpeg"},
     XResolution |-> {"300"}, YResolution |-> {"300"},
     Width  |-> {t \in DOMAIN Number : Number[t] \in 1..ADF_MAX_WIDTH},
     Height |-> {t \in DOMAIN Number : Number[t] \in 1..ADF_MAX_HEIGHT}]

Stated(name) == {request.elements[i].text : i \in
                    {k \in DOMAIN request.elements : request.elements[k].name = name}} \ {""}

(* A client that stays within the capabilities this server sends is never    *)
(* refused for its settings, and a job is only made for a page the feeder    *)
(* has: no mixture of size, offset and omitted fields gets a region past the *)
(* advertised edge.  Any size up to the edge is advertised, so it is         *)
(* accepted; that the adapter's specification elsewhere takes only the paper *)
(* sizes is RegionIsWindow.                                                  *)
AdvertisedIsAccepted ==
    /\ (Body /\ request.xml = "well-formed" /\ status # "none" /\
           \A i \in DOMAIN request.elements :
              /\ request.elements[i].name \in DOMAIN Advertised
              /\ request.elements[i].text \in Advertised[request.elements[i].name] \cup {""})
          => status \in {"201", "409"}
    /\ status = "201" =>
          /\ settings.region.x_offset + settings.region.width  \in 1..ADF_MAX_WIDTH
          /\ settings.region.y_offset + settings.region.height \in 1..ADF_MAX_HEIGHT

(* Wherever a request says one thing only, and in whichever element it says  *)
(* it, every sheet is scanned on the sides it asks for, the pages are        *)
(* labelled with its size, and blank backs are dropped or kept as it says;   *)
(* what it leaves open is as configured, and the slot is taken for a job and *)
(* for nothing else.  The area that is scanned is not the request's: that is *)
(* RegionIsWindow.                                                           *)
RequestHonoured ==
    /\ slot = "ours" <=> status = "201"
    /\ capture # NoCapture =>
          /\ slot = "ours"
          /\ \A t \in DOMAIN Number :
                /\ Stated("Width")  = {t} => capture.width_px  = Number[t]
                /\ Stated("Height") = {t} => capture.height_px = Number[t]
          /\ LET sides == Stated("Sides") IN
                /\ sides # {} /\ sides \subseteq OneSided => capture.stop_after_frames = 1
                /\ sides # {} /\ sides \subseteq TwoSided => capture.stop_after_frames = 2
                /\ sides = {} /\ Stated("Duplex") = {} => capture.stop_after_frames = 2
    /\ status = "201" =>
          LET wish == Stated("BlankPageDetection") \cup
                      Stated("BlankPageDetectionAndRemoval") IN
          /\ wish # {} /\ wish \subseteq No  => ~settings.blank_page_detection
          /\ wish # {} /\ wish \subseteq Yes => settings.blank_page_detection
          /\ wish = {} => settings.blank_page_detection = blank_back_skip

(* What docs/airscan/escl-adapter-spec.md says of the region: a job that is  *)
(* scanned for a region the request states is scanned for the full page of a *)
(* paper size, and the scanner's window is that paper's.                     *)
RegionIsWindow ==
    capture # NoCapture /\ Stated("Width") \cup Stated("Height") # {} =>
        \E preset \in DOMAIN PAPER_SIZES_1200 :
            /\ settings.region = [width    |-> PAPER_SIZES_1200[preset][1] \div 4,
                                  height   |-> PAPER_SIZES_1200[preset][2] \div 4,
                                  x_offset |-> 0, y_offset |-> 0]
            /\ capture.window = PAPER_SIZES_1200[preset]
=============================================================================
