------------------------------ MODULE MCEdges ------------------------------
(***************************************************************************)
(* Instances for TLC of the components at the adapter's and the harness's  *)
(* edges: starting up, a POST's settings, the OCR side effect, a command's *)
(* lengths, the frames in a stream and network discovery.  They share no   *)
(* state; a behaviour is one of one of them, the others at rest.           *)
(***************************************************************************)
EXTENDS OcrInbox, Startup, ScanRequest, Commands, JpegFrames, Discovery

VARIABLE which    \* component acts

----------------------------------------------------------------------------
\* Startup

NoFile ==
    [readable |-> TRUE, host |-> "absent", timeout |-> "absent", safe_mode |-> "absent",
     allow_live_scans |-> "absent", bind |-> "absent", port |-> "absent",
     service_name |-> "absent", admin_url |-> NoUrl, root_resource |-> "absent",
     scan_inbox |-> "absent", ocr |-> "absent"]
NoArgs ==
    [live |-> FALSE, mock |-> FALSE, allow_live_scans |-> FALSE, mdns |-> FALSE,
     allow_lan_bind |-> FALSE, host |-> "absent", bind |-> "absent", port |-> "absent",
     service_name |-> "absent", admin_url |-> NoUrl, root_resource |-> "absent",
     scan_inbox |-> "absent"]
NoEnv == [host |-> "absent", rotate_degrees_ok |-> TRUE]
Invoked(file, given, env) == [file |-> file, args |-> given, env |-> env]

\* Every mixture of the switches and hosts that let paper move.
Consents ==
    {Invoked([NoFile EXCEPT !.host = h, !.safe_mode = s, !.allow_live_scans = a],
             [NoArgs EXCEPT !.live = l, !.mock = m, !.allow_live_scans = ca, !.host = ch],
             [host |-> eh, rotate_degrees_ok |-> r]) :
        h \in {"absent", "blank", "file"}, s \in Flag, a \in Flag,
        l \in BOOLEAN, m \in BOOLEAN, ca \in BOOLEAN, ch \in {"absent", "cli"},
        eh \in {"absent", "blank", "env"}, r \in BOOLEAN}
\* Every mixture of what is listened on and what is advertised.
Endpoints ==
    {Invoked([NoFile EXCEPT !.bind = b, !.port = p, !.admin_url = u, !.root_resource = r],
             [NoArgs EXCEPT !.mdns = TRUE, !.allow_lan_bind = lan, !.bind = cb,
                            !.port = cp, !.admin_url = cu, !.root_resource = cr],
             NoEnv) :
        b \in {"absent", "lan", "any"}, p \in {"absent", "9000"},
        u \in {NoUrl, DefaultUrl, [host |-> "file", port |-> "file"]},
        r \in {"absent", "file", "blank"}, lan \in BOOLEAN,
        cb \in {"absent", "loopback", "any"}, cp \in {"absent", "0", "9001"},
        cu \in {NoUrl, [host |-> "cli", port |-> "cli"]}, cr \in {"absent", "cli"}}
\* Every mixture of sections of the file and overrides that rebuild them.
Sections ==
    {Invoked([NoFile EXCEPT !.service_name = n, !.scan_inbox = i, !.ocr = o, !.timeout = t,
                            !.bind = "lan", !.port = p],
             [NoArgs EXCEPT !.service_name = cn, !.scan_inbox = ci, !.host = ch,
                            !.allow_lan_bind = TRUE],
             NoEnv) :
        n \in {"absent", "file"}, i \in {"absent", "file"}, o \in {"absent", "file"},
        t \in {"absent", "file"}, p \in {"absent", "9000"}, cn \in {"absent", "cli"},
        ci \in {"absent", "cli"}, ch \in {"absent", "cli"}}
MCInvocations ==
    Consents \cup Endpoints \cup Sections
    \cup {Invoked([NoFile EXCEPT !.readable = FALSE], NoArgs, NoEnv)}

----------------------------------------------------------------------------
\* ScanRequest: all documents of two elements, all regions of three.

MCNumber ==
    "-1" :> -1 @@ "0" :> 0 @@ "1" :> 1 @@ "70" :> 70 @@ "71" :> 71 @@ "300" :> 300
    @@ "600" :> 600 @@ "692" :> 692 @@ "693" :> 693 @@ "2550" :> 2550 @@ "2551" :> 2551
    @@ "3300" :> 3300 @@ "4200" :> 4200 @@ "4201" :> 4201

Elements(name, texts) == {[name |-> name, text |-> t] : t \in texts}
RegionElements ==
    Elements("Width", {"1", "2550", "2551", "0", ""})
    \cup Elements("Height", {"300", "3300", "4200", "4201", "-1"})
    \cup Elements("XOffset", {"70", "71", "-1"})
    \cup Elements("YOffset", {"692", "693", "wide"})
OtherElements ==
    Elements("InputSource", {"Feeder", "Platen"})
    \cup Elements("ColorMode", {"Grayscale8", "RGB24"})
    \cup UNION {Elements(n, {"image/jpeg", "application/pdf"}) : n \in Format}
    \cup Elements("XResolution", {"300", "600"}) \cup Elements("YResolution", {"300", "wide"})
    \cup Elements("Duplex", {"true", "false", "", "maybe"})
    \cup Elements("Sides", {"OneSided", "Duplex", "TwoSidedLongEdge", "maybe"})
    \cup Elements("BlankPageDetection", {"on", "off", ""})
    \cup Elements("BlankPageDetectionAndRemoval", {"true", "false", "maybe"})
Documents ==
    UNION {[1..k -> RegionElements \cup OtherElements] : k \in 0..2}
    \cup [1..3 -> RegionElements]
MCRequests ==
    [known : {TRUE}, content_length : {"within"}, xml : {"well-formed"}, elements : Documents]
    \cup [known : BOOLEAN, content_length : {"absent", "garbage", "outside", "within"},
          xml : {"well-formed", "malformed", "forbidden", "undecodable"},
          elements : {<<>>}]

----------------------------------------------------------------------------
\* Commands, JpegFrames, Discovery

MCLengths == {-1, 0, 1, 40, 96, 255, 256, 8192, 8193, 65535, 65536, 16777215, 16777216}

MCBodies == {<<>>, <<"00">>, <<"D8">>, <<"D9", "D8">>, <<"FF", "00">>, <<"FF", "00", "D9">>}
MCPaddings == {<<>>, <<"00">>, <<"FF", "00">>, <<"D9">>}

MCCandidateLists == {<<>>, <<2, 1>>, <<1, 1, 2>>, <<3, 2, 1, 2>>, <<4, 1, 2>>, <<1, 3, 4>>}

----------------------------------------------------------------------------
RestRequest    == CHOOSE r \in MCRequests : ~r.known
RestInvocation == Invoked(NoFile, NoArgs, NoEnv)

StartupRests ==
    /\ invocation = RestInvocation /\ stage = "exited" /\ config = Default
    /\ backend = "none" /\ socket = NoSocket /\ published = NoService /\ exit = "none"
RequestRests ==
    /\ request = RestRequest /\ blank_back_skip = TRUE /\ paper = "a4" /\ slot = "free"
    /\ status = "404" /\ settings = NoSettings /\ capture = NoCapture
OcrRests ==
    /\ keep_intermediates = FALSE /\ enabled = FALSE /\ running = FALSE
    /\ at = [j \in Jobs |-> "start"] /\ work_dir = [j \in Jobs |-> FALSE]
    /\ image_pdf = [j \in Jobs |-> "none"] /\ final_pdf = [j \in Jobs |-> "none"]
    /\ result = [j \in Jobs |-> NoResult] /\ ocr_result = [j \in Jobs |-> NoResult]
CommandRests ==
    /\ command = [name |-> "tur", length |-> 0] /\ exchange = "raised" /\ sent = Unsent
    /\ raw_len = 0 /\ data_len = 0
FramesRest ==
    /\ sides = <<SOI \o EOI>> /\ padding = <<>> /\ received = 4
    /\ place = "read" /\ frames = sides /\ offset = 5
DiscoveryRests ==
    /\ candidates = <<>> /\ queued = <<>> /\ probing = <<>> /\ done = <<>>
    /\ results = <<>> /\ outcome = "returned"

EdgesInit ==
    /\ which \in {"ocr", "startup", "request", "command", "frames", "discovery"}
    /\ IF which = "ocr"       THEN Init          ELSE OcrRests
    /\ IF which = "startup"   THEN StartupInit   ELSE StartupRests
    /\ IF which = "request"   THEN RequestInit   ELSE RequestRests
    /\ IF which = "command"   THEN CommandInit   ELSE CommandRests
    /\ IF which = "frames"    THEN FramesInit    ELSE FramesRest
    /\ IF which = "discovery" THEN DiscoveryInit ELSE DiscoveryRests

EdgesNext ==
    /\ UNCHANGED which
    /\ \/ Next /\ UNCHANGED <<startupVars, requestVars, commandVars, frameVars, discoveryVars>>
       \/ StartupNext /\ UNCHANGED <<vars, requestVars, commandVars, frameVars, discoveryVars>>
       \/ RequestNext /\ UNCHANGED <<vars, startupVars, commandVars, frameVars, discoveryVars>>
       \/ CommandNext /\ UNCHANGED <<vars, startupVars, requestVars, frameVars, discoveryVars>>
       \/ FramesNext /\ UNCHANGED <<vars, startupVars, requestVars, commandVars, discoveryVars>>
       \/ DiscoveryNext /\ UNCHANGED <<vars, startupVars, requestVars, commandVars, frameVars>>

edgeVars == <<which, vars, startupVars, requestVars, commandVars, frameVars, discoveryVars>>
EdgesSpec == EdgesInit /\ [][EdgesNext]_edgeVars

\* A POST alone.
RequestEdgesSpec == which = "request" /\ EdgesSpec
=============================================================================
