---------------------------- MODULE EdgesProofs ----------------------------
(***************************************************************************)
(* Proofs about the edges of the adapter, for every value of their         *)
(* constants.  Startup: no paper moves and nobody else is served without   *)
(* consent, the settings given survive, and what mDNS advertises is        *)
(* served.  Commands: the lengths of an exchange agree.  ScanRequest: what *)
(* the capabilities advertise is accepted, and what is asked is scanned.   *)
(* Discovery: every scanner that answers is found, once.  JpegFrames: the  *)
(* frames of a capture are whole sides.                                    *)
(***************************************************************************)
EXTENDS
    Startup, Commands, ScanRequest, Discovery, JpegFrames,
    FiniteSetTheorems, SequenceTheorems, WellFoundedInduction, TLAPS

\* Every value a setting can have.
Values ==
    {"absent", "blank", "none", "default", "true", "false", "file", "cli", "env", "eSCL",
     "loopback", "any", "lan", "0", "8080", "9000", "9001"}
Url == [host : Values, port : Values]
Scanner ==
    [host : Values, timeout : Values, safe_mode : Values, allow_live_scans : Values]
Escl ==
    [bind : Values, port : Values, service_name : Values, admin_url : Url,
     root_resource : Values]
Config == [scanner : Scanner, escl : Escl, paths : [scan_inbox : Values], ocr : Values]

\* Somebody named the scanner; somebody gave up both of its protections.
HostNamed ==
    \/ invocation.file.host = "file" \/ invocation.args.host = "cli"
    \/ invocation.file.host = "absent" /\ invocation.env.host = "env"
SwitchesOff ==
    \/ invocation.args.allow_live_scans
    \/ invocation.file.safe_mode = "false" /\ invocation.file.allow_live_scans = "true"

Typed == invocation \in Invocations /\ config \in Config

\* A configuration that names a host, or may scan, does so by consent.
ConfigConsents ==
    stage \in {"gate", "backend"} =>
        /\ config.scanner.host # "none" => HostNamed
        /\ config.scanner.safe_mode = "false" /\ config.scanner.allow_live_scans = "true"
              => SwitchesOff

LiveConsents ==
    backend = "live" => args.live /\ ~args.mock /\ HostNamed /\ SwitchesOff

BindConsents ==
    /\ stage \in {"backend", "listen"} => BindAllowed
    /\ socket.bind \in {"any", "lan"} => args.allow_lan_bind

ConsentInv == Typed /\ ConfigConsents /\ LiveConsents /\ BindConsents

----------------------------------------------------------------------------
(* What one invocation may be, from the assumption of Startup. *)
LEMMA InvocationShape ==
    ASSUME NEW i \in Invocations
    PROVE  i.file \in File /\ i.args \in Args /\ i.env \in Env
    BY InvocationsAssumption

(* The file and the environment together yield a configuration, whose host    *)
(* and switches are theirs.                                                   *)
LEMMA FromMapping ==
    ASSUME NEW file \in File, NEW env \in Env
    PROVE  LET c == config_from_mapping(file, env) IN
           /\ c \in Config
           /\ c.scanner.host # "none" =>
                 file.host = "file" \/ (file.host = "absent" /\ env.host = "env")
           /\ c.scanner.safe_mode = "false" => file.safe_mode = "false"
           /\ c.scanner.allow_live_scans = "true" => file.allow_live_scans = "true"
    <1> DEFINE c == config_from_mapping(file, env)
    <1>1. /\ file.host \in {"absent", "blank", "file"} /\ env.host \in {"absent", "blank", "env"}
          /\ file.timeout \in Values /\ file.safe_mode \in Flag /\ file.allow_live_scans \in Flag
          /\ file.bind \in Values /\ file.port \in Values /\ file.service_name \in Values
          /\ file.root_resource \in Values /\ file.scan_inbox \in Values /\ file.ocr \in Values
        BY DEF File, Env, Flag, Binds, Values
    <1>2. file.admin_url \in Url
        BY DEF File, Url, NoUrl, DefaultUrl, Values
    <1>3. /\ ScannerHost(file, env) \in Values
          /\ ScannerHost(file, env) # "none" =>
                file.host = "file" \/ (file.host = "absent" /\ env.host = "env")
        BY <1>1 DEF ScannerHost, Or, Values
    <1>4. /\ Or(file.safe_mode, "true") = "false" => file.safe_mode = "false"
          /\ Or(file.allow_live_scans, "false") = "true" => file.allow_live_scans = "true"
        BY <1>1 DEF Or
    <1>5. \A value, default \in Values : Or(value, default) \in Values
        BY DEF Or, Values
    <1>6. OrUrl(file.admin_url, DefaultUrl) \in Url
        BY <1>2 DEF OrUrl, Url, DefaultUrl, Values
    <1>7. c.scanner \in Scanner
        <2>1. {"default", "true", "false"} \cup Flag \subseteq Values
            BY DEF Flag, Values
        <2>2. /\ Or(file.timeout, "default") \in Values
              /\ Or(file.safe_mode, "true") \in Values
              /\ Or(file.allow_live_scans, "false") \in Values
            BY <1>1, <1>5, <2>1
        <2> QED BY <1>3, <2>2 DEF config_from_mapping, Scanner
    <1>8. c.escl \in Escl
        <2>1. {"loopback", "8080", "default", "eSCL"} \subseteq Values
            BY DEF Values
        <2>2. /\ Or(file.bind, "loopback") \in Values
              /\ Or(file.port, "8080") \in Values
              /\ Or(file.service_name, "default") \in Values
              /\ Or(file.root_resource, "eSCL") \in Values
            BY <1>1, <1>5, <2>1
        <2> QED BY <1>6, <2>2 DEF config_from_mapping, Escl
    <1>9. c.paths \in [scan_inbox : Values] /\ c.ocr \in Values
        <2>1. "default" \in Values
            BY DEF Values
        <2> QED BY <1>1, <1>5, <2>1 DEF config_from_mapping
    <1>10. c \in Config
        BY <1>7, <1>8, <1>9 DEF config_from_mapping, Config
    <1>11. /\ c.scanner.host = ScannerHost(file, env)
           /\ c.scanner.safe_mode = Or(file.safe_mode, "true")
           /\ c.scanner.allow_live_scans = Or(file.allow_live_scans, "false")
        BY DEF config_from_mapping
    <1> QED BY <1>3, <1>4, <1>10, <1>11

(* The overrides of the command line keep the shape, and of the scanner's      *)
(* section only --host and --allow-live-scans change anything.                 *)
LEMMA Overridden ==
    ASSUME NEW c \in Config, NEW given \in Args
    PROVE  LET d == override_path_config(override_escl_config(
                        override_live_config(c, given), given), given) IN
           /\ d \in Config
           /\ d.scanner.host # "none" => given.host = "cli" \/ c.scanner.host # "none"
           /\ d.scanner.safe_mode = "false" =>
                 given.allow_live_scans \/ c.scanner.safe_mode = "false"
           /\ d.scanner.allow_live_scans = "true" =>
                 given.allow_live_scans \/ c.scanner.allow_live_scans = "true"
    <1> DEFINE live == override_live_config(c, given)
               escl == override_escl_config(live, given)
               d    == override_path_config(escl, given)
    <1>1. /\ given.host \in {"absent", "cli"} /\ given.allow_live_scans \in BOOLEAN
          /\ given.service_name \in Values /\ given.root_resource \in Values
          /\ given.scan_inbox \in Values /\ given.admin_url \in Url
        BY DEF Args, Url, NoUrl, DefaultUrl, Values
    <1>2. live \in Config
        BY <1>1 DEF override_live_config, Config, Scanner, Or, Values
    <1>3. /\ live.scanner.host = Or(given.host, c.scanner.host)
          /\ given.allow_live_scans \/ live.scanner.safe_mode = c.scanner.safe_mode
          /\ given.allow_live_scans \/ live.scanner.allow_live_scans = c.scanner.allow_live_scans
        BY DEF override_live_config, Config, Scanner
    <1>4. /\ live.scanner.host # "none" => given.host = "cli" \/ c.scanner.host # "none"
          /\ live.scanner.safe_mode = "false" =>
                given.allow_live_scans \/ c.scanner.safe_mode = "false"
          /\ live.scanner.allow_live_scans = "true" =>
                given.allow_live_scans \/ c.scanner.allow_live_scans = "true"
        BY <1>1, <1>3 DEF Or
    <1>5. escl \in Config /\ escl.scanner = live.scanner
        BY <1>1, <1>2 DEF override_escl_config, Config, Escl, Or, OrUrl
    <1>6. d \in Config /\ d.scanner = escl.scanner
        BY <1>1, <1>5 DEF override_path_config, Config, Or
    <1> QED BY <1>4, <1>5, <1>6

(* The endpoint's override keeps the shape and the scanner's section, and      *)
(* stores the bind address it is given.                                        *)
LEMMA EndpointStored ==
    ASSUME NEW c \in Config, NEW bind \in Values, NEW port \in Values
    PROVE  LET d == override_escl_endpoint(c, bind, port) IN
           d \in Config /\ d.scanner = c.scanner /\ d.escl.bind = bind
    BY DEF override_escl_endpoint, Config, Escl, Url, Values

(* Bind and Port are settings, of the configuration or of the command line.    *)
LEMMA EndpointValues ==
    ASSUME Typed
    PROVE  Bind \in Values /\ Port \in Values
    <1>1. args \in Args
        BY InvocationShape DEF Typed, args
    <1>2. /\ args.bind \in Binds \cup {"absent"} /\ args.port \in {"absent", "0", "9001"}
          /\ Binds \cup {"0", "9001"} \subseteq Values
        BY <1>1 DEF Args, Binds, Values
    <1>3. config.escl.bind \in Values /\ config.escl.port \in Values
        BY DEF Typed, Config, Escl
    <1> QED BY <1>2, <1>3 DEF Bind, Port, Or

----------------------------------------------------------------------------
(* One lemma per step that touches what the invariant speaks of. *)

(* The three overrides ask for no more than somebody asked for.                *)
LEMMA ConfigureConsents ==
    ASSUME ConsentInv, Configure
    PROVE  ConsentInv'
    <1> DEFINE mapped == config_from_mapping(invocation.file, invocation.env)
    <1>1. /\ invocation' = invocation /\ stage' = "gate"
          /\ config' = override_path_config(override_escl_config(
                          override_live_config(mapped, args), args), args)
          /\ backend' = backend /\ socket' = socket
        BY DEF Configure, Proceed
    <1>2. invocation.file \in File /\ invocation.env \in Env /\ args \in Args
        BY InvocationShape DEF ConsentInv, Typed, args
    <1>3. /\ mapped \in Config
          /\ mapped.scanner.host # "none" =>
                \/ invocation.file.host = "file"
                \/ invocation.file.host = "absent" /\ invocation.env.host = "env"
          /\ mapped.scanner.safe_mode = "false" => invocation.file.safe_mode = "false"
          /\ mapped.scanner.allow_live_scans = "true" =>
                invocation.file.allow_live_scans = "true"
        BY <1>2, FromMapping
    <1>4. /\ config' \in Config
          /\ config'.scanner.host # "none" =>
                args.host = "cli" \/ mapped.scanner.host # "none"
          /\ config'.scanner.safe_mode = "false" =>
                args.allow_live_scans \/ mapped.scanner.safe_mode = "false"
          /\ config'.scanner.allow_live_scans = "true" =>
                args.allow_live_scans \/ mapped.scanner.allow_live_scans = "true"
        BY <1>1, <1>2, <1>3, Overridden
    <1>5. Typed'
        BY <1>1, <1>4 DEF ConsentInv, Typed
    <1>6. ConfigConsents'
        BY <1>1, <1>3, <1>4 DEF ConfigConsents, HostNamed, SwitchesOff, args
    <1>7. LiveConsents' /\ BindConsents'
        BY <1>1 DEF ConsentInv, LiveConsents, BindConsents, HostNamed, SwitchesOff, args
    <1> QED BY <1>5, <1>6, <1>7 DEF ConsentInv

\* Storing the bind address does not change which one the next step reads.
LEMMA GateConsents ==
    ASSUME ConsentInv, Gate
    PROVE  ConsentInv'
    <1>1. /\ invocation' = invocation /\ stage = "gate" /\ stage' = "backend"
          /\ config' = override_escl_endpoint(config, Bind, Port)
          /\ backend' = backend /\ socket' = socket /\ BindAllowed
        BY DEF Gate, Proceed
    <1>2. config' \in Config /\ config'.scanner = config.scanner /\ config'.escl.bind = Bind
        BY <1>1, EndpointValues, EndpointStored DEF ConsentInv, Typed
    <1>3. Typed'
        BY <1>1, <1>2 DEF ConsentInv, Typed
    <1>4. ConfigConsents'
        BY <1>1, <1>2 DEF ConsentInv, ConfigConsents, HostNamed, SwitchesOff, args
    <1>5. Bind' = Bind
        BY <1>1, <1>2 DEF Bind, Or, args
    <1>6. LiveConsents' /\ BindConsents'
        BY <1>1, <1>5
        DEF ConsentInv, LiveConsents, BindConsents, BindAllowed, HostNamed, SwitchesOff, args
    <1> QED BY <1>3, <1>4, <1>6 DEF ConsentInv

(* The live backend is made behind the gate only.                              *)
LEMMA MakeBackendConsents ==
    ASSUME ConsentInv, MakeBackend
    PROVE  ConsentInv'
    <1>1. /\ invocation' = invocation /\ stage = "backend" /\ stage' = "listen"
          /\ config' = config /\ socket' = socket
          /\ backend' = "live" => Live /\ MayScan
        BY DEF MakeBackend, Proceed
    <1>2. Typed' /\ ConfigConsents'
        BY <1>1 DEF ConsentInv, Typed, ConfigConsents
    <1>3. LiveConsents'
        BY <1>1 DEF ConsentInv, LiveConsents, ConfigConsents, Live, MayScan, HostNamed,
                    SwitchesOff, args
    <1>4. BindConsents'
        BY <1>1 DEF ConsentInv, BindConsents, BindAllowed, Bind, args
    <1> QED BY <1>2, <1>3, <1>4 DEF ConsentInv

(* The socket is bound where the gate allowed.                                 *)
LEMMA ListenConsents ==
    ASSUME ConsentInv, Listen
    PROVE  ConsentInv'
    <1>1. /\ invocation' = invocation /\ stage = "listen" /\ stage' \in {"publish", "serve"}
          /\ config' = config /\ backend' = backend /\ socket'.bind = Bind
        BY DEF Listen, Proceed
    <1>2. Typed' /\ ConfigConsents' /\ LiveConsents'
        BY <1>1 DEF ConsentInv, Typed, ConfigConsents, LiveConsents, HostNamed, SwitchesOff, args
    <1>3. BindConsents'
        BY <1>1 DEF ConsentInv, BindConsents, BindAllowed, args
    <1> QED BY <1>2, <1>3 DEF ConsentInv

\* Every other step leaves the choices alone and at most closes the socket.
LEMMA RestConsents ==
    ASSUME ConsentInv, UNCHANGED <<invocation, config, backend>>,
           socket' \in {socket, NoSocket}, stage' \notin {"gate", "backend", "listen"}
    PROVE  ConsentInv'
    <1>1. Typed' /\ ConfigConsents' /\ LiveConsents'
        BY DEF ConsentInv, Typed, ConfigConsents, LiveConsents, HostNamed, SwitchesOff, args
    <1>2. BindConsents'
        BY DEF ConsentInv, BindConsents, NoSocket, args
    <1> QED BY <1>1, <1>2 DEF ConsentInv

(* No step breaks the invariant.                                               *)
LEMMA NextConsents ==
    ASSUME ConsentInv, [StartupNext]_startupVars
    PROVE  ConsentInv'
    <1>1. ASSUME NEW code, Exit(code)
          PROVE  ConsentInv'
        BY <1>1, RestConsents DEF Exit
    <1>2. CASE Configure
        BY <1>2, ConfigureConsents
    <1>3. CASE Gate
        BY <1>3, GateConsents
    <1>4. CASE MakeBackend
        BY <1>4, MakeBackendConsents
    <1>5. CASE Listen
        BY <1>5, ListenConsents
    <1>6. CASE Publish
        BY <1>6, RestConsents DEF Publish, Proceed
    <1>7. CASE Interrupt
        BY <1>7, RestConsents DEF Interrupt, Proceed
    <1>8. CASE Unpublish
        BY <1>8, RestConsents DEF Unpublish, Proceed
    <1>9. CASE \/ ConfigureFails \/ GateRefuses \/ BackendRefuses \/ ListenFails
               \/ PublishFails \/ UnpublishFails \/ Close \/ Kill
        BY <1>1, <1>9
        DEF ConfigureFails, GateRefuses, BackendRefuses, ListenFails, PublishFails,
            UnpublishFails, Close, Kill
    <1>10. CASE UNCHANGED startupVars
        BY <1>10 DEF startupVars, ConsentInv, Typed, ConfigConsents, LiveConsents, BindConsents,
                     BindAllowed, Bind, HostNamed, SwitchesOff, args
    <1> QED BY <1>2, <1>3, <1>4, <1>5, <1>6, <1>7, <1>8, <1>9, <1>10 DEF StartupNext

(* The two gates of main hold whatever mixture of file, environment and        *)
(* command line starts the adapter: no paper moves and nobody else is served   *)
(* without consent.                                                            *)
THEOREM Consent == StartupSpec => []NothingWithoutConsent
    <1>1. StartupInit => ConsentInv
        <2> SUFFICES ASSUME StartupInit
                     PROVE  ConsentInv
            OBVIOUS
        <2>1. Default \in Config
            BY DEF Default, DefaultUrl, Config, Scanner, Escl, Url, Values
        <2>2. Typed
            BY <2>1 DEF StartupInit, Typed
        <2>3. ConfigConsents /\ LiveConsents /\ BindConsents
            BY DEF StartupInit, ConfigConsents, LiveConsents, BindConsents, NoSocket
        <2> QED BY <2>2, <2>3 DEF ConsentInv
    <1>2. ConsentInv /\ [StartupNext]_startupVars => ConsentInv'
        BY NextConsents
    <1>3. ConsentInv => NothingWithoutConsent
        BY DEF ConsentInv, LiveConsents, BindConsents, HostNamed, SwitchesOff,
               NothingWithoutConsent, args
    <1> QED BY <1>1, <1>2, <1>3, PTL DEF StartupSpec

----------------------------------------------------------------------------
(* The settings: which source each of them comes from once the gate is        *)
(* passed.                                                                    *)

\* The configuration before and after the endpoint is stored in it.
Configured ==
    override_path_config(override_escl_config(override_live_config(
        config_from_mapping(invocation.file, invocation.env), args), args), args)
Final ==
    override_escl_endpoint(Configured, Or(args.bind, Configured.escl.bind),
                           Or(args.port, Configured.escl.port))

AfterGate == {"backend", "listen", "publish", "serve", "unpublish", "close"}

SettingsInv ==
    /\ invocation \in Invocations
    /\ stage \in {"configure", "gate", "exited"} \cup AfterGate
    /\ stage = "gate" => config = Configured
    /\ stage \in AfterGate => config = Final

(* The overrides one after the other: what each section holds after all three.*)
LEMMA ConfiguredSections ==
    ASSUME NEW file \in File, NEW env \in Env, NEW given \in Args
    PROVE  LET c == config_from_mapping(file, env)
               d == override_path_config(override_escl_config(
                        override_live_config(c, given), given), given) IN
           /\ d \in Config
           /\ d.scanner.host = Or(given.host, c.scanner.host)
           /\ d.scanner.timeout = Or(file.timeout, "default")
           /\ d.scanner.safe_mode =
                 IF given.allow_live_scans THEN "false" ELSE Or(file.safe_mode, "true")
           /\ d.scanner.allow_live_scans =
                 IF given.allow_live_scans THEN "true"
                 ELSE Or(file.allow_live_scans, "false")
           /\ d.escl.bind = Or(file.bind, "loopback")
           /\ d.escl.port = Or(file.port, "8080")
           /\ d.escl.service_name =
                 Or(given.service_name, Or(file.service_name, "default"))
           /\ d.escl.admin_url = OrUrl(given.admin_url, OrUrl(file.admin_url, DefaultUrl))
           /\ d.escl.root_resource =
                 Or(given.root_resource, Or(file.root_resource, "eSCL"))
           /\ d.paths.scan_inbox = Or(given.scan_inbox, Or(file.scan_inbox, "default"))
           /\ d.ocr = Or(file.ocr, "default")
    <1> DEFINE c    == config_from_mapping(file, env)
               live == override_live_config(c, given)
               escl == override_escl_config(live, given)
               d    == override_path_config(escl, given)
    <1>1. c \in Config
        BY FromMapping
    <1>2. /\ c.scanner.timeout = Or(file.timeout, "default")
          /\ c.scanner.safe_mode = Or(file.safe_mode, "true")
          /\ c.scanner.allow_live_scans = Or(file.allow_live_scans, "false")
          /\ c.escl = [bind |-> Or(file.bind, "loopback"), port |-> Or(file.port, "8080"),
                       service_name |-> Or(file.service_name, "default"),
                       admin_url |-> OrUrl(file.admin_url, DefaultUrl),
                       root_resource |-> Or(file.root_resource, "eSCL")]
          /\ c.paths = [scan_inbox |-> Or(file.scan_inbox, "default")]
          /\ c.ocr = Or(file.ocr, "default")
        BY DEF config_from_mapping
    <1> HIDE DEF c
    <1>3. /\ live.scanner =
                [c.scanner EXCEPT
                    !.host = Or(given.host, @),
                    !.safe_mode = IF given.allow_live_scans THEN "false" ELSE @,
                    !.allow_live_scans = IF given.allow_live_scans THEN "true" ELSE @]
          /\ live.escl = c.escl /\ live.paths = c.paths /\ live.ocr = c.ocr
        BY <1>1 DEF override_live_config, Config, Scanner
    <1>4. /\ live.scanner.host = Or(given.host, c.scanner.host)
          /\ live.scanner.timeout = c.scanner.timeout
          /\ live.scanner.safe_mode =
                IF given.allow_live_scans THEN "false" ELSE c.scanner.safe_mode
          /\ live.scanner.allow_live_scans =
                IF given.allow_live_scans THEN "true" ELSE c.scanner.allow_live_scans
        BY <1>1, <1>3 DEF Config, Scanner
    <1>5. d \in Config
        BY <1>1, Overridden DEF c
    <1>6. /\ escl.scanner = live.scanner /\ escl.paths = live.paths /\ escl.ocr = live.ocr
          /\ escl.escl = [live.escl EXCEPT
                             !.service_name = Or(given.service_name, @),
                             !.admin_url = OrUrl(given.admin_url, @),
                             !.root_resource = Or(given.root_resource, @)]
        BY <1>1 DEF override_live_config, override_escl_config, Config
    <1> HIDE DEF live
    <1>7. /\ escl.escl.bind = c.escl.bind /\ escl.escl.port = c.escl.port
          /\ escl.escl.service_name = Or(given.service_name, c.escl.service_name)
          /\ escl.escl.admin_url = OrUrl(given.admin_url, c.escl.admin_url)
          /\ escl.escl.root_resource = Or(given.root_resource, c.escl.root_resource)
        BY <1>1, <1>3, <1>6 DEF Config, Escl
    <1>8. /\ d.scanner = escl.scanner /\ d.escl = escl.escl /\ d.ocr = escl.ocr
          /\ d.paths.scan_inbox = Or(given.scan_inbox, c.paths.scan_inbox)
        BY <1>1, <1>3, <1>6
        DEF live, override_live_config, override_escl_config, override_path_config, Config
    <1> HIDE DEF escl, d
    <1>9. QED
        BY <1>2, <1>3, <1>4, <1>5, <1>6, <1>7, <1>8 DEF c, live, escl, d

(* Storing the endpoint changes the endpoint, and an admin page that is still *)
(* the default one.                                                           *)
LEMMA EndpointSections ==
    ASSUME NEW c \in Config, NEW bind \in Values, NEW port \in Values
    PROVE  LET d == override_escl_endpoint(c, bind, port) IN
           /\ d.scanner = c.scanner /\ d.paths = c.paths /\ d.ocr = c.ocr
           /\ d.escl.bind = bind /\ d.escl.port = port
           /\ d.escl.service_name = c.escl.service_name
           /\ d.escl.root_resource = c.escl.root_resource
           /\ d.escl.admin_url =
                 IF c.escl.admin_url # DefaultUrl THEN c.escl.admin_url
                 ELSE [host |-> IF bind = "any" THEN "loopback" ELSE bind, port |-> port]
    BY DEF override_escl_endpoint, Config, Escl

(* Where each setting of the final configuration comes from.                  *)
LEMMA FinalSections ==
    ASSUME invocation \in Invocations
    PROVE  LET file == invocation.file IN
           /\ Final.escl.bind = Or(args.bind, Or(file.bind, "loopback"))
           /\ Final.escl.port = Or(args.port, Or(file.port, "8080"))
           /\ Final.escl.service_name =
                 Or(args.service_name, Or(file.service_name, "default"))
           /\ Final.escl.root_resource =
                 Or(args.root_resource, Or(file.root_resource, "eSCL"))
           /\ Final.escl.admin_url =
                 LET chosen == OrUrl(args.admin_url, OrUrl(file.admin_url, DefaultUrl)) IN
                 IF chosen # DefaultUrl THEN chosen
                 ELSE [host |-> IF Final.escl.bind = "any" THEN "loopback"
                                ELSE Final.escl.bind,
                       port |-> Final.escl.port]
           /\ Final.paths.scan_inbox =
                 Or(args.scan_inbox, Or(file.scan_inbox, "default"))
           /\ Final.scanner = Configured.scanner /\ Final.ocr = Or(file.ocr, "default")
    <1>1. invocation.file \in File /\ invocation.env \in Env /\ args \in Args
        BY InvocationShape DEF args
    <1>2. /\ Configured \in Config
          /\ Configured.escl.bind = Or(invocation.file.bind, "loopback")
          /\ Configured.escl.port = Or(invocation.file.port, "8080")
          /\ Configured.escl.service_name =
                Or(args.service_name, Or(invocation.file.service_name, "default"))
          /\ Configured.escl.root_resource =
                Or(args.root_resource, Or(invocation.file.root_resource, "eSCL"))
          /\ Configured.escl.admin_url =
                OrUrl(args.admin_url, OrUrl(invocation.file.admin_url, DefaultUrl))
          /\ Configured.paths.scan_inbox =
                Or(args.scan_inbox, Or(invocation.file.scan_inbox, "default"))
          /\ Configured.ocr = Or(invocation.file.ocr, "default")
        BY <1>1, ConfiguredSections DEF Configured
    <1> DEFINE bind == Or(args.bind, Configured.escl.bind)
               port == Or(args.port, Configured.escl.port)
    <1>3. bind \in Values /\ port \in Values
        <2>1. /\ args.bind \in Values /\ args.port \in Values
              /\ Configured.escl.bind \in Values /\ Configured.escl.port \in Values
            BY <1>1, <1>2 DEF Args, Binds, Values, Config, Escl
        <2>2. QED BY <2>1 DEF Or
    <1>4. Final = override_escl_endpoint(Configured, bind, port)
        BY DEF Final
    <1> HIDE DEF bind, port
    <1>5. /\ Final.scanner = Configured.scanner /\ Final.paths = Configured.paths
          /\ Final.ocr = Configured.ocr
          /\ Final.escl.bind = bind /\ Final.escl.port = port
          /\ Final.escl.service_name = Configured.escl.service_name
          /\ Final.escl.root_resource = Configured.escl.root_resource
          /\ Final.escl.admin_url =
                IF Configured.escl.admin_url # DefaultUrl THEN Configured.escl.admin_url
                ELSE [host |-> IF bind = "any" THEN "loopback" ELSE bind, port |-> port]
        BY <1>2, <1>3, <1>4, EndpointSections
    <1>6. QED
        BY <1>2, <1>5 DEF bind, port

(* The gate computes the final configuration, and no later step changes it.   *)
LEMMA NextSettings == SettingsInv /\ [StartupNext]_startupVars => SettingsInv'
    <1> SUFFICES ASSUME SettingsInv, [StartupNext]_startupVars
                 PROVE  SettingsInv'
        OBVIOUS
    <1> USE DEF SettingsInv, AfterGate
    <1>1. ASSUME invocation' = invocation
          PROVE  Configured' = Configured /\ Final' = Final
        BY <1>1 DEF Configured, Final, args
    <1>2. ASSUME NEW code, Exit(code) PROVE SettingsInv'
        BY <1>2 DEF Exit
    <1>3. CASE Configure
        BY <1>1, <1>3 DEF Configure, Proceed, Configured
    <1>4. CASE Gate
        <2>1. /\ config = Configured /\ stage' = "backend" /\ invocation' = invocation
              /\ config' = override_escl_endpoint(config, Bind, Port)
            BY <1>4 DEF Gate, Proceed
        <2>2. Bind = Or(args.bind, Configured.escl.bind)
              /\ Port = Or(args.port, Configured.escl.port)
            BY <2>1 DEF Bind, Port
        <2>3. config' = Final BY <2>1, <2>2 DEF Final
        <2>4. QED BY <1>1, <2>1, <2>3
    <1>5. CASE MakeBackend \/ Listen \/ Publish \/ Interrupt \/ Unpublish
        <2>1. /\ stage \in AfterGate /\ stage' \in AfterGate
              /\ config' = config /\ invocation' = invocation
            BY <1>5 DEF MakeBackend, Listen, Publish, Interrupt, Unpublish, Proceed
        <2>2. QED BY <1>1, <2>1
    <1>6. CASE \/ ConfigureFails \/ GateRefuses \/ BackendRefuses \/ ListenFails
               \/ PublishFails \/ UnpublishFails \/ Close \/ Kill
        BY <1>2, <1>6
        DEF ConfigureFails, GateRefuses, BackendRefuses, ListenFails, PublishFails,
            UnpublishFails, Close, Kill
    <1>7. CASE UNCHANGED startupVars
        BY <1>1, <1>7 DEF startupVars
    <1>8. QED BY <1>3, <1>4, <1>5, <1>6, <1>7 DEF StartupNext

(* From the gate on the configuration is a function of the invocation alone.  *)
THEOREM SettingsInvariant == StartupSpec => []SettingsInv
    <1>1. StartupInit => SettingsInv
        BY DEF StartupInit, SettingsInv, AfterGate
    <1>2. QED BY <1>1, NextSettings, PTL DEF StartupSpec

(* No override loses what another source gave, whatever the mixture.          *)
THEOREM ChoicesKept == StartupSpec => []ChoicesSurvive
    <1>1. SettingsInv => ChoicesSurvive
        <2> SUFFICES ASSUME SettingsInv, stage \notin {"configure", "gate", "exited"}
                     PROVE  ChoicesSurvive
            BY DEF ChoicesSurvive
        <2>1. config = Final /\ invocation \in Invocations
            BY DEF SettingsInv
        <2>2. invocation.file \in File /\ invocation.env \in Env /\ args \in Args
            BY <2>1, InvocationShape DEF args
        <2> DEFINE c == config_from_mapping(invocation.file, invocation.env)
        <2>3. /\ Configured.scanner.host = Or(args.host, c.scanner.host)
              /\ Configured.scanner.timeout = Or(invocation.file.timeout, "default")
              /\ Configured.scanner.safe_mode =
                    IF args.allow_live_scans THEN "false"
                    ELSE Or(invocation.file.safe_mode, "true")
              /\ Configured.scanner.allow_live_scans =
                    IF args.allow_live_scans THEN "true"
                    ELSE Or(invocation.file.allow_live_scans, "false")
            BY <2>2, ConfiguredSections DEF Configured
        <2>4. args.host = "cli" => Configured.scanner.host = "cli"
            BY <2>3 DEF Or
        <2>5. QED
            BY <2>1, <2>3, <2>4, FinalSections DEF ChoicesSurvive
    <1>2. QED BY <1>1, SettingsInvariant, PTL

----------------------------------------------------------------------------
(* The service: what is advertised against what is served.                    *)

Listening ==
    [bind |-> Bind, port |-> IF Port = "0" THEN "assigned" ELSE Port,
     root |-> config.escl.root_resource]
Offered ==
    [port |-> config.escl.port, adminurl |-> config.escl.admin_url,
     rs |-> IF config.escl.root_resource = "blank" THEN "eSCL"
            ELSE config.escl.root_resource]

\* The socket is open before the service is registered and until it is
\* withdrawn, unless the process ends in between.
ServiceInv ==
    /\ stage = "exited" <=> exit # "none"
    /\ stage \in {"publish", "serve", "unpublish"} => socket = Listening
    /\ published = NoService \/ stage \in {"serve", "unpublish", "exited"}
    /\ published # NoService => published = Offered
    /\ exit = "130" => published = NoService

(* No step breaks it.                                                         *)
LEMMA NextService ==
    ASSUME SettingsInv, ServiceInv, [StartupNext]_startupVars
    PROVE  ServiceInv'
    <1> USE DEF ServiceInv
    <1>1. ASSUME UNCHANGED <<invocation, config>>
          PROVE  Listening' = Listening /\ Offered' = Offered
        BY <1>1 DEF Listening, Offered, Bind, Port, args
    <1>2. ASSUME NEW code, Exit(code), code # "none",
                 code # "130" \/ published = NoService
          PROVE  ServiceInv'
        BY <1>1, <1>2 DEF Exit
    <1>3. CASE Configure \/ Gate
        BY <1>3 DEF Configure, Gate, Proceed
    <1>4. CASE MakeBackend
        BY <1>1, <1>4 DEF MakeBackend, Proceed
    <1>5. CASE Listen
        <2>1. socket' = Listening BY <1>5 DEF Listen, Listening
        <2>2. QED BY <1>1, <1>5, <2>1 DEF Listen, Proceed
    <1>6. CASE Publish
        <2>1. published' = Offered BY <1>6 DEF Publish, Offered
        <2>2. QED BY <1>1, <1>6, <2>1 DEF Publish, Proceed
    <1>7. CASE Interrupt
        BY <1>1, <1>7 DEF Interrupt, Proceed
    <1>8. CASE Unpublish
        BY <1>1, <1>8 DEF Unpublish, Proceed
    <1>9. CASE Close
        BY <1>2, <1>9 DEF Close
    <1>10. CASE \/ ConfigureFails \/ GateRefuses \/ BackendRefuses \/ ListenFails
                \/ PublishFails \/ UnpublishFails \/ Kill
        BY <1>2, <1>10
        DEF ConfigureFails, GateRefuses, BackendRefuses, ListenFails, PublishFails,
            UnpublishFails, Kill
    <1>11. CASE UNCHANGED startupVars
        BY <1>1, <1>11 DEF startupVars
    <1>12. QED
        BY <1>3, <1>4, <1>5, <1>6, <1>7, <1>8, <1>9, <1>10, <1>11 DEF StartupNext

(* While the service is advertised and the process lives, clients that follow *)
(* the advertisement reach the server; after Ctrl-C nothing is advertised.    *)
THEOREM ServiceHonest == StartupSpec => []AdvertisedIsServed
    <1>1. StartupInit => ServiceInv
        BY DEF StartupInit, ServiceInv
    <1>2. SettingsInv /\ ServiceInv /\ [StartupNext]_startupVars => ServiceInv'
        BY NextService
    <1>3. SettingsInv /\ ServiceInv => AdvertisedIsServed
        <2> SUFFICES ASSUME SettingsInv, ServiceInv, published # NoService, exit = "none"
                     PROVE  /\ socket # NoSocket
                            /\ config.escl.port # "0" => published.port = socket.port
                            /\ socket.root # "blank" => published.rs = socket.root
                            /\ {invocation.file.admin_url, args.admin_url}
                                     \subseteq {NoUrl, DefaultUrl}
                                  /\ config.escl.port # "0" =>
                                  published.adminurl =
                                      [host |-> IF socket.bind = "any" THEN "loopback"
                                                ELSE socket.bind,
                                       port |-> socket.port]
            BY DEF ServiceInv, AdvertisedIsServed
        <2>1. stage \in {"serve", "unpublish"}
            BY DEF ServiceInv
        <2>2. /\ socket = Listening /\ published = Offered /\ config = Final
              /\ invocation \in Invocations
            BY <2>1 DEF ServiceInv, SettingsInv, AfterGate
        <2>3. Bind = Final.escl.bind /\ Port = Final.escl.port
            BY <2>2, FinalSections DEF Bind, Port, Or
        <2>4. /\ socket.bind = Final.escl.bind
              /\ socket.port = IF Final.escl.port = "0" THEN "assigned"
                               ELSE Final.escl.port
              /\ socket.root = Final.escl.root_resource
              /\ published.port = Final.escl.port
              /\ published.adminurl = Final.escl.admin_url
              /\ published.rs = IF Final.escl.root_resource = "blank" THEN "eSCL"
                                ELSE Final.escl.root_resource
            BY <2>2, <2>3 DEF Listening, Offered
        <2>5. socket # NoSocket
            <3>1. Final.escl.bind # "none"
                <4>1. invocation.file \in File /\ args \in Args
                    BY <2>2, InvocationShape DEF args
                <4>2. /\ invocation.file.bind \in Binds \cup {"absent"}
                      /\ args.bind \in Binds \cup {"absent"}
                    BY <4>1 DEF File, Args
                <4>3. QED BY <2>2, <4>2, FinalSections DEF Or, Binds
            <3>2. NoSocket.bind = "none" BY DEF NoSocket
            <3>3. QED BY <2>4, <3>1, <3>2
        <2>6. ASSUME {invocation.file.admin_url, args.admin_url} \subseteq {NoUrl, DefaultUrl},
                     Final.escl.port # "0"
              PROVE  published.adminurl =
                        [host |-> IF socket.bind = "any" THEN "loopback" ELSE socket.bind,
                         port |-> socket.port]
            <3>1. OrUrl(args.admin_url, OrUrl(invocation.file.admin_url, DefaultUrl))
                     = DefaultUrl
                BY <2>6 DEF OrUrl
            <3>2. QED BY <2>2, <2>4, <2>6, <3>1, FinalSections
        <2>7. QED BY <2>2, <2>4, <2>5, <2>6
    <1>4. QED BY <1>1, <1>2, <1>3, SettingsInvariant, PTL DEF StartupSpec

----------------------------------------------------------------------------
(* Commands: the lengths of one exchange.                                     *)

\* What has been said once a command is on its way, and what the answer holds.
SentInv ==
    /\ sent.dl = Length /\ sent.header = Header
    /\ sent.field \in CdbField(command.name, Length)
    /\ sent.data_out = IF command.name \in Outgoing THEN Length ELSE 0
ExchangeInv ==
    /\ command \in [name : CommandNames, length : Lengths]
    /\ exchange = "new" => sent = Unsent
    /\ sent # Unsent => SentInv
    /\ exchange \in {"sent", "served", "answered"} => SentInv
    /\ exchange = "served" /\ raw_len >= TRAILER_LEN => raw_len <= sent.dl + TRAILER_LEN
    /\ exchange = "answered" => data_len <= sent.dl
    /\ raw_len \in Int

(* What main asks for is a number.                                            *)
LEMMA LengthTyped ==
    ASSUME command \in [name : CommandNames, length : Lengths]
    PROVE  Length \in Int
    BY LengthsAssumption, SMT DEF Length, set_window_payload, define_mode_payload

(* A builder either raises or writes the number it is given, but for the      *)
(* commands of one byte.                                                      *)
LEMMA FieldHolds ==
    ASSUME NEW name \in CommandNames, NEW n \in Int, NEW field \in CdbField(name, n)
    PROVE  /\ name \in Bare => field = 0
           /\ name \in {"request-sense", "inquiry", "define-mode"} => field = n % 256
           /\ name \notin Bare \cup {"request-sense", "inquiry", "define-mode"} => field = n
           /\ name = "memory" => n <= 8192
    <1>1. CASE name \in Bare
        <2>1. field \in {0}
            BY <1>1, SMT DEF CdbField, Bare, ThreeBytes
        <2>2. name \notin {"request-sense", "inquiry", "define-mode", "memory"}
            BY <1>1, SMT DEF Bare
        <2>3. QED BY <1>1, <2>1, <2>2, SMT
    <1>2. CASE name \in {"request-sense", "inquiry", "define-mode"}
        <2>1. name \notin Bare \cup ThreeBytes
            BY <1>2, SMT DEF Bare, ThreeBytes
        <2>2. field \in Byte(n)
            BY <1>2, <2>1, SMT DEF CdbField
        <2>3. QED BY <1>2, <2>1, <2>2, SMT DEF Byte
    <1>3. CASE name \in ThreeBytes \cup {"set-window", "set-adjust-data"}
        <2>1. name \notin Bare \cup {"request-sense", "inquiry", "define-mode", "memory", "status"}
            BY <1>3, SMT DEF Bare, ThreeBytes
        <2>2. field \in u24be(n)
            BY <1>3, <2>1, SMT DEF CdbField
        <2>3. field = n
            BY <2>2, SMT DEF u24be
        <2>4. QED BY <2>1, <2>3, SMT
    <1>4. CASE name = "memory"
        <2>1. name \notin Bare \cup ThreeBytes
            BY <1>4, SMT DEF Bare, ThreeBytes
        <2>2. field \in get_memory_cdb(n)
            BY <1>4, <2>1, SMT DEF CdbField
        <2>3. n <= 8192 /\ field = n
            BY <2>2, SMT DEF get_memory_cdb, u16be
        <2>4. QED BY <1>4, <2>1, <2>3, SMT
    <1>5. CASE name = "status"
        <2>1. name \notin Bare \cup ThreeBytes
            BY <1>5, SMT DEF Bare, ThreeBytes
        <2>2. field \in le32(n)
            BY <1>5, <2>1, SMT DEF CdbField
        <2>3. QED BY <1>5, <2>1, <2>2, SMT DEF le32
    <1>6. QED
        BY <1>1, <1>2, <1>3, <1>4, <1>5 DEF CommandNames, Outgoing

(* The smaller of two numbers.                                                *)
LEMMA MinOfTwo ==
    ASSUME NEW m \in Int, NEW n \in Int
    PROVE  Min({m, n}) \in Int /\ Min({m, n}) <= n
    <1>1. \E x \in {m, n} : \A y \in {m, n} : x <= y
        BY SMT
    <1>2. Min({m, n}) \in {m, n} /\ \A y \in {m, n} : Min({m, n}) <= y
        BY <1>1, Zenon DEF Min
    <1>3. QED BY <1>2

(* No step breaks it; the scanner's answer is the smaller of what it has and  *)
(* what it was asked for.                                                     *)
LEMMA NextExchange == ExchangeInv /\ [CommandNext]_commandVars => ExchangeInv'
    <1> SUFFICES ASSUME ExchangeInv, [CommandNext]_commandVars
                 PROVE  ExchangeInv'
        OBVIOUS
    <1> USE DEF ExchangeInv
    <1>1. ASSUME command' = command
          PROVE  Length' = Length /\ Header' = Header
        BY <1>1, SMT DEF Length, Header
    <1>2. ASSUME command' = command, sent' = sent, SentInv
          PROVE  SentInv'
        BY <1>1, <1>2 DEF SentInv
    <1>3. CASE Send
        <2>1. SentInv'
            BY <1>1, <1>3 DEF Send, Move, SentInv
        <2>2. QED BY <1>3, <2>1 DEF Send, Move
    <1>4. CASE SendRaises
        BY <1>4 DEF SendRaises, Move
    <1>5. CASE Serve
        <2>1. /\ command' = command /\ sent' = sent /\ SentInv /\ exchange' = "served"
            BY <1>5 DEF Serve, Move
        <2>2. sent.dl \in Int
            BY <2>1, LengthTyped DEF SentInv
        <2>3. PICK available \in Available :
                 raw_len' = Min({available, sent.dl}) + TRAILER_LEN
            BY <1>5 DEF Serve
        <2>4. available \in Int
            BY <2>2, SMT DEF Available
        <2>5. Min({available, sent.dl}) \in Int /\ Min({available, sent.dl}) <= sent.dl
            BY <2>2, <2>4, MinOfTwo
        <2>6. raw_len' \in Int /\ raw_len' <= sent.dl + TRAILER_LEN
            BY <2>2, <2>3, <2>5 DEF TRAILER_LEN
        <2>7. QED BY <1>2, <2>1, <2>6
    <1>6. CASE ServeShort
        <2>1. raw_len' \in Int /\ ~(raw_len' >= TRAILER_LEN)
            BY <1>6 DEF ServeShort, TRAILER_LEN
        <2>2. QED BY <1>2, <1>6, <2>1 DEF ServeShort, Move, TRAILER_LEN
    <1>7. CASE Parse
        <2>1. /\ command' = command /\ sent' = sent /\ SentInv /\ exchange' = "answered"
              /\ raw_len' = raw_len /\ raw_len <= sent.dl + TRAILER_LEN
              /\ data_len' = raw_len - TRAILER_LEN
            BY <1>7 DEF Parse, Move
        <2>2. sent.dl \in Int
            BY <2>1, LengthTyped DEF SentInv
        <2>3. data_len' <= sent.dl
            BY <2>1, <2>2 DEF TRAILER_LEN
        <2>4. QED BY <1>2, <2>1, <2>3
    <1>8. CASE ParseRaises
        BY <1>2, <1>8 DEF ParseRaises, Move
    <1>9. CASE UNCHANGED commandVars
        BY <1>2, <1>9 DEF commandVars
    <1>10. QED BY <1>3, <1>4, <1>5, <1>6, <1>7, <1>8, <1>9 DEF CommandNext

(* Every length a command says is the same number, or it is not sent, for     *)
(* whatever integer a user asks for.                                          *)
THEOREM LengthsFit == CommandSpec => []LengthsAgree
    <1>1. CommandInit => ExchangeInv
        BY DEF CommandInit, ExchangeInv
    <1>2. ExchangeInv => LengthsAgree
        <2> SUFFICES ASSUME ExchangeInv
                     PROVE  LengthsAgree
            OBVIOUS
        <2>1. ASSUME sent # Unsent
              PROVE  /\ sent.field =
                           IF command.name = "inquiry" THEN sent.dl % 256 ELSE sent.dl
                     /\ sent.data_out \in {0, sent.dl}
                     /\ command.name = "memory" => sent.dl <= 8192
                     /\ command.name = "set-window"  => sent.header + 8 = sent.data_out
                     /\ command.name = "define-mode" => sent.header + 6 = sent.data_out
            <3>1. SentInv /\ Length \in Int /\ command.name \in CommandNames
                BY <2>1, LengthTyped DEF ExchangeInv
            <3>2. /\ command.name \in Bare => sent.field = 0
                  /\ command.name \in {"request-sense", "inquiry", "define-mode"} =>
                        sent.field = Length % 256
                  /\ command.name \notin Bare \cup {"request-sense", "inquiry", "define-mode"} =>
                        sent.field = Length
                  /\ command.name = "memory" => Length <= 8192
                BY <3>1, FieldHolds DEF SentInv
            <3>3. /\ command.name \in Bare => Length = 0
                  /\ command.name = "request-sense" => Length = 14
                  /\ command.name = "define-mode" => Length = 20 /\ Header = 14
                  /\ command.name = "set-window" => Length = 52 /\ Header = 44
                BY SMT DEF Length, Header, Bare, set_window_payload, define_mode_payload
            <3>4. sent.field = IF command.name = "inquiry" THEN sent.dl % 256 ELSE sent.dl
                BY <3>1, <3>2, <3>3 DEF SentInv, Bare
            <3>5. QED BY <3>1, <3>2, <3>3, <3>4 DEF SentInv, Outgoing
        <2>2. QED BY <2>1 DEF ExchangeInv, LengthsAgree
    <1>3. QED BY <1>1, <1>2, NextExchange, PTL DEF CommandSpec

----------------------------------------------------------------------------
(* ScanRequest: what a POST's settings are and when they are accepted.        *)

Element == [name : STRING, text : STRING \ {"absent"}]

\* What the elements of these names say; Stated of the request is the case of
\* one name.
Texts(elements, names) ==
    {elements[i].text : i \in {k \in DOMAIN elements : elements[k].name \in names}} \ {""}

\* An answer has been given for a reason, a job made of the settings, and its
\* sheets are scanned as the settings say.
PostInv ==
    /\ request \in Requests
    /\ Parsed /\ status # "none" => status \in {"201", "409"}
    /\ slot = "ours" <=> status = "201"
    /\ status = "201" =>
          Parsed /\ settings = SettingsOf(request.elements, blank_back_skip)
    /\ capture # NoCapture => status = "201" /\ capture = CaptureOf(settings, paper)

(* A set of indices has a first one.                                          *)
LEMMA LeastIndex ==
    ASSUME NEW S, S \subseteq Nat, S # {}
    PROVE  Min(S) \in S /\ \A i \in S : Min(S) <= i
    <1>1. PICK x \in S : \A y \in S : <<y, x>> \notin OpToRel(<, Nat)
        BY WFMin, NatLessThanWellFounded
    <1>2. \A y \in S : x <= y
        <2>1. SUFFICES ASSUME NEW y \in S, y < x PROVE FALSE
            BY SMT
        <2>2. <<y, x>> \in Nat \X Nat /\ <<y, x>>[1] < <<y, x>>[2]
            BY <2>1, SMT
        <2>3. <<y, x>> \in {ss \in Nat \X Nat : ss[1] < ss[2]}
            BY <2>2, SMT
        <2>4. OpToRel(<, Nat) = {ss \in Nat \X Nat : ss[1] < ss[2]}
            BY Zenon DEF OpToRel
        <2>5. QED BY <1>1, <2>3, <2>4
    <1>3. QED BY <1>2 DEF Min

(* _first_text returns something an element of the names says, and nothing    *)
(* exactly if none says anything: an element without text hides no other.     *)
LEMMA FirstTextStated ==
    ASSUME NEW elements \in Seq(Element), NEW names
    PROVE  /\ FirstText(elements, names) \in Texts(elements, names) \cup {"absent"}
           /\ FirstText(elements, names) = "absent" <=> Texts(elements, names) = {}
    <1> DEFINE at == {i \in DOMAIN elements : elements[i].name \in names
                                              /\ elements[i].text # ""}
    <1>1. \A i \in DOMAIN elements : elements[i].text # "absent"
        <2>1. \A i \in DOMAIN elements : elements[i] \in Element
            BY SMT
        <2>2. QED BY <2>1 DEF Element
    <1>2. at \subseteq Nat
        <2>1. DOMAIN elements = 1..Len(elements) /\ Len(elements) \in Nat
            BY SMT
        <2>2. at \subseteq DOMAIN elements
            OBVIOUS
        <2>3. \A n \in Nat : 1..n \subseteq Nat
            OBVIOUS
        <2> HIDE DEF at
        <2>4. QED BY <2>1, <2>2, <2>3
    <1>3. CASE at = {}
        <2>1. FirstText(elements, names) = "absent"
            BY <1>3, Zenon DEF FirstText
        <2>2. Texts(elements, names) = {}
            BY <1>3 DEF Texts
        <2>3. QED BY <2>1, <2>2
    <1>4. CASE at # {}
        <2>1. Min(at) \in at
            BY <1>2, <1>4, LeastIndex, Zenon
        <2>2. FirstText(elements, names) = elements[Min(at)].text
            BY <1>4, Zenon DEF FirstText
        <2>3. FirstText(elements, names) \in Texts(elements, names)
            BY <2>1, <2>2, Zenon DEF Texts
        <2>4. FirstText(elements, names) # "absent"
            BY <1>1, <2>1, <2>2
        <2>5. QED BY <2>3, <2>4
    <1>5. QED BY <1>3, <1>4

(* A number that is given, or its default.                                    *)
LEMMA IntegerOf ==
    ASSUME NEW elements, NEW name, NEW default
    PROVE  LET text == FirstText(elements, {name}) IN
           /\ Integer(elements, name, default) =
                 IF text = "absent" THEN default ELSE Number[text]
           /\ IsInteger(elements, name) <=> text \in DOMAIN Number \cup {"absent"}
    BY Zenon DEF Integer, IsInteger

(* What a text stands for is a number.                                        *)
LEMMA NumberTyped == \A t \in DOMAIN Number : Number[t] \in Int
    BY NumberAssumption

(* So is what is given or its default.                                        *)
LEMMA IntegerTyped ==
    ASSUME NEW elements, NEW name, NEW default \in Int, IsInteger(elements, name)
    PROVE  Integer(elements, name, default) \in Int
    <1> DEFINE text   == FirstText(elements, {name})
               number == Integer(elements, name, default)
    <1>1. /\ number = IF text = "absent" THEN default ELSE Number[text]
          /\ text \in DOMAIN Number \cup {"absent"}
        BY IntegerOf, Zenon
    <1> HIDE DEF text, number
    <1>2. number \in Int
        BY <1>1, NumberTyped
    <1>3. QED BY <1>2 DEF number

(* The default page lies within the feeder.                                   *)
LEMMA DefaultFits == 2480 \in 1..ADF_MAX_WIDTH /\ 3508 \in 1..ADF_MAX_HEIGHT
    BY SMT DEF ADF_MAX_WIDTH, ADF_MAX_HEIGHT

(* So does every page that starts in its corner and is no larger.             *)
LEMMA CornerFits ==
    ASSUME NEW region,
           region.width \in 1..ADF_MAX_WIDTH, region.height \in 1..ADF_MAX_HEIGHT,
           region.x_offset = 0, region.y_offset = 0
    PROVE  RegionFits(region)
    <1>1. ADF_MAX_WIDTH \in Int /\ ADF_MAX_HEIGHT \in Int
        BY SMT DEF ADF_MAX_WIDTH, ADF_MAX_HEIGHT
    <1>2. \A n \in Int : \A m \in 1..n : m > 0 /\ 0 + m <= n /\ 0 >= 0
        BY SMT
    <1>3. /\ region.width > 0 /\ 0 + region.width <= ADF_MAX_WIDTH
          /\ region.height > 0 /\ 0 + region.height <= ADF_MAX_HEIGHT /\ 0 >= 0
        BY <1>1, <1>2, Zenon
    <1>4. /\ region.x_offset + region.width = 0 + region.width
          /\ region.y_offset + region.height = 0 + region.height
        BY Zenon
    <1>5. QED BY <1>3, <1>4, Zenon DEF RegionFits

\* Every element is one the capabilities offer, with a value they offer or none.
Within(elements) ==
    \A i \in DOMAIN elements :
       /\ elements[i].name \in DOMAIN Advertised
       /\ elements[i].text \in Advertised[elements[i].name] \cup {""}

(* What is within the capabilities is supported.                              *)
LEMMA AdvertisedSupported ==
    ASSUME NEW elements \in Seq(Element), Within(elements)
    PROVE  Supported(elements)
    <1> DEFINE First(name) == FirstText(elements, {name})
    <1> DEFINE Widths  == {t \in DOMAIN Number : Number[t] \in 1..ADF_MAX_WIDTH}
               Heights == {t \in DOMAIN Number : Number[t] \in 1..ADF_MAX_HEIGHT}
    <1>1. /\ DOMAIN Advertised = {"InputSource", "ColorMode", "DocumentFormat",
                                  "DocumentFormatExt", "XResolution", "YResolution",
                                  "Width", "Height"}
          /\ Advertised["InputSource"] = {"Feeder"} /\ Advertised["ColorMode"] = {"Grayscale8"}
          /\ Advertised["DocumentFormat"] = {"image/jpeg"}
          /\ Advertised["DocumentFormatExt"] = {"image/jpeg"}
          /\ Advertised["XResolution"] = {"300"} /\ Advertised["YResolution"] = {"300"}
          /\ Advertised["Width"] = Widths /\ Advertised["Height"] = Heights
        BY DEF Advertised
    <1> HIDE DEF Widths, Heights
    <1>2. ASSUME NEW names, NEW S, \A n \in names \cap DOMAIN Advertised : Advertised[n] \subseteq S
          PROVE  FirstText(elements, names) \in S \cup {"absent"}
        <2>1. Texts(elements, names) \subseteq S
            BY <1>2 DEF Texts, Within
        <2>2. QED BY <2>1, FirstTextStated
    <1> HIDE DEF First
    <1>3. ASSUME NEW name \in DOMAIN Advertised
          PROVE  First(name) \in Advertised[name] \cup {"absent"}
        BY <1>2 DEF First
    <1>4. First("InputSource") \in {"Feeder", "absent"}
        BY <1>1, <1>3
    <1>5. First("ColorMode") \in {"Grayscale8", "absent"}
        BY <1>1, <1>3
    <1>6. FirstText(elements, Format) \in {"image/jpeg", "absent"}
        BY <1>1, <1>2 DEF Format
    <1>7. /\ First("XResolution") \in {"300", "absent"} /\ First("YResolution") \in {"300", "absent"}
          /\ First("Width") \in Widths \cup {"absent"}
          /\ First("Height") \in Heights \cup {"absent"}
        BY <1>1, <1>3
    <1>8. \A names : names \cap DOMAIN Advertised = {} => FirstText(elements, names) = "absent"
        BY <1>2
    <1>9. /\ First("Duplex") = "absent" /\ First("Sides") = "absent"
          /\ FirstText(elements, Blank) = "absent"
          /\ First("XOffset") = "absent" /\ First("YOffset") = "absent"
        BY <1>1, <1>8 DEF Blank, First
    <1> DEFINE w  == Integer(elements, "Width", 2480)
               h  == Integer(elements, "Height", 3508)
               x  == Integer(elements, "XOffset", 0)
               y  == Integer(elements, "YOffset", 0)
               rx == Integer(elements, "XResolution", 300)
               ry == Integer(elements, "YResolution", 300)
    <1>10. /\ w = IF First("Width") = "absent" THEN 2480 ELSE Number[First("Width")]
           /\ h = IF First("Height") = "absent" THEN 3508 ELSE Number[First("Height")]
           /\ x = IF First("XOffset") = "absent" THEN 0 ELSE Number[First("XOffset")]
           /\ y = IF First("YOffset") = "absent" THEN 0 ELSE Number[First("YOffset")]
           /\ rx = IF First("XResolution") = "absent" THEN 300
                   ELSE Number[First("XResolution")]
           /\ ry = IF First("YResolution") = "absent" THEN 300
                   ELSE Number[First("YResolution")]
        BY Zenon DEF Integer, First
    <1> HIDE DEF w, h, x, y, rx, ry
    <1>11. \A name \in {"XResolution", "YResolution", "Width", "Height", "XOffset", "YOffset"} :
              IsInteger(elements, name)
        <2>1. /\ Widths \subseteq DOMAIN Number /\ Heights \subseteq DOMAIN Number
              /\ "300" \in DOMAIN Number
            BY NumberAssumption DEF Widths, Heights
        <2>2. QED BY <1>7, <1>9, <2>1 DEF IsInteger, First
    <1>12. rx = 300 /\ ry = 300
        <2>1. Number["300"] = 300
            BY NumberAssumption
        <2>2. QED BY <1>7, <1>10, <2>1
    <1>13. RegionFits(SettingsOf(elements, TRUE).region)
        <2>1. w \in 1..ADF_MAX_WIDTH
            BY <1>7, <1>10, DefaultFits DEF Widths
        <2>2. h \in 1..ADF_MAX_HEIGHT
            BY <1>7, <1>10, DefaultFits DEF Heights
        <2>3. x = 0 /\ y = 0
            BY <1>9, <1>10
        <2> DEFINE region == SettingsOf(elements, TRUE).region
        <2>4. /\ region.width = w /\ region.height = h
              /\ region.x_offset = x /\ region.y_offset = y
            BY DEF SettingsOf, w, h, x, y
        <2> HIDE DEF region
        <2>5. RegionFits(region)
            BY <2>1, <2>2, <2>3, <2>4, CornerFits
        <2>6. QED BY <2>5 DEF region
    <1>14. QED
        <2>1. \A name \in {"XResolution", "YResolution"} : Integer(elements, name, 300) = 300
            BY <1>12 DEF rx, ry
        <2>2. QED
            BY <1>4, <1>5, <1>6, <1>9, <1>11, <1>13, <2>1, Zenon DEF Supported, First

(* An answer is given once, and only a 201 takes the slot.                    *)
LEMMA NextPost == PostInv /\ [RequestNext]_requestVars => PostInv'
    <1> SUFFICES ASSUME PostInv, [RequestNext]_requestVars
                 PROVE  PostInv'
        OBVIOUS
    <1> USE DEF PostInv
    <1>1. ASSUME UNCHANGED request
          PROVE  Body' = Body /\ Parsed' = Parsed
        BY <1>1 DEF Parsed, Body
    <1>2. ASSUME NEW code, Refuse(code), code # "201", code # "none",
                 Parsed => code = "409"
          PROVE  PostInv'
        <2>1. /\ status = "none" /\ status' = code
              /\ UNCHANGED <<request, blank_back_skip, paper, slot, settings, capture>>
            BY <1>2 DEF Refuse, Answer
        <2>2. QED BY <1>1, <1>2, <2>1
    <1>3. CASE Unknown
        BY <1>2, <1>3 DEF Unknown, Parsed, Body
    <1>4. CASE NoLength
        BY <1>2, <1>4 DEF NoLength, Parsed, Body
    <1>5. CASE NoNumber
        BY <1>2, <1>5 DEF NoNumber, Parsed, Body
    <1>6. CASE TooLarge
        BY <1>2, <1>6 DEF TooLarge, Parsed, Body
    <1>7. CASE Unparsed
        BY <1>2, <1>7 DEF Unparsed
    <1>8. CASE Undecodable
        BY <1>2, <1>8 DEF Undecodable, Parsed
    <1>9. CASE Busy
        BY <1>2, <1>9 DEF Busy
    <1>10. CASE Created
        <2>1. /\ Parsed /\ status = "none"
              /\ UNCHANGED <<request, blank_back_skip, paper, capture>>
              /\ status' = "201" /\ slot' = "ours"
              /\ settings' = SettingsOf(request.elements, blank_back_skip)
            BY <1>10 DEF Created, Answer
        <2>2. capture' = NoCapture /\ NoCapture' = NoCapture
            BY <2>1 DEF NoCapture
        <2>3. QED BY <1>1, <2>1, <2>2
    <1>11. ASSUME UNCHANGED <<settings, paper>>
           PROVE  CaptureOf(settings, paper)' = CaptureOf(settings, paper)
        BY <1>11 DEF CaptureOf
    <1>12. CASE Capture
        <2>1. /\ slot = "ours" /\ capture' = CaptureOf(settings, paper)
              /\ UNCHANGED <<request, blank_back_skip, paper, slot, status, settings>>
            BY <1>12 DEF Capture
        <2>2. QED BY <1>1, <1>11, <2>1
    <1>13. CASE UNCHANGED requestVars
        <2>1. UNCHANGED <<request, blank_back_skip, paper, slot, status, settings, capture>>
            BY <1>13 DEF requestVars
        <2>2. QED BY <1>1, <1>11, <2>1
    <1>14. QED
        BY <1>3, <1>4, <1>5, <1>6, <1>7, <1>8, <1>9, <1>10, <1>12, <1>13 DEF RequestNext

(* What do_POST answers, and when it takes the slot, for any document.          *)
THEOREM PostInvariant == RequestSpec => []PostInv
    <1>1. RequestInit => PostInv
        BY DEF RequestInit, PostInv
    <1>2. QED BY <1>1, NextPost, PTL DEF RequestSpec

(* A document of the request has elements with a name and a text.             *)
LEMMA RequestElements ==
    ASSUME request \in Requests
    PROVE  request.elements \in Seq(Element)
    BY RequestsAssumption DEF Element

(* Whatever elements a document has, in whatever order and number: within the *)
(* capabilities it is not refused for them, and no job scans past the edge.   *)
THEOREM CapabilitiesKept == RequestSpec => []AdvertisedIsAccepted
    <1>1. PostInv => AdvertisedIsAccepted
        <2> SUFFICES ASSUME PostInv
                     PROVE  AdvertisedIsAccepted
            OBVIOUS
        <2>1. request.elements \in Seq(Element)
            BY RequestElements DEF PostInv
        <2>2. ASSUME Body, request.xml = "well-formed", status # "none",
                     \A i \in DOMAIN request.elements :
                        /\ request.elements[i].name \in DOMAIN Advertised
                        /\ request.elements[i].text \in
                              Advertised[request.elements[i].name] \cup {""}
              PROVE  status \in {"201", "409"}
            <3>1. Supported(request.elements)
                BY <2>1, <2>2, AdvertisedSupported DEF Within
            <3>2. QED BY <2>2, <3>1 DEF PostInv, Parsed
        <2>3. ASSUME status = "201"
              PROVE  /\ settings.region.x_offset + settings.region.width \in 1..ADF_MAX_WIDTH
                     /\ settings.region.y_offset + settings.region.height \in 1..ADF_MAX_HEIGHT
            <3>1. /\ Supported(request.elements)
                  /\ settings = SettingsOf(request.elements, blank_back_skip)
                BY <2>3 DEF PostInv, Parsed
            <3>2. /\ settings.region = SettingsOf(request.elements, TRUE).region
                  /\ RegionFits(settings.region)
                BY <3>1 DEF SettingsOf, Supported
            <3>3. /\ settings.region.width \in Int /\ settings.region.height \in Int
                  /\ settings.region.x_offset \in Int /\ settings.region.y_offset \in Int
                <4>1. \A name \in {"Width", "Height", "XOffset", "YOffset"} :
                         IsInteger(request.elements, name)
                    BY <3>1 DEF Supported
                <4>2. \A name \in {"Width", "Height", "XOffset", "YOffset"} :
                         \A default \in Int : Integer(request.elements, name, default) \in Int
                    BY <4>1, IntegerTyped, Zenon
                <4>3. QED BY <3>1, <4>2 DEF SettingsOf
            <3>4. \A x \in Int : \A w \in Int : \A m \in Int :
                     w > 0 /\ x >= 0 /\ x + w <= m => x + w \in 1..m
                BY SMT
            <3>5. ADF_MAX_WIDTH \in Int /\ ADF_MAX_HEIGHT \in Int
                BY SMT DEF ADF_MAX_WIDTH, ADF_MAX_HEIGHT
            <3>6. QED BY <3>2, <3>3, <3>4, <3>5 DEF RegionFits
        <2>4. QED BY <2>2, <2>3 DEF AdvertisedIsAccepted
    <1>2. QED BY <1>1, PostInvariant, PTL

(* A job is scanned as its document says wherever that says one thing only,   *)
(* the area that is scanned apart.                                            *)
THEOREM RequestsKept == RequestSpec => []RequestHonoured
    <1>1. PostInv => RequestHonoured
        <2> SUFFICES ASSUME PostInv
                     PROVE  RequestHonoured
            OBVIOUS
        <2>1. request.elements \in Seq(Element)
            BY RequestElements DEF PostInv
        <2> SUFFICES ASSUME status = "201"
                     PROVE  RequestHonoured
            BY DEF PostInv, RequestHonoured
        <2>2. /\ Supported(request.elements)
              /\ settings = SettingsOf(request.elements, blank_back_skip)
              /\ slot = "ours"
            BY DEF PostInv, Parsed
        <2>3. \A name : Stated(name) = Texts(request.elements, {name})
            BY DEF Stated, Texts
        <2>4. ASSUME NEW t \in DOMAIN Number, capture # NoCapture
              PROVE  /\ Stated("Width")  = {t} => capture.width_px  = Number[t]
                     /\ Stated("Height") = {t} => capture.height_px = Number[t]
            <3>1. ASSUME NEW name, Stated(name) = {t}
                  PROVE  FirstText(request.elements, {name}) = t /\ t # "absent"
                BY <2>1, <2>3, <3>1, FirstTextStated, NumberAssumption
            <3>2. /\ capture.width_px = Integer(request.elements, "Width", 2480)
                  /\ capture.height_px = Integer(request.elements, "Height", 3508)
                BY <2>2, <2>4 DEF PostInv, SettingsOf, CaptureOf
            <3>3. QED BY <3>1, <3>2 DEF Integer
        <2>5. ASSUME capture # NoCapture
              PROVE  LET asked == Stated("Sides") IN
                     /\ asked # {} /\ asked \subseteq OneSided => capture.stop_after_frames = 1
                     /\ asked # {} /\ asked \subseteq TwoSided => capture.stop_after_frames = 2
                     /\ asked = {} /\ Stated("Duplex") = {} => capture.stop_after_frames = 2
            <3>1. settings.duplex = IsDuplex(request.elements)
                BY <2>2 DEF SettingsOf
            <3>2. \A name : /\ FirstText(request.elements, {name}) \in Stated(name) \cup {"absent"}
                            /\ FirstText(request.elements, {name}) = "absent" <=> Stated(name) = {}
                BY <2>1, <2>3, FirstTextStated
            <3>3. capture.stop_after_frames = IF settings.duplex THEN 2 ELSE 1
                BY <2>5 DEF PostInv, CaptureOf
            <3>4. QED BY <3>1, <3>2, <3>3 DEF IsDuplex, OneSided, TwoSided, No
        <2>6. LET wish == Stated("BlankPageDetection") \cup
                          Stated("BlankPageDetectionAndRemoval") IN
              /\ wish # {} /\ wish \subseteq No  => ~settings.blank_page_detection
              /\ wish # {} /\ wish \subseteq Yes => settings.blank_page_detection
              /\ wish = {} => settings.blank_page_detection = blank_back_skip
            <3>1. Texts(request.elements, Blank) =
                     Stated("BlankPageDetection") \cup Stated("BlankPageDetectionAndRemoval")
                BY <2>3 DEF Texts, Blank
            <3>2. /\ FirstText(request.elements, Blank) \in Texts(request.elements, Blank)
                        \cup {"absent"}
                  /\ FirstText(request.elements, Blank) = "absent"
                        <=> Texts(request.elements, Blank) = {}
                BY <2>1, FirstTextStated
            <3>3. settings.blank_page_detection =
                     IF FirstText(request.elements, Blank) = "absent" THEN blank_back_skip
                     ELSE FirstText(request.elements, Blank) \in Yes
                BY <2>2 DEF SettingsOf
            <3>4. QED BY <3>1, <3>2, <3>3 DEF Yes, No
        <2>7. QED BY <2>2, <2>4, <2>5, <2>6 DEF RequestHonoured
    <1>2. QED BY <1>1, PostInvariant, PTL

----------------------------------------------------------------------------
(* Discovery: where every candidate is until the results are sorted.          *)

Distinct(s) == \A i, j \in DOMAIN s : s[i] = s[j] => i = j

\* Comparable, so that of two positions one comes first.
Orders(before, positions) ==
    /\ \A p \in positions : <<p, p>> \in before
    /\ \A p, q \in positions : <<p, q>> \in before \/ <<q, p>> \in before
    /\ \A p, q \in positions : <<p, q>> \in before /\ <<q, p>> \in before => p = q
    /\ \A p, q, r \in positions :
          <<p, q>> \in before /\ <<q, r>> \in before => <<p, r>> \in before

(* Each of the positions has one place in the arrangement, and each place one *)
(* of them.                                                                   *)
LEMMA ArrangedOnto ==
    ASSUME NEW items \in Seq(Nat), NEW positions \in SUBSET DOMAIN items, NEW before,
           Orders(before, positions)
    PROVE  \E at \in [1..Cardinality(positions) -> positions] :
              /\ Cardinality(positions) \in Nat
              /\ Arranged(items, positions, before)
                    = [n \in 1..Cardinality(positions) |-> items[at[n]]]
              /\ \A p \in positions : \E n \in 1..Cardinality(positions) : at[n] = p
              /\ \A i, j \in 1..Cardinality(positions) :
                    i < j => at[i] # at[j] /\ <<at[i], at[j]>> \in before
    <1> DEFINE size == Cardinality(positions)
               upto(p) == {i \in positions : <<i, p>> \in before}
               rank == [p \in positions |-> Cardinality(upto(p))]
               at == [n \in 1..size |-> CHOOSE p \in positions : Cardinality(upto(p)) = n]
    <1>1. IsFiniteSet(positions) /\ size \in Nat
        <2>1. Len(items) \in Nat /\ DOMAIN items = 1..Len(items) OBVIOUS
        <2>2. IsFiniteSet(1..Len(items)) BY <2>1, FS_Interval
        <2>3. IsFiniteSet(positions) BY <2>1, <2>2, FS_Subset
        <2>4. QED BY <2>3, FS_CardinalityType
    <1>2. ASSUME NEW p \in positions
          PROVE  /\ IsFiniteSet(upto(p)) /\ Cardinality(upto(p)) \in 1..size
                 /\ p \in upto(p)
        <2>1. upto(p) \in SUBSET positions /\ p \in upto(p) BY DEF Orders
        <2>2. IsFiniteSet(upto(p)) /\ Cardinality(upto(p)) <= size
            BY <1>1, <2>1, FS_Subset
        <2>3. Cardinality(upto(p)) \in Nat /\ Cardinality(upto(p)) # 0
            BY <2>1, <2>2, FS_CardinalityType, FS_EmptySet
        <2>4. QED BY <1>1, <2>1, <2>2, <2>3
    <1>3. ASSUME NEW p \in positions, NEW q \in positions, p # q, <<p, q>> \in before
          PROVE  Cardinality(upto(p)) < Cardinality(upto(q))
        <2>1. upto(p) \in SUBSET upto(q) BY <1>3 DEF Orders
        <2>2. q \in upto(q) /\ q \notin upto(p) BY <1>3 DEF Orders
        <2>3. IsFiniteSet(upto(q)) BY <1>2
        <2>4. /\ Cardinality(upto(p)) <= Cardinality(upto(q))
              /\ Cardinality(upto(q)) = Cardinality(upto(p)) => upto(q) = upto(p)
            BY <2>1, <2>3, FS_Subset
        <2> HIDE DEF upto
        <2>5. Cardinality(upto(p)) \in Nat /\ Cardinality(upto(q)) \in Nat
            <3>1. Cardinality(upto(p)) \in 1..size /\ Cardinality(upto(q)) \in 1..size
                BY <1>2
            <3>2. QED BY <1>1, <3>1
        <2>6. QED BY <2>2, <2>4, <2>5
    <1>4. rank \in Injection(positions, 1..size)
        <2>1. rank \in [positions -> 1..size] BY <1>2
        <2>2. ASSUME NEW p \in positions, NEW q \in positions, rank[p] = rank[q]
              PROVE  p = q
            <3>1. Cardinality(upto(p)) = Cardinality(upto(q)) BY <2>2
            <3> HIDE DEF upto, rank
            <3>2. Cardinality(upto(p)) \in Nat /\ Cardinality(upto(q)) \in Nat
                <4>1. Cardinality(upto(p)) \in 1..size /\ Cardinality(upto(q)) \in 1..size
                    BY <1>2
                <4>2. QED BY <1>1, <4>1
            <3>3. <<p, q>> \in before \/ <<q, p>> \in before BY DEF Orders
            <3>4. QED BY <1>3, <3>1, <3>2, <3>3
        <2> HIDE DEF rank
        <2>3. \A p, q \in positions : rank[p] = rank[q] => p = q BY <2>2
        <2>4. QED BY <2>1, <2>3 DEF Injection, IsInjective
    <1>5. rank \in Surjection(positions, 1..size)
        <2>1. IsFiniteSet(1..size) /\ Cardinality(1..size) = size
            BY <1>1, FS_Interval
        <2> HIDE DEF rank
        <2>2. QED BY <1>4, <2>1, FS_Injection
    <1>6. ASSUME NEW n \in 1..size
          PROVE  at[n] \in positions /\ Cardinality(upto(at[n])) = n
        <2>1. \E p \in positions : rank[p] = n
            <3> HIDE DEF rank
            <3>1. QED BY <1>5 DEF Surjection
        <2>2. \E p \in positions : Cardinality(upto(p)) = n BY <2>1
        <2>3. QED BY <2>2
    <1>7. at \in [1..size -> positions] BY <1>6
    <1>8. Arranged(items, positions, before) = [n \in 1..size |-> items[at[n]]]
        BY DEF Arranged
    <1>9. ASSUME NEW p \in positions PROVE \E n \in 1..size : at[n] = p
        <2> DEFINE n == Cardinality(upto(p))
        <2>1. n \in 1..size BY <1>2
        <2>2. at[n] \in positions /\ Cardinality(upto(at[n])) = n BY <1>6, <2>1
        <2>3. rank[at[n]] = rank[p] BY <2>2
        <2>4. QED
            <3> HIDE DEF rank, at, n
            <3>1. QED BY <1>4, <2>1, <2>2, <2>3 DEF Injection, IsInjective
    <1>10. ASSUME NEW i \in 1..size, NEW j \in 1..size, i < j
           PROVE  at[i] # at[j] /\ <<at[i], at[j]>> \in before
        <2>1. /\ at[i] \in positions /\ at[j] \in positions
              /\ Cardinality(upto(at[i])) = i /\ Cardinality(upto(at[j])) = j
            BY <1>6
        <2> HIDE DEF upto, at
        <2>2. at[i] # at[j] BY <1>10, <2>1
        <2>3. <<at[i], at[j]>> \in before \/ <<at[j], at[i]>> \in before
            BY <2>1 DEF Orders
        <2>4. ASSUME <<at[j], at[i]>> \in before PROVE FALSE
            <3>1. Cardinality(upto(at[j])) < Cardinality(upto(at[i]))
                BY <1>3, <2>1, <2>2, <2>4
            <3>2. QED BY <1>10, <2>1, <3>1
        <2>5. QED BY <2>2, <2>3, <2>4
    <1> HIDE DEF at
    <1>11. QED BY <1>1, <1>7, <1>8, <1>9, <1>10

\* No item is at two of these positions.
DistinctAt(items, positions) == \A p, q \in positions : items[p] = items[q] => p = q

\* These numbers are the items at these positions, each once and in this order.
Arranges(made, items, positions, before) ==
    /\ made \in Seq(Nat) /\ Distinct(made)
    /\ \A p \in positions : items[p] \in ToSet(made)
    /\ \A x \in ToSet(made) : \E p \in positions : x = items[p]
    /\ \A i, j \in DOMAIN made :
          i < j => \E p, q \in positions : /\ p # q /\ <<p, q>> \in before
                                           /\ made[i] = items[p] /\ made[j] = items[q]

(* What an arrangement of natural numbers is.                                 *)
LEMMA ArrangedNumbers ==
    ASSUME NEW items \in Seq(Nat), NEW positions \in SUBSET DOMAIN items, NEW before,
           Orders(before, positions), DistinctAt(items, positions)
    PROVE  Arranges(Arranged(items, positions, before), items, positions, before)
    <1> DEFINE size == Cardinality(positions)
               made == Arranged(items, positions, before)
    <1>1. PICK at \in [1..size -> positions] :
              /\ size \in Nat
              /\ made = [n \in 1..size |-> items[at[n]]]
              /\ \A p \in positions : \E n \in 1..size : at[n] = p
              /\ \A i, j \in 1..size : i < j => at[i] # at[j] /\ <<at[i], at[j]>> \in before
        BY ArrangedOnto
    <1> HIDE DEF size, made
    <1>2. \A p \in positions : items[p] \in Nat OBVIOUS
    <1>3. DOMAIN made = 1..size /\ \A n \in 1..size : made[n] = items[at[n]] BY <1>1
    <1>4. made \in Seq(Nat)
        <2>1. \A n \in 1..size : items[at[n]] \in Nat BY <1>1, <1>2
        <2>2. QED BY <1>1, <2>1
    <1>5. Distinct(made)
        <2>1. ASSUME NEW i \in 1..size, NEW j \in 1..size, made[i] = made[j], i # j
              PROVE  FALSE
            <3>1. at[i] = at[j] BY <1>1, <1>3, <2>1 DEF DistinctAt
            <3>2. i < j \/ j < i BY <1>1, <2>1
            <3>3. QED BY <1>1, <3>1, <3>2
        <2>2. QED BY <1>3, <2>1 DEF Distinct
    <1>6. /\ \A p \in positions : items[p] \in ToSet(made)
          /\ \A x \in ToSet(made) : \E p \in positions : x = items[p]
        <2>1. ASSUME NEW x \in ToSet(made) PROVE \E p \in positions : x = items[p]
            <3>1. PICK n \in 1..size : x = made[n] BY <1>3 DEF ToSet
            <3>2. at[n] \in positions /\ x = items[at[n]] BY <1>1, <1>3, <3>1
            <3>3. QED BY <3>2
        <2>2. ASSUME NEW p \in positions PROVE items[p] \in ToSet(made)
            <3>1. PICK n \in 1..size : at[n] = p BY <1>1
            <3>2. made[n] = items[p] BY <1>3, <3>1
            <3>3. QED BY <1>3, <3>2 DEF ToSet
        <2>3. QED BY <2>1, <2>2
    <1>7. ASSUME NEW i \in DOMAIN made, NEW j \in DOMAIN made, i < j
          PROVE  \E p, q \in positions : /\ p # q /\ <<p, q>> \in before
                                         /\ made[i] = items[p] /\ made[j] = items[q]
        BY <1>1, <1>3, <1>7
    <1>8. QED BY <1>4, <1>5, <1>6, <1>7 DEF Arranges, made

(* dict.fromkeys names every host once.                                       *)
LEMMA DedupedHosts ==
    ASSUME NEW list \in Seq(Nat)
    PROVE  /\ Deduped(list) \in Seq(Nat) /\ Distinct(Deduped(list))
           /\ ToSet(Deduped(list)) = ToSet(list)
    <1> DEFINE firsts == {i \in DOMAIN list : \A k \in 1..(i - 1) : list[k] # list[i]}
               before == {o \in firsts \X firsts : o[1] <= o[2]}
    <1>1. DOMAIN list = 1..Len(list) /\ Len(list) \in Nat OBVIOUS
    <1>2. firsts \in SUBSET DOMAIN list /\ firsts \subseteq Nat BY <1>1
    <1>3. DistinctAt(list, firsts)
        <2>1. SUFFICES ASSUME NEW p \in firsts, NEW q \in firsts, list[p] = list[q], p < q
                       PROVE  FALSE
            BY <1>2 DEF DistinctAt
        <2>2. p \in 1..(q - 1) BY <1>1, <2>1
        <2>3. QED BY <2>1, <2>2
    <1>4. Orders(before, firsts)
        <2>1. \A p, q \in firsts : <<p, q>> \in before <=> p <= q OBVIOUS
        <2> HIDE DEF before, firsts
        <2>2. QED BY <1>2, <2>1 DEF Orders
    <1>5. ASSUME NEW x \in ToSet(list) PROVE \E p \in firsts : x = list[p]
        <2>0. PICK i \in DOMAIN list : x = list[i] BY DEF ToSet
        <2>1. \E p \in firsts : list[p] = list[i]
            <3> DEFINE same == {k \in DOMAIN list : list[k] = list[i]}
            <3>1. same \subseteq Nat /\ same # {} BY <1>1
            <3>2. Min(same) \in same /\ \A k \in same : Min(same) <= k
                <4> HIDE DEF same
                <4>1. QED BY <3>1, LeastIndex
            <3> DEFINE p == Min(same)
            <3> HIDE DEF p
            <3>3. p \in DOMAIN list /\ list[p] = list[i] BY <3>2 DEF p
            <3>4. ASSUME NEW k \in 1..(p - 1) PROVE list[k] # list[p]
                <4>1. k \in DOMAIN list /\ ~(p <= k) BY <1>1, <3>3
                <4>2. k \notin same BY <3>2, <4>1 DEF p
                <4>3. QED BY <3>3, <4>1, <4>2
            <3>5. QED BY <3>3, <3>4
        <2>2. QED BY <2>0, <2>1
    <1>6. Deduped(list) = Arranged(list, firsts, before) BY DEF Deduped
    <1> HIDE DEF firsts, before
    <1>7. Arranges(Deduped(list), list, firsts, before)
        BY <1>2, <1>3, <1>4, <1>6, ArrangedNumbers
    <1>8. ToSet(Deduped(list)) = ToSet(list)
        <2>1. \A p \in firsts : list[p] \in ToSet(list) BY <1>2 DEF ToSet
        <2>2. \A x \in ToSet(Deduped(list)) : x \in ToSet(list)
            BY <1>7, <2>1 DEF Arranges
        <2>3. \A x \in ToSet(list) : x \in ToSet(Deduped(list))
            BY <1>5, <1>7 DEF Arranges
        <2>4. QED BY <2>2, <2>3
    <1>9. QED BY <1>7, <1>8 DEF Arranges

(* Sorting keeps what is there, and puts it in order.                         *)
LEMMA SortedNumbers ==
    ASSUME NEW list \in Seq(Nat), Distinct(list)
    PROVE  /\ Sorted(list) \in Seq(Nat) /\ Distinct(Sorted(list))
           /\ ToSet(Sorted(list)) = ToSet(list)
           /\ \A i, j \in DOMAIN Sorted(list) : i < j => Sorted(list)[i] < Sorted(list)[j]
    <1> DEFINE all == DOMAIN list
               before == {o \in all \X all : \/ list[o[1]] < list[o[2]]
                                             \/ list[o[1]] = list[o[2]] /\ o[1] <= o[2]}
    <1>1. all \subseteq Nat /\ \A p \in all : list[p] \in Nat OBVIOUS
    <1>2. \A p, q \in all : <<p, q>> \in before <=> list[p] < list[q] \/ p = q
        BY <1>1 DEF Distinct
    <1>3. Orders(before, all)
        <2>1. \A p, q \in all : list[p] = list[q] => p = q BY DEF Distinct
        <2> HIDE DEF before, all
        <2>2. ASSUME NEW p \in all, NEW q \in all
              PROVE  <<p, q>> \in before \/ <<q, p>> \in before
            <3>1. list[p] < list[q] \/ list[q] < list[p] \/ list[p] = list[q]
                <4>1. list[p] \in Nat /\ list[q] \in Nat BY <1>1
                <4>2. QED BY <4>1
            <3>2. QED BY <1>2, <2>1, <3>1
        <2>3. \A p, q \in all : <<p, q>> \in before /\ <<q, p>> \in before => p = q
            BY <1>1, <1>2
        <2>4. ASSUME NEW p \in all, NEW q \in all, NEW r \in all,
                     <<p, q>> \in before, <<q, r>> \in before
              PROVE  <<p, r>> \in before
            <3>1. list[p] \in Nat /\ list[q] \in Nat /\ list[r] \in Nat BY <1>1
            <3>2. /\ list[p] < list[q] \/ p = q
                  /\ list[q] < list[r] \/ q = r
                BY <1>2, <2>4
            <3>3. list[p] < list[r] \/ p = r BY <3>1, <3>2
            <3>4. QED BY <1>2, <3>3
        <2>5. \A p \in all : <<p, p>> \in before BY <1>2
        <2>6. QED BY <2>2, <2>3, <2>4, <2>5 DEF Orders
    <1>4. Sorted(list) = Arranged(list, all, before) BY DEF Sorted
    <1>5. DistinctAt(list, all) BY DEF Distinct, DistinctAt
    <1>6. \A x : x \in ToSet(list) <=> \E p \in all : x = list[p] BY DEF ToSet
    <1>7. all \in SUBSET DOMAIN list OBVIOUS
    <1> HIDE DEF before, all
    <1>8. Arranges(Sorted(list), list, all, before)
        BY <1>3, <1>4, <1>5, <1>7, ArrangedNumbers
    <1>9. ToSet(Sorted(list)) = ToSet(list)
        <2>1. \A x \in ToSet(Sorted(list)) : x \in ToSet(list)
            BY <1>6, <1>8 DEF Arranges
        <2>2. \A x \in ToSet(list) : x \in ToSet(Sorted(list))
            BY <1>6, <1>8 DEF Arranges
        <2>3. QED BY <2>1, <2>2
    <1>10. ASSUME NEW i \in DOMAIN Sorted(list), NEW j \in DOMAIN Sorted(list), i < j
           PROVE  Sorted(list)[i] < Sorted(list)[j]
        <2>1. PICK p \in all, q \in all :
                  /\ p # q /\ <<p, q>> \in before
                  /\ Sorted(list)[i] = list[p] /\ Sorted(list)[j] = list[q]
            BY <1>8, <1>10 DEF Arranges
        <2>2. QED BY <1>2, <2>1
    <1>11. QED BY <1>8, <1>9, <1>10 DEF Arranges

(* A host that is taken out of a queue is out of it.                          *)
LEMMA TakenOut ==
    ASSUME NEW s \in Seq(Nat), Distinct(s), NEW i \in DOMAIN s
    PROVE  /\ RemoveAt(s, i) \in Seq(Nat) /\ Distinct(RemoveAt(s, i))
           /\ Len(RemoveAt(s, i)) = Len(s) - 1
           /\ ToSet(RemoveAt(s, i)) = ToSet(s) \ {s[i]}
    <1> DEFINE n == Len(s)
               left == SubSeq(s, 1, i - 1)
               right == SubSeq(s, i + 1, n)
               rest == left \o right
    <1>1. n \in Nat /\ DOMAIN s = 1..n /\ i \in 1..n /\ \A k \in 1..n : s[k] \in Nat
        OBVIOUS
    <1>2. /\ left \in Seq(Nat) /\ Len(left) = i - 1
          /\ \A k \in 1..(i - 1) : left[k] = s[k]
        <2>1. \A k \in 1..(i - 1) : s[k] \in Nat BY <1>1
        <2> HIDE DEF n
        <2>2. QED BY <1>1, <2>1, SubSeqProperties
    <1>3. /\ right \in Seq(Nat) /\ Len(right) = n - i
          /\ \A k \in 1..(n - i) : right[k] = s[i + k]
        <2>1. \A k \in (i + 1)..n : s[k] \in Nat BY <1>1
        <2> HIDE DEF n
        <2>2. i + 1 \in Int /\ n \in Int BY <1>1
        <2>3. /\ right \in Seq(Nat)
              /\ Len(right) = IF i + 1 <= n THEN n - (i + 1) + 1 ELSE 0
              /\ \A k \in 1..(n - (i + 1) + 1) : right[k] = s[(i + 1) + k - 1]
            BY <2>1, <2>2, SubSeqProperties
        <2> HIDE DEF right
        <2>4. Len(right) = n - i BY <1>1, <2>3
        <2>5. ASSUME NEW k \in 1..(n - i) PROVE right[k] = s[i + k]
            <3>1. k \in 1..(n - (i + 1) + 1) /\ (i + 1) + k - 1 = i + k BY <1>1
            <3>2. QED BY <2>3, <3>1
        <2>6. QED BY <2>3, <2>4, <2>5
    <1>4. /\ rest \in Seq(Nat) /\ Len(rest) = n - 1
          /\ \A k \in 1..(n - 1) : rest[k] = IF k < i THEN s[k] ELSE s[k + 1]
        <2> HIDE DEF left, right, n
        <2>1. /\ rest \in Seq(Nat) /\ Len(rest) = n - 1
              /\ \A k \in 1..(n - 1) :
                    rest[k] = IF k <= i - 1 THEN left[k] ELSE right[k - (i - 1)]
            <3>1. /\ rest \in Seq(Nat) /\ Len(rest) = Len(left) + Len(right)
                  /\ \A k \in 1..(Len(left) + Len(right)) :
                        rest[k] = IF k <= Len(left) THEN left[k] ELSE right[k - Len(left)]
                BY <1>2, <1>3, ConcatProperties
            <3>2. Len(left) + Len(right) = n - 1 BY <1>1, <1>2, <1>3
            <3> HIDE DEF rest
            <3>3. QED BY <1>2, <3>1, <3>2
        <2> HIDE DEF rest
        <2>2. ASSUME NEW k \in 1..(n - 1) PROVE rest[k] = IF k < i THEN s[k] ELSE s[k + 1]
            <3>1. CASE k < i BY <1>1, <1>2, <2>1, <3>1
            <3>2. CASE ~(k < i)
                <4>1. k - (i - 1) \in 1..(n - i) /\ i + (k - (i - 1)) = k + 1
                    BY <1>1, <3>2
                <4>2. rest[k] = right[k - (i - 1)] BY <1>1, <2>1, <3>2
                <4>3. right[k - (i - 1)] = s[k + 1] BY <1>3, <4>1
                <4>4. QED BY <3>2, <4>2, <4>3
            <3>3. QED BY <3>1, <3>2
        <2>3. QED BY <2>1, <2>2
    <1>5. RemoveAt(s, i) = rest BY DEF RemoveAt
    <1> HIDE DEF rest
    <1>6. DOMAIN rest = 1..(n - 1) BY <1>1, <1>4
    <1> HIDE DEF n
    <1>7. ASSUME NEW k \in 1..(n - 1)
          PROVE  \E m \in 1..n : m # i /\ m = (IF k < i THEN k ELSE k + 1) /\ rest[k] = s[m]
        BY <1>1, <1>4
    <1>8. Distinct(rest)
        <2>1. ASSUME NEW k \in 1..(n - 1), NEW l \in 1..(n - 1), rest[k] = rest[l]
              PROVE  k = l
            <3>1. PICK m \in 1..n : m = (IF k < i THEN k ELSE k + 1) /\ rest[k] = s[m]
                BY <1>7
            <3>2. PICK o \in 1..n : o = (IF l < i THEN l ELSE l + 1) /\ rest[l] = s[o]
                BY <1>7
            <3>3. m = o BY <1>1, <2>1, <3>1, <3>2 DEF Distinct
            <3>4. QED BY <1>1, <3>1, <3>2, <3>3
        <2>2. QED BY <1>6, <2>1 DEF Distinct
    <1>9. ToSet(rest) = ToSet(s) \ {s[i]}
        <2>1. ASSUME NEW x \in ToSet(rest) PROVE x \in ToSet(s) \ {s[i]}
            <3>1. PICK k \in 1..(n - 1) : x = rest[k] BY <1>6, <2>1 DEF ToSet
            <3>2. PICK m \in 1..n : m # i /\ rest[k] = s[m] BY <1>7
            <3>3. QED BY <1>1, <3>1, <3>2 DEF ToSet, Distinct
        <2>2. ASSUME NEW x \in ToSet(s) \ {s[i]} PROVE x \in ToSet(rest)
            <3>1. PICK m \in 1..n : x = s[m] /\ m # i BY <1>1, <2>2 DEF ToSet
            <3> DEFINE k == IF m < i THEN m ELSE m - 1
            <3>2. k \in 1..(n - 1) /\ rest[k] = s[m] BY <1>1, <1>4, <3>1
            <3>3. QED BY <1>6, <3>1, <3>2 DEF ToSet
        <2>3. QED BY <2>1, <2>2
    <1>10. QED BY <1>4, <1>5, <1>8, <1>9 DEF n

(* One that is put into another is in it, once.                               *)
LEMMA PutBehind ==
    ASSUME NEW s \in Seq(Nat), Distinct(s), NEW host \in Nat, host \notin ToSet(s)
    PROVE  /\ Append(s, host) \in Seq(Nat) /\ Distinct(Append(s, host))
           /\ Len(Append(s, host)) = Len(s) + 1
           /\ ToSet(Append(s, host)) = ToSet(s) \cup {host}
    <1> DEFINE n == Len(s)
               more == Append(s, host)
    <1>1. /\ n \in Nat /\ DOMAIN s = 1..n /\ more \in Seq(Nat)
          /\ Len(more) = n + 1 /\ DOMAIN more = 1..(n + 1)
          /\ \A k \in 1..(n + 1) : more[k] = IF k <= n THEN s[k] ELSE host
        OBVIOUS
    <1> HIDE DEF n, more
    <1>2. \A k \in 1..n : s[k] # host BY <1>1 DEF ToSet
    <1>3. Distinct(more) BY <1>1, <1>2 DEF Distinct
    <1>4. ToSet(more) = ToSet(s) \cup {host}
        <2>1. n + 1 \in 1..(n + 1) /\ more[n + 1] = host BY <1>1
        <2>2. \A k \in 1..n : k \in 1..(n + 1) /\ more[k] = s[k] BY <1>1
        <2>3. \A k \in 1..(n + 1) : k \in 1..n \/ more[k] = host BY <1>1
        <2>4. QED BY <1>1, <2>1, <2>2, <2>3 DEF ToSet
    <1>5. QED BY <1>1, <1>3, <1>4 DEF n, more

Hosts == ToSet(candidates)

\* Every host is in one of the four places at most, and once.
PlacesInv ==
    /\ queued \in Seq(Nat) /\ Distinct(queued) /\ probing \in Seq(Nat) /\ Distinct(probing)
    /\ done \in Seq(Nat) /\ Distinct(done) /\ results \in Seq(Nat) /\ Distinct(results)
    /\ ToSet(queued) \cup ToSet(probing) \cup ToSet(done) \cup ToSet(results) \subseteq Hosts
    /\ ToSet(queued) \cap (ToSet(probing) \cup ToSet(done) \cup ToSet(results)) = {}
    /\ ToSet(probing) \cap (ToSet(done) \cup ToSet(results)) = {}
    /\ ToSet(done) \cap ToSet(results) = {}

\* A scanner is never dropped, and neither is a name that raises until it has.
FateInv ==
    /\ candidates \in CandidateLists
    /\ outcome \in {"none", "raising", "raised", "returned"}
    /\ ToSet(results) \subseteq Scanners
    /\ Hosts \cap Scanners \subseteq
          ToSet(queued) \cup ToSet(probing) \cup ToSet(done) \cup ToSet(results)
    /\ outcome = "none" =>
          Hosts \cap Malformed \subseteq ToSet(queued) \cup ToSet(probing) \cup ToSet(done)
    /\ outcome \in {"raising", "raised"} => Hosts \cap Malformed # {}

\* The pool is never overfull, and empty when the discovery ends.
EndedInv ==
    /\ Len(probing) <= PoolSize
    /\ outcome \in {"returned", "raised"} => queued = <<>> /\ probing = <<>>
    /\ outcome = "returned" =>
          /\ done = <<>> /\ Hosts \cap Malformed = {}
          /\ \A i, j \in DOMAIN results : i < j => results[i] < results[j]

PoolInv == PlacesInv /\ FateInv /\ EndedInv

(* A queue without its head.                                                  *)
LEMMA HeadTaken ==
    ASSUME NEW s \in Seq(Nat), Distinct(s), s # <<>>
    PROVE  /\ Head(s) \in ToSet(s) /\ Head(s) \in Nat
           /\ Tail(s) \in Seq(Nat) /\ Distinct(Tail(s))
           /\ ToSet(Tail(s)) = ToSet(s) \ {Head(s)}
    <1>1. /\ Len(s) \in Nat /\ Len(s) # 0 /\ DOMAIN s = 1..Len(s)
          /\ Head(s) = s[1] /\ 1 \in DOMAIN s
        BY EmptySeq
    <1>2. /\ RemoveAt(s, 1) \in Seq(Nat) /\ Distinct(RemoveAt(s, 1))
          /\ ToSet(RemoveAt(s, 1)) = ToSet(s) \ {s[1]}
        BY <1>1, TakenOut
    <1>3. RemoveAt(s, 1) = Tail(s)
        <2>1. SubSeq(s, 1, 0) = <<>> BY SubSeqEmpty
        <2>2. SubSeq(s, 2, Len(s)) = Tail(s) BY TailIsSubSeq
        <2>3. Tail(s) \in Seq(Nat) BY HeadTailProperties
        <2>4. <<>> \o Tail(s) = Tail(s) BY <2>3, ConcatEmptySeq
        <2>5. RemoveAt(s, 1) = SubSeq(s, 1, 0) \o SubSeq(s, 2, Len(s)) BY DEF RemoveAt
        <2>6. QED BY <2>1, <2>2, <2>4, <2>5
    <1>4. s[1] \in Nat /\ s[1] \in ToSet(s) BY <1>1 DEF ToSet
    <1>5. QED BY <1>1, <1>2, <1>3, <1>4

(* A pool has a thread.                                                       *)
LEMMA PoolHasRoom == PoolSize \in Nat /\ PoolSize >= 1
    BY DiscoveryAssumption DEF PoolSize

(* Nothing is in an empty queue.                                              *)
LEMMA EmptyHolds == ToSet(<<>>) = {} /\ Distinct(<<>>)
    BY DEF ToSet, Distinct

(* An item of a queue is one of its hosts.                                    *)
LEMMA ItemIn ==
    ASSUME NEW s \in Seq(Nat), NEW i \in DOMAIN s
    PROVE  s[i] \in ToSet(s) /\ s[i] \in Nat
    BY DEF ToSet

(* A probe begins.                                                            *)
LEMMA ProbeKeeps == PoolInv /\ Probe => PoolInv'
    <1> SUFFICES ASSUME PoolInv, Probe PROVE PoolInv'
        OBVIOUS
    <1> USE DEF PoolInv
    <1>1. /\ queued # <<>> /\ Len(probing) < PoolSize
          /\ probing' = Append(probing, Head(queued)) /\ queued' = Tail(queued)
          /\ candidates' = candidates /\ done' = done
          /\ results' = results /\ outcome' = outcome
        BY DEF Probe
    <1>2. /\ Head(queued) \in ToSet(queued) /\ Head(queued) \in Nat
          /\ queued' \in Seq(Nat) /\ Distinct(queued)'
          /\ ToSet(queued') = ToSet(queued) \ {Head(queued)}
        BY <1>1, HeadTaken DEF PlacesInv
    <1>3. Head(queued) \notin ToSet(probing) BY <1>2 DEF PlacesInv
    <1>4. /\ probing' \in Seq(Nat) /\ Distinct(probing)' /\ Len(probing') = Len(probing) + 1
          /\ ToSet(probing') = ToSet(probing) \cup {Head(queued)}
        BY <1>1, <1>2, <1>3, PutBehind DEF PlacesInv
    <1>5. Hosts' = Hosts /\ ToSet(done') = ToSet(done) /\ ToSet(results') = ToSet(results)
          /\ Distinct(done)' = Distinct(done) /\ Distinct(results)' = Distinct(results)
        BY <1>1 DEF Hosts
    <1>6. PlacesInv' BY <1>1, <1>2, <1>4, <1>5 DEF PlacesInv
    <1>7. FateInv' BY <1>1, <1>2, <1>4, <1>5 DEF FateInv
    <1>8. EndedInv'
        <2>1. Len(probing') <= PoolSize
            <3>1. Len(probing) \in Nat BY DEF PlacesInv
            <3>2. QED BY <1>1, <1>4, <3>1, PoolHasRoom
        <2>2. outcome \notin {"returned", "raised"} BY <1>1 DEF EndedInv
        <2>3. PoolSize' = PoolSize BY DEF PoolSize
        <2>4. QED BY <1>1, <2>1, <2>2, <2>3 DEF EndedInv
    <1>9. QED BY <1>6, <1>7, <1>8

(* A probe ends, whichever of those that run.                                 *)
LEMMA ProbeEndsKeeps == PoolInv /\ ProbeEnds => PoolInv'
    <1> SUFFICES ASSUME PoolInv, ProbeEnds PROVE PoolInv'
        OBVIOUS
    <1> USE DEF PoolInv
    <1>1. PICK i \in DOMAIN probing :
              /\ probing' = RemoveAt(probing, i) /\ done' = Append(done, probing[i])
              /\ candidates' = candidates /\ queued' = queued
              /\ results' = results /\ outcome' = outcome
        BY DEF ProbeEnds
    <1>2. /\ probing[i] \in ToSet(probing) /\ probing[i] \in Nat
          /\ probing' \in Seq(Nat) /\ Distinct(probing)' /\ Len(probing') = Len(probing) - 1
          /\ ToSet(probing') = ToSet(probing) \ {probing[i]}
        BY <1>1, TakenOut, ItemIn DEF PlacesInv
    <1>3. probing[i] \notin ToSet(done) BY <1>2 DEF PlacesInv
    <1>4. /\ done' \in Seq(Nat) /\ Distinct(done)'
          /\ ToSet(done') = ToSet(done) \cup {probing[i]}
        BY <1>1, <1>2, <1>3, PutBehind DEF PlacesInv
    <1>5. Hosts' = Hosts /\ ToSet(queued') = ToSet(queued) /\ ToSet(results') = ToSet(results)
          /\ Distinct(queued)' = Distinct(queued) /\ Distinct(results)' = Distinct(results)
        BY <1>1 DEF Hosts
    <1>6. PlacesInv' BY <1>1, <1>2, <1>4, <1>5 DEF PlacesInv
    <1>7. FateInv' BY <1>1, <1>2, <1>4, <1>5 DEF FateInv
    <1>8. EndedInv'
        <2>1. Len(probing') <= PoolSize
            <3>1. Len(probing) \in Nat BY DEF PlacesInv
            <3>2. QED BY <1>2, <3>1, PoolHasRoom DEF EndedInv
        <2>2. outcome \notin {"returned", "raised"}
            <3>1. probing # <<>> BY <1>2, EmptyHolds
            <3>2. QED BY <3>1 DEF EndedInv
        <2>3. PoolSize' = PoolSize BY DEF PoolSize
        <2>4. QED BY <1>1, <2>1, <2>2, <2>3 DEF EndedInv
    <1>9. QED BY <1>6, <1>7, <1>8

(* An ended probe is collected: it raises, is a scanner, or is nothing.       *)
LEMMA CollectKeeps == PoolInv /\ Collect => PoolInv'
    <1> SUFFICES ASSUME PoolInv, Collect PROVE PoolInv'
        OBVIOUS
    <1> USE DEF PoolInv
    <1>1. PICK i \in DOMAIN done :
              /\ outcome = "none" /\ done' = RemoveAt(done, i)
              /\ outcome' = IF done[i] \in Malformed THEN "raising" ELSE outcome
              /\ results' = IF done[i] \in Scanners THEN Append(results, done[i]) ELSE results
              /\ candidates' = candidates /\ queued' = queued /\ probing' = probing
        BY DEF Collect
    <1>2. /\ done[i] \in ToSet(done) /\ done[i] \in Nat
          /\ done' \in Seq(Nat) /\ Distinct(done)'
          /\ ToSet(done') = ToSet(done) \ {done[i]}
        BY <1>1, TakenOut, ItemIn DEF PlacesInv
    <1>3. done[i] \notin ToSet(results) BY <1>2 DEF PlacesInv
    <1>4. /\ results' \in Seq(Nat) /\ Distinct(results)'
          /\ ToSet(results') = ToSet(results) \cup ({done[i]} \cap Scanners)
        <2>1. CASE done[i] \in Scanners
            BY <1>1, <1>2, <1>3, <2>1, PutBehind DEF PlacesInv
        <2>2. CASE done[i] \notin Scanners
            BY <1>1, <2>2 DEF PlacesInv
        <2>3. QED BY <2>1, <2>2
    <1>5. Hosts' = Hosts /\ ToSet(queued') = ToSet(queued) /\ ToSet(probing') = ToSet(probing)
          /\ Distinct(queued)' = Distinct(queued) /\ Distinct(probing)' = Distinct(probing)
        BY <1>1 DEF Hosts
    <1>6. PlacesInv' BY <1>1, <1>2, <1>4, <1>5 DEF PlacesInv
    <1>7. FateInv'
        <2>1. done[i] \in Malformed => Hosts \cap Malformed # {}
            BY <1>2 DEF PlacesInv
        <2>2. QED BY <1>1, <1>2, <1>4, <1>5, <2>1 DEF FateInv
    <1>8. EndedInv'
        <2>1. PoolSize' = PoolSize BY DEF PoolSize
        <2>2. outcome' \notin {"returned", "raised"} BY <1>1
        <2>3. QED BY <1>1, <2>1, <2>2 DEF EndedInv
    <1>9. QED BY <1>6, <1>7, <1>8

(* All probes are collected, and the results sorted.                          *)
LEMMA FinishKeeps == PoolInv /\ Finish => PoolInv'
    <1> SUFFICES ASSUME PoolInv, Finish PROVE PoolInv'
        OBVIOUS
    <1> USE DEF PoolInv
    <1>1. /\ outcome = "none" /\ queued = <<>> /\ probing = <<>> /\ done = <<>>
          /\ outcome' = "returned" /\ results' = Sorted(results)
          /\ candidates' = candidates /\ queued' = queued
          /\ probing' = probing /\ done' = done
        BY DEF Finish, Idle
    <1>2. /\ results' \in Seq(Nat) /\ Distinct(results)'
          /\ ToSet(results') = ToSet(results)
          /\ \A i, j \in DOMAIN results' : i < j => results'[i] < results'[j]
        BY <1>1, SortedNumbers DEF PlacesInv
    <1>3. Hosts' = Hosts /\ PoolSize' = PoolSize BY <1>1 DEF Hosts, PoolSize
    <1>4. PlacesInv' BY <1>1, <1>2, <1>3 DEF PlacesInv
    <1>5. FateInv' BY <1>1, <1>2, <1>3 DEF FateInv
    <1>6. Hosts \cap Malformed = {} BY <1>1, EmptyHolds DEF FateInv
    <1>7. EndedInv' BY <1>1, <1>2, <1>3, <1>6 DEF EndedInv
    <1>8. QED BY <1>4, <1>5, <1>7

(* The inductive invariant of a discovery: where every candidate is.          *)
THEOREM PoolInvariant == DiscoverySpec => []PoolInv
    <1>1. DiscoveryInit => PoolInv
        <2> SUFFICES ASSUME DiscoveryInit PROVE PoolInv
            OBVIOUS
        <2>1. /\ candidates \in CandidateLists /\ queued = Deduped(candidates)
              /\ probing = <<>> /\ done = <<>> /\ results = <<>> /\ outcome = "none"
            BY DEF DiscoveryInit
        <2>2. candidates \in Seq(Nat) BY <2>1, DiscoveryAssumption
        <2>3. /\ queued \in Seq(Nat) /\ Distinct(queued) /\ ToSet(queued) = Hosts
            BY <2>1, <2>2, DedupedHosts DEF Hosts
        <2>4. PlacesInv BY <2>1, <2>3, EmptyHolds DEF PlacesInv
        <2>5. FateInv BY <2>1, <2>3, EmptyHolds DEF FateInv
        <2>6. EndedInv BY <2>1, PoolHasRoom DEF EndedInv
        <2>7. QED BY <2>4, <2>5, <2>6 DEF PoolInv
    <1>2. PoolInv /\ [DiscoveryNext]_discoveryVars => PoolInv'
        <2> SUFFICES ASSUME PoolInv, [DiscoveryNext]_discoveryVars PROVE PoolInv'
            OBVIOUS
        <2>1. CASE Raise \/ UNCHANGED discoveryVars
            <3>1. /\ candidates' = candidates /\ queued' = queued /\ probing' = probing
                  /\ done' = done /\ results' = results
                  /\ \/ outcome' = outcome
                     \/ /\ outcome = "raising" /\ outcome' = "raised"
                        /\ queued = <<>> /\ probing = <<>>
                BY <2>1 DEF Raise, Idle, discoveryVars
            <3>2. Hosts' = Hosts /\ PoolSize' = PoolSize BY <3>1 DEF Hosts, PoolSize
            <3>3. PlacesInv' BY <3>1, <3>2 DEF PoolInv, PlacesInv
            <3>4. FateInv' BY <3>1, <3>2 DEF PoolInv, FateInv
            <3>5. EndedInv' BY <3>1, <3>2 DEF PoolInv, EndedInv
            <3>6. QED BY <3>3, <3>4, <3>5 DEF PoolInv
        <2>2. QED
            BY <2>1, ProbeKeeps, ProbeEndsKeeps, CollectKeeps, FinishKeeps
            DEF DiscoveryNext
    <1>3. QED BY <1>1, <1>2, PTL DEF DiscoverySpec

(* Whatever order the probes end in, a discovery returns every scanner once   *)
(* and in order, or raises because of a malformed name.                       *)
THEOREM DiscoveryComplete == DiscoverySpec => []DiscoveryExact
    <1>1. PoolInv => DiscoveryExact
        <2> SUFFICES ASSUME PoolInv PROVE DiscoveryExact
            OBVIOUS
        <2>1. outcome = "returned" => ToSet(results) = Hosts \cap Scanners
            BY EmptyHolds DEF PoolInv, PlacesInv, FateInv, EndedInv
        <2>2. outcome \in {"returned", "raised"} => queued \o probing = <<>>
            BY DEF PoolInv, EndedInv
        <2>3. QED BY <2>1, <2>2 DEF PoolInv, FateInv, EndedInv, DiscoveryExact, Hosts
    <1>2. QED BY <1>1, PoolInvariant, PTL

----------------------------------------------------------------------------
(* JpegFrames *)

Symbol == {"FF", "D8", "D9", "00"}

\* An image: its markers at its ends, and every other FF followed by 00.
IsImage(s) ==
    /\ s \in Seq(Symbol) /\ Len(s) >= 4
    /\ s[1] = "FF" /\ s[2] = "D8" /\ s[Len(s) - 1] = "FF" /\ s[Len(s)] = "D9"
    /\ \A i \in 3..(Len(s) - 2) : s[i] = "FF" => i < Len(s) - 2 /\ s[i + 1] = "00"
\* The bytes from first to last hold s.
HoldsAt(bytes, s, first) == \A j \in 1..Len(s) : bytes[first - 1 + j] = s[j]
\* The marker occurs exactly where a side has its place.
OccursAt(bytes, marker, places) ==
    \A i \in 1..(Len(bytes) - 1) :
        bytes[i] = marker[1] /\ bytes[i + 1] = marker[2] <=> i \in places

FramesTyped ==
    /\ Len(sides) \in 1..2 /\ sides \in Seq(Images) /\ padding \in Paddings
    /\ received \in 0..Len(Sheet) /\ place \in {"read", "extract"}
\* The frames are the first sides, whole, and the search goes on behind them.
FramesSoFar ==
    /\ frames \in Seq(Seq(Symbol)) /\ Len(frames) <= Len(sides)
    /\ \A i \in DOMAIN frames : frames[i] = sides[i]
    /\ offset = (IF frames = <<>> THEN 1 ELSE EndOf(Len(frames)) + 1)
    /\ frames # <<>> => EndOf(Len(frames)) <= received
FramesInv == FramesTyped /\ FramesSoFar /\ FramesAreSides

(* A least element is what Min picks.                                         *)
LEMMA MinIs ==
    ASSUME NEW S \in SUBSET Nat, NEW m \in S, \A x \in S : m <= x
    PROVE  Min(S) = m
    <1>1. Min(S) \in S /\ \A i \in S : Min(S) <= i BY LeastIndex
    <1>2. Min(S) <= m /\ m <= Min(S) /\ Min(S) \in Nat BY <1>1
    <1>3. QED BY <1>2

(* Bodies and paddings hold no marker of their own. *)
LEMMA Escaped ==
    ASSUME NEW s \in Bodies \cup Paddings
    PROVE  /\ s \in Seq(Symbol)
           /\ \A i \in 1..Len(s) : s[i] = "FF" => i < Len(s) /\ s[i + 1] = "00"
    <1>1. s \in Seq(Symbol) BY FramesAssumption DEF Symbol
    <1>2. DOMAIN s = 1..Len(s) BY <1>1, LenProperties
    <1>3. QED BY <1>1, <1>2, FramesAssumption

(* Concatenation puts the second sequence behind the first. *)
LEMMA HoldsBoth ==
    ASSUME NEW s \in Seq(Symbol), NEW t \in Seq(Symbol)
    PROVE  /\ s \o t \in Seq(Symbol) /\ Len(s \o t) = Len(s) + Len(t)
           /\ \A i \in 1..Len(s) : (s \o t)[i] = s[i]
           /\ \A j \in 1..Len(t) : (s \o t)[Len(s) + j] = t[j]
    <1>1. Len(s) \in Nat /\ Len(t) \in Nat BY LenProperties
    <1>2. /\ s \o t \in Seq(Symbol) /\ Len(s \o t) = Len(s) + Len(t)
          /\ \A i \in 1..(Len(s) + Len(t)) :
                (s \o t)[i] = (IF i <= Len(s) THEN s[i] ELSE t[i - Len(s)])
        BY ConcatProperties
    <1>3. \A j \in 1..Len(t) :
             /\ Len(s) + j \in 1..(Len(s) + Len(t)) /\ ~(Len(s) + j <= Len(s))
             /\ Len(s) + j - Len(s) = j
        BY <1>1
    <1>4. \A i \in 1..Len(s) : i \in 1..(Len(s) + Len(t)) /\ i <= Len(s) BY <1>1
    <1>5. QED BY <1>2, <1>3, <1>4

(* What the scanner sends is an image. *)
LEMMA ImageShape ==
    ASSUME NEW image \in Images
    PROVE  IsImage(image)
    <1>1. PICK body \in Bodies : image = SOI \o body \o EOI
        BY DEF Images
    <1> DEFINE n    == Len(body)
               head == SOI \o body
    <1>2. /\ body \in Seq(Symbol)
          /\ \A i \in 1..n : body[i] = "FF" => i < n /\ body[i + 1] = "00"
        BY Escaped
    <1>3. /\ SOI \in Seq(Symbol) /\ Len(SOI) = 2 /\ SOI[1] = "FF" /\ SOI[2] = "D8"
          /\ EOI \in Seq(Symbol) /\ Len(EOI) = 2 /\ EOI[1] = "FF" /\ EOI[2] = "D9"
        BY DEF SOI, EOI, Symbol
    <1>4. n \in Nat BY <1>2, LenProperties
    <1>5. /\ head \in Seq(Symbol) /\ Len(head) = 2 + n
          /\ \A i \in 1..2 : head[i] = SOI[i]
          /\ \A i \in 1..n : head[2 + i] = body[i]
        <2>1. /\ SOI \o body \in Seq(Symbol) /\ Len(SOI \o body) = Len(SOI) + Len(body)
              /\ \A i \in 1..Len(SOI) : (SOI \o body)[i] = SOI[i]
              /\ \A i \in 1..Len(body) : (SOI \o body)[Len(SOI) + i] = body[i]
            BY <1>2, <1>3, HoldsBoth
        <2>2. QED BY <1>3, <2>1
    <1>6. image = head \o EOI BY <1>1
    <1> HIDE DEF head, n
    <1>7. /\ image \in Seq(Symbol) /\ Len(image) = n + 4
          /\ \A i \in 1..(2 + n) : image[i] = head[i]
          /\ \A i \in 1..2 : image[2 + n + i] = EOI[i]
        <2>1. /\ image \in Seq(Symbol) /\ Len(image) = Len(head) + Len(EOI)
              /\ \A i \in 1..Len(head) : image[i] = head[i]
              /\ \A i \in 1..Len(EOI) : image[Len(head) + i] = EOI[i]
            BY <1>3, <1>5, <1>6, HoldsBoth
        <2> QED BY <1>3, <1>4, <1>5, <2>1
    <1>8. \A i \in 1..n : image[2 + i] = body[i]
        BY <1>4, <1>5, <1>7
    <1>9. image[1] = "FF" /\ image[2] = "D8" /\ image[n + 3] = "FF" /\ image[n + 4] = "D9"
        <2>1. image[1] = head[1] /\ image[2] = head[2] /\ head[1] = SOI[1] /\ head[2] = SOI[2]
            BY <1>4, <1>5, <1>7
        <2>2. image[2 + n + 1] = EOI[1] /\ image[2 + n + 2] = EOI[2]
            BY <1>7
        <2>3. 2 + n + 1 = n + 3 /\ 2 + n + 2 = n + 4 BY <1>4
        <2> QED BY <1>3, <2>1, <2>2, <2>3
    <1>10. \A i \in 3..(n + 2) : image[i] = "FF" => i < n + 2 /\ image[i + 1] = "00"
        <2> SUFFICES ASSUME NEW i \in 3..(n + 2), image[i] = "FF"
                     PROVE  i < n + 2 /\ image[i + 1] = "00"
            OBVIOUS
        <2> DEFINE j == i - 2
        <2>1. j \in 1..n /\ i = 2 + j BY <1>4
        <2>2. body[j] = "FF" BY <1>8, <2>1
        <2>3. j < n /\ body[j + 1] = "00" BY <1>2, <2>1, <2>2
        <2>4. j + 1 \in 1..n /\ i + 1 = 2 + (j + 1) BY <1>4, <2>1, <2>3
        <2>5. image[i + 1] = "00" BY <1>8, <2>3, <2>4
        <2> QED BY <1>4, <2>1, <2>3, <2>5
    <1>11. Len(image) - 1 = n + 3 /\ Len(image) - 2 = n + 2 /\ Len(image) >= 4
        BY <1>4, <1>7
    <1>12. QED BY <1>7, <1>9, <1>10, <1>11 DEF IsImage

(* Every FF of an image and its padding begins one of its two markers, or is  *)
(* followed by 00.                                                            *)
LEMMA BlockMarkers ==
    ASSUME NEW bytes, NEW image, IsImage(image), NEW pad \in Paddings, NEW b \in Nat \ {0},
           HoldsAt(bytes, image, b), HoldsAt(bytes, pad, b + Len(image))
    PROVE  /\ bytes[b] = "FF" /\ bytes[b + 1] = "D8"
           /\ bytes[b + Len(image) - 2] = "FF" /\ bytes[b + Len(image) - 1] = "D9"
           /\ \A i \in b..(b + Len(image) + Len(pad) - 1) :
                 bytes[i] = "FF" => \/ i = b \/ i = b + Len(image) - 2
                                    \/ bytes[i + 1] = "00"
    <1> DEFINE n == Len(image)
               p == Len(pad)
    <1>1. /\ image[1] = "FF" /\ image[2] = "D8" /\ image[n - 1] = "FF" /\ image[n] = "D9"
          /\ \A i \in 3..(n - 2) : image[i] = "FF" => i < n - 2 /\ image[i + 1] = "00"
          /\ n \in Nat /\ n >= 4
        BY LenProperties DEF IsImage
    <1>2. /\ p \in Nat
          /\ \A i \in 1..p : pad[i] = "FF" => i < p /\ pad[i + 1] = "00"
        BY Escaped, LenProperties
    <1>3. /\ \A j \in 1..n : bytes[b - 1 + j] = image[j]
          /\ \A j \in 1..p : bytes[b + n - 1 + j] = pad[j]
        BY DEF HoldsAt
    <1> HIDE DEF n, p
    <1>4. bytes[b] = "FF" /\ bytes[b + 1] = "D8"
        <2>1. 1 \in 1..n /\ 2 \in 1..n /\ b - 1 + 1 = b /\ b - 1 + 2 = b + 1 BY <1>1
        <2>2. bytes[b - 1 + 1] = "FF" /\ bytes[b - 1 + 2] = "D8" BY <1>1, <1>3, <2>1
        <2> QED BY <2>1, <2>2
    <1>5. bytes[b + n - 2] = "FF" /\ bytes[b + n - 1] = "D9"
        <2>1. /\ n \in 1..n /\ n - 1 \in 1..n
              /\ b - 1 + (n - 1) = b + n - 2 /\ b - 1 + n = b + n - 1
            BY <1>1
        <2>2. bytes[b - 1 + (n - 1)] = "FF" /\ bytes[b - 1 + n] = "D9" BY <1>1, <1>3, <2>1
        <2> QED BY <2>1, <2>2
    <1>6. ASSUME NEW i \in b..(b + n + p - 1), bytes[i] = "FF", i # b, i # b + n - 2
          PROVE  bytes[i + 1] = "00"
        <2>1. CASE i <= b + n - 1
            <3> DEFINE j == i - b + 1
            <3>1. j \in 1..n /\ i = b - 1 + j BY <1>1, <2>1
            <3>2. image[j] = "FF" BY <1>3, <1>6, <3>1
            <3>3. j # 1 /\ j # n - 1 BY <1>1, <1>6, <3>1
            <3>4. j # 2 /\ j # n BY <1>1, <3>2
            <3>5. j \in 3..(n - 2) BY <1>1, <3>1, <3>3, <3>4
            <3>6. j < n - 2 /\ image[j + 1] = "00" BY <1>1, <3>2, <3>5
            <3>7. j + 1 \in 1..n /\ i + 1 = b - 1 + (j + 1) BY <1>1, <3>1, <3>5, <3>6
            <3>8. QED BY <1>3, <3>6, <3>7
        <2>2. CASE i > b + n - 1
            <3> DEFINE j == i - (b + n - 1)
            <3>1. j \in 1..p /\ i = b + n - 1 + j BY <1>1, <1>2, <1>6, <2>2
            <3>2. pad[j] = "FF" BY <1>3, <1>6, <3>1
            <3>3. j < p /\ pad[j + 1] = "00" BY <1>2, <3>1, <3>2
            <3>4. j + 1 \in 1..p /\ i + 1 = b + n - 1 + (j + 1) BY <1>1, <1>2, <3>1, <3>3
            <3>5. QED BY <1>3, <3>3, <3>4
        <2> QED BY <1>1, <2>1, <2>2
    <1>7. QED BY <1>4, <1>5, <1>6 DEF n, p

(* The sides and their paddings follow one another.                           *)
LEMMA SheetShape ==
    ASSUME FramesTyped
    PROVE  /\ padding \in Seq(Symbol) /\ Len(padding) \in Nat
           /\ \A k \in DOMAIN sides :
                 /\ IsImage(sides[k]) /\ Len(sides[k]) \in Nat /\ Len(sides[k]) >= 4
                 /\ BeginOf(k) \in Nat \ {0} /\ EndOf(k) \in Nat
                 /\ HoldsAt(Sheet, sides[k], BeginOf(k))
                 /\ HoldsAt(Sheet, padding, BeginOf(k) + Len(sides[k]))
           /\ Sheet \in Seq(Symbol)
           /\ Len(Sheet) = EndOf(Len(sides)) + Len(padding)
           /\ DOMAIN sides = 1..Len(sides)
    <1> DEFINE p == Len(padding)
               s == sides[1]
               t == sides[2]
    <1>1. DOMAIN sides = 1..Len(sides) BY LenProperties DEF FramesTyped
    <1>2. padding \in Seq(Symbol) /\ p \in Nat BY Escaped, LenProperties DEF FramesTyped
    <1>3. \A k \in DOMAIN sides :
             /\ IsImage(sides[k]) /\ sides[k] \in Seq(Symbol)
             /\ Len(sides[k]) \in Nat /\ Len(sides[k]) >= 4
        <2> SUFFICES ASSUME NEW k \in DOMAIN sides
                     PROVE  /\ IsImage(sides[k]) /\ sides[k] \in Seq(Symbol)
                            /\ Len(sides[k]) \in Nat /\ Len(sides[k]) >= 4
            OBVIOUS
        <2>1. sides[k] \in Images BY ElementOfSeq, <1>1 DEF FramesTyped
        <2>2. IsImage(sides[k]) BY <2>1, ImageShape
        <2>3. sides[k] \in Seq(Symbol) /\ Len(sides[k]) >= 4 BY <2>2 DEF IsImage
        <2> QED BY <2>2, <2>3, LenProperties
    <1>4. 1 \in DOMAIN sides /\ BeginOf(1) = 1 /\ EndOf(1) = Len(s)
        BY <1>1, <1>3 DEF FramesTyped, BeginOf, EndOf
    <1> DEFINE block == s \o padding
    <1>5. /\ block \in Seq(Symbol) /\ Len(block) = Len(s) + p
          /\ \A j \in 1..Len(s) : block[j] = s[j]
          /\ \A j \in 1..p : block[Len(s) + j] = padding[j]
        BY <1>2, <1>3, <1>4, HoldsBoth
    <1>6. CASE Len(sides) = 1
        <2>1. Sheet = block BY <1>6 DEF Sheet
        <2>2. DOMAIN sides = {1} BY <1>1, <1>6
        <2>3. BeginOf(1) - 1 = 0 /\ BeginOf(1) + Len(s) - 1 = Len(s)
            BY <1>3, <1>4
        <2> HIDE DEF block, s, p
        <2>4. \A j \in 1..Len(s) : Sheet[0 + j] = s[j]
            BY <1>5, <2>1
        <2>5. HoldsAt(Sheet, s, BeginOf(1)) BY <2>3, <2>4 DEF HoldsAt
        <2>6. HoldsAt(Sheet, padding, BeginOf(1) + Len(s)) BY <1>5, <2>1, <2>3 DEF HoldsAt, p
        <2>7. Len(Sheet) = EndOf(Len(sides)) + p BY <1>4, <1>5, <1>6, <2>1
        <2>8. IsImage(s) /\ Len(s) \in Nat /\ Len(s) >= 4 BY <1>3, <1>4 DEF s
        <2>9. BeginOf(1) \in Nat \ {0} /\ EndOf(1) \in Nat BY <1>4, <2>8 DEF s
        <2>10. Sheet \in Seq(Symbol) BY <1>5, <2>1
        <2> QED BY <1>1, <1>2, <2>2, <2>5, <2>6, <2>7, <2>8, <2>9, <2>10 DEF s, p
    <1>7. CASE Len(sides) = 2
        <2> DEFINE more  == block \o t
                   whole == more \o padding
        <2>1. Sheet = whole BY <1>7 DEF Sheet
        <2>2. DOMAIN sides = {1, 2} BY <1>1, <1>7
        <2>3. /\ BeginOf(2) = Len(s) + p + 1 /\ EndOf(2) = Len(s) + p + Len(t)
              /\ t \in Seq(Symbol) /\ Len(t) \in Nat /\ Len(t) >= 4 /\ IsImage(t)
            BY <1>2, <1>3, <1>4, <2>2 DEF BeginOf, EndOf
        <2>4. /\ more \in Seq(Symbol) /\ Len(more) = Len(block) + Len(t)
              /\ \A j \in 1..Len(block) : more[j] = block[j]
              /\ \A j \in 1..Len(t) : more[Len(block) + j] = t[j]
            BY <1>5, <2>3, HoldsBoth
        <2>5. /\ whole \in Seq(Symbol) /\ Len(whole) = Len(more) + p
              /\ \A j \in 1..Len(more) : whole[j] = more[j]
              /\ \A j \in 1..p : whole[Len(more) + j] = padding[j]
            BY <1>2, <2>4, HoldsBoth
        <2>6. Len(s) \in Nat /\ Len(s) >= 4 /\ IsImage(s) BY <1>3, <1>4
        <2> HIDE DEF block, more, whole, s, t, p
        <2>7. \A j \in 1..Len(s) : Sheet[BeginOf(1) - 1 + j] = s[j]
            <3>1. \A j \in 1..Len(s) : j \in 1..Len(block) /\ j \in 1..Len(more) /\ 1 - 1 + j = j
                BY <1>2, <1>5, <2>3, <2>4, <2>6
            <3> QED BY <1>4, <1>5, <2>1, <2>4, <2>5, <3>1
        <2>8. \A j \in 1..p : Sheet[BeginOf(1) + Len(s) - 1 + j] = padding[j]
            <3>1. \A j \in 1..p : /\ Len(s) + j \in 1..Len(block) /\ Len(s) + j \in 1..Len(more)
                                  /\ 1 + Len(s) - 1 + j = Len(s) + j
                BY <1>2, <1>5, <2>3, <2>4, <2>6
            <3> QED BY <1>4, <1>5, <2>1, <2>4, <2>5, <3>1
        <2>9. \A j \in 1..Len(t) : Sheet[BeginOf(2) - 1 + j] = t[j]
            <3>1. \A j \in 1..Len(t) : /\ Len(block) + j \in 1..Len(more)
                                       /\ BeginOf(2) - 1 + j = Len(block) + j
                BY <1>2, <1>5, <2>3, <2>4, <2>6
            <3> QED BY <2>1, <2>4, <2>5, <3>1
        <2>10. \A j \in 1..p : Sheet[BeginOf(2) + Len(t) - 1 + j] = padding[j]
            <3>1. \A j \in 1..p : BeginOf(2) + Len(t) - 1 + j = Len(more) + j
                BY <1>2, <1>5, <2>3, <2>4, <2>6
            <3> QED BY <2>1, <2>5, <3>1
        <2>11. /\ HoldsAt(Sheet, s, BeginOf(1)) /\ HoldsAt(Sheet, padding, BeginOf(1) + Len(s))
               /\ HoldsAt(Sheet, t, BeginOf(2)) /\ HoldsAt(Sheet, padding, BeginOf(2) + Len(t))
            <3>1. HoldsAt(Sheet, s, BeginOf(1)) /\ HoldsAt(Sheet, t, BeginOf(2))
                BY <2>7, <2>9 DEF HoldsAt
            <3>2. p = Len(padding) BY DEF p
            <3>3. HoldsAt(Sheet, padding, BeginOf(1) + Len(s))
                BY <1>4, <2>6, <2>8, <3>2 DEF HoldsAt
            <3>4. HoldsAt(Sheet, padding, BeginOf(2) + Len(t))
                BY <1>2, <2>3, <2>6, <2>10, <3>2 DEF HoldsAt
            <3>5. QED BY <3>1, <3>3, <3>4
        <2>12. Len(Sheet) = EndOf(Len(sides)) + p
            BY <1>2, <1>5, <1>7, <2>1, <2>3, <2>4, <2>5, <2>6
        <2>13. /\ BeginOf(1) \in Nat \ {0} /\ EndOf(1) \in Nat
               /\ BeginOf(2) \in Nat \ {0} /\ EndOf(2) \in Nat
            BY <1>2, <1>4, <2>3, <2>6
        <2> QED BY <1>1, <1>2, <2>1, <2>2, <2>3, <2>5, <2>6, <2>11, <2>12, <2>13 DEF s, t, p
    <1>8. QED BY <1>6, <1>7 DEF FramesTyped

Begins == {BeginOf(k) : k \in DOMAIN sides}
Ends   == {EndOf(k) - 1 : k \in DOMAIN sides}

(* Where the sides are: one behind the other.                                 *)
LEMMA SidesInOrder ==
    ASSUME FramesTyped
    PROVE  /\ \A k \in DOMAIN sides :
                 /\ EndOf(k) = BeginOf(k) + Len(sides[k]) - 1
                 /\ BeginOf(k) + 3 <= EndOf(k) /\ EndOf(k) <= Len(Sheet)
           /\ \A k, l \in DOMAIN sides : k < l => EndOf(k) < BeginOf(l)
           /\ BeginOf(1) = 1 /\ Len(sides) \in 1..2 /\ DOMAIN sides = 1..Len(sides)
           /\ received \in Nat /\ received <= Len(Sheet) /\ Len(Sheet) \in Nat
    <1>1. /\ Len(padding) \in Nat /\ DOMAIN sides = 1..Len(sides) /\ Len(sides) \in 1..2
          /\ \A k \in DOMAIN sides : Len(sides[k]) \in Nat /\ Len(sides[k]) >= 4
          /\ Len(Sheet) = EndOf(Len(sides)) + Len(padding)
        BY SheetShape DEF FramesTyped
    <1>2. BeginOf(1) = 1 /\ 1 \in DOMAIN sides BY <1>1 DEF BeginOf
    <1>3. 2 \in DOMAIN sides => BeginOf(2) = Len(sides[1]) + Len(padding) + 1 BY DEF BeginOf
    <1>4. \A k \in DOMAIN sides : EndOf(k) = BeginOf(k) + Len(sides[k]) - 1 BY DEF EndOf
    <1>5. \A k \in DOMAIN sides : k = 1 \/ k = 2 BY <1>1
    <1>6. \A k \in DOMAIN sides : BeginOf(k) + 3 <= EndOf(k) /\ BeginOf(k) \in Nat
        BY <1>1, <1>2, <1>3, <1>4, <1>5
    <1>7. \A k, l \in DOMAIN sides : k < l => EndOf(k) < BeginOf(l)
        BY <1>1, <1>2, <1>3, <1>4, <1>5
    <1>8. Len(sides) \in DOMAIN sides /\ EndOf(Len(sides)) \in Nat
        BY <1>1, <1>4, <1>6
    <1>9. \A k \in DOMAIN sides : EndOf(k) <= EndOf(Len(sides))
        <2> SUFFICES ASSUME NEW k \in DOMAIN sides PROVE EndOf(k) <= EndOf(Len(sides))
            OBVIOUS
        <2>1. k = Len(sides) \/ k < Len(sides) BY <1>1
        <2>2. k < Len(sides) => EndOf(k) < BeginOf(Len(sides)) BY <1>7, <1>8
        <2>3. /\ BeginOf(k) \in Nat /\ Len(sides[k]) \in Nat
              /\ EndOf(k) = BeginOf(k) + Len(sides[k]) - 1
            BY <1>1, <1>4, <1>6
        <2>4. BeginOf(Len(sides)) \in Nat /\ BeginOf(Len(sides)) + 3 <= EndOf(Len(sides))
            BY <1>6, <1>8
        <2> QED BY <1>8, <2>1, <2>2, <2>3, <2>4
    <1>10. Len(Sheet) \in Nat /\ \A k \in DOMAIN sides : EndOf(k) <= Len(Sheet)
        BY <1>1, <1>4, <1>6, <1>8, <1>9
    <1>11. received \in Nat /\ received <= Len(Sheet) BY <1>10 DEF FramesTyped
    <1>12. QED BY <1>1, <1>2, <1>4, <1>6, <1>7, <1>10, <1>11

(* The only start markers are where a side begins, the only end markers where *)
(* one ends.                                                                  *)
LEMMA SheetMarkers ==
    ASSUME FramesTyped
    PROVE  OccursAt(Sheet, SOI, Begins) /\ OccursAt(Sheet, EOI, Ends)
    <1>1. SOI[1] = "FF" /\ SOI[2] = "D8" /\ EOI[1] = "FF" /\ EOI[2] = "D9"
        BY DEF SOI, EOI
    <1>2. \A k \in DOMAIN sides :
             /\ Sheet[BeginOf(k)] = "FF" /\ Sheet[BeginOf(k) + 1] = "D8"
             /\ Sheet[EndOf(k) - 1] = "FF" /\ Sheet[EndOf(k)] = "D9"
             /\ \A i \in BeginOf(k)..(EndOf(k) + Len(padding)) :
                   Sheet[i] = "FF" =>
                      i = BeginOf(k) \/ i = EndOf(k) - 1 \/ Sheet[i + 1] = "00"
        <2> SUFFICES ASSUME NEW k \in DOMAIN sides
                     PROVE  /\ Sheet[BeginOf(k)] = "FF" /\ Sheet[BeginOf(k) + 1] = "D8"
                            /\ Sheet[EndOf(k) - 1] = "FF" /\ Sheet[EndOf(k)] = "D9"
                            /\ \A i \in BeginOf(k)..(EndOf(k) + Len(padding)) :
                                  Sheet[i] = "FF" =>
                                     i = BeginOf(k) \/ i = EndOf(k) - 1 \/ Sheet[i + 1] = "00"
            OBVIOUS
        <2> DEFINE image == sides[k]
                   b     == BeginOf(k)
        <2>1. /\ IsImage(image) /\ b \in Nat \ {0} /\ padding \in Paddings
              /\ HoldsAt(Sheet, image, b) /\ HoldsAt(Sheet, padding, b + Len(image))
            BY SheetShape DEF FramesTyped
        <2>2. /\ EndOf(k) = b + Len(image) - 1
              /\ Len(image) \in Nat /\ Len(padding) \in Nat
            BY SheetShape, SidesInOrder
        <2> HIDE DEF image, b
        <2>3. /\ Sheet[b] = "FF" /\ Sheet[b + 1] = "D8"
              /\ Sheet[b + Len(image) - 2] = "FF" /\ Sheet[b + Len(image) - 1] = "D9"
              /\ \A i \in b..(b + Len(image) + Len(padding) - 1) :
                    Sheet[i] = "FF" => \/ i = b \/ i = b + Len(image) - 2
                                       \/ Sheet[i + 1] = "00"
            BY <2>1, BlockMarkers
        <2>4. /\ b + Len(image) - 2 = EndOf(k) - 1 /\ b + Len(image) - 1 = EndOf(k)
              /\ b + Len(image) + Len(padding) - 1 = EndOf(k) + Len(padding)
            BY <2>1, <2>2
        <2> QED BY <2>3, <2>4 DEF b
    <1>3. \A i \in 1..(Len(Sheet) - 1) :
             \E k \in DOMAIN sides : i \in BeginOf(k)..(EndOf(k) + Len(padding))
        <2> SUFFICES ASSUME NEW i \in 1..(Len(Sheet) - 1)
                     PROVE  \E k \in DOMAIN sides :
                               i \in BeginOf(k)..(EndOf(k) + Len(padding))
            OBVIOUS
        <2>1. /\ Len(Sheet) = EndOf(Len(sides)) + Len(padding) /\ Len(padding) \in Nat
              /\ \A k \in DOMAIN sides : BeginOf(k) \in Nat /\ EndOf(k) \in Nat
              /\ Len(sides) \in 1..2 /\ DOMAIN sides = 1..Len(sides)
              /\ BeginOf(1) = 1
            BY SheetShape, SidesInOrder
        <2>2. Len(sides) = 2 => BeginOf(2) = EndOf(1) + Len(padding) + 1
            <3>1. EndOf(1) = BeginOf(1) + Len(sides[1]) - 1 /\ Len(sides[1]) \in Nat
                BY <2>1, SheetShape, SidesInOrder
            <3> QED BY <2>1, <3>1 DEF BeginOf
        <2>3. CASE Len(sides) = 1
            BY <2>1, <2>3
        <2>4. CASE Len(sides) = 2
            <3>1. 1 \in DOMAIN sides /\ 2 \in DOMAIN sides BY <2>1, <2>4
            <3>2. i \in BeginOf(1)..(EndOf(1) + Len(padding))
                    \/ i \in BeginOf(2)..(EndOf(2) + Len(padding))
                BY <2>1, <2>2, <2>4, <3>1
            <3>3. QED BY <3>1, <3>2
        <2> QED BY <2>1, <2>3, <2>4
    <1>4. \A k \in DOMAIN sides : BeginOf(k) \in Nat /\ EndOf(k) \in Nat
        BY SheetShape
    <1>5. ASSUME NEW i \in 1..(Len(Sheet) - 1)
          PROVE  Sheet[i] = "FF" /\ Sheet[i + 1] = "D8" <=> i \in Begins
        <2>1. ASSUME Sheet[i] = "FF", Sheet[i + 1] = "D8" PROVE i \in Begins
            <3>1. PICK k \in DOMAIN sides : i \in BeginOf(k)..(EndOf(k) + Len(padding))
                BY <1>3
            <3>2. i = BeginOf(k) \/ i = EndOf(k) - 1 BY <1>2, <2>1, <3>1
            <3>3. i # EndOf(k) - 1
                <4>1. i = EndOf(k) - 1 => i + 1 = EndOf(k) BY <1>4
                <4> QED BY <1>2, <2>1, <4>1
            <3>4. QED BY <3>2, <3>3 DEF Begins
        <2>2. i \in Begins => Sheet[i] = "FF" /\ Sheet[i + 1] = "D8"
            BY <1>2 DEF Begins
        <2>3. QED BY <2>1, <2>2
    <1>6. ASSUME NEW i \in 1..(Len(Sheet) - 1)
          PROVE  Sheet[i] = "FF" /\ Sheet[i + 1] = "D9" <=> i \in Ends
        <2>1. ASSUME Sheet[i] = "FF", Sheet[i + 1] = "D9" PROVE i \in Ends
            <3>1. PICK k \in DOMAIN sides : i \in BeginOf(k)..(EndOf(k) + Len(padding))
                BY <1>3
            <3>2. i = BeginOf(k) \/ i = EndOf(k) - 1 BY <1>2, <2>1, <3>1
            <3>3. i # BeginOf(k) BY <1>2, <2>1
            <3>4. QED BY <3>2, <3>3 DEF Ends
        <2>2. ASSUME i \in Ends PROVE Sheet[i] = "FF" /\ Sheet[i + 1] = "D9"
            <3>1. PICK k \in DOMAIN sides : i = EndOf(k) - 1 BY <2>2 DEF Ends
            <3>2. i + 1 = EndOf(k) BY <1>4, <3>1
            <3>3. QED BY <1>2, <3>1, <3>2
        <2>3. QED BY <2>1, <2>2
    <1>7. QED BY <1>1, <1>5, <1>6 DEF OccursAt

(* The part of the sheet that has arrived, and the markers in it.             *)
LEMMA StreamMarkers ==
    ASSUME FramesTyped, NEW from \in Nat \ {0}
    PROVE  /\ stream \in Seq(Symbol) /\ Len(stream) = received
           /\ \A i \in 1..received : stream[i] = Sheet[i]
           /\ \A i : i \in Matches(stream, SOI, from)
                     <=> i \in Begins /\ i >= from /\ i < received
           /\ \A i : i \in Matches(stream, EOI, from)
                     <=> i \in Ends /\ i >= from /\ i < received
    <1>1. Sheet \in Seq(Symbol) BY SheetShape
    <1>2. received \in Nat /\ received <= Len(Sheet) /\ Len(Sheet) \in Nat
        BY SidesInOrder
    <1>3. /\ stream \in Seq(Symbol) /\ Len(stream) = received
          /\ \A i \in 1..received : stream[i] = Sheet[i]
        <2>1. 1 \in 1..(Len(Sheet) + 1) /\ received \in 0..Len(Sheet) BY <1>2
        <2>2. /\ stream \in Seq(Symbol)
              /\ Len(stream) = (IF 1 <= received THEN received - 1 + 1 ELSE 0)
              /\ \A i \in 1..(received - 1 + 1) : stream[i] = Sheet[1 + i - 1]
            BY <1>1, <2>1, SubSeqProperties DEF stream
        <2>3. received - 1 + 1 = received /\ \A i \in 1..received : 1 + i - 1 = i
            BY <1>2
        <2>4. Len(stream) = received BY <1>2, <2>2
        <2> QED BY <2>2, <2>3, <2>4
    <1>4. \A i \in Begins \cup Ends : i \in Nat \ {0} /\ i < Len(Sheet)
        <2>1. \A k \in DOMAIN sides :
                 /\ BeginOf(k) \in Nat \ {0} /\ EndOf(k) \in Nat
                 /\ BeginOf(k) + 3 <= EndOf(k) /\ EndOf(k) <= Len(Sheet)
            BY SheetShape, SidesInOrder
        <2> QED BY <1>2, <2>1 DEF Begins, Ends
    <1>5. ASSUME NEW marker, NEW places, OccursAt(Sheet, marker, places),
                 \A i \in places : i \in Nat \ {0} /\ i < Len(Sheet), NEW i
          PROVE  i \in Matches(stream, marker, from)
                    <=> i \in places /\ i >= from /\ i < received
        <2>1. i \in Matches(stream, marker, from) <=>
                 i \in from..(received - 1) /\ stream[i] = marker[1] /\ stream[i + 1] = marker[2]
            BY <1>3 DEF Matches
        <2>2. i \in from..(received - 1) =>
                 /\ i \in 1..(Len(Sheet) - 1) /\ i \in 1..received /\ i + 1 \in 1..received
            BY <1>2
        <2>3. i \in from..(received - 1) =>
                 (i \in Matches(stream, marker, from) <=> i \in places)
            BY <1>3, <1>5, <2>1, <2>2 DEF OccursAt
        <2>4. i \in places => (i \in from..(received - 1) <=> i >= from /\ i < received)
            BY <1>2, <1>5
        <2>5. i \in from..(received - 1) => i >= from /\ i < received
            BY <1>2
        <2> QED BY <2>1, <2>3, <2>4, <2>5
    <1>6. \A i : i \in Matches(stream, SOI, from)
                    <=> i \in Begins /\ i >= from /\ i < received
        BY <1>4, <1>5, SheetMarkers
    <1>7. \A i : i \in Matches(stream, EOI, from)
                    <=> i \in Ends /\ i >= from /\ i < received
        BY <1>4, <1>5, SheetMarkers
    <1>8. QED BY <1>3, <1>6, <1>7

(* The next side is found where it begins and ends, if it has arrived so far. *)
LEMMA FoundSide ==
    ASSUME FramesTyped, FramesSoFar
    PROVE  LET k == Len(frames) + 1 IN
           /\ FrameStart # 0 => k \in DOMAIN sides /\ FrameStart = BeginOf(k)
           /\ FrameStart # 0 /\ FrameEnd # 0 =>
                 /\ EndOf(k) <= received /\ FrameEnd + 1 = EndOf(k)
                 /\ SubSeq(stream, FrameStart, FrameEnd + 1) = sides[k]
           /\ FrameStart = 0 \/ FrameEnd = 0 =>
                 \A l \in DOMAIN sides : l >= k => ~(EndOf(l) <= received)
    <1> DEFINE k == Len(frames) + 1
    <1>1. /\ \A l \in DOMAIN sides :
                /\ BeginOf(l) \in Nat \ {0} /\ EndOf(l) \in Nat
                /\ BeginOf(l) + 3 <= EndOf(l) /\ EndOf(l) <= Len(Sheet)
          /\ \A l, m \in DOMAIN sides : l < m => EndOf(l) < BeginOf(m)
          /\ BeginOf(1) = 1 /\ Len(sides) \in 1..2 /\ DOMAIN sides = 1..Len(sides)
          /\ received \in Nat /\ received <= Len(Sheet) /\ Len(Sheet) \in Nat
        BY SheetShape, SidesInOrder
    <1>2. k \in Nat \ {0} /\ Len(frames) \in Nat /\ Len(frames) <= Len(sides)
        BY LenProperties DEF FramesSoFar
    <1>3. /\ offset \in Nat \ {0}
          /\ \A l \in DOMAIN sides : l >= k => offset <= BeginOf(l)
          /\ \A l \in DOMAIN sides : l < k => EndOf(l) < offset
        <2>1. CASE frames = <<>>
            <3>1. k = 1 /\ offset = 1 BY <2>1 DEF FramesSoFar
            <3> QED BY <1>1, <3>1
        <2>2. CASE frames # <<>>
            <3> DEFINE n == Len(frames)
            <3>1. n \in DOMAIN sides
                <4>1. n # 0 BY <2>2, EmptySeq DEF FramesSoFar
                <4> QED BY <1>1, <1>2, <4>1
            <3>2. offset = EndOf(n) + 1 BY <2>2 DEF FramesSoFar
            <3>3. \A l \in DOMAIN sides : l >= k => n < l BY <1>1, <1>2
            <3>4. \A l \in DOMAIN sides : l < k => l = n \/ l < n BY <1>1, <1>2
            <3> HIDE DEF n, k
            <3>5. \A l \in DOMAIN sides : l >= k => offset <= BeginOf(l)
                BY <1>1, <3>1, <3>2, <3>3
            <3>6. \A l \in DOMAIN sides : l < k => EndOf(l) < offset
                <4> SUFFICES ASSUME NEW l \in DOMAIN sides, l < k PROVE EndOf(l) < offset
                    OBVIOUS
                <4>1. CASE l = n BY <1>1, <3>1, <3>2, <4>1
                <4>2. CASE l < n
                    <5>1. EndOf(l) < BeginOf(n) /\ BeginOf(n) + 3 <= EndOf(n)
                        BY <1>1, <3>1, <4>2
                    <5> QED BY <1>1, <3>1, <3>2, <5>1
                <4> QED BY <3>4, <4>1, <4>2
            <3>7. QED BY <1>1, <3>1, <3>2, <3>5, <3>6
        <2> QED BY <2>1, <2>2
    <1> HIDE DEF k
    <1>4. \A i : i \in Matches(stream, SOI, offset)
                 <=> i \in Begins /\ i >= offset /\ i < received
        BY <1>3, StreamMarkers
    <1>5. \A i \in Matches(stream, SOI, offset) :
             \E l \in DOMAIN sides : i = BeginOf(l) /\ l >= k
        <2> SUFFICES ASSUME NEW i \in Matches(stream, SOI, offset)
                     PROVE  \E l \in DOMAIN sides : i = BeginOf(l) /\ l >= k
            OBVIOUS
        <2>1. PICK l \in DOMAIN sides : i = BeginOf(l) BY <1>4 DEF Begins
        <2>2. i >= offset BY <1>4
        <2>3. ~(l < k)
            <3> SUFFICES ASSUME l < k PROVE FALSE
                OBVIOUS
            <3>1. EndOf(l) < offset /\ BeginOf(l) + 3 <= EndOf(l) BY <1>1, <1>3
            <3> QED BY <1>1, <1>3, <2>1, <2>2, <3>1
        <2>4. l >= k BY <1>1, <1>2, <2>3
        <2> QED BY <2>1, <2>4
    <1>6. FrameStart # 0 =>
             k \in DOMAIN sides /\ FrameStart = BeginOf(k) /\ BeginOf(k) < received
        <2> DEFINE S == Matches(stream, SOI, offset)
        <2> SUFFICES ASSUME S # {}
                     PROVE  /\ k \in DOMAIN sides /\ Min(S) = BeginOf(k)
                            /\ BeginOf(k) < received
            BY DEF FrameStart, Find
        <2>1. PICK i \in S : TRUE OBVIOUS
        <2>2. PICK l \in DOMAIN sides : i = BeginOf(l) /\ l >= k BY <1>5
        <2>3. k \in DOMAIN sides BY <1>1, <1>2, <2>2
        <2>4. i < received BY <1>4
        <2>5. \A m \in DOMAIN sides : m >= k => BeginOf(k) <= BeginOf(m)
            <3> SUFFICES ASSUME NEW m \in DOMAIN sides, m > k PROVE BeginOf(k) <= BeginOf(m)
                BY <1>1, <1>2, <2>3
            <3>1. EndOf(k) < BeginOf(m) /\ BeginOf(k) + 3 <= EndOf(k)
                BY <1>1, <2>3
            <3> QED BY <1>1, <2>3, <3>1
        <2>6. BeginOf(k) < received BY <1>1, <2>2, <2>3, <2>4, <2>5
        <2>7. offset <= BeginOf(k) BY <1>1, <1>2, <1>3, <2>3
        <2>8. BeginOf(k) \in S
            <3>1. BeginOf(k) \in Begins BY <2>3 DEF Begins
            <3>2. BeginOf(k) >= offset BY <1>1, <1>3, <2>3, <2>7
            <3> QED BY <1>4, <2>6, <3>1, <3>2
        <2>9. \A j \in S : BeginOf(k) <= j BY <1>5, <2>5
        <2>10. S \in SUBSET Nat BY <1>1, <1>5
        <2> HIDE DEF S
        <2> QED BY <2>3, <2>6, <2>8, <2>9, <2>10, MinIs
    <1>7. ASSUME NEW l \in DOMAIN sides, l >= k, EndOf(l) <= received
          PROVE  FrameStart # 0
        <2>1. BeginOf(l) \in Begins /\ BeginOf(l) >= offset /\ BeginOf(l) < received
            BY <1>1, <1>3, <1>7 DEF Begins
        <2>2. Matches(stream, SOI, offset) # {} BY <1>4, <2>1
        <2>3. FrameStart \in Matches(stream, SOI, offset)
            <3> DEFINE S == Matches(stream, SOI, offset)
            <3>1. k \in DOMAIN sides BY <1>1, <1>2, <1>7
            <3>2. S \in SUBSET Nat /\ S # {} BY <1>1, <1>5, <2>2
            <3>3. Min(S) \in S BY <3>2, LeastIndex
            <3> QED BY <2>2, <3>3 DEF FrameStart, Find
        <2>4. 0 \notin Matches(stream, SOI, offset) BY <1>1, <1>5
        <2> QED BY <2>3, <2>4
    <1>8. ASSUME FrameStart # 0
          PROVE  /\ FrameEnd # 0 => EndOf(k) <= received /\ FrameEnd + 1 = EndOf(k)
                 /\ FrameEnd = 0 => ~(EndOf(k) <= received)
        <2> DEFINE from == FrameStart + 2
                   S    == Matches(stream, EOI, from)
        <2>1. /\ k \in DOMAIN sides /\ FrameStart = BeginOf(k) /\ BeginOf(k) < received
              /\ from \in Nat \ {0}
            BY <1>1, <1>6, <1>8
        <2>2. \A i : i \in S <=> i \in Ends /\ i >= from /\ i < received
            BY <2>1, StreamMarkers
        <2>3. \A i \in S : i \in Nat \ {0} /\ EndOf(k) - 1 <= i
            <3> SUFFICES ASSUME NEW i \in S PROVE i \in Nat \ {0} /\ EndOf(k) - 1 <= i
                OBVIOUS
            <3>1. PICK l \in DOMAIN sides : i = EndOf(l) - 1 BY <2>2 DEF Ends
            <3>2. i >= from BY <2>2
            <3>3. ~(l < k)
                <4> SUFFICES ASSUME l < k PROVE FALSE
                    OBVIOUS
                <4>1. EndOf(l) < BeginOf(k) BY <1>1, <2>1
                <4> QED BY <1>1, <2>1, <3>1, <3>2, <4>1
            <3>4. l = k \/ k < l BY <1>1, <2>1, <3>3
            <3>5. k < l => EndOf(k) < BeginOf(l) /\ BeginOf(l) + 3 <= EndOf(l) BY <1>1, <2>1
            <3>6. BeginOf(l) \in Nat /\ BeginOf(k) \in Nat /\ EndOf(l) \in Nat /\ EndOf(k) \in Nat
                BY <1>1, <2>1
            <3>7. BeginOf(l) + 3 <= EndOf(l) BY <1>1
            <3> QED BY <3>1, <3>4, <3>5, <3>6, <3>7
        <2>4. S # {} => EndOf(k) <= received
            <3> SUFFICES ASSUME NEW i \in S PROVE EndOf(k) <= received
                OBVIOUS
            <3>1. EndOf(k) - 1 <= i /\ i < received /\ i \in Nat BY <2>2, <2>3
            <3> QED BY <1>1, <2>1, <3>1
        <2>5. EndOf(k) <= received => EndOf(k) - 1 \in S
            <3> SUFFICES ASSUME EndOf(k) <= received PROVE EndOf(k) - 1 \in S
                OBVIOUS
            <3>1. EndOf(k) - 1 \in Ends BY <2>1 DEF Ends
            <3>2. EndOf(k) - 1 >= from /\ EndOf(k) - 1 < received
                BY <1>1, <2>1
            <3> QED BY <2>2, <3>1, <3>2
        <2>6. FrameEnd = (IF S = {} THEN 0 ELSE Min(S)) BY DEF FrameEnd, Find
        <2> HIDE DEF S, from
        <2>7. CASE S = {} BY <2>5, <2>6, <2>7
        <2>8. CASE S # {}
            <3>1. EndOf(k) <= received /\ EndOf(k) - 1 \in S BY <2>4, <2>5, <2>8
            <3>2. S \in SUBSET Nat BY <2>3
            <3>3. Min(S) = EndOf(k) - 1 BY <2>3, <3>1, <3>2, MinIs
            <3>4. FrameEnd = EndOf(k) - 1 /\ EndOf(k) - 1 + 1 = EndOf(k)
                BY <1>1, <2>1, <2>6, <2>8, <3>3
            <3>5. FrameEnd # 0 BY <2>3, <3>1, <3>4
            <3> QED BY <3>1, <3>4, <3>5
        <2> QED BY <2>7, <2>8
    <1>9. ASSUME FrameStart # 0, FrameEnd # 0
          PROVE  SubSeq(stream, FrameStart, FrameEnd + 1) = sides[k]
        <2> DEFINE b == BeginOf(k)
                   e == EndOf(k)
        <2>1. /\ k \in DOMAIN sides /\ FrameStart = b /\ FrameEnd + 1 = e /\ e <= received
            BY <1>6, <1>8, <1>9
        <2>2. stream \in Seq(Symbol) /\ Len(stream) = received
              /\ \A i \in 1..received : stream[i] = Sheet[i]
            BY <1>3, StreamMarkers
        <2>3. /\ sides[k] \in Seq(Symbol) /\ e = b + Len(sides[k]) - 1
              /\ b \in Nat \ {0} /\ e \in Nat /\ b + 3 <= e /\ Len(sides[k]) \in Nat
              /\ \A j \in 1..Len(sides[k]) : Sheet[b - 1 + j] = sides[k][j]
            BY <2>1, SheetShape, SidesInOrder DEF IsImage, HoldsAt
        <2> DEFINE part == SubSeq(stream, b, e)
        <2> HIDE DEF b, e
        <2>4. b \in 1..(Len(stream) + 1) /\ e \in (b - 1)..Len(stream)
            BY <1>1, <2>1, <2>2, <2>3
        <2>5. /\ part \in Seq(Symbol)
              /\ Len(part) = (IF b <= e THEN e - b + 1 ELSE 0)
              /\ \A i \in 1..(e - b + 1) : part[i] = stream[b + i - 1]
            BY <2>2, <2>4, SubSeqProperties
        <2> HIDE DEF part
        <2>6. Len(part) = Len(sides[k]) /\ e - b + 1 = Len(sides[k]) BY <2>3, <2>5
        <2>7. \A i \in 1..Len(sides[k]) : part[i] = sides[k][i]
            <3> SUFFICES ASSUME NEW i \in 1..Len(sides[k]) PROVE part[i] = sides[k][i]
                OBVIOUS
            <3>1. part[i] = stream[b + i - 1] BY <2>5, <2>6
            <3>2. b + i - 1 \in 1..received /\ b + i - 1 = b - 1 + i
                <4>1. i \in Nat /\ 1 <= i /\ i <= e - b + 1 BY <2>3
                <4>2. received \in Nat /\ e <= received BY <1>1, <2>1
                <4> HIDE DEF k
                <4> QED BY <2>3, <4>1, <4>2
            <3>3. stream[b + i - 1] = Sheet[b - 1 + i] BY <2>2, <3>2
            <3> QED BY <2>3, <3>1, <3>3
        <2>8. part = sides[k] BY <2>3, <2>5, <2>6, <2>7, SeqEqual
        <2> QED BY <2>1, <2>8 DEF part
    <1>10. ASSUME FrameStart = 0 \/ FrameEnd = 0, NEW l \in DOMAIN sides, l >= k
           PROVE  ~(EndOf(l) <= received)
        <2> SUFFICES ASSUME EndOf(l) <= received PROVE FALSE
            OBVIOUS
        <2>1. FrameStart # 0 BY <1>7, <1>10
        <2>2. FrameEnd = 0 /\ k \in DOMAIN sides BY <1>6, <1>10, <2>1
        <2>3. ~(EndOf(k) <= received) BY <1>8, <2>1, <2>2
        <2>4. l = k \/ k < l BY <1>1, <1>2, <1>10, <2>2
        <2>5. k < l => EndOf(k) < BeginOf(l) /\ BeginOf(l) + 3 <= EndOf(l) BY <1>1, <2>2
        <2> QED BY <1>1, <2>2, <2>3, <2>4, <2>5
    <1>11. QED BY <1>6, <1>8, <1>9, <1>10 DEF k

(* The inductive invariant of the reading and of the loop of extract_jpegs.   *)
THEOREM FramesInvariant == FramesSpec => []FramesInv
    <1>1. FramesInit => FramesInv
        <2> SUFFICES ASSUME FramesInit PROVE FramesInv
            OBVIOUS
        <2>1. PICK n \in 1..2 : sides \in [1..n -> Images] BY DEF FramesInit
        <2>2. sides \in Seq(Images) /\ Len(sides) = n BY <2>1, IsASeq
        <2>3. padding \in Paddings /\ received = 0 /\ place = "read" /\ frames = <<>> /\ offset = 1
            BY DEF FramesInit
        <2>4. FramesTyped
            <3>1. padding \in Seq(Symbol) BY <2>3, Escaped
            <3>2. \A image \in Images : image \in Seq(Symbol) BY ImageShape DEF IsImage
            <3>3. sides[1] \in Seq(Symbol) /\ (n = 2 => sides[2] \in Seq(Symbol))
                BY <2>1, <3>2
            <3>4. Sheet \in Seq(Symbol)
                <4>1. sides[1] \o padding \in Seq(Symbol) BY <3>1, <3>3, HoldsBoth
                <4>2. n = 2 => sides[1] \o padding \o sides[2] \in Seq(Symbol)
                    BY <3>3, <4>1, HoldsBoth
                <4>3. n = 2 => sides[1] \o padding \o sides[2] \o padding \in Seq(Symbol)
                    BY <3>1, <4>2, HoldsBoth
                <4>4. CASE n = 1 BY <2>2, <4>1, <4>4 DEF Sheet
                <4>5. CASE n = 2 BY <2>2, <4>3, <4>5 DEF Sheet
                <4>6. QED BY <4>4, <4>5
            <3>5. Len(Sheet) \in Nat BY <3>4, LenProperties
            <3>6. QED BY <2>2, <2>3, <3>5 DEF FramesTyped
        <2>5. Len(frames) = 0 /\ frames \in Seq(Seq(Symbol)) /\ DOMAIN frames = {}
            BY <2>3
        <2>6. FramesSoFar BY <2>2, <2>3, <2>5 DEF FramesSoFar
        <2>7. \A i \in DOMAIN sides : ~(EndOf(i) <= received)
            BY <2>3, <2>4, SheetShape, SidesInOrder
        <2>8. FramesAreSides BY <2>5, <2>7 DEF FramesAreSides
        <2>9. QED BY <2>4, <2>6, <2>8 DEF FramesInv
    <1>2. FramesInv /\ [FramesNext]_frameVars => FramesInv'
        <2> SUFFICES ASSUME FramesInv, [FramesNext]_frameVars PROVE FramesInv'
            OBVIOUS
        <2> USE DEF FramesInv
        <2>1. CASE Receive
            <3>1. /\ sides' = sides /\ padding' = padding /\ frames' = <<>> /\ offset' = 1
                  /\ place' = "extract" /\ Sheet' = Sheet
                BY <2>1 DEF Receive, Sheet
            <3>2. received' \in 0..Len(Sheet)
                <4>1. PICK n \in Chunks : received' = Min({received + n, Len(Sheet)})
                    BY <2>1 DEF Receive
                <4>2. n \in Nat \ {0} BY FramesAssumption
                <4>3. received \in Nat /\ Len(Sheet) \in Nat BY SidesInOrder
                <4>4. LET S == {received + n, Len(Sheet)} IN Min(S) \in S /\ Min(S) <= Len(Sheet)
                    <5> DEFINE S == {received + n, Len(Sheet)}
                    <5>1. S \subseteq Nat /\ S # {} /\ Len(Sheet) \in S BY <4>2, <4>3
                    <5> HIDE DEF S
                    <5>2. Min(S) \in S /\ Min(S) <= Len(Sheet) BY <5>1, LeastIndex
                    <5>3. QED BY <5>2 DEF S
                <4>5. QED BY <4>1, <4>2, <4>3, <4>4
            <3>3. FramesTyped' BY <3>1, <3>2 DEF FramesTyped
            <3>4. FramesSoFar'
                <4>1. <<>> \in Seq(Seq(Symbol)) /\ Len(<<>>) = 0 /\ DOMAIN <<>> = {}
                    OBVIOUS
                <4>2. 0 <= Len(sides) BY SidesInOrder
                <4> QED BY <3>1, <4>1, <4>2 DEF FramesSoFar
            <3>5. FramesAreSides' BY <3>1 DEF FramesAreSides
            <3>6. QED BY <3>3, <3>4, <3>5
        <2>2. CASE NextFrame
            <3> DEFINE k == Len(frames) + 1
            <3>1. /\ sides' = sides /\ padding' = padding /\ received' = received
                  /\ place' = "extract" /\ place = "extract"
                  /\ frames' = Append(frames, SubSeq(stream, FrameStart, FrameEnd + 1))
                  /\ offset' = FrameEnd + 2 /\ FrameStart # 0 /\ FrameEnd # 0
                BY <2>2 DEF NextFrame
            <3>2. /\ k \in DOMAIN sides /\ EndOf(k) <= received /\ FrameEnd + 1 = EndOf(k)
                  /\ SubSeq(stream, FrameStart, FrameEnd + 1) = sides[k]
                BY <3>1, FoundSide
            <3>3. FrameEnd + 2 = EndOf(k) + 1
                <4>1. FrameEnd \in Nat
                    <5> DEFINE S == Matches(stream, EOI, FrameStart + 2)
                    <5>1. FrameStart = BeginOf(k) /\ BeginOf(k) \in Nat \ {0}
                        BY <3>1, <3>2, FoundSide, SheetShape
                    <5>2. FrameStart + 2 \in Nat \ {0} BY <5>1
                    <5>3. S \subseteq Nat
                        <6>1. \A i : i \in S <=> i \in Ends /\ i >= FrameStart + 2 /\ i < received
                            BY <5>2, StreamMarkers
                        <6>2. \A i \in Ends : i \in Nat
                            BY SheetShape, SidesInOrder DEF Ends
                        <6> QED BY <6>1, <6>2
                    <5>4. S # {} /\ FrameEnd = Min(S) BY <3>1 DEF FrameEnd, Find
                    <5> HIDE DEF S
                    <5>5. FrameEnd \in S BY <5>3, <5>4, LeastIndex
                    <5> QED BY <5>3, <5>5
                <4> QED BY <3>2, <4>1
            <3>4. /\ Sheet' = Sheet /\ \A i : BeginOf(i)' = BeginOf(i) /\ EndOf(i)' = EndOf(i)
                BY <3>1 DEF Sheet, BeginOf, EndOf
            <3>5. FramesTyped' BY <3>1, <3>4 DEF FramesTyped
            <3>6. /\ frames' \in Seq(Seq(Symbol)) /\ Len(frames') = k
                  /\ \A i \in 1..Len(frames) : frames'[i] = frames[i]
                  /\ frames'[k] = sides[k]
                  /\ DOMAIN frames = 1..Len(frames) /\ DOMAIN frames' = 1..k
                  /\ Len(frames) \in Nat
                <4>1. frames \in Seq(Seq(Symbol)) BY DEF FramesSoFar
                <4>2. sides[k] \in Seq(Symbol) BY <3>2, SheetShape DEF IsImage
                <4>3. frames' = Append(frames, sides[k]) BY <3>1, <3>2
                <4> HIDE DEF k
                <4>4. /\ frames' \in Seq(Seq(Symbol)) /\ Len(frames') = Len(frames) + 1
                      /\ \A i \in 1..Len(frames) : frames'[i] = frames[i]
                      /\ frames'[Len(frames) + 1] = sides[k]
                    BY <4>1, <4>2, <4>3, AppendProperties
                <4> QED BY <4>1, <4>4, LenProperties DEF k
            <3>7. FramesSoFar'
                <4>1. \A i \in 1..k : frames'[i] = sides[i]
                    BY <3>6 DEF FramesSoFar
                <4>2. k <= Len(sides) BY <3>2, SidesInOrder
                <4>3. frames' # <<>> BY <3>6
                <4>4. EndOf(Len(frames))' = EndOf(k) BY <3>1, <3>6 DEF EndOf, BeginOf
                <4> HIDE DEF k
                <4> QED BY <3>1, <3>2, <3>3, <3>6, <4>1, <4>2, <4>3, <4>4 DEF FramesSoFar
            <3>8. FramesAreSides' BY <3>1 DEF FramesAreSides
            <3>9. QED BY <3>5, <3>7, <3>8
        <2>3. CASE ReturnFrames
            <3>1. /\ sides' = sides /\ padding' = padding /\ received' = received
                  /\ frames' = frames /\ offset' = offset /\ place' = "read"
                  /\ FrameStart = 0 \/ FrameEnd = 0
                BY <2>3 DEF ReturnFrames
            <3>2. /\ Sheet' = Sheet /\ \A i : BeginOf(i)' = BeginOf(i) /\ EndOf(i)' = EndOf(i)
                BY <3>1 DEF Sheet, BeginOf, EndOf
            <3>3. FramesTyped' BY <3>1, <3>2 DEF FramesTyped
            <3>4. FramesSoFar'
                <4>1. EndOf(Len(frames))' = EndOf(Len(frames)) BY <3>1 DEF EndOf, BeginOf
                <4> QED BY <3>1, <4>1 DEF FramesSoFar
            <3>5. DOMAIN frames = {i \in DOMAIN sides : EndOf(i) <= received}
                <4> DEFINE n == Len(frames)
                <4>1. /\ n \in Nat /\ n <= Len(sides) /\ DOMAIN frames = 1..n
                      /\ DOMAIN sides = 1..Len(sides) /\ Len(sides) \in Nat
                    BY LenProperties, SidesInOrder DEF FramesSoFar
                <4>2. \A i \in DOMAIN sides : i > n => ~(EndOf(i) <= received)
                    BY <3>1, <4>1, FoundSide
                <4>3. \A i \in DOMAIN frames : i \in DOMAIN sides /\ EndOf(i) <= received
                    <5> SUFFICES ASSUME NEW i \in 1..n
                                 PROVE  i \in DOMAIN sides /\ EndOf(i) <= received
                        BY <4>1
                    <5>1. frames # <<>> /\ n \in DOMAIN sides /\ i \in DOMAIN sides
                        BY <4>1
                    <5>2. EndOf(n) <= received BY <5>1 DEF FramesSoFar
                    <5> HIDE DEF n
                    <5>3. i = n \/ i < n BY <4>1
                    <5>4. /\ i < n => EndOf(i) < BeginOf(n) /\ BeginOf(n) + 3 <= EndOf(n)
                          /\ EndOf(i) \in Nat /\ EndOf(n) \in Nat /\ BeginOf(n) \in Nat
                          /\ received \in Nat
                        BY <5>1, SheetShape, SidesInOrder
                    <5> QED BY <5>1, <5>2, <5>3, <5>4
                <4>4. \A i \in DOMAIN sides : EndOf(i) <= received => i \in DOMAIN frames
                    BY <4>1, <4>2
                <4> QED BY <4>3, <4>4
            <3>6. FramesAreSides'
                <4>1. {i \in DOMAIN sides : EndOf(i) <= received}'
                         = {i \in DOMAIN sides : EndOf(i) <= received}
                    BY <3>1, <3>2
                <4> QED BY <3>1, <3>4, <3>5, <4>1 DEF FramesAreSides, FramesSoFar
            <3>7. QED BY <3>3, <3>4, <3>6
        <2>4. CASE UNCHANGED frameVars
            <3>1. /\ sides' = sides /\ padding' = padding /\ received' = received
                  /\ frames' = frames /\ offset' = offset /\ place' = place
                BY <2>4 DEF frameVars
            <3>2. FramesTyped' BY <3>1 DEF FramesTyped, Sheet
            <3>3. FramesSoFar' BY <3>1 DEF FramesSoFar, EndOf, BeginOf
            <3>4. FramesAreSides' BY <3>1 DEF FramesAreSides, EndOf, BeginOf
            <3>5. QED BY <3>2, <3>3, <3>4
        <2>5. QED BY <2>1, <2>2, <2>3, <2>4 DEF FramesNext
    <1>3. QED BY <1>1, <1>2, PTL DEF FramesSpec

(* However the stream is cut, the frames of a capture are the sides that have *)
(* arrived whole, in order.                                                   *)
THEOREM FramesWhole == FramesSpec => []FramesAreSides
    <1>1. FramesInv => FramesAreSides BY DEF FramesInv
    <1>2. QED BY <1>1, FramesInvariant, PTL
=============================================================================
