------------------------------ MODULE Startup ------------------------------
(***************************************************************************)
(* The adapter from its command line to its end: server.main and the four  *)
(* override functions of src/airscan_adapter/server.py, config.py, the     *)
(* constructor of the live backend and the mDNS publisher.  A setting can  *)
(* come from the command line, the file, the environment or the defaults,  *)
(* so a value is mostly the name of where it came from.  Settings the code *)
(* treats alike share a field: service_name is also the uuid, scan_inbox   *)
(* the spool directory, ocr the section [scan_defaults], timeout the       *)
(* scheme and the model name.                                              *)
(***************************************************************************)
CONSTANT Invocations    \* what the adapter may be started with

Binds == {"loopback", "any", "lan"}    \* "any": 0.0.0.0 or ::
NoUrl == [host |-> "absent", port |-> "absent"]
DefaultUrl == [host |-> "loopback", port |-> "8080"]    \* of the admin page

Flag == {"absent", "true", "false"}
File ==
    [readable : BOOLEAN, host : {"absent", "blank", "file"}, timeout : {"absent", "file"},
     safe_mode : Flag, allow_live_scans : Flag,
     bind : Binds \cup {"absent"}, port : {"absent", "8080", "9000"},
     service_name : {"absent", "file"},
     admin_url : {NoUrl, DefaultUrl, [host |-> "file", port |-> "file"]},
     root_resource : {"absent", "file", "blank"},
     scan_inbox : {"absent", "file"}, ocr : {"absent", "file"}]
Args ==
    [live : BOOLEAN, mock : BOOLEAN, allow_live_scans : BOOLEAN, mdns : BOOLEAN,
     allow_lan_bind : BOOLEAN,
     host : {"absent", "cli"}, bind : Binds \cup {"absent"},
     port : {"absent", "0", "9001"}, service_name : {"absent", "cli"},
     admin_url : {NoUrl, DefaultUrl, [host |-> "cli", port |-> "cli"]},
     root_resource : {"absent", "cli", "blank"}, scan_inbox : {"absent", "cli"}]
Env == [host : {"absent", "blank", "env"}, rotate_degrees_ok : BOOLEAN]

ASSUME InvocationsAssumption ==
    \A i \in Invocations : i.file \in File /\ i.args \in Args /\ i.env \in Env

VARIABLES
    invocation,
    stage,       \* of main
    config,
    backend,     \* "none", "mock" or "live"
    socket,      \* what the server listens on and answers under
    published,   \* the service zeroconf has registered
    exit         \* how main ended

startupVars == <<invocation, stage, config, backend, socket, published, exit>>

NoSocket  == [bind |-> "none", port |-> "none", root |-> "none"]
NoService == [port |-> "none", rs |-> "none", adminurl |-> NoUrl]

----------------------------------------------------------------------------
\* config.py

Default ==
    [scanner |-> [host |-> "none", timeout |-> "default", safe_mode |-> "true",
                  allow_live_scans |-> "false"],
     escl    |-> [bind |-> "loopback", port |-> "8080", service_name |-> "default",
                  admin_url |-> DefaultUrl, root_resource |-> "eSCL"],
     paths   |-> [scan_inbox |-> "default"],
     ocr     |-> "default"]

Or(value, default) == IF value = "absent" THEN default ELSE value
OrUrl(url, default) == IF url = NoUrl THEN default ELSE url

\* The environment counts only where the file is silent; a blank host is none.
ScannerHost(file, env) ==
    LET host == Or(file.host, env.host) IN IF host = "blank" THEN "none" ELSE Or(host, "none")

config_from_mapping(file, env) ==
    [scanner |-> [host |-> ScannerHost(file, env), timeout |-> Or(file.timeout, "default"),
                  safe_mode |-> Or(file.safe_mode, "true"),
                  allow_live_scans |-> Or(file.allow_live_scans, "false")],
     escl    |-> [bind |-> Or(file.bind, "loopback"), port |-> Or(file.port, "8080"),
                  service_name |-> Or(file.service_name, "default"),
                  admin_url |-> OrUrl(file.admin_url, DefaultUrl),
                  root_resource |-> Or(file.root_resource, "eSCL")],
     paths   |-> [scan_inbox |-> Or(file.scan_inbox, "default")],
     ocr     |-> Or(file.ocr, "default")]

----------------------------------------------------------------------------
\* The overrides of server.py: each builds its section anew.

override_live_config(c, args) ==
    [c EXCEPT !.scanner.host = Or(args.host, @),
              !.scanner.safe_mode = IF args.allow_live_scans THEN "false" ELSE @,
              !.scanner.allow_live_scans = IF args.allow_live_scans THEN "true" ELSE @]

\* Variant: the endpoint of the file is not carried over.
OverrideEsclForgets(c, args) ==
    [c EXCEPT !.escl = [Default.escl EXCEPT
         !.service_name = Or(args.service_name, c.escl.service_name),
         !.admin_url = OrUrl(args.admin_url, c.escl.admin_url),
         !.root_resource = Or(args.root_resource, c.escl.root_resource)]]
override_escl_config(c, args) ==
    [c EXCEPT !.escl.service_name = Or(args.service_name, @),
              !.escl.admin_url = OrUrl(args.admin_url, @),
              !.escl.root_resource = Or(args.root_resource, @)]

override_path_config(c, args) == [c EXCEPT !.paths.scan_inbox = Or(args.scan_inbox, @)]

override_escl_endpoint(c, bind, port) ==
    [c EXCEPT !.escl.bind = bind, !.escl.port = port,
              !.escl.admin_url =
                  IF @ # DefaultUrl THEN @
                  ELSE [host |-> IF bind = "any" THEN "loopback" ELSE bind, port |-> port]]

----------------------------------------------------------------------------
\* main

StartupInit ==
    /\ invocation \in Invocations
    /\ stage = "configure" /\ config = Default /\ backend = "none"
    /\ socket = NoSocket /\ published = NoService /\ exit = "none"

args == invocation.args

\* The process ends; its socket and its threads go with it, but what it has
\* registered with zeroconf is withdrawn by Unpublish only.
Exit(code) ==
    /\ stage' = "exited" /\ exit' = code
    /\ socket' = NoSocket
    /\ UNCHANGED <<invocation, config, backend, published>>

Proceed(from, to) ==
    /\ stage = from /\ stage' = to
    /\ UNCHANGED <<invocation, exit>>

\* argparse, load and three overrides; each override is a no-op when nothing
\* that calls it is given.
Configure ==
    /\ invocation.file.readable
    /\ Proceed("configure", "gate")
    /\ config' = override_path_config(override_escl_config(override_live_config(
                     config_from_mapping(invocation.file, invocation.env), args), args), args)
    /\ UNCHANGED <<backend, socket, published>>

\* The file is missing, is no TOML, or has a value of a wrong type.
ConfigureFails ==
    /\ stage = "configure" /\ ~invocation.file.readable
    /\ Exit("raised")

Bind == Or(args.bind, config.escl.bind)
Port == Or(args.port, config.escl.port)
BindAllowed == Bind = "loopback" \/ args.allow_lan_bind

Gate ==
    /\ BindAllowed
    /\ Proceed("gate", "backend")
    /\ config' = override_escl_endpoint(config, Bind, Port)
    /\ UNCHANGED <<backend, socket, published>>

GateRefuses ==
    /\ stage = "gate" /\ ~BindAllowed
    /\ Exit("2")

Live == args.live /\ ~args.mock

\* Variant: one of the two switches is enough.
MayScanEither ==
    /\ config.scanner.host # "none" /\ invocation.env.rotate_degrees_ok
    /\ config.scanner.safe_mode = "false" \/ config.scanner.allow_live_scans = "true"
\* CanonCgiscsiBackend.__init__
MayScan ==
    /\ config.scanner.host # "none" /\ invocation.env.rotate_degrees_ok
    /\ config.scanner.safe_mode = "false" /\ config.scanner.allow_live_scans = "true"

MakeBackend ==
    /\ Live => MayScan
    /\ Proceed("backend", "listen")
    /\ backend' = IF Live THEN "live" ELSE "mock"
    /\ UNCHANGED <<config, socket, published>>

BackendRefuses ==
    /\ stage = "backend" /\ Live /\ ~MayScan
    /\ Exit("raised")

\* make_server: bind and listen; the system picks a port for 0.
Listen ==
    /\ Proceed("listen", IF args.mdns THEN "publish" ELSE "serve")
    /\ socket' = [bind |-> Bind, port |-> IF Port = "0" THEN "assigned" ELSE Port,
                  root |-> config.escl.root_resource]
    /\ UNCHANGED <<config, backend, published>>

ListenFails == stage = "listen" /\ Exit("raised")

\* MdnsPublisher.start
Publish ==
    /\ Proceed("publish", "serve")
    /\ published' = [port |-> config.escl.port, adminurl |-> config.escl.admin_url,
                     rs |-> IF config.escl.root_resource = "blank" THEN "eSCL"
                            ELSE config.escl.root_resource]
    /\ UNCHANGED <<config, backend, socket>>

PublishFails == stage = "publish" /\ Exit("raised")

\* Ctrl-C ends serve_forever.
Interrupt ==
    /\ Proceed("serve", "unpublish")
    /\ UNCHANGED <<config, backend, socket, published>>

\* The finally clause.  Variant: the socket is closed first.
UnpublishLast ==
    /\ Proceed("unpublish", "close")
    /\ socket' = NoSocket
    /\ UNCHANGED <<config, backend, published>>
Unpublish ==
    /\ Proceed("unpublish", "close")
    /\ published' = NoService
    /\ UNCHANGED <<config, backend, socket>>

UnpublishFails == stage = "unpublish" /\ Exit("raised")

Close == stage = "close" /\ Exit("130")

\* Killed, or interrupted outside the try statement: nothing is withdrawn.
Kill == stage # "exited" /\ Exit("killed")

StartupNext ==
    \/ Configure \/ ConfigureFails \/ Gate \/ GateRefuses \/ MakeBackend
    \/ BackendRefuses \/ Listen \/ ListenFails \/ Publish \/ PublishFails
    \/ Interrupt \/ Unpublish \/ UnpublishFails \/ Close \/ Kill

StartupSpec == StartupInit /\ [][StartupNext]_startupVars

----------------------------------------------------------------------------
(* The adapter's two gates, whatever mixture of file, environment and command *)
(* line asks for it: paper moves only for --live without --mock, with a host  *)
(* somebody named and both switches off safe; and nobody outside this machine *)
(* can reach it without --allow-lan-bind.                                     *)
NothingWithoutConsent ==
    LET file == invocation.file IN
    /\ backend = "live" =>
          /\ args.live /\ ~args.mock
          /\ "file" = file.host \/ "cli" = args.host
                \/ (file.host = "absent" /\ invocation.env.host = "env")
          /\ \/ args.allow_live_scans
             \/ file.safe_mode = "false" /\ file.allow_live_scans = "true"
    /\ socket.bind \in {"any", "lan"} => args.allow_lan_bind

(* No override loses what another source gave: from the gate on, the address, *)
(* the port, the name and the root that are served, the inbox, the timeout,   *)
(* the OCR settings and the safety switches are those of the command line,    *)
(* else those of the file, else the default, and a host given on the command  *)
(* line is the scanner's.  The admin page is AdvertisedIsServed's, the host's *)
(* other sources are NothingWithoutConsent's.                                 *)
ChoicesSurvive ==
    LET file == invocation.file
        Chosen(given, stored, default) == Or(given, Or(stored, default)) IN
    stage \notin {"configure", "gate", "exited"} =>
        /\ config.escl.bind = Chosen(args.bind, file.bind, "loopback")
        /\ config.escl.port = Chosen(args.port, file.port, "8080")
        /\ config.escl.service_name =
              Chosen(args.service_name, file.service_name, "default")
        /\ config.escl.root_resource =
              Chosen(args.root_resource, file.root_resource, "eSCL")
        /\ config.paths.scan_inbox = Chosen(args.scan_inbox, file.scan_inbox, "default")
        /\ config.scanner.timeout = Or(file.timeout, "default")
        /\ config.ocr = Or(file.ocr, "default")
        /\ args.host = "cli" => config.scanner.host = "cli"
        /\ ~args.allow_live_scans =>
              /\ config.scanner.safe_mode = Or(file.safe_mode, "true")
              /\ config.scanner.allow_live_scans = Or(file.allow_live_scans, "false")

(* As long as the service is advertised and the process lives, the server     *)
(* listens at the advertised port and answers under the advertised root, and  *)
(* an admin page nobody chose is its own; Ctrl-C withdraws the service.  Two  *)
(* settings are excepted: --port 0 is advertised as 0, and an empty root as   *)
(* eSCL.                                                                      *)
AdvertisedIsServed ==
    /\ published # NoService /\ exit = "none" =>
          /\ socket # NoSocket
          /\ config.escl.port # "0" => published.port = socket.port
          /\ socket.root # "blank" => published.rs = socket.root
          /\ {invocation.file.admin_url, args.admin_url} \subseteq {NoUrl, DefaultUrl}
                /\ config.escl.port # "0" =>
                published.adminurl =
                    [host |-> IF socket.bind = "any" THEN "loopback" ELSE socket.bind,
                     port |-> socket.port]
    /\ exit = "130" => published = NoService
=============================================================================
