------------------------------ MODULE Commands ------------------------------
(***************************************************************************)
(* One command of the cgiscsi tool from its arguments to its answer:       *)
(* main, build_body and parse_response of src/harness/cgiscsi.py, the      *)
(* builders of src/harness/commands.py and the mock scanner.  A length is  *)
(* said up to three times: in a field of the CDB whose width depends on    *)
(* the command, as dl in the body, and in the header of some payloads.     *)
(* Bytes are counted, not listed; "raw", which sends what it is given, and *)
(* the fields that are no lengths are left out.                            *)
(***************************************************************************)
EXTENDS Integers, FiniteSetsExt

CONSTANT Lengths    \* what a user may ask for
ASSUME LengthsAssumption == Lengths \subseteq Int

Bare       == {"tur", "reserve", "release", "feed", "eject", "cancel"}
ThreeBytes == {"read", "read-kind", "get-window"}
Outgoing   == {"set-window", "define-mode", "set-adjust-data"}
CommandNames ==
    Bare \cup ThreeBytes \cup Outgoing \cup {"request-sense", "inquiry", "memory", "status"}

VARIABLES
    command,     \* its name and the length asked for
    exchange,    \* "new", "sent", "served", "answered" or "raised"
    sent,        \* the lengths said
    raw_len,     \* bytes of the answer
    data_len     \* bytes of its data, after parse_response

commandVars == <<command, exchange, sent, raw_len, data_len>>

Unsent == [field |-> 0, dl |-> 0, data_out |-> 0, header |-> 0]

----------------------------------------------------------------------------
\* commands.py: what a field can hold; a builder that raises has no value.

Byte(n)  == {n % 256}
\* Variant: the value is masked like a byte.
u24beMasked(n) == {n % 16777216}
Bits24   == 0..16777215
u24be(n) == {n} \cap Bits24
u16be(n) == {n} \cap 0..65535
le32(n)  == {n} \cap Nat    \* TLC's integers end below 2^31
get_memory_cdb(n) == IF n > 8192 THEN {} ELSE u16be(n)

CdbField(name, n) ==
    CASE name \in Bare -> {0}
      [] name \in {"request-sense", "inquiry", "define-mode"} -> Byte(n)
      [] name \in ThreeBytes \cup {"set-window", "set-adjust-data"} -> u24be(n)
      [] name = "memory" -> get_memory_cdb(n)
      [] name = "status" -> le32(n)

set_window_payload  == [length |-> 52, header |-> 44]    \* counts what follows 8 bytes
define_mode_payload == [length |-> 20, header |-> 14]    \* counts what follows 6 bytes

----------------------------------------------------------------------------
\* cgiscsi.py

CommandInit ==
    /\ command \in [name : CommandNames, length : Lengths]
    /\ exchange = "new" /\ sent = Unsent /\ raw_len = 0 /\ data_len = 0

\* What main asks for, or has to send.
Length ==
    CASE command.name \in Bare -> 0
      [] command.name = "request-sense" -> 14
      [] command.name = "set-window"    -> set_window_payload.length
      [] command.name = "define-mode"   -> define_mode_payload.length
      [] OTHER -> command.length
Header ==
    CASE command.name = "set-window"  -> set_window_payload.header
      [] command.name = "define-mode" -> define_mode_payload.header
      [] OTHER -> 0

Move(from, to) == exchange = from /\ exchange' = to /\ UNCHANGED command

Refused == command.name = "set-adjust-data" /\ command.length # 40

Send ==
    /\ ~Refused /\ Move("new", "sent")
    /\ \E field \in CdbField(command.name, Length) :
          sent' = [field |-> field, dl |-> Length, header |-> Header,
                   data_out |-> IF command.name \in Outgoing THEN Length ELSE 0]
    /\ UNCHANGED <<raw_len, data_len>>

\* main or the builder raises.
SendRaises ==
    /\ Refused \/ CdbField(command.name, Length) = {}
    /\ Move("new", "raised")
    /\ UNCHANGED <<sent, raw_len, data_len>>

TRAILER_LEN == 18

\* mock_cgiscsi: INQUIRY and the window have their own lengths, an image may
\* be shorter than asked for; the trailer follows.
Available ==
    CASE command.name = "inquiry" -> {96}
      [] command.name = "get-window" -> {52}
      [] command.name \in {"read", "read-kind"} -> {512, sent.dl}
      [] OTHER -> {sent.dl}
Serve ==
    /\ sent.dl >= 0 /\ Move("sent", "served")
    /\ \E available \in Available : raw_len' = Min({available, sent.dl}) + TRAILER_LEN
    /\ UNCHANGED <<sent, data_len>>

\* Somebody else answers with less than a trailer.
ServeShort ==
    /\ Move("sent", "served")
    /\ raw_len' \in {0, TRAILER_LEN - 1}
    /\ UNCHANGED <<sent, data_len>>

Parse ==
    /\ raw_len >= TRAILER_LEN /\ Move("served", "answered")
    /\ data_len' = raw_len - TRAILER_LEN
    /\ UNCHANGED <<sent, raw_len>>

ParseRaises ==
    /\ raw_len < TRAILER_LEN /\ Move("served", "raised")
    /\ UNCHANGED <<sent, raw_len, data_len>>

CommandNext ==
    Send \/ SendRaises \/ Serve \/ ServeShort \/ Parse \/ ParseRaises

CommandSpec == CommandInit /\ [][CommandNext]_commandVars

----------------------------------------------------------------------------
(* Whatever length a user asks for, the scanner is told the same number      *)
(* everywhere, or nothing is sent: a length too large for its field is never *)
(* cut to its low bytes (only INQUIRY's one-byte field is), nor GET MEMORY   *)
(* sent for more than 0x2000 bytes; a payload is as long as its own header   *)
(* says; and the data of an answer is at most what was asked for, without a  *)
(* byte of the trailer.                                                      *)
LengthsAgree ==
    /\ sent # Unsent =>
          /\ sent.field = IF command.name = "inquiry" THEN sent.dl % 256 ELSE sent.dl
          /\ sent.data_out \in {0, sent.dl}
          /\ command.name = "memory" => sent.dl <= 8192
          /\ command.name = "set-window"  => sent.header + 8 = sent.data_out
          /\ command.name = "define-mode" => sent.header + 6 = sent.data_out
    /\ exchange = "answered" => data_len <= sent.dl
=============================================================================
