---------------------------- MODULE ProbeCommands ----------------------------
(***************************************************************************)
(* The commands that a CMSIS-DAP probe is given past the transfer engine:  *)
(* class CMSISDAPProtocol (cmsis_dap_core.py), the methods of              *)
(* DAPAccessCMSISDAP that call it, and those of CMSISDAPProbe that call    *)
(* these, over the interface of UsbInterface.                              *)
(*                                                                         *)
(* A call is a list of steps.  A command is written and its answer read at *)
(* once, whatever the engine has in flight.  Of the engine there is what   *)
(* that takes: it writes packets, leaves up to MaxUnread of them unread,   *)
(* and reads them in a flush.                                              *)
(***************************************************************************)
EXTENDS UsbInterface

CONSTANTS
    MaxUnread,      \* packets the engine keeps in flight (PacketCount)
    MaxWrites,      \* bound: packets written
    Infos,          \* bound: what open asks the probe for, of four
    HasSwoEndpoint  \* PyUSBv2.has_swo_ep

ASSUME CommandAssumption ==
    /\ MaxUnread \in Nat \ {0} /\ MaxWrites \in Nat /\ Infos \in 0 .. 4
    /\ HasSwoEndpoint \in BOOLEAN

VARIABLES
    todo,       \* the steps left of the call in progress
    backlog,    \* packets of the engine that are not read, its _commands_to_read
    kinds,      \* the commands of the packets that are not answered or read
    swoStatus,  \* _swo_status
    capture,    \* whether the probe captures SWO
    tracing,    \* bound: whether the caller makes the calls of SWO, or those of the engine and the connection
    strayed     \* history: an answer may be left that nobody is to read

linkVars == <<todo, backlog, kinds, swoStatus, capture, tracing, strayed>>
vars == <<usbVars, linkVars>>

Init ==
    /\ UsbInit
    /\ todo = << >> /\ backlog = 0 /\ kinds = << >>
    /\ swoStatus = "disabled" /\ capture = FALSE /\ strayed = FALSE
    /\ tracing \in BOOLEAN

-----------------------------------------------------------------------------
(* The commands of CMSISDAPProtocol *)

Step(do, command) == << [do |-> do, command |-> command] >>
Local(do) == Step(do, "none")
Ask(command) == Step("write", command) \o Step("read", command)

\* Those whose answers hold no status.
Unrefusable == {"info", "pins", "swo_status", "swo_data", "vendor", "transfer"}

dap_info == Ask("info")
protocol_connect == Ask("connect")
protocol_disconnect == Ask("disconnect")
transfer_configure == Ask("transfer_configure")
set_swj_clock == Ask("clock")
set_swj_pins == Ask("pins")
swd_configure == Ask("swd_configure")
protocol_swj_sequence == Ask("swj_sequence")
jtag_configue == Ask("jtag_configure")
swo_transport(transport) == Ask(IF transport = "none" THEN "swo_transport_none" ELSE "swo_transport")
swo_mode(mode) == Ask(IF mode = "off" THEN "swo_mode_off" ELSE "swo_mode")
swo_baudrate == Ask("swo_baudrate")
protocol_swo_control(action) == Ask(IF action = "start" THEN "swo_start" ELSE "swo_stop")
swo_status == Ask("swo_status")
swo_data == Ask("swo_data")
protocol_vendor == Ask("vendor")

-----------------------------------------------------------------------------
(* The calls *)

flush == Local("flush")

\* dap_info comes once for each thing asked.
open == Local("open") \o [i \in 1 .. 2 * Infos |-> dap_info[2 - (i % 2)]] \o Local("swo_disabled")
close == flush \o Local("close")

\* Faulty: what is in flight is left there.
set_clockUnflushed == set_swj_clock

set_clock == flush \o set_swj_clock
reset == flush \o set_swj_pins \o set_swj_pins
assert_reset == flush \o set_swj_pins
disconnect == flush \o protocol_disconnect
connect == protocol_connect \o set_swj_clock \o transfer_configure
_jtag_to_swd == protocol_swj_sequence \o protocol_swj_sequence \o protocol_swj_sequence \o protocol_swj_sequence
swj_sequence(port) ==
    IF port = "SWD" THEN swd_configure \o _jtag_to_swd ELSE jtag_configue \o protocol_swj_sequence

_swo_disable == swo_mode("off") \o swo_transport("none") \o Local("swo_disabled")

swo_configure(enabled) ==
    IF enabled THEN swo_transport("any") \o swo_mode("uart") \o swo_baudrate \o Local("swo_configured")
    ELSE _swo_disable

Endpoint(do) == IF HasSwoEndpoint THEN Local(do) ELSE << >>
swo_control(start) ==
    IF start THEN protocol_swo_control("start") \o Endpoint("start_swo") \o Local("swo_running")
    ELSE protocol_swo_control("stop") \o Endpoint("stop_swo") \o Local("swo_configured")

\* Those of the probe adaptor: swo_stop does not stop the thread.
swo_start == swo_configure(TRUE) \o swo_control(TRUE)
swo_stop == swo_configure(FALSE)
swo_read == IF HasSwoEndpoint THEN Local("read_swo") ELSE swo_data

\* _send_packet reads a packet first where as many are in flight as may be.
SendPacket == (IF backlog = MaxUnread THEN Local("read_packet") ELSE << >>) \o Step("write", "transfer")

\* Those that leave in flight what there is of the engine.
Unflushed == {connect, swj_sequence("SWD"), swj_sequence("JTAG"), dap_info, protocol_vendor}

ConnectionCalls == {set_clock, reset, assert_reset, disconnect} \cup Unflushed

SwoCalls == {swo_start, swo_stop, swo_control(TRUE), swo_control(FALSE), swo_status, swo_read}

Calls == {open, close} \cup IF tracing THEN SwoCalls ELSE ConnectionCalls \cup {flush, SendPacket}

CommandsOf(steps) == Len(SelectSeq(steps, LAMBDA s : s.do = "write"))

(* A probe is used while it is open, and opened while it is not.  Bound:   *)
(* after an error or a stray answer of the calls these four only.          *)
Begin ==
    /\ todo = << >>
    /\ todo' \in {c \in Calls : written + CommandsOf(c) <= MaxWrites /\ closed = (c = open)}
    /\ todo' = open => sessions < MaxSessions
    /\ Local("start_swo")[1] \in ToSet(todo') => \E r \in DOMAIN readers : ~Alive(r)
    /\ strayed => todo' \in {open, close, flush, dap_info}
    /\ strayed' = (strayed \/ (backlog > 0 /\ todo' \in Unflushed))
    /\ UNCHANGED <<usbVars, backlog, kinds, swoStatus, capture, tracing>>

-----------------------------------------------------------------------------
(* The steps *)

At(do) == todo # << >> /\ Head(todo).do = do
Command == Head(todo).command
Done == todo' = Tail(todo)

Outstanding == [n \in DOMAIN kinds \cap ToSet(epOut \o epIn \o rcvData) |-> kinds[n]]

(* An exception ends the call; that of a packet of the engine empties its  *)
(* list, and that of _swo_disable still takes SWO for disabled.            *)
Raises(ofEngine) ==
    /\ todo' = << >>
    /\ backlog' = IF ofEngine THEN 0 ELSE backlog
    /\ swoStatus' = IF todo # << >> /\ \E i \in DOMAIN todo : todo[i].command = "swo_transport_none"
                    THEN "disabled" ELSE swoStatus
    /\ strayed' = TRUE
    /\ UNCHANGED <<kinds, capture, tracing>>

WriteCommand ==
    /\ At("write") /\ Write
    /\ UNCHANGED linkVars

Written ==
    /\ WriteOut
    /\ Done
    /\ backlog' = IF Command = "transfer" THEN backlog + 1 ELSE backlog
    /\ kinds' = (written' :> Command) @@ Outstanding
    /\ UNCHANGED <<swoStatus, capture, tracing, strayed>>

WriteRaises == WriteFails /\ Raises(Command = "transfer")

\* What is read, and whether by the engine.
ReadsPacket == At("read_packet") \/ (At("flush") /\ backlog > 0)
ReadAnswer == (At("read") \/ ReadsPacket) /\ Read /\ UNCHANGED linkVars

Own(n) == kinds[n] = IF At("read") THEN Command ELSE "transfer"

\* What a command makes of the probe.
Captures ==
    capture' = CASE Command = "swo_start" -> TRUE [] Command \in {"swo_stop", "swo_mode_off"} -> FALSE [] OTHER -> capture

Answered ==
    /\ ReadReturns /\ Own(got') /\ UNCHANGED faults
    /\ IF At("flush") THEN UNCHANGED todo ELSE Done
    /\ backlog' = IF At("read") THEN backlog ELSE backlog - 1
    /\ Captures
    /\ UNCHANGED <<kinds, swoStatus, tracing, strayed>>

\* The answer to another command: a DeviceError.
Mistaken ==
    /\ ReadReturns /\ ~Own(got') /\ UNCHANGED faults
    /\ Raises(~At("read"))

(* A refusal of the probe is a CommandError: swo_configure then disables   *)
(* SWO, and swo_start goes on to start it.                                 *)
Refused ==
    /\ ReadReturns /\ Own(got') /\ At("read") /\ Command \notin Unrefusable
    /\ faults < MaxFaults /\ faults' = faults + 1
    /\ LET Rest(do) == SubSeq(todo, 1 + SelectInSeq(todo, LAMBDA s : s.do = do), Len(todo))
       IN  todo' = CASE Command \in {"swo_transport", "swo_mode", "swo_baudrate"} -> _swo_disable \o Rest("swo_configured")
                     [] Command \in {"swo_mode_off", "swo_transport_none"} -> Local("swo_disabled") \o Rest("swo_disabled")
                     [] OTHER -> << >>
    /\ UNCHANGED <<backlog, kinds, swoStatus, capture, tracing, strayed>>

ReadFails == ReadRaises /\ Raises(~At("read")) /\ UNCHANGED faults

Flushed == At("flush") /\ callerPc = "idle" /\ backlog = 0 /\ Done /\ UNCHANGED <<usbVars, backlog, kinds, swoStatus, capture, tracing, strayed>>

OpenInterface == At("open") /\ Open /\ Done /\ UNCHANGED <<backlog, kinds, swoStatus, capture, tracing, strayed>>

CloseInterface == At("close") /\ Close /\ UNCHANGED linkVars

SetSwoStatus ==
    /\ callerPc = "idle"
    /\ \E status \in {"disabled", "configured", "running"} :
        At(CASE status = "disabled" -> "swo_disabled" [] status = "configured" -> "swo_configured" [] OTHER -> "swo_running")
        /\ swoStatus' = status
    /\ Done
    /\ UNCHANGED <<usbVars, backlog, kinds, capture, tracing, strayed>>

StartSwoThread == At("start_swo") /\ StartSwo /\ Done /\ UNCHANGED <<backlog, kinds, swoStatus, capture, tracing, strayed>>

\* Without a thread stop_swo raises, at its event that is None.
StopSwoThread ==
    /\ At("stop_swo") /\ callerPc = "idle"
    /\ IF swoThread = 0 THEN todo' = << >> /\ UNCHANGED <<usbVars, backlog, kinds, swoStatus, capture, tracing, strayed>>
       ELSE StopSwo /\ UNCHANGED linkVars

ReadSwoData == At("read_swo") /\ ReadSwo /\ Done /\ UNCHANGED <<backlog, kinds, swoStatus, capture, tracing, strayed>>

\* The joins of close and stop_swo.
ThreadJoined ==
    /\ Joined \/ SwoJoined
    /\ IF callerPc' = "idle" THEN Done ELSE UNCHANGED todo
    /\ UNCHANGED <<backlog, kinds, swoStatus, capture, tracing, strayed>>

CallStep ==
    \/ WriteCommand \/ Written \/ WriteRaises \/ ReadAnswer \/ Answered \/ Mistaken \/ Refused \/ ReadFails
    \/ Flushed \/ OpenInterface \/ CloseInterface \/ SetSwoStatus
    \/ StartSwoThread \/ StopSwoThread \/ ReadSwoData \/ ThreadJoined

Receive ==
    /\ RxTask
    /\ strayed' = (strayed \/ faults' > faults)
    /\ UNCHANGED <<todo, backlog, kinds, swoStatus, capture, tracing>>

Probe == (ProbeAnswers \/ (capture /\ ProbeCaptures)) /\ UNCHANGED linkVars
Listen(r) == SwoTask(r) /\ UNCHANGED linkVars

Next == Begin \/ CallStep \/ Receive \/ Probe \/ \E r \in 1 .. MaxReaders : Listen(r)

\* All threads are scheduled, and the probe answers what it was sent.
Fairness ==
    /\ WF_vars(CallStep) /\ WF_vars(Receive) /\ WF_vars(ProbeAnswers /\ UNCHANGED linkVars)
    /\ \A r \in 1 .. MaxReaders : WF_vars(Listen(r))

Spec == Init /\ [][Next]_vars /\ Fairness

-----------------------------------------------------------------------------
(* Properties *)

(* In the first session, as long as nothing fails, the permits released    *)
(* and not used up are those of the packets whose answers are still to     *)
(* come: the receive thread never reads the endpoint without an answer on  *)
(* its way, which would cost it its life, and no answer is left without a  *)
(* permit.                                                                 *)
PermitPerPacket ==
    sessions = 1 /\ ~closed /\ faults = 0 =>
        permits + (IF rxPc = "read" THEN 1 ELSE 0)
            = Len(epOut) + Len(epIn) + (IF callerPc = "writeOut" THEN 1 ELSE 0)

(* A command takes the answer to the very packet it wrote, and the engine  *)
(* that to its oldest, in whatever order calls and packets of the engine   *)
(* came, until a call goes past packets that are in flight, which          *)
(* identify, vendor, connect, swj_sequence and SWO do unless the caller    *)
(* flushed, or something failed.                                           *)
OwnAnswers ==
    [][got' # got /\ ~strayed => got' = IF At("read") THEN written ELSE written - backlog + 1]_vars

\* The chunk that an SWO thread has read and is to append, if any.
InHand ==
    IF \E r \in DOMAIN readers : readers[r] > 0
    THEN << readers[CHOOSE r \in DOMAIN readers : readers[r] > 0] >> ELSE << >>

(* What the SWO thread receives is in the order of the probe, with nothing *)
(* missing or twice, in what read_swo returned, in swo_data, in the        *)
(* thread and at the endpoint, over any number of sessions.  It is not so  *)
(* once a second thread was started beside the first, which swo_stop left  *)
(* alive, or where a thread stopped: read_swo then throws away what it had *)
(* accumulated.                                                            *)
SwoInOrder ==
    ~doubled /\ ThreadGone \notin ToSet(swoData) =>
        swoData \o InHand \o epSwo = [i \in 1 .. produced - heard |-> heard + i]

\* Every call returns or raises: read stops polling and the joins of close and
\* stop_swo come back, faults, dead threads and second SWO threads included.
CallsReturn == todo # << >> ~> todo = << >>

\* Answers come in the order of their packets, across faults, dead threads and
\* sessions (module Wire).  The None of a thread that exited is not one of them.
Answers == (IF rxPc = "exited" THEN Front(rcvData) ELSE rcvData) \o epIn

W == INSTANCE Wire WITH toProbe <- epOut, fromProbe <- Answers

ImplementsWire == W!Spec
=============================================================================
