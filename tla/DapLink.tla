------------------------------- MODULE DapLink -------------------------------
(***************************************************************************)
(* The deferred transfer engine of a CMSIS-DAP probe, class                *)
(* DAPAccessCMSISDAP of pyocd/probe/pydapaccess/dap_access_cmsis_dap.py.   *)
(*                                                                         *)
(* A caller asks for register reads and writes.  The engine packs their    *)
(* words into packets, keeps up to PacketCount packets in flight, and      *)
(* hands the words that come back to the transfers that asked for them,    *)
(* purely by position: nothing in an answer names the transfer or even the *)
(* packet it belongs to.  The probe works on its own, so its steps         *)
(* interleave with the caller's.                                           *)
(*                                                                         *)
(* pc names the loop or call the caller's thread is in:                    *)
(*   idle       no call in progress                                        *)
(*   pack       the while loop of _write                                   *)
(*   packSend   _send_packet called by _write                              *)
(*   flushSend  _send_packet called by flush                               *)
(*   backlog    the read loop of flush                                     *)
(*   get        the while loop of _Transfer.get_result                     *)
(*   drain      the read loop of _abort_all_transfers                      *)
(*                                                                         *)
(* The k-th word ever read is modelled by the number k, so a word says     *)
(* which read it answers; 0 is what a decoder finds where no word is.      *)
(***************************************************************************)
EXTENDS DapCommand, Sequences

CONSTANTS
    PacketSize,    \* dap_info(MAX_PACKET_SIZE)
    PacketCount,   \* dap_info(MAX_PACKET_COUNT), or 1 under limit_packets
    Counts,        \* the numbers of words a caller asks for
    MaxAccesses,   \* bound: register accesses asked for
    MaxNaks,       \* bound: packets the target does not acknowledge
    MaxIoErrors    \* bound: failures of the USB interface

ASSUME LinkAssumption ==
    /\ ValidSize(PacketSize)
    /\ PacketCount \in Nat \ {0}
    /\ Counts \subseteq Nat \ {0}
    /\ MaxAccesses \in Nat /\ MaxNaks \in Nat /\ MaxIoErrors \in Nat

VARIABLES
    pc,
    call,            \* arguments of the call in progress
    outcome,         \* how the last call ended
    deferred,        \* _deferred_transfer
    transfers,       \* every _Transfer made, oldest first
    held,            \* read callbacks the caller still holds
    transferList,    \* _transfer_list
    crnt,            \* _crnt_cmd
    commandsToRead,  \* _commands_to_read
    responseBuf,     \* _command_response_buf
    drainLeft,       \* answers the abort loop has still to discard
    toProbe,         \* packets written, not executed yet
    fromProbe,       \* answers not read yet
    accesses, naks, ioErrors    \* counted against the bounds

caller == <<pc, call, outcome, deferred, held>>
queues == <<transfers, transferList, crnt, commandsToRead, responseBuf, drainLeft>>
wire   == <<toProbe, fromProbe>>
bounds == <<accesses, naks, ioErrors>>
vars   == <<caller, queues, wire, bounds>>

-----------------------------------------------------------------------------
(* Data *)

\* A packet: the command, and the number of the first word it reads.
Packets == [cmd : Commands, first : Nat]
NewPacket(first) == [cmd |-> NewCommand(PacketSize), first |-> first]
NextRead(p) == p.first + p.cmd.readCount
WordsRead(p) == [i \in 1 .. p.cmd.readCount |-> p.first + i - 1]
WordCount(p) == p.cmd.readCount + p.cmd.writeCount

\* The words a transfer asked for.
OwnWords(t) == [i \in 1 .. t.count |-> t.first + i - 1]
NewTransfer(count) ==
    [first |-> NextRead(crnt), count |-> count, state |-> "pending", result |-> << >>]

\* A packet's answer names the command, the acknowledge of the last access (OK,
\* or FAULT for every other) and the number of accesses made.
Layout(c) == IF c.blockAllowed THEN "DAP_TransferBlock" ELSE "DAP_Transfer"
Answers == [command : {"DAP_TransferBlock", "DAP_Transfer"}, ack : {"OK", "FAULT"},
            count : Nat, words : Seq(Nat)]
Answer(p, ack) ==
    [command |-> Layout(p.cmd), ack |-> ack,
     count |-> IF ack = "OK" THEN WordCount(p) ELSE 0,
     words |-> IF ack = "OK" THEN WordsRead(p) ELSE << >>]

\* decode_data compares the command code first, then the acknowledge, then the
\* count.  Where the answer is too short the decoder finds the padding.
DecodeError(p, answer) ==
    IF answer.command # Layout(p.cmd) THEN "ValueError"
    ELSE IF answer.ack # "OK" \/ answer.count # WordCount(p) THEN "TransferError"
    ELSE "none"
Decoded(p, answer) ==
    [i \in 1 .. p.cmd.readCount |-> IF i <= Len(answer.words) THEN answer.words[i] ELSE 0]

\* A faulty variant, which the properties must reject, precedes each operator it
\* is a variant of: here, a list that takes the newest transfer first.
EnqueueFirst(t) == <<t>> \o transferList
Enqueue(t) == Append(transferList, t)

NoCall == [request |-> NoRequest, todo |-> 0, want |-> 0, undefer |-> FALSE]

-----------------------------------------------------------------------------
Init ==
    /\ pc = "idle" /\ call = NoCall /\ outcome = "none"
    /\ deferred = FALSE
    /\ transfers = << >> /\ held = {} /\ transferList = << >>
    /\ crnt = NewPacket(1)
    /\ commandsToRead = << >> /\ responseBuf = << >> /\ drainLeft = 0
    /\ toProbe = << >> /\ fromProbe = << >>
    /\ accesses = 0 /\ naks = 0 /\ ioErrors = 0

\* The loop at the end of _read_packet hands out data before anything else runs.
DataForHead ==
    /\ transferList # << >>
    /\ responseBuf # << >>
    /\ transfers[Head(transferList)].count <= Len(responseBuf)
At(pcs) == pc \in pcs /\ ~DataForHead

Return(how) == pc' = "idle" /\ call' = NoCall /\ outcome' = how

\* A deferred read returns its callback.
ReturnFromWrite ==
    /\ Return("returned")
    /\ held' = IF call.request \in ReadRequests THEN held \cup {Len(transfers)} ELSE held

-----------------------------------------------------------------------------
(* The caller starts an operation *)

\* write_reg and reg_write_repeat.
WriteReg(count, request) ==
    /\ At({"idle"})
    /\ accesses < MaxAccesses
    /\ pc' = "pack"
    /\ call' = [NoCall EXCEPT !.request = request, !.todo = count]
    /\ accesses' = accesses + 1
    /\ UNCHANGED <<outcome, deferred, held, queues, wire, naks, ioErrors>>

\* read_reg and reg_read_repeat; `now` calls get_result before it returns.
ReadReg(count, request, now) ==
    /\ At({"idle"})
    /\ accesses < MaxAccesses
    /\ pc' = "pack"
    /\ transfers' = Append(transfers, NewTransfer(count))
    /\ transferList' = Enqueue(Len(transfers) + 1)
    /\ call' = [NoCall EXCEPT !.request = request, !.todo = count,
                              !.want = IF now THEN Len(transfers) + 1 ELSE 0]
    /\ accesses' = accesses + 1
    /\ UNCHANGED <<outcome, deferred, held, crnt, commandsToRead, responseBuf, drainLeft,
                   wire, naks, ioErrors>>

\* The caller calls a read callback it was given.
GetResult(t) ==
    /\ At({"idle"})
    /\ t \in held
    /\ held' = held \ {t}
    /\ pc' = "get"
    /\ call' = [NoCall EXCEPT !.want = t]
    /\ UNCHANGED <<outcome, deferred, queues, wire, bounds>>

\* flush, which reset, assert_reset, is_reset_asserted, set_clock, disconnect
\* and close call first.
Flush ==
    /\ At({"idle"})
    /\ pc' = "flushSend"
    /\ UNCHANGED <<call, outcome, deferred, held, queues, wire, bounds>>

SetDeferredTransfer(enable) ==
    /\ At({"idle"})
    /\ IF deferred /\ ~enable
       THEN /\ pc' = "flushSend"
            /\ call' = [NoCall EXCEPT !.undefer = TRUE]
            /\ UNCHANGED deferred
       ELSE /\ deferred' = enable
            /\ UNCHANGED <<pc, call>>
    /\ UNCHANGED <<outcome, held, queues, wire, bounds>>

-----------------------------------------------------------------------------
(* _write: pack the words *)

Space == RequestSpace(crnt.cmd, call.todo, call.request)

AddWords ==
    /\ At({"pack"}) /\ call.todo > 0 /\ Space > 0
    /\ LET cmd == Add(crnt.cmd, Space, call.request)
       IN  /\ crnt' = [crnt EXCEPT !.cmd = cmd]
           /\ pc' = IF IsFull(cmd) THEN "packSend" ELSE "pack"
    /\ call' = [call EXCEPT !.todo = @ - Space]
    /\ UNCHANGED <<outcome, deferred, held, transfers, transferList, commandsToRead,
                   responseBuf, drainLeft, wire, bounds>>

NoRoom ==
    /\ At({"pack"}) /\ call.todo > 0 /\ Space = 0
    /\ pc' = "packSend"
    /\ UNCHANGED <<call, outcome, deferred, held, queues, wire, bounds>>

\* All words are in packets: flush unless transfers are deferred, then read the
\* result if it is wanted now.
WriteDone ==
    /\ At({"pack"}) /\ call.todo = 0
    /\ CASE ~deferred                    -> pc' = "flushSend" /\ UNCHANGED <<call, outcome, held>>
         [] deferred /\ call.want # 0    -> pc' = "get" /\ UNCHANGED <<call, outcome, held>>
         [] deferred /\ call.want = 0    -> ReturnFromWrite
    /\ UNCHANGED <<deferred, queues, wire, bounds>>

-----------------------------------------------------------------------------
(* _send_packet *)

Sending == At({"packSend", "flushSend"})
AfterSend == IF pc = "packSend" THEN "pack" ELSE "backlog"

\* Faulty: one packet too many.
PipelineOverfull == Len(commandsToRead) > PacketCount

\* The probe has no room for another packet: read an answer first.
PipelineFull == Len(commandsToRead) >= PacketCount

SendPacket ==
    /\ Sending /\ ~IsEmpty(crnt.cmd) /\ ~PipelineFull
    /\ toProbe' = Append(toProbe, crnt)
    /\ commandsToRead' = Append(commandsToRead, crnt)
    /\ crnt' = NewPacket(NextRead(crnt))
    /\ pc' = AfterSend
    /\ UNCHANGED <<call, outcome, deferred, held, transfers, transferList, responseBuf,
                   drainLeft, fromProbe, bounds>>

NothingToSend ==
    /\ Sending /\ IsEmpty(crnt.cmd)
    /\ pc' = AfterSend
    /\ UNCHANGED <<call, outcome, deferred, held, queues, wire, bounds>>

-----------------------------------------------------------------------------
(* _read_packet, from the three places that call it *)

Resolved(t) == transfers[t].state = "done"

Reading ==
    /\ commandsToRead # << >>
    /\ \/ Sending /\ ~IsEmpty(crnt.cmd) /\ PipelineFull
       \/ At({"backlog"})
       \/ At({"get"}) /\ ~Resolved(call.want)

\* Faulty: the words already read survive the abort.
InitBuffersKeepingData ==
    /\ transferList' = << >>
    /\ crnt' = NewPacket(NextRead(crnt))
    /\ commandsToRead' = << >>
    /\ UNCHANGED responseBuf

\* _init_deferred_buffers.
InitDeferredBuffers ==
    /\ transferList' = << >>
    /\ crnt' = NewPacket(NextRead(crnt))
    /\ commandsToRead' = << >>
    /\ responseBuf' = << >>

\* Faulty: no answer, one too few or one too many is discarded.
DrainNothing(error, inFlight) == 0
DrainOneLess(error, inFlight) == IF error = "TransferError" THEN inFlight - 1 ELSE 0
DrainOneMore(error, inFlight) == IF error = "TransferError" THEN inFlight + 1 ELSE 0

\* Answers are read and ignored only after a transfer error; any other error
\* is raised straight away, "otherwise this could cause another exception".
AnswersToDrain(error, inFlight) == IF error = "TransferError" THEN inFlight ELSE 0

\* _abort_all_transfers, with `inFlight` answers outstanding.
Abort(error, inFlight) ==
    /\ transfers' = [t \in DOMAIN transfers |->
                        IF \E i \in DOMAIN transferList : transferList[i] = t
                        THEN [transfers[t] EXCEPT !.state = "failed"]
                        ELSE transfers[t]]
    /\ InitDeferredBuffers
    /\ drainLeft' = AnswersToDrain(error, inFlight)
    /\ pc' = "drain"
    /\ UNCHANGED <<call, outcome, deferred, held, accesses>>

ReadPacket ==
    /\ Reading /\ fromProbe # << >>
    /\ DecodeError(Head(commandsToRead), Head(fromProbe)) = "none"
    /\ responseBuf' = responseBuf \o Decoded(Head(commandsToRead), Head(fromProbe))
    /\ commandsToRead' = Tail(commandsToRead)
    /\ fromProbe' = Tail(fromProbe)
    /\ UNCHANGED <<caller, transfers, transferList, crnt, drainLeft, toProbe, bounds>>

ReadBadPacket ==
    /\ Reading /\ fromProbe # << >>
    /\ LET error == DecodeError(Head(commandsToRead), Head(fromProbe))
       IN  /\ error # "none"
           /\ Abort(error, Len(Tail(commandsToRead)))
    /\ fromProbe' = Tail(fromProbe)
    /\ UNCHANGED <<toProbe, naks, ioErrors>>

\* One turn of the loop that attaches data to transfers.
AddResponse ==
    /\ DataForHead
    /\ LET t == Head(transferList)
           n == transfers[t].count
       IN  /\ transfers' = [transfers EXCEPT ![t].state = "done",
                                             ![t].result = SubSeq(responseBuf, 1, n)]
           /\ responseBuf' = SubSeq(responseBuf, n + 1, Len(responseBuf))
    /\ transferList' = Tail(transferList)
    /\ UNCHANGED <<caller, crnt, commandsToRead, drainLeft, wire, bounds>>

\* The rest of _abort_all_transfers, then the exception reaches the caller.
DrainOne ==
    /\ At({"drain"}) /\ drainLeft > 0 /\ fromProbe # << >>
    /\ fromProbe' = Tail(fromProbe)
    /\ drainLeft' = drainLeft - 1
    /\ UNCHANGED <<caller, transfers, transferList, crnt, commandsToRead, responseBuf,
                   toProbe, bounds>>

Raise ==
    /\ At({"drain"}) /\ drainLeft = 0
    /\ Return("raised")
    /\ UNCHANGED <<deferred, held, queues, wire, bounds>>

-----------------------------------------------------------------------------
(* flush and get_result *)

\* Faulty: the last answer is left for later.
BacklogAlmostRead == Len(commandsToRead) <= 1
BacklogRead == commandsToRead = << >>

BacklogDone ==
    /\ At({"backlog"}) /\ BacklogRead
    /\ IF call.want # 0
       THEN pc' = "get" /\ UNCHANGED <<call, outcome, held>>
       ELSE ReturnFromWrite
    /\ deferred' = (deferred /\ ~call.undefer)
    /\ UNCHANGED <<queues, wire, bounds>>

ResultReady ==
    /\ At({"get"}) /\ Resolved(call.want)
    /\ Return("returned")
    /\ UNCHANGED <<deferred, held, queues, wire, bounds>>

\* Faulty: a flush is tried again, with nothing to send.
FlushWorthAlways == TRUE
FlushWorth == ~IsEmpty(crnt.cmd)

\* Nothing is in flight, so the words must be in the current packet.
ResultNeedsFlush ==
    /\ At({"get"}) /\ ~Resolved(call.want) /\ commandsToRead = << >>
    /\ FlushWorth
    /\ pc' = "flushSend"
    /\ UNCHANGED <<call, outcome, deferred, held, queues, wire, bounds>>

\* get_result's assertion that the current packet is not empty fails.
ResultLost ==
    /\ At({"get"}) /\ ~Resolved(call.want) /\ commandsToRead = << >>
    /\ ~FlushWorth
    /\ Return("AssertionError")
    /\ UNCHANGED <<deferred, held, queues, wire, bounds>>

-----------------------------------------------------------------------------
(* The probe (external) executes packets in the order they were written. *)

ProbeExecutes(ack) ==
    /\ toProbe # << >>
    /\ ack = "OK" \/ naks < MaxNaks
    /\ naks' = IF ack = "OK" THEN naks ELSE naks + 1
    /\ fromProbe' = Append(fromProbe, Answer(Head(toProbe), ack))
    /\ toProbe' = Tail(toProbe)
    /\ UNCHANGED <<caller, queues, accesses, ioErrors>>

(* The USB interface (external) fails.  A read that times out leaves the       *)
(* answer, which may still come.                                               *)

WriteFails ==
    /\ ioErrors < MaxIoErrors
    /\ Sending /\ ~IsEmpty(crnt.cmd) /\ ~PipelineFull
    /\ Abort("DeviceError", Len(commandsToRead))
    /\ ioErrors' = ioErrors + 1
    /\ UNCHANGED <<wire, naks>>

ReadTimesOut ==
    /\ ioErrors < MaxIoErrors
    /\ Reading /\ fromProbe = << >>
    /\ Abort("DeviceError", Len(Tail(commandsToRead)))
    /\ ioErrors' = ioErrors + 1
    /\ UNCHANGED <<wire, naks>>

DrainTimesOut ==
    /\ ioErrors < MaxIoErrors
    /\ At({"drain"}) /\ drainLeft > 0 /\ fromProbe = << >>
    /\ drainLeft' = 0
    /\ ioErrors' = ioErrors + 1
    /\ UNCHANGED <<caller, transfers, transferList, crnt, commandsToRead, responseBuf,
                   wire, accesses, naks>>

-----------------------------------------------------------------------------
StartCall ==
    \/ \E count \in Counts, request \in WriteRequests : WriteReg(count, request)
    \/ \E count \in Counts, request \in ReadRequests, now \in BOOLEAN :
           ReadReg(count, request, now)
    \/ \E t \in held : GetResult(t)
    \/ Flush
    \/ \E enable \in BOOLEAN : SetDeferredTransfer(enable)

ContinueCall ==
    \/ AddWords \/ NoRoom \/ WriteDone
    \/ SendPacket \/ NothingToSend
    \/ ReadPacket \/ ReadBadPacket \/ AddResponse \/ DrainOne \/ Raise
    \/ BacklogDone \/ ResultReady \/ ResultNeedsFlush \/ ResultLost

Probe == \E ack \in {"OK", "FAULT"} : ProbeExecutes(ack)

InterfaceFails == WriteFails \/ ReadTimesOut \/ DrainTimesOut

Next == StartCall \/ ContinueCall \/ Probe

\* The interface delivers every packet and every answer.
Spec == Init /\ [][Next]_vars

\* It may also fail.
FailingSpec == Init /\ [][Next \/ InterfaceFails]_vars

\* The thread in a call goes on, and the probe answers what it was sent.
Fairness == WF_vars(ContinueCall) /\ WF_vars(Probe)
FailingFairSpec == FailingSpec /\ Fairness

-----------------------------------------------------------------------------
(* Properties *)

InFlight == Len(toProbe) + Len(fromProbe)

TypeOK ==
    /\ pc \in {"idle", "pack", "packSend", "flushSend", "backlog", "get", "drain"}
    /\ call \in [request : Requests \cup {NoRequest}, todo : Nat, want : Nat,
                 undefer : BOOLEAN]
    /\ outcome \in {"none", "returned", "raised", "AssertionError"}
    /\ deferred \in BOOLEAN
    /\ transfers \in Seq([first : Nat, count : Nat \ {0},
                          state : {"pending", "done", "failed"}, result : Seq(Nat)])
    /\ held \subseteq 1 .. Len(transfers)
    /\ transferList \in Seq(1 .. Len(transfers))
    /\ crnt \in Packets
    /\ commandsToRead \in Seq(Packets)
    /\ responseBuf \in Seq(Nat)
    /\ drainLeft \in Nat
    /\ toProbe \in Seq(Packets)
    /\ fromProbe \in Seq(Answers)
    /\ accesses \in Nat /\ naks \in Nat /\ ioErrors \in Nat

\* The packets written whose answers were not read never outnumber what the
\* probe can buffer (the guarantee _send_packet's docstring states), aborts and
\* the answers they discard included.
InFlightBound == InFlight <= PacketCount

\* Data left over in the response buffer always belongs to a transfer: the loop
\* of _read_packet never indexes an empty transfer list.
NoOrphanData == responseBuf # << >> => transferList # << >>

\* A transfer is given the words it asked for and no other's, though answers
\* are told apart by nothing but their position.
OwnResults ==
    \A t \in DOMAIN transfers :
        transfers[t].state = "done" => transfers[t].result = OwnWords(transfers[t])

\* Between calls with nothing left to read, the wire is silent: an abort leaves
\* no answer behind that a later packet could take for its own.
SilentWire == pc = "idle" /\ commandsToRead = << >> => InFlight = 0

\* A flush that returns leaves nothing unsent, unread or unanswered.
FlushCompletes ==
    [][ pc = "backlog" /\ pc' \in {"idle", "get"} =>
            /\ IsEmpty(crnt.cmd) /\ commandsToRead = << >> /\ InFlight = 0
            /\ transferList = << >> ]_vars

\* A read with READ_NOW that returns its value has pushed every earlier access
\* through the target first (set_deferred_transfer's docstring).
ReadNowFlushes ==
    [][ pc = "get" /\ call.request \in ReadRequests /\ pc' = "idle" /\ outcome' = "returned" =>
            IsEmpty(crnt.cmd) /\ InFlight = 0 ]_vars

\* Every call returns, one way or another.
CallsReturn == pc # "idle" ~> pc = "idle"

\* The loops of a call wait for an answer only where the probe owes one, whatever
\* failed before: neither _read_packet nor the read loop of
\* _abort_all_transfers can be left waiting for ever.
AnswerOwed ==
    Reading \/ (At({"drain"}) /\ drainLeft > 0) => InFlight > 0

\* What a call has still to do.  A word may need a packet of its own, and a packet
\* is filled, sent and read; get_result flushes at most once.
PhasesLeft ==
    CASE pc = "idle"      -> 0
      [] pc = "drain"     -> 1
      [] pc = "get"       -> IF IsEmpty(crnt.cmd) THEN 1 ELSE 4
      [] pc = "backlog"   -> 2
      [] pc = "flushSend" -> 3
      [] pc = "packSend"  -> 5
      [] pc = "pack"      -> 6
CallLeft == PhasesLeft + 4 * call.todo + (IF IsEmpty(crnt.cmd) THEN 0 ELSE 3)
QueuesLeft == Len(commandsToRead) + Len(transferList) + drainLeft
WorkLeft == CallLeft + QueuesLeft

\* Every step of a call, errors and failures of the interface included, leaves it
\* less to do, or is the probe executing one packet of those sent: no loop of
\* the engine goes round without getting on.
CallsGetOn ==
    [][ pc # "idle" =>
            \/ WorkLeft' < WorkLeft
            \/ UNCHANGED <<caller, queues>> /\ Len(toProbe') < Len(toProbe) ]_vars

\* get_result never finds itself with no packet to send and no answer to read.
ResultObtainable == outcome # "AssertionError"

\* Every read is answered in turn with its own words or failed with all the
\* others still pending (module DapPort).
Status(t) ==
    IF t > Len(transfers) THEN "free"
    ELSE CASE transfers[t].state = "pending" -> "pending"
           [] transfers[t].state = "failed"  -> "failed"
           [] transfers[t].state = "done"    ->
                  IF transfers[t].result = OwnWords(transfers[t]) THEN "answered" ELSE "mixed up"

Port == INSTANCE DapPort WITH
            Reads  <- 1 .. MaxAccesses,
            status <- [t \in 1 .. MaxAccesses |-> Status(t)]

ImplementsPort == Port!Spec
=============================================================================
