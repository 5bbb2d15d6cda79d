---------------------------- MODULE PacketBuilder ----------------------------
(***************************************************************************)
(* One packet of the deferred transfer engine from its creation to its     *)
(* transmission: the loop of DAPAccessCMSISDAP._write puts words into it,  *)
(* _send_packet encodes it and starts a new one.  What matters here is the *)
(* packet itself: that it never outgrows the probe's buffers, and that the *)
(* probe decodes the accesses the caller asked for, in their order.        *)
(***************************************************************************)
EXTENDS DapCommand, Sequences, SequencesExt

CONSTANTS
    PacketSizes,    \* the packet sizes a probe may report
    Counts,         \* the numbers of words a caller asks for
    MaxSegments     \* bound: segments per packet

ASSUME BuilderAssumption ==
    /\ \A size \in PacketSizes : ValidSize(size)
    /\ Counts \subseteq Nat \ {0}

VARIABLES
    cmd,    \* _crnt_cmd
    data    \* cmd._data: the <<count, request>> segments added to it

vars == <<cmd, data>>

Segments == Counts \X Requests

\* What the probe decodes: DAP_TransferBlock repeats the one request it names,
\* DAP_Transfer carries a request byte for every word.
RepeatRequest(n, request) == [i \in 1 .. n |-> request]

FlattenSegments(segments) ==
    FoldLeft(LAMBDA seq, s : seq \o RepeatRequest(s[1], s[2]), << >>, segments)

Encode(c, segments) ==
    IF c.blockAllowed
    THEN [count    |-> (c.readCount + c.writeCount) % 65536,
          requests |-> RepeatRequest(c.readCount + c.writeCount, c.blockRequest)]
    ELSE [count    |-> (c.readCount + c.writeCount) % 256,
          requests |-> FlattenSegments(segments)]

-----------------------------------------------------------------------------
Init ==
    /\ \E size \in PacketSizes : cmd = NewCommand(size)
    /\ data = << >>

\* One turn of _write's loop that finds room.
AddWords(count, request) ==
    LET space == RequestSpace(cmd, count, request)
    IN  /\ ~IsFull(cmd)
        /\ space > 0
        /\ Len(data) < MaxSegments
        /\ cmd' = Add(cmd, space, request)
        /\ data' = Append(data, <<space, request>>)

\* _send_packet: the packet is full, the next access does not fit it, or a
\* flush sends whatever it holds.
SendPacket ==
    /\ ~IsEmpty(cmd)
    /\ cmd' = NewCommand(cmd.size)
    /\ data' = << >>

Next ==
    \/ \E count \in Counts, request \in Requests : AddWords(count, request)
    \/ SendPacket

Spec == Init /\ [][Next]_vars

-----------------------------------------------------------------------------
(* Properties *)

\* The packet and the probe's answer fit the probe's buffers, and the number of
\* words fits the field that carries it: _get_free_words and the cap on
\* non-block requests in get_request_space leave nothing to overflow.
Fits ==
    /\ PacketLength(cmd) <= cmd.size
    /\ ResponseLength(cmd) <= cmd.size
    /\ cmd.readCount + cmd.writeCount <=
           IF cmd.blockAllowed THEN 65535 ELSE MaxTransferCount

\* The probe decodes exactly the accesses that were added, in the order they
\* were added: a packet that turned from DAP_TransferBlock into DAP_Transfer
\* half-way included.
DecodedAsAdded ==
    LET packet == Encode(cmd, data)
    IN  /\ packet.requests = FlattenSegments(data)
        /\ packet.count = Len(packet.requests)
=============================================================================
