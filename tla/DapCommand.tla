----------------------------- MODULE DapCommand -----------------------------
(***************************************************************************)
(* The packet under construction, class _Command of                        *)
(* pyocd/probe/pydapaccess/dap_access_cmsis_dap.py: how many words of a    *)
(* register access still fit, when the packet is full, and which of the    *)
(* two CMSIS-DAP commands carries it (DAP_TransferBlock while every access *)
(* in it is the same request, DAP_Transfer from the first other one on).   *)
(*                                                                         *)
(* The DAP index is left out: _write asserts that it is 0.                 *)
(***************************************************************************)
EXTENDS Integers

CONSTANTS
    ReadRequests,   \* request bytes with the READ bit set
    WriteRequests,  \* request bytes without it
    NoRequest       \* the None of _block_request

ASSUME RequestAssumption ==
    /\ ReadRequests \cap WriteRequests = {}
    /\ NoRequest \notin ReadRequests \cup WriteRequests

Requests == ReadRequests \cup WriteRequests

Smaller(a, b) == IF a < b THEN a ELSE b
Larger(a, b)  == IF a > b THEN a ELSE b

Commands == [size : Nat, readCount : Nat, writeCount : Nat,
             blockAllowed : BOOLEAN, blockRequest : Requests \cup {NoRequest}]

NewCommand(size) ==
    [size |-> size, readCount |-> 0, writeCount |-> 0,
     blockAllowed |-> TRUE, blockRequest |-> NoRequest]

\* The packet sizes the formulas work for: from one word of any access on, and
\* in the 16 bits of DAP_Info.
ValidSize(size) == size \in Nat /\ 9 <= size /\ size <= 65535

\* DAP_Transfer counts its requests in one byte.
MaxTransferCount == 255

\* Bytes the packet takes as DAP_TransferBlock and as DAP_Transfer, and the
\* bytes of the probe's answer.
BlockLength(c)    == 5 + 4 * c.writeCount
TransferLength(c) == 3 + c.readCount + 5 * c.writeCount
PacketLength(c)   == IF c.blockAllowed THEN BlockLength(c) ELSE TransferLength(c)
ResponseLength(c) == (IF c.blockAllowed THEN 4 ELSE 3) + 4 * c.readCount

\* _get_free_words: the words of a read or a write that still fit.  A read takes
\* four bytes of the answer and, in DAP_Transfer, one of the packet.
BlockFreeWords(c, isRead) ==
    IF isRead THEN (c.size - 4 - 4 * c.readCount) \div 4
              ELSE (c.size - BlockLength(c)) \div 4

TransferFreeWords(c, isRead) ==
    LET send == c.size - TransferLength(c)
        recv == c.size - 3 - 4 * c.readCount
    IN  IF isRead THEN Smaller(send, recv \div 4) ELSE send \div 5

FreeWords(c, block, isRead) ==
    IF block THEN BlockFreeWords(c, isRead) ELSE TransferFreeWords(c, isRead)

\* Faulty variants, which the properties must reject: a packet with different
\* requests sent as a block, and no cap on the count byte.
StaysBlockAlways(c, request) == c.blockAllowed
CapNothing(c, n) == n

\* Adding `request` leaves the packet a DAP_TransferBlock.
StaysBlock(c, request) == c.blockAllowed /\ c.blockRequest \in {NoRequest, request}

CapCount(c, n) == Smaller(n, MaxTransferCount - (c.readCount + c.writeCount))

RequestSpace(c, count, request) ==
    LET block == StaysBlock(c, request)
        fits  == Smaller(count, FreeWords(c, block, request \in ReadRequests))
    IN  Larger(IF block THEN fits ELSE CapCount(c, fits), 0)

IsFull(c)  == \E isRead \in BOOLEAN : FreeWords(c, c.blockAllowed, isRead) = 0
IsEmpty(c) == c.readCount + c.writeCount = 0

Add(c, n, request) ==
    [size         |-> c.size,
     readCount    |-> IF request \in ReadRequests THEN c.readCount + n ELSE c.readCount,
     writeCount   |-> IF request \in WriteRequests THEN c.writeCount + n ELSE c.writeCount,
     blockAllowed |-> StaysBlock(c, request),
     blockRequest |-> IF c.blockRequest = NoRequest THEN request ELSE c.blockRequest]
=============================================================================
