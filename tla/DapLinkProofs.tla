---------------------------- MODULE DapLinkProofs ----------------------------
(***************************************************************************)
(* Proofs about the deferred transfer engine, for every packet size and    *)
(* count, every number of words, accesses and refused packets: its types,  *)
(* why position alone tells the answers of the probe apart while the USB   *)
(* interface delivers what it is given, that every step of Spec is a step  *)
(* of the port of module DapPort or leaves its reads alone, and that a     *)
(* flush, or a read that flushes, leaves nothing behind.  On an interface  *)
(* that fails: that left-over data has an owner, that no loop waits for an *)
(* answer nobody owes, and that every step of a call gets on.              *)
(***************************************************************************)
EXTENDS DapLink, DapCommandProofs, SequenceTheorems

------------------------------------------------------------------------------
(* Types *)

Transfers == [first : Nat, count : Nat \ {0},
              state : {"pending", "done", "failed"}, result : Seq(Nat)]
Calls == [request : Requests \cup {NoRequest}, todo : Nat, want : Nat, undefer : BOOLEAN]

\* What the operators that build data return.
LEMMA NewPacketType ==
    ASSUME NEW first \in Nat
    PROVE  NewPacket(first) \in Packets
  BY LinkAssumption, RequestAssumption
  DEF NewPacket, Packets, NewCommand, Commands, ValidSize, Requests

LEMMA PacketNats ==
    ASSUME NEW p \in Packets
    PROVE  /\ p.first \in Nat /\ p.cmd \in Commands
           /\ p.cmd.readCount \in Nat /\ p.cmd.writeCount \in Nat
           /\ NextRead(p) \in Nat /\ NextRead(p) = p.first + p.cmd.readCount
           /\ WordCount(p) \in Nat
  BY DEF Packets, Commands, NextRead, WordCount

LEMMA WordsReadType ==
    ASSUME NEW p \in Packets
    PROVE  WordsRead(p) \in Seq(Nat) /\ Len(WordsRead(p)) = p.cmd.readCount
<1>1. p.first \in Nat /\ p.cmd.readCount \in Nat
  BY PacketNats
<1>2. \A i \in 1 .. p.cmd.readCount : p.first + i - 1 \in Nat
  BY <1>1
<1>. QED  BY <1>1, <1>2 DEF WordsRead

LEMMA AnswerType ==
    ASSUME NEW p \in Packets, NEW ack \in {"OK", "FAULT"}
    PROVE  Answer(p, ack) \in Answers
  BY WordsReadType, PacketNats DEF Answer, Answers, Layout

LEMMA DecodedType ==
    ASSUME NEW p \in Packets, NEW answer \in Answers
    PROVE  Decoded(p, answer) \in Seq(Nat) /\ Len(Decoded(p, answer)) = p.cmd.readCount
<1>1. p.cmd.readCount \in Nat /\ answer.words \in Seq(Nat)
  BY PacketNats DEF Answers
<1>2. \A i \in 1 .. p.cmd.readCount :
          (IF i <= Len(answer.words) THEN answer.words[i] ELSE 0) \in Nat
  BY <1>1
<1>. QED  BY <1>1, <1>2 DEF Decoded

LEMMA NewTransferType ==
    ASSUME crnt \in Packets, NEW count \in Nat \ {0}
    PROVE  NewTransfer(count) \in Transfers
  BY PacketNats DEF NewTransfer, Transfers

LEMMA AddType ==
    ASSUME NEW c \in Commands, NEW request \in Requests \cup {NoRequest}, NEW n \in Nat
    PROVE  Add(c, n, request) \in Commands
  BY DEF Add, Commands, StaysBlock

-----------------------------------------------------------------------------
(* Type correctness *)

LEMMA InitType == Init => TypeOK
<1>. SUFFICES ASSUME Init PROVE TypeOK
  OBVIOUS
<1>1. crnt \in Packets
  BY NewPacketType DEF Init
<1>2. call \in Calls
  BY DEF Init, NoCall, Calls
<1>3. /\ transfers \in Seq(Transfers) /\ transferList \in Seq(1 .. Len(transfers))
      /\ commandsToRead \in Seq(Packets) /\ responseBuf \in Seq(Nat)
      /\ toProbe \in Seq(Packets) /\ fromProbe \in Seq(Answers)
  BY DEF Init
<1>4. /\ pc = "idle" /\ outcome = "none" /\ deferred = FALSE /\ held = {}
      /\ drainLeft = 0 /\ accesses = 0 /\ naks = 0 /\ ioErrors = 0
  BY DEF Init
<1>. QED  BY <1>1, <1>2, <1>3, <1>4 DEF TypeOK, Transfers, Calls

\* The part of TypeOK about the packets, the transfers and the wire, with the
\* sets of records named.
QueuesOK ==
    /\ transfers \in Seq(Transfers)
    /\ transferList \in Seq(1 .. Len(transfers))
    /\ crnt \in Packets
    /\ commandsToRead \in Seq(Packets)
    /\ responseBuf \in Seq(Nat)
    /\ drainLeft \in Nat

WireOK == toProbe \in Seq(Packets) /\ fromProbe \in Seq(Answers)

CallerOK ==
    /\ pc \in {"idle", "pack", "packSend", "flushSend", "backlog", "get", "drain"}
    /\ call \in Calls
    /\ outcome \in {"none", "returned", "raised", "AssertionError"}
    /\ deferred \in BOOLEAN
    /\ held \subseteq 1 .. Len(transfers)

BoundsOK == accesses \in Nat /\ naks \in Nat /\ ioErrors \in Nat

LEMMA TypeParts == TypeOK <=> CallerOK /\ QueuesOK /\ WireOK /\ BoundsOK
  BY DEF TypeOK, CallerOK, QueuesOK, WireOK, BoundsOK, Transfers, Calls

LEMMA FailedType ==
    ASSUME NEW t \in Transfers
    PROVE  [t EXCEPT !.state = "failed"] \in Transfers
  BY DEF Transfers

\* Returning and aborting, the two ends several actions share.
LEMMA ReturnType ==
    ASSUME CallerOK, NEW how \in {"returned", "raised", "AssertionError"}, Return(how),
           deferred' \in BOOLEAN, held' \subseteq 1 .. Len(transfers')
    PROVE  CallerOK'
  BY DEF CallerOK, Return, NoCall, Calls

\* TypeOK is not inductive: the callback a deferred read returns is that of the
\* last transfer, so a read in progress must have made one.
ReadStarted == call.request \in ReadRequests => transfers # << >>

LEMMA ReturnFromWriteType ==
    ASSUME CallerOK, QueuesOK, ReadStarted, ReturnFromWrite, UNCHANGED transfers,
           deferred' \in BOOLEAN
    PROVE  CallerOK'
<1>1. call.request \in ReadRequests => Len(transfers) \in 1 .. Len(transfers)
  BY DEF QueuesOK, ReadStarted
<1>2. held' \subseteq 1 .. Len(transfers')
  BY <1>1 DEF ReturnFromWrite, CallerOK
<1>. QED  BY <1>2, ReturnType DEF ReturnFromWrite

LEMMA AbortType ==
    ASSUME CallerOK, QueuesOK, NEW error, NEW inFlight \in Nat, Abort(error, inFlight)
    PROVE  CallerOK' /\ QueuesOK' /\ Len(transfers') = Len(transfers)
<1>1. transfers' \in Seq(Transfers) /\ Len(transfers') = Len(transfers)
  <2>1. \A t \in DOMAIN transfers : [transfers[t] EXCEPT !.state = "failed"] \in Transfers
    BY FailedType DEF QueuesOK
  <2>2. \A t \in DOMAIN transfers : transfers[t] \in Transfers
    BY DEF QueuesOK
  <2>3. DOMAIN transfers = 1 .. Len(transfers) /\ Len(transfers) \in Nat
    BY DEF QueuesOK
  <2>. QED  BY <2>1, <2>2, <2>3 DEF Abort
<1>2. crnt' \in Packets
  BY NewPacketType, PacketNats DEF QueuesOK, Abort, InitDeferredBuffers
<1>3. drainLeft' \in Nat
  BY DEF Abort, AnswersToDrain
<1>4. CallerOK'
  BY <1>1 DEF CallerOK, Abort
<1>. QED  BY <1>1, <1>2, <1>3, <1>4 DEF QueuesOK, Abort, InitDeferredBuffers

LEMMA TypeStep ==
    ASSUME TypeOK, ReadStarted, [Next \/ InterfaceFails]_vars
    PROVE  TypeOK' /\ ReadStarted'
<1>0. CallerOK /\ QueuesOK /\ WireOK /\ BoundsOK
  BY TypeParts
<1> SUFFICES CallerOK' /\ QueuesOK' /\ WireOK' /\ BoundsOK' /\ ReadStarted'
  BY DEF TypeOK, CallerOK, QueuesOK, WireOK, BoundsOK, Transfers, Calls
<1> USE <1>0
<1>1. ASSUME NEW count \in Counts, NEW request \in WriteRequests, WriteReg(count, request)
      PROVE  CallerOK' /\ QueuesOK' /\ WireOK' /\ BoundsOK' /\ ReadStarted'
  <2>1. call' = [NoCall EXCEPT !.request = request, !.todo = count]
    BY <1>1 DEF WriteReg
  <2>2. call' \in Calls /\ call'.request \notin ReadRequests
    BY <2>1, LinkAssumption, RequestAssumption DEF NoCall, Calls, Requests
  <2>. QED  BY <1>1, <2>2 DEF WriteReg, CallerOK, QueuesOK, WireOK, BoundsOK, ReadStarted, queues, wire
<1>2. ASSUME NEW count \in Counts, NEW request \in ReadRequests, NEW now \in BOOLEAN,
             ReadReg(count, request, now)
      PROVE  CallerOK' /\ QueuesOK' /\ WireOK' /\ BoundsOK' /\ ReadStarted'
  <2>1. call' = [NoCall EXCEPT !.request = request, !.todo = count,
                               !.want = IF now THEN Len(transfers) + 1 ELSE 0]
    BY <1>2 DEF ReadReg
  <2>2. call' = [request |-> request, todo |-> count,
                 want |-> IF now THEN Len(transfers) + 1 ELSE 0, undefer |-> FALSE]
    BY <2>1 DEF NoCall
  <2>3. count \in Nat /\ Len(transfers) + 1 \in Nat /\ request \in Requests
    BY LinkAssumption DEF Requests, QueuesOK
  <2>4. call' \in Calls
    BY <2>2, <2>3 DEF Calls
  <2>5. transfers' \in Seq(Transfers) /\ Len(transfers') = Len(transfers) + 1
    BY <1>2, NewTransferType, LinkAssumption DEF ReadReg, QueuesOK
  <2>6. transferList' \in Seq(1 .. Len(transfers'))
    <3>1. 1 .. Len(transfers) \subseteq 1 .. Len(transfers')
      BY <2>5 DEF QueuesOK
    <3>2. Len(transfers) + 1 \in 1 .. Len(transfers')
      BY <2>5 DEF QueuesOK
    <3>3. transferList \in Seq(1 .. Len(transfers'))
      BY <3>1, SeqMonotonic DEF QueuesOK
    <3>. QED  BY <1>2, <3>2, <3>3 DEF ReadReg, Enqueue
  <2>7. held' \subseteq 1 .. Len(transfers')
    BY <1>2, <2>5 DEF ReadReg, CallerOK, QueuesOK
  <2>8. transfers' # << >>
    BY <2>5 DEF QueuesOK
  <2>9. /\ pc' = "pack" /\ accesses' = accesses + 1
        /\ UNCHANGED <<outcome, deferred, crnt, commandsToRead, responseBuf, drainLeft,
                       toProbe, fromProbe, naks, ioErrors>>
    BY <1>2 DEF ReadReg, wire
  <2>10. CallerOK' /\ ReadStarted'
    BY <2>4, <2>7, <2>8, <2>9 DEF CallerOK, ReadStarted
  <2>11. QueuesOK'
    BY <2>5, <2>6, <2>9 DEF QueuesOK
  <2>12. WireOK' /\ BoundsOK'
    BY <2>9 DEF WireOK, BoundsOK
  <2>. QED  BY <2>10, <2>11, <2>12
<1>3. ASSUME NEW t \in held, GetResult(t)
      PROVE  CallerOK' /\ QueuesOK' /\ WireOK' /\ BoundsOK' /\ ReadStarted'
  <2>1. call' = [request |-> NoRequest, todo |-> 0, want |-> t, undefer |-> FALSE]
    BY <1>3 DEF GetResult, NoCall
  <2>2. t \in Nat
    BY DEF CallerOK
  <2>3. call' \in Calls /\ call'.request \notin ReadRequests
    BY <2>1, <2>2, RequestAssumption DEF Calls, Requests
  <2>. QED  BY <1>3, <2>3 DEF GetResult, CallerOK, QueuesOK, WireOK, BoundsOK, ReadStarted, queues, wire, bounds
<1>4. CASE Flush
  BY <1>4 DEF Flush, CallerOK, QueuesOK, WireOK, BoundsOK, ReadStarted, queues, wire, bounds
<1>5. ASSUME NEW enable \in BOOLEAN, SetDeferredTransfer(enable)
      PROVE  CallerOK' /\ QueuesOK' /\ WireOK' /\ BoundsOK' /\ ReadStarted'
  <2>1. NoCall \in Calls /\ NoCall.request \notin ReadRequests
    BY RequestAssumption DEF NoCall, Calls, Requests
  <2>2. /\ [NoCall EXCEPT !.undefer = TRUE] \in Calls
        /\ [NoCall EXCEPT !.undefer = TRUE].request \notin ReadRequests
    BY <2>1 DEF Calls
  <2>3. call' \in Calls /\ (call'.request \in ReadRequests => call' = call)
    BY <1>5, <2>2 DEF SetDeferredTransfer, CallerOK
  <2>4. pc' \in {pc, "flushSend"} /\ deferred' \in BOOLEAN
    BY <1>5 DEF SetDeferredTransfer, CallerOK
  <2>5. UNCHANGED <<outcome, held, queues, wire, bounds>>
    BY <1>5 DEF SetDeferredTransfer
  <2>. QED  BY <2>3, <2>4, <2>5 DEF CallerOK, QueuesOK, WireOK, BoundsOK, ReadStarted, queues, wire, bounds
<1>6. CASE AddWords
  <2>1. /\ call.request \in Requests \cup {NoRequest} /\ call.todo \in Nat
        /\ crnt.cmd \in Commands /\ crnt.first \in Nat
    BY PacketNats DEF CallerOK, Calls, QueuesOK
  <2>2. Space \in Nat /\ Space <= call.todo
    BY <2>1, RequestSpaceBounds DEF Space
  <2>3. Add(crnt.cmd, Space, call.request) \in Commands
    BY <2>1, <2>2, AddType
  <2>4. crnt' \in Packets
    BY <1>6, <2>1, <2>3 DEF AddWords, Packets, QueuesOK
  <2>5. call.todo - Space \in Nat
    BY <2>1, <2>2
  <2>6. call' = [call EXCEPT !.todo = call.todo - Space]
    BY <1>6 DEF AddWords
  <2>7. call' \in Calls /\ call'.request = call.request
    BY <2>5, <2>6 DEF Calls, CallerOK
  <2>. QED  BY <1>6, <2>4, <2>7 DEF AddWords, CallerOK, QueuesOK, WireOK, BoundsOK, ReadStarted, wire, bounds
<1>7. CASE NoRoom
  BY <1>7 DEF NoRoom, CallerOK, QueuesOK, WireOK, BoundsOK, ReadStarted, queues, wire, bounds
<1>8. CASE WriteDone
  <2>1. CallerOK' /\ (call'.request \in ReadRequests => call' = call)
    <3>1. CASE UNCHANGED <<call, outcome, held>>
      BY <1>8, <3>1 DEF WriteDone, CallerOK, Return, ReturnFromWrite, queues
    <3>2. CASE ReturnFromWrite
      BY <1>8, <3>2, ReturnFromWriteType, RequestAssumption
      DEF WriteDone, queues, CallerOK, ReturnFromWrite, Return, NoCall, Requests
    <3>. QED  BY <1>8, <3>1, <3>2 DEF WriteDone
  <2>. QED  BY <1>8, <2>1 DEF WriteDone, QueuesOK, WireOK, BoundsOK, ReadStarted, queues, wire, bounds
<1>9. CASE SendPacket
  <2>1. crnt \in Packets /\ crnt' \in Packets
    BY <1>9, NewPacketType, PacketNats DEF SendPacket, QueuesOK
  <2>2. toProbe' \in Seq(Packets) /\ commandsToRead' \in Seq(Packets)
    BY <1>9, <2>1 DEF SendPacket, QueuesOK, WireOK
  <2>. QED  BY <1>9, <2>1, <2>2 DEF SendPacket, AfterSend, CallerOK, QueuesOK, WireOK, BoundsOK, ReadStarted, bounds
<1>10. CASE NothingToSend
  BY <1>10 DEF NothingToSend, AfterSend, CallerOK, QueuesOK, WireOK, BoundsOK, ReadStarted, queues, wire, bounds
<1>11. CASE ReadPacket
  <2>1. commandsToRead # << >> /\ fromProbe # << >>
    BY <1>11 DEF ReadPacket, Reading
  <2>2. Head(commandsToRead) \in Packets /\ Head(fromProbe) \in Answers
    BY <2>1 DEF QueuesOK, WireOK
  <2>3. responseBuf' \in Seq(Nat)
    BY <1>11, <2>2, DecodedType DEF ReadPacket, QueuesOK
  <2>4. commandsToRead' \in Seq(Packets) /\ fromProbe' \in Seq(Answers)
    BY <1>11, <2>1 DEF ReadPacket, QueuesOK, WireOK
  <2>. QED  BY <1>11, <2>3, <2>4 DEF ReadPacket, CallerOK, QueuesOK, WireOK, BoundsOK, ReadStarted, caller, bounds
<1>12. CASE ReadBadPacket
  <2>1. commandsToRead # << >> /\ fromProbe # << >>
    BY <1>12 DEF ReadBadPacket, Reading
  <2>2. Len(Tail(commandsToRead)) \in Nat /\ fromProbe' \in Seq(Answers)
    BY <1>12, <2>1 DEF ReadBadPacket, QueuesOK, WireOK
  <2>3. PICK error : Abort(error, Len(Tail(commandsToRead)))
    BY <1>12 DEF ReadBadPacket
  <2>4. CallerOK' /\ QueuesOK' /\ Len(transfers') = Len(transfers)
    BY <2>2, <2>3, AbortType
  <2>5. ReadStarted'
    BY <2>3, <2>4 DEF Abort, ReadStarted, QueuesOK
  <2>. QED  BY <1>12, <2>2, <2>3, <2>4, <2>5 DEF ReadBadPacket, Abort, WireOK, BoundsOK
<1>13. CASE AddResponse
  <2> DEFINE t == Head(transferList)
             n == transfers[t].count
  <2>0. transferList # << >> /\ n <= Len(responseBuf)
    BY <1>13 DEF AddResponse, DataForHead
  <2>1. t \in 1 .. Len(transfers) /\ transfers[t] \in Transfers /\ n \in Nat
    <3>1. t \in 1 .. Len(transfers)
      BY <2>0 DEF QueuesOK
    <3>2. transfers[t] \in Transfers
      BY <3>1 DEF QueuesOK
    <3>. QED  BY <3>1, <3>2 DEF Transfers
  <2>2. /\ SubSeq(responseBuf, 1, n) \in Seq(Nat)
        /\ SubSeq(responseBuf, n + 1, Len(responseBuf)) \in Seq(Nat)
    <3>1. responseBuf \in Seq(Nat) /\ Len(responseBuf) \in Nat
      BY DEF QueuesOK
    <3>2. /\ \A i \in 1 .. n : responseBuf[i] \in Nat
          /\ \A i \in n + 1 .. Len(responseBuf) : responseBuf[i] \in Nat
      BY <2>0, <2>1, <3>1
    <3>. QED  BY <2>0, <2>1, <3>1, <3>2, SubSeqProperties
  <2>3. [transfers[t] EXCEPT !.state = "done", !.result = SubSeq(responseBuf, 1, n)] \in Transfers
    BY <2>1, <2>2 DEF Transfers
  <2>4. transfers' = [transfers EXCEPT ![t] =
            [transfers[t] EXCEPT !.state = "done", !.result = SubSeq(responseBuf, 1, n)]]
    BY <1>13 DEF AddResponse
  <2>5. responseBuf' \in Seq(Nat) /\ transferList' = Tail(transferList) /\ transferList # << >>
    BY <1>13, <2>2 DEF AddResponse, DataForHead
  <2> HIDE DEF t, n
  <2>6. transfers' \in Seq(Transfers) /\ Len(transfers') = Len(transfers)
    BY <2>1, <2>3, <2>4 DEF QueuesOK
  <2>7. transferList' \in Seq(1 .. Len(transfers'))
    BY <2>5, <2>6 DEF QueuesOK
  <2>. QED  BY <1>13, <2>5, <2>6, <2>7 DEF AddResponse, CallerOK, QueuesOK, WireOK, BoundsOK, ReadStarted, caller, wire, bounds
<1>14. CASE DrainOne
  BY <1>14 DEF DrainOne, CallerOK, QueuesOK, WireOK, BoundsOK, ReadStarted, caller, bounds
<1>15. CASE Raise
  <2>1. CallerOK' /\ call'.request \notin ReadRequests
    BY <1>15, ReturnType, RequestAssumption
    DEF Raise, Return, NoCall, Requests, CallerOK, queues
  <2>. QED  BY <1>15, <2>1 DEF Raise, CallerOK, QueuesOK, WireOK, BoundsOK, ReadStarted, queues, wire, bounds
<1>16. CASE BacklogDone
  <2>1. CallerOK' /\ (call'.request \in ReadRequests => call' = call)
    <3>1. deferred' \in BOOLEAN
      BY <1>16 DEF BacklogDone, CallerOK
    <3>2. CASE pc' = "get" /\ UNCHANGED <<call, outcome, held>>
      BY <1>16, <3>1, <3>2 DEF BacklogDone, CallerOK, queues
    <3>3. CASE ReturnFromWrite
      BY <1>16, <3>1, <3>3, ReturnFromWriteType, RequestAssumption
      DEF BacklogDone, queues, ReturnFromWrite, Return, NoCall, Requests
    <3>. QED  BY <1>16, <3>2, <3>3 DEF BacklogDone
  <2>. QED  BY <1>16, <2>1 DEF BacklogDone, QueuesOK, WireOK, BoundsOK, ReadStarted,
                              queues, wire, bounds
<1>17. CASE ResultReady \/ ResultLost
  <2>1. PICK how \in {"returned", "AssertionError"} : Return(how)
    BY <1>17 DEF ResultReady, ResultLost
  <2>2. UNCHANGED <<deferred, held, transfers>>
    BY <1>17 DEF ResultReady, ResultLost, queues
  <2>3. CallerOK' /\ call'.request \notin ReadRequests
    BY <2>1, <2>2, ReturnType, RequestAssumption
    DEF Return, NoCall, Requests, CallerOK
  <2>. QED  BY <1>17, <2>3 DEF ResultReady, ResultLost, CallerOK, QueuesOK, WireOK, BoundsOK, ReadStarted, queues, wire, bounds
<1>18. CASE ResultNeedsFlush
  BY <1>18 DEF ResultNeedsFlush, CallerOK, QueuesOK, WireOK, BoundsOK, ReadStarted, queues, wire, bounds
<1>19. ASSUME NEW ack \in {"OK", "FAULT"}, ProbeExecutes(ack)
       PROVE  CallerOK' /\ QueuesOK' /\ WireOK' /\ BoundsOK' /\ ReadStarted'
  <2>1. Head(toProbe) \in Packets /\ toProbe # << >>
    BY <1>19 DEF ProbeExecutes, WireOK
  <2>2. Answer(Head(toProbe), ack) \in Answers
    BY <2>1, AnswerType
  <2>3. naks' \in Nat
    BY <1>19 DEF ProbeExecutes, BoundsOK
  <2>. QED  BY <1>19, <2>1, <2>2, <2>3 DEF ProbeExecutes, CallerOK, QueuesOK, WireOK, BoundsOK, ReadStarted, caller, queues
<1>20. CASE WriteFails \/ ReadTimesOut
  <2>1. CallerOK' /\ QueuesOK' /\ Len(transfers') = Len(transfers)
    <3>1. CASE WriteFails
      <4>1. Abort("DeviceError", Len(commandsToRead)) /\ Len(commandsToRead) \in Nat
        BY <3>1 DEF WriteFails, QueuesOK
      <4>. QED  BY <4>1, AbortType
    <3>2. CASE ReadTimesOut
      <4>1. Abort("DeviceError", Len(Tail(commandsToRead)))
        BY <3>2 DEF ReadTimesOut
      <4>2. Len(Tail(commandsToRead)) \in Nat
        BY <3>2 DEF ReadTimesOut, Reading, QueuesOK
      <4>. QED  BY <4>1, <4>2, AbortType
    <3>. QED  BY <1>20, <3>1, <3>2
  <2>2. call' = call /\ UNCHANGED <<toProbe, fromProbe, accesses, naks>> /\ ioErrors' = ioErrors + 1
    BY <1>20 DEF WriteFails, ReadTimesOut, Abort, wire
  <2>3. ReadStarted'
    BY <2>1, <2>2 DEF ReadStarted, QueuesOK
  <2>. QED  BY <2>1, <2>2, <2>3 DEF WireOK, BoundsOK
<1>21. CASE DrainTimesOut
  BY <1>21 DEF DrainTimesOut, CallerOK, QueuesOK, WireOK, BoundsOK, ReadStarted, caller, wire
<1>22. CASE UNCHANGED vars
  BY <1>22 DEF vars, CallerOK, QueuesOK, WireOK, BoundsOK, ReadStarted, caller, queues, wire, bounds
<1>. QED  BY <1>1, <1>2, <1>3, <1>4, <1>5, <1>6, <1>7, <1>8, <1>9, <1>10, <1>11, <1>12, <1>13,
            <1>14, <1>15, <1>16, <1>17, <1>18, <1>19, <1>20, <1>21, <1>22
         DEF Next, StartCall, ContinueCall, Probe, InterfaceFails

\* Every variable stays in its domain, USB failures included.
THEOREM TypeCorrect == FailingSpec => []TypeOK
<1>1. Init => TypeOK /\ ReadStarted
  BY InitType, RequestAssumption DEF Init, NoCall, ReadStarted, Requests
<1>2. TypeOK /\ ReadStarted /\ [Next \/ InterfaceFails]_vars => TypeOK' /\ ReadStarted'
  BY TypeStep
<1>. QED  BY <1>1, <1>2, PTL DEF FailingSpec

------------------------------------------------------------------------------
(* The order of what is on the wire *)

\* The next word a packet in flight, or else the current one, will bring.
NextWord == IF commandsToRead = << >> THEN crnt.first ELSE commandsToRead[1].first

First(i) == transfers[transferList[i]].first
Count(i) == transfers[transferList[i]].count

\* The words of the read in progress that no packet asks for yet.
TodoWords == IF call.request \in ReadRequests THEN call.todo ELSE 0

\* Outside an abort every packet to read has its answer, or itself, on the wire,
\* in the order the packets were written.
AnswersMatch ==
    pc # "drain" =>
        /\ drainLeft = 0
        /\ Len(commandsToRead) = InFlight
        /\ \A i \in 1 .. Len(fromProbe) :
               \E ack \in {"OK", "FAULT"} : fromProbe[i] = Answer(commandsToRead[i], ack)
        /\ \A i \in 1 .. Len(toProbe) : toProbe[i] = commandsToRead[Len(fromProbe) + i]

\* During an abort the engine is empty and knows how much is on the wire.
Drained ==
    pc = "drain" =>
        /\ commandsToRead = << >> /\ responseBuf = << >> /\ transferList = << >>
        /\ InFlight = drainLeft

\* Each packet starts at the word where the one before it ends.
PacketsFollow ==
    \A i \in 1 .. Len(commandsToRead) :
        /\ NextRead(commandsToRead[i])
               = IF i = Len(commandsToRead) THEN crnt.first ELSE commandsToRead[i + 1].first
        /\ NextRead(commandsToRead[i]) <= crnt.first

\* So does each pending transfer, and the last ends where the packets end.
TransfersFollow ==
    \A i \in 1 .. Len(transferList) :
        First(i) + Count(i)
            = IF i = Len(transferList) THEN NextRead(crnt) + TodoWords ELSE First(i + 1)

\* The response buffer holds the words just before the next one to come.
BufferFollows ==
    \A i \in 1 .. Len(responseBuf) : responseBuf[i] = NextWord - Len(responseBuf) + i - 1

\* They are the first pending transfer's; with none, no word is left to come.
HeadFollows ==
    IF transferList = << >>
    THEN /\ responseBuf = << >> /\ NextWord = NextRead(crnt)
         /\ pc # "drain" => TodoWords = 0
    ELSE First(1) = NextWord - Len(responseBuf)

TodoOnlyPacking == pc \notin {"pack", "packSend", "drain"} => call.todo = 0

Bounded == Len(commandsToRead) <= PacketCount /\ drainLeft <= PacketCount

Flight == AnswersMatch /\ Drained /\ Bounded
Order  == PacketsFollow /\ TransfersFollow /\ BufferFollows /\ HeadFollows
IInv   == TypeOK /\ ReadStarted /\ Flight /\ Order /\ TodoOnlyPacking /\ OwnResults

-----------------------------------------------------------------------------
LEMMA InitInv == Init => IInv
<1>. SUFFICES ASSUME Init PROVE IInv
  OBVIOUS
<1>1. TypeOK /\ ReadStarted
  BY InitType, RequestAssumption DEF Init, NoCall, ReadStarted, Requests
<1>2. Flight
  BY LinkAssumption DEF Init, Flight, AnswersMatch, Drained, Bounded, InFlight
<1>3. NextRead(crnt) = 1 /\ crnt.first = 1
  BY DEF Init, NewPacket, NextRead, NewCommand
<1>4. TodoWords = 0
  BY DEF Init, TodoWords, NoCall
<1>5. Order
  BY <1>3, <1>4 DEF Init, Order, PacketsFollow, TransfersFollow, BufferFollows, HeadFollows, NextWord
<1>6. TodoOnlyPacking /\ OwnResults
  BY DEF Init, TodoOnlyPacking, OwnResults, NoCall
<1>. QED  BY <1>1, <1>2, <1>5, <1>6 DEF IInv

\* Steps that touch neither the queues nor the wire.
LEMMA FlightUnchanged ==
    ASSUME Flight, UNCHANGED <<queues, wire>>, pc = "drain" <=> pc' = "drain"
    PROVE  Flight'
  BY DEF Flight, AnswersMatch, Drained, Bounded, InFlight, queues, wire
LEMMA OwnResultsUnchanged ==
    ASSUME OwnResults, UNCHANGED transfers
    PROVE  OwnResults'
  BY DEF OwnResults

\* What the type invariant says of the queues, of the numbers they are compared
\* by, and of the pending transfers.
LEMMA Sequences ==
    ASSUME TypeOK
    PROVE  /\ commandsToRead \in Seq(Packets) /\ toProbe \in Seq(Packets)
           /\ fromProbe \in Seq(Answers) /\ responseBuf \in Seq(Nat)
           /\ transferList \in Seq(1 .. Len(transfers)) /\ transfers \in Seq(Transfers)
  BY TypeParts DEF QueuesOK, WireOK

LEMMA Numbers ==
    ASSUME TypeOK
    PROVE  /\ Len(commandsToRead) \in Nat /\ Len(toProbe) \in Nat /\ Len(fromProbe) \in Nat
           /\ Len(responseBuf) \in Nat /\ Len(transferList) \in Nat /\ Len(transfers) \in Nat
           /\ crnt \in Packets /\ crnt.first \in Nat /\ NextRead(crnt) \in Nat
           /\ crnt.first <= NextRead(crnt)
           /\ NextWord \in Nat /\ drainLeft \in Nat
           /\ call \in Calls /\ call.todo \in Nat /\ TodoWords \in Nat
<1>1. CallerOK /\ QueuesOK /\ WireOK
  BY TypeParts
<1>2. /\ Len(commandsToRead) \in Nat /\ Len(toProbe) \in Nat /\ Len(fromProbe) \in Nat
      /\ Len(responseBuf) \in Nat /\ Len(transferList) \in Nat /\ Len(transfers) \in Nat
  BY Sequences
<1>3. /\ crnt \in Packets /\ crnt.first \in Nat /\ NextRead(crnt) \in Nat
      /\ crnt.first <= NextRead(crnt)
  <2>1. crnt \in Packets
    BY <1>1 DEF QueuesOK
  <2>2. /\ crnt.first \in Nat /\ crnt.cmd.readCount \in Nat
        /\ NextRead(crnt) = crnt.first + crnt.cmd.readCount
    BY <2>1, PacketNats
  <2>. QED  BY <2>1, <2>2
<1>4. NextWord \in Nat
  <2>1. commandsToRead # << >> => commandsToRead[1] \in Packets
    BY Sequences
  <2>. QED  BY <1>3, <2>1, PacketNats DEF NextWord
<1>5. call \in Calls /\ call.todo \in Nat /\ TodoWords \in Nat
  BY <1>1 DEF CallerOK, Calls, TodoWords
<1>. QED  BY <1>1, <1>2, <1>3, <1>4, <1>5 DEF QueuesOK

LEMMA Pending ==
    ASSUME TypeOK, NEW i \in 1 .. Len(transferList)
    PROVE  /\ transferList[i] \in 1 .. Len(transfers)
           /\ transferList[i] \in DOMAIN transfers
           /\ transfers[transferList[i]] \in Transfers
           /\ First(i) \in Nat /\ Count(i) \in Nat /\ Count(i) > 0
<1>1. transferList[i] \in 1 .. Len(transfers) /\ transferList[i] \in DOMAIN transfers
  BY Sequences
<1>2. transfers[transferList[i]] \in Transfers
  BY <1>1, Sequences
<1>. QED  BY <1>1, <1>2 DEF First, Count, Transfers

-----------------------------------------------------------------------------
(* The books: what the engine's own lists say of each other.  Nothing here   *)
(* depends on what the answers say, so it also holds when the interface      *)
(* fails and answers are taken for others'.                                  *)

\* An abort leaves the engine empty.
Emptied ==
    pc = "drain" => commandsToRead = << >> /\ responseBuf = << >> /\ transferList = << >>

Books == PacketsFollow /\ TransfersFollow /\ HeadFollows /\ TodoOnlyPacking /\ Emptied

LEMMA InvariantBooks == ASSUME IInv PROVE TypeOK /\ Books
  BY DEF IInv, Order, Flight, Drained, Emptied, Books

\* Steps of the caller that do not touch the queues.
LEMMA BooksUnchanged ==
    ASSUME Books, UNCHANGED queues, TodoOnlyPacking', pc' = "drain" => pc = "drain",
           pc = "drain" => pc' = "drain" \/ TodoWords' = 0,
           transferList # << >> => TodoWords' = TodoWords, TodoWords' = 0 \/ TodoWords' = TodoWords
    PROVE  Books'
<1>1. PacketsFollow' /\ Emptied'
  BY DEF Books, PacketsFollow, Emptied, queues
<1>2. TransfersFollow'
  BY DEF Books, TransfersFollow, First, Count, queues
<1>3. HeadFollows'
  BY DEF Books, HeadFollows, NextWord, First, queues
<1>. QED  BY <1>1, <1>2, <1>3 DEF Books

\* The steps that only move pc and the call.
CallerActions ==
    \/ \E count \in Counts, request \in WriteRequests : WriteReg(count, request)
    \/ \E t \in held : GetResult(t)
    \/ Flush
    \/ \E enable \in BOOLEAN : SetDeferredTransfer(enable)
    \/ NoRoom \/ WriteDone \/ NothingToSend
    \/ BacklogDone \/ ResultReady \/ ResultNeedsFlush \/ ResultLost

LEMMA CallerMoves ==
    ASSUME TodoOnlyPacking, CallerActions
    PROVE  /\ UNCHANGED <<queues, wire>> /\ pc # "drain" /\ pc' # "drain"
           /\ TodoWords' = TodoWords /\ TodoOnlyPacking'
<1>1. NoCall.todo = 0 /\ [NoCall EXCEPT !.undefer = TRUE].todo = 0
  BY DEF NoCall
<1>3. ASSUME NEW count \in Counts, NEW request \in WriteRequests, WriteReg(count, request)
      PROVE  /\ UNCHANGED <<queues, wire>> /\ pc # "drain" /\ pc' # "drain"
             /\ TodoWords' = TodoWords /\ TodoOnlyPacking'
  <2>1. call'.request \notin ReadRequests /\ call.todo = 0
    BY <1>3, RequestAssumption DEF WriteReg, At, NoCall, TodoOnlyPacking
  <2>. QED  BY <1>3, <2>1 DEF WriteReg, At, TodoWords, TodoOnlyPacking
<1>4. CASE NoRoom
  BY <1>4 DEF NoRoom, At, TodoWords, TodoOnlyPacking
<1>5. CASE WriteDone
  <2>1. call.todo = 0 /\ call'.todo = 0 /\ pc # "drain" /\ pc' # "drain"
    BY <1>1, <1>5 DEF WriteDone, At, ReturnFromWrite, Return
  <2>. QED  BY <1>5, <2>1 DEF WriteDone, TodoWords, TodoOnlyPacking
<1>6. CASE NothingToSend
  <2>1. call' = call /\ pc # "drain" /\ pc' # "drain" /\ (pc' = "backlog" => call.todo = 0)
    BY <1>6 DEF NothingToSend, Sending, At, AfterSend, TodoOnlyPacking
  <2>2. TodoOnlyPacking' /\ TodoWords' = TodoWords
    BY <1>6, <2>1 DEF NothingToSend, AfterSend, TodoWords, TodoOnlyPacking
  <2>. QED  BY <1>6, <2>1, <2>2 DEF NothingToSend
<1>7. CASE \/ \E t \in held : GetResult(t)
           \/ Flush
           \/ \E enable \in BOOLEAN : SetDeferredTransfer(enable)
           \/ BacklogDone \/ ResultReady \/ ResultNeedsFlush \/ ResultLost
  <2>1. pc \in {"idle", "get", "backlog"} /\ pc' # "drain" /\ UNCHANGED <<queues, wire>>
    BY <1>7 DEF GetResult, Flush, SetDeferredTransfer, BacklogDone, ResultReady,
                ResultNeedsFlush, ResultLost, At, Return, ReturnFromWrite
  <2>2. call.todo = 0
    BY <2>1 DEF TodoOnlyPacking
  <2>3. call'.todo = 0
    <3>1. \A t : [NoCall EXCEPT !.want = t].todo = 0
      BY DEF NoCall
    <3>. QED  BY <1>1, <1>7, <2>2, <3>1
              DEF GetResult, Flush, SetDeferredTransfer, BacklogDone, ResultReady,
                  ResultNeedsFlush, ResultLost, Return, ReturnFromWrite
  <2>. QED  BY <2>1, <2>2, <2>3 DEF TodoWords, TodoOnlyPacking
<1>. QED  BY <1>3, <1>4, <1>5, <1>6, <1>7 DEF CallerActions

LEMMA CallerActionsBooks ==
    ASSUME Books, CallerActions
    PROVE  Books'
  BY CallerMoves, BooksUnchanged DEF Books

LEMMA RaiseBooks ==
    ASSUME Books, Raise
    PROVE  Books' /\ TodoWords' = 0
<1>1. pc = "drain" /\ pc' = "idle" /\ call' = NoCall /\ UNCHANGED queues
  BY DEF Raise, At, Return
<1>2. TodoWords' = 0 /\ TodoOnlyPacking'
  BY <1>1 DEF TodoWords, TodoOnlyPacking, NoCall
<1>3. transferList = << >>
  BY <1>1 DEF Books, Emptied
<1>. QED  BY <1>1, <1>2, <1>3, BooksUnchanged

\* A read is a transfer of its own, behind the others.
LEMMA ReadRegBooks ==
    ASSUME TypeOK, Books,
           NEW count \in Counts, NEW request \in ReadRequests, NEW now \in BOOLEAN,
           ReadReg(count, request, now)
    PROVE  Books' /\ NextWord' = NextWord
<1> DEFINE k == Len(transferList) + 1
           t == NewTransfer(count)
           FirstAfter(i) == transfers'[transferList'[i]].first
           CountAfter(i) == transfers'[transferList'[i]].count
<1>1. /\ pc = "idle" /\ pc' = "pack" /\ transfers' = Append(transfers, t)
      /\ transferList' = Append(transferList, Len(transfers) + 1)
      /\ UNCHANGED <<crnt, commandsToRead, responseBuf>>
  BY DEF ReadReg, At, Enqueue
<1>2. TodoWords = 0
  BY <1>1 DEF Books, TodoOnlyPacking, TodoWords
<1>3. call'.todo = count /\ call'.request = request /\ TodoWords' = count /\ count \in Nat
  BY LinkAssumption DEF ReadReg, NoCall, TodoWords
<1>4. t.first = NextRead(crnt) /\ t.count = count
  BY DEF NewTransfer
<1>5. /\ \A j \in 1 .. Len(transfers) : transfers'[j] = transfers[j]
      /\ transfers'[Len(transfers) + 1] = t
      /\ Len(transferList') = k /\ transferList'[k] = Len(transfers) + 1
      /\ \A i \in 1 .. Len(transferList) : transferList'[i] = transferList[i]
  BY <1>1, Sequences
<1> HIDE DEF t
<1>6. /\ \A i \in 1 .. Len(transferList) : FirstAfter(i) = First(i) /\ CountAfter(i) = Count(i)
      /\ FirstAfter(k) = NextRead(crnt) /\ CountAfter(k) = count
  <2>1. \A i \in 1 .. Len(transferList) : transferList[i] \in 1 .. Len(transfers)
    BY Pending
  <2>. QED  BY <1>4, <1>5, <2>1 DEF First, Count
<1>7. NextWord' = NextWord /\ NextRead(crnt)' = NextRead(crnt)
  BY <1>1 DEF NextWord
<1>8. TransfersFollow'
  <2> SUFFICES ASSUME NEW i \in 1 .. k
               PROVE  FirstAfter(i) + CountAfter(i)
                          = IF i = k THEN NextRead(crnt) + count ELSE FirstAfter(i + 1)
    BY <1>3, <1>5, <1>7 DEF TransfersFollow, First, Count
  <2>1. CASE i = k
    BY <1>6, <2>1
  <2>2. CASE i # k
    <3>1. i \in 1 .. Len(transferList)
      BY <2>2, Numbers
    <3>2. First(i) + Count(i) = IF i = Len(transferList) THEN NextRead(crnt) ELSE First(i + 1)
      BY <1>2, <3>1, Numbers DEF Books, TransfersFollow
    <3>3. i # Len(transferList) => i + 1 \in 1 .. Len(transferList)
      BY <3>1, Numbers
    <3>. QED  BY <1>6, <2>2, <3>1, <3>2, <3>3
  <2>. QED  BY <2>1, <2>2
<1>9. HeadFollows'
  <2>1. transferList' # << >> /\ responseBuf' = responseBuf
    BY <1>1
  <2>2. FirstAfter(1) = NextWord - Len(responseBuf)
    <3>1. CASE transferList = << >>
      <4>1. k = 1 /\ Len(responseBuf) = 0 /\ NextWord = NextRead(crnt)
        BY <3>1 DEF Books, HeadFollows
      <4>. QED  BY <4>1, <1>6, Numbers
    <3>2. CASE transferList # << >>
      <4>1. 1 \in 1 .. Len(transferList)
        BY <3>2, Sequences
      <4>. QED  BY <3>2, <4>1, <1>6 DEF Books, HeadFollows
    <3>. QED  BY <3>1, <3>2
  <2>. QED  BY <2>1, <2>2, <1>7 DEF HeadFollows, First
<1>10. PacketsFollow'
  BY <1>1 DEF Books, PacketsFollow
<1>. QED  BY <1>1, <1>7, <1>8, <1>9, <1>10 DEF Books, TodoOnlyPacking, Emptied

LEMMA AddWordsBooks ==
    ASSUME TypeOK, Books, AddWords
    PROVE  Books' /\ NextWord' = NextWord /\ crnt'.first = crnt.first
<1>2. /\ pc = "pack" /\ pc' \in {"pack", "packSend"} /\ call.todo > 0
      /\ UNCHANGED <<transfers, transferList, commandsToRead, responseBuf>>
      /\ crnt' = [crnt EXCEPT !.cmd = Add(crnt.cmd, Space, call.request)]
      /\ call' = [call EXCEPT !.todo = @ - Space]
  BY DEF AddWords, At
<1>3. Space \in Nat /\ Space <= call.todo
  BY Numbers, PacketNats, RequestSpaceBounds DEF Space
<1>4. crnt'.first = crnt.first /\ crnt'.cmd = Add(crnt.cmd, Space, call.request)
  BY <1>2, Numbers DEF Packets
<1>5. call'.request = call.request /\ call'.todo = call.todo - Space
  BY <1>2, Numbers DEF Calls
<1>6. NextRead(crnt)' = IF call.request \in ReadRequests THEN NextRead(crnt) + Space
                                                        ELSE NextRead(crnt)
  <2>1. /\ crnt.first \in Nat /\ crnt.cmd.readCount \in Nat
        /\ NextRead(crnt) = crnt.first + crnt.cmd.readCount
    BY Numbers, PacketNats
  <2>2. crnt'.cmd.readCount = IF call.request \in ReadRequests THEN crnt.cmd.readCount + Space
                                                               ELSE crnt.cmd.readCount
    BY <1>4 DEF Add
  <2>3. NextRead(crnt)' = crnt'.first + crnt'.cmd.readCount
    BY DEF NextRead
  <2>. QED  BY <1>3, <1>4, <2>1, <2>2, <2>3
<1>7. NextRead(crnt)' + TodoWords' = NextRead(crnt) + TodoWords
  BY <1>3, <1>5, <1>6, Numbers DEF TodoWords
<1>8. NextWord' = NextWord
  BY <1>2, <1>4 DEF NextWord
<1>9. TransfersFollow'
  BY <1>2, <1>7 DEF Books, TransfersFollow, First, Count
<1>10. HeadFollows'
  <2>1. CASE transferList = << >>
    <3>1. call.request \notin ReadRequests
      BY <1>2, <2>1 DEF Books, HeadFollows, TodoWords
    <3>. QED  BY <1>2, <1>5, <1>6, <1>8, <2>1, <3>1 DEF Books, HeadFollows, TodoWords
  <2>2. CASE transferList # << >>
    BY <1>2, <1>8, <2>2 DEF Books, HeadFollows, First
  <2>. QED  BY <2>1, <2>2
<1>11. PacketsFollow'
  BY <1>2, <1>4 DEF Books, PacketsFollow
<1>. QED  BY <1>2, <1>4, <1>8, <1>9, <1>10, <1>11 DEF Books, TodoOnlyPacking, Emptied

\* A packet sent is the last to read, and the next begins where it ends.
LEMMA SendPacketBooks ==
    ASSUME TypeOK, Books, SendPacket
    PROVE  Books' /\ NextWord' = NextWord
<1> DEFINE k == Len(commandsToRead) + 1
<1>2. /\ pc \in {"packSend", "flushSend"} /\ pc' = AfterSend
      /\ UNCHANGED <<call, transfers, transferList, responseBuf>>
      /\ commandsToRead' = Append(commandsToRead, crnt)
      /\ crnt' = NewPacket(NextRead(crnt))
  BY DEF SendPacket, Sending, At
<1>3. crnt'.first = NextRead(crnt) /\ NextRead(crnt)' = NextRead(crnt)
  BY <1>2, Numbers DEF NewPacket, NewCommand, NextRead
<1>4. /\ Len(commandsToRead') = k /\ commandsToRead'[k] = crnt
      /\ \A i \in 1 .. Len(commandsToRead) : commandsToRead'[i] = commandsToRead[i]
  BY <1>2, Numbers, Sequences
<1>5. crnt.first <= NextRead(crnt) /\ crnt.first \in Nat /\ NextRead(crnt) \in Nat
  BY Numbers
<1>6. NextWord' = NextWord
  <2>1. commandsToRead' # << >>
    BY <1>2
  <2>2. commandsToRead # << >> => 1 \in 1 .. Len(commandsToRead)
    BY Sequences
  <2>3. commandsToRead = << >> => k = 1
    OBVIOUS
  <2>. QED  BY <1>4, <2>1, <2>2, <2>3 DEF NextWord
<1>7. PacketsFollow'
  <2> SUFFICES ASSUME NEW i \in 1 .. k
               PROVE  /\ NextRead(commandsToRead'[i])
                             = IF i = k THEN NextRead(crnt) ELSE commandsToRead'[i + 1].first
                      /\ NextRead(commandsToRead'[i]) <= NextRead(crnt)
    BY <1>3, <1>4 DEF PacketsFollow
  <2>1. CASE i = k
    BY <1>4, <1>5, <2>1
  <2>2. CASE i # k
    <3>0. Len(commandsToRead) \in Nat
      BY Numbers
    <3>1. /\ i \in 1 .. Len(commandsToRead) /\ commandsToRead'[i] = commandsToRead[i]
          /\ NextRead(commandsToRead[i]) \in Nat
      <4>1. i \in 1 .. Len(commandsToRead)
        BY <2>2, <3>0
      <4>2. commandsToRead[i] \in Packets
        BY <4>1, Sequences
      <4>. QED  BY <1>4, <4>1, <4>2, PacketNats
    <3>2. i # Len(commandsToRead) => i + 1 \in 1 .. Len(commandsToRead)
      BY <3>1, Numbers
    <3>3. /\ NextRead(commandsToRead[i])
                 = IF i = Len(commandsToRead) THEN crnt.first ELSE commandsToRead[i + 1].first
          /\ NextRead(commandsToRead[i]) <= crnt.first
      BY <3>1 DEF Books, PacketsFollow
    <3>. QED  BY <1>4, <1>5, <2>2, <3>1, <3>2, <3>3
  <2>. QED  BY <2>1, <2>2
<1>8. TransfersFollow'
  BY <1>2, <1>3 DEF Books, TransfersFollow, First, Count, TodoWords
<1>10. HeadFollows'
  BY <1>2, <1>3, <1>6 DEF Books, HeadFollows, First, TodoWords, AfterSend
<1>11. TodoOnlyPacking' /\ Emptied'
  BY <1>2 DEF Books, TodoOnlyPacking, Emptied, AfterSend
<1>. QED  BY <1>6, <1>7, <1>8, <1>10, <1>11 DEF Books

\* A packet to read leaves the next word to come where it ends.
LEMMA NextWordRead ==
    ASSUME TypeOK, Books, commandsToRead # << >>,
           commandsToRead' = Tail(commandsToRead), crnt' = crnt
    PROVE  LET p == commandsToRead[1]
           IN  /\ p \in Packets /\ p = Head(commandsToRead)
               /\ NextRead(p) = p.first + p.cmd.readCount /\ NextRead(p) <= crnt.first
               /\ p.first \in Nat /\ p.cmd.readCount \in Nat
               /\ NextWord = p.first /\ NextWord' = NextRead(p)
               /\ Len(commandsToRead) \in Nat /\ Len(commandsToRead) > 0
               /\ Len(commandsToRead') = Len(commandsToRead) - 1
               /\ \A i \in 1 .. Len(commandsToRead) - 1 : commandsToRead'[i] = commandsToRead[i + 1]
<1> DEFINE p == commandsToRead[1]
<1>1. /\ commandsToRead \in Seq(Packets) /\ Len(commandsToRead) \in Nat /\ Len(commandsToRead) > 0
      /\ commandsToRead' \in Seq(Packets) /\ Len(commandsToRead') = Len(commandsToRead) - 1
      /\ \A i \in 1 .. Len(commandsToRead) - 1 : commandsToRead'[i] = commandsToRead[i + 1]
  <2>1. commandsToRead \in Seq(Packets)
    BY Sequences
  <2>. QED  BY <2>1
<1>2. /\ p \in Packets /\ p = Head(commandsToRead)
      /\ p.cmd.readCount \in Nat /\ p.first \in Nat
      /\ NextRead(p) = p.first + p.cmd.readCount
  <2>1. 1 \in 1 .. Len(commandsToRead) /\ p = Head(commandsToRead)
    BY <1>1
  <2>2. p \in Packets
    BY <1>1, <2>1
  <2>. QED  BY <2>1, <2>2, PacketNats
<1>3. /\ NextRead(p) = IF Len(commandsToRead) = 1 THEN crnt.first ELSE commandsToRead[2].first
      /\ NextRead(p) <= crnt.first
  <2>1. 1 \in 1 .. Len(commandsToRead) /\ 1 + 1 = 2
    BY <1>1
  <2>. QED  BY <2>1 DEF Books, PacketsFollow
<1>4. NextWord' = IF commandsToRead' = << >> THEN crnt.first ELSE commandsToRead'[1].first
  BY DEF NextWord
<1>5. commandsToRead' = << >> <=> Len(commandsToRead) = 1
  <2>1. commandsToRead' \in Seq(Packets)
    BY <1>1
  <2>2. commandsToRead' = << >> <=> Len(commandsToRead') = 0
    BY <2>1, EmptySeq
  <2>. QED  BY <1>1, <2>2
<1>6. Len(commandsToRead) # 1 => commandsToRead'[1] = commandsToRead[2]
  BY <1>1
<1>. QED  BY <1>1, <1>2, <1>3, <1>4, <1>5, <1>6 DEF NextWord

\* However wrong an answer, it brings as many words as its packet asked for.
LEMMA DecodedLength ==
    ASSUME NEW p \in Packets, NEW answer \in Answers
    PROVE  Decoded(p, answer) \in Seq(Nat) /\ Len(Decoded(p, answer)) = p.cmd.readCount
<1>1. p.cmd.readCount \in Nat
  BY PacketNats
<1>2. Decoded(p, answer) \in Seq(Nat)
  BY DecodedType
<1>3. DOMAIN Decoded(p, answer) = 1 .. p.cmd.readCount
  BY DEF Decoded
<1>. QED  BY <1>1, <1>2, <1>3, LenProperties

LEMMA ReadPacketBooks ==
    ASSUME TypeOK, Books, ReadPacket
    PROVE  Books'
<1> DEFINE p == commandsToRead[1]
           n == p.cmd.readCount
           len == Len(responseBuf)
<1>2. /\ fromProbe # << >> /\ pc # "drain" /\ commandsToRead # << >>
      /\ UNCHANGED <<pc, call, transfers, transferList, crnt>>
      /\ commandsToRead' = Tail(commandsToRead)
      /\ responseBuf' = responseBuf \o Decoded(Head(commandsToRead), Head(fromProbe))
  BY DEF ReadPacket, Reading, Sending, At, caller
<1>4. /\ p \in Packets /\ p = Head(commandsToRead)
      /\ NextRead(p) = p.first + n /\ NextRead(p) <= crnt.first
      /\ n \in Nat /\ p.first \in Nat
      /\ NextWord = p.first /\ NextWord' = p.first + n
      /\ Len(commandsToRead) \in Nat /\ Len(commandsToRead) > 0
      /\ Len(commandsToRead') = Len(commandsToRead) - 1
      /\ \A i \in 1 .. Len(commandsToRead) - 1 : commandsToRead'[i] = commandsToRead[i + 1]
  BY <1>2, NextWordRead
<1>6. len \in Nat /\ n \in Nat /\ p.first \in Nat /\ crnt.first \in Nat
  BY <1>4, Numbers
<1>7. Len(responseBuf') = len + n /\ (len + n = 0 => responseBuf' = << >>)
  <2>1. responseBuf \in Seq(Nat) /\ fromProbe \in Seq(Answers)
    BY Sequences
  <2>2. Head(fromProbe) \in Answers
    BY <1>2, <2>1
  <2> DEFINE w == Decoded(p, Head(fromProbe))
  <2>3. w \in Seq(Nat) /\ Len(w) = n
    BY <1>4, <2>2, DecodedLength
  <2>4. responseBuf' = responseBuf \o w
    BY <1>2, <1>4
  <2> HIDE DEF p, n, w
  <2>5. responseBuf \o w \in Seq(Nat) /\ Len(responseBuf \o w) = Len(responseBuf) + Len(w)
    BY <2>1, <2>3, ConcatProperties
  <2>6. responseBuf' \in Seq(Nat) /\ Len(responseBuf') = len + n
    BY <2>3, <2>4, <2>5
  <2>. QED  BY <2>6, EmptySeq
<1>10. PacketsFollow'
  <2> SUFFICES ASSUME NEW i \in 1 .. Len(commandsToRead) - 1
               PROVE  /\ NextRead(commandsToRead'[i])
                             = IF i = Len(commandsToRead) - 1 THEN crnt.first
                                                              ELSE commandsToRead'[i + 1].first
                      /\ NextRead(commandsToRead'[i]) <= crnt.first
    BY <1>2, <1>4 DEF PacketsFollow
  <2>1. i + 1 \in 1 .. Len(commandsToRead) /\ commandsToRead'[i] = commandsToRead[i + 1]
    BY <1>4
  <2>2. /\ NextRead(commandsToRead[i + 1])
               = IF i + 1 = Len(commandsToRead) THEN crnt.first ELSE commandsToRead[i + 1 + 1].first
        /\ NextRead(commandsToRead[i + 1]) <= crnt.first
    BY <2>1 DEF Books, PacketsFollow
  <2>3. i # Len(commandsToRead) - 1 => commandsToRead'[i + 1] = commandsToRead[i + 1 + 1]
    BY <1>4, <2>1
  <2>. QED  BY <1>4, <2>1, <2>2, <2>3
<1>11. TransfersFollow'
  BY <1>2 DEF Books, TransfersFollow, First, Count, TodoWords
<1>13. HeadFollows'
  <2>1. CASE transferList = << >>
    <3>1. len = 0 /\ p.first = NextRead(crnt) /\ TodoWords = 0
      BY <1>2, <1>4, <2>1 DEF Books, HeadFollows
    <3>2. crnt.first <= NextRead(crnt)
      BY Numbers
    <3>3. n = 0
      BY <1>4, <1>6, <3>1, <3>2
    <3>4. responseBuf' = << >>
      BY <1>7, <3>1, <3>3
    <3>. QED  BY <1>2, <1>4, <2>1, <3>1, <3>3, <3>4 DEF HeadFollows, TodoWords
  <2>2. CASE transferList # << >>
    <3>1. First(1) = p.first - len
      BY <1>4, <2>2 DEF Books, HeadFollows
    <3>2. transfers'[transferList'[1]].first = First(1)
      BY <1>2 DEF First
    <3>3. First(1) = NextWord' - Len(responseBuf')
      <4>1. First(1) = p.first + n - (len + n)
        BY <1>4, <1>6, <3>1
      <4>2. NextWord' = p.first + n /\ Len(responseBuf') = len + n
        BY <1>4, <1>7
      <4> HIDE DEF p, n, len
      <4>. QED  BY <1>6, <4>1, <4>2
    <3>4. transferList' # << >>
      BY <1>2, <2>2
    <3>. QED  BY <3>2, <3>3, <3>4 DEF HeadFollows, First
  <2>. QED  BY <2>1, <2>2
<1>14. TodoOnlyPacking' /\ Emptied'
  BY <1>2 DEF Books, TodoOnlyPacking, Emptied
<1>. QED  BY <1>10, <1>11, <1>13, <1>14 DEF Books

\* An abort begins new books.
LEMMA AbortBooks ==
    ASSUME TypeOK, NEW error, NEW inFlight, Abort(error, inFlight)
    PROVE  Books' /\ responseBuf' = << >>
<1>4. /\ pc' = "drain" /\ commandsToRead' = << >> /\ responseBuf' = << >> /\ transferList' = << >>
      /\ crnt' = NewPacket(NextRead(crnt))
  BY DEF Abort, InitDeferredBuffers
<1>5. NextRead(crnt)' = crnt'.first
  <2>1. crnt'.first = NextRead(crnt) /\ NextRead(crnt) \in Nat /\ crnt'.cmd.readCount = 0
    BY <1>4, Numbers DEF NewPacket, NewCommand
  <2>. QED  BY <2>1 DEF NextRead
<1>. QED  BY <1>4, <1>5
          DEF Books, PacketsFollow, TransfersFollow, HeadFollows, TodoOnlyPacking, Emptied, NextWord

\* Nothing that a transfer follows changes.
LEMMA QuietBooks ==
    ASSUME Books, UNCHANGED <<pc, call, transfers, transferList, crnt, commandsToRead, responseBuf>>
    PROVE  Books'
<1>1. TodoWords' = TodoWords /\ NextWord' = NextWord
  BY DEF TodoWords, NextWord
<1>2. PacketsFollow' /\ TransfersFollow'
  BY <1>1 DEF Books, PacketsFollow, TransfersFollow, First, Count
<1>3. HeadFollows'
  BY <1>1 DEF Books, HeadFollows, First
<1>. QED  BY <1>2, <1>3 DEF Books, TodoOnlyPacking, Emptied

\* The first transfer takes its words and the next one moves up.
LEMMA AddResponseBooks ==
    ASSUME TypeOK, Books, AddResponse
    PROVE  Books'
<1> DEFINE t == Head(transferList)
           n == transfers[t].count
           len == Len(responseBuf)
           data == SubSeq(responseBuf, 1, n)
           FirstAfter(i) == transfers'[transferList'[i]].first
           CountAfter(i) == transfers'[transferList'[i]].count
<1>2. /\ transferList # << >> /\ responseBuf # << >> /\ n <= len
      /\ transfers' = [transfers EXCEPT ![t].state = "done", ![t].result = data]
      /\ responseBuf' = SubSeq(responseBuf, n + 1, len)
      /\ transferList' = Tail(transferList)
      /\ UNCHANGED <<pc, call, crnt, commandsToRead>>
  BY DEF AddResponse, DataForHead, caller, wire
<1>3. /\ Len(transferList) \in Nat /\ Len(transferList) > 0
      /\ t = transferList[1]
      /\ Len(transferList') = Len(transferList) - 1
      /\ \A i \in 1 .. Len(transferList) - 1 : transferList'[i] = transferList[i + 1]
      /\ transferList' = << >> => Len(transferList) = 1
  <2>1. transferList \in Seq(1 .. Len(transfers))
    BY Sequences
  <2>2. /\ Len(transferList) \in Nat /\ Len(transferList) > 0
        /\ Len(transferList') = Len(transferList) - 1
        /\ \A i \in 1 .. Len(transferList) - 1 : transferList'[i] = transferList[i + 1]
        /\ t = transferList[1]
    BY <1>2, <2>1
  <2>3. transferList' = << >> => Len(transferList) = 1
    BY <2>2, EmptySeq
  <2>. QED  BY <2>2, <2>3
<1>4. /\ t \in DOMAIN transfers /\ n = Count(1) /\ n \in Nat /\ n > 0 /\ First(1) \in Nat
  <2>1. 1 \in 1 .. Len(transferList)
    BY <1>3
  <2>. QED  BY <1>3, <2>1, Pending DEF First, Count
<1>5. \A j \in DOMAIN transfers :
          transfers'[j].first = transfers[j].first /\ transfers'[j].count = transfers[j].count
  <2>1. \A j \in DOMAIN transfers : transfers[j] \in Transfers
    <3>1. transfers \in Seq(Transfers)
      BY Sequences
    <3>. QED  BY <3>1
  <2>2. transfers' = [transfers EXCEPT ![t] = [transfers[t] EXCEPT !.state = "done",
                                                                   !.result = data]]
    BY <1>2
  <2> HIDE DEF data, t, n
  <2>. QED  BY <1>4, <2>1, <2>2 DEF Transfers
<1>6. /\ len \in Nat /\ responseBuf \in Seq(Nat)
      /\ NextWord \in Nat /\ TodoWords \in Nat /\ NextRead(crnt) \in Nat
  BY Numbers, Sequences
<1>7. First(1) = NextWord - len
  BY <1>2 DEF Books, HeadFollows
<1>8. Len(responseBuf') = len - n /\ responseBuf' \in Seq(Nat)
  <2>1. \A i \in n + 1 .. len : responseBuf[i] \in Nat
    BY <1>4, <1>6
  <2> HIDE DEF n, len, t
  <2>2. n + 1 \in Int /\ len \in Int
    BY <1>4, <1>6
  <2>3. /\ SubSeq(responseBuf, n + 1, len) \in Seq(Nat)
        /\ Len(SubSeq(responseBuf, n + 1, len)) = IF n + 1 <= len THEN len - (n + 1) + 1 ELSE 0
    BY <2>1, <2>2, SubSeqProperties
  <2>4. (IF n + 1 <= len THEN len - (n + 1) + 1 ELSE 0) = len - n
    BY <1>2, <1>4, <1>6
  <2>5. responseBuf' = SubSeq(responseBuf, n + 1, len)
    BY <1>2
  <2>. QED  BY <2>3, <2>4, <2>5
<1>10. NextWord' = NextWord /\ TodoWords' = TodoWords /\ NextRead(crnt)' = NextRead(crnt)
  BY <1>2 DEF NextWord, TodoWords
<1>12. \A i \in 1 .. Len(transferList) - 1 :
           FirstAfter(i) = First(i + 1) /\ CountAfter(i) = Count(i + 1)
  <2>1. \A i \in 1 .. Len(transferList) - 1 :
            transferList'[i] = transferList[i + 1] /\ transferList[i + 1] \in DOMAIN transfers
    BY <1>3, Pending
  <2>. QED  BY <1>5, <2>1 DEF First, Count
<1>13. First(1) + n = IF Len(transferList) = 1 THEN NextRead(crnt) + TodoWords ELSE First(2)
  BY <1>3, <1>4 DEF Books, TransfersFollow
<1>14. TransfersFollow'
  <2> SUFFICES ASSUME NEW i \in 1 .. Len(transferList) - 1
               PROVE  FirstAfter(i) + CountAfter(i)
                          = IF i = Len(transferList) - 1 THEN NextRead(crnt) + TodoWords
                                                         ELSE FirstAfter(i + 1)
    BY <1>3, <1>10 DEF TransfersFollow, First, Count
  <2>1. i + 1 \in 1 .. Len(transferList) /\ (i + 1 = Len(transferList) <=> i = Len(transferList) - 1)
    BY <1>3
  <2>2. First(i + 1) + Count(i + 1)
            = IF i + 1 = Len(transferList) THEN NextRead(crnt) + TodoWords ELSE First(i + 1 + 1)
    BY <2>1 DEF Books, TransfersFollow
  <2>3. i # Len(transferList) - 1 => FirstAfter(i + 1) = First(i + 1 + 1)
    BY <1>3, <1>12, <2>1
  <2> HIDE DEF FirstAfter, CountAfter
  <2>. QED  BY <1>12, <2>1, <2>2, <2>3
<1>15. HeadFollows'
  <2>1. CASE transferList' = << >>
    <3>1. NextWord - len + n = NextRead(crnt) + TodoWords
      BY <1>3, <1>7, <1>13, <2>1
    <3>2. NextWord <= NextRead(crnt)
      <4>1. crnt.first <= NextRead(crnt) /\ crnt.first \in Nat
        BY Numbers
      <4>2. CASE commandsToRead = << >>
        BY <4>1, <4>2 DEF NextWord
      <4>3. CASE commandsToRead # << >>
        <5>1. 1 \in 1 .. Len(commandsToRead) /\ commandsToRead[1] \in Packets
          <6>1. commandsToRead \in Seq(Packets)
            BY Sequences
          <6>. QED  BY <4>3, <6>1
        <5>2. NextRead(commandsToRead[1]) <= crnt.first
          BY <5>1 DEF Books, PacketsFollow
        <5>3. commandsToRead[1].first <= NextRead(commandsToRead[1])
              /\ commandsToRead[1].first \in Nat /\ NextRead(commandsToRead[1]) \in Nat
          BY <5>1, PacketNats
        <5>. QED  BY <1>6, <4>1, <4>3, <5>2, <5>3 DEF NextWord
      <4>. QED  BY <4>2, <4>3
    <3> HIDE DEF n, len
    <3>3. len = n /\ TodoWords = 0 /\ NextWord = NextRead(crnt)
      BY <1>2, <1>4, <1>6, <3>1, <3>2
    <3>4. responseBuf' = << >>
      BY <1>4, <1>8, <3>3, EmptySeq
    <3>. QED  BY <1>10, <2>1, <3>3, <3>4 DEF HeadFollows
  <2>2. CASE transferList' # << >>
    <3>1. Len(transferList) # 1
      <4>1. transferList' \in Seq(1 .. Len(transfers))
        BY <1>2, Sequences
      <4>. QED  BY <1>3, <2>2, <4>1, EmptySeq
    <3>2. FirstAfter(1) = First(2)
      BY <1>3, <1>12, <3>1
    <3>3. First(2) = NextWord - Len(responseBuf')
      BY <1>4, <1>6, <1>7, <1>8, <1>13, <3>1
    <3>. QED  BY <1>10, <2>2, <3>2, <3>3 DEF HeadFollows, First
  <2>. QED  BY <2>1, <2>2
<1>17. PacketsFollow' /\ TodoOnlyPacking' /\ Emptied'
  BY <1>2 DEF Books, PacketsFollow, TodoOnlyPacking, Emptied
<1>. QED  BY <1>14, <1>15, <1>17 DEF Books

\* Every step keeps the books, those of a failing interface included.
LEMMA BooksStep ==
    ASSUME TypeOK, Books, [Next \/ InterfaceFails]_vars
    PROVE  Books'
<1>1. CASE CallerActions
  BY <1>1, CallerActionsBooks
<1>2. CASE \E count \in Counts, request \in ReadRequests, now \in BOOLEAN :
               ReadReg(count, request, now)
  BY <1>2, ReadRegBooks
<1>3. CASE AddWords
  BY <1>3, AddWordsBooks
<1>4. CASE SendPacket
  BY <1>4, SendPacketBooks
<1>5. CASE ReadPacket
  BY <1>5, ReadPacketBooks
<1>6. CASE ReadBadPacket \/ WriteFails \/ ReadTimesOut
  BY <1>6, AbortBooks DEF ReadBadPacket, WriteFails, ReadTimesOut
<1>7. CASE AddResponse
  BY <1>7, AddResponseBooks
<1>8. CASE DrainOne \/ DrainTimesOut \/ Probe
  BY <1>8, QuietBooks DEF DrainOne, DrainTimesOut, Probe, ProbeExecutes, caller, queues
<1>9. CASE Raise
  BY <1>9, RaiseBooks
<1>10. CASE UNCHANGED vars
  BY <1>10, QuietBooks DEF vars, caller, queues
<1>. QED  BY <1>1, <1>2, <1>3, <1>4, <1>5, <1>6, <1>7, <1>8, <1>9, <1>10
          DEF Next, StartCall, ContinueCall, CallerActions, InterfaceFails

-----------------------------------------------------------------------------
(* Whose answers are on the wire: one lemma for each step that matters to it *)

\* Steps of the caller that touch neither the queues nor the wire.
LEMMA CallerActionsKeep ==
    ASSUME IInv, CallerActions
    PROVE  Flight' /\ BufferFollows' /\ OwnResults'
<1>1. /\ Flight /\ Order /\ OwnResults /\ UNCHANGED <<queues, wire>>
      /\ pc # "drain" /\ pc' # "drain"
  BY CallerMoves DEF IInv
<1>2. Flight'
  BY <1>1, FlightUnchanged
<1>3. BufferFollows'
  BY <1>1 DEF Order, BufferFollows, NextWord, queues
<1>4. OwnResults'
  BY <1>1, OwnResultsUnchanged DEF queues
<1>. QED  BY <1>2, <1>3, <1>4

LEMMA RaiseKeeps ==
    ASSUME IInv, Raise
    PROVE  Flight' /\ BufferFollows' /\ OwnResults'
<1>1. pc = "drain" /\ pc' = "idle" /\ call' = NoCall /\ drainLeft = 0 /\ UNCHANGED <<queues, wire>>
  BY DEF Raise, At, Return
<1>2. commandsToRead = << >> /\ transferList = << >> /\ InFlight = 0
  BY <1>1 DEF IInv, Flight, Drained
<1>3. Len(toProbe) = 0 /\ Len(fromProbe) = 0
  BY <1>2, Numbers DEF IInv, InFlight
<1>4. Flight'
  BY <1>1, <1>2, <1>3 DEF Flight, AnswersMatch, Drained, Bounded, InFlight, queues, wire, IInv
<1>7. OwnResults'
  BY <1>1, OwnResultsUnchanged DEF IInv, queues
<1>8. BufferFollows'
  BY <1>1 DEF IInv, Order, BufferFollows, NextWord, queues
<1>. QED  BY <1>4, <1>7, <1>8

LEMMA ReadRegKeeps ==
    ASSUME IInv, NEW count \in Counts, NEW request \in ReadRequests, NEW now \in BOOLEAN,
           ReadReg(count, request, now)
    PROVE  Flight' /\ BufferFollows' /\ OwnResults'
<1> DEFINE t == NewTransfer(count)
<1>1. /\ pc = "idle" /\ pc' = "pack" /\ transfers' = Append(transfers, t)
      /\ UNCHANGED <<crnt, commandsToRead, responseBuf, drainLeft, wire>>
  BY DEF ReadReg, At
<1>2. TypeOK /\ Flight /\ Order /\ OwnResults /\ NextWord' = NextWord
  BY InvariantBooks, ReadRegBooks DEF IInv
<1>3. t.state = "pending"
  BY DEF NewTransfer
<1>4. /\ \A j \in 1 .. Len(transfers) : transfers'[j] = transfers[j]
      /\ transfers'[Len(transfers) + 1] = t
      /\ Len(transfers) \in Nat /\ DOMAIN transfers = 1 .. Len(transfers)
      /\ DOMAIN transfers' = 1 .. Len(transfers) + 1
  BY <1>1, <1>2, Sequences
<1> HIDE DEF t
<1>5. BufferFollows'
  BY <1>1, <1>2 DEF Order, BufferFollows
<1>6. Flight'
  BY <1>1, <1>2 DEF Flight, AnswersMatch, Drained, Bounded, InFlight, wire
<1>7. OwnResults'
  <2> SUFFICES ASSUME NEW j \in 1 .. Len(transfers) + 1, transfers'[j].state = "done"
               PROVE  transfers'[j].result = OwnWords(transfers'[j])
    BY <1>4 DEF OwnResults
  <2>1. j \in DOMAIN transfers /\ transfers'[j] = transfers[j]
    BY <1>3, <1>4
  <2>. QED  BY <1>2, <2>1 DEF OwnResults
<1>. QED  BY <1>5, <1>6, <1>7

LEMMA AddWordsKeeps ==
    ASSUME IInv, AddWords
    PROVE  Flight' /\ BufferFollows' /\ OwnResults'
<1>1. TypeOK /\ Flight /\ Order /\ OwnResults /\ NextWord' = NextWord
  BY InvariantBooks, AddWordsBooks DEF IInv
<1>2. /\ pc = "pack" /\ pc' \in {"pack", "packSend"}
      /\ UNCHANGED <<transfers, transferList, commandsToRead, responseBuf, drainLeft, wire>>
  BY DEF AddWords, At
<1>3. BufferFollows'
  BY <1>1, <1>2 DEF Order, BufferFollows
<1>4. Flight'
  BY <1>1, <1>2 DEF Flight, AnswersMatch, Drained, Bounded, InFlight, wire
<1>5. OwnResults'
  BY <1>1, <1>2, OwnResultsUnchanged
<1>. QED  BY <1>3, <1>4, <1>5

LEMMA SendPacketKeeps ==
    ASSUME IInv, SendPacket
    PROVE  Flight' /\ BufferFollows' /\ OwnResults'
<1> DEFINE k == Len(commandsToRead) + 1
<1>1. TypeOK /\ Flight /\ Order /\ OwnResults /\ NextWord' = NextWord
  BY InvariantBooks, SendPacketBooks DEF IInv
<1>2. /\ pc \in {"packSend", "flushSend"} /\ pc' = AfterSend
      /\ UNCHANGED <<call, transfers, transferList, responseBuf, drainLeft, fromProbe>>
      /\ toProbe' = Append(toProbe, crnt) /\ commandsToRead' = Append(commandsToRead, crnt)
      /\ crnt' = NewPacket(NextRead(crnt)) /\ ~PipelineFull
  BY DEF SendPacket, Sending, At
<1>4. /\ Len(commandsToRead') = k /\ commandsToRead'[k] = crnt
      /\ \A i \in 1 .. Len(commandsToRead) : commandsToRead'[i] = commandsToRead[i]
  BY <1>1, <1>2, Numbers, Sequences
<1>9. BufferFollows'
  BY <1>1, <1>2 DEF Order, BufferFollows
<1>11. Flight'
  <2>1. /\ pc # "drain" /\ drainLeft = 0 /\ Len(commandsToRead) = Len(toProbe) + Len(fromProbe)
        /\ \A i \in 1 .. Len(fromProbe) :
               \E ack \in {"OK", "FAULT"} : fromProbe[i] = Answer(commandsToRead[i], ack)
        /\ \A i \in 1 .. Len(toProbe) : toProbe[i] = commandsToRead[Len(fromProbe) + i]
    BY <1>1, <1>2 DEF Flight, AnswersMatch, InFlight
  <2>2. Len(toProbe') = Len(toProbe) + 1 /\ toProbe'[Len(toProbe) + 1] = crnt
        /\ \A i \in 1 .. Len(toProbe) : toProbe'[i] = toProbe[i]
    BY <1>1, <1>2, Numbers, Sequences
  <2>3. Len(commandsToRead') = Len(toProbe') + Len(fromProbe')
    BY <1>1, <1>2, <1>4, <2>1, <2>2, Numbers
  <2>4. \A i \in 1 .. Len(toProbe') : toProbe'[i] = commandsToRead'[Len(fromProbe') + i]
    <3> SUFFICES ASSUME NEW i \in 1 .. Len(toProbe) + 1
                 PROVE  toProbe'[i] = commandsToRead'[Len(fromProbe) + i]
      BY <1>2, <2>2
    <3>1. Len(toProbe) \in Nat /\ Len(fromProbe) \in Nat
      BY <1>1, Numbers
    <3>2. CASE i = Len(toProbe) + 1
      BY <1>4, <2>1, <2>2, <3>1, <3>2
    <3>3. CASE i # Len(toProbe) + 1
      <4>1. i \in 1 .. Len(toProbe) /\ Len(fromProbe) + i \in 1 .. Len(commandsToRead)
        BY <2>1, <3>1, <3>3
      <4>. QED  BY <1>4, <2>1, <2>2, <4>1
    <3>. QED  BY <3>2, <3>3
  <2>5. \A i \in 1 .. Len(fromProbe') :
            \E ack \in {"OK", "FAULT"} : fromProbe'[i] = Answer(commandsToRead'[i], ack)
    <3> SUFFICES ASSUME NEW i \in 1 .. Len(fromProbe)
                 PROVE  \E ack \in {"OK", "FAULT"} : fromProbe[i] = Answer(commandsToRead'[i], ack)
      BY <1>2
    <3>1. i \in 1 .. Len(commandsToRead)
      BY <1>1, <2>1, Numbers
    <3>. QED  BY <1>4, <2>1, <3>1
  <2>6. k <= PacketCount /\ drainLeft' <= PacketCount
    BY <1>1, <1>2, Numbers, LinkAssumption DEF PipelineFull, Flight, Bounded
  <2>7. pc' # "drain" /\ drainLeft' = 0
    BY <1>2, <2>1 DEF AfterSend
  <2>. QED  BY <1>4, <2>3, <2>4, <2>5, <2>6, <2>7 DEF Flight, AnswersMatch, Drained, Bounded, InFlight
<1>12. OwnResults'
  BY <1>1, <1>2, OwnResultsUnchanged
<1>. QED  BY <1>9, <1>11, <1>12

\* An answer that decodes holds the words its packet asked for.
LEMMA GoodAnswer ==
    ASSUME NEW p \in Packets, NEW ack \in {"OK", "FAULT"},
           DecodeError(p, Answer(p, ack)) = "none"
    PROVE  Decoded(p, Answer(p, ack)) = WordsRead(p)
<1>1. ack = "OK"
  BY DEF DecodeError, Answer
<1>2. Answer(p, ack).words = WordsRead(p)
  BY <1>1 DEF Answer
<1>3. WordsRead(p) \in Seq(Nat) /\ Len(WordsRead(p)) = p.cmd.readCount
  BY WordsReadType
<1>4. p.cmd.readCount \in Nat
  BY PacketNats
<1>. QED  BY <1>2, <1>3, <1>4 DEF Decoded

\* A bad answer of the expected kind is a transfer error.
LEMMA BadAnswer ==
    ASSUME NEW p \in Packets, NEW ack \in {"OK", "FAULT"}
    PROVE  DecodeError(p, Answer(p, ack)) \in {"none", "TransferError"}
  BY DEF DecodeError, Answer

\* Outside an abort the next answer to read is that of the next packet to read.
LEMMA NextAnswer ==
    ASSUME IInv, Reading, fromProbe # << >>
    PROVE  /\ pc # "drain" /\ commandsToRead # << >>
           /\ Head(commandsToRead) = commandsToRead[1] /\ commandsToRead[1] \in Packets
           /\ \E ack \in {"OK", "FAULT"} : Head(fromProbe) = Answer(commandsToRead[1], ack)
<1>1. pc # "drain" /\ commandsToRead # << >>
  BY DEF Reading, Sending, At
<1>2. commandsToRead \in Seq(Packets) /\ fromProbe \in Seq(Answers)
  BY Sequences DEF IInv
<1>3. 1 \in 1 .. Len(commandsToRead) /\ 1 \in 1 .. Len(fromProbe)
  BY <1>1, <1>2
<1>4. \E ack \in {"OK", "FAULT"} : fromProbe[1] = Answer(commandsToRead[1], ack)
  BY <1>1, <1>3 DEF IInv, Flight, AnswersMatch
<1>. QED  BY <1>1, <1>2, <1>3, <1>4

LEMMA ReadPacketKeeps ==
    ASSUME IInv, ReadPacket
    PROVE  Flight' /\ BufferFollows' /\ OwnResults'
<1> DEFINE p == commandsToRead[1]
           n == p.cmd.readCount
           len == Len(responseBuf)
<1>1. TypeOK /\ Flight /\ Order /\ OwnResults
  BY DEF IInv
<1>2. /\ Reading /\ fromProbe # << >> /\ pc # "drain" /\ commandsToRead # << >>
      /\ p \in Packets /\ Head(commandsToRead) = p
      /\ UNCHANGED <<pc, call, transfers, transferList, crnt, drainLeft, toProbe>>
      /\ commandsToRead' = Tail(commandsToRead) /\ fromProbe' = Tail(fromProbe)
  BY NextAnswer DEF ReadPacket, caller
<1>3. responseBuf' = responseBuf \o WordsRead(p)
  <2>1. PICK ack \in {"OK", "FAULT"} : Head(fromProbe) = Answer(p, ack)
    BY <1>2, NextAnswer
  <2>. QED  BY <1>2, <2>1, GoodAnswer DEF ReadPacket
<1>4. /\ Len(commandsToRead) \in Nat /\ Len(commandsToRead) > 0
      /\ Len(commandsToRead') = Len(commandsToRead) - 1
      /\ \A i \in 1 .. Len(commandsToRead) - 1 : commandsToRead'[i] = commandsToRead[i + 1]
      /\ NextRead(p) = p.first + n /\ n \in Nat /\ p.first \in Nat
      /\ NextWord = p.first /\ NextWord' = p.first + n
  BY <1>1, <1>2, InvariantBooks, NextWordRead
<1>5. /\ fromProbe \in Seq(Answers) /\ Len(fromProbe) \in Nat /\ Len(fromProbe) > 0
      /\ Len(fromProbe') = Len(fromProbe) - 1
      /\ \A i \in 1 .. Len(fromProbe) - 1 : fromProbe'[i] = fromProbe[i + 1]
  <2>1. fromProbe \in Seq(Answers)
    BY <1>1, Sequences
  <2>. QED  BY <1>2, <2>1
<1>6. len \in Nat /\ n \in Nat /\ p.first \in Nat
  BY <1>1, <1>4, Numbers
<1>7. /\ Len(responseBuf') = len + n
      /\ \A i \in 1 .. len : responseBuf'[i] = responseBuf[i]
      /\ \A i \in len + 1 .. len + n : responseBuf'[i] = p.first + (i - len) - 1
  <2>1. responseBuf \in Seq(Nat)
    BY <1>1, Sequences
  <2>2. /\ WordsRead(p) \in Seq(Nat) /\ Len(WordsRead(p)) = n
        /\ \A i \in 1 .. n : WordsRead(p)[i] = p.first + i - 1
    BY <1>2, WordsReadType DEF WordsRead
  <2> DEFINE w == WordsRead(p)
  <2>3. w \in Seq(Nat) /\ Len(w) = n /\ \A i \in 1 .. n : w[i] = p.first + i - 1
    BY <2>2
  <2>4. responseBuf' = responseBuf \o w
    BY <1>3
  <2> HIDE DEF p, n, w
  <2>5. /\ Len(responseBuf') = len + n
        /\ \A i \in 1 .. len : responseBuf'[i] = responseBuf[i]
        /\ \A i \in len + 1 .. len + n : responseBuf'[i] = w[i - len]
    BY <1>6, <2>1, <2>3, <2>4
  <2>6. \A i \in len + 1 .. len + n : i - len \in 1 .. n
    BY <1>6
  <2>. QED  BY <2>3, <2>5, <2>6
<1>12. BufferFollows'
  <2> SUFFICES ASSUME NEW i \in 1 .. len + n
               PROVE  responseBuf'[i] = p.first + n - (len + n) + i - 1
    BY <1>4, <1>6, <1>7 DEF BufferFollows
  <2>1. CASE i <= len
    <3>1. i \in 1 .. len
      BY <1>6, <2>1
    <3>2. responseBuf[i] = p.first - len + i - 1
      BY <1>1, <1>4, <3>1 DEF Order, BufferFollows
    <3> HIDE DEF p, n, len
    <3>. QED  BY <1>6, <1>7, <3>1, <3>2
  <2>2. CASE i > len
    <3> HIDE DEF p, n, len
    <3>. QED  BY <1>6, <1>7, <2>2
  <2>. QED  BY <1>6, <2>1, <2>2
<1>14. Flight'
  <2>1. /\ drainLeft = 0 /\ Len(commandsToRead) = Len(toProbe) + Len(fromProbe)
        /\ \A i \in 1 .. Len(fromProbe) :
               \E ack \in {"OK", "FAULT"} : fromProbe[i] = Answer(commandsToRead[i], ack)
        /\ \A i \in 1 .. Len(toProbe) : toProbe[i] = commandsToRead[Len(fromProbe) + i]
    BY <1>1, <1>2 DEF Flight, AnswersMatch, InFlight
  <2>2. Len(toProbe) \in Nat
    BY <1>1, Numbers
  <2>3. Len(commandsToRead') = Len(toProbe') + Len(fromProbe')
    BY <1>2, <1>4, <1>5, <2>1, <2>2
  <2>4. ASSUME NEW i \in 1 .. Len(fromProbe')
        PROVE  \E ack \in {"OK", "FAULT"} : fromProbe'[i] = Answer(commandsToRead'[i], ack)
    <3>1. /\ i + 1 \in 1 .. Len(fromProbe) /\ i \in 1 .. Len(fromProbe) - 1
          /\ i \in 1 .. Len(commandsToRead) - 1
      BY <1>5, <2>1, <2>2
    <3>. QED  BY <1>4, <1>5, <2>1, <3>1
  <2>5. ASSUME NEW i \in 1 .. Len(toProbe')
        PROVE  toProbe'[i] = commandsToRead'[Len(fromProbe') + i]
    <3>1. /\ i \in 1 .. Len(toProbe) /\ Len(fromProbe) - 1 + i \in 1 .. Len(commandsToRead) - 1
          /\ Len(fromProbe) - 1 + i + 1 = Len(fromProbe) + i
      BY <1>2, <1>5, <2>1, <2>2
    <3>. QED  BY <1>2, <1>4, <1>5, <2>1, <3>1
  <2>6. Bounded'
    BY <1>1, <1>2, <1>4, LinkAssumption DEF Flight, Bounded
  <2>. QED  BY <1>2, <2>1, <2>3, <2>4, <2>5, <2>6 DEF Flight, AnswersMatch, Drained, InFlight
<1>15. OwnResults'
  BY <1>1, <1>2, OwnResultsUnchanged
<1>. QED  BY <1>12, <1>14, <1>15

LEMMA ReadBadPacketKeeps ==
    ASSUME IInv, ReadBadPacket
    PROVE  Flight' /\ BufferFollows' /\ OwnResults'
<1> DEFINE left == Len(Tail(commandsToRead))
<1>1. TypeOK /\ Flight /\ Order /\ OwnResults /\ ReadStarted
  BY DEF IInv
<1>2. /\ Reading /\ fromProbe # << >> /\ fromProbe' = Tail(fromProbe) /\ toProbe' = toProbe
      /\ DecodeError(Head(commandsToRead), Head(fromProbe)) # "none"
      /\ Abort(DecodeError(Head(commandsToRead), Head(fromProbe)), left)
  BY DEF ReadBadPacket
<1>3. /\ pc # "drain" /\ commandsToRead # << >>
      /\ DecodeError(Head(commandsToRead), Head(fromProbe)) = "TransferError"
  <2>1. PICK ack \in {"OK", "FAULT"} : Head(fromProbe) = Answer(commandsToRead[1], ack)
    BY <1>2, NextAnswer
  <2>2. DecodeError(commandsToRead[1], Answer(commandsToRead[1], ack)) \in {"none", "TransferError"}
    BY <1>2, NextAnswer, BadAnswer
  <2>. QED  BY <1>2, <2>1, <2>2, NextAnswer
<1>4. /\ pc' = "drain" /\ commandsToRead' = << >> /\ responseBuf' = << >> /\ transferList' = << >>
      /\ crnt' = NewPacket(NextRead(crnt)) /\ drainLeft' = left
  BY <1>2, <1>3 DEF Abort, InitDeferredBuffers, AnswersToDrain
<1>5. Len(commandsToRead) \in Nat /\ Len(commandsToRead) > 0 /\ left = Len(commandsToRead) - 1
  <2>1. commandsToRead \in Seq(Packets)
    BY <1>1, Sequences
  <2>. QED  BY <1>3, <2>1
<1>6. Len(fromProbe) \in Nat /\ Len(fromProbe') = Len(fromProbe) - 1 /\ Len(toProbe) \in Nat
  <2>1. fromProbe \in Seq(Answers) /\ Len(toProbe) \in Nat
    BY <1>1, Numbers, Sequences
  <2>. QED  BY <1>2, <2>1
<1>7. Flight'
  <2>1. Len(commandsToRead) = Len(toProbe) + Len(fromProbe) /\ Len(commandsToRead) <= PacketCount
    BY <1>1, <1>3 DEF Flight, AnswersMatch, Bounded, InFlight
  <2>2. Len(toProbe') + Len(fromProbe') = left /\ left <= PacketCount
    BY <1>2, <1>5, <1>6, <2>1, LinkAssumption
  <2>. QED  BY <1>4, <2>2, LinkAssumption DEF Flight, AnswersMatch, Drained, Bounded, InFlight
<1>9. OwnResults'
  <2>1. Len(transfers) \in Nat /\ DOMAIN transfers = 1 .. Len(transfers)
        /\ \A t \in DOMAIN transfers : transfers[t] \in Transfers
    <3>1. transfers \in Seq(Transfers)
      BY <1>1, Sequences
    <3>. QED  BY <3>1
  <2>2. /\ DOMAIN transfers' = DOMAIN transfers
        /\ \A t \in DOMAIN transfers :
               \/ transfers'[t] = transfers[t]
               \/ transfers'[t] = [transfers[t] EXCEPT !.state = "failed"]
    BY <1>2 DEF Abort
  <2> SUFFICES ASSUME NEW t \in DOMAIN transfers, transfers'[t].state = "done"
               PROVE  transfers'[t].result = OwnWords(transfers'[t])
    BY <2>2 DEF OwnResults
  <2>3. transfers'[t] = transfers[t]
    BY <2>1, <2>2 DEF Transfers
  <2>. QED  BY <1>1, <2>3 DEF OwnResults
<1>10. BufferFollows'
  BY <1>4 DEF BufferFollows
<1>. QED  BY <1>7, <1>9, <1>10

LEMMA DrainOneKeeps ==
    ASSUME IInv, DrainOne
    PROVE  Flight' /\ BufferFollows' /\ OwnResults'
<1>1. TypeOK /\ Flight /\ Order /\ OwnResults
  BY DEF IInv
<1>2. /\ pc = "drain" /\ drainLeft > 0 /\ fromProbe # << >>
      /\ fromProbe' = Tail(fromProbe) /\ drainLeft' = drainLeft - 1
      /\ UNCHANGED <<pc, call, transfers, transferList, crnt, commandsToRead, responseBuf, toProbe>>
  BY DEF DrainOne, At, caller
<1>3. Len(fromProbe') = Len(fromProbe) - 1 /\ Len(fromProbe) \in Nat /\ Len(toProbe) \in Nat
      /\ drainLeft \in Nat
  <2>1. fromProbe \in Seq(Answers) /\ Len(toProbe) \in Nat /\ drainLeft \in Nat
    BY <1>1, Numbers, Sequences
  <2>. QED  BY <1>2, <2>1
<1>4. Flight'
  BY <1>1, <1>2, <1>3, LinkAssumption DEF Flight, AnswersMatch, Drained, Bounded, InFlight
<1>5. BufferFollows' /\ OwnResults'
  BY <1>1, <1>2, OwnResultsUnchanged DEF Order, BufferFollows, NextWord
<1>. QED  BY <1>4, <1>5

LEMMA ProbeExecutesKeeps ==
    ASSUME IInv, NEW ack \in {"OK", "FAULT"}, ProbeExecutes(ack)
    PROVE  Flight' /\ BufferFollows' /\ OwnResults'
<1>1. TypeOK /\ Flight /\ Order /\ OwnResults
  BY DEF IInv
<1>2. /\ toProbe # << >> /\ toProbe' = Tail(toProbe)
      /\ fromProbe' = Append(fromProbe, Answer(Head(toProbe), ack))
      /\ UNCHANGED <<pc, call, transfers, transferList, crnt, commandsToRead, responseBuf, drainLeft>>
  BY DEF ProbeExecutes, caller, queues
<1>3. /\ Len(toProbe) \in Nat /\ Len(toProbe) > 0 /\ Len(toProbe') = Len(toProbe) - 1
      /\ \A i \in 1 .. Len(toProbe) - 1 : toProbe'[i] = toProbe[i + 1]
      /\ Head(toProbe) = toProbe[1]
  <2>1. toProbe \in Seq(Packets)
    BY <1>1, Sequences
  <2>. QED  BY <1>2, <2>1
<1>4. /\ Len(fromProbe) \in Nat /\ Len(fromProbe') = Len(fromProbe) + 1
      /\ \A i \in 1 .. Len(fromProbe) : fromProbe'[i] = fromProbe[i]
      /\ fromProbe'[Len(fromProbe) + 1] = Answer(toProbe[1], ack)
  <2>1. fromProbe \in Seq(Answers)
    BY <1>1, Sequences
  <2> DEFINE a == Answer(Head(toProbe), ack)
  <2>2. fromProbe' = Append(fromProbe, a) /\ a = Answer(toProbe[1], ack)
    BY <1>2, <1>3
  <2> HIDE DEF a
  <2>. QED  BY <2>1, <2>2
<1>5. Len(toProbe') + Len(fromProbe') = Len(toProbe) + Len(fromProbe)
  BY <1>3, <1>4
<1>6. AnswersMatch'
  <2> SUFFICES ASSUME pc # "drain" PROVE AnswersMatch'
    BY <1>2 DEF AnswersMatch
  <2>1. /\ drainLeft = 0 /\ Len(commandsToRead) = Len(toProbe) + Len(fromProbe)
        /\ \A i \in 1 .. Len(fromProbe) :
               \E a \in {"OK", "FAULT"} : fromProbe[i] = Answer(commandsToRead[i], a)
        /\ \A i \in 1 .. Len(toProbe) : toProbe[i] = commandsToRead[Len(fromProbe) + i]
    BY <1>1 DEF Flight, AnswersMatch, InFlight
  <2>2. ASSUME NEW i \in 1 .. Len(fromProbe')
        PROVE  \E a \in {"OK", "FAULT"} : fromProbe'[i] = Answer(commandsToRead'[i], a)
    <3>1. CASE i = Len(fromProbe) + 1
      <4>1. toProbe[1] = commandsToRead[i]
        BY <1>3, <2>1, <3>1
      <4>. QED  BY <1>2, <1>4, <3>1, <4>1
    <3>2. CASE i # Len(fromProbe) + 1
      <4>1. i \in 1 .. Len(fromProbe)
        BY <1>4, <3>2
      <4>. QED  BY <1>2, <1>4, <2>1, <4>1
    <3>. QED  BY <3>1, <3>2
  <2>3. ASSUME NEW i \in 1 .. Len(toProbe')
        PROVE  toProbe'[i] = commandsToRead'[Len(fromProbe') + i]
    <3>1. i + 1 \in 1 .. Len(toProbe) /\ Len(fromProbe) + (i + 1) = Len(fromProbe') + i
      BY <1>3, <1>4
    <3>. QED  BY <1>2, <1>3, <2>1, <3>1
  <2>. QED  BY <1>2, <1>5, <2>1, <2>2, <2>3 DEF AnswersMatch, InFlight
<1>7. Drained' /\ Bounded'
  BY <1>1, <1>2, <1>5 DEF Flight, Drained, Bounded, InFlight
<1>8. BufferFollows' /\ OwnResults'
  BY <1>1, <1>2, OwnResultsUnchanged DEF Order, BufferFollows, NextWord
<1>. QED  BY <1>6, <1>7, <1>8 DEF Flight

LEMMA AddResponseKeeps ==
    ASSUME IInv, AddResponse
    PROVE  Flight' /\ BufferFollows' /\ OwnResults'
<1> DEFINE t == Head(transferList)
           n == transfers[t].count
           len == Len(responseBuf)
           data == SubSeq(responseBuf, 1, n)
<1>1. TypeOK /\ Flight /\ Order /\ OwnResults
  BY DEF IInv
<1>2. /\ transferList # << >> /\ responseBuf # << >> /\ n <= len
      /\ transfers' = [transfers EXCEPT ![t].state = "done", ![t].result = data]
      /\ responseBuf' = SubSeq(responseBuf, n + 1, len)
      /\ transferList' = Tail(transferList)
      /\ UNCHANGED <<pc, call, crnt, commandsToRead, drainLeft, toProbe, fromProbe>>
  BY DEF AddResponse, DataForHead, caller, wire
<1>3. /\ Len(transferList) \in Nat /\ Len(transferList) > 0
      /\ t = transferList[1]
      /\ Len(transferList') = Len(transferList) - 1
      /\ \A i \in 1 .. Len(transferList) - 1 : transferList'[i] = transferList[i + 1]
      /\ transferList' = << >> => Len(transferList) = 1
  <2>1. transferList \in Seq(1 .. Len(transfers))
    BY <1>1, Sequences
  <2>2. /\ Len(transferList) \in Nat /\ Len(transferList) > 0
        /\ Len(transferList') = Len(transferList) - 1
        /\ \A i \in 1 .. Len(transferList) - 1 : transferList'[i] = transferList[i + 1]
        /\ t = transferList[1]
    BY <1>2, <2>1
  <2>3. transferList' = << >> => Len(transferList) = 1
    BY <2>2, EmptySeq
  <2>. QED  BY <2>2, <2>3
<1>4. /\ t \in DOMAIN transfers /\ n = Count(1) /\ n \in Nat /\ n > 0 /\ First(1) \in Nat
      /\ transfers[t].first = First(1)
  <2>1. 1 \in 1 .. Len(transferList)
    BY <1>3
  <2>. QED  BY <1>1, <1>3, <2>1, Pending DEF First, Count
<1>5. /\ DOMAIN transfers' = DOMAIN transfers
      /\ \A j \in DOMAIN transfers :
             /\ transfers'[j].first = transfers[j].first /\ transfers'[j].count = transfers[j].count
             /\ j # t => transfers'[j] = transfers[j]
      /\ transfers'[t].result = data
  <2>1. \A j \in DOMAIN transfers : transfers[j] \in Transfers
    <3>1. transfers \in Seq(Transfers)
      BY <1>1, Sequences
    <3>. QED  BY <3>1
  <2>2. transfers' = [transfers EXCEPT ![t] = [transfers[t] EXCEPT !.state = "done",
                                                                   !.result = data]]
    BY <1>2
  <2> HIDE DEF data, t, n
  <2>. QED  BY <1>4, <2>1, <2>2 DEF Transfers
<1>6. /\ len \in Nat /\ responseBuf \in Seq(Nat)
      /\ \A i \in 1 .. len : responseBuf[i] \in Nat
      /\ NextWord \in Nat /\ TodoWords \in Nat /\ NextRead(crnt) \in Nat
  <2>1. responseBuf \in Seq(Nat)
    BY <1>1, Sequences
  <2>. QED  BY <1>1, <2>1, Numbers
<1>7. First(1) = NextWord - len /\ \A i \in 1 .. len : responseBuf[i] = NextWord - len + i - 1
  BY <1>1, <1>2 DEF Order, HeadFollows, BufferFollows
<1>8. /\ Len(data) = n /\ \A i \in 1 .. n : data[i] = responseBuf[i]
      /\ data = [i \in 1 .. n |-> data[i]]
      /\ Len(responseBuf') = len - n
      /\ responseBuf' \in Seq(Nat)
      /\ \A i \in 1 .. len - n : responseBuf'[i] = responseBuf[n + i]
  <2>1. /\ \A i \in 1 .. n : responseBuf[i] \in Nat
        /\ \A i \in n + 1 .. len : responseBuf[i] \in Nat
    BY <1>2, <1>4, <1>6
  <2> HIDE DEF n, len, t
  <2>2. data \in Seq(Nat) /\ Len(data) = n /\ \A i \in 1 .. n : data[i] = responseBuf[i]
    BY <1>4, <2>1, SubSeqProperties
  <2>3. /\ responseBuf' \in Seq(Nat) /\ Len(responseBuf') = len - n
        /\ \A i \in 1 .. len - n : responseBuf'[i] = responseBuf[n + i]
    <3>1. /\ SubSeq(responseBuf, n + 1, len) \in Seq(Nat)
          /\ Len(SubSeq(responseBuf, n + 1, len))
                 = IF n + 1 <= len THEN len - (n + 1) + 1 ELSE 0
          /\ \A i \in 1 .. len - (n + 1) + 1 :
                 SubSeq(responseBuf, n + 1, len)[i] = responseBuf[n + 1 + i - 1]
      <4>1. n + 1 \in Int /\ len \in Int
        BY <1>4, <1>6
      <4>. QED  BY <2>1, <4>1, SubSeqProperties
    <3>2. len - (n + 1) + 1 = len - n /\ \A i \in 1 .. len - n : n + 1 + i - 1 = n + i
      BY <1>4, <1>6
    <3>3. (IF n + 1 <= len THEN len - (n + 1) + 1 ELSE 0) = len - n
      BY <1>2, <1>4, <1>6
    <3>4. responseBuf' = SubSeq(responseBuf, n + 1, len)
      BY <1>2
    <3>5. Len(responseBuf') = len - n
      BY <3>1, <3>3, <3>4
    <3>6. \A i \in 1 .. len - n : responseBuf'[i] = responseBuf[n + i]
      BY <3>1, <3>2, <3>4
    <3>. QED  BY <3>1, <3>4, <3>5, <3>6
  <2> HIDE DEF data
  <2>. QED  BY <2>2, <2>3
<1>9. data = [i \in 1 .. n |-> First(1) + i - 1]
  <2>1. \A i \in 1 .. n : i \in 1 .. len
    BY <1>2, <1>4, <1>6
  <2>2. \A i \in 1 .. n : data[i] = First(1) + i - 1
    BY <1>7, <1>8, <2>1
  <2> HIDE DEF data, n, t, len
  <2>. QED  BY <1>8, <2>2
<1>10. NextWord' = NextWord
  BY <1>2 DEF NextWord
<1>11. OwnResults'
  <2> SUFFICES ASSUME NEW j \in DOMAIN transfers, transfers'[j].state = "done"
               PROVE  transfers'[j].result = OwnWords(transfers'[j])
    BY <1>5 DEF OwnResults
  <2>1. CASE j = t
    <3>1. OwnWords(transfers'[t]) = [i \in 1 .. n |-> First(1) + i - 1]
      BY <1>4, <1>5 DEF OwnWords
    <3>. QED  BY <1>5, <1>9, <2>1, <3>1
  <2>2. CASE j # t
    BY <1>1, <1>5, <2>2 DEF OwnResults
  <2>. QED  BY <2>1, <2>2
<1>16. BufferFollows'
  <2> SUFFICES ASSUME NEW i \in 1 .. len - n
               PROVE  responseBuf'[i] = NextWord - (len - n) + i - 1
    BY <1>8, <1>10 DEF BufferFollows
  <2>1. n + i \in 1 .. len
    <3>1. n \in Nat /\ n > 0 /\ n <= len /\ len \in Nat
      BY <1>2, <1>4, <1>6
    <3> HIDE DEF n, len
    <3>. QED  BY <3>1
  <2>2. responseBuf'[i] = responseBuf[n + i]
    BY <1>8
  <2>3. responseBuf[n + i] = NextWord - len + (n + i) - 1
    BY <1>7, <2>1
  <2> HIDE DEF n, len
  <2>. QED  BY <1>4, <1>6, <2>2, <2>3
<1>18. Flight'
  <2>1. pc # "drain"
    BY <1>1, <1>2 DEF Flight, Drained
  <2>. QED  BY <1>1, <1>2, <2>1 DEF Flight, AnswersMatch, Drained, Bounded, InFlight
<1>. QED  BY <1>11, <1>16, <1>18

-----------------------------------------------------------------------------
LEMMA NextInv ==
    ASSUME IInv, [Next]_vars
    PROVE  IInv'
<1>1. TypeOK' /\ ReadStarted'
  BY TypeStep DEF IInv
<1>2. Flight' /\ BufferFollows' /\ OwnResults'
  <2>1. CASE CallerActions
    BY <2>1, CallerActionsKeep
  <2>2. CASE \E count \in Counts, request \in ReadRequests, now \in BOOLEAN :
                 ReadReg(count, request, now)
    BY <2>2, ReadRegKeeps
  <2>3. CASE AddWords
    BY <2>3, AddWordsKeeps
  <2>4. CASE SendPacket
    BY <2>4, SendPacketKeeps
  <2>5. CASE ReadPacket
    BY <2>5, ReadPacketKeeps
  <2>6. CASE ReadBadPacket
    BY <2>6, ReadBadPacketKeeps
  <2>7. CASE AddResponse
    BY <2>7, AddResponseKeeps
  <2>8. CASE DrainOne
    BY <2>8, DrainOneKeeps
  <2>9. CASE Raise
    BY <2>9, RaiseKeeps
  <2>10. CASE Probe
    BY <2>10, ProbeExecutesKeeps DEF Probe
  <2>11. CASE UNCHANGED vars
    <3>1. UNCHANGED <<queues, wire, pc, call, transfers>>
      BY <2>11 DEF vars, caller, queues
    <3>. QED  BY <3>1, FlightUnchanged, OwnResultsUnchanged
              DEF IInv, Order, BufferFollows, NextWord, queues
  <2>. QED  BY <2>1, <2>2, <2>3, <2>4, <2>5, <2>6, <2>7, <2>8, <2>9, <2>10, <2>11
            DEF Next, StartCall, ContinueCall, CallerActions
<1>3. Books'
  BY InvariantBooks, BooksStep
<1>. QED  BY <1>1, <1>2, <1>3 DEF IInv, Order, Books

LEMMA Invariant == Spec => []IInv
  BY InitInv, NextInv, PTL DEF Spec

\* Whatever is asked for, in whatever packets, every read gets its own words.
THEOREM ResultsAreOwn == Spec => []OwnResults
<1>1. IInv => OwnResults
  BY DEF IInv
<1>. QED  BY <1>1, Invariant, PTL

\* The probe never holds more packets than it said it can buffer.
THEOREM PipelineBounded == Spec => []InFlightBound
<1>1. IInv => InFlightBound
  <2> SUFFICES ASSUME IInv PROVE InFlightBound
    OBVIOUS
  <2>1. pc # "drain" => InFlight = Len(commandsToRead)
    BY DEF IInv, Flight, AnswersMatch
  <2>2. pc = "drain" => InFlight = drainLeft
    BY DEF IInv, Flight, Drained
  <2>. QED  BY <2>1, <2>2 DEF IInv, Flight, Bounded, InFlightBound
<1>. QED  BY <1>1, Invariant, PTL

\* A call leaves no answer on the wire that no packet waits for.
THEOREM WireIsSilent == Spec => []SilentWire
<1>1. IInv => SilentWire
  <2> SUFFICES ASSUME IInv, pc = "idle", commandsToRead = << >> PROVE InFlight = 0
    BY DEF SilentWire
  <2>. QED  BY DEF IInv, Flight, AnswersMatch
<1>. QED  BY <1>1, Invariant, PTL

-----------------------------------------------------------------------------
(* What a failing interface cannot undo *)

LEMMA BooksInvariant == FailingSpec => [](TypeOK /\ ReadStarted /\ Books)
<1>1. Init => TypeOK /\ ReadStarted /\ Books
  BY InitInv, InvariantBooks DEF IInv
<1>2. TypeOK /\ ReadStarted /\ Books /\ [Next \/ InterfaceFails]_vars
          => TypeOK' /\ ReadStarted' /\ Books'
  BY TypeStep, BooksStep
<1>. QED  BY <1>1, <1>2, PTL DEF FailingSpec

\* _read_packet never has data left and no transfer to give it to, whatever
\* the interface did: a late answer brings wrong words, never one too many.
THEOREM DataHasAnOwner == FailingSpec => []NoOrphanData
<1>1. Books => NoOrphanData
  BY DEF Books, HeadFollows, NoOrphanData
<1>. QED  BY <1>1, BooksInvariant, PTL

\* The probe owes an answer for every packet to read and for every answer to
\* discard; after a time-out it owes more than is asked of it.
Owed == InFlight >= Len(commandsToRead) + drainLeft

LEMMA OwedUnchanged ==
    ASSUME Owed, UNCHANGED <<wire, commandsToRead, drainLeft>>
    PROVE  Owed'
  BY DEF Owed, InFlight, wire

\* Abort forgets the packets to read and keeps at most one answer for each.
LEMMA AbortOwed ==
    ASSUME NEW error, NEW left \in Nat, Abort(error, left),
           NEW n \in Nat, InFlight' = n, n >= left
    PROVE  Owed'
<1>1. commandsToRead' = << >> /\ drainLeft' \in {0, left}
  BY DEF Abort, InitDeferredBuffers, AnswersToDrain
<1>2. Len(commandsToRead') = 0 /\ drainLeft' <= n /\ drainLeft' \in Nat
  BY <1>1
<1>3. \A d \in Nat : d <= n => n >= 0 + d
  OBVIOUS
<1>4. n >= Len(commandsToRead') + drainLeft'
  BY <1>2, <1>3
<1>. QED  BY <1>4 DEF Owed

LEMMA OwedStep ==
    ASSUME TypeOK, TodoOnlyPacking, Owed, [Next \/ InterfaceFails]_vars
    PROVE  Owed'
<1> DEFINE out == Len(toProbe)
           in == Len(fromProbe)
           read == Len(commandsToRead)
<1>0. /\ out \in Nat /\ in \in Nat /\ read \in Nat /\ drainLeft \in Nat
      /\ out + in >= read + drainLeft
  BY Numbers DEF Owed, InFlight
<1>1. commandsToRead \in Seq(Packets) /\ toProbe \in Seq(Packets) /\ fromProbe \in Seq(Answers)
  BY Sequences
<1>2. fromProbe # << >> => Len(Tail(fromProbe)) = in - 1 /\ in > 0
  BY <1>1
<1>3. commandsToRead # << >> => Len(Tail(commandsToRead)) = read - 1 /\ read > 0
  BY <1>1
<1>4. CASE CallerActions
  <2>1. UNCHANGED <<queues, wire>>
    BY <1>4, CallerMoves
  <2>. QED  BY <2>1, OwedUnchanged DEF queues
<1>5. CASE \/ \E count \in Counts, request \in ReadRequests, now \in BOOLEAN :
                  ReadReg(count, request, now)
           \/ AddWords \/ AddResponse \/ Raise \/ UNCHANGED vars
  <2>1. UNCHANGED <<wire, commandsToRead, drainLeft>>
    BY <1>5 DEF ReadReg, AddWords, AddResponse, Raise, vars, queues
  <2>. QED  BY <2>1, OwedUnchanged
<1>6. CASE SendPacket
  <2>1. /\ toProbe' = Append(toProbe, crnt) /\ commandsToRead' = Append(commandsToRead, crnt)
        /\ UNCHANGED <<fromProbe, drainLeft>>
    BY <1>6 DEF SendPacket
  <2>2. crnt \in Packets
    BY Numbers
  <2>3. Len(toProbe') = out + 1 /\ Len(commandsToRead') = read + 1
    BY <1>1, <2>1, <2>2
  <2> HIDE DEF out, in, read
  <2>4. out + 1 + in >= read + 1 + drainLeft
    BY <1>0
  <2>. QED  BY <2>1, <2>3, <2>4 DEF Owed, InFlight, in
<1>7. CASE ReadPacket
  <2>1. /\ fromProbe' = Tail(fromProbe) /\ commandsToRead' = Tail(commandsToRead)
        /\ fromProbe # << >> /\ commandsToRead # << >> /\ UNCHANGED <<toProbe, drainLeft>>
    BY <1>7 DEF ReadPacket, Reading
  <2>2. Len(fromProbe') = in - 1 /\ Len(commandsToRead') = read - 1
    BY <1>2, <1>3, <2>1
  <2> HIDE DEF out, in, read
  <2>3. out + (in - 1) >= (read - 1) + drainLeft
    BY <1>0
  <2>. QED  BY <2>1, <2>2, <2>3 DEF Owed, InFlight, out
<1>8. CASE DrainOne
  <2>1. /\ fromProbe' = Tail(fromProbe) /\ fromProbe # << >> /\ drainLeft' = drainLeft - 1
        /\ UNCHANGED <<toProbe, commandsToRead>>
    BY <1>8 DEF DrainOne
  <2>2. Len(fromProbe') = in - 1
    BY <1>2, <2>1
  <2> HIDE DEF out, in, read
  <2>3. out + (in - 1) >= read + (drainLeft - 1)
    BY <1>0
  <2>. QED  BY <2>1, <2>2, <2>3 DEF Owed, InFlight, out, read
<1>9. CASE Probe
  <2>1. PICK ack \in {"OK", "FAULT"} : ProbeExecutes(ack)
    BY <1>9 DEF Probe
  <2> DEFINE a == Answer(Head(toProbe), ack)
  <2>2. /\ toProbe # << >> /\ toProbe' = Tail(toProbe) /\ fromProbe' = Append(fromProbe, a)
        /\ UNCHANGED <<commandsToRead, drainLeft>>
    BY <2>1 DEF ProbeExecutes, queues
  <2>3. Head(toProbe) \in Packets
    BY <1>1, <2>2
  <2>4. a \in Answers
    BY <2>3, AnswerType
  <2> HIDE DEF a
  <2>5. Len(toProbe') = out - 1 /\ Len(fromProbe') = in + 1
    BY <1>1, <2>2, <2>4
  <2> HIDE DEF out, in, read
  <2>6. (out - 1) + (in + 1) >= read + drainLeft
    BY <1>0
  <2>. QED  BY <2>2, <2>5, <2>6 DEF Owed, InFlight, read
<1>10. CASE ReadBadPacket
  <2> DEFINE left == Len(Tail(commandsToRead))
  <2>1. /\ fromProbe' = Tail(fromProbe) /\ fromProbe # << >> /\ commandsToRead # << >>
        /\ toProbe' = toProbe
        /\ \E error : Abort(error, left)
    BY <1>10 DEF ReadBadPacket, Reading
  <2>2. Len(fromProbe') = in - 1 /\ left = read - 1 /\ in > 0 /\ read > 0
    BY <1>2, <1>3, <2>1
  <2> HIDE DEF out, in, read, left
  <2>3. left \in Nat /\ out + (in - 1) \in Nat /\ out + (in - 1) >= left
    BY <1>0, <2>2
  <2>4. InFlight' = out + (in - 1)
    BY <2>1, <2>2 DEF InFlight, out
  <2>. QED  BY <2>1, <2>3, <2>4, AbortOwed
<1>11. CASE WriteFails
  <2>1. UNCHANGED wire /\ Abort("DeviceError", read)
    BY <1>11 DEF WriteFails
  <2>2. InFlight' = out + in
    BY <2>1 DEF InFlight, wire
  <2> HIDE DEF out, in, read
  <2>3. out + in \in Nat /\ out + in >= read
    BY <1>0
  <2>. QED  BY <1>0, <2>1, <2>2, <2>3, AbortOwed
<1>12. CASE ReadTimesOut
  <2> DEFINE left == Len(Tail(commandsToRead))
  <2>1. UNCHANGED wire /\ Abort("DeviceError", left) /\ commandsToRead # << >>
    BY <1>12 DEF ReadTimesOut, Reading
  <2>2. InFlight' = out + in /\ left = read - 1 /\ read > 0
    BY <1>3, <2>1 DEF InFlight, wire
  <2> HIDE DEF out, in, read, left
  <2>3. left \in Nat /\ out + in \in Nat /\ out + in >= left
    BY <1>0, <2>2
  <2>. QED  BY <2>1, <2>2, <2>3, AbortOwed
<1>13. CASE DrainTimesOut
  <2>1. drainLeft' = 0 /\ UNCHANGED <<commandsToRead, wire>>
    BY <1>13 DEF DrainTimesOut
  <2> HIDE DEF out, in, read
  <2>2. out + in >= read + 0
    BY <1>0
  <2>. QED  BY <2>1, <2>2 DEF Owed, InFlight, wire, out, in, read
<1>. QED  BY <1>4, <1>5, <1>6, <1>7, <1>8, <1>9, <1>10, <1>11, <1>12, <1>13
          DEF Next, StartCall, ContinueCall, CallerActions, InterfaceFails

\* A call never waits for an answer that nobody will send.
THEOREM AnswersAreOwed == FailingSpec => []AnswerOwed
<1>1. Init => Owed
  BY DEF Init, Owed, InFlight
<1>2. TypeOK /\ Books /\ Owed /\ [Next \/ InterfaceFails]_vars => Owed'
  BY OwedStep DEF Books
<1>3. TypeOK /\ Owed => AnswerOwed
  <2> SUFFICES ASSUME TypeOK, Owed,
                      \/ commandsToRead # << >>
                      \/ drainLeft > 0
               PROVE  InFlight > 0
    BY DEF AnswerOwed, Reading
  <2>1. Len(commandsToRead) \in Nat /\ drainLeft \in Nat /\ InFlight \in Nat
    BY Numbers DEF InFlight
  <2>2. commandsToRead # << >> => Len(commandsToRead) > 0
    BY Sequences
  <2>3. InFlight >= Len(commandsToRead) + drainLeft
    BY DEF Owed
  <2>. QED  BY <2>1, <2>2, <2>3
<1>. QED  BY <1>1, <1>2, <1>3, BooksInvariant, PTL DEF FailingSpec

-----------------------------------------------------------------------------
(* Every step of a call gets on *)

Waste == IF IsEmpty(crnt.cmd) THEN 0 ELSE 3

LEMMA Phases ==
    /\ pc = "idle" => PhasesLeft = 0
    /\ pc = "drain" => PhasesLeft = 1
    /\ pc = "get" => PhasesLeft = IF IsEmpty(crnt.cmd) THEN 1 ELSE 4
    /\ pc = "backlog" => PhasesLeft = 2
    /\ pc = "flushSend" => PhasesLeft = 3
    /\ pc = "packSend" => PhasesLeft = 5
    /\ pc = "pack" => PhasesLeft = 6
  BY DEF PhasesLeft

LEMMA PhasesAfter ==
    /\ pc' = "idle" => PhasesLeft' = 0
    /\ pc' = "drain" => PhasesLeft' = 1
    /\ pc' = "get" => PhasesLeft' = IF IsEmpty(crnt'.cmd) THEN 1 ELSE 4
    /\ pc' = "backlog" => PhasesLeft' = 2
    /\ pc' = "flushSend" => PhasesLeft' = 3
    /\ pc' = "packSend" => PhasesLeft' = 5
    /\ pc' = "pack" => PhasesLeft' = 6
  BY DEF PhasesLeft

\* The sums, before and after.
LEMMA Sums ==
    /\ CallLeft = PhasesLeft + 4 * call.todo + Waste
    /\ CallLeft' = PhasesLeft' + 4 * call'.todo + Waste'
    /\ QueuesLeft = Len(commandsToRead) + Len(transferList) + drainLeft
    /\ QueuesLeft' = Len(commandsToRead') + Len(transferList') + drainLeft'
    /\ Waste \in Nat
  BY DEF CallLeft, QueuesLeft, Waste

LEMMA Less ==
    ASSUME CallLeft \in Nat, QueuesLeft \in Nat, CallLeft' \in Nat, QueuesLeft' \in Nat,
           \/ CallLeft' < CallLeft /\ QueuesLeft' <= QueuesLeft
           \/ CallLeft' <= CallLeft /\ QueuesLeft' < QueuesLeft
           \/ CallLeft' + 1 < CallLeft /\ QueuesLeft' <= QueuesLeft + 1
           \/ CallLeft' + QueuesLeft' < CallLeft + QueuesLeft
    PROVE  WorkLeft' < WorkLeft
<1> DEFINE c == CallLeft
           d == CallLeft'
           q == QueuesLeft
           r == QueuesLeft'
<1>1. WorkLeft = c + q /\ WorkLeft' = d + r
  BY DEF WorkLeft
<1>2. c \in Nat /\ d \in Nat /\ q \in Nat /\ r \in Nat
  OBVIOUS
<1>3. \/ d < c /\ r <= q
      \/ d <= c /\ r < q
      \/ d + 1 < c /\ r <= q + 1
      \/ d + r < c + q
  OBVIOUS
<1> HIDE DEF c, d, q, r
<1>4. d + r < c + q
  BY <1>2, <1>3
<1>. QED  BY <1>1, <1>4

LEMMA PhasesRange ==
    ASSUME TypeOK
    PROVE  PhasesLeft \in 0 .. 6 /\ (pc # "idle" => PhasesLeft > 0)
<1>1. pc \in {"idle", "pack", "packSend", "flushSend", "backlog", "get", "drain"}
  BY TypeParts DEF CallerOK
<1>. QED  BY <1>1, Phases

\* What makes the sum go down: a packet is sent only when there is something in
\* it, the read loop of flush comes after the send, and a packet without a word
\* has room for any.
GetsOn ==
    /\ IsEmpty(crnt.cmd) => crnt.cmd = NewCommand(PacketSize)
    /\ pc = "packSend" => ~IsEmpty(crnt.cmd)
    /\ pc = "backlog" => IsEmpty(crnt.cmd)
    /\ pc \in {"pack", "packSend"} => call.request \in Requests

LEMMA NewPacketEmpty ==
    ASSUME NEW first
    PROVE  NewPacket(first).cmd = NewCommand(PacketSize) /\ IsEmpty(NewPacket(first).cmd)
  BY DEF NewPacket, NewCommand, IsEmpty

\* A turn of _write puts a word at least into the packet, and no more than asked.
LEMMA AddWordsFills ==
    ASSUME TypeOK, GetsOn, AddWords
    PROVE  /\ ~IsEmpty(crnt'.cmd) /\ call'.request = call.request
           /\ call'.todo \in Nat /\ call'.todo <= call.todo - 1
<1>1. /\ pc = "pack" /\ call.todo > 0 /\ Space > 0
      /\ crnt' = [crnt EXCEPT !.cmd = Add(crnt.cmd, Space, call.request)]
      /\ call' = [call EXCEPT !.todo = @ - Space]
  BY DEF AddWords, At
<1>2. Space \in Nat /\ Space <= call.todo
  BY Numbers, PacketNats, RequestSpaceBounds DEF Space
<1>3. crnt'.cmd = Add(crnt.cmd, Space, call.request)
  BY <1>1, Numbers DEF Packets
<1>4. call'.request = call.request /\ call'.todo = call.todo - Space /\ call.todo \in Nat
  BY <1>1, Numbers DEF Calls
<1>5. crnt.cmd.readCount \in Nat /\ crnt.cmd.writeCount \in Nat
  BY Numbers, PacketNats DEF Packets, Commands
<1>6. /\ call.request \in ReadRequests \/ call.request \in WriteRequests
      /\ call.request \in ReadRequests => call.request \notin WriteRequests
  BY <1>1, RequestAssumption DEF GetsOn, Requests
<1>7. crnt'.cmd.readCount + crnt'.cmd.writeCount > 0
  <2>1. /\ crnt'.cmd.readCount
               = IF call.request \in ReadRequests THEN crnt.cmd.readCount + Space
                                                  ELSE crnt.cmd.readCount
        /\ crnt'.cmd.writeCount
               = IF call.request \in WriteRequests THEN crnt.cmd.writeCount + Space
                                                   ELSE crnt.cmd.writeCount
    BY <1>3 DEF Add
  <2>. QED  BY <1>1, <1>2, <1>5, <1>6, <2>1
<1>. QED  BY <1>1, <1>2, <1>4, <1>7 DEF IsEmpty

LEMMA GetsOnStep ==
    ASSUME TypeOK, GetsOn, [Next \/ InterfaceFails]_vars
    PROVE  GetsOn'
<1>1. ASSUME NEW count \in Counts, NEW request \in Requests,
             call' = [NoCall EXCEPT !.request = request, !.todo = count]
             \/ \E want : call' = [NoCall EXCEPT !.request = request, !.todo = count, !.want = want],
             pc' = "pack", crnt' = crnt
      PROVE  GetsOn'
  <2>1. call'.request = request
    BY <1>1 DEF NoCall
  <2>. QED  BY <1>1, <2>1 DEF GetsOn
<1>2. CASE \/ \E count \in Counts, request \in WriteRequests : WriteReg(count, request)
           \/ \E count \in Counts, request \in ReadRequests, now \in BOOLEAN :
                  ReadReg(count, request, now)
  BY <1>1, <1>2 DEF WriteReg, ReadReg, Requests, queues
<1>3. CASE AddWords
  <2>1. ~IsEmpty(crnt'.cmd) /\ call'.request = call.request
    BY <1>3, AddWordsFills
  <2>2. pc = "pack" /\ pc' \in {"pack", "packSend"}
    BY <1>3 DEF AddWords, At
  <2>. QED  BY <2>1, <2>2 DEF GetsOn
<1>4. CASE NoRoom
  <2>1. /\ pc = "pack" /\ pc' = "packSend" /\ call.todo > 0 /\ Space = 0
        /\ UNCHANGED <<call, crnt>>
    BY <1>4 DEF NoRoom, At, queues
  <2>2. call.todo \in Nat \ {0} /\ call.request \in Requests
    BY <2>1, Numbers DEF GetsOn
  <2>3. ~IsEmpty(crnt.cmd)
    <3>1. ValidSize(PacketSize)
      BY LinkAssumption
    <3>2. RequestSpace(NewCommand(PacketSize), call.todo, call.request) > 0
      BY <2>2, <3>1, NewCommandHasRoom
    <3>3. crnt.cmd # NewCommand(PacketSize)
      BY <2>1, <3>2 DEF Space
    <3>. QED  BY <3>3 DEF GetsOn
  <2>. QED  BY <2>1, <2>2, <2>3 DEF GetsOn
<1>5. CASE SendPacket
  <2>1. crnt' = NewPacket(NextRead(crnt)) /\ pc' = AfterSend /\ call' = call
        /\ pc \in {"packSend", "flushSend"}
    BY <1>5 DEF SendPacket, Sending, At
  <2>2. crnt'.cmd = NewCommand(PacketSize) /\ IsEmpty(crnt'.cmd)
    BY <2>1, NewPacketEmpty
  <2>. QED  BY <2>1, <2>2 DEF GetsOn, AfterSend
<1>6. CASE NothingToSend
  BY <1>6 DEF NothingToSend, Sending, At, AfterSend, GetsOn, queues
<1>7. CASE ReadBadPacket \/ WriteFails \/ ReadTimesOut
  <2>1. \E error, inFlight : Abort(error, inFlight)
    BY <1>7 DEF ReadBadPacket, WriteFails, ReadTimesOut
  <2>2. crnt' = NewPacket(NextRead(crnt)) /\ pc' = "drain"
    BY <2>1 DEF Abort, InitDeferredBuffers
  <2>3. crnt'.cmd = NewCommand(PacketSize)
    BY <2>2, NewPacketEmpty
  <2>. QED  BY <2>2, <2>3 DEF GetsOn
<1>8. CASE ReadPacket \/ AddResponse \/ DrainOne \/ DrainTimesOut \/ Probe \/ UNCHANGED vars
  BY <1>8 DEF ReadPacket, AddResponse, DrainOne, DrainTimesOut, Probe, ProbeExecutes, GetsOn,
              caller, queues, vars
<1>9. CASE \/ \E t \in held : GetResult(t)
           \/ Flush
           \/ \E enable \in BOOLEAN : SetDeferredTransfer(enable)
           \/ WriteDone \/ Raise \/ BacklogDone \/ ResultReady \/ ResultNeedsFlush \/ ResultLost
  <2>1. crnt' = crnt /\ pc' \in {"idle", "get", "flushSend"}
    BY <1>9 DEF GetResult, Flush, SetDeferredTransfer, WriteDone, Raise, BacklogDone, ResultReady,
                ResultNeedsFlush, ResultLost, At, Return, ReturnFromWrite, queues
  <2>. QED  BY <2>1 DEF GetsOn
<1>. QED  BY <1>2, <1>3, <1>4, <1>5, <1>6, <1>7, <1>8, <1>9
          DEF Next, StartCall, ContinueCall, InterfaceFails

\* The steps that go on with a call, and leave the queues alone.
LEMMA MoveGetsOn ==
    ASSUME TypeOK, GetsOn, pc # "idle",
           \/ NoRoom \/ WriteDone \/ NothingToSend \/ Raise
           \/ BacklogDone \/ ResultReady \/ ResultNeedsFlush \/ ResultLost
    PROVE  WorkLeft' < WorkLeft
<1>1. call.todo \in Nat /\ Len(commandsToRead) \in Nat /\ Len(transferList) \in Nat /\ drainLeft \in Nat
  BY Numbers
<1>2. UNCHANGED queues
  BY DEF NoRoom, WriteDone, NothingToSend, Raise, BacklogDone, ResultReady, ResultNeedsFlush,
         ResultLost
<1>3. call'.todo \in {0, call.todo}
  <2>1. call' \in {call, NoCall}
    BY DEF NoRoom, WriteDone, NothingToSend, Raise, BacklogDone, ResultReady, ResultNeedsFlush,
           ResultLost, ReturnFromWrite, Return
  <2>2. NoCall.todo = 0
    BY DEF NoCall
  <2>. QED  BY <2>1, <2>2
<1>4. PhasesLeft' < PhasesLeft /\ PhasesLeft \in Nat /\ PhasesLeft' \in Nat
  <2>1. CASE NoRoom
    BY <2>1, Phases, PhasesAfter DEF NoRoom, At
  <2>2. CASE WriteDone
    <3>1. pc = "pack" /\ pc' \in {"idle", "get", "flushSend"}
      BY <2>2 DEF WriteDone, At, ReturnFromWrite, Return
    <3>. QED  BY <3>1, Phases, PhasesAfter
  <2>3. CASE NothingToSend
    <3>1. pc = "flushSend" /\ pc' = "backlog"
      BY <2>3 DEF NothingToSend, Sending, At, AfterSend, GetsOn
    <3>. QED  BY <3>1, Phases, PhasesAfter
  <2>4. CASE Raise
    BY <2>4, Phases, PhasesAfter DEF Raise, At, Return
  <2>5. CASE BacklogDone
    <3>1. pc = "backlog" /\ pc' \in {"idle", "get"} /\ crnt' = crnt /\ IsEmpty(crnt.cmd)
      BY <1>2, <2>5 DEF BacklogDone, At, ReturnFromWrite, Return, GetsOn, queues
    <3>. QED  BY <3>1, Phases, PhasesAfter
  <2>6. CASE ResultReady \/ ResultLost
    <3>1. pc = "get" /\ pc' = "idle"
      BY <2>6 DEF ResultReady, ResultLost, At, Return
    <3>. QED  BY <3>1, Phases, PhasesAfter
  <2>7. CASE ResultNeedsFlush
    <3>1. pc = "get" /\ pc' = "flushSend" /\ ~IsEmpty(crnt.cmd)
      BY <2>7 DEF ResultNeedsFlush, FlushWorth, At
    <3>. QED  BY <3>1, Phases, PhasesAfter
  <2>. QED  BY <2>1, <2>2, <2>3, <2>4, <2>5, <2>6, <2>7
<1>5. /\ Waste' = Waste /\ Len(commandsToRead') = Len(commandsToRead)
      /\ Len(transferList') = Len(transferList) /\ drainLeft' = drainLeft
  BY <1>2 DEF Waste, queues
<1>6. call'.todo \in Nat /\ call'.todo <= call.todo
  BY <1>1, <1>3
<1>7. CallLeft = PhasesLeft + 4 * call.todo + Waste /\ Waste \in Nat
      /\ CallLeft' = PhasesLeft' + 4 * call'.todo + Waste
  BY <1>5, Sums
<1>8. CallLeft \in Nat /\ CallLeft' \in Nat /\ CallLeft' < CallLeft
  <2> DEFINE p == PhasesLeft
             q == PhasesLeft'
             t == call.todo
             u == call'.todo
             w == Waste
  <2>1. p \in Nat /\ q \in Nat /\ t \in Nat /\ u \in Nat /\ w \in Nat /\ q < p /\ u <= t
    BY <1>1, <1>4, <1>6, <1>7
  <2>2. CallLeft = p + 4 * t + w /\ CallLeft' = q + 4 * u + w
    BY <1>7
  <2> HIDE DEF p, q, t, u, w
  <2>3. /\ p + 4 * t + w \in Nat /\ q + 4 * u + w \in Nat
        /\ q + 4 * u + w < p + 4 * t + w
    BY <2>1
  <2>. QED  BY <2>2, <2>3
<1>9. QueuesLeft \in Nat /\ QueuesLeft' = QueuesLeft
  BY <1>1, <1>5, Sums
<1>. QED  BY <1>8, <1>9, Less

\* An abort leaves the answers it discards, fewer than were to be read.
LEMMA AbortGetsOn ==
    ASSUME TypeOK, NEW error, NEW left \in Nat, Abort(error, left),
           \/ left < Len(commandsToRead) /\ pc # "idle"
           \/ error # "TransferError" /\ pc \in {"packSend", "flushSend"}
    PROVE  WorkLeft' < WorkLeft
<1>1. call.todo \in Nat /\ Len(commandsToRead) \in Nat /\ Len(transferList) \in Nat /\ drainLeft \in Nat
  BY Numbers
<1>2. /\ pc' = "drain" /\ call' = call /\ commandsToRead' = << >> /\ transferList' = << >>
      /\ crnt' = NewPacket(NextRead(crnt)) /\ drainLeft' = AnswersToDrain(error, left)
  BY DEF Abort, InitDeferredBuffers
<1>3. Len(commandsToRead') = 0 /\ Len(transferList') = 0 /\ call'.todo = call.todo
  BY <1>2
<1>4. Waste' = 0
  <2>1. IsEmpty(crnt'.cmd)
    BY <1>2, NewPacketEmpty
  <2>. QED  BY <2>1 DEF Waste
<1>5. PhasesLeft' = 1 /\ PhasesLeft \in Nat /\ PhasesLeft <= 6
  BY <1>2, PhasesAfter, PhasesRange
<1>6. /\ drainLeft' \in Nat
      /\ drainLeft' + 1 < PhasesLeft + Len(commandsToRead)
  <2>1. CASE left < Len(commandsToRead) /\ pc # "idle"
    <3>1. drainLeft' \in {0, left} /\ PhasesLeft > 0
      BY <1>2, <2>1, PhasesRange DEF AnswersToDrain
    <3>. QED  BY <1>1, <1>5, <2>1, <3>1
  <2>2. CASE error # "TransferError" /\ pc \in {"packSend", "flushSend"}
    <3>1. drainLeft' = 0 /\ PhasesLeft >= 3
      BY <1>2, <2>2, Phases DEF AnswersToDrain
    <3>. QED  BY <1>1, <1>5, <3>1
  <2>. QED  BY <2>1, <2>2
<1> DEFINE p == PhasesLeft
           t == call.todo
           w == Waste
           read == Len(commandsToRead)
           list == Len(transferList)
           d == drainLeft
           e == drainLeft'
<1>7. /\ p \in Nat /\ t \in Nat /\ w \in Nat /\ read \in Nat /\ list \in Nat
      /\ d \in Nat /\ e \in Nat /\ e + 1 < p + read
  BY <1>1, <1>5, <1>6, Sums
<1>8. CallLeft = p + 4 * t + w /\ CallLeft' = 1 + 4 * t + 0
  BY <1>3, <1>4, <1>5, Sums
<1>9. QueuesLeft = read + list + d /\ QueuesLeft' = 0 + 0 + e
  BY <1>3, Sums
<1> HIDE DEF p, t, w, read, list, d, e
<1>10. /\ p + 4 * t + w \in Nat /\ 1 + 4 * t + 0 \in Nat
       /\ read + list + d \in Nat /\ 0 + 0 + e \in Nat
       /\ (1 + 4 * t + 0) + (0 + 0 + e) < (p + 4 * t + w) + (read + list + d)
  BY <1>7
<1>11. /\ CallLeft \in Nat /\ CallLeft' \in Nat /\ QueuesLeft \in Nat /\ QueuesLeft' \in Nat
       /\ CallLeft' + QueuesLeft' < CallLeft + QueuesLeft
  BY <1>8, <1>9, <1>10
<1>. QED  BY <1>11, Less

\* One term goes down and the others stay.
LEMMA QueueGetsOn ==
    ASSUME TypeOK, UNCHANGED <<pc, call, crnt>>,
           Len(commandsToRead') \in Nat, Len(transferList') \in Nat, drainLeft' \in Nat,
           Len(commandsToRead') + Len(transferList') + drainLeft'
               < Len(commandsToRead) + Len(transferList) + drainLeft
    PROVE  WorkLeft' < WorkLeft
<1>1. call.todo \in Nat /\ Len(commandsToRead) \in Nat /\ Len(transferList) \in Nat /\ drainLeft \in Nat
  BY Numbers
<1>2. CallLeft' = CallLeft
  BY DEF CallLeft, PhasesLeft
<1>3. CallLeft \in Nat
  <2>1. PhasesLeft \in Nat /\ Waste \in Nat
    BY PhasesRange, Sums
  <2>2. CallLeft = PhasesLeft + 4 * call.todo + Waste
    BY Sums
  <2>. QED  BY <1>1, <2>1, <2>2
<1>4. QueuesLeft \in Nat /\ QueuesLeft' \in Nat /\ QueuesLeft' < QueuesLeft
  BY <1>1, Sums
<1>. QED  BY <1>2, <1>3, <1>4, Less

LEMMA StepGetsOn ==
    ASSUME TypeOK, GetsOn, [Next \/ InterfaceFails]_vars, pc # "idle"
    PROVE  \/ WorkLeft' < WorkLeft
           \/ UNCHANGED <<caller, queues>> /\ Len(toProbe') < Len(toProbe)
           \/ UNCHANGED vars
<1> DEFINE read == Len(commandsToRead)
           list == Len(transferList)
<1>0. /\ call.todo \in Nat /\ read \in Nat /\ list \in Nat /\ drainLeft \in Nat
      /\ commandsToRead \in Seq(Packets) /\ toProbe \in Seq(Packets)
      /\ transferList \in Seq(1 .. Len(transfers))
  BY Numbers, Sequences
<1>00. commandsToRead # << >> => read > 0 /\ Len(Tail(commandsToRead)) = read - 1
  BY <1>0
<1>1. ~StartCall
  BY DEF StartCall, WriteReg, ReadReg, GetResult, Flush, SetDeferredTransfer, At
<1>2. CASE \/ NoRoom \/ WriteDone \/ NothingToSend \/ Raise
           \/ BacklogDone \/ ResultReady \/ ResultNeedsFlush \/ ResultLost
  BY <1>2, MoveGetsOn
<1>3. CASE AddWords
  <2>1. ~IsEmpty(crnt'.cmd) /\ call'.todo \in Nat /\ call'.todo <= call.todo - 1
    BY <1>3, AddWordsFills
  <2>2. pc = "pack" /\ pc' \in {"pack", "packSend"} /\ UNCHANGED <<commandsToRead, transferList, drainLeft>>
    BY <1>3 DEF AddWords, At
  <2>3. PhasesLeft = 6 /\ PhasesLeft' \in {5, 6} /\ Waste' = 3
    BY <2>1, <2>2, Phases, PhasesAfter DEF Waste
  <2>4. QueuesLeft' = QueuesLeft /\ QueuesLeft \in Nat
    BY <1>0, <2>2, Sums
  <2>5. CallLeft = 6 + 4 * call.todo + Waste /\ CallLeft' = PhasesLeft' + 4 * call'.todo + 3
        /\ Waste \in Nat /\ PhasesLeft' \in Nat /\ PhasesLeft' <= 6
    BY <2>3, Sums
  <2>6. CallLeft \in Nat /\ CallLeft' \in Nat /\ CallLeft' < CallLeft
    <3> DEFINE q == PhasesLeft'
               t == call.todo
               u == call'.todo
               w == Waste
    <3>1. q \in Nat /\ q <= 6 /\ t \in Nat /\ u \in Nat /\ u <= t - 1 /\ w \in Nat
      BY <1>0, <2>1, <2>5
    <3>2. CallLeft = 6 + 4 * t + w /\ CallLeft' = q + 4 * u + 3
      BY <2>5
    <3> HIDE DEF q, t, u, w
    <3>3. /\ 6 + 4 * t + w \in Nat /\ q + 4 * u + 3 \in Nat
          /\ q + 4 * u + 3 < 6 + 4 * t + w
      BY <3>1
    <3>. QED  BY <3>2, <3>3
  <2>. QED  BY <2>4, <2>6, Less
<1>4. CASE SendPacket
  <2>1. /\ pc \in {"packSend", "flushSend"} /\ pc' = AfterSend /\ ~IsEmpty(crnt.cmd)
        /\ crnt' = NewPacket(NextRead(crnt)) /\ commandsToRead' = Append(commandsToRead, crnt)
        /\ UNCHANGED <<call, transferList, drainLeft>>
    BY <1>4 DEF SendPacket, Sending, At
  <2>2. Waste = 3 /\ Waste' = 0
    BY <2>1, NewPacketEmpty DEF Waste
  <2>3. PhasesLeft \in Nat /\ PhasesLeft' \in Nat /\ PhasesLeft' <= PhasesLeft + 1
    BY <2>1, Phases, PhasesAfter DEF AfterSend
  <2>4. Len(commandsToRead') = read + 1
    BY <1>0, <2>1, Numbers
  <2>5. QueuesLeft = read + list + drainLeft /\ QueuesLeft' = (read + 1) + list + drainLeft
    BY <2>1, <2>4, Sums
  <2> HIDE DEF read, list
  <2>6. QueuesLeft \in Nat /\ QueuesLeft' \in Nat /\ QueuesLeft' = QueuesLeft + 1
    BY <1>0, <2>5
  <2>7. CallLeft = PhasesLeft + 4 * call.todo + 3 /\ CallLeft' = PhasesLeft' + 4 * call.todo + 0
    BY <2>1, <2>2, Sums
  <2>8. CallLeft \in Nat /\ CallLeft' \in Nat /\ CallLeft' + 1 < CallLeft
    <3> DEFINE p == PhasesLeft
               q == PhasesLeft'
               t == call.todo
    <3>1. p \in Nat /\ q \in Nat /\ t \in Nat /\ q <= p + 1
      BY <1>0, <2>3
    <3>2. CallLeft = p + 4 * t + 3 /\ CallLeft' = q + 4 * t + 0
      BY <2>7
    <3> HIDE DEF p, q, t
    <3>3. /\ p + 4 * t + 3 \in Nat /\ q + 4 * t + 0 \in Nat
          /\ (q + 4 * t + 0) + 1 < p + 4 * t + 3
      BY <3>1
    <3>. QED  BY <3>2, <3>3
  <2>. QED  BY <2>6, <2>8, Less
<1>5. CASE ReadPacket
  <2>1. /\ commandsToRead # << >> /\ commandsToRead' = Tail(commandsToRead)
        /\ UNCHANGED <<pc, call, crnt, transferList, drainLeft>>
    BY <1>5 DEF ReadPacket, Reading, caller
  <2>. QED  BY <1>0, <1>00, <2>1, QueueGetsOn
<1>6. CASE AddResponse
  <2>1. /\ transferList # << >> /\ transferList' = Tail(transferList)
        /\ UNCHANGED <<pc, call, crnt, commandsToRead, drainLeft>>
    BY <1>6 DEF AddResponse, DataForHead, caller
  <2>2. list > 0 /\ Len(transferList') = list - 1
    BY <1>0, <2>1
  <2>. QED  BY <1>0, <2>1, <2>2, QueueGetsOn
<1>7. CASE DrainOne \/ DrainTimesOut
  <2>1. /\ drainLeft > 0 /\ drainLeft' \in {0, drainLeft - 1}
        /\ UNCHANGED <<pc, call, crnt, commandsToRead, transferList>>
    BY <1>7 DEF DrainOne, DrainTimesOut, caller
  <2>. QED  BY <1>0, <2>1, QueueGetsOn
<1>8. CASE ReadBadPacket \/ ReadTimesOut
  <2>1. commandsToRead # << >> /\ \E error : Abort(error, Len(Tail(commandsToRead)))
    BY <1>8 DEF ReadBadPacket, ReadTimesOut, Reading
  <2>. QED  BY <1>0, <1>00, <2>1, AbortGetsOn
<1>9. CASE WriteFails
  <2>1. pc \in {"packSend", "flushSend"} /\ Abort("DeviceError", read)
    BY <1>9 DEF WriteFails, Sending, At
  <2>. QED  BY <1>0, <2>1, AbortGetsOn
<1>10. CASE Probe
  <2>1. toProbe # << >> /\ toProbe' = Tail(toProbe) /\ UNCHANGED <<caller, queues>>
    BY <1>10 DEF Probe, ProbeExecutes
  <2>2. Len(toProbe') < Len(toProbe)
    BY <1>0, <2>1
  <2>. QED  BY <2>1, <2>2
<1>11. CASE UNCHANGED vars
  BY <1>11
<1>. QED  BY <1>1, <1>2, <1>3, <1>4, <1>5, <1>6, <1>7, <1>8, <1>9, <1>10, <1>11
          DEF Next, ContinueCall, InterfaceFails

\* No loop of the engine goes round without getting on, whatever fails.
THEOREM CallsAdvance == FailingSpec => CallsGetOn
<1>1. Init => GetsOn
  BY NewPacketEmpty DEF Init, GetsOn
<1>2. TypeOK /\ GetsOn /\ [Next \/ InterfaceFails]_vars => GetsOn'
  BY GetsOnStep
<1>3. TypeOK /\ GetsOn /\ [Next \/ InterfaceFails]_vars
          => [pc # "idle" => \/ WorkLeft' < WorkLeft
                             \/ UNCHANGED <<caller, queues>> /\ Len(toProbe') < Len(toProbe)]_vars
  BY StepGetsOn
<1>. QED  BY <1>1, <1>2, <1>3, TypeCorrect, PTL DEF FailingSpec, CallsGetOn

------------------------------------------------------------------------------
(* The port that the engine implements *)

\* The list holds the pending transfers, all of them, oldest first; the bound on
\* accesses bounds their number.
Listed ==
    /\ \A i \in 1 .. Len(transferList) : transfers[transferList[i]].state = "pending"
    /\ \A i, j \in 1 .. Len(transferList) : i < j => transferList[i] < transferList[j]
    /\ \A t \in 1 .. Len(transfers) :
           transfers[t].state = "pending" => \E i \in 1 .. Len(transferList) : transferList[i] = t
    /\ Len(transfers) <= accesses /\ accesses <= MaxAccesses

PortStatus == [t \in 1 .. MaxAccesses |-> Status(t)]

\* How a step shows at the port.
PortStep == Port!Next \/ UNCHANGED PortStatus

LEMMA StatusOf ==
    ASSUME OwnResults, transfers \in Seq(Transfers), NEW t \in Nat
    PROVE  /\ t > Len(transfers) => Status(t) = "free"
           /\ t \in 1 .. Len(transfers) =>
                  /\ transfers[t].state \in {"pending", "done", "failed"}
                  /\ transfers[t].state = "pending" => Status(t) = "pending"
                  /\ transfers[t].state = "failed"  => Status(t) = "failed"
                  /\ transfers[t].state = "done"    => Status(t) = "answered"
<1>1. CASE t > Len(transfers)
  BY <1>1 DEF Status
<1>2. CASE t \in 1 .. Len(transfers)
  <2>1. transfers[t] \in Transfers /\ t \in DOMAIN transfers /\ ~(t > Len(transfers))
    BY <1>2
  <2>2. transfers[t].state \in {"pending", "done", "failed"}
    BY <2>1 DEF Transfers
  <2>3. transfers[t].state = "done" => transfers[t].result = OwnWords(transfers[t])
    BY <2>1 DEF OwnResults
  <2>. QED  BY <1>2, <2>1, <2>2, <2>3 DEF Status
<1>. QED  BY <1>1, <1>2

\* The same of the next state.
LEMMA StatusAfter ==
    ASSUME OwnResults', transfers' \in Seq(Transfers), NEW t \in Nat
    PROVE  /\ t > Len(transfers') => Status(t)' = "free"
           /\ t \in 1 .. Len(transfers') =>
                  /\ transfers'[t].state \in {"pending", "done", "failed"}
                  /\ transfers'[t].state = "pending" => Status(t)' = "pending"
                  /\ transfers'[t].state = "failed"  => Status(t)' = "failed"
                  /\ transfers'[t].state = "done"    => Status(t)' = "answered"
<1>1. CASE t > Len(transfers')
  BY <1>1 DEF Status
<1>2. CASE t \in 1 .. Len(transfers')
  <2>1. transfers'[t] \in Transfers /\ t \in DOMAIN transfers' /\ ~(t > Len(transfers'))
    BY <1>2
  <2>2. transfers'[t].state \in {"pending", "done", "failed"}
    BY <2>1 DEF Transfers
  <2>3. transfers'[t].state = "done" => transfers'[t].result = OwnWords(transfers'[t])
    BY <2>1 DEF OwnResults
  <2>. QED  BY <1>2, <2>1, <2>2, <2>3 DEF Status
<1>. QED  BY <1>1, <1>2

\* A transfer that a step leaves alone keeps its status.
LEMMA StatusKept ==
    ASSUME NEW t, ~(t > Len(transfers')), ~(t > Len(transfers)), transfers'[t] = transfers[t]
    PROVE  Status(t)' = Status(t)
<1> DEFINE before == transfers[t]
           after  == transfers'[t]
<1>1. after = before
  OBVIOUS
<1>2. Status(t) = CASE before.state = "pending" -> "pending"
                    [] before.state = "failed"  -> "failed"
                    [] before.state = "done"    ->
                           IF before.result = OwnWords(before) THEN "answered" ELSE "mixed up"
  BY DEF Status
<1>3. Status(t)' = CASE after.state = "pending" -> "pending"
                     [] after.state = "failed"  -> "failed"
                     [] after.state = "done"    ->
                            IF after.result = OwnWords(after) THEN "answered" ELSE "mixed up"
  BY DEF Status, OwnWords
<1> HIDE DEF before, after
<1>. QED  BY <1>1, <1>2, <1>3

\* Steps that leave the transfers alone are invisible at the port.
LEMMA QuietStep ==
    ASSUME Listed, UNCHANGED <<transfers, transferList>>, accesses <= accesses',
           accesses' <= MaxAccesses, Len(transfers) \in Nat, accesses \in Nat, accesses' \in Nat
    PROVE  Listed' /\ PortStep
<1>1. Listed'
  BY DEF Listed
<1>2. UNCHANGED PortStatus
  BY DEF PortStatus, Status
<1>. QED  BY <1>1, <1>2 DEF PortStep

LEMMA InitPort == Init => Listed /\ Port!Init
<1>. SUFFICES ASSUME Init PROVE Listed /\ Port!Init
  OBVIOUS
<1>1. transfers = << >> /\ transferList = << >> /\ accesses = 0
  BY DEF Init
<1>2. Listed
  BY <1>1, LinkAssumption DEF Listed
<1>3. \A t \in 1 .. MaxAccesses : Status(t) = "free"
  BY <1>1, LinkAssumption DEF Status
<1>4. Port!Init
  BY <1>3 DEF Port!Init
<1>. QED  BY <1>2, <1>4

\* A read is asked for.
LEMMA ReadRegAsks ==
    ASSUME IInv, IInv', Listed, NEW count \in Counts, NEW request \in ReadRequests,
           NEW now \in BOOLEAN, ReadReg(count, request, now)
    PROVE  Listed' /\ PortStep
<1> DEFINE r == Len(transfers) + 1
           k == Len(transferList) + 1
           new == NewTransfer(count)
<1>1. /\ transfers' = Append(transfers, new) /\ transferList' = Append(transferList, r)
      /\ accesses < MaxAccesses /\ accesses' = accesses + 1
  BY DEF ReadReg, Enqueue
<1>2. /\ transfers \in Seq(Transfers) /\ transferList \in Seq(1 .. Len(transfers))
      /\ Len(transfers) \in Nat /\ Len(transferList) \in Nat /\ OwnResults
      /\ transfers' \in Seq(Transfers) /\ OwnResults'
  <2>1. TypeOK /\ TypeOK' /\ OwnResults /\ OwnResults'
    BY DEF IInv
  <2>2. transfers' \in Seq(Transfers)
    BY <2>1 DEF TypeOK, Transfers
  <2>. QED  BY <2>1, <2>2, Sequences, Numbers
<1>3. accesses \in Nat /\ MaxAccesses \in Nat /\ Len(transfers) <= accesses
  BY LinkAssumption DEF IInv, TypeOK, Listed
<1>4. new.state = "pending"
  BY DEF NewTransfer
<1> HIDE DEF new
<1>5. /\ Len(transfers') = r /\ transfers'[r].state = "pending"
      /\ \A t \in 1 .. Len(transfers) : transfers'[t] = transfers[t]
  BY <1>1, <1>2, <1>4
<1>6. /\ Len(transferList') = k /\ transferList'[k] = r
      /\ \A i \in 1 .. Len(transferList) : transferList'[i] = transferList[i]
      /\ \A i \in 1 .. Len(transferList) : transferList[i] \in 1 .. Len(transfers)
  BY <1>1, <1>2
<1>7. Listed'
  <2>1. ASSUME NEW i \in 1 .. k
        PROVE  transfers'[transferList'[i]].state = "pending"
    <3>1. CASE i = k
      BY <1>5, <1>6, <3>1
    <3>2. CASE i # k
      <4>1. i \in 1 .. Len(transferList)
        BY <1>2, <3>2
      <4>. QED  BY <1>5, <1>6, <4>1 DEF Listed
    <3>. QED  BY <3>1, <3>2
  <2>2. ASSUME NEW i \in 1 .. k, NEW j \in 1 .. k, i < j
        PROVE  transferList'[i] < transferList'[j]
    <3>1. i \in 1 .. Len(transferList)
      BY <1>2, <2>2
    <3>2. CASE j = k
      BY <1>2, <1>6, <3>1, <3>2
    <3>3. CASE j # k
      <4>1. j \in 1 .. Len(transferList)
        BY <1>2, <3>3
      <4>. QED  BY <1>6, <2>2, <3>1, <4>1 DEF Listed
    <3>. QED  BY <3>2, <3>3
  <2>3. ASSUME NEW t \in 1 .. r, transfers'[t].state = "pending"
        PROVE  \E i \in 1 .. k : transferList'[i] = t
    <3>1. CASE t = r
      BY <1>2, <1>6, <3>1
    <3>2. CASE t # r
      <4>1. t \in 1 .. Len(transfers)
        BY <1>2, <3>2
      <4>2. PICK i \in 1 .. Len(transferList) : transferList[i] = t
        BY <1>5, <2>3, <4>1 DEF Listed
      <4>. QED  BY <1>2, <1>6, <4>2
    <3>. QED  BY <3>1, <3>2
  <2>4. r <= accesses' /\ accesses' <= MaxAccesses
    BY <1>1, <1>2, <1>3
  <2>. QED  BY <1>5, <1>6, <2>1, <2>2, <2>3, <2>4 DEF Listed
<1>8. PortStep
  <2>1. r \in 1 .. MaxAccesses
    BY <1>1, <1>2, <1>3
  <2>2. Status(r) = "free" /\ \A q \in 1 .. MaxAccesses : q < r => Status(q) # "free"
    <3>1. Status(r) = "free"
      BY <1>2, StatusOf
    <3>2. ASSUME NEW q \in 1 .. MaxAccesses, q < r PROVE Status(q) # "free"
      <4>1. q \in 1 .. Len(transfers) /\ q \in Nat
        BY <1>2, <3>2
      <4>. QED  BY <1>2, <4>1, StatusOf
    <3>. QED  BY <3>1, <3>2
  <2>3. ASSUME NEW t \in 1 .. MaxAccesses
        PROVE  Status(t)' = IF t = r THEN "pending" ELSE Status(t)
    <3>1. CASE t = r
      <4>1. r \in 1 .. Len(transfers') /\ r \in Nat
        BY <1>2, <1>5
      <4>. QED  BY <1>2, <1>5, <3>1, <4>1, StatusAfter
    <3>2. CASE t < r
      <4>1. t \in 1 .. Len(transfers) /\ ~(t > Len(transfers)) /\ ~(t > Len(transfers'))
        BY <1>2, <1>5, <3>2
      <4>2. transfers'[t] = transfers[t]
        BY <1>5, <4>1
      <4>3. Status(t)' = Status(t)
        BY <4>1, <4>2, StatusKept
      <4>. QED  BY <1>2, <3>2, <4>3
    <3>3. CASE t > r
      <4>1. t \in Nat /\ t > Len(transfers) /\ t > Len(transfers')
        BY <1>2, <1>5, <3>3
      <4>. QED  BY <1>2, <3>3, <4>1 DEF Status
    <3>4. t \in Nat /\ r \in Nat /\ (t = r \/ t < r \/ t > r)
      BY <1>2
    <3>. QED  BY <3>1, <3>2, <3>3, <3>4
  <2>4. PortStatus' = [PortStatus EXCEPT ![r] = "pending"]
    BY <2>1, <2>3 DEF PortStatus
  <2>5. Port!Ask(r)
    BY <2>1, <2>2, <2>4 DEF Port!Ask, PortStatus
  <2>. QED  BY <2>1, <2>5 DEF PortStep, Port!Next
<1>. QED  BY <1>7, <1>8

\* An abort fails every pending read.
LEMMA AbortFailsPending ==
    ASSUME IInv, IInv', Listed, NEW error, NEW inFlight, Abort(error, inFlight)
    PROVE  Listed' /\ PortStep
<1>1. /\ transfers \in Seq(Transfers) /\ transferList \in Seq(1 .. Len(transfers))
      /\ Len(transfers) \in Nat /\ Len(transferList) \in Nat /\ OwnResults
      /\ transfers' \in Seq(Transfers) /\ OwnResults'
  <2>1. TypeOK /\ TypeOK' /\ OwnResults /\ OwnResults'
    BY DEF IInv
  <2>2. transfers' \in Seq(Transfers)
    BY <2>1 DEF TypeOK, Transfers
  <2>. QED  BY <2>1, <2>2, Sequences, Numbers
<1>2. /\ transferList' = << >> /\ accesses' = accesses
      /\ transfers' = [t \in DOMAIN transfers |->
                          IF \E i \in DOMAIN transferList : transferList[i] = t
                          THEN [transfers[t] EXCEPT !.state = "failed"]
                          ELSE transfers[t]]
  BY DEF Abort, InitDeferredBuffers
<1>3. /\ DOMAIN transfers = 1 .. Len(transfers) /\ DOMAIN transferList = 1 .. Len(transferList)
      /\ \A t \in 1 .. Len(transfers) : transfers[t] \in Transfers
  BY <1>1
<1>4. Len(transfers') = Len(transfers)
  BY <1>1, <1>2, <1>3
<1>5. ASSUME NEW t \in 1 .. Len(transfers)
      PROVE  IF transfers[t].state = "pending" THEN transfers'[t].state = "failed"
                                              ELSE transfers'[t] = transfers[t]
  <2>1. CASE transfers[t].state = "pending"
    <3>1. \E i \in DOMAIN transferList : transferList[i] = t
      BY <1>3, <2>1 DEF Listed
    <3>2. transfers'[t] = [transfers[t] EXCEPT !.state = "failed"]
      BY <1>2, <1>3, <3>1
    <3>. QED  BY <1>3, <2>1, <3>2 DEF Transfers
  <2>2. CASE transfers[t].state # "pending"
    <3>1. ~ \E i \in DOMAIN transferList : transferList[i] = t
      BY <1>3, <2>2 DEF Listed
    <3>. QED  BY <1>2, <1>3, <2>2, <3>1
  <2>. QED  BY <2>1, <2>2
<1>6. Listed'
  <2>1. \A t \in 1 .. Len(transfers') : transfers'[t].state # "pending"
    BY <1>4, <1>5
  <2>2. Len(transferList') = 0
    BY <1>2
  <2>. QED  BY <1>2, <1>4, <2>1, <2>2 DEF Listed
<1>7. PortStep
  <2>1. ASSUME NEW t \in 1 .. MaxAccesses
        PROVE  Status(t)' = IF Status(t) = "pending" THEN "failed" ELSE Status(t)
    <3>1. CASE t > Len(transfers)
      BY <1>1, <1>4, <3>1, StatusOf, StatusAfter
    <3>2. CASE t \in 1 .. Len(transfers) /\ transfers[t].state = "pending"
      BY <1>1, <1>4, <1>5, <3>2, StatusOf, StatusAfter
    <3>3. CASE t \in 1 .. Len(transfers) /\ transfers[t].state # "pending"
      <4>1. transfers'[t] = transfers[t]
        BY <1>5, <3>3
      <4>2. Status(t)' = Status(t)
        BY <1>1, <1>4, <3>3, <4>1, StatusKept
      <4>3. Status(t) # "pending"
        BY <1>1, <3>3, StatusOf
      <4>. QED  BY <4>2, <4>3
    <3>. QED  BY <1>1, <3>1, <3>2, <3>3
  <2>2. PortStatus' = [t \in 1 .. MaxAccesses |->
                          IF PortStatus[t] = "pending" THEN "failed" ELSE PortStatus[t]]
    BY <2>1 DEF PortStatus
  <2>3. Port!FailPending
    BY <2>2 DEF Port!FailPending, PortStatus
  <2>. QED  BY <2>3 DEF PortStep, Port!Next
<1>. QED  BY <1>6, <1>7

\* The oldest pending read is answered with its own words.
LEMMA AddResponseAnswers ==
    ASSUME IInv, IInv', Listed, AddResponse
    PROVE  Listed' /\ PortStep
<1> DEFINE r == Head(transferList)
           n == Len(transferList)
           data == SubSeq(responseBuf, 1, transfers[r].count)
<1>1. /\ transfers \in Seq(Transfers) /\ transferList \in Seq(1 .. Len(transfers))
      /\ Len(transfers) \in Nat /\ n \in Nat /\ OwnResults
      /\ transfers' \in Seq(Transfers) /\ OwnResults'
  <2>1. TypeOK /\ TypeOK' /\ OwnResults /\ OwnResults'
    BY DEF IInv
  <2>2. transfers' \in Seq(Transfers)
    BY <2>1 DEF TypeOK, Transfers
  <2>. QED  BY <2>1, <2>2, Sequences, Numbers
<1>2. /\ transferList # << >> /\ transferList' = Tail(transferList) /\ accesses' = accesses
      /\ transfers' = [transfers EXCEPT ![r].state = "done", ![r].result = data]
  BY DEF AddResponse, DataForHead, bounds
<1>3. /\ n > 0 /\ r = transferList[1] /\ r \in 1 .. Len(transfers)
      /\ Len(transferList') = n - 1
      /\ \A i \in 1 .. n - 1 : transferList'[i] = transferList[i + 1]
      /\ \A i \in 1 .. n : transferList[i] \in 1 .. Len(transfers)
  BY <1>1, <1>2
<1>4. transfers[r] \in Transfers /\ transfers[r].state = "pending"
  <2>1. transfers[r] \in Transfers
    BY <1>1, <1>3
  <2>. QED  BY <1>1, <1>3, <2>1 DEF Listed
<1>5. /\ Len(transfers') = Len(transfers) /\ transfers'[r].state = "done"
      /\ \A t \in 1 .. Len(transfers) : t # r => transfers'[t] = transfers[t]
  <2>1. transfers' = [transfers EXCEPT ![r] = [transfers[r] EXCEPT !.state = "done",
                                                                   !.result = data]]
    BY <1>2
  <2>2. [transfers[r] EXCEPT !.state = "done", !.result = data].state = "done"
    BY <1>4 DEF Transfers
  <2> HIDE DEF r, data
  <2>. QED  BY <1>1, <1>3, <2>1, <2>2
<1> HIDE DEF r, data
<1>6. Listed'
  <2>1. ASSUME NEW i \in 1 .. n - 1
        PROVE  transfers'[transferList'[i]].state = "pending"
    <3>1. i + 1 \in 1 .. n /\ 1 \in 1 .. n /\ 1 < i + 1
      BY <1>1
    <3>2. transferList[i + 1] # r /\ transfers[transferList[i + 1]].state = "pending"
      BY <1>3, <3>1 DEF Listed
    <3>. QED  BY <1>3, <1>5, <3>1, <3>2
  <2>2. ASSUME NEW i \in 1 .. n - 1, NEW j \in 1 .. n - 1, i < j
        PROVE  transferList'[i] < transferList'[j]
    <3>1. i + 1 \in 1 .. n /\ j + 1 \in 1 .. n /\ i + 1 < j + 1
      BY <1>1, <2>2
    <3>. QED  BY <1>3, <3>1 DEF Listed
  <2>3. ASSUME NEW t \in 1 .. Len(transfers), transfers'[t].state = "pending"
        PROVE  \E i \in 1 .. n - 1 : transferList'[i] = t
    <3>1. t # r /\ transfers[t].state = "pending"
      BY <1>5, <2>3
    <3>2. PICK j \in 1 .. n : transferList[j] = t
      BY <3>1 DEF Listed
    <3>3. j # 1
      BY <1>3, <3>1, <3>2
    <3>4. j - 1 \in 1 .. n - 1 /\ (j - 1) + 1 = j
      BY <1>1, <3>3
    <3>5. transferList'[j - 1] = t
      BY <1>3, <3>2, <3>4
    <3>. QED  BY <3>4, <3>5
  <2>4. Len(transfers') <= accesses' /\ accesses' <= MaxAccesses
    BY <1>2, <1>5 DEF Listed
  <2>. QED  BY <1>3, <1>5, <2>1, <2>2, <2>3, <2>4 DEF Listed
<1>7. PortStep
  <2>1. r \in 1 .. MaxAccesses
    <3>1. accesses \in Nat /\ MaxAccesses \in Nat
      BY LinkAssumption DEF IInv, TypeOK
    <3>2. Len(transfers) <= accesses /\ accesses <= MaxAccesses
      BY DEF Listed
    <3>. QED  BY <1>1, <1>3, <3>1, <3>2
  <2>2. Status(r) = "pending"
    <3>1. r \in Nat
      BY <1>1, <1>3
    <3>. QED  BY <1>1, <1>3, <1>4, <3>1, StatusOf
  <2>3. ASSUME NEW q \in 1 .. MaxAccesses, q < r PROVE Status(q) # "pending"
    <3>1. q \in 1 .. Len(transfers)
      BY <1>1, <1>3, <2>3
    <3>2. transfers[q].state # "pending"
      <4>1. SUFFICES ASSUME NEW i \in 1 .. n, transferList[i] = q PROVE FALSE
        BY <3>1 DEF Listed
      <4>2. i = 1 \/ 1 < i
        BY <1>1
      <4>3. 1 < i => transferList[1] < transferList[i]
        <5>1. 1 \in 1 .. n
          BY <1>1, <1>3
        <5>. QED  BY <5>1 DEF Listed
      <4>. QED  BY <1>1, <1>3, <2>3, <3>1, <4>1, <4>2, <4>3
    <3>. QED  BY <1>1, <3>1, <3>2, StatusOf
  <2>4. ASSUME NEW t \in 1 .. MaxAccesses
        PROVE  Status(t)' = IF t = r THEN "answered" ELSE Status(t)
    <3>1. CASE t = r
      <4>1. t \in Nat /\ t \in 1 .. Len(transfers') /\ transfers'[t].state = "done"
        BY <1>1, <1>3, <1>5, <3>1
      <4>2. Status(t)' = "answered"
        BY <1>1, <4>1, StatusAfter
      <4>. QED  BY <3>1, <4>2
    <3>2. CASE t # r /\ t \in 1 .. Len(transfers)
      <4>1. transfers'[t] = transfers[t]
        BY <1>5, <3>2
      <4>. QED  BY <1>5, <3>2, <4>1, StatusKept
    <3>3. CASE t # r /\ t > Len(transfers)
      BY <1>5, <3>3 DEF Status
    <3>. QED  BY <1>1, <3>1, <3>2, <3>3
  <2>5. PortStatus' = [PortStatus EXCEPT ![r] = "answered"]
    BY <2>1, <2>4 DEF PortStatus
  <2>6. Port!AnswerWithOwnWords(r)
    BY <2>1, <2>2, <2>3, <2>5 DEF Port!AnswerWithOwnWords, Port!Oldest, PortStatus
  <2>. QED  BY <2>1, <2>6 DEF PortStep, Port!Next
<1>. QED  BY <1>6, <1>7

-----------------------------------------------------------------------------
LEMMA NextPort ==
    ASSUME IInv, IInv', Listed, [Next]_vars
    PROVE  Listed' /\ PortStep
<1>1. Len(transfers) \in Nat /\ accesses \in Nat /\ MaxAccesses \in Nat /\ accesses <= MaxAccesses
  BY Numbers, LinkAssumption DEF IInv, TypeOK, Listed
<1>2. ASSUME NEW count \in Counts, NEW request \in WriteRequests, WriteReg(count, request)
      PROVE  Listed' /\ PortStep
  BY <1>1, <1>2, QuietStep DEF WriteReg, queues
<1>3. CASE \E count \in Counts, request \in ReadRequests, now \in BOOLEAN :
               ReadReg(count, request, now)
  BY <1>3, ReadRegAsks
<1>4. CASE ReadBadPacket
  BY <1>4, AbortFailsPending DEF ReadBadPacket
<1>5. CASE AddResponse
  BY <1>5, AddResponseAnswers
<1>6. CASE \/ \E t \in held : GetResult(t)
           \/ Flush
           \/ \E enable \in BOOLEAN : SetDeferredTransfer(enable)
           \/ AddWords \/ NoRoom \/ WriteDone \/ SendPacket \/ NothingToSend
           \/ ReadPacket \/ DrainOne \/ Raise
           \/ BacklogDone \/ ResultReady \/ ResultNeedsFlush \/ ResultLost
           \/ Probe \/ UNCHANGED vars
  <2>1. UNCHANGED <<transfers, transferList, accesses>>
    BY <1>6 DEF GetResult, Flush, SetDeferredTransfer, AddWords, NoRoom, WriteDone, SendPacket,
       NothingToSend, ReadPacket, DrainOne, Raise, BacklogDone, ResultReady, ResultNeedsFlush,
       ResultLost, Probe, ProbeExecutes, vars, queues, bounds
  <2>. QED  BY <1>1, <2>1, QuietStep
<1>. QED  BY <1>2, <1>3, <1>4, <1>5, <1>6 DEF Next, StartCall, ContinueCall

\* Reads are answered in the order they were asked for, each with its own words
\* and once; a refused packet fails all that are pending, for good.
THEOREM PortRefined == Spec => ImplementsPort
<1>1. Init => IInv /\ Listed /\ Port!Init
  BY InitInv, InitPort
<1>2. IInv /\ IInv' /\ Listed /\ [Next]_vars => Listed' /\ PortStep
  BY NextPort
<1>3. PortStep => [Port!Next]_([t \in 1 .. MaxAccesses |-> Status(t)])
  BY DEF PortStep, PortStatus
<1>. QED  BY <1>1, <1>2, <1>3, Invariant, PTL DEF Spec, ImplementsPort, Port!Spec

------------------------------------------------------------------------------
(* What a flush, and a read that flushes, leave behind *)

\* What flush reads its backlog for has been sent.
SentFirst == pc = "backlog" => IsEmpty(crnt.cmd)

\* get_result is waiting for a transfer.
GetWants == pc = "get" => call.want # 0

\* A pending transfer asks for no word beyond those packed or still to pack.
ListEnds ==
    \A i \in 1 .. Len(transferList) : First(i) + Count(i) <= NextRead(crnt) + TodoWords

\* The words of an answered transfer have left the response buffer.
DoneEnds ==
    \A t \in 1 .. Len(transfers) :
        transfers[t].state = "done" =>
            transfers[t].first + transfers[t].count <= NextWord - Len(responseBuf)

\* The read in progress is that of the newest transfer.  Once it is packed its
\* words are the last: the current packet, if it holds anything, holds some of
\* them, and so does the newest packet in flight.
ReadEnds ==
    call.request \in ReadRequests =>
        /\ call.want # 0 => call.want = Len(transfers)
        /\ transfers[Len(transfers)].first + transfers[Len(transfers)].count
               = NextRead(crnt) + call.todo
        /\ call.todo = 0 =>
               /\ IsEmpty(crnt.cmd) \/ crnt.cmd.readCount > 0
               /\ \A i \in 1 .. Len(commandsToRead) : commandsToRead[i].first < NextRead(crnt)

Ends == SentFirst /\ GetWants /\ ListEnds /\ DoneEnds /\ ReadEnds

LEMMA InitEnds == Init => Ends
<1>. SUFFICES ASSUME Init PROVE Ends
  OBVIOUS
<1>1. pc = "idle" /\ transfers = << >> /\ transferList = << >> /\ call.request = NoRequest
  BY DEF Init, NoCall
<1>2. call.request \notin ReadRequests
  BY <1>1, RequestAssumption
<1>. QED  BY <1>1, <1>2 DEF Ends, SentFirst, GetWants, ListEnds, DoneEnds, ReadEnds

\* Packets in flight ask for words before those of the current one.
LEMMA FlightIsBehind ==
    ASSUME IInv
    PROVE  /\ \A i \in 1 .. Len(commandsToRead) :
                  commandsToRead[i] \in Packets /\ commandsToRead[i].first <= crnt.first
           /\ NextWord <= crnt.first /\ NextWord <= NextRead(crnt)
<1>1. TypeOK /\ PacketsFollow
  BY DEF IInv, Order
<1>2. commandsToRead \in Seq(Packets) /\ crnt.first \in Nat /\ NextRead(crnt) \in Nat
      /\ crnt.first <= NextRead(crnt)
  BY <1>1, Sequences, Numbers
<1>3. ASSUME NEW i \in 1 .. Len(commandsToRead)
      PROVE  commandsToRead[i] \in Packets /\ commandsToRead[i].first \in Nat
             /\ commandsToRead[i].first <= crnt.first
  <2>1. commandsToRead[i] \in Packets
    BY <1>2
  <2>2. /\ commandsToRead[i].first \in Nat /\ commandsToRead[i].cmd.readCount \in Nat
        /\ NextRead(commandsToRead[i]) = commandsToRead[i].first + commandsToRead[i].cmd.readCount
    BY <2>1, PacketNats
  <2>3. NextRead(commandsToRead[i]) <= crnt.first
    BY <1>1 DEF PacketsFollow
  <2>. QED  BY <1>2, <2>1, <2>2, <2>3
<1>4. commandsToRead # << >> => 1 \in 1 .. Len(commandsToRead)
  BY <1>2
<1>5. NextWord <= crnt.first
  BY <1>2, <1>3, <1>4 DEF NextWord
<1>6. NextWord \in Nat
  BY <1>1, Numbers
<1>. QED  BY <1>2, <1>3, <1>5, <1>6

\* Steps that leave the queues the words pass through alone.
LEMMA QuietKeepsEnds ==
    ASSUME Ends, UNCHANGED <<transfers, transferList, crnt, commandsToRead, responseBuf>>,
           pc' = "backlog" => pc = "backlog" \/ IsEmpty(crnt.cmd),
           pc' = "get" => (pc = "get" /\ call' = call) \/ call'.want # 0,
           transferList # << >> => TodoWords' = TodoWords,
           call'.request \in ReadRequests => call' = call
    PROVE  Ends'
<1>1. SentFirst' /\ GetWants' /\ DoneEnds'
  BY DEF Ends, SentFirst, GetWants, DoneEnds, NextWord
<1>2. ListEnds'
  BY DEF Ends, ListEnds, First, Count
<1>3. ReadEnds'
  BY DEF Ends, ReadEnds
<1>. QED  BY <1>1, <1>2, <1>3 DEF Ends

LEMMA CallerActionsKeepEnds ==
    ASSUME IInv, Ends, CallerActions
    PROVE  Ends'
<1>1. TodoOnlyPacking /\ NoCall.todo = 0 /\ NoCall.request \notin ReadRequests
  BY RequestAssumption DEF IInv, NoCall
<1>2. ASSUME NEW count \in Counts, NEW request \in WriteRequests, WriteReg(count, request)
      PROVE  Ends'
  <2>1. call'.request \notin ReadRequests /\ call.todo = 0 /\ pc' = "pack" /\ UNCHANGED queues
    BY <1>1, <1>2, RequestAssumption DEF WriteReg, At, NoCall, TodoOnlyPacking
  <2>. QED  BY <2>1, QuietKeepsEnds DEF queues, TodoWords
<1>3. CASE NoRoom \/ NothingToSend
  <2>1. /\ call' = call /\ UNCHANGED queues /\ pc' # "get"
        /\ pc' = "backlog" => IsEmpty(crnt.cmd)
    BY <1>3 DEF NoRoom, NothingToSend, AfterSend
  <2>. QED  BY <2>1, QuietKeepsEnds DEF queues, TodoWords
<1>4. CASE \/ \E t \in held : GetResult(t)
           \/ Flush
           \/ \E enable \in BOOLEAN : SetDeferredTransfer(enable)
           \/ WriteDone \/ BacklogDone \/ ResultReady \/ ResultNeedsFlush \/ ResultLost
  <2>1. UNCHANGED queues /\ pc' # "backlog" /\ call.todo = 0
    <3>1. pc \in {"idle", "get", "backlog"} \/ call.todo = 0
      BY <1>4 DEF GetResult, Flush, SetDeferredTransfer, WriteDone, BacklogDone, ResultReady,
                  ResultNeedsFlush, ResultLost, At
    <3>2. call.todo = 0
      BY <1>1, <3>1 DEF TodoOnlyPacking
    <3>. QED  BY <1>4, <3>2
              DEF GetResult, Flush, SetDeferredTransfer, WriteDone, BacklogDone, ResultReady,
                  ResultNeedsFlush, ResultLost, At, Return, ReturnFromWrite
  <2>2. call' = call \/ (call'.todo = 0 /\ call'.request \notin ReadRequests)
    <3>1. \A t : /\ [NoCall EXCEPT !.want = t].todo = 0
                 /\ [NoCall EXCEPT !.want = t].request \notin ReadRequests
      BY <1>1 DEF NoCall
    <3>2. /\ [NoCall EXCEPT !.undefer = TRUE].todo = 0
          /\ [NoCall EXCEPT !.undefer = TRUE].request \notin ReadRequests
      BY <1>1 DEF NoCall
    <3>. QED  BY <1>1, <1>4, <3>1, <3>2
              DEF GetResult, Flush, SetDeferredTransfer, WriteDone, BacklogDone, ResultReady,
                  ResultNeedsFlush, ResultLost, Return, ReturnFromWrite
  <2>3. pc' = "get" => call'.want # 0
    <3>1. CASE \E t \in held : GetResult(t)
      <4>1. PICK t \in held : GetResult(t)
        BY <3>1
      <4>2. t # 0
        BY Numbers, TypeParts DEF IInv, CallerOK
      <4>. QED  BY <4>1, <4>2 DEF GetResult, NoCall
    <3>2. CASE Flush \/ \E enable \in BOOLEAN : SetDeferredTransfer(enable)
      BY <3>2 DEF Flush, SetDeferredTransfer, At
    <3>3. CASE WriteDone \/ BacklogDone
      BY <3>3 DEF WriteDone, BacklogDone, Return, ReturnFromWrite
    <3>4. CASE ResultReady \/ ResultNeedsFlush \/ ResultLost
      BY <3>4 DEF ResultReady, ResultNeedsFlush, ResultLost, Return
    <3>. QED  BY <1>4, <3>1, <3>2, <3>3, <3>4
  <2>. QED  BY <2>1, <2>2, <2>3, QuietKeepsEnds DEF queues, TodoWords
<1>. QED  BY <1>2, <1>3, <1>4 DEF CallerActions

LEMMA ReadRegKeepsEnds ==
    ASSUME IInv, Ends, NEW count \in Counts, NEW request \in ReadRequests, NEW now \in BOOLEAN,
           ReadReg(count, request, now)
    PROVE  Ends'
<1> DEFINE k == Len(transferList) + 1
           t == NewTransfer(count)
<1>1. /\ pc = "idle" /\ pc' = "pack" /\ transfers' = Append(transfers, t)
      /\ transferList' = Append(transferList, Len(transfers) + 1)
      /\ UNCHANGED <<crnt, commandsToRead, responseBuf>>
  BY DEF ReadReg, At, Enqueue
<1>2. TypeOK /\ TodoWords = 0 /\ NextRead(crnt) \in Nat
  BY <1>1, Numbers DEF IInv, TodoOnlyPacking, TodoWords
<1>3. call'.todo = count /\ call'.request = request /\ count \in Nat /\ count > 0
      /\ call'.want \in {0, Len(transfers) + 1}
  BY LinkAssumption DEF ReadReg, NoCall
<1>4. t.first = NextRead(crnt) /\ t.count = count /\ t.state = "pending"
  BY DEF NewTransfer
<1> HIDE DEF t
<1>5. /\ Len(transfers) \in Nat /\ Len(transferList) \in Nat
      /\ Len(transfers') = Len(transfers) + 1 /\ transfers'[Len(transfers) + 1] = t
      /\ \A j \in 1 .. Len(transfers) : transfers'[j] = transfers[j]
      /\ Len(transferList') = k /\ transferList'[k] = Len(transfers) + 1
      /\ \A i \in 1 .. Len(transferList) : transferList'[i] = transferList[i]
  BY <1>1, <1>2, Sequences
<1>6. NextWord' = NextWord /\ NextRead(crnt)' = NextRead(crnt) /\ TodoWords' = count
  BY <1>1, <1>3 DEF NextWord, TodoWords
<1>7. ListEnds'
  <2> SUFFICES ASSUME NEW i \in 1 .. k
               PROVE  transfers'[transferList'[i]].first + transfers'[transferList'[i]].count
                          <= NextRead(crnt) + count
    BY <1>5, <1>6 DEF ListEnds, First, Count
  <2>1. CASE i = k
    BY <1>2, <1>3, <1>4, <1>5, <2>1
  <2>2. CASE i # k
    <3>1. i \in 1 .. Len(transferList)
      BY <1>5, <2>2
    <3>2. transferList[i] \in 1 .. Len(transfers) /\ First(i) \in Nat /\ Count(i) \in Nat
      BY <1>2, <3>1, Pending
    <3>3. First(i) + Count(i) <= NextRead(crnt)
      BY <1>2, <3>1 DEF Ends, ListEnds
    <3>4. /\ transfers'[transferList'[i]].first = First(i)
          /\ transfers'[transferList'[i]].count = Count(i)
      BY <1>5, <3>1, <3>2 DEF First, Count
    <3>. QED  BY <1>2, <1>3, <3>2, <3>3, <3>4
  <2>. QED  BY <2>1, <2>2
<1>8. DoneEnds'
  <2> SUFFICES ASSUME NEW j \in 1 .. Len(transfers) + 1, transfers'[j].state = "done"
               PROVE  transfers'[j].first + transfers'[j].count <= NextWord - Len(responseBuf)
    BY <1>1, <1>5, <1>6 DEF DoneEnds
  <2>1. j \in 1 .. Len(transfers) /\ transfers'[j] = transfers[j]
    BY <1>4, <1>5
  <2>. QED  BY <2>1 DEF Ends, DoneEnds
<1>9. ReadEnds'
  BY <1>2, <1>3, <1>4, <1>5, <1>6 DEF ReadEnds
<1>. QED  BY <1>1, <1>7, <1>8, <1>9 DEF Ends, SentFirst, GetWants

LEMMA AddWordsKeepsEnds ==
    ASSUME IInv, Ends, AddWords
    PROVE  Ends'
<1>1. /\ pc' # "backlog" /\ pc' # "get" /\ Space > 0
      /\ UNCHANGED <<transfers, transferList, commandsToRead, responseBuf>>
      /\ crnt' = [crnt EXCEPT !.cmd = Add(crnt.cmd, Space, call.request)]
      /\ call' = [call EXCEPT !.todo = @ - Space]
  BY DEF AddWords
<1>2. TypeOK
  BY DEF IInv
<1>3. Space \in Nat /\ Space <= call.todo /\ call.todo \in Nat
  BY <1>2, Numbers, PacketNats, RequestSpaceBounds DEF Space
<1>4. crnt'.first = crnt.first /\ crnt'.cmd = Add(crnt.cmd, Space, call.request)
  BY <1>1, <1>2, Numbers DEF Packets
<1>5. call'.request = call.request /\ call'.want = call.want /\ call'.todo = call.todo - Space
  BY <1>1, <1>2, Numbers DEF Calls
<1>6. /\ crnt.first \in Nat /\ crnt.cmd.readCount \in Nat
      /\ NextRead(crnt) = crnt.first + crnt.cmd.readCount
  BY <1>2, Numbers, PacketNats
<1>7. /\ NextRead(crnt)' = crnt.first + crnt'.cmd.readCount
      /\ crnt'.cmd.readCount = IF call.request \in ReadRequests THEN crnt.cmd.readCount + Space
                                                                ELSE crnt.cmd.readCount
  BY <1>4 DEF NextRead, Add
<1>8. NextRead(crnt)' + TodoWords' = NextRead(crnt) + TodoWords
  BY <1>3, <1>5, <1>6, <1>7 DEF TodoWords
<1>9. NextWord' = NextWord
  BY <1>1, <1>4 DEF NextWord
<1>10. SentFirst' /\ GetWants' /\ ListEnds' /\ DoneEnds'
  BY <1>1, <1>8, <1>9 DEF Ends, SentFirst, GetWants, ListEnds, DoneEnds, First, Count
<1>11. ReadEnds'
  <2> SUFFICES ASSUME call.request \in ReadRequests PROVE ReadEnds'
    BY <1>5 DEF ReadEnds
  <2>1. NextRead(crnt)' + call'.todo = NextRead(crnt) + call.todo
    BY <1>5, <1>8 DEF TodoWords
  <2>2. crnt'.cmd.readCount > 0 /\ crnt.first < NextRead(crnt)'
    BY <1>1, <1>3, <1>6, <1>7
  <2>3. \A i \in 1 .. Len(commandsToRead) : commandsToRead[i].first < NextRead(crnt)'
    <3>1. \A i \in 1 .. Len(commandsToRead) :
              commandsToRead[i].first \in Nat /\ commandsToRead[i].first <= crnt.first
      BY FlightIsBehind, PacketNats
    <3>. QED  BY <1>3, <1>6, <1>7, <2>2, <3>1
  <2>. QED  BY <1>1, <1>5, <2>1, <2>2, <2>3 DEF Ends, ReadEnds
<1>. QED  BY <1>10, <1>11 DEF Ends

LEMMA SendPacketKeepsEnds ==
    ASSUME IInv, Ends, SendPacket
    PROVE  Ends'
<1> DEFINE k == Len(commandsToRead) + 1
<1>1. /\ UNCHANGED <<call, transfers, transferList, responseBuf>> /\ ~IsEmpty(crnt.cmd)
      /\ pc' # "get"
      /\ commandsToRead' = Append(commandsToRead, crnt) /\ crnt' = NewPacket(NextRead(crnt))
  BY DEF SendPacket, AfterSend
<1>2. /\ crnt.first \in Nat /\ crnt.cmd.readCount \in Nat
      /\ NextRead(crnt) = crnt.first + crnt.cmd.readCount
      /\ commandsToRead \in Seq(Packets)
  BY Numbers, PacketNats, Sequences DEF IInv
<1>3. NextRead(crnt)' = NextRead(crnt) /\ IsEmpty(crnt'.cmd)
  BY <1>1, <1>2 DEF NewPacket, NewCommand, NextRead, IsEmpty
<1>4. /\ Len(commandsToRead') = k /\ commandsToRead'[k] = crnt
      /\ \A i \in 1 .. Len(commandsToRead) : commandsToRead'[i] = commandsToRead[i]
  BY <1>1, <1>2
<1>5. NextWord' = NextWord
  <2>1. commandsToRead' # << >> /\ (commandsToRead # << >> => 1 \in 1 .. Len(commandsToRead))
        /\ (commandsToRead = << >> => k = 1)
    BY <1>1, <1>2
  <2>. QED  BY <1>4, <2>1 DEF NextWord
<1>6. SentFirst' /\ GetWants' /\ ListEnds' /\ DoneEnds'
  BY <1>1, <1>3, <1>5 DEF Ends, SentFirst, GetWants, ListEnds, DoneEnds, First, Count, TodoWords
<1>7. ReadEnds'
  <2> SUFFICES ASSUME call.request \in ReadRequests, call.todo = 0
               PROVE  \A i \in 1 .. k : commandsToRead'[i].first < NextRead(crnt)
    BY <1>1, <1>3, <1>4 DEF Ends, ReadEnds
  <2>1. crnt.first < NextRead(crnt)
    BY <1>1, <1>2 DEF Ends, ReadEnds
  <2>2. \A i \in 1 .. Len(commandsToRead) : commandsToRead[i].first < NextRead(crnt)
    BY DEF Ends, ReadEnds
  <2>. QED  BY <1>2, <1>4, <2>1, <2>2
<1>. QED  BY <1>6, <1>7 DEF Ends

LEMMA ReadPacketKeepsEnds ==
    ASSUME IInv, Ends, ReadPacket
    PROVE  Ends'
<1> DEFINE p == commandsToRead[1]
           n == p.cmd.readCount
<1>1. /\ commandsToRead # << >> /\ p \in Packets /\ Head(commandsToRead) = p
      /\ UNCHANGED <<pc, call, transfers, transferList, crnt>>
      /\ commandsToRead' = Tail(commandsToRead)
      /\ responseBuf' = responseBuf \o Decoded(p, Head(fromProbe))
      /\ Head(fromProbe) \in Answers
  <2>1. Reading /\ fromProbe # << >> /\ fromProbe \in Seq(Answers)
    BY Sequences DEF ReadPacket, IInv
  <2>. QED  BY <2>1, NextAnswer DEF ReadPacket, caller
<1>2. TypeOK /\ PacketsFollow
  BY DEF IInv, Order
<1>3. commandsToRead \in Seq(Packets) /\ responseBuf \in Seq(Nat) /\ Len(responseBuf) \in Nat
  BY <1>2, Sequences
<1>4. /\ Len(commandsToRead) \in Nat /\ Len(commandsToRead) > 0
      /\ commandsToRead' \in Seq(Packets) /\ Len(commandsToRead') = Len(commandsToRead) - 1
      /\ \A i \in 1 .. Len(commandsToRead) - 1 : commandsToRead'[i] = commandsToRead[i + 1]
  BY <1>1, <1>3
<1>5. p.first \in Nat /\ n \in Nat /\ NextRead(p) = p.first + n
  BY <1>1, PacketNats
<1>6. Len(responseBuf') = Len(responseBuf) + n
  <2> DEFINE d == Decoded(p, Head(fromProbe))
  <2>1. d \in Seq(Nat) /\ Len(d) = n
    BY <1>1, DecodedType
  <2>2. responseBuf' = responseBuf \o d
    BY <1>1
  <2> HIDE DEF d, n, p
  <2>. QED  BY <1>3, <1>5, <2>1, <2>2, ConcatProperties
<1>7. NextWord' - Len(responseBuf') = NextWord - Len(responseBuf)
  <2>1. NextRead(p) = IF Len(commandsToRead) = 1 THEN crnt.first ELSE commandsToRead[2].first
    BY <1>2, <1>4 DEF PacketsFollow
  <2>2. commandsToRead' = << >> <=> Len(commandsToRead) = 1
    BY <1>4, EmptySeq
  <2>3. Len(commandsToRead) # 1 => commandsToRead'[1] = commandsToRead[2]
    BY <1>4
  <2>4. NextWord = p.first /\ NextWord' = p.first + n
    BY <1>1, <1>5, <2>1, <2>2, <2>3 DEF NextWord
  <2> HIDE DEF p, n
  <2>. QED  BY <1>3, <1>5, <1>6, <2>4
<1>8. SentFirst' /\ GetWants' /\ ListEnds' /\ DoneEnds'
  BY <1>1, <1>7 DEF Ends, SentFirst, GetWants, ListEnds, DoneEnds, First, Count, TodoWords
<1>9. ReadEnds'
  <2>1. ASSUME \A i \in 1 .. Len(commandsToRead) : commandsToRead[i].first < NextRead(crnt),
               NEW i \in 1 .. Len(commandsToRead')
        PROVE  commandsToRead'[i].first < NextRead(crnt)
    BY <1>4, <2>1
  <2>. QED  BY <1>1, <2>1 DEF Ends, ReadEnds
<1>. QED  BY <1>8, <1>9 DEF Ends

LEMMA ReadBadPacketKeepsEnds ==
    ASSUME IInv, Ends, ReadBadPacket
    PROVE  Ends'
<1>1. /\ pc' = "drain" /\ commandsToRead' = << >> /\ responseBuf' = << >> /\ transferList' = << >>
      /\ crnt' = NewPacket(NextRead(crnt)) /\ call' = call
      /\ transfers' = [t \in DOMAIN transfers |->
                          IF \E i \in DOMAIN transferList : transferList[i] = t
                          THEN [transfers[t] EXCEPT !.state = "failed"]
                          ELSE transfers[t]]
  BY DEF ReadBadPacket, Abort, InitDeferredBuffers
<1>2. /\ TypeOK /\ ReadStarted /\ transfers \in Seq(Transfers) /\ Len(transfers) \in Nat
      /\ Len(responseBuf) \in Nat /\ NextRead(crnt) \in Nat /\ NextWord \in Nat
  BY Sequences, Numbers DEF IInv
<1>3. /\ NextRead(crnt)' = NextRead(crnt) /\ NextWord' = NextRead(crnt) /\ IsEmpty(crnt'.cmd)
  BY <1>1, <1>2 DEF NewPacket, NewCommand, NextRead, NextWord, IsEmpty
<1>4. /\ Len(transfers') = Len(transfers)
      /\ \A t \in 1 .. Len(transfers) :
             /\ transfers[t] \in Transfers
             /\ transfers'[t].first = transfers[t].first /\ transfers'[t].count = transfers[t].count
             /\ transfers'[t].state = "done" => transfers[t].state = "done"
  <2>1. DOMAIN transfers = 1 .. Len(transfers) /\ DOMAIN transfers' = DOMAIN transfers
    BY <1>1, <1>2
  <2>2. ASSUME NEW t \in 1 .. Len(transfers)
        PROVE  /\ transfers[t] \in Transfers
               /\ \/ transfers'[t] = transfers[t]
                  \/ transfers'[t] = [transfers[t] EXCEPT !.state = "failed"]
    BY <1>1, <1>2, <2>1
  <2>3. Len(transfers') = Len(transfers)
    BY <1>1, <1>2, <2>1
  <2>. QED  BY <2>2, <2>3 DEF Transfers
<1>5. SentFirst' /\ GetWants' /\ ListEnds'
  BY <1>1 DEF SentFirst, GetWants, ListEnds
<1>6. DoneEnds'
  <2> SUFFICES ASSUME NEW t \in 1 .. Len(transfers), transfers'[t].state = "done"
               PROVE  transfers'[t].first + transfers'[t].count <= NextRead(crnt)
    <3>1. NextWord' - Len(responseBuf') = NextRead(crnt)
      BY <1>1, <1>2, <1>3
    <3>. QED  BY <1>4, <3>1 DEF DoneEnds
  <2>1. transfers[t].first + transfers[t].count <= NextWord - Len(responseBuf)
    BY <1>4 DEF Ends, DoneEnds
  <2>2. NextWord <= NextRead(crnt)
    BY FlightIsBehind
  <2>3. transfers[t].first \in Nat /\ transfers[t].count \in Nat
    BY <1>4 DEF Transfers
  <2>. QED  BY <1>2, <1>4, <2>1, <2>2, <2>3
<1>7. ReadEnds'
  <2> SUFFICES ASSUME call.request \in ReadRequests PROVE ReadEnds'
    BY <1>1 DEF ReadEnds
  <2>1. Len(transfers) \in 1 .. Len(transfers)
    BY <1>2 DEF ReadStarted
  <2>. QED  BY <1>1, <1>3, <1>4, <2>1 DEF Ends, ReadEnds
<1>. QED  BY <1>5, <1>6, <1>7 DEF Ends

LEMMA AddResponseKeepsEnds ==
    ASSUME IInv, Ends, AddResponse
    PROVE  Ends'
<1> DEFINE t == Head(transferList)
           n == transfers[t].count
           len == Len(responseBuf)
           data == SubSeq(responseBuf, 1, n)
<1>1. /\ transferList # << >> /\ n <= len
      /\ transfers' = [transfers EXCEPT ![t].state = "done", ![t].result = data]
      /\ responseBuf' = SubSeq(responseBuf, n + 1, len)
      /\ transferList' = Tail(transferList)
      /\ UNCHANGED <<pc, call, crnt, commandsToRead>>
  BY DEF AddResponse, DataForHead, caller
<1>2. /\ TypeOK /\ ReadStarted /\ transferList \in Seq(1 .. Len(transfers)) /\ responseBuf \in Seq(Nat)
      /\ transfers \in Seq(Transfers) /\ len \in Nat /\ NextWord \in Nat
  BY Sequences, Numbers DEF IInv
<1>3. /\ Len(transferList) \in Nat /\ Len(transferList) > 0 /\ t = transferList[1]
      /\ Len(transferList') = Len(transferList) - 1
      /\ \A i \in 1 .. Len(transferList) - 1 : transferList'[i] = transferList[i + 1]
  BY <1>1, <1>2
<1>4. /\ t \in 1 .. Len(transfers) /\ transfers[t] \in Transfers /\ n = Count(1) /\ n \in Nat /\ n > 0
      /\ First(1) \in Nat /\ transfers[t].first = First(1)
  BY <1>2, <1>3, Pending DEF First, Count
<1>5. Len(responseBuf') = len - n
  <2> HIDE DEF n, len, t
  <2>1. n + 1 \in Int /\ len \in Int /\ \A i \in n + 1 .. len : responseBuf[i] \in Nat
    BY <1>2, <1>4 DEF len
  <2>2. Len(SubSeq(responseBuf, n + 1, len)) = IF n + 1 <= len THEN len - (n + 1) + 1 ELSE 0
    BY <2>1, SubSeqProperties
  <2>. QED  BY <1>1, <1>2, <1>4, <2>2
<1>6. /\ Len(transfers') = Len(transfers)
      /\ \A j \in 1 .. Len(transfers) :
             /\ transfers'[j].first = transfers[j].first /\ transfers'[j].count = transfers[j].count
             /\ j # t => transfers'[j] = transfers[j]
  <2>1. \A j \in 1 .. Len(transfers) : transfers[j] \in Transfers
    BY <1>2
  <2>2. transfers' = [transfers EXCEPT ![t] = [transfers[t] EXCEPT !.state = "done",
                                                                   !.result = data]]
    BY <1>1
  <2>3. DOMAIN transfers' = 1 .. Len(transfers) /\ Len(transfers) \in Nat
    BY <1>2, <2>2
  <2>4. Len(transfers') = Len(transfers)
    BY <1>2, <2>2, <2>3
  <2> HIDE DEF data, t, n
  <2>5. DOMAIN transfers = 1 .. Len(transfers)
    BY <1>2
  <2>. QED  BY <1>4, <2>1, <2>2, <2>4, <2>5 DEF Transfers
<1>7. NextWord' = NextWord /\ NextRead(crnt)' = NextRead(crnt) /\ TodoWords' = TodoWords
  BY <1>1 DEF NextWord, TodoWords
<1>8. First(1) = NextWord - len
  BY <1>1 DEF IInv, Order, HeadFollows
<1>9. SentFirst' /\ GetWants'
  BY <1>1 DEF Ends, SentFirst, GetWants
<1>10. ListEnds'
  <2> SUFFICES ASSUME NEW i \in 1 .. Len(transferList) - 1
               PROVE  transfers'[transferList'[i]].first + transfers'[transferList'[i]].count
                          <= NextRead(crnt) + TodoWords
    BY <1>3, <1>7 DEF ListEnds, First, Count
  <2>1. i + 1 \in 1 .. Len(transferList) /\ transferList'[i] = transferList[i + 1]
    BY <1>3
  <2>2. transferList[i + 1] \in 1 .. Len(transfers)
    BY <1>2, <2>1, Pending
  <2>3. First(i + 1) + Count(i + 1) <= NextRead(crnt) + TodoWords
    BY <2>1 DEF Ends, ListEnds
  <2>. QED  BY <1>6, <2>1, <2>2, <2>3 DEF First, Count
<1>11. DoneEnds'
  <2> SUFFICES ASSUME NEW j \in 1 .. Len(transfers), transfers'[j].state = "done"
               PROVE  transfers[j].first + transfers[j].count <= NextWord - (len - n)
    BY <1>5, <1>6, <1>7 DEF DoneEnds
  <2>1. CASE j = t
    <3>1. transfers[j].first = NextWord - len /\ transfers[j].count = n
      BY <1>4, <1>8, <2>1
    <3> HIDE DEF n, len, t
    <3>. QED  BY <1>2, <1>4, <3>1
  <2>2. CASE j # t
    <3>1. transfers[j].first + transfers[j].count <= NextWord - len
      BY <1>6, <2>2 DEF Ends, DoneEnds
    <3>2. transfers[j].first \in Nat /\ transfers[j].count \in Nat
      <4>1. transfers[j] \in Transfers
        BY <1>2
      <4>. QED  BY <4>1 DEF Transfers
    <3> HIDE DEF n, len, t
    <3>. QED  BY <1>2, <1>4, <3>1, <3>2
  <2>. QED  BY <2>1, <2>2
<1>12. ReadEnds'
  <2> SUFFICES ASSUME call.request \in ReadRequests PROVE ReadEnds'
    BY <1>1 DEF ReadEnds
  <2>1. Len(transfers) \in 1 .. Len(transfers)
    BY <1>2 DEF ReadStarted
  <2>. QED  BY <1>1, <1>6, <1>7, <2>1 DEF Ends, ReadEnds
<1>. QED  BY <1>9, <1>10, <1>11, <1>12 DEF Ends

LEMMA NextEnds ==
    ASSUME IInv, Ends, [Next]_vars
    PROVE  Ends'
<1>1. CASE CallerActions
  BY <1>1, CallerActionsKeepEnds
<1>2. CASE \E count \in Counts, request \in ReadRequests, now \in BOOLEAN :
               ReadReg(count, request, now)
  BY <1>2, ReadRegKeepsEnds
<1>3. CASE AddWords \/ SendPacket \/ ReadPacket \/ ReadBadPacket \/ AddResponse
  BY <1>3, AddWordsKeepsEnds, SendPacketKeepsEnds, ReadPacketKeepsEnds, ReadBadPacketKeepsEnds,
     AddResponseKeepsEnds
<1>4. CASE DrainOne \/ Probe \/ UNCHANGED vars
  <2>1. UNCHANGED <<pc, call, transfers, transferList, crnt, commandsToRead, responseBuf>>
    BY <1>4 DEF DrainOne, Probe, ProbeExecutes, vars, caller, queues
  <2>. QED  BY <2>1, QuietKeepsEnds DEF TodoWords
<1>5. CASE Raise
  <2>1. /\ pc = "drain" /\ pc' = "idle" /\ call' = NoCall
        /\ UNCHANGED <<transfers, transferList, crnt, commandsToRead, responseBuf>>
    BY <1>5 DEF Raise, At, Return, queues
  <2>2. transferList = << >> /\ call'.request \notin ReadRequests
    BY <2>1, RequestAssumption DEF IInv, Flight, Drained, NoCall
  <2>. QED  BY <2>1, <2>2, QuietKeepsEnds
<1>. QED  BY <1>1, <1>2, <1>3, <1>4, <1>5 DEF Next, StartCall, ContinueCall, CallerActions

LEMMA EndsInvariant == Spec => [](IInv /\ Ends)
<1>1. Init => IInv /\ Ends
  BY InitInv, InitEnds
<1>2. IInv /\ Ends /\ [Next]_vars => IInv' /\ Ends'
  BY NextInv, NextEnds
<1>. QED  BY <1>1, <1>2, PTL DEF Spec

\* Outside an abort, with no packet to read, nothing is on the wire.
LEMMA NothingInFlight ==
    ASSUME IInv, pc # "drain", commandsToRead = << >>
    PROVE  InFlight = 0
  BY DEF IInv, Flight, AnswersMatch

LEMMA StepFlushes ==
    ASSUME IInv, Ends, [Next]_vars, pc = "backlog", pc' \in {"idle", "get"}
    PROVE  IsEmpty(crnt.cmd) /\ commandsToRead = << >> /\ InFlight = 0 /\ transferList = << >>
<1>1. BacklogDone
  BY DEF Next, StartCall, ContinueCall, Probe, WriteReg, ReadReg, GetResult, Flush,
         SetDeferredTransfer, AddWords, NoRoom, WriteDone, SendPacket, NothingToSend, Sending,
         ReadPacket, ReadBadPacket, Abort, AddResponse, DrainOne, Raise, ResultReady,
         ResultNeedsFlush, ResultLost, ProbeExecutes, At, vars, caller
<1>2. commandsToRead = << >> /\ ~DataForHead /\ IsEmpty(crnt.cmd)
  BY <1>1 DEF BacklogDone, At, BacklogRead, Ends, SentFirst
<1>3. InFlight = 0
  BY <1>2, NothingInFlight
<1>4. TypeOK /\ TodoWords = 0
  BY DEF IInv, TodoOnlyPacking, TodoWords
<1>5. NextWord = NextRead(crnt) /\ NextRead(crnt) \in Nat
  <2>1. /\ crnt.first \in Nat /\ crnt.cmd.readCount \in Nat /\ crnt.cmd.writeCount \in Nat
        /\ NextRead(crnt) = crnt.first + crnt.cmd.readCount
    BY <1>4, Numbers, PacketNats
  <2>. QED  BY <1>2, <2>1 DEF NextWord, IsEmpty
<1>6. ASSUME transferList # << >> PROVE FALSE
  <2>1. 1 \in 1 .. Len(transferList) /\ Head(transferList) = transferList[1]
    <3>1. transferList \in Seq(1 .. Len(transfers))
      BY <1>4, Sequences
    <3>. QED  BY <1>6, <3>1
  <2>2. First(1) \in Nat /\ Count(1) \in Nat /\ Count(1) > 0
    BY <1>4, <2>1, Pending
  <2>3. First(1) = NextWord - Len(responseBuf) /\ First(1) + Count(1) <= NextRead(crnt)
    BY <1>4, <1>5, <1>6, <2>1 DEF IInv, Order, HeadFollows, Ends, ListEnds
  <2>4. responseBuf \in Seq(Nat) /\ Len(responseBuf) \in Nat
    BY <1>4, Sequences
  <2>5. Count(1) <= Len(responseBuf)
    BY <1>5, <2>2, <2>3, <2>4
  <2>6. responseBuf # << >>
    BY <2>2, <2>4, <2>5
  <2>. QED  BY <1>2, <1>6, <2>1, <2>5, <2>6 DEF DataForHead, Count
<1>. QED  BY <1>2, <1>3, <1>6

LEMMA StepReadsNow ==
    ASSUME IInv, Ends, [Next]_vars, pc = "get", call.request \in ReadRequests,
           pc' = "idle", outcome' = "returned"
    PROVE  IsEmpty(crnt.cmd) /\ InFlight = 0
<1>1. ResultReady
  BY DEF Next, StartCall, ContinueCall, Probe, WriteReg, ReadReg, GetResult, Flush,
         SetDeferredTransfer, AddWords, NoRoom, WriteDone, SendPacket, NothingToSend, Sending,
         ReadPacket, ReadBadPacket, Abort, AddResponse, DrainOne, Raise, BacklogDone,
         ResultNeedsFlush, ResultLost, Return, ProbeExecutes, At, vars, caller
<1>2. transfers[call.want].state = "done"
  BY <1>1 DEF ResultReady, Resolved
<1>3. TypeOK /\ call.todo = 0 /\ transfers \in Seq(Transfers) /\ Len(transfers) \in 1 .. Len(transfers)
  BY Sequences DEF IInv, TodoOnlyPacking, ReadStarted
<1>4. call.want = Len(transfers)
  BY DEF Ends, GetWants, ReadEnds
<1>5. NextRead(crnt) <= NextWord - Len(responseBuf)
  BY <1>2, <1>3, <1>4, Numbers DEF Ends, DoneEnds, ReadEnds
<1>6. /\ Len(responseBuf) \in Nat /\ NextRead(crnt) \in Nat /\ NextWord \in Nat
      /\ crnt.first \in Nat /\ crnt.cmd.readCount \in Nat
      /\ NextRead(crnt) = crnt.first + crnt.cmd.readCount
      /\ commandsToRead \in Seq(Packets)
  BY <1>3, Numbers, PacketNats, Sequences
<1>7. IsEmpty(crnt.cmd)
  <2>1. NextWord <= crnt.first
    BY FlightIsBehind
  <2>2. ~(crnt.cmd.readCount > 0)
    BY <1>5, <1>6, <2>1
  <2>. QED  BY <1>3, <2>2 DEF Ends, ReadEnds
<1>8. commandsToRead = << >>
  <2>1. SUFFICES ASSUME commandsToRead # << >> PROVE FALSE
    OBVIOUS
  <2>2. 1 \in 1 .. Len(commandsToRead) /\ NextWord = commandsToRead[1].first
    BY <1>6, <2>1 DEF NextWord
  <2>3. NextWord < NextRead(crnt)
    BY <1>3, <2>2 DEF Ends, ReadEnds
  <2>. QED  BY <1>5, <1>6, <2>3
<1>. QED  BY <1>7, <1>8, NothingInFlight

\* A flush that returns has sent, read and answered everything asked for.
THEOREM FlushesComplete == Spec => FlushCompletes
<1>1. IInv /\ Ends /\ [Next]_vars =>
          [ pc = "backlog" /\ pc' \in {"idle", "get"} =>
                /\ IsEmpty(crnt.cmd) /\ commandsToRead = << >> /\ InFlight = 0
                /\ transferList = << >> ]_vars
  BY StepFlushes
<1>. QED  BY <1>1, EndsInvariant, PTL DEF Spec, FlushCompletes

\* A read that returns its value at once has pushed every earlier access through
\* the target: no packet is left to send or to read.
THEOREM ReadsNowFlush == Spec => ReadNowFlushes
<1>1. IInv /\ Ends /\ [Next]_vars =>
          [ pc = "get" /\ call.request \in ReadRequests /\ pc' = "idle" /\ outcome' = "returned" =>
                IsEmpty(crnt.cmd) /\ InFlight = 0 ]_vars
  BY StepReadsNow
<1>. QED  BY <1>1, EndsInvariant, PTL DEF Spec, ReadNowFlushes
=============================================================================
