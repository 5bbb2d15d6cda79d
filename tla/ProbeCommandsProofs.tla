------------------------- MODULE ProbeCommandsProofs -------------------------
(***************************************************************************)
(* The USB interface, for any number of packets, calls, sessions, faults   *)
(* and SWO threads: the permits of the receive thread, that the interface  *)
(* is a wire, the order of the SWO data, and that every answer goes to its *)
(* own packet.  Each time the inductive invariant, one lemma for the steps *)
(* of the interface that count, and one for each kind of step of           *)
(* ProbeCommands.                                                          *)
(***************************************************************************)
EXTENDS ProbeCommands, SequenceTheorems, WellFoundedInduction, TLAPS

\* What the permits depend on.
counted == <<callerPc, closed, rxPc, rxStop, permits, epOut, epIn, sessions, faults, swoThread>>

CountTypes ==
    /\ permits \in Nat /\ sessions \in Nat /\ faults \in Nat
    /\ epOut \in Seq(Int) /\ epIn \in Seq(Int)
    /\ closed \in BOOLEAN /\ rxStop \in BOOLEAN

\* Before the interface was first opened, nothing has happened.
Untouched ==
    sessions = 0 => /\ closed /\ permits = 0 /\ epOut = << >> /\ epIn = << >>
                    /\ callerPc = "idle" /\ rxPc = "none" /\ swoThread = 0

\* The thread is told to stop by close only.
StopsClosed == ~closed => ~rxStop

PermitInv == CountTypes /\ Untouched /\ StopsClosed /\ written \in Nat /\ PermitPerPacket

-----------------------------------------------------------------------------
(* The interface *)

\* Nothing of it changes where what is counted does not.
LEMMA SameCounts == ASSUME PermitInv, UNCHANGED counted, written' = written PROVE PermitInv'
  BY DEF PermitInv, counted, CountTypes, Untouched, StopsClosed, PermitPerPacket

\* open: the first session begins with nothing released and nothing on its way.
LEMMA OpenCounts == ASSUME PermitInv, Open PROVE PermitInv'
  <1> USE DEF PermitInv, CountTypes, Untouched, StopsClosed, PermitPerPacket, Open, swo
  <1>1. epIn' \in Seq(Int)
    BY EmptySeq
  <1>2. closed' \in BOOLEAN /\ rxStop' \in BOOLEAN
    OBVIOUS
  <1>3. permits' \in Nat /\ sessions' \in Nat /\ faults' \in Nat /\ epOut' \in Seq(Int) /\ written' \in Nat
    OBVIOUS
  <1>4. CountTypes' /\ written' \in Nat
    BY <1>1, <1>2, <1>3
  <1>5. Untouched' /\ StopsClosed'
    OBVIOUS
  <1>6. ASSUME sessions' = 1 PROVE permits' = 0 /\ Len(epOut') = 0 /\ Len(epIn') = 0 /\ callerPc' = "idle" /\ rxPc' = "loop"
    <2>1. sessions = 0
      BY <1>6
    <2> QED
      BY <2>1
  <1>7. PermitPerPacket'
    BY <1>6
  <1> QED
    BY <1>4, <1>5, <1>7

\* write: one permit for one packet, also while the packet is being written.
LEMMA WriteCounts == ASSUME PermitInv, Write \/ WriteOut \/ WriteFails PROVE PermitInv'
  <1> USE DEF PermitInv, CountTypes, Untouched, StopsClosed, PermitPerPacket, usb, thread, counts, swo
  <1>1. CASE Write
    BY <1>1 DEF Write, Release
  <1>2. CASE WriteOut
    <2>1. epOut' \in Seq(Int) /\ Len(epOut') = Len(epOut) + 1
      BY <1>2 DEF WriteOut
    <2> QED
      BY <1>2, <2>1 DEF WriteOut
  <1>3. CASE WriteFails
    BY <1>3 DEF WriteFails
  <1> QED
    BY <1>1, <1>2, <1>3

\* read and read_swo do not touch it, nor do the SWO threads.
LEMMA ReadCounts ==
    ASSUME PermitInv, Read \/ ReadRaises \/ (ReadReturns /\ faults' \in Nat /\ faults' >= faults)
    PROVE PermitInv'
  <1> USE DEF PermitInv, CountTypes, Untouched, StopsClosed, PermitPerPacket, usb, thread, counts, swo
  <1>1. CASE Read
    BY <1>1 DEF Read
  <1>2. CASE ReadRaises
    BY <1>2 DEF ReadRaises
  <1>3. CASE ReadReturns /\ faults' \in Nat /\ faults' >= faults
    BY <1>3 DEF ReadReturns
  <1> QED
    BY <1>1, <1>2, <1>3

\* close: from here on the session is closed.
LEMMA CloseCounts == ASSUME PermitInv, Close \/ Joined \/ SwoJoined \/ StopSwo PROVE PermitInv'
  <1> USE DEF PermitInv, CountTypes, Untouched, StopsClosed, PermitPerPacket, usb, thread, counts, swo
  <1>1. CASE Close /\ swoThread = 0
    BY <1>1 DEF Close, StopRx, Release
  <1>2. CASE Close /\ swoThread # 0
    BY <1>2 DEF Close
  <1>3. CASE Joined
    BY <1>3 DEF Joined
  <1>4. CASE SwoJoined /\ callerPc = "joining_SWO_closing"
    <2>1. StopRx /\ swoThread' = 0
      BY <1>4 DEF SwoJoined
    <2>2. CountTypes' /\ written' \in Nat
      <3>1. closed' \in BOOLEAN /\ rxStop' \in BOOLEAN
        BY <2>1 DEF StopRx
      <3>2. permits' \in Nat
        BY <2>1 DEF StopRx, Release
      <3>3. UNCHANGED <<sessions, faults, epOut, epIn, written>>
        BY <2>1 DEF StopRx
      <3> QED
        BY <3>1, <3>2, <3>3
    <2>3. closed' /\ sessions' = sessions
      BY <2>1 DEF StopRx
    <2> QED
      BY <1>4, <2>2, <2>3
  <1>5. CASE SwoJoined /\ callerPc = "joining_SWO"
    <2>1. /\ callerPc' = "idle" /\ swoThread' = 0
          /\ UNCHANGED <<closed, thread, permits, usb, counts>>
      BY <1>5 DEF SwoJoined
    <2> QED
      BY <1>5, <2>1
  <1>6. CASE StopSwo
    BY <1>6 DEF StopSwo
  <1> QED
    BY <1>1, <1>2, <1>3, <1>4, <1>5, <1>6 DEF SwoJoined

(* The receive thread: it uses up a permit with the answer it reads.  In   *)
(* the first session its read does not expire but for a fault, as with a   *)
(* permit there is a packet.                                               *)
LEMMA ThreadCounts == ASSUME PermitInv, RxTask PROVE PermitInv'
  <1> USE DEF PermitInv, CountTypes, Untouched, StopsClosed, PermitPerPacket, usb, caller, counts, swo
  <1>1. CASE RxLoop
    BY <1>1 DEF RxLoop
  <1>2. CASE RxAcquire
    BY <1>2 DEF RxAcquire
  <1>3. CASE RxRead
    <2>1. epIn' \in Seq(Int) /\ Len(epIn') = Len(epIn) - 1
      BY <1>3 DEF RxRead
    <2> QED
      BY <1>3, <2>1 DEF RxRead
  <1>4. CASE RxStops
    BY <1>4 DEF RxStops, Exit
  <1>5. CASE RxTimesOut
    <2>1. CountTypes' /\ Untouched' /\ StopsClosed' /\ written' \in Nat
      BY <1>5 DEF RxTimesOut, Exit
    <2>2. ASSUME sessions' = 1, ~closed', faults' = 0 PROVE FALSE
      <3>1. faults = 0 /\ sessions = 1 /\ ~closed /\ rxPc = "read" /\ callerPc # "writeOut"
        BY <1>5, <2>2 DEF RxTimesOut, Exit
      <3>2. Len(epIn) = 0 /\ Len(epOut) = 0
        BY <1>5, <2>2 DEF RxTimesOut
      <3> QED
        BY <3>1, <3>2
    <2>3. PermitPerPacket'
      BY <2>2
    <2> QED
      BY <2>1, <2>3
  <1> QED
    BY <1>1, <1>2, <1>3, <1>4, <1>5 DEF RxTask

\* The probe: what it takes from one endpoint it puts into the other.
LEMMA ProbeCounts == ASSUME PermitInv, ProbeAnswers PROVE PermitInv'
  <1> USE DEF PermitInv, CountTypes, Untouched, StopsClosed, PermitPerPacket, thread, caller, counts, swo, ProbeAnswers
  <1>1. epOut' \in Seq(Int) /\ Len(epOut') = Len(epOut) - 1
    OBVIOUS
  <1>2. epIn' \in Seq(Int) /\ Len(epIn') = Len(epIn) + 1
    OBVIOUS
  <1>3. CountTypes' /\ Untouched' /\ StopsClosed' /\ written' \in Nat
    BY <1>1, <1>2
  <1>4. Len(epOut) \in Nat /\ Len(epIn) \in Nat
    OBVIOUS
  <1>5. Len(epOut') + Len(epIn') = Len(epOut) + Len(epIn)
    BY <1>1, <1>2, <1>4
  <1>6. PermitPerPacket'
    BY <1>5
  <1> QED
    BY <1>3, <1>6

\* The SWO threads and what reads from them leave it alone; one is started only
\* once the interface was opened.
LEMMA SwoCounts ==
    ASSUME PermitInv, NEW r, StartSwo \/ ReadSwo \/ SwoTask(r) \/ ProbeCaptures
    PROVE PermitInv'
  <1> USE DEF notSwo, caller, thread, usb, counts
  <1>1. CASE StartSwo
    BY <1>1 DEF StartSwo, PermitInv, CountTypes, Untouched, StopsClosed, PermitPerPacket
  <1>2. CASE ReadSwo \/ SwoTask(r) \/ ProbeCaptures
    <2>1. UNCHANGED notSwo /\ UNCHANGED swoThread
      BY <1>2 DEF ReadSwo, SwoTask, SwoRead, SwoReadExpires, SwoAppend, ProbeCaptures
    <2> QED
      BY <2>1, SameCounts DEF counted
  <1> QED
    BY <1>1, <1>2

-----------------------------------------------------------------------------
(* The commands *)

LEMMA CallStepCounts == ASSUME PermitInv, CallStep PROVE PermitInv'
  <1> USE DEF usbVars, caller, thread, usb, counts, swo, counted
  <1>1. CASE WriteCommand \/ Written \/ WriteRaises
    BY <1>1, WriteCounts DEF WriteCommand, Written, WriteRaises
  <1>2. CASE ReadAnswer \/ ReadFails
    BY <1>2, ReadCounts DEF ReadAnswer, ReadFails
  <1>3. CASE Answered \/ Mistaken
    <2>1. ReadReturns /\ faults' \in Nat /\ faults' >= faults
      BY <1>3 DEF Answered, Mistaken, PermitInv, CountTypes
    <2> QED
      BY <2>1, ReadCounts
  <1>4. CASE Refused
    <2>1. ReadReturns /\ faults' = faults + 1
      BY <1>4 DEF Refused
    <2>2. faults' \in Nat /\ faults' >= faults
      BY <2>1 DEF PermitInv, CountTypes
    <2> QED
      BY <2>1, <2>2, ReadCounts
  <1>5. CASE Flushed \/ SetSwoStatus
    BY <1>5, SameCounts DEF Flushed, SetSwoStatus
  <1>6. CASE OpenInterface
    BY <1>6, OpenCounts DEF OpenInterface
  <1>7. CASE CloseInterface \/ ThreadJoined
    BY <1>7, CloseCounts DEF CloseInterface, ThreadJoined
  <1>8. CASE StopSwoThread
    BY <1>8, CloseCounts, SameCounts DEF StopSwoThread
  <1>9. CASE StartSwoThread \/ ReadSwoData
    BY <1>9, SwoCounts DEF StartSwoThread, ReadSwoData
  <1> QED
    BY <1>1, <1>2, <1>3, <1>4, <1>5, <1>6, <1>7, <1>8, <1>9 DEF CallStep

LEMMA InitCounts == ASSUME Init PROVE PermitInv
  BY EmptySeq DEF Init, UsbInit, PermitInv, CountTypes, Untouched, StopsClosed, PermitPerPacket

LEMMA NextCounts == ASSUME PermitInv, [Next]_vars PROVE PermitInv'
  <1> USE DEF usbVars, caller, thread, usb, counts, swo, counted
  <1>1. CASE Begin
    BY <1>1, SameCounts DEF Begin
  <1>2. CASE CallStep
    BY <1>2, CallStepCounts
  <1>3. CASE Receive
    BY <1>3, ThreadCounts DEF Receive
  <1>4. CASE Probe
    BY <1>4, ProbeCounts, SwoCounts DEF Probe
  <1>5. ASSUME NEW r \in 1 .. MaxReaders, Listen(r) PROVE PermitInv'
    BY <1>5, SwoCounts DEF Listen
  <1>6. CASE UNCHANGED vars
    BY <1>6, SameCounts DEF vars
  <1> QED
    BY <1>1, <1>2, <1>3, <1>4, <1>5, <1>6 DEF Next

(* In the first session and without a fault, the permits are those of the  *)
(* packets whose answers are still to come, for any number of calls and    *)
(* packets, whatever the SWO threads do: PyUSBv2's write releases the      *)
(* semaphore exactly for what the receive thread will read.                *)
THEOREM PermitsMatch == Spec => []PermitPerPacket
  <1>1. Init => PermitInv
    BY InitCounts
  <1>2. PermitInv /\ [Next]_vars => PermitInv'
    BY NextCounts
  <1>3. PermitInv => PermitPerPacket
    BY DEF PermitInv
  <1> QED
    BY <1>1, <1>2, <1>3, PTL DEF Spec

-----------------------------------------------------------------------------
(* The wire *)

Numbers == Nat \ {0}

\* The answers in rcv_data, and the list itself: a thread that has exited has left its
\* None behind them.  No thread lives outside a session.
Received == IF rxPc = "exited" THEN Front(rcvData) ELSE rcvData
WireTypes == written \in Nat /\ epOut \in Seq(Numbers) /\ epIn \in Seq(Numbers)
NoneLast ==
    /\ Received \in Seq(Numbers)
    /\ rcvData = IF rxPc = "exited" THEN Append(Received, ThreadGone) ELSE Received
QuietClosed == closed /\ callerPc # "joining" => rxPc = "none" /\ rcvData = << >>

WireInv == WireTypes /\ NoneLast /\ QuietClosed

\* A step keeps the invariant, and is a step of the wire or none.
Wired == WireInv' /\ [W!Next]_(W!vars)

wired == <<callerPc, closed, rxPc, rcvData, epOut, epIn, written, got>>

LEMMA FrontAppend ==
    ASSUME NEW s \in Seq(Numbers)
    PROVE  Front(Append(s, ThreadGone)) = s
<1>1. Append(s, ThreadGone) \in Seq(Nat) /\ Len(Append(s, ThreadGone)) = Len(s) + 1
  BY DEF Numbers, ThreadGone
<1>2. Len(s) \in Nat /\ \A i \in 1 .. Len(s) : Append(s, ThreadGone)[i] = s[i]
  BY AppendProperties
<1>3. s \in Seq(Nat)
  BY DEF Numbers
<1>. DEFINE t == Append(s, ThreadGone)
<1>. HIDE DEF t
<1>4. \A i \in 1 .. Len(s) : t[i] \in Nat
  BY <1>2, <1>3 DEF t
<1>5. /\ SubSeq(t, 1, Len(s)) \in Seq(Nat) /\ Len(SubSeq(t, 1, Len(s))) = Len(s)
      /\ \A i \in 1 .. Len(s) : SubSeq(t, 1, Len(s))[i] = t[i]
  BY <1>2, <1>4, SubSeqProperties
<1>6. SubSeq(t, 1, Len(s)) = s
  BY <1>2, <1>3, <1>5, SeqEqual DEF t
<1>. QED  BY <1>1, <1>2, <1>6 DEF Front, t

\* What the answers on the wire are, in the terms of the invariant.
LEMMA AnswersAre == Answers = Received \o epIn
  BY DEF Answers, Received

\* What throws away answers at the start of them, or none.
LEMMA Discards ==
    ASSUME NEW r \in Seq(Numbers), NEW s \in Seq(Numbers), Answers = r \o s, Answers' = s,
           UNCHANGED <<written, epOut, got>>
    PROVE  [W!Next]_(W!vars)
<1>1. r \o s \in Seq(Numbers) /\ Len(r \o s) = Len(r) + Len(s) /\ Len(r) \in Nat /\ Len(s) \in Nat
      /\ \A i \in 1 .. Len(s) : (r \o s)[Len(r) + i] = s[i]
  BY ConcatProperties
<1>2. CASE Len(r) = 0
  <2>1. r = << >>
    BY <1>2
  <2>2. Answers' = Answers
    BY <2>1
  <2>. QED  BY <2>2 DEF W!vars
<1>3. CASE Len(r) # 0
  <2>. DEFINE n == Len(r)
              t == SubSeq(r \o s, n + 1, Len(r \o s))
  <2>1. /\ n \in 1 .. Len(r \o s) /\ n + 1 \in 1 .. Len(r \o s) + 1
    BY <1>1, <1>3
  <2>2. \A i \in n + 1 .. Len(r \o s) : (r \o s)[i] \in Numbers
    BY <1>1
  <2>3. t \in Seq(Numbers) /\ Len(t) = Len(s) /\ \A i \in 1 .. Len(s) : t[i] = (r \o s)[n + i]
    BY <1>1, <2>1, <2>2, SubSeqProperties
  <2>. HIDE DEF t
  <2>4. t = s
    BY <1>1, <2>3, SeqEqual
  <2>5. W!Discard(n)
    BY <2>4 DEF W!Discard, t
  <2>. QED  BY <2>1, <2>5 DEF W!Next
<1>. QED  BY <1>2, <1>3

LEMMA SameWired == ASSUME WireInv, UNCHANGED wired PROVE Wired
<1>1. Answers' = Answers /\ Received' = Received
  BY DEF wired, Answers, Received
<1>. QED  BY <1>1 DEF Wired, WireInv, WireTypes, NoneLast, QuietClosed, wired, W!vars

\* Steps of the caller and of the thread's control that move no answer.
LEMMA MovesNothing ==
    ASSUME WireInv, UNCHANGED <<rcvData, epOut, epIn, written, got>>,
           rxPc' = "exited" <=> rxPc = "exited", QuietClosed'
    PROVE  Wired
<1>1. Answers' = Answers /\ Received' = Received
  BY DEF Answers, Received
<1>. QED  BY <1>1 DEF Wired, WireInv, WireTypes, NoneLast, W!vars

LEMMA OpenWired == ASSUME WireInv, Open PROVE Wired
<1>1. rxPc = "none" /\ rcvData = << >> /\ rcvData' = << >> /\ epIn' = << >> /\ rxPc' = "loop"
      /\ UNCHANGED <<written, epOut, got>> /\ ~closed'
  BY DEF Open, WireInv, QuietClosed
<1>2. << >> \in Seq(Numbers) /\ epIn \in Seq(Numbers)
  BY EmptySeq DEF WireInv, WireTypes
<1>3. Answers = epIn \o << >> /\ Answers' = << >>
  BY <1>1, <1>2 DEF Answers
<1>4. [W!Next]_(W!vars)
  BY <1>1, <1>2, <1>3, Discards
<1>. QED  BY <1>1, <1>2, <1>4 DEF Wired, WireInv, WireTypes, NoneLast, QuietClosed, Received

LEMMA WriteWired == ASSUME WireInv, Write \/ WriteOut \/ WriteFails PROVE Wired
<1>1. CASE Write \/ WriteFails
  BY <1>1, MovesNothing DEF Write, WriteFails, WireInv, QuietClosed, usb, counts, thread
<1>2. CASE WriteOut
  <2>1. /\ Answers' = Answers /\ Received' = Received /\ written' = written + 1
        /\ epOut' = Append(epOut, written') /\ got' = got
        /\ UNCHANGED <<rcvData, rxPc, epIn, closed>> /\ callerPc = "writeOut"
    BY <1>2 DEF WriteOut, Answers, Received, thread
  <2>2. W!Write
    BY <2>1 DEF W!Write
  <2>3. written' \in Numbers /\ epOut' \in Seq(Numbers)
    <3>1. written' \in Numbers
      BY <2>1 DEF WireInv, WireTypes, Numbers
    <3>. QED  BY <2>1, <3>1, AppendProperties DEF WireInv, WireTypes
  <2>. QED  BY <2>1, <2>2, <2>3
            DEF Wired, W!Next, WireInv, WireTypes, NoneLast, QuietClosed, Numbers
<1>. QED  BY <1>1, <1>2

\* read takes the first answer off the wire.
LEMMA ReturnWired == ASSUME WireInv, ReadReturns PROVE Wired /\ W!Read
<1>. DEFINE r == Received
<1>1. /\ rcvData # << >> /\ Head(rcvData) # ThreadGone /\ got' = rcvData[1]
      /\ rcvData' = SubSeq(rcvData, 1, 0) \o SubSeq(rcvData, 2, Len(rcvData))
      /\ UNCHANGED <<closed, rxPc, epOut, epIn, written>> /\ callerPc = "reading"
      /\ callerPc' = "idle"
  BY DEF ReadReturns, PopIndex, RemoveAt, thread, usb
<1>2. /\ r \in Seq(Numbers) /\ epIn \in Seq(Numbers)
      /\ rcvData = IF rxPc = "exited" THEN Append(r, ThreadGone) ELSE r
  BY DEF WireInv, NoneLast, WireTypes
<1>. HIDE DEF r
<1>3. rcvData \in Seq(Nat)
  BY <1>2 DEF Numbers, ThreadGone
<1>4. rcvData' = Tail(rcvData)
  <2>1. SubSeq(rcvData, 1, 0) = << >> /\ SubSeq(rcvData, 2, Len(rcvData)) = Tail(rcvData)
    BY <1>1, <1>3
  <2>2. << >> \o Tail(rcvData) = Tail(rcvData)
    BY <1>1, <1>3
  <2>. QED  BY <1>1, <2>1, <2>2
<1>5. r # << >> /\ Head(r) = rcvData[1] /\ Tail(r) \in Seq(Numbers)
  <2>1. r # << >>
    BY <1>1, <1>2
  <2>. QED  BY <1>2, <2>1, HeadTailProperties, AppendProperties
<1>6. Received' = Tail(r)
  <2>1. CASE rxPc = "exited"
    <3>1. Tail(Append(r, ThreadGone)) = Append(Tail(r), ThreadGone)
      BY <1>2, <1>5, HeadTailAppend
    <3>. QED  BY <1>1, <1>2, <1>4, <1>5, <2>1, <3>1, FrontAppend DEF Received
  <2>2. CASE rxPc # "exited"
    BY <1>1, <1>2, <1>4, <2>2 DEF Received
  <2>. QED  BY <2>1, <2>2
<1>7. rcvData' = IF rxPc' = "exited" THEN Append(Received', ThreadGone) ELSE Received'
  BY <1>1, <1>2, <1>4, <1>5, <1>6, HeadTailAppend
<1>8. W!Read
  <2>1. Answers = r \o epIn /\ Answers' = Tail(r) \o epIn
    BY <1>1, <1>6, AnswersAre DEF Answers, Received, r
  <2>2. r \o epIn # << >> /\ Head(r \o epIn) = Head(r) /\ Tail(r \o epIn) = Tail(r) \o epIn
    BY <1>2, <1>5
  <2>. QED  BY <1>1, <1>5, <2>1, <2>2 DEF W!Read
<1>. QED  BY <1>1, <1>5, <1>6, <1>7, <1>8
          DEF Wired, W!Next, WireInv, WireTypes, NoneLast, QuietClosed

LEMMA ReadWired == ASSUME WireInv, Read \/ ReadRaises \/ ReadReturns PROVE Wired
<1>1. CASE Read \/ ReadRaises
  BY <1>1, MovesNothing DEF Read, ReadRaises, WireInv, QuietClosed, usb, counts, thread
<1>. QED  BY <1>1, ReturnWired

LEMMA CloseWired == ASSUME WireInv, Close \/ SwoJoined \/ StopSwo \/ Joined PROVE Wired
<1>1. CASE Close \/ SwoJoined \/ StopSwo
  <2>1. UNCHANGED <<rcvData, epOut, epIn, written, got, rxPc>>
    BY <1>1 DEF Close, SwoJoined, StopSwo, StopRx, thread, usb, counts
  <2>2. QuietClosed'
    BY <1>1, <2>1 DEF Close, SwoJoined, StopSwo, StopRx, WireInv, QuietClosed
  <2>. QED  BY <2>1, <2>2, MovesNothing
<1>2. CASE Joined
  <2>1. /\ rcvData' = << >> /\ rxPc' = "none"
        /\ UNCHANGED <<epOut, epIn, written, got>>
    BY <1>2 DEF Joined, usb, counts
  <2>2. << >> \in Seq(Numbers) /\ << >> \o epIn = epIn
    BY EmptySeq DEF WireInv, WireTypes
  <2>3. Answers' = epIn /\ Received' = << >>
    BY <2>1, <2>2 DEF Answers, Received
  <2>4. [W!Next]_(W!vars)
    BY <2>1, <2>3, AnswersAre, Discards DEF WireInv, WireTypes, NoneLast
  <2>. QED  BY <2>1, <2>2, <2>3, <2>4 DEF Wired, WireInv, WireTypes, NoneLast, QuietClosed
<1>. QED  BY <1>1, <1>2

\* What goes from the start of one list to the end of the list before it.
LEMMA Handed ==
    ASSUME NEW a \in Seq(Numbers), NEW e \in Seq(Numbers), e # << >>
    PROVE  Append(a, Head(e)) \o Tail(e) = a \o e
<1>. DEFINE h == Head(e)
            t == Tail(e)
<1>1. h \in Numbers /\ t \in Seq(Numbers)
  BY HeadTailProperties
<1>2. e = << h >> \o t /\ Append(a, h) = a \o << h >> /\ << h >> \in Seq(Numbers)
  BY <1>1, HeadTailProperties, AppendIsConcat, ConcatProperties
<1>. HIDE DEF h, t
<1>3. \A x, y, z \in Seq(Numbers) : (x \o y) \o z = x \o (y \o z)
  BY ConcatAssociative
<1>. QED  BY <1>1, <1>2, <1>3 DEF h, t

\* The receive thread moves what is on the wire, and takes nothing off it.
LEMMA ThreadWired == ASSUME WireInv, RxTask PROVE Wired /\ Answers' = Answers /\ epOut' = epOut
<1>. DEFINE r == Received
<1>0. /\ r \in Seq(Numbers) /\ epIn \in Seq(Numbers)
      /\ rcvData = IF rxPc = "exited" THEN Append(r, ThreadGone) ELSE r
  BY DEF WireInv, NoneLast, WireTypes
<1>1. CASE RxLoop \/ RxAcquire
  <2>1. UNCHANGED <<rcvData, epOut, epIn, written, got>>
        /\ rxPc \in {"loop", "acquire"} /\ rxPc' # "exited" /\ UNCHANGED <<callerPc, closed>>
    BY <1>1 DEF RxLoop, RxAcquire, usb, counts, caller
  <2>. QED  BY <2>1, MovesNothing DEF WireInv, QuietClosed, Answers
<1>2. CASE RxRead
  <2>1. /\ rxPc = "read" /\ rxPc' = "loop" /\ epIn # << >>
        /\ rcvData' = Append(rcvData, Head(epIn)) /\ epIn' = Tail(epIn)
        /\ UNCHANGED <<callerPc, closed, epOut, written, got>>
    BY <1>2 DEF RxRead, caller, counts
  <2>2. /\ Received' = Append(r, Head(epIn)) /\ rcvData = r
        /\ Head(epIn) \in Numbers /\ Tail(epIn) \in Seq(Numbers)
        /\ Append(r, Head(epIn)) \in Seq(Numbers)
    BY <1>0, <2>1, HeadTailProperties, AppendProperties DEF Received
  <2>3. Append(r, Head(epIn)) \o Tail(epIn) = r \o epIn
    BY <1>0, <2>1, Handed
  <2>4. Answers' = Answers
    BY <2>1, <2>2, <2>3 DEF Answers, Received
  <2>. QED  BY <2>1, <2>2, <2>4
            DEF Wired, WireInv, WireTypes, NoneLast, QuietClosed, W!vars
<1>3. CASE RxStops \/ RxTimesOut
  <2>1. /\ rxPc \in {"loop", "read"} /\ rxPc' = "exited"
        /\ rcvData' = Append(rcvData, ThreadGone)
        /\ UNCHANGED <<callerPc, closed, epOut, epIn, written, got>>
    BY <1>3 DEF RxStops, RxTimesOut, Exit, caller, usb
  <2>2. rcvData = r
    BY <1>0, <2>1
  <2>. HIDE DEF r
  <2>3. Received' = r
    BY <1>0, <2>1, <2>2, FrontAppend DEF Received
  <2>4. Answers' = Answers
    BY <2>1, <2>3 DEF Answers, Received, r
  <2>. QED  BY <1>0, <2>1, <2>2, <2>3, <2>4
            DEF Wired, WireInv, WireTypes, NoneLast, QuietClosed, W!vars
<1>. QED  BY <1>1, <1>2, <1>3 DEF RxTask

LEMMA ProbeWired == ASSUME WireInv, ProbeAnswers PROVE Wired /\ W!Execute
<1>. DEFINE r == Received
<1>1. /\ epOut # << >> /\ epIn' = Append(epIn, Head(epOut)) /\ epOut' = Tail(epOut)
      /\ UNCHANGED <<callerPc, closed, rxPc, rcvData, written, got>>
  BY DEF ProbeAnswers, caller, thread, counts
<1>2. /\ r \in Seq(Numbers) /\ epIn \in Seq(Numbers) /\ epOut \in Seq(Numbers)
  BY DEF WireInv, NoneLast, WireTypes
<1>3. /\ Head(epOut) \in Numbers /\ Tail(epOut) \in Seq(Numbers)
      /\ Append(epIn, Head(epOut)) \in Seq(Numbers)
  BY <1>1, <1>2, HeadTailProperties, AppendProperties
<1>4. Answers = r \o epIn /\ Answers' = r \o Append(epIn, Head(epOut)) /\ Received' = r
  BY <1>1 DEF Answers, Received
<1>. HIDE DEF r
<1>5. r \o Append(epIn, Head(epOut)) = Append(r \o epIn, Head(epOut))
  <2>. DEFINE h == Head(epOut)
  <2>1. /\ Append(epIn, h) = epIn \o << h >> /\ << h >> \in Seq(Numbers)
        /\ r \o epIn \in Seq(Numbers) /\ Append(r \o epIn, h) = (r \o epIn) \o << h >>
    BY <1>2, <1>3, AppendIsConcat, ConcatProperties
  <2>. HIDE DEF h
  <2>2. \A a, b, c \in Seq(Numbers) : (a \o b) \o c = a \o (b \o c)
    BY ConcatAssociative
  <2>. QED  BY <1>2, <2>1, <2>2 DEF h
<1>6. W!Execute
  BY <1>1, <1>4, <1>5 DEF W!Execute
<1>. QED  BY <1>1, <1>2, <1>3, <1>4, <1>6
          DEF Wired, W!Next, WireInv, WireTypes, NoneLast, QuietClosed, r

LEMMA SwoWired ==
    ASSUME WireInv, NEW r, StartSwo \/ ReadSwo \/ SwoTask(r) \/ ProbeCaptures
    PROVE  Wired
<1>1. UNCHANGED notSwo
  BY DEF StartSwo, ReadSwo, SwoTask, SwoRead, SwoReadExpires, SwoAppend, ProbeCaptures
<1>. QED  BY <1>1, SameWired DEF notSwo, wired, caller, thread, usb, counts

LEMMA CallStepWired == ASSUME WireInv, CallStep PROVE Wired
  <1> USE DEF usbVars, caller, thread, usb, counts, wired
  <1>1. CASE WriteCommand \/ Written \/ WriteRaises
    BY <1>1, WriteWired DEF WriteCommand, Written, WriteRaises
  <1>2. CASE ReadAnswer \/ ReadFails \/ Answered \/ Mistaken \/ Refused
    BY <1>2, ReadWired DEF ReadAnswer, ReadFails, Answered, Mistaken, Refused
  <1>3. CASE Flushed \/ SetSwoStatus
    BY <1>3, SameWired DEF Flushed, SetSwoStatus
  <1>4. CASE OpenInterface
    BY <1>4, OpenWired DEF OpenInterface
  <1>5. CASE CloseInterface \/ ThreadJoined
    BY <1>5, CloseWired DEF CloseInterface, ThreadJoined
  <1>6. CASE StopSwoThread
    BY <1>6, CloseWired, SameWired DEF StopSwoThread
  <1>7. CASE StartSwoThread \/ ReadSwoData
    BY <1>7, SwoWired DEF StartSwoThread, ReadSwoData
  <1> QED
    BY <1>1, <1>2, <1>3, <1>4, <1>5, <1>6, <1>7 DEF CallStep

LEMMA InitWired == ASSUME Init PROVE WireInv /\ W!Init
<1>1. << >> \in Seq(Numbers) /\ << >> \o << >> = << >>
  BY EmptySeq
<1>2. Answers = << >> /\ Received = << >>
  BY <1>1 DEF Init, UsbInit, Answers, Received
<1>. QED  BY <1>1, <1>2 DEF Init, UsbInit, WireInv, WireTypes, NoneLast, QuietClosed, W!Init

LEMMA NextWired == ASSUME WireInv, [Next]_vars PROVE Wired
  <1> USE DEF usbVars, caller, thread, usb, counts, wired
  <1>1. CASE Begin
    BY <1>1, SameWired DEF Begin
  <1>2. CASE CallStep
    BY <1>2, CallStepWired
  <1>3. CASE Receive
    BY <1>3, ThreadWired DEF Receive
  <1>4. CASE Probe
    BY <1>4, ProbeWired, SwoWired DEF Probe
  <1>5. ASSUME NEW r \in 1 .. MaxReaders, Listen(r) PROVE Wired
    BY <1>5, SwoWired DEF Listen
  <1>6. CASE UNCHANGED vars
    BY <1>6, SameWired DEF vars
  <1> QED
    BY <1>1, <1>2, <1>3, <1>4, <1>5, <1>6 DEF Next

(* The USB interface under all that calls it is a wire: packets and        *)
(* answers stay in order, none twice and none made up, in any number of    *)
(* sessions and with threads that expire; what is lost are the oldest      *)
(* answers, when the interface is closed or opened.                        *)
THEOREM WireRefined == Spec => ImplementsWire
  <1>1. Init => WireInv /\ W!Init
    BY InitWired
  <1>2. WireInv /\ [Next]_vars => WireInv' /\ [W!Next]_(W!vars)
    BY NextWired DEF Wired
  <1> QED
    BY <1>1, <1>2, PTL DEF Spec, ImplementsWire, W!Spec

-----------------------------------------------------------------------------
(* The SWO data *)

\* What it depends on.
streamed == <<readers, swoData, epSwo, produced, heard, doubled>>

Holding(r) == readers[r] > 0
Fetched == produced - Len(epSwo)

SwoTypes ==
    /\ readers \in [1 .. MaxReaders -> Int]
    /\ swoData \in Seq(Nat) /\ epSwo \in Seq(Numbers)
    /\ produced \in Nat /\ heard \in Nat /\ Len(epSwo) <= produced

\* At the endpoint are the last chunks that the probe sent.
EndpointLast == \A i \in 1 .. Len(epSwo) : epSwo[i] = Fetched + i

OneReader == ~doubled => \A r, q \in 1 .. MaxReaders : Alive(r) /\ Alive(q) => r = q

\* In swo_data and in the hand of the thread are those before them, from the first
\* that the caller has not had.
HandInOrder ==
    ~doubled /\ ThreadGone \notin ToSet(swoData) =>
        /\ \A i \in 1 .. Len(swoData) : swoData[i] = heard + i
        /\ \A r \in 1 .. MaxReaders : Holding(r) => readers[r] = Fetched
        /\ heard + Len(swoData) = IF \E r \in 1 .. MaxReaders : Holding(r) THEN Fetched - 1 ELSE Fetched

SwoInv == SwoTypes /\ EndpointLast /\ OneReader /\ HandInOrder

\* The least-number principle.
LEMMA Least ==
    ASSUME NEW S \in SUBSET Nat, S # {}
    PROVE  \E m \in S : \A k \in S : m <= k
<1>. DEFINE R == OpToRel(<, Nat)
<1>1. IsWellFoundedOn(R, Nat)
  BY NatLessThanWellFounded
<1>2. \A x, y \in Nat : << y, x >> \in R <=> y < x
  BY DEF OpToRel
<1>. HIDE DEF R
<1>3. PICK m \in S : \A k \in S : ~(<< k, m >> \in R)
  BY <1>1, WFMin
<1>4. \A k \in S : k \in Nat /\ m \in Nat /\ ~(k < m)
  BY <1>2, <1>3
<1>5. \A k \in S : m <= k
  BY <1>4
<1>. QED  BY <1>5

\* read_swo stops before the first None.
LEMMA FirstGone ==
    ASSUME NEW s \in Seq(Nat), ThreadGone \in ToSet(s)
    PROVE  LET n == SelectInSeq(s, LAMBDA c : c = ThreadGone)
           IN  n \in 1 .. Len(s) /\ s[n] = ThreadGone
<1>. DEFINE I == {i \in 1 .. Len(s) : s[i] = ThreadGone}
<1>1. I # {} /\ I \in SUBSET Nat
  BY DEF ToSet
<1>2. SelectInSeq(s, LAMBDA c : c = ThreadGone) = CHOOSE x \in I : \A y \in I : x <= y
  BY <1>1 DEF SelectInSeq, Min
<1>. HIDE DEF I
<1>3. \E x \in I : \A y \in I : x <= y
  BY <1>1, Least
<1>4. SelectInSeq(s, LAMBDA c : c = ThreadGone) \in I
  BY <1>2, <1>3
<1>. QED  BY <1>4 DEF I

LEMMA SwoInvSuffices == ASSUME SwoInv PROVE SwoInOrder
<1>. SUFFICES ASSUME ~doubled, ThreadGone \notin ToSet(swoData)
              PROVE  swoData \o InHand \o epSwo = [i \in 1 .. produced - heard |-> heard + i]
  BY DEF SwoInOrder
<1>. DEFINE n == Len(swoData)
            m == Len(epSwo)
            h == InHand
            all == (swoData \o h) \o epSwo
            list == [i \in 1 .. produced - heard |-> heard + i]
<1>1. /\ n \in Nat /\ m \in Nat /\ swoData \in Seq(Nat) /\ epSwo \in Seq(Nat)
      /\ produced \in Nat /\ heard \in Nat
      /\ \A i \in 1 .. n : swoData[i] = heard + i
      /\ \A i \in 1 .. m : epSwo[i] = produced - m + i
  BY DEF SwoInv, SwoTypes, EndpointLast, HandInOrder, Fetched, Numbers
<1>2. /\ h \in Seq(Nat) /\ Len(h) \in {0, 1} /\ heard + n + Len(h) = produced - m
      /\ Len(h) = 1 => h[1] = heard + n + 1
  <2>1. DOMAIN readers = 1 .. MaxReaders
    BY DEF SwoInv, SwoTypes
  <2>2. CASE \E r \in 1 .. MaxReaders : readers[r] > 0
    <3>. DEFINE r == CHOOSE r \in DOMAIN readers : readers[r] > 0
    <3>1. r \in 1 .. MaxReaders /\ readers[r] > 0
      BY <2>1, <2>2
    <3>2. h = << readers[r] >>
      BY <2>1, <2>2 DEF InHand
    <3>. HIDE DEF r
    <3>3. readers[r] = produced - m /\ heard + n = produced - m - 1 /\ readers[r] \in Int
      BY <2>2, <3>1 DEF SwoInv, SwoTypes, HandInOrder, Holding, Fetched
    <3>. HIDE DEF h
    <3>4. h \in Seq(Nat) /\ Len(h) = 1 /\ h[1] = readers[r]
      BY <1>1, <3>1, <3>2, <3>3
    <3>. QED  BY <1>1, <3>3, <3>4
  <2>3. CASE ~\E r \in 1 .. MaxReaders : readers[r] > 0
    <3>1. h = << >>
      BY <2>1, <2>3 DEF InHand
    <3>2. heard + n = produced - m
      BY <2>3 DEF SwoInv, HandInOrder, Holding, Fetched
    <3>. HIDE DEF h
    <3>. QED  BY <1>1, <3>1, <3>2
  <2>. QED  BY <2>2, <2>3
<1>. HIDE DEF h
<1>3. /\ swoData \o h \in Seq(Nat) /\ Len(swoData \o h) = n + Len(h)
      /\ \A i \in 1 .. n : (swoData \o h)[i] = swoData[i]
      /\ \A i \in 1 .. Len(h) : (swoData \o h)[n + i] = h[i]
  BY <1>1, <1>2, ConcatProperties
<1>. DEFINE s == swoData \o h
<1>4. \A i \in 1 .. Len(s) : s[i] = heard + i
  <2>. SUFFICES ASSUME NEW i \in 1 .. n + Len(h)
                PROVE  (swoData \o h)[i] = heard + i
    BY <1>3
  <2>1. CASE i \in 1 .. n
    BY <1>1, <1>3, <2>1
  <2>2. CASE i \notin 1 .. n
    <3>1. Len(h) = 1 /\ i = n + 1
      <4>. DEFINE k == Len(h)
      <4>1. k \in {0, 1} /\ i \in 1 .. n + k
        BY <1>2
      <4>. HIDE DEF k
      <4>2. k = 1 /\ i = n + 1
        BY <1>1, <2>2, <4>1
      <4>. QED  BY <4>2 DEF k
    <3>. QED  BY <1>1, <1>2, <1>3, <3>1
  <2>. QED  BY <2>1, <2>2
<1>5. s \in Seq(Nat) /\ Len(s) = produced - m - heard
  BY <1>1, <1>2, <1>3
<1>. HIDE DEF s
<1>6. /\ s \o epSwo \in Seq(Nat) /\ Len(s \o epSwo) = Len(s) + m
      /\ \A i \in 1 .. Len(s) : (s \o epSwo)[i] = s[i]
      /\ \A i \in 1 .. m : (s \o epSwo)[Len(s) + i] = epSwo[i]
  <2>1. epSwo \in Seq(Nat) /\ m = Len(epSwo) /\ m \in Nat /\ Len(s) \in Nat
    BY <1>1, <1>5
  <2>2. /\ s \o epSwo \in Seq(Nat) /\ Len(s \o epSwo) = Len(s) + Len(epSwo)
        /\ \A i \in 1 .. Len(s) + Len(epSwo) :
              (s \o epSwo)[i] = IF i <= Len(s) THEN s[i] ELSE epSwo[i - Len(s)]
    BY <1>5, <2>1, ConcatProperties
  <2>3. \A i \in 1 .. m : Len(s) + i \in 1 .. Len(s) + m /\ ~(Len(s) + i <= Len(s)) /\ Len(s) + i - Len(s) = i
    BY <2>1
  <2>. HIDE DEF m
  <2>4. \A i \in 1 .. Len(s) : i \in 1 .. Len(s) + m /\ i <= Len(s)
    BY <2>1
  <2>5. \A i \in 1 .. m : (s \o epSwo)[Len(s) + i] = epSwo[i]
    BY <2>1, <2>2, <2>3
  <2>. QED  BY <2>1, <2>2, <2>4, <2>5
<1>7. Len(s \o epSwo) = produced - heard
  BY <1>1, <1>5, <1>6
<1>8. \A i \in 1 .. produced - heard : (s \o epSwo)[i] = heard + i
  <2>. SUFFICES ASSUME NEW i \in 1 .. produced - heard
                PROVE  (s \o epSwo)[i] = heard + i
    OBVIOUS
  <2>1. CASE i \in 1 .. Len(s)
    BY <1>4, <1>6, <2>1
  <2>2. CASE i \notin 1 .. Len(s)
    <3>1. i - Len(s) \in 1 .. m /\ Len(s) + (i - Len(s)) = i
      BY <1>1, <1>5, <2>2
    <3>2. (s \o epSwo)[i] = epSwo[i - Len(s)]
      BY <1>6, <3>1
    <3>. QED  BY <1>1, <1>5, <3>1, <3>2
  <2>. QED  BY <2>1, <2>2
<1>9. list \in Seq(Nat) /\ Len(list) = produced - heard
  <2>1. produced - heard \in Nat
    BY <1>1, <1>2
  <2>2. \A i \in 1 .. produced - heard : heard + i \in Nat
    BY <1>1
  <2>. QED  BY <2>1, <2>2
<1>10. \A i \in 1 .. produced - heard : list[i] = heard + i
  OBVIOUS
<1>. HIDE DEF list
<1>11. s \o epSwo = list
  BY <1>6, <1>7, <1>8, <1>9, <1>10, SeqEqual
<1>. QED  BY <1>11 DEF s, list, h

LEMMA SameStream == ASSUME SwoInv, UNCHANGED streamed PROVE SwoInv'
  BY DEF SwoInv, streamed, SwoTypes, EndpointLast, OneReader, HandInOrder, Fetched, Holding, Alive

\* A second thread beside one that is alive is doubled; the first has nothing in hand.
LEMMA StartSwoOrder == ASSUME SwoInv, StartSwo PROVE SwoInv'
<1>1. PICK r \in DOMAIN readers :
         /\ ~Alive(r) /\ readers' = [readers EXCEPT ![r] = Listening]
  BY DEF StartSwo
<1>2. /\ UNCHANGED <<swoData, epSwo, produced, heard>>
      /\ doubled' = (doubled \/ \E q \in DOMAIN readers : Alive(q))
      /\ DOMAIN readers = 1 .. MaxReaders
  BY DEF StartSwo, SwoInv, SwoTypes
<1>3. SwoTypes' /\ EndpointLast'
  BY <1>1, <1>2 DEF SwoInv, SwoTypes, EndpointLast, Fetched, Listening
<1>4. ASSUME ~doubled'
      PROVE  /\ ~doubled /\ \A q \in 1 .. MaxReaders : ~Alive(q) /\ ~Holding(q) /\ ~Holding(q)'
             /\ \A q \in 1 .. MaxReaders : Alive(q)' => q = r
  <2>1. ~doubled /\ \A q \in 1 .. MaxReaders : readers[q] = NoReader
    BY <1>2, <1>4 DEF Alive
  <2>2. \A q \in 1 .. MaxReaders : readers'[q] = IF q = r THEN Listening ELSE NoReader
    BY <1>1, <1>2, <2>1
  <2>. QED  BY <2>1, <2>2 DEF Alive, Holding, Listening, NoReader
<1>5. OneReader'
  BY <1>4 DEF OneReader
<1>6. HandInOrder'
  BY <1>2, <1>4 DEF SwoInv, HandInOrder, Fetched
<1>. QED  BY <1>3, <1>5, <1>6 DEF SwoInv

\* What read_swo returns has been heard; at the None of a thread it takes what comes
\* before it, and the None stays.
LEMMA ReadSwoOrder == ASSUME SwoInv, ReadSwo PROVE SwoInv'
<1>1. /\ UNCHANGED <<readers, epSwo, produced, doubled>> /\ swoData \in Seq(Nat)
      /\ Len(swoData) \in Nat /\ heard \in Nat
  BY DEF ReadSwo, SwoInv, SwoTypes
<1>2. CASE ThreadGone \in ToSet(swoData)
  <2>. DEFINE n == SelectInSeq(swoData, LAMBDA c : c = ThreadGone)
  <2>1. n \in 1 .. Len(swoData) /\ swoData[n] = ThreadGone
    BY <1>1, <1>2, FirstGone
  <2>2. heard' = heard /\ swoData' = SubSeq(swoData, (n - 1) + 1, Len(swoData))
    BY <1>2 DEF ReadSwo
  <2>. HIDE DEF n
  <2>3. (n - 1) + 1 = n /\ n \in 1 .. Len(swoData) + 1 /\ \A i \in n .. Len(swoData) : swoData[i] \in Nat
    BY <1>1, <2>1
  <2>4. /\ swoData' \in Seq(Nat) /\ Len(swoData') = Len(swoData) - n + 1
        /\ \A i \in 1 .. Len(swoData) - n + 1 : swoData'[i] = swoData[n + i - 1]
    BY <1>1, <2>2, <2>3, SubSeqProperties
  <2>5. swoData'[1] = ThreadGone /\ 1 \in DOMAIN swoData'
    BY <1>1, <2>1, <2>4
  <2>6. ThreadGone \in ToSet(swoData')
    BY <2>5 DEF ToSet
  <2>. QED  BY <1>1, <2>2, <2>4, <2>6
            DEF SwoInv, SwoTypes, EndpointLast, OneReader, HandInOrder, Fetched, Holding, Alive
<1>3. CASE ThreadGone \notin ToSet(swoData)
  <2>1. SubSeq(swoData, 1, Len(swoData)) = swoData
    BY <1>1
  <2>2. SubSeq(swoData, Len(swoData) + 1, Len(swoData)) = << >>
    BY <1>1
  <2>3. swoData' = << >> /\ heard' = heard + Len(swoData)
    BY <1>3, <2>1, <2>2 DEF ReadSwo, Accumulate
  <2>4. swoData' \in Seq(Nat) /\ Len(swoData') = 0 /\ heard' \in Nat /\ heard' + Len(swoData') = heard'
    BY <1>1, <2>3
  <2>5. SwoTypes' /\ EndpointLast' /\ OneReader'
    BY <1>1, <2>4 DEF SwoInv, SwoTypes, EndpointLast, OneReader, Fetched, Alive
  <2>6. HandInOrder'
    BY <1>1, <1>3, <2>3, <2>4 DEF SwoInv, HandInOrder, Fetched, Holding
  <2>. QED  BY <2>5, <2>6 DEF SwoInv
<1>. QED  BY <1>2, <1>3

\* close drops what was not read, and ends what the threads were reading.
LEMMA JoinedOrder == ASSUME SwoInv, Joined PROVE SwoInv'
<1>1. /\ swoData' = << >> /\ heard' = Fetched /\ UNCHANGED <<epSwo, produced, doubled>>
      /\ \A r \in 1 .. MaxReaders :
             readers'[r] = IF Alive(r) THEN Expired ELSE NoReader
      /\ readers' \in [1 .. MaxReaders -> Int]
  BY DEF Joined, Fetched, SwoInv, SwoTypes, Expired, NoReader
<1>2. \A r \in 1 .. MaxReaders : ~Holding(r)' /\ (Alive(r)' => Alive(r))
  BY <1>1 DEF Holding, Alive, Expired, NoReader
<1>3. heard' \in Nat /\ swoData' \in Seq(Nat) /\ Len(swoData') = 0 /\ heard' + 0 = heard'
  BY <1>1 DEF SwoInv, SwoTypes, Fetched
<1>4. SwoTypes' /\ EndpointLast' /\ OneReader'
  BY <1>1, <1>2, <1>3 DEF SwoInv, SwoTypes, EndpointLast, OneReader, Fetched
<1>5. HandInOrder'
  BY <1>1, <1>2, <1>3 DEF HandInOrder, Fetched
<1>. QED  BY <1>4, <1>5 DEF SwoInv

\* The thread takes the first chunk of those at the endpoint; it had none in hand.
LEMMA SwoReadOrder == ASSUME SwoInv, NEW r \in 1 .. MaxReaders, SwoRead(r) PROVE SwoInv'
<1>1. /\ readers[r] = Listening /\ epSwo # << >>
      /\ readers' = [readers EXCEPT ![r] = Head(epSwo)] /\ epSwo' = Tail(epSwo)
      /\ UNCHANGED <<swoData, produced, heard, doubled>>
  BY DEF SwoRead
<1>2. /\ Head(epSwo) = epSwo[1] /\ Head(epSwo) \in Numbers /\ Len(epSwo) \in Nat \ {0}
      /\ epSwo' \in Seq(Numbers) /\ Len(epSwo') = Len(epSwo) - 1
      /\ \A i \in 1 .. Len(epSwo) - 1 : epSwo'[i] = epSwo[i + 1]
  BY <1>1, HeadTailProperties DEF SwoInv, SwoTypes
<1>3. Fetched' = Fetched + 1 /\ Head(epSwo) = Fetched + 1 /\ Fetched \in Nat
  BY <1>1, <1>2 DEF SwoInv, SwoTypes, EndpointLast, Fetched
<1>4. SwoTypes' /\ EndpointLast'
  <2>1. SwoTypes'
    BY <1>1, <1>2 DEF SwoInv, SwoTypes, Numbers
  <2>2. EndpointLast'
    BY <1>1, <1>2, <1>3 DEF SwoInv, EndpointLast
  <2>. QED  BY <2>1, <2>2
<1>5. \A q \in 1 .. MaxReaders : readers'[q] = IF q = r THEN Head(epSwo) ELSE readers[q]
  BY <1>1 DEF SwoInv, SwoTypes
<1>6. \A q \in 1 .. MaxReaders : Alive(q)' <=> Alive(q)
  BY <1>1, <1>2, <1>5 DEF Alive, Listening, NoReader, Numbers
<1>7. OneReader'
  BY <1>1, <1>6 DEF SwoInv, OneReader
<1>8. HandInOrder'
  <2>. SUFFICES ASSUME ~doubled, ThreadGone \notin ToSet(swoData)
                PROVE  /\ \A i \in 1 .. Len(swoData) : swoData[i] = heard + i
                       /\ \A q \in 1 .. MaxReaders : Holding(q)' => readers'[q] = Fetched'
                       /\ Holding(r)' /\ heard + Len(swoData) = Fetched' - 1
    BY <1>1 DEF HandInOrder
  <2>1. \A q \in 1 .. MaxReaders : ~Holding(q)
    <3>1. Alive(r)
      BY <1>1 DEF Alive, Listening, NoReader
    <3>2. \A q \in 1 .. MaxReaders : Alive(q) => q = r
      BY <3>1 DEF SwoInv, OneReader
    <3>. QED  BY <1>1, <3>2 DEF Holding, Alive, Listening, NoReader, SwoInv, SwoTypes
  <2>2. \A q \in 1 .. MaxReaders : Holding(q)' => q = r
    BY <1>5, <2>1 DEF Holding
  <2>3. Holding(r)' /\ readers'[r] = Fetched'
    BY <1>2, <1>3, <1>5 DEF Holding, Numbers
  <2>. QED  BY <1>3, <2>1, <2>2, <2>3 DEF SwoInv, HandInOrder
<1>. QED  BY <1>4, <1>7, <1>8 DEF SwoInv

\* At its loop test the thread has appended what it had in hand; it listens again, or
\* is gone and leaves its None.
LEMMA SwoLoopOrder ==
    ASSUME SwoInv, NEW r \in 1 .. MaxReaders, Alive(r),
           IF Holding(r) THEN SwoLoop(r, Append(swoData, readers[r])) ELSE SwoLoop(r, swoData),
           UNCHANGED <<epSwo, produced, heard, doubled>>
    PROVE  SwoInv'
<1>. DEFINE data == IF Holding(r) THEN Append(swoData, readers[r]) ELSE swoData
<1>1. SwoLoop(r, data)
  OBVIOUS
<1>2. /\ swoData \in Seq(Nat) /\ Len(swoData) \in Nat /\ data \in Seq(Nat)
      /\ readers \in [1 .. MaxReaders -> Int] /\ Fetched' = Fetched /\ Fetched \in Nat /\ heard \in Nat
  <2>1. Holding(r) => readers[r] \in Nat
    BY DEF SwoInv, SwoTypes, Holding
  <2>. QED  BY <2>1, AppendProperties DEF SwoInv, SwoTypes, Fetched
<1>3. \A q \in 1 .. MaxReaders :
          /\ q = r => readers'[q] \in {Listening, NoReader}
          /\ q # r => readers'[q] = readers[q]
  BY <1>1, <1>2 DEF SwoLoop
<1>4. /\ readers' \in [1 .. MaxReaders -> Int]
      /\ swoData' = data \/ swoData' = Append(data, ThreadGone)
  BY <1>1, <1>2 DEF SwoLoop, Listening, NoReader
<1>. HIDE DEF data
<1>5. swoData' \in Seq(Nat)
  BY <1>2, <1>4, AppendProperties DEF ThreadGone
<1>6. SwoTypes' /\ EndpointLast'
  BY <1>2, <1>4, <1>5 DEF SwoInv, SwoTypes, EndpointLast
<1>7. \A q \in 1 .. MaxReaders : Alive(q)' => Alive(q)
  BY <1>3 DEF Alive
<1>8. OneReader'
  BY <1>7 DEF SwoInv, OneReader
<1>9. ASSUME ~doubled, ThreadGone \notin ToSet(swoData')
      PROVE  /\ \A i \in 1 .. Len(data) : data[i] = heard + i
             /\ heard + Len(data) = Fetched /\ swoData' = data
             /\ \A q \in 1 .. MaxReaders : ~Holding(q)'
  <2>1. swoData' = data
    <3>1. Append(data, ThreadGone)[Len(data) + 1] = ThreadGone
          /\ Len(data) + 1 \in DOMAIN Append(data, ThreadGone)
      BY <1>2, AppendProperties DEF ThreadGone
    <3>2. ThreadGone \in ToSet(Append(data, ThreadGone))
      BY <3>1 DEF ToSet
    <3>. QED  BY <1>4, <1>9, <3>2
  <2>2. ThreadGone \notin ToSet(swoData)
    <3>1. \A i \in 1 .. Len(swoData) : i \in 1 .. Len(data) /\ data[i] = swoData[i]
      BY <1>2, AppendProperties DEF data, SwoInv, SwoTypes, Holding
    <3>2. DOMAIN swoData = 1 .. Len(swoData) /\ DOMAIN data = 1 .. Len(data)
      BY <1>2
    <3>. QED  BY <1>9, <2>1, <3>1, <3>2 DEF ToSet
  <2>3. \A q \in 1 .. MaxReaders : Holding(q) => q = r
    <3>1. \A q \in 1 .. MaxReaders : Alive(q) => q = r
      BY <1>9 DEF SwoInv, OneReader
    <3>. QED  BY <1>2, <3>1 DEF Holding, Alive, NoReader
  <2>4. \A q \in 1 .. MaxReaders : ~Holding(q)'
    BY <1>3, <2>3 DEF Holding, Listening, NoReader
  <2>5. CASE Holding(r)
    <3>1. readers[r] = Fetched /\ heard + Len(swoData) = Fetched - 1
          /\ \A i \in 1 .. Len(swoData) : swoData[i] = heard + i
      BY <1>9, <2>2, <2>5 DEF SwoInv, HandInOrder
    <3>2. /\ data = Append(swoData, readers[r]) /\ Len(data) = Len(swoData) + 1
          /\ \A i \in 1 .. Len(swoData) : data[i] = swoData[i]
          /\ data[Len(swoData) + 1] = readers[r]
      BY <1>2, <2>5, <3>1, AppendProperties DEF data
    <3>3. heard + Len(data) = Fetched
      BY <1>2, <3>1, <3>2
    <3>4. ASSUME NEW i \in 1 .. Len(data)
          PROVE  data[i] = heard + i
      <4>1. CASE i \in 1 .. Len(swoData)
        BY <3>1, <3>2, <4>1
      <4>2. CASE i \notin 1 .. Len(swoData)
        <5>1. i = Len(swoData) + 1
          BY <1>2, <3>2, <4>2
        <5>. QED  BY <1>2, <3>1, <3>2, <5>1
      <4>. QED  BY <4>1, <4>2
    <3>. QED  BY <2>1, <2>4, <3>3, <3>4
  <2>6. CASE ~Holding(r)
    <3>1. data = swoData /\ heard + Len(swoData) = Fetched
          /\ \A i \in 1 .. Len(swoData) : swoData[i] = heard + i
      BY <1>9, <2>2, <2>3, <2>6 DEF SwoInv, HandInOrder, data
    <3>. QED  BY <2>1, <2>4, <3>1
  <2>. QED  BY <2>5, <2>6
<1>10. HandInOrder'
  BY <1>2, <1>9 DEF HandInOrder
<1>. QED  BY <1>6, <1>8, <1>10 DEF SwoInv

LEMMA CaptureOrder == ASSUME SwoInv, ProbeCaptures PROVE SwoInv'
<1>1. /\ produced' = produced + 1 /\ epSwo' = Append(epSwo, produced')
      /\ UNCHANGED <<readers, swoData, heard, doubled>>
  BY DEF ProbeCaptures
<1>2. /\ epSwo \in Seq(Numbers) /\ produced' \in Numbers /\ produced \in Nat /\ Len(epSwo) \in Nat
  BY <1>1 DEF SwoInv, SwoTypes, Numbers
<1>3. /\ epSwo' \in Seq(Numbers) /\ Len(epSwo') = Len(epSwo) + 1
      /\ \A i \in 1 .. Len(epSwo) : epSwo'[i] = epSwo[i]
      /\ epSwo'[Len(epSwo) + 1] = produced'
  BY <1>1, <1>2, AppendProperties
<1>4. Fetched' = Fetched
  BY <1>1, <1>2, <1>3 DEF Fetched
<1>5. SwoTypes'
  BY <1>1, <1>2, <1>3 DEF SwoInv, SwoTypes
<1>6. EndpointLast'
  BY <1>1, <1>2, <1>3, <1>4 DEF SwoInv, EndpointLast, Fetched
<1>7. OneReader' /\ HandInOrder'
  BY <1>1, <1>4 DEF SwoInv, OneReader, HandInOrder, Alive, Holding
<1>. QED  BY <1>5, <1>6, <1>7 DEF SwoInv

LEMMA TaskOrder == ASSUME SwoInv, NEW r \in 1 .. MaxReaders, SwoTask(r) PROVE SwoInv'
<1>1. CASE SwoRead(r)
  BY <1>1, SwoReadOrder
<1>2. CASE SwoReadExpires(r)
  <2>1. Alive(r) /\ ~Holding(r) /\ SwoLoop(r, swoData) /\ UNCHANGED <<epSwo, produced, heard, doubled>>
    BY <1>2 DEF SwoReadExpires, Alive, Holding, Expired, Listening, NoReader
  <2>. QED  BY <2>1, SwoLoopOrder
<1>3. CASE SwoAppend(r)
  <2>1. Alive(r) /\ Holding(r) /\ SwoLoop(r, Append(swoData, readers[r]))
        /\ UNCHANGED <<epSwo, produced, heard, doubled>>
    BY <1>3 DEF SwoAppend, Alive, Holding, NoReader
  <2>. QED  BY <2>1, SwoLoopOrder
<1>. QED  BY <1>1, <1>2, <1>3 DEF SwoTask

LEMMA CallStepOrder == ASSUME SwoInv, CallStep PROVE SwoInv'
  <1> USE DEF usbVars, swo, streamed
  <1>1. CASE WriteCommand \/ Written \/ WriteRaises
    BY <1>1, SameStream DEF WriteCommand, Written, WriteRaises, Write, WriteOut, WriteFails
  <1>2. CASE ReadAnswer \/ ReadFails \/ Answered \/ Mistaken \/ Refused
    BY <1>2, SameStream
       DEF ReadAnswer, ReadFails, Answered, Mistaken, Refused, Read, ReadRaises, ReadReturns
  <1>3. CASE Flushed \/ SetSwoStatus
    BY <1>3, SameStream DEF Flushed, SetSwoStatus
  <1>4. CASE OpenInterface
    BY <1>4, SameStream DEF OpenInterface, Open
  <1>5. CASE CloseInterface
    BY <1>5, SameStream DEF CloseInterface, Close, StopRx
  <1>6. CASE StopSwoThread
    BY <1>6, SameStream DEF StopSwoThread, StopSwo
  <1>7. CASE ThreadJoined
    <2>1. CASE Joined
      BY <2>1, JoinedOrder
    <2>2. CASE SwoJoined
      BY <2>2, SameStream DEF SwoJoined
    <2> QED
      BY <1>7, <2>1, <2>2 DEF ThreadJoined
  <1>8. CASE StartSwoThread \/ ReadSwoData
    BY <1>8, StartSwoOrder, ReadSwoOrder DEF StartSwoThread, ReadSwoData
  <1> QED
    BY <1>1, <1>2, <1>3, <1>4, <1>5, <1>6, <1>7, <1>8 DEF CallStep

LEMMA InitOrder == ASSUME Init PROVE SwoInv
<1>1. /\ \A r \in 1 .. MaxReaders : readers[r] = NoReader
      /\ readers \in [1 .. MaxReaders -> Int]
      /\ swoData = << >> /\ epSwo = << >> /\ produced = 0 /\ heard = 0
  BY DEF Init, UsbInit, NoReader
<1>2. /\ swoData \in Seq(Nat) /\ epSwo \in Seq(Numbers)
      /\ Len(swoData) = 0 /\ Len(epSwo) = 0 /\ Fetched = 0
  <2>1. << >> \in Seq(Nat) /\ << >> \in Seq(Numbers) /\ Len(<< >>) = 0
    BY EmptySeq
  <2>2. swoData \in Seq(Nat) /\ epSwo \in Seq(Numbers) /\ Len(swoData) = 0 /\ Len(epSwo) = 0
    BY <1>1, <2>1
  <2>3. produced = 0 /\ Len(epSwo) = 0
    BY <1>1, <2>2
  <2>4. Fetched = 0
    BY <2>3 DEF Fetched
  <2>. QED  BY <2>2, <2>4
<1>3. \A r \in 1 .. MaxReaders : ~Holding(r) /\ ~Alive(r)
  BY <1>1 DEF Holding, Alive, NoReader
<1>4. SwoTypes /\ EndpointLast
  BY <1>1, <1>2 DEF SwoTypes, EndpointLast
<1>5. OneReader /\ HandInOrder
  BY <1>1, <1>2, <1>3 DEF OneReader, HandInOrder
<1>. QED  BY <1>4, <1>5 DEF SwoInv

LEMMA NextOrder == ASSUME SwoInv, [Next]_vars PROVE SwoInv'
  <1> USE DEF usbVars, swo, streamed
  <1>1. CASE Begin
    BY <1>1, SameStream DEF Begin
  <1>2. CASE CallStep
    BY <1>2, CallStepOrder
  <1>3. CASE Receive
    BY <1>3, SameStream DEF Receive, RxTask, RxLoop, RxAcquire, RxRead, RxStops, RxTimesOut, Exit
  <1>4. CASE Probe
    BY <1>4, SameStream, CaptureOrder DEF Probe, ProbeAnswers
  <1>5. ASSUME NEW r \in 1 .. MaxReaders, Listen(r) PROVE SwoInv'
    BY <1>5, TaskOrder DEF Listen
  <1>6. CASE UNCHANGED vars
    BY <1>6, SameStream DEF vars
  <1> QED
    BY <1>1, <1>2, <1>3, <1>4, <1>5, <1>6 DEF Next

(* The SWO data arrives in the order of the probe with nothing missing or  *)
(* twice, through the endpoint, the thread, swo_data and read_swo, for any *)
(* amount of it and any number of sessions, while no second thread was     *)
(* started beside a first and no thread is gone.                           *)
THEOREM SwoIsInOrder == Spec => []SwoInOrder
  <1>1. Init => SwoInv
    BY InitOrder
  <1>2. SwoInv /\ [Next]_vars => SwoInv'
    BY NextOrder
  <1>3. SwoInv => SwoInOrder
    BY SwoInvSuffices
  <1> QED
    BY <1>1, <1>2, <1>3, PTL DEF Spec

-----------------------------------------------------------------------------
(* The steps of a call *)

Doings ==
    {"flush", "open", "close", "write", "read", "read_packet", "swo_disabled", "swo_configured", "swo_running",
     "start_swo", "stop_swo", "read_swo"}

Commands ==
    {"none", "transfer", "info", "connect", "disconnect", "transfer_configure", "clock", "pins", "swd_configure",
     "swj_sequence", "jtag_configure", "swo_transport", "swo_transport_none", "swo_mode", "swo_mode_off",
     "swo_baudrate", "swo_start", "swo_stop", "swo_status", "swo_data", "vendor"}

Steps == [do : Doings, command : Commands]

PacketFree(s) == \A i \in 1 .. Len(s) : s[i].do # "read_packet" /\ s[i].command # "transfer"

\* Every command is read right after it was written.
Paired(s) ==
    \A i \in 1 .. Len(s) :
        /\ s[i].do = "write" => i < Len(s) /\ s[i + 1].do = "read"
        /\ s[i].do = "read" /\ i > 1 => s[i - 1].do = "write"

\* Where a refusal of the command goes on.
GoesTo(command, mark) ==
    \/ command \in {"swo_transport", "swo_mode", "swo_baudrate"} /\ mark = "swo_configured"
    \/ command \in {"swo_mode_off", "swo_transport_none"} /\ mark = "swo_disabled"

Marks == {"swo_configured", "swo_disabled"}

\* That is there, behind the command, but for the one owed.
Marked(s, owed) ==
    \A i \in 1 .. Len(s), mark \in Marks :
        GoesTo(s[i].command, mark) => mark = owed \/ \E j \in i + 1 .. Len(s) : s[j].do = mark

Listed(s, owed) == s \in Seq(Steps) /\ PacketFree(s) /\ Paired(s) /\ Marked(s, owed)
Whole(s, owed) == Listed(s, owed) /\ (s = << >> \/ s[1].do # "read")

LEMMA EmptyListed == ASSUME NEW owed PROVE Whole(<< >>, owed)
<1>1. << >> \in Seq(Steps) /\ Len(<< >>) = 0
  BY EmptySeq
<1>. QED  BY <1>1 DEF Whole, Listed, PacketFree, Paired, Marked

LEMMA OwesLess == ASSUME NEW s, NEW owed, Whole(s, "none") PROVE Whole(s, owed)
  BY DEF Whole, Listed, Marked, Marks

\* What follows the first steps of a list.
LEMMA RestListed ==
    ASSUME NEW s, Listed(s, "none"), NEW k \in 1 .. Len(s)
    PROVE  LET t == SubSeq(s, k + 1, Len(s))
           IN  /\ Listed(t, "none") /\ (s[k].do = "write" => t # << >> /\ t[1].do = "read")
               /\ s[k].do # "write" => Whole(t, "none")
<1>. DEFINE t == SubSeq(s, k + 1, Len(s))
            n == Len(s)
<1>1. s \in Seq(Steps) /\ n \in Nat /\ k \in 1 .. n
  BY DEF Listed
<1>2. \A i \in k + 1 .. n : s[i] \in Steps
  BY <1>1
<1>3. k + 1 \in 1 .. n + 1
  BY <1>1
<1>4. /\ t \in Seq(Steps) /\ Len(t) = n - k
      /\ \A i \in 1 .. n - k : t[i] = s[k + i]
  BY <1>1, <1>2, <1>3, SubSeqProperties
<1>. HIDE DEF t
<1>5. PacketFree(t)
  <2>1. \A i \in 1 .. n - k : k + i \in 1 .. n
    BY <1>1
  <2>. QED  BY <1>1, <1>4, <2>1 DEF Listed, PacketFree
<1>6. Paired(t)
  <2>. SUFFICES ASSUME NEW i \in 1 .. n - k
                PROVE  /\ t[i].do = "write" => i < n - k /\ t[i + 1].do = "read"
                       /\ t[i].do = "read" /\ i > 1 => t[i - 1].do = "write"
    BY <1>4 DEF Paired
  <2>1. k + i \in 1 .. n /\ t[i] = s[k + i]
    BY <1>1, <1>4
  <2>2. ASSUME t[i].do = "write" PROVE i < n - k /\ t[i + 1].do = "read"
    <3>1. k + i < n /\ s[k + i + 1].do = "read"
      BY <2>1, <2>2 DEF Listed, Paired
    <3>2. i + 1 \in 1 .. n - k /\ k + (i + 1) = k + i + 1
      BY <1>1, <3>1
    <3>. QED  BY <1>1, <1>4, <3>1, <3>2
  <2>3. ASSUME t[i].do = "read", i > 1 PROVE t[i - 1].do = "write"
    <3>1. k + i > 1 /\ i - 1 \in 1 .. n - k /\ k + (i - 1) = k + i - 1
      BY <1>1, <2>3
    <3>2. s[k + i - 1].do = "write"
      BY <2>1, <2>3, <3>1 DEF Listed, Paired
    <3>. QED  BY <1>4, <3>1, <3>2
  <2>. QED  BY <2>2, <2>3
<1>7. Marked(t, "none")
  <2>. SUFFICES ASSUME NEW i \in 1 .. n - k, NEW mark \in Marks, GoesTo(t[i].command, mark)
                PROVE  \E j \in i + 1 .. n - k : t[j].do = mark
    BY <1>4 DEF Marked
  <2>1. k + i \in 1 .. n /\ GoesTo(s[k + i].command, mark) /\ mark # "none"
    BY <1>1, <1>4 DEF Marks
  <2>2. PICK j \in k + i + 1 .. n : s[j].do = mark
    BY <2>1 DEF Listed, Marked
  <2>3. j - k \in i + 1 .. n - k /\ k + (j - k) = j /\ j - k \in 1 .. n - k
    BY <1>1, <2>2
  <2>. QED  BY <1>4, <2>2, <2>3
<1>8. s[k].do = "write" => t # << >> /\ t[1].do = "read"
  <2>. SUFFICES ASSUME s[k].do = "write" PROVE t # << >> /\ t[1].do = "read"
    OBVIOUS
  <2>1. k < n /\ s[k + 1].do = "read"
    BY <1>1 DEF Listed, Paired
  <2>2. 1 \in 1 .. n - k /\ n - k > 0
    BY <1>1, <2>1
  <2>. QED  BY <1>4, <2>1, <2>2
<1>9. s[k].do # "write" => t = << >> \/ t[1].do # "read"
  <2>. SUFFICES ASSUME s[k].do # "write", t # << >>, t[1].do = "read" PROVE FALSE
    OBVIOUS
  <2>1. 1 \in 1 .. n - k
    BY <1>1, <1>4
  <2>2. s[k + 1].do = "read" /\ k + 1 \in 1 .. n /\ k + 1 > 1 /\ (k + 1) - 1 = k
    BY <1>1, <1>4, <2>1
  <2>3. s[(k + 1) - 1].do = "write"
    BY <2>2 DEF Listed, Paired
  <2>. QED  BY <2>2, <2>3
<1>10. Listed(t, "none")
  BY <1>4, <1>5, <1>6, <1>7 DEF Listed
<1>. QED  BY <1>8, <1>9, <1>10 DEF Whole, t

\* One list behind another: what the first owes is owed still, unless it comes now.
LEMMA JoinedWhole ==
    ASSUME NEW s, NEW t, NEW owed, NEW left, Whole(s, owed), Whole(t, left),
           owed = left \/ (t # << >> /\ t[1].do = owed)
    PROVE  Whole(s \o t, left) /\ (s # << >> => s \o t # << >> /\ (s \o t)[1] = s[1])
<1>. DEFINE u == s \o t
            n == Len(s)
            m == Len(t)
<1>1. s \in Seq(Steps) /\ t \in Seq(Steps) /\ n \in Nat /\ m \in Nat
  BY DEF Whole, Listed
<1>2. /\ u \in Seq(Steps) /\ Len(u) = n + m
      /\ \A i \in 1 .. n + m : u[i] = IF i <= n THEN s[i] ELSE t[i - n]
  BY <1>1, ConcatProperties
<1>. HIDE DEF u
<1>3. \A i \in 1 .. n + m : i \in 1 .. n \/ i - n \in 1 .. m
  BY <1>1
<1>3a. \A i \in 1 .. n : i \in 1 .. n + m /\ u[i] = s[i]
  BY <1>1, <1>2
<1>3b. \A i \in 1 .. m : n + i \in 1 .. n + m /\ u[n + i] = t[i]
  <2>. SUFFICES ASSUME NEW i \in 1 .. m PROVE n + i \in 1 .. n + m /\ u[n + i] = t[i]
    OBVIOUS
  <2>1. n + i \in 1 .. n + m /\ ~(n + i <= n) /\ (n + i) - n = i
    BY <1>1
  <2>. QED  BY <1>2, <2>1
<1>4. PacketFree(u)
  <2>. SUFFICES ASSUME NEW i \in 1 .. n + m
                PROVE  u[i].do # "read_packet" /\ u[i].command # "transfer"
    BY <1>2 DEF PacketFree
  <2>1. CASE i \in 1 .. n
    BY <1>3a, <2>1 DEF Whole, Listed, PacketFree
  <2>2. CASE i - n \in 1 .. m
    <3>1. n + (i - n) = i
      BY <1>1
    <3>2. u[i] = t[i - n]
      BY <1>3b, <2>2, <3>1
    <3>. QED  BY <2>2, <3>2 DEF Whole, Listed, PacketFree
  <2>. QED  BY <1>3, <2>1, <2>2
<1>5. Paired(u)
  <2>. SUFFICES ASSUME NEW i \in 1 .. n + m
                PROVE  /\ u[i].do = "write" => i < n + m /\ u[i + 1].do = "read"
                       /\ u[i].do = "read" /\ i > 1 => u[i - 1].do = "write"
    BY <1>2 DEF Paired
  <2>1. CASE i \in 1 .. n
    <3>1. ASSUME u[i].do = "write" PROVE i < n + m /\ u[i + 1].do = "read"
      <4>1. i < n /\ s[i + 1].do = "read"
        BY <1>1, <1>3a, <2>1, <3>1 DEF Whole, Listed, Paired
      <4>2. i + 1 \in 1 .. n /\ i < n + m
        BY <1>1, <2>1, <4>1
      <4>. QED  BY <1>3a, <4>1, <4>2
    <3>2. ASSUME u[i].do = "read", i > 1 PROVE u[i - 1].do = "write"
      <4>1. s[i - 1].do = "write"
        BY <1>1, <1>3a, <2>1, <3>2 DEF Whole, Listed, Paired
      <4>2. i - 1 \in 1 .. n
        BY <1>1, <2>1, <3>2
      <4>. QED  BY <1>3a, <4>1, <4>2
    <3>. QED  BY <3>1, <3>2
  <2>2. CASE i - n \in 1 .. m
    <3>. DEFINE j == i - n
    <3>1. n + j = i /\ j \in 1 .. m
      BY <1>1, <2>2
    <3>. HIDE DEF j
    <3>2. u[i] = t[j]
      BY <1>3b, <3>1
    <3>3. ASSUME u[i].do = "write" PROVE i < n + m /\ u[i + 1].do = "read"
      <4>1. j < m /\ t[j + 1].do = "read"
        BY <3>1, <3>2, <3>3 DEF Whole, Listed, Paired
      <4>2. j + 1 \in 1 .. m /\ n + (j + 1) = i + 1 /\ i < n + m
        BY <1>1, <3>1, <4>1
      <4>3. u[n + (j + 1)] = t[j + 1]
        BY <1>3b, <4>2
      <4>. QED  BY <4>1, <4>2, <4>3
    <3>4. ASSUME u[i].do = "read", i > 1 PROVE u[i - 1].do = "write"
      <4>1. j # 1
        BY <1>1, <3>1, <3>2, <3>4 DEF Whole
      <4>2. j > 1 /\ j - 1 \in 1 .. m /\ n + (j - 1) = i - 1
        BY <1>1, <3>1, <4>1
      <4>3. t[j - 1].do = "write"
        BY <3>1, <3>2, <3>4, <4>2 DEF Whole, Listed, Paired
      <4>4. u[n + (j - 1)] = t[j - 1]
        BY <1>3b, <4>2
      <4>. QED  BY <4>2, <4>3, <4>4
    <3>. QED  BY <3>3, <3>4
  <2>. QED  BY <1>3, <2>1, <2>2
<1>6. Marked(u, left)
  <2>. SUFFICES ASSUME NEW i \in 1 .. n + m, NEW mark \in Marks, GoesTo(u[i].command, mark), mark # left
                PROVE  \E j \in i + 1 .. n + m : u[j].do = mark
    BY <1>2 DEF Marked
  <2>1. CASE i \in 1 .. n
    <3>1. mark = owed \/ \E j \in i + 1 .. n : s[j].do = mark
      BY <1>3a, <2>1 DEF Whole, Listed, Marked
    <3>2. CASE mark = owed
      <4>1. m # 0 /\ t[1].do = mark
        BY <1>1, <3>2
      <4>2. 1 \in 1 .. m /\ n + 1 \in i + 1 .. n + m
        BY <1>1, <2>1, <4>1
      <4>. QED  BY <1>3b, <4>1, <4>2
    <3>3. ASSUME NEW j \in i + 1 .. n, s[j].do = mark
          PROVE  \E k \in i + 1 .. n + m : u[k].do = mark
      <4>1. j \in 1 .. n /\ j \in i + 1 .. n + m
        BY <1>1, <2>1
      <4>. QED  BY <1>3a, <3>3, <4>1
    <3>. QED  BY <3>1, <3>2, <3>3
  <2>2. CASE i - n \in 1 .. m
    <3>1. n + (i - n) = i
      BY <1>1
    <3>2. u[i] = t[i - n]
      BY <1>3b, <2>2, <3>1
    <3>3. PICK j \in (i - n) + 1 .. m : t[j].do = mark
      BY <2>2, <3>2 DEF Whole, Listed, Marked
    <3>4. j \in 1 .. m /\ n + j \in i + 1 .. n + m
      BY <1>1, <2>2
    <3>. QED  BY <1>3b, <3>3, <3>4
  <2>. QED  BY <1>3, <2>1, <2>2
<1>7. u = << >> \/ u[1].do # "read"
  <2>1. CASE n = 0 /\ m = 0
    BY <1>2, <2>1
  <2>2. CASE n = 0 /\ m # 0
    <3>1. 1 \in 1 .. m /\ n + 1 = 1
      BY <1>1, <2>2
    <3>2. u[1] = t[1]
      BY <1>3b, <3>1
    <3>. QED  BY <1>1, <2>2, <3>2 DEF Whole
  <2>3. CASE n # 0
    <3>1. 1 \in 1 .. n
      BY <1>1, <2>3
    <3>2. u[1] = s[1]
      BY <1>3a, <3>1
    <3>. QED  BY <1>1, <2>3, <3>2 DEF Whole
  <2>. QED  BY <2>1, <2>2, <2>3
<1>8. s # << >> => u # << >> /\ u[1] = s[1]
  <2>. SUFFICES ASSUME s # << >> PROVE u # << >> /\ u[1] = s[1]
    OBVIOUS
  <2>1. 1 \in 1 .. n /\ n + m > 0
    BY <1>1
  <2>2. u[1] = s[1]
    BY <1>3a, <2>1
  <2>. QED  BY <1>2, <2>1, <2>2
<1>9. Listed(u, left)
  BY <1>2, <1>4, <1>5, <1>6 DEF Listed
<1>. QED  BY <1>7, <1>8, <1>9 DEF Whole, u

LEMMA Behind ==
    ASSUME NEW s, NEW t, NEW left, Whole(s, left), Whole(t, left)
    PROVE  Whole(s \o t, left)
  BY JoinedWhole

LEMMA LocalWhole ==
    ASSUME NEW do \in Doings, NEW owed, do \notin {"read", "write", "read_packet"}
    PROVE  Whole(Local(do), owed) /\ Local(do) # << >> /\ Local(do)[1].do = do
<1>. DEFINE s == Local(do)
<1>1. [do |-> do, command |-> "none"] \in Steps
  BY DEF Steps, Doings, Commands
<1>2. s \in Seq(Steps) /\ Len(s) = 1 /\ s[1] = [do |-> do, command |-> "none"]
  BY <1>1 DEF Local, Step
<1>3. s[1].do = do /\ s[1].command = "none"
  BY <1>2
<1>. HIDE DEF s
<1>4. PacketFree(s) /\ Paired(s)
  BY <1>2, <1>3 DEF PacketFree, Paired
<1>5. Marked(s, owed)
  BY <1>2, <1>3 DEF Marked, GoesTo
<1>6. s # << >>
  BY <1>2
<1>. QED  BY <1>2, <1>3, <1>4, <1>5, <1>6 DEF Whole, Listed, s

LEMMA AskIs ==
    ASSUME NEW command \in Commands
    PROVE  /\ Ask(command) \in Seq(Steps) /\ Len(Ask(command)) = 2
           /\ Ask(command)[1] = [do |-> "write", command |-> command]
           /\ Ask(command)[2] = [do |-> "read", command |-> command]
<1>. DEFINE w == [do |-> "write", command |-> command]
            r == [do |-> "read", command |-> command]
<1>1. w \in Steps /\ r \in Steps
  BY DEF Steps, Doings, Commands
<1>2. Ask(command) = << w >> \o << r >>
  BY DEF Ask, Step
<1>. HIDE DEF w, r
<1>3. /\ << w >> \in Seq(Steps) /\ << r >> \in Seq(Steps)
      /\ Len(<< w >>) = 1 /\ Len(<< r >>) = 1 /\ << w >>[1] = w /\ << r >>[1] = r
  BY <1>1
<1>. DEFINE a == << w >>
            b == << r >>
<1>. HIDE DEF a, b
<1>4. /\ a \o b \in Seq(Steps) /\ Len(a \o b) = Len(a) + Len(b)
      /\ \A i \in 1 .. Len(a) + Len(b) : (a \o b)[i] = IF i <= Len(a) THEN a[i] ELSE b[i - Len(a)]
  BY <1>3, ConcatProperties DEF a, b
<1>5. Len(a) = 1 /\ Len(b) = 1 /\ a[1] = w /\ b[1] = r
  BY <1>3 DEF a, b
<1>6. a \o b \in Seq(Steps) /\ Len(a \o b) = 2 /\ (a \o b)[1] = w /\ (a \o b)[2] = r
  <2>1. 1 \in 1 .. 1 + 1 /\ 2 \in 1 .. 1 + 1 /\ 1 <= 1 /\ ~(2 <= 1) /\ 2 - 1 = 1 /\ 1 + 1 = 2
    OBVIOUS
  <2>. QED  BY <1>4, <1>5, <2>1
<1>. QED  BY <1>2, <1>6 DEF a, b, w, r

LEMMA AskWhole ==
    ASSUME NEW command \in Commands, NEW owed, command # "transfer",
           \A mark \in Marks : GoesTo(command, mark) => mark = owed
    PROVE  Whole(Ask(command), owed) /\ Ask(command) # << >>
<1>. DEFINE s == Ask(command)
<1>0. /\ s \in Seq(Steps) /\ Len(s) = 2
      /\ s[1] = [do |-> "write", command |-> command] /\ s[2] = [do |-> "read", command |-> command]
  BY AskIs
<1>. HIDE DEF s
<1>1. /\ s \in Seq(Steps) /\ Len(s) = 2
      /\ s[1].do = "write" /\ s[2].do = "read"
      /\ s[1].command = command /\ s[2].command = command
  BY <1>0
<1>2. \A i \in 1 .. Len(s) : i = 1 \/ i = 2
  BY <1>1
<1>3. PacketFree(s)
  BY <1>1, <1>2 DEF PacketFree
<1>4. Paired(s)
  <2>. SUFFICES ASSUME NEW i \in 1 .. Len(s)
                PROVE  /\ s[i].do = "write" => i < Len(s) /\ s[i + 1].do = "read"
                       /\ s[i].do = "read" /\ i > 1 => s[i - 1].do = "write"
    BY DEF Paired
  <2>1. CASE i = 1
    BY <1>1, <2>1
  <2>2. CASE i = 2
    BY <1>1, <2>2
  <2>. QED  BY <1>2, <2>1, <2>2
<1>5. Marked(s, owed)
  BY <1>1, <1>2 DEF Marked
<1>6. s # << >>
  BY <1>1
<1>. QED  BY <1>1, <1>3, <1>4, <1>5, <1>6 DEF Whole, Listed, s

\* Of most commands a refusal ends the call.
LEMMA PlainWhole ==
    ASSUME NEW command \in Commands, NEW owed,
           command \notin {"transfer", "swo_transport", "swo_mode", "swo_baudrate", "swo_mode_off", "swo_transport_none"}
    PROVE  Whole(Ask(command), owed) /\ Ask(command) # << >>
  BY AskWhole DEF GoesTo

-----------------------------------------------------------------------------
(* The calls *)

LEMMA UnflushedWhole == ASSUME NEW c \in Unflushed PROVE Whole(c, "none")
<1>1. Whole(dap_info, "none") /\ Whole(protocol_vendor, "none")
  BY PlainWhole DEF dap_info, protocol_vendor, Commands
<1>2. Whole(connect, "none")
  <2>1. Whole(protocol_connect, "none") /\ Whole(set_swj_clock, "none") /\ Whole(transfer_configure, "none")
    BY PlainWhole DEF protocol_connect, set_swj_clock, transfer_configure, Commands
  <2>2. Whole(protocol_connect \o set_swj_clock, "none")
    BY <2>1, Behind
  <2>. QED  BY <2>1, <2>2, Behind DEF connect
<1>3. Whole(protocol_swj_sequence, "none") /\ Whole(swd_configure, "none") /\ Whole(jtag_configue, "none")
  BY PlainWhole DEF protocol_swj_sequence, swd_configure, jtag_configue, Commands
<1>4. Whole(swj_sequence("SWD"), "none")
  <2>. DEFINE two == protocol_swj_sequence \o protocol_swj_sequence
              three == two \o protocol_swj_sequence
              four == three \o protocol_swj_sequence
  <2>1. Whole(two, "none")
    BY <1>3, Behind
  <2>2. Whole(three, "none")
    BY <1>3, <2>1, Behind
  <2>3. Whole(four, "none")
    BY <1>3, <2>2, Behind
  <2>4. Whole(_jtag_to_swd, "none")
    BY <2>3 DEF _jtag_to_swd
  <2>5. swj_sequence("SWD") = swd_configure \o _jtag_to_swd
    BY DEF swj_sequence
  <2>. QED  BY <1>3, <2>4, <2>5, Behind
<1>5. Whole(swj_sequence("JTAG"), "none")
  <2>1. swj_sequence("JTAG") = jtag_configue \o protocol_swj_sequence
    BY DEF swj_sequence
  <2>. QED  BY <1>3, <2>1, Behind
<1>. QED  BY <1>1, <1>2, <1>4, <1>5 DEF Unflushed

LEMMA FlushingWhole ==
    ASSUME NEW c \in {set_clock, reset, assert_reset, disconnect, close, flush}
    PROVE  Whole(c, "none") /\ c # << >> /\ c[1].do = "flush"
<1>1. Whole(flush, "none") /\ flush # << >> /\ flush[1].do = "flush"
  BY LocalWhole DEF flush, Doings
<1>2. Whole(set_swj_clock, "none") /\ Whole(set_swj_pins, "none") /\ Whole(protocol_disconnect, "none")
  BY PlainWhole DEF set_swj_clock, set_swj_pins, protocol_disconnect, Commands
<1>3. Whole(Local("close"), "none")
  BY LocalWhole DEF Doings
<1>4. ASSUME NEW s, NEW t, Whole(s, "none"), s # << >>, s[1].do = "flush", Whole(t, "none")
      PROVE  Whole(s \o t, "none") /\ s \o t # << >> /\ (s \o t)[1].do = "flush"
  BY <1>4, JoinedWhole
<1>5. /\ Whole(flush \o set_swj_pins, "none") /\ flush \o set_swj_pins # << >>
      /\ (flush \o set_swj_pins)[1].do = "flush"
  BY <1>1, <1>2, <1>4
<1>6. CASE c = set_clock
  BY <1>1, <1>2, <1>4, <1>6 DEF set_clock
<1>7. CASE c = reset
  BY <1>2, <1>4, <1>5, <1>7 DEF reset
<1>8. CASE c = assert_reset
  BY <1>5, <1>8 DEF assert_reset
<1>9. CASE c = disconnect
  BY <1>1, <1>2, <1>4, <1>9 DEF disconnect
<1>10. CASE c = close
  BY <1>1, <1>3, <1>4, <1>10 DEF close
<1>11. CASE c = flush
  BY <1>1, <1>11
<1>. QED  BY <1>6, <1>7, <1>8, <1>9, <1>10, <1>11

\* The commands of SWO come with the mark that their refusal goes on behind.
LEMMA DisableWhole == Whole(_swo_disable, "none")
<1>1. Whole(Ask("swo_mode_off"), "swo_disabled") /\ Whole(Ask("swo_transport_none"), "swo_disabled")
  BY AskWhole DEF Marks, GoesTo, Commands
<1>2. /\ Whole(Local("swo_disabled"), "none") /\ Local("swo_disabled") # << >>
      /\ Local("swo_disabled")[1].do = "swo_disabled"
  BY LocalWhole DEF Doings
<1>3. Whole(Ask("swo_mode_off") \o Ask("swo_transport_none"), "swo_disabled")
  BY <1>1, Behind
<1>4. Whole((Ask("swo_mode_off") \o Ask("swo_transport_none")) \o Local("swo_disabled"), "none")
  BY <1>2, <1>3, JoinedWhole
<1>. QED  BY <1>4 DEF _swo_disable, swo_mode, swo_transport

LEMMA ConfigureWhole == Whole(swo_configure(TRUE), "none")
<1>1. /\ Whole(Ask("swo_transport"), "swo_configured") /\ Whole(Ask("swo_mode"), "swo_configured")
      /\ Whole(Ask("swo_baudrate"), "swo_configured")
  BY AskWhole DEF Marks, GoesTo, Commands
<1>2. /\ Whole(Local("swo_configured"), "none") /\ Local("swo_configured") # << >>
      /\ Local("swo_configured")[1].do = "swo_configured"
  BY LocalWhole DEF Doings
<1>3. Whole(Ask("swo_transport") \o Ask("swo_mode"), "swo_configured")
  BY <1>1, Behind
<1>4. Whole((Ask("swo_transport") \o Ask("swo_mode")) \o Ask("swo_baudrate"), "swo_configured")
  BY <1>1, <1>3, Behind
<1>5. Whole(((Ask("swo_transport") \o Ask("swo_mode")) \o Ask("swo_baudrate")) \o Local("swo_configured"), "none")
  BY <1>2, <1>4, JoinedWhole
<1>6. swo_configure(TRUE) = ((Ask("swo_transport") \o Ask("swo_mode")) \o Ask("swo_baudrate")) \o Local("swo_configured")
  BY DEF swo_configure, swo_mode, swo_transport, swo_baudrate
<1>. QED  BY <1>5, <1>6

LEMMA SwoWhole == ASSUME NEW c \in SwoCalls PROVE Whole(c, "none")
<1>1. /\ Whole(Ask("swo_start"), "none") /\ Whole(Ask("swo_stop"), "none")
      /\ Whole(swo_status, "none") /\ Whole(swo_data, "none")
  BY PlainWhole DEF swo_status, swo_data, Commands
<1>2. /\ Whole(Local("swo_running"), "none") /\ Whole(Local("swo_configured"), "none")
      /\ Whole(Local("start_swo"), "none") /\ Whole(Local("stop_swo"), "none")
      /\ Whole(Local("read_swo"), "none")
  BY LocalWhole DEF Doings
<1>3. Whole(Endpoint("start_swo"), "none") /\ Whole(Endpoint("stop_swo"), "none")
  BY <1>2, EmptyListed DEF Endpoint
<1>4. Whole(swo_control(TRUE), "none")
  <2>1. Whole(Ask("swo_start") \o Endpoint("start_swo"), "none")
    BY <1>1, <1>3, Behind
  <2>2. swo_control(TRUE) = (Ask("swo_start") \o Endpoint("start_swo")) \o Local("swo_running")
    BY DEF swo_control, protocol_swo_control
  <2>. QED  BY <1>2, <2>1, <2>2, Behind
<1>5. Whole(swo_control(FALSE), "none")
  <2>1. Whole(Ask("swo_stop") \o Endpoint("stop_swo"), "none")
    BY <1>1, <1>3, Behind
  <2>2. swo_control(FALSE) = (Ask("swo_stop") \o Endpoint("stop_swo")) \o Local("swo_configured")
    BY DEF swo_control, protocol_swo_control
  <2>. QED  BY <1>2, <2>1, <2>2, Behind
<1>6. Whole(swo_start, "none")
  BY <1>4, ConfigureWhole, Behind DEF swo_start
<1>7. Whole(swo_stop, "none")
  BY DisableWhole DEF swo_stop, swo_configure
<1>8. Whole(swo_read, "none")
  BY <1>1, <1>2 DEF swo_read
<1>. QED  BY <1>1, <1>4, <1>5, <1>6, <1>7, <1>8 DEF SwoCalls

LEMMA OpenWhole == Whole(open, "none")
<1>. DEFINE n == 2 * Infos
            s == [i \in 1 .. n |-> dap_info[2 - (i % 2)]]
<1>1. /\ dap_info[1] = [do |-> "write", command |-> "info"]
      /\ dap_info[2] = [do |-> "read", command |-> "info"]
  BY AskIs DEF dap_info, Commands
<1>2. dap_info[1] \in Steps /\ dap_info[2] \in Steps
  BY <1>1 DEF Steps, Doings, Commands
<1>3. n \in Nat /\ n % 2 = 0
  BY CommandAssumption
<1>. HIDE DEF n
<1>4. \A i \in 1 .. n : i % 2 = 0 \/ i % 2 = 1
  OBVIOUS
<1>5. /\ s \in Seq(Steps) /\ Len(s) = n
      /\ \A i \in 1 .. n : /\ i % 2 = 1 => s[i] = dap_info[1]
                           /\ i % 2 = 0 => s[i] = dap_info[2]
  <2>1. \A i \in 1 .. n : dap_info[2 - (i % 2)] \in Steps
    BY <1>2, <1>4
  <2>. QED  BY <1>3, <1>4, <2>1
<1>. HIDE DEF s
<1>6. \A i \in 1 .. n : /\ s[i].command = "info"
                        /\ (s[i].do = "write" /\ i % 2 = 1) \/ (s[i].do = "read" /\ i % 2 = 0)
  <2>. SUFFICES ASSUME NEW i \in 1 .. n
                PROVE  /\ s[i].command = "info"
                       /\ (s[i].do = "write" /\ i % 2 = 1) \/ (s[i].do = "read" /\ i % 2 = 0)
    OBVIOUS
  <2>1. CASE i % 2 = 1
    <3>1. s[i] = [do |-> "write", command |-> "info"]
      BY <1>1, <1>5, <2>1
    <3>2. s[i].do = "write" /\ s[i].command = "info"
      BY <3>1
    <3>. QED  BY <2>1, <3>2
  <2>2. CASE i % 2 = 0
    <3>1. s[i] = [do |-> "read", command |-> "info"]
      BY <1>1, <1>5, <2>2
    <3>2. s[i].do = "read" /\ s[i].command = "info"
      BY <3>1
    <3>. QED  BY <2>2, <3>2
  <2>. QED  BY <1>4, <2>1, <2>2
<1>7. PacketFree(s) /\ Marked(s, "none")
  BY <1>5, <1>6 DEF PacketFree, Marked, GoesTo
<1>8. Paired(s)
  <2>. SUFFICES ASSUME NEW i \in 1 .. n
                PROVE  /\ s[i].do = "write" => i < n /\ s[i + 1].do = "read"
                       /\ s[i].do = "read" /\ i > 1 => s[i - 1].do = "write"
    BY <1>5 DEF Paired
  <2>1. ASSUME s[i].do = "write" PROVE i < n /\ s[i + 1].do = "read"
    <3>1. i % 2 = 1
      BY <1>6, <2>1
    <3>2. i < n /\ i + 1 \in 1 .. n /\ (i + 1) % 2 = 0
      BY <1>3, <3>1
    <3>. QED  BY <1>6, <3>2
  <2>2. ASSUME s[i].do = "read", i > 1 PROVE s[i - 1].do = "write"
    <3>1. i % 2 = 0
      BY <1>6, <2>2
    <3>2. i - 1 \in 1 .. n /\ (i - 1) % 2 = 1
      BY <1>3, <2>2, <3>1
    <3>. QED  BY <1>6, <3>2
  <2>. QED  BY <2>1, <2>2
<1>9. s = << >> \/ s[1].do # "read"
  <2>. SUFFICES ASSUME s # << >> PROVE s[1].do # "read"
    OBVIOUS
  <2>1. 1 \in 1 .. n /\ 1 % 2 = 1
    BY <1>3, <1>5
  <2>. QED  BY <1>6, <2>1
<1>10. Whole(s, "none")
  BY <1>5, <1>7, <1>8, <1>9 DEF Whole, Listed
<1>11. Whole(Local("open"), "none") /\ Whole(Local("swo_disabled"), "none")
  BY LocalWhole DEF Doings
<1>12. Whole(Local("open") \o s, "none")
  BY <1>10, <1>11, Behind
<1>13. open = (Local("open") \o s) \o Local("swo_disabled")
  BY DEF open, s, n
<1>. QED  BY <1>11, <1>12, <1>13, Behind

-----------------------------------------------------------------------------
(* The packets whose answers are to come *)

Line == Answers \o epOut

\* The last n packets that were written, in their order.
Waits(line, n, last) == Len(line) = n /\ \A i \in 1 .. n : line[i] = last - n + i

LEMMA LineIs ==
    ASSUME WireInv
    PROVE  /\ Answers \in Seq(Numbers) /\ epOut \in Seq(Numbers)
           /\ Line \in Seq(Numbers) /\ Len(Line) = Len(Answers) + Len(epOut) /\ Len(Line) \in Nat
<1>1. Received \in Seq(Numbers) /\ epIn \in Seq(Numbers) /\ epOut \in Seq(Numbers)
  BY DEF WireInv, WireTypes, NoneLast
<1>2. Answers \in Seq(Numbers)
  BY <1>1, AnswersAre, ConcatProperties
<1>. QED  BY <1>1, <1>2, ConcatProperties DEF Line

LEMMA LineKept ==
    ASSUME WireInv, RxTask \/ ProbeAnswers \/ UNCHANGED <<rxPc, rcvData, epIn, epOut>>
    PROVE  Line' = Line
<1>1. CASE RxTask \/ UNCHANGED <<rxPc, rcvData, epIn, epOut>>
  BY <1>1, ThreadWired DEF Line, Answers
<1>2. CASE ProbeAnswers
  <2>1. epOut # << >> /\ Answers' = Append(Answers, Head(epOut)) /\ epOut' = Tail(epOut)
    BY <1>2, ProbeWired DEF W!Execute
  <2>. QED  BY <2>1, LineIs, Handed DEF Line
<1>. QED  BY <1>1, <1>2

LEMMA LineWritten == ASSUME WireInv, WriteOut PROVE Line' = Append(Line, written + 1)
<1>. DEFINE w == written + 1
<1>1. epOut' = Append(epOut, w) /\ Answers' = Answers
  BY DEF WriteOut, thread, Answers
<1>2. w \in Numbers
  BY DEF WireInv, WireTypes, Numbers
<1>. HIDE DEF w
<1>3. /\ Append(epOut, w) = epOut \o << w >> /\ << w >> \in Seq(Numbers)
      /\ Append(Line, w) = Line \o << w >>
  BY <1>2, LineIs, AppendIsConcat
<1>4. \A x, y, z \in Seq(Numbers) : (x \o y) \o z = x \o (y \o z)
  BY ConcatAssociative
<1>. QED  BY <1>1, <1>3, <1>4, LineIs DEF Line, w

LEMMA LineRead ==
    ASSUME WireInv, ReadReturns
    PROVE  Line # << >> /\ got' = Head(Line) /\ Line' = Tail(Line)
<1>1. Answers # << >> /\ got' = Head(Answers) /\ Answers' = Tail(Answers) /\ epOut' = epOut
  BY ReturnWired DEF W!Read
<1>. DEFINE a == Answers
            e == epOut
<1>2. a \in Seq(Numbers) /\ e \in Seq(Numbers) /\ a # << >>
  BY <1>1, LineIs
<1>. HIDE DEF a, e
<1>3. a \o e # << >> /\ Head(a \o e) = Head(a) /\ Tail(a \o e) = Tail(a) \o e
  BY <1>2
<1>. QED  BY <1>1, <1>3 DEF Line, a, e

LEMMA LineEmptied == ASSUME WireInv, Line = << >>, Open \/ Joined PROVE Line' = << >>
<1>1. Answers = << >> /\ epOut = << >>
  BY LineIs
<1>2. << >> \o << >> = << >>
  OBVIOUS
<1>3. CASE Open
  <2>1. rcvData = << >> /\ rcvData' = << >> /\ epIn' = << >> /\ epOut' = << >> /\ rxPc' = "loop"
    BY <1>1, <1>3 DEF Open, WireInv, QuietClosed
  <2>. QED  BY <1>2, <2>1 DEF Line, Answers
<1>4. CASE Joined
  <2>1. rcvData' = << >> /\ rxPc' = "none" /\ epIn' = epIn /\ epOut' = << >>
    BY <1>1, <1>4 DEF Joined, usb
  <2>2. epIn = << >>
    <3>1. Received \in Seq(Numbers) /\ epIn \in Seq(Numbers) /\ Received \o epIn = << >>
      BY <1>1, AnswersAre DEF WireInv, WireTypes, NoneLast
    <3>2. Len(Received \o epIn) = Len(Received) + Len(epIn) /\ Len(Received) \in Nat /\ Len(epIn) \in Nat
      BY <3>1, ConcatProperties
    <3>3. Len(epIn) = 0
      BY <3>1, <3>2
    <3>. QED  BY <3>1, <3>3
  <2>. QED  BY <1>2, <2>1, <2>2 DEF Line, Answers
<1>. QED  BY <1>3, <1>4

\* A packet more at the end, and one less at the start, with its number.
LEMMA OneMore ==
    ASSUME NEW n \in Nat, WireInv, WriteOut, Waits(Line, n, written)
    PROVE  Waits(Line', n + 1, written') /\ written' = written + 1
<1>1. /\ Line' = Append(Line, written + 1) /\ written' = written + 1 /\ written \in Nat
      /\ Line \in Seq(Numbers) /\ Len(Line) = n
  BY LineWritten, LineIs DEF WriteOut, Waits, WireInv, WireTypes
<1>2. written + 1 \in Numbers
  BY <1>1 DEF Numbers
<1>3. /\ Len(Line') = n + 1 /\ Line'[n + 1] = written + 1
      /\ \A i \in 1 .. n : Line'[i] = Line[i]
  BY <1>1, <1>2, AppendProperties
<1>4. ASSUME NEW i \in 1 .. n + 1 PROVE Line'[i] = written + 1 - (n + 1) + i
  <2>1. CASE i = n + 1
    BY <1>1, <1>3, <2>1
  <2>2. CASE i \in 1 .. n
    <3>1. Line'[i] = written - n + i
      BY <1>3, <2>2 DEF Waits
    <3>. QED  BY <1>1, <2>2, <3>1
  <2>. QED  BY <2>1, <2>2
<1>. QED  BY <1>1, <1>3, <1>4 DEF Waits

LEMMA OneLess ==
    ASSUME NEW n \in Nat, WireInv, ReadReturns, Waits(Line, n, written)
    PROVE  n > 0 /\ got' = written - n + 1 /\ Waits(Line', n - 1, written) /\ written' = written
<1>1. /\ Line # << >> /\ got' = Head(Line) /\ Line' = Tail(Line)
      /\ Line \in Seq(Numbers) /\ Len(Line) = n /\ written \in Nat /\ written' = written
  BY LineRead, LineIs DEF ReadReturns, Waits, WireInv, WireTypes
<1>2. n > 0 /\ got' = Line[1] /\ Len(Line') = n - 1 /\ \A i \in 1 .. n - 1 : Line'[i] = Line[i + 1]
  BY <1>1, HeadTailProperties
<1>3. 1 \in 1 .. n
  BY <1>2
<1>4. got' = written - n + 1
  BY <1>2, <1>3 DEF Waits
<1>5. ASSUME NEW i \in 1 .. n - 1 PROVE Line'[i] = written - (n - 1) + i
  <2>1. i + 1 \in 1 .. n
    OBVIOUS
  <2>2. Line[i + 1] = written - n + (i + 1)
    BY <2>1 DEF Waits
  <2>. QED  BY <1>1, <1>2, <2>2
<1>. QED  BY <1>1, <1>2, <1>4, <1>5 DEF Waits

-----------------------------------------------------------------------------
(* Whose turn it is *)

\* The engine sends a packet: the one call whose write is read by a later one.
Sends ==
    \/ todo = Step("write", "transfer")
    \/ todo = Local("read_packet") \o Step("write", "transfer") /\ backlog > 0

CallerAt ==
    /\ callerPc \in {"idle", "writeOut", "reading", "joining", "joining_SWO", "joining_SWO_closing"}
    /\ callerPc = "writeOut" => At("write") /\ ~closed
    /\ callerPc = "reading" => At("read") \/ ReadsPacket
    /\ callerPc \in {"joining", "joining_SWO_closing"} => At("close")
    /\ callerPc = "joining_SWO" => At("stop_swo")

StepsInv ==
    /\ backlog \in Nat /\ (Sends \/ Listed(todo, "none"))
    /\ tracing => backlog = 0 /\ ~Sends
    /\ CallerAt

\* What is in flight: the packets of the engine, and the command that is to be read.
Pending == backlog + IF At("read") THEN 1 ELSE 0

(* While no call went past packets in flight and nothing failed: only the  *)
(* engine and its flush see a backlog, and the answers to come are those   *)
(* of the last packets written.                                            *)
TurnInv ==
    ~strayed =>
        /\ backlog > 0 => todo = << >> \/ At("flush") \/ Sends
        /\ closed => backlog = 0
        /\ Waits(Line, Pending, written)

AnswerInv == StepsInv /\ TurnInv

LEMMA SendSteps ==
    LET write == Step("write", "transfer")
        both == Local("read_packet") \o write
    IN  /\ write # << >> /\ Head(write).do = "write" /\ Head(write).command = "transfer" /\ Tail(write) = << >>
        /\ both # << >> /\ Head(both).do = "read_packet" /\ Tail(both) = write
<1>. DEFINE w == [do |-> "write", command |-> "transfer"]
            r == [do |-> "read_packet", command |-> "none"]
<1>1. w \in Steps /\ r \in Steps
  BY DEF Steps, Doings, Commands
<1>2. w.do = "write" /\ w.command = "transfer" /\ r.do = "read_packet"
  OBVIOUS
<1>3. Step("write", "transfer") = << w >> /\ Local("read_packet") = << r >>
  BY DEF Step, Local
<1>. HIDE DEF w, r
<1>4. << w >> # << >> /\ Head(<< w >>) = w /\ Tail(<< w >>) = << >>
  BY <1>1
<1>5. << r >> \o << w >> # << >> /\ Head(<< r >> \o << w >>) = r /\ Tail(<< r >> \o << w >>) = << w >>
  <2>1. << r >> \in Seq(Steps) /\ << w >> \in Seq(Steps) /\ << r >> # << >>
    BY <1>1
  <2>2. Head(<< r >>) = r /\ Tail(<< r >>) = << >> /\ << >> \o << w >> = << w >>
    BY <1>1, <2>1
  <2>. DEFINE a == << r >>
              b == << w >>
  <2>. HIDE DEF a, b
  <2>3. a \in Seq(Steps) /\ b \in Seq(Steps) /\ a # << >>
    BY <2>1 DEF a, b
  <2>4. a \o b # << >> /\ Head(a \o b) = Head(a) /\ Tail(a \o b) = Tail(a) \o b
    BY <2>3
  <2>. QED  BY <2>2, <2>4 DEF a, b
<1>. QED  BY <1>2, <1>3, <1>4, <1>5

LEMMA SendsIs ==
    ASSUME Sends
    PROVE  /\ todo # << >>
           /\ \/ Head(todo).do = "write" /\ Command = "transfer" /\ Tail(todo) = << >>
              \/ Head(todo).do = "read_packet" /\ backlog > 0 /\ Tail(todo) = Step("write", "transfer")
  BY SendSteps DEF Sends, Command

LEMMA PacketFreeSends ==
    ASSUME NEW t, PacketFree(t)
    PROVE  t # Step("write", "transfer") /\ t # Local("read_packet") \o Step("write", "transfer")
<1>. DEFINE w == [do |-> "write", command |-> "transfer"]
            r == [do |-> "read_packet", command |-> "none"]
<1>1. w \in Steps /\ r \in Steps
  BY DEF Steps, Doings, Commands
<1>2. w.command = "transfer" /\ r.do = "read_packet"
  OBVIOUS
<1>3. Step("write", "transfer") = << w >> /\ Local("read_packet") = << r >>
  BY DEF Step, Local
<1>. HIDE DEF w, r
<1>4. /\ << w >> \in Seq(Steps) /\ << r >> \in Seq(Steps)
      /\ Len(<< w >>) = 1 /\ Len(<< r >>) = 1 /\ << w >>[1] = w /\ << r >>[1] = r
  BY <1>1
<1>. DEFINE a == << r >>
            b == << w >>
<1>. HIDE DEF a, b
<1>5. Len(a \o b) = Len(a) + Len(b) /\ (a \o b)[1] = a[1]
  <2>1. a \in Seq(Steps) /\ b \in Seq(Steps) /\ Len(a) = 1 /\ Len(b) = 1
    BY <1>4 DEF a, b
  <2>2. /\ Len(a \o b) = Len(a) + Len(b)
        /\ \A i \in 1 .. Len(a) + Len(b) : (a \o b)[i] = IF i <= Len(a) THEN a[i] ELSE b[i - Len(a)]
    BY <2>1, ConcatProperties
  <2>3. 1 \in 1 .. Len(a) + Len(b) /\ 1 <= Len(a)
    BY <2>1
  <2>. QED  BY <2>2, <2>3
<1>6. 1 \in 1 .. Len(b) /\ b[1].command = "transfer" /\ 1 \in 1 .. Len(a \o b) /\ (a \o b)[1].do = "read_packet"
  BY <1>2, <1>4, <1>5 DEF a, b
<1>7. t # b
  BY <1>6 DEF PacketFree
<1>8. t # a \o b
  BY <1>6 DEF PacketFree
<1>. QED  BY <1>3, <1>7, <1>8 DEF a, b

LEMMA ListedIs ==
    ASSUME Listed(todo, "none"), todo # << >>
    PROVE  /\ Head(todo) = todo[1] /\ 1 \in 1 .. Len(todo) /\ Tail(todo) = SubSeq(todo, 1 + 1, Len(todo))
           /\ ~At("read_packet") /\ Command # "transfer"
<1>1. todo \in Seq(Steps) /\ Len(todo) \in Nat \ {0}
  BY DEF Listed
<1>2. Head(todo) = todo[1] /\ 1 \in 1 .. Len(todo) /\ Tail(todo) = SubSeq(todo, 1 + 1, Len(todo))
  BY <1>1
<1>3. ~At("read_packet") /\ Command # "transfer"
  BY <1>2 DEF Listed, PacketFree, At, Command
<1>. QED  BY <1>2, <1>3

\* A step that is over: behind a command its answer, behind any other step none.
LEMMA ListGoesOn ==
    ASSUME Listed(todo, "none"), todo # << >>, Done
    PROVE  Listed(todo', "none") /\ (At("write") <=> At("read")')
<1>. DEFINE t == SubSeq(todo, 1 + 1, Len(todo))
<1>1. todo' = t /\ Head(todo) = todo[1] /\ 1 \in 1 .. Len(todo)
  BY ListedIs DEF Done
<1>2. /\ Listed(t, "none") /\ (todo[1].do = "write" => t # << >> /\ t[1].do = "read")
      /\ todo[1].do # "write" => Whole(t, "none")
  BY <1>1, RestListed
<1>. HIDE DEF t
<1>3. t # << >> => Head(t) = t[1]
  BY <1>2 DEF Listed
<1>4. Listed(todo', "none")
  BY <1>1, <1>2
<1>5. At("write") <=> todo[1].do = "write"
  BY <1>1 DEF At
<1>6. At("read")' <=> t # << >> /\ t[1].do = "read"
  BY <1>1, <1>3 DEF At
<1>. QED  BY <1>2, <1>4, <1>5, <1>6 DEF Whole

LEMMA Unmoved ==
    ASSUME AnswerInv, UNCHANGED <<todo, backlog, tracing, closed, written>>, strayed => strayed',
           Line' = Line, CallerAt'
    PROVE  AnswerInv'
<1>1. (Sends' <=> Sends) /\ (At("flush")' <=> At("flush")) /\ Pending' = Pending
  BY DEF Sends, At, Pending
<1>. QED  BY <1>1 DEF AnswerInv, StepsInv, TurnInv, Listed, PacketFree, Paired, Marked, Waits

LEMMA CallEnds ==
    ASSUME AnswerInv, todo' = << >>, callerPc' = "idle", tracing' = tracing, strayed',
           backlog' \in {0, backlog}
    PROVE  AnswerInv'
<1>1. Listed(todo', "none")
  BY EmptyListed DEF Whole
<1>2. ~Sends' /\ CallerAt'
  BY <1>1, PacketFreeSends DEF Listed, Sends, CallerAt
<1>. QED  BY <1>1, <1>2 DEF AnswerInv, StepsInv, TurnInv

\* A step other than a packet of the engine comes with all of these read.
LEMMA NothingInFlight ==
    ASSUME AnswerInv, ~strayed, todo # << >>, ~Sends, At("flush") => backlog = 0
    PROVE  backlog = 0 /\ Waits(Line, IF At("read") THEN 1 ELSE 0, written)
<1>1. backlog = 0
  BY DEF AnswerInv, StepsInv, TurnInv
<1>2. Pending = IF At("read") THEN 1 ELSE 0
  BY <1>1 DEF Pending
<1>. QED  BY <1>1, <1>2 DEF AnswerInv, TurnInv

LEMMA StepOver ==
    ASSUME AnswerInv, todo # << >>, ~Sends, ~At("write"), At("flush") => backlog = 0,
           Done, callerPc' = "idle", UNCHANGED <<backlog, tracing, strayed>>,
           ~strayed => Waits(Line', 0, written')
    PROVE  AnswerInv'
<1>1. Listed(todo', "none") /\ ~At("read")'
  BY ListGoesOn DEF AnswerInv, StepsInv
<1>2. ~Sends'
  BY <1>1, PacketFreeSends DEF Listed, Sends
<1>3. StepsInv'
  BY <1>1, <1>2 DEF AnswerInv, StepsInv, CallerAt
<1>4. ASSUME ~strayed PROVE backlog' = 0 /\ Pending' = 0
  BY <1>1, <1>4, NothingInFlight DEF Pending
<1>. QED  BY <1>3, <1>4 DEF AnswerInv, TurnInv

-----------------------------------------------------------------------------
(* The steps *)

LEMMA BeginAnswers == ASSUME WireInv, AnswerInv, Begin PROVE AnswerInv'
<1>. DEFINE c == todo'
<1>1. /\ todo = << >> /\ c \in Calls /\ closed = (c = open)
      /\ strayed' = (strayed \/ (backlog > 0 /\ c \in Unflushed))
      /\ UNCHANGED <<backlog, tracing, closed, written, callerPc, rxPc, rcvData, epIn, epOut>>
  BY DEF Begin, usbVars, caller, thread, usb, counts
<1>1a. Line' = Line
  BY <1>1, LineKept
<1>2. callerPc = "idle" /\ Pending = backlog /\ backlog \in Nat
  BY <1>1 DEF AnswerInv, StepsInv, CallerAt, At, ReadsPacket, Pending
<1>3. CASE c = SendPacket /\ ~tracing
  <2>1. Sends'
    <3>1. backlog = MaxUnread => backlog > 0
      BY CommandAssumption
    <3>2. << >> \o Step("write", "transfer") = Step("write", "transfer")
      <4>1. [do |-> "write", command |-> "transfer"] \in Steps
        BY DEF Steps, Doings, Commands
      <4>. QED  BY <4>1 DEF Step
    <3>. QED  BY <1>1, <1>3, <3>1, <3>2 DEF SendPacket, Sends
  <2>2. ~At("read")'
    BY <2>1, SendSteps DEF Sends, At
  <2>3. StepsInv'
    BY <1>1, <1>2, <1>3, <2>1 DEF AnswerInv, StepsInv, CallerAt
  <2>4. Pending' = Pending
    BY <1>1, <1>2, <2>2 DEF Pending
  <2>5. TurnInv'
    BY <1>1, <1>1a, <2>1, <2>4 DEF AnswerInv, TurnInv, Waits
  <2>. QED  BY <2>3, <2>5 DEF AnswerInv
<1>4. CASE ~(c = SendPacket /\ ~tracing)
  <2>1. /\ Whole(c, "none")
        /\ \/ c = open \/ c \in Unflushed \/ tracing
           \/ c # << >> /\ c[1].do = "flush"
    BY <1>1, <1>4, OpenWhole, UnflushedWhole, FlushingWhole, SwoWhole DEF Calls, ConnectionCalls
  <2>2. ~Sends' /\ Listed(c, "none")
    BY <2>1, PacketFreeSends DEF Sends, Whole, Listed
  <2>. HIDE DEF c
  <2>3. c # << >> => Head(c) = c[1]
    BY <2>2 DEF Listed
  <2>4. ~At("read")' /\ (c # << >> /\ c[1].do = "flush" => At("flush")')
    BY <2>1, <2>3 DEF At, Whole, c
  <2>5. StepsInv'
    BY <1>1, <1>2, <2>2 DEF AnswerInv, StepsInv, CallerAt, c
  <2>6. ASSUME ~strayed' PROVE backlog > 0 => At("flush")'
    <3>1. ~strayed /\ (backlog > 0 => c \notin Unflushed)
      BY <1>1, <2>6 DEF c
    <3>2. c = open => closed
      BY <1>1 DEF c
    <3>3. closed \/ tracing => backlog = 0
      BY <3>1 DEF AnswerInv, StepsInv, TurnInv
    <3>. QED  BY <2>1, <2>4, <3>1, <3>2, <3>3
  <2>7. Pending' = Pending
    BY <1>1, <1>2, <2>4 DEF Pending
  <2>8. TurnInv'
    BY <1>1, <1>1a, <2>6, <2>7 DEF AnswerInv, TurnInv, Waits
  <2>. QED  BY <2>5, <2>8 DEF AnswerInv
<1>. QED  BY <1>3, <1>4

\* A write and a read that begin, close and the joins that go on: the caller waits.
LEMMA CallWaits ==
    ASSUME WireInv, AnswerInv,
           \/ WriteCommand \/ ReadAnswer \/ (CloseInterface /\ callerPc' # "joining")
           \/ (StopSwoThread /\ swoThread # 0)
    PROVE  AnswerInv'
<1>1. /\ UNCHANGED linkVars /\ UNCHANGED <<closed, written, rxPc, rcvData, epIn, epOut>>
      /\ \/ callerPc' = "writeOut" /\ At("write") /\ ~closed
         \/ callerPc' = "reading" /\ (At("read") \/ ReadsPacket)
         \/ callerPc' = "joining_SWO_closing" /\ At("close")
         \/ callerPc' = "joining_SWO" /\ At("stop_swo")
  BY DEF WriteCommand, Write, ReadAnswer, Read, CloseInterface, Close, StopRx, StopSwoThread, StopSwo,
         thread, usb, counts
<1>2. Line' = Line
  BY <1>1, LineKept
<1>3. CallerAt'
  BY <1>1 DEF CallerAt, linkVars, At, ReadsPacket
<1>. QED  BY <1>1, <1>2, <1>3, Unmoved DEF linkVars

\* A packet of the engine joins its backlog; a command is read next.
LEMMA WrittenAnswers == ASSUME WireInv, AnswerInv, Written PROVE AnswerInv'
<1>1. /\ At("write") /\ todo # << >> /\ Head(todo).do = "write" /\ ~closed /\ WriteOut /\ Done
      /\ callerPc' = "idle" /\ closed' = closed /\ UNCHANGED <<tracing, strayed>> /\ backlog \in Nat
      /\ backlog' = IF Command = "transfer" THEN backlog + 1 ELSE backlog
  BY DEF Written, WriteOut, AnswerInv, StepsInv, CallerAt, At
<1>2. CASE Sends
  <2>1. todo' = << >> /\ backlog' = backlog + 1 /\ ~tracing
    BY <1>1, <1>2, SendsIs DEF Done, AnswerInv, StepsInv
  <2>2. Pending = backlog /\ Pending' = backlog + 1
    BY <1>1, <2>1 DEF Pending, At
  <2>3. StepsInv'
    BY <1>1, <2>1, EmptyListed DEF StepsInv, CallerAt, Whole
  <2>4. TurnInv'
    BY <1>1, <2>1, <2>2, OneMore DEF AnswerInv, TurnInv
  <2>. QED  BY <2>3, <2>4 DEF AnswerInv
<1>3. CASE ~Sends
  <2>1. Listed(todo, "none") /\ Command # "transfer"
    BY <1>1, <1>3, ListedIs DEF AnswerInv, StepsInv
  <2>2. Listed(todo', "none") /\ At("read")' /\ backlog' = backlog
    BY <1>1, <2>1, ListGoesOn
  <2>3. Pending = backlog /\ Pending' = backlog + 1
    BY <1>1, <2>2 DEF Pending, At
  <2>4. ~Sends'
    BY <2>2, PacketFreeSends DEF Listed, Sends
  <2>5. StepsInv'
    BY <1>1, <2>2, <2>4 DEF AnswerInv, StepsInv, CallerAt
  <2>6. ~strayed => backlog = 0
    BY <1>1, <1>3, NothingInFlight DEF At
  <2>7. TurnInv'
    BY <1>1, <2>2, <2>3, <2>6, OneMore DEF AnswerInv, TurnInv
  <2>. QED  BY <2>5, <2>7 DEF AnswerInv
<1>. QED  BY <1>2, <1>3

\* An exception ends the call.
LEMMA RaisesAnswers ==
    ASSUME WireInv, AnswerInv, WriteRaises \/ Mistaken \/ ReadFails
    PROVE  AnswerInv'
<1>1. todo' = << >> /\ callerPc' = "idle" /\ tracing' = tracing /\ strayed' /\ backlog' \in {0, backlog}
  BY DEF WriteRaises, Mistaken, ReadFails, WriteFails, ReadReturns, ReadRaises, Raises
<1>. QED  BY <1>1, CallEnds

LEMMA AnsweredAnswers == ASSUME WireInv, AnswerInv, Answered PROVE AnswerInv'
<1>1. /\ ReadReturns /\ callerPc = "reading" /\ callerPc' = "idle" /\ closed' = closed
      /\ UNCHANGED <<tracing, strayed>> /\ backlog \in Nat
      /\ IF At("flush") THEN UNCHANGED todo ELSE Done
      /\ backlog' = IF At("read") THEN backlog ELSE backlog - 1
      /\ At("read") \/ ReadsPacket
  BY DEF Answered, ReadReturns, AnswerInv, StepsInv, CallerAt
<1>2. CASE At("read")
  <2>1. todo # << >> /\ ~Sends /\ ~At("write") /\ ~At("flush") /\ Done /\ backlog' = backlog
    BY <1>1, <1>2, SendsIs DEF At
  <2>2. ASSUME ~strayed PROVE Waits(Line', 0, written')
    <3>1. Waits(Line, 1, written)
      BY <1>2, <2>1, <2>2, NothingInFlight
    <3>2. Waits(Line', 1 - 1, written) /\ written' = written
      BY <1>1, <3>1, OneLess
    <3>. QED  BY <3>2
  <2>. QED  BY <1>1, <2>1, <2>2, StepOver
<1>3. CASE ~At("read")
  <2>1. backlog > 0 /\ (At("flush") \/ At("read_packet")) /\ ~tracing
    <3>1. At("read_packet") => Sends
      BY ListedIs DEF AnswerInv, StepsInv, At
    <3>2. At("read_packet") => backlog > 0
      BY <3>1, SendsIs DEF At
    <3>3. backlog > 0 /\ (At("flush") \/ At("read_packet"))
      BY <1>1, <1>3, <3>2 DEF ReadsPacket
    <3>. QED  BY <1>1, <3>3 DEF AnswerInv, StepsInv
  <2>2. Pending = backlog /\ backlog' = backlog - 1 /\ backlog' \in Nat
    BY <1>1, <1>3, <2>1 DEF Pending
  <2>3. CASE At("flush")
    <3>1. todo' = todo /\ At("flush")' /\ ~At("read")' /\ ~Sends /\ todo # << >>
      BY <1>1, <1>3, <2>3, SendsIs DEF At
    <3>2. Listed(todo', "none") /\ ~Sends'
      BY <3>1, PacketFreeSends DEF AnswerInv, StepsInv, Listed, Sends
    <3>3. Pending' = backlog - 1
      BY <2>2, <3>1 DEF Pending
    <3>4. StepsInv'
      BY <1>1, <2>1, <2>2, <3>2 DEF StepsInv, CallerAt
    <3>5. TurnInv'
      BY <1>1, <2>2, <3>1, <3>3, OneLess DEF AnswerInv, TurnInv
    <3>. QED  BY <3>4, <3>5 DEF AnswerInv
  <2>4. CASE At("read_packet")
    <3>1. todo' = Step("write", "transfer")
      <4>1. Sends /\ Head(todo).do = "read_packet" /\ ~At("flush")
        BY <2>4, ListedIs DEF AnswerInv, StepsInv, At
      <4>. QED  BY <1>1, <4>1, SendsIs DEF Done
    <3>2. Sends' /\ ~At("read")'
      BY <3>1, SendSteps DEF Sends, At
    <3>3. Pending' = backlog - 1
      BY <2>2, <3>2 DEF Pending
    <3>4. StepsInv'
      BY <1>1, <2>1, <2>2, <3>2 DEF StepsInv, CallerAt
    <3>5. TurnInv'
      BY <1>1, <2>2, <3>2, <3>3, OneLess DEF AnswerInv, TurnInv
    <3>. QED  BY <3>4, <3>5 DEF AnswerInv
  <2>. QED  BY <2>1, <2>3, <2>4
<1>. QED  BY <1>2, <1>3

LEMMA FirstMark ==
    ASSUME NEW s, s \in Seq(Steps), NEW mark, \E j \in 1 .. Len(s) : s[j].do = mark
    PROVE  LET n == SelectInSeq(s, LAMBDA x : x.do = mark)
           IN  n \in 1 .. Len(s) /\ s[n].do = mark
<1>. DEFINE I == {i \in 1 .. Len(s) : s[i].do = mark}
<1>1. I # {} /\ I \in SUBSET Nat
  OBVIOUS
<1>2. SelectInSeq(s, LAMBDA x : x.do = mark) = CHOOSE x \in I : \A y \in I : x <= y
  BY <1>1 DEF SelectInSeq, Min
<1>. HIDE DEF I
<1>3. \E x \in I : \A y \in I : x <= y
  BY <1>1, Least
<1>4. SelectInSeq(s, LAMBDA x : x.do = mark) \in I
  BY <1>2, <1>3
<1>. QED  BY <1>4 DEF I

\* A refusal goes on behind the mark of the command, which is there.
LEMMA RefusedRest ==
    ASSUME Listed(todo, "none"), At("read"), NEW mark \in Marks, GoesTo(Command, mark)
    PROVE  Whole(SubSeq(todo, 1 + SelectInSeq(todo, LAMBDA s : s.do = mark), Len(todo)), "none")
<1>1. todo \in Seq(Steps) /\ todo # << >> /\ 1 \in 1 .. Len(todo) /\ Command = todo[1].command
  BY ListedIs DEF Listed, At, Command
<1>2. mark # "none" /\ mark # "write"
  BY DEF Marks
<1>3. \E j \in 1 .. Len(todo) : todo[j].do = mark
  <2>1. PICK j \in 1 + 1 .. Len(todo) : todo[j].do = mark
    BY <1>1, <1>2 DEF Listed, Marked
  <2>. QED  BY <1>1, <2>1
<1>. DEFINE n == SelectInSeq(todo, LAMBDA s : s.do = mark)
<1>4. n \in 1 .. Len(todo) /\ todo[n].do = mark
  BY <1>1, <1>3, FirstMark
<1>. HIDE DEF n
<1>5. Whole(SubSeq(todo, n + 1, Len(todo)), "none")
  BY <1>2, <1>4, RestListed
<1>6. n + 1 = 1 + n
  BY <1>4
<1>. QED  BY <1>5, <1>6 DEF n

LEMMA RefusedAnswers == ASSUME WireInv, AnswerInv, Refused PROVE AnswerInv'
<1>1. /\ ReadReturns /\ callerPc = "reading" /\ callerPc' = "idle" /\ closed' = closed
      /\ UNCHANGED <<tracing, strayed, backlog>> /\ backlog \in Nat /\ At("read") /\ todo # << >>
  BY DEF Refused, ReadReturns, AnswerInv, StepsInv, At
<1>2. ~Sends /\ Listed(todo, "none") /\ ~At("flush")
  BY <1>1, SendsIs DEF At, AnswerInv, StepsInv
<1>3. Whole(todo', "none")
  <2>. DEFINE Rest(do) == SubSeq(todo, 1 + SelectInSeq(todo, LAMBDA s : s.do = do), Len(todo))
  <2>1. CASE Command \in {"swo_transport", "swo_mode", "swo_baudrate"}
    <3>1. todo' = _swo_disable \o Rest("swo_configured")
      BY <2>1 DEF Refused
    <3>2. Whole(Rest("swo_configured"), "none")
      BY <1>1, <1>2, <2>1, RefusedRest DEF Marks, GoesTo
    <3>. QED  BY <3>1, <3>2, DisableWhole, Behind
  <2>2. CASE Command \in {"swo_mode_off", "swo_transport_none"}
    <3>1. todo' = Local("swo_disabled") \o Rest("swo_disabled")
      BY <2>2 DEF Refused
    <3>2. Whole(Rest("swo_disabled"), "none")
      BY <1>1, <1>2, <2>2, RefusedRest DEF Marks, GoesTo
    <3>3. Whole(Local("swo_disabled"), "none")
      BY LocalWhole DEF Doings
    <3>. QED  BY <3>1, <3>2, <3>3, Behind
  <2>3. CASE Command \notin {"swo_transport", "swo_mode", "swo_baudrate", "swo_mode_off", "swo_transport_none"}
    <3>1. todo' = << >>
      BY <2>3 DEF Refused
    <3>. QED  BY <3>1, EmptyListed
  <2>. QED  BY <2>1, <2>2, <2>3
<1>4. ~Sends' /\ Listed(todo', "none")
  BY <1>3, PacketFreeSends DEF Sends, Whole, Listed
<1>5. ~At("read")'
  <2>. DEFINE t == todo'
  <2>1. t \in Seq(Steps) /\ (t = << >> \/ t[1].do # "read")
    BY <1>3 DEF Whole, Listed
  <2>. HIDE DEF t
  <2>2. t = << >> \/ Head(t).do # "read"
    BY <2>1
  <2>. QED  BY <2>2 DEF At, t
<1>6. ASSUME ~strayed PROVE backlog = 0 /\ Pending' = 0 /\ Waits(Line', 0, written')
  <2>1. backlog = 0 /\ Waits(Line, 1, written)
    BY <1>1, <1>2, <1>6, NothingInFlight
  <2>2. Waits(Line', 1 - 1, written) /\ written' = written
    BY <1>1, <2>1, OneLess
  <2>. QED  BY <1>1, <1>5, <2>1, <2>2 DEF Pending
<1>7. StepsInv'
  BY <1>1, <1>4 DEF AnswerInv, StepsInv, CallerAt
<1>8. TurnInv'
  BY <1>1, <1>6 DEF TurnInv
<1>. QED  BY <1>7, <1>8 DEF AnswerInv

\* The steps that are over at once and do not touch the wire.
LEMMA LocalAnswers ==
    ASSUME WireInv, AnswerInv, Flushed \/ SetSwoStatus \/ StartSwoThread \/ ReadSwoData
    PROVE  AnswerInv'
<1>1. /\ Done /\ callerPc' = "idle" /\ UNCHANGED <<backlog, tracing, strayed, written, rxPc, rcvData, epIn, epOut>>
      /\ At("flush") => backlog = 0
      /\ todo # << >>
      /\ Head(todo).do \in {"flush", "swo_disabled", "swo_configured", "swo_running", "start_swo", "read_swo"}
  <2>1. CASE Flushed
    BY <2>1 DEF Flushed, usbVars, caller, thread, usb, counts, At
  <2>2. CASE SetSwoStatus
    <3>1. PICK status \in {"disabled", "configured", "running"} :
             At(CASE status = "disabled" -> "swo_disabled" [] status = "configured" -> "swo_configured" [] OTHER -> "swo_running")
      BY <2>2 DEF SetSwoStatus
    <3>2. At("swo_disabled") \/ At("swo_configured") \/ At("swo_running")
      BY <3>1
    <3>. QED  BY <2>2, <3>2 DEF SetSwoStatus, usbVars, caller, thread, usb, counts, At
  <2>3. CASE StartSwoThread \/ ReadSwoData
    BY <2>3 DEF StartSwoThread, StartSwo, ReadSwoData, ReadSwo, notSwo, caller, thread, usb, counts, At
  <2>. QED  BY <2>1, <2>2, <2>3
<1>2. ~Sends /\ ~At("write") /\ ~At("read")
  BY <1>1, SendsIs DEF At
<1>3. ASSUME ~strayed PROVE Waits(Line', 0, written')
  <2>1. Waits(Line, 0, written)
    BY <1>1, <1>2, <1>3, NothingInFlight
  <2>2. Line' = Line
    BY <1>1, LineKept
  <2>. QED  BY <1>1, <2>1, <2>2
<1>. QED  BY <1>1, <1>2, <1>3, StepOver

\* open and the end of close throw away what is on the wire: there is nothing.
LEMMA EmptiedAnswers ==
    ASSUME WireInv, AnswerInv, Open \/ Joined, At("open") \/ At("close"), Done,
           UNCHANGED <<backlog, tracing, strayed>>
    PROVE  AnswerInv'
<1>1. /\ todo # << >> /\ ~Sends /\ ~At("write") /\ ~At("read") /\ ~At("flush")
      /\ callerPc' = "idle" /\ written' = written
  BY SendsIs DEF At, Open, Joined, counts
<1>2. ASSUME ~strayed PROVE Waits(Line', 0, written')
  <2>1. Waits(Line, 0, written)
    BY <1>1, <1>2, NothingInFlight
  <2>2. Line = << >>
    BY <2>1, LineIs DEF Waits
  <2>3. Line' = << >>
    BY <2>2, LineEmptied
  <2>. QED  BY <2>3 DEF Waits
<1>. QED  BY <1>1, <1>2, StepOver

\* From here on the interface is closed, with nothing in flight.
LEMMA ClosesAnswers ==
    ASSUME WireInv, AnswerInv, At("close"), StopRx, UNCHANGED linkVars
    PROVE  AnswerInv'
<1>1. /\ UNCHANGED <<todo, backlog, tracing, strayed, written, rxPc, rcvData, epIn, epOut>>
      /\ callerPc' = "joining"
  BY DEF StopRx, linkVars, usb, counts
<1>2. Line' = Line
  BY <1>1, LineKept
<1>3. todo # << >> /\ ~Sends /\ ~At("flush")
  BY SendsIs DEF At
<1>4. ~strayed => backlog = 0
  BY <1>3, NothingInFlight
<1>5. (Sends' <=> Sends) /\ (At("flush")' <=> At("flush")) /\ At("close")' /\ Pending' = Pending
  BY <1>1 DEF Sends, At, Pending
<1>6. StepsInv'
  BY <1>1, <1>5 DEF AnswerInv, StepsInv, CallerAt, Listed, PacketFree, Paired, Marked
<1>7. TurnInv'
  BY <1>1, <1>2, <1>4, <1>5 DEF AnswerInv, TurnInv, Waits
<1>. QED  BY <1>6, <1>7 DEF AnswerInv

LEMMA StopAnswers == ASSUME WireInv, AnswerInv, StopSwoThread, swoThread = 0 PROVE AnswerInv'
<1>1. /\ At("stop_swo") /\ todo' = << >> /\ callerPc' = "idle"
      /\ UNCHANGED <<closed, backlog, tracing, strayed, written, rxPc, rcvData, epIn, epOut>>
  BY DEF StopSwoThread, usbVars, caller, thread, usb, counts
<1>2. Line' = Line
  BY <1>1, LineKept
<1>3. todo # << >> /\ ~Sends /\ ~At("flush") /\ ~At("read")
  BY <1>1, SendsIs DEF At
<1>4. ASSUME ~strayed PROVE backlog' = 0 /\ Pending' = 0 /\ Waits(Line', 0, written')
  BY <1>1, <1>2, <1>3, <1>4, NothingInFlight DEF Pending, At
<1>5. Listed(todo', "none") /\ ~Sends'
  BY <1>1, EmptyListed, PacketFreeSends DEF Whole, Listed, Sends
<1>. QED  BY <1>1, <1>4, <1>5 DEF AnswerInv, StepsInv, CallerAt, TurnInv

LEMMA JoinedAnswers == ASSUME WireInv, AnswerInv, ThreadJoined PROVE AnswerInv'
<1>1. CASE Joined
  <2>1. At("close") /\ Done /\ UNCHANGED <<backlog, tracing, strayed>>
    BY <1>1 DEF ThreadJoined, Joined, AnswerInv, StepsInv, CallerAt
  <2>. QED  BY <1>1, <2>1, EmptiedAnswers
<1>2. CASE SwoJoined /\ callerPc = "joining_SWO_closing"
  <2>1. StopRx /\ At("close") /\ UNCHANGED linkVars
    BY <1>2 DEF ThreadJoined, SwoJoined, StopRx, AnswerInv, StepsInv, CallerAt, linkVars
  <2>. QED  BY <2>1, ClosesAnswers
<1>3. CASE SwoJoined /\ callerPc # "joining_SWO_closing"
  <2>1. /\ At("stop_swo") /\ callerPc' = "idle" /\ Done /\ UNCHANGED <<backlog, tracing, strayed>>
        /\ UNCHANGED <<written, rxPc, rcvData, epIn, epOut>>
    BY <1>3 DEF ThreadJoined, SwoJoined, AnswerInv, StepsInv, CallerAt, thread, usb, counts
  <2>2. todo # << >> /\ ~Sends /\ ~At("write") /\ ~At("read") /\ ~At("flush")
    BY <2>1, SendsIs DEF At
  <2>3. ASSUME ~strayed PROVE Waits(Line', 0, written')
    <3>1. Waits(Line, 0, written)
      BY <2>2, <2>3, NothingInFlight
    <3>2. Line' = Line
      BY <2>1, LineKept
    <3>. QED  BY <2>1, <3>1, <3>2
  <2>. QED  BY <2>1, <2>2, <2>3, StepOver
<1>. QED  BY <1>1, <1>2, <1>3 DEF ThreadJoined

LEMMA CallStepAnswers == ASSUME WireInv, AnswerInv, CallStep PROVE AnswerInv'
<1>1. CASE WriteCommand \/ ReadAnswer
  BY <1>1, CallWaits
<1>2. CASE Written
  BY <1>2, WrittenAnswers
<1>3. CASE WriteRaises \/ Mistaken \/ ReadFails
  BY <1>3, RaisesAnswers
<1>4. CASE Answered \/ Refused
  BY <1>4, AnsweredAnswers, RefusedAnswers
<1>5. CASE Flushed \/ SetSwoStatus \/ StartSwoThread \/ ReadSwoData
  BY <1>5, LocalAnswers
<1>6. CASE OpenInterface
  BY <1>6, EmptiedAnswers DEF OpenInterface
<1>7. CASE CloseInterface
  <2>1. CASE callerPc' = "joining"
    <3>1. At("close") /\ StopRx /\ UNCHANGED linkVars
      BY <1>7, <2>1 DEF CloseInterface, Close
    <3>. QED  BY <3>1, ClosesAnswers
  <2>. QED  BY <1>7, <2>1, CallWaits
<1>8. CASE StopSwoThread
  BY <1>8, CallWaits, StopAnswers
<1>9. CASE ThreadJoined
  BY <1>9, JoinedAnswers
<1>. QED  BY <1>1, <1>2, <1>3, <1>4, <1>5, <1>6, <1>7, <1>8, <1>9 DEF CallStep

LEMMA InitAnswers == ASSUME Init PROVE AnswerInv
<1>1. /\ todo = << >> /\ backlog = 0 /\ callerPc = "idle" /\ closed = TRUE /\ written = 0
      /\ epOut = << >> /\ epIn = << >> /\ rcvData = << >> /\ rxPc = "none"
  BY DEF Init, UsbInit
<1>2. << >> \o << >> = << >> /\ Len(<< >>) = 0
  OBVIOUS
<1>3. Line = << >>
  BY <1>1, <1>2 DEF Line, Answers
<1>4. Listed(todo, "none")
  BY <1>1, EmptyListed DEF Whole
<1>5. ~Sends
  BY <1>4, PacketFreeSends DEF Listed, Sends
<1>. QED  BY <1>1, <1>2, <1>3, <1>4, <1>5 DEF AnswerInv, StepsInv, TurnInv, CallerAt, Pending, At, Waits

LEMMA NextAnswers == ASSUME WireInv, AnswerInv, [Next]_vars PROVE AnswerInv'
<1>1. CASE Begin
  BY <1>1, BeginAnswers
<1>2. CASE CallStep
  BY <1>2, CallStepAnswers
<1>3. CASE Receive \/ Probe \/ (\E r \in 1 .. MaxReaders : Listen(r)) \/ UNCHANGED vars
  <2>1. /\ UNCHANGED <<todo, backlog, tracing, closed, written, callerPc>> /\ (strayed => strayed')
        /\ RxTask \/ ProbeAnswers \/ UNCHANGED <<rxPc, rcvData, epIn, epOut>>
    <3>1. CASE Receive
      BY <3>1 DEF Receive, RxTask, RxLoop, RxAcquire, RxRead, RxStops, RxTimesOut, Exit, caller, counts
    <3>2. CASE Probe
      BY <3>2 DEF Probe, ProbeAnswers, ProbeCaptures, notSwo, caller, thread, usb, counts, linkVars
    <3>3. ASSUME NEW r \in 1 .. MaxReaders, Listen(r)
          PROVE  UNCHANGED notSwo /\ UNCHANGED linkVars
      BY <3>3 DEF Listen, SwoTask, SwoRead, SwoReadExpires, SwoAppend
    <3>4. CASE UNCHANGED vars
      BY <3>4 DEF vars, usbVars, linkVars, caller, thread, usb, counts
    <3>. QED  BY <1>3, <3>1, <3>2, <3>3, <3>4 DEF notSwo, linkVars, caller, thread, usb, counts
  <2>2. Line' = Line
    BY <2>1, LineKept
  <2>3. CallerAt'
    BY <2>1 DEF AnswerInv, StepsInv, CallerAt, At, ReadsPacket
  <2>. QED  BY <2>1, <2>2, <2>3, Unmoved
<1>. QED  BY <1>1, <1>2, <1>3 DEF Next

\* Only a read that returns changes what was got.
LEMMA GotByRead == ASSUME Next, ~ReadReturns PROVE got' = got
<1> USE DEF usbVars, caller
<1>1. CASE Begin
  BY <1>1 DEF Begin
<1>2. CASE CallStep
  <2>1. CASE WriteCommand \/ Written \/ WriteRaises \/ ReadAnswer \/ ReadFails
    BY <2>1 DEF WriteCommand, Write, Written, WriteOut, WriteRaises, WriteFails, ReadAnswer, Read, ReadFails, ReadRaises
  <2>2. CASE Flushed \/ SetSwoStatus
    BY <2>2 DEF Flushed, SetSwoStatus
  <2>3. CASE OpenInterface \/ CloseInterface \/ ThreadJoined
    BY <2>3 DEF OpenInterface, Open, CloseInterface, Close, StopRx, ThreadJoined, Joined, SwoJoined
  <2>4. CASE StartSwoThread \/ StopSwoThread \/ ReadSwoData
    BY <2>4 DEF StartSwoThread, StartSwo, StopSwoThread, StopSwo, ReadSwoData, ReadSwo, notSwo
  <2>. QED  BY <1>2, <2>1, <2>2, <2>3, <2>4 DEF CallStep, Answered, Mistaken, Refused
<1>3. CASE Receive
  BY <1>3 DEF Receive, RxTask, RxLoop, RxAcquire, RxRead, RxStops, RxTimesOut, Exit
<1>4. CASE Probe
  BY <1>4 DEF Probe, ProbeAnswers, ProbeCaptures, notSwo
<1>5. ASSUME NEW r \in 1 .. MaxReaders, Listen(r) PROVE got' = got
  BY <1>5 DEF Listen, SwoTask, SwoRead, SwoReadExpires, SwoAppend, notSwo
<1>. QED  BY <1>1, <1>2, <1>3, <1>4, <1>5 DEF Next

LEMMA ReadTakesOwn ==
    ASSUME WireInv, AnswerInv, ReadReturns, ~strayed
    PROVE  got' = IF At("read") THEN written ELSE written - backlog + 1
<1>1. callerPc = "reading" /\ backlog \in Nat /\ written \in Nat
  BY DEF ReadReturns, AnswerInv, StepsInv, WireInv, WireTypes
<1>2. CASE At("read")
  <2>1. todo # << >> /\ ~Sends /\ ~At("flush")
    BY <1>2, SendsIs DEF At
  <2>2. Waits(Line, 1, written)
    BY <1>2, <2>1, NothingInFlight
  <2>3. got' = written - 1 + 1
    BY <2>2, OneLess
  <2>. QED  BY <1>1, <1>2, <2>3
<1>3. CASE ~At("read")
  <2>1. Waits(Line, backlog, written)
    BY <1>1, <1>3 DEF AnswerInv, TurnInv, Pending
  <2>. QED  BY <1>1, <1>3, <2>1, OneLess
<1>. QED  BY <1>2, <1>3

(* A command takes the answer to the packet it wrote, and the engine that  *)
(* to its oldest, for any number of packets, calls, sessions and faults,   *)
(* whatever the order of the calls and of the threads, up to the first     *)
(* call that goes past packets in flight or the first failure: _flush      *)
(* before set_clock, reset, assert_reset, disconnect and close leaves no   *)
(* answer that a later read could take for its own.                        *)
THEOREM AnswersAreOwn == Spec => OwnAnswers
<1>1. Init => WireInv /\ AnswerInv
  BY InitWired, InitAnswers
<1>2. WireInv /\ AnswerInv /\ [Next]_vars => WireInv' /\ AnswerInv'
  BY NextWired, NextAnswers DEF Wired
<1>3. WireInv /\ AnswerInv /\ [Next]_vars
      => [got' # got /\ ~strayed => got' = IF At("read") THEN written ELSE written - backlog + 1]_vars
  <2>. SUFFICES ASSUME WireInv, AnswerInv, Next, got' # got, ~strayed
                PROVE  got' = IF At("read") THEN written ELSE written - backlog + 1
    OBVIOUS
  <2>1. ReadReturns
    BY GotByRead
  <2>. QED  BY <2>1, ReadTakesOwn
<1>. QED  BY <1>1, <1>2, <1>3, PTL DEF Spec, OwnAnswers
=============================================================================
