---------------------------- MODULE UsbInterface ----------------------------
(***************************************************************************)
(* The bulk interface of a CMSIS-DAPv2 probe, class PyUSBv2 of             *)
(* pyocd/probe/pydapaccess/interface/pyusb_v2_backend.py.  write releases  *)
(* a semaphore once for every packet; a receive thread takes one permit    *)
(* for every read of the IN endpoint and leaves what it read in rcv_data,  *)
(* where read waits for it by polling.  start_swo starts another thread,   *)
(* which moves what comes at the SWO endpoint into swo_data.               *)
(*                                                                         *)
(* Who calls these methods, and when, is up to the modules that extend     *)
(* this one.                                                               *)
(*                                                                         *)
(* Time: the threads' reads expire after ten seconds.  A write to the OUT  *)
(* endpoint is over long before, so the read expires only when no packet   *)
(* is being written and no answer waits; if the probe still has a packet,  *)
(* its lateness is a fault.                                                *)
(***************************************************************************)
EXTENDS Integers, Sequences, SequencesExt

CONSTANTS
    MaxSessions,    \* bound: times the interface is opened
    MaxFaults,      \* bound: failed writes, late answers and refused commands
    MaxReaders,     \* bound: SWO threads alive at a time
    MaxChunks       \* bound: what the probe sends at the SWO endpoint

ASSUME InterfaceAssumption ==
    /\ MaxSessions \in Nat /\ MaxFaults \in Nat
    /\ MaxReaders \in Nat \ {0} /\ MaxChunks \in Nat

VARIABLES
    callerPc,    \* idle, writeOut, reading, joining (in close), or joining SWO
    closed,
    got,         \* the answer the last read returned
    rxPc,        \* the thread: none, loop, acquire, read or exited
    rxStop,      \* rx_stop_event
    permits,     \* value of read_sem
    rcvData,     \* rcv_data
    epOut,       \* packets the probe has not executed
    epIn,        \* answers waiting at the IN endpoint
    written, sessions, faults,   \* counted against the bounds
    readers,     \* SWO threads: not there, listening, or with a chunk to append
    swoThread,   \* swo_thread, and is_swo_running; 0 for None
    swoStop,     \* swo_stop_event: none, clear or set
    swoData,     \* swo_data
    epSwo,       \* chunks waiting at the SWO endpoint
    produced,    \* chunks that the probe sent
    heard,       \* history: the last chunk that read_swo returned or close dropped
    doubled      \* history: an SWO thread was started while another was alive

caller == <<callerPc, closed, got>>
thread == <<rxPc, rxStop>>
usb    == <<epOut, epIn>>
counts == <<written, sessions, faults>>
swo    == <<readers, swoThread, swoStop, swoData, epSwo, produced, heard, doubled>>
usbVars == <<caller, thread, permits, rcvData, usb, counts, swo>>

\* The None a thread appends when it exits.
ThreadGone == 0

NoReader == -1
Listening == 0   \* the numbers of chunks begin at 1
Expired == -2
Alive(r) == readers[r] # NoReader

UsbInit ==
    /\ callerPc = "idle" /\ closed = TRUE /\ got = 0
    /\ rxPc = "none" /\ rxStop = FALSE /\ permits = 0 /\ rcvData = << >>
    /\ epOut = << >> /\ epIn = << >>
    /\ written = 0 /\ sessions = 0 /\ faults = 0
    /\ readers = [r \in 1 .. MaxReaders |-> NoReader]
    /\ swoThread = 0 /\ swoStop = "none" /\ swoData = << >>
    /\ epSwo = << >> /\ produced = 0 /\ heard = 0 /\ doubled = FALSE

-----------------------------------------------------------------------------
(* The caller *)

\* open and start_rx: what waits at the endpoint is read and dropped, then a new
\* thread starts.  The semaphore is that of the object, as it was left.
Open ==
    /\ callerPc = "idle" /\ closed
    /\ epIn' = << >>
    /\ closed' = FALSE
    /\ rxStop' = FALSE /\ rxPc' = "loop"
    /\ sessions' = sessions + 1
    /\ UNCHANGED <<callerPc, got, permits, rcvData, epOut, written, faults, swo>>

\* Faulty variant: the semaphore is not released.
ReleaseNone == permits' = permits

Release == permits' = permits + 1

\* write, up to its use of the endpoint.
Write ==
    /\ callerPc = "idle" /\ ~closed
    /\ Release
    /\ callerPc' = "writeOut"
    /\ UNCHANGED <<closed, got, thread, rcvData, usb, counts, swo>>

WriteOut ==
    /\ callerPc = "writeOut"
    /\ epOut' = Append(epOut, written + 1)
    /\ written' = written + 1
    /\ callerPc' = "idle"
    /\ UNCHANGED <<closed, got, thread, permits, rcvData, epIn, sessions, faults, swo>>

\* The write raises; the permit stays released.
WriteFails ==
    /\ callerPc = "writeOut" /\ faults < MaxFaults
    /\ faults' = faults + 1
    /\ callerPc' = "idle"
    /\ UNCHANGED <<closed, got, thread, permits, rcvData, usb, written, sessions, swo>>

\* read: poll until rcv_data is not empty.
Read ==
    /\ callerPc = "idle" /\ ~closed
    /\ callerPc' = "reading"
    /\ UNCHANGED <<closed, got, thread, permits, rcvData, usb, counts, swo>>

\* Faulty variant: pop() takes the newest answer.
PopIndexNewest == Len(SelectSeq(rcvData, LAMBDA a : a # ThreadGone))

\* The index pop(0) takes.
PopIndex == 1

ReadReturns ==
    /\ callerPc = "reading" /\ rcvData # << >> /\ Head(rcvData) # ThreadGone
    /\ got' = rcvData[PopIndex]
    /\ rcvData' = RemoveAt(rcvData, PopIndex)
    /\ callerPc' = "idle"
    /\ UNCHANGED <<closed, thread, permits, usb, written, sessions, swo>>

\* The thread is gone: DeviceError, now and at every later read.
ReadRaises ==
    /\ callerPc = "reading" /\ rcvData # << >> /\ Head(rcvData) = ThreadGone
    /\ callerPc' = "idle"
    /\ UNCHANGED <<closed, got, thread, permits, rcvData, usb, counts, swo>>

\* close, up to the join of the receive thread, which is told to stop and woken.
StopRx ==
    /\ closed' = TRUE
    /\ rxStop' = TRUE
    /\ Release
    /\ callerPc' = "joining"
    /\ UNCHANGED <<got, rxPc, rcvData, usb, counts>>

\* close stops the SWO thread first, where there is one.
Close ==
    /\ callerPc = "idle" /\ ~closed
    /\ IF swoThread = 0 THEN StopRx /\ UNCHANGED swo
       ELSE /\ callerPc' = "joining_SWO_closing" /\ swoStop' = "set"
            /\ UNCHANGED <<closed, got, thread, permits, rcvData, usb, counts,
                           readers, swoThread, swoData, epSwo, produced, heard, doubled>>

\* A read of an endpoint that is released ends with a USBError; what one returned
\* goes into the list that was there when it began.
Joined ==
    /\ callerPc = "joining" /\ rxPc = "exited"
    /\ rcvData' = << >> /\ swoData' = << >>
    /\ heard' = produced - Len(epSwo)
    /\ readers' = [r \in DOMAIN readers |-> IF Alive(r) THEN Expired ELSE NoReader]
    /\ rxPc' = "none"
    /\ callerPc' = "idle"
    /\ UNCHANGED <<closed, got, rxStop, permits, usb, counts, swoThread, swoStop, epSwo, produced, doubled>>

-----------------------------------------------------------------------------
(* The receive thread, rx_task *)

RxLoop ==
    /\ rxPc = "loop" /\ ~rxStop
    /\ rxPc' = "acquire"
    /\ UNCHANGED <<caller, rxStop, permits, rcvData, usb, counts, swo>>

\* With the permit the event is tested again before the endpoint is read.
RxAcquire ==
    /\ rxPc = "acquire" /\ permits > 0
    /\ permits' = permits - 1
    /\ rxPc' = IF rxStop THEN "loop" ELSE "read"
    /\ UNCHANGED <<caller, rxStop, rcvData, usb, counts, swo>>

RxRead ==
    /\ rxPc = "read" /\ epIn # << >>
    /\ rcvData' = Append(rcvData, Head(epIn))
    /\ epIn' = Tail(epIn)
    /\ rxPc' = "loop"
    /\ UNCHANGED <<caller, rxStop, permits, epOut, counts, swo>>

Exit ==
    /\ rcvData' = Append(rcvData, ThreadGone)
    /\ rxPc' = "exited"
    /\ UNCHANGED <<caller, rxStop, permits, usb, written, sessions, swo>>

RxStops ==
    /\ rxPc = "loop" /\ rxStop
    /\ Exit
    /\ UNCHANGED faults

\* Nothing comes for ten seconds: the USBError ends the thread.
RxTimesOut ==
    /\ rxPc = "read" /\ epIn = << >> /\ callerPc # "writeOut"
    /\ \/ epOut = << >> /\ UNCHANGED faults
       \/ epOut # << >> /\ faults < MaxFaults /\ faults' = faults + 1
    /\ Exit

RxTask == RxLoop \/ RxAcquire \/ RxRead \/ RxStops \/ RxTimesOut

-----------------------------------------------------------------------------
(* The SWO threads *)

notSwo == <<caller, thread, permits, rcvData, usb, counts>>

\* start_swo: the new event and the new thread take the place of those there were.
StartSwo ==
    /\ callerPc = "idle" /\ ~closed
    /\ \E r \in DOMAIN readers :
        /\ ~Alive(r) /\ \A q \in 1 .. r - 1 : Alive(q)
        /\ readers' = [readers EXCEPT ![r] = Listening]
        /\ swoThread' = r
    /\ swoStop' = "clear"
    /\ doubled' = (doubled \/ \E r \in DOMAIN readers : Alive(r))
    /\ UNCHANGED <<notSwo, swoData, epSwo, produced, heard>>

\* stop_swo, up to its join.
StopSwo ==
    /\ callerPc = "idle" /\ swoThread # 0
    /\ callerPc' = "joining_SWO"
    /\ swoStop' = "set"
    /\ UNCHANGED <<closed, got, thread, permits, rcvData, usb, counts,
                   readers, swoThread, swoData, epSwo, produced, heard, doubled>>

SwoJoined ==
    /\ callerPc \in {"joining_SWO", "joining_SWO_closing"} /\ ~Alive(swoThread)
    /\ swoThread' = 0 /\ swoStop' = "none"
    /\ IF callerPc = "joining_SWO_closing" THEN StopRx
       ELSE callerPc' = "idle" /\ UNCHANGED <<closed, got, thread, permits, rcvData, usb, counts>>
    /\ UNCHANGED <<readers, swoData, epSwo, produced, heard, doubled>>

\* Faulty: each piece replaces the one before.
AccumulateLast(chunks) == IF chunks = << >> THEN << >> ELSE << Last(chunks) >>

Accumulate(chunks) == chunks

(* read_swo takes all there is; at the None of a thread that is gone it    *)
(* raises, and what it took is lost.  What comes meanwhile it takes too,   *)
(* as if it had come before.                                               *)
ReadSwo ==
    /\ callerPc = "idle"
    /\ LET gone == ThreadGone \in ToSet(swoData)
           count == IF gone THEN SelectInSeq(swoData, LAMBDA c : c = ThreadGone) - 1 ELSE Len(swoData)
           data == Accumulate(SubSeq(swoData, 1, count))
       IN  /\ swoData' = SubSeq(swoData, count + 1, Len(swoData))
           /\ heard' = IF gone THEN heard ELSE heard + Len(data)
    /\ UNCHANGED <<notSwo, readers, swoThread, swoStop, epSwo, produced, doubled>>

(* The loop tests the event there is at the time, which may be another     *)
(* thread's, or None: each ends the thread unless it is clear.             *)
SwoLoop(r, data) ==
    IF swoStop = "clear" THEN readers' = [readers EXCEPT ![r] = Listening] /\ swoData' = data
    ELSE readers' = [readers EXCEPT ![r] = NoReader] /\ swoData' = Append(data, ThreadGone)

SwoRead(r) ==
    /\ readers[r] = Listening /\ epSwo # << >>
    /\ readers' = [readers EXCEPT ![r] = Head(epSwo)]
    /\ epSwo' = Tail(epSwo)
    /\ UNCHANGED <<notSwo, swoThread, swoStop, swoData, produced, heard, doubled>>

\* Nothing comes for ten seconds, or the endpoint was released.
SwoReadExpires(r) ==
    /\ readers[r] = Expired \/ (readers[r] = Listening /\ epSwo = << >>)
    /\ SwoLoop(r, swoData)
    /\ UNCHANGED <<notSwo, swoThread, swoStop, epSwo, produced, heard, doubled>>

SwoAppend(r) ==
    /\ readers[r] > 0
    /\ SwoLoop(r, Append(swoData, readers[r]))
    /\ UNCHANGED <<notSwo, swoThread, swoStop, epSwo, produced, heard, doubled>>

SwoTask(r) == SwoRead(r) \/ SwoReadExpires(r) \/ SwoAppend(r)

-----------------------------------------------------------------------------
\* The probe (external) answers packets in order, and sends what it captures.
ProbeAnswers ==
    /\ epOut # << >>
    /\ epIn' = Append(epIn, Head(epOut))
    /\ epOut' = Tail(epOut)
    /\ UNCHANGED <<caller, thread, permits, rcvData, counts, swo>>

ProbeCaptures ==
    /\ produced < MaxChunks
    /\ produced' = produced + 1
    /\ epSwo' = Append(epSwo, produced')
    /\ UNCHANGED <<notSwo, readers, swoThread, swoStop, swoData, heard, doubled>>

=============================================================================
