----------------------------- MODULE DebugAccess -----------------------------
(***************************************************************************)
(* Register and memory access through three layers that remember what they *)
(* wrote: CMSISDAPProbe (cmsis_dap_probe.py) caches DP SELECT, MEM_AP      *)
(* (ap.py) the CSW of its access port, and DebugPort (dap.py) clears the   *)
(* target's sticky error when an access fails.                             *)
(*                                                                         *)
(* Below them the link (module DapLink) only queues accesses.  The target  *)
(* executes them later and in order; a refusal is noticed in whichever     *)
(* call of the link reads its answer, and that call throws away everything *)
(* queued, its own access included.  Of the link, only what module DapPort *)
(* promises is used: reads are answered in order or fail together.         *)
(*                                                                         *)
(* A call of the caller is a list of steps, each a call of the link, and   *)
(* the target runs between any two.  A step lists the layers ("dp", "ap")  *)
(* whose _handle_error its exception passes on its way out.                *)
(***************************************************************************)
EXTENDS Integers, Sequences, FiniteSets

CONSTANTS
    APs,         \* access ports, all of them MEM_APs
    Sizes,       \* transfer sizes, 32 among them
    Failures,    \* how the target refuses: "FAULT", "WAIT", or "NOACK" for the rest
    MaxCalls,    \* bound: calls that access the target
    MaxRefused,  \* bound: accesses the target refuses by itself
    MaxResets    \* bound: resets

ASSUME AccessAssumption ==
    /\ APs \subseteq Nat /\ APs # {}
    /\ Sizes \subseteq Nat /\ 32 \in Sizes
    /\ Failures \subseteq {"FAULT", "WAIT", "NOACK"}
    /\ MaxCalls \in Nat /\ MaxRefused \in Nat /\ MaxResets \in Nat

VARIABLES
    todo,       \* steps left of the call in progress
    call,       \* its access port, transfer size and number
    calls,      \* calls made that access the target
    held,       \* calls of read_memory whose callback the caller still holds
    dpSelect,   \* CMSISDAPProbe._dp_select
    csw,        \* MEM_AP._csw of every access port
    queue,      \* accesses the link has taken and the target not executed
    linkError,  \* the first refusal whose answer was not read yet
    reads,      \* how the read of each call stands in the link
    hwSelect, hwCsw, hwTar,  \* the target's registers
    sticky,                  \* its STICKYERR
    refused, resets,         \* counted against the bounds
    surfaced    \* history: resets past DebugPort, and where errors came out of the link

caller == <<todo, call, calls, held>>
caches == <<dpSelect, csw>>
link   == <<queue, linkError, reads>>
target == <<hwSelect, hwCsw, hwTar, sticky>>
bounds == <<refused, resets>>
vars   == <<caller, caches, link, target, bounds, surfaced>>

-----------------------------------------------------------------------------
(* Data *)

Unknown  == -1
NoSelect == <<Unknown, Unknown>>

APRegs == {"CSW", "TAR", "DRW", "IDR"}
DPRegs == {"SELECT", "CTRL/STAT", "CLEAR", "DAPABORT"}   \* the last two are ABORT
Waits  == {"result", "flush", "set_clock", "reset", "link reset"}

\* The value of SELECT for an AP register; IDR is in the last bank.  Before it a
\* faulty variant, which the properties must reject (as before others below): the
\* register's address not masked to its bank.
SelectUnmasked(ap, reg) == <<ap, IF reg = "IDR" THEN 252 ELSE 0>>
SelectFor(ap, reg) == <<ap, IF reg = "IDR" THEN 15 ELSE 0>>

Layers == {"dp", "ap"}
Steps == [reg : APRegs \cup {"CTRL/STAT"} \cup Waits, reads : BOOLEAN, handlers : SUBSET Layers]
Step(reg, handlers) == [reg |-> reg, reads |-> FALSE, handlers |-> handlers]
Read(reg, handlers) == [Step(reg, handlers) EXCEPT !.reads = TRUE]

\* An access.  SELECT writes `select`, CSW the size, and TAR the number of the
\* call, which stands for its address; in the others these say what was meant.
Access(reg, selectReg) ==
    [reg |-> reg, ap |-> call.ap, select |-> SelectFor(call.ap, selectReg),
     size |-> call.size, id |-> call.id]
Accesses == [reg : APRegs \cup DPRegs, ap : APs, select : APs \X {0, 15},
             size : Sizes, id : Nat]

Calls == [ap : APs, size : Sizes, id : Nat]
NoCall == [ap |-> CHOOSE ap \in APs : TRUE, size |-> 32, id |-> 0]

-----------------------------------------------------------------------------
Init ==
    /\ todo = << >> /\ call = NoCall /\ calls = 0 /\ held = {}
    /\ dpSelect = NoSelect /\ csw = [a \in APs |-> Unknown]
    /\ queue = << >> /\ linkError = "none" /\ reads = [n \in 1 .. MaxCalls |-> "none"]
    /\ hwSelect = NoSelect /\ sticky = FALSE
    /\ hwCsw = [a \in APs |-> Unknown] /\ hwTar = [a \in APs |-> 0]
    /\ refused = 0 /\ resets = 0 /\ surfaced = {}

-----------------------------------------------------------------------------
(* The caller starts a call *)

Begin(ap, size, steps) ==
    /\ todo = << >> /\ calls < MaxCalls
    /\ calls' = calls + 1
    /\ call' = [ap |-> ap, size |-> size, id |-> calls + 1]
    /\ todo' = steps
    /\ UNCHANGED <<held, caches, link, target, bounds, surfaced>>

\* The CSW is written outside the try of _write_memory.
WriteMemory(ap, size) ==
    Begin(ap, size, << Step("CSW", {"dp"}), Step("TAR", Layers), Step("DRW", Layers) >>)

\* `now` calls the callback before it returns.
ReadMemory(ap, size, now) ==
    Begin(ap, size, << Step("CSW", Layers), Step("TAR", Layers), Read("DRW", Layers) >>
                    \o IF now THEN << Step("result", Layers) >> ELSE << >>)

\* CSW and TAR are written outside the try, and the data goes past DebugPort.
WriteBlock32(ap) ==
    Begin(ap, 32, << Step("CSW", {"dp"}), Step("TAR", {"dp"}), Step("DRW", {"ap"}) >>)
ReadBlock32(ap) ==
    Begin(ap, 32, << Step("CSW", {"dp"}), Step("TAR", {"dp"}),
                     Read("DRW", {"ap"}), Step("result", {"ap"}) >>)

ReadIDR(ap) == Begin(ap, 32, << Read("IDR", {"dp"}), Step("result", {"dp"}) >>)
ReadDP == Begin(NoCall.ap, 32, << Read("CTRL/STAT", {"dp"}), Step("result", {"dp"}) >>)

\* The caller calls a callback of read_memory.
Callback(c) ==
    /\ todo = << >> /\ c \in held
    /\ todo' = << Step("result", Layers) >>
    /\ call' = c
    /\ held' = held \ {c}
    /\ UNCHANGED <<calls, caches, link, target, bounds, surfaced>>

\* DebugPort.flush handles errors; set_clock, is_reset_asserted and disconnect
\* flush too and handle none.
FlushLink(reg) ==
    /\ todo = << >>
    /\ todo' = << Step(reg, IF reg = "flush" THEN {"dp"} ELSE {}) >>
    /\ UNCHANGED <<call, calls, held, caches, link, target, bounds, surfaced>>

\* DebugPort.reset tells the access ports; CortexM's hardware reset calls the
\* probe's reset, which forgets SELECT only.
Reset(reg) ==
    /\ todo = << >> /\ resets < MaxResets
    /\ resets' = resets + 1
    /\ todo' = << Step(reg, {}) >>
    /\ dpSelect' = NoSelect
    /\ csw' = IF reg = "reset" THEN [a \in APs |-> Unknown] ELSE csw
    /\ UNCHANGED <<call, calls, held, link, target, refused, surfaced>>

-----------------------------------------------------------------------------
(* Its steps *)

Now == Head(todo)

\* On to the next step, and back to the caller after the last.
Continue ==
    /\ todo' = Tail(todo)
    /\ call' = IF Tail(todo) = << >> THEN NoCall ELSE call
EndCall == todo' = << >> /\ call' = NoCall

InLink == todo # << >> /\ Now.reg \in APRegs \cup {"CTRL/STAT"}

\* MEM_AP.write_reg: no need to write the CSW if it is not changing.
CswCached == Now.reg = "CSW" /\ csw[call.ap] = call.size

SkipCsw ==
    /\ InLink /\ CswCached
    /\ Continue
    /\ UNCHANGED <<calls, held, caches, link, target, bounds, surfaced>>

\* CMSISDAPProbe.write_dp: likewise SELECT.
NeedsSelect == Now.reg \in APRegs /\ dpSelect # SelectFor(call.ap, Now.reg)

WriteSelect ==
    /\ InLink /\ ~CswCached /\ NeedsSelect
    /\ dpSelect' = SelectFor(call.ap, Now.reg)
    /\ queue' = Append(queue, Access("SELECT", Now.reg))
    /\ UNCHANGED <<caller, csw, linkError, reads, target, bounds, surfaced>>

\* The register itself.  A read without `now` returns its callback.
Issue ==
    /\ InLink /\ ~CswCached /\ ~NeedsSelect
    /\ queue' = Append(queue, Access(Now.reg, Now.reg))
    /\ csw' = IF Now.reg = "CSW" THEN [csw EXCEPT ![call.ap] = call.size] ELSE csw
    /\ reads' = IF Now.reads THEN [reads EXCEPT ![call.id] = "pending"] ELSE reads
    /\ held' = IF Now.reads /\ Tail(todo) = << >> THEN held \cup {call} ELSE held
    /\ Continue
    /\ UNCHANGED <<calls, dpSelect, linkError, target, bounds, surfaced>>

GetResult ==
    /\ todo # << >> /\ Now.reg = "result" /\ reads[call.id] = "answered"
    /\ reads' = [reads EXCEPT ![call.id] = "none"]
    /\ Continue
    /\ UNCHANGED <<calls, held, caches, queue, linkError, target, bounds, surfaced>>

Flushed == queue = << >> /\ linkError = "none"

\* The link has nothing more to send or to read for a read it failed before:
\* an AssertionError, which no layer handles.
ResultLost ==
    /\ todo # << >> /\ Now.reg = "result" /\ reads[call.id] = "lost" /\ Flushed
    /\ reads' = [reads EXCEPT ![call.id] = "none"]
    /\ EndCall
    /\ UNCHANGED <<calls, held, caches, queue, linkError, target, bounds, surfaced>>

FlushDone ==
    /\ todo # << >> /\ Now.reg \in {"flush", "set_clock"} /\ Flushed
    /\ Continue
    /\ UNCHANGED <<calls, held, caches, link, target, bounds, surfaced>>

\* The reset pin may reset the debug logic or spare it.
ResetDone ==
    /\ todo # << >> /\ Now.reg \in {"reset", "link reset"} /\ Flushed
    /\ Continue
    /\ \E debugToo \in BOOLEAN :
           IF debugToo
           THEN /\ hwSelect' = NoSelect /\ sticky' = FALSE
                /\ hwCsw' = [a \in APs |-> Unknown] /\ hwTar' = [a \in APs |-> 0]
           ELSE UNCHANGED target
    /\ surfaced' = IF Now.reg = "reset" THEN surfaced
                   ELSE surfaced \cup {[where |-> Now.reg, ap |-> call.ap, error |-> "none"]}
    /\ UNCHANGED <<calls, held, caches, link, bounds>>

-----------------------------------------------------------------------------
(* An error comes out of the link *)

\* Faulty: a layer keeps its cache, or sends the wrong abort.
SelectKept(step) == dpSelect
CswKept(step) == IF step.reg = "CSW" THEN [csw EXCEPT ![call.ap] = Unknown] ELSE csw
RecoverByAbort(step, error) == << Access("DAPABORT", Now.reg) >>

\* _invalidate_cached_registers, in every access but not in flush or set_clock.
SelectAfter(step) == IF step.reg \in {"flush", "set_clock"} THEN dpSelect ELSE NoSelect

\* MEM_AP._handle_error, or write_reg's own handler.
CswAfter(step) ==
    IF "ap" \in step.handlers \/ step.reg = "CSW"
    THEN [csw EXCEPT ![call.ap] = Unknown] ELSE csw

\* DebugPort._handle_error, which MEM_AP's calls again.
Recovery(step, error) ==
    IF error = "NOACK" THEN << >>
    ELSE [i \in 1 .. Cardinality(step.handlers) |->
              Access(IF error = "FAULT" THEN "CLEAR" ELSE "DAPABORT", Now.reg)]

\* Where it comes out: in an access to memory that MEM_AP handles, in another
\* register access, or in a call that accesses nothing.
Where(step) ==
    IF step.reg = "CSW" \/ "ap" \in step.handlers THEN "memory"
    ELSE IF step.reg \in Waits \ {"result"} THEN step.reg
    ELSE "register"

\* Faulty: reads that were thrown away are never told.
ForgetReads(kept) == reads

\* Reads that were not answered fail, and of the answered ones those in the
\* packet of the refused access.  Only those with a callback are heard of again.
FailReads(kept) ==
    [n \in DOMAIN reads |->
        IF reads[n] = "pending" \/ (reads[n] = "answered" /\ n \notin kept)
        THEN IF \E c \in held : c.id = n THEN "lost" ELSE "none"
        ELSE reads[n]]

Raise ==
    /\ todo # << >> /\ linkError # "none"
    /\ ~CswCached
    /\ EndCall
    /\ linkError' = "none"
    /\ queue' = Recovery(Now, linkError)
    /\ \E kept \in SUBSET {n \in DOMAIN reads : reads[n] = "answered"} :
           reads' = FailReads(kept)
    /\ dpSelect' = SelectAfter(Now)
    /\ csw' = CswAfter(Now)
    /\ surfaced' = surfaced \cup {[where |-> Where(Now), ap |-> call.ap, error |-> linkError]}
    /\ UNCHANGED <<calls, held, target, bounds>>

-----------------------------------------------------------------------------
(* The target (external) *)

Exempt(access) == access.reg \in {"CTRL/STAT", "CLEAR", "DAPABORT"}

\* An access goes to the access port and the bank selected, whoever was meant.
Execute ==
    /\ queue # << >>
    /\ LET access == Head(queue)
           hits(ap, reg) == access.reg = reg /\ hwSelect = SelectFor(ap, reg)
       IN  /\ sticky => Exempt(access)
           /\ hwSelect' = IF access.reg = "SELECT" THEN access.select ELSE hwSelect
           /\ hwCsw' = [a \in APs |-> IF hits(a, "CSW") THEN access.size ELSE hwCsw[a]]
           /\ hwTar' = [a \in APs |-> IF hits(a, "TAR") THEN access.id ELSE hwTar[a]]
           /\ sticky' = (sticky /\ access.reg # "CLEAR")
           /\ reads' = [n \in DOMAIN reads |->
                           IF n = access.id /\ access.reg \in {"DRW", "IDR", "CTRL/STAT"}
                              /\ reads[n] = "pending" /\ linkError = "none"
                           THEN "answered" ELSE reads[n]]
    /\ queue' = Tail(queue)
    /\ UNCHANGED <<caller, caches, linkError, bounds, surfaced>>

\* A refused access ends its packet: the probe skips the rest of it.
Refuse(error) ==
    /\ queue # << >>
    /\ \/ sticky /\ ~Exempt(Head(queue)) /\ error = "FAULT" /\ UNCHANGED refused
       \/ ~sticky /\ refused < MaxRefused /\ error \in Failures
          /\ (error = "FAULT" => ~Exempt(Head(queue)))
          /\ refused' = refused + 1
    /\ sticky' = (sticky \/ error = "FAULT")
    /\ linkError' = IF linkError = "none" THEN error ELSE linkError
    /\ \E n \in 1 .. Len(queue) : queue' = SubSeq(queue, n + 1, Len(queue))
    /\ UNCHANGED <<caller, caches, reads, hwSelect, hwCsw, hwTar, resets, surfaced>>

-----------------------------------------------------------------------------
StartCall ==
    \/ \E ap \in APs, size \in Sizes : WriteMemory(ap, size)
    \/ \E ap \in APs, size \in Sizes, now \in BOOLEAN : ReadMemory(ap, size, now)
    \/ \E ap \in APs : WriteBlock32(ap) \/ ReadBlock32(ap) \/ ReadIDR(ap)
    \/ ReadDP
    \/ \E c \in held : Callback(c)
    \/ \E reg \in {"flush", "set_clock"} : FlushLink(reg)
    \/ \E reg \in {"reset", "link reset"} : Reset(reg)

ContinueCall ==
    \/ SkipCsw \/ WriteSelect \/ Issue \/ GetResult \/ ResultLost
    \/ FlushDone \/ ResetDone \/ Raise

Target == Execute \/ \E error \in {"FAULT", "WAIT", "NOACK"} : Refuse(error)

Next == StartCall \/ ContinueCall \/ Target

Spec == Init /\ [][Next]_vars

\* The thread in a call goes on and the target executes what it is sent.
FairSpec == Spec /\ WF_vars(ContinueCall) /\ WF_vars(Target)

-----------------------------------------------------------------------------
(* Properties *)

TypeOK ==
    /\ todo \in Seq(Steps)
    /\ call \in Calls /\ calls \in Nat /\ held \subseteq Calls
    /\ dpSelect \in (APs \X {0, 15}) \cup {NoSelect}
    /\ csw \in [APs -> Sizes \cup {Unknown}]
    /\ queue \in Seq(Accesses)
    /\ linkError \in {"none", "FAULT", "WAIT", "NOACK"}
    /\ reads \in [1 .. MaxCalls -> {"none", "pending", "answered", "lost"}]
    /\ hwSelect \in (APs \X {0, 15}) \cup {NoSelect}
    /\ hwCsw \in [APs -> Sizes \cup {Unknown}] /\ hwTar \in [APs -> Nat]
    /\ sticky \in BOOLEAN /\ refused \in Nat /\ resets \in Nat

\* An access the target is about to execute, with no error on its way that the
\* code could not know of yet.  (Behind a WAIT the packets in flight still run.)
Lands(reg) ==
    queue # << >> /\ Head(queue).reg = reg /\ ~sticky /\ linkError \in {"none", "FAULT"}

\* An access goes to the access port and the bank it was meant for, whatever
\* failed before and wherever that was noticed, unless it was in flush,
\* set_clock or the like, which do not touch the cache of SELECT.
BankRight ==
    \A reg \in APRegs :
        Lands(reg) /\ (\A e \in surfaced : e.where \notin {"flush", "set_clock"}) =>
            hwSelect = Head(queue).select

\* Data is transferred in the size and at the address asked for, as long as every
\* error came out in an access to memory on the same access port, and the
\* probe was not reset past DebugPort.
SizeRight ==
    Lands("DRW") /\ (\A e \in surfaced : e.where = "memory" /\ e.ap = Head(queue).ap) =>
        /\ hwCsw[Head(queue).ap] = Head(queue).size
        /\ hwTar[Head(queue).ap] = Head(queue).id

\* After a fault, the first thing the target is sent clears its sticky error,
\* unless the fault came out where nobody handles it.
FaultCleared ==
    sticky /\ linkError = "none"
      /\ (\A e \in surfaced : e.error = "FAULT" /\ e.where \notin {"set_clock", "reset", "link reset"})
    => queue # << >> /\ Head(queue).reg = "CLEAR"

\* Every call ends, with a result or an exception, also one that asks for a read
\* that was thrown away in another call.
CallsEnd == todo # << >> ~> todo = << >>

\* What skipping the write of an unchanged SELECT relies on (write_dp's comment):
\* the register holds the value, so that every access lands where it was meant.
SelectSkipped ==
    \A reg \in APRegs : Lands(reg) => hwSelect = Head(queue).select
=============================================================================
