--------------------------- MODULE CoreRunControl ---------------------------
(***************************************************************************)
(* Run control of a Cortex-M core: class CortexM (cortex_m.py), and the    *)
(* reset of XLink that stops on the reset handler (xlink.py).              *)
(*                                                                         *)
(* A call is a list of steps, each an access to a debug register or a      *)
(* local step between two, and the core runs, sleeps, locks up, halts or   *)
(* leaves reset between any two.  An access may fail: most calls then      *)
(* raise and leave undone what their other steps would do or restore.      *)
(*                                                                         *)
(* Some registers of the core are parts of another: CONTROL, FAULTMASK and *)
(* PRIMASK are bytes of CFBP, APSR and IPSR bits of XPSR.  A value of a    *)
(* register is a function on its parts.                                    *)
(***************************************************************************)
EXTENDS Integers, Sequences, SequencesExt

CONSTANTS
    ResetTypes,         \* what callers pass to reset, of Target.ResetType
    SupportsVectreset,  \* CortexM._supports_vectreset
    MaxToken,           \* bound: how often the calls let the core run
    MaxFaults           \* bound: accesses that fail during one call

ASSUME RunAssumption ==
    /\ ResetTypes \subseteq {"HW", "SW", "SW_SYSRESETREQ", "SW_VECTRESET", "SW_EMULATED"}
    /\ SupportsVectreset \in BOOLEAN
    /\ MaxToken \in Nat /\ MaxFaults \in Nat

VARIABLES
    todo,      \* the steps left of the call in progress
    seen,      \* what get_state told the call in progress, "none" when used
    saved,     \* the DEMCR that the call in progress read
    token,     \* CortexM._run_token
    core,      \* the core: "running", "halted", "sleeping", "lockup" or "reset"
    ctl,       \* the control bits of DHCSR that are set
    sticky,    \* S_RESET_ST and S_RETIRE_ST of DHCSR, where set
    demcr,     \* the bits of DEMCR that are set
    regs,      \* the parts of the core's registers
    faults,    \* accesses that failed since the call began
    fresh,     \* history: no instruction was executed since the last reset
    executed,  \* history: instructions since a step of a halted core began, 2 for more,
               \*   -1 for a step of a core that was told to halt but had not
    untold     \* history: an instruction was stepped that no new token tells of

caller == <<todo, seen, saved, token>>
chip == <<core, ctl, sticky, demcr, regs, fresh, executed>>
runVars == <<caller, chip, faults, untold>>

Bits == {0, 1}
Parts == {"r0", "control", "faultmask", "primask", "apsr", "ipsr"}
Catches == {"VC_CORERESET"}   \* the other vector catches halt the core as breakpoints do

RunInit ==
    /\ todo = << >> /\ seen = "none" /\ saved = {} /\ token = 0
    /\ core = "running" /\ ctl = {} /\ sticky = {} /\ demcr = {"TRCENA"}
    /\ regs = [p \in Parts |-> 0]
    /\ faults = 0 /\ fresh = FALSE /\ executed = 0 /\ untold = FALSE

-----------------------------------------------------------------------------
(* Registers *)

Families == [cfbp |-> {"control", "faultmask", "primask"}, xpsr |-> {"apsr", "ipsr"}]
Registers == Parts \cup DOMAIN Families

PartsOf(reg) == IF reg \in DOMAIN Families THEN Families[reg] ELSE {reg}

\* The register that a transfer names in DCRSR: the whole one for a part.
Whole(reg) ==
    IF \E w \in DOMAIN Families : reg \in Families[w]
    THEN CHOOSE w \in DOMAIN Families : reg \in Families[w] ELSE reg

IsPart(reg) == Whole(reg) # reg
Value(reg) == [p \in PartsOf(reg) |-> regs[p]]

(* write_core_registers_raw.  The first part of a family makes it read the *)
(* whole register and takes no other branch: that write is not in the list *)
(* of writes.  Later parts are masked into the value read at the start, as *)
(* the writes of parts before them left it.                                *)
IsWritten(list, i) ==
    IsPart(list[i].reg) => \E j \in 1 .. i - 1 : IsPart(list[j].reg) /\ Whole(list[j].reg) = Whole(list[i].reg)

\* The writes that transfer p, and those of them that are of p itself.
Carrying(list, p) == {i \in DOMAIN list : IsWritten(list, i) /\ p \in PartsOf(Whole(list[i].reg))}
Naming(list, p) == {i \in Carrying(list, p) : list[i].reg = p}

\* Faulty: the other parts of the register are written as zero.
MaskedIntoZero(list, p) == IF Naming(list, p) = {} THEN 0 ELSE list[Max(Naming(list, p))].value[p]

\* What the write of one part carries for p, another part of the register.
MaskedIn(list, p) == IF Naming(list, p) = {} THEN regs[p] ELSE list[Max(Naming(list, p))].value[p]

\* The last transfer of a part tells what it holds.
PartAfter(list, p) ==
    LET last == list[Max(Carrying(list, p))]
    IN  IF Carrying(list, p) = {} THEN regs[p]
        ELSE IF p \in DOMAIN last.value THEN last.value[p]
        ELSE MaskedIn(list, p)

RegistersAfter(list) == [p \in Parts |-> PartAfter(list, p)]

-----------------------------------------------------------------------------
(* The calls, as lists of steps *)

HaltSteps == << "halt", "flush" >>

ResumeSteps == << "state", "resume", "clear_dfsr", "run", "flush" >>

\* Faulty: the step is taken for done without a look at C_HALT.
StepStepsUnawaited(disable) ==
    << "clear_dfsr", IF disable THEN "step_masked" ELSE "step", "flush", "stepped" >>

\* The steps of step once DHCSR was read: interrupts are masked unless they were.
StepSteps(disable) ==
    LET mask == disable /\ "MASKINTS" \notin ctl
    IN  << "clear_dfsr" >>
        \o (IF mask THEN << "halt_masked" >> ELSE << >>)
        \o << IF disable \/ "MASKINTS" \in ctl THEN "step_masked" ELSE "step", "await_step" >>
        \o (IF mask THEN << "halt" >> ELSE << >>)
        \o << "flush", "stepped" >>

ActualResetType(type) ==
    IF type = "SW" THEN "SW_SYSRESETREQ"
    ELSE IF type = "SW_VECTRESET" /\ ~SupportsVectreset THEN "SW_EMULATED"
    ELSE type

PerformResetSteps(type) ==
    CASE type = "HW" -> << "pin_reset" >>
      [] type = "SW_EMULATED" -> HaltSteps \o << "reset_registers", "reset_system" >>
      [] OTHER -> << "request_reset", "flush_request" >>

ResetSteps(type) == << "count" >> \o PerformResetSteps(ActualResetType(type)) \o << "await_out" >>

\* Faulty: the vector catch is not enabled.
CatchStepsWithoutCatch == HaltSteps \o << "read_demcr" >>

CatchSteps == HaltSteps \o << "read_demcr", "catch" >>

ResetAndHaltSteps(type) ==
    CatchSteps \o ResetSteps(type) \o << "state", "await_catch", "set_thumb", "restore_demcr" >>

\* XLink.reset_and_halt: resetStopOnReset, whose wait for the halt has no limit.
ResetStopSteps ==
    CatchSteps \o ResetSteps("SW") \o << "wait_out", "state", "await_halted", "restore_demcr", "write_xpsr" >>

\* init: the core type and the FPU, for which CPACR is changed and put back.
IdentifySteps == << "read_cpuid", "read_cpacr", "enable_fpu", "test_fpu", "restore_cpacr" >>

DisconnectSteps(resume) ==
    << "debug_blocks_off" >> \o IF resume THEN ResumeSteps \o << "debug_off" >> ELSE << >>

Begin(steps) ==
    /\ todo = << >>
    /\ todo' = steps
    /\ faults' = 0
    /\ UNCHANGED <<seen, saved, token, chip, untold>>

BeginRun(steps) == token < MaxToken /\ Begin(steps)

Identify == Begin(IdentifySteps)
Halt == Begin(HaltSteps)
GetState == Begin(<< "state" >>)
SetVectorCatch == Begin(<< "read_demcr", "set_catches" >>)
Step == \E disable \in BOOLEAN : BeginRun(<< IF disable THEN "look" ELSE "look_interrupts_on" >>)
Resume == BeginRun(ResumeSteps)
Reset == \E type \in ResetTypes : BeginRun(ResetSteps(type))
ResetAndHalt == \E type \in ResetTypes : BeginRun(ResetAndHaltSteps(type))
ResetStopOnReset == BeginRun(ResetStopSteps)
Disconnect == \E resume \in BOOLEAN : BeginRun(DisconnectSteps(resume))

RunCall ==
    \/ Identify \/ Halt \/ GetState \/ SetVectorCatch \/ Step \/ Resume
    \/ Reset \/ ResetAndHalt \/ ResetStopOnReset \/ Disconnect

-----------------------------------------------------------------------------
(* The steps.  The core obeys a request to halt before the next access     *)
(* ("we're running so slow compared to the target").                       *)

At(step) == todo # << >> /\ Head(todo) = step
AtOneOf(steps) == todo # << >> /\ Head(todo) \in steps
Settled == "HALT" \in ctl => core \in {"halted", "reset"}
Done == todo' = Tail(todo)
Abort == todo' = << >>
Reads == Settled /\ sticky' = IF core = "reset" THEN {"RESET"} ELSE {}   \* reading DHCSR clears them

\* The bits of DHCSR that each of its writes leaves set.
ControlBits ==
    [step \in {"halt", "halt_masked", "step", "step_masked", "run", "debug_off"} |->
        (IF step = "debug_off" THEN {} ELSE {"DEBUGEN"})
        \cup (IF step \in {"halt", "halt_masked"} THEN {"HALT"} ELSE {})
        \cup (IF step \in {"step", "step_masked"} THEN {"STEP"} ELSE {})
        \cup (IF step \in {"halt_masked", "step_masked"} THEN {"MASKINTS"} ELSE {})]

WriteControl ==
    /\ AtOneOf(DOMAIN ControlBits) /\ Settled /\ Done
    /\ ctl' = ControlBits[Head(todo)]
    /\ core' = IF core = "halted" /\ "HALT" \notin ctl' THEN "running" ELSE core
    /\ untold' = (untold \/ "STEP" \in ctl')
    /\ UNCHANGED <<seen, saved, token, sticky, demcr, regs, faults, fresh, executed>>

\* An access whose effect no property looks at.
OtherAccess ==
    /\ AtOneOf({"flush", "flush_request", "clear_dfsr", "reset_system"} \cup ToSet(IdentifySteps)) /\ Settled /\ Done
    /\ UNCHANGED <<seen, saved, token, chip, faults, untold>>

\* The first read of step: the target must have been told to halt.  A step that
\* an earlier call began and did not wait for is over.
Look ==
    /\ AtOneOf({"look", "look_interrupts_on"}) /\ Reads
    /\ "STEP" \in ctl => core # "running"
    /\ todo' = IF {"HALT", "STEP"} \cap ctl # {} THEN StepSteps(At("look")) ELSE << >>
    /\ executed' = IF core = "halted" THEN 0 ELSE -1
    /\ UNCHANGED <<seen, saved, token, core, ctl, demcr, regs, faults, fresh, untold>>

AwaitStep ==
    /\ At("await_step") /\ Reads /\ "HALT" \in ctl /\ Done
    /\ UNCHANGED <<seen, saved, token, core, ctl, demcr, regs, faults, fresh, executed, untold>>

\* get_state.  S_RESET_ST is sticky: where it is set DHCSR is read again.
ReadState ==
    /\ At("state") /\ Reads
    /\ seen' = IF Len(todo) = 1 THEN "none" ELSE IF core = "reset" THEN "running" ELSE core
    /\ IF "RESET" \in sticky THEN todo' = << "state_again" >> \o Tail(todo) ELSE Done
    /\ UNCHANGED <<saved, token, core, ctl, demcr, regs, faults, fresh, executed, untold>>

ReadStateAgain ==
    /\ At("state_again") /\ Reads /\ Done
    /\ seen' = IF Len(todo) = 1 THEN "none" ELSE IF "RESET" \in sticky /\ "RETIRE" \notin sticky THEN "reset" ELSE seen
    /\ UNCHANGED <<saved, token, core, ctl, demcr, regs, faults, fresh, executed, untold>>

ReadDemcr ==
    /\ At("read_demcr") /\ Settled /\ Done
    /\ saved' = demcr
    /\ UNCHANGED <<seen, token, chip, faults, untold>>

WriteDemcr(step, bits) ==
    /\ At(step) /\ Settled /\ Done
    /\ demcr' = bits
    /\ saved' = IF step = "catch" THEN saved ELSE {}
    /\ UNCHANGED <<seen, token, core, ctl, sticky, regs, faults, fresh, executed, untold>>

WriteCatches ==
    \/ WriteDemcr("catch", saved \cup {"VC_CORERESET"})
    \/ WriteDemcr("restore_demcr", saved)
    \/ WriteDemcr("debug_blocks_off", {})
    \/ \E catches \in SUBSET Catches : WriteDemcr("set_catches", (saved \ Catches) \cup catches)

\* A new token: before a reset or a resume, after a step.
NewToken ==
    /\ AtOneOf({"count", "stepped"}) /\ Done
    /\ token' = token + 1 /\ untold' = FALSE
    /\ executed' = 0
    /\ UNCHANGED <<seen, saved, core, ctl, sticky, demcr, regs, faults, fresh>>

\* resume: a target that is not halted is left alone.
DecideResume ==
    /\ At("resume")
    /\ IF seen = "halted" THEN token' = token + 1 /\ untold' = FALSE /\ Done
       ELSE todo' = SubSeq(todo, 5, Len(todo)) /\ UNCHANGED <<token, untold>>
    /\ seen' = "none"
    /\ UNCHANGED <<saved, chip, faults>>

EnterReset ==
    /\ core' = "reset"
    /\ ctl' = ctl \ {"HALT", "STEP", "MASKINTS"}
    /\ sticky' = {"RESET"}
    /\ fresh' = TRUE

RequestReset ==
    /\ AtOneOf({"pin_reset", "request_reset"}) /\ Settled /\ Done
    /\ EnterReset
    /\ UNCHANGED <<seen, saved, token, demcr, regs, faults, executed, untold>>

\* A transfer of core registers, where S_REGRDY tells that the core is halted.
ResetRegisters ==
    /\ At("reset_registers") /\ Settled
    /\ IF core = "halted" THEN Done /\ regs' = [p \in Parts |-> 0] /\ fresh' = TRUE
       ELSE Abort /\ UNCHANGED <<regs, fresh>>
    /\ UNCHANGED <<seen, saved, token, core, ctl, sticky, demcr, faults, executed, untold>>

SetThumb ==
    /\ AtOneOf({"set_thumb", "write_xpsr"}) /\ Settled
    /\ IF core = "halted" THEN Done ELSE Abort
    /\ regs' = IF core = "halted" /\ At("write_xpsr") THEN [p \in Parts |-> IF p \in Families.xpsr THEN 0 ELSE regs[p]] ELSE regs
    /\ UNCHANGED <<seen, saved, token, core, ctl, sticky, demcr, faults, fresh, executed, untold>>

\* reset, and waitReset of XLink: until DHCSR is read with S_RESET_ST clear.
AwaitOut ==
    /\ AtOneOf({"await_out", "wait_out"}) /\ Reads
    /\ IF "RESET" \in sticky THEN UNCHANGED todo ELSE Done
    /\ UNCHANGED <<seen, saved, token, core, ctl, demcr, regs, faults, fresh, executed, untold>>

AwaitCaught ==
    /\ AtOneOf({"await_catch", "await_halted"})
    /\ LET going == IF At("await_catch") THEN {"reset", "running"} ELSE {"reset", "running", "sleeping", "lockup"}
       IN  IF seen \in going THEN todo' = << "state" >> \o todo ELSE Done
    /\ seen' = "none"
    /\ UNCHANGED <<saved, token, chip, faults, untold>>

\* The limit of two seconds is up, in a reset that lasts.
GiveUp ==
    /\ AtOneOf({"await_out", "wait_out", "await_catch"})
    /\ core = "reset"
    /\ Done
    /\ UNCHANGED <<seen, saved, token, chip, faults, untold>>

Local == {"count", "stepped", "resume", "await_catch", "await_halted"}

(* An access fails.  reset expects it of its request, after which the      *)
(* reset may be under way or not, and of the reads that wait for its end.  *)
Fault ==
    /\ todo # << >> /\ Head(todo) \notin Local
    /\ faults < MaxFaults
    /\ todo' = CASE At("request_reset") -> << "flush" >> \o SubSeq(todo, 3, Len(todo))
                 [] At("flush_request") -> << "flush" >> \o Tail(todo)
                 [] At("await_out") -> << "flush" >> \o todo
                 [] At("wait_out") -> todo
                 [] OTHER -> << >>
    /\ faults' = IF todo' = << >> THEN 0 ELSE faults + 1
    /\ \/ UNCHANGED chip
       \/ At("request_reset") /\ EnterReset /\ UNCHANGED <<demcr, regs, executed>>
    /\ IF todo' = << >> THEN seen' = "none" /\ saved' = {} ELSE UNCHANGED <<seen, saved>>
    /\ UNCHANGED <<token, untold>>

CallStep ==
    \/ WriteControl \/ OtherAccess \/ Look \/ AwaitStep \/ ReadState \/ ReadStateAgain
    \/ ReadDemcr \/ WriteCatches \/ NewToken \/ DecideResume \/ RequestReset
    \/ ResetRegisters \/ SetThumb \/ AwaitOut \/ AwaitCaught

-----------------------------------------------------------------------------
(* The core *)

Halts ==
    /\ "HALT" \in ctl /\ core \in {"running", "sleeping", "lockup"}
    /\ core' = "halted"
    /\ UNCHANGED <<caller, ctl, sticky, demcr, regs, faults, fresh, executed, untold>>

\* An instruction that changes every register, after which the core goes on, is at a
\* breakpoint, sleeps or is locked up.
Execute ==
    /\ core = "running" /\ "HALT" \notin ctl
    /\ regs' = [p \in Parts |-> 1 - regs["r0"]]
    /\ sticky' = IF sticky = {} THEN {} ELSE {"RESET", "RETIRE"}   \* read only beside S_RESET_ST
    /\ fresh' = FALSE
    /\ executed' = IF executed \in {0, 1} /\ "STEP" \in ctl THEN executed + 1 ELSE executed
    /\ \/ "STEP" \in ctl /\ core' = "halted" /\ ctl' = ctl \cup {"HALT"}
       \/ "STEP" \notin ctl /\ core' \in {"running", "sleeping", "lockup"} /\ UNCHANGED ctl
       \/ {"DEBUGEN", "STEP"} \cap ctl = {"DEBUGEN"} /\ core' = "halted" /\ ctl' = ctl \cup {"HALT"}
    /\ UNCHANGED <<caller, demcr, faults, untold>>

Wake ==
    /\ core = "sleeping" /\ core' = "running"
    /\ UNCHANGED <<caller, ctl, sticky, demcr, regs, faults, fresh, executed, untold>>

\* The end of a reset: vector catch halts the core where debug is enabled.
ResetEnds ==
    /\ core = "reset"
    /\ regs' = [p \in Parts |-> 0]
    /\ IF "VC_CORERESET" \in demcr /\ "DEBUGEN" \in ctl
       THEN core' = "halted" /\ ctl' = ctl \cup {"HALT"}
       ELSE core' = "running" /\ UNCHANGED ctl
    /\ UNCHANGED <<caller, sticky, demcr, faults, fresh, executed, untold>>

Core == Halts \/ Execute \/ Wake \/ ResetEnds

RunNext == RunCall \/ CallStep \/ GiveUp \/ Fault \/ Core

(* A call goes on, and the core ends its reset, halts when told to and     *)
(* executes the instruction it was told to step.                           *)
RunSpec ==
    /\ RunInit /\ [][RunNext]_runVars
    /\ WF_runVars(CallStep) /\ WF_runVars(Halts \/ ResetEnds) /\ WF_runVars(Execute /\ "STEP" \in ctl)

-----------------------------------------------------------------------------
(* Properties *)

Steps ==
    {"halt", "flush", "read_demcr", "catch", "count", "pin_reset", "request_reset", "flush_request",
     "reset_registers", "reset_system", "await_out", "wait_out", "state", "state_again", "await_catch",
     "await_halted", "set_thumb", "restore_demcr", "write_xpsr", "set_catches", "resume", "clear_dfsr",
     "run", "look", "look_interrupts_on", "halt_masked", "step_masked", "step", "await_step", "stepped",
     "read_cpuid", "read_cpacr", "enable_fpu", "test_fpu", "restore_cpacr", "debug_blocks_off", "debug_off"}

StateOK ==
    /\ seen \in {"none", "running", "halted", "sleeping", "lockup", "reset"}
    /\ core \in {"running", "halted", "sleeping", "lockup", "reset"}
    /\ ctl \subseteq {"DEBUGEN", "HALT", "STEP", "MASKINTS"} /\ sticky \subseteq {"RESET", "RETIRE"}
    /\ saved \subseteq Catches \cup {"TRCENA"} /\ demcr \subseteq Catches \cup {"TRCENA"}
    /\ regs \in [Parts -> Bits] /\ faults \in 0 .. MaxFaults /\ token \in 0 .. MaxToken
    /\ executed \in -1 .. 2 /\ fresh \in BOOLEAN /\ untold \in BOOLEAN

RunTypeOK == todo \in Seq(Steps) /\ StateOK

(* When a reset that stops on the reset handler has come to restore DEMCR, *)
(* with no access failed, the core is halted there and has executed        *)
(* nothing, whichever kind of reset it was and however long it took.       *)
ResetCaught ==
    At("restore_demcr") /\ faults = 0 => core = "halted" /\ fresh

(* A step of a halted core that returns executed one instruction, and left *)
(* the core halted.                                                        *)
StepOne ==
    [][At("stepped") /\ todo' # todo /\ executed # -1 => executed = 1 /\ core = "halted"]_runVars

(* Every call returns or raises: the loops that wait without a limit, for  *)
(* the step and for the halt after a reset, end too.                       *)
CallsEnd == todo # << >> ~> todo = << >>

=============================================================================
