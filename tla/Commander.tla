------------------------------ MODULE Commander ------------------------------
(***************************************************************************)
(* The command line DAPCmdr (DAPCmdr.py, on ptkcmd.py): it connects to one *)
(* of the links of XLink, and runs commands, each of which begins by       *)
(* reading the type of the core to see whether the link still works.       *)
(***************************************************************************)
EXTENDS XLink

VARIABLES
    mode,    \* DAPCmdr.mode
    stored   \* the mode in setting.ini

settings == <<mode, stored>>
vars == <<xlinkVars, settings>>

Modes == {"arm", "rv"}   \* armj and rvj differ by the pins only

Init ==
    /\ chip \in Chips /\ core = "running" /\ catch = FALSE
    /\ xlk = "none" /\ linkMode = "none" /\ alive = FALSE /\ late = << >>
    /\ todo = << >> /\ wasHalted = FALSE /\ block = NoBlock /\ faults = 0
    /\ mixed = FALSE /\ ran = FALSE /\ owed = "none"
    /\ stored \in Modes /\ mode = stored

-----------------------------------------------------------------------------
(* Connection *)

\* An empty line connects, or opens the link anew.
Emptyline ==
    /\ todo = << >>
    /\ todo' = IF xlk = "none" THEN << "find" >> ELSE << "close", "open", "body" >>
    /\ ran' = (core = "running") /\ owed' = core
    /\ UNCHANGED <<target, link, wasHalted, block, faults, mixed, settings>>

Find ==
    /\ At("find")
    /\ \/ todo' = << "open_probe", "init_dp", "use_daplink", "body" >> /\ mode' = "arm"
       \/ todo' = << "use_jlink", "body" >> /\ UNCHANGED mode
       \/ chip = "rv" /\ todo' = << "use_openocd", "body" >> /\ mode' = "rv"
    /\ UNCHANGED <<target, link, wasHalted, block, faults, mixed, ran, owed, stored>>

OpenProbe ==
    /\ At("open_probe") /\ todo' = Tail(todo)
    /\ UNCHANGED <<target, link, wasHalted, block, faults, mixed, ran, owed, settings>>

\* init and power_up_debug of the DebugPort.
InitDebugPort ==
    /\ At("init_dp") /\ chip = "arm"
    /\ todo' = Tail(todo)
    /\ alive' = TRUE
    /\ UNCHANGED <<target, xlk, linkMode, late, wasHalted, block, faults, mixed, ran, owed, settings>>

Use(l, m) ==
    /\ xlk' = l /\ linkMode' = m
    /\ alive' = (l # "daplink" \/ alive)
    /\ late' = << >> /\ mixed' = FALSE
    /\ todo' = CoreType(l, m) \o Tail(todo)
    /\ UNCHANGED <<target, wasHalted, block, faults, ran, owed, settings>>

UseDapLink == At("use_daplink") /\ Use("daplink", "arm")
UseJLink == At("use_jlink") /\ Use("jlink", mode)
UseOpenOcd == At("use_openocd") /\ Use("openocd", "rv")

Close ==
    /\ At("close") /\ todo' = Tail(todo)
    /\ late' = << >> /\ mixed' = FALSE
    /\ UNCHANGED <<target, xlk, linkMode, alive, wasHalted, block, faults, ran, owed, settings>>

\* XLink.open: a DAPLink is opened as a USB device only.
Open ==
    At("open") /\ Use(xlk, IF xlk = "daplink" THEN "arm" ELSE mode)

\* No link is found, or one does not open.
ConnectionFails ==
    /\ At("find") \/ At("open_probe") \/ At("init_dp") \/ At("use_jlink") \/ At("close") \/ At("open")
    /\ Over /\ Drop /\ owed' = "none"
    /\ UNCHANGED <<target, settings>>

\* The link in use keeps its mode until it is opened anew.
do_mode ==
    /\ todo = << >>
    /\ mode' \in Modes /\ stored' = mode'
    /\ UNCHANGED xlinkVars

\* Every setting is saved, a mode that a connection chose too.
saveSetting == stored' = mode

do_speed == todo = << >> /\ saveSetting /\ UNCHANGED <<xlinkVars, mode>>

\* Which library and which files are used is not modelled.
do_path == todo = << >> /\ saveSetting /\ UNCHANGED <<xlinkVars, mode>>

-----------------------------------------------------------------------------
(* Commands.  Without a link they tell so and end. *)

Command(told, body) ==
    /\ todo = << >> /\ xlk # "none"
    /\ todo' = read_core_type \o << "body" >> \o body
    /\ ran' = (core = "running") /\ owed' = told
    /\ UNCHANGED <<target, link, wasHalted, faults, mixed, settings>>

Plain(told, body) == Command(told, body) /\ UNCHANGED block

do_rd == \E count \in Counts : Command(core, read_mem \o << "print" >>) /\ block' = BlockOf(count)
do_wr == Plain(core, write_U32)

\* A variable of eight bytes is read at once and written in halves.
do_rdv == \E n \in {1, 2} : Command(core, read_mem \o << "print" >>) /\ block' = BlockOf(n)
do_wrv == \E wide \in BOOLEAN : Plain(core, IF wide THEN write_U32 \o write_U32 ELSE write_U32)

do_loadbin == \E count \in Counts : Command(core, write_mem \o << "print" >>) /\ block' = BlockOf(count)
do_savebin == do_rd

\* A field is read and written back with its register.
do_sv == do_rd \/ do_wr \/ Plain(core, read_U32 \o write_U32)

\* The registers are named by the mode set last, which may not be the link's.
RegsSteps == << "is_halted", IF mode = linkMode THEN "read_registers" ELSE "fail" >>

\* The four fault registers.
diagnosis == read_U32 \o read_U32 \o read_U32 \o read_U32

\* In a fault handler the type of the core and the stack are read too.
Diagnosis == read_core_type \o diagnosis \o read_U32

Regs == {RegsSteps} \cup (IF linkMode = "arm" THEN {RegsSteps \o Diagnosis} ELSE {})

do_regs == \E regs \in Regs : Plain(core, regs)

do_reg == Plain(core, << "is_halted", "read_registers" >>)
do_wreg == Plain(core, << "is_halted", "write_register" >>)

\* A command that ends with do_regs, which has a check of its own.
ThenRegs(told, body) ==
    \E regs \in Regs : Plain(told, body \o << "check" >> \o read_core_type \o << "body" >> \o regs)

do_reset ==
    \/ Plain(IF catch \/ (xlk = "jlink" /\ linkMode = "arm") THEN "none" ELSE "running", reset)
    \/ ThenRegs(IF xlk = "jlink" /\ linkMode = "rv" THEN "none" ELSE "halted", reset_and_halt)

do_halt == ThenRegs("halted", << "halt" >>)
do_step == \E steps \in {<< "step" >>, << "step", "step" >>} : ThenRegs(core, steps)
do_go == Plain("running", << "go" >>)
do_dis == Plain(core, << >>)
ArgumentError == Plain(core, << "fail" >>)

Commands ==
    \/ do_rd \/ do_wr \/ do_rdv \/ do_wrv \/ do_loadbin \/ do_savebin \/ do_sv
    \/ do_regs \/ do_reg \/ do_wreg \/ do_reset \/ do_halt \/ do_step \/ do_go \/ do_dis \/ ArgumentError

(* do_exit, or an exception that leaves the loop of commands, as Ctrl-C in *)
(* the middle of a command.  The next start reads the file of settings.    *)
Leave ==
    /\ Over /\ Drop /\ owed' = "none"
    /\ mode' = stored
    /\ UNCHANGED <<target, stored>>

do_exit == todo = << >> /\ Leave
Interrupt == todo # << >> /\ Leave

-----------------------------------------------------------------------------
Advance ==
    \/ Find \/ OpenProbe \/ InitDebugPort \/ UseDapLink \/ UseJLink \/ UseOpenOcd \/ Close \/ Open \/ ConnectionFails
    \/ (LinkStep \/ DapLinkFault) /\ UNCHANGED settings

Next ==
    \/ Emptyline \/ do_mode \/ do_speed \/ do_path \/ Commands \/ do_exit \/ Interrupt
    \/ Advance
    \/ (OpenOcdTimeout \/ Breakpoint \/ PowerCycle) /\ UNCHANGED settings

\* A command goes on.
Spec == Init /\ [][Next]_vars /\ WF_vars(Advance)

-----------------------------------------------------------------------------
(* Properties *)

TypeOK ==
    /\ chip \in Chips /\ core \in {"running", "halted"} /\ catch \in BOOLEAN
    /\ xlk \in {"none", "daplink", "jlink", "openocd"} /\ linkMode \in Modes \cup {"none"}
    /\ (xlk = "none") = (linkMode = "none") /\ {alive, wasHalted, mixed, ran} \subseteq BOOLEAN
    /\ late \in Seq({"running", "halted", "value", "data", "none"}) /\ Len(late) <= MaxLate
    /\ todo \in Seq(Steps) /\ faults \in 0 .. MaxFaults
    /\ block.moved # << >> => Len(block.moved) < block.asked + Chunk
    /\ owed \in {"running", "halted", "none"} /\ {mode, stored} \subseteq Modes

(* A command lets a halted core run only where it was told to, with go or  *)
(* reset, or where the core ran when the command began: looking at memory, *)
(* and the check before a command, leave a halted core halted.  It is not  *)
(* so once an answer of OpenOCD was taken for another's.                   *)
StaysHalted ==
    [][core = "halted" /\ core' = "running" /\ todo # << >> /\ todo' # todo
         => Head(todo) \in {"go", "reset"} \/ ran \/ mixed \/ mixed']_vars

(* After a command of which no access failed the core does what it did     *)
(* before, or what the command is for, unless it stopped by itself or lost *)
(* its power.                                                              *)
AsTold == todo = << >> /\ owed # "none" => core = owed

(* When the items of a block access are printed, saved or loaded, they are *)
(* those of its address range, in order, and all of them if no access      *)
(* failed.                                                                 *)
BlockComplete ==
    At("print") =>
        /\ \A i \in DOMAIN block.moved : block.moved[i] = [addr |-> i - 1, item |-> i - 1]
        /\ faults = 0 /\ ~mixed => Len(block.moved) >= block.asked

\* Every command comes to its end, the wait for the halt after a reset included.
CommandsEnd == todo # << >> ~> todo = << >>

=============================================================================
