-------------------------------- MODULE XLink --------------------------------
(***************************************************************************)
(* The front end XLink (xlink.py) of the three links to a target, and the  *)
(* two that are not pyOCD: the Tcl server of OpenOCD (openocd.py) and the  *)
(* J-Link library (jlink.py).                                              *)
(*                                                                         *)
(* An operation is a list of steps, each one access of the link or a local *)
(* step; the target runs, stops at breakpoints and loses its power between *)
(* any two.  The three links fail differently:                             *)
(*   - DAPLink raises;                                                     *)
(*   - J-Link does not tell: calls have no effect and their results are    *)
(*     zeros;                                                              *)
(*   - an error of OpenOCD is an answer like any other, which nobody looks *)
(*     at, and an answer that does not come in a second raises, but stays  *)
(*     on its way and is read as the answer to a later request.            *)
(***************************************************************************)
EXTENDS Integers, Sequences, SequencesExt

CONSTANTS
    Chips,      \* what the target may be: "arm", "rv"
    Chunk,      \* items moved by one request to OpenOCD, 128 in the code
    Counts,     \* how many items block accesses are asked for
    MaxLate,    \* bound: answers of OpenOCD on their way
    MaxFaults   \* bound: accesses that fail during one command

ASSUME XLinkAssumption ==
    /\ Chips \subseteq {"arm", "rv"} /\ Chips # {}
    /\ Chunk \in Nat \ {0} /\ Counts \subseteq Nat
    /\ MaxLate \in Nat /\ MaxFaults \in Nat

VARIABLES
    chip,      \* what the target is
    core,      \* "running" or "halted"
    catch,     \* VC_CORERESET of DEMCR: a reset halts the core
    xlk,       \* DAPCmdr.xlk: "none" or the link
    linkMode,  \* XLink.mode
    alive,     \* the target has had its power since the link was set up
    late,      \* answers of OpenOCD on their way
    todo,      \* the steps left of the command in progress
    wasHalted, \* what the core was found to be before an access that halts it
    block,     \* the loop of the block access in progress
    faults,    \* accesses that failed since the command began
    mixed,     \* history: an answer of this connection was taken for another's
    ran,       \* history: the core ran when the command began, or go, reset or power let it since
    owed       \* history: what the core is to do after the command, "none" for either

target == <<chip, core, catch>>
link == <<xlk, linkMode, alive, late>>
xlinkVars == <<target, link, todo, wasHalted, block, faults, mixed, ran, owed>>

NoBlock == [asked |-> 0, index |-> 0, addr |-> 0, moved |-> << >>]
BlockOf(count) == [NoBlock EXCEPT !.asked = count]

-----------------------------------------------------------------------------
(* The operations, as lists of steps *)

\* halt_required of openocd.py: the core is halted for the access, unless it was.
HaltRequired(l, steps) == IF l = "openocd" THEN << "look" >> \o steps \o << "go_back" >> ELSE steps

write_U32 == HaltRequired(xlk, << "write_word" >>)
read_U32 == HaltRequired(xlk, << "read_word" >>)
read_mem == HaltRequired(xlk, << "read" >>)
write_mem == HaltRequired(xlk, << "write" >>)

\* Faulty: the core is not let run again.
CoreTypeHalted(l, m) ==
    IF m = "arm" THEN HaltRequired(l, << "read_cpuid" >>) ELSE << "look", "read_misa" >>

\* read_core_type, of link l opened with mode m.
CoreType(l, m) ==
    IF m = "arm" THEN HaltRequired(l, << "read_cpuid" >>) ELSE << "look", "read_misa", "go_back" >>

read_core_type == CoreType(xlk, linkMode)

reset == IF linkMode = "arm" THEN << "reset" >> ELSE << "reset", "write_register", "write_register", "go" >>

\* Faulty: the vector catch is not enabled.
StopOnResetUncaught ==
    << "halt", "read_demcr", "reset", "wait_out", "await_halted", "restore_demcr", "write_register" >>

resetStopOnReset ==
    << "halt", "read_demcr", "catch", "reset", "wait_out", "await_halted", "restore_demcr", "write_register" >>

reset_and_halt ==
    CASE xlk = "openocd" -> << "reset_halt" >>
      [] xlk = "jlink" /\ linkMode = "rv" -> << "reset" >>
      [] OTHER -> resetStopOnReset

-----------------------------------------------------------------------------
(* What an access does, and what it answers *)

Asks == {"look", "is_halted", "await_halted"}
Registers == {"read_misa", "read_registers"}
Words == {"read_cpuid", "read_word", "read_demcr"}
Accesses ==
    Asks \cup Registers \cup Words
    \cup {"halt", "go_back", "go", "step", "reset", "reset_halt", "catch", "restore_demcr",
          "write_word", "write_register", "read", "write"}

\* The steps of connecting, and those that ask nothing of the link.
Connects == {"find", "open_probe", "init_dp", "use_daplink", "use_jlink", "use_openocd", "close", "open"}
Steps == Accesses \cup Connects \cup {"check", "body", "wait_out", "print", "fail"}

At(step) == todo # << >> /\ Head(todo) = step
Answer ==
    CASE Head(todo) \in Asks -> core
      [] Head(todo) \in Registers -> IF core = "halted" THEN "value" ELSE "none"
      [] At("read_cpuid") -> IF chip = "arm" THEN "data" ELSE "none"
      [] Head(todo) \in Words \cup {"read"} -> "data"
      [] OTHER -> "none"

\* A reset by J-Link may leave the core halted, that is up to its library.
AfterReset == IF catch THEN {"halted"} ELSE IF xlk = "jlink" THEN {"running", "halted"} ELSE {"running"}

Takes ==
    /\ core' \in CASE At("reset") -> AfterReset
                   [] At("halt") \/ At("reset_halt") -> {"halted"}
                   [] At("go") \/ At("go_back") -> {"running"}
                   [] OTHER -> {core}
    /\ catch' = CASE At("catch") -> TRUE [] At("restore_demcr") -> FALSE [] OTHER -> catch
    /\ UNCHANGED chip

\* What an access takes note of: the answer to `look` is kept until the core may run again.
Notes(reply) ==
    wasHalted' = \/ At("look") /\ "halted" \in ToSet(reply)
                 \/ wasHalted /\ ~At("look") /\ ~At("go_back")

(* Loops of openocd.py over the items.  A read asks for `count` items, or  *)
(* a chunk of them, every time.                                            *)
Moved(n) ==
    [i \in 1 .. n |-> [addr |-> block.addr + i - 1,
                       item |-> IF At("read") THEN Len(block.moved) + i - 1 ELSE block.index + i - 1]]

Lesser(a, b) == IF a < b THEN a ELSE b

\* Faulty: the address stays where it was.
NextChunkSameAddress ==
    LET n == IF At("read") THEN Lesser(Chunk, block.asked) ELSE Lesser(Chunk, block.asked - block.index)
    IN  [block EXCEPT !.index = @ + Chunk, !.moved = @ \o Moved(n)]

NextChunk ==
    LET n == IF At("read") THEN Lesser(Chunk, block.asked) ELSE Lesser(Chunk, block.asked - block.index)
    IN  [block EXCEPT !.addr = @ + Chunk, !.index = @ + Chunk, !.moved = @ \o Moved(n)]

WholeBlock == [block EXCEPT !.index = block.asked, !.moved = Moved(block.asked)]

\* Faulty: the loop goes on at the end of the items.
ItemsLeftAtEnd(b) == b.index <= b.asked

ItemsLeft(b) == b.index < b.asked

\* Whether the caller makes sense of a reply: the answers that one recv returned.
Understood(reply) ==
    CASE Head(todo) \in Registers -> Last(reply) = "value" /\ \A i \in 1 .. Len(reply) - 1 : reply[i] # "value"
      [] Head(todo) \in Words -> reply = << "data" >>
      [] At("read") -> reply \in {<< "data" >>, << "none" >>}
      [] OTHER -> TRUE

\* An operation goes on with a reply it understood.
Proceeds(reply) ==
    /\ block' = IF (At("read") /\ reply = << "data" >>) \/ At("write")
                THEN IF xlk = "openocd" THEN NextChunk ELSE WholeBlock
                ELSE block
    /\ Notes(reply)
    /\ todo' =
         CASE At("look") -> IF "halted" \in ToSet(reply) THEN Tail(todo) ELSE << "halt" >> \o Tail(todo)
           [] At("is_halted") -> IF "halted" \in ToSet(reply) THEN Tail(todo) ELSE << >>
           [] At("await_halted") -> IF "halted" \in ToSet(reply) THEN Tail(todo) ELSE todo
           [] At("read") -> IF reply = << "data" >> /\ ItemsLeft(block') THEN todo ELSE Tail(todo)
           [] At("write") -> IF ItemsLeft(block') THEN todo ELSE Tail(todo)
           [] At("read_demcr") ->   \* what is restored has the catch set where it was
                [i \in 1 .. Len(todo) - 1 |->
                    IF catch /\ todo[i + 1] = "restore_demcr" THEN "write_word" ELSE todo[i + 1]]
           [] OTHER -> Tail(todo)

\* The check of the link before a command is up to the next "body".
InCheck ==
    \E i \in DOMAIN todo : todo[i] = "body" /\ \A j \in 1 .. i - 1 : todo[j] # "check"

Drop == xlk' = "none" /\ linkMode' = "none" /\ alive' = FALSE /\ late' = << >> /\ mixed' = FALSE

Over == todo' = << >> /\ wasHalted' = FALSE /\ block' = NoBlock /\ faults' = 0 /\ ran' = FALSE

\* connection_required: the check gives up the link, the command tells and ends.
Raises(left) ==
    /\ Over
    /\ owed' = "none"
    /\ IF InCheck THEN Drop ELSE late' = left /\ UNCHANGED <<xlk, linkMode, alive, mixed>>

\* What the history keeps of a step that ended well.
Remember(failed, mixing) ==
    /\ mixed' = (mixed \/ mixing)
    /\ owed' = IF failed \/ mixing THEN "none" ELSE owed
    /\ faults' = IF todo' = << >> THEN 0 ELSE IF failed THEN Lesser(faults + 1, MaxFaults) ELSE faults
    /\ ran' = ((ran \/ (core' = "running" /\ Head(todo) \in {"go", "reset"})) /\ todo' # << >>)

-----------------------------------------------------------------------------
(* The steps *)

\* Faulty: the core is let run whether or not it ran.
GoesBackAlways == TRUE

\* The core ran before it was halted for an access.
GoesBack == ~wasHalted

InAccess(l) == xlk = l /\ todo # << >> /\ Head(todo) \in Accesses /\ (At("go_back") => GoesBack)
Reaches == alive /\ linkMode = chip

DapLinkAccess ==
    /\ InAccess("daplink") /\ Reaches
    /\ Takes
    /\ Understood(<< Answer >>) /\ Proceeds(<< Answer >>) /\ Remember(FALSE, FALSE)
    /\ UNCHANGED link

DapLinkFault ==
    /\ InAccess("daplink")
    /\ Reaches => faults < MaxFaults
    /\ Raises(<< >>)
    /\ UNCHANGED target

JLinkAccess ==
    /\ InAccess("jlink")
    /\ IF Reaches THEN Takes ELSE UNCHANGED target
    /\ LET reply == IF Reaches THEN << Answer >>
                    ELSE IF Head(todo) \in Asks THEN << "halted" >>   \* a negative result
                    ELSE IF At("read_cpuid") THEN << "none" >>
                    ELSE IF Head(todo) \in Registers THEN << "value" >> ELSE << "data" >>
       IN  IF Understood(reply)
           THEN Proceeds(reply) /\ Remember(~Reaches, FALSE) /\ UNCHANGED link
           ELSE Raises(<< >>)

(* _exec and _read: one recv returns the answers that have come, of which  *)
(* ours is the last.                                                       *)
OpenOcdAccess ==
    /\ InAccess("openocd")
    /\ \E obeyed \in BOOLEAN, came \in 1 .. Len(late) + 1 :
         LET coming == Append(late, IF obeyed THEN Answer ELSE "none")
             reply == SubSeq(coming, 1, came)
             left == SubSeq(coming, came + 1, Len(coming))
         IN  /\ ~obeyed => faults < MaxFaults /\ Head(todo) \notin Asks   \* `targets` needs no access
             /\ IF obeyed THEN Takes ELSE UNCHANGED target
             /\ IF Understood(reply)
                THEN /\ Proceeds(reply) /\ Remember(~obeyed, late # << >>)
                     /\ late' = left /\ UNCHANGED <<xlk, linkMode, alive>>
                ELSE Raises(left)

\* Nothing came in a second.
OpenOcdTimeout ==
    /\ InAccess("openocd") /\ Len(late) < MaxLate
    /\ faults < MaxFaults
    /\ Takes
    /\ Raises(Append(late, Answer))

\* The caller ends: it prints what was read, or its arguments make no sense.
Report ==
    /\ At("print")
    /\ todo' = Tail(todo) /\ block' = NoBlock
    /\ UNCHANGED <<target, link, wasHalted>>
    /\ Remember(FALSE, FALSE)

Fail == At("fail") /\ Raises(late) /\ UNCHANGED target

\* The marks of the check, waitReset, which does not raise, and a core that is
\* left halted, as it was.
Pass ==
    /\ At("check") \/ At("body") \/ At("wait_out") \/ (At("go_back") /\ ~GoesBack)
    /\ todo' = Tail(todo)
    /\ wasHalted' = (wasHalted /\ ~At("go_back"))
    /\ UNCHANGED <<target, link, block>>
    /\ Remember(FALSE, FALSE)

LinkStep == DapLinkAccess \/ JLinkAccess \/ OpenOcdAccess \/ Report \/ Fail \/ Pass

-----------------------------------------------------------------------------
(* The target *)

Breakpoint ==
    /\ core = "running" /\ core' = "halted"
    /\ owed' = IF owed = "running" THEN "none" ELSE owed
    /\ UNCHANGED <<chip, catch, link, todo, wasHalted, block, faults, mixed, ran>>

PowerCycle ==
    /\ core = "halted" \/ alive
    /\ core' = "running" /\ catch' = FALSE
    /\ alive' = FALSE
    /\ owed' = "none" /\ ran' = (todo # << >>)
    /\ UNCHANGED <<chip, xlk, linkMode, late, todo, wasHalted, block, faults, mixed>>

=============================================================================
