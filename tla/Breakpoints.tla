---------------------------- MODULE Breakpoints ----------------------------
(***************************************************************************)
(* The breakpoints of a core: the manager that keeps them and chooses      *)
(* their type (manager.py), the comparators of the breakpoint unit         *)
(* (fpb.py) and the BKPT instructions written into RAM (software.py),      *)
(* which the core's reads of memory hide (CortexM in cortex_m.py).         *)
(*                                                                         *)
(* The accesses of a call go to the target one after another, and a write  *)
(* is not waited for.  When one fails, those after it are not carried out  *)
(* until a call raises the error, at the next read or flush at the latest: *)
(* writes in between return as if they were made.  Nothing the core does   *)
(* between two accesses of one call matters here, so that a call, with the *)
(* place where it fails and the one where it raises, is one action, but    *)
(* for remove_all_breakpoints, which takes one for each breakpoint.        *)
(***************************************************************************)
EXTENDS MemoryMap, BlockAccess, FiniteSets

CONSTANTS
    Breakable,     \* the addresses at which breakpoints are set
    Types,         \* the types that callers ask for: "auto", "hw" or "sw"
    Comparators,   \* how many comparators the breakpoint unit has
    FpbRevision,   \* FPB.fpb_rev
    CodeEnd,       \* the end of the code region, 0x20000000
    Stored,        \* the bytes that the program on the core changes
    MaxToken,      \* bound: how often the core is let run
    MaxFaults      \* bound: accesses that fail

\* A breakpoint in RAM has both of its bytes there, and the program's data are elsewhere.
ASSUME BreakpointAssumption ==
    /\ Breakable \subseteq Nat /\ \A a \in Breakable : a % 2 = 0
    /\ Types \subseteq {"auto", "hw", "sw"}
    /\ {Comparators, CodeEnd, MaxToken, MaxFaults} \subseteq Nat /\ FpbRevision \in {1, 2}
    /\ Stored \cap UNION {{a, a + 1} : a \in Breakable} = {}
    /\ \A a \in Breakable : RegionTypeOf(a) = "ram" => \E r \in Regions : ContainsAddress(r, a + 1)

VARIABLES
    core,       \* the core: "running", "sleeping" or "halted"
    token,      \* CortexM._run_token
    broken,     \* an access failed that no call has raised yet
    faults,     \* accesses that failed
    mem,        \* the bytes of memory, with the BKPT instructions
    program,    \* history: the bytes that memory would hold without breakpoints
    table,      \* BreakpointManager._breakpoints: a comparator, or 0 and the original bytes
    soft,       \* SoftwareBreakpointProvider._breakpoints: the original instructions
    slots,      \* FPB.hw_breakpoints
    used,       \* FPB.num_hw_breakpoint_used
    enabled,    \* FPB.enabled
    unit,       \* the breakpoint unit: whether it is on, and its comparators
    removing,   \* the breakpoints that remove_all_breakpoints has left to remove
    doubted,    \* history: bytes whose write failed, or broke into a breakpoint
    untold      \* history: bytes that a step has changed and no new token tells of

linkVars == <<broken, faults>>
tokenVars == <<token, untold>>
memVars == <<mem, program, doubted>>
unitVars == <<slots, used, enabled, unit>>
bpVars == <<core, tokenVars, linkVars, memVars, unitVars, table, soft, removing>>

BKPT == 2   \* a byte of the BKPT instruction; the others are 0 and 1
Free == -1  \* no address
Mapped == UNION {Bytes(r.start, r.end - r.start + 1) : r \in Regions}
Ram == {b \in Mapped : RegionTypeOf(b) = "ram"}
ReadOnly == {b \in Mapped : RegionTypeOf(b) \in {"flash", "rom"}}
Half(a) == {a, a + 1}

BpInit ==
    /\ core = "halted" /\ token = 0 /\ broken = FALSE /\ faults = 0
    /\ mem = [b \in Mapped |-> 0] /\ program = mem
    /\ table = << >> /\ soft = << >>
    /\ slots = [i \in 1 .. Comparators |-> [enabled |-> FALSE, addr |-> 0]]
    /\ used = 0 /\ enabled = FALSE
    /\ unit = [on |-> FALSE, comp |-> [i \in 1 .. Comparators |-> Free]]
    /\ removing = << >> /\ doubted = {} /\ untold = {}

-----------------------------------------------------------------------------
(* The accesses of a call, by their kinds in order: those before "stop"    *)
(* are carried out, and the one at "raise" raises, if it is one of them.   *)

Outcomes(kinds) ==
    LET n == Len(kinds)
        stops == IF broken THEN {1} ELSE {n + 1} \cup (IF faults < MaxFaults THEN 1 .. n ELSE {})
        RaisedAt(stop) == {i \in stop .. n + 1 : \A j \in stop .. i - 1 : kinds[j] # "read"}
    IN  UNION {[stop : {stop}, raise : RaisedAt(stop)] : stop \in stops}

\* Whether the call went on after its access i, and whether the access was made.
Passed(out, i) == out.raise > i
Made(out, i) == out.stop > i

Linked(out, n) ==
    /\ broken' = (out.raise > n /\ (broken \/ out.stop <= n))
    /\ faults' = IF ~broken /\ out.stop <= n THEN faults + 1 ELSE faults

Idle == removing = << >>
With(entries, a, entry) == [x \in DOMAIN entries \cup {a} |-> IF x = a THEN entry ELSE entries[x]]
Without(entries, a) == [x \in DOMAIN entries \ {a} |-> entries[x]]
Over(data, bytes) == [b \in DOMAIN bytes |-> IF b \in DOMAIN data THEN data[b] ELSE bytes[b]]

-----------------------------------------------------------------------------
(* What the core's reads return, data being a function on the bytes read   *)

\* SoftwareBreakpointProvider.filter_memory: the breakpoints that a read of a size hides.
Hides(a, addr, size) ==
    CASE size = 1 -> a \in {addr, addr - 1} [] size = 2 -> a = addr [] OTHER -> a \in {addr, addr + 2}

FilterMemory(addr, size, data) ==
    [b \in DOMAIN data |->
        IF \E a \in DOMAIN soft : Hides(a, addr, size) /\ b \in Half(a)
        THEN soft[CHOOSE a \in DOMAIN soft : b \in Half(a)][b] ELSE data[b]]

ReadMemory(addr, size) == FilterMemory(addr, size, [b \in Bytes(addr, size) |-> mem[b]])
ReadMemoryBlock8(addr, size) == [b \in Bytes(addr, size) |-> ReadMemory(b, 1)[b]]

\* What the accesses that were made of a write change; flash takes no writes.
WriteBytes(bytes, value) ==
    LET taken == [b \in bytes \ ReadOnly |-> value]
    IN  mem' = Over(taken, mem) /\ program' = Over(taken, program)

-----------------------------------------------------------------------------
(* The comparators *)

CanSupportAddress(addr) == FpbRevision = 2 \/ addr < CodeEnd
AvailableBreakpoints == Comparators - used
FreeSlots == {i \in DOMAIN slots : ~slots[i].enabled}
FirstOf(is) == CHOOSE i \in is : \A j \in is : i <= j

\* The type that set_breakpoint comes to, "none" where it returns False.
ChosenType(addr, type) ==
    LET inRange == CanSupportAddress(addr)
        isRam == RegionTypeOf(addr) = "ram"
        asked == IF RegionTypeOf(addr) = "none" THEN "hw"
                 ELSE IF type # "auto" THEN type
                 ELSE IF ~inRange \/ isRam \/ AvailableBreakpoints <= 0 THEN "sw" ELSE "hw"
        possible == IF asked = "hw" /\ ~inRange THEN (IF isRam THEN "sw" ELSE "none") ELSE asked
    IN  IF possible # "none" /\ RegionTypeOf(addr) = "flash"
        THEN (IF inRange /\ AvailableBreakpoints > 0 THEN "hw" ELSE "none") ELSE possible

\* Faulty: the comparator is not counted as used.
EnterUncounted(i, addr) == slots' = [slots EXCEPT ![i] = [enabled |-> TRUE, addr |-> addr]] /\ UNCHANGED used

Enter(i, addr) == slots' = [slots EXCEPT ![i] = [enabled |-> TRUE, addr |-> addr]] /\ used' = used + 1

(* The unit is turned on with the first breakpoint.  A comparator is taken *)
(* before it is written, and has its address and counts afterwards.        *)
SetHardware(addr) ==
    LET found == AvailableBreakpoints # 0 /\ FreeSlots # {}
        first == IF enabled THEN 0 ELSE 1
        n == first + IF found THEN 1 ELSE 0
        i == FirstOf(FreeSlots)
    IN  \E out \in Outcomes([j \in 1 .. n |-> "write"]) :
            /\ Linked(out, n)
            /\ enabled' = (enabled \/ Passed(out, first))
            /\ unit' = [on |-> unit.on \/ (first = 1 /\ Made(out, 1)),
                        comp |-> IF found /\ Made(out, n) THEN [unit.comp EXCEPT ![i] = addr] ELSE unit.comp]
            /\ IF found /\ Passed(out, n) THEN Enter(i, addr) /\ table' = With(table, addr, [slot |-> i, original |-> << >>])
               ELSE /\ slots' = IF found /\ Passed(out, first) THEN [slots EXCEPT ![i].enabled = TRUE] ELSE slots
                    /\ UNCHANGED <<used, table>>
    /\ UNCHANGED <<core, tokenVars, memVars, soft, removing>>

\* The comparator that FPB.remove_breakpoint picks for a breakpoint: the first with its address.
SlotsFor(i) == {j \in DOMAIN slots : slots[j].enabled /\ slots[j].addr = slots[i].addr}

\* One that fails has given its slot back but still counts.
RemoveHardware(i) ==
    IF SlotsFor(i) = {} THEN UNCHANGED <<linkVars, unitVars>>
    ELSE \E out \in Outcomes(<< "write" >>) :
            LET j == FirstOf(SlotsFor(i)) IN
            /\ Linked(out, 1)
            /\ slots' = [slots EXCEPT ![j].enabled = FALSE]
            /\ used' = IF Passed(out, 1) THEN used - 1 ELSE used
            /\ unit' = IF Made(out, 1) THEN [unit EXCEPT !.comp[j] = Free] ELSE unit
            /\ UNCHANGED enabled

-----------------------------------------------------------------------------
(* Breakpoints in RAM *)

\* Faulty: the instruction to put back is read past the filter.
OriginalUnfiltered(addr) == [b \in Half(addr) |-> mem[b]]

Original(addr) == ReadMemory(addr, 2)

\* A failure that is raised here makes set_breakpoint return False.
SetSoftware(addr) ==
    /\ \E out \in Outcomes(<< "read", "write" >>) :
        /\ Linked(out, 2)
        /\ mem' = IF Made(out, 2) THEN Over([b \in Half(addr) |-> BKPT], mem) ELSE mem
        /\ IF Passed(out, 2)
           THEN /\ table' = With(table, addr, [slot |-> 0, original |-> Original(addr)])
                /\ soft' = With(soft, addr, Original(addr))
           ELSE UNCHANGED <<table, soft>>
    /\ UNCHANGED <<core, tokenVars, program, doubted, unitVars, removing>>

(* A failure that is raised here is swallowed, and the instruction stays   *)
(* known to the filter.  A breakpoint that a failed remove_all_breakpoints *)
(* left in the table is written back once more, which then is an error.    *)
RemoveSoftware(addr) ==
    \E out \in Outcomes(<< "write" >>) :
        /\ Linked(out, 1)
        /\ mem' = IF Made(out, 1) THEN Over(table[addr].original, mem) ELSE mem
        /\ soft' = IF Passed(out, 1) THEN Without(soft, addr) ELSE soft
        /\ doubted' = IF Passed(out, 1) # Made(out, 1) \/ addr \notin DOMAIN soft
                      THEN doubted \cup Half(addr) ELSE doubted
        /\ UNCHANGED program

-----------------------------------------------------------------------------
(* The calls *)

SetBreakpoint ==
    /\ Idle
    /\ \E addr \in Breakable \ DOMAIN table, type \in Types :
        \/ ChosenType(addr, type) = "hw" /\ SetHardware(addr)
        \/ ChosenType(addr, type) = "sw" /\ RegionTypeOf(addr) = "ram" /\ SetSoftware(addr)

RemoveFrom(addr) ==
    IF table[addr].slot = 0 THEN RemoveSoftware(addr) /\ UNCHANGED unitVars
    ELSE RemoveHardware(table[addr].slot) /\ UNCHANGED <<memVars, soft>>

\* Out of the table first, whatever comes of it.
RemoveBreakpoint ==
    /\ Idle
    /\ \E addr \in DOMAIN table :
        /\ table' = Without(table, addr)
        /\ RemoveFrom(addr)
    /\ UNCHANGED <<core, tokenVars, removing>>

RemoveAllBreakpoints ==
    /\ Idle /\ table # << >>
    /\ removing' \in SetToSeqs(DOMAIN table)
    /\ UNCHANGED <<core, tokenVars, linkVars, memVars, unitVars, table, soft>>

\* An error that is not swallowed ends it, with the table as it was.
RemoveNext ==
    /\ removing # << >>
    /\ RemoveFrom(Head(removing))
    /\ LET addr == Head(removing)
           failed == ~broken' /\ (broken \/ faults' > faults)
           raised == IF table[addr].slot = 0 THEN ~failed /\ addr \notin DOMAIN soft ELSE failed
       IN  /\ removing' = IF raised THEN << >> ELSE Tail(removing)
           /\ table' = IF ~raised /\ Len(removing) = 1 THEN << >> ELSE table
    /\ UNCHANGED <<core, tokenVars>>

-----------------------------------------------------------------------------
(* The core *)

Quiet == UNCHANGED <<unitVars, table, soft, removing, doubted>>

\* A new token tells the caches of all that the core has changed.
NewToken == token' = token + 1 /\ untold' = {}

\* The state is read; the token counts before the causes are cleared and the core is let go.
Resume ==
    /\ Idle /\ core = "halted" /\ token < MaxToken
    /\ \E out \in Outcomes(<<"read", "write", "write", "read">>) :
        /\ Linked(out, 4)
        /\ core' = IF Made(out, 3) THEN "running" ELSE core
        /\ IF Passed(out, 1) THEN NewToken ELSE UNCHANGED tokenVars
    /\ UNCHANGED <<mem, program>> /\ Quiet

Halt ==
    /\ Idle /\ core # "halted"
    /\ \E out \in Outcomes(<<"write", "read">>) :
        /\ Linked(out, 2)
        /\ core' = IF Made(out, 1) THEN "halted" ELSE core
    /\ UNCHANGED <<tokenVars, mem, program>> /\ Quiet

Flip == LET flipped == [b \in Stored |-> 1 - mem[b]]
        IN  mem' = Over(flipped, mem) /\ program' = Over(flipped, program)

\* The program changes its data, and then goes on, sleeps or is at a breakpoint.
Execute ==
    /\ core = "running"
    /\ core' \in {"running", "sleeping", "halted"}
    /\ Flip
    /\ UNCHANGED <<tokenVars, linkVars>> /\ Quiet

(* The state is read, the causes are cleared and the interrupts masked;    *)
(* the fourth access steps; then it is waited for, the mask is taken off   *)
(* and all is flushed.  The token counts when that has gone well: a call   *)
(* that raises after the step leaves what it changed untold.               *)
Step ==
    /\ Idle /\ core = "halted" /\ token < MaxToken
    /\ \E out \in Outcomes(<<"read", "write", "write", "write", "read", "write", "read">>) :
        /\ Linked(out, 7)
        /\ IF Made(out, 4) THEN Flip ELSE UNCHANGED <<mem, program>>
        /\ IF Passed(out, 7) THEN NewToken
           ELSE /\ untold' = IF Made(out, 4) THEN untold \cup (Stored \cap Mapped) ELSE untold
                /\ UNCHANGED token
    /\ UNCHANGED core /\ Quiet

Wake == core = "sleeping" /\ core' = "running" /\ UNCHANGED <<tokenVars, linkVars, mem, program>> /\ Quiet

BpNext ==
    \/ SetBreakpoint \/ RemoveBreakpoint \/ RemoveAllBreakpoints \/ RemoveNext
    \/ Resume \/ Halt \/ Step \/ Execute \/ Wake

-----------------------------------------------------------------------------

BpTypeOK ==
    /\ core \in {"running", "sleeping", "halted"} /\ token \in 0 .. MaxToken
    /\ broken \in BOOLEAN /\ faults \in 0 .. MaxFaults
    /\ {mem, program} \subseteq [Mapped -> 0 .. BKPT] /\ doubted \cup untold \subseteq Mapped
    /\ DOMAIN table \subseteq Breakable /\ \A a \in DOMAIN table : table[a].slot \in 0 .. Comparators
    /\ DOMAIN soft \subseteq Breakable /\ \A a \in DOMAIN soft : soft[a] \in [Half(a) -> 0 .. BKPT]
    /\ slots \in [1 .. Comparators -> [enabled : BOOLEAN, addr : Breakable \cup {0}]]
    /\ used \in Int /\ used <= Comparators /\ enabled \in BOOLEAN
    /\ unit \in [on : BOOLEAN, comp : [1 .. Comparators -> Breakable \cup {Free}]]
    /\ removing \in Seq(Breakable)

(* Every read of the core shows the program and none of the breakpoints    *)
(* written into it, whatever was set, removed, set again or failed.  Left  *)
(* out are bytes written over while a breakpoint was there (software.py:80 *)
(* then puts the old ones back), a removal whose write failed after it had *)
(* returned, and blocks of words, filtered at wrong addresses              *)
(* (manager.py:164).                                                       *)
BreakpointsHidden ==
    \A addr \in Ram, size \in {1, 2, 4} :
        addr % size = 0 /\ Bytes(addr, size) \subseteq Ram \ doubted =>
            LET shown == [b \in Bytes(addr, size) |-> program[b]]
            IN  ReadMemory(addr, size) = shown /\ ReadMemoryBlock8(addr, size) = shown

(* While no access has failed, the breakpoints in the manager's table are  *)
(* those that would stop the core: each has a comparator of its own or a   *)
(* BKPT in memory, and no comparator and no BKPT is left behind.           *)
BreakpointsArmed ==
    faults = 0 /\ Idle =>
        LET hardware == {a \in DOMAIN table : table[a].slot # 0}
        IN  /\ \A i \in 1 .. Comparators :
                {unit.comp[i]} \ {Free} = {a \in hardware : table[a].slot = i}
            /\ hardware # {} => unit.on
            /\ used = Cardinality(hardware) /\ used = Comparators - Cardinality(FreeSlots)
            /\ \A b \in Mapped \ doubted :
                mem[b] = BKPT <=> \E a \in DOMAIN table \ hardware : b \in Half(a)

=============================================================================
