--------------------------- MODULE RegisterCache ---------------------------
(***************************************************************************)
(* The register cache (RegisterCache in cache.py) in front of a core: the  *)
(* debug context reads and writes core registers through it while calls on *)
(* the core itself let the core run, step or reset.                        *)
(***************************************************************************)
EXTENDS CoreRunControl

CONSTANTS
    ReadLists,  \* the lists of registers that readers ask for
    WriteLists  \* the lists of [reg, value] that writers pass

\* What write_core_registers_raw is given: a value has all the parts of its register.
Writes == UNION {[reg : {r}, value : [PartsOf(r) -> Bits]] : r \in Registers}

ASSUME CacheAssumption == ReadLists \subseteq Seq(Registers) /\ WriteLists \subseteq Seq(Writes)

VARIABLES
    cached,     \* RegisterCache._cache: a function on the registers it holds
    synced,     \* RegisterCache._run_token
    arg,        \* the list that the cached call in progress was given
    poisoned    \* history: registers cached for a write that then failed

cacheVars == <<cached, synced, arg, poisoned>>
vars == <<runVars, cacheVars>>

Init == RunInit /\ cached = << >> /\ synced = -1 /\ arg = << >> /\ poisoned = {}

\* Faulty: the parts of a register are not dropped with it.
FamilyAlone(rs) == {Whole(r) : r \in {x \in rs : Whole(x) \in DOMAIN Families}}

\* The registers that are transferred with some of rs: a whole and its parts.
FamilyOf(rs) ==
    UNION {{Whole(r)} \cup Families[Whole(r)] : r \in {x \in rs : Whole(x) \in DOMAIN Families}}

Named == {arg[i].reg : i \in DOMAIN arg}

\* The value that the list ends with for a register it names.
LastTo(r) == arg[Max({i \in DOMAIN arg : arg[i].reg = r})].value

\* Faulty: a part is cached as the whole register was read.
UnpackNothing(reg) == Value(Whole(reg))

Unpack(reg) == Value(reg)

Cached(steps, list) ==
    /\ Begin(<< "state", "check" >> \o steps)
    /\ arg' = list
    /\ UNCHANGED <<cached, synced, poisoned>>

ReadRegisters ==
    \E list \in ReadLists :
        Cached(<< "read_registers" >>, [i \in DOMAIN list |-> [reg |-> list[i], value |-> << >>]])
WriteRegisters == \E list \in WriteLists : Cached(<< "store", "write_registers" >>, list)

\* _check_cache: a cache of a running core is dropped and not brought up to date.
Check ==
    /\ At("check") /\ Done
    /\ IF seen = "running" THEN cached' = << >> /\ poisoned' = {} /\ UNCHANGED synced
       ELSE IF synced # token THEN cached' = << >> /\ poisoned' = {} /\ synced' = token
       ELSE UNCHANGED <<cached, poisoned, synced>>
    /\ seen' = "none"
    /\ UNCHANGED <<saved, token, chip, faults, untold, arg>>

\* What the cache lacks is read from a halted core, with all that shares its transfer.
Read ==
    /\ At("read_registers")
    /\ LET lacking == Named \ DOMAIN cached
           gained == lacking \cup FamilyOf(lacking)
       IN  IF lacking # {} /\ core # "halted" THEN Abort /\ UNCHANGED cached
           ELSE /\ lacking # {} => Settled
                /\ Done
                /\ cached' = [r \in DOMAIN cached \cup gained |-> IF r \in gained THEN Unpack(r) ELSE cached[r]]
    /\ arg' = << >>
    /\ UNCHANGED <<seen, saved, token, chip, faults, untold, synced, poisoned>>

\* The new values are cached first, and those of whole registers and parts dropped.
Store ==
    /\ At("store") /\ Done
    /\ cached' = [r \in (DOMAIN cached \cup Named) \ FamilyOf(Named) |-> IF r \in Named THEN LastTo(r) ELSE cached[r]]
    /\ poisoned' = poisoned \ (Named \cup FamilyOf(Named))
    /\ UNCHANGED <<seen, saved, token, chip, faults, untold, synced, arg>>

Write ==
    /\ At("write_registers") /\ Settled
    /\ IF core = "halted" THEN Done /\ regs' = RegistersAfter(arg) /\ UNCHANGED poisoned
       ELSE Abort /\ poisoned' = poisoned \cup (Named \cap DOMAIN cached) /\ UNCHANGED regs
    /\ UNCHANGED <<seen, saved, token, core, ctl, sticky, demcr, faults, fresh, executed, untold, cached, synced>>
    /\ arg' = << >>

\* A failing write may leave the cache ahead of the core, or the core changed.
CacheFault ==
    /\ AtOneOf({"read_registers", "write_registers"}) /\ faults < MaxFaults
    /\ Abort
    /\ IF At("write_registers")
       THEN poisoned' = poisoned \cup (Named \cap DOMAIN cached) /\ regs' \in {regs, RegistersAfter(arg)}
       ELSE UNCHANGED <<poisoned, regs>>
    /\ UNCHANGED <<seen, saved, token, core, ctl, sticky, demcr, faults, fresh, executed, untold, cached, synced>>
    /\ arg' = << >>

CacheStep == Check \/ Read \/ Store \/ Write
CacheCall == ReadRegisters \/ WriteRegisters

\* The calls on the core beside the cache, those that change what registers hold.
RunAlone ==
    /\ \/ Halt \/ Step \/ Resume \/ Reset \/ ResetAndHalt \/ ResetStopOnReset \/ Disconnect
       \/ CallStep \/ GiveUp \/ Core \/ (Fault /\ ~AtOneOf({"check", "store", "read_registers", "write_registers"}))
    /\ UNCHANGED cacheVars

Next == RunAlone \/ CacheCall \/ CacheStep \/ CacheFault

Spec == Init /\ [][Next]_vars

-----------------------------------------------------------------------------

CacheSteps == {"check", "store", "read_registers", "write_registers"}

TypeOK ==
    /\ todo \in Seq(Steps \cup CacheSteps) /\ StateOK
    /\ synced \in -1 .. token
    /\ DOMAIN cached \subseteq Registers /\ \A r \in DOMAIN cached : cached[r] \in [PartsOf(r) -> Bits]
    /\ poisoned \subseteq DOMAIN cached

(* Between calls, what the cache would answer for a halted core is what    *)
(* the core holds, through resumes, steps, resets, breakpoints and parts   *)
(* of shared registers.  Two failures are left out: a write that raised    *)
(* after it was cached (cache.py:196) and a step that raised after the     *)
(* instruction but before its new token (cortex_m.py:703).                 *)
CacheRight ==
    todo = << >> /\ core = "halted" /\ synced = token /\ ~untold =>
        \A r \in DOMAIN cached \ poisoned : cached[r] = Value(r)

(* A write of registers changes none of the parts it does not name, though *)
(* they are transferred with those it names.                               *)
PartsKept ==
    [][\A p \in Parts \ UNION {PartsOf(r) : r \in Named} :
        At("write_registers") /\ core = "halted" /\ core' = "halted" => regs'[p] = regs[p]]_vars

=============================================================================
