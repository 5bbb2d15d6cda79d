---------------------------- MODULE MemoryCache ----------------------------
(***************************************************************************)
(* The memory cache (MemoryCache in cache.py) in front of a core: reads    *)
(* and writes of memory go through it, while calls on the core itself set  *)
(* and remove breakpoints and let the core run.                            *)
(***************************************************************************)
EXTENDS Breakpoints, FiniteSetsExt

CONSTANTS
    ReadRanges,   \* what readers ask for: [addr, size]
    WriteRanges   \* what writers write, the same value to every byte

ASSUME RangesAssumption == ReadRanges \cup WriteRanges \subseteq [addr : Nat, size : Nat \ {0}]

VARIABLES
    cache,    \* MemoryCache._cache: disjoint intervals, each a function on its bytes
    synced,   \* MemoryCache._run_token
    dozed     \* history: the cache took bytes while the core was not halted

cacheVars == <<cache, synced, dozed>>
vars == <<bpVars, cacheVars>>

Init == BpInit /\ cache = {} /\ synced = -1 /\ dozed = FALSE

-----------------------------------------------------------------------------
(* Intervals *)

First(iv) == Min(DOMAIN iv)
Final(iv) == Max(DOMAIN iv)
Span(first, last) == {first .. last} \ {{}}

Overlap(kept, bytes) == {iv \in kept : DOMAIN iv \cap bytes # {}}

\* What is left of the uncached ranges beside one cached interval.
Uncovered(uncached, iv) ==
    UNION {IF Final(iv) + 1 < Min(u) \/ First(iv) > Max(u) + 1 THEN {u}
           ELSE Span(Min(u), First(iv) - 1) \cup Span(Final(iv) + 1, Max(u)) : u \in uncached}

UncachedRanges(kept, bytes) == FoldSet(LAMBDA iv, us : Uncovered(us, iv), {bytes}, Overlap(kept, bytes))

\* Faulty: the intervals that a write joins are left beside the new one.
JoinedBeside(kept, bytes, value) ==
    LET joined == Overlap(kept, bytes) \cup {[b \in bytes |-> value]}
    IN  kept \cup {[b \in UNION {DOMAIN iv : iv \in joined} |-> value]}

(* write_memory_block8: the bytes written go into the interval that has    *)
(* them all, or make one interval with all those that they overlap.        *)
Written(kept, bytes, value) ==
    LET over == Overlap(kept, bytes)
        around == UNION {DOMAIN iv : iv \in over}
        lead == {b \in around : b < Min(bytes)}
        trail == {b \in around : b > Max(bytes)}
        At(b) == (CHOOSE iv \in over : b \in DOMAIN iv)[b]
    IN  (kept \ over) \cup {[b \in lead \cup bytes \cup trail |-> IF b \in bytes THEN value ELSE At(b)]}

-----------------------------------------------------------------------------
(* The calls *)

\* Faulty: what was cached before the core ran is kept.
CheckedByState(kept) == IF core = "running" THEN {} ELSE kept

\* _check_cache: a cache of a running core is dropped and not brought up to date.
Checked(kept) == IF core = "running" \/ synced # token THEN {} ELSE kept

\* Faulty: the token that the next run will have.
CheckedTokenAhead == IF core = "running" THEN synced ELSE token + 1

CheckedToken == IF core = "running" THEN synced ELSE token

\* _check_regions: "none" where no region is met, "error" where the range is not within one.
Regioned(addr, size) ==
    LET met == GetIntersectingRegions(addr, size)
        first == FirstRegion(met)
    IN  IF met = {} THEN "none"
        ELSE IF met # {first} \/ ~ContainsRange(first, addr, size) THEN "error"
        ELSE IF IsCacheable(first) THEN "cacheable" ELSE "none"

Dozes(kept) == cache' # {} /\ (core # "halted" \/ (dozed /\ kept # {}))

\* The state of the core is read first, which raises what is broken.
CacheChecked ==
    /\ synced' = CheckedToken
    /\ UNCHANGED <<core, tokenVars, unitVars, table, soft, removing>>

(* The ranges that are not cached are read one after another, and each is  *)
(* cached when it is there.  A range is read in several accesses; the      *)
(* first that fails raises.                                                *)
Read ==
    /\ Idle
    /\ \E r \in ReadRanges :
        LET kept == Checked(cache)
            bytes == Bytes(r.addr, r.size)
            how == Regioned(r.addr, r.size)
        IN  \E us \in SetToSeqs(IF how = "cacheable" THEN UncachedRanges(kept, bytes)
                                ELSE IF how = "none" THEN {bytes} ELSE {}) :
            LET n == 1 + Len(us)
            IN  \E out \in Outcomes([i \in 1 .. n |-> "read"]) :
                LET got == {us[j] : j \in {k \in DOMAIN us : how = "cacheable" /\ Passed(out, 1 + k)}}
                IN  /\ Linked(out, n)
                    /\ IF Passed(out, 1)
                       THEN /\ cache' = kept \cup {ReadMemoryBlock8(Min(u), Cardinality(u)) : u \in got}
                            /\ dozed' = Dozes(kept)
                            /\ CacheChecked
                       ELSE UNCHANGED <<cache, dozed, synced, core, tokenVars, unitVars, table, soft, removing>>
    /\ UNCHANGED memVars

(* The target is written first.  A write that returns is cached, though    *)
(* its failure may be raised later.                                        *)
Write ==
    /\ Idle
    /\ \E r \in WriteRanges :
        LET kept == Checked(cache)
            bytes == Bytes(r.addr, r.size)
            how == Regioned(r.addr, r.size)
            value == 1
            pieces == IF how = "error" THEN << >> ELSE Accesses(r.addr, r.size)
            n == 1 + Len(pieces)
        IN  \E out \in Outcomes([i \in 1 .. n |-> IF i = 1 THEN "read" ELSE "write"]) :
            LET made == UNION {Bytes(pieces[i].addr, pieces[i].size) : i \in {j \in DOMAIN pieces : Made(out, 1 + j)}}
                planted == made \cap UNION {Half(a) : a \in DOMAIN soft}
            IN  /\ Linked(out, n)
                /\ WriteBytes(made, value)
                /\ doubted' = doubted \cup planted
                              \cup IF Passed(out, 1) /\ how # "error"
                                   THEN bytes \cap (IF Made(out, n) THEN ReadOnly ELSE Mapped)
                                   ELSE {}
                /\ IF Passed(out, 1)
                   THEN /\ cache' = IF how = "cacheable" /\ Passed(out, n) THEN Written(kept, bytes, value) ELSE kept
                        /\ dozed' = Dozes(kept)
                        /\ CacheChecked
                   ELSE UNCHANGED <<cache, dozed, synced, core, tokenVars, unitVars, table, soft, removing>>

Invalidate ==
    /\ Idle /\ cache # {}
    /\ cache' = {} /\ dozed' = FALSE /\ untold' = {}
    /\ UNCHANGED <<synced, core, token, linkVars, memVars, unitVars, table, soft, removing>>

Next == (BpNext /\ UNCHANGED cacheVars) \/ Read \/ Write \/ Invalidate

Spec == Init /\ [][Next]_vars

-----------------------------------------------------------------------------

TypeOK ==
    /\ BpTypeOK
    /\ synced \in -1 .. token /\ dozed \in BOOLEAN
    /\ \A iv \in cache : DOMAIN iv = First(iv) .. Final(iv) /\ \A b \in DOMAIN iv : iv[b] \in 0 .. BKPT

(* What the cache would answer for a halted core is what a read of the     *)
(* core returns, through resumes, steps, breakpoints set and removed       *)
(* behind its back, partial overlaps and failures, and it holds nothing    *)
(* that a device may change.  Left out are writes that were not carried    *)
(* out in full, to flash too, or over a breakpoint; what was cached of a   *)
(* core that was not halted and could run on with no new token; and bytes  *)
(* that an instruction changed whose step raised before the new token was  *)
(* counted (cortex_m.py:703), until the cache hears of one or is dropped.  *)
CacheRight ==
    Idle /\ core = "halted" /\ synced = token /\ ~dozed =>
        \A iv \in cache :
            /\ \A b \in DOMAIN iv : RegionTypeOf(b) # "device"
            /\ \A b \in DOMAIN iv \ (doubted \cup untold) : iv[b] = ReadMemoryBlock8(b, 1)[b]

(* No byte is in two intervals of the cache, and what it lacks of a range  *)
(* is all that is not in one, nothing of it twice.                         *)
IntervalsDisjoint ==
    /\ \A iv, jv \in cache : iv # jv => DOMAIN iv \cap DOMAIN jv = {}
    /\ \A r \in ReadRanges :
        LET bytes == Bytes(r.addr, r.size)
            lacking == UncachedRanges(cache, bytes)
        IN  /\ UNION lacking = bytes \ UNION {DOMAIN iv : iv \in cache}
            /\ \A u, v \in lacking : u # v => u \cap v = {}

(* What the cache lacks of a range is one run of bytes, read with accesses *)
(* that the port can make, aligned and each within one page, and that make *)
(* up all of it; as any range is, at every alignment and up to three pages *)
(* long.                                                                   *)
ReadsPossible ==
    /\ AlwaysSplitsRight
    /\ \A r \in ReadRanges : \A u \in UncachedRanges(cache, Bytes(r.addr, r.size)) :
        u = Min(u) .. Max(u) /\ SplitsRight(Min(u), Cardinality(u))

=============================================================================
