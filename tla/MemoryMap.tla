----------------------------- MODULE MemoryMap -----------------------------
(***************************************************************************)
(* The memory map of a target (memory_map.py): regions of memory, each a   *)
(* record with its type and its first and last address, and the questions  *)
(* that the breakpoints and the memory cache ask of them.                  *)
(***************************************************************************)
EXTENDS Integers

CONSTANT Regions   \* the regions of the target

ASSUME RegionsAssumption ==
    \A r \in Regions :
        /\ r.type \in {"other", "ram", "rom", "flash", "device"}
        /\ {r.start, r.end} \subseteq Nat /\ r.end >= r.start

(* The ranges that callers give by their first address and their length.   *)
LastOf(start, length) == start + length - 1
Bytes(start, length) == start .. LastOf(start, length)

\* The regions are kept in the order of their addresses (add_region): the first of some.
FirstRegion(rs) == CHOOSE r \in rs : \A s \in rs : r.start <= s.start

ContainsAddress(r, address) == address >= r.start /\ address <= r.end

ContainsRange(r, start, length) ==
    ContainsAddress(r, start) /\ ContainsAddress(r, LastOf(start, length))

IntersectsRange(r, start, length) ==
    \/ start <= r.start /\ LastOf(start, length) >= r.start
    \/ start <= r.end /\ LastOf(start, length) >= r.end
    \/ start >= r.start /\ LastOf(start, length) <= r.end

GetIntersectingRegions(start, length) == {r \in Regions : IntersectsRange(r, start, length)}

\* The regions with the address, of which get_region_for_address returns the first.
Having(address) == {r \in Regions : ContainsAddress(r, address)}

RegionTypeOf(address) == IF Having(address) = {} THEN "none" ELSE FirstRegion(Having(address)).type

\* The regions whose attributes let them be cached.
IsCacheable(r) == r.type # "device"

=============================================================================
