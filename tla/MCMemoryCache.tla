--------------------------- MODULE MCMemoryCache ---------------------------
(* MemoryCache with a word of flash, two of RAM and a device, for TLC. *)
EXTENDS MemoryCache

Region(type, start, end) == [type |-> type, start |-> start, end |-> end]
Of(addr, size) == [addr |-> addr, size |-> size]

MCRegions == {Region("flash", 0, 3), Region("ram", 4, 11), Region("device", 12, 13)}
MCReadRanges == {Of(4, 3), Of(4, 8), Of(12, 1), Of(10, 4)}
MCWriteRanges == {Of(6, 2)}
=============================================================================
