---------------------------- MODULE BlockAccess ----------------------------
(***************************************************************************)
(* How a read or a write of any number of bytes is split into accesses of  *)
(* the memory access port: bytes and halfwords up to a word boundary,      *)
(* blocks of words that stay within a page of the auto-increment, then the *)
(* halfword and the byte that are left (memory_interface.py, ap.py).       *)
(***************************************************************************)
EXTENDS Integers, Sequences, SequencesExt

CONSTANT PageSize   \* MEM_AP.auto_increment_page_size

ASSUME PageAssumption == PageSize \in Nat \ {0} /\ PageSize % 4 = 0

\* Faulty: the first page is taken to begin at the address.
PagesFromAddress(addr, words) ==
    LET split[w \in 0 .. words] ==
            LET first == addr + 4 * (words - w)
                n == IF 4 * w < PageSize THEN 4 * w ELSE PageSize
            IN  IF w = 0 THEN << >> ELSE << [addr |-> first, size |-> n] >> \o split[w - n \div 4]
    IN  split[words]

(* A block of aligned words, one transfer of words for each page.          *)
Pages(addr, words) ==
    LET split[w \in 0 .. words] ==
            LET first == addr + 4 * (words - w)
                room == PageSize - (first % PageSize)
                n == IF 4 * w < room THEN 4 * w ELSE room
            IN  IF w = 0 THEN << >> ELSE << [addr |-> first, size |-> n] >> \o split[w - n \div 4]
    IN  split[words]

\* What is left of a range after some accesses, which go to the end of made.
Left(addr, size, made) == [addr |-> addr, size |-> size, made |-> made]
Took(l, n) == Left(l.addr + n, l.size - n, l.made \o << [addr |-> l.addr, size |-> n] >>)

OddByte(l) == IF l.size > 0 /\ l.addr % 2 = 1 THEN Took(l, 1) ELSE l
OddHalf(l) == IF l.size > 1 /\ l.addr % 4 \in {2, 3} THEN Took(l, 2) ELSE l
Words(l) ==
    LET n == 4 * (l.size \div 4)
    IN  IF n > 0 THEN Left(l.addr + n, l.size - n, l.made \o Pages(l.addr, n \div 4)) ELSE l
LastHalf(l) == IF l.size > 1 THEN Took(l, 2) ELSE l
LastByte(l) == IF l.size > 0 THEN Took(l, 1) ELSE l

\* The accesses of read_memory_block8 and write_memory_block8.
Accesses(addr, size) == LastByte(LastHalf(Words(OddHalf(OddByte(Left(addr, size, << >>)))))).made

-----------------------------------------------------------------------------

\* An access that the port can make: aligned, and words within one page.
Possible(a) ==
    \/ a.size \in {1, 2} /\ a.addr % a.size = 0
    \/ a.size > 0 /\ a.size % 4 = 0 /\ a.addr % 4 = 0 /\ (a.addr % PageSize) + a.size <= PageSize

\* The accesses for a range are all possible, follow each other and make up the range.
SplitsRight(addr, size) ==
    LET made == Accesses(addr, size)
    IN  /\ \A i \in DOMAIN made : Possible(made[i])
        /\ \A i \in DOMAIN made : made[i].addr = IF i = 1 THEN addr ELSE made[i - 1].addr + made[i - 1].size
        /\ IF size = 0 THEN made = << >> ELSE Last(made).addr + Last(made).size = addr + size

\* At every alignment, for sizes up to three pages.
AlwaysSplitsRight == \A addr \in 0 .. 2 * PageSize, size \in 0 .. 3 * PageSize : SplitsRight(addr, size)

=============================================================================
