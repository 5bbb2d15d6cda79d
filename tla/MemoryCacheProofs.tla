------------------------- MODULE MemoryCacheProofs -------------------------
(***************************************************************************)
(* Proofs about breakpoints and the memory cache, for every memory map,    *)
(* any number of comparators, breakpoints, runs and failing accesses.      *)
(***************************************************************************)
EXTENDS MemoryCache, FiniteSetTheorems, SequenceTheorems, WellFoundedInduction, TLAPS

-----------------------------------------------------------------------------
(* Data *)

Halves == UNION {Half(a) : a \in Breakable}

LEMMA BreakableFacts ==
    /\ Breakable \subseteq Nat /\ \A a \in Breakable : a % 2 = 0
    /\ \A a, c \in Breakable : \A b : b \in Half(a) /\ b \in Half(c) => a = c
    /\ Stored \cap Halves = {}
<1>1. Breakable \subseteq Nat /\ \A a \in Breakable : a % 2 = 0
  BY BreakpointAssumption
<1>2. ASSUME NEW a \in Breakable, NEW c \in Breakable, NEW b, b \in Half(a), b \in Half(c)
      PROVE  a = c
  BY <1>1, <1>2 DEF Half
<1>. QED  BY <1>1, <1>2, BreakpointAssumption DEF Halves, Half

LEMMA Bounds == Comparators \in Nat /\ MaxToken \in Nat /\ MaxFaults \in Nat
  BY BreakpointAssumption

LEMMA HalfIsBytes == ASSUME NEW a \in Int PROVE Bytes(a, 2) = Half(a)
  BY DEF Bytes, LastOf, Half

LEMMA OverIs ==
    ASSUME NEW data, NEW bytes
    PROVE  /\ DOMAIN Over(data, bytes) = DOMAIN bytes
           /\ \A b \in DOMAIN bytes :
                Over(data, bytes)[b] = IF b \in DOMAIN data THEN data[b] ELSE bytes[b]
  BY DEF Over

\* An access that was made was passed too, in a call without failures all were made.
LEMMA OutcomeOrder ==
    ASSUME NEW n \in Nat, NEW kinds, Len(kinds) = n, NEW out \in Outcomes(kinds)
    PROVE  /\ out.stop \in 1 .. n + 1 /\ out.raise \in out.stop .. n + 1
           /\ broken => out.stop = 1
           /\ ~broken /\ out.stop # n + 1 => faults < MaxFaults
<1>. DEFINE RaisedAt(stop) == {i \in stop .. n + 1 : \A j \in stop .. i - 1 : kinds[j] # "read"}
            stops == IF broken THEN {1} ELSE {n + 1} \cup (IF faults < MaxFaults THEN 1 .. n ELSE {})
<1>1. PICK stop \in stops : out \in [stop : {stop}, raise : RaisedAt(stop)]
  BY DEF Outcomes
<1>2. out.stop \in stops /\ out.raise \in RaisedAt(out.stop)
  BY <1>1
<1>3. out.stop \in 1 .. n + 1
  BY <1>2
<1>. QED  BY <1>2, <1>3

LEMMA WriteAfterRead ==
    ASSUME NEW out \in Outcomes(<< "read", "write" >>)
    PROVE  /\ out.stop \in 1 .. 3 /\ out.raise \in out.stop .. 3
           /\ ~broken /\ out.stop # 3 => faults < MaxFaults
           /\ broken => out.stop = 1
<1>. DEFINE kinds == << "read", "write" >>
<1>1. Len(kinds) = 2
  OBVIOUS
<1>2. out \in Outcomes(kinds)
  OBVIOUS
<1>. HIDE DEF kinds
<1>3. 2 \in Nat /\ 2 + 1 = 3
  OBVIOUS
<1>. QED  BY <1>1, <1>2, <1>3, OutcomeOrder

LEMMA OneWrite ==
    ASSUME NEW out \in Outcomes(<< "write" >>)
    PROVE  /\ out.stop \in 1 .. 2 /\ out.raise \in out.stop .. 2
           /\ ~broken /\ out.stop # 2 => faults < MaxFaults
           /\ broken => out.stop = 1
<1>. DEFINE kinds == << "write" >>
<1>1. Len(kinds) = 1
  OBVIOUS
<1>2. out \in Outcomes(kinds)
  OBVIOUS
<1>. HIDE DEF kinds
<1>3. 1 \in Nat /\ 1 + 1 = 2
  OBVIOUS
<1>. QED  BY <1>1, <1>2, <1>3, OutcomeOrder

\* The least-number principle.
LEMMA Least ==
    ASSUME NEW S \in SUBSET Nat, S # {}
    PROVE  \E m \in S : \A k \in S : m <= k
<1>. DEFINE R == OpToRel(<, Nat)
<1>1. IsWellFoundedOn(R, Nat)
  BY NatLessThanWellFounded
<1>2. \A x, y \in Nat : << y, x >> \in R <=> y < x
  BY DEF OpToRel
<1>. HIDE DEF R
<1>3. PICK m \in S : \A k \in S : ~(<< k, m >> \in R)
  BY <1>1, WFMin
<1>4. \A k \in S : k \in Nat /\ m \in Nat /\ ~(k < m)
  BY <1>2, <1>3
<1>5. \A k \in S : m <= k
  BY <1>4
<1>. QED  BY <1>5

LEMMA RegionBounds == \A r \in Regions : r.start \in Nat /\ r.end \in Nat /\ r.end >= r.start
<1>. SUFFICES ASSUME NEW r \in Regions
              PROVE  r.start \in Nat /\ r.end \in Nat /\ r.end >= r.start
  OBVIOUS
<1>. QED  BY RegionsAssumption

LEMMA RegionFirst ==
    ASSUME NEW rs \in SUBSET Regions, rs # {}
    PROVE  FirstRegion(rs) \in rs
<1>. DEFINE starts == {r.start : r \in rs}
<1>1. starts \subseteq Nat /\ starts # {}
  BY RegionsAssumption
<1>2. PICK least \in starts : \A n \in starts : least <= n
  BY <1>1, Least
<1>3. PICK r \in rs : r.start = least
  BY <1>2
<1>4. \A s \in rs : r.start <= s.start
  BY <1>2, <1>3
<1>. QED  BY <1>4 DEF FirstRegion

LEMMA RegionBytes == \A r \in Regions : Bytes(r.start, r.end - r.start + 1) = r.start .. r.end
<1>. SUFFICES ASSUME NEW r \in Regions
              PROVE  Bytes(r.start, r.end - r.start + 1) = r.start .. r.end
  OBVIOUS
<1>1. r.start \in Int /\ r.end \in Int
  BY RegionBounds
<1>2. r.start + (r.end - r.start + 1) - 1 = r.end
  BY <1>1
<1>. QED  BY <1>2 DEF Bytes, LastOf

\* What is in RAM is mapped, and so is the second byte of a breakpoint there.
LEMMA RamIsMapped ==
    ASSUME NEW a \in Breakable, RegionTypeOf(a) = "ram"
    PROVE  Half(a) \subseteq Mapped
<1>1. \A b \in Nat, r \in Regions : ContainsAddress(r, b) => b \in Mapped
  BY RegionBytes, RegionsAssumption DEF ContainsAddress, Mapped
<1>2. \E r \in Regions : ContainsAddress(r, a)
  BY DEF RegionTypeOf, Having
<1>. QED  BY <1>1, <1>2, BreakableFacts, BreakpointAssumption DEF Half

-----------------------------------------------------------------------------
(* How ranges are split into accesses *)

LEMMA Division ==
    ASSUME NEW x \in Int, NEW n \in Int, n > 0
    PROVE  x = n * (x \div n) + (x % n) /\ x \div n \in Int
<1>1. x = n * (x \div n) + (x % n)
  BY SMTT(30)
<1>. QED  BY <1>1

\* The room in the page of an aligned address.
LEMMA PageRoom ==
    ASSUME NEW x \in Nat, x % 4 = 0
    PROVE  /\ x % PageSize \in 0 .. PageSize - 1
           /\ (PageSize - (x % PageSize)) % 4 = 0
<1>1. PageSize \in Nat /\ PageSize > 0 /\ PageSize % 4 = 0
  BY PageAssumption
<1>2. x % PageSize \in 0 .. PageSize - 1
  BY <1>1
<1>3. x = PageSize * (x \div PageSize) + (x % PageSize) /\ x \div PageSize \in Int
  BY <1>1, Division
<1>4. PICK y \in Int : x = 4 * y
  <2>1. x = 4 * (x \div 4) /\ x \div 4 \in Int
    OBVIOUS
  <2>. QED  BY <2>1
<1>5. PICK p \in Int : PageSize = 4 * p
  <2>1. PageSize = 4 * (PageSize \div 4) /\ PageSize \div 4 \in Int
    BY <1>1
  <2>. QED  BY <2>1
<1>. DEFINE q == x \div PageSize
            r == x % PageSize
<1>6. q \in Int /\ r \in Int /\ 4 * y = (4 * p) * q + r
  BY <1>2, <1>3, <1>4, <1>5
<1>. HIDE DEF q, r
<1>7. p * q \in Int
  BY <1>6
<1>8. (4 * p) * q = 4 * (p * q)
  BY <1>6
<1>9. \A z \in Int : 4 * y = 4 * z + r => (4 * p - r) % 4 = 0
  <2>. TAKE z \in Int
  <2>1. 4 * y = 4 * z + r => 4 * p - r = 4 * (p - y + z)
    BY <1>6
  <2>2. \A k \in Int : (4 * k) % 4 = 0
    OBVIOUS
  <2>. QED  BY <2>1, <2>2
<1>10. (4 * p - r) % 4 = 0
  BY <1>6, <1>7, <1>8, <1>9
<1>. QED  BY <1>2, <1>5, <1>10 DEF r, q

Access == [addr : Nat, size : Nat]

\* Accesses that the port can make follow each other from one address to another.
Chain(ps, from, to) ==
    /\ ps \in Seq(Access) /\ from \in Nat /\ to \in Nat /\ from <= to
    /\ \A i \in 1 .. Len(ps) :
        /\ Possible(ps[i]) /\ from <= ps[i].addr /\ ps[i].addr + ps[i].size <= to
        /\ ps[i].addr = IF i = 1 THEN from ELSE ps[i - 1].addr + ps[i - 1].size
    /\ to = IF Len(ps) = 0 THEN from ELSE ps[Len(ps)].addr + ps[Len(ps)].size

LEMMA AccessTypes == \A ps \in Seq(Access) : \A i \in 1 .. Len(ps) : ps[i].addr \in Nat /\ ps[i].size \in Nat
<1>1. \A ps \in Seq(Access) : \A i \in 1 .. Len(ps) : ps[i] \in Access
  OBVIOUS
<1>. QED  BY <1>1 DEF Access

LEMMA ChainOfNone == \A a \in Nat : Chain(<< >>, a, a)
<1>1. << >> \in Seq(Access) /\ Len(<< >>) = 0
  OBVIOUS
<1>. QED  BY <1>1 DEF Chain

LEMMA ChainOfOne ==
    ASSUME NEW a \in Nat, NEW n \in Nat, Possible([addr |-> a, size |-> n])
    PROVE  Chain(<< [addr |-> a, size |-> n] >>, a, a + n)
<1>. DEFINE e == [addr |-> a, size |-> n]
<1>1. e \in Access /\ e.addr = a /\ e.size = n /\ Possible(e)
  BY DEF Access
<1>. HIDE DEF e
<1>2. << e >> \in Seq(Access) /\ Len(<< e >>) = 1 /\ << e >>[1] = e
  BY <1>1
<1>. QED  BY <1>1, <1>2 DEF Chain, e

LEMMA ChainJoined ==
    ASSUME NEW a, NEW b, NEW c, NEW ps, NEW bs, Chain(ps, a, b), Chain(bs, b, c)
    PROVE  Chain(ps \o bs, a, c)
<1>. DEFINE cs == ps \o bs
<1>1. /\ ps \in Seq(Access) /\ bs \in Seq(Access) /\ a \in Nat /\ b \in Nat /\ c \in Nat /\ a <= b /\ b <= c
      /\ Len(ps) \in Nat /\ Len(bs) \in Nat
  BY DEF Chain
<1>2. /\ cs \in Seq(Access) /\ Len(cs) = Len(ps) + Len(bs)
      /\ \A i \in 1 .. Len(ps) : cs[i] = ps[i]
      /\ \A i \in Len(ps) + 1 .. Len(cs) : cs[i] = bs[i - Len(ps)]
  BY <1>1
<1>3. \A i \in 1 .. Len(ps) : ps[i].addr \in Nat /\ ps[i].size \in Nat
  BY <1>1, AccessTypes
<1>4. \A i \in 1 .. Len(bs) : bs[i].addr \in Nat /\ bs[i].size \in Nat
  BY <1>1, AccessTypes
<1>. HIDE DEF cs
<1>5. ASSUME NEW i \in 1 .. Len(cs)
      PROVE  /\ Possible(cs[i]) /\ a <= cs[i].addr /\ cs[i].addr + cs[i].size <= c
             /\ cs[i].addr = IF i = 1 THEN a ELSE cs[i - 1].addr + cs[i - 1].size
  <2>1. CASE i \in 1 .. Len(ps)
    <3>1. cs[i] = ps[i] /\ (i # 1 => i - 1 \in 1 .. Len(ps) /\ cs[i - 1] = ps[i - 1])
      BY <1>1, <1>2, <2>1
    <3>2. /\ Possible(ps[i]) /\ a <= ps[i].addr /\ ps[i].addr + ps[i].size <= b
          /\ ps[i].addr = IF i = 1 THEN a ELSE ps[i - 1].addr + ps[i - 1].size
      BY <2>1 DEF Chain
    <3>. QED  BY <1>1, <1>3, <2>1, <3>1, <3>2
  <2>2. CASE i \in Len(ps) + 1 .. Len(cs)
    <3>. DEFINE j == i - Len(ps)
    <3>1. j \in 1 .. Len(bs) /\ cs[i] = bs[j]
      BY <1>1, <1>2, <2>2
    <3>2. /\ Possible(bs[j]) /\ b <= bs[j].addr /\ bs[j].addr + bs[j].size <= c
          /\ bs[j].addr = IF j = 1 THEN b ELSE bs[j - 1].addr + bs[j - 1].size
      BY <3>1 DEF Chain
    <3>3. CASE j = 1
      <4>1. b = IF Len(ps) = 0 THEN a ELSE ps[Len(ps)].addr + ps[Len(ps)].size
        BY DEF Chain
      <4>2. i = Len(ps) + 1 /\ i - 1 = Len(ps) /\ (Len(ps) # 0 => cs[i - 1] = ps[Len(ps)])
        <5>1. i = Len(ps) + 1 /\ i - 1 = Len(ps)
          BY <1>1, <1>2, <2>2, <3>3
        <5>2. Len(ps) # 0 => Len(ps) \in 1 .. Len(ps)
          BY <1>1
        <5>. QED  BY <1>2, <5>1, <5>2
      <4>3. bs[j].addr = IF i = 1 THEN a ELSE cs[i - 1].addr + cs[i - 1].size
        BY <1>1, <3>2, <3>3, <4>1, <4>2
      <4>. QED  BY <1>1, <1>4, <3>1, <3>2, <4>3
    <3>4. CASE j # 1
      <4>1. i # 1 /\ i - 1 \in Len(ps) + 1 .. Len(cs) /\ (i - 1) - Len(ps) = j - 1
        BY <1>1, <1>2, <2>2, <3>1, <3>4
      <4>2. cs[i - 1] = bs[j - 1]
        BY <1>2, <4>1
      <4>3. bs[j].addr = bs[j - 1].addr + bs[j - 1].size
        BY <3>2, <3>4
      <4>4. a <= bs[j].addr
        BY <1>1, <1>4, <3>1, <3>2
      <4>. HIDE DEF j
      <4>. QED  BY <3>1, <3>2, <4>1, <4>2, <4>3, <4>4
    <3>. QED  BY <3>3, <3>4
  <2>. QED  BY <1>1, <1>2, <2>1, <2>2
<1>6. c = IF Len(cs) = 0 THEN a ELSE cs[Len(cs)].addr + cs[Len(cs)].size
  <2>1. CASE Len(bs) = 0
    <3>1. c = b /\ Len(cs) = Len(ps) /\ (Len(ps) # 0 => cs[Len(cs)] = ps[Len(ps)])
      BY <1>1, <1>2, <2>1 DEF Chain
    <3>2. b = IF Len(ps) = 0 THEN a ELSE ps[Len(ps)].addr + ps[Len(ps)].size
      BY DEF Chain
    <3>. QED  BY <3>1, <3>2
  <2>2. CASE Len(bs) # 0
    <3>1. Len(cs) \in Len(ps) + 1 .. Len(cs) /\ Len(cs) - Len(ps) = Len(bs) /\ Len(cs) # 0
      BY <1>1, <1>2, <2>2
    <3>2. cs[Len(cs)] = bs[Len(bs)]
      BY <1>2, <3>1
    <3>3. c = bs[Len(bs)].addr + bs[Len(bs)].size
      BY <2>2 DEF Chain
    <3>. QED  BY <3>1, <3>2, <3>3
  <2>. QED  BY <2>1, <2>2
<1>7. a <= c
  BY <1>1
<1>. QED  BY <1>1, <1>2, <1>5, <1>6, <1>7 DEF Chain, cs

\* The bytes of the accesses are those from the first to the last.
BytesOf(ps) == UNION {ps[i].addr .. ps[i].addr + ps[i].size - 1 : i \in 1 .. Len(ps)}

LEMMA ChainBytes ==
    ASSUME NEW ps, NEW a, NEW b, Chain(ps, a, b)
    PROVE  BytesOf(ps) = a .. b - 1
<1>1. a \in Nat /\ b \in Nat /\ ps \in Seq(Access) /\ Len(ps) \in Nat
  BY DEF Chain
<1>2. \A i \in 1 .. Len(ps) : ps[i].addr \in Nat /\ ps[i].size \in Nat
  BY <1>1, AccessTypes
<1>3. \A i \in 1 .. Len(ps) : a <= ps[i].addr /\ ps[i].addr + ps[i].size <= b
  BY DEF Chain
<1>4. ASSUME NEW x \in a .. b - 1
      PROVE  \E i \in 1 .. Len(ps) : x \in ps[i].addr .. ps[i].addr + ps[i].size - 1
  <2>. DEFINE Past == {i \in 1 .. Len(ps) : ps[i].addr + ps[i].size > x}
  <2>1. Len(ps) # 0
    BY <1>1, <1>4 DEF Chain
  <2>2. b = ps[Len(ps)].addr + ps[Len(ps)].size
    BY <2>1 DEF Chain
  <2>3. Len(ps) \in Past
    BY <1>1, <1>4, <2>1, <2>2
  <2>4. PICK i \in Past : \A j \in Past : i <= j
    <3>1. Past \in SUBSET Nat /\ Past # {}
      BY <1>1, <2>3
    <3>. HIDE DEF Past
    <3>. QED  BY <3>1, Least
  <2>5. i \in 1 .. Len(ps)
    OBVIOUS
  <2>6. ps[i].addr = IF i = 1 THEN a ELSE ps[i - 1].addr + ps[i - 1].size
    BY <2>5 DEF Chain
  <2>7. ps[i].addr <= x
    <3>1. CASE i = 1
      BY <1>1, <1>4, <2>6, <3>1
    <3>2. CASE i # 1
      <4>1. i - 1 \in 1 .. Len(ps) /\ ~(i <= i - 1)
        BY <1>1, <2>5, <3>2
      <4>2. ~(ps[i - 1].addr + ps[i - 1].size > x)
        BY <2>4, <4>1
      <4>. QED  BY <1>1, <1>2, <2>6, <3>2, <4>1, <4>2
    <3>. QED  BY <3>1, <3>2
  <2>8. x < ps[i].addr + ps[i].size
    OBVIOUS
  <2>. QED  BY <1>1, <1>2, <1>4, <2>5, <2>7, <2>8
<1>. QED  BY <1>1, <1>2, <1>3, <1>4 DEF BytesOf

\* A block of words is split into blocks that each stay within a page.
LEMMA PagesChain ==
    ASSUME NEW addr \in Nat, addr % 4 = 0, NEW words \in Nat
    PROVE  Chain(Pages(addr, words), addr, addr + 4 * words)
<1>. DEFINE Start(w) == addr + 4 * (words - w)
            Room(w) == PageSize - (Start(w) % PageSize)
            Size(w) == IF 4 * w < Room(w) THEN 4 * w ELSE Room(w)
            After(w) == w - Size(w) \div 4
            Body(g, w) == IF w = 0 THEN << >> ELSE << [addr |-> Start(w), size |-> Size(w)] >> \o g[After(w)]
            split == CHOOSE g : g = [w \in 0 .. words |-> Body(g, w)]
<1>1. Pages(addr, words) = split[words]
  BY DEF Pages
<1>2. ASSUME NEW w \in 1 .. words
      PROVE  /\ Start(w) \in Nat /\ Size(w) \in 1 .. 4 * w /\ After(w) \in 0 .. w - 1
             /\ Start(w) + Size(w) = Start(After(w)) /\ Possible([addr |-> Start(w), size |-> Size(w)])
  <2>1. Start(w) \in Nat /\ Start(w) % 4 = 0
    BY <1>2
  <2>. HIDE DEF Start
  <2>2. Start(w) % PageSize \in 0 .. PageSize - 1 /\ Room(w) % 4 = 0
    BY <2>1, PageRoom
  <2>3. PageSize \in Nat
    BY PageAssumption
  <2>4. Room(w) \in Nat \ {0} /\ (Start(w) % PageSize) + Room(w) = PageSize
    BY <2>2, <2>3
  <2>. HIDE DEF Room
  <2>5. Size(w) \in 1 .. 4 * w /\ Size(w) % 4 = 0 /\ (Start(w) % PageSize) + Size(w) <= PageSize
    BY <1>2, <2>2, <2>3, <2>4
  <2>. HIDE DEF Size
  <2>6. Size(w) \div 4 \in 1 .. w /\ 4 * (Size(w) \div 4) = Size(w)
    BY <1>2, <2>5
  <2>7. After(w) \in 0 .. w - 1
    BY <1>2, <2>6
  <2>8. Start(w) + Size(w) = Start(After(w))
    <3>. DEFINE k == Size(w) \div 4
    <3>1. k \in Int /\ w \in Int /\ Size(w) = 4 * k /\ After(w) = w - k
      BY <1>2, <2>6
    <3>. HIDE DEF k, Next
    <3>. QED  BY <3>1 DEF Start
  <2>9. Possible([addr |-> Start(w), size |-> Size(w)])
    BY <1>2, <2>1, <2>5 DEF Possible
  <2>. QED  BY <2>1, <2>5, <2>7, <2>8, <2>9
<1>3. Start(0) = addr + 4 * words /\ Start(words) = addr
  OBVIOUS
<1>. HIDE DEF Start, Size, Next
<1>. DEFINE Later == \A w \in 1 .. words : After(w) \in 0 .. w - 1
<1>10. Later
  BY <1>2
<1>4. \E g : g = [w \in 0 .. words |-> Body(g, w)]
  <2>. DEFINE Solves(m) == \E g : g = [w \in 0 .. m |-> Body(g, w)]
              Bad == {m \in 0 .. words : ~Solves(m)}
  <2>1. Solves(0)
    <3>1. [w \in 0 .. 0 |-> << >>] = [w \in 0 .. 0 |-> Body([v \in 0 .. 0 |-> << >>], w)]
      OBVIOUS
    <3>. QED  BY <3>1
  <2>2. ASSUME NEW m \in 1 .. words, Solves(m - 1)
        PROVE  Solves(m)
    <3>1. PICK g : g = [w \in 0 .. m - 1 |-> Body(g, w)]
      BY <2>2
    <3>. DEFINE h == [w \in 0 .. m |-> Body(g, w)]
    <3>2. \A w \in 0 .. m - 1 : h[w] = g[w]
      <4>1. \A w \in 0 .. m - 1 : g[w] = Body(g, w)
        BY <3>1
      <4>. HIDE DEF Body
      <4>. QED  BY <4>1
    <3>3. \A w \in 0 .. m : Body(h, w) = Body(g, w)
      <4>1. \A w \in 0 .. m : w # 0 => After(w) \in 0 .. m - 1
        <5>1. \A w \in 0 .. m : w # 0 => w \in 1 .. words /\ w - 1 <= m - 1
          OBVIOUS
        <5>. QED  BY <1>10, <5>1
      <4>. HIDE DEF h
      <4>. QED  BY <3>2, <4>1
    <3>4. h = [w \in 0 .. m |-> Body(h, w)]
      <4>. HIDE DEF Body
      <4>. QED  BY <3>3
    <3>. QED  BY <3>4
  <2>. HIDE DEF Solves
  <2>3. Bad = {}
    <3>. SUFFICES ASSUME Bad # {} PROVE FALSE
      OBVIOUS
    <3>1. PICK m \in Bad : \A k \in Bad : m <= k
      <4>1. Bad \in SUBSET Nat
        OBVIOUS
      <4>. HIDE DEF Bad
      <4>. QED  BY <4>1, Least
    <3>2. m # 0 /\ m - 1 \notin Bad
      BY <2>1, <3>1
    <3>. QED  BY <2>2, <3>1, <3>2
  <2>4. Solves(words)
    BY <2>3
  <2>. QED  BY <2>4 DEF Solves
<1>5. split = [w \in 0 .. words |-> Body(split, w)]
  BY <1>4
<1>. HIDE DEF split
<1>6. split[0] = << >> /\ \A w \in 1 .. words :
          split[w] = << [addr |-> Start(w), size |-> Size(w)] >> \o split[After(w)]
  <2>1. \A w \in 0 .. words : split[w] = Body(split, w)
    BY <1>5
  <2>2. 0 \in 0 .. words /\ \A w \in 1 .. words : w \in 0 .. words /\ w # 0
    OBVIOUS
  <2>. QED  BY <2>1, <2>2
<1>. HIDE DEF Body
<1>7. \A w \in 0 .. words : Chain(split[w], Start(w), Start(0))
  <2>. DEFINE Bad == {w \in 0 .. words : ~Chain(split[w], Start(w), Start(0))}
  <2>. SUFFICES ASSUME Bad # {} PROVE FALSE
    OBVIOUS
  <2>1. PICK w \in Bad : \A v \in Bad : w <= v
    <3>1. Bad \in SUBSET Nat
      OBVIOUS
    <3>. HIDE DEF Bad
    <3>. QED  BY <3>1, Least
  <2>2. CASE w = 0
    BY <1>3, <1>6, <2>1, <2>2, ChainOfNone
  <2>3. CASE w # 0
    <3>1. w \in 1 .. words
      BY <2>3
    <3>2. After(w) \in 0 .. words /\ After(w) \notin Bad
      <4>1. After(w) \in 0 .. w - 1
        BY <1>10, <3>1
      <4>2. After(w) \in 0 .. words /\ ~(w <= After(w))
        BY <3>1, <4>1
      <4>. QED  BY <2>1, <4>2
    <3>3. Chain(split[After(w)], Start(After(w)), Start(0))
      BY <3>2
    <3>4. Chain(<< [addr |-> Start(w), size |-> Size(w)] >>, Start(w), Start(w) + Size(w))
      <4>1. Start(w) \in Nat /\ Size(w) \in Nat /\ Possible([addr |-> Start(w), size |-> Size(w)])
        BY <1>2, <3>1
      <4>. QED  BY <4>1, ChainOfOne
    <3>5. Start(w) + Size(w) = Start(After(w))
      BY <1>2, <3>1
    <3>6. Chain(<< [addr |-> Start(w), size |-> Size(w)] >> \o split[After(w)], Start(w), Start(0))
      BY <3>3, <3>4, <3>5, ChainJoined
    <3>. QED  BY <1>6, <2>1, <3>1, <3>6
  <2>. QED  BY <2>2, <2>3
<1>. QED  BY <1>1, <1>3, <1>7

LEMMA PossibleByte == \A a \in Nat : Possible([addr |-> a, size |-> 1])
<1>1. \A a \in Nat : a % 1 = 0
  OBVIOUS
<1>. QED  BY <1>1 DEF Possible

LEMMA PossibleHalf == \A a \in Nat : a % 2 = 0 => Possible([addr |-> a, size |-> 2])
  BY DEF Possible

\* What has been split of a range, and what is left of it.
Rest(l, from, to) == Chain(l.made, from, l.addr) /\ l.size \in Nat /\ l.addr + l.size = to

LEMMA TookRest ==
    ASSUME NEW l, NEW from, NEW to, Rest(l, from, to), NEW n \in 1 .. l.size,
           Possible([addr |-> l.addr, size |-> n])
    PROVE  Rest(Took(l, n), from, to) /\ Took(l, n).addr = l.addr + n /\ Took(l, n).size = l.size - n
<1>1. l.addr \in Nat /\ l.size \in Nat /\ n \in Nat /\ l.addr + l.size = to
  BY DEF Rest, Chain
<1>2. Chain(<< [addr |-> l.addr, size |-> n] >>, l.addr, l.addr + n)
  BY <1>1, ChainOfOne
<1>3. Chain(l.made \o << [addr |-> l.addr, size |-> n] >>, from, l.addr + n)
  BY <1>2, ChainJoined DEF Rest
<1>. DEFINE more == l.made \o << [addr |-> l.addr, size |-> n] >>
            m == Took(l, n)
<1>4. m.addr = l.addr + n /\ m.size = l.size - n /\ m.made = more
  BY DEF Took, Left
<1>. HIDE DEF more, m
<1>5. Chain(m.made, from, m.addr)
  BY <1>3, <1>4 DEF more
<1>6. m.size \in Nat /\ m.addr + m.size = to
  BY <1>1, <1>4
<1>7. Rest(m, from, to)
  BY <1>5, <1>6 DEF Rest
<1>. QED  BY <1>4, <1>7 DEF m

LEMMA RestTypes ==
    ASSUME NEW l, NEW from, NEW to, Rest(l, from, to)
    PROVE  l.addr \in Nat /\ l.size \in Nat
  BY DEF Rest, Chain

LEMMA OddByteRest ==
    ASSUME NEW l, NEW from, NEW to, Rest(l, from, to)
    PROVE  /\ Rest(OddByte(l), from, to)
           /\ OddByte(l).size = 0 \/ OddByte(l).addr % 2 = 0
<1>1. l.addr \in Nat /\ l.size \in Nat
  BY RestTypes
<1>2. CASE l.size > 0 /\ l.addr % 2 = 1
  <2>1. OddByte(l) = Took(l, 1) /\ 1 \in 1 .. l.size
    BY <1>1, <1>2 DEF OddByte
  <2>2. Rest(Took(l, 1), from, to) /\ Took(l, 1).addr = l.addr + 1
    BY <1>1, <2>1, PossibleByte, TookRest
  <2>3. (l.addr + 1) % 2 = 0
    BY <1>1, <1>2
  <2>. QED  BY <2>1, <2>2, <2>3
<1>3. CASE ~(l.size > 0 /\ l.addr % 2 = 1)
  <2>1. OddByte(l) = l
    BY <1>3 DEF OddByte
  <2>. QED  BY <1>1, <1>3, <2>1
<1>. QED  BY <1>2, <1>3

LEMMA OddHalfRest ==
    ASSUME NEW l, NEW from, NEW to, Rest(l, from, to), l.size = 0 \/ l.addr % 2 = 0
    PROVE  /\ Rest(OddHalf(l), from, to)
           /\ OddHalf(l).size = 0 \/ OddHalf(l).addr % 2 = 0
           /\ OddHalf(l).size <= 1 \/ OddHalf(l).addr % 4 = 0
<1>1. l.addr \in Nat /\ l.size \in Nat
  BY RestTypes
<1>2. CASE l.size > 1 /\ l.addr % 4 \in {2, 3}
  <2>1. OddHalf(l) = Took(l, 2) /\ 2 \in 1 .. l.size /\ l.addr % 2 = 0
    BY <1>1, <1>2 DEF OddHalf
  <2>2. Rest(Took(l, 2), from, to) /\ Took(l, 2).addr = l.addr + 2
    BY <1>1, <2>1, PossibleHalf, TookRest
  <2>3. (l.addr + 2) % 4 = 0 /\ (l.addr + 2) % 2 = 0
    BY <1>1, <1>2, <2>1
  <2>. QED  BY <2>1, <2>2, <2>3
<1>3. CASE ~(l.size > 1 /\ l.addr % 4 \in {2, 3})
  <2>1. OddHalf(l) = l
    BY <1>3 DEF OddHalf
  <2>2. l.size <= 1 \/ l.addr % 4 = 0
    BY <1>1, <1>3
  <2>. QED  BY <1>1, <2>1, <2>2
<1>. QED  BY <1>2, <1>3

LEMMA WordsRest ==
    ASSUME NEW l, NEW from, NEW to, Rest(l, from, to),
           l.size = 0 \/ l.addr % 2 = 0, l.size <= 1 \/ l.addr % 4 = 0
    PROVE  Rest(Words(l), from, to) /\ Words(l).size <= 3 /\ (Words(l).size = 0 \/ Words(l).addr % 2 = 0)
<1>1. l.addr \in Nat /\ l.size \in Nat /\ l.addr + l.size = to
  BY RestTypes DEF Rest
<1>. DEFINE k == l.size \div 4
            n == 4 * k
<1>2. k \in Nat /\ n \div 4 = k /\ n <= l.size /\ l.size - n <= 3
  BY <1>1
<1>3. CASE n > 0
  <2>. DEFINE m == Left(l.addr + n, l.size - n, l.made \o Pages(l.addr, k))
              more == l.made \o Pages(l.addr, k)
  <2>1. Words(l) = m
    BY <1>2, <1>3 DEF Words
  <2>2. m.addr = l.addr + n /\ m.size = l.size - n /\ m.made = more
    BY DEF Left
  <2>. HIDE DEF m, more, k
  <2>3. l.addr % 4 = 0
    BY <1>1, <1>2, <1>3
  <2>4. Chain(Pages(l.addr, k), l.addr, l.addr + n)
    BY <1>1, <1>2, <2>3, PagesChain
  <2>5. Chain(more, from, l.addr + n)
    BY <2>4, ChainJoined DEF Rest, more
  <2>6. m.size \in Nat /\ m.addr + m.size = to /\ m.size <= 3 /\ m.addr % 2 = 0
    BY <1>1, <1>2, <2>2, <2>3
  <2>7. Chain(m.made, from, m.addr)
    BY <2>2, <2>5
  <2>. QED  BY <2>1, <2>6, <2>7 DEF Rest
<1>4. CASE ~(n > 0)
  <2>1. Words(l) = l
    BY <1>4 DEF Words
  <2>2. l.size <= 3
    BY <1>1, <1>2, <1>4
  <2>. QED  BY <2>1, <2>2
<1>. QED  BY <1>3, <1>4

LEMMA LastHalfRest ==
    ASSUME NEW l, NEW from, NEW to, Rest(l, from, to), l.size <= 3, l.size = 0 \/ l.addr % 2 = 0
    PROVE  Rest(LastHalf(l), from, to) /\ LastHalf(l).size <= 1
<1>1. l.addr \in Nat /\ l.size \in Nat
  BY RestTypes
<1>2. CASE l.size > 1
  <2>1. LastHalf(l) = Took(l, 2) /\ 2 \in 1 .. l.size /\ l.addr % 2 = 0
    BY <1>1, <1>2 DEF LastHalf
  <2>2. Rest(Took(l, 2), from, to) /\ Took(l, 2).size = l.size - 2
    BY <1>1, <2>1, PossibleHalf, TookRest
  <2>. QED  BY <1>1, <2>1, <2>2
<1>3. CASE ~(l.size > 1)
  BY <1>1, <1>3 DEF LastHalf
<1>. QED  BY <1>2, <1>3

LEMMA LastByteRest ==
    ASSUME NEW l, NEW from, NEW to, Rest(l, from, to), l.size <= 1
    PROVE  Rest(LastByte(l), from, to) /\ LastByte(l).size = 0
<1>1. l.addr \in Nat /\ l.size \in Nat
  BY RestTypes
<1>2. CASE l.size > 0
  <2>1. LastByte(l) = Took(l, 1) /\ 1 \in 1 .. l.size
    BY <1>1, <1>2 DEF LastByte
  <2>2. Rest(Took(l, 1), from, to) /\ Took(l, 1).size = l.size - 1
    BY <1>1, <2>1, PossibleByte, TookRest
  <2>. QED  BY <1>1, <2>1, <2>2
<1>3. CASE ~(l.size > 0)
  BY <1>1, <1>3 DEF LastByte
<1>. QED  BY <1>2, <1>3

LEMMA AccessesChain ==
    ASSUME NEW addr \in Nat, NEW size \in Nat
    PROVE  Chain(Accesses(addr, size), addr, addr + size)
<1>. DEFINE a == Left(addr, size, << >>)
            b == OddByte(a)
            c == OddHalf(b)
            d == Words(c)
            e == LastHalf(d)
            f == LastByte(e)
<1>1. Rest(a, addr, addr + size)
  BY ChainOfNone DEF Rest, Left
<1>2. Accesses(addr, size) = f.made
  BY DEF Accesses
<1>. HIDE DEF a
<1>3. Rest(b, addr, addr + size) /\ (b.size = 0 \/ b.addr % 2 = 0)
  BY <1>1, OddByteRest
<1>. HIDE DEF b
<1>4. /\ Rest(c, addr, addr + size) /\ (c.size = 0 \/ c.addr % 2 = 0)
      /\ c.size <= 1 \/ c.addr % 4 = 0
  BY <1>3, OddHalfRest
<1>. HIDE DEF c
<1>5. Rest(d, addr, addr + size) /\ d.size <= 3 /\ (d.size = 0 \/ d.addr % 2 = 0)
  BY <1>4, WordsRest
<1>. HIDE DEF d
<1>6. Rest(e, addr, addr + size) /\ e.size <= 1
  BY <1>5, LastHalfRest
<1>. HIDE DEF e
<1>7. Rest(f, addr, addr + size) /\ f.size = 0
  BY <1>6, LastByteRest
<1>. HIDE DEF f
<1>8. f.addr \in Nat /\ f.addr = addr + size
  <2>1. f.addr \in Nat
    BY <1>7, RestTypes
  <2>2. f.addr + f.size = addr + size
    BY <1>7 DEF Rest
  <2>. QED  BY <1>7, <2>1, <2>2
<1>. QED  BY <1>2, <1>7, <1>8 DEF Rest

(* The accesses that a range is split into are such that the port can make *)
(* them, one after another, and make up the range: for every address,      *)
(* every length and every size of page.                                    *)
THEOREM RangesAreSplit == \A addr \in Nat, size \in Nat : SplitsRight(addr, size)
<1>. SUFFICES ASSUME NEW addr \in Nat, NEW size \in Nat
              PROVE  SplitsRight(addr, size)
  OBVIOUS
<1>. DEFINE made == Accesses(addr, size)
<1>1. Chain(made, addr, addr + size)
  BY AccessesChain
<1>. HIDE DEF made
<1>2. made \in Seq(Access) /\ Len(made) \in Nat /\ DOMAIN made = 1 .. Len(made)
  BY <1>1 DEF Chain
<1>3. \A i \in 1 .. Len(made) : made[i].addr \in Nat /\ made[i].size \in Nat /\ made[i].size # 0
  <2>1. \A i \in 1 .. Len(made) : made[i].addr \in Nat /\ made[i].size \in Nat
    BY <1>2, AccessTypes
  <2>2. \A i \in 1 .. Len(made) : Possible(made[i])
    BY <1>1 DEF Chain
  <2>3. \A i \in 1 .. Len(made) : made[i].size # 0
    BY <2>1, <2>2 DEF Possible
  <2>. QED  BY <2>1, <2>3
<1>4. IF size = 0 THEN made = << >> ELSE Last(made).addr + Last(made).size = addr + size
  <2>1. CASE Len(made) = 0
    <3>1. made = << >> /\ size = 0
      BY <1>1, <1>2, <2>1, EmptySeq DEF Chain
    <3>. QED  BY <3>1
  <2>2. CASE Len(made) # 0
    <3>1. Last(made).addr + Last(made).size = addr + size
      BY <1>1, <2>2 DEF Chain, Last
    <3>2. Len(made) \in 1 .. Len(made)
      BY <1>2, <2>2
    <3>3. addr <= made[Len(made)].addr
      BY <1>1, <3>2 DEF Chain
    <3>4. size # 0
      BY <1>3, <3>1, <3>2, <3>3 DEF Last
    <3>. QED  BY <3>1, <3>4
  <2>. QED  BY <2>1, <2>2
<1>5. /\ \A i \in DOMAIN made : Possible(made[i])
      /\ \A i \in DOMAIN made : made[i].addr = IF i = 1 THEN addr ELSE made[i - 1].addr + made[i - 1].size
  BY <1>1, <1>2 DEF Chain
<1>. QED  BY <1>4, <1>5 DEF SplitsRight, made

-----------------------------------------------------------------------------
(* What is kept of breakpoints *)

\* A calls of remove_all_breakpoints goes through breakpoints of the table.
TableShape ==
    /\ DOMAIN table \subseteq Breakable /\ IsFiniteSet(DOMAIN table) /\ DOMAIN soft \subseteq Breakable
    /\ removing \in Seq(DOMAIN table)
    /\ \A a \in DOMAIN table : table[a].slot = 0 => DOMAIN table[a].original = Half(a)

MemoryShape == DOMAIN mem = Mapped /\ DOMAIN program = Mapped

Sure == Mapped \ doubted

\* The filter knows the program's bytes under each breakpoint it hides,
FilterRight == \A a \in DOMAIN soft : \A b \in Half(a) \cap Sure : soft[a][b] = program[b]

\* memory holds the others,
MemoryRight == \A b \in Sure : (\A a \in DOMAIN soft : b \notin Half(a)) => mem[b] = program[b]

\* and what is put back is what the filter shows.
OriginalsRight ==
    \A a \in DOMAIN table : table[a].slot = 0 /\ a \in DOMAIN soft =>
        \A b \in Half(a) \cap Sure : table[a].original[b] = program[b]

HiddenInv == TableShape /\ MemoryShape /\ FilterRight /\ MemoryRight /\ OriginalsRight

LEMMA HiddenInit == Init => HiddenInv
<1>. SUFFICES ASSUME Init PROVE HiddenInv
  OBVIOUS
<1>1. table = << >> /\ soft = << >> /\ removing = << >> /\ mem = [b \in Mapped |-> 0] /\ program = mem
  BY DEF Init, BpInit
<1>2. DOMAIN table = {} /\ DOMAIN soft = {}
  BY <1>1
<1>3. TableShape
  BY <1>1, <1>2, FS_EmptySet DEF TableShape
<1>. QED
  BY <1>1, <1>2, <1>3 DEF HiddenInv, MemoryShape, FilterRight, MemoryRight, OriginalsRight, Sure

\* What leaves memory and the tables alone.
LEMMA HiddenQuiet ==
    ASSUME HiddenInv, UNCHANGED <<mem, program, doubted, table, soft>>, removing' \in Seq(DOMAIN table)
    PROVE  HiddenInv'
  BY DEF HiddenInv, TableShape, MemoryShape, FilterRight, MemoryRight, OriginalsRight, Sure

\* The program changes its data, which are no breakpoint's.
LEMMA HiddenFlip ==
    ASSUME HiddenInv, Flip, UNCHANGED <<doubted, table, soft, removing>>
    PROVE  HiddenInv'
<1>. DEFINE flipped == [b \in Stored |-> 1 - mem[b]]
<1>1. mem' = Over(flipped, mem) /\ program' = Over(flipped, program) /\ DOMAIN flipped = Stored
  BY DEF Flip
<1>. HIDE DEF flipped
<1>2. MemoryShape'
  BY <1>1, OverIs DEF HiddenInv, MemoryShape
<1>3. \A b \in Mapped :
          IF b \in Stored THEN mem'[b] = program'[b] ELSE mem'[b] = mem[b] /\ program'[b] = program[b]
  BY <1>1, OverIs DEF HiddenInv, MemoryShape
<1>4. \A a \in Breakable : \A b \in Half(a) : b \notin Stored
  BY BreakableFacts DEF Halves
<1>5. TableShape'
  BY DEF HiddenInv, TableShape
<1>6. FilterRight' /\ OriginalsRight'
  BY <1>3, <1>4 DEF HiddenInv, TableShape, FilterRight, OriginalsRight, Sure
<1>7. MemoryRight'
  BY <1>3 DEF HiddenInv, MemoryRight, Sure
<1>. QED  BY <1>2, <1>5, <1>6, <1>7 DEF HiddenInv

\* What a read of the core returns of bytes that are sure.
LEMMA ReadIsRight ==
    ASSUME HiddenInv, NEW addr \in Int, NEW size \in {1, 2, 4}, addr % size = 0,
           NEW b \in Bytes(addr, size), b \in Sure
    PROVE  ReadMemory(addr, size)[b] = program[b]
<1>1. ReadMemory(addr, size)[b] =
          IF \E a \in DOMAIN soft : Hides(a, addr, size) /\ b \in Half(a)
          THEN soft[CHOOSE a \in DOMAIN soft : b \in Half(a)][b] ELSE mem[b]
  BY DEF ReadMemory, FilterMemory
<1>2. \A a \in DOMAIN soft : b \in Half(a) => Hides(a, addr, size)
  <2>. SUFFICES ASSUME NEW a \in DOMAIN soft, b \in Half(a)
                PROVE  Hides(a, addr, size)
    OBVIOUS
  <2>1. a \in Nat /\ a % 2 = 0
    BY BreakableFacts DEF HiddenInv, TableShape
  <2>2. b \in addr .. addr + size - 1 /\ b \in {a, a + 1}
    BY DEF Bytes, LastOf, Half
  <2>3. CASE size = 1
    BY <2>1, <2>2, <2>3 DEF Hides
  <2>4. CASE size = 2
    BY <2>1, <2>2, <2>4 DEF Hides
  <2>5. CASE size = 4
    <3>1. addr % 4 = 0 /\ b \in addr .. addr + 3
      BY <2>2, <2>5
    <3>2. a = addr \/ a = addr + 2
      BY <2>1, <2>2, <3>1
    <3>. QED  BY <2>5, <3>2 DEF Hides
  <2>. QED  BY <2>3, <2>4, <2>5
<1>3. CASE \E a \in DOMAIN soft : b \in Half(a)
  <2>1. PICK a \in DOMAIN soft : a = CHOOSE c \in DOMAIN soft : b \in Half(c)
    BY <1>3
  <2>2. b \in Half(a)
    BY <1>3, <2>1
  <2>3. soft[a][b] = program[b]
    BY <2>2 DEF HiddenInv, FilterRight
  <2>. QED  BY <1>1, <1>2, <1>3, <2>1, <2>3
<1>4. CASE \A a \in DOMAIN soft : b \notin Half(a)
  BY <1>1, <1>4 DEF HiddenInv, MemoryRight
<1>. QED  BY <1>3, <1>4

LEMMA HiddenFollows == HiddenInv => BreakpointsHidden
<1>. SUFFICES ASSUME HiddenInv, NEW addr \in Ram, NEW size \in {1, 2, 4},
                     addr % size = 0, Bytes(addr, size) \subseteq Ram \ doubted
              PROVE  /\ ReadMemory(addr, size) = [b \in Bytes(addr, size) |-> program[b]]
                     /\ ReadMemoryBlock8(addr, size) = [b \in Bytes(addr, size) |-> program[b]]
  BY DEF BreakpointsHidden
<1>2. addr \in Int
  BY RegionBounds DEF Ram, Mapped, Bytes, LastOf
<1>3. \A b \in Bytes(addr, size) : b \in Sure /\ b \in Int
  BY <1>2 DEF Sure, Ram, Bytes, LastOf
<1>4. \A b \in Bytes(addr, size) : ReadMemory(addr, size)[b] = program[b]
  BY <1>2, <1>3, ReadIsRight
<1>5. \A b \in Bytes(addr, size) : ReadMemory(b, 1)[b] = program[b]
  <2>1. \A b \in Int : b \in Bytes(b, 1) /\ b % 1 = 0
    BY DEF Bytes, LastOf
  <2>. QED  BY <1>3, <2>1, ReadIsRight
<1>6. ReadMemory(addr, size) = [b \in Bytes(addr, size) |-> program[b]]
  BY <1>4 DEF ReadMemory, FilterMemory
<1>. QED  BY <1>5, <1>6 DEF ReadMemoryBlock8

\* The comparators and what the code keeps of them.
Slots == [enabled : BOOLEAN, addr : Breakable \cup {0}]
Comps == [1 .. Comparators -> Breakable \cup {Free}]

UnitTypes ==
    /\ slots \in [1 .. Comparators -> Slots]
    /\ used \in Int /\ used <= Comparators /\ enabled \in BOOLEAN
    /\ unit \in [on : BOOLEAN, comp : Comps]

LEMMA UnitOfSet ==
    ASSUME UnitTypes, NEW addr \in Breakable, SetHardware(addr)
    PROVE  UnitTypes'
<1>. DEFINE found == AvailableBreakpoints # 0 /\ FreeSlots # {}
            first == IF enabled THEN 0 ELSE 1
            n == first + IF found THEN 1 ELSE 0
            i == FirstOf(FreeSlots)
<1>1. PICK out \in Outcomes([j \in 1 .. n |-> "write"]) :
        /\ enabled' = (enabled \/ Passed(out, first))
        /\ unit' = [on |-> unit.on \/ (first = 1 /\ Made(out, 1)),
                    comp |-> IF found /\ Made(out, n) THEN [unit.comp EXCEPT ![i] = addr] ELSE unit.comp]
        /\ IF found /\ Passed(out, n) THEN Enter(i, addr)
           ELSE /\ slots' = IF found /\ Passed(out, first) THEN [slots EXCEPT ![i].enabled = TRUE] ELSE slots
                /\ UNCHANGED used
  BY DEF SetHardware
<1>. HIDE DEF first, n, i
<1>2. (\A m : Passed(out, m) \in BOOLEAN) /\ (\A m : Made(out, m) \in BOOLEAN)
  BY DEF Passed, Made
<1>3. enabled' \in BOOLEAN
  BY <1>1, <1>2 DEF UnitTypes
<1>4. unit' \in [on : BOOLEAN, comp : Comps]
  <2>1. [unit.comp EXCEPT ![i] = addr] \in Comps /\ unit.comp \in Comps
    BY DEF UnitTypes, Comps
  <2>. QED  BY <1>1, <1>2, <2>1 DEF UnitTypes
<1>5. slots' \in [1 .. Comparators -> Slots]
  <2>1. [enabled |-> TRUE, addr |-> addr] \in Slots /\ \A r \in Slots : [r EXCEPT !.enabled = TRUE] \in Slots
    BY DEF Slots
  <2>2. slots \in [1 .. Comparators -> Slots]
    BY DEF UnitTypes
  <2>3. \/ slots' = slots
        \/ slots' = [slots EXCEPT ![i].enabled = TRUE]
        \/ slots' = [slots EXCEPT ![i] = [enabled |-> TRUE, addr |-> addr]]
    BY <1>1 DEF Enter
  <2>. QED  BY <2>1, <2>2, <2>3
<1>6. used' \in Int /\ used' <= Comparators
  BY <1>1, Bounds DEF UnitTypes, Enter, AvailableBreakpoints
<1>. QED  BY <1>3, <1>4, <1>5, <1>6 DEF UnitTypes

LEMMA UnitOfRemoval ==
    ASSUME UnitTypes, NEW addr, RemoveFrom(addr)
    PROVE  UnitTypes'
<1>1. CASE UNCHANGED unitVars
  BY <1>1 DEF UnitTypes, unitVars
<1>2. CASE RemoveHardware(table[addr].slot) /\ SlotsFor(table[addr].slot) # {}
  <2>. DEFINE j == FirstOf(SlotsFor(table[addr].slot))
  <2>1. /\ slots' = [slots EXCEPT ![j].enabled = FALSE]
        /\ used' \in {used, used - 1} /\ enabled' = enabled
        /\ unit' \in {unit, [unit EXCEPT !.comp[j] = Free]}
    BY <1>2 DEF RemoveHardware
  <2>. HIDE DEF j
  <2>2. slots' \in [1 .. Comparators -> Slots]
    <3>1. \A r \in Slots : [r EXCEPT !.enabled = FALSE] \in Slots
      BY DEF Slots
    <3>. QED  BY <2>1, <3>1 DEF UnitTypes
  <2>3. used' \in Int /\ used' <= Comparators
    BY <2>1, Bounds DEF UnitTypes
  <2>4. unit' \in [on : BOOLEAN, comp : Comps]
    <3>1. [unit.comp EXCEPT ![j] = Free] \in Comps /\ unit \in [on : BOOLEAN, comp : Comps]
      BY DEF UnitTypes, Comps
    <3>2. [unit EXCEPT !.comp[j] = Free] \in [on : BOOLEAN, comp : Comps]
      BY <3>1
    <3>. QED  BY <2>1, <3>1, <3>2
  <2>. QED  BY <2>1, <2>2, <2>3, <2>4 DEF UnitTypes
<1>. QED  BY <1>1, <1>2 DEF RemoveFrom, RemoveHardware

\* What is neither set nor removed leaves the breakpoint unit alone.
LEMMA UnitUntouched ==
    ASSUME [Next]_vars, ~SetBreakpoint, ~RemoveBreakpoint, ~RemoveNext
    PROVE  UNCHANGED unitVars
<1>1. CASE RemoveAllBreakpoints \/ Resume \/ Halt \/ Step \/ Execute \/ Wake
  BY <1>1 DEF RemoveAllBreakpoints, Resume, Halt, Step, Execute, Wake, Quiet
<1>2. CASE Read
  BY <1>2 DEF Read, CacheChecked
<1>3. CASE Write
  BY <1>3 DEF Write, CacheChecked
<1>4. CASE Invalidate \/ UNCHANGED vars
  BY <1>4 DEF Invalidate, vars, bpVars
<1>. QED  BY <1>1, <1>2, <1>3, <1>4 DEF Next, BpNext

LEMMA UnitTyped ==
    ASSUME UnitTypes, [Next]_vars
    PROVE  UnitTypes'
<1>1. CASE SetBreakpoint
  BY <1>1, UnitOfSet DEF SetBreakpoint, SetSoftware, unitVars, UnitTypes
<1>2. CASE RemoveBreakpoint \/ RemoveNext
  BY <1>2, UnitOfRemoval DEF RemoveBreakpoint, RemoveNext
<1>3. CASE ~SetBreakpoint /\ ~RemoveBreakpoint /\ ~RemoveNext
  BY <1>3, UnitUntouched DEF UnitTypes, unitVars
<1>. QED  BY <1>1, <1>2, <1>3

LEMMA UnitInit == Init => UnitTypes
<1>. SUFFICES ASSUME Init PROVE UnitTypes
  OBVIOUS
<1>1. /\ slots = [i \in 1 .. Comparators |-> [enabled |-> FALSE, addr |-> 0]]
      /\ used = 0 /\ enabled = FALSE
      /\ unit = [on |-> FALSE, comp |-> [i \in 1 .. Comparators |-> Free]]
  BY DEF Init, BpInit
<1>2. [enabled |-> FALSE, addr |-> 0] \in Slots
  BY DEF Slots
<1>3. [i \in 1 .. Comparators |-> Free] \in Comps
  BY DEF Comps
<1>4. unit \in [on : BOOLEAN, comp : Comps]
  BY <1>1, <1>3
<1>5. slots \in [1 .. Comparators -> Slots]
  BY <1>1, <1>2
<1>6. used \in Int /\ used <= Comparators
  BY <1>1, Bounds
<1>. QED  BY <1>1, <1>4, <1>5, <1>6 DEF UnitTypes

LEMMA FirstFree ==
    ASSUME NEW is \in SUBSET (1 .. Comparators), is # {}
    PROVE  FirstOf(is) \in is
<1>1. is \in SUBSET Nat
  BY Bounds
<1>2. \E m \in is : \A k \in is : m <= k
  BY <1>1, Least
<1>. QED  BY <1>2 DEF FirstOf

LEMMA HiddenSetHardware ==
    ASSUME HiddenInv, UnitTypes, NEW addr \in Breakable \ DOMAIN table, SetHardware(addr), Idle
    PROVE  HiddenInv'
<1>1. UNCHANGED <<mem, program, doubted, soft, removing>>
  BY DEF SetHardware, memVars
<1>2. CASE UNCHANGED table
  BY <1>1, <1>2, HiddenQuiet DEF HiddenInv, TableShape
<1>3. CASE table' # table
  <2>. DEFINE i == FirstOf(FreeSlots)
              entry == [slot |-> i, original |-> << >>]
  <2>1. table' = With(table, addr, entry) /\ FreeSlots # {}
    BY <1>3 DEF SetHardware
  <2>2. i # 0
    <3>1. FreeSlots \in SUBSET (1 .. Comparators)
      BY DEF FreeSlots, UnitTypes
    <3>. QED  BY <2>1, <3>1, FirstFree
  <2>3. entry.slot = i
    OBVIOUS
  <2>. HIDE DEF i, entry
  <2>4. /\ DOMAIN table' = DOMAIN table \cup {addr} /\ table'[addr].slot # 0
        /\ \A a \in DOMAIN table : table'[a] = table[a]
    BY <2>1, <2>2, <2>3 DEF With
  <2>5. removing' \in Seq(DOMAIN table')
    BY <1>1, <2>4 DEF Idle
  <2>6. IsFiniteSet(DOMAIN table')
    BY <2>4, FS_AddElement DEF HiddenInv, TableShape
  <2>7. TableShape'
    BY <1>1, <2>4, <2>5, <2>6 DEF HiddenInv, TableShape
  <2>8. OriginalsRight'
    BY <1>1, <2>4 DEF HiddenInv, OriginalsRight, Sure
  <2>. QED
    BY <1>1, <2>7, <2>8 DEF HiddenInv, MemoryShape, FilterRight, MemoryRight, Sure
<1>. QED  BY <1>2, <1>3

\* The original instruction is read through the filter, so that it is the program's.
LEMMA HiddenSetSoftware ==
    ASSUME HiddenInv, NEW addr \in Breakable \ DOMAIN table, SetSoftware(addr), Idle
    PROVE  HiddenInv'
<1>1. UNCHANGED <<program, doubted, removing>>
  BY DEF SetSoftware
<1>2. PICK out \in Outcomes(<< "read", "write" >>) :
        /\ mem' = IF Made(out, 2) THEN Over([b \in Half(addr) |-> BKPT], mem) ELSE mem
        /\ IF Passed(out, 2)
           THEN /\ table' = With(table, addr, [slot |-> 0, original |-> Original(addr)])
                /\ soft' = With(soft, addr, Original(addr))
           ELSE UNCHANGED <<table, soft>>
  BY DEF SetSoftware
<1>3. Made(out, 2) => Passed(out, 2)
  BY <1>2, WriteAfterRead DEF Made, Passed
<1>4. CASE ~Passed(out, 2)
  BY <1>1, <1>2, <1>3, <1>4, HiddenQuiet DEF HiddenInv, TableShape
<1>5. CASE Passed(out, 2)
  <2>. DEFINE entry == [slot |-> 0, original |-> Original(addr)]
              planted == [b \in Half(addr) |-> BKPT]
  <2>1. addr \in Nat /\ addr % 2 = 0 /\ Bytes(addr, 2) = Half(addr)
    BY BreakableFacts, HalfIsBytes
  <2>2. DOMAIN Original(addr) = Half(addr)
    BY <2>1 DEF Original, ReadMemory, FilterMemory
  <2>3. \A b \in Half(addr) \cap Sure : Original(addr)[b] = program[b]
    BY <2>1, ReadIsRight DEF Original
  <2>4. /\ DOMAIN table' = DOMAIN table \cup {addr} /\ table'[addr] = entry
        /\ \A a \in DOMAIN table : table'[a] = table[a]
    BY <1>2, <1>5 DEF With
  <2>5. /\ DOMAIN soft' = DOMAIN soft \cup {addr} /\ soft'[addr] = Original(addr)
        /\ \A a \in DOMAIN soft : a # addr => soft'[a] = soft[a]
    BY <1>2, <1>5 DEF With
  <2>6. entry.slot = 0 /\ entry.original = Original(addr)
    OBVIOUS
  <2>7. MemoryShape' /\ \A b \in Mapped : b \notin Half(addr) => mem'[b] = mem[b]
    <3>1. DOMAIN planted = Half(addr)
      OBVIOUS
    <3>. HIDE DEF planted
    <3>2. MemoryShape
      BY DEF HiddenInv
    <3>3. CASE Made(out, 2)
      <4>1. mem' = Over(planted, mem)
        BY <1>2, <3>3 DEF planted
      <4>. QED  BY <1>1, <3>1, <3>2, <4>1, OverIs DEF MemoryShape
    <3>4. CASE ~Made(out, 2)
      BY <1>1, <1>2, <3>2, <3>4 DEF MemoryShape
    <3>. QED  BY <3>3, <3>4
  <2>. HIDE DEF entry, planted
  <2>8. IsFiniteSet(DOMAIN table')
    BY <2>4, FS_AddElement DEF HiddenInv, TableShape
  <2>9. removing' \in Seq(DOMAIN table')
    BY <1>1 DEF Idle
  <2>10. TableShape'
    BY <2>2, <2>4, <2>5, <2>6, <2>8, <2>9 DEF HiddenInv, TableShape
  <2>11. FilterRight'
    BY <1>1, <2>3, <2>5 DEF HiddenInv, FilterRight, Sure
  <2>12. MemoryRight'
    BY <1>1, <2>5, <2>7 DEF HiddenInv, MemoryRight, Sure
  <2>13. OriginalsRight'
    BY <1>1, <2>3, <2>4, <2>5, <2>6 DEF HiddenInv, OriginalsRight, Sure
  <2>. QED  BY <2>7, <2>10, <2>11, <2>12, <2>13 DEF HiddenInv
<1>. QED  BY <1>4, <1>5

\* Removal of one breakpoint of the table, which may or may not leave the table with it.
LEMMA HiddenRemove ==
    ASSUME HiddenInv, NEW addr \in DOMAIN table, RemoveFrom(addr),
           DOMAIN table' \subseteq DOMAIN table, \A a \in DOMAIN table' : table'[a] = table[a],
           removing' \in Seq(DOMAIN table')
    PROVE  HiddenInv'
<1>1. TableShape /\ MemoryShape /\ FilterRight /\ MemoryRight /\ OriginalsRight
  BY DEF HiddenInv
<1>2. IsFiniteSet(DOMAIN table')
  BY <1>1, FS_Subset DEF TableShape
<1>3. CASE table[addr].slot # 0
  <2>1. UNCHANGED <<mem, program, doubted, soft>>
    BY <1>3 DEF RemoveFrom, memVars
  <2>2. TableShape'
    BY <1>1, <1>2, <2>1 DEF TableShape
  <2>3. OriginalsRight'
    BY <1>1, <2>1 DEF OriginalsRight, Sure
  <2>. QED
    BY <1>1, <2>1, <2>2, <2>3 DEF HiddenInv, MemoryShape, FilterRight, MemoryRight, Sure
<1>4. CASE table[addr].slot = 0
  <2>. DEFINE original == table[addr].original
  <2>1. PICK out \in Outcomes(<< "write" >>) :
          /\ mem' = IF Made(out, 1) THEN Over(original, mem) ELSE mem
          /\ soft' = IF Passed(out, 1) THEN Without(soft, addr) ELSE soft
          /\ doubted' = IF Passed(out, 1) # Made(out, 1) \/ addr \notin DOMAIN soft
                        THEN doubted \cup Half(addr) ELSE doubted
          /\ UNCHANGED program
    BY <1>4 DEF RemoveFrom, RemoveSoftware
  <2>2. Made(out, 1) => Passed(out, 1)
    BY <2>1, OneWrite DEF Made, Passed
  <2>3. DOMAIN original = Half(addr)
    BY <1>1, <1>4 DEF TableShape
  <2>4. addr \in DOMAIN soft => \A b \in Half(addr) \cap Sure : original[b] = program[b]
    BY <1>1, <1>4 DEF OriginalsRight
  <2>. HIDE DEF original
  <2>5. /\ DOMAIN soft' \subseteq DOMAIN soft /\ \A a \in DOMAIN soft' : soft'[a] = soft[a]
        /\ \A a \in DOMAIN soft : a # addr => a \in DOMAIN soft'
        /\ Passed(out, 1) => addr \notin DOMAIN soft'
    BY <2>1 DEF Without
  <2>6. doubted \subseteq doubted' /\ \A b \in Sure' : b \in Sure
    BY <2>1 DEF Sure
  <2>7. DOMAIN mem' = Mapped /\ \A b \in Mapped : b \notin Half(addr) => mem'[b] = mem[b]
    BY <1>1, <2>1, <2>3, OverIs DEF MemoryShape
  <2>8. Made(out, 1) => \A b \in Mapped : b \in Half(addr) => mem'[b] = original[b]
    BY <1>1, <2>1, <2>3, OverIs DEF MemoryShape
  <2>9. TableShape' /\ MemoryShape'
    BY <1>1, <1>2, <2>1, <2>5, <2>7 DEF TableShape, MemoryShape
  <2>10. FilterRight'
    BY <1>1, <2>1, <2>5, <2>6 DEF FilterRight
  <2>11. OriginalsRight'
    BY <1>1, <2>1, <2>5, <2>6 DEF OriginalsRight
  <2>12. MemoryRight'
    <3>. SUFFICES ASSUME NEW b \in Sure', \A a \in DOMAIN soft' : b \notin Half(a)
                  PROVE  mem'[b] = program[b]
      BY <2>1 DEF MemoryRight
    <3>1. b \in Sure /\ b \in Mapped
      BY <2>6 DEF Sure
    <3>2. CASE b \notin Half(addr)
      <4>1. \A a \in DOMAIN soft : b \notin Half(a)
        BY <2>5, <3>2
      <4>. QED  BY <1>1, <2>7, <3>1, <3>2, <4>1 DEF MemoryRight
    <3>3. CASE b \in Half(addr)
      <4>1. (Passed(out, 1) <=> Made(out, 1)) /\ addr \in DOMAIN soft
        BY <2>1, <3>3 DEF Sure
      <4>2. Made(out, 1)
        BY <2>1, <3>3, <4>1
      <4>. QED  BY <2>4, <2>8, <3>1, <3>3, <4>1, <4>2
    <3>. QED  BY <3>2, <3>3
  <2>. QED  BY <2>9, <2>10, <2>11, <2>12 DEF HiddenInv
<1>. QED  BY <1>3, <1>4

\* A write through the cache: what it does to a breakpoint's bytes is in doubt.
LEMMA HiddenWrite ==
    ASSUME HiddenInv, Write
    PROVE  HiddenInv'
<1>1. UNCHANGED <<table, soft, removing>>
  BY DEF Write, CacheChecked
<1>2. \E made : /\ WriteBytes(made, 1)
                /\ doubted \cup (made \cap UNION {Half(a) : a \in DOMAIN soft}) \subseteq doubted'
  BY DEF Write
<1>3. PICK made : /\ WriteBytes(made, 1)
                  /\ doubted \cup (made \cap UNION {Half(a) : a \in DOMAIN soft}) \subseteq doubted'
  BY <1>2
<1>. DEFINE taken == [b \in made \ ReadOnly |-> 1]
<1>4. mem' = Over(taken, mem) /\ program' = Over(taken, program) /\ DOMAIN taken = made \ ReadOnly
  BY <1>3 DEF WriteBytes
<1>. HIDE DEF taken
<1>5. TableShape /\ MemoryShape /\ FilterRight /\ MemoryRight /\ OriginalsRight
  BY DEF HiddenInv
<1>6. MemoryShape' /\ \A b \in Mapped : IF b \in made \ ReadOnly THEN mem'[b] = program'[b]
                                         ELSE mem'[b] = mem[b] /\ program'[b] = program[b]
  BY <1>4, <1>5, OverIs DEF MemoryShape
<1>7. \A b \in Sure' : b \in Sure /\ b \in Mapped /\ \A a \in DOMAIN soft : b \in Half(a) => b \notin made
  BY <1>3 DEF Sure
<1>8. TableShape'
  BY <1>1, <1>5 DEF TableShape
<1>9. FilterRight'
  BY <1>1, <1>5, <1>6, <1>7 DEF FilterRight
<1>10. OriginalsRight'
  BY <1>1, <1>5, <1>6, <1>7 DEF OriginalsRight
<1>11. MemoryRight'
  BY <1>1, <1>5, <1>6, <1>7 DEF MemoryRight
<1>. QED  BY <1>6, <1>8, <1>9, <1>10, <1>11 DEF HiddenInv

LEMMA HiddenStep ==
    ASSUME HiddenInv, UnitTypes, [Next]_vars
    PROVE  HiddenInv'
<1>1. CASE SetBreakpoint
  BY <1>1, HiddenSetHardware, HiddenSetSoftware DEF SetBreakpoint
<1>2. CASE RemoveBreakpoint
  <2>1. PICK addr \in DOMAIN table : table' = Without(table, addr) /\ RemoveFrom(addr)
    BY <1>2 DEF RemoveBreakpoint
  <2>2. removing' \in Seq(DOMAIN table')
    BY <1>2 DEF RemoveBreakpoint, Idle
  <2>. QED  BY <2>1, <2>2, HiddenRemove DEF Without
<1>3. CASE RemoveAllBreakpoints
  <2>1. removing' \in SetToSeqs(DOMAIN table) /\ UNCHANGED <<mem, program, doubted, table, soft>>
    BY <1>3 DEF RemoveAllBreakpoints, memVars
  <2>2. Cardinality(DOMAIN table) \in Nat
    BY FS_CardinalityType DEF HiddenInv, TableShape
  <2>3. removing' \in Seq(DOMAIN table)
    BY <2>1, <2>2 DEF SetToSeqs
  <2>. QED  BY <2>1, <2>3, HiddenQuiet
<1>4. CASE RemoveNext
  <2>1. removing \in Seq(DOMAIN table) /\ removing # << >>
    BY <1>4 DEF RemoveNext, HiddenInv, TableShape
  <2>2. Head(removing) \in DOMAIN table /\ Tail(removing) \in Seq(DOMAIN table)
    BY <2>1
  <2>3. RemoveFrom(Head(removing))
    BY <1>4 DEF RemoveNext
  <2>4. \/ removing' = << >>
        \/ removing' = Tail(removing)
    BY <1>4 DEF RemoveNext
  <2>5. table' = table \/ (table' = << >> /\ Len(removing) = 1)
    BY <1>4 DEF RemoveNext
  <2>6. CASE table' = table
    <3>1. removing' \in Seq(DOMAIN table')
      <4>1. << >> \in Seq(DOMAIN table)
        OBVIOUS
      <4>2. removing' \in Seq(DOMAIN table)
        BY <2>2, <2>4, <4>1
      <4>. QED  BY <2>6, <4>2
    <3>. QED  BY <2>2, <2>3, <2>6, <3>1, HiddenRemove
  <2>7. CASE table' = << >> /\ Len(removing) = 1
    <3>1. Tail(removing) = << >>
      <4>1. Tail(removing) \in Seq(DOMAIN table) /\ Len(Tail(removing)) = 0
        BY <2>1, <2>7
      <4>. QED  BY <4>1, EmptySeq
    <3>2. removing' = << >> /\ DOMAIN table' = {}
      BY <2>4, <2>7, <3>1
    <3>. QED  BY <2>2, <2>3, <3>2, HiddenRemove
  <2>. QED  BY <2>5, <2>6, <2>7
<1>5. CASE Execute
  BY <1>5, HiddenFlip DEF Execute, Quiet
<1>6. CASE Step
  <2>1. UNCHANGED <<doubted, table, soft, removing>>
    BY <1>6 DEF Step, Quiet
  <2>2. Flip \/ UNCHANGED <<mem, program>>
    BY <1>6 DEF Step
  <2>. QED  BY <2>1, <2>2, HiddenFlip, HiddenQuiet DEF HiddenInv, TableShape
<1>7. CASE Write
  BY <1>7, HiddenWrite
<1>8. CASE Resume \/ Halt \/ Wake
  <2>1. UNCHANGED <<mem, program, doubted, table, soft, removing>>
    BY <1>8 DEF Resume, Halt, Wake, Quiet
  <2>. QED  BY <2>1, HiddenQuiet DEF HiddenInv, TableShape
<1>9. CASE Read \/ Invalidate \/ UNCHANGED vars
  <2>1. UNCHANGED <<mem, program, doubted, table, soft, removing>>
    BY <1>9 DEF Read, CacheChecked, memVars, Invalidate, vars, bpVars
  <2>. QED  BY <2>1, HiddenQuiet DEF HiddenInv, TableShape
<1>. QED  BY <1>1, <1>2, <1>3, <1>4, <1>5, <1>6, <1>7, <1>8, <1>9 DEF Next, BpNext

(* Every read of the core shows the program and none of the breakpoints,   *)
(* for every memory map and any number of breakpoints, writes and failing  *)
(* accesses.                                                               *)
THEOREM BreakpointsAreHidden == Spec => []BreakpointsHidden
<1>1. Init => HiddenInv /\ UnitTypes
  BY HiddenInit, UnitInit
<1>2. HiddenInv /\ UnitTypes /\ [Next]_vars => HiddenInv' /\ UnitTypes'
  BY HiddenStep, UnitTyped
<1>. QED  BY <1>1, <1>2, HiddenFollows, PTL DEF Spec

-----------------------------------------------------------------------------
(* The breakpoints that stop the core, while no access has failed *)

\* The breakpoints of the table that are still set: remove_all_breakpoints
\* empties the table at its end only.
Live == IF Idle THEN DOMAIN table ELSE ToSet(removing)
Hardware == {a \in Live : table[a].slot # 0}
Software == {a \in Live : table[a].slot = 0}

\* Each hardware breakpoint has the comparator it was given, and the others are free,
SlotsMatch ==
    /\ \A a \in Hardware : table[a].slot \in 1 .. Comparators
                           /\ slots[table[a].slot].enabled /\ slots[table[a].slot].addr = a
    /\ \A i \in 1 .. Comparators : slots[i].enabled => \E a \in Hardware : table[a].slot = i
    /\ \A i \in 1 .. Comparators : unit.comp[i] = IF slots[i].enabled THEN slots[i].addr ELSE Free

\* which are counted, and for which the unit is on.
UnitOn == (enabled => unit.on) /\ (Hardware # {} => enabled)
Counted == used = Cardinality(Hardware) /\ used + Cardinality(FreeSlots) = Comparators

\* The instructions in memory are those of the breakpoints in RAM, and the program has none.
Planted ==
    /\ DOMAIN soft = Software
    /\ \A a \in Software : \A b \in Half(a) \cap Sure : mem[b] = BKPT
    /\ \A b \in Mapped : program[b] \in {0, 1}
    /\ \A b \in Mapped \ Halves : mem[b] \in {0, 1}

Distinct == \A i, j \in DOMAIN removing : i # j => removing[i] # removing[j]

UnitMatches == SlotsMatch /\ UnitOn /\ Counted
Armed == ~broken /\ UnitMatches /\ Planted /\ Distinct
ArmedInv == faults \in Nat /\ (faults = 0 => Armed)

LEMMA LiveFinite ==
    ASSUME HiddenInv, UnitTypes
    PROVE  /\ Live \subseteq DOMAIN table /\ Live \subseteq Breakable
           /\ IsFiniteSet(Hardware) /\ IsFiniteSet(FreeSlots) /\ FreeSlots \subseteq 1 .. Comparators
<1>1. TableShape
  BY DEF HiddenInv
<1>2. Live \subseteq DOMAIN table
  BY <1>1 DEF Live, TableShape, ToSet
<1>3. IsFiniteSet(Hardware)
  BY <1>1, <1>2, FS_Subset DEF Hardware, TableShape
<1>4. FreeSlots \subseteq 1 .. Comparators
  BY DEF FreeSlots, UnitTypes
<1>5. IsFiniteSet(FreeSlots)
  <2>1. IsFiniteSet(1 .. Comparators)
    BY Bounds, FS_Interval
  <2>. QED  BY <1>4, <2>1, FS_Subset
<1>. QED  BY <1>1, <1>2, <1>3, <1>4, <1>5 DEF TableShape

LEMMA ArmedFollows ==
    ASSUME HiddenInv, UnitTypes, ArmedInv
    PROVE  BreakpointsArmed
<1>. SUFFICES ASSUME faults = 0, Idle
              PROVE  LET hardware == {a \in DOMAIN table : table[a].slot # 0}
                     IN  /\ \A i \in 1 .. Comparators :
                             {unit.comp[i]} \ {Free} = {a \in hardware : table[a].slot = i}
                         /\ hardware # {} => unit.on
                         /\ used = Cardinality(hardware) /\ used = Comparators - Cardinality(FreeSlots)
                         /\ \A b \in Mapped \ doubted :
                             mem[b] = BKPT <=> \E a \in DOMAIN table \ hardware : b \in Half(a)
  BY DEF BreakpointsArmed
<1>1. /\ SlotsMatch /\ UnitOn /\ Counted /\ Planted
      /\ {a \in DOMAIN table : table[a].slot # 0} = Hardware
      /\ DOMAIN table \ Hardware = Software
  BY DEF ArmedInv, Armed, UnitMatches, Live, Hardware, Software
<1>2. ASSUME NEW i \in 1 .. Comparators
      PROVE  {unit.comp[i]} \ {Free} = {a \in Hardware : table[a].slot = i}
  <2>1. CASE slots[i].enabled
    <3>1. PICK a \in Hardware : table[a].slot = i
      BY <1>1, <2>1 DEF SlotsMatch
    <3>2. a \in Nat
      BY BreakableFacts, LiveFinite DEF Hardware
    <3>3. unit.comp[i] = a /\ a # Free
      BY <1>1, <2>1, <3>1, <3>2 DEF SlotsMatch, Free
    <3>4. \A c \in Hardware : table[c].slot = i => c = a
      BY <1>1, <3>1 DEF SlotsMatch
    <3>. QED  BY <3>1, <3>3, <3>4
  <2>2. CASE ~slots[i].enabled
    BY <1>1, <2>2 DEF SlotsMatch
  <2>. QED  BY <2>1, <2>2
<1>3. Hardware # {} => unit.on
  BY <1>1 DEF UnitOn
<1>4. used = Cardinality(Hardware) /\ used = Comparators - Cardinality(FreeSlots)
  <2>1. Cardinality(FreeSlots) \in Nat
    BY LiveFinite, FS_CardinalityType
  <2>. QED  BY <1>1, <2>1, Bounds DEF Counted, UnitTypes
<1>5. ASSUME NEW b \in Mapped \ doubted
      PROVE  mem[b] = BKPT <=> \E a \in Software : b \in Half(a)
  <2>1. CASE \E a \in Software : b \in Half(a)
    BY <1>1, <2>1 DEF Planted, Sure
  <2>2. CASE \A a \in Software : b \notin Half(a)
    <3>1. mem[b] = program[b]
      BY <1>1, <2>2 DEF Planted, HiddenInv, MemoryRight, Sure
    <3>. QED  BY <1>1, <2>2, <3>1 DEF Planted, BKPT
  <2>. QED  BY <2>1, <2>2
<1>. QED  BY <1>1, <1>2, <1>3, <1>4, <1>5

\* A call in which nothing fails makes and passes all its accesses.
LEMMA NoFault ==
    ASSUME ArmedInv, NEW n \in Nat, NEW out, Linked(out, n), out.stop \in 1 .. n + 1, faults' = 0
    PROVE  faults = 0 /\ Armed /\ ~broken' /\ out.stop = n + 1
<1>1. faults = 0
  BY DEF ArmedInv, Linked
<1>2. Armed
  BY <1>1 DEF ArmedInv
<1>3. ~(out.stop <= n) /\ ~broken
  BY <1>1, <1>2 DEF Linked, Armed
<1>4. ~broken'
  BY <1>3 DEF Linked
<1>5. out.stop = n + 1
  BY <1>3
<1>. QED  BY <1>1, <1>2, <1>4, <1>5

LEMMA ArmedSetHardware ==
    ASSUME HiddenInv, UnitTypes, ArmedInv, NEW addr \in Breakable \ DOMAIN table, SetHardware(addr),
           Idle, faults' = 0
    PROVE  Armed'
<1>. DEFINE found == AvailableBreakpoints # 0 /\ FreeSlots # {}
            first == IF enabled THEN 0 ELSE 1
            n == first + IF found THEN 1 ELSE 0
            i == FirstOf(FreeSlots)
            kinds == [j \in 1 .. n |-> "write"]
            entry == [slot |-> i, original |-> << >>]
<1>1. PICK out \in Outcomes(kinds) :
        /\ Linked(out, n)
        /\ enabled' = (enabled \/ Passed(out, first))
        /\ unit' = [on |-> unit.on \/ (first = 1 /\ Made(out, 1)),
                    comp |-> IF found /\ Made(out, n) THEN [unit.comp EXCEPT ![i] = addr] ELSE unit.comp]
        /\ IF found /\ Passed(out, n) THEN Enter(i, addr) /\ table' = With(table, addr, entry)
           ELSE /\ slots' = IF found /\ Passed(out, first) THEN [slots EXCEPT ![i].enabled = TRUE] ELSE slots
                /\ UNCHANGED <<used, table>>
  BY DEF SetHardware
<1>2. UNCHANGED <<mem, program, doubted, soft, removing>>
  BY DEF SetHardware, memVars
<1>3. n \in Nat /\ first \in {0, 1} /\ (first = 1 => n >= 1) /\ (found => n >= 1) /\ n >= first
      /\ (~enabled => first = 1)
  OBVIOUS
<1>4. Len(kinds) = n
  BY <1>3
<1>. HIDE DEF n, kinds
<1>5. out.stop \in 1 .. n + 1 /\ out.raise \in out.stop .. n + 1
  BY <1>1, <1>3, <1>4, OutcomeOrder
<1>6. faults = 0 /\ Armed /\ ~broken' /\ out.stop = n + 1 /\ out.raise = n + 1
  BY <1>1, <1>3, <1>5, NoFault
<1>7. /\ Passed(out, first) /\ Passed(out, n) /\ Made(out, n)
      /\ first = 1 => Made(out, 1)
  BY <1>3, <1>6 DEF Passed, Made
<1>. HIDE DEF first
<1>8. enabled' = TRUE /\ unit'.on
  BY <1>1, <1>3, <1>6, <1>7 DEF Armed, UnitMatches, UnitOn, UnitTypes
<1>9. CASE ~found
  <2>1. UNCHANGED <<used, table>> /\ unit'.comp = unit.comp /\ slots' = slots
    BY <1>1, <1>7, <1>9
  <2>2. Hardware' = Hardware /\ Software' = Software /\ FreeSlots' = FreeSlots
    BY <1>2, <2>1 DEF Hardware, Software, Live, Idle, FreeSlots
  <2>3. UnitMatches'
    BY <1>6, <1>8, <2>1, <2>2 DEF Armed, UnitMatches, SlotsMatch, UnitOn, Counted
  <2>. QED  BY <1>2, <1>6, <2>2, <2>3 DEF Armed, Planted, Distinct, Sure
<1>10. CASE found
  <2>1. FreeSlots \subseteq 1 .. Comparators /\ i \in FreeSlots
    BY <1>10, LiveFinite, FirstFree
  <2>2. entry.slot = i
    OBVIOUS
  <2>. DEFINE taken == [enabled |-> TRUE, addr |-> addr]
  <2>3. /\ slots' = [slots EXCEPT ![i] = taken] /\ used' = used + 1
        /\ unit'.comp = [unit.comp EXCEPT ![i] = addr] /\ table' = With(table, addr, entry)
    BY <1>1, <1>7, <1>10 DEF Enter
  <2>4. taken.enabled = TRUE /\ taken.addr = addr
    OBVIOUS
  <2>. HIDE DEF found, i, entry, taken
  <2>5. i \in 1 .. Comparators /\ ~slots[i].enabled /\ i # 0
    BY <2>1 DEF FreeSlots
  <2>6. /\ DOMAIN table' = DOMAIN table \cup {addr} /\ table'[addr] = entry
        /\ \A a \in DOMAIN table : table'[a] = table[a]
    BY <2>3 DEF With
  <2>7. Live = DOMAIN table /\ Live' = DOMAIN table \cup {addr}
    BY <1>2, <2>6 DEF Live, Idle
  <2>8. Hardware' = Hardware \cup {addr} /\ Software' = Software /\ addr \notin Hardware
    BY <2>2, <2>5, <2>6, <2>7 DEF Hardware, Software
  <2>9. slots'[i] = taken /\ \A j \in 1 .. Comparators : j # i => slots'[j] = slots[j]
    BY <2>3, <2>5 DEF UnitTypes
  <2>10. unit'.comp[i] = addr /\ \A j \in 1 .. Comparators : j # i => unit'.comp[j] = unit.comp[j]
    <3>1. unit.comp \in Comps
      BY DEF UnitTypes
    <3>. QED  BY <2>3, <2>5, <3>1 DEF Comps
  <2>11. SlotsMatch'
    <3>1. SlotsMatch
      BY <1>6 DEF Armed, UnitMatches
    <3>2. \A a \in Hardware : table[a].slot # i /\ table'[a] = table[a]
      BY <2>5, <2>6, <2>7, <3>1 DEF SlotsMatch, Hardware
    <3>3. \A a \in Hardware' : /\ table'[a].slot \in 1 .. Comparators
                               /\ slots'[table'[a].slot].enabled /\ slots'[table'[a].slot].addr = a
      BY <2>2, <2>4, <2>5, <2>6, <2>8, <2>9, <3>1, <3>2 DEF SlotsMatch
    <3>4. \A j \in 1 .. Comparators : slots'[j].enabled => \E a \in Hardware' : table'[a].slot = j
      BY <2>2, <2>6, <2>8, <2>9, <3>1, <3>2 DEF SlotsMatch
    <3>5. \A j \in 1 .. Comparators : unit'.comp[j] = IF slots'[j].enabled THEN slots'[j].addr ELSE Free
      BY <2>4, <2>9, <2>10, <3>1 DEF SlotsMatch
    <3>. QED  BY <3>3, <3>4, <3>5 DEF SlotsMatch
  <2>12. Counted'
    <3>1. IsFiniteSet(Hardware) /\ IsFiniteSet(FreeSlots)
      BY LiveFinite
    <3>2. DOMAIN slots' = 1 .. Comparators /\ DOMAIN slots = 1 .. Comparators
      BY <2>3 DEF UnitTypes
    <3>3. FreeSlots' = FreeSlots \ {i}
      BY <2>4, <2>9, <3>2 DEF FreeSlots
    <3>4. Cardinality(Hardware') = Cardinality(Hardware) + 1
      BY <2>8, <3>1, FS_AddElement
    <3>5. Cardinality(FreeSlots') = Cardinality(FreeSlots) - 1
      BY <2>1, <3>1, <3>3, FS_RemoveElement
    <3>6. Cardinality(FreeSlots) \in Nat /\ Cardinality(Hardware) \in Nat
      BY <3>1, FS_CardinalityType
    <3>7. Counted
      BY <1>6 DEF Armed, UnitMatches
    <3>. QED  BY <2>3, <3>4, <3>5, <3>6, <3>7, Bounds DEF Counted
  <2>13. UnitOn'
    BY <1>8 DEF UnitOn
  <2>14. Planted' /\ Distinct'
    BY <1>2, <1>6, <2>8 DEF Armed, Planted, Distinct, Sure
  <2>. QED  BY <1>6, <2>11, <2>12, <2>13, <2>14 DEF Armed, UnitMatches
<1>. QED  BY <1>9, <1>10

LEMMA ArmedSetSoftware ==
    ASSUME HiddenInv, UnitTypes, ArmedInv, NEW addr \in Breakable \ DOMAIN table, SetSoftware(addr),
           Idle, faults' = 0
    PROVE  Armed'
<1>. DEFINE planted == [b \in Half(addr) |-> BKPT]
            entry == [slot |-> 0, original |-> Original(addr)]
<1>1. PICK out \in Outcomes(<< "read", "write" >>) :
        /\ Linked(out, 2)
        /\ mem' = IF Made(out, 2) THEN Over(planted, mem) ELSE mem
        /\ IF Passed(out, 2)
           THEN table' = With(table, addr, entry) /\ soft' = With(soft, addr, Original(addr))
           ELSE UNCHANGED <<table, soft>>
  BY DEF SetSoftware
<1>2. UNCHANGED <<program, doubted, removing, unitVars>>
  BY DEF SetSoftware
<1>3. out.stop \in 1 .. 3 /\ out.raise \in out.stop .. 3
  BY <1>1, WriteAfterRead
<1>4. Armed /\ ~broken' /\ out.stop = 3 /\ out.raise = 3
  <2>1. 2 \in Nat /\ 2 + 1 = 3
    OBVIOUS
  <2>. QED  BY <1>1, <1>3, <2>1, NoFault
<1>5. /\ mem' = Over(planted, mem) /\ table' = With(table, addr, entry)
      /\ soft' = With(soft, addr, Original(addr))
  BY <1>1, <1>4 DEF Made, Passed
<1>6. entry.slot = 0 /\ DOMAIN planted = Half(addr) /\ \A b \in Half(addr) : planted[b] = BKPT
  OBVIOUS
<1>. HIDE DEF entry, planted
<1>7. /\ DOMAIN table' = DOMAIN table \cup {addr} /\ table'[addr] = entry
      /\ \A a \in DOMAIN table : table'[a] = table[a]
  BY <1>5 DEF With
<1>8. DOMAIN soft' = DOMAIN soft \cup {addr}
  BY <1>5 DEF With
<1>9. Live = DOMAIN table /\ Live' = DOMAIN table \cup {addr}
  BY <1>2, <1>7 DEF Live, Idle
<1>10. Hardware' = Hardware /\ Software' = Software \cup {addr}
  BY <1>6, <1>7, <1>9 DEF Hardware, Software
<1>11. UnitMatches'
  <2>1. \A a \in Hardware : table'[a] = table[a]
    BY <1>7, <1>9 DEF Hardware
  <2>2. UNCHANGED <<slots, used, enabled, unit, FreeSlots>>
    BY <1>2 DEF unitVars, FreeSlots
  <2>. QED
    BY <1>4, <1>10, <2>1, <2>2 DEF Armed, UnitMatches, SlotsMatch, UnitOn, Counted
<1>12. \A b \in Mapped : mem'[b] = IF b \in Half(addr) THEN BKPT ELSE mem[b]
  BY <1>5, <1>6, OverIs DEF HiddenInv, MemoryShape
<1>13. Half(addr) \subseteq Halves
  BY DEF Halves
<1>14. Planted /\ Distinct
  BY <1>4 DEF Armed
<1>15. DOMAIN soft' = Software'
  BY <1>8, <1>10, <1>14 DEF Planted
<1>16. \A a \in Software' : \A b \in Half(a) \cap Sure' : mem'[b] = BKPT
  BY <1>2, <1>10, <1>12, <1>14 DEF Planted, Sure
<1>17. Planted'
  BY <1>2, <1>12, <1>13, <1>14, <1>15, <1>16 DEF Planted
<1>18. Distinct'
  BY <1>2, <1>14 DEF Distinct
<1>. QED  BY <1>4, <1>11, <1>17, <1>18 DEF Armed

\* One of those still set is removed, and the others are still set.
LEMMA ArmedRemove ==
    ASSUME HiddenInv, UnitTypes, ArmedInv, NEW addr \in Live, RemoveFrom(addr), faults' = 0,
           Live' = Live \ {addr}, \A a \in Live' : table'[a] = table[a]
    PROVE  ~broken' /\ UnitMatches' /\ Planted'
<1>1. addr \in DOMAIN table /\ Live \subseteq Breakable
  BY LiveFinite
<1>2. Hardware' = Hardware \ {addr} /\ Software' = Software \ {addr}
  BY DEF Hardware, Software
<1>3. \A a \in Hardware' : table'[a] = table[a] /\ a \in Hardware
  BY <1>2 DEF Hardware
<1>4. CASE table[addr].slot # 0
  <2>. DEFINE i == table[addr].slot
  <2>1. addr \in Hardware /\ RemoveHardware(i) /\ UNCHANGED <<mem, program, doubted, soft>>
    BY <1>4 DEF Hardware, RemoveFrom, memVars
  <2>2. faults = 0 => Armed
    BY DEF ArmedInv
  <2>3. CASE SlotsFor(i) = {}
    <3>1. UNCHANGED <<broken, faults>>
      BY <2>1, <2>3 DEF RemoveHardware, linkVars
    <3>2. SlotsMatch
      BY <2>2, <3>1 DEF Armed, UnitMatches
    <3>3. i \in SlotsFor(i)
      BY <2>1, <3>2 DEF SlotsMatch, SlotsFor, UnitTypes
    <3>. QED  BY <2>3, <3>3
  <2>4. CASE SlotsFor(i) # {}
    <3>. DEFINE j == FirstOf(SlotsFor(i))
    <3>1. PICK out \in Outcomes(<< "write" >>) :
            /\ Linked(out, 1)
            /\ slots' = [slots EXCEPT ![j].enabled = FALSE]
            /\ used' = IF Passed(out, 1) THEN used - 1 ELSE used
            /\ unit' = IF Made(out, 1) THEN [unit EXCEPT !.comp[j] = Free] ELSE unit
            /\ UNCHANGED enabled
      BY <2>1, <2>4 DEF RemoveHardware
    <3>2. out.stop \in 1 .. 2 /\ out.raise \in out.stop .. 2
      BY <3>1, OneWrite
    <3>3. Armed /\ ~broken' /\ out.stop = 2 /\ out.raise = 2
      <4>1. 1 \in Nat /\ 1 + 1 = 2
        OBVIOUS
      <4>. QED  BY <3>1, <3>2, <4>1, NoFault
    <3>4. SlotsMatch /\ UnitOn /\ Counted /\ Planted
      BY <3>3 DEF Armed, UnitMatches
    <3>5. i \in 1 .. Comparators /\ slots[i].enabled /\ slots[i].addr = addr
      BY <2>1, <3>4 DEF SlotsMatch
    <3>6. SlotsFor(i) = {i}
      <4>1. i \in SlotsFor(i)
        BY <3>5 DEF SlotsFor, UnitTypes
      <4>2. ASSUME NEW k \in SlotsFor(i)
            PROVE  k = i
        <5>1. k \in 1 .. Comparators /\ slots[k].enabled /\ slots[k].addr = addr
          BY <3>5 DEF SlotsFor, UnitTypes
        <5>2. PICK a \in Hardware : table[a].slot = k
          BY <3>4, <5>1 DEF SlotsMatch
        <5>. QED  BY <3>4, <5>1, <5>2 DEF SlotsMatch
      <4>. QED  BY <4>1, <4>2
    <3>7. j = i
      <4>1. {i} \in SUBSET (1 .. Comparators) /\ {i} # {}
        BY <3>5
      <4>. QED  BY <3>6, <4>1, FirstFree
    <3>. HIDE DEF j
    <3>8. /\ slots' = [slots EXCEPT ![i].enabled = FALSE] /\ used' = used - 1
          /\ unit' = [unit EXCEPT !.comp[i] = Free] /\ UNCHANGED enabled
      BY <3>1, <3>3, <3>7 DEF Made, Passed
    <3>. HIDE DEF i
    <3>9. /\ ~slots'[i].enabled /\ \A k \in 1 .. Comparators : k # i => slots'[k] = slots[k]
          /\ DOMAIN slots' = 1 .. Comparators
      <4>1. slots \in [1 .. Comparators -> Slots] /\ slots[i] \in Slots
        BY <3>5 DEF UnitTypes
      <4>2. slots' = [slots EXCEPT ![i] = [slots[i] EXCEPT !.enabled = FALSE]]
        BY <3>8
      <4>3. [slots[i] EXCEPT !.enabled = FALSE].enabled = FALSE
        BY <4>1 DEF Slots
      <4>. QED  BY <3>5, <4>1, <4>2, <4>3
    <3>10. /\ unit'.comp[i] = Free /\ unit'.on = unit.on
           /\ \A k \in 1 .. Comparators : k # i => unit'.comp[k] = unit.comp[k]
      <4>1. unit \in [on : BOOLEAN, comp : Comps] /\ unit.comp \in Comps
        BY DEF UnitTypes
      <4>2. unit'.on = unit.on /\ unit'.comp = [unit.comp EXCEPT ![i] = Free]
        BY <3>8, <4>1
      <4>. QED  BY <3>5, <4>1, <4>2 DEF Comps
    <3>11. \A a \in Hardware' : table[a].slot # i
      BY <1>2, <1>3, <3>4, <3>5 DEF SlotsMatch
    <3>12. SlotsMatch'
      <4>1. \A a \in Hardware' : /\ table'[a].slot \in 1 .. Comparators
                                 /\ slots'[table'[a].slot].enabled /\ slots'[table'[a].slot].addr = a
        BY <1>3, <3>4, <3>9, <3>11 DEF SlotsMatch
      <4>2. ASSUME NEW k \in 1 .. Comparators, slots'[k].enabled
            PROVE  \E a \in Hardware' : table'[a].slot = k
        <5>1. k # i /\ slots[k].enabled
          BY <3>9, <4>2
        <5>2. PICK a \in Hardware : table[a].slot = k
          BY <3>4, <5>1 DEF SlotsMatch
        <5>3. a # addr
          BY <5>1, <5>2 DEF i
        <5>. QED  BY <1>2, <1>3, <5>2, <5>3
      <4>3. \A k \in 1 .. Comparators : unit'.comp[k] = IF slots'[k].enabled THEN slots'[k].addr ELSE Free
        BY <3>4, <3>9, <3>10 DEF SlotsMatch
      <4>. QED  BY <4>1, <4>2, <4>3 DEF SlotsMatch
    <3>13. Counted'
      <4>1. IsFiniteSet(Hardware) /\ IsFiniteSet(FreeSlots)
        BY LiveFinite
      <4>2. FreeSlots' = FreeSlots \cup {i} /\ i \notin FreeSlots
        BY <3>5, <3>9 DEF FreeSlots, UnitTypes
      <4>3. Cardinality(Hardware') = Cardinality(Hardware) - 1
        BY <1>2, <2>1, <4>1, FS_RemoveElement
      <4>4. Cardinality(FreeSlots') = Cardinality(FreeSlots) + 1
        BY <4>1, <4>2, FS_AddElement
      <4>5. Cardinality(FreeSlots) \in Nat /\ Cardinality(Hardware) \in Nat
        BY <4>1, FS_CardinalityType
      <4>. QED  BY <3>4, <3>8, <4>3, <4>4, <4>5, Bounds DEF Counted
    <3>14. UnitOn'
      BY <1>2, <3>4, <3>8, <3>10 DEF UnitOn
    <3>15. Planted'
      <4>1. Software' = Software
        BY <1>2, <1>4 DEF Software
      <4>. QED  BY <2>1, <3>4, <4>1 DEF Planted, Sure
    <3>. QED  BY <3>3, <3>12, <3>13, <3>14, <3>15 DEF UnitMatches
  <2>. QED  BY <2>3, <2>4
<1>5. CASE table[addr].slot = 0
  <2>. DEFINE original == table[addr].original
  <2>1. PICK out \in Outcomes(<< "write" >>) :
          /\ Linked(out, 1)
          /\ mem' = IF Made(out, 1) THEN Over(original, mem) ELSE mem
          /\ soft' = IF Passed(out, 1) THEN Without(soft, addr) ELSE soft
          /\ doubted' = IF Passed(out, 1) # Made(out, 1) \/ addr \notin DOMAIN soft
                        THEN doubted \cup Half(addr) ELSE doubted
          /\ UNCHANGED program
    BY <1>5 DEF RemoveFrom, RemoveSoftware
  <2>2. UNCHANGED unitVars
    BY <1>5 DEF RemoveFrom
  <2>3. out.stop \in 1 .. 2 /\ out.raise \in out.stop .. 2
    BY <2>1, OneWrite
  <2>4. Armed /\ ~broken' /\ out.stop = 2 /\ out.raise = 2
    <3>1. 1 \in Nat /\ 1 + 1 = 2
      OBVIOUS
    <3>. QED  BY <2>1, <2>3, <3>1, NoFault
  <2>5. addr \in Software /\ addr \in DOMAIN soft
    BY <1>5, <2>4 DEF Software, Armed, Planted
  <2>6. mem' = Over(original, mem) /\ soft' = Without(soft, addr) /\ UNCHANGED <<doubted, program>>
    BY <2>1, <2>4, <2>5 DEF Made, Passed
  <2>7. DOMAIN original = Half(addr)
    BY <1>1, <1>5 DEF HiddenInv, TableShape
  <2>. HIDE DEF original
  <2>8. \A b \in Mapped : b \notin Half(addr) => mem'[b] = mem[b]
    BY <2>6, <2>7, OverIs DEF HiddenInv, MemoryShape
  <2>9. UnitMatches'
    <3>1. Hardware' = Hardware
      BY <1>2, <1>5 DEF Hardware
    <3>2. UNCHANGED <<slots, used, enabled, unit, FreeSlots>>
      BY <2>2 DEF unitVars, FreeSlots
    <3>. QED
      BY <1>3, <2>4, <3>1, <3>2 DEF Armed, UnitMatches, SlotsMatch, UnitOn, Counted
  <2>10. Planted
    BY <2>4 DEF Armed
  <2>11. DOMAIN soft' = Software'
    BY <1>2, <2>6, <2>10 DEF Planted, Without
  <2>12. \A a \in Software' : \A b \in Half(a) \cap Sure' : mem'[b] = BKPT
    <3>. SUFFICES ASSUME NEW a \in Software', NEW b \in Half(a) \cap Sure'
                  PROVE  mem'[b] = BKPT
      OBVIOUS
    <3>1. a \in Software /\ a # addr /\ b \in Sure /\ b \in Mapped
      BY <1>2, <2>6 DEF Sure
    <3>2. b \notin Half(addr)
      BY <1>1, <3>1, BreakableFacts DEF Software
    <3>. QED  BY <2>8, <2>10, <3>1, <3>2 DEF Planted
  <2>13. Half(addr) \subseteq Halves
    BY <1>1 DEF Halves
  <2>14. Planted'
    BY <2>6, <2>8, <2>10, <2>11, <2>12, <2>13 DEF Planted
  <2>. QED  BY <2>4, <2>9, <2>14
<1>. QED  BY <1>4, <1>5

\* What a call that fails nowhere leaves of the connection, whatever its accesses.
LEMMA LinkedSound ==
    ASSUME ArmedInv, NEW n, NEW out, Linked(out, n), faults' = 0
    PROVE  Armed /\ ~broken'
<1>1. faults = 0
  BY DEF ArmedInv, Linked
<1>2. ~broken /\ Armed
  BY <1>1 DEF ArmedInv, Armed
<1>3. ~(out.stop <= n)
  BY <1>1, <1>2 DEF Linked
<1>. QED  BY <1>2, <1>3 DEF Linked

\* What leaves memory, the unit and the tables alone.
LEMMA ArmedQuiet ==
    ASSUME Armed, ~broken', UNCHANGED <<mem, program, doubted, unitVars, table, soft, removing>>
    PROVE  Armed'
<1>1. UNCHANGED <<slots, used, enabled, unit, Live, Hardware, Software, FreeSlots, Sure>>
  BY DEF unitVars, Live, Idle, Hardware, Software, FreeSlots, Sure
<1>2. UnitMatches'
  BY <1>1 DEF Armed, UnitMatches, SlotsMatch, UnitOn, Counted
<1>. QED  BY <1>1, <1>2 DEF Armed, Planted, Distinct

\* What changes bytes of no breakpoint in RAM, but those in doubt afterwards.
LEMMA ArmedBytes ==
    ASSUME HiddenInv, Armed, ~broken', UNCHANGED <<unitVars, table, soft, removing>>,
           doubted \subseteq doubted',
           \A b \in Mapped : \/ mem'[b] = mem[b] /\ program'[b] = program[b]
                             \/ /\ program'[b] \in {0, 1} /\ (b \notin Halves => mem'[b] \in {0, 1})
                                /\ b \in Sure' => \A a \in DOMAIN soft : b \notin Half(a)
    PROVE  Armed'
<1>1. UNCHANGED <<slots, used, enabled, unit, Live, Hardware, Software, FreeSlots>>
  BY DEF unitVars, Live, Idle, Hardware, Software, FreeSlots
<1>2. UnitMatches'
  BY <1>1 DEF Armed, UnitMatches, SlotsMatch, UnitOn, Counted
<1>3. Planted
  BY DEF Armed
<1>4. \A a \in Software' : \A b \in Half(a) \cap Sure' : mem'[b] = BKPT
  <2>. SUFFICES ASSUME NEW a \in Software, NEW b \in Half(a), b \in Sure'
                PROVE  mem'[b] = BKPT
    BY <1>1
  <2>1. b \in Sure /\ b \in Mapped /\ a \in DOMAIN soft
    BY <1>3 DEF Sure, Planted
  <2>. QED  BY <1>3, <2>1 DEF Planted
<1>5. DOMAIN soft' = Software'
  BY <1>1, <1>3 DEF Planted
<1>6. (\A b \in Mapped : program'[b] \in {0, 1}) /\ \A b \in Mapped \ Halves : mem'[b] \in {0, 1}
  BY <1>3 DEF Planted
<1>7. Planted'
  BY <1>4, <1>5, <1>6 DEF Planted
<1>. QED  BY <1>1, <1>2, <1>7 DEF Armed, Distinct

LEMMA ArmedFlip ==
    ASSUME HiddenInv, Armed, ~broken', Flip, UNCHANGED <<unitVars, table, soft, removing, doubted>>
    PROVE  Armed'
<1>. DEFINE flipped == [b \in Stored |-> 1 - mem[b]]
<1>1. mem' = Over(flipped, mem) /\ program' = Over(flipped, program) /\ DOMAIN flipped = Stored
      /\ \A b \in Stored : flipped[b] = 1 - mem[b]
  BY DEF Flip
<1>. HIDE DEF flipped
<1>2. \A b \in Mapped : /\ mem'[b] = IF b \in Stored THEN 1 - mem[b] ELSE mem[b]
                        /\ program'[b] = IF b \in Stored THEN 1 - mem[b] ELSE program[b]
  BY <1>1, OverIs DEF HiddenInv, MemoryShape
<1>3. \A b \in Stored : b \notin Halves
  BY BreakableFacts
<1>4. \A b \in Stored \cap Mapped : 1 - mem[b] \in {0, 1}
  <2>1. \A b \in Mapped \ Halves : mem[b] \in {0, 1}
    BY DEF Armed, Planted
  <2>. QED  BY <1>3, <2>1
<1>5. \A a \in DOMAIN soft : \A b \in Half(a) : b \in Halves
  BY DEF HiddenInv, TableShape, Halves
<1>. QED  BY <1>2, <1>3, <1>4, <1>5, ArmedBytes

LEMMA ArmedWrite ==
    ASSUME HiddenInv, ArmedInv, Write, faults' = 0
    PROVE  Armed'
<1>1. UNCHANGED <<unitVars, table, soft, removing>>
  BY DEF Write, CacheChecked
<1>2. \E made, out, n : /\ Linked(out, n) /\ WriteBytes(made, 1)
                        /\ doubted \cup (made \cap UNION {Half(a) : a \in DOMAIN soft}) \subseteq doubted'
  BY DEF Write
<1>3. PICK made, out, n : /\ Linked(out, n) /\ WriteBytes(made, 1)
                          /\ doubted \cup (made \cap UNION {Half(a) : a \in DOMAIN soft}) \subseteq doubted'
  BY <1>2
<1>4. Armed /\ ~broken'
  BY <1>3, LinkedSound
<1>. DEFINE taken == [b \in made \ ReadOnly |-> 1]
<1>5. mem' = Over(taken, mem) /\ program' = Over(taken, program) /\ DOMAIN taken = made \ ReadOnly
      /\ \A b \in made \ ReadOnly : taken[b] = 1
  BY <1>3 DEF WriteBytes
<1>. HIDE DEF taken
<1>6. \A b \in Mapped : /\ mem'[b] = IF b \in made \ ReadOnly THEN 1 ELSE mem[b]
                        /\ program'[b] = IF b \in made \ ReadOnly THEN 1 ELSE program[b]
  BY <1>5, OverIs DEF HiddenInv, MemoryShape
<1>7. \A b \in made : b \in Sure' => \A a \in DOMAIN soft : b \notin Half(a)
  BY <1>3 DEF Sure
<1>8. doubted \subseteq doubted'
  BY <1>3
<1>. QED  BY <1>1, <1>4, <1>6, <1>7, <1>8, ArmedBytes

LEMMA ArmedRemoveBreakpoint ==
    ASSUME HiddenInv, UnitTypes, ArmedInv, RemoveBreakpoint, faults' = 0
    PROVE  Armed'
<1>1. PICK addr \in DOMAIN table : table' = Without(table, addr) /\ RemoveFrom(addr)
  BY DEF RemoveBreakpoint
<1>2. removing = << >> /\ removing' = << >>
  BY DEF RemoveBreakpoint, Idle
<1>3. DOMAIN table' = DOMAIN table \ {addr} /\ \A a \in DOMAIN table' : table'[a] = table[a]
  BY <1>1 DEF Without
<1>4. Live = DOMAIN table /\ Live' = DOMAIN table'
  BY <1>2 DEF Live, Idle
<1>5. ~broken' /\ UnitMatches' /\ Planted'
  BY <1>1, <1>3, <1>4, ArmedRemove
<1>6. Distinct'
  BY <1>2 DEF Distinct
<1>. QED  BY <1>5, <1>6 DEF Armed

\* Every breakpoint of the table is removed, each once.
LEMMA AllRemoved ==
    ASSUME NEW S, IsFiniteSet(S), NEW s \in SetToSeqs(S)
    PROVE  /\ s \in Seq(S) /\ ToSet(s) = S
           /\ \A i, j \in DOMAIN s : i # j => s[i] # s[j]
<1>. DEFINE n == Cardinality(S)
<1>1. n \in Nat /\ IsFiniteSet(1 .. n) /\ Cardinality(1 .. n) = n
  <2>1. n \in Nat
    BY FS_CardinalityType
  <2>2. IsFiniteSet(1 .. n) /\ Cardinality(1 .. n) = IF 1 > n THEN 0 ELSE n - 1 + 1
    BY <2>1, FS_Interval
  <2>. QED  BY <2>1, <2>2
<1>2. s \in [1 .. n -> S] /\ \A i, j \in 1 .. n : i # j => s[i] # s[j]
  BY DEF SetToSeqs
<1>3. s \in Injection(1 .. n, S)
  BY <1>2 DEF Injection, IsInjective
<1>4. s \in Surjection(1 .. n, S)
  BY <1>1, <1>3, FS_Injection
<1>5. ToSet(s) = S
  BY <1>2, <1>4 DEF Surjection, ToSet
<1>6. s \in Seq(S)
  BY <1>1, <1>2
<1>. QED  BY <1>2, <1>5, <1>6

LEMMA ArmedRemoveAll ==
    ASSUME HiddenInv, ArmedInv, RemoveAllBreakpoints, faults' = 0
    PROVE  Armed'
<1>1. /\ removing' \in SetToSeqs(DOMAIN table) /\ Idle
      /\ UNCHANGED <<broken, faults, mem, program, doubted, unitVars, table, soft>>
  BY DEF RemoveAllBreakpoints, linkVars, memVars
<1>2. Armed
  BY <1>1 DEF ArmedInv
<1>3. ToSet(removing') = DOMAIN table /\ Distinct'
  BY <1>1, AllRemoved DEF HiddenInv, TableShape, Distinct
<1>4. Live = DOMAIN table /\ Live' = DOMAIN table
  BY <1>1, <1>3 DEF Live, Idle
<1>5. UNCHANGED <<slots, used, enabled, unit, Hardware, Software, FreeSlots, Sure>>
  BY <1>1, <1>4 DEF unitVars, Hardware, Software, FreeSlots, Sure
<1>6. UnitMatches'
  BY <1>1, <1>2, <1>5 DEF Armed, UnitMatches, SlotsMatch, UnitOn, Counted
<1>. QED  BY <1>1, <1>2, <1>3, <1>5, <1>6 DEF Armed, Planted

LEMMA ArmedRemoveNext ==
    ASSUME HiddenInv, UnitTypes, ArmedInv, RemoveNext, faults' = 0
    PROVE  Armed'
<1>. DEFINE addr == Head(removing)
            failed == ~broken' /\ (broken \/ faults' > faults)
            raised == IF table[addr].slot = 0 THEN ~failed /\ addr \notin DOMAIN soft ELSE failed
<1>1. /\ removing # << >> /\ RemoveFrom(addr)
      /\ removing' = IF raised THEN << >> ELSE Tail(removing)
      /\ table' = IF ~raised /\ Len(removing) = 1 THEN << >> ELSE table
  BY DEF RemoveNext
<1>2. removing \in Seq(DOMAIN table)
  BY DEF HiddenInv, TableShape
<1>3. faults = 0 /\ Armed
  <2>1. UNCHANGED faults \/ \E out, n : Linked(out, n)
    BY <1>1 DEF RemoveFrom, RemoveSoftware, RemoveHardware, linkVars
  <2>. QED  BY <2>1 DEF Linked, ArmedInv
<1>4. Len(removing) \in Nat \ {0} /\ DOMAIN removing = 1 .. Len(removing) /\ addr = removing[1]
  BY <1>1, <1>2
<1>5. addr \in Live /\ Live = ToSet(removing)
  BY <1>1, <1>4 DEF Live, Idle, ToSet
<1>6. ~failed /\ ~raised
  <2>1. ~failed
    BY <1>3 DEF Armed
  <2>2. table[addr].slot = 0 => addr \in DOMAIN soft
    BY <1>3, <1>5 DEF Armed, Planted, Software
  <2>. QED  BY <2>1, <2>2
<1>. HIDE DEF addr, failed, raised
<1>7. removing' = Tail(removing) /\ table' = IF Len(removing) = 1 THEN << >> ELSE table
  BY <1>1, <1>6
<1>8. /\ Tail(removing) \in Seq(DOMAIN table) /\ Len(Tail(removing)) = Len(removing) - 1
      /\ \A i \in 1 .. Len(removing) - 1 : Tail(removing)[i] = removing[i + 1]
  BY <1>1, <1>2, <1>4
<1>9. DOMAIN Tail(removing) = 1 .. Len(removing) - 1
  BY <1>8
<1>10. Distinct
  BY <1>3 DEF Armed
<1>11. ToSet(Tail(removing)) = ToSet(removing) \ {addr}
  <2>1. ASSUME NEW x \in ToSet(Tail(removing))
        PROVE  x \in ToSet(removing) /\ x # addr
    <3>1. PICK i \in 1 .. Len(removing) - 1 : x = removing[i + 1]
      BY <1>8, <1>9, <2>1 DEF ToSet
    <3>2. i + 1 \in DOMAIN removing /\ 1 \in DOMAIN removing /\ i + 1 # 1
      BY <1>4, <3>1
    <3>3. removing[i + 1] # removing[1]
      BY <1>10, <3>2 DEF Distinct
    <3>. QED  BY <1>4, <3>1, <3>2, <3>3 DEF ToSet
  <2>2. ASSUME NEW x \in ToSet(removing), x # addr
        PROVE  x \in ToSet(Tail(removing))
    <3>1. PICK i \in 1 .. Len(removing) : x = removing[i]
      BY <1>4, <2>2 DEF ToSet
    <3>2. i # 1
      BY <1>4, <2>2, <3>1
    <3>3. i - 1 \in 1 .. Len(removing) - 1 /\ (i - 1) + 1 = i
      BY <1>4, <3>1, <3>2
    <3>. QED  BY <1>8, <1>9, <3>1, <3>3 DEF ToSet
  <2>. QED  BY <2>1, <2>2
<1>12. Live' = Live \ {addr} /\ \A a \in Live' : table'[a] = table[a]
  <2>1. CASE Len(removing) = 1
    <3>1. Tail(removing) = << >> /\ DOMAIN Tail(removing) = {}
      BY <1>8, <1>9, <2>1, EmptySeq
    <3>2. ToSet(Tail(removing)) = {}
      BY <3>1 DEF ToSet
    <3>3. removing' = << >> /\ DOMAIN table' = {}
      BY <1>7, <2>1, <3>1
    <3>4. Live' = {}
      BY <3>3 DEF Live, Idle
    <3>. QED  BY <1>5, <1>11, <3>2, <3>4
  <2>2. CASE Len(removing) # 1
    <3>1. 1 \in DOMAIN removing' /\ table' = table
      BY <1>4, <1>7, <1>9, <2>2
    <3>2. removing' # << >>
      BY <3>1
    <3>3. Live' = ToSet(removing')
      BY <3>2 DEF Live, Idle
    <3>. QED  BY <1>5, <1>7, <1>11, <3>1, <3>3
  <2>. QED  BY <2>1, <2>2
<1>13. ~broken' /\ UnitMatches' /\ Planted'
  BY <1>1, <1>5, <1>12, ArmedRemove
<1>14. Distinct'
  <2>. SUFFICES ASSUME NEW i \in 1 .. Len(removing) - 1, NEW j \in 1 .. Len(removing) - 1, i # j
                PROVE  removing'[i] # removing'[j]
    BY <1>7, <1>9 DEF Distinct
  <2>1. i + 1 \in DOMAIN removing /\ j + 1 \in DOMAIN removing /\ i + 1 # j + 1
    BY <1>4
  <2>. QED  BY <1>7, <1>8, <1>10, <2>1 DEF Distinct
<1>. QED  BY <1>13, <1>14 DEF Armed

LEMMA FaultsCount ==
    ASSUME faults \in Nat, [Next]_vars
    PROVE  faults' \in Nat /\ (faults' = 0 => faults = 0)
<1>1. UNCHANGED faults \/ \E out, n : Linked(out, n)
  <2>1. CASE SetBreakpoint
    BY <2>1 DEF SetBreakpoint, SetHardware, SetSoftware
  <2>2. CASE RemoveBreakpoint \/ RemoveNext
    BY <2>2 DEF RemoveBreakpoint, RemoveNext, RemoveFrom, RemoveSoftware, RemoveHardware, linkVars
  <2>3. CASE RemoveAllBreakpoints \/ Resume \/ Halt \/ Step \/ Execute \/ Wake
    BY <2>3 DEF RemoveAllBreakpoints, Resume, Halt, Step, Execute, Wake, linkVars
  <2>4. CASE Read
    BY <2>4 DEF Read
  <2>5. CASE Write
    BY <2>5 DEF Write
  <2>6. CASE Invalidate \/ UNCHANGED vars
    BY <2>6 DEF Invalidate, vars, bpVars, linkVars
  <2>. QED  BY <2>1, <2>2, <2>3, <2>4, <2>5, <2>6 DEF Next, BpNext
<1>. QED  BY <1>1 DEF Linked

LEMMA ArmedStep ==
    ASSUME HiddenInv, UnitTypes, ArmedInv, [Next]_vars
    PROVE  ArmedInv'
<1>1. faults \in Nat
  BY DEF ArmedInv
<1>2. faults' \in Nat /\ (faults' = 0 => faults = 0)
  BY <1>1, FaultsCount
<1>. SUFFICES ASSUME faults' = 0 PROVE Armed'
  BY <1>2 DEF ArmedInv
<1>3. Armed
  BY <1>2 DEF ArmedInv
<1>4. CASE SetBreakpoint
  BY <1>4, ArmedSetHardware, ArmedSetSoftware DEF SetBreakpoint
<1>5. CASE RemoveBreakpoint \/ RemoveAllBreakpoints \/ RemoveNext
  BY <1>5, ArmedRemoveBreakpoint, ArmedRemoveAll, ArmedRemoveNext
<1>6. CASE Execute
  <2>1. ~broken' /\ Flip /\ UNCHANGED <<unitVars, table, soft, removing, doubted>>
    BY <1>3, <1>6 DEF Execute, Quiet, linkVars, Armed
  <2>. QED  BY <1>3, <2>1, ArmedFlip
<1>7. CASE Step
  <2>1. \E out, n : Linked(out, n)
    BY <1>7 DEF Step
  <2>2. ~broken'
    BY <2>1, LinkedSound
  <2>3. UNCHANGED <<unitVars, table, soft, removing, doubted>> /\ (Flip \/ UNCHANGED <<mem, program>>)
    BY <1>7 DEF Step, Quiet
  <2>. QED  BY <1>3, <2>2, <2>3, ArmedFlip, ArmedQuiet
<1>8. CASE Write
  BY <1>8, ArmedWrite
<1>9. CASE Resume \/ Halt \/ Wake
  <2>1. UNCHANGED broken \/ \E out, n : Linked(out, n)
    BY <1>9 DEF Resume, Halt, Wake, linkVars
  <2>2. ~broken'
    BY <1>3, <2>1, LinkedSound DEF Armed
  <2>3. UNCHANGED <<mem, program, doubted, unitVars, table, soft, removing>>
    BY <1>9 DEF Resume, Halt, Wake, Quiet
  <2>. QED  BY <1>3, <2>2, <2>3, ArmedQuiet
<1>10. CASE Read
  <2>1. \E out, n : Linked(out, n)
    BY <1>10 DEF Read
  <2>2. ~broken'
    BY <2>1, LinkedSound
  <2>3. UNCHANGED <<mem, program, doubted, unitVars, table, soft, removing>>
    BY <1>10 DEF Read, CacheChecked, memVars
  <2>. QED  BY <1>3, <2>2, <2>3, ArmedQuiet
<1>11. CASE Invalidate \/ UNCHANGED vars
  <2>1. UNCHANGED <<broken, mem, program, doubted, unitVars, table, soft, removing>>
    BY <1>11 DEF Invalidate, vars, bpVars, linkVars, memVars
  <2>. QED  BY <1>3, <2>1, ArmedQuiet DEF Armed
<1>. QED
  BY <1>4, <1>5, <1>6, <1>7, <1>8, <1>9, <1>10, <1>11 DEF Next, BpNext

LEMMA ArmedInit == Init => ArmedInv
<1>. SUFFICES ASSUME Init PROVE Armed /\ faults \in Nat
  BY DEF ArmedInv
<1>1. /\ broken = FALSE /\ faults = 0 /\ mem = [b \in Mapped |-> 0] /\ program = mem
      /\ table = << >> /\ soft = << >> /\ used = 0 /\ enabled = FALSE /\ removing = << >>
      /\ slots = [i \in 1 .. Comparators |-> [enabled |-> FALSE, addr |-> 0]]
      /\ unit = [on |-> FALSE, comp |-> [i \in 1 .. Comparators |-> Free]]
  BY DEF Init, BpInit
<1>2. DOMAIN table = {} /\ DOMAIN soft = {} /\ DOMAIN removing = {}
  BY <1>1
<1>3. Live = {} /\ Hardware = {} /\ Software = {}
  BY <1>1, <1>2 DEF Live, Idle, Hardware, Software
<1>4. \A i \in 1 .. Comparators : ~slots[i].enabled /\ unit.comp[i] = Free
  BY <1>1
<1>5. FreeSlots = 1 .. Comparators
  BY <1>1, <1>4 DEF FreeSlots
<1>6. Cardinality(Hardware) = 0 /\ Cardinality(FreeSlots) = Comparators
  BY <1>3, <1>5, Bounds, FS_EmptySet, FS_Interval
<1>7. UnitMatches
  BY <1>1, <1>3, <1>4, <1>6, Bounds DEF UnitMatches, SlotsMatch, UnitOn, Counted
<1>8. Planted /\ Distinct
  BY <1>1, <1>2, <1>3 DEF Planted, Distinct
<1>. QED  BY <1>1, <1>7, <1>8 DEF Armed

(* While no access has failed, the breakpoints of the table are those that *)
(* stop the core, each by a comparator of its own or a BKPT, and nothing   *)
(* else would, for any number of comparators and any order of the calls.   *)
THEOREM BreakpointsAreArmed == Spec => []BreakpointsArmed
<1>1. Init => HiddenInv /\ UnitTypes /\ ArmedInv
  BY HiddenInit, UnitInit, ArmedInit
<1>2. HiddenInv /\ UnitTypes /\ ArmedInv /\ [Next]_vars => HiddenInv' /\ UnitTypes' /\ ArmedInv'
  BY HiddenStep, UnitTyped, ArmedStep
<1>3. HiddenInv /\ UnitTypes /\ ArmedInv => BreakpointsArmed
  BY ArmedFollows
<1>. QED  BY <1>1, <1>2, <1>3, PTL DEF Spec

-----------------------------------------------------------------------------
(* The intervals of the cache *)

Interval(d) == \E f, l \in Int : f <= l /\ d = f .. l
Apart(ds) == \A d, e \in ds : d # e => d \cap e = {}
Pieces(us) == (\A u \in us : Interval(u)) /\ Apart(us)

LEMMA EndsOf ==
    ASSUME NEW f \in Int, NEW l \in Int, f <= l
    PROVE  Min(f .. l) = f /\ Max(f .. l) = l
<1>1. f \in f .. l /\ \A y \in f .. l : f <= y
  OBVIOUS
<1>2. l \in f .. l /\ \A y \in f .. l : l >= y
  OBVIOUS
<1>3. \A x \in f .. l : (\A y \in f .. l : x <= y) => x = f
  OBVIOUS
<1>4. \A x \in f .. l : (\A y \in f .. l : x >= y) => x = l
  OBVIOUS
<1>5. Min(f .. l) = f
  BY <1>1, <1>3 DEF Min
<1>6. Max(f .. l) = l
  BY <1>2, <1>4 DEF Max
<1>. QED  BY <1>5, <1>6

\* What is left of one piece beside an interval.
LEMMA PieceLeft ==
    ASSUME NEW u, Interval(u), NEW iv, Interval(DOMAIN iv)
    PROVE  LET left == IF Final(iv) + 1 < Min(u) \/ First(iv) > Max(u) + 1 THEN {u}
                       ELSE Span(Min(u), First(iv) - 1) \cup Span(Final(iv) + 1, Max(u))
           IN  Pieces(left) /\ UNION left = u \ DOMAIN iv
<1>1. PICK a \in Int, b \in Int : a <= b /\ u = a .. b
  BY DEF Interval
<1>2. PICK f \in Int, l \in Int : f <= l /\ DOMAIN iv = f .. l
  BY DEF Interval
<1>3. Min(u) = a /\ Max(u) = b /\ First(iv) = f /\ Final(iv) = l
  BY <1>1, <1>2, EndsOf DEF First, Final
<1>. DEFINE left == IF l + 1 < a \/ f > b + 1 THEN {u} ELSE Span(a, f - 1) \cup Span(l + 1, b)
<1>. SUFFICES Pieces(left) /\ UNION left = u \ DOMAIN iv
  BY <1>3
<1>4. CASE l + 1 < a \/ f > b + 1
  <2>1. left = {u} /\ u \cap DOMAIN iv = {}
    BY <1>1, <1>2, <1>4
  <2>. HIDE DEF left
  <2>. QED  BY <2>1 DEF Pieces, Apart
<1>5. CASE ~(l + 1 < a \/ f > b + 1)
  <2>1. left = Span(a, f - 1) \cup Span(l + 1, b)
    BY <1>5
  <2>. HIDE DEF left
  <2>2. \A p \in left : (p = a .. f - 1 /\ a <= f - 1) \/ (p = l + 1 .. b /\ l + 1 <= b)
    BY <1>1, <1>2, <2>1 DEF Span
  <2>3. (a <= f - 1 => a .. f - 1 \in left) /\ (l + 1 <= b => l + 1 .. b \in left)
    BY <1>1, <1>2, <2>1 DEF Span
  <2>4. \A p \in left : Interval(p)
    <3>1. f - 1 \in Int /\ l + 1 \in Int
      BY <1>2
    <3>. QED  BY <1>1, <1>2, <2>2, <3>1 DEF Interval
  <2>5. Apart(left)
    <3>1. (a .. f - 1) \cap (l + 1 .. b) = {}
      BY <1>1, <1>2
    <3>. QED  BY <2>2, <3>1 DEF Apart
  <2>6. UNION left = u \ DOMAIN iv
    <3>1. \A x : x \in UNION left <=> x \in a .. f - 1 \/ x \in l + 1 .. b
      <4>1. \A x \in a .. f - 1 : a <= f - 1
        BY <1>1, <1>2
      <4>2. \A x \in l + 1 .. b : l + 1 <= b
        BY <1>1, <1>2
      <4>. QED  BY <2>2, <2>3, <4>1, <4>2
    <3>2. \A x : x \in u \ DOMAIN iv <=> x \in a .. f - 1 \/ x \in l + 1 .. b
      BY <1>1, <1>2, <1>5
    <3>. QED  BY <3>1, <3>2
  <2>. QED  BY <2>4, <2>5, <2>6 DEF Pieces
<1>. QED  BY <1>4, <1>5

LEMMA UncoveredIs ==
    ASSUME NEW us, Pieces(us), NEW iv, Interval(DOMAIN iv)
    PROVE  Pieces(Uncovered(us, iv)) /\ UNION Uncovered(us, iv) = (UNION us) \ DOMAIN iv
<1>. DEFINE LeftOf(u) == IF Final(iv) + 1 < Min(u) \/ First(iv) > Max(u) + 1 THEN {u}
                         ELSE Span(Min(u), First(iv) - 1) \cup Span(Final(iv) + 1, Max(u))
            all == UNION {LeftOf(u) : u \in us}
<1>1. Uncovered(us, iv) = all
  BY DEF Uncovered
<1>2. \A u \in us : Pieces(LeftOf(u)) /\ UNION LeftOf(u) = u \ DOMAIN iv
  BY PieceLeft DEF Pieces
<1>. HIDE DEF LeftOf
<1>3. \A p \in all : \E u \in us : p \in LeftOf(u)
  OBVIOUS
<1>4. \A u \in us : \A p \in LeftOf(u) : p \in all /\ p \subseteq u
  BY <1>2
<1>5. UNION all = (UNION us) \ DOMAIN iv
  BY <1>2, <1>3, <1>4
<1>6. \A p \in all : Interval(p)
  BY <1>2, <1>3 DEF Pieces
<1>7. Apart(all)
  <2>. SUFFICES ASSUME NEW p \in all, NEW q \in all, p # q PROVE p \cap q = {}
    BY DEF Apart
  <2>1. PICK u \in us, v \in us : p \in LeftOf(u) /\ q \in LeftOf(v)
    BY <1>3
  <2>2. CASE u = v
    BY <1>2, <2>1, <2>2 DEF Pieces, Apart
  <2>3. CASE u # v
    <3>1. u \cap v = {}
      BY <2>3 DEF Pieces, Apart
    <3>. QED  BY <1>4, <2>1, <3>1
  <2>. QED  BY <2>2, <2>3
<1>. QED  BY <1>1, <1>5, <1>6, <1>7 DEF Pieces

(* What the cache lacks of a range: pieces that are apart, and all that is *)
(* in no interval.                                                         *)
LEMMA LackingIs ==
    ASSUME NEW kept, IsFiniteSet(kept), \A iv \in kept : Interval(DOMAIN iv),
           NEW bytes, Interval(bytes)
    PROVE  /\ Pieces(UncachedRanges(kept, bytes))
           /\ UNION UncachedRanges(kept, bytes) = bytes \ UNION {DOMAIN iv : iv \in kept}
<1>. DEFINE T == Overlap(kept, bytes)
            Pick(s) == CHOOSE x \in s : TRUE
            Body(g, s) == IF s = {} THEN {bytes} ELSE Uncovered(g[s \ {Pick(s)}], Pick(s))
            iter == CHOOSE g : g = [s \in SUBSET T |-> Body(g, s)]
<1>1. UncachedRanges(kept, bytes) = iter[T]
  BY DEF UncachedRanges, FoldSet, MapThenFoldSet
<1>2. IsFiniteSet(T) /\ (\A iv \in T : Interval(DOMAIN iv))
      /\ bytes \ UNION {DOMAIN iv : iv \in T} = bytes \ UNION {DOMAIN iv : iv \in kept}
  BY FS_Subset DEF Overlap
<1>. HIDE DEF T
<1>3. \A s \in SUBSET T : IsFiniteSet(s) /\ Cardinality(s) \in Nat
  BY <1>2, FS_Subset, FS_CardinalityType
<1>4. ASSUME NEW s \in SUBSET T, s # {}
      PROVE  /\ Pick(s) \in s /\ s \ {Pick(s)} \in SUBSET T
             /\ Cardinality(s \ {Pick(s)}) = Cardinality(s) - 1
  <2>1. Pick(s) \in s
    BY <1>4
  <2>. HIDE DEF Pick
  <2>. QED  BY <1>3, <2>1, FS_RemoveElement
<1>5. Cardinality({}) = 0 /\ \A s \in SUBSET T : Cardinality(s) = 0 => s = {}
  BY <1>3, FS_EmptySet
<1>. HIDE DEF Pick
<1>. DEFINE UpTo(n) == {s \in SUBSET T : Cardinality(s) <= n}
<1>6. \E g : g = [s \in SUBSET T |-> Body(g, s)]
  <2>. DEFINE Solves(n) == \E g : g = [s \in UpTo(n) |-> Body(g, s)]
              Bad == {n \in Nat : ~Solves(n)}
  <2>1. Solves(0)
    <3>1. UpTo(0) = {{}}
      BY <1>3, <1>5
    <3>. DEFINE g == [s \in {{}} |-> {bytes}]
    <3>2. g = [s \in {{}} |-> Body(g, s)]
      OBVIOUS
    <3>. QED  BY <3>1, <3>2
  <2>2. ASSUME NEW n \in Nat, Solves(n)
        PROVE  Solves(n + 1)
    <3>1. PICK g : g = [s \in UpTo(n) |-> Body(g, s)]
      BY <2>2
    <3>. DEFINE h == [s \in UpTo(n + 1) |-> Body(g, s)]
    <3>2. \A s \in UpTo(n) : h[s] = g[s]
      <4>1. \A s \in UpTo(n) : g[s] = Body(g, s) /\ s \in UpTo(n + 1)
        <5>1. \A s \in UpTo(n) : s \in UpTo(n + 1)
          BY <1>3
        <5>2. \A s \in UpTo(n) : g[s] = Body(g, s)
          <6>. HIDE DEF Body, UpTo
          <6>. QED  BY <3>1
        <5>. QED  BY <5>1, <5>2
      <4>. HIDE DEF Body
      <4>. QED  BY <4>1
    <3>3. \A s \in UpTo(n + 1) : Body(h, s) = Body(g, s)
      <4>. HIDE DEF h
      <4>1. \A s \in UpTo(n + 1) : s # {} => s \ {Pick(s)} \in UpTo(n)
        BY <1>3, <1>4
      <4>. HIDE DEF UpTo
      <4>. QED  BY <3>2, <4>1
    <3>4. h = [s \in UpTo(n + 1) |-> Body(h, s)]
      <4>. HIDE DEF Body, UpTo
      <4>. QED  BY <3>3
    <3>. QED  BY <3>4
  <2>. HIDE DEF Solves
  <2>3. Bad = {}
    <3>. SUFFICES ASSUME Bad # {} PROVE FALSE
      OBVIOUS
    <3>1. PICK n \in Bad : \A k \in Bad : n <= k
      <4>1. Bad \in SUBSET Nat
        OBVIOUS
      <4>. HIDE DEF Bad
      <4>. QED  BY <4>1, Least
    <3>2. n \in Nat /\ n # 0
      BY <2>1
    <3>3. n - 1 \in Nat /\ n - 1 \notin Bad /\ (n - 1) + 1 = n
      BY <3>1, <3>2
    <3>. QED  BY <2>2, <3>3
  <2>4. Solves(Cardinality(T))
    BY <1>3, <2>3
  <2>5. UpTo(Cardinality(T)) = SUBSET T
    BY <1>2, FS_Subset
  <2>. QED  BY <2>4, <2>5 DEF Solves
<1>7. iter = [s \in SUBSET T |-> Body(iter, s)]
  BY <1>6
<1>. HIDE DEF iter
<1>8. iter[{}] = {bytes}
  BY <1>7
<1>9. \A s \in SUBSET T : s # {} => iter[s] = Uncovered(iter[s \ {Pick(s)}], Pick(s))
  BY <1>7
<1>. HIDE DEF Body
<1>. DEFINE Good(s) == Pieces(iter[s]) /\ UNION iter[s] = bytes \ UNION {DOMAIN iv : iv \in s}
            Bad == {n \in Nat : \E s \in SUBSET T : Cardinality(s) = n /\ ~Good(s)}
<1>10. Good({})
  BY <1>8 DEF Pieces, Apart
<1>11. ASSUME NEW s \in SUBSET T, s # {}, Good(s \ {Pick(s)})
       PROVE  Good(s)
  <2>. DEFINE r == s \ {Pick(s)}
              iv == Pick(s)
  <2>1. iter[s] = Uncovered(iter[r], iv) /\ iv \in s /\ Interval(DOMAIN iv)
    BY <1>2, <1>4, <1>9, <1>11
  <2>2. Pieces(iter[r]) /\ UNION iter[r] = bytes \ UNION {DOMAIN jv : jv \in r}
    BY <1>11
  <2>3. s = r \cup {iv}
    BY <2>1
  <2>. HIDE DEF r, iv
  <2>4. Pieces(iter[s]) /\ UNION iter[s] = (UNION iter[r]) \ DOMAIN iv
    BY <2>1, <2>2, UncoveredIs
  <2>5. UNION {DOMAIN jv : jv \in s} = (UNION {DOMAIN jv : jv \in r}) \cup DOMAIN iv
    BY <2>3
  <2>6. UNION iter[s] = bytes \ UNION {DOMAIN jv : jv \in s}
    BY <2>2, <2>4, <2>5
  <2>. QED  BY <2>4, <2>6
<1>. HIDE DEF Good
<1>12. Bad = {}
  <2>. SUFFICES ASSUME Bad # {} PROVE FALSE
    OBVIOUS
  <2>1. PICK n \in Bad : \A k \in Bad : n <= k
    <3>1. Bad \in SUBSET Nat
      OBVIOUS
    <3>. HIDE DEF Bad
    <3>. QED  BY <3>1, Least
  <2>2. PICK s \in SUBSET T : Cardinality(s) = n /\ ~Good(s)
    BY <2>1
  <2>3. s # {}
    BY <1>10, <2>2
  <2>4. s \ {Pick(s)} \in SUBSET T /\ Cardinality(s \ {Pick(s)}) = n - 1 /\ n - 1 \in Nat
    BY <1>3, <1>4, <2>2, <2>3
  <2>5. n - 1 \notin Bad
    BY <2>1, <2>4
  <2>6. Good(s \ {Pick(s)})
    BY <2>4, <2>5
  <2>. QED  BY <1>11, <2>2, <2>3, <2>6
<1>13. Good(T)
  BY <1>3, <1>12
<1>. QED  BY <1>1, <1>2, <1>13 DEF Good

Intervals(kept) ==
    /\ IsFiniteSet(kept) /\ \A iv \in kept : Interval(DOMAIN iv)
    /\ \A iv, jv \in kept : iv # jv => DOMAIN iv \cap DOMAIN jv = {}

LEMMA BytesInterval ==
    ASSUME NEW addr \in Nat, NEW size \in Nat \ {0}
    PROVE  Interval(Bytes(addr, size)) /\ IsFiniteSet(Bytes(addr, size))
<1>1. addr \in Int /\ addr + size - 1 \in Int /\ addr <= addr + size - 1
  OBVIOUS
<1>2. Bytes(addr, size) = addr .. addr + size - 1
  BY DEF Bytes, LastOf
<1>. QED  BY <1>1, <1>2, FS_Interval DEF Interval

\* Of the intervals that overlap some bytes, one reaches below them and one above at most.
LEMMA AroundIs ==
    ASSUME NEW kept, Intervals(kept), NEW bytes, Interval(bytes)
    PROVE  Interval(bytes \cup UNION {DOMAIN iv : iv \in Overlap(kept, bytes)})
<1>1. PICK p \in Int, q \in Int : p <= q /\ bytes = p .. q
  BY DEF Interval
<1>. DEFINE over == Overlap(kept, bytes)
            all == bytes \cup UNION {DOMAIN iv : iv \in over}
<1>2. \A iv \in over : \E f, l \in Int : f <= l /\ DOMAIN iv = f .. l /\ f <= q /\ p <= l
  <2>. SUFFICES ASSUME NEW iv \in over
                PROVE  \E f, l \in Int : f <= l /\ DOMAIN iv = f .. l /\ f <= q /\ p <= l
    OBVIOUS
  <2>1. PICK f \in Int, l \in Int : f <= l /\ DOMAIN iv = f .. l
    BY DEF Intervals, Interval, Overlap
  <2>2. PICK x \in DOMAIN iv : x \in bytes
    BY DEF Overlap
  <2>3. f <= q /\ p <= l
    BY <1>1, <2>1, <2>2
  <2>. QED  BY <2>1, <2>3
<1>3. \A iv, jv \in over : iv # jv => DOMAIN iv \cap DOMAIN jv = {}
  BY DEF Intervals, Overlap
<1>. HIDE DEF over
<1>4. PICK f \in Int : f <= p /\ (f .. p) \subseteq all /\ \A iv \in over : \A x \in DOMAIN iv : f <= x
  <2>1. CASE \E iv \in over : p \in DOMAIN iv
    <3>1. PICK iv \in over : p \in DOMAIN iv
      BY <2>1
    <3>2. PICK f \in Int, l \in Int : f <= l /\ DOMAIN iv = f .. l
      BY <1>2
    <3>3. f <= p /\ (f .. p) \subseteq all
      BY <1>1, <3>1, <3>2
    <3>4. ASSUME NEW jv \in over, NEW x \in DOMAIN jv
          PROVE  f <= x
      <4>1. PICK g \in Int, m \in Int : g <= m /\ DOMAIN jv = g .. m /\ g <= q /\ p <= m
        BY <1>2
      <4>2. CASE jv = iv
        BY <3>2, <3>4, <4>2
      <4>3. CASE jv # iv
        <5>1. p \notin g .. m
          BY <1>3, <3>1, <4>1, <4>3
        <5>. QED  BY <1>1, <3>3, <3>4, <4>1, <5>1
      <4>. QED  BY <4>2, <4>3
    <3>. QED  BY <3>2, <3>3, <3>4
  <2>2. CASE \A iv \in over : p \notin DOMAIN iv
    <3>1. p <= p /\ (p .. p) \subseteq all
      BY <1>1
    <3>2. ASSUME NEW jv \in over, NEW x \in DOMAIN jv
          PROVE  p <= x
      <4>1. PICK g \in Int, m \in Int : g <= m /\ DOMAIN jv = g .. m /\ g <= q /\ p <= m
        BY <1>2
      <4>2. p \notin g .. m
        BY <2>2, <4>1
      <4>. QED  BY <1>1, <3>2, <4>1, <4>2
    <3>. QED  BY <3>1, <3>2
  <2>. QED  BY <2>1, <2>2
<1>5. PICK l \in Int : q <= l /\ (q .. l) \subseteq all /\ \A iv \in over : \A x \in DOMAIN iv : x <= l
  <2>1. CASE \E iv \in over : q \in DOMAIN iv
    <3>1. PICK iv \in over : q \in DOMAIN iv
      BY <2>1
    <3>2. PICK k \in Int, l \in Int : k <= l /\ DOMAIN iv = k .. l
      BY <1>2
    <3>3. q <= l /\ (q .. l) \subseteq all
      BY <1>1, <3>1, <3>2
    <3>4. ASSUME NEW jv \in over, NEW x \in DOMAIN jv
          PROVE  x <= l
      <4>1. PICK g \in Int, m \in Int : g <= m /\ DOMAIN jv = g .. m /\ g <= q /\ p <= m
        BY <1>2
      <4>2. CASE jv = iv
        BY <3>2, <3>4, <4>2
      <4>3. CASE jv # iv
        <5>1. q \notin g .. m
          BY <1>3, <3>1, <4>1, <4>3
        <5>. QED  BY <1>1, <3>3, <3>4, <4>1, <5>1
      <4>. QED  BY <4>2, <4>3
    <3>. QED  BY <3>2, <3>3, <3>4
  <2>2. CASE \A iv \in over : q \notin DOMAIN iv
    <3>1. q <= q /\ (q .. q) \subseteq all
      BY <1>1
    <3>2. ASSUME NEW jv \in over, NEW x \in DOMAIN jv
          PROVE  x <= q
      <4>1. PICK g \in Int, m \in Int : g <= m /\ DOMAIN jv = g .. m /\ g <= q /\ p <= m
        BY <1>2
      <4>2. q \notin g .. m
        BY <2>2, <4>1
      <4>. QED  BY <1>1, <3>2, <4>1, <4>2
    <3>. QED  BY <3>1, <3>2
  <2>. QED  BY <2>1, <2>2
<1>6. \A x \in all : x \in Int
  BY <1>1, <1>2
<1>7. all = f .. l
  <2>1. \A x \in all : f <= x /\ x <= l
    BY <1>1, <1>4, <1>5
  <2>2. \A x \in f .. l : x \in f .. p \/ x \in p .. q \/ x \in q .. l
    BY <1>1
  <2>3. \A x \in all : x \in f .. l
    BY <1>4, <1>5, <1>6, <2>1
  <2>4. (f .. p) \subseteq all /\ (p .. q) \subseteq all /\ (q .. l) \subseteq all
    BY <1>1, <1>4, <1>5
  <2>. HIDE DEF all
  <2>5. \A x \in f .. l : x \in all
    BY <2>2, <2>4
  <2>. QED  BY <2>3, <2>5
<1>8. f <= l
  BY <1>1, <1>4, <1>5
<1>. QED  BY <1>7, <1>8 DEF Interval, over

\* The intervals after a write: the bytes written have its value, the others are as they were.
LEMMA WrittenIs ==
    ASSUME NEW kept, Intervals(kept), NEW bytes, Interval(bytes), NEW value
    PROVE  /\ Intervals(Written(kept, bytes, value))
           /\ \A iv \in Written(kept, bytes, value) : \A b \in DOMAIN iv :
                IF b \in bytes THEN iv[b] = value ELSE \E jv \in kept : b \in DOMAIN jv /\ iv[b] = jv[b]
<1>1. PICK p \in Int, q \in Int : p <= q /\ bytes = p .. q
  BY DEF Interval
<1>. DEFINE over == Overlap(kept, bytes)
            around == UNION {DOMAIN iv : iv \in over}
            lead == {b \in around : b < Min(bytes)}
            trail == {b \in around : b > Max(bytes)}
            At(b) == (CHOOSE iv \in over : b \in DOMAIN iv)[b]
            new == [b \in lead \cup bytes \cup trail |-> IF b \in bytes THEN value ELSE At(b)]
<1>2. Written(kept, bytes, value) = (kept \ over) \cup {new}
  BY DEF Written
<1>3. Min(bytes) = p /\ Max(bytes) = q
  BY <1>1, EndsOf
<1>4. \A iv \in kept : \A b \in DOMAIN iv : b \in Int
  BY DEF Intervals, Interval
<1>5. over \subseteq kept /\ \A iv \in kept \ over : DOMAIN iv \cap bytes = {}
  BY DEF Overlap
<1>6. DOMAIN new = bytes \cup around
  <2>1. \A b \in around : b \in Int
    BY <1>4, <1>5
  <2>2. \A b \in around : b < p \/ b \in bytes \/ b > q
    BY <1>1, <2>1
  <2>. QED  BY <1>3, <2>2
<1>7. Interval(DOMAIN new)
  BY <1>6, AroundIs
<1>8. \A b \in DOMAIN new : IF b \in bytes THEN new[b] = value
                             ELSE \E jv \in kept : b \in DOMAIN jv /\ new[b] = jv[b]
  <2>. SUFFICES ASSUME NEW b \in DOMAIN new, b \notin bytes
                PROVE  \E jv \in kept : b \in DOMAIN jv /\ new[b] = jv[b]
    OBVIOUS
  <2>1. \E iv \in over : b \in DOMAIN iv
    BY <1>6
  <2>. DEFINE jv == CHOOSE iv \in over : b \in DOMAIN iv
  <2>2. jv \in over /\ b \in DOMAIN jv
    BY <2>1
  <2>3. new[b] = jv[b]
    OBVIOUS
  <2>. QED  BY <1>5, <2>2, <2>3
<1>9. \A iv \in kept \ over : DOMAIN iv \cap DOMAIN new = {}
  <2>1. \A iv \in kept \ over : \A jv \in over : DOMAIN iv \cap DOMAIN jv = {}
    BY <1>5 DEF Intervals
  <2>. QED  BY <1>5, <1>6, <2>1
<1>. HIDE DEF new, over
<1>10. IsFiniteSet((kept \ over) \cup {new})
  <2>1. IsFiniteSet(kept \ over)
    BY FS_Subset DEF Intervals
  <2>. QED  BY <2>1, FS_AddElement
<1>11. Intervals((kept \ over) \cup {new})
  BY <1>7, <1>9, <1>10 DEF Intervals
<1>12. \A iv \in kept \ over : \A b \in DOMAIN iv :
          IF b \in bytes THEN iv[b] = value ELSE \E jv \in kept : b \in DOMAIN jv /\ iv[b] = jv[b]
  BY <1>5
<1>. QED  BY <1>2, <1>8, <1>11, <1>12

Added(got) == {ReadMemoryBlock8(Min(u), Cardinality(u)) : u \in got}

\* The intervals after a read: each range that was read is one.
LEMMA AddedIs ==
    ASSUME NEW kept, Intervals(kept), NEW bytes, Interval(bytes), IsFiniteSet(bytes),
           NEW got \in SUBSET UncachedRanges(kept, bytes)
    PROVE  /\ Intervals(kept \cup Added(got))
           /\ \A iv \in Added(got) : \A b \in DOMAIN iv : b \in bytes /\ iv[b] = ReadMemory(b, 1)[b]
<1>. DEFINE Block(u) == ReadMemoryBlock8(Min(u), Cardinality(u))
            added == {Block(u) : u \in got}
<1>1. Pieces(got) /\ UNION got \subseteq bytes \ UNION {DOMAIN iv : iv \in kept}
  BY LackingIs DEF Intervals, Pieces, Apart
<1>2. \A u \in got : DOMAIN Block(u) = u /\ \A b \in u : Block(u)[b] = ReadMemory(b, 1)[b]
  <2>. SUFFICES ASSUME NEW u \in got
                PROVE  DOMAIN Block(u) = u /\ \A b \in u : Block(u)[b] = ReadMemory(b, 1)[b]
    OBVIOUS
  <2>1. PICK f \in Int, l \in Int : f <= l /\ u = f .. l
    BY <1>1 DEF Pieces, Interval
  <2>2. Min(u) = f
    BY <2>1, EndsOf
  <2>3. Cardinality(u) = l - f + 1
    BY <2>1, FS_Interval
  <2>4. Bytes(Min(u), Cardinality(u)) = u
    BY <2>1, <2>2, <2>3 DEF Bytes, LastOf
  <2>. QED  BY <2>4 DEF ReadMemoryBlock8
<1>3. IsFiniteSet(got)
  <2>1. got \in SUBSET (SUBSET bytes)
    BY <1>1
  <2>. QED  BY <2>1, FS_SUBSET, FS_Subset
<1>. HIDE DEF Block
<1>4. IsFiniteSet(added)
  <2>. DEFINE f == [u \in got |-> Block(u)]
  <2>1. f \in Surjection(got, added)
    BY DEF Surjection
  <2>. HIDE DEF f, added
  <2>. QED  BY <1>3, <2>1, FS_Surjection
<1>5. \A iv \in added : Interval(DOMAIN iv) /\ DOMAIN iv \subseteq bytes
                         /\ \A jv \in kept : DOMAIN iv \cap DOMAIN jv = {}
  BY <1>1, <1>2 DEF Pieces
<1>6. \A iv, jv \in added : iv # jv => DOMAIN iv \cap DOMAIN jv = {}
  BY <1>1, <1>2 DEF Pieces, Apart
<1>7. \A iv \in added : \A b \in DOMAIN iv : b \in bytes /\ iv[b] = ReadMemory(b, 1)[b]
  BY <1>1, <1>2
<1>. HIDE DEF added
<1>8. IsFiniteSet(kept \cup added)
  BY <1>4, FS_Union DEF Intervals
<1>9. Intervals(kept \cup added)
  BY <1>5, <1>6, <1>8 DEF Intervals
<1>. QED  BY <1>7, <1>9 DEF added, Block, Added

LEMMA RangeTypes ==
    \A r \in ReadRanges \cup WriteRanges :
        /\ r.addr \in Nat /\ r.size \in Nat \ {0}
        /\ Interval(Bytes(r.addr, r.size)) /\ IsFiniteSet(Bytes(r.addr, r.size))
<1>. SUFFICES ASSUME NEW r \in ReadRanges \cup WriteRanges
              PROVE  /\ r.addr \in Nat /\ r.size \in Nat \ {0}
                     /\ Interval(Bytes(r.addr, r.size)) /\ IsFiniteSet(Bytes(r.addr, r.size))
  OBVIOUS
<1>1. r \in [addr : Nat, size : Nat \ {0}]
  BY RangesAssumption
<1>2. r.addr \in Nat /\ r.size \in Nat \ {0}
  BY <1>1
<1>. QED  BY <1>2, BytesInterval

\* What a read through the cache does, and a write.
ReadBy(r, got) ==
    LET kept == Checked(cache)
    IN  /\ r \in ReadRanges /\ got \in SUBSET UncachedRanges(kept, Bytes(r.addr, r.size))
        /\ got # {} => Regioned(r.addr, r.size) = "cacheable"
        /\ cache' = kept \cup Added(got)
        /\ dozed' = Dozes(kept)
        /\ CacheChecked /\ UNCHANGED memVars

LEMMA ReadIs ==
    ASSUME Read
    PROVE  \/ UNCHANGED <<cacheVars, core, tokenVars, unitVars, table, soft, removing, memVars>>
           \/ \E r, got : ReadBy(r, got)
<1>1. PICK r \in ReadRanges :
        LET kept == Checked(cache)
            bytes == Bytes(r.addr, r.size)
            how == Regioned(r.addr, r.size)
        IN  \E us \in SetToSeqs(IF how = "cacheable" THEN UncachedRanges(kept, bytes)
                                ELSE IF how = "none" THEN {bytes} ELSE {}) :
            LET n == 1 + Len(us)
            IN  \E out \in Outcomes([i \in 1 .. n |-> "read"]) :
                LET got == {us[j] : j \in {k \in DOMAIN us : how = "cacheable" /\ Passed(out, 1 + k)}}
                IN  IF Passed(out, 1)
                    THEN /\ cache' = kept \cup {ReadMemoryBlock8(Min(u), Cardinality(u)) : u \in got}
                         /\ dozed' = Dozes(kept)
                         /\ CacheChecked
                    ELSE UNCHANGED <<cache, dozed, synced, core, tokenVars, unitVars, table, soft, removing>>
  BY DEF Read
<1>. DEFINE kept == Checked(cache)
            bytes == Bytes(r.addr, r.size)
            how == Regioned(r.addr, r.size)
            some == IF how = "cacheable" THEN UncachedRanges(kept, bytes)
                    ELSE IF how = "none" THEN {bytes} ELSE {}
<1>2. PICK us, passed :
        /\ us \in SetToSeqs(some)
        /\ LET got == {us[j] : j \in {k \in DOMAIN us : how = "cacheable" /\ passed[k]}}
           IN  \/ /\ cache' = kept \cup {ReadMemoryBlock8(Min(u), Cardinality(u)) : u \in got}
                  /\ dozed' = Dozes(kept)
                  /\ CacheChecked
               \/ UNCHANGED <<cache, dozed, synced, core, tokenVars, unitVars, table, soft, removing>>
  <2>1. PICK us \in SetToSeqs(some) :
          \E out : LET got == {us[j] : j \in {k \in DOMAIN us : how = "cacheable" /\ Passed(out, 1 + k)}}
                   IN  \/ /\ cache' = kept \cup {ReadMemoryBlock8(Min(u), Cardinality(u)) : u \in got}
                          /\ dozed' = Dozes(kept)
                          /\ CacheChecked
                       \/ UNCHANGED <<cache, dozed, synced, core, tokenVars, unitVars, table, soft, removing>>
    BY <1>1
  <2>2. PICK out : LET got == {us[j] : j \in {k \in DOMAIN us : how = "cacheable" /\ Passed(out, 1 + k)}}
                   IN  \/ /\ cache' = kept \cup {ReadMemoryBlock8(Min(u), Cardinality(u)) : u \in got}
                          /\ dozed' = Dozes(kept)
                          /\ CacheChecked
                       \/ UNCHANGED <<cache, dozed, synced, core, tokenVars, unitVars, table, soft, removing>>
    BY <2>1
  <2>. DEFINE passed == [k \in DOMAIN us |-> Passed(out, 1 + k)]
  <2>3. {k \in DOMAIN us : how = "cacheable" /\ Passed(out, 1 + k)}
          = {k \in DOMAIN us : how = "cacheable" /\ passed[k]}
    OBVIOUS
  <2>. HIDE DEF passed, kept, how
  <2>. QED  BY <2>2, <2>3
<1>. DEFINE got == {us[j] : j \in {k \in DOMAIN us : how = "cacheable" /\ passed[k]}}
<1>3. got # {} => how = "cacheable"
  OBVIOUS
<1>4. got \in SUBSET UncachedRanges(kept, bytes)
  <2>1. CASE how = "cacheable"
    <3>1. some = UncachedRanges(kept, bytes)
      BY <2>1
    <3>2. us \in [1 .. Cardinality(some) -> some]
      BY <1>2 DEF SetToSeqs
    <3>. HIDE DEF some
    <3>3. \A k \in DOMAIN us : us[k] \in some
      BY <3>2
    <3>. QED  BY <3>1, <3>3
  <2>2. CASE how # "cacheable"
    BY <1>3, <2>2
  <2>. QED  BY <2>1, <2>2
<1>5. UNCHANGED memVars
  BY DEF Read
<1>. HIDE DEF got, some
<1>6. CASE /\ cache' = kept \cup {ReadMemoryBlock8(Min(u), Cardinality(u)) : u \in got}
           /\ dozed' = Dozes(kept)
           /\ CacheChecked
  <2>1. ReadBy(r, got)
    BY <1>3, <1>4, <1>5, <1>6 DEF ReadBy, Added
  <2>. QED  BY <2>1
<1>7. CASE UNCHANGED <<cache, dozed, synced, core, tokenVars, unitVars, table, soft, removing>>
  BY <1>5, <1>7 DEF cacheVars
<1>. QED  BY <1>2, <1>6, <1>7 DEF got

WriteBy(r, made) ==
    LET kept == Checked(cache)
        bytes == Bytes(r.addr, r.size)
        how == Regioned(r.addr, r.size)
        planted == made \cap UNION {Half(a) : a \in DOMAIN soft}
    IN  /\ r \in WriteRanges /\ made \subseteq bytes /\ (how = "error" => made = {})
        /\ WriteBytes(made, 1)
        /\ doubted \cup planted \subseteq doubted' /\ doubted' \subseteq doubted \cup planted \cup Mapped
        /\ UNCHANGED <<core, tokenVars, unitVars, table, soft, removing>>
        /\ \/ UNCHANGED cacheVars /\ made = {}
           \/ /\ dozed' = Dozes(kept) /\ synced' = CheckedToken
              /\ \/ /\ cache' = Written(kept, bytes, 1) /\ how = "cacheable"
                    /\ \A b \in (bytes \cap Mapped) \ doubted' : b \in made \ ReadOnly
                 \/ cache' = kept /\ (how = "cacheable" => bytes \cap Mapped \subseteq doubted')

LEMMA WriteIs ==
    ASSUME Write
    PROVE  \E r, made : WriteBy(r, made)
<1>1. PICK r \in WriteRanges :
        LET kept == Checked(cache)
            bytes == Bytes(r.addr, r.size)
            how == Regioned(r.addr, r.size)
            pieces == IF how = "error" THEN << >> ELSE Accesses(r.addr, r.size)
            n == 1 + Len(pieces)
        IN  \E out \in Outcomes([i \in 1 .. n |-> IF i = 1 THEN "read" ELSE "write"]) :
            LET made == UNION {Bytes(pieces[i].addr, pieces[i].size) : i \in {j \in DOMAIN pieces : Made(out, 1 + j)}}
                planted == made \cap UNION {Half(a) : a \in DOMAIN soft}
            IN  /\ WriteBytes(made, 1)
                /\ doubted' = doubted \cup planted
                              \cup IF Passed(out, 1) /\ how # "error"
                                   THEN bytes \cap (IF Made(out, n) THEN ReadOnly ELSE Mapped)
                                   ELSE {}
                /\ IF Passed(out, 1)
                   THEN /\ cache' = IF how = "cacheable" /\ Passed(out, n) THEN Written(kept, bytes, 1) ELSE kept
                        /\ dozed' = Dozes(kept)
                        /\ CacheChecked
                   ELSE UNCHANGED <<cache, dozed, synced, core, tokenVars, unitVars, table, soft, removing>>
  BY DEF Write
<1>. DEFINE kept == Checked(cache)
            bytes == Bytes(r.addr, r.size)
            how == Regioned(r.addr, r.size)
            pieces == IF how = "error" THEN << >> ELSE Accesses(r.addr, r.size)
            n == 1 + Len(pieces)
            kinds == [i \in 1 .. n |-> IF i = 1 THEN "read" ELSE "write"]
            Covered(out) == UNION {Bytes(pieces[i].addr, pieces[i].size) : i \in {j \in DOMAIN pieces : Made(out, 1 + j)}}
            halves == UNION {Half(a) : a \in DOMAIN soft}
<1>2. PICK out \in Outcomes(kinds) :
        /\ WriteBytes(Covered(out), 1)
        /\ doubted' = doubted \cup (Covered(out) \cap halves)
                      \cup IF Passed(out, 1) /\ how # "error"
                           THEN bytes \cap (IF Made(out, n) THEN ReadOnly ELSE Mapped)
                           ELSE {}
        /\ IF Passed(out, 1)
           THEN /\ cache' = IF how = "cacheable" /\ Passed(out, n) THEN Written(kept, bytes, 1) ELSE kept
                /\ dozed' = Dozes(kept)
                /\ CacheChecked
           ELSE UNCHANGED <<cache, dozed, synced, core, tokenVars, unitVars, table, soft, removing>>
  BY <1>1
<1>. DEFINE made == Covered(out)
<1>3. r.addr \in Nat /\ r.size \in Nat
  BY RangeTypes
<1>. HIDE DEF how
<1>4. /\ pieces \in Seq(Access) /\ Len(pieces) \in Nat /\ DOMAIN pieces = 1 .. Len(pieces)
      /\ how # "error" => UNION {Bytes(pieces[i].addr, pieces[i].size) : i \in 1 .. Len(pieces)} = bytes
      /\ how = "error" => Len(pieces) = 0
  <2>1. CASE how = "error"
    BY <2>1
  <2>2. CASE how # "error"
    <3>1. pieces = Accesses(r.addr, r.size)
      BY <2>2
    <3>. HIDE DEF pieces
    <3>2. Chain(pieces, r.addr, r.addr + r.size)
      BY <1>3, <3>1, AccessesChain
    <3>3. BytesOf(pieces) = r.addr .. r.addr + r.size - 1
      <4>. DEFINE last == r.addr + r.size
      <4>1. Chain(pieces, r.addr, last)
        BY <3>2
      <4>. HIDE DEF last
      <4>2. BytesOf(pieces) = r.addr .. last - 1
        BY <4>1, ChainBytes
      <4>. QED  BY <1>3, <4>2 DEF last
    <3>4. UNION {Bytes(pieces[i].addr, pieces[i].size) : i \in 1 .. Len(pieces)} = bytes
      BY <3>3 DEF BytesOf, Bytes, LastOf
    <3>5. pieces \in Seq(Access)
      BY <3>2 DEF Chain
    <3>. QED  BY <2>2, <3>4, <3>5
  <2>. QED  BY <2>1, <2>2
<1>. HIDE DEF pieces
<1>5. n \in Nat /\ n >= 1
  BY <1>4
<1>. HIDE DEF n
<1>6. Len(kinds) = n
  BY <1>5
<1>7. out.stop \in 1 .. n + 1 /\ out.raise \in out.stop .. n + 1
  <2>. HIDE DEF kinds
  <2>. QED  BY <1>2, <1>5, <1>6, OutcomeOrder
<1>8. made \subseteq bytes /\ (how = "error" => made = {})
  BY <1>4
<1>9. ~Passed(out, 1) => made = {}
  <2>1. ~Passed(out, 1) => \A j \in 1 .. Len(pieces) : ~Made(out, 1 + j)
    BY <1>4, <1>5, <1>7 DEF Passed, Made
  <2>. QED  BY <1>4, <2>1
<1>10. Made(out, n) /\ how # "error" => made = bytes
  <2>1. Made(out, n) => \A j \in 1 .. Len(pieces) : Made(out, 1 + j)
    BY <1>4, <1>5, <1>7 DEF n, Made
  <2>. QED  BY <1>4, <2>1
<1>11. Made(out, n) => Passed(out, n)
  BY <1>5, <1>7 DEF Made, Passed
<1>12. ReadOnly \subseteq Mapped
  BY DEF ReadOnly
<1>13. UNCHANGED <<core, tokenVars, unitVars, table, soft, removing>>
  BY <1>2 DEF CacheChecked
<1>14. doubted \cup (made \cap halves) \subseteq doubted' /\ doubted' \subseteq doubted \cup (made \cap halves) \cup Mapped
  BY <1>2, <1>12
<1>15. WriteBytes(made, 1)
  BY <1>2
<1>. DEFINE Ends == \/ UNCHANGED cacheVars /\ made = {}
                    \/ /\ dozed' = Dozes(kept) /\ synced' = CheckedToken
                       /\ \/ /\ cache' = Written(kept, bytes, 1) /\ how = "cacheable"
                             /\ \A b \in (bytes \cap Mapped) \ doubted' : b \in made \ ReadOnly
                          \/ cache' = kept /\ (how = "cacheable" => bytes \cap Mapped \subseteq doubted')
<1>16. Ends
  <2>1. CASE ~Passed(out, 1)
    BY <1>2, <1>9, <2>1 DEF cacheVars
  <2>2. CASE Passed(out, 1)
    <3>. HIDE DEF made, kept, bytes
    <3>1. dozed' = Dozes(kept) /\ synced' = CheckedToken
      BY <1>2, <2>2 DEF CacheChecked
    <3>2. CASE how = "cacheable" /\ Passed(out, n)
      <4>1. cache' = Written(kept, bytes, 1)
        BY <1>2, <2>2, <3>2
      <4>2. CASE Made(out, n)
        <5>1. bytes \cap ReadOnly \subseteq doubted'
          BY <1>2, <2>2, <3>2, <4>2
        <5>. QED  BY <1>10, <3>1, <3>2, <4>1, <4>2, <5>1
      <4>3. CASE ~Made(out, n)
        <5>1. bytes \cap Mapped \subseteq doubted'
          BY <1>2, <2>2, <3>2, <4>3
        <5>. QED  BY <3>1, <3>2, <4>1, <5>1
      <4>. QED  BY <4>2, <4>3
    <3>3. CASE ~(how = "cacheable" /\ Passed(out, n))
      <4>1. cache' = kept
        BY <1>2, <2>2, <3>3
      <4>2. how = "cacheable" => bytes \cap Mapped \subseteq doubted'
        BY <1>2, <1>11, <2>2, <3>3
      <4>. QED  BY <3>1, <4>1, <4>2
    <3>. QED  BY <3>2, <3>3
  <2>. QED  BY <2>1, <2>2
<1>. HIDE DEF made
<1>17. WriteBy(r, made)
  BY <1>8, <1>13, <1>14, <1>15, <1>16 DEF WriteBy, how
<1>. QED  BY <1>17

LEMMA CacheUntouched ==
    ASSUME [Next]_vars, ~Read, ~Write, ~Invalidate
    PROVE  UNCHANGED cacheVars
  BY DEF Next, vars

LEMMA CheckedIntervals ==
    ASSUME Intervals(cache)
    PROVE  Intervals(Checked(cache))
  BY FS_EmptySet DEF Intervals, Checked

LEMMA IntervalsStep ==
    ASSUME Intervals(cache), [Next]_vars
    PROVE  Intervals(cache')
<1>1. CASE Read
  <2>1. CASE UNCHANGED cacheVars
    BY <2>1 DEF cacheVars
  <2>2. ASSUME NEW r, NEW got, ReadBy(r, got)
        PROVE  Intervals(cache')
    <3>1. /\ got \in SUBSET UncachedRanges(Checked(cache), Bytes(r.addr, r.size)) /\ r \in ReadRanges
          /\ cache' = Checked(cache) \cup Added(got)
      BY <2>2 DEF ReadBy
    <3>2. Interval(Bytes(r.addr, r.size)) /\ IsFiniteSet(Bytes(r.addr, r.size))
      BY <3>1, RangeTypes
    <3>. QED  BY <3>1, <3>2, CheckedIntervals, AddedIs
  <2>. QED  BY <1>1, <2>1, <2>2, ReadIs
<1>2. CASE Write
  <2>1. PICK r, made : WriteBy(r, made)
    BY <1>2, WriteIs
  <2>2. Interval(Bytes(r.addr, r.size))
    BY <2>1, RangeTypes DEF WriteBy
  <2>3. \/ cache' = cache
        \/ cache' = Checked(cache)
        \/ cache' = Written(Checked(cache), Bytes(r.addr, r.size), 1)
    BY <2>1 DEF WriteBy, cacheVars
  <2>. QED  BY <2>2, <2>3, CheckedIntervals, WrittenIs
<1>3. CASE Invalidate
  BY <1>3, FS_EmptySet DEF Invalidate, Intervals
<1>4. CASE ~Read /\ ~Write /\ ~Invalidate
  BY <1>4, CacheUntouched DEF cacheVars
<1>. QED  BY <1>1, <1>2, <1>3, <1>4

LEMMA IntervalsFollow == Intervals(cache) => IntervalsDisjoint
<1>. SUFFICES ASSUME Intervals(cache) PROVE IntervalsDisjoint
  OBVIOUS
<1>1. \A r \in ReadRanges : Interval(Bytes(r.addr, r.size))
  BY RangeTypes
<1>2. ASSUME NEW r \in ReadRanges
      PROVE  /\ UNION UncachedRanges(cache, Bytes(r.addr, r.size))
                    = Bytes(r.addr, r.size) \ UNION {DOMAIN iv : iv \in cache}
             /\ Apart(UncachedRanges(cache, Bytes(r.addr, r.size)))
  BY <1>1, LackingIs DEF Intervals, Pieces
<1>. QED  BY <1>2 DEF IntervalsDisjoint, Intervals, Apart

LEMMA IntervalsInit == Init => Intervals(cache)
  BY FS_EmptySet DEF Init, Intervals

(* No byte is in two intervals of the cache, and what it lacks of a range  *)
(* is all that is in none, each byte once: after any reads and writes, of  *)
(* any ranges.                                                             *)
THEOREM IntervalsAreDisjoint == Spec => []IntervalsDisjoint
<1>1. Intervals(cache) /\ [Next]_vars => Intervals(cache)'
  BY IntervalsStep
<1>. QED  BY <1>1, IntervalsInit, IntervalsFollow, PTL DEF Spec

(* What a read asks of the target are accesses that the port can make, and *)
(* that make up all that the cache lacks.                                  *)
THEOREM ReadsArePossible == Spec => []ReadsPossible
<1>1. Intervals(cache) /\ [Next]_vars => Intervals(cache)'
  BY IntervalsStep
<1>2. Intervals(cache) => ReadsPossible
  <2>. SUFFICES ASSUME Intervals(cache), NEW r \in ReadRanges,
                       NEW u \in UncachedRanges(cache, Bytes(r.addr, r.size))
                PROVE  u = Min(u) .. Max(u) /\ SplitsRight(Min(u), Cardinality(u))
    <3>1. AlwaysSplitsRight
      BY RangesAreSplit, PageAssumption DEF AlwaysSplitsRight
    <3>. QED  BY <3>1 DEF ReadsPossible
  <2>1. Interval(u) /\ u \subseteq Bytes(r.addr, r.size)
    BY RangeTypes, LackingIs DEF Intervals, Pieces
  <2>2. PICK f \in Int, l \in Int : f <= l /\ u = f .. l
    BY <2>1 DEF Interval
  <2>3. Min(u) = f /\ Max(u) = l
    BY <2>2, EndsOf
  <2>4. Cardinality(u) = l - f + 1
    BY <2>2, FS_Interval
  <2>5. f \in Nat
    BY <2>1, <2>2, RangeTypes DEF Bytes, LastOf
  <2>6. l - f + 1 \in Nat
    BY <2>2
  <2>. QED  BY <2>2, <2>3, <2>4, <2>5, <2>6, RangesAreSplit
<1>. QED  BY <1>1, <1>2, IntervalsInit, PTL DEF Spec

-----------------------------------------------------------------------------
(* What the cache holds *)

\* The cache, as far as it is said to be that of the core,
Valid == synced = token /\ ~dozed

\* holds what the program would read, and nothing of a device,
Right(kept) ==
    \A iv \in kept : \A b \in DOMAIN iv :
        b \in Mapped /\ RegionTypeOf(b) # "device" /\ (b \notin doubted \cup untold => iv[b] = program[b])

\* and is filled of a halted core only, whose next run has another token.
CacheInv ==
    /\ synced \in Int /\ token \in Int /\ synced <= token /\ dozed \in BOOLEAN
    /\ Valid => Right(cache) /\ (cache # {} => core = "halted")

LEMMA MappedIs == \A b \in Int : b \in Mapped <=> Having(b) # {}
<1>1. \A b \in Int, r \in Regions : b \in Bytes(r.start, r.end - r.start + 1) <=> ContainsAddress(r, b)
  <2>. SUFFICES ASSUME NEW b \in Int, NEW r \in Regions
                PROVE  b \in Bytes(r.start, r.end - r.start + 1) <=> ContainsAddress(r, b)
    OBVIOUS
  <2>1. Bytes(r.start, r.end - r.start + 1) = r.start .. r.end
    BY RegionBytes
  <2>2. r.start \in Int /\ r.end \in Int
    BY RegionBounds
  <2>. QED  BY <2>1, <2>2 DEF ContainsAddress
<1>. QED  BY <1>1 DEF Mapped, Having

\* The region of a range that is met by no other is that of each of its bytes.
LEMMA RegionOfByte ==
    ASSUME NEW addr \in Nat, NEW size \in Nat \ {0}, NEW b \in Bytes(addr, size)
    PROVE  /\ b \in Int /\ Having(b) \subseteq GetIntersectingRegions(addr, size)
           /\ \A r \in Regions : ContainsRange(r, addr, size) => ContainsAddress(r, b)
<1>1. b \in Int /\ addr <= b /\ b <= LastOf(addr, size) /\ LastOf(addr, size) \in Int
  BY DEF Bytes, LastOf
<1>2. \A r \in Regions : ContainsAddress(r, b) => IntersectsRange(r, addr, size)
  BY <1>1, RegionBounds DEF ContainsAddress, IntersectsRange
<1>3. \A r \in Regions : ContainsRange(r, addr, size) => ContainsAddress(r, b)
  BY <1>1, RegionBounds DEF ContainsRange, ContainsAddress
<1>. QED  BY <1>1, <1>2, <1>3 DEF Having, GetIntersectingRegions

LEMMA CacheableBytes ==
    ASSUME NEW addr \in Nat, NEW size \in Nat \ {0}, NEW b \in Bytes(addr, size),
           Regioned(addr, size) = "cacheable"
    PROVE  b \in Mapped /\ RegionTypeOf(b) # "device"
<1>. DEFINE met == GetIntersectingRegions(addr, size)
            first == FirstRegion(met)
<1>1. met = {first} /\ ContainsRange(first, addr, size) /\ first.type # "device"
  BY DEF Regioned, IsCacheable
<1>2. first \in Regions
  BY <1>1 DEF GetIntersectingRegions
<1>. HIDE DEF met, first
<1>3. b \in Int /\ Having(b) \subseteq {first} /\ ContainsAddress(first, b)
  BY <1>1, <1>2, RegionOfByte DEF met
<1>4. Having(b) = {first}
  BY <1>2, <1>3 DEF Having
<1>5. FirstRegion(Having(b)) = first
  BY <1>2, <1>4, RegionFirst
<1>. QED  BY <1>1, <1>3, <1>4, <1>5, MappedIs DEF RegionTypeOf

LEMMA DeviceBytes ==
    ASSUME NEW addr \in Nat, NEW size \in Nat \ {0}, NEW b \in Bytes(addr, size), b \in Mapped,
           Regioned(addr, size) = "none"
    PROVE  RegionTypeOf(b) = "device"
<1>. DEFINE met == GetIntersectingRegions(addr, size)
            first == FirstRegion(met)
<1>1. met = {} \/ (met = {first} /\ first.type = "device")
  BY DEF Regioned, IsCacheable
<1>. HIDE DEF first
<1>2. Having(b) # {} /\ Having(b) \subseteq met /\ Having(b) \subseteq Regions
  BY RegionOfByte, MappedIs DEF Having
<1>3. Having(b) = {first} /\ first.type = "device"
  BY <1>1, <1>2
<1>4. FirstRegion(Having(b)) = first
  BY <1>2, <1>3, RegionFirst
<1>. QED  BY <1>3, <1>4 DEF RegionTypeOf

\* What a read or a write keeps of the cache is right, if the cache is said to be afterwards.
LEMMA KeptIsRight ==
    ASSUME CacheInv, cache' # {}, dozed' = Dozes(Checked(cache)), ~dozed'
    PROVE  core = "halted" /\ Right(Checked(cache))
<1>1. core = "halted" /\ ~(dozed /\ Checked(cache) # {})
  BY DEF Dozes
<1>2. CASE Checked(cache) = {}
  BY <1>1, <1>2 DEF Right
<1>3. CASE Checked(cache) # {}
  <2>1. Checked(cache) = cache /\ synced = token
    BY <1>3 DEF Checked
  <2>2. Valid
    BY <1>1, <1>3, <2>1 DEF Valid
  <2>. QED  BY <1>1, <2>1, <2>2 DEF CacheInv
<1>. QED  BY <1>2, <1>3

LEMMA SyncedFollows ==
    ASSUME CacheInv, synced' \in {synced, CheckedToken}, UNCHANGED token,
           dozed' = dozed \/ dozed' = Dozes(Checked(cache))
    PROVE  synced' \in Int /\ token' \in Int /\ synced' <= token' /\ dozed' \in BOOLEAN
<1>1. Dozes(Checked(cache)) \in BOOLEAN
  BY DEF Dozes
<1>. QED  BY <1>1 DEF CacheInv, CheckedToken

LEMMA CacheRead ==
    ASSUME CacheInv, HiddenInv, Intervals(cache), Read
    PROVE  CacheInv'
<1>1. UNCHANGED <<program, doubted, untold>>
  BY DEF Read, CacheChecked, tokenVars, memVars
<1>2. CASE UNCHANGED <<cacheVars, core, token>>
  BY <1>1, <1>2 DEF CacheInv, Valid, Right, cacheVars
<1>3. ASSUME NEW r, NEW got, ReadBy(r, got)
      PROVE  CacheInv'
  <2>. DEFINE kept == Checked(cache)
              bytes == Bytes(r.addr, r.size)
              added == Added(got)
  <2>1. /\ r \in ReadRanges /\ got \in SUBSET UncachedRanges(kept, bytes) /\ cache' = kept \cup added
        /\ got # {} => Regioned(r.addr, r.size) = "cacheable"
        /\ dozed' = Dozes(kept) /\ synced' = CheckedToken /\ UNCHANGED <<core, token>>
    BY <1>3 DEF ReadBy, CacheChecked, tokenVars
  <2>2. /\ r.addr \in Nat /\ r.size \in Nat \ {0} /\ Interval(bytes) /\ IsFiniteSet(bytes)
    BY <2>1, RangeTypes
  <2>3. \A iv \in added : \A b \in DOMAIN iv : b \in bytes /\ iv[b] = ReadMemory(b, 1)[b]
    <3>1. Intervals(kept) /\ got \in SUBSET UncachedRanges(kept, bytes)
      BY <2>1, CheckedIntervals
    <3>. HIDE DEF kept, bytes
    <3>. QED  BY <2>2, <3>1, AddedIs
  <2>4. added # {} => got # {}
    BY DEF Added
  <2>. HIDE DEF added, kept, bytes
  <2>5. Right(added)
    <3>. SUFFICES ASSUME NEW iv \in added, NEW b \in DOMAIN iv
                  PROVE  /\ b \in Mapped /\ RegionTypeOf(b) # "device"
                         /\ b \notin doubted \cup untold => iv[b] = program[b]
      BY DEF Right
    <3>1. b \in bytes /\ iv[b] = ReadMemory(b, 1)[b] /\ Regioned(r.addr, r.size) = "cacheable"
      BY <2>1, <2>3, <2>4
    <3>2. b \in Mapped /\ RegionTypeOf(b) # "device"
      BY <2>2, <3>1, CacheableBytes DEF bytes
    <3>3. b \in Int /\ b % 1 = 0 /\ b \in Bytes(b, 1)
      <4>1. b \in Int
        BY <2>2, <3>1 DEF Interval
      <4>. QED  BY <4>1 DEF Bytes, LastOf
    <3>4. b \notin doubted \cup untold => ReadMemory(b, 1)[b] = program[b]
      BY <3>2, <3>3, ReadIsRight DEF Sure
    <3>. QED  BY <3>1, <3>2, <3>4
  <2>6. synced' \in Int /\ token' \in Int /\ synced' <= token' /\ dozed' \in BOOLEAN
    BY <2>1, SyncedFollows DEF kept
  <2>7. ASSUME Valid', cache' # {}
        PROVE  Right(cache)' /\ core' = "halted"
    <3>1. core = "halted" /\ Right(kept)
      BY <2>1, <2>7, KeptIsRight DEF Valid, kept
    <3>2. Right(kept \cup added)
      BY <2>5, <3>1 DEF Right
    <3>. QED  BY <1>1, <2>1, <3>1, <3>2 DEF Right
  <2>8. cache' = {} => Right(cache)'
    BY DEF Right
  <2>. QED  BY <2>6, <2>7, <2>8 DEF CacheInv
<1>. QED  BY <1>2, <1>3, ReadIs DEF cacheVars, tokenVars

LEMMA CacheWrite ==
    ASSUME CacheInv, HiddenInv, Intervals(cache), Write
    PROVE  CacheInv'
<1>1. PICK r, made : WriteBy(r, made)
  BY WriteIs
<1>. DEFINE kept == Checked(cache)
            bytes == Bytes(r.addr, r.size)
            how == Regioned(r.addr, r.size)
            taken == [b \in made \ ReadOnly |-> 1]
<1>2. /\ r \in WriteRanges /\ made \subseteq bytes /\ (how = "error" => made = {})
      /\ WriteBytes(made, 1) /\ doubted \subseteq doubted' /\ UNCHANGED <<core, token, untold>>
      /\ \/ UNCHANGED cacheVars /\ made = {}
         \/ /\ dozed' = Dozes(kept) /\ synced' = CheckedToken
            /\ \/ /\ cache' = Written(kept, bytes, 1) /\ how = "cacheable"
                  /\ \A b \in (bytes \cap Mapped) \ doubted' : b \in made \ ReadOnly
               \/ cache' = kept /\ (how = "cacheable" => bytes \cap Mapped \subseteq doubted')
  BY <1>1 DEF WriteBy, tokenVars
<1>3. r.addr \in Nat /\ r.size \in Nat \ {0} /\ Interval(bytes)
  BY <1>2, RangeTypes
<1>4. program' = Over(taken, program) /\ DOMAIN taken = made \ ReadOnly /\ \A b \in made \ ReadOnly : taken[b] = 1
  BY <1>2 DEF WriteBytes
<1>. HIDE DEF taken
<1>5. \A b \in Mapped : program'[b] = IF b \in made \ ReadOnly THEN 1 ELSE program[b]
  BY <1>4, OverIs DEF HiddenInv, MemoryShape
<1>6. how = "error" \/ how = "cacheable" \/ how = "none"
  BY DEF Regioned
<1>7. how = "none" => \A b \in bytes \cap Mapped : RegionTypeOf(b) = "device"
  BY <1>3, DeviceBytes
<1>8. how = "cacheable" => \A b \in bytes : b \in Mapped /\ RegionTypeOf(b) # "device"
  BY <1>3, CacheableBytes
<1>. HIDE DEF how, bytes
<1>9. ASSUME NEW b \in Mapped, b \notin bytes
      PROVE  program'[b] = program[b]
  BY <1>2, <1>5, <1>9
<1>10. CASE UNCHANGED cacheVars /\ made = {}
  <2>1. \A b \in Mapped : program'[b] = program[b]
    BY <1>5, <1>10
  <2>2. Right(cache) => Right(cache)'
    BY <1>2, <1>10, <2>1 DEF Right, cacheVars
  <2>. QED  BY <1>2, <1>10, <2>2 DEF CacheInv, Valid, cacheVars
<1>11. CASE ~(UNCHANGED cacheVars /\ made = {})
  <2>. DEFINE Joined == /\ cache' = Written(kept, bytes, 1) /\ how = "cacheable"
                        /\ \A b \in (bytes \cap Mapped) \ doubted' : b \in made \ ReadOnly
              Same == cache' = kept /\ (how = "cacheable" => bytes \cap Mapped \subseteq doubted')
  <2>1. dozed' = Dozes(kept) /\ synced' = CheckedToken /\ (Joined \/ Same)
    BY <1>2, <1>11
  <2>2. synced' \in Int /\ token' \in Int /\ synced' <= token' /\ dozed' \in BOOLEAN
    BY <1>2, <2>1, SyncedFollows
  <2>3. cache' = {} => Right(cache)'
    BY DEF Right
  <2>4. ASSUME Valid', cache' # {}
        PROVE  Right(cache)' /\ core' = "halted"
    <3>1. core = "halted" /\ Right(kept)
      BY <2>4, <2>1, KeptIsRight DEF Valid
    <3>. HIDE DEF kept
    <3>2. CASE Joined
      <4>. SUFFICES ASSUME NEW iv \in cache', NEW b \in DOMAIN iv
                    PROVE  /\ b \in Mapped /\ RegionTypeOf(b) # "device"
                           /\ b \notin doubted' \cup untold' => iv[b] = program'[b]
        BY <1>2, <3>1 DEF Right
      <4>1. IF b \in bytes THEN iv[b] = 1 ELSE \E jv \in kept : b \in DOMAIN jv /\ iv[b] = jv[b]
        BY <1>3, <3>2, CheckedIntervals, WrittenIs DEF kept
      <4>2. CASE b \in bytes
        BY <1>5, <1>8, <3>2, <4>1, <4>2
      <4>3. CASE b \notin bytes
        <5>1. PICK jv \in kept : b \in DOMAIN jv /\ iv[b] = jv[b]
          BY <4>1, <4>3
        <5>2. b \in Mapped /\ RegionTypeOf(b) # "device" /\ (b \notin doubted \cup untold => jv[b] = program[b])
          BY <3>1, <5>1 DEF Right
        <5>3. program'[b] = program[b]
          BY <1>9, <4>3, <5>2
        <5>. QED  BY <1>2, <5>1, <5>2, <5>3
      <4>. QED  BY <4>2, <4>3
    <3>3. CASE Same
      <4>. SUFFICES ASSUME NEW iv \in kept, NEW b \in DOMAIN iv
                    PROVE  /\ b \in Mapped /\ RegionTypeOf(b) # "device"
                           /\ b \notin doubted' \cup untold' => iv[b] = program'[b]
        BY <1>2, <3>1, <3>3 DEF Right
      <4>1. b \in Mapped /\ RegionTypeOf(b) # "device" /\ (b \notin doubted \cup untold => iv[b] = program[b])
        BY <3>1 DEF Right
      <4>2. CASE b \notin bytes
        <5>1. program'[b] = program[b]
          BY <1>9, <4>1, <4>2
        <5>. QED  BY <1>2, <4>1, <5>1
      <4>3. CASE b \in bytes
        <5>1. CASE how = "cacheable"
          BY <3>3, <4>1, <4>3, <5>1
        <5>2. CASE how = "none"
          BY <1>7, <4>1, <4>3, <5>2
        <5>3. CASE how = "error"
          <6>1. program'[b] = program[b]
            BY <1>2, <1>5, <4>1, <5>3
          <6>. QED  BY <1>2, <4>1, <6>1
        <5>. QED  BY <1>6, <5>1, <5>2, <5>3
      <4>. QED  BY <4>2, <4>3
    <3>. HIDE DEF Joined, Same
    <3>. QED  BY <1>2, <2>1, <3>1, <3>2, <3>3
  <2>. QED  BY <2>2, <2>3, <2>4 DEF CacheInv
<1>. QED  BY <1>2, <1>10, <1>11

\* What the cache knows stays right while it and the program do.
LEMMA CacheQuiet ==
    ASSUME CacheInv, UNCHANGED <<cacheVars, program>>, doubted \subseteq doubted',
           \/ UNCHANGED tokenVars /\ (core' = core \/ core' = "halted")
           \/ token' = token + 1
    PROVE  CacheInv'
<1>1. synced' \in Int /\ token' \in Int /\ synced' <= token' /\ dozed' \in BOOLEAN
  BY DEF CacheInv, cacheVars, tokenVars
<1>2. Valid' => Valid /\ UNCHANGED untold /\ (core' = core \/ core' = "halted")
  BY DEF CacheInv, Valid, cacheVars, tokenVars
<1>3. UNCHANGED untold => (Right(cache) => Right(cache)')
  BY DEF Right, cacheVars
<1>. QED  BY <1>1, <1>2, <1>3 DEF CacheInv, cacheVars

(* What a stepped instruction changes is untold, until the new token makes *)
(* the cache one that is not said to be that of the core.                  *)
LEMMA CacheStepped ==
    ASSUME CacheInv, HiddenInv, Step, UNCHANGED cacheVars
    PROVE  CacheInv'
<1>1. UNCHANGED <<doubted, core>> /\ (Flip \/ UNCHANGED <<mem, program>>)
  BY DEF Step, Quiet
<1>2. CASE token' = token + 1
  <2>1. ~Valid'
    BY <1>2 DEF CacheInv, Valid, cacheVars
  <2>. QED  BY <1>2, <2>1 DEF CacheInv, cacheVars
<1>3. CASE token' # token + 1
  <2>1. token' = token /\ untold \subseteq untold'
    BY <1>3 DEF Step, NewToken
  <2>2. ASSUME NEW b \in Mapped, b \notin untold'
        PROVE  program'[b] = program[b]
    <3>1. CASE UNCHANGED <<mem, program>>
      BY <3>1
    <3>2. CASE ~UNCHANGED <<mem, program>>
      <4>1. untold' = untold \cup (Stored \cap Mapped) /\ Flip
        BY <1>3, <3>2 DEF Step, NewToken
      <4>. DEFINE flipped == [c \in Stored |-> 1 - mem[c]]
      <4>2. program' = Over(flipped, program) /\ DOMAIN flipped = Stored
        BY <4>1 DEF Flip
      <4>3. b \notin Stored
        BY <2>2, <4>1
      <4>. HIDE DEF flipped
      <4>. QED  BY <4>2, <4>3, OverIs DEF HiddenInv, MemoryShape
    <3>. QED  BY <3>1, <3>2
  <2>3. Right(cache) => Right(cache)'
    BY <1>1, <2>1, <2>2 DEF Right, cacheVars
  <2>. QED  BY <1>1, <2>1, <2>3 DEF CacheInv, Valid, cacheVars
<1>. QED  BY <1>2, <1>3

\* While the core runs the cache is empty, or is not said to be that of the core.
LEMMA CacheRunning ==
    ASSUME CacheInv, UNCHANGED <<cacheVars, token>>, core # "halted"
    PROVE  CacheInv'
<1>1. Valid' => cache' = {}
  BY DEF CacheInv, Valid, cacheVars
<1>2. cache' = {} => Right(cache)'
  BY DEF Right
<1>. QED  BY <1>1, <1>2 DEF CacheInv, cacheVars

LEMMA RemoveFromKeeps ==
    ASSUME NEW addr, RemoveFrom(addr)
    PROVE  UNCHANGED program /\ doubted \subseteq doubted'
  BY DEF RemoveFrom, RemoveSoftware, memVars

LEMMA CacheStep ==
    ASSUME CacheInv, HiddenInv, Intervals(cache), [Next]_vars
    PROVE  CacheInv'
<1>1. CASE Read
  BY <1>1, CacheRead
<1>2. CASE Write
  BY <1>2, CacheWrite
<1>3. CASE Invalidate
  <2>1. cache' = {} /\ dozed' = FALSE /\ UNCHANGED <<synced, token>>
    BY <1>3 DEF Invalidate
  <2>2. Right(cache)'
    BY <2>1 DEF Right
  <2>. QED  BY <2>1, <2>2 DEF CacheInv
<1>4. CASE UNCHANGED vars
  BY <1>4, CacheQuiet DEF vars, bpVars, memVars
<1>5. CASE BpNext /\ UNCHANGED cacheVars
  <2>1. CASE SetBreakpoint
    <3>1. UNCHANGED <<core, tokenVars, program, doubted>>
      BY <2>1 DEF SetBreakpoint, SetHardware, SetSoftware, memVars
    <3>. QED  BY <1>5, <3>1, CacheQuiet
  <2>2. CASE RemoveBreakpoint \/ RemoveNext
    <3>1. UNCHANGED <<core, tokenVars>> /\ \E addr : RemoveFrom(addr)
      BY <2>2 DEF RemoveBreakpoint, RemoveNext
    <3>. QED  BY <1>5, <3>1, RemoveFromKeeps, CacheQuiet
  <2>3. CASE RemoveAllBreakpoints
    <3>1. UNCHANGED <<core, tokenVars, program, doubted>>
      BY <2>3 DEF RemoveAllBreakpoints, memVars
    <3>. QED  BY <1>5, <3>1, CacheQuiet
  <2>4. CASE Resume \/ Halt
    <3>1. UNCHANGED <<program, doubted>>
      BY <2>4 DEF Resume, Halt, Quiet
    <3>2. CASE Halt
      BY <1>5, <3>1, <3>2, CacheQuiet DEF Halt
    <3>3. CASE Resume
      <4>1. \/ token' = token + 1
            \/ UNCHANGED tokenVars /\ core' = core
        <5>. DEFINE kinds == <<"read", "write", "write", "read">>
        <5>1. PICK out \in Outcomes(kinds) :
                /\ core' = IF Made(out, 3) THEN "running" ELSE core
                /\ IF Passed(out, 1) THEN NewToken ELSE UNCHANGED tokenVars
          BY <3>3 DEF Resume
        <5>2. Len(kinds) = 4
          OBVIOUS
        <5>. HIDE DEF kinds
        <5>3. 4 \in Nat
          OBVIOUS
        <5>4. out.stop \in 1 .. 4 + 1 /\ out.raise \in out.stop .. 4 + 1
          BY <5>1, <5>2, <5>3, OutcomeOrder
        <5>5. Made(out, 3) => Passed(out, 1)
          BY <5>4 DEF Made, Passed
        <5>. QED  BY <5>1, <5>5 DEF NewToken
      <4>. QED  BY <1>5, <3>1, <4>1, CacheQuiet
    <3>. QED  BY <2>4, <3>2, <3>3
  <2>5. CASE Step
    BY <1>5, <2>5, CacheStepped
  <2>6. CASE Execute \/ Wake
    <3>1. core # "halted" /\ UNCHANGED token
      BY <2>6 DEF Execute, Wake, tokenVars
    <3>. QED  BY <1>5, <3>1, CacheRunning
  <2>. QED  BY <1>5, <2>1, <2>2, <2>3, <2>4, <2>5, <2>6 DEF BpNext
<1>. QED  BY <1>1, <1>2, <1>3, <1>4, <1>5 DEF Next

LEMMA CacheInit == Init => CacheInv
<1>. SUFFICES ASSUME Init  PROVE CacheInv
  OBVIOUS
<1>1. core = "halted" /\ cache = {} /\ synced = -1 /\ token = 0 /\ dozed = FALSE
  BY DEF Init, BpInit
<1>2. Right(cache)
  BY <1>1 DEF Right
<1>3. synced \in Int /\ token \in Int /\ synced <= token
  BY <1>1
<1>4. dozed \in BOOLEAN
  BY <1>1
<1>. QED  BY <1>1, <1>2, <1>3, <1>4, Zenon DEF CacheInv

LEMMA CacheFollows ==
    ASSUME CacheInv, HiddenInv, Intervals(cache)
    PROVE  CacheRight
<1>. SUFFICES ASSUME Valid, NEW iv \in cache, NEW b \in DOMAIN iv
              PROVE  /\ RegionTypeOf(b) # "device"
                     /\ b \notin doubted \cup untold => iv[b] = ReadMemoryBlock8(b, 1)[b]
  BY DEF CacheRight, Valid
<1>1. b \in Mapped /\ RegionTypeOf(b) # "device" /\ (b \notin doubted \cup untold => iv[b] = program[b])
  BY DEF CacheInv, Right
<1>2. b \in Int /\ b % 1 = 0 /\ b \in Bytes(b, 1)
  <2>1. b \in Int
    BY DEF Intervals, Interval
  <2>. QED  BY <2>1 DEF Bytes, LastOf
<1>3. b \notin doubted => ReadMemory(b, 1)[b] = program[b]
  BY <1>1, <1>2, ReadIsRight DEF Sure
<1>4. ReadMemoryBlock8(b, 1)[b] = ReadMemory(b, 1)[b]
  BY <1>2 DEF ReadMemoryBlock8
<1>. QED  BY <1>1, <1>3, <1>4

(* What the cache would answer for a halted core is what a read of the     *)
(* core returns, and it holds nothing of a device: through resumes, steps, *)
(* breakpoints, partial overlaps and failures, for every memory map.  The  *)
(* bytes left out are those that CacheRight names: of writes not carried   *)
(* out in full or over a breakpoint, and of a step that raised after its   *)
(* instruction and before its new token (cortex_m.py:703).                 *)
THEOREM CacheIsRight == Spec => []CacheRight
<1>. DEFINE Inv == CacheInv /\ HiddenInv /\ UnitTypes /\ Intervals(cache)
<1>1. Init => Inv
  BY CacheInit, HiddenInit, UnitInit, IntervalsInit
<1>2. Inv /\ [Next]_vars => Inv'
  BY CacheStep, HiddenStep, UnitTyped, IntervalsStep
<1>3. Inv => CacheRight
  BY CacheFollows
<1>. QED  BY <1>1, <1>2, <1>3, PTL DEF Spec

-----------------------------------------------------------------------------
(* Types *)

LinkTypes ==
    /\ core \in {"running", "sleeping", "halted"} /\ token \in 0 .. MaxToken
    /\ broken \in BOOLEAN /\ faults \in 0 .. MaxFaults
    /\ synced \in -1 .. token /\ dozed \in BOOLEAN /\ untold \subseteq Mapped

LEMMA LinkedTyped ==
    ASSUME broken \in BOOLEAN, faults \in 0 .. MaxFaults, NEW n \in Nat, NEW kinds, Len(kinds) = n,
           NEW out \in Outcomes(kinds), Linked(out, n)
    PROVE  broken' \in BOOLEAN /\ faults' \in 0 .. MaxFaults
<1>1. /\ out.stop \in 1 .. n + 1 /\ out.raise \in out.stop .. n + 1
      /\ ~broken /\ out.stop # n + 1 => faults < MaxFaults
  BY OutcomeOrder
<1>2. broken' \in BOOLEAN
  BY DEF Linked
<1>3. faults' \in 0 .. MaxFaults
  BY <1>1, Bounds DEF Linked
<1>. QED  BY <1>2, <1>3

LEMMA SequenceOf ==
    ASSUME NEW S, IsFiniteSet(S), NEW us \in SetToSeqs(S)
    PROVE  us \in Seq(S) /\ Len(us) \in Nat
<1>1. Cardinality(S) \in Nat
  BY FS_CardinalityType
<1>2. us \in [1 .. Cardinality(S) -> S]
  BY DEF SetToSeqs
<1>. QED  BY <1>1, <1>2

\* The ranges that a read asks of the target are finitely many.
LEMMA LackingFinite ==
    ASSUME NEW kept, Intervals(kept), NEW r \in ReadRanges
    PROVE  IsFiniteSet(UncachedRanges(kept, Bytes(r.addr, r.size)))
<1>1. Interval(Bytes(r.addr, r.size)) /\ IsFiniteSet(Bytes(r.addr, r.size))
  BY RangeTypes
<1>2. UncachedRanges(kept, Bytes(r.addr, r.size)) \in SUBSET (SUBSET Bytes(r.addr, r.size))
  BY <1>1, LackingIs DEF Intervals
<1>. QED  BY <1>1, <1>2, FS_SUBSET, FS_Subset

\* The accesses of every call are finitely many, and its failures are counted up to the bound.
LEMMA LinkStep ==
    ASSUME LinkTypes, Intervals(cache), [Next]_vars
    PROVE  broken' \in BOOLEAN /\ faults' \in 0 .. MaxFaults
<1>1. broken \in BOOLEAN /\ faults \in 0 .. MaxFaults
  BY DEF LinkTypes
<1>2. CASE SetBreakpoint
  <2>1. CASE \E addr : SetHardware(addr)
    <3>1. PICK addr : SetHardware(addr)
      BY <2>1
    <3>2. \E n \in Nat : \E out \in Outcomes([j \in 1 .. n |-> "write"]) : Linked(out, n)
      <4>. DEFINE first == IF enabled THEN 0 ELSE 1
                  n == first + IF AvailableBreakpoints # 0 /\ FreeSlots # {} THEN 1 ELSE 0
      <4>1. \E out \in Outcomes([j \in 1 .. n |-> "write"]) : Linked(out, n)
        BY <3>1 DEF SetHardware
      <4>2. n \in Nat
        OBVIOUS
      <4>. HIDE DEF n
      <4>. QED  BY <4>1, <4>2
    <3>3. PICK n \in Nat : \E out \in Outcomes([j \in 1 .. n |-> "write"]) : Linked(out, n)
      BY <3>2
    <3>. DEFINE kinds == [j \in 1 .. n |-> "write"]
    <3>4. Len(kinds) = n
      OBVIOUS
    <3>5. PICK out \in Outcomes(kinds) : Linked(out, n)
      BY <3>3
    <3>. HIDE DEF kinds
    <3>. QED  BY <1>1, <3>4, <3>5, LinkedTyped
  <2>2. CASE \E addr : SetSoftware(addr)
    <3>. DEFINE kinds == << "read", "write" >>
    <3>1. PICK out \in Outcomes(kinds) : Linked(out, 2)
      BY <2>2 DEF SetSoftware
    <3>2. Len(kinds) = 2
      OBVIOUS
    <3>. HIDE DEF kinds
    <3>3. 2 \in Nat
      OBVIOUS
    <3>. QED  BY <1>1, <3>1, <3>2, <3>3, LinkedTyped
  <2>. QED  BY <1>2, <2>1, <2>2 DEF SetBreakpoint
<1>3. CASE RemoveBreakpoint \/ RemoveNext
  <2>. DEFINE kinds == << "write" >>
  <2>1. UNCHANGED linkVars \/ \E out \in Outcomes(kinds) : Linked(out, 1)
    BY <1>3 DEF RemoveBreakpoint, RemoveNext, RemoveFrom, RemoveSoftware, RemoveHardware
  <2>2. Len(kinds) = 1
    OBVIOUS
  <2>. HIDE DEF kinds
  <2>3. CASE UNCHANGED linkVars
    BY <1>1, <2>3 DEF linkVars
  <2>4. CASE \E out \in Outcomes(kinds) : Linked(out, 1)
    <3>1. 1 \in Nat
      OBVIOUS
    <3>. QED  BY <1>1, <2>2, <2>4, <3>1, LinkedTyped
  <2>. QED  BY <2>1, <2>3, <2>4
<1>4. CASE RemoveAllBreakpoints \/ Execute \/ Wake \/ Invalidate \/ UNCHANGED vars
  BY <1>1, <1>4 DEF RemoveAllBreakpoints, Execute, Wake, Invalidate, vars, bpVars, linkVars
<1>5. CASE Resume \/ Halt \/ Step
  <2>1. CASE Resume
    <3>. DEFINE kinds == <<"read", "write", "write", "read">>
    <3>1. (\E out \in Outcomes(kinds) : Linked(out, 4)) /\ Len(kinds) = 4
      BY <2>1 DEF Resume
    <3>2. 4 \in Nat
      OBVIOUS
    <3>. HIDE DEF kinds
    <3>. QED  BY <1>1, <3>1, <3>2, LinkedTyped
  <2>2. CASE Halt
    <3>. DEFINE kinds == <<"write", "read">>
    <3>1. (\E out \in Outcomes(kinds) : Linked(out, 2)) /\ Len(kinds) = 2
      BY <2>2 DEF Halt
    <3>2. 2 \in Nat
      OBVIOUS
    <3>. HIDE DEF kinds
    <3>. QED  BY <1>1, <3>1, <3>2, LinkedTyped
  <2>3. CASE Step
    <3>. DEFINE kinds == <<"read", "write", "write", "write", "read", "write", "read">>
    <3>1. (\E out \in Outcomes(kinds) : Linked(out, 7)) /\ Len(kinds) = 7
      BY <2>3 DEF Step
    <3>2. 7 \in Nat
      OBVIOUS
    <3>. HIDE DEF kinds
    <3>. QED  BY <1>1, <3>1, <3>2, LinkedTyped
  <2>. QED  BY <1>5, <2>1, <2>2, <2>3
<1>6. CASE Read
  <2>1. PICK r \in ReadRanges :
          LET how == Regioned(r.addr, r.size)
          IN  \E us \in SetToSeqs(IF how = "cacheable" THEN UncachedRanges(Checked(cache), Bytes(r.addr, r.size))
                                  ELSE IF how = "none" THEN {Bytes(r.addr, r.size)} ELSE {}) :
                \E out \in Outcomes([i \in 1 .. 1 + Len(us) |-> "read"]) : Linked(out, 1 + Len(us))
    BY <1>6 DEF Read
  <2>. DEFINE how == Regioned(r.addr, r.size)
              some == IF how = "cacheable" THEN UncachedRanges(Checked(cache), Bytes(r.addr, r.size))
                      ELSE IF how = "none" THEN {Bytes(r.addr, r.size)} ELSE {}
  <2>2. IsFiniteSet(some)
    <3>1. IsFiniteSet(UncachedRanges(Checked(cache), Bytes(r.addr, r.size)))
      BY CheckedIntervals, LackingFinite
    <3>. HIDE DEF how
    <3>. QED  BY <3>1, FS_EmptySet, FS_Singleton
  <2>3. PICK us \in SetToSeqs(some) :
          \E out \in Outcomes([i \in 1 .. 1 + Len(us) |-> "read"]) : Linked(out, 1 + Len(us))
    BY <2>1
  <2>. HIDE DEF some
  <2>4. Len(us) \in Nat
    BY <2>2, <2>3, SequenceOf
  <2>. DEFINE n == 1 + Len(us)
              kinds == [i \in 1 .. n |-> "read"]
  <2>5. PICK out \in Outcomes(kinds) : Linked(out, n)
    BY <2>3
  <2>6. n \in Nat
    BY <2>4
  <2>. HIDE DEF n
  <2>7. Len(kinds) = n
    BY <2>6
  <2>. HIDE DEF kinds
  <2>. QED  BY <1>1, <2>5, <2>6, <2>7, LinkedTyped
<1>7. CASE Write
  <2>1. PICK r \in WriteRanges :
          LET how == Regioned(r.addr, r.size)
              pieces == IF how = "error" THEN << >> ELSE Accesses(r.addr, r.size)
              n == 1 + Len(pieces)
          IN  \E out \in Outcomes([i \in 1 .. n |-> IF i = 1 THEN "read" ELSE "write"]) : Linked(out, n)
    BY <1>7 DEF Write
  <2>. DEFINE how == Regioned(r.addr, r.size)
              pieces == IF how = "error" THEN << >> ELSE Accesses(r.addr, r.size)
              n == 1 + Len(pieces)
              kinds == [i \in 1 .. n |-> IF i = 1 THEN "read" ELSE "write"]
  <2>2. PICK out \in Outcomes(kinds) : Linked(out, n)
    BY <2>1
  <2>3. Len(pieces) \in Nat
    <3>1. Accesses(r.addr, r.size) \in Seq(Access)
      BY RangeTypes, AccessesChain DEF Chain
    <3>. HIDE DEF how
    <3>. QED  BY <3>1
  <2>. HIDE DEF pieces
  <2>4. n \in Nat
    BY <2>3
  <2>. HIDE DEF n
  <2>5. Len(kinds) = n
    BY <2>4
  <2>. HIDE DEF kinds
  <2>. QED  BY <1>1, <2>2, <2>4, <2>5, LinkedTyped
<1>. QED  BY <1>2, <1>3, <1>4, <1>5, <1>6, <1>7 DEF Next, BpNext

LEMMA LinkTyped ==
    ASSUME LinkTypes, Intervals(cache), [Next]_vars
    PROVE  LinkTypes'
<1>1. broken' \in BOOLEAN /\ faults' \in 0 .. MaxFaults
  BY LinkStep
<1>2. /\ core \in {"running", "sleeping", "halted"} /\ token \in 0 .. MaxToken /\ synced \in -1 .. token /\ dozed \in BOOLEAN
      /\ untold \subseteq Mapped
  BY DEF LinkTypes
<1>3. CASE \/ (SetBreakpoint \/ RemoveBreakpoint \/ RemoveAllBreakpoints \/ RemoveNext) /\ UNCHANGED cacheVars
           \/ Invalidate \/ UNCHANGED vars
  <2>1. UNCHANGED <<core, token>> /\ untold' \in {untold, {}}
    BY <1>3 DEF SetBreakpoint, SetHardware, SetSoftware, RemoveBreakpoint, RemoveAllBreakpoints, RemoveNext,
                Invalidate, vars, bpVars, tokenVars
  <2>2. synced' = synced /\ (dozed' = dozed \/ dozed' = FALSE)
    BY <1>3 DEF Invalidate, vars, cacheVars
  <2>. QED  BY <1>1, <1>2, <2>1, <2>2 DEF LinkTypes
<1>4. CASE (Resume \/ Halt \/ Step \/ Execute \/ Wake) /\ UNCHANGED cacheVars
  <2>1. core' \in {"running", "sleeping", "halted"}
    BY <1>2, <1>4 DEF Resume, Halt, Step, Execute, Wake
  <2>2. /\ token' = token \/ (token' = token + 1 /\ token < MaxToken)
        /\ untold' \subseteq untold \cup Mapped
    BY <1>2, <1>4 DEF Resume, Halt, Step, Execute, Wake, NewToken, tokenVars
  <2>3. token' \in 0 .. MaxToken /\ token <= token'
    BY <1>2, <2>2, Bounds
  <2>4. synced' \in -1 .. token'
    BY <1>2, <1>4, <2>3, Bounds DEF cacheVars
  <2>. QED  BY <1>1, <1>2, <1>4, <2>1, <2>2, <2>3, <2>4 DEF LinkTypes, cacheVars
<1>5. CASE Read \/ Write
  <2>1. UNCHANGED <<core, token, untold>>
    BY <1>5 DEF Read, Write, CacheChecked, tokenVars
  <2>2. synced' \in {synced, token} /\ dozed' \in BOOLEAN
    <3>1. UNCHANGED <<synced, dozed>> \/ \E kept : synced' = CheckedToken /\ dozed' = Dozes(kept)
      BY <1>5 DEF Read, Write, CacheChecked
    <3>. QED  BY <1>2, <3>1 DEF CheckedToken, Dozes
  <2>3. synced' \in -1 .. token'
    BY <1>2, <2>1, <2>2, Bounds
  <2>. QED  BY <1>1, <1>2, <2>1, <2>2, <2>3 DEF LinkTypes
<1>. QED  BY <1>3, <1>4, <1>5 DEF Next, BpNext

\* Software breakpoints are in RAM, and what they stand for are bytes.
TableTypes ==
    \A a \in DOMAIN table :
        /\ table[a].slot \in 0 .. Comparators
        /\ table[a].slot = 0 => RegionTypeOf(a) = "ram" /\ table[a].original \in [Half(a) -> 0 .. BKPT]

SoftTypes == \A a \in DOMAIN soft : RegionTypeOf(a) = "ram" /\ soft[a] \in [Half(a) -> 0 .. BKPT]

\* The program holds no BKPT, and its data are under no breakpoint.
MemTypes ==
    /\ mem \in [Mapped -> 0 .. BKPT] /\ program \in [Mapped -> {0, 1}]
    /\ \A b \in Mapped \cap Stored : mem[b] \in {0, 1}
    /\ doubted \subseteq Mapped

CacheTypes == \A iv \in cache : \A b \in DOMAIN iv : iv[b] \in 0 .. BKPT

DataTypes == TableTypes /\ SoftTypes /\ MemTypes /\ CacheTypes

LEMMA ReadTyped ==
    ASSUME SoftTypes, MemTypes, NEW addr, NEW size, Bytes(addr, size) \subseteq Mapped
    PROVE  ReadMemory(addr, size) \in [Bytes(addr, size) -> 0 .. BKPT]
<1>. DEFINE data == [b \in Bytes(addr, size) |-> mem[b]]
            At(b) == CHOOSE a \in DOMAIN soft : b \in Half(a)
<1>1. \A b \in Bytes(addr, size) : (\E a \in DOMAIN soft : b \in Half(a)) => soft[At(b)][b] \in 0 .. BKPT
  <2>. SUFFICES ASSUME NEW b \in Bytes(addr, size), \E a \in DOMAIN soft : b \in Half(a)
                PROVE  soft[At(b)][b] \in 0 .. BKPT
    OBVIOUS
  <2>1. At(b) \in DOMAIN soft /\ b \in Half(At(b))
    OBVIOUS
  <2>. HIDE DEF At
  <2>. QED  BY <2>1 DEF SoftTypes
<1>2. \A b \in Bytes(addr, size) : data[b] \in 0 .. BKPT
  BY DEF MemTypes
<1>3. ReadMemory(addr, size) =
        [b \in Bytes(addr, size) |->
            IF \E a \in DOMAIN soft : Hides(a, addr, size) /\ b \in Half(a) THEN soft[At(b)][b] ELSE data[b]]
  BY DEF ReadMemory, FilterMemory
<1>. HIDE DEF At, data
<1>. QED  BY <1>1, <1>2, <1>3

LEMMA OverTyped ==
    ASSUME MemTypes, NEW bytes, NEW data \in [bytes -> 0 .. BKPT], mem' = Over(data, mem),
           \A b \in bytes \cap Stored : data[b] \in {0, 1}
    PROVE  mem' \in [Mapped -> 0 .. BKPT] /\ \A b \in Mapped \cap Stored : mem'[b] \in {0, 1}
  BY DEF Over, MemTypes

\* The program is changed with its own bytes only.
LEMMA ChangeTyped ==
    ASSUME MemTypes, NEW bytes, NEW data \in [bytes -> {0, 1}],
           mem' = Over(data, mem), program' = Over(data, program), doubted' \subseteq Mapped
    PROVE  MemTypes'
  BY DEF Over, MemTypes, BKPT

LEMMA FlipTyped ==
    ASSUME MemTypes, Flip, doubted' = doubted
    PROVE  MemTypes'
<1>. DEFINE flipped == [b \in Stored |-> 1 - mem[b]]
<1>1. mem' = Over(flipped, mem) /\ program' = Over(flipped, program) /\ DOMAIN flipped = Stored
  BY DEF Flip
<1>2. \A b \in Mapped \cap Stored : flipped[b] \in {0, 1}
  BY DEF MemTypes
<1>. HIDE DEF flipped
<1>. QED  BY <1>1, <1>2 DEF Over, MemTypes, BKPT

LEMMA TablesTypedOfSet ==
    ASSUME HiddenInv, UnitTypes, DataTypes, Idle, NEW addr \in Breakable \ DOMAIN table,
           SetHardware(addr) \/ (RegionTypeOf(addr) = "ram" /\ SetSoftware(addr))
    PROVE  TableTypes' /\ SoftTypes' /\ MemTypes'
<1>1. CASE SetHardware(addr)
  <2>. DEFINE i == FirstOf(FreeSlots)
              entry == [slot |-> i, original |-> << >>]
  <2>1. UNCHANGED <<mem, program, doubted, soft>>
    BY <1>1 DEF SetHardware, memVars
  <2>2. table' = table \/ (table' = With(table, addr, entry) /\ FreeSlots # {})
    BY <1>1 DEF SetHardware
  <2>3. FreeSlots # {} => i \in 1 .. Comparators
    <3>1. FreeSlots \in SUBSET (1 .. Comparators)
      BY DEF FreeSlots, UnitTypes
    <3>. QED  BY <3>1, FirstFree
  <2>4. entry.slot = i
    OBVIOUS
  <2>. HIDE DEF i, entry
  <2>5. TableTypes'
    <3>1. CASE table' = table
      BY <3>1 DEF DataTypes, TableTypes
    <3>2. CASE table' = With(table, addr, entry) /\ FreeSlots # {}
      <4>1. entry.slot \in 0 .. Comparators /\ entry.slot # 0
        BY <2>3, <2>4, <3>2, Bounds
      <4>. QED  BY <3>2, <4>1 DEF DataTypes, TableTypes, With
    <3>. QED  BY <2>2, <3>1, <3>2
  <2>. QED  BY <2>1, <2>5 DEF DataTypes, SoftTypes, MemTypes
<1>2. CASE RegionTypeOf(addr) = "ram" /\ SetSoftware(addr)
  <2>1. UNCHANGED <<program, doubted>>
    BY <1>2 DEF SetSoftware
  <2>. DEFINE entry == [slot |-> 0, original |-> Original(addr)]
              planted == [b \in Half(addr) |-> BKPT]
  <2>2. /\ mem' = mem \/ mem' = Over(planted, mem)
        /\ \/ UNCHANGED <<table, soft>>
           \/ table' = With(table, addr, entry) /\ soft' = With(soft, addr, Original(addr))
    BY <1>2 DEF SetSoftware
  <2>3. Bytes(addr, 2) = Half(addr) /\ Half(addr) \subseteq Mapped
    BY <1>2, BreakableFacts, HalfIsBytes, RamIsMapped
  <2>4. Original(addr) \in [Half(addr) -> 0 .. BKPT]
    BY <2>3, ReadTyped DEF Original, DataTypes
  <2>5. entry.slot = 0 /\ entry.original = Original(addr)
    OBVIOUS
  <2>6. planted \in [Half(addr) -> 0 .. BKPT] /\ Half(addr) \cap Stored = {}
    BY BreakableFacts DEF Halves, BKPT
  <2>. HIDE DEF entry, planted
  <2>7. TableTypes' /\ SoftTypes'
    <3>1. CASE UNCHANGED <<table, soft>>
      BY <3>1 DEF DataTypes, TableTypes, SoftTypes
    <3>2. CASE table' = With(table, addr, entry) /\ soft' = With(soft, addr, Original(addr))
      <4>1. entry.slot \in 0 .. Comparators
        BY <2>5, Bounds
      <4>2. TableTypes'
        BY <1>2, <2>4, <2>5, <3>2, <4>1 DEF DataTypes, TableTypes, With
      <4>3. SoftTypes'
        BY <1>2, <2>4, <3>2 DEF DataTypes, SoftTypes, With
      <4>. QED  BY <4>2, <4>3
    <3>. QED  BY <2>2, <3>1, <3>2
  <2>8. MemTypes'
    <3>1. CASE mem' = mem
      BY <2>1, <3>1 DEF DataTypes, MemTypes
    <3>2. CASE mem' = Over(planted, mem)
      BY <2>1, <2>6, <3>2, OverTyped DEF DataTypes, MemTypes
    <3>. QED  BY <2>2, <3>1, <3>2
  <2>. QED  BY <2>7, <2>8
<1>. QED  BY <1>1, <1>2

LEMMA TablesTypedOfRemoval ==
    ASSUME HiddenInv, DataTypes, NEW addr \in DOMAIN table, RemoveFrom(addr),
           DOMAIN table' \subseteq DOMAIN table, \A a \in DOMAIN table' : table'[a] = table[a]
    PROVE  TableTypes' /\ SoftTypes' /\ MemTypes'
<1>1. TableTypes'
  BY DEF DataTypes, TableTypes
<1>2. CASE table[addr].slot # 0
  BY <1>1, <1>2 DEF RemoveFrom, memVars, DataTypes, SoftTypes, MemTypes
<1>3. CASE table[addr].slot = 0
  <2>. DEFINE original == table[addr].original
  <2>1. /\ mem' = mem \/ mem' = Over(original, mem)
        /\ soft' = soft \/ soft' = Without(soft, addr)
        /\ doubted' = doubted \/ doubted' = doubted \cup Half(addr)
        /\ UNCHANGED program
    BY <1>3 DEF RemoveFrom, RemoveSoftware
  <2>2. addr \in Breakable /\ RegionTypeOf(addr) = "ram" /\ original \in [Half(addr) -> 0 .. BKPT]
    BY <1>3 DEF HiddenInv, TableShape, DataTypes, TableTypes
  <2>3. Half(addr) \subseteq Mapped /\ Half(addr) \cap Stored = {}
    BY <2>2, RamIsMapped, BreakableFacts DEF Halves
  <2>. HIDE DEF original
  <2>4. SoftTypes'
    BY <2>1 DEF Without, DataTypes, SoftTypes
  <2>5. MemTypes'
    <3>1. doubted' \subseteq Mapped
      BY <2>1, <2>3 DEF DataTypes, MemTypes
    <3>2. CASE mem' = mem
      BY <2>1, <3>1, <3>2 DEF DataTypes, MemTypes
    <3>3. CASE mem' = Over(original, mem)
      BY <2>1, <2>2, <2>3, <3>1, <3>3, OverTyped DEF DataTypes, MemTypes
    <3>. QED  BY <2>1, <3>2, <3>3
  <2>. QED  BY <1>1, <2>4, <2>5
<1>. QED  BY <1>2, <1>3

\* What a write changes to 1 are bytes of the range, and what it leaves in doubt are bytes of memory.
LEMMA TypedByWrite ==
    ASSUME HiddenInv, DataTypes, Intervals(cache), Write
    PROVE  DataTypes'
<1>1. PICK r, made : WriteBy(r, made)
  BY WriteIs
<1>. DEFINE taken == [b \in made \ ReadOnly |-> 1]
            kept == Checked(cache)
            bytes == Bytes(r.addr, r.size)
<1>2. UNCHANGED <<table, soft>> /\ WriteBytes(made, 1)
  BY <1>1 DEF WriteBy
<1>3. TableTypes' /\ SoftTypes'
  BY <1>2 DEF DataTypes, TableTypes, SoftTypes
<1>4. doubted' \subseteq Mapped
  <2>1. \A a \in DOMAIN soft : Half(a) \subseteq Mapped
    BY RamIsMapped DEF HiddenInv, TableShape, DataTypes, SoftTypes
  <2>2. doubted' \subseteq doubted \cup (made \cap UNION {Half(a) : a \in DOMAIN soft}) \cup Mapped
    BY <1>1 DEF WriteBy
  <2>. QED  BY <2>1, <2>2 DEF DataTypes, MemTypes
<1>5. MemTypes'
  <2>1. mem' = Over(taken, mem) /\ program' = Over(taken, program) /\ taken \in [made \ ReadOnly -> {0, 1}]
    BY <1>2 DEF WriteBytes
  <2>. HIDE DEF taken
  <2>. QED  BY <1>4, <2>1, ChangeTyped DEF DataTypes
<1>6. CacheTypes'
  <2>1. \A iv \in kept : \A b \in DOMAIN iv : iv[b] \in 0 .. BKPT
    BY DEF Checked, DataTypes, CacheTypes
  <2>2. cache' = cache \/ cache' = kept \/ cache' = Written(kept, bytes, 1)
    BY <1>1 DEF WriteBy, cacheVars
  <2>3. Intervals(kept) /\ Interval(bytes)
    BY <1>1, CheckedIntervals, RangeTypes DEF WriteBy
  <2>. HIDE DEF kept, bytes
  <2>4. CASE cache' = cache \/ cache' = kept
    BY <2>1, <2>4 DEF DataTypes, CacheTypes
  <2>5. CASE cache' = Written(kept, bytes, 1)
    <3>1. \A iv \in Written(kept, bytes, 1) : \A b \in DOMAIN iv :
            iv[b] = 1 \/ \E jv \in kept : b \in DOMAIN jv /\ iv[b] = jv[b]
      BY <2>3, WrittenIs
    <3>2. 1 \in 0 .. BKPT
      BY DEF BKPT
    <3>3. \A iv \in Written(kept, bytes, 1) : \A b \in DOMAIN iv : iv[b] \in 0 .. BKPT
      BY <2>1, <3>1, <3>2
    <3>. QED  BY <2>5, <3>3 DEF CacheTypes
  <2>. QED  BY <2>2, <2>4, <2>5
<1>. QED  BY <1>3, <1>5, <1>6 DEF DataTypes

LEMMA TypedByRead ==
    ASSUME DataTypes, Intervals(cache), Read
    PROVE  DataTypes'
<1>1. UNCHANGED <<mem, program, doubted, table, soft>>
  BY DEF Read, CacheChecked, memVars
<1>2. TableTypes' /\ SoftTypes' /\ MemTypes'
  BY <1>1 DEF DataTypes, TableTypes, SoftTypes, MemTypes
<1>3. CASE cache' = cache
  BY <1>2, <1>3 DEF DataTypes, CacheTypes
<1>4. ASSUME NEW r, NEW got, ReadBy(r, got)
      PROVE  CacheTypes'
  <2>. DEFINE kept == Checked(cache)
              bytes == Bytes(r.addr, r.size)
              added == Added(got)
  <2>1. /\ r \in ReadRanges /\ got \in SUBSET UncachedRanges(kept, bytes) /\ cache' = kept \cup added
        /\ got # {} => Regioned(r.addr, r.size) = "cacheable"
    BY <1>4 DEF ReadBy
  <2>2. /\ r.addr \in Nat /\ r.size \in Nat \ {0} /\ Interval(bytes) /\ IsFiniteSet(bytes)
    BY <2>1, RangeTypes
  <2>3. \A iv \in kept : \A b \in DOMAIN iv : iv[b] \in 0 .. BKPT
    BY DEF Checked, DataTypes, CacheTypes
  <2>4. \A iv \in added : \A b \in DOMAIN iv : b \in bytes /\ iv[b] = ReadMemory(b, 1)[b]
    <3>1. Intervals(kept) /\ got \in SUBSET UncachedRanges(kept, bytes)
      BY <2>1, CheckedIntervals
    <3>. HIDE DEF kept, bytes
    <3>. QED  BY <2>2, <3>1, AddedIs
  <2>5. \A b \in bytes : got # {} => ReadMemory(b, 1)[b] \in 0 .. BKPT
    <3>. SUFFICES ASSUME NEW b \in bytes, got # {}
                  PROVE  ReadMemory(b, 1)[b] \in 0 .. BKPT
      OBVIOUS
    <3>1. b \in Mapped /\ b \in Int
      BY <2>1, <2>2, CacheableBytes, RegionOfByte
    <3>2. Bytes(b, 1) = {b}
      BY <3>1 DEF Bytes, LastOf
    <3>. QED  BY <3>1, <3>2, ReadTyped DEF DataTypes
  <2>6. added # {} => got # {}
    BY DEF Added
  <2>. HIDE DEF kept, bytes, added
  <2>7. \A iv \in added : \A b \in DOMAIN iv : iv[b] \in 0 .. BKPT
    BY <2>4, <2>5, <2>6
  <2>. QED  BY <2>1, <2>3, <2>7 DEF CacheTypes
<1>. QED  BY <1>2, <1>3, <1>4, ReadIs DEF DataTypes, cacheVars

LEMMA DataTyped ==
    ASSUME HiddenInv, UnitTypes, DataTypes, Intervals(cache), [Next]_vars
    PROVE  DataTypes'
<1>1. CASE Read \/ Write
  BY <1>1, TypedByRead, TypedByWrite
<1>2. CASE Invalidate \/ UNCHANGED vars
  <2>1. UNCHANGED <<mem, program, doubted, table, soft>> /\ (cache' = {} \/ cache' = cache)
    BY <1>2 DEF Invalidate, vars, bpVars, memVars, cacheVars
  <2>. QED  BY <2>1 DEF DataTypes, TableTypes, SoftTypes, MemTypes, CacheTypes
<1>3. CASE BpNext /\ UNCHANGED cacheVars
  <2>1. CacheTypes'
    BY <1>3 DEF DataTypes, CacheTypes, cacheVars
  <2>2. CASE SetBreakpoint
    BY <2>1, <2>2, TablesTypedOfSet DEF SetBreakpoint, DataTypes
  <2>3. CASE RemoveBreakpoint
    <3>1. PICK addr \in DOMAIN table : table' = Without(table, addr) /\ RemoveFrom(addr)
      BY <2>3 DEF RemoveBreakpoint
    <3>. QED  BY <2>1, <3>1, TablesTypedOfRemoval DEF Without, DataTypes
  <2>4. CASE RemoveNext
    <3>1. Head(removing) \in DOMAIN table
      BY <2>4 DEF RemoveNext, HiddenInv, TableShape
    <3>2. RemoveFrom(Head(removing)) /\ (table' = table \/ table' = << >>)
      BY <2>4 DEF RemoveNext
    <3>3. DOMAIN table' \subseteq DOMAIN table /\ \A a \in DOMAIN table' : table'[a] = table[a]
      BY <3>2
    <3>. QED  BY <2>1, <3>1, <3>2, <3>3, TablesTypedOfRemoval DEF DataTypes
  <2>5. CASE RemoveAllBreakpoints \/ Resume \/ Halt \/ Wake
    <3>1. UNCHANGED <<mem, program, doubted, table, soft>>
      BY <2>5 DEF RemoveAllBreakpoints, Resume, Halt, Wake, Quiet, memVars
    <3>. QED  BY <2>1, <3>1 DEF DataTypes, TableTypes, SoftTypes, MemTypes
  <2>6. CASE Execute \/ Step
    <3>1. UNCHANGED <<table, soft, doubted>> /\ (Flip \/ UNCHANGED <<mem, program>>)
      BY <2>6 DEF Execute, Step, Quiet
    <3>2. MemTypes'
      BY <3>1, FlipTyped DEF DataTypes, MemTypes
    <3>. QED  BY <2>1, <3>1, <3>2 DEF DataTypes, TableTypes, SoftTypes
  <2>. QED  BY <1>3, <2>2, <2>3, <2>4, <2>5, <2>6 DEF BpNext
<1>. QED  BY <1>1, <1>2, <1>3 DEF Next

LEMMA TypesInit == Init => LinkTypes /\ DataTypes
<1>. SUFFICES ASSUME Init PROVE LinkTypes /\ DataTypes
  OBVIOUS
<1>1. /\ core = "halted" /\ token = 0 /\ broken = FALSE /\ faults = 0 /\ synced = -1 /\ dozed = FALSE
      /\ untold = {}
      /\ mem = [b \in Mapped |-> 0] /\ program = mem /\ doubted = {} /\ cache = {}
      /\ table = << >> /\ soft = << >>
  BY DEF Init, BpInit
<1>2. LinkTypes
  <2>1. token \in 0 .. MaxToken /\ faults \in 0 .. MaxFaults /\ synced \in -1 .. token
    BY <1>1, Bounds
  <2>2. broken \in BOOLEAN /\ dozed \in BOOLEAN
    BY <1>1
  <2>. QED  BY <1>1, <2>1, <2>2 DEF LinkTypes
<1>3. DOMAIN table = {} /\ DOMAIN soft = {}
  BY <1>1
<1>4. mem \in [Mapped -> 0 .. BKPT] /\ program \in [Mapped -> {0, 1}]
  BY <1>1 DEF BKPT
<1>5. TableTypes /\ SoftTypes
  BY <1>3 DEF TableTypes, SoftTypes
<1>6. MemTypes /\ CacheTypes
  BY <1>1, <1>4 DEF MemTypes, CacheTypes
<1>. QED  BY <1>2, <1>5, <1>6 DEF DataTypes

LEMMA TypesFollow ==
    ASSUME HiddenInv, UnitTypes, LinkTypes, DataTypes, Intervals(cache)
    PROVE  TypeOK
<1>1. program \in [Mapped -> 0 .. BKPT]
  BY DEF DataTypes, MemTypes, BKPT
<1>2. removing \in Seq(Breakable)
  <2>1. DOMAIN table \subseteq Breakable /\ removing \in Seq(DOMAIN table)
    BY DEF HiddenInv, TableShape
  <2>. QED  BY <2>1
<1>3. BpTypeOK
  BY <1>1, <1>2 DEF BpTypeOK, HiddenInv, TableShape, UnitTypes, LinkTypes, DataTypes, TableTypes, SoftTypes,
                    MemTypes, Slots, Comps
<1>4. \A iv \in cache : DOMAIN iv = First(iv) .. Final(iv)
  <2>. SUFFICES ASSUME NEW iv \in cache
                PROVE  DOMAIN iv = Min(DOMAIN iv) .. Max(DOMAIN iv)
    BY DEF First, Final
  <2>1. PICK f \in Int, l \in Int : f <= l /\ DOMAIN iv = f .. l
    BY DEF Intervals, Interval
  <2>. QED  BY <2>1, EndsOf
<1>. QED  BY <1>3, <1>4 DEF TypeOK, LinkTypes, DataTypes, CacheTypes

(* Whatever is called and whatever fails, memory and the cache hold bytes, *)
(* the tables what the comparators and RAM have room for, and the numbers  *)
(* stay within their bounds.                                               *)
THEOREM TypeCorrect == Spec => []TypeOK
<1>. DEFINE Inv == HiddenInv /\ UnitTypes /\ LinkTypes /\ DataTypes /\ Intervals(cache)
<1>1. Init => Inv
  BY HiddenInit, UnitInit, TypesInit, IntervalsInit
<1>2. Inv /\ [Next]_vars => Inv'
  BY HiddenStep, UnitTyped, LinkTyped, DataTyped, IntervalsStep
<1>3. Inv => TypeOK
  BY TypesFollow
<1>. QED  BY <1>1, <1>2, <1>3, PTL DEF Spec
=============================================================================
