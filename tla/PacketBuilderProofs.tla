------------------------- MODULE PacketBuilderProofs -------------------------
(***************************************************************************)
(* Proofs about the packet under construction, for every set of packet     *)
(* sizes, of word counts and every bound on the segments of a packet: it   *)
(* fits the probe's buffers, and the probe decodes the accesses that were  *)
(* added.  What FlattenSegments returns is a fold over the segments: that  *)
(* its recursive equation has a solution, and that one more segment adds   *)
(* its own accesses at the end, are proved first.                          *)
(***************************************************************************)
EXTENDS PacketBuilder, DapCommandProofs, WellFoundedInduction

\* The packet under construction stays well formed.
THEOREM PacketWellFormed == Spec => []WellFormed(cmd)
<1>1. Init => WellFormed(cmd)
  BY NewCommandWellFormed, BuilderAssumption DEF Init
<1>2. WellFormed(cmd) /\ [Next]_vars => WellFormed(cmd)'
  <2> SUFFICES ASSUME WellFormed(cmd), [Next]_vars
               PROVE  WellFormed(cmd')
    OBVIOUS
  <2>1. ASSUME NEW count \in Counts, NEW request \in Requests, AddWords(count, request)
        PROVE  WellFormed(cmd')
    BY <2>1, AddWellFormed, BuilderAssumption DEF AddWords
  <2>2. CASE SendPacket
    <3>1. ValidSize(cmd.size)
      BY DEF WellFormed
    <3>. QED  BY <2>2, <3>1, NewCommandWellFormed DEF SendPacket
  <2>3. CASE UNCHANGED vars
    BY <2>3 DEF vars
  <2>. QED  BY <2>1, <2>2, <2>3 DEF Next
<1>. QED  BY <1>1, <1>2, PTL DEF Spec

\* A well-formed packet fits.
LEMMA WellFormedFits == ASSUME WellFormed(cmd) PROVE Fits
<1>1. /\ cmd.size \in Nat /\ cmd.readCount \in Nat /\ cmd.writeCount \in Nat
      /\ cmd.size >= 9 /\ cmd.size <= 65535
      /\ cmd.blockRequest \in ReadRequests \cup WriteRequests \cup {NoRequest}
  BY DEF WellFormed, Commands, ValidSize, Requests
<1>2. CASE cmd.blockAllowed
  BY <1>1, <1>2 DEF WellFormed, Fits, PacketLength, ResponseLength, BlockLength
<1>3. CASE ~cmd.blockAllowed
  BY <1>1, <1>3 DEF WellFormed, Fits, PacketLength, ResponseLength, TransferLength
<1>. QED  BY <1>2, <1>3

\* Every packet fits the probe's buffers and its count fits its field.
THEOREM PacketFits == Spec => []Fits
  BY WellFormedFits, PacketWellFormed, PTL

-----------------------------------------------------------------------------
(* The fold *)

\* What the fold's recursive function g holds for the set t of positions.
Sent(s, g, t) ==
    IF t = {} THEN << >>
    ELSE g[t \ {Max(t)}] \o RepeatRequest(s[Max(t)][1], s[Max(t)][2])

\* g solves the fold's equation on every set of the first n positions.
Unfolds(s, g, n) == g = [t \in SUBSET (1 .. n) |-> Sent(s, g, t)]

\* FlattenSegments written out.
LEMMA FlattenUnfolded ==
    ASSUME NEW s
    PROVE  FlattenSegments(s)
           = (CHOOSE g : g = [t \in SUBSET DOMAIN s |-> Sent(s, g, t)])[DOMAIN s]
BY DEF FlattenSegments, FoldLeft, MapThenFoldSet, Sent

\* A non-empty set of numbers has a smallest one.
LEMMA Smallest ==
    ASSUME NEW S \in SUBSET Nat, S # {}
    PROVE  \E m \in S : \A k \in S : m <= k
<1>. DEFINE R == OpToRel(<, Nat)
<1>1. IsWellFoundedOn(R, Nat)
  BY NatLessThanWellFounded
<1>2. \A x, y \in Nat : << y, x >> \in R <=> y < x
  BY DEF OpToRel
<1>. HIDE DEF R
<1>3. PICK m \in S : \A k \in S : ~(<< k, m >> \in R)
  BY <1>1, WFMin
<1>4. \A k \in S : k \in Nat /\ m \in Nat /\ ~(k < m)
  BY <1>2, <1>3
<1>5. \A k \in S : m <= k
  BY <1>4
<1>. QED  BY <1>5

\* A set of numbers with 0 that goes up one by one has every number up to n.
LEMMA UpTo ==
    ASSUME NEW n \in Nat, NEW S, 0 \in S,
           \A k \in Nat : k < n /\ k \in S => k + 1 \in S
    PROVE  n \in S
<1>. SUFFICES ASSUME n \notin S PROVE FALSE
  OBVIOUS
<1>. DEFINE Missing == {k \in Nat : k <= n /\ k \notin S}
<1>1. Missing # {} /\ Missing \in SUBSET Nat
  OBVIOUS
<1>2. PICK m \in Missing : \A k \in Missing : m <= k
  BY <1>1, Smallest
<1>3. m \in Nat /\ m <= n /\ m \notin S /\ m # 0
  BY <1>2
<1>4. m - 1 \in Nat /\ m - 1 < n /\ ~(m <= m - 1) /\ (m - 1) + 1 = m
  BY <1>3
<1>5. m - 1 \in S
  BY <1>2, <1>4
<1>. QED  BY <1>3, <1>4, <1>5

\* The greatest member of a set that has n and nothing above it.
LEMMA GreatestIs ==
    ASSUME NEW n \in Nat, NEW t \in SUBSET (1 .. n), n \in t
    PROVE  Max(t) = n
<1>1. n \in t /\ \A y \in t : n >= y
  OBVIOUS
<1>2. ASSUME NEW x \in t, \A y \in t : x >= y
      PROVE  x = n
  BY <1>1, <1>2
<1>. QED  BY <1>1, <1>2 DEF Max

\* A solution for n positions extends to one for n + 1.
LEMMA UnfoldsNext ==
    ASSUME NEW s, NEW n \in Nat, NEW g, Unfolds(s, g, n)
    PROVE  \E h : Unfolds(s, h, n + 1)
<1>. DEFINE h == [t \in SUBSET (1 .. n + 1) |->
                     IF n + 1 \in t
                     THEN g[t \ {n + 1}] \o RepeatRequest(s[n + 1][1], s[n + 1][2])
                     ELSE g[t]]
<1>1. ASSUME NEW t \in SUBSET (1 .. n + 1)
      PROVE  h[t] = Sent(s, h, t)
  <2>1. CASE n + 1 \in t
    <3>1. Max(t) = n + 1
      BY <2>1, GreatestIs, n + 1 \in Nat
    <3>2. /\ t \ {n + 1} \in SUBSET (1 .. n + 1)
          /\ ~(n + 1 \in t \ {n + 1})
      OBVIOUS
    <3>3. h[t \ {n + 1}] = g[t \ {n + 1}]
      BY <3>2
    <3>4. h[t] = g[t \ {n + 1}] \o RepeatRequest(s[n + 1][1], s[n + 1][2])
      BY <2>1
    <3>. HIDE DEF h
    <3>5. t # {}
      BY <2>1
    <3>. QED  BY <3>1, <3>3, <3>4, <3>5 DEF Sent
  <2>2. CASE ~(n + 1 \in t)
    <3>. DEFINE u == t \ {Max(t)}
    <3>1. t \in SUBSET (1 .. n) /\ u \in SUBSET (1 .. n)
      <4>1. \A e \in t : e \in 1 .. n + 1 /\ e # n + 1
        BY <2>2
      <4>2. \A e \in t : e \in 1 .. n
        BY <4>1
      <4>. QED  BY <4>2
    <3>2. u \in SUBSET (1 .. n + 1) /\ ~(n + 1 \in u)
      BY <2>2
    <3>3. h[t] = g[t] /\ h[u] = g[u]
      BY <2>2, <3>2
    <3>4. g[t] = Sent(s, g, t)
      BY <3>1 DEF Unfolds
    <3>. HIDE DEF h
    <3>. QED  BY <3>3, <3>4 DEF Sent
  <2>. QED  BY <2>1, <2>2
<1>2. h = [t \in SUBSET (1 .. n + 1) |-> h[t]]
  OBVIOUS
<1>. HIDE DEF h
<1>3. h = [t \in SUBSET (1 .. n + 1) |-> Sent(s, h, t)]
  BY <1>1, <1>2
<1>. QED  BY <1>3 DEF Unfolds

\* So there is a solution for every number of positions.
LEMMA UnfoldsExists ==
    ASSUME NEW s, NEW n \in Nat
    PROVE  \E g : Unfolds(s, g, n)
<1>. DEFINE S == {k \in Nat : \E g : Unfolds(s, g, k)}
<1>1. 0 \in S
  <2>. DEFINE g == [t \in SUBSET (1 .. 0) |-> << >>]
  <2>1. \A t \in SUBSET (1 .. 0) : t = {}
    OBVIOUS
  <2>2. g = [t \in SUBSET (1 .. 0) |-> Sent(s, g, t)]
    BY <2>1 DEF Sent
  <2>. QED  BY <2>2 DEF Unfolds
<1>2. \A k \in Nat : k < n /\ k \in S => k + 1 \in S
  BY UnfoldsNext
<1>. HIDE DEF S
<1>3. n \in S
  BY <1>1, <1>2, UpTo
<1>. QED  BY <1>3 DEF S

\* The solution that the recursive definition names.
Unfolded(s) == CHOOSE g : Unfolds(s, g, Len(s))

\* FlattenSegments is that solution at all positions.
LEMMA FlattenIs ==
    ASSUME NEW s \in Seq(Nat \X Requests)
    PROVE  /\ FlattenSegments(s) = Unfolded(s)[1 .. Len(s)]
           /\ Unfolds(s, Unfolded(s), Len(s))
<1>1. DOMAIN s = 1 .. Len(s) /\ Len(s) \in Nat
  OBVIOUS
<1>2. \A g : g = [t \in SUBSET DOMAIN s |-> Sent(s, g, t)] <=> Unfolds(s, g, Len(s))
  BY <1>1 DEF Unfolds
<1>3. Unfolded(s) = CHOOSE g : g = [t \in SUBSET DOMAIN s |-> Sent(s, g, t)]
  BY <1>1 DEF Unfolded, Unfolds
<1>4. Unfolds(s, Unfolded(s), Len(s))
  BY <1>1, UnfoldsExists DEF Unfolded
<1>. QED  BY <1>1, <1>3, <1>4, FlattenUnfolded

\* The accesses of the first k segments are those of the first k - 1 and then
\* the k-th.
OneByOne(s, g, n) ==
    /\ g[1 .. 0] = << >>
    /\ \A k \in 1 .. n : g[1 .. k] = g[1 .. k - 1] \o RepeatRequest(s[k][1], s[k][2])

\* A solution puts the segments one behind the other.
LEMMA UnfoldsAt ==
    ASSUME NEW s, NEW g, NEW n \in Nat, Unfolds(s, g, n)
    PROVE  OneByOne(s, g, n)
<1>1. \A t \in SUBSET (1 .. n) : g[t] = Sent(s, g, t)
  BY DEF Unfolds
<1>2. 1 .. 0 = {} /\ 1 .. 0 \in SUBSET (1 .. n)
  OBVIOUS
<1>3. g[1 .. 0] = << >>
  BY <1>1, <1>2 DEF Sent
<1>4. ASSUME NEW k \in 1 .. n
      PROVE  g[1 .. k] = g[1 .. k - 1] \o RepeatRequest(s[k][1], s[k][2])
  <2>1. k \in Nat /\ 1 .. k \in SUBSET (1 .. k) /\ k \in 1 .. k
    OBVIOUS
  <2>2. Max(1 .. k) = k
    BY <2>1, GreatestIs
  <2>3. 1 .. k \in SUBSET (1 .. n) /\ 1 .. k # {} /\ (1 .. k) \ {k} = 1 .. k - 1
    OBVIOUS
  <2>. QED  BY <1>1, <2>2, <2>3 DEF Sent
<1>. QED  BY <1>3, <1>4 DEF OneByOne

\* One more segment adds its own accesses behind the others.
LEMMA FlattenAppended ==
    ASSUME NEW s \in Seq(Nat \X Requests), NEW x \in Nat \X Requests
    PROVE  FlattenSegments(Append(s, x))
           = FlattenSegments(s) \o RepeatRequest(x[1], x[2])
<1>. DEFINE r == Append(s, x)
            n == Len(s)
            f == Unfolded(s)
            g == Unfolded(r)
<1>1. /\ n \in Nat /\ r \in Seq(Nat \X Requests) /\ Len(r) = n + 1
      /\ r[n + 1] = x
      /\ \A k \in 1 .. n : r[k] = s[k]
  OBVIOUS
<1>2. /\ FlattenSegments(s) = f[1 .. n] /\ Unfolds(s, f, n)
      /\ FlattenSegments(r) = g[1 .. n + 1] /\ Unfolds(r, g, n + 1)
  BY <1>1, FlattenIs
<1>. HIDE DEF r, n, f, g
<1>3. OneByOne(s, f, n)
  BY <1>1, <1>2, UnfoldsAt
<1>4. OneByOne(r, g, n + 1)
  <2>1. n + 1 \in Nat
    BY <1>1
  <2>. QED  BY <1>2, <2>1, UnfoldsAt
<1>. DEFINE S == {k \in Nat : g[1 .. k] = f[1 .. k]}
<1>5. 0 \in S
  BY <1>3, <1>4 DEF OneByOne
<1>6. ASSUME NEW k \in Nat, k < n, k \in S PROVE k + 1 \in S
  <2>1. k + 1 \in 1 .. n /\ k + 1 \in 1 .. n + 1 /\ (k + 1) - 1 = k
    BY <1>1, <1>6
  <2>2. f[1 .. k + 1] = f[1 .. k] \o RepeatRequest(s[k + 1][1], s[k + 1][2])
    BY <1>3, <2>1 DEF OneByOne
  <2>3. g[1 .. k + 1] = g[1 .. k] \o RepeatRequest(r[k + 1][1], r[k + 1][2])
    BY <1>4, <2>1 DEF OneByOne
  <2>4. r[k + 1] = s[k + 1]
    BY <1>1, <2>1
  <2>5. g[1 .. k] = f[1 .. k]
    BY <1>6
  <2>6. k + 1 \in Nat /\ g[1 .. k + 1] = f[1 .. k + 1]
    BY <1>6, <2>2, <2>3, <2>4, <2>5
  <2>. QED  BY <2>6
<1>. HIDE DEF S
<1>7. n \in S
  BY <1>1, <1>5, <1>6, UpTo
<1>8. g[1 .. n] = f[1 .. n]
  BY <1>7 DEF S
<1>9. n + 1 \in 1 .. n + 1 /\ (n + 1) - 1 = n
  BY <1>1
<1>10. g[1 .. n + 1] = g[1 .. n] \o RepeatRequest(r[n + 1][1], r[n + 1][2])
  BY <1>4, <1>9 DEF OneByOne
<1>. QED  BY <1>1, <1>2, <1>8, <1>10 DEF r

\* No segments, no accesses.
LEMMA FlattenNothing == FlattenSegments(<< >>) = << >>
<1>. DEFINE e == << >>
<1>1. e \in Seq(Nat \X Requests) /\ Len(e) = 0
  OBVIOUS
<1>2. FlattenSegments(e) = Unfolded(e)[1 .. 0] /\ Unfolds(e, Unfolded(e), 0)
  BY <1>1, FlattenIs
<1>3. OneByOne(e, Unfolded(e), 0)
  BY <1>2, UnfoldsAt
<1>. QED  BY <1>2, <1>3 DEF OneByOne

-----------------------------------------------------------------------------
(* What the probe decodes *)

\* n words of one request.
LEMMA Repeated ==
    ASSUME NEW n \in Nat, NEW request \in Requests
    PROVE  /\ RepeatRequest(n, request) \in Seq(Requests)
           /\ Len(RepeatRequest(n, request)) = n
           /\ \A i \in 1 .. n : RepeatRequest(n, request)[i] = request
  BY DEF RepeatRequest

\* The strengthening: the words counted are the words added, and a packet that
\* may still go out as DAP_TransferBlock holds words of one request only, the
\* one its header will name.  DecodedAsAdded says it of the counts as they are
\* sent, of 16 or 8 bits: that nothing wraps round is for WellFormed to say.
DecodeInv ==
    /\ WellFormed(cmd)
    /\ data \in Seq(Nat \X Requests)
    /\ FlattenSegments(data) \in Seq(Requests)
    /\ Len(FlattenSegments(data)) = cmd.readCount + cmd.writeCount
    /\ cmd.blockAllowed
           => \A i \in 1 .. Len(FlattenSegments(data)) :
                 FlattenSegments(data)[i] = cmd.blockRequest

\* What the probe reads back follows: in either form the count fits its field.
LEMMA DecodeInvSuffices == ASSUME DecodeInv PROVE DecodedAsAdded
<1>. DEFINE total == cmd.readCount + cmd.writeCount
            flat == FlattenSegments(data)
<1>1. /\ cmd.readCount \in Nat /\ cmd.writeCount \in Nat /\ total \in Nat
      /\ flat \in Seq(Requests) /\ Len(flat) = total
  BY DEF DecodeInv, WellFormed, Commands
<1>2. total <= IF cmd.blockAllowed THEN 65535 ELSE 255
  BY WellFormedFits DEF DecodeInv, Fits, MaxTransferCount
<1>3. CASE cmd.blockAllowed
  <2>1. \A i \in 1 .. total : flat[i] = cmd.blockRequest
    BY <1>1, <1>3 DEF DecodeInv
  <2>2. flat = [i \in 1 .. total |-> cmd.blockRequest]
    <3>. HIDE DEF flat, total
    <3>1. DOMAIN flat = 1 .. total /\ flat = [i \in DOMAIN flat |-> flat[i]]
      BY <1>1
    <3>. QED  BY <2>1, <3>1
  <2>3. Encode(cmd, data) = [count |-> total % 65536,
                             requests |-> RepeatRequest(total, cmd.blockRequest)]
    BY <1>3 DEF Encode
  <2>. HIDE DEF flat, total
  <2>4. total % 65536 = total
    BY <1>1, <1>2, <1>3
  <2>5. Encode(cmd, data).requests = flat /\ Encode(cmd, data).count = total
    BY <2>2, <2>3, <2>4 DEF RepeatRequest
  <2>. QED  BY <1>1, <2>5 DEF DecodedAsAdded, flat
<1>4. CASE ~cmd.blockAllowed
  <2>1. Encode(cmd, data) = [count |-> total % 256, requests |-> flat]
    BY <1>4 DEF Encode
  <2>. HIDE DEF flat, total
  <2>2. total % 256 = total
    BY <1>1, <1>2, <1>4
  <2>3. Encode(cmd, data).requests = flat /\ Encode(cmd, data).count = total
    BY <2>1, <2>2
  <2>. QED  BY <1>1, <2>3 DEF DecodedAsAdded, flat
<1>. QED  BY <1>3, <1>4

\* A turn of _write's loop keeps it, also the turn that ends the block form.
LEMMA DecodeAdd ==
    ASSUME DecodeInv, NEW count \in Counts, NEW request \in Requests, AddWords(count, request)
    PROVE  DecodeInv'
<1>. DEFINE n == RequestSpace(cmd, count, request)
            flat == FlattenSegments(data)
            more == RepeatRequest(n, request)
<1>1. WellFormed(cmd) /\ count \in Nat \ {0} /\ n > 0
  BY BuilderAssumption DEF DecodeInv, AddWords
<1>2. WellFormed(cmd') /\ cmd' = Add(cmd, n, request)
  BY <1>1, AddWellFormed DEF AddWords
<1>3. cmd \in Commands /\ cmd.readCount \in Nat /\ cmd.writeCount \in Nat
  BY <1>1 DEF WellFormed, Commands
<1>4. n \in Nat
  BY <1>1, <1>3, RequestSpaceBounds
<1>5. data' = Append(data, << n, request >>)
  BY DEF AddWords
<1>. HIDE DEF n
<1>6. << n, request >> \in Nat \X Requests /\ << n, request >>[1] = n
      /\ << n, request >>[2] = request
  BY <1>4
<1>7. data' \in Seq(Nat \X Requests)
  BY <1>5, <1>6 DEF DecodeInv
<1>8. FlattenSegments(data') = flat \o more
  BY <1>5, <1>6, FlattenAppended DEF DecodeInv
<1>9. /\ flat \in Seq(Requests) /\ Len(flat) = cmd.readCount + cmd.writeCount
      /\ more \in Seq(Requests) /\ Len(more) = n
      /\ \A i \in 1 .. n : more[i] = request
  BY <1>4, Repeated DEF DecodeInv
<1>10. cmd'.readCount + cmd'.writeCount = cmd.readCount + cmd.writeCount + n
  <2>1. /\ cmd'.readCount = IF request \in ReadRequests THEN cmd.readCount + n ELSE cmd.readCount
        /\ cmd'.writeCount = IF request \in WriteRequests THEN cmd.writeCount + n ELSE cmd.writeCount
    BY <1>2 DEF Add
  <2>2. request \in WriteRequests <=> request \notin ReadRequests
    BY RequestAssumption DEF Requests
  <2>. QED  BY <1>3, <1>4, <2>1, <2>2
<1>11. cmd'.blockAllowed
          => /\ cmd.blockAllowed /\ cmd'.blockRequest = request
             /\ \A i \in 1 .. Len(flat) : flat[i] = request
  <2>. SUFFICES ASSUME cmd'.blockAllowed
                PROVE  /\ cmd.blockAllowed /\ cmd'.blockRequest = request
                       /\ \A i \in 1 .. Len(flat) : flat[i] = request
    OBVIOUS
  <2>1. StaysBlock(cmd, request) /\ cmd'.blockRequest
            = IF cmd.blockRequest = NoRequest THEN request ELSE cmd.blockRequest
    BY <1>2 DEF Add
  <2>2. cmd.blockAllowed /\ cmd.blockRequest \in {NoRequest, request}
    BY <2>1 DEF StaysBlock
  <2>3. cmd.blockRequest = NoRequest => Len(flat) = 0
    BY <1>1, <1>9 DEF WellFormed
  <2>4. \A i \in 1 .. Len(flat) : flat[i] = cmd.blockRequest
    BY <2>2 DEF DecodeInv
  <2>5. \A i \in 1 .. Len(flat) : flat[i] = request
    BY <2>2, <2>3, <2>4
  <2>. QED  BY <2>1, <2>2, <2>5
<1>. HIDE DEF flat, more
<1>12. flat \o more \in Seq(Requests) /\ Len(flat \o more) = cmd'.readCount + cmd'.writeCount
  BY <1>3, <1>4, <1>9, <1>10
<1>13. (\A i \in 1 .. Len(flat) : flat[i] = request)
           => \A i \in 1 .. Len(flat \o more) : (flat \o more)[i] = request
  BY <1>4, <1>9
<1>. QED  BY <1>2, <1>7, <1>8, <1>11, <1>12, <1>13 DEF DecodeInv

\* The probe decodes exactly the accesses that were added, in their order,
\* whichever of the two commands carries them.
THEOREM PacketsDecode == Spec => []DecodedAsAdded
<1>1. Init => DecodeInv
  <2>. SUFFICES ASSUME Init PROVE DecodeInv
    OBVIOUS
  <2>1. PICK size \in PacketSizes : cmd = NewCommand(size)
    BY DEF Init
  <2>2. WellFormed(cmd) /\ cmd.readCount = 0 /\ cmd.writeCount = 0
    BY <2>1, NewCommandWellFormed, BuilderAssumption DEF NewCommand
  <2>3. FlattenSegments(data) = << >> /\ data = << >>
    BY FlattenNothing DEF Init
  <2>. QED  BY <2>2, <2>3 DEF DecodeInv
<1>2. DecodeInv /\ [Next]_vars => DecodeInv'
  <2>. SUFFICES ASSUME DecodeInv, [Next]_vars PROVE DecodeInv'
    OBVIOUS
  <2>1. ASSUME NEW count \in Counts, NEW request \in Requests, AddWords(count, request)
        PROVE  DecodeInv'
    BY <2>1, DecodeAdd
  <2>2. CASE SendPacket
    <3>1. WellFormed(cmd') /\ cmd'.readCount = 0 /\ cmd'.writeCount = 0
      BY <2>2, NewCommandWellFormed DEF SendPacket, DecodeInv, WellFormed, NewCommand
    <3>2. FlattenSegments(data') = << >> /\ data' = << >>
      BY <2>2, FlattenNothing DEF SendPacket
    <3>. QED  BY <3>1, <3>2 DEF DecodeInv
  <2>3. CASE UNCHANGED vars
    BY <2>3 DEF vars, DecodeInv
  <2>. QED  BY <2>1, <2>2, <2>3 DEF Next
<1>. QED  BY <1>1, <1>2, DecodeInvSuffices, PTL DEF Spec
=============================================================================
