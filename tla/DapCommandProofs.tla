-------------------------- MODULE DapCommandProofs --------------------------
(***************************************************************************)
(* Facts about the operators of DapCommand, for every packet size from 9   *)
(* bytes on and every number of words: what get_request_space may answer,  *)
(* and what adding that many words keeps true of a packet.                 *)
(***************************************************************************)
EXTENDS DapCommand, TLAPS

\* What _get_free_words and get_request_space keep true of a packet: the
\* two layouts have their own bounds, and a packet still allowed to be a
\* DAP_TransferBlock holds words of one request only.  Fits alone is not
\* inductive: it does not say that a block packet with reads has no writes.
WellFormed(c) ==
    /\ c \in Commands
    /\ ValidSize(c.size)
    /\ c.blockRequest = NoRequest => c.blockAllowed /\ c.readCount = 0 /\ c.writeCount = 0
    /\ c.blockAllowed /\ c.blockRequest \in ReadRequests
           => c.writeCount = 0 /\ 4 + 4 * c.readCount <= c.size
    /\ c.blockAllowed /\ c.blockRequest \in WriteRequests
           => c.readCount = 0 /\ 5 + 4 * c.writeCount <= c.size
    /\ ~c.blockAllowed
           => /\ 3 + c.readCount + 5 * c.writeCount <= c.size
              /\ 3 + 4 * c.readCount <= c.size
              /\ c.readCount + c.writeCount <= MaxTransferCount

\* A new packet is well formed.
LEMMA NewCommandWellFormed ==
    ASSUME NEW size, ValidSize(size)
    PROVE  WellFormed(NewCommand(size)) /\ NewCommand(size).size = size
  BY RequestAssumption DEF WellFormed, NewCommand, Commands, Requests, ValidSize

\* What the room offered is bounded by: the words asked for, the bytes the words
\* take in the packet and in its answer, and the count byte of DAP_Transfer.
LEMMA RequestSpaceBounds ==
    ASSUME NEW c \in Commands, NEW count \in Nat, NEW request
    PROVE  LET n == RequestSpace(c, count, request)
           IN  /\ n \in Nat /\ n <= count
               /\ n > 0 /\ StaysBlock(c, request) /\ request \in ReadRequests
                      => 4 * n + 4 + 4 * c.readCount <= c.size
               /\ n > 0 /\ StaysBlock(c, request) /\ request \notin ReadRequests
                      => 4 * n + 5 + 4 * c.writeCount <= c.size
               /\ n > 0 /\ ~StaysBlock(c, request) /\ request \in ReadRequests
                      => /\ n + 3 + c.readCount + 5 * c.writeCount <= c.size
                         /\ 4 * n + 3 + 4 * c.readCount <= c.size
               /\ n > 0 /\ ~StaysBlock(c, request) /\ request \notin ReadRequests
                      => 5 * n + 3 + c.readCount + 5 * c.writeCount <= c.size
               /\ n > 0 /\ ~StaysBlock(c, request)
                      => n + c.readCount + c.writeCount <= 255
<1> DEFINE n == RequestSpace(c, count, request)
           total == c.readCount + c.writeCount
<1>0. c.size \in Nat /\ c.readCount \in Nat /\ c.writeCount \in Nat /\ total \in Nat
  BY DEF Commands
<1>1. CASE StaysBlock(c, request) /\ request \in ReadRequests
  <2> DEFINE free == (c.size - 4 - 4 * c.readCount) \div 4
  <2>1. free \in Int /\ 4 * free <= c.size - 4 - 4 * c.readCount
    BY <1>0
  <2>2. n = Larger(Smaller(count, free), 0)
    BY <1>1 DEF RequestSpace, FreeWords, BlockFreeWords
  <2> HIDE DEF free, n
  <2>3. n \in Nat /\ n <= count /\ (n > 0 => n <= free)
    BY <2>1, <2>2 DEF Larger, Smaller
  <2>. QED  BY <1>0, <1>1, <2>1, <2>3 DEF n
<1>2. CASE StaysBlock(c, request) /\ request \notin ReadRequests
  <2> DEFINE free == (c.size - (5 + 4 * c.writeCount)) \div 4
  <2>1. free \in Int /\ 4 * free <= c.size - (5 + 4 * c.writeCount)
    BY <1>0
  <2>2. n = Larger(Smaller(count, free), 0)
    BY <1>2 DEF RequestSpace, FreeWords, BlockFreeWords, BlockLength
  <2> HIDE DEF free, n
  <2>3. n \in Nat /\ n <= count /\ (n > 0 => n <= free)
    BY <2>1, <2>2 DEF Larger, Smaller
  <2>. QED  BY <1>0, <1>2, <2>1, <2>3 DEF n
<1>3. CASE ~StaysBlock(c, request) /\ request \in ReadRequests
  <2> DEFINE send == c.size - (3 + c.readCount + 5 * c.writeCount)
             recv == (c.size - 3 - 4 * c.readCount) \div 4
  <2>1. send \in Int /\ recv \in Int /\ 4 * recv <= c.size - 3 - 4 * c.readCount
    BY <1>0
  <2>2. n = Larger(Smaller(Smaller(count, Smaller(send, recv)), 255 - total), 0)
    BY <1>3 DEF RequestSpace, FreeWords, TransferFreeWords, TransferLength, CapCount,
                MaxTransferCount
  <2>3. send = c.size - (3 + c.readCount + 5 * c.writeCount)
    OBVIOUS
  <2> HIDE DEF send, recv, n, total
  <2>4. n \in Nat /\ n <= count /\ (n > 0 => n <= send /\ n <= recv /\ n <= 255 - total)
    BY <1>0, <2>1, <2>2 DEF Larger, Smaller
  <2>. QED  BY <1>0, <1>3, <2>1, <2>3, <2>4 DEF n, total
<1>4. CASE ~StaysBlock(c, request) /\ request \notin ReadRequests
  <2> DEFINE free == (c.size - (3 + c.readCount + 5 * c.writeCount)) \div 5
  <2>1. free \in Int /\ 5 * free <= c.size - (3 + c.readCount + 5 * c.writeCount)
    BY <1>0
  <2>2. n = Larger(Smaller(Smaller(count, free), 255 - total), 0)
    BY <1>4 DEF RequestSpace, FreeWords, TransferFreeWords, TransferLength, CapCount,
                MaxTransferCount
  <2> HIDE DEF free, n, total
  <2>3. n \in Nat /\ n <= count /\ (n > 0 => n <= free /\ n <= 255 - total)
    BY <1>0, <2>1, <2>2 DEF Larger, Smaller
  <2>. QED  BY <1>0, <1>4, <2>1, <2>3 DEF n, total
<1>. QED  BY <1>1, <1>2, <1>3, <1>4

\* A new packet has room for a word of any access, so the loop of _write that
\* sends a packet without room never sends an empty one for ever.
THEOREM NewCommandHasRoom ==
    ASSUME NEW size, ValidSize(size), NEW count \in Nat \ {0}, NEW request \in Requests
    PROVE  RequestSpace(NewCommand(size), count, request) > 0
<1> DEFINE free == IF request \in ReadRequests THEN (size - 4) \div 4 ELSE (size - 5) \div 4
<1>1. size \in Nat /\ size >= 9
  BY DEF ValidSize
<1>2. free \in Int /\ free > 0
  BY <1>1
<1>3. RequestSpace(NewCommand(size), count, request) = Larger(Smaller(count, free), 0)
  BY <1>1 DEF RequestSpace, FreeWords, BlockFreeWords, BlockLength, StaysBlock, NewCommand
<1> HIDE DEF free
<1>. QED  BY <1>2, <1>3 DEF Larger, Smaller

\* Adding at most the words there is room for keeps a packet well formed.
LEMMA AddWellFormed ==
    ASSUME NEW c, WellFormed(c), NEW count \in Nat \ {0}, NEW request \in Requests,
           RequestSpace(c, count, request) > 0
    PROVE  LET n == RequestSpace(c, count, request)
           IN  WellFormed(Add(c, n, request)) /\ Add(c, n, request).size = c.size
<1> DEFINE n == RequestSpace(c, count, request)
           d == Add(c, n, request)
<1>0. c \in Commands /\ ValidSize(c.size)
  BY DEF WellFormed
<1>1. /\ n \in Nat /\ n > 0
      /\ StaysBlock(c, request) /\ request \in ReadRequests
             => 4 * n + 4 + 4 * c.readCount <= c.size
      /\ StaysBlock(c, request) /\ request \notin ReadRequests
             => 4 * n + 5 + 4 * c.writeCount <= c.size
      /\ ~StaysBlock(c, request) /\ request \in ReadRequests
             => /\ n + 3 + c.readCount + 5 * c.writeCount <= c.size
                /\ 4 * n + 3 + 4 * c.readCount <= c.size
      /\ ~StaysBlock(c, request) /\ request \notin ReadRequests
             => 5 * n + 3 + c.readCount + 5 * c.writeCount <= c.size
      /\ ~StaysBlock(c, request) => n + c.readCount + c.writeCount <= 255
  BY <1>0, RequestSpaceBounds
<1> HIDE DEF n
<1>2. /\ d.size = c.size
      /\ d.readCount = IF request \in ReadRequests THEN c.readCount + n ELSE c.readCount
      /\ d.writeCount = IF request \in WriteRequests THEN c.writeCount + n ELSE c.writeCount
      /\ d.blockAllowed <=> StaysBlock(c, request)
      /\ d.blockRequest = IF c.blockRequest = NoRequest THEN request ELSE c.blockRequest
  BY DEF Add
<1>3. request \in WriteRequests <=> request \notin ReadRequests
  BY RequestAssumption DEF Requests
<1>4. c.size \in Nat /\ c.readCount \in Nat /\ c.writeCount \in Nat
  BY <1>0 DEF Commands
<1>5. d \in Commands
  BY <1>0, <1>1, <1>4 DEF Add, Commands, StaysBlock
<1> HIDE DEF d
<1>6. ASSUME StaysBlock(c, request) PROVE WellFormed(d)
  <2>1. d.blockRequest = request
    BY <1>2, <1>6 DEF StaysBlock
  <2>2. request \in ReadRequests => c.writeCount = 0
    BY <1>6 DEF StaysBlock, WellFormed
  <2>3. request \in WriteRequests => c.readCount = 0
    BY <1>6 DEF StaysBlock, WellFormed
  <2>4. d.blockRequest # NoRequest
    BY <2>1, RequestAssumption DEF Requests
  <2>5. request \in ReadRequests => d.writeCount = 0 /\ 4 + 4 * d.readCount <= d.size
    BY <1>1, <1>2, <1>3, <1>4, <1>6, <2>2
  <2>6. request \in WriteRequests => d.readCount = 0 /\ 5 + 4 * d.writeCount <= d.size
    BY <1>1, <1>2, <1>3, <1>4, <1>6, <2>3
  <2>. QED  BY <1>0, <1>2, <1>5, <1>6, <2>1, <2>4, <2>5, <2>6 DEF WellFormed
<1>7. ASSUME ~StaysBlock(c, request) PROVE WellFormed(d)
  <2>1. d.blockRequest = c.blockRequest /\ c.blockRequest # NoRequest
    BY <1>2, <1>7 DEF StaysBlock, WellFormed
  <2>2. 3 + 4 * c.readCount <= c.size
    BY <1>0, <1>4, <2>1, RequestAssumption DEF WellFormed, Commands, Requests, ValidSize
  <2>3. /\ 3 + d.readCount + 5 * d.writeCount <= d.size
        /\ 3 + 4 * d.readCount <= d.size
        /\ d.readCount + d.writeCount <= MaxTransferCount
    BY <1>1, <1>2, <1>3, <1>4, <1>7, <2>2 DEF MaxTransferCount
  <2>. QED  BY <1>0, <1>2, <1>5, <1>7, <2>1, <2>3 DEF WellFormed
<1>. QED  BY <1>2, <1>6, <1>7 DEF n, d
=============================================================================
