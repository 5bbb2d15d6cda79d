---------------------------- MODULE CommanderProofs ----------------------------
(***************************************************************************)
(* For any target, any number of commands and of failing accesses, and any *)
(* lengths of blocks: a command lets a halted core run only where it was   *)
(* told to, leaves the core as it is to leave it, and prints, saves or     *)
(* loads the items of its range.                                           *)
(*                                                                         *)
(* Each of the three speaks of one step of a command, and is so because of *)
(* the steps before it.  The invariants speak of the list of steps left:   *)
(* which of them are still ahead, and what follows what.                   *)
(***************************************************************************)
EXTENDS Commander, SequenceTheorems, TLAPS

-----------------------------------------------------------------------------
(* Lists of steps *)

Lacks(s, S) == \A i \in 1 .. Len(s) : s[i] \notin S

(* Every access that may let the core run again has its look at the core   *)
(* before it, or what that look saw is known already.                      *)
Led(s, known) ==
    \A i \in 1 .. Len(s) : s[i] = "go_back" =>
        \/ known /\ \A k \in 1 .. i - 1 : s[k] # "go_back"
        \/ \E j \in 1 .. i - 1 : s[j] = "look" /\ \A k \in j + 1 .. i - 1 : s[k] # "go_back"

\* What a step makes of the list: it is done, or it stands for a halt first.
Shortens(t, s) ==
    /\ Len(t) = Len(s) - 1
    /\ \A i \in 1 .. Len(t) : t[i] = s[i + 1] \/ (s[i + 1] = "restore_demcr" /\ t[i] = "write_word")

Delays(t, s) ==
    /\ Len(t) = Len(s)
    /\ t[1] = "halt"
    /\ \A i \in 2 .. Len(s) : t[i] = s[i]

LEMMA Bounds ==
    ASSUME NEW T, NEW s \in Seq(T), s # << >>
    PROVE  Len(s) \in Nat /\ Len(s) >= 1 /\ Head(s) = s[1] /\ s[1] \in T
  <1>1. Len(s) \in Nat \ {0}
    BY EmptySeq
  <1>2. 1 \in 1 .. Len(s)
    BY <1>1
  <1>3. s[1] \in T
    BY <1>2, ElementOfSeq
  <1> QED
    BY <1>1, <1>3

LEMMA TailShortens ==
    ASSUME NEW T, NEW s \in Seq(T), s # << >>
    PROVE  Tail(s) \in Seq(T) /\ Shortens(Tail(s), s)
  BY HeadTailProperties DEF Shortens

LEMMA HaltDelays ==
    ASSUME NEW T, "halt" \in T, NEW s \in Seq(T), s # << >>
    PROVE  << "halt" >> \o Tail(s) \in Seq(T) /\ Delays(<< "halt" >> \o Tail(s), s)
  <1> DEFINE one == << "halt" >>
  <1>1. one \in Seq(T) /\ Len(one) = 1 /\ one[1] = "halt"
    OBVIOUS
  <1>2. /\ Tail(s) \in Seq(T) /\ Len(Tail(s)) = Len(s) - 1 /\ Len(s) \in Nat /\ Len(s) >= 1
        /\ \A i \in 1 .. Len(Tail(s)) : Tail(s)[i] = s[i + 1]
    BY HeadTailProperties, Bounds
  <1> HIDE DEF one
  <1>3. /\ one \o Tail(s) \in Seq(T) /\ Len(one \o Tail(s)) = Len(s)
        /\ \A i \in 1 .. Len(s) : (one \o Tail(s))[i] = IF i <= 1 THEN one[i] ELSE Tail(s)[i - 1]
    <2>1. Len(one) + Len(Tail(s)) = Len(s)
      BY <1>1, <1>2
    <2>2. /\ one \o Tail(s) \in Seq(T) /\ Len(one \o Tail(s)) = Len(one) + Len(Tail(s))
          /\ \A i \in 1 .. Len(one) + Len(Tail(s)) :
               (one \o Tail(s))[i] = IF i <= Len(one) THEN one[i] ELSE Tail(s)[i - Len(one)]
      <3>1. one \in Seq(T) /\ Tail(s) \in Seq(T)
        BY <1>1, <1>2
      <3> QED
        BY <3>1, ConcatProperties
    <2> QED
      BY <1>1, <2>1, <2>2
  <1>4. (one \o Tail(s))[1] = "halt"
    BY <1>1, <1>2, <1>3
  <1>5. ASSUME NEW i \in 2 .. Len(s) PROVE (one \o Tail(s))[i] = s[i]
    <2>1. i \in 1 .. Len(s) /\ ~(i <= 1) /\ i - 1 \in 1 .. Len(Tail(s)) /\ (i - 1) + 1 = i
      BY <1>2
    <2> QED
      BY <1>2, <1>3, <2>1
  <1> QED
    BY <1>3, <1>4, <1>5 DEF Delays, one

LEMMA LacksEmpty == ASSUME NEW T, NEW S PROVE << >> \in Seq(T) /\ Lacks(<< >>, S)
  BY EmptySeq DEF Lacks

LEMMA LacksShortens ==
    ASSUME NEW T, NEW S, NEW s \in Seq(T), NEW t \in Seq(T), Shortens(t, s), "write_word" \notin S, Lacks(s, S)
    PROVE  Lacks(t, S)
  <1>1. Len(s) \in Nat /\ Len(t) \in Nat
    BY LenProperties
  <1> QED
    BY <1>1 DEF Shortens, Lacks

LEMMA LacksDelays ==
    ASSUME NEW T, NEW S, NEW s \in Seq(T), NEW t \in Seq(T), Delays(t, s), "halt" \notin S, Lacks(s, S)
    PROVE  Lacks(t, S)
  <1>1. Len(s) \in Nat /\ Len(t) \in Nat
    BY LenProperties
  <1> QED
    BY <1>1 DEF Delays, Lacks

LEMMA LacksJoined ==
    ASSUME NEW T, NEW S, NEW s \in Seq(T), NEW t \in Seq(T), Lacks(s, S), Lacks(t, S)
    PROVE  Lacks(s \o t, S)
  <1>1. /\ Len(s \o t) = Len(s) + Len(t) /\ Len(s) \in Nat /\ Len(t) \in Nat
        /\ \A i \in 1 .. Len(s) + Len(t) : (s \o t)[i] = IF i <= Len(s) THEN s[i] ELSE t[i - Len(s)]
    BY ConcatProperties, LenProperties
  <1> QED
    BY <1>1 DEF Lacks

LEMMA LedEmpty == ASSUME NEW known PROVE Led(<< >>, known)
  BY DEF Led

\* A step other than the two of halt_required leaves what is known as it was.
LEMMA LedShortens ==
    ASSUME NEW T, NEW s \in Seq(T), s # << >>, NEW t \in Seq(T), Shortens(t, s),
           NEW known \in BOOLEAN, Led(s, known)
    PROVE  /\ Head(s) = "look" => Led(t, TRUE)
           /\ Head(s) = "go_back" => known /\ Led(t, FALSE)
           /\ Head(s) \notin {"look", "go_back"} => Led(t, known)
  <1>1. /\ Len(s) \in Nat /\ Len(t) \in Nat /\ Len(t) = Len(s) - 1 /\ Head(s) = s[1] /\ Len(s) >= 1
        /\ \A i \in 1 .. Len(t) : (t[i] = "go_back" <=> s[i + 1] = "go_back") /\ (t[i] = "look" <=> s[i + 1] = "look")
    BY LenProperties, Bounds DEF Shortens
  <1>2. ASSUME NEW i \in 1 .. Len(t), t[i] = "go_back"
        PROVE  \/ Head(s) # "go_back" /\ (known \/ Head(s) = "look") /\ \A k \in 1 .. i - 1 : t[k] # "go_back"
               \/ \E j \in 1 .. i - 1 : t[j] = "look" /\ \A k \in j + 1 .. i - 1 : t[k] # "go_back"
    <2>1. s[i + 1] = "go_back" /\ i + 1 \in 1 .. Len(s) /\ (i + 1) - 1 = i
      BY <1>1, <1>2
    <2>2. CASE known /\ \A k \in 1 .. i : s[k] # "go_back"
      BY <1>1, <2>2
    <2>3. ASSUME NEW j \in 1 .. i, s[j] = "look", \A k \in j + 1 .. i : s[k] # "go_back"
          PROVE  \/ Head(s) = "look" /\ \A k \in 1 .. i - 1 : t[k] # "go_back"
                 \/ \E m \in 1 .. i - 1 : t[m] = "look" /\ \A k \in m + 1 .. i - 1 : t[k] # "go_back"
      <3>1. CASE j = 1
        BY <1>1, <2>3, <3>1
      <3>2. CASE j # 1
        <4>1. j - 1 \in 1 .. i - 1 /\ j - 1 \in 1 .. Len(t) /\ (j - 1) + 1 = j
          BY <1>1, <3>2
        <4>2. t[j - 1] = "look"
          BY <1>1, <2>3, <4>1
        <4>3. \A k \in (j - 1) + 1 .. i - 1 : k \in 1 .. Len(t) /\ k + 1 \in j + 1 .. i
          BY <1>1, <4>1
        <4> QED
          BY <1>1, <2>3, <4>1, <4>2, <4>3
      <3> QED
        BY <3>1, <3>2
    <2> QED
      BY <2>1, <2>2, <2>3 DEF Led
  <1>3. Head(s) = "go_back" => known
    BY <1>1 DEF Led
  <1> QED
    BY <1>2, <1>3 DEF Led

LEMMA LedMore == ASSUME NEW s, NEW known, Led(s, FALSE) PROVE Led(s, known)
  BY DEF Led

LEMMA LedJoined ==
    ASSUME NEW T, NEW s \in Seq(T), NEW t \in Seq(T), Led(s, FALSE), Led(t, FALSE)
    PROVE  Led(s \o t, FALSE)
  <1>1. /\ Len(s \o t) = Len(s) + Len(t) /\ Len(s) \in Nat /\ Len(t) \in Nat
        /\ \A i \in 1 .. Len(s) + Len(t) : (s \o t)[i] = IF i <= Len(s) THEN s[i] ELSE t[i - Len(s)]
    BY ConcatProperties, LenProperties
  <1>2. ASSUME NEW i \in 1 .. Len(s) + Len(t), (s \o t)[i] = "go_back"
        PROVE  \E j \in 1 .. i - 1 : (s \o t)[j] = "look" /\ \A k \in j + 1 .. i - 1 : (s \o t)[k] # "go_back"
    <2>1. CASE i <= Len(s)
      <3>1. i \in 1 .. Len(s) /\ s[i] = "go_back"
        BY <1>1, <1>2, <2>1
      <3>2. PICK j \in 1 .. i - 1 : s[j] = "look" /\ \A k \in j + 1 .. i - 1 : s[k] # "go_back"
        BY <3>1 DEF Led
      <3> QED
        BY <1>1, <3>1, <3>2
    <2>2. CASE i > Len(s)
      <3>1. i - Len(s) \in 1 .. Len(t) /\ t[i - Len(s)] = "go_back"
        BY <1>1, <1>2, <2>2
      <3>2. PICK j \in 1 .. (i - Len(s)) - 1 : t[j] = "look" /\ \A k \in j + 1 .. (i - Len(s)) - 1 : t[k] # "go_back"
        BY <3>1 DEF Led
      <3>3. Len(s) + j \in 1 .. i - 1 /\ (s \o t)[Len(s) + j] = "look"
        BY <1>1, <3>1, <3>2
      <3>4. \A k \in (Len(s) + j) + 1 .. i - 1 :
              k - Len(s) \in j + 1 .. (i - Len(s)) - 1 /\ k \in 1 .. Len(s) + Len(t) /\ ~(k <= Len(s))
        BY <1>1, <3>1
      <3> QED
        BY <1>1, <3>2, <3>3, <3>4
    <2> QED
      BY <1>1, <2>1, <2>2
  <1> QED
    BY <1>1, <1>2 DEF Led

-----------------------------------------------------------------------------
(* The steps of a command *)

Replies == {"running", "halted", "value", "data", "none"}

StateOK ==
    /\ chip \in Chips /\ core \in {"running", "halted"} /\ catch \in BOOLEAN
    /\ xlk \in {"none", "daplink", "jlink", "openocd"} /\ linkMode \in Modes \cup {"none"}
    /\ (xlk = "none") = (linkMode = "none")
    /\ alive \in BOOLEAN /\ wasHalted \in BOOLEAN /\ mixed \in BOOLEAN /\ ran \in BOOLEAN
    /\ late \in Seq(Replies) /\ Len(late) <= MaxLate
    /\ todo \in Seq(Steps) /\ faults \in 0 .. MaxFaults
    /\ owed \in {"running", "halted", "none"} /\ mode \in Modes /\ stored \in Modes

\* The steps after which the list may be the same: they wait, or move another chunk.
Repeated == {"await_halted", "read", "write"}

LEMMA AnswerType == ASSUME StateOK PROVE Answer \in Replies
  BY DEF StateOK, Answer, Replies

LEMMA StepsKnown == {"halt", "write_word"} \subseteq Steps /\ Connects \subseteq Steps
  BY DEF Steps, Accesses

LEMMA TailType == ASSUME StateOK, todo # << >> PROVE Tail(todo) \in Seq(Steps) /\ Shortens(Tail(todo), todo)
  BY TailShortens DEF StateOK

LEMMA EmptyType == << >> \in Seq(Steps)
  BY EmptySeq

Evolves ==
    \/ todo' = << >> /\ (Head(todo) = "is_halted" \/ owed' = "none")
    \/ todo' = todo /\ Head(todo) \in Repeated
    \/ Shortens(todo', todo)
    \/ Head(todo) = "look" /\ Delays(todo', todo)

LEMMA ProceedsList ==
    ASSUME StateOK, todo # << >>, NEW reply, Proceeds(reply)
    PROVE  todo' \in Seq(Steps) /\ Evolves
  <1>1. Tail(todo) \in Seq(Steps) /\ Shortens(Tail(todo), todo) /\ todo \in Seq(Steps) /\ << >> \in Seq(Steps)
    BY TailType, EmptyType DEF StateOK
  <1>2. << "halt" >> \o Tail(todo) \in Seq(Steps) /\ Delays(<< "halt" >> \o Tail(todo), todo)
    BY <1>1, HaltDelays, StepsKnown
  <1>3. CASE At("read_demcr")
    <2>1. todo' = [i \in 1 .. Len(todo) - 1 |->
                     IF catch /\ todo[i + 1] = "restore_demcr" THEN "write_word" ELSE todo[i + 1]]
      BY <1>3 DEF Proceeds, At
    <2>2. Len(todo) \in Nat /\ Len(todo) - 1 \in Nat
      BY Bounds DEF StateOK
    <2>3. \A i \in 1 .. Len(todo) - 1 : i + 1 \in 1 .. Len(todo) /\ todo[i + 1] \in Steps
      BY <2>2, ElementOfSeq DEF StateOK
    <2>4. todo' \in [1 .. Len(todo) - 1 -> Steps]
      BY <2>1, <2>3, StepsKnown
    <2>5. todo' \in Seq(Steps)
      BY <2>2, <2>4, SeqDef
    <2>6. Len(todo') = Len(todo) - 1
      BY <2>1, <2>2, <2>5, LenProperties
    <2>7. \A i \in 1 .. Len(todo') : todo'[i] = todo[i + 1] \/ (todo[i + 1] = "restore_demcr" /\ todo'[i] = "write_word")
      BY <2>1, <2>6
    <2> QED
      BY <2>5, <2>6, <2>7 DEF Evolves, Shortens
  <1>4. CASE ~At("read_demcr")
    <2>1. \/ todo' = Tail(todo) \/ (At("is_halted") /\ todo' = << >>)
          \/ At("look") /\ todo' = << "halt" >> \o Tail(todo)
          \/ todo' = todo /\ (At("await_halted") \/ At("read") \/ At("write"))
      BY <1>4 DEF Proceeds
    <2> QED
      BY <1>1, <1>2, <2>1 DEF Evolves, At, Repeated
  <1> QED
    BY <1>3, <1>4

LEMMA LinkList ==
    ASSUME StateOK, LinkStep
    PROVE  todo # << >> /\ todo' \in Seq(Steps) /\ Evolves
  <1>1. todo # << >>
    BY DEF LinkStep, DapLinkAccess, JLinkAccess, OpenOcdAccess, Report, Fail, Pass, InAccess, At
  <1>2. ASSUME NEW left, Raises(left) PROVE todo' \in Seq(Steps) /\ Evolves
    BY <1>2, EmptyType DEF Raises, Over, Evolves
  <1>3. ASSUME todo' = Tail(todo) PROVE todo' \in Seq(Steps) /\ Evolves
    BY <1>1, <1>3, TailType DEF Evolves
  <1>4. CASE DapLinkAccess
    BY <1>1, <1>4, ProceedsList DEF DapLinkAccess
  <1>5. CASE JLinkAccess
    BY <1>1, <1>2, <1>5, ProceedsList DEF JLinkAccess
  <1>6. CASE OpenOcdAccess
    BY <1>1, <1>2, <1>6, ProceedsList DEF OpenOcdAccess
  <1>7. CASE Report
    BY <1>3, <1>7 DEF Report
  <1>8. CASE Fail
    <2>1. todo' = << >> /\ owed' = "none"
      BY <1>8 DEF Fail, Raises, Over
    <2>2. todo' \in Seq(Steps)
      BY <2>1, EmptyType
    <2> QED
      BY <1>1, <2>1, <2>2 DEF Evolves
  <1>9. CASE Pass
    BY <1>3, <1>9 DEF Pass
  <1> QED
    BY <1>4, <1>5, <1>6, <1>7, <1>8, <1>9 DEF LinkStep
LEMMA TakesTypes == ASSUME StateOK, Takes PROVE chip' \in Chips /\ core' \in {"running", "halted"} /\ catch' \in BOOLEAN
  BY DEF StateOK, Takes, AfterReset

LEMMA NotesType == ASSUME StateOK, NEW reply, Notes(reply) PROVE wasHalted' \in BOOLEAN
  BY DEF Notes

LEMMA RaisesTypes ==
    ASSUME StateOK, NEW left \in Seq(Replies), Len(left) <= MaxLate, Raises(left), UNCHANGED settings,
           chip' \in Chips, core' \in {"running", "halted"}, catch' \in BOOLEAN
    PROVE  StateOK'
  <1>1. << >> \in Seq(Replies) /\ Len(<< >>) = 0
    BY EmptySeq
  <1>2. late' \in Seq(Replies) /\ Len(late') <= MaxLate
    <2>1. CASE InCheck
      <3>1. late' = << >>
        BY <2>1 DEF Raises, Drop
      <3> QED
        BY <1>1, <3>1, XLinkAssumption
    <2>2. CASE ~InCheck
      <3>1. late' = left
        BY <2>2 DEF Raises
      <3> QED
        BY <3>1
    <2> QED
      BY <2>1, <2>2
  <1>3. /\ todo' \in Seq(Steps) /\ wasHalted' \in BOOLEAN /\ ran' \in BOOLEAN /\ faults' \in 0 .. MaxFaults
    <2>1. todo' = << >> /\ wasHalted' = FALSE /\ ran' = FALSE /\ faults' = 0
      BY DEF Raises, Over
    <2>2. 0 \in 0 .. MaxFaults
      BY XLinkAssumption
    <2> QED
      BY <2>1, <2>2, EmptyType
  <1>4. owed' \in {"running", "halted", "none"} /\ mode' \in Modes /\ stored' \in Modes
    BY DEF Raises, StateOK, settings
  <1>5. /\ xlk' \in {"none", "daplink", "jlink", "openocd"} /\ linkMode' \in Modes \cup {"none"}
        /\ (xlk' = "none") = (linkMode' = "none")
        /\ alive' \in BOOLEAN /\ mixed' \in BOOLEAN
    BY DEF Raises, Drop, StateOK
  <1> QED
    BY <1>2, <1>3, <1>4, <1>5 DEF StateOK

LEMMA RememberTypes ==
    ASSUME StateOK, NEW failed \in BOOLEAN, NEW mixing \in BOOLEAN, Remember(failed, mixing)
    PROVE  /\ mixed' \in BOOLEAN /\ ran' \in BOOLEAN /\ owed' \in {"running", "halted", "none"}
           /\ faults' \in 0 .. MaxFaults
  <1>1. mixed' \in BOOLEAN /\ owed' \in {"running", "halted", "none"}
    BY DEF StateOK, Remember
  <1>2. ran' \in BOOLEAN
    BY DEF StateOK, Remember
  <1>3. faults' \in 0 .. MaxFaults
    BY XLinkAssumption DEF StateOK, Remember, Lesser
  <1> QED
    BY <1>1, <1>2, <1>3

LEMMA Remaining ==
    ASSUME NEW m \in Nat, NEW k \in Nat, k <= m
    PROVE  (IF k + 1 <= m THEN m - (k + 1) + 1 ELSE 0) = m - k
  OBVIOUS

LEMMA Cut ==
    ASSUME NEW T, NEW s \in Seq(T), NEW n \in 0 .. Len(s)
    PROVE  /\ SubSeq(s, 1, n) \in Seq(T) /\ Len(SubSeq(s, 1, n)) = n
           /\ \A i \in 1 .. n : SubSeq(s, 1, n)[i] = s[i]
           /\ SubSeq(s, n + 1, Len(s)) \in Seq(T) /\ Len(SubSeq(s, n + 1, Len(s))) = Len(s) - n
  <1>1. /\ Len(s) \in Nat /\ n \in Nat /\ n <= Len(s) /\ 1 \in Int /\ n \in Int /\ n + 1 \in Int /\ Len(s) \in Int
        /\ n - 1 + 1 = n /\ Len(s) - (n + 1) + 1 = Len(s) - n
    BY LenProperties
  <1>2. \A i \in 1 .. Len(s) : s[i] \in T
    BY ElementOfSeq
  <1>3. \A i \in 1 .. n : s[i] \in T
    BY <1>1, <1>2
  <1>4. \A i \in n + 1 .. Len(s) : s[i] \in T
    BY <1>1, <1>2
  <1>5. /\ SubSeq(s, 1, n) \in Seq(T) /\ Len(SubSeq(s, 1, n)) = IF 1 <= n THEN n - 1 + 1 ELSE 0
        /\ \A i \in 1 .. n - 1 + 1 : SubSeq(s, 1, n)[i] = s[1 + i - 1]
    BY <1>1, <1>3, SubSeqProperties
  <1>6. /\ SubSeq(s, n + 1, Len(s)) \in Seq(T)
        /\ Len(SubSeq(s, n + 1, Len(s))) = IF n + 1 <= Len(s) THEN Len(s) - (n + 1) + 1 ELSE 0
    BY <1>1, <1>4, SubSeqProperties
  <1>7. ASSUME NEW i \in 1 .. n PROVE SubSeq(s, 1, n)[i] = s[i]
    <2>1. i \in 1 .. n - 1 + 1 /\ 1 + i - 1 = i
      BY <1>1
    <2>2. SubSeq(s, 1, n)[i] = s[1 + i - 1]
      BY <1>5, <2>1
    <2> QED
      BY <2>1, <2>2
  <1>8. Len(SubSeq(s, 1, n)) = n
    BY <1>1, <1>5
  <1>9. Len(SubSeq(s, n + 1, Len(s))) = Len(s) - n
    BY <1>1, <1>6, Remaining
  <1> QED
    BY <1>5, <1>6, <1>7, <1>8, <1>9

\* The answers that have come, and those left on their way.
LEMMA Received ==
    ASSUME StateOK, NEW answer \in Replies, NEW came \in 1 .. Len(late) + 1
    PROVE  LET coming == Append(late, answer)
               reply == SubSeq(coming, 1, came)
               left == SubSeq(coming, came + 1, Len(coming))
           IN  /\ left \in Seq(Replies) /\ Len(left) <= MaxLate
               /\ reply \in Seq(Replies) /\ Len(reply) = came
               /\ late = << >> => reply = << answer >>
  <1> DEFINE coming == Append(late, answer)
             reply == SubSeq(coming, 1, came)
             left == SubSeq(coming, came + 1, Len(coming))
  <1>1. late \in Seq(Replies) /\ Len(late) <= MaxLate
    BY DEF StateOK
  <1>2. coming \in Seq(Replies) /\ Len(coming) = Len(late) + 1 /\ coming[Len(late) + 1] = answer /\ Len(late) \in Nat
    BY <1>1, AppendProperties, LenProperties
  <1> HIDE DEF coming
  <1>3. came \in 0 .. Len(coming) /\ came >= 1
    BY <1>2
  <1>4. /\ reply \in Seq(Replies) /\ Len(reply) = came
        /\ \A i \in 1 .. came : reply[i] = coming[i]
        /\ left \in Seq(Replies) /\ Len(left) = Len(coming) - came
    BY <1>2, <1>3, Cut
  <1> HIDE DEF reply, left
  <1>5. Len(left) <= MaxLate
    BY <1>1, <1>2, <1>3, <1>4, XLinkAssumption
  <1>6. ASSUME late = << >> PROVE reply = << answer >>
    <2>1. Len(late) = 0 /\ came = 1
      BY <1>2, <1>3, <1>6, EmptySeq
    <2>2. reply[1] = answer /\ Len(reply) = 1
      BY <1>2, <1>4, <2>1
    <2>3. << answer >> \in Seq(Replies) /\ Len(<< answer >>) = 1 /\ << answer >>[1] = answer
      OBVIOUS
    <2>4. \A i \in 1 .. Len(reply) : reply[i] = << answer >>[i]
      BY <2>2, <2>3
    <2> QED
      BY <1>4, <2>2, <2>3, <2>4, SeqEqual
  <1> QED
    BY <1>4, <1>5, <1>6 DEF reply, left, coming

LEMMA LinkTypes ==
    ASSUME StateOK, LinkStep, UNCHANGED settings
    PROVE  StateOK'
  <1>1. todo # << >> /\ todo' \in Seq(Steps)
    BY LinkList
  <1>2. Answer \in Replies /\ "none" \in Replies
    BY AnswerType DEF Replies
  <1>3. mode' \in Modes /\ stored' \in Modes
    BY DEF StateOK, settings
  <1>4. ASSUME NEW failed \in BOOLEAN, NEW mixing \in BOOLEAN, Remember(failed, mixing),
               chip' \in Chips, core' \in {"running", "halted"}, catch' \in BOOLEAN, wasHalted' \in BOOLEAN,
               UNCHANGED << xlk, linkMode, alive >>, late' \in Seq(Replies), Len(late') <= MaxLate
        PROVE  StateOK'
    BY <1>1, <1>3, <1>4, RememberTypes DEF StateOK
  <1>5. << >> \in Seq(Replies) /\ Len(<< >>) <= MaxLate /\ late \in Seq(Replies) /\ Len(late) <= MaxLate
    BY EmptySeq, XLinkAssumption DEF StateOK
  <1>6. ASSUME UNCHANGED target PROVE chip' \in Chips /\ core' \in {"running", "halted"} /\ catch' \in BOOLEAN
    BY <1>6 DEF target, StateOK
  <1>7. ASSUME UNCHANGED link
        PROVE  UNCHANGED << xlk, linkMode, alive >> /\ late' \in Seq(Replies) /\ Len(late') <= MaxLate
    BY <1>5, <1>7 DEF link
  <1>8. CASE DapLinkAccess
    <2>1. Takes /\ Notes(<< Answer >>) /\ Remember(FALSE, FALSE) /\ UNCHANGED link
      BY <1>8 DEF DapLinkAccess, Proceeds
    <2> QED
      BY <1>4, <1>7, <2>1, TakesTypes, NotesType
  <1>9. CASE JLinkAccess
    <2>1. chip' \in Chips /\ core' \in {"running", "halted"} /\ catch' \in BOOLEAN
      BY <1>6, <1>9, TakesTypes DEF JLinkAccess
    <2>2. CASE Raises(<< >>)
      BY <1>5, <2>1, <2>2, RaisesTypes
    <2>3. ASSUME NEW reply, Proceeds(reply), Remember(~Reaches, FALSE), UNCHANGED link PROVE StateOK'
      <3>1. Notes(reply) /\ (~Reaches) \in BOOLEAN
        BY <2>3 DEF Proceeds
      <3> QED
        BY <1>4, <1>7, <2>1, <2>3, <3>1, NotesType
    <2> QED
      BY <1>9, <2>2, <2>3 DEF JLinkAccess
  <1>10. CASE OpenOcdAccess
    <2>1. PICK obeyed \in BOOLEAN, came \in 1 .. Len(late) + 1 :
            LET coming == Append(late, IF obeyed THEN Answer ELSE "none")
                reply == SubSeq(coming, 1, came)
                left == SubSeq(coming, came + 1, Len(coming))
            IN  /\ ~obeyed => faults < MaxFaults /\ Head(todo) \notin Asks
                /\ IF obeyed THEN Takes ELSE UNCHANGED target
                /\ IF Understood(reply)
                   THEN /\ Proceeds(reply) /\ Remember(~obeyed, late # << >>)
                        /\ late' = left /\ UNCHANGED << xlk, linkMode, alive >>
                   ELSE Raises(left)
      BY <1>10 DEF OpenOcdAccess
    <2> DEFINE coming == Append(late, IF obeyed THEN Answer ELSE "none")
               reply == SubSeq(coming, 1, came)
               left == SubSeq(coming, came + 1, Len(coming))
    <2>2. left \in Seq(Replies) /\ Len(left) <= MaxLate
      <3>1. (IF obeyed THEN Answer ELSE "none") \in Replies
        BY <1>2
      <3> QED
        BY <3>1, Received
    <2>3. chip' \in Chips /\ core' \in {"running", "halted"} /\ catch' \in BOOLEAN
      BY <1>6, <2>1, TakesTypes
    <2>4. CASE Raises(left)
      <3> HIDE DEF left
      <3> QED
        BY <2>2, <2>3, <2>4, RaisesTypes
    <2>5. CASE Proceeds(reply) /\ Remember(~obeyed, late # << >>) /\ late' = left /\ UNCHANGED << xlk, linkMode, alive >>
      <3>1. wasHalted' \in BOOLEAN
        BY <2>5, NotesType DEF Proceeds
      <3>2. (~obeyed) \in BOOLEAN /\ (late # << >>) \in BOOLEAN
        OBVIOUS
      <3> HIDE DEF left
      <3> QED
        BY <1>4, <2>2, <2>3, <2>5, <3>1, <3>2
    <2> QED
      BY <2>1, <2>4, <2>5
  <1>11. CASE Report
    <2>1. UNCHANGED target /\ UNCHANGED link /\ UNCHANGED wasHalted /\ Remember(FALSE, FALSE)
      BY <1>11 DEF Report
    <2> QED
      BY <1>4, <1>6, <1>7, <2>1 DEF StateOK
  <1>12. CASE Fail
    <2>1. Raises(late) /\ UNCHANGED target
      BY <1>12 DEF Fail
    <2> QED
      BY <1>5, <1>6, <2>1, RaisesTypes
  <1>13. CASE Pass
    <2>1. UNCHANGED target /\ UNCHANGED link /\ wasHalted' = (wasHalted /\ ~At("go_back")) /\ Remember(FALSE, FALSE)
      BY <1>13 DEF Pass
    <2>2. wasHalted' \in BOOLEAN
      BY <2>1
    <2> QED
      BY <1>4, <1>6, <1>7, <2>1, <2>2
  <1> QED
    BY <1>8, <1>9, <1>10, <1>11, <1>12, <1>13 DEF LinkStep
-----------------------------------------------------------------------------
(* What a link answers *)

LEMMA OneReply ==
    ASSUME NEW x
    PROVE  "halted" \in ToSet(<< x >>) <=> x = "halted"
  <1>1. DOMAIN << x >> = {1} /\ << x >>[1] = x
    OBVIOUS
  <1> QED
    BY <1>1 DEF ToSet

(* An access that goes on: what is wrong with its answer is either that it *)
(* is another's or that the access failed, and no link tells of a halted   *)
(* core that it runs.                                                      *)
Answered(reply, failed, mixing) ==
    /\ Understood(reply) /\ Proceeds(reply) /\ Remember(failed, mixing)
    /\ Takes \/ UNCHANGED target
    /\ ~mixing /\ ~failed => Takes /\ reply = << Answer >>
    /\ ~mixing /\ Head(todo) \in Asks /\ core = "halted" => "halted" \in ToSet(reply)
    /\ At("read") /\ reply # << "data" >> => mixing \/ (failed /\ faults < MaxFaults)

LEMMA Access ==
    ASSUME StateOK, DapLinkAccess \/ JLinkAccess \/ OpenOcdAccess, todo' # << >> \/ owed' # "none"
    PROVE  /\ Head(todo) \in Accesses /\ (At("go_back") => ~wasHalted)
           /\ UNCHANGED << xlk, linkMode, alive >>
           /\ \E reply \in Seq(Replies), failed \in BOOLEAN, mixing \in BOOLEAN : Answered(reply, failed, mixing)
  <1>1. Answer \in Replies /\ {"none", "halted", "value", "data"} \subseteq Replies
    BY AnswerType DEF Replies
  <1>2. \A x \in Replies : << x >> \in Seq(Replies)
    OBVIOUS
  <1>3. todo # << >> /\ Head(todo) \in Accesses /\ (At("go_back") => ~wasHalted)
    BY DEF DapLinkAccess, JLinkAccess, OpenOcdAccess, InAccess, GoesBack
  <1>4. \A left : ~Raises(left)
    BY DEF Raises, Over
  <1>5. Head(todo) \in Asks /\ core = "halted" => "halted" \in ToSet(<< Answer >>)
    <2>1. Head(todo) \in Asks => Answer = core
      BY DEF Answer, Asks, Registers, Words, At
    <2> QED
      BY <2>1, OneReply
  <1>6. At("read") => Answer = "data"
    BY DEF At, Answer, Asks, Registers, Words
  <1>7. CASE DapLinkAccess
    <2>1. UNCHANGED << xlk, linkMode, alive >>
      BY <1>7 DEF DapLinkAccess, link
    <2>2. Answered(<< Answer >>, FALSE, FALSE)
      BY <1>5, <1>6, <1>7 DEF DapLinkAccess, Answered
    <2> QED
      BY <1>1, <1>2, <1>3, <2>1, <2>2
  <1>8. CASE JLinkAccess
    <2> DEFINE reply == IF Reaches THEN << Answer >>
                        ELSE IF Head(todo) \in Asks THEN << "halted" >>
                        ELSE IF At("read_cpuid") THEN << "none" >>
                        ELSE IF Head(todo) \in Registers THEN << "value" >> ELSE << "data" >>
    <2>1. IF Reaches THEN Takes ELSE UNCHANGED target
      BY <1>8 DEF JLinkAccess
    <2>2. Understood(reply) /\ Proceeds(reply) /\ Remember(~Reaches, FALSE) /\ UNCHANGED link
      BY <1>4, <1>8 DEF JLinkAccess
    <2>3. reply \in Seq(Replies)
      BY <1>1, <1>2
    <2>4. ~Reaches /\ Head(todo) \in Asks => "halted" \in ToSet(reply)
      BY OneReply
    <2>5. At("read") => reply = << "data" >>
      BY <1>6 DEF At, Asks, Registers
    <2>6. Reaches => reply = << Answer >>
      OBVIOUS
    <2> HIDE DEF reply
    <2>7. Answered(reply, ~Reaches, FALSE)
      BY <1>5, <2>1, <2>2, <2>4, <2>5, <2>6 DEF Answered
    <2>8. (~Reaches) \in BOOLEAN /\ UNCHANGED << xlk, linkMode, alive >>
      BY <2>2 DEF link
    <2> QED
      BY <1>3, <2>3, <2>7, <2>8
  <1>9. CASE OpenOcdAccess
    <2>1. PICK obeyed \in BOOLEAN, came \in 1 .. Len(late) + 1 :
            LET coming == Append(late, IF obeyed THEN Answer ELSE "none")
                reply == SubSeq(coming, 1, came)
                left == SubSeq(coming, came + 1, Len(coming))
            IN  /\ ~obeyed => faults < MaxFaults /\ Head(todo) \notin Asks
                /\ IF obeyed THEN Takes ELSE UNCHANGED target
                /\ IF Understood(reply)
                   THEN /\ Proceeds(reply) /\ Remember(~obeyed, late # << >>)
                        /\ late' = left /\ UNCHANGED << xlk, linkMode, alive >>
                   ELSE Raises(left)
      BY <1>9 DEF OpenOcdAccess
    <2> DEFINE answer == IF obeyed THEN Answer ELSE "none"
               coming == Append(late, answer)
               reply == SubSeq(coming, 1, came)
               left == SubSeq(coming, came + 1, Len(coming))
    <2>2. answer \in Replies
      BY <1>1
    <2>3. reply \in Seq(Replies) /\ (late = << >> => reply = << answer >>)
      BY <2>2, Received
    <2>4. /\ ~obeyed => faults < MaxFaults /\ Head(todo) \notin Asks
          /\ IF obeyed THEN Takes ELSE UNCHANGED target
      BY <2>1
    <2>5. Understood(reply) /\ Proceeds(reply) /\ Remember(~obeyed, late # << >>) /\ UNCHANGED << xlk, linkMode, alive >>
      BY <1>4, <2>1
    <2>6. late = << >> /\ obeyed => reply = << Answer >>
      BY <2>3
    <2> HIDE DEF reply
    <2>7. Answered(reply, ~obeyed, late # << >>)
      BY <1>5, <1>6, <2>4, <2>5, <2>6 DEF Answered
    <2>8. (~obeyed) \in BOOLEAN /\ (late # << >>) \in BOOLEAN
      OBVIOUS
    <2> QED
      BY <1>3, <2>3, <2>5, <2>7, <2>8
  <1> QED
    BY <1>7, <1>8, <1>9
-----------------------------------------------------------------------------
(* Connecting *)

\* The steps of a connection, of a link that was in use if it is opened anew.
ConnLists ==
    { << "find" >>, << "open_probe", "init_dp", "use_daplink", "body" >>, << "init_dp", "use_daplink", "body" >>,
      << "use_daplink", "body" >>, << "use_jlink", "body" >>, << "use_openocd", "body" >>,
      << "close", "open", "body" >>, << "open", "body" >> }

Connecting ==
    /\ Lacks(todo, Connects) \/ todo \in ConnLists
    /\ todo \in {<< "close", "open", "body" >>, << "open", "body" >>} => xlk # "none"

Quiet == Connects \cup {"read", "write", "print", "go_back"}

LEMMA ConnListsKnown == ConnLists \subseteq Seq(Steps)
  <1>1. Connects \cup {"body"} \subseteq Steps
    BY DEF Steps
  <1> QED
    BY <1>1 DEF ConnLists, Connects

LEMMA ConnListsBegin == \A s \in ConnLists : s # << >> /\ Head(s) \in Connects /\ Led(s, FALSE) /\ Lacks(s, {"read", "write", "print"})
  BY DEF ConnLists, Connects, Led, Lacks

LEMMA LinkNotConnecting ==
    ASSUME StateOK, LinkStep \/ DapLinkFault \/ OpenOcdTimeout, Connecting
    PROVE  Lacks(todo, Connects) /\ Head(todo) \notin Connects
  <1>1. todo # << >> /\ Head(todo) \notin Connects
    BY DEF LinkStep, DapLinkAccess, JLinkAccess, OpenOcdAccess, DapLinkFault, OpenOcdTimeout, InAccess,
           Report, Fail, Pass, At, Accesses, Connects, Asks, Registers, Words
  <1> QED
    BY <1>1, ConnListsBegin DEF Connecting

LEMMA LinkConnecting ==
    ASSUME StateOK, LinkStep, Connecting
    PROVE  Connecting'
  <1>1. Lacks(todo, Connects) /\ Head(todo) \notin Connects
    BY LinkNotConnecting
  <1>2. todo # << >> /\ todo' \in Seq(Steps) /\ todo \in Seq(Steps) /\ Evolves
    BY LinkList DEF StateOK
  <1>3. {"halt", "write_word"} \cap Connects = {}
    BY DEF Connects
  <1>4. Lacks(todo', Connects)
    BY <1>1, <1>2, <1>3, LacksEmpty, LacksShortens, LacksDelays DEF Evolves
  <1>5. todo' \notin ConnLists
    <2>1. ASSUME NEW s \in ConnLists, Lacks(s, Connects) PROVE FALSE
      <3>1. s \in Seq(Steps) /\ s # << >> /\ Head(s) \in Connects
        BY ConnListsKnown, ConnListsBegin
      <3>2. 1 \in 1 .. Len(s) /\ Head(s) = s[1]
        BY <3>1, Bounds
      <3> QED
        BY <2>1, <3>1, <3>2 DEF Lacks
    <2> QED
      BY <1>4, <2>1
  <1> QED
    BY <1>4, <1>5 DEF Connecting, ConnLists

-----------------------------------------------------------------------------
(* A command leaves a halted core halted *)

HaltInv ==
    todo # << >> /\ ~ran /\ (~mixed \/ Head(todo) \in Connects) => core = "halted" /\ Led(todo, wasHalted)

LEMMA LinkHalt ==
    ASSUME StateOK, LinkStep, Connecting, HaltInv
    PROVE  HaltInv'
  <1>1. Lacks(todo, Connects) /\ todo # << >> /\ todo' \in Seq(Steps) /\ todo \in Seq(Steps) /\ Evolves
    BY LinkNotConnecting, LinkList DEF StateOK
  <1> SUFFICES ASSUME todo' # << >>, ~ran', ~mixed' \/ Head(todo') \in Connects
               PROVE  core' = "halted" /\ Led(todo', wasHalted')
    BY DEF HaltInv
  <1>2. ~mixed'
    <2>1. Lacks(todo', Connects)
      <3>1. Connecting'
        BY LinkConnecting
      <3> QED
        BY <1>1, LacksShortens, LacksDelays, LacksEmpty DEF Evolves, Connects
    <2>2. 1 \in 1 .. Len(todo') /\ Head(todo') = todo'[1]
      BY <1>1, Bounds
    <2> QED
      BY <2>1, <2>2 DEF Lacks
  <1>3. ASSUME NEW failed \in BOOLEAN, NEW mixing \in BOOLEAN, Remember(failed, mixing)
        PROVE  /\ ~mixing /\ core = "halted" /\ Led(todo, wasHalted)
               /\ ~(core' = "running" /\ Head(todo) \in {"go", "reset"})
    BY <1>1, <1>2, <1>3 DEF Remember, HaltInv
  <1>4. wasHalted \in BOOLEAN
    BY DEF StateOK
  <1>5. CASE DapLinkAccess \/ JLinkAccess \/ OpenOcdAccess
    <2>1. /\ Head(todo) \in Accesses /\ (At("go_back") => ~wasHalted)
          /\ \E reply \in Seq(Replies), failed \in BOOLEAN, mixing \in BOOLEAN : Answered(reply, failed, mixing)
      BY <1>5, Access
    <2>2. PICK reply \in Seq(Replies), failed \in BOOLEAN, mixing \in BOOLEAN : Answered(reply, failed, mixing)
      BY <2>1
    <2>3. /\ ~mixing /\ core = "halted" /\ Led(todo, wasHalted)
          /\ ~(core' = "running" /\ Head(todo) \in {"go", "reset"})
      BY <1>3, <2>2 DEF Answered
    <2>4. Head(todo) # "go_back"
      <3>1. SUFFICES ASSUME Head(todo) = "go_back" PROVE FALSE
        OBVIOUS
      <3>2. ~wasHalted
        BY <1>1, <2>1, <3>1 DEF At
      <3>3. 1 \in 1 .. Len(todo) /\ todo[1] = "go_back"
        BY <1>1, <3>1, Bounds
      <3> QED
        BY <2>3, <3>2, <3>3 DEF Led
    <2>5. core' = "halted"
      BY <1>1, <2>2, <2>3, <2>4 DEF Answered, Takes, AfterReset, target, StateOK, At
    <2>6. CASE Head(todo) = "look"
      <3>1. "halted" \in ToSet(reply)
        BY <2>2, <2>3, <2>6 DEF Answered, Asks
      <3>2. wasHalted' = TRUE
        BY <1>1, <2>2, <2>6, <3>1 DEF Answered, Proceeds, Notes, At
      <3>3. todo' = Tail(todo)
        BY <1>1, <2>2, <2>6, <3>1 DEF Answered, Proceeds, At
      <3>4. Shortens(todo', todo)
        BY <1>1, <3>3, TailType
      <3>5. Led(todo', TRUE)
        BY <1>1, <1>4, <2>3, <2>6, <3>4, LedShortens
      <3> QED
        BY <2>5, <3>2, <3>5
    <2>7. CASE Head(todo) # "look"
      <3>1. wasHalted' = wasHalted
        BY <1>1, <1>4, <2>2, <2>4, <2>7 DEF Answered, Proceeds, Notes, At
      <3>2. todo' = todo \/ Shortens(todo', todo)
        BY <1>1, <2>7 DEF Evolves
      <3>3. Led(todo', wasHalted)
        BY <1>1, <1>4, <2>3, <2>4, <2>7, <3>2, LedShortens
      <3> QED
        BY <2>5, <3>1, <3>3
    <2> QED
      BY <2>6, <2>7
  <1>6. CASE Fail
    BY <1>6 DEF Fail, Raises, Over
  <1>7. CASE Report \/ Pass
    <2>1. /\ Remember(FALSE, FALSE) /\ core' = core /\ todo' = Tail(todo)
          /\ Head(todo) # "look"
          /\ IF Head(todo) = "go_back" THEN ~wasHalted' ELSE wasHalted' = wasHalted
      BY <1>1, <1>4, <1>7 DEF Report, Pass, target, At
    <2>2. core = "halted" /\ Led(todo, wasHalted)
      BY <1>3, <2>1
    <2>3. Shortens(todo', todo)
      BY <1>1, <2>1, TailType
    <2>4. CASE Head(todo) = "go_back"
      <3>1. Led(todo', FALSE)
        BY <1>1, <1>4, <2>2, <2>3, <2>4, LedShortens
      <3> QED
        BY <2>1, <2>2, <3>1, LedMore
    <2>5. CASE Head(todo) # "go_back"
      <3>1. Led(todo', wasHalted)
        BY <1>1, <1>4, <2>1, <2>2, <2>3, <2>5, LedShortens
      <3> QED
        BY <2>1, <2>2, <2>5, <3>1
    <2> QED
      BY <2>4, <2>5
  <1> QED
    BY <1>5, <1>6, <1>7 DEF LinkStep
-----------------------------------------------------------------------------
(* Lists after which the core does what it did before *)

Moving == {"halt", "go", "reset", "reset_halt"}
Wrapped == {"look", "go_back", "is_halted"} \cup Moving

(* From the m-th step on, whatever halts the core is between a look at it  *)
(* and the access that lets it run again, and neither stands alone.        *)
NeutralFrom(s, m) ==
    \A i \in m .. Len(s) :
        /\ s[i] \notin Moving
        /\ s[i] = "go_back" => \E j \in m .. i - 1 : s[j] = "look" /\ \A k \in j + 1 .. i - 1 : s[k] \notin Wrapped
        /\ s[i] = "look" => \E j \in i + 1 .. Len(s) : s[j] = "go_back" /\ \A k \in i + 1 .. j - 1 : s[k] \notin Wrapped

Before(s, i, S) == \A k \in 1 .. i - 1 : s[k] \notin S

LEMMA WrappedKnown == {"look", "go_back", "is_halted"} \cup Moving = Wrapped /\ {"restore_demcr", "write_word"} \cap Wrapped = {}
  BY DEF Wrapped, Moving

LEMMA NeutralEmpty == ASSUME NEW m \in Nat, m >= 1 PROVE NeutralFrom(<< >>, m)
  BY DEF NeutralFrom

LEMMA NeutralLed ==
    ASSUME NEW T, NEW s \in Seq(T), NeutralFrom(s, 1)
    PROVE  Led(s, FALSE)
  BY DEF NeutralFrom, Led, Wrapped

LEMMA NeutralShortens ==
    ASSUME NEW T, NEW s \in Seq(T), s # << >>, NEW t \in Seq(T), Shortens(t, s),
           NEW m \in Nat, m >= 1, NeutralFrom(s, m + 1)
    PROVE  NeutralFrom(t, m)
  <1>1. /\ Len(s) \in Nat /\ Len(t) \in Nat /\ Len(t) = Len(s) - 1
        /\ \A i \in 1 .. Len(t) : \/ t[i] = s[i + 1]
                                  \/ t[i] \notin Wrapped /\ s[i + 1] \notin Wrapped
    BY LenProperties, WrappedKnown DEF Shortens
  <1>2. \A i \in 1 .. Len(t) : (t[i] \in Wrapped => t[i] = s[i + 1]) /\ (s[i + 1] \in Wrapped => t[i] = s[i + 1])
    BY <1>1
  <1>3. ASSUME NEW i \in m .. Len(t)
        PROVE  /\ t[i] \notin Moving
               /\ t[i] = "go_back" => \E j \in m .. i - 1 : t[j] = "look" /\ \A k \in j + 1 .. i - 1 : t[k] \notin Wrapped
               /\ t[i] = "look" => \E j \in i + 1 .. Len(t) : t[j] = "go_back" /\ \A k \in i + 1 .. j - 1 : t[k] \notin Wrapped
    <2>1. i \in 1 .. Len(t) /\ i + 1 \in m + 1 .. Len(s) /\ (i + 1) - 1 = i
      BY <1>1
    <2>2. t[i] \notin Moving
      BY <1>2, <2>1 DEF NeutralFrom, Wrapped
    <2>3. ASSUME t[i] = "go_back"
          PROVE  \E j \in m .. i - 1 : t[j] = "look" /\ \A k \in j + 1 .. i - 1 : t[k] \notin Wrapped
      <3>1. s[i + 1] = "go_back"
        BY <1>2, <2>1, <2>3 DEF Wrapped
      <3>2. PICK j \in m + 1 .. i : s[j] = "look" /\ \A k \in j + 1 .. i : s[k] \notin Wrapped
        BY <2>1, <3>1 DEF NeutralFrom
      <3>3. j - 1 \in m .. i - 1 /\ j - 1 \in 1 .. Len(t) /\ (j - 1) + 1 = j
        BY <1>1, <2>1
      <3>4. t[j - 1] = "look"
        BY <1>2, <3>2, <3>3 DEF Wrapped
      <3>5. \A k \in (j - 1) + 1 .. i - 1 : k \in 1 .. Len(t) /\ k + 1 \in j + 1 .. i
        BY <1>1, <2>1, <3>3
      <3>6. \A k \in (j - 1) + 1 .. i - 1 : t[k] \notin Wrapped
        BY <1>2, <3>2, <3>5
      <3> QED
        BY <3>3, <3>4, <3>6
    <2>4. ASSUME t[i] = "look"
          PROVE  \E j \in i + 1 .. Len(t) : t[j] = "go_back" /\ \A k \in i + 1 .. j - 1 : t[k] \notin Wrapped
      <3>1. s[i + 1] = "look"
        BY <1>2, <2>1, <2>4 DEF Wrapped
      <3>2. PICK j \in (i + 1) + 1 .. Len(s) : s[j] = "go_back" /\ \A k \in (i + 1) + 1 .. j - 1 : s[k] \notin Wrapped
        BY <2>1, <3>1 DEF NeutralFrom
      <3>3. j - 1 \in i + 1 .. Len(t) /\ j - 1 \in 1 .. Len(t) /\ (j - 1) + 1 = j
        BY <1>1, <2>1
      <3>4. t[j - 1] = "go_back"
        BY <1>2, <3>2, <3>3 DEF Wrapped
      <3>5. \A k \in i + 1 .. (j - 1) - 1 : k \in 1 .. Len(t) /\ k + 1 \in (i + 1) + 1 .. j - 1
        BY <1>1, <2>1, <3>3
      <3>6. \A k \in i + 1 .. (j - 1) - 1 : t[k] \notin Wrapped
        BY <1>2, <3>2, <3>5
      <3> QED
        BY <3>3, <3>4, <3>6
    <2> QED
      BY <2>2, <2>3, <2>4
  <1> QED
    BY <1>3 DEF NeutralFrom

LEMMA NeutralDelays ==
    ASSUME NEW T, NEW s \in Seq(T), s # << >>, NEW t \in Seq(T), Delays(t, s),
           NEW m \in Nat, m >= 2, NeutralFrom(s, m)
    PROVE  NeutralFrom(t, m)
  <1>1. /\ Len(s) \in Nat /\ Len(t) = Len(s)
        /\ \A i \in 2 .. Len(s) : t[i] = s[i]
    BY LenProperties DEF Delays
  <1>2. \A i \in m .. Len(s) : t[i] = s[i]
    BY <1>1
  <1> QED
    BY <1>1, <1>2 DEF NeutralFrom

LEMMA NeutralHead ==
    ASSUME NEW T, NEW s \in Seq(T), s # << >>, NeutralFrom(s, 1)
    PROVE  /\ Head(s) \notin Moving \cup {"go_back"}
           /\ Head(s) # "look" => NeutralFrom(s, 2)
           /\ Head(s) = "look" =>
                \E j \in 2 .. Len(s) : s[j] = "go_back" /\ (\A k \in 2 .. j - 1 : s[k] \notin Wrapped) /\ NeutralFrom(s, j + 1)
  <1>1. Len(s) \in Nat /\ Len(s) >= 1 /\ Head(s) = s[1]
    BY Bounds
  <1>2. Head(s) \notin Moving \cup {"go_back"}
    BY <1>1 DEF NeutralFrom
  <1>3. ASSUME Head(s) # "look" PROVE NeutralFrom(s, 2)
    <2>1. ASSUME NEW i \in 2 .. Len(s), s[i] = "go_back"
          PROVE  \E j \in 2 .. i - 1 : s[j] = "look" /\ \A k \in j + 1 .. i - 1 : s[k] \notin Wrapped
      <3>1. PICK j \in 1 .. i - 1 : s[j] = "look" /\ \A k \in j + 1 .. i - 1 : s[k] \notin Wrapped
        BY <1>1, <2>1 DEF NeutralFrom
      <3>2. j # 1
        BY <1>1, <1>3, <3>1
      <3> QED
        BY <3>1, <3>2
    <2> QED
      BY <1>1, <2>1 DEF NeutralFrom
  <1>4. ASSUME Head(s) = "look"
        PROVE  \E j \in 2 .. Len(s) : s[j] = "go_back" /\ (\A k \in 2 .. j - 1 : s[k] \notin Wrapped) /\ NeutralFrom(s, j + 1)
    <2>1. PICK j \in 2 .. Len(s) : s[j] = "go_back" /\ \A k \in 2 .. j - 1 : s[k] \notin Wrapped
      BY <1>1, <1>4 DEF NeutralFrom
    <2>3. ASSUME NEW i \in j + 1 .. Len(s), s[i] = "go_back"
          PROVE  \E n \in j + 1 .. i - 1 : s[n] = "look" /\ \A k \in n + 1 .. i - 1 : s[k] \notin Wrapped
      <3>1. PICK n \in 1 .. i - 1 : s[n] = "look" /\ \A k \in n + 1 .. i - 1 : s[k] \notin Wrapped
        BY <1>1, <2>3 DEF NeutralFrom
      <3>2. n \notin 1 .. j
        <4>1. n # j
          BY <2>1, <3>1
        <4>2. CASE n < j
          <5>1. j \in n + 1 .. i - 1
            BY <1>1, <4>2
          <5> QED
            BY <2>1, <3>1, <5>1 DEF Wrapped
        <4> QED
          BY <4>1, <4>2
      <3>3. n \in j + 1 .. i - 1
        BY <1>1, <3>2
      <3> QED
        BY <3>1, <3>3
    <2>4. NeutralFrom(s, j + 1)
      BY <1>1, <2>3 DEF NeutralFrom
    <2> QED
      BY <2>1, <2>4
  <1> QED
    BY <1>2, <1>3, <1>4

\* What is in front of the m-th step does not matter.
LEMMA NeutralBehind ==
    ASSUME NEW T, NEW s \in Seq(T), NEW t \in Seq(T), NEW m \in Nat, m >= 1, NeutralFrom(t, m)
    PROVE  NeutralFrom(s \o t, Len(s) + m)
  <1> DEFINE n == Len(s)
             u == s \o t
  <1>1. /\ n \in Nat /\ Len(t) \in Nat /\ Len(u) = n + Len(t)
        /\ \A i \in 1 .. n + Len(t) : u[i] = IF i <= n THEN s[i] ELSE t[i - n]
    BY ConcatProperties, LenProperties
  <1> HIDE DEF n, u
  <1>2. \A i \in n + m .. n + Len(t) : i - n \in m .. Len(t) /\ u[i] = t[i - n]
    BY <1>1
  <1>3. ASSUME NEW i \in n + m .. n + Len(t)
        PROVE  /\ u[i] \notin Moving
               /\ u[i] = "go_back" => \E j \in n + m .. i - 1 : u[j] = "look" /\ \A k \in j + 1 .. i - 1 : u[k] \notin Wrapped
               /\ u[i] = "look" => \E j \in i + 1 .. n + Len(t) : u[j] = "go_back" /\ \A k \in i + 1 .. j - 1 : u[k] \notin Wrapped
    <2>1. i - n \in m .. Len(t) /\ u[i] = t[i - n]
      BY <1>2
    <2>2. u[i] \notin Moving
      BY <2>1 DEF NeutralFrom
    <2>3. ASSUME u[i] = "go_back"
          PROVE  \E j \in n + m .. i - 1 : u[j] = "look" /\ \A k \in j + 1 .. i - 1 : u[k] \notin Wrapped
      <3>1. PICK j \in m .. (i - n) - 1 : t[j] = "look" /\ \A k \in j + 1 .. (i - n) - 1 : t[k] \notin Wrapped
        BY <2>1, <2>3 DEF NeutralFrom
      <3>2. n + j \in n + m .. i - 1 /\ n + j \in n + m .. n + Len(t) /\ (n + j) - n = j
        BY <1>1, <2>1
      <3>3. u[n + j] = "look"
        BY <1>2, <3>1, <3>2
      <3>4. \A k \in (n + j) + 1 .. i - 1 : k \in n + m .. n + Len(t) /\ k - n \in j + 1 .. (i - n) - 1
        BY <1>1, <2>1, <3>2
      <3> QED
        BY <1>2, <3>1, <3>2, <3>3, <3>4
    <2>4. ASSUME u[i] = "look"
          PROVE  \E j \in i + 1 .. n + Len(t) : u[j] = "go_back" /\ \A k \in i + 1 .. j - 1 : u[k] \notin Wrapped
      <3>1. PICK j \in (i - n) + 1 .. Len(t) : t[j] = "go_back" /\ \A k \in (i - n) + 1 .. j - 1 : t[k] \notin Wrapped
        BY <2>1, <2>4 DEF NeutralFrom
      <3>2. n + j \in i + 1 .. n + Len(t) /\ n + j \in n + m .. n + Len(t) /\ (n + j) - n = j
        BY <1>1, <2>1
      <3>3. u[n + j] = "go_back"
        BY <1>2, <3>1, <3>2
      <3>4. \A k \in i + 1 .. (n + j) - 1 : k \in n + m .. n + Len(t) /\ k - n \in (i - n) + 1 .. j - 1
        BY <1>1, <2>1, <3>2
      <3> QED
        BY <1>2, <3>1, <3>2, <3>3, <3>4
    <2> QED
      BY <2>2, <2>3, <2>4
  <1> QED
    BY <1>1, <1>3 DEF NeutralFrom, n, u

LEMMA NeutralJoined ==
    ASSUME NEW T, NEW s \in Seq(T), NEW t \in Seq(T), NEW m \in 1 .. Len(s) + 1, NeutralFrom(s, m), NeutralFrom(t, 1)
    PROVE  NeutralFrom(s \o t, m)
  <1> DEFINE n == Len(s)
             u == s \o t
  <1>1. /\ n \in Nat /\ Len(t) \in Nat /\ Len(u) = n + Len(t)
        /\ \A i \in 1 .. n + Len(t) : u[i] = IF i <= n THEN s[i] ELSE t[i - n]
    BY ConcatProperties, LenProperties
  <1>2. NeutralFrom(u, n + 1)
    BY NeutralBehind
  <1>3. m \in Nat /\ 1 <= m /\ m <= n + 1
    BY <1>1
  <1>4. \A i \in m .. n : s[i] \notin Moving
          /\ (s[i] = "go_back" => \E j \in m .. i - 1 : s[j] = "look" /\ \A k \in j + 1 .. i - 1 : s[k] \notin Wrapped)
          /\ (s[i] = "look" => \E j \in i + 1 .. n : s[j] = "go_back" /\ \A k \in i + 1 .. j - 1 : s[k] \notin Wrapped)
    BY DEF NeutralFrom
  <1> HIDE DEF n, u
  <1>5. \A i \in m .. n : i \in 1 .. n /\ u[i] = s[i]
    BY <1>1, <1>3
  <1>6. ASSUME NEW i \in m .. n + Len(t)
        PROVE  /\ u[i] \notin Moving
               /\ u[i] = "go_back" => \E j \in m .. i - 1 : u[j] = "look" /\ \A k \in j + 1 .. i - 1 : u[k] \notin Wrapped
               /\ u[i] = "look" => \E j \in i + 1 .. n + Len(t) : u[j] = "go_back" /\ \A k \in i + 1 .. j - 1 : u[k] \notin Wrapped
    <2>1. CASE i <= n
      <3>1. i \in m .. n /\ u[i] = s[i]
        BY <1>1, <1>3, <1>5, <2>1
      <3>2. ASSUME u[i] = "go_back"
            PROVE  \E j \in m .. i - 1 : u[j] = "look" /\ \A k \in j + 1 .. i - 1 : u[k] \notin Wrapped
        <4>1. PICK j \in m .. i - 1 : s[j] = "look" /\ \A k \in j + 1 .. i - 1 : s[k] \notin Wrapped
          BY <1>4, <3>1, <3>2
        <4>2. j \in m .. n /\ \A k \in j + 1 .. i - 1 : k \in m .. n
          BY <1>1, <1>3, <3>1
        <4> QED
          BY <1>5, <4>1, <4>2
      <3>3. ASSUME u[i] = "look"
            PROVE  \E j \in i + 1 .. n + Len(t) : u[j] = "go_back" /\ \A k \in i + 1 .. j - 1 : u[k] \notin Wrapped
        <4>1. PICK j \in i + 1 .. n : s[j] = "go_back" /\ \A k \in i + 1 .. j - 1 : s[k] \notin Wrapped
          BY <1>4, <3>1, <3>3
        <4>2. j \in m .. n /\ j \in i + 1 .. n + Len(t) /\ \A k \in i + 1 .. j - 1 : k \in m .. n
          BY <1>1, <1>3, <3>1
        <4> QED
          BY <1>5, <4>1, <4>2
      <3> QED
        BY <1>4, <3>1, <3>2, <3>3
    <2>2. CASE i > n
      <3>1. i \in n + 1 .. Len(u)
        BY <1>1, <1>3, <2>2
      <3>2. \A j \in n + 1 .. i - 1 : j \in m .. i - 1
        BY <1>1, <1>3, <3>1
      <3> QED
        BY <1>1, <1>2, <3>1, <3>2 DEF NeutralFrom
    <2> QED
      BY <1>1, <1>3, <2>1, <2>2
  <1> QED
    BY <1>1, <1>6 DEF NeutralFrom, u
-----------------------------------------------------------------------------
(* The lists of the commands *)

Transfers == {"read", "write", "print"}

\* Steps that leave the core as it was, and move no blocks.
Gentle(s) ==
    /\ s \in Seq(Steps)
    /\ Lacks(s, Connects) /\ Lacks(s, Transfers)
    /\ NeutralFrom(s, 1)

\* Of these, those that neither end the command nor change what a reset does.
Silent(s) == Gentle(s) /\ Lacks(s, {"is_halted", "catch"})

LEMMA GentleJoined ==
    ASSUME NEW s, NEW t, Gentle(s), Gentle(t)
    PROVE  Gentle(s \o t)
  <1>1. s \in Seq(Steps) /\ t \in Seq(Steps) /\ NeutralFrom(s, 1) /\ NeutralFrom(t, 1)
    BY DEF Gentle
  <1>2. 1 \in 1 .. Len(s) + 1
    BY <1>1, LenProperties
  <1>3. s \o t \in Seq(Steps) /\ NeutralFrom(s \o t, 1)
    BY <1>1, <1>2, ConcatProperties, NeutralJoined
  <1> QED
    BY <1>1, <1>3, LacksJoined DEF Gentle

LEMMA SilentJoined ==
    ASSUME NEW s, NEW t, Silent(s), Silent(t)
    PROVE  Silent(s \o t)
  <1>1. s \in Seq(Steps) /\ t \in Seq(Steps)
    BY DEF Silent, Gentle
  <1> QED
    BY <1>1, GentleJoined, LacksJoined DEF Silent

\* Accesses that are made of a core in any state.
Single ==
    {"read_cpuid", "read_misa", "read_word", "write_word", "read_registers", "write_register", "body", "check", "step", "fail"}

LEMMA SingleKnown ==
    /\ Single \subseteq Steps
    /\ Single \cap (Connects \cup Transfers \cup Wrapped \cup {"is_halted", "catch"}) = {}
    /\ {"look", "go_back", "is_halted"} \subseteq Steps
    /\ {"look", "go_back", "is_halted"} \cap (Connects \cup Transfers \cup Moving \cup {"catch"}) = {}
  BY DEF Single, Steps, Accesses, Asks, Registers, Words, Connects, Transfers, Wrapped, Moving

LEMMA SingleSilent == ASSUME NEW x \in Single PROVE Silent(<< x >>)
  <1>1. x \in Steps /\ x \notin Connects /\ x \notin Transfers /\ x \notin Wrapped /\ x \notin {"is_halted", "catch"}
    BY SingleKnown
  <1>2. << x >> \in Seq(Steps) /\ Len(<< x >>) = 1 /\ << x >>[1] = x
    BY <1>1
  <1>3. x \notin Moving /\ x # "go_back" /\ x # "look"
    BY <1>1 DEF Wrapped
  <1>4. NeutralFrom(<< x >>, 1)
    BY <1>2, <1>3 DEF NeutralFrom
  <1> QED
    BY <1>1, <1>2, <1>4 DEF Silent, Gentle, Lacks

LEMMA LookedSilent == ASSUME NEW x \in Single PROVE Silent(<< "look", x, "go_back" >>)
  <1> DEFINE s == << "look", x, "go_back" >>
  <1>1. x \in Steps /\ x \notin Connects /\ x \notin Transfers /\ x \notin Wrapped /\ x \notin {"is_halted", "catch"}
    BY SingleKnown
  <1>2. s \in Seq(Steps) /\ Len(s) = 3 /\ s[1] = "look" /\ s[2] = x /\ s[3] = "go_back"
    BY <1>1, SingleKnown
  <1> HIDE DEF s
  <1>3. Lacks(s, Connects) /\ Lacks(s, Transfers) /\ Lacks(s, {"is_halted", "catch"})
    BY <1>1, <1>2, SingleKnown DEF Lacks
  <1>4. \A i \in 1 .. Len(s) : s[i] \notin Moving
    BY <1>1, <1>2, SingleKnown DEF Wrapped
  <1>5. \A i \in 1 .. Len(s) : (s[i] = "go_back" => i = 3) /\ (s[i] = "look" => i = 1)
    BY <1>1, <1>2 DEF Wrapped
  <1>6. /\ 1 \in 1 .. 3 - 1 /\ \A k \in 1 + 1 .. 3 - 1 : s[k] \notin Wrapped
        /\ 3 \in 1 + 1 .. Len(s) /\ \A k \in 1 + 1 .. 3 - 1 : s[k] \notin Wrapped
    BY <1>1, <1>2
  <1>7. NeutralFrom(s, 1)
    BY <1>2, <1>4, <1>5, <1>6 DEF NeutralFrom
  <1> QED
    BY <1>2, <1>3, <1>7 DEF Silent, Gentle, s

LEMMA ThreeSteps ==
    ASSUME NEW T, NEW x \in T, NEW y \in T, NEW z \in T
    PROVE  << x >> \o << y >> \o << z >> = << x, y, z >>
  <1> DEFINE a == << x >>
             b == << y >>
             c == << z >>
             d == << x, y, z >>
  <1>1. /\ a \in Seq(T) /\ Len(a) = 1 /\ a[1] = x
        /\ b \in Seq(T) /\ Len(b) = 1 /\ b[1] = y
        /\ c \in Seq(T) /\ Len(c) = 1 /\ c[1] = z
        /\ d \in Seq(T) /\ Len(d) = 3 /\ d[1] = x /\ d[2] = y /\ d[3] = z
    OBVIOUS
  <1> HIDE DEF a, b, c, d
  <1>2. /\ a \o b \in Seq(T) /\ Len(a \o b) = Len(a) + Len(b)
        /\ \A i \in 1 .. Len(a) + Len(b) : (a \o b)[i] = IF i <= Len(a) THEN a[i] ELSE b[i - Len(a)]
    BY <1>1, ConcatProperties
  <1>3. (a \o b) \in Seq(T) /\ Len(a \o b) = 2 /\ (a \o b)[1] = x /\ (a \o b)[2] = y
    BY <1>1, <1>2
  <1>4. /\ (a \o b) \o c \in Seq(T) /\ Len((a \o b) \o c) = Len(a \o b) + Len(c)
        /\ \A i \in 1 .. Len(a \o b) + Len(c) :
             ((a \o b) \o c)[i] = IF i <= Len(a \o b) THEN (a \o b)[i] ELSE c[i - Len(a \o b)]
    BY <1>1, <1>3, ConcatProperties
  <1> DEFINE u == (a \o b) \o c
             v == a \o b
  <1>5. u \in Seq(T) /\ Len(u) = 3 /\ u[1] = v[1] /\ u[2] = v[2] /\ u[3] = c[1]
    BY <1>1, <1>3, <1>4
  <1>6. u[1] = x /\ u[2] = y /\ u[3] = z
    BY <1>1, <1>3, <1>5
  <1> HIDE DEF u
  <1>7. \A i \in 1 .. Len(u) : u[i] = d[i]
    BY <1>1, <1>5, <1>6
  <1>8. u = d
    BY <1>1, <1>5, <1>7, SeqEqual
  <1> QED
    BY <1>8 DEF u, a, b, c, d

LEMMA TwoSteps ==
    ASSUME NEW x, NEW y
    PROVE  << x >> \o << y >> = << x, y >>
  <1> DEFINE T == {x, y}
             a == << x >>
             b == << y >>
             d == << x, y >>
  <1>1. /\ a \in Seq(T) /\ Len(a) = 1 /\ a[1] = x
        /\ b \in Seq(T) /\ Len(b) = 1 /\ b[1] = y
        /\ d \in Seq(T) /\ Len(d) = 2 /\ d[1] = x /\ d[2] = y
    OBVIOUS
  <1> HIDE DEF a, b, d, T
  <1>2. /\ a \o b \in Seq(T) /\ Len(a \o b) = Len(a) + Len(b)
        /\ \A i \in 1 .. Len(a) + Len(b) : (a \o b)[i] = IF i <= Len(a) THEN a[i] ELSE b[i - Len(a)]
    BY <1>1, ConcatProperties
  <1> DEFINE u == a \o b
  <1>3. u \in Seq(T) /\ Len(u) = 2 /\ u[1] = x /\ u[2] = y
    BY <1>1, <1>2
  <1> HIDE DEF u
  <1>4. \A i \in 1 .. Len(u) : u[i] = d[i]
    BY <1>1, <1>3
  <1>5. u = d
    BY <1>1, <1>3, <1>4, SeqEqual
  <1> QED
    BY <1>5 DEF u, a, b, d

LEMMA HaltRequiredSilent == ASSUME NEW l, NEW x \in Single PROVE Silent(HaltRequired(l, << x >>))
  <1>1. << "look" >> \o << x >> \o << "go_back" >> = << "look", x, "go_back" >>
    <2>1. x \in Steps
      BY SingleKnown
    <2>2. "look" \in Steps /\ "go_back" \in Steps
      BY SingleKnown
    <2> QED
      BY <2>1, <2>2, ThreeSteps
  <1> QED
    BY <1>1, LookedSilent, SingleSilent DEF HaltRequired

LEMMA CoreTypeSilent == ASSUME NEW l, NEW m PROVE Silent(CoreType(l, m))
  <1>1. "read_cpuid" \in Single /\ "read_misa" \in Single
    BY DEF Single
  <1> QED
    BY <1>1, HaltRequiredSilent, LookedSilent DEF CoreType

LEMMA WordsSilent == Silent(read_U32) /\ Silent(write_U32) /\ Silent(read_core_type)
  <1>1. "read_word" \in Single /\ "write_word" \in Single
    BY DEF Single
  <1> QED
    BY <1>1, HaltRequiredSilent, CoreTypeSilent DEF read_U32, write_U32, read_core_type
\* A step after which the core does what it is told to, whatever it did before.
DecidedBy(s, i, told) ==
    /\ Before(s, i, {"is_halted"})
    /\ \/ s[i] = "go" /\ told = "running"
       \/ s[i] = "reset" /\ told = "running" /\ ~catch /\ xlk # "jlink" /\ Before(s, i, {"catch"})
       \/ s[i] \in {"halt", "reset_halt", "await_halted"} /\ told = "halted"

Tells(s, told) ==
    told # "none" =>
        \/ told = core /\ NeutralFrom(s, 1)
        \/ \E i \in 1 .. Len(s) : DecidedBy(s, i, told) /\ NeutralFrom(s, i + 1)

\* One request of a block at most, and what is read is used after it.
Moves == {"read", "write"}

OneMove(s) ==
    \E i \in 1 .. Len(s) :
        /\ s[i] \in Moves
        /\ \A j \in 1 .. Len(s) : (j # i => s[j] \notin Moves) /\ (s[j] = "print" => i < j)

\* What follows the check of a command.
Fit(s) == s \in Seq(Steps) /\ Lacks(s, Connects) /\ Led(s, FALSE)
Leads(s, told) == Fit(s) /\ Lacks(s, Transfers) /\ Tells(s, told)

LEMMA FitJoined == ASSUME NEW s, NEW t, Fit(s), Fit(t) PROVE Fit(s \o t)
  BY ConcatProperties, LacksJoined, LedJoined DEF Fit

LEMMA GentleFit == ASSUME NEW s, Gentle(s) PROVE Fit(s)
  BY NeutralLed DEF Gentle, Fit

LEMMA GentleLeads == ASSUME NEW s, Gentle(s) PROVE Leads(s, core)
  BY GentleFit DEF Gentle, Leads, Tells

LEMMA TellsMore ==
    ASSUME NEW s \in Seq(Steps), NEW t \in Seq(Steps), NEW told, Tells(s, told), NeutralFrom(t, 1)
    PROVE  Tells(s \o t, told)
  <1>1. /\ Len(s \o t) = Len(s) + Len(t) /\ Len(s) \in Nat /\ Len(t) \in Nat
        /\ \A i \in 1 .. Len(s) + Len(t) : (s \o t)[i] = IF i <= Len(s) THEN s[i] ELSE t[i - Len(s)]
    BY ConcatProperties, LenProperties
  <1>2. CASE told = "none"
    BY <1>2 DEF Tells
  <1>3. CASE told = core /\ NeutralFrom(s, 1)
    <2>1. 1 \in 1 .. Len(s) + 1
      BY <1>1
    <2> QED
      BY <1>3, <2>1, NeutralJoined DEF Tells
  <1>4. ASSUME NEW i \in 1 .. Len(s), DecidedBy(s, i, told), NeutralFrom(s, i + 1)
        PROVE  Tells(s \o t, told)
    <2>1. i + 1 \in 1 .. Len(s) + 1 /\ i \in 1 .. Len(s \o t)
      BY <1>1
    <2>2. NeutralFrom(s \o t, i + 1)
      BY <1>4, <2>1, NeutralJoined
    <2>3. (s \o t)[i] = s[i] /\ \A k \in 1 .. i - 1 : (s \o t)[k] = s[k]
      BY <1>1
    <2>4. DecidedBy(s \o t, i, told)
      BY <1>4, <2>3 DEF DecidedBy, Before
    <2> QED
      BY <2>1, <2>2, <2>4 DEF Tells
  <1> QED
    BY <1>2, <1>3, <1>4 DEF Tells

LEMMA TellsBehind ==
    ASSUME NEW p, Silent(p), NEW s \in Seq(Steps), NEW told, Tells(s, told)
    PROVE  Tells(p \o s, told)
  <1> p \in Seq(Steps) /\ NeutralFrom(p, 1) /\ Lacks(p, {"is_halted", "catch"})
    BY DEF Silent, Gentle
  <1>1. /\ Len(p \o s) = Len(p) + Len(s) /\ Len(s) \in Nat /\ Len(p) \in Nat
        /\ \A i \in 1 .. Len(p) + Len(s) : (p \o s)[i] = IF i <= Len(p) THEN p[i] ELSE s[i - Len(p)]
    BY ConcatProperties, LenProperties
  <1>2. CASE told = "none"
    BY <1>2 DEF Tells
  <1>3. CASE told = core /\ NeutralFrom(s, 1)
    <2>1. 1 \in 1 .. Len(p) + 1
      BY <1>1
    <2> QED
      BY <1>3, <2>1, NeutralJoined DEF Tells
  <1>4. ASSUME NEW i \in 1 .. Len(s), DecidedBy(s, i, told), NeutralFrom(s, i + 1)
        PROVE  Tells(p \o s, told)
    <2>1. /\ i + 1 \in Nat /\ i + 1 >= 1 /\ Len(p) + i \in 1 .. Len(p \o s)
          /\ (Len(p) + i) + 1 = Len(p) + (i + 1) /\ (Len(p) + i) - Len(p) = i /\ ~(Len(p) + i <= Len(p))
      BY <1>1
    <2>2. NeutralFrom(p \o s, (Len(p) + i) + 1)
      <3>1. NeutralFrom(p \o s, Len(p) + (i + 1))
        BY <1>4, <2>1, NeutralBehind
      <3> QED
        BY <2>1, <3>1
    <2>3. (p \o s)[Len(p) + i] = s[i]
      BY <1>1, <2>1
    <2>4. ASSUME NEW k \in 1 .. (Len(p) + i) - 1
          PROVE  \/ (p \o s)[k] \notin {"is_halted", "catch"}
                 \/ k - Len(p) \in 1 .. i - 1 /\ (p \o s)[k] = s[k - Len(p)]
      <3>1. k \in 1 .. Len(p) + Len(s)
        BY <1>1, <2>1
      <3>2. CASE k <= Len(p)
        BY <1>1, <3>1, <3>2 DEF Lacks
      <3>3. CASE ~(k <= Len(p))
        BY <1>1, <3>1, <3>3
      <3> QED
        BY <3>2, <3>3
    <2>5. DecidedBy(p \o s, Len(p) + i, told)
      BY <1>4, <2>3, <2>4 DEF DecidedBy, Before
    <2> QED
      BY <2>1, <2>2, <2>5 DEF Tells
  <1> QED
    BY <1>2, <1>3, <1>4 DEF Tells

LEMMA LeadsJoined ==
    ASSUME NEW s, NEW t, NEW told, Leads(s, told), Gentle(t)
    PROVE  Leads(s \o t, told)
  <1>1. Fit(s) /\ Fit(t) /\ Lacks(s, Transfers) /\ Lacks(t, Transfers) /\ Tells(s, told) /\ NeutralFrom(t, 1)
    BY GentleFit DEF Leads, Gentle
  <1>2. s \in Seq(Steps) /\ t \in Seq(Steps)
    BY <1>1 DEF Fit
  <1> QED
    BY <1>1, <1>2, FitJoined, LacksJoined, TellsMore DEF Leads

LEMMA EmptyGentle == Gentle(<< >>)
  BY EmptyType, LacksEmpty, NeutralEmpty DEF Gentle

LEMMA AskedGentle == ASSUME NEW x \in Single PROVE Gentle(<< "is_halted", x >>)
  <1> DEFINE s == << "is_halted", x >>
  <1>1. x \in Steps /\ x \notin Connects /\ x \notin Transfers /\ x \notin Wrapped
    BY SingleKnown
  <1>2. s \in Seq(Steps) /\ Len(s) = 2 /\ s[1] = "is_halted" /\ s[2] = x
    BY <1>1, SingleKnown
  <1> HIDE DEF s
  <1>3. Lacks(s, Connects) /\ Lacks(s, Transfers)
    BY <1>1, <1>2, SingleKnown DEF Lacks
  <1>4. \A i \in 1 .. Len(s) : s[i] \notin Moving /\ s[i] # "go_back" /\ s[i] # "look"
    BY <1>1, <1>2, SingleKnown DEF Wrapped
  <1>5. NeutralFrom(s, 1)
    BY <1>4 DEF NeutralFrom
  <1> QED
    BY <1>2, <1>3, <1>5 DEF Gentle, s

LEMMA RegsGentle == ASSUME NEW regs \in Regs PROVE Gentle(regs)
  <1>1. Gentle(RegsSteps)
    <2>1. (IF mode = linkMode THEN "read_registers" ELSE "fail") \in Single
      BY DEF Single
    <2> QED
      BY <2>1, AskedGentle DEF RegsSteps
  <1>2. Gentle(Diagnosis)
    <2>1. Silent(diagnosis)
      BY WordsSilent, SilentJoined DEF diagnosis
    <2>2. Silent(Diagnosis)
      BY <2>1, WordsSilent, SilentJoined DEF Diagnosis
    <2> QED
      BY <2>2 DEF Silent
  <1> QED
    BY <1>1, <1>2, GentleJoined DEF Regs
\* The steps of a reset.
LEMMA ResetLeads ==
    ASSUME StateOK
    PROVE  Leads(reset, IF catch \/ (xlk = "jlink" /\ linkMode = "arm") THEN "none" ELSE "running")
  <1> DEFINE told == IF catch \/ (xlk = "jlink" /\ linkMode = "arm") THEN "none" ELSE "running"
             one == << "reset" >>
             four == << "reset", "write_register", "write_register", "go" >>
  <1>1. {"reset", "write_register", "go"} \subseteq Steps
    BY DEF Steps, Accesses
  <1>2. one \in Seq(Steps) /\ Len(one) = 1 /\ one[1] = "reset"
    BY <1>1
  <1>3. /\ four \in Seq(Steps) /\ Len(four) = 4 /\ four[1] = "reset"
        /\ four[2] = "write_register" /\ four[3] = "write_register" /\ four[4] = "go"
    BY <1>1
  <1> HIDE DEF one, four
  <1>4. CASE linkMode = "arm"
    <2>1. Lacks(one, Connects) /\ Lacks(one, Transfers) /\ Led(one, FALSE)
      BY <1>2 DEF Lacks, Led, Connects, Transfers
    <2>2. NeutralFrom(one, 1 + 1)
      BY <1>2 DEF NeutralFrom
    <2>3. told # "none" => DecidedBy(one, 1, told)
      BY <1>2, <1>4 DEF DecidedBy, Before
    <2>4. Tells(one, told)
      BY <1>2, <2>2, <2>3 DEF Tells
    <2> QED
      BY <1>2, <1>4, <2>1, <2>4 DEF Leads, Fit, reset, one
  <1>5. CASE linkMode # "arm"
    <2>1. Lacks(four, Connects) /\ Lacks(four, Transfers) /\ Led(four, FALSE)
      BY <1>3 DEF Lacks, Led, Connects, Transfers
    <2>2. NeutralFrom(four, 4 + 1)
      BY <1>3 DEF NeutralFrom
    <2>3. told # "none" => DecidedBy(four, 4, told)
      <3>1. \A k \in 1 .. 4 - 1 : four[k] # "is_halted"
        BY <1>3
      <3> QED
        BY <1>3, <3>1 DEF DecidedBy, Before
    <2>4. Tells(four, told)
      BY <1>3, <2>2, <2>3 DEF Tells
    <2> QED
      BY <1>3, <1>5, <2>1, <2>4 DEF Leads, Fit, reset, four
  <1> QED
    BY <1>4, <1>5

LEMMA HaltsLead ==
    /\ Leads(<< "halt" >>, "halted")
    /\ Leads(<< "reset_halt" >>, "halted")
    /\ Leads(<< "reset" >>, "none")
    /\ Leads(<< "go" >>, "running")
  <1> DEFINE one(x) == << x >>
  <1>1. ASSUME NEW x \in {"halt", "reset_halt", "reset", "go"}, NEW told,
               told # "none" => (x \in {"halt", "reset_halt"} /\ told = "halted") \/ (x = "go" /\ told = "running")
        PROVE  Leads(one(x), told)
    <2>1. x \in Steps /\ x \notin Connects /\ x \notin Transfers /\ x # "go_back"
      BY DEF Steps, Accesses, Connects, Transfers
    <2>2. one(x) \in Seq(Steps) /\ Len(one(x)) = 1 /\ one(x)[1] = x
      BY <2>1
    <2> HIDE DEF one
    <2>3. Lacks(one(x), Connects) /\ Lacks(one(x), Transfers) /\ Led(one(x), FALSE)
      BY <2>1, <2>2 DEF Lacks, Led
    <2>4. NeutralFrom(one(x), 1 + 1)
      BY <2>2 DEF NeutralFrom
    <2>5. told # "none" => DecidedBy(one(x), 1, told)
      BY <1>1, <2>2 DEF DecidedBy, Before
    <2>6. Tells(one(x), told)
      BY <2>2, <2>4, <2>5 DEF Tells
    <2> QED
      BY <2>2, <2>3, <2>6 DEF Leads, Fit
  <1> QED
    BY <1>1

LEMMA ResetHaltLeads == Leads(reset_and_halt, IF xlk = "jlink" /\ linkMode = "rv" THEN "none" ELSE "halted")
  <1> DEFINE told == IF xlk = "jlink" /\ linkMode = "rv" THEN "none" ELSE "halted"
             s == resetStopOnReset
  <1>1. CASE xlk = "openocd"
    BY <1>1, HaltsLead DEF reset_and_halt
  <1>2. CASE xlk = "jlink" /\ linkMode = "rv"
    BY <1>2, HaltsLead DEF reset_and_halt
  <1>3. CASE xlk # "openocd" /\ ~(xlk = "jlink" /\ linkMode = "rv")
    <2>1. {"halt", "read_demcr", "catch", "reset", "wait_out", "await_halted", "restore_demcr", "write_register"} \subseteq Steps
      BY DEF Steps, Accesses, Asks, Words
    <2>2. /\ s \in Seq(Steps) /\ Len(s) = 8 /\ s[1] = "halt" /\ s[2] = "read_demcr" /\ s[3] = "catch" /\ s[4] = "reset"
          /\ s[5] = "wait_out" /\ s[6] = "await_halted" /\ s[7] = "restore_demcr" /\ s[8] = "write_register"
      BY <2>1 DEF resetStopOnReset
    <2> HIDE DEF s
    <2>3. \A i \in 1 .. Len(s) : s[i] \notin Connects /\ s[i] \notin Transfers /\ s[i] # "go_back" /\ s[i] # "is_halted"
      BY <2>2 DEF Connects, Transfers
    <2>4. Lacks(s, Connects) /\ Lacks(s, Transfers) /\ Led(s, FALSE)
      BY <2>3 DEF Lacks, Led
    <2>5. \A i \in 6 + 1 .. Len(s) : s[i] \notin Moving /\ s[i] # "go_back" /\ s[i] # "look"
      BY <2>2 DEF Moving
    <2>6. NeutralFrom(s, 6 + 1)
      BY <2>5 DEF NeutralFrom
    <2>7. \A k \in 1 .. 6 - 1 : s[k] # "is_halted"
      BY <2>2
    <2>8. DecidedBy(s, 6, "halted")
      BY <2>2, <2>7 DEF DecidedBy, Before
    <2>9. Tells(s, "halted")
      BY <2>2, <2>6, <2>8 DEF Tells
    <2> QED
      BY <1>3, <2>2, <2>4, <2>9 DEF Leads, Fit, reset_and_halt, s
  <1> QED
    BY <1>1, <1>2, <1>3

\* A request of a block, and the use of its items.
LEMMA BlockList ==
    ASSUME NEW l, NEW x \in Moves
    PROVE  LET s == HaltRequired(l, << x >>) \o << "print" >>
           IN  Fit(s) /\ OneMove(s) /\ NeutralFrom(s, 1)
  <1> DEFINE r == HaltRequired(l, << x >>)
             last == << "print" >>
             s == r \o last
  <1>1. x \in Steps /\ "print" \in Steps /\ "look" \in Steps /\ "go_back" \in Steps
    BY SingleKnown DEF Steps, Accesses, Moves
  <1>2. x \notin Connects \cup Wrapped \cup {"print"} /\ "print" \notin Connects \cup Wrapped \cup Moves
        /\ {"look", "go_back"} \cap (Connects \cup Moving \cup Moves) = {}
    BY DEF Connects, Wrapped, Moving, Moves
  <1>3. last \in Seq(Steps) /\ Len(last) = 1 /\ last[1] = "print"
    BY <1>1
  <1> HIDE DEF last
  <1>4. CASE l = "openocd"
    <2>1. r = << "look", x, "go_back" >>
      BY <1>1, <1>4, ThreeSteps DEF HaltRequired
    <2>2. r \in Seq(Steps) /\ Len(r) = 3 /\ r[1] = "look" /\ r[2] = x /\ r[3] = "go_back"
      <3> DEFINE three == << "look", x, "go_back" >>
      <3>1. three \in Seq(Steps) /\ Len(three) = 3 /\ three[1] = "look" /\ three[2] = x /\ three[3] = "go_back"
        BY <1>1
      <3> HIDE DEF r
      <3> QED
        BY <2>1, <3>1
    <2> HIDE DEF r
    <2>3. /\ s \in Seq(Steps) /\ Len(s) = Len(r) + Len(last)
          /\ \A i \in 1 .. Len(r) + Len(last) : s[i] = IF i <= Len(r) THEN r[i] ELSE last[i - Len(r)]
      BY <1>3, <2>2, ConcatProperties
    <2>4. Len(s) = 4 /\ s[1] = "look" /\ s[2] = x /\ s[3] = "go_back" /\ s[4] = "print"
      BY <1>3, <2>2, <2>3
    <2> HIDE DEF s
    <2>5. \A i \in 1 .. Len(s) : s[i] \notin Connects /\ s[i] \notin Moving
      BY <1>2, <2>4 DEF Wrapped
    <2>6. \A i \in 1 .. Len(s) : (s[i] = "go_back" => i = 3) /\ (s[i] = "look" => i = 1)
                                 /\ (s[i] \in Moves => i = 2) /\ (s[i] = "print" => i = 4)
      BY <1>2, <2>4 DEF Wrapped
    <2>7. /\ 1 \in 1 .. 3 - 1 /\ 3 \in 1 + 1 .. Len(s)
          /\ \A k \in 1 + 1 .. 3 - 1 : s[k] \notin Wrapped
      BY <1>2, <2>4
    <2>8. NeutralFrom(s, 1)
      BY <2>4, <2>5, <2>6, <2>7 DEF NeutralFrom
    <2>9. OneMove(s)
      <3>1. 2 \in 1 .. Len(s) /\ s[2] \in Moves
        BY <2>4
      <3> QED
        BY <2>6, <3>1 DEF OneMove
    <2>10. Fit(s)
      BY <2>3, <2>5, <2>8, NeutralLed DEF Fit, Lacks, s
    <2> QED
      BY <2>8, <2>9, <2>10 DEF s, r, last
  <1>5. CASE l # "openocd"
    <2>1. r \in Seq(Steps) /\ Len(r) = 1 /\ r[1] = x
      BY <1>1, <1>5 DEF HaltRequired
    <2> HIDE DEF r
    <2>3. /\ s \in Seq(Steps) /\ Len(s) = Len(r) + Len(last)
          /\ \A i \in 1 .. Len(r) + Len(last) : s[i] = IF i <= Len(r) THEN r[i] ELSE last[i - Len(r)]
      BY <1>3, <2>1, ConcatProperties
    <2>4. Len(s) = 2 /\ s[1] = x /\ s[2] = "print"
      BY <1>3, <2>1, <2>3
    <2> HIDE DEF s
    <2>5. \A i \in 1 .. Len(s) : s[i] \notin Connects /\ s[i] \notin Moving /\ s[i] # "go_back" /\ s[i] # "look"
                                 /\ (s[i] \in Moves => i = 1) /\ (s[i] = "print" => i = 2)
      BY <1>2, <2>4 DEF Wrapped
    <2>8. NeutralFrom(s, 1)
      BY <2>5 DEF NeutralFrom
    <2>9. OneMove(s)
      <3>1. 1 \in 1 .. Len(s) /\ s[1] \in Moves
        BY <2>4
      <3> QED
        BY <2>5, <3>1 DEF OneMove
    <2>10. Fit(s)
      BY <2>3, <2>5, <2>8, NeutralLed DEF Fit, Lacks, s
    <2> QED
      BY <2>8, <2>9, <2>10 DEF s, r, last
  <1> QED
    BY <1>4, <1>5
\* Every command is a check of the core and one of these lists.
Given(told, body) ==
    /\ Command(told, body) /\ Fit(body) /\ Tells(body, told)
    /\ \/ Lacks(body, Transfers) /\ UNCHANGED block
       \/ OneMove(body) /\ \E count \in Nat : block' = BlockOf(count)

LEMMA CommandsGiven ==
    ASSUME StateOK, Commands
    PROVE  \E told \in {"running", "halted", "none"} : \E body \in Seq(Steps) : Given(told, body)
  <1>1. core \in {"running", "halted", "none"} /\ "running" \in {"running", "halted", "none"}
    BY DEF StateOK
  <1>2. ASSUME NEW told \in {"running", "halted", "none"}, NEW body, Plain(told, body), Leads(body, told)
        PROVE  \E t \in {"running", "halted", "none"} : \E b \in Seq(Steps) : Given(t, b)
    BY <1>2 DEF Plain, Leads, Fit, Given
  <1>3. ASSUME NEW body, Plain(core, body), Gentle(body)
        PROVE  \E t \in {"running", "halted", "none"} : \E b \in Seq(Steps) : Given(t, b)
    BY <1>1, <1>2, <1>3, GentleLeads
  <1>4. ASSUME NEW s, s \in {read_mem, write_mem}, NEW count \in Nat, Command(core, s \o << "print" >>), block' = BlockOf(count)
        PROVE  \E t \in {"running", "halted", "none"} : \E b \in Seq(Steps) : Given(t, b)
    <2>1. PICK x \in Moves : s = HaltRequired(xlk, << x >>)
      BY <1>4 DEF Moves, read_mem, write_mem
    <2> DEFINE body == s \o << "print" >>
    <2>2. Fit(body) /\ OneMove(body) /\ NeutralFrom(body, 1)
      BY <2>1, BlockList
    <2>3. Tells(body, core)
      BY <2>2 DEF Tells
    <2>4. body \in Seq(Steps)
      BY <2>2 DEF Fit
    <2>5. Command(core, body)
      BY <1>4
    <2> HIDE DEF body
    <2>6. Given(core, body)
      BY <1>4, <2>2, <2>3, <2>5 DEF Given
    <2> QED
      BY <1>1, <2>4, <2>6
  <1>5. \A count \in Counts : count \in Nat
    BY XLinkAssumption
  <1>6. CASE do_rd \/ do_savebin \/ do_loadbin \/ do_rdv
    BY <1>4, <1>5, <1>6 DEF do_rd, do_savebin, do_loadbin, do_rdv
  <1>7. Gentle(write_U32) /\ Gentle(write_U32 \o write_U32) /\ Gentle(read_U32 \o write_U32)
    BY WordsSilent, GentleJoined DEF Silent
  <1>8. CASE do_wr \/ do_wrv \/ do_sv
    <2>1. CASE do_wr
      BY <1>3, <1>7, <2>1 DEF do_wr
    <2>2. CASE do_wrv
      BY <1>3, <1>7, <2>2 DEF do_wrv
    <2>3. CASE do_sv
      BY <1>3, <1>6, <1>7, <2>1, <2>3 DEF do_sv
    <2> QED
      BY <1>8, <2>1, <2>2, <2>3
  <1>9. Gentle(<< "is_halted", "read_registers" >>) /\ Gentle(<< "is_halted", "write_register" >>)
        /\ Gentle(<< "fail" >>) /\ Gentle(<< >>)
    BY AskedGentle, SingleSilent, EmptyGentle DEF Single, Silent
  <1>10. CASE do_regs \/ do_reg \/ do_wreg \/ do_dis \/ ArgumentError
    <2>1. CASE do_regs
      BY <1>3, <2>1, RegsGentle DEF do_regs
    <2>2. CASE do_reg \/ do_wreg \/ do_dis \/ ArgumentError
      BY <1>3, <1>9, <2>2 DEF do_reg, do_wreg, do_dis, ArgumentError
    <2> QED
      BY <1>10, <2>1, <2>2
  <1>11. ASSUME NEW told \in {"running", "halted", "none"}, NEW body, ThenRegs(told, body), Leads(body, told)
         PROVE  \E t \in {"running", "halted", "none"} : \E b \in Seq(Steps) : Given(t, b)
    <2>1. PICK regs \in Regs : Plain(told, body \o << "check" >> \o read_core_type \o << "body" >> \o regs)
      BY <1>11 DEF ThenRegs
    <2>2. Gentle(<< "check" >>) /\ Gentle(<< "body" >>) /\ Gentle(read_core_type) /\ Gentle(regs)
      BY SingleSilent, WordsSilent, RegsGentle DEF Single, Silent
    <2>3. Leads(body \o << "check" >> \o read_core_type \o << "body" >> \o regs, told)
      <3>1. Leads(body \o << "check" >>, told)
        BY <1>11, <2>2, LeadsJoined
      <3>2. Leads(body \o << "check" >> \o read_core_type, told)
        BY <2>2, <3>1, LeadsJoined
      <3>3. Leads(body \o << "check" >> \o read_core_type \o << "body" >>, told)
        BY <2>2, <3>2, LeadsJoined
      <3> QED
        BY <2>2, <3>3, LeadsJoined
    <2> QED
      BY <1>2, <2>1, <2>3
  <1>12. CASE do_reset
    <2> DEFINE r == IF catch \/ (xlk = "jlink" /\ linkMode = "arm") THEN "none" ELSE "running"
               h == IF xlk = "jlink" /\ linkMode = "rv" THEN "none" ELSE "halted"
    <2>1. r \in {"running", "halted", "none"} /\ h \in {"running", "halted", "none"}
      OBVIOUS
    <2>2. Leads(reset, r) /\ Leads(reset_and_halt, h)
      BY ResetLeads, ResetHaltLeads
    <2>3. Plain(r, reset) \/ ThenRegs(h, reset_and_halt)
      BY <1>12 DEF do_reset
    <2> HIDE DEF r, h
    <2> QED
      BY <1>2, <1>11, <2>1, <2>2, <2>3
  <1>13. CASE do_halt \/ do_go
    BY <1>2, <1>11, <1>13, HaltsLead DEF do_halt, do_go
  <1>14. CASE do_step
    <2>1. Gentle(<< "step" >>)
      BY SingleSilent DEF Single, Silent
    <2>2. Gentle(<< "step", "step" >>)
      <3>1. Gentle(<< "step" >> \o << "step" >>)
        BY <2>1, GentleJoined
      <3>2. << "step" >> \o << "step" >> = << "step", "step" >>
        BY TwoSteps
      <3> QED
        BY <3>1, <3>2
    <2>3. PICK steps \in {<< "step" >>, << "step", "step" >>} : ThenRegs(core, steps)
      BY <1>14 DEF do_step
    <2>4. Leads(steps, core)
      BY <2>1, <2>2, GentleLeads
    <2> QED
      BY <1>1, <1>11, <2>3, <2>4
  <1> QED
    BY <1>6, <1>8, <1>10, <1>12, <1>13, <1>14 DEF Commands
-----------------------------------------------------------------------------
(* Types, and what is left of a connection *)

LEMMA ConnectingTails ==
    ASSUME StateOK, Connecting, todo # << >>, Head(todo) \in Connects
    PROVE  /\ todo \in ConnLists
           /\ At("open_probe") => Tail(todo) = << "init_dp", "use_daplink", "body" >>
           /\ At("init_dp") => Tail(todo) = << "use_daplink", "body" >>
           /\ At("close") => Tail(todo) = << "open", "body" >> /\ xlk # "none"
           /\ At("open") => xlk # "none"
           /\ At("use_daplink") \/ At("use_jlink") \/ At("use_openocd") \/ At("open") => Tail(todo) = << "body" >>
  <1>1. todo \in ConnLists
    <2>1. todo \in Seq(Steps)
      BY DEF StateOK
    <2>2. 1 \in 1 .. Len(todo) /\ Head(todo) = todo[1]
      BY <2>1, Bounds
    <2> QED
      BY <2>2 DEF Connecting, Lacks
  <1>2. /\ At("open_probe") => Tail(todo) = << "init_dp", "use_daplink", "body" >>
        /\ At("init_dp") => Tail(todo) = << "use_daplink", "body" >>
        /\ At("close") => Tail(todo) = << "open", "body" >> /\ xlk # "none"
        /\ At("open") => xlk # "none"
        /\ At("use_daplink") \/ At("use_jlink") \/ At("use_openocd") \/ At("open") => Tail(todo) = << "body" >>
    <2>1. /\ Tail(<< "open_probe", "init_dp", "use_daplink", "body" >>) = << "init_dp", "use_daplink", "body" >>
          /\ Tail(<< "init_dp", "use_daplink", "body" >>) = << "use_daplink", "body" >>
          /\ Tail(<< "close", "open", "body" >>) = << "open", "body" >>
          /\ Tail(<< "open", "body" >>) = << "body" >>
          /\ Tail(<< "use_daplink", "body" >>) = << "body" >>
          /\ Tail(<< "use_jlink", "body" >>) = << "body" >>
          /\ Tail(<< "use_openocd", "body" >>) = << "body" >>
      OBVIOUS
    <2>2. /\ At("open_probe") => todo = << "open_probe", "init_dp", "use_daplink", "body" >>
          /\ At("init_dp") => todo = << "init_dp", "use_daplink", "body" >>
          /\ At("close") => todo = << "close", "open", "body" >>
          /\ At("open") => todo = << "open", "body" >>
          /\ At("use_daplink") => todo = << "use_daplink", "body" >>
          /\ At("use_jlink") => todo = << "use_jlink", "body" >>
          /\ At("use_openocd") => todo = << "use_openocd", "body" >>
      BY <1>1 DEF ConnLists, At
    <2>3. todo \in {<< "close", "open", "body" >>, << "open", "body" >>} => xlk # "none"
      BY DEF Connecting
    <2> QED
      BY <2>1, <2>2, <2>3
  <1> QED
    BY <1>1, <1>2

LEMMA NothingToOpen ==
    ASSUME NEW s, Lacks(s, Connects)
    PROVE  s \notin {<< "close", "open", "body" >>, << "open", "body" >>}
  <1>1. ~Lacks(<< "close", "open", "body" >>, Connects) /\ ~Lacks(<< "open", "body" >>, Connects)
    BY DEF Lacks, Connects
  <1> QED
    BY <1>1

\* The actions of a connection.
ConnectionStep == Find \/ OpenProbe \/ InitDebugPort \/ UseDapLink \/ UseJLink \/ UseOpenOcd \/ Close \/ Open

LEMMA ConnectSteps ==
    ASSUME StateOK, Connecting, Emptyline \/ ConnectionStep
    PROVE  /\ todo' \in ConnLists \/ Silent(todo')
           /\ todo' \in Seq(Steps)
           /\ todo' \in {<< "close", "open", "body" >>, << "open", "body" >>} => xlk' # "none"
           /\ UNCHANGED << target, wasHalted, block, faults, stored >>
           /\ \/ Emptyline /\ todo' \in ConnLists /\ ran' = (core = "running") /\ owed' = core /\ UNCHANGED << link, mixed >>
              \/ todo # << >> /\ Head(todo) \in Connects /\ UNCHANGED << ran, owed >> /\ mixed' \in {mixed, FALSE}
  <1>1. ASSUME todo' \in ConnLists PROVE todo' \in Seq(Steps)
    BY <1>1, ConnListsKnown
  <1>2. CASE Emptyline
    BY <1>1, <1>2 DEF Emptyline, ConnLists, settings, link
  <1>3. CASE Find
    BY <1>1, <1>3 DEF Find, At, Connects, ConnLists
  <1>4. CASE OpenProbe \/ InitDebugPort
    <2>1. todo # << >> /\ Head(todo) \in Connects /\ todo' = Tail(todo)
      BY <1>4 DEF OpenProbe, InitDebugPort, At, Connects
    <2>2. todo' \in {<< "init_dp", "use_daplink", "body" >>, << "use_daplink", "body" >>}
      BY <1>4, <2>1, ConnectingTails DEF OpenProbe, InitDebugPort
    <2> QED
      <3>1. todo' \in ConnLists
        BY <2>2 DEF ConnLists
      <3>2. todo' \notin {<< "close", "open", "body" >>, << "open", "body" >>}
        BY <2>2
      <3>3. UNCHANGED << target, wasHalted, block, faults, stored, ran, owed, mixed >>
        BY <1>4 DEF OpenProbe, InitDebugPort, settings
      <3> QED
        BY <1>1, <2>1, <3>1, <3>2, <3>3
  <1>5. CASE Close
    <2>1. todo # << >> /\ Head(todo) \in Connects /\ todo' = Tail(todo)
      BY <1>5 DEF Close, At, Connects
    <2>2. todo' = << "open", "body" >> /\ xlk # "none"
      BY <1>5, <2>1, ConnectingTails DEF Close
    <2> QED
      BY <1>1, <1>5, <2>1, <2>2 DEF Close, ConnLists, settings
  <1>6. ASSUME NEW l, NEW m, Use(l, m), At("use_daplink") \/ At("use_jlink") \/ At("use_openocd") \/ At("open")
        PROVE  /\ Silent(todo') /\ todo' \in Seq(Steps)
               /\ todo' \notin {<< "close", "open", "body" >>, << "open", "body" >>}
               /\ UNCHANGED << target, wasHalted, block, faults, stored, ran, owed >> /\ mixed' = FALSE
               /\ todo # << >> /\ Head(todo) \in Connects
    <2>1. todo # << >> /\ Head(todo) \in Connects
      BY <1>6 DEF At, Connects
    <2>2. Tail(todo) = << "body" >>
      BY <1>6, <2>1, ConnectingTails
    <2>3. todo' = CoreType(l, m) \o << "body" >>
      BY <1>6, <2>2 DEF Use
    <2>4. Silent(todo')
      <3>1. Silent(<< "body" >>) /\ Silent(CoreType(l, m))
        BY SingleSilent, CoreTypeSilent DEF Single
      <3> QED
        BY <2>3, <3>1, SilentJoined
    <2>5. todo' \notin {<< "close", "open", "body" >>, << "open", "body" >>}
      BY <2>4, NothingToOpen DEF Silent, Gentle
    <2> QED
      BY <1>6, <2>1, <2>4, <2>5 DEF Use, Silent, Gentle, settings
  <1>7. CASE UseDapLink \/ UseJLink \/ UseOpenOcd \/ Open
    <2>1. PICK l, m : Use(l, m)
      BY <1>7 DEF UseDapLink, UseJLink, UseOpenOcd, Open
    <2>2. At("use_daplink") \/ At("use_jlink") \/ At("use_openocd") \/ At("open")
      BY <1>7 DEF UseDapLink, UseJLink, UseOpenOcd, Open
    <2> QED
      BY <1>6, <2>1, <2>2
  <1> QED
    BY <1>2, <1>3, <1>4, <1>5, <1>7 DEF ConnectionStep

LEMMA ConnectTypes ==
    ASSUME StateOK, Connecting, Emptyline \/ ConnectionStep
    PROVE  StateOK' /\ Connecting'
  <1>1. /\ todo' \in ConnLists \/ Silent(todo')
        /\ todo' \in Seq(Steps)
        /\ todo' \in {<< "close", "open", "body" >>, << "open", "body" >>} => xlk' # "none"
        /\ UNCHANGED << target, wasHalted, block, faults, stored >>
    BY ConnectSteps
  <1>2. Connecting'
    BY <1>1 DEF Connecting, Silent, Gentle
  <1>3. << >> \in Seq(Replies) /\ Len(<< >>) <= MaxLate /\ late \in Seq(Replies) /\ Len(late) <= MaxLate
    BY EmptySeq, XLinkAssumption DEF StateOK
  <1>4. late' \in {late, << >>}
    BY DEF Emptyline, ConnectionStep, Find, OpenProbe, InitDebugPort, UseDapLink, UseJLink, UseOpenOcd, Use, Close, Open, link
  <1>5. late' \in Seq(Replies) /\ Len(late') <= MaxLate
    BY <1>3, <1>4
  <1>6. /\ ran' \in BOOLEAN /\ mixed' \in BOOLEAN /\ owed' \in {"running", "halted", "none"}
    BY ConnectSteps DEF StateOK
  <1>7. alive' \in BOOLEAN /\ mode' \in Modes
    BY DEF StateOK, Emptyline, ConnectionStep, Find, OpenProbe, InitDebugPort, UseDapLink, UseJLink, UseOpenOcd, Use, Close, Open,
           link, settings, Modes
  <1>8. /\ xlk' \in {"none", "daplink", "jlink", "openocd"} /\ linkMode' \in Modes \cup {"none"}
        /\ (xlk' = "none") = (linkMode' = "none")
    <2>1. CASE UNCHANGED << xlk, linkMode >>
      BY <2>1 DEF StateOK
    <2>2. ASSUME NEW l \in {"daplink", "jlink", "openocd"}, NEW m \in Modes, Use(l, m)
          PROVE  /\ xlk' \in {"none", "daplink", "jlink", "openocd"} /\ linkMode' \in Modes \cup {"none"}
                 /\ (xlk' = "none") = (linkMode' = "none")
      BY <2>2 DEF Use, Modes
    <2>3. CASE UseDapLink \/ UseJLink \/ UseOpenOcd
      <3>1. mode \in Modes /\ "arm" \in Modes /\ "rv" \in Modes
        BY DEF StateOK, Modes
      <3> QED
        BY <2>2, <2>3, <3>1 DEF UseDapLink, UseJLink, UseOpenOcd
    <2>4. CASE Open
      <3>1. xlk # "none"
        BY <2>4, ConnectingTails DEF Open, At, Connects
      <3>2. (IF xlk = "daplink" THEN "arm" ELSE mode) \in Modes
        BY DEF StateOK, Modes
      <3> QED
        BY <2>2, <2>4, <3>1, <3>2 DEF Open, StateOK
    <2>5. CASE Emptyline \/ Find \/ OpenProbe \/ InitDebugPort \/ Close
      BY <2>1, <2>5 DEF Emptyline, Find, OpenProbe, InitDebugPort, Close, link
    <2> QED
      BY <2>3, <2>4, <2>5 DEF ConnectionStep
  <1> QED
    BY <1>1, <1>2, <1>5, <1>6, <1>7, <1>8 DEF StateOK, target
\* The steps that end a command at once.
Ending == Over /\ owed' = "none"
Gives == ConnectionFails \/ do_exit \/ Interrupt
Faults == (DapLinkFault \/ OpenOcdTimeout) /\ UNCHANGED settings

LEMMA EndingSteps == ASSUME Gives \/ Faults PROVE Ending
  BY DEF Gives, Faults, ConnectionFails, do_exit, Interrupt, Leave, DapLinkFault, OpenOcdTimeout, Raises, Ending

LEMMA EndingTypes == ASSUME StateOK, Gives \/ Faults PROVE StateOK' /\ Connecting'
  <1>1. todo' = << >>
    BY EndingSteps DEF Ending, Over
  <1>2. Connecting'
    BY <1>1, LacksEmpty DEF Connecting
  <1>3. << >> \in Seq(Replies) /\ Len(<< >>) <= MaxLate
    BY EmptySeq, XLinkAssumption
  <1>4. CASE Gives
    <2>1. Over /\ Drop /\ owed' = "none" /\ UNCHANGED << target, stored >> /\ mode' \in {mode, stored}
      BY <1>4 DEF Gives, ConnectionFails, do_exit, Interrupt, Leave, settings
    <2>2. 0 \in 0 .. MaxFaults
      BY XLinkAssumption
    <2>3. wasHalted' \in BOOLEAN /\ ran' \in BOOLEAN /\ alive' \in BOOLEAN /\ mixed' \in BOOLEAN
      BY <2>1 DEF Over, Drop
    <2>4. faults' \in 0 .. MaxFaults /\ late' \in Seq(Replies) /\ Len(late') <= MaxLate /\ todo' \in Seq(Steps)
      BY <1>1, <1>3, <2>1, <2>2, EmptyType DEF Over, Drop
    <2> QED
      BY <1>2, <2>1, <2>3, <2>4 DEF StateOK, Drop, target
  <1>5. CASE DapLinkFault /\ UNCHANGED settings
    <2>1. Raises(<< >>) /\ UNCHANGED target
      BY <1>5 DEF DapLinkFault
    <2>2. chip' \in Chips /\ core' \in {"running", "halted"} /\ catch' \in BOOLEAN
      BY <2>1 DEF target, StateOK
    <2> QED
      BY <1>2, <1>3, <1>5, <2>1, <2>2, RaisesTypes
  <1>6. CASE OpenOcdTimeout /\ UNCHANGED settings
    <2> DEFINE left == Append(late, Answer)
    <2>1. Takes /\ Raises(left) /\ Len(late) < MaxLate
      BY <1>6 DEF OpenOcdTimeout
    <2>2. late \in Seq(Replies) /\ Answer \in Replies /\ Len(late) \in Nat
      BY AnswerType, LenProperties DEF StateOK
    <2>3. left \in Seq(Replies) /\ Len(left) = Len(late) + 1
      BY <2>2, AppendProperties
    <2> HIDE DEF left
    <2>4. Len(left) <= MaxLate
      BY <2>1, <2>2, <2>3, XLinkAssumption
    <2>5. chip' \in Chips /\ core' \in {"running", "halted"} /\ catch' \in BOOLEAN
      BY <2>1, TakesTypes
    <2> QED
      BY <1>2, <1>6, <2>1, <2>3, <2>4, <2>5, RaisesTypes
  <1> QED
    BY <1>4, <1>5, <1>6 DEF Faults

\* A command's list is its check, which is silent, and its body.
Check == read_core_type \o << "body" >>

LEMMA CheckSilent == Silent(Check)
  <1>1. Silent(<< "body" >>)
    BY SingleSilent DEF Single
  <1> QED
    BY <1>1, WordsSilent, SilentJoined DEF Check

LEMMA CommandList ==
    ASSUME StateOK, NEW told \in {"running", "halted", "none"}, NEW body \in Seq(Steps), Given(told, body)
    PROVE  /\ todo = << >> /\ todo' = Check \o body /\ Check \in Seq(Steps)
           /\ Fit(todo') /\ Tells(todo', told)
           /\ ran' = (core = "running") /\ owed' = told
           /\ UNCHANGED << target, link, wasHalted, faults, mixed, settings >>
  <1>1. Silent(Check) /\ Check \in Seq(Steps)
    BY CheckSilent DEF Silent, Gentle
  <1>2. Fit(Check) /\ Fit(body) /\ Tells(body, told)
    BY <1>1, GentleFit DEF Given, Silent
  <1>3. todo = << >> /\ todo' = Check \o body
    BY DEF Given, Command, Check
  <1>4. Fit(todo')
    BY <1>2, <1>3, FitJoined
  <1>5. Tells(Check \o body, told)
    BY <1>1, <1>2, TellsBehind
  <1>6. Tells(todo', told)
    BY <1>3, <1>5
  <1>7. /\ ran' = (core = "running") /\ owed' = told
        /\ UNCHANGED << target, link, wasHalted, faults, mixed, settings >>
    BY DEF Given, Command
  <1> QED
    BY <1>1, <1>3, <1>4, <1>6, <1>7

\* The actions that leave the command in progress alone.
Settings == do_mode \/ do_speed \/ do_path
Aside == Settings \/ ((Breakpoint \/ PowerCycle) /\ UNCHANGED settings)

LEMMA AsideTypes == ASSUME StateOK, Connecting, Aside PROVE StateOK' /\ Connecting'
  <1>1. UNCHANGED << todo, xlk >>
    BY DEF Aside, Settings, do_mode, do_speed, do_path, Breakpoint, PowerCycle, xlinkVars, link
  <1>2. Connecting'
    BY <1>1 DEF Connecting
  <1>3. CASE Settings
    <2>1. UNCHANGED xlinkVars /\ mode' \in Modes /\ stored' \in Modes
      BY <1>3 DEF Settings, do_mode, do_speed, do_path, saveSetting, StateOK
    <2> QED
      BY <1>2, <2>1 DEF StateOK, xlinkVars, target, link
  <1>4. CASE Breakpoint /\ UNCHANGED settings
    <2>1. owed' \in {"running", "halted", "none"} /\ core' = "halted"
      BY <1>4 DEF Breakpoint, StateOK
    <2> QED
      BY <1>2, <1>4, <2>1 DEF Breakpoint, StateOK, settings, link
  <1>5. CASE PowerCycle /\ UNCHANGED settings
    <2>1. owed' = "none" /\ core' = "running" /\ catch' = FALSE /\ alive' = FALSE /\ ran' \in BOOLEAN
      BY <1>5 DEF PowerCycle
    <2> QED
      BY <1>2, <1>5, <2>1 DEF PowerCycle, StateOK, settings
  <1> QED
    BY <1>3, <1>4, <1>5 DEF Aside

\* Every step is one of these.
LEMMA NextCases ==
    ASSUME Next
    PROVE  \/ Emptyline \/ ConnectionStep
           \/ Commands
           \/ LinkStep /\ UNCHANGED settings
           \/ Gives \/ Faults
           \/ Aside
  BY DEF Next, Advance, ConnectionStep, Gives, Faults, Aside, Settings

LEMMA TypesInvariant == Spec => [](StateOK /\ Connecting)
  <1>1. Init => StateOK /\ Connecting
    <2> SUFFICES ASSUME Init PROVE StateOK /\ Connecting
      OBVIOUS
    <2>1. << >> \in Seq(Replies) /\ Len(<< >>) <= MaxLate /\ 0 \in 0 .. MaxFaults /\ << >> \in Seq(Steps)
      BY EmptySeq, XLinkAssumption
    <2> QED
      BY <2>1, LacksEmpty DEF Init, StateOK, Connecting
  <1>2. StateOK /\ Connecting /\ [Next]_vars => (StateOK /\ Connecting)'
    <2> SUFFICES ASSUME StateOK, Connecting, [Next]_vars PROVE StateOK' /\ Connecting'
      OBVIOUS
    <2>1. CASE Emptyline \/ ConnectionStep
      BY <2>1, ConnectTypes
    <2>2. CASE Commands
      <3>1. PICK told \in {"running", "halted", "none"}, body \in Seq(Steps) : Given(told, body)
        BY <2>2, CommandsGiven
      <3>2. /\ Fit(todo') /\ ran' = (core = "running") /\ owed' = told
            /\ UNCHANGED << target, link, wasHalted, faults, mixed, settings >>
        BY <3>1, CommandList
      <3>3. todo' \in Seq(Steps) /\ Lacks(todo', Connects)
        BY <3>2 DEF Fit
      <3>4. todo' \notin {<< "close", "open", "body" >>, << "open", "body" >>}
        BY <3>3, NothingToOpen
      <3> QED
        BY <3>2, <3>3, <3>4 DEF Connecting, StateOK, target, link, settings
    <2>3. CASE LinkStep /\ UNCHANGED settings
      BY <2>3, LinkTypes, LinkConnecting
    <2>4. CASE Gives \/ Faults
      BY <2>4, EndingTypes
    <2>5. CASE Aside
      BY <2>5, AsideTypes
    <2>6. CASE UNCHANGED vars
      BY <2>6 DEF vars, xlinkVars, target, link, settings, StateOK, Connecting
    <2> QED
      BY <2>1, <2>2, <2>3, <2>4, <2>5, <2>6, NextCases
  <1> QED
    BY <1>1, <1>2, PTL DEF Spec
-----------------------------------------------------------------------------
(* Halted cores *)

LEMMA HaltInvariant == Spec => []HaltInv
  <1>1. Init => HaltInv
    BY DEF Init, HaltInv
  <1>2. StateOK /\ Connecting /\ HaltInv /\ [Next]_vars => HaltInv'
    <2> SUFFICES ASSUME StateOK, Connecting, HaltInv, [Next]_vars PROVE HaltInv'
      OBVIOUS
    <2>1. CASE Emptyline \/ ConnectionStep
      <3>1. /\ todo' \in ConnLists \/ Silent(todo')
            /\ UNCHANGED << target, wasHalted, block, faults, stored >>
            /\ \/ Emptyline /\ todo' \in ConnLists /\ ran' = (core = "running") /\ owed' = core /\ UNCHANGED << link, mixed >>
               \/ todo # << >> /\ Head(todo) \in Connects /\ UNCHANGED << ran, owed >> /\ mixed' \in {mixed, FALSE}
        BY <2>1, ConnectSteps
      <3>2. Led(todo', FALSE)
        BY <3>1, ConnListsBegin, NeutralLed DEF Silent, Gentle
      <3>3. Led(todo', wasHalted')
        BY <3>2, LedMore
      <3>4. ~ran' => core' = "halted"
        <4>1. core' = core /\ core \in {"running", "halted"}
          BY <3>1 DEF target, StateOK
        <4>2. CASE ran' = (core = "running")
          BY <4>1, <4>2
        <4>3. CASE todo # << >> /\ Head(todo) \in Connects /\ ran' = ran
          BY <4>1, <4>3 DEF HaltInv
        <4> QED
          BY <3>1, <4>2, <4>3
      <3> QED
        BY <3>3, <3>4 DEF HaltInv
    <2>2. CASE Commands
      <3>1. PICK told \in {"running", "halted", "none"}, body \in Seq(Steps) : Given(told, body)
        BY <2>2, CommandsGiven
      <3>2. Fit(todo') /\ ran' = (core = "running") /\ UNCHANGED target
        BY <3>1, CommandList
      <3>3. Led(todo', wasHalted')
        BY <3>2, LedMore DEF Fit
      <3> QED
        BY <3>2, <3>3 DEF HaltInv, target, StateOK
    <2>3. CASE LinkStep /\ UNCHANGED settings
      BY <2>3, LinkHalt
    <2>4. CASE Gives \/ Faults
      BY <2>4, EndingSteps DEF Ending, Over, HaltInv
    <2>5. CASE Settings
      BY <2>5 DEF Settings, do_mode, do_speed, do_path, xlinkVars, target, HaltInv
    <2>6. CASE Breakpoint
      BY <2>6 DEF Breakpoint, HaltInv
    <2>7. CASE PowerCycle
      <3>1. todo' = todo /\ ran' = (todo # << >>)
        BY <2>7 DEF PowerCycle
      <3> QED
        BY <3>1 DEF HaltInv
    <2>8. CASE UNCHANGED vars
      BY <2>8 DEF vars, xlinkVars, target, HaltInv
    <2> QED
      BY <2>1, <2>2, <2>3, <2>4, <2>5, <2>6, <2>7, <2>8, NextCases DEF Aside
  <1> QED
    BY <1>1, <1>2, TypesInvariant, PTL DEF Spec

\* What lets a halted core run.
LEMMA LetsRun ==
    ASSUME StateOK, LinkStep \/ OpenOcdTimeout, core = "halted", core' = "running"
    PROVE  Head(todo) \in {"go", "reset"} \/ (Head(todo) = "go_back" /\ ~wasHalted)
  <1>1. Takes /\ todo # << >> /\ (At("go_back") => ~wasHalted)
    BY DEF LinkStep, OpenOcdTimeout, DapLinkAccess, JLinkAccess, OpenOcdAccess, Report, Fail, Pass, InAccess, GoesBack, target
  <1> QED
    BY <1>1 DEF Takes, At

(* A command lets a halted core run only where it was told to, with go or  *)
(* reset, or where the core ran when the command began: every access of    *)
(* OpenOCD lets the core run again only if it saw it run.                  *)
THEOREM HaltedCoresStay == Spec => StaysHalted
  <1>1. ASSUME StateOK, Connecting, HaltInv, [Next]_vars
        PROVE  [core = "halted" /\ core' = "running" /\ todo # << >> /\ todo' # todo
                  => Head(todo) \in {"go", "reset"} \/ ran \/ mixed \/ mixed']_vars
    <2> SUFFICES ASSUME Next, core = "halted", core' = "running", todo # << >>, todo' # todo, ~ran, ~mixed
                 PROVE  Head(todo) \in {"go", "reset"}
      BY <1>1
    <2>1. Led(todo, wasHalted)
      BY <1>1 DEF HaltInv
    <2>2. ~(Head(todo) = "go_back" /\ ~wasHalted)
      <3>1. 1 \in 1 .. Len(todo) /\ Head(todo) = todo[1]
        BY <1>1, Bounds DEF StateOK
      <3> QED
        BY <2>1, <3>1 DEF Led
    <2>3. CASE Emptyline \/ ConnectionStep
      BY <1>1, <2>3, ConnectSteps DEF target
    <2>4. CASE Commands
      <3>1. PICK told \in {"running", "halted", "none"}, body \in Seq(Steps) : Given(told, body)
        BY <1>1, <2>4, CommandsGiven
      <3> QED
        BY <1>1, <3>1, CommandList
    <2>5. CASE LinkStep \/ OpenOcdTimeout
      BY <1>1, <2>2, <2>5, LetsRun
    <2>6. CASE Gives \/ DapLinkFault
      BY <2>6 DEF Gives, ConnectionFails, do_exit, Interrupt, Leave, DapLinkFault, target
    <2>7. CASE Aside
      BY <2>7 DEF Aside, Settings, do_mode, do_speed, do_path, Breakpoint, PowerCycle, xlinkVars
    <2> QED
      BY <2>3, <2>4, <2>5, <2>6, <2>7, NextCases DEF Faults
  <1>2. StateOK /\ Connecting /\ HaltInv /\ [Next]_vars
          => [core = "halted" /\ core' = "running" /\ todo # << >> /\ todo' # todo
                => Head(todo) \in {"go", "reset"} \/ ran \/ mixed \/ mixed']_vars
    BY <1>1
  <1> QED
    BY <1>2, TypesInvariant, HaltInvariant, PTL DEF Spec, StaysHalted
-----------------------------------------------------------------------------
(* The items of a block *)

Items == [addr : Nat, item : Nat]
Blocks == [asked : Nat, index : Nat, addr : Nat, moved : Seq(Items)]

\* The items moved so far are those of the range, in order.
InOrder(b) == \A i \in 1 .. Len(b.moved) : b.moved[i] = [addr |-> i - 1, item |-> i - 1]

\* Before a request, address and index are where the items end, and some are left.
Fresh(b) ==
    /\ InOrder(b)
    /\ b.index = Len(b.moved) /\ b.addr = Len(b.moved)
    /\ b.index = 0 \/ b.index < b.asked

Sized(b) == b.moved # << >> => Len(b.moved) < b.asked + Chunk

Complete == InOrder(block) /\ (faults = 0 /\ ~mixed => Len(block.moved) >= block.asked)

BlockInv ==
    /\ block \in Blocks /\ Sized(block)
    /\ \/ Lacks(todo, Transfers)
       \/ Fresh(block) /\ OneMove(todo) /\ (block.moved # << >> => xlk = "openocd")
       \/ Lacks(todo, Moves) /\ Complete

LEMMA NewBlocks ==
    /\ NoBlock \in Blocks /\ InOrder(NoBlock) /\ Sized(NoBlock) /\ NoBlock.asked = 0 /\ NoBlock.moved = << >>
    /\ \A count \in Nat : BlockOf(count) \in Blocks /\ Fresh(BlockOf(count)) /\ Sized(BlockOf(count))
  <1>1. << >> \in Seq(Items) /\ Len(<< >>) = 0
    BY EmptySeq
  <1>2. /\ NoBlock \in Blocks /\ NoBlock.asked = 0 /\ NoBlock.index = 0 /\ NoBlock.addr = 0 /\ NoBlock.moved = << >>
    BY <1>1 DEF NoBlock, Blocks
  <1>3. ASSUME NEW count \in Nat
        PROVE  /\ BlockOf(count) \in Blocks /\ BlockOf(count).index = 0 /\ BlockOf(count).addr = 0
               /\ BlockOf(count).moved = << >>
    BY <1>1 DEF NoBlock, BlockOf, Blocks
  <1> QED
    BY <1>1, <1>2, <1>3 DEF InOrder, Fresh, Sized

LEMMA BlockTypes ==
    ASSUME block \in Blocks
    PROVE  block.asked \in Nat /\ block.index \in Nat /\ block.addr \in Nat /\ block.moved \in Seq(Items)
           /\ Len(block.moved) \in Nat
  <1>1. block.asked \in Nat /\ block.index \in Nat /\ block.addr \in Nat /\ block.moved \in Seq(Items)
    BY DEF Blocks
  <1> QED
    BY <1>1, LenProperties

\* One request adds the items that come next.
LEMMA MovedIs ==
    ASSUME block \in Blocks, Fresh(block), NEW n \in Nat
    PROVE  /\ Moved(n) \in Seq(Items) /\ Len(Moved(n)) = n
           /\ \A i \in 1 .. n : Moved(n)[i] = [addr |-> Len(block.moved) + i - 1, item |-> Len(block.moved) + i - 1]
  <1>1. Len(block.moved) \in Nat /\ block.index = Len(block.moved) /\ block.addr = Len(block.moved)
    BY BlockTypes DEF Fresh
  <1>2. Moved(n) = [i \in 1 .. n |-> [addr |-> Len(block.moved) + i - 1, item |-> Len(block.moved) + i - 1]]
    BY <1>1 DEF Moved
  <1>3. \A i \in 1 .. n : [addr |-> Len(block.moved) + i - 1, item |-> Len(block.moved) + i - 1] \in Items
    <2>1. ASSUME NEW i \in 1 .. n PROVE Len(block.moved) + i - 1 \in Nat
      BY <1>1
    <2> QED
      BY <2>1 DEF Items
  <1>4. Moved(n) \in [1 .. n -> Items]
    BY <1>2, <1>3
  <1>5. Moved(n) \in Seq(Items)
    BY <1>4, SeqDef
  <1>6. Len(Moved(n)) = n
    BY <1>4, <1>5, LenProperties
  <1> QED
    BY <1>2, <1>5, <1>6

LEMMA InOrderMore ==
    ASSUME block \in Blocks, Fresh(block), NEW n \in Nat, NEW b, b.moved = block.moved \o Moved(n)
    PROVE  b.moved \in Seq(Items) /\ Len(b.moved) = Len(block.moved) + n /\ InOrder(b)
  <1> DEFINE l == Len(block.moved)
             m == Moved(n)
             s == block.moved
  <1>1. l \in Nat /\ s \in Seq(Items) /\ \A i \in 1 .. l : s[i] = [addr |-> i - 1, item |-> i - 1]
    BY BlockTypes DEF Fresh, InOrder
  <1>2. m \in Seq(Items) /\ Len(m) = n /\ \A i \in 1 .. n : m[i] = [addr |-> l + i - 1, item |-> l + i - 1]
    BY MovedIs
  <1>3. /\ s \o m \in Seq(Items) /\ Len(s \o m) = Len(s) + Len(m)
        /\ \A i \in 1 .. Len(s) + Len(m) : (s \o m)[i] = IF i <= Len(s) THEN s[i] ELSE m[i - Len(s)]
    BY <1>1, <1>2, ConcatProperties
  <1>4. Len(s) = l
    OBVIOUS
  <1> HIDE DEF l, m, s
  <1>5. ASSUME NEW i \in 1 .. l + n PROVE (s \o m)[i] = [addr |-> i - 1, item |-> i - 1]
    <2>1. CASE i <= l
      BY <1>1, <1>2, <1>3, <1>4, <2>1
    <2>2. CASE ~(i <= l)
      <3>1. i - l \in 1 .. n /\ l + (i - l) - 1 = i - 1
        BY <1>1, <2>2
      <3>2. m[i - l] = [addr |-> l + (i - l) - 1, item |-> l + (i - l) - 1]
        BY <1>2, <3>1
      <3> QED
        BY <1>1, <1>2, <1>3, <1>4, <2>2, <3>1, <3>2
    <2> QED
      BY <2>1, <2>2
  <1>6. b.moved = s \o m
    BY DEF s, m
  <1> QED
    BY <1>1, <1>2, <1>3, <1>4, <1>5, <1>6 DEF InOrder, l

LEMMA ChunkRight ==
    ASSUME block \in Blocks, Fresh(block)
    PROVE  LET b == NextChunk
           IN  b \in Blocks /\ Sized(b) /\ (ItemsLeft(b) => Fresh(b)) /\ (~ItemsLeft(b) => InOrder(b) /\ Len(b.moved) >= b.asked)
  <1> DEFINE n == IF At("read") THEN Lesser(Chunk, block.asked) ELSE Lesser(Chunk, block.asked - block.index)
             b == NextChunk
  <1>1. /\ block.asked \in Nat /\ block.index \in Nat /\ block.addr \in Nat /\ Len(block.moved) \in Nat
        /\ block.index = Len(block.moved) /\ block.addr = Len(block.moved)
        /\ block.index = 0 \/ block.index < block.asked
        /\ Chunk \in Nat /\ Chunk >= 1
    BY BlockTypes, XLinkAssumption DEF Fresh
  <1>2. n \in Nat /\ n <= Chunk /\ (n = Chunk \/ block.index + n >= block.asked)
    BY <1>1 DEF Lesser
  <1>3. /\ b.asked = block.asked /\ b.index = block.index + Chunk /\ b.addr = block.addr + Chunk
        /\ b.moved = block.moved \o Moved(n)
        /\ b \in [asked : {b.asked}, index : {b.index}, addr : {b.addr}, moved : {b.moved}]
    <2>1. b = [block EXCEPT !.addr = block.addr + Chunk, !.index = block.index + Chunk,
                            !.moved = block.moved \o Moved(n)]
      BY DEF NextChunk
    <2>2. block \in [asked : Nat, index : Nat, addr : Nat, moved : Seq(Items)]
      BY DEF Blocks
    <2> HIDE DEF n, b
    <2> QED
      BY <2>1, <2>2
  <1> HIDE DEF n, b
  <1>4. b.moved \in Seq(Items) /\ Len(b.moved) = Len(block.moved) + n /\ InOrder(b)
    BY <1>2, <1>3, InOrderMore
  <1>5. b.asked \in Nat /\ b.index \in Nat /\ b.addr \in Nat
    BY <1>1, <1>3
  <1>6. b \in Blocks
    BY <1>3, <1>4, <1>5 DEF Blocks
  <1>7. Sized(b)
    <2>1. CASE block.asked = 0
      <3>1. Len(block.moved) = 0 /\ block.index = 0
        BY <1>1, <2>1
      <3>2. n = 0
        BY <1>1, <2>1, <3>1 DEF n, Lesser
      <3>3. Len(b.moved) = 0
        BY <1>4, <3>1, <3>2
      <3> QED
        BY <1>4, <3>3, EmptySeq DEF Sized
    <2>2. CASE block.asked # 0
      <3>1. Len(block.moved) < block.asked
        BY <1>1, <2>2
      <3> QED
        BY <1>1, <1>2, <1>3, <1>4, <3>1 DEF Sized
    <2> QED
      BY <2>1, <2>2
  <1>8. ASSUME ItemsLeft(b) PROVE Fresh(b)
    <2>1. b.index < b.asked
      BY <1>8 DEF ItemsLeft
    <2>2. n = Chunk
      BY <1>1, <1>3, <2>1 DEF n, Lesser
    <2> QED
      BY <1>1, <1>3, <1>4, <2>1, <2>2 DEF Fresh
  <1>9. ASSUME ~ItemsLeft(b) PROVE Len(b.moved) >= b.asked
    <2>1. b.index >= b.asked
      BY <1>5, <1>9 DEF ItemsLeft
    <2> QED
      BY <1>1, <1>2, <1>3, <1>4, <2>1
  <1> QED
    BY <1>4, <1>6, <1>7, <1>8, <1>9 DEF b
LEMMA WholeRight ==
    ASSUME block \in Blocks, Fresh(block), block.moved = << >>
    PROVE  WholeBlock \in Blocks /\ Sized(WholeBlock) /\ InOrder(WholeBlock) /\ Len(WholeBlock.moved) >= WholeBlock.asked
           /\ ~ItemsLeft(WholeBlock)
  <1> DEFINE n == block.asked
             b == WholeBlock
  <1>1. n \in Nat /\ block.addr \in Nat /\ Chunk \in Nat /\ Chunk >= 1 /\ Len(block.moved) = 0
    BY BlockTypes, XLinkAssumption, EmptySeq
  <1>2. /\ b.asked = n /\ b.index = n /\ b.moved = Moved(n)
        /\ b \in [asked : {b.asked}, index : {b.index}, addr : {block.addr}, moved : {b.moved}]
    <2>1. b = [block EXCEPT !.index = n, !.moved = Moved(n)]
      BY DEF WholeBlock
    <2>2. block \in [asked : Nat, index : Nat, addr : Nat, moved : Seq(Items)]
      BY DEF Blocks
    <2>3. n = block.asked
      OBVIOUS
    <2> HIDE DEF n, b
    <2> QED
      BY <2>1, <2>2, <2>3
  <1>3. /\ Moved(n) \in Seq(Items) /\ Len(Moved(n)) = n
        /\ \A i \in 1 .. n : Moved(n)[i] = [addr |-> Len(block.moved) + i - 1, item |-> Len(block.moved) + i - 1]
    BY <1>1, MovedIs
  <1> HIDE DEF n, b
  <1>4. b \in Blocks
    BY <1>1, <1>2, <1>3 DEF Blocks
  <1>5. \A i \in 1 .. n : b.moved[i] = [addr |-> i - 1, item |-> i - 1]
    <2>1. ASSUME NEW i \in 1 .. n PROVE Len(block.moved) + i - 1 = i - 1
      BY <1>1
    <2> QED
      BY <1>2, <1>3, <2>1
  <1>6. InOrder(b)
    BY <1>2, <1>3, <1>5 DEF InOrder
  <1>7. Len(b.moved) = b.asked /\ Sized(b) /\ ~ItemsLeft(b)
    BY <1>1, <1>2, <1>3 DEF Sized, ItemsLeft
  <1> QED
    BY <1>1, <1>2, <1>4, <1>6, <1>7 DEF b

LEMMA OneMoveShortens ==
    ASSUME NEW s \in Seq(Steps), s # << >>, NEW t \in Seq(Steps), Shortens(t, s), OneMove(s)
    PROVE  /\ Head(s) \in Moves => Lacks(t, Moves)
           /\ Head(s) \notin Moves => OneMove(t) /\ Head(s) # "print"
  <1>1. /\ Len(s) \in Nat /\ Len(t) \in Nat /\ Len(t) = Len(s) - 1 /\ Head(s) = s[1] /\ Len(s) >= 1
        /\ \A i \in 1 .. Len(t) : \/ t[i] = s[i + 1]
                                  \/ t[i] \notin Transfers /\ s[i + 1] \notin Transfers
    BY LenProperties, Bounds DEF Shortens, Transfers
  <1>2. \A x : x \in Moves \/ x = "print" => x \in Transfers
    BY DEF Moves, Transfers
  <1>3. PICK n \in 1 .. Len(s) : s[n] \in Moves /\ \A j \in 1 .. Len(s) : (j # n => s[j] \notin Moves) /\ (s[j] = "print" => n < j)
    BY DEF OneMove
  <1>4. ASSUME Head(s) \in Moves, NEW i \in 1 .. Len(t) PROVE t[i] \notin Moves
    <2>1. n = 1 /\ i + 1 \in 1 .. Len(s) /\ i + 1 # n
      BY <1>1, <1>3, <1>4
    <2> QED
      BY <1>1, <1>2, <1>3, <2>1
  <1>5. ASSUME Head(s) \notin Moves PROVE OneMove(t) /\ Head(s) # "print"
    <2>1. n # 1 /\ n - 1 \in 1 .. Len(t) /\ (n - 1) + 1 = n
      BY <1>1, <1>3, <1>5
    <2>2. t[n - 1] \in Moves
      BY <1>1, <1>2, <1>3, <2>1
    <2>3. ASSUME NEW j \in 1 .. Len(t) PROVE (j # n - 1 => t[j] \notin Moves) /\ (t[j] = "print" => n - 1 < j)
      <3>1. j + 1 \in 1 .. Len(s) /\ (j # n - 1 => j + 1 # n) /\ (n < j + 1 => n - 1 < j)
        BY <1>1, <2>1
      <3> QED
        BY <1>1, <1>2, <1>3, <3>1
    <2>4. Head(s) # "print"
      BY <1>1, <1>3, <2>1
    <2> QED
      BY <2>1, <2>2, <2>3, <2>4 DEF OneMove
  <1> QED
    BY <1>4, <1>5 DEF Lacks

LEMMA OneMoveDelays ==
    ASSUME NEW s \in Seq(Steps), s # << >>, NEW t \in Seq(Steps), Delays(t, s), OneMove(s), Head(s) \notin Transfers
    PROVE  OneMove(t)
  <1>1. /\ Len(s) \in Nat /\ Len(t) = Len(s) /\ Head(s) = s[1] /\ Len(s) >= 1 /\ t[1] \notin Transfers
        /\ \A i \in 1 .. Len(s) : t[i] = s[i] \/ (i = 1 /\ s[i] \notin Transfers)
    BY LenProperties, Bounds DEF Delays, Transfers
  <1>2. \A x : x \in Moves \/ x = "print" => x \in Transfers
    BY DEF Moves, Transfers
  <1>3. PICK n \in 1 .. Len(s) : s[n] \in Moves /\ \A j \in 1 .. Len(s) : (j # n => s[j] \notin Moves) /\ (s[j] = "print" => n < j)
    BY DEF OneMove
  <1>4. t[n] \in Moves /\ \A j \in 1 .. Len(s) : (j # n => t[j] \notin Moves) /\ (t[j] = "print" => n < j)
    BY <1>1, <1>2, <1>3
  <1> QED
    BY <1>1, <1>4 DEF OneMove

LEMMA OneMoveBehind ==
    ASSUME NEW p \in Seq(Steps), NEW s \in Seq(Steps), Lacks(p, Transfers), OneMove(s)
    PROVE  OneMove(p \o s)
  <1> DEFINE u == p \o s
  <1>1. /\ Len(u) = Len(p) + Len(s) /\ Len(s) \in Nat /\ Len(p) \in Nat
        /\ \A i \in 1 .. Len(p) + Len(s) : u[i] = IF i <= Len(p) THEN p[i] ELSE s[i - Len(p)]
    BY ConcatProperties, LenProperties
  <1> HIDE DEF u
  <1>2. \A x : x \in Moves \/ x = "print" => x \in Transfers
    BY DEF Moves, Transfers
  <1>3. PICK n \in 1 .. Len(s) : s[n] \in Moves /\ \A j \in 1 .. Len(s) : (j # n => s[j] \notin Moves) /\ (s[j] = "print" => n < j)
    BY DEF OneMove
  <1>4. /\ Len(p) + n \in 1 .. Len(u) /\ ~(Len(p) + n <= Len(p)) /\ (Len(p) + n) - Len(p) = n
    BY <1>1
  <1>5. u[Len(p) + n] \in Moves
    BY <1>1, <1>3, <1>4
  <1>6. ASSUME NEW j \in 1 .. Len(u)
        PROVE  (j # Len(p) + n => u[j] \notin Moves) /\ (u[j] = "print" => Len(p) + n < j)
    <2>1. CASE j <= Len(p)
      <3>1. j \in 1 .. Len(p) /\ u[j] = p[j]
        BY <1>1, <2>1
      <3> QED
        BY <1>2, <3>1 DEF Lacks
    <2>2. CASE ~(j <= Len(p))
      <3>1. j - Len(p) \in 1 .. Len(s) /\ u[j] = s[j - Len(p)] /\ (j # Len(p) + n => j - Len(p) # n)
            /\ (n < j - Len(p) => Len(p) + n < j)
        BY <1>1, <2>2
      <3> QED
        BY <1>3, <3>1
    <2> QED
      BY <2>1, <2>2
  <1> QED
    BY <1>4, <1>5, <1>6 DEF OneMove, u
\* A request of a block, from which the loop goes on or ends.
LEMMA MoveBlock ==
    ASSUME StateOK, BlockInv, todo # << >>, Head(todo) \in Moves, todo' # << >>,
           DapLinkAccess \/ JLinkAccess \/ OpenOcdAccess
    PROVE  BlockInv'
  <1>1. UNCHANGED << xlk, linkMode, alive >>
    BY Access
  <1>2. PICK reply \in Seq(Replies), failed \in BOOLEAN, mixing \in BOOLEAN : Answered(reply, failed, mixing)
    BY Access
  <1>3. todo \in Seq(Steps) /\ 1 \in 1 .. Len(todo) /\ Head(todo) = todo[1]
    BY Bounds DEF StateOK
  <1>4. ~Lacks(todo, Moves) /\ ~Lacks(todo, Transfers)
    BY <1>3 DEF Lacks, Moves, Transfers
  <1>5. block \in Blocks /\ Fresh(block) /\ OneMove(todo) /\ (block.moved # << >> => xlk = "openocd") /\ Sized(block)
    BY <1>4 DEF BlockInv
  <1>6. Tail(todo) \in Seq(Steps) /\ Lacks(Tail(todo), Moves)
    BY <1>3, <1>5, TailType, OneMoveShortens
  <1>7. At("read") \/ At("write")
    BY DEF At, Moves
  <1>8. CASE At("read") /\ reply # << "data" >>
    <2>1. block' = block /\ todo' = Tail(todo)
      BY <1>2, <1>8 DEF Answered, Proceeds, At
    <2>2. faults' # 0 \/ mixed'
      <3>1. mixing \/ (failed /\ faults < MaxFaults)
        BY <1>2, <1>8 DEF Answered
      <3>2. Remember(failed, mixing)
        BY <1>2 DEF Answered
      <3>3. mixing => mixed'
        BY <3>2 DEF Remember
      <3>4. failed => faults' = Lesser(faults + 1, MaxFaults)
        BY <3>2 DEF Remember
      <3>5. faults < MaxFaults => Lesser(faults + 1, MaxFaults) # 0
        BY XLinkAssumption DEF Lesser, StateOK
      <3> QED
        BY <3>1, <3>3, <3>4, <3>5
    <2>3. Complete'
      BY <1>5, <2>1, <2>2 DEF Complete, Fresh, InOrder
    <2> QED
      BY <1>5, <1>6, <2>1, <2>3 DEF BlockInv, Sized
  <1>9. CASE ~(At("read") /\ reply # << "data" >>)
    <2>1. block' = IF xlk = "openocd" THEN NextChunk ELSE WholeBlock
      BY <1>2, <1>7, <1>9 DEF Answered, Proceeds
    <2>2. todo' = IF ItemsLeft(block') THEN todo ELSE Tail(todo)
      BY <1>2, <1>7, <1>9 DEF Answered, Proceeds, At
    <2>3. /\ block' \in Blocks /\ Sized(block') /\ (ItemsLeft(block') => Fresh(block') /\ xlk = "openocd")
          /\ ~ItemsLeft(block') => InOrder(block') /\ Len(block'.moved) >= block'.asked
      BY <1>5, <2>1, ChunkRight, WholeRight
    <2>4. CASE ItemsLeft(block')
      <3>1. todo' = todo
        BY <2>2, <2>4
      <3>2. Sized(block)' /\ Fresh(block)' /\ OneMove(todo)' /\ xlk' = "openocd"
        BY <1>1, <1>5, <2>3, <2>4, <3>1 DEF Sized, Fresh, InOrder, OneMove
      <3> QED
        BY <2>3, <3>2 DEF BlockInv
    <2>5. CASE ~ItemsLeft(block')
      <3>1. Lacks(todo, Moves)'
        BY <1>6, <2>2, <2>5 DEF Lacks
      <3>2. Sized(block)' /\ InOrder(block)' /\ Complete'
        BY <2>3, <2>5 DEF Sized, InOrder, Complete
      <3> QED
        BY <2>3, <3>1, <3>2 DEF BlockInv
    <2> QED
      BY <2>4, <2>5
  <1> QED
    BY <1>8, <1>9

\* A step that ends the command ends its block.
LEMMA EndBlock ==
    ASSUME StateOK, BlockInv, todo' = << >>, block' \in {block, NoBlock}
    PROVE  BlockInv'
  <1>1. Lacks(todo', Transfers)
    BY LacksEmpty
  <1>2. block' \in Blocks /\ Sized(block')
    BY NewBlocks DEF BlockInv
  <1> QED
    BY <1>1, <1>2 DEF BlockInv, Sized, Lacks

LEMMA LinkBlock ==
    ASSUME StateOK, BlockInv, LinkStep
    PROVE  BlockInv'
  <1>1. todo # << >> /\ todo' \in Seq(Steps) /\ todo \in Seq(Steps) /\ Evolves
    BY LinkList DEF StateOK
  <1>2. 1 \in 1 .. Len(todo) /\ Head(todo) = todo[1]
    BY <1>1, Bounds
  <1>3. \A x : x \in Moves \/ x = "print" <=> x \in Transfers
    BY DEF Moves, Transfers
  <1>4. CASE Fail
    BY <1>4, EndBlock DEF Fail, Raises, Over
  <1>5. CASE Report
    <2>1. /\ Head(todo) = "print" /\ todo' = Tail(todo) /\ block' = NoBlock /\ Remember(FALSE, FALSE)
      BY <1>5 DEF Report, At
    <2>2. ~OneMove(todo)
      <3>1. ASSUME OneMove(todo) PROVE FALSE
        <4>1. "print" \notin Moves
          BY DEF Moves
        <4>2. Shortens(Tail(todo), todo) /\ Tail(todo) \in Seq(Steps)
          BY <1>1, TailType
        <4> QED
          BY <1>1, <2>1, <3>1, <4>1, <4>2, OneMoveShortens
      <3> QED
        BY <3>1
    <2>3. Lacks(todo, Moves)
      BY <1>3, <2>2 DEF BlockInv, Lacks
    <2>4. Lacks(Tail(todo), Moves)
      BY <1>1, <2>3, TailType, LacksShortens DEF Moves
    <2>5. Complete' /\ Sized(block)' /\ block' \in Blocks
      <3>1. NoBlock \in Blocks /\ InOrder(NoBlock) /\ Sized(NoBlock) /\ NoBlock.asked = 0 /\ NoBlock.moved = << >> /\ Len(<< >>) = 0
        BY NewBlocks, EmptySeq
      <3>2. Len(NoBlock.moved) >= NoBlock.asked
        BY <3>1
      <3> QED
        BY <2>1, <3>1, <3>2 DEF Complete, Sized, InOrder
    <2> QED
      BY <2>1, <2>4, <2>5 DEF BlockInv, Lacks
  <1>6. CASE todo' = << >> /\ (DapLinkAccess \/ JLinkAccess \/ OpenOcdAccess)
    <2>1. CASE \E left : Raises(left)
      BY <1>6, <2>1, EndBlock DEF Raises, Over
    <2>2. ASSUME NEW reply, Proceeds(reply) PROVE BlockInv'
      <3>1. CASE Head(todo) \notin Moves
        <4>1. block' = block
          BY <2>2, <3>1 DEF Proceeds, At, Moves
        <4> QED
          BY <1>6, <4>1, EndBlock
      <3>2. CASE Head(todo) \in Moves
        <4>1. block \in Blocks /\ Fresh(block) /\ (block.moved # << >> => xlk = "openocd") /\ Sized(block)
          BY <1>2, <1>3, <3>2 DEF BlockInv, Lacks
        <4>2. block' \in {block, IF xlk = "openocd" THEN NextChunk ELSE WholeBlock}
          BY <2>2 DEF Proceeds
        <4>3. block' \in Blocks /\ Sized(block')
          BY <4>1, <4>2, ChunkRight, WholeRight
        <4>4. Lacks(todo', Transfers)
          BY <1>6, LacksEmpty
        <4> QED
          BY <4>3, <4>4 DEF BlockInv, Sized, Lacks
      <3> QED
        BY <3>1, <3>2
    <2>3. (\E left : Raises(left)) \/ (\E reply : Proceeds(reply))
      BY <1>6 DEF DapLinkAccess, JLinkAccess, OpenOcdAccess
    <2> QED
      BY <2>1, <2>2, <2>3
  <1>7. CASE todo' # << >> /\ (DapLinkAccess \/ JLinkAccess \/ OpenOcdAccess) /\ Head(todo) \in Moves
    BY <1>1, <1>7, MoveBlock
  <1>8. CASE todo' # << >> /\ (Pass \/ ((DapLinkAccess \/ JLinkAccess \/ OpenOcdAccess) /\ Head(todo) \notin Moves))
    <2>1. \E failed \in BOOLEAN, mixing \in BOOLEAN : Remember(failed, mixing)
      <3>1. CASE Pass
        BY <3>1 DEF Pass
      <3>2. CASE DapLinkAccess \/ JLinkAccess \/ OpenOcdAccess
        BY <1>8, <3>2, Access DEF Answered
      <3> QED
        BY <1>8, <3>1, <3>2
    <2>2. block' = block /\ xlk' = xlk
      <3>1. CASE Pass
        BY <3>1 DEF Pass, link
      <3>2. CASE (DapLinkAccess \/ JLinkAccess \/ OpenOcdAccess) /\ Head(todo) \notin Moves
        <4>1. PICK reply \in Seq(Replies), failed \in BOOLEAN, mixing \in BOOLEAN : Answered(reply, failed, mixing)
          BY <1>8, <3>2, Access
        <4>2. block' = block
          BY <3>2, <4>1 DEF Answered, Proceeds, At, Moves
        <4>3. xlk' = xlk
          BY <1>8, <3>2, Access
        <4> QED
          BY <4>2, <4>3
      <3> QED
        BY <1>8, <3>1, <3>2
    <2>3. faults' = 0 /\ ~mixed' => faults = 0 /\ ~mixed
      <3>1. PICK failed \in BOOLEAN, mixing \in BOOLEAN : Remember(failed, mixing)
        BY <2>1
      <3>2. mixed' = (mixed \/ mixing) /\ faults' = IF failed THEN Lesser(faults + 1, MaxFaults) ELSE faults
        BY <1>8, <3>1 DEF Remember
      <3>3. faults' = 0 => faults = 0
        BY <3>2, XLinkAssumption DEF Lesser, StateOK
      <3> QED
        BY <3>2, <3>3
    <2>4. Head(todo) \notin Moves /\ Head(todo) # "print"
      <3>1. Pass => Head(todo) \in {"check", "body", "wait_out", "go_back"}
        BY DEF Pass, At
      <3>2. (DapLinkAccess \/ JLinkAccess \/ OpenOcdAccess) => Head(todo) # "print"
        BY DEF DapLinkAccess, JLinkAccess, OpenOcdAccess, InAccess, Accesses, Asks, Registers, Words
      <3> QED
        BY <1>8, <3>1, <3>2 DEF Moves
    <2>5. todo' = todo \/ Shortens(todo', todo) \/ (Head(todo) = "look" /\ Delays(todo', todo))
      BY <1>1, <1>8 DEF Evolves
    <2>6. "halt" \notin Transfers /\ "write_word" \notin Transfers /\ "halt" \notin Moves /\ "write_word" \notin Moves
          /\ "look" \notin Transfers
      BY DEF Transfers, Moves
    <2>7. Lacks(todo, Transfers) => Lacks(todo', Transfers)
      BY <1>1, <2>5, <2>6, LacksShortens, LacksDelays
    <2>8. Lacks(todo, Moves) => Lacks(todo', Moves)
      BY <1>1, <2>5, <2>6, LacksShortens, LacksDelays
    <2>9. OneMove(todo) => OneMove(todo')
      BY <1>1, <2>4, <2>5, <2>6, OneMoveShortens, OneMoveDelays
    <2>10. Complete => Complete'
      BY <2>2, <2>3 DEF Complete, InOrder
    <2>11. BlockInv
      OBVIOUS
    <2> QED
      BY <2>2, <2>7, <2>8, <2>9, <2>10, <2>11 DEF BlockInv, Lacks, OneMove, Sized, Fresh, InOrder
  <1>9. CASE todo' = << >> /\ Pass
    BY <1>9, EndBlock DEF Pass
  <1> QED
    BY <1>4, <1>5, <1>6, <1>7, <1>8, <1>9 DEF LinkStep
LEMMA BlockInvariant == Spec => []BlockInv
  <1>1. Init => BlockInv
    <2> SUFFICES ASSUME Init PROVE BlockInv
      OBVIOUS
    <2>1. todo = << >> /\ block = NoBlock
      BY DEF Init
    <2> QED
      BY <2>1, NewBlocks, LacksEmpty DEF BlockInv
  <1>2. StateOK /\ Connecting /\ BlockInv /\ [Next]_vars => BlockInv'
    <2> SUFFICES ASSUME StateOK, Connecting, BlockInv, [Next]_vars PROVE BlockInv'
      OBVIOUS
    <2>1. ASSUME block' = block, Lacks(todo', Transfers) PROVE BlockInv'
      BY <2>1 DEF BlockInv, Lacks, Sized
    <2>2. CASE Emptyline \/ ConnectionStep
      <3>1. (todo' \in ConnLists \/ Silent(todo')) /\ block' = block
        BY <2>2, ConnectSteps
      <3>2. Lacks(todo', Transfers)
        BY <3>1, ConnListsBegin DEF Silent, Gentle, Transfers
      <3> QED
        BY <2>1, <3>1, <3>2
    <2>3. CASE Commands
      <3>1. PICK told \in {"running", "halted", "none"}, body \in Seq(Steps) : Given(told, body)
        BY <2>3, CommandsGiven
      <3>2. todo' = Check \o body /\ Check \in Seq(Steps)
        BY <3>1, CommandList
      <3>3. Lacks(Check, Transfers)
        BY CheckSilent DEF Silent, Gentle
      <3>4. CASE Lacks(body, Transfers) /\ UNCHANGED block
        <4>1. Lacks(todo', Transfers)
          BY <3>2, <3>3, <3>4, LacksJoined
        <4> QED
          BY <2>1, <3>4, <4>1
      <3>5. ASSUME NEW count \in Nat, OneMove(body), block' = BlockOf(count)
            PROVE  BlockInv'
        <4>1. OneMove(todo')
          BY <3>2, <3>3, <3>5, OneMoveBehind
        <4>2. block' \in Blocks /\ Fresh(block') /\ Sized(block') /\ block'.moved = << >>
          BY <3>5, NewBlocks DEF BlockOf, NoBlock
        <4> QED
          BY <4>1, <4>2 DEF BlockInv, Fresh, InOrder, Sized, OneMove
      <3> QED
        BY <3>1, <3>4, <3>5 DEF Given
    <2>4. CASE LinkStep /\ UNCHANGED settings
      BY <2>4, LinkBlock
    <2>5. CASE Gives \/ Faults
      BY <2>5, EndingSteps, EndBlock DEF Ending, Over
    <2>6. CASE Aside \/ UNCHANGED vars
      <3>1. UNCHANGED << todo, block, xlk, faults, mixed >>
        BY <2>6 DEF Aside, Settings, do_mode, do_speed, do_path, Breakpoint, PowerCycle, xlinkVars, link, vars
      <3> QED
        BY <3>1 DEF BlockInv, Lacks, Sized, Fresh, InOrder, OneMove, Complete
    <2> QED
      BY <2>2, <2>3, <2>4, <2>5, <2>6, NextCases
  <1> QED
    BY <1>1, <1>2, TypesInvariant, PTL DEF Spec

(* When the items of a block are printed, saved or loaded, they are those  *)
(* of its range, in order, and all of them if no access failed: for any    *)
(* length of the block and of the chunks it is moved in.                   *)
THEOREM BlocksAreComplete == Spec => []BlockComplete
  <1>1. StateOK /\ BlockInv => BlockComplete
    <2> SUFFICES ASSUME StateOK, BlockInv, At("print") PROVE InOrder(block) /\ Complete /\ DOMAIN block.moved = 1 .. Len(block.moved)
      BY DEF BlockComplete, InOrder, Complete
    <2>1. todo \in Seq(Steps) /\ todo # << >> /\ Head(todo) = "print"
      BY DEF StateOK, At
    <2>2. 1 \in 1 .. Len(todo) /\ todo[1] = "print"
      BY <2>1, Bounds
    <2>3. ~Lacks(todo, Transfers) /\ ~OneMove(todo)
      BY <2>2 DEF Lacks, OneMove, Transfers
    <2>4. Complete
      BY <2>3 DEF BlockInv
    <2>5. block.moved \in Seq(Items)
      BY BlockTypes DEF BlockInv
    <2> QED
      BY <2>4, <2>5, LenProperties DEF Complete
  <1> QED
    BY <1>1, TypesInvariant, BlockInvariant, PTL

(* The state is of its types, and a block holds less than a chunk too much *)
(* at most, whatever fails.                                                *)
THEOREM TypeCorrect == Spec => []TypeOK
  <1>1. StateOK /\ BlockInv => TypeOK
    <2> SUFFICES ASSUME StateOK, BlockInv PROVE TypeOK
      OBVIOUS
    <2>1. {alive, wasHalted, mixed, ran} \subseteq BOOLEAN
      BY DEF StateOK
    <2>2. late \in Seq({"running", "halted", "value", "data", "none"}) /\ Len(late) <= MaxLate
      BY DEF StateOK, Replies
    <2>3. block.moved # << >> => Len(block.moved) < block.asked + Chunk
      BY DEF BlockInv, Sized
    <2> QED
      BY <2>1, <2>2, <2>3 DEF StateOK, TypeOK
  <1> QED
    BY <1>1, TypesInvariant, BlockInvariant, PTL

-----------------------------------------------------------------------------
(* A command leaves the core as it is to leave it *)

\* The core does so once it was let run again, or kept halted, as the look at it tells.
RestoredBy(s, i, told) ==
    /\ s[i] = "go_back"
    /\ IF wasHalted THEN core = told /\ Before(s, i, Wrapped)
                    ELSE told = "running" /\ Before(s, i, Wrapped \ {"halt"})

(* Either the core does already what it is to do, and the steps left keep  *)
(* it so, or one of them sees to it and those after that keep it so.       *)
Settles(s, told) ==
    \/ told = core /\ NeutralFrom(s, 1)
    \/ \E i \in 1 .. Len(s) : (DecidedBy(s, i, told) \/ RestoredBy(s, i, told)) /\ NeutralFrom(s, i + 1)

ToldInv == owed # "none" => Settles(todo, owed)

\* What an access that neither failed nor was answered for another does.
Obeyed ==
    /\ Head(todo) \in {"halt", "reset_halt"} => core' = "halted"
    /\ Head(todo) = "go" => core' = "running"
    /\ Head(todo) = "go_back" => core' = IF wasHalted THEN core ELSE "running"
    /\ Head(todo) = "reset" /\ ~catch /\ xlk # "jlink" => core' = "running"
    /\ Head(todo) \notin Moving \cup {"go_back"} => core' = core
    /\ Head(todo) # "catch" /\ ~catch => ~catch'
    /\ Head(todo) \notin {"look", "go_back"} => wasHalted' = wasHalted
    /\ Head(todo) = "look" => IF core = "halted" THEN wasHalted' /\ Shortens(todo', todo)
                                                 ELSE ~wasHalted' /\ Delays(todo', todo)
    /\ Head(todo) = "await_halted" /\ todo' # todo => core = "halted"

LEMMA Obeys ==
    ASSUME StateOK, LinkStep, owed' # "none"
    PROVE  owed' = owed /\ xlk' = xlk /\ Obeyed
  <1>1. todo # << >> /\ todo \in Seq(Steps) /\ wasHalted \in BOOLEAN /\ catch \in BOOLEAN /\ core \in {"running", "halted"}
    BY LinkList DEF StateOK
  <1>2. Shortens(Tail(todo), todo) /\ Delays(<< "halt" >> \o Tail(todo), todo)
    BY <1>1, TailType, HaltDelays, StepsKnown
  <1>3. CASE DapLinkAccess \/ JLinkAccess \/ OpenOcdAccess
    <2>1. UNCHANGED << xlk, linkMode, alive >> /\ (At("go_back") => ~wasHalted)
      BY <1>3, Access
    <2>2. PICK reply \in Seq(Replies), failed \in BOOLEAN, mixing \in BOOLEAN : Answered(reply, failed, mixing)
      BY <1>3, Access
    <2>3. ~failed /\ ~mixing /\ owed' = owed
      BY <2>2 DEF Answered, Remember
    <2>4. Takes /\ Proceeds(<< Answer >>)
      BY <2>2, <2>3 DEF Answered
    <2>5. Notes(<< Answer >>)
      BY <2>4 DEF Proceeds
    <2>6. Head(todo) \in Asks => ("halted" \in ToSet(<< Answer >>) <=> core = "halted")
      <3>1. Head(todo) \in Asks => Answer = core
        BY DEF Answer, Asks, Registers, Words, At
      <3> QED
        BY <3>1, OneReply
    <2>7. /\ Head(todo) \in {"halt", "reset_halt"} => core' = "halted"
          /\ Head(todo) \in {"go", "go_back"} => core' = "running"
          /\ Head(todo) = "reset" /\ ~catch /\ xlk # "jlink" => core' = "running"
          /\ Head(todo) \notin Moving \cup {"go_back"} => core' = core
      BY <1>1, <2>4 DEF Takes, AfterReset, At, Moving
    <2>8. Head(todo) # "catch" /\ ~catch => ~catch'
      BY <1>1, <2>4 DEF Takes, At
    <2>9. Head(todo) \notin {"look", "go_back"} => wasHalted' = wasHalted
      BY <1>1, <2>5 DEF Notes, At
    <2>10. ASSUME Head(todo) = "look"
           PROVE  IF core = "halted" THEN wasHalted' /\ Shortens(todo', todo) ELSE ~wasHalted' /\ Delays(todo', todo)
      <3>1. "halted" \in ToSet(<< Answer >>) <=> core = "halted"
        BY <2>6, <2>10 DEF Asks
      <3>2. wasHalted' <=> "halted" \in ToSet(<< Answer >>)
        <4>1. At("look")
          BY <1>1, <2>10 DEF At
        <4> QED
          BY <2>5, <4>1 DEF Notes
      <3>3. todo' = IF "halted" \in ToSet(<< Answer >>) THEN Tail(todo) ELSE << "halt" >> \o Tail(todo)
        BY <1>1, <2>4, <2>10 DEF Proceeds, At
      <3> QED
        BY <1>2, <3>1, <3>2, <3>3
    <2>11. ASSUME Head(todo) = "await_halted", todo' # todo PROVE core = "halted"
      <3>1. todo' = IF "halted" \in ToSet(<< Answer >>) THEN Tail(todo) ELSE todo
        BY <1>1, <2>4, <2>11 DEF Proceeds, At
      <3> QED
        BY <2>6, <2>11, <3>1 DEF Asks
    <2> QED
      BY <1>1, <2>1, <2>3, <2>7, <2>8, <2>9, <2>10, <2>11 DEF Obeyed, At
  <1>4. CASE Fail
    BY <1>4 DEF Fail, Raises
  <1>5. CASE Report \/ Pass
    <2>1. /\ UNCHANGED target /\ UNCHANGED link /\ Remember(FALSE, FALSE)
          /\ Head(todo) \in {"print", "check", "body", "wait_out", "go_back"}
          /\ Head(todo) = "go_back" => wasHalted
          /\ Head(todo) # "go_back" => wasHalted' = wasHalted
      BY <1>1, <1>5 DEF Report, Pass, At, GoesBack
    <2>2. Head(todo) \notin Moving /\ Head(todo) \notin {"catch", "look", "await_halted"}
      BY <2>1 DEF Moving
    <2>3. owed' = owed /\ xlk' = xlk /\ core' = core /\ catch' = catch
      BY <2>1 DEF Remember, target, link
    <2> QED
      BY <1>1, <2>1, <2>2, <2>3 DEF Obeyed, Moving
  <1> QED
    BY <1>3, <1>4, <1>5 DEF LinkStep

\* A step that is still ahead stays so, with what is before and after it.
LEMMA Carried ==
    ASSUME NEW s \in Seq(Steps), NEW t \in Seq(Steps), s # << >>, NEW i \in 2 .. Len(s), s[i] # "restore_demcr",
           NeutralFrom(s, i + 1), t = s \/ Shortens(t, s) \/ (Head(s) = "look" /\ Delays(t, s))
    PROVE  \E n \in 1 .. Len(t) :
              /\ t[n] = s[i] /\ NeutralFrom(t, n + 1)
              /\ \A S : "write_word" \notin S /\ ("halt" \notin S \/ "look" \in S) /\ Before(s, i, S) => Before(t, n, S)
  <1>1. Len(s) \in Nat /\ Len(t) \in Nat /\ Len(s) >= 1 /\ Head(s) = s[1]
    BY LenProperties, Bounds
  <1>2. CASE t = s
    BY <1>1, <1>2
  <1>3. CASE Shortens(t, s)
    <2>1. /\ i - 1 \in 1 .. Len(t) /\ (i - 1) + 1 = i /\ i \in Nat /\ i >= 1
          /\ \A k \in 1 .. (i - 1) - 1 : k \in 1 .. Len(t) /\ k + 1 \in 1 .. i - 1
      BY <1>1, <1>3 DEF Shortens
    <2>2. \A k \in 1 .. Len(t) : t[k] = s[k + 1] \/ (s[k + 1] = "restore_demcr" /\ t[k] = "write_word")
      BY <1>3 DEF Shortens
    <2>3. t[i - 1] = s[i]
      BY <2>1, <2>2
    <2>4. NeutralFrom(t, (i - 1) + 1)
      BY <1>3, <2>1, NeutralShortens
    <2>5. ASSUME NEW S, "write_word" \notin S, Before(s, i, S) PROVE Before(t, i - 1, S)
      BY <2>1, <2>2, <2>5 DEF Before
    <2> QED
      BY <2>1, <2>3, <2>4, <2>5
  <1>4. CASE Head(s) = "look" /\ Delays(t, s)
    <2>1. /\ Len(t) = Len(s) /\ i \in 1 .. Len(t) /\ i + 1 \in Nat /\ i + 1 >= 2
          /\ t[1] = "halt" /\ \A k \in 2 .. Len(s) : t[k] = s[k]
      BY <1>1, <1>4 DEF Delays
    <2>2. t[i] = s[i]
      BY <2>1
    <2>3. NeutralFrom(t, i + 1)
      BY <1>4, <2>1, NeutralDelays
    <2>4. ASSUME NEW S, "halt" \notin S \/ "look" \in S, Before(s, i, S) PROVE Before(t, i, S)
      <3>1. 1 \in 1 .. i - 1 /\ \A k \in 1 .. i - 1 : k = 1 \/ k \in 2 .. Len(s)
        BY <1>1
      <3>2. "look" \notin S
        BY <1>1, <1>4, <2>4, <3>1 DEF Before
      <3> QED
        BY <2>1, <2>4, <3>1, <3>2 DEF Before
    <2> QED
      BY <2>1, <2>2, <2>3, <2>4
  <1> QED
    BY <1>2, <1>3, <1>4

\* The steps that keep the core as it is.
LEMMA KeptTold ==
    ASSUME StateOK, LinkStep, owed' # "none", owed = core, NeutralFrom(todo, 1)
    PROVE  Settles(todo, owed)'
  <1>1. todo # << >> /\ todo \in Seq(Steps) /\ todo' \in Seq(Steps) /\ Evolves
    BY LinkList DEF StateOK
  <1>2. owed' = owed /\ xlk' = xlk /\ Obeyed
    BY Obeys
  <1>3. /\ Head(todo) \notin Moving \cup {"go_back"}
        /\ Head(todo) # "look" => NeutralFrom(todo, 2)
        /\ Head(todo) = "look" =>
             \E j \in 2 .. Len(todo) :
                todo[j] = "go_back" /\ (\A k \in 2 .. j - 1 : todo[k] \notin Wrapped) /\ NeutralFrom(todo, j + 1)
    BY <1>1, NeutralHead
  <1>4. core' = core
    BY <1>2, <1>3 DEF Obeyed
  <1>5. Len(todo) \in Nat /\ Len(todo') \in Nat
    BY <1>1, LenProperties
  <1>6. CASE Head(todo) = "look"
    <2>1. PICK j \in 2 .. Len(todo) :
            todo[j] = "go_back" /\ (\A k \in 2 .. j - 1 : todo[k] \notin Wrapped) /\ NeutralFrom(todo, j + 1)
      BY <1>3, <1>6
    <2>2. CASE core = "halted"
      <3>1. wasHalted' /\ Shortens(todo', todo)
        BY <1>2, <1>6, <2>2 DEF Obeyed
      <3>2. /\ j - 1 \in 1 .. Len(todo') /\ (j - 1) + 1 = j /\ j \in Nat /\ j >= 1
            /\ \A k \in 1 .. (j - 1) - 1 : k \in 1 .. Len(todo') /\ k + 1 \in 2 .. j - 1
        BY <1>5, <3>1 DEF Shortens
      <3>3. \A k \in 1 .. Len(todo') :
              todo'[k] = todo[k + 1] \/ (todo[k + 1] = "restore_demcr" /\ todo'[k] = "write_word")
        BY <3>1 DEF Shortens
      <3>4. todo'[j - 1] = "go_back"
        BY <2>1, <3>2, <3>3
      <3>5. Before(todo', j - 1, Wrapped)
        BY <2>1, <3>2, <3>3, WrappedKnown DEF Before
      <3>6. RestoredBy(todo, j - 1, owed)'
        BY <1>2, <1>4, <3>1, <3>4, <3>5 DEF RestoredBy, Before
      <3>7. NeutralFrom(todo', (j - 1) + 1)
        BY <1>1, <2>1, <3>1, <3>2, NeutralShortens
      <3> QED
        BY <3>2, <3>6, <3>7 DEF Settles, NeutralFrom
    <2>3. CASE core = "running"
      <3>1. ~wasHalted' /\ Delays(todo', todo)
        BY <1>2, <1>6, <2>3 DEF Obeyed
      <3>2. /\ Len(todo') = Len(todo) /\ j \in 1 .. Len(todo') /\ j + 1 \in Nat /\ j + 1 >= 2
            /\ todo'[1] = "halt" /\ \A k \in 2 .. Len(todo) : todo'[k] = todo[k]
        BY <1>5, <3>1 DEF Delays
      <3>3. \A k \in 1 .. j - 1 : k = 1 \/ (k \in 2 .. j - 1 /\ k \in 2 .. Len(todo))
        BY <1>5
      <3>4. Before(todo', j, Wrapped \ {"halt"})
        BY <2>1, <3>2, <3>3 DEF Before
      <3>5. RestoredBy(todo, j, owed)'
        BY <1>2, <2>1, <2>3, <3>1, <3>2, <3>4 DEF RestoredBy, Before
      <3>6. NeutralFrom(todo', j + 1)
        BY <1>1, <2>1, <3>1, <3>2, NeutralDelays
      <3> QED
        BY <3>2, <3>5, <3>6 DEF Settles, NeutralFrom
    <2> QED
      BY <2>2, <2>3 DEF StateOK
  <1>7. CASE Head(todo) # "look"
    <2>1. NeutralFrom(todo, 1 + 1)
      BY <1>3, <1>7
    <2>2. NeutralFrom(todo', 1)
      BY <1>1, <1>7, <2>1, NeutralShortens, NeutralEmpty DEF Evolves
    <2> QED
      BY <1>2, <1>4, <2>2 DEF Settles, NeutralFrom
  <1> QED
    BY <1>6, <1>7

\* The step that sees to it.
LEMMA DoneTold ==
    ASSUME StateOK, LinkStep, owed' # "none", Len(todo) >= 1,
           DecidedBy(todo, 1, owed) \/ RestoredBy(todo, 1, owed), NeutralFrom(todo, 2)
    PROVE  Settles(todo, owed)'
  <1>1. todo # << >> /\ todo \in Seq(Steps) /\ todo' \in Seq(Steps) /\ Evolves /\ Head(todo) = todo[1]
    BY LinkList, Bounds DEF StateOK
  <1>2. owed' = owed /\ xlk' = xlk /\ Obeyed
    BY Obeys
  <1>3. Head(todo) \in {"go", "reset", "halt", "reset_halt", "await_halted", "go_back"}
    BY <1>1 DEF DecidedBy, RestoredBy
  <1>4. CASE todo' = todo /\ Head(todo) = "await_halted"
    <2>1. DecidedBy(todo, 1, owed)'
      <3>1. todo'[1] = "await_halted" /\ owed' = "halted"
        BY <1>1, <1>2, <1>4 DEF DecidedBy, RestoredBy
      <3> QED
        BY <3>1 DEF DecidedBy, Before
    <2>2. 1 \in 1 .. Len(todo') /\ NeutralFrom(todo', 1 + 1)
      BY <1>1, <1>4, LenProperties
    <2> QED
      BY <2>1, <2>2 DEF Settles, NeutralFrom
  <1>5. CASE ~(todo' = todo /\ Head(todo) = "await_halted")
    <2>1. Shortens(todo', todo)
      BY <1>1, <1>3, <1>5 DEF Evolves, Repeated
    <2>2. todo' # todo
      <3>1. Len(todo) \in Nat
        BY <1>1, LenProperties
      <3> QED
        BY <2>1, <3>1 DEF Shortens
    <2>3. core' = owed
      BY <1>1, <1>2, <1>3, <2>2 DEF Obeyed, DecidedBy, RestoredBy, Moving
    <2>4. NeutralFrom(todo', 1)
      BY <1>1, <2>1, NeutralShortens
    <2> QED
      BY <1>2, <2>3, <2>4 DEF Settles, NeutralFrom
  <1> QED
    BY <1>4, <1>5

\* The steps before it.
LEMMA AwaitedTold ==
    ASSUME StateOK, LinkStep, owed' # "none", NEW i \in 2 .. Len(todo),
           DecidedBy(todo, i, owed) \/ RestoredBy(todo, i, owed), NeutralFrom(todo, i + 1)
    PROVE  Settles(todo, owed)'
  <1>1. todo # << >> /\ todo \in Seq(Steps) /\ todo' \in Seq(Steps) /\ Evolves
    BY LinkList DEF StateOK
  <1>2. Head(todo) = todo[1] /\ 1 \in 1 .. i - 1
    BY <1>1, Bounds, LenProperties
  <1>3. owed' = owed /\ xlk' = xlk /\ Obeyed
    BY Obeys
  <1>4. Head(todo) # "is_halted"
    BY <1>2 DEF DecidedBy, RestoredBy, Before, Wrapped
  <1>5. todo' = todo \/ Shortens(todo', todo) \/ (Head(todo) = "look" /\ Delays(todo', todo))
    BY <1>1, <1>4 DEF Evolves
  <1>6. todo[i] # "restore_demcr"
    BY DEF DecidedBy, RestoredBy
  <1>7. PICK n \in 1 .. Len(todo') :
          /\ todo'[n] = todo[i] /\ NeutralFrom(todo', n + 1)
          /\ \A S : "write_word" \notin S /\ ("halt" \notin S \/ "look" \in S) /\ Before(todo, i, S) => Before(todo', n, S)
    BY <1>1, <1>5, <1>6, Carried
  <1>8. CASE DecidedBy(todo, i, owed)
    <2>1. Before(todo', n, {"is_halted"})
      BY <1>7, <1>8 DEF DecidedBy
    <2>2. Before(todo, i, {"catch"}) => Before(todo', n, {"catch"})
      BY <1>7
    <2>3. ~catch /\ Before(todo, i, {"catch"}) => ~catch'
      BY <1>2, <1>3 DEF Before, Obeyed
    <2>4. /\ Before(todo', n, {"is_halted"})
          /\ \/ todo'[n] = "go" /\ owed' = "running"
             \/ todo'[n] = "reset" /\ owed' = "running" /\ ~catch' /\ xlk' # "jlink" /\ Before(todo', n, {"catch"})
             \/ todo'[n] \in {"halt", "reset_halt", "await_halted"} /\ owed' = "halted"
      BY <1>3, <1>7, <1>8, <2>1, <2>2, <2>3 DEF DecidedBy
    <2> QED
      BY <1>7, <2>4 DEF Settles, DecidedBy, NeutralFrom, Before
  <1>9. CASE RestoredBy(todo, i, owed)
    <2>1. Head(todo) \notin Wrapped \ {"halt"}
      BY <1>2, <1>9 DEF RestoredBy, Before
    <2>2. wasHalted' = wasHalted
      BY <1>3, <2>1 DEF Obeyed, Wrapped, Moving
    <2>3. CASE wasHalted
      <3>1. core = owed /\ Before(todo, i, Wrapped)
        BY <1>9, <2>3 DEF RestoredBy
      <3>2. Before(todo', n, Wrapped)
        BY <1>7, <3>1 DEF Wrapped, Moving
      <3>3. core' = core
        BY <1>2, <1>3, <3>1 DEF Obeyed, Before, Wrapped
      <3>4. RestoredBy(todo, n, owed)'
        BY <1>3, <1>7, <1>9, <2>2, <2>3, <3>1, <3>2, <3>3 DEF RestoredBy, Before
      <3> QED
        BY <1>7, <3>4 DEF Settles, NeutralFrom
    <2>4. CASE ~wasHalted
      <3>1. owed = "running" /\ Before(todo, i, Wrapped \ {"halt"})
        BY <1>9, <2>4 DEF RestoredBy
      <3>2. Before(todo', n, Wrapped \ {"halt"})
        BY <1>7, <3>1 DEF Wrapped, Moving
      <3>3. RestoredBy(todo, n, owed)'
        BY <1>3, <1>7, <1>9, <2>2, <2>4, <3>1, <3>2 DEF RestoredBy, Before
      <3> QED
        BY <1>7, <3>3 DEF Settles, NeutralFrom
    <2> QED
      BY <2>3, <2>4
  <1> QED
    BY <1>8, <1>9

LEMMA ConnListsNeutral ==
    \A s \in ConnLists :
        NeutralFrom(s, 1) /\ Lacks(s, {"go", "reset", "halt", "reset_halt", "await_halted", "go_back"})
  BY DEF ConnLists, NeutralFrom, Lacks, Moving

LEMMA LinkTold ==
    ASSUME StateOK, LinkStep, ToldInv
    PROVE  ToldInv'
  <1> SUFFICES ASSUME owed' # "none" PROVE Settles(todo, owed)'
    BY DEF ToldInv
  <1>1. Settles(todo, owed)
    BY Obeys DEF ToldInv
  <1>2. ASSUME NEW i \in 1 .. Len(todo), DecidedBy(todo, i, owed) \/ RestoredBy(todo, i, owed), NeutralFrom(todo, i + 1)
        PROVE  Settles(todo, owed)'
    <2>1. Len(todo) \in Nat
      BY LenProperties DEF StateOK
    <2>2. CASE i = 1
      BY <1>2, <2>1, <2>2, DoneTold
    <2>3. CASE i # 1
      <3>1. i \in 2 .. Len(todo)
        BY <2>1, <2>3
      <3> QED
        BY <1>2, <3>1, AwaitedTold
    <2> QED
      BY <2>2, <2>3
  <1> QED
    BY <1>1, <1>2, KeptTold DEF Settles

LEMMA ToldInvariant == Spec => []ToldInv
  <1>1. Init => ToldInv
    BY DEF Init, ToldInv
  <1>2. StateOK /\ Connecting /\ ToldInv /\ [Next]_vars => ToldInv'
    <2> SUFFICES ASSUME StateOK, Connecting, ToldInv, [Next]_vars PROVE ToldInv'
      OBVIOUS
    <2>1. CASE Emptyline \/ ConnectionStep
      <3>1. /\ todo' \in ConnLists \/ Silent(todo')
            /\ UNCHANGED << target, wasHalted >>
            /\ \/ Emptyline /\ todo' \in ConnLists /\ owed' = core
               \/ todo # << >> /\ Head(todo) \in Connects /\ owed' = owed
        BY <2>1, ConnectSteps
      <3>2. NeutralFrom(todo', 1)
        BY <3>1, ConnListsNeutral DEF Silent, Gentle
      <3>3. owed' = "none" \/ owed' = core
        <4>1. SUFFICES ASSUME todo # << >>, Head(todo) \in Connects, owed # "none" PROVE owed = core
          BY <3>1
        <4>2. todo \in ConnLists
          BY <4>1, ConnectingTails
        <4>3. Lacks(todo, {"go", "reset", "halt", "reset_halt", "await_halted", "go_back"})
          BY <4>2, ConnListsNeutral
        <4>4. ASSUME NEW i \in 1 .. Len(todo) PROVE ~DecidedBy(todo, i, owed) /\ ~RestoredBy(todo, i, owed)
          BY <4>3 DEF Lacks, DecidedBy, RestoredBy
        <4> QED
          BY <4>1, <4>4 DEF ToldInv, Settles
      <3>4. core' = core
        BY <3>1 DEF target
      <3> QED
        BY <3>2, <3>3, <3>4 DEF ToldInv, Settles, NeutralFrom
    <2>2. CASE Commands
      <3>1. PICK told \in {"running", "halted", "none"}, body \in Seq(Steps) : Given(told, body)
        BY <2>2, CommandsGiven
      <3>2. Tells(todo', told) /\ owed' = told /\ UNCHANGED << target, link, wasHalted >>
        BY <3>1, CommandList
      <3>3. UNCHANGED << core, catch, xlk >>
        BY <3>2 DEF target, link
      <3>4. told # "none" =>
              \/ told = core /\ NeutralFrom(todo', 1)
              \/ \E i \in 1 .. Len(todo') : DecidedBy(todo', i, told) /\ NeutralFrom(todo', i + 1)
        BY <3>2 DEF Tells
      <3> QED
        BY <3>2, <3>3, <3>4 DEF ToldInv, Settles, DecidedBy, NeutralFrom, Before
    <2>3. CASE LinkStep /\ UNCHANGED settings
      BY <2>3, LinkTold
    <2>4. CASE Gives \/ Faults
      BY <2>4, EndingSteps DEF Ending, ToldInv
    <2>5. CASE Settings \/ UNCHANGED vars
      <3>1. UNCHANGED << core, catch, xlk, wasHalted, todo, owed >>
        BY <2>5 DEF Settings, do_mode, do_speed, do_path, xlinkVars, target, link, vars
      <3> QED
        BY <3>1 DEF ToldInv, Settles, DecidedBy, RestoredBy, NeutralFrom, Before
    <2>6. CASE Breakpoint
      <3>1. /\ core = "running" /\ core' = "halted" /\ UNCHANGED << catch, xlk, todo, wasHalted >>
            /\ owed' = IF owed = "running" THEN "none" ELSE owed
        BY <2>6 DEF Breakpoint, link
      <3>2. SUFFICES ASSUME owed = "halted" PROVE Settles(todo, owed)'
        BY <3>1 DEF ToldInv, StateOK
      <3>3. PICK i \in 1 .. Len(todo) : DecidedBy(todo, i, owed) /\ NeutralFrom(todo, i + 1)
        BY <3>1, <3>2 DEF ToldInv, Settles, RestoredBy
      <3> QED
        BY <3>1, <3>2, <3>3 DEF Settles, DecidedBy, NeutralFrom, Before
    <2>7. CASE PowerCycle
      BY <2>7 DEF PowerCycle, ToldInv
    <2> QED
      BY <2>1, <2>2, <2>3, <2>4, <2>5, <2>6, <2>7, NextCases DEF Aside
  <1> QED
    BY <1>1, <1>2, TypesInvariant, PTL DEF Spec

(* When a command has ended, and neither an access failed nor the core     *)
(* stopped by itself or lost its power, the core does what the command was *)
(* for, or what it did before, for any command over any link.              *)
THEOREM CommandsDoAsTold == Spec => []AsTold
  <1>1. ToldInv => AsTold
    BY EmptySeq DEF ToldInv, Settles, AsTold
  <1> QED
    BY <1>1, ToldInvariant, PTL
=============================================================================
