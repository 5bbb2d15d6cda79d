------------------------------ MODULE CoreProofs ------------------------------
(***************************************************************************)
(* For any number of calls, and of failing accesses:                       *)
(*                                                                         *)
(* Run control.  A reset that stops on the reset handler has the core      *)
(* halted there when DEMCR is restored, and a step of a halted core        *)
(* executes one instruction.  The invariant is a grammar of what is left   *)
(* of such a call, from its last step to its first, and what is known of   *)
(* the core at each of them.                                               *)
(*                                                                         *)
(* Register cache, for any lists of registers.  What it holds for a halted *)
(* core is what the core holds, a write changes none of the parts that it  *)
(* does not name, and the state is of its types.  The invariant behind the *)
(* first says when the core may leave its halt: only in a step whose call  *)
(* has counted a new token before, or when the cache holds nothing, or     *)
(* after an instruction that was stepped and not counted yet.              *)
(***************************************************************************)
EXTENDS RegisterCache, SequenceTheorems, WellFoundedInduction, TLAPS

-----------------------------------------------------------------------------
(* What is left of a call *)

Begins(s, steps) == s # << >> /\ Head(s) \in steps

Without(s, step) == \A i \in 1 .. Len(s) : s[i] # step

\* A call that does not restore DEMCR, or has done so.
Free(s) == Without(s, "restore_demcr")

Restoring(s) == Begins(s, {"restore_demcr"}) /\ Free(Tail(s))
Thumbing(s) == Begins(s, {"set_thumb"}) /\ Restoring(Tail(s))
Awaiting(s) ==
    \/ Begins(s, {"await_catch"}) /\ Thumbing(Tail(s))
    \/ Begins(s, {"await_halted"}) /\ Restoring(Tail(s))
AskingAgain(s) == Begins(s, {"state_again"}) /\ Awaiting(Tail(s))
Asking(s) == Begins(s, {"state"}) /\ Awaiting(Tail(s))
WaitingTwice(s) == Begins(s, {"wait_out"}) /\ Asking(Tail(s))
Waiting(s) == Begins(s, {"await_out"}) /\ (Asking(Tail(s)) \/ WaitingTwice(Tail(s)))
Finishing(s) == Begins(s, {"flush_request", "reset_system"}) /\ Waiting(Tail(s))
Requesting(s) ==
    \/ Begins(s, {"pin_reset"}) /\ Waiting(Tail(s))
    \/ Begins(s, {"request_reset", "reset_registers"}) /\ Finishing(Tail(s))
HaltFlushing(s) == Begins(s, {"flush"}) /\ Requesting(Tail(s))
Halting(s) == Begins(s, {"halt"}) /\ HaltFlushing(Tail(s))
Counting(s) == Begins(s, {"count"}) /\ (Requesting(Tail(s)) \/ Halting(Tail(s)))
Enabling(s) == Begins(s, {"catch"}) /\ Counting(Tail(s))
ReadingDemcr(s) == Begins(s, {"read_demcr"}) /\ Enabling(Tail(s))
Flushing(s) == Begins(s, {"flush"}) /\ ReadingDemcr(Tail(s))
Starting(s) == Begins(s, {"halt"}) /\ Flushing(Tail(s))

\* Debug is enabled, with the vector catch.
DebugOn == "DEBUGEN" \in ctl
CatchOn == DebugOn /\ "VC_CORERESET" \in demcr

\* The reset was made, and will end in a halt if it has not yet.
Armed == CatchOn /\ fresh /\ core \in {"reset", "halted"}
Caught == Armed /\ core = "halted"

\* What get_state told is no more than what is so.
Told == Armed /\ seen \in {"reset", "running", "halted"} /\ (seen = "halted" => core = "halted")

Outline ==
    \/ Free(todo)
    \/ Starting(todo)
    \/ DebugOn /\ (Flushing(todo) \/ ReadingDemcr(todo) \/ Enabling(todo))
    \/ CatchOn /\ (Counting(todo) \/ Halting(todo) \/ HaltFlushing(todo) \/ Requesting(todo))
    \/ Armed /\ (Finishing(todo) \/ Waiting(todo) \/ WaitingTwice(todo) \/ Asking(todo) \/ Thumbing(todo))
    \/ Told /\ (AskingAgain(todo) \/ Awaiting(todo))
    \/ Caught /\ Restoring(todo)

CatchInv == todo \in Seq(Steps) /\ faults \in Nat /\ (faults = 0 => Outline)

-----------------------------------------------------------------------------
(* Sequences *)

LEMMA TailInSeq == ASSUME NEW s \in Seq(Steps), s # << >> PROVE Tail(s) \in Seq(Steps)
  BY HeadTailProperties

LEMMA WithoutEmpty == ASSUME NEW step PROVE Without(<< >>, step)
  BY DEF Without

LEMMA FreeEmpty == Free(<< >>)
  BY WithoutEmpty DEF Free

LEMMA WithoutTail ==
    ASSUME NEW step, NEW s \in Seq(Steps), s # << >>, Without(s, step)
    PROVE  Without(Tail(s), step)
  <1>1. /\ Len(s) \in Nat /\ Tail(s) \in Seq(Steps) /\ Len(Tail(s)) = Len(s) - 1
        /\ \A i \in 1 .. Len(Tail(s)) : Tail(s)[i] = s[i + 1]
    BY HeadTailProperties, LenProperties
  <1> QED
    BY <1>1 DEF Without

LEMMA FreeTail == ASSUME NEW s \in Seq(Steps), s # << >>, Free(s) PROVE Free(Tail(s))
  BY WithoutTail DEF Free

LEMMA WithoutHead == ASSUME NEW step, NEW s \in Seq(Steps), s # << >>, Without(s, step) PROVE Head(s) # step
  <1>1. Len(s) \in Nat \ {0}
    BY EmptySeq
  <1> QED
    BY <1>1 DEF Without

LEMMA FreeHead == ASSUME NEW s \in Seq(Steps), s # << >>, Free(s) PROVE Head(s) # "restore_demcr"
  BY WithoutHead DEF Free

LEMMA WithoutConcat ==
    ASSUME NEW step, NEW s \in Seq(Steps), NEW t \in Seq(Steps), Without(s, step), Without(t, step)
    PROVE  s \o t \in Seq(Steps) /\ Without(s \o t, step)
  <1>1. /\ s \o t \in Seq(Steps) /\ Len(s \o t) = Len(s) + Len(t) /\ Len(s) \in Nat /\ Len(t) \in Nat
        /\ \A i \in 1 .. Len(s) + Len(t) : (s \o t)[i] = IF i <= Len(s) THEN s[i] ELSE t[i - Len(s)]
    BY ConcatProperties, LenProperties
  <1> QED
    BY <1>1 DEF Without

LEMMA FreeConcat ==
    ASSUME NEW s \in Seq(Steps), NEW t \in Seq(Steps), Free(s), Free(t)
    PROVE  s \o t \in Seq(Steps) /\ Free(s \o t)
  BY WithoutConcat DEF Free

LEMMA WithoutSubSeq ==
    ASSUME NEW step, NEW s \in Seq(Steps), NEW m \in Nat \ {0}
    PROVE  SubSeq(s, m, Len(s)) \in Seq(Steps) /\ (Without(s, step) => Without(SubSeq(s, m, Len(s)), step))
  <1>1. Len(s) \in Nat /\ \A i \in m .. Len(s) : s[i] \in Steps
    BY LenProperties, ElementOfSeq
  <1>2. /\ SubSeq(s, m, Len(s)) \in Seq(Steps)
        /\ Len(SubSeq(s, m, Len(s))) = IF m <= Len(s) THEN Len(s) - m + 1 ELSE 0
        /\ \A i \in 1 .. Len(s) - m + 1 : SubSeq(s, m, Len(s))[i] = s[m + i - 1]
    BY <1>1, SubSeqProperties
  <1>3. ASSUME Without(s, step), NEW i \in 1 .. Len(SubSeq(s, m, Len(s))) PROVE SubSeq(s, m, Len(s))[i] # step
    <2>1. m <= Len(s) /\ i \in 1 .. Len(s) - m + 1 /\ m + i - 1 \in 1 .. Len(s)
      BY <1>1, <1>2
    <2> QED
      BY <1>2, <1>3, <2>1 DEF Without
  <1> QED
    BY <1>2, <1>3 DEF Without

\* One step in front of others.
LEMMA OneInFront ==
    ASSUME NEW S, NEW x \in S, NEW s \in Seq(S)
    PROVE  /\ << x >> \o s \in Seq(S) /\ << x >> \o s # << >>
           /\ Head(<< x >> \o s) = x /\ Tail(<< x >> \o s) = s
  <1> DEFINE front == << x >>
             whole == front \o s
  <1>1. front \in Seq(S) /\ Len(front) = 1 /\ front[1] = x
    OBVIOUS
  <1> HIDE DEF front
  <1>2. /\ whole \in Seq(S) /\ Len(whole) = 1 + Len(s) /\ Len(s) \in Nat
        /\ \A i \in 1 .. 1 + Len(s) : whole[i] = IF i <= 1 THEN front[i] ELSE s[i - 1]
    <2>1. /\ whole \in Seq(S) /\ Len(whole) = Len(front) + Len(s)
          /\ \A i \in 1 .. Len(front) + Len(s) : whole[i] = IF i <= Len(front) THEN front[i] ELSE s[i - Len(front)]
      BY <1>1, ConcatProperties
    <2>2. Len(s) \in Nat
      BY LenProperties
    <2> QED
      BY <1>1, <2>1, <2>2
  <1> HIDE DEF whole
  <1>3. whole # << >> /\ Head(whole) = x
    BY <1>1, <1>2, EmptySeq
  <1>4. /\ Tail(whole) \in Seq(S) /\ Len(Tail(whole)) = Len(s)
        /\ \A i \in 1 .. Len(s) : Tail(whole)[i] = whole[i + 1]
    BY <1>2, <1>3, HeadTailProperties
  <1>5. \A i \in 1 .. Len(s) : Tail(whole)[i] = s[i]
    BY <1>2, <1>4
  <1>6. Tail(whole) = s
    BY <1>4, <1>5, SeqEqual
  <1> QED
    BY <1>2, <1>3, <1>6 DEF whole, front

-----------------------------------------------------------------------------
(* The stages of a call *)

\* The first step of each, and what is left after it.
LEMMA Stages ==
    /\ Starting(todo) => Head(todo) = "halt" /\ Flushing(Tail(todo))
    /\ Flushing(todo) => Head(todo) = "flush" /\ ReadingDemcr(Tail(todo))
    /\ ReadingDemcr(todo) => Head(todo) = "read_demcr" /\ Enabling(Tail(todo))
    /\ Enabling(todo) => Head(todo) = "catch" /\ Counting(Tail(todo))
    /\ Counting(todo) => Head(todo) = "count" /\ (Requesting(Tail(todo)) \/ Halting(Tail(todo)))
    /\ Halting(todo) => Head(todo) = "halt" /\ HaltFlushing(Tail(todo))
    /\ HaltFlushing(todo) => Head(todo) = "flush" /\ Requesting(Tail(todo))
    /\ Requesting(todo) =>
          \/ Head(todo) = "pin_reset" /\ Waiting(Tail(todo))
          \/ Head(todo) \in {"request_reset", "reset_registers"} /\ Finishing(Tail(todo))
    /\ Finishing(todo) => Head(todo) \in {"flush_request", "reset_system"} /\ Waiting(Tail(todo))
    /\ Waiting(todo) => Head(todo) = "await_out" /\ (Asking(Tail(todo)) \/ WaitingTwice(Tail(todo)))
    /\ WaitingTwice(todo) => Head(todo) = "wait_out" /\ Asking(Tail(todo))
    /\ Asking(todo) => Head(todo) = "state" /\ Awaiting(Tail(todo))
    /\ AskingAgain(todo) => Head(todo) = "state_again" /\ Awaiting(Tail(todo))
    /\ Awaiting(todo) =>
          \/ Head(todo) = "await_catch" /\ Thumbing(Tail(todo))
          \/ Head(todo) = "await_halted" /\ Restoring(Tail(todo))
    /\ Thumbing(todo) => Head(todo) = "set_thumb" /\ Restoring(Tail(todo))
    /\ Restoring(todo) => Head(todo) = "restore_demcr" /\ Free(Tail(todo))
  <1> USE DEF Begins
  <1>1. Starting(todo) => Head(todo) = "halt" /\ Flushing(Tail(todo))
    BY DEF Starting
  <1>2. Flushing(todo) => Head(todo) = "flush" /\ ReadingDemcr(Tail(todo))
    BY DEF Flushing
  <1>3. ReadingDemcr(todo) => Head(todo) = "read_demcr" /\ Enabling(Tail(todo))
    BY DEF ReadingDemcr
  <1>4. Enabling(todo) => Head(todo) = "catch" /\ Counting(Tail(todo))
    BY DEF Enabling
  <1>5. Counting(todo) => Head(todo) = "count" /\ (Requesting(Tail(todo)) \/ Halting(Tail(todo)))
    BY DEF Counting
  <1>6. Halting(todo) => Head(todo) = "halt" /\ HaltFlushing(Tail(todo))
    BY DEF Halting
  <1>7. HaltFlushing(todo) => Head(todo) = "flush" /\ Requesting(Tail(todo))
    BY DEF HaltFlushing
  <1>8. Requesting(todo) =>
          \/ Head(todo) = "pin_reset" /\ Waiting(Tail(todo))
          \/ Head(todo) \in {"request_reset", "reset_registers"} /\ Finishing(Tail(todo))
    BY DEF Requesting
  <1>9. Finishing(todo) => Head(todo) \in {"flush_request", "reset_system"} /\ Waiting(Tail(todo))
    BY DEF Finishing
  <1>10. Waiting(todo) => Head(todo) = "await_out" /\ (Asking(Tail(todo)) \/ WaitingTwice(Tail(todo)))
    BY DEF Waiting
  <1>11. WaitingTwice(todo) => Head(todo) = "wait_out" /\ Asking(Tail(todo))
    BY DEF WaitingTwice
  <1>12. /\ Asking(todo) => Head(todo) = "state" /\ Awaiting(Tail(todo))
         /\ AskingAgain(todo) => Head(todo) = "state_again" /\ Awaiting(Tail(todo))
    BY DEF Asking, AskingAgain
  <1>13. Awaiting(todo) =>
          \/ Head(todo) = "await_catch" /\ Thumbing(Tail(todo))
          \/ Head(todo) = "await_halted" /\ Restoring(Tail(todo))
    BY DEF Awaiting
  <1>14. /\ Thumbing(todo) => Head(todo) = "set_thumb" /\ Restoring(Tail(todo))
         /\ Restoring(todo) => Head(todo) = "restore_demcr" /\ Free(Tail(todo))
    BY DEF Thumbing, Restoring
  <1> QED
    BY <1>1, <1>2, <1>3, <1>4, <1>5, <1>6, <1>7, <1>8, <1>9, <1>10, <1>11, <1>12, <1>13, <1>14

\* A step that takes the first off the list, with what it leaves to show.
LEMMA Taken ==
    ASSUME CatchInv, todo # << >>, todo' = Tail(todo), faults' = faults,
           faults = 0 /\ Outline /\ ~Free(todo) => Outline'
    PROVE  CatchInv'
  <1>1. todo' \in Seq(Steps)
    BY TailInSeq DEF CatchInv
  <1>2. faults = 0 => Outline'
    BY FreeTail DEF CatchInv, Outline
  <1> QED
    BY <1>1, <1>2 DEF CatchInv

\* A call that ends.
LEMMA Ended == ASSUME todo' = << >>, faults' \in Nat PROVE CatchInv'
  <1>1. << >> \in Seq(Steps)
    BY EmptySeq
  <1> QED
    BY <1>1, FreeEmpty DEF CatchInv, Outline

-----------------------------------------------------------------------------
(* The core *)

\* What is known of the core stays so, whatever it does by itself.
LEMMA CoreKeeps == ASSUME CatchInv, Core PROVE CatchInv'
  <1> USE DEF chip, caller
  <1>1. UNCHANGED <<todo, seen, faults, demcr>> /\ (DebugOn => DebugOn')
    BY DEF Core, Halts, Execute, Wake, ResetEnds, DebugOn
  <1>2. Armed => fresh' /\ core' \in {"reset", "halted"} /\ (core = "halted" => core' = "halted")
    BY DEF Core, Halts, Execute, Wake, ResetEnds, Armed, CatchOn, DebugOn
  <1>3. CatchOn => CatchOn'
    BY <1>1 DEF CatchOn
  <1>4. Armed => Armed'
    BY <1>2, <1>3 DEF Armed
  <1>5. (Told => Told') /\ (Caught => Caught')
    BY <1>1, <1>2, <1>4 DEF Told, Caught, Armed
  <1>6. Outline => Outline'
    BY <1>1, <1>3, <1>4, <1>5 DEF Outline
  <1> QED
    BY <1>1, <1>6 DEF CatchInv

-----------------------------------------------------------------------------
(* The steps *)

LEMMA WriteControlSteps == ASSUME CatchInv, WriteControl PROVE CatchInv'
  <1>1. /\ todo # << >> /\ todo' = Tail(todo) /\ UNCHANGED <<faults, demcr>>
        /\ Head(todo) \in DOMAIN ControlBits /\ ctl' = ControlBits[Head(todo)]
    BY DEF WriteControl, AtOneOf, Done
  <1>2. DOMAIN ControlBits = {"halt", "halt_masked", "step", "step_masked", "run", "debug_off"}
    BY DEF ControlBits
  <1>3. ControlBits["halt"] = {"DEBUGEN", "HALT"}
    BY DEF ControlBits
  <1>4. ASSUME faults = 0, Outline, ~Free(todo) PROVE Outline'
    <2>1. Head(todo) \in {"halt", "halt_masked", "step", "step_masked", "run", "debug_off"}
      BY <1>1, <1>2
    <2>2. Starting(todo) \/ (CatchOn /\ Halting(todo))
      BY <2>1, <1>4, Stages DEF Outline
    <2>3. Head(todo) = "halt" /\ DebugOn'
      BY <1>1, <1>3, <2>2, Stages DEF DebugOn
    <2>4. Flushing(todo') \/ (CatchOn' /\ HaltFlushing(todo'))
      BY <1>1, <2>2, <2>3, Stages DEF CatchOn
    <2> QED
      BY <2>3, <2>4 DEF Outline
  <1> QED
    BY <1>1, <1>4, Taken

LEMMA OtherAccessSteps == ASSUME CatchInv, OtherAccess PROVE CatchInv'
  <1>1. /\ todo # << >> /\ todo' = Tail(todo) /\ UNCHANGED <<seen, chip, faults>>
        /\ Head(todo) \in {"flush", "flush_request", "clear_dfsr", "reset_system"} \cup ToSet(IdentifySteps)
    BY DEF OtherAccess, AtOneOf, Done
  <1>2. ToSet(IdentifySteps) \subseteq {"read_cpuid", "read_cpacr", "enable_fpu", "test_fpu", "restore_cpacr"}
    BY DEF ToSet, IdentifySteps
  <1>3. (DebugOn => DebugOn') /\ (CatchOn => CatchOn') /\ (Armed => Armed')
    BY <1>1 DEF DebugOn, CatchOn, Armed, chip
  <1>4. ASSUME faults = 0, Outline, ~Free(todo) PROVE Outline'
    <2>1. \/ DebugOn /\ Flushing(todo)
          \/ CatchOn /\ HaltFlushing(todo)
          \/ Armed /\ Finishing(todo)
      BY <1>1, <1>2, <1>4, Stages DEF Outline
    <2>2. \/ DebugOn' /\ ReadingDemcr(todo')
          \/ CatchOn' /\ Requesting(todo')
          \/ Armed' /\ Waiting(todo')
      BY <1>1, <1>3, <2>1, Stages
    <2> QED
      BY <2>2 DEF Outline
  <1> QED
    BY <1>1, <1>4, Taken

LEMMA ReadStateSteps == ASSUME CatchInv, ReadState PROVE CatchInv'
  <1>1. /\ todo # << >> /\ Head(todo) = "state" /\ UNCHANGED <<core, ctl, demcr, fresh, faults>>
        /\ seen' = IF Len(todo) = 1 THEN "none" ELSE IF core = "reset" THEN "running" ELSE core
        /\ todo' = Tail(todo) \/ todo' = << "state_again" >> \o Tail(todo)
    BY DEF ReadState, At, Done
  <1>2. Tail(todo) \in Seq(Steps) /\ "state_again" \in Steps /\ Len(Tail(todo)) = Len(todo) - 1 /\ Len(todo) \in Nat
    BY <1>1, HeadTailProperties, LenProperties DEF CatchInv, Steps
  <1>3. Armed => Armed'
    BY <1>1 DEF Armed, CatchOn, DebugOn
  <1>4. ASSUME faults = 0, Outline, ~Free(todo) PROVE Armed /\ Awaiting(Tail(todo)) /\ Told'
    <2>1. Armed /\ Asking(todo)
      BY <1>1, <1>4, Stages DEF Outline
    <2>2. Awaiting(Tail(todo)) /\ Tail(todo) # << >>
      BY <2>1, Stages DEF Awaiting, Begins
    <2>3. Len(Tail(todo)) # 0
      BY <1>2, <2>2, EmptySeq
    <2>4. seen' \in {"running", "halted"} /\ (seen' = "halted" => core = "halted")
      BY <1>1, <1>2, <2>1, <2>3 DEF Armed
    <2> QED
      BY <1>1, <1>3, <2>1, <2>2, <2>4 DEF Told
  <1>5. CASE todo' = Tail(todo)
    <2>1. faults = 0 /\ Outline /\ ~Free(todo) => Outline'
      BY <1>4, <1>5 DEF Outline
    <2> QED
      BY <1>1, <1>5, <2>1, Taken
  <1>6. CASE todo' = << "state_again" >> \o Tail(todo)
    <2>1. todo' \in Seq(Steps) /\ Begins(todo', {"state_again"}) /\ Tail(todo') = Tail(todo)
      BY <1>2, <1>6, OneInFront DEF Begins
    <2>2. Free(todo) => Free(todo')
      <3>1. Free(<< "state_again" >>) /\ << "state_again" >> \in Seq(Steps)
        BY <1>2 DEF Free, Without
      <3> QED
        BY <1>1, <1>2, <1>6, <3>1, FreeTail, FreeConcat DEF CatchInv
    <2>3. faults = 0 /\ Outline /\ ~Free(todo) => AskingAgain(todo') /\ Told'
      BY <1>4, <2>1 DEF AskingAgain
    <2> QED
      BY <1>1, <2>1, <2>2, <2>3 DEF CatchInv, Outline
  <1> QED
    BY <1>1, <1>5, <1>6

LEMMA ReadStateAgainSteps == ASSUME CatchInv, ReadStateAgain PROVE CatchInv'
  <1>1. /\ todo # << >> /\ Head(todo) = "state_again" /\ UNCHANGED <<core, ctl, demcr, fresh, faults>>
        /\ seen' \in {"none", "reset", seen} /\ (Len(todo) # 1 => seen' # "none" \/ seen' = seen)
        /\ todo' = Tail(todo)
    BY DEF ReadStateAgain, At, Done
  <1>2. ASSUME faults = 0, Outline, ~Free(todo) PROVE Outline'
    <2>1. Told /\ AskingAgain(todo)
      BY <1>1, <1>2, Stages DEF Outline
    <2>2. Awaiting(todo') /\ todo' # << >>
      BY <1>1, <2>1, Stages DEF Awaiting, Begins
    <2>3. Len(todo) # 1
      BY <1>1, <2>2, HeadTailProperties, EmptySeq DEF CatchInv
    <2>4. Told'
      BY <1>1, <2>1, <2>3 DEF Told, Armed, CatchOn, DebugOn
    <2> QED
      BY <2>2, <2>4 DEF Outline
  <1> QED
    BY <1>1, <1>2, Taken

LEMMA ReadDemcrSteps == ASSUME CatchInv, ReadDemcr PROVE CatchInv'
  <1>1. todo # << >> /\ Head(todo) = "read_demcr" /\ todo' = Tail(todo) /\ UNCHANGED <<ctl, faults>>
    BY DEF ReadDemcr, At, Done, chip
  <1>2. ASSUME faults = 0, Outline, ~Free(todo) PROVE Outline'
    <2>1. DebugOn /\ ReadingDemcr(todo)
      BY <1>1, <1>2, Stages DEF Outline
    <2>2. DebugOn' /\ Enabling(todo')
      BY <1>1, <2>1, Stages DEF DebugOn
    <2> QED
      BY <2>2 DEF Outline
  <1> QED
    BY <1>1, <1>2, Taken

LEMMA WriteCatchesSteps == ASSUME CatchInv, WriteCatches PROVE CatchInv'
  <1>1. PICK step \in {"catch", "restore_demcr", "debug_blocks_off", "set_catches"} :
            /\ todo # << >> /\ Head(todo) = step /\ todo' = Tail(todo) /\ UNCHANGED <<ctl, faults>>
            /\ step = "catch" => "VC_CORERESET" \in demcr'
    BY DEF WriteCatches, WriteDemcr, At, Done
  <1>2. ASSUME faults = 0, Outline, ~Free(todo) PROVE Outline'
    <2>1. (DebugOn /\ Enabling(todo)) \/ Restoring(todo)
      BY <1>1, <1>2, Stages DEF Outline
    <2>2. CASE DebugOn /\ Enabling(todo)
      <3>1. CatchOn' /\ Counting(todo')
        BY <1>1, <2>2, Stages DEF CatchOn, DebugOn
      <3> QED
        BY <3>1 DEF Outline
    <2>3. CASE Restoring(todo)
      <3>1. Free(todo')
        BY <1>1, <2>3, Stages
      <3> QED
        BY <3>1 DEF Outline
    <2> QED
      BY <2>1, <2>2, <2>3
  <1> QED
    BY <1>1, <1>2, Taken

LEMMA NewTokenSteps == ASSUME CatchInv, NewToken PROVE CatchInv'
  <1>1. todo # << >> /\ Head(todo) \in {"count", "stepped"} /\ todo' = Tail(todo) /\ UNCHANGED <<ctl, demcr, faults>>
    BY DEF NewToken, AtOneOf, Done
  <1>2. ASSUME faults = 0, Outline, ~Free(todo) PROVE Outline'
    <2>1. CatchOn /\ Counting(todo)
      BY <1>1, <1>2, Stages DEF Outline
    <2>2. CatchOn' /\ (Requesting(todo') \/ Halting(todo'))
      BY <1>1, <2>1, Stages DEF CatchOn, DebugOn
    <2> QED
      BY <2>2 DEF Outline
  <1> QED
    BY <1>1, <1>2, Taken

LEMMA RequestResetSteps == ASSUME CatchInv, RequestReset PROVE CatchInv'
  <1>1. /\ todo # << >> /\ Head(todo) \in {"pin_reset", "request_reset"} /\ todo' = Tail(todo)
        /\ UNCHANGED <<demcr, faults>> /\ core' = "reset" /\ fresh' = TRUE
        /\ ctl' = ctl \ {"HALT", "STEP", "MASKINTS"}
    BY DEF RequestReset, EnterReset, AtOneOf, Done
  <1>2. ASSUME faults = 0, Outline, ~Free(todo) PROVE Outline'
    <2>1. CatchOn /\ Requesting(todo)
      BY <1>1, <1>2, Stages DEF Outline
    <2>2. Armed'
      BY <1>1, <2>1 DEF Armed, CatchOn, DebugOn
    <2>3. Waiting(todo') \/ Finishing(todo')
      BY <1>1, <2>1, Stages
    <2> QED
      BY <2>2, <2>3 DEF Outline
  <1> QED
    BY <1>1, <1>2, Taken

LEMMA ResetRegistersSteps == ASSUME CatchInv, ResetRegisters PROVE CatchInv'
  <1>1. todo # << >> /\ Head(todo) = "reset_registers" /\ UNCHANGED <<demcr, ctl, core, faults>>
    BY DEF ResetRegisters, At
  <1>2. CASE core = "halted"
    <2>1. todo' = Tail(todo) /\ fresh' = TRUE
      BY <1>2 DEF ResetRegisters, Done
    <2>2. ASSUME faults = 0, Outline, ~Free(todo) PROVE Outline'
      <3>1. CatchOn /\ Requesting(todo)
        BY <1>1, <2>2, Stages DEF Outline
      <3>2. Armed'
        BY <1>1, <1>2, <2>1, <3>1 DEF Armed, CatchOn, DebugOn
      <3>3. Finishing(todo')
        BY <1>1, <2>1, <3>1, Stages
      <3> QED
        BY <3>2, <3>3 DEF Outline
    <2> QED
      BY <1>1, <2>1, <2>2, Taken
  <1>3. CASE core # "halted"
    BY <1>1, <1>3, Ended DEF ResetRegisters, Abort, CatchInv
  <1> QED
    BY <1>2, <1>3

LEMMA SetThumbSteps == ASSUME CatchInv, SetThumb PROVE CatchInv'
  <1>1. todo # << >> /\ Head(todo) \in {"set_thumb", "write_xpsr"} /\ UNCHANGED <<demcr, ctl, core, fresh, faults>>
    BY DEF SetThumb, AtOneOf
  <1>2. CASE core = "halted"
    <2>1. todo' = Tail(todo)
      BY <1>2 DEF SetThumb, Done
    <2>2. ASSUME faults = 0, Outline, ~Free(todo) PROVE Outline'
      <3>1. Armed /\ Thumbing(todo)
        BY <1>1, <2>2, Stages DEF Outline
      <3>2. Caught'
        BY <1>1, <1>2, <3>1 DEF Caught, Armed, CatchOn, DebugOn
      <3>3. Restoring(todo')
        BY <2>1, <3>1, Stages
      <3> QED
        BY <3>2, <3>3 DEF Outline
    <2> QED
      BY <1>1, <2>1, <2>2, Taken
  <1>3. CASE core # "halted"
    BY <1>1, <1>3, Ended DEF SetThumb, Abort, CatchInv
  <1> QED
    BY <1>2, <1>3

\* The waits for the end of the reset, whether they see it or give up.
LEMMA WaitSteps ==
    ASSUME CatchInv, todo # << >>, Head(todo) \in {"await_out", "wait_out"},
           UNCHANGED <<seen, core, ctl, demcr, fresh, faults>>, todo' = todo \/ todo' = Tail(todo)
    PROVE  CatchInv'
  <1>1. (DebugOn => DebugOn') /\ (CatchOn => CatchOn') /\ (Armed => Armed')
    BY DEF DebugOn, CatchOn, Armed
  <1>2. (Told => Told') /\ (Caught => Caught')
    BY <1>1 DEF Told, Caught
  <1>3. CASE todo' = todo
    BY <1>1, <1>2, <1>3 DEF CatchInv, Outline
  <1>4. CASE todo' = Tail(todo)
    <2>1. ASSUME faults = 0, Outline, ~Free(todo) PROVE Outline'
      <3>1. Armed /\ (Waiting(todo) \/ WaitingTwice(todo))
        BY <2>1, Stages DEF Outline
      <3>2. Armed' /\ (Asking(todo') \/ WaitingTwice(todo'))
        BY <1>1, <1>4, <3>1, Stages
      <3> QED
        BY <3>2 DEF Outline
    <2> QED
      BY <1>4, <2>1, Taken
  <1> QED
    BY <1>3, <1>4

LEMMA AwaitCaughtSteps == ASSUME CatchInv, AwaitCaught PROVE CatchInv'
  <1>1. /\ todo # << >> /\ Head(todo) \in {"await_catch", "await_halted"}
        /\ UNCHANGED <<core, ctl, demcr, fresh, faults>>
    BY DEF AwaitCaught, AtOneOf, chip
  <1>2. \/ todo' = << "state" >> \o todo
        \/ todo' = Tail(todo) /\ seen \notin {"reset", "running"}
    BY DEF AwaitCaught, Done
  <1>3. Armed => Armed'
    BY <1>1 DEF Armed, CatchOn, DebugOn
  <1>4. ASSUME faults = 0, Outline, ~Free(todo) PROVE Told /\ Awaiting(todo) /\ Armed'
    <2>1. Told /\ Awaiting(todo)
      BY <1>1, <1>4, Stages DEF Outline
    <2> QED
      BY <1>3, <2>1 DEF Told
  <1>5. CASE todo' = Tail(todo) /\ seen \notin {"reset", "running"}
    <2>1. ASSUME faults = 0, Outline, ~Free(todo) PROVE Outline'
      <3>1. Caught' /\ Armed'
        BY <1>1, <1>4, <1>5, <2>1 DEF Told, Caught
      <3>2. Thumbing(todo') \/ Restoring(todo')
        BY <1>4, <1>5, <2>1, Stages
      <3> QED
        BY <3>1, <3>2 DEF Outline
    <2> QED
      BY <1>1, <1>5, <2>1, Taken
  <1>6. CASE todo' = << "state" >> \o todo
    <2>1. "state" \in Steps
      BY DEF Steps
    <2>2. todo' \in Seq(Steps) /\ Begins(todo', {"state"}) /\ Tail(todo') = todo
      BY <1>6, <2>1, OneInFront DEF Begins, CatchInv
    <2>3. Free(todo) => Free(todo')
      <3>1. Free(<< "state" >>) /\ << "state" >> \in Seq(Steps)
        BY <2>1 DEF Free, Without
      <3> QED
        BY <1>6, <3>1, FreeConcat DEF CatchInv
    <2>4. faults = 0 /\ Outline /\ ~Free(todo) => Armed' /\ Asking(todo')
      BY <1>4, <2>2 DEF Asking
    <2> QED
      BY <1>1, <2>2, <2>3, <2>4 DEF CatchInv, Outline
  <1> QED
    BY <1>2, <1>5, <1>6

LEMMA GiveUpSteps == ASSUME CatchInv, GiveUp PROVE CatchInv'
  <1>1. /\ todo # << >> /\ Head(todo) \in {"await_out", "wait_out", "await_catch"} /\ todo' = Tail(todo)
        /\ UNCHANGED <<seen, core, ctl, demcr, fresh, faults>>
    BY DEF GiveUp, AtOneOf, Done, chip
  <1>2. CASE Head(todo) \in {"await_out", "wait_out"}
    BY <1>1, <1>2, WaitSteps
  <1>3. CASE Head(todo) = "await_catch"
    <2>1. ASSUME faults = 0, Outline, ~Free(todo) PROVE Outline'
      <3>1. Told /\ Awaiting(todo)
        BY <1>3, <2>1, Stages DEF Outline
      <3>2. Armed'
        BY <1>1, <3>1 DEF Told, Armed, CatchOn, DebugOn
      <3>3. Thumbing(todo')
        BY <1>1, <1>3, <3>1, Stages
      <3> QED
        BY <3>2, <3>3 DEF Outline
    <2> QED
      BY <1>1, <2>1, Taken
  <1> QED
    BY <1>1, <1>2, <1>3

LEMMA AwaitOutSteps == ASSUME CatchInv, AwaitOut PROVE CatchInv'
  <1>1. /\ todo # << >> /\ Head(todo) \in {"await_out", "wait_out"} /\ (todo' = todo \/ todo' = Tail(todo))
        /\ UNCHANGED <<seen, core, ctl, demcr, fresh, faults>>
    BY DEF AwaitOut, AtOneOf, Done
  <1> QED
    BY <1>1, WaitSteps

LEMMA AwaitStepSteps == ASSUME CatchInv, AwaitStep PROVE CatchInv'
  <1>1. todo # << >> /\ Head(todo) = "await_step" /\ todo' = Tail(todo) /\ UNCHANGED faults
    BY DEF AwaitStep, At, Done
  <1>2. Outline => Free(todo)
    BY <1>1, Stages DEF Outline
  <1> QED
    BY <1>1, <1>2, Taken

\* Lists that are written down in full restore DEMCR where they say so.
LEMMA StepLists ==
    ASSUME NEW disable \in BOOLEAN
    PROVE  StepSteps(disable) \in Seq(Steps) /\ Free(StepSteps(disable))
  <1> DEFINE mask == disable /\ "MASKINTS" \notin ctl
             first == << "clear_dfsr" >>
             second == IF mask THEN << "halt_masked" >> ELSE << >>
             third == << IF disable \/ "MASKINTS" \in ctl THEN "step_masked" ELSE "step", "await_step" >>
             fourth == IF mask THEN << "halt" >> ELSE << >>
             fifth == << "flush", "stepped" >>
  <1>0. << >> \in Seq(Steps)
    BY EmptySeq
  <1>1. first \in Seq(Steps) /\ Free(first)
    BY DEF Steps, Free, Without
  <1>2. second \in Seq(Steps) /\ Free(second)
    <2>1. << "halt_masked" >> \in Seq(Steps) /\ Free(<< "halt_masked" >>)
      BY DEF Steps, Free, Without
    <2> QED
      BY <1>0, <2>1, FreeEmpty
  <1>3. third \in Seq(Steps) /\ Free(third)
    <2>1. \A x \in {"step", "step_masked"} : << x, "await_step" >> \in Seq(Steps) /\ Free(<< x, "await_step" >>)
      BY DEF Steps, Free, Without
    <2> QED
      BY <2>1
  <1>4. fourth \in Seq(Steps) /\ Free(fourth)
    <2>1. << "halt" >> \in Seq(Steps) /\ Free(<< "halt" >>)
      BY DEF Steps, Free, Without
    <2> QED
      BY <1>0, <2>1, FreeEmpty
  <1>5. fifth \in Seq(Steps) /\ Free(fifth)
    BY DEF Steps, Free, Without
  <1>6. StepSteps(disable) = (((first \o second) \o third) \o fourth) \o fifth
    BY DEF StepSteps
  <1> HIDE DEF first, second, third, fourth, fifth
  <1>7. first \o second \in Seq(Steps) /\ Free(first \o second)
    BY <1>1, <1>2, FreeConcat
  <1>8. (first \o second) \o third \in Seq(Steps) /\ Free((first \o second) \o third)
    BY <1>3, <1>7, FreeConcat
  <1>9. ((first \o second) \o third) \o fourth \in Seq(Steps) /\ Free(((first \o second) \o third) \o fourth)
    BY <1>4, <1>8, FreeConcat
  <1> QED
    BY <1>5, <1>6, <1>9, FreeConcat

LEMMA LookSteps == ASSUME CatchInv, Look PROVE CatchInv'
  <1>1. /\ todo # << >> /\ UNCHANGED faults
        /\ todo' = StepSteps(At("look")) \/ todo' = << >>
    BY DEF Look, AtOneOf
  <1>2. CASE todo' = << >>
    BY <1>1, <1>2, Ended DEF CatchInv
  <1>3. CASE todo' = StepSteps(At("look"))
    <2>1. At("look") \in BOOLEAN
      BY DEF At
    <2>2. todo' \in Seq(Steps) /\ Free(todo')
      BY <1>3, <2>1, StepLists
    <2> QED
      BY <1>1, <2>2 DEF CatchInv, Outline
  <1> QED
    BY <1>1, <1>2, <1>3

LEMMA DecideResumeSteps == ASSUME CatchInv, DecideResume PROVE CatchInv'
  <1>1. /\ todo # << >> /\ Head(todo) = "resume" /\ UNCHANGED faults
        /\ todo' = Tail(todo) \/ todo' = SubSeq(todo, 5, Len(todo))
    BY DEF DecideResume, At, Done
  <1>2. Outline => Free(todo)
    BY <1>1, Stages DEF Outline
  <1>3. CASE todo' = Tail(todo)
    BY <1>1, <1>2, <1>3, Taken
  <1>4. CASE todo' = SubSeq(todo, 5, Len(todo))
    <2>1. todo' \in Seq(Steps) /\ (Free(todo) => Free(todo'))
      BY <1>4, WithoutSubSeq DEF CatchInv, Free
    <2> QED
      BY <1>1, <1>2, <2>1 DEF CatchInv, Outline
  <1> QED
    BY <1>1, <1>3, <1>4

\* A call in which an access failed promises nothing.
LEMMA FaultSteps == ASSUME CatchInv, Fault PROVE CatchInv'
  <1>1. CASE todo' = << >>
    BY <1>1, Ended DEF Fault
  <1>2. CASE todo' # << >>
    <2>1. todo # << >> /\ faults' = faults + 1 /\ faults \in Nat /\ todo \in Seq(Steps)
      BY <1>2 DEF Fault, CatchInv
    <2>2. \/ todo' = << "flush" >> \o SubSeq(todo, 3, Len(todo))
          \/ todo' = << "flush" >> \o Tail(todo)
          \/ todo' = << "flush" >> \o todo
          \/ todo' = todo
      BY <1>2 DEF Fault
    <2>3. "flush" \in Steps
      BY DEF Steps
    <2>4. SubSeq(todo, 3, Len(todo)) \in Seq(Steps) /\ Tail(todo) \in Seq(Steps)
      BY <2>1, WithoutSubSeq, TailInSeq
    <2>5. \A s \in Seq(Steps) : << "flush" >> \o s \in Seq(Steps)
      BY <2>3, OneInFront
    <2>6. todo' \in Seq(Steps)
      BY <2>1, <2>2, <2>4, <2>5
    <2> QED
      BY <2>1, <2>6 DEF CatchInv
  <1> QED
    BY <1>1, <1>2

-----------------------------------------------------------------------------
(* The calls *)

LEMMA TwoInFront ==
    ASSUME NEW S, NEW x \in S, NEW y \in S, NEW s \in Seq(S)
    PROVE  << x, y >> \o s = << x >> \o (<< y >> \o s)
  <1> DEFINE one == << x >>
             two == << y >>
             both == << x, y >>
  <1>1. one \in Seq(S) /\ two \in Seq(S) /\ Len(one) = 1 /\ Len(two) = 1 /\ one[1] = x /\ two[1] = y
    OBVIOUS
  <1>2. both \in Seq(S) /\ Len(both) = 2 /\ both[1] = x /\ both[2] = y
    OBVIOUS
  <1> HIDE DEF one, two, both
  <1>3. one \o two \in Seq(S) /\ Len(one \o two) = 2 /\ (one \o two)[1] = x /\ (one \o two)[2] = y
    <2>1. /\ one \o two \in Seq(S) /\ Len(one \o two) = Len(one) + Len(two)
          /\ \A i \in 1 .. Len(one) + Len(two) : (one \o two)[i] = IF i <= Len(one) THEN one[i] ELSE two[i - Len(one)]
      BY <1>1, ConcatProperties
    <2> QED
      BY <1>1, <2>1
  <1>4. \A i \in 1 .. Len(both) : both[i] = (one \o two)[i]
    BY <1>2, <1>3
  <1>5. both = one \o two
    BY <1>2, <1>3, <1>4, SeqEqual
  <1>6. (one \o two) \o s = one \o (two \o s)
    BY <1>1, ConcatAssociative
  <1> QED
    BY <1>5, <1>6 DEF one, two, both

\* The steps of a reset are those of one of three kinds.
LEMMA ResetKinds ==
    ASSUME NEW type
    PROVE  PerformResetSteps(type) \in {<< "pin_reset" >>, << "request_reset", "flush_request" >>,
                                        HaltSteps \o << "reset_registers", "reset_system" >>}
  BY DEF PerformResetSteps

\* Of the reset and what comes after it.
LEMMA ResetCounts ==
    ASSUME NEW type, NEW s \in Seq(Steps), Asking(s) \/ WaitingTwice(s)
    PROVE  ResetSteps(type) \o s \in Seq(Steps) /\ Counting(ResetSteps(type) \o s)
  <1> DEFINE kind == PerformResetSteps(ActualResetType(type))
             count == << "count" >>
             out == << "await_out" >>
             waiting == out \o s
             made == kind \o waiting
  <1>1. /\ {"count", "await_out", "pin_reset", "request_reset", "flush_request"} \subseteq Steps
        /\ {"halt", "flush", "reset_registers", "reset_system"} \subseteq Steps
    BY DEF Steps
  <1>2. waiting \in Seq(Steps) /\ Waiting(waiting)
    <2>1. waiting \in Seq(Steps) /\ waiting # << >> /\ Head(waiting) = "await_out" /\ Tail(waiting) = s
      BY <1>1, OneInFront
    <2> QED
      BY <2>1 DEF Waiting, Begins
  <1> HIDE DEF waiting
  <1>3. ASSUME NEW x \in {"flush_request", "reset_system"}
        PROVE  << x >> \o waiting \in Seq(Steps) /\ Finishing(<< x >> \o waiting)
    <2>1. /\ << x >> \o waiting \in Seq(Steps) /\ << x >> \o waiting # << >>
          /\ Head(<< x >> \o waiting) = x /\ Tail(<< x >> \o waiting) = waiting
      BY <1>1, <1>2, OneInFront
    <2> QED
      BY <1>2, <2>1 DEF Finishing, Begins
  <1>4. ASSUME NEW x \in {"request_reset", "reset_registers"}, NEW t \in Seq(Steps), Finishing(t)
        PROVE  << x >> \o t \in Seq(Steps) /\ Requesting(<< x >> \o t)
    <2>1. << x >> \o t \in Seq(Steps) /\ << x >> \o t # << >> /\ Head(<< x >> \o t) = x /\ Tail(<< x >> \o t) = t
      BY <1>1, <1>4, OneInFront
    <2> QED
      BY <1>4, <2>1 DEF Requesting, Begins
  <1>5. made \in Seq(Steps) /\ (Requesting(made) \/ Halting(made))
    <2>1. CASE kind = << "pin_reset" >>
      <3>1. made \in Seq(Steps) /\ made # << >> /\ Head(made) = "pin_reset" /\ Tail(made) = waiting
        BY <1>1, <1>2, <2>1, OneInFront
      <3> QED
        BY <1>2, <3>1 DEF Requesting, Begins
    <2>2. CASE kind = << "request_reset", "flush_request" >>
      <3>1. made = << "request_reset" >> \o (<< "flush_request" >> \o waiting)
        BY <1>1, <1>2, <2>2, TwoInFront
      <3> QED
        BY <1>3, <1>4, <3>1
    <2>3. CASE kind = HaltSteps \o << "reset_registers", "reset_system" >>
      <3> DEFINE registers == << "reset_registers" >> \o (<< "reset_system" >> \o waiting)
                 flush == << "flush" >> \o registers
                 two == << "reset_registers", "reset_system" >>
      <3>1. registers \in Seq(Steps) /\ Requesting(registers)
        BY <1>3, <1>4
      <3>2. two \o waiting = registers
        BY <1>1, <1>2, TwoInFront
      <3>3. two \in Seq(Steps) /\ HaltSteps \in Seq(Steps)
        BY <1>1 DEF HaltSteps
      <3> HIDE DEF registers, two
      <3>4. flush \in Seq(Steps) /\ HaltFlushing(flush)
        <4>1. flush \in Seq(Steps) /\ flush # << >> /\ Head(flush) = "flush" /\ Tail(flush) = registers
          BY <1>1, <3>1, OneInFront
        <4> QED
          BY <3>1, <4>1 DEF HaltFlushing, Begins
      <3>5. made = << "halt" >> \o flush
        <4>1. made = (HaltSteps \o two) \o waiting
          BY <2>3 DEF two
        <4>2. (HaltSteps \o two) \o waiting = HaltSteps \o (two \o waiting)
          BY <1>2, <3>3, ConcatAssociative
        <4>3. HaltSteps \o registers = << "halt" >> \o flush
          BY <1>1, <3>1, TwoInFront DEF HaltSteps
        <4> QED
          BY <3>2, <4>1, <4>2, <4>3
      <3> HIDE DEF flush, made
      <3>6. made \in Seq(Steps) /\ made # << >> /\ Head(made) = "halt" /\ Tail(made) = flush
        BY <1>1, <3>4, <3>5, OneInFront
      <3> QED
        BY <3>4, <3>6 DEF Halting, Begins
    <2> QED
      BY <2>1, <2>2, <2>3, ResetKinds
  <1>6. ResetSteps(type) \o s = count \o made
    <2>1. ResetSteps(type) = (count \o kind) \o out
      BY DEF ResetSteps
    <2>2. kind \in Seq(Steps)
      <3>1. << "pin_reset" >> \in Seq(Steps) /\ << "request_reset", "flush_request" >> \in Seq(Steps)
        BY <1>1
      <3>2. HaltSteps \in Seq(Steps) /\ << "reset_registers", "reset_system" >> \in Seq(Steps)
        BY <1>1 DEF HaltSteps
      <3> QED
        BY <3>1, <3>2, ConcatProperties, ResetKinds
    <2>3. count \in Seq(Steps) /\ out \in Seq(Steps)
      BY <1>1
    <2> HIDE DEF count, out, kind
    <2>4. count \o kind \in Seq(Steps)
      BY <2>2, <2>3, ConcatProperties
    <2>5. ((count \o kind) \o out) \o s = (count \o kind) \o (out \o s)
      BY <2>3, <2>4, ConcatAssociative
    <2>6. (count \o kind) \o waiting = count \o (kind \o waiting)
      BY <1>2, <2>2, <2>3, ConcatAssociative
    <2> QED
      BY <2>1, <2>5, <2>6 DEF waiting
  <1> HIDE DEF made
  <1>7. /\ count \o made \in Seq(Steps) /\ count \o made # << >>
        /\ Head(count \o made) = "count" /\ Tail(count \o made) = made
    BY <1>1, <1>5, OneInFront
  <1> QED
    BY <1>5, <1>6, <1>7 DEF Counting, Begins

\* Of the halt and the vector catch before it.
LEMMA CatchStarts ==
    ASSUME NEW s \in Seq(Steps), Counting(s)
    PROVE  CatchSteps \o s \in Seq(Steps) /\ Starting(CatchSteps \o s)
  <1> DEFINE enabling == << "catch" >> \o s
             reading == << "read_demcr" >> \o enabling
             flushing == << "flush" >> \o reading
             starting == << "halt" >> \o flushing
             two == << "read_demcr", "catch" >>
  <1>1. {"halt", "flush", "read_demcr", "catch"} \subseteq Steps
    BY DEF Steps
  <1>2. enabling \in Seq(Steps) /\ enabling # << >> /\ Head(enabling) = "catch" /\ Tail(enabling) = s
    BY <1>1, OneInFront
  <1>3. two \o s = reading
    BY <1>1, TwoInFront
  <1>4. two \in Seq(Steps) /\ HaltSteps \in Seq(Steps)
    BY <1>1 DEF HaltSteps
  <1> HIDE DEF enabling
  <1>5. reading \in Seq(Steps) /\ reading # << >> /\ Head(reading) = "read_demcr" /\ Tail(reading) = enabling
    BY <1>1, <1>2, OneInFront
  <1> HIDE DEF reading
  <1>6. flushing \in Seq(Steps) /\ flushing # << >> /\ Head(flushing) = "flush" /\ Tail(flushing) = reading
    BY <1>1, <1>5, OneInFront
  <1>7. CatchSteps \o s = starting
    <2>1. CatchSteps \o s = (HaltSteps \o two) \o s
      BY DEF CatchSteps
    <2> HIDE DEF two
    <2>2. (HaltSteps \o two) \o s = HaltSteps \o (two \o s)
      BY <1>4, ConcatAssociative
    <2>3. HaltSteps \o reading = starting
      BY <1>1, <1>5, TwoInFront DEF HaltSteps
    <2> QED
      BY <1>3, <2>1, <2>2, <2>3
  <1> HIDE DEF flushing
  <1>8. starting \in Seq(Steps) /\ starting # << >> /\ Head(starting) = "halt" /\ Tail(starting) = flushing
    BY <1>1, <1>6, OneInFront
  <1> HIDE DEF starting
  <1>9. Enabling(enabling)
    BY <1>2 DEF Enabling, Begins
  <1>10. ReadingDemcr(reading)
    BY <1>5, <1>9 DEF ReadingDemcr, Begins
  <1>11. Flushing(flushing)
    BY <1>6, <1>10 DEF Flushing, Begins
  <1> QED
    BY <1>7, <1>8, <1>11 DEF Starting, Begins

\* What comes after the reset, in CortexM and in XLink.
LEMMA CatchEnds ==
    ASSUME NEW s, s = << "state", "await_catch", "set_thumb", "restore_demcr" >>
    PROVE  s \in Seq(Steps) /\ Asking(s)
  <1> DEFINE awaiting == << "await_catch", "set_thumb", "restore_demcr" >>
             thumbing == << "set_thumb", "restore_demcr" >>
             restoring == << "restore_demcr" >>
  <1>1. s \in Seq(Steps)
    BY DEF Steps
  <1>2. Head(s) = "state" /\ Tail(s) = awaiting /\ s # << >>
    OBVIOUS
  <1>3. Head(awaiting) = "await_catch" /\ Tail(awaiting) = thumbing /\ awaiting # << >>
    OBVIOUS
  <1>4. Head(thumbing) = "set_thumb" /\ Tail(thumbing) = restoring /\ thumbing # << >>
    OBVIOUS
  <1>5. Head(restoring) = "restore_demcr" /\ Tail(restoring) = << >> /\ restoring # << >>
    OBVIOUS
  <1> HIDE DEF awaiting, thumbing, restoring
  <1>6. Restoring(restoring)
    BY <1>5, FreeEmpty DEF Restoring, Begins
  <1>7. Thumbing(thumbing)
    BY <1>4, <1>6 DEF Thumbing, Begins
  <1>8. Awaiting(awaiting)
    BY <1>3, <1>7 DEF Awaiting, Begins
  <1> QED
    BY <1>1, <1>2, <1>8 DEF Asking, Begins

LEMMA StopEnds ==
    ASSUME NEW s, s = << "wait_out", "state", "await_halted", "restore_demcr", "write_xpsr" >>
    PROVE  s \in Seq(Steps) /\ WaitingTwice(s)
  <1> DEFINE asking == << "state", "await_halted", "restore_demcr", "write_xpsr" >>
             awaiting == << "await_halted", "restore_demcr", "write_xpsr" >>
             restoring == << "restore_demcr", "write_xpsr" >>
             last == << "write_xpsr" >>
  <1>1. s \in Seq(Steps)
    BY DEF Steps
  <1>2. Head(s) = "wait_out" /\ Tail(s) = asking /\ s # << >>
    OBVIOUS
  <1>3. Head(asking) = "state" /\ Tail(asking) = awaiting /\ asking # << >>
    OBVIOUS
  <1>4. Head(awaiting) = "await_halted" /\ Tail(awaiting) = restoring /\ awaiting # << >>
    OBVIOUS
  <1>5. Head(restoring) = "restore_demcr" /\ Tail(restoring) = last /\ restoring # << >>
    OBVIOUS
  <1>6. Free(last)
    BY DEF Free, Without
  <1> HIDE DEF asking, awaiting, restoring, last
  <1>7. Restoring(restoring)
    BY <1>5, <1>6 DEF Restoring, Begins
  <1>8. Awaiting(awaiting)
    BY <1>4, <1>7 DEF Awaiting, Begins
  <1>9. Asking(asking)
    BY <1>3, <1>8 DEF Asking, Begins
  <1> QED
    BY <1>1, <1>2, <1>9 DEF WaitingTwice, Begins

LEMMA ResetLists ==
    ASSUME NEW type
    PROVE  ResetSteps(type) \in Seq(Steps) /\ Free(ResetSteps(type))
  <1> DEFINE kind == PerformResetSteps(ActualResetType(type))
             count == << "count" >>
             out == << "await_out" >>
             registers == << "reset_registers", "reset_system" >>
             pins == << "pin_reset" >>
             request == << "request_reset", "flush_request" >>
  <1>1. count \in Seq(Steps) /\ Free(count) /\ out \in Seq(Steps) /\ Free(out)
    BY DEF Steps, Free, Without
  <1>2. HaltSteps \in Seq(Steps) /\ Free(HaltSteps) /\ registers \in Seq(Steps) /\ Free(registers)
    BY DEF Steps, Free, Without, HaltSteps
  <1>3. pins \in Seq(Steps) /\ Free(pins) /\ request \in Seq(Steps) /\ Free(request)
    BY DEF Steps, Free, Without
  <1>4. kind \in {pins, request, HaltSteps \o registers}
    BY ResetKinds
  <1>5. ResetSteps(type) = (count \o kind) \o out
    BY DEF ResetSteps
  <1> HIDE DEF kind, count, out, registers, pins, request
  <1>6. kind \in Seq(Steps) /\ Free(kind)
    BY <1>2, <1>3, <1>4, FreeConcat
  <1>7. count \o kind \in Seq(Steps) /\ Free(count \o kind)
    BY <1>1, <1>6, FreeConcat
  <1> QED
    BY <1>1, <1>5, <1>7, FreeConcat

LEMMA CatchingLists ==
    ASSUME NEW s \in Seq(Steps), Asking(s) \/ WaitingTwice(s), NEW type
    PROVE  /\ (CatchSteps \o ResetSteps(type)) \o s \in Seq(Steps)
           /\ Starting((CatchSteps \o ResetSteps(type)) \o s)
  <1>1. ResetSteps(type) \o s \in Seq(Steps) /\ Counting(ResetSteps(type) \o s)
    BY ResetCounts
  <1>2. CatchSteps \in Seq(Steps)
    <2>1. HaltSteps \in Seq(Steps) /\ << "read_demcr", "catch" >> \in Seq(Steps)
      BY DEF Steps, HaltSteps
    <2> QED
      BY <2>1, ConcatProperties DEF CatchSteps
  <1>3. (CatchSteps \o ResetSteps(type)) \o s = CatchSteps \o (ResetSteps(type) \o s)
    BY <1>2, ResetLists, ConcatAssociative
  <1> QED
    BY <1>1, <1>3, CatchStarts

LEMMA ResumeLists == ResumeSteps \in Seq(Steps) /\ Free(ResumeSteps)
  <1>1. ResumeSteps \in Seq(Steps)
    BY DEF Steps, ResumeSteps
  <1>2. Free(ResumeSteps)
    BY DEF Free, Without, ResumeSteps
  <1> QED
    BY <1>1, <1>2

LEMMA DisconnectLists ==
    ASSUME NEW resume \in BOOLEAN
    PROVE  DisconnectSteps(resume) \in Seq(Steps) /\ Free(DisconnectSteps(resume))
  <1> DEFINE off == << "debug_blocks_off" >>
             last == << "debug_off" >>
  <1>1. off \in Seq(Steps) /\ Free(off) /\ last \in Seq(Steps) /\ Free(last)
    BY DEF Steps, Free, Without
  <1>2. << >> \in Seq(Steps)
    BY EmptySeq
  <1>3. DisconnectSteps(resume) = off \o (IF resume THEN ResumeSteps \o last ELSE << >>)
    BY DEF DisconnectSteps
  <1> HIDE DEF off, last
  <1>4. ResumeSteps \o last \in Seq(Steps) /\ Free(ResumeSteps \o last)
    BY <1>1, ResumeLists, FreeConcat
  <1>5. CASE resume
    BY <1>1, <1>3, <1>4, <1>5, FreeConcat
  <1>6. CASE ~resume
    BY <1>1, <1>2, <1>3, <1>6, FreeConcat, FreeEmpty
  <1> QED
    BY <1>5, <1>6

LEMMA BeginFree ==
    ASSUME NEW steps \in Seq(Steps), Begin(steps), Free(steps) \/ Starting(steps)
    PROVE  CatchInv'
  BY DEF Begin, CatchInv, Outline

LEMMA CallBegins == ASSUME RunCall PROVE CatchInv'
  <1>1. CASE Identify
    <2>1. IdentifySteps \in Seq(Steps) /\ Free(IdentifySteps)
      BY DEF IdentifySteps, Steps, Free, Without
    <2> QED
      BY <1>1, <2>1, BeginFree DEF Identify
  <1>2. CASE Halt
    <2>1. HaltSteps \in Seq(Steps) /\ Free(HaltSteps)
      BY DEF HaltSteps, Steps, Free, Without
    <2> QED
      BY <1>2, <2>1, BeginFree DEF Halt
  <1>3. CASE GetState \/ SetVectorCatch
    <2>1. << "state" >> \in Seq(Steps) /\ Free(<< "state" >>)
      BY DEF Steps, Free, Without
    <2>2. << "read_demcr", "set_catches" >> \in Seq(Steps) /\ Free(<< "read_demcr", "set_catches" >>)
      BY DEF Steps, Free, Without
    <2> QED
      BY <1>3, <2>1, <2>2, BeginFree DEF GetState, SetVectorCatch
  <1>4. CASE Step
    <2>1. \A x \in {"look", "look_interrupts_on"} : << x >> \in Seq(Steps) /\ Free(<< x >>)
      BY DEF Steps, Free, Without
    <2>2. \E x \in {"look", "look_interrupts_on"} : Begin(<< x >>)
      BY <1>4 DEF Step, BeginRun
    <2> QED
      BY <2>1, <2>2, BeginFree
  <1>5. CASE Resume
    BY <1>5, ResumeLists, BeginFree DEF Resume, BeginRun
  <1>6. CASE Reset
    BY <1>6, ResetLists, BeginFree DEF Reset, BeginRun
  <1>7. CASE ResetAndHalt
    <2> DEFINE ends == << "state", "await_catch", "set_thumb", "restore_demcr" >>
    <2>1. PICK type : Begin((CatchSteps \o ResetSteps(type)) \o ends)
      BY <1>7 DEF ResetAndHalt, BeginRun, ResetAndHaltSteps
    <2>2. ends \in Seq(Steps) /\ Asking(ends)
      BY CatchEnds
    <2> HIDE DEF ends
    <2> QED
      BY <2>1, <2>2, CatchingLists, BeginFree
  <1>8. CASE ResetStopOnReset
    <2> DEFINE ends == << "wait_out", "state", "await_halted", "restore_demcr", "write_xpsr" >>
    <2>1. Begin((CatchSteps \o ResetSteps("SW")) \o ends)
      BY <1>8 DEF ResetStopOnReset, BeginRun, ResetStopSteps
    <2>2. ends \in Seq(Steps) /\ WaitingTwice(ends)
      BY StopEnds
    <2> HIDE DEF ends
    <2> QED
      BY <2>1, <2>2, CatchingLists, BeginFree
  <1>9. CASE Disconnect
    BY <1>9, DisconnectLists, BeginFree DEF Disconnect, BeginRun
  <1> QED
    BY <1>1, <1>2, <1>3, <1>4, <1>5, <1>6, <1>7, <1>8, <1>9 DEF RunCall

-----------------------------------------------------------------------------
(* The theorem *)

LEMMA InitCatch == ASSUME RunInit PROVE CatchInv
  <1>1. todo \in Seq(Steps)
    BY EmptySeq DEF RunInit
  <1> QED
    BY <1>1, FreeEmpty DEF RunInit, CatchInv, Outline

LEMMA UnchangedCatch == ASSUME CatchInv, UNCHANGED runVars PROVE CatchInv'
  BY DEF runVars, caller, chip, CatchInv, Outline, DebugOn, CatchOn, Armed, Told, Caught

LEMMA NextCatch == ASSUME CatchInv, [RunNext]_runVars PROVE CatchInv'
  <1>1. CASE RunCall
    BY <1>1, CallBegins
  <1>2. CASE CallStep
    BY <1>2, WriteControlSteps, OtherAccessSteps, LookSteps, AwaitStepSteps, ReadStateSteps,
       ReadStateAgainSteps, ReadDemcrSteps, WriteCatchesSteps, NewTokenSteps, DecideResumeSteps,
       RequestResetSteps, ResetRegistersSteps, SetThumbSteps, AwaitOutSteps, AwaitCaughtSteps DEF CallStep
  <1>3. CASE GiveUp \/ Fault \/ Core
    BY <1>3, GiveUpSteps, FaultSteps, CoreKeeps
  <1>4. CASE UNCHANGED runVars
    BY <1>4, UnchangedCatch
  <1> QED
    BY <1>1, <1>2, <1>3, <1>4 DEF RunNext

(* When CortexM.reset_and_halt, or the reset of XLink that stops on the    *)
(* reset handler, has come to restore DEMCR with no access failed, the     *)
(* core is halted there and has executed nothing, whichever reset it was.  *)
THEOREM ResetsAreCaught == RunSpec => []ResetCaught
  <1>1. RunInit => CatchInv
    BY InitCatch
  <1>2. CatchInv /\ [RunNext]_runVars => CatchInv'
    BY NextCatch
  <1>3. CatchInv => ResetCaught
    <2> SUFFICES ASSUME CatchInv, At("restore_demcr"), faults = 0 PROVE core = "halted" /\ fresh
      BY DEF ResetCaught
    <2>1. todo # << >> /\ Head(todo) = "restore_demcr" /\ ~Free(todo)
      BY FreeHead DEF At, CatchInv
    <2>2. Caught
      BY <2>1, Stages DEF CatchInv, Outline
    <2> QED
      BY <2>2 DEF Caught, Armed
  <1> QED
    BY <1>1, <1>2, <1>3, PTL DEF RunSpec

-----------------------------------------------------------------------------
(* A step of the core *)

\* A list that does not come to the end of a step.
Stepless(s) == Without(s, "stepped")

Stepped(s) == Begins(s, {"stepped"}) /\ Stepless(Tail(s))
StepFlushing(s) == Begins(s, {"flush"}) /\ Stepped(Tail(s))
Unmasking(s) == Begins(s, {"halt"}) /\ StepFlushing(Tail(s))
AwaitingStep(s) == Begins(s, {"await_step"}) /\ (StepFlushing(Tail(s)) \/ Unmasking(Tail(s)))
Asked(s) == Begins(s, {"step", "step_masked"}) /\ AwaitingStep(Tail(s))
Masking(s) == Begins(s, {"halt_masked"}) /\ Asked(Tail(s))
Clearing(s) == Begins(s, {"clear_dfsr"}) /\ (Masking(Tail(s)) \/ Asked(Tail(s)))

\* The core before a step, during it and after it, unless it had not halted.
Before == executed = -1 \/ (executed = 0 /\ core = "halted")
During ==
    \/ executed = -1
    \/ executed = 0 /\ core = "running" /\ "STEP" \in ctl /\ "HALT" \notin ctl
    \/ executed = 1 /\ core = "halted" /\ "HALT" \in ctl
After == executed = -1 \/ (executed = 1 /\ core = "halted")

StepOutline ==
    \/ Stepless(todo)
    \/ Before /\ (Clearing(todo) \/ Masking(todo) \/ Asked(todo))
    \/ During /\ AwaitingStep(todo)
    \/ After /\ (Unmasking(todo) \/ StepFlushing(todo) \/ Stepped(todo))

StepInv == CatchInv /\ StepOutline

LEMMA StepStages ==
    /\ Clearing(todo) => Head(todo) = "clear_dfsr" /\ (Masking(Tail(todo)) \/ Asked(Tail(todo)))
    /\ Masking(todo) => Head(todo) = "halt_masked" /\ Asked(Tail(todo))
    /\ Asked(todo) => Head(todo) \in {"step", "step_masked"} /\ AwaitingStep(Tail(todo))
    /\ AwaitingStep(todo) => Head(todo) = "await_step" /\ (StepFlushing(Tail(todo)) \/ Unmasking(Tail(todo)))
    /\ Unmasking(todo) => Head(todo) = "halt" /\ StepFlushing(Tail(todo))
    /\ StepFlushing(todo) => Head(todo) = "flush" /\ Stepped(Tail(todo))
    /\ Stepped(todo) => Head(todo) = "stepped" /\ Stepless(Tail(todo))
  <1> USE DEF Begins
  <1>1. Clearing(todo) => Head(todo) = "clear_dfsr" /\ (Masking(Tail(todo)) \/ Asked(Tail(todo)))
    BY DEF Clearing
  <1>2. Masking(todo) => Head(todo) = "halt_masked" /\ Asked(Tail(todo))
    BY DEF Masking
  <1>3. Asked(todo) => Head(todo) \in {"step", "step_masked"} /\ AwaitingStep(Tail(todo))
    BY DEF Asked
  <1>4. AwaitingStep(todo) => Head(todo) = "await_step" /\ (StepFlushing(Tail(todo)) \/ Unmasking(Tail(todo)))
    BY DEF AwaitingStep
  <1>5. Unmasking(todo) => Head(todo) = "halt" /\ StepFlushing(Tail(todo))
    BY DEF Unmasking
  <1>6. StepFlushing(todo) => Head(todo) = "flush" /\ Stepped(Tail(todo))
    BY DEF StepFlushing
  <1>7. Stepped(todo) => Head(todo) = "stepped" /\ Stepless(Tail(todo))
    BY DEF Stepped
  <1> QED
    BY <1>1, <1>2, <1>3, <1>4, <1>5, <1>6, <1>7

LEMMA SteplessTail == ASSUME CatchInv, todo # << >>, Stepless(todo) PROVE Stepless(Tail(todo))
  BY WithoutTail DEF CatchInv, Stepless

LEMMA SteplessEmpty == Stepless(<< >>)
  BY WithoutEmpty DEF Stepless

LEMMA SteplessConcat ==
    ASSUME NEW s \in Seq(Steps), NEW t \in Seq(Steps), Stepless(s), Stepless(t)
    PROVE  s \o t \in Seq(Steps) /\ Stepless(s \o t)
  BY WithoutConcat DEF Stepless

\* Steps that no step of the core is made of.
LEMMA NotOfStep ==
    ASSUME StepOutline,
           Head(todo) \notin {"clear_dfsr", "halt_masked", "step", "step_masked", "await_step", "halt", "flush", "stepped"}
    PROVE  Stepless(todo)
  BY StepStages DEF StepOutline

LEMMA CoreSteps == ASSUME StepInv, Core PROVE StepOutline'
  <1> USE DEF chip, caller
  <1>1. UNCHANGED todo
    BY DEF Core, Halts, Execute, Wake, ResetEnds
  <1>2. (Before => Before') /\ (After => After')
    BY DEF Core, Halts, Execute, Wake, ResetEnds, Before, After
  <1>3. During => During'
    <2>1. CASE executed = -1
      BY <2>1 DEF Core, Halts, Execute, Wake, ResetEnds, During
    <2>2. CASE executed = 0 /\ core = "running" /\ "STEP" \in ctl /\ "HALT" \notin ctl
      BY <2>2 DEF Core, Halts, Execute, Wake, ResetEnds, During
    <2>3. CASE executed = 1 /\ core = "halted" /\ "HALT" \in ctl
      BY <2>3 DEF Core, Halts, Execute, Wake, ResetEnds, During
    <2> QED
      BY <2>1, <2>2, <2>3 DEF During
  <1> QED
    BY <1>1, <1>2, <1>3 DEF StepInv, StepOutline

LEMMA ControlSteps == ASSUME StepInv, WriteControl PROVE StepOutline'
  <1>1. /\ todo # << >> /\ todo' = Tail(todo) /\ UNCHANGED executed
        /\ Head(todo) \in {"halt", "halt_masked", "step", "step_masked", "run", "debug_off"}
        /\ ctl' = ControlBits[Head(todo)]
        /\ core' = IF core = "halted" /\ "HALT" \notin ctl' THEN "running" ELSE core
    BY DEF WriteControl, AtOneOf, Done, ControlBits
  <1>2. Head(todo) \in {"halt", "halt_masked"} => "HALT" \in ctl'
    BY <1>1 DEF ControlBits
  <1>3. Head(todo) \in {"step", "step_masked"} => "STEP" \in ctl' /\ "HALT" \notin ctl'
    BY <1>1 DEF ControlBits
  <1>4. CASE Stepless(todo)
    BY <1>1, <1>4, SteplessTail DEF StepInv, StepOutline
  <1>5. CASE Before /\ Masking(todo)
    <2>1. Before' /\ Asked(todo')
      BY <1>1, <1>2, <1>5, StepStages DEF Before
    <2> QED
      BY <2>1 DEF StepOutline
  <1>6. CASE Before /\ Asked(todo)
    <2>1. During' /\ AwaitingStep(todo')
      BY <1>1, <1>3, <1>6, StepStages DEF Before, During
    <2> QED
      BY <2>1 DEF StepOutline
  <1>7. CASE After /\ Unmasking(todo)
    <2>1. After' /\ StepFlushing(todo')
      BY <1>1, <1>2, <1>7, StepStages DEF After
    <2> QED
      BY <2>1 DEF StepOutline
  <1>8. ~Clearing(todo) /\ ~AwaitingStep(todo) /\ ~StepFlushing(todo) /\ ~Stepped(todo)
    BY <1>1, StepStages
  <1> QED
    BY <1>4, <1>5, <1>6, <1>7, <1>8 DEF StepInv, StepOutline

\* Those that leave the core alone.
LEMMA QuietSteps == ASSUME StepInv, OtherAccess \/ AwaitStep \/ NewToken PROVE StepOutline'
  <1>1. todo # << >> /\ todo' = Tail(todo)
    BY DEF OtherAccess, AwaitStep, NewToken, At, AtOneOf, Done
  <1>2. CASE Stepless(todo)
    BY <1>1, <1>2, SteplessTail DEF StepInv, StepOutline
  <1>3. CASE OtherAccess /\ ~Stepless(todo)
    <2>1. UNCHANGED <<core, ctl, executed>>
      BY <1>3 DEF OtherAccess, chip
    <2>2. ToSet(IdentifySteps) \subseteq {"read_cpuid", "read_cpacr", "enable_fpu", "test_fpu", "restore_cpacr"}
      BY DEF ToSet, IdentifySteps
    <2>3. Head(todo) \notin {"halt_masked", "step", "step_masked", "await_step", "halt", "stepped"}
      BY <1>3, <2>2 DEF OtherAccess, AtOneOf
    <2>4. (Before /\ Clearing(todo)) \/ (After /\ StepFlushing(todo))
      BY <1>3, <2>3, StepStages DEF StepInv, StepOutline
    <2>5. (Before' /\ (Masking(todo') \/ Asked(todo'))) \/ (After' /\ Stepped(todo'))
      BY <1>1, <2>1, <2>4, StepStages DEF Before, After
    <2> QED
      BY <2>5 DEF StepOutline
  <1>4. CASE AwaitStep /\ ~Stepless(todo)
    <2>1. Head(todo) = "await_step" /\ "HALT" \in ctl /\ UNCHANGED <<core, executed>>
      BY <1>4 DEF AwaitStep, At
    <2>2. During /\ AwaitingStep(todo)
      BY <1>4, <2>1, StepStages DEF StepInv, StepOutline
    <2>3. After' /\ (StepFlushing(todo') \/ Unmasking(todo'))
      BY <1>1, <2>1, <2>2, StepStages DEF During, After
    <2> QED
      BY <2>3 DEF StepOutline
  <1>5. CASE NewToken /\ ~Stepless(todo)
    <2>1. Head(todo) \in {"count", "stepped"}
      BY <1>5 DEF NewToken, AtOneOf
    <2>2. Stepped(todo)
      BY <1>5, <2>1, StepStages DEF StepInv, StepOutline
    <2> QED
      BY <1>1, <2>2, StepStages DEF StepOutline
  <1> QED
    BY <1>2, <1>3, <1>4, <1>5

\* Those of the other calls.
LEMMA OtherSteps ==
    ASSUME StepInv,
           ReadState \/ ReadStateAgain \/ ReadDemcr \/ WriteCatches \/ DecideResume \/ RequestReset
           \/ ResetRegisters \/ SetThumb \/ AwaitOut \/ AwaitCaught \/ GiveUp
    PROVE  StepOutline'
  <1>1. /\ todo # << >>
        /\ Head(todo) \in {"state", "state_again", "read_demcr", "catch", "restore_demcr", "debug_blocks_off",
                            "set_catches", "resume", "pin_reset", "request_reset", "reset_registers", "set_thumb",
                            "write_xpsr", "await_out", "wait_out", "await_catch", "await_halted"}
    BY DEF ReadState, ReadStateAgain, ReadDemcr, WriteCatches, WriteDemcr, DecideResume, RequestReset,
           ResetRegisters, SetThumb, AwaitOut, AwaitCaught, GiveUp, At, AtOneOf
  <1>2. Stepless(todo) /\ todo \in Seq(Steps)
    BY <1>1, NotOfStep DEF StepInv, CatchInv
  <1>3. todo' \in {Tail(todo), todo, << >>, << "state_again" >> \o Tail(todo), << "state" >> \o todo,
                   SubSeq(todo, 5, Len(todo))}
    BY DEF ReadState, ReadStateAgain, ReadDemcr, WriteCatches, WriteDemcr, DecideResume, RequestReset,
           ResetRegisters, SetThumb, AwaitOut, AwaitCaught, GiveUp, Done, Abort
  <1>4. Stepless(Tail(todo)) /\ Tail(todo) \in Seq(Steps)
    BY <1>1, <1>2, SteplessTail, TailInSeq DEF StepInv
  <1>5. \A x \in {"state_again", "state"} : << x >> \in Seq(Steps) /\ Stepless(<< x >>)
    BY DEF Steps, Stepless, Without
  <1>6. Stepless(<< "state_again" >> \o Tail(todo)) /\ Stepless(<< "state" >> \o todo)
    BY <1>2, <1>4, <1>5, SteplessConcat
  <1>7. Stepless(SubSeq(todo, 5, Len(todo)))
    BY <1>2, WithoutSubSeq DEF Stepless
  <1> QED
    BY <1>2, <1>3, <1>4, <1>6, <1>7, SteplessEmpty DEF StepOutline

LEMMA FaultySteps == ASSUME StepInv, Fault PROVE StepOutline'
  <1>1. CASE todo' = << >>
    BY <1>1, SteplessEmpty DEF StepOutline
  <1>2. CASE todo' # << >>
    <2>1. todo # << >> /\ Head(todo) \in {"request_reset", "flush_request", "await_out", "wait_out"}
      BY <1>2 DEF Fault, At
    <2>2. Stepless(todo) /\ todo \in Seq(Steps)
      BY <2>1, NotOfStep DEF StepInv, CatchInv
    <2>3. todo' \in {<< "flush" >> \o SubSeq(todo, 3, Len(todo)), << "flush" >> \o Tail(todo),
                     << "flush" >> \o todo, todo}
      BY <1>2 DEF Fault
    <2>4. << "flush" >> \in Seq(Steps) /\ Stepless(<< "flush" >>)
      BY DEF Steps, Stepless, Without
    <2>5. Stepless(Tail(todo)) /\ Tail(todo) \in Seq(Steps)
      BY <2>1, <2>2, SteplessTail, TailInSeq DEF StepInv
    <2>6. Stepless(SubSeq(todo, 3, Len(todo))) /\ SubSeq(todo, 3, Len(todo)) \in Seq(Steps)
      BY <2>2, WithoutSubSeq DEF Stepless
    <2>7. \A s \in Seq(Steps) : Stepless(s) => Stepless(<< "flush" >> \o s)
      BY <2>4, SteplessConcat
    <2> QED
      BY <2>2, <2>3, <2>5, <2>6, <2>7 DEF StepOutline
  <1> QED
    BY <1>1, <1>2

\* The list that step goes by once it has looked at DHCSR.
LEMMA StepStarts ==
    ASSUME NEW disable \in BOOLEAN
    PROVE  Clearing(StepSteps(disable))
  <1> DEFINE mask == disable /\ "MASKINTS" \notin ctl
             first == << "clear_dfsr" >>
             second == IF mask THEN << "halt_masked" >> ELSE << >>
             request == IF disable \/ "MASKINTS" \in ctl THEN "step_masked" ELSE "step"
             third == << request, "await_step" >>
             fourth == IF mask THEN << "halt" >> ELSE << >>
             fifth == << "flush", "stepped" >>
             unmasking == fourth \o fifth
             awaiting == << "await_step" >> \o unmasking
             asking == << request >> \o awaiting
             masking == second \o asking
  <1>1. {"clear_dfsr", "halt_masked", "step_masked", "step", "await_step", "halt", "flush", "stepped"} \subseteq Steps
    BY DEF Steps
  <1>2. request \in {"step", "step_masked"} /\ request \in Steps
    BY <1>1
  <1>3. first \in Seq(Steps) /\ fifth \in Seq(Steps) /\ third \in Seq(Steps)
    BY <1>1, <1>2
  <1>4. second \in Seq(Steps) /\ fourth \in Seq(Steps)
    <2>1. << "halt_masked" >> \in Seq(Steps) /\ << "halt" >> \in Seq(Steps)
      BY <1>1
    <2>2. << >> \in Seq(Steps)
      BY EmptySeq
    <2> QED
      BY <2>1, <2>2
  <1>5. StepSteps(disable) = (((first \o second) \o third) \o fourth) \o fifth
    BY DEF StepSteps
  <1>6. StepFlushing(fifth)
    <2>1. Head(fifth) = "flush" /\ Tail(fifth) = << "stepped" >> /\ fifth # << >>
      OBVIOUS
    <2>2. Head(<< "stepped" >>) = "stepped" /\ Tail(<< "stepped" >>) = << >> /\ << "stepped" >> # << >>
      OBVIOUS
    <2>3. Stepped(<< "stepped" >>)
      BY <2>2, SteplessEmpty DEF Stepped, Begins
    <2> QED
      BY <2>1, <2>3 DEF StepFlushing, Begins
  <1>7. unmasking \in Seq(Steps) /\ (Unmasking(unmasking) \/ StepFlushing(unmasking))
    <2>1. CASE mask
      <3>1. /\ unmasking \in Seq(Steps) /\ unmasking # << >>
            /\ Head(unmasking) = "halt" /\ Tail(unmasking) = fifth
        BY <1>1, <1>3, <2>1, OneInFront
      <3> QED
        BY <1>6, <3>1 DEF Unmasking, Begins
    <2>2. CASE ~mask
      <3>1. unmasking = fifth
        BY <1>3, <2>2, ConcatEmptySeq
      <3> QED
        BY <1>3, <1>6, <3>1
    <2> QED
      BY <2>1, <2>2
  <1> HIDE DEF unmasking, request
  <1>8. /\ awaiting \in Seq(Steps) /\ awaiting # << >>
        /\ Head(awaiting) = "await_step" /\ Tail(awaiting) = unmasking
    BY <1>1, <1>7, OneInFront
  <1>9. AwaitingStep(awaiting)
    BY <1>7, <1>8 DEF AwaitingStep, Begins
  <1>10. third \o unmasking = asking
    BY <1>1, <1>2, <1>7, TwoInFront
  <1> HIDE DEF awaiting
  <1>11. asking \in Seq(Steps) /\ asking # << >> /\ Head(asking) = request /\ Tail(asking) = awaiting
    BY <1>2, <1>8, OneInFront
  <1>12. Asked(asking)
    BY <1>2, <1>9, <1>11 DEF Asked, Begins
  <1> HIDE DEF asking, third
  <1>13. masking \in Seq(Steps) /\ (Masking(masking) \/ Asked(masking))
    <2>1. CASE mask
      <3>1. /\ masking \in Seq(Steps) /\ masking # << >>
            /\ Head(masking) = "halt_masked" /\ Tail(masking) = asking
        BY <1>1, <1>11, <2>1, OneInFront
      <3> QED
        BY <1>12, <3>1 DEF Masking, Begins
    <2>2. CASE ~mask
      <3>1. masking = asking
        BY <1>11, <2>2, ConcatEmptySeq
      <3> QED
        BY <1>11, <1>12, <3>1
    <2> QED
      BY <2>1, <2>2
  <1> HIDE DEF mask, first, second, fourth, fifth
  <1> HIDE DEF masking
  <1>14. \A a \in Seq(Steps), b \in Seq(Steps), c \in Seq(Steps) : (a \o b) \o c = a \o (b \o c)
    BY ConcatAssociative
  <1>15. StepSteps(disable) = first \o masking
    <2>1. first \o second \in Seq(Steps) /\ (first \o second) \o third \in Seq(Steps)
      BY <1>3, <1>4, ConcatProperties
    <2> DEFINE start == (first \o second) \o third
    <2> HIDE DEF start
    <2>2. (start \o fourth) \o fifth = start \o (fourth \o fifth)
      <3>1. start \in Seq(Steps) /\ fourth \in Seq(Steps) /\ fifth \in Seq(Steps)
        BY <1>3, <1>4, <2>1 DEF start
      <3> QED
        BY <1>14, <3>1
    <2>3. ((first \o second) \o third) \o unmasking = (first \o second) \o (third \o unmasking)
      BY <1>3, <1>7, <1>14, <2>1
    <2>4. (first \o second) \o asking = first \o (second \o asking)
      BY <1>3, <1>4, <1>11, <1>14
    <2>5. unmasking = fourth \o fifth /\ masking = second \o asking
      BY DEF unmasking, masking
    <2> QED
      BY <1>5, <1>10, <2>2, <2>3, <2>4, <2>5 DEF start
  <1>16. /\ first \o masking # << >> /\ Head(first \o masking) = "clear_dfsr"
         /\ Tail(first \o masking) = masking
    BY <1>1, <1>13, OneInFront DEF first
  <1> QED
    BY <1>13, <1>15, <1>16 DEF Clearing, Begins

LEMMA LookedSteps == ASSUME StepInv, Look PROVE StepOutline'
  <1>1. CASE todo' = << >>
    BY <1>1, SteplessEmpty DEF StepOutline
  <1>2. CASE todo' # << >>
    <2>1. todo' = StepSteps(At("look")) /\ At("look") \in BOOLEAN
      BY <1>2 DEF Look, At
    <2>2. Clearing(todo')
      BY <2>1, StepStarts
    <2>3. Before'
      BY DEF Look, Before
    <2> QED
      BY <2>2, <2>3 DEF StepOutline
  <1> QED
    BY <1>1, <1>2

LEMMA SteplessReset ==
    ASSUME NEW type
    PROVE  ResetSteps(type) \in Seq(Steps) /\ Stepless(ResetSteps(type))
  <1> DEFINE kind == PerformResetSteps(ActualResetType(type))
             count == << "count" >>
             out == << "await_out" >>
             registers == << "reset_registers", "reset_system" >>
             pins == << "pin_reset" >>
             request == << "request_reset", "flush_request" >>
  <1>1. count \in Seq(Steps) /\ Stepless(count) /\ out \in Seq(Steps) /\ Stepless(out)
    BY DEF Steps, Stepless, Without
  <1>2. HaltSteps \in Seq(Steps) /\ Stepless(HaltSteps) /\ registers \in Seq(Steps) /\ Stepless(registers)
    BY DEF Steps, Stepless, Without, HaltSteps
  <1>3. pins \in Seq(Steps) /\ Stepless(pins) /\ request \in Seq(Steps) /\ Stepless(request)
    BY DEF Steps, Stepless, Without
  <1>4. kind \in {pins, request, HaltSteps \o registers}
    BY ResetKinds
  <1>5. ResetSteps(type) = (count \o kind) \o out
    BY DEF ResetSteps
  <1> HIDE DEF kind, count, out, registers, pins, request
  <1>6. kind \in Seq(Steps) /\ Stepless(kind)
    BY <1>2, <1>3, <1>4, SteplessConcat
  <1>7. count \o kind \in Seq(Steps) /\ Stepless(count \o kind)
    BY <1>1, <1>6, SteplessConcat
  <1> QED
    BY <1>1, <1>5, <1>7, SteplessConcat

LEMMA SteplessCatching ==
    ASSUME NEW s \in Seq(Steps), Stepless(s), NEW type
    PROVE  Stepless((CatchSteps \o ResetSteps(type)) \o s)
  <1> DEFINE two == << "read_demcr", "catch" >>
  <1>1. HaltSteps \in Seq(Steps) /\ Stepless(HaltSteps) /\ two \in Seq(Steps) /\ Stepless(two)
    BY DEF Steps, Stepless, Without, HaltSteps
  <1>2. CatchSteps = HaltSteps \o two
    BY DEF CatchSteps
  <1> HIDE DEF two
  <1>3. CatchSteps \in Seq(Steps) /\ Stepless(CatchSteps)
    BY <1>1, <1>2, SteplessConcat
  <1>4. CatchSteps \o ResetSteps(type) \in Seq(Steps) /\ Stepless(CatchSteps \o ResetSteps(type))
    BY <1>3, SteplessReset, SteplessConcat
  <1> QED
    BY <1>4, SteplessConcat

\* Every call begins with a list that does not come to the end of a step: the
\* steps of step follow when DHCSR was read.
LEMMA CallsStepless == ASSUME RunCall PROVE StepOutline'
  <1>1. CASE Identify \/ Halt \/ GetState \/ SetVectorCatch
    <2>1. Stepless(IdentifySteps) /\ Stepless(HaltSteps)
      BY DEF IdentifySteps, HaltSteps, Stepless, Without
    <2>2. Stepless(<< "state" >>) /\ Stepless(<< "read_demcr", "set_catches" >>)
      BY DEF Stepless, Without
    <2> QED
      BY <1>1, <2>1, <2>2 DEF Identify, Halt, GetState, SetVectorCatch, Begin, StepOutline
  <1>2. CASE Step
    <2>1. \A x \in {"look", "look_interrupts_on"} : Stepless(<< x >>)
      BY DEF Stepless, Without
    <2>2. \E x \in {"look", "look_interrupts_on"} : todo' = << x >>
      BY <1>2 DEF Step, BeginRun, Begin
    <2> QED
      BY <2>1, <2>2 DEF StepOutline
  <1>3. ResumeSteps \in Seq(Steps) /\ Stepless(ResumeSteps)
    BY ResumeLists DEF ResumeSteps, Stepless, Without
  <1>4. CASE Resume
    BY <1>3, <1>4 DEF Resume, BeginRun, Begin, StepOutline
  <1>5. CASE Reset
    BY <1>5, SteplessReset DEF Reset, BeginRun, Begin, StepOutline
  <1>6. CASE ResetAndHalt
    <2> DEFINE ends == << "state", "await_catch", "set_thumb", "restore_demcr" >>
    <2>1. PICK type : todo' = (CatchSteps \o ResetSteps(type)) \o ends
      BY <1>6 DEF ResetAndHalt, BeginRun, Begin, ResetAndHaltSteps
    <2>2. ends \in Seq(Steps) /\ Stepless(ends)
      BY DEF Steps, Stepless, Without
    <2> HIDE DEF ends
    <2> QED
      BY <2>1, <2>2, SteplessCatching DEF StepOutline
  <1>7. CASE ResetStopOnReset
    <2> DEFINE ends == << "wait_out", "state", "await_halted", "restore_demcr", "write_xpsr" >>
    <2>1. todo' = (CatchSteps \o ResetSteps("SW")) \o ends
      BY <1>7 DEF ResetStopOnReset, BeginRun, Begin, ResetStopSteps
    <2>2. ends \in Seq(Steps) /\ Stepless(ends)
      BY DEF Steps, Stepless, Without
    <2> HIDE DEF ends
    <2> QED
      BY <2>1, <2>2, SteplessCatching DEF StepOutline
  <1>8. CASE Disconnect
    <2> DEFINE off == << "debug_blocks_off" >>
               last == << "debug_off" >>
    <2> PICK resume \in BOOLEAN : Begin(DisconnectSteps(resume))
      BY <1>8 DEF Disconnect, BeginRun
    <2>1. todo' = DisconnectSteps(resume)
      BY DEF Begin
    <2>2. DisconnectSteps(resume) = off \o (IF resume THEN ResumeSteps \o last ELSE << >>)
      BY DEF DisconnectSteps
    <2>3. off \in Seq(Steps) /\ Stepless(off) /\ last \in Seq(Steps) /\ Stepless(last)
      BY DEF Steps, Stepless, Without
    <2> HIDE DEF off, last
    <2>4. ResumeSteps \o last \in Seq(Steps) /\ Stepless(ResumeSteps \o last)
      BY <1>3, <2>3, SteplessConcat
    <2>5. << >> \in Seq(Steps)
      BY EmptySeq
    <2>6. CASE resume
      BY <2>1, <2>2, <2>3, <2>4, <2>6, SteplessConcat DEF StepOutline
    <2>7. CASE ~resume
      BY <2>1, <2>2, <2>3, <2>5, <2>7, SteplessConcat, SteplessEmpty DEF StepOutline
    <2> QED
      BY <2>6, <2>7
  <1> QED
    BY <1>1, <1>2, <1>4, <1>5, <1>6, <1>7, <1>8 DEF RunCall

LEMMA InitStep == ASSUME RunInit PROVE StepInv
  BY InitCatch, SteplessEmpty DEF RunInit, StepInv, StepOutline

LEMMA NextStep == ASSUME StepInv, [RunNext]_runVars PROVE StepInv'
  <1>1. CatchInv'
    BY NextCatch DEF StepInv
  <1>2. CASE RunCall
    BY <1>1, <1>2, CallsStepless DEF StepInv
  <1>3. CASE CallStep
    BY <1>1, <1>3, ControlSteps, QuietSteps, OtherSteps, LookedSteps DEF CallStep, StepInv
  <1>4. CASE GiveUp \/ Fault \/ Core
    BY <1>1, <1>4, OtherSteps, FaultySteps, CoreSteps DEF StepInv
  <1>5. CASE UNCHANGED runVars
    <2>1. UNCHANGED <<todo, core, ctl, executed>>
      BY <1>5 DEF runVars, caller, chip
    <2>2. StepOutline'
      BY <2>1 DEF StepInv, StepOutline, Before, During, After
    <2> QED
      BY <1>1, <2>2 DEF StepInv
  <1> QED
    BY <1>2, <1>3, <1>4, <1>5 DEF RunNext

(* CortexM.step, where it returns and the core was halted: one instruction *)
(* was executed, never none and never two, and the core is halted again,   *)
(* however the core and the accesses of the call interleave and whatever   *)
(* the calls before it left of their own steps.                            *)
THEOREM StepsAreSingle == RunSpec => StepOne
  <1>1. RunInit => StepInv
    BY InitStep
  <1>2. StepInv /\ [RunNext]_runVars => StepInv'
    BY NextStep
  <1>3. StepInv => (At("stepped") /\ executed # -1 => executed = 1 /\ core = "halted")
    <2> SUFFICES ASSUME StepInv, At("stepped"), executed # -1 PROVE executed = 1 /\ core = "halted"
      OBVIOUS
    <2>1. todo # << >> /\ Head(todo) = "stepped" /\ ~Stepless(todo)
      BY WithoutHead DEF At, StepInv, CatchInv, Stepless
    <2>2. Stepped(todo) /\ After
      BY <2>1, StepStages DEF StepInv, StepOutline
    <2> QED
      BY <2>2 DEF After
  <1>4. StepInv /\ [RunNext]_runVars
        => [At("stepped") /\ todo' # todo /\ executed # -1 => executed = 1 /\ core = "halted"]_runVars
    BY <1>3
  <1> QED
    BY <1>1, <1>2, <1>4, PTL DEF RunSpec, StepOne

-----------------------------------------------------------------------------
(* Types, and the tokens that a call has left to count *)

Lacks(s, S) == \A i \in 1 .. Len(s) : s[i] \notin S
Once(s, S) == \A i \in 1 .. Len(s), j \in 1 .. Len(s) : s[i] \in S /\ s[j] \in S => i = j

LEMMA LacksEmpty == ASSUME NEW T, NEW S PROVE << >> \in Seq(T) /\ Lacks(<< >>, S)
  BY EmptySeq DEF Lacks

LEMMA LacksOnce == ASSUME NEW S, NEW s, Lacks(s, S) PROVE Once(s, S)
  BY DEF Lacks, Once

LEMMA LacksTail ==
    ASSUME NEW T, NEW S, NEW s \in Seq(T), s # << >>
    PROVE  /\ Tail(s) \in Seq(T)
           /\ Lacks(s, S) => Lacks(Tail(s), S) /\ Head(s) \notin S
           /\ Once(s, S) => Once(Tail(s), S)
           /\ Once(s, S) /\ Head(s) \in S => Lacks(Tail(s), S)
  <1>1. /\ Len(s) \in Nat \ {0} /\ Tail(s) \in Seq(T) /\ Len(Tail(s)) = Len(s) - 1
        /\ \A i \in 1 .. Len(Tail(s)) : Tail(s)[i] = s[i + 1]
        /\ Head(s) = s[1]
    BY HeadTailProperties, LenProperties, EmptySeq
  <1>2. ASSUME NEW i \in 1 .. Len(Tail(s)) PROVE i \in Nat /\ i + 1 \in 1 .. Len(s) /\ i + 1 # 1 /\ Tail(s)[i] = s[i + 1]
    BY <1>1
  <1>3. 1 \in 1 .. Len(s)
    BY <1>1
  <1>4. Lacks(s, S) => Lacks(Tail(s), S) /\ Head(s) \notin S
    BY <1>1, <1>2, <1>3 DEF Lacks
  <1>5. ASSUME Once(s, S) PROVE Once(Tail(s), S)
    <2> SUFFICES ASSUME NEW i \in 1 .. Len(Tail(s)), NEW j \in 1 .. Len(Tail(s)), Tail(s)[i] \in S, Tail(s)[j] \in S
                 PROVE  i = j
      BY DEF Once
    <2>1. i + 1 = j + 1
      BY <1>2, <1>5 DEF Once
    <2> QED
      BY <1>2, <2>1
  <1>6. ASSUME Once(s, S), Head(s) \in S PROVE Lacks(Tail(s), S)
    <2> SUFFICES ASSUME NEW i \in 1 .. Len(Tail(s)), Tail(s)[i] \in S PROVE FALSE
      BY DEF Lacks
    <2>1. s[i + 1] \in S /\ s[1] \in S /\ i + 1 \in 1 .. Len(s)
      BY <1>1, <1>2, <1>6
    <2>2. i + 1 = 1
      BY <1>3, <1>6, <2>1 DEF Once
    <2> QED
      BY <1>2, <2>2
  <1> QED
    BY <1>1, <1>4, <1>5, <1>6

LEMMA LacksConcat ==
    ASSUME NEW T, NEW S, NEW s \in Seq(T), NEW t \in Seq(T)
    PROVE  /\ s \o t \in Seq(T)
           /\ Lacks(s, S) /\ Lacks(t, S) => Lacks(s \o t, S)
           /\ Lacks(s, S) /\ Once(t, S) => Once(s \o t, S)
           /\ Once(s, S) /\ Lacks(t, S) => Once(s \o t, S)
  <1> DEFINE u == s \o t
  <1>1. /\ u \in Seq(T) /\ Len(u) = Len(s) + Len(t) /\ Len(s) \in Nat /\ Len(t) \in Nat
        /\ \A i \in 1 .. Len(s) + Len(t) : u[i] = IF i <= Len(s) THEN s[i] ELSE t[i - Len(s)]
    BY ConcatProperties, LenProperties
  <1> HIDE DEF u
  <1>2. ASSUME NEW i \in 1 .. Len(u)
        PROVE  /\ i \in Nat
               /\ \/ i \in 1 .. Len(s) /\ u[i] = s[i]
                  \/ i > Len(s) /\ i - Len(s) \in 1 .. Len(t) /\ u[i] = t[i - Len(s)]
    BY <1>1
  <1>3. Lacks(s, S) /\ Lacks(t, S) => Lacks(u, S)
    BY <1>2 DEF Lacks
  <1>4. ASSUME Lacks(s, S), Once(t, S) PROVE Once(u, S)
    <2> SUFFICES ASSUME NEW i \in 1 .. Len(u), NEW j \in 1 .. Len(u), u[i] \in S, u[j] \in S PROVE i = j
      BY DEF Once
    <2>1. /\ i - Len(s) \in 1 .. Len(t) /\ t[i - Len(s)] \in S
          /\ j - Len(s) \in 1 .. Len(t) /\ t[j - Len(s)] \in S
      BY <1>2, <1>4 DEF Lacks
    <2>2. i - Len(s) = j - Len(s)
      BY <1>4, <2>1 DEF Once
    <2> QED
      BY <1>1, <1>2, <2>2
  <1>5. ASSUME Once(s, S), Lacks(t, S) PROVE Once(u, S)
    <2> SUFFICES ASSUME NEW i \in 1 .. Len(u), NEW j \in 1 .. Len(u), u[i] \in S, u[j] \in S PROVE i = j
      BY DEF Once
    <2>1. i \in 1 .. Len(s) /\ s[i] \in S /\ j \in 1 .. Len(s) /\ s[j] \in S
      BY <1>2, <1>5 DEF Lacks
    <2> QED
      BY <1>5, <2>1 DEF Once
  <1> QED
    BY <1>1, <1>3, <1>4, <1>5 DEF u

LEMMA LacksRest ==
    ASSUME NEW T, NEW S, NEW s \in Seq(T), NEW m \in Nat \ {0}
    PROVE  /\ SubSeq(s, m, Len(s)) \in Seq(T)
           /\ Lacks(s, S) => Lacks(SubSeq(s, m, Len(s)), S)
           /\ Once(s, S) => Once(SubSeq(s, m, Len(s)), S)
           /\ Once(s, S) /\ s # << >> /\ Head(s) \in S /\ m > 1 => Lacks(SubSeq(s, m, Len(s)), S)
  <1> DEFINE u == SubSeq(s, m, Len(s))
  <1>1. Len(s) \in Nat /\ \A i \in m .. Len(s) : s[i] \in T
    BY LenProperties, ElementOfSeq
  <1>2. /\ u \in Seq(T)
        /\ Len(u) = IF m <= Len(s) THEN Len(s) - m + 1 ELSE 0
        /\ \A i \in 1 .. Len(s) - m + 1 : u[i] = s[m + i - 1]
    BY <1>1, SubSeqProperties
  <1> HIDE DEF u
  <1>3. ASSUME NEW i \in 1 .. Len(u) PROVE i \in Nat /\ m + i - 1 \in 1 .. Len(s) /\ u[i] = s[m + i - 1]
    BY <1>1, <1>2
  <1>4. Lacks(s, S) => Lacks(u, S)
    BY <1>3 DEF Lacks
  <1>5. ASSUME Once(s, S) PROVE Once(u, S)
    <2> SUFFICES ASSUME NEW i \in 1 .. Len(u), NEW j \in 1 .. Len(u), u[i] \in S, u[j] \in S PROVE i = j
      BY DEF Once
    <2>1. m + i - 1 = m + j - 1
      BY <1>3, <1>5 DEF Once
    <2> QED
      BY <1>3, <2>1
  <1>6. ASSUME Once(s, S), s # << >>, Head(s) \in S, m > 1 PROVE Lacks(u, S)
    <2> SUFFICES ASSUME NEW i \in 1 .. Len(u), u[i] \in S PROVE FALSE
      BY DEF Lacks
    <2>1. 1 \in 1 .. Len(s) /\ s[1] \in S /\ m + i - 1 \in 1 .. Len(s) /\ s[m + i - 1] \in S
      BY <1>1, <1>3, <1>6, EmptySeq
    <2>2. m + i - 1 = 1
      BY <1>6, <2>1 DEF Once
    <2> QED
      BY <1>3, <1>6, <2>2
  <1> QED
    BY <1>2, <1>4, <1>5, <1>6 DEF u

\* The steps that a new token comes of.
TokenSteps == {"look", "look_interrupts_on", "count", "resume", "stepped"}

TokenLeft == Lacks(todo, TokenSteps) \/ (Once(todo, TokenSteps) /\ token < MaxToken)

\* The steps may be those of a call on the core or of a call that uses it.
Typed(T) == todo \in Seq(T) /\ StateOK /\ TokenLeft

LEMMA TypedTail ==
    ASSUME NEW T, Typed(T), todo # << >>, todo' = Tail(todo), StateOK', token' = token
    PROVE  Typed(T)'
  BY LacksTail DEF Typed, TokenLeft

LEMMA TypedEnd == ASSUME NEW T, todo' = << >>, StateOK' PROVE Typed(T)'
  BY LacksEmpty DEF Typed, TokenLeft

LEMMA TypedFront ==
    ASSUME NEW T, NEW x \in T, x \notin TokenSteps, NEW s \in Seq(T),
           todo' = << x >> \o s, StateOK', token' = token, Typed(T),
           Lacks(todo, TokenSteps) => Lacks(s, TokenSteps), Once(todo, TokenSteps) => Once(s, TokenSteps)
    PROVE  Typed(T)'
  <1> DEFINE front == << x >>
  <1>1. front \in Seq(T) /\ Lacks(front, TokenSteps)
    BY DEF Lacks
  <1> HIDE DEF front
  <1>2. /\ front \o s \in Seq(T)
        /\ Lacks(s, TokenSteps) => Lacks(front \o s, TokenSteps)
        /\ Once(s, TokenSteps) => Once(front \o s, TokenSteps)
    BY <1>1, LacksConcat
  <1>3. todo' = front \o s
    BY DEF front
  <1> QED
    BY <1>2, <1>3 DEF Typed, TokenLeft

LEMMA CoreTypes == ASSUME NEW T, Typed(T), Core PROVE Typed(T)'
  <1>1. UNCHANGED <<todo, token, seen, saved, demcr, faults, untold>>
    BY DEF Core, Halts, Execute, Wake, ResetEnds, caller
  <1>2. CASE Halts \/ Wake
    BY <1>2 DEF Halts, Wake, StateOK, Typed, TokenLeft, caller
  <1>3. regs["r0"] \in Bits /\ \A x \in Bits : 1 - x \in Bits
    BY DEF Typed, StateOK, Parts, Bits
  <1>4. CASE Execute
    <2>1. regs' \in [Parts -> Bits]
      BY <1>3, <1>4 DEF Execute
    <2>2. executed' \in -1 .. 2
      BY <1>4 DEF Execute, Typed, StateOK
    <2>3. /\ core' \in {"running", "halted", "sleeping", "lockup", "reset"}
          /\ ctl' \subseteq {"DEBUGEN", "HALT", "STEP", "MASKINTS"}
          /\ sticky' \subseteq {"RESET", "RETIRE"}
          /\ fresh' \in BOOLEAN
      BY <1>4 DEF Execute, Typed, StateOK
    <2> QED
      BY <1>1, <2>1, <2>2, <2>3 DEF Typed, StateOK, TokenLeft
  <1>5. CASE ResetEnds
    <2>1. regs' \in [Parts -> Bits]
      BY <1>5 DEF ResetEnds, Bits
    <2>2. /\ core' \in {"running", "halted", "sleeping", "lockup", "reset"}
          /\ ctl' \subseteq {"DEBUGEN", "HALT", "STEP", "MASKINTS"}
          /\ UNCHANGED <<sticky, fresh, executed>>
      BY <1>5 DEF ResetEnds, Typed, StateOK
    <2> QED
      BY <1>1, <2>1, <2>2 DEF Typed, StateOK, TokenLeft
  <1> QED
    BY <1>2, <1>4, <1>5 DEF Core

\* The steps that take one off the list, and count no token.
LEMMA PlainTypes ==
    ASSUME NEW T, Typed(T), WriteControl \/ OtherAccess \/ AwaitStep \/ ReadDemcr \/ RequestReset
    PROVE  Typed(T)'
  <1>1. todo # << >> /\ todo' = Tail(todo) /\ token' = token
    BY DEF WriteControl, OtherAccess, AwaitStep, ReadDemcr, RequestReset, AtOneOf, At, Done
  <1>2. CASE WriteControl
    <2>1. ctl' \subseteq {"DEBUGEN", "HALT", "STEP", "MASKINTS"}
      <3>1. Head(todo) \in {"halt", "halt_masked", "step", "step_masked", "run", "debug_off"}
            /\ ctl' = ControlBits[Head(todo)]
        BY <1>2 DEF WriteControl, AtOneOf, ControlBits
      <3> QED
        BY <3>1 DEF ControlBits
    <2>2. /\ core' \in {"running", "halted", "sleeping", "lockup", "reset"}
          /\ untold' \in BOOLEAN
      <3>1. core' = core \/ core' = "running"
        BY <1>2 DEF WriteControl
      <3>2. untold' = (untold \/ "STEP" \in ctl')
        BY <1>2 DEF WriteControl
      <3>3. untold' \in BOOLEAN
        BY <3>2, Zenon
      <3> QED
        BY <3>1, <3>3 DEF Typed, StateOK
    <2>3. UNCHANGED <<seen, saved, token, sticky, demcr, regs, faults, fresh, executed>>
      BY <1>2 DEF WriteControl
    <2>4. StateOK'
      BY <2>1, <2>2, <2>3 DEF Typed, StateOK
    <2> QED
      BY <1>1, <2>4, TypedTail
  <1>3. CASE OtherAccess
    <2>1. StateOK'
      BY <1>3 DEF OtherAccess, chip, Typed, StateOK
    <2> QED
      BY <1>1, <2>1, TypedTail
  <1>4. CASE AwaitStep
    <2>1. StateOK'
      BY <1>4 DEF AwaitStep, Reads, Typed, StateOK
    <2> QED
      BY <1>1, <2>1, TypedTail
  <1>5. CASE ReadDemcr
    <2>1. StateOK'
      BY <1>5 DEF ReadDemcr, chip, Typed, StateOK
    <2> QED
      BY <1>1, <2>1, TypedTail
  <1>6. CASE RequestReset
    <2>1. StateOK'
      BY <1>6 DEF RequestReset, EnterReset, Typed, StateOK
    <2> QED
      BY <1>1, <2>1, TypedTail
  <1> QED
    BY <1>2, <1>3, <1>4, <1>5, <1>6

LEMMA CatchTypes == ASSUME NEW T, Typed(T), WriteCatches PROVE Typed(T)'
  <1>1. /\ todo # << >> /\ todo' = Tail(todo)
        /\ UNCHANGED <<seen, token, core, ctl, sticky, regs, faults, fresh, executed, untold>>
        /\ saved' = saved \/ saved' = {}
    BY DEF WriteCatches, WriteDemcr, At, Done
  <1>2. demcr' \subseteq Catches \cup {"TRCENA"}
    <2>1. saved \subseteq Catches \cup {"TRCENA"} /\ "VC_CORERESET" \in Catches
      BY DEF Typed, StateOK, Catches
    <2>2. \/ demcr' = saved \cup {"VC_CORERESET"}
          \/ demcr' = saved
          \/ demcr' = {}
          \/ \E catches \in SUBSET Catches : demcr' = (saved \ Catches) \cup catches
      BY DEF WriteCatches, WriteDemcr
    <2> QED
      BY <2>1, <2>2
  <1>3. StateOK'
    BY <1>1, <1>2 DEF Typed, StateOK
  <1> QED
    BY <1>1, <1>3, TypedTail

LEMMA TokenTypes == ASSUME NEW T, Typed(T), NewToken \/ DecideResume PROVE Typed(T)'
  <1>1. todo # << >> /\ Head(todo) \in TokenSteps /\ todo \in Seq(T)
    BY DEF NewToken, DecideResume, At, AtOneOf, TokenSteps, Typed
  <1>2. token < MaxToken /\ Once(todo, TokenSteps)
    BY <1>1, LacksTail DEF Typed, TokenLeft
  <1>3. MaxToken \in Nat /\ token \in Nat /\ token + 1 \in 0 .. MaxToken
    BY <1>2, RunAssumption DEF Typed, StateOK
  <1>4. todo' = Tail(todo) \/ todo' = SubSeq(todo, 5, Len(todo))
    BY DEF NewToken, DecideResume, Done
  <1>5. todo' \in Seq(T) /\ Lacks(todo', TokenSteps)
    <2>1. Tail(todo) \in Seq(T) /\ Lacks(Tail(todo), TokenSteps)
      BY <1>1, <1>2, LacksTail
    <2>2. SubSeq(todo, 5, Len(todo)) \in Seq(T) /\ Lacks(SubSeq(todo, 5, Len(todo)), TokenSteps)
      <3>1. 5 \in Nat \ {0} /\ 5 > 1
        OBVIOUS
      <3> QED
        BY <1>1, <1>2, <3>1, LacksRest
    <2> QED
      BY <1>4, <2>1, <2>2
  <1>6. CASE NewToken
    <2>1. StateOK'
      <3>1. untold' \in BOOLEAN /\ executed' \in -1 .. 2
        <4>1. untold' = FALSE /\ executed' = 0
          BY <1>6 DEF NewToken
        <4>2. FALSE \in BOOLEAN
          OBVIOUS
        <4>3. 0 \in -1 .. 2
          OBVIOUS
        <4> QED
          BY <4>1, <4>2, <4>3
      <3>2. token' \in 0 .. MaxToken
        BY <1>3, <1>6 DEF NewToken
      <3> QED
        BY <1>6, <3>1, <3>2 DEF NewToken, Typed, StateOK
    <2> QED
      BY <1>5, <2>1 DEF Typed, TokenLeft
  <1>7. CASE DecideResume
    <2>1. token' \in 0 .. MaxToken /\ untold' \in BOOLEAN
      BY <1>3, <1>7 DEF DecideResume, Typed, StateOK
    <2>2. StateOK'
      BY <1>7, <2>1 DEF DecideResume, chip, Typed, StateOK
    <2> QED
      BY <1>5, <2>2 DEF Typed, TokenLeft
  <1> QED
    BY <1>6, <1>7

LEMMA StateTypes ==
    ASSUME NEW T, "state_again" \in T, Typed(T), ReadState \/ ReadStateAgain
    PROVE  Typed(T)'
  <1>1. todo # << >> /\ token' = token /\ (todo' = Tail(todo) \/ todo' = << "state_again" >> \o Tail(todo))
    BY DEF ReadState, ReadStateAgain, At, Done
  <1>2. StateOK'
    <2>1. seen' \in {"none", "running", "halted", "sleeping", "lockup", "reset"}
      BY DEF ReadState, ReadStateAgain, Typed, StateOK
    <2>2. sticky' \subseteq {"RESET", "RETIRE"}
      BY DEF ReadState, ReadStateAgain, Reads
    <2> QED
      BY <2>1, <2>2 DEF ReadState, ReadStateAgain, Typed, StateOK
  <1>3. CASE todo' = Tail(todo)
    BY <1>1, <1>2, <1>3, TypedTail
  <1>4. CASE todo' = << "state_again" >> \o Tail(todo)
    <2>1. "state_again" \notin TokenSteps
      BY DEF TokenSteps
    <2>2. /\ Tail(todo) \in Seq(T)
          /\ Lacks(todo, TokenSteps) => Lacks(Tail(todo), TokenSteps)
          /\ Once(todo, TokenSteps) => Once(Tail(todo), TokenSteps)
      BY <1>1, LacksTail DEF Typed
    <2> QED
      BY <1>1, <1>2, <1>4, <2>1, <2>2, TypedFront
  <1> QED
    BY <1>1, <1>3, <1>4

LEMMA WaitTypes ==
    ASSUME NEW T, "state" \in T, Typed(T), AwaitOut \/ AwaitCaught \/ GiveUp
    PROVE  Typed(T)'
  <1>1. /\ todo # << >> /\ token' = token
        /\ todo' = Tail(todo) \/ todo' = todo \/ todo' = << "state" >> \o todo
    BY DEF AwaitOut, AwaitCaught, GiveUp, At, AtOneOf, Done
  <1>2. StateOK'
    <2>1. CASE AwaitOut
      BY <2>1 DEF AwaitOut, Reads, Typed, StateOK
    <2>2. CASE AwaitCaught \/ GiveUp
      BY <2>2 DEF AwaitCaught, GiveUp, chip, Typed, StateOK
    <2> QED
      BY <2>1, <2>2
  <1>3. CASE todo' = Tail(todo)
    BY <1>1, <1>2, <1>3, TypedTail
  <1>4. CASE todo' = todo
    BY <1>1, <1>2, <1>4 DEF Typed, TokenLeft
  <1>5. CASE todo' = << "state" >> \o todo
    <2>1. "state" \notin TokenSteps /\ todo \in Seq(T)
      BY DEF TokenSteps, Typed
    <2> QED
      BY <1>1, <1>2, <1>5, <2>1, TypedFront
  <1> QED
    BY <1>1, <1>3, <1>4, <1>5

LEMMA RegisterTypes == ASSUME NEW T, Typed(T), ResetRegisters \/ SetThumb PROVE Typed(T)'
  <1>1. todo # << >> /\ token' = token /\ (todo' = Tail(todo) \/ todo' = << >>)
    BY DEF ResetRegisters, SetThumb, At, AtOneOf, Done, Abort
  <1>2. StateOK'
    <2>1. regs' \in [Parts -> Bits]
      <3>1. regs \in [Parts -> Bits] /\ 0 \in Bits
        BY DEF Typed, StateOK, Bits
      <3>2. [p \in Parts |-> 0] \in [Parts -> Bits]
        BY <3>1
      <3>3. [p \in Parts |-> IF p \in Families.xpsr THEN 0 ELSE regs[p]] \in [Parts -> Bits]
        BY <3>1
      <3> QED
        BY <3>1, <3>2, <3>3 DEF ResetRegisters, SetThumb
    <2>2. fresh' \in BOOLEAN
      BY DEF ResetRegisters, SetThumb, Typed, StateOK
    <2> QED
      BY <2>1, <2>2 DEF ResetRegisters, SetThumb, Typed, StateOK
  <1> QED
    BY <1>1, <1>2, TypedTail, TypedEnd

LEMMA SeqGrows == ASSUME NEW S, NEW T, S \subseteq T PROVE Seq(S) \subseteq Seq(T)
  <1> SUFFICES ASSUME NEW s \in Seq(S) PROVE s \in Seq(T)
    OBVIOUS
  <1>1. /\ Len(s) \in Nat /\ s = [i \in 1 .. Len(s) |-> s[i]]
        /\ \A i \in 1 .. Len(s) : s[i] \in S
    BY LenProperties, ElementOfSeq
  <1>2. [i \in 1 .. Len(s) |-> s[i]] \in Seq(T)
    BY <1>1, IsASeq
  <1> QED
    BY <1>1, <1>2

LEMMA StepTokens ==
    ASSUME NEW disable \in BOOLEAN
    PROVE  Once(StepSteps(disable), TokenSteps)
  <1> DEFINE mask == disable /\ "MASKINTS" \notin ctl
             first == << "clear_dfsr" >>
             second == IF mask THEN << "halt_masked" >> ELSE << >>
             third == << IF disable \/ "MASKINTS" \in ctl THEN "step_masked" ELSE "step", "await_step" >>
             fourth == IF mask THEN << "halt" >> ELSE << >>
             fifth == << "flush", "stepped" >>
  <1>1. first \in Seq(Steps) /\ Lacks(first, TokenSteps)
    BY DEF Steps, Lacks, TokenSteps
  <1>2. second \in Seq(Steps) /\ Lacks(second, TokenSteps)
    <2>1. << "halt_masked" >> \in Seq(Steps) /\ Lacks(<< "halt_masked" >>, TokenSteps)
      BY DEF Steps, Lacks, TokenSteps
    <2> QED
      BY <2>1, LacksEmpty
  <1>3. third \in Seq(Steps) /\ Lacks(third, TokenSteps)
    <2>1. \A x \in {"step", "step_masked"} : << x, "await_step" >> \in Seq(Steps) /\ Lacks(<< x, "await_step" >>, TokenSteps)
      BY DEF Steps, Lacks, TokenSteps
    <2> QED
      BY <2>1
  <1>4. fourth \in Seq(Steps) /\ Lacks(fourth, TokenSteps)
    <2>1. << "halt" >> \in Seq(Steps) /\ Lacks(<< "halt" >>, TokenSteps)
      BY DEF Steps, Lacks, TokenSteps
    <2> QED
      BY <2>1, LacksEmpty
  <1>5. fifth \in Seq(Steps) /\ Once(fifth, TokenSteps)
    BY DEF Steps, Once, TokenSteps
  <1>6. StepSteps(disable) = (((first \o second) \o third) \o fourth) \o fifth
    BY DEF StepSteps
  <1> HIDE DEF first, second, third, fourth, fifth
  <1>7. first \o second \in Seq(Steps) /\ Lacks(first \o second, TokenSteps)
    BY <1>1, <1>2, LacksConcat
  <1>8. (first \o second) \o third \in Seq(Steps) /\ Lacks((first \o second) \o third, TokenSteps)
    BY <1>3, <1>7, LacksConcat
  <1>9. /\ ((first \o second) \o third) \o fourth \in Seq(Steps)
        /\ Lacks(((first \o second) \o third) \o fourth, TokenSteps)
    BY <1>4, <1>8, LacksConcat
  <1> QED
    BY <1>5, <1>6, <1>9, LacksConcat

LEMMA LookTypes == ASSUME NEW T, Steps \subseteq T, Typed(T), Look PROVE Typed(T)'
  <1>1. /\ todo # << >> /\ Head(todo) \in TokenSteps /\ token' = token
        /\ todo' = StepSteps(At("look")) \/ todo' = << >>
    BY DEF Look, AtOneOf, TokenSteps
  <1>2. token < MaxToken
    BY <1>1, LacksTail DEF Typed, TokenLeft
  <1>3. StateOK'
    <2>1. executed' \in -1 .. 2
      <3>1. executed' = 0 \/ executed' = -1
        BY DEF Look
      <3> QED
        BY <3>1
    <2> QED
      BY <2>1 DEF Look, Reads, Typed, StateOK
  <1>4. At("look") \in BOOLEAN
    BY DEF At
  <1>5. StepSteps(At("look")) \in Seq(T) /\ Once(StepSteps(At("look")), TokenSteps)
    BY <1>4, StepLists, StepTokens, SeqGrows
  <1>6. CASE todo' = << >>
    BY <1>3, <1>6, TypedEnd
  <1>7. CASE todo' = StepSteps(At("look"))
    BY <1>1, <1>2, <1>3, <1>5, <1>7 DEF Typed, TokenLeft
  <1> QED
    BY <1>1, <1>6, <1>7

LEMMA FaultTypes == ASSUME NEW T, "flush" \in T, Typed(T), Fault PROVE Typed(T)'
  <1>1. StateOK'
    <2>1. faults' \in 0 .. MaxFaults
      BY RunAssumption DEF Fault, Typed, StateOK
    <2>2. /\ core' \in {"running", "halted", "sleeping", "lockup", "reset"}
          /\ ctl' \subseteq {"DEBUGEN", "HALT", "STEP", "MASKINTS"} /\ sticky' \subseteq {"RESET", "RETIRE"}
          /\ fresh' \in BOOLEAN /\ UNCHANGED <<demcr, regs, executed>>
      <3>1. CASE UNCHANGED chip
        BY <3>1 DEF chip, Typed, StateOK
      <3>2. CASE EnterReset /\ UNCHANGED <<demcr, regs, executed>>
        BY <3>2 DEF EnterReset, Typed, StateOK
      <3> QED
        BY <3>1, <3>2 DEF Fault
    <2>3. seen' \in {seen, "none"} /\ saved' \in {saved, {}} /\ UNCHANGED <<token, untold>>
      BY DEF Fault
    <2> QED
      BY <2>1, <2>2, <2>3 DEF Typed, StateOK
  <1>2. CASE todo' = << >>
    BY <1>1, <1>2, TypedEnd
  <1>3. CASE todo' # << >>
    <2>1. todo # << >> /\ todo \in Seq(T) /\ token' = token /\ "flush" \notin TokenSteps
      BY DEF Fault, Typed, TokenSteps
    <2>2. \/ todo' = << "flush" >> \o SubSeq(todo, 3, Len(todo))
          \/ todo' = << "flush" >> \o Tail(todo)
          \/ todo' = << "flush" >> \o todo
          \/ todo' = todo
      BY <1>3 DEF Fault
    <2>3. CASE todo' = << "flush" >> \o SubSeq(todo, 3, Len(todo))
      <3>1. 3 \in Nat \ {0}
        OBVIOUS
      <3>2. /\ SubSeq(todo, 3, Len(todo)) \in Seq(T)
            /\ Lacks(todo, TokenSteps) => Lacks(SubSeq(todo, 3, Len(todo)), TokenSteps)
            /\ Once(todo, TokenSteps) => Once(SubSeq(todo, 3, Len(todo)), TokenSteps)
        BY <2>1, <3>1, LacksRest
      <3> QED
        BY <1>1, <2>1, <2>3, <3>2, TypedFront
    <2>4. CASE todo' = << "flush" >> \o Tail(todo)
      <3>1. /\ Tail(todo) \in Seq(T)
            /\ Lacks(todo, TokenSteps) => Lacks(Tail(todo), TokenSteps)
            /\ Once(todo, TokenSteps) => Once(Tail(todo), TokenSteps)
        BY <2>1, LacksTail
      <3> QED
        BY <1>1, <2>1, <2>4, <3>1, TypedFront
    <2>5. CASE todo' = << "flush" >> \o todo
      BY <1>1, <2>1, <2>5, TypedFront
    <2>6. CASE todo' = todo
      BY <1>1, <2>1, <2>6 DEF Typed, TokenLeft
    <2> QED
      BY <2>2, <2>3, <2>4, <2>5, <2>6
  <1> QED
    BY <1>2, <1>3

-----------------------------------------------------------------------------
(* The tokens of the calls *)

LEMMA ResetTokens ==
    ASSUME NEW type
    PROVE  Once(ResetSteps(type), TokenSteps)
  <1> DEFINE kind == PerformResetSteps(ActualResetType(type))
             count == << "count" >>
             out == << "await_out" >>
             registers == << "reset_registers", "reset_system" >>
             pins == << "pin_reset" >>
             request == << "request_reset", "flush_request" >>
  <1> USE DEF Steps, Lacks, TokenSteps
  <1>1. count \in Seq(Steps) /\ Once(count, TokenSteps) /\ out \in Seq(Steps) /\ Lacks(out, TokenSteps)
    BY DEF Once
  <1>2. HaltSteps \in Seq(Steps) /\ Lacks(HaltSteps, TokenSteps) /\ registers \in Seq(Steps) /\ Lacks(registers, TokenSteps)
    BY DEF HaltSteps
  <1>3. pins \in Seq(Steps) /\ Lacks(pins, TokenSteps) /\ request \in Seq(Steps) /\ Lacks(request, TokenSteps)
    OBVIOUS
  <1> HIDE DEF Steps, Lacks, TokenSteps
  <1>4. kind \in {pins, request, HaltSteps \o registers}
    BY ResetKinds
  <1>5. ResetSteps(type) = (count \o kind) \o out
    BY DEF ResetSteps
  <1> HIDE DEF kind, count, out, registers, pins, request
  <1>6. kind \in Seq(Steps) /\ Lacks(kind, TokenSteps)
    BY <1>2, <1>3, <1>4, LacksConcat
  <1>7. count \o kind \in Seq(Steps) /\ Once(count \o kind, TokenSteps)
    BY <1>1, <1>6, LacksConcat
  <1> QED
    BY <1>1, <1>5, <1>7, LacksConcat

LEMMA CatchingTokens ==
    ASSUME NEW s \in Seq(Steps), Lacks(s, TokenSteps), NEW type
    PROVE  /\ (CatchSteps \o ResetSteps(type)) \o s \in Seq(Steps)
           /\ Once((CatchSteps \o ResetSteps(type)) \o s, TokenSteps)
  <1> DEFINE two == << "read_demcr", "catch" >>
  <1>1. HaltSteps \in Seq(Steps) /\ Lacks(HaltSteps, TokenSteps) /\ two \in Seq(Steps) /\ Lacks(two, TokenSteps)
    BY DEF Steps, Lacks, TokenSteps, HaltSteps
  <1>2. CatchSteps = HaltSteps \o two
    BY DEF CatchSteps
  <1> HIDE DEF two
  <1>3. CatchSteps \in Seq(Steps) /\ Lacks(CatchSteps, TokenSteps)
    BY <1>1, <1>2, LacksConcat
  <1>4. CatchSteps \o ResetSteps(type) \in Seq(Steps) /\ Once(CatchSteps \o ResetSteps(type), TokenSteps)
    BY <1>3, ResetLists, ResetTokens, LacksConcat
  <1> QED
    BY <1>4, LacksConcat

LEMMA ResumeTokens == Once(ResumeSteps, TokenSteps)
  BY DEF Once, TokenSteps, ResumeSteps

LEMMA DisconnectTokens == ASSUME NEW resume \in BOOLEAN PROVE Once(DisconnectSteps(resume), TokenSteps)
  <1> DEFINE off == << "debug_blocks_off" >>
             last == << "debug_off" >>
  <1>1. off \in Seq(Steps) /\ Lacks(off, TokenSteps) /\ last \in Seq(Steps) /\ Lacks(last, TokenSteps)
    BY DEF Steps, Lacks, TokenSteps
  <1>2. DisconnectSteps(resume) = off \o (IF resume THEN ResumeSteps \o last ELSE << >>)
    BY DEF DisconnectSteps
  <1> HIDE DEF off, last
  <1>3. ResumeSteps \o last \in Seq(Steps) /\ Once(ResumeSteps \o last, TokenSteps)
    BY <1>1, ResumeLists, ResumeTokens, LacksConcat
  <1>4. CASE resume
    BY <1>1, <1>2, <1>3, <1>4, LacksConcat
  <1>5. CASE ~resume
    <2>1. Once(off \o << >>, TokenSteps)
      BY <1>1, LacksEmpty, LacksConcat, LacksOnce
    <2> QED
      BY <1>2, <1>5, <2>1
  <1> QED
    BY <1>4, <1>5

LEMMA BeginTypes ==
    ASSUME NEW T, Steps \subseteq T, Typed(T), NEW steps \in Seq(Steps),
           \/ Begin(steps) /\ Lacks(steps, TokenSteps)
           \/ BeginRun(steps) /\ Once(steps, TokenSteps)
    PROVE  Typed(T)'
  <1>1. steps \in Seq(T)
    BY SeqGrows
  <1>2. StateOK'
    <2>1. 0 \in 0 .. MaxFaults
      BY RunAssumption
    <2> QED
      BY <2>1 DEF Begin, BeginRun, chip, Typed, StateOK
  <1>3. todo' = steps /\ token' = token
    BY DEF Begin, BeginRun
  <1> QED
    BY <1>1, <1>2, <1>3 DEF Typed, TokenLeft, BeginRun

LEMMA CallTypes == ASSUME NEW T, Steps \subseteq T, Typed(T), RunCall PROVE Typed(T)'
  <1>1. CASE Identify
    <2>1. IdentifySteps \in Seq(Steps) /\ Lacks(IdentifySteps, TokenSteps)
      BY DEF IdentifySteps, Steps, Lacks, TokenSteps
    <2> QED
      BY <1>1, <2>1, BeginTypes DEF Identify
  <1>2. CASE Halt
    <2>1. HaltSteps \in Seq(Steps) /\ Lacks(HaltSteps, TokenSteps)
      BY DEF HaltSteps, Steps, Lacks, TokenSteps
    <2> QED
      BY <1>2, <2>1, BeginTypes DEF Halt
  <1>3. CASE GetState \/ SetVectorCatch
    <2>1. << "state" >> \in Seq(Steps) /\ Lacks(<< "state" >>, TokenSteps)
      BY DEF Steps, Lacks, TokenSteps
    <2>2. << "read_demcr", "set_catches" >> \in Seq(Steps) /\ Lacks(<< "read_demcr", "set_catches" >>, TokenSteps)
      BY DEF Steps, Lacks, TokenSteps
    <2> QED
      BY <1>3, <2>1, <2>2, BeginTypes DEF GetState, SetVectorCatch
  <1>4. CASE Step
    <2>1. \A x \in {"look", "look_interrupts_on"} : << x >> \in Seq(Steps) /\ Once(<< x >>, TokenSteps)
      BY DEF Steps, Once, TokenSteps
    <2>2. \E x \in {"look", "look_interrupts_on"} : BeginRun(<< x >>)
      BY <1>4 DEF Step
    <2> QED
      BY <2>1, <2>2, BeginTypes
  <1>5. CASE Resume
    BY <1>5, ResumeLists, ResumeTokens, BeginTypes DEF Resume
  <1>6. CASE Reset
    BY <1>6, ResetLists, ResetTokens, BeginTypes DEF Reset
  <1>7. CASE ResetAndHalt
    <2> DEFINE ends == << "state", "await_catch", "set_thumb", "restore_demcr" >>
    <2>1. PICK type : BeginRun((CatchSteps \o ResetSteps(type)) \o ends)
      BY <1>7 DEF ResetAndHalt, ResetAndHaltSteps
    <2>2. ends \in Seq(Steps) /\ Lacks(ends, TokenSteps)
      BY DEF Steps, Lacks, TokenSteps
    <2> HIDE DEF ends
    <2> QED
      BY <2>1, <2>2, CatchingTokens, BeginTypes
  <1>8. CASE ResetStopOnReset
    <2> DEFINE ends == << "wait_out", "state", "await_halted", "restore_demcr", "write_xpsr" >>
    <2>1. BeginRun((CatchSteps \o ResetSteps("SW")) \o ends)
      BY <1>8 DEF ResetStopOnReset, ResetStopSteps
    <2>2. ends \in Seq(Steps) /\ Lacks(ends, TokenSteps)
      BY DEF Steps, Lacks, TokenSteps
    <2> HIDE DEF ends
    <2> QED
      BY <2>1, <2>2, CatchingTokens, BeginTypes
  <1>9. CASE Disconnect
    BY <1>9, DisconnectLists, DisconnectTokens, BeginTypes DEF Disconnect
  <1> QED
    BY <1>1, <1>2, <1>3, <1>4, <1>5, <1>6, <1>7, <1>8, <1>9 DEF RunCall

LEMMA NextTypes == ASSUME NEW T, Steps \subseteq T, Typed(T), [RunNext]_runVars PROVE Typed(T)'
  <1>1. {"state", "state_again", "flush"} \subseteq T
    BY DEF Steps
  <1>2. CASE RunCall
    BY <1>2, CallTypes
  <1>3. CASE CallStep
    BY <1>1, <1>3, PlainTypes, CatchTypes, TokenTypes, StateTypes, WaitTypes, RegisterTypes, LookTypes DEF CallStep
  <1>4. CASE GiveUp \/ Fault \/ Core
    BY <1>1, <1>4, WaitTypes, FaultTypes, CoreTypes
  <1>5. CASE UNCHANGED runVars
    BY <1>5 DEF runVars, caller, chip, Typed, StateOK, TokenLeft
  <1> QED
    BY <1>2, <1>3, <1>4, <1>5 DEF RunNext

LEMMA InitTypes == ASSUME NEW T, RunInit PROVE Typed(T)
  <1>1. StateOK
    <2>1. 0 \in 0 .. MaxFaults /\ 0 \in 0 .. MaxToken /\ 0 \in -1 .. 2
      BY RunAssumption
    <2>2. [p \in Parts |-> 0] \in [Parts -> Bits]
      BY DEF Bits
    <2>3. untold \in BOOLEAN /\ fresh \in BOOLEAN
      BY DEF RunInit
    <2> QED
      BY <2>1, <2>2, <2>3 DEF RunInit, StateOK
  <1> QED
    BY <1>1, LacksEmpty DEF RunInit, Typed, TokenLeft

(* The state of CortexM and of its core is of its types whatever is called *)
(* and whatever fails; a call counts one new token at most, so that the    *)
(* bound on tokens is one on the calls that let the core run.              *)
THEOREM RunTypesCorrect == RunSpec => []RunTypeOK
  <1>1. RunInit => Typed(Steps)
    BY InitTypes
  <1>2. Typed(Steps) /\ [RunNext]_runVars => Typed(Steps)'
    BY NextTypes
  <1>3. Typed(Steps) => RunTypeOK
    BY DEF Typed, RunTypeOK
  <1> QED
    BY <1>1, <1>2, <1>3, PTL DEF RunSpec

-----------------------------------------------------------------------------
(* The last of some positions in a list *)

LEMMA Least ==
    ASSUME NEW S \in SUBSET Nat, S # {}
    PROVE  \E m \in S : \A k \in S : m <= k
  <1> DEFINE R == OpToRel(<, Nat)
  <1>1. IsWellFoundedOn(R, Nat)
    BY NatLessThanWellFounded
  <1>2. \A x, y \in Nat : << y, x >> \in R <=> y < x
    BY DEF OpToRel
  <1> HIDE DEF R
  <1>3. PICK m \in S : \A k \in S : ~(<< k, m >> \in R)
    BY <1>1, WFMin
  <1>4. \A k \in S : k \in Nat /\ m \in Nat /\ ~(k < m)
    BY <1>2, <1>3
  <1> QED
    BY <1>4

LEMMA LastOfSome ==
    ASSUME NEW n \in Nat, NEW I \in SUBSET (1 .. n), I # {}
    PROVE  Max(I) \in I /\ \A i \in I : i <= Max(I)
  <1> DEFINE S == {m \in Nat : \E i \in I : m = n - i}
  <1>1. S \in SUBSET Nat /\ S # {}
    <2>1. PICK i \in I : TRUE
      OBVIOUS
    <2>2. n - i \in S
      BY <2>1
    <2> QED
      BY <2>2
  <1>2. PICK m \in S : \A k \in S : m <= k
    BY <1>1, Least
  <1>3. PICK last \in I : m = n - last
    BY <1>2
  <1>4. \A i \in I : last >= i
    <2> TAKE i \in I
    <2>1. n - i \in S /\ i \in Nat /\ last \in Nat
      OBVIOUS
    <2>2. n - last <= n - i
      BY <1>2, <1>3, <2>1
    <2> QED
      BY <2>1, <2>2
  <1>5. \E x \in I : \A y \in I : x >= y
    BY <1>4
  <1>6. Max(I) \in I /\ \A y \in I : Max(I) >= y
    BY <1>5 DEF Max
  <1> QED
    BY <1>6

-----------------------------------------------------------------------------
(* Registers, their parts and their families *)

LEMMA FamilyTable ==
    /\ DOMAIN Families = {"cfbp", "xpsr"}
    /\ Families["cfbp"] = {"control", "faultmask", "primask"} /\ Families["xpsr"] = {"apsr", "ipsr"}
    /\ Registers = {"r0", "control", "faultmask", "primask", "apsr", "ipsr", "cfbp", "xpsr"}
  BY DEF Families, Registers, Parts

LEMMA WholeTable ==
    /\ \A r \in {"cfbp", "control", "faultmask", "primask"} : Whole(r) = "cfbp"
    /\ \A r \in {"xpsr", "apsr", "ipsr"} : Whole(r) = "xpsr"
    /\ Whole("r0") = "r0"
  BY FamilyTable DEF Whole

LEMMA PartTable ==
    /\ PartsOf("cfbp") = {"control", "faultmask", "primask"}
    /\ PartsOf("xpsr") = {"apsr", "ipsr"}
    /\ \A p \in Parts : PartsOf(p) = {p}
  BY FamilyTable DEF PartsOf, Parts

LEMMA RegisterFacts ==
    /\ \A r \in Registers : PartsOf(r) \subseteq Parts /\ PartsOf(r) \subseteq PartsOf(Whole(r)) /\ Whole(r) \in Registers
    /\ \A r \in Registers : Whole(r) \notin DOMAIN Families => r = "r0" /\ Whole(r) = "r0"
    /\ \A r \in Registers : \A p \in PartsOf(r) : Whole(p) = Whole(r)
    /\ \A r \in Registers : \A p \in Parts : p \in PartsOf(Whole(r)) <=> Whole(p) = Whole(r)
    /\ \A r \in Registers : Whole(r) = Whole(Whole(r))
  <1> USE FamilyTable, WholeTable, PartTable DEF Parts
  <1>1. \A r \in Registers : PartsOf(r) \subseteq Parts /\ PartsOf(r) \subseteq PartsOf(Whole(r)) /\ Whole(r) \in Registers
    OBVIOUS
  <1>2. \A r \in Registers : Whole(r) \notin DOMAIN Families => r = "r0" /\ Whole(r) = "r0"
    OBVIOUS
  <1>3. \A r \in Registers : \A p \in PartsOf(r) : Whole(p) = Whole(r)
    OBVIOUS
  <1>4. \A r \in Registers : \A p \in Parts : p \in PartsOf(Whole(r)) <=> Whole(p) = Whole(r)
    OBVIOUS
  <1>5. \A r \in Registers : Whole(r) = Whole(Whole(r))
    OBVIOUS
  <1> QED
    BY <1>1, <1>2, <1>3, <1>4, <1>5

\* What is transferred with some registers: all that share a whole with one of them.
LEMMA FamilyMembers ==
    ASSUME NEW rs \in SUBSET Registers
    PROVE  /\ FamilyOf(rs) \subseteq Registers
           /\ \A r \in Registers :
                 r \in FamilyOf(rs) <=> Whole(r) \in DOMAIN Families /\ \E x \in rs : Whole(x) = Whole(r)
  <1>1. \A w \in DOMAIN Families : \A r \in Registers : r \in {w} \cup Families[w] <=> Whole(r) = w
    BY FamilyTable, WholeTable
  <1>2. \A w \in DOMAIN Families : {w} \cup Families[w] \subseteq Registers
    BY FamilyTable
  <1>3. \A r : r \in FamilyOf(rs) <=> \E x \in rs : Whole(x) \in DOMAIN Families /\ r \in {Whole(x)} \cup Families[Whole(x)]
    BY DEF FamilyOf
  <1> QED
    BY <1>1, <1>2, <1>3

LEMMA ValueTyped ==
    ASSUME regs \in [Parts -> Bits], NEW r \in Registers
    PROVE  Value(r) \in [PartsOf(r) -> Bits]
  BY RegisterFacts DEF Value


-----------------------------------------------------------------------------
(* What a list of writes leaves in the registers *)

LEMMA ListFacts ==
    ASSUME NEW list \in Seq(Writes)
    PROVE  /\ Len(list) \in Nat /\ DOMAIN list = 1 .. Len(list)
           /\ \A i \in DOMAIN list : list[i].reg \in Registers /\ list[i].value \in [PartsOf(list[i].reg) -> Bits]
  <1>1. Len(list) \in Nat /\ DOMAIN list = 1 .. Len(list) /\ \A i \in DOMAIN list : list[i] \in Writes
    BY LenProperties, ElementOfSeq
  <1>2. \A w \in Writes : w.reg \in Registers /\ w.value \in [PartsOf(w.reg) -> Bits]
    BY DEF Writes
  <1> QED
    BY <1>1, <1>2

LEMMA LastCarrying ==
    ASSUME NEW list \in Seq(Writes), NEW p \in Parts
    PROVE  /\ Carrying(list, p) # {} => Max(Carrying(list, p)) \in Carrying(list, p)
           /\ Naming(list, p) # {} => Max(Naming(list, p)) \in Naming(list, p)
  <1>1. Carrying(list, p) \in SUBSET (1 .. Len(list)) /\ Naming(list, p) \in SUBSET (1 .. Len(list)) /\ Len(list) \in Nat
    BY ListFacts DEF Carrying, Naming
  <1> QED
    BY <1>1, LastOfSome

LEMMA PartTyped ==
    ASSUME NEW list \in Seq(Writes), NEW p \in Parts, regs \in [Parts -> Bits]
    PROVE  PartAfter(list, p) \in Bits
  <1>1. \A i \in Carrying(list, p) : p \in DOMAIN list[i].value => list[i].value[p] \in Bits
    BY ListFacts DEF Carrying
  <1>2. \A i \in Naming(list, p) : list[i].value[p] \in Bits
    BY ListFacts, PartTable DEF Naming, Carrying
  <1>3. MaskedIn(list, p) \in Bits
    BY <1>2, LastCarrying DEF MaskedIn
  <1> QED
    BY <1>1, <1>3, LastCarrying DEF PartAfter

LEMMA UnnamedKept ==
    ASSUME NEW list \in Seq(Writes), NEW p \in Parts, \A i \in DOMAIN list : p \notin PartsOf(list[i].reg)
    PROVE  PartAfter(list, p) = regs[p]
  <1>1. Naming(list, p) = {}
    BY PartTable DEF Naming, Carrying
  <1>2. MaskedIn(list, p) = regs[p]
    BY <1>1 DEF MaskedIn
  <1>3. \A i \in Carrying(list, p) : p \notin DOMAIN list[i].value
    BY ListFacts DEF Carrying
  <1> QED
    BY <1>2, <1>3, LastCarrying DEF PartAfter

\* A register that is no family's: the last write to it counts.
LEMMA LastWritten ==
    ASSUME arg \in Seq(Writes), "r0" \in Named
    PROVE  /\ LastTo("r0") \in [{"r0"} -> Bits]
           /\ PartAfter(arg, "r0") = LastTo("r0")["r0"]
  <1> DEFINE own == {i \in DOMAIN arg : arg[i].reg = "r0"}
  <1>1. own \in SUBSET (1 .. Len(arg)) /\ own # {} /\ Len(arg) \in Nat
    BY ListFacts DEF Named
  <1>2. Max(own) \in own
    BY <1>1, LastOfSome
  <1>3. "r0" \in Parts /\ PartsOf("r0") = {"r0"}
    BY PartTable DEF Parts
  <1>4. LastTo("r0") = arg[Max(own)].value
    BY DEF LastTo
  <1>5. LastTo("r0") \in [{"r0"} -> Bits]
    BY <1>2, <1>3, <1>4, ListFacts
  <1>6. Carrying(arg, "r0") = own
    <2>1. \A i \in DOMAIN arg : "r0" \in PartsOf(Whole(arg[i].reg)) <=> arg[i].reg = "r0"
      <3>1. \A r \in Registers : "r0" \in PartsOf(Whole(r)) <=> r = "r0"
        BY FamilyTable, WholeTable, PartTable DEF Parts
      <3> QED
        BY <3>1, ListFacts
    <2>2. \A i \in DOMAIN arg : arg[i].reg = "r0" => IsWritten(arg, i)
      BY WholeTable DEF IsWritten, IsPart
    <2> QED
      BY <2>1, <2>2 DEF Carrying
  <1> QED
    BY <1>1, <1>4, <1>5, <1>6 DEF PartAfter

\* After the writes of a list, a register that the list leaves in the cache.
LEMMA KeptAfter ==
    ASSUME arg \in Seq(Writes), regs \in [Parts -> Bits], regs' = RegistersAfter(arg),
           NEW r \in Registers, r \notin FamilyOf(Named)
    PROVE  IF r \in Named THEN Value(r)' = LastTo(r) ELSE Value(r)' = Value(r)
  <1>1. Named \in SUBSET Registers
    BY ListFacts DEF Named
  <1>2. PartsOf(r) \subseteq Parts
    BY RegisterFacts
  <1>3. Value(r)' = [p \in PartsOf(r) |-> PartAfter(arg, p)]
    BY <1>2 DEF Value, RegistersAfter
  <1>4. CASE r \in Named
    <2>1. r = "r0"
      BY <1>1, <1>4, FamilyMembers, RegisterFacts
    <2>2. PartsOf(r) = {"r0"}
      BY <2>1, PartTable DEF Parts
    <2>3. LastTo("r0") \in [{"r0"} -> Bits] /\ PartAfter(arg, "r0") = LastTo("r0")["r0"]
      BY <1>4, <2>1, LastWritten
    <2>4. LastTo("r0") = [p \in {"r0"} |-> LastTo("r0")[p]]
      BY <2>3
    <2>5. [p \in {"r0"} |-> PartAfter(arg, p)] = [p \in {"r0"} |-> LastTo("r0")[p]]
      BY <2>3
    <2> QED
      BY <1>3, <1>4, <2>1, <2>2, <2>4, <2>5
  <1>5. CASE r \notin Named
    <2>1. \A p \in PartsOf(r) : \A i \in DOMAIN arg : p \notin PartsOf(arg[i].reg)
      <3> SUFFICES ASSUME NEW p \in PartsOf(r), NEW i \in DOMAIN arg, p \in PartsOf(arg[i].reg) PROVE FALSE
        OBVIOUS
      <3> DEFINE x == arg[i].reg
      <3>1. x \in Named /\ x \in Registers
        BY <1>1 DEF Named
      <3>2. Whole(x) = Whole(r)
        BY <3>1, RegisterFacts
      <3>3. Whole(r) \notin DOMAIN Families
        BY <1>1, <3>1, <3>2, FamilyMembers
      <3>4. r = "r0" /\ x = "r0"
        BY <3>1, <3>2, <3>3, RegisterFacts
      <3> QED
        BY <1>5, <3>1, <3>4
    <2>2. \A p \in PartsOf(r) : PartAfter(arg, p) = regs[p]
      BY <1>2, <2>1, UnnamedKept
    <2> QED
      BY <1>3, <1>5, <2>2 DEF Value
  <1> QED
    BY <1>4, <1>5

-----------------------------------------------------------------------------
(* The form of a call through the cache, and of its state *)

Writing(s) == Begins(s, {"write_registers"}) /\ Tail(s) = << >>
Storing(s) == Begins(s, {"store"}) /\ Writing(Tail(s))
Reading(s) == Begins(s, {"read_registers"}) /\ Tail(s) = << >>
Checking(s) == Begins(s, {"check"}) /\ (Storing(Tail(s)) \/ Reading(Tail(s)))
AskingFirst(s) == Begins(s, {"state", "state_again"}) /\ Checking(Tail(s))

AllSteps == Steps \cup CacheSteps

Form ==
    \/ todo \in Seq(Steps)
    \/ AskingFirst(todo) \/ Checking(todo) \/ Reading(todo) \/ Storing(todo) \/ Writing(todo)

Listed == Named \subseteq Registers /\ (arg \in Seq(Writes) \/ Lacks(todo, {"store", "write_registers"}))

CacheOK ==
    /\ synced \in -1 .. token
    /\ DOMAIN cached \subseteq Registers /\ \A r \in DOMAIN cached : cached[r] \in [PartsOf(r) -> Bits]
    /\ poisoned \subseteq DOMAIN cached

TypeInv == Typed(AllSteps) /\ Form /\ Listed /\ CacheOK

LEMMA FormHeads ==
    /\ Writing(todo) => todo # << >> /\ Head(todo) = "write_registers" /\ Tail(todo) = << >>
    /\ Storing(todo) => todo # << >> /\ Head(todo) = "store" /\ Writing(Tail(todo))
    /\ Reading(todo) => todo # << >> /\ Head(todo) = "read_registers" /\ Tail(todo) = << >>
    /\ Checking(todo) => todo # << >> /\ Head(todo) = "check" /\ (Storing(Tail(todo)) \/ Reading(Tail(todo)))
    /\ AskingFirst(todo) => todo # << >> /\ Head(todo) \in {"state", "state_again"} /\ Checking(Tail(todo))
  <1> USE DEF Begins
  <1>1. Writing(todo) => todo # << >> /\ Head(todo) = "write_registers" /\ Tail(todo) = << >>
    BY DEF Writing
  <1>2. Storing(todo) => todo # << >> /\ Head(todo) = "store" /\ Writing(Tail(todo))
    BY DEF Storing
  <1>3. Reading(todo) => todo # << >> /\ Head(todo) = "read_registers" /\ Tail(todo) = << >>
    BY DEF Reading
  <1>4. Checking(todo) => todo # << >> /\ Head(todo) = "check" /\ (Storing(Tail(todo)) \/ Reading(Tail(todo)))
    BY DEF Checking
  <1>5. AskingFirst(todo) => todo # << >> /\ Head(todo) \in {"state", "state_again"} /\ Checking(Tail(todo))
    BY DEF AskingFirst
  <1> QED
    BY <1>1, <1>2, <1>3, <1>4, <1>5

\* The steps of a call on the core are those of CoreRunControl.
LEMMA HeadInSteps == ASSUME todo \in Seq(Steps), todo # << >> PROVE Head(todo) \in Steps \ CacheSteps
  <1>1. Head(todo) \in Steps
    BY HeadTailProperties
  <1>2. Steps \cap CacheSteps = {}
    BY DEF Steps, CacheSteps
  <1> QED
    BY <1>1, <1>2

LEMMA HeadsOfSteps == ASSUME CallStep \/ GiveUp PROVE todo # << >> /\ Head(todo) \in Steps \ CacheSteps
  <1>1. \A s \in ToSet(IdentifySteps) : s \in {"read_cpuid", "read_cpacr", "enable_fpu", "test_fpu", "restore_cpacr"}
    BY DEF ToSet, IdentifySteps
  <1>2. todo # << >>
    BY DEF CallStep, WriteControl, OtherAccess, Look, AwaitStep, ReadState, ReadStateAgain, ReadDemcr, WriteCatches,
           WriteDemcr, NewToken, DecideResume, RequestReset, ResetRegisters, SetThumb, AwaitOut, AwaitCaught, GiveUp, At, AtOneOf
  <1> USE DEF At, AtOneOf, Steps, CacheSteps
  <1>3. CASE WriteControl \/ OtherAccess
    BY <1>1, <1>3 DEF WriteControl, OtherAccess, ControlBits
  <1>4. CASE Look \/ AwaitStep \/ ReadState \/ ReadStateAgain \/ ReadDemcr
    BY <1>4 DEF Look, AwaitStep, ReadState, ReadStateAgain, ReadDemcr
  <1>5. CASE WriteCatches \/ NewToken \/ DecideResume \/ RequestReset
    BY <1>5 DEF WriteCatches, WriteDemcr, NewToken, DecideResume, RequestReset
  <1>6. CASE ResetRegisters \/ SetThumb \/ AwaitOut \/ AwaitCaught \/ GiveUp
    BY <1>6 DEF ResetRegisters, SetThumb, AwaitOut, AwaitCaught, GiveUp
  <1> QED
    BY <1>2, <1>3, <1>4, <1>5, <1>6 DEF CallStep

LEMMA RunAloneSteps == ASSUME RunAlone PROVE RunNext /\ UNCHANGED cacheVars
  BY DEF RunAlone, RunNext, RunCall

\* Of the calls on the core, only the core itself moves beside a step of the cache.
LEMMA BesideCache ==
    ASSUME RunAlone, todo # << >>
    PROVE  /\ Head(todo) \in CacheSteps => Core
           /\ Head(todo) \in {"state", "state_again"} => ReadState \/ ReadStateAgain \/ Core \/ Fault
  <1>1. ~RunCall
    BY DEF RunCall, Identify, Halt, GetState, SetVectorCatch, Step, Resume, Reset, ResetAndHalt, ResetStopOnReset,
           Disconnect, BeginRun, Begin
  <1>2. CallStep \/ GiveUp \/ Core \/ (Fault /\ ~AtOneOf({"check", "store", "read_registers", "write_registers"}))
    BY <1>1 DEF RunAlone, RunCall
  <1>3. Head(todo) \in CacheSteps => Core
    BY <1>2, HeadsOfSteps DEF AtOneOf, CacheSteps
  <1>4. ASSUME Head(todo) \in {"state", "state_again"} PROVE ReadState \/ ReadStateAgain \/ Core \/ Fault
    <2>1. \A s \in ToSet(IdentifySteps) : s \in {"read_cpuid", "read_cpacr", "enable_fpu", "test_fpu", "restore_cpacr"}
      BY DEF ToSet, IdentifySteps
    <2>2. ~WriteControl /\ ~OtherAccess
      BY <1>4, <2>1 DEF WriteControl, OtherAccess, ControlBits, AtOneOf
    <2>3. /\ ~Look /\ ~AwaitStep /\ ~ReadDemcr /\ ~WriteCatches /\ ~NewToken /\ ~DecideResume /\ ~RequestReset
          /\ ~ResetRegisters /\ ~SetThumb /\ ~AwaitOut /\ ~AwaitCaught /\ ~GiveUp
      BY <1>4 DEF Look, AwaitStep, ReadDemcr, WriteCatches, WriteDemcr, NewToken, DecideResume, RequestReset,
           ResetRegisters, SetThumb, AwaitOut, AwaitCaught, GiveUp, At, AtOneOf
    <2> QED
      BY <1>2, <2>2, <2>3 DEF CallStep
  <1> QED
    BY <1>3, <1>4

LEMMA CoreKeepsCalls == ASSUME Core PROVE UNCHANGED <<todo, seen, saved, token, faults, untold, demcr>>
  BY DEF Core, Halts, Execute, Wake, ResetEnds, caller

\* What a read of the state, or its failure, makes of a call through the cache.
LEMMA AskedFirst ==
    ASSUME AskingFirst(todo), RunAlone
    PROVE  \/ todo' = todo /\ Core
           \/ todo' = << >> /\ Fault
           \/ todo' = Tail(todo) /\ Checking(todo') /\ (ReadState \/ ReadStateAgain)
           \/ todo' = << "state_again" >> \o Tail(todo) /\ ReadState
  <1>1. todo # << >> /\ Head(todo) \in {"state", "state_again"} /\ Checking(Tail(todo))
    BY FormHeads
  <1>2. CASE Core
    BY <1>2, CoreKeepsCalls
  <1>3. CASE Fault
    BY <1>1, <1>3 DEF Fault, At
  <1>4. CASE ReadState \/ ReadStateAgain
    BY <1>1, <1>4 DEF ReadState, ReadStateAgain, Done
  <1> QED
    BY <1>1, <1>2, <1>3, <1>4, BesideCache

LEMMA RunForm == ASSUME TypeInv, RunAlone PROVE Form'
  <1>1. CASE todo \in Seq(Steps)
    <2>1. Typed(Steps)
      BY <1>1 DEF TypeInv, Typed
    <2>2. Typed(Steps)'
      BY <2>1, RunAloneSteps, NextTypes
    <2> QED
      BY <2>2 DEF Form, Typed
  <1>2. CASE AskingFirst(todo)
    <2>1. CASE todo' = << "state_again" >> \o Tail(todo)
      <3>1. Tail(todo) \in Seq(AllSteps) /\ "state_again" \in AllSteps /\ Checking(Tail(todo))
        BY <1>2, FormHeads, HeadTailProperties DEF TypeInv, Typed, AllSteps, Steps
      <3>2. todo' # << >> /\ Head(todo') = "state_again" /\ Tail(todo') = Tail(todo)
        BY <2>1, <3>1, OneInFront
      <3> QED
        BY <3>1, <3>2 DEF Form, AskingFirst, Begins
    <2>2. << >> \in Seq(Steps)
      BY EmptySeq
    <2> QED
      BY <1>2, <2>1, <2>2, AskedFirst DEF Form
  <1>3. CASE Checking(todo) \/ Reading(todo) \/ Storing(todo) \/ Writing(todo)
    <2>1. todo # << >> /\ Head(todo) \in CacheSteps
      BY <1>3, FormHeads DEF CacheSteps
    <2>2. todo' = todo
      BY <2>1, BesideCache, CoreKeepsCalls
    <2> QED
      BY <1>3, <2>2 DEF Form
  <1> QED
    BY <1>1, <1>2, <1>3 DEF TypeInv, Form

\* A call on the core comes to no step of the cache.
LEMMA RunLists == ASSUME TypeInv, RunAlone PROVE Listed'
  <1>1. arg' = arg /\ Named' = Named
    BY RunAloneSteps DEF cacheVars, Named
  <1>2. ASSUME Lacks(todo, {"store", "write_registers"}) PROVE Lacks(todo', {"store", "write_registers"})
    <2>1. CASE todo \in Seq(Steps)
      <3>1. Typed(Steps)'
        BY <2>1, RunAloneSteps, NextTypes DEF TypeInv, Typed
      <3>2. \A i \in 1 .. Len(todo') : todo'[i] \in Steps
        BY <3>1, LenProperties, ElementOfSeq DEF Typed
      <3> QED
        BY <3>2 DEF Lacks, Steps
    <2>2. CASE AskingFirst(todo)
      <3> DEFINE front == << "state_again" >>
      <3>1. front \in Seq(AllSteps) /\ Lacks(front, {"store", "write_registers"})
        BY DEF Lacks, AllSteps, Steps
      <3>2. todo # << >> /\ todo \in Seq(AllSteps)
        BY <2>2, FormHeads DEF TypeInv, Typed
      <3>3. Tail(todo) \in Seq(AllSteps) /\ Lacks(Tail(todo), {"store", "write_registers"})
        BY <1>2, <3>2, LacksTail
      <3>4. todo' \in {todo, << >>, Tail(todo), front \o Tail(todo)}
        BY <2>2, AskedFirst
      <3> HIDE DEF front
      <3>5. Lacks(front \o Tail(todo), {"store", "write_registers"})
        BY <3>1, <3>3, LacksConcat
      <3>6. Lacks(<< >>, {"store", "write_registers"})
        BY LacksEmpty
      <3> QED
        BY <1>2, <3>3, <3>4, <3>5, <3>6
    <2>3. CASE Checking(todo) \/ Reading(todo) \/ Storing(todo) \/ Writing(todo)
      <3>1. todo # << >> /\ Head(todo) \in CacheSteps
        BY <2>3, FormHeads DEF CacheSteps
      <3>2. todo' = todo
        BY <3>1, BesideCache, CoreKeepsCalls
      <3> QED
        BY <1>2, <3>2
    <2> QED
      BY <2>1, <2>2, <2>3 DEF TypeInv, Form
  <1> QED
    BY <1>1, <1>2 DEF TypeInv, Listed

LEMMA TokensGrow == ASSUME RunNext, token \in Nat PROVE token' = token \/ token' = token + 1
  <1>1. CASE RunCall
    BY <1>1 DEF RunCall, Identify, Halt, GetState, SetVectorCatch, Step, Resume, Reset, ResetAndHalt, ResetStopOnReset,
           Disconnect, BeginRun, Begin
  <1>2. CASE CallStep
    BY <1>2 DEF CallStep, WriteControl, OtherAccess, Look, AwaitStep, ReadState, ReadStateAgain, ReadDemcr, WriteCatches,
           WriteDemcr, NewToken, DecideResume, RequestReset, ResetRegisters, SetThumb, AwaitOut, AwaitCaught
  <1>3. CASE GiveUp \/ Fault \/ Core
    BY <1>3, CoreKeepsCalls DEF GiveUp, Fault
  <1> QED
    BY <1>1, <1>2, <1>3 DEF RunNext

LEMMA RunTyped == ASSUME TypeInv, RunAlone PROVE TypeInv'
  <1>1. Typed(AllSteps)'
    <2>1. Steps \subseteq AllSteps
      BY DEF AllSteps
    <2> QED
      BY <2>1, RunAloneSteps, NextTypes DEF TypeInv
  <1>2. CacheOK'
    <2>1. UNCHANGED <<cached, synced, poisoned>>
      BY RunAloneSteps DEF cacheVars
    <2>2. token \in Nat /\ token' \in Nat /\ token <= token'
      BY RunAloneSteps, TokensGrow DEF TypeInv, Typed, StateOK
    <2>3. synced \in -1 .. token'
      BY <2>2 DEF TypeInv, CacheOK
    <2> QED
      BY <2>1, <2>3 DEF TypeInv, CacheOK
  <1> QED
    BY <1>1, <1>2, RunForm, RunLists DEF TypeInv

-----------------------------------------------------------------------------
(* The calls through the cache *)

LEMMA CachedLists ==
    /\ << "state", "check" >> \o << "read_registers" >> \in Seq(AllSteps)
    /\ Lacks(<< "state", "check" >> \o << "read_registers" >>, TokenSteps \cup {"store", "write_registers"})
    /\ AskingFirst(<< "state", "check" >> \o << "read_registers" >>)
    /\ << "state", "check" >> \o << "store", "write_registers" >> \in Seq(AllSteps)
    /\ Lacks(<< "state", "check" >> \o << "store", "write_registers" >>, TokenSteps)
    /\ AskingFirst(<< "state", "check" >> \o << "store", "write_registers" >>)
  <1> DEFINE read == << "state" >> \o (<< "check" >> \o << "read_registers" >>)
             write == << "state" >> \o (<< "check" >> \o << "store", "write_registers" >>)
             reading == << "read_registers" >>
             storing == << "store", "write_registers" >>
             asking == << "state", "check" >>
  <1>1. {"state", "check", "read_registers", "store", "write_registers"} \subseteq AllSteps
    BY DEF AllSteps, Steps, CacheSteps
  <1>2. /\ reading \in Seq(AllSteps) /\ storing \in Seq(AllSteps) /\ asking \in Seq(AllSteps)
    BY <1>1
  <1>3. /\ Lacks(asking, TokenSteps \cup {"store", "write_registers"}) /\ Lacks(asking, TokenSteps)
        /\ Lacks(reading, TokenSteps \cup {"store", "write_registers"}) /\ Lacks(storing, TokenSteps)
    BY DEF Lacks, TokenSteps
  <1>4. Reading(reading)
    <2>1. reading # << >> /\ Head(reading) = "read_registers" /\ Tail(reading) = << >>
      OBVIOUS
    <2> QED
      BY <2>1 DEF Reading, Begins
  <1>5. Storing(storing)
    <2>1. storing # << >> /\ Head(storing) = "store" /\ Tail(storing) = << "write_registers" >>
      OBVIOUS
    <2>2. /\ << "write_registers" >> # << >> /\ Head(<< "write_registers" >>) = "write_registers"
          /\ Tail(<< "write_registers" >>) = << >>
      OBVIOUS
    <2>3. Writing(<< "write_registers" >>)
      BY <2>2 DEF Writing, Begins
    <2> QED
      BY <2>1, <2>3 DEF Storing, Begins
  <1>6. asking \o reading = read /\ asking \o storing = write
    BY <1>1, <1>2, TwoInFront
  <1> HIDE DEF reading, storing, asking
  <1>7. ASSUME NEW s \in Seq(AllSteps), Reading(s) \/ Storing(s)
        PROVE  AskingFirst(<< "state" >> \o (<< "check" >> \o s))
    <2> DEFINE checking == << "check" >> \o s
    <2>1. checking \in Seq(AllSteps) /\ checking # << >> /\ Head(checking) = "check" /\ Tail(checking) = s
      BY <1>1, OneInFront
    <2> HIDE DEF checking
    <2>2. << "state" >> \o checking # << >> /\ Head(<< "state" >> \o checking) = "state" /\ Tail(<< "state" >> \o checking) = checking
      BY <1>1, <2>1, OneInFront
    <2>3. Checking(checking)
      BY <1>7, <2>1 DEF Checking, Begins
    <2>4. AskingFirst(<< "state" >> \o checking)
      BY <2>2, <2>3 DEF AskingFirst, Begins
    <2> QED
      BY <2>4 DEF checking
  <1>8. AskingFirst(asking \o reading) /\ AskingFirst(asking \o storing)
    <2>1. read = << "state" >> \o (<< "check" >> \o reading) /\ write = << "state" >> \o (<< "check" >> \o storing)
      BY DEF reading, storing
    <2> HIDE DEF read, write
    <2> QED
      BY <1>2, <1>4, <1>5, <1>6, <1>7, <2>1
  <1>9. /\ asking \o reading \in Seq(AllSteps) /\ Lacks(asking \o reading, TokenSteps \cup {"store", "write_registers"})
        /\ asking \o storing \in Seq(AllSteps) /\ Lacks(asking \o storing, TokenSteps)
    BY <1>2, <1>3, LacksConcat
  <1> QED
    BY <1>8, <1>9 DEF asking, reading, storing

LEMMA CacheCalled ==
    ASSUME TypeInv, CacheCall
    PROVE  /\ TypeInv' /\ AskingFirst(todo')
           /\ todo = << >> /\ UNCHANGED <<seen, saved, token, chip, untold, cached, synced, poisoned>>
  <1> DEFINE reading == << "state", "check" >> \o << "read_registers" >>
             writing == << "state", "check" >> \o << "store", "write_registers" >>
  <1>1. /\ todo = << >> /\ faults' = 0 /\ UNCHANGED <<seen, saved, token, chip, untold, cached, synced, poisoned>>
    BY DEF CacheCall, ReadRegisters, WriteRegisters, Cached, Begin
  <1>2. \/ \E list \in ReadLists : todo' = reading /\ arg' = [i \in DOMAIN list |-> [reg |-> list[i], value |-> << >>]]
        \/ \E list \in WriteLists : todo' = writing /\ arg' = list
    BY DEF CacheCall, ReadRegisters, WriteRegisters, Cached, Begin
  <1> HIDE DEF reading, writing
  <1>3. /\ reading \in Seq(AllSteps) /\ Lacks(reading, TokenSteps \cup {"store", "write_registers"}) /\ AskingFirst(reading)
        /\ writing \in Seq(AllSteps) /\ Lacks(writing, TokenSteps) /\ AskingFirst(writing)
    BY CachedLists DEF reading, writing
  <1>4. todo' \in Seq(AllSteps) /\ Lacks(todo', TokenSteps) /\ AskingFirst(todo')
    BY <1>2, <1>3 DEF Lacks
  <1>5. StateOK'
    <2>1. 0 \in 0 .. MaxFaults
      BY RunAssumption
    <2> QED
      BY <1>1, <2>1 DEF chip, TypeInv, Typed, StateOK
  <1>6. Listed'
    <2>1. CASE \E list \in ReadLists : todo' = reading /\ arg' = [i \in DOMAIN list |-> [reg |-> list[i], value |-> << >>]]
      <3>1. PICK list \in ReadLists : todo' = reading /\ arg' = [i \in DOMAIN list |-> [reg |-> list[i], value |-> << >>]]
        BY <2>1
      <3>2. \A i \in DOMAIN list : list[i] \in Registers
        BY CacheAssumption, LenProperties, ElementOfSeq
      <3>3. Named' \subseteq Registers
        BY <3>1, <3>2 DEF Named
      <3>4. Lacks(todo', {"store", "write_registers"})
        BY <1>3, <3>1 DEF Lacks
      <3> QED
        BY <3>3, <3>4 DEF Listed
    <2>2. CASE \E list \in WriteLists : todo' = writing /\ arg' = list
      <3>1. arg' \in Seq(Writes)
        BY <2>2, CacheAssumption
      <3>2. Named' \subseteq Registers
        BY <3>1, ListFacts DEF Named
      <3> QED
        BY <3>1, <3>2 DEF Listed
    <2> QED
      BY <1>2, <2>1, <2>2
  <1>7. CacheOK'
    BY <1>1 DEF TypeInv, CacheOK
  <1> QED
    BY <1>1, <1>4, <1>5, <1>6, <1>7 DEF TypeInv, Typed, TokenLeft, Form

-----------------------------------------------------------------------------
(* The steps of the cache, and types *)

\* A step that takes itself off the list of a call through the cache, or ends it.
LEMMA CacheTook ==
    ASSUME TypeInv, Checking(todo) \/ Reading(todo) \/ Storing(todo) \/ Writing(todo),
           todo' = Tail(todo) \/ todo' = << >>, arg' = arg \/ (arg' = << >> /\ ~Checking(todo) /\ ~Storing(todo)),
           StateOK', token' = token
    PROVE  Typed(AllSteps)' /\ Form' /\ Listed'
  <1>1. todo # << >> /\ todo \in Seq(AllSteps)
    BY FormHeads DEF TypeInv, Typed
  <1>2. Typed(AllSteps)'
    BY <1>1, TypedTail, TypedEnd DEF TypeInv
  <1>3. << >> \in Seq(Steps) /\ Lacks(<< >>, {"store", "write_registers"})
    BY LacksEmpty
  <1>4. Form'
    BY <1>3, FormHeads DEF Form
  <1>5. CASE arg' = arg
    <2>1. Lacks(todo, {"store", "write_registers"}) => Lacks(Tail(todo), {"store", "write_registers"})
      BY <1>1, LacksTail
    <2>2. Lacks(todo, {"store", "write_registers"}) => Lacks(todo', {"store", "write_registers"})
      BY <1>3, <2>1
    <2>3. Named' = Named
      BY <1>5 DEF Named
    <2> QED
      BY <1>2, <1>4, <1>5, <2>2, <2>3 DEF TypeInv, Listed
  <1>6. CASE arg' = << >> /\ ~Checking(todo) /\ ~Storing(todo)
    <2>1. todo' = << >>
      BY <1>6, FormHeads
    <2>2. Named' = {}
      BY <1>6 DEF Named
    <2> QED
      BY <1>2, <1>3, <1>4, <2>1, <2>2 DEF Listed
  <1> QED
    BY <1>5, <1>6

\* The step of the cache that is next tells what is left of the call.
LEMMA CacheHeads ==
    ASSUME TypeInv
    PROVE  /\ At("check") => Checking(todo)
           /\ At("read_registers") => Reading(todo)
           /\ At("store") => Storing(todo) /\ arg \in Seq(Writes)
           /\ At("write_registers") => Writing(todo) /\ arg \in Seq(Writes)
  <1>1. /\ At("check") => Checking(todo)
        /\ At("read_registers") => Reading(todo)
        /\ At("store") => Storing(todo)
        /\ At("write_registers") => Writing(todo)
    <2>1. AtOneOf(CacheSteps) => ~(todo \in Seq(Steps))
      BY HeadInSteps DEF AtOneOf
    <2> QED
      BY <2>1, FormHeads DEF At, AtOneOf, CacheSteps, TypeInv, Form
  <1>2. AtOneOf({"store", "write_registers"}) => arg \in Seq(Writes)
    BY LacksTail DEF AtOneOf, TypeInv, Listed, Typed
  <1> QED
    BY <1>1, <1>2 DEF At, AtOneOf

LEMMA CheckTypes == ASSUME TypeInv, Check PROVE TypeInv'
  <1>1. Checking(todo) /\ todo' = Tail(todo) /\ arg' = arg /\ token' = token
    BY CacheHeads DEF Check, Done
  <1>2. StateOK'
    BY DEF Check, chip, TypeInv, Typed, StateOK
  <1>3. CacheOK'
    <2>1. CASE cached' = << >> /\ poisoned' = {} /\ synced' \in {synced, token}
      <3>1. DOMAIN cached' = {}
        BY <2>1
      <3>2. synced' \in -1 .. token'
        BY <1>1, <2>1 DEF TypeInv, CacheOK, Typed, StateOK
      <3> QED
        BY <2>1, <3>1, <3>2 DEF CacheOK
    <2>2. CASE UNCHANGED <<cached, poisoned, synced>>
      BY <1>1, <2>2 DEF TypeInv, CacheOK
    <2> QED
      BY <2>1, <2>2 DEF Check
  <1> QED
    BY <1>1, <1>2, <1>3, CacheTook DEF TypeInv

LEMMA ReadTypes == ASSUME TypeInv, Read PROVE TypeInv'
  <1>1. Reading(todo) /\ (todo' = Tail(todo) \/ todo' = << >>) /\ arg' = << >> /\ token' = token
    BY CacheHeads DEF Read, Done, Abort
  <1>2. ~Checking(todo) /\ ~Storing(todo)
    BY <1>1, FormHeads
  <1>3. StateOK'
    BY DEF Read, chip, TypeInv, Typed, StateOK
  <1>4. CacheOK'
    <2> DEFINE lacking == Named \ DOMAIN cached
               gained == lacking \cup FamilyOf(lacking)
    <2>1. gained \subseteq Registers
      BY FamilyMembers DEF TypeInv, Listed
    <2>2. UNCHANGED <<poisoned, synced, token>>
      BY DEF Read
    <2>3. \/ cached' = cached
          \/ cached' = [r \in DOMAIN cached \cup gained |-> IF r \in gained THEN Unpack(r) ELSE cached[r]]
      BY DEF Read
    <2> HIDE DEF gained
    <2>4. \A r \in gained : Unpack(r) \in [PartsOf(r) -> Bits]
      BY <2>1, ValueTyped DEF Unpack, TypeInv, Typed, StateOK
    <2>5. CASE cached' = cached
      BY <2>2, <2>5 DEF TypeInv, CacheOK
    <2>6. CASE cached' = [r \in DOMAIN cached \cup gained |-> IF r \in gained THEN Unpack(r) ELSE cached[r]]
      <3>1. DOMAIN cached' = DOMAIN cached \cup gained
        BY <2>6
      <3>2. \A r \in DOMAIN cached' : cached'[r] = IF r \in gained THEN Unpack(r) ELSE cached[r]
        BY <2>6
      <3> QED
        BY <2>1, <2>2, <2>4, <3>1, <3>2 DEF TypeInv, CacheOK
    <2> QED
      BY <2>3, <2>5, <2>6
  <1> QED
    BY <1>1, <1>2, <1>3, <1>4, CacheTook DEF TypeInv

LEMMA StoreTypes == ASSUME TypeInv, Store PROVE TypeInv'
  <1>1. Storing(todo) /\ todo' = Tail(todo) /\ arg' = arg /\ token' = token /\ arg \in Seq(Writes)
    BY CacheHeads DEF Store, Done
  <1>2. StateOK'
    BY DEF Store, chip, TypeInv, Typed, StateOK
  <1>3. CacheOK'
    <2> DEFINE kept == (DOMAIN cached \cup Named) \ FamilyOf(Named)
    <2>1. \A r \in Named : LastTo(r) \in [PartsOf(r) -> Bits]
      <3> TAKE r \in Named
      <3> DEFINE own == {i \in DOMAIN arg : arg[i].reg = r}
      <3>1. own \in SUBSET (1 .. Len(arg)) /\ own # {} /\ Len(arg) \in Nat
        BY <1>1, ListFacts DEF Named
      <3>2. Max(own) \in own
        BY <3>1, LastOfSome
      <3>3. LastTo(r) = arg[Max(own)].value
        BY DEF LastTo
      <3> QED
        BY <1>1, <3>2, <3>3, ListFacts
    <2>2. /\ cached' = [r \in kept |-> IF r \in Named THEN LastTo(r) ELSE cached[r]]
          /\ poisoned' = poisoned \ (Named \cup FamilyOf(Named)) /\ UNCHANGED synced
      BY DEF Store
    <2>3. DOMAIN cached' = kept /\ \A r \in kept : cached'[r] = IF r \in Named THEN LastTo(r) ELSE cached[r]
      BY <2>2
    <2> QED
      BY <1>1, <2>1, <2>2, <2>3 DEF TypeInv, CacheOK, Listed
  <1> QED
    BY <1>1, <1>2, <1>3, CacheTook DEF TypeInv

LEMMA WriteTypes == ASSUME TypeInv, Write \/ CacheFault PROVE TypeInv'
  <1>1. /\ Writing(todo) \/ Reading(todo)
        /\ todo' = Tail(todo) \/ todo' = << >>
        /\ arg' = << >> /\ token' = token
    BY CacheHeads DEF Write, CacheFault, Done, Abort, At, AtOneOf
  <1>2. ~Checking(todo) /\ ~Storing(todo)
    BY <1>1, FormHeads
  <1>3. StateOK'
    <2>1. regs' \in [Parts -> Bits]
      <3>1. regs \in [Parts -> Bits]
        BY DEF TypeInv, Typed, StateOK
      <3>2. At("write_registers") => RegistersAfter(arg) \in [Parts -> Bits]
        BY <3>1, CacheHeads, PartTyped DEF RegistersAfter
      <3>3. regs' = regs \/ (At("write_registers") /\ regs' = RegistersAfter(arg))
        BY DEF Write, CacheFault
      <3> QED
        BY <3>1, <3>2, <3>3
    <2> QED
      BY <2>1 DEF Write, CacheFault, TypeInv, Typed, StateOK
  <1>4. CacheOK'
    <2>1. /\ poisoned' = poisoned \/ poisoned' = poisoned \cup (Named \cap DOMAIN cached)
          /\ UNCHANGED <<cached, synced>>
      BY DEF Write, CacheFault
    <2> QED
      BY <1>1, <2>1 DEF TypeInv, CacheOK
  <1> QED
    BY <1>1, <1>2, <1>3, <1>4, CacheTook DEF TypeInv

LEMMA UnchangedTypes == ASSUME TypeInv, UNCHANGED vars PROVE TypeInv'
  <1>1. /\ UNCHANGED <<todo, seen, saved, token, core, ctl, sticky, demcr, regs, fresh, executed, faults, untold>>
        /\ UNCHANGED <<cached, synced, arg, poisoned>>
    BY DEF vars, runVars, cacheVars, caller, chip
  <1>2. Typed(AllSteps)'
    BY <1>1 DEF TypeInv, Typed, StateOK, TokenLeft
  <1>3. Form' /\ Listed' /\ CacheOK'
    BY <1>1 DEF TypeInv, Form, Listed, CacheOK, Named
  <1> QED
    BY <1>2, <1>3 DEF TypeInv

LEMMA NextTyped == ASSUME TypeInv, [Next]_vars PROVE TypeInv'
  BY RunTyped, CacheCalled, CheckTypes, ReadTypes, StoreTypes, WriteTypes, UnchangedTypes DEF Next, CacheStep

LEMMA InitTyped == ASSUME Init PROVE TypeInv
  <1>1. Typed(AllSteps)
    BY InitTypes DEF Init
  <1>2. Form
    BY LacksEmpty DEF Init, RunInit, Form
  <1>3. Listed
    <2>1. Named = {} /\ Lacks(todo, {"store", "write_registers"})
      BY LacksEmpty DEF Init, RunInit, Named
    <2> QED
      BY <2>1 DEF Listed
  <1>4. CacheOK
    <2>1. DOMAIN cached = {} /\ poisoned = {} /\ synced = -1 /\ token = 0
      BY DEF Init, RunInit
    <2> QED
      BY <2>1 DEF CacheOK
  <1> QED
    BY <1>1, <1>2, <1>3, <1>4 DEF TypeInv

(* The state of RegisterCache and of the core behind it is of its types:   *)
(* a register is cached with the parts that it has, and never unpacked     *)
(* from one that has others.                                               *)
THEOREM TypeCorrect == Spec => []TypeOK
  <1>1. Init => TypeInv
    BY InitTyped
  <1>2. TypeInv /\ [Next]_vars => TypeInv'
    BY NextTyped
  <1>3. TypeInv => TypeOK
    BY DEF TypeInv, Typed, CacheOK, AllSteps, TypeOK
  <1> QED
    BY <1>1, <1>2, <1>3, PTL DEF Spec

-----------------------------------------------------------------------------
(* What the cache holds *)

\* The steps in which a halted core changes its registers or leaves its halt.
HotSteps == {"run", "debug_off", "pin_reset", "request_reset", "reset_registers", "write_xpsr"}

\* Each of them comes after a step that counts a new token.
Counters == {"count", "resume"}
Covered(s) == \A i \in 1 .. Len(s) : s[i] \in HotSteps => \E j \in 1 .. i - 1 : s[j] \in Counters

\* The cache will be dropped before it answers, or has nothing to answer with.
Blank == synced # token \/ untold \/ DOMAIN cached \subseteq poisoned

\* A resume looks at the state, which disconnect has it do too.
Deciding(s) == Begins(s, {"resume"}) /\ Lacks(Tail(s), {"resume"})
Telling(s) == Begins(s, {"state", "state_again"}) /\ Deciding(Tail(s))
Leaving(s) == Begins(s, {"debug_blocks_off"}) /\ Begins(Tail(s), {"state"}) /\ Telling(Tail(s))
Shape(s) == Lacks(s, {"resume"}) \/ Leaving(s) \/ Telling(s) \/ Deciding(s)
AgainFirst(s) == s # << >> => Lacks(Tail(s), {"state_again"})

SeenRight == At("resume") => Blank \/ seen = "halted"
AgainRight == At("state_again") => Blank \/ Len(todo) = 1 \/ (seen = "halted" /\ sticky = {})

Fits(r) == core = "halted" /\ cached[r] = Value(r)
Right ==
    synced = token /\ ~untold =>
        \A r \in DOMAIN cached \ poisoned : (Writing(todo) /\ r \in Named) \/ Fits(r)

\* What was cached for a write that is still to be made.
Pending ==
    Writing(todo) =>
        /\ DOMAIN cached \cap FamilyOf(Named) = {}
        /\ \A r \in DOMAIN cached \cap Named : cached[r] = LastTo(r)

CacheInv ==
    /\ TypeInv
    /\ Shape(todo) /\ AgainFirst(todo)
    /\ Blank \/ Covered(todo)
    /\ SeenRight /\ AgainRight
    /\ Right /\ Pending

-----------------------------------------------------------------------------
(* Lists of steps *)

\* The steps that a quiet list lacks.
Loud == HotSteps \cup {"resume", "state_again"}

LEMMA LacksSome ==
    ASSUME NEW S, NEW R, NEW s, S \subseteq R, Lacks(s, R)
    PROVE  Lacks(s, S)
  BY DEF Lacks

LEMMA LacksByTail ==
    ASSUME NEW T, NEW S, NEW s \in Seq(T), s # << >>, Head(s) \notin S, Lacks(Tail(s), S)
    PROVE  Lacks(s, S)
  <1>1. /\ Len(s) \in Nat \ {0} /\ Len(Tail(s)) = Len(s) - 1 /\ Head(s) = s[1]
        /\ \A i \in 1 .. Len(Tail(s)) : Tail(s)[i] = s[i + 1]
    BY HeadTailProperties, LenProperties, EmptySeq
  <1> SUFFICES ASSUME NEW i \in 1 .. Len(s) PROVE s[i] \notin S
    BY DEF Lacks
  <1>2. CASE i = 1
    BY <1>1, <1>2
  <1>3. CASE i # 1
    <2>1. i - 1 \in 1 .. Len(Tail(s)) /\ (i - 1) + 1 = i
      BY <1>1, <1>3
    <2> QED
      BY <1>1, <2>1 DEF Lacks
  <1> QED
    BY <1>2, <1>3

LEMMA LacksLater ==
    ASSUME NEW T, NEW S, NEW s \in Seq(T), s # << >>, Lacks(Tail(s), S), NEW m \in Nat, m > 1
    PROVE  SubSeq(s, m, Len(s)) \in Seq(T) /\ Lacks(SubSeq(s, m, Len(s)), S)
  <1> DEFINE u == SubSeq(s, m, Len(s))
  <1>1. /\ Len(s) \in Nat \ {0} /\ Len(Tail(s)) = Len(s) - 1
        /\ \A i \in 1 .. Len(Tail(s)) : Tail(s)[i] = s[i + 1]
        /\ \A i \in m .. Len(s) : s[i] \in T
    BY HeadTailProperties, LenProperties, EmptySeq, ElementOfSeq
  <1>2. /\ u \in Seq(T)
        /\ Len(u) = IF m <= Len(s) THEN Len(s) - m + 1 ELSE 0
        /\ \A i \in 1 .. Len(s) - m + 1 : u[i] = s[m + i - 1]
    BY <1>1, SubSeqProperties
  <1> HIDE DEF u
  <1>3. ASSUME NEW i \in 1 .. Len(u) PROVE u[i] \notin S
    <2>1. i \in Nat /\ u[i] = s[m + i - 1] /\ m + i - 2 \in 1 .. Len(Tail(s)) /\ (m + i - 2) + 1 = m + i - 1
      BY <1>1, <1>2
    <2>2. Tail(s)[m + i - 2] = s[m + i - 1]
      BY <1>1, <2>1
    <2> QED
      BY <2>1, <2>2 DEF Lacks
  <1> QED
    BY <1>2, <1>3 DEF u, Lacks

\* One step in front of a list without some.
LEMMA LacksFront ==
    ASSUME NEW T, NEW S, NEW x \in T, x \notin S, NEW s \in Seq(T), Lacks(s, S)
    PROVE  << x >> \o s \in Seq(T) /\ Lacks(<< x >> \o s, S)
  <1>1. << x >> \o s \in Seq(T) /\ << x >> \o s # << >> /\ Head(<< x >> \o s) = x /\ Tail(<< x >> \o s) = s
    BY OneInFront
  <1> QED
    BY <1>1, LacksByTail

LEMMA CoveredTail ==
    ASSUME NEW T, NEW s \in Seq(T), s # << >>, Covered(s)
    PROVE  Head(s) \notin HotSteps /\ (Head(s) \notin Counters => Covered(Tail(s)))
  <1>1. /\ Len(s) \in Nat \ {0} /\ Tail(s) \in Seq(T) /\ Len(Tail(s)) = Len(s) - 1 /\ Head(s) = s[1]
        /\ \A i \in 1 .. Len(Tail(s)) : Tail(s)[i] = s[i + 1]
    BY HeadTailProperties, LenProperties, EmptySeq
  <1>2. Head(s) \notin HotSteps
    <2>1. 1 \in 1 .. Len(s)
      BY <1>1
    <2>2. s[1] \in HotSteps => \E j \in 1 .. 1 - 1 : s[j] \in Counters
      BY <2>1 DEF Covered
    <2>3. 1 .. 1 - 1 = {}
      OBVIOUS
    <2> QED
      BY <1>1, <2>2, <2>3
  <1>3. ASSUME Head(s) \notin Counters, NEW i \in 1 .. Len(Tail(s)), Tail(s)[i] \in HotSteps
        PROVE  \E j \in 1 .. i - 1 : Tail(s)[j] \in Counters
    <2>1. i \in Nat /\ i + 1 \in 1 .. Len(s) /\ s[i + 1] \in HotSteps
      BY <1>1, <1>3
    <2>2. PICK j \in 1 .. (i + 1) - 1 : s[j] \in Counters
      BY <2>1 DEF Covered
    <2>3. j # 1
      BY <1>1, <1>3, <2>2
    <2>4. j - 1 \in 1 .. i - 1 /\ j - 1 \in 1 .. Len(Tail(s)) /\ (j - 1) + 1 = j
      BY <1>1, <2>1, <2>2, <2>3
    <2>5. Tail(s)[j - 1] = s[j]
      BY <1>1, <2>4
    <2> QED
      BY <2>2, <2>4, <2>5
  <1> QED
    BY <1>2, <1>3 DEF Covered

Counts(s) == \E j \in 1 .. Len(s) : s[j] \in Counters

LEMMA CoveredConcat ==
    ASSUME NEW T, NEW s \in Seq(T), NEW t \in Seq(T), Covered(s)
    PROVE  /\ s \o t \in Seq(T)
           /\ Covered(t) \/ Counts(s) => Covered(s \o t)
           /\ Counts(s) \/ Counts(t) => Counts(s \o t)
  <1> DEFINE u == s \o t
  <1>1. /\ u \in Seq(T) /\ Len(u) = Len(s) + Len(t) /\ Len(s) \in Nat /\ Len(t) \in Nat
        /\ \A i \in 1 .. Len(s) + Len(t) : u[i] = IF i <= Len(s) THEN s[i] ELSE t[i - Len(s)]
    BY ConcatProperties, LenProperties
  <1> HIDE DEF u
  <1>2. \A j \in 1 .. Len(s) : j \in 1 .. Len(u) /\ u[j] = s[j]
    BY <1>1
  <1>3. \A j \in 1 .. Len(t) : j + Len(s) \in 1 .. Len(u) /\ u[j + Len(s)] = t[j]
    <2> TAKE j \in 1 .. Len(t)
    <2>1. j \in Nat /\ j + Len(s) \in 1 .. Len(s) + Len(t) /\ ~(j + Len(s) <= Len(s)) /\ (j + Len(s)) - Len(s) = j
      BY <1>1
    <2> QED
      BY <1>1, <2>1
  <1>4. Counts(s) \/ Counts(t) => Counts(u)
    BY <1>2, <1>3 DEF Counts
  <1>5. ASSUME Covered(t) \/ Counts(s), NEW i \in 1 .. Len(u), u[i] \in HotSteps
        PROVE  \E j \in 1 .. i - 1 : u[j] \in Counters
    <2>1. CASE i <= Len(s)
      <3>1. i \in 1 .. Len(s) /\ s[i] \in HotSteps
        BY <1>1, <1>2, <1>5, <2>1
      <3>2. PICK j \in 1 .. i - 1 : s[j] \in Counters
        BY <3>1 DEF Covered
      <3>3. j \in 1 .. Len(s)
        BY <1>1, <3>1, <3>2
      <3> QED
        BY <1>2, <3>2, <3>3
    <2>2. CASE i > Len(s) /\ Counts(s)
      <3>1. PICK j \in 1 .. Len(s) : s[j] \in Counters
        BY <2>2 DEF Counts
      <3>2. j \in 1 .. i - 1 /\ u[j] = s[j]
        BY <1>1, <1>2, <2>2, <3>1
      <3> QED
        BY <3>1, <3>2
    <2>3. CASE i > Len(s) /\ Covered(t)
      <3>1. i - Len(s) \in 1 .. Len(t) /\ t[i - Len(s)] \in HotSteps
        BY <1>1, <1>5, <2>3
      <3>2. PICK j \in 1 .. (i - Len(s)) - 1 : t[j] \in Counters
        BY <2>3, <3>1 DEF Covered
      <3>3. j \in 1 .. Len(t) /\ j + Len(s) \in 1 .. i - 1
        BY <1>1, <3>1, <3>2
      <3> QED
        BY <1>3, <3>2, <3>3
    <2> QED
      BY <1>1, <1>5, <2>1, <2>2, <2>3
  <1> QED
    BY <1>1, <1>4, <1>5 DEF u, Covered

LEMMA QuietCovered == ASSUME NEW s, Lacks(s, HotSteps) PROVE Covered(s)
  BY DEF Lacks, Covered

LEMMA CoveredFront ==
    ASSUME NEW T, NEW x \in T, x \notin HotSteps, NEW s \in Seq(T), Covered(s) \/ x \in Counters
    PROVE  << x >> \o s \in Seq(T) /\ Covered(<< x >> \o s) /\ (x \in Counters \/ Counts(s) => Counts(<< x >> \o s))
  <1> DEFINE front == << x >>
  <1>1. front \in Seq(T) /\ Lacks(front, HotSteps) /\ (x \in Counters => Counts(front))
    BY DEF Lacks, Counts
  <1> HIDE DEF front
  <1>2. Covered(front)
    BY <1>1, QuietCovered
  <1>3. /\ front \o s \in Seq(T) /\ Covered(front \o s)
        /\ x \in Counters \/ Counts(s) => Counts(front \o s)
    BY <1>1, <1>2, CoveredConcat
  <1> QED
    BY <1>3 DEF front

LEMMA QuietShape ==
    ASSUME NEW T, NEW s \in Seq(T), Lacks(s, {"resume", "state_again"})
    PROVE  /\ Shape(s) /\ AgainFirst(s)
           /\ s # << >> => Head(s) # "resume" /\ Head(s) # "state_again"
  <1>1. Lacks(s, {"resume"}) /\ Lacks(s, {"state_again"})
    BY DEF Lacks
  <1>2. s # << >> => Lacks(Tail(s), {"state_again"}) /\ Head(s) \notin {"resume", "state_again"}
    BY <1>1, LacksTail
  <1> QED
    BY <1>1, <1>2 DEF Shape, AgainFirst

LEMMA ShapeTail ==
    ASSUME NEW T, NEW s \in Seq(T), s # << >>, Shape(s), AgainFirst(s)
    PROVE  Shape(Tail(s)) /\ AgainFirst(Tail(s))
  <1>1. Tail(s) \in Seq(T)
    BY LacksTail
  <1>2. AgainFirst(Tail(s))
    BY <1>1, LacksTail DEF AgainFirst
  <1>3. CASE Lacks(s, {"resume"})
    <2>1. Lacks(Tail(s), {"resume"})
      BY <1>3, LacksTail
    <2> QED
      BY <1>2, <2>1 DEF Shape
  <1>4. CASE Leaving(s) \/ Telling(s) \/ Deciding(s)
    <2>1. Telling(Tail(s)) \/ Deciding(Tail(s)) \/ Lacks(Tail(s), {"resume"})
      BY <1>4 DEF Leaving, Telling, Deciding
    <2> QED
      BY <1>2, <2>1 DEF Shape
  <1> QED
    BY <1>3, <1>4 DEF Shape

\* The step that is next, of a list that resumes.
LEMMA ShapeHeads ==
    ASSUME NEW s, s # << >>, Shape(s)
    PROVE  \/ Lacks(s, {"resume"})
           \/ Head(s) = "debug_blocks_off" /\ Tail(s) # << >> /\ Head(Tail(s)) = "state" /\ Telling(Tail(s))
           \/ Head(s) \in {"state", "state_again"} /\ Telling(s) /\ Deciding(Tail(s)) /\ Tail(s) # << >>
           \/ Head(s) = "resume" /\ Lacks(Tail(s), {"resume"})
  BY DEF Shape, Leaving, Telling, Deciding, Begins

-----------------------------------------------------------------------------
(* What a step leaves of a call *)

LEMMA Outcomes ==
    ASSUME CallStep \/ GiveUp \/ Fault
    PROVE  /\ todo # << >>
           /\ \/ todo' \in {<< >>, Tail(todo)}
              \/ Head(todo) \in {"await_out", "wait_out"} /\ todo' = todo
              \/ Head(todo) = "state" /\ todo' = << "state_again" >> \o Tail(todo) /\ ReadState
              \/ Head(todo) \in {"await_catch", "await_halted"} /\ todo' = << "state" >> \o todo
              \/ Head(todo) \in {"look", "look_interrupts_on"} /\ \E disable \in BOOLEAN : todo' = StepSteps(disable)
              \/ Head(todo) = "resume" /\ todo' = SubSeq(todo, 5, Len(todo))
              \/ Head(todo) = "request_reset" /\ todo' = << "flush" >> \o SubSeq(todo, 3, Len(todo))
              \/ Head(todo) = "flush_request" /\ todo' = << "flush" >> \o Tail(todo)
              \/ Head(todo) = "await_out" /\ todo' = << "flush" >> \o todo
  <1> USE DEF At, AtOneOf, Done, Abort
  <1>1. CASE WriteControl \/ OtherAccess \/ AwaitStep \/ ReadDemcr \/ NewToken \/ RequestReset
    BY <1>1 DEF WriteControl, OtherAccess, AwaitStep, ReadDemcr, NewToken, RequestReset
  <1>2. CASE Look
    <2>1. At("look") \in BOOLEAN
      OBVIOUS
    <2> QED
      BY <1>2, <2>1 DEF Look
  <1>3. CASE ReadState
    BY <1>3 DEF ReadState
  <1>4. CASE ReadStateAgain \/ WriteCatches
    BY <1>4 DEF ReadStateAgain, WriteCatches, WriteDemcr
  <1>5. CASE DecideResume
    BY <1>5 DEF DecideResume
  <1>6. CASE ResetRegisters \/ SetThumb \/ AwaitOut \/ GiveUp
    BY <1>6 DEF ResetRegisters, SetThumb, AwaitOut, GiveUp
  <1>7. CASE AwaitCaught
    BY <1>7 DEF AwaitCaught
  <1>8. CASE Fault
    BY <1>8 DEF Fault
  <1> QED
    BY <1>1, <1>2, <1>3, <1>4, <1>5, <1>6, <1>7, <1>8 DEF CallStep

LEMMA StepsQuiet == ASSUME NEW disable \in BOOLEAN PROVE Lacks(StepSteps(disable), Loud)
  <1> DEFINE mask == disable /\ "MASKINTS" \notin ctl
             first == << "clear_dfsr" >>
             second == IF mask THEN << "halt_masked" >> ELSE << >>
             third == << IF disable \/ "MASKINTS" \in ctl THEN "step_masked" ELSE "step", "await_step" >>
             fourth == IF mask THEN << "halt" >> ELSE << >>
             fifth == << "flush", "stepped" >>
  <1> USE DEF Steps, Lacks, Loud, HotSteps
  <1>1. first \in Seq(Steps) /\ Lacks(first, Loud)
    OBVIOUS
  <1>2. << "halt_masked" >> \in Seq(Steps) /\ Lacks(<< "halt_masked" >>, Loud)
    OBVIOUS
  <1>3. \A x \in {"step", "step_masked"} : << x, "await_step" >> \in Seq(Steps) /\ Lacks(<< x, "await_step" >>, Loud)
    OBVIOUS
  <1>4. << "halt" >> \in Seq(Steps) /\ Lacks(<< "halt" >>, Loud)
    OBVIOUS
  <1>5. fifth \in Seq(Steps) /\ Lacks(fifth, Loud)
    OBVIOUS
  <1> HIDE DEF Steps, Lacks, Loud, HotSteps
  <1>6. << >> \in Seq(Steps) /\ Lacks(<< >>, Loud)
    BY LacksEmpty
  <1>7. /\ second \in Seq(Steps) /\ Lacks(second, Loud) /\ third \in Seq(Steps) /\ Lacks(third, Loud)
        /\ fourth \in Seq(Steps) /\ Lacks(fourth, Loud)
    BY <1>2, <1>3, <1>4, <1>6
  <1>8. StepSteps(disable) = (((first \o second) \o third) \o fourth) \o fifth
    BY DEF StepSteps
  <1> HIDE DEF first, second, third, fourth, fifth
  <1>9. first \o second \in Seq(Steps) /\ Lacks(first \o second, Loud)
    BY <1>1, <1>7, LacksConcat
  <1>10. (first \o second) \o third \in Seq(Steps) /\ Lacks((first \o second) \o third, Loud)
    BY <1>7, <1>9, LacksConcat
  <1>11. /\ ((first \o second) \o third) \o fourth \in Seq(Steps)
         /\ Lacks(((first \o second) \o third) \o fourth, Loud)
    BY <1>7, <1>10, LacksConcat
  <1> QED
    BY <1>5, <1>8, <1>11, LacksConcat

\* A step adds no loud step to a call, other than the second look at the state.
LEMMA StaysQuiet ==
    ASSUME todo \in Seq(AllSteps), CallStep \/ GiveUp \/ Fault, NEW S \in SUBSET Loud, Lacks(todo, S)
    PROVE  \/ Lacks(todo', S)
           \/ "state_again" \in S /\ Head(todo) = "state" /\ todo' = << "state_again" >> \o Tail(todo) /\ ReadState
  <1>1. {"state", "state_again", "flush"} \subseteq AllSteps /\ "state" \notin S /\ "flush" \notin S
    BY DEF AllSteps, Steps, Loud, HotSteps
  <1>2. todo # << >> /\ Tail(todo) \in Seq(AllSteps) /\ Lacks(Tail(todo), S)
    BY Outcomes, LacksTail
  <1>3. Lacks(<< >>, S)
    BY LacksEmpty
  <1>4. CASE Head(todo) = "state" /\ todo' = << "state_again" >> \o Tail(todo) /\ ReadState
    <2>1. "state_again" \notin S => Lacks(<< "state_again" >> \o Tail(todo), S)
      BY <1>1, <1>2, LacksFront
    <2> QED
      BY <1>4, <2>1
  <1>5. CASE todo' = << "state" >> \o todo
    <2>1. Lacks(<< "state" >> \o todo, S)
      BY <1>1, LacksFront
    <2> QED
      BY <1>5, <2>1
  <1>6. CASE \E disable \in BOOLEAN : todo' = StepSteps(disable)
    <2>1. \A disable \in BOOLEAN : Lacks(StepSteps(disable), S)
      BY StepsQuiet DEF Lacks
    <2> QED
      BY <1>6, <2>1
  <1>7. CASE todo' = SubSeq(todo, 5, Len(todo))
    <2>1. Lacks(SubSeq(todo, 5, Len(todo)), S)
      <3>1. 5 \in Nat \ {0}
        OBVIOUS
      <3> QED
        BY <3>1, LacksRest
    <2> QED
      BY <1>7, <2>1
  <1>8. CASE todo' = << "flush" >> \o SubSeq(todo, 3, Len(todo))
    <2>1. SubSeq(todo, 3, Len(todo)) \in Seq(AllSteps) /\ Lacks(SubSeq(todo, 3, Len(todo)), S)
      <3>1. 3 \in Nat \ {0}
        OBVIOUS
      <3> QED
        BY <3>1, LacksRest
    <2>2. Lacks(<< "flush" >> \o SubSeq(todo, 3, Len(todo)), S)
      BY <1>1, <2>1, LacksFront
    <2> QED
      BY <1>8, <2>2
  <1>9. CASE todo' = << "flush" >> \o Tail(todo)
    <2>1. Lacks(<< "flush" >> \o Tail(todo), S)
      BY <1>1, <1>2, LacksFront
    <2> QED
      BY <1>9, <2>1
  <1>10. CASE todo' = << "flush" >> \o todo
    <2>1. Lacks(<< "flush" >> \o todo, S)
      BY <1>1, LacksFront
    <2> QED
      BY <1>10, <2>1
  <1>11. CASE todo' \in {<< >>, Tail(todo)} \/ todo' = todo
    BY <1>2, <1>3, <1>11
  <1> QED
    BY <1>4, <1>5, <1>6, <1>7, <1>8, <1>9, <1>10, <1>11, Outcomes

LEMMA ShapeKept ==
    ASSUME todo \in Seq(AllSteps), todo' \in Seq(AllSteps), Shape(todo), AgainFirst(todo), CallStep \/ GiveUp \/ Fault
    PROVE  /\ Shape(todo') /\ AgainFirst(todo')
           /\ todo' # << >> /\ Head(todo') = "state_again" =>
                  Head(todo) = "state" /\ todo' = << "state_again" >> \o Tail(todo) /\ ReadState
           /\ todo' # << >> /\ Head(todo') = "resume" => Head(todo) \in {"state", "state_again"} /\ todo' = Tail(todo)
  <1>1. todo # << >> /\ Tail(todo) \in Seq(AllSteps) /\ {"state_again"} \in SUBSET Loud /\ {"resume"} \in SUBSET Loud
    BY Outcomes, LacksTail DEF Loud
  <1>2. << >> \in Seq(AllSteps) /\ Lacks(<< >>, {"resume", "state_again"})
    BY LacksEmpty
  <1>3. Shape(<< >>) /\ AgainFirst(<< >>)
    BY <1>2, QuietShape
  <1>4. Lacks(Tail(todo), {"state_again"})
    BY <1>1 DEF AgainFirst
  <1> DEFINE again == << "state_again" >> \o Tail(todo)
  <1>5. again # << >> /\ Head(again) = "state_again" /\ Tail(again) = Tail(todo)
    <2>1. "state_again" \in AllSteps
      BY DEF AllSteps, Steps
    <2> QED
      BY <1>1, <2>1, OneInFront
  <1> HIDE DEF again
  <1>6. /\ AgainFirst(todo')
        /\ todo' # << >> /\ Head(todo') = "state_again" => Head(todo) = "state" /\ todo' = again /\ ReadState
    <2>1. CASE Head(todo) = "state_again"
      <3>1. todo' \in {<< >>, Tail(todo)}
        BY <2>1, Outcomes
      <3> QED
        BY <1>1, <1>2, <1>3, <1>4, <3>1, LacksTail DEF AgainFirst
    <2>2. CASE Head(todo) # "state_again"
      <3>1. Lacks(todo, {"state_again"})
        BY <1>1, <1>4, <2>2, LacksByTail
      <3>2. Lacks(todo', {"state_again"}) \/ (Head(todo) = "state" /\ todo' = again /\ ReadState)
        BY <1>1, <3>1, StaysQuiet DEF again
      <3>3. CASE Lacks(todo', {"state_again"})
        BY <3>3, LacksTail DEF AgainFirst
      <3>4. CASE Head(todo) = "state" /\ todo' = again /\ ReadState
        BY <1>4, <1>5, <3>4 DEF AgainFirst
      <3> QED
        BY <3>2, <3>3, <3>4
    <2> QED
      BY <2>1, <2>2
  <1>7. /\ Shape(todo')
        /\ todo' # << >> /\ Head(todo') = "resume" => Head(todo) \in {"state", "state_again"} /\ todo' = Tail(todo)
    <2>1. CASE Lacks(todo, {"resume"})
      <3>1. Lacks(todo', {"resume"})
        BY <1>1, <2>1, StaysQuiet
      <3> QED
        BY <3>1, LacksTail DEF Shape
    <2>2. CASE Head(todo) = "debug_blocks_off" /\ Tail(todo) # << >> /\ Head(Tail(todo)) = "state"
      <3>1. todo' \in {<< >>, Tail(todo)}
        BY <2>2, Outcomes
      <3> QED
        BY <1>1, <1>3, <2>2, <3>1, ShapeTail
    <2>3. CASE Head(todo) \in {"state", "state_again"} /\ Telling(todo) /\ Deciding(Tail(todo))
      <3>1. todo' \in {<< >>, Tail(todo), again}
        BY <2>3, Outcomes DEF again
      <3>2. Shape(again)
        BY <1>5, <2>3 DEF Shape, Telling, Begins
      <3> QED
        BY <1>1, <1>3, <1>5, <2>3, <3>1, <3>2, ShapeTail
    <2>4. CASE Head(todo) = "resume" /\ Lacks(Tail(todo), {"resume"})
      <3>1. todo' \in {<< >>, Tail(todo), SubSeq(todo, 5, Len(todo))}
        BY <2>4, Outcomes
      <3>2. Lacks(SubSeq(todo, 5, Len(todo)), {"resume"})
        <4>1. 5 \in Nat /\ 5 > 1
          OBVIOUS
        <4> QED
          BY <1>1, <2>4, <4>1, LacksLater
      <3>3. Lacks(<< >>, {"resume"})
        BY LacksEmpty
      <3>4. Lacks(todo', {"resume"})
        BY <2>4, <3>1, <3>2, <3>3
      <3> QED
        BY <3>4, LacksTail DEF Shape
    <2> QED
      BY <1>1, <2>1, <2>2, <2>3, <2>4, ShapeHeads
  <1> QED
    BY <1>6, <1>7 DEF again

\* What may change a halted core still comes after a step that counts a token.
LEMMA CoveredKept ==
    ASSUME todo \in Seq(AllSteps), Covered(todo), Head(todo) \notin Counters, CallStep \/ GiveUp \/ Fault
    PROVE  Covered(todo') /\ Head(todo) \notin HotSteps
  <1>1. /\ {"state", "state_again", "flush"} \subseteq AllSteps
        /\ "state_again" \notin HotSteps /\ "state" \notin HotSteps /\ "flush" \notin HotSteps
        /\ "request_reset" \in HotSteps /\ "resume" \in Counters
    BY DEF AllSteps, Steps, HotSteps, Counters
  <1>2. todo # << >> /\ Tail(todo) \in Seq(AllSteps) /\ Covered(Tail(todo)) /\ Head(todo) \notin HotSteps
    BY Outcomes, LacksTail, CoveredTail
  <1>3. Covered(<< >>)
    BY LacksEmpty, QuietCovered
  <1>4. CASE todo' = << "state_again" >> \o Tail(todo)
    <2>1. Covered(<< "state_again" >> \o Tail(todo))
      BY <1>1, <1>2, CoveredFront
    <2> QED
      BY <1>2, <1>4, <2>1
  <1>5. CASE todo' = << "state" >> \o todo
    <2>1. Covered(<< "state" >> \o todo)
      BY <1>1, CoveredFront
    <2> QED
      BY <1>2, <1>5, <2>1
  <1>6. CASE \E disable \in BOOLEAN : todo' = StepSteps(disable)
    <2>1. \A disable \in BOOLEAN : Lacks(StepSteps(disable), HotSteps)
      BY StepsQuiet DEF Lacks, Loud
    <2> QED
      BY <1>2, <1>6, <2>1, QuietCovered
  <1>7. CASE todo' = << "flush" >> \o Tail(todo)
    <2>1. Covered(<< "flush" >> \o Tail(todo))
      BY <1>1, <1>2, CoveredFront
    <2> QED
      BY <1>2, <1>7, <2>1
  <1>8. CASE todo' = << "flush" >> \o todo
    <2>1. Covered(<< "flush" >> \o todo)
      BY <1>1, CoveredFront
    <2> QED
      BY <1>2, <1>8, <2>1
  <1>9. CASE todo' \in {<< >>, Tail(todo)} \/ todo' = todo
    BY <1>2, <1>3, <1>9
  <1> QED
    BY <1>1, <1>2, <1>4, <1>5, <1>6, <1>7, <1>8, <1>9, Outcomes

-----------------------------------------------------------------------------
(* The calls on the core *)

LEMMA ResetCovered ==
    ASSUME NEW type
    PROVE  /\ ResetSteps(type) \in Seq(Steps) /\ Covered(ResetSteps(type)) /\ Counts(ResetSteps(type))
           /\ Lacks(ResetSteps(type), {"resume", "state_again"})
  <1> DEFINE kind == PerformResetSteps(ActualResetType(type))
             count == << "count" >>
             out == << "await_out" >>
             registers == << "reset_registers", "reset_system" >>
             pins == << "pin_reset" >>
             request == << "request_reset", "flush_request" >>
             none == {"resume", "state_again"}
  <1>1. /\ count \in Seq(Steps) /\ out \in Seq(Steps) /\ HaltSteps \in Seq(Steps)
        /\ registers \in Seq(Steps) /\ pins \in Seq(Steps) /\ request \in Seq(Steps)
    BY DEF Steps, HaltSteps
  <1>2. /\ Lacks(count, none) /\ Lacks(out, none) /\ Lacks(HaltSteps, none)
        /\ Lacks(registers, none) /\ Lacks(pins, none) /\ Lacks(request, none)
    BY DEF Lacks, HaltSteps
  <1>3. Lacks(count, HotSteps) /\ Lacks(out, HotSteps) /\ Counts(count)
    BY DEF Lacks, HotSteps, Counts, Counters
  <1>4. kind \in {pins, request, HaltSteps \o registers}
    BY ResetKinds
  <1>5. ResetSteps(type) = (count \o kind) \o out
    BY DEF ResetSteps
  <1> HIDE DEF kind, count, out, registers, pins, request, none
  <1>6. kind \in Seq(Steps) /\ Lacks(kind, none)
    BY <1>1, <1>2, <1>4, LacksConcat
  <1>7. count \o kind \in Seq(Steps) /\ Covered(count \o kind) /\ Counts(count \o kind)
    BY <1>1, <1>3, <1>6, QuietCovered, CoveredConcat
  <1>8. Covered((count \o kind) \o out) /\ Counts((count \o kind) \o out)
    BY <1>1, <1>7, CoveredConcat
  <1>9. Lacks(count \o kind, none)
    BY <1>1, <1>2, <1>6, LacksConcat
  <1>10. (count \o kind) \o out \in Seq(Steps) /\ Lacks((count \o kind) \o out, none)
    BY <1>1, <1>2, <1>7, <1>9, LacksConcat
  <1> QED
    BY <1>5, <1>8, <1>10 DEF none

LEMMA CatchingCovered ==
    ASSUME NEW s \in Seq(Steps), Lacks(s, {"resume", "state_again"}), NEW type
    PROVE  /\ (CatchSteps \o ResetSteps(type)) \o s \in Seq(Steps) /\ Covered((CatchSteps \o ResetSteps(type)) \o s)
           /\ Lacks((CatchSteps \o ResetSteps(type)) \o s, {"resume", "state_again"})
  <1> DEFINE two == << "read_demcr", "catch" >>
             none == {"resume", "state_again"}
  <1>1. HaltSteps \in Seq(Steps) /\ Lacks(HaltSteps, Loud) /\ two \in Seq(Steps) /\ Lacks(two, Loud)
    BY DEF Steps, Lacks, Loud, HotSteps, HaltSteps
  <1>2. CatchSteps = HaltSteps \o two
    BY DEF CatchSteps
  <1> HIDE DEF two
  <1>3. CatchSteps \in Seq(Steps) /\ Lacks(CatchSteps, Loud)
    BY <1>1, <1>2, LacksConcat
  <1>4. Lacks(CatchSteps, HotSteps) /\ Lacks(CatchSteps, none)
    BY <1>3 DEF Loud, Lacks
  <1>5. CatchSteps \o ResetSteps(type) \in Seq(Steps) /\ Lacks(CatchSteps \o ResetSteps(type), none)
    BY <1>3, <1>4, ResetCovered, LacksConcat
  <1>6. Covered(CatchSteps \o ResetSteps(type)) /\ Counts(CatchSteps \o ResetSteps(type))
    BY <1>3, <1>4, ResetCovered, QuietCovered, CoveredConcat
  <1>7. Covered((CatchSteps \o ResetSteps(type)) \o s)
    BY <1>5, <1>6, CoveredConcat
  <1> HIDE DEF none
  <1>8. (CatchSteps \o ResetSteps(type)) \o s \in Seq(Steps) /\ Lacks((CatchSteps \o ResetSteps(type)) \o s, none)
    BY <1>5, LacksConcat DEF none
  <1> QED
    BY <1>7, <1>8 DEF none

LEMMA ResumeCovered ==
    ASSUME NEW s \in {ResumeSteps, ResumeSteps \o << "debug_off" >>}
    PROVE  /\ s \in Seq(Steps) /\ s # << >> /\ Head(s) = "state" /\ Telling(s) /\ Covered(s)
           /\ Lacks(s, {"state_again"})
  <1> DEFINE long == << "state", "resume", "clear_dfsr", "run", "flush", "debug_off" >>
             last == << "debug_off" >>
  <1>1. ResumeSteps \o last = long
    <2>1. /\ last \in Seq(Steps) /\ Len(last) = 1 /\ last[1] = "debug_off"
          /\ long \in Seq(Steps) /\ Len(long) = 6
      BY DEF Steps
    <2>2. /\ long[1] = "state" /\ long[2] = "resume" /\ long[3] = "clear_dfsr"
          /\ long[4] = "run" /\ long[5] = "flush" /\ long[6] = "debug_off"
      OBVIOUS
    <2>3. /\ Len(ResumeSteps) = 5 /\ ResumeSteps[1] = "state" /\ ResumeSteps[2] = "resume" /\ ResumeSteps[3] = "clear_dfsr"
          /\ ResumeSteps[4] = "run" /\ ResumeSteps[5] = "flush"
      BY DEF ResumeSteps
    <2> HIDE DEF long, last
    <2>4. /\ ResumeSteps \o last \in Seq(Steps) /\ Len(ResumeSteps \o last) = 6
          /\ \A i \in 1 .. 6 : (ResumeSteps \o last)[i] = IF i <= 5 THEN ResumeSteps[i] ELSE last[i - 5]
      <3>1. /\ ResumeSteps \o last \in Seq(Steps) /\ Len(ResumeSteps \o last) = Len(ResumeSteps) + Len(last)
            /\ \A i \in 1 .. Len(ResumeSteps) + Len(last) :
                   (ResumeSteps \o last)[i] = IF i <= Len(ResumeSteps) THEN ResumeSteps[i] ELSE last[i - Len(ResumeSteps)]
        BY <2>1, ResumeLists, ConcatProperties
      <3>2. Len(ResumeSteps) + Len(last) = 6
        BY <2>1, <2>3
      <3> QED
        BY <2>3, <3>1, <3>2
    <2>5. \A i \in 1 .. 6 : (ResumeSteps \o last)[i] = long[i]
      <3>1. \A i \in 1 .. 6 : i \in {1, 2, 3, 4, 5, 6}
        OBVIOUS
      <3> QED
        BY <2>1, <2>2, <2>3, <2>4, <3>1
    <2> QED
      BY <2>1, <2>4, <2>5, SeqEqual
  <1>2. \A t \in {<< "resume", "clear_dfsr", "run", "flush" >>, << "resume", "clear_dfsr", "run", "flush", "debug_off" >>} :
            t # << >> /\ Head(t) = "resume" /\ Lacks(Tail(t), {"resume"})
    BY DEF Lacks
  <1>3. /\ ResumeSteps # << >> /\ Head(ResumeSteps) = "state" /\ Tail(ResumeSteps) = << "resume", "clear_dfsr", "run", "flush" >>
        /\ Lacks(ResumeSteps, {"state_again"}) /\ Len(ResumeSteps) = 5 /\ ResumeSteps[2] = "resume"
        /\ ResumeSteps[1] \notin HotSteps /\ ResumeSteps[2] \notin HotSteps
    BY DEF ResumeSteps, Lacks, HotSteps
  <1>4. /\ long # << >> /\ Head(long) = "state" /\ Tail(long) = << "resume", "clear_dfsr", "run", "flush", "debug_off" >>
        /\ Lacks(long, {"state_again"}) /\ Len(long) = 6 /\ long[2] = "resume"
        /\ long[1] \notin HotSteps /\ long[2] \notin HotSteps
    BY DEF Lacks, HotSteps
  <1>5. long \in Seq(Steps)
    BY DEF Steps
  <1> HIDE DEF long, last
  <1>6. s \in {ResumeSteps, long}
    BY <1>1 DEF last
  <1>7. /\ s \in Seq(Steps) /\ s # << >> /\ Head(s) = "state" /\ Lacks(s, {"state_again"}) /\ Len(s) \in Nat
        /\ Tail(s) # << >> /\ Head(Tail(s)) = "resume" /\ Lacks(Tail(Tail(s)), {"resume"})
        /\ s[2] = "resume" /\ s[1] \notin HotSteps /\ s[2] \notin HotSteps
    <2>1. Tail(s) # << >> /\ Head(Tail(s)) = "resume" /\ Lacks(Tail(Tail(s)), {"resume"})
      BY <1>2, <1>3, <1>4, <1>6
    <2>2. Len(s) \in Nat
      BY <1>3, <1>4, <1>6
    <2> QED
      BY <1>3, <1>4, <1>5, <1>6, <2>1, <2>2, ResumeLists
  <1>8. Telling(s)
    BY <1>7 DEF Telling, Deciding, Begins
  <1>9. Covered(s)
    <2>1. \A i \in 1 .. Len(s) : s[i] \in HotSteps => 2 \in 1 .. i - 1
      BY <1>7
    <2> QED
      BY <1>7, <2>1 DEF Covered, Counters
  <1> QED
    BY <1>7, <1>8, <1>9

LEMMA DisconnectCovered ==
    ASSUME NEW resume \in BOOLEAN
    PROVE  /\ Shape(DisconnectSteps(resume)) /\ AgainFirst(DisconnectSteps(resume)) /\ Covered(DisconnectSteps(resume))
           /\ Head(DisconnectSteps(resume)) # "resume" /\ Head(DisconnectSteps(resume)) # "state_again"
  <1> DEFINE off == << "debug_blocks_off" >>
             rest == IF resume THEN ResumeSteps \o << "debug_off" >> ELSE << >>
  <1>1. DisconnectSteps(resume) = off \o rest
    BY DEF DisconnectSteps
  <1>2. "debug_blocks_off" \in Steps /\ "debug_blocks_off" \notin HotSteps
    BY DEF Steps, HotSteps
  <1>3. Lacks(<< >>, {"state_again"}) /\ Lacks(<< >>, {"resume"}) /\ << >> \in Seq(Steps) /\ Lacks(<< >>, HotSteps)
    BY LacksEmpty
  <1>4. rest \in Seq(Steps) /\ Covered(rest) /\ Lacks(rest, {"state_again"})
    BY <1>3, ResumeCovered, QuietCovered
  <1>5. ~resume => Lacks(rest, {"resume"})
    BY <1>3
  <1>6. resume => rest # << >> /\ Head(rest) = "state" /\ Telling(rest)
    BY ResumeCovered
  <1> HIDE DEF rest
  <1>7. off \o rest # << >> /\ Head(off \o rest) = "debug_blocks_off" /\ Tail(off \o rest) = rest /\ Covered(off \o rest)
    BY <1>2, <1>4, OneInFront, CoveredFront
  <1>8. AgainFirst(off \o rest)
    BY <1>4, <1>7 DEF AgainFirst
  <1>9. Shape(off \o rest)
    <2>1. CASE resume
      BY <1>6, <1>7, <2>1 DEF Shape, Leaving, Begins
    <2>2. CASE ~resume
      <3>1. Lacks(off \o rest, {"resume"})
        <4>1. "debug_blocks_off" \notin {"resume"}
          OBVIOUS
        <4> QED
          BY <1>2, <1>4, <1>5, <2>2, <4>1, LacksFront
      <3> QED
        BY <3>1 DEF Shape
    <2> QED
      BY <2>1, <2>2
  <1> QED
    BY <1>1, <1>7, <1>8, <1>9

RunCalls == Halt \/ Step \/ Resume \/ Reset \/ ResetAndHalt \/ ResetStopOnReset \/ Disconnect

LEMMA CallsCovered ==
    ASSUME RunCalls
    PROVE  /\ Shape(todo') /\ AgainFirst(todo') /\ Covered(todo')
           /\ todo' # << >> => Head(todo') # "resume" /\ Head(todo') # "state_again"
  <1>1. ASSUME NEW s \in Seq(Steps), Lacks(s, {"resume", "state_again"}), Covered(s), todo' = s
        PROVE  /\ Shape(todo') /\ AgainFirst(todo') /\ Covered(todo')
               /\ todo' # << >> => Head(todo') # "resume" /\ Head(todo') # "state_again"
    BY <1>1, QuietShape
  <1>2. CASE Halt
    <2>1. HaltSteps \in Seq(Steps) /\ Lacks(HaltSteps, {"resume", "state_again"}) /\ Lacks(HaltSteps, HotSteps)
      BY DEF HaltSteps, Steps, Lacks, HotSteps
    <2> QED
      BY <1>1, <1>2, <2>1, QuietCovered DEF Halt, Begin
  <1>3. CASE Step
    <2>1. \A x \in {"look", "look_interrupts_on"} :
              << x >> \in Seq(Steps) /\ Lacks(<< x >>, {"resume", "state_again"}) /\ Lacks(<< x >>, HotSteps)
      BY DEF Steps, Lacks, HotSteps
    <2>2. \E x \in {"look", "look_interrupts_on"} : todo' = << x >>
      BY <1>3 DEF Step, BeginRun, Begin
    <2> QED
      BY <1>1, <2>1, <2>2, QuietCovered
  <1>4. CASE Resume
    <2>1. todo' = ResumeSteps
      BY <1>4 DEF Resume, BeginRun, Begin
    <2>2. AgainFirst(ResumeSteps)
      BY ResumeCovered, LacksTail DEF AgainFirst
    <2> QED
      BY <2>1, <2>2, ResumeCovered DEF Shape
  <1>5. CASE Reset
    BY <1>1, <1>5, ResetCovered DEF Reset, BeginRun, Begin
  <1>6. CASE ResetAndHalt
    <2> DEFINE ends == << "state", "await_catch", "set_thumb", "restore_demcr" >>
    <2>1. PICK type : todo' = (CatchSteps \o ResetSteps(type)) \o ends
      BY <1>6 DEF ResetAndHalt, ResetAndHaltSteps, BeginRun, Begin
    <2>2. ends \in Seq(Steps) /\ Lacks(ends, {"resume", "state_again"})
      BY DEF Steps, Lacks
    <2> HIDE DEF ends
    <2> QED
      BY <1>1, <2>1, <2>2, CatchingCovered
  <1>7. CASE ResetStopOnReset
    <2> DEFINE ends == << "wait_out", "state", "await_halted", "restore_demcr", "write_xpsr" >>
    <2>1. todo' = (CatchSteps \o ResetSteps("SW")) \o ends
      BY <1>7 DEF ResetStopOnReset, ResetStopSteps, BeginRun, Begin
    <2>2. ends \in Seq(Steps) /\ Lacks(ends, {"resume", "state_again"})
      BY DEF Steps, Lacks
    <2> HIDE DEF ends
    <2> QED
      BY <1>1, <2>1, <2>2, CatchingCovered
  <1>8. CASE Disconnect
    BY <1>8, DisconnectCovered DEF Disconnect, BeginRun, Begin
  <1> QED
    BY <1>2, <1>3, <1>4, <1>5, <1>6, <1>7, <1>8 DEF RunCalls

-----------------------------------------------------------------------------
(* The calls on the core, and what the cache holds *)

LEMMA RunAloneKinds == ASSUME RunAlone PROVE (todo = << >> /\ RunCalls) \/ CallStep \/ GiveUp \/ Fault \/ Core
  <1>1. CASE RunCalls
    <2>1. todo = << >>
      BY <1>1 DEF RunCalls, Halt, Step, Resume, Reset, ResetAndHalt, ResetStopOnReset, Disconnect, BeginRun, Begin
    <2> QED
      BY <1>1, <2>1
  <1> QED
    BY <1>1 DEF RunAlone, RunCalls

\* The cache is told of a new token, and of an instruction that was stepped.
LEMMA CacheIsTold ==
    ASSUME TypeInv, RunAlone
    PROVE  /\ token' = token + 1 => Blank'
           /\ (token' = token /\ (untold => untold')) \/ token' = token + 1
           /\ Blank => Blank'
  <1>1. UNCHANGED <<cached, synced, poisoned>>
    BY RunAloneSteps DEF cacheVars
  <1>2. synced \in Int /\ token \in Nat /\ synced <= token
    BY DEF TypeInv, CacheOK, Typed, StateOK
  <1>3. token' = token + 1 => Blank'
    BY <1>1, <1>2 DEF Blank
  <1>4. (token' = token /\ (untold => untold')) \/ token' = token + 1
    <2>1. CASE RunCalls
      BY <2>1 DEF RunCalls, Halt, Step, Resume, Reset, ResetAndHalt, ResetStopOnReset, Disconnect, BeginRun, Begin
    <2>2. CASE CallStep
      BY <2>2 DEF CallStep, WriteControl, OtherAccess, Look, AwaitStep, ReadState, ReadStateAgain, ReadDemcr, WriteCatches,
             WriteDemcr, NewToken, DecideResume, RequestReset, ResetRegisters, SetThumb, AwaitOut, AwaitCaught
    <2>3. CASE GiveUp \/ Fault \/ Core
      BY <2>3, CoreKeepsCalls DEF GiveUp, Fault
    <2> QED
      BY <2>1, <2>2, <2>3, RunAloneKinds
  <1>5. Blank /\ token' = token /\ (untold => untold') => Blank'
    BY <1>1 DEF Blank
  <1> QED
    BY <1>3, <1>4, <1>5

LEMMA BlankAnswersNothing == Blank' => SeenRight' /\ AgainRight' /\ Right'
  BY DEF Blank, SeenRight, AgainRight, Right

LEMMA WritesWait ==
    ASSUME TypeInv, RunAlone, Writing(todo) \/ Writing(todo')
    PROVE  Core /\ todo' = todo /\ Writing(todo)
  <1>1. ASSUME Writing(todo) PROVE Core /\ todo' = todo
    BY <1>1, FormHeads, BesideCache, CoreKeepsCalls DEF CacheSteps
  <1>2. ASSUME Writing(todo') PROVE Writing(todo)
    <2>1. todo' # << >> /\ Head(todo') = "write_registers"
      BY <1>2 DEF Writing, Begins
    <2>2. CASE todo \in Seq(Steps)
      <3>1. Typed(Steps)'
        BY <2>2, RunAloneSteps, NextTypes DEF TypeInv, Typed
      <3>2. Head(todo') \in Steps
        BY <2>1, <3>1, HeadTailProperties DEF Typed
      <3> QED
        BY <2>1, <3>2 DEF Steps
    <2>3. CASE AskingFirst(todo)
      <3>1. \/ todo' = todo
            \/ todo' = Tail(todo) /\ Checking(todo')
            \/ todo' = << "state_again" >> \o Tail(todo)
        BY <2>1, <2>3, AskedFirst
      <3>2. Head(todo) # "write_registers" /\ ~Checking(todo')
        BY <2>1, <2>3, FormHeads DEF Checking, Begins
      <3>3. Head(<< "state_again" >> \o Tail(todo)) = "state_again"
        <4>1. "state_again" \in AllSteps /\ todo # << >> /\ todo \in Seq(AllSteps)
          BY <2>3, FormHeads DEF AllSteps, Steps, TypeInv, Typed
        <4> QED
          BY <4>1, OneInFront, LacksTail
      <3> QED
        BY <2>1, <3>1, <3>2, <3>3
    <2>4. CASE Checking(todo) \/ Reading(todo) \/ Storing(todo) \/ Writing(todo)
      <3>1. todo # << >> /\ Head(todo) \in CacheSteps
        BY <2>4, FormHeads DEF CacheSteps
      <3>2. todo' = todo
        BY <3>1, BesideCache, CoreKeepsCalls
      <3> QED
        BY <1>2, <3>2
    <2> QED
      BY <2>2, <2>3, <2>4 DEF TypeInv, Form
  <1> QED
    BY <1>1, <1>2

LEMMA PendingKept == ASSUME TypeInv, Pending, RunAlone PROVE Pending'
  <1>1. UNCHANGED <<cached, arg>>
    BY RunAloneSteps DEF cacheVars
  <1>2. ASSUME Writing(todo') PROVE Writing(todo)
    BY <1>2, WritesWait
  <1>3. Named' = Named /\ FamilyOf(Named)' = FamilyOf(Named) /\ \A r : LastTo(r)' = LastTo(r)
    BY <1>1 DEF Named, FamilyOf, LastTo
  <1> QED
    BY <1>1, <1>2, <1>3 DEF Pending

\* A core that is halted stays as it is, or the cache is told.
LEMMA HaltKept ==
    ASSUME TypeInv, RunAlone, ~Core, core = "halted", Covered(todo)
    PROVE  Blank' \/ (core' = "halted" /\ regs' = regs)
  <1>1. ASSUME todo # << >> PROVE Head(todo) \notin HotSteps
    BY <1>1, CoveredTail DEF TypeInv, Typed
  <1>2. CASE RunCalls
    BY <1>2 DEF RunCalls, Halt, Step, Resume, Reset, ResetAndHalt, ResetStopOnReset, Disconnect, BeginRun, Begin, chip
  <1>3. CASE WriteControl
    <2>1. todo # << >> /\ Head(todo) \in {"halt", "halt_masked", "step", "step_masked"}
      BY <1>1, <1>3 DEF WriteControl, AtOneOf, ControlBits, HotSteps
    <2>2. "HALT" \in ctl' \/ "STEP" \in ctl'
      BY <1>3, <2>1 DEF WriteControl, ControlBits
    <2>3. CASE "STEP" \in ctl'
      <3>1. untold'
        BY <1>3, <2>3 DEF WriteControl
      <3> QED
        BY <3>1 DEF Blank
    <2>4. CASE "HALT" \in ctl'
      BY <1>3, <2>4 DEF WriteControl
    <2> QED
      BY <2>2, <2>3, <2>4
  <1>4. CASE OtherAccess \/ Look \/ AwaitStep \/ ReadState \/ ReadStateAgain \/ ReadDemcr \/ WriteCatches
    BY <1>4 DEF OtherAccess, Look, AwaitStep, ReadState, ReadStateAgain, ReadDemcr, WriteCatches, WriteDemcr, chip
  <1>5. CASE NewToken \/ DecideResume \/ AwaitOut \/ AwaitCaught \/ GiveUp
    BY <1>5 DEF NewToken, DecideResume, AwaitOut, AwaitCaught, GiveUp, chip
  <1>6. CASE RequestReset \/ ResetRegisters \/ SetThumb
    BY <1>1, <1>6 DEF RequestReset, ResetRegisters, SetThumb, At, AtOneOf, HotSteps
  <1>7. CASE Fault
    BY <1>1, <1>7 DEF Fault, At, HotSteps, chip
  <1> QED
    BY <1>2, <1>3, <1>4, <1>5, <1>6, <1>7, RunAloneKinds DEF CallStep

LEMMA RightKept == ASSUME CacheInv, RunAlone, ~Blank PROVE Right'
  <1>1. UNCHANGED <<cached, synced, poisoned, arg>> /\ TypeInv /\ Covered(todo)
    BY RunAloneSteps DEF cacheVars, CacheInv
  <1>2. Named' = Named
    BY <1>1 DEF Named
  <1>3. \A r \in DOMAIN cached \ poisoned : (Writing(todo) /\ r \in Named) \/ Fits(r)
    BY DEF CacheInv, Right, Blank
  <1>4. PICK held \in DOMAIN cached \ poisoned : TRUE
    BY DEF Blank
  <1>5. CASE Core
    <2>1. core # "halted" /\ todo' = todo
      BY <1>5, CoreKeepsCalls DEF Core, Halts, Execute, Wake, ResetEnds
    <2>2. \A r \in DOMAIN cached \ poisoned : Writing(todo) /\ r \in Named
      BY <1>3, <2>1 DEF Fits
    <2> QED
      BY <1>1, <1>2, <2>1, <2>2 DEF Right
  <1>6. CASE ~Core
    <2>1. ~Writing(todo)
      BY <1>1, <1>6, WritesWait
    <2>2. core = "halted" /\ \A r \in DOMAIN cached \ poisoned : cached[r] = Value(r)
      BY <1>3, <1>4, <2>1 DEF Fits
    <2>3. CASE core' = "halted" /\ regs' = regs
      <3>1. \A r : Value(r)' = Value(r)
        BY <2>3 DEF Value
      <3> QED
        BY <1>1, <2>2, <2>3, <3>1 DEF Right, Fits
    <2> QED
      BY <1>1, <1>6, <2>2, <2>3, HaltKept, BlankAnswersNothing
  <1> QED
    BY <1>5, <1>6

\* The look at the state tells a call to resume that the core is halted.
LEMMA SeenKept ==
    ASSUME CacheInv, RunAlone, ~Blank, ~Blank'
    PROVE  SeenRight' /\ AgainRight'
  <1>1. /\ TypeInv /\ Shape(todo) /\ AgainFirst(todo) /\ Covered(todo) /\ SeenRight /\ AgainRight
        /\ todo \in Seq(AllSteps) /\ todo' \in Seq(AllSteps)
    BY RunTyped DEF CacheInv, TypeInv, Typed
  <1>2. CASE Core
    <2>1. UNCHANGED <<todo, seen>> /\ (sticky = {} => sticky' = {})
      BY <1>2, CoreKeepsCalls DEF Core, Halts, Execute, Wake, ResetEnds
    <2> QED
      BY <1>1, <2>1 DEF SeenRight, AgainRight, At
  <1>3. CASE RunCalls
    BY <1>3, CallsCovered DEF SeenRight, AgainRight, At
  <1>4. CASE ~Core /\ (CallStep \/ GiveUp \/ Fault)
    <2>1. todo # << >> /\ Tail(todo) \in Seq(AllSteps)
      BY <1>1, <1>4, Outcomes, LacksTail
    <2>2. core = "halted"
      <3>1. ~Writing(todo)
        BY <1>1, <1>4, WritesWait
      <3>2. PICK held \in DOMAIN cached \ poisoned : TRUE
        BY DEF Blank
      <3> QED
        BY <3>1, <3>2 DEF CacheInv, Right, Blank, Fits
    <2>3. /\ todo' # << >> /\ Head(todo') = "state_again" => todo' = << "state_again" >> \o Tail(todo) /\ ReadState
          /\ todo' # << >> /\ Head(todo') = "resume" => Head(todo) \in {"state", "state_again"} /\ todo' = Tail(todo)
      BY <1>1, <1>4, ShapeKept
    <2>4. Len(todo) \in Nat \ {0} /\ Len(Tail(todo)) = Len(todo) - 1
      BY <1>1, <2>1, HeadTailProperties, LenProperties, EmptySeq
    <2>5. ASSUME At("resume")' PROVE seen' = "halted"
      <3>1. Head(todo) \in {"state", "state_again"} /\ todo' = Tail(todo) /\ todo' # << >>
        BY <2>3, <2>5 DEF At
      <3>2. Len(todo) # 1
        BY <1>1, <2>1, <2>4, <3>1, EmptySeq
      <3>3. CASE ReadState
        BY <2>2, <3>2, <3>3 DEF ReadState
      <3>4. CASE ReadStateAgain
        BY <1>1, <3>2, <3>4 DEF ReadStateAgain, AgainRight
      <3>5. CASE Fault
        <4>1. todo' = << >>
          BY <3>1, <3>5 DEF Fault, At
        <4> QED
          BY <3>1, <4>1
      <3> QED
        BY <1>4, <2>1, <3>1, <3>3, <3>4, <3>5, BesideCache
    <2>6. ASSUME At("state_again")' PROVE Len(todo') = 1 \/ (seen' = "halted" /\ sticky' = {})
      <3>1. todo' = << "state_again" >> \o Tail(todo) /\ ReadState
        BY <2>3, <2>6 DEF At
      <3>2. Len(todo') = Len(todo)
        <4>1. << "state_again" >> \in Seq(AllSteps) /\ Len(<< "state_again" >>) = 1
          BY DEF AllSteps, Steps
        <4>2. Len(<< "state_again" >> \o Tail(todo)) = Len(<< "state_again" >>) + Len(Tail(todo))
          BY <2>1, <4>1, ConcatProperties
        <4> QED
          BY <2>4, <3>1, <4>1, <4>2
      <3> QED
        BY <2>2, <3>1, <3>2 DEF ReadState, Reads
    <2> QED
      BY <2>5, <2>6 DEF SeenRight, AgainRight
  <1> QED
    BY <1>2, <1>3, <1>4, RunAloneKinds

LEMMA ListKept ==
    ASSUME CacheInv, RunAlone
    PROVE  Shape(todo)' /\ AgainFirst(todo)' /\ (Blank \/ Covered(todo))'
  <1>1. /\ TypeInv /\ Shape(todo) /\ AgainFirst(todo) /\ (Blank \/ Covered(todo)) /\ SeenRight
        /\ todo \in Seq(AllSteps) /\ todo' \in Seq(AllSteps)
    BY RunTyped DEF CacheInv, TypeInv, Typed
  <1>2. CASE Core
    BY <1>1, <1>2, CoreKeepsCalls, CacheIsTold
  <1>3. CASE RunCalls
    BY <1>3, CallsCovered
  <1>4. CASE CallStep \/ GiveUp \/ Fault
    <2>1. Shape(todo') /\ AgainFirst(todo')
      BY <1>1, <1>4, ShapeKept
    <2>2. CASE Blank
      BY <1>1, <2>1, <2>2, CacheIsTold
    <2>3. CASE ~Blank /\ Head(todo) \notin Counters
      BY <1>1, <1>4, <2>1, <2>3, CoveredKept
    <2>4. CASE ~Blank /\ Head(todo) \in Counters
      <3>1. todo # << >>
        BY <1>4, Outcomes
      <3>2. token' = token + 1 \/ todo' = << >>
        <4>1. CASE NewToken
          BY <4>1 DEF NewToken
        <4>2. CASE DecideResume
          BY <1>1, <2>4, <4>2 DEF DecideResume, SeenRight
        <4>3. ~NewToken /\ ~DecideResume => FALSE
          <5> SUFFICES ASSUME ~NewToken, ~DecideResume PROVE FALSE
            OBVIOUS
          <5> USE <2>4 DEF Counters, At, AtOneOf
          <5>1. ~WriteControl /\ ~Look /\ ~AwaitStep /\ ~ReadState /\ ~ReadStateAgain /\ ~ReadDemcr /\ ~WriteCatches
            BY DEF WriteControl, ControlBits, Look, AwaitStep, ReadState, ReadStateAgain, ReadDemcr, WriteCatches, WriteDemcr
          <5>2. ~OtherAccess
            <6>1. \A s \in ToSet(IdentifySteps) : s \in {"read_cpuid", "read_cpacr", "enable_fpu", "test_fpu", "restore_cpacr"}
              BY DEF ToSet, IdentifySteps
            <6> QED
              BY <6>1 DEF OtherAccess
          <5>3. ~RequestReset /\ ~ResetRegisters /\ ~SetThumb /\ ~AwaitOut /\ ~AwaitCaught /\ ~GiveUp /\ ~Fault
            BY DEF RequestReset, ResetRegisters, SetThumb, AwaitOut, AwaitCaught, GiveUp, Fault, Local
          <5> QED
            BY <1>4, <5>1, <5>2, <5>3 DEF CallStep
        <4> QED
          BY <4>1, <4>2, <4>3
      <3>3. CASE token' = token + 1
        BY <1>1, <2>1, <3>3, CacheIsTold
      <3>4. CASE todo' = << >>
        <4>1. Covered(<< >>)
          BY LacksEmpty, QuietCovered
        <4> QED
          BY <2>1, <3>4, <4>1
      <3> QED
        BY <3>2, <3>3, <3>4
    <2> QED
      BY <2>2, <2>3, <2>4
  <1> QED
    BY <1>2, <1>3, <1>4, RunAloneKinds

LEMMA RunKeeps == ASSUME CacheInv, RunAlone PROVE CacheInv'
  <1>1. TypeInv /\ Pending
    BY DEF CacheInv
  <1>2. TypeInv' /\ Pending' /\ Shape(todo)' /\ AgainFirst(todo)' /\ (Blank \/ Covered(todo))'
    BY <1>1, RunTyped, PendingKept, ListKept
  <1>3. SeenRight' /\ AgainRight' /\ Right'
    <2>1. CASE Blank'
      BY <2>1, BlankAnswersNothing
    <2>2. CASE ~Blank'
      <3>1. ~Blank
        BY <1>1, <2>2, CacheIsTold
      <3> QED
        BY <2>2, <3>1, SeenKept, RightKept
    <2> QED
      BY <2>1, <2>2
  <1> QED
    BY <1>2, <1>3 DEF CacheInv

-----------------------------------------------------------------------------
(* The calls through the cache, and what it holds *)

LEMMA CachedQuiet ==
    ASSUME NEW s \in Seq(AllSteps), AskingFirst(s) \/ Checking(s) \/ Reading(s) \/ Storing(s) \/ Writing(s)
    PROVE  /\ Shape(s) /\ AgainFirst(s) /\ Covered(s)
           /\ s # << >> /\ Head(s) # "resume" /\ (Head(s) = "state_again" => AskingFirst(s))
  <1>1. /\ "write_registers" \notin Loud /\ "store" \notin Loud /\ "read_registers" \notin Loud /\ "check" \notin Loud
        /\ "state" \notin HotSteps \cup {"resume"} /\ "state_again" \notin HotSteps \cup {"resume"}
    BY DEF Loud, HotSteps
  <1>2. ASSUME NEW t \in Seq(AllSteps), Writing(t) PROVE Lacks(t, Loud)
    <2>1. t # << >> /\ Head(t) \notin Loud /\ Tail(t) = << >>
      BY <1>1, <1>2 DEF Writing, Begins
    <2>2. Lacks(Tail(t), Loud)
      BY <2>1, LacksEmpty
    <2> QED
      BY <2>1, <2>2, LacksByTail
  <1>3. ASSUME NEW t \in Seq(AllSteps), Reading(t) PROVE Lacks(t, Loud)
    <2>1. t # << >> /\ Head(t) \notin Loud /\ Tail(t) = << >>
      BY <1>1, <1>3 DEF Reading, Begins
    <2>2. Lacks(Tail(t), Loud)
      BY <2>1, LacksEmpty
    <2> QED
      BY <2>1, <2>2, LacksByTail
  <1>4. ASSUME NEW t \in Seq(AllSteps), Storing(t) PROVE Lacks(t, Loud)
    <2>1. t # << >> /\ Head(t) \notin Loud /\ Writing(Tail(t))
      BY <1>1, <1>4 DEF Storing, Begins
    <2>2. Tail(t) \in Seq(AllSteps)
      BY <2>1, LacksTail
    <2>3. Lacks(Tail(t), Loud)
      BY <1>2, <2>1, <2>2
    <2> QED
      BY <2>1, <2>3, LacksByTail
  <1>5. ASSUME NEW t \in Seq(AllSteps), Checking(t) PROVE Lacks(t, Loud)
    <2>1. t # << >> /\ Head(t) \notin Loud /\ (Storing(Tail(t)) \/ Reading(Tail(t)))
      BY <1>1, <1>5 DEF Checking, Begins
    <2>2. Tail(t) \in Seq(AllSteps)
      BY <2>1, LacksTail
    <2>3. Lacks(Tail(t), Loud)
      BY <1>3, <1>4, <2>1, <2>2
    <2> QED
      BY <2>1, <2>3, LacksByTail
  <1>6. CASE AskingFirst(s)
    <2>1. s # << >> /\ Head(s) \in {"state", "state_again"} /\ Checking(Tail(s))
      BY <1>6 DEF AskingFirst, Begins
    <2>2. Tail(s) \in Seq(AllSteps)
      BY <2>1, LacksTail
    <2>3. Lacks(Tail(s), Loud)
      BY <1>5, <2>1, <2>2
    <2>4. Lacks(Tail(s), HotSteps \cup {"resume"}) /\ Lacks(Tail(s), {"state_again"})
      BY <2>3 DEF Lacks, Loud
    <2>5. Head(s) \notin HotSteps \cup {"resume"}
      BY <1>1, <2>1
    <2>6. Lacks(s, HotSteps \cup {"resume"})
      BY <2>1, <2>4, <2>5, LacksByTail
    <2>7. Lacks(s, HotSteps) /\ Lacks(s, {"resume"})
      BY <2>6 DEF Lacks
    <2> QED
      BY <1>6, <2>1, <2>4, <2>7, QuietCovered DEF Shape, AgainFirst
  <1>7. CASE Checking(s) \/ Reading(s) \/ Storing(s) \/ Writing(s)
    <2>1. Lacks(s, Loud) /\ s # << >>
      BY <1>2, <1>3, <1>4, <1>5, <1>7 DEF Checking, Reading, Storing, Writing, Begins
    <2>2. Lacks(s, HotSteps) /\ Lacks(s, {"resume", "state_again"})
      BY <2>1 DEF Lacks, Loud
    <2> QED
      BY <2>1, <2>2, QuietCovered, QuietShape
  <1> QED
    BY <1>6, <1>7

LEMMA CacheCallKeeps == ASSUME CacheInv, CacheCall PROVE CacheInv'
  <1>1. /\ TypeInv' /\ AskingFirst(todo') /\ todo' \in Seq(AllSteps)
        /\ todo = << >> /\ UNCHANGED <<seen, saved, token, chip, untold, cached, synced, poisoned>>
    BY CacheCalled DEF CacheInv, TypeInv, Typed
  <1>2. /\ Shape(todo') /\ AgainFirst(todo') /\ Covered(todo') /\ Head(todo') # "resume"
    BY <1>1, CachedQuiet
  <1>3. Head(todo') # "state_again"
    <2> DEFINE asking == << "state", "check" >>
    <2>1. \E steps \in {<< "read_registers" >>, << "store", "write_registers" >>} : todo' = asking \o steps
      BY DEF CacheCall, ReadRegisters, WriteRegisters, Cached, Begin
    <2>2. asking \in Seq(AllSteps) /\ Lacks(asking, {"state_again"})
      BY DEF AllSteps, Steps, CacheSteps, Lacks
    <2>3. /\ << "read_registers" >> \in Seq(AllSteps) /\ Lacks(<< "read_registers" >>, {"state_again"})
          /\ << "store", "write_registers" >> \in Seq(AllSteps) /\ Lacks(<< "store", "write_registers" >>, {"state_again"})
      BY DEF AllSteps, CacheSteps, Lacks
    <2> HIDE DEF asking
    <2>4. Lacks(todo', {"state_again"})
      <3>1. /\ Lacks(asking \o << "read_registers" >>, {"state_again"})
            /\ Lacks(asking \o << "store", "write_registers" >>, {"state_again"})
        BY <2>2, <2>3, LacksConcat
      <3> QED
        BY <2>1, <3>1
    <2>5. todo' # << >>
      BY <1>1, CachedQuiet
    <2> QED
      BY <1>1, <2>4, <2>5, LacksTail
  <1>4. ~Writing(todo) /\ ~Writing(todo')
    BY <1>1 DEF AskingFirst, Writing, Begins
  <1>5. Right'
    <2>1. \A r : Fits(r)' = Fits(r)
      BY <1>1 DEF Fits, Value, chip
    <2> QED
      BY <1>1, <1>4, <2>1 DEF CacheInv, Right
  <1> QED
    BY <1>1, <1>2, <1>3, <1>4, <1>5 DEF CacheInv, SeenRight, AgainRight, At, Pending

\* What is left to show of a step of the cache.
LEMMA CacheStepKeeps ==
    ASSUME TypeInv', todo' = << >> \/ Checking(todo') \/ Reading(todo') \/ Storing(todo') \/ Writing(todo'),
           Right', Pending'
    PROVE  CacheInv'
  <1>1. CASE todo' = << >>
    <2>1. Lacks(<< >>, {"resume", "state_again"}) /\ << >> \in Seq(AllSteps) /\ Lacks(<< >>, HotSteps)
      BY LacksEmpty
    <2> QED
      BY <1>1, <2>1, QuietShape, QuietCovered DEF CacheInv, SeenRight, AgainRight, At
  <1>2. CASE Checking(todo') \/ Reading(todo') \/ Storing(todo') \/ Writing(todo')
    <2>1. todo' \in Seq(AllSteps)
      BY DEF TypeInv, Typed
    <2>2. ~AskingFirst(todo')
      BY <1>2 DEF AskingFirst, Checking, Reading, Storing, Writing, Begins
    <2>3. /\ Shape(todo') /\ AgainFirst(todo') /\ Covered(todo')
          /\ Head(todo') # "resume" /\ Head(todo') # "state_again"
      BY <1>2, <2>1, <2>2, CachedQuiet
    <2> QED
      BY <2>3 DEF CacheInv, SeenRight, AgainRight, At
  <1> QED
    BY <1>1, <1>2

LEMMA CheckKeeps == ASSUME CacheInv, Check PROVE CacheInv'
  <1>1. TypeInv /\ TypeInv'
    BY CheckTypes DEF CacheInv
  <1>2. Checking(todo) /\ todo' = Tail(todo) /\ UNCHANGED <<token, chip, untold, arg>>
    BY <1>1, CacheHeads DEF Check, Done
  <1>3. Storing(todo') \/ Reading(todo')
    BY <1>2, FormHeads
  <1>4. ~Writing(todo) /\ ~Writing(todo')
    BY <1>2, <1>3 DEF Checking, Storing, Reading, Writing, Begins
  <1>5. Right'
    <2>1. CASE cached' = << >>
      BY <2>1 DEF Right
    <2>2. CASE UNCHANGED <<cached, poisoned, synced>>
      <3>1. \A r : Fits(r)' = Fits(r)
        BY <1>2, <2>2 DEF Fits, Value, chip
      <3> QED
        BY <1>2, <1>4, <2>2, <3>1 DEF CacheInv, Right
    <2> QED
      BY <2>1, <2>2 DEF Check
  <1> QED
    BY <1>1, <1>3, <1>4, <1>5, CacheStepKeeps DEF Pending

LEMMA ReadKeeps == ASSUME CacheInv, Read PROVE CacheInv'
  <1>1. TypeInv /\ TypeInv'
    BY ReadTypes DEF CacheInv
  <1>2. Reading(todo) /\ todo' = << >> /\ UNCHANGED <<token, chip, untold, synced, poisoned>>
    <2>1. Reading(todo) /\ (todo' = << >> \/ todo' = Tail(todo))
      BY <1>1, CacheHeads DEF Read, Done, Abort
    <2> QED
      BY <2>1, FormHeads DEF Read
  <1>3. ~Writing(todo) /\ ~Writing(todo')
    BY <1>2 DEF Reading, Writing, Begins
  <1>4. \A r : Value(r)' = Value(r)
    BY <1>2 DEF Value, chip
  <1>5. Right'
    <2>1. CASE cached' = cached
      <3>1. \A r : Fits(r)' = Fits(r)
        BY <1>2, <1>4, <2>1 DEF Fits, chip
      <3> QED
        BY <1>2, <1>3, <2>1, <3>1 DEF CacheInv, Right
    <2>2. CASE cached' # cached
      <3> DEFINE lacking == Named \ DOMAIN cached
                 gained == lacking \cup FamilyOf(lacking)
      <3>1. /\ lacking # {} => core = "halted"
            /\ cached' = [r \in DOMAIN cached \cup gained |-> IF r \in gained THEN Unpack(r) ELSE cached[r]]
        BY <2>2 DEF Read
      <3>2. FamilyOf({}) = {}
        BY DEF FamilyOf
      <3>3. \A r \in gained : lacking # {}
        BY <3>2
      <3> HIDE DEF lacking, gained
      <3>4. ASSUME synced = token, ~untold, NEW r \in DOMAIN cached', r \notin poisoned
            PROVE  core = "halted" /\ cached'[r] = Value(r)
        <4>1. CASE r \in gained
          BY <3>1, <3>3, <4>1 DEF Unpack
        <4>2. CASE r \notin gained
          <5>1. r \in DOMAIN cached \ poisoned /\ cached'[r] = cached[r]
            BY <3>1, <3>4, <4>2
          <5> QED
            BY <1>3, <3>4, <5>1 DEF CacheInv, Right, Fits
        <4> QED
          BY <4>1, <4>2
      <3> QED
        BY <1>2, <1>4, <3>4 DEF Right, Fits, chip
    <2> QED
      BY <2>1, <2>2
  <1> QED
    BY <1>1, <1>2, <1>3, <1>5, CacheStepKeeps DEF Pending

LEMMA StoreKeeps == ASSUME CacheInv, Store PROVE CacheInv'
  <1>1. TypeInv /\ TypeInv'
    BY StoreTypes DEF CacheInv
  <1>2. Storing(todo) /\ todo' = Tail(todo) /\ UNCHANGED <<token, chip, untold, synced, arg>>
    BY <1>1, CacheHeads DEF Store, Done
  <1>3. ~Writing(todo) /\ Writing(todo')
    BY <1>2, FormHeads DEF Storing, Writing, Begins
  <1>4. Named' = Named /\ FamilyOf(Named)' = FamilyOf(Named) /\ \A r : LastTo(r)' = LastTo(r) /\ Value(r)' = Value(r)
    BY <1>2 DEF Named, FamilyOf, LastTo, Value, chip
  <1>5. /\ DOMAIN cached' = (DOMAIN cached \cup Named) \ FamilyOf(Named)
        /\ \A r \in DOMAIN cached' : cached'[r] = IF r \in Named THEN LastTo(r) ELSE cached[r]
        /\ poisoned' = poisoned \ (Named \cup FamilyOf(Named))
    BY DEF Store
  <1>6. Pending'
    BY <1>4, <1>5 DEF Pending
  <1>7. Right'
    <2>1. ASSUME synced = token, ~untold, NEW r \in DOMAIN cached' \ poisoned', r \notin Named
          PROVE  core = "halted" /\ cached'[r] = Value(r)
      <3>1. r \in DOMAIN cached \ poisoned /\ cached'[r] = cached[r]
        BY <1>5, <2>1
      <3> QED
        BY <1>3, <2>1, <3>1 DEF CacheInv, Right, Fits
    <2> QED
      BY <1>2, <1>3, <1>4, <2>1 DEF Right, Fits, chip
  <1> QED
    BY <1>1, <1>3, <1>6, <1>7, CacheStepKeeps

\* A write that is made, and one that fails before or after it was.
LEMMA WriteKeeps ==
    ASSUME CacheInv, At("write_registers"), Write \/ CacheFault
    PROVE  CacheInv'
  <1>1. TypeInv /\ TypeInv' /\ Pending
    BY WriteTypes DEF CacheInv
  <1>2. /\ Writing(todo) /\ arg \in Seq(Writes) /\ todo' = << >> /\ UNCHANGED <<token, core, untold, synced, cached>>
    <2>1. Writing(todo) /\ arg \in Seq(Writes) /\ (todo' = << >> \/ todo' = Tail(todo))
      BY <1>1, CacheHeads DEF Write, CacheFault, Done, Abort
    <2> QED
      BY <2>1, FormHeads DEF Write, CacheFault
  <1>3. /\ regs' = RegistersAfter(arg) \/ regs' = regs
        /\ \/ core = "halted" /\ regs' = RegistersAfter(arg) /\ poisoned' = poisoned
           \/ poisoned' = poisoned \cup (Named \cap DOMAIN cached)
    BY DEF Write, CacheFault
  <1>4. ~Writing(todo')
    BY <1>2 DEF Writing, Begins
  <1>5. Right'
    <2> SUFFICES ASSUME synced = token, ~untold, NEW r \in DOMAIN cached \ poisoned'
                 PROVE  core = "halted" /\ cached[r] = Value(r)'
      BY <1>2 DEF Right, Fits
    <2>1. r \in DOMAIN cached \ poisoned /\ r \in Registers /\ regs \in [Parts -> Bits]
      BY <1>1, <1>3 DEF TypeInv, CacheOK, Typed, StateOK
    <2>2. r \in Named \/ (core = "halted" /\ cached[r] = Value(r))
      BY <2>1 DEF CacheInv, Right, Fits
    <2>3. r \notin FamilyOf(Named) /\ (r \in Named => cached[r] = LastTo(r))
      BY <1>1, <1>2, <2>1 DEF Pending
    <2>4. CASE regs' = RegistersAfter(arg)
      <3>1. IF r \in Named THEN Value(r)' = LastTo(r) ELSE Value(r)' = Value(r)
        BY <1>2, <2>1, <2>3, <2>4, KeptAfter
      <3> QED
        BY <1>3, <2>1, <2>2, <2>3, <3>1
    <2>5. CASE regs' = regs /\ regs # RegistersAfter(arg)
      <3>1. Value(r)' = Value(r)
        BY <2>5 DEF Value
      <3>2. r \notin Named
        BY <1>3, <2>1, <2>5
      <3> QED
        BY <2>2, <3>1, <3>2
    <2> QED
      BY <1>3, <2>4, <2>5
  <1> QED
    BY <1>1, <1>2, <1>4, <1>5, CacheStepKeeps DEF Pending

\* A read that fails.
LEMMA ReadFails == ASSUME CacheInv, At("read_registers"), CacheFault PROVE CacheInv'
  <1>1. TypeInv /\ TypeInv'
    BY WriteTypes DEF CacheInv
  <1>2. Reading(todo) /\ todo' = << >> /\ UNCHANGED <<token, core, untold, synced, cached, poisoned, regs>>
    <2>1. ~At("write_registers")
      BY DEF At
    <2> QED
      BY <1>1, <2>1, CacheHeads DEF CacheFault, Abort
  <1>3. ~Writing(todo) /\ ~Writing(todo')
    BY <1>2 DEF Reading, Writing, Begins
  <1>4. \A r : Fits(r)' = Fits(r)
    BY <1>2 DEF Fits, Value
  <1>5. Right'
    BY <1>2, <1>3, <1>4 DEF CacheInv, Right
  <1> QED
    BY <1>1, <1>2, <1>3, <1>5, CacheStepKeeps DEF Pending

LEMMA NextKeeps == ASSUME CacheInv, [Next]_vars PROVE CacheInv'
  <1>1. CASE RunAlone
    BY <1>1, RunKeeps
  <1>2. CASE CacheCall
    BY <1>2, CacheCallKeeps
  <1>3. CASE CacheStep
    <2>1. Write => At("write_registers")
      BY DEF Write
    <2> QED
      BY <1>3, <2>1, CheckKeeps, ReadKeeps, StoreKeeps, WriteKeeps DEF CacheStep
  <1>4. CASE CacheFault
    <2>1. At("read_registers") \/ At("write_registers")
      BY <1>4 DEF CacheFault, At, AtOneOf
    <2> QED
      BY <1>4, <2>1, WriteKeeps, ReadFails
  <1>5. CASE UNCHANGED vars
    <2>1. TypeInv'
      BY <1>5, UnchangedTypes DEF CacheInv
    <2>2. UNCHANGED <<todo, seen, token, core, sticky, regs, untold, cached, synced, poisoned, arg>>
      BY <1>5 DEF vars, runVars, caller, chip, cacheVars
    <2>3. /\ Shape(todo)' /\ AgainFirst(todo)' /\ (Blank \/ Covered(todo))' /\ SeenRight' /\ AgainRight'
      BY <2>2 DEF CacheInv, Blank, SeenRight, AgainRight, At
    <2>4. Right' /\ Pending'
      BY <2>2 DEF CacheInv, Right, Pending, Fits, Value, Named, FamilyOf, LastTo
    <2> QED
      BY <2>1, <2>3, <2>4 DEF CacheInv
  <1> QED
    BY <1>1, <1>2, <1>3, <1>4, <1>5 DEF Next

LEMMA InitKeeps == ASSUME Init PROVE CacheInv
  <1>1. TypeInv /\ todo = << >> /\ cached = << >>
    BY InitTyped DEF Init, RunInit
  <1>2. Lacks(<< >>, {"resume", "state_again"}) /\ << >> \in Seq(AllSteps) /\ Lacks(<< >>, HotSteps)
    BY LacksEmpty
  <1>3. Shape(todo) /\ AgainFirst(todo) /\ Covered(todo)
    BY <1>1, <1>2, QuietShape, QuietCovered
  <1>4. ~Writing(todo) /\ ~At("resume") /\ ~At("state_again") /\ DOMAIN cached = {}
    BY <1>1 DEF Writing, Begins, At
  <1> QED
    BY <1>1, <1>3, <1>4 DEF CacheInv, SeenRight, AgainRight, Right, Pending

(* Between calls, what the cache would answer for a halted core is what    *)
(* the core holds, through any resumes, steps, resets, breakpoints, writes *)
(* of parts of shared registers and failing accesses, but for the two      *)
(* failures that CacheRight names.                                         *)
THEOREM CacheIsRight == Spec => []CacheRight
  <1>1. Init => CacheInv
    BY InitKeeps
  <1>2. CacheInv /\ [Next]_vars => CacheInv'
    BY NextKeeps
  <1>3. CacheInv => CacheRight
    <2>1. todo = << >> => ~Writing(todo)
      BY DEF Writing, Begins
    <2> QED
      BY <2>1 DEF CacheInv, Right, Fits, CacheRight
  <1> QED
    BY <1>1, <1>2, <1>3, PTL DEF Spec

LEMMA PartsStay ==
    ASSUME TypeInv, [Next]_vars, At("write_registers"), core = "halted", core' = "halted",
           NEW p \in Parts \ UNION {PartsOf(r) : r \in Named}
    PROVE  regs'[p] = regs[p]
  <1>1. Writing(todo) /\ arg \in Seq(Writes)
    BY CacheHeads
  <1>2. RegistersAfter(arg)[p] = regs[p]
    <2>1. \A i \in DOMAIN arg : p \notin PartsOf(arg[i].reg)
      BY DEF Named
    <2>2. PartAfter(arg, p) = regs[p]
      BY <1>1, <2>1, UnnamedKept
    <2> QED
      BY <2>2 DEF RegistersAfter
  <1>3. ~RunAlone
    <2>1. RunAlone => Core
      BY <1>1, WritesWait
    <2> QED
      BY <2>1 DEF Core, Halts, Execute, Wake, ResetEnds
  <1>4. ~CacheCall /\ ~Check /\ ~Read /\ ~Store
    BY DEF CacheCall, ReadRegisters, WriteRegisters, Cached, Begin, Check, Read, Store, At
  <1>5. CASE Write \/ CacheFault
    BY <1>2, <1>5 DEF Write, CacheFault
  <1>6. CASE UNCHANGED vars
    BY <1>6 DEF vars, runVars, chip
  <1> QED
    BY <1>3, <1>4, <1>5, <1>6 DEF Next, CacheStep

(* A write of registers leaves the parts that it does not name as they     *)
(* were, though CONTROL, FAULTMASK and PRIMASK are transferred together,   *)
(* and so are APSR and IPSR.                                               *)
THEOREM PartsAreKept == Spec => PartsKept
  <1>1. Init => TypeInv
    BY InitTyped
  <1>2. TypeInv /\ [Next]_vars => TypeInv'
    BY NextTyped
  <1>3. TypeInv /\ [Next]_vars =>
            [\A p \in Parts \ UNION {PartsOf(r) : r \in Named} :
                At("write_registers") /\ core = "halted" /\ core' = "halted" => regs'[p] = regs[p]]_vars
    BY PartsStay
  <1> QED
    BY <1>1, <1>2, <1>3, PTL DEF Spec, PartsKept

=============================================================================
