-------------------------- MODULE DebugAccessProofs --------------------------
(***************************************************************************)
(* Proofs about register access over a deferred link, for every set of     *)
(* access ports and sizes and any number of calls, refusals and resets:    *)
(* types, that no access reaches another access port or bank, that a fault *)
(* is cleared before anything else is sent, and that data is transferred   *)
(* in the size and at the address asked for.                               *)
(***************************************************************************)
EXTENDS DebugAccess, SequenceTheorems, FiniteSetTheorems, TLAPS

Selects == (APs \X {0, 15}) \cup {NoSelect}

\* The steps of an access, of which every one is handled by somebody; and the
\* steps that make a call by themselves.
AccessSteps == {s \in Steps : s.reg \notin Waits \ {"result"} /\ s.handlers # {}}
Resets == {"reset", "link reset"}
LinkStep(reg) == Step(reg, IF reg = "flush" THEN {"dp"} ELSE {})

\* A call is an access or a single call of the link; during a reset the probe
\* adaptor knows that it does not know SELECT.
Shape ==
    \/ todo \in Seq(AccessSteps)
    \/ \E reg \in Waits \ {"result"} :
           /\ todo = << LinkStep(reg) >>
           /\ reg \in Resets => dpSelect = NoSelect

\* The parts of the type invariant.
CallerOK == call \in Calls /\ calls \in Nat /\ held \subseteq Calls
CachesOK == dpSelect \in Selects /\ csw \in [APs -> Sizes \cup {Unknown}]
LinkOK ==
    /\ queue \in Seq(Accesses)
    /\ linkError \in {"none", "FAULT", "WAIT", "NOACK"}
    /\ reads \in [1 .. MaxCalls -> {"none", "pending", "answered", "lost"}]
TargetOK ==
    /\ hwSelect \in Selects /\ hwCsw \in [APs -> Sizes \cup {Unknown}] /\ hwTar \in [APs -> Nat]
    /\ sticky \in BOOLEAN
BoundsOK == refused \in Nat /\ resets \in Nat
Types == Shape /\ CallerOK /\ CachesOK /\ LinkOK /\ TargetOK /\ BoundsOK

-----------------------------------------------------------------------------
(* Data *)

LEMMA StepTypes ==
    ASSUME NEW reg \in APRegs \cup {"CTRL/STAT", "result"}, NEW handlers \in SUBSET Layers, handlers # {}
    PROVE  Step(reg, handlers) \in AccessSteps /\ Read(reg, handlers) \in AccessSteps
  BY DEF Step, Read, AccessSteps, Steps, Waits, APRegs, Layers

LEMMA LinkStepType ==
    ASSUME NEW reg \in Waits \ {"result"}
    PROVE  LinkStep(reg) \in Steps /\ LinkStep(reg).reg = reg
           /\ "ap" \notin LinkStep(reg).handlers
           /\ (reg = "flush" => LinkStep(reg).handlers # {})
  BY DEF LinkStep, Step, Steps, Layers, Waits

LEMMA SelectType ==
    ASSUME NEW ap \in APs, NEW reg
    PROVE  SelectFor(ap, reg) \in APs \X {0, 15} /\ SelectFor(ap, reg) # NoSelect
  BY AccessAssumption DEF SelectFor, NoSelect, Unknown

LEMMA AccessType ==
    ASSUME CallerOK, NEW reg \in APRegs \cup DPRegs, NEW selectReg
    PROVE  Access(reg, selectReg) \in Accesses
  BY SelectType DEF CallerOK, Calls, Access, Accesses

LEMMA NoCallType == NoCall \in Calls
  BY AccessAssumption DEF NoCall, Calls

LEMMA ShapeType ==
    ASSUME Shape
    PROVE  todo \in Seq(Steps)
<1>1. CASE todo \in Seq(AccessSteps)
  BY <1>1, SeqMonotonic DEF AccessSteps
<1>2. CASE \E reg \in Waits \ {"result"} : todo = << LinkStep(reg) >>
  BY <1>2, LinkStepType
<1>. QED  BY <1>1, <1>2 DEF Shape

\* The next step, and what is left when it is done.
LEMMA NextStep ==
    ASSUME Shape, todo # << >>
    PROVE  /\ Now \in Steps
           /\ Tail(todo) \in Seq(AccessSteps)
           /\ (Now.reg \notin Waits \ {"result"} => Now \in AccessSteps)
           /\ (Now.reg \in Waits \ {"result"} => "ap" \notin Now.handlers)
           /\ (Now.reg \in Resets => dpSelect = NoSelect)
           /\ (Now.handlers = {} => Now.reg \in {"set_clock", "reset", "link reset"})
<1>1. CASE todo \in Seq(AccessSteps)
  <2>1. Now \in AccessSteps /\ Tail(todo) \in Seq(AccessSteps)
    BY <1>1, HeadTailProperties DEF Now
  <2>. QED  BY <2>1 DEF AccessSteps, Resets, Waits
<1>2. ASSUME NEW reg \in Waits \ {"result"}, todo = << LinkStep(reg) >>,
             reg \in Resets => dpSelect = NoSelect
      PROVE  /\ Now = LinkStep(reg) /\ Tail(todo) = << >>
  BY <1>2 DEF Now
<1>3. CASE \E reg \in Waits \ {"result"} :
               todo = << LinkStep(reg) >> /\ (reg \in Resets => dpSelect = NoSelect)
  <2>1. PICK reg \in Waits \ {"result"} :
               todo = << LinkStep(reg) >> /\ (reg \in Resets => dpSelect = NoSelect)
    BY <1>3
  <2>2. Now = LinkStep(reg) /\ Tail(todo) = << >>
    BY <1>2, <2>1
  <2>3. Tail(todo) \in Seq(AccessSteps)
    BY <2>2, EmptySeq
  <2>4. /\ Now \in Steps /\ Now.reg = reg /\ "ap" \notin Now.handlers
        /\ (reg = "flush" => Now.handlers # {})
    BY <2>2, LinkStepType
  <2>. QED  BY <2>1, <2>3, <2>4 DEF Waits
<1>. QED  BY <1>1, <1>3 DEF Shape

\* What DebugPort sends after an error: aborts only, and after a fault that
\* somebody handles at least one, which clears it.
LEMMA RecoveryType ==
    ASSUME CallerOK, NEW step \in Steps, NEW error \in {"FAULT", "WAIT", "NOACK"}
    PROVE  /\ Recovery(step, error) \in Seq(Accesses)
           /\ \A i \in DOMAIN Recovery(step, error) :
                  Recovery(step, error)[i].reg = IF error = "FAULT" THEN "CLEAR" ELSE "DAPABORT"
           /\ (error = "FAULT" /\ step.handlers # {} => Recovery(step, error) # << >>)
<1>. DEFINE abort == Access(IF error = "FAULT" THEN "CLEAR" ELSE "DAPABORT", Now.reg)
            n == Cardinality(step.handlers)
<1>1. n \in Nat /\ (n = 0 => step.handlers = {})
  <2>1. IsFiniteSet(Layers)
    <3>1. IsFiniteSet({"dp"})
      BY FS_Singleton
    <3>2. IsFiniteSet({"dp"} \cup {"ap"})
      BY <3>1, FS_AddElement
    <3>. QED  BY <3>2 DEF Layers
  <2>2. IsFiniteSet(step.handlers)
    BY <2>1, FS_Subset DEF Steps
  <2>. QED  BY <2>2, FS_CardinalityType, FS_EmptySet
<1>2. abort \in Accesses /\ abort.reg = IF error = "FAULT" THEN "CLEAR" ELSE "DAPABORT"
  BY AccessType DEF DPRegs, Access
<1>. HIDE DEF abort, n
<1>3. CASE error = "NOACK"
  BY <1>3 DEF Recovery
<1>4. CASE error # "NOACK"
  <2>1. Recovery(step, error) = [i \in 1 .. n |-> abort]
    BY <1>4 DEF Recovery, abort, n
  <2>2. [i \in 1 .. n |-> abort] \in Seq(Accesses) /\ Len([i \in 1 .. n |-> abort]) = n
    BY <1>1, <1>2
  <2>. QED  BY <1>1, <1>2, <2>1, <2>2
<1>. QED  BY <1>3, <1>4

-----------------------------------------------------------------------------
(* Types *)

LEMMA TypesSuffice == Types => TypeOK
  BY ShapeType DEF Types, TypeOK, CallerOK, CachesOK, LinkOK, TargetOK, BoundsOK, Selects

LEMMA TypesInit == Init => Types
<1>. SUFFICES ASSUME Init PROVE Types
  OBVIOUS
<1>1. Shape
  BY EmptySeq DEF Init, Shape
<1>2. queue \in Seq(Accesses)
  BY EmptySeq DEF Init
<1>. QED  BY <1>1, <1>2, NoCallType
          DEF Init, Types, CallerOK, CachesOK, LinkOK, TargetOK, BoundsOK, Selects

LEMMA BeginTypes ==
    ASSUME Types, NEW ap \in APs, NEW size \in Sizes, NEW steps \in Seq(AccessSteps),
           Begin(ap, size, steps)
    PROVE  Types'
<1>1. Shape'
  BY DEF Begin, Shape
<1>2. CallerOK'
  BY DEF Types, Begin, CallerOK, Calls
<1>3. CachesOK' /\ LinkOK' /\ TargetOK' /\ BoundsOK'
  BY DEF Types, Begin, CachesOK, LinkOK, TargetOK, BoundsOK, caches, link, target, bounds
<1>. QED  BY <1>1, <1>2, <1>3 DEF Types

\* The steps of every call that accesses the target.
Plan(ap, size, steps) ==
    ap \in APs /\ size \in Sizes /\ steps \in Seq(AccessSteps) /\ Begin(ap, size, steps)

LEMMA Plans ==
    /\ \A ap \in APs, size \in Sizes :
           WriteMemory(ap, size) => \E steps : Plan(ap, size, steps)
    /\ \A ap \in APs, size \in Sizes, now \in BOOLEAN :
           ReadMemory(ap, size, now) => \E steps : Plan(ap, size, steps)
    /\ \A ap \in APs : WriteBlock32(ap) \/ ReadBlock32(ap) \/ ReadIDR(ap)
                           => \E steps : Plan(ap, 32, steps)
    /\ ReadDP => \E steps : Plan(NoCall.ap, 32, steps)
<1>1. 32 \in Sizes /\ NoCall.ap \in APs
  BY AccessAssumption, NoCallType DEF Calls
<1>2. \A reg \in APRegs \cup {"CTRL/STAT", "result"}, handlers \in {{"dp"}, {"ap"}, Layers} :
          Step(reg, handlers) \in AccessSteps /\ Read(reg, handlers) \in AccessSteps
  BY StepTypes DEF Layers
<1>3. \A a, b \in AccessSteps : << a >> \in Seq(AccessSteps) /\ << a, b >> \in Seq(AccessSteps)
  OBVIOUS
<1>4. \A a, b, c \in AccessSteps : << a, b, c >> \in Seq(AccessSteps)
  OBVIOUS
<1>5. \A a, b, c, d \in AccessSteps : << a, b, c, d >> \in Seq(AccessSteps)
  OBVIOUS
<1>6. ASSUME NEW ap \in APs, NEW size \in Sizes, WriteMemory(ap, size)
      PROVE  \E steps : Plan(ap, size, steps)
  BY <1>2, <1>4, <1>6 DEF WriteMemory, Plan, APRegs
<1>7. ASSUME NEW ap \in APs, NEW size \in Sizes, NEW now \in BOOLEAN, ReadMemory(ap, size, now)
      PROVE  \E steps : Plan(ap, size, steps)
  <2>. DEFINE access == << Step("CSW", Layers), Step("TAR", Layers), Read("DRW", Layers) >>
              rest == IF now THEN << Step("result", Layers) >> ELSE << >>
  <2>1. access \in Seq(AccessSteps)
    BY <1>2, <1>4 DEF APRegs
  <2>2. rest \in Seq(AccessSteps)
    BY <1>2, <1>3, EmptySeq
  <2>3. access \o rest \in Seq(AccessSteps)
    BY <2>1, <2>2, ConcatProperties
  <2>. QED  BY <1>7, <2>3 DEF ReadMemory, Plan
<1>8. ASSUME NEW ap \in APs, WriteBlock32(ap) \/ ReadBlock32(ap) \/ ReadIDR(ap)
      PROVE  \E steps : Plan(ap, 32, steps)
  <2>1. CASE WriteBlock32(ap)
    BY <1>1, <1>2, <1>4, <2>1 DEF WriteBlock32, Plan, APRegs
  <2>2. CASE ReadBlock32(ap)
    BY <1>1, <1>2, <1>5, <2>2 DEF ReadBlock32, Plan, APRegs
  <2>3. CASE ReadIDR(ap)
    BY <1>1, <1>2, <1>3, <2>3 DEF ReadIDR, Plan, APRegs
  <2>. QED  BY <1>8, <2>1, <2>2, <2>3
<1>9. ASSUME ReadDP
      PROVE  \E steps : Plan(NoCall.ap, 32, steps)
  BY <1>1, <1>2, <1>3, <1>9 DEF ReadDP, Plan
<1>. QED  BY <1>6, <1>7, <1>8, <1>9

\* What a step of the caller may be, the plans of its calls put together.
LEMMA StartCases ==
    ASSUME StartCall
    PROVE  \/ \E ap, size, steps : Plan(ap, size, steps)
           \/ \E c \in held : Callback(c)
           \/ \E reg \in {"flush", "set_clock"} : FlushLink(reg)
           \/ \E reg \in Resets : Reset(reg)
  BY Plans DEF StartCall, Resets

\* Steps that leave the rest of the types alone.
LEMMA OnlyLink ==
    ASSUME Types, UNCHANGED <<caller, caches, bounds>>, LinkOK', TargetOK'
    PROVE  Types'
  BY DEF Types, Shape, CallerOK, CachesOK, BoundsOK, caller, caches, bounds

LEMMA ContinueType ==
    ASSUME Types, todo # << >>, Continue \/ EndCall
    PROVE  todo' \in Seq(AccessSteps) /\ call' \in Calls
<1>1. << >> \in Seq(AccessSteps) /\ Tail(todo) \in Seq(AccessSteps)
  BY EmptySeq, NextStep DEF Types
<1>. QED  BY <1>1, NoCallType DEF Continue, EndCall, Types, CallerOK

LEMMA ReadsType ==
    ASSUME LinkOK, NEW n, NEW state \in {"none", "pending", "answered", "lost"}
    PROVE  [reads EXCEPT ![n] = state] \in [1 .. MaxCalls -> {"none", "pending", "answered", "lost"}]
  BY DEF LinkOK

LEMMA StartTypes ==
    ASSUME Types, StartCall
    PROVE  Types'
<1>1. ASSUME NEW ap, NEW size, NEW steps, Plan(ap, size, steps)
      PROVE  Types'
  BY <1>1, BeginTypes DEF Plan
<1>2. ASSUME NEW c \in held, Callback(c)
      PROVE  Types'
  <2>1. Step("result", Layers) \in AccessSteps
    BY StepTypes DEF Layers
  <2>2. Shape'
    BY <1>2, <2>1 DEF Callback, Shape
  <2>. QED  BY <1>2, <2>2
            DEF Types, Callback, CallerOK, CachesOK, LinkOK, TargetOK, BoundsOK,
                caches, link, target, bounds
<1>3. ASSUME NEW reg \in {"flush", "set_clock"}, FlushLink(reg)
      PROVE  Types'
  <2>1. Shape'
    BY <1>3 DEF FlushLink, Shape, LinkStep, Waits, Resets
  <2>. QED  BY <1>3, <2>1
            DEF Types, FlushLink, CallerOK, CachesOK, LinkOK, TargetOK, BoundsOK,
                caches, link, target, bounds
<1>4. ASSUME NEW reg \in Resets, Reset(reg)
      PROVE  Types'
  <2>1. Shape'
    BY <1>4 DEF Reset, Shape, LinkStep, Waits, Resets
  <2>2. CachesOK'
    BY <1>4 DEF Types, Reset, CachesOK, Selects
  <2>. QED  BY <1>4, <2>1, <2>2
            DEF Types, Reset, CallerOK, LinkOK, TargetOK, BoundsOK, link, target
<1>. QED  BY <1>1, <1>2, <1>3, <1>4, StartCases

LEMMA WriteSelectTypes ==
    ASSUME Types, WriteSelect
    PROVE  Types'
<1>1. Now \in Steps /\ Now.reg \in APRegs /\ todo # << >>
  BY NextStep DEF Types, WriteSelect, InLink, NeedsSelect
<1>2. Shape'
  <2>1. todo \in Seq(AccessSteps)
    <3>1. Now.reg \notin Waits
      BY <1>1 DEF APRegs, Waits
    <3>2. \A reg \in Waits : LinkStep(reg).reg = reg
      BY DEF LinkStep, Step
    <3>. QED  BY <3>1, <3>2 DEF Types, Shape, Now
  <2>. QED  BY <2>1 DEF WriteSelect, caller, Shape
<1>3. dpSelect' \in Selects
  BY SelectType DEF WriteSelect, Types, CallerOK, Calls, Selects
<1>4. queue' \in Seq(Accesses)
  BY AccessType, AppendProperties DEF WriteSelect, Types, LinkOK, DPRegs
<1>. QED  BY <1>2, <1>3, <1>4
          DEF WriteSelect, Types, CallerOK, CachesOK, LinkOK, TargetOK, BoundsOK,
              caller, target, bounds

LEMMA IssueTypes ==
    ASSUME Types, Issue
    PROVE  Types'
<1>1. Now \in Steps /\ Now.reg \in APRegs \cup DPRegs /\ todo # << >>
  BY NextStep DEF Types, Issue, InLink, DPRegs
<1>2. Shape' /\ call' \in Calls
  BY <1>1, ContinueType DEF Issue, Shape
<1>3. queue' \in Seq(Accesses)
  BY <1>1, AccessType, AppendProperties DEF Issue, Types, LinkOK
<1>4. reads' \in [1 .. MaxCalls -> {"none", "pending", "answered", "lost"}]
  BY ReadsType DEF Issue, Types, LinkOK
<1>5. csw' \in [APs -> Sizes \cup {Unknown}]
  BY DEF Issue, Types, CachesOK, CallerOK, Calls
<1>6. held' \subseteq Calls
  BY DEF Issue, Types, CallerOK
<1>. QED  BY <1>2, <1>3, <1>4, <1>5, <1>6
          DEF Issue, Types, CallerOK, CachesOK, LinkOK, TargetOK, BoundsOK, target, bounds

LEMMA RaiseTypes ==
    ASSUME Types, Raise
    PROVE  Types'
<1>1. Now \in Steps /\ todo # << >>
  BY NextStep DEF Types, Raise
<1>2. Shape' /\ call' \in Calls
  BY <1>1, ContinueType DEF Raise, Shape
<1>3. queue' \in Seq(Accesses)
  BY <1>1, RecoveryType DEF Raise, Types, LinkOK
<1>4. reads' \in [1 .. MaxCalls -> {"none", "pending", "answered", "lost"}]
  <2>1. PICK kept : reads' = FailReads(kept)
    BY DEF Raise
  <2>. QED  BY <2>1 DEF FailReads, Types, LinkOK
<1>5. CachesOK'
  <2>1. dpSelect' \in Selects
    BY DEF Raise, SelectAfter, Types, CachesOK, Selects
  <2>2. csw' \in [APs -> Sizes \cup {Unknown}]
    BY DEF Raise, CswAfter, Types, CachesOK
  <2>. QED  BY <2>1, <2>2 DEF CachesOK
<1>. QED  BY <1>2, <1>3, <1>4, <1>5
          DEF Raise, Types, CallerOK, LinkOK, TargetOK, BoundsOK, target, bounds

LEMMA ReturnTypes ==
    ASSUME Types, SkipCsw \/ GetResult \/ ResultLost \/ FlushDone \/ ResetDone
    PROVE  Types'
<1>1. todo # << >> /\ (Continue \/ EndCall)
  BY DEF SkipCsw, InLink, GetResult, ResultLost, FlushDone, ResetDone
<1>2. Shape' /\ call' \in Calls
  BY <1>1, ContinueType DEF Shape
<1>3. LinkOK'
  BY ReadsType DEF SkipCsw, GetResult, ResultLost, FlushDone, ResetDone, Types, LinkOK, link
<1>4. TargetOK'
  <2>1. CASE SkipCsw \/ GetResult \/ ResultLost \/ FlushDone
    BY <2>1 DEF SkipCsw, GetResult, ResultLost, FlushDone, Types, TargetOK, target
  <2>2. CASE ResetDone
    <3>1. CASE UNCHANGED target
      BY <3>1 DEF target, Types, TargetOK
    <3>2. CASE /\ hwSelect' = NoSelect /\ sticky' = FALSE
               /\ hwCsw' = [a \in APs |-> Unknown] /\ hwTar' = [a \in APs |-> 0]
      BY <3>2 DEF TargetOK, Selects
    <3>. QED  BY <2>2, <3>1, <3>2 DEF ResetDone
  <2>. QED  BY <2>1, <2>2
<1>. QED  BY <1>2, <1>3, <1>4
          DEF SkipCsw, GetResult, ResultLost, FlushDone, ResetDone, Types, CallerOK, CachesOK,
              BoundsOK, caches, bounds

LEMMA TargetTypes ==
    ASSUME Types, Target
    PROVE  Types'
<1>1. ASSUME Execute
      PROVE  Types'
  <2>1. Head(queue) \in Accesses /\ Tail(queue) \in Seq(Accesses)
    BY <1>1, HeadTailProperties DEF Execute, Types, LinkOK
  <2>2. LinkOK'
    <3>1. reads' \in [1 .. MaxCalls -> {"none", "pending", "answered", "lost"}]
      BY <1>1 DEF Execute, Types, LinkOK
    <3>. QED  BY <1>1, <2>1, <3>1 DEF Execute, Types, LinkOK
  <2>3. hwSelect' \in Selects
    BY <1>1, <2>1 DEF Execute, Types, TargetOK, Selects, Accesses
  <2>4. hwCsw' \in [APs -> Sizes \cup {Unknown}]
    BY <1>1, <2>1 DEF Execute, Types, TargetOK, Accesses
  <2>5. hwTar' \in [APs -> Nat]
    BY <1>1, <2>1 DEF Execute, Types, TargetOK, Accesses
  <2>6. sticky' \in BOOLEAN
    BY <1>1 DEF Execute
  <2>. QED  BY <1>1, <2>2, <2>3, <2>4, <2>5, <2>6 DEF Execute, Types, Shape, CallerOK,
               CachesOK, TargetOK, BoundsOK, caller, caches, bounds
<1>2. ASSUME NEW error \in {"FAULT", "WAIT", "NOACK"}, Refuse(error)
      PROVE  Types'
  <2>1. queue' \in Seq(Accesses)
    <3>1. PICK n \in 1 .. Len(queue) : queue' = SubSeq(queue, n + 1, Len(queue))
      BY <1>2 DEF Refuse
    <3>. QED  BY <3>1, SubSeqProperties DEF Types, LinkOK
  <2>2. LinkOK' /\ TargetOK' /\ BoundsOK'
    BY <1>2, <2>1 DEF Refuse, Types, LinkOK, TargetOK, BoundsOK
  <2>. QED  BY <1>2, <2>2 DEF Refuse, Types, Shape, CallerOK, CachesOK, caller, caches
<1>. QED  BY <1>1, <1>2 DEF Target

\* Type correctness: the caches and the queue hold what they should, and a call is
\* an access or a single call of the link.
THEOREM TypesInvariant == Spec => []Types
<1>1. Types /\ [Next]_vars => Types'
  <2>. SUFFICES ASSUME Types, [Next]_vars PROVE Types'
    OBVIOUS
  <2>1. CASE StartCall
    BY <2>1, StartTypes
  <2>2. CASE ContinueCall
    BY <2>2, ReturnTypes, WriteSelectTypes, IssueTypes, RaiseTypes DEF ContinueCall
  <2>3. CASE Target
    BY <2>3, TargetTypes
  <2>4. CASE UNCHANGED vars
    BY <2>4 DEF vars, caller, caches, link, target, bounds, Types, Shape, CallerOK, CachesOK,
                LinkOK, TargetOK, BoundsOK
  <2>. QED  BY <2>1, <2>2, <2>3, <2>4 DEF Next
<1>. QED  BY <1>1, TypesInit, PTL DEF Spec

\* The type invariant that the runs check, for every value of the constants.
THEOREM TypeCorrect == Spec => []TypeOK
  BY TypesInvariant, TypesSuffice, PTL

-----------------------------------------------------------------------------
(* Which bank an access in the queue will find selected *)

\* When the target comes to the i-th access of q, v is selected: the last write of
\* SELECT before it wrote v, or there is none and v is selected already.
Settled(q, hw, i, v) ==
    \/ \E j \in 1 .. i - 1 :
           /\ q[j].reg = "SELECT" /\ q[j].select = v
           /\ \A k \in j + 1 .. i - 1 : q[k].reg # "SELECT"
    \/ (\A k \in 1 .. i - 1 : q[k].reg # "SELECT") /\ hw = v

\* Executing the first access changes nothing for the others.
LEMMA SettledTail ==
    ASSUME NEW q \in Seq(Accesses), q # << >>, NEW hw, NEW i \in 1 .. Len(q), NEW v,
           Settled(q, hw, i + 1, v)
    PROVE  Settled(Tail(q), IF Head(q).reg = "SELECT" THEN Head(q).select ELSE hw, i, v)
<1>. DEFINE hw2 == IF Head(q).reg = "SELECT" THEN Head(q).select ELSE hw
<1>1. /\ Len(q) \in Nat /\ Head(q) = q[1]
      /\ \A k \in 1 .. Len(q) - 1 : Tail(q)[k] = q[k + 1]
  BY HeadTailProperties
<1>2. ASSUME NEW j \in 1 .. i, q[j].reg = "SELECT", q[j].select = v,
             \A k \in j + 1 .. i : q[k].reg # "SELECT"
      PROVE  Settled(Tail(q), hw2, i, v)
  <2>1. CASE j = 1
    <3>1. \A k \in 1 .. i - 1 : Tail(q)[k].reg # "SELECT"
      BY <1>1, <1>2, <2>1
    <3>2. hw2 = v
      BY <1>1, <1>2, <2>1
    <3>. QED  BY <3>1, <3>2 DEF Settled
  <2>2. CASE j # 1
    <3>1. j - 1 \in 1 .. i - 1 /\ Tail(q)[j - 1] = q[j]
      BY <1>1, <2>2
    <3>2. \A k \in (j - 1) + 1 .. i - 1 : Tail(q)[k].reg # "SELECT"
      BY <1>1, <1>2, <2>2
    <3>. QED  BY <1>2, <3>1, <3>2 DEF Settled
  <2>. QED  BY <2>1, <2>2
<1>3. ASSUME \A k \in 1 .. i : q[k].reg # "SELECT", hw = v
      PROVE  Settled(Tail(q), hw2, i, v)
  <2>1. \A k \in 1 .. i - 1 : Tail(q)[k].reg # "SELECT"
    BY <1>1, <1>3
  <2>2. hw2 = v
    BY <1>1, <1>3
  <2>. QED  BY <2>1, <2>2 DEF Settled
<1>4. (i + 1) - 1 = i
  OBVIOUS
<1>. QED  BY <1>2, <1>3, <1>4 DEF Settled

\* Nor does a new access at the end change anything for those before it.
LEMMA SettledAppend ==
    ASSUME NEW q \in Seq(Accesses), NEW x \in Accesses, NEW hw, NEW v,
           NEW i \in 1 .. Len(q) + 1, Settled(q, hw, i, v)
    PROVE  Settled(Append(q, x), hw, i, v)
<1>1. Len(q) \in Nat /\ \A k \in 1 .. Len(q) : Append(q, x)[k] = q[k]
  BY AppendProperties
<1>. QED  BY <1>1 DEF Settled

LEMMA SettledNext ==
    ASSUME NEW q \in Seq(Accesses), NEW x \in Accesses, x.reg # "SELECT", NEW hw, NEW v,
           Settled(q, hw, Len(q) + 1, v)
    PROVE  Settled(Append(q, x), hw, Len(q) + 2, v)
<1>1. /\ Len(q) \in Nat /\ \A k \in 1 .. Len(q) : Append(q, x)[k] = q[k]
      /\ Append(q, x)[Len(q) + 1] = x
  BY AppendProperties
<1>. QED  BY <1>1 DEF Settled

LEMMA SettledSelect ==
    ASSUME NEW q \in Seq(Accesses), NEW x \in Accesses, x.reg = "SELECT", NEW hw
    PROVE  Settled(Append(q, x), hw, Len(q) + 2, x.select)
<1>1. Len(q) \in Nat /\ Append(q, x)[Len(q) + 1] = x
  BY AppendProperties
<1>. QED  BY <1>1 DEF Settled

\* The inductive invariant.  While no error waits to be noticed or was noticed
\* where the cache of SELECT is not told, every access in the queue will find its
\* bank selected, and the next one will find what the cache says.
Undisturbed == \A e \in surfaced : e.where \notin {"flush", "set_clock"}
QueueSettled ==
    \A i \in 1 .. Len(queue) :
        queue[i].reg \in APRegs => Settled(queue, hwSelect, i, queue[i].select)
CacheSettled == dpSelect # NoSelect => Settled(queue, hwSelect, Len(queue) + 1, dpSelect)
Selected == Undisturbed /\ linkError = "none" => QueueSettled /\ CacheSettled

\* Clears are queued before anything else, so an unnoticed fault stays sticky.
ClearsFirst ==
    \A i, j \in 1 .. Len(queue) : i < j /\ queue[j].reg = "CLEAR" => queue[i].reg = "CLEAR"
FaultSticky ==
    linkError = "FAULT" => sticky /\ \A i \in 1 .. Len(queue) : queue[i].reg # "CLEAR"
BankInv == Selected /\ ClearsFirst /\ FaultSticky

LEMMA BankInvSuffices == Types /\ BankInv => BankRight
<1>. SUFFICES ASSUME Types, BankInv, NEW reg \in APRegs, Lands(reg), Undisturbed
              PROVE  hwSelect = Head(queue).select
  BY DEF BankRight, Undisturbed
<1>1. linkError = "none"
  BY DEF BankInv, FaultSticky, Lands
<1>2. Len(queue) \in Nat \ {0} /\ Head(queue) = queue[1]
  BY DEF Lands, Types, LinkOK
<1>3. Settled(queue, hwSelect, 1, queue[1].select)
  BY <1>1, <1>2 DEF BankInv, Selected, QueueSettled, Lands
<1>. QED  BY <1>2, <1>3 DEF Settled

LEMMA BankInvInit == Init => BankInv
  BY DEF Init, BankInv, Selected, QueueSettled, CacheSettled, ClearsFirst, FaultSticky

\* Steps that leave the queue, the link's error and the selection alone.
LEMMA SameQueue ==
    ASSUME BankInv, UNCHANGED <<queue, linkError, sticky, hwSelect>>,
           dpSelect' \in {dpSelect, NoSelect}, surfaced \subseteq surfaced'
    PROVE  BankInv'
<1>1. ClearsFirst' /\ FaultSticky'
  BY DEF BankInv, ClearsFirst, FaultSticky
<1>2. Undisturbed' => Undisturbed
  BY DEF Undisturbed
<1>3. Selected'
  BY <1>2 DEF BankInv, Selected, QueueSettled, CacheSettled
<1>. QED  BY <1>1, <1>3 DEF BankInv

\* The link takes an access that is no clear.
LEMMA Enqueued ==
    ASSUME Types, BankInv, NEW x \in Accesses, x.reg # "CLEAR", queue' = Append(queue, x),
           UNCHANGED <<linkError, sticky, hwSelect, surfaced>>,
           CacheSettled /\ x.reg \in APRegs => Settled(queue, hwSelect, Len(queue) + 1, x.select),
           CacheSettled => CacheSettled'
    PROVE  BankInv'
<1>. DEFINE n == Len(queue)
<1>1. /\ queue \in Seq(Accesses) /\ n \in Nat /\ Len(queue') = n + 1
      /\ \A k \in 1 .. n : queue'[k] = queue[k]
      /\ queue'[n + 1] = x
  BY AppendProperties DEF Types, LinkOK
<1>2. ClearsFirst'
  BY <1>1 DEF BankInv, ClearsFirst
<1>3. FaultSticky'
  BY <1>1 DEF BankInv, FaultSticky
<1>4. ASSUME Undisturbed', linkError' = "none"
      PROVE  QueueSettled' /\ CacheSettled'
  <2>1. QueueSettled /\ CacheSettled
    BY <1>4 DEF BankInv, Selected, Undisturbed
  <2>2. ASSUME NEW i \in 1 .. n + 1, queue'[i].reg \in APRegs
        PROVE  Settled(queue', hwSelect, i, queue'[i].select)
    <3>1. Settled(queue, hwSelect, i, queue'[i].select)
      BY <1>1, <2>1, <2>2 DEF QueueSettled
    <3>. QED  BY <1>1, <3>1, SettledAppend
  <2>3. QueueSettled'
    BY <1>1, <2>2 DEF QueueSettled
  <2>. QED  BY <2>1, <2>3
<1>. QED  BY <1>2, <1>3, <1>4 DEF BankInv, Selected

LEMMA WriteSelectBank ==
    ASSUME Types, BankInv, WriteSelect
    PROVE  BankInv'
<1>. DEFINE x == Access("SELECT", Now.reg)
<1>1. x \in Accesses /\ x.reg = "SELECT" /\ x.select = dpSelect' /\ queue' = Append(queue, x)
  BY AccessType DEF WriteSelect, Types, DPRegs, Access
<1>2. queue \in Seq(Accesses) /\ Len(queue') = Len(queue) + 1
  BY <1>1, AppendProperties DEF Types, LinkOK
<1>. HIDE DEF x
<1>3. CacheSettled'
  <2>1. Settled(queue', hwSelect, Len(queue) + 2, dpSelect')
    BY <1>1, <1>2, SettledSelect
  <2>2. hwSelect' = hwSelect /\ Len(queue') + 1 = Len(queue) + 2
    BY <1>2 DEF WriteSelect, target
  <2>. QED  BY <2>1, <2>2 DEF CacheSettled
<1>4. UNCHANGED <<linkError, sticky, hwSelect, surfaced>>
  BY DEF WriteSelect, target
<1>. QED  BY <1>1, <1>3, <1>4, Enqueued DEF APRegs

LEMMA IssueBank ==
    ASSUME Types, BankInv, Issue
    PROVE  BankInv'
<1>. DEFINE x == Access(Now.reg, Now.reg)
<1>1. /\ x \in Accesses /\ x.reg = Now.reg /\ x.select = SelectFor(call.ap, Now.reg)
      /\ queue' = Append(queue, x) /\ x.reg \in APRegs \cup {"CTRL/STAT"}
  BY AccessType DEF Issue, InLink, Types, DPRegs, Access
<1>2. queue \in Seq(Accesses) /\ Len(queue') = Len(queue) + 1
  BY <1>1, AppendProperties DEF Types, LinkOK
<1>3. x.reg \in APRegs => dpSelect = x.select /\ dpSelect # NoSelect
  BY <1>1, SelectType DEF Issue, NeedsSelect, Types, CallerOK, Calls
<1>. HIDE DEF x
<1>4. CacheSettled /\ x.reg \in APRegs => Settled(queue, hwSelect, Len(queue) + 1, x.select)
  BY <1>3 DEF CacheSettled
<1>5. CacheSettled => CacheSettled'
  <2>. SUFFICES ASSUME CacheSettled, dpSelect' # NoSelect
                PROVE  Settled(queue', hwSelect', Len(queue') + 1, dpSelect')
    BY DEF CacheSettled
  <2>1. dpSelect' = dpSelect /\ hwSelect' = hwSelect /\ Len(queue') + 1 = Len(queue) + 2
    BY <1>2 DEF Issue, target
  <2>2. Settled(queue, hwSelect, Len(queue) + 1, dpSelect) /\ x.reg # "SELECT"
    BY <1>1, <2>1 DEF CacheSettled, APRegs
  <2>3. Settled(Append(queue, x), hwSelect, Len(queue) + 2, dpSelect)
    BY <1>1, <1>2, <2>2, SettledNext
  <2>. QED  BY <1>1, <2>1, <2>3
<1>6. UNCHANGED <<linkError, sticky, hwSelect, surfaced>>
  BY DEF Issue, target
<1>. QED  BY <1>1, <1>4, <1>5, <1>6, Enqueued DEF APRegs

\* Where an error comes out, as far as it matters.
LEMMA WhereFrom ==
    ASSUME Types, todo # << >>
    PROVE  /\ Now.reg \in {"flush", "set_clock"} => Where(Now) = Now.reg
           /\ Now.handlers = {} => Where(Now) \in {"set_clock", "reset", "link reset"}
  BY NextStep DEF Types, Where, Waits

LEMMA RaiseBank ==
    ASSUME Types, BankInv, Raise
    PROVE  BankInv'
<1>1. /\ Now \in Steps /\ todo # << >> /\ linkError \in {"FAULT", "WAIT", "NOACK"}
      /\ queue' = Recovery(Now, linkError) /\ linkError' = "none"
  BY NextStep DEF Types, Raise, LinkOK
<1>2. /\ queue' \in Seq(Accesses)
      /\ \A i \in 1 .. Len(queue') :
             queue'[i].reg = IF linkError = "FAULT" THEN "CLEAR" ELSE "DAPABORT"
  BY <1>1, RecoveryType DEF Types
<1>3. ClearsFirst' /\ FaultSticky'
  BY <1>1, <1>2 DEF ClearsFirst, FaultSticky
<1>4. ASSUME Undisturbed'
      PROVE  QueueSettled' /\ CacheSettled'
  <2>1. QueueSettled'
    BY <1>2 DEF QueueSettled, APRegs
  <2>2. Where(Now) \notin {"flush", "set_clock"}
    <3>. DEFINE e == [where |-> Where(Now), ap |-> call.ap, error |-> linkError]
    <3>1. e \in surfaced'
      BY DEF Raise
    <3>2. e.where \notin {"flush", "set_clock"}
      BY <1>4, <3>1 DEF Undisturbed
    <3>. QED  BY <3>2
  <2>3. dpSelect' = NoSelect
    BY <1>1, <2>2, WhereFrom DEF Raise, SelectAfter
  <2>. QED  BY <2>1, <2>3 DEF CacheSettled
<1>. QED  BY <1>3, <1>4 DEF BankInv, Selected

LEMMA ResetDoneBank ==
    ASSUME Types, BankInv, ResetDone
    PROVE  BankInv'
<1>1. /\ queue = << >> /\ queue' = << >> /\ linkError = "none" /\ linkError' = "none"
      /\ dpSelect' = dpSelect
  BY DEF ResetDone, Flushed, link, caches
<1>2. dpSelect = NoSelect
  BY NextStep DEF ResetDone, Types, Resets
<1>. QED  BY <1>1, <1>2
          DEF BankInv, Selected, QueueSettled, CacheSettled, ClearsFirst, FaultSticky

LEMMA ExecuteBank ==
    ASSUME Types, BankInv, Execute
    PROVE  BankInv'
<1>. DEFINE n == Len(queue)
<1>1. /\ queue \in Seq(Accesses) /\ queue # << >> /\ queue' = Tail(queue)
      /\ n \in Nat \ {0} /\ Len(queue') = n - 1
      /\ \A k \in 1 .. n - 1 : queue'[k] = queue[k + 1]
  BY HeadTailProperties DEF Execute, Types, LinkOK
<1>2. /\ hwSelect' = IF Head(queue).reg = "SELECT" THEN Head(queue).select ELSE hwSelect
      /\ sticky' = (sticky /\ Head(queue).reg # "CLEAR") /\ Head(queue) = queue[1]
      /\ UNCHANGED <<linkError, dpSelect, surfaced>>
  BY <1>1 DEF Execute, caches
<1>3. \A i \in 1 .. n - 1 : i + 1 \in 1 .. n
  BY <1>1
<1>4. ClearsFirst'
  <2>. SUFFICES ASSUME NEW i \in 1 .. n - 1, NEW j \in 1 .. n - 1, i < j, queue'[j].reg = "CLEAR"
                PROVE  queue'[i].reg = "CLEAR"
    BY <1>1 DEF ClearsFirst
  <2>1. queue[i + 1].reg = "CLEAR"
    BY <1>1, <1>3 DEF BankInv, ClearsFirst
  <2>. QED  BY <1>1, <2>1
<1>5. FaultSticky'
  <2>. SUFFICES ASSUME linkError = "FAULT"
                PROVE  sticky' /\ \A i \in 1 .. n - 1 : queue'[i].reg # "CLEAR"
    BY <1>1, <1>2 DEF FaultSticky
  <2>1. sticky /\ \A i \in 1 .. n : queue[i].reg # "CLEAR"
    BY DEF BankInv, FaultSticky
  <2>2. 1 \in 1 .. n
    BY <1>1
  <2>. QED  BY <1>1, <1>2, <1>3, <2>1, <2>2
<1>6. ASSUME Undisturbed', linkError' = "none"
      PROVE  QueueSettled' /\ CacheSettled'
  <2>1. QueueSettled /\ CacheSettled
    BY <1>2, <1>6 DEF BankInv, Selected, Undisturbed
  <2>2. ASSUME NEW i \in 1 .. n - 1, queue'[i].reg \in APRegs
        PROVE  Settled(queue', hwSelect', i, queue'[i].select)
    <3>1. i \in 1 .. n /\ i + 1 \in 1 .. n /\ queue'[i] = queue[i + 1]
      BY <1>1
    <3>2. Settled(queue, hwSelect, i + 1, queue[i + 1].select)
      BY <2>1, <2>2, <3>1 DEF QueueSettled
    <3>. QED  BY <1>1, <1>2, <3>1, <3>2, SettledTail
  <2>3. QueueSettled'
    BY <1>1, <2>2 DEF QueueSettled
  <2>4. CacheSettled'
    <3>. SUFFICES ASSUME dpSelect # NoSelect
                  PROVE  Settled(queue', hwSelect', n, dpSelect)
      BY <1>1, <1>2 DEF CacheSettled
    <3>1. Settled(queue, hwSelect, n + 1, dpSelect) /\ n \in 1 .. n
      BY <1>1, <2>1 DEF CacheSettled
    <3>. QED  BY <1>1, <1>2, <3>1, SettledTail
  <2>. QED  BY <2>3, <2>4
<1>. QED  BY <1>4, <1>5, <1>6 DEF BankInv, Selected

LEMMA RefuseBank ==
    ASSUME Types, BankInv, NEW error \in {"FAULT", "WAIT", "NOACK"}, Refuse(error)
    PROVE  BankInv'
<1>1. PICK n \in 1 .. Len(queue) : queue' = SubSeq(queue, n + 1, Len(queue))
  BY DEF Refuse
<1>2. /\ Len(queue) \in Nat \ {0} /\ Head(queue) = queue[1] /\ Len(queue') = Len(queue) - n
      /\ \A k \in 1 .. Len(queue) - n : queue'[k] = queue[n + k]
  <2>1. queue \in Seq(Accesses) /\ queue # << >>
    BY DEF Types, LinkOK, Refuse
  <2>2. Len(queue) \in Nat \ {0} /\ Head(queue) = queue[1] /\ n \in Nat /\ n <= Len(queue)
    BY <2>1
  <2>3. \A i \in n + 1 .. Len(queue) : queue[i] \in Accesses
    BY <2>1, <2>2
  <2>. QED  BY <1>1, <2>2, <2>3, SubSeqProperties
<1>3. \A k \in 1 .. Len(queue') : n + k \in 1 .. Len(queue) /\ queue'[k] = queue[n + k]
  BY <1>2
<1>4. ClearsFirst'
  <2>. SUFFICES ASSUME NEW i \in 1 .. Len(queue'), NEW j \in 1 .. Len(queue'), i < j,
                       queue'[j].reg = "CLEAR"
                PROVE  queue'[i].reg = "CLEAR"
    BY DEF ClearsFirst
  <2>1. queue[n + i].reg = "CLEAR"
    BY <1>3 DEF BankInv, ClearsFirst
  <2>. QED  BY <1>3, <2>1
<1>5. FaultSticky'
  <2>. SUFFICES ASSUME linkError' = "FAULT"
                PROVE  sticky' /\ \A k \in 1 .. Len(queue') : queue'[k].reg # "CLEAR"
    BY DEF FaultSticky
  <2>1. CASE linkError = "none"
    <3>1. error = "FAULT" /\ sticky' /\ queue[1].reg # "CLEAR"
      BY <1>2, <2>1 DEF Refuse, Exempt
    <3>2. \A k \in 1 .. Len(queue) : queue[k].reg # "CLEAR"
      BY <1>2, <3>1 DEF BankInv, ClearsFirst
    <3>. QED  BY <1>3, <3>1, <3>2
  <2>2. CASE linkError # "none"
    <3>1. linkError = "FAULT"
      BY <2>2 DEF Refuse
    <3>. QED  BY <1>3, <3>1 DEF BankInv, FaultSticky, Refuse
  <2>. QED  BY <2>1, <2>2
<1>6. linkError' # "none"
  BY DEF Refuse
<1>. QED  BY <1>4, <1>5, <1>6 DEF BankInv, Selected

LEMMA StartBank ==
    ASSUME BankInv, StartCall
    PROVE  BankInv'
<1>1. /\ UNCHANGED <<queue, linkError, sticky, hwSelect, surfaced>>
      /\ dpSelect' \in {dpSelect, NoSelect}
  BY StartCases DEF Plan, Begin, Callback, FlushLink, Reset, link, target, caches
<1>. QED  BY <1>1, SameQueue

LEMMA ReturnBank ==
    ASSUME BankInv, SkipCsw \/ GetResult \/ ResultLost \/ FlushDone
    PROVE  BankInv'
<1>1. UNCHANGED <<queue, linkError, sticky, hwSelect, surfaced, dpSelect>>
  BY DEF SkipCsw, GetResult, ResultLost, FlushDone, link, target, caches
<1>. QED  BY <1>1, SameQueue

LEMMA BankStep == Types /\ BankInv /\ [Next]_vars => BankInv'
<1>. SUFFICES ASSUME Types, BankInv, [Next]_vars PROVE BankInv'
  OBVIOUS
<1>1. CASE StartCall
  BY <1>1, StartBank
<1>2. CASE ContinueCall
  BY <1>2, ReturnBank, WriteSelectBank, IssueBank, RaiseBank, ResetDoneBank DEF ContinueCall
<1>3. CASE Target
  BY <1>3, ExecuteBank, RefuseBank DEF Target
<1>4. CASE UNCHANGED vars
  BY <1>4, SameQueue DEF vars, caches, link, target
<1>. QED  BY <1>1, <1>2, <1>3, <1>4 DEF Next

\* An access goes to the access port and the bank it was meant for, unless an error
\* came out of flush or set_clock: for every set of access ports and any number of
\* calls and refusals.
THEOREM BanksAreRight == Spec => []BankRight
  BY BankStep, BankInvInit, BankInvSuffices, TypesInvariant, PTL DEF Spec

-----------------------------------------------------------------------------
(* The sticky error *)

Handled == \A e \in surfaced :
               e.error = "FAULT" /\ e.where \notin {"set_clock", "reset", "link reset"}

LEMMA StartClears ==
    ASSUME FaultCleared, StartCall
    PROVE  FaultCleared'
<1>1. UNCHANGED <<queue, linkError, sticky, surfaced>>
  BY StartCases DEF Plan, Begin, Callback, FlushLink, Reset, link, target
<1>. QED  BY <1>1 DEF FaultCleared

LEMMA ReturnClears ==
    ASSUME FaultCleared, SkipCsw \/ GetResult \/ ResultLost \/ FlushDone
    PROVE  FaultCleared'
<1>1. UNCHANGED <<queue, linkError, sticky, surfaced>>
  BY DEF SkipCsw, GetResult, ResultLost, FlushDone, link, target
<1>. QED  BY <1>1 DEF FaultCleared

LEMMA QueueClears ==
    ASSUME Types, FaultCleared, WriteSelect \/ Issue
    PROVE  FaultCleared'
<1>1. UNCHANGED <<linkError, sticky, surfaced>> /\ \E x : queue' = Append(queue, x)
  BY DEF WriteSelect, Issue, target
<1>2. queue # << >> => queue' # << >> /\ Head(queue') = Head(queue)
  BY <1>1, HeadTailAppend DEF Types, LinkOK
<1>. QED  BY <1>1, <1>2 DEF FaultCleared

LEMMA ResetDoneClears ==
    ASSUME FaultCleared, ResetDone
    PROVE  FaultCleared'
<1>1. queue = << >> /\ linkError = "none" /\ surfaced \subseteq surfaced' /\ (sticky' => sticky)
  BY DEF ResetDone, Flushed, target
<1>. QED  BY <1>1 DEF FaultCleared

LEMMA RaiseClears ==
    ASSUME Types, Raise
    PROVE  FaultCleared'
<1>. SUFFICES ASSUME Handled' PROVE queue' # << >> /\ Head(queue').reg = "CLEAR"
  BY DEF FaultCleared, Handled
<1>1. Now \in Steps /\ todo # << >> /\ linkError \in {"FAULT", "WAIT", "NOACK"}
  BY NextStep DEF Types, Raise, LinkOK
<1>2. linkError = "FAULT" /\ Where(Now) \notin {"set_clock", "reset", "link reset"}
  <2>. DEFINE e == [where |-> Where(Now), ap |-> call.ap, error |-> linkError]
  <2>1. e \in surfaced'
    BY DEF Raise
  <2>2. e.error = "FAULT" /\ e.where \notin {"set_clock", "reset", "link reset"}
    BY <2>1 DEF Handled
  <2>. QED  BY <2>2
<1>3. Now.handlers # {}
  BY <1>1, <1>2, WhereFrom
<1>4. /\ queue' \in Seq(Accesses) /\ queue' # << >>
      /\ \A i \in 1 .. Len(queue') : queue'[i].reg = "CLEAR"
  <2>1. queue' = Recovery(Now, "FAULT")
    BY <1>2 DEF Raise
  <2>2. CallerOK /\ "FAULT" \in {"FAULT", "WAIT", "NOACK"}
    BY DEF Types
  <2>3. /\ queue' \in Seq(Accesses) /\ queue' # << >>
        /\ \A i \in DOMAIN queue' : queue'[i].reg = "CLEAR"
    BY <1>1, <1>3, <2>1, <2>2, RecoveryType
  <2>. QED  BY <2>3
<1>. QED  BY <1>4

LEMMA TargetClears ==
    ASSUME FaultCleared, Target
    PROVE  FaultCleared'
<1>1. ASSUME Execute
      PROVE  FaultCleared'
  BY <1>1 DEF Execute, FaultCleared
<1>2. ASSUME NEW error \in {"FAULT", "WAIT", "NOACK"}, Refuse(error)
      PROVE  FaultCleared'
  BY <1>2 DEF Refuse, FaultCleared
<1>. QED  BY <1>1, <1>2 DEF Target

\* After a fault that somebody handles, the clear of the sticky error is the first
\* thing the target is sent.
THEOREM FaultsAreCleared == Spec => []FaultCleared
<1>1. Init => FaultCleared
  BY DEF Init, FaultCleared
<1>2. Types /\ FaultCleared /\ [Next]_vars => FaultCleared'
  <2>. SUFFICES ASSUME Types, FaultCleared, [Next]_vars PROVE FaultCleared'
    OBVIOUS
  <2>1. CASE StartCall
    BY <2>1, StartClears
  <2>2. CASE ContinueCall
    BY <2>2, ReturnClears, QueueClears, RaiseClears, ResetDoneClears DEF ContinueCall
  <2>3. CASE Target
    BY <2>3, TargetClears
  <2>4. CASE UNCHANGED vars
    BY <2>4 DEF vars, link, target, FaultCleared
  <2>. QED  BY <2>1, <2>2, <2>3, <2>4 DEF Next
<1>. QED  BY <1>1, <1>2, TypesInvariant, PTL DEF Spec

-----------------------------------------------------------------------------
(* The size and the address of a transfer *)

\* A write of an access port's CSW or TAR, the value it writes there, and that the
\* register holds v when the target comes to the i-th access of q, if it holds hw now.
Sets(x, reg, ap) == x.reg = reg /\ x.ap = ap
ValueOf(x, reg) == IF reg = "CSW" THEN x.size ELSE x.id
Holds(q, reg, ap, hw, i, v) ==
    \/ \E j \in 1 .. i - 1 :
           /\ Sets(q[j], reg, ap) /\ ValueOf(q[j], reg) = v
           /\ \A k \in j + 1 .. i - 1 : ~Sets(q[k], reg, ap)
    \/ (\A k \in 1 .. i - 1 : ~Sets(q[k], reg, ap)) /\ hw = v

LEMMA HoldsTail ==
    ASSUME NEW q \in Seq(Accesses), q # << >>, NEW reg, NEW ap, NEW hw, NEW i \in 1 .. Len(q),
           NEW v, Holds(q, reg, ap, hw, i + 1, v)
    PROVE  Holds(Tail(q), reg, ap,
                 IF Sets(Head(q), reg, ap) THEN ValueOf(Head(q), reg) ELSE hw, i, v)
<1>. DEFINE S(x) == Sets(x, reg, ap)
            V(x) == ValueOf(x, reg)
            hw2 == IF S(Head(q)) THEN V(Head(q)) ELSE hw
<1>1. /\ Len(q) \in Nat /\ Head(q) = q[1]
      /\ \A k \in 1 .. Len(q) - 1 : Tail(q)[k] = q[k + 1]
  BY HeadTailProperties
<1>2. \/ \E j \in 1 .. i : S(q[j]) /\ V(q[j]) = v /\ \A k \in j + 1 .. i : ~S(q[k])
      \/ (\A k \in 1 .. i : ~S(q[k])) /\ hw = v
  <2>1. (i + 1) - 1 = i
    OBVIOUS
  <2>. QED  BY <2>1 DEF Holds
<1>3. SUFFICES \/ \E j \in 1 .. i - 1 : /\ S(Tail(q)[j]) /\ V(Tail(q)[j]) = v
                                        /\ \A k \in j + 1 .. i - 1 : ~S(Tail(q)[k])
               \/ (\A k \in 1 .. i - 1 : ~S(Tail(q)[k])) /\ hw2 = v
  BY DEF Holds
<1>. HIDE DEF S, V
<1>4. ASSUME NEW j \in 1 .. i, S(q[j]), V(q[j]) = v, \A k \in j + 1 .. i : ~S(q[k]), j # 1
      PROVE  \E m \in 1 .. i - 1 : /\ S(Tail(q)[m]) /\ V(Tail(q)[m]) = v
                                   /\ \A k \in m + 1 .. i - 1 : ~S(Tail(q)[k])
  <2>1. j - 1 \in 1 .. i - 1 /\ Tail(q)[j - 1] = q[j]
    BY <1>1, <1>4
  <2>2. \A k \in (j - 1) + 1 .. i - 1 : ~S(Tail(q)[k])
    BY <1>1, <1>4
  <2>. QED  BY <1>4, <2>1, <2>2
<1>5. ASSUME S(q[1]), V(q[1]) = v, \A k \in 2 .. i : ~S(q[k])
      PROVE  (\A k \in 1 .. i - 1 : ~S(Tail(q)[k])) /\ hw2 = v
  BY <1>1, <1>5
<1>6. ASSUME \A k \in 1 .. i : ~S(q[k]), hw = v
      PROVE  (\A k \in 1 .. i - 1 : ~S(Tail(q)[k])) /\ hw2 = v
  BY <1>1, <1>6
<1>7. 1 + 1 = 2
  OBVIOUS
<1>. HIDE DEF hw2
<1>. QED  BY <1>2, <1>4, <1>5, <1>6, <1>7

LEMMA HoldsAppend ==
    ASSUME NEW q \in Seq(Accesses), NEW x \in Accesses, NEW reg, NEW ap, NEW hw, NEW v,
           NEW i \in 1 .. Len(q) + 1, Holds(q, reg, ap, hw, i, v)
    PROVE  Holds(Append(q, x), reg, ap, hw, i, v)
<1>1. Len(q) \in Nat /\ \A k \in 1 .. Len(q) : Append(q, x)[k] = q[k]
  BY AppendProperties
<1>2. \A k \in 1 .. i - 1 : Append(q, x)[k] = q[k]
  BY <1>1
<1>3. \A j \in 1 .. i - 1 : \A k \in j + 1 .. i - 1 : Append(q, x)[k] = q[k]
  BY <1>1
<1>. QED  BY <1>2, <1>3 DEF Holds

LEMMA HoldsNext ==
    ASSUME NEW q \in Seq(Accesses), NEW x \in Accesses, NEW reg, NEW ap, NEW hw, NEW v,
           ~Sets(x, reg, ap), Holds(q, reg, ap, hw, Len(q) + 1, v)
    PROVE  Holds(Append(q, x), reg, ap, hw, Len(q) + 2, v)
<1>. DEFINE S(y) == Sets(y, reg, ap)
<1>1. /\ Len(q) \in Nat /\ \A k \in 1 .. Len(q) : Append(q, x)[k] = q[k]
      /\ Append(q, x)[Len(q) + 1] = x
  BY AppendProperties
<1>2. (Len(q) + 1) - 1 = Len(q) /\ (Len(q) + 2) - 1 = Len(q) + 1
  BY <1>1
<1>3. ~S(x)
  OBVIOUS
<1>4. CASE (\A k \in 1 .. Len(q) : ~S(q[k])) /\ hw = v
  <2>. HIDE DEF S
  <2>1. \A k \in 1 .. Len(q) + 1 : ~S(Append(q, x)[k])
    BY <1>1, <1>3, <1>4
  <2>. QED  BY <1>2, <1>4, <2>1 DEF Holds, S
<1>5. ASSUME NEW j \in 1 .. Len(q), S(q[j]), ValueOf(q[j], reg) = v,
             \A k \in j + 1 .. Len(q) : ~S(q[k])
      PROVE  Holds(Append(q, x), reg, ap, hw, Len(q) + 2, v)
  <2>. HIDE DEF S
  <2>1. \A k \in j + 1 .. Len(q) + 1 : ~S(Append(q, x)[k])
    BY <1>1, <1>3, <1>5
  <2>2. j \in 1 .. Len(q) + 1 /\ Append(q, x)[j] = q[j]
    BY <1>1
  <2>. QED  BY <1>2, <1>5, <2>1, <2>2 DEF Holds, S
<1>. QED  BY <1>2, <1>4, <1>5 DEF Holds

LEMMA HoldsSet ==
    ASSUME NEW q \in Seq(Accesses), NEW x \in Accesses, NEW reg, NEW ap, NEW hw,
           Sets(x, reg, ap)
    PROVE  Holds(Append(q, x), reg, ap, hw, Len(q) + 2, ValueOf(x, reg))
<1>1. Len(q) \in Nat /\ Append(q, x)[Len(q) + 1] = x
  BY AppendProperties
<1>2. (Len(q) + 2) - 1 = Len(q) + 1 /\ Len(q) + 1 \in 1 .. Len(q) + 1
  BY <1>1
<1>3. \A k \in (Len(q) + 1) + 1 .. Len(q) + 1 : FALSE
  BY <1>1
<1>. QED  BY <1>1, <1>2, <1>3 DEF Holds

\* The inductive invariant.  While no error waits to be noticed, and those noticed came
\* out in an access to memory on the access port in question: every data transfer will
\* find its size and its address, CSW will hold what its cache says, and TAR the address
\* of the call that is about to transfer.
Only(ap) == \A e \in surfaced : e.where = "memory" /\ e.ap = ap
DataSettled(ap) ==
    \A i \in 1 .. Len(queue) : Sets(queue[i], "DRW", ap) =>
        /\ Holds(queue, "CSW", ap, hwCsw[ap], i, queue[i].size)
        /\ Holds(queue, "TAR", ap, hwTar[ap], i, queue[i].id)
CswSettled(ap) ==
    csw[ap] # Unknown => Holds(queue, "CSW", ap, hwCsw[ap], Len(queue) + 1, csw[ap])
TarSettled(ap) ==
    todo # << >> /\ Now.reg = "DRW" /\ call.ap = ap =>
        Holds(queue, "TAR", ap, hwTar[ap], Len(queue) + 1, call.id)
DataRight ==
    linkError = "none" =>
        \A ap \in APs : Only(ap) => DataSettled(ap) /\ CswSettled(ap) /\ TarSettled(ap)

\* An access in the queue was meant for the bank of its own access port and register.
Meant ==
    \A i \in 1 .. Len(queue) :
        queue[i].reg \in APRegs => queue[i].select = SelectFor(queue[i].ap, queue[i].reg)

\* A call that transfers data writes the size, if it is not in place, and the address
\* before it; and a reset starts with no CSW in the cache.
NoMemory(s) == \A i \in 1 .. Len(s) : s[i].reg \notin {"CSW", "TAR", "DRW"}
AtData(s) == s # << >> /\ Head(s).reg = "DRW" /\ NoMemory(Tail(s))
AtAddress(s) == s # << >> /\ Head(s).reg = "TAR" /\ AtData(Tail(s))
AtSize(s) == s # << >> /\ Head(s).reg = "CSW" /\ AtAddress(Tail(s))
Planned ==
    \/ NoMemory(todo) \/ AtSize(todo)
    \/ (AtAddress(todo) \/ AtData(todo)) /\ csw[call.ap] = call.size
Forgotten == todo # << >> /\ Now.reg = "reset" => \A ap \in APs : csw[ap] = Unknown

SizeInv == Meant /\ DataRight /\ Planned /\ Forgotten

LEMMA SizeInvSuffices == Types /\ BankInv /\ SizeInv => SizeRight
<1>. SUFFICES ASSUME Types, BankInv, SizeInv, Lands("DRW"), Only(Head(queue).ap)
              PROVE  hwCsw[Head(queue).ap] = Head(queue).size
                     /\ hwTar[Head(queue).ap] = Head(queue).id
  BY DEF SizeRight, Only
<1>. DEFINE ap == Head(queue).ap
<1>1. linkError = "none"
  BY DEF BankInv, FaultSticky, Lands
<1>2. Len(queue) \in Nat \ {0} /\ Head(queue) = queue[1] /\ queue[1] \in Accesses
  BY DEF Lands, Types, LinkOK
<1>3. ap \in APs /\ Sets(queue[1], "DRW", ap)
  BY <1>2 DEF Lands, Sets, Accesses
<1>4. /\ Holds(queue, "CSW", ap, hwCsw[ap], 1, queue[1].size)
      /\ Holds(queue, "TAR", ap, hwTar[ap], 1, queue[1].id)
  BY <1>1, <1>2, <1>3 DEF SizeInv, DataRight, DataSettled
<1>. QED  BY <1>2, <1>4 DEF Holds

LEMMA SizeInvInit == Init => SizeInv
<1>. SUFFICES ASSUME Init PROVE SizeInv
  OBVIOUS
<1>1. todo = << >> /\ queue = << >> /\ \A ap \in APs : csw[ap] = Unknown
  BY DEF Init
<1>2. Meant /\ DataRight
  BY <1>1 DEF Meant, DataRight, DataSettled, CswSettled, TarSettled
<1>3. Planned /\ Forgotten
  BY <1>1 DEF Planned, NoMemory, Forgotten
<1>. QED  BY <1>2, <1>3 DEF SizeInv

\* The first of a plan's steps, and what is left after it.
LEMMA PlanParts ==
    ASSUME NEW s \in Seq(Steps), s # << >>
    PROVE  /\ Head(s) = s[1] /\ Tail(s) \in Seq(Steps)
           /\ (NoMemory(s) => NoMemory(Tail(s)) /\ Head(s).reg \notin {"CSW", "TAR", "DRW"})
           /\ (NoMemory(Tail(s)) /\ Head(s).reg \notin {"CSW", "TAR", "DRW"} => NoMemory(s))
<1>1. /\ Head(s) = s[1] /\ Tail(s) \in Seq(Steps) /\ Len(s) \in Nat \ {0}
      /\ Len(Tail(s)) = Len(s) - 1
      /\ \A k \in 1 .. Len(s) - 1 : Tail(s)[k] = s[k + 1]
  BY HeadTailProperties
<1>2. 1 \in 1 .. Len(s) /\ \A k \in 1 .. Len(s) - 1 : k + 1 \in 1 .. Len(s)
  BY <1>1
<1>3. \A k \in 1 .. Len(s) : k = 1 \/ (k - 1 \in 1 .. Len(s) - 1 /\ s[k] = Tail(s)[k - 1])
  BY <1>1
<1>. QED  BY <1>1, <1>2, <1>3 DEF NoMemory

LEMMA EmptyPlan == NoMemory(<< >>)
  BY DEF NoMemory

\* What the register about to be accessed says of the plan, and of its rest.
LEMMA PlanRest ==
    ASSUME Types, Planned, todo # << >>
    PROVE  /\ \/ Now.reg = "CSW" /\ AtAddress(Tail(todo))
              \/ Now.reg = "TAR" /\ AtData(Tail(todo)) /\ csw[call.ap] = call.size
              \/ Now.reg = "DRW" /\ NoMemory(Tail(todo)) /\ csw[call.ap] = call.size
              \/ Now.reg \notin {"CSW", "TAR", "DRW"} /\ NoMemory(Tail(todo))
           /\ (NoMemory(Tail(todo)) /\ Tail(todo) # << >> =>
                  Head(Tail(todo)).reg \notin {"CSW", "TAR", "DRW"})
<1>1. todo \in Seq(Steps)
  BY ShapeType DEF Types
<1>2. Tail(todo) \in Seq(Steps)
  BY <1>1, PlanParts
<1>. QED  BY <1>1, <1>2, PlanParts DEF Planned, AtSize, AtAddress, AtData, Now

\* Steps that leave the queue and the target's registers alone.
LEMMA DataUnmoved ==
    ASSUME SizeInv, UNCHANGED <<queue, hwCsw, hwTar>>,
           linkError' = "none" => linkError = "none", surfaced \subseteq surfaced',
           \A ap \in APs : csw'[ap] \in {csw[ap], Unknown},
           todo' # << >> /\ Head(todo').reg = "DRW" =>
               todo # << >> /\ Now.reg = "DRW" /\ call' = call
    PROVE  Meant' /\ DataRight'
<1>1. Meant'
  BY DEF SizeInv, Meant
<1>2. ASSUME linkError' = "none", NEW ap \in APs, Only(ap)'
      PROVE  DataSettled(ap)' /\ CswSettled(ap)' /\ TarSettled(ap)'
  <2>1. Only(ap)
    BY <1>2 DEF Only
  <2>2. DataSettled(ap) /\ CswSettled(ap) /\ TarSettled(ap)
    BY <1>2, <2>1 DEF SizeInv, DataRight
  <2>3. DataSettled(ap)'
    BY <2>2 DEF DataSettled
  <2>4. CswSettled(ap)'
    BY <2>2 DEF CswSettled
  <2>5. TarSettled(ap)'
    BY <2>2 DEF TarSettled, Now
  <2>. QED  BY <2>3, <2>4, <2>5
<1>. QED  BY <1>1, <1>2 DEF DataRight

\* The link takes an access that was meant for its bank: a data transfer when size and
\* address are in place.
LEMMA DataEnqueued ==
    ASSUME Types, SizeInv, NEW x \in Accesses, queue' = Append(queue, x),
           UNCHANGED <<linkError, hwCsw, hwTar, surfaced>>,
           x.reg \in APRegs => x.select = SelectFor(x.ap, x.reg),
           x.reg = "DRW" => /\ csw[x.ap] = x.size
                            /\ todo # << >> /\ Now.reg = "DRW" /\ call.ap = x.ap /\ call.id = x.id,
           \A ap \in APs : csw'[ap] = IF Sets(x, "CSW", ap) THEN x.size ELSE csw[ap],
           todo' # << >> /\ Head(todo').reg = "DRW" =>
               \/ x.reg = "TAR" /\ call'.ap = x.ap /\ call'.id = x.id
               \/ x.reg # "TAR" /\ todo # << >> /\ Now.reg = "DRW" /\ call' = call
    PROVE  Meant' /\ DataRight'
<1>. DEFINE n == Len(queue)
<1>1. /\ queue \in Seq(Accesses) /\ n \in Nat /\ Len(queue') = n + 1
      /\ \A k \in 1 .. n : queue'[k] = queue[k]
      /\ queue'[n + 1] = x
  BY AppendProperties DEF Types, LinkOK
<1>2. Meant'
  BY <1>1 DEF SizeInv, Meant
<1>3. ASSUME linkError' = "none", NEW ap \in APs, Only(ap)'
      PROVE  DataSettled(ap)' /\ CswSettled(ap)' /\ TarSettled(ap)'
  <2>1. DataSettled(ap) /\ CswSettled(ap) /\ TarSettled(ap)
    BY <1>3 DEF SizeInv, DataRight, Only
  <2>2. ASSUME NEW i \in 1 .. n + 1, Sets(queue'[i], "DRW", ap)
        PROVE  /\ Holds(queue', "CSW", ap, hwCsw[ap], i, queue'[i].size)
               /\ Holds(queue', "TAR", ap, hwTar[ap], i, queue'[i].id)
    <3>1. CASE i # n + 1
      <4>1. i \in 1 .. n /\ queue'[i] = queue[i]
        BY <1>1, <3>1
      <4>2. /\ Holds(queue, "CSW", ap, hwCsw[ap], i, queue'[i].size)
            /\ Holds(queue, "TAR", ap, hwTar[ap], i, queue'[i].id)
        BY <2>1, <2>2, <4>1 DEF DataSettled
      <4>. QED  BY <1>1, <4>2, HoldsAppend
    <3>2. CASE i = n + 1
      <4>1. x.reg = "DRW" /\ x.ap = ap
        BY <1>1, <2>2, <3>2 DEF Sets
      <4>2. csw[ap] = x.size /\ csw[ap] # Unknown
        BY <4>1, AccessAssumption DEF Accesses, Unknown
      <4>3. /\ Holds(queue, "CSW", ap, hwCsw[ap], n + 1, x.size)
            /\ Holds(queue, "TAR", ap, hwTar[ap], n + 1, x.id)
        BY <2>1, <4>1, <4>2 DEF CswSettled, TarSettled
      <4>. QED  BY <1>1, <3>2, <4>3, HoldsAppend
    <3>. QED  BY <3>1, <3>2
  <2>3. DataSettled(ap)'
    BY <1>1, <2>2 DEF DataSettled
  <2>4. CswSettled(ap)'
    <3>. SUFFICES ASSUME csw'[ap] # Unknown
                  PROVE  Holds(queue', "CSW", ap, hwCsw[ap], n + 2, csw'[ap])
      BY <1>1 DEF CswSettled
    <3>1. CASE Sets(x, "CSW", ap)
      <4>1. ValueOf(x, "CSW") = csw'[ap]
        BY <3>1 DEF ValueOf
      <4>. QED  BY <1>1, <3>1, <4>1, HoldsSet
    <3>2. CASE ~Sets(x, "CSW", ap)
      <4>1. Holds(queue, "CSW", ap, hwCsw[ap], n + 1, csw'[ap])
        BY <2>1, <3>2 DEF CswSettled
      <4>. QED  BY <1>1, <3>2, <4>1, HoldsNext
    <3>. QED  BY <3>1, <3>2
  <2>5. TarSettled(ap)'
    <3>. SUFFICES ASSUME todo' # << >>, Head(todo').reg = "DRW", call'.ap = ap
                  PROVE  Holds(queue', "TAR", ap, hwTar[ap], n + 2, call'.id)
      BY <1>1 DEF TarSettled, Now
    <3>1. CASE x.reg = "TAR" /\ call'.ap = x.ap /\ call'.id = x.id
      <4>1. Sets(x, "TAR", ap) /\ ValueOf(x, "TAR") = call'.id
        BY <3>1 DEF Sets, ValueOf
      <4>. QED  BY <1>1, <4>1, HoldsSet
    <3>2. CASE x.reg # "TAR" /\ todo # << >> /\ Now.reg = "DRW" /\ call' = call
      <4>1. ~Sets(x, "TAR", ap)
        BY <3>2 DEF Sets
      <4>2. Holds(queue, "TAR", ap, hwTar[ap], n + 1, call'.id)
        BY <2>1, <3>2 DEF TarSettled
      <4>. QED  BY <1>1, <4>1, <4>2, HoldsNext
    <3>. QED  BY <3>1, <3>2
  <2>. QED  BY <2>3, <2>4, <2>5
<1>. QED  BY <1>2, <1>3 DEF DataRight

LEMMA WriteSelectSize ==
    ASSUME Types, SizeInv, WriteSelect
    PROVE  SizeInv'
<1>. DEFINE x == Access("SELECT", Now.reg)
<1>1. x \in Accesses /\ x.reg = "SELECT" /\ queue' = Append(queue, x)
  BY AccessType DEF WriteSelect, Types, DPRegs, Access
<1>2. /\ UNCHANGED <<linkError, hwCsw, hwTar, surfaced, todo, call, csw>>
  BY DEF WriteSelect, target, caller
<1>. HIDE DEF x
<1>3. Meant' /\ DataRight'
  BY <1>1, <1>2, DataEnqueued DEF APRegs, Sets, Now
<1>4. Planned' /\ Forgotten'
  BY <1>2 DEF SizeInv, Planned, Forgotten, Now
<1>. QED  BY <1>3, <1>4 DEF SizeInv

LEMMA NoReset ==
    ASSUME todo' \in Seq(AccessSteps)
    PROVE  Forgotten'
<1>1. todo' # << >> => Head(todo') \in AccessSteps
  OBVIOUS
<1>2. \A s \in AccessSteps : s.reg # "reset"
  <2>1. "reset" \in Waits /\ "reset" # "result"
    BY DEF Waits
  <2>. QED  BY <2>1 DEF AccessSteps
<1>. QED  BY <1>1, <1>2 DEF Forgotten, Now

LEMMA IssueSize ==
    ASSUME Types, SizeInv, Issue
    PROVE  SizeInv'
<1>. DEFINE x == Access(Now.reg, Now.reg)
<1>1. /\ x \in Accesses /\ x.reg = Now.reg /\ x.select = SelectFor(x.ap, x.reg)
      /\ x.ap = call.ap /\ x.size = call.size /\ x.id = call.id /\ queue' = Append(queue, x)
  BY AccessType DEF Issue, InLink, Types, DPRegs, Access
<1>2. /\ UNCHANGED <<linkError, hwCsw, hwTar, surfaced>> /\ todo # << >>
      /\ todo' = Tail(todo) /\ (todo' # << >> => call' = call)
  BY DEF Issue, target, InLink, Continue
<1>3. \A ap \in APs : csw'[ap] = IF Sets(x, "CSW", ap) THEN x.size ELSE csw[ap]
  BY <1>1 DEF Issue, Sets, Types, CachesOK, CallerOK, Calls
<1>. HIDE DEF x
<1>4. /\ \/ Now.reg = "CSW" /\ AtAddress(todo')
         \/ Now.reg = "TAR" /\ AtData(todo') /\ csw[call.ap] = call.size
         \/ Now.reg = "DRW" /\ NoMemory(todo') /\ csw[call.ap] = call.size
         \/ Now.reg \notin {"CSW", "TAR", "DRW"} /\ NoMemory(todo')
      /\ (NoMemory(todo') /\ todo' # << >> => Head(todo').reg # "DRW")
  BY <1>2, PlanRest DEF SizeInv
<1>5. Meant' /\ DataRight'
  <2>1. x.reg = "DRW" => csw[x.ap] = x.size
    BY <1>1, <1>4
  <2>2. todo' # << >> /\ Head(todo').reg = "DRW" => Now.reg = "TAR"
    BY <1>4 DEF AtAddress
  <2>. QED  BY <1>1, <1>2, <1>3, <2>1, <2>2, DataEnqueued
<1>6. Planned'
  <2>1. CASE NoMemory(todo')
    BY <2>1 DEF Planned, NoMemory
  <2>2. CASE ~NoMemory(todo')
    <3>1. todo' # << >> /\ call' = call
      BY <1>2, <2>2, EmptyPlan
    <3>2. csw'[call.ap] = call.size /\ (AtAddress(todo') \/ AtData(todo'))
      BY <1>1, <1>3, <1>4, <2>2 DEF Sets, Types, CallerOK, Calls
    <3>3. csw'[call'.ap] = call'.size
      BY <3>1, <3>2
    <3>. QED  BY <3>2, <3>3 DEF Planned, AtAddress, AtData, NoMemory
  <2>. QED  BY <2>1, <2>2
<1>7. Forgotten'
  <2>1. todo' \in Seq(AccessSteps)
    BY <1>2, ContinueType DEF Issue
  <2>. QED  BY <2>1, NoReset
<1>. QED  BY <1>5, <1>6, <1>7 DEF SizeInv

\* A step that ends the call or goes on in it without an access to memory.
LEMMA PlanGoesOn ==
    ASSUME Types, SizeInv, todo # << >>, Continue \/ EndCall,
           Now.reg \notin {"CSW", "TAR", "DRW"} \/ EndCall
    PROVE  Planned' /\ Forgotten' /\ (todo' # << >> => Head(todo').reg # "DRW")
<1>1. NoMemory(todo') /\ (todo' # << >> => Head(todo').reg # "DRW")
  BY PlanRest, EmptyPlan DEF SizeInv, Continue, EndCall
<1>2. Forgotten'
  BY ContinueType, NoReset
<1>3. Planned'
  BY <1>1 DEF Planned, NoMemory
<1>. QED  BY <1>1, <1>2, <1>3

LEMMA SkipCswSize ==
    ASSUME Types, SizeInv, SkipCsw
    PROVE  SizeInv'
<1>1. /\ todo # << >> /\ Now.reg = "CSW" /\ csw[call.ap] = call.size
      /\ todo' = Tail(todo) /\ (todo' # << >> => call' = call)
      /\ UNCHANGED <<queue, hwCsw, hwTar, linkError, surfaced, csw>>
  BY DEF SkipCsw, InLink, CswCached, Continue, link, target, caches
<1>2. AtAddress(todo')
  BY <1>1, PlanRest DEF SizeInv
<1>3. todo' # << >> /\ Head(todo').reg = "TAR" /\ call' = call
  BY <1>1, <1>2 DEF AtAddress
<1>4. Meant' /\ DataRight'
  BY <1>1, <1>3, DataUnmoved
<1>5. csw'[call'.ap] = call'.size
  BY <1>1, <1>3
<1>6. Planned'
  BY <1>2, <1>5 DEF Planned, AtAddress, AtData, NoMemory
<1>7. Forgotten'
  BY <1>1, ContinueType, NoReset DEF SkipCsw
<1>. QED  BY <1>4, <1>6, <1>7 DEF SizeInv

LEMMA ReturnSize ==
    ASSUME Types, SizeInv, GetResult \/ ResultLost \/ FlushDone
    PROVE  SizeInv'
<1>1. /\ todo # << >> /\ Now.reg \in {"result", "flush", "set_clock"} /\ (Continue \/ EndCall)
      /\ UNCHANGED <<queue, hwCsw, hwTar, linkError, surfaced, csw>>
  BY DEF GetResult, ResultLost, FlushDone, link, target, caches
<1>2. Planned' /\ Forgotten' /\ (todo' # << >> => Head(todo').reg # "DRW")
  BY <1>1, PlanGoesOn
<1>3. Meant' /\ DataRight'
  BY <1>1, <1>2, DataUnmoved
<1>. QED  BY <1>2, <1>3 DEF SizeInv

\* A reset happens with an empty queue: DebugPort's with every cached CSW forgotten, one
\* past it leaves its trace.
LEMMA ResetDoneSize ==
    ASSUME Types, SizeInv, ResetDone
    PROVE  SizeInv'
<1>1. /\ todo # << >> /\ Now.reg \in Resets /\ Continue
      /\ queue' = << >> /\ csw' = csw /\ surfaced \subseteq surfaced'
      /\ (Now.reg # "reset" =>
              \E e \in surfaced' : e.where = Now.reg)
  <2>1. /\ todo # << >> /\ Now.reg \in Resets /\ Continue /\ queue' = << >> /\ csw' = csw
    BY DEF ResetDone, Flushed, link, caches, Resets
  <2>2. CASE Now.reg = "reset"
    BY <2>1, <2>2 DEF ResetDone
  <2>3. CASE Now.reg # "reset"
    <3>. DEFINE e == [where |-> Now.reg, ap |-> call.ap, error |-> "none"]
    <3>1. surfaced' = surfaced \cup {e}
      BY <2>3 DEF ResetDone
    <3>2. e \in surfaced' /\ e.where = Now.reg /\ surfaced \subseteq surfaced'
      BY <3>1
    <3>. QED  BY <2>1, <3>2
  <2>. QED  BY <2>2, <2>3
<1>2. Now.reg \notin {"CSW", "TAR", "DRW"} /\ Now.reg # "memory"
  BY <1>1 DEF Resets
<1>3. Planned' /\ Forgotten' /\ (todo' # << >> => Head(todo').reg # "DRW")
  BY <1>1, <1>2, PlanGoesOn
<1>4. Meant'
  BY <1>1 DEF Meant
<1>5. ASSUME NEW ap \in APs, Only(ap)'
      PROVE  DataSettled(ap)' /\ CswSettled(ap)' /\ TarSettled(ap)'
  <2>1. Now.reg = "reset"
    BY <1>1, <1>2, <1>5 DEF Only
  <2>2. csw'[ap] = Unknown
    BY <1>1, <2>1 DEF SizeInv, Forgotten
  <2>. QED  BY <1>1, <1>3, <2>2 DEF DataSettled, CswSettled, TarSettled, Now
<1>. QED  BY <1>3, <1>4, <1>5 DEF SizeInv, DataRight

\* After an error the link is empty but for aborts, and the access port that had it
\* has forgotten its CSW.
LEMMA RaiseSize ==
    ASSUME Types, SizeInv, Raise
    PROVE  SizeInv'
<1>1. /\ Now \in Steps /\ todo # << >> /\ linkError \in {"FAULT", "WAIT", "NOACK"}
      /\ queue' = Recovery(Now, linkError) /\ EndCall
  BY NextStep DEF Types, Raise, LinkOK
<1>2. /\ queue' \in Seq(Accesses)
      /\ \A i \in 1 .. Len(queue') :
             queue'[i].reg = IF linkError = "FAULT" THEN "CLEAR" ELSE "DAPABORT"
  BY <1>1, RecoveryType DEF Types
<1>3. Meant'
  BY <1>2 DEF Meant, APRegs
<1>4. Planned' /\ Forgotten' /\ todo' = << >>
  BY <1>1, PlanGoesOn DEF EndCall
<1>5. ASSUME NEW ap \in APs, Only(ap)'
      PROVE  DataSettled(ap)' /\ CswSettled(ap)' /\ TarSettled(ap)'
  <2>1. Where(Now) = "memory" /\ call.ap = ap
    <3>. DEFINE e == [where |-> Where(Now), ap |-> call.ap, error |-> linkError]
    <3>1. e \in surfaced'
      BY DEF Raise
    <3>2. e.where = "memory" /\ e.ap = ap
      BY <1>5, <3>1 DEF Only
    <3>. QED  BY <3>2
  <2>2. Now.reg = "CSW" \/ "ap" \in Now.handlers
    BY <2>1 DEF Where, Waits
  <2>3. csw'[ap] = Unknown
    BY <2>1, <2>2 DEF Raise, CswAfter, Types, CachesOK
  <2>4. DataSettled(ap)'
    BY <1>2 DEF DataSettled, Sets
  <2>. QED  BY <1>4, <2>3, <2>4 DEF CswSettled, TarSettled
<1>. QED  BY <1>3, <1>4, <1>5 DEF SizeInv, DataRight

LEMMA Joined ==
    ASSUME NEW a, NEW b, NEW c, NEW d
    PROVE  << a, b, c >> \o << d >> = << a, b, c, d >>
<1>. DEFINE S == {a, b, c, d}
            s == << a, b, c >>
            t == << d >>
            u == << a, b, c, d >>
<1>1. s \in Seq(S) /\ t \in Seq(S) /\ u \in Seq(S) /\ Len(s) = 3 /\ Len(t) = 1 /\ Len(u) = 4
  OBVIOUS
<1>2. Len(s \o t) = 4 /\ s \o t \in Seq(S) /\ \A i \in 1 .. 4 : (s \o t)[i] = u[i]
  BY <1>1, ConcatProperties
<1>. HIDE DEF s, t, u
<1>3. s \o t = u
  BY <1>1, <1>2, SeqEqual
<1>. QED  BY <1>3 DEF s, t, u

\* A call of the caller starts with the whole plan, or transfers no data.
LEMMA FullPlans ==
    ASSUME StartCall, todo = << >>
    PROVE  NoMemory(todo') \/ AtSize(todo')
<1>1. \A s : NoMemory(<< s >>) <=> s.reg \notin {"CSW", "TAR", "DRW"}
  BY DEF NoMemory
<1>2. \A s, t : NoMemory(<< s, t >>) <=> /\ s.reg \notin {"CSW", "TAR", "DRW"}
                                         /\ t.reg \notin {"CSW", "TAR", "DRW"}
  BY DEF NoMemory
<1>3. \A a, b, c : a.reg = "CSW" /\ b.reg = "TAR" /\ c.reg = "DRW" => AtSize(<< a, b, c >>)
  BY DEF AtSize, AtAddress, AtData, NoMemory
<1>4. \A a, b, c, d : a.reg = "CSW" /\ b.reg = "TAR" /\ c.reg = "DRW"
          /\ d.reg \notin {"CSW", "TAR", "DRW"} => AtSize(<< a, b, c, d >>)
  BY DEF AtSize, AtAddress, AtData, NoMemory
<1>5. \A reg, handlers : Step(reg, handlers).reg = reg /\ Read(reg, handlers).reg = reg
  BY DEF Step, Read
<1>6. ASSUME NEW ap \in APs, NEW size \in Sizes, WriteMemory(ap, size)
      PROVE  AtSize(todo')
  BY <1>3, <1>5, <1>6 DEF WriteMemory, Begin
<1>7. ASSUME NEW ap \in APs, NEW size \in Sizes, NEW now \in BOOLEAN, ReadMemory(ap, size, now)
      PROVE  AtSize(todo')
  <2>. DEFINE a == Step("CSW", Layers)
              b == Step("TAR", Layers)
              c == Read("DRW", Layers)
              d == Step("result", Layers)
  <2>1. a.reg = "CSW" /\ b.reg = "TAR" /\ c.reg = "DRW" /\ d.reg = "result"
    BY <1>5
  <2>2. todo' = << a, b, c >> \o (IF now THEN << d >> ELSE << >>)
    BY <1>7 DEF ReadMemory, Begin
  <2>. HIDE DEF a, b, c, d
  <2>3. todo' = << a, b, c, d >> \/ todo' = << a, b, c >>
    <3>1. CASE now
      <4>1. todo' = << a, b, c >> \o << d >>
        BY <2>2, <3>1
      <4>2. << a, b, c >> \o << d >> = << a, b, c, d >>
        BY Joined
      <4>. QED  BY <4>1, <4>2
    <3>2. CASE ~now
      BY <2>2, <3>2
    <3>. QED  BY <3>1, <3>2
  <2>. QED  BY <1>3, <1>4, <2>1, <2>3
<1>8. ASSUME NEW ap \in APs, WriteBlock32(ap) \/ ReadBlock32(ap)
      PROVE  AtSize(todo')
  BY <1>3, <1>4, <1>5, <1>8 DEF WriteBlock32, ReadBlock32, Begin
<1>9. ASSUME NEW ap \in APs, ReadIDR(ap)
      PROVE  NoMemory(todo')
  BY <1>2, <1>5, <1>9 DEF ReadIDR, Begin
<1>10. ASSUME ReadDP
       PROVE  NoMemory(todo')
  BY <1>2, <1>5, <1>10 DEF ReadDP, Begin
<1>11. ASSUME NEW c \in held, Callback(c)
       PROVE  NoMemory(todo')
  BY <1>1, <1>5, <1>11 DEF Callback
<1>12. ASSUME NEW reg \in {"flush", "set_clock"}, FlushLink(reg)
       PROVE  NoMemory(todo')
  BY <1>1, <1>5, <1>12 DEF FlushLink
<1>13. ASSUME NEW reg \in {"reset", "link reset"}, Reset(reg)
       PROVE  NoMemory(todo')
  <2>1. reg \notin {"CSW", "TAR", "DRW"}
    OBVIOUS
  <2>. QED  BY <1>1, <1>5, <1>13, <2>1 DEF Reset
<1>. QED  BY <1>6, <1>7, <1>8, <1>9, <1>10, <1>11, <1>12, <1>13 DEF StartCall

LEMMA StartSize ==
    ASSUME Types, SizeInv, StartCall
    PROVE  SizeInv'
<1>1. todo = << >>
  BY StartCases DEF Plan, Begin, Callback, FlushLink, Reset
<1>2. NoMemory(todo') \/ AtSize(todo')
  BY <1>1, FullPlans
<1>3. Planned'
  BY <1>2 DEF Planned, NoMemory, AtSize, AtAddress, AtData
<1>4. todo' \in Seq(Steps)
  <2>1. Shape'
    BY StartTypes DEF Types
  <2>2. Seq(AccessSteps) \subseteq Seq(Steps)
    BY SeqMonotonic DEF AccessSteps
  <2>3. \A reg \in Waits \ {"result"} : << LinkStep(reg) >> \in Seq(Steps)
    BY LinkStepType
  <2>. QED  BY <2>1, <2>2, <2>3 DEF Shape
<1>5. todo' # << >> => Head(todo').reg # "DRW"
  BY <1>2, <1>4, PlanParts DEF AtSize
<1>6. /\ UNCHANGED <<queue, hwCsw, hwTar, linkError, surfaced>>
      /\ \A ap \in APs : csw'[ap] \in {csw[ap], Unknown}
  BY StartCases DEF Plan, Begin, Callback, FlushLink, Reset, link, target, caches
<1>7. Meant' /\ DataRight'
  BY <1>5, <1>6, DataUnmoved
<1>8. Forgotten'
  <2>1. ASSUME NEW ap, NEW size, NEW steps, Plan(ap, size, steps)
        PROVE  Forgotten'
    BY <2>1, NoReset DEF Plan, Begin
  <2>2. ASSUME NEW c \in held, Callback(c)
        PROVE  Forgotten'
    BY <2>2 DEF Callback, Step, Forgotten, Now
  <2>3. ASSUME NEW reg \in {"flush", "set_clock"}, FlushLink(reg)
        PROVE  Forgotten'
    BY <2>3 DEF FlushLink, Step, Forgotten, Now
  <2>4. ASSUME NEW reg \in Resets, Reset(reg)
        PROVE  Forgotten'
    <3>1. todo' = << Step(reg, {}) >> /\ (reg = "reset" => csw' = [a \in APs |-> Unknown])
      BY <2>4 DEF Reset
    <3>2. Now' = Step(reg, {}) /\ Step(reg, {}).reg = reg
      BY <3>1 DEF Now, Step
    <3>. QED  BY <3>1, <3>2 DEF Forgotten
  <2>. QED  BY <2>1, <2>2, <2>3, <2>4, StartCases
<1>. QED  BY <1>3, <1>7, <1>8 DEF SizeInv

\* The target takes the first access.  The bank is right, so that it writes the registers
\* of the access port it was meant for.
LEMMA ExecuteSize ==
    ASSUME Types, BankInv, SizeInv, Execute
    PROVE  SizeInv'
<1>. DEFINE n == Len(queue)
            x == Head(queue)
<1>1. /\ queue \in Seq(Accesses) /\ queue # << >> /\ queue' = Tail(queue)
      /\ n \in Nat \ {0} /\ Len(queue') = n - 1 /\ x = queue[1] /\ x \in Accesses
      /\ \A k \in 1 .. n - 1 : queue'[k] = queue[k + 1]
  BY HeadTailProperties DEF Execute, Types, LinkOK
<1>2. \A i \in 1 .. n - 1 : i + 1 \in 1 .. n
  BY <1>1
<1>3. UNCHANGED <<todo, call, csw, linkError, surfaced>>
  BY DEF Execute, caller, caches
<1>4. Planned' /\ Forgotten'
  BY <1>3 DEF SizeInv, Planned, Forgotten, Now
<1>5. Meant'
  BY <1>1, <1>2 DEF SizeInv, Meant
<1>6. ASSUME linkError = "none", NEW ap \in APs, Only(ap)
      PROVE  DataSettled(ap)' /\ CswSettled(ap)' /\ TarSettled(ap)'
  <2>1. DataSettled(ap) /\ CswSettled(ap) /\ TarSettled(ap)
    BY <1>6 DEF SizeInv, DataRight
  <2>2. x.reg \in {"CSW", "TAR"} => (hwSelect = SelectFor(ap, x.reg) <=> ap = x.ap)
    <3>. SUFFICES ASSUME x.reg \in {"CSW", "TAR"}
                  PROVE  hwSelect = SelectFor(ap, x.reg) <=> ap = x.ap
      OBVIOUS
    <3>1. 1 \in 1 .. n /\ x.reg \in APRegs
      BY <1>1 DEF APRegs
    <3>2. Undisturbed
      BY <1>6 DEF Only, Undisturbed
    <3>3. Settled(queue, hwSelect, 1, x.select)
      BY <1>1, <1>6, <3>1, <3>2 DEF BankInv, Selected, QueueSettled
    <3>4. hwSelect = x.select
      BY <3>3 DEF Settled
    <3>5. x.select = SelectFor(x.ap, x.reg)
      BY <1>1, <3>1 DEF SizeInv, Meant
    <3>. QED  BY <3>4, <3>5 DEF SelectFor
  <2>3. /\ hwCsw'[ap] = IF Sets(x, "CSW", ap) THEN ValueOf(x, "CSW") ELSE hwCsw[ap]
        /\ hwTar'[ap] = IF Sets(x, "TAR", ap) THEN ValueOf(x, "TAR") ELSE hwTar[ap]
    BY <2>2 DEF Execute, Sets, ValueOf
  <2>. HIDE DEF x
  <2>4. ASSUME NEW i \in 1 .. n - 1, Sets(queue'[i], "DRW", ap)
        PROVE  /\ Holds(queue', "CSW", ap, hwCsw'[ap], i, queue'[i].size)
               /\ Holds(queue', "TAR", ap, hwTar'[ap], i, queue'[i].id)
    <3>1. i \in 1 .. n /\ i + 1 \in 1 .. n /\ queue'[i] = queue[i + 1]
      BY <1>1
    <3>2. /\ Holds(queue, "CSW", ap, hwCsw[ap], i + 1, queue'[i].size)
          /\ Holds(queue, "TAR", ap, hwTar[ap], i + 1, queue'[i].id)
      BY <2>1, <2>4, <3>1 DEF DataSettled
    <3>. QED  BY <1>1, <2>3, <3>1, <3>2, HoldsTail DEF x
  <2>5. DataSettled(ap)'
    BY <1>1, <2>4 DEF DataSettled
  <2>6. n \in 1 .. n /\ Len(queue') + 1 = n
    BY <1>1
  <2>7. CswSettled(ap)'
    <3>. SUFFICES ASSUME csw[ap] # Unknown
                  PROVE  Holds(queue', "CSW", ap, hwCsw'[ap], n, csw[ap])
      BY <1>3, <2>6 DEF CswSettled
    <3>1. Holds(queue, "CSW", ap, hwCsw[ap], n + 1, csw[ap])
      BY <2>1 DEF CswSettled
    <3>. QED  BY <1>1, <2>3, <2>6, <3>1, HoldsTail DEF x
  <2>8. TarSettled(ap)'
    <3>. SUFFICES ASSUME todo # << >>, Now.reg = "DRW", call.ap = ap
                  PROVE  Holds(queue', "TAR", ap, hwTar'[ap], n, call.id)
      BY <1>3, <2>6 DEF TarSettled, Now
    <3>1. Holds(queue, "TAR", ap, hwTar[ap], n + 1, call.id)
      BY <2>1 DEF TarSettled
    <3>. QED  BY <1>1, <2>3, <2>6, <3>1, HoldsTail DEF x
  <2>. QED  BY <2>5, <2>7, <2>8
<1>7. DataRight'
  BY <1>3, <1>6 DEF DataRight, Only
<1>. QED  BY <1>4, <1>5, <1>7 DEF SizeInv

LEMMA RefuseSize ==
    ASSUME Types, SizeInv, NEW error \in {"FAULT", "WAIT", "NOACK"}, Refuse(error)
    PROVE  SizeInv'
<1>1. PICK n \in 1 .. Len(queue) : queue' = SubSeq(queue, n + 1, Len(queue))
  BY DEF Refuse
<1>2. \A k \in 1 .. Len(queue') : n + k \in 1 .. Len(queue) /\ queue'[k] = queue[n + k]
  <2>1. queue \in Seq(Accesses) /\ Len(queue) \in Nat /\ n \in Nat /\ n <= Len(queue)
    BY DEF Types, LinkOK
  <2>2. \A i \in n + 1 .. Len(queue) : queue[i] \in Accesses
    BY <2>1
  <2>3. /\ Len(queue') = Len(queue) - n
        /\ \A k \in 1 .. Len(queue) - n : queue'[k] = queue[n + k]
    BY <1>1, <2>1, <2>2, SubSeqProperties
  <2>. QED  BY <2>1, <2>3
<1>3. Meant'
  BY <1>2 DEF SizeInv, Meant
<1>4. DataRight'
  BY DEF Refuse, DataRight
<1>5. Planned' /\ Forgotten'
  BY DEF Refuse, caller, caches, SizeInv, Planned, Forgotten, Now
<1>. QED  BY <1>3, <1>4, <1>5 DEF SizeInv

\* Data is transferred in the size and at the address asked for, whatever failed before in
\* an access to memory on the same access port, on any number of access ports.
THEOREM SizesAreRight == Spec => []SizeRight
<1>1. Types /\ BankInv /\ SizeInv /\ [Next]_vars => SizeInv'
  <2>. SUFFICES ASSUME Types, BankInv, SizeInv, [Next]_vars PROVE SizeInv'
    OBVIOUS
  <2>1. CASE StartCall
    BY <2>1, StartSize
  <2>2. CASE ContinueCall
    BY <2>2, SkipCswSize, ReturnSize, WriteSelectSize, IssueSize, RaiseSize, ResetDoneSize
       DEF ContinueCall
  <2>3. CASE Target
    BY <2>3, ExecuteSize, RefuseSize DEF Target
  <2>4. CASE UNCHANGED vars
    <3>1. /\ UNCHANGED <<queue, hwCsw, hwTar, linkError, surfaced, todo, call, csw>>
      BY <2>4 DEF vars, caller, caches, link, target
    <3>2. Meant' /\ DataRight'
      BY <3>1, DataUnmoved DEF Now
    <3>. QED  BY <3>1, <3>2 DEF SizeInv, Planned, Forgotten, Now
  <2>. QED  BY <2>1, <2>2, <2>3, <2>4 DEF Next
<1>2. Types /\ BankInv /\ [Next]_vars => BankInv'
  BY BankStep
<1>. QED  BY <1>1, <1>2, SizeInvInit, SizeInvSuffices, BankInvInit, TypesInvariant, PTL DEF Spec
=============================================================================
