-------------------------- MODULE SchedulerProofs --------------------------
(***************************************************************************)
(* Whatever is registered and removed between two ticks, and whichever     *)
(* tick was refused, a tick runs what is registered then, in order.        *)
(***************************************************************************)
EXTENDS Scheduler, PipelineOrderProofs

(***************************************************************************)
(* The inductive invariant.                                                *)
(***************************************************************************)
TypeInv ==
  /\ systems \in Seq(Definitions) /\ pipeline \in Seq(Nat)
  /\ dirty \in BOOLEAN /\ stop \in BOOLEAN
  /\ phase \in {"idle", "ticking", "between"}
  /\ host \in {"none", "engine_run", "run_project"}
  /\ reply \in {"OK", "EXISTS", "NOT_FOUND", "MEMORY", "ARGUMENT", "CALLBACK"}

\* A pipeline that is not dirty is that of the systems registered now.
PipelineInv == ~dirty => pipeline = RegistrationOrder(systems) /\ ~Cyclic(systems)

\* Nothing is dirtied while a tick is under way, nothing is active between.
TickInv ==
  /\ phase = "ticking" => ~dirty /\ at \in 0 .. Len(pipeline) /\ active \in 0 .. Len(systems)
  /\ phase # "ticking" => at = 0 /\ active = 0

IInv == TypeInv /\ PipelineInv /\ TickInv

-----------------------------------------------------------------------------
LEMMA Lengths ==
  ASSUME TypeInv
  PROVE  Len(systems) \in Nat /\ Len(pipeline) \in Nat
BY DEF TypeInv

\* Nothing registered is no cycle.
LEMMA EmptyRegistry ==
  RegistrationOrder(<<>>) = <<>> /\ ~Cyclic(<<>>)
<1>1. Len(<<>>) = 0 /\ Slots(<<>>) = {}
  BY DEF Slots
<1>2. ~Cyclic(<<>>)
  BY <1>1 DEF Cyclic, IsDeadlocked
<1>3. OrderSteps(<<>>)[0] = <<>>
  BY <1>1, StepsRecur
<1> QED
  BY <1>1, <1>2, <1>3 DEF RegistrationOrder

\* What moves down is what was behind the removed system.
LEMMA WithoutIsRest ==
  ASSUME systems \in Seq(Definitions), NEW i \in Slots(systems)
  PROVE  /\ Without(i) \in Seq(Definitions)
         /\ Without(i) = SubSeq(systems, 1, i - 1) \o SubSeq(systems, i + 1, Len(systems))
<1> DEFINE n == Len(systems)
           left == SubSeq(systems, 1, i - 1)
           right == SubSeq(systems, i + 1, n)
<1>1. n \in Nat /\ i \in 1 .. n
  BY DEF Slots
<1>2. \A k \in 1 .. n : systems[k] \in Definitions
  BY <1>1
<1>3. \A k \in 1 .. n - 1 : Without(i)[k] \in Definitions
  <2> SUFFICES ASSUME NEW k \in 1 .. n - 1 PROVE Without(i)[k] \in Definitions
    OBVIOUS
  <2>1. k \in 1 .. n /\ k + 1 \in 1 .. n
    BY <1>1
  <2> QED
    BY <1>2, <2>1 DEF Without
<1>4. Without(i) \in [1 .. n - 1 -> Definitions] /\ n - 1 \in Nat
  BY <1>1, <1>3 DEF Without
<1>5. Without(i) \in Seq(Definitions) /\ Len(Without(i)) = n - 1
  BY <1>4
<1>6. /\ left \in Seq(Definitions) /\ Len(left) = i - 1
      /\ \A k \in 1 .. i - 1 : left[k] = systems[k]
  BY <1>1
<1>7. /\ right \in Seq(Definitions) /\ Len(right) = n - i
      /\ \A k \in 1 .. n - i : right[k] = systems[i + k]
  BY <1>1
<1> HIDE DEF left, right
<1>8. /\ left \o right \in Seq(Definitions) /\ Len(left \o right) = n - 1
      /\ \A k \in 1 .. n - 1 :
           (left \o right)[k] = IF k <= i - 1 THEN left[k] ELSE right[k - (i - 1)]
  <2>1. /\ left \o right \in Seq(Definitions) /\ Len(left \o right) = Len(left) + Len(right)
        /\ \A k \in 1 .. Len(left) + Len(right) :
             (left \o right)[k] = IF k <= Len(left) THEN left[k] ELSE right[k - Len(left)]
    <3>1. left \in Seq(Definitions) /\ right \in Seq(Definitions)
      BY <1>6, <1>7
    <3> QED
      BY ONLY <3>1, Concatenation
  <2>2. Len(left) = i - 1 /\ Len(left) + Len(right) = n - 1
    <3>1. i - 1 + (n - i) = n - 1
      BY <1>1
    <3> QED
      BY <1>6, <1>7, <3>1
  <2> QED
    BY <2>1, <2>2
<1>9. ASSUME NEW k \in 1 .. n - 1 PROVE Without(i)[k] = (left \o right)[k]
  <2>1. CASE k < i
    <3>1. (left \o right)[k] = systems[k]
      BY <1>1, <1>6, <1>8, <2>1
    <3>2. Without(i)[k] = systems[k]
      BY <2>1 DEF Without
    <3> QED
      BY <3>1, <3>2
  <2>2. CASE ~ (k < i)
    <3>1. k - (i - 1) \in 1 .. n - i /\ i + (k - (i - 1)) = k + 1 /\ ~ (k <= i - 1)
      BY <1>1, <2>2
    <3>2. (left \o right)[k] = systems[k + 1]
      BY <1>7, <1>8, <3>1
    <3>3. Without(i)[k] = systems[k + 1]
      BY <1>1, <2>2 DEF Without
    <3> QED
      BY <3>2, <3>3
  <2> QED
    BY <2>1, <2>2
<1>10. Without(i) = left \o right
  <2> DEFINE both == left \o right
  <2>1. both \in Seq(Definitions) /\ Len(both) = n - 1
    BY <1>8
  <2>2. \A k \in 1 .. n - 1 : Without(i)[k] = both[k]
    BY <1>9
  <2> HIDE DEF both
  <2>3. Without(i) = both
    BY <1>5, <2>1, <2>2
  <2> QED
    BY <2>3 DEF both
<1> QED
  BY <1>5, <1>10 DEF left, right

-----------------------------------------------------------------------------
LEMMA InitIInv == Init => IInv
<1> SUFFICES ASSUME Init PROVE IInv
  OBVIOUS
<1>1. TypeInv
  <2>1. systems \in Seq(Definitions) /\ pipeline \in Seq(Nat)
    BY DEF Init
  <2> QED
    BY <2>1 DEF Init, TypeInv
<1>0. TickInv
  BY DEF Init, TickInv
<1>2. PipelineInv
  BY EmptyRegistry DEF Init, PipelineInv
<1> QED
  BY <1>0, <1>1, <1>2 DEF IInv

LEMMA RegisterIInv ==
  ASSUME IInv, NEW d \in Definitions, Register(d)
  PROVE  IInv'
<1>1. TypeInv'
  <2>1. CASE systems' = Append(systems, d) /\ dirty' = TRUE /\ UNCHANGED pipeline
    <3>1. systems' \in Seq(Definitions)
      BY <2>1 DEF IInv, TypeInv
    <3>2. reply' \in {"OK", "EXISTS", "MEMORY"} /\ UNCHANGED <<phase, host, stop>>
      BY DEF Register, loop
    <3> QED
      BY <2>1, <3>1, <3>2 DEF IInv, TypeInv
  <2>2. CASE UNCHANGED registry
    BY <2>2 DEF IInv, TypeInv, Register, registry, loop
  <2> QED
    BY <2>1, <2>2 DEF Register, Invalidate
<1>2. PipelineInv' /\ TickInv'
  BY DEF IInv, PipelineInv, TickInv, Register, Invalidate, MayChange, registry, loop
<1> QED
  BY <1>1, <1>2 DEF IInv

LEMMA UnregisterIInv ==
  ASSUME IInv, NEW n, Unregister(n)
  PROVE  IInv'
<1>1. CASE Holders(n) = {}
  BY <1>1 DEF IInv, TypeInv, PipelineInv, TickInv, Unregister, registry
<1>2. CASE Holders(n) # {}
  <2>1. PICK i \in Slots(systems) :
          /\ systems' = Without(i) /\ dirty' = TRUE /\ reply' = "OK"
          /\ active' = IF active = i THEN 0 ELSE active
          /\ UNCHANGED <<pipeline, stop, at, phase, host>>
    BY <1>2 DEF Unregister, Holders, Invalidate
  <2>2. systems' \in Seq(Definitions)
    BY <2>1, WithoutIsRest DEF IInv, TypeInv
  <2>3. phase # "ticking"
    BY DEF Unregister, MayChange
  <2> QED
    BY <2>1, <2>2, <2>3 DEF IInv, TypeInv, PipelineInv, TickInv
<1> QED
  BY <1>1, <1>2

LEMMA BeginTickIInv ==
  ASSUME IInv, BeginTick
  PROVE  IInv'
<1>1. pipeline' = RegistrationOrder(systems) /\ ~Cyclic(systems)
  BY DEF BeginTick, IInv, PipelineInv
<1>2. pipeline' \in Seq(Nat)
  <2>1. RegistrationOrder(systems) \in Seq(Slots(systems))
    BY RegistrationOrderCorrect, Lengths DEF IInv
  <2> QED
    BY <1>1, <2>1 DEF Slots
<1>3. active = 0
  BY DEF BeginTick, MayTick, IInv, TickInv
<1>4. Len(systems) \in Nat /\ Len(pipeline') \in Nat
  BY <1>2, Lengths DEF IInv
<1>5. TypeInv'
  BY <1>2 DEF BeginTick, IInv, TypeInv
<1>6. PipelineInv'
  BY <1>1 DEF BeginTick, PipelineInv
<1>7. TickInv'
  <2>1. /\ dirty' = FALSE /\ at' = 0 /\ active' = 0 /\ phase' = "ticking"
        /\ Len(systems') \in Nat /\ Len(pipeline') \in Nat
    BY <1>3, <1>4 DEF BeginTick
  <2> QED
    BY <2>1 DEF TickInv
<1> QED
  BY <1>5, <1>6, <1>7 DEF IInv

LEMMA CallSystemIInv ==
  ASSUME IInv, CallSystem
  PROVE  IInv'
<1>1. /\ ~dirty /\ at \in 0 .. Len(pipeline) /\ at < Len(pipeline)
      /\ pipeline = RegistrationOrder(systems)
      /\ UNCHANGED <<systems, pipeline, dirty>> /\ stop' \in BOOLEAN
  BY DEF CallSystem, IInv, TypeInv, TickInv, PipelineInv, registry
<1>2. CASE at' = at + 1 /\ active' = pipeline[at + 1] /\ UNCHANGED <<phase, host, reply>>
  <2>1. pipeline \in Seq(Slots(systems))
    BY <1>1, RegistrationOrderCorrect, Lengths DEF IInv
  <2>2. at + 1 \in 1 .. Len(pipeline)
    BY <1>1, Lengths DEF IInv
  <2>3. active' \in Slots(systems)
    BY <1>2, <2>1, <2>2
  <2>4. active' \in 0 .. Len(systems) /\ at' \in 0 .. Len(pipeline)
    BY <1>2, <2>2, <2>3, Lengths DEF Slots, IInv
  <2> QED
    BY <1>1, <1>2, <2>4 DEF CallSystem, IInv, TypeInv, PipelineInv, TickInv
<1>3. CASE Return("CALLBACK")
  BY <1>1, <1>3 DEF Return, IInv, TypeInv, PipelineInv, TickInv
<1> QED
  BY <1>2, <1>3 DEF CallSystem

LEMMA NextIInv ==
  ASSUME IInv, [Next]_vars
  PROVE  IInv'
<1>1. ASSUME NEW h \in {"engine_run", "run_project"}, Start(h) PROVE IInv'
  BY <1>1 DEF Start, registry, IInv, TypeInv, PipelineInv, TickInv
<1>2. CASE RefuseTick
  BY <1>2 DEF RefuseTick, Return, MayTick, registry, IInv, TypeInv, PipelineInv, TickInv
<1>3. CASE EndTick
  BY <1>3 DEF EndTick, Return, registry, IInv, TypeInv, PipelineInv, TickInv
<1>4. CASE Leave
  BY <1>4 DEF Leave, registry, IInv, TypeInv, PipelineInv, TickInv
<1>5. CASE UNCHANGED vars
  BY <1>5 DEF vars, registry, loop, IInv, TypeInv, PipelineInv, TickInv
<1> QED
  BY <1>1, <1>2, <1>3, <1>4, <1>5, RegisterIInv, UnregisterIInv, BeginTickIInv, CallSystemIInv
  DEF Next

(* A pipeline that is not dirty is the order of the systems registered     *)
(* now, and no tick begins with another.                                   *)
THEOREM Invariance == Spec => []IInv
BY InitIInv, NextIInv, PTL DEF Spec

(* Every variable keeps its type: the active system is in the table, and a *)
(* tick stays within its pipeline.                                         *)
THEOREM TypeCorrect == Spec => []TypeOK
<1>1. ASSUME IInv PROVE TypeOK
  <2>1. active \in 0 .. Len(systems) /\ at \in 0 .. Len(pipeline)
    BY <1>1, Lengths DEF IInv, TickInv
  <2> QED
    BY <1>1, <2>1 DEF IInv, TypeInv, TypeOK
<1> QED
  BY <1>1, Invariance, PTL

-----------------------------------------------------------------------------
(***************************************************************************)
(* Each step is one of the ticks', or nothing to them.                     *)
(***************************************************************************)

\* The names of the systems that the tick under way has still to call.
Queue ==
  IF phase = "ticking"
  THEN [k \in 1 .. Len(pipeline) - at |-> systems[pipeline[at + k]].name]
  ELSE <<>>

\* Both modules speak of the same order.
LEMMA SameOrder ==
  /\ T!Cyclic(systems) = Cyclic(systems)
  /\ T!RegistrationOrder(systems) = RegistrationOrder(systems)
<1>1. T!Cyclic(systems) = Cyclic(systems)
  BY DEF T!Cyclic, Cyclic, T!IsDeadlocked, IsDeadlocked, T!MustPrecede, MustPrecede, T!Slots, Slots
<1>2. \A prefix : T!Extended(systems, prefix) = Extended(systems, prefix)
  BY DEF T!Extended, Extended, T!MayRunNext, MayRunNext, T!InPrefix, InPrefix, T!Lowest, Lowest,
    T!MustPrecede, MustPrecede, T!Slots, Slots
<1>3. T!RegistrationOrder(systems) = RegistrationOrder(systems)
  BY <1>2 DEF T!RegistrationOrder, RegistrationOrder, T!OrderSteps, OrderSteps
<1> QED
  BY <1>1, <1>3

LEMMA RegisterMaps ==
  ASSUME NEW d \in Definitions, Register(d)
  PROVE  T!Register(d)
<1>1. phase # "ticking" /\ UNCHANGED <<phase, stop>>
  BY DEF Register, MayChange, loop
<1>2. Holders(d.name) = T!Holders(d.name)
  BY DEF Holders, T!Holders, Slots, T!Slots
<1>3. \/ Holders(d.name) = {} /\ systems' = Append(systems, d) /\ reply' = "OK"
      \/ Holders(d.name) # {} /\ reply' = "EXISTS" /\ UNCHANGED systems
      \/ Holders(d.name) = {} /\ reply' = "MEMORY" /\ UNCHANGED systems
  BY DEF Register, registry
<1> QED
  BY <1>1, <1>2, <1>3 DEF T!Register

LEMMA UnregisterMaps ==
  ASSUME IInv, NEW n, Unregister(n)
  PROVE  T!Unregister(n)
<1>1. phase # "ticking" /\ UNCHANGED <<phase, stop>>
  BY DEF Unregister, MayChange
<1>0. Holders(n) = T!Holders(n)
  BY DEF Holders, T!Holders, Slots, T!Slots
<1>2. CASE Holders(n) = {}
  BY <1>0, <1>1, <1>2 DEF Unregister, T!Unregister, registry
<1>3. CASE Holders(n) # {}
  <2>1. PICK i \in Holders(n) : systems' = Without(i) /\ reply' = "OK"
    BY <1>3 DEF Unregister
  <2>2. i \in Slots(systems)
    BY DEF Holders
  <2>3. systems' = SubSeq(systems, 1, i - 1) \o SubSeq(systems, i + 1, Len(systems))
    BY <2>1, <2>2, WithoutIsRest DEF IInv, TypeInv
  <2> QED
    BY <1>0, <1>1, <1>3, <2>1, <2>3 DEF T!Unregister
<1> QED
  BY <1>2, <1>3

LEMMA BeginTickMaps ==
  ASSUME IInv, BeginTick
  PROVE  T!Begin
<1>1. /\ pipeline' = RegistrationOrder(systems) /\ ~Cyclic(systems)
      /\ phase # "ticking" /\ phase' = "ticking" /\ at' = 0 /\ UNCHANGED <<systems, stop, reply>>
  BY DEF BeginTick, MayTick, IInv, PipelineInv
<1>2. Len(pipeline') \in Nat
  BY BeginTickIInv DEF IInv, TypeInv
<1>3. Queue' = T!NamesAt(RegistrationOrder(systems))
  <2>1. Queue' = [k \in 1 .. Len(pipeline') - 0 |-> systems[pipeline'[0 + k]].name]
    BY <1>1 DEF Queue
  <2>2. Len(pipeline') - 0 = Len(pipeline')
    BY <1>2
  <2>3. \A k \in 1 .. Len(pipeline') : 0 + k = k
    BY <1>2
  <2> QED
    BY <1>1, <2>1, <2>2, <2>3 DEF T!NamesAt
<1>4. Queue' = IF phase' = "ticking"
               THEN [k \in 1 .. Len(pipeline') - at' |-> systems'[pipeline'[at' + k]].name]
               ELSE <<>>
  BY DEF Queue
<1> QED
  BY <1>1, <1>3, <1>4, SameOrder DEF T!Begin

LEMMA CallSystemMaps ==
  ASSUME IInv, CallSystem
  PROVE  T!Run
<1>1. /\ phase = "ticking" /\ at \in Nat /\ at < Len(pipeline) /\ Len(pipeline) \in Nat
      /\ UNCHANGED <<systems, pipeline>> /\ stop' \in {stop, TRUE}
  <2>1. /\ phase = "ticking" /\ at < Len(pipeline)
        /\ UNCHANGED <<systems, pipeline>> /\ stop' \in {stop, TRUE}
    BY DEF CallSystem, registry
  <2>2. at \in Nat /\ Len(pipeline) \in Nat
    BY <2>1, Lengths DEF IInv, TickInv
  <2> QED
    BY <2>1, <2>2, Zenon
<1> DEFINE rest == Len(pipeline) - at
<1>2. rest \in Nat /\ rest >= 1 /\ Len(pipeline) - (at + 1) = rest - 1
  BY <1>1
<1> HIDE DEF rest
<1>3. Queue = [k \in 1 .. rest |-> systems[pipeline[at + k]].name]
  BY <1>1 DEF Queue, rest
<1>4. Queue # <<>>
  <2>1. 1 \in DOMAIN Queue
    BY <1>2, <1>3
  <2> QED
    BY <2>1
<1>5. CASE at' = at + 1 /\ UNCHANGED <<phase, reply>>
  <2>1. Queue' = [k \in 1 .. rest - 1 |-> systems[pipeline[at + 1 + k]].name]
    BY <1>1, <1>2, <1>5 DEF Queue
  <2>2. Tail(Queue) = [k \in 1 .. rest - 1 |-> Queue[k + 1]]
    BY <1>2, <1>3
  <2>3. \A k \in 1 .. rest - 1 : Queue[k + 1] = systems[pipeline[at + 1 + k]].name
    <3> SUFFICES ASSUME NEW k \in 1 .. rest - 1
                 PROVE  Queue[k + 1] = systems[pipeline[at + 1 + k]].name
      OBVIOUS
    <3>1. k + 1 \in 1 .. rest /\ at + (k + 1) = at + 1 + k
      BY <1>1, <1>2
    <3> QED
      BY <1>3, <3>1
  <2>4. Queue' = Tail(Queue)
    BY <2>1, <2>2, <2>3
  <2> QED
    BY <1>1, <1>4, <1>5, <2>4 DEF T!Run, Queue
<1>6. CASE Return("CALLBACK")
  BY <1>1, <1>4, <1>6 DEF T!Run, Queue, Return
<1> QED
  BY <1>5, <1>6 DEF CallSystem

LEMMA StepMaps ==
  ASSUME IInv, [Next]_vars
  PROVE  [T!Next]_(T!vars)
<1>1. ASSUME NEW h \in {"engine_run", "run_project"}, Start(h) PROVE T!ClearStop
  BY <1>1 DEF Start, T!ClearStop, registry
<1>2. CASE RefuseTick
  <2>0. /\ phase # "ticking" /\ phase' # "ticking" /\ UNCHANGED <<systems, stop>>
        /\ reply' \in (IF Cyclic(systems) THEN {"ARGUMENT"} ELSE {}) \cup {"MEMORY"}
    BY <1>2 DEF RefuseTick, Return, MayTick, registry
  <2>1. T!Refuse
    BY <2>0, SameOrder DEF T!Refuse
  <2> QED
    BY <2>1 DEF T!Next
<1>3. CASE EndTick
  <2>1. Len(pipeline) - at = 0
    BY <1>3, Lengths DEF EndTick, IInv
  <2>2. T!End
    BY <1>3, <2>1 DEF EndTick, T!End, Return, registry
  <2> QED
    BY <2>2 DEF T!Next
<1>4. CASE Leave
  BY <1>4 DEF Leave, T!vars, registry
<1>5. CASE UNCHANGED vars
  BY <1>5 DEF vars, registry, loop, T!vars
<1>6. CASE BeginTick
  BY <1>6, BeginTickMaps DEF T!Next
<1>7. CASE CallSystem
  BY <1>7, CallSystemMaps DEF T!Next
<1>8. ASSUME NEW d \in Definitions, Register(d) \/ Unregister(d.name) PROVE T!Next
  BY <1>8, RegisterMaps, UnregisterMaps DEF T!Next
<1>9. ASSUME NEW h \in {"engine_run", "run_project"}, Start(h) PROVE T!Next
  BY <1>1, <1>9 DEF T!Next
<1> QED
  BY <1>2, <1>3, <1>4, <1>5, <1>6, <1>7, <1>8, <1>9 DEF Next

(* However registrations and removals come between two ticks, also after   *)
(* ticks that were refused, the cached pipeline never shows: each tick     *)
(* runs what is registered then, in order (ecsvm_engine_ensure_pipeline    *)
(* and ecsvm_engine_tick, ecsvm.c).                                        *)
THEOREM TicksImplemented == Spec => ImplementsTicks
<1>1. Init => T!Init
  BY DEF Init, T!Init
<1>2. IInv /\ [Next]_vars => [T!Next]_(T!vars)
  BY StepMaps
<1> QED
  BY <1>1, <1>2, Invariance, PTL DEF Spec, ImplementsTicks, T!Spec
=============================================================================
