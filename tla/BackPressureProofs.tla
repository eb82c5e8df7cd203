------------------------- MODULE BackPressureProofs -------------------------
(***************************************************************************)
(* Theorems about BackPressure.tla, for any number of connections, calls   *)
(* and slots, on one thread or several, with or without peers that close.  *)
(***************************************************************************)
EXTENDS BackPressure, FiniteSetTheorems, FunctionTheorems, TLAPS

(* FutMutex, BPInner::poll: what pops a waker leaves a queue that holds    *)
(* the rest of the wakers, each one place further to the front.            *)
LEMMA TailShifts ==
  ASSUME NEW S, NEW q \in Seq(S), q # <<>>
  PROVE  /\ Tail(q) \in Seq(S)
         /\ Head(q) \in S
         /\ Head(q) = q[1] /\ 1 \in DOMAIN q
         /\ \A i \in DOMAIN Tail(q) : i + 1 \in DOMAIN q /\ Tail(q)[i] = q[i + 1]
OBVIOUS

(* add_slots and BPInner::poll: waking the task at the front of the queue  *)
(* keeps the shape of the queue and of the executor's wake-ups.            *)
LEMMA WakeFirstType ==
  ASSUME TypeOK, WakeFirst
  PROVE  wakers' \in Seq(Listeners) /\ woken' \subseteq Listeners
<1>1. CASE wakers = <<>>
  BY <1>1 DEF WakeFirst, TypeOK
<1>2. CASE wakers # <<>>
  BY <1>2, TailShifts DEF WakeFirst, TypeOK
<1> QED BY <1>1, <1>2

(* The state of backpressure.rs and of the tasks around it keeps its shape *)
(* in every step.                                                          *)
LEMMA TypeStep == ASSUME TypeOK, [Next]_vars PROVE TypeOK'
<1> USE ConstantsAssumption
<1>1. CASE UNCHANGED vars
  BY <1>1 DEF TypeOK, vars
<1>2. ASSUME NEW l \in Listeners, Arrive(l) PROVE TypeOK'
  BY <1>2 DEF TypeOK, Arrive, Stages, AtStage
<1>3. ASSUME NEW l \in Listeners, Lock(l) PROVE TypeOK'
  BY <1>3 DEF TypeOK, Lock
<1>4. ASSUME NEW l \in Listeners, Load(l) PROVE TypeOK'
  BY <1>4 DEF TypeOK, Load
<1>5. ASSUME NEW l \in Listeners, Ready(l) PROVE TypeOK'
  <2>1. wakers' \in Seq(Listeners) /\ woken' \subseteq Listeners
    BY <1>5, WakeFirstType DEF Ready, TypeOK
  <2> QED
    BY <1>5, <2>1 DEF TypeOK, Ready, ReleaseLock
<1>6. ASSUME NEW l \in Listeners, Register(l) PROVE TypeOK'
  BY <1>6 DEF TypeOK, Register
<1>7. ASSUME NEW l \in Listeners, Repoll(l) PROVE TypeOK'
  BY <1>7 DEF TypeOK, Repoll
<1>8. ASSUME NEW l \in Listeners, Deliver(l) PROVE TypeOK'
  BY <1>8 DEF TypeOK, Deliver, Stages, AtStage
<1>9. ASSUME NEW l \in Listeners, ShutDown(l) PROVE TypeOK'
  <2>1. stage' \in [Calls -> Stages]
    BY <1>9 DEF TypeOK, ShutDown, Stages
  <2> QED
    BY <1>9, <2>1 DEF TypeOK, ShutDown
<1>10. ASSUME NEW c \in Calls, RemoveSlot(c) PROVE TypeOK'
  BY <1>10 DEF TypeOK, RemoveSlot, LessOne, Stages
<1>11. ASSUME NEW c \in Calls, AddSlot(c) PROVE TypeOK'
  BY <1>11 DEF TypeOK, AddSlot, Stages
<1>12. CASE Wake
  <2>1. waking' \in Nat
    BY <1>12 DEF Wake, TypeOK
  <2> QED
    BY <1>12, <2>1, WakeFirstType DEF Wake, TypeOK
<1> QED
  BY <1>1, <1>2, <1>3, <1>4, <1>5, <1>6, <1>7, <1>8, <1>9, <1>10, <1>11, <1>12
  DEF Next, ListenerStep

(* backpressure.rs, peer.rs: the type invariant of the specification.      *)
THEOREM TypeCorrect == Spec => []TypeOK
<1>1. Init => TypeOK
  BY ConstantsAssumption DEF Init, TypeOK, Stages
<1>2. TypeOK /\ [Next]_vars => TypeOK'
  BY TypeStep
<1> QED
  BY <1>1, <1>2, PTL DEF Spec

-----------------------------------------------------------------------------
(* Where a call is agrees with where its listener is: a listener holds one *)
(* message at a time, and what was lost was lost when its peer closed.     *)
StageInv ==
  \A c \in Calls :
    /\ stage[c] = "gated" => pc[Owner[c]] \notin {"listen", "gone"}
    /\ stage[c] \in {"lost", "leaked"} => pc[Owner[c]] = "gone"
    /\ \A d \in Calls : /\ Owner[c] = Owner[d]
                        /\ stage[c] = "gated" /\ stage[d] = "gated"
                        => c = d

(* peer.rs, listen_incoming: no step lets a listener hold two messages or  *)
(* takes one from it behind its back.                                      *)
LEMMA StageStep == ASSUME TypeOK, StageInv, [Next]_vars PROVE StageInv'
<1> USE ConstantsAssumption DEF TypeOK, StageInv
<1>1. CASE UNCHANGED vars
  BY <1>1 DEF vars
<1>2. ASSUME NEW l \in Listeners, Arrive(l) PROVE StageInv'
  BY <1>2 DEF Arrive, AtStage
<1>3. ASSUME NEW l \in Listeners, Lock(l) PROVE StageInv'
  BY <1>3 DEF Lock
<1>4. ASSUME NEW l \in Listeners, Load(l) PROVE StageInv'
  BY <1>4 DEF Load
<1>5. ASSUME NEW l \in Listeners, Ready(l) PROVE StageInv'
  BY <1>5 DEF Ready
<1>6. ASSUME NEW l \in Listeners, Register(l) PROVE StageInv'
  BY <1>6 DEF Register
<1>7. ASSUME NEW l \in Listeners, Repoll(l) PROVE StageInv'
  BY <1>7 DEF Repoll
<1>8. ASSUME NEW l \in Listeners, Deliver(l) PROVE StageInv'
  BY <1>8 DEF Deliver, AtStage
<1>9. ASSUME NEW l \in Listeners, ShutDown(l) PROVE StageInv'
  BY <1>9 DEF ShutDown
<1>10. ASSUME NEW c \in Calls, RemoveSlot(c) PROVE StageInv'
  BY <1>10 DEF RemoveSlot
<1>11. ASSUME NEW c \in Calls, AddSlot(c) PROVE StageInv'
  BY <1>11 DEF AddSlot
<1>12. CASE Wake
  BY <1>12 DEF Wake
<1> QED
  BY <1>1, <1>2, <1>3, <1>4, <1>5, <1>6, <1>7, <1>8, <1>9, <1>10, <1>11, <1>12
  DEF Next, ListenerStep

-----------------------------------------------------------------------------
(* backpressure.rs, incoming.rs, call_response.rs: every step leaves the   *)
(* counter in balance with the calls that hold a slot.                     *)
LEMMA SlotsStep ==
  ASSUME TypeOK, StageInv, SlotsConserved, [Next]_vars
  PROVE  SlotsConserved'
<1> USE ConstantsAssumption DEF TypeOK, SlotsConserved
<1>1. IsFiniteSet(Charged) /\ Cardinality(Charged) \in Nat
  BY FS_Subset, FS_CardinalityType DEF Charged
<1>2. ASSUME UNCHANGED available, Charged' = Charged PROVE SlotsConserved'
  BY <1>2
<1>3. CASE UNCHANGED vars
  BY <1>2, <1>3 DEF vars, Charged
<1>4. ASSUME NEW l \in Listeners, Arrive(l) PROVE SlotsConserved'
  BY <1>2, <1>4 DEF Arrive, AtStage, Charged
<1>5. ASSUME NEW l \in Listeners, Deliver(l) PROVE SlotsConserved'
  BY <1>2, <1>5 DEF Deliver, AtStage, Charged
<1>6. ASSUME NEW l \in Listeners, Lock(l) \/ Load(l) \/ Ready(l) \/ Register(l) \/ Repoll(l)
      PROVE  SlotsConserved'
  BY <1>2, <1>6 DEF Lock, Load, Ready, Register, Repoll, Charged
<1>7. ASSUME NEW l \in Listeners, ShutDown(l) PROVE SlotsConserved'
  <2>1. \A c \in Calls : stage[c] = "leaked" => Owner[c] # l
    BY <1>7 DEF StageInv, ShutDown
  <2>2. Charged' = Charged
    BY <1>7, <2>1 DEF ShutDown, Charged
  <2> QED
    BY <1>2, <1>7, <2>2 DEF ShutDown
<1>8. ASSUME NEW c \in Calls, RemoveSlot(c) PROVE SlotsConserved'
  <2>1. Charged' = Charged \cup {c} /\ c \notin Charged
    BY <1>8 DEF RemoveSlot, Charged
  <2>2. Cardinality(Charged') = Cardinality(Charged) + 1
    BY <1>1, <2>1, FS_AddElement
  <2> QED
    BY <1>1, <1>8, <2>2 DEF RemoveSlot, LessOne
<1>9. ASSUME NEW c \in Calls, AddSlot(c) PROVE SlotsConserved'
  <2>1. Charged' = Charged \ {c} /\ c \in Charged
    BY <1>9 DEF AddSlot, Charged
  <2>2. Cardinality(Charged') = Cardinality(Charged) - 1
    BY <1>1, <2>1, FS_RemoveElement
  <2> QED
    BY <1>1, <1>9, <2>2 DEF AddSlot
<1>10. CASE Wake
  BY <1>2, <1>10 DEF Wake, Charged
<1> QED
  BY <1>3, <1>4, <1>5, <1>6, <1>7, <1>8, <1>9, <1>10 DEF Next, ListenerStep

(* remove_slots and add_slots: whatever the peers that share the gate do,  *)
(* the counter is Slots less the calls in progress or cut short.           *)
THEOREM SlotsAreConserved == Spec => []SlotsConserved
<1> DEFINE Inv == TypeOK /\ StageInv /\ SlotsConserved
<1>1. Init => Inv
  <2> SUFFICES ASSUME Init PROVE Inv
    OBVIOUS
  <2>1. Charged = {}
    BY DEF Init, Charged
  <2>2. SlotsConserved
    BY <2>1, FS_EmptySet, ConstantsAssumption DEF Init, SlotsConserved
  <2> QED
    BY <2>2, ConstantsAssumption DEF Init, TypeOK, Stages, StageInv
<1>2. Inv /\ [Next]_vars => Inv'
  BY TypeStep, StageStep, SlotsStep
<1> QED
  BY <1>1, <1>2, PTL DEF Spec

-----------------------------------------------------------------------------
Live(l) == pc[l] # "gone"

(* A live task has one waker in the queue at most, and none once it has    *)
(* been woken, so that it leaves the queue before it polls again.          *)
WakerInv ==
  /\ \A i, j \in DOMAIN wakers : Live(wakers[i]) /\ wakers[i] = wakers[j] => i = j
  /\ \A l \in woken : Live(l) =>
       pc[l] = "pending" /\ \A i \in DOMAIN wakers : wakers[i] # l

(* FutMutex and BPInner::poll: while the task that holds the mutex polls,  *)
(* the queue holds nothing but the wakers of peers that have closed.       *)
LEMMA QueueIsDeadInPoll ==
  ASSUME TypeOK, OnlyHolderRegisters, NEW l \in Listeners, pc[l] \in InPoll
  PROVE  \A i \in DOMAIN wakers : wakers[i] \in Listeners /\ ~Live(wakers[i])
BY DEF TypeOK, OnlyHolderRegisters, InPoll, Live

(* add_slots and BPInner::poll: waking the first task of the queue.        *)
LEMMA WakeFirstStep ==
  ASSUME TypeOK, OnlyHolderRegisters, WakerInv, WakeFirst
  PROVE  /\ \A i \in DOMAIN wakers' : \E k \in DOMAIN wakers : wakers'[i] = wakers[k]
         /\ \A i, j \in DOMAIN wakers' : Live(wakers'[i]) /\ wakers'[i] = wakers'[j] => i = j
         /\ \A l \in woken' : Live(l) =>
              pc[l] = "pending" /\ \A i \in DOMAIN wakers' : wakers'[i] # l
<1> USE DEF TypeOK
<1>1. CASE wakers = <<>>
  BY <1>1 DEF WakeFirst, WakerInv
<1>2. CASE wakers # <<>>
  <2> DEFINE h == Head(wakers)
  <2>1. wakers' = Tail(wakers) /\ woken' = woken \cup {h}
    BY <1>2 DEF WakeFirst
  <2>2. /\ h = wakers[1] /\ 1 \in DOMAIN wakers
        /\ \A i \in DOMAIN wakers' : i + 1 \in DOMAIN wakers /\ wakers'[i] = wakers[i + 1]
    BY <1>2, <2>1, TailShifts
  <2>3. \A i \in DOMAIN wakers' : i \in Nat /\ i > 0
    BY <1>2, <2>1
  <2>4. \A i, j \in DOMAIN wakers' : Live(wakers'[i]) /\ wakers'[i] = wakers'[j] => i = j
    BY <2>2, <2>3 DEF WakerInv
  <2>5. Live(h) => pc[h] = "pending" /\ \A i \in DOMAIN wakers' : wakers'[i] # h
    BY <2>2, <2>3 DEF WakerInv, OnlyHolderRegisters, Live
  <2>6. \A l \in woken' : Live(l) =>
          pc[l] = "pending" /\ \A i \in DOMAIN wakers' : wakers'[i] # l
    BY <2>1, <2>2, <2>5 DEF WakerInv
  <2> QED
    BY <2>2, <2>4, <2>6
<1> QED
  BY <1>1, <1>2

(* backpressure.rs: no step lets a task that does not hold the mutex into  *)
(* the queue, or leaves a waker behind while its task polls.               *)
LEMMA WakerStep ==
  ASSUME TypeOK, OnlyHolderRegisters, WakerInv, [Next]_vars
  PROVE  OnlyHolderRegisters' /\ WakerInv'
<1> USE ConstantsAssumption DEF TypeOK, OnlyHolderRegisters, WakerInv, Live, InPoll
<1> DEFINE Goal == OnlyHolderRegisters' /\ WakerInv'
<1>1. CASE UNCHANGED vars
  BY <1>1 DEF vars
<1>2. ASSUME NEW l \in Listeners, Arrive(l) PROVE Goal
  BY <1>2 DEF Arrive
<1>3. ASSUME NEW l \in Listeners, Lock(l) PROVE Goal
  BY <1>3 DEF Lock
<1>4. ASSUME NEW l \in Listeners, Load(l) PROVE Goal
  BY <1>4 DEF Load
<1>5. ASSUME NEW l \in Listeners, Ready(l) PROVE Goal
  <2>1. \A i \in DOMAIN wakers : wakers[i] \in Listeners /\ ~Live(wakers[i])
    BY <1>5, QueueIsDeadInPoll DEF Ready
  <2>2. CASE UNCHANGED <<wakers, woken>>
    BY <1>5, <2>1, <2>2 DEF Ready, ReleaseLock
  <2>3. CASE WakeFirst
    BY <1>5, <2>1, <2>3, WakeFirstStep, WakeFirstType DEF Ready, ReleaseLock
  <2> QED
    BY <1>5, <2>2, <2>3 DEF Ready
<1>6. ASSUME NEW l \in Listeners, Register(l) PROVE Goal
  <2>1. \A i \in DOMAIN wakers : wakers[i] \in Listeners /\ ~Live(wakers[i])
    BY <1>6, QueueIsDeadInPoll DEF Register
  <2> QED
    BY <1>6, <2>1 DEF Register
<1>7. ASSUME NEW l \in Listeners, Repoll(l) PROVE Goal
  BY <1>7 DEF Repoll
<1>8. ASSUME NEW l \in Listeners, Deliver(l) PROVE Goal
  BY <1>8 DEF Deliver
<1>9. ASSUME NEW l \in Listeners, ShutDown(l) PROVE Goal
  BY <1>9 DEF ShutDown
<1>10. ASSUME NEW c \in Calls, RemoveSlot(c) \/ AddSlot(c) PROVE Goal
  BY <1>10 DEF RemoveSlot, AddSlot
<1>11. CASE Wake
  BY <1>11, WakeFirstStep, WakeFirstType DEF Wake
<1> QED
  BY <1>1, <1>2, <1>3, <1>4, <1>5, <1>6, <1>7, <1>8, <1>9, <1>10, <1>11
  DEF Next, ListenerStep

(* backpressure.rs: the async mutex keeps every other task away from the   *)
(* queue of wakers, however many threads poll and whichever peers close.   *)
THEOREM HolderAloneRegisters == Spec => []OnlyHolderRegisters
<1> DEFINE Inv == TypeOK /\ OnlyHolderRegisters /\ WakerInv
<1>1. Init => Inv
  BY ConstantsAssumption DEF Init, TypeOK, Stages, OnlyHolderRegisters, WakerInv, InPoll
<1>2. Inv /\ [Next]_vars => Inv'
  BY TypeStep, WakerStep
<1> QED
  BY <1>1, <1>2, PTL DEF Spec

-----------------------------------------------------------------------------
(* The refinement of Gate.tla.  A step that moves no call, in this module  *)
(* or in that one, is a stutter there.                                     *)
LEMMA NoCallMoves ==
  ASSUME UNCHANGED available, \A c \in Calls : placeOf(c)' = placeOf(c)
  PROVE  UNCHANGED Abstract!gateVars
BY DEF Abstract!gateVars

(* backpressure.rs against Gate.tla: moving one call and no other is what  *)
(* every action of the gate but Lose does.                                 *)
LEMMA OneCallMoves ==
  ASSUME NEW c \in Calls, NEW from, NEW to,
         placeOf(c) = from, placeOf(c)' = to,
         \A d \in Calls \ {c} : placeOf(d)' = placeOf(d)
  PROVE  Abstract!Move(c, from, to)
BY DEF Abstract!Move

(* peer.rs, listen_incoming: the call a listener waits with.               *)
LEMMA OneCallGated ==
  ASSUME TypeOK, StageInv, NEW c \in Calls, NEW d \in Calls,
         stage[c] = "gated", stage[d] = "gated", Owner[c] = Owner[d]
  PROVE  c = d
BY DEF StageInv

(* backpressure.rs, peer.rs: every step of the tasks and of the counter is *)
(* a step of the gate or a stutter.                                        *)
LEMMA GateStep ==
  ASSUME TypeOK, StageInv, [Next]_vars
  PROVE  [Abstract!Next]_(Abstract!gateVars)
<1> USE ConstantsAssumption DEF TypeOK, InPoll
<1> DEFINE Goal == [Abstract!Next]_(Abstract!gateVars)
<1>1. CASE UNCHANGED vars
  BY <1>1, NoCallMoves DEF vars, placeOf
<1>2. ASSUME NEW l \in Listeners, Arrive(l) PROVE Goal
  <2>1. PICK c \in AtStage(l, "wire") : stage' = [stage EXCEPT ![c] = "gated"]
    BY <1>2 DEF Arrive
  <2>2. c \in Calls /\ placeOf(c) = "wire" /\ placeOf(c)' = "waiting"
    BY <1>2, <2>1 DEF Arrive, AtStage, placeOf
  <2>3. \A d \in Calls \ {c} : placeOf(d)' = placeOf(d)
    BY <1>2, <2>1 DEF Arrive, AtStage, placeOf, StageInv
  <2>4. Abstract!Move(c, "wire", "waiting")
    BY <2>2, <2>3, OneCallMoves
  <2> QED
    BY <1>2, <2>2, <2>4 DEF Arrive, Abstract!Next, Abstract!Ask
<1>3. ASSUME NEW l \in Listeners, Lock(l) PROVE Goal
  BY <1>3, NoCallMoves DEF Lock, placeOf
<1>4. ASSUME NEW l \in Listeners, Load(l) PROVE Goal
  <2>1. CASE available > 0 /\ \E c \in Calls : Owner[c] = l /\ stage[c] = "gated"
    <3>1. PICK c \in Calls : Owner[c] = l /\ stage[c] = "gated"
      BY <2>1
    <3>2. placeOf(c) = "waiting" /\ placeOf(c)' = "admitted"
      BY <1>4, <2>1, <3>1 DEF Load, placeOf
    <3>3. \A d \in Calls \ {c} : placeOf(d)' = placeOf(d)
      BY <1>4, <3>1, OneCallGated DEF Load, placeOf
    <3>4. Abstract!Move(c, "waiting", "admitted")
      BY <3>2, <3>3, OneCallMoves
    <3> QED
      BY <1>4, <2>1, <3>4 DEF Load, Abstract!Next, Abstract!Admit
  <2>2. CASE available <= 0 \/ ~ \E c \in Calls : Owner[c] = l /\ stage[c] = "gated"
    BY <1>4, <2>2, NoCallMoves DEF Load, placeOf
  <2> QED
    BY <2>1, <2>2
<1>5. ASSUME NEW l \in Listeners, Ready(l) PROVE Goal
  BY <1>5, NoCallMoves DEF Ready, FreeSlot, placeOf
<1>6. ASSUME NEW l \in Listeners, Register(l) PROVE Goal
  BY <1>6, NoCallMoves DEF Register, FreeSlot, placeOf
<1>7. ASSUME NEW l \in Listeners, Repoll(l) PROVE Goal
  BY <1>7, NoCallMoves DEF Repoll, placeOf
<1>8. ASSUME NEW l \in Listeners, Deliver(l) PROVE Goal
  <2>1. PICK c \in AtStage(l, "gated") : stage' = [stage EXCEPT ![c] = "mailbox"]
    BY <1>8 DEF Deliver
  <2>2. \A d \in Calls : placeOf(d)' = placeOf(d)
    BY <1>8, <2>1, OneCallGated DEF Deliver, AtStage, placeOf
  <2> QED
    BY <1>8, <2>2, NoCallMoves DEF Deliver
<1>9. ASSUME NEW l \in Listeners, ShutDown(l) PROVE Goal
  <2> DEFINE gone == {c \in Calls : Owner[c] = l /\ stage[c] # "answered"}
  <2>1. \A c \in gone : placeOf(c) \notin {"answered", "lost"} /\ placeOf(c)' = "lost"
    BY <1>9 DEF ShutDown, placeOf, StageInv, Stages
  <2>2. \A c \in Calls \ gone : placeOf(c)' = placeOf(c)
    BY <1>9 DEF ShutDown, placeOf
  <2>3. Abstract!Lose(gone)
    BY <1>9, <2>1, <2>2 DEF ShutDown, Abstract!Lose
  <2> QED
    BY <2>3 DEF Abstract!Next
<1>10. ASSUME NEW c \in Calls, RemoveSlot(c) PROVE Goal
  <2>1. placeOf(c) = "admitted" /\ placeOf(c)' = "running"
    BY <1>10 DEF RemoveSlot, placeOf
  <2>2. \A d \in Calls \ {c} : placeOf(d)' = placeOf(d)
    BY <1>10 DEF RemoveSlot, placeOf
  <2>3. Abstract!Move(c, "admitted", "running")
    BY <2>1, <2>2, OneCallMoves
  <2> QED
    BY <1>10, <2>3 DEF RemoveSlot, LessOne, Abstract!Next, Abstract!Start
<1>11. ASSUME NEW c \in Calls, AddSlot(c) PROVE Goal
  <2>1. placeOf(c) = "running" /\ placeOf(c)' = "answered"
    BY <1>11 DEF AddSlot, placeOf
  <2>2. \A d \in Calls \ {c} : placeOf(d)' = placeOf(d)
    BY <1>11 DEF AddSlot, placeOf
  <2>3. Abstract!Move(c, "running", "answered")
    BY <2>1, <2>2, OneCallMoves
  <2> QED
    BY <1>11, <2>3 DEF AddSlot, Abstract!Next, Abstract!Answer
<1>12. CASE Wake
  BY <1>12, NoCallMoves DEF Wake, placeOf
<1> QED
  BY <1>1, <1>2, <1>3, <1>4, <1>5, <1>6, <1>7, <1>8, <1>9, <1>10, <1>11, <1>12
  DEF Next, ListenerStep

(* backpressure.rs implements Gate.tla: a call passes only while a slot is *)
(* free, takes a slot when it starts, gives it back when it is answered,   *)
(* and is lost only with its peer.                                         *)
THEOREM GateIsImplemented == Spec => ImplementsGate
<1> DEFINE Inv == TypeOK /\ StageInv
<1>1. Init => Inv /\ Abstract!Init
  BY ConstantsAssumption DEF Init, TypeOK, Stages, StageInv, Abstract!Init, placeOf
<1>2. Inv /\ [Next]_vars => Inv' /\ [Abstract!Next]_(Abstract!gateVars)
  BY TypeStep, StageStep, GateStep
<1> QED
  BY <1>1, <1>2, PTL DEF Spec, ImplementsGate, Abstract!Spec

-----------------------------------------------------------------------------
(* One gate, many peers: a set whose members are spread over the members   *)
(* of I, no more than k to each, has no more than k for every member of I. *)
LEMMA GroupsBounded ==
  ASSUME NEW I, IsFiniteSet(I), NEW k \in Nat,
         NEW S, IsFiniteSet(S), NEW f \in [S -> I],
         \A i \in I : Cardinality({s \in S : f[s] = i}) <= k
  PROVE  Cardinality(S) <= Cardinality(I) * k
<1> DEFINE Group(i) == {s \in S : f[s] = i}
           Numbering(i) == {g \in [Group(i) -> 1..k] :
                              \A s, t \in Group(i) : g[s] = g[t] => s = t}
           num(s) == (CHOOSE g \in Numbering(f[s]) : TRUE)[s]
           place == [s \in S |-> <<f[s], num(s)>>]
<1>1. ASSUME NEW i \in I PROVE Numbering(i) # {}
  <2>1. IsFiniteSet(Group(i)) /\ Group(i) \subseteq S
    BY FS_Subset
  <2> DEFINE n == Cardinality(Group(i))
  <2>2. n \in Nat /\ n <= k /\ ExistsBijection(1..n, Group(i))
    BY <2>1, FS_CardinalityType
  <2> HIDE DEF n, Group
  <2>3. PICK g : g \in Bijection(Group(i), 1..n)
    BY <2>2, Fun_ExistsBijSymmetric, Fun_ExistsBij
  <2>5. /\ g \in [Group(i) -> 1..n]
        /\ \A s, t \in Group(i) : g[s] = g[t] => s = t
    BY <2>3 DEF Bijection, Injection, IsInjective
  <2>6. g \in [Group(i) -> 1..k]
    BY <2>2, <2>5
  <2> QED
    BY <2>5, <2>6
<1>2. ASSUME NEW i \in I
      PROVE  (CHOOSE g \in Numbering(i) : TRUE) \in Numbering(i)
  <2> HIDE DEF Numbering
  <2> QED
    BY <1>1
<1>3. \A s \in S : s \in Group(f[s]) /\ num(s) \in 1..k
  <2> SUFFICES ASSUME NEW s \in S PROVE s \in Group(f[s]) /\ num(s) \in 1..k
    OBVIOUS
  <2>1. f[s] \in I /\ s \in Group(f[s])
    OBVIOUS
  <2>2. (CHOOSE g \in Numbering(f[s]) : TRUE) \in [Group(f[s]) -> 1..k]
    <3> HIDE DEF Group
    <3> QED BY <1>2, <2>1
  <2> HIDE DEF Group, Numbering
  <2> QED
    BY <2>1, <2>2
<1>4. ASSUME NEW s \in S, NEW t \in S, place[s] = place[t] PROVE s = t
  <2>1. f[s] = f[t] /\ num(s) = num(t)
    <3> HIDE DEF num
    <3> QED BY <1>4
  <2>2. (CHOOSE g \in Numbering(f[s]) : TRUE) \in Numbering(f[s])
    <3> HIDE DEF Numbering
    <3> QED BY <1>2
  <2>3. s \in Group(f[s]) /\ t \in Group(f[s])
    BY <2>1
  <2>4. \A g \in Numbering(f[s]) : g[s] = g[t] => s = t
    <3> HIDE DEF Group
    <3> QED BY <2>3
  <2> HIDE DEF Numbering
  <2> QED
    BY <2>1, <2>2, <2>4
<1>5. place \in Injection(S, I \X (1..k))
  <2>1. place \in [S -> I \X (1..k)]
    <3> HIDE DEF num
    <3> QED BY <1>3
  <2> HIDE DEF place
  <2> QED
    BY <1>4, <2>1, Fun_IsInj
<1>6. IsFiniteSet(1..k) /\ Cardinality(1..k) = k
  BY FS_Interval
<1>7. /\ IsFiniteSet(I \X (1..k))
      /\ Cardinality(I \X (1..k)) = Cardinality(I) * k
  BY <1>6, FS_Product
<1> QED
  <2> HIDE DEF place
  <2> QED
    BY <1>5, <1>7, FS_Injection

(* The messages the gate has let in: those a task holds that was told a    *)
(* slot is free, and all that are past the gate.                           *)
Passed(c) == pc[Owner[c]] = "send" \/ (pc[Owner[c]] = "read" /\ seen[Owner[c]] > 0)
Held      == {c \in Calls : stage[c] = "gated" /\ Passed(c)}
Queued    == {c \in Calls : stage[c] = "mailbox"}
Admitted  == Held \cup Queued \cup Charged

(* No mailbox holds more than it has room for, and no more is admitted     *)
(* than when the counter was last seen positive.                           *)
RoomInv ==
  /\ \A l \in Listeners : Cardinality(AtStage(l, "mailbox")) <= Mailbox
  /\ Cardinality(Admitted) <= Slots - 1 + Cardinality(Listeners) * (Mailbox + 1)

(* peer.rs: the calls of the model are finitely many, so is every part.    *)
LEMMA PartsAreFinite ==
  /\ \A S \in SUBSET Calls : IsFiniteSet(S) /\ Cardinality(S) \in Nat
  /\ \A S, T \in SUBSET Calls : S \subseteq T => Cardinality(S) <= Cardinality(T)
BY FS_Subset, FS_CardinalityType, ConstantsAssumption DEF ConstantsAssumption

(* listen_incoming holds one message: a set without two members.           *)
LEMMA AtMostOne ==
  ASSUME NEW S, \A x, y \in S : x = y
  PROVE  Cardinality(S) <= 1
<1>1. CASE S = {}
  BY <1>1, FS_EmptySet
<1>2. ASSUME NEW x \in S PROVE Cardinality(S) <= 1
  <2>1. S = {x}
    OBVIOUS
  <2>2. Cardinality({x}) = 1
    BY FS_Singleton
  <2> QED
    BY <2>1, <2>2
<1> QED
  BY <1>1, <1>2

(* Addr::send: a message more in a mailbox that has room.                  *)
LEMMA RoomForOne ==
  ASSUME NEW S \in SUBSET Calls, NEW c \in Calls, Cardinality(S) < Mailbox
  PROVE  Cardinality(S \cup {c}) <= Mailbox
<1>1. IsFiniteSet(S) /\ Cardinality(S) \in Nat /\ Mailbox \in Nat
  BY PartsAreFinite, ConstantsAssumption DEF ConstantsAssumption
<1>2. Cardinality(S \cup {c}) = IF c \in S THEN Cardinality(S) ELSE Cardinality(S) + 1
  BY <1>1, FS_AddElement
<1> QED
  BY <1>1, <1>2

(* peer.rs: parts that overlap or not hold no more than their sum.         *)
LEMMA UnionBounded ==
  ASSUME NEW S \in SUBSET Calls, NEW T \in SUBSET Calls
  PROVE  Cardinality(S \cup T) <= Cardinality(S) + Cardinality(T)
<1>1. /\ IsFiniteSet(S) /\ Cardinality(S) \in Nat
      /\ IsFiniteSet(T) /\ Cardinality(T) \in Nat
      /\ Cardinality(S \cup T) \in Nat /\ Cardinality(S \cap T) \in Nat
  BY PartsAreFinite
<1>2. Cardinality(S \cup T) = Cardinality(S) + Cardinality(T) - Cardinality(S \cap T)
  BY <1>1, FS_Union
<1> QED
  BY <1>1, <1>2

(* peer.rs, listen_incoming: what waits in the hands of the tasks (H) and  *)
(* in the mailboxes (Q), for any number of peers.                          *)
LEMMA WaitingBounded ==
  ASSUME IsFiniteSet(Listeners), NEW H \in SUBSET Calls, NEW Q \in SUBSET Calls,
         \A c, d \in H : Owner[c] = Owner[d] => c = d,
         \A l \in Listeners : Cardinality({c \in Q : Owner[c] = l}) <= Mailbox
  PROVE  Cardinality(H \cup Q) <= Cardinality(Listeners) * (Mailbox + 1)
<1> USE ConstantsAssumption DEF ConstantsAssumption
<1>1. /\ IsFiniteSet(H) /\ Cardinality(H) \in Nat
      /\ IsFiniteSet(Q) /\ Cardinality(Q) \in Nat
      /\ Cardinality(H \cup Q) \in Nat
  BY PartsAreFinite
<1>2. Cardinality(Listeners) \in Nat /\ Mailbox \in Nat
  BY FS_CardinalityType
<1>3. Cardinality(H) <= Cardinality(Listeners) * 1
  <2> DEFINE f == [c \in H |-> Owner[c]]
  <2>1. f \in [H -> Listeners]
    OBVIOUS
  <2>2. ASSUME NEW l \in Listeners PROVE Cardinality({c \in H : f[c] = l}) <= 1
    <3>1. \A c, d \in {e \in H : f[e] = l} : c = d
      OBVIOUS
    <3> HIDE DEF f
    <3> QED
      BY <3>1, AtMostOne
  <2> HIDE DEF f
  <2> QED
    BY <1>1, <2>1, <2>2, GroupsBounded
<1>4. Cardinality(Q) <= Cardinality(Listeners) * Mailbox
  <2> DEFINE f == [c \in Q |-> Owner[c]]
  <2>1. f \in [Q -> Listeners]
    OBVIOUS
  <2>2. \A l \in Listeners : Cardinality({c \in Q : f[c] = l}) <= Mailbox
    <3>1. \A l \in Listeners : {c \in Q : f[c] = l} = {c \in Q : Owner[c] = l}
      OBVIOUS
    <3> HIDE DEF f
    <3> QED
      BY <3>1
  <2> HIDE DEF f
  <2> QED
    BY <1>1, <1>2, <2>1, <2>2, GroupsBounded
<1>5. Cardinality(H \cup Q) <= Cardinality(H) + Cardinality(Q)
  BY UnionBounded
<1>6. ASSUME NEW n \in Nat, NEW m \in Nat PROVE n * (m + 1) = n * m + n * 1
  OBVIOUS
<1>7. Cardinality(Listeners) * (Mailbox + 1)
        = Cardinality(Listeners) * Mailbox + Cardinality(Listeners) * 1
  BY <1>2, <1>6
<1>8. Cardinality(Listeners) * Mailbox \in Nat /\ Cardinality(Listeners) * 1 \in Nat
  BY <1>2
<1> QED
  BY <1>1, <1>3, <1>4, <1>5, <1>7, <1>8

(* backpressure.rs, peer.rs: a step that admits a message does so because  *)
(* a slot was free; no other step adds to what is admitted.                *)
LEMMA RoomStep ==
  ASSUME Slots > 0, IsFiniteSet(Listeners),
         TypeOK, StageInv, SlotsConserved, RoomInv, [Next]_vars, TypeOK', StageInv'
  PROVE  RoomInv'
<1> USE ConstantsAssumption DEF ConstantsAssumption, TypeOK
<1> DEFINE bound == Slots - 1 + Cardinality(Listeners) * (Mailbox + 1)
<1>1. bound \in Int
  BY FS_CardinalityType
<1>2. ASSUME NEW l \in Listeners
      PROVE  AtStage(l, "mailbox") \in SUBSET Calls /\ AtStage(l, "mailbox")' \in SUBSET Calls
  BY DEF AtStage
<1>3. Admitted \in SUBSET Calls /\ Admitted' \in SUBSET Calls
  BY DEF Admitted, Held, Queued, Charged
<1>4. ASSUME \A l \in Listeners : AtStage(l, "mailbox")' \subseteq AtStage(l, "mailbox"),
             Admitted' \subseteq Admitted
      PROVE  RoomInv'
  <2>1. \A l \in Listeners : Cardinality(AtStage(l, "mailbox"))' <= Cardinality(AtStage(l, "mailbox"))
    BY <1>2, <1>4, PartsAreFinite
  <2>2. \A l \in Listeners : /\ Cardinality(AtStage(l, "mailbox"))' \in Nat
                             /\ Cardinality(AtStage(l, "mailbox")) \in Nat
    BY <1>2, PartsAreFinite
  <2>3. Cardinality(Admitted)' <= Cardinality(Admitted)
    BY <1>3, <1>4, PartsAreFinite
  <2>4. Cardinality(Admitted) \in Nat /\ Cardinality(Admitted)' \in Nat
    BY <1>3, PartsAreFinite
  <2>5. \A l \in Listeners : Cardinality(AtStage(l, "mailbox"))' <= Mailbox
    BY <2>1, <2>2 DEF RoomInv
  <2>6. Cardinality(Admitted)' <= bound
    BY <1>1, <2>3, <2>4 DEF RoomInv
  <2> QED
    BY <2>5, <2>6 DEF RoomInv
<1> USE DEF Admitted, Held, Queued, Charged, Passed, AtStage
<1>5. CASE UNCHANGED vars
  BY <1>4, <1>5 DEF vars
<1>6. ASSUME NEW l \in Listeners, Arrive(l) PROVE RoomInv'
  BY <1>4, <1>6 DEF Arrive, StageInv
<1>7. ASSUME NEW l \in Listeners, Lock(l) \/ Register(l) \/ Repoll(l) PROVE RoomInv'
  BY <1>4, <1>7 DEF Lock, Register, Repoll
<1>8. ASSUME NEW l \in Listeners, Ready(l) PROVE RoomInv'
  BY <1>4, <1>8 DEF Ready, FreeSlot
<1>9. ASSUME NEW c \in Calls, RemoveSlot(c) \/ AddSlot(c) PROVE RoomInv'
  BY <1>4, <1>9 DEF RemoveSlot, AddSlot
<1>10. ASSUME NEW l \in Listeners, ShutDown(l) PROVE RoomInv'
  BY <1>4, <1>10 DEF ShutDown, StageInv, InPoll
<1>11. CASE Wake
  BY <1>4, <1>11 DEF Wake
<1>12. ASSUME NEW l \in Listeners, Load(l) PROVE RoomInv'
  <2>1. \A m \in Listeners : AtStage(m, "mailbox")' = AtStage(m, "mailbox")
    BY <1>12 DEF Load
  <2>2. CASE available <= 0
    BY <1>4, <1>12, <2>2 DEF Load
  <2>3. CASE available > 0
    <3>1. Cardinality(Charged) <= Slots - 1 /\ Cardinality(Charged)' = Cardinality(Charged)
      <4>1. Cardinality(Charged) \in Nat
        BY PartsAreFinite
      <4> QED
        BY <1>12, <2>3, <4>1 DEF Load, SlotsConserved
    <3>2. Cardinality(Held' \cup Queued') <= Cardinality(Listeners) * (Mailbox + 1)
      <4>1. \A m \in Listeners : {c \in Queued' : Owner[c] = m} = AtStage(m, "mailbox")'
        OBVIOUS
      <4>2. \A m \in Listeners : Cardinality({c \in Queued' : Owner[c] = m}) <= Mailbox
        BY <2>1, <4>1 DEF RoomInv
      <4>3. \A c, d \in Held' : Owner[c] = Owner[d] => c = d
        BY DEF StageInv
      <4>4. Held' \in SUBSET Calls /\ Queued' \in SUBSET Calls
        OBVIOUS
      <4> HIDE DEF Held, Queued
      <4> QED
        BY <4>2, <4>3, <4>4, WaitingBounded
    <3>3. Cardinality(Admitted') <= Cardinality(Held' \cup Queued') + Cardinality(Charged')
      <4>1. Held' \cup Queued' \in SUBSET Calls /\ Charged' \in SUBSET Calls
        OBVIOUS
      <4> HIDE DEF Held, Queued, Charged
      <4> DEFINE W == Held' \cup Queued'
      <4>2. Cardinality(W \cup Charged') <= Cardinality(W) + Cardinality(Charged')
        BY <4>1, UnionBounded
      <4> QED
        BY <4>2
    <3>4. /\ Cardinality(Charged') \in Nat /\ Cardinality(Held' \cup Queued') \in Nat
          /\ Cardinality(Admitted') \in Nat
      BY PartsAreFinite
    <3>5. Cardinality(Admitted') <= bound
      <4> HIDE DEF Admitted, Held, Queued, Charged
      <4>1. Cardinality(Listeners) * (Mailbox + 1) \in Int
        BY FS_CardinalityType
      <4> QED
        BY <3>1, <3>2, <3>3, <3>4, <4>1
    <3> HIDE DEF Admitted, AtStage
    <3>6. \A m \in Listeners : Cardinality(AtStage(m, "mailbox")') <= Mailbox
      BY <2>1 DEF RoomInv
    <3> QED
      BY <3>5, <3>6 DEF RoomInv
  <2> QED
    BY <2>2, <2>3
<1>13. ASSUME NEW l \in Listeners, Deliver(l) PROVE RoomInv'
  <2>1. PICK c \in Calls : /\ Owner[c] = l /\ stage[c] = "gated"
                           /\ stage' = [stage EXCEPT ![c] = "mailbox"]
    BY <1>13 DEF Deliver
  <2>2. Admitted' \subseteq Admitted
    BY <1>13, <2>1 DEF Deliver, StageInv
  <2>3. \A m \in Listeners \ {l} : AtStage(m, "mailbox")' = AtStage(m, "mailbox")
    BY <2>1
  <2>4. AtStage(l, "mailbox")' = AtStage(l, "mailbox") \cup {c}
    BY <2>1
  <2>5. Cardinality(AtStage(l, "mailbox")) < Mailbox
    BY <1>13 DEF Deliver, MailboxRoom
  <2>6. AtStage(l, "mailbox") \in SUBSET Calls
    OBVIOUS
  <2> HIDE DEF AtStage, Admitted
  <2>7. Cardinality(AtStage(l, "mailbox")') <= Mailbox
    BY <2>4, <2>5, <2>6, RoomForOne
  <2>8. Cardinality(Admitted)' <= Cardinality(Admitted)
    BY <1>3, <2>2, PartsAreFinite
  <2>9. Cardinality(Admitted) \in Nat /\ Cardinality(Admitted)' \in Nat
    BY <1>3, PartsAreFinite
  <2>10. Cardinality(Admitted)' <= bound
    <3> HIDE DEF bound
    <3>1. Cardinality(Admitted) <= bound
      BY DEF RoomInv, bound
    <3> QED
      BY <1>1, <2>8, <2>9, <3>1
  <2> QED
    BY <2>3, <2>7, <2>10 DEF RoomInv
<1> QED
  BY <1>5, <1>6, <1>7, <1>8, <1>9, <1>10, <1>11, <1>12, <1>13 DEF Next, ListenerStep

(* backpressure.rs:104-121: BPInner::poll takes no slot when it lets a     *)
(* message pass, so that the gate is overdrawn by what the peers have not  *)
(* handled yet, and by no more, for any number of peers, of calls, and any *)
(* room in the mailboxes; the gate starts with a slot at least.            *)
THEOREM OverdraftIsBounded ==
  ASSUME Slots > 0, IsFiniteSet(Listeners)
  PROVE  Spec => []OverdraftBounded
<1> DEFINE Inv == TypeOK /\ StageInv /\ SlotsConserved /\ RoomInv
<1>1. Init => RoomInv
  <2> SUFFICES ASSUME Init PROVE RoomInv
    OBVIOUS
  <2>1. Admitted = {} /\ \A l \in Listeners : AtStage(l, "mailbox") = {}
    BY ConstantsAssumption DEF ConstantsAssumption, Init, Admitted, Held, Queued, Charged, AtStage
  <2>2. Cardinality(Listeners) * (Mailbox + 1) \in Nat
    BY FS_CardinalityType, ConstantsAssumption DEF ConstantsAssumption
  <2>3. Cardinality({}) = 0
    BY FS_EmptySet
  <2>4. Cardinality(Admitted) = 0 /\ \A l \in Listeners : Cardinality(AtStage(l, "mailbox")) = 0
    BY <2>1, <2>3
  <2>5. Mailbox \in Nat /\ Slots \in Int
    BY ConstantsAssumption DEF ConstantsAssumption
  <2> QED
    BY <2>2, <2>4, <2>5 DEF RoomInv
<1>2. RoomInv /\ TypeOK => OverdraftBounded
  <2> SUFFICES ASSUME RoomInv, TypeOK PROVE OverdraftBounded
    OBVIOUS
  <2>1. InFlight \subseteq Admitted /\ InFlight \in SUBSET Calls /\ Admitted \in SUBSET Calls
    BY DEF InFlight, Admitted, Held, Queued, Charged, Passed
  <2>2. Cardinality(InFlight) <= Cardinality(Admitted)
    BY <2>1, PartsAreFinite
  <2>3. Cardinality(InFlight) \in Nat /\ Cardinality(Admitted) \in Nat
    BY <2>1, PartsAreFinite
  <2>4. Slots - 1 + Cardinality(Listeners) * (Mailbox + 1) \in Int
    BY FS_CardinalityType, ConstantsAssumption DEF ConstantsAssumption
  <2> QED
    BY <2>2, <2>3, <2>4 DEF RoomInv, OverdraftBounded
<1>3. TypeOK /\ StageInv /\ SlotsConserved /\ RoomInv /\ [Next]_vars => RoomInv'
  BY TypeStep, StageStep, RoomStep
<1>4. Spec => []TypeOK
  BY TypeCorrect
<1>5. Spec => []SlotsConserved
  BY SlotsAreConserved
<1>6. Init => StageInv
  BY ConstantsAssumption DEF Init, StageInv
<1>7. TypeOK /\ StageInv /\ [Next]_vars => StageInv'
  BY StageStep
<1> QED
  BY <1>1, <1>2, <1>3, <1>4, <1>5, <1>6, <1>7, PTL DEF Spec
=============================================================================
