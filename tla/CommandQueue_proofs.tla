------------------------ MODULE CommandQueue_proofs ------------------------
(***************************************************************************)
(* Proofs about CommandQueue for every ring size of at least two and every *)
(* set of commands: the type invariant, the absence of a race on a slot,   *)
(* the exactness of "full" and "empty", and that the ring implements       *)
(* CommandFifo.                                                            *)
(***************************************************************************)
EXTENDS CommandQueue, SequenceTheorems, TLAPS

(* What each process knows of the shared indices at each point of its      *)
(* call.  Nobody else moves head while a push is under way, nor tail while *)
(* a pop is, so the indices the calls loaded stay current.                 *)
PusherKnows ==
  /\ pushPc # "idle" => pushHead = head /\ pushed \in Entry
  /\ pushPc \in {"write", "stamp", "publish"} => NextIndex(head) # tail
  /\ pushPc = "publish" => commands[head] \in Stamped

PopperKnows ==
  /\ popPc # "idle" => popTail = tail
  /\ popPc \in {"read", "publish"} => head # tail
  /\ popPc = "publish" => copied = commands[tail]

(* Whatever lies between tail and head is complete.                        *)
QueuedComplete == \A k \in 0 .. (Count - 1) : commands[SlotAt(k)] \in Stamped

IInv == TypeOK /\ PusherKnows /\ PopperKnows /\ QueuedComplete

(* The successor of an index: one more, or back to the first slot.         *)
LEMMA NextIndexLemma ==
  ASSUME NEW i \in Slots
  PROVE  NextIndex(i) = IF i = Size - 1 THEN 0 ELSE i + 1
BY SizeAssumption DEF NextIndex, Slots

(* The slot at head lies outside the queued ones.                          *)
LEMMA SlotAtLemma ==
  ASSUME head \in Slots, tail \in Slots, NEW k \in 0 .. (Count - 1)
  PROVE  SlotAt(k) \in Slots /\ SlotAt(k) # head
BY SizeAssumption DEF Slots, Count, SlotAt

(* Publishing a push makes the queue one longer, at the end.               *)
LEMMA PublishedPushLemma ==
  ASSUME head \in Slots, tail \in Slots, NextIndex(head) # tail,
         head' = NextIndex(head), tail' = tail
  PROVE  /\ Count' = Count + 1
         /\ SlotAt(Count) = head
         /\ \A k \in Nat : SlotAt(k)' = SlotAt(k)
BY SizeAssumption, NextIndexLemma DEF Slots, Count, SlotAt

(* Publishing a pop makes the queue one shorter, at the front.             *)
LEMMA PublishedPopLemma ==
  ASSUME head \in Slots, tail \in Slots, head # tail,
         tail' = NextIndex(tail), head' = head
  PROVE  /\ Count > 0
         /\ Count' = Count - 1
         /\ SlotAt(0) = tail
         /\ \A k \in 0 .. (Count - 2) : SlotAt(k)' = SlotAt(k + 1)
BY SizeAssumption, NextIndexLemma DEF Slots, Count, SlotAt

(* The initial state satisfies the invariant.                              *)
LEMMA InitIInv == Init => IInv
BY SizeAssumption, NextIndexLemma
   DEF Init, IInv, TypeOK, PusherKnows, PopperKnows, QueuedComplete, Count, Slots

(* The steps of a push preserve the invariant.                             *)
LEMMA PushIInv == IInv /\ (Push \/ PusherCrash) => IInv'
<1> SUFFICES ASSUME IInv, Push \/ PusherCrash PROVE IInv'
  OBVIOUS
<1> USE SizeAssumption, NextIndexLemma
    DEF IInv, TypeOK, PusherKnows, PopperKnows, QueuedComplete, IsFull, IsEmpty,
        queueVars, popVars
<1>0. UNCHANGED <<head, tail>> => Count' = Count /\ \A k : SlotAt(k)' = SlotAt(k)
  BY DEF Count, SlotAt
<1>1. ASSUME NEW c \in Commands, PushLoadHead(c) PROVE IInv'
  BY <1>1, <1>0 DEF PushLoadHead, Entry, Slots
<1>2. CASE PushFull
  BY <1>2, <1>0 DEF PushFull
<1>3. CASE PushNotFull
  BY <1>3, <1>0 DEF PushNotFull
<1>4. CASE PushWrite
  <2>1. \A k \in 0 .. (Count - 1) : commands'[SlotAt(k)] = commands[SlotAt(k)]
    BY <1>4, SlotAtLemma DEF PushWrite
  <2>2. QueuedComplete'
    BY <1>4, <1>0, <2>1 DEF PushWrite
  <2>3. TypeOK' /\ PusherKnows'
    BY <1>4, SMT DEF PushWrite
  <2>4. PopperKnows'
    BY <1>4, SMT DEF PushWrite
  <2>5. QED
    BY <2>2, <2>3, <2>4
<1>5. CASE PushStamp
  <2>1. \A k \in 0 .. (Count - 1) : commands'[SlotAt(k)] = commands[SlotAt(k)]
    BY <1>5, SlotAtLemma DEF PushStamp
  <2>2. QueuedComplete'
    BY <1>5, <1>0, <2>1 DEF PushStamp
  <2>3. [cmd |-> pushed.cmd, stamped |-> TRUE] \in Entry \cap Stamped
    BY <1>5 DEF PushStamp, Entry, Stamped
  <2>4. TypeOK' /\ PusherKnows'
    BY <1>5, <2>3, SMT DEF PushStamp
  <2>5. PopperKnows'
    BY <1>5, SMT DEF PushStamp
  <2>6. QED
    BY <2>2, <2>4, <2>5
<1>6. CASE PushPublish
  <2>1. /\ Count' = Count + 1
        /\ SlotAt(Count) = head
        /\ \A k \in Nat : SlotAt(k)' = SlotAt(k)
    BY <1>6, PublishedPushLemma DEF PushPublish
  <2>2. Count \in Nat
    BY DEF Count, Slots
  <2>3. QueuedComplete'
    <3> SUFFICES ASSUME NEW k \in 0 .. (Count' - 1)
                 PROVE  commands[SlotAt(k)] \in Stamped
      BY <1>6, <2>1, <2>2 DEF PushPublish
    <3>1. CASE k = Count
      BY <3>1, <2>1, <1>6 DEF PushPublish
    <3>2. CASE k # Count
      BY <3>2, <2>1, <2>2
    <3>3. QED
      BY <3>1, <3>2
  <2>4. TypeOK' /\ PusherKnows' /\ PopperKnows'
    BY <1>6 DEF PushPublish, Slots
  <2>5. QED
    BY <2>3, <2>4
<1>7. CASE PusherCrash
  BY <1>7, <1>0 DEF PusherCrash
<1>8. QED
  BY <1>1, <1>2, <1>3, <1>4, <1>5, <1>6, <1>7 DEF Push

(* The steps of a pop preserve the invariant.                              *)
LEMMA PopIInv == IInv /\ (Pop \/ PopperCrash) => IInv'
<1> SUFFICES ASSUME IInv, Pop \/ PopperCrash PROVE IInv'
  OBVIOUS
<1> USE SizeAssumption, NextIndexLemma
    DEF IInv, TypeOK, PusherKnows, PopperKnows, QueuedComplete, IsFull, IsEmpty,
        queueVars, pushVars
<1>0. UNCHANGED <<head, tail>> => Count' = Count /\ \A k : SlotAt(k)' = SlotAt(k)
  BY DEF Count, SlotAt
<1>a. Count \in Nat
  BY DEF Count, Slots
<1>1. CASE PopLoadTail
  BY <1>1, <1>0 DEF PopLoadTail
<1>2. CASE PopEmpty
  BY <1>2, <1>0 DEF PopEmpty
<1>3. CASE PopNotEmpty
  BY <1>3, <1>0 DEF PopNotEmpty
<1>4. CASE PopRead
  BY <1>4, <1>0 DEF PopRead
<1>5. CASE PopPublish
  <2>1. /\ Count > 0
        /\ Count' = Count - 1
        /\ \A k \in 0 .. (Count - 2) : SlotAt(k)' = SlotAt(k + 1)
    BY <1>5, PublishedPopLemma DEF PopPublish
  <2>2. QueuedComplete'
    BY <1>5, <1>a, <2>1 DEF PopPublish
  <2>3. TypeOK' /\ PopperKnows' 
    BY <1>5 DEF PopPublish, Slots
  <2>4. PusherKnows'
    BY <1>5 DEF PopPublish, Slots
  <2>5. QED
    BY <2>2, <2>3, <2>4
<1>6. CASE PopperCrash
  BY <1>6, <1>0 DEF PopperCrash
<1>7. QED
  BY <1>1, <1>2, <1>3, <1>4, <1>5, <1>6 DEF Pop

(* IInv is an inductive invariant of the ring.                             *)
THEOREM QueueInvariant == Spec => []IInv
<1>1. IInv /\ UNCHANGED vars => IInv'
  BY DEF IInv, TypeOK, PusherKnows, PopperKnows, QueuedComplete, Count, SlotAt, vars
<1>2. IInv /\ [Next]_vars => IInv'
  BY <1>1, PushIInv, PopIInv DEF Next
<1>3. QED
  BY InitIInv, <1>2, PTL DEF Spec

(* Type correctness, for every ring size and every set of commands.        *)
THEOREM QueueTypeCorrect == Spec => []TypeOK
BY QueueInvariant, PTL DEF IInv

(* No slot is written by a push while a pop may be copying it.             *)
THEOREM QueueNoSlotRace == Spec => []NoSlotRace
<1>1. IInv => NoSlotRace
  BY DEF IInv, PusherKnows, PopperKnows, NoSlotRace
<1>2. QED
  BY <1>1, QueueInvariant, PTL

(* "Full" and "empty" are answered only in the states that are.            *)
THEOREM QueueRefusalsAreExact == Spec => RefusalsAreExact
<1>1. IInv /\ PushFull => Count = Size - 1
  BY SizeAssumption, NextIndexLemma
     DEF IInv, TypeOK, PusherKnows, PushFull, IsFull, Count, Slots
<1>2. IInv /\ PopEmpty => Count = 0
  BY DEF IInv, TypeOK, PopperKnows, PopEmpty, IsEmpty, Count, Slots
<1>3. IInv /\ [Next]_vars
        => [(PushFull => Count = Size - 1) /\ (PopEmpty => Count = 0)]_vars
  BY <1>1, <1>2
<1>4. QED
  BY <1>3, QueueInvariant, PTL DEF Spec, RefusalsAreExact

-----------------------------------------------------------------------------
(* The queue of the refinement mapping is a sequence of complete commands. *)
LEMMA QueuedLemma ==
  ASSUME IInv
  PROVE  Count \in Nat /\ Queued \in Seq(Stamped) /\ Len(Queued) = Count
<1>1. Count \in Nat
  BY SizeAssumption DEF IInv, TypeOK, Count, Slots
<1>2. \A k \in 1 .. Count : commands[SlotAt(k - 1)] \in Stamped
  BY <1>1 DEF IInv, QueuedComplete
<1>3. Queued \in [1 .. Count -> Stamped]
  BY <1>2 DEF Queued
<1>4. QED
  BY <1>1, <1>3

(* A step that publishes nothing leaves the abstract queue as it is.       *)
LEMMA QueuedUnchanged ==
  ASSUME IInv, UNCHANGED <<head, tail>>,
         \A k \in 0 .. (Count - 1) : commands'[SlotAt(k)] = commands[SlotAt(k)]
  PROVE  Queued' = Queued
<1>1. Count' = Count /\ \A k : SlotAt(k)' = SlotAt(k)
  BY DEF Count, SlotAt
<1>2. Count \in Nat
  BY QueuedLemma
<1>3. \A k \in 1 .. Count : commands'[SlotAt(k - 1)'] = commands[SlotAt(k - 1)]
  BY <1>1, <1>2
<1>4. QED
  BY <1>1, <1>3 DEF Queued

(* Storing head appends the command to the abstract queue.                 *)
LEMMA PublishAppends ==
  ASSUME IInv, PushPublish
  PROVE  Fifo!Push(commands[head])
<1>1. Count \in Nat /\ Queued \in Seq(Stamped) /\ Len(Queued) = Count
  BY QueuedLemma
<1>2. /\ Count' = Count + 1
      /\ SlotAt(Count) = head
      /\ \A k \in Nat : SlotAt(k)' = SlotAt(k)
  BY PublishedPushLemma DEF IInv, TypeOK, PusherKnows, PushPublish
<1>3. Count < Size - 1
  BY SizeAssumption, NextIndexLemma
     DEF IInv, TypeOK, PusherKnows, PushPublish, Count, Slots
<1>4. commands' = commands /\ received' = received
  BY DEF PushPublish, popVars
<1>5. Queued' = [k \in 1 .. (Count + 1) |-> commands[SlotAt(k - 1)]]
  BY <1>1, <1>2, <1>4 DEF Queued
<1>6. Append(Queued, commands[head]) = [k \in 1 .. (Count + 1) |-> commands[SlotAt(k - 1)]]
  <2>1. \A k \in 1 .. (Count + 1) :
          commands[SlotAt(k - 1)] = IF k <= Count THEN Queued[k] ELSE commands[head]
    BY <1>1, <1>2 DEF Queued
  <2>2. Append(Queued, commands[head])
          = [k \in 1 .. (Count + 1) |-> IF k <= Count THEN Queued[k] ELSE commands[head]]
    BY <1>1
  <2>3. QED
    BY <2>1, <2>2
<1>7. QED
  BY <1>1, <1>3, <1>4, <1>5, <1>6 DEF Fifo!Push

(* Storing tail takes the oldest command off the abstract queue, and it is *)
(* the one the call returns.                                               *)
LEMMA PublishTakes ==
  ASSUME IInv, PopPublish
  PROVE  Fifo!Pop
<1>1. Count \in Nat /\ Queued \in Seq(Stamped) /\ Len(Queued) = Count
  BY QueuedLemma
<1>2. /\ Count > 0
      /\ Count' = Count - 1
      /\ SlotAt(0) = tail
      /\ \A k \in 0 .. (Count - 2) : SlotAt(k)' = SlotAt(k + 1)
  BY PublishedPopLemma DEF IInv, TypeOK, PopperKnows, PopPublish
<1>3. commands' = commands /\ received' = commands[tail]
  BY DEF PopPublish, IInv, PopperKnows
<1>4. received' = Head(Queued) /\ Queued # << >>
  BY <1>1, <1>2, <1>3 DEF Queued
<1>5. Queued' = [k \in 1 .. (Count - 1) |-> Queued[k + 1]]
  <2>1. Queued' = [k \in 1 .. (Count - 1) |-> commands[SlotAt(k - 1)']]
    BY <1>2, <1>3 DEF Queued
  <2>2. \A k \in 1 .. (Count - 1) : commands[SlotAt(k - 1)'] = Queued[k + 1]
    BY <1>1, <1>2 DEF Queued
  <2>3. QED
    BY <2>1, <2>2
<1>6. Tail(Queued) = [k \in 1 .. (Count - 1) |-> Queued[k + 1]]
  <2>1. /\ Tail(Queued) \in Seq(Stamped)
        /\ Len(Tail(Queued)) = Count - 1
        /\ \A k \in 1 .. Len(Tail(Queued)) : Tail(Queued)[k] = Queued[k + 1]
    BY <1>1, <1>4, HeadTailProperties
  <2>2. Tail(Queued) \in [1 .. (Count - 1) -> Stamped]
    BY <2>1, LenProperties
  <2>3. \A k \in 1 .. (Count - 1) : Tail(Queued)[k] = Queued[k + 1]
    BY <2>1
  <2>4. QED
    BY <2>2, <2>3, Zenon
<1>7. QED
  BY <1>4, <1>5, <1>6 DEF Fifo!Pop

(* Every step of the ring is a push, a pop or a stutter of the FIFO.       *)
LEMMA RingStep ==
  ASSUME IInv, [Next]_vars
  PROVE  [Fifo!Next]_(Fifo!vars)
<1> USE DEF queueVars, pushVars, popVars
<1>1. ASSUME UNCHANGED <<head, tail, commands, received>> PROVE UNCHANGED Fifo!vars
  BY <1>1, QueuedUnchanged DEF Fifo!vars
<1>2. ASSUME PushWrite \/ PushStamp PROVE UNCHANGED Fifo!vars
  <2>1. pushHead = head /\ pushHead \in Slots
    BY <1>2 DEF IInv, TypeOK, PusherKnows, PushWrite, PushStamp
  <2>2. \A k \in 0 .. (Count - 1) : commands'[SlotAt(k)] = commands[SlotAt(k)]
    BY <1>2, <2>1, SlotAtLemma DEF IInv, TypeOK, PushWrite, PushStamp
  <2>3. UNCHANGED <<head, tail, received>>
    BY <1>2 DEF PushWrite, PushStamp
  <2>4. QED
    BY <2>2, <2>3, QueuedUnchanged DEF Fifo!vars
<1>3. CASE PushPublish
  <2>1. commands[head] \in Stamped
    BY <1>3 DEF IInv, PusherKnows, PushPublish
  <2>2. QED
    BY <1>3, <2>1, PublishAppends DEF Fifo!Next
<1>4. CASE PopPublish
  BY <1>4, PublishTakes DEF Fifo!Next
<1>5. CASE \/ \E c \in Commands : PushLoadHead(c)
           \/ PushFull \/ PushNotFull \/ PusherCrash
  BY <1>5, <1>1 DEF PushLoadHead, PushFull, PushNotFull, PusherCrash
<1>6. CASE PopLoadTail \/ PopEmpty \/ PopNotEmpty \/ PopRead \/ PopperCrash
  BY <1>6, <1>1 DEF PopLoadTail, PopEmpty, PopNotEmpty, PopRead, PopperCrash
<1>7. CASE UNCHANGED vars
  BY <1>7, <1>1 DEF vars
<1>8. QED
  BY <1>2, <1>3, <1>4, <1>5, <1>6, <1>7 DEF Next, Push, Pop

(* The ring implements the bounded FIFO of CommandFifo, with a process     *)
(* killed inside a call at any moment.                                     *)
THEOREM QueueImplementsFifo == Spec => ImplementsFifo
<1>1. Init => Fifo!Init
  BY DEF Init, Fifo!Init, Queued, Count
<1>2. IInv /\ [Next]_vars => [Fifo!Next]_(Fifo!vars)
  BY RingStep
<1>3. QED
  BY <1>1, <1>2, QueueInvariant, PTL DEF Spec, ImplementsFifo, Fifo!Spec
=============================================================================
