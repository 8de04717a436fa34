-------------------------- MODULE DataPoint_proofs --------------------------
(***************************************************************************)
(* Proofs about DataPoint: with one writer, of either kind, and any number *)
(* of readers, no read is torn and the point is an atomic register; with   *)
(* any number of C writers the sequence is even at rest and write_count    *)
(* counts every call.                                                      *)
(***************************************************************************)
EXTENDS DataPoint, FiniteSetTheorems, TLAPS

(* The contract under which the sequence number protects the point.        *)
SingleWriter == \E w : Writers = {w}

Before(pc) ==
  CASE pc = "quality"   -> {"value"}
    [] pc = "timestamp" -> {"value", "quality"}
    [] pc = "end"       -> Fields
    [] OTHER            -> {}

(* A writer that is not storing leaves an even sequence and the contents   *)
(* of the last closed write; one that is storing has made it odd and has   *)
(* already replaced the fields before the one it is at.                    *)
Storing(w) == wpc[w] \in Fields \cup {"end"}

WriterInv ==
  \A w \in Writers :
    /\ ~Storing(w) => Even(sequence) /\ point = stable
    /\ Storing(w) => ~Even(sequence) /\ \A f \in Before(wpc[w]) : point[f] = warg[w]
    /\ Storing(w) => warg[w] \in Payloads
    /\ wpc[w] = "open" => wload[w] = sequence /\ warg[w] \in Payloads
    /\ w \in BridgeWriters /\ Storing(w) => sequence = wload[w] + 1
    /\ wpc[w] \in {"open", "loadCount", "storeCount"} => w \in BridgeWriters

(* As long as the sequence is the even one a reader started from, what it  *)
(* has copied is what the point still holds.                               *)
ReaderInv ==
  \A r \in Readers : rpc[r] # "idle" =>
    /\ rseq[r] <= sequence
    /\ rseq[r] = sequence /\ Even(sequence)
         => \A f \in Before(rpc[r]) : copy[r][f] = point[f]

IInv == TypeOK /\ WriterInv /\ ReaderInv /\ NoTornRead

(* Parity alternates.                                                      *)
LEMMA EvenLemma ==
  ASSUME NEW n \in Nat
  PROVE  (Even(n + 1) <=> ~Even(n)) /\ (Even(n + 2) <=> Even(n))
BY DEF Even

(* The order in which the fields are visited.                              *)
LEMMA NextStepLemma ==
  /\ NextStep["value"] = "quality"
  /\ NextStep["quality"] = "timestamp"
  /\ NextStep["timestamp"] = "end"
  /\ \A f \in Fields : NextStep[f] \in {"quality", "timestamp", "end"}
BY DEF NextStep, Fields

LEMMA InitIInv == Init => IInv
BY MaxWritesAssumption
   DEF Init, IInv, TypeOK, WriterInv, ReaderInv, NoTornRead, Storing, Before, Even, Whole,
       Fields, WriterSteps

(* Type correctness does not need the contract: any number of writers.     *)
LEMMA TypeOKStep == TypeOK /\ [Next]_vars => TypeOK'
<1> SUFFICES ASSUME TypeOK, [Next]_vars PROVE TypeOK'
  OBVIOUS
<1> USE MaxWritesAssumption
    DEF TypeOK, WriterSteps, pointVars, writerVars, readerVars
<1>1. ASSUME NEW w \in Writers, NEW p \in Payloads, SetBegin(w, p) PROVE TypeOK'
  BY <1>1 DEF SetBegin, Fields
<1>2. ASSUME NEW w \in Writers, NEW p \in Payloads, BridgeLoad(w, p) PROVE TypeOK'
  BY <1>2 DEF BridgeLoad
<1>3. ASSUME NEW w \in Writers, StoreField(w) PROVE TypeOK'
  <2>1. wpc' \in [Writers -> WriterSteps]
    BY <1>3, NextStepLemma DEF StoreField, Fields
  <2>2. point' \in [Fields -> Payloads \cup {Zero}]
    BY <1>3 DEF StoreField
  <2>3. QED
    BY <1>3, <2>1, <2>2 DEF StoreField
<1>4. ASSUME NEW w \in Writers, SetEnd(w) \/ BridgeEnd(w) PROVE TypeOK'
  <2>1. w \in Writers /\ Whole(Zero) \in Contents \cup {Whole(Zero)}
    BY <1>4
  <2>2. CASE SetEnd(w)
    <3>1. sequence' \in Nat /\ stable' \in Contents \cup {Whole(Zero)}
      BY <2>1, <2>2 DEF SetEnd, Contents
    <3>2. QED
      BY <2>2, <3>1 DEF SetEnd
  <2>3. CASE BridgeEnd(w)
    <3>1. sequence' \in Nat /\ stable' \in Contents \cup {Whole(Zero)}
      BY <2>1, <2>3 DEF BridgeEnd, Contents
    <3>2. QED
      BY <2>3, <3>1 DEF BridgeEnd
  <2>4. QED
    BY <1>4, <2>2, <2>3
<1>5. ASSUME NEW w \in Writers, SetCount(w) PROVE TypeOK'
  BY <1>5 DEF SetCount
<1>6. ASSUME NEW w \in Writers, BridgeOpen(w) PROVE TypeOK'
  BY <1>6 DEF BridgeOpen, Fields
<1>7. ASSUME NEW w \in Writers, BridgeLoadCount(w) \/ BridgeStoreCount(w) PROVE TypeOK'
  <2>1. CASE BridgeLoadCount(w)
    BY <2>1 DEF BridgeLoadCount
  <2>2. CASE BridgeStoreCount(w)
    <3>1. wload[w] + 1 \in Nat
      BY <1>7
    <3>2. QED
      BY <2>2, <3>1 DEF BridgeStoreCount
  <2>3. QED
    BY <1>7, <2>1, <2>2
<1>8. ASSUME NEW r \in Readers, ReaderStep(r) PROVE TypeOK'
  <2>1. CASE GetBegin(r)
    BY <2>1 DEF GetBegin, Fields
  <2>2. CASE LoadField(r)
    <3>1. rpc' \in [Readers -> Fields \cup {"idle", "end"}]
      BY <2>2, NextStepLemma DEF LoadField, Fields
    <3>2. copy' \in [Readers -> [Fields -> Payloads \cup {Zero}]]
      BY <2>2 DEF LoadField
    <3>3. QED
      BY <2>2, <3>1, <3>2 DEF LoadField
  <2>3. CASE GetEnd(r)
    BY <2>3 DEF GetEnd
  <2>4. QED
    BY <1>8, <2>1, <2>2, <2>3 DEF ReaderStep
<1>9. CASE UNCHANGED vars
  BY <1>9 DEF vars
<1>10. QED
  BY <1>1, <1>2, <1>3, <1>4, <1>5, <1>6, <1>7, <1>8, <1>9 DEF Next, WriterStep

(* The steps of the single writer keep its own invariant and move the      *)
(* sequence away from the readers that are under way.                      *)
LEMMA WriterStepInv ==
  ASSUME SingleWriter, IInv, NEW w \in Writers, WriterStep(w)
  PROVE  WriterInv' /\ ReaderInv' /\ NoTornRead'
<1> USE DEF IInv, WriterInv, ReaderInv, NoTornRead, TypeOK, readerVars, pointVars
<1>0. /\ Writers = {w}
      /\ w \in CWriters <=> w \notin BridgeWriters
      /\ UNCHANGED readerVars
  BY WritersAssumption
     DEF SingleWriter, Writers, WriterStep, SetBegin, BridgeLoad, StoreField, SetEnd,
         SetCount, BridgeOpen, BridgeEnd, BridgeLoadCount, BridgeStoreCount
<1>a. Even(sequence + 1) <=> ~Even(sequence)
  BY EvenLemma
<1>1. ASSUME NEW p \in Payloads, SetBegin(w, p) PROVE WriterInv' /\ ReaderInv'
  BY <1>0, <1>a, <1>1 DEF SetBegin, Storing, Before, Fields
<1>2. ASSUME NEW p \in Payloads, BridgeLoad(w, p) PROVE WriterInv' /\ ReaderInv'
  BY <1>0, <1>2 DEF BridgeLoad, Storing, Before, Fields
<1>3. CASE StoreField(w)
  <2>1. Storing(w) /\ ~Even(sequence)
    BY <1>3 DEF StoreField, Storing
  <2>2. ReaderInv'
    BY <1>0, <1>3, <2>1 DEF StoreField
  <2>3. Storing(w)' /\ \A f \in Before(wpc[w])' : point'[f] = warg[w]
    BY <1>3, NextStepLemma DEF StoreField, Storing, Before, Fields, WriterSteps
  <2>4. WriterInv'
    BY <1>0, <1>3, <2>1, <2>3 DEF StoreField, Storing, Fields
  <2>5. QED
    BY <1>0, <2>2, <2>4
<1>4. CASE SetEnd(w) \/ BridgeEnd(w)
  <2>1. Storing(w) /\ wpc[w] = "end" /\ Before(wpc[w]) = Fields
    BY <1>4 DEF SetEnd, BridgeEnd, Storing, Before
  <2>2. sequence' = sequence + 1
    <3>1. CASE SetEnd(w)
      BY <3>1 DEF SetEnd
    <3>2. CASE BridgeEnd(w)
      <4>1. sequence = wload[w] + 1 /\ wload[w] \in Nat
        BY <2>1, <3>2 DEF BridgeEnd
      <4>2. QED
        BY <3>2, <4>1 DEF BridgeEnd
    <3>3. QED
      BY <1>4, <3>1, <3>2
  <2>3. point = Whole(warg[w])
    BY <2>1 DEF Whole
  <2>4. point' = point /\ stable' = Whole(warg[w]) /\ Even(sequence') /\ warg' = warg
    BY <1>4, <1>a, <2>1, <2>2 DEF SetEnd, BridgeEnd
  <2>5. wpc'[w] \in {"count", "loadCount"} /\ (wpc'[w] = "loadCount" => w \in BridgeWriters)
    BY <1>0, <1>4 DEF SetEnd, BridgeEnd
  <2>6. WriterInv'
    BY <1>0, <2>3, <2>4, <2>5 DEF Storing, Fields
  <2>7. ReaderInv'
    BY <1>0, <2>2
  <2>8. QED
    BY <1>0, <2>6, <2>7
<1>5. CASE SetCount(w)
  BY <1>0, <1>5 DEF SetCount, Storing, Before, Fields
<1>6. CASE BridgeOpen(w)
  <2>1. /\ w \in BridgeWriters /\ ~Storing(w) /\ warg[w] \in Payloads
        /\ wload[w] = sequence
    BY <1>6 DEF BridgeOpen, Storing, Fields
  <2>2. sequence' = sequence + 1 /\ ~Even(sequence')
    BY <1>6, <1>a, <2>1 DEF BridgeOpen
  <2>3. WriterInv'
    BY <1>0, <1>6, <2>1, <2>2 DEF BridgeOpen, Storing, Before, Fields
  <2>4. ReaderInv'
    BY <1>0, <2>2
  <2>5. QED
    BY <1>0, <2>3, <2>4
<1>7. CASE BridgeLoadCount(w)
  BY <1>0, <1>7 DEF BridgeLoadCount, Storing, Before, Fields
<1>8. CASE BridgeStoreCount(w)
  BY <1>0, <1>8 DEF BridgeStoreCount, Storing, Before, Fields
<1>9. QED
  BY <1>0, <1>1, <1>2, <1>3, <1>4, <1>5, <1>6, <1>7, <1>8 DEF WriterStep

(* The steps of a reader; an accepted copy is the stable contents.         *)
LEMMA ReaderStepInv ==
  ASSUME SingleWriter, IInv, NEW r \in Readers, ReaderStep(r)
  PROVE  WriterInv' /\ ReaderInv' /\ NoTornRead'
<1> USE DEF IInv, WriterInv, ReaderInv, NoTornRead, TypeOK, writerVars, pointVars
<1>0. UNCHANGED <<writerVars, pointVars>>
  BY DEF ReaderStep, GetBegin, LoadField, GetEnd
<1>1. WriterInv'
  BY <1>0 DEF Storing
<1>2. CASE GetBegin(r)
  BY <1>0, <1>1, <1>2 DEF GetBegin, Before
<1>3. CASE LoadField(r)
  <2>1. ASSUME NEW f \in Before(rpc[r])',
               rseq[r] = sequence, Even(sequence)
        PROVE  copy'[r][f] = point[f]
    BY <1>3, <2>1, NextStepLemma DEF LoadField, Before, Fields
  <2>2. ReaderInv'
    BY <1>0, <1>3, <2>1 DEF LoadField, Fields
  <2>3. QED
    BY <1>1, <1>3, <2>2 DEF LoadField
<1>4. CASE GetEnd(r)
  <2>1. Accepted(r) => copy[r] = stable
    <3> SUFFICES ASSUME Accepted(r) PROVE copy[r] = stable
      OBVIOUS
    <3>1. rseq[r] = sequence /\ Even(sequence)
      BY DEF Accepted
    <3>2. \A f \in Fields : copy[r][f] = point[f]
      BY <1>4, <3>1 DEF GetEnd, Before
    <3>3. point = stable
      BY <3>1 DEF SingleWriter
    <3>4. QED
      BY <3>2, <3>3
  <2>2. QED
    BY <1>0, <1>1, <1>4, <2>1 DEF GetEnd
<1>5. QED
  BY <1>2, <1>3, <1>4 DEF ReaderStep

(* IInv is inductive under the contract.                                   *)
LEMMA StepIInv == SingleWriter /\ IInv /\ [Next]_vars => IInv'
<1> SUFFICES ASSUME SingleWriter, IInv, [Next]_vars PROVE IInv'
  OBVIOUS
<1>1. TypeOK'
  BY TypeOKStep DEF IInv
<1>2. CASE UNCHANGED vars
  BY <1>1, <1>2 DEF IInv, WriterInv, ReaderInv, NoTornRead, Storing, vars
<1>3. CASE Next
  BY <1>1, <1>3, WriterStepInv, ReaderStepInv DEF Next, IInv
<1>4. QED
  BY <1>2, <1>3

(* Type correctness, with any number of writers of either kind.            *)
THEOREM PointTypeCorrect == Spec => []TypeOK
<1>1. Init => TypeOK
  BY InitIInv DEF IInv
<1>2. QED
  BY <1>1, TypeOKStep, PTL DEF Spec

(* With one writer, of either kind, and any number of readers, a read that *)
(* returns true returns the fields of one write.                           *)
THEOREM PointNoTornRead ==
  ASSUME SingleWriter
  PROVE  Spec => []NoTornRead
<1>1. IInv => NoTornRead
  BY DEF IInv
<1>2. IInv /\ [Next]_vars => IInv'
  BY StepIInv
<1>3. QED
  BY <1>1, <1>2, InitIInv, PTL DEF Spec

(* With one writer every step is a write of the abstract register, a read  *)
(* of it, or a stutter.                                                    *)
LEMMA RegisterStep ==
  ASSUME SingleWriter, IInv, [Next]_vars
  PROVE  [Register!Next]_(Register!vars)
<1> USE DEF IInv, TypeOK, Register!vars, readerVars, pointVars, writerVars
<1>1. CASE UNCHANGED vars
  BY <1>1 DEF vars
<1>2. ASSUME NEW w \in Writers, SetEnd(w) \/ BridgeEnd(w)
      PROVE  Register!Next
  <2>1. Storing(w)
    BY <1>2 DEF SetEnd, BridgeEnd, Storing
  <2>2. Whole(warg[w]) \in Contents
    BY <2>1 DEF WriterInv, Contents
  <2>3. stable' = Whole(warg[w]) /\ UNCHANGED got
    BY <1>2 DEF SetEnd, BridgeEnd
  <2>4. QED
    BY <2>2, <2>3 DEF Register!Next, Register!Write
<1>3. ASSUME NEW w \in Writers, WriterStep(w), ~SetEnd(w), ~BridgeEnd(w)
      PROVE  UNCHANGED Register!vars
  BY <1>3 DEF WriterStep, SetBegin, BridgeLoad, StoreField, SetCount, BridgeOpen,
              BridgeLoadCount, BridgeStoreCount
<1>4. ASSUME NEW r \in Readers, GetEnd(r)
      PROVE  [Register!Next]_(Register!vars)
  <2>1. CASE Accepted(r)
    <3>1. rseq[r] = sequence /\ Even(sequence)
      BY <2>1 DEF Accepted
    <3>2. \A f \in Fields : copy[r][f] = point[f]
      BY <1>4, <3>1 DEF GetEnd, Before, ReaderInv
    <3>3. point = stable
      BY <3>1 DEF SingleWriter, WriterInv
    <3>4. copy[r] = stable
      BY <3>2, <3>3
    <3>5. Register!Read(r)
      BY <1>4, <2>1, <3>4 DEF GetEnd, Register!Read
    <3>6. QED
      BY <3>5 DEF Register!Next
  <2>2. CASE ~Accepted(r)
    BY <1>4, <2>2 DEF GetEnd
  <2>3. QED
    BY <2>1, <2>2
<1>5. ASSUME NEW r \in Readers, GetBegin(r) \/ LoadField(r)
      PROVE  UNCHANGED Register!vars
  BY <1>5 DEF GetBegin, LoadField
<1>6. QED
  BY <1>1, <1>2, <1>3, <1>4, <1>5 DEF Next, WriterStep, ReaderStep

(* With one writer the point is an atomic register.                        *)
THEOREM PointImplementsRegister ==
  ASSUME SingleWriter
  PROVE  Spec => ImplementsAtomicPoint
<1>1. Init => Register!Init
  BY DEF Init, Register!Init
<1>2. IInv /\ [Next]_vars => [Register!Next]_(Register!vars)
  BY RegisterStep
<1>3. IInv /\ [Next]_vars => IInv'
  BY StepIInv
<1>4. QED
  BY <1>1, <1>2, <1>3, InitIInv, PTL DEF Spec, ImplementsAtomicPoint, Register!Spec

-----------------------------------------------------------------------------
(* Any number of C writers, no bridge.  atomic_fetch_add never loses an    *)
(* increment, so the parity of the sequence is that of the number of       *)
(* writers between their two increments, and write_count lags behind by    *)
(* the calls under way.                                                    *)
OnlyCWriters == BridgeWriters = {} /\ IsFiniteSet(Writers)

Inside == {w \in Writers : Storing(w)}

(* A process enters a finite set, or leaves it.                            *)
LEMMA EnterLemma ==
  ASSUME NEW S, IsFiniteSet(S), NEW w, w \notin S
  PROVE  /\ Cardinality(S \cup {w}) = Cardinality(S) + 1
         /\ Cardinality(S) \in Nat
BY FS_AddElement, FS_CardinalityType

LEMMA LeaveLemma ==
  ASSUME NEW S, IsFiniteSet(S), NEW w \in S
  PROVE  /\ Cardinality(S \ {w}) = Cardinality(S) - 1
         /\ Cardinality(S) \in Nat
BY FS_RemoveElement, FS_CardinalityType

CountInv ==
  /\ TypeOK
  /\ (sequence + Cardinality(Inside)) % 2 = 0
  /\ WriteCountExact

(* Without a bridge a writer is never in one of the bridge's steps.        *)
CSteps == \A w \in Writers : wpc[w] \in Fields \cup {"idle", "end", "count"}

LEMMA CStepsInit == Init => CSteps
BY DEF Init, CSteps

LEMMA CStepsStep ==
  ASSUME OnlyCWriters, TypeOK, CSteps, [Next]_vars
  PROVE  CSteps'
BY DEF OnlyCWriters, CSteps, TypeOK, Next, WriterStep, ReaderStep, vars, Writers, Fields, NextStep,
       SetBegin, BridgeLoad, StoreField, SetEnd, SetCount, BridgeOpen, BridgeEnd,
       BridgeLoadCount, BridgeStoreCount, GetBegin, LoadField, GetEnd, pointVars, writerVars

LEMMA CountStep ==
  ASSUME OnlyCWriters, CountInv, CSteps, [Next]_vars
  PROVE  CountInv'
<1> USE DEF OnlyCWriters, CountInv, Writers
<1>0. TypeOK'
  BY TypeOKStep
<1>a. IsFiniteSet(Inside) /\ IsFiniteSet(Under)
  BY FS_Subset DEF Inside, Under
<1>b. Cardinality(Inside) \in Nat /\ Cardinality(Under) \in Nat
  BY <1>a, FS_CardinalityType
<1>c. sequence \in Nat /\ writeCount \in Nat /\ writes \in Nat
      /\ wpc \in [Writers -> WriterSteps]
  BY MaxWritesAssumption DEF TypeOK
<1>d. WriteCountExact <=> writeCount + Cardinality(Under) = writes
  BY DEF WriteCountExact, Under
<1>e. WriteCountExact' <=> writeCount' + Cardinality(Under') = writes'
  BY DEF WriteCountExact, Under
<1>1. CASE UNCHANGED vars \/ \E r \in Readers : ReaderStep(r)
  <2>1. UNCHANGED <<wpc, sequence, writeCount, writes>>
    BY <1>1 DEF vars, ReaderStep, GetBegin, LoadField, GetEnd, pointVars, writerVars
  <2>2. Inside' = Inside /\ Under' = Under
    BY <2>1 DEF Inside, Under, Storing
  <2>3. QED
    BY <1>0, <1>d, <1>e, <2>1, <2>2
<1>2. ASSUME NEW w \in Writers, NEW p \in Payloads, SetBegin(w, p)
      PROVE  CountInv'
  <2>1. Inside' = Inside \cup {w} /\ w \notin Inside
    BY <1>2, <1>c DEF SetBegin, Inside, Storing, Fields
  <2>2. Under' = Under \cup {w} /\ w \notin Under
    BY <1>2, <1>c DEF SetBegin, Under
  <2>3. sequence' = sequence + 1 /\ writeCount' = writeCount /\ writes' = writes + 1
    BY <1>2 DEF SetBegin
  <2>4. Cardinality(Inside') = Cardinality(Inside) + 1 /\ Cardinality(Under') = Cardinality(Under) + 1
    BY <1>a, <2>1, <2>2, EnterLemma
  <2>5. (sequence' + Cardinality(Inside')) % 2 = 0
    <3>1. sequence' + Cardinality(Inside') = sequence + Cardinality(Inside) + 2
      BY <1>b, <1>c, <2>3, <2>4
    <3>2. QED
      BY <1>b, <1>c, <3>1
  <2>6. QED
    BY <1>0, <1>b, <1>c, <1>d, <1>e, <2>3, <2>4, <2>5
<1>3. ASSUME NEW w \in Writers, StoreField(w)
      PROVE  CountInv'
  <2>1. Inside' = Inside /\ Under' = Under
    BY <1>3, <1>c, NextStepLemma DEF StoreField, Inside, Under, Storing, Fields
  <2>2. UNCHANGED <<sequence, writeCount, writes>>
    BY <1>3 DEF StoreField
  <2>3. QED
    BY <1>0, <1>d, <1>e, <2>1, <2>2
<1>4. ASSUME NEW w \in Writers, SetEnd(w)
      PROVE  CountInv'
  <2>1. Inside' = Inside \ {w} /\ w \in Inside
    BY <1>4, <1>c DEF SetEnd, Inside, Storing, Fields
  <2>2. Under' = Under
    BY <1>4, <1>c DEF SetEnd, Under
  <2>3. sequence' = sequence + 1 /\ UNCHANGED <<writeCount, writes>>
    BY <1>4 DEF SetEnd
  <2>4. Cardinality(Inside') = Cardinality(Inside) - 1
    BY <1>a, <2>1, LeaveLemma
  <2>5. QED
    BY <1>0, <1>b, <1>c, <1>d, <1>e, <2>2, <2>3, <2>4
<1>5. ASSUME NEW w \in Writers, SetCount(w)
      PROVE  CountInv'
  <2>1. Inside' = Inside
    BY <1>5, <1>c DEF SetCount, Inside, Storing, Fields
  <2>2. Under' = Under \ {w} /\ w \in Under
    BY <1>5, <1>c DEF SetCount, Under
  <2>3. writeCount' = writeCount + 1 /\ UNCHANGED <<sequence, writes>>
    BY <1>5 DEF SetCount
  <2>4. Cardinality(Under') = Cardinality(Under) - 1
    BY <1>a, <2>2, LeaveLemma
  <2>5. QED
    BY <1>0, <1>b, <1>c, <1>d, <1>e, <2>1, <2>3, <2>4
<1>6. ASSUME NEW w \in Writers, WriterStep(w)
      PROVE  CountInv'
  BY <1>2, <1>3, <1>4, <1>5, <1>6
     DEF WriterStep, CSteps, BridgeLoad, BridgeOpen, BridgeEnd, BridgeLoadCount, BridgeStoreCount, Fields
<1>7. QED
  BY <1>1, <1>6 DEF Next

LEMMA CountInit ==
  ASSUME OnlyCWriters, Init
  PROVE  CountInv
<1>1. TypeOK
  BY InitIInv DEF IInv
<1>2. Inside = {} /\ Under = {}
  BY DEF Init, Inside, Under, Storing, Fields
<1>3. Cardinality({}) = 0
  BY FS_EmptySet
<1>4. QED
  BY <1>1, <1>2, <1>3 DEF Init, CountInv, WriteCountExact

(* Whenever no write is under way the sequence is even, with any number of *)
(* C writers: a reader that is alone with the point succeeds.              *)
THEOREM PointReadableAtRest ==
  ASSUME OnlyCWriters
  PROVE  Spec => []ReadableAtRest
<1>1. CountInv => ReadableAtRest
  <2> SUFFICES ASSUME CountInv, AtRest
               PROVE  Even(sequence)
    BY DEF ReadableAtRest
  <2>1. Inside = {}
    BY DEF AtRest, RestSteps, Inside, Storing, Fields
  <2>2. Cardinality(Inside) = 0
    BY <2>1, FS_EmptySet
  <2>3. QED
    BY <2>2 DEF CountInv, TypeOK, Even
<1>2. Init => CountInv /\ CSteps
  BY CountInit, CStepsInit
<1>3. CountInv /\ CSteps /\ [Next]_vars => (CountInv /\ CSteps)'
  BY CountStep, CStepsStep DEF CountInv
<1>4. QED
  BY <1>1, <1>2, <1>3, PTL DEF Spec

(* write_count and the calls under way make up every write, with any       *)
(* number of C writers.                                                    *)
THEOREM PointWriteCountExact ==
  ASSUME OnlyCWriters
  PROVE  Spec => []WriteCountExact
<1>1. Init => CountInv /\ CSteps
  BY CountInit, CStepsInit
<1>2. CountInv /\ CSteps /\ [Next]_vars => (CountInv /\ CSteps)'
  BY CountStep, CStepsStep DEF CountInv
<1>3. CountInv => WriteCountExact
  BY DEF CountInv
<1>4. QED
  BY <1>1, <1>2, <1>3, PTL DEF Spec

-----------------------------------------------------------------------------
(* Writers of both kinds.  The bridge may store a count that others have   *)
(* since overtaken, but what it has loaded is itself never ahead of the    *)
(* calls that were over when it loaded it.                                 *)
AheadInv ==
  /\ TypeOK
  /\ WriteCountNeverAhead
  /\ \A w \in Writers : wpc[w] = "storeCount" => wload[w] + Cardinality(Under) <= writes

LEMMA AheadStep ==
  ASSUME IsFiniteSet(Writers), AheadInv, [Next]_vars
  PROVE  AheadInv'
<1> USE DEF AheadInv, WriteCountNeverAhead
<1>0. TypeOK'
  BY TypeOKStep
<1>a. IsFiniteSet(Under) /\ Cardinality(Under) \in Nat
  BY FS_Subset, FS_CardinalityType DEF Under
<1>b. /\ writeCount \in Nat /\ writes \in Nat
      /\ wpc \in [Writers -> WriterSteps] /\ wload \in [Writers -> Nat]
  BY MaxWritesAssumption DEF TypeOK
<1>1. CASE UNCHANGED <<wpc, writeCount, writes, wload>>
  BY <1>0, <1>1 DEF Under
<1>2. ASSUME NEW w \in Writers, NEW p \in Payloads, SetBegin(w, p) \/ BridgeLoad(w, p)
      PROVE  AheadInv'
  <2>1. Under' = Under \cup {w} /\ w \notin Under
    BY <1>2, <1>b DEF SetBegin, BridgeLoad, Under
  <2>2. Cardinality(Under') = Cardinality(Under) + 1
    BY <1>a, <2>1, EnterLemma
  <2>3. writeCount' = writeCount /\ writes' = writes + 1
    BY <1>2 DEF SetBegin, BridgeLoad, pointVars
  <2>4. \A v \in Writers : wpc'[v] = "storeCount" => wpc[v] = "storeCount" /\ wload'[v] = wload[v]
    BY <1>2, <1>b DEF SetBegin, BridgeLoad
  <2>5. QED
    BY <1>0, <1>a, <1>b, <2>2, <2>3, <2>4
<1>3. ASSUME NEW w \in Writers, StoreField(w) \/ SetEnd(w) \/ BridgeOpen(w) \/ BridgeEnd(w)
      PROVE  AheadInv'
  <2>1. wpc[w] \notin {"idle", "storeCount"} /\ wpc'[w] \notin {"idle", "storeCount"}
    BY <1>3, <1>b, NextStepLemma DEF StoreField, SetEnd, BridgeOpen, BridgeEnd, Fields
  <2>2. /\ UNCHANGED <<writeCount, writes, wload>>
        /\ \A v \in Writers : v # w => wpc'[v] = wpc[v]
    BY <1>3, <1>b DEF StoreField, SetEnd, BridgeOpen, BridgeEnd
  <2>3. Under' = Under
    BY <2>1, <2>2 DEF Under
  <2>4. QED
    BY <1>0, <2>1, <2>2, <2>3
<1>4. ASSUME NEW w \in Writers, BridgeLoadCount(w)
      PROVE  AheadInv'
  <2>1. UNCHANGED <<writeCount, writes>> /\ wload' = [wload EXCEPT ![w] = writeCount]
    BY <1>4 DEF BridgeLoadCount, pointVars
  <2>2. wpc' = [wpc EXCEPT ![w] = "storeCount"] /\ wpc[w] = "loadCount"
    BY <1>4 DEF BridgeLoadCount
  <2>3. Under' = Under
    BY <1>b, <2>2 DEF Under
  <2>4. QED
    BY <1>0, <1>b, <2>1, <2>2, <2>3
<1>5. ASSUME NEW w \in Writers, SetCount(w) \/ BridgeStoreCount(w)
      PROVE  AheadInv'
  <2>1. Under' = Under \ {w} /\ w \in Under
    BY <1>5, <1>b DEF SetCount, BridgeStoreCount, Under
  <2>2. Cardinality(Under') = Cardinality(Under) - 1
    BY <1>a, <2>1, LeaveLemma
  <2>3. UNCHANGED <<writes, wload>> /\ wpc' = [wpc EXCEPT ![w] = "idle"]
    BY <1>5 DEF SetCount, BridgeStoreCount
  <2>4. writeCount' + Cardinality(Under') <= writes'
    <3>1. CASE SetCount(w)
      BY <1>a, <1>b, <2>2, <2>3, <3>1 DEF SetCount
    <3>2. CASE BridgeStoreCount(w)
      <4>1. writeCount' = wload[w] + 1 /\ wload[w] + Cardinality(Under) <= writes /\ wload[w] \in Nat
        BY <1>b, <3>2 DEF BridgeStoreCount
      <4>2. QED
        BY <1>a, <1>b, <2>2, <2>3, <4>1
    <3>3. QED
      BY <1>5, <3>1, <3>2
  <2>5. \A v \in Writers : wpc'[v] = "storeCount" => wload'[v] + Cardinality(Under') <= writes'
    BY <1>a, <1>b, <2>2, <2>3
  <2>6. QED
    BY <1>0, <2>4, <2>5
<1>6. ASSUME NEW r \in Readers, ReaderStep(r)
      PROVE  UNCHANGED <<wpc, writeCount, writes, wload>>
  BY <1>6 DEF ReaderStep, GetBegin, LoadField, GetEnd, pointVars, writerVars
<1>7. CASE UNCHANGED vars
  BY <1>1, <1>7 DEF vars
<1>8. QED
  BY <1>1, <1>2, <1>3, <1>4, <1>5, <1>6, <1>7 DEF Next, WriterStep

(* write_count never reports a write that has not been made, whatever the  *)
(* writers, of both kinds, do to each other's counts.                      *)
THEOREM PointWriteCountNeverAhead ==
  ASSUME IsFiniteSet(Writers)
  PROVE  Spec => []WriteCountNeverAhead
<1>1. Init => AheadInv
  <2> SUFFICES ASSUME Init PROVE AheadInv
    OBVIOUS
  <2>1. TypeOK
    BY InitIInv DEF IInv
  <2>2. Under = {} /\ Cardinality({}) = 0
    BY FS_EmptySet DEF Init, Under
  <2>3. QED
    BY <2>1, <2>2 DEF Init, AheadInv, WriteCountNeverAhead
<1>2. AheadInv /\ [Next]_vars => AheadInv'
  BY AheadStep
<1>3. AheadInv => WriteCountNeverAhead
  BY DEF AheadInv
<1>4. QED
  BY <1>1, <1>2, <1>3, PTL DEF Spec
=============================================================================
