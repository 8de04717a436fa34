----------------------------- MODULE DataPoint -----------------------------
(***************************************************************************)
(* One data point of the shared-memory segment, protected by a sequence    *)
(* number: rt_db_set_value and rt_db_get_value, and write_point of the     *)
(* Python bridge of the monitoring page, which writes the same points.     *)
(* Every load and store is a step.  The C writer increments the sequence   *)
(* atomically; the bridge loads it once and stores twice.                  *)
(*                                                                         *)
(* A write carries one payload, stored in the three fields one after the   *)
(* other, so that fields of different writes can be told apart.            *)
(***************************************************************************)
EXTENDS Integers, FiniteSets

CONSTANTS
  CWriters,       \* processes that call rt_db_set_value
  BridgeWriters,  \* processes that call write_point of the bridge
  Readers,        \* processes that call rt_db_get_value
  Payloads,       \* what a write carries
  Zero,           \* the contents after initialisation
  MaxWrites       \* bound: how many writes begin (2 * MaxWrites stays far
                  \* below the 2^32 at which `long` wraps on Windows)

Writers == CWriters \cup BridgeWriters

ASSUME WritersAssumption == CWriters \cap BridgeWriters = {}
ASSUME PayloadsAssumption == Zero \notin Payloads
ASSUME MaxWritesAssumption == MaxWrites \in Nat

VARIABLES
  point,       \* value, quality and timestamp of the DataPoint
  sequence,    \* its sequence number
  writeCount,  \* header.write_count
  writes,      \* how many writes have begun
  wpc,         \* wpc[w]: where writer w is in its call
  warg,        \* warg[w]: the payload it writes
  wload,       \* wload[w]: the bridge's local copy of sequence or write_count
  rpc,         \* rpc[r]: where reader r is in rt_db_get_value
  rseq,        \* rseq[r]: its local seq_before
  copy,        \* copy[r]: *value, *quality, *timestamp
  got,         \* got[r]: the outputs of the last call that returned true
  stable       \* history: the payload of the last write that was closed

pointVars == <<point, sequence, writeCount, stable>>
writerVars == <<writes, wpc, warg, wload>>
readerVars == <<rpc, rseq, copy, got>>
vars == <<point, sequence, writeCount, stable, writes, wpc, warg, wload, rpc, rseq, copy, got>>

Fields == {"value", "quality", "timestamp"}

(* Both calls visit the fields in the order of the code.                   *)
NextStep == [value |-> "quality", quality |-> "timestamp", timestamp |-> "end"]

Whole(p) == [f \in Fields |-> p]
Contents == {Whole(p) : p \in Payloads}

Even(n) == n % 2 = 0

-----------------------------------------------------------------------------
Init ==
  /\ point = Whole(Zero)
  /\ sequence = 0
  /\ writeCount = 0
  /\ stable = Whole(Zero)
  /\ writes = 0
  /\ wpc = [w \in Writers |-> "idle"]
  /\ warg = [w \in Writers |-> Zero]
  /\ wload = [w \in Writers |-> 0]
  /\ rpc = [r \in Readers |-> "idle"]
  /\ rseq = [r \in Readers |-> 0]
  /\ copy = [r \in Readers |-> Whole(Zero)]
  /\ got = [r \in Readers |-> Whole(Zero)]

-----------------------------------------------------------------------------
(* rt_db_set_value: sequence + 1, the three fields, sequence + 1, then     *)
(* write_count + 1.                                                        *)

(* Mutant: the first increment is missing.                                 *)
SetBeginUnmarked(w, p) ==
  /\ w \in CWriters
  /\ wpc[w] = "idle"
  /\ writes < MaxWrites
  /\ writes' = writes + 1
  /\ warg' = [warg EXCEPT ![w] = p]
  /\ wpc' = [wpc EXCEPT ![w] = "value"]
  /\ UNCHANGED <<pointVars, wload, readerVars>>

SetBegin(w, p) ==
  /\ w \in CWriters
  /\ wpc[w] = "idle"
  /\ writes < MaxWrites
  /\ writes' = writes + 1
  /\ sequence' = sequence + 1
  /\ warg' = [warg EXCEPT ![w] = p]
  /\ wpc' = [wpc EXCEPT ![w] = "value"]
  /\ UNCHANGED <<point, writeCount, stable, wload, readerVars>>

(* Either kind of writer stores one field.                                 *)
StoreField(w) ==
  /\ wpc[w] \in Fields
  /\ point' = [point EXCEPT ![wpc[w]] = warg[w]]
  /\ wpc' = [wpc EXCEPT ![w] = NextStep[wpc[w]]]
  /\ UNCHANGED <<sequence, writeCount, stable, writes, warg, wload, readerVars>>

SetEnd(w) ==
  /\ w \in CWriters
  /\ wpc[w] = "end"
  /\ sequence' = sequence + 1
  /\ stable' = Whole(warg[w])
  /\ wpc' = [wpc EXCEPT ![w] = "count"]
  /\ UNCHANGED <<point, writeCount, writes, warg, wload, readerVars>>

(* Mutant: atomic_fetch_sub for atomic_fetch_add.                          *)
SetCountDown(w) ==
  /\ w \in CWriters
  /\ wpc[w] = "count"
  /\ writeCount' = writeCount - 1
  /\ wpc' = [wpc EXCEPT ![w] = "idle"]
  /\ UNCHANGED <<point, sequence, stable, writes, warg, wload, readerVars>>

SetCount(w) ==
  /\ w \in CWriters
  /\ wpc[w] = "count"
  /\ writeCount' = writeCount + 1
  /\ wpc' = [wpc EXCEPT ![w] = "idle"]
  /\ UNCHANGED <<point, sequence, stable, writes, warg, wload, readerVars>>

-----------------------------------------------------------------------------
(* write_point: the sequence is loaded once, and stored as loaded + 1 and  *)
(* loaded + 2; write_count is loaded, then stored.                         *)

BridgeLoad(w, p) ==
  /\ w \in BridgeWriters
  /\ wpc[w] = "idle"
  /\ writes < MaxWrites
  /\ writes' = writes + 1
  /\ wload' = [wload EXCEPT ![w] = sequence]
  /\ warg' = [warg EXCEPT ![w] = p]
  /\ wpc' = [wpc EXCEPT ![w] = "open"]
  /\ UNCHANGED <<pointVars, readerVars>>

BridgeOpen(w) ==
  /\ wpc[w] = "open"
  /\ sequence' = wload[w] + 1
  /\ wpc' = [wpc EXCEPT ![w] = "value"]
  /\ UNCHANGED <<point, writeCount, stable, writes, warg, wload, readerVars>>

BridgeEnd(w) ==
  /\ w \in BridgeWriters
  /\ wpc[w] = "end"
  /\ sequence' = wload[w] + 2
  /\ stable' = Whole(warg[w])
  /\ wpc' = [wpc EXCEPT ![w] = "loadCount"]
  /\ UNCHANGED <<point, writeCount, writes, warg, wload, readerVars>>

BridgeLoadCount(w) ==
  /\ wpc[w] = "loadCount"
  /\ wload' = [wload EXCEPT ![w] = writeCount]
  /\ wpc' = [wpc EXCEPT ![w] = "storeCount"]
  /\ UNCHANGED <<writes, warg, pointVars, readerVars>>

(* Mutant: write_count is stored as loaded + 2, as the sequence is.        *)
BridgeStoreCountTwice(w) ==
  /\ wpc[w] = "storeCount"
  /\ writeCount' = wload[w] + 2
  /\ wpc' = [wpc EXCEPT ![w] = "idle"]
  /\ UNCHANGED <<point, sequence, stable, writes, warg, wload, readerVars>>

BridgeStoreCount(w) ==
  /\ wpc[w] = "storeCount"
  /\ writeCount' = wload[w] + 1
  /\ wpc' = [wpc EXCEPT ![w] = "idle"]
  /\ UNCHANGED <<point, sequence, stable, writes, warg, wload, readerVars>>

-----------------------------------------------------------------------------
(* rt_db_get_value                                                         *)

(* Mutant: a sequence once loaded is kept for the next call.               *)
GetBeginCached(r) ==
  /\ rpc[r] = "idle"
  /\ rseq' = [rseq EXCEPT ![r] = IF @ = 0 THEN sequence ELSE @]
  /\ rpc' = [rpc EXCEPT ![r] = "value"]
  /\ UNCHANGED <<copy, got, pointVars, writerVars>>

GetBegin(r) ==
  /\ rpc[r] = "idle"
  /\ rseq' = [rseq EXCEPT ![r] = sequence]
  /\ rpc' = [rpc EXCEPT ![r] = "value"]
  /\ UNCHANGED <<copy, got, pointVars, writerVars>>

LoadField(r) ==
  /\ rpc[r] \in Fields
  /\ copy' = [copy EXCEPT ![r][rpc[r]] = point[rpc[r]]]
  /\ rpc' = [rpc EXCEPT ![r] = NextStep[rpc[r]]]
  /\ UNCHANGED <<rseq, got, pointVars, writerVars>>

(* Mutants of the acceptance test.                                         *)
AcceptedIfEqual(r) == rseq[r] = sequence
AcceptedIfEven(r) == Even(rseq[r])

Accepted(r) == rseq[r] = sequence /\ Even(rseq[r])

GetEnd(r) ==
  /\ rpc[r] = "end"
  /\ got' = IF Accepted(r) THEN [got EXCEPT ![r] = copy[r]] ELSE got
  /\ rpc' = [rpc EXCEPT ![r] = "idle"]
  /\ UNCHANGED <<rseq, copy, pointVars, writerVars>>

-----------------------------------------------------------------------------
(* A writer is killed inside its call; a new process takes its place.      *)
WriterCrash(w) ==
  /\ wpc[w] # "idle"
  /\ wpc' = [wpc EXCEPT ![w] = "idle"]
  /\ UNCHANGED <<writes, warg, wload, pointVars, readerVars>>

WriterStep(w) ==
  \/ \E p \in Payloads : SetBegin(w, p) \/ BridgeLoad(w, p)
  \/ StoreField(w) \/ SetEnd(w) \/ SetCount(w)
  \/ BridgeOpen(w) \/ BridgeEnd(w) \/ BridgeLoadCount(w) \/ BridgeStoreCount(w)

ReaderStep(r) == GetBegin(r) \/ LoadField(r) \/ GetEnd(r)

Next == (\E w \in Writers : WriterStep(w)) \/ (\E r \in Readers : ReaderStep(r))

Spec == Init /\ [][Next]_vars

CrashSpec == Init /\ [][Next \/ \E w \in Writers : WriterCrash(w)]_vars

-----------------------------------------------------------------------------
WriterSteps == Fields \cup
  {"idle", "open", "end", "count", "loadCount", "storeCount"}

(* Every variable keeps to the values the code can store in it.            *)
TypeOK ==
  /\ point \in [Fields -> Payloads \cup {Zero}]
  /\ sequence \in Nat
  /\ writeCount \in Nat
  /\ stable \in Contents \cup {Whole(Zero)}
  /\ writes \in 0 .. MaxWrites
  /\ wpc \in [Writers -> WriterSteps]
  /\ warg \in [Writers -> Payloads \cup {Zero}]
  /\ wload \in [Writers -> Nat]
  /\ rpc \in [Readers -> Fields \cup {"idle", "end"}]
  /\ rseq \in [Readers -> Nat]
  /\ copy \in [Readers -> [Fields -> Payloads \cup {Zero}]]
  /\ got \in [Readers -> [Fields -> Payloads \cup {Zero}]]

(* A call of rt_db_get_value that returns true returns value, quality and  *)
(* timestamp of one and the same write, however the calls interleave.      *)
NoTornRead == \A r \in Readers : got[r] \in Contents \cup {Whole(Zero)}

(* With one writer the point is an atomic register: a successful read also *)
(* returns what the last closed write stored, never something older.       *)
Register == INSTANCE AtomicPoint WITH Initial <- Whole(Zero)
ImplementsAtomicPoint == Register!Spec

(* Whenever no write is under way the sequence is even, so a reader that   *)
(* is alone with the point succeeds.                                       *)
RestSteps == {"idle", "count", "loadCount", "storeCount"}
AtRest == \A w \in Writers : wpc[w] \in RestSteps
ReadableAtRest == AtRest => Even(sequence)

(* Without the bridge write_count and the calls under way make up every    *)
(* write that has begun.                                                   *)
Under == {w \in Writers : wpc[w] # "idle"}
WriteCountExact == writeCount + Cardinality(Under) = writes

(* The bridge counts with a load and a store, beside the atomic increments *)
(* of the C writers and other bridges.  It may lose counts, its own and    *)
(* theirs, but write_count never reports a write that has not been made:   *)
(* it and the calls under way are never more than the writes begun.        *)
WriteCountNeverAhead == writeCount + Cardinality(Under) <= writes

(* Once the writer pauses every reader obtains what is stored.             *)
ReadersCatchUp == \A r \in Readers : []<>(got[r] = point)
=============================================================================
