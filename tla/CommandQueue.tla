---------------------------- MODULE CommandQueue ----------------------------
(***************************************************************************)
(* The lock-free command ring of the shared-memory segment                 *)
(* (rt_db_push_command and rt_db_pop_command).  One process pushes (the    *)
(* runner, the dispatch centre) and one pops (a scene controller).  Every  *)
(* access to the segment is a step of its own, so the two calls interleave *)
(* at every load and store.  Either process may be killed between any two  *)
(* steps and started again: the segment keeps what was stored, the locals  *)
(* are gone.                                                               *)
(***************************************************************************)
EXTENDS Integers, Sequences

CONSTANTS
  Size,       \* COMMAND_QUEUE_SIZE
  Commands,   \* the commands a caller pushes
  NoCommand   \* a slot, or a local, that holds no command

ASSUME SizeAssumption == Size \in Nat /\ Size >= 2
ASSUME NoCommandAssumption == NoCommand \notin [cmd : Commands, stamped : BOOLEAN]

VARIABLES
  head,       \* queue->head, the next slot to write
  tail,       \* queue->tail, the next slot to read
  commands,   \* queue->commands
  pushPc,     \* where the pushing process is in rt_db_push_command
  pushed,     \* its argument
  pushHead,   \* its local current_head
  popPc,      \* where the popping process is in rt_db_pop_command
  popTail,    \* its local current_tail
  copied,     \* *command, filled before tail is stored
  received    \* the command the last successful pop returned

queueVars == <<head, tail, commands>>
pushVars == <<pushPc, pushed, pushHead>>
popVars == <<popPc, popTail, copied, received>>
vars == <<head, tail, commands, pushPc, pushed, pushHead, popPc, popTail, copied, received>>

Slots == 0 .. (Size - 1)
Entry == [cmd : Commands, stamped : BOOLEAN]
Stamped == [cmd : Commands, stamped : {TRUE}]

(* Mutant: the index does not wrap.                                        *)
NextIndexUnwrapped(i) == i + 1

NextIndex(i) == (i + 1) % Size

(* Mutants of the two comparisons.                                         *)
NeverFull(h, t) == FALSE
FullTooEarly(h, t) == NextIndex(h) = t \/ NextIndex(NextIndex(h)) = t
EmptyTooEarly(h, t) == h = t \/ NextIndex(t) = h

IsFull(h, t) == NextIndex(h) = t
IsEmpty(h, t) == h = t

-----------------------------------------------------------------------------
(* The initial contents: initialize_shared_memory_segment zeroes the whole *)
(* segment and sets both indices to 0.                                     *)
Init ==
  /\ head = 0
  /\ tail = 0
  /\ commands = [i \in Slots |-> NoCommand]
  /\ pushPc = "idle"
  /\ pushed = NoCommand
  /\ pushHead = 0
  /\ popPc = "idle"
  /\ popTail = 0
  /\ copied = NoCommand
  /\ received = NoCommand

-----------------------------------------------------------------------------
(* rt_db_push_command                                                      *)

PushLoadHead(c) ==
  /\ pushPc = "idle"
  /\ pushHead' = head
  /\ pushed' = [cmd |-> c, stamped |-> FALSE]
  /\ pushPc' = "check"
  /\ UNCHANGED <<queueVars, popVars>>

(* The load of tail and the test for a full queue: the call returns false. *)
PushFull ==
  /\ pushPc = "check"
  /\ IsFull(pushHead, tail)
  /\ pushPc' = "idle"
  /\ UNCHANGED <<pushed, pushHead, queueVars, popVars>>

PushNotFull ==
  /\ pushPc = "check"
  /\ ~IsFull(pushHead, tail)
  /\ pushPc' = "write"
  /\ UNCHANGED <<pushed, pushHead, queueVars, popVars>>

PushWrite ==
  /\ pushPc = "write"
  /\ commands' = [commands EXCEPT ![pushHead] = pushed]
  /\ pushPc' = "stamp"
  /\ UNCHANGED <<head, tail, pushed, pushHead, popVars>>

(* update_timestamp on the slot's issue_time, after the copy.              *)
PushStamp ==
  /\ pushPc = "stamp"
  /\ commands' = [commands EXCEPT ![pushHead] = [cmd |-> pushed.cmd, stamped |-> TRUE]]
  /\ pushPc' = "publish"
  /\ UNCHANGED <<head, tail, pushed, pushHead, popVars>>

PushPublish ==
  /\ pushPc = "publish"
  /\ head' = NextIndex(pushHead)
  /\ pushPc' = "idle"
  /\ UNCHANGED <<tail, commands, pushed, pushHead, popVars>>

-----------------------------------------------------------------------------
(* rt_db_pop_command                                                       *)

PopLoadTail ==
  /\ popPc = "idle"
  /\ popTail' = tail
  /\ popPc' = "check"
  /\ UNCHANGED <<copied, received, queueVars, pushVars>>

PopEmpty ==
  /\ popPc = "check"
  /\ IsEmpty(head, popTail)
  /\ popPc' = "idle"
  /\ UNCHANGED <<popTail, copied, received, queueVars, pushVars>>

PopNotEmpty ==
  /\ popPc = "check"
  /\ ~IsEmpty(head, popTail)
  /\ popPc' = "read"
  /\ UNCHANGED <<popTail, copied, received, queueVars, pushVars>>

(* Mutant: the tail is published before the slot is copied.                *)
PopReadAfterPublish ==
  /\ popPc = "read"
  /\ tail' = NextIndex(popTail)
  /\ copied' = commands[popTail]
  /\ popPc' = "publish"
  /\ UNCHANGED <<popTail, received, head, commands, pushVars>>

PopRead ==
  /\ popPc = "read"
  /\ copied' = commands[popTail]
  /\ popPc' = "publish"
  /\ UNCHANGED <<popTail, received, queueVars, pushVars>>

PopPublish ==
  /\ popPc = "publish"
  /\ tail' = NextIndex(popTail)
  /\ received' = copied
  /\ popPc' = "idle"
  /\ UNCHANGED <<popTail, copied, head, commands, pushVars>>

-----------------------------------------------------------------------------
(* A process is killed inside a call and a new one takes its place.        *)

PusherCrash ==
  /\ pushPc # "idle"
  /\ pushPc' = "idle"
  /\ UNCHANGED <<pushed, pushHead, queueVars, popVars>>

PopperCrash ==
  /\ popPc # "idle"
  /\ popPc' = "idle"
  /\ UNCHANGED <<popTail, copied, received, queueVars, pushVars>>

-----------------------------------------------------------------------------
Push == \/ \E c \in Commands : PushLoadHead(c)
        \/ PushFull \/ PushNotFull \/ PushWrite \/ PushStamp \/ PushPublish

Pop == PopLoadTail \/ PopEmpty \/ PopNotEmpty \/ PopRead \/ PopPublish

Next == Push \/ Pop \/ PusherCrash \/ PopperCrash

Spec == Init /\ [][Next]_vars

(* The controller of scene 1 or 4 polls the queue in every cycle of an     *)
(* endless loop, so its calls never stop, and some day it is no longer     *)
(* killed: from then on the only steps that look like a kill are those of  *)
(* an empty answer.  The pushing process may push, pause and be killed as  *)
(* it likes.                                                               *)
FairSpec == Spec /\ WF_vars(Pop) /\ <>[][PopperCrash => PopEmpty]_vars

-----------------------------------------------------------------------------
(* The refinement mapping: what lies between tail and head, oldest first.  *)
Count == IF tail <= head THEN head - tail ELSE head + Size - tail
SlotAt(k) == IF tail + k < Size THEN tail + k ELSE tail + k - Size
Queued == [k \in 1 .. Count |-> commands[SlotAt(k - 1)]]

Fifo == INSTANCE CommandFifo
          WITH Commands <- Stamped, Capacity <- Size - 1, queue <- Queued

(* Every variable keeps to the values the code can store in it.            *)
TypeOK ==
  /\ head \in Slots
  /\ tail \in Slots
  /\ commands \in [Slots -> Entry \cup {NoCommand}]
  /\ pushPc \in {"idle", "check", "write", "stamp", "publish"}
  /\ pushed \in Entry \cup {NoCommand}
  /\ pushHead \in Slots
  /\ popPc \in {"idle", "check", "read", "publish"}
  /\ popTail \in Slots
  /\ copied \in Entry \cup {NoCommand}
  /\ received \in Entry \cup {NoCommand}

(* The slot being written is never one the popping process may be reading: *)
(* the full test of rt_db_push_command and the empty test of               *)
(* rt_db_pop_command keep the two plain struct copies apart.               *)
NoSlotRace ==
  pushPc \in {"write", "stamp", "publish"} /\ popPc \in {"read", "publish"}
    => pushHead # popTail

(* With its loads and stores interleaved, and with processes killed inside *)
(* a call, the ring is still a bounded FIFO: pops return complete, stamped *)
(* commands, each one once, in the order they were pushed.                 *)
ImplementsFifo == Fifo!Spec

(* rt_db_push_command answers "full" only when Size - 1 commands wait, and *)
(* rt_db_pop_command answers "empty" only when none does, although each    *)
(* compares an index of its own with one the other process is moving.      *)
RefusalsAreExact ==
  [][/\ PushFull => Count = Size - 1
     /\ PopEmpty => Count = 0]_vars

(* A command that waits is received, whatever the pushing process does and *)
(* wherever it is killed, as long as the popping process keeps polling.    *)
EveryCommandIsReceived ==
  \A e \in Stamped :
    (Count > 0 /\ Queued[1] = e) ~> (received = e)
=============================================================================
