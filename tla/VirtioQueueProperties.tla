------------------------ MODULE VirtioQueueProperties ------------------------
(***************************************************************************)
(* What a virtqueue must guarantee to the driver and to its user.          *)
(***************************************************************************)
EXTENDS VirtioQueue

Distance(i, j) == (j + IndexMod - i) % IndexMod

(* The buffers in a ring from index i on, up to index j.                   *)
Nth(i, k) == (i + k - 1) % IndexMod
Entries(ring, i, j) ==
  [k \in 1..Distance(i, j) |-> ring[Slot(Nth(i, k))]]

(* The buffers the device still has to serve.  During the interrupt for a  *)
(* buffer the device has not counted it yet.                               *)
WaitsFrom == IF InIrq THEN Succ(lastAvail) ELSE lastAvail
Waiting == Entries(availRing, WaitsFrom, availIdx)
Used == Entries(usedRing, lastUsed, usedIdx)

(* The contract of a virtqueue: every buffer that the driver has made      *)
(* available and not taken back waits for the device or is used, and is so *)
(* once.  The device loses no buffer and uses none twice.  While a loop    *)
(* runs inside the interrupt of another, the counts are in flux.           *)
(* (orlix_virtio_mmio_push_used and the loops around it.)                  *)
BuffersAccountedFor ==
  ready /\ Len(calls) < 3 =>
    LET all == Waiting \o Used
    IN /\ {all[k] : k \in 1..Len(all)} = Buffer \ held
       /\ Len(all) = Cardinality(Buffer \ held)

(* What is sent arrives once and in order: requests complete as they were  *)
(* submitted, and the terminal gets what was typed.                        *)
InOrder == received = [k \in 1..Len(received) |-> k]

(* Why the queue of the block device keeps its contract: its two rings     *)
(* together are one queue, from which the driver takes the oldest buffer   *)
(* and to which it adds the newest; the device only moves the border       *)
(* between used and waiting buffers.  s is the queue, out the buffers in   *)
(* it, whose payloads follow the one that was received last.               *)
IsFifo(s, out, payloads, last) ==
  /\ {s[k] : k \in 1..Len(s)} = out /\ Len(s) = Cardinality(out)
  /\ \A k \in 1..Len(s) : payloads[s[k]] = last + k
Outstanding == Used \o Waiting

CallsInv == /\ calls \in {<<>>, <<"loop">>, <<"loop", "irq">>}
            /\ ~ready => calls = <<>> /\ ~work
QueueInv ==
  /\ TypeOK /\ CallsInv /\ ~broken
  /\ ~ready => held = Buffer /\ lastAvail = 0 /\ sent = Len(received)
  /\ ready => /\ IsFifo(Outstanding, Buffer \ held, content, Len(received))
              /\ sent = Len(received) + Len(Outstanding)
  /\ InOrder

(* The kernel does not stop in a call chain, and runs queued work.  The    *)
(* block driver owes nothing: it may submit, leave or stay as it likes.    *)
Fairness ==
  /\ WF_vars(NotifyWork)
  /\ WF_vars(LoopEnds \/ Serve)
  /\ WF_vars(TakeUsed \/ IrqReturns)

FairBlockSpec == BlockSpec /\ Fairness

(* Every request that was submitted completes: no notification is lost     *)
(* between the interrupt handler, the loop and the work item.              *)
RequestsComplete ==
  \A n \in 1..Last : sent >= n ~> \E k \in 1..Len(received) : received[k] = n
=============================================================================
