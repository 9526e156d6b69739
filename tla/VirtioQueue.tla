---------------------------- MODULE VirtioQueue ----------------------------
(***************************************************************************)
(* A split virtqueue between an upstream Linux driver and the virtio-mmio  *)
(* device that runs in the same kernel, on the same CPU (mmio.c).  The     *)
(* device raises its interrupt by calling the handler of the driver, from  *)
(* the middle of its loop over the available buffers; the handler may add  *)
(* buffers and notify the device from there.  The block device defers the  *)
(* notification to a work item, the console device serves it at once.      *)
(*                                                                         *)
(* The kernel is not preemptible, so a call chain runs to its end: it is   *)
(* the variable calls.  Only the host thread that types runs in parallel.  *)
(*                                                                         *)
(* Operators whose names end in _Mutant are not part of the model: each is *)
(* a plausible bug in the definition that follows it.                      *)
(***************************************************************************)
EXTENDS Naturals, Sequences, FiniteSets

CONSTANTS
  Size,      \* buffers, and entries of each ring: queue->num
  IndexMod,  \* 2^16 in the code: the indices of the rings wrap there
  Deferred,  \* the device is the block device; otherwise console input
  Last       \* payloads are the numbers 1..Last, in the order of sending

ASSUME SizeAssumption == /\ Size \in Nat \ {0}
                         /\ IndexMod \in Nat \ {0}
                         /\ IndexMod % Size = 0
                         /\ IndexMod > Size
ASSUME DeviceAssumption == Deferred \in BOOLEAN
ASSUME PayloadAssumption == Last \in Nat

Buffer == 0..(Size - 1)
Index == 0..(IndexMod - 1)
Payload == 0..Last   \* 0: none

VARIABLES
  ready,      \* queue->ready
  lastAvail,  \* queue->last_avail
  pending,    \* slot->pending_queues holds the queue
  work,       \* the work item is queued
  availIdx, availRing,
  usedIdx, usedRing,
  lastUsed,   \* of the driver: the next used entry it looks at
  held,       \* of the driver: the buffers it has not made available
  broken,     \* the driver got a used buffer it had not made available
  content,    \* the payload in a buffer
  input,      \* payloads in the host ring, oldest first
  sent,       \* how many payloads the host or the driver has sent
  received,   \* the payloads the driver has received
  calls       \* the call chain, innermost last

deviceVars == <<ready, lastAvail, pending, work>>
availVars == <<availIdx, availRing>>
usedVars == <<usedIdx, usedRing>>
driverVars == <<lastUsed, held, broken, received>>
vars == <<deviceVars, availVars, usedVars, driverVars, content, input, sent, calls>>

(* "loop" serves available buffers; "irq" is the interrupt handler of the  *)
(* driver, called by the loop below it.                                    *)
Call == {"loop", "irq"}

TypeOK ==
  /\ ready \in BOOLEAN /\ pending \in BOOLEAN /\ work \in BOOLEAN
  /\ lastAvail \in Index /\ availIdx \in Index
  /\ usedIdx \in Index /\ lastUsed \in Index
  /\ availRing \in [Buffer -> Buffer] /\ usedRing \in [Buffer -> Buffer]
  /\ held \in SUBSET Buffer /\ broken \in BOOLEAN
  /\ content \in [Buffer -> Payload]
  /\ input \in Seq(Payload) /\ received \in Seq(Payload)
  /\ sent \in Payload
  /\ calls \in {<<>>, <<"loop">>, <<"loop", "irq">>, <<"loop", "irq", "loop">>}

Init ==
  /\ ready = FALSE /\ pending = FALSE /\ work = FALSE
  /\ lastAvail = 0 /\ availIdx = 0 /\ usedIdx = 0 /\ lastUsed = 0
  /\ availRing = [i \in Buffer |-> 0] /\ usedRing = [i \in Buffer |-> 0]
  /\ held = Buffer /\ broken = FALSE
  /\ content = [h \in Buffer |-> 0]
  /\ input = <<>> /\ received = <<>> /\ sent = 0
  /\ calls = <<>>

-----------------------------------------------------------------------------
Succ_Mutant(i) == i + 1
Succ(i) == (i + 1) % IndexMod
Slot(i) == i % Size
Innermost(call) == calls # <<>> /\ calls[Len(calls)] = call
Return == SubSeq(calls, 1, Len(calls) - 1)
InIrq == \E i \in 1..Len(calls) : calls[i] = "irq"

(* The host thread puts a payload in the ring of the console.              *)
Type ==
  /\ ~Deferred
  /\ sent < Last
  /\ sent' = sent + 1
  /\ input' = Append(input, sent + 1)
  /\ UNCHANGED <<deviceVars, availVars, usedVars, driverVars, content, calls>>

(* A write to QUEUE_NOTIFY.  chain is the call chain of the writer.        *)
Notify_Mutant(chain) ==
  IF Deferred
  THEN /\ work' = TRUE
       /\ calls' = chain
       /\ UNCHANGED <<ready, lastAvail, pending>>
  ELSE /\ calls' = Append(chain, "loop")
       /\ UNCHANGED deviceVars
Notify(chain) ==
  IF Deferred
  THEN /\ pending' = TRUE
       /\ work' = TRUE
       /\ calls' = chain
       /\ UNCHANGED <<ready, lastAvail>>
  ELSE /\ calls' = Append(chain, "loop")
       /\ UNCHANGED deviceVars

(* The driver makes buffer h available and notifies the device.            *)
AddBuffer(h, chain) ==
  /\ availRing' = [availRing EXCEPT ![Slot(availIdx)] = h]
  /\ availIdx' = Succ(availIdx)
  /\ Notify(chain)

(* A new request of the block driver, or an empty buffer for input, from   *)
(* process context or from the interrupt handler.                          *)
Submit(h) ==
  /\ ready
  /\ ~broken
  /\ \/ calls = <<>>
     \/ Deferred /\ Innermost("irq")
  /\ h \in held
  /\ Deferred => sent < Last
  /\ held' = held \ {h}
  /\ AddBuffer(h, calls)
  /\ IF Deferred
     THEN /\ sent' = sent + 1
          /\ content' = [content EXCEPT ![h] = sent + 1]
     ELSE UNCHANGED <<sent, content>>
  /\ UNCHANGED <<usedVars, lastUsed, broken, received, input>>

(* The work item runs: it takes pending_queues and serves the queue if the *)
(* queue is in it.  A run that finds nothing there was queued again while  *)
(* the loop of the run before it took the notification.                    *)
NotifyWork ==
  /\ calls = <<>>
  /\ work
  /\ work' = FALSE
  /\ pending' = FALSE
  /\ calls' = IF pending THEN <<"loop">> ELSE <<>>
  /\ UNCHANGED <<ready, lastAvail, availVars, usedVars, driverVars, content,
                 input, sent>>

(* The console polls the host ring every ten milliseconds.                 *)
InputTimer ==
  /\ ~Deferred
  /\ ready
  /\ calls = <<>>
  /\ calls' = <<"loop">>
  /\ UNCHANGED <<deviceVars, availVars, usedVars, driverVars, content, input, sent>>

(* The loop has no buffer to serve, or no input for it.                    *)
NothingToServe == \/ ~ready
                  \/ lastAvail = availIdx
                  \/ ~Deferred /\ input = <<>>

(* The loop of the work item looks at pending_queues again before it ends. *)
LoopEnds ==
  /\ Innermost("loop")
  /\ NothingToServe
  /\ IF Deferred /\ pending
     THEN /\ pending' = FALSE
          /\ UNCHANGED calls
     ELSE /\ calls' = Return
          /\ UNCHANGED pending
  /\ UNCHANGED <<ready, lastAvail, work, availVars, usedVars, driverVars,
                 content, input, sent>>

(* The handler of an interrupt that is being handled is not called again.  *)
Interrupt == IF InIrq THEN calls ELSE Append(calls, "irq")

(* Serve the next buffer and push it on the used ring.  The interrupt      *)
(* comes before last_avail++, which is that of IrqReturns then.            *)
Serve ==
  /\ Innermost("loop")
  /\ ~NothingToServe
  /\ LET h == availRing[Slot(lastAvail)]
     IN /\ usedRing' = [usedRing EXCEPT ![Slot(usedIdx)] = h]
        /\ usedIdx' = Succ(usedIdx)
        /\ IF Deferred
           THEN UNCHANGED <<content, input>>
           ELSE /\ content' = [content EXCEPT ![h] = input[1]]
                /\ input' = Tail(input)
  /\ calls' = Interrupt
  /\ lastAvail' = IF InIrq THEN Succ(lastAvail) ELSE lastAvail
  /\ UNCHANGED <<ready, pending, work, availVars, driverVars, sent>>

(* The driver takes a used buffer.  The block driver does so in its        *)
(* handler; the console driver in its handler and in the thread of the     *)
(* terminal, and makes the buffer available again at once.                 *)
TakeUsed ==
  /\ Innermost("irq") \/ (~Deferred /\ calls = <<>>)
  /\ ready
  /\ ~broken
  /\ lastUsed # usedIdx
  /\ LET h == usedRing[Slot(lastUsed)]
     IN IF h \in held
        THEN /\ broken' = TRUE
             /\ UNCHANGED <<deviceVars, availVars, lastUsed, held, received, calls>>
        ELSE /\ lastUsed' = Succ(lastUsed)
             /\ received' = Append(received, content[h])
             /\ UNCHANGED broken
             /\ IF Deferred
                THEN /\ held' = held \cup {h}
                     /\ UNCHANGED <<deviceVars, availVars, calls>>
                ELSE /\ AddBuffer(h, calls)
                     /\ UNCHANGED held
  /\ UNCHANGED <<usedVars, content, input, sent>>

(* The handler of the block driver returns when it has taken all; that of  *)
(* the console driver may leave buffers to the thread.  The loop below     *)
(* counts the buffer it has served.                                        *)
IrqReturns_Mutant ==
  /\ Innermost("irq")
  /\ broken \/ lastUsed = usedIdx \/ ~Deferred
  /\ calls' = Return
  /\ lastAvail' = availIdx
  /\ UNCHANGED <<ready, pending, work, availVars, usedVars, driverVars, content,
                 input, sent>>
IrqReturns ==
  /\ Innermost("irq")
  /\ broken \/ lastUsed = usedIdx \/ ~Deferred
  /\ calls' = Return
  /\ lastAvail' = Succ(lastAvail)
  /\ UNCHANGED <<ready, pending, work, availVars, usedVars, driverVars, content,
                 input, sent>>

-----------------------------------------------------------------------------
(* Status 0 cancels the work and clears the queue.                         *)
ResetDevice_Mutant ==
  /\ work' = FALSE
  /\ pending' = FALSE
  /\ ready' = FALSE
  /\ UNCHANGED lastAvail
ResetDevice ==
  /\ work' = FALSE
  /\ pending' = FALSE
  /\ ready' = FALSE
  /\ lastAvail' = 0

(* The driver leaves: it has no request in flight, and gives up the empty  *)
(* buffers for input.                                                      *)
Reset ==
  /\ ready
  /\ calls = <<>>
  /\ Deferred => held = Buffer
  /\ lastUsed = usedIdx
  /\ ResetDevice
  /\ held' = Buffer
  /\ UNCHANGED <<availVars, usedVars, lastUsed, broken, received, content,
                 input, sent, calls>>

(* A driver comes, with new rings.                                         *)
Probe ==
  /\ ~ready
  /\ calls = <<>>
  /\ ready' = TRUE
  /\ availIdx' = 0 /\ usedIdx' = 0 /\ lastUsed' = 0
  /\ availRing' = [i \in Buffer |-> 0] /\ usedRing' = [i \in Buffer |-> 0]
  /\ UNCHANGED <<lastAvail, pending, work, held, broken, received, content,
                 input, sent, calls>>

BlockNext ==
  \/ NotifyWork \/ LoopEnds \/ Serve \/ TakeUsed \/ IrqReturns \/ Reset \/ Probe
  \/ \E h \in Buffer : Submit(h)

BlockSpec == Init /\ [][BlockNext]_vars

(* The console has typing and a timer besides.                             *)
Next == BlockNext \/ Type \/ InputTimer

Spec == Init /\ [][Next]_vars
=============================================================================
