--------------------------- MODULE MicroBitRadio ---------------------------
(***************************************************************************)
(* The packet radio with its datagram and event protocols: a chain of      *)
(* buffers that the radio hardware fills, the interrupt handler queues,    *)
(* and the program and the idle callback take off the queue again.         *)
(*                                                                         *)
(* Nothing here sleeps, so the calls of the program and the idle callback  *)
(* exclude each other; the interrupt handler comes between any two of      *)
(* their steps while the interrupt of the radio is enabled.  Another       *)
(* interrupt may raise an event that radio.event forwards: it then runs    *)
(* send() whatever the program was doing.                                  *)
(*                                                                         *)
(* Packets are numbered in the order in which they arrive.  BLE is off.    *)
(***************************************************************************)
EXTENDS Integers, Sequences, FiniteSets, SequencesExt

CONSTANTS RxBuffers,     \* MICROBIT_RADIO_MAXIMUM_RX_BUFFERS
          Scenarios      \* the heaps and surroundings considered

ASSUME RadioAssumption ==
    /\ RxBuffers \in Nat \ {0}
    /\ \A s \in Scenarios :
         /\ s.buffers \in Nat \ {0}   \* frame buffers that the heap can hold
         /\ s.packets \in Nat         \* bound: packets that arrive
         /\ s.forwards \in BOOLEAN    \* events of other interrupts are forwarded

VARIABLES scenario,
          irq,       \* the interrupt is enabled in the NVIC
          hw,        \* the RADIO peripheral: mode, EVENTS_END, CRCSTATUS, PACKETPTR
          status,    \* MICROBIT_RADIO_STATUS_* flags
          heap,      \* buffers that are not allocated
          content,   \* per buffer, the packet in it
          rxBuf, rxQueue, queueDepth,
          datagrams, \* rxQueue of the datagram protocol
          suppressForwarding,
          task,      \* the call in progress: pc, packet p, rxQueue->next, pc after recv(),
                     \* the State before a deep sleep
          count,     \* packets that arrived
          given      \* per protocol, the last packet handed to the program

vars == <<scenario, irq, hw, status, heap, content, rxBuf, rxQueue, queueDepth, datagrams,
          suppressForwarding, task, count, given>>

Buffers   == 1 .. scenario.buffers
forwards  == scenario.forwards
NULL      == 0
Protocols == {"datagram", "event", "other"}
NoPacket  == [number |-> 0, protocol |-> "other"]
Awake     == [irq |-> FALSE, mode |-> "none", status |-> {}]
Home      == [pc |-> "home", p |-> NULL, next |-> NULL, after |-> "home", before |-> Awake]
State     == [irq |-> irq, mode |-> hw.mode, status |-> status]
-----------------------------------------------------------------------------
(* The hardware.  Once a packet is complete it waits to be started again.     *)
Listening(ptr) == [mode |-> "rx", end |-> FALSE, ok |-> FALSE, ptr |-> ptr]
Off            == [hw EXCEPT !.mode = "off"]

Arrive ==
    /\ hw.mode = "rx" /\ ~hw.end /\ count < scenario.packets
    /\ count' = count + 1
    /\ \E ok \in BOOLEAN, protocol \in Protocols :
         /\ hw' = [hw EXCEPT !.end = TRUE, !.ok = ok]
         /\ content' = IF hw.ptr = NULL THEN content
                       ELSE [content EXCEPT ![hw.ptr] = [number |-> count + 1, protocol |-> protocol]]
    /\ UNCHANGED <<scenario, irq, status, heap, rxBuf, rxQueue, queueDepth, datagrams,
                   suppressForwarding, task, given>>

TxEnd ==
    /\ hw.mode = "tx" /\ ~hw.end
    /\ hw' = [hw EXCEPT !.end = TRUE]
    /\ UNCHANGED <<scenario, irq, status, heap, content, rxBuf, rxQueue, queueDepth, datagrams,
                   suppressForwarding, task, count, given>>
-----------------------------------------------------------------------------
(* The heap is searched for the first free block. *)
NewBuffer == IF heap = {} THEN NULL ELSE Min(heap)

QueueRxBuf ==
    IF rxBuf = NULL \/ queueDepth >= RxBuffers \/ NewBuffer = NULL
    THEN UNCHANGED <<heap, rxBuf, rxQueue, queueDepth>>
    ELSE /\ rxQueue' = Append(rxQueue, rxBuf)
         /\ queueDepth' = queueDepth + 1
         /\ rxBuf' = NewBuffer
         /\ heap' = heap \ {NewBuffer}

(* RADIO_IRQHandler(): a packet that is bad, or that finds no room, is        *)
(* overwritten by the next.                                                   *)
IRQHandler ==
    /\ irq /\ hw.end
    /\ IF hw.ok
       THEN QueueRxBuf /\ hw' = [hw EXCEPT !.end = FALSE, !.ok = FALSE, !.ptr = rxBuf']
       ELSE UNCHANGED <<heap, rxBuf, rxQueue, queueDepth>> /\ hw' = [hw EXCEPT !.end = FALSE, !.ok = FALSE]
    /\ UNCHANGED <<scenario, irq, status, content, datagrams, suppressForwarding, task, count, given>>

(* An event of another interrupt goes through eventReceived() and the whole   *)
(* of send() before the program continues.                                    *)
EventReceived ==
    /\ forwards /\ ~suppressForwarding
    /\ hw' = Listening(rxBuf)
    /\ irq' = TRUE
    /\ UNCHANGED <<scenario, status, heap, content, rxBuf, rxQueue, queueDepth, datagrams,
                   suppressForwarding, task, count, given>>
-----------------------------------------------------------------------------
At(pc)     == task.pc = pc
Goto(pc)   == task' = [task EXCEPT !.pc = pc]
Free(p)    == heap' = heap \cup {p} /\ content' = [content EXCEPT ![p] = NoPacket]
Call(pc)   == At("home") /\ task' = [Home EXCEPT !.pc = pc]
Recv(after) == task' = [task EXCEPT !.pc = "recv", !.after = after]

Radio == <<irq, hw, status, rxBuf, rxQueue, queueDepth>>
Upper == <<heap, content, datagrams, suppressForwarding, given>>
Extra == <<scenario, count>>

(* Faulty: the interrupt handler is not kept out. *)
RecvBeginOpen ==
    /\ At("recv")
    /\ IF rxQueue = <<>> THEN task' = [task EXCEPT !.pc = task.after, !.p = NULL] /\ UNCHANGED irq
       ELSE irq' = irq /\ task' = [task EXCEPT !.pc = "recvNext", !.p = Head(rxQueue)]
    /\ UNCHANGED <<hw, status, rxBuf, rxQueue, queueDepth, Upper, Extra>>

(* recv() *)
RecvBegin ==
    /\ At("recv")
    /\ IF rxQueue = <<>> THEN task' = [task EXCEPT !.pc = task.after, !.p = NULL] /\ UNCHANGED irq
       ELSE irq' = FALSE /\ task' = [task EXCEPT !.pc = "recvNext", !.p = Head(rxQueue)]
    /\ UNCHANGED <<hw, status, rxBuf, rxQueue, queueDepth, Upper, Extra>>

RecvNext ==
    /\ At("recvNext")
    /\ task' = [task EXCEPT !.pc = "recvTake", !.next = IF Len(rxQueue) = 1 THEN NULL ELSE rxQueue[2]]
    /\ UNCHANGED <<Radio, Upper, Extra>>

RecvTake ==
    /\ At("recvTake")
    /\ rxQueue' = IF task.next = NULL THEN <<>> ELSE Tail(rxQueue)
    /\ task' = [task EXCEPT !.pc = "recvCount", !.next = NULL]
    /\ UNCHANGED <<irq, hw, status, rxBuf, queueDepth, Upper, Extra>>

RecvCount ==
    /\ At("recvCount")
    /\ queueDepth' = queueDepth - 1
    /\ Goto("recvEnd")
    /\ UNCHANGED <<irq, hw, status, rxBuf, rxQueue, Upper, Extra>>

RecvEnd ==
    /\ At("recvEnd")
    /\ irq' = TRUE
    /\ Goto(task.after)
    /\ UNCHANGED <<hw, status, rxBuf, rxQueue, queueDepth, Upper, Extra>>

(* A program that takes packets of a protocol of its own, and deletes them.   *)
UserRecv ==
    /\ At("home") /\ rxQueue # <<>>
    /\ Recv("own")
    /\ UNCHANGED <<Radio, Upper, Extra>>

UserDelete ==
    /\ At("own")
    /\ IF task.p = NULL THEN UNCHANGED <<heap, content>> ELSE Free(task.p)
    /\ task' = Home
    /\ UNCHANGED <<Radio, datagrams, suppressForwarding, given, Extra>>
-----------------------------------------------------------------------------
(* idleCallback(), while the component is called when the processor is idle.  *)
IdleCallback ==
    /\ "INITIALISED" \in status /\ rxQueue # <<>>
    /\ Call("walk")
    /\ UNCHANGED <<Radio, Upper, Extra>>

(* Faulty: there is no case for events. *)
WalkNoEvents ==
    /\ At("walk")
    /\ IF rxQueue = <<>> THEN task' = Home
       ELSE LET p == Head(rxQueue) IN
            task' = IF content[p].protocol = "datagram" THEN [task EXCEPT !.p = p, !.pc = "recv", !.after = "datagram"]
                    ELSE [task EXCEPT !.p = p, !.pc = "compare"]
    /\ UNCHANGED <<Radio, Upper, Extra>>

Walk ==
    /\ At("walk")
    /\ IF rxQueue = <<>> THEN task' = Home
       ELSE LET p == Head(rxQueue) IN
            task' = CASE content[p].protocol = "datagram" -> [task EXCEPT !.p = p, !.pc = "recv", !.after = "datagram"]
                      [] content[p].protocol = "event"    -> [task EXCEPT !.p = p, !.pc = "recv", !.after = "fire"]
                      [] OTHER                            -> [task EXCEPT !.p = p, !.pc = "compare"]
    /\ UNCHANGED <<Radio, Upper, Extra>>

(* Faulty: the packet goes to the front. *)
DatagramReceivedFront ==
    /\ At("datagram")
    /\ datagrams' = <<task.p>> \o datagrams
    /\ Goto("compare")
    /\ UNCHANGED <<Radio, heap, content, suppressForwarding, given, Extra>>

(* MicroBitRadioDatagram::packetReceived() counts the links of its queue, one *)
(* less than the packets.                                                     *)
DatagramReceived ==
    /\ At("datagram")
    /\ IF datagrams # <<>> /\ Len(datagrams) - 1 >= RxBuffers
       THEN Free(task.p) /\ UNCHANGED datagrams
       ELSE datagrams' = Append(datagrams, task.p) /\ UNCHANGED <<heap, content>>
    /\ Goto("compare")
    /\ UNCHANGED <<Radio, suppressForwarding, given, Extra>>

(* MicroBitRadioEvent::packetReceived() *)
EventFire ==
    /\ At("fire")
    /\ suppressForwarding' = TRUE
    /\ Goto("fired")
    /\ UNCHANGED <<Radio, heap, content, datagrams, given, Extra>>

EventFired ==
    /\ At("fired")
    /\ given' = [given EXCEPT !.event = content[task.p].number]
    /\ suppressForwarding' = FALSE
    /\ Free(task.p)
    /\ Goto("compare")
    /\ UNCHANGED <<Radio, datagrams, Extra>>

(* Faulty: a packet for an unknown protocol is left in the queue. *)
CompareKeeps ==
    /\ At("compare")
    /\ Goto("walk")
    /\ UNCHANGED <<Radio, Upper, Extra>>

(* A packet that is still the first was for an unknown protocol. *)
Compare ==
    /\ At("compare")
    /\ IF rxQueue # <<>> /\ Head(rxQueue) = task.p THEN Recv("drop") ELSE Goto("walk")
    /\ UNCHANGED <<Radio, Upper, Extra>>

Drop ==
    /\ At("drop")
    /\ Free(task.p)
    /\ Goto("walk")
    /\ UNCHANGED <<Radio, datagrams, suppressForwarding, given, Extra>>

(* MicroBitRadioDatagram::recv() *)
DatagramRecv ==
    /\ At("home") /\ datagrams # <<>>
    /\ given' = [given EXCEPT !.datagram = content[Head(datagrams)].number]
    /\ datagrams' = Tail(datagrams)
    /\ Free(Head(datagrams))
    /\ UNCHANGED <<Radio, suppressForwarding, task, Extra>>
-----------------------------------------------------------------------------
(* enable(): a packet that was complete when the radio was last disabled      *)
(* interrupts once the interrupt is enabled, before the radio listens.        *)
Enabling ==
    /\ IF rxBuf = NULL /\ heap # {}
       THEN rxBuf' = NewBuffer /\ heap' = heap \ {NewBuffer}
       ELSE UNCHANGED <<rxBuf, heap>>
    /\ rxBuf' # NULL
    /\ hw' = [hw EXCEPT !.ptr = rxBuf']
    /\ irq' = TRUE
    /\ Goto("enabling")

Enable ==
    /\ At("home") /\ "INITIALISED" \notin status
    /\ Enabling
    /\ UNCHANGED <<status, rxQueue, queueDepth, content, datagrams, suppressForwarding, given, Extra>>

EnableListen ==
    /\ At("enabling")
    /\ hw' = Listening(hw.ptr)
    /\ status' = status \cup {"INITIALISED"}
    /\ task' = Home
    /\ UNCHANGED <<irq, rxBuf, rxQueue, queueDepth, Upper, Extra>>

Disable ==
    /\ At("home") /\ "INITIALISED" \in status
    /\ irq' = FALSE
    /\ hw' = Off
    /\ status' = status \ {"INITIALISED"}
    /\ UNCHANGED <<rxBuf, rxQueue, queueDepth, Upper, task, Extra>>

(* Faulty: an interrupt that only was enabled is not remembered. *)
SleepForgets ==
    /\ At("home") /\ task' = [Home EXCEPT !.pc = "asleep", !.before = State]
    /\ status' = IF "INITIALISED" \in status THEN {"DEEPSLEEP_INIT"} \cup (status \ {"INITIALISED"}) ELSE status
    /\ irq' = FALSE
    /\ hw' = IF "INITIALISED" \in status THEN Off ELSE hw
    /\ UNCHANGED <<rxBuf, rxQueue, queueDepth, Upper, scenario, count>>

(* setSleep(true), before a deep sleep, and setSleep(false) after it. *)
Sleep ==
    /\ At("home") /\ task' = [Home EXCEPT !.pc = "asleep", !.before = State]
    /\ IF "INITIALISED" \in status
       THEN /\ status' = {"DEEPSLEEP_INIT"} \cup (status \ {"INITIALISED"})
            /\ irq' = FALSE /\ hw' = Off
       ELSE /\ status' = IF irq THEN status \cup {"DEEPSLEEP_IRQ"} ELSE status
            /\ irq' = FALSE /\ UNCHANGED hw
    /\ UNCHANGED <<rxBuf, rxQueue, queueDepth, Upper, scenario, count>>

Wake ==
    /\ At("asleep")
    /\ \/ /\ "DEEPSLEEP_INIT" \in status
          /\ Enabling
          /\ status' = status \ {"DEEPSLEEP_INIT"}
       \/ /\ "DEEPSLEEP_INIT" \notin status
          /\ irq' = (irq \/ "DEEPSLEEP_IRQ" \in status)
          /\ status' = status \ {"DEEPSLEEP_IRQ"}
          /\ task' = Home
          /\ UNCHANGED <<hw, rxBuf, heap>>
    /\ UNCHANGED <<rxQueue, queueDepth, content, datagrams, suppressForwarding, given, Extra>>
-----------------------------------------------------------------------------
(* send(), which MicroBitRadioDatagram::send() and eventReceived() call with  *)
(* a packet of their own.                                                     *)
Send ==
    /\ Call("sendOff")
    /\ irq' = FALSE
    /\ UNCHANGED <<hw, status, rxBuf, rxQueue, queueDepth, Upper, Extra>>

SendOff ==
    /\ At("sendOff")
    /\ hw' = Off
    /\ Goto("sendStart")
    /\ UNCHANGED <<irq, status, rxBuf, rxQueue, queueDepth, Upper, Extra>>

SendStart ==
    /\ At("sendStart")
    /\ hw' = [mode |-> "tx", end |-> FALSE, ok |-> FALSE, ptr |-> NULL]
    /\ Goto("sendWait")
    /\ UNCHANGED <<irq, status, rxBuf, rxQueue, queueDepth, Upper, Extra>>

SendWait ==
    /\ At("sendWait") /\ hw.end
    /\ Goto("sendBack")
    /\ UNCHANGED <<Radio, Upper, Extra>>

SendBack ==
    /\ At("sendBack")
    /\ hw' = Listening(rxBuf)
    /\ Goto("sendEnd")
    /\ UNCHANGED <<irq, status, rxBuf, rxQueue, queueDepth, Upper, Extra>>

SendEnd ==
    /\ At("sendEnd")
    /\ irq' = TRUE
    /\ task' = Home
    /\ UNCHANGED <<hw, status, rxBuf, rxQueue, queueDepth, Upper, Extra>>
-----------------------------------------------------------------------------
Work ==
    \/ RecvBegin \/ RecvNext \/ RecvTake \/ RecvCount \/ RecvEnd \/ UserDelete
    \/ Walk \/ DatagramReceived \/ EventFire \/ EventFired \/ Compare \/ Drop
    \/ SendOff \/ SendStart \/ SendWait \/ SendBack \/ SendEnd \/ EnableListen

UserCall == UserRecv \/ DatagramRecv \/ Enable \/ Disable \/ Sleep \/ Wake \/ Send

(* The program has not used the radio yet. *)
Init ==
    /\ scenario \in Scenarios
    /\ irq = FALSE
    /\ hw = [mode |-> "off", end |-> FALSE, ok |-> FALSE, ptr |-> NULL]
    /\ status = {}
    /\ heap = Buffers
    /\ content = [b \in Buffers |-> NoPacket]
    /\ rxBuf = NULL /\ rxQueue = <<>> /\ queueDepth = 0
    /\ datagrams = <<>>
    /\ suppressForwarding = FALSE
    /\ task = Home
    /\ count = 0
    /\ given = [datagram |-> 0, event |-> 0]

Next == Arrive \/ TxEnd \/ IRQHandler \/ EventReceived \/ UserCall \/ IdleCallback \/ Work

Spec == Init /\ [][Next]_vars

(* The radio finishes what it sends; the processor goes on with the call in   *)
(* progress, and is idle now and then.                                        *)
FairSpec == Spec /\ WF_vars(TxEnd) /\ WF_vars(IRQHandler) /\ WF_vars(Work) /\ SF_vars(IdleCallback)
-----------------------------------------------------------------------------
TypeOK ==
    /\ irq \in BOOLEAN /\ suppressForwarding \in BOOLEAN
    /\ status \subseteq {"INITIALISED", "DEEPSLEEP_INIT", "DEEPSLEEP_IRQ"}
    /\ hw.mode \in {"off", "rx", "tx"} /\ hw.ptr \in Buffers \cup {NULL}
    /\ heap \subseteq Buffers
    /\ rxBuf \in Buffers \cup {NULL} /\ rxQueue \in Seq(Buffers) /\ datagrams \in Seq(Buffers)
    /\ queueDepth \in 0 .. RxBuffers
    /\ Len(datagrams) <= RxBuffers + 1

(* The buffer that recv() took off the queue and that is not passed on yet. *)
Hand ==
    IF task.p # NULL /\ task.pc \in {"recvCount", "recvEnd", "own", "datagram", "fire", "fired", "drop"}
    THEN <<task.p>> ELSE <<>>

(* Every frame buffer is free or in one place of the chain: whatever the      *)
(* interrupt handler does meanwhile, recv() neither leaks a packet nor takes  *)
(* it twice.                                                                  *)
EachBufferOnce ==
    LET spare == IF rxBuf = NULL THEN <<>> ELSE <<rxBuf>>
        chain == spare \o rxQueue \o Hand \o datagrams
    IN IsInjective(chain) /\ heap = Buffers \ ToSet(chain)

(* As long as no event of another interrupt is forwarded, buffers are owned   *)
(* once.                                                                      *)
BuffersOwned == ~forwards => EachBufferOnce

(* Datagrams and events reach the program in the order in which they arrived, *)
(* through both queues.                                                       *)
InOrder ==
    LET hand == IF task.after = "datagram" THEN Hand ELSE <<>>
        path == datagrams \o hand \o rxQueue
    IN ~forwards =>
         /\ \A i, j \in 1 .. Len(path) : i < j => content[path[i]].number < content[path[j]].number
         /\ \A i \in 1 .. Len(path) : content[path[i]].protocol = "datagram" =>
                                      given.datagram < content[path[i]].number
         /\ \A i \in 1 .. Len(rxQueue) : content[rxQueue[i]].protocol = "event" =>
                                         given.event < content[rxQueue[i]].number

(* A deep sleep leaves the radio as it found it. *)
WakesAsItSlept == [][~forwards /\ task.before # Awake /\ task'.pc = "home" => State' = task.before]_vars

(* Every call comes to an end, those that wait for the hardware or empty the  *)
(* queue included.                                                            *)
CallsReturn == task.pc \notin {"home", "asleep"} /\ ~forwards ~> task.pc \in {"home", "asleep"}

(* What idleCallback() frees is for an unknown protocol, although a buffer    *)
(* that was dealt with may be in use again when it compares the addresses.    *)
LeftoverIsUnknown ==
    ~forwards /\ At("compare") /\ rxQueue # <<>> /\ Head(rxQueue) = task.p => content[task.p].protocol = "other"
=============================================================================
