------------------------ MODULE MicroBitRadioProofs ------------------------
(***************************************************************************)
(* Proofs about the packet radio while no event of another interrupt is    *)
(* forwarded: no frame buffer is leaked or owned twice, packets stay in    *)
(* the order of their arrival through both queues, what idleCallback()     *)
(* frees is for an unknown protocol, and a deep sleep leaves the radio as  *)
(* it was; for any number of buffers, of places in the queues, and of      *)
(* packets.                                                                *)
(***************************************************************************)
EXTENDS MicroBitRadio, TLAPS, SequenceTheorems, WellFoundedInduction

Flags    == {"INITIALISED", "DEEPSLEEP_INIT", "DEEPSLEEP_IRQ"}
Modes    == {"off", "rx", "tx"}
Taking   == {"recv", "recvNext", "recvTake", "recvCount", "recvEnd"}
Passing  == {"own", "datagram", "fire", "fired", "drop"}
Sending  == {"sendOff", "sendStart", "sendWait", "sendBack", "sendEnd"}
Places   == {"home", "walk", "compare", "asleep", "enabling"} \cup Taking \cup Passing \cup Sending
Packets  == [number : Nat, protocol : Protocols]

Snapshots == [irq : BOOLEAN, mode : Modes \cup {"none"}, status : SUBSET Flags]
Tasks     == [pc : Places, p : Buffers \cup {NULL}, next : Buffers \cup {NULL}, after : Passing \cup {"home"},
              before : Snapshots]
Hardware  == [mode : Modes, end : BOOLEAN, ok : BOOLEAN, ptr : Buffers \cup {NULL}]

Types ==
    /\ irq \in BOOLEAN /\ suppressForwarding \in BOOLEAN
    /\ hw \in Hardware
    /\ status \in SUBSET Flags
    /\ heap \in SUBSET Buffers
    /\ content \in [Buffers -> Packets]
    /\ rxBuf \in Buffers \cup {NULL} /\ rxQueue \in Seq(Buffers) /\ datagrams \in Seq(Buffers)
    /\ queueDepth \in Int
    /\ task \in Tasks
    /\ count \in Nat
    /\ given \in [datagram : Nat, event : Nat]

(* The steps of the call in progress: recv() is called with a packet in    *)
(* the queue, keeps the interrupt handler out from there on, and knows the *)
(* first packet and the one behind it.                                     *)
Control ==
    /\ task.pc = "home" => task = Home
    /\ task.pc \in Taking => task.after \in Passing \ {"fired"}
    /\ task.pc \in {"datagram", "fire", "drop", "own"} => task.after = task.pc
    /\ task.pc = "fired" => task.after = "fire"
    /\ task.pc = "recv" => rxQueue # <<>>
    /\ task.pc \in Taking \ {"recv"} => ~irq
    /\ task.pc \in {"recvNext", "recvTake"} => rxQueue # <<>> /\ task.p = rxQueue[1]
    /\ task.pc = "recvTake" => task.next = IF Len(rxQueue) = 1 THEN NULL ELSE rxQueue[2]
    /\ task.pc \in Passing \cup {"recvCount", "recvEnd", "compare"} => task.p # NULL

(* The length that recv() and the interrupt handler count.                 *)
Depth ==
    /\ queueDepth = Len(rxQueue) + (IF task.pc = "recvCount" THEN 1 ELSE 0)
    /\ queueDepth <= RxBuffers
    /\ Len(datagrams) <= RxBuffers + 1

(* The packet that was taken off the queue and is not passed on yet.       *)
Held == task.p # NULL /\ task.pc \in Passing \cup {"recvCount", "recvEnd"}

(* b is in one of the queues, or on the way between them.                  *)
InPath(b) ==
    \/ \E i \in 1 .. Len(rxQueue) : b = rxQueue[i]
    \/ \E i \in 1 .. Len(datagrams) : b = datagrams[i]
    \/ Held /\ b = task.p

Older(a, b) == content[a].number < content[b].number

(* The datagram queue, the packet between the queues and the queue of the  *)
(* radio follow one another in the order of arrival.                       *)
Order ==
    /\ \A i, j \in 1 .. Len(rxQueue) : i < j => Older(rxQueue[i], rxQueue[j])
    /\ \A i, j \in 1 .. Len(datagrams) : i < j => Older(datagrams[i], datagrams[j])
    /\ \A i \in 1 .. Len(datagrams), j \in 1 .. Len(rxQueue) : Older(datagrams[i], rxQueue[j])
    /\ Held => /\ \A i \in 1 .. Len(datagrams) : Older(datagrams[i], task.p)
               /\ \A j \in 1 .. Len(rxQueue) : Older(task.p, rxQueue[j])

(* Where the buffers are.                                                  *)
Owner ==
    /\ ~InPath(rxBuf)
    /\ \A b \in Buffers : b \in heap <=> b # rxBuf /\ ~InPath(b)
    /\ \A b \in heap : content[b] = NoPacket
    /\ rxBuf = NULL => \A b \in Buffers : ~InPath(b)

(* What was handed to the program is older than what will be.              *)
Given ==
    /\ given.datagram <= count /\ given.event <= count
    /\ \A b \in Buffers : content[b].number <= count
    /\ \A b \in Buffers : InPath(b) /\ content[b].protocol = "datagram" => given.datagram < content[b].number
    /\ \A i \in 1 .. Len(rxQueue) :
         content[rxQueue[i]].protocol = "event" => given.event < content[rxQueue[i]].number

(* The hardware writes to the buffer that the interrupt handler queues, and*)
(* a good packet in it is the last that came.                              *)
Arrival ==
    /\ hw.mode = "rx" \/ task.pc = "enabling" => hw.ptr = rxBuf
    /\ hw.mode = "tx" => ~hw.ok
    /\ hw.end /\ hw.ok /\ rxBuf # NULL =>
         /\ \A b \in Buffers : InPath(b) => Older(b, rxBuf)
         /\ content[rxBuf].protocol = "datagram" => given.datagram < content[rxBuf].number
         /\ content[rxBuf].protocol = "event" => given.event < content[rxBuf].number

(* A buffer that was dealt with comes back behind the packet that is first.*)
Leftover ==
    task.pc = "compare" =>
        IF rxQueue = <<>> THEN rxBuf # task.p
        ELSE rxQueue[1] = task.p => content[task.p].protocol = "other"

(* What a deep sleep remembers.                                            *)
Asleep ==
    /\ task.pc \notin {"asleep", "enabling"} => task.before = Awake /\ "DEEPSLEEP_INIT" \notin status
    /\ task.pc # "asleep" => "DEEPSLEEP_IRQ" \notin status
    /\ "INITIALISED" \in status /\ task.pc \notin Taking \cup Sending => irq
    /\ "INITIALISED" \in status /\ task.pc \notin Sending \ {"sendOff", "sendEnd"} => hw.mode = "rx"
    /\ task.pc \in {"asleep", "enabling"} => "INITIALISED" \notin status
    /\ task.pc = "asleep" =>
         /\ ~irq
         /\ IF "DEEPSLEEP_INIT" \in status
            THEN /\ "DEEPSLEEP_IRQ" \notin status
                 /\ task.before = [irq |-> TRUE, mode |-> "rx",
                                   status |-> (status \cup {"INITIALISED"}) \ {"DEEPSLEEP_INIT"}]
            ELSE task.before = [irq |-> "DEEPSLEEP_IRQ" \in status, mode |-> hw.mode,
                                status |-> status \ {"DEEPSLEEP_IRQ"}]
    /\ task.pc = "enabling" =>
         /\ irq /\ "DEEPSLEEP_INIT" \notin status
         /\ task.before \in {Awake, [irq |-> TRUE, mode |-> "rx", status |-> status \cup {"INITIALISED"}]}

-----------------------------------------------------------------------------
LEMMA Constants == RxBuffers \in Nat /\ NULL = 0 /\ NULL \notin Buffers /\ Buffers \subseteq Nat
BY RadioAssumption DEF NULL, Buffers

(* NewBuffer is a free buffer, if there is one.                            *)
LEMMA FirstFree ==
    ASSUME heap \in SUBSET Buffers
    PROVE  \/ NewBuffer = NULL /\ heap = {}
           \/ NewBuffer \in heap
<1>1. CASE heap = {}
    BY <1>1 DEF NewBuffer
<1>2. CASE heap # {}
    <2>1. heap \in SUBSET Nat
        BY Constants
    <2>2. PICK n \in heap : \A m \in heap : ~(<<m, n>> \in OpToRel(<, Nat))
        BY <1>2, <2>1, NatLessThanWellFounded, WFMin
    <2>3. OpToRel(<, Nat) = {p \in Nat \X Nat : p[1] < p[2]}
        BY Zenon DEF OpToRel
    <2>4. \A m \in heap : n <= m
        <3>1. n \in Nat /\ \A m \in heap : m \in Nat
            BY <2>1
        <3> SUFFICES ASSUME NEW m \in heap, m < n PROVE FALSE
            BY <3>1
        <3>2. <<m, n>> \in {p \in Nat \X Nat : p[1] < p[2]}
            BY <3>1
        <3> QED
            BY <2>2, <2>3, <3>2, Zenon
    <2>5. Min(heap) \in heap
        BY <2>4 DEF Min
    <2> QED
        BY <1>2, <2>5 DEF NewBuffer
<1> QED
    BY <1>1, <1>2

(* What Append and Tail do to a queue of buffers.                          *)
LEMMA Queue ==
    ASSUME NEW q \in Seq(Buffers)
    PROVE  /\ Len(q) \in Nat /\ (q = <<>> <=> Len(q) = 0)
           /\ \A i \in 1 .. Len(q) : q[i] \in Buffers
           /\ q # <<>> => /\ Head(q) = q[1] /\ Tail(q) \in Seq(Buffers) /\ Len(Tail(q)) = Len(q) - 1
                          /\ \A i \in 1 .. Len(q) - 1 : Tail(q)[i] = q[i + 1]
           /\ \A b \in Buffers : /\ Append(q, b) \in Seq(Buffers) /\ Len(Append(q, b)) = Len(q) + 1
                                 /\ \A i \in 1 .. Len(q) : Append(q, b)[i] = q[i]
                                 /\ Append(q, b)[Len(q) + 1] = b
<1>1. Len(q) \in Nat /\ (q = <<>> <=> Len(q) = 0) /\ \A i \in 1 .. Len(q) : q[i] \in Buffers
    BY EmptySeq, ElementOfSeq
<1>2. ASSUME q # <<>>
      PROVE  /\ Head(q) = q[1] /\ Tail(q) \in Seq(Buffers) /\ Len(Tail(q)) = Len(q) - 1
             /\ \A i \in 1 .. Len(q) - 1 : Tail(q)[i] = q[i + 1]
    <2>1. Head(q) = q[1]
        BY DEF Head
    <2> QED
        BY <1>2, <2>1, HeadTailProperties
<1> QED
    BY <1>1, <1>2

(* Changes of the task and of the hardware that keep their types.          *)
LEMMA Updates ==
    ASSUME Types
    PROVE  /\ Home \in Tasks /\ NoPacket \in Packets /\ Off \in Hardware
           /\ \A ptr \in Buffers \cup {NULL} : Listening(ptr) \in Hardware
           /\ \A pc \in Places :
                /\ [task EXCEPT !.pc = pc] \in Tasks
                /\ [Home EXCEPT !.pc = pc] \in Tasks
                /\ \A after \in Passing : [task EXCEPT !.pc = pc, !.after = after] \in Tasks
                /\ \A p \in Buffers \cup {NULL} :
                     /\ [task EXCEPT !.pc = pc, !.p = p] \in Tasks
                     /\ [task EXCEPT !.p = p, !.pc = pc] \in Tasks
                     /\ [task EXCEPT !.pc = pc, !.next = p] \in Tasks
                     /\ \A after \in Passing : [task EXCEPT !.p = p, !.pc = pc, !.after = after] \in Tasks
<1>1. Home \in Tasks /\ NoPacket \in Packets
    BY DEF NoPacket, Packets, Protocols, Home, Awake, Places, Passing, Modes, Flags, Tasks, Snapshots
<1>2. Off \in Hardware /\ \A ptr \in Buffers \cup {NULL} : Listening(ptr) \in Hardware
    BY DEF Types, Hardware, Listening, Off, Modes
<1> QED
    BY <1>1, <1>2 DEF Types, Tasks

LEMMA TypesInit == Init => Types
<1> SUFFICES ASSUME Init PROVE Types
    OBVIOUS
<1>1. hw \in Hardware /\ given \in [datagram : Nat, event : Nat]
    BY DEF Init, Modes, Hardware
<1>2. NoPacket \in Packets /\ Home \in Tasks
    BY DEF NoPacket, Packets, Protocols, Home, Awake, Places, Passing, Modes, Flags, Tasks, Snapshots
<1>3. content \in [Buffers -> Packets]
    BY <1>2 DEF Init
<1>4. irq \in BOOLEAN /\ suppressForwarding \in BOOLEAN
    BY Zenon DEF Init
<1> QED
    BY <1>1, <1>2, <1>3, <1>4, EmptySeq DEF Init, Types

LEMMA SameScenario == [Next]_vars => scenario' = scenario /\ Buffers' = Buffers /\ forwards' = forwards
<1> SUFFICES ASSUME [Next]_vars PROVE scenario' = scenario
    BY DEF Buffers, forwards
<1>1. CASE Arrive \/ TxEnd \/ IRQHandler \/ EventReceived
    BY <1>1 DEF Arrive, TxEnd, IRQHandler, EventReceived
<1>2. CASE UserCall
    BY <1>2 DEF UserCall, UserRecv, DatagramRecv, Enable, Disable, Sleep, Wake, Send, Extra
<1>3. CASE IdleCallback \/ Work
    BY <1>3 DEF IdleCallback, Work, RecvBegin, RecvNext, RecvTake, RecvCount, RecvEnd, UserDelete, Walk, DatagramReceived,
                EventFire, EventFired, Compare, Drop, SendOff, SendStart, SendWait, SendBack, SendEnd, EnableListen, Extra
<1>4. CASE UNCHANGED vars
    BY <1>4 DEF vars
<1> QED
    BY <1>1, <1>2, <1>3, <1>4 DEF Next

LEMMA TypesStep == Types /\ Control /\ ~forwards /\ [Next]_vars => Types'
<1> SUFFICES ASSUME Types, Control, ~forwards, [Next]_vars PROVE Types'
    OBVIOUS
<1> USE Constants, SameScenario DEF Radio, Upper, Extra, At, Goto, Recv, Call
<1>0. /\ irq \in BOOLEAN /\ suppressForwarding \in BOOLEAN
      /\ hw \in Hardware /\ status \in SUBSET Flags /\ heap \in SUBSET Buffers
      /\ content \in [Buffers -> Packets]
      /\ rxBuf \in Buffers \cup {NULL} /\ rxQueue \in Seq(Buffers) /\ datagrams \in Seq(Buffers)
      /\ queueDepth \in Int /\ task \in Tasks /\ count \in Nat
      /\ given \in [datagram : Nat, event : Nat]
      /\ Hardware' = Hardware /\ Tasks' = Tasks
    BY DEF Types, Hardware, Tasks
<1>00. /\ NoPacket \in Packets /\ Home \in Tasks /\ Off \in Hardware
       /\ \A ptr \in Buffers \cup {NULL} : Listening(ptr) \in Hardware
    BY Updates
<1>01. /\ task.p \in Buffers \cup {NULL} /\ task.after \in Passing \cup {"home"}
       /\ \A pc \in Places : [task EXCEPT !.pc = pc] \in Tasks
       /\ Taking \cup Passing \cup Sending \cup {"home", "walk", "compare", "asleep", "enabling"} \subseteq Places
       /\ {"home"} \cup Passing \subseteq Places
    BY <1>0, Updates DEF Places, Tasks
<1>02. /\ task.pc \in {"own", "datagram", "fired", "drop"} => task.p \in Buffers
       /\ task.pc \in {"recvNext", "recvTake"} => rxQueue # <<>>
    BY <1>01 DEF Control, Passing
<1>1. CASE Arrive
    <2>1. hw' \in Hardware
        BY <1>0, <1>1 DEF Arrive, Hardware
    <2>2. content' \in [Buffers -> Packets]
        <3>1. \A ptr \in Buffers, protocol \in Protocols :
                [content EXCEPT ![ptr] = [number |-> count + 1, protocol |-> protocol]] \in [Buffers -> Packets]
            BY <1>0 DEF Packets
        <3>2. hw.ptr \in Buffers \cup {NULL}
            BY <1>0 DEF Hardware
        <3> QED
            BY <1>0, <1>1, <3>1, <3>2 DEF Arrive
    <2> QED
        BY <1>0, <1>1, <2>1, <2>2 DEF Arrive, Types
<1>2. CASE TxEnd
    BY <1>0, <1>2 DEF TxEnd, Types, Hardware
<1>3. CASE IRQHandler
    <2>1. rxBuf' \in Buffers \cup {NULL} /\ rxQueue' \in Seq(Buffers) /\ heap' \in SUBSET Buffers /\ queueDepth' \in Int
        <3>1. ASSUME rxBuf # NULL PROVE Append(rxQueue, rxBuf) \in Seq(Buffers)
            BY <1>0, <3>1, Queue
        <3>2. NewBuffer \in Buffers \cup {NULL}
            BY <1>0, FirstFree
        <3>3. CASE rxBuf = NULL \/ queueDepth >= RxBuffers \/ NewBuffer = NULL \/ ~hw.ok
            BY <1>0, <1>3, <3>3 DEF IRQHandler, QueueRxBuf
        <3>4. CASE rxBuf # NULL /\ ~(queueDepth >= RxBuffers) /\ NewBuffer # NULL /\ hw.ok
            <4>1. /\ rxQueue' = Append(rxQueue, rxBuf) /\ queueDepth' = queueDepth + 1
                  /\ rxBuf' = NewBuffer /\ heap' = heap \ {NewBuffer}
                BY <1>3, <3>4 DEF IRQHandler, QueueRxBuf
            <4>2. queueDepth \in Int /\ heap \in SUBSET Buffers
                BY <1>0
            <4>3. queueDepth' \in Int
                BY <4>1, <4>2
            <4> QED
                BY <3>1, <3>2, <3>4, <4>1, <4>2, <4>3
        <3> QED
            BY <3>3, <3>4
    <2>2. hw' \in Hardware
        BY <1>0, <1>3, <2>1 DEF IRQHandler, Hardware
    <2> QED
        BY <1>0, <1>3, <2>1, <2>2 DEF IRQHandler, Types
<1>4. CASE EventReceived
    BY <1>4 DEF EventReceived
<1>5. ASSUME NEW p \in Buffers, Free(p) PROVE heap' \in SUBSET Buffers /\ content' \in [Buffers -> Packets]
    BY <1>0, <1>00, <1>5 DEF Free
<1>6. CASE RecvBegin
    <2>1. task' \in Tasks /\ irq' \in BOOLEAN
        <3>1. CASE rxQueue = <<>>
            <4>1. task' = [task EXCEPT !.pc = task.after, !.p = NULL] /\ irq' = irq
                BY <1>6, <3>1 DEF RecvBegin
            <4>2. task.after \in Places
                BY <1>01
            <4> QED
                BY <1>0, <4>1, <4>2, Updates, Zenon
        <3>2. CASE rxQueue # <<>>
            <4>1. Head(rxQueue) \in Buffers /\ "recvNext" \in Places
                BY <1>0, <1>01, <3>2, HeadTailProperties DEF Taking
            <4>2. irq' \in BOOLEAN
                BY <1>6, <3>2, Zenon DEF RecvBegin
            <4> QED
                BY <1>6, <3>2, <4>1, <4>2, Updates DEF RecvBegin
        <3> QED
            BY <3>1, <3>2
    <2> QED
        BY <1>0, <1>6, <2>1 DEF RecvBegin, Types
<1>7. CASE RecvNext
    <2>1. task' \in Tasks
        <3>1. (IF Len(rxQueue) = 1 THEN NULL ELSE rxQueue[2]) \in Buffers \cup {NULL}
            <4>1. Len(rxQueue) \in Nat /\ Len(rxQueue) # 0 /\ \A i \in 1 .. Len(rxQueue) : rxQueue[i] \in Buffers
                BY <1>0, <1>02, <1>7, Queue DEF RecvNext
            <4>2. CASE Len(rxQueue) = 1
                BY <4>2
            <4>3. CASE Len(rxQueue) # 1
                <5>1. 2 \in 1 .. Len(rxQueue)
                    BY <4>1, <4>3
                <5> QED
                    BY <4>1, <4>3, <5>1
            <4> QED
                BY <4>2, <4>3
        <3>2. "recvTake" \in Places
            BY <1>01 DEF Taking
        <3> QED
            BY <1>7, <3>1, <3>2, Updates DEF RecvNext
    <2> QED
        BY <1>0, <1>7, <2>1 DEF RecvNext, Types
<1>8. CASE RecvTake
    <2>1. task' \in Tasks
        BY <1>01, <1>8, Updates DEF RecvTake, Taking
    <2>2. rxQueue' \in Seq(Buffers)
        BY <1>0, <1>8, Queue, EmptySeq DEF RecvTake, Control
    <2> QED
        BY <1>0, <1>8, <2>1, <2>2 DEF RecvTake, Types
<1>9. CASE RecvCount
    <2>1. queueDepth \in Int /\ queueDepth' = queueDepth - 1
        BY <1>0, <1>9 DEF RecvCount
    <2>2. queueDepth' \in Int
        BY <2>1
    <2>3. task' \in Tasks
        BY <1>01, <1>9 DEF RecvCount, Taking
    <2> QED
        BY <1>0, <1>9, <2>2, <2>3 DEF RecvCount, Types
<1>10. CASE RecvEnd
    <2>1. irq' \in BOOLEAN
        BY <1>10, Zenon DEF RecvEnd
    <2>2. task' \in Tasks
        BY <1>01, <1>10 DEF RecvEnd
    <2> QED
        BY <1>0, <1>10, <2>1, <2>2 DEF RecvEnd, Types
<1>11. CASE UserRecv
    <2>1. task' \in Tasks
        BY <1>01, <1>11, Updates DEF UserRecv, Taking, Passing
    <2> QED
        BY <1>0, <1>11, <2>1 DEF UserRecv, Types
<1>11a. CASE IdleCallback
    <2>1. task' \in Tasks
        BY <1>01, <1>11a, Updates DEF IdleCallback
    <2> QED
        BY <1>0, <1>11a, <2>1 DEF IdleCallback, Types
<1>12. CASE UserDelete
    <2>1. task.p = NULL \/ task.p \in Buffers
        BY <1>01
    <2> QED
        BY <1>0, <1>00, <1>5, <1>12, <2>1 DEF UserDelete, Types
<1>13. CASE Walk
    <2>1. task' \in Tasks
        <3>1. CASE rxQueue = <<>>
            BY <1>00, <1>13, <3>1 DEF Walk
        <3>2. CASE rxQueue # <<>>
            <4>1. Head(rxQueue) \in Buffers /\ {"recv", "compare"} \subseteq Places /\ {"datagram", "fire"} \subseteq Passing
                BY <1>0, <1>01, <3>2, HeadTailProperties DEF Taking, Passing
            <4> DEFINE p == Head(rxQueue)
            <4>2. /\ [task EXCEPT !.p = p, !.pc = "recv", !.after = "datagram"] \in Tasks
                  /\ [task EXCEPT !.p = p, !.pc = "recv", !.after = "fire"] \in Tasks
                  /\ [task EXCEPT !.p = p, !.pc = "compare"] \in Tasks
                BY <4>1, Updates
            <4> QED
                BY <1>13, <3>2, <4>2 DEF Walk
        <3> QED
            BY <3>1, <3>2
    <2> QED
        BY <1>0, <1>13, <2>1 DEF Walk, Types
<1>14. CASE DatagramReceived
    <2>1. task.p \in Buffers
        BY <1>02, <1>14 DEF DatagramReceived
    <2>2. datagrams' \in Seq(Buffers) /\ heap' \in SUBSET Buffers /\ content' \in [Buffers -> Packets]
        <3>1. Append(datagrams, task.p) \in Seq(Buffers)
            BY <1>0, <2>1, Queue
        <3> QED
            BY <1>0, <1>5, <1>14, <2>1, <3>1 DEF DatagramReceived
    <2> QED
        BY <1>0, <1>01, <1>14, <2>2 DEF DatagramReceived, Types
<1>15. CASE EventFire
    <2>1. suppressForwarding' \in BOOLEAN
        BY <1>15, Zenon DEF EventFire
    <2> QED
        BY <1>0, <1>01, <1>15, <2>1 DEF EventFire, Types, Passing
<1>16. CASE EventFired
    <2>1. task.p \in Buffers
        BY <1>02, <1>16 DEF EventFired
    <2>2. given' \in [datagram : Nat, event : Nat]
        BY <1>0, <1>16, <2>1 DEF EventFired, Packets
    <2> QED
        <3>1. suppressForwarding' \in BOOLEAN
            BY <1>16, Zenon DEF EventFired
        <3> QED
            BY <1>0, <1>01, <1>5, <1>16, <2>1, <2>2, <3>1 DEF EventFired, Types
<1>17. CASE Compare
    <2>1. task' \in Tasks
        BY <1>01, <1>17, Updates DEF Compare, Taking, Passing
    <2> QED
        BY <1>0, <1>17, <2>1 DEF Compare, Types
<1>18. CASE Drop
    <2>1. task.p \in Buffers
        BY <1>02, <1>18 DEF Drop
    <2> QED
        BY <1>0, <1>01, <1>5, <1>18, <2>1 DEF Drop, Types
<1>19. CASE DatagramRecv
    <2>1. Head(datagrams) \in Buffers /\ datagrams' \in Seq(Buffers)
        BY <1>0, <1>19, Queue DEF DatagramRecv
    <2>2. given' \in [datagram : Nat, event : Nat]
        BY <1>0, <1>19, <2>1 DEF DatagramRecv, Packets
    <2> QED
        BY <1>0, <1>5, <1>19, <2>1, <2>2 DEF DatagramRecv, Types
<1>20. CASE Enable \/ (Wake /\ "DEEPSLEEP_INIT" \in status)
    <2>1. Enabling /\ status' \in SUBSET Flags
        BY <1>0, <1>20 DEF Enable, Wake
    <2>2. rxBuf' \in Buffers \cup {NULL} /\ heap' \in SUBSET Buffers
        BY <1>0, <2>1, FirstFree DEF Enabling
    <2>3. task' \in Tasks /\ hw' \in Hardware
        BY <1>0, <1>01, <2>1, <2>2 DEF Enabling, Hardware
    <2>4. irq' \in BOOLEAN
        BY <2>1, Zenon DEF Enabling
    <2> QED
        BY <1>0, <1>20, <2>1, <2>2, <2>3, <2>4 DEF Enable, Wake, Types
<1>21. CASE Wake /\ "DEEPSLEEP_INIT" \notin status
    <2>1. irq' \in BOOLEAN
        BY <1>0, <1>21, Zenon DEF Wake
    <2> QED
        BY <1>0, <1>00, <1>21, <2>1 DEF Wake, Types
<1>22. CASE EnableListen
    <2>1. hw' \in Hardware
        BY <1>0, <1>00, <1>22 DEF EnableListen, Hardware
    <2> QED
        BY <1>0, <1>00, <1>22, <2>1 DEF EnableListen, Types, Flags
<1>23. CASE Disable
    <2>1. irq' \in BOOLEAN
        BY <1>23, Zenon DEF Disable
    <2> QED
        BY <1>0, <1>00, <1>23, <2>1 DEF Disable, Types
<1>24. CASE Sleep
    <2>1. irq' \in BOOLEAN
        BY <1>24, Zenon DEF Sleep
    <2>2. State \in Snapshots
        BY <1>0 DEF State, Snapshots, Hardware
    <2>3. task' \in Tasks
        BY <1>00, <1>01, <1>24, <2>2 DEF Sleep, Tasks
    <2>4. hw' \in Hardware /\ status' \in SUBSET Flags
        BY <1>0, <1>00, <1>24 DEF Sleep, Flags
    <2> QED
        BY <1>0, <1>24, <2>1, <2>3, <2>4 DEF Sleep, Types
<1>25. ASSUME task' \in Tasks, hw' \in Hardware, irq' \in BOOLEAN,
              UNCHANGED <<status, rxBuf, rxQueue, queueDepth, Upper, count>>
       PROVE  Types'
    BY <1>0, <1>25 DEF Types
<1>27. CASE Send
    <2>1. irq' \in BOOLEAN
        BY <1>27, Zenon DEF Send
    <2> QED
        BY <1>0, <1>01, <1>25, <1>27, <2>1, Updates DEF Send, Sending
<1>28. CASE SendOff
    BY <1>0, <1>00, <1>01, <1>25, <1>28 DEF SendOff, Sending
<1>29. CASE SendStart
    BY <1>0, <1>01, <1>25, <1>29 DEF SendStart, Sending, Hardware, Modes
<1>30. CASE SendWait
    BY <1>0, <1>01, <1>25, <1>30 DEF SendWait, Sending
<1>31. CASE SendBack
    BY <1>0, <1>00, <1>01, <1>25, <1>31 DEF SendBack, Sending
<1>32. CASE SendEnd
    <2>1. irq' \in BOOLEAN
        BY <1>32, Zenon DEF SendEnd
    <2> QED
        BY <1>0, <1>00, <1>25, <1>32, <2>1 DEF SendEnd
<1>26. CASE UNCHANGED vars
    BY <1>0, <1>26 DEF vars, Types
<1> QED
    BY <1>1, <1>2, <1>3, <1>4, <1>6, <1>7, <1>8, <1>9, <1>10, <1>11, <1>12, <1>13, <1>14, <1>15, <1>16, <1>17, <1>18, <1>19,
       <1>20, <1>21, <1>22, <1>23, <1>24, <1>26, <1>27, <1>28, <1>29, <1>30, <1>31, <1>32, <1>11a DEF Next, UserCall, Work
LEMMA ControlStep == Types /\ Control /\ ~forwards /\ [Next]_vars => Control'
<1> SUFFICES ASSUME Types, Control, ~forwards, [Next]_vars PROVE Control'
    OBVIOUS
<1> USE DEF Radio, Upper, Extra, At, Goto, Recv, Call
<1>0. task \in Tasks /\ rxQueue \in Seq(Buffers) /\ rxBuf \in Buffers \cup {NULL}
    BY DEF Types
<1>00. /\ Home.pc = "home" /\ \A pc \in Places : [Home EXCEPT !.pc = pc].pc = pc
       /\ task.pc \in {"home", "walk", "compare", "asleep", "enabling"} \cup Taking \cup Passing \cup Sending
    BY <1>0 DEF Home, Tasks, Places
<1>1. CASE Arrive \/ TxEnd
    <2>1. UNCHANGED <<irq, rxQueue, task>>
        BY <1>1 DEF Arrive, TxEnd
    <2> QED
        BY <2>1 DEF Control
<1>2. CASE IRQHandler
    <2>1. rxQueue' = rxQueue \/ rxQueue' # <<>>
        <3>1. CASE rxQueue' = rxQueue
            BY <3>1
        <3>2. CASE rxQueue' # rxQueue
            <4>1. rxQueue' = Append(rxQueue, rxBuf) /\ rxBuf \in Buffers
                BY <1>0, <1>2, <3>2 DEF IRQHandler, QueueRxBuf
            <4>2. Len(rxQueue') = Len(rxQueue) + 1 /\ Len(rxQueue) \in Nat /\ Len(<<>>) = 0
                BY <1>0, <4>1, Queue, EmptySeq
            <4> QED
                BY <4>2
        <3> QED
            BY <3>1, <3>2
    <2>2. irq /\ irq' = irq /\ task' = task
        BY <1>2 DEF IRQHandler
    <2>3. task.pc \notin Taking \ {"recv"}
        BY <2>2 DEF Control
    <2> QED
        BY <2>1, <2>2, <2>3 DEF Control, Taking
<1>3. CASE EventReceived
    BY <1>3 DEF EventReceived
<1>4. CASE RecvBegin
    <2>1. /\ rxQueue # <<>> /\ task.after \in Passing \ {"fired"}
          /\ Head(rxQueue) = rxQueue[1] /\ Head(rxQueue) \in Buffers
        BY <1>0, <1>4, Queue, HeadTailProperties DEF RecvBegin, Control, Taking
    <2>2. task'.pc = "recvNext" /\ task'.after = task.after /\ task'.p = Head(rxQueue) /\ ~irq' /\ rxQueue' = rxQueue
        BY <1>0, <1>4, <2>1 DEF RecvBegin, Tasks
    <2> QED
        BY <2>1, <2>2, Constants DEF Control, Taking, Passing
<1>5. CASE RecvNext
    <2>1. /\ rxQueue # <<>> /\ task.after \in Passing \ {"fired"} /\ task.p = rxQueue[1] /\ ~irq
        BY <1>5 DEF RecvNext, Control, Taking
    <2>2. /\ task'.pc = "recvTake" /\ task'.after = task.after /\ task'.p = task.p /\ irq' = irq /\ rxQueue' = rxQueue
          /\ task'.next = IF Len(rxQueue) = 1 THEN NULL ELSE rxQueue[2]
        BY <1>0, <1>5 DEF RecvNext, Tasks
    <2> QED
        BY <2>1, <2>2 DEF Control, Taking, Passing
<1>6. CASE RecvTake
    <2>1. /\ rxQueue # <<>> /\ task.after \in Passing \ {"fired"} /\ task.p = rxQueue[1] /\ ~irq
        BY <1>6 DEF RecvTake, Control, Taking
    <2>2. task'.pc = "recvCount" /\ task'.after = task.after /\ task'.p = task.p /\ irq' = irq
        BY <1>0, <1>6 DEF RecvTake, Tasks
    <2>3. task.p # NULL
        <3>1. Head(rxQueue) = rxQueue[1] /\ Head(rxQueue) \in Buffers
            BY <1>0, <2>1, Queue, HeadTailProperties
        <3> QED
            BY <2>1, <3>1, Constants
    <2> QED
        BY <2>1, <2>2, <2>3 DEF Control, Taking, Passing
<1>7. CASE RecvCount
    <2>1. task.after \in Passing \ {"fired"} /\ ~irq /\ task.p # NULL
        BY <1>7 DEF RecvCount, Control, Taking
    <2>2. task'.pc = "recvEnd" /\ task'.after = task.after /\ task'.p = task.p /\ irq' = irq
        BY <1>0, <1>7 DEF RecvCount, Tasks
    <2> QED
        BY <2>1, <2>2 DEF Control, Taking, Passing
<1>8. CASE RecvEnd
    <2>1. task.after \in Passing \ {"fired"} /\ task.p # NULL
        BY <1>8 DEF RecvEnd, Control, Taking
    <2>2. task'.pc = task.after /\ task'.after = task.after /\ task'.p = task.p
        BY <1>0, <1>8 DEF RecvEnd, Tasks
    <2> QED
        BY <2>1, <2>2 DEF Control, Taking, Passing
<1>9. CASE UserRecv
    <2>1. task'.pc = "recv" /\ task'.after = "own" /\ rxQueue' # <<>>
        BY <1>0, <1>9 DEF UserRecv, Tasks
    <2> QED
        BY <2>1 DEF Control, Taking, Passing
<1>10. CASE IdleCallback
    <2>1. task'.pc = "walk"
        BY <1>10 DEF IdleCallback, Home
    <2> QED
        BY <2>1 DEF Control, Taking, Passing
<1>11. ASSUME task' = Home PROVE Control'
    BY <1>00, <1>11 DEF Control, Taking, Passing
<1>12. CASE Walk
    <2>1. CASE rxQueue = <<>>
        BY <1>11, <1>12, <2>1 DEF Walk
    <2>2. CASE rxQueue # <<>>
        <3>1. Head(rxQueue) # NULL
            BY <1>0, <2>2, HeadTailProperties, Constants
        <3>2. /\ rxQueue' = rxQueue
              /\ \/ task'.pc = "recv" /\ task'.after \in {"datagram", "fire"}
                 \/ task'.pc = "compare" /\ task'.p = Head(rxQueue)
            BY <1>0, <1>12, <2>2 DEF Walk, Tasks
        <3> QED
            BY <2>2, <3>1, <3>2 DEF Control, Taking, Passing
    <2> QED
        BY <2>1, <2>2
<1>13. CASE DatagramReceived \/ EventFired
    <2>1. task'.pc = "compare" /\ task'.p = task.p
        BY <1>0, <1>13 DEF DatagramReceived, EventFired, Tasks
    <2>2. task.p # NULL
        BY <1>13 DEF DatagramReceived, EventFired, Control, Passing
    <2> QED
        BY <2>1, <2>2 DEF Control, Taking, Passing
<1>14. CASE EventFire
    <2>1. task'.pc = "fired" /\ task'.p = task.p /\ task'.after = task.after
        BY <1>0, <1>14 DEF EventFire, Tasks
    <2>2. task.p # NULL /\ task.after = "fire"
        BY <1>14 DEF EventFire, Control, Passing
    <2> QED
        BY <2>1, <2>2 DEF Control, Taking, Passing
<1>15. CASE Compare
    <2>1. CASE rxQueue # <<>> /\ Head(rxQueue) = task.p
        <3>1. task'.pc = "recv" /\ task'.after = "drop" /\ rxQueue' = rxQueue
            BY <1>0, <1>15, <2>1 DEF Compare, Tasks
        <3> QED
            BY <2>1, <3>1 DEF Control, Taking, Passing
    <2>2. CASE ~(rxQueue # <<>> /\ Head(rxQueue) = task.p)
        <3>1. task'.pc = "walk"
            BY <1>0, <1>15, <2>2 DEF Compare, Tasks
        <3> QED
            BY <3>1 DEF Control, Taking, Passing
    <2> QED
        BY <2>1, <2>2
<1>16. CASE Drop
    <2>1. task'.pc = "walk"
        BY <1>0, <1>16 DEF Drop, Tasks
    <2> QED
        BY <2>1 DEF Control, Taking, Passing
<1>17. CASE UserDelete \/ EnableListen \/ SendEnd
    BY <1>11, <1>17 DEF UserDelete, EnableListen, SendEnd
<1>18. CASE DatagramRecv \/ Disable
    <2>1. task = Home /\ task' = task
        BY <1>18 DEF DatagramRecv, Disable, Control
    <2> QED
        BY <1>11, <2>1
<1>19. CASE Enable \/ (Wake /\ "DEEPSLEEP_INIT" \in status)
    <2>1. task'.pc = "enabling"
        BY <1>0, <1>19 DEF Enable, Wake, Enabling, Tasks
    <2> QED
        BY <2>1 DEF Control, Taking, Passing
<1>20. CASE Wake /\ "DEEPSLEEP_INIT" \notin status
    BY <1>11, <1>20 DEF Wake
<1>21. CASE Sleep
    <2>1. task'.pc = "asleep"
        BY <1>21 DEF Sleep, Home
    <2> QED
        BY <2>1 DEF Control, Taking, Passing
<1>22. CASE Send \/ SendOff \/ SendStart \/ SendWait \/ SendBack
    <2>1. task'.pc \in Sending
        <3>1. CASE Send
            BY <3>1 DEF Send, Home, Sending
        <3>2. CASE SendOff \/ SendStart \/ SendWait \/ SendBack
            BY <1>0, <3>2 DEF SendOff, SendStart, SendWait, SendBack, Tasks, Sending
        <3> QED
            BY <1>22, <3>1, <3>2
    <2> QED
        BY <2>1 DEF Control, Taking, Passing, Sending
<1>23. CASE UNCHANGED vars
    BY <1>23 DEF vars, Control
<1> QED
    BY <1>1, <1>2, <1>3, <1>4, <1>5, <1>6, <1>7, <1>8, <1>9, <1>10, <1>12, <1>13, <1>14, <1>15, <1>16, <1>17, <1>18, <1>19,
       <1>20, <1>21, <1>22, <1>23 DEF Next, UserCall, Work

(* What a step of recv() does to the queue and its length.                 *)
LEMMA Taken ==
    ASSUME Types, Control, RecvTake
    PROVE  /\ rxQueue' \in Seq(Buffers) /\ Len(rxQueue) > 0 /\ Len(rxQueue') = Len(rxQueue) - 1
           /\ \A i \in 1 .. Len(rxQueue') : rxQueue'[i] = rxQueue[i + 1]
<1>1. rxQueue \in Seq(Buffers) /\ rxQueue # <<>> /\ task.next = IF Len(rxQueue) = 1 THEN NULL ELSE rxQueue[2]
    BY DEF Types, RecvTake, At, Control
<1>2. /\ Len(rxQueue) \in Nat /\ Len(rxQueue) # 0
      /\ \A i \in 1 .. Len(rxQueue) : rxQueue[i] # NULL
      /\ Tail(rxQueue) \in Seq(Buffers) /\ Len(Tail(rxQueue)) = Len(rxQueue) - 1
      /\ \A i \in 1 .. Len(rxQueue) - 1 : Tail(rxQueue)[i] = rxQueue[i + 1]
    BY <1>1, Queue, Constants
<1>3. CASE Len(rxQueue) = 1
    <2>1. rxQueue' = <<>>
        BY <1>1, <1>3 DEF RecvTake
    <2> QED
        BY <1>3, <2>1, EmptySeq
<1>4. CASE Len(rxQueue) # 1
    <2>1. 2 \in 1 .. Len(rxQueue)
        BY <1>2, <1>4
    <2>2. rxQueue' = Tail(rxQueue)
        BY <1>1, <1>2, <1>4, <2>1 DEF RecvTake
    <2> QED
        BY <1>2, <2>2
<1> QED
    BY <1>3, <1>4
(* A packet that comes off the queue of the radio is passed on, or not.    *)
Full == datagrams # <<>> /\ Len(datagrams) - 1 >= RxBuffers
Drops == UserDelete \/ EventFired \/ Drop \/ (DatagramReceived /\ Full)
Stores == DatagramReceived /\ ~Full

(* The steps that move no packet.                                          *)
Quiet ==
    \/ TxEnd \/ RecvBegin \/ RecvNext \/ RecvCount \/ RecvEnd \/ UserRecv \/ IdleCallback \/ Walk \/ EventFire \/ Compare
    \/ EnableListen \/ Disable \/ Sleep \/ Send \/ SendOff \/ SendStart \/ SendWait \/ SendBack \/ SendEnd
    \/ Wake /\ "DEEPSLEEP_INIT" \notin status
    \/ UNCHANGED vars

Starts == Enable \/ (Wake /\ "DEEPSLEEP_INIT" \in status)

LEMMA Steps ==
    ASSUME [Next]_vars, ~forwards
    PROVE  \/ Arrive \/ IRQHandler \/ RecvTake \/ Drops \/ Stores \/ DatagramRecv \/ Starts \/ Quiet
BY DEF Next, UserCall, Work, EventReceived, Quiet, Starts, Drops, Stores

LEMMA QuietStep ==
    ASSUME Types, Control, Quiet
    PROVE  /\ UNCHANGED <<heap, content, rxBuf, rxQueue, datagrams, count, given>>
           /\ Held' <=> Held
           /\ Held => task'.p = task.p
           /\ \A b : InPath(b)' <=> InPath(b)
           /\ hw'.end /\ hw'.ok => hw.ok /\ (hw.end \/ hw.mode = "tx")
           /\ ~RecvCount => queueDepth' = queueDepth /\ (task.pc = "recvCount" <=> task'.pc = "recvCount")
<1> USE DEF Radio, Upper, Extra, At, Goto, Recv, Call
<1> DEFINE Still == UNCHANGED <<heap, content, rxBuf, rxQueue, datagrams, count, given>>
           Ended == hw'.end /\ hw'.ok => hw.ok /\ (hw.end \/ hw.mode = "tx")
           Hands == (Held' <=> Held) /\ (Held => task'.p = task.p)
           Count == ~RecvCount => queueDepth' = queueDepth /\ (task.pc = "recvCount" <=> task'.pc = "recvCount")
<1>0. task \in Tasks /\ hw \in Hardware /\ Home.pc = "home"
    BY DEF Types, Home
<1>1. SUFFICES Still /\ Ended /\ Hands /\ Count
    BY DEF InPath
<1>2. ASSUME hw' = hw PROVE Ended
    BY <1>2
<1>3. ASSUME ~hw'.end PROVE Ended
    BY <1>3
<1>4. ASSUME task.pc \notin Passing \cup {"recvCount", "recvEnd"}, task'.pc \notin Passing \cup {"recvCount", "recvEnd"} PROVE Hands
    BY <1>4 DEF Held
<1>5. CASE TxEnd
    <2>1. Still /\ queueDepth' = queueDepth /\ task' = task /\ hw.mode = "tx" /\ hw' = [hw EXCEPT !.end = TRUE]
        BY <1>5 DEF TxEnd
    <2>2. Hands
        BY <2>1 DEF Held
    <2>3. Still /\ Ended /\ Count
        BY <2>1
    <2> QED
        BY <2>2, <2>3
<1>6. CASE RecvBegin
    <2>1. Still /\ hw' = hw /\ queueDepth' = queueDepth
        BY <1>6 DEF RecvBegin
    <2>2. task.pc = "recv" /\ rxQueue # <<>>
        BY <1>6 DEF RecvBegin, Control
    <2>3. task'.pc = "recvNext"
        BY <1>0, <1>6, <2>2 DEF RecvBegin, Tasks
    <2> QED
        BY <1>2, <1>4, <2>1, <2>2, <2>3 DEF Passing
<1>7. CASE RecvNext
    <2>1. Still /\ hw' = hw /\ queueDepth' = queueDepth /\ task.pc = "recvNext" /\ task'.pc = "recvTake"
        BY <1>0, <1>7 DEF RecvNext, Tasks
    <2> QED
        BY <1>2, <1>4, <2>1 DEF Passing
<1>8. CASE RecvCount
    <2>1. Still /\ hw' = hw /\ task.pc = "recvCount" /\ task'.pc = "recvEnd" /\ task'.p = task.p
        BY <1>0, <1>8 DEF RecvCount, Tasks
    <2> QED
        BY <1>2, <1>8, <2>1 DEF Held
<1>9. CASE RecvEnd
    <2>1. Still /\ hw' = hw /\ queueDepth' = queueDepth /\ task.pc = "recvEnd" /\ task'.pc = task.after /\ task'.p = task.p
        BY <1>0, <1>9 DEF RecvEnd, Tasks
    <2>2. task.after \in Passing
        BY <2>1 DEF Control, Taking
    <2> QED
        BY <1>2, <2>1, <2>2 DEF Held, Passing
<1>10. CASE UserRecv
    <2>1. Still /\ hw' = hw /\ queueDepth' = queueDepth /\ task.pc = "home" /\ task'.pc = "recv"
        BY <1>0, <1>10 DEF UserRecv, Tasks
    <2> QED
        BY <1>2, <1>4, <2>1 DEF Passing
<1>11. CASE IdleCallback
    <2>1. Still /\ hw' = hw /\ queueDepth' = queueDepth /\ task.pc = "home" /\ task'.pc = "walk"
        BY <1>11 DEF IdleCallback, Home
    <2> QED
        BY <1>2, <1>4, <2>1 DEF Passing
<1>12. CASE Walk
    <2>1. Still /\ hw' = hw /\ queueDepth' = queueDepth /\ task.pc = "walk"
        BY <1>12 DEF Walk
    <2>2. task'.pc \in {"home", "recv", "compare"}
        BY <1>0, <1>12 DEF Walk, Tasks
    <2> QED
        BY <1>2, <1>4, <2>1, <2>2 DEF Passing
<1>13. CASE EventFire
    <2>1. /\ Still /\ hw' = hw /\ queueDepth' = queueDepth
          /\ task.pc = "fire" /\ task'.pc = "fired" /\ task'.p = task.p
        BY <1>0, <1>13 DEF EventFire, Tasks
    <2> QED
        BY <1>2, <2>1 DEF Held, Passing
<1>14. CASE Compare
    <2>1. Still /\ hw' = hw /\ queueDepth' = queueDepth /\ task.pc = "compare"
        BY <1>14 DEF Compare
    <2>2. task'.pc \in {"recv", "walk"}
        BY <1>0, <1>14 DEF Compare, Tasks
    <2> QED
        BY <1>2, <1>4, <2>1, <2>2 DEF Passing
<1>15. CASE EnableListen
    <2>1. Still /\ ~hw'.end /\ queueDepth' = queueDepth /\ task.pc = "enabling" /\ task'.pc = "home"
        BY <1>0, <1>15 DEF EnableListen, Listening
    <2> QED
        BY <1>3, <1>4, <2>1 DEF Passing
<1>16. CASE Disable
    <2>1. /\ Still /\ queueDepth' = queueDepth /\ task.pc = "home" /\ task' = task
          /\ hw'.end = hw.end /\ hw'.ok = hw.ok
        BY <1>0, <1>16 DEF Disable, Off, Hardware
    <2> QED
        BY <1>4, <2>1 DEF Passing
<1>17. CASE Sleep
    <2>1. /\ Still /\ queueDepth' = queueDepth /\ task.pc = "home" /\ task'.pc = "asleep"
          /\ hw'.end = hw.end /\ hw'.ok = hw.ok
        BY <1>0, <1>17 DEF Sleep, Home, Off, Hardware
    <2> QED
        BY <1>4, <2>1 DEF Passing
<1>18. CASE Send
    <2>1. Still /\ hw' = hw /\ queueDepth' = queueDepth /\ task.pc = "home" /\ task'.pc = "sendOff"
        BY <1>18 DEF Send, Home
    <2> QED
        BY <1>2, <1>4, <2>1 DEF Passing
<1>19. CASE SendOff
    <2>1. /\ Still /\ queueDepth' = queueDepth /\ task.pc = "sendOff" /\ task'.pc = "sendStart"
          /\ hw'.end = hw.end /\ hw'.ok = hw.ok
        BY <1>0, <1>19 DEF SendOff, Off, Hardware, Tasks
    <2> QED
        BY <1>4, <2>1 DEF Passing
<1>20. CASE SendStart
    <2>1. Still /\ ~hw'.end /\ queueDepth' = queueDepth /\ task.pc = "sendStart" /\ task'.pc = "sendWait"
        BY <1>0, <1>20 DEF SendStart, Tasks
    <2> QED
        BY <1>3, <1>4, <2>1 DEF Passing
<1>21. CASE SendWait
    <2>1. Still /\ hw' = hw /\ queueDepth' = queueDepth /\ task.pc = "sendWait" /\ task'.pc = "sendBack"
        BY <1>0, <1>21 DEF SendWait, Tasks
    <2> QED
        BY <1>2, <1>4, <2>1 DEF Passing
<1>22. CASE SendBack
    <2>1. Still /\ ~hw'.end /\ queueDepth' = queueDepth /\ task.pc = "sendBack" /\ task'.pc = "sendEnd"
        BY <1>0, <1>22 DEF SendBack, Listening, Tasks
    <2> QED
        BY <1>3, <1>4, <2>1 DEF Passing
<1>23. CASE SendEnd
    <2>1. Still /\ hw' = hw /\ queueDepth' = queueDepth /\ task.pc = "sendEnd" /\ task'.pc = "home"
        BY <1>0, <1>23 DEF SendEnd
    <2> QED
        BY <1>2, <1>4, <2>1 DEF Passing
<1>24. CASE Wake /\ "DEEPSLEEP_INIT" \notin status
    <2>1. Still /\ hw' = hw /\ queueDepth' = queueDepth /\ task.pc = "asleep" /\ task'.pc = "home"
        BY <1>0, <1>24 DEF Wake
    <2> QED
        BY <1>2, <1>4, <2>1 DEF Passing
<1>25. CASE UNCHANGED vars
    <2>1. Still /\ hw' = hw /\ queueDepth' = queueDepth /\ task' = task
        BY <1>25 DEF vars
    <2>2. Hands
        BY <2>1 DEF Held
    <2> QED
        BY <1>2, <2>1, <2>2
<1> QED
    BY <1>5, <1>6, <1>7, <1>8, <1>9, <1>10, <1>11, <1>12, <1>13, <1>14, <1>15, <1>16, <1>17, <1>18, <1>19, <1>20, <1>21,
       <1>22, <1>23, <1>24, <1>25 DEF Quiet
LEMMA DropsStep ==
    ASSUME Types, Control, Drops
    PROVE  /\ Held /\ ~Held' /\ task.p \in Buffers /\ Free(task.p)
           /\ UNCHANGED <<rxBuf, rxQueue, datagrams, queueDepth, hw, count>>
           /\ given' = given \/ given' = [given EXCEPT !.event = content[task.p].number]
           /\ task.pc \in Passing /\ task'.pc \in {"home", "compare", "walk"}
           /\ task'.pc = "compare" => task'.p = task.p
<1> USE DEF Radio, Upper, Extra, At, Goto
<1>1. task \in Tasks /\ Home.pc = "home"
    BY DEF Types, Home
<1>2. task.pc \in Passing
    BY DEF Drops, UserDelete, EventFired, Drop, DatagramReceived, Passing
<1>3. task.p # NULL /\ task.p \in Buffers /\ Held
    BY <1>1, <1>2 DEF Control, Held, Tasks
<1>4. task'.pc \in {"home", "compare", "walk"} /\ (task'.pc = "compare" => task'.p = task.p)
    BY <1>1 DEF Drops, UserDelete, EventFired, Drop, DatagramReceived, Tasks
<1>5. ~Held'
    BY <1>4 DEF Held, Passing
<1>6. /\ Free(task.p) /\ UNCHANGED <<rxBuf, rxQueue, datagrams, queueDepth, hw, count>>
      /\ given' = given \/ given' = [given EXCEPT !.event = content[task.p].number]
    BY <1>3 DEF Drops, UserDelete, EventFired, Drop, DatagramReceived, Full
<1> QED
    BY <1>2, <1>3, <1>4, <1>5, <1>6

LEMMA StoresStep ==
    ASSUME Types, Control, Stores
    PROVE  /\ Held /\ ~Held' /\ task.p \in Buffers
           /\ datagrams' = Append(datagrams, task.p)
           /\ UNCHANGED <<rxBuf, rxQueue, queueDepth, hw, count, heap, content, given>>
           /\ task.pc = "datagram" /\ task'.pc = "compare" /\ task'.p = task.p
<1>1. task \in Tasks
    BY DEF Types
<1>2. task.pc = "datagram" /\ task'.pc = "compare" /\ task'.p = task.p
    BY <1>1 DEF Stores, DatagramReceived, Tasks, At, Goto
<1>3. /\ datagrams' = Append(datagrams, task.p)
      /\ UNCHANGED <<rxBuf, rxQueue, queueDepth, hw, count, heap, content, given>>
    BY DEF Stores, Full, DatagramReceived, Radio, Extra
<1> QED
    BY <1>1, <1>2, <1>3 DEF Held, Passing, Control, Tasks

LEMMA StartsStep ==
    ASSUME Types, Starts
    PROVE  /\ UNCHANGED <<content, rxQueue, datagrams, queueDepth, count, given>>
           /\ ~Held /\ ~Held'
           /\ \A b : InPath(b)' <=> InPath(b)
           /\ IF rxBuf = NULL THEN rxBuf' \in heap /\ heap' = heap \ {rxBuf'} ELSE rxBuf' = rxBuf /\ heap' = heap
           /\ rxBuf' # NULL /\ hw' = [hw EXCEPT !.ptr = rxBuf'] /\ irq'
           /\ task.pc \in {"home", "asleep"} /\ task'.pc = "enabling" /\ task'.before = task.before
           /\ status' = status \ {"DEEPSLEEP_INIT"} \/ ("INITIALISED" \notin status /\ status' = status /\ task.pc = "home")
<1>1. task \in Tasks
    BY DEF Types
<1>2. /\ UNCHANGED <<content, rxQueue, datagrams, queueDepth, count, given>>
      /\ task.pc \in {"home", "asleep"} /\ Enabling
    BY DEF Starts, Enable, Wake, At, Extra
<1>3. task'.pc = "enabling" /\ task'.before = task.before /\ rxBuf' # NULL /\ irq' /\ hw' = [hw EXCEPT !.ptr = rxBuf']
    BY <1>1, <1>2 DEF Enabling, Goto, Tasks
<1>4. IF rxBuf = NULL THEN rxBuf' \in heap /\ heap' = heap \ {rxBuf'} ELSE rxBuf' = rxBuf /\ heap' = heap
    BY <1>2, FirstFree DEF Enabling, Types
<1>5. ~Held /\ ~Held'
    BY <1>2, <1>3 DEF Held, Passing
<1>6. \A b : InPath(b)' <=> InPath(b)
    BY <1>2, <1>5 DEF InPath
<1>7. status' = status \ {"DEEPSLEEP_INIT"} \/ ("INITIALISED" \notin status /\ status' = status /\ task.pc = "home")
    BY DEF Starts, Enable, Wake, At
<1> QED
    BY <1>2, <1>3, <1>4, <1>5, <1>6, <1>7

(* The interrupt handler keeps its buffer, or queues it and takes another. *)
LEMMA IRQStep ==
    ASSUME Types, Control, IRQHandler
    PROVE  /\ irq /\ UNCHANGED <<irq, status, content, datagrams, task, count, given>>
           /\ task.pc \notin Taking \ {"recv"}
           /\ Held' <=> Held
           /\ hw'.mode = hw.mode /\ ~hw'.end /\ ~hw'.ok /\ (hw'.ptr = rxBuf' \/ (hw'.ptr = hw.ptr /\ rxBuf' = rxBuf))
           /\ \/ UNCHANGED <<heap, rxBuf, rxQueue, queueDepth>>
              \/ /\ hw.end /\ hw.ok /\ rxBuf \in Buffers /\ queueDepth < RxBuffers
                 /\ rxQueue' = Append(rxQueue, rxBuf) /\ queueDepth' = queueDepth + 1
                 /\ rxBuf' \in heap /\ heap' = heap \ {rxBuf'}
<1>0. hw \in Hardware /\ rxBuf \in Buffers \cup {NULL} /\ heap \in SUBSET Buffers /\ queueDepth \in Int
    BY DEF Types
<1>1. irq /\ UNCHANGED <<irq, status, content, datagrams, task, count, given>>
    BY DEF IRQHandler
<1>2. hw'.mode = hw.mode /\ ~hw'.end /\ ~hw'.ok /\ (hw'.ptr = rxBuf' \/ (hw'.ptr = hw.ptr /\ rxBuf' = rxBuf))
    <2>1. CASE hw.ok
        BY <1>0, <2>1 DEF IRQHandler, Hardware
    <2>2. CASE ~hw.ok
        BY <1>0, <2>2 DEF IRQHandler, Hardware
    <2> QED
        BY <2>1, <2>2
<1>3. \/ UNCHANGED <<heap, rxBuf, rxQueue, queueDepth>>
      \/ /\ hw.end /\ hw.ok /\ rxBuf \in Buffers /\ queueDepth < RxBuffers
         /\ rxQueue' = Append(rxQueue, rxBuf) /\ queueDepth' = queueDepth + 1
         /\ rxBuf' \in heap /\ heap' = heap \ {rxBuf'}
    <2>1. CASE ~hw.ok \/ rxBuf = NULL \/ queueDepth >= RxBuffers \/ NewBuffer = NULL
        BY <2>1 DEF IRQHandler, QueueRxBuf
    <2>2. CASE hw.ok /\ rxBuf # NULL /\ ~(queueDepth >= RxBuffers) /\ NewBuffer # NULL
        <3>1. /\ hw.end /\ rxBuf \in Buffers /\ rxQueue' = Append(rxQueue, rxBuf) /\ queueDepth' = queueDepth + 1
              /\ rxBuf' = NewBuffer /\ heap' = heap \ {NewBuffer}
            BY <1>0, <2>2 DEF IRQHandler, QueueRxBuf
        <3>2. queueDepth < RxBuffers
            BY <1>0, <2>2, Constants
        <3> QED
            BY <1>0, <2>2, <3>1, <3>2, FirstFree
    <2> QED
        BY <2>1, <2>2
<1>4. task.pc \notin Taking \ {"recv"}
    BY <1>1 DEF Control
<1> QED
    BY <1>1, <1>2, <1>3, <1>4 DEF Held

(* recv() takes the first packet into its hand.                            *)
LEMMA TakeStep ==
    ASSUME Types, Control, RecvTake
    PROVE  /\ UNCHANGED <<irq, hw, status, rxBuf, queueDepth, heap, content, datagrams, given, count>>
           /\ task.pc = "recvTake" /\ task'.pc = "recvCount" /\ ~Held /\ Held'
           /\ task'.p = task.p /\ task.p = rxQueue[1] /\ task.p \in Buffers
           /\ \A b : InPath(b)' <=> InPath(b)
<1>1. task \in Tasks /\ rxQueue \in Seq(Buffers)
    BY DEF Types
<1>2. /\ UNCHANGED <<irq, hw, status, rxBuf, queueDepth, heap, content, datagrams, given, count>>
      /\ task.pc = "recvTake" /\ task'.pc = "recvCount" /\ task'.p = task.p
    BY <1>1 DEF RecvTake, Upper, Extra, At, Tasks
<1>3. task.p = rxQueue[1] /\ Len(rxQueue) \in Nat /\ Len(rxQueue) > 0
    BY <1>1, <1>2, Queue, Taken DEF Control
<1>4. task.p \in Buffers
    BY <1>1, <1>3, Queue
<1>5. ~Held /\ Held'
    BY <1>2, <1>4, Constants DEF Held, Passing
<1>6. ASSUME NEW b PROVE (\E i \in 1 .. Len(rxQueue) : b = rxQueue[i]) <=> b = task.p \/ \E i \in 1 .. Len(rxQueue') : b = rxQueue'[i]
    <2>1. /\ Len(rxQueue') = Len(rxQueue) - 1
          /\ \A i \in 1 .. Len(rxQueue') : rxQueue'[i] = rxQueue[i + 1]
        BY Taken
    <2>2. ASSUME NEW i \in 1 .. Len(rxQueue), b = rxQueue[i] PROVE b = task.p \/ \E j \in 1 .. Len(rxQueue') : b = rxQueue'[j]
        <3>1. CASE i = 1
            BY <1>3, <2>2, <3>1
        <3>2. CASE i # 1
            <4>1. i - 1 \in 1 .. Len(rxQueue') /\ (i - 1) + 1 = i
                BY <1>3, <2>1, <3>2
            <4> QED
                BY <2>1, <2>2, <4>1
        <3> QED
            BY <3>1, <3>2
    <2>3. ASSUME NEW j \in 1 .. Len(rxQueue'), b = rxQueue'[j] PROVE \E i \in 1 .. Len(rxQueue) : b = rxQueue[i]
        <3>1. j + 1 \in 1 .. Len(rxQueue)
            BY <1>3, <2>1
        <3> QED
            BY <2>1, <2>3, <3>1
    <2>4. 1 \in 1 .. Len(rxQueue)
        BY <1>3
    <2> QED
        BY <1>3, <2>2, <2>3, <2>4
<1> QED
    BY <1>2, <1>3, <1>4, <1>5, <1>6 DEF InPath

LEMMA DepthStep == Types /\ Types' /\ Control /\ ~forwards /\ Depth /\ [Next]_vars => Depth'
<1> SUFFICES ASSUME Types, Types', Control, ~forwards, Depth, [Next]_vars PROVE Depth'
    OBVIOUS
<1>0. /\ rxQueue \in Seq(Buffers) /\ datagrams \in Seq(Buffers) /\ RxBuffers \in Nat
      /\ Len(rxQueue) \in Nat /\ Len(datagrams) \in Nat
      /\ queueDepth = Len(rxQueue) + (IF task.pc = "recvCount" THEN 1 ELSE 0)
      /\ queueDepth <= RxBuffers /\ Len(datagrams) <= RxBuffers + 1
    BY Queue, Constants DEF Types, Depth
<1>1. CASE Arrive
    BY <1>1 DEF Arrive, Depth
<1>2. CASE IRQHandler
    <2>1. /\ task' = task /\ task.pc # "recvCount" /\ datagrams' = datagrams
          /\ \/ UNCHANGED <<rxQueue, queueDepth>>
             \/ rxBuf \in Buffers /\ queueDepth < RxBuffers /\ rxQueue' = Append(rxQueue, rxBuf) /\ queueDepth' = queueDepth + 1
        BY <1>2, IRQStep DEF Taking
    <2>2. rxBuf \in Buffers => Len(Append(rxQueue, rxBuf)) = Len(rxQueue) + 1
        BY <1>0, Queue
    <2> QED
        BY <1>0, <2>1, <2>2 DEF Depth
<1>3. CASE RecvTake
    <2>1. /\ queueDepth' = queueDepth /\ datagrams' = datagrams /\ Len(rxQueue') = Len(rxQueue) - 1
          /\ task.pc = "recvTake" /\ task'.pc = "recvCount"
        BY <1>3, Taken, TakeStep
    <2> QED
        BY <1>0, <2>1 DEF Depth
<1>4. CASE Drops
    <2>1. UNCHANGED <<rxQueue, queueDepth, datagrams>> /\ task.pc # "recvCount" /\ task'.pc # "recvCount"
        BY <1>4, DropsStep DEF Passing
    <2> QED
        BY <1>0, <2>1 DEF Depth
<1>5. CASE Stores
    <2>1. /\ UNCHANGED <<rxQueue, queueDepth>> /\ task.pc # "recvCount" /\ task'.pc # "recvCount"
          /\ Len(datagrams') = Len(datagrams) + 1
        BY <1>0, <1>5, StoresStep, Queue
    <2>2. Len(datagrams) <= RxBuffers
        BY <1>0, <1>5, Queue DEF Stores, Full
    <2> QED
        BY <1>0, <2>1, <2>2 DEF Depth
<1>6. CASE DatagramRecv
    <2>1. UNCHANGED <<rxQueue, queueDepth, task>> /\ Len(datagrams') = Len(datagrams) - 1
        BY <1>0, <1>6, Queue DEF DatagramRecv, Radio
    <2> QED
        BY <1>0, <2>1 DEF Depth
<1>7. CASE Starts
    <2>1. UNCHANGED <<rxQueue, queueDepth, datagrams>> /\ task.pc # "recvCount" /\ task'.pc # "recvCount"
        BY <1>7, StartsStep
    <2> QED
        BY <1>0, <2>1 DEF Depth
<1>8. CASE RecvCount
    <2>1. UNCHANGED <<rxQueue, datagrams>> /\ queueDepth' = queueDepth - 1 /\ task.pc = "recvCount" /\ task'.pc = "recvEnd"
        BY <1>8 DEF RecvCount, Upper, At, Goto, Types, Tasks
    <2> QED
        BY <1>0, <2>1 DEF Depth
<1>9. CASE Quiet /\ ~RecvCount
    <2>1. UNCHANGED <<rxQueue, datagrams, queueDepth>> /\ (task.pc = "recvCount" <=> task'.pc = "recvCount")
        BY <1>9, QuietStep
    <2> QED
        BY <1>0, <2>1 DEF Depth
<1> QED
    BY <1>1, <1>2, <1>3, <1>4, <1>5, <1>6, <1>7, <1>8, <1>9, Steps
(* A packet that arrives is written where no packet of the path is.        *)
LEMMA ArriveStep ==
    ASSUME Types, Owner, Arrival, Arrive
    PROVE  /\ UNCHANGED <<irq, status, heap, rxBuf, rxQueue, queueDepth, datagrams, task, given>>
           /\ count' = count + 1
           /\ hw'.mode = hw.mode /\ hw'.ptr = hw.ptr /\ hw.mode = "rx"
           /\ \A b : InPath(b)' <=> InPath(b)
           /\ \A b \in Buffers : b # rxBuf => content'[b] = content[b]
           /\ rxBuf # NULL => content'[rxBuf].number = count + 1
           /\ Held' <=> Held
<1>1. /\ UNCHANGED <<irq, status, heap, rxBuf, rxQueue, queueDepth, datagrams, task, given>>
      /\ count' = count + 1 /\ hw.mode = "rx" /\ hw.ptr = rxBuf
    BY DEF Arrive, Arrival
<1>2. hw'.mode = hw.mode /\ hw'.ptr = hw.ptr
    BY DEF Arrive, Types, Hardware
<1>3. Held' <=> Held
    BY <1>1 DEF Held
<1>4. \A b : InPath(b)' <=> InPath(b)
    BY <1>1, <1>3 DEF InPath
<1>5. /\ \A b \in Buffers : b # rxBuf => content'[b] = content[b]
      /\ rxBuf # NULL => content'[rxBuf].number = count + 1
    <2>1. PICK protocol \in Protocols :
            content' = IF hw.ptr = NULL THEN content
                       ELSE [content EXCEPT ![hw.ptr] = [number |-> count + 1, protocol |-> protocol]]
        BY DEF Arrive
    <2>2. content \in [Buffers -> Packets] /\ rxBuf \in Buffers \cup {NULL}
        BY DEF Types
    <2> QED
        BY <1>1, <2>1, <2>2
<1> QED
    BY <1>1, <1>2, <1>3, <1>4, <1>5

(* The numbers of the packets are numbers, so no packet is older than      *)
(* itself.                                                                 *)
LEMMA Numbers ==
    ASSUME Types
    PROVE  /\ \A b \in Buffers : content[b].number \in Nat /\ ~Older(b, b)
           /\ \A a, b, c \in Buffers : Older(a, b) /\ Older(b, c) => Older(a, c)
           /\ \A i \in 1 .. Len(rxQueue) : rxQueue[i] \in Buffers /\ InPath(rxQueue[i])
           /\ \A i \in 1 .. Len(datagrams) : datagrams[i] \in Buffers /\ InPath(datagrams[i])
           /\ Len(rxQueue) \in Nat /\ Len(datagrams) \in Nat
           /\ Held => task.p \in Buffers /\ InPath(task.p)
           /\ \A b : InPath(b) => b \in Buffers
<1>1. \A b \in Buffers : content[b].number \in Nat
    BY DEF Types, Packets
<1>2. rxQueue \in Seq(Buffers) /\ datagrams \in Seq(Buffers) /\ task \in Tasks
    BY DEF Types
<1>3. /\ \A i \in 1 .. Len(rxQueue) : rxQueue[i] \in Buffers
      /\ \A i \in 1 .. Len(datagrams) : datagrams[i] \in Buffers
      /\ Len(rxQueue) \in Nat /\ Len(datagrams) \in Nat
    BY <1>2, Queue
<1>4. Held => task.p \in Buffers
    BY <1>2 DEF Held, Tasks
<1>5. /\ \A i \in 1 .. Len(rxQueue) : InPath(rxQueue[i])
      /\ \A i \in 1 .. Len(datagrams) : InPath(datagrams[i])
      /\ Held => InPath(task.p)
      /\ \A b : InPath(b) => b \in Buffers
    BY <1>3, <1>4 DEF InPath
<1>6. /\ \A b \in Buffers : ~Older(b, b)
      /\ \A a, b, c \in Buffers : Older(a, b) /\ Older(b, c) => Older(a, c)
    BY <1>1 DEF Older
<1> QED
    BY <1>1, <1>3, <1>4, <1>5, <1>6

LEMMA OrderStep == Types /\ Control /\ Order /\ Owner /\ Arrival /\ ~forwards /\ [Next]_vars => Order'
<1> SUFFICES ASSUME Types, Control, Order, Owner, Arrival, ~forwards, [Next]_vars PROVE Order'
    OBVIOUS
<1>0. rxQueue \in Seq(Buffers) /\ datagrams \in Seq(Buffers) /\ rxBuf \in Buffers \cup {NULL}
    BY DEF Types
<1>00. /\ \A i, j \in 1 .. Len(rxQueue) : i < j => Older(rxQueue[i], rxQueue[j])
       /\ \A i, j \in 1 .. Len(datagrams) : i < j => Older(datagrams[i], datagrams[j])
       /\ \A i \in 1 .. Len(datagrams), j \in 1 .. Len(rxQueue) : Older(datagrams[i], rxQueue[j])
       /\ Held => /\ \A i \in 1 .. Len(datagrams) : Older(datagrams[i], task.p)
                  /\ \A j \in 1 .. Len(rxQueue) : Older(task.p, rxQueue[j])
    BY DEF Order
<1>1. ASSUME \A b \in Buffers : InPath(b) => content'[b] = content[b], UNCHANGED <<rxQueue, datagrams>>,
             Held' <=> Held, Held => task'.p = task.p
      PROVE  Order'
    <2>1. \A a, b \in Buffers : InPath(a) /\ InPath(b) /\ Older(a, b) => Older(a, b)'
        BY <1>1 DEF Older
    <2> QED
        BY <1>00, <1>1, <2>1, Numbers DEF Order
<1>2. CASE Arrive
    <2>1. /\ UNCHANGED <<rxQueue, datagrams, task>> /\ (Held' <=> Held)
          /\ \A b \in Buffers : b # rxBuf => content'[b] = content[b]
        BY <1>2, ArriveStep
    <2>2. ~InPath(rxBuf)
        BY DEF Owner
    <2> QED
        BY <1>1, <2>1, <2>2
<1>3. CASE IRQHandler
    <2>1. UNCHANGED <<content, datagrams, task>> /\ (Held' <=> Held)
        BY <1>3, IRQStep
    <2>2. CASE rxQueue' = rxQueue
        BY <1>1, <2>1, <2>2
    <2>3. CASE rxQueue' # rxQueue
        <3>1. hw.end /\ hw.ok /\ rxBuf \in Buffers /\ rxQueue' = Append(rxQueue, rxBuf)
            BY <1>3, <2>3, IRQStep
        <3>2. \A b \in Buffers : InPath(b) => Older(b, rxBuf)
            BY <3>1, Constants DEF Arrival
        <3>3. /\ Len(rxQueue') = Len(rxQueue) + 1 /\ Len(rxQueue) \in Nat
              /\ \A i \in 1 .. Len(rxQueue) : rxQueue'[i] = rxQueue[i]
              /\ rxQueue'[Len(rxQueue) + 1] = rxBuf
            BY <1>0, <3>1, Queue
        <3>4. \A a, b : Older(a, b)' <=> Older(a, b)
            BY <2>1 DEF Older
        <3>5. \A j \in 1 .. Len(rxQueue') : (j \in 1 .. Len(rxQueue) /\ rxQueue'[j] = rxQueue[j]) \/ (j = Len(rxQueue) + 1 /\ rxQueue'[j] = rxBuf)
            BY <3>3
        <3>6. \A i, j \in 1 .. Len(rxQueue') : i < j => i \in 1 .. Len(rxQueue) /\ rxQueue'[i] = rxQueue[i]
            BY <3>3
        <3>7. \A i, j \in 1 .. Len(rxQueue') : i < j => Older(rxQueue'[i], rxQueue'[j])
            BY <1>00, <3>2, <3>5, <3>6, Numbers
        <3>8. \A i \in 1 .. Len(datagrams), j \in 1 .. Len(rxQueue') : Older(datagrams[i], rxQueue'[j])
            BY <1>00, <3>2, <3>5, Numbers
        <3>9. Held => \A j \in 1 .. Len(rxQueue') : Older(task.p, rxQueue'[j])
            BY <1>00, <3>2, <3>5, Numbers
        <3> QED
            BY <1>00, <2>1, <3>4, <3>7, <3>8, <3>9 DEF Order
    <2> QED
        BY <2>2, <2>3
<1>4. CASE RecvTake
    <2>1. /\ UNCHANGED <<content, datagrams>> /\ task'.p = task.p /\ task.p = rxQueue[1] /\ Len(rxQueue) \in Nat /\ Len(rxQueue) > 0
          /\ Len(rxQueue') = Len(rxQueue) - 1 /\ \A i \in 1 .. Len(rxQueue') : rxQueue'[i] = rxQueue[i + 1]
        BY <1>4, TakeStep, Taken, Numbers
    <2>2. \A a, b : Older(a, b)' <=> Older(a, b)
        BY <2>1 DEF Older
    <2>3. 1 \in 1 .. Len(rxQueue) /\ \A i \in 1 .. Len(rxQueue') : i + 1 \in 1 .. Len(rxQueue) /\ 1 < i + 1 /\ i \in Int
        BY <2>1
    <2>4. \A i, j \in 1 .. Len(rxQueue') : i < j => Older(rxQueue'[i], rxQueue'[j])
        <3> SUFFICES ASSUME NEW i \in 1 .. Len(rxQueue'), NEW j \in 1 .. Len(rxQueue'), i < j
                     PROVE  Older(rxQueue[i + 1], rxQueue[j + 1])
            BY <2>1
        <3>1. i + 1 < j + 1 /\ i + 1 \in 1 .. Len(rxQueue) /\ j + 1 \in 1 .. Len(rxQueue)
            BY <2>3
        <3> QED
            BY <1>00, <3>1
    <2>5. \A i \in 1 .. Len(datagrams), j \in 1 .. Len(rxQueue') : Older(datagrams[i], rxQueue'[j])
        BY <1>00, <2>1, <2>3
    <2>6. \A i \in 1 .. Len(datagrams) : Older(datagrams[i], task.p)
        BY <1>00, <2>1, <2>3
    <2>7. \A j \in 1 .. Len(rxQueue') : Older(task.p, rxQueue'[j])
        BY <1>00, <2>1, <2>3
    <2> QED
        BY <1>00, <2>1, <2>2, <2>4, <2>5, <2>6, <2>7 DEF Order
<1>5. CASE Drops
    <2>1. /\ Held /\ ~Held' /\ task.p \in Buffers /\ UNCHANGED <<rxQueue, datagrams>>
          /\ \A b \in Buffers : b # task.p => content'[b] = content[b]
        BY <1>5, DropsStep DEF Free, Types
    <2>2. /\ \A i \in 1 .. Len(rxQueue) : rxQueue[i] # task.p
          /\ \A i \in 1 .. Len(datagrams) : datagrams[i] # task.p
        BY <1>00, <2>1, Numbers
    <2>3. \A a, b \in Buffers : a # task.p /\ b # task.p /\ Older(a, b) => Older(a, b)'
        BY <2>1 DEF Older
    <2> QED
        BY <1>00, <2>1, <2>2, <2>3, Numbers DEF Order
<1>6. CASE Stores
    <2>1. Held /\ ~Held' /\ task.p \in Buffers /\ datagrams' = Append(datagrams, task.p) /\ UNCHANGED <<rxQueue, content>>
        BY <1>6, StoresStep
    <2>2. /\ Len(datagrams') = Len(datagrams) + 1 /\ Len(datagrams) \in Nat
          /\ \A i \in 1 .. Len(datagrams) : datagrams'[i] = datagrams[i]
          /\ datagrams'[Len(datagrams) + 1] = task.p
        BY <1>0, <2>1, Queue
    <2>3. \A a, b : Older(a, b)' <=> Older(a, b)
        BY <2>1 DEF Older
    <2>4. \A j \in 1 .. Len(datagrams') :
            (j \in 1 .. Len(datagrams) /\ datagrams'[j] = datagrams[j]) \/ (j = Len(datagrams) + 1 /\ datagrams'[j] = task.p)
        BY <2>2
    <2>5. \A i, j \in 1 .. Len(datagrams') : i < j => i \in 1 .. Len(datagrams) /\ datagrams'[i] = datagrams[i]
        BY <2>2
    <2>6. \A i, j \in 1 .. Len(datagrams') : i < j => Older(datagrams'[i], datagrams'[j])
        BY <1>00, <2>1, <2>4, <2>5
    <2>7. \A i \in 1 .. Len(datagrams'), j \in 1 .. Len(rxQueue) : Older(datagrams'[i], rxQueue[j])
        BY <1>00, <2>1, <2>4
    <2> QED
        BY <1>00, <2>1, <2>3, <2>6, <2>7 DEF Order
<1>7. CASE DatagramRecv
    <2>1. /\ datagrams # <<>> /\ datagrams' = Tail(datagrams) /\ UNCHANGED <<rxQueue, task>>
          /\ task.pc = "home" /\ Free(Head(datagrams))
        BY <1>7 DEF DatagramRecv, Radio, At
    <2>2. /\ Len(datagrams) \in Nat /\ Len(datagrams) # 0 /\ Head(datagrams) = datagrams[1] /\ Len(datagrams') = Len(datagrams) - 1
          /\ \A i \in 1 .. Len(datagrams) - 1 : datagrams'[i] = datagrams[i + 1]
        BY <1>0, <2>1, Queue
    <2>3. /\ 1 \in 1 .. Len(datagrams)
          /\ \A i \in 1 .. Len(datagrams') : /\ i + 1 \in 1 .. Len(datagrams) /\ 1 < i + 1 /\ i \in Int
                                             /\ datagrams'[i] = datagrams[i + 1]
        BY <2>2
    <2>4. ~Held /\ ~Held'
        BY <2>1 DEF Held, Passing
    <2> DEFINE p == datagrams[1]
    <2>5. p \in Buffers /\ \A b \in Buffers : b # p => content'[b] = content[b]
        BY <2>1, <2>2, <2>3, Numbers DEF Free, Types
    <2>6. /\ \A i \in 1 .. Len(rxQueue) : rxQueue[i] # p
          /\ \A i \in 1 .. Len(datagrams') : datagrams'[i] # p
        BY <1>00, <2>3, Numbers
    <2> HIDE DEF p
    <2> DEFINE Before(a, b) == content'[a].number < content'[b].number
    <2>7. \A a, b \in Buffers : a # p /\ b # p /\ Older(a, b) => Before(a, b)
        BY <2>5 DEF Older
    <2> HIDE DEF Before
    <2>8. ASSUME NEW i \in 1 .. Len(datagrams'), NEW j \in 1 .. Len(datagrams'), i < j
          PROVE  Before(datagrams'[i], datagrams'[j])
        <3>1. i + 1 < j + 1 /\ i + 1 \in 1 .. Len(datagrams) /\ j + 1 \in 1 .. Len(datagrams)
            BY <2>3, <2>8
        <3>2. Older(datagrams[i + 1], datagrams[j + 1])
            BY <1>00, <3>1
        <3>3. datagrams'[i] = datagrams[i + 1] /\ datagrams'[j] = datagrams[j + 1] /\ datagrams'[i] # p /\ datagrams'[j] # p
            BY <2>3, <2>6
        <3> QED
            BY <2>7, <3>1, <3>2, <3>3, Numbers
    <2>9. ASSUME NEW i \in 1 .. Len(datagrams'), NEW j \in 1 .. Len(rxQueue)
          PROVE  Before(datagrams'[i], rxQueue[j])
        <3>1. datagrams'[i] = datagrams[i + 1] /\ datagrams'[i] # p /\ rxQueue[j] # p /\ i + 1 \in 1 .. Len(datagrams)
            BY <2>3, <2>6
        <3>2. Older(datagrams[i + 1], rxQueue[j])
            BY <1>00, <3>1
        <3> QED
            BY <2>7, <3>1, <3>2, Numbers
    <2>10. ASSUME NEW i \in 1 .. Len(rxQueue), NEW j \in 1 .. Len(rxQueue), i < j
           PROVE  Before(rxQueue[i], rxQueue[j])
        <3>1. Older(rxQueue[i], rxQueue[j])
            BY <1>00, <2>10
        <3> QED
            BY <2>6, <2>7, <3>1, Numbers
    <2> QED
        BY <2>1, <2>4, <2>8, <2>9, <2>10 DEF Order, Before, Older
<1>8. CASE Starts
    BY <1>1, <1>8, StartsStep
<1>9. CASE Quiet
    BY <1>1, <1>9, QuietStep
<1> QED
    BY <1>2, <1>3, <1>4, <1>5, <1>6, <1>7, <1>8, <1>9, Steps
(* How the path changes: a packet is queued at its end, or leaves it.      *)
LEMMA QueuedPath ==
    ASSUME Types, Control, IRQHandler, rxQueue' # rxQueue
    PROVE  /\ hw.end /\ hw.ok /\ rxBuf \in Buffers /\ rxBuf' \in heap /\ heap' = heap \ {rxBuf'}
           /\ \A b : InPath(b)' <=> InPath(b) \/ b = rxBuf
<1>1. /\ hw.end /\ hw.ok /\ rxBuf \in Buffers /\ rxBuf' \in heap /\ heap' = heap \ {rxBuf'}
      /\ rxQueue' = Append(rxQueue, rxBuf) /\ datagrams' = datagrams /\ task' = task /\ (Held' <=> Held)
    BY IRQStep
<1>2. /\ Len(rxQueue') = Len(rxQueue) + 1 /\ Len(rxQueue) \in Nat
      /\ \A i \in 1 .. Len(rxQueue) : rxQueue'[i] = rxQueue[i]
      /\ rxQueue'[Len(rxQueue) + 1] = rxBuf
    BY <1>1, Queue DEF Types
<1>3. /\ \A i \in 1 .. Len(rxQueue) : i \in 1 .. Len(rxQueue')
      /\ Len(rxQueue) + 1 \in 1 .. Len(rxQueue')
      /\ \A i \in 1 .. Len(rxQueue') : i \in 1 .. Len(rxQueue) \/ i = Len(rxQueue) + 1
    BY <1>2
<1>4. \A b : (\E i \in 1 .. Len(rxQueue') : b = rxQueue'[i]) <=> b = rxBuf \/ \E i \in 1 .. Len(rxQueue) : b = rxQueue[i]
    BY <1>2, <1>3
<1> QED
    BY <1>1, <1>4 DEF InPath

LEMMA StoredPath ==
    ASSUME Types, Control, Stores
    PROVE  \A b : InPath(b)' <=> InPath(b)
<1>1. Held /\ ~Held' /\ task.p \in Buffers /\ rxQueue' = rxQueue /\ datagrams' = Append(datagrams, task.p)
    BY StoresStep
<1>2. /\ Len(datagrams') = Len(datagrams) + 1 /\ Len(datagrams) \in Nat
      /\ \A i \in 1 .. Len(datagrams) : datagrams'[i] = datagrams[i]
      /\ datagrams'[Len(datagrams) + 1] = task.p
    BY <1>1, Queue DEF Types
<1>3. /\ \A i \in 1 .. Len(datagrams) : i \in 1 .. Len(datagrams')
      /\ Len(datagrams) + 1 \in 1 .. Len(datagrams')
      /\ \A i \in 1 .. Len(datagrams') : i \in 1 .. Len(datagrams) \/ i = Len(datagrams) + 1
    BY <1>2
<1>4. \A b : (\E i \in 1 .. Len(datagrams') : b = datagrams'[i]) <=> b = task.p \/ \E i \in 1 .. Len(datagrams) : b = datagrams[i]
    BY <1>2, <1>3
<1> QED
    BY <1>1, <1>4 DEF InPath

LEMMA DroppedPath ==
    ASSUME Types, Control, Order, Drops
    PROVE  \A b : InPath(b)' <=> InPath(b) /\ b # task.p
<1>1. Held /\ ~Held' /\ task.p \in Buffers /\ rxQueue' = rxQueue /\ datagrams' = datagrams
    BY DropsStep
<1>2. /\ \A i \in 1 .. Len(rxQueue) : rxQueue[i] # task.p
      /\ \A i \in 1 .. Len(datagrams) : datagrams[i] # task.p
    BY <1>1, Numbers DEF Order
<1> QED
    BY <1>1, <1>2 DEF InPath

LEMMA ReadPath ==
    ASSUME Types, Control, Order, DatagramRecv
    PROVE  LET p == datagrams[1] IN
           /\ p \in Buffers /\ InPath(p) /\ Free(p) /\ ~Held /\ ~Held' /\ task.pc = "home"
           /\ UNCHANGED <<rxBuf, rxQueue, task, hw, count, irq, status>>
           /\ given' = [given EXCEPT !.datagram = content[p].number]
           /\ \A b : InPath(b)' <=> InPath(b) /\ b # p
           /\ \A b : InPath(b)' => Older(p, b)
<1> DEFINE p == datagrams[1]
<1>1. /\ datagrams # <<>> /\ datagrams' = Tail(datagrams) /\ Free(Head(datagrams)) /\ task.pc = "home"
      /\ UNCHANGED <<rxBuf, rxQueue, task, hw, count, irq, status>>
      /\ given' = [given EXCEPT !.datagram = content[Head(datagrams)].number]
    BY DEF DatagramRecv, Radio, At, Extra
<1>2. /\ Len(datagrams) \in Nat /\ Len(datagrams) # 0 /\ Head(datagrams) = p /\ Len(datagrams') = Len(datagrams) - 1
      /\ \A i \in 1 .. Len(datagrams) - 1 : datagrams'[i] = datagrams[i + 1]
    BY <1>1, Queue DEF Types
<1>3. /\ 1 \in 1 .. Len(datagrams)
      /\ \A i \in 1 .. Len(datagrams') : i + 1 \in 1 .. Len(datagrams) /\ 1 < i + 1 /\ datagrams'[i] = datagrams[i + 1]
      /\ \A i \in 1 .. Len(datagrams) : i = 1 \/ (i - 1 \in 1 .. Len(datagrams') /\ datagrams'[i - 1] = datagrams[i])
    BY <1>2
<1>4. ~Held /\ ~Held'
    BY <1>1 DEF Held, Passing
<1>5. p \in Buffers /\ InPath(p)
    BY <1>3, Numbers
<1>6. /\ \A i \in 1 .. Len(rxQueue) : Older(p, rxQueue[i])
      /\ \A i \in 1 .. Len(datagrams') : Older(p, datagrams'[i])
    BY <1>3 DEF Order
<1> HIDE DEF p
<1>7. ~Older(p, p)
    BY <1>5, Numbers
<1>8. \A b : (\E i \in 1 .. Len(datagrams') : b = datagrams'[i]) <=> b # p /\ \E i \in 1 .. Len(datagrams) : b = datagrams[i]
    <2>1. ASSUME NEW i \in 1 .. Len(datagrams')
          PROVE  datagrams'[i] # p /\ \E j \in 1 .. Len(datagrams) : datagrams'[i] = datagrams[j]
        BY <1>3, <1>6, <1>7
    <2>2. ASSUME NEW i \in 1 .. Len(datagrams), datagrams[i] # p
          PROVE  \E j \in 1 .. Len(datagrams') : datagrams[i] = datagrams'[j]
        <3>1. i # 1
            BY <2>2 DEF p
        <3> QED
            BY <1>3, <3>1
    <2> QED
        BY <2>1, <2>2, Zenon
<1>9. \A b : InPath(b)' <=> InPath(b) /\ b # p
    BY <1>1, <1>4, <1>6, <1>7, <1>8 DEF InPath
<1>10. \A b : InPath(b)' => Older(p, b)
    BY <1>1, <1>4, <1>6 DEF InPath
<1> QED
    BY <1>1, <1>2, <1>4, <1>5, <1>9, <1>10 DEF p

LEMMA OwnerStep == Types /\ Types' /\ Control /\ Order /\ Owner /\ Arrival /\ ~forwards /\ [Next]_vars => Owner'
<1> SUFFICES ASSUME Types, Types', Control, Order, Owner, Arrival, ~forwards, [Next]_vars PROVE Owner'
    OBVIOUS
<1>0. /\ Buffers' = Buffers /\ NULL \notin Buffers
      /\ content \in [Buffers -> Packets] /\ heap \in SUBSET Buffers /\ rxBuf \in Buffers \cup {NULL}
      /\ \A b : InPath(b) => b \in Buffers
      /\ \A b : InPath(b)' => b \in Buffers
    <2>1. /\ rxQueue' \in Seq(Buffers) /\ datagrams' \in Seq(Buffers)
          /\ task'.p \in Buffers \cup {NULL} /\ (Held' => task'.p # NULL)
        BY SameScenario DEF Types, Tasks, Held
    <2>2. /\ \A i \in 1 .. Len(rxQueue') : rxQueue'[i] \in Buffers
          /\ \A i \in 1 .. Len(datagrams') : datagrams'[i] \in Buffers
        BY <2>1, Queue
    <2>3. \A b : InPath(b)' => b \in Buffers
        BY <2>1, <2>2 DEF InPath
    <2> QED
        BY <2>3, Numbers, SameScenario, Constants DEF Types
<1>00. /\ ~InPath(rxBuf)
       /\ \A b \in Buffers : b \in heap <=> b # rxBuf /\ ~InPath(b)
       /\ \A b \in heap : content[b] = NoPacket
       /\ rxBuf = NULL => \A b \in Buffers : ~InPath(b)
    BY DEF Owner
<1>1. ASSUME UNCHANGED <<heap, rxBuf>>, \A b \in Buffers : b # rxBuf => content'[b] = content[b],
             \A b : InPath(b)' <=> InPath(b)
      PROVE  Owner'
    BY <1>0, <1>00, <1>1 DEF Owner
<1>2. ASSUME NEW p \in Buffers, Free(p), InPath(p), rxBuf' = rxBuf, \A b : InPath(b)' <=> InPath(b) /\ b # p
      PROVE  Owner'
    <2>1. /\ content'[p] = NoPacket /\ \A b \in Buffers : b # p => content'[b] = content[b]
          /\ heap' = heap \cup {p}
        BY <1>0, <1>2 DEF Free
    <2>2. p # rxBuf /\ rxBuf # NULL
        BY <1>00, <1>2
    <2> QED
        BY <1>0, <1>00, <1>2, <2>1, <2>2 DEF Owner
<1>3. CASE Arrive
    BY <1>1, <1>3, ArriveStep
<1>4. CASE IRQHandler
    <2>1. content' = content
        BY <1>4, IRQStep
    <2>2. CASE rxQueue' = rxQueue
        <3>1. UNCHANGED <<datagrams, task>> /\ (Held' <=> Held)
            BY <1>4, IRQStep
        <3>2. \A b : InPath(b)' <=> InPath(b)
            BY <2>2, <3>1 DEF InPath
        <3>3. UNCHANGED <<heap, rxBuf>>
            <4>1. rxBuf \in Buffers => Len(Append(rxQueue, rxBuf)) # Len(rxQueue)
                <5>1. rxBuf \in Buffers => Len(Append(rxQueue, rxBuf)) = Len(rxQueue) + 1 /\ Len(rxQueue) \in Nat
                    BY Queue DEF Types
                <5> QED
                    BY <5>1
            <4> QED
                BY <1>4, <2>2, <4>1, IRQStep
        <3> QED
            BY <1>1, <2>1, <3>2, <3>3
    <2>3. CASE rxQueue' # rxQueue
        <3>1. /\ rxBuf \in Buffers /\ rxBuf' \in heap /\ heap' = heap \ {rxBuf'}
              /\ \A b : InPath(b)' <=> InPath(b) \/ b = rxBuf
            BY <1>4, <2>3, QueuedPath
        <3> QED
            BY <1>0, <1>00, <2>1, <3>1 DEF Owner
    <2> QED
        BY <2>2, <2>3
<1>5. CASE RecvTake
    BY <1>1, <1>5, TakeStep
<1>6. CASE Drops
    <2>1. task.p \in Buffers /\ Free(task.p) /\ rxBuf' = rxBuf /\ InPath(task.p)
        BY <1>6, DropsStep, Numbers
    <2> QED
        BY <1>2, <1>6, <2>1, DroppedPath
<1>7. CASE Stores
    BY <1>1, <1>7, StoresStep, StoredPath
<1>8. CASE DatagramRecv
    BY <1>2, <1>8, ReadPath
<1>9. CASE Starts
    <2>1. /\ content' = content /\ \A b : InPath(b)' <=> InPath(b)
          /\ IF rxBuf = NULL THEN rxBuf' \in heap /\ heap' = heap \ {rxBuf'} ELSE rxBuf' = rxBuf /\ heap' = heap
        BY <1>9, StartsStep
    <2>2. CASE rxBuf # NULL
        BY <1>1, <2>1, <2>2
    <2>3. CASE rxBuf = NULL
        BY <1>0, <1>00, <2>1, <2>3 DEF Owner
    <2> QED
        BY <2>2, <2>3
<1>10. CASE Quiet
    BY <1>1, <1>10, QuietStep
<1> QED
    BY <1>3, <1>4, <1>5, <1>6, <1>7, <1>8, <1>9, <1>10, Steps
LEMMA GivenStep ==
    Types /\ Types' /\ Control /\ Order /\ Owner /\ Given /\ Arrival /\ ~forwards /\ [Next]_vars => Given'
<1> SUFFICES ASSUME Types, Types', Control, Order, Owner, Given, Arrival, ~forwards, [Next]_vars PROVE Given'
    OBVIOUS
<1>0. /\ Buffers' = Buffers /\ rxQueue \in Seq(Buffers) /\ rxBuf \in Buffers \cup {NULL} /\ count \in Nat
      /\ content \in [Buffers -> Packets]
      /\ given.datagram \in Nat /\ given.event \in Nat
      /\ \A b \in Buffers : content[b].number \in Nat
    BY SameScenario, Numbers DEF Types
<1>00. /\ given.datagram <= count /\ given.event <= count
       /\ \A b \in Buffers : content[b].number <= count
       /\ \A b \in Buffers : InPath(b) /\ content[b].protocol = "datagram" => given.datagram < content[b].number
       /\ \A i \in 1 .. Len(rxQueue) :
            content[rxQueue[i]].protocol = "event" => given.event < content[rxQueue[i]].number
    BY DEF Given
<1>1. ASSUME UNCHANGED <<given, content, count, rxQueue>>, \A b : InPath(b)' <=> InPath(b)
      PROVE  Given'
    BY <1>0, <1>00, <1>1 DEF Given
<1>2. CASE Arrive
    <2>1. /\ UNCHANGED <<given, rxQueue>> /\ count' = count + 1
          /\ \A b : InPath(b)' <=> InPath(b)
          /\ \A b \in Buffers : b # rxBuf => content'[b] = content[b]
          /\ rxBuf # NULL => content'[rxBuf].number = count + 1
          /\ ~InPath(rxBuf)
        BY <1>2, ArriveStep DEF Owner
    <2>2. \A b \in Buffers : content'[b].number <= count + 1
        BY <1>0, <1>00, <2>1, Constants
    <2>3. \A i \in 1 .. Len(rxQueue) : rxQueue[i] \in Buffers /\ content'[rxQueue[i]] = content[rxQueue[i]]
        BY <2>1, Numbers
    <2>4. \A b \in Buffers : InPath(b) => content'[b] = content[b]
        BY <2>1
    <2>5. given.datagram <= count + 1 /\ given.event <= count + 1
        BY <1>0, <1>00
    <2> QED
        BY <1>0, <1>00, <2>1, <2>2, <2>3, <2>4, <2>5 DEF Given
<1>3. CASE IRQHandler
    <2>1. UNCHANGED <<given, content, count, datagrams, task>> /\ (Held' <=> Held)
        BY <1>3, IRQStep
    <2>2. CASE rxQueue' = rxQueue
        <3>1. \A b : InPath(b)' <=> InPath(b)
            BY <2>1, <2>2 DEF InPath
        <3> QED
            BY <1>1, <2>1, <2>2, <3>1
    <2>3. CASE rxQueue' # rxQueue
        <3>1. /\ hw.end /\ hw.ok /\ rxBuf \in Buffers /\ rxQueue' = Append(rxQueue, rxBuf)
              /\ \A b : InPath(b)' <=> InPath(b) \/ b = rxBuf
            BY <1>3, <2>3, QueuedPath, IRQStep
        <3>2. /\ content[rxBuf].protocol = "datagram" => given.datagram < content[rxBuf].number
              /\ content[rxBuf].protocol = "event" => given.event < content[rxBuf].number
            BY <3>1, Constants DEF Arrival
        <3>3. /\ Len(rxQueue') = Len(rxQueue) + 1 /\ Len(rxQueue) \in Nat
              /\ \A i \in 1 .. Len(rxQueue) : rxQueue'[i] = rxQueue[i]
              /\ rxQueue'[Len(rxQueue) + 1] = rxBuf
            BY <1>0, <3>1, Queue
        <3>4. \A i \in 1 .. Len(rxQueue') :
                \/ i \in 1 .. Len(rxQueue) /\ rxQueue'[i] = rxQueue[i]
                \/ rxQueue'[i] = rxBuf
            BY <3>3
        <3> QED
            BY <1>0, <1>00, <2>1, <3>1, <3>2, <3>4 DEF Given
    <2> QED
        BY <2>2, <2>3
<1>4. CASE RecvTake
    <2>1. /\ UNCHANGED <<given, content, count>> /\ \A b : InPath(b)' <=> InPath(b)
          /\ Len(rxQueue) \in Nat /\ Len(rxQueue') = Len(rxQueue) - 1
          /\ \A i \in 1 .. Len(rxQueue') : rxQueue'[i] = rxQueue[i + 1]
        BY <1>4, TakeStep, Taken, Numbers
    <2>2. \A i \in 1 .. Len(rxQueue') : i + 1 \in 1 .. Len(rxQueue)
        BY <2>1
    <2> QED
        BY <1>0, <1>00, <2>1, <2>2 DEF Given
<1>5. ASSUME NEW p \in Buffers, Free(p), InPath(p), UNCHANGED <<count, rxQueue>>, \A b : InPath(b)' <=> InPath(b) /\ b # p,
             \A i \in 1 .. Len(rxQueue) : rxQueue[i] # p /\ Older(p, rxQueue[i]),
             \/ given' = given
             \/ given' = [given EXCEPT !.event = content[p].number]
             \/ given' = [given EXCEPT !.datagram = content[p].number] /\ \A b : InPath(b)' => Older(p, b)
      PROVE  Given'
    <2>1. content'[p] = NoPacket /\ \A b \in Buffers : b # p => content'[b] = content[b]
        BY <1>0, <1>5 DEF Free
    <2>2. \A b \in Buffers : content'[b].number <= count
        BY <1>0, <1>00, <2>1 DEF NoPacket
    <2>3. \A i \in 1 .. Len(rxQueue) : rxQueue[i] \in Buffers /\ rxQueue[i] # p /\ content'[rxQueue[i]] = content[rxQueue[i]]
        BY <1>5, <2>1, Numbers
    <2>4. content[p].number <= count
        BY <1>00
    <2>5. given'.datagram <= count /\ given'.event <= count
        BY <1>00, <1>5, <2>4 DEF Types
    <2>6. \A b \in Buffers : InPath(b)' /\ content[b].protocol = "datagram" => given'.datagram < content[b].number
        <3>1. CASE given'.datagram = given.datagram
            BY <1>00, <1>5, <3>1
        <3>2. CASE given'.datagram = content[p].number /\ \A b : InPath(b)' => Older(p, b)
            BY <3>2 DEF Older
        <3> QED
            BY <1>5, <3>1, <3>2 DEF Types
    <2>7. \A i \in 1 .. Len(rxQueue) : content[rxQueue[i]].protocol = "event" => given'.event < content[rxQueue[i]].number
        <3>1. CASE given'.event = given.event
            BY <1>00, <3>1
        <3>2. CASE given'.event = content[p].number
            BY <1>5, <3>2 DEF Older
        <3> QED
            BY <1>5, <3>1, <3>2 DEF Types
    <2>8. \A b \in Buffers : InPath(b)' => content'[b] = content[b]
        BY <1>5, <2>1
    <2> QED
        BY <1>0, <1>5, <2>2, <2>3, <2>5, <2>6, <2>7, <2>8 DEF Given
<1>6. CASE Drops
    <2>1. /\ Held /\ task.p \in Buffers /\ Free(task.p) /\ UNCHANGED <<count, rxQueue>> /\ InPath(task.p)
          /\ given' = given \/ given' = [given EXCEPT !.event = content[task.p].number]
        BY <1>6, DropsStep, Numbers
    <2>2. \A i \in 1 .. Len(rxQueue) : rxQueue[i] # task.p /\ Older(task.p, rxQueue[i])
        BY <2>1, Numbers DEF Order
    <2>3. \A b : InPath(b)' <=> InPath(b) /\ b # task.p
        BY <1>6, DroppedPath
    <2> QED
        BY <1>5, <2>1, <2>2, <2>3
<1>7. CASE Stores
    BY <1>1, <1>7, StoresStep, StoredPath
<1>8. CASE DatagramRecv
    <2> DEFINE p == datagrams[1]
    <2>1. /\ p \in Buffers /\ InPath(p) /\ Free(p) /\ UNCHANGED <<rxQueue, count>>
          /\ given' = [given EXCEPT !.datagram = content[p].number]
          /\ \A b : InPath(b)' <=> InPath(b) /\ b # p
          /\ \A b : InPath(b)' => Older(p, b)
        BY <1>8, ReadPath
    <2>2. \A i \in 1 .. Len(rxQueue) : rxQueue[i] # p /\ Older(p, rxQueue[i])
        <3>1. 1 \in 1 .. Len(datagrams)
            <4>1. datagrams \in Seq(Buffers) /\ datagrams # <<>>
                BY <1>8 DEF DatagramRecv, Types
            <4>2. Len(datagrams) \in Nat /\ Len(datagrams) # 0
                BY <4>1, Queue
            <4> QED
                BY <4>2
        <3>2. \A i \in 1 .. Len(rxQueue) : Older(p, rxQueue[i])
            BY <3>1 DEF Order
        <3> QED
            BY <2>1, <3>2, Numbers
    <2> HIDE DEF p
    <2> QED
        BY <1>5, <2>1, <2>2
<1>9. CASE Starts
    BY <1>1, <1>9, StartsStep
<1>10. CASE Quiet
    BY <1>1, <1>10, QuietStep
<1> QED
    BY <1>2, <1>3, <1>4, <1>6, <1>7, <1>8, <1>9, <1>10, Steps

LEMMA ArrivalStep ==
    Types /\ Types' /\ Control /\ Order /\ Owner /\ Given /\ Arrival /\ ~forwards /\ [Next]_vars => Arrival'
<1> SUFFICES ASSUME Types, Types', Control, Order, Owner, Given, Arrival, ~forwards, [Next]_vars PROVE Arrival'
    OBVIOUS
<1>0. /\ Buffers' = Buffers /\ NULL \notin Buffers /\ rxBuf \in Buffers \cup {NULL} /\ hw \in Hardware /\ task \in Tasks
      /\ count \in Nat /\ given.datagram \in Nat /\ given.event \in Nat /\ content \in [Buffers -> Packets]
      /\ \A b \in Buffers : content[b].number \in Nat
      /\ \A b : InPath(b) => b \in Buffers
    BY SameScenario, Numbers, Constants DEF Types
<1>00. /\ hw.mode = "rx" \/ task.pc = "enabling" => hw.ptr = rxBuf
       /\ hw.mode = "tx" => ~hw.ok
       /\ hw.end /\ hw.ok /\ rxBuf # NULL =>
            /\ \A b \in Buffers : InPath(b) => Older(b, rxBuf)
            /\ content[rxBuf].protocol = "datagram" => given.datagram < content[rxBuf].number
            /\ content[rxBuf].protocol = "event" => given.event < content[rxBuf].number
    BY DEF Arrival
<1> DEFINE Aimed  == (hw.mode = "rx" \/ task.pc = "enabling" => hw.ptr = rxBuf) /\ (hw.mode = "tx" => ~hw.ok)
           Newest == hw.end /\ hw.ok /\ rxBuf # NULL =>
                       /\ \A b \in Buffers : InPath(b) => Older(b, rxBuf)
                       /\ content[rxBuf].protocol = "datagram" => given.datagram < content[rxBuf].number
                       /\ content[rxBuf].protocol = "event" => given.event < content[rxBuf].number
<1>1. SUFFICES Aimed' /\ Newest'
    BY DEF Arrival
<1>2. CASE Arrive
    <2>1. /\ UNCHANGED <<rxBuf, task, given>> /\ hw'.mode = hw.mode /\ hw'.ptr = hw.ptr /\ hw.mode = "rx"
          /\ \A b : InPath(b)' <=> InPath(b)
          /\ \A b \in Buffers : b # rxBuf => content'[b] = content[b]
          /\ rxBuf # NULL => content'[rxBuf].number = count + 1
        BY <1>2, ArriveStep
    <2>2. Aimed'
        BY <1>00, <2>1
    <2>3. ASSUME rxBuf # NULL, NEW b \in Buffers, InPath(b) PROVE Older(b, rxBuf)'
        <3>1. content'[b] = content[b] /\ content[b].number <= count
            BY <2>1, <2>3 DEF Owner, Given
        <3> QED
            BY <1>0, <2>1, <2>3, <3>1 DEF Older
    <2>4. rxBuf # NULL => given.datagram < content'[rxBuf].number /\ given.event < content'[rxBuf].number
        BY <1>0, <2>1 DEF Given
    <2> QED
        BY <1>0, <2>1, <2>2, <2>3, <2>4
<1>3. CASE IRQHandler
    <2>1. task' = task /\ hw'.mode = hw.mode /\ ~hw'.end /\ ~hw'.ok /\ (hw'.ptr = rxBuf' \/ (hw'.ptr = hw.ptr /\ rxBuf' = rxBuf))
        BY <1>3, IRQStep
    <2> QED
        BY <1>00, <2>1
<1>4. CASE RecvTake
    <2>1. /\ UNCHANGED <<hw, rxBuf, content, given>> /\ task'.pc # "enabling" /\ \A b : InPath(b)' <=> InPath(b)
        BY <1>4, TakeStep
    <2> QED
        BY <1>0, <1>00, <2>1 DEF Older
<1>5. ASSUME NEW p \in Buffers, InPath(p), Free(p), UNCHANGED <<rxBuf, hw, count>>, task'.pc # "enabling",
             \A b : InPath(b)' <=> InPath(b) /\ b # p,
             \/ given' = given
             \/ given' = [given EXCEPT !.event = content[p].number]
             \/ given' = [given EXCEPT !.datagram = content[p].number]
      PROVE  Aimed' /\ Newest'
    <2>1. p # rxBuf /\ \A b \in Buffers : b # p => content'[b] = content[b]
        BY <1>0, <1>5 DEF Owner, Free
    <2>2. Aimed'
        BY <1>00, <1>5
    <2>3. ASSUME hw.end, hw.ok, rxBuf # NULL
          PROVE  /\ \A b \in Buffers : InPath(b)' => Older(b, rxBuf)'
                 /\ content'[rxBuf].protocol = "datagram" => given'.datagram < content'[rxBuf].number
                 /\ content'[rxBuf].protocol = "event" => given'.event < content'[rxBuf].number
        <3>1. rxBuf \in Buffers /\ content'[rxBuf] = content[rxBuf]
            BY <1>0, <2>1, <2>3
        <3>2. content[p].number < content[rxBuf].number
            BY <1>00, <1>5, <2>3 DEF Older
        <3>3. \A b \in Buffers : InPath(b)' => Older(b, rxBuf)'
            BY <1>00, <1>5, <2>1, <2>3, <3>1 DEF Older
        <3>4. given'.datagram \in {given.datagram, content[p].number} /\ given'.event \in {given.event, content[p].number}
            BY <1>5 DEF Types
        <3> QED
            BY <1>00, <2>3, <3>1, <3>2, <3>3, <3>4
    <2> QED
        BY <1>0, <1>5, <2>2, <2>3
<1>6. CASE Drops
    <2>1. /\ task.p \in Buffers /\ InPath(task.p) /\ Free(task.p) /\ UNCHANGED <<rxBuf, hw, count>> /\ task'.pc # "enabling"
          /\ given' = given \/ given' = [given EXCEPT !.event = content[task.p].number]
        BY <1>6, DropsStep, Numbers
    <2> QED
        BY <1>5, <1>6, <2>1, DroppedPath
<1>7. CASE Stores
    <2>1. UNCHANGED <<hw, rxBuf, content, given>> /\ task'.pc # "enabling" /\ \A b : InPath(b)' <=> InPath(b)
        BY <1>7, StoresStep, StoredPath
    <2> QED
        BY <1>0, <1>00, <2>1 DEF Older
<1>8. CASE DatagramRecv
    <2> DEFINE p == datagrams[1]
    <2>1. /\ p \in Buffers /\ InPath(p) /\ Free(p) /\ UNCHANGED <<rxBuf, hw, count>> /\ task'.pc # "enabling"
          /\ given' = [given EXCEPT !.datagram = content[p].number]
          /\ \A b : InPath(b)' <=> InPath(b) /\ b # p
        BY <1>8, ReadPath
    <2> HIDE DEF p
    <2> QED
        BY <1>5, <2>1
<1>9. CASE Starts
    <2>1. /\ UNCHANGED <<content, given>> /\ hw' = [hw EXCEPT !.ptr = rxBuf'] /\ \A b : InPath(b)' <=> InPath(b)
          /\ IF rxBuf = NULL THEN rxBuf' \in heap ELSE rxBuf' = rxBuf
        BY <1>9, StartsStep
    <2>2. Aimed'
        BY <1>0, <1>00, <2>1 DEF Hardware
    <2>3. Newest'
        <3>1. CASE rxBuf # NULL
            BY <1>0, <1>00, <2>1, <3>1 DEF Hardware, Older
        <3>2. CASE rxBuf = NULL
            <4>1. content[rxBuf'] = NoPacket /\ \A b \in Buffers : ~InPath(b)
                BY <2>1, <3>2 DEF Owner
            <4> QED
                BY <1>0, <2>1, <4>1 DEF NoPacket
        <3> QED
            BY <3>1, <3>2
    <2> QED
        BY <2>2, <2>3
<1>10. CASE Quiet
    <2>1. /\ UNCHANGED <<rxBuf, content, given>> /\ \A b : InPath(b)' <=> InPath(b)
          /\ hw'.end /\ hw'.ok => hw.ok /\ (hw.end \/ hw.mode = "tx")
        BY <1>10, QuietStep
    <2>2. Newest'
        <3>1. hw'.end /\ hw'.ok /\ rxBuf # NULL => hw.end /\ hw.ok
            BY <1>00, <2>1
        <3> QED
            BY <1>0, <1>00, <2>1, <3>1 DEF Older
    <2>3. Aimed'
        <3> USE DEF Radio, At, Goto
        <3>1. ASSUME hw' = hw, task'.pc # "enabling" PROVE Aimed'
            BY <1>00, <2>1, <3>1
        <3>2. ASSUME hw'.mode = "off", task'.pc # "enabling" PROVE Aimed'
            BY <3>2
        <3>3. CASE RecvBegin
            <4>1. task.pc = "recv" /\ rxQueue # <<>>
                BY <3>3 DEF RecvBegin, Control
            <4> QED
                BY <1>0, <3>1, <3>3, <4>1 DEF RecvBegin, Tasks
        <3>4. CASE RecvEnd
            <4>1. task'.pc = task.after /\ task.after \in Passing /\ hw' = hw
                BY <1>0, <3>4 DEF RecvEnd, Control, Taking, Tasks
            <4> QED
                BY <3>1, <4>1 DEF Passing
        <3>5. CASE RecvNext \/ RecvCount \/ UserRecv \/ EventFire \/ Compare
            BY <1>0, <3>1, <3>5 DEF RecvNext, RecvCount, UserRecv, EventFire, Compare, Recv, Tasks
        <3>6. CASE IdleCallback \/ Send \/ SendEnd
            BY <3>1, <3>6 DEF IdleCallback, Send, SendEnd, Call, Home
        <3>7. CASE Walk
            <4>1. hw' = hw
                BY <3>7 DEF Walk
            <4>2. task'.pc \in {"home", "recv", "compare"}
                <5>1. Home.pc = "home"
                    BY DEF Home
                <5> QED
                    BY <1>0, <3>7, <5>1 DEF Walk, Tasks
            <4> QED
                BY <3>1, <4>1, <4>2
        <3>8. CASE SendWait
            BY <1>0, <3>1, <3>8 DEF SendWait, Tasks
        <3>9. CASE TxEnd
            <4>1. task' = task /\ hw'.mode = "tx" /\ hw'.ok = hw.ok /\ hw'.ptr = hw.ptr /\ hw.mode = "tx"
                BY <1>0, <3>9 DEF TxEnd, Hardware
            <4> QED
                BY <1>00, <2>1, <4>1
        <3>10. CASE EnableListen
            <4>1. task.pc = "enabling" /\ task'.pc = "home" /\ hw'.ptr = hw.ptr /\ hw'.mode = "rx"
                BY <3>10 DEF EnableListen, Listening, Home
            <4> QED
                BY <1>00, <2>1, <4>1
        <3>11. CASE Disable \/ SendOff
            BY <1>0, <3>2, <3>11 DEF Disable, SendOff, Off, Hardware, Tasks
        <3>12. CASE Sleep
            <4>1. task'.pc = "asleep" /\ (hw' = hw \/ hw'.mode = "off")
                BY <1>0, <3>12 DEF Sleep, Off, Home, Hardware
            <4> QED
                BY <3>1, <3>2, <4>1
        <3>13. CASE SendStart
            <4>1. task'.pc = "sendWait" /\ hw'.mode = "tx" /\ ~hw'.ok
                BY <1>0, <3>13 DEF SendStart, Tasks
            <4> QED
                BY <4>1
        <3>14. CASE SendBack
            <4>1. hw'.mode = "rx" /\ hw'.ptr = rxBuf
                BY <3>14 DEF SendBack, Listening
            <4> QED
                BY <2>1, <4>1
        <3>15. CASE Wake /\ "DEEPSLEEP_INIT" \notin status
            BY <3>1, <3>15 DEF Wake, Home
        <3>16. CASE UNCHANGED vars
            BY <1>00, <3>16 DEF vars
        <3> QED
            BY <1>10, <3>3, <3>4, <3>5, <3>6, <3>7, <3>8, <3>9, <3>10, <3>11, <3>12, <3>13, <3>14, <3>15, <3>16 DEF Quiet
    <2> QED
        BY <2>2, <2>3
<1> QED
    BY <1>2, <1>3, <1>4, <1>6, <1>7, <1>8, <1>9, <1>10, Steps
LEMMA LeftoverStep ==
    Types /\ Types' /\ Control /\ Order /\ Owner /\ Arrival /\ Leftover /\ ~forwards /\ [Next]_vars => Leftover'
<1> SUFFICES ASSUME Types, Types', Control, Order, Owner, Arrival, Leftover, ~forwards, [Next]_vars,
                    task'.pc = "compare"
             PROVE  IF rxQueue' = <<>> THEN rxBuf' # task'.p
                    ELSE rxQueue'[1] = task'.p => content'[task'.p].protocol = "other"
    BY DEF Leftover
<1> USE DEF Radio, At, Goto
<1>0. /\ task \in Tasks /\ rxQueue \in Seq(Buffers) /\ content \in [Buffers -> Packets] /\ rxBuf \in Buffers \cup {NULL}
      /\ NULL \notin Buffers /\ Len(rxQueue) \in Nat /\ (rxQueue = <<>> <=> Len(rxQueue) = 0)
      /\ rxQueue # <<>> => 1 \in 1 .. Len(rxQueue) /\ Head(rxQueue) = rxQueue[1] /\ InPath(rxQueue[1])
    <2>1. rxQueue \in Seq(Buffers) /\ Len(rxQueue) \in Nat /\ (rxQueue = <<>> <=> Len(rxQueue) = 0)
        BY Queue DEF Types
    <2>2. rxQueue # <<>> => 1 \in 1 .. Len(rxQueue) /\ Head(rxQueue) = rxQueue[1]
        BY <2>1, Queue
    <2> QED
        BY <2>1, <2>2, Numbers, Constants DEF Types
(* A step that leaves what compares as it was.                             *)
<1>1. CASE Arrive
    <2>1. /\ UNCHANGED <<rxQueue, rxBuf, task>>
          /\ \A b \in Buffers : b # rxBuf => content'[b] = content[b]
          /\ ~InPath(rxBuf)
        BY <1>1, ArriveStep DEF Owner
    <2>2. rxQueue # <<>> => rxQueue[1] # rxBuf /\ rxQueue[1] \in Buffers
        BY <1>0, <2>1, Numbers
    <2> QED
        BY <1>0, <2>1, <2>2 DEF Leftover
<1>2. CASE IRQHandler
    <2>1. UNCHANGED <<content, task>>
        BY <1>2, IRQStep
    <2>2. CASE UNCHANGED <<rxQueue, rxBuf>>
        BY <2>1, <2>2 DEF Leftover
    <2>3. CASE rxBuf \in Buffers /\ rxQueue' = Append(rxQueue, rxBuf)
        <3>1. /\ Len(rxQueue') = Len(rxQueue) + 1 /\ Len(<<>>) = 0
              /\ \A i \in 1 .. Len(rxQueue) : rxQueue'[i] = rxQueue[i]
              /\ rxQueue'[Len(rxQueue) + 1] = rxBuf
            BY <1>0, <2>3, Queue, EmptySeq
        <3>2. rxQueue' # <<>>
            BY <1>0, <3>1
        <3>3. CASE rxQueue = <<>>
            <4>1. rxQueue'[1] = rxBuf
                BY <1>0, <3>1, <3>3
            <4> QED
                BY <2>1, <3>2, <3>3, <4>1 DEF Leftover
        <3>4. CASE rxQueue # <<>>
            <4>1. rxQueue'[1] = rxQueue[1]
                BY <1>0, <3>1, <3>4
            <4> QED
                BY <2>1, <3>2, <3>4, <4>1 DEF Leftover
        <3> QED
            BY <3>3, <3>4
    <2> QED
        BY <1>2, <2>2, <2>3, IRQStep
<1>3. CASE Stores \/ Drops
    <2>1. Held /\ task.p \in Buffers /\ task'.p = task.p /\ UNCHANGED <<rxBuf, rxQueue>>
        BY <1>3, StoresStep, DropsStep
    <2>2. InPath(task.p) /\ rxBuf # task.p
        BY <2>1, Numbers DEF Owner
    <2>3. rxQueue # <<>> => rxQueue[1] # task.p
        <3> SUFFICES ASSUME rxQueue # <<>> PROVE rxQueue[1] # task.p
            OBVIOUS
        <3>1. Older(task.p, rxQueue[1])
            BY <1>0, <2>1 DEF Order
        <3> QED
            BY <2>1, <3>1, Numbers
    <2> QED
        BY <2>1, <2>2, <2>3
<1>4. CASE Walk
    <2>1. rxQueue # <<>> /\ UNCHANGED <<content, rxQueue>>
        BY <1>4 DEF Walk, Upper, Home
    <2>2. content[rxQueue[1]].protocol = "other" /\ task'.p = rxQueue[1]
        <3>1. rxQueue[1] \in Buffers
            BY <1>0, <2>1, Numbers
        <3>2. content[rxQueue[1]].protocol \in {"datagram", "event", "other"}
            BY <1>0, <3>1 DEF Packets, Protocols
        <3> QED
            BY <1>0, <1>4, <2>1, <3>2 DEF Walk, Tasks
    <2> QED
        BY <2>1, <2>2
<1>5. ASSUME task'.pc # "compare" PROVE FALSE
    BY <1>5
<1>6. CASE RecvTake
    BY <1>6, TakeStep
<1>7. CASE DatagramRecv
    BY <1>7, ReadPath
<1>8. CASE Starts
    BY <1>8, StartsStep
<1>9. CASE RecvBegin
    <2>1. task.pc = "recv" /\ rxQueue # <<>>
        BY <1>9 DEF RecvBegin, Control
    <2> QED
        BY <1>0, <1>9, <2>1 DEF RecvBegin, Tasks
<1>10. CASE RecvEnd
    <2>1. task'.pc = task.after /\ task.after \in Passing
        BY <1>0, <1>10 DEF RecvEnd, Control, Taking, Tasks
    <2> QED
        BY <2>1 DEF Passing
<1>11. CASE RecvNext \/ RecvCount \/ UserRecv \/ EventFire \/ Compare
    BY <1>0, <1>11 DEF RecvNext, RecvCount, UserRecv, EventFire, Compare, Recv, Tasks
<1>12. CASE IdleCallback \/ Send \/ SendEnd \/ EnableListen
    BY <1>12 DEF IdleCallback, Send, SendEnd, EnableListen, Call, Home
<1>16. CASE Sleep
    <2>1. task'.pc = "asleep"
        BY <1>16 DEF Sleep, Home
    <2> QED
        BY <2>1
<1>13. CASE SendOff \/ SendStart \/ SendWait \/ SendBack
    BY <1>0, <1>13 DEF SendOff, SendStart, SendWait, SendBack, Tasks
<1>14. CASE Wake /\ "DEEPSLEEP_INIT" \notin status
    BY <1>14 DEF Wake, Home
<1>15. CASE TxEnd \/ Disable \/ UNCHANGED vars
    <2>1. UNCHANGED <<rxBuf, rxQueue, content, task>>
        BY <1>15 DEF TxEnd, Disable, vars, Upper
    <2> QED
        BY <2>1 DEF Leftover
<1> QED
    BY <1>1, <1>2, <1>3, <1>4, <1>6, <1>7, <1>8, <1>9, <1>10, <1>11, <1>12, <1>13, <1>14, <1>15, <1>16, Steps DEF Quiet
LEMMA AsleepStep == Types /\ Control /\ ~forwards /\ Asleep /\ [Next]_vars => Asleep'
<1> SUFFICES ASSUME Types, Control, ~forwards, Asleep, [Next]_vars PROVE Asleep'
    OBVIOUS
<1> USE DEF Radio, Upper, Extra, At, Goto
<1>0. task \in Tasks /\ hw \in Hardware /\ irq \in BOOLEAN /\ status \in SUBSET Flags
    BY DEF Types
<1>00. /\ task.pc \notin {"asleep", "enabling"} => task.before = Awake /\ "DEEPSLEEP_INIT" \notin status
       /\ task.pc # "asleep" => "DEEPSLEEP_IRQ" \notin status
       /\ "INITIALISED" \in status /\ task.pc \notin Taking \cup Sending => irq
       /\ "INITIALISED" \in status /\ task.pc \notin Sending \ {"sendOff", "sendEnd"} => hw.mode = "rx"
       /\ task.pc \in {"asleep", "enabling"} => "INITIALISED" \notin status
    BY DEF Asleep
(* While the radio is in use.                                              *)
<1> DEFINE Awoken(pc) == pc \notin {"asleep", "enabling"}
<1>1. ASSUME Awoken(task.pc), Awoken(task'.pc), task'.before = Awake, status' = status,
             "INITIALISED" \in status /\ task'.pc \notin Taking \cup Sending => irq',
             "INITIALISED" \in status /\ task'.pc \notin Sending \ {"sendOff", "sendEnd"} => hw'.mode = "rx"
      PROVE  Asleep'
    BY <1>00, <1>1 DEF Asleep
<1>2. ASSUME UNCHANGED <<irq, status, task>>, hw'.mode = hw.mode PROVE Asleep'
    BY <1>2 DEF Asleep
<1>3. CASE Arrive \/ TxEnd
    <2>1. UNCHANGED <<irq, status, task>> /\ hw'.mode = hw.mode
        BY <1>0, <1>3 DEF Arrive, TxEnd, Hardware
    <2> QED
        BY <1>2, <2>1
<1>4. CASE IRQHandler
    BY <1>2, <1>4, IRQStep
<1>5. CASE DatagramRecv
    BY <1>2, <1>5, ReadPath DEF DatagramRecv
<1>6. ASSUME NEW pc \in Taking \cup Passing \cup {"home", "walk", "compare"},
             task.pc \in Taking \cup Passing \cup {"home", "walk", "compare"}, task'.pc = pc, task'.before = Awake,
             UNCHANGED <<status, hw>>,
             pc \notin Taking => irq' \/ (irq' = irq /\ task.pc \notin Taking)
      PROVE  Asleep'
    <2>1. Awoken(task.pc) /\ Awoken(task'.pc) /\ task.pc \notin Sending /\ task'.pc \notin Sending
        BY <1>6 DEF Taking, Passing, Sending
    <2> QED
        BY <1>00, <1>1, <1>6, <2>1
<1>7. CASE RecvBegin \/ RecvNext \/ RecvTake \/ RecvCount
    <2>1. task.pc \in Taking /\ Awoken(task.pc) /\ UNCHANGED <<status, hw>>
        BY <1>7 DEF RecvBegin, RecvNext, RecvTake, RecvCount, Taking
    <2>2. task'.pc \in Taking /\ task'.before = task.before
        <3>1. CASE RecvBegin
            <4>1. rxQueue # <<>>
                BY <3>1 DEF RecvBegin, Control
            <4> QED
                BY <1>0, <3>1, <4>1 DEF RecvBegin, Tasks, Taking
        <3>2. CASE RecvNext \/ RecvTake \/ RecvCount
            BY <1>0, <3>2 DEF RecvNext, RecvTake, RecvCount, Tasks, Taking
        <3> QED
            BY <1>7, <3>1, <3>2
    <2> QED
        BY <1>00, <1>6, <2>1, <2>2
<1>8. CASE RecvEnd
    <2>1. task.pc \in Taking /\ Awoken(task.pc) /\ UNCHANGED <<status, hw>> /\ irq' /\ task.after \in Passing
        BY <1>8 DEF RecvEnd, Taking, Control
    <2>2. task'.pc = task.after /\ task'.before = task.before
        BY <1>0, <1>8 DEF RecvEnd, Tasks
    <2> QED
        BY <1>00, <1>6, <2>1, <2>2
<1>9. CASE UserRecv \/ Walk \/ Compare \/ EventFire
    <2>1. task.pc \in {"home", "walk", "compare", "fire"} /\ Awoken(task.pc) /\ UNCHANGED <<status, hw, irq>>
        BY <1>9 DEF UserRecv, Walk, Compare, EventFire
    <2>2. task'.pc \in {"recv", "home", "compare", "walk", "fired"} /\ task'.before = Awake
        <3>1. task.before = Awake /\ Home.before = Awake /\ Home.pc = "home"
            BY <1>00, <2>1 DEF Home
        <3>2. CASE UserRecv \/ Compare \/ EventFire
            BY <1>0, <3>1, <3>2 DEF UserRecv, Compare, EventFire, Recv, Tasks
        <3>3. CASE Walk
            BY <1>0, <3>1, <3>3 DEF Walk, Tasks
        <3> QED
            BY <1>9, <3>2, <3>3
    <2> QED
        BY <1>6, <2>1, <2>2 DEF Taking, Passing
<1>10. CASE IdleCallback
    <2>1. task.pc = "home" /\ UNCHANGED <<status, hw, irq>> /\ task'.pc = "walk" /\ task'.before = Awake
        BY <1>10 DEF IdleCallback, Call, Home
    <2> QED
        BY <1>6, <2>1 DEF Taking
<1>11. CASE Drops \/ Stores
    <2>1. task.pc \in Passing /\ task'.pc \in {"home", "compare", "walk"} /\ UNCHANGED <<hw, irq, status>>
        BY <1>11, DropsStep, StoresStep DEF Drops, Stores, UserDelete, EventFired, Drop, DatagramReceived, Passing
    <2>2. task.before = Awake /\ task.pc \notin Taking
        BY <1>00, <2>1 DEF Passing, Taking
    <2>3. task'.before = Awake
        BY <1>0, <1>11, <2>2 DEF Drops, Stores, UserDelete, EventFired, Drop, DatagramReceived, Tasks, Home
    <2> QED
        BY <1>6, <2>1, <2>2, <2>3
<1>12. CASE Send \/ SendOff \/ SendStart \/ SendWait \/ SendBack
    <2>1. task.pc \in Sending \cup {"home"} /\ status' = status
        BY <1>12 DEF Send, SendOff, SendStart, SendWait, SendBack, Call, Sending
    <2>2. task.before = Awake /\ Awoken(task.pc)
        BY <1>00, <2>1 DEF Sending
    <2>3. task'.pc \in Sending /\ task'.before = Awake
        <3>1. CASE Send
            BY <3>1 DEF Send, Call, Home, Sending
        <3>2. CASE SendOff \/ SendStart \/ SendWait \/ SendBack
            BY <1>0, <2>2, <3>2 DEF SendOff, SendStart, SendWait, SendBack, Tasks, Sending
        <3> QED
            BY <1>12, <3>1, <3>2
    <2>4. Awoken(task'.pc)
        BY <2>3 DEF Sending
    <2>5. "INITIALISED" \in status /\ task'.pc \in {"sendOff", "sendEnd"} => hw'.mode = "rx"
        <3>1. CASE Send
            BY <1>00, <3>1 DEF Send, Call, Sending
        <3>2. CASE SendBack
            BY <3>2 DEF SendBack, Listening
        <3>3. CASE SendOff \/ SendStart \/ SendWait
            BY <1>0, <3>3 DEF SendOff, SendStart, SendWait, Tasks
        <3> QED
            BY <1>12, <3>1, <3>2, <3>3
    <2> QED
        BY <1>1, <2>1, <2>2, <2>3, <2>4, <2>5
<1>13. CASE SendEnd
    <2>1. /\ task.pc = "sendEnd" /\ task'.pc = "home" /\ task'.before = Awake /\ irq' /\ UNCHANGED <<status, hw>>
        BY <1>13 DEF SendEnd, Home
    <2>2. "INITIALISED" \in status => hw.mode = "rx"
        BY <1>00, <2>1
    <2> QED
        BY <1>1, <2>1, <2>2
<1>14. CASE Starts
    <2>1. /\ hw' = [hw EXCEPT !.ptr = rxBuf'] /\ irq' /\ task'.pc = "enabling" /\ task'.before = task.before
          /\ \/ Enable /\ task.pc = "home" /\ status' = status /\ "INITIALISED" \notin status
             \/ task.pc = "asleep" /\ "DEEPSLEEP_INIT" \in status /\ status' = status \ {"DEEPSLEEP_INIT"}
        BY <1>14, StartsStep DEF Starts, Enable, Wake
    <2>2. CASE Enable /\ task.pc = "home" /\ status' = status /\ "INITIALISED" \notin status
        BY <1>00, <2>1, <2>2 DEF Asleep
    <2>3. CASE task.pc = "asleep" /\ "DEEPSLEEP_INIT" \in status /\ status' = status \ {"DEEPSLEEP_INIT"}
        <3>1. /\ "DEEPSLEEP_IRQ" \notin status /\ "INITIALISED" \notin status
              /\ task.before = [irq |-> TRUE, mode |-> "rx", status |-> (status \cup {"INITIALISED"}) \ {"DEEPSLEEP_INIT"}]
            BY <2>3 DEF Asleep
        <3>2. (status \cup {"INITIALISED"}) \ {"DEEPSLEEP_INIT"} = status' \cup {"INITIALISED"}
            BY <2>3
        <3> QED
            BY <2>1, <2>3, <3>1, <3>2 DEF Asleep
    <2> QED
        BY <2>1, <2>2, <2>3
<1>15. CASE Wake /\ "DEEPSLEEP_INIT" \notin status
    <2>1. /\ task.pc = "asleep" /\ task'.pc = "home" /\ task'.before = Awake
          /\ status' = status \ {"DEEPSLEEP_IRQ"} /\ "INITIALISED" \notin status
        BY <1>00, <1>15 DEF Wake, Home
    <2> QED
        BY <1>15, <2>1 DEF Asleep
<1>16. CASE EnableListen
    <2>1. /\ task.pc = "enabling" /\ task'.pc = "home" /\ task'.before = Awake
          /\ status' = status \cup {"INITIALISED"} /\ irq' = irq /\ hw'.mode = "rx"
        BY <1>16 DEF EnableListen, Home, Listening
    <2>2. irq /\ "DEEPSLEEP_INIT" \notin status /\ "DEEPSLEEP_IRQ" \notin status
        BY <2>1 DEF Asleep
    <2> QED
        BY <2>1, <2>2 DEF Asleep
<1>17. CASE Disable
    <2>1. task.pc = "home" /\ task' = task /\ status' = status \ {"INITIALISED"}
        BY <1>17 DEF Disable
    <2> QED
        BY <1>00, <2>1 DEF Asleep
<1>18. CASE Sleep
    <2>1. /\ task.pc = "home" /\ task'.pc = "asleep" /\ task'.before = State /\ ~irq'
          /\ "DEEPSLEEP_INIT" \notin status /\ "DEEPSLEEP_IRQ" \notin status
        BY <1>00, <1>18 DEF Sleep, Home
    <2>2. CASE "INITIALISED" \in status
        <3>1. irq /\ hw.mode = "rx"
            BY <1>00, <2>1, <2>2 DEF Taking, Sending
        <3>2. status' = {"DEEPSLEEP_INIT"} \cup (status \ {"INITIALISED"})
            BY <1>18, <2>2 DEF Sleep
        <3>3. (status' \cup {"INITIALISED"}) \ {"DEEPSLEEP_INIT"} = status
            BY <2>1, <2>2, <3>2
        <3>4. State = [irq |-> TRUE, mode |-> "rx", status |-> status]
            BY <1>0, <3>1, Zenon DEF State
        <3> QED
            BY <2>1, <3>2, <3>3, <3>4 DEF Asleep
    <2>3. CASE "INITIALISED" \notin status
        <3>1. status' = (IF irq THEN status \cup {"DEEPSLEEP_IRQ"} ELSE status) /\ hw' = hw
            BY <1>18, <2>3 DEF Sleep
        <3>2. (irq <=> "DEEPSLEEP_IRQ" \in status') /\ status' \ {"DEEPSLEEP_IRQ"} = status
            BY <2>1, <3>1
        <3>3. "DEEPSLEEP_INIT" \notin status' /\ "INITIALISED" \notin status'
            BY <2>1, <2>3, <3>1
        <3>4. irq = ("DEEPSLEEP_IRQ" \in status')
            BY <1>0, <3>2, Zenon
        <3>5. State = [irq |-> "DEEPSLEEP_IRQ" \in status', mode |-> hw'.mode, status |-> status' \ {"DEEPSLEEP_IRQ"}]
            BY <3>1, <3>2, <3>4, Zenon DEF State
        <3> QED
            BY <2>1, <3>3, <3>5 DEF Asleep
    <2> QED
        BY <2>2, <2>3
<1>19. CASE UNCHANGED vars
    BY <1>2, <1>19 DEF vars
<1> QED
    BY <1>3, <1>4, <1>5, <1>7, <1>8, <1>9, <1>10, <1>11, <1>12, <1>13, <1>14, <1>15, <1>16, <1>17, <1>18, <1>19, Steps DEF Quiet

-----------------------------------------------------------------------------
Safe == Types /\ Control /\ Depth /\ Order /\ Owner /\ Given /\ Arrival /\ Leftover /\ Asleep

(* Without forwarding of events from interrupts, all of it holds.          *)
LEMMA Safety == Spec => [](~forwards => Safe)
<1>1. Init => Safe
    <2> SUFFICES ASSUME Init PROVE Safe
        OBVIOUS
    <2>1. Types
        BY TypesInit
    <2>2. /\ task = Home /\ rxQueue = <<>> /\ datagrams = <<>> /\ rxBuf = NULL /\ queueDepth = 0
          /\ Len(rxQueue) = 0 /\ Len(datagrams) = 0 /\ Home.pc = "home" /\ Home.p = NULL /\ Home.before = Awake
        BY EmptySeq DEF Init, Home
    <2>3. ~Held /\ \A b : ~InPath(b)
        <3>1. ~Held
            BY <2>2 DEF Held
        <3> QED
            BY <2>2, <3>1 DEF InPath
    <2>4. Control /\ Leftover
        BY <2>2 DEF Control, Leftover, Taking, Passing
    <2>5. Depth /\ Order
        BY <2>2, <2>3, Constants DEF Depth, Order
    <2>6. Owner /\ Arrival
        BY <2>2, <2>3, Constants DEF Init, Owner, Arrival
    <2>7. Given
        BY <2>2, <2>3 DEF Init, Given, NoPacket
    <2>8. Asleep
        BY <2>2 DEF Init, Asleep, Home
    <2> QED
        BY <2>1, <2>4, <2>5, <2>6, <2>7, <2>8 DEF Safe
<1>2. (~forwards => Safe) /\ [Next]_vars => (~forwards => Safe)'
    <2> SUFFICES ASSUME Safe, ~forwards, [Next]_vars PROVE Safe'
        BY SameScenario
    <2>1. Types' /\ Control'
        BY TypesStep, ControlStep DEF Safe
    <2> QED
        BY <2>1, DepthStep, OrderStep, OwnerStep, GivenStep, ArrivalStep, LeftoverStep, AsleepStep DEF Safe
<1> QED
    BY <1>1, <1>2, PTL DEF Spec

(* The values and the lengths of the queues: both stay within the limits   *)
(* that QueueRxBuf and packetReceived() test.                              *)
THEOREM TypeCorrect == Spec => [](~forwards => TypeOK)
<1>1. Safe => TypeOK
    <2> SUFFICES ASSUME Safe PROVE TypeOK
        OBVIOUS
    <2>1. hw.ptr \in Buffers \cup {NULL} /\ queueDepth \in 0 .. RxBuffers
        <3>1. Len(rxQueue) \in Nat
            BY Numbers DEF Safe
        <3> QED
            BY <3>1, Constants DEF Safe, Types, Depth, Hardware
    <2>2. hw.mode \in {"off", "rx", "tx"}
        BY DEF Safe, Types, Hardware, Modes
    <2> QED
        BY <2>1, <2>2 DEF Safe, Types, Depth, TypeOK, Flags
<1> QED
    BY <1>1, Safety, PTL

(* Queues one behind the other.                                            *)
LEMMA Elements ==
    ASSUME NEW q \in Seq(Buffers)
    PROVE  /\ DOMAIN q = 1 .. Len(q) /\ Len(q) \in Nat
           /\ \A b : b \in ToSet(q) <=> \E i \in 1 .. Len(q) : b = q[i]
           /\ \A i \in 1 .. Len(q) : q[i] \in Buffers
<1>1. DOMAIN q = 1 .. Len(q) /\ Len(q) \in Nat /\ \A i \in 1 .. Len(q) : q[i] \in Buffers
    BY LenProperties, Queue
<1> QED
    BY <1>1 DEF ToSet

LEMMA Joined ==
    ASSUME NEW s \in Seq(Buffers), NEW t \in Seq(Buffers)
    PROVE  /\ s \o t \in Seq(Buffers)
           /\ ToSet(s \o t) = ToSet(s) \cup ToSet(t)
           /\ IsInjective(s) /\ IsInjective(t) /\ ToSet(s) \cap ToSet(t) = {} => IsInjective(s \o t)
           /\ /\ \A i, j \in 1 .. Len(s) : i < j => Older(s[i], s[j])
              /\ \A i, j \in 1 .. Len(t) : i < j => Older(t[i], t[j])
              /\ \A a \in ToSet(s), b \in ToSet(t) : Older(a, b)
              => \A i, j \in 1 .. Len(s \o t) : i < j => Older((s \o t)[i], (s \o t)[j])
<1> DEFINE u == s \o t
<1>1. /\ u \in Seq(Buffers) /\ Len(u) = Len(s) + Len(t) /\ Len(s) \in Nat /\ Len(t) \in Nat
      /\ \A i \in 1 .. Len(s) + Len(t) : u[i] = IF i <= Len(s) THEN s[i] ELSE t[i - Len(s)]
    BY ConcatProperties, Elements
<1> HIDE DEF u
<1>2. \A i \in 1 .. Len(u) :
        \/ i \in 1 .. Len(s) /\ u[i] = s[i] /\ u[i] \in ToSet(s)
        \/ i - Len(s) \in 1 .. Len(t) /\ u[i] = t[i - Len(s)] /\ i > Len(s) /\ u[i] \in ToSet(t)
    <2> SUFFICES ASSUME NEW i \in 1 .. Len(u)
                 PROVE  \/ i \in 1 .. Len(s) /\ u[i] = s[i] /\ u[i] \in ToSet(s)
                        \/ i - Len(s) \in 1 .. Len(t) /\ u[i] = t[i - Len(s)] /\ i > Len(s) /\ u[i] \in ToSet(t)
        OBVIOUS
    <2>1. \/ i \in 1 .. Len(s) /\ u[i] = s[i]
          \/ i - Len(s) \in 1 .. Len(t) /\ u[i] = t[i - Len(s)] /\ i > Len(s)
        BY <1>1
    <2> QED
        BY <2>1, Elements
<1>3. ToSet(u) = ToSet(s) \cup ToSet(t)
    <2>1. ASSUME NEW i \in 1 .. Len(s) PROVE i \in 1 .. Len(u) /\ u[i] = s[i]
        BY <1>1
    <2>2. ASSUME NEW i \in 1 .. Len(t) PROVE i + Len(s) \in 1 .. Len(u) /\ u[i + Len(s)] = t[i]
        <3>1. i + Len(s) \in 1 .. Len(s) + Len(t) /\ ~(i + Len(s) <= Len(s)) /\ (i + Len(s)) - Len(s) = i
            BY <1>1
        <3> QED
            BY <1>1, <3>1
    <2>3. \A b \in ToSet(s) : b \in ToSet(u)
        BY <1>1, <2>1, Elements
    <2>4. \A b \in ToSet(t) : b \in ToSet(u)
        <3> SUFFICES ASSUME NEW b \in ToSet(t) PROVE b \in ToSet(u)
            OBVIOUS
        <3>1. PICK i \in 1 .. Len(t) : b = t[i]
            BY Elements
        <3>2. i + Len(s) \in 1 .. Len(u) /\ u[i + Len(s)] = b
            BY <2>2, <3>1
        <3> QED
            BY <1>1, <3>2, Elements
    <2>5. \A b \in ToSet(u) : b \in ToSet(s) \cup ToSet(t)
        BY <1>1, <1>2, Elements
    <2> QED
        BY <2>3, <2>4, <2>5
<1>4. ASSUME IsInjective(s), IsInjective(t), ToSet(s) \cap ToSet(t) = {} PROVE IsInjective(u)
    <2>1. /\ \A i, j \in 1 .. Len(s) : s[i] = s[j] => i = j
          /\ \A i, j \in 1 .. Len(t) : t[i] = t[j] => i = j
        BY <1>4, Elements DEF IsInjective
    <2>2. \A i, j \in 1 .. Len(u) : u[i] = u[j] => i = j
        <3> SUFFICES ASSUME NEW i \in 1 .. Len(u), NEW j \in 1 .. Len(u), u[i] = u[j] PROVE i = j
            OBVIOUS
        <3>1. CASE i \in 1 .. Len(s) /\ u[i] = s[i] /\ u[i] \in ToSet(s)
            BY <1>2, <1>4, <2>1, <3>1
        <3>2. CASE i - Len(s) \in 1 .. Len(t) /\ u[i] = t[i - Len(s)] /\ u[i] \in ToSet(t)
            <4>1. j - Len(s) \in 1 .. Len(t) /\ u[j] = t[j - Len(s)]
                BY <1>2, <1>4, <3>2
            <4>2. i - Len(s) = j - Len(s)
                BY <2>1, <3>2, <4>1
            <4> QED
                BY <1>1, <4>2
        <3> QED
            BY <1>2, <3>1, <3>2
    <2> QED
        BY <1>1, <2>2, Elements DEF IsInjective
<1>5. ASSUME \A i, j \in 1 .. Len(s) : i < j => Older(s[i], s[j]),
             \A i, j \in 1 .. Len(t) : i < j => Older(t[i], t[j]),
             \A a \in ToSet(s), b \in ToSet(t) : Older(a, b),
             NEW i \in 1 .. Len(u), NEW j \in 1 .. Len(u), i < j
      PROVE  Older(u[i], u[j])
    <2>1. CASE j \in 1 .. Len(s) /\ u[j] = s[j]
        <3>1. i \in 1 .. Len(s) /\ u[i] = s[i]
            BY <1>1, <1>2, <1>5, <2>1
        <3> QED
            BY <1>5, <2>1, <3>1
    <2>2. CASE j - Len(s) \in 1 .. Len(t) /\ u[j] = t[j - Len(s)] /\ u[j] \in ToSet(t)
        <3>1. CASE u[i] \in ToSet(s)
            BY <1>5, <2>2, <3>1
        <3>2. CASE i - Len(s) \in 1 .. Len(t) /\ u[i] = t[i - Len(s)]
            <4>1. i - Len(s) < j - Len(s)
                BY <1>1, <1>5
            <4> QED
                BY <1>5, <2>2, <3>2, <4>1
        <3> QED
            BY <1>2, <3>1, <3>2
    <2> QED
        BY <1>2, <2>1, <2>2
<1> QED
    BY <1>1, <1>3, <1>4, <1>5 DEF u

(* The path of the packets, and the packet between the queues in it.       *)
LEMMA Path ==
    ASSUME Types, Order
    PROVE  /\ rxQueue \in Seq(Buffers) /\ datagrams \in Seq(Buffers) /\ Hand \in Seq(Buffers)
           /\ \A i, j \in 1 .. Len(Hand) : i = j
           /\ \A b : b \in ToSet(Hand) <=> Held /\ b = task.p
           /\ \A b : b \in ToSet(rxQueue) \cup ToSet(datagrams) \cup ToSet(Hand) <=> InPath(b)
           /\ \A a \in ToSet(datagrams), b \in ToSet(rxQueue) : Older(a, b)
           /\ \A a \in ToSet(datagrams), b \in ToSet(Hand) : Older(a, b)
           /\ \A a \in ToSet(Hand), b \in ToSet(rxQueue) : Older(a, b)
<1>1. rxQueue \in Seq(Buffers) /\ datagrams \in Seq(Buffers) /\ (Held => task.p \in Buffers)
    BY Numbers DEF Types
<1>2. Hand = IF Held THEN <<task.p>> ELSE <<>>
    BY DEF Hand, Held, Passing
<1>3. /\ Hand \in Seq(Buffers)
      /\ \A i, j \in 1 .. Len(Hand) : i = j
      /\ \A b : b \in ToSet(Hand) <=> Held /\ b = task.p
    <2>1. CASE Held
        <3>1. Hand \in Seq(Buffers) /\ Len(Hand) = 1 /\ Hand[1] = task.p
            BY <1>1, <1>2, <2>1
        <3>2. \A i \in 1 .. 1 : i = 1
            OBVIOUS
        <3> QED
            BY <2>1, <3>1, <3>2, Elements
    <2>2. CASE ~Held
        <3>1. Hand \in Seq(Buffers) /\ Len(Hand) = 0
            BY <1>2, <2>2, EmptySeq
        <3>2. \A i \in 1 .. 0 : FALSE
            OBVIOUS
        <3> QED
            BY <2>2, <3>1, <3>2, Elements
    <2> QED
        BY <2>1, <2>2
<1>4. \A b : b \in ToSet(rxQueue) \cup ToSet(datagrams) \cup ToSet(Hand) <=> InPath(b)
    BY <1>1, <1>3, Elements DEF InPath
<1>5. /\ \A a \in ToSet(datagrams), b \in ToSet(rxQueue) : Older(a, b)
      /\ \A a \in ToSet(datagrams), b \in ToSet(Hand) : Older(a, b)
      /\ \A a \in ToSet(Hand), b \in ToSet(rxQueue) : Older(a, b)
    BY <1>1, <1>3, Elements DEF Order
<1> QED
    BY <1>1, <1>3, <1>4, <1>5

(* recv() neither leaks a packet nor takes it twice, whatever the interrupt*)
(* handler does between its steps, and both protocols give their buffers   *)
(* back.                                                                   *)
THEOREM NoBufferLost == Spec => []BuffersOwned
<1>1. Safe => EachBufferOnce
    <2> SUFFICES ASSUME Safe PROVE EachBufferOnce
        OBVIOUS
    <2> DEFINE spare == IF rxBuf = NULL THEN <<>> ELSE <<rxBuf>>
               chain == spare \o rxQueue \o Hand \o datagrams
    <2>1. Types /\ Order /\ Owner
        BY DEF Safe
    <2>2. rxQueue \in Seq(Buffers) /\ datagrams \in Seq(Buffers) /\ Hand \in Seq(Buffers)
        BY <2>1, Path
    <2>3. spare \in Seq(Buffers) /\ IsInjective(spare) /\ \A b : b \in ToSet(spare) <=> rxBuf # NULL /\ b = rxBuf
        <3>1. CASE rxBuf = NULL
            <4>1. spare \in Seq(Buffers) /\ Len(spare) = 0
                BY <3>1, EmptySeq
            <4>2. \A i \in 1 .. 0 : FALSE
                OBVIOUS
            <4> QED
                BY <3>1, <4>1, <4>2, Elements DEF IsInjective
        <3>2. CASE rxBuf # NULL
            <4>1. spare \in Seq(Buffers) /\ Len(spare) = 1 /\ spare[1] = rxBuf
                BY <2>1, <3>2 DEF Types
            <4>2. \A i \in 1 .. Len(spare) : i = 1
                BY <4>1
            <4>3. 1 \in 1 .. Len(spare)
                BY <4>1
            <4> HIDE DEF spare
            <4>4. \A b : b \in ToSet(spare) <=> b = rxBuf
                BY <4>1, <4>2, <4>3, Elements
            <4>5. IsInjective(spare)
                BY <4>1, <4>2, Elements DEF IsInjective
            <4> QED
                BY <3>2, <4>1, <4>4, <4>5
        <3> QED
            BY <3>1, <3>2
    <2>4. \A b : b \in ToSet(rxQueue) \cup ToSet(datagrams) \cup ToSet(Hand) => b \in Buffers /\ ~Older(b, b)
        BY <2>1, Path, Numbers
    <2>5. IsInjective(rxQueue) /\ IsInjective(datagrams) /\ IsInjective(Hand)
        <3>1. \A i, j \in 1 .. Len(rxQueue) : rxQueue[i] = rxQueue[j] => i = j
            <4> SUFFICES ASSUME NEW i \in 1 .. Len(rxQueue), NEW j \in 1 .. Len(rxQueue), rxQueue[i] = rxQueue[j], i # j
                         PROVE  FALSE
                OBVIOUS
            <4>1. i < j \/ j < i
                BY <2>2, Elements
            <4>2. Older(rxQueue[i], rxQueue[i])
                BY <2>1, <4>1 DEF Order
            <4> QED
                BY <2>1, <4>2, Numbers
        <3>2. \A i, j \in 1 .. Len(datagrams) : datagrams[i] = datagrams[j] => i = j
            <4> SUFFICES ASSUME NEW i \in 1 .. Len(datagrams), NEW j \in 1 .. Len(datagrams), datagrams[i] = datagrams[j], i # j
                         PROVE  FALSE
                OBVIOUS
            <4>1. i < j \/ j < i
                BY <2>2, Elements
            <4>2. Older(datagrams[i], datagrams[i])
                BY <2>1, <4>1 DEF Order
            <4> QED
                BY <2>1, <4>2, Numbers
        <3> QED
            BY <2>1, <2>2, <3>1, <3>2, Path, Elements DEF IsInjective
    <2>6. /\ ToSet(rxQueue) \cap ToSet(datagrams) = {}
          /\ ToSet(Hand) \cap ToSet(datagrams) = {}
          /\ ToSet(rxQueue) \cap ToSet(Hand) = {}
          /\ \A b \in ToSet(spare) : b \notin ToSet(rxQueue) /\ b \notin ToSet(datagrams) /\ b \notin ToSet(Hand)
        BY <2>1, <2>3, <2>4, Path DEF Owner
    <2> HIDE DEF spare
    <2>7. /\ spare \o rxQueue \in Seq(Buffers) /\ IsInjective(spare \o rxQueue)
          /\ ToSet(spare \o rxQueue) = ToSet(spare) \cup ToSet(rxQueue)
        <3>1. ToSet(spare) \cap ToSet(rxQueue) = {}
            BY <2>6
        <3> QED
            BY <2>2, <2>3, <2>5, <3>1, Joined
    <2>8. /\ spare \o rxQueue \o Hand \in Seq(Buffers) /\ IsInjective(spare \o rxQueue \o Hand)
          /\ ToSet(spare \o rxQueue \o Hand) = ToSet(spare) \cup ToSet(rxQueue) \cup ToSet(Hand)
        <3>1. ToSet(spare \o rxQueue) \cap ToSet(Hand) = {}
            BY <2>6, <2>7
        <3> QED
            BY <2>2, <2>5, <2>7, <3>1, Joined
    <2>9. IsInjective(chain) /\ ToSet(chain) = ToSet(spare) \cup ToSet(rxQueue) \cup ToSet(Hand) \cup ToSet(datagrams)
        <3>1. ToSet(spare \o rxQueue \o Hand) \cap ToSet(datagrams) = {}
            BY <2>6, <2>8
        <3> QED
            BY <2>2, <2>5, <2>8, <3>1, Joined
    <2>10. heap = Buffers \ ToSet(chain)
        <3>1. \A b \in Buffers : b \in ToSet(chain) <=> b = rxBuf \/ InPath(b)
            BY <2>1, <2>3, <2>9, Path, Constants
        <3>2. heap \in SUBSET Buffers /\ \A b \in Buffers : b \in heap <=> b # rxBuf /\ ~InPath(b)
            BY <2>1 DEF Types, Owner
        <3> HIDE DEF chain
        <3> QED
            BY <3>1, <3>2
    <2> QED
        BY <2>9, <2>10 DEF EachBufferOnce, spare
<1> QED
    BY <1>1, Safety, PTL DEF BuffersOwned

(* Datagrams and events reach the program in the order of their arrival.   *)
THEOREM PacketsInOrder == Spec => []InOrder
<1>1. Safe /\ ~forwards => InOrder
    <2> SUFFICES ASSUME Safe PROVE InOrder
        OBVIOUS
    <2> DEFINE hand == IF task.after = "datagram" THEN Hand ELSE <<>>
               path == datagrams \o hand \o rxQueue
    <2>1. Types /\ Order /\ Given
        BY DEF Safe
    <2>2. /\ hand \in Seq(Buffers) /\ (\A i, j \in 1 .. Len(hand) : i = j)
          /\ ToSet(hand) \subseteq ToSet(Hand)
        <3>1. CASE hand = Hand
            BY <2>1, <3>1, Path
        <3>2. CASE hand = <<>>
            <4>1. hand \in Seq(Buffers) /\ Len(hand) = 0
                BY <3>2, EmptySeq
            <4>2. \A i \in 1 .. 0 : FALSE
                OBVIOUS
            <4>3. \A b : b \notin ToSet(hand)
                BY <4>1, <4>2, Elements
            <4> QED
                BY <4>1, <4>2, <4>3
        <3> QED
            BY <3>1, <3>2
    <2> HIDE DEF hand
    <2>3. /\ \A i, j \in 1 .. Len(hand) : i < j => Older(hand[i], hand[j])
          /\ \A a \in ToSet(datagrams), b \in ToSet(hand) : Older(a, b)
          /\ \A a \in ToSet(hand), b \in ToSet(rxQueue) : Older(a, b)
          /\ \A a \in ToSet(datagrams), b \in ToSet(rxQueue) : Older(a, b)
        <3>1. \A i, j \in 1 .. Len(hand) : ~(i < j)
            <4>1. \A i \in 1 .. Len(hand) : ~(i < i)
                BY <2>2, Elements
            <4> QED
                BY <2>2, <4>1
        <3> QED
            BY <2>1, <2>2, <3>1, Path
    <2>4. rxQueue \in Seq(Buffers) /\ datagrams \in Seq(Buffers)
        BY <2>1, Path
    <2>5. /\ datagrams \o hand \in Seq(Buffers) /\ ToSet(datagrams \o hand) = ToSet(datagrams) \cup ToSet(hand)
          /\ \A i, j \in 1 .. Len(datagrams \o hand) : i < j => Older((datagrams \o hand)[i], (datagrams \o hand)[j])
        BY <2>1, <2>2, <2>3, <2>4, Joined DEF Order
    <2>6. \A a \in ToSet(datagrams \o hand), b \in ToSet(rxQueue) : Older(a, b)
        BY <2>3, <2>5
    <2>7. /\ path \in Seq(Buffers) /\ ToSet(path) = ToSet(datagrams) \cup ToSet(hand) \cup ToSet(rxQueue)
          /\ \A i, j \in 1 .. Len(path) : i < j => Older(path[i], path[j])
        BY <2>1, <2>4, <2>5, <2>6, Joined DEF Order
    <2> HIDE DEF path
    <2>8. \A i \in 1 .. Len(path) : path[i] \in Buffers /\ InPath(path[i])
        BY <2>1, <2>2, <2>7, Elements, Path
    <2>9. \A i \in 1 .. Len(path) : content[path[i]].protocol = "datagram" => given.datagram < content[path[i]].number
        BY <2>1, <2>8 DEF Given
    <2> QED
        BY <2>1, <2>7, <2>9 DEF InOrder, Older, Given, path, hand
<1>2. forwards => InOrder
    BY DEF InOrder
<1> QED
    BY <1>1, <1>2, Safety, PTL

(* idleCallback() frees no packet of a protocol it knows.                  *)
THEOREM LeftoversUnknown == Spec => []LeftoverIsUnknown
<1>1. (~forwards => Safe) => LeftoverIsUnknown
    <2> SUFFICES ASSUME Safe, task.pc = "compare", rxQueue # <<>>, Head(rxQueue) = task.p
                 PROVE  content[task.p].protocol = "other"
        BY DEF LeftoverIsUnknown, At
    <2>1. Head(rxQueue) = rxQueue[1]
        BY Queue DEF Safe, Types
    <2> QED
        BY <2>1 DEF Safe, Leftover
<1> QED
    BY <1>1, Safety, PTL

(* setSleep(false) undoes setSleep(true).                                  *)
THEOREM SleepUndone == Spec => WakesAsItSlept
<1>1. (~forwards => Safe) /\ [Next]_vars =>
        [~forwards /\ task.before # Awake /\ task'.pc = "home" => State' = task.before]_vars
    <2> SUFFICES ASSUME Safe, ~forwards, [Next]_vars, task.before # Awake, task'.pc = "home" PROVE State' = task.before
        OBVIOUS
    <2> USE DEF At, Goto
    <2>1. task.pc \in {"asleep", "enabling"} /\ task \in Tasks /\ Types /\ Control /\ Owner /\ Arrival /\ Asleep
        BY DEF Safe, Asleep, Types
    <2>2. CASE Wake /\ "DEEPSLEEP_INIT" \notin status
        <3>1. /\ task.before = [irq |-> "DEEPSLEEP_IRQ" \in status, mode |-> hw.mode, status |-> status \ {"DEEPSLEEP_IRQ"}]
              /\ ~irq
            BY <2>1, <2>2 DEF Asleep, Wake
        <3>2. irq' = ("DEEPSLEEP_IRQ" \in status) /\ status' = status \ {"DEEPSLEEP_IRQ"} /\ hw' = hw
            <4>1. irq' = (irq \/ "DEEPSLEEP_IRQ" \in status)
                BY <2>2, Zenon DEF Wake
            <4>2. irq' <=> "DEEPSLEEP_IRQ" \in status
                BY <3>1, <4>1
            <4>3. irq' \in BOOLEAN
                BY <4>1, Zenon
            <4>4. irq' = ("DEEPSLEEP_IRQ" \in status)
                BY <4>2, <4>3, Zenon
            <4> QED
                BY <2>2, <4>4 DEF Wake
        <3> QED
            BY <3>1, <3>2, Zenon DEF State
    <2>3. CASE EnableListen
        <3>1. /\ task.before = [irq |-> TRUE, mode |-> "rx", status |-> status \cup {"INITIALISED"}]
              /\ irq
            BY <2>1, <2>3 DEF Asleep, EnableListen
        <3>2. irq' = irq /\ status' = status \cup {"INITIALISED"} /\ hw'.mode = "rx"
            BY <2>3 DEF EnableListen, Listening
        <3>3. irq' = TRUE
            BY <2>1, <3>1, <3>2, Zenon DEF Types
        <3> QED
            BY <3>1, <3>2, <3>3, Zenon DEF State
    <2>4. CASE task' = task
        BY <2>1, <2>4
    <2>5. \/ task' = task \/ EnableListen \/ (Wake /\ "DEEPSLEEP_INIT" \notin status)
        <3>1. CASE Arrive \/ TxEnd \/ IRQHandler \/ UNCHANGED vars
            BY <3>1 DEF Arrive, TxEnd, IRQHandler, vars
        <3>2. CASE Drops \/ Stores \/ RecvTake \/ DatagramRecv
            BY <2>1, <3>2 DEF Drops, Stores, RecvTake, DatagramRecv, UserDelete, EventFired, Drop, DatagramReceived
        <3>3. CASE Starts
            BY <2>1, <3>3, StartsStep
        <3>4. CASE RecvBegin \/ RecvNext \/ RecvCount \/ RecvEnd \/ UserRecv \/ Walk \/ EventFire \/ Compare
            BY <2>1, <3>4 DEF RecvBegin, RecvNext, RecvCount, RecvEnd, UserRecv, Walk, EventFire, Compare
        <3>5. CASE IdleCallback \/ Disable \/ Sleep \/ Send \/ SendOff \/ SendStart \/ SendWait \/ SendBack \/ SendEnd
            BY <2>1, <3>5 DEF IdleCallback, Call, Disable, Sleep, Send, SendOff, SendStart, SendWait, SendBack, SendEnd
        <3> QED
            BY <3>1, <3>2, <3>3, <3>4, <3>5, Steps DEF Quiet
    <2> QED
        BY <2>2, <2>3, <2>4, <2>5
<1> QED
    BY <1>1, Safety, PTL DEF Spec, WakesAsItSlept
=============================================================================
