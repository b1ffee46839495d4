------------------------ MODULE MicroBitUARTService ------------------------
(***************************************************************************)
(* The UART service over Bluetooth: two ring buffers, each shared by the   *)
(* fibers of the program and by the callbacks of the SoftDevice.           *)
(*                                                                         *)
(* A callback is an interrupt: it runs to its end between any two steps of *)
(* a fiber.  Fibers are cooperative: another one runs only when the        *)
(* running one sleeps or returns.  A fiber that waits for an event is      *)
(* woken only if it was registered when the event was fired.               *)
(*                                                                         *)
(* Bytes are numbered in the order in which their ring accepted them,      *)
(* modulo Wrap; a received byte also says whether it is a delimiter.       *)
(***************************************************************************)
EXTENDS Integers, Sequences, FiniteSets, FiniteSetsExt

CONSTANTS Fibers,
          RxSize, TxSize,  \* cells of the rings, one of which stays free
          AttrSize,        \* MICROBIT_UART_S_ATTRSIZE
          Wrap,            \* bound: numbers of bytes
          MaxPacket,       \* bound: bytes of a packet of the central
          MaxLen,          \* bound: bytes of a call
          Scenarios        \* the programs and links considered

NoFiber == "none"

ASSUME UARTAssumption ==
    /\ IsFiniteSet(Fibers) /\ NoFiber \notin Fibers
    /\ RxSize \in Nat \ {0, 1} /\ TxSize \in Nat \ {0, 1} /\ AttrSize \in Nat \ {0}
    /\ Wrap \in Nat /\ Wrap > RxSize /\ Wrap > TxSize
    /\ MaxPacket \in Nat /\ MaxLen \in Nat
    /\ \A s \in Scenarios :
         /\ s.fibers \subseteq Fibers
         /\ s.calls \subseteq {"getc", "read", "readUntil", "send"} \X {"ASYNC", "SYNC_SLEEP"}
         /\ s.writes \in BOOLEAN   \* the central writes packets
         /\ s.drops \in BOOLEAN    \* the link may be lost

VARIABLES scenario,
          rx,       \* head, tail, ring, match (rxBuffHeadMatch), listening (delimeters is set)
          tx,       \* head, tail, ring, value (the attribute, of length txValueSize), waiting
          link,     \* connected with indications enabled; the indication not confirmed yet
          number,   \* numbers of the next byte: accepted and read, given to send() and confirmed
          line,     \* what the last readUntil() returned, and the byte it removed after it
          task,     \* per fiber, the call in progress
          asleep,   \* per event, the fibers registered for it
          running

vars == <<scenario, rx, tx, link, number, line, task, asleep, running>>

Idle    == [pc |-> "idle", mode |-> "ASYNC", left |-> 0, after |-> "idle", local |-> 0]
NoLine  == [mode |-> "ASYNC", text |-> <<>>]
Events  == {"HEAD_MATCH", "DELIM_MATCH", "TX_EMPTY"}

Up(n, k) == (n + k) % Wrap
RxUp(i) == (i + 1) % RxSize
TxUp(i) == (i + 1) % TxSize
RxCount == (rx.head - rx.tail) % RxSize
TxCount == (tx.head - tx.tail) % TxSize
-----------------------------------------------------------------------------
(* Faulty: bytes are stored even when the ring is full. *)
StoredOverrun(packet) == Len(packet)

(* onDataWritten(): each byte of a packet goes into the ring or, when that is *)
(* full, is dropped.  No fiber reads meanwhile: the bytes that fit are kept.  *)
Stored(packet) == Min({Len(packet), RxSize - 1 - RxCount})

OnDataWritten(packet) ==
    LET stored   == Stored(packet)
        Place(i) == (i - rx.head) % RxSize   \* of cell i among the free ones
        matched  == rx.match # -1 /\ (rx.match - rx.head - 1) % RxSize < stored
        heard    == rx.listening /\ \E k \in 1 .. stored : packet[k]
    IN
    /\ scenario.writes /\ link.connected
    /\ rx' = [rx EXCEPT !.ring  = [i \in 0 .. RxSize - 1 |->
                                      IF Place(i) < stored
                                      THEN [number    |-> Up(number.accepted, Place(i)),
                                            delimiter |-> packet[Place(i) + 1]]
                                      ELSE @[i]],
                        !.head  = (@ + stored) % RxSize,
                        !.match = IF matched THEN -1 ELSE @]
    /\ number' = [number EXCEPT !.accepted = Up(@, stored)]
    /\ asleep' = [asleep EXCEPT !["HEAD_MATCH"]  = IF matched THEN {} ELSE @,
                                !["DELIM_MATCH"] = IF heard THEN {} ELSE @]
    /\ UNCHANGED <<scenario, tx, link, line, task, running>>

(* Faulty: the callback's copy stops one byte early. *)
BlockShort(tail) ==
    LET count == (tx.head - tail) % TxSize IN
    [i \in 1 .. Min({count - 1, AttrSize}) |-> tx.ring[(tail + i - 1) % TxSize]]

(* sendNext(), run to its end by a callback: the bytes of the attribute.      *)
Block(tail) ==
    LET count == (tx.head - tail) % TxSize IN
    [i \in 1 .. Min({count, AttrSize}) |-> tx.ring[(tail + i - 1) % TxSize]]

(* onConfirmation(): the central has the block.  The next one is sent from    *)
(* here unless a fiber waits, which is then expected to do it.                *)
OnConfirmation ==
    LET tail == (tx.tail + Len(tx.value)) % TxSize
        next == IF tx.waiting THEN <<>> ELSE Block(tail)
    IN
    /\ link.flight # <<>>
    /\ tx' = [tx EXCEPT !.tail = tail, !.value = next]
    /\ link' = [link EXCEPT !.flight = next]
    /\ number' = [number EXCEPT !.confirmed = Up(@, Len(link.flight))]
    /\ asleep' = [asleep EXCEPT !["TX_EMPTY"] = {}]
    /\ UNCHANGED <<scenario, rx, line, task, running>>

OnDisconnect ==
    /\ scenario.drops /\ link.connected
    /\ link' = [connected |-> FALSE, flight |-> <<>>]
    /\ tx' = [tx EXCEPT !.head = 0, !.tail = 0, !.value = <<>>]
    /\ asleep' = IF tx.waiting THEN [asleep EXCEPT !["TX_EMPTY"] = {}] ELSE asleep
    /\ UNCHANGED <<scenario, rx, number, line, task, running>>

OnConnect ==
    /\ ~link.connected
    /\ link' = [link EXCEPT !.connected = TRUE]
    /\ UNCHANGED <<scenario, rx, tx, number, line, task, asleep, running>>

Packets == UNION {[1 .. n -> BOOLEAN] : n \in 1 .. MaxPacket}

Interrupt == (\E packet \in Packets : OnDataWritten(packet)) \/ OnConfirmation \/ OnDisconnect \/ OnConnect
-----------------------------------------------------------------------------
At(f, pc) == task[f].pc = pc /\ running \in {f, NoFiber}

(* f goes on with t, and keeps the CPU unless it returns. *)
Go(f, t) ==
    /\ task' = [task EXCEPT ![f] = t]
    /\ running' = IF t = Idle THEN NoFiber ELSE f

To(f, pc) == Go(f, [task[f] EXCEPT !.pc = pc])

(* Registered for the event: f sleeps until it is fired. *)
Sleep(f, event, pc) ==
    /\ asleep' = [asleep EXCEPT ![event] = @ \cup {f}]
    /\ task' = [task EXCEPT ![f].pc = pc]
    /\ running' = NoFiber

(* getc(), which takes the byte at the tail without another look at the head. *)
Take(f) ==
    /\ rx' = [rx EXCEPT !.tail = RxUp(@)]
    /\ number' = [number EXCEPT !.read = Up(@, 1)]
    /\ Go(f, [task[f] EXCEPT !.left = @ - 1, !.pc = "get"])

Get(f) ==
    /\ At(f, "get")
    /\ \/ /\ task[f].left = 0
          /\ Go(f, Idle) /\ UNCHANGED <<rx, number>>
       \/ /\ task[f].left > 0 /\ rx.tail # rx.head
          /\ Take(f)
       \/ /\ task[f].left > 0 /\ rx.tail = rx.head
          /\ IF task[f].mode = "ASYNC" THEN Go(f, Idle)
             ELSE Go(f, [task[f] EXCEPT !.pc = "arm", !.local = 1, !.after = "take"])
          /\ UNCHANGED <<rx, number>>
    /\ UNCHANGED <<scenario, tx, link, line, asleep>>

TakeWoken(f) ==
    /\ At(f, "take") /\ f \notin asleep["HEAD_MATCH"]
    /\ Take(f)
    /\ UNCHANGED <<scenario, tx, link, line, asleep>>

(* read(SYNC_SLEEP) looks at the size twice: to see whether to wait, and to   *)
(* say for how many bytes.                                                    *)
ReadSize(f) ==
    /\ At(f, "size")
    /\ To(f, IF task[f].left > RxCount THEN "need" ELSE "get")
    /\ UNCHANGED <<scenario, rx, tx, link, number, line, asleep>>

ReadNeed(f) ==
    /\ At(f, "need")
    /\ Go(f, [task[f] EXCEPT !.pc = "arm", !.local = task[f].left - RxCount, !.after = "got"])
    /\ UNCHANGED <<scenario, rx, tx, link, number, line, asleep>>

(* eventAfter(): the position of the head that fires the event, then the wait. *)
EventAfter(f) ==
    /\ At(f, "arm")
    /\ LET at == rx.head + task[f].local IN rx' = [rx EXCEPT !.match = IF at < 0 THEN -1 ELSE at % RxSize]
    /\ To(f, "await")
    /\ UNCHANGED <<scenario, tx, link, number, line, asleep>>

AwaitHead(f) ==
    /\ At(f, "await")
    /\ Sleep(f, "HEAD_MATCH", task[f].after)
    /\ UNCHANGED <<scenario, rx, tx, link, number, line>>

ReadWoken(f) ==
    /\ At(f, "got") /\ f \notin asleep["HEAD_MATCH"]
    /\ To(f, "get")
    /\ UNCHANGED <<scenario, rx, tx, link, number, line, asleep>>

(* readUntil(): returns the text from the tail it started with up to index    *)
(* found, and removes one more byte.                                          *)
Collect(f, preservedTail, found) ==
    LET size == (found - preservedTail) % RxSize IN
    /\ line' = [mode |-> task[f].mode, text |-> [i \in 1 .. size + 1 |-> rx.ring[(preservedTail + i - 1) % RxSize]]]
    /\ rx' = [rx EXCEPT !.tail = (@ + size + 1) % RxSize, !.listening = @ /\ task[f].pc # "heard"]
    /\ number' = [number EXCEPT !.read = Up(@, size + 1)]

Matches == {i \in 0 .. RxCount - 1 : rx.ring[(rx.tail + i) % RxSize].delimiter}

Scan(f) ==
    /\ At(f, "scan")
    /\ \/ /\ Matches # {}
          /\ Collect(f, rx.tail, (rx.tail + Min(Matches)) % RxSize)
          /\ Go(f, Idle)
       \/ /\ Matches = {}
          /\ Go(f, IF task[f].mode = "ASYNC" THEN Idle ELSE [task[f] EXCEPT !.pc = "listen", !.local = rx.tail])
          /\ UNCHANGED <<rx, number, line>>
    /\ UNCHANGED <<scenario, tx, link, asleep>>

(* eventOn() *)
EventOn(f) ==
    /\ At(f, "listen")
    /\ rx' = [rx EXCEPT !.listening = TRUE]
    /\ To(f, "awaitDelimiter")
    /\ UNCHANGED <<scenario, tx, link, number, line, asleep>>

AwaitDelimiter(f) ==
    /\ At(f, "awaitDelimiter")
    /\ Sleep(f, "DELIM_MATCH", "heard")
    /\ UNCHANGED <<scenario, rx, tx, link, number, line>>

(* The byte in front of the head is taken for the one that matched. *)
Heard(f) ==
    /\ At(f, "heard") /\ f \notin asleep["DELIM_MATCH"]
    /\ IF rx.head = 0 THEN rx' = [rx EXCEPT !.listening = FALSE] /\ UNCHANGED <<number, line>>
                      ELSE Collect(f, task[f].local, rx.head - 1)
    /\ Go(f, Idle)
    /\ UNCHANGED <<scenario, tx, link, asleep>>
-----------------------------------------------------------------------------
(* send(): while connected, add what fits, and send. *)
SendLoop(f) ==
    /\ At(f, "send")
    /\ IF link.connected THEN To(f, "fill") ELSE Go(f, Idle)
    /\ UNCHANGED <<scenario, rx, tx, link, number, line, asleep>>

SendFill(f) ==
    /\ At(f, "fill")
    /\ LET next == TxUp(tx.head) IN
       IF task[f].left = 0 \/ next = tx.tail
       THEN IF task[f].mode = "SYNC_SLEEP"
            THEN tx' = [tx EXCEPT !.waiting = TRUE] /\ To(f, "register")
            ELSE UNCHANGED tx /\ To(f, "next")
       ELSE Go(f, [task[f] EXCEPT !.pc = "store", !.local = next]) /\ UNCHANGED tx
    /\ UNCHANGED <<scenario, rx, link, number, line, asleep>>

SendStore(f) ==
    /\ At(f, "store")
    /\ tx' = [tx EXCEPT !.ring[tx.head] = number.given, !.head = task[f].local]
    /\ number' = [number EXCEPT !.given = Up(@, 1)]
    /\ Go(f, [task[f] EXCEPT !.pc = "fill", !.left = @ - 1, !.local = 0])
    /\ UNCHANGED <<scenario, rx, link, line, asleep>>

SendRegister(f) ==
    /\ At(f, "register")
    /\ asleep' = [asleep EXCEPT !["TX_EMPTY"] = @ \cup {f}]
    /\ To(f, "next")
    /\ UNCHANGED <<scenario, rx, tx, link, number, line>>

(* Faulty: a block is sent while another is in flight. *)
SendNextAlways(f) ==
    /\ At(f, "next")
    /\ IF tx.tail = tx.head \/ ~link.connected
       THEN To(f, "sent")
       ELSE Go(f, [task[f] EXCEPT !.pc = "copy", !.local = tx.tail])
    /\ UNCHANGED <<scenario, rx, tx, link, number, line, asleep>>

(* sendNext(), a byte at a time: a disconnect may come in between. *)
SendNext(f) ==
    /\ At(f, "next")
    /\ IF tx.value # <<>> \/ tx.tail = tx.head \/ ~link.connected
       THEN To(f, "sent")
       ELSE Go(f, [task[f] EXCEPT !.pc = "copy", !.local = tx.tail])
    /\ UNCHANGED <<scenario, rx, tx, link, number, line, asleep>>

SendCopy(f) ==
    /\ At(f, "copy")
    /\ LET next == task[f].local IN
       IF Len(tx.value) < AttrSize /\ next # tx.head
       THEN /\ tx' = [tx EXCEPT !.value = Append(@, tx.ring[next])]
            /\ Go(f, [task[f] EXCEPT !.local = TxUp(next)])
       ELSE Go(f, [task[f] EXCEPT !.pc = "indicate", !.local = 0]) /\ UNCHANGED tx
    /\ UNCHANGED <<scenario, rx, link, number, line, asleep>>

(* The result of indicateChrValue() is ignored. *)
SendIndicate(f) ==
    /\ At(f, "indicate")
    /\ link' = IF link.connected THEN [link EXCEPT !.flight = tx.value] ELSE link
    /\ To(f, "sent")
    /\ UNCHANGED <<scenario, rx, tx, number, line, asleep>>

SendSent(f) ==
    /\ At(f, "sent")
    /\ IF task[f].mode = "SYNC_SLEEP"
       THEN task' = [task EXCEPT ![f].pc = "emptied"] /\ running' = NoFiber
       ELSE Go(f, Idle)
    /\ UNCHANGED <<scenario, rx, tx, link, number, line, asleep>>

SendWoken(f) ==
    /\ At(f, "emptied") /\ f \notin asleep["TX_EMPTY"]
    /\ tx' = [tx EXCEPT !.waiting = FALSE]
    /\ IF task[f].left = 0 /\ tx.tail = tx.head THEN Go(f, Idle) ELSE To(f, "send")
    /\ UNCHANGED <<scenario, rx, link, number, line, asleep>>
-----------------------------------------------------------------------------
Entry(call, mode) ==
    CASE call = "getc"      -> "get"
      [] call = "read"      -> IF mode = "ASYNC" THEN "get" ELSE "size"
      [] call = "readUntil" -> "scan"
      [] call = "send"      -> "send"

Call(f) ==
    /\ f \in scenario.fibers /\ task[f] = Idle /\ running = NoFiber
    /\ \E c \in scenario.calls, len \in 1 .. MaxLen :
         /\ c[1] \in {"getc", "readUntil"} => len = 1
         /\ Go(f, [Idle EXCEPT !.pc = Entry(c[1], c[2]), !.mode = c[2], !.left = len])
    /\ line' = NoLine
    /\ UNCHANGED <<scenario, rx, tx, link, number, asleep>>

Work(f) ==
    \/ Get(f) \/ TakeWoken(f) \/ ReadSize(f) \/ ReadNeed(f) \/ EventAfter(f) \/ AwaitHead(f) \/ ReadWoken(f)
    \/ Scan(f) \/ EventOn(f) \/ AwaitDelimiter(f) \/ Heard(f)
    \/ SendLoop(f) \/ SendFill(f) \/ SendStore(f) \/ SendRegister(f) \/ SendNext(f) \/ SendCopy(f)
    \/ SendIndicate(f) \/ SendSent(f) \/ SendWoken(f)

(* The constructor leaves rxBuffHeadMatch as it finds it. *)
Init ==
    /\ scenario \in Scenarios
    /\ \E match \in {-1, 0} :
         rx = [head |-> 0, tail |-> 0, match |-> match, listening |-> FALSE,
               ring |-> [i \in 0 .. RxSize - 1 |-> [number |-> 0, delimiter |-> FALSE]]]
    /\ tx = [head |-> 0, tail |-> 0, ring |-> [i \in 0 .. TxSize - 1 |-> 0], value |-> <<>>, waiting |-> FALSE]
    /\ link = [connected |-> FALSE, flight |-> <<>>]
    /\ number = [accepted |-> 0, read |-> 0, given |-> 0, confirmed |-> 0]
    /\ line = NoLine
    /\ task = [f \in Fibers |-> Idle]
    /\ asleep = [e \in Events |-> {}]
    /\ running = NoFiber

Next == (\E f \in Fibers : Call(f) \/ Work(f)) \/ Interrupt

Spec == Init /\ [][Next]_vars
-----------------------------------------------------------------------------
(* Heads and tails index their rings, the attribute never overflows. *)
TypeOK ==
    /\ rx.head \in 0 .. RxSize - 1 /\ rx.tail \in 0 .. RxSize - 1 /\ rx.match \in -1 .. RxSize - 1
    /\ tx.head \in 0 .. TxSize - 1 /\ tx.tail \in 0 .. TxSize - 1
    /\ Len(tx.value) <= AttrSize /\ Len(link.flight) <= AttrSize
    /\ \A f \in Fibers : task[f].left \in 0 .. MaxLen

EndsAtDelimiter(t) == t # <<>> => \A i \in 1 .. Len(t) : t[i].delimiter <=> i = Len(t)

(* The receive ring holds exactly the bytes that were accepted and not read,  *)
(* in order: no wake-up makes a reader take a byte that is not there.  And a  *)
(* readUntil() that does not wait returns them up to the first delimiter.     *)
RxExact ==
    /\ Cardinality(scenario.fibers) = 1 =>
         /\ number.accepted = Up(number.read, RxCount)
         /\ \A i \in 0 .. RxCount - 1 : rx.ring[(rx.tail + i) % RxSize].number = Up(number.read, i)
    /\ line.mode = "ASYNC" => EndsAtDelimiter(line.text)

(* As long as the link holds, the transmit ring holds exactly the bytes that  *)
(* were given to send() and not confirmed, and the indication in flight is    *)
(* the first of them: whatever the interleaving of callback and fibers, the   *)
(* central gets every byte once and in order.                                 *)
TxExact ==
    ~scenario.drops =>
      /\ number.given = Up(number.confirmed, TxCount)
      /\ \A i \in 0 .. TxCount - 1 : tx.ring[(tx.tail + i) % TxSize] = Up(number.confirmed, i)
      /\ \A i \in 1 .. Len(link.flight) : link.flight[i] = Up(number.confirmed, i - 1)
      /\ link.flight # <<>> => link.flight = tx.value /\ Len(tx.value) <= TxCount

(* The central confirms, and the scheduler runs a fiber that can run. *)
FairSpec ==
    /\ Spec
    /\ WF_vars(OnConfirmation)
    /\ \A f \in Fibers : SF_vars(Work(f))

(* A byte in the transmit ring does not wait for the next call of send(): it  *)
(* is sent, although the callback leaves that to a fiber while one waits.     *)
TxDrains ==
    tx.head # tx.tail /\ link.flight = <<>> /\ link.connected /\ ~scenario.drops
    ~> link.flight # <<>>

(* A send() that waits returns once the central has all the bytes. *)
SendReturns ==
    \A f \in Fibers :
        task[f].pc = "emptied" /\ ~scenario.drops ~> task[f].pc # "emptied" \/ tx.head # tx.tail
=============================================================================
