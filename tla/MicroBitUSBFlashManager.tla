---------------------- MODULE MicroBitUSBFlashManager ----------------------
(***************************************************************************)
(* MicroBitUSBFlashManager: flash storage and drive configuration behind   *)
(* the USB interface chip, reached by transactions over I2C that are       *)
(* retried, given up, and whose results some callers ignore.  One fiber at *)
(* a time calls it (MicroBitLog holds its lock); the idle fiber and fibers *)
(* that read power properties run whenever it sleeps.                      *)
(*                                                                         *)
(* The chip is external: it holds one request, which a new one replaces,   *)
(* and one answer, which a new request clears.                             *)
(***************************************************************************)
EXTENDS MicroBitUIPM, Sequences

CONSTANTS
    BlockSize,      \* words of a block of the chip's flash
    BlockCount,     \* blocks
    MaxWrite,       \* KL27_FLASH_MAX_WRITE_LENGTH, in words
    MaxRetries,     \* MICROBIT_USB_FLASH_MAX_RETRIES
    Data,           \* what a program writes
    MaxCalls,       \* bound on the calls of a behaviour
    Scenarios       \* subset of {"storage", "settings", "events", "properties"}

ASSUME FlashAssumption ==
    /\ BlockSize \in Nat \ {0} /\ BlockCount \in Nat \ {0}
    /\ MaxWrite \in Nat \ {0} /\ MaxRetries \in Nat \ {0}

VARIABLES
    scenario,
    mem,            \* the chip's flash: a value for each word
    setup,          \* the chip's drive configuration
    request,        \* the request the chip is to work on, or Nothing
    answer,         \* the answer it has ready, or Nothing
    geometry,       \* the manager's copy of the geometry
    loaded,         \* which of "geometry", "config" is flagged LOADED
    config,         \* the manager's copy of the configuration
    call,           \* the call being served, or Nothing
    phase,          \* where it is
    queue,          \* the requests of this phase that are still to be made
    valid,          \* getGeometry()'s local flag
    saved,          \* erase(): restoreBuffer1 (head) and restoreBuffer2 (tail)
    pc,             \* transact(): "idle", "send" or "poll"
    asleep,         \* the fiber has given up the CPU
    attempts,       \* transact()'s count
    result,         \* of the last call that ended
    calls,          \* calls made so far
    before,         \* history: mem as the call found it
    everLost,       \* history: some transaction of a call was given up
    lost            \* history: "given_up" when a transaction of the call was,
                    \* "late" when the chip still had a request of an earlier call

chipVars == <<mem, setup, request, answer>>
cacheVars == <<geometry, loaded, config>>
flashVars == <<scenario, mem, setup, request, answer, geometry, loaded, config, call,
               phase, queue, valid, saved, pc, asleep, attempts, result, calls, before, everLost, lost>>
vars == <<flashVars, uipmVars>>

Nothing == [cmd |-> "nothing"]
Size == BlockSize * BlockCount
Words == 0 .. Size - 1
Blank == "blank"
Old == "old"
Mixed == "mixed"
Items == {"name", "size", "visible"}
True == [blockSize |-> BlockSize, blockCount |-> BlockCount]

-----------------------------------------------------------------------------
(* The interface chip.                                                     *)

(* Programming clears bits: only a blank word takes the new value.         *)
Programmed(old, new) == IF old = Blank \/ old = new THEN new ELSE Mixed

(* The chip works on its request and raises the line.                      *)
ChipWork ==
    /\ request # Nothing
    /\ answer' = [cmd |-> request.cmd,
                  words |-> IF request.cmd = "read"
                              THEN [i \in 1 .. request.len |-> mem[request.at + i - 1]]
                              ELSE IF request.cmd \in Items THEN <<setup[request.cmd]>>
                              ELSE <<>>]
    /\ request' = Nothing
    /\ mem' = CASE request.cmd = "write" ->
                     [w \in Words |-> IF w - request.at \in 0 .. Len(request.words) - 1
                                        THEN Programmed(mem[w], request.words[w - request.at + 1])
                                        ELSE mem[w]]
                [] request.cmd = "erase" ->
                     [w \in Words |-> IF w \div BlockSize = request.at \div BlockSize
                                        THEN Blank ELSE mem[w]]
                [] OTHER -> mem
    /\ setup' = IF request.cmd \in Items /\ request.words # <<>>
                  THEN [setup EXCEPT ![request.cmd] = request.words[1]] ELSE setup
    /\ UNCHANGED <<scenario, cacheVars, call, phase, queue, valid, saved, pc, asleep, attempts,
                   result, calls, before, everLost, lost, uipmVars>>

(* The interrupt line is shared: an answer, a user event or a sensor holds *)
(* it low.                                                                 *)
LineMayBeHigh == answer = Nothing /\ frame = "none"

-----------------------------------------------------------------------------
(* The requests of a call.                                                 *)

Ask(cmd) == [cmd |-> cmd, at |-> 0, len |-> 0, words |-> <<>>]
Read(at, len) == [cmd |-> "read", at |-> at, len |-> len, words |-> <<>>]
Erase(at) == [cmd |-> "erase", at |-> at, len |-> 0, words |-> <<>>]
Set(item, v) == [cmd |-> item, at |-> 0, len |-> 0, words |-> <<v>>]

(* write(): the data in segments of at most KL27_FLASH_MAX_WRITE_LENGTH.   *)
Segments(at, words) ==
    [i \in 1 .. (Len(words) + MaxWrite - 1) \div MaxWrite |->
       LET first == (i - 1) * MaxWrite
           last == IF first + MaxWrite < Len(words) THEN first + MaxWrite ELSE Len(words)
       IN  [cmd |-> "write", at |-> at + first, len |-> 0,
            words |-> SubSeq(words, first + 1, last)]]

(* getGeometry(): two queries, unless they have both been answered before. *)
GetGeometry ==
    IF "geometry" \in loaded THEN <<>> ELSE <<Ask("sector"), Ask("disk")>>

(* getConfiguration(): three queries, unless made before.                  *)
GetConfiguration ==
    IF "config" \in loaded THEN <<>> ELSE <<Ask("name"), Ask("size"), Ask("visible")>>

(* setConfiguration(): the three values, and a request to keep them.       *)
SetConfiguration(c) ==
    <<Set("name", c.value), Set("size", c.value), Set("visible", c.value)>>
    \o (IF c.persist THEN <<Ask("write_config")>> ELSE <<>>)

(* The size of the file must lie inside the drive, whose size is zero until*)
(* it is known, and its name must be an 8.3 name.                          *)
Valid(c, g) == g.blockSize * g.blockCount > 0 /\ c.fits

(* erase() takes blocks: eraseStart and eraseEnd are the first and the last*)
(* of them, and what the range leaves of either is read first.             *)
EraseStart(c, g) == (c.at \div g.blockSize) * g.blockSize
EraseEnd(c, g) ==
    ((c.at + c.len) \div g.blockSize) * g.blockSize
      - (IF (c.at + c.len) % g.blockSize = 0 THEN g.blockSize ELSE 0)
EraseFits(c, g) == c.at + c.len <= g.blockSize * g.blockCount
\* Faulty: what follows the range in its last block is not saved.
SaveReadsHead(c, g) ==
    LET head == c.at - EraseStart(c, g)
    IN  IF head > 0 THEN <<Read(EraseStart(c, g), head)>> ELSE <<>>
SaveReads(c, g) ==
    LET head == c.at - EraseStart(c, g)
        tail == (g.blockSize - ((c.at + c.len) % g.blockSize)) % g.blockSize
    IN  (IF head > 0 THEN <<Read(EraseStart(c, g), head)>> ELSE <<>>)
        \o (IF tail > 0 THEN <<Read(c.at + c.len, tail)>> ELSE <<>>)
Erases(c, g) ==
    [i \in 1 .. (EraseEnd(c, g) - EraseStart(c, g)) \div g.blockSize + 1 |->
       Erase(EraseStart(c, g) + (i - 1) * g.blockSize)]

(* What was saved is written back; what could not be read is not.          *)
NothingSaved == [head |-> <<>>, tail |-> <<>>]
RestoreTail(c, kept) ==
    IF kept.tail = <<>>
      THEN [phase |-> "end", queue |-> <<>>, result |-> "ok"]
      ELSE [phase |-> "restore_tail", queue |-> Segments(c.at + c.len, kept.tail), result |-> "ok"]
RestoreHead(c, g, kept) ==
    IF kept.head = <<>>
      THEN RestoreTail(c, kept)
      ELSE [phase |-> "restore_head", queue |-> Segments(EraseStart(c, g), kept.head),
            result |-> "ok"]

(* The first requests of each call.                                        *)
Opening(c) ==
    CASE c.op = "read" -> [phase |-> "read", queue |-> <<Read(c.at, c.len)>>]
      [] c.op = "write" ->
           [phase |-> "write", queue |-> Segments(c.at, [i \in 1 .. c.len |-> c.value])]
      [] c.op = "getConfiguration" -> [phase |-> "query", queue |-> GetConfiguration]
      [] c.op \in {"remount", "eraseConfig"} -> [phase |-> "command", queue |-> <<Ask(c.op)>>]
      [] OTHER -> [phase |-> "geometry", queue |-> GetGeometry]

(* What follows a phase whose requests have all been served.               *)
AfterGeometry(c, g) ==
    CASE c.op = "setConfiguration" ->
           IF Valid(c, g) THEN [phase |-> "set", queue |-> SetConfiguration(c), result |-> "ok"]
                          ELSE [phase |-> "end", queue |-> <<>>, result |-> "invalid"]
      [] c.op = "erase" ->
           IF ~EraseFits(c, g)
             THEN [phase |-> "end", queue |-> <<>>, result |-> "invalid"]
             ELSE IF SaveReads(c, g) # <<>>
             THEN [phase |-> "save", queue |-> SaveReads(c, g), result |-> "ok"]
             ELSE [phase |-> "erase", queue |-> Erases(c, g), result |-> "ok"]
      [] OTHER -> [phase |-> "end", queue |-> <<>>, result |-> "ok"]

Following(c, ph, g, kept) ==
    CASE ph = "geometry" -> AfterGeometry(c, g)
      [] ph = "save" -> [phase |-> "erase", queue |-> Erases(c, g), result |-> "ok"]
      [] ph = "erase" -> RestoreHead(c, g, kept)
      [] ph = "restore_head" -> RestoreTail(c, kept)
      [] OTHER -> [phase |-> "end", queue |-> <<>>, result |-> "ok"]

(* The state of a call after a request has been served: more of the same   *)
(* phase, or the next one.                                                 *)
Settled(c, ph, q, g, kept) ==
    IF q # <<>> THEN [phase |-> ph, queue |-> q, result |-> "ok"] ELSE Following(c, ph, g, kept)

Ended(next) == next.phase = "end"

(* The calls of the API each scenario makes.                               *)
Call(op, at, len, v) ==
    [op |-> op, at |-> at, len |-> len, value |-> v, persist |-> FALSE, fits |-> TRUE]
Simple(op) == Call(op, 0, 0, "none")
Ranges == {r \in Words \X (1 .. Size) : r[1] + r[2] <= Size}
StorageCalls ==
    {Call(op, r[1], r[2], d) : op \in {"write", "erase"}, r \in Ranges, d \in Data}
    \cup {Call("read", r[1], r[2], "none") : r \in Ranges}
    \cup {Call("erase", Size - 1, 2, "none")}
SetCall(d, persist, fits) ==
    [Simple("setConfiguration") EXCEPT !.value = d, !.persist = persist, !.fits = fits]
SettingsCalls ==
    {SetCall(d, persist, fits) : d \in Data, persist \in BOOLEAN, fits \in BOOLEAN}
    \cup {Simple(op) : op \in {"getConfiguration", "getGeometry", "remount", "eraseConfig"}}
EventsCalls == {Simple("getGeometry"), Call("erase", 0, BlockSize, "none")}
Calls ==
    CASE scenario = "storage" -> StorageCalls
      [] scenario = "settings" -> SettingsCalls
      [] scenario = "events" -> EventsCalls
      [] OTHER -> {Simple("getGeometry")}

-----------------------------------------------------------------------------
Init ==
    /\ UIPMInit
    /\ scenario \in Scenarios
    /\ mem = [w \in Words |-> Old]
    /\ setup = [i \in Items |-> Old]
    /\ request = Nothing
    /\ answer = Nothing
    /\ geometry = [blockSize |-> 0, blockCount |-> 0]
    /\ loaded = {}
    /\ config = [i \in Items |-> "unset"]
    /\ call = Nothing
    /\ phase = "end"
    /\ queue = <<>>
    /\ valid = TRUE
    /\ saved = NothingSaved
    /\ pc = "idle"
    /\ asleep = TRUE
    /\ attempts = 0
    /\ result = "ok"
    /\ calls = 0
    /\ before = mem
    /\ everLost = FALSE
    /\ lost = "no"

(* The call goes on to its next transaction, or returns.                   *)
Continue(next) ==
    /\ phase' = next.phase
    /\ queue' = next.queue
    /\ attempts' = 0
    /\ pc' = IF Ended(next) THEN "idle" ELSE "send"
    /\ asleep' = Ended(next)
    /\ result' = next.result

(* A program calls the manager.                                            *)
Begin ==
    /\ power = "on"
    /\ pc = "idle"
    /\ calls < MaxCalls
    /\ calls' = calls + 1
    /\ before' = mem
    /\ lost' = IF request # Nothing THEN "late" ELSE "no"
    /\ valid' = TRUE
    /\ saved' = NothingSaved
    /\ \E c \in Calls :
          LET opening == Opening(c)
          IN  /\ call' = c
              /\ Continue(Settled(c, opening.phase, opening.queue, geometry, NothingSaved))
    /\ UNCHANGED <<scenario, chipVars, cacheVars, everLost, uipmVars>>

(* getGeometry()'s `valid`: both of its queries were answered.             *)
\* Faulty: only the last query counts.
StillValidLast(r, ok) == ok
StillValid(r, ok) == IF r.cmd = "sector" THEN ok ELSE valid /\ ok

(* What the caller of transact() does with the answer `words`, or with the *)
(* empty buffer of a transaction that was given up (~ok).                  *)
Served(ok, words) ==
    LET r == Head(queue)
        good == StillValid(r, ok)
        g == IF ~ok THEN geometry
             ELSE IF r.cmd = "sector" THEN [geometry EXCEPT !.blockSize = BlockSize]
             ELSE IF r.cmd = "disk" THEN [geometry EXCEPT !.blockCount = BlockCount]
             ELSE geometry
        kept == IF phase = "save" /\ ok
                  THEN [saved EXCEPT ![IF r.at = call.at + call.len THEN "tail" ELSE "head"] = words]
                  ELSE saved
        rest == IF ok \/ phase \notin {"restore_head", "restore_tail"} THEN Tail(queue) ELSE <<>>
        next == IF ~ok /\ phase = "read"
                  THEN [phase |-> "end", queue |-> <<>>, result |-> "no_data"]
                ELSE IF ~ok /\ phase \in {"write", "erase"}
                  THEN [phase |-> "end", queue |-> <<>>, result |-> "i2c_error"]
                ELSE Settled(call, phase, rest, g, kept)
    IN  /\ Continue(next)
        /\ geometry' = g
        /\ valid' = good
        /\ saved' = kept
        /\ everLost' = (everLost \/ ~ok)
        /\ lost' = IF ~ok /\ lost = "no" THEN "given_up" ELSE lost
        /\ loaded' = loaded
             \cup (IF r.cmd = "disk" /\ good THEN {"geometry"} ELSE {})
             \cup (IF phase = "query" /\ Ended(next) THEN {"config"} ELSE {})
        /\ config' = IF phase = "query"
                       THEN [config EXCEPT ![r.cmd] = IF ok THEN words[1]
                                                      ELSE IF r.cmd = "name" THEN @ ELSE "junk"]
                     ELSE IF call.op = "setConfiguration" /\ Ended(next) /\ next.result = "ok"
                       THEN [i \in Items |-> call.value]
                     ELSE config
        /\ UNCHANGED <<scenario, call, calls, before>>

(* transact() gives up: the flag is cleared and the buffer is empty.       *)
\* Faulty: the flag stays set.
GiveUpAwaiting ==
    /\ UNCHANGED awaiting
    /\ Served(FALSE, <<>>)
GiveUp ==
    /\ AwaitingPacket(FALSE)
    /\ Served(FALSE, <<>>)

NextAttempt == attempts + 1
LastAttempt == NextAttempt >= MaxRetries

(* fiber_sleep(1) and one more attempt, if there is one left.              *)
Retry(to) ==
    /\ ~LastAttempt
    /\ attempts' = NextAttempt
    /\ pc' = to
    /\ asleep' = TRUE
    /\ UNCHANGED <<scenario, cacheVars, call, phase, queue, valid, saved, result, calls,
                   before, everLost, lost>>

UIPMRest == <<frame, activeCount, known, power, raised, reads>>

(* transact(): the request is written, or the bus fails.                   *)
Send ==
    /\ power = "on" /\ pc = "send"
    /\ UNCHANGED <<mem, setup, UIPMRest>>
    /\ \/ /\ request' = Head(queue)
          /\ answer' = Nothing
          /\ AwaitingPacket(TRUE)
          /\ pc' = "poll"
          /\ asleep' = FALSE
          /\ UNCHANGED <<scenario, cacheVars, call, phase, queue, valid, saved, attempts,
                         result, calls, before, everLost, lost>>
       \/ /\ UNCHANGED <<request, answer>>
          /\ \/ Retry("send") /\ UNCHANGED awaiting
             \/ LastAttempt /\ GiveUp

(* transact(): the line is not active; the answer is asked for later.      *)
PollIdle ==
    /\ power = "on" /\ pc = "poll"
    /\ LineMayBeHigh
    /\ UNCHANGED <<chipVars, UIPMRest>>
    /\ \/ Retry("poll") /\ UNCHANGED awaiting
       \/ LastAttempt /\ GiveUp

(* transact(): the answer is read, and is the one to this request.         *)
PollAnswer ==
    /\ power = "on" /\ pc = "poll"
    /\ answer # Nothing
    /\ answer.cmd = Head(queue).cmd
    /\ answer' = Nothing
    /\ AwaitingPacket(FALSE)
    /\ Served(TRUE, answer.words)
    /\ UNCHANGED <<mem, setup, request, UIPMRest>>

(* transact(): the read fails, with or without taking the answer, or the   *)
(* line was held by another and the chip has nothing: the request is sent  *)
(* again.                                                                  *)
PollFailed ==
    /\ power = "on" /\ pc = "poll"
    /\ answer' \in {answer, Nothing}
    /\ UNCHANGED <<mem, setup, request, UIPMRest>>
    /\ \/ Retry("send") /\ UNCHANGED awaiting
       \/ LastAttempt /\ GiveUp

(* Fibers that read power properties, and the idle fiber, run while this   *)
(* one sleeps.                                                             *)
Others ==
    /\ power = "on"
    /\ asleep
    /\ UNCHANGED flashVars
    /\ \/ scenario = "properties" /\ (GetPowerSource \/ GetVersion)
       \/ /\ scenario \in {"events", "properties"}
          /\ \E line \in BOOLEAN :
                /\ line \/ LineMayBeHigh
                /\ IdleCallback(line)

Event ==
    /\ power = "on"
    /\ scenario \in {"events", "properties"}
    /\ RaiseEvent
    /\ UNCHANGED flashVars

Transact == Send \/ PollIdle \/ PollAnswer \/ PollFailed
Next == Begin \/ Transact \/ ChipWork \/ Others \/ Event

(* The fiber runs when it can, the chip works, and idleCallback() is called*)
(* again and again while reads of its frame do not fail for ever.          *)
ReadsFrame == Others /\ frame # "none" /\ frame' = "none"
Spec == /\ Init /\ [][Next]_vars
        /\ WF_vars(Transact) /\ WF_vars(ChipWork)
        /\ WF_vars(Others) /\ SF_vars(ReadsFrame)

-----------------------------------------------------------------------------
Target(c) == IF c.op \in {"write", "erase"} THEN c.at .. c.at + c.len - 1 ELSE {}
Block(w) == w \div BlockSize

(* A call that returned OK has done what it says, whatever was retried or  *)
(* sent twice: write() programmed every word, erase() blanked every word.  *)
(* Words outside the range are unchanged when no transaction was given up, *)
(* the restored ones of a partial erase too (MicroBitUSBFlashManager.cpp   *)
(* lines 423-480), and words of other blocks are unchanged whatever fails. *)
FlashExact ==
    pc = "idle" /\ call # Nothing /\ lost # "late" =>
        /\ call.op = "write" /\ result = "ok" =>
               \A w \in Target(call) : mem[w] = Programmed(before[w], call.value)
        /\ call.op = "erase" /\ result = "ok" => \A w \in Target(call) : mem[w] = Blank
        /\ lost = "no" => \A w \in Words \ Target(call) : mem[w] = before[w]
        /\ \A w \in Words : Block(w) \notin {Block(r) : r \in Target(call)} => mem[w] = before[w]

(* What is flagged LOADED is what the chip has: the geometry always,       *)
(* whatever failed on the way (lines 206-208); the configuration as long as*)
(* no transaction has been given up, since getConfiguration() sets its flag*)
(* and setConfiguration() its copy whatever transact() returned.           *)
CachesTrue ==
    /\ "geometry" \in loaded => geometry = True
    /\ pc = "idle" /\ "config" \in loaded /\ everLost = FALSE => config = setup

(* A long press of the reset button turns the board off even if it comes   *)
(* during a transaction, and whatever becomes of that: awaitingPacket() is *)
(* cleared on every way out of transact() (MicroBitPowerManager.cpp line   *)
(* 306 defers to it).  Without readers of properties, which may take the   *)
(* frame for their answer.                                                 *)
LongPressServed == scenario = "events" /\ frame = "long_press" ~> power = "off"
=============================================================================
