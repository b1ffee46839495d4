------------------------------ MODULE FSCache ------------------------------
(***************************************************************************)
(* FSCache: the write-through RAM cache that MicroBitLog puts in front of  *)
(* the flash storage of the USB interface chip.                            *)
(*                                                                         *)
(* read() and write() loop over the blocks their byte range touches; each  *)
(* iteration calls cachePage(), which returns the block's entry or evicts  *)
(* one and loads the block.  Every flash operation is an I2C transaction   *)
(* that may put the calling fiber to sleep, so a load is two steps: the    *)
(* entry already carries its new address while its page is still the old   *)
(* one.  write() first validates the whole range against the cached bytes  *)
(* (CODAL_FS_CACHE_VALIDATE) and only then updates cache and flash.        *)
(***************************************************************************)
EXTENDS Integers, FiniteSets, Sequences

CONSTANTS Fibers,      \* callers of the cache
          NumBlocks,   \* blocks of the storage
          BlockSize,   \* bytes of a block
          WordSize,    \* bytes of a flash word
          PageBlocks,  \* blocks of a flash page, the unit of an erase
          Bit,         \* the bits of a byte
          CacheSize,   \* entries of the cache
          CountMod,    \* range of operationCount (2^16 in the code)
          MaxLen,      \* bound: longest read or write
          MaxCount,    \* bound: calls start only while operationCount is at most this
          Serialised,  \* TRUE when the callers hold a lock across each call
          FlashFails   \* TRUE when a flash transaction may fail after its retries

ASSUME SizesAssumption ==
    /\ NumBlocks \in Nat \ {0}
    /\ BlockSize \in Nat \ {0}
    /\ WordSize \in Nat \ {0}
    /\ PageBlocks \in Nat \ {0}
    /\ CacheSize \in Nat \ {0}
    /\ CountMod \in Nat \ {0}
    /\ MaxLen \in Nat /\ MaxCount \in Nat
    /\ Serialised \in BOOLEAN /\ FlashFails \in BOOLEAN

VARIABLES flash,           \* contents of the storage
          cache,           \* the cache entries
          operationCount,  \* the LRU clock, a uint16_t
          op,              \* per fiber, the read or write in progress
          reply            \* per fiber, the bytes its last read step returned

vars == <<flash, cache, operationCount, op, reply>>

Block   == 0 .. NumBlocks - 1
Cell    == 0 .. BlockSize - 1
Slot    == 1 .. CacheSize
Byte    == SUBSET Bit
Page    == [Cell -> Byte]
Erased  == [c \in Cell |-> Bit]
Count   == 0 .. CountMod - 1

(* An entry whose page pointer is NULL has loaded = FALSE. *)
Entry   == [address : Block, lastUsed : Count, pinned : BOOLEAN, loaded : BOOLEAN, page : Page]
Empty   == [address |-> 0, lastUsed |-> 0, pinned |-> FALSE, loaded |-> FALSE, page |-> Erased]

Data    == [Block -> Page]
Op      == [phase : {"idle", "read", "check", "write", "pin"}, cells : [Block -> SUBSET Cell],
            data : Data, todo : SUBSET Block, slot : 0 .. CacheSize]
Idle    == [phase |-> "idle", cells |-> [b \in Block |-> {}], data |-> [b \in Block |-> Erased],
            todo |-> {}, slot |-> 0]
NoReply == [block |-> {}, bytes |-> <<>>]

(* The offsets that the byte range address .. address + len - 1 has in each block. *)
Span(address, len) ==
    [b \in Block |-> {c \in Cell : b * BlockSize + c \in address .. address + len - 1}]

(* Faulty: only the words that lie wholly inside the range. *)
AlignedDown(C) == {c \in Cell : \A d \in Cell : d \div WordSize = c \div WordSize => d \in C}

(* The whole words that a set of offsets touches: flash is written in words. *)
Aligned(C) == {c \in Cell : \E d \in C : c \div WordSize = d \div WordSize}

PageOf(b) == {d \in Block : d \div PageBlocks = b \div PageBlocks}

Tick(n) == (operationCount + n) % CountMod
-----------------------------------------------------------------------------
(* getCacheEntry(): the slots that hold block b. *)
Holding(b) == {i \in Slot : cache[i].loaded /\ cache[i].address = b}

First(S) == CHOOSE i \in S : \A j \in S : i <= j

(* The entry cachePage() replaces: the first that has no page yet, otherwise  *)
(* the one with the smallest lastUsed among cache[0] and the unpinned entries. *)
(* operationCount - lastUsed is computed in int, so that comparing it compares *)
(* lastUsed alone.                                                             *)
Victim ==
    LET free == {i \in Slot : ~cache[i].loaded}
        cand == {1} \cup {i \in Slot : ~cache[i].pinned}
    IN  IF free # {} THEN First(free)
        ELSE First({i \in cand : \A j \in cand : cache[i].lastUsed <= cache[j].lastUsed})

NextBlock(f) == First(op[f].todo)
Touched(f)   == {b \in Block : op[f].cells[b] # {}}

(* The next block, or the next pass of a write: the checking loop is followed *)
(* by the writing loop over the same range.                                   *)
Advance(f) ==
    LET rest == op[f].todo \ {NextBlock(f)} IN
     IF rest # {} THEN [op[f] EXCEPT !.todo = rest, !.slot = 0]
        ELSE IF op[f].phase = "check" THEN [op[f] EXCEPT !.phase = "write", !.todo = Touched(f), !.slot = 0]
        ELSE Idle

(* Faulty: the copy starts at the beginning of the page for every offset. *)
ReadOutUnshifted(f, i, c) ==
    LET b == NextBlock(f) IN
    /\ op[f].phase = "read"
    /\ reply' = [reply EXCEPT ![f] = [block |-> {b}, bytes |-> [x \in op[f].cells[b] |-> c[i].page[0]]]]
    /\ cache' = c
    /\ op' = [op EXCEPT ![f] = Advance(f)]
    /\ UNCHANGED flash

(* What an iteration of the current loop does with slot i of the cache c,    *)
(* which cachePage() returned for its block: copy the bytes out, validate    *)
(* them, update them and write the touched words through, or set the pin.    *)
ReadOut(f, i, c) ==
    LET b == NextBlock(f) IN
    /\ op[f].phase = "read"
    /\ reply' = [reply EXCEPT ![f] =
                   [block |-> {b}, bytes |-> [x \in op[f].cells[b] |-> c[i].page[x]]]]
    /\ cache' = c
    /\ op' = [op EXCEPT ![f] = Advance(f)]
    /\ UNCHANGED flash

Check(f, i, c) ==
    LET b == NextBlock(f) IN
    /\ op[f].phase = "check"
    /\ cache' = c
    /\ op' = [op EXCEPT ![f] =
                IF \A x \in op[f].cells[b] : op[f].data[b][x] \subseteq c[i].page[x]
                THEN Advance(f) ELSE Idle]
    /\ UNCHANGED <<flash, reply>>

WriteThrough(f, i, c) ==
    LET b  == NextBlock(f)
        pg == [x \in Cell |-> IF x \in op[f].cells[b] THEN op[f].data[b][x] ELSE c[i].page[x]]
    IN
    /\ op[f].phase = "write"
    /\ cache' = [c EXCEPT ![i].page = pg]
    /\ \/ flash' = [flash EXCEPT ![b] =
                      [x \in Cell |-> IF x \in Aligned(op[f].cells[b]) THEN @[x] \cap pg[x] ELSE @[x]]]
       \/ FlashFails /\ UNCHANGED flash
    /\ op' = [op EXCEPT ![f] = Advance(f)]
    /\ UNCHANGED reply

SetPin(f, i, c) ==
    /\ op[f].phase = "pin"
    /\ cache' = [c EXCEPT ![i].pinned = TRUE]
    /\ op' = [op EXCEPT ![f] = Idle]
    /\ UNCHANGED <<flash, reply>>

Body(f, i, c) == ReadOut(f, i, c) \/ Check(f, i, c) \/ WriteThrough(f, i, c) \/ SetPin(f, i, c)
-----------------------------------------------------------------------------
Quiet == \A f \in Fibers : op[f] = Idle

(* A caller may start: at all, and under the bound on the LRU clock. *)
MayStart(f) ==
    /\ op[f] = Idle
    /\ Serialised => Quiet
    /\ operationCount <= MaxCount

(* read() and write() refuse a range that reaches the end of the storage. *)
InRange(address, len) == address + len < NumBlocks * BlockSize

Start(f, phase, address, len, data) ==
    /\ MayStart(f)
    /\ InRange(address, len)
    /\ LET span == Span(address, len) IN
       op' = [op EXCEPT ![f] = [phase |-> phase, cells |-> span, data |-> data,
                                todo |-> {b \in Block : span[b] # {}}, slot |-> 0]]
    /\ reply' = [reply EXCEPT ![f] = NoReply]
    /\ UNCHANGED <<flash, cache, operationCount>>

StartRead(f) ==
    \E address \in 0 .. NumBlocks * BlockSize, len \in 1 .. MaxLen :
        Start(f, "read", address, len, Idle.data)

(* The caller's data, as the bytes it wants in the range it gave. *)
StartWrite(f) ==
    \E address \in 0 .. NumBlocks * BlockSize, len \in 1 .. MaxLen :
      \E bytes \in [0 .. len - 1 -> Byte] :
        Start(f, "check", address, len,
              [b \in Block |-> [c \in Cell |->
                 IF c \in Span(address, len)[b] THEN bytes[b * BlockSize + c - address] ELSE Bit]])

StartPin(f) ==
    \E b \in Block :
      /\ MayStart(f)
      /\ op' = [op EXCEPT ![f] = [Idle EXCEPT !.phase = "pin", !.todo = {b}]]
      /\ UNCHANGED <<flash, cache, operationCount, reply>>

(* cachePage() finds the block in the cache. *)
Hit(f) ==
    /\ op[f].todo # {} /\ op[f].slot = 0
    /\ Holding(NextBlock(f)) # {}
    /\ LET i == First(Holding(NextBlock(f))) IN
       /\ operationCount' = Tick(1)
       /\ Body(f, i, [cache EXCEPT ![i].lastUsed = Tick(1)])

(* Faulty: takes an entry over without looking the block up. *)
MissAlways(f) ==
    /\ op[f].todo # {} /\ op[f].slot = 0
    /\ LET i == Victim IN
       /\ cache' = [cache EXCEPT ![i] = [address |-> NextBlock(f), lastUsed |-> Tick(1), pinned |-> FALSE,
                                         loaded |-> TRUE, page |-> @.page]]
       /\ op' = [op EXCEPT ![f].slot = i]
    /\ operationCount' = Tick(1)
    /\ UNCHANGED <<flash, reply>>

(* cachePage() takes an entry over and asks the flash for the block.  A page  *)
(* that was just allocated holds anything.                                    *)
Miss(f) ==
    /\ op[f].todo # {} /\ op[f].slot = 0
    /\ Holding(NextBlock(f)) = {}
    /\ LET i == Victim IN
       /\ \E junk \in Page :
            cache' = [cache EXCEPT ![i] =
                        [address |-> NextBlock(f), lastUsed |-> Tick(1), pinned |-> FALSE, loaded |-> TRUE,
                         page |-> IF @.loaded THEN @.page ELSE junk]]
       /\ op' = [op EXCEPT ![f].slot = i]
    /\ operationCount' = Tick(1)
    /\ UNCHANGED <<flash, reply>>

(* The flash answers; the iteration that asked goes on.  FSCache ignores the  *)
(* result of flash.read(), so a failed one leaves the page as it was.         *)
Fill(f) ==
    /\ op[f].slot # 0
    /\ LET i == op[f].slot IN
       \/ Body(f, i, [cache EXCEPT ![i].page = flash[NextBlock(f)]])
       \/ FlashFails /\ Body(f, i, cache)
    /\ UNCHANGED operationCount

Unpin(f, b) ==
    /\ MayStart(f)
    /\ Holding(b) # {}
    /\ LET i == First(Holding(b)) IN
       cache' = [cache EXCEPT ![i].pinned = FALSE, ![i].lastUsed = Tick(1)]
    /\ operationCount' = Tick(1)
    /\ UNCHANGED <<flash, op, reply>>

(* The caller erases the flash page of block b the way MicroBitLog does:      *)
(* erase() on the cache, which forgets the one block b only, then the flash.  *)
(* It must not have another block of that page in the cache.                  *)
Erase(f, b) ==
    /\ MayStart(f)
    /\ \A d \in PageOf(b) \ {b} : Holding(d) = {}
    /\ IF Holding(b) = {} THEN UNCHANGED <<cache, operationCount>>
       ELSE LET i == First(Holding(b)) IN
            /\ cache' = [cache EXCEPT ![i].page = Erased, ![i].lastUsed = Tick(2)]
            /\ operationCount' = Tick(2)
    /\ \/ flash' = [d \in Block |-> IF d \in PageOf(b) THEN Erased ELSE flash[d]]
       \/ FlashFails /\ UNCHANGED flash
    /\ UNCHANGED <<op, reply>>

Clear(f) ==
    /\ MayStart(f)
    /\ cache' = [i \in Slot |-> Empty]
    /\ operationCount' = 0
    /\ UNCHANGED <<flash, op, reply>>

(* A reset of the device: the constructor runs again, the flash keeps its     *)
(* contents.                                                                  *)
Restart ==
    /\ cache' = [i \in Slot |-> Empty]
    /\ operationCount' = 0
    /\ op' = [f \in Fibers |-> Idle]
    /\ reply' = [f \in Fibers |-> NoReply]
    /\ UNCHANGED flash

Init ==
    /\ flash \in [Block -> Page]
    /\ cache = [i \in Slot |-> Empty]
    /\ operationCount = 0
    /\ op = [f \in Fibers |-> Idle]
    /\ reply = [f \in Fibers |-> NoReply]

Next ==
    \/ \E f \in Fibers : \/ StartRead(f) \/ StartWrite(f) \/ StartPin(f)
                         \/ Hit(f) \/ Miss(f) \/ Fill(f) \/ Clear(f)
                         \/ \E b \in Block : Unpin(f, b) \/ Erase(f, b)
    \/ Restart

Spec == Init /\ [][Next]_vars
-----------------------------------------------------------------------------
TypeOK ==
    /\ flash \in [Block -> Page]
    /\ cache \in [Slot -> Entry]
    /\ operationCount \in Count
    /\ op \in [Fibers -> Op]

(* No block is held by two entries: cachePage() looks before it loads, so a   *)
(* write can never update one copy and leave a second, stale one behind.      *)
OneCopy ==
    \A i, j \in Slot :
        cache[i].loaded /\ cache[j].loaded /\ cache[i].address = cache[j].address => i = j

Loading(i) == \E f \in Fibers : op[f].slot = i

(* Every page that is not being loaded is what the flash holds: evicting an   *)
(* entry, which FSCache does without writing it back, loses nothing.          *)
Coherent ==
    \A i \in Slot : cache[i].loaded /\ ~Loading(i) => cache[i].page = flash[cache[i].address]

(* The call of a fiber as its caller sees it: while write() validates its     *)
(* range nothing has been written yet; pin() moves no data.                   *)
CallOf(f) ==
    IF op[f].phase \in {"idle", "pin"}
    THEN [kind |-> "none", cells |-> Idle.cells, data |-> Idle.data, todo |-> {}]
    ELSE [kind  |-> IF op[f].phase = "read" THEN "read" ELSE "write",
          cells |-> op[f].cells, data |-> op[f].data,
          todo  |-> IF op[f].phase = "check" THEN Touched(f) ELSE op[f].todo]

Store == INSTANCE NVStore WITH store <- flash, call <- [f \in Fibers |-> CallOf(f)]

(* The cache is a flash store to its callers: a read returns what the flash   *)
(* holds; a write changes the bytes it was given and no others, although the  *)
(* flash is written in whole words taken from the cached page, or is refused  *)
(* by the validation before it changed any.                                   *)
ImplementsStore == Store!Spec
=============================================================================
