-------------------- MODULE MicroBitUSBFlashManagerProofs --------------------
(***************************************************************************)
(* Flash storage behind the interface chip, for every size and number of   *)
(* blocks, length of a segment, number of retries and set of data: what a  *)
(* call has done when it returns, and what the manager's copies say of the *)
(* chip.                                                                   *)
(***************************************************************************)
EXTENDS MicroBitUSBFlashManager, SequenceTheorems, TLAPS

Values == Data \cup {"none", Blank, Old, Mixed}
Commands == Items \cup {"read", "write", "erase", "sector", "disk", "write_config", "remount",
                        "eraseConfig"}
Request == {r \in [cmd : Commands, at : Nat, len : Nat, words : Seq(Values)] :
              r.cmd = "read" => r.at + r.len <= Size}
Answer == {a \in [cmd : Commands, words : Seq(Values)] : a.cmd \in Items => a.words # <<>>}
Ops == {"read", "write", "erase", "getConfiguration", "getGeometry", "setConfiguration",
        "remount", "eraseConfig"}
CallSet == {c \in [op : Ops, at : Nat, len : Nat, value : Values, persist : BOOLEAN,
                   fits : BOOLEAN] :
              /\ c.op \in {"read", "write", "erase"} => c.len > 0
              /\ c.op \in {"read", "write"} => c.at + c.len <= Size}

Asking == {"read", "query", "command", "geometry", "set", "save"}
Restoring == {"restore_head", "restore_tail"}

Types ==
    /\ mem \in [Words -> Values] /\ before \in [Words -> Values]
    /\ setup \in [Items -> Values] /\ config \in [Items -> Values \cup {"unset", "junk"}]
    /\ request \in Request \cup {Nothing} /\ answer \in Answer \cup {Nothing}
    /\ geometry \in [blockSize : {0, BlockSize}, blockCount : {0, BlockCount}]
    /\ call \in CallSet \cup {Nothing}
    /\ phase \in Asking \cup Restoring \cup {"write", "erase", "end"}
    /\ queue \in Seq(Request)
    /\ saved \in [head : Seq(Values), tail : Seq(Values)]
    /\ pc \in {"idle", "send", "poll"}
    /\ valid \in BOOLEAN /\ everLost \in BOOLEAN
    /\ lost \in {"no", "given_up", "late"}
    /\ result \in {"ok", "no_data", "i2c_error", "invalid"}

(* One transaction is on the line: that of the head of the queue, unless   *)
(* one has been given up.                                                  *)
Line ==
    /\ answer # Nothing => request = Nothing
    /\ pc = "idle" <=> phase = "end"
    /\ pc # "idle" => queue # <<>> /\ call # Nothing
    /\ pc = "poll" => request \in {Nothing, queue[1]}
    /\ lost = "no" => request = Nothing \/ (pc # "idle" /\ request = queue[1])
    /\ everLost = FALSE => lost = "no"

-----------------------------------------------------------------------------
(* The blocks an erase() takes, from the start of the first to the end of  *)
(* the last.                                                               *)
First(c) == EraseStart(c, True)
Last(c) == EraseEnd(c, True)
After(c) == c.at + c.len
Span(c) == First(c) .. Last(c) + BlockSize - 1

(* A request that changes neither flash nor, unless it sets one, an item.  *)
Asks(r) == r.cmd \notin {"write", "erase"}

(* r writes a part of words to where all of it begins at `at`; q is all    *)
(* that is left of it.                                                     *)
Piece(r, at, words) ==
    /\ r.cmd = "write"
    /\ at <= r.at /\ r.at + Len(r.words) <= at + Len(words)
    /\ \A j \in 1 .. Len(r.words) : r.words[j] = words[r.at - at + j]
Pieces(q, at, words) ==
    \A i \in 1 .. Len(q) :
       /\ Piece(q[i], at, words)
       /\ q[i].at + Len(q[i].words) = IF i = Len(q) THEN at + Len(words) ELSE q[i + 1].at

(* r erases a block of a call; q erases all that are left.                 *)
ErasesOf(r, c) ==
    /\ r.cmd = "erase" /\ Block(r.at) * BlockSize = r.at
    /\ First(c) <= r.at /\ r.at <= Last(c)
ErasesRest(q, c) ==
    \A i \in 1 .. Len(q) :
       /\ ErasesOf(q[i], c)
       /\ IF i = Len(q) THEN q[i].at = Last(c) ELSE q[i + 1].at = q[i].at + BlockSize

Filled(c) == [i \in 1 .. c.len |-> c.value]
SavesHead(c) == Read(First(c), c.at - First(c))
SavesTail(c) == Read(After(c), Last(c) + BlockSize - After(c))

SavedHead == saved.head # <<>> =>
    /\ Len(saved.head) = call.at - First(call)
    /\ \A i \in 1 .. Len(saved.head) : saved.head[i] = before[First(call) + i - 1]
SavedTail == saved.tail # <<>> =>
    /\ Len(saved.tail) = Last(call) + BlockSize - After(call)
    /\ \A i \in 1 .. Len(saved.tail) : saved.tail[i] = before[After(call) + i - 1]
SavedExact == SavedHead /\ SavedTail
SavedWhole ==
    /\ First(call) < call.at => saved.head # <<>>
    /\ After(call) < Last(call) + BlockSize => saved.tail # <<>>

(* The flash, word by word.                                                *)
NothingBut(S) == \A w \in Words \ S : mem[w] = before[w]
Written(w) == mem[w] = Programmed(before[w], call.value)
Erased(S) == \A w \in S : mem[w] = Blank
MayRestore == \A w \in Span(call) \ Target(call) : mem[w] \in {Blank, before[w]}

HasAnswer == pc = "poll" /\ answer # Nothing
ErasesFit == call.op = "erase" /\ After(call) <= Size

-----------------------------------------------------------------------------
(* Phases in which the flash is as the call has found it.                  *)
Asked ==
    phase \in Asking =>
        /\ call.op # "write"
        /\ phase \in {"read", "query", "command"} => call.op \notin {"erase", "setConfiguration"}
        /\ \A i \in 1 .. Len(queue) :
             /\ Asks(queue[i])
             /\ phase # "set" /\ queue[i].cmd \in Items => queue[i].words = <<>>
             /\ phase # "geometry" => queue[i].cmd \notin {"sector", "disk"}
        /\ lost # "late" => mem = before /\ (request # Nothing => Asks(request))

(* What an erase() has read is what it found.                              *)
Saving ==
    phase = "save" =>
        /\ ErasesFit /\ geometry = True
        /\ \A i \in 1 .. Len(queue) : queue[i] \in {SavesHead(call), SavesTail(call)}
        /\ lost # "late" =>
             /\ SavedExact
             /\ HasAnswer =>
                  /\ Len(answer.words) = queue[1].len
                  /\ \A i \in 1 .. Len(answer.words) : answer.words[i] = before[queue[1].at + i - 1]
        /\ lost = "no" =>
             /\ First(call) < call.at => saved.head # <<>> \/ \E i \in 1 .. Len(queue) : queue[i] = SavesHead(call)
             /\ After(call) < Last(call) + BlockSize => saved.tail # <<>> \/ \E i \in 1 .. Len(queue) : queue[i] = SavesTail(call)

(* Blocks are erased from the first on.                                    *)
Erasing ==
    phase = "erase" =>
        /\ ErasesFit /\ geometry = True
        /\ ErasesRest(queue, call)
        /\ lost = "no" => SavedWhole
        /\ lost # "late" =>
             /\ SavedExact
             /\ request # Nothing => Asks(request) \/ request = queue[1]
             /\ NothingBut(Span(call))
             /\ \A w \in Span(call) : w < queue[1].at => mem[w] = Blank
             /\ HasAnswer => \A w \in queue[1].at .. queue[1].at + BlockSize - 1 : mem[w] = Blank

(* What was saved returns to where it was, head first.                     *)
Restores ==
    /\ SavedExact
    /\ NothingBut(Span(call)) /\ Erased(Target(call)) /\ MayRestore
    /\ lost = "no" => SavedWhole
    /\ HasAnswer => \A w \in queue[1].at .. queue[1].at + Len(queue[1].words) - 1 : mem[w] = before[w]
RestoresHead ==
    phase = "restore_head" =>
        /\ ErasesFit /\ geometry = True /\ saved.head # <<>>
        /\ Pieces(queue, First(call), saved.head)
        /\ lost # "late" =>
             /\ Restores
             /\ request # Nothing => request = queue[1]
             /\ lost = "no" => \A w \in Span(call) : w < queue[1].at => mem[w] = before[w]
RestoresTail ==
    phase = "restore_tail" =>
        /\ ErasesFit /\ geometry = True /\ saved.tail # <<>>
        /\ Pieces(queue, After(call), saved.tail)
        /\ lost # "late" =>
             /\ Restores
             /\ request # Nothing => request = queue[1] \/ Piece(request, First(call), saved.head)
             /\ lost = "no" => \A w \in Span(call) : w < call.at \/ (After(call) <= w /\ w < queue[1].at) => mem[w] = before[w]

(* A word may be programmed twice, to the same.                            *)
Writing ==
    phase = "write" =>
        /\ call.op = "write" /\ Pieces(queue, call.at, Filled(call))
        /\ lost # "late" =>
             /\ request # Nothing => request = queue[1]
             /\ NothingBut(Target(call))
             /\ \A w \in Target(call) : mem[w] = before[w] \/ Written(w)
             /\ \A w \in Target(call) : w < queue[1].at => Written(w)
             /\ HasAnswer => \A w \in queue[1].at .. queue[1].at + Len(queue[1].words) - 1 : Written(w)

(* What has been done when a call has returned, and what the chip may      *)
(* still do: a request that was given up.                                  *)
Returned ==
    pc = "idle" /\ call # Nothing /\ lost # "late" =>
        /\ call.op \notin {"write", "erase"} \/ (call.op = "erase" /\ result = "invalid") =>
             mem = before /\ (request # Nothing => Asks(request))
        /\ call.op = "write" =>
             /\ NothingBut(Target(call))
             /\ \A w \in Target(call) : mem[w] = before[w] \/ Written(w)
             /\ request # Nothing => Piece(request, call.at, Filled(call))
             /\ result = "ok" => request = Nothing /\ \A w \in Target(call) : Written(w)
        /\ call.op = "erase" => result \in {"ok", "invalid", "i2c_error"}
        /\ call.op = "erase" /\ result = "i2c_error" =>
             /\ After(call) <= Size /\ lost # "no" /\ NothingBut(Span(call))
             /\ request # Nothing => Asks(request) \/ ErasesOf(request, call)
        /\ call.op = "erase" /\ result = "ok" =>
             /\ After(call) <= Size /\ SavedExact
             /\ NothingBut(Span(call)) /\ Erased(Target(call)) /\ MayRestore
             /\ request # Nothing =>
                  Piece(request, First(call), saved.head) \/ Piece(request, After(call), saved.tail)
             /\ lost = "no" => NothingBut(Target(call))

-----------------------------------------------------------------------------
(* The manager's copies.                                                   *)
Geometry ==
    /\ "geometry" \in loaded => geometry = True
    /\ phase = "geometry" =>
         /\ saved = NothingSaved
         /\ \/ queue = <<Ask("sector"), Ask("disk")>>
            \/ queue = <<Ask("disk")>> /\ (valid => geometry.blockSize = BlockSize)

LeftIn(q, x) == \E i \in 1 .. Len(q) : q[i].cmd = x
Configuration ==
    /\ phase = "query" => \A i \in 1 .. Len(queue) : queue[i].cmd \in Items
    /\ phase = "set" =>
         /\ call.op = "setConfiguration"
         /\ \A i \in 1 .. Len(queue) : queue[i].cmd \in Items => queue[i].words = <<call.value>>
    /\ everLost = FALSE =>
         /\ "config" \in loaded /\ phase # "set" => config = setup
         /\ phase = "query" => \A x \in Items : config[x] = setup[x] \/ LeftIn(queue, x)
         /\ phase = "set" => \A x \in Items : setup[x] = call.value \/ LeftIn(queue, x)
         /\ phase = "query" /\ HasAnswer => answer.words = <<setup[queue[1].cmd]>>
         /\ phase = "set" /\ HasAnswer /\ queue[1].cmd \in Items => setup[queue[1].cmd] = call.value

Safe ==
    /\ Types /\ Line
    /\ Asked /\ Saving /\ Erasing /\ RestoresHead /\ RestoresTail /\ Writing /\ Returned
    /\ Geometry /\ Configuration

(* Arithmetic: multiples, quotients and remainders.                        *)
LEMMA Multiples ==
    ASSUME NEW a \in Int, NEW b \in Int, NEW n \in Nat \ {0}, a < b
    PROVE  a * n + n <= b * n
OBVIOUS

LEMMA Division ==
    ASSUME NEW a \in Nat, NEW n \in Nat \ {0}
    PROVE  /\ a = (a \div n) * n + (a % n)
           /\ a \div n \in Nat /\ a % n \in 0 .. n - 1
<1>1. /\ a = n * (a \div n) + (a % n)
      /\ a \div n \in Nat /\ a % n \in 0 .. n - 1
    OBVIOUS
<1>2. n * (a \div n) = (a \div n) * n
    OBVIOUS
<1> QED
    BY <1>1, <1>2

LEMMA Quotient ==
    ASSUME NEW a \in Nat, NEW n \in Nat \ {0}, NEW k \in Nat, k * n <= a, a < k * n + n
    PROVE  a \div n = k
<1>1. a \div n \in Nat /\ (a \div n) * n <= a /\ a < (a \div n) * n + n
    BY Division
<1>2. ~(a \div n < k)
    BY <1>1, Multiples
<1>3. ~(k < a \div n)
    BY <1>1, Multiples
<1> QED
    BY <1>1, <1>2, <1>3

LEMMA SizeFacts == BlockSize \in Nat \ {0} /\ BlockCount \in Nat \ {0} /\ Size \in Nat \ {0}
<1>1. BlockSize \in Nat \ {0} /\ BlockCount \in Nat \ {0}
    BY FlashAssumption
<1> QED
    BY <1>1 DEF Size

(* The words of the block that begins at `at`. *)
LEMMA BlockOf ==
    ASSUME NEW w \in Nat, NEW at \in Nat, Block(at) * BlockSize = at
    PROVE  Block(w) = Block(at) <=> at <= w /\ w < at + BlockSize
<1>1. Block(at) \in Nat /\ Block(w) \in Nat /\ BlockSize \in Nat \ {0}
    BY SizeFacts, Division DEF Block
<1>2. Block(w) * BlockSize <= w /\ w < Block(w) * BlockSize + BlockSize
    <2>1. w = (w \div BlockSize) * BlockSize + (w % BlockSize) /\ w % BlockSize \in 0 .. BlockSize - 1
        BY SizeFacts, Division
    <2> QED
        BY <2>1, <1>1 DEF Block
<1>3. ASSUME at <= w, w < at + BlockSize PROVE Block(w) = Block(at)
    BY <1>1, <1>3, Quotient DEF Block
<1> QED
    BY <1>1, <1>2, <1>3

(* Floors of a number and of the end of a range, in units of n. *)
LEMMA LastBlock ==
    ASSUME NEW n \in Nat \ {0}, NEW e \in Nat \ {0}
    PROVE  \E last \in Nat :
             /\ last * n = (e \div n) * n - (IF e % n = 0 THEN n ELSE 0)
             /\ last * n \in Nat
             /\ last * n < e /\ e <= last * n + n
             /\ (n - (e % n)) % n = last * n + n - e
<1>1. PICK m \in Nat, r \in 0 .. n - 1 : m = e \div n /\ r = e % n /\ e = m * n + r
    BY Division
<1>2. PICK y \in Int : y = m * n
    OBVIOUS
<1>3. CASE r = 0
    <2>1. m # 0
        <3>1. SUFFICES ASSUME m = 0 PROVE FALSE
            OBVIOUS
        <3>2. m * n = 0
            BY <3>1
        <3> QED
            BY <3>2, <1>1, <1>3
    <2>2. (m - 1) * n = m * n - n
        OBVIOUS
    <2>3. (n - r) % n = 0
        BY <1>3
    <2>4. e = y /\ (m - 1) * n = y - n /\ y - n \in Nat
        <3>1. (m - 1) * n \in Nat
            BY <2>1
        <3> QED
            BY <1>1, <1>2, <1>3, <2>2, <3>1
    <2>5. m - 1 \in Nat
        BY <2>1
    <2> QED
        <3>1. /\ (m - 1) * n = (e \div n) * n - (IF e % n = 0 THEN n ELSE 0)
              /\ (n - (e % n)) % n = 0
            BY <1>1, <1>3, <2>2, <2>3
        <3>2. /\ (m - 1) * n \in Nat /\ (m - 1) * n < e /\ e <= (m - 1) * n + n
              /\ (m - 1) * n + n - e = 0
            BY <2>4
        <3> QED
            BY <2>5, <3>1, <3>2
<1>4. CASE r # 0
    <2>1. (n - r) % n = n - r
        BY <1>4
    <2>2. y \in Nat
        BY <1>2
    <2>3. /\ m * n = (e \div n) * n - (IF e % n = 0 THEN n ELSE 0)
          /\ (n - (e % n)) % n = n - r
        BY <1>1, <1>2, <1>4, <2>1
    <2>4. /\ m * n \in Nat /\ m * n < e /\ e <= m * n + n
          /\ m * n + n - e = n - r
        BY <1>1, <1>2, <1>4, <2>2
    <2> QED
        BY <2>3, <2>4
<1> QED
    BY <1>3, <1>4

(* erase() takes the blocks that its range touches, and no others. *)
LEMMA EraseGeometry ==
    ASSUME NEW c \in CallSet, c.len > 0
    PROVE  /\ First(c) \in Nat /\ Last(c) \in Nat /\ After(c) \in Nat /\ c.at \in Nat
           /\ First(c) <= c.at /\ c.at < First(c) + BlockSize /\ c.at < After(c)
           /\ Last(c) < After(c) /\ After(c) <= Last(c) + BlockSize
           /\ First(c) <= Last(c)
           /\ Block(First(c)) * BlockSize = First(c)
           /\ Block(Last(c)) * BlockSize = Last(c)
           /\ After(c) <= Size => Last(c) + BlockSize <= Size
           /\ (BlockSize - (After(c) % BlockSize)) % BlockSize = Last(c) + BlockSize - After(c)
<1>1. c.at \in Nat /\ c.len \in Nat /\ After(c) \in Nat \ {0} /\ After(c) > c.at
    BY DEF CallSet, After
<1>2. PICK k \in Nat, x \in Nat : k = c.at \div BlockSize /\ x = k * BlockSize /\ x <= c.at /\ c.at < x + BlockSize
    <2>1. /\ c.at = (c.at \div BlockSize) * BlockSize + (c.at % BlockSize)
          /\ c.at \div BlockSize \in Nat /\ c.at % BlockSize \in 0 .. BlockSize - 1
        BY <1>1, SizeFacts, Division
    <2>2. PICK k \in Nat, r \in 0 .. BlockSize - 1 : k = c.at \div BlockSize /\ c.at = k * BlockSize + r
        BY <2>1
    <2>3. k * BlockSize \in Nat
        BY SizeFacts
    <2>4. k * BlockSize <= c.at /\ c.at < k * BlockSize + BlockSize
        BY <2>2, <2>3, <1>1, SizeFacts
    <2> QED
        BY <2>2, <2>3, <2>4
<1>3. First(c) = x
    BY <1>2 DEF First, EraseStart, True
<1>4. PICK last \in Nat, z \in Nat :
         /\ z = last * BlockSize /\ Last(c) = z
         /\ z < After(c) /\ After(c) <= z + BlockSize
         /\ (BlockSize - (After(c) % BlockSize)) % BlockSize = z + BlockSize - After(c)
    <2>1. Last(c) = (After(c) \div BlockSize) * BlockSize - (IF After(c) % BlockSize = 0 THEN BlockSize ELSE 0)
        BY DEF Last, EraseEnd, True, After
    <2>2. PICK last \in Nat :
             /\ last * BlockSize = (After(c) \div BlockSize) * BlockSize - (IF After(c) % BlockSize = 0 THEN BlockSize ELSE 0)
             /\ last * BlockSize \in Nat
             /\ last * BlockSize < After(c) /\ After(c) <= last * BlockSize + BlockSize
             /\ (BlockSize - (After(c) % BlockSize)) % BlockSize = last * BlockSize + BlockSize - After(c)
        BY <1>1, SizeFacts, LastBlock, Zenon
    <2>3. last * BlockSize = Last(c)
        BY <2>1, <2>2, Zenon
    <2> QED
        BY <2>2, <2>3
<1>5. k <= last
    <2>1. last < k => z + BlockSize <= x
        BY <1>2, <1>4, SizeFacts, Multiples
    <2> QED
        BY <2>1, <1>1, <1>2, <1>4, SizeFacts
<1>6. x <= z
    <2>1. k < last => x + BlockSize <= z
        BY <1>2, <1>4, SizeFacts, Multiples
    <2> QED
        BY <2>1, <1>2, <1>4, <1>5, SizeFacts
<1>7. x \div BlockSize = k /\ z \div BlockSize = last
    BY <1>2, <1>4, SizeFacts, Quotient
<1>8. After(c) <= Size => z + BlockSize <= Size
    <2>1. BlockCount * BlockSize = Size
        BY SizeFacts DEF Size
    <2>2. BlockCount < last => Size + BlockSize <= z
        BY <2>1, <1>4, SizeFacts, Multiples
    <2>3. last < BlockCount => z + BlockSize <= Size
        BY <2>1, <1>4, SizeFacts, Multiples
    <2>4. BlockCount = last => Size = z
        BY <2>1, <1>4
    <2> QED
        BY <2>2, <2>3, <2>4, <1>1, <1>4, SizeFacts
<1> QED
    BY <1>1, <1>2, <1>3, <1>4, <1>6, <1>7, <1>8, SizeFacts DEF Block

(* What is left of a queue. *)
IsTail(rest, q) ==
    /\ rest \in Seq(Request) /\ Len(q) \in Nat \ {0} /\ q[1] \in Request
    /\ Len(rest) = Len(q) - 1
    /\ \A i \in 1 .. Len(rest) : rest[i] = q[i + 1] /\ i + 1 \in 1 .. Len(q)
    /\ rest = <<>> <=> Len(q) = 1

(* The head and the rest of a queue.                                       *)
LEMMA QueueTail ==
    ASSUME NEW q \in Seq(Request), q # <<>>
    PROVE  Head(q) = q[1] /\ IsTail(Tail(q), q)
<1>1. Len(q) \in Nat \ {0} /\ q[1] \in Request
    BY EmptySeq, ElementOfSeq
<1>2. /\ Tail(q) \in Seq(Request) /\ Len(Tail(q)) = Len(q) - 1
      /\ \A i \in 1 .. Len(Tail(q)) : Tail(q)[i] = q[i + 1]
    BY HeadTailProperties
<1>3. Head(q) = q[1]
    OBVIOUS
<1>4. Tail(q) = <<>> <=> Len(Tail(q)) = 0
    BY <1>2, EmptySeq
<1> QED
    BY <1>1, <1>2, <1>3, <1>4 DEF IsTail

(* The parts of a request have their types.                                *)
LEMMA RequestFacts ==
    ASSUME NEW r \in Request
    PROVE  /\ r.cmd \in Commands /\ r.at \in Nat /\ r.len \in Nat /\ r.words \in Seq(Values)
           /\ Len(r.words) \in Nat /\ r # Nothing
<1>1. /\ r.cmd \in Commands /\ r.at \in Nat /\ r.len \in Nat /\ r.words \in Seq(Values)
    BY DEF Request
<1>2. Nothing.cmd \notin Commands
    BY DEF Nothing, Commands, Items
<1> QED
    BY <1>1, <1>2, LenProperties

(* write() leaves no gap and no word out. *)
LEMMA SegmentsArePieces ==
    ASSUME NEW at \in Nat, NEW words \in Seq(Values), words # <<>>
    PROVE  /\ Segments(at, words) \in Seq(Request) /\ Segments(at, words) # <<>>
           /\ Pieces(Segments(at, words), at, words)
           /\ Segments(at, words)[1].at = at
<1> DEFINE n == Len(words)
           N == (n + MaxWrite - 1) \div MaxWrite
           first(i) == (i - 1) * MaxWrite
           last(i) == IF first(i) + MaxWrite < n THEN first(i) + MaxWrite ELSE n
           segment(i) == [cmd |-> "write", at |-> at + first(i), len |-> 0,
                          words |-> SubSeq(words, first(i) + 1, last(i))]
           q == Segments(at, words)
<1>1. n \in Nat \ {0} /\ MaxWrite \in Nat \ {0}
    BY EmptySeq, FlashAssumption
<1>2. N \in Nat \ {0} /\ N * MaxWrite \in Nat /\ n <= N * MaxWrite /\ N * MaxWrite < n + MaxWrite
    <2>1. n + MaxWrite - 1 \in Nat
        BY <1>1
    <2>2. PICK k \in Nat, r \in 0 .. MaxWrite - 1 : k = N /\ n + MaxWrite - 1 = k * MaxWrite + r
        BY <2>1, <1>1, Division
    <2>3. PICK y \in Nat : y = k * MaxWrite
        BY <1>1
    <2>4. n <= y /\ y < n + MaxWrite
        BY <2>2, <2>3, <1>1
    <2>5. k # 0
        <3>1. k = 0 => y = 0
            BY <2>3, <1>1
        <3> QED
            BY <3>1, <2>4, <1>1
    <2> HIDE DEF N
    <2> QED
        BY <2>2, <2>3, <2>4, <2>5
<1> HIDE DEF n, N
<1>3. q = [i \in 1 .. N |-> segment(i)]
    BY DEF Segments, n, N
<1> HIDE DEF q
<1>4. ASSUME NEW i \in 1 .. N
      PROVE  /\ first(i) \in 0 .. n - 1 /\ last(i) \in first(i) + 1 .. n
             /\ last(i) = IF i = N THEN n ELSE first(i + 1)
    <2>1. PICK y \in Nat : y = N * MaxWrite /\ n <= y /\ y < n + MaxWrite
        BY <1>2
    <2>2. PICK x \in Nat : x = first(i)
        BY <1>1, <1>2
    <2>3. first(i + 1) = x + MaxWrite
        <3>1. (i + 1 - 1) * MaxWrite = (i - 1) * MaxWrite + MaxWrite
            BY <1>1, <1>2
        <3> QED
            BY <2>2, <3>1
    <2>4. x + MaxWrite <= y
        <3>1. i - 1 \in Int /\ N \in Int /\ i - 1 < N
            BY <1>2
        <3> QED
            BY <3>1, <2>1, <2>2, <1>1, Multiples
    <2>5. i < N => x + MaxWrite + MaxWrite <= y
        <3>1. i \in Int /\ N \in Int /\ i * MaxWrite = x + MaxWrite
            BY <1>1, <1>2, <2>2, <2>3
        <3> QED
            BY <3>1, <2>1, <1>1, Multiples
    <2>6. i = N => x + MaxWrite = y
        <3>1. i * MaxWrite = x + MaxWrite
            BY <1>1, <1>2, <2>2, <2>3
        <3> QED
            BY <3>1, <2>1
    <2>7. last(i) = IF x + MaxWrite < n THEN x + MaxWrite ELSE n
        BY <2>2
    <2>8. i <= N /\ N \in Nat /\ i \in Nat
        BY <1>2
    <2> HIDE DEF first, last
    <2> QED
        BY <2>1, <2>2, <2>3, <2>4, <2>5, <2>6, <2>7, <2>8, <1>1
<1>5. ASSUME NEW i \in 1 .. N
      PROVE  /\ segment(i).words \in Seq(Values)
             /\ Len(segment(i).words) = last(i) - first(i)
             /\ \A j \in 1 .. last(i) - first(i) : segment(i).words[j] = words[first(i) + j]
    <2>1. first(i) \in 0 .. n - 1 /\ last(i) \in first(i) + 1 .. n
        BY <1>4
    <2> HIDE DEF first, last
    <2>2. \A j \in first(i) + 1 .. last(i) : words[j] \in Values
        BY <2>1, <1>1, ElementOfSeq DEF n
    <2>3. /\ SubSeq(words, first(i) + 1, last(i)) \in Seq(Values)
          /\ Len(SubSeq(words, first(i) + 1, last(i))) = last(i) - first(i)
          /\ \A j \in 1 .. last(i) - first(i) : SubSeq(words, first(i) + 1, last(i))[j] = words[first(i) + 1 + j - 1]
        BY <2>1, <2>2, <1>1, SubSeqProperties
    <2>4. \A j \in 1 .. last(i) - first(i) : first(i) + 1 + j - 1 = first(i) + j
        BY <2>1, <1>1
    <2> QED
        BY <2>3, <2>4
<1>6. ASSUME NEW i \in 1 .. N
      PROVE  segment(i) \in Request
    <2>1. at + first(i) \in Nat
        BY <1>1, <1>4
    <2> QED
        BY <2>1, <1>5 DEF Request, Commands
<1>7. q \in Seq(Request) /\ Len(q) = N /\ \A i \in 1 .. N : q[i] = segment(i)
    BY <1>2, <1>3, <1>6
<1>8. q # <<>>
    BY <1>2, <1>7, EmptySeq
<1>9. q[1].at = at
    <2>1. first(1) = 0
        BY <1>1
    <2> QED
        BY <2>1, <1>2, <1>7
<1>10. ASSUME NEW i \in 1 .. N
       PROVE  /\ Piece(q[i], at, words)
              /\ q[i].at + Len(q[i].words) = IF i = N THEN at + n ELSE q[i + 1].at
    <2>1. q[i] = segment(i)
        BY <1>7
    <2>2. /\ q[i].cmd = "write" /\ q[i].at = at + first(i) /\ Len(q[i].words) = last(i) - first(i)
          /\ \A j \in 1 .. last(i) - first(i) : q[i].words[j] = words[first(i) + j]
        BY <2>1, <1>5
    <2>3. i # N => i + 1 \in 1 .. N /\ q[i + 1].at = at + first(i + 1)
        BY <1>2, <1>7
    <2>4. /\ first(i) \in 0 .. n - 1 /\ last(i) \in first(i) + 1 .. n
          /\ last(i) = IF i = N THEN n ELSE first(i + 1)
        BY <1>4
    <2> HIDE DEF first, last, segment
    <2>5. q[i].at - at = first(i)
        BY <2>2, <2>4, <1>1
    <2>6. at <= q[i].at /\ q[i].at + Len(q[i].words) <= at + n
        BY <2>2, <2>4, <1>1
    <2>7. Piece(q[i], at, words)
        BY <2>2, <2>5, <2>6 DEF Piece, n
    <2>8. q[i].at + Len(q[i].words) = IF i = N THEN at + n ELSE q[i + 1].at
        BY <2>2, <2>3, <2>4, <1>1
    <2> QED
        BY <2>7, <2>8
<1>11. Pieces(q, at, words)
    BY <1>7, <1>10 DEF Pieces, n
<1> QED
    BY <1>7, <1>8, <1>9, <1>11 DEF q

(* What the manager asks for is a request.                                 *)
LEMMA Requests ==
    /\ \A at \in Nat : Erase(at) \in Request /\ Erase(at).cmd = "erase" /\ Erase(at).at = at
    /\ \A cmd \in Commands \ {"read", "write", "erase"} : Ask(cmd) \in Request
    /\ \A at, len \in Nat : at + len <= Size => Read(at, len) \in Request
    /\ \A item \in Items, v \in Values : Set(item, v) \in Request
<1>1. <<>> \in Seq(Values) /\ \A v \in Values : <<v>> \in Seq(Values)
    OBVIOUS
<1>2. ASSUME NEW at \in Nat PROVE Erase(at) \in Request /\ Erase(at).cmd = "erase" /\ Erase(at).at = at
    BY <1>1 DEF Erase, Request, Commands
<1>3. ASSUME NEW cmd \in Commands \ {"read", "write", "erase"} PROVE Ask(cmd) \in Request
    BY <1>1 DEF Ask, Request
<1>4. ASSUME NEW at \in Nat, NEW len \in Nat, at + len <= Size PROVE Read(at, len) \in Request
    BY <1>1, <1>4 DEF Read, Request, Commands
<1>5. ASSUME NEW item \in Items, NEW v \in Values PROVE Set(item, v) \in Request
    BY <1>1 DEF Set, Request, Commands, Items
<1> QED
    BY <1>2, <1>3, <1>4, <1>5

(* erase() leaves no block of its span out. *)
LEMMA ErasesAll ==
    ASSUME NEW c \in CallSet, c.len > 0
    PROVE  /\ Erases(c, True) \in Seq(Request) /\ Erases(c, True) # <<>>
           /\ ErasesRest(Erases(c, True), c)
           /\ Erases(c, True)[1].at = First(c)
<1> DEFINE q == Erases(c, True)
           a(i) == First(c) + (i - 1) * BlockSize
<1>1. /\ First(c) \in Nat /\ Last(c) \in Nat /\ First(c) <= Last(c)
      /\ Block(First(c)) * BlockSize = First(c)
      /\ Block(Last(c)) * BlockSize = Last(c)
    BY EraseGeometry
<1>2. PICK k \in Nat, m \in Nat : k * BlockSize = First(c) /\ m * BlockSize = Last(c) /\ k <= m
    <2>1. PICK k \in Nat : k * BlockSize = First(c)
        BY <1>1, SizeFacts, Division DEF Block
    <2>2. PICK m \in Nat : m * BlockSize = Last(c)
        BY <1>1, SizeFacts, Division DEF Block
    <2>3. ~(m < k)
        BY <2>1, <2>2, <1>1, SizeFacts, Multiples
    <2> QED
        BY <2>1, <2>2, <2>3
<1>3. (Last(c) - First(c)) \div BlockSize = m - k
    <2>1. m - k \in Nat /\ (m - k) * BlockSize = Last(c) - First(c)
        <3>1. (m - k) * BlockSize = m * BlockSize - k * BlockSize
            BY SizeFacts
        <3> QED
            BY <3>1, <1>2
    <2>2. Last(c) - First(c) \in Nat
        BY <1>1
    <2> QED
        BY <2>1, <2>2, SizeFacts, Quotient
<1> DEFINE N == m - k + 1
<1>4. N \in Nat \ {0}
    BY <1>2
<1>5. q = [i \in 1 .. N |-> Erase(a(i))]
    BY <1>3 DEF Erases, First, Last, True
<1> HIDE DEF q
<1>6. ASSUME NEW i \in 1 .. N
      PROVE  /\ a(i) \in Nat /\ First(c) <= a(i) /\ a(i) <= Last(c)
             /\ Block(a(i)) * BlockSize = a(i)
             /\ IF i = N THEN a(i) = Last(c) ELSE a(i + 1) = a(i) + BlockSize
    <2>1. a(i) = (k + i - 1) * BlockSize
        <3>1. (k + i - 1) * BlockSize = k * BlockSize + (i - 1) * BlockSize
            BY SizeFacts, <1>4
        <3> QED
            BY <3>1, <1>2
    <2>2. k + i - 1 \in Nat /\ k <= k + i - 1 /\ k + i - 1 <= m
        BY <1>2, <1>4
    <2>3. PICK j \in Nat : j = k + i - 1
        BY <2>2
    <2>4. PICK x \in Nat : x = j * BlockSize
        BY SizeFacts
    <2>5. a(i) = x
        BY <2>1, <2>3, <2>4
    <2>6. First(c) <= x /\ x <= Last(c)
        <3>1. k = j \/ k < j
            BY <2>2, <2>3
        <3>2. k < j => First(c) + BlockSize <= x
            BY <1>2, <2>4, SizeFacts, Multiples
        <3>3. j = m \/ j < m
            BY <2>2, <2>3
        <3>4. j < m => x + BlockSize <= Last(c)
            BY <1>2, <2>4, SizeFacts, Multiples
        <3> QED
            BY <3>1, <3>2, <3>3, <3>4, <1>1, <1>2, <2>4, SizeFacts
    <2>7. Block(x) = j
        BY <2>4, SizeFacts, Quotient DEF Block
    <2>8. i = N => x = Last(c)
        BY <2>3, <2>4, <1>2
    <2>9. a(i + 1) = a(i) + BlockSize
        <3>1. (i + 1 - 1) * BlockSize = (i - 1) * BlockSize + BlockSize
            BY SizeFacts, <1>4
        <3> QED
            BY <3>1, <1>1, <2>4, <2>5, SizeFacts
    <2> HIDE DEF a, N
    <2> QED
        BY <2>4, <2>5, <2>6, <2>7, <2>8, <2>9
<1>7. ASSUME NEW i \in 1 .. N
      PROVE  Erase(a(i)) \in Request /\ Erase(a(i)).cmd = "erase" /\ Erase(a(i)).at = a(i)
    BY <1>6, Requests, Zenon
<1>8. q \in Seq(Request) /\ Len(q) = N /\ \A i \in 1 .. N : q[i] = Erase(a(i))
    BY <1>4, <1>5, <1>7
<1>9. q # <<>>
    BY <1>4, <1>8, EmptySeq
<1>10. q[1].at = First(c)
    <2>1. a(1) = First(c)
        BY <1>1, SizeFacts
    <2> QED
        BY <2>1, <1>4, <1>7, <1>8
<1>11. ErasesRest(q, c)
    <2>1. ASSUME NEW i \in 1 .. N
          PROVE  ErasesOf(q[i], c) /\ (IF i = N THEN q[i].at = Last(c) ELSE q[i + 1].at = q[i].at + BlockSize)
        <3>1. q[i].cmd = "erase" /\ q[i].at = a(i)
            BY <1>7, <1>8
        <3>2. i # N => i + 1 \in 1 .. N /\ q[i + 1].at = a(i + 1)
            <4>1. i # N => i + 1 \in 1 .. N
                BY <1>4
            <4> QED
                BY <4>1, <1>7, <1>8
        <3>3. /\ First(c) <= a(i) /\ a(i) <= Last(c)
              /\ Block(a(i)) * BlockSize = a(i)
              /\ IF i = N THEN a(i) = Last(c) ELSE a(i + 1) = a(i) + BlockSize
            BY <1>6
        <3> HIDE DEF a, N
        <3>4. ErasesOf(q[i], c)
            BY <3>1, <3>3 DEF ErasesOf
        <3> QED
            BY <3>1, <3>2, <3>3, <3>4
    <2> QED
        BY <2>1, <1>8 DEF ErasesRest
<1> QED
    BY <1>8, <1>9, <1>10, <1>11 DEF q

(* Its parts, while the queue is worked off. *)
LEMMA PiecesTail ==
    ASSUME NEW q, NEW rest, IsTail(rest, q), NEW at \in Nat, NEW words, Pieces(q, at, words)
    PROVE  /\ Piece(q[1], at, words)
           /\ Pieces(rest, at, words)
           /\ rest # <<>> => rest[1].at = q[1].at + Len(q[1].words)
           /\ rest = <<>> => q[1].at + Len(q[1].words) = at + Len(words)
<1>1. Piece(q[1], at, words)
    BY DEF Pieces, IsTail
<1>2. Pieces(rest, at, words)
    <2>1. ASSUME NEW i \in 1 .. Len(rest)
          PROVE  /\ Piece(rest[i], at, words)
                 /\ rest[i].at + Len(rest[i].words) = IF i = Len(rest) THEN at + Len(words) ELSE rest[i + 1].at
        <3>1. /\ i + 1 \in 1 .. Len(q) /\ rest[i] = q[i + 1] /\ (i = Len(rest) <=> i + 1 = Len(q))
              /\ i # Len(rest) => i + 1 \in 1 .. Len(rest)
            BY DEF IsTail
        <3>2. i # Len(rest) => rest[i + 1] = q[i + 1 + 1]
            BY <3>1 DEF IsTail
        <3> QED
            BY <3>1, <3>2 DEF Pieces
    <2> QED
        BY <2>1 DEF Pieces
<1>3. rest # <<>> => rest[1].at = q[1].at + Len(q[1].words)
    BY DEF Pieces, IsTail
<1>4. rest = <<>> => q[1].at + Len(q[1].words) = at + Len(words)
    BY DEF Pieces, IsTail
<1> QED
    BY <1>1, <1>2, <1>3, <1>4

(* What is left of the erases after one of them.                           *)
LEMMA ErasesTail ==
    ASSUME NEW q, NEW rest, IsTail(rest, q), NEW c, ErasesRest(q, c)
    PROVE  /\ ErasesOf(q[1], c)
           /\ ErasesRest(rest, c)
           /\ rest # <<>> => rest[1].at = q[1].at + BlockSize
           /\ rest = <<>> => q[1].at = Last(c)
<1>1. ErasesOf(q[1], c)
    BY DEF ErasesRest, IsTail
<1>2. ErasesRest(rest, c)
    <2>1. ASSUME NEW i \in 1 .. Len(rest)
          PROVE  ErasesOf(rest[i], c) /\ (IF i = Len(rest) THEN rest[i].at = Last(c) ELSE rest[i + 1].at = rest[i].at + BlockSize)
        <3>1. /\ i + 1 \in 1 .. Len(q) /\ rest[i] = q[i + 1] /\ (i = Len(rest) <=> i + 1 = Len(q))
              /\ i # Len(rest) => i + 1 \in 1 .. Len(rest)
            BY DEF IsTail
        <3>2. i # Len(rest) => rest[i + 1] = q[i + 1 + 1]
            BY <3>1 DEF IsTail
        <3> QED
            BY <3>1, <3>2 DEF ErasesRest
    <2> QED
        BY <2>1 DEF ErasesRest
<1>3. rest # <<>> => rest[1].at = q[1].at + BlockSize
    BY DEF ErasesRest, IsTail
<1>4. rest = <<>> => q[1].at = Last(c)
    BY DEF ErasesRest, IsTail
<1> QED
    BY <1>1, <1>2, <1>3, <1>4

(* The parts of a call have their types.                                   *)
LEMMA CallFacts ==
    ASSUME Types, call # Nothing
    PROVE  /\ call \in CallSet /\ call.at \in Nat /\ call.len \in Nat /\ call.value \in Values
           /\ After(call) = call.at + call.len /\ After(call) \in Nat
           /\ call.op \in {"read", "write", "erase"} => call.len > 0
           /\ call.op \in {"read", "write"} => After(call) <= Size
           /\ call.op \in {"write", "erase"} => Target(call) = call.at .. After(call) - 1
           /\ call.op \notin {"write", "erase"} => Target(call) = {}
BY DEF Types, CallSet, After, Target

(* What a range has around it, when it fits. *)
LEMMA SpanFacts ==
    ASSUME Types, call # Nothing, ErasesFit
    PROVE  /\ call.at \in Nat /\ After(call) \in Nat /\ First(call) \in Nat /\ Last(call) \in Nat
           /\ First(call) <= call.at /\ call.at < After(call) /\ After(call) <= Last(call) + BlockSize
           /\ First(call) <= Last(call) /\ Last(call) + BlockSize <= Size
           /\ Target(call) = call.at .. After(call) - 1
           /\ Target(call) \subseteq Span(call) /\ Span(call) \subseteq Words
           /\ Span(call) \ Target(call) =
                (First(call) .. call.at - 1) \cup (After(call) .. Last(call) + BlockSize - 1)
<1>1. call \in CallSet /\ call.len > 0 /\ After(call) <= Size /\ Target(call) = call.at .. After(call) - 1
    BY CallFacts DEF ErasesFit
<1>2. /\ First(call) \in Nat /\ Last(call) \in Nat /\ After(call) \in Nat /\ call.at \in Nat
      /\ First(call) <= call.at /\ call.at < First(call) + BlockSize /\ call.at < After(call)
      /\ Last(call) < After(call) /\ After(call) <= Last(call) + BlockSize
      /\ First(call) <= Last(call)
      /\ Last(call) + BlockSize <= Size
    BY <1>1, EraseGeometry
<1>3. /\ Target(call) \subseteq Span(call) /\ Span(call) \subseteq Words
      /\ Span(call) \ Target(call) =
                (First(call) .. call.at - 1) \cup (After(call) .. Last(call) + BlockSize - 1)
    BY <1>1, <1>2, SizeFacts DEF Span, Words
<1> QED
    BY <1>1, <1>2, <1>3

(* Programming a word twice to the same changes nothing.                   *)
LEMMA ProgrammedFacts ==
    /\ \A old, new \in Values : Programmed(old, new) \in Values
    /\ \A old, new : Programmed(Programmed(old, new), new) = Programmed(old, new)
    /\ \A new : Programmed(Blank, new) = new /\ Programmed(new, new) = new
BY DEF Programmed, Values, Blank, Mixed, Old

-----------------------------------------------------------------------------
(* The chip. *)
LEMMA ChipFrame ==
    ASSUME ChipWork
    PROVE  /\ request # Nothing /\ request' = Nothing
           /\ UNCHANGED <<geometry, loaded, config, call, phase, queue, valid, saved, pc, result, before, everLost, lost>>
           /\ Asks(request) => mem' = mem
BY DEF ChipWork, cacheVars, Asks

(* The chip serves a write, word by word.                                  *)
LEMMA Programs ==
    ASSUME Types, ChipWork, request.cmd = "write", NEW w \in Words
    PROVE  mem'[w] = IF request.at <= w /\ w < request.at + Len(request.words)
                       THEN Programmed(mem[w], request.words[w - request.at + 1]) ELSE mem[w]
<1>1. request \in Request
    BY DEF Types, ChipWork
<1>2. mem' = [x \in Words |-> IF x - request.at \in 0 .. Len(request.words) - 1
                                        THEN Programmed(mem[x], request.words[x - request.at + 1])
                                        ELSE mem[x]]
    BY DEF ChipWork
<1>3. w \in Int /\ request.at \in Nat /\ Len(request.words) \in Nat
    BY <1>1, RequestFacts, SizeFacts DEF Words
<1>4. w - request.at \in 0 .. Len(request.words) - 1 <=> request.at <= w /\ w < request.at + Len(request.words)
    BY <1>3
<1> QED
    BY <1>2, <1>4, Zenon

(* The chip serves an erase: the words of one block.                       *)
LEMMA ErasesABlock ==
    ASSUME Types, ChipWork, request.cmd = "erase", Block(request.at) * BlockSize = request.at, NEW w \in Words
    PROVE  mem'[w] = IF request.at <= w /\ w < request.at + BlockSize THEN Blank ELSE mem[w]
<1>1. request \in Request
    BY DEF Types, ChipWork
<1>2. mem' = [x \in Words |-> IF x \div BlockSize = request.at \div BlockSize THEN Blank ELSE mem[x]]
    BY DEF ChipWork
<1>3. w \in Nat /\ request.at \in Nat
    BY <1>1, RequestFacts, SizeFacts DEF Words
<1>4. w \div BlockSize = request.at \div BlockSize <=> request.at <= w /\ w < request.at + BlockSize
    BY <1>3, BlockOf DEF Block
<1> QED
    BY <1>2, <1>4, Zenon

(* A part of a write: the words are those of the whole at the same place. *)
LEMMA ProgramsPiece ==
    ASSUME Types, ChipWork, NEW at \in Nat, NEW words \in Seq(Values), Piece(request, at, words), NEW w \in Words
    PROVE  /\ request.at \in Nat /\ Len(request.words) \in Nat /\ Len(words) \in Nat
           /\ IF request.at <= w /\ w < request.at + Len(request.words)
                THEN /\ at <= w /\ w < at + Len(words) /\ w - at + 1 \in 1 .. Len(words)
                     /\ mem'[w] = Programmed(mem[w], words[w - at + 1])
                ELSE mem'[w] = mem[w]
<1>1. request \in Request /\ request.cmd = "write"
    BY DEF Types, ChipWork, Piece
<1>2. w \in Int /\ request.at \in Nat /\ Len(request.words) \in Nat /\ Len(words) \in Nat
    BY <1>1, RequestFacts, SizeFacts, LenProperties DEF Words
<1>3. mem'[w] = IF request.at <= w /\ w < request.at + Len(request.words)
                       THEN Programmed(mem[w], request.words[w - request.at + 1]) ELSE mem[w]
    BY <1>1, Programs
<1>4. ASSUME request.at <= w /\ w < request.at + Len(request.words)
      PROVE  /\ at <= w /\ w < at + Len(words) /\ w - at + 1 \in 1 .. Len(words)
             /\ request.words[w - request.at + 1] = words[w - at + 1]
    <2>1. at <= request.at /\ request.at + Len(request.words) <= at + Len(words)
        BY DEF Piece
    <2>2. PICK j \in 1 .. Len(request.words) : j = w - request.at + 1
        BY <1>2, <1>4
    <2>3. request.words[j] = words[request.at - at + j]
        BY DEF Piece
    <2>4. request.at - at + j = w - at + 1
        BY <2>2, <1>2
    <2>5. at <= w /\ w < at + Len(words)
        BY <1>2, <1>4, <2>1
    <2>6. w - at + 1 \in 1 .. Len(words)
        BY <1>2, <2>5
    <2>7. request.words[w - request.at + 1] = words[w - at + 1]
        BY <2>2, <2>3, <2>4, Zenon
    <2> QED
        BY <2>5, <2>6, <2>7
<1> QED
    BY <1>2, <1>3, <1>4

(* Restoring a word gives it the value it had, however often. *)
LEMMA RestoresPiece ==
    ASSUME Types, ChipWork, call # Nothing, ErasesFit, NEW at \in Nat, NEW words \in Seq(Values),
           Piece(request, at, words), \A i \in 1 .. Len(words) : words[i] = before[at + i - 1],
           at .. at + Len(words) - 1 \subseteq Span(call) \ Target(call),
           NothingBut(Span(call)), Erased(Target(call)), MayRestore
    PROVE  /\ (NothingBut(Span(call)))' /\ (Erased(Target(call)))' /\ MayRestore'
           /\ \A w \in request.at .. request.at + Len(request.words) - 1 : mem'[w] = before[w]
           /\ \A w \in Words : mem[w] = before[w] => mem'[w] = before[w]
<1>1. UNCHANGED <<call, before>>
    BY ChipFrame
<1>2. Target(call) \subseteq Span(call) /\ Span(call) \subseteq Words
    BY SpanFacts
<1>3. request.at \in Nat /\ Len(request.words) \in Nat /\ Len(words) \in Nat
    <2>1. request \in Request
        BY DEF Types, ChipWork
    <2> QED
        BY <2>1, RequestFacts, LenProperties
<1>4. ASSUME NEW w \in Words, request.at <= w /\ w < request.at + Len(request.words)
      PROVE  w \in Span(call) \ Target(call) /\ mem'[w] = before[w]
    <2>1. /\ at <= w /\ w < at + Len(words) /\ w - at + 1 \in 1 .. Len(words)
          /\ mem'[w] = Programmed(mem[w], words[w - at + 1])
        BY <1>4, ProgramsPiece
    <2>2. w \in Span(call) \ Target(call)
        <3>1. w \in at .. at + Len(words) - 1
            BY <2>1, <1>3, SizeFacts DEF Words
        <3> QED
            BY <3>1
    <2>3. words[w - at + 1] = before[w]
        <3>1. at + (w - at + 1) - 1 = w
            BY <2>1, SizeFacts DEF Words
        <3> QED
            BY <3>1, <2>1
    <2>4. mem[w] \in {Blank, before[w]}
        BY <2>2 DEF MayRestore
    <2> QED
        BY <2>1, <2>2, <2>3, <2>4, ProgrammedFacts
<1>5. ASSUME NEW w \in Words, ~(request.at <= w /\ w < request.at + Len(request.words))
      PROVE  mem'[w] = mem[w]
    BY <1>5, ProgramsPiece
<1>6. \A w \in Words : mem[w] = before[w] => mem'[w] = before[w]
    BY <1>4, <1>5
<1>7. (NothingBut(Span(call)))'
    BY <1>1, <1>6 DEF NothingBut
<1>8. (Erased(Target(call)))'
    BY <1>1, <1>2, <1>4, <1>5 DEF Erased
<1>9. MayRestore'
    BY <1>1, <1>2, <1>4, <1>5 DEF MayRestore
<1>10. \A w \in request.at .. request.at + Len(request.words) - 1 : mem'[w] = before[w]
    <2>1. SUFFICES ASSUME NEW w \in request.at .. request.at + Len(request.words) - 1
                   PROVE  mem'[w] = before[w]
        OBVIOUS
    <2>2. w \in at .. at + Len(words) - 1
        <3>1. at <= request.at /\ request.at + Len(request.words) <= at + Len(words)
            BY DEF Piece
        <3> QED
            BY <3>1, <1>3
    <2>3. w \in Words /\ request.at <= w /\ w < request.at + Len(request.words)
        <3>1. w \in Words
            BY <2>2, <1>2
        <3> QED
            BY <3>1, <1>3, SizeFacts DEF Words
    <2> QED
        BY <2>3, <1>4
<1> QED
    BY <1>6, <1>7, <1>8, <1>9, <1>10

(* The chip serves a request: types and line.                              *)
LEMMA ChipTypes ==
    ASSUME Safe, ChipWork
    PROVE  Types' /\ Line'
<1>1. request \in Request /\ request' = Nothing
    BY DEF Safe, Types, ChipWork
<1>2. /\ request.cmd \in Commands /\ request.at \in Nat /\ request.len \in Nat /\ request.words \in Seq(Values)
      /\ request.cmd = "read" => request.at + request.len <= Size
    BY <1>1 DEF Request
<1>3. mem \in [Words -> Values] /\ setup \in [Items -> Values]
    BY DEF Safe, Types
<1>4. mem' \in [Words -> Values]
    <2>1. CASE request.cmd = "write"
        <3>1. mem' = [x \in Words |-> IF x - request.at \in 0 .. Len(request.words) - 1
                                        THEN Programmed(mem[x], request.words[x - request.at + 1])
                                        ELSE mem[x]]
            BY <2>1 DEF ChipWork
        <3>2. ASSUME NEW x \in Words
              PROVE  (IF x - request.at \in 0 .. Len(request.words) - 1
                        THEN Programmed(mem[x], request.words[x - request.at + 1]) ELSE mem[x]) \in Values
            <4>1. mem[x] \in Values
                BY <1>3
            <4>2. x - request.at \in 0 .. Len(request.words) - 1 => x - request.at + 1 \in 1 .. Len(request.words)
                <5>1. x \in Int /\ Len(request.words) \in Nat
                    BY <1>2, LenProperties, SizeFacts DEF Words
                <5> QED
                    BY <5>1, <1>2
            <4>3. x - request.at \in 0 .. Len(request.words) - 1 => request.words[x - request.at + 1] \in Values
                BY <4>2, <1>2, ElementOfSeq
            <4> QED
                BY <4>1, <4>3, ProgrammedFacts
        <3> QED
            BY <3>1, <3>2, Zenon
    <2>2. CASE request.cmd = "erase"
        <3>1. mem' = [x \in Words |-> IF x \div BlockSize = request.at \div BlockSize THEN Blank ELSE mem[x]]
            BY <2>2 DEF ChipWork
        <3>2. ASSUME NEW x \in Words
              PROVE  (IF x \div BlockSize = request.at \div BlockSize THEN Blank ELSE mem[x]) \in Values
            BY <1>3 DEF Values
        <3> QED
            BY <3>1, <3>2, Zenon
    <2>3. CASE Asks(request)
        BY <2>3, <1>3, ChipFrame
    <2> QED
        BY <2>1, <2>2, <2>3 DEF Asks
<1>5. setup' \in [Items -> Values]
    <2>1. request.words # <<>> => request.words[1] \in Values
        BY <1>2, EmptySeq, ElementOfSeq
    <2> QED
        BY <2>1, <1>3 DEF ChipWork
<1>6. answer' \in Answer
    <2>1. CASE request.cmd = "read"
        <3>1. answer' = [cmd |-> request.cmd, words |-> [i \in 1 .. request.len |-> mem[request.at + i - 1]]]
            BY <2>1 DEF ChipWork
        <3>2. \A i \in 1 .. request.len : request.at + i - 1 \in Words
            BY <2>1, <1>2, SizeFacts DEF Words
        <3>3. [i \in 1 .. request.len |-> mem[request.at + i - 1]] \in Seq(Values)
            BY <3>2, <1>2, <1>3
        <3>4. request.cmd \notin Items
            BY <2>1 DEF Items
        <3> QED
            BY <3>1, <3>3, <3>4, <1>2 DEF Answer
    <2>2. CASE request.cmd # "read" /\ request.cmd \in Items
        <3>1. answer' = [cmd |-> request.cmd, words |-> <<setup[request.cmd]>>]
            BY <2>2 DEF ChipWork
        <3>2. <<setup[request.cmd]>> \in Seq(Values) /\ <<setup[request.cmd]>> # <<>>
            BY <2>2, <1>3
        <3> QED
            BY <3>1, <3>2, <1>2 DEF Answer
    <2>3. CASE request.cmd # "read" /\ request.cmd \notin Items
        <3>1. answer' = [cmd |-> request.cmd, words |-> <<>>]
            BY <2>3 DEF ChipWork
        <3>2. <<>> \in Seq(Values)
            OBVIOUS
        <3> QED
            BY <2>3, <3>1, <3>2, <1>2 DEF Answer
    <2> QED
        BY <2>1, <2>2, <2>3
<1>7. Types'
    BY <1>1, <1>4, <1>5, <1>6, ChipFrame DEF Safe, Types
<1>8. Line'
    BY <1>1, ChipFrame DEF Safe, Line
<1> QED
    BY <1>7, <1>8

(* In a phase of a call the chip works on what the call has asked for. *)
LEMMA ChipHead ==
    ASSUME Safe, ChipWork, pc # "idle"
    PROVE  /\ queue \in Seq(Request) /\ queue # <<>> /\ Head(queue) = queue[1] /\ queue[1] \in Request
           /\ Len(queue) \in Nat \ {0} /\ 1 \in 1 .. Len(queue)
           /\ pc = "poll" \/ lost = "no" => request = queue[1]
           /\ request \in Request /\ call # Nothing /\ call \in CallSet
<1>1. queue \in Seq(Request) /\ queue # <<>> /\ call # Nothing
    BY DEF Safe, Types, Line
<1>2. Head(queue) = queue[1] /\ queue[1] \in Request /\ Len(queue) \in Nat \ {0}
    BY <1>1, QueueTail DEF IsTail
<1>3. request # Nothing /\ request \in Request
    BY DEF Safe, Types, ChipWork
<1>4. pc = "poll" \/ lost = "no" => request = queue[1]
    BY <1>2, <1>3 DEF Safe, Line
<1> QED
    BY <1>1, <1>2, <1>3, <1>4, CallFacts DEF Safe

(* A query leaves the flash alone.                                         *)
LEMMA ChipWhileAsking ==
    ASSUME Safe, ChipWork
    PROVE  Asked' /\ Saving'
<1>1. lost # "late" /\ phase \in Asking => mem' = mem /\ mem = before
    BY ChipFrame DEF Safe, Asked
<1>2. Asked'
    BY <1>1, ChipFrame DEF Safe, Asked
<1>3. ASSUME phase = "save", lost # "late", HasAnswer'
      PROVE  /\ Len(answer'.words) = queue[1].len
             /\ \A i \in 1 .. Len(answer'.words) : answer'.words[i] = before[queue[1].at + i - 1]
    <2>1. pc = "poll"
        BY <1>3, ChipFrame DEF HasAnswer
    <2>2. request = queue[1] /\ request \in Request /\ 1 \in 1 .. Len(queue)
        BY <2>1, ChipHead
    <2>3. request \in {SavesHead(call), SavesTail(call)}
        BY <2>2, <1>3 DEF Safe, Saving
    <2>4. request.cmd = "read"
        BY <2>3 DEF SavesHead, SavesTail, Read
    <2>5. answer' = [cmd |-> request.cmd, words |-> [i \in 1 .. request.len |-> mem[request.at + i - 1]]]
        BY <2>4 DEF ChipWork
    <2>6. mem = before
        BY <1>1, <1>3 DEF Asking
    <2>7. answer'.words = [i \in 1 .. request.len |-> before[request.at + i - 1]] /\ request.len \in Nat
        BY <2>2, <2>5, <2>6, RequestFacts
    <2> QED
        BY <2>2, <2>7
<1>4. Saving'
    <2>1. SavedExact' <=> SavedExact
        BY ChipFrame DEF SavedExact, SavedHead, SavedTail
    <2> QED
        BY <1>3, <2>1, ChipFrame DEF Safe, Saving, ErasesFit
<1> QED
    BY <1>2, <1>4

(* The chip erases a block of the call.                                    *)
LEMMA ChipErases ==
    ASSUME Safe, ChipWork, lost # "late", call # Nothing, ErasesFit, ErasesOf(request, call), NothingBut(Span(call))
    PROVE  /\ (NothingBut(Span(call)))'
           /\ \A w \in request.at .. request.at + BlockSize - 1 : w \in Words /\ mem'[w] = Blank
           /\ \A w \in Words : mem'[w] = Blank \/ mem'[w] = mem[w]
<1>1. request.cmd = "erase" /\ Block(request.at) * BlockSize = request.at /\ First(call) <= request.at /\ request.at <= Last(call)
    BY DEF ErasesOf
<1>2. \A w \in Words : mem'[w] = IF request.at <= w /\ w < request.at + BlockSize THEN Blank ELSE mem[w]
    BY <1>1, ErasesABlock DEF Safe
<1>3. request.at \in Nat
    <2>1. request \in Request
        BY DEF Safe, Types, ChipWork
    <2> QED
        BY <2>1, RequestFacts
<1>4. Types /\ First(call) \in Nat /\ Last(call) \in Nat /\ Span(call) \subseteq Words
    BY SpanFacts DEF Safe
<1>5. ASSUME NEW w \in Int, request.at <= w, w < request.at + BlockSize PROVE w \in Span(call)
    BY <1>1, <1>3, <1>4, <1>5, SizeFacts DEF Span
<1>6. (NothingBut(Span(call)))'
    <2>1. ASSUME NEW w \in Words \ Span(call) PROVE mem'[w] = before[w]
        <3>1. w \in Int
            BY SizeFacts DEF Words
        <3>2. mem'[w] = mem[w]
            BY <3>1, <1>2, <1>5
        <3> QED
            BY <3>2 DEF NothingBut
    <2> QED
        BY <2>1, ChipFrame DEF NothingBut
<1>7. ASSUME NEW w \in request.at .. request.at + BlockSize - 1 PROVE w \in Words /\ mem'[w] = Blank
    <2>1. w \in Int /\ request.at <= w /\ w < request.at + BlockSize
        BY <1>3, SizeFacts
    <2>2. w \in Words
        BY <2>1, <1>4, <1>5
    <2> QED
        BY <2>1, <2>2, <1>2
<1> QED
    BY <1>2, <1>6, <1>7

LEMMA ChipWhileErasing ==
    ASSUME Safe, ChipWork
    PROVE  Erasing'
<1> SUFFICES ASSUME phase = "erase"
             PROVE  Erasing'
    BY ChipFrame DEF Erasing
<1>1. pc # "idle" /\ ErasesFit /\ geometry = True /\ ErasesRest(queue, call)
    BY DEF Safe, Line, Erasing
<1>2. ErasesOf(queue[1], call) /\ call # Nothing
    BY <1>1, ChipHead DEF ErasesRest
<1>3. /\ ErasesFit' /\ geometry' = True /\ (ErasesRest(queue, call))' /\ (SavedWhole' <=> SavedWhole) /\ (SavedExact' <=> SavedExact)
      /\ lost' = lost /\ request' = Nothing /\ phase' = phase
    BY <1>1, ChipFrame DEF ErasesFit, ErasesRest, SavedWhole, SavedExact, SavedHead, SavedTail
<1>4. ASSUME lost # "late"
      PROVE  /\ (NothingBut(Span(call)))'
             /\ \A w \in Span(call) : w < queue[1].at => mem'[w] = Blank
             /\ HasAnswer' => \A w \in queue[1].at .. queue[1].at + BlockSize - 1 : mem'[w] = Blank
    <2>1. /\ Asks(request) \/ request = queue[1]
          /\ NothingBut(Span(call))
          /\ \A w \in Span(call) : w < queue[1].at => mem[w] = Blank
        BY <1>4, ChipFrame DEF Safe, Erasing
    <2>2. CASE Asks(request)
        <3>1. mem' = mem /\ UNCHANGED <<call, before, pc>>
            BY <2>2, ChipFrame
        <3>2. pc # "poll"
            BY <2>2, <1>1, <1>2, ChipHead DEF Asks, ErasesOf
        <3>3. (NothingBut(Span(call)))'
            BY <2>1, <3>1 DEF NothingBut
        <3> QED
            BY <2>1, <3>1, <3>2, <3>3 DEF HasAnswer
    <2>3. CASE request = queue[1]
        <3>1. /\ (NothingBut(Span(call)))'
              /\ \A w \in request.at .. request.at + BlockSize - 1 : w \in Words /\ mem'[w] = Blank
              /\ \A w \in Words : mem'[w] = Blank \/ mem'[w] = mem[w]
            BY <2>1, <2>3, <1>1, <1>2, <1>4, ChipErases
        <3>2. Span(call) \subseteq Words
            BY <1>1, <1>2, SpanFacts DEF Safe
        <3> QED
            BY <2>1, <2>3, <3>1, <3>2
    <2> QED
        BY <2>1, <2>2, <2>3
<1>5. call' = call /\ queue' = queue /\ before' = before
    BY ChipFrame
<1>6. lost # "late" => SavedExact
    BY DEF Safe, Erasing
<1>7. lost = "no" => SavedWhole
    BY DEF Safe, Erasing
<1> QED
    BY <1>3, <1>4, <1>5, <1>6, <1>7 DEF Erasing

(* What has been saved lies around the range. *)
LEMMA SavedRanges ==
    ASSUME Types, call # Nothing, ErasesFit, SavedExact
    PROVE  /\ saved.head \in Seq(Values) /\ saved.tail \in Seq(Values)
           /\ Len(saved.head) \in Nat /\ Len(saved.tail) \in Nat
           /\ First(call) .. First(call) + Len(saved.head) - 1 \subseteq Span(call) \ Target(call)
           /\ After(call) .. After(call) + Len(saved.tail) - 1 \subseteq Span(call) \ Target(call)
           /\ \A i \in 1 .. Len(saved.head) : saved.head[i] = before[First(call) + i - 1]
           /\ \A i \in 1 .. Len(saved.tail) : saved.tail[i] = before[After(call) + i - 1]
           /\ saved.head # <<>> => First(call) + Len(saved.head) = call.at
           /\ saved.tail # <<>> => After(call) + Len(saved.tail) = Last(call) + BlockSize
<1>1. saved.head \in Seq(Values) /\ saved.tail \in Seq(Values)
    BY DEF Types
<1>2. Len(saved.head) \in Nat /\ Len(saved.tail) \in Nat
    BY <1>1, LenProperties
<1>3. (saved.head = <<>> => Len(saved.head) = 0) /\ (saved.tail = <<>> => Len(saved.tail) = 0)
    OBVIOUS
<1>4. /\ call.at \in Nat /\ After(call) \in Nat /\ First(call) \in Nat /\ Last(call) \in Nat
      /\ Span(call) \ Target(call) =
           (First(call) .. call.at - 1) \cup (After(call) .. Last(call) + BlockSize - 1)
      /\ BlockSize \in Nat
    BY SpanFacts, SizeFacts
<1>5. /\ saved.head # <<>> => First(call) + Len(saved.head) = call.at
      /\ saved.tail # <<>> => After(call) + Len(saved.tail) = Last(call) + BlockSize
    BY <1>2, <1>4 DEF SavedExact, SavedHead, SavedTail
<1>6. First(call) .. First(call) + Len(saved.head) - 1 \subseteq Span(call) \ Target(call)
    BY <1>2, <1>3, <1>4, <1>5
<1>7. After(call) .. After(call) + Len(saved.tail) - 1 \subseteq Span(call) \ Target(call)
    BY <1>2, <1>3, <1>4, <1>5
<1>8. \A i \in 1 .. Len(saved.head) : saved.head[i] = before[First(call) + i - 1]
    BY <1>3 DEF SavedExact, SavedHead
<1>9. \A i \in 1 .. Len(saved.tail) : saved.tail[i] = before[After(call) + i - 1]
    BY <1>3 DEF SavedExact, SavedTail
<1> QED
    BY <1>1, <1>2, <1>5, <1>6, <1>7, <1>8, <1>9

(* The chip writes a piece of what was saved.                              *)
LEMMA ChipRestores ==
    ASSUME Safe, ChipWork, call # Nothing, ErasesFit, SavedExact,
           NothingBut(Span(call)), Erased(Target(call)), MayRestore,
           Piece(request, First(call), saved.head) \/ Piece(request, After(call), saved.tail)
    PROVE  /\ (NothingBut(Span(call)))' /\ (Erased(Target(call)))' /\ MayRestore' /\ SavedExact'
           /\ \A w \in request.at .. request.at + Len(request.words) - 1 : mem'[w] = before[w]
           /\ \A w \in Words : mem[w] = before[w] => mem'[w] = before[w]
<1>1. Types /\ First(call) \in Nat /\ After(call) \in Nat
    BY SpanFacts DEF Safe
<1>2. SavedExact'
    BY ChipFrame DEF SavedExact, SavedHead, SavedTail
<1>3. CASE Piece(request, First(call), saved.head)
    BY <1>1, <1>2, <1>3, SavedRanges, RestoresPiece
<1>4. CASE Piece(request, After(call), saved.tail)
    BY <1>1, <1>2, <1>4, SavedRanges, RestoresPiece
<1> QED
    BY <1>3, <1>4

LEMMA ChipWhileRestoring ==
    ASSUME Safe, ChipWork
    PROVE  RestoresHead' /\ RestoresTail'
<1>0. UNCHANGED <<geometry, loaded, config, call, phase, queue, valid, saved, pc, result, before, everLost, lost>>
    BY ChipFrame
<1>1. ASSUME phase = "restore_head" PROVE RestoresHead'
    <2>1. /\ ErasesFit /\ geometry = True /\ saved.head # <<>>
          /\ Pieces(queue, First(call), saved.head) /\ pc # "idle"
        BY <1>1 DEF Safe, RestoresHead, Line
    <2>2. 1 \in 1 .. Len(queue) /\ call # Nothing /\ call \in CallSet
        BY <2>1, ChipHead
    <2>3. Piece(queue[1], First(call), saved.head)
        BY <2>1, <2>2 DEF Pieces
    <2>4. ErasesFit' /\ geometry' = True /\ saved'.head # <<>> /\ (Pieces(queue, First(call), saved.head))'
        BY <2>1, <1>0 DEF ErasesFit, Pieces
    <2>5. ASSUME lost # "late"
          PROVE  /\ Restores'
                 /\ lost = "no" => \A w \in Span(call) : w < queue[1].at => mem'[w] = before[w]
        <3>1. Restores /\ request = queue[1]
            BY <1>1, <2>5, ChipFrame DEF Safe, RestoresHead
        <3>2. SavedExact /\ NothingBut(Span(call)) /\ Erased(Target(call)) /\ MayRestore /\ (lost = "no" => SavedWhole)
            BY <3>1 DEF Restores
        <3>3. /\ (NothingBut(Span(call)))' /\ (Erased(Target(call)))' /\ MayRestore' /\ SavedExact'
              /\ \A w \in queue[1].at .. queue[1].at + Len(queue[1].words) - 1 : mem'[w] = before[w]
              /\ \A w \in Words : mem[w] = before[w] => mem'[w] = before[w]
            BY <2>1, <2>2, <2>3, <3>1, <3>2, ChipRestores
        <3>4. lost' = "no" => SavedWhole'
            BY <3>2, <1>0 DEF SavedWhole
        <3>5. Restores'
            BY <3>3, <3>4, <1>0 DEF Restores
        <3>6. ASSUME lost = "no", NEW w \in Span(call), w < queue[1].at PROVE mem'[w] = before[w]
            <4>1. mem[w] = before[w]
                BY <1>1, <2>5, <3>6 DEF Safe, RestoresHead
            <4>2. w \in Words
                BY <2>1, <2>2, SpanFacts DEF Safe
            <4> QED
                BY <4>1, <4>2, <3>3
        <3> QED
            BY <3>5, <3>6
    <2> QED
        BY <2>4, <2>5, <1>0, ChipFrame DEF RestoresHead
<1>2. ASSUME phase = "restore_tail" PROVE RestoresTail'
    <2>1. /\ ErasesFit /\ geometry = True /\ saved.tail # <<>>
          /\ Pieces(queue, After(call), saved.tail) /\ pc # "idle"
        BY <1>2 DEF Safe, RestoresTail, Line
    <2>2. 1 \in 1 .. Len(queue) /\ call # Nothing /\ call \in CallSet /\ (pc = "poll" \/ lost = "no" => request = queue[1])
        BY <2>1, ChipHead
    <2>3. Piece(queue[1], After(call), saved.tail)
        BY <2>1, <2>2 DEF Pieces
    <2>4. ErasesFit' /\ geometry' = True /\ saved'.tail # <<>> /\ (Pieces(queue, After(call), saved.tail))'
        BY <2>1, <1>0 DEF ErasesFit, Pieces
    <2>5. ASSUME lost # "late"
          PROVE  /\ Restores'
                 /\ lost = "no" => \A w \in Span(call) : w < call.at \/ (After(call) <= w /\ w < queue[1].at) => mem'[w] = before[w]
        <3>1. Restores /\ (request = queue[1] \/ Piece(request, First(call), saved.head))
            BY <1>2, <2>5, ChipFrame DEF Safe, RestoresTail
        <3>2. SavedExact /\ NothingBut(Span(call)) /\ Erased(Target(call)) /\ MayRestore /\ (lost = "no" => SavedWhole)
            BY <3>1 DEF Restores
        <3>3. /\ (NothingBut(Span(call)))' /\ (Erased(Target(call)))' /\ MayRestore' /\ SavedExact'
              /\ \A w \in request.at .. request.at + Len(request.words) - 1 : mem'[w] = before[w]
              /\ \A w \in Words : mem[w] = before[w] => mem'[w] = before[w]
            BY <2>1, <2>2, <2>3, <3>1, <3>2, ChipRestores
        <3>4. lost' = "no" => SavedWhole'
            BY <3>2, <1>0 DEF SavedWhole
        <3>5. Restores'
            BY <2>2, <3>3, <3>4, <1>0 DEF Restores, HasAnswer
        <3>6. ASSUME lost = "no", NEW w \in Span(call), w < call.at \/ (After(call) <= w /\ w < queue[1].at) PROVE mem'[w] = before[w]
            <4>1. mem[w] = before[w]
                BY <1>2, <2>5, <3>6 DEF Safe, RestoresTail
            <4>2. w \in Words
                BY <2>1, <2>2, SpanFacts DEF Safe
            <4> QED
                BY <4>1, <4>2, <3>3
        <3> QED
            BY <3>5, <3>6
    <2> QED
        BY <2>4, <2>5, <1>0, ChipFrame DEF RestoresTail
<1> QED
    BY <1>0, <1>1, <1>2 DEF RestoresHead, RestoresTail

(* A word of a write() may be programmed again, to the same. *)
LEMMA ChipWrites ==
    ASSUME Safe, ChipWork, call # Nothing, call.op = "write", Piece(request, call.at, Filled(call)),
           NothingBut(Target(call)), \A w \in Target(call) : mem[w] = before[w] \/ Written(w)
    PROVE  /\ (NothingBut(Target(call)))'
           /\ \A w \in Target(call) : mem'[w] = before[w] \/ Written(w)'
           /\ \A w \in Target(call) : Written(w) => Written(w)'
           /\ \A w \in request.at .. request.at + Len(request.words) - 1 : w \in Target(call) /\ Written(w)'
<1>1. UNCHANGED <<call, before>> /\ Types
    BY ChipFrame DEF Safe
<1>2. /\ call.at \in Nat /\ call.len \in Nat /\ call.value \in Values
      /\ After(call) = call.at + call.len /\ After(call) <= Size /\ Target(call) = call.at .. After(call) - 1
    BY <1>1, CallFacts
<1>3. /\ Filled(call) \in Seq(Values) /\ Len(Filled(call)) = call.len
      /\ \A i \in 1 .. call.len : Filled(call)[i] = call.value
    BY <1>2 DEF Filled
<1>4. request.at \in Nat /\ Len(request.words) \in Nat
    <2>1. request \in Request
        BY <1>1 DEF Types, ChipWork
    <2> QED
        BY <2>1, RequestFacts
<1>5. Target(call) \subseteq Words
    BY <1>2, SizeFacts DEF Words
<1>6. ASSUME NEW w \in Words, request.at <= w /\ w < request.at + Len(request.words)
      PROVE  w \in Target(call) /\ mem'[w] = Programmed(mem[w], call.value)
    <2>1. /\ call.at <= w /\ w < call.at + call.len /\ w - call.at + 1 \in 1 .. call.len
          /\ mem'[w] = Programmed(mem[w], Filled(call)[w - call.at + 1])
        BY <1>1, <1>2, <1>3, <1>6, ProgramsPiece
    <2>2. Filled(call)[w - call.at + 1] = call.value
        BY <1>3, <2>1
    <2>3. w \in Target(call)
        BY <1>2, <2>1, SizeFacts DEF Words
    <2> QED
        BY <2>1, <2>2, <2>3
<1>7. ASSUME NEW w \in Words, ~(request.at <= w /\ w < request.at + Len(request.words))
      PROVE  mem'[w] = mem[w]
    BY <1>1, <1>2, <1>3, <1>7, ProgramsPiece
<1>8. (NothingBut(Target(call)))'
    BY <1>1, <1>6, <1>7 DEF NothingBut
<1>9. ASSUME NEW w \in Target(call), Written(w) PROVE Written(w)'
    BY <1>1, <1>5, <1>6, <1>7, <1>9, ProgrammedFacts DEF Written
<1>10. ASSUME NEW w \in Target(call) PROVE mem'[w] = before[w] \/ Written(w)'
    BY <1>1, <1>5, <1>6, <1>7, <1>9 DEF Written
<1>11. ASSUME NEW w \in request.at .. request.at + Len(request.words) - 1 PROVE w \in Target(call) /\ Written(w)'
    <2>1. w \in Int /\ request.at <= w /\ w < request.at + Len(request.words)
        BY <1>4
    <2>2. call.at <= request.at /\ request.at + Len(request.words) <= call.at + call.len
        BY <1>3 DEF Piece
    <2>3. w \in Target(call)
        BY <2>1, <2>2, <1>2, <1>4
    <2>4. mem'[w] = Programmed(mem[w], call.value)
        BY <2>1, <2>3, <1>5, <1>6
    <2>5. mem[w] = before[w] \/ Written(w)
        BY <2>3
    <2> QED
        BY <2>3, <2>4, <2>5, <1>1, ProgrammedFacts DEF Written
<1> QED
    BY <1>8, <1>9, <1>10, <1>11

LEMMA ChipWhileWriting ==
    ASSUME Safe, ChipWork
    PROVE  Writing'
<1>0. UNCHANGED <<call, phase, queue, pc, before, lost>> /\ request # Nothing /\ request' = Nothing
    BY ChipFrame
<1> SUFFICES ASSUME phase = "write"
             PROVE  Writing'
    BY <1>0 DEF Writing
<1>1. call.op = "write" /\ Pieces(queue, call.at, Filled(call)) /\ pc # "idle"
    BY DEF Safe, Writing, Line
<1>2. 1 \in 1 .. Len(queue) /\ call # Nothing /\ Piece(queue[1], call.at, Filled(call))
    BY <1>1, ChipHead DEF Pieces
<1>3. call'.op = "write" /\ (Pieces(queue, call.at, Filled(call)))'
    BY <1>0, <1>1 DEF Pieces
<1>4. ASSUME lost # "late"
      PROVE  /\ (NothingBut(Target(call)))'
             /\ \A w \in Target(call) : mem'[w] = before[w] \/ Written(w)'
             /\ \A w \in Target(call) : w < queue[1].at => Written(w)'
             /\ \A w \in queue[1].at .. queue[1].at + Len(queue[1].words) - 1 : Written(w)'
    <2>1. /\ request = queue[1] /\ NothingBut(Target(call))
          /\ \A w \in Target(call) : mem[w] = before[w] \/ Written(w)
          /\ \A w \in Target(call) : w < queue[1].at => Written(w)
        BY <1>0, <1>4 DEF Safe, Writing
    <2>2. /\ (NothingBut(Target(call)))'
          /\ \A w \in Target(call) : mem'[w] = before[w] \/ Written(w)'
          /\ \A w \in Target(call) : Written(w) => Written(w)'
          /\ \A w \in request.at .. request.at + Len(request.words) - 1 : w \in Target(call) /\ Written(w)'
        BY <1>1, <1>2, <2>1, ChipWrites
    <2> QED
        BY <2>1, <2>2
<1> QED
    BY <1>0, <1>3, <1>4 DEF Writing

(* Of a call that has returned, the chip may still have a request that was *)
(* given up.                                                               *)
LEMMA ChipReturned ==
    ASSUME Safe, ChipWork
    PROVE  Returned'
<1>0. UNCHANGED <<call, saved, pc, result, before, lost>> /\ request # Nothing /\ request' = Nothing /\ Types
    BY ChipFrame DEF Safe
<1> SUFFICES ASSUME pc = "idle", call # Nothing, lost # "late"
             PROVE  Returned'
    BY <1>0 DEF Returned
<1>1. Returned /\ call \in CallSet
    BY CallFacts DEF Safe
<1>2. ASSUME call.op \notin {"write", "erase"} \/ (call.op = "erase" /\ result = "invalid")
      PROVE  mem' = before
    BY <1>0, <1>1, <1>2, ChipFrame DEF Returned
<1>3. ASSUME call.op = "write"
      PROVE  /\ (NothingBut(Target(call)))'
             /\ \A w \in Target(call) : mem'[w] = before[w] \/ Written(w)'
             /\ result # "ok"
    <2>1. /\ NothingBut(Target(call)) /\ \A w \in Target(call) : mem[w] = before[w] \/ Written(w)
          /\ Piece(request, call.at, Filled(call)) /\ result # "ok"
        BY <1>0, <1>1, <1>3 DEF Returned
    <2> QED
        BY <2>1, <1>3, ChipWrites
<1>4. ASSUME call.op = "erase", result = "i2c_error"
      PROVE  After(call) <= Size /\ lost # "no" /\ (NothingBut(Span(call)))'
    <2>1. /\ After(call) <= Size /\ lost # "no" /\ NothingBut(Span(call))
          /\ Asks(request) \/ ErasesOf(request, call)
        BY <1>0, <1>1, <1>4 DEF Returned
    <2>2. ErasesFit
        BY <1>4, <2>1 DEF ErasesFit
    <2>3. CASE Asks(request)
        BY <2>1, <2>3, <1>0, ChipFrame DEF NothingBut
    <2>4. CASE ErasesOf(request, call)
        BY <2>1, <2>2, <2>4, ChipErases
    <2> QED
        BY <2>1, <2>3, <2>4
<1>5. ASSUME call.op = "erase", result = "ok"
      PROVE  /\ After(call) <= Size /\ SavedExact'
             /\ (NothingBut(Span(call)))' /\ (Erased(Target(call)))' /\ MayRestore'
             /\ lost = "no" => (NothingBut(Target(call)))'
    <2>1. /\ After(call) <= Size /\ SavedExact
          /\ NothingBut(Span(call)) /\ Erased(Target(call)) /\ MayRestore
          /\ Piece(request, First(call), saved.head) \/ Piece(request, After(call), saved.tail)
          /\ lost = "no" => NothingBut(Target(call))
        BY <1>0, <1>1, <1>5 DEF Returned
    <2>2. ErasesFit
        BY <1>5, <2>1 DEF ErasesFit
    <2>3. /\ (NothingBut(Span(call)))' /\ (Erased(Target(call)))' /\ MayRestore' /\ SavedExact'
          /\ \A w \in Words : mem[w] = before[w] => mem'[w] = before[w]
        BY <2>1, <2>2, ChipRestores
    <2>4. lost = "no" => (NothingBut(Target(call)))'
        BY <2>1, <2>3, <1>0 DEF NothingBut
    <2> QED
        BY <2>1, <2>3, <2>4
<1>6. call.op = "erase" => result \in {"ok", "invalid", "i2c_error"}
    BY <1>1 DEF Returned
<1> HIDE DEF NothingBut, Written, Erased, MayRestore, SavedExact, Span, Target, After
<1>7. call' = call /\ result' = result /\ lost' = lost /\ request' = Nothing /\ before' = before /\ After(call)' = After(call)
    BY <1>0 DEF After
<1> QED
    BY <1>2, <1>3, <1>4, <1>5, <1>6, <1>7 DEF Returned

(* The chip changes its configuration only when it is told to. *)
LEMMA ChipConfiguration ==
    ASSUME Safe, ChipWork
    PROVE  Configuration'
<1>0. UNCHANGED <<loaded, config, call, phase, queue, pc, everLost, lost>> /\ request # Nothing /\ request' = Nothing
    BY ChipFrame
<1>1. /\ phase = "query" => \A i \in 1 .. Len(queue) : queue[i].cmd \in Items
      /\ phase = "set" =>
         /\ call.op = "setConfiguration"
         /\ \A i \in 1 .. Len(queue) : queue[i].cmd \in Items => queue[i].words = <<call.value>>
    BY DEF Safe, Configuration
<1>2. ASSUME everLost = FALSE
      PROVE  /\ "config" \in loaded /\ phase # "set" => config = setup'
             /\ phase = "query" => \A x \in Items : config[x] = setup'[x] \/ LeftIn(queue, x)
             /\ phase = "set" => \A x \in Items : setup'[x] = call.value \/ LeftIn(queue, x)
             /\ phase = "query" => answer'.words = <<setup'[queue[1].cmd]>>
             /\ phase = "set" /\ queue[1].cmd \in Items => setup'[queue[1].cmd] = call.value
    <2>1. lost = "no" /\ pc # "idle" /\ request = queue[1] /\ phase # "end"
        BY <1>0, <1>2 DEF Safe, Line
    <2>2. 1 \in 1 .. Len(queue)
        BY <2>1, ChipHead
    <2>3. setup' = IF request.cmd \in Items /\ request.words # <<>>
                     THEN [setup EXCEPT ![request.cmd] = request.words[1]] ELSE setup
        BY DEF ChipWork
    <2>4. ASSUME phase # "set" PROVE setup' = setup
        <3>1. ASSUME phase \in Asking PROVE request.cmd \in Items => request.words = <<>>
            BY <3>1, <2>1, <2>2, <2>4 DEF Safe, Asked
        <3>2. ASSUME phase \notin Asking PROVE request.cmd \in {"write", "erase"}
            <4>1. phase \in {"write", "erase", "restore_head", "restore_tail"}
                BY <3>2, <2>1 DEF Safe, Types, Asking, Restoring
            <4> QED
                BY <4>1, <2>1, <2>2
                DEF Safe, Writing, Erasing, RestoresHead, RestoresTail, Pieces, Piece, ErasesRest, ErasesOf
        <3>3. "write" \notin Items /\ "erase" \notin Items
            BY DEF Items
        <3> QED
            BY <3>1, <3>2, <3>3, <2>3
    <2>5. ASSUME phase = "set", NEW x \in Items
          PROVE  setup'[x] = IF x = request.cmd THEN call.value ELSE setup[x]
        <3>1. request.cmd \in Items => request.words = <<call.value>>
            BY <1>1, <2>1, <2>2, <2>5
        <3>2. <<call.value>> # <<>> /\ <<call.value>>[1] = call.value
            OBVIOUS
        <3>3. setup \in [Items -> Values]
            BY DEF Safe, Types
        <3> QED
            BY <2>3, <3>1, <3>2, <3>3
    <2>6. ASSUME phase = "query" PROVE answer'.words = <<setup'[queue[1].cmd]>>
        <3>1. request.cmd \in Items
            BY <1>1, <2>1, <2>2, <2>6
        <3>2. request.cmd # "read"
            BY <3>1 DEF Items
        <3>3. setup' = setup
            BY <2>4, <2>6
        <3>4. answer'.words = <<setup[request.cmd]>>
            BY <3>1, <3>2 DEF ChipWork
        <3> QED
            BY <3>3, <3>4, <2>1
    <2>7. /\ "config" \in loaded /\ phase # "set" => config = setup
          /\ phase = "query" => \A x \in Items : config[x] = setup[x] \/ LeftIn(queue, x)
          /\ phase = "set" => \A x \in Items : setup[x] = call.value \/ LeftIn(queue, x)
        BY <1>2 DEF Safe, Configuration
    <2>8. phase = "set" => \A x \in Items : setup'[x] = call.value \/ LeftIn(queue, x)
        BY <2>5, <2>7
    <2>9. phase = "set" /\ queue[1].cmd \in Items => setup'[queue[1].cmd] = call.value
        BY <2>1, <2>5
    <2> QED
        BY <2>4, <2>6, <2>7, <2>8, <2>9
<1> QED
    BY <1>0, <1>1, <1>2 DEF Configuration, LeftIn, HasAnswer

(* Whatever the chip has worked on.                                        *)
LEMMA ChipSafe ==
    ASSUME Safe, ChipWork
    PROVE  Safe'
<1>1. Geometry'
    BY ChipFrame DEF Safe, Geometry
<1> QED
    BY <1>1, ChipTypes, ChipWhileAsking, ChipWhileErasing, ChipWhileRestoring, ChipWhileWriting,
       ChipReturned, ChipConfiguration DEF Safe

(* A step that leaves the manager and the chip alone. *)
LEMMA Unchanged ==
    ASSUME Safe, UNCHANGED flashVars
    PROVE  Safe'
<1>1. UNCHANGED <<mem, setup, request, answer, geometry, loaded, config, call, phase, queue, valid, saved, pc,
                  result, before, everLost, lost>>
    BY DEF flashVars
<1>2. Types' /\ Line'
    BY <1>1 DEF Safe, Types, Line
<1>3. Asked' /\ Saving'
    BY <1>1 DEF Safe, Asked, Saving, ErasesFit, SavedExact, SavedHead, SavedTail, HasAnswer
<1>4. Erasing'
    BY <1>1 DEF Safe, Erasing, ErasesFit, ErasesRest, SavedWhole, SavedExact, SavedHead, SavedTail, HasAnswer, NothingBut
<1>5. /\ Restores' <=> Restores
      /\ ErasesFit' <=> ErasesFit
    BY <1>1 DEF Restores, ErasesFit, SavedWhole, SavedExact, SavedHead, SavedTail, HasAnswer, NothingBut, Erased, MayRestore
<1>6. RestoresHead' /\ RestoresTail'
    BY <1>1, <1>5 DEF Safe, RestoresHead, RestoresTail, Pieces
<1>7. Writing'
    BY <1>1 DEF Safe, Writing, Pieces, NothingBut, Written, HasAnswer
<1>8. Returned'
    <2>1. SavedExact' <=> SavedExact
        BY <1>1 DEF SavedExact, SavedHead, SavedTail
    <2>2. MayRestore' <=> MayRestore
        BY <1>1 DEF MayRestore
    <2> QED
        BY <1>1, <2>1, <2>2 DEF Safe, Returned, NothingBut, Written, Erased
<1>9. Geometry' /\ Configuration'
    BY <1>1 DEF Safe, Geometry, Configuration, LeftIn, HasAnswer
<1> QED
    BY <1>2, <1>3, <1>4, <1>6, <1>7, <1>8, <1>9 DEF Safe

(* A transaction is begun, or tried again: the call is where it was. *)
LEMMA InCall ==
    ASSUME Safe, pc # "idle", pc' \in {"send", "poll"},
           UNCHANGED <<mem, setup, geometry, loaded, config, call, phase, queue, valid, saved, result,
                       before, everLost, lost>>,
           request' \in {request, queue[1]}, answer' \in {answer, Nothing},
           pc' = "poll" => request' \in {Nothing, queue[1]},
           answer' # Nothing => request' = Nothing,
           HasAnswer' => HasAnswer /\ answer' = answer
    PROVE  Safe'
<1>1. queue \in Seq(Request) /\ queue # <<>> /\ call # Nothing /\ queue[1] \in Request /\ 1 \in 1 .. Len(queue) /\ phase # "end"
    <2>1. queue \in Seq(Request) /\ queue # <<>> /\ call # Nothing /\ phase # "end"
        BY DEF Safe, Types, Line
    <2>2. Len(queue) \in Nat \ {0} /\ queue[1] \in Request
        BY <2>1, QueueTail DEF IsTail
    <2> QED
        BY <2>1, <2>2
<1>2. Types'
    BY <1>1 DEF Safe, Types
<1>3. Line'
    BY <1>1 DEF Safe, Line
<1>4. Asked'
    BY <1>1 DEF Safe, Asked
<1>5. Saving'
    BY DEF Safe, Saving, ErasesFit, SavedExact, SavedHead, SavedTail
<1>6. Erasing'
    BY DEF Safe, Erasing, ErasesFit, ErasesRest, SavedWhole, SavedExact, SavedHead, SavedTail, NothingBut
<1>7. /\ Restores => Restores'
      /\ ErasesFit => ErasesFit'
    BY DEF Restores, ErasesFit, SavedWhole, SavedExact, SavedHead, SavedTail, NothingBut, Erased, MayRestore
<1>8. RestoresHead'
    BY <1>7 DEF Safe, RestoresHead, Pieces
<1>9. RestoresTail'
    BY <1>7 DEF Safe, RestoresTail, Pieces
<1>10. Writing'
    BY DEF Safe, Writing, Pieces, NothingBut, Written
<1>11. Returned'
    BY DEF Returned
<1>12. Geometry' /\ Configuration'
    BY DEF Safe, Geometry, Configuration, LeftIn
<1> QED
    BY <1>2, <1>3, <1>4, <1>5, <1>6, <1>8, <1>9, <1>10, <1>11, <1>12 DEF Safe

(* An attempt that failed, with more to come.                              *)
LEMMA RetrySafe ==
    ASSUME Safe, pc # "idle", NEW to \in {"send", "poll"}, Retry(to), UNCHANGED <<mem, setup, request>>,
           answer' \in {answer, Nothing}, to = "poll" => pc = "poll" /\ answer' = answer
    PROVE  Safe'
<1>1. /\ UNCHANGED <<geometry, loaded, config, call, phase, queue, valid, saved, result, before, everLost, lost>>
      /\ pc' = to
    BY DEF Retry, cacheVars
<1>2. HasAnswer' => HasAnswer /\ answer' = answer
    BY <1>1 DEF HasAnswer
<1>3. /\ pc' = "poll" => request' \in {Nothing, queue[1]}
      /\ answer' # Nothing => request' = Nothing
    BY <1>1 DEF Safe, Line
<1> QED
    BY <1>1, <1>2, <1>3, InCall

(* The request is on its way, and takes back an answer.                    *)
LEMMA SendSafe ==
    ASSUME Safe, pc = "send", request' = Head(queue), answer' = Nothing, pc' = "poll",
           UNCHANGED <<mem, setup, geometry, loaded, config, call, phase, queue, valid, saved, result,
                       before, everLost, lost>>
    PROVE  Safe'
<1>1. Head(queue) = queue[1]
    <2>1. queue \in Seq(Request) /\ queue # <<>>
        BY DEF Safe, Types, Line
    <2> QED
        BY <2>1, QueueTail
<1>2. ~HasAnswer'
    BY DEF HasAnswer
<1> QED
    BY <1>1, <1>2, InCall

-----------------------------------------------------------------------------
(* A request of a call has been served, or its transaction was given up.   *)
Serving(ok, words) ==
    /\ pc # "idle"
    /\ Served(ok, words)
    /\ UNCHANGED <<mem, setup, request>>
    /\ answer' \in {answer, Nothing}
    /\ ok => HasAnswer /\ answer.cmd = queue[1].cmd /\ words = answer.words /\ answer' = Nothing

Rest(ok) == IF ok \/ phase \notin {"restore_head", "restore_tail"} THEN Tail(queue) ELSE <<>>
Goes(next) == phase' = next.phase /\ queue' = next.queue /\ result' = next.result
Ends(r) == phase' = "end" /\ queue' = <<>> /\ result' = r
Stays(rest) == phase' = phase /\ queue' = rest /\ result' = "ok"
Fails(ok) == ~ok /\ phase \in {"read", "write", "erase"}

(* There is a request to serve.                                            *)
LEMMA ServedQueue ==
    ASSUME Safe, pc # "idle"
    PROVE  /\ queue \in Seq(Request) /\ queue # <<>> /\ Head(queue) = queue[1] /\ queue[1] \in Request
           /\ Len(queue) \in Nat \ {0} /\ 1 \in 1 .. Len(queue) /\ IsTail(Tail(queue), queue)
           /\ call # Nothing /\ call \in CallSet /\ phase # "end"
<1>1. queue \in Seq(Request) /\ queue # <<>> /\ call # Nothing /\ phase # "end"
    BY DEF Safe, Types, Line
<1>2. Head(queue) = queue[1] /\ IsTail(Tail(queue), queue)
    BY <1>1, QueueTail
<1>3. queue[1] \in Request /\ Len(queue) \in Nat \ {0}
    BY <1>2 DEF IsTail
<1> QED
    BY <1>1, <1>2, <1>3, CallFacts DEF Safe

(* Where the call goes on. *)
LEMMA ServedNext ==
    ASSUME Safe, NEW ok \in BOOLEAN, NEW words, Serving(ok, words)
    PROVE  /\ ~ok /\ phase = "read" => Ends("no_data")
           /\ ~ok /\ phase \in {"write", "erase"} => Ends("i2c_error")
           /\ ~Fails(ok) =>
                /\ Rest(ok) # <<>> => Stays(Rest(ok))
                /\ Rest(ok) = <<>> =>
                     /\ phase = "geometry" => Goes(AfterGeometry(call, geometry'))
                     /\ phase = "save" => phase' = "erase" /\ queue' = Erases(call, geometry') /\ result' = "ok"
                     /\ phase = "erase" => Goes(RestoreHead(call, geometry', saved'))
                     /\ phase = "restore_head" => Goes(RestoreTail(call, saved'))
                     /\ phase \notin {"geometry", "save", "erase", "restore_head"} => Ends("ok")
<1> DEFINE next == IF ~ok /\ phase = "read"
                      THEN [phase |-> "end", queue |-> <<>>, result |-> "no_data"]
                    ELSE IF ~ok /\ phase \in {"write", "erase"}
                      THEN [phase |-> "end", queue |-> <<>>, result |-> "i2c_error"]
                    ELSE Settled(call, phase, Rest(ok), geometry', saved')
<1>1. Goes(next)
    BY Zenon DEF Serving, Served, Continue, Rest, Goes
<1>2. ~ok /\ phase = "read" => Ends("no_data")
    BY <1>1 DEF Goes, Ends
<1>3. ~ok /\ phase \in {"write", "erase"} => Ends("i2c_error")
    BY <1>1 DEF Goes, Ends
<1>4. ASSUME ~Fails(ok) PROVE Goes(Settled(call, phase, Rest(ok), geometry', saved'))
    <2>1. next = Settled(call, phase, Rest(ok), geometry', saved')
        BY <1>4 DEF Fails
    <2> QED
        BY <1>1, <2>1
<1> HIDE DEF next
<1>5. ASSUME ~Fails(ok), Rest(ok) # <<>> PROVE Stays(Rest(ok))
    BY <1>4, <1>5 DEF Goes, Stays, Settled
<1>6. ASSUME ~Fails(ok), Rest(ok) = <<>>
      PROVE  Goes(Following(call, phase, geometry', saved'))
    BY <1>4, <1>6 DEF Settled
<1>7. ASSUME ~Fails(ok), Rest(ok) = <<>>
      PROVE  /\ phase = "geometry" => Goes(AfterGeometry(call, geometry'))
             /\ phase = "save" => phase' = "erase" /\ queue' = Erases(call, geometry') /\ result' = "ok"
             /\ phase = "erase" => Goes(RestoreHead(call, geometry', saved'))
             /\ phase = "restore_head" => Goes(RestoreTail(call, saved'))
             /\ phase \notin {"geometry", "save", "erase", "restore_head"} => Ends("ok")
    <2>1. CASE phase = "geometry"
        BY <1>6, <1>7, <2>1 DEF Following
    <2>2. CASE phase = "save"
        BY <1>6, <1>7, <2>2 DEF Following, Goes
    <2>3. CASE phase = "erase"
        BY <1>6, <1>7, <2>3 DEF Following
    <2>4. CASE phase = "restore_head"
        BY <1>6, <1>7, <2>4 DEF Following
    <2>5. CASE phase \notin {"geometry", "save", "erase", "restore_head"}
        BY <1>6, <1>7, <2>5 DEF Following, Goes, Ends
    <2> QED
        BY <2>1, <2>2, <2>3, <2>4, <2>5
<1> QED
    BY <1>2, <1>3, <1>5, <1>7

(* What else it changes. *)
LEMMA ServedFrame ==
    ASSUME Safe, NEW ok \in BOOLEAN, NEW words, Serving(ok, words)
    PROVE  /\ UNCHANGED <<mem, setup, request, call, before>>
           /\ answer' # Nothing => request' = Nothing
           /\ answer' \in {answer, Nothing}
           /\ pc' = IF phase' = "end" THEN "idle" ELSE "send"
           /\ ~HasAnswer'
           /\ lost' = IF ~ok /\ lost = "no" THEN "given_up" ELSE lost
           /\ everLost' \in BOOLEAN /\ (everLost' <=> everLost \/ ~ok)
           /\ lost' # "late" <=> lost # "late"
           /\ lost' = "no" => ok /\ lost = "no"
           /\ ok => HasAnswer /\ words = answer.words /\ pc = "poll" /\ request = Nothing
<1>1. /\ UNCHANGED <<mem, setup, request>> /\ answer' \in {answer, Nothing}
      /\ ok => HasAnswer /\ words = answer.words /\ answer' = Nothing
    BY DEF Serving
<1>2. UNCHANGED <<call, before>>
    BY DEF Serving, Served
<1>3. pc' = IF phase' = "end" THEN "idle" ELSE "send"
    BY Zenon DEF Serving, Served, Continue, Ended
<1>4. lost' = IF ~ok /\ lost = "no" THEN "given_up" ELSE lost
    BY DEF Serving, Served
<1>5. everLost' = (everLost \/ ~ok)
    BY DEF Serving, Served
<1>6. everLost' \in BOOLEAN /\ (everLost' <=> everLost \/ ~ok)
    BY <1>5 DEF Safe, Types
<1>7. (answer # Nothing => request = Nothing) /\ lost \in {"no", "given_up", "late"}
    BY DEF Safe, Line, Types
<1> QED
    BY <1>1, <1>2, <1>3, <1>4, <1>6, <1>7 DEF HasAnswer

(* And in the manager's copies. *)
LEMMA ServedCopies ==
    ASSUME Safe, NEW ok \in BOOLEAN, NEW words, Serving(ok, words)
    PROVE  /\ geometry' = IF ok /\ queue[1].cmd = "sector" THEN [geometry EXCEPT !.blockSize = BlockSize]
                          ELSE IF ok /\ queue[1].cmd = "disk" THEN [geometry EXCEPT !.blockCount = BlockCount]
                          ELSE geometry
           /\ valid' = IF queue[1].cmd = "sector" THEN ok ELSE valid /\ ok
           /\ loaded' = loaded
                \cup (IF queue[1].cmd = "disk" /\ valid' THEN {"geometry"} ELSE {})
                \cup (IF phase = "query" /\ phase' = "end" THEN {"config"} ELSE {})
           /\ config' = IF phase = "query"
                          THEN [config EXCEPT ![queue[1].cmd] = IF ok THEN words[1]
                                                ELSE IF queue[1].cmd = "name" THEN @ ELSE "junk"]
                        ELSE IF call.op = "setConfiguration" /\ phase' = "end" /\ result' = "ok"
                          THEN [i \in Items |-> call.value]
                        ELSE config
           /\ saved' = IF phase = "save" /\ ok
                         THEN [saved EXCEPT ![IF queue[1].at = call.at + call.len THEN "tail" ELSE "head"] = words]
                         ELSE saved
<1>1. Head(queue) = queue[1]
    BY ServedQueue DEF Serving
<1>2. geometry' = IF ok /\ queue[1].cmd = "sector" THEN [geometry EXCEPT !.blockSize = BlockSize]
                          ELSE IF ok /\ queue[1].cmd = "disk" THEN [geometry EXCEPT !.blockCount = BlockCount]
                          ELSE geometry
    <2>1. geometry' = IF ~ok THEN geometry
             ELSE IF Head(queue).cmd = "sector" THEN [geometry EXCEPT !.blockSize = BlockSize]
             ELSE IF Head(queue).cmd = "disk" THEN [geometry EXCEPT !.blockCount = BlockCount]
             ELSE geometry
        BY Zenon DEF Serving, Served
    <2> QED
        BY <1>1, <2>1, Zenon
<1>3. valid' = IF queue[1].cmd = "sector" THEN ok ELSE valid /\ ok
    BY <1>1, Zenon DEF Serving, Served, StillValid
<1>4. loaded' = loaded
                \cup (IF queue[1].cmd = "disk" /\ valid' THEN {"geometry"} ELSE {})
                \cup (IF phase = "query" /\ phase' = "end" THEN {"config"} ELSE {})
    BY <1>1, Zenon DEF Serving, Served, Continue, Ended
<1>5. config' = IF phase = "query"
                          THEN [config EXCEPT ![queue[1].cmd] = IF ok THEN words[1]
                                                ELSE IF queue[1].cmd = "name" THEN @ ELSE "junk"]
                        ELSE IF call.op = "setConfiguration" /\ phase' = "end" /\ result' = "ok"
                          THEN [i \in Items |-> call.value]
                        ELSE config
    BY <1>1, Zenon DEF Serving, Served, Continue, Ended
<1>6. saved' = IF phase = "save" /\ ok
                         THEN [saved EXCEPT ![IF queue[1].at = call.at + call.len THEN "tail" ELSE "head"] = words]
                         ELSE saved
    BY <1>1, Zenon DEF Serving, Served
<1> QED
    BY <1>2, <1>3, <1>4, <1>5, <1>6

(* Only the queries of the geometry change the copy of it. *)
LEMMA ServedElsewhere ==
    ASSUME Safe, NEW ok \in BOOLEAN, NEW words, Serving(ok, words), phase # "geometry"
    PROVE  geometry' = geometry /\ ("geometry" \in loaded' <=> "geometry" \in loaded)
<1>1. queue[1].cmd \notin {"sector", "disk"}
    <2>1. 1 \in 1 .. Len(queue) /\ phase # "end"
        BY ServedQueue DEF Serving
    <2>2. phase \in Asking => queue[1].cmd \notin {"sector", "disk"}
        BY <2>1 DEF Safe, Asked
    <2>3. phase \notin Asking => queue[1].cmd \in {"write", "erase"}
        <3>1. phase \notin Asking => phase \in {"write", "erase", "restore_head", "restore_tail"}
            BY <2>1 DEF Safe, Types, Restoring
        <3> QED
            BY <2>1, <3>1 DEF Safe, Writing, Erasing, RestoresHead, RestoresTail, Pieces, Piece, ErasesRest, ErasesOf
    <2> QED
        BY <2>2, <2>3
<1> QED
    BY <1>1, ServedCopies

(* Types and line, given those of what is left.                            *)
LEMMA ServedTypes ==
    ASSUME Safe, NEW ok \in BOOLEAN, NEW words, Serving(ok, words),
           queue' \in Seq(Request), result' \in {"ok", "no_data", "i2c_error", "invalid"},
           phase' \in Asking \cup Restoring \cup {"write", "erase", "end"}, phase' # "end" => queue' # <<>>
    PROVE  Types' /\ Line'
<1>1. Types /\ queue[1] \in Request /\ call # Nothing
    BY ServedQueue DEF Safe, Serving
<1>2. ok => words \in Seq(Values) /\ (queue[1].cmd \in Items => words[1] \in Values)
    <2>1. ok => answer \in Answer /\ words = answer.words /\ answer.cmd = queue[1].cmd
        BY <1>1 DEF Serving, HasAnswer, Types
    <2>2. ok => words \in Seq(Values) /\ (queue[1].cmd \in Items => words # <<>>)
        BY <2>1 DEF Answer
    <2> QED
        BY <2>2, EmptySeq, ElementOfSeq
<1>3. geometry' \in [blockSize : {0, BlockSize}, blockCount : {0, BlockCount}]
    BY <1>1, ServedCopies DEF Types
<1>4. saved' \in [head : Seq(Values), tail : Seq(Values)]
    <2>1. saved \in [head : Seq(Values), tail : Seq(Values)]
        BY <1>1 DEF Types
    <2>2. PICK x \in {"head", "tail"} : saved' = IF phase = "save" /\ ok THEN [saved EXCEPT ![x] = words] ELSE saved
        BY ServedCopies, Zenon
    <2>3. CASE x = "head" /\ phase = "save" /\ ok
        <3>1. saved' = [saved EXCEPT !.head = words]
            BY <2>2, <2>3
        <3> QED
            BY <3>1, <2>1, <2>3, <1>2
    <2>4. CASE x = "tail" /\ phase = "save" /\ ok
        <3>1. saved' = [saved EXCEPT !.tail = words]
            BY <2>2, <2>4
        <3> QED
            BY <3>1, <2>1, <2>4, <1>2
    <2> QED
        BY <2>1, <2>2, <2>3, <2>4
<1>5. config' \in [Items -> Values \cup {"unset", "junk"}]
    <2>1. config \in [Items -> Values \cup {"unset", "junk"}] /\ call.value \in Values
        BY <1>1, CallFacts DEF Types
    <2>2. CASE phase = "query"
        <3>1. queue[1].cmd \in Items
            BY <2>2, ServedQueue DEF Safe, Configuration, Serving
        <3>2. PICK v \in Values \cup {"unset", "junk"} : config' = [config EXCEPT ![queue[1].cmd] = v]
            <4>1. config' = [config EXCEPT ![queue[1].cmd] = IF ok THEN words[1]
                                                ELSE IF queue[1].cmd = "name" THEN @ ELSE "junk"]
                BY <2>2, ServedCopies
            <4>2. config[queue[1].cmd] \in Values \cup {"unset", "junk"}
                BY <2>1, <3>1
            <4> QED
                BY <4>1, <4>2, <1>2, <3>1
        <3> QED
            BY <2>1, <3>1, <3>2
    <2>3. CASE phase # "query"
        <3>1. config' = config \/ config' = [i \in Items |-> call.value]
            BY <2>3, ServedCopies
        <3> QED
            BY <3>1, <2>1
    <2> QED
        BY <2>2, <2>3
<1>6. valid' \in BOOLEAN
    BY <1>1, ServedCopies DEF Types
<1>7. /\ UNCHANGED <<mem, setup, request, call, before>>
      /\ answer' # Nothing => request' = Nothing
      /\ answer' \in {answer, Nothing}
      /\ pc' = IF phase' = "end" THEN "idle" ELSE "send"
      /\ lost' = IF ~ok /\ lost = "no" THEN "given_up" ELSE lost
      /\ everLost' \in BOOLEAN /\ (everLost' <=> everLost \/ ~ok)
      /\ lost' = "no" => ok /\ lost = "no"
      /\ ok => request = Nothing
    BY ServedFrame
<1>8. Types'
    BY <1>1, <1>3, <1>4, <1>5, <1>6, <1>7 DEF Types
<1>9. Line'
    BY <1>1, <1>7 DEF Safe, Line, Types
<1> QED
    BY <1>8, <1>9

(* Elsewhere than in the phases about the drive's configuration, its copy  *)
(* stays.                                                                  *)
LEMMA ServedNotConfiguring ==
    ASSUME Safe, NEW ok \in BOOLEAN, NEW words, Serving(ok, words),
           phase \notin {"query", "set"}, phase' \notin {"query", "set"},
           phase' = "end" /\ result' = "ok" => call.op # "setConfiguration"
    PROVE  Configuration'
<1>1. config' = config /\ ("config" \in loaded' <=> "config" \in loaded)
    BY ServedCopies
<1>2. everLost' = FALSE => everLost = FALSE
    BY ServedFrame DEF Safe, Types
<1>3. setup' = setup
    BY ServedFrame
<1> QED
    BY <1>1, <1>2, <1>3 DEF Safe, Configuration

(* A call that ends with what it has asked for. *)
LEMMA EndsAsking ==
    ASSUME Safe, phase \in Asking, UNCHANGED <<mem, request, call, before>>, lost' # "late" => lost # "late",
           phase' = "end",
           call.op = "erase" => result' = "invalid"
    PROVE  /\ Asked' /\ Saving' /\ Erasing' /\ RestoresHead' /\ RestoresTail' /\ Writing'
           /\ Returned'
<1>1. Asked' /\ Saving' /\ Erasing' /\ RestoresHead' /\ RestoresTail' /\ Writing'
    BY DEF Asked, Saving, Erasing, RestoresHead, RestoresTail, Writing, Asking
<1>2. call.op # "write" /\ (lost # "late" => mem = before /\ (request # Nothing => Asks(request)))
    BY DEF Safe, Asked
<1>3. Returned'
    BY <1>2 DEF Returned
<1> QED
    BY <1>1, <1>3

(* A call that goes on with its queue keeps what is true of each request.  *)
LEMMA StaysAsking ==
    ASSUME Safe, NEW ok \in BOOLEAN, NEW words, Serving(ok, words), phase \in Asking \ {"save"},
           Stays(Tail(queue))
    PROVE  /\ Asked' /\ Saving' /\ Erasing' /\ RestoresHead' /\ RestoresTail' /\ Writing'
           /\ Returned'
<1>1. IsTail(Tail(queue), queue)
    BY ServedQueue DEF Serving
<1>2. phase' = phase /\ queue' = Tail(queue) /\ pc' # "idle"
    BY ServedFrame DEF Stays, Asking
<1>3. \A i \in 1 .. Len(queue') : i + 1 \in 1 .. Len(queue) /\ queue'[i] = queue[i + 1]
    BY <1>1, <1>2 DEF IsTail
<1>4. Asked'
    <2>1. /\ UNCHANGED <<mem, request, call, before>> /\ (lost' # "late" <=> lost # "late")
        BY ServedFrame
    <2> QED
        BY <1>2, <1>3, <2>1 DEF Safe, Asked
<1>5. Saving' /\ Erasing' /\ RestoresHead' /\ RestoresTail' /\ Writing' /\ Returned'
    BY <1>2 DEF Saving, Erasing, RestoresHead, RestoresTail, Writing, Returned, Asking
<1> QED
    BY <1>4, <1>5

(* An item still in the queue is its head or in the rest.                  *)
LEMMA LeftInTail ==
    ASSUME NEW q, NEW rest, IsTail(rest, q), NEW x, LeftIn(q, x)
    PROVE  q[1].cmd = x \/ (LeftIn(rest, x) /\ rest # <<>>)
<1>1. PICK i \in 1 .. Len(q) : q[i].cmd = x
    BY DEF LeftIn
<1>2. CASE i = 1
    BY <1>1, <1>2
<1>3. CASE i # 1
    <2>1. i - 1 \in 1 .. Len(rest) /\ rest # <<>>
        BY <1>3 DEF IsTail
    <2>2. rest[i - 1] = q[i - 1 + 1]
        BY <2>1 DEF IsTail
    <2>3. rest[i - 1] = q[i]
        BY <2>2, <1>1 DEF IsTail
    <2> QED
        BY <1>1, <2>1, <2>3 DEF LeftIn
<1> QED
    BY <1>2, <1>3

(* getConfiguration() copies an item with each answer. *)
LEMMA ServedQuery ==
    ASSUME Safe, NEW ok \in BOOLEAN, NEW words, Serving(ok, words), phase = "query",
           (Tail(queue) # <<>> /\ Stays(Tail(queue))) \/ (Tail(queue) = <<>> /\ Ends("ok"))
    PROVE  Configuration'
<1>1. IsTail(Tail(queue), queue) /\ 1 \in 1 .. Len(queue)
    BY ServedQueue DEF Serving
<1>2. /\ UNCHANGED <<setup, call>> /\ ~HasAnswer' /\ (everLost' = FALSE => everLost = FALSE /\ ok)
      /\ ok => HasAnswer /\ words = answer.words
    BY ServedFrame DEF Safe, Types
<1>3. /\ config' = [config EXCEPT ![queue[1].cmd] = IF ok THEN words[1]
                                                ELSE IF queue[1].cmd = "name" THEN @ ELSE "junk"]
      /\ "config" \in loaded' => "config" \in loaded \/ phase' = "end"
    BY ServedCopies
<1>4. /\ config \in [Items -> Values \cup {"unset", "junk"}] /\ setup \in [Items -> Values]
      /\ \A i \in 1 .. Len(queue) : queue[i].cmd \in Items
    BY DEF Safe, Types, Configuration
<1>5. phase' \in {"query", "end"} /\ queue' = Tail(queue)
    BY DEF Stays, Ends
<1>6. phase' = "query" => \A i \in 1 .. Len(queue') : queue'[i].cmd \in Items
    BY <1>1, <1>4, <1>5 DEF IsTail
<1>7. ASSUME everLost' = FALSE
      PROVE  /\ \A x \in Items : config'[x] = IF x = queue[1].cmd THEN setup[x] ELSE config[x]
             /\ "config" \in loaded => config = setup
             /\ \A x \in Items : config[x] = setup[x] \/ LeftIn(queue, x)
    <2>1. everLost = FALSE /\ ok /\ HasAnswer /\ words = answer.words
        BY <1>2, <1>7
    <2>2. /\ answer.words = <<setup[queue[1].cmd]>>
          /\ "config" \in loaded => config = setup
          /\ \A x \in Items : config[x] = setup[x] \/ LeftIn(queue, x)
        BY <2>1 DEF Safe, Configuration
    <2>3. words[1] = setup[queue[1].cmd]
        BY <2>1, <2>2
    <2>4. config' = [config EXCEPT ![queue[1].cmd] = setup[queue[1].cmd]]
        BY <1>3, <2>1, <2>3
    <2> QED
        BY <1>4, <2>2, <2>4
<1>8. ASSUME everLost' = FALSE, NEW x \in Items
      PROVE  config'[x] = setup[x] \/ (LeftIn(queue', x) /\ queue' # <<>>)
    <2>1. CASE x = queue[1].cmd \/ config[x] = setup[x]
        BY <1>7, <1>8, <2>1
    <2>2. CASE x # queue[1].cmd /\ LeftIn(queue, x)
        BY <2>2, <1>1, <1>5, LeftInTail
    <2> QED
        BY <2>1, <2>2, <1>7, <1>8
<1>9. config' \in [Items -> Values \cup {"unset", "junk"}] \/ DOMAIN config' = Items
    BY <1>3, <1>4
<1>10. ASSUME everLost' = FALSE, "config" \in loaded'
       PROVE  config' = setup
    <2>1. \A x \in Items : config'[x] = setup[x]
        <3>1. CASE "config" \in loaded
            BY <3>1, <1>7, <1>10
        <3>2. CASE phase' = "end"
            <4>1. queue' = <<>>
                BY <3>2 DEF Stays, Ends
            <4> QED
                BY <4>1, <1>8, <1>10
        <3> QED
            BY <3>1, <3>2, <1>3, <1>10
    <2>2. config' = [x \in Items |-> config'[x]] /\ setup = [x \in Items |-> setup[x]]
        BY <1>3, <1>4
    <2>3. [x \in Items |-> config'[x]] = [x \in Items |-> setup[x]]
        BY <2>1
    <2> QED
        BY <2>2, <2>3
<1> QED
    BY <1>2, <1>5, <1>6, <1>8, <1>10 DEF Configuration

(* Phases with nothing to remember.                                        *)
LEMMA ServedPlain ==
    ASSUME Safe, NEW ok \in BOOLEAN, NEW words, Serving(ok, words), phase \in {"read", "query", "command"}
    PROVE  Safe'
<1>1. IsTail(Tail(queue), queue)
    BY ServedQueue DEF Serving
<1>2. Rest(ok) = Tail(queue)
    BY DEF Rest
<1>3. \/ Tail(queue) # <<>> /\ Stays(Tail(queue))
      \/ Tail(queue) = <<>> /\ Ends("ok")
      \/ phase = "read" /\ Ends("no_data")
    BY <1>2, ServedNext DEF Fails
<1>4. call.op \notin {"write", "erase", "setConfiguration"}
    BY DEF Safe, Asked, Asking
<1>5. Types' /\ Line'
    <2>1. /\ queue' \in Seq(Request) /\ result' \in {"ok", "no_data"} /\ (phase' # "end" => queue' # <<>>)
          /\ phase' \in {"read", "query", "command", "end"}
        <3>1. Tail(queue) \in Seq(Request) /\ <<>> \in Seq(Request)
            BY <1>1 DEF IsTail
        <3> QED
            BY <1>3, <3>1, Zenon DEF Stays, Ends
    <2> QED
        BY <2>1, ServedTypes DEF Asking
<1>6. /\ Asked' /\ Saving' /\ Erasing' /\ RestoresHead' /\ RestoresTail' /\ Writing'
      /\ Returned'
    <2>1. phase \in Asking \ {"save"}
        BY DEF Asking
    <2>2. CASE phase' = "end"
        BY <2>1, <2>2, <1>4, ServedFrame, EndsAsking
    <2>3. CASE phase' # "end"
        BY <2>1, <2>3, <1>3, StaysAsking DEF Ends
    <2> QED
        BY <2>2, <2>3
<1>7. Geometry'
    <2>1. phase' # "geometry"
        BY <1>3 DEF Stays, Ends
    <2> QED
        BY <2>1, ServedElsewhere DEF Safe, Geometry
<1>8. Configuration'
    <2>1. CASE phase = "query"
        BY <2>1, <1>3, ServedQuery
    <2>2. CASE phase # "query"
        <3>1. phase' \notin {"query", "set"}
            BY <2>2, <1>3 DEF Stays, Ends
        <3> QED
            BY <3>1, <2>2, <1>4, ServedNotConfiguring
    <2> QED
        BY <2>1, <2>2
<1> QED
    BY <1>5, <1>6, <1>7, <1>8 DEF Safe

(* setConfiguration() sets an item with each request, and its copy at last. *)
LEMMA ServedSet ==
    ASSUME Safe, NEW ok \in BOOLEAN, NEW words, Serving(ok, words), phase = "set"
    PROVE  Safe'
<1>1. IsTail(Tail(queue), queue) /\ 1 \in 1 .. Len(queue)
    BY ServedQueue DEF Serving
<1>2. Rest(ok) = Tail(queue)
    BY DEF Rest
<1>3. (Tail(queue) # <<>> /\ Stays(Tail(queue))) \/ (Tail(queue) = <<>> /\ Ends("ok"))
    BY <1>2, ServedNext DEF Fails
<1>4. call.op = "setConfiguration" /\ \A i \in 1 .. Len(queue) : queue[i].cmd \in Items => queue[i].words = <<call.value>>
    BY DEF Safe, Configuration
<1>5. phase' \in {"set", "end"} /\ queue' = Tail(queue) /\ result' = "ok" /\ (phase' = "end" <=> queue' = <<>>)
    BY <1>3 DEF Stays, Ends
<1>6. Types' /\ Line'
    BY <1>1, <1>5, ServedTypes DEF Asking, IsTail
<1>7. /\ Asked' /\ Saving' /\ Erasing' /\ RestoresHead' /\ RestoresTail' /\ Writing'
      /\ Returned'
    <2>1. phase \in Asking \ {"save"}
        BY DEF Asking
    <2>2. CASE phase' = "end"
        BY <2>1, <2>2, <1>4, ServedFrame, EndsAsking
    <2>3. CASE phase' # "end"
        BY <2>1, <2>3, <1>3, StaysAsking DEF Ends
    <2> QED
        BY <2>2, <2>3
<1>8. Geometry'
    BY <1>5, ServedElsewhere DEF Safe, Geometry
<1>9. Configuration'
    <2>1. /\ UNCHANGED <<setup, call>> /\ ~HasAnswer' /\ (everLost' = FALSE => everLost = FALSE /\ ok)
          /\ ok => HasAnswer
        BY ServedFrame DEF Safe, Types
    <2>2. /\ config' = IF phase' = "end" THEN [i \in Items |-> call.value] ELSE config
          /\ setup \in [Items -> Values]
        BY <1>4, <1>5, ServedCopies DEF Safe, Types
    <2>3. phase' = "set" => \A i \in 1 .. Len(queue') : queue'[i].cmd \in Items => queue'[i].words = <<call.value>>
        BY <1>1, <1>4, <1>5 DEF IsTail
    <2>4. ASSUME everLost' = FALSE, NEW x \in Items
          PROVE  setup[x] = call.value \/ (LeftIn(queue', x) /\ queue' # <<>>)
        <3>1. everLost = FALSE /\ HasAnswer
            BY <2>1, <2>4
        <3>2. /\ setup[x] = call.value \/ LeftIn(queue, x)
              /\ queue[1].cmd \in Items => setup[queue[1].cmd] = call.value
            BY <3>1, <2>4 DEF Safe, Configuration
        <3>3. CASE queue[1].cmd = x
            BY <3>2, <3>3, <2>4
        <3>4. CASE queue[1].cmd # x /\ LeftIn(queue, x)
            BY <3>4, <1>1, <1>5, LeftInTail
        <3> QED
            BY <3>2, <3>3, <3>4
    <2>5. ASSUME everLost' = FALSE, phase' = "end" PROVE config' = setup
        <3>1. \A x \in Items : setup[x] = call.value
            BY <2>4, <2>5, <1>5
        <3>2. setup = [x \in Items |-> setup[x]]
            BY <2>2
        <3> QED
            BY <3>1, <3>2, <2>2, <2>5
    <2> QED
        BY <1>4, <1>5, <2>1, <2>3, <2>4, <2>5 DEF Configuration
<1> QED
    BY <1>6, <1>7, <1>8, <1>9 DEF Safe

(* A drive of unknown size takes no erase(). *)
LEMMA FitsTheDrive ==
    ASSUME NEW g \in [blockSize : {0, BlockSize}, blockCount : {0, BlockCount}],
           NEW c \in CallSet, c.len > 0, EraseFits(c, g)
    PROVE  g = True /\ After(c) <= Size
<1>1. g.blockSize \in {0, BlockSize} /\ g.blockCount \in {0, BlockCount}
      /\ c.at \in Nat /\ c.len \in Nat /\ c.at + c.len > 0
    BY DEF CallSet
<1>2. c.at + c.len <= g.blockSize * g.blockCount
    BY DEF EraseFits
<1>3. g.blockSize # 0
    <2>1. SUFFICES ASSUME g.blockSize = 0 PROVE FALSE
        OBVIOUS
    <2>2. 0 * g.blockCount = 0
        BY <1>1, SizeFacts
    <2> QED
        BY <1>1, <1>2, <2>1, <2>2
<1>4. g.blockCount # 0
    <2>1. SUFFICES ASSUME g.blockCount = 0 PROVE FALSE
        OBVIOUS
    <2>2. g.blockSize * 0 = 0
        BY <1>1, SizeFacts
    <2> QED
        BY <1>1, <1>2, <2>1, <2>2
<1>5. g.blockSize = BlockSize /\ g.blockCount = BlockCount
    BY <1>1, <1>3, <1>4
<1>6. g = True
    BY <1>5 DEF True
<1>7. After(c) <= Size
    BY <1>2, <1>5 DEF After, Size
<1> QED
    BY <1>6, <1>7

LEMMA Joined ==
    ASSUME NEW a, NEW b
    PROVE  /\ <<a>> \o <<b>> = <<a, b>>
           /\ <<>> \o <<b>> = <<b>>
<1> DEFINE S == {a, b}
<1>1. <<a>> \in Seq(S) /\ <<b>> \in Seq(S) /\ <<>> \in Seq(S) /\ <<a, b>> \in Seq(S)
    OBVIOUS
<1>2. <<>> \o <<b>> = <<b>>
    BY <1>1, ConcatEmptySeq
<1>3. /\ <<a>> \o <<b>> \in Seq(S) /\ Len(<<a>> \o <<b>>) = 2
      /\ (<<a>> \o <<b>>)[1] = a /\ (<<a>> \o <<b>>)[2] = b
    <2>1. Len(<<a>>) = 1 /\ Len(<<b>>) = 1 /\ <<a>>[1] = a /\ <<b>>[1] = b
        OBVIOUS
    <2> HIDE DEF S
    <2> QED
        BY <1>1, <2>1, ConcatProperties
<1>4. <<a>> \o <<b>> = <<a, b>>
    <2>1. Len(<<a, b>>) = 2 /\ <<a, b>>[1] = a /\ <<a, b>>[2] = b
        OBVIOUS
    <2>2. \A i \in 1 .. Len(<<a>> \o <<b>>) : (<<a>> \o <<b>>)[i] = <<a, b>>[i]
        BY <1>3, <2>1
    <2> HIDE DEF S
    <2> QED
        BY <1>1, <1>3, <2>1, <2>2, SeqEqual
<1> QED
    BY <1>2, <1>4

(* What the range leaves of its first and its last block is read. *)
LEMMA SaveReadsFacts ==
    ASSUME NEW c \in CallSet, c.len > 0, After(c) <= Size
    PROVE  /\ SaveReads(c, True) \in Seq(Request)
           /\ \A i \in 1 .. Len(SaveReads(c, True)) : SaveReads(c, True)[i] \in {SavesHead(c), SavesTail(c)}
           /\ First(c) < c.at => \E i \in 1 .. Len(SaveReads(c, True)) : SaveReads(c, True)[i] = SavesHead(c)
           /\ After(c) < Last(c) + BlockSize =>
                \E i \in 1 .. Len(SaveReads(c, True)) : SaveReads(c, True)[i] = SavesTail(c)
<1>1. /\ First(c) \in Nat /\ Last(c) \in Nat /\ After(c) \in Nat /\ c.at \in Nat
      /\ First(c) <= c.at /\ c.at < First(c) + BlockSize /\ c.at < After(c)
      /\ Last(c) < After(c) /\ After(c) <= Last(c) + BlockSize
      /\ Last(c) + BlockSize <= Size
      /\ (BlockSize - (After(c) % BlockSize)) % BlockSize = Last(c) + BlockSize - After(c)
    BY EraseGeometry
<1>2. SavesHead(c) \in Request
    <2>1. c.at - First(c) \in Nat /\ First(c) + (c.at - First(c)) <= Size
        BY <1>1, SizeFacts
    <2> QED
        BY <1>1, <2>1, Requests, Zenon DEF SavesHead
<1>3. SavesTail(c) \in Request
    <2>1. Last(c) + BlockSize - After(c) \in Nat /\ After(c) + (Last(c) + BlockSize - After(c)) <= Size
        BY <1>1, SizeFacts
    <2> QED
        BY <1>1, <2>1, Requests, Zenon DEF SavesTail
<1> DEFINE head == IF c.at - First(c) > 0 THEN <<SavesHead(c)>> ELSE <<>>
           tail == IF Last(c) + BlockSize - After(c) > 0 THEN <<SavesTail(c)>> ELSE <<>>
<1>4. SaveReads(c, True) = head \o tail
    <2>1. /\ EraseStart(c, True) = First(c) /\ True.blockSize = BlockSize
          /\ c.at + c.len = After(c)
        BY DEF First, True, After
    <2>2. SaveReads(c, True) =
            (IF c.at - First(c) > 0 THEN <<Read(First(c), c.at - First(c))>> ELSE <<>>)
            \o (IF (BlockSize - (After(c) % BlockSize)) % BlockSize > 0
                  THEN <<Read(After(c), (BlockSize - (After(c) % BlockSize)) % BlockSize)>> ELSE <<>>)
        BY <2>1, Zenon DEF SaveReads
    <2> QED
        BY <1>1, <2>2 DEF SavesHead, SavesTail
<1>5. CASE c.at - First(c) > 0 /\ Last(c) + BlockSize - After(c) > 0
    <2>1. SaveReads(c, True) = <<SavesHead(c), SavesTail(c)>>
        BY <1>4, <1>5, Joined
    <2> QED
        BY <2>1, <1>2, <1>3
<1>6. CASE c.at - First(c) > 0 /\ ~(Last(c) + BlockSize - After(c) > 0)
    <2>1. SaveReads(c, True) = <<SavesHead(c)>>
        BY <1>4, <1>6
    <2> QED
        BY <2>1, <1>1, <1>2, <1>6, SizeFacts
<1>7. CASE ~(c.at - First(c) > 0) /\ Last(c) + BlockSize - After(c) > 0
    <2>1. SaveReads(c, True) = <<SavesTail(c)>>
        BY <1>4, <1>7, Joined
    <2> QED
        BY <2>1, <1>1, <1>3, <1>7, SizeFacts
<1>8. CASE ~(c.at - First(c) > 0) /\ ~(Last(c) + BlockSize - After(c) > 0)
    <2>1. SaveReads(c, True) = <<>>
        BY <1>4, <1>8
    <2> QED
        BY <2>1, <1>1, <1>8, SizeFacts
<1> QED
    BY <1>5, <1>6, <1>7, <1>8

(* The call goes on with a phase and its requests; the flash is still as   *)
(* the call has found it.                                                  *)
Placed ==
    /\ queue \in Seq(Request) /\ result \in {"ok", "no_data", "i2c_error", "invalid"}
    /\ phase \in Asking \cup Restoring \cup {"write", "erase", "end"}
    /\ phase # "end" => queue # <<>>
Untouched ==
    /\ pc # "poll"
    /\ "geometry" \in loaded => geometry = True
    /\ everLost = FALSE /\ "config" \in loaded => config = setup
    /\ lost # "late" => mem = before /\ (request # Nothing => Asks(request))

(* erase() comes to the blocks of its range. *)
LEMMA EntersErase ==
    ASSUME NEW c \in CallSet, call' = c, c.op = "erase", After(c) <= Size,
           phase' = "erase", queue' = Erases(c, True), result' = "ok", geometry' = True,
           Placed' => Types' /\ Line', Untouched',
           lost' # "late" => SavedExact', lost' = "no" => SavedWhole'
    PROVE  Safe'
<1>1. c.len > 0
    BY DEF CallSet
<1>2. /\ queue' \in Seq(Request) /\ queue' # <<>> /\ ErasesRest(queue', c) /\ queue'[1].at = First(c)
    BY <1>1, ErasesAll
<1>3. Types' /\ Line'
    BY <1>2 DEF Placed
<1>4. \A w \in Span(c) : ~(w < First(c))
    <2>1. First(c) \in Nat /\ Last(c) \in Nat
        BY <1>1, EraseGeometry
    <2> QED
        BY <2>1, SizeFacts DEF Span
<1>5. Erasing'
    <2>1. ErasesFit' /\ (ErasesRest(queue, call))'
        BY <1>2 DEF ErasesFit, ErasesRest
    <2>2. lost' # "late" => (NothingBut(Span(call)))' /\ (request' # Nothing => Asks(request'))
        BY DEF NothingBut, Untouched
    <2>3. ~HasAnswer'
        BY DEF HasAnswer, Untouched
    <2> QED
        BY <1>2, <1>4, <2>1, <2>2, <2>3 DEF Erasing
<1>6. Asked' /\ Saving' /\ RestoresHead' /\ RestoresTail' /\ Writing' /\ Geometry'
    BY DEF Asked, Asking, Saving, RestoresHead, RestoresTail, Writing, Geometry
<1>7. Returned'
    BY <1>3 DEF Line, Returned
<1>8. Configuration'
    BY DEF Untouched, Configuration
<1> QED
    BY <1>3, <1>5, <1>6, <1>7, <1>8 DEF Safe

(* setConfiguration() sets each item to the value. *)
LEMMA SetsAll ==
    ASSUME NEW c \in CallSet
    PROVE  /\ SetConfiguration(c) \in Seq(Request) /\ SetConfiguration(c) # <<>>
           /\ \A x \in Items : LeftIn(SetConfiguration(c), x)
           /\ \A i \in 1 .. Len(SetConfiguration(c)) :
                LET r == SetConfiguration(c)[i]
                IN  /\ Asks(r) /\ r.cmd \notin {"sector", "disk"}
                    /\ r.cmd \in Items => r.words = <<c.value>>
<1> DEFINE s1 == <<Set("name", c.value), Set("size", c.value), Set("visible", c.value)>>
           s2 == IF c.persist THEN <<Ask("write_config")>> ELSE <<>>
           q == s1 \o s2
           Good(r) == /\ Asks(r) /\ r.cmd \notin {"sector", "disk"}
                      /\ r.cmd \in Items => r.words = <<c.value>>
<1>1. c.value \in Values
    BY DEF CallSet
<1>2. /\ \A x \in Items : Set(x, c.value) \in Request /\ Set(x, c.value).cmd = x /\ Good(Set(x, c.value))
      /\ Ask("write_config") \in Request /\ Good(Ask("write_config"))
    <2>1. \A x \in Items : Set(x, c.value) \in Request
        BY <1>1, Requests
    <2>2. \A x \in Items : Set(x, c.value).cmd = x /\ Good(Set(x, c.value))
        BY DEF Set, Asks, Items
    <2>3. Ask("write_config") \in Request
        <3>1. "write_config" \in Commands \ {"read", "write", "erase"}
            BY DEF Commands
        <3> QED
            BY <3>1, Requests
    <2>4. Good(Ask("write_config"))
        BY DEF Ask, Asks, Items
    <2> QED
        BY <2>1, <2>2, <2>3, <2>4
<1>3. Items = {"name", "size", "visible"}
    BY DEF Items
<1> HIDE DEF Good
<1>4. /\ s1 \in Seq(Request) /\ Len(s1) = 3 /\ s1[1].cmd = "name" /\ s1[2].cmd = "size" /\ s1[3].cmd = "visible"
      /\ Good(s1[1]) /\ Good(s1[2]) /\ Good(s1[3])
    BY <1>2, <1>3
<1>5. s2 \in Seq(Request) /\ Len(s2) \in {0, 1} /\ \A i \in 1 .. Len(s2) : Good(s2[i])
    BY <1>2
<1> HIDE DEF s1, s2
<1>6. /\ q \in Seq(Request) /\ Len(q) = 3 + Len(s2)
      /\ \A i \in 1 .. 3 + Len(s2) : q[i] = IF i <= 3 THEN s1[i] ELSE s2[i - 3]
    <2>1. s1 \in Seq(Request) /\ s2 \in Seq(Request)
        BY <1>4, <1>5
    <2>2. /\ q \in Seq(Request) /\ Len(q) = Len(s1) + Len(s2)
          /\ \A i \in 1 .. Len(s1) + Len(s2) : q[i] = IF i <= Len(s1) THEN s1[i] ELSE s2[i - Len(s1)]
        BY <2>1, ConcatProperties, Zenon
    <2>3. Len(s1) = 3
        BY <1>4
    <2> QED
        BY <2>2, <2>3, Zenon
<1> HIDE DEF q
<1>7. \A i \in 1 .. Len(q) : Good(q[i])
    BY <1>4, <1>5, <1>6
<1>8. \A x \in Items : LeftIn(q, x)
    BY <1>3, <1>4, <1>5, <1>6 DEF LeftIn
<1>9. q # <<>>
    BY <1>5, <1>6, EmptySeq
<1>10. q = SetConfiguration(c)
    BY DEF q, s1, s2, SetConfiguration
<1> QED
    BY <1>6, <1>7, <1>8, <1>9, <1>10 DEF Good

(* The first query is followed by the second. *)
LEMMA ServedSector ==
    ASSUME Safe, NEW ok \in BOOLEAN, NEW words, Serving(ok, words), phase = "geometry",
           queue = <<Ask("sector"), Ask("disk")>>
    PROVE  Safe'
<1>1. queue[1].cmd = "sector" /\ Tail(queue) = <<Ask("disk")>> /\ Tail(queue) # <<>>
    BY DEF Ask
<1>2. Stays(Tail(queue))
    BY <1>1, ServedNext DEF Rest, Fails
<1>3. Types' /\ Line'
    <2>1. Tail(queue) \in Seq(Request)
        BY ServedQueue DEF Serving, IsTail
    <2> QED
        BY <1>1, <1>2, <2>1, ServedTypes DEF Asking, Stays
<1>4. /\ Asked' /\ Saving' /\ Erasing' /\ RestoresHead' /\ RestoresTail' /\ Writing'
      /\ Returned'
    BY <1>2, StaysAsking DEF Asking
<1>5. Configuration'
    BY <1>2, ServedNotConfiguring DEF Stays
<1>6. Geometry'
    <2>1. /\ geometry' = IF ok THEN [geometry EXCEPT !.blockSize = BlockSize] ELSE geometry
          /\ valid' = ok /\ loaded' = loaded /\ saved' = saved
        BY <1>1, ServedCopies
    <2>2. geometry \in [blockSize : {0, BlockSize}, blockCount : {0, BlockCount}]
        BY DEF Safe, Types
    <2>3. ok => geometry'.blockSize = BlockSize
        BY <2>1, <2>2
    <2>4. geometry = True => geometry' = True
        BY <2>1 DEF True
    <2> QED
        BY <1>1, <1>2, <2>1, <2>3, <2>4 DEF Safe, Geometry, Stays
<1> QED
    BY <1>3, <1>4, <1>5, <1>6 DEF Safe

(* With the geometry asked for, a call goes on to what it is about. *)
LEMMA GoesAfterGeometry ==
    ASSUME NEW c \in CallSet, call' = c, c.op # "write", Goes(AfterGeometry(c, geometry')),
           geometry' \in [blockSize : {0, BlockSize}, blockCount : {0, BlockCount}],
           saved' = NothingSaved, Placed' => Types' /\ Line', Untouched'
    PROVE  Safe'
<1>1. /\ ~HasAnswer'
      /\ "geometry" \in loaded' => geometry' = True
      /\ everLost' = FALSE /\ "config" \in loaded' => config' = setup'
      /\ lost' # "late" => mem' = before' /\ (request' # Nothing => Asks(request'))
    BY DEF Untouched, HasAnswer
<1>2. c.op = "erase" => c.len > 0
    BY DEF CallSet
<1>3. <<>> \in Seq(Request)
    OBVIOUS
<1>4. ASSUME phase' = "end", queue' = <<>>, result' \in {"ok", "invalid"}, c.op = "erase" => result' = "invalid"
      PROVE  Safe'
    <2>1. Types' /\ Line'
        BY <1>3, <1>4 DEF Placed
    <2>2. Asked' /\ Saving' /\ Erasing' /\ RestoresHead' /\ RestoresTail' /\ Writing' /\ Geometry'
        BY <1>1, <1>4 DEF Asked, Asking, Saving, Erasing, RestoresHead, RestoresTail, Writing, Geometry
    <2>3. Returned'
        BY <1>1, <1>4 DEF Returned
    <2>4. Configuration'
        BY <1>1, <1>4 DEF Configuration
    <2> QED
        BY <2>1, <2>2, <2>3, <2>4 DEF Safe
<1>5. CASE c.op \notin {"setConfiguration", "erase"}
    <2>1. phase' = "end" /\ queue' = <<>> /\ result' = "ok"
        BY <1>5 DEF Goes, AfterGeometry
    <2> QED
        BY <1>4, <1>5, <2>1
<1>6. CASE c.op = "setConfiguration" /\ ~Valid(c, geometry')
    <2>1. phase' = "end" /\ queue' = <<>> /\ result' = "invalid"
        BY <1>6 DEF Goes, AfterGeometry
    <2> QED
        BY <1>4, <1>6, <2>1
<1>7. CASE c.op = "setConfiguration" /\ Valid(c, geometry')
    <2>1. phase' = "set" /\ queue' = SetConfiguration(c) /\ result' = "ok"
        BY <1>7 DEF Goes, AfterGeometry
    <2>2. /\ queue' \in Seq(Request) /\ queue' # <<>>
          /\ \A x \in Items : LeftIn(queue', x)
          /\ \A i \in 1 .. Len(queue') :
               /\ Asks(queue'[i]) /\ queue'[i].cmd \notin {"sector", "disk"}
               /\ queue'[i].cmd \in Items => queue'[i].words = <<c.value>>
        BY <2>1, SetsAll
    <2>3. Types' /\ Line'
        BY <2>1, <2>2 DEF Placed, Asking
    <2>4. Asked'
        BY <1>1, <1>7, <2>1, <2>2 DEF Asked
    <2>5. Saving' /\ Erasing' /\ RestoresHead' /\ RestoresTail' /\ Writing' /\ Geometry'
        BY <1>1, <2>1 DEF Saving, Erasing, RestoresHead, RestoresTail, Writing, Geometry
    <2>6. Returned'
        BY <2>1, <2>3 DEF Line, Returned
    <2>7. Configuration'
        BY <1>1, <1>7, <2>1, <2>2 DEF Configuration
    <2> QED
        BY <2>3, <2>4, <2>5, <2>6, <2>7 DEF Safe
<1>8. CASE c.op = "erase" /\ ~EraseFits(c, geometry')
    <2>1. phase' = "end" /\ queue' = <<>> /\ result' = "invalid"
        BY <1>8 DEF Goes, AfterGeometry
    <2> QED
        BY <1>4, <1>8, <2>1
<1>9. CASE c.op = "erase" /\ EraseFits(c, geometry')
    <2>1. geometry' = True /\ After(c) <= Size
        BY <1>2, <1>9, FitsTheDrive
    <2>2. /\ SaveReads(c, True) \in Seq(Request)
          /\ \A i \in 1 .. Len(SaveReads(c, True)) : SaveReads(c, True)[i] \in {SavesHead(c), SavesTail(c)}
          /\ First(c) < c.at => \E i \in 1 .. Len(SaveReads(c, True)) : SaveReads(c, True)[i] = SavesHead(c)
          /\ After(c) < Last(c) + BlockSize =>
               \E i \in 1 .. Len(SaveReads(c, True)) : SaveReads(c, True)[i] = SavesTail(c)
        BY <1>2, <1>9, <2>1, SaveReadsFacts
    <2>3. SavedExact'
        BY DEF SavedExact, SavedHead, SavedTail, NothingSaved
    <2>4. CASE SaveReads(c, True) = <<>>
        <3>1. phase' = "erase" /\ queue' = Erases(c, True) /\ result' = "ok"
            BY <1>9, <2>1, <2>4 DEF Goes, AfterGeometry
        <3>2. ~(First(c) < c.at) /\ ~(After(c) < Last(c) + BlockSize)
            BY <2>2, <2>4
        <3>3. SavedWhole'
            BY <3>2 DEF SavedWhole
        <3> QED
            BY <1>9, <2>1, <2>3, <3>1, <3>3, EntersErase
    <2>5. CASE SaveReads(c, True) # <<>>
        <3>1. phase' = "save" /\ queue' = SaveReads(c, True) /\ result' = "ok"
            BY <1>9, <2>1, <2>5 DEF Goes, AfterGeometry
        <3>2. Types' /\ Line'
            BY <2>2, <2>5, <3>1 DEF Placed, Asking
        <3>3. \A i \in 1 .. Len(queue') :
                /\ Asks(queue'[i]) /\ queue'[i].cmd = "read" /\ queue'[i] \in {SavesHead(c), SavesTail(c)}
            BY <2>2, <3>1 DEF SavesHead, SavesTail, Read, Asks
        <3>4. "read" \notin Items
            BY DEF Items
        <3>5. Asked'
            BY <1>1, <1>9, <3>1, <3>3, <3>4 DEF Asked
        <3>6. Saving'
            <4>1. /\ First(c) < c.at => \E i \in 1 .. Len(queue') : queue'[i] = SavesHead(c)
                  /\ After(c) < Last(c) + BlockSize => \E i \in 1 .. Len(queue') : queue'[i] = SavesTail(c)
                BY <2>2, <3>1
            <4>2. ErasesFit'
                BY <1>9, <2>1 DEF ErasesFit
            <4> QED
                BY <1>1, <2>1, <2>3, <3>3, <4>1, <4>2 DEF Saving
        <3>7. Erasing' /\ RestoresHead' /\ RestoresTail' /\ Writing' /\ Geometry'
            BY <1>1, <3>1 DEF Erasing, RestoresHead, RestoresTail, Writing, Geometry
        <3>8. Returned'
            BY <3>1, <3>2 DEF Line, Returned
        <3>9. Configuration'
            BY <1>1, <3>1 DEF Configuration
        <3> QED
            BY <3>2, <3>5, <3>6, <3>7, <3>8, <3>9 DEF Safe
    <2> QED
        BY <2>4, <2>5
<1> QED
    BY <1>5, <1>6, <1>7, <1>8, <1>9

(* The second query is the last. *)
LEMMA ServedDisk ==
    ASSUME Safe, NEW ok \in BOOLEAN, NEW words, Serving(ok, words), phase = "geometry",
           queue = <<Ask("disk")>>
    PROVE  Safe'
<1>1. queue[1].cmd = "disk" /\ Tail(queue) = <<>>
    BY DEF Ask
<1>2. Goes(AfterGeometry(call, geometry'))
    BY <1>1, ServedNext DEF Rest, Fails
<1>3. /\ saved = NothingSaved /\ (valid => geometry.blockSize = BlockSize)
      /\ geometry \in [blockSize : {0, BlockSize}, blockCount : {0, BlockCount}]
      /\ "geometry" \in loaded => geometry = True
      /\ call.op # "write" /\ call # Nothing /\ call \in CallSet
    <2>1. queue # <<Ask("sector"), Ask("disk")>>
        BY <1>1 DEF Ask
    <2>2. call # Nothing /\ call \in CallSet
        BY ServedQueue DEF Serving
    <2> QED
        BY <2>1, <2>2 DEF Safe, Types, Geometry, Asked, Asking
<1>4. /\ geometry' \in [blockSize : {0, BlockSize}, blockCount : {0, BlockCount}]
      /\ "geometry" \in loaded' => geometry' = True
      /\ "config" \in loaded' => "config" \in loaded
      /\ saved' = NothingSaved
    <2>1. /\ geometry' = IF ok THEN [geometry EXCEPT !.blockCount = BlockCount] ELSE geometry
          /\ valid' = (valid /\ ok) /\ loaded' = loaded \cup (IF valid' THEN {"geometry"} ELSE {}) /\ saved' = saved
        BY <1>1, ServedCopies
    <2>2. valid' => ok /\ geometry.blockSize = BlockSize
        BY <1>3, <2>1
    <2>3. valid' => geometry' = True
        BY <1>3, <2>1, <2>2 DEF True
    <2>4. geometry = True => geometry' = True
        BY <2>1 DEF True
    <2>5. geometry' \in [blockSize : {0, BlockSize}, blockCount : {0, BlockCount}]
        BY <1>3, <2>1
    <2> QED
        BY <1>3, <2>1, <2>3, <2>4, <2>5
<1>5. /\ UNCHANGED <<mem, request, call, before, setup>> /\ (lost' # "late" <=> lost # "late")
      /\ everLost' = FALSE => everLost = FALSE
    BY ServedFrame DEF Safe, Types
<1>6. config' = config
    <2>1. ~(call.op = "setConfiguration" /\ phase' = "end" /\ result' = "ok")
        BY <1>2 DEF Goes, AfterGeometry
    <2> QED
        BY <2>1, ServedCopies
<1>7. Untouched'
    <2>1. pc' # "poll"
        BY ServedFrame
    <2>2. lost # "late" => mem = before /\ (request # Nothing => Asks(request))
        BY DEF Safe, Asked, Asking
    <2>3. everLost = FALSE /\ "config" \in loaded => config = setup
        BY DEF Safe, Configuration
    <2> QED
        BY <1>4, <1>5, <1>6, <2>1, <2>2, <2>3 DEF Untouched
<1>8. Placed' => Types' /\ Line'
    BY ServedTypes DEF Placed
<1> QED
    BY <1>2, <1>3, <1>4, <1>5, <1>7, <1>8, GoesAfterGeometry

(* An answer to one of the queries of getGeometry().                       *)
LEMMA ServedGeometry ==
    ASSUME Safe, NEW ok \in BOOLEAN, NEW words, Serving(ok, words), phase = "geometry"
    PROVE  Safe'
BY ServedSector, ServedDisk DEF Safe, Geometry

(* A read keeps a part of what is around the range. *)
LEMMA ServedSave ==
    ASSUME Safe, NEW ok \in BOOLEAN, NEW words, Serving(ok, words), phase = "save"
    PROVE  Safe'
<1>1. /\ IsTail(Tail(queue), queue) /\ 1 \in 1 .. Len(queue) /\ call # Nothing
      /\ Len(queue) \in Nat \ {0}
    BY ServedQueue DEF Serving
<1>2. /\ ErasesFit /\ geometry = True /\ call.op = "erase"
      /\ \A i \in 1 .. Len(queue) : queue[i] \in {SavesHead(call), SavesTail(call)}
    BY DEF Safe, Saving, ErasesFit
<1>3. geometry' = True /\ ("geometry" \in loaded' <=> "geometry" \in loaded)
    BY <1>2, ServedElsewhere
<1>4. /\ Tail(queue) # <<>> => Stays(Tail(queue))
      /\ Tail(queue) = <<>> => phase' = "erase" /\ queue' = Erases(call, geometry') /\ result' = "ok"
    BY ServedNext DEF Rest, Fails
<1>5. /\ UNCHANGED <<mem, request, call, before>> /\ (lost' # "late" <=> lost # "late") /\ ~HasAnswer'
      /\ lost' = "no" => ok /\ lost = "no"
      /\ ok => HasAnswer /\ words = answer.words
    BY ServedFrame
<1>6. PICK r : r = queue[1] /\ r \in {SavesHead(call), SavesTail(call)}
    BY <1>1, <1>2
<1>7. /\ First(call) \in Nat /\ After(call) \in Nat /\ call.at \in Nat /\ Last(call) \in Nat
      /\ First(call) # After(call) /\ call.at + call.len = After(call)
    <2>1. First(call) <= call.at /\ call.at < After(call) /\ First(call) \in Nat /\ After(call) \in Nat /\ call.at \in Nat /\ Last(call) \in Nat
        BY <1>1, <1>2, SpanFacts DEF Safe
    <2> QED
        BY <2>1 DEF After
<1>8. /\ r = SavesHead(call) => r.at = First(call) /\ r.len = call.at - First(call)
      /\ r = SavesTail(call) => r.at = After(call) /\ r.len = Last(call) + BlockSize - After(call)
    BY DEF SavesHead, SavesTail, Read
<1>9. /\ ~ok => saved' = saved
      /\ ok /\ r = SavesHead(call) => saved'.head = words /\ saved'.tail = saved.tail
      /\ ok /\ r = SavesTail(call) => saved'.tail = words /\ saved'.head = saved.head
    <2>1. saved' = IF ok THEN [saved EXCEPT ![IF r.at = After(call) THEN "tail" ELSE "head"] = words] ELSE saved
        BY <1>6, <1>7, ServedCopies
    <2>2. saved \in [head : Seq(Values), tail : Seq(Values)]
        BY DEF Safe, Types
    <2>3. ASSUME ok, r = SavesHead(call) PROVE saved'.head = words /\ saved'.tail = saved.tail
        <3>1. saved' = [saved EXCEPT !.head = words]
            BY <1>7, <1>8, <2>1, <2>3
        <3> QED
            BY <2>2, <3>1
    <2>4. ASSUME ok, r = SavesTail(call) PROVE saved'.tail = words /\ saved'.head = saved.head
        <3>1. saved' = [saved EXCEPT !.tail = words]
            BY <1>8, <2>1, <2>4
        <3> QED
            BY <2>2, <3>1
    <2> QED
        BY <2>1, <2>3, <2>4
<1>10. ASSUME lost # "late"
       PROVE  /\ SavedExact
              /\ ok => /\ Len(words) = r.len
                       /\ \A i \in 1 .. Len(words) : words[i] = before[r.at + i - 1]
    BY <1>5, <1>6, <1>10 DEF Safe, Saving
<1>11. lost' # "late" => SavedExact'
    <2>1. SUFFICES ASSUME lost # "late" PROVE SavedHead' /\ SavedTail'
        BY <1>5 DEF SavedExact
    <2>2. SavedHead'
        BY <2>1, <1>5, <1>6, <1>8, <1>9, <1>10 DEF SavedExact, SavedHead
    <2>3. SavedTail'
        BY <2>1, <1>5, <1>6, <1>8, <1>9, <1>10 DEF SavedExact, SavedTail
    <2> QED
        BY <2>2, <2>3
<1>12. ASSUME lost' = "no"
       PROVE  /\ First(call) < call.at => saved'.head # <<>> \/ \E i \in 1 .. Len(Tail(queue)) : Tail(queue)[i] = SavesHead(call)
              /\ After(call) < Last(call) + BlockSize => saved'.tail # <<>> \/ \E i \in 1 .. Len(Tail(queue)) : Tail(queue)[i] = SavesTail(call)
    <2>1. /\ ok /\ lost = "no" /\ Len(words) = r.len
          /\ First(call) < call.at => saved.head # <<>> \/ \E i \in 1 .. Len(queue) : queue[i] = SavesHead(call)
          /\ After(call) < Last(call) + BlockSize => saved.tail # <<>> \/ \E i \in 1 .. Len(queue) : queue[i] = SavesTail(call)
        BY <1>5, <1>10, <1>12 DEF Safe, Saving
    <2>2. Len(<<>>) = 0
        OBVIOUS
    <2>3. ASSUME NEW i \in 1 .. Len(queue), i # 1
          PROVE  i - 1 \in 1 .. Len(Tail(queue)) /\ Tail(queue)[i - 1] = queue[i]
        <3>1. i - 1 \in 1 .. Len(Tail(queue)) /\ i - 1 + 1 = i
            BY <1>1, <2>3 DEF IsTail
        <3> QED
            BY <1>1, <3>1 DEF IsTail
    <2>4. ASSUME First(call) < call.at
          PROVE  saved'.head # <<>> \/ \E i \in 1 .. Len(Tail(queue)) : Tail(queue)[i] = SavesHead(call)
        <3>1. CASE r = SavesHead(call)
            <4>1. saved'.head = words /\ Len(words) = call.at - First(call)
                BY <3>1, <1>8, <1>9, <2>1
            <4> QED
                BY <4>1, <2>2, <2>4, <1>7
        <3>2. CASE r # SavesHead(call)
            <4>1. saved'.head = saved.head
                BY <3>2, <1>6, <1>9, <2>1
            <4>2. CASE saved.head # <<>>
                BY <4>1, <4>2
            <4>3. CASE \E i \in 1 .. Len(queue) : queue[i] = SavesHead(call)
                <5>1. PICK i \in 1 .. Len(queue) : queue[i] = SavesHead(call)
                    BY <4>3
                <5>2. i # 1
                    BY <5>1, <3>2, <1>6
                <5> QED
                    BY <5>1, <5>2, <2>3
            <4> QED
                BY <4>2, <4>3, <2>1, <2>4
        <3> QED
            BY <3>1, <3>2
    <2>5. ASSUME After(call) < Last(call) + BlockSize
          PROVE  saved'.tail # <<>> \/ \E i \in 1 .. Len(Tail(queue)) : Tail(queue)[i] = SavesTail(call)
        <3>1. CASE r = SavesTail(call)
            <4>1. saved'.tail = words /\ Len(words) = Last(call) + BlockSize - After(call)
                BY <3>1, <1>8, <1>9, <2>1
            <4> QED
                BY <4>1, <2>2, <2>5, <1>7, SizeFacts
        <3>2. CASE r # SavesTail(call)
            <4>1. saved'.tail = saved.tail
                BY <3>2, <1>6, <1>9, <2>1
            <4>2. CASE saved.tail # <<>>
                BY <4>1, <4>2
            <4>3. CASE \E i \in 1 .. Len(queue) : queue[i] = SavesTail(call)
                <5>1. PICK i \in 1 .. Len(queue) : queue[i] = SavesTail(call)
                    BY <4>3
                <5>2. i # 1
                    BY <5>1, <3>2, <1>6
                <5> QED
                    BY <5>1, <5>2, <2>3
            <4> QED
                BY <4>2, <4>3, <2>1, <2>5
        <3> QED
            BY <3>1, <3>2
    <2> QED
        BY <2>4, <2>5
<1>13. CASE Tail(queue) # <<>>
    <2>1. phase' = "save" /\ queue' = Tail(queue) /\ result' = "ok"
        BY <1>4, <1>13 DEF Stays
    <2>2. Types' /\ Line'
        <3>1. Tail(queue) \in Seq(Request)
            BY <1>1 DEF IsTail
        <3> QED
            BY <1>13, <2>1, <3>1, ServedTypes DEF Asking
    <2>3. \A i \in 1 .. Len(queue') : i + 1 \in 1 .. Len(queue) /\ queue'[i] = queue[i + 1]
        BY <1>1, <2>1 DEF IsTail
    <2>4. Asked'
        BY <1>5, <2>1, <2>3 DEF Safe, Asked
    <2>5. Saving'
        <3>1. ErasesFit'
            BY <1>2, <1>5 DEF ErasesFit
        <3>2. \A i \in 1 .. Len(queue') : queue'[i] \in {SavesHead(call), SavesTail(call)}
            BY <1>2, <2>3
        <3> QED
            BY <1>3, <1>5, <1>11, <1>12, <2>1, <3>1, <3>2 DEF Saving
    <2>6. Erasing' /\ RestoresHead' /\ RestoresTail' /\ Writing'
        BY <2>1 DEF Erasing, RestoresHead, RestoresTail, Writing
    <2>7. Geometry'
        BY <1>3, <2>1 DEF Geometry
    <2>8. Returned'
        BY <2>1, ServedFrame DEF Returned
    <2>9. Configuration'
        BY <2>1, ServedNotConfiguring
    <2> QED
        BY <2>2, <2>4, <2>5, <2>6, <2>7, <2>8, <2>9 DEF Safe
<1>14. CASE Tail(queue) = <<>>
    <2>1. ASSUME lost' = "no" PROVE SavedWhole'
        <3>1. Len(Tail(queue)) = 0
            <4>1. Len(<<>>) = 0
                OBVIOUS
            <4> QED
                BY <1>14, <4>1, Zenon
        <3>2. (First(call) < call.at => saved'.head # <<>>) /\ (After(call) < Last(call) + BlockSize => saved'.tail # <<>>)
            BY <1>12, <2>1, <3>1
        <3> QED
            BY <1>5, <3>2 DEF SavedWhole
    <2>2. phase' = "erase" /\ queue' = Erases(call, True) /\ result' = "ok"
        BY <1>3, <1>4, <1>14
    <2>3. call \in CallSet /\ After(call) <= Size
        BY <1>1, <1>2, CallFacts DEF Safe, ErasesFit
    <2>4. Untouched'
        <3>1. pc' # "poll" /\ setup' = setup /\ (everLost' = FALSE => everLost = FALSE)
            BY ServedFrame DEF Safe, Types
        <3>2. config' = config /\ ("config" \in loaded' => "config" \in loaded)
            BY <2>2, ServedCopies
        <3>3. lost # "late" => mem = before /\ (request # Nothing => Asks(request))
            BY DEF Safe, Asked, Asking
        <3>4. everLost = FALSE /\ "config" \in loaded => config = setup
            BY DEF Safe, Configuration
        <3> QED
            BY <1>3, <1>5, <3>1, <3>2, <3>3, <3>4 DEF Untouched
    <2>5. Placed' => Types' /\ Line'
        BY ServedTypes DEF Placed
    <2> QED
        BY <1>2, <1>3, <1>5, <1>11, <2>1, <2>2, <2>3, <2>4, <2>5, EntersErase
<1> QED
    BY <1>13, <1>14

(* In these phases the chip keeps the requests of the call, and the copies *)
(* of the manager stay.                                                    *)
LEMMA ServedFlash ==
    ASSUME Safe, NEW ok \in BOOLEAN, NEW words, Serving(ok, words),
           phase \in {"write", "erase", "restore_head", "restore_tail"},
           phase' \in {"write", "erase", "restore_head", "restore_tail", "end"},
           call.op \in {"write", "erase"}
    PROVE  /\ Geometry' /\ Configuration' /\ Asked' /\ Saving'
           /\ saved' = saved /\ geometry' = geometry
           /\ phase' # "end" => Returned'
           /\ UNCHANGED <<mem, request, call, before>> /\ (lost' # "late" <=> lost # "late") /\ ~HasAnswer'
           /\ lost' = "no" => ok /\ lost = "no"
           /\ ~ok => lost' # "no"
           /\ ok => HasAnswer /\ request = Nothing
<1>1. Geometry'
    BY ServedElsewhere DEF Safe, Geometry
<1>2. Configuration'
    BY ServedNotConfiguring
<1>3. Asked' /\ Saving'
    BY DEF Asked, Asking, Saving
<1>4. saved' = saved /\ geometry' = geometry
    BY ServedCopies, ServedElsewhere
<1>5. phase' # "end" => Returned'
    BY ServedFrame DEF Returned
<1>6. /\ UNCHANGED <<mem, request, call, before>> /\ (lost' # "late" <=> lost # "late") /\ ~HasAnswer'
      /\ lost' = "no" => ok /\ lost = "no"
      /\ ~ok => lost' # "no"
      /\ ok => HasAnswer /\ request = Nothing
    BY ServedFrame
<1> QED
    BY <1>1, <1>2, <1>3, <1>4, <1>5, <1>6

(* Segment by segment. *)
LEMMA ServedWrite ==
    ASSUME Safe, NEW ok \in BOOLEAN, NEW words, Serving(ok, words), phase = "write"
    PROVE  Safe'
<1>1. IsTail(Tail(queue), queue) /\ call # Nothing /\ queue[1] \in Request
    BY ServedQueue DEF Serving
<1>2. /\ call.op = "write" /\ Pieces(queue, call.at, Filled(call))
      /\ lost # "late" =>
             /\ request # Nothing => request = queue[1]
             /\ NothingBut(Target(call))
             /\ \A w \in Target(call) : mem[w] = before[w] \/ Written(w)
             /\ \A w \in Target(call) : w < queue[1].at => Written(w)
             /\ HasAnswer => \A w \in queue[1].at .. queue[1].at + Len(queue[1].words) - 1 : Written(w)
    BY DEF Safe, Writing
<1>3. /\ Piece(queue[1], call.at, Filled(call)) /\ Pieces(Tail(queue), call.at, Filled(call))
      /\ Tail(queue) # <<>> => Tail(queue)[1].at = queue[1].at + Len(queue[1].words)
      /\ Tail(queue) = <<>> => queue[1].at + Len(queue[1].words) = call.at + Len(Filled(call))
    <2>1. call.at \in Nat
        BY <1>1, CallFacts DEF Safe
    <2>2. PICK rest, whole : rest = Tail(queue) /\ whole = Filled(call)
        OBVIOUS
    <2>3. IsTail(rest, queue) /\ Pieces(queue, call.at, whole)
        BY <1>1, <1>2, <2>2, Zenon
    <2>4. /\ Piece(queue[1], call.at, whole) /\ Pieces(rest, call.at, whole)
          /\ rest # <<>> => rest[1].at = queue[1].at + Len(queue[1].words)
          /\ rest = <<>> => queue[1].at + Len(queue[1].words) = call.at + Len(whole)
        BY <2>1, <2>3, PiecesTail
    <2> QED
        BY <2>2, <2>4, Zenon
<1>4. /\ queue[1].at \in Nat /\ Len(queue[1].words) \in Nat
      /\ call.at \in Nat /\ call.len \in Nat /\ Target(call) = call.at .. call.at + call.len - 1
      /\ Len(Filled(call)) = call.len
    <2>1. queue[1].at \in Nat /\ Len(queue[1].words) \in Nat
        BY <1>1, RequestFacts
    <2>2. call.at \in Nat /\ call.len \in Nat
        BY <1>1, CallFacts DEF Safe
    <2>3. Len(Filled(call)) = call.len
        BY <2>2 DEF Filled
    <2>4. Target(call) = call.at .. call.at + call.len - 1
        BY <1>2 DEF Target
    <2> QED
        BY <2>1, <2>2, <2>3, <2>4
<1>5. \/ ~ok /\ Ends("i2c_error")
      \/ ok /\ Tail(queue) # <<>> /\ Stays(Tail(queue))
      \/ ok /\ Tail(queue) = <<>> /\ Ends("ok")
    BY ServedNext DEF Rest, Fails
<1>6. phase' \in {"write", "end"}
    BY <1>5 DEF Ends, Stays
<1>7. /\ Geometry' /\ Configuration' /\ Asked' /\ Saving'
      /\ phase' # "end" => Returned'
      /\ UNCHANGED <<mem, request, call, before>> /\ (lost' # "late" <=> lost # "late") /\ ~HasAnswer'
      /\ ok => HasAnswer /\ request = Nothing
    BY <1>2, <1>6, ServedFlash
<1>8. Types' /\ Line'
    <2>1. Tail(queue) \in Seq(Request) /\ <<>> \in Seq(Request)
        BY <1>1 DEF IsTail
    <2>2. /\ queue' \in Seq(Request) /\ result' \in {"ok", "i2c_error"} /\ (phase' # "end" => queue' # <<>>)
        BY <1>5, <2>1, Zenon DEF Ends, Stays
    <2> QED
        BY <1>6, <2>2, ServedTypes
<1>9. Erasing' /\ RestoresHead' /\ RestoresTail'
    BY <1>6 DEF Erasing, RestoresHead, RestoresTail
<1>10. lost' # "late" => (NothingBut(Target(call)))' /\ \A w \in Target(call) : mem'[w] = before[w] \/ Written(w)'
    BY <1>2, <1>7 DEF NothingBut, Written
<1>11. ASSUME lost # "late", ok, NEW w \in Target(call), w < queue[1].at + Len(queue[1].words)
       PROVE  Written(w)'
    <2>1. Written(w)
        BY <1>2, <1>4, <1>7, <1>11
    <2> QED
        BY <2>1, <1>7 DEF Written
<1>12. Writing'
    <2>1. SUFFICES ASSUME phase' = "write" PROVE Writing'
        BY DEF Writing
    <2>2. ok /\ Tail(queue) # <<>> /\ queue' = Tail(queue)
        BY <1>5, <2>1 DEF Ends, Stays
    <2>3. call'.op = "write" /\ (Pieces(queue, call.at, Filled(call)))'
        BY <1>2, <1>3, <1>7, <2>2 DEF Pieces, Filled
    <2>4. lost' # "late" => \A w \in Target(call) : w < queue'[1].at => Written(w)'
        BY <1>3, <1>7, <1>11, <2>2
    <2> QED
        BY <1>7, <1>10, <2>2, <2>3, <2>4 DEF Writing
<1>13. Returned'
    <2>1. SUFFICES ASSUME phase' = "end", lost' # "late" PROVE Returned'
        BY <1>7 DEF Returned
    <2>2. request' # Nothing => Piece(request', call.at, Filled(call))
        BY <1>2, <1>3, <1>7, <2>1
    <2>3. result' = "ok" => request' = Nothing /\ \A w \in Target(call) : Written(w)'
        <3>1. SUFFICES ASSUME result' = "ok" PROVE request' = Nothing /\ \A w \in Target(call) : Written(w)'
            OBVIOUS
        <3>2. ok /\ Tail(queue) = <<>>
            BY <1>5, <2>1, <3>1 DEF Ends, Stays
        <3>3. \A w \in Target(call) : w < queue[1].at + Len(queue[1].words)
            BY <1>3, <1>4, <3>2
        <3> QED
            BY <1>7, <1>11, <2>1, <3>2, <3>3
    <2>4. call' = call /\ Filled(call)' = Filled(call) /\ call'.op = "write"
        BY <1>2, <1>7 DEF Filled
    <2> QED
        BY <1>7, <1>10, <2>1, <2>2, <2>3, <2>4 DEF Returned
<1> QED
    BY <1>7, <1>8, <1>9, <1>12, <1>13 DEF Safe

(* What has been put back, as far as it has been. *)
Around ==
    /\ SavedExact /\ NothingBut(Span(call)) /\ Erased(Target(call)) /\ MayRestore

(* An erase() that returns. *)
LEMMA ReturnsErased ==
    ASSUME Safe, NEW ok \in BOOLEAN, NEW words, Serving(ok, words),
           phase \in {"erase", "restore_head", "restore_tail"}, Ends("ok"), ErasesFit,
           lost' # "late" =>
             /\ Around
             /\ request # Nothing =>
                  Piece(request, First(call), saved.head) \/ Piece(request, After(call), saved.tail)
             /\ lost' = "no" => \A w \in Span(call) \ Target(call) : mem[w] = before[w]
    PROVE  Safe'
<1>1. phase' = "end" /\ queue' = <<>> /\ result' = "ok" /\ call.op = "erase" /\ After(call) <= Size
    BY DEF Ends, ErasesFit
<1>2. /\ Geometry' /\ Configuration' /\ Asked' /\ Saving' /\ saved' = saved
      /\ UNCHANGED <<mem, request, call, before>>
    BY <1>1, ServedFlash
<1>3. Types' /\ Line'
    <2>1. <<>> \in Seq(Request)
        OBVIOUS
    <2> QED
        BY <1>1, <2>1, ServedTypes
<1>4. Erasing' /\ RestoresHead' /\ RestoresTail' /\ Writing'
    BY <1>1 DEF Erasing, RestoresHead, RestoresTail, Writing
<1>5. lost' # "late" => SavedExact' /\ (NothingBut(Span(call)))' /\ (Erased(Target(call)))' /\ MayRestore'
    BY <1>2 DEF Around, SavedExact, SavedHead, SavedTail, NothingBut, Erased, MayRestore
<1>6. lost' = "no" => (NothingBut(Target(call)))'
    BY <1>2 DEF Around, NothingBut
<1>7. lost' # "late" /\ request' # Nothing => Piece(request', First(call), saved'.head) \/ Piece(request', After(call), saved'.tail)
    BY <1>2
<1>8. Returned'
    BY <1>1, <1>2, <1>5, <1>6, <1>7 DEF Returned
<1> QED
    BY <1>2, <1>3, <1>4, <1>8 DEF Safe

(* What precedes the range is done; what follows it is next, if any. *)
LEMMA EntersRestoreTail ==
    ASSUME Safe, NEW ok \in BOOLEAN, NEW words, Serving(ok, words),
           phase \in {"erase", "restore_head"}, Goes(RestoreTail(call, saved)), ErasesFit, geometry = True,
           lost' # "late" =>
             /\ Around /\ (lost' = "no" => SavedWhole)
             /\ request # Nothing => Piece(request, First(call), saved.head)
             /\ lost' = "no" => \A w \in Span(call) : w < call.at => mem[w] = before[w]
    PROVE  Safe'
<1>1. /\ call.op = "erase" /\ call # Nothing /\ Types
      /\ call.at \in Nat /\ After(call) \in Nat /\ First(call) \in Nat /\ Last(call) \in Nat
      /\ After(call) <= Last(call) + BlockSize
      /\ Span(call) \ Target(call) =
           (First(call) .. call.at - 1) \cup (After(call) .. Last(call) + BlockSize - 1)
    <2>1. call # Nothing /\ Types
        BY ServedQueue DEF Serving, Safe
    <2> QED
        BY <2>1, SpanFacts DEF ErasesFit
<1>2. CASE saved.tail = <<>>
    <2>1. Ends("ok")
        BY <1>2 DEF Goes, RestoreTail, Ends
    <2>2. ASSUME lost' = "no", NEW w \in Span(call) \ Target(call) PROVE mem[w] = before[w]
        <3>1. lost' # "late" /\ SavedWhole
            BY <2>2
        <3>2. w < call.at
            BY <1>1, <1>2, <3>1, SizeFacts DEF SavedWhole
        <3> QED
            BY <2>2, <3>1, <3>2
    <2> QED
        BY <2>1, <2>2, ReturnsErased
<1>3. CASE saved.tail # <<>>
    <2>1. phase' = "restore_tail" /\ queue' = Segments(After(call), saved.tail) /\ result' = "ok"
        BY <1>3 DEF Goes, RestoreTail, After
    <2>2. /\ queue' \in Seq(Request) /\ queue' # <<>> /\ Pieces(queue', After(call), saved.tail)
          /\ queue'[1].at = After(call)
        <3>1. PICK whole \in Seq(Values) : whole = saved.tail /\ whole # <<>>
            BY <1>1, <1>3 DEF Types
        <3>2. PICK at \in Nat : at = After(call)
            BY <1>1
        <3> QED
            BY <2>1, <3>1, <3>2, SegmentsArePieces
    <2>3. Types' /\ Line'
        BY <2>1, <2>2, ServedTypes DEF Restoring
    <2>4. /\ Geometry' /\ Configuration' /\ Asked' /\ Saving' /\ Returned' /\ saved' = saved /\ geometry' = geometry
          /\ UNCHANGED <<mem, request, call, before>> /\ ~HasAnswer'
        BY <1>1, <2>1, ServedFlash
    <2>5. Erasing' /\ RestoresHead' /\ Writing'
        BY <2>1 DEF Erasing, RestoresHead, Writing
    <2>6. RestoresTail'
        <3>1. ErasesFit' /\ geometry' = True /\ saved'.tail # <<>> /\ (Pieces(queue, After(call), saved.tail))'
            BY <1>3, <2>2, <2>4 DEF ErasesFit, Pieces, After
        <3>2. lost' # "late" => Restores'
            <4>1. lost' # "late" => SavedExact' /\ (NothingBut(Span(call)))' /\ (Erased(Target(call)))' /\ MayRestore'
                BY <2>4 DEF Around, SavedExact, SavedHead, SavedTail, NothingBut, Erased, MayRestore
            <4>2. lost' = "no" => SavedWhole'
                BY <2>4 DEF SavedWhole
            <4> QED
                BY <4>1, <4>2, <2>4 DEF Restores
        <3>3. lost' # "late" /\ request' # Nothing => Piece(request', First(call), saved'.head)
            BY <2>4
        <3>4. lost' = "no" => \A w \in Span(call) : w < call.at \/ (After(call) <= w /\ w < queue'[1].at) => mem[w] = before[w]
            <4>1. \A w \in Span(call) : ~(After(call) <= w /\ w < After(call))
                BY <1>1, SizeFacts DEF Span
            <4> QED
                BY <4>1, <2>2
        <3> QED
            BY <2>1, <2>4, <3>1, <3>2, <3>3, <3>4 DEF RestoresTail
    <2> QED
        BY <2>3, <2>4, <2>5, <2>6 DEF Safe
<1> QED
    BY <1>2, <1>3

(* Block by block. *)
LEMMA ServedErase ==
    ASSUME Safe, NEW ok \in BOOLEAN, NEW words, Serving(ok, words), phase = "erase"
    PROVE  Safe'
<1>1. IsTail(Tail(queue), queue) /\ call # Nothing /\ queue[1] \in Request /\ queue[1].at \in Nat
    BY ServedQueue, RequestFacts DEF Serving
<1>2. /\ ErasesFit /\ geometry = True /\ ErasesRest(queue, call) /\ call.op = "erase" /\ After(call) <= Size
      /\ lost = "no" => SavedWhole
      /\ lost # "late" =>
             /\ SavedExact
             /\ request # Nothing => Asks(request) \/ request = queue[1]
             /\ NothingBut(Span(call))
             /\ \A w \in Span(call) : w < queue[1].at => mem[w] = Blank
             /\ HasAnswer => \A w \in queue[1].at .. queue[1].at + BlockSize - 1 : mem[w] = Blank
    BY DEF Safe, Erasing, ErasesFit
<1>3. /\ ErasesOf(queue[1], call) /\ ErasesRest(Tail(queue), call)
      /\ Tail(queue) # <<>> => Tail(queue)[1].at = queue[1].at + BlockSize
      /\ Tail(queue) = <<>> => queue[1].at = Last(call)
    <2>1. PICK rest : rest = Tail(queue)
        OBVIOUS
    <2>2. IsTail(rest, queue) /\ ErasesRest(queue, call)
        BY <1>1, <1>2, <2>1, Zenon
    <2>3. /\ ErasesOf(queue[1], call) /\ ErasesRest(rest, call)
          /\ rest # <<>> => rest[1].at = queue[1].at + BlockSize
          /\ rest = <<>> => queue[1].at = Last(call)
        BY <2>2, ErasesTail
    <2> QED
        BY <2>1, <2>3, Zenon
<1>4. /\ call.at \in Nat /\ First(call) \in Nat /\ Last(call) \in Nat /\ First(call) <= call.at
      /\ Target(call) \subseteq Span(call)
    BY <1>1, <1>2, SpanFacts DEF Safe
<1>5. geometry' = geometry /\ saved' = saved
    BY ServedElsewhere, ServedCopies
<1>6. \/ ~ok /\ Ends("i2c_error")
      \/ ok /\ Tail(queue) # <<>> /\ Stays(Tail(queue))
      \/ ok /\ Tail(queue) = <<>> /\ Goes(RestoreHead(call, True, saved))
    <2>1. Tail(queue) = <<>> /\ ok => Goes(RestoreHead(call, geometry', saved'))
        BY ServedNext DEF Rest, Fails
    <2>2. Tail(queue) = <<>> /\ ok => Goes(RestoreHead(call, True, saved))
        BY <2>1, <1>2, <1>5
    <2> QED
        BY <2>2, ServedNext DEF Rest, Fails
<1>7. ASSUME lost # "late", ok, NEW w \in Span(call), w < queue[1].at + BlockSize
      PROVE  mem[w] = Blank
    <2>1. HasAnswer
        BY <1>7, ServedFrame
    <2>2. w \in Int
        BY <1>4, SizeFacts DEF Span
    <2> QED
        BY <1>1, <1>2, <1>7, <2>1, <2>2, SizeFacts
<1>8. (lost' # "late" <=> lost # "late") /\ (lost' = "no" => ok /\ lost = "no") /\ (ok => request = Nothing) /\ (~ok => lost' # "no")
    BY ServedFrame DEF Safe, Types
<1>9. CASE ~ok /\ Ends("i2c_error")
    <2>1. phase' = "end" /\ queue' = <<>> /\ result' = "i2c_error"
        BY <1>9 DEF Ends
    <2>2. /\ Geometry' /\ Configuration' /\ Asked' /\ Saving'
          /\ UNCHANGED <<mem, request, call, before>>
        BY <1>2, <2>1, ServedFlash
    <2>3. Types' /\ Line'
        <3>1. <<>> \in Seq(Request)
            OBVIOUS
        <3> QED
            BY <2>1, <3>1, ServedTypes
    <2>4. Erasing' /\ RestoresHead' /\ RestoresTail' /\ Writing'
        BY <2>1 DEF Erasing, RestoresHead, RestoresTail, Writing
    <2>5. lost' # "late" => (NothingBut(Span(call)))'
        BY <1>2, <1>8, <2>2 DEF NothingBut
    <2>6. lost' # "late" /\ request' # Nothing => Asks(request') \/ ErasesOf(request', call)
        BY <1>2, <1>3, <1>8, <2>2
    <2>7. Returned'
        BY <1>2, <1>8, <1>9, <2>1, <2>2, <2>5, <2>6 DEF Returned
    <2> QED
        BY <2>2, <2>3, <2>4, <2>7 DEF Safe
<1>10. CASE ok /\ Tail(queue) # <<>> /\ Stays(Tail(queue))
    <2>1. phase' = "erase" /\ queue' = Tail(queue) /\ result' = "ok"
        BY <1>10 DEF Stays
    <2>2. /\ Geometry' /\ Configuration' /\ Asked' /\ Saving' /\ Returned'
          /\ UNCHANGED <<mem, request, call, before>> /\ ~HasAnswer'
        BY <1>2, <2>1, ServedFlash
    <2>3. Types' /\ Line'
        <3>1. Tail(queue) \in Seq(Request)
            BY <1>1 DEF IsTail
        <3> QED
            BY <1>10, <2>1, <3>1, ServedTypes
    <2>4. RestoresHead' /\ RestoresTail' /\ Writing'
        BY <2>1 DEF RestoresHead, RestoresTail, Writing
    <2>5. Erasing'
        <3>1. ErasesFit' /\ geometry' = True /\ (ErasesRest(queue, call))' /\ (lost' = "no" => SavedWhole')
            BY <1>2, <1>3, <1>5, <1>8, <2>1, <2>2 DEF ErasesFit, ErasesRest, SavedWhole
        <3>2. lost' # "late" => SavedExact' /\ (NothingBut(Span(call)))'
            BY <1>2, <1>5, <1>8, <2>2 DEF SavedExact, SavedHead, SavedTail, NothingBut
        <3>3. lost' # "late" => \A w \in Span(call) : w < queue'[1].at => mem[w] = Blank
            BY <1>3, <1>7, <1>8, <1>10, <2>1
        <3> QED
            BY <1>8, <1>10, <2>2, <3>1, <3>2, <3>3 DEF Erasing
    <2> QED
        BY <2>2, <2>3, <2>4, <2>5 DEF Safe
<1>11. CASE ok /\ Tail(queue) = <<>> /\ Goes(RestoreHead(call, True, saved))
    <2>1. ASSUME lost # "late"
          PROVE  /\ \A w \in Span(call) : mem[w] = Blank
                 /\ Around
        <3>1. \A w \in Span(call) : mem[w] = Blank
            <4>1. \A w \in Span(call) : w < queue[1].at + BlockSize
                BY <1>3, <1>4, <1>11, SizeFacts DEF Span
            <4> QED
                BY <4>1, <1>7, <1>11, <2>1
        <3>2. Around
            BY <1>2, <1>4, <2>1, <3>1 DEF Around, Erased, MayRestore
        <3> QED
            BY <3>1, <3>2
    <2>2. CASE saved.head = <<>>
        <3>1. Goes(RestoreTail(call, saved))
            BY <1>11, <2>2 DEF RestoreHead
        <3>2. ASSUME lost' = "no", NEW w \in Span(call), w < call.at PROVE FALSE
            <4>1. SavedWhole
                BY <1>2, <1>8, <3>2
            <4>2. First(call) <= w
                BY <1>4, SizeFacts DEF Span
            <4>3. w \in Int
                BY <1>4, SizeFacts DEF Span
            <4> QED
                BY <4>1, <4>2, <4>3, <2>2, <1>4, <3>2 DEF SavedWhole
        <3> QED
            BY <1>2, <1>8, <1>11, <2>1, <3>1, <3>2, EntersRestoreTail
    <2>3. CASE saved.head # <<>>
        <3>1. phase' = "restore_head" /\ queue' = Segments(First(call), saved.head) /\ result' = "ok"
            BY <1>11, <2>3 DEF Goes, RestoreHead, First
        <3>2. /\ queue' \in Seq(Request) /\ queue' # <<>> /\ Pieces(queue', First(call), saved.head)
              /\ queue'[1].at = First(call)
            <4>1. PICK whole \in Seq(Values) : whole = saved.head /\ whole # <<>>
                BY <2>3 DEF Safe, Types
            <4>2. PICK at \in Nat : at = First(call)
                BY <1>4
            <4> QED
                BY <3>1, <4>1, <4>2, SegmentsArePieces
        <3>3. Types' /\ Line'
            BY <3>1, <3>2, ServedTypes DEF Restoring
        <3>4. /\ Geometry' /\ Configuration' /\ Asked' /\ Saving' /\ Returned'
              /\ UNCHANGED <<mem, request, call, before>> /\ ~HasAnswer'
            BY <1>2, <3>1, ServedFlash
        <3>5. Erasing' /\ RestoresTail' /\ Writing'
            BY <3>1 DEF Erasing, RestoresTail, Writing
        <3>6. RestoresHead'
            <4>1. ErasesFit' /\ geometry' = True /\ saved'.head # <<>> /\ (Pieces(queue, First(call), saved.head))'
                BY <1>2, <1>5, <2>3, <3>2, <3>4 DEF ErasesFit, Pieces, First, EraseStart
            <4>2. lost' # "late" => Restores'
                <5>1. lost' # "late" => SavedExact' /\ (NothingBut(Span(call)))' /\ (Erased(Target(call)))' /\ MayRestore'
                    BY <1>5, <1>8, <2>1, <3>4 DEF Around, SavedExact, SavedHead, SavedTail, NothingBut, Erased, MayRestore
                <5>2. lost' = "no" => SavedWhole'
                    BY <1>2, <1>5, <1>8, <3>4 DEF SavedWhole
                <5> QED
                    BY <5>1, <5>2, <3>4 DEF Restores
            <4>3. lost' = "no" => \A w \in Span(call) : w < queue'[1].at => mem[w] = before[w]
                <5>1. \A w \in Span(call) : ~(w < First(call))
                    BY <1>4, SizeFacts DEF Span
                <5> QED
                    BY <5>1, <3>2
            <4> QED
                BY <1>8, <1>11, <3>1, <3>4, <4>1, <4>2, <4>3 DEF RestoresHead
        <3> QED
            BY <3>3, <3>4, <3>5, <3>6 DEF Safe
    <2> QED
        BY <2>2, <2>3
<1> QED
    BY <1>6, <1>9, <1>10, <1>11

(* The part before the range; it goes on to the one after it even when a   *)
(* transaction was given up.                                               *)
LEMMA ServedRestoreHead ==
    ASSUME Safe, NEW ok \in BOOLEAN, NEW words, Serving(ok, words), phase = "restore_head"
    PROVE  Safe'
<1>1. IsTail(Tail(queue), queue) /\ call # Nothing /\ queue[1] \in Request /\ queue[1].at \in Nat /\ Len(queue[1].words) \in Nat
    BY ServedQueue, RequestFacts DEF Serving
<1>2. /\ ErasesFit /\ geometry = True /\ saved.head # <<>> /\ call.op = "erase"
      /\ Pieces(queue, First(call), saved.head)
      /\ lost # "late" =>
             /\ Around /\ (lost = "no" => SavedWhole)
             /\ request # Nothing => request = queue[1]
             /\ HasAnswer => \A w \in queue[1].at .. queue[1].at + Len(queue[1].words) - 1 : mem[w] = before[w]
             /\ lost = "no" => \A w \in Span(call) : w < queue[1].at => mem[w] = before[w]
    BY DEF Safe, RestoresHead, ErasesFit, Restores, Around
<1>3. /\ call.at \in Nat /\ First(call) \in Nat /\ Last(call) \in Nat
    BY <1>1, <1>2, SpanFacts DEF Safe
<1>4. /\ Piece(queue[1], First(call), saved.head) /\ Pieces(Tail(queue), First(call), saved.head)
      /\ Tail(queue) # <<>> => Tail(queue)[1].at = queue[1].at + Len(queue[1].words)
      /\ Tail(queue) = <<>> => queue[1].at + Len(queue[1].words) = First(call) + Len(saved.head)
    <2>1. PICK rest, whole : rest = Tail(queue) /\ whole = saved.head
        OBVIOUS
    <2>2. IsTail(rest, queue) /\ Pieces(queue, First(call), whole)
        BY <1>1, <1>2, <2>1, Zenon
    <2>3. /\ Piece(queue[1], First(call), whole) /\ Pieces(rest, First(call), whole)
          /\ rest # <<>> => rest[1].at = queue[1].at + Len(queue[1].words)
          /\ rest = <<>> => queue[1].at + Len(queue[1].words) = First(call) + Len(whole)
        BY <1>3, <2>2, PiecesTail
    <2> QED
        BY <2>1, <2>3, Zenon
<1>5. geometry' = geometry /\ saved' = saved
    BY ServedElsewhere, ServedCopies
<1>6. \/ ok /\ Tail(queue) # <<>> /\ Stays(Tail(queue))
      \/ (ok => Tail(queue) = <<>>) /\ Goes(RestoreTail(call, saved))
    <2>1. Rest(ok) = IF ok THEN Tail(queue) ELSE <<>>
        BY DEF Rest
    <2>2. Rest(ok) = <<>> => Goes(RestoreTail(call, saved))
        BY <1>5, ServedNext DEF Fails
    <2>3. Rest(ok) # <<>> => Stays(Rest(ok))
        BY ServedNext DEF Fails
    <2>4. CASE Rest(ok) = <<>>
        BY <2>1, <2>2, <2>4
    <2>5. CASE Rest(ok) # <<>>
        BY <2>1, <2>3, <2>5
    <2> QED
        BY <2>4, <2>5
<1>7. (lost' # "late" <=> lost # "late") /\ (lost' = "no" => ok /\ lost = "no") /\ (ok => request = Nothing /\ HasAnswer)
    BY ServedFrame DEF Safe, Types
<1>8. ASSUME lost' = "no", NEW w \in Span(call), w < queue[1].at + Len(queue[1].words)
      PROVE  mem[w] = before[w]
    <2>1. w \in Int /\ HasAnswer /\ lost = "no" /\ lost # "late"
        BY <1>3, <1>7, <1>8, SizeFacts DEF Span
    <2>2. CASE w < queue[1].at
        BY <1>2, <1>8, <2>1, <2>2
    <2>3. CASE ~(w < queue[1].at)
        <3>1. w \in queue[1].at .. queue[1].at + Len(queue[1].words) - 1
            BY <1>1, <1>8, <2>1, <2>3
        <3> QED
            BY <1>2, <2>1, <3>1
    <2> QED
        BY <2>2, <2>3
<1>9. CASE ok /\ Tail(queue) # <<>> /\ Stays(Tail(queue))
    <2>1. phase' = "restore_head" /\ queue' = Tail(queue) /\ result' = "ok"
        BY <1>9 DEF Stays
    <2>2. /\ Geometry' /\ Configuration' /\ Asked' /\ Saving' /\ Returned'
          /\ UNCHANGED <<mem, request, call, before>> /\ ~HasAnswer'
        BY <1>2, <2>1, ServedFlash
    <2>3. Types' /\ Line'
        <3>1. Tail(queue) \in Seq(Request)
            BY <1>1 DEF IsTail
        <3> QED
            BY <1>9, <2>1, <3>1, ServedTypes DEF Restoring
    <2>4. Erasing' /\ RestoresTail' /\ Writing'
        BY <2>1 DEF Erasing, RestoresTail, Writing
    <2>5. RestoresHead'
        <3>1. ErasesFit' /\ geometry' = True /\ saved'.head # <<>> /\ (Pieces(queue, First(call), saved.head))'
            BY <1>2, <1>4, <1>5, <2>1, <2>2 DEF ErasesFit, Pieces, First, EraseStart
        <3>2. lost' # "late" => Restores'
            <4>1. lost' # "late" => SavedExact' /\ (NothingBut(Span(call)))' /\ (Erased(Target(call)))' /\ MayRestore'
                BY <1>2, <1>5, <1>7, <2>2 DEF Around, SavedExact, SavedHead, SavedTail, NothingBut, Erased, MayRestore
            <4>2. lost' = "no" => SavedWhole'
                BY <1>2, <1>5, <1>7, <2>2 DEF SavedWhole
            <4> QED
                BY <4>1, <4>2, <2>2 DEF Restores
        <3>3. lost' = "no" => \A w \in Span(call) : w < queue'[1].at => mem[w] = before[w]
            BY <1>4, <1>8, <1>9, <2>1
        <3> QED
            BY <1>7, <1>9, <2>1, <2>2, <3>1, <3>2, <3>3 DEF RestoresHead
    <2> QED
        BY <2>2, <2>3, <2>4, <2>5 DEF Safe
<1>10. CASE (ok => Tail(queue) = <<>>) /\ Goes(RestoreTail(call, saved))
    <2>1. First(call) + Len(saved.head) = call.at \/ lost = "late"
        <3>1. Types /\ (lost # "late" => SavedExact)
            BY <1>2 DEF Safe, Around
        <3> QED
            BY <3>1, <1>1, <1>2, SavedRanges
    <2>2. ASSUME lost' = "no", NEW w \in Span(call), w < call.at PROVE mem[w] = before[w]
        <3>1. lost = "no" /\ queue[1].at + Len(queue[1].words) = First(call) + Len(saved.head)
            BY <1>4, <1>7, <1>10, <2>2
        <3>2. queue[1].at + Len(queue[1].words) = call.at
            BY <3>1, <2>1
        <3> QED
            BY <1>8, <2>2, <3>2
    <2>3. lost' # "late" =>
             /\ Around /\ (lost' = "no" => SavedWhole)
             /\ request # Nothing => Piece(request, First(call), saved.head)
             /\ lost' = "no" => \A w \in Span(call) : w < call.at => mem[w] = before[w]
        BY <1>2, <1>4, <1>7, <2>2
    <2> QED
        BY <1>2, <1>10, <2>3, EntersRestoreTail
<1> QED
    BY <1>6, <1>9, <1>10

(* The part after the range. *)
LEMMA ServedRestoreTail ==
    ASSUME Safe, NEW ok \in BOOLEAN, NEW words, Serving(ok, words), phase = "restore_tail"
    PROVE  Safe'
<1>1. IsTail(Tail(queue), queue) /\ call # Nothing /\ queue[1] \in Request /\ queue[1].at \in Nat /\ Len(queue[1].words) \in Nat
    BY ServedQueue, RequestFacts DEF Serving
<1>2. /\ ErasesFit /\ geometry = True /\ saved.tail # <<>> /\ call.op = "erase"
      /\ Pieces(queue, After(call), saved.tail)
      /\ lost # "late" =>
             /\ Around /\ (lost = "no" => SavedWhole)
             /\ request # Nothing => request = queue[1] \/ Piece(request, First(call), saved.head)
             /\ HasAnswer => \A w \in queue[1].at .. queue[1].at + Len(queue[1].words) - 1 : mem[w] = before[w]
             /\ lost = "no" => \A w \in Span(call) : w < call.at \/ (After(call) <= w /\ w < queue[1].at) => mem[w] = before[w]
    BY DEF Safe, RestoresTail, ErasesFit, Restores, Around
<1>3. /\ call.at \in Nat /\ First(call) \in Nat /\ Last(call) \in Nat /\ After(call) \in Nat
      /\ Span(call) \ Target(call) =
           (First(call) .. call.at - 1) \cup (After(call) .. Last(call) + BlockSize - 1)
    BY <1>1, <1>2, SpanFacts DEF Safe
<1>4. /\ Piece(queue[1], After(call), saved.tail) /\ Pieces(Tail(queue), After(call), saved.tail)
      /\ Tail(queue) # <<>> => Tail(queue)[1].at = queue[1].at + Len(queue[1].words)
      /\ Tail(queue) = <<>> => queue[1].at + Len(queue[1].words) = After(call) + Len(saved.tail)
    <2>1. PICK rest, whole : rest = Tail(queue) /\ whole = saved.tail
        OBVIOUS
    <2>2. IsTail(rest, queue) /\ Pieces(queue, After(call), whole)
        BY <1>1, <1>2, <2>1, Zenon
    <2>3. /\ Piece(queue[1], After(call), whole) /\ Pieces(rest, After(call), whole)
          /\ rest # <<>> => rest[1].at = queue[1].at + Len(queue[1].words)
          /\ rest = <<>> => queue[1].at + Len(queue[1].words) = After(call) + Len(whole)
        BY <1>3, <2>2, PiecesTail
    <2> QED
        BY <2>1, <2>3, Zenon
<1>5. geometry' = geometry /\ saved' = saved
    BY ServedElsewhere, ServedCopies
<1>6. \/ ok /\ Tail(queue) # <<>> /\ Stays(Tail(queue))
      \/ (ok => Tail(queue) = <<>>) /\ Ends("ok")
    <2>1. Rest(ok) = IF ok THEN Tail(queue) ELSE <<>>
        BY DEF Rest
    <2>2. Rest(ok) = <<>> => Ends("ok")
        BY ServedNext DEF Fails
    <2>3. Rest(ok) # <<>> => Stays(Rest(ok))
        BY ServedNext DEF Fails
    <2>4. CASE Rest(ok) = <<>>
        BY <2>1, <2>2, <2>4
    <2>5. CASE Rest(ok) # <<>>
        BY <2>1, <2>3, <2>5
    <2> QED
        BY <2>4, <2>5
<1>7. (lost' # "late" <=> lost # "late") /\ (lost' = "no" => ok /\ lost = "no") /\ (ok => request = Nothing /\ HasAnswer)
    BY ServedFrame DEF Safe, Types
<1>8. ASSUME lost' = "no", NEW w \in Span(call), w < call.at \/ (After(call) <= w /\ w < queue[1].at + Len(queue[1].words))
      PROVE  mem[w] = before[w]
    <2>1. w \in Int /\ HasAnswer /\ lost = "no" /\ lost # "late"
        BY <1>3, <1>7, <1>8, SizeFacts DEF Span
    <2>2. CASE w < call.at \/ (After(call) <= w /\ w < queue[1].at)
        BY <1>2, <1>8, <2>1, <2>2
    <2>3. CASE ~(w < call.at) /\ ~(w < queue[1].at)
        <3>1. w \in queue[1].at .. queue[1].at + Len(queue[1].words) - 1
            BY <1>1, <1>8, <2>1, <2>3
        <3> QED
            BY <1>2, <2>1, <3>1
    <2> QED
        BY <2>2, <2>3, <1>8
<1>9. CASE ok /\ Tail(queue) # <<>> /\ Stays(Tail(queue))
    <2>1. phase' = "restore_tail" /\ queue' = Tail(queue) /\ result' = "ok"
        BY <1>9 DEF Stays
    <2>2. /\ Geometry' /\ Configuration' /\ Asked' /\ Saving' /\ Returned'
          /\ UNCHANGED <<mem, request, call, before>> /\ ~HasAnswer'
        BY <1>2, <2>1, ServedFlash
    <2>3. Types' /\ Line'
        <3>1. Tail(queue) \in Seq(Request)
            BY <1>1 DEF IsTail
        <3> QED
            BY <1>9, <2>1, <3>1, ServedTypes DEF Restoring
    <2>4. Erasing' /\ RestoresHead' /\ Writing'
        BY <2>1 DEF Erasing, RestoresHead, Writing
    <2>5. RestoresTail'
        <3>1. ErasesFit' /\ geometry' = True /\ saved'.tail # <<>> /\ (Pieces(queue, After(call), saved.tail))'
            BY <1>2, <1>4, <1>5, <2>1, <2>2 DEF ErasesFit, Pieces, After
        <3>2. lost' # "late" => Restores'
            <4>1. lost' # "late" => SavedExact' /\ (NothingBut(Span(call)))' /\ (Erased(Target(call)))' /\ MayRestore'
                BY <1>2, <1>5, <1>7, <2>2 DEF Around, SavedExact, SavedHead, SavedTail, NothingBut, Erased, MayRestore
            <4>2. lost' = "no" => SavedWhole'
                BY <1>2, <1>5, <1>7, <2>2 DEF SavedWhole
            <4> QED
                BY <4>1, <4>2, <2>2 DEF Restores
        <3>3. lost' = "no" => \A w \in Span(call) : w < call.at \/ (After(call) <= w /\ w < queue'[1].at) => mem[w] = before[w]
            BY <1>4, <1>8, <1>9, <2>1
        <3> QED
            BY <1>7, <1>9, <2>1, <2>2, <3>1, <3>2, <3>3 DEF RestoresTail
    <2> QED
        BY <2>2, <2>3, <2>4, <2>5 DEF Safe
<1>10. CASE (ok => Tail(queue) = <<>>) /\ Ends("ok")
    <2>1. After(call) + Len(saved.tail) = Last(call) + BlockSize \/ lost = "late"
        <3>1. Types /\ (lost # "late" => SavedExact)
            BY <1>2 DEF Safe, Around
        <3> QED
            BY <3>1, <1>1, <1>2, SavedRanges
    <2>2. ASSUME lost' = "no", NEW w \in Span(call) \ Target(call) PROVE mem[w] = before[w]
        <3>1. lost = "no" /\ queue[1].at + Len(queue[1].words) = After(call) + Len(saved.tail)
            BY <1>4, <1>7, <1>10, <2>2
        <3>2. queue[1].at + Len(queue[1].words) = Last(call) + BlockSize
            BY <3>1, <2>1
        <3>3. w < call.at \/ (After(call) <= w /\ w < Last(call) + BlockSize)
            BY <1>3, <2>2, SizeFacts
        <3> QED
            BY <1>8, <2>2, <3>2, <3>3
    <2>3. lost' # "late" =>
             /\ Around
             /\ request # Nothing =>
                  Piece(request, First(call), saved.head) \/ Piece(request, After(call), saved.tail)
             /\ lost' = "no" => \A w \in Span(call) \ Target(call) : mem[w] = before[w]
        BY <1>2, <1>4, <1>7, <2>2
    <2> QED
        BY <1>2, <1>10, <2>3, ReturnsErased
<1> QED
    BY <1>6, <1>9, <1>10

(* Every phase of a call, whether or not it was answered.                  *)
LEMMA ServedSafe ==
    ASSUME Safe, NEW ok \in BOOLEAN, NEW words, Serving(ok, words)
    PROVE  Safe'
<1>1. phase \in Asking \cup Restoring \cup {"write", "erase"}
    BY ServedQueue DEF Serving, Safe, Types
<1> QED
    BY <1>1, ServedPlain, ServedSet, ServedGeometry, ServedSave, ServedErase, ServedRestoreHead,
       ServedRestoreTail, ServedWrite DEF Asking, Restoring

-----------------------------------------------------------------------------
(* The calls the scenarios make are calls.                                 *)
LEMMA CallsTyped == Calls \subseteq CallSet
<1>1. ASSUME NEW op \in Ops, NEW at \in Nat, NEW len \in Nat, NEW v \in Values,
             op \in {"read", "write", "erase"} => len > 0,
             op \in {"read", "write"} => at + len <= Size
      PROVE  Call(op, at, len, v) \in CallSet
    BY <1>1 DEF Call, CallSet
<1>2. "none" \in Values /\ Data \subseteq Values
    BY DEF Values
<1>3. ASSUME NEW op \in Ops \ {"read", "write", "erase"} PROVE Simple(op) \in CallSet
    BY <1>1, <1>2 DEF Simple
<1>4. ASSUME NEW r \in Ranges PROVE r[1] \in Nat /\ r[2] \in Nat /\ r[2] > 0 /\ r[1] + r[2] <= Size
    BY SizeFacts DEF Ranges, Words
<1>5. StorageCalls \subseteq CallSet
    <2>1. ASSUME NEW op \in {"write", "erase"}, NEW r \in Ranges, NEW d \in Data
          PROVE  Call(op, r[1], r[2], d) \in CallSet
        <3>1. op \in Ops /\ d \in Values
            BY <1>2 DEF Ops
        <3> QED
            BY <1>1, <1>4, <3>1
    <2>2. ASSUME NEW r \in Ranges PROVE Call("read", r[1], r[2], "none") \in CallSet
        <3>1. "read" \in Ops
            BY DEF Ops
        <3> QED
            BY <1>1, <1>2, <1>4, <3>1
    <2>3. Call("erase", Size - 1, 2, "none") \in CallSet
        <3>1. Size - 1 \in Nat /\ "erase" \in Ops
            BY SizeFacts DEF Ops
        <3> QED
            BY <1>1, <1>2, <3>1
    <2> QED
        BY <2>1, <2>2, <2>3 DEF StorageCalls
<1>6. ASSUME NEW d \in Data, NEW persist \in BOOLEAN, NEW fits \in BOOLEAN
      PROVE  SetCall(d, persist, fits) \in CallSet
    <2>1. Simple("setConfiguration") \in CallSet /\ Simple("setConfiguration").op = "setConfiguration"
        BY <1>3 DEF Ops, Simple, Call
    <2> QED
        BY <1>2, <2>1 DEF CallSet, SetCall
<1>7. SettingsCalls \subseteq CallSet
    <2>1. ASSUME NEW op \in {"getConfiguration", "getGeometry", "remount", "eraseConfig"}
          PROVE  Simple(op) \in CallSet
        BY <1>3 DEF Ops
    <2> QED
        BY <1>6, <2>1 DEF SettingsCalls
<1>8. Simple("getGeometry") \in CallSet /\ EventsCalls \subseteq CallSet
    <2>1. Simple("getGeometry") \in CallSet
        BY <1>3 DEF Ops
    <2>2. Call("erase", 0, BlockSize, "none") \in CallSet
        BY <1>1, <1>2, SizeFacts DEF Ops
    <2> QED
        BY <2>1, <2>2 DEF EventsCalls
<1> QED
    BY <1>5, <1>7, <1>8 DEF Calls

(* A call that begins with queries. *)
LEMMA BeginsAsking ==
    ASSUME NEW c \in CallSet, call' = c, c.op # "write",
           phase' \in {"read", "query", "command", "geometry"}, result' = "ok",
           phase' # "geometry" => c.op \notin {"erase", "setConfiguration"},
           queue' \in Seq(Request), queue' # <<>>,
           \A i \in 1 .. Len(queue') :
             /\ Asks(queue'[i]) /\ (queue'[i].cmd \in Items => queue'[i].words = <<>>)
             /\ phase' # "geometry" => queue'[i].cmd \notin {"sector", "disk"}
             /\ phase' = "query" => queue'[i].cmd \in Items,
           phase' = "query" => \A x \in Items : LeftIn(queue', x),
           phase' = "geometry" => queue' = <<Ask("sector"), Ask("disk")>>,
           saved' = NothingSaved, Placed' => Types' /\ Line', Untouched'
    PROVE  Safe'
<1>1. Types' /\ Line'
    BY DEF Placed, Asking
<1>2. Asked'
    BY DEF Asked, Untouched
<1>3. Saving' /\ Erasing' /\ RestoresHead' /\ RestoresTail' /\ Writing'
    BY DEF Saving, Erasing, RestoresHead, RestoresTail, Writing
<1>4. Returned'
    BY <1>1 DEF Line, Returned
<1>5. Geometry'
    BY DEF Geometry, Untouched
<1>6. Configuration'
    BY DEF Configuration, Untouched, HasAnswer
<1> QED
    BY <1>1, <1>2, <1>3, <1>4, <1>5, <1>6 DEF Safe

(* A call begins.                                                          *)
LEMMA BeginSafe ==
    ASSUME Safe, Begin
    PROVE  Safe'
<1> DEFINE Next1(c) == Settled(c, Opening(c).phase, Opening(c).queue, geometry, NothingSaved)
<1>1. /\ UNCHANGED <<mem, setup, request, answer, geometry, loaded, config, everLost>>
      /\ before' = mem /\ saved' = NothingSaved /\ valid' = TRUE
      /\ lost' = IF request # Nothing THEN "late" ELSE "no"
    BY DEF Begin, chipVars, cacheVars
<1>2. PICK c \in CallSet :
         /\ call' = c /\ Goes(Next1(c))
         /\ pc' = IF phase' = "end" THEN "idle" ELSE "send"
    <2>1. PICK c \in Calls : call' = c /\ Continue(Next1(c))
        BY Zenon DEF Begin
    <2> HIDE DEF Next1
    <2>2. Goes(Next1(c)) /\ pc' = IF phase' = "end" THEN "idle" ELSE "send"
        BY <2>1 DEF Continue, Ended, Goes
    <2> QED
        BY <2>1, <2>2, CallsTyped
<1>3. phase = "end" /\ pc' # "poll" /\ ~HasAnswer' /\ c # Nothing
    <2>1. c # Nothing
        <3>1. Nothing \notin CallSet
            BY DEF Nothing, CallSet
        <3> QED
            BY <3>1
    <2>2. phase = "end"
        BY DEF Begin, Safe, Line
    <2> QED
        BY <1>2, <2>1, <2>2 DEF HasAnswer
<1>4. Placed' => Types' /\ Line'
    <2>1. ASSUME Placed' PROVE Types'
        BY <2>1, <1>1, <1>2 DEF Placed, Safe, Types, NothingSaved
    <2>2. ASSUME Placed' PROVE Line'
        <3>1. everLost = FALSE => request = Nothing
            BY <1>3 DEF Safe, Line
        <3> QED
            BY <2>2, <3>1, <1>1, <1>2, <1>3 DEF Placed, Safe, Line
    <2> QED
        BY <2>1, <2>2
<1>5. Untouched'
    BY <1>1, <1>3 DEF Untouched, Safe, Geometry, Configuration
<1>6. /\ geometry' \in [blockSize : {0, BlockSize}, blockCount : {0, BlockCount}]
      /\ c.at \in Nat /\ c.len \in Nat /\ c.value \in Values /\ c.op \in Ops
      /\ c.op \in {"read", "write"} => c.len > 0 /\ c.at + c.len <= Size
    BY <1>1 DEF Safe, Types, CallSet
<1>7. ASSUME Opening(c).queue # <<>>
      PROVE  phase' = Opening(c).phase /\ queue' = Opening(c).queue /\ result' = "ok"
    BY <1>2, <1>7 DEF Goes, Settled
<1>8. ASSUME Opening(c).queue = <<>>
      PROVE  Goes(Following(c, Opening(c).phase, geometry', NothingSaved))
    BY <1>1, <1>2, <1>8 DEF Settled
<1> HIDE DEF Next1
<1>9. CASE c.op = "read"
    <2>1. phase' = "read" /\ queue' = <<Read(c.at, c.len)>> /\ result' = "ok"
        BY <1>7, <1>9 DEF Opening
    <2>2. Read(c.at, c.len) \in Request
        BY <1>6, <1>9, Requests
    <2>3. queue' \in Seq(Request) /\ queue' # <<>> /\ Len(queue') = 1 /\ queue'[1].cmd = "read"
        BY <2>1, <2>2 DEF Read
    <2> QED
        BY <1>1, <1>2, <1>4, <1>5, <1>9, <2>1, <2>3, BeginsAsking DEF Asks, Items
<1>10. CASE c.op = "write"
    <2>1. PICK whole : whole = Filled(c) /\ whole \in Seq(Values) /\ whole # <<>> /\ Len(whole) = c.len
        <3>1. Filled(c) \in Seq(Values) /\ Len(Filled(c)) = c.len
            BY <1>6 DEF Filled
        <3> QED
            BY <3>1, <1>6, <1>10, EmptySeq
    <2>2. /\ Segments(c.at, whole) \in Seq(Request) /\ Segments(c.at, whole) # <<>>
          /\ Pieces(Segments(c.at, whole), c.at, whole)
          /\ Segments(c.at, whole)[1].at = c.at
        BY <1>6, <2>1, SegmentsArePieces
    <2>3. phase' = "write" /\ queue' = Segments(c.at, whole) /\ result' = "ok"
        <3>1. Opening(c) = [phase |-> "write", queue |-> Segments(c.at, whole)]
            BY <1>10, <2>1 DEF Opening, Filled
        <3> QED
            BY <3>1, <1>7, <2>2
    <2>4. Types' /\ Line'
        BY <1>4, <2>2, <2>3 DEF Placed
    <2>5. Asked' /\ Saving' /\ Erasing' /\ RestoresHead' /\ RestoresTail'
        BY <2>3 DEF Asked, Asking, Saving, Erasing, RestoresHead, RestoresTail
    <2>6. Returned'
        BY <2>3, <2>4 DEF Line, Returned
    <2>7. Geometry' /\ Configuration'
        BY <1>5, <2>3 DEF Geometry, Configuration, Untouched
    <2>8. Writing'
        <3>1. (Pieces(queue, call.at, Filled(call)))'
            BY <1>2, <2>1, <2>2, <2>3 DEF Pieces, Filled
        <3>2. lost' # "late" => request' = Nothing /\ mem' = before'
            BY <1>1
        <3>3. \A w \in Target(c) : ~(w < c.at)
            BY <1>6, <1>10 DEF Target
        <3> QED
            BY <1>2, <1>3, <1>10, <2>2, <2>3, <3>1, <3>2, <3>3 DEF Writing, NothingBut
    <2> QED
        BY <2>4, <2>5, <2>6, <2>7, <2>8 DEF Safe
<1>11. CASE c.op = "getConfiguration"
    <2>1. Opening(c) = [phase |-> "query", queue |-> GetConfiguration]
        BY <1>11 DEF Opening
    <2>2. CASE "config" \in loaded
        <3>1. Goes(Following(c, "query", geometry', NothingSaved))
            BY <1>8, <2>1, <2>2 DEF GetConfiguration
        <3>2. phase' = "end" /\ queue' = <<>> /\ result' = "ok"
            BY <3>1 DEF Goes, Following
        <3>3. Types' /\ Line'
            <4>1. <<>> \in Seq(Request)
                OBVIOUS
            <4> QED
                BY <1>4, <3>2, <4>1 DEF Placed
        <3>4. Asked' /\ Saving' /\ Erasing' /\ RestoresHead' /\ RestoresTail' /\ Writing' /\ Geometry' /\ Configuration'
            BY <1>5, <3>2 DEF Asked, Asking, Saving, Erasing, RestoresHead, RestoresTail, Writing, Geometry, Configuration, Untouched
        <3>5. Returned'
            BY <1>2, <1>5, <1>11 DEF Returned, Untouched
        <3> QED
            BY <3>3, <3>4, <3>5 DEF Safe
    <2>3. CASE "config" \notin loaded
        <3>1. phase' = "query" /\ queue' = <<Ask("name"), Ask("size"), Ask("visible")>> /\ result' = "ok"
            BY <1>7, <2>1, <2>3 DEF GetConfiguration
        <3>2. \A x \in Items : Ask(x) \in Request /\ Ask(x).cmd = x /\ Ask(x).words = <<>>
            <4>1. Items \subseteq Commands \ {"read", "write", "erase"}
                BY DEF Items, Commands
            <4> QED
                BY <4>1, Requests DEF Ask
        <3>3. /\ queue' \in Seq(Request) /\ queue' # <<>> /\ Len(queue') = 3
              /\ queue'[1].cmd = "name" /\ queue'[2].cmd = "size" /\ queue'[3].cmd = "visible"
              /\ \A i \in 1 .. 3 : queue'[i].words = <<>> /\ queue'[i].cmd \in Items
            BY <3>1, <3>2 DEF Items
        <3>4. \A x \in Items : LeftIn(queue', x)
            BY <3>3 DEF LeftIn, Items
        <3>5. \A i \in 1 .. Len(queue') : Asks(queue'[i]) /\ queue'[i].words = <<>> /\ queue'[i].cmd \in Items
                /\ queue'[i].cmd \notin {"sector", "disk"}
            BY <3>3 DEF Asks, Items
        <3> QED
            BY <1>1, <1>2, <1>4, <1>5, <1>11, <3>1, <3>3, <3>4, <3>5, BeginsAsking
    <2> QED
        BY <2>2, <2>3
<1>12. CASE c.op \in {"remount", "eraseConfig"}
    <2>1. phase' = "command" /\ queue' = <<Ask(c.op)>> /\ result' = "ok"
        BY <1>7, <1>12 DEF Opening
    <2>2. Ask(c.op) \in Request /\ Ask(c.op).cmd = c.op
        <3>1. c.op \in Commands \ {"read", "write", "erase"}
            BY <1>12 DEF Commands
        <3> QED
            BY <3>1, Requests DEF Ask
    <2>3. queue' \in Seq(Request) /\ queue' # <<>> /\ Len(queue') = 1 /\ queue'[1].cmd = c.op
        BY <2>1, <2>2
    <2>4. \A i \in 1 .. Len(queue') : Asks(queue'[i]) /\ queue'[i].cmd \notin Items /\ queue'[i].cmd \notin {"sector", "disk"}
        BY <1>12, <2>3 DEF Asks, Items
    <2> QED
        BY <1>1, <1>2, <1>4, <1>5, <1>12, <2>1, <2>3, <2>4, BeginsAsking
<1>13. CASE c.op \in {"getGeometry", "setConfiguration", "erase"}
    <2>1. Opening(c) = [phase |-> "geometry", queue |-> GetGeometry]
        BY <1>13 DEF Opening
    <2>2. CASE "geometry" \in loaded
        <3>1. Goes(Following(c, "geometry", geometry', NothingSaved))
            BY <1>8, <2>1, <2>2 DEF GetGeometry
        <3>2. Goes(AfterGeometry(c, geometry'))
            BY <3>1 DEF Following
        <3> QED
            BY <1>1, <1>2, <1>4, <1>5, <1>6, <1>13, <3>2, GoesAfterGeometry
    <2>3. CASE "geometry" \notin loaded
        <3>1. phase' = "geometry" /\ queue' = <<Ask("sector"), Ask("disk")>> /\ result' = "ok"
            BY <1>7, <2>1, <2>3 DEF GetGeometry
        <3>2. Ask("sector") \in Request /\ Ask("disk") \in Request
            <4>1. "sector" \in Commands \ {"read", "write", "erase"} /\ "disk" \in Commands \ {"read", "write", "erase"}
                BY DEF Commands
            <4> QED
                BY <4>1, Requests
        <3>3. /\ queue' \in Seq(Request) /\ queue' # <<>> /\ Len(queue') = 2
              /\ queue'[1].cmd = "sector" /\ queue'[2].cmd = "disk"
            BY <3>1, <3>2 DEF Ask
        <3>4. \A i \in 1 .. Len(queue') : Asks(queue'[i]) /\ queue'[i].cmd \notin Items
            BY <3>3 DEF Asks, Items
        <3> QED
            BY <1>1, <1>2, <1>4, <1>5, <1>13, <3>1, <3>3, <3>4, BeginsAsking
    <2> QED
        BY <2>2, <2>3
<1> QED
    BY <1>6, <1>9, <1>10, <1>11, <1>12, <1>13 DEF Ops

-----------------------------------------------------------------------------
(* Before the first call.                                                  *)
LEMMA InitSafe ==
    ASSUME Init
    PROVE  Safe
<1>1. /\ mem = [w \in Words |-> Old] /\ setup = [i \in Items |-> Old] /\ config = [i \in Items |-> "unset"]
      /\ request = Nothing /\ answer = Nothing /\ call = Nothing /\ before = mem
      /\ geometry = [blockSize |-> 0, blockCount |-> 0] /\ loaded = {} /\ saved = NothingSaved
      /\ phase = "end" /\ queue = <<>> /\ valid = TRUE /\ pc = "idle" /\ result = "ok"
      /\ everLost = FALSE /\ lost = "no"
    BY DEF Init
<1>2. Types
    <2>1. <<>> \in Seq(Request) /\ <<>> \in Seq(Values) /\ Old \in Values
        BY DEF Values
    <2> QED
        BY <1>1, <2>1 DEF Types, NothingSaved
<1>3. Line
    BY <1>1 DEF Line
<1>4. Asked /\ Saving /\ Erasing /\ RestoresHead /\ RestoresTail /\ Writing /\ Returned
    BY <1>1 DEF Asked, Asking, Saving, Erasing, RestoresHead, RestoresTail, Writing, Returned
<1>5. Geometry /\ Configuration
    BY <1>1 DEF Geometry, Configuration
<1> QED
    BY <1>2, <1>3, <1>4, <1>5 DEF Safe

(* A transaction that is given up, wherever transact() was. *)
LEMMA GiveUpSafe ==
    ASSUME Safe, pc # "idle", GiveUp, UNCHANGED <<mem, setup, request>>, answer' \in {answer, Nothing}
    PROVE  Safe'
<1>1. Serving(FALSE, <<>>)
    BY DEF GiveUp, Serving
<1> QED
    BY <1>1, ServedSafe

(* The steps of transact().                                                *)
LEMMA TransactSafe ==
    ASSUME Safe, Transact
    PROVE  Safe'
<1>1. CASE Send
    <2>1. pc = "send" /\ UNCHANGED <<mem, setup>>
        BY <1>1 DEF Send
    <2>2. CASE /\ request' = Head(queue) /\ answer' = Nothing /\ pc' = "poll"
               /\ UNCHANGED <<scenario, cacheVars, call, phase, queue, valid, saved, attempts,
                              result, calls, before, everLost, lost>>
        BY <2>1, <2>2, SendSafe DEF cacheVars
    <2>3. CASE UNCHANGED <<request, answer>> /\ Retry("send")
        BY <2>1, <2>3, RetrySafe
    <2>4. CASE UNCHANGED <<request, answer>> /\ GiveUp
        BY <2>1, <2>4, GiveUpSafe
    <2> QED
        BY <1>1, <2>2, <2>3, <2>4 DEF Send
<1>2. CASE PollIdle
    <2>1. pc = "poll" /\ UNCHANGED <<mem, setup, request, answer>>
        BY <1>2 DEF PollIdle, chipVars
    <2>2. CASE Retry("poll")
        BY <2>1, <2>2, RetrySafe
    <2>3. CASE GiveUp
        BY <2>1, <2>3, GiveUpSafe
    <2> QED
        BY <1>2, <2>2, <2>3 DEF PollIdle
<1>3. CASE PollAnswer
    <2>1. /\ pc = "poll" /\ answer # Nothing /\ answer.cmd = Head(queue).cmd /\ answer' = Nothing
          /\ Served(TRUE, answer.words) /\ UNCHANGED <<mem, setup, request>>
        BY <1>3 DEF PollAnswer
    <2>2. Head(queue) = queue[1]
        BY <2>1, ServedQueue
    <2>3. Serving(TRUE, answer.words)
        BY <2>1, <2>2 DEF Serving, HasAnswer
    <2> QED
        BY <2>3, ServedSafe
<1>4. CASE PollFailed
    <2>1. pc = "poll" /\ UNCHANGED <<mem, setup, request>> /\ answer' \in {answer, Nothing}
        BY <1>4 DEF PollFailed
    <2>2. CASE Retry("send")
        BY <2>1, <2>2, RetrySafe
    <2>3. CASE GiveUp
        BY <2>1, <2>3, GiveUpSafe
    <2> QED
        BY <1>4, <2>2, <2>3 DEF PollFailed
<1> QED
    BY <1>1, <1>2, <1>3, <1>4 DEF Transact

(* Every step.                                                             *)
LEMMA StepSafe ==
    ASSUME Safe, [Next]_vars
    PROVE  Safe'
<1>1. CASE Begin
    BY <1>1, BeginSafe
<1>2. CASE Transact
    BY <1>2, TransactSafe
<1>3. CASE ChipWork
    BY <1>3, ChipSafe
<1>4. CASE UNCHANGED flashVars
    BY <1>4, Unchanged
<1>5. Others \/ Event \/ UNCHANGED vars => UNCHANGED flashVars
    BY DEF Others, Event, vars
<1> QED
    BY <1>1, <1>2, <1>3, <1>4, <1>5 DEF Next

(* Whatever is lost, retried or sent twice, the requests of a call are     *)
(* served in order and what erase() has saved is what it found             *)
(* (MicroBitUSBFlashManager.cpp lines 423-480 and transact()).             *)
THEOREM AlwaysSafe == Spec => []Safe
<1>1. Init => Safe
    BY InitSafe
<1>2. Safe /\ [Next]_vars => Safe'
    BY StepSafe
<1> QED
    BY <1>1, <1>2, PTL DEF Spec

(* The words of an erase() are in the blocks of its range.                 *)
LEMMA SpanBlocks ==
    ASSUME NEW c \in CallSet, c.op = "erase", NEW w \in Span(c)
    PROVE  \E r \in Target(c) : Block(r) = Block(w)
<1>1. /\ First(c) \in Nat /\ Last(c) \in Nat /\ After(c) \in Nat /\ c.at \in Nat
      /\ First(c) <= c.at /\ c.at < First(c) + BlockSize /\ c.at < After(c)
      /\ Last(c) < After(c) /\ After(c) <= Last(c) + BlockSize
      /\ Block(First(c)) * BlockSize = First(c)
      /\ Block(Last(c)) * BlockSize = Last(c)
    BY EraseGeometry DEF CallSet
<1>2. w \in Nat /\ First(c) <= w /\ w < Last(c) + BlockSize
    BY <1>1, SizeFacts DEF Span
<1>3. Target(c) = c.at .. After(c) - 1 /\ After(c) = c.at + c.len /\ c.len \in Nat
    BY DEF Target, After, CallSet
<1>4. CASE w < c.at
    <2>1. Block(c.at) = Block(First(c)) /\ Block(w) = Block(First(c))
        BY <1>1, <1>2, <1>4, SizeFacts, BlockOf
    <2> QED
        BY <1>1, <1>3, <2>1
<1>5. CASE c.at <= w /\ w < After(c)
    BY <1>1, <1>2, <1>3, <1>5
<1>6. CASE After(c) <= w
    <2>1. After(c) - 1 \in Nat /\ Last(c) <= After(c) - 1 /\ After(c) - 1 < Last(c) + BlockSize
        BY <1>1, SizeFacts
    <2>2. Block(After(c) - 1) = Block(Last(c))
        BY <1>1, <2>1, BlockOf
    <2>3. Block(w) = Block(Last(c))
        BY <1>1, <1>2, <1>6, BlockOf
    <2> QED
        BY <1>1, <1>3, <2>1, <2>2, <2>3
<1> QED
    BY <1>1, <1>2, <1>4, <1>5, <1>6

(* A call that returned OK has done what it says, a call whose             *)
(* transactions were all answered has changed nothing else, and whatever   *)
(* fails no word of another block is touched (write() and erase(),         *)
(* MicroBitUSBFlashManager.cpp lines 340-489).                             *)
THEOREM FlashIsExact == Spec => []FlashExact
<1>1. Safe => FlashExact
    <2> SUFFICES ASSUME Safe, pc = "idle", call # Nothing, lost # "late"
                 PROVE  /\ call.op = "write" /\ result = "ok" =>
                             \A w \in Target(call) : mem[w] = Programmed(before[w], call.value)
                        /\ call.op = "erase" /\ result = "ok" => \A w \in Target(call) : mem[w] = Blank
                        /\ lost = "no" => \A w \in Words \ Target(call) : mem[w] = before[w]
                        /\ \A w \in Words : Block(w) \notin {Block(r) : r \in Target(call)} => mem[w] = before[w]
        BY DEF FlashExact
    <2>1. call \in CallSet /\ Types /\ Returned
        BY CallFacts DEF Safe
    <2>2. CASE call.op \notin {"write", "erase"} \/ (call.op = "erase" /\ result = "invalid")
        <3>1. mem = before
            BY <2>1, <2>2 DEF Returned
        <3> QED
            BY <2>2, <3>1
    <2>3. CASE call.op = "write"
        <3>1. NothingBut(Target(call)) /\ (result = "ok" => \A w \in Target(call) : Written(w))
            BY <2>1, <2>3 DEF Returned
        <3> QED
            BY <2>3, <3>1 DEF NothingBut, Written
    <2>4. CASE call.op = "erase" /\ result # "invalid"
        <3>1. /\ NothingBut(Span(call)) /\ (result = "ok" => Erased(Target(call)))
              /\ lost = "no" => NothingBut(Target(call))
            BY <2>1, <2>4 DEF Returned
        <3>2. ASSUME NEW w \in Words, Block(w) \notin {Block(r) : r \in Target(call)}
              PROVE  mem[w] = before[w]
            <4>1. w \notin Span(call)
                BY <2>1, <2>4, <3>2, SpanBlocks
            <4> QED
                BY <3>1, <4>1 DEF NothingBut
        <3> QED
            BY <2>4, <3>1, <3>2 DEF NothingBut, Erased
    <2> QED
        BY <2>2, <2>3, <2>4
<1> QED
    BY <1>1, AlwaysSafe, PTL

(* The geometry the manager holds to be known is the chip's, whatever      *)
(* failed while it was read, and so is the configuration as long as no     *)
(* transaction was given up (getGeometry(), getConfiguration() and         *)
(* setConfiguration(), MicroBitUSBFlashManager.cpp lines 190-330).         *)
THEOREM CachesAreTrue == Spec => []CachesTrue
<1>1. Safe => CachesTrue
    <2> SUFFICES ASSUME Safe
                 PROVE  /\ "geometry" \in loaded => geometry = True
                        /\ pc = "idle" /\ "config" \in loaded /\ everLost = FALSE => config = setup
        BY DEF CachesTrue
    <2>1. "geometry" \in loaded => geometry = True
        BY DEF Safe, Geometry
    <2>2. ASSUME pc = "idle", "config" \in loaded, everLost = FALSE PROVE config = setup
        <3>1. phase # "set"
            BY <2>2 DEF Safe, Line
        <3> QED
            BY <2>2, <3>1 DEF Safe, Configuration
    <2> QED
        BY <2>1, <2>2
<1> QED
    BY <1>1, AlwaysSafe, PTL
=============================================================================
