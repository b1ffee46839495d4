-------------------- MODULE MicroBitPartialFlashingProofs --------------------
(***************************************************************************)
(* Partial flashing, for any number of blocks, size of pages and regions,  *)
(* and any number of losses, restarts and power failures: the bootloader's *)
(* settings, and, with a client that waits until nothing is on its way,    *)
(* what is in flash when the client is told so and when the board may      *)
(* leave Bluetooth mode.                                                   *)
(***************************************************************************)
EXTENDS MicroBitPartialFlashing, TLAPS, SequenceTheorems

Cell       == Nat \X Nat
Flashes    == [{System, Program} -> [Blocks -> [1 .. 4 -> Cell]]]
Address    == [high : {System, Program}, low : Blocks]
Aligned    == {n \in 0 .. Modulus - 1 : n % 4 = 0}
DataPacket == [type : {"data"}, num : 0 .. Modulus - 1, data : Cell, low : Blocks, high : {Program}]

Types ==
    /\ flash \in Flashes
    /\ mode \in {"boot", "application", "pairing"}
    /\ block \in [1 .. 4 -> Cell]
    /\ offset \in Address /\ flashPointer \in Address
    /\ at \in Nat /\ at >= 1
    /\ next \in 1 .. NewBlocks
    /\ client \in {"connect", "status", "reset", "region", "block", "end", "done"}

(* The board counts in blocks of four packets and the packets of a block,  *)
(* the client in blocks: a packet that matches has its place in the block. *)
Counts ==
    /\ number \in Aligned /\ blockPacketCount \in Aligned /\ blockNum \in 0 .. 3
    /\ packetCount = blockPacketCount + blockNum

(* What is left of the last four packets that the client sent.             *)
Sent == IF number = 0 THEN Modulus - 4 ELSE number - 4
OnAir ==
    /\ air \in Seq(DataPacket) /\ Len(air) <= 4
    /\ \A i \in 1 .. Len(air) :
         air[i] = Packet(next, 4 - Len(air) + i, Sent + 3 - Len(air) + i)

Quiet == events = <<>> /\ pc = "idle"
Writing == {"flag", "erase_files", "locate", "erase", "burn"}
Ending  == {"burn_last", "settings", "backup", "unflag", "erase_user_data", "restart"}

(* One thing at a time is going on between the client and the board: a     *)
(* command is on its way, is dealt with, or has been answered.             *)
Asking(command, answers) ==
    /\ Quiet
    /\ \/ air \in {<<>>, Command(command)} /\ back = <<>>
       \/ air = <<>> /\ \E a \in answers : back = <<a>>

Telling(command, event, steps) ==
    /\ back = <<>>
    /\ \/ air \in {<<>>, Command(command)} /\ Quiet
       \/ air = <<>> /\ events = <<event>> /\ pc = "idle"
       \/ air = <<>> /\ events = <<>> /\ pc \in steps

Complete == blockNum = 0 /\ block = Cells(next) /\ offset = [high |-> Program, low |-> next]

Receiving == Quiet /\ OnAir /\ back \in Seq({"again"})
Storing   == /\ air = <<>> /\ back = <<>>
             /\ Complete
             /\ \/ events = <<"data">> /\ pc = "idle"
                \/ events = <<>> /\ pc \in Writing
Stored    == Quiet /\ air = <<>> /\ back = <<"written">> /\ Complete

Conversation ==
    /\ client \in {"connect", "done"} => Quiet /\ back = <<>>
    /\ client = "connect" => air \in {<<>>, Command("reset_application")}
    /\ client = "done"    => air = <<>>
    /\ client = "status"  => Asking("status", {"application", "pairing"})
    /\ client = "region"  => Asking("region", {"region"}) /\ (back # <<>> => blockNum = 0)
    /\ client = "reset"   => Telling("reset_pairing", "reset", {"reboot", "restart"})
    /\ client = "end"     => Telling("end", "end", Ending) /\ next = NewBlocks /\ Complete
    /\ client = "block"   => Receiving \/ Storing \/ Stored

(* The part of a block that has arrived is of the block the client sends,  *)
(* and a part of it is gone as soon as the client is asked for it again.   *)
Part ==
    client = "block" =>
        /\ \A i \in 1 .. blockNum : block[i] = <<next, i>>
        /\ blockNum >= 1 => offset.low = next
        /\ blockNum >= 2 => offset.high = Program
        /\ back # <<>> => blockNum = 0 /\ Len(air) < 4

(* The key is stored before anything is erased and while a part is written.*)
Flagged ==
    client = "block" /\ (next > 1 \/ pc \in Writing \ {"flag"} \/ Stored) => flashIncomplete

Written(b) == flash[Program][b] = Cells(b)
Free(b)    == flash[Program][b] = All(Blank)
Started(b) == \A i \in 1 .. 4 : flash[Program][b][i] \in {Blank, <<b, i>>}

(* The rest of the page that is being written is erased.                   *)
PageInv ==
    client = "block" /\ (~OnBoundary(next) \/ pc = "burn" \/ Stored) =>
        /\ Started(next)
        /\ \A b \in PageOf(next) : b > next => Free(b)

Pointed ==
    /\ pc \in {"erase", "burn", "burn_last"} => flashPointer = [high |-> Program, low |-> next]
    /\ pc = "erase" => OnBoundary(next) /\ at = 1
    /\ pc = "erase_files" => next = 1
    /\ pc = "burn" => \A i \in 1 .. 4 : i < at => flash[Program][next][i] = <<next, i>>
    /\ client = "block" /\ Stored => Written(next)

Safe == Types /\ Counts /\ Conversation /\ Part /\ Flagged /\ PageInv /\ Pointed
        /\ WrittenExact /\ NeverHalfAProgram
Pages == /\ settings \in {"crc", "blank", "none"}
         /\ backup = "blank" => settings = "none"
         /\ pc = "backup" => settings = "none"

-----------------------------------------------------------------------------
(* Numbers, sequences and pages.                                           *)

LEMMA Constants ==
    /\ Modulus \in Nat /\ Modulus >= 16 /\ Modulus % 4 = 0
    /\ PageBlocks \in Nat \ {0} /\ RegionBlocks \in Nat /\ NewBlocks \in 1 .. RegionBlocks
    /\ \A b \in 1 .. NewBlocks : b \in Blocks
    /\ 1 \in Blocks
BY PartialFlashingAssumption DEF Blocks

LEMMA NextBatch ==
    ASSUME NEW n \in Aligned
    PROVE  /\ (n + 4) % Modulus = (IF n + 4 < Modulus THEN n + 4 ELSE 0)
           /\ (n + 4) % Modulus \in Aligned
           /\ n + 3 < Modulus
           /\ (IF (n + 4) % Modulus = 0 THEN Modulus - 4 ELSE ((n + 4) % Modulus) - 4) = n
<1>1. n \in 0 .. Modulus - 1 /\ n % 4 = 0 /\ Modulus \in Nat /\ Modulus >= 16 /\ Modulus % 4 = 0
    BY Constants DEF Aligned
<1>2. n + 4 <= Modulus
    BY <1>1
<1>3. (n + 4) % Modulus = (IF n + 4 < Modulus THEN n + 4 ELSE 0)
    BY <1>1, <1>2
<1>4. 0 % 4 = 0 /\ (n + 4) % 4 = 0
    BY <1>1
<1> QED
    BY <1>1, <1>2, <1>3, <1>4 DEF Aligned

LEMMA SamePlace ==
    ASSUME NEW m \in Aligned, NEW n \in Aligned, NEW i \in 0 .. 3, NEW j \in 0 .. 3, m + i = n + j
    PROVE  i = j
BY DEF Aligned

(* A page that begins with b holds nothing in front of b; if it does not   *)
(* begin with the block behind b, that is in the same page.                *)
LEMMA OnePage ==
    ASSUME NEW b \in Blocks
    PROVE  /\ b \in PageOf(b) /\ PageOf(b) \subseteq Blocks
           /\ OnBoundary(b) => \A c \in PageOf(b) : c >= b
           /\ b + 1 \in Blocks /\ ~OnBoundary(b + 1) => PageOf(b + 1) = PageOf(b)
<1>1. /\ b \in Nat /\ b >= 1 /\ PageBlocks \in Nat \ {0}
      /\ \A c \in Blocks : c \in Nat /\ c >= 1
    BY Constants DEF Blocks
<1>2. b \in PageOf(b) /\ PageOf(b) \subseteq Blocks
    BY DEF PageOf
<1>3. ASSUME OnBoundary(b), NEW c \in PageOf(b) PROVE c >= b
    <2> DEFINE q == (b - 1) \div PageBlocks
    <2>1. b - 1 = PageBlocks * q /\ q \in Nat
        BY <1>1, <1>3 DEF OnBoundary
    <2>2. (c - 1) \div PageBlocks = q /\ c - 1 \in Nat /\ c \in Nat
        BY <1>1, <1>3 DEF PageOf
    <2>3. c - 1 >= PageBlocks * ((c - 1) \div PageBlocks)
        BY <1>1, <2>2
    <2> QED
        BY <1>1, <2>1, <2>2, <2>3
<1>4. ASSUME b + 1 \in Blocks, ~OnBoundary(b + 1) PROVE PageOf(b + 1) = PageOf(b)
    <2>1. b % PageBlocks # 0
        BY <1>1, <1>4 DEF OnBoundary
    <2>2. b \div PageBlocks = (b - 1) \div PageBlocks
        <3> DEFINE q == b \div PageBlocks
                   r == b % PageBlocks
        <3>1. b = PageBlocks * q + r /\ q \in Nat /\ r \in 1 .. PageBlocks - 1
            BY <1>1, <2>1
        <3> HIDE DEF q, r
        <3>2. b - 1 = PageBlocks * q + (r - 1) /\ r - 1 \in 0 .. PageBlocks - 1
            BY <1>1, <3>1
        <3>3. (b - 1) \div PageBlocks = q
            BY <1>1, <3>1, <3>2
        <3> QED
            BY <3>3 DEF q
    <2>3. (b + 1) - 1 = b
        BY <1>1
    <2>4. PageOf(b + 1) = {c \in Blocks : (c - 1) \div PageBlocks = b \div PageBlocks}
        BY <2>3, Zenon DEF PageOf
    <2> QED
        BY <2>2, <2>4, Zenon DEF PageOf
<1> QED
    BY <1>2, <1>3, <1>4

LEMMA FirstBoundary == OnBoundary(1)
BY Constants DEF OnBoundary

(* One command or notification.                                            *)
LEMMA One ==
    ASSUME NEW x
    PROVE  /\ Head(<<x>>) = x /\ Tail(<<x>>) = <<>> /\ <<x>> # <<>> /\ Len(<<x>>) = 1 /\ Last(<<x>>) = x
           /\ Append(<<>>, x) = <<x>> /\ <<>> \o <<x>> = <<x>>
BY DEF Last

LEMMA Sequence ==
    ASSUME NEW S, NEW q \in Seq(S)
    PROVE  /\ Len(q) \in Nat /\ (q = <<>> <=> Len(q) = 0)
           /\ q # <<>> => /\ Head(q) = q[1] /\ Head(q) \in S /\ Tail(q) \in Seq(S) /\ Len(Tail(q)) = Len(q) - 1
                          /\ \A i \in 1 .. Len(q) - 1 : Tail(q)[i] = q[i + 1]
                          /\ Last(q) \in S
           /\ \A b \in S : Append(q, b) \in Seq(S)
<1>1. Len(q) \in Nat /\ (q = <<>> <=> Len(q) = 0) /\ \A i \in 1 .. Len(q) : q[i] \in S
    BY EmptySeq, ElementOfSeq
<1>2. ASSUME q # <<>>
      PROVE  /\ Head(q) = q[1] /\ Head(q) \in S /\ Tail(q) \in Seq(S) /\ Len(Tail(q)) = Len(q) - 1
             /\ \A i \in 1 .. Len(q) - 1 : Tail(q)[i] = q[i + 1]
             /\ Last(q) \in S
    <2>1. Head(q) = q[1]
        BY DEF Head
    <2>2. 1 \in 1 .. Len(q) /\ Len(q) \in 1 .. Len(q)
        BY <1>1, <1>2
    <2>3. Last(q) \in S
        BY <1>1, <2>2 DEF Last
    <2> QED
        BY <1>1, <1>2, <2>1, <2>2, <2>3, HeadTailProperties
<1> QED
    BY <1>1, <1>2

LEMMA Asked ==
    ASSUME NEW q \in Seq({"again"})
    PROVE  q # <<"written">>
<1>1. ASSUME q = <<"written">> PROVE FALSE
    <2>1. Len(q) = 1 /\ q[1] = "written"
        BY <1>1
    <2>2. q[1] \in {"again"}
        BY <2>1, ElementOfSeq
    <2> QED
        BY <2>1, <2>2
<1> QED
    BY <1>1

(* Four packets on a line that was empty.                                  *)
LEMMA BlockOnAir ==
    ASSUME NEW b \in Blocks, NEW n \in Aligned
    PROVE  /\ BlockPackets(b, n) \in Seq(DataPacket) /\ Len(BlockPackets(b, n)) = 4
           /\ <<>> \o BlockPackets(b, n) = BlockPackets(b, n)
           /\ \A i \in 1 .. 4 : BlockPackets(b, n)[i] = Packet(b, i, n + i - 1)
<1>1. \A i \in 1 .. 4 : Packet(b, i, n + i - 1) \in DataPacket
    <2> TAKE i \in 1 .. 4
    <2>1. (n + i - 1) % Modulus \in 0 .. Modulus - 1 /\ b \in Nat
        BY Constants DEF Aligned, Blocks
    <2> QED
        BY <2>1 DEF Packet, DataPacket, Cell
<1>2. BlockPackets(b, n) \in [1 .. 4 -> DataPacket]
    BY <1>1 DEF BlockPackets
<1>3. BlockPackets(b, n) \in Seq(DataPacket) /\ Len(BlockPackets(b, n)) = 4
    <2> DEFINE packets == BlockPackets(b, n)
    <2>1. packets \in [1 .. 4 -> DataPacket]
        BY <1>2
    <2> HIDE DEF packets
    <2>2. packets \in Seq(DataPacket)
        <3>1. [1 .. 4 -> DataPacket] \subseteq Seq(DataPacket)
            BY SeqDef
        <3> QED
            BY <2>1, <3>1
    <2>3. Len(packets) = 4
        <3>1. DOMAIN packets = 1 .. 4
            BY <2>1
        <3>2. Len(packets) \in Nat /\ DOMAIN packets = 1 .. Len(packets)
            BY <2>2, LenProperties
        <3> QED
            BY <3>1, <3>2
    <2> QED
        BY <2>2, <2>3 DEF packets
<1>4. <<>> \o BlockPackets(b, n) = BlockPackets(b, n)
    BY <1>3, ConcatEmptySeq
<1> QED
    BY <1>3, <1>4 DEF BlockPackets

LEMMA Colours ==
    /\ Blank \in Cell /\ Old \in Cell /\ Mixed \in Cell
    /\ \A c \in Cell : All(c) \in [1 .. 4 -> Cell] /\ \A i \in 1 .. 4 : All(c)[i] = c
    /\ \A b \in Blocks : Cells(b) \in [1 .. 4 -> Cell] /\ \A i \in 1 .. 4 : Cells(b)[i] = <<b, i>>
    /\ System # Program
BY DEF Blank, Old, Mixed, Cell, All, Cells, System, Program, Blocks

LEMMA SameCells ==
    /\ \A f, g \in [1 .. 4 -> Cell] : (\A i \in 1 .. 4 : f[i] = g[i]) => f = g
    /\ \A f, g \in [Blocks -> [1 .. 4 -> Cell]] : (\A b \in Blocks : f[b] = g[b]) => f = g
    /\ \A f, g \in Flashes : f[System] = g[System] /\ f[Program] = g[Program] => f = g
    /\ \A f \in Flashes, h \in {System, Program} : f[h] \in [Blocks -> [1 .. 4 -> Cell]]
<1>1. \A S : \A f, g \in [1 .. 4 -> S] : (\A i \in 1 .. 4 : f[i] = g[i]) => f = g
    OBVIOUS
<1>2. \A S : \A f, g \in [Blocks -> S] : (\A b \in Blocks : f[b] = g[b]) => f = g
    OBVIOUS
<1>3. \A S : \A f, g \in [{System, Program} -> S] : f[System] = g[System] /\ f[Program] = g[Program] => f = g
    OBVIOUS
<1>4. \A S : \A f \in [{System, Program} -> S], h \in {System, Program} : f[h] \in S
    OBVIOUS
<1> QED
    BY <1>1, <1>2, <1>3, <1>4, Zenon DEF Flashes

(* Only the page changes.                                                  *)
LEMMA ErasedPage ==
    ASSUME flash \in Flashes, NEW h \in {System, Program}, NEW b
    PROVE  /\ ErasePage(flash, h, b) \in Flashes
           /\ \A g \in {System, Program} : g # h => ErasePage(flash, h, b)[g] = flash[g]
           /\ \A c \in Blocks : ErasePage(flash, h, b)[h][c] = IF c \in PageOf(b) THEN All(Blank) ELSE flash[h][c]
BY Colours DEF Flashes, ErasePage

-----------------------------------------------------------------------------
(* The fiber.                                                              *)

(* What the handler's step says about the conversation.                    *)
LEMMA Where ==
    ASSUME Types, Conversation
    PROVE  /\ pc \in Writing => client = "block" /\ Storing
           /\ pc \in Ending \ {"restart"} => client = "end" /\ next = NewBlocks /\ Complete
           /\ pc = "reboot"  => client = "reset"
           /\ pc = "restart" => client \in {"end", "reset"}
           /\ pc # "idle" => air = <<>> /\ back = <<>> /\ events = <<>>
           /\ events # <<>> =>
                /\ air = <<>> /\ back = <<>> /\ pc = "idle"
                /\ \/ events = <<"data">> /\ client = "block" /\ Complete
                   \/ events = <<"end">> /\ client = "end" /\ next = NewBlocks /\ Complete
                   \/ events = <<"reset">> /\ client = "reset"
           /\ pc \in Writing \cup Ending \cup {"idle", "reboot"}
BY DEF Types, Conversation, Asking, Telling, Receiving, Storing, Stored, Quiet, Writing, Ending

(* The handler leaves the client and the receiver alone.                   *)
LEMMA HandlerKeeps ==
    ASSUME Safe, HandlerFrame
    PROVE  /\ Counts' /\ (Complete' <=> Complete)
           /\ mode' \in {"boot", "application", "pairing"} /\ block' \in [1 .. 4 -> Cell]
           /\ offset' \in Address /\ next' \in 1 .. NewBlocks /\ client' = client
           /\ client \in {"connect", "status", "reset", "region", "block", "end", "done"}
           /\ air' = air /\ next' = next
           /\ back' = back => Part'
BY DEF Safe, HandlerFrame, rxVars, clientVars, fixedVars, faultVars, Counts, Complete, Types, Part

LEMMA FlashKept ==
    ASSUME Safe, flash' = flash, next' = next
    PROVE  /\ flash' \in Flashes
           /\ flashIncomplete' = flashIncomplete => NeverHalfAProgram'
           /\ client' = client => WrittenExact'
           /\ client' \notin {"block", "end"} => WrittenExact'
           /\ (Started(next)' <=> Started(next)) /\ \A b : (Free(b)' <=> Free(b)) /\ (Written(b)' <=> Written(b))
BY DEF Safe, Types, NeverHalfAProgram, Whole, WrittenExact, Started, Free, Written

LEMMA HandleEventSafe ==
    ASSUME Safe, HandleEvent
    PROVE  Safe'
<1>1. HandlerFrame /\ pc = "idle" /\ events # <<>> /\ UNCHANGED <<flash, keyVars, back>> /\ at' = 1
    BY DEF HandleEvent
<1>2. Types /\ Conversation
    BY DEF Safe
<1>3. air = <<>> /\ back = <<>>
    BY <1>1, <1>2, Where
<1>4. /\ events' = <<>>
      /\ \/ client = "block" /\ Complete /\ pc' = "flag" /\ flashPointer' = flashPointer
         \/ client = "end" /\ next = NewBlocks /\ Complete /\ pc' = "burn_last" /\ flashPointer' = offset
         \/ client = "reset" /\ pc' = "reboot" /\ flashPointer' = flashPointer
    BY <1>1, <1>2, Where, One DEF HandleEvent, Goto
<1>5. Types'
    BY <1>1, <1>4, HandlerKeeps, FlashKept DEF Safe, Types
<1>6. Conversation'
    BY <1>1, <1>3, <1>4, HandlerKeeps DEF Conversation, Telling, Receiving, Storing, Stored, Quiet, Writing, Ending
<1>7. Flagged' /\ PageInv'
    BY <1>1, <1>3, <1>4, HandlerKeeps, FlashKept DEF Safe, Flagged, PageInv, Stored, Writing, keyVars
<1>8. Pointed'
    BY <1>1, <1>3, <1>4, HandlerKeeps, FlashKept DEF Safe, Pointed, Stored, Complete
<1> QED
    BY <1>1, <1>5, <1>6, <1>7, <1>8, HandlerKeeps, FlashKept DEF Safe, keyVars

LEMMA SetFlagSafe ==
    ASSUME Safe, SetFlag
    PROVE  Safe'
<1>1. HandlerFrame /\ pc = "flag" /\ UNCHANGED <<flash, flashPointer, events, back>> /\ at' = 1
      /\ pc' \in {"erase_files", "locate"}
    BY DEF SetFlag, Goto
<1>0. flashIncomplete' /\ (pc' = "erase_files" => ~flashIncomplete)
    BY DEF SetFlag, Goto
<1>2. client = "block" /\ Storing
    BY <1>1, Where DEF Safe, Writing
<1>3. Types'
    BY <1>1, HandlerKeeps, FlashKept DEF Safe, Types
<1>4. Conversation'
    BY <1>1, <1>2, HandlerKeeps DEF Conversation, Storing, Writing
<1>5. Flagged' /\ PageInv'
    BY <1>0, <1>1, <1>2, HandlerKeeps, FlashKept DEF Safe, Flagged, PageInv, Stored, Storing
<1>6. next \in Nat /\ next >= 1 /\ (~flashIncomplete => ~(next > 1))
    BY <1>2, Constants DEF Safe, Flagged, Types
<1>7. Pointed'
    BY <1>0, <1>1, <1>2, <1>6, HandlerKeeps, FlashKept DEF Safe, Pointed, Stored, Storing
<1>8. NeverHalfAProgram'
    BY <1>0 DEF NeverHalfAProgram
<1> QED
    BY <1>1, <1>3, <1>4, <1>5, <1>7, <1>8, HandlerKeeps, FlashKept DEF Safe

LEMMA EraseFilesSafe ==
    ASSUME Safe, EraseFiles
    PROVE  Safe'
<1>1. /\ HandlerFrame /\ pc = "erase_files" /\ pc' \in {"erase_files", "locate"}
      /\ flash' = ErasePage(flash, Program, at) /\ at' = at + PageBlocks
      /\ UNCHANGED <<keyVars, events, flashPointer, back>>
    BY DEF EraseFiles, Goto
<1>2. client = "block" /\ Storing /\ next = 1 /\ flashIncomplete
    BY <1>1, Where DEF Safe, Writing, Pointed, Flagged
<1>3. flash' \in Flashes /\ flash'[System] = flash[System]
    BY <1>1, ErasedPage, Colours DEF Safe, Types
<1>4. Types'
    BY <1>1, <1>3, HandlerKeeps, Constants DEF Safe, Types
<1>5. Conversation'
    BY <1>1, <1>2, HandlerKeeps DEF Conversation, Storing, Writing
<1>6. Flagged' /\ PageInv' /\ Pointed' /\ NeverHalfAProgram'
    BY <1>1, <1>2, HandlerKeeps, FirstBoundary
    DEF Flagged, PageInv, Pointed, Stored, Storing, NeverHalfAProgram, keyVars
<1>7. WrittenExact'
    BY <1>1, <1>2, <1>3, HandlerKeeps DEF Safe, WrittenExact
<1> QED
    BY <1>1, <1>4, <1>5, <1>6, <1>7, HandlerKeeps DEF Safe

LEMMA LocateSafe ==
    ASSUME Safe, Locate
    PROVE  Safe'
<1>1. /\ HandlerFrame /\ pc = "locate" /\ pc' \in {"erase", "burn"}
      /\ flashPointer' = offset /\ at' = 1
      /\ UNCHANGED <<flash, keyVars, events, back>>
    BY DEF Locate, Goto
<1>2. client = "block" /\ Storing /\ Complete /\ flashIncomplete /\ offset = [high |-> Program, low |-> next]
    BY <1>1, Where DEF Safe, Writing, Storing, Complete, Flagged
<1>3. next \in Blocks
    BY Constants DEF Safe, Types
<1>4. /\ pc' = "erase" => OnBoundary(next)
      /\ pc' = "burn" => ~OnBoundary(next) \/ \A b \in PageOf(next) : Free(b)
    BY <1>1, <1>2 DEF Locate, Goto, Free
<1>5. pc' = "burn" => Started(next) /\ \A b \in PageOf(next) : b > next => Free(b)
    <2>1. Free(next) => Started(next)
        BY Colours DEF Free, Started
    <2> QED
        BY <1>2, <1>3, <1>4, <2>1, OnePage DEF Safe, PageInv
<1>6. Types'
    BY <1>1, HandlerKeeps, FlashKept DEF Safe, Types
<1>7. Conversation'
    BY <1>1, <1>2, HandlerKeeps DEF Conversation, Storing, Writing
<1>8. Flagged' /\ PageInv'
    BY <1>1, <1>2, <1>5, HandlerKeeps, FlashKept DEF Safe, Flagged, PageInv, Stored, Storing, keyVars
<1>9. Pointed'
    BY <1>1, <1>2, <1>4, HandlerKeeps DEF Pointed, Stored, Storing
<1> QED
    BY <1>1, <1>6, <1>7, <1>8, <1>9, HandlerKeeps, FlashKept DEF Safe, keyVars

LEMMA EraseSafe ==
    ASSUME Safe, Erase
    PROVE  Safe'
<1>1. /\ HandlerFrame /\ pc = "erase" /\ pc' = "burn"
      /\ flash' = ErasePage(flash, flashPointer.high, flashPointer.low)
      /\ UNCHANGED <<keyVars, events, flashPointer, at, back>>
    BY DEF Erase, Goto
<1>2. /\ client = "block" /\ Storing /\ flashIncomplete /\ at = 1
      /\ OnBoundary(next) /\ flashPointer = [high |-> Program, low |-> next]
    BY <1>1, Where DEF Safe, Writing, Flagged, Pointed
<1>3. next \in Blocks /\ next \in Nat
    BY Constants DEF Safe, Types
<1>4. /\ flash' \in Flashes /\ flash'[System] = flash[System]
      /\ \A c \in Blocks : flash'[Program][c] = IF c \in PageOf(next) THEN All(Blank) ELSE flash[Program][c]
    BY <1>1, <1>2, ErasedPage, Colours DEF Safe, Types
<1>5. Types'
    BY <1>1, <1>4, HandlerKeeps DEF Safe, Types
<1>6. Conversation'
    BY <1>1, <1>2, HandlerKeeps DEF Conversation, Storing, Writing
<1>7. flash'[Program][next] = All(Blank) /\ \A b \in PageOf(next) : flash'[Program][b] = All(Blank)
    BY <1>3, <1>4, OnePage
<1>8. Started(next)' /\ \A b \in PageOf(next) : Free(b)'
    BY <1>7, Colours, HandlerKeeps, <1>1 DEF Started, Free
<1>9. Flagged' /\ PageInv' /\ Pointed' /\ NeverHalfAProgram'
    BY <1>1, <1>2, <1>3, <1>8, HandlerKeeps DEF Flagged, PageInv, Pointed, Stored, Storing, NeverHalfAProgram, keyVars
<1>10. WrittenExact'
    <2>1. ASSUME NEW b \in 1 .. next - 1 PROVE b \in Blocks /\ b \notin PageOf(next)
        <3>1. next <= RegionBlocks /\ RegionBlocks \in Nat
            BY <1>3, Constants DEF Blocks
        <3>2. b \in Blocks /\ ~(b >= next)
            BY <1>3, <3>1 DEF Blocks
        <3>3. \A c \in PageOf(next) : c >= next
            BY <1>2, <1>3, OnePage
        <3> QED
            BY <3>2, <3>3, Zenon
    <2>2. \A b \in 1 .. next - 1 : flash'[Program][b] = Cells(b)
        BY <1>2, <1>4, <2>1 DEF Safe, WrittenExact
    <2> QED
        BY <1>1, <1>2, <1>4, <2>2, HandlerKeeps DEF Safe, WrittenExact
<1> QED
    BY <1>1, <1>5, <1>6, <1>9, <1>10, HandlerKeeps DEF Safe

LEMMA BurnCellSafe ==
    ASSUME Safe, BurnCell
    PROVE  Safe'
<1>1. /\ HandlerFrame /\ pc \in {"burn", "burn_last"} /\ at \in 1 .. 4 /\ pc' = pc /\ at' = at + 1
      /\ flash' = [flash EXCEPT ![flashPointer.high][flashPointer.low][at] = Burn(@, block[at])]
      /\ UNCHANGED <<keyVars, events, flashPointer, back>>
    BY DEF BurnCell, Safe, Types
<1>2. /\ Complete /\ flashPointer = [high |-> Program, low |-> next] /\ air = <<>> /\ back = <<>> /\ events = <<>>
      /\ pc = "burn" => client = "block" /\ Storing /\ flashIncomplete
      /\ pc = "burn_last" => client = "end" /\ next = NewBlocks
    BY <1>1, Where DEF Safe, Writing, Ending, Storing, Flagged, Pointed
<1>3. next \in Blocks /\ next \in Nat /\ flash \in Flashes
    BY Constants DEF Safe, Types
<1>4. block[at] = <<next, at>> /\ <<next, at>> \in Cell
    BY <1>1, <1>2, <1>3, Colours DEF Complete, Cell
<1>5. Started(next)
    <2>1. CASE pc = "burn"
        BY <1>2, <2>1 DEF Safe, PageInv
    <2>2. CASE pc = "burn_last"
        <3>1. flash[Program][next] = Cells(next)
            BY <1>2, <1>3, <2>2 DEF Safe, WrittenExact, Blocks
        <3> QED
            BY <1>3, <3>1, Colours DEF Started
    <2> QED
        BY <1>1, <2>1, <2>2
<1>6. /\ flash' \in Flashes /\ flash'[System] = flash[System]
      /\ \A b \in Blocks : b # next => flash'[Program][b] = flash[Program][b]
      /\ \A i \in 1 .. 4 : flash'[Program][next][i] = IF i = at THEN <<next, i>> ELSE flash[Program][next][i]
    <2>1. Burn(flash[Program][next][at], block[at]) = <<next, at>>
        BY <1>1, <1>4, <1>5 DEF Burn, Started
    <2>2. flash' = [flash EXCEPT ![Program] =
                       [flash[Program] EXCEPT ![next] = [flash[Program][next] EXCEPT ![at] = <<next, at>>]]]
        BY <1>1, <1>2, <2>1
    <2> DEFINE cells == [flash[Program][next] EXCEPT ![at] = <<next, at>>]
               program == [flash[Program] EXCEPT ![next] = cells]
    <2>3. flash[Program] \in [Blocks -> [1 .. 4 -> Cell]] /\ flash[Program][next] \in [1 .. 4 -> Cell]
        BY <1>3, SameCells
    <2>4. /\ cells \in [1 .. 4 -> Cell]
          /\ \A i \in 1 .. 4 : cells[i] = IF i = at THEN <<next, i>> ELSE flash[Program][next][i]
        BY <1>1, <1>4, <2>3
    <2>5. flash' = [flash EXCEPT ![Program] = program]
        BY <2>2
    <2> HIDE DEF cells
    <2>6. /\ program \in [Blocks -> [1 .. 4 -> Cell]] /\ program[next] = cells
          /\ \A b \in Blocks : b # next => program[b] = flash[Program][b]
        BY <1>3, <2>3, <2>4
    <2> HIDE DEF program
    <2>7. flash' \in Flashes /\ flash'[Program] = program /\ flash'[System] = flash[System]
        BY <1>3, <2>5, <2>6, Colours DEF Flashes
    <2> QED
        BY <2>4, <2>6, <2>7
<1>7. Started(next)' /\ \A b \in Blocks : b # next /\ Free(b) => Free(b)'
    BY <1>1, <1>5, <1>6, HandlerKeeps DEF Started, Free
<1>8. Types'
    BY <1>1, <1>6, HandlerKeeps DEF Safe, Types
<1>9. Conversation'
    BY <1>1, <1>2, HandlerKeeps DEF Conversation, Telling, Storing, Writing, Ending
<1>10. CASE pc = "burn"
    <2>1. Flagged' /\ NeverHalfAProgram'
        BY <1>1, <1>2, <1>10, HandlerKeeps DEF Flagged, NeverHalfAProgram, keyVars
    <2>2. PageInv'
        <3>1. \A b \in PageOf(next) : b > next => Free(b)
            BY <1>2, <1>10 DEF Safe, PageInv
        <3>2. \A b \in PageOf(next) : b \in Blocks
            BY <1>3, OnePage
        <3>3. \A b \in PageOf(next) : b > next => Free(b)'
            BY <1>3, <1>7, <3>1, <3>2 DEF Blocks
        <3> QED
            BY <1>1, <1>7, <3>3, HandlerKeeps DEF PageInv
    <2>3. Pointed'
        <3>1. \A i \in 1 .. 4 : i < at + 1 => flash'[Program][next][i] = <<next, i>>
            BY <1>1, <1>6, <1>10 DEF Safe, Pointed
        <3> QED
            BY <1>1, <1>2, <1>10, <3>1, HandlerKeeps DEF Pointed, Stored
    <2>4. WrittenExact'
        <3>1. \A b \in 1 .. next - 1 : b \in Blocks /\ b # next
            BY <1>3, Constants DEF Blocks
        <3>2. \A b \in 1 .. next - 1 : flash'[Program][b] = Cells(b)
            BY <1>2, <1>6, <1>10, <3>1 DEF Safe, WrittenExact
        <3> QED
            BY <1>1, <1>2, <1>6, <1>10, <3>2, HandlerKeeps DEF Safe, WrittenExact
    <2> QED
        BY <1>1, <1>8, <1>9, <2>1, <2>2, <2>3, <2>4, HandlerKeeps DEF Safe
<1>11. CASE pc = "burn_last"
    <2>1. flash[Program][next] = Cells(next)
        BY <1>2, <1>3, <1>11 DEF Safe, WrittenExact, Blocks
    <2>2. flash' = flash
        <3>1. /\ flash[Program] \in [Blocks -> [1 .. 4 -> Cell]] /\ flash'[Program] \in [Blocks -> [1 .. 4 -> Cell]]
              /\ flash[Program][next] \in [1 .. 4 -> Cell] /\ flash'[Program][next] \in [1 .. 4 -> Cell]
            BY <1>3, <1>6, SameCells
        <3>2. \A i \in 1 .. 4 : flash'[Program][next][i] = flash[Program][next][i]
            BY <1>3, <1>6, <2>1, Colours
        <3>3. flash'[Program][next] = flash[Program][next]
            BY <3>1, <3>2, SameCells, Zenon
        <3>4. \A b \in Blocks : flash'[Program][b] = flash[Program][b]
            BY <1>6, <3>3, Zenon
        <3>5. flash'[Program] = flash[Program]
            BY <3>1, <3>4, SameCells, Zenon
        <3> QED
            BY <1>3, <1>6, <3>5, SameCells, Zenon
    <2>3. Flagged' /\ PageInv' /\ Pointed'
        BY <1>1, <1>2, <1>11, HandlerKeeps DEF Flagged, PageInv, Pointed
    <2> QED
        BY <1>1, <1>8, <1>9, <2>2, <2>3, HandlerKeeps, FlashKept DEF Safe, keyVars
<1> QED
    BY <1>1, <1>10, <1>11

LEMMA BurntSafe ==
    ASSUME Safe, Burnt
    PROVE  Safe'
<1>1. /\ HandlerFrame /\ pc = "burn" /\ at > 4 /\ back' = Append(back, "written") /\ pc' = "idle"
      /\ UNCHANGED <<flash, keyVars, events, flashPointer, at>>
    BY DEF Burnt, Notify, Goto
<1>2. client = "block" /\ Storing /\ Complete /\ flashIncomplete /\ air = <<>> /\ events = <<>> /\ back' = <<"written">>
    BY <1>1, Where, One DEF Safe, Writing, Storing, Flagged
<1>3. next \in Blocks /\ flash \in Flashes /\ at \in Nat
    BY Constants DEF Safe, Types
<1>4. Written(next)
    <2>1. \A i \in 1 .. 4 : flash[Program][next][i] = <<next, i>>
        BY <1>1, <1>3 DEF Safe, Pointed
    <2>2. flash[Program][next] \in [1 .. 4 -> Cell]
        BY <1>3, SameCells
    <2>3. Cells(next) \in [1 .. 4 -> Cell] /\ \A i \in 1 .. 4 : Cells(next)[i] = <<next, i>>
        BY <1>3, Colours
    <2>4. \A i \in 1 .. 4 : flash[Program][next][i] = Cells(next)[i]
        BY <2>1, <2>3, Zenon
    <2> QED
        BY <2>2, <2>3, <2>4, SameCells, Zenon DEF Written
<1>5. Types'
    BY <1>1, HandlerKeeps, FlashKept DEF Safe, Types
<1>6. Stored'
    BY <1>1, <1>2, HandlerKeeps DEF Stored, Quiet
<1>7. Conversation'
    BY <1>1, <1>2, <1>6, HandlerKeeps DEF Conversation
<1>8. Part'
    BY <1>1, <1>2, HandlerKeeps, EmptySeq DEF Part, Complete
<1>9. Flagged' /\ PageInv'
    BY <1>1, <1>2, HandlerKeeps, FlashKept DEF Safe, Flagged, PageInv, keyVars
<1>10. Pointed'
    BY <1>1, <1>4, HandlerKeeps, FlashKept DEF Pointed
<1> QED
    BY <1>1, <1>5, <1>7, <1>8, <1>9, <1>10, HandlerKeeps, FlashKept DEF Safe, keyVars

(* The last steps, which leave flash alone: the program is complete.       *)
LEMMA EndingSafe ==
    ASSUME Safe, HandlerFrame, pc \in Ending \ {"restart"}, pc' \in Ending \ {"burn_last"},
           UNCHANGED <<flash, events, flashPointer, at, back>>
    PROVE  Safe'
<1>1. client = "end" /\ next = NewBlocks /\ Complete /\ air = <<>> /\ back = <<>> /\ events = <<>>
    BY Where DEF Safe, Ending
<1>2. Types'
    BY HandlerKeeps, FlashKept DEF Safe, Types
<1>3. Conversation'
    BY <1>1, HandlerKeeps DEF Conversation, Telling, Ending
<1>4. Flagged' /\ PageInv' /\ Pointed'
    BY <1>1, HandlerKeeps DEF Flagged, PageInv, Pointed, Ending
<1>5. NeverHalfAProgram'
    BY <1>1 DEF Safe, WrittenExact, NeverHalfAProgram, Whole
<1> QED
    BY <1>2, <1>3, <1>4, <1>5, HandlerKeeps, FlashKept DEF Safe

LEMMA LastStepsSafe ==
    ASSUME Safe, LastBurnt \/ NoValidation \/ RemoveFlag \/ EraseUserStorage
    PROVE  Safe'
<1>1. HandlerFrame /\ UNCHANGED <<flash, events, flashPointer, at, back>>
    BY DEF LastBurnt, NoValidation, RemoveFlag, EraseUserStorage
<1>2. pc \in Ending \ {"restart"} /\ pc' \in Ending \ {"burn_last"}
    BY DEF LastBurnt, NoValidation, RemoveFlag, EraseUserStorage, Goto, Ending
<1> QED
    BY <1>1, <1>2, EndingSafe

LEMMA RestartInBLEModeSafe ==
    ASSUME Safe, RestartInBLEMode
    PROVE  Safe'
<1>1. /\ HandlerFrame /\ pc = "reboot" /\ pc' = "restart"
      /\ UNCHANGED <<flash, flashIncomplete, events, flashPointer, at, back>>
    BY DEF RestartInBLEMode, Goto
<1>2. client = "reset" /\ air = <<>> /\ back = <<>> /\ events = <<>>
    BY <1>1, Where DEF Safe
<1>3. Types'
    BY <1>1, HandlerKeeps, FlashKept DEF Safe, Types
<1>4. Conversation'
    BY <1>1, <1>2, HandlerKeeps DEF Conversation, Telling
<1>5. Flagged' /\ PageInv' /\ Pointed'
    BY <1>1, <1>2, HandlerKeeps DEF Flagged, PageInv, Pointed
<1> QED
    BY <1>1, <1>3, <1>4, <1>5, HandlerKeeps, FlashKept DEF Safe

(* A reset forgets what was going on, and leaves flash and the keys alone. *)
LEMMA ResetSafe ==
    ASSUME Safe, Reset, flash' = flash, flashIncomplete' = flashIncomplete
    PROVE  Safe'
<1>1. /\ mode' = "boot" /\ pc' = "idle" /\ events' = <<>> /\ air' = <<>> /\ back' = <<>>
      /\ packetCount' = 0 /\ blockPacketCount' = 0 /\ blockNum' = 0 /\ at' = 1
      /\ offset' = [high |-> System, low |-> 1] /\ block' = All(Blank) /\ flashPointer' = offset'
      /\ client' \in {"connect", "done"} /\ next' = next /\ number' = number
    BY DEF Reset
<1>2. offset' \in Address /\ block' \in [1 .. 4 -> Cell] /\ 0 \in Aligned
    BY <1>1, Constants, Colours DEF Address, Aligned
<1>3. Types'
    BY <1>1, <1>2, FlashKept DEF Safe, Types
<1>4. Counts'
    BY <1>1, <1>2 DEF Safe, Counts
<1>5. Conversation' /\ Part' /\ Flagged' /\ PageInv' /\ Pointed'
    BY <1>1 DEF Conversation, Quiet, Part, Flagged, PageInv, Pointed
<1>6. WrittenExact' /\ NeverHalfAProgram'
    BY <1>1, FlashKept
<1> QED
    BY <1>3, <1>4, <1>5, <1>6 DEF Safe

LEMMA BootSafe ==
    ASSUME Safe, Boot
    PROVE  Safe'
<1>1. /\ mode' \in {"pairing", "application"}
      /\ UNCHANGED <<flash, flashIncomplete, packetCount, blockPacketCount, blockNum, offset, block, events, pc,
                     flashPointer, at, air, back, client, next, number>>
    BY DEF Boot, rxVars, handlerVars, airVars, clientVars
<1>2. Types'
    BY <1>1 DEF Safe, Types
<1>3. Counts' /\ Part'
    BY <1>1 DEF Safe, Counts, Part
<1>4. Conversation'
    BY <1>1 DEF Safe, Conversation, Asking, Telling, Receiving, Storing, Stored, Quiet, Complete, OnAir, Sent
<1>5. Flagged' /\ PageInv' /\ Pointed'
    BY <1>1, FlashKept DEF Safe, Flagged, PageInv, Pointed, Stored, Quiet, Complete
<1> QED
    BY <1>1, <1>2, <1>3, <1>4, <1>5, FlashKept DEF Safe

-----------------------------------------------------------------------------
(* The Bluetooth interrupt.                                                *)

LEMMA SentAligned ==
    ASSUME Counts
    PROVE  Sent \in Aligned /\ Sent + 3 < Modulus /\ Sent \in Nat
<1>1. number \in 0 .. Modulus - 1 /\ number % 4 = 0 /\ Modulus \in Nat /\ Modulus >= 16 /\ Modulus % 4 = 0
    BY Constants DEF Counts, Aligned
<1>2. Sent \in 0 .. Modulus - 1 /\ Sent % 4 = 0
    BY <1>1 DEF Sent
<1> QED
    BY <1>1, <1>2 DEF Aligned

(* Who sent what arrives.                                                  *)
LEMMA Arriving ==
    ASSUME Types, Conversation, air # <<>>
    PROVE  /\ Quiet
           /\ \/ client = "connect" /\ air = Command("reset_application") /\ back = <<>>
              \/ client = "status" /\ air = Command("status") /\ back = <<>>
              \/ client = "region" /\ air = Command("region") /\ back = <<>>
              \/ client = "reset" /\ air = Command("reset_pairing") /\ back = <<>>
              \/ client = "end" /\ air = Command("end") /\ back = <<>> /\ next = NewBlocks /\ Complete
              \/ client = "block" /\ Receiving
BY DEF Types, Conversation, Asking, Telling, Receiving, Storing, Stored

LEMMA CommandHead ==
    ASSUME NEW c, air = Command(c)
    PROVE  Head(air).type = c /\ Tail(air) = <<>>
BY One DEF Command

(* The next packet, its number and its place.                              *)
LEMMA NextPacket ==
    ASSUME Counts, OnAir, air # <<>>, next \in Blocks
    PROVE  LET j == 5 - Len(air) IN
           /\ j \in 1 .. 4 /\ Head(air).type = "data" /\ Head(air).num = Sent + (j - 1)
           /\ Head(air).data = <<next, j>> /\ Head(air).low = next /\ Head(air).high = Program
           /\ Tail(air) \in Seq(DataPacket) /\ Len(Tail(air)) = 4 - j /\ (j = 4 => Tail(air) = <<>>)
           /\ \A i \in 1 .. 4 - j : Tail(air)[i] = Packet(next, j + i, Sent + j + i - 1)
<1> DEFINE n == Len(air)
<1>1. /\ air \in Seq(DataPacket) /\ n \in 1 .. 4 /\ Head(air) = air[1]
      /\ Tail(air) \in Seq(DataPacket) /\ Len(Tail(air)) = n - 1
      /\ \A i \in 1 .. n - 1 : Tail(air)[i] = air[i + 1]
    <2>1. air \in Seq(DataPacket) /\ Len(air) <= 4
        BY DEF OnAir
    <2>2. Len(air) \in Nat /\ Len(air) # 0
        BY <2>1, Sequence
    <2>3. Len(air) \in 1 .. 4
        <3>1. \A k \in Nat : k # 0 /\ k <= 4 => k \in 1 .. 4
            OBVIOUS
        <3> QED
            BY <2>1, <2>2, <3>1, Zenon
    <2>4. /\ Head(air) = air[1] /\ Tail(air) \in Seq(DataPacket) /\ Len(Tail(air)) = Len(air) - 1
          /\ \A i \in 1 .. Len(air) - 1 : Tail(air)[i] = air[i + 1]
        BY <2>1, Sequence, Zenon
    <2> QED
        BY <2>1, <2>3, <2>4
<1>2. \A i \in 1 .. n : air[i] = Packet(next, 4 - n + i, Sent + 3 - n + i)
    BY DEF OnAir
<1> HIDE DEF n
<1>3. Sent \in Nat /\ Sent + 3 < Modulus /\ Modulus \in Nat
    BY SentAligned, Constants
<1>4. Head(air) = Packet(next, 5 - n, Sent + (4 - n))
    <2>1. 1 \in 1 .. n /\ 4 - n + 1 = 5 - n /\ Sent + 3 - n + 1 = Sent + (4 - n)
        BY <1>1, <1>3
    <2> QED
        BY <1>1, <1>2, <2>1
<1>5. (Sent + (4 - n)) % Modulus = Sent + (4 - n)
    BY <1>1, <1>3
<1>6. \A i \in 1 .. n - 1 : Tail(air)[i] = Packet(next, 5 - n + i, Sent + (5 - n) + i - 1)
    <2> TAKE i \in 1 .. n - 1
    <2>1. /\ i + 1 \in 1 .. n /\ 4 - n + (i + 1) = 5 - n + i
          /\ Sent + 3 - n + (i + 1) = Sent + (5 - n) + i - 1
        BY <1>1, <1>3
    <2> QED
        BY <1>1, <1>2, <2>1
<1>7. n = 1 => Tail(air) = <<>>
    <2>1. Tail(air) = <<>> <=> Len(Tail(air)) = 0
        BY <1>1, Sequence, Zenon
    <2> QED
        BY <1>1, <2>1
<1>8. /\ 5 - n \in 1 .. 4 /\ n - 1 = 4 - (5 - n) /\ (5 - n) - 1 = 4 - n /\ (5 - n = 4 => n = 1)
    BY <1>1
<1> QED
    BY <1>1, <1>4, <1>5, <1>6, <1>7, <1>8 DEF Packet, n

(* The interrupt leaves the flash, the handler and the client alone.       *)
InterruptFrame ==
    UNCHANGED <<flash, flashIncomplete, mode, pc, flashPointer, at, client, next, number>>

LEMMA InterruptKeeps ==
    ASSUME Safe, InterruptFrame, Quiet
    PROVE  /\ flash' \in Flashes /\ mode' \in {"boot", "application", "pairing"}
           /\ flashPointer' \in Address /\ at' \in Nat /\ at' >= 1 /\ next' \in 1 .. NewBlocks
           /\ client' \in {"connect", "status", "reset", "region", "block", "end", "done"}
           /\ WrittenExact' /\ NeverHalfAProgram'
           /\ pc' = "idle" /\ client' = client /\ next' = next /\ number' = number
           /\ client # "block" \/ ~Stored' => Flagged' /\ PageInv' /\ Pointed'
<1>1. flash' \in Flashes /\ WrittenExact' /\ NeverHalfAProgram'
    BY FlashKept DEF InterruptFrame
<1>2. client # "block" \/ ~Stored' => Flagged' /\ PageInv' /\ Pointed'
    BY FlashKept DEF Safe, InterruptFrame, Quiet, Flagged, PageInv, Pointed, Writing
<1> QED
    BY <1>1, <1>2 DEF Safe, Types, InterruptFrame, Quiet

LEMMA CommandSafe ==
    ASSUME Safe, OnDataWritten, client # "block", Head(air).type # "reset_application"
    PROVE  Safe'
<1>1. air # <<>> /\ mode \in {"application", "pairing"} /\ air' = Tail(air)
      /\ UNCHANGED <<flash, keyVars, mode, pc, flashPointer, at, clientVars>>
    BY DEF OnDataWritten, Safe, Types
<1>2. InterruptFrame /\ Quiet
    BY <1>1, Arriving DEF InterruptFrame, keyVars, clientVars, Safe
<1>3. Flagged' /\ PageInv' /\ Pointed' /\ Part' /\ client' = client
    BY <1>2, InterruptKeeps DEF Part
<1>4. events = <<>> /\ pc' = "idle"
    BY <1>2, InterruptKeeps DEF Quiet
<1>5. air' = <<>>
    BY <1>1, Arriving, CommandHead DEF Safe
<1>6. ASSUME UNCHANGED rxVars
      PROVE  Types' /\ Counts' /\ (Complete' <=> Complete)
    BY <1>2, <1>6, InterruptKeeps DEF Safe, Types, Counts, Complete, rxVars
<1>7. CASE client = "status"
    <2>1. Head(air).type = "status" /\ back = <<>>
        BY <1>1, <1>7, Arriving, CommandHead DEF Safe
    <2>2. back' = Append(back, mode) /\ events' = events /\ UNCHANGED rxVars
        BY <1>1, <2>1 DEF OnDataWritten, Notify
    <2>3. back' = <<mode>>
        BY <2>1, <2>2, One
    <2>4. Conversation'
        BY <1>1, <1>3, <1>4, <1>5, <1>7, <2>2, <2>3 DEF Conversation, Asking, Quiet
    <2> QED
        BY <1>2, <1>3, <1>6, <2>2, <2>4, InterruptKeeps DEF Safe
<1>8. CASE client = "region"
    <2>1. Head(air).type = "region" /\ back = <<>>
        BY <1>1, <1>8, Arriving, CommandHead DEF Safe
    <2>2. RegionInfo
        BY <1>1, <2>1 DEF OnDataWritten
    <2>3. /\ back' = Append(back, "region") /\ events' = events /\ block' = block
          /\ packetCount' = 0 /\ blockPacketCount' = 0 /\ blockNum' = 0
          /\ offset' = [high |-> System, low |-> 1]
        BY <2>2 DEF RegionInfo, Notify
    <2>4. back' = <<"region">>
        BY <2>1, <2>3, One
    <2>5. Conversation'
        BY <1>1, <1>3, <1>4, <1>5, <1>8, <2>3, <2>4 DEF Conversation, Asking, Quiet
    <2>6. offset' \in Address /\ 0 \in Aligned
        BY <2>3, Constants DEF Address, Aligned
    <2>7. Types' /\ Counts'
        BY <1>2, <2>3, <2>6, InterruptKeeps DEF Safe, Types, Counts
    <2> QED
        BY <1>2, <1>3, <2>5, <2>7, InterruptKeeps DEF Safe
<1>9. CASE client = "reset"
    <2>1. Head(air).type = "reset_pairing" /\ back = <<>>
        BY <1>1, <1>9, Arriving, CommandHead DEF Safe
    <2>2. events' = Append(events, "reset") /\ back' = back /\ UNCHANGED rxVars
        BY <1>1, <2>1 DEF OnDataWritten
    <2>3. events' = <<"reset">>
        BY <1>4, <2>2, One
    <2>4. Conversation'
        BY <1>1, <1>3, <1>4, <1>5, <1>9, <2>1, <2>2, <2>3 DEF Conversation, Telling
    <2> QED
        BY <1>2, <1>3, <1>6, <2>2, <2>4, InterruptKeeps DEF Safe
<1>10. CASE client = "end"
    <2>1. Head(air).type = "end" /\ back = <<>> /\ Complete /\ next = NewBlocks
        BY <1>1, <1>10, Arriving, CommandHead DEF Safe
    <2>2. events' = Append(events, "end") /\ back' = back /\ UNCHANGED rxVars
        BY <1>1, <2>1 DEF OnDataWritten
    <2>3. events' = <<"end">>
        BY <1>4, <2>2, One
    <2>4. Complete' /\ next' = NewBlocks
        BY <1>2, <1>6, <2>1, <2>2, InterruptKeeps
    <2>5. Conversation'
        BY <1>1, <1>3, <1>4, <1>5, <1>10, <2>1, <2>2, <2>3, <2>4 DEF Conversation, Telling
    <2> QED
        BY <1>2, <1>3, <1>6, <2>2, <2>5, InterruptKeeps DEF Safe
<1>11. client # "connect"
    BY <1>1, Arriving, CommandHead DEF Safe
<1> QED
    BY <1>1, <1>7, <1>8, <1>9, <1>10, <1>11, Arriving DEF Safe

LEMMA DataSafe ==
    ASSUME Safe, OnDataWritten, client = "block"
    PROVE  Safe'
<1> DEFINE j == 5 - Len(air)
           p == Head(air)
<1>1. air # <<>> /\ Receiving /\ next \in Blocks /\ events = <<>> /\ pc = "idle"
    BY Arriving, Constants DEF OnDataWritten, Safe, Types, Receiving, Quiet
<1>2. /\ j \in 1 .. 4 /\ p.type = "data" /\ p.num = Sent + (j - 1)
      /\ p.data = <<next, j>> /\ p.low = next /\ p.high = Program
      /\ Tail(air) \in Seq(DataPacket) /\ Len(Tail(air)) = 4 - j /\ (j = 4 => Tail(air) = <<>>)
      /\ \A i \in 1 .. 4 - j : Tail(air)[i] = Packet(next, j + i, Sent + j + i - 1)
    BY <1>1, NextPacket DEF Safe, Receiving
<1>3. Len(air) = 5 - j
    <2>1. Len(air) \in Nat
        BY <1>1, Sequence DEF Receiving, OnAir
    <2> QED
        BY <2>1
<1> HIDE DEF j, p
<1>4. /\ FlashData(p) /\ air' = Tail(air)
      /\ UNCHANGED <<flash, keyVars, mode, pc, flashPointer, at, clientVars>>
    BY <1>1, <1>2 DEF OnDataWritten, p
<1>5. InterruptFrame /\ Quiet
    BY <1>1, <1>4 DEF InterruptFrame, keyVars, clientVars, Quiet
<1>6. pc' = "idle" /\ client' = "block" /\ next' = next /\ number' = number
    BY <1>5, InterruptKeeps
<1>7. OnAir'
    <2>1. Len(air') = 4 - j /\ j \in 1 .. 4 /\ Sent' = Sent /\ Sent \in Nat
        BY <1>2, <1>4, <1>6, SentAligned DEF Sent, Safe
    <2>2. \A i \in 1 .. 4 - j : 4 - (4 - j) + i = j + i /\ Sent + 3 - (4 - j) + i = Sent + j + i - 1
        BY <2>1
    <2>3. \A i \in 1 .. 4 - j : air'[i] = Packet(next, 4 - (4 - j) + i, Sent + 3 - (4 - j) + i)
        BY <1>2, <1>4, <2>2
    <2> QED
        BY <1>2, <1>4, <1>6, <2>1, <2>3 DEF OnAir
<1>8. /\ blockPacketCount \in Aligned /\ blockNum \in 0 .. 3 /\ packetCount = blockPacketCount + blockNum
      /\ number \in Aligned /\ Sent \in Aligned
    BY SentAligned DEF Safe, Counts
<1>9. /\ \A i \in 1 .. blockNum : block[i] = <<next, i>>
      /\ blockNum >= 1 => offset.low = next
      /\ blockNum >= 2 => offset.high = Program
      /\ back # <<>> => blockNum = 0 /\ Len(air) < 4
    BY DEF Safe, Part
<1>10. block \in [1 .. 4 -> Cell] /\ offset \in Address /\ back \in Seq({"again"})
    BY <1>1 DEF Safe, Types, Receiving
<1>11. CASE p.num = packetCount /\ PacketMatches(p)
    <2>1. blockNum = j - 1
        <3>1. Sent + (j - 1) = blockPacketCount + blockNum /\ j - 1 \in 0 .. 3
            BY <1>2, <1>8, <1>11
        <3> QED
            BY <1>8, <3>1, SamePlace
    <2>2. back = <<>>
        BY <1>2, <1>3, <1>9, <2>1
    <2>3. /\ packetCount' = (packetCount + 1) % Modulus
          /\ block' = [block EXCEPT ![j] = <<next, j>>]
          /\ offset' = CASE blockNum = 0 -> [high |-> System, low |-> next]
                         [] blockNum = 1 -> [offset EXCEPT !.high = Program]
                         [] OTHER -> offset
          /\ back' = <<>>
        <3>1. blockNum + 1 = j
            BY <1>2, <2>1
        <3> QED
            BY <1>2, <1>11, <2>2, <3>1 DEF PacketMatches
    <2>4. /\ block' \in [1 .. 4 -> Cell] /\ offset' \in Address
          /\ \A i \in 1 .. j : block'[i] = <<next, i>>
          /\ offset'.low = next /\ (j >= 2 => offset'.high = Program)
        <3>1. <<next, j>> \in Cell
            BY <1>1, <1>2, Constants DEF Cell, Blocks
        <3>2. block' \in [1 .. 4 -> Cell] /\ \A i \in 1 .. j : block'[i] = <<next, i>>
            BY <1>2, <1>9, <1>10, <2>1, <2>3, <3>1
        <3>3. offset' \in Address /\ offset'.low = next /\ (j >= 2 => offset'.high = Program)
            <4>1. CASE j = 1
                <5>1. offset' = [high |-> System, low |-> next]
                    BY <2>1, <2>3, <4>1
                <5> QED
                    BY <1>1, <4>1, <5>1 DEF Address
            <4>2. CASE j = 2
                <5>1. offset' = [offset EXCEPT !.high = Program] /\ offset.low = next
                    BY <1>9, <2>1, <2>3, <4>2
                <5> QED
                    BY <1>10, <4>2, <5>1 DEF Address
            <4>3. CASE j \in 3 .. 4
                <5>1. offset' = offset /\ offset.low = next /\ offset.high = Program
                    BY <1>9, <2>1, <2>3, <4>3
                <5> QED
                    BY <1>10, <5>1
            <4> QED
                BY <1>2, <4>1, <4>2, <4>3
        <3> QED
            BY <3>2, <3>3
    <2>5. Types'
        BY <1>5, <2>4, InterruptKeeps DEF Types
    <2>6. ~Stored'
        BY <2>3, One DEF Stored
    <2>7. Flagged' /\ PageInv' /\ Pointed'
        BY <1>5, <2>6, InterruptKeeps
    <2>8. CASE j < 4
        <3>1. events' = <<>> /\ blockNum' = j /\ blockPacketCount' = blockPacketCount
            BY <1>1, <1>2, <1>11, <2>1, <2>8 DEF PacketMatches
        <3>2. packetCount' = blockPacketCount + j
            <4>1. blockPacketCount + 3 < Modulus /\ blockPacketCount \in Nat /\ Modulus \in Nat
                BY <1>8, NextBatch, Constants DEF Aligned
            <4>2. packetCount + 1 = blockPacketCount + j /\ blockPacketCount + j < Modulus
                BY <1>2, <1>8, <2>1, <2>8, <4>1
            <4>3. (blockPacketCount + j) % Modulus = blockPacketCount + j
                BY <1>2, <4>1, <4>2
            <4> QED
                BY <2>3, <4>2, <4>3
        <3>3. Counts'
            BY <1>2, <1>6, <1>8, <2>8, <3>1, <3>2 DEF Counts
        <3>4. Receiving'
            BY <1>6, <1>7, <2>3, <3>1, EmptySeq DEF Receiving, Quiet
        <3>5. Part'
            BY <1>2, <1>6, <2>3, <2>4, <3>1 DEF Part
        <3> QED
            BY <1>5, <1>6, <2>5, <2>7, <3>3, <3>4, <3>5, InterruptKeeps DEF Safe, Conversation
    <2>9. CASE j = 4
        <3>1. /\ events' = Append(events, "data") /\ blockNum' = 0
              /\ blockPacketCount' = (blockPacketCount + 4) % Modulus
            BY <1>11, <2>1, <2>9 DEF PacketMatches
        <3>2. events' = <<"data">> /\ air' = <<>>
            BY <1>1, <1>2, <1>4, <2>9, <3>1, One
        <3>3. Counts'
            <4>1. blockPacketCount' \in Aligned
                BY <1>8, <3>1, NextBatch
            <4>2. packetCount' = blockPacketCount' + blockNum'
                <5>1. packetCount + 1 = blockPacketCount + 4 /\ blockPacketCount' \in Nat
                    BY <1>8, <2>1, <2>9, <4>1 DEF Aligned
                <5> QED
                    BY <2>3, <3>1, <5>1
            <4> QED
                BY <1>6, <1>8, <3>1, <4>1, <4>2 DEF Counts
        <3>4. block' = Cells(next)
            <4>1. Cells(next) \in [1 .. 4 -> Cell] /\ \A i \in 1 .. 4 : Cells(next)[i] = <<next, i>>
                BY <1>1, Colours
            <4>2. \A i \in 1 .. 4 : block'[i] = Cells(next)[i]
                BY <2>4, <2>9, <4>1
            <4> QED
                BY <2>4, <4>1, <4>2, SameCells, Zenon
        <3>5. offset' = [high |-> Program, low |-> next]
            BY <2>4, <2>9 DEF Address
        <3>6. Storing'
            BY <1>6, <2>3, <3>1, <3>2, <3>4, <3>5 DEF Storing, Complete
        <3>7. Part'
            BY <1>6, <2>3, <3>1 DEF Part
        <3> QED
            BY <1>5, <1>6, <2>5, <2>7, <3>3, <3>6, <3>7, InterruptKeeps DEF Safe, Conversation
    <2> QED
        BY <1>2, <2>8, <2>9
<1>12. CASE UNCHANGED <<rxVars, events, back>>
    <2>1. Types' /\ Counts'
        BY <1>5, <1>6, <1>12, InterruptKeeps DEF Safe, Types, Counts, rxVars
    <2>2. Receiving'
        BY <1>1, <1>6, <1>7, <1>10, <1>12 DEF Receiving, Quiet
    <2>3. Part'
        BY <1>2, <1>3, <1>4, <1>6, <1>9, <1>12 DEF Part, rxVars
    <2>4. ~Stored'
        BY <1>10, <1>12, Asked DEF Stored
    <2> QED
        BY <1>5, <1>6, <2>1, <2>2, <2>3, <2>4, InterruptKeeps DEF Safe, Conversation
<1>13. CASE PacketError
    <2>1. /\ back' = Append(back, "again") /\ blockNum' = 0 /\ UNCHANGED <<offset, block, events>>
          /\ blockPacketCount' = (blockPacketCount + 4) % Modulus /\ packetCount' = blockPacketCount'
        BY <1>13 DEF PacketError, Notify
    <2>2. blockPacketCount' \in Aligned
        BY <1>8, <2>1, NextBatch
    <2>3. Types'
        BY <1>5, <1>10, <2>1, InterruptKeeps DEF Types
    <2>4. Counts'
        BY <1>6, <1>8, <2>1, <2>2 DEF Counts, Aligned
    <2>5. back' \in Seq({"again"})
        BY <1>10, <2>1, Sequence
    <2>6. ~Stored'
        BY <2>5, Asked DEF Stored
    <2>7. Receiving'
        BY <1>1, <1>6, <1>7, <2>1, <2>5 DEF Receiving, Quiet
    <2>8. Len(air') < 4
        BY <1>2, <1>4
    <2>9. Part'
        BY <1>6, <2>1, <2>8 DEF Part
    <2> QED
        BY <1>5, <1>6, <2>3, <2>4, <2>6, <2>7, <2>9, InterruptKeeps DEF Safe, Conversation
<1> QED
    BY <1>4, <1>11, <1>12, <1>13 DEF FlashData
-----------------------------------------------------------------------------
(* The client, and what is lost.                                           *)

LEMMA ClientKeeps ==
    ASSUME Safe, ClientFrame
    PROVE  /\ flash' = flash /\ flashIncomplete' = flashIncomplete
           /\ UNCHANGED <<packetCount, blockPacketCount, blockNum, offset, block, events, pc, flashPointer, at>>
           /\ flash' \in Flashes /\ mode' \in {"boot", "application", "pairing"}
           /\ block' \in [1 .. 4 -> Cell] /\ offset' \in Address /\ flashPointer' \in Address
           /\ at' \in Nat /\ at' >= 1 /\ NeverHalfAProgram'
           /\ number' \in Aligned => Counts'
BY DEF Safe, ClientFrame, keyVars, rxVars, handlerVars, Types, Counts, NeverHalfAProgram, Whole

(* The client sends a command, or is done.                                 *)
LEMMA SaySafe ==
    ASSUME Safe, ClientFrame, Quiet, back' = <<>>, next' \in 1 .. NewBlocks, number' \in Aligned,
           \/ client' = "connect" /\ air' \in {<<>>, Command("reset_application")}
           \/ client' = "done" /\ air' = <<>>
           \/ client' = "status" /\ air' = Command("status")
           \/ client' = "region" /\ air' = Command("region")
           \/ client' = "reset" /\ air' = Command("reset_pairing")
           \/ /\ client' = "end" /\ air' = Command("end") /\ next' = next
              /\ next = NewBlocks /\ Complete /\ \A b \in 1 .. NewBlocks : Written(b)
    PROVE  Safe'
<1>1. Types' /\ Counts' /\ pc' = "idle" /\ events' = <<>>
    BY ClientKeeps DEF Types, Quiet
<1>2. Part' /\ Flagged' /\ PageInv' /\ Pointed'
    BY <1>1 DEF Part, Flagged, PageInv, Pointed
<1>3. client' = "end" => next' = NewBlocks /\ Complete'
    BY ClientKeeps DEF Complete
<1>4. Conversation'
    BY <1>1, <1>3 DEF Conversation, Asking, Telling, Quiet
<1>5. WrittenExact'
    BY ClientKeeps DEF Safe, WrittenExact, Written
<1> QED
    BY <1>1, <1>2, <1>4, <1>5, ClientKeeps DEF Safe

(* The client sends a block.                                               *)
LEMMA SendBlockSafe ==
    ASSUME Safe, ClientFrame, Quiet, air = <<>>, back' = <<>>,
           NEW b \in 1 .. NewBlocks, NEW n \in Aligned, SendBlock(b, n),
           (b = next /\ client = "block") \/ blockNum = 0,
           b > 1 => flashIncomplete,
           \A c \in 1 .. b - 1 : Written(c),
           ~OnBoundary(b) => Started(b) /\ \A c \in PageOf(b) : c > b => Free(c)
    PROVE  Safe'
<1>1. /\ air' = BlockPackets(b, n) /\ number' = (n + 4) % Modulus /\ next' = b /\ client' = "block"
      /\ b \in Blocks
    BY Constants, BlockOnAir DEF SendBlock, Send
<1>2. number' \in Aligned /\ Sent' = n
    BY <1>1, NextBatch DEF Sent
<1>3. Types' /\ Counts' /\ pc' = "idle" /\ events' = <<>>
    BY <1>1, <1>2, ClientKeeps DEF Types, Quiet
<1>4. air' \in Seq(DataPacket) /\ Len(air') = 4 /\ \A i \in 1 .. 4 : air'[i] = Packet(b, i, n + i - 1)
    BY <1>1, BlockOnAir
<1>5. OnAir'
    <2>1. n \in Nat
        BY DEF Aligned
    <2>2. \A i \in 1 .. 4 : 4 - 4 + i = i /\ n + 3 - 4 + i = n + i - 1
        BY <2>1
    <2>3. \A i \in 1 .. 4 : air'[i] = Packet(b, 4 - 4 + i, n + 3 - 4 + i)
        BY <1>4, <2>2
    <2> QED
        BY <1>1, <1>2, <1>4, <2>3 DEF OnAir
<1>6. Receiving'
    BY <1>3, <1>5, EmptySeq DEF Receiving, Quiet
<1>7. Conversation'
    BY <1>1, <1>6 DEF Conversation
<1>8. Part'
    BY <1>1, ClientKeeps DEF Safe, Part, Counts
<1>9. ~Stored'
    BY One DEF Stored
<1>10. Flagged' /\ Pointed'
    BY <1>1, <1>3, <1>9, ClientKeeps DEF Flagged, Pointed, Writing
<1>11. PageInv'
    BY <1>1, <1>3, <1>9, ClientKeeps DEF PageInv, Started, Free
<1>12. WrittenExact'
    BY <1>1, ClientKeeps DEF Safe, WrittenExact, Written
<1> QED
    BY <1>3, <1>7, <1>8, <1>10, <1>11, <1>12, ClientKeeps DEF Safe

(* When nothing is on its way and the client waits for a block, that block *)
(* has to be sent again.                                                   *)
LEMMA SendAgainSafe ==
    ASSUME Safe, ClientFrame, Quiet, air = <<>>, back' = <<>>, client = "block", SendBlock(next, number)
    PROVE  Safe'
<1>1. next \in 1 .. NewBlocks /\ number \in Aligned
    BY DEF Safe, Types, Counts
<1>2. next > 1 => flashIncomplete
    BY DEF Safe, Flagged
<1>3. \A c \in 1 .. next - 1 : Written(c)
    BY DEF Safe, WrittenExact, Written
<1>4. ~OnBoundary(next) => Started(next) /\ \A c \in PageOf(next) : c > next => Free(c)
    BY DEF Safe, PageInv
<1> QED
    BY <1>1, <1>2, <1>3, <1>4, SendBlockSafe

LEMMA ConnectSafe ==
    ASSUME Safe, Connect
    PROVE  Safe'
<1>1. /\ ClientFrame /\ Quiet /\ air' = air \o Command("status") /\ air = <<>> /\ back' = <<>>
      /\ client' = "status" /\ next' = next /\ number' = number
    BY DEF Connect, Send, BoardQuiet, Quiet
<1>2. air' = Command("status")
    BY <1>1, One DEF Command
<1>3. next' \in 1 .. NewBlocks /\ number' \in Aligned
    BY <1>1 DEF Safe, Types, Counts
<1> QED
    BY <1>1, <1>2, <1>3, SaySafe

(* What an answer may be, when nothing else is on its way.                 *)
LEMMA Answer ==
    ASSUME Types, Conversation, air = <<>>, back # <<>>
    PROVE  /\ Quiet
           /\ \/ client = "status" /\ Last(back) \in {"application", "pairing"}
              \/ client = "region" /\ Last(back) = "region" /\ blockNum = 0
              \/ client = "block" /\ Last(back) = "again" /\ Receiving
              \/ client = "block" /\ Last(back) = "written" /\ Stored
<1>1. CASE client = "status"
    <2>1. Quiet /\ \E a \in {"application", "pairing"} : back = <<a>>
        BY <1>1 DEF Conversation, Asking
    <2> QED
        BY <1>1, <2>1, One
<1>2. CASE client = "region"
    <2>1. Quiet /\ back = <<"region">> /\ blockNum = 0
        BY <1>2 DEF Conversation, Asking
    <2> QED
        BY <1>2, <2>1, One
<1>3. CASE client = "block"
    <2>1. Receiving \/ Stored
        BY <1>3 DEF Conversation, Storing
    <2>2. Receiving => Quiet /\ Last(back) = "again"
        BY Sequence DEF Receiving
    <2>3. Stored => Quiet /\ Last(back) = "written"
        BY One DEF Stored
    <2> QED
        BY <1>3, <2>1, <2>2, <2>3
<1> QED
    BY <1>1, <1>2, <1>3 DEF Types, Conversation, Telling

LEMMA AnsweredSafe ==
    ASSUME Safe, Patient, Answered
    PROVE  Safe'
<1>1. ClientFrame /\ air = <<>> /\ back # <<>> /\ back' = <<>>
    BY DEF Answered
<1>2. /\ Quiet
      /\ \/ client = "status" /\ Last(back) \in {"application", "pairing"}
         \/ client = "region" /\ Last(back) = "region" /\ blockNum = 0
         \/ client = "block" /\ Last(back) = "again" /\ Receiving
         \/ client = "block" /\ Last(back) = "written" /\ Stored
    BY <1>1, Answer DEF Safe
<1>3. next \in 1 .. NewBlocks /\ number \in Aligned /\ 0 \in Aligned /\ 1 \in 1 .. NewBlocks
    BY Constants DEF Safe, Types, Counts, Aligned
<1>4. CASE client = "status" /\ Last(back) = "pairing"
    <2>1. air' = air \o Command("region") /\ client' = "region" /\ next' = 1 /\ number' = 0
        BY <1>4 DEF Answered, Start, Send
    <2>2. air' = Command("region")
        BY <1>1, <2>1, One DEF Command
    <2> QED
        BY <1>1, <1>2, <1>3, <2>1, <2>2, SaySafe
<1>5. CASE client = "status" /\ Last(back) = "application" /\ ended
    <2>1. air' = air /\ client' = "done" /\ next' = next /\ number' = number
        BY <1>5 DEF Answered
    <2> QED
        BY <1>1, <1>2, <1>3, <2>1, SaySafe
<1>6. CASE client = "status" /\ Last(back) = "application" /\ ~ended
    <2>1. air' = air \o Command("reset_pairing") /\ client' = "reset" /\ next' = next /\ number' = number
        BY <1>6 DEF Answered, Send
    <2>2. air' = Command("reset_pairing")
        BY <1>1, <2>1, One DEF Command
    <2> QED
        BY <1>1, <1>2, <1>3, <2>1, <2>2, SaySafe
<1>7. CASE client = "region" /\ Last(back) = "region"
    <2>1. SendBlock(1, 0)
        BY <1>7 DEF Answered
    <2>2. ~(1 > 1) /\ (\A c \in 1 .. 1 - 1 : Written(c)) /\ blockNum = 0
        BY <1>2, <1>7
    <2> QED
        BY <1>1, <1>2, <1>3, <2>1, <2>2, FirstBoundary, SendBlockSafe
<1>8. CASE client = "block" /\ Last(back) = "again"
    <2>1. SendBlock(next, number)
        BY <1>8 DEF Answered
    <2> QED
        BY <1>1, <1>2, <1>8, <2>1, SendAgainSafe
<1>9. CASE client = "block" /\ Last(back) = "written" /\ Stored
    <2>1. /\ flashIncomplete /\ Written(next) /\ Complete
          /\ Started(next) /\ \A b \in PageOf(next) : b > next => Free(b)
        BY <1>9 DEF Safe, Flagged, PageInv, Pointed, Stored
    <2>2. next \in Nat /\ next >= 1 /\ NewBlocks \in Nat /\ RegionBlocks \in Nat /\ NewBlocks <= RegionBlocks
        BY <1>3, Constants
    <2>3. \A c \in 1 .. next : Written(c)
        <3>1. \A c \in 1 .. next - 1 : Written(c)
            BY <1>9 DEF Safe, WrittenExact, Written
        <3>2. \A c \in 1 .. next : c = next \/ c \in 1 .. next - 1
            BY <2>2
        <3> QED
            BY <2>1, <3>1, <3>2, Zenon
    <2>4. CASE next < NewBlocks
        <3>1. SendBlock(next + 1, number)
            BY <1>9, <2>4 DEF Answered
        <3>2. next + 1 \in 1 .. NewBlocks /\ next + 1 \in Blocks /\ next \in Blocks /\ (next + 1) - 1 = next
            BY <2>2, <2>4 DEF Blocks
        <3>3. ~OnBoundary(next + 1) => Started(next + 1) /\ \A c \in PageOf(next + 1) : c > next + 1 => Free(c)
            <4>1. SUFFICES ASSUME ~OnBoundary(next + 1)
                           PROVE  Started(next + 1) /\ \A c \in PageOf(next + 1) : c > next + 1 => Free(c)
                OBVIOUS
            <4>2. PageOf(next + 1) = PageOf(next) /\ next + 1 \in PageOf(next) /\ PageOf(next) \subseteq Blocks
                BY <3>2, <4>1, OnePage
            <4>3. next + 1 > next /\ \A c \in Blocks : c > next + 1 => c > next
                BY <2>2 DEF Blocks
            <4>4. Free(next + 1)
                BY <2>1, <4>2, <4>3
            <4>5. Started(next + 1)
                BY <4>4, Colours DEF Free, Started
            <4> QED
                BY <2>1, <4>2, <4>3, <4>5
        <3>4. \A c \in 1 .. (next + 1) - 1 : Written(c)
            BY <2>3, <3>2
        <3>5. blockNum = 0
            BY <2>1 DEF Complete
        <3> HIDE DEF Written, Started, Free
        <3> QED
            BY <1>1, <1>2, <1>3, <2>1, <3>1, <3>2, <3>3, <3>4, <3>5, SendBlockSafe
    <2>5. CASE ~(next < NewBlocks)
        <3>1. air' = air \o Command("end") /\ client' = "end" /\ next' = next /\ number' = number
            BY <1>9, <2>5 DEF Answered, SendEnd, Send
        <3>2. air' = Command("end")
            BY <1>1, <3>1, One DEF Command
        <3>3. next = NewBlocks
            BY <1>3, <2>2, <2>5
        <3>4. \A b \in 1 .. NewBlocks : Written(b)
            BY <2>3, <3>3
        <3> QED
            BY <1>1, <1>2, <1>3, <2>1, <3>1, <3>2, <3>3, <3>4, SaySafe
    <2> QED
        BY <2>4, <2>5
<1> QED
    BY <1>2, <1>4, <1>5, <1>6, <1>7, <1>8, <1>9

LEMMA TimeoutSafe ==
    ASSUME Safe, Patient, Timeout
    PROVE  Safe'
<1>1. ClientFrame /\ Quiet /\ air = <<>> /\ back = <<>> /\ back' = <<>>
    BY DEF Timeout, Patient, BoardQuiet, Quiet
<1>2. next \in 1 .. NewBlocks /\ number \in Aligned
    BY DEF Safe, Types, Counts
<1>3. ASSUME NEW c, Send(Command(c)), UNCHANGED clientVars
      PROVE  air' = Command(c) /\ client' = client /\ next' = next /\ number' = number
    BY <1>1, <1>3, One DEF Send, Command, clientVars
<1>4. CASE client = "status"
    <2>1. Send(Command("status")) /\ UNCHANGED clientVars
        BY <1>4 DEF Timeout
    <2> QED
        BY <1>1, <1>2, <1>3, <1>4, <2>1, SaySafe
<1>5. CASE client = "reset"
    <2>1. Send(Command("reset_pairing")) /\ UNCHANGED clientVars
        BY <1>5 DEF Timeout
    <2> QED
        BY <1>1, <1>2, <1>3, <1>5, <2>1, SaySafe
<1>6. CASE client = "region"
    <2>1. Send(Command("region")) /\ UNCHANGED clientVars
        BY <1>6 DEF Timeout
    <2> QED
        BY <1>1, <1>2, <1>3, <1>6, <2>1, SaySafe
<1>7. CASE client = "block"
    <2>1. SendBlock(next, number)
        BY <1>7 DEF Timeout
    <2> QED
        BY <1>1, <1>7, <2>1, SendAgainSafe
<1>8. CASE client = "end"
    <2>1. Send(Command("end")) /\ UNCHANGED clientVars
        BY <1>8 DEF Timeout
    <2>2. next = NewBlocks /\ Complete /\ \A b \in 1 .. NewBlocks : Written(b)
        BY <1>8 DEF Safe, Conversation, WrittenExact, Written
    <2> QED
        BY <1>1, <1>2, <1>3, <1>8, <2>1, <2>2, SaySafe
<1> QED
    BY <1>4, <1>5, <1>6, <1>7, <1>8 DEF Timeout

LEMMA GiveUpSafe ==
    ASSUME Safe, GiveUp
    PROVE  Safe'
<1>1. /\ ClientFrame /\ Quiet /\ air = <<>> /\ back' = <<>> /\ client' = "connect"
      /\ next' = next /\ number' = number
    BY DEF GiveUp, BoardQuiet, Quiet
<1>2. air' \in {<<>>, Command("reset_application")}
    BY <1>1, One DEF GiveUp, Send, Command
<1>3. next' \in 1 .. NewBlocks /\ number' \in Aligned
    BY <1>1 DEF Safe, Types, Counts
<1> QED
    BY <1>1, <1>2, <1>3, SaySafe

(* A lost command, packet or notification.                                 *)
LEMMA LoseSafe ==
    ASSUME Safe, Lose
    PROVE  Safe'
<1>1. ClientFrame /\ UNCHANGED clientVars
    BY DEF Lose
<1>2. /\ Types' /\ Counts' /\ (Complete' <=> Complete) /\ client' = client /\ next' = next /\ number' = number
      /\ events' = events /\ pc' = pc /\ (Quiet' <=> Quiet) /\ block' = block /\ blockNum' = blockNum
      /\ offset' = offset
    BY <1>1, ClientKeeps DEF clientVars, Safe, Types, Counts, Complete, Quiet
<1>3. InterruptFrame
    BY <1>1, ClientKeeps DEF InterruptFrame, clientVars, ClientFrame
<1>4. CASE air # <<>> /\ air' = Tail(air) /\ back' = back
    <2>1. Quiet
        BY <1>4, Arriving DEF Safe
    <2>2. CASE client = "block"
        <3>1. Receiving /\ next \in Blocks
            BY <1>4, <2>2, Arriving, Constants DEF Safe, Types
        <3>2. /\ Tail(air) \in Seq(DataPacket) /\ 5 - Len(air) \in 1 .. 4
              /\ Len(Tail(air)) = 4 - (5 - Len(air))
              /\ \A i \in 1 .. 4 - (5 - Len(air)) :
                   Tail(air)[i] = Packet(next, (5 - Len(air)) + i, Sent + (5 - Len(air)) + i - 1)
            BY <1>4, <3>1, NextPacket DEF Safe, Receiving
        <3> DEFINE j == 5 - Len(air)
        <3>3. /\ air' \in Seq(DataPacket) /\ j \in 1 .. 4 /\ Len(air') = 4 - j
              /\ \A i \in 1 .. 4 - j : air'[i] = Packet(next, j + i, Sent + j + i - 1)
            BY <1>4, <3>2
        <3> HIDE DEF j
        <3>4. OnAir'
            <4>1. Sent' = Sent /\ Sent \in Nat
                BY <1>2, SentAligned DEF Sent, Safe
            <4>2. \A i \in 1 .. 4 - j : 4 - (4 - j) + i = j + i /\ Sent + 3 - (4 - j) + i = Sent + j + i - 1
                BY <3>3, <4>1
            <4>3. \A i \in 1 .. 4 - j : air'[i] = Packet(next, 4 - (4 - j) + i, Sent + 3 - (4 - j) + i)
                BY <3>3, <4>2
            <4> QED
                BY <1>2, <3>3, <4>1, <4>3 DEF OnAir
        <3>5. Receiving'
            BY <1>2, <1>4, <2>1, <3>1, <3>4 DEF Receiving
        <3>6. Part'
            <4>1. Len(air') < 4
                BY <3>3
            <4> QED
                BY <1>2, <1>4, <2>2, <4>1 DEF Safe, Part
        <3>7. ~Stored'
            BY <3>5, Asked DEF Stored, Receiving
        <3> QED
            BY <1>2, <1>3, <2>1, <2>2, <3>5, <3>6, <3>7, InterruptKeeps DEF Safe, Conversation
    <2>3. CASE client # "block"
        <3>1. air' = <<>> /\ back = <<>>
            BY <1>4, <2>3, Arriving, CommandHead DEF Safe
        <3>2. client = "end" => next = NewBlocks /\ Complete
            BY DEF Safe, Conversation
        <3>3. Conversation'
            BY <1>2, <1>4, <2>1, <2>3, <3>1, <3>2 DEF Conversation, Asking, Telling
        <3>4. Part'
            BY <1>2, <2>3 DEF Part
        <3> QED
            BY <1>2, <1>3, <2>1, <2>3, <3>3, <3>4, InterruptKeeps DEF Safe
    <2> QED
        BY <2>2, <2>3
<1>5. CASE back # <<>> /\ back' = Tail(back) /\ air' = air
    <2>1. CASE client = "block"
        <3>1. Receiving \/ Stored
            BY <1>5, <2>1 DEF Safe, Conversation, Storing
        <3>2. Receiving => Receiving'
            <4>1. Receiving => Tail(back) \in Seq({"again"})
                BY <1>5, Sequence DEF Receiving
            <4> QED
                BY <1>2, <1>5, <4>1 DEF Receiving, OnAir, Sent
        <3>3. Stored => Receiving'
            <4>1. Stored => back' = <<>> /\ air' = <<>>
                BY <1>5, One DEF Stored
            <4>2. air' = <<>> => OnAir'
                BY EmptySeq DEF OnAir
            <4> QED
                BY <1>2, <4>1, <4>2, EmptySeq DEF Receiving, Stored
        <3>4. Receiving'
            BY <3>1, <3>2, <3>3
        <3>5. Part'
            BY <1>2, <1>5, <2>1 DEF Safe, Part
        <3>6. ~Stored' /\ Quiet
            BY <1>2, <3>4, Asked DEF Stored, Receiving
        <3> QED
            BY <1>2, <1>3, <2>1, <3>4, <3>5, <3>6, InterruptKeeps DEF Safe, Conversation
    <2>2. CASE client # "block"
        <3>1. /\ client = "status" \/ client = "region"
              /\ Quiet /\ air = <<>> /\ \E a : back = <<a>>
            BY <1>5, <2>2 DEF Safe, Types, Conversation, Asking, Telling
        <3>2. back' = <<>>
            BY <1>5, <3>1, One
        <3>3. Conversation'
            BY <1>2, <1>5, <3>1, <3>2 DEF Conversation, Asking
        <3>4. Part'
            BY <1>2, <2>2 DEF Part
        <3> QED
            BY <1>2, <1>3, <2>2, <3>1, <3>3, <3>4, InterruptKeeps DEF Safe
    <2> QED
        BY <2>1, <2>2
<1> QED
    BY <1>4, <1>5 DEF Lose

-----------------------------------------------------------------------------
LEMMA InitSafe ==
    ASSUME Init
    PROVE  Safe
<1>1. /\ flash = [h \in {System, Program} |-> [b \in Blocks |-> All(Old)]]
      /\ flashIncomplete = FALSE /\ mode = "boot"
      /\ packetCount = 0 /\ blockPacketCount = 0 /\ blockNum = 0
      /\ offset = [high |-> System, low |-> 1] /\ block = All(Blank)
      /\ events = <<>> /\ pc = "idle" /\ flashPointer = [high |-> System, low |-> 1] /\ at = 1
      /\ air = <<>> /\ back = <<>> /\ client = "connect" /\ next = 1 /\ number = 0
    BY DEF Init
<1>2. flash \in Flashes /\ \A h \in {System, Program}, b \in Blocks : flash[h][b] = All(Old)
    BY <1>1, Colours DEF Flashes
<1>3. Types
    BY <1>1, <1>2, Constants, Colours DEF Types, Address
<1>4. Counts
    BY <1>1, Constants DEF Counts, Aligned
<1>5. Conversation /\ Part /\ Flagged /\ PageInv /\ Pointed
    BY <1>1 DEF Conversation, Quiet, Part, Flagged, PageInv, Pointed
<1>6. WrittenExact /\ NeverHalfAProgram
    BY <1>1, <1>2 DEF WrittenExact, NeverHalfAProgram, Whole
<1> QED
    BY <1>3, <1>4, <1>5, <1>6 DEF Safe

LEMMA SafeStep ==
    ASSUME Safe, Patient, [Next]_vars
    PROVE  Safe'
<1>1. CASE PowerFails
    BY <1>1, ResetSafe DEF PowerFails, keyVars
<1>2. CASE Boot
    BY <1>2, BootSafe
<1>3. CASE OnDataWritten
    <2>1. CASE client = "block"
        BY <1>3, <2>1, DataSafe
    <2>2. CASE Head(air).type = "reset_application"
        BY <1>3, <2>2, ResetSafe DEF OnDataWritten, keyVars
    <2> QED
        BY <1>3, <2>1, <2>2, CommandSafe
<1>4. CASE Handler
    <2>1. CASE HandleEvent
        BY <2>1, HandleEventSafe
    <2>2. CASE SetFlag
        BY <2>2, SetFlagSafe
    <2>3. CASE EraseFiles
        BY <2>3, EraseFilesSafe
    <2>4. CASE Locate
        BY <2>4, LocateSafe
    <2>5. CASE Erase
        BY <2>5, EraseSafe
    <2>6. CASE BurnCell
        BY <2>6, BurnCellSafe
    <2>7. CASE Burnt
        BY <2>7, BurntSafe
    <2>8. CASE LastBurnt \/ NoValidation \/ RemoveFlag \/ EraseUserStorage
        BY <2>8, LastStepsSafe
    <2>9. CASE RestartInBLEMode
        BY <2>9, RestartInBLEModeSafe
    <2>10. CASE Restart
        BY <2>10, ResetSafe DEF Restart, keyVars
    <2> QED
        BY <1>4, <2>1, <2>2, <2>3, <2>4, <2>5, <2>6, <2>7, <2>8, <2>9, <2>10 DEF Handler
<1>5. CASE Connect
    BY <1>5, ConnectSafe
<1>6. CASE Answered
    BY <1>6, AnsweredSafe
<1>7. CASE Timeout
    BY <1>7, TimeoutSafe
<1>8. CASE GiveUp
    BY <1>8, GiveUpSafe
<1>9. CASE Lose
    BY <1>9, LoseSafe
<1>10. CASE UNCHANGED vars
    <2>1. /\ UNCHANGED <<flash, flashIncomplete, mode, packetCount, blockPacketCount, blockNum, offset, block, events,
                         pc, flashPointer, at, air, back, client, next, number>>
        BY <1>10 DEF vars, keyVars, rxVars, handlerVars, airVars, clientVars
    <2>2. Types' /\ Counts' /\ Part'
        BY <2>1 DEF Safe, Types, Counts, Part
    <2>3. Conversation'
        BY <2>1 DEF Safe, Conversation, Asking, Telling, Receiving, Storing, Stored, Quiet, Complete, OnAir, Sent
    <2>4. Flagged' /\ PageInv' /\ Pointed'
        BY <2>1, FlashKept DEF Safe, Flagged, PageInv, Pointed, Stored, Quiet, Complete
    <2> QED
        BY <2>1, <2>2, <2>3, <2>4, FlashKept DEF Safe
<1> QED
    BY <1>1, <1>2, <1>3, <1>4, <1>5, <1>6, <1>7, <1>8, <1>9, <1>10 DEF Next

LEMMA KindKept ==
    ASSUME [Next]_vars
    PROVE  clientKind' = clientKind
BY DEF Next, vars, fixedVars, PowerFails, Boot, OnDataWritten, Handler, HandlerFrame, HandleEvent, SetFlag, EraseFiles,
       Locate, Erase, BurnCell, Burnt, LastBurnt, NoValidation, RemoveFlag, EraseUserStorage, RestartInBLEMode,
       Restart, ClientFrame, Connect, Answered, Timeout, GiveUp, Lose

LEMMA AlwaysSafe == Spec => [](Patient => Safe)
<1>1. Init => (Patient => Safe)
    BY InitSafe
<1>2. (Patient => Safe) /\ [Next]_vars => (Patient => Safe)'
    <2>1. [Next]_vars => (Patient' <=> Patient)
        BY KindKept DEF Patient
    <2> QED
        BY <2>1, SafeStep
<1> QED
    BY <1>1, <1>2, PTL DEF Spec

(* The board never runs half a program: unless flashIncomplete keeps it in *)
(* Bluetooth mode the program is the old one or all of the new one,        *)
(* whatever is lost and wherever the power fails - if the client waits     *)
(* until nothing is on its way before it answers.                          *)
THEOREM ProgramNeverHalf == Spec => [](Patient => NeverHalfAProgram)
<1>1. Safe => NeverHalfAProgram
    BY DEF Safe
<1> QED
    BY <1>1, AlwaysSafe, PTL

(* What that client has been told is written is in flash as it was sent,   *)
(* and partialFlashingEvent() writes nothing but the program's region.     *)
THEOREM WrittenIsExact == Spec => [](Patient => WrittenExact)
<1>1. Safe => WrittenExact
    BY DEF Safe
<1> QED
    BY <1>1, AlwaysSafe, PTL

(* noValidation() never has both pages erased, whatever the client does.   *)
THEOREM SettingsSafe == Spec => []SettingsKept
<1>1. Init => Pages
    BY DEF Init, Pages
<1>2. Pages /\ [Next]_vars => Pages'
    <2>1. ASSUME Pages, UNCHANGED <<settings, backup>>, pc' # "backup" \/ pc' = pc PROVE Pages'
        BY <2>1 DEF Pages
    <2>2. ASSUME UNCHANGED keyVars PROVE UNCHANGED <<settings, backup>>
        BY <2>2 DEF keyVars
    <2>3. ASSUME Reset PROVE pc' # "backup"
        BY <2>3 DEF Reset
    <2>4. ASSUME Pages, NoValidation PROVE Pages'
        BY <2>4 DEF Pages, NoValidation, Goto
    <2>5. ASSUME PowerFails \/ Boot PROVE UNCHANGED <<settings, backup>> /\ (pc' # "backup" \/ pc' = pc)
        BY <2>2, <2>3, <2>5 DEF PowerFails, Boot, handlerVars
    <2>6. ASSUME OnDataWritten PROVE UNCHANGED <<settings, backup>> /\ (pc' # "backup" \/ pc' = pc)
        BY <2>2, <2>3, <2>6 DEF OnDataWritten
    <2>7. ASSUME Handler, ~NoValidation PROVE UNCHANGED <<settings, backup>> /\ (pc' # "backup" \/ pc' = pc)
        <3>1. CASE HandleEvent \/ EraseFiles \/ Locate \/ Erase \/ BurnCell \/ Burnt \/ LastBurnt
            <4>1. UNCHANGED keyVars
                BY <3>1 DEF HandleEvent, EraseFiles, Locate, Erase, BurnCell, Burnt, LastBurnt
            <4>2. pc' # "backup" \/ pc' = pc
                BY <3>1 DEF HandleEvent, EraseFiles, Locate, Erase, BurnCell, Burnt, LastBurnt, Goto
            <4> QED
                BY <2>2, <4>1, <4>2
        <3>2. CASE SetFlag \/ RemoveFlag \/ EraseUserStorage \/ RestartInBLEMode
            BY <3>2 DEF SetFlag, RemoveFlag, EraseUserStorage, RestartInBLEMode, Goto
        <3>3. CASE Restart
            BY <2>2, <2>3, <3>3 DEF Restart
        <3> QED
            BY <2>7, <3>1, <3>2, <3>3 DEF Handler
    <2>8. ASSUME Connect \/ Answered \/ Timeout \/ GiveUp \/ Lose PROVE UNCHANGED <<settings, backup>> /\ pc' = pc
        BY <2>2, <2>8 DEF Connect, Answered, Timeout, GiveUp, Lose, ClientFrame, handlerVars
    <2>9. ASSUME UNCHANGED vars PROVE UNCHANGED <<settings, backup>> /\ pc' = pc
        BY <2>2, <2>9 DEF vars, handlerVars
    <2> QED
        BY <2>1, <2>4, <2>5, <2>6, <2>7, <2>8, <2>9 DEF Next
<1>3. Pages => SettingsKept
    BY DEF Pages, SettingsKept
<1> QED
    BY <1>1, <1>2, <1>3, PTL DEF Spec
=============================================================================
