--------------------------- MODULE FSCacheProofs ---------------------------
(***************************************************************************)
(* Type correctness, coherence and uniqueness of the blocks in FSCache,    *)
(* and that it implements NVStore, for every size of storage, block, word, *)
(* page, cache and clock.                                                  *)
(***************************************************************************)
EXTENDS FSCache, TLAPS, WellFoundedInduction

(* A non-empty set of naturals has a least element. *)
LEMMA LeastNatural ==
    ASSUME NEW S \in SUBSET Nat, S # {}
    PROVE  \E n \in S : \A m \in S : n <= m
<1>1. \E n \in S : \A m \in S : ~(<<m, n>> \in OpToRel(<, Nat))
    BY NatLessThanWellFounded, WFMin
<1>2. PICK n \in S : \A m \in S : ~(<<m, n>> \in OpToRel(<, Nat))
    BY <1>1
<1>3. OpToRel(<, Nat) = {p \in Nat \X Nat : p[1] < p[2]}
    BY Zenon DEF OpToRel
<1>4. ASSUME NEW m \in S, m < n PROVE FALSE
    <2>1. <<m, n>> \in {p \in Nat \X Nat : p[1] < p[2]}
        BY <1>4
    <2> QED
        BY <1>2, <1>3, <2>1, Zenon
<1>5. \A m \in S : n <= m
    BY <1>4
<1> QED
    BY <1>5

(* First(S) is the least element of S. *)
LEMMA FirstLeast ==
    ASSUME NEW S \in SUBSET Nat, S # {}
    PROVE  First(S) \in S /\ \A m \in S : First(S) <= m
BY LeastNatural DEF First

(* The clock stays in its range when it ticks. *)
LEMMA TickCount ==
    ASSUME NEW n \in Nat, operationCount \in Count
    PROVE  Tick(n) \in Count
BY SizesAssumption DEF Tick, Count
-----------------------------------------------------------------------------
(* Type correctness. *)

(* A fiber without a call has an operation record of the right type. *)
LEMMA IdleType == Idle \in Op /\ Idle.todo = {} /\ Idle.slot = 0 /\ Idle.phase = "idle"
BY SizesAssumption DEF Idle, Op, Data, Page, Byte, Erased

(* An empty entry is an entry. *)
LEMMA EmptyType == Empty \in Entry
BY SizesAssumption DEF Empty, Entry, Block, Count, Page, Byte, Erased

(* The next block of a call is one of its blocks. *)
LEMMA NextBlockType ==
    ASSUME TypeOK, NEW f \in Fibers, op[f].todo # {}
    PROVE  NextBlock(f) \in op[f].todo /\ NextBlock(f) \in Block
<1>1. op[f].todo \in SUBSET Block
    BY DEF TypeOK, Op
<1>2. op[f].todo \in SUBSET Nat
    BY <1>1, SizesAssumption DEF Block
<1> QED
    BY <1>1, <1>2, FirstLeast DEF NextBlock

(* The lookup of a block that is cached finds a slot. *)
LEMMA HoldingType ==
    ASSUME NEW b, Holding(b) # {}
    PROVE  First(Holding(b)) \in Holding(b) /\ First(Holding(b)) \in Slot
<1>1. Holding(b) \in SUBSET Slot /\ Slot \in SUBSET Nat
    BY SizesAssumption DEF Holding, Slot
<1> QED
    BY <1>1, FirstLeast

(* cachePage() always finds an entry to replace. *)
LEMMA VictimType ==
    ASSUME TypeOK
    PROVE  Victim \in Slot
<1> DEFINE free == {i \in Slot : ~cache[i].loaded}
           cand == {1} \cup {i \in Slot : ~cache[i].pinned}
           best == {i \in cand : \A j \in cand : cache[i].lastUsed <= cache[j].lastUsed}
           ages == {cache[i].lastUsed : i \in cand}
<1>1. Slot \in SUBSET Nat /\ 1 \in Slot
    BY SizesAssumption DEF Slot
<1>2. cand \in SUBSET Slot /\ cand # {}
    BY <1>1
<1>3. \A i \in Slot : cache[i].lastUsed \in Nat
    BY SizesAssumption DEF TypeOK, Entry, Count
<1>4. ages \in SUBSET Nat /\ ages # {}
    BY <1>2, <1>3
<1>5. PICK n \in ages : \A m \in ages : n <= m
    BY <1>4, LeastNatural
<1>6. PICK i \in cand : n = cache[i].lastUsed
    BY <1>5
<1>7. i \in best
    BY <1>5, <1>6
<1>8. best \in SUBSET Slot /\ best # {}
    BY <1>2, <1>7
<1>9. First(best) \in Slot
    BY <1>1, <1>8, FirstLeast
<1>10. free # {} => First(free) \in Slot
    BY <1>1, FirstLeast
<1> QED
    BY <1>9, <1>10 DEF Victim

(* A call that moves on has an operation record of the right type. *)
LEMMA AdvanceType ==
    ASSUME TypeOK, NEW f \in Fibers
    PROVE  Advance(f) \in Op /\ Advance(f).slot = 0
<1>1. op[f] \in Op
    BY DEF TypeOK
<1>2. Touched(f) \in SUBSET Block
    BY DEF Touched
<1> QED
    BY <1>1, <1>2, IdleType, SizesAssumption DEF Advance, Op

(* A fiber that waits for the flash has a block to load. *)
Busy == \A f \in Fibers : op[f].slot # 0 => op[f].todo # {}

(* An iteration of a loop of read(), write() or pin() keeps the types. *)
LEMMA BodyType ==
    ASSUME TypeOK, NEW f \in Fibers, op[f].todo # {},
           NEW i \in Slot, NEW c \in [Slot -> Entry], Body(f, i, c)
    PROVE  /\ flash' \in [Block -> Page] /\ cache' \in [Slot -> Entry] /\ op' \in [Fibers -> Op]
           /\ \E next \in Op : op' = [op EXCEPT ![f] = next] /\ next.slot = 0
<1>1. Advance(f) \in Op /\ Advance(f).slot = 0 /\ Idle \in Op /\ Idle.slot = 0
    BY AdvanceType, IdleType
<1>2. NextBlock(f) \in Block
    BY NextBlockType
<1>3. CASE ReadOut(f, i, c)
    BY <1>1, <1>3 DEF ReadOut, TypeOK
<1>4. CASE Check(f, i, c)
    BY <1>1, <1>4 DEF Check, TypeOK
<1>5. CASE WriteThrough(f, i, c)
    <2> DEFINE b  == NextBlock(f)
               pg == [x \in Cell |-> IF x \in op[f].cells[b] THEN op[f].data[b][x] ELSE c[i].page[x]]
               fl == [x \in Cell |-> IF x \in Aligned(op[f].cells[b]) THEN flash[b][x] \cap pg[x] ELSE flash[b][x]]
    <2>1. pg \in Page
        BY <1>2 DEF TypeOK, Op, Data, Entry, Page
    <2>2. fl \in Page
        BY <1>2, <2>1 DEF TypeOK, Page, Byte
    <2>3. cache' = [c EXCEPT ![i].page = pg]
        BY <1>5 DEF WriteThrough
    <2>4. cache' \in [Slot -> Entry]
        BY <2>1, <2>3 DEF Entry
    <2>5. flash' = [flash EXCEPT ![b] = fl] \/ flash' = flash
        BY <1>5 DEF WriteThrough
    <2>6. flash' \in [Block -> Page]
        BY <1>2, <2>2, <2>5 DEF TypeOK
    <2>7. op' = [op EXCEPT ![f] = Advance(f)]
        BY <1>5 DEF WriteThrough
    <2> QED
        BY <1>1, <2>4, <2>6, <2>7 DEF TypeOK
<1>6. CASE SetPin(f, i, c)
    BY <1>1, <1>6 DEF SetPin, TypeOK, Entry
<1> QED
    BY <1>3, <1>4, <1>5, <1>6 DEF Body

(* A call that starts keeps the types. *)
LEMMA StartType ==
    ASSUME TypeOK, NEW f \in Fibers, NEW phase \in {"read", "check"}, NEW address, NEW len,
           NEW data \in Data, Busy, Start(f, phase, address, len, data)
    PROVE  op' \in [Fibers -> Op] /\ Busy'
<1> DEFINE span == Span(address, len)
           new  == [phase |-> phase, cells |-> span, data |-> data,
                    todo |-> {b \in Block : span[b] # {}}, slot |-> 0]
<1>1. span \in [Block -> SUBSET Cell]
    BY DEF Span
<1>2. new \in Op
    BY <1>1, SizesAssumption DEF Op
<1>3. op' = [op EXCEPT ![f] = new]
    BY DEF Start
<1> QED
    BY <1>2, <1>3 DEF TypeOK, Busy

(* The data of a write is typed. *)
LEMMA DataType ==
    ASSUME NEW address \in Nat, NEW len \in Nat, NEW bytes \in [0 .. len - 1 -> Byte]
    PROVE  [b \in Block |-> [c \in Cell |->
             IF c \in Span(address, len)[b] THEN bytes[b * BlockSize + c - address] ELSE Bit]] \in Data
<1> SUFFICES ASSUME NEW b \in Block, NEW c \in Cell, c \in Span(address, len)[b]
             PROVE  bytes[b * BlockSize + c - address] \in Byte
    BY DEF Data, Page, Byte
<1>1. b * BlockSize + c \in address .. address + len - 1
    BY DEF Span
<1>2. b * BlockSize + c - address \in 0 .. len - 1
    BY <1>1, SizesAssumption DEF Block, Cell
<1> QED
    BY <1>2

(* Every step keeps the types. *)
LEMMA TypeStep ==
    ASSUME TypeOK, Busy, [Next]_vars
    PROVE  TypeOK' /\ Busy'
<1>t. \A n \in {1, 2} : Tick(n) \in Count
    BY TickCount DEF TypeOK
<1>0. 0 \in Count
    BY SizesAssumption DEF Count
<1>1. ASSUME NEW f \in Fibers, StartRead(f) PROVE TypeOK' /\ Busy'
    <2>1. PICK address \in 0 .. NumBlocks * BlockSize, len \in 1 .. MaxLen :
             Start(f, "read", address, len, Idle.data)
        BY <1>1 DEF StartRead
    <2>2. Idle.data \in Data
        BY DEF Idle, Data, Page, Byte, Erased
    <2> QED
        BY <2>1, <2>2, StartType DEF Start, TypeOK
<1>2. ASSUME NEW f \in Fibers, StartWrite(f) PROVE TypeOK' /\ Busy'
    <2>1. PICK address \in 0 .. NumBlocks * BlockSize, len \in 1 .. MaxLen :
            \E bytes \in [0 .. len - 1 -> Byte] :
              Start(f, "check", address, len,
                    [b \in Block |-> [c \in Cell |->
                       IF c \in Span(address, len)[b] THEN bytes[b * BlockSize + c - address] ELSE Bit]])
        BY <1>2 DEF StartWrite
    <2>2. PICK bytes \in [0 .. len - 1 -> Byte] :
              Start(f, "check", address, len,
                    [b \in Block |-> [c \in Cell |->
                       IF c \in Span(address, len)[b] THEN bytes[b * BlockSize + c - address] ELSE Bit]])
        BY <2>1
    <2>3. address \in Nat /\ len \in Nat
        BY SizesAssumption
    <2>4. op' \in [Fibers -> Op] /\ Busy'
        BY <2>2, <2>3, DataType, StartType
    <2> QED
        BY <2>2, <2>4 DEF Start, TypeOK
<1>3. ASSUME NEW f \in Fibers, StartPin(f) PROVE TypeOK' /\ Busy'
    <2>1. PICK b \in Block : op' = [op EXCEPT ![f] = [Idle EXCEPT !.phase = "pin", !.todo = {b}]]
        BY <1>3 DEF StartPin
    <2>2. [Idle EXCEPT !.phase = "pin", !.todo = {b}] \in Op
        BY IdleType DEF Op
    <2>3. op' \in [Fibers -> Op]
        BY <2>1, <2>2 DEF TypeOK
    <2>4. Busy'
        BY <2>1, IdleType DEF Busy, TypeOK, Op
    <2> QED
        BY <1>3, <2>3, <2>4 DEF StartPin, TypeOK
<1>4. ASSUME NEW f \in Fibers, Hit(f) PROVE TypeOK' /\ Busy'
    <2> DEFINE i == First(Holding(NextBlock(f)))
               c == [cache EXCEPT ![i].lastUsed = Tick(1)]
    <2>1. i \in Slot
        BY <1>4, HoldingType DEF Hit
    <2>2. c \in [Slot -> Entry]
        BY <2>1, <1>t DEF TypeOK, Entry
    <2>3. Body(f, i, c) /\ operationCount' = Tick(1) /\ op[f].todo # {}
        BY <1>4 DEF Hit
    <2>4. TypeOK'
        BY <2>1, <2>2, <2>3, <1>t, BodyType DEF TypeOK
    <2>5. PICK next \in Op : op' = [op EXCEPT ![f] = next] /\ next.slot = 0
        BY <2>1, <2>2, <2>3, BodyType
    <2> QED
        BY <2>4, <2>5 DEF Busy, TypeOK
<1>5. ASSUME NEW f \in Fibers, Miss(f) PROVE TypeOK' /\ Busy'
    <2>1. NextBlock(f) \in Block /\ Victim \in Slot
        BY <1>5, NextBlockType, VictimType DEF Miss
    <2>2. cache' \in [Slot -> Entry]
        BY <1>5, <1>t, <2>1 DEF Miss, TypeOK, Entry
    <2>3. op' = [op EXCEPT ![f] = [op[f] EXCEPT !.slot = Victim]]
        BY <1>5 DEF Miss
    <2>4. op[f] \in Op /\ [op[f] EXCEPT !.slot = Victim] \in Op
        <3>1. op[f] \in Op /\ Victim \in 0 .. CacheSize
            BY <2>1, SizesAssumption DEF TypeOK, Slot
        <3> QED
            BY <3>1 DEF Op
    <2>5. op' \in [Fibers -> Op]
        BY <2>3, <2>4 DEF TypeOK
    <2>6. Busy'
        BY <1>5, <2>3, <2>4 DEF Miss, Busy, TypeOK, Op
    <2> QED
        BY <1>5, <1>t, <2>2, <2>5, <2>6 DEF Miss, TypeOK
<1>6. ASSUME NEW f \in Fibers, Fill(f) PROVE TypeOK' /\ Busy'
    <2> DEFINE i == op[f].slot
               c == [cache EXCEPT ![i].page = flash[NextBlock(f)]]
    <2>1. op[f].todo # {} /\ i \in Slot
        BY <1>6, SizesAssumption DEF Fill, Busy, TypeOK, Op, Slot
    <2>2. c \in [Slot -> Entry] /\ cache \in [Slot -> Entry]
        BY <2>1, NextBlockType DEF TypeOK, Entry
    <2>3. (Body(f, i, c) \/ Body(f, i, cache)) /\ operationCount' = operationCount
        BY <1>6 DEF Fill
    <2>4. TypeOK'
        BY <2>1, <2>2, <2>3, BodyType DEF TypeOK
    <2>5. PICK next \in Op : op' = [op EXCEPT ![f] = next] /\ next.slot = 0
        BY <2>1, <2>2, <2>3, BodyType
    <2> QED
        BY <2>4, <2>5 DEF Busy, TypeOK
<1>7. ASSUME NEW f \in Fibers, Clear(f) PROVE TypeOK' /\ Busy'
    BY <1>7, <1>0, EmptyType DEF Clear, TypeOK, Busy
<1>8. ASSUME NEW f \in Fibers, NEW b \in Block, Unpin(f, b) PROVE TypeOK' /\ Busy'
    <2>1. First(Holding(b)) \in Slot
        BY <1>8, HoldingType DEF Unpin
    <2>2. cache' \in [Slot -> Entry]
        BY <1>8, <1>t, <2>1 DEF Unpin, TypeOK, Entry
    <2> QED
        BY <1>8, <1>t, <2>2 DEF Unpin, TypeOK, Busy
<1>9. ASSUME NEW f \in Fibers, NEW b \in Block, Erase(f, b) PROVE TypeOK' /\ Busy'
    <2>1. Erased \in Page
        BY DEF Erased, Page, Byte
    <2>2. cache' \in [Slot -> Entry] /\ operationCount' \in Count
        <3>1. CASE Holding(b) = {}
            BY <1>9, <3>1 DEF Erase, TypeOK
        <3>2. CASE Holding(b) # {}
            BY <1>9, <1>t, <2>1, <3>2, HoldingType DEF Erase, TypeOK, Entry
        <3> QED
            BY <3>1, <3>2
    <2>3. flash' \in [Block -> Page]
        BY <1>9, <2>1 DEF Erase, TypeOK
    <2> QED
        BY <1>9, <2>2, <2>3 DEF Erase, TypeOK, Busy
<1>10. CASE Restart
    BY <1>10, <1>0, EmptyType, IdleType DEF Restart, TypeOK, Busy
<1>11. CASE UNCHANGED vars
    BY <1>11 DEF vars, TypeOK, Busy
<1> QED
    BY <1>1, <1>2, <1>3, <1>4, <1>5, <1>6, <1>7, <1>8, <1>9, <1>10, <1>11 DEF Next

(* The cache's state stays in its types, whatever its callers do and whether  *)
(* or not they hold a lock and the flash fails.                               *)
THEOREM TypeCorrect == Spec => []TypeOK
<1>1. Init => TypeOK /\ Busy
    BY EmptyType, IdleType, SizesAssumption DEF Init, TypeOK, Count, Busy
<1>2. TypeOK /\ Busy /\ [Next]_vars => TypeOK' /\ Busy'
    BY TypeStep
<1> QED
    BY <1>1, <1>2, PTL DEF Spec
-----------------------------------------------------------------------------
(* Safety, for callers that hold a lock and a flash that answers.  Coherent   *)
(* is not inductive: a write keeps cache and flash equal only because its     *)
(* bytes were validated, and a load ends well only because the entry still    *)
(* belongs to the block that was asked for.                                   *)

(* One call at a time. *)
Alone == \A f, g \in Fibers : op[f] # Idle /\ op[g] # Idle => f = g

(* The entry a fiber loads stays the entry of its block. *)
Loads == \A f \in Fibers :
            op[f].slot # 0 => /\ cache[op[f].slot].loaded
                              /\ cache[op[f].slot].address = NextBlock(f)

Legal(f, b) == \A x \in op[f].cells[b] : op[f].data[b][x] \subseteq flash[b][x]

(* The blocks that the validation has passed can be programmed, and in the    *)
(* writing loop all that are left.                                            *)
Checked == \A f \in Fibers :
              /\ op[f].phase = "check" => \A b \in Touched(f) \ op[f].todo : Legal(f, b)
              /\ op[f].phase = "write" => \A b \in op[f].todo : Legal(f, b)

CacheInv == TypeOK /\ Busy /\ OneCopy /\ Coherent /\ Alone /\ Loads /\ Checked

(* The entry that an iteration works on holds its block, as the flash does. *)
Ready(f, i, c) ==
    /\ c[i].loaded /\ c[i].address = NextBlock(f) /\ c[i].page = flash[NextBlock(f)]
    /\ \A j \in Slot : c[j].loaded = cache[j].loaded /\ c[j].address = cache[j].address
    /\ \A j \in Slot \ {i} : c[j].page = cache[j].page
    /\ op[f].slot \in {0, i}

(* Where a call moves on to: the next block, the second pass of a write, or its end. *)
LEMMA AdvanceCases ==
    ASSUME TypeOK, NEW f \in Fibers
    PROVE  /\ op[f].todo \ {NextBlock(f)} # {}
              => /\ Advance(f).phase = op[f].phase /\ Advance(f).todo = op[f].todo \ {NextBlock(f)}
                 /\ Advance(f).cells = op[f].cells /\ Advance(f).data = op[f].data
           /\ op[f].todo \ {NextBlock(f)} = {} /\ op[f].phase = "check"
              => /\ Advance(f).phase = "write" /\ Advance(f).todo = Touched(f)
                 /\ Advance(f).cells = op[f].cells /\ Advance(f).data = op[f].data
           /\ op[f].todo \ {NextBlock(f)} = {} /\ op[f].phase # "check" => Advance(f) = Idle
<1>1. op[f] \in Op
    BY DEF TypeOK
<1>2. Touched(f) \in SUBSET Block
    BY DEF Touched
<1> QED
    BY <1>1, <1>2 DEF Advance, Op

(* An iteration that has its block's current page keeps the invariant. *)
LEMMA BodySafe ==
    ASSUME CacheInv, ~FlashFails, NEW f \in Fibers, op[f].todo # {},
           NEW i \in Slot, NEW c \in [Slot -> Entry], Ready(f, i, c), Body(f, i, c)
    PROVE  OneCopy' /\ Coherent' /\ Alone' /\ Loads' /\ Checked'
<1> DEFINE b    == NextBlock(f)
           rest == op[f].todo \ {b}
<1> USE DEF CacheInv
<1>1. b \in op[f].todo /\ b \in Block
    BY NextBlockType
<1>2. op[f] # Idle /\ \A g \in Fibers \ {f} : op[g] = Idle
    BY <1>1, IdleType DEF Alone
<1>3. \A j \in Slot \ {i} : ~Loading(j)
    BY <1>2, IdleType, SizesAssumption DEF Ready, Loading, Slot
<1>4. \A j \in Slot \ {i} : c[j].loaded => c[j].address # b /\ c[j].page = flash[c[j].address]
    BY <1>3 DEF Ready, OneCopy, Coherent
<1>5. PICK next \in Op : op' = [op EXCEPT ![f] = next] /\ next.slot = 0
    BY BodyType
<1>6. \A g \in Fibers \ {f} : op'[g] = Idle
    BY <1>2, <1>5 DEF TypeOK
<1>7. \A g \in Fibers : op'[g].slot = 0
    BY <1>5, <1>6, IdleType DEF TypeOK
<1>8. Alone' /\ Loads'
    BY <1>6, <1>7 DEF Alone, Loads
<1>9. \A j \in Slot : ~Loading(j)'
    BY <1>7, SizesAssumption DEF Loading, Slot
<1>10. op[f] \in Op
    BY DEF TypeOK
<1>11. ASSUME ~(op'[f].phase \in {"check", "write"}) PROVE Checked'
    BY <1>6, <1>11, IdleType DEF Checked
<1>12. ASSUME cache' = c, flash' = flash PROVE OneCopy' /\ Coherent'
    <2>1. OneCopy'
        BY <1>12 DEF Ready, OneCopy
    <2>2. Coherent'
        BY <1>4, <1>12 DEF Ready, Coherent
    <2> QED
        BY <2>1, <2>2
<1>13. CASE ReadOut(f, i, c)
    <2>1. op'[f] = Advance(f) /\ op[f].phase = "read"
        BY <1>13 DEF ReadOut, TypeOK
    <2>2. ~(op'[f].phase \in {"check", "write"})
        BY <1>10, <2>1, AdvanceCases, IdleType DEF Op
    <2> QED
        BY <1>8, <1>11, <1>12, <1>13, <2>2 DEF ReadOut
<1>14. CASE Check(f, i, c)
    <2>1. cache' = c /\ flash' = flash /\ op[f].phase = "check"
        BY <1>14 DEF Check
    <2>2. CASE op' = [op EXCEPT ![f] = Idle]
        BY <1>8, <1>11, <1>12, <2>1, <2>2, IdleType DEF TypeOK
    <2>3. CASE /\ op' = [op EXCEPT ![f] = Advance(f)]
               /\ \A x \in op[f].cells[b] : op[f].data[b][x] \subseteq c[i].page[x]
        <3>1. Legal(f, b)
            BY <2>3 DEF Ready, Legal
        <3>2. \A d \in Touched(f) \ rest : Legal(f, d)
            BY <2>1, <3>1 DEF Checked
        <3>3. op'[f] = Advance(f)
            BY <2>3 DEF TypeOK
        <3>4. op'[f].cells = op[f].cells /\ op'[f].data = op[f].data
            BY <1>10, <2>1, <3>3, AdvanceCases DEF Op
        <3>5. Touched(f)' = Touched(f) /\ \A d \in Block : Legal(f, d) => Legal(f, d)'
            BY <2>1, <3>4 DEF Touched, Legal
        <3>6. CASE rest # {}
            <4>1. op'[f].phase = "check" /\ op'[f].todo = rest
                BY <1>10, <2>1, <3>3, <3>6, AdvanceCases DEF Op
            <4> QED
                BY <1>6, <1>8, <1>12, <2>1, <3>2, <3>5, <4>1, IdleType DEF Checked, Touched
        <3>7. CASE rest = {}
            <4>1. op'[f].phase = "write" /\ op'[f].todo = Touched(f)
                BY <1>10, <2>1, <3>3, <3>7, AdvanceCases DEF Op
            <4> QED
                BY <1>6, <1>8, <1>12, <2>1, <3>2, <3>5, <3>7, <4>1, IdleType DEF Checked, Touched
        <3> QED
            BY <3>6, <3>7
    <2> QED
        BY <1>14, <2>2, <2>3 DEF Check
<1>15. CASE WriteThrough(f, i, c)
    <2> DEFINE pg == [x \in Cell |-> IF x \in op[f].cells[b] THEN op[f].data[b][x] ELSE c[i].page[x]]
               fl == [x \in Cell |-> IF x \in Aligned(op[f].cells[b]) THEN flash[b][x] \cap pg[x] ELSE flash[b][x]]
    <2>1. /\ op[f].phase = "write"
          /\ cache' = [c EXCEPT ![i].page = pg]
          /\ flash' = [flash EXCEPT ![b] = fl]
          /\ op' = [op EXCEPT ![f] = Advance(f)]
        BY <1>15 DEF WriteThrough
    <2>2. Legal(f, b)
        BY <1>1, <2>1 DEF Checked
    <2>3. op[f].cells[b] \subseteq Aligned(op[f].cells[b])
        BY <1>1, <1>10 DEF Aligned, Op
    <2>4. c[i].page = flash[b] /\ flash[b] \in Page
        BY <1>1 DEF Ready, TypeOK
    <2>5. ASSUME NEW x \in Cell PROVE fl[x] = pg[x]
        <3>1. CASE x \in op[f].cells[b]
            BY <2>2, <2>3, <3>1 DEF Legal
        <3>2. CASE x \notin op[f].cells[b]
            BY <2>4, <3>2
        <3> QED
            BY <3>1, <3>2
    <2>6. fl = pg
        BY <2>5
    <2>7. \A j \in Slot : cache'[j].loaded = cache[j].loaded /\ cache'[j].address = cache[j].address
        BY <2>1 DEF Ready, Entry
    <2>8. OneCopy'
        BY <2>7 DEF OneCopy
    <2>9. cache'[i].address = b /\ cache'[i].page = flash'[b]
        <3>1. flash'[b] = fl
            BY <1>1, <2>1 DEF TypeOK
        <3> HIDE DEF fl, pg
        <3>2. cache'[i].address = b /\ cache'[i].page = pg
            BY <1>1, <2>1 DEF Ready, Entry
        <3> QED
            BY <2>6, <3>1, <3>2
    <2>10. \A j \in Slot \ {i} : cache'[j] = c[j]
        BY <2>1
    <2>11. \A d \in Block \ {b} : flash'[d] = flash[d]
        BY <2>1 DEF TypeOK
    <2>12. \A j \in Slot : c[j].address \in Block
        BY DEF Entry
    <2>13. Coherent'
        BY <1>4, <2>9, <2>10, <2>11, <2>12 DEF Coherent
    <2>14. op'[f] = Advance(f)
        BY <2>1 DEF TypeOK
    <2>15. CASE rest = {}
        BY <1>8, <1>11, <2>1, <2>8, <2>13, <2>14, <2>15, AdvanceCases, IdleType
    <2>16. CASE rest # {}
        <3>1. /\ op'[f].phase = "write" /\ op'[f].todo = rest
              /\ op'[f].cells = op[f].cells /\ op'[f].data = op[f].data
            BY <1>10, <2>1, <2>14, <2>16, AdvanceCases DEF Op
        <3>2. \A d \in rest : Legal(f, d)'
            BY <1>10, <2>1, <2>11, <3>1 DEF Checked, Legal, Op
        <3> QED
            BY <1>6, <1>8, <2>8, <2>13, <3>1, <3>2, IdleType DEF Checked
    <2> QED
        BY <2>15, <2>16
<1>16. CASE SetPin(f, i, c)
    <2>1. cache' = [c EXCEPT ![i].pinned = TRUE] /\ flash' = flash /\ op'[f] = Idle
        BY <1>16 DEF SetPin, TypeOK
    <2>2. \A j \in Slot : /\ cache'[j].loaded = c[j].loaded /\ cache'[j].address = c[j].address
                          /\ cache'[j].page = c[j].page
        BY <2>1 DEF Entry
    <2>3. OneCopy' /\ Coherent'
        BY <1>4, <2>1, <2>2 DEF OneCopy, Coherent, Ready
    <2> QED
        BY <1>8, <1>11, <2>1, <2>3, IdleType
<1> QED
    BY <1>13, <1>14, <1>15, <1>16 DEF Body

(* A call that starts: nothing is loading, and nothing has been validated. *)
LEMMA StartSafe ==
    ASSUME CacheInv, Serialised, NEW f \in Fibers, NEW new \in Op, MayStart(f),
           op' = [op EXCEPT ![f] = new], new.slot = 0, new.phase # "write",
           new.phase = "check" => new.todo = {b \in Block : new.cells[b] # {}},
           UNCHANGED <<flash, cache>>
    PROVE  OneCopy' /\ Coherent' /\ Alone' /\ Loads' /\ Checked'
<1> USE DEF CacheInv
<1>1. \A g \in Fibers : op[g] = Idle
    BY DEF MayStart, Quiet
<1>2. \A g \in Fibers \ {f} : op'[g] = Idle
    BY <1>1 DEF TypeOK
<1>3. \A g \in Fibers : op'[g].slot = 0 /\ op[g].slot = 0
    BY <1>1, <1>2, IdleType DEF TypeOK
<1>4. \A j \in Slot : ~Loading(j)
    BY <1>3, SizesAssumption DEF Loading, Slot
<1>5. OneCopy' /\ Coherent'
    BY <1>4 DEF OneCopy, Coherent
<1>6. Alone' /\ Loads'
    BY <1>2, <1>3 DEF Alone, Loads
<1>7. op'[f] = new
    BY DEF TypeOK
<1>8. Checked'
    BY <1>2, <1>7, IdleType DEF Checked, Touched
<1> QED
    BY <1>5, <1>6, <1>8

(* An operation on the cache between calls. *)
LEMMA QuietSafe ==
    ASSUME CacheInv, Serialised, NEW f \in Fibers, MayStart(f), UNCHANGED op
    PROVE  /\ Alone' /\ Loads' /\ Checked'
           /\ \A j \in Slot : ~Loading(j) /\ (cache[j].loaded => cache[j].page = flash[cache[j].address])
<1> USE DEF CacheInv
<1>1. \A g \in Fibers : op[g] = Idle
    BY DEF MayStart, Quiet
<1>2. \A g \in Fibers : op[g].slot = 0 /\ op[g].phase = "idle"
    BY <1>1, IdleType
<1>3. Alone' /\ Loads' /\ Checked'
    BY <1>1, <1>2 DEF Alone, Loads, Checked
<1>4. \A j \in Slot : ~Loading(j)
    BY <1>2, SizesAssumption DEF Loading, Slot
<1> QED
    BY <1>3, <1>4 DEF Coherent

(* An iteration that goes on, with a hit or with the answer of the flash, has *)
(* its block's current page in its slot.                                      *)
LEMMA IterationReady ==
    ASSUME CacheInv, ~FlashFails, NEW f \in Fibers, Hit(f) \/ Fill(f)
    PROVE  /\ op[f].todo # {}
           /\ \E i \in Slot, c \in [Slot -> Entry] : Ready(f, i, c) /\ Body(f, i, c)
<1> USE DEF CacheInv
<1>1. CASE Hit(f)
    <2> DEFINE i == First(Holding(NextBlock(f)))
               c == [cache EXCEPT ![i].lastUsed = Tick(1)]
    <2>1. Body(f, i, c) /\ op[f].todo # {} /\ op[f].slot = 0
        BY <1>1 DEF Hit
    <2>2. i \in Slot /\ cache[i].loaded /\ cache[i].address = NextBlock(f)
        BY <1>1, HoldingType DEF Hit, Holding
    <2>3. Tick(1) \in Count
        BY TickCount DEF TypeOK
    <2>4. c \in [Slot -> Entry]
        BY <2>2, <2>3 DEF TypeOK, Entry
    <2>5. op[f] # Idle
        BY <2>1, IdleType
    <2>6. \A g \in Fibers \ {f} : op[g] = Idle
        BY <2>5 DEF Alone
    <2>7. ~Loading(i)
        BY <2>1, <2>2, <2>6, IdleType, SizesAssumption DEF Loading, Slot
    <2>8. cache[i].page = flash[NextBlock(f)]
        BY <2>2, <2>7 DEF Coherent
    <2>9. \A j \in Slot : /\ c[j].loaded = cache[j].loaded /\ c[j].address = cache[j].address
                          /\ c[j].page = cache[j].page
        BY <2>2 DEF TypeOK, Entry
    <2>10. Ready(f, i, c)
        BY <2>1, <2>2, <2>8, <2>9 DEF Ready
    <2> QED
        BY <2>1, <2>2, <2>4, <2>10
<1>2. CASE Fill(f)
    <2> DEFINE i == op[f].slot
               c == [cache EXCEPT ![i].page = flash[NextBlock(f)]]
    <2>1. i # 0 /\ op[f].todo # {} /\ i \in Slot /\ Body(f, i, c)
        BY <1>2, SizesAssumption DEF Fill, Busy, TypeOK, Op, Slot
    <2>2. flash[NextBlock(f)] \in Page
        BY <2>1, NextBlockType DEF TypeOK
    <2>3. c \in [Slot -> Entry]
        BY <2>1, <2>2 DEF TypeOK, Entry
    <2>4. cache[i].loaded /\ cache[i].address = NextBlock(f)
        BY <2>1 DEF Loads
    <2>5. Ready(f, i, c)
        BY <2>1, <2>4 DEF Ready, TypeOK, Entry
    <2> QED
        BY <2>1, <2>3, <2>5
<1> QED
    BY <1>1, <1>2

(* Every step keeps the invariant, when the callers hold a lock and the flash answers. *)
LEMMA CacheStep ==
    ASSUME CacheInv, Serialised, ~FlashFails, [Next]_vars
    PROVE  CacheInv'
<1> USE DEF CacheInv
<1>t. TypeOK' /\ Busy'
    BY TypeStep
<1> SUFFICES OneCopy' /\ Coherent' /\ Alone' /\ Loads' /\ Checked'
    BY <1>t
<1>1. ASSUME NEW f \in Fibers, NEW phase \in {"read", "check"}, NEW address, NEW len, NEW data,
             Start(f, phase, address, len, data)
      PROVE  OneCopy' /\ Coherent' /\ Alone' /\ Loads' /\ Checked'
    <2> DEFINE span == Span(address, len)
               new  == [phase |-> phase, cells |-> span, data |-> data,
                        todo |-> {b \in Block : span[b] # {}}, slot |-> 0]
    <2>1. op' = [op EXCEPT ![f] = new] /\ MayStart(f) /\ UNCHANGED <<flash, cache>>
        BY <1>1 DEF Start
    <2>2. new \in Op
        BY <1>t, <2>1 DEF TypeOK
    <2>3. new.slot = 0 /\ new.phase # "write" /\ new.todo = {b \in Block : new.cells[b] # {}}
        OBVIOUS
    <2> QED
        BY <2>1, <2>2, <2>3, StartSafe
<1>2. ASSUME NEW f \in Fibers, StartRead(f) \/ StartWrite(f)
      PROVE  OneCopy' /\ Coherent' /\ Alone' /\ Loads' /\ Checked'
    BY <1>1, <1>2 DEF StartRead, StartWrite
<1>3. ASSUME NEW f \in Fibers, StartPin(f)
      PROVE  OneCopy' /\ Coherent' /\ Alone' /\ Loads' /\ Checked'
    <2>1. PICK b \in Block : op' = [op EXCEPT ![f] = [Idle EXCEPT !.phase = "pin", !.todo = {b}]]
        BY <1>3 DEF StartPin
    <2> DEFINE new == [Idle EXCEPT !.phase = "pin", !.todo = {b}]
    <2>2. new \in Op /\ new.slot = 0 /\ new.phase = "pin"
        BY IdleType DEF Op
    <2> QED
        BY <1>3, <2>1, <2>2, StartSafe DEF StartPin
<1>4. ASSUME NEW f \in Fibers, Hit(f) \/ Fill(f)
      PROVE  OneCopy' /\ Coherent' /\ Alone' /\ Loads' /\ Checked'
    BY <1>4, IterationReady, BodySafe
<1>5. ASSUME NEW f \in Fibers, Miss(f)
      PROVE  OneCopy' /\ Coherent' /\ Alone' /\ Loads' /\ Checked'
    <2> DEFINE i == Victim
               b == NextBlock(f)
    <2>1. i \in Slot /\ b \in Block
        BY <1>5, NextBlockType, VictimType DEF Miss
    <2>2. Holding(b) = {} /\ op[f].todo # {} /\ flash' = flash
        BY <1>5 DEF Miss
    <2>3. op' = [op EXCEPT ![f] = [op[f] EXCEPT !.slot = i]] /\ op[f] \in Op
        BY <1>5 DEF Miss, TypeOK
    <2>4. /\ cache'[i].loaded /\ cache'[i].address = b
          /\ \A j \in Slot \ {i} : cache'[j] = cache[j]
        BY <1>5, <2>1 DEF Miss, TypeOK, Entry
    <2>5. OneCopy'
        BY <2>2, <2>4 DEF OneCopy, Holding
    <2>6. op[f] # Idle
        BY <2>2, IdleType
    <2>7. \A g \in Fibers \ {f} : op[g] = Idle /\ op'[g] = Idle
        BY <2>3, <2>6 DEF Alone, TypeOK
    <2>8. /\ op'[f].slot = i /\ op'[f].todo = op[f].todo /\ op'[f].phase = op[f].phase
          /\ op'[f].cells = op[f].cells /\ op'[f].data = op[f].data
        BY <2>3 DEF TypeOK, Op
    <2>9. Alone'
        BY <2>7 DEF Alone
    <2>10. Loads'
        BY <2>4, <2>7, <2>8, IdleType DEF Loads, NextBlock
    <2>11. \A j \in Slot \ {i} : ~Loading(j)
        BY <1>5, <2>7, IdleType, SizesAssumption DEF Miss, Loading, Slot
    <2>12. Coherent'
        <3> SUFFICES ASSUME NEW j \in Slot, cache'[j].loaded, \A g \in Fibers : op'[g].slot # j
                     PROVE  cache'[j].page = flash'[cache'[j].address]
            BY DEF Coherent, Loading
        <3>1. j # i
            BY <2>8
        <3> QED
            BY <2>2, <2>4, <2>11, <3>1 DEF Coherent
    <2>13. Checked'
        BY <2>2, <2>7, <2>8, IdleType DEF Checked, Touched, Legal
    <2> QED
        BY <2>5, <2>9, <2>10, <2>12, <2>13
<1>7. ASSUME NEW f \in Fibers, Clear(f)
      PROVE  OneCopy' /\ Coherent' /\ Alone' /\ Loads' /\ Checked'
    <2>1. \A j \in Slot : ~cache'[j].loaded
        BY <1>7 DEF Clear, Empty
    <2> QED
        BY <1>7, <2>1, QuietSafe DEF Clear, OneCopy, Coherent
<1>8. ASSUME NEW f \in Fibers, NEW b \in Block, Unpin(f, b)
      PROVE  OneCopy' /\ Coherent' /\ Alone' /\ Loads' /\ Checked'
    <2>1. \A j \in Slot : /\ cache'[j].loaded = cache[j].loaded /\ cache'[j].address = cache[j].address
                          /\ cache'[j].page = cache[j].page
        BY <1>8, HoldingType DEF Unpin, TypeOK, Entry
    <2>2. UNCHANGED <<flash, op>> /\ MayStart(f)
        BY <1>8 DEF Unpin
    <2>3. /\ Alone' /\ Loads' /\ Checked'
          /\ \A j \in Slot : cache[j].loaded => cache[j].page = flash[cache[j].address]
        BY <2>2, QuietSafe
    <2>4. OneCopy'
        BY <2>1 DEF OneCopy
    <2>5. Coherent'
        BY <2>1, <2>2, <2>3 DEF Coherent
    <2> QED
        BY <2>3, <2>4, <2>5
<1>9. ASSUME NEW f \in Fibers, NEW b \in Block, Erase(f, b)
      PROVE  OneCopy' /\ Coherent' /\ Alone' /\ Loads' /\ Checked'
    <2>1. MayStart(f) /\ UNCHANGED op /\ \A d \in PageOf(b) \ {b} : Holding(d) = {}
        BY <1>9 DEF Erase
    <2>2. \A d \in Block : flash'[d] = IF d \in PageOf(b) THEN Erased ELSE flash[d]
        BY <1>9 DEF Erase
    <2>3. \A j \in Slot : /\ cache'[j].loaded = cache[j].loaded /\ cache'[j].address = cache[j].address
                          /\ cache[j].address \in Block
                          /\ cache'[j].page = IF j \in Holding(b) THEN Erased ELSE cache[j].page
        <3>1. CASE Holding(b) = {}
            BY <1>9, <3>1 DEF Erase, TypeOK, Entry
        <3>2. CASE Holding(b) # {}
            <4> DEFINE i == First(Holding(b))
            <4>1. i \in Holding(b) /\ i \in Slot
                BY <3>2, HoldingType
            <4>2. Holding(b) = {i}
                BY <4>1 DEF Holding, OneCopy
            <4>3. cache' = [cache EXCEPT ![i].page = Erased, ![i].lastUsed = Tick(2)]
                BY <1>9, <3>2 DEF Erase
            <4> QED
                BY <4>1, <4>2, <4>3 DEF TypeOK, Entry
        <3> QED
            BY <3>1, <3>2
    <2>4. b \in PageOf(b)
        BY DEF PageOf
    <2>5. Coherent'
        <3> SUFFICES ASSUME NEW j \in Slot, cache[j].loaded
                     PROVE  cache'[j].page = flash'[cache[j].address]
            BY <2>3 DEF Coherent
        <3>1. cache[j].page = flash[cache[j].address]
            BY <2>1, QuietSafe
        <3>2. j \in Holding(cache[j].address)
            BY DEF Holding
        <3>3. CASE cache[j].address = b
            BY <2>2, <2>3, <2>4, <3>2, <3>3
        <3>4. CASE cache[j].address # b
            <4>1. cache[j].address \notin PageOf(b) /\ j \notin Holding(b)
                BY <2>1, <3>2, <3>4 DEF Holding
            <4> QED
                BY <2>2, <2>3, <3>1, <4>1
        <3> QED
            BY <3>3, <3>4
    <2>6. OneCopy'
        BY <2>3 DEF OneCopy
    <2> QED
        BY <2>1, <2>5, <2>6, QuietSafe
<1>10. ASSUME Restart
       PROVE  OneCopy' /\ Coherent' /\ Alone' /\ Loads' /\ Checked'
    <2>1. \A j \in Slot : ~cache'[j].loaded
        BY <1>10 DEF Restart, Empty
    <2>2. \A g \in Fibers : op'[g] = Idle
        BY <1>10 DEF Restart
    <2> QED
        BY <2>1, <2>2, IdleType DEF OneCopy, Coherent, Alone, Loads, Checked
<1>11. ASSUME UNCHANGED vars
       PROVE  OneCopy' /\ Coherent' /\ Alone' /\ Loads' /\ Checked'
    BY <1>11 DEF vars, OneCopy, Coherent, Alone, Loads, Checked, Loading, NextBlock, Touched, Legal
<1> QED
    BY <1>2, <1>3, <1>4, <1>5, <1>7, <1>8, <1>9, <1>10, <1>11 DEF Next

(* The invariant holds of a cache that was just constructed. *)
LEMMA CacheInit == Init => CacheInv
<1> SUFFICES ASSUME Init PROVE CacheInv
    OBVIOUS
<1>1. TypeOK
    BY EmptyType, IdleType, SizesAssumption DEF Init, TypeOK, Count
<1>2. (\A j \in Slot : ~cache[j].loaded) /\ \A g \in Fibers : op[g] = Idle
    BY DEF Init, Empty
<1> QED
    BY <1>1, <1>2, IdleType DEF CacheInv, Busy, OneCopy, Coherent, Alone, Loads, Checked

(* The inductive invariant of the cache: coherence, one copy of a block, one call at a *)
(* time, loads that still own their entry, and writes that only program validated bytes. *)
THEOREM CacheInvariant == Serialised /\ ~FlashFails => (Spec => []CacheInv)
<1> SUFFICES ASSUME Serialised, ~FlashFails PROVE Spec => []CacheInv
    OBVIOUS
<1>1. Init => CacheInv
    BY CacheInit
<1>2. CacheInv /\ [Next]_vars => CacheInv'
    BY CacheStep
<1> QED
    BY <1>1, <1>2, PTL DEF Spec

(* A page that is not being loaded is what the flash holds, so that evicting  *)
(* an entry loses nothing, for any storage, cache and clock: the callers hold *)
(* a lock and the flash answers.                                              *)
THEOREM CacheCoherent == Serialised /\ ~FlashFails => (Spec => []Coherent)
<1>1. CacheInv => Coherent
    BY DEF CacheInv
<1> QED
    BY <1>1, CacheInvariant, PTL

(* No block has two entries. *)
THEOREM CacheOneCopy == Serialised /\ ~FlashFails => (Spec => []OneCopy)
<1>1. CacheInv => OneCopy
    BY DEF CacheInv
<1> QED
    BY <1>1, CacheInvariant, PTL
-----------------------------------------------------------------------------
(* FSCache implements NVStore: the safety part of ImplementsStore.  The    *)
(* mapping forgets cache, clock and validation; a call in its validating   *)
(* loop is a write that has not written yet.                               *)

(* A read or write has only blocks of its own range left. *)
Wanted == \A f \in Fibers :
             op[f].phase \in {"read", "check", "write"} => op[f].todo \subseteq Touched(f)

(* Every step keeps Wanted. *)
LEMMA WantedStep ==
    ASSUME CacheInv, Wanted, [Next]_vars
    PROVE  Wanted'
<1> USE DEF CacheInv
<1>1. ASSUME NEW f \in Fibers, NEW new \in Op, op' = [op EXCEPT ![f] = new],
             new.phase \in {"read", "check", "write"} => new.todo \subseteq {b \in Block : new.cells[b] # {}}
      PROVE  Wanted'
    BY <1>1 DEF Wanted, Touched, TypeOK
<1>2. ASSUME UNCHANGED op PROVE Wanted'
    BY <1>2 DEF Wanted, Touched
<1>3. ASSUME NEW f \in Fibers, NEW i \in Slot, NEW c, Body(f, i, c) PROVE Wanted'
    <2>1. PICK new \in {Advance(f), Idle} : op' = [op EXCEPT ![f] = new]
        BY <1>3 DEF Body, ReadOut, Check, WriteThrough, SetPin
    <2>2. Advance(f) \in Op /\ Idle \in Op
        BY AdvanceType, IdleType
    <2>3. Advance(f).phase \in {"read", "check", "write"}
          => Advance(f).todo \subseteq {b \in Block : Advance(f).cells[b] # {}}
        BY AdvanceCases, IdleType DEF Wanted, Touched
    <2> QED
        BY <1>1, <2>1, <2>2, <2>3, IdleType
<1>4. ASSUME NEW f \in Fibers, NEW phase, NEW address, NEW len, NEW data, Start(f, phase, address, len, data)
      PROVE  Wanted'
    BY <1>4 DEF Start, Wanted, Touched, TypeOK
<1>5. ASSUME NEW f \in Fibers, StartPin(f) PROVE Wanted'
    BY <1>5, IdleType DEF StartPin, Wanted, Touched, TypeOK, Op
<1>6. ASSUME NEW f \in Fibers, Miss(f) PROVE Wanted'
    BY <1>6 DEF Miss, Wanted, Touched, TypeOK, Op
<1>7. ASSUME NEW f \in Fibers, Hit(f) \/ Fill(f) PROVE Wanted'
    <2>1. CASE Hit(f)
        BY <1>3, <2>1, HoldingType DEF Hit
    <2>2. CASE Fill(f)
        BY <1>3, <2>2, SizesAssumption DEF Fill, TypeOK, Op, Slot
    <2> QED
        BY <1>7, <2>1, <2>2
<1>8. CASE Restart
    BY <1>8, IdleType DEF Restart, Wanted
<1>9. CASE UNCHANGED vars
    BY <1>2, <1>9 DEF vars
<1> QED
    BY <1>2, <1>4, <1>5, <1>6, <1>7, <1>8, <1>9 DEF Next, StartRead, StartWrite, Clear, Unpin, Erase
-----------------------------------------------------------------------------
(* The mapping, field by field. *)
LEMMA CallIdle ==
    ASSUME NEW f \in Fibers, op[f].phase \in {"idle", "pin"}
    PROVE  CallOf(f) = Store!NoCall
BY DEF CallOf, Store!NoCall, Store!Erased, Idle, Erased

(* The mapped call of a read or write. *)
LEMMA CallActive ==
    ASSUME NEW f \in Fibers, op[f].phase \in {"read", "check", "write"}
    PROVE  /\ CallOf(f).kind = IF op[f].phase = "read" THEN "read" ELSE "write"
           /\ CallOf(f).cells = op[f].cells /\ CallOf(f).data = op[f].data
           /\ CallOf(f).todo = IF op[f].phase = "check" THEN Touched(f) ELSE op[f].todo
           /\ CallOf(f) # Store!NoCall
BY DEF CallOf, Store!NoCall

(* A step that changes the mapped call of no fiber but f. *)
LEMMA CallUpdate ==
    ASSUME TypeOK, NEW f \in Fibers, NEW next, op' = [op EXCEPT ![f] = next]
    PROVE  [g \in Fibers |-> CallOf(g)'] = [[g \in Fibers |-> CallOf(g)] EXCEPT ![f] = CallOf(f)']
<1>1. \A g \in Fibers \ {f} : op'[g] = op[g]
    BY DEF TypeOK
<1>2. \A g \in Fibers \ {f} : CallOf(g)' = CallOf(g)
    BY <1>1 DEF CallOf, Touched
<1> QED
    BY <1>2

(* A step that changes the mapped call of no fiber. *)
LEMMA CallSame ==
    ASSUME TypeOK, NEW f \in Fibers, NEW next, op' = [op EXCEPT ![f] = next], CallOf(f)' = CallOf(f)
    PROVE  [g \in Fibers |-> CallOf(g)'] = [g \in Fibers |-> CallOf(g)]
BY CallUpdate

(* A step that leaves the mapped state alone is a stutter of the store. *)
LEMMA StutterStep ==
    ASSUME UNCHANGED <<flash, reply>>, [g \in Fibers |-> CallOf(g)'] = [g \in Fibers |-> CallOf(g)]
    PROVE  [Store!Next]_(Store!vars)
BY DEF Store!vars

(* A call of read() or write() begins. *)
LEMMA StartStore ==
    ASSUME CacheInv, TypeOK', NEW f \in Fibers, NEW phase \in {"read", "check"}, NEW address, NEW len, NEW data,
           Start(f, phase, address, len, data)
    PROVE  Store!Begin(f)
<1> USE DEF CacheInv
<1> DEFINE span == Span(address, len)
           new  == [phase |-> phase, cells |-> span, data |-> data,
                    todo |-> {b \in Block : span[b] # {}}, slot |-> 0]
           M    == [g \in Fibers |-> CallOf(g)]
<1>1. op' = [op EXCEPT ![f] = new] /\ op[f] = Idle /\ UNCHANGED flash /\ reply' = [reply EXCEPT ![f] = NoReply]
    BY DEF Start, MayStart
<1>2. op'[f] = new /\ new \in Op
    BY <1>1 DEF TypeOK
<1>3. M[f] = Store!NoCall
    BY <1>1, CallIdle, IdleType
<1>4. /\ CallOf(f)'.kind \in {"read", "write"} /\ CallOf(f)'.cells = span /\ CallOf(f)'.data = data
      /\ CallOf(f)'.todo = {b \in Block : span[b] # {}}
      /\ CallOf(f)' = [kind |-> CallOf(f)'.kind, cells |-> span, data |-> data,
                       todo |-> {b \in Block : span[b] # {}}]
    <2> DEFINE kind   == IF phase = "read" THEN "read" ELSE "write"
               wanted == {b \in Block : span[b] # {}}
    <2>1. new.phase = phase /\ new.cells = span /\ new.data = data /\ new.todo = wanted
        OBVIOUS
    <2>2. Touched(f)' = wanted
        BY <1>2, <2>1 DEF Touched
    <2> HIDE DEF span, new, wanted
    <2>3. CallOf(f)' = [kind |-> kind, cells |-> span, data |-> data, todo |-> wanted]
        BY <1>2, <2>1, <2>2 DEF CallOf
    <2> QED
        BY <2>3 DEF wanted
<1>5. CallOf(f)' \in Store!Call /\ CallOf(f)'.todo = Store!Touched(CallOf(f)')
    BY <1>2, <1>4 DEF Store!Call, Store!Touched, Store!Byte, Op, Data, Page, Byte
<1>6. [g \in Fibers |-> CallOf(g)'] = [M EXCEPT ![f] = CallOf(f)']
    BY <1>1, CallUpdate
<1> QED
    BY <1>1, <1>3, <1>5, <1>6 DEF Store!Begin, Store!NoReply, NoReply

(* An iteration of read(), of the validation or of the writing loop. *)
LEMMA BodyStore ==
    ASSUME CacheInv, Wanted, ~FlashFails, NEW f \in Fibers, op[f].todo # {},
           NEW i \in Slot, NEW c \in [Slot -> Entry], Ready(f, i, c), Body(f, i, c)
    PROVE  [Store!Next]_(Store!vars)
<1> USE DEF CacheInv
<1> DEFINE b    == NextBlock(f)
           rest == op[f].todo \ {b}
           M    == [g \in Fibers |-> CallOf(g)]
<1>1. b \in op[f].todo /\ b \in Block /\ op[f] \in Op
    BY NextBlockType DEF TypeOK
<1>2. M[f] = CallOf(f)
    OBVIOUS
<1>3. ASSUME op[f].phase \in {"read", "write"}, op' = [op EXCEPT ![f] = Advance(f)]
      PROVE  M[f].todo = op[f].todo /\ [g \in Fibers |-> CallOf(g)'] = [M EXCEPT ![f] = Store!Done(f, b)]
    <2>1. op'[f] = Advance(f)
        BY <1>3 DEF TypeOK
    <2>2. M[f].todo = op[f].todo
        BY <1>2, <1>3, CallActive
    <2>3. CASE rest = {}
        <3>1. op[f].todo = {b}
            BY <1>1, <2>3
        <3>2. CallOf(f)' = Store!NoCall
            <4>1. op'[f] = Idle
                BY <1>3, <2>1, <2>3, AdvanceCases
            <4> QED
                BY <4>1, IdleType DEF CallOf, Store!NoCall, Store!Erased, Idle, Erased
        <3>3. Store!Done(f, b) = Store!NoCall
            BY <2>2, <3>1 DEF Store!Done
        <3> QED
            BY <1>3, <2>2, <3>2, <3>3, CallUpdate
    <2>4. CASE rest # {}
        <3>1. op[f].todo # {b}
            BY <2>4
        <3>2. /\ op'[f].phase = op[f].phase /\ op'[f].todo = rest
              /\ op'[f].cells = op[f].cells /\ op'[f].data = op[f].data
            BY <2>1, <2>4, AdvanceCases
        <3> DEFINE kind == IF op[f].phase = "read" THEN "read" ELSE "write"
        <3>5. CallOf(f) = [kind |-> kind, cells |-> op[f].cells, data |-> op[f].data, todo |-> op[f].todo]
            BY <1>3 DEF CallOf
        <3>6. CallOf(f)' = [kind |-> kind, cells |-> op[f].cells, data |-> op[f].data, todo |-> rest]
            <4> HIDE DEF rest
            <4> QED
                BY <1>3, <3>2 DEF CallOf
        <3>7. [[kind |-> kind, cells |-> op[f].cells, data |-> op[f].data, todo |-> op[f].todo] EXCEPT !.todo = rest]
              = [kind |-> kind, cells |-> op[f].cells, data |-> op[f].data, todo |-> rest]
            OBVIOUS
        <3>3. CallOf(f)' = [CallOf(f) EXCEPT !.todo = rest]
            <4> HIDE DEF rest, kind
            <4> QED
                BY <3>5, <3>6, <3>7, Zenon
        <3>4. Store!Done(f, b) = [CallOf(f) EXCEPT !.todo = rest]
            BY <1>2, <2>2, <3>1 DEF Store!Done
        <3> QED
            BY <1>3, <2>2, <3>3, <3>4, CallUpdate
    <2> QED
        BY <2>3, <2>4
<1>4. CASE ReadOut(f, i, c)
    <2>1. op[f].phase = "read" /\ op' = [op EXCEPT ![f] = Advance(f)] /\ flash' = flash
        BY <1>4 DEF ReadOut
    <2>2. M[f].kind = "read" /\ M[f].cells = op[f].cells
        BY <1>2, <2>1, CallActive
    <2>3. reply' = [reply EXCEPT ![f] = [block |-> {b}, bytes |-> [x \in op[f].cells[b] |-> flash[b][x]]]]
        BY <1>4 DEF ReadOut, Ready
    <2>4. Store!ReadBlock(f, b)
        BY <1>3, <2>1, <2>2, <2>3 DEF Store!ReadBlock
    <2> QED
        BY <1>1, <1>3, <2>1, <2>4 DEF Store!Next
<1>5. CASE Check(f, i, c)
    <2>1. op[f].phase = "check" /\ UNCHANGED <<flash, reply>>
        BY <1>5 DEF Check
    <2>2. CASE /\ op' = [op EXCEPT ![f] = Idle]
               /\ ~ \A x \in op[f].cells[b] : op[f].data[b][x] \subseteq c[i].page[x]
        <3>1. CallOf(f)' = Store!NoCall
            <4>1. op'[f] = Idle
                BY <2>2 DEF TypeOK
            <4> QED
                BY <4>1, IdleType DEF CallOf, Store!NoCall, Store!Erased, Idle, Erased
        <3>2. /\ M[f].kind = "write" /\ M[f].todo = Touched(f)
              /\ M[f].cells = op[f].cells /\ M[f].data = op[f].data
            BY <1>2, <2>1, CallActive
        <3>3. ~Store!Programmable(f, b)
            BY <2>2, <3>2 DEF Store!Programmable, Ready
        <3>4. b \in M[f].todo /\ M[f].todo = Store!Touched(M[f])
            BY <1>1, <2>1, <3>2 DEF Wanted, Touched, Store!Touched
        <3>5. [g \in Fibers |-> CallOf(g)'] = [M EXCEPT ![f] = Store!NoCall]
            BY <2>2, <3>1, CallUpdate
        <3>6. Store!Refuse(f)
            BY <2>1, <3>2, <3>3, <3>4, <3>5 DEF Store!Refuse
        <3> QED
            BY <3>6 DEF Store!Next
    <2>3. CASE op' = [op EXCEPT ![f] = Advance(f)]
        <3>1. op'[f] = Advance(f)
            BY <2>3 DEF TypeOK
        <3>2. /\ op'[f].cells = op[f].cells /\ op'[f].data = op[f].data
              /\ \/ op'[f].phase = "check"
                 \/ op'[f].phase = "write" /\ op'[f].todo = Touched(f)
            BY <2>1, <3>1, AdvanceCases
        <3>3. CallOf(f)' = CallOf(f)
            BY <2>1, <3>2 DEF CallOf, Touched
        <3> QED
            BY <2>1, <2>3, <3>3, CallSame, StutterStep
    <2> QED
        BY <1>5, <2>2, <2>3 DEF Check
<1>6. CASE WriteThrough(f, i, c)
    <2> DEFINE pg == [x \in Cell |-> IF x \in op[f].cells[b] THEN op[f].data[b][x] ELSE c[i].page[x]]
               fl == [x \in Cell |-> IF x \in Aligned(op[f].cells[b]) THEN flash[b][x] \cap pg[x] ELSE flash[b][x]]
               st == [x \in Cell |-> IF x \in op[f].cells[b] THEN op[f].data[b][x] ELSE flash[b][x]]
    <2>1. /\ op[f].phase = "write" /\ reply' = reply
          /\ flash' = [flash EXCEPT ![b] = fl]
          /\ op' = [op EXCEPT ![f] = Advance(f)]
        BY <1>6 DEF WriteThrough
    <2>2. op[f].cells[b] \subseteq Aligned(op[f].cells[b])
        BY <1>1 DEF Aligned, Op
    <2>3. Legal(f, b) /\ c[i].page = flash[b]
        BY <1>1, <2>1 DEF Checked, Ready
    <2>4. ASSUME NEW x \in Cell PROVE fl[x] = st[x]
        <3>1. CASE x \in op[f].cells[b]
            BY <2>2, <2>3, <3>1 DEF Legal
        <3>2. CASE x \notin op[f].cells[b]
            BY <2>3, <3>2
        <3> QED
            BY <3>1, <3>2
    <2>5. flash' = [flash EXCEPT ![b] = st]
        <3>1. fl = st
            BY <2>4
        <3> QED
            BY <2>1, <3>1
    <2>6. /\ M[f].kind = "write" /\ M[f].todo = op[f].todo
          /\ M[f].cells = op[f].cells /\ M[f].data = op[f].data
        BY <1>2, <2>1, CallActive
    <2>7. \A d \in M[f].todo : Store!Programmable(f, d)
        BY <2>1, <2>6 DEF Checked, Legal, Store!Programmable
    <2>8. [g \in Fibers |-> CallOf(g)'] = [M EXCEPT ![f] = Store!Done(f, b)]
        BY <1>3, <2>1
    <2>9. Store!WriteBlock(f, b)
        BY <2>1, <2>5, <2>6, <2>7, <2>8 DEF Store!WriteBlock
    <2> QED
        BY <1>1, <2>6, <2>9 DEF Store!Next
<1>7. CASE SetPin(f, i, c)
    <2>1. op[f].phase = "pin" /\ op' = [op EXCEPT ![f] = Idle] /\ UNCHANGED <<flash, reply>>
        BY <1>7 DEF SetPin
    <2>2. op'[f] = Idle
        BY <2>1 DEF TypeOK
    <2>3. CallOf(f)' = CallOf(f)
        BY <2>1, <2>2, IdleType DEF CallOf
    <2> QED
        BY <2>1, <2>3, CallSame, StutterStep
<1> QED
    BY <1>4, <1>5, <1>6, <1>7 DEF Body

(* Every step of FSCache is a step of the store, or none. *)
LEMMA StoreStep ==
    ASSUME CacheInv, Wanted, Serialised, ~FlashFails, [Next]_vars
    PROVE  [Store!Next]_(Store!vars)
<1> USE DEF CacheInv
<1>1. TypeOK'
    BY TypeStep
<1>2. ASSUME NEW f \in Fibers, StartRead(f) \/ StartWrite(f) PROVE [Store!Next]_(Store!vars)
    <2>1. Store!Begin(f)
        BY <1>1, <1>2, StartStore DEF StartRead, StartWrite
    <2> QED
        BY <2>1 DEF Store!Next
<1>3. ASSUME NEW f \in Fibers, StartPin(f) PROVE [Store!Next]_(Store!vars)
    <2>1. PICK b \in Block : op' = [op EXCEPT ![f] = [Idle EXCEPT !.phase = "pin", !.todo = {b}]]
        BY <1>3 DEF StartPin
    <2>2. op[f].phase = "idle" /\ op'[f].phase = "pin"
        BY <1>3, <2>1, IdleType DEF StartPin, MayStart, TypeOK, Op
    <2>3. CallOf(f)' = CallOf(f)
        BY <2>2 DEF CallOf
    <2> QED
        BY <1>3, <2>1, <2>3, CallSame, StutterStep DEF StartPin
<1>4. ASSUME NEW f \in Fibers, Miss(f) PROVE [Store!Next]_(Store!vars)
    <2>1. op' = [op EXCEPT ![f] = [op[f] EXCEPT !.slot = Victim]] /\ op[f] \in Op
        BY <1>4 DEF Miss, TypeOK
    <2>2. /\ op'[f].todo = op[f].todo /\ op'[f].phase = op[f].phase
          /\ op'[f].cells = op[f].cells /\ op'[f].data = op[f].data
        BY <2>1 DEF TypeOK, Op
    <2>3. CallOf(f)' = CallOf(f)
        BY <2>2 DEF CallOf, Touched
    <2> QED
        BY <1>4, <2>1, <2>3, CallSame, StutterStep DEF Miss
<1>5. ASSUME NEW f \in Fibers, Hit(f) \/ Fill(f) PROVE [Store!Next]_(Store!vars)
    BY <1>5, IterationReady, BodyStore
<1>6. ASSUME UNCHANGED op PROVE [g \in Fibers |-> CallOf(g)'] = [g \in Fibers |-> CallOf(g)]
    BY <1>6 DEF CallOf, Touched
<1>7. ASSUME NEW f \in Fibers, NEW b \in Block, Unpin(f, b) PROVE [Store!Next]_(Store!vars)
    BY <1>6, <1>7, StutterStep DEF Unpin
<1>8. ASSUME NEW f \in Fibers, NEW b \in Block, Erase(f, b) PROVE [Store!Next]_(Store!vars)
    <2>1. PageOf(b) \in SUBSET Block
        BY DEF PageOf
    <2>2. Store!Erase(PageOf(b))
        BY <1>6, <1>8 DEF Erase, Store!Erase, Store!Erased, Erased
    <2> QED
        BY <2>1, <2>2 DEF Store!Next
<1>9. ASSUME Restart PROVE [Store!Next]_(Store!vars)
    <2>1. \A g \in Fibers : op'[g] = Idle
        BY <1>9 DEF Restart
    <2>2. \A g \in Fibers : CallOf(g)' = Store!NoCall
        BY <2>1, IdleType DEF CallOf, Store!NoCall, Store!Erased, Idle, Erased
    <2>3. Store!Restart
        BY <1>9, <2>2 DEF Restart, Store!Restart, Store!NoReply, NoReply
    <2> QED
        BY <2>3 DEF Store!Next
<1>10. ASSUME UNCHANGED vars PROVE [Store!Next]_(Store!vars)
    BY <1>6, <1>10, StutterStep DEF vars
<1>11. ASSUME NEW f \in Fibers, Clear(f) PROVE [Store!Next]_(Store!vars)
    BY <1>6, <1>11, StutterStep DEF Clear
<1> QED
    BY <1>2, <1>3, <1>4, <1>5, <1>7, <1>8, <1>9, <1>10, <1>11 DEF Next

(* A cache that was just constructed maps to an initial store. *)
LEMMA StoreInit == Init => Store!Init /\ Wanted
<1> SUFFICES ASSUME Init PROVE Store!Init /\ Wanted
    OBVIOUS
<1>1. \A g \in Fibers : op[g] = Idle
    BY DEF Init
<1>2. \A g \in Fibers : CallOf(g) = Store!NoCall
    BY <1>1, CallIdle, IdleType
<1> QED
    BY <1>1, <1>2, IdleType DEF Init, Wanted, Store!Init, Store!NoReply, NoReply, Store!Byte, Page, Byte

(* FSCache implements the flash store, for every storage, cache and range of  *)
(* the clock, when the callers hold a lock and the flash answers: write()'s   *)
(* validation, eviction without write-back and programming whole words from   *)
(* the cached page are invisible to the callers.                              *)
THEOREM CacheImplementsStore == Serialised /\ ~FlashFails => (Spec => ImplementsStore)
<1> SUFFICES ASSUME Serialised, ~FlashFails PROVE Spec => ImplementsStore
    OBVIOUS
<1>1. Init => CacheInv /\ Wanted /\ Store!Init
    BY CacheInit, StoreInit
<1>2. CacheInv /\ Wanted /\ [Next]_vars => CacheInv' /\ Wanted' /\ [Store!Next]_(Store!vars)
    BY CacheStep, WantedStep, StoreStep
<1> QED
    BY <1>1, <1>2, PTL DEF Spec, ImplementsStore, Store!Spec
=============================================================================
