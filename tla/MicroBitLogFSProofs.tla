------------------------ MODULE MicroBitLogFSProofs ------------------------
(***************************************************************************)
(* The storage of the log, for every alphabet, size of page and block,     *)
(* number of pages and length of string: types, the journal, recovery, and *)
(* the refinement of an append-only log.                                   *)
(***************************************************************************)
EXTENDS MicroBitLogFS, TLAPS, WellFoundedInduction

-----------------------------------------------------------------------------
(* Sets of naturals and integer division. *)

(* A non-empty set of naturals has a least element, which First chooses. *)
LEMMA FirstIsLeast ==
    ASSUME NEW S \in SUBSET Nat, S # {}
    PROVE  First(S) \in S /\ \A m \in S : First(S) <= m
<1>1. PICK n \in S : \A m \in S : ~(<<m, n>> \in OpToRel(<, Nat))
    BY NatLessThanWellFounded, WFMin
<1>2. OpToRel(<, Nat) = {p \in Nat \X Nat : p[1] < p[2]}
    BY Zenon DEF OpToRel
<1>3. ASSUME NEW m \in S, m < n PROVE FALSE
    <2>1. <<m, n>> \in {p \in Nat \X Nat : p[1] < p[2]}
        BY <1>3
    <2> QED
        BY <1>1, <1>2, <2>1, Zenon
<1>4. \A m \in S : n <= m
    BY <1>3
<1> QED
    BY <1>4 DEF First

(* A non-empty set of naturals with a bound has a greatest element, which     *)
(* Last chooses.                                                              *)
LEMMA LastIsGreatest ==
    ASSUME NEW n \in Nat, NEW S \in SUBSET (0 .. n), S # {}
    PROVE  Last(S) \in S /\ \A m \in S : Last(S) >= m
<1> DEFINE T == {n - i : i \in S}
<1>1. T \in SUBSET Nat /\ T # {}
    OBVIOUS
<1>2. First(T) \in T /\ \A m \in T : First(T) <= m
    BY <1>1, FirstIsLeast
<1>3. PICK i \in S : First(T) = n - i
    BY <1>2
<1>4. \A m \in S : i >= m
    <2> TAKE m \in S
    <2>1. n - m \in T
        OBVIOUS
    <2>2. First(T) <= n - m
        BY <1>2, <2>1
    <2>3. i \in 0 .. n /\ m \in 0 .. n
        OBVIOUS
    <2> QED
        BY <1>3, <2>2, <2>3
<1> QED
    BY <1>4 DEF Last

(* The sizes that follow from the layout. *)
LEMMA Layout ==
    /\ LogEnd \in Nat /\ LogEnd >= 1 /\ LogEnd \in Addr /\ 0 \in Addr
    /\ Entries \in Nat \ {0} /\ 0 \in Index
    /\ \A a \in Addr : a \in Nat /\ a \div PageSize \in 0 .. DataPages - 1
    /\ \A i \in Index : i \in Nat /\ i \div PageEntries \in 0 .. JournalPages - 1
    /\ FirstDataPage \in Nat /\ FirstDataPage = 2 + JournalPages
<1>1. DataPages * PageSize >= 2 /\ DataPages * PageSize \in Nat
    <2>1. PICK j \in Nat : DataPages = j + 1
        <3>1. DataPages - 1 \in Nat
            BY LayoutAssumption
        <3> QED
            BY <3>1, LayoutAssumption
    <2>2. PICK k \in Nat : PageSize = k + 2
        <3>1. PageSize - 2 \in Nat
            BY LayoutAssumption
        <3> QED
            BY <3>1, LayoutAssumption
    <2>3. (j + 1) * (k + 2) = j * k + 2 * j + k + 2 /\ j * k \in Nat
        OBVIOUS
    <2> QED
        BY <2>1, <2>2, <2>3
<1>2. LogEnd \in Nat /\ LogEnd >= 1 /\ LogEnd \in Addr /\ 0 \in Addr
    BY <1>1 DEF LogEnd, Addr
<1>3. Entries \in Nat \ {0}
    BY LayoutAssumption DEF Entries
<1>4. \A a \in 0 .. DataPages * PageSize - 1 : a \in Nat /\ a \div PageSize \in 0 .. DataPages - 1
    BY LayoutAssumption
<1>5. \A i \in 0 .. JournalPages * PageEntries - 1 : i \in Nat /\ i \div PageEntries \in 0 .. JournalPages - 1
    BY LayoutAssumption
<1> QED
    BY <1>2, <1>3, <1>4, <1>5, LayoutAssumption DEF Index, Entries, Addr, LogEnd, FirstDataPage

LEMMA InReach ==
    ASSUME NEW a \in Int, NEW d \in Int, NEW c \in Int, NEW s \in Int, a <= d + c, c <= s
    PROVE  a < d + s \/ a = d + s
OBVIOUS

(* The rest of a page: the cells up to its end are on it, the next is not. *)
LEMMA RestOfPage ==
    ASSUME NEW e \in Nat
    PROVE  /\ PageSize - (e % PageSize) \in 1 .. PageSize
           /\ \A a \in Nat : e <= a /\ a < e + PageSize - (e % PageSize) => a \div PageSize = e \div PageSize
           /\ (e + PageSize - (e % PageSize)) \div PageSize = e \div PageSize + 1
           /\ \A a \in Nat : a \div PageSize = e \div PageSize + 1 => a > e
<1> DEFINE q == e \div PageSize
           r == e % PageSize
<1>1. e = PageSize * q + r /\ q \in Nat /\ r \in 0 .. PageSize - 1 /\ PageSize \in Nat \ {0}
    BY LayoutAssumption
<1>2. \A a \in Nat : PageSize * q <= a /\ a < PageSize * q + PageSize => a \div PageSize = q
    BY <1>1
<1>3. (PageSize * q + PageSize) \div PageSize = q + 1
    BY <1>1
<1>4. \A a \in Nat : a \div PageSize = q + 1 => a >= PageSize * q + PageSize
    BY <1>1
<1>5. PageSize - r \in 1 .. PageSize /\ e + PageSize - r = PageSize * q + PageSize
    BY <1>1
<1>6. \A a \in Nat : e <= a /\ a < e + PageSize - r => a \div PageSize = q
    BY <1>1, <1>2, <1>5
<1>7. \A a \in Nat : a \div PageSize = q + 1 => a > e
    BY <1>1, <1>4
<1> QED
    BY <1>3, <1>5, <1>6, <1>7

(* A multiple of the block size below a cell. *)
LEMMA BlockFloor ==
    ASSUME NEW e \in Nat
    PROVE  (e \div BlockSize) * BlockSize \in 0 .. e
BY LayoutAssumption
-----------------------------------------------------------------------------
(* The inductive invariant of the storage.                                    *)

Writing  == {"append", "write", "journal", "jwrite", "jzero"}
Clearing == {"erase", "header", "meta", "entry", "config"}

(* Pages are filled from their start, the FULL indicator apart. *)
PagesFill ==
    \A a, b \in Addr :
        a < b /\ b < LogEnd /\ a \div PageSize = b \div PageSize /\ data[a] = Free => data[b] = Free

(* The text ends at e. *)
EndsAt(e) ==
    /\ \A a \in Addr : a < e => data[a] # Free
    /\ e < LogEnd => data[e] = Free

Control ==
    /\ pc \in {"idle", "inval"} \cup Writing \cup Clearing
    /\ initialised => meta = "valid" /\ EndsAt(dataEnd)
    /\ pc \in Writing => initialised
    /\ pc \in Clearing => ~initialised /\ dataEnd = 0 /\ journalHead = 0
    /\ pc \in {"entry", "config"} => meta = "valid"
    /\ pc = "inval" => ~initialised /\ meta = "zero"

(* What the pages in front of p hold during clear(). *)
ErasedTo(p) ==
    /\ \A i \in Index : 2 + i \div PageEntries < p => journal[i] = FreeEntry
    /\ \A a \in Addr : FirstDataPage + a \div PageSize < p => data[a] = Free

FirstPageFree == \A a \in Addr : a \div PageSize = 0 /\ a < LogEnd => data[a] = Free
JournalFree   == \A i \in Index : journal[i] = FreeEntry

ClearInv ==
    /\ pc = "erase" => /\ page <= lastPage /\ FirstDataPage <= lastPage
                       /\ page > 1 => meta = "free"
                       /\ ErasedTo(page)
    /\ pc \in {"header", "meta", "entry", "config"} => FirstPageFree
    /\ pc \in {"header", "meta", "entry"} => JournalFree

(* The cells that a chunk is about to fill, and the one after it, are free. *)
Room == \A a \in Addr : dataEnd <= a /\ a <= dataEnd + chunk /\ a < LogEnd => data[a] = Free

WriteInv ==
    /\ pc \in {"append", "write"} => Len(str) <= LogEnd - dataEnd
    /\ pc = "write" => accepted /\ chunk <= Len(str) /\ Room

StorageInv == TypeOK /\ Control /\ PagesFill /\ JournalBehindData /\ ClearInv /\ WriteInv
-----------------------------------------------------------------------------
(* Recovery. *)

(* init() finds a journal entry, and a length. *)
LEMMA RecoveredHeadType ==
    ASSUME TypeOK
    PROVE  RecoveredHead \in Index /\ JournalLength \in Addr
<1>1. Scanned \in SUBSET (0 .. Entries - 1) /\ Entries - 1 \in Nat
    BY Layout DEF Scanned, Index
<1>2. Scanned # {} => Last(Scanned) \in Scanned
    BY <1>1, LastIsGreatest
<1>3. RecoveredHead \in Index
    BY <1>1, <1>2, Layout DEF RecoveredHead, Index
<1> QED
    BY <1>3, Layout DEF JournalLength

(* If the journal is behind the data, init() finds the end of the text. *)
LEMMA RecoveredEndEnds ==
    ASSUME TypeOK, meta = "valid", JournalBehindData
    PROVE  RecoveredEnd \in Addr /\ EndsAt(RecoveredEnd)
<1> DEFINE from == JournalLength
           ends == {a \in from .. LogEnd - 1 : data[a] = Free} \cup {LogEnd}
<1>1. from \in Addr /\ RecoveredHead \in Index
    BY RecoveredHeadType
<1>2. ends \in SUBSET Nat /\ ends # {}
    BY <1>1, Layout DEF Addr
<1>3. RecoveredEnd \in ends /\ \A m \in ends : RecoveredEnd <= m
    BY <1>2, FirstIsLeast DEF RecoveredEnd
<1>4. RecoveredEnd \in Addr /\ RecoveredEnd >= from
    BY <1>1, <1>3, Layout DEF Addr
<1>5. \A a \in Addr : a < from => data[a] # Free
    BY <1>1 DEF JournalBehindData, JournalLength, Addr
<1>6. \A a \in Addr : from <= a /\ a < RecoveredEnd => data[a] # Free
    <2> SUFFICES ASSUME NEW a \in Addr, from <= a, a < RecoveredEnd, data[a] = Free PROVE FALSE
        OBVIOUS
    <2>1. a \in ends
        BY <1>1, <1>4, Layout DEF Addr
    <2> QED
        BY <1>3, <1>4, <2>1 DEF Addr
<1>7. RecoveredEnd < LogEnd => data[RecoveredEnd] = Free
    BY <1>3
<1> QED
    BY <1>1, <1>4, <1>5, <1>6, <1>7 DEF EndsAt, Addr

(* The text has one end. *)
LEMMA OneEnd ==
    ASSUME NEW d \in Addr, NEW e \in Addr, EndsAt(d), EndsAt(e)
    PROVE  d = e
BY Layout DEF EndsAt, Addr

(* No entry of the journal is beyond the end of the text. *)
LEMMA JournalBelowEnd ==
    ASSUME TypeOK, meta = "valid", JournalBehindData, NEW e \in Addr, EndsAt(e), NEW i \in Index
    PROVE  journal[i] <= e
<1>1. journal[i] \in {FreeEntry, ZeroEntry} \cup Addr
    BY DEF TypeOK, Entry
<1>2. CASE journal[i] \in {FreeEntry, ZeroEntry}
    BY <1>2, Layout DEF FreeEntry, ZeroEntry, Addr
<1>3. CASE journal[i] \in Addr
    <2>1. e < journal[i] => e < LogEnd /\ data[e] # Free
        BY <1>3, Layout DEF Addr, JournalBehindData
    <2> QED
        BY <1>3, <2>1, Layout DEF Addr, EndsAt
<1> QED
    BY <1>1, <1>2, <1>3

LEMMA RecoversDataEnd ==
    TypeOK /\ meta = "valid" /\ JournalBehindData /\ EndsAt(dataEnd) => RecoveredEnd = dataEnd
BY RecoveredEndEnds, OneEnd DEF TypeOK
-----------------------------------------------------------------------------
(* The invariant is inductive. *)

LEMMA StorageInit == Init => StorageInv
<1> SUFFICES ASSUME Init PROVE StorageInv
    OBVIOUS
<1>1. TypeOK
    <2>1. journal \in [Index -> Entry] /\ data \in [Addr -> Val \cup {Free, Zero, Ful}]
        BY DEF Init, Entry
    <2>2. str \in Seq(Val) /\ chunk \in 0 .. PageSize
        BY LayoutAssumption DEF Init
    <2> QED
        BY <2>1, <2>2, Layout DEF Init, TypeOK
<1>2. PagesFill /\ JournalBehindData
    BY Layout DEF Init, PagesFill, JournalBehindData, FreeEntry, ZeroEntry, Addr
<1> QED
    BY <1>1, <1>2 DEF StorageInv, Init, Control, Writing, Clearing, ClearInv, WriteInv

(* Erasing a page keeps the types, and pages that are filled from their start. *)
LEMMA ErasePageKeeps ==
    ASSUME TypeOK, PagesFill, NEW p \in Nat, ErasePage(p)
    PROVE  /\ header' \in BOOLEAN /\ visible' \in BOOLEAN /\ meta' \in {"free", "zero", "valid"}
           /\ journal' \in [Index -> Entry] /\ data' \in [Addr -> Val \cup {Free, Zero, Ful}]
           /\ PagesFill'
           /\ p < FirstDataPage => data' = data
           /\ p >= FirstDataPage => journal' = journal
           /\ p # 1 => meta' = meta
<1>1. header' \in BOOLEAN /\ visible' \in BOOLEAN /\ meta' \in {"free", "zero", "valid"} /\ (p # 1 => meta' = meta)
    BY DEF ErasePage, TypeOK
<1>2. journal' \in [Index -> Entry] /\ data' \in [Addr -> Val \cup {Free, Zero, Ful}]
    BY DEF ErasePage, TypeOK, Entry
<1>3. \A a \in Addr : data'[a] = IF p = FirstDataPage + a \div PageSize THEN Free ELSE data[a]
    BY DEF ErasePage
<1>4. PagesFill'
    BY <1>3 DEF PagesFill
<1>5. p < FirstDataPage => data' = data
    <2>1. p < FirstDataPage => \A a \in Addr : data'[a] = data[a]
        BY <1>3, Layout
    <2>2. data = [a \in Addr |-> data[a]] /\ data' = [a \in Addr |-> data'[a]]
        BY <1>2 DEF TypeOK
    <2> QED
        BY <2>1, <2>2
<1>6. p >= FirstDataPage => journal' = journal
    <2>1. p >= FirstDataPage => \A i \in Index : p # 2 + i \div PageEntries
        BY Layout, LayoutAssumption
    <2>2. \A i \in Index : journal'[i] = IF p = 2 + i \div PageEntries THEN FreeEntry ELSE journal[i]
        BY DEF ErasePage
    <2>3. journal = [i \in Index |-> journal[i]] /\ journal' = [i \in Index |-> journal'[i]]
        BY <1>2 DEF TypeOK
    <2> QED
        BY <2>1, <2>2, <2>3
<1> QED
    BY <1>1, <1>2, <1>4, <1>5, <1>6

(* A change of the FULL indicator alone is none of the text or the journal. *)
LEMMA IndicatorKeeps ==
    ASSUME TypeOK, PagesFill, JournalBehindData, NEW v \in {Free, Zero, Ful},
           data' = [data EXCEPT ![LogEnd] = v], journal' = journal, meta' = meta
    PROVE  /\ data' \in [Addr -> Val \cup {Free, Zero, Ful}]
           /\ PagesFill' /\ JournalBehindData'
           /\ \A e \in Addr : EndsAt(e) => EndsAt(e)'
<1>1. \A a \in Addr : a < LogEnd => data'[a] = data[a]
    BY Layout DEF TypeOK
<1>2. PagesFill'
    BY <1>1, Layout DEF PagesFill, Addr
<1>3. \A e \in Addr : EndsAt(e) => EndsAt(e)'
    BY <1>1, Layout DEF EndsAt, Addr
<1>4. JournalBehindData'
    <2> SUFFICES ASSUME meta = "valid", NEW i \in Index, NEW a \in Addr, a < journal[i] PROVE data'[a] # Free
        BY DEF JournalBehindData
    <2>1. a < LogEnd
        BY Layout DEF TypeOK, Entry, FreeEntry, ZeroEntry, Addr
    <2> QED
        BY <1>1, <2>1 DEF JournalBehindData
<1> QED
    BY <1>2, <1>3, <1>4, Layout DEF TypeOK

(* One lemma per group of actions.  Loading, clearing and formatting: *)
LEMMA ClearStarts ==
    ASSUME StorageInv, NEW last \in Nat, StartClear(last), last >= FirstDataPage, pc = "idle"
    PROVE  StorageInv'
<1> USE DEF StorageInv
<1>1. TypeOK' /\ PagesFill' /\ JournalBehindData'
    <2>1. data' \in [Addr -> Val \cup {Free, Zero, Ful}] /\ PagesFill' /\ JournalBehindData'
        BY IndicatorKeeps DEF StartClear
    <2> QED
        BY <2>1, Layout DEF StartClear, TypeOK
<1>2. Control'
    BY DEF Control, StartClear, Writing, Clearing
<1>3. ClearInv'
    BY Layout DEF ClearInv, StartClear, ErasedTo
<1>4. WriteInv'
    BY DEF WriteInv, StartClear
<1> QED
    BY <1>1, <1>2, <1>3, <1>4

LEMMA LoadKeeps == ASSUME StorageInv, Load PROVE StorageInv'
<1> USE DEF StorageInv, Load
<1>1. RecoveredEnd \in Addr /\ RecoveredHead \in Index /\ EndsAt(RecoveredEnd)
    BY RecoveredEndEnds, RecoveredHeadType
<1>2. TypeOK'
    BY <1>1 DEF TypeOK, flashVars, opVars
<1>3. PagesFill' /\ JournalBehindData'
    BY DEF PagesFill, JournalBehindData, flashVars
<1>4. Control'
    BY <1>1 DEF Control, Writing, Clearing, flashVars, EndsAt
<1> QED
    BY <1>2, <1>3, <1>4 DEF ClearInv, WriteInv

LEMMA ClearEraseKeeps == ASSUME StorageInv, ClearErase PROVE StorageInv'
<1> USE DEF StorageInv
<1>1. page \in Nat /\ lastPage \in Nat /\ page <= lastPage /\ FirstDataPage <= lastPage /\ ErasedTo(page)
    BY DEF ClearErase, ClearInv, TypeOK
<1>2. ErasePage(page)
    BY DEF ClearErase
<1>3. PagesFill' /\ TypeOK'
    <2>1. page' \in Nat /\ lastPage' \in Nat
        BY <1>1 DEF ClearErase
    <2> QED
        BY <1>1, <1>2, <2>1, ErasePageKeeps DEF ClearErase, ramVars, TypeOK
<1>4. /\ \A i \in Index : 2 + i \div PageEntries < page + 1 => journal'[i] = FreeEntry
      /\ \A a \in Addr : FirstDataPage + a \div PageSize < page + 1 => data'[a] = Free
    <2>1. \A i \in Index : 2 + i \div PageEntries \in Nat
        BY Layout, LayoutAssumption
    <2>2. \A a \in Addr : FirstDataPage + a \div PageSize \in Nat
        BY Layout, LayoutAssumption
    <2>3. \A i \in Index : journal'[i] = IF page = 2 + i \div PageEntries THEN FreeEntry ELSE journal[i]
        BY <1>2 DEF ErasePage
    <2>4. \A a \in Addr : data'[a] = IF page = FirstDataPage + a \div PageSize THEN Free ELSE data[a]
        BY <1>2 DEF ErasePage
    <2>5. \A n \in Nat : n < page + 1 => n < page \/ n = page
        BY <1>1
    <2> QED
        BY <1>1, <2>1, <2>2, <2>3, <2>4, <2>5 DEF ErasedTo
<1>5. page >= 1 => meta' # "valid"
    BY <1>1, <1>2 DEF ErasePage, ClearErase, ClearInv
<1>6. JournalBehindData'
    <2>1. CASE page >= 1
        BY <1>5, <2>1 DEF JournalBehindData
    <2>2. CASE page = 0
        <3>1. data' = data /\ meta' = meta
            BY <1>2, <2>2, ErasePageKeeps, Layout, LayoutAssumption
        <3>2. \A i \in Index : 2 + i \div PageEntries # 0
            BY Layout, LayoutAssumption
        <3>3. \A i \in Index : journal'[i] = journal[i]
            BY <1>2, <2>2, <3>2 DEF ErasePage
        <3> QED
            BY <3>1, <3>3 DEF JournalBehindData
    <2> QED
        BY <1>1, <2>1, <2>2
<1>7. Control'
    BY DEF Control, ClearErase, Writing, Clearing, ramVars
<1>8. ClearInv'
    <2>1. CASE page = lastPage
        <3>1. FirstPageFree' /\ JournalFree'
            <4>1. \A i \in Index : 2 + i \div PageEntries < page + 1
                BY <1>1, <2>1, Layout, LayoutAssumption
            <4>2. \A a \in Addr : a \div PageSize = 0 => FirstDataPage + a \div PageSize < page + 1
                BY <1>1, <2>1, Layout, LayoutAssumption
            <4> QED
                BY <1>4, <4>1, <4>2 DEF FirstPageFree, JournalFree
        <3> QED
            BY <2>1, <3>1 DEF ClearInv, ClearErase
    <2>2. CASE page # lastPage
        <3>1. page' = page + 1 /\ lastPage' = lastPage /\ pc' = "erase"
            BY <2>2 DEF ClearErase
        <3>2. page' > 1 => meta' = "free"
            BY <1>1, <1>2, <3>1 DEF ErasePage, ClearErase, ClearInv
        <3> QED
            BY <1>1, <1>4, <2>2, <3>1, <3>2 DEF ClearInv, ErasedTo
    <2> QED
        BY <2>1, <2>2
<1> QED
    BY <1>3, <1>6, <1>7, <1>8 DEF WriteInv, ClearErase

LEMMA ClearEndKeeps ==
    ASSUME StorageInv, ClearHeader \/ ClearMeta \/ ClearEntry \/ ClearConfig
    PROVE  StorageInv'
<1> USE DEF StorageInv
<1>1. CASE ClearHeader
    BY <1>1 DEF ClearHeader, ramVars, opVars, TypeOK, Control, EndsAt, Writing, Clearing, PagesFill,
       JournalBehindData, ClearInv, FirstPageFree, JournalFree, WriteInv
<1>2. CASE ClearMeta
    <2>1. JournalBehindData'
        BY <1>2, Layout DEF ClearMeta, ClearInv, JournalFree, JournalBehindData, FreeEntry, Addr
    <2> QED
        BY <1>2, <2>1 DEF ClearMeta, ramVars, opVars, TypeOK, Control, EndsAt, Writing, Clearing, PagesFill,
           ClearInv, FirstPageFree, JournalFree, WriteInv
<1>3. CASE ClearEntry
    <2>1. journal' \in [Index -> Entry] /\ \A i \in Index : journal'[i] \in {FreeEntry, 0}
        BY <1>3, Layout DEF ClearEntry, ClearInv, JournalFree, TypeOK, Entry
    <2>2. JournalBehindData'
        BY <2>1, Layout DEF JournalBehindData, FreeEntry, Addr
    <2> QED
        BY <1>3, <2>1, <2>2 DEF ClearEntry, ramVars, opVars, TypeOK, Control, EndsAt, Writing, Clearing, PagesFill,
           ClearInv, FirstPageFree, WriteInv
<1>4. CASE ClearConfig
    <2>1. meta = "valid"
        BY <1>4 DEF ClearConfig, Control
    <2> QED
        BY <1>4 DEF ClearConfig, opVars, TypeOK, Control, EndsAt, Writing, Clearing, PagesFill,
           JournalBehindData, ClearInv, FirstPageFree, WriteInv
<1> QED
    BY <1>1, <1>2, <1>3, <1>4

(* Logging a string: *)
LEMMA LogFullKeeps == ASSUME StorageInv, NEW s \in String, LogFull(s) PROVE StorageInv'
<1> USE DEF StorageInv, LogFull, opVars
<1>1. CASE data' = data
    <2>1. TypeOK' /\ PagesFill' /\ JournalBehindData'
        BY <1>1 DEF TypeOK, PagesFill, JournalBehindData
    <2>2. Control'
        BY <1>1 DEF Control, EndsAt, Writing, Clearing
    <2> QED
        BY <2>1, <2>2 DEF ClearInv, WriteInv
<1>2. CASE data' = [data EXCEPT ![LogEnd] = Ful]
    <2>1. /\ data' \in [Addr -> Val \cup {Free, Zero, Ful}]
          /\ PagesFill' /\ JournalBehindData'
          /\ EndsAt(dataEnd) => EndsAt(dataEnd)'
        <3>1. \A e \in Addr : EndsAt(e) => EndsAt(e)'
            BY <1>2, IndicatorKeeps
        <3> QED
            BY <1>2, <3>1, IndicatorKeeps DEF TypeOK
    <2>2. Control' /\ TypeOK'
        BY <2>1 DEF Control, Writing, Clearing, EndsAt, TypeOK
    <2> QED
        BY <2>1, <2>2 DEF ClearInv, WriteInv
<1> QED
    BY <1>1, <1>2

LEMMA LogStringKeeps == ASSUME StorageInv, NEW s \in String, LogString(s) PROVE StorageInv'
<1> USE DEF StorageInv, LogString
<1>1. s \in Seq(Val) /\ Len(s) \in Nat
    BY LayoutAssumption DEF String
<1>2. TypeOK' /\ PagesFill' /\ JournalBehindData'
    BY <1>1 DEF TypeOK, flashVars, ramVars, PagesFill, JournalBehindData
<1>3. Control'
    BY DEF Control, Writing, Clearing, flashVars, ramVars, EndsAt
<1> QED
    BY <1>2, <1>3 DEF ClearInv, WriteInv, flashVars, ramVars

LEMMA AppendEraseKeeps == ASSUME StorageInv, AppendErase PROVE StorageInv'
<1> USE DEF StorageInv
<1> DEFINE p == FirstDataPage + dataEnd \div PageSize + 1
<1>1. /\ initialised /\ meta = "valid" /\ EndsAt(dataEnd) /\ dataEnd \in Nat /\ str \in Seq(Val) /\ str # <<>>
      /\ Len(str) \in Nat /\ Len(str) > 0 /\ Len(str) <= LogEnd - dataEnd
    <2>1. \A q \in Seq(Val) : q # <<>> => Len(q) > 0 /\ Len(q) \in Nat
        OBVIOUS
    <2> QED
        BY <2>1, Layout DEF AppendErase, Control, Writing, TypeOK, WriteInv, Addr
<1>2. /\ SpaceOnPage \in 1 .. PageSize
      /\ \A a \in Nat : dataEnd <= a /\ a < dataEnd + SpaceOnPage => a \div PageSize = dataEnd \div PageSize
      /\ (dataEnd + SpaceOnPage) \div PageSize = dataEnd \div PageSize + 1
      /\ \A a \in Nat : a \div PageSize = dataEnd \div PageSize + 1 => a > dataEnd
    BY <1>1, RestOfPage, LayoutAssumption DEF SpaceOnPage
<1>3. chunk' \in 1 .. PageSize /\ chunk' <= Len(str) /\ chunk' <= SpaceOnPage
    BY <1>1, <1>2, LayoutAssumption DEF AppendErase
<1>4. dataEnd \div PageSize \in Nat /\ p \in Nat /\ p > FirstDataPage /\ FirstDataPage >= 2 /\ FirstDataPage \in Nat
    <2>1. dataEnd \div PageSize \in Nat
        BY <1>1, LayoutAssumption
    <2>2. FirstDataPage >= 2 /\ FirstDataPage \in Nat
        BY Layout, LayoutAssumption
    <2> QED
        BY <2>1, <2>2
<1>5. \A a \in Addr : data'[a] = IF NeedsErase /\ a \div PageSize = dataEnd \div PageSize + 1 THEN Free ELSE data[a]
    <2> TAKE a \in Addr
    <2>1. a \div PageSize \in Nat
        BY Layout, LayoutAssumption
    <2>2. p = FirstDataPage + a \div PageSize <=> a \div PageSize = dataEnd \div PageSize + 1
        BY <1>4, <2>1
    <2>3. NeedsErase => data'[a] = IF p = FirstDataPage + a \div PageSize THEN Free ELSE data[a]
        BY DEF AppendErase, ErasePage
    <2>4. ~NeedsErase => data' = data
        BY DEF AppendErase, flashVars
    <2> QED
        BY <2>2, <2>3, <2>4
<1>6. /\ header' \in BOOLEAN /\ visible' \in BOOLEAN /\ meta' = meta /\ journal' = journal
      /\ data' \in [Addr -> Val \cup {Free, Zero, Ful}]
      /\ PagesFill'
    <2>1. CASE NeedsErase
        <3>1. ErasePage(p)
            BY <2>1 DEF AppendErase
        <3>2. p # 1 /\ p >= FirstDataPage
            BY <1>4
        <3> QED
            BY <1>4, <3>1, <3>2, ErasePageKeeps
    <2>2. CASE ~NeedsErase
        BY <2>2 DEF AppendErase, flashVars, TypeOK, PagesFill
    <2> QED
        BY <2>1, <2>2
<1>7. \A a \in Addr : a <= dataEnd => data'[a] = data[a]
    BY <1>1, <1>2, <1>5, Layout
<1>8. EndsAt(dataEnd)'
    <2>1. \A a \in Addr : a < dataEnd => data'[a] # Free
        BY <1>1, <1>7 DEF EndsAt, Addr
    <2>2. dataEnd < LogEnd => data'[dataEnd] = Free
        BY <1>1, <1>7 DEF EndsAt, TypeOK
    <2>3. dataEnd' = dataEnd
        BY DEF AppendErase, ramVars
    <2> QED
        BY <2>1, <2>2, <2>3 DEF EndsAt
<1>9. JournalBehindData'
    <2> SUFFICES ASSUME NEW i \in Index, NEW a \in Addr, a < journal[i] PROVE data'[a] # Free
        BY <1>6 DEF JournalBehindData
    <2>1. journal[i] <= dataEnd
        BY <1>1, JournalBelowEnd DEF TypeOK
    <2>2. journal[i] \in Int
        BY DEF TypeOK, Entry, FreeEntry, ZeroEntry, Addr
    <2>3. a < dataEnd
        BY <1>1, <2>1, <2>2 DEF Addr
    <2> QED
        BY <1>1, <1>7, <2>3 DEF EndsAt, Addr
<1>10. Room'
    <2> SUFFICES ASSUME NEW a \in Addr, dataEnd <= a, a <= dataEnd + chunk', a < LogEnd PROVE data'[a] = Free
        BY DEF Room, AppendErase, ramVars
    <2>1. data[dataEnd] = Free /\ dataEnd < LogEnd /\ a \in Nat /\ dataEnd \in Addr
        BY <1>1, Layout DEF EndsAt, Addr, TypeOK
    <2>2. CASE a < dataEnd + SpaceOnPage
        <3>1. a \div PageSize = dataEnd \div PageSize
            BY <1>2, <2>1, <2>2
        <3>2. data[a] = Free
            BY <2>1, <3>1 DEF PagesFill, Addr
        <3> QED
            BY <1>5, <3>2
    <2>3. CASE a = dataEnd + SpaceOnPage
        <3>1. chunk' = SpaceOnPage /\ SpaceOnPage <= Len(str)
            BY <1>1, <1>2, <1>3, <2>1, <2>3 DEF AppendErase
        <3>2. NeedsErase
            BY <2>3, <3>1 DEF NeedsErase
        <3> QED
            BY <1>2, <1>5, <2>3, <3>2
    <2>4. a < dataEnd + SpaceOnPage \/ a = dataEnd + SpaceOnPage
        <3>1. chunk' \in Int /\ SpaceOnPage \in Int /\ chunk' <= SpaceOnPage
            BY <1>2, <1>3, LayoutAssumption
        <3>2. dataEnd \in Int /\ a \in Int
            BY <1>1, <2>1
        <3> QED
            BY <3>1, <3>2, InReach, Zenon
    <2> QED
        BY <2>2, <2>3, <2>4
<1>11. TypeOK'
    BY <1>3, <1>6, <1>1 DEF AppendErase, ramVars, TypeOK
<1>12. Control'
    BY <1>1, <1>6, <1>8 DEF AppendErase, ramVars, Control, Writing, Clearing
<1>13. WriteInv'
    BY <1>1, <1>3, <1>10 DEF WriteInv, AppendErase, ramVars
<1> QED
    BY <1>6, <1>9, <1>11, <1>12, <1>13 DEF ClearInv, AppendErase

(* What AppendCell finds: the cell is free, and so is the next one. *)
LEMMA CellLands ==
    ASSUME StorageInv, AppendCell
    PROVE  /\ accepted' = TRUE /\ data' = [data EXCEPT ![dataEnd] = Head(str)]
           /\ meta = "valid" /\ EndsAt(dataEnd) /\ dataEnd \in Nat /\ dataEnd < LogEnd
           /\ str \in Seq(Val) /\ str # <<>> /\ Head(str) \in Val /\ Tail(str) \in Seq(Val)
           /\ Len(str) \in Nat /\ Len(Tail(str)) = Len(str) - 1
           /\ chunk \in Nat /\ chunk > 0 /\ chunk <= Len(str) /\ Len(str) <= LogEnd - dataEnd
<1>1. /\ accepted /\ chunk <= Len(str) /\ Room /\ Len(str) <= LogEnd - dataEnd /\ initialised /\ chunk > 0
      /\ str \in Seq(Val) /\ Len(str) \in Nat /\ chunk \in Nat /\ dataEnd \in Nat /\ LogEnd \in Nat
    BY Layout, LayoutAssumption DEF StorageInv, AppendCell, WriteInv, Control, Writing, TypeOK, Addr
<1>2. str # <<>> /\ Head(str) \in Val /\ Tail(str) \in Seq(Val) /\ Len(Tail(str)) = Len(str) - 1
    BY <1>1
<1>3. Writable
    BY <1>1 DEF Room, Writable, Addr
<1>4. accepted' = TRUE /\ data' = [data EXCEPT ![dataEnd] = Head(str)]
    BY <1>1, <1>3 DEF AppendCell
<1>5. meta = "valid" /\ EndsAt(dataEnd)
    BY <1>1 DEF StorageInv, Control
<1>6. dataEnd < LogEnd
    BY <1>1
<1> QED
    BY <1>1, <1>2, <1>4, <1>5, <1>6

LEMMA AppendCellKeeps == ASSUME StorageInv, AppendCell PROVE StorageInv'
<1> USE DEF StorageInv
<1>1. /\ accepted' = TRUE /\ data' = [data EXCEPT ![dataEnd] = Head(str)]
      /\ meta = "valid" /\ EndsAt(dataEnd) /\ dataEnd \in Nat /\ dataEnd < LogEnd
      /\ Head(str) \in Val /\ Tail(str) \in Seq(Val)
      /\ Len(str) \in Nat /\ Len(Tail(str)) = Len(str) - 1
      /\ chunk \in Nat /\ chunk > 0 /\ chunk <= Len(str) /\ Len(str) <= LogEnd - dataEnd
    BY CellLands
<1>2. dataEnd \in Addr /\ dataEnd + 1 \in Addr /\ data \in [Addr -> Val \cup {Free, Zero, Ful}]
    BY <1>1, Layout DEF TypeOK, Addr
<1>3. \A a \in Addr : data'[a] = IF a = dataEnd THEN Head(str) ELSE data[a]
    BY <1>1, <1>2
<1>4. dataEnd' = dataEnd + 1 /\ str' = Tail(str) /\ chunk' = chunk - 1 /\ pc = "write" /\ pc' = "write"
    BY DEF AppendCell
<1>5. Head(str) # Free
    BY <1>1, TextAssumption
<1>6. TypeOK'
    <2>1. data' \in [Addr -> Val \cup {Free, Zero, Ful}]
        BY <1>1, <1>2
    <2>2. chunk' \in 0 .. PageSize
        BY <1>1, <1>4, LayoutAssumption DEF TypeOK
    <2> QED
        BY <1>1, <1>2, <1>4, <2>1, <2>2 DEF TypeOK, AppendCell
<1>7. Room'
    <2> SUFFICES ASSUME NEW a \in Addr, dataEnd + 1 <= a, a <= dataEnd + 1 + (chunk - 1), a < LogEnd
                 PROVE  data'[a] = Free
        BY <1>4 DEF Room
    <2>1. a # dataEnd /\ dataEnd <= a /\ a <= dataEnd + chunk
        BY <1>1 DEF Addr
    <2> QED
        BY <1>3, <1>4, <2>1 DEF Room, WriteInv
<1>8. EndsAt(dataEnd)'
    <2>1. \A a \in Addr : a < dataEnd + 1 => data'[a] # Free
        BY <1>1, <1>3, <1>5 DEF EndsAt, Addr
    <2>2. dataEnd + 1 < LogEnd => data'[dataEnd + 1] = Free
        BY <1>1, <1>2, <1>3, <1>4 DEF Room, WriteInv, Addr
    <2> QED
        BY <1>4, <2>1, <2>2 DEF EndsAt
<1>9. PagesFill'
    <2> SUFFICES ASSUME NEW a \in Addr, NEW b \in Addr, a < b, b < LogEnd, a \div PageSize = b \div PageSize,
                        data'[a] = Free
                 PROVE  data'[b] = Free
        BY DEF PagesFill
    <2>1. a # dataEnd /\ data[a] = Free
        BY <1>3, <1>5
    <2>2. b # dataEnd
        BY <1>1, <2>1 DEF EndsAt
    <2> QED
        BY <1>3, <2>1, <2>2 DEF PagesFill
<1>10. JournalBehindData'
    BY <1>3, <1>5 DEF JournalBehindData, AppendCell
<1>11. Control'
    BY <1>1, <1>4, <1>8 DEF Control, AppendCell, Writing, Clearing
<1>12. WriteInv'
    BY <1>1, <1>4, <1>7, Layout DEF WriteInv
<1> QED
    BY <1>4, <1>6, <1>9, <1>10, <1>11, <1>12 DEF ClearInv

LEMMA AppendNextKeeps == ASSUME StorageInv, AppendNext PROVE StorageInv'
<1> USE DEF StorageInv, AppendNext, flashVars, ramVars
<1>1. TypeOK' /\ PagesFill' /\ JournalBehindData'
    BY Layout DEF TypeOK, PagesFill, JournalBehindData
<1>2. Control'
    BY DEF Control, Writing, Clearing, EndsAt
<1> QED
    BY <1>1, <1>2 DEF ClearInv, WriteInv

(* Journalling a block: *)
LEMMA NextHeadType ==
    \/ journalHead \notin Index
    \/ NextHead \in Index /\ NextHead \div PageEntries \in 0 .. JournalPages - 1
BY Layout, LayoutAssumption DEF NextHead, Index

LEMMA JournalKeeps ==
    ASSUME StorageInv, JournalErase \/ JournalWrite \/ JournalZero
    PROVE  StorageInv'
<1> USE DEF StorageInv
<1>1. /\ initialised /\ meta = "valid" /\ EndsAt(dataEnd) /\ dataEnd \in Nat /\ dataEnd \in Addr
      /\ NextHead \in Index /\ NextHead \div PageEntries \in 0 .. JournalPages - 1
    BY NextHeadType DEF JournalErase, JournalWrite, JournalZero, Control, Writing, TypeOK, Addr
<1>2. CASE JournalErase
    <2>1. /\ header' \in BOOLEAN /\ visible' \in BOOLEAN /\ meta' = meta /\ data' = data
          /\ journal' \in [Index -> Entry]
          /\ \A i \in Index : journal'[i] = journal[i] \/ journal'[i] = FreeEntry
        <3>1. CASE NextHead % PageEntries = 0
            <4> DEFINE p == 2 + NextHead \div PageEntries
            <4>1. p \in Nat /\ p < FirstDataPage /\ p # 1
                BY <1>1, Layout, LayoutAssumption
            <4>2. ErasePage(p)
                BY <1>2, <3>1 DEF JournalErase
            <4>3. \A i \in Index : journal'[i] = journal[i] \/ journal'[i] = FreeEntry
                BY <4>2 DEF ErasePage
            <4> QED
                BY <4>1, <4>2, <4>3, ErasePageKeeps
        <3>2. CASE NextHead % PageEntries # 0
            BY <1>2, <3>2 DEF JournalErase, flashVars, TypeOK
        <3> QED
            BY <3>1, <3>2
    <2>2. TypeOK'
        BY <1>2, <2>1 DEF JournalErase, ramVars, opVars, TypeOK
    <2>3. PagesFill'
        BY <2>1 DEF PagesFill
    <2>4. JournalBehindData'
        BY <2>1, Layout DEF JournalBehindData, FreeEntry, Addr
    <2> QED
        BY <1>2, <2>1, <2>2, <2>3, <2>4 DEF JournalErase, ramVars, opVars, Control, Writing, Clearing, EndsAt, ClearInv, WriteInv
<1>3. CASE JournalWrite
    <2> DEFINE length == (dataEnd \div BlockSize) * BlockSize
    <2>1. length \in Addr /\ length <= dataEnd
        BY <1>1, BlockFloor, Layout DEF Addr
    <2>2. \A i \in Index : journal'[i] = journal[i] \/ journal'[i] = length
        BY <1>1, <1>3 DEF JournalWrite, TypeOK
    <2>3. journal' \in [Index -> Entry] /\ accepted' \in BOOLEAN
        BY <1>1, <1>3, <2>1 DEF JournalWrite, TypeOK, Entry
    <2>4. JournalBehindData'
        BY <1>1, <1>3, <2>1, <2>2 DEF JournalBehindData, JournalWrite, EndsAt, Addr
    <2> QED
        BY <1>3, <2>3, <2>4 DEF JournalWrite, ramVars, TypeOK, PagesFill, Control, Writing, Clearing, EndsAt,
           ClearInv, WriteInv
<1>4. CASE JournalZero
    <2>1. \A i \in Index : journal'[i] = journal[i] \/ journal'[i] = ZeroEntry
        BY <1>4 DEF JournalZero, TypeOK
    <2>2. JournalBehindData'
        BY <1>4, <2>1 DEF JournalBehindData, JournalZero, ZeroEntry, Addr
    <2>3. TypeOK'
        BY <1>1, <1>4, Layout DEF JournalZero, TypeOK, Entry
    <2> QED
        BY <1>4, <2>2, <2>3 DEF JournalZero, PagesFill, Control, Writing, Clearing, EndsAt, ClearInv, WriteInv
<1> QED
    BY <1>2, <1>3, <1>4

LEMMA InvalidateKeeps ==
    ASSUME StorageInv, Invalidate \/ InvalidateFull
    PROVE  StorageInv'
<1> USE DEF StorageInv
<1>1. CASE Invalidate
    <2>1. TypeOK' /\ PagesFill' /\ JournalBehindData'
        BY <1>1 DEF Invalidate, opVars, TypeOK, PagesFill, JournalBehindData
    <2>2. Control'
        BY <1>1 DEF Invalidate, Control, Writing, Clearing
    <2> QED
        BY <1>1, <2>1, <2>2 DEF Invalidate, opVars, ClearInv, WriteInv
<1>2. CASE InvalidateFull
    <2>1. data' \in [Addr -> Val \cup {Free, Zero, Ful}] /\ PagesFill' /\ JournalBehindData'
        BY <1>2, IndicatorKeeps DEF InvalidateFull
    <2>2. TypeOK' /\ Control'
        BY <1>2, <2>1 DEF InvalidateFull, ramVars, opVars, TypeOK, Control, Writing, Clearing
    <2> QED
        BY <1>2, <2>1, <2>2 DEF InvalidateFull, ramVars, opVars, ClearInv, WriteInv
<1> QED
    BY <1>1, <1>2

(* A reset forgets what is in RAM. *)
LEMMA RestartKeeps == ASSUME StorageInv, Restart PROVE StorageInv'
<1> USE DEF StorageInv, Restart, flashVars
<1>1. TypeOK'
    <2>1. str' \in Seq(Val) /\ chunk' \in 0 .. PageSize
        BY LayoutAssumption
    <2> QED
        BY <2>1, Layout DEF TypeOK
<1>2. PagesFill' /\ JournalBehindData'
    BY DEF PagesFill, JournalBehindData
<1> QED
    BY <1>1, <1>2 DEF Control, Writing, Clearing, ClearInv, WriteInv

LEMMA StorageStep == StorageInv /\ [Next]_vars => StorageInv'
<1> SUFFICES ASSUME StorageInv, [Next]_vars PROVE StorageInv'
    OBVIOUS
<1>1. ASSUME Format \/ \E fullErase \in BOOLEAN : Clear(fullErase) PROVE StorageInv'
    <2>1. FirstDataPage \in Nat /\ FirstDataPage + DataPages - 1 \in Nat
          /\ FirstDataPage + DataPages - 1 >= FirstDataPage
        BY Layout, LayoutAssumption
    <2> QED
        BY <1>1, <2>1, ClearStarts DEF Format, Clear
<1>2. ASSUME NEW s \in String, LogFull(s) \/ LogString(s) PROVE StorageInv'
    BY <1>2, LogFullKeeps, LogStringKeeps
<1>3. CASE UNCHANGED vars
    <2> USE <1>3 DEF StorageInv, vars, flashVars, ramVars, opVars
    <2>1. TypeOK' /\ PagesFill' /\ JournalBehindData'
        BY DEF TypeOK, PagesFill, JournalBehindData
    <2>2. Control' /\ ClearInv' /\ WriteInv'
        BY DEF Control, Writing, Clearing, EndsAt, ClearInv, ErasedTo, FirstPageFree, JournalFree, WriteInv, Room
    <2> QED
        BY <2>1, <2>2
<1> QED
    BY <1>1, <1>2, <1>3, LoadKeeps, ClearEraseKeeps, ClearEndKeeps, AppendEraseKeeps, AppendCellKeeps, AppendNextKeeps,
       JournalKeeps, InvalidateKeeps, RestartKeeps DEF Next

LEMMA StorageInvariant == Spec => []StorageInv
BY StorageInit, StorageStep, PTL DEF Spec
-----------------------------------------------------------------------------
(* The pointers stay in the storage, its cells hold what may be written.      *)
THEOREM TypeCorrect == Spec => []TypeOK
<1>1. StorageInv => TypeOK
    BY DEF StorageInv
<1> QED
    BY <1>1, StorageInvariant, PTL

(* Wherever a reset cuts the updates short, the journal never points past the *)
(* text: init() does not skip free cells when it starts from there.           *)
THEOREM JournalIsBehind == Spec => []JournalBehindData
<1>1. StorageInv => JournalBehindData
    BY DEF StorageInv
<1> QED
    BY <1>1, StorageInvariant, PTL

(* The pointers in RAM are those a restart would find: no session overwrites  *)
(* another one's rows, whatever the journal has lost.                         *)
THEOREM RecoveryIsExact == Spec => []RecoversEnd
<1>1. StorageInv => RecoversEnd
    BY RecoversDataEnd DEF StorageInv, Control, RecoversEnd
<1> QED
    BY <1>1, StorageInvariant, PTL
-----------------------------------------------------------------------------
(* The storage implements an append-only log.                                 *)

(* A reader finds the text up to its end. *)
Text(e)      == [i \in 1 .. e |-> data[i - 1]]
ReadableText == \A e \in Addr : EndsAt(e) => Readable = Text(e)

LEMMA ReadsText == StorageInv /\ meta = "valid" => ReadableText
<1> SUFFICES ASSUME StorageInv, meta = "valid", NEW e \in Addr, EndsAt(e) PROVE Readable = Text(e)
    BY DEF ReadableText
<1>1. RecoveredEnd = e
    BY RecoveredEndEnds, OneEnd DEF StorageInv
<1> QED
    BY <1>1 DEF Readable, Text

LEMMA ReadsTextNext == (StorageInv /\ meta = "valid")' => ReadableText'
BY ReadsText, PTL

(* A step that changes no cell of the text, and not its end, changes nothing  *)
(* for a reader.                                                              *)
LEMMA SameText ==
    ASSUME StorageInv, StorageInv', meta' = meta,
           NEW e \in Addr, meta = "valid" => EndsAt(e) /\ EndsAt(e)' /\ \A a \in Addr : a < e => data'[a] = data[a]
    PROVE  Readable' = Readable
<1>1. CASE meta # "valid"
    BY <1>1 DEF Readable
<1>2. CASE meta = "valid"
    <2>1. Readable = Text(e) /\ Readable' = [i \in 1 .. e |-> data'[i - 1]]
        BY <1>2, ReadsText, ReadsTextNext DEF ReadableText, Text
    <2>2. \A i \in 1 .. e : data'[i - 1] = data[i - 1]
        BY <1>2, Layout DEF Addr
    <2> QED
        BY <2>1, <2>2 DEF Text
<1> QED
    BY <1>1, <1>2

(* The same for a step that leaves journal and data alone, below the FULL     *)
(* indicator.                                                                 *)
LEMMA UntouchedText ==
    ASSUME StorageInv, StorageInv', meta' = meta, \A a \in Addr : a < LogEnd => data'[a] = data[a]
    PROVE  Readable' = Readable
<1>1. CASE meta # "valid"
    BY <1>1 DEF Readable
<1>2. CASE meta = "valid"
    <2>1. RecoveredEnd \in Addr /\ EndsAt(RecoveredEnd)
        BY <1>2, RecoveredEndEnds DEF StorageInv
    <2>2. PICK e \in Addr : EndsAt(e)
        BY <2>1
    <2>3. EndsAt(e)' /\ \A a \in Addr : a < e => data'[a] = data[a]
        BY <2>2, Layout DEF EndsAt, Addr
    <2> QED
        BY <2>2, <2>3, SameText
<1> QED
    BY <1>1, <1>2

Pending == IF pc \in {"append", "write"} THEN str ELSE <<>>

(* How the steps of clear(), and of the start, look to a reader. *)
LEMMA ClearSeen ==
    ASSUME StorageInv, StorageInv', ClearErase \/ ClearHeader \/ ClearMeta \/ ClearEntry \/ ClearConfig
    PROVE  /\ Pending = <<>> /\ Pending' = <<>>
           /\ \/ Readable' = Readable
              \/ Readable' = <<>> /\ ~initialised'
<1>1. Pending = <<>> /\ Pending' = <<>>
    BY DEF Pending, ClearErase, ClearHeader, ClearMeta, ClearEntry, ClearConfig
<1> SUFFICES Readable' = Readable \/ (Readable' = <<>> /\ ~initialised')
    BY <1>1
<1>2. CASE ClearErase
    <2>1. CASE page = 0
        <3>1. data' = data /\ meta' = meta
            BY <1>2, <2>1, ErasePageKeeps, Layout, LayoutAssumption DEF ClearErase, StorageInv
        <3> QED
            BY <3>1, UntouchedText
    <2>2. CASE page # 0
        <3>1. meta' # "valid" /\ ~initialised'
            BY <1>2, <2>2 DEF ClearErase, ErasePage, ClearInv, ramVars, Control, Clearing, TypeOK, StorageInv
        <3> QED
            BY <3>1 DEF Readable
    <2> QED
        BY <2>1, <2>2
<1>3. CASE ClearHeader
    BY <1>3, UntouchedText DEF ClearHeader
<1>4. CASE ClearMeta
    <2>1. EndsAt(0)' /\ meta' = "valid" /\ initialised' = initialised /\ ~initialised
        <3>1. 0 \div PageSize = 0
            BY LayoutAssumption
        <3> QED
            BY <1>4, <3>1, Layout DEF ClearMeta, ClearInv, FirstPageFree, EndsAt, Addr, ramVars, Control, Clearing,
               StorageInv
    <2>2. Readable' = [i \in 1 .. 0 |-> data'[i - 1]]
        BY <2>1, ReadsTextNext, Layout DEF ReadableText, Text
    <2>3. Readable' = <<>>
        BY <2>2
    <2> QED
        BY <2>1, <2>3
<1>5. CASE ClearEntry \/ ClearConfig
    BY <1>5, UntouchedText DEF ClearEntry, ClearConfig
<1> QED
    BY <1>2, <1>3, <1>4, <1>5

(* A character that is written is the next one of the text. *)
LEMMA CellSeen ==
    ASSUME StorageInv, StorageInv', AppendCell
    PROVE  Pending # <<>> /\ Pending' = Tail(Pending) /\ Readable' = Append(Readable, Head(Pending))
<1>1. /\ data' = [data EXCEPT ![dataEnd] = Head(str)] /\ meta = "valid" /\ EndsAt(dataEnd)
      /\ dataEnd \in Nat /\ dataEnd < LogEnd /\ str # <<>>
    BY CellLands
<1>2. pc = "write" /\ pc' = "write" /\ str' = Tail(str) /\ dataEnd' = dataEnd + 1 /\ meta' = meta /\ initialised'
    BY DEF AppendCell, StorageInv, Control, Writing
<1>3. dataEnd \in Addr /\ dataEnd + 1 \in Addr
    BY <1>1, Layout DEF Addr
<1>4. Readable = Text(dataEnd)
    BY <1>1, <1>3, ReadsText DEF ReadableText
<1>5. EndsAt(dataEnd)'
    BY <1>2 DEF StorageInv, Control
<1>6. Readable' = [i \in 1 .. dataEnd + 1 |-> data'[i - 1]]
    <2>1. ReadableText' /\ dataEnd' \in Addr
        BY <1>1, <1>2, <1>3, ReadsTextNext
    <2>2. Readable' = Text(dataEnd)'
        BY <1>5, <2>1 DEF ReadableText, EndsAt, Text
    <2> QED
        BY <1>2, <2>2 DEF Text
<1>7. \A i \in 1 .. dataEnd + 1 : data'[i - 1] = IF i = dataEnd + 1 THEN Head(str) ELSE data[i - 1]
    <2>1. \A a \in Addr : data'[a] = IF a = dataEnd THEN Head(str) ELSE data[a]
        BY <1>1, <1>3 DEF StorageInv, TypeOK
    <2>2. \A i \in 1 .. dataEnd + 1 : i - 1 \in Addr /\ (i - 1 = dataEnd <=> i = dataEnd + 1)
        BY <1>1, Layout DEF Addr
    <2> QED
        BY <2>1, <2>2
<1>8. Append(Text(dataEnd), Head(str)) = [i \in 1 .. dataEnd + 1 |-> IF i = dataEnd + 1 THEN Head(str) ELSE data[i - 1]]
    BY <1>1 DEF Text
<1> QED
    BY <1>1, <1>2, <1>4, <1>6, <1>7, <1>8 DEF Pending

(* Every step is a step of the append-only log, or invisible. *)
LEMMA LogStep ==
    ASSUME StorageInv, StorageInv', [Next]_vars
    PROVE  [Log!Next]_(Log!vars)
<1> USE DEF Log!Next, Log!vars
<1>1. ASSUME Readable' = Readable, Pending' = Pending, initialised' = initialised
      PROVE  [Log!Next]_(Log!vars)
    BY <1>1 DEF Pending
<1>2. ASSUME Readable' = Readable, Pending' = Pending, initialised' PROVE [Log!Next]_(Log!vars)
    BY <1>2 DEF Log!Open, Pending
<1>3. ASSUME Readable' = Readable, Pending' = <<>>, ~initialised' PROVE [Log!Next]_(Log!vars)
    BY <1>3 DEF Log!Crash, Pending, StorageInv, TypeOK
<1>4. ASSUME Readable' = <<>>, Pending = <<>>, Pending' = <<>>, ~initialised' PROVE [Log!Next]_(Log!vars)
    BY <1>4 DEF Log!Clear, Pending, StorageInv, TypeOK
<1>5. ASSUME Load PROVE [Log!Next]_(Log!vars)
    <2>1. Readable' = Readable
        BY <1>5, UntouchedText DEF Load, flashVars
    <2> QED
        BY <1>2, <1>5, <2>1 DEF Load, opVars, Pending
<1>6. ASSUME NEW last, StartClear(last), pc = "idle" PROVE [Log!Next]_(Log!vars)
    <2>1. Readable' = Readable
        BY <1>6, UntouchedText DEF StartClear, StorageInv, TypeOK
    <2> QED
        BY <1>3, <1>6, <2>1 DEF StartClear, Pending
<1>7. ASSUME ClearErase \/ ClearHeader \/ ClearMeta \/ ClearEntry \/ ClearConfig PROVE [Log!Next]_(Log!vars)
    <2>1. Pending = <<>> /\ Pending' = <<>> /\ (Readable' = Readable \/ (Readable' = <<>> /\ ~initialised'))
        BY <1>7, ClearSeen
    <2> QED
        BY <1>2, <1>3, <1>4, <2>1
<1>8. ASSUME NEW s \in String, LogFull(s) PROVE [Log!Next]_(Log!vars)
    <2>1. meta' = meta /\ \A a \in Addr : a < LogEnd => data'[a] = data[a]
        BY <1>8 DEF LogFull, StorageInv, TypeOK
    <2>2. Readable' = Readable
        BY <2>1, UntouchedText
    <2> QED
        BY <1>1, <1>8, <2>2 DEF LogFull, opVars, Pending
<1>9. ASSUME NEW s \in String, LogString(s) PROVE [Log!Next]_(Log!vars)
    <2>1. Readable' = Readable
        BY <1>9, UntouchedText DEF LogString, flashVars
    <2>2. Pending = <<>> /\ Pending' = s /\ initialised /\ initialised' = initialised /\ s \in Seq(Val)
        BY <1>9, LayoutAssumption DEF LogString, Pending, ramVars, String
    <2>3. Readable = Text(dataEnd) /\ dataEnd \in Nat
        BY <2>2, ReadsText, Layout DEF ReadableText, StorageInv, Control, TypeOK, Addr
    <2>4. Len(Readable) = dataEnd
        BY <2>3 DEF Text
    <2>5. Len(Readable) + Len(s) <= LogEnd
        BY <1>9, <2>2, <2>3, <2>4, Layout DEF LogString
    <2> QED
        BY <2>1, <2>2, <2>5 DEF Log!Begin, Pending
<1>10. ASSUME AppendErase PROVE [Log!Next]_(Log!vars)
    <2>1. dataEnd' = dataEnd /\ initialised' = initialised /\ str' = str /\ initialised
          /\ pc = "append" /\ pc' = "write"
        BY <1>10 DEF AppendErase, ramVars, StorageInv, Control, Writing
    <2>2. meta = "valid" /\ meta' = meta /\ EndsAt(dataEnd) /\ EndsAt(dataEnd)' /\ dataEnd \in Addr
        BY <2>1 DEF StorageInv, Control, TypeOK
    <2>3. \A a \in Addr : a < dataEnd => data'[a] = data[a]
        <3>1. dataEnd \in Nat /\ dataEnd \div PageSize \in Nat
            BY <2>2, Layout, LayoutAssumption
        <3>2. \A a \in Addr : a \div PageSize = dataEnd \div PageSize + 1 => a > dataEnd
            BY <3>1, RestOfPage, Layout
        <3>3. \A a \in Addr : a < dataEnd => FirstDataPage + dataEnd \div PageSize + 1 # FirstDataPage + a \div PageSize
            BY <3>1, <3>2, Layout, LayoutAssumption
        <3> QED
            BY <1>10, <3>3 DEF AppendErase, ErasePage, flashVars
    <2>4. Readable' = Readable
        BY <2>1, <2>2, <2>3, SameText DEF EndsAt
    <2> QED
        BY <1>1, <2>1, <2>4 DEF Pending
<1>11. ASSUME AppendCell PROVE [Log!Next]_(Log!vars)
    BY <1>11, CellSeen DEF Log!Put, Pending, AppendCell
<1>12. ASSUME AppendNext PROVE [Log!Next]_(Log!vars)
    <2>1. Readable' = Readable
        BY <1>12, UntouchedText DEF AppendNext, flashVars
    <2> QED
        BY <1>1, <1>12, <2>1 DEF AppendNext, ramVars, Pending
<1>13. ASSUME JournalErase \/ JournalWrite \/ JournalZero PROVE [Log!Next]_(Log!vars)
    <2>1. data' = data /\ meta' = meta
        <3>1. NextHead \div PageEntries \in 0 .. JournalPages - 1
            BY NextHeadType DEF StorageInv, TypeOK
        <3>2. 2 + NextHead \div PageEntries \in Nat /\ 2 + NextHead \div PageEntries < FirstDataPage
              /\ 2 + NextHead \div PageEntries # 1
            BY <3>1, Layout, LayoutAssumption
        <3> QED
            BY <1>13, <3>2, ErasePageKeeps DEF JournalErase, JournalWrite, JournalZero, flashVars, StorageInv
    <2>2. Readable' = Readable
        BY <2>1, UntouchedText
    <2> QED
        BY <1>1, <1>13, <2>2 DEF JournalErase, JournalWrite, JournalZero, ramVars, opVars, Pending
<1>14. ASSUME Invalidate PROVE [Log!Next]_(Log!vars)
    <2>1. meta' # "valid" /\ ~initialised' /\ Pending = <<>> /\ Pending' = <<>>
        BY <1>14 DEF Invalidate, opVars, Pending
    <2> QED
        BY <1>4, <2>1 DEF Readable
<1>15. ASSUME InvalidateFull PROVE [Log!Next]_(Log!vars)
    <2>1. Readable' = Readable
        BY <1>15, UntouchedText DEF InvalidateFull, StorageInv, TypeOK
    <2>2. Pending' = Pending /\ initialised' = initialised
        BY <1>15 DEF InvalidateFull, ramVars, opVars, Pending
    <2> QED
        BY <1>1, <2>1, <2>2
<1>16. ASSUME Restart PROVE [Log!Next]_(Log!vars)
    <2>1. Readable' = Readable
        BY <1>16, UntouchedText DEF Restart, flashVars
    <2>2. Pending' = <<>> /\ ~initialised'
        BY <1>16 DEF Restart, Pending
    <2> QED
        BY <1>3, <2>1, <2>2
<1>17. ASSUME UNCHANGED vars PROVE [Log!Next]_(Log!vars)
    <2>1. Readable' = Readable
        BY <1>17, UntouchedText DEF vars, flashVars
    <2> QED
        BY <1>1, <1>17, <2>1 DEF vars, ramVars, opVars, Pending
<1> QED
    BY <1>5, <1>6, <1>7, <1>8, <1>9, <1>10, <1>11, <1>12, <1>13, <1>14, <1>15, <1>16, <1>17
       DEF Next, Format, Clear

LEMMA LogInit == Init => Log!Init
BY DEF Init, Log!Init, Readable

(* The storage implements the append-only log: at every instant, resets       *)
(* included, a reader finds what was written, in order and nothing else.      *)
THEOREM StorageImplementsLog == Spec => AppendOnly
<1>1. StorageInv /\ StorageInv' /\ [Next]_vars => [Log!Next]_(Log!vars)
    BY LogStep
<1> QED
    BY <1>1, LogInit, StorageInvariant, PTL DEF Spec, AppendOnly, Log!Spec
-----------------------------------------------------------------------------
(* The journal.                                                               *)

(* Each block of the data has its journal entry: the journal never wraps, as  *)
(* in the layout the code makes.                                              *)
JournalFits == LogEnd \div BlockSize < Entries

(* The journal is filled from its start, the first entry apart; an entry      *)
(* tells of the block of its own number or of a later one, and is zeroed only *)
(* when the next one is there.                                                *)
JournalShape ==
    /\ \A i \in Index : journal[i] >= 0 => i * BlockSize <= journal[i]
    /\ \A i, k \in Index : 0 < i /\ i < k /\ journal[i] = FreeEntry => journal[k] = FreeEntry
    /\ \A i \in Index : journal[i] = ZeroEntry => i + 1 \in Index /\ journal[i + 1] # FreeEntry

(* h is the newest entry, and what comes after it is free. *)
Newest(h) ==
    /\ \A i \in Index : 0 < i /\ i <= h => journal[i] # FreeEntry
    /\ \A i \in Index : i > h => journal[i] = FreeEntry
    /\ journal[h] # ZeroEntry

HeadInv ==
    /\ IF pc = "jzero" THEN /\ journalHead + 1 \in Index /\ Newest(journalHead + 1)
                            /\ journal[journalHead + 1] # FreeEntry
                       ELSE Newest(journalHead)
    /\ journalHead * BlockSize <= dataEnd
    /\ pc \in {"append", "write"} => oldEnd <= dataEnd /\ journalHead * BlockSize <= oldEnd
    /\ pc \in {"journal", "jwrite"} => (journalHead + 1) * BlockSize <= dataEnd
    /\ pc = "jzero" => (journalHead + 1) * BlockSize <= dataEnd

JournalInv ==
    /\ accepted
    /\ meta = "valid" => JournalShape
    /\ pc = "config" => Newest(0)
    /\ initialised => HeadInv

(* init() resumes at the newest entry. *)
LEMMA RecoveredNewest ==
    ASSUME TypeOK, JournalShape
    PROVE  Newest(RecoveredHead)
<1> DEFINE stops == {i \in Index : journal[i] = FreeEntry /\ \E k \in Index : k < i /\ journal[k] # ZeroEntry}
<1>1. \A i \in Index : i \in Nat /\ journal[i] \in Entry
    BY Layout DEF TypeOK
<1>2. stops \cup {Entries} \in SUBSET Nat /\ ScanEnd = First(stops \cup {Entries})
    BY Layout DEF ScanEnd
<1>3. ScanEnd \in stops \cup {Entries} /\ \A m \in stops \cup {Entries} : ScanEnd <= m
    BY <1>2, FirstIsLeast
<1>4. ScanEnd \in 1 .. Entries
    BY <1>3, Layout DEF Index
<1> DEFINE last == ScanEnd - 1
<1>5. last \in Index
    BY <1>4, Layout DEF Index
<1>6. \A i \in Index : 0 < i /\ journal[i] = FreeEntry => i \in stops
    <2> SUFFICES ASSUME NEW i \in Index, 0 < i, journal[i] = FreeEntry PROVE i \in stops
        OBVIOUS
    <2>1. i - 1 \in Index /\ (i - 1) + 1 = i /\ i - 1 < i
        BY Layout DEF Index
    <2>2. journal[i - 1] # ZeroEntry
        BY <2>1 DEF JournalShape
    <2> QED
        BY <2>1, <2>2
<1>7. journal[last] # ZeroEntry
    <2>1. CASE ScanEnd = Entries
        <3>1. last + 1 \notin Index
            BY <1>4, <2>1, Layout DEF Index
        <3> QED
            BY <1>5, <3>1 DEF JournalShape
    <2>2. CASE ScanEnd \in stops
        <3>1. last + 1 = ScanEnd
            BY <1>4
        <3> QED
            BY <1>5, <2>2, <3>1 DEF JournalShape
    <2> QED
        BY <1>3, <2>1, <2>2
<1>8. last \in Scanned /\ \A k \in Scanned : k <= last
    BY <1>1, <1>4, <1>5, <1>7 DEF Scanned, Index
<1>9. RecoveredHead = last
    <2>1. Scanned \in SUBSET (0 .. Entries - 1) /\ Entries - 1 \in Nat /\ Scanned # {}
        BY <1>8, Layout DEF Scanned, Index
    <2>2. Last(Scanned) \in Scanned /\ \A m \in Scanned : Last(Scanned) >= m
        BY <2>1, LastIsGreatest
    <2>3. Last(Scanned) <= last /\ Last(Scanned) >= last /\ Last(Scanned) \in Nat /\ last \in Nat
        <3>1. last \in 0 .. Entries - 1 /\ last \in Nat
            BY <1>4, Layout
        <3>2. Last(Scanned) \in 0 .. Entries - 1
            BY <2>1, <2>2
        <3>3. Last(Scanned) <= last /\ Last(Scanned) >= last
            BY <1>8, <2>2
        <3> QED
            BY <2>1, <3>1, <3>2, <3>3
    <2>4. Last(Scanned) = last
        BY <2>3
    <2> QED
        BY <2>1, <2>4 DEF RecoveredHead
<1>10. \A i \in Index : 0 < i /\ i <= last => journal[i] # FreeEntry
    BY <1>1, <1>3, <1>4, <1>6
<1>11. \A i \in Index : i > last => journal[i] = FreeEntry
    <2> SUFFICES ASSUME NEW i \in Index, i > last PROVE journal[i] = FreeEntry
        OBVIOUS
    <2>1. ScanEnd <= i /\ i < Entries
        BY <1>1, <1>4, Layout DEF Index
    <2>2. ScanEnd \in stops /\ 0 < ScanEnd
        BY <1>1, <1>3, <1>4, <2>1
    <2> QED
        BY <1>1, <1>4, <2>1, <2>2 DEF JournalShape
<1> QED
    BY <1>7, <1>9, <1>10, <1>11 DEF Newest

(* A block boundary that is crossed has room for its entry, and no earlier    *)
(* entry's.                                                                   *)
LEMMA CrossedBlock ==
    ASSUME NEW h \in Nat, NEW old \in Nat, NEW end \in Nat,
           h * BlockSize <= old, old <= end, end \div BlockSize # old \div BlockSize
    PROVE  (h + 1) * BlockSize <= end
<1> DEFINE q == old \div BlockSize
           r == end \div BlockSize
<1>1. BlockSize \in Nat \ {0}
    BY LayoutAssumption
<1>2. q \in Nat /\ r \in Nat /\ h <= q /\ q <= r /\ r * BlockSize <= end
    BY <1>1
<1>3. h + 1 <= r
    BY <1>2
<1>4. (h + 1) * BlockSize <= r * BlockSize
    BY <1>1, <1>2, <1>3
<1> QED
    BY <1>1, <1>2, <1>4

LEMMA NextHeadFits ==
    ASSUME JournalFits, NEW h \in Nat, NEW end \in Addr, (h + 1) * BlockSize <= end
    PROVE  (h + 1) % Entries = h + 1 /\ h + 1 \in Index
<1>1. BlockSize \in Nat \ {0} /\ LogEnd \in Nat /\ end \in Nat /\ end <= LogEnd
    BY Layout, LayoutAssumption DEF Addr
<1>2. h + 1 <= LogEnd \div BlockSize
    <2>1. (h + 1) * BlockSize <= LogEnd
        BY <1>1
    <2> QED
        BY <1>1, <2>1
<1>3. h + 1 < Entries
    BY <1>1, <1>2, Layout DEF JournalFits
<1> QED
    BY <1>3, Layout DEF Index

(* A step that leaves the journal alone. *)
LEMMA SameJournal ==
    ASSUME TypeOK, \A i \in Index : journal'[i] = journal[i]
    PROVE  /\ JournalShape <=> JournalShape'
           /\ \A h \in Index : Newest(h) <=> Newest(h)'
BY DEF JournalShape, Newest, Index

LEMMA JournalInit == Init => JournalInv
BY DEF Init, JournalInv

LEMMA JournalClear ==
    ASSUME StorageInv, JournalInv,
           Load \/ ClearErase \/ ClearHeader \/ ClearMeta \/ ClearEntry \/ ClearConfig
    PROVE  JournalInv'
<1> USE DEF StorageInv
<1>1. CASE Load
    <2>1. /\ RecoveredEnd \in Addr /\ EndsAt(RecoveredEnd) /\ RecoveredHead \in Index /\ JournalShape
          /\ Newest(RecoveredHead) /\ meta = "valid"
        BY <1>1, RecoveredEndEnds, RecoveredHeadType, RecoveredNewest DEF JournalInv, Load
    <2>2. RecoveredHead * BlockSize <= RecoveredEnd
        <3>1. journal[RecoveredHead] <= RecoveredEnd /\ journal[RecoveredHead] \in Entry
            BY <2>1, JournalBelowEnd DEF TypeOK
        <3>2. CASE journal[RecoveredHead] \in Addr
            BY <2>1, <3>1, <3>2, Layout, LayoutAssumption DEF JournalShape, Addr, Index
        <3>3. CASE journal[RecoveredHead] = FreeEntry
            <4>1. RecoveredHead = 0
                BY <2>1, <3>3, Layout DEF Newest
            <4> QED
                BY <2>1, <4>1, Layout, LayoutAssumption DEF Addr
        <3> QED
            BY <2>1, <3>1, <3>2, <3>3 DEF Newest, Entry
    <2>3. Newest(RecoveredHead)' /\ JournalShape'
        BY <1>1, <2>1 DEF Load, flashVars, Newest, JournalShape, RecoveredHead, Scanned, ScanEnd
    <2>4. journalHead' = RecoveredHead /\ dataEnd' = RecoveredEnd /\ journal' = journal /\ pc' = "idle"
        BY <1>1 DEF Load, flashVars
    <2> QED
        BY <1>1, <2>1, <2>2, <2>3, <2>4 DEF Load, opVars, JournalInv, HeadInv, Newest
<1>2. CASE ClearErase
    <2>1. page \in Nat /\ ~initialised' /\ pc' # "config" /\ accepted' = accepted /\ ErasePage(page)
        BY <1>2 DEF ClearErase, TypeOK, Control, Clearing, ramVars
    <2>2. CASE page = 0
        <3>1. \A i \in Index : 2 + i \div PageEntries # 0
            BY Layout, LayoutAssumption
        <3>2. \A i \in Index : journal'[i] = journal[i]
            BY <2>1, <2>2, <3>1 DEF ErasePage
        <3>3. meta' = meta
            BY <2>1, <2>2 DEF ErasePage
        <3> QED
            BY <2>1, <3>2, <3>3, SameJournal DEF JournalInv
    <2>3. CASE page # 0
        <3>1. meta' # "valid"
            BY <1>2, <2>1, <2>3 DEF ErasePage, ClearErase, ClearInv
        <3> QED
            BY <2>1, <3>1 DEF JournalInv
    <2> QED
        BY <2>2, <2>3
<1>3. CASE ClearHeader
    BY <1>3, SameJournal DEF ClearHeader, ramVars, opVars, JournalInv, Control, Clearing
<1>4. CASE ClearMeta
    <2>1. JournalShape'
        BY <1>4, Layout DEF ClearMeta, ClearInv, JournalFree, JournalShape, FreeEntry, ZeroEntry
    <2> QED
        BY <1>4, <2>1 DEF ClearMeta, ramVars, opVars, JournalInv, Control, Clearing
<1>5. CASE ClearEntry
    <2>1. \A i \in Index : journal'[i] = IF i = 0 THEN 0 ELSE FreeEntry
        BY <1>5, Layout DEF ClearEntry, ClearInv, JournalFree, TypeOK, Control, Clearing
    <2>2. JournalShape'
        BY <2>1, LayoutAssumption, Layout DEF JournalShape, FreeEntry, ZeroEntry
    <2>3. Newest(0)'
        BY <2>1, Layout DEF Newest, FreeEntry, ZeroEntry
    <2> QED
        BY <1>5, <2>2, <2>3 DEF ClearEntry, ramVars, opVars, JournalInv, Control, Clearing
<1>6. CASE ClearConfig
    <2>1. journalHead' = 0 /\ dataEnd' = 0 /\ Newest(0)' /\ (meta' = "valid" => JournalShape') /\ pc' = "idle"
        BY <1>6 DEF ClearConfig, JournalInv, Control, Clearing, Newest, JournalShape
    <2>2. Newest(journalHead)'
        BY <2>1 DEF Newest
    <2> QED
        BY <1>6, <2>1, <2>2, LayoutAssumption DEF ClearConfig, opVars, JournalInv, HeadInv
<1> QED
    BY <1>1, <1>2, <1>3, <1>4, <1>5, <1>6

LEMMA JournalAppend ==
    ASSUME StorageInv, JournalInv,
           (\E s \in String : LogFull(s) \/ LogString(s)) \/ AppendErase \/ AppendCell \/ AppendNext
    PROVE  JournalInv'
<1> USE DEF StorageInv
<1>1. /\ initialised /\ meta = "valid" /\ pc \in {"idle", "append", "write"}
      /\ Newest(journalHead) /\ JournalShape /\ journalHead * BlockSize <= dataEnd
      /\ journalHead \in Index /\ journalHead \in Nat /\ dataEnd \in Nat /\ oldEnd \in Nat /\ BlockSize \in Nat \ {0}
    BY Layout, LayoutAssumption DEF LogFull, LogString, AppendErase, AppendCell, AppendNext, JournalInv, HeadInv,
       Control, Writing, TypeOK, Addr
<1>2. /\ journalHead' = journalHead /\ initialised' = initialised /\ meta' = meta
      /\ \A i \in Index : journal'[i] = journal[i]
    <2>1. CASE AppendErase
        <3> DEFINE p == FirstDataPage + dataEnd \div PageSize + 1
        <3>1. dataEnd \div PageSize \in Nat
            BY <1>1, LayoutAssumption
        <3>2. p \in Nat /\ p # 1 /\ \A i \in Index : p # 2 + i \div PageEntries
            BY <3>1, Layout, LayoutAssumption
        <3> QED
            BY <2>1, <3>2 DEF AppendErase, ErasePage, flashVars, ramVars
    <2>2. CASE ~AppendErase
        BY <2>2 DEF LogFull, LogString, AppendCell, AppendNext, flashVars, ramVars
    <2> QED
        BY <2>1, <2>2
<1>3. JournalShape' /\ Newest(journalHead)'
    <2>1. JournalShape'
        BY <1>1, <1>2, SameJournal
    <2> QED
        BY <1>1, <1>2, <2>1 DEF Newest
<1>4. pc' # "config" /\ pc' \in {"idle", "append", "write", "journal"}
    BY <1>1 DEF LogFull, LogString, AppendErase, AppendCell, AppendNext
<1>5. accepted'
    <2>1. CASE AppendCell
        BY <2>1, CellLands
    <2>2. CASE ~AppendCell
        BY <2>2 DEF LogFull, LogString, AppendErase, AppendNext, opVars, JournalInv
    <2> QED
        BY <2>1, <2>2
<1> DEFINE HeadBehind ==
        /\ journalHead * BlockSize <= dataEnd'
        /\ pc' \in {"append", "write"} => oldEnd' <= dataEnd' /\ journalHead * BlockSize <= oldEnd'
        /\ pc' = "journal" => (journalHead + 1) * BlockSize <= dataEnd'
<1>6. HeadBehind
    <2>1. journalHead * BlockSize \in Nat
        BY <1>1
    <2>2. ASSUME NEW s \in String, LogFull(s) \/ LogString(s) PROVE HeadBehind
        <3>1. CASE LogFull(s)
            <4>1. dataEnd' = dataEnd /\ pc = "idle" /\ pc' = "idle"
                BY <3>1 DEF LogFull, ramVars
            <4> QED
                BY <1>1, <4>1
        <3>2. CASE LogString(s)
            <4>1. dataEnd' = dataEnd /\ oldEnd' = dataEnd /\ pc' # "journal"
                BY <3>2 DEF LogString, ramVars
            <4> QED
                BY <1>1, <4>1
        <3> QED
            BY <2>2, <3>1, <3>2
    <2>3. pc \in {"append", "write"} => oldEnd <= dataEnd /\ journalHead * BlockSize <= oldEnd
        BY <1>1 DEF JournalInv, HeadInv
    <2>4. CASE AppendErase
        BY <1>1, <2>3, <2>4 DEF AppendErase, ramVars
    <2>5. CASE AppendCell
        BY <1>1, <2>1, <2>3, <2>5 DEF AppendCell
    <2>6. CASE AppendNext
        <3>1. dataEnd' = dataEnd /\ oldEnd <= dataEnd /\ journalHead * BlockSize <= oldEnd
            BY <2>3, <2>6 DEF AppendNext, ramVars
        <3>2. pc' = "journal" => (journalHead + 1) * BlockSize <= dataEnd
            <4>1. pc' = "journal" => dataEnd \div BlockSize # oldEnd \div BlockSize
                BY <2>6 DEF AppendNext, Crossed
            <4> QED
                BY <1>1, <3>1, <4>1, CrossedBlock
        <3>3. pc' \in {"append", "write"} => oldEnd' = oldEnd
            BY <2>6 DEF AppendNext
        <3> QED
            BY <1>1, <3>1, <3>2, <3>3
    <2> QED
        BY <2>2, <2>4, <2>5, <2>6
<1> QED
    BY <1>1, <1>2, <1>3, <1>4, <1>5, <1>6 DEF JournalInv, HeadInv

LEMMA JournalMoves ==
    ASSUME JournalFits, StorageInv, JournalInv, JournalErase \/ JournalWrite \/ JournalZero
    PROVE  JournalInv'
<1> USE DEF StorageInv
<1> DEFINE h    == journalHead
           next == journalHead + 1
<1>1. /\ initialised /\ meta = "valid" /\ JournalShape /\ HeadInv /\ accepted
      /\ h \in Index /\ h \in Nat /\ dataEnd \in Addr /\ dataEnd \in Nat /\ BlockSize \in Nat \ {0}
      /\ next * BlockSize <= dataEnd
    BY Layout, LayoutAssumption DEF JournalErase, JournalWrite, JournalZero, JournalInv, HeadInv,
       Control, Writing, TypeOK, Addr
<1>2. NextHead = next /\ next \in Index
    BY <1>1, NextHeadFits DEF NextHead
<1>3. \A i \in Index : i \in Nat /\ journal[i] \in Entry
    BY Layout DEF TypeOK
<1>4. CASE JournalErase
    <2>1. Newest(h) /\ pc = "journal" /\ pc' = "jwrite"
        BY <1>1, <1>4 DEF HeadInv, JournalErase
    <2>2. meta' = meta /\ \A i \in Index : journal'[i] = journal[i]
        <3>1. CASE next % PageEntries = 0
            <4>1. \A i \in Nat : i \div PageEntries = next \div PageEntries => i > h
                BY <1>1, <3>1, LayoutAssumption
            <4>2. next \div PageEntries \in Nat
                BY <1>1, LayoutAssumption
            <4>3. \A i \in Index : 2 + next \div PageEntries = 2 + i \div PageEntries => journal[i] = FreeEntry
                BY <1>3, <2>1, <4>1, <4>2, Layout, LayoutAssumption DEF Newest
            <4> QED
                BY <1>2, <1>4, <3>1, <4>2, <4>3 DEF JournalErase, ErasePage
        <3>2. CASE next % PageEntries # 0
            BY <1>2, <1>4, <3>2 DEF JournalErase, flashVars
        <3> QED
            BY <3>1, <3>2
    <2>3. JournalShape' /\ \A i \in Index : Newest(i) <=> Newest(i)'
        BY <1>1, <2>2, SameJournal
    <2>4. journalHead' = h /\ dataEnd' = dataEnd /\ initialised' /\ accepted'
        BY <1>1, <1>4 DEF JournalErase, ramVars, opVars
    <2>5. Newest(journalHead)'
        BY <1>1, <2>1, <2>2, <2>4 DEF Newest
    <2> QED
        BY <1>1, <2>1, <2>3, <2>4, <2>5 DEF JournalInv, HeadInv
<1>5. CASE JournalWrite
    <2> DEFINE length == (dataEnd \div BlockSize) * BlockSize
    <2>1. Newest(h) /\ pc = "jwrite" /\ pc' = "jzero"
        BY <1>1, <1>5 DEF HeadInv, JournalWrite
    <2>2. journal[next] = FreeEntry
        BY <1>1, <1>2, <2>1 DEF Newest
    <2>3. accepted' /\ journal' = [journal EXCEPT ![next] = length] /\ meta' = meta
          /\ journalHead' = h /\ dataEnd' = dataEnd /\ initialised'
        BY <1>1, <1>2, <1>5, <2>2 DEF JournalWrite, ramVars
    <2>4. \A i \in Index : journal'[i] = IF i = next THEN length ELSE journal[i]
        BY <1>2, <2>3 DEF TypeOK
    <2>5. length \in Nat /\ next * BlockSize <= length
        <3>1. next <= dataEnd \div BlockSize /\ dataEnd \div BlockSize \in Nat /\ next \in Nat
            BY <1>1
        <3> QED
            BY <1>1, <3>1
    <2>6. length # FreeEntry /\ length # ZeroEntry
        BY <2>5 DEF FreeEntry, ZeroEntry
    <2>7. JournalShape'
        <3>1. \A i \in Index : journal'[i] >= 0 => i * BlockSize <= journal'[i]
            BY <1>1, <2>4, <2>5 DEF JournalShape
        <3>2. \A i, k \in Index : 0 < i /\ i < k /\ journal'[i] = FreeEntry => journal'[k] = FreeEntry
            <4> SUFFICES ASSUME NEW i \in Index, NEW k \in Index, 0 < i, i < k, journal'[i] = FreeEntry
                         PROVE  journal'[k] = FreeEntry
                OBVIOUS
            <4>1. i # next /\ journal[i] = FreeEntry
                BY <2>4, <2>6
            <4>2. 0 < i /\ ~(i <= h) /\ i # next /\ i \in Nat /\ k \in Nat
                BY <1>3, <2>1, <4>1 DEF Newest
            <4>3. k > next
                BY <1>1, <4>2
            <4>4. k > h /\ k # next
                BY <1>1, <4>3
            <4>5. journal[k] = FreeEntry
                BY <2>1, <4>4 DEF Newest
            <4> QED
                BY <2>4, <4>4, <4>5
        <3>3. \A i \in Index : journal'[i] = ZeroEntry => i + 1 \in Index /\ journal'[i + 1] # FreeEntry
            BY <1>1, <2>4, <2>6 DEF JournalShape
        <3> QED
            BY <3>1, <3>2, <3>3 DEF JournalShape
    <2>8. Newest(journalHead + 1)' /\ journal'[next] # FreeEntry
        BY <1>1, <1>2, <1>3, <2>1, <2>3, <2>4, <2>6 DEF Newest
    <2> QED
        BY <1>1, <1>2, <2>1, <2>3, <2>7, <2>8 DEF JournalInv, HeadInv
<1>6. CASE JournalZero
    <2>1. Newest(next) /\ pc = "jzero" /\ pc' = "idle" /\ journal[next] # FreeEntry
        BY <1>1, <1>6 DEF HeadInv, JournalZero
    <2>2. accepted' /\ journal' = [journal EXCEPT ![h] = ZeroEntry] /\ meta' = meta
          /\ journalHead' = next /\ dataEnd' = dataEnd /\ initialised'
        BY <1>1, <1>2, <1>6 DEF JournalZero
    <2>3. \A i \in Index : journal'[i] = IF i = h THEN ZeroEntry ELSE journal[i]
        BY <1>1, <2>2 DEF TypeOK
    <2>4. ZeroEntry # FreeEntry /\ ~(ZeroEntry >= 0) /\ h # next
        BY <1>1 DEF ZeroEntry, FreeEntry
    <2>5. JournalShape'
        <3>1. \A i \in Index : journal'[i] >= 0 => i * BlockSize <= journal'[i]
            BY <1>1, <2>3, <2>4 DEF JournalShape
        <3>2. \A i, k \in Index : 0 < i /\ i < k /\ journal'[i] = FreeEntry => journal'[k] = FreeEntry
            <4> SUFFICES ASSUME NEW i \in Index, NEW k \in Index, 0 < i, i < k, journal'[i] = FreeEntry
                         PROVE  journal'[k] = FreeEntry
                OBVIOUS
            <4>1. journal[i] = FreeEntry /\ i \in Nat /\ k \in Nat
                BY <1>3, <2>3, <2>4
            <4>2. 0 < i /\ ~(i <= next)
                BY <2>1, <4>1 DEF Newest
            <4>3. k > next
                BY <1>1, <4>1, <4>2
            <4>4. journal[k] = FreeEntry /\ k # h
                BY <1>1, <2>1, <4>3 DEF Newest
            <4> QED
                BY <2>3, <4>4
        <3>3. \A i \in Index : journal'[i] = ZeroEntry => i + 1 \in Index /\ journal'[i + 1] # FreeEntry
            BY <1>1, <1>2, <2>1, <2>3, <2>4 DEF JournalShape
        <3> QED
            BY <3>1, <3>2, <3>3 DEF JournalShape
    <2>6. Newest(journalHead)'
        BY <1>1, <1>2, <1>3, <2>1, <2>2, <2>3, <2>4 DEF Newest
    <2> QED
        BY <1>1, <2>1, <2>2, <2>5, <2>6 DEF JournalInv, HeadInv
<1> QED
    BY <1>4, <1>5, <1>6

LEMMA JournalStep ==
    ASSUME JournalFits, StorageInv, JournalInv, [Next]_vars
    PROVE  JournalInv'
<1>1. ASSUME NEW last, StartClear(last), pc = "idle" PROVE JournalInv'
    BY <1>1, SameJournal DEF StartClear, JournalInv, StorageInv
<1>2. CASE Invalidate \/ InvalidateFull \/ Restart \/ UNCHANGED vars
    <2>1. accepted' /\ (meta' = "valid" => meta = "valid") /\ \A i \in Index : journal'[i] = journal[i]
        BY <1>2 DEF Invalidate, InvalidateFull, Restart, vars, flashVars, opVars, JournalInv
    <2>2. meta' = "valid" => JournalShape'
        BY <2>1, SameJournal DEF JournalInv, StorageInv
    <2>3. CASE Invalidate \/ InvalidateFull \/ Restart
        BY <2>1, <2>2, <2>3 DEF Invalidate, InvalidateFull, Restart, ramVars, JournalInv, StorageInv, Control
    <2>4. CASE UNCHANGED vars
        BY <2>1, <2>2, <2>4 DEF vars, flashVars, ramVars, opVars, JournalInv, HeadInv, Newest
    <2> QED
        BY <1>2, <2>3, <2>4
<1> QED
    BY <1>1, <1>2, JournalClear, JournalAppend, JournalMoves DEF Next, Format, Clear

(* Where the journal has an entry for every block, no write of the log is     *)
(* refused by the cache, at whatever points earlier updates were cut short.   *)
THEOREM EveryWriteLands == JournalFits => (Spec => []WritesLand)
<1> SUFFICES ASSUME JournalFits PROVE Spec => []WritesLand
    OBVIOUS
<1>1. StorageInv /\ JournalInv /\ [Next]_vars => JournalInv'
    BY JournalStep
<1>2. JournalInv => WritesLand
    BY DEF JournalInv, WritesLand
<1> QED
    BY <1>1, <1>2, JournalInit, StorageInvariant, PTL DEF Spec
=============================================================================
