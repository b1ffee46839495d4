--------------------------- MODULE MicroBitLogFS ---------------------------
(***************************************************************************)
(* The log file system of MicroBitLog: metadata, journal and data pages on *)
(* NOR flash, the pointers held in RAM, and a reset between any two flash  *)
(* operations.                                                             *)
(*                                                                         *)
(* One caller at a time (the module MicroBitLog is about the lock), a      *)
(* transparent cache (FSCache implements NVStore), text without the byte   *)
(* 0xFF.  Addresses are relative to dataStart and count cells, the unit in *)
(* which a long flash write may be cut short by a reset; the FULL          *)
(* indicator is the last cell of the last data page.                       *)
(***************************************************************************)
EXTENDS Integers, Sequences, FiniteSets

CONSTANTS Val,           \* characters
          PageSize,      \* cells of a flash page
          BlockSize,     \* CONFIG_MICROBIT_LOG_CACHE_BLOCK_SIZE, in cells
          DataPages,     \* data pages
          JournalPages,  \* CONFIG_MICROBIT_LOG_JOURNAL_PAGES
          PageEntries,   \* journal entries of a page
          MaxString      \* bound: longest string logged

ASSUME LayoutAssumption ==
    /\ PageSize \in Nat \ {0, 1}
    /\ BlockSize \in Nat \ {0} /\ PageSize % BlockSize = 0
    /\ DataPages \in Nat \ {0}
    /\ JournalPages \in Nat \ {0}
    /\ PageEntries \in Nat \ {0}
    /\ MaxString \in Nat

VARIABLES header, meta, journal, data, visible,    \* flash, and the USB file's configuration
          initialised, full, dataEnd, journalHead,  \* RAM
          pc, page, lastPage, str, chunk, accepted, oldEnd    \* the operation in progress

flashVars == <<header, meta, journal, data, visible>>
ramVars   == <<initialised, full, dataEnd, journalHead>>
opVars    == <<page, lastPage, str, chunk, accepted, oldEnd>>
vars      == <<flashVars, ramVars, pc, opVars>>

Free == "free"    \* 0xFF bytes
Zero == "zero"    \* 0x00 bytes
Ful  == "FUL"     \* the FULL indicator

ASSUME TextAssumption == Free \notin Val

LogEnd  == DataPages * PageSize - 1
Addr    == 0 .. LogEnd
Entries == JournalPages * PageEntries
Index   == 0 .. Entries - 1

(* A journal entry is a length in text, or one of two byte patterns. *)
FreeEntry == -1
ZeroEntry == -2
Entry     == {FreeEntry, ZeroEntry} \cup Addr

String == UNION {[1 .. n -> Val] : n \in 0 .. MaxString}

First(S) == CHOOSE i \in S : \A j \in S : i <= j
Last(S)  == CHOOSE i \in S : \A j \in S : i >= j
-----------------------------------------------------------------------------
(* init() on a valid file system.  The scan of the journal stops at an unused *)
(* entry that follows one that is not zeroed; an unused entry that follows    *)
(* only zeroed ones is parsed, as length 0.                                   *)
ScanEnd ==
    First({i \in Index : journal[i] = FreeEntry /\ \E k \in Index : k < i /\ journal[k] # ZeroEntry}
          \cup {Entries})

Scanned == LET end == ScanEnd IN {k \in Index : k < end /\ journal[k] # ZeroEntry}

RecoveredHead == LET entries == Scanned IN IF entries = {} THEN 0 ELSE Last(entries)

JournalLength == LET entry == journal[RecoveredHead] IN IF entry \in Addr THEN entry ELSE 0

(* From there on, walk to the first unused byte. *)
RecoveredEnd ==
    LET from == JournalLength IN
    First({a \in from .. LogEnd - 1 : data[a] = Free} \cup {LogEnd})

(* What a reader of the storage finds. *)
Readable ==
    LET end == RecoveredEnd IN
    IF meta = "valid" THEN [i \in 1 .. end |-> data[i - 1]] ELSE <<>>
-----------------------------------------------------------------------------
(* clear(): from the new layout in RAM and the zeroed FULL indicator on.  It  *)
(* will erase the pages up to last, counting the header as 0, the metadata as *)
(* 1 and then the journal and the data pages.                                 *)
StartClear(last) ==
    /\ pc' = "erase" /\ page' = 0 /\ lastPage' = last
    /\ journalHead' = 0 /\ dataEnd' = 0
    /\ initialised' = FALSE /\ full' = FALSE
    /\ data' = [data EXCEPT ![LogEnd] = Zero]
    /\ UNCHANGED <<header, meta, journal, visible, str, chunk, accepted, oldEnd>>

FirstDataPage == 2 + JournalPages

Clear(fullErase) ==
    /\ pc = "idle"
    /\ StartClear(IF fullErase THEN FirstDataPage + DataPages - 1 ELSE FirstDataPage)

(* Faulty: trusts the journal for the end of the data. *)
LoadJournalled ==
    /\ pc = "idle" /\ ~initialised /\ meta = "valid"
    /\ journalHead' = RecoveredHead
    /\ dataEnd' = JournalLength
    /\ initialised' = TRUE
    /\ UNCHANGED <<flashVars, full, pc, opVars>>

(* init(), on the first call of the API: load the log, or make one. *)
Load ==
    /\ pc = "idle" /\ ~initialised /\ meta = "valid"
    /\ journalHead' = RecoveredHead
    /\ dataEnd' = RecoveredEnd
    /\ initialised' = TRUE
    /\ UNCHANGED <<flashVars, full, pc, opVars>>

Format ==
    /\ pc = "idle" /\ ~initialised /\ meta # "valid"
    /\ StartClear(FirstDataPage)

ErasePage(p) ==
    /\ header' = (header /\ p # 0)
    /\ meta' = IF p = 1 THEN "free" ELSE meta
    /\ journal' = [i \in Index |-> IF p = 2 + i \div PageEntries THEN FreeEntry ELSE journal[i]]
    /\ data' = [a \in Addr |-> IF p = FirstDataPage + a \div PageSize THEN Free ELSE data[a]]
    /\ UNCHANGED visible

ClearErase ==
    /\ pc = "erase"
    /\ ErasePage(page)
    /\ IF page = lastPage THEN pc' = "header" /\ page' = 0 /\ lastPage' = 0
                          ELSE page' = page + 1 /\ UNCHANGED <<pc, lastPage>>
    /\ UNCHANGED <<ramVars, str, chunk, accepted, oldEnd>>

ClearHeader ==
    /\ pc = "header"
    /\ header' = TRUE
    /\ pc' = "meta"
    /\ UNCHANGED <<meta, journal, data, visible, ramVars, opVars>>

ClearMeta ==
    /\ pc = "meta"
    /\ meta' = "valid"
    /\ pc' = "entry"
    /\ UNCHANGED <<header, journal, data, visible, ramVars, opVars>>

ClearEntry ==
    /\ pc = "entry"
    /\ journal' = [journal EXCEPT ![journalHead] = 0]
    /\ pc' = "config"
    /\ UNCHANGED <<header, meta, data, visible, ramVars, opVars>>

ClearConfig ==
    /\ pc = "config"
    /\ visible' = TRUE
    /\ initialised' = TRUE
    /\ pc' = "idle"
    /\ UNCHANGED <<header, meta, journal, data, full, dataEnd, journalHead, opVars>>
-----------------------------------------------------------------------------
(* logString(): a string that does not fit sets the FULL indicator, once.    *)
(* The cache refuses to write the indicator over anything but 0xFF.          *)
LogFull(s) ==
    /\ pc = "idle" /\ initialised
    /\ Len(s) > LogEnd - dataEnd
    /\ full' = TRUE
    /\ data' = IF full \/ data[LogEnd] # Free THEN data ELSE [data EXCEPT ![LogEnd] = Ful]
    /\ UNCHANGED <<header, meta, journal, visible, initialised, dataEnd, journalHead, pc, opVars>>

LogString(s) ==
    /\ pc = "idle" /\ initialised
    /\ s # <<>> /\ Len(s) <= LogEnd - dataEnd
    /\ pc' = "append" /\ str' = s /\ oldEnd' = dataEnd
    /\ UNCHANGED <<flashVars, ramVars, page, lastPage, chunk, accepted>>

SpaceOnPage == PageSize - (dataEnd % PageSize)

(* The page that follows has to be erased before this one is filled. *)
NeedsErase == SpaceOnPage <= Len(str) /\ dataEnd + SpaceOnPage < LogEnd

AppendErase ==
    /\ pc = "append" /\ str # <<>>
    /\ IF NeedsErase THEN ErasePage(FirstDataPage + dataEnd \div PageSize + 1)
                     ELSE UNCHANGED flashVars
    /\ pc' = "write"
    /\ chunk' = IF Len(str) < SpaceOnPage THEN Len(str) ELSE SpaceOnPage
    /\ accepted' = TRUE
    /\ UNCHANGED <<ramVars, page, lastPage, str, oldEnd>>

(* cache.write() of the rest of the chunk: it is refused as a whole, and the  *)
(* result ignored, if a cell of it has been written before.                   *)
Writable == \A a \in dataEnd .. dataEnd + chunk - 1 : data[a] = Free

AppendCell ==
    /\ pc = "write" /\ chunk > 0
    /\ accepted' = (accepted /\ Writable)
    /\ data' = IF accepted' THEN [data EXCEPT ![dataEnd] = Head(str)] ELSE data
    /\ dataEnd' = dataEnd + 1
    /\ str' = Tail(str)
    /\ chunk' = chunk - 1
    /\ UNCHANGED <<header, meta, journal, visible, initialised, full, journalHead, pc, page, lastPage, oldEnd>>

(* The end of an iteration, and of the loop: a crossed block boundary is      *)
(* journalled.                                                                *)
Crossed == dataEnd \div BlockSize # oldEnd \div BlockSize

(* Faulty: one chunk only, as if no string crossed a page. *)
AppendOnce ==
    /\ pc = "write" /\ chunk = 0
    /\ pc' = IF Crossed THEN "journal" ELSE "idle"
    /\ oldEnd' = IF Crossed THEN oldEnd ELSE 0
    /\ UNCHANGED <<flashVars, ramVars, page, lastPage, str, chunk, accepted>>

AppendNext ==
    /\ pc = "write" /\ chunk = 0
    /\ pc' = IF str # <<>> THEN "append" ELSE IF Crossed THEN "journal" ELSE "idle"
    /\ oldEnd' = IF str # <<>> \/ Crossed THEN oldEnd ELSE 0
    /\ UNCHANGED <<flashVars, ramVars, page, lastPage, str, chunk, accepted>>

NextHead == (journalHead + 1) % Entries

(* Faulty: the first page is not erased when the journal wraps around. *)
JournalEraseForward ==
    /\ pc = "journal"
    /\ IF NextHead % PageEntries = 0 /\ NextHead # 0 THEN ErasePage(2 + NextHead \div PageEntries)
                                                     ELSE UNCHANGED flashVars
    /\ pc' = "jwrite"
    /\ UNCHANGED <<ramVars, opVars>>

(* Moving on to a journal page, the last one followed by the first, erases it. *)
JournalErase ==
    /\ pc = "journal"
    /\ IF NextHead % PageEntries = 0 THEN ErasePage(2 + NextHead \div PageEntries)
                                     ELSE UNCHANGED flashVars
    /\ pc' = "jwrite"
    /\ UNCHANGED <<ramVars, opVars>>

(* Faulty: journals the block that is being filled as complete. *)
JournalAhead ==
    /\ pc = "jwrite"
    /\ accepted' = (journal[NextHead] = FreeEntry)
    /\ journal' = IF accepted' THEN [journal EXCEPT ![NextHead] = (dataEnd \div BlockSize + 1) * BlockSize]
                              ELSE journal
    /\ pc' = "jzero"
    /\ UNCHANGED <<header, meta, data, visible, ramVars, page, lastPage, str, chunk, oldEnd>>

JournalWrite ==
    /\ pc = "jwrite"
    /\ accepted' = (journal[NextHead] = FreeEntry)
    /\ journal' = IF accepted' THEN [journal EXCEPT ![NextHead] = (dataEnd \div BlockSize) * BlockSize]
                              ELSE journal
    /\ pc' = "jzero"
    /\ UNCHANGED <<header, meta, data, visible, ramVars, page, lastPage, str, chunk, oldEnd>>

JournalZero ==
    /\ pc = "jzero"
    /\ journal' = [journal EXCEPT ![journalHead] = ZeroEntry]
    /\ journalHead' = NextHead
    /\ pc' = "idle" /\ oldEnd' = 0
    /\ UNCHANGED <<header, meta, data, visible, initialised, full, dataEnd, page, lastPage, str, chunk, accepted>>
-----------------------------------------------------------------------------
(* invalidate(): the metadata and the FULL indicator are overwritten with    *)
(* zeroes, in place, if a log is present.                                     *)
Invalidate ==
    /\ pc = "idle"
    /\ IF initialised \/ meta = "valid"
       THEN meta' = "zero" /\ pc' = "inval"
       ELSE UNCHANGED <<meta, pc>>
    /\ initialised' = FALSE
    /\ UNCHANGED <<header, journal, data, visible, full, dataEnd, journalHead, opVars>>

InvalidateFull ==
    /\ pc = "inval"
    /\ data' = [data EXCEPT ![LogEnd] = Zero]
    /\ pc' = "idle"
    /\ UNCHANGED <<header, meta, journal, visible, ramVars, opVars>>

(* A reset: the constructor's state, and whatever the flash holds. *)
Restart ==
    /\ initialised' = FALSE /\ full' = FALSE
    /\ dataEnd' = 0 /\ journalHead' = 0
    /\ pc' = "idle"
    /\ page' = 0 /\ lastPage' = 0 /\ str' = <<>> /\ chunk' = 0 /\ accepted' = TRUE /\ oldEnd' = 0
    /\ UNCHANGED flashVars

(* A board whose storage holds no log, and is blank or full of other data. *)
Init ==
    /\ header = FALSE /\ meta = "free" /\ visible = FALSE
    /\ journal \in {[i \in Index |-> FreeEntry], [i \in Index |-> ZeroEntry]}
    /\ \E v \in Val \cup {Free} : data = [a \in Addr |-> v]
    /\ initialised = FALSE /\ full = FALSE
    /\ dataEnd = 0 /\ journalHead = 0
    /\ pc = "idle"
    /\ page = 0 /\ lastPage = 0 /\ str = <<>> /\ chunk = 0 /\ accepted = TRUE /\ oldEnd = 0

Next ==
    \/ Load \/ Format \/ \E fullErase \in BOOLEAN : Clear(fullErase)
    \/ ClearErase \/ ClearHeader \/ ClearMeta \/ ClearEntry \/ ClearConfig
    \/ \E s \in String : LogFull(s) \/ LogString(s)
    \/ AppendErase \/ AppendCell \/ AppendNext
    \/ JournalErase \/ JournalWrite \/ JournalZero
    \/ Invalidate \/ InvalidateFull
    \/ Restart

Spec == Init /\ [][Next]_vars
-----------------------------------------------------------------------------
TypeOK ==
    /\ header \in BOOLEAN /\ visible \in BOOLEAN /\ meta \in {"free", "zero", "valid"}
    /\ journal \in [Index -> Entry]
    /\ data \in [Addr -> Val \cup {Free, Zero, Ful}]
    /\ initialised \in BOOLEAN /\ full \in BOOLEAN
    /\ dataEnd \in Addr /\ journalHead \in Index
    /\ str \in Seq(Val) /\ chunk \in 0 .. PageSize /\ accepted \in BOOLEAN
    /\ page \in Nat /\ lastPage \in Nat /\ oldEnd \in Addr

(* The storage is an append-only log at every instant, a reset included: what *)
(* init() would recover loses nothing that was written, never takes in what   *)
(* an earlier log or a fast format left behind, and grows in order.           *)
Log == INSTANCE AppendLog WITH
         Capacity <- LogEnd,
         log <- Readable, open <- initialised,
         pending <- IF pc \in {"append", "write"} THEN str ELSE <<>>

AppendOnly == Log!Spec

(* The pointers in RAM agree with the storage: a restart would find dataEnd   *)
(* where the running program has it, so that no session overwrites another's  *)
(* rows.                                                                      *)
RecoversEnd == initialised /\ meta = "valid" => dataEnd = RecoveredEnd

(* The cache never refuses a write of the log, whose result MicroBitLog       *)
(* ignores: every byte and every journal entry lands on erased flash.         *)
WritesLand == accepted

(* The journal never points past the data: every entry is the length of a     *)
(* prefix that is written, at whatever point the updates were cut short.      *)
JournalBehindData ==
    meta = "valid" => \A i \in Index, a \in Addr : a < journal[i] => data[a] # Free

(* A log in use is complete: it has the page that shows it in a browser, and  *)
(* the file that holds it is visible.                                         *)
Published == initialised => header /\ visible
=============================================================================
