---------------------------- MODULE MicroBitLog ----------------------------
(***************************************************************************)
(* The row API of MicroBitLog and the fibers that call it: lazy init(),    *)
(* the lock, the columns shared by all callers, and the headings that are  *)
(* kept both in the log and in an area of their own.                       *)
(*                                                                         *)
(* Fibers are cooperative.  A call is a list of steps (its agenda), a step *)
(* that is itself a call puts that call's steps in front, and control      *)
(* passes to another fiber only before a step that waits for the lock or   *)
(* for the flash.  The log is a sequence of lines (MicroBitLogFS is about  *)
(* its bytes); every column name has the same length and no two of them    *)
(* differ only in bits that flash could still clear.                       *)
(***************************************************************************)
EXTENDS Naturals, Sequences, FiniteSets

CONSTANTS Fibers,       \* callers
          Keys,         \* column names that logData() is called with
          TimeKey,      \* timeStampHeading
          HeadSize,     \* the size of a line of headings; the size of a row is 1
          AreaSize,     \* column names the heading area holds
          Scenarios     \* the boards and programs considered

ASSUME LogAssumption ==
    /\ TimeKey \notin Keys
    /\ HeadSize \in Nat \ {0} /\ AreaSize \in Nat
    /\ \A s \in Scenarios :
         /\ s.fibers \subseteq Fibers /\ s.keys \subseteq Keys  \* who calls, with which columns
         /\ s.api \subseteq {"beginRow", "logData", "endRow", "logString", "setTimeStamp", "clear", "invalidate"}
         /\ s.space \in Nat \ {0}                              \* bound: the size of the log
         /\ s.formatted \in BOOLEAN                            \* the storage holds a log at the start
         /\ s.resets \in BOOLEAN                               \* the board may be reset

VARIABLES scenario,                                 \* the one of Scenarios at hand
          present, lines, area,                     \* flash: metadata, log, heading area
          initialised, rowStarted, full, dataEnd,   \* RAM: status flags, lines in the log
          keys, values, headingsChanged,            \* rowData: columns, those with a value
          headingStart, headingLength,              \* the headings in the area
          stamp,                                    \* timeStampFormat # None
          mutex,                                    \* holder of the lock, then its waiters
          agenda, running                           \* per fiber the steps left; who has the CPU

flashVars == <<present, lines, area>>
rowVars   == <<keys, values, headingsChanged, headingStart, headingLength>>
vars      == <<scenario, flashVars, initialised, rowStarted, full, dataEnd, rowVars, stamp, mutex, agenda, running>>

AllKeys == Keys \cup {TimeKey}
NoFiber == "none"
Free    == <<"free", "free">>     \* 0xFF bytes of the area
Zeroed  == <<"zero", "zero">>     \* 0x00 bytes of the area
Range(s) == {s[i] : i \in 1 .. Len(s)}

Step(op, arg)      == [op |-> op, arg |-> arg]
Steps(ops)         == [i \in 1 .. Len(ops) |-> Step(ops[i], <<>>)]
LogString(op, arg) == Steps(<<"wait", "acquire", "init">>) \o <<Step(op, arg)>> \o Steps(<<"notify">>)
ClearSteps(caller) == Steps(<<"wait", "acquire">>) \o <<Step("wipe", <<caller>>)>> \o Steps(<<"format", "notify">>)

Yields(s) == s.op \in {"probe", "loaded", "wipe", "format", "heads", "head", "row", "text", "erasemeta"}

(* f's next step is of the given kind, and f has the CPU or may get it. *)
At(f, op) == agenda[f] # <<>> /\ Head(agenda[f]).op = op /\ running \in {f, NoFiber}

HoldsFirst(q, f) == Head(q) = f /\ \A i \in 2 .. Len(q) : q[i] # f

(* Go on with these steps in place of the current one. *)
Then(f, steps) ==
    LET rest == steps \o Tail(agenda[f]) IN
    /\ agenda' = [agenda EXCEPT ![f] = rest]
    /\ running' = IF \/ rest = <<>> \/ Yields(Head(rest))
                     \/ Head(rest).op = "acquire" /\ ~HoldsFirst(mutex', f)
                  THEN NoFiber ELSE f
-----------------------------------------------------------------------------
(* FiberLock: wait() queues the caller, notify() hands the lock to the next.  *)
(* A fiber that waits for the lock it holds queues behind itself.             *)
Wait(f) ==
    /\ At(f, "wait")
    /\ mutex' = Append(mutex, f)
    /\ Then(f, <<>>)
    /\ UNCHANGED <<flashVars, initialised, rowStarted, full, dataEnd, rowVars, stamp>>

Acquire(f) ==
    /\ At(f, "acquire") /\ HoldsFirst(mutex, f)
    /\ UNCHANGED mutex /\ Then(f, <<>>)
    /\ UNCHANGED <<flashVars, initialised, rowStarted, full, dataEnd, rowVars, stamp>>

Notify(f) ==
    /\ At(f, "notify")
    /\ mutex' = Tail(mutex)
    /\ Then(f, <<>>)
    /\ UNCHANGED <<flashVars, initialised, rowStarted, full, dataEnd, rowVars, stamp>>
-----------------------------------------------------------------------------
(* init(): nothing to do, or ask the storage whether a log is present. *)
LogInit(f) ==
    /\ At(f, "init")
    /\ UNCHANGED mutex /\ Then(f, IF initialised THEN <<>> ELSE Steps(<<"probe">>))
    /\ UNCHANGED <<flashVars, initialised, rowStarted, full, dataEnd, rowVars, stamp>>

(* Faulty: formats whatever the storage holds. *)
ProbeBlind(f) ==
    /\ At(f, "probe")
    /\ UNCHANGED mutex /\ Then(f, ClearSteps("init"))
    /\ UNCHANGED <<flashVars, initialised, rowStarted, full, dataEnd, rowVars, stamp>>

(* The answer: init() starts over from an empty log and reads the storage, or *)
(* formats it.                                                                *)
Probe(f) ==
    /\ At(f, "probe")
    /\ UNCHANGED mutex
    /\ IF present
       THEN dataEnd' = 0 /\ Then(f, Steps(<<"loaded">>))
       ELSE Then(f, ClearSteps("init")) /\ UNCHANGED dataEnd
    /\ UNCHANGED <<flashVars, initialised, rowStarted, full, rowVars, stamp>>

(* The names found in the area, after its zeroed part. *)
Names == SelectSeq(area, LAMBDA u : u # Free /\ u # Zeroed)
AreaStart == Cardinality({i \in 1 .. AreaSize : area[i] = Zeroed}) + 1

Loaded(f) ==
    /\ At(f, "loaded")
    /\ dataEnd' = Len(lines)
    /\ headingLength' = Len(Names)
    /\ IF Names = <<>>
       THEN UNCHANGED <<keys, values, headingStart>>
       ELSE /\ headingStart' = AreaStart
            /\ keys' = [i \in 1 .. Len(Names) |-> Names[i][1]]
            /\ values' = {}
    /\ initialised' = TRUE
    /\ UNCHANGED mutex /\ Then(f, <<>>)
    /\ UNCHANGED <<flashVars, rowStarted, full, headingsChanged, stamp>>

(* clear(): the state in RAM, then the storage.  setTimeStamp() at its end    *)
(* puts the column of the time back.                                          *)
Wipe(f) ==
    /\ At(f, "wipe")
    /\ initialised' = FALSE /\ rowStarted' = FALSE /\ full' = FALSE
    /\ dataEnd' = 0
    /\ keys' = <<>> /\ values' = {} /\ headingsChanged' = FALSE
    /\ headingStart' = 0 /\ headingLength' = 0
    /\ present' = FALSE /\ lines' = <<>> /\ area' = [i \in 1 .. AreaSize |-> Free]
    /\ UNCHANGED mutex /\ Then(f, <<>>)
    /\ UNCHANGED stamp

(* addHeading(): in front while the log is empty, for the time. *)
AddTime == IF TimeKey \in Range(keys) THEN UNCHANGED <<keys, headingsChanged>>
           ELSE /\ keys' = IF dataEnd = 0 THEN <<TimeKey>> \o keys ELSE Append(keys, TimeKey)
                /\ headingsChanged' = TRUE

Format(f) ==
    /\ At(f, "format")
    /\ present' = TRUE
    /\ initialised' = TRUE
    /\ IF stamp THEN AddTime ELSE UNCHANGED <<keys, headingsChanged>>
    /\ UNCHANGED mutex /\ Then(f, <<>>)
    /\ UNCHANGED <<lines, area, rowStarted, full, dataEnd, values, headingStart, headingLength, stamp>>

SetTimeStamp(f) ==
    /\ At(f, "stamp")
    /\ stamp' = (Head(agenda[f]).arg # <<>>)
    /\ IF stamp' THEN AddTime ELSE UNCHANGED <<keys, headingsChanged>>
    /\ UNCHANGED mutex /\ Then(f, <<>>)
    /\ UNCHANGED <<flashVars, initialised, rowStarted, full, dataEnd, values, headingStart, headingLength>>
-----------------------------------------------------------------------------
(* Faulty: a line that does not fit is tried again, with the lock held. *)
AppendRetries(f, op) ==
    /\ At(f, op)
    /\ LET size == IF op = "head" THEN HeadSize ELSE 1 IN
       IF dataEnd + size > scenario.space
       THEN full' = TRUE /\ UNCHANGED <<lines, dataEnd, agenda, running>>
       ELSE /\ lines' = IF dataEnd = Len(lines) THEN lines \o [i \in 1 .. size |-> Head(agenda[f])] ELSE lines
            /\ dataEnd' = dataEnd + size
            /\ UNCHANGED <<full, mutex>> /\ Then(f, <<>>)
    /\ UNCHANGED <<mutex, present, area, initialised, rowStarted, rowVars, stamp>>

(* logString(): a line that does not fit marks the log full.  A line written  *)
(* where the flash is not erased is refused by the cache, and not noticed.    *)
AppendLine(f, op) ==
    /\ At(f, op)
    /\ LET size == IF op = "head" THEN HeadSize ELSE 1 IN
       IF dataEnd + size > scenario.space
       THEN full' = TRUE /\ UNCHANGED <<lines, dataEnd>>
       ELSE /\ lines' = IF dataEnd = Len(lines) THEN lines \o [i \in 1 .. size |-> Head(agenda[f])] ELSE lines
            /\ dataEnd' = dataEnd + size
            /\ UNCHANGED full
    /\ UNCHANGED mutex /\ Then(f, <<>>)
    /\ UNCHANGED <<present, area, initialised, rowStarted, rowVars, stamp>>

(* beginRow(), which ends a row that is open. *)
Begin(f) ==
    /\ At(f, "begin")
    /\ UNCHANGED mutex /\ Then(f, IF rowStarted THEN Steps(<<"end", "clean">>) ELSE Steps(<<"clean">>))
    /\ UNCHANGED <<flashVars, initialised, rowStarted, full, dataEnd, rowVars, stamp>>

CleanRow(f) ==
    /\ At(f, "clean")
    /\ values' = {} /\ rowStarted' = TRUE
    /\ UNCHANGED mutex /\ Then(f, <<>>)
    /\ UNCHANGED <<flashVars, initialised, full, dataEnd, keys, headingsChanged, headingStart, headingLength, stamp>>

(* logData(), which begins a row if none is open. *)
LogData(f) ==
    /\ At(f, "data")
    /\ UNCHANGED mutex
    /\ Then(f, (IF rowStarted THEN <<>> ELSE Steps(<<"init", "begin">>)) \o <<Step("set", Head(agenda[f]).arg)>>)
    /\ UNCHANGED <<flashVars, initialised, rowStarted, full, dataEnd, rowVars, stamp>>

(* Faulty: a new column does not mark the headings. *)
SetValueUnmarked(f) ==
    /\ At(f, "set")
    /\ LET k == Head(agenda[f]).arg[1] IN
       /\ values' = values \cup {k}
       /\ keys' = IF k \in Range(keys) THEN keys ELSE Append(keys, k)
    /\ UNCHANGED mutex /\ Then(f, <<>>)
    /\ UNCHANGED <<flashVars, initialised, rowStarted, full, dataEnd, headingsChanged, headingStart, headingLength, stamp>>

SetValue(f) ==
    /\ At(f, "set")
    /\ LET k == Head(agenda[f]).arg[1] IN
       /\ values' = values \cup {k}
       /\ IF k \in Range(keys) THEN UNCHANGED <<keys, headingsChanged>>
          ELSE keys' = Append(keys, k) /\ headingsChanged' = TRUE
    /\ UNCHANGED mutex /\ Then(f, <<>>)
    /\ UNCHANGED <<flashVars, initialised, rowStarted, full, dataEnd, headingStart, headingLength, stamp>>

(* endRow(): time, headings if they changed, the row, in this order. *)
EndRow(f) ==
    /\ At(f, "end")
    /\ UNCHANGED mutex /\ Then(f, IF rowStarted THEN Steps(<<"init", "time">>) ELSE <<>>)
    /\ UNCHANGED <<flashVars, initialised, rowStarted, full, dataEnd, rowVars, stamp>>

EndTime(f) ==
    /\ At(f, "time")
    /\ UNCHANGED mutex
    /\ Then(f, (IF values # {} /\ stamp THEN Steps(<<"init">>) \o <<Step("data", <<TimeKey>>)>> ELSE <<>>)
               \o Steps(<<"headings">>))
    /\ UNCHANGED <<flashVars, initialised, rowStarted, full, dataEnd, rowVars, stamp>>

EndHeadings(f) ==
    /\ At(f, "headings")
    /\ UNCHANGED mutex
    /\ IF headingsChanged
       THEN /\ headingStart' = IF headingStart = 0 THEN 1 ELSE headingStart
            /\ Then(f, <<Step("heads", keys)>> \o LogString("head", keys) \o Steps(<<"unchanged", "values">>))
       ELSE Then(f, Steps(<<"values">>)) /\ UNCHANGED headingStart
    /\ UNCHANGED <<flashVars, initialised, rowStarted, full, dataEnd, keys, values, headingsChanged, headingLength, stamp>>

(* The heading area: zero the old names, write the new ones behind them.  The *)
(* cache refuses names over other names, and names beyond the page are lost.  *)
WriteHeads(f) ==
    /\ At(f, "heads")
    /\ LET h     == Head(agenda[f]).arg
           unit  == [i \in 1 .. Len(h) |-> <<h[i], IF i = Len(h) THEN "newline" ELSE "comma">>]
           clean == [i \in 1 .. AreaSize |->
                       IF i \in headingStart .. headingStart + headingLength - 1 THEN Zeroed ELSE area[i]]
           start == headingStart + headingLength
           new   == [i \in 1 .. AreaSize |->
                       IF i \in start .. start + Len(h) - 1 THEN unit[i - start + 1] ELSE clean[i]]
           ok    == \A i \in 1 .. AreaSize : new[i] # clean[i] => clean[i] = Free
       IN  /\ area' = IF ok THEN new ELSE clean
           /\ headingStart' = start
    /\ UNCHANGED mutex /\ Then(f, <<>>)
    /\ UNCHANGED <<present, lines, initialised, rowStarted, full, dataEnd, keys, values, headingsChanged, headingLength, stamp>>

EndUnchanged(f) ==
    /\ At(f, "unchanged")
    /\ headingsChanged' = FALSE
    /\ UNCHANGED mutex /\ Then(f, <<>>)
    /\ UNCHANGED <<flashVars, initialised, rowStarted, full, dataEnd, keys, values, headingStart, headingLength, stamp>>

EndValues(f) ==
    /\ At(f, "values")
    /\ UNCHANGED mutex
    /\ Then(f, (IF values # {} THEN LogString("row", keys) ELSE <<>>) \o Steps(<<"ended">>))
    /\ UNCHANGED <<flashVars, initialised, rowStarted, full, dataEnd, rowVars, stamp>>

Ended(f) ==
    /\ At(f, "ended")
    /\ rowStarted' = FALSE
    /\ UNCHANGED mutex /\ Then(f, <<>>)
    /\ UNCHANGED <<flashVars, initialised, full, dataEnd, rowVars, stamp>>

(* invalidate(): zero the metadata of a log that is present. *)
Invalidate(f) ==
    /\ At(f, "invalidate")
    /\ UNCHANGED mutex
    /\ Then(f, IF initialised \/ present THEN Steps(<<"erasemeta">>) ELSE <<>>)
    /\ UNCHANGED <<flashVars, initialised, rowStarted, full, dataEnd, rowVars, stamp>>

EraseMeta(f) ==
    /\ At(f, "erasemeta")
    /\ present' = FALSE /\ lines' = <<>> /\ initialised' = FALSE
    /\ UNCHANGED mutex /\ Then(f, <<>>)
    /\ UNCHANGED <<area, rowStarted, full, dataEnd, rowVars, stamp>>
-----------------------------------------------------------------------------
(* What a call of the API starts with. *)
Calls(name) ==
    CASE name = "beginRow"     -> {Steps(<<"init", "begin">>)}
      [] name = "logData"      -> {Steps(<<"init">>) \o <<Step("data", <<k>>)>> : k \in scenario.keys}
      [] name = "endRow"       -> {Steps(<<"end">>)}
      [] name = "logString"    -> {LogString("text", <<>>)}
      [] name = "setTimeStamp" -> {Steps(<<"init">>) \o <<Step("stamp", format)>> : format \in {<<>>, <<TimeKey>>}}
      [] name = "clear"        -> {ClearSteps("user")}
      [] name = "invalidate"   -> {Steps(<<"invalidate">>)}

Call(f) ==
    /\ f \in scenario.fibers /\ agenda[f] = <<>> /\ running = NoFiber
    /\ \E name \in scenario.api : \E c \in Calls(name) : agenda' = [agenda EXCEPT ![f] = c]
    /\ running' = f
    /\ UNCHANGED <<flashVars, initialised, rowStarted, full, dataEnd, rowVars, stamp, mutex>>

Init ==
    /\ scenario \in Scenarios
    /\ present = scenario.formatted /\ lines = <<>> /\ area = [i \in 1 .. AreaSize |-> Free]
    /\ initialised = FALSE /\ rowStarted = FALSE /\ full = FALSE /\ dataEnd = 0
    /\ keys = <<>> /\ values = {} /\ headingsChanged = FALSE
    /\ headingStart = 0 /\ headingLength = 0 /\ stamp = FALSE
    /\ mutex = <<>> /\ agenda = [f \in Fibers |-> <<>>] /\ running = NoFiber

Restart ==
    /\ scenario.resets
    /\ initialised' = FALSE /\ rowStarted' = FALSE /\ full' = FALSE /\ dataEnd' = 0
    /\ keys' = <<>> /\ values' = {} /\ headingsChanged' = FALSE
    /\ headingStart' = 0 /\ headingLength' = 0 /\ stamp' = FALSE
    /\ mutex' = <<>> /\ agenda' = [f \in Fibers |-> <<>>] /\ running' = NoFiber
    /\ UNCHANGED flashVars

Work(f) ==
    \/ Wait(f) \/ Acquire(f) \/ Notify(f)
    \/ LogInit(f) \/ Probe(f) \/ Loaded(f) \/ Wipe(f) \/ Format(f) \/ SetTimeStamp(f)
    \/ \E op \in {"head", "row", "text"} : AppendLine(f, op)
    \/ Begin(f) \/ CleanRow(f) \/ LogData(f) \/ SetValue(f)
    \/ EndRow(f) \/ EndTime(f) \/ EndHeadings(f) \/ WriteHeads(f) \/ EndUnchanged(f) \/ EndValues(f) \/ Ended(f)
    \/ Invalidate(f) \/ EraseMeta(f)

Next ==
    /\ (\E f \in Fibers : Call(f) \/ Work(f)) \/ Restart
    /\ UNCHANGED scenario

Spec == Init /\ [][Next]_vars

(* The run queue of the scheduler is served in order and the flash answers, or *)
(* fails after a bounded number of retries: a fiber that is ready again and    *)
(* again gets its turn.                                                        *)
FairSpec == Spec /\ \A f \in Fibers : SF_vars(Work(f) /\ UNCHANGED scenario)
-----------------------------------------------------------------------------
TypeOK ==
    /\ present \in BOOLEAN /\ initialised \in BOOLEAN /\ rowStarted \in BOOLEAN /\ full \in BOOLEAN
    /\ Len(lines) <= scenario.space /\ dataEnd \in 0 .. scenario.space
    /\ Range(keys) \subseteq AllKeys /\ values \subseteq AllKeys
    /\ running \in Fibers \cup {NoFiber} /\ Range(mutex) \subseteq Fibers

(* The log is a table: every row has the columns of the last headings above it. *)
RowsMatchHeadings ==
    \A i \in 1 .. Len(lines) :
        lines[i].op = "row" =>
            \E j \in 1 .. i - 1 :
               /\ lines[j].op = "head" /\ lines[j].arg = lines[i].arg
               /\ \A m \in j + 1 .. i - 1 : lines[m].op # "head"

(* The same for one caller and no resets, as long as nothing was refused      *)
(* because the log is full.                                                   *)
TableUntilFull == Cardinality(scenario.fibers) = 1 /\ ~scenario.resets /\ ~full => RowsMatchHeadings

(* Formatting the storage because no log was found loses no line. *)
FormatsEmptyLog ==
    \A f \in Fibers : agenda[f] # <<>> /\ Head(agenda[f]) = Step("wipe", <<"init">>) => lines = <<>>

(* Between calls, the heading area holds the columns in use unless a change of *)
(* them is still to be written: a restart finds the columns it left.           *)
HeadingsSaved ==
    (\A f \in Fibers : agenda[f] = <<>>) /\ initialised /\ ~headingsChanged
    => keys = [i \in 1 .. Len(Names) |-> Names[i][1]]

(* Every call of the API returns: a board that is never reset or invalidated  *)
(* keeps the log it started with, so that init() never has to format one with *)
(* the lock held.                                                             *)
CallsReturnFormatted ==
    \A f \in Fibers :
        /\ scenario.formatted /\ ~scenario.resets /\ "invalidate" \notin scenario.api
        /\ agenda[f] # <<>>
        ~> agenda[f] = <<>>

(* Every call of the API returns. *)
CallsReturn == \A f \in Fibers : agenda[f] # <<>> ~> agenda[f] = <<>>
=============================================================================
