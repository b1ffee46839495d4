----------------------- MODULE MicroBitDeepSleepProofs -----------------------
(***************************************************************************)
(* Deep sleep, for any number of fibers, pins and calls, every duration    *)
(* and every bound on time: who waits for a sleep, what the pins are after *)
(* it, and when it ends.                                                   *)
(***************************************************************************)
EXTENDS MicroBitDeepSleep, TLAPS, FiniteSetTheorems, WellFoundedInduction

-----------------------------------------------------------------------------
(* The inductive invariant.                                                *)
Places == {"ready", "wait", "prepare", "block", "blocked_first", "blocked", "woken", "remainder", "plain"}
Timers == [value : Nat, due : Nat]

Types ==
    /\ scenario \in Scenarios
    /\ now \in 0 .. Horizon /\ board \in {"on", "asleep"} /\ target \in Nat
    /\ running \in Fibers \cup {None}
    /\ pc \in [Fibers -> Places] /\ due \in [Fibers -> Nat]
    /\ locked \in Nat /\ pending \in BOOLEAN /\ disabled \in Int /\ eventValue \in Nat
    /\ timers \in SUBSET Timers
    /\ savedFlag \in BOOLEAN /\ cancelled \in BOOLEAN

(* The board sleeps only when no fiber runs and no other sleep is prepared.*)
Down == board = "asleep" => running = None /\ ~pending

(* Until a prepared sleep is cancelled, the pins of the program are those  *)
(* that are armed or those that are saved.                                 *)
PinsKept ==
    ~cancelled =>
        IF board = "on" /\ ~pending THEN sense = Wanted
                                    ELSE savedFlag /\ savedSense = Wanted

(* Without a wake-up between its steps, the first wait of deepSleepWait()  *)
(* never blocks: the lock is either free, or held across a sleep that is   *)
(* pending, or just taken by the fiber that is about to prepare one.       *)
LockInv ==
    scenario # "racing" =>
        /\ \A f \in Fibers :
             /\ pc[f] # "blocked_first"
             /\ pc[f] \in {"wait", "prepare", "block"} <=> running = f
             /\ pc[f] \in {"prepare", "block"} => locked >= 1
             /\ pc[f] = "block" => pending
             /\ pc[f] = "blocked" => locked >= 2
        /\ locked = 1 => \E f \in Fibers : pc[f] \in {"prepare", "block"}
        /\ locked >= 2 => pending \/ board = "asleep"

(* Power down is disabled once for each fiber that sleeps plainly.         *)
Plain == {f \in Fibers : pc[f] = "plain"}
DisabledInv == disabled = Cardinality(Plain)

(* One timed sleep at a time: its timer event wakes the board, and a fiber *)
(* that waits for the board is released when it fires.                     *)
TimedInv ==
    scenario = "alone" =>
        /\ \A f, g \in Fibers : Timed(f) /\ Timed(g) => f = g
        /\ \A f \in Fibers : Timed(f) =>
             /\ due[f] > now => \E t \in timers : t.due = due[f]
             /\ board = "on" /\ pc[f] \in {"wait", "prepare", "block", "blocked"} => due[f] > now
             /\ board = "asleep" => target <= due[f]

SleepInv == board = "asleep" => now <= target /\ Plain = {}

LEMMA Constants ==
    /\ IsFiniteSet(Fibers) /\ None \notin Fibers
    /\ MinSleep \in Nat /\ MinOn \in Nat /\ Horizon \in Nat /\ Never \in Nat
    /\ \A d \in Durations : d \in Nat
    /\ \A prep \in PrepTimes : prep \in Nat
BY DeepSleepAssumption DEF Never

(* The earliest of the events comes first.                                 *)
LEMMA EarliestIsFirst ==
    ASSUME NEW events \in SUBSET Timers, events # {}
    PROVE  /\ \E e \in events : Earliest(events) = e.due
           /\ \A e \in events : Earliest(events) <= e.due
           /\ Earliest(events) \in Nat
<1> DEFINE S == {e.due : e \in events}
<1>1. S \in SUBSET Nat /\ S # {}
    BY DEF Timers
<1>2. PICK n \in S : \A m \in S : ~(<<m, n>> \in OpToRel(<, Nat))
    BY <1>1, NatLessThanWellFounded, WFMin
<1>3. OpToRel(<, Nat) = {p \in Nat \X Nat : p[1] < p[2]}
    BY Zenon DEF OpToRel
<1>4. \A m \in S : n <= m
    <2> HIDE DEF S
    <2>2. n \in Nat /\ \A m \in S : m \in Nat
        BY <1>1, <1>2
    <2> SUFFICES ASSUME NEW m \in S, m < n PROVE FALSE
        BY <2>2
    <2>1. <<m, n>> \in {p \in Nat \X Nat : p[1] < p[2]}
        BY <2>2
    <2> QED
        BY <1>2, <1>3, <2>1, Zenon
<1>5. n \in S /\ \A e \in events : n <= e.due
    BY <1>2, <1>4
<1>6. Earliest(events) \in S /\ \A e \in events : Earliest(events) <= e.due
    <2>1. \E t \in S : \A e \in events : t <= e.due
        BY <1>5
    <2> QED
        BY <2>1 DEF Earliest
<1> QED
    BY <1>1, <1>6

(* A release of the lock moves only the fibers behind it.                  *)
LEMMA Release ==
    ASSUME Types, NotifyAll
    PROVE  /\ pc' \in [Fibers -> Places] /\ locked' = 0
           /\ \A f \in Fibers : /\ pc[f] \notin {"blocked_first", "blocked"} => pc'[f] = pc[f]
                                /\ pc[f] = "blocked" => pc'[f] = "woken"
                                /\ pc[f] = "blocked_first" => pc'[f] = "prepare"
BY DEF NotifyAll, Released, Types, Places

LEMMA TypesInit == Init => Types
<1> SUFFICES ASSUME Init PROVE Types
    OBVIOUS
<1>1. pc \in [Fibers -> Places] /\ due \in [Fibers -> Nat]
    BY Constants DEF Init, Places
<1>2. now \in 0 .. Horizon /\ target \in Nat
    BY Constants DEF Init
<1>3. timers \in SUBSET Timers /\ scenario \in Scenarios
    BY DEF Init
<1>4. locked \in Nat /\ pending \in BOOLEAN /\ disabled \in Int /\ eventValue \in Nat
    <2>1. locked = 0 /\ disabled = 0 /\ eventValue = 0
        BY DEF Init
    <2>2. pending \in BOOLEAN
        BY Zenon DEF Init
    <2>3. locked \in Nat /\ disabled \in Int /\ eventValue \in Nat
        BY <2>1
    <2> QED
        BY <2>2, <2>3
<1>5. board \in {"on", "asleep"} /\ running \in Fibers \cup {None} /\ savedFlag \in BOOLEAN /\ cancelled \in BOOLEAN
    BY DEF Init
<1> QED
    BY <1>1, <1>2, <1>3, <1>4, <1>5 DEF Types

LEMMA TypesStep == Types /\ [Next]_vars => Types'
<1> SUFFICES ASSUME Types, [Next]_vars PROVE Types'
    OBVIOUS
<1> USE Constants
<1>1. ASSUME NEW f \in Fibers, DeepSleep(f) PROVE Types'
    BY <1>1 DEF DeepSleep, Calls, Goto, pinVars, Types, Places
<1>2. ASSUME NEW f \in Fibers, DeepSleepFor(f) PROVE Types'
    <2>1. PICK d \in Durations : /\ due' = [due EXCEPT ![f] = now + d]
                                 /\ timers' = timers \cup {[value |-> eventValue + 1, due |-> now + d]}
        BY <1>2 DEF DeepSleepFor
    <2>2. now + d \in Nat /\ eventValue + 1 \in Nat /\ "wait" \in Places
        BY DEF Types, Places
    <2>3. due' \in [Fibers -> Nat] /\ timers' \in SUBSET Timers
        BY <2>1, <2>2 DEF Types, Timers
    <2>4. pc' \in [Fibers -> Places]
        BY <1>2, <2>2 DEF DeepSleepFor, Goto, Types
    <2> QED
        BY <1>2, <2>2, <2>3, <2>4 DEF DeepSleepFor, Calls, pinVars, Types
<1>3. ASSUME NEW f \in Fibers, PlainSleep(f) PROVE Types'
    <2>1. PICK d \in Durations : /\ due' = [due EXCEPT ![f] = now + d]
                                 /\ eventValue' = eventValue + 1 \/ eventValue' = eventValue
        BY <1>3 DEF PlainSleep
    <2>2. now + d \in Nat /\ eventValue + 1 \in Nat /\ "plain" \in Places /\ disabled + 1 \in Int
        BY DEF Types, Places
    <2>3. due' \in [Fibers -> Nat] /\ pc' \in [Fibers -> Places]
        BY <1>3, <2>1, <2>2 DEF PlainSleep, Goto, Types
    <2> QED
        BY <1>3, <2>1, <2>2, <2>3 DEF PlainSleep, Calls, pinVars, Types
<1>4. ASSUME NEW f \in Fibers, DeepSleepAsync(f) PROVE Types'
    BY <1>4 DEF DeepSleepAsync, Calls, PrepareDeepSleep, PinsPrepare, pinVars, Types
<1>5. ASSUME NEW f \in Fibers, DeepSleepWait(f) PROVE Types'
    BY <1>5 DEF DeepSleepWait, Goto, timeVars, pinVars, Types, Places
<1>6. ASSUME NEW f \in Fibers, Prepare(f) PROVE Types'
    BY <1>6 DEF Prepare, PrepareDeepSleep, PinsPrepare, pinVars, timeVars, Goto, Types, Places
<1>7. ASSUME NEW f \in Fibers, Block(f) PROVE Types'
    BY <1>7 DEF Block, Goto, timeVars, pinVars, Types, Places
<1>8. ASSUME NEW f \in Fibers, Woken(f) PROVE Types'
    <2>1. timers' \in SUBSET Timers
        BY <1>8 DEF Woken, CancelTimer, Types
    <2> QED
        BY <1>8, <2>1 DEF Woken, Goto, pinVars, Types, Places
<1>9. ASSUME NEW f \in Fibers, SleepEnds(f) PROVE Types'
    <2>1. timers' \in SUBSET Timers
        BY <1>9 DEF SleepEnds, CancelTimer, Types
    <2> QED
        BY <1>9, <2>1 DEF SleepEnds, Goto, pinVars, Types, Places
<1>10. CASE CancelDeepSleep
    <2>1. pc' \in [Fibers -> Places] /\ locked' = 0
        BY <1>10, Release DEF CancelDeepSleep
    <2> QED
        BY <1>10, <2>1 DEF CancelDeepSleep, timeVars, pinVars, Types
<1>11. CASE StartDeepSleep
    <2>1. PICK prep \in PrepTimes : target' = IF timers = {} THEN Never ELSE SleepUntil(Earliest(timers), prep)
        BY <1>11 DEF StartDeepSleep
    <2>2. timers # {} => Earliest(timers) \in Nat
        BY EarliestIsFirst DEF Types
    <2>3. timers # {} => SleepUntil(Earliest(timers), prep) \in Nat
        BY <2>2 DEF SleepUntil, Types
    <2>4. target' \in Nat
        BY <2>1, <2>3
    <2> QED
        BY <1>11, <2>4 DEF StartDeepSleep, PinsBegin, fiberVars, timeVars, Types
<1>12. CASE RefuseDeepSleep
    <2>1. pc' \in [Fibers -> Places] /\ locked' = 0
        BY <1>12, Release DEF RefuseDeepSleep
    <2> QED
        BY <1>12, <2>1 DEF RefuseDeepSleep, timeVars, pinVars, Types
<1>13. CASE WakeUp
    <2>1. timers' \in SUBSET Timers
        BY <1>13 DEF WakeUp, StillDue, Types
    <2>2. pc' \in [Fibers -> Places] /\ locked' = 0
        BY <1>13, Release DEF WakeUp
    <2> QED
        BY <1>13, <2>1, <2>2 DEF WakeUp, PinsRestore, Types
<1>14. CASE Tick
    <2>1. timers' \in SUBSET Timers
        BY <1>14 DEF Tick, StillDue, Types
    <2>2. pc' \in [Fibers -> Places] /\ locked' \in Nat /\ pending' \in BOOLEAN /\ cancelled' \in BOOLEAN
        <3>1. CASE NotifyAll /\ pending' = FALSE /\ cancelled' = TRUE
            <4>1. pc' \in [Fibers -> Places] /\ locked' = 0
                BY <3>1, Release
            <4> QED
                BY <3>1, <4>1
        <3>2. CASE UNCHANGED <<pc, locked, pending, cancelled>>
            BY <3>2 DEF Types
        <3> QED
            BY <1>14, <3>1, <3>2 DEF Tick
    <2>3. now' \in 0 .. Horizon
        BY <1>14 DEF Tick, Types
    <2> QED
        BY <1>14, <2>1, <2>2, <2>3 DEF Tick, pinVars, Types
<1>15. CASE SleepOn
    BY <1>15 DEF SleepOn, fiberVars, pinVars, Types
<1>16. CASE UNCHANGED vars
    BY <1>16 DEF vars, fiberVars, timeVars, pinVars, Types
<1> QED
    BY <1>1, <1>2, <1>3, <1>4, <1>5, <1>6, <1>7, <1>8, <1>9, <1>10, <1>11, <1>12, <1>13, <1>14, <1>15, <1>16
       DEF Next, Fiber

-----------------------------------------------------------------------------
(* The pins.                                                               *)

(* No fiber runs while the board is asleep.                                *)
LEMMA FiberAwake ==
    ASSUME Types, Down, NEW f \in Fibers, Fiber(f)
    PROVE  board = "on" /\ board' = "on" /\ target' = target /\ scenario' = scenario /\ now' = now /\ cancelled' = cancelled
<1>1. board = "on"
    <2>1. running = f \/ board = "on"
        BY DEF Fiber, DeepSleep, DeepSleepFor, PlainSleep, DeepSleepAsync, DeepSleepWait, Prepare, Block, Woken,
           SleepEnds, Calls, Runs
    <2> QED
        BY <2>1, Constants DEF Down, Types
<1>2. /\ board' = board /\ target' = target /\ scenario' = scenario /\ now' = now /\ cancelled' = cancelled
    BY DEF Fiber, DeepSleep, DeepSleepFor, PlainSleep, DeepSleepAsync, DeepSleepWait, Prepare, Block, Woken,
       SleepEnds, Calls, timeVars
<1> QED
    BY <1>1, <1>2

LEMMA DownStep == Types /\ Down /\ [Next]_vars => Down'
<1> SUFFICES ASSUME Types, Down, [Next]_vars PROVE Down'
    OBVIOUS
<1>1. ASSUME NEW f \in Fibers, Fiber(f) PROVE Down'
    BY <1>1, FiberAwake DEF Down
<1>2. CASE CancelDeepSleep \/ RefuseDeepSleep \/ Tick
    BY <1>2 DEF CancelDeepSleep, RefuseDeepSleep, Tick, Idle, Down
<1>3. CASE StartDeepSleep
    BY <1>3 DEF StartDeepSleep, Idle, fiberVars, Down
<1>4. CASE WakeUp
    BY <1>4 DEF WakeUp, Down
<1>5. CASE SleepOn \/ UNCHANGED vars
    BY <1>5 DEF SleepOn, vars, fiberVars, Down
<1> QED
    BY <1>1, <1>2, <1>3, <1>4, <1>5 DEF Next

LEMMA PinsStep == Types /\ Down /\ PinsKept /\ [Next]_vars => PinsKept'
<1> SUFFICES ASSUME Types, Down, PinsKept, [Next]_vars, ~cancelled' PROVE PinsKept'
    BY DEF PinsKept
<1> USE DEF Wanted
<1>1. ASSUME NEW f \in Fibers, Fiber(f) PROVE PinsKept'
    <2>1. board = "on" /\ board' = "on" /\ ~cancelled
        BY <1>1, FiberAwake
    <2>2. CASE PrepareDeepSleep
        BY <2>1, <2>2 DEF PrepareDeepSleep, PinsPrepare, pinVars, PinsKept, Types
    <2>3. CASE pending' = pending /\ UNCHANGED pinVars
        BY <2>1, <2>3 DEF pinVars, PinsKept
    <2> QED
        BY <1>1, <2>2, <2>3 DEF Fiber, DeepSleep, DeepSleepFor, PlainSleep, DeepSleepAsync, DeepSleepWait, Prepare,
           Block, Woken, SleepEnds
<1>2. CASE CancelDeepSleep \/ RefuseDeepSleep
    BY <1>2 DEF CancelDeepSleep, RefuseDeepSleep
<1>3. CASE StartDeepSleep
    BY <1>3 DEF StartDeepSleep, PinsBegin, Idle, PinsKept
<1>4. CASE WakeUp
    BY <1>4 DEF WakeUp, PinsRestore, Down, PinsKept
<1>5. CASE Tick
    BY <1>5 DEF Tick, pinVars, PinsKept
<1>6. CASE SleepOn \/ UNCHANGED vars
    BY <1>6 DEF SleepOn, vars, pinVars, PinsKept
<1> QED
    BY <1>1, <1>2, <1>3, <1>4, <1>5, <1>6 DEF Next

(* Once the board has slept, its pins are as the program set them, however *)
(* many fibers asked for the sleep and wherever an event wakes the board,  *)
(* unless a sleep that was prepared has been cancelled.                    *)
THEOREM PinsComeBack == Spec => []PinsRestored
<1>1. Init => Down /\ PinsKept
    BY DEF Init, Down, PinsKept
<1>2. PinsKept => PinsRestored
    BY DEF PinsKept, PinsRestored
<1> QED
    BY <1>1, <1>2, TypesInit, TypesStep, DownStep, PinsStep, PTL DEF Spec

-----------------------------------------------------------------------------
(* The lock.                                                               *)
LEMMA SameScenario ==
    ASSUME Types, Down, [Next]_vars
    PROVE  scenario' = scenario
<1>1. ASSUME NEW f \in Fibers, Fiber(f) PROVE scenario' = scenario
    BY <1>1, FiberAwake
<1>2. CASE CancelDeepSleep \/ StartDeepSleep \/ RefuseDeepSleep \/ WakeUp \/ Tick \/ SleepOn \/ UNCHANGED vars
    BY <1>2 DEF CancelDeepSleep, StartDeepSleep, RefuseDeepSleep, WakeUp, Tick, SleepOn, vars
<1> QED
    BY <1>1, <1>2 DEF Next

LEMMA LockStep == Types /\ Down /\ LockInv /\ [Next]_vars => LockInv'
<1> SUFFICES ASSUME Types, Down, LockInv, [Next]_vars, scenario # "racing", scenario' # "racing" PROVE LockInv'
    BY SameScenario DEF LockInv
<1>0. /\ pc \in [Fibers -> Places] /\ locked \in Nat /\ pending \in BOOLEAN /\ None \notin Fibers
      /\ running \in Fibers \cup {None} /\ (board = "asleep" => running = None /\ ~pending)
    BY Constants DEF Types, Down
<1> USE DEF Goto, Places
<1>1. ASSUME NEW f \in Fibers, DeepSleep(f) \/ DeepSleepFor(f) PROVE LockInv'
    <2>1. /\ running = None /\ running' = f /\ pc' = [pc EXCEPT ![f] = "wait"] /\ pc[f] = "ready"
          /\ UNCHANGED <<locked, pending, board>>
        BY <1>1 DEF DeepSleep, DeepSleepFor, Calls
    <2> QED
        BY <1>0, <2>1 DEF LockInv
<1>2. ASSUME NEW f \in Fibers, PlainSleep(f) PROVE LockInv'
    <2>1. /\ running = None /\ running' = running /\ pc' = [pc EXCEPT ![f] = "plain"] /\ pc[f] = "ready"
          /\ UNCHANGED <<locked, pending, board>>
        BY <1>2 DEF PlainSleep, Calls
    <2> QED
        BY <1>0, <2>1 DEF LockInv
<1>3. ASSUME NEW f \in Fibers, DeepSleepAsync(f) PROVE LockInv'
    <2>1. UNCHANGED <<running, pc, locked, board>> /\ pending' = TRUE
        BY <1>3 DEF DeepSleepAsync, Calls, PrepareDeepSleep
    <2> QED
        BY <1>0, <2>1 DEF LockInv
<1>4. ASSUME NEW f \in Fibers, DeepSleepWait(f) PROVE LockInv'
    <2>1. running = f /\ pc[f] = "wait" /\ UNCHANGED <<pending, board>> /\ \A g \in Fibers : pc[g] \in {"wait", "prepare", "block"} => g = f
        BY <1>0, <1>4 DEF DeepSleepWait, LockInv
    <2>2. locked # 1
        BY <2>1 DEF LockInv
    <2>3. CASE locked = 0
        <3>1. locked' = 1 /\ pc' = [pc EXCEPT ![f] = "prepare"] /\ running' = f
            BY <1>4, <2>1, <2>3 DEF DeepSleepWait, WaitCount
        <3> QED
            BY <1>0, <2>1, <2>3, <3>1 DEF LockInv
    <2>4. CASE locked >= 2
        <3>1. locked' = locked /\ pc' = [pc EXCEPT ![f] = "prepare"] /\ running' = f
            BY <1>0, <1>4, <2>1, <2>4 DEF DeepSleepWait, WaitCount
        <3> QED
            BY <1>0, <2>1, <2>4, <3>1 DEF LockInv
    <2> QED
        BY <1>0, <2>2, <2>3, <2>4
<1>5. ASSUME NEW f \in Fibers, Prepare(f) PROVE LockInv'
    <2>1. pc[f] = "prepare" /\ pc' = [pc EXCEPT ![f] = "block"] /\ running' = f /\ pending' = TRUE /\ UNCHANGED <<locked, board>>
        BY <1>5 DEF Prepare, PrepareDeepSleep
    <2>2. running = f
        BY <2>1 DEF LockInv
    <2> QED
        BY <1>0, <2>1, <2>2 DEF LockInv
<1>6. ASSUME NEW f \in Fibers, Block(f) PROVE LockInv'
    <2>1. pc[f] = "block" /\ running = f /\ locked' = locked + 1 /\ UNCHANGED <<pending, board>>
        BY <1>6 DEF Block
    <2>2. locked >= 1 /\ pending
        BY <2>1 DEF LockInv
    <2>3. pc' = [pc EXCEPT ![f] = "blocked"] /\ running' = None
        BY <1>0, <1>6, <2>1, <2>2 DEF Block
    <2> QED
        BY <1>0, <2>1, <2>2, <2>3 DEF LockInv
<1>7. ASSUME NEW f \in Fibers, Woken(f) \/ SleepEnds(f) PROVE LockInv'
    <2>1. /\ pc[f] \in {"woken", "remainder", "plain"} /\ running \in {f, None} /\ running' = None
          /\ pc' = [pc EXCEPT ![f] = "ready"] \/ pc' = [pc EXCEPT ![f] = "remainder"]
          /\ UNCHANGED <<locked, pending, board>>
        BY <1>7 DEF Woken, SleepEnds, Runs
    <2>2. running = None
        BY <2>1 DEF LockInv
    <2> QED
        BY <1>0, <2>1, <2>2 DEF LockInv
<1>8. ASSUME NotifyAll, running = None, running' = None PROVE LockInv'
    <2>1. /\ locked' = 0
          /\ \A f \in Fibers : pc'[f] = IF pc[f] = "blocked" THEN "woken" ELSE pc[f]
        BY <1>8, Release DEF LockInv
    <2>2. \A f \in Fibers : pc[f] \notin {"wait", "prepare", "block", "blocked_first"}
        BY <1>0, <1>8 DEF LockInv
    <2>3. \A f \in Fibers : pc'[f] \notin {"wait", "prepare", "block", "blocked_first", "blocked"} /\ running' # f
        <3> SUFFICES ASSUME NEW f \in Fibers
                     PROVE  pc'[f] \notin {"wait", "prepare", "block", "blocked_first", "blocked"} /\ running' # f
            OBVIOUS
        <3>1. running' # f
            BY <1>0, <1>8
        <3> QED
            BY <2>1, <2>2, <3>1
    <2> QED
        BY <2>1, <2>3 DEF LockInv
<1>9. CASE CancelDeepSleep \/ RefuseDeepSleep
    BY <1>8, <1>9 DEF CancelDeepSleep, RefuseDeepSleep, Idle
<1>10. CASE StartDeepSleep
    <2>1. running = None /\ UNCHANGED <<running, pc, locked>> /\ board' = "asleep"
        BY <1>10 DEF StartDeepSleep, Idle, fiberVars
    <2> QED
        BY <1>0, <2>1 DEF LockInv
<1>11. CASE WakeUp
    BY <1>0, <1>8, <1>11 DEF WakeUp
<1>12. CASE Tick
    <2>1. running = None /\ running' = running /\ board' = board
        BY <1>12 DEF Tick, Idle
    <2>2. CASE NotifyAll
        BY <1>8, <2>1, <2>2
    <2>3. CASE UNCHANGED <<pc, locked, pending, cancelled>>
        BY <2>1, <2>3 DEF LockInv
    <2> QED
        BY <1>12, <2>2, <2>3 DEF Tick
<1>13. CASE SleepOn \/ UNCHANGED vars
    BY <1>13 DEF SleepOn, vars, fiberVars, LockInv
<1> QED
    BY <1>1, <1>2, <1>3, <1>4, <1>5, <1>6, <1>7, <1>9, <1>10, <1>11, <1>12, <1>13 DEF Next, Fiber

(* While no event falls between the steps of a request, a fiber that waits *)
(* behind the lock waits for a sleep that is pending or that the board is  *)
(* in, however many fibers ask for one and however their requests overlap. *)
THEOREM NobodyStranded == Spec => [](scenario # "racing" => NotStranded)
<1>1. Init => Down /\ LockInv
    <2> SUFFICES ASSUME Init PROVE Down /\ LockInv
        OBVIOUS
    <2>1. \A f \in Fibers : pc[f] = "ready"
        BY DEF Init
    <2> QED
        BY <2>1, Constants DEF Init, Down, LockInv
<1>2. Types /\ LockInv => (scenario # "racing" => NotStranded)
    BY DEF LockInv, NotStranded, Types
<1> QED
    BY <1>1, <1>2, TypesInit, TypesStep, DownStep, LockStep, PTL DEF Spec

-----------------------------------------------------------------------------
(* Power down is disabled while a fiber sleeps plainly.                    *)
LEMMA PlainCounted ==
    ASSUME Types, DisabledInv
    PROVE  /\ IsFiniteSet(Plain) /\ Cardinality(Plain) \in Nat
           /\ disabled <= 0 => Plain = {}
<1>1. IsFiniteSet(Plain)
    BY Constants, FS_Subset DEF Plain
<1>2. Cardinality(Plain) \in Nat /\ (Cardinality(Plain) = 0 <=> Plain = {})
    BY <1>1, FS_CardinalityType, FS_EmptySet
<1> QED
    BY <1>1, <1>2 DEF DisabledInv

(* The places of the fibers that a step moves.                             *)
LEMMA DisabledStep == Types /\ Down /\ DisabledInv /\ [Next]_vars => DisabledInv'
<1> SUFFICES ASSUME Types, Down, DisabledInv, [Next]_vars PROVE DisabledInv'
    OBVIOUS
<1>0. pc \in [Fibers -> Places] /\ IsFiniteSet(Plain) /\ disabled = Cardinality(Plain)
    BY PlainCounted DEF Types, DisabledInv
<1>1. ASSUME Plain' = Plain, disabled' = disabled PROVE DisabledInv'
    BY <1>1 DEF DisabledInv
<1>2. ASSUME NEW f \in Fibers, DeepSleep(f) \/ DeepSleepFor(f) \/ DeepSleepAsync(f) PROVE DisabledInv'
    <2>1. disabled' = disabled /\ (pc' = pc \/ (pc[f] = "ready" /\ pc' = [pc EXCEPT ![f] = "wait"]))
        BY <1>2 DEF DeepSleep, DeepSleepFor, DeepSleepAsync, Calls, Goto
    <2> QED
        BY <1>0, <1>1, <2>1 DEF Plain
<1>3. ASSUME NEW f \in Fibers, PlainSleep(f) PROVE DisabledInv'
    <2>1. pc[f] = "ready" /\ pc' = [pc EXCEPT ![f] = "plain"] /\ disabled' = disabled + 1
        BY <1>3 DEF PlainSleep, Calls, Goto
    <2>2. f \notin Plain /\ Plain' = Plain \cup {f}
        BY <1>0, <2>1 DEF Plain
    <2>3. Cardinality(Plain') = Cardinality(Plain) + 1
        BY <1>0, <2>2, FS_AddElement
    <2> QED
        BY <1>0, <2>1, <2>3 DEF DisabledInv
<1>4. ASSUME NEW f \in Fibers, DeepSleepWait(f) \/ Prepare(f) \/ Block(f) \/ Woken(f) PROVE DisabledInv'
    <2>1. disabled' = disabled /\ pc[f] \in {"wait", "prepare", "block", "woken"}
        BY <1>4 DEF DeepSleepWait, Prepare, Block, Woken
    <2>2. \E to \in {"blocked_first", "prepare", "block", "blocked", "woken", "ready", "remainder"} : pc' = [pc EXCEPT ![f] = to]
        BY <1>4 DEF DeepSleepWait, Prepare, Block, Woken, Goto
    <2>3. Plain' = Plain
        BY <1>0, <2>1, <2>2 DEF Plain
    <2> QED
        BY <1>1, <2>1, <2>3
<1>5. ASSUME NEW f \in Fibers, SleepEnds(f) PROVE DisabledInv'
    <2>1. CASE pc[f] = "remainder"
        <3>1. disabled' = disabled /\ pc' = [pc EXCEPT ![f] = "ready"]
            BY <1>5, <2>1 DEF SleepEnds, Goto
        <3> QED
            BY <1>0, <1>1, <2>1, <3>1 DEF Plain
    <2>2. CASE pc[f] = "plain"
        <3>1. disabled' = disabled - 1 /\ pc' = [pc EXCEPT ![f] = "ready"]
            BY <1>5, <2>2 DEF SleepEnds, Goto
        <3>2. f \in Plain /\ Plain' = Plain \ {f}
            BY <1>0, <2>2, <3>1 DEF Plain
        <3>3. Cardinality(Plain') = Cardinality(Plain) - 1
            BY <1>0, <3>2, FS_RemoveElement
        <3> QED
            BY <1>0, <3>1, <3>3 DEF DisabledInv
    <2> QED
        BY <1>5, <2>1, <2>2 DEF SleepEnds
<1>6. ASSUME NotifyAll PROVE Plain' = Plain
    BY <1>0, <1>6, Release DEF Plain
<1>7. CASE CancelDeepSleep \/ RefuseDeepSleep \/ WakeUp
    BY <1>1, <1>6, <1>7 DEF CancelDeepSleep, RefuseDeepSleep, WakeUp
<1>8. CASE Tick
    <2>1. disabled' = disabled /\ (NotifyAll \/ pc' = pc)
        BY <1>8 DEF Tick
    <2> QED
        BY <1>1, <1>6, <2>1 DEF Plain
<1>9. CASE StartDeepSleep \/ SleepOn \/ UNCHANGED vars
    <2>1. disabled' = disabled /\ pc' = pc
        BY <1>9 DEF StartDeepSleep, SleepOn, vars, fiberVars
    <2> QED
        BY <1>1, <2>1 DEF Plain
<1> QED
    BY <1>2, <1>3, <1>4, <1>5, <1>7, <1>8, <1>9 DEF Next, Fiber

-----------------------------------------------------------------------------
(* The time.                                                               *)

(* Powering down takes at most half of the shortest deep sleep.            *)
QuickPowerDown == \A prep \in PrepTimes : 2 * prep <= MinSleep

(* The compare register is set for the earliest timer event, less what     *)
(* powering down takes, and not for a time that is past.                   *)
LEMMA TargetInTime ==
    ASSUME Types, QuickPowerDown, CanDeepSleep, NEW prep \in PrepTimes,
           NEW wakes, wakes = IF timers = {} THEN Never ELSE SleepUntil(Earliest(timers), prep)
    PROVE  now <= wakes /\ \A t \in timers : wakes <= t.due
<1>1. now \in Nat /\ now <= Horizon /\ prep \in Nat /\ MinSleep \in Nat /\ 2 * prep <= MinSleep
    BY Constants DEF Types, QuickPowerDown
<1>2. CASE timers = {}
    BY <1>1, <1>2, Constants DEF Never
<1>3. CASE timers # {}
    <2> DEFINE wake == Earliest(timers)
    <2>1. wake \in Nat /\ (\A t \in timers : wake <= t.due) /\ wake - now >= MinSleep
        BY <1>3, EarliestIsFirst DEF Types, CanDeepSleep
    <2>2. \A t \in timers : t.due \in Nat
        BY DEF Types, Timers
    <2> HIDE DEF wake
    <2>3. ~(wake - now - 2 * prep < 0)
        BY <1>1, <2>1
    <2>4. wakes = wake - prep
        BY <1>3, <2>3 DEF SleepUntil, wake
    <2> QED
        BY <1>1, <2>1, <2>2, <2>4
<1> QED
    BY <1>2, <1>3

LEMMA TimedStep == Types /\ Down /\ LockInv /\ QuickPowerDown /\ TimedInv /\ [Next]_vars => TimedInv'
<1> SUFFICES ASSUME Types, Down, LockInv, QuickPowerDown, TimedInv, [Next]_vars, scenario = "alone", scenario' = "alone"
             PROVE  TimedInv'
    BY SameScenario DEF TimedInv
<1> DEFINE Waits(f) == pc[f] \in {"wait", "prepare", "block", "blocked"}
           Wakes(f) == \E t \in timers : t.due = due[f]
<1>0. /\ pc \in [Fibers -> Places] /\ due \in [Fibers -> Nat] /\ now \in Nat /\ now < Never
      /\ running \in Fibers \cup {None} /\ None \notin Fibers /\ board \in {"on", "asleep"}
      /\ \A f, g \in Fibers : Timed(f) /\ Timed(g) => f = g
      /\ \A f \in Fibers : Timed(f) =>
           /\ due[f] > now => Wakes(f)
           /\ board = "on" /\ Waits(f) => due[f] > now
           /\ board = "asleep" => target <= due[f]
    BY Constants DEF Types, TimedInv, Never
<1>00. /\ scenario # "racing"
       /\ \A f \in Fibers : /\ pc[f] # "blocked_first"
                            /\ pc[f] \in {"wait", "prepare", "block"} => running = f
                            /\ pc[f] = "blocked" => pending \/ board = "asleep"
    BY DEF LockInv
<1> USE DEF Goto
(* A step of f that gives no other fiber a new task.                       *)
<1>1. ASSUME NEW f \in Fibers, now' = now, board = "on", board' = "on", timers \subseteq timers',
             \A g \in Fibers : g # f => pc'[g] = pc[g] /\ due'[g] = due[g],
             Timed(f)' => /\ Timed(f) \/ \A g \in Fibers : ~Timed(g)
                          /\ due'[f] > now => Wakes(f)'
                          /\ Waits(f)' => due'[f] > now
      PROVE  TimedInv'
    <2>1. \A g \in Fibers : g # f => (Timed(g)' <=> Timed(g))
        BY <1>1 DEF Timed, Never
    <2>2. \A g, h \in Fibers : Timed(g)' /\ Timed(h)' => g = h
        BY <1>0, <1>1, <2>1
    <2>3. ASSUME NEW g \in Fibers, Timed(g)', g # f
          PROVE  (due'[g] > now' => \E t \in timers' : t.due = due'[g]) /\ (Waits(g)' => due'[g] > now')
        BY <1>0, <1>1, <2>1, <2>3
    <2> QED
        BY <1>1, <2>2, <2>3 DEF TimedInv
(* The step after which no fiber is in a timed sleep.                      *)
<1>2. ASSUME \A g \in Fibers : ~Timed(g)' PROVE TimedInv'
    BY <1>2 DEF TimedInv
<1>3. ASSUME NEW f \in Fibers, Fiber(f) PROVE board = "on" /\ board' = "on" /\ now' = now
    BY <1>3, FiberAwake
<1>4. ASSUME NEW f \in Fibers, DeepSleep(f) PROVE TimedInv'
    <2>1. pc' = [pc EXCEPT ![f] = "wait"] /\ due' = [due EXCEPT ![f] = Never] /\ timers' = timers
        BY <1>4 DEF DeepSleep
    <2>2. ~Timed(f)'
        BY <1>0, <2>1 DEF Timed, Never
    <2>3. board = "on" /\ board' = "on" /\ now' = now
        BY <1>3, <1>4 DEF Fiber
    <2> QED
        BY <1>0, <1>1, <2>1, <2>2, <2>3
<1>5. ASSUME NEW f \in Fibers, DeepSleepFor(f) PROVE TimedInv'
    <2>1. PICK d \in Durations : /\ d > MinSleep /\ due' = [due EXCEPT ![f] = now + d]
                                 /\ timers' = timers \cup {[value |-> eventValue + 1, due |-> now + d]}
        BY <1>5 DEF DeepSleepFor
    <2>2. /\ \A g \in Fibers : ~Timed(g)
          /\ \A g \in Fibers : g # f => pc'[g] = pc[g]
        BY <1>0, <1>5 DEF DeepSleepFor
    <2>3. /\ due'[f] > now
          /\ \A g \in Fibers : g # f => due'[g] = due[g]
        BY <1>0, <2>1, Constants
    <2>4. \E t \in timers' : t.due = due'[f]
        <3>1. due'[f] = now + d
            BY <1>0, <2>1
        <3>2. [value |-> eventValue + 1, due |-> now + d] \in timers'
            BY <2>1
        <3>3. [value |-> eventValue + 1, due |-> now + d].due = now + d
            OBVIOUS
        <3> QED
            BY <3>1, <3>2, <3>3
    <2>5. board = "on" /\ board' = "on" /\ now' = now /\ timers \subseteq timers'
        BY <1>3, <1>5, <2>1 DEF Fiber
    <2> QED
        BY <1>1, <2>2, <2>3, <2>4, <2>5
<1>6. ASSUME NEW f \in Fibers, PlainSleep(f) PROVE TimedInv'
    <2>1. pc' = [pc EXCEPT ![f] = "plain"] /\ timers' = timers /\ \A g \in Fibers : g # f => due'[g] = due[g]
        BY <1>0, <1>6 DEF PlainSleep
    <2>2. ~Timed(f)'
        BY <1>0, <2>1 DEF Timed
    <2>3. board = "on" /\ board' = "on" /\ now' = now
        BY <1>3, <1>6 DEF Fiber
    <2> QED
        BY <1>0, <1>1, <2>1, <2>2, <2>3
<1>7. ASSUME NEW f \in Fibers, DeepSleepAsync(f) \/ DeepSleepWait(f) \/ Prepare(f) \/ Block(f) PROVE TimedInv'
    <2>1. due' = due /\ timers' = timers
        BY <1>7 DEF DeepSleepAsync, DeepSleepWait, Prepare, Block, timeVars
    <2>2. board = "on" /\ board' = "on" /\ now' = now
        BY <1>3, <1>7 DEF Fiber
    <2>3. \/ pc' = pc
          \/ pc[f] \in {"wait", "prepare", "block"} /\ \E to \in Places : pc' = [pc EXCEPT ![f] = to]
        BY <1>7 DEF DeepSleepAsync, DeepSleepWait, Prepare, Block, Places
    <2>4. (\A g \in Fibers : g # f => pc'[g] = pc[g]) /\ (pc'[f] = pc[f] \/ pc[f] \in {"wait", "prepare", "block"})
        BY <1>0, <2>3
    <2>5. Timed(f)' => Timed(f) /\ (due[f] > now => Wakes(f)) /\ (Waits(f)' => due[f] > now)
        BY <1>0, <2>1, <2>2, <2>4 DEF Timed, Never
    <2> QED
        BY <1>1, <2>1, <2>2, <2>4, <2>5
<1>8. ASSUME NEW f \in Fibers, Woken(f) PROVE TimedInv'
    <2>1. board = "on" /\ board' = "on" /\ now' = now /\ pc[f] = "woken"
        BY <1>3, <1>8 DEF Fiber, Woken
    <2>2. CASE due[f] = Never
        <3>1. pc' = [pc EXCEPT ![f] = "ready"] /\ due' = [due EXCEPT ![f] = Never] /\ timers' = timers
            BY <1>8, <2>2 DEF Woken
        <3>2. ~Timed(f)'
            BY <1>0, <3>1 DEF Timed
        <3> QED
            BY <1>0, <1>1, <2>1, <3>1, <3>2
    <2>3. CASE due[f] # Never /\ due[f] <= now
        <3>1. pc' = [pc EXCEPT ![f] = "ready"] /\ due' = [due EXCEPT ![f] = Never]
            BY <1>8, <2>3 DEF Woken
        <3>2. Timed(f)
            BY <2>1, <2>3 DEF Timed
        <3>3. \A g \in Fibers : ~Timed(g)'
            BY <1>0, <3>1, <3>2 DEF Timed, Never
        <3> QED
            BY <1>2, <3>3
    <2>4. CASE due[f] # Never /\ ~(due[f] <= now)
        <3>1. pc' = [pc EXCEPT ![f] = "remainder"] /\ due' = due /\ timers' = timers
            BY <1>8, <2>4 DEF Woken
        <3>2. Timed(f) /\ due[f] > now
            BY <1>0, <2>1, <2>4 DEF Timed
        <3> QED
            BY <1>0, <1>1, <2>1, <3>1, <3>2
    <2> QED
        BY <2>2, <2>3, <2>4
<1>9. ASSUME NEW f \in Fibers, SleepEnds(f) PROVE TimedInv'
    <2>1. /\ board = "on" /\ board' = "on" /\ now' = now
          /\ pc' = [pc EXCEPT ![f] = "ready"] /\ due' = [due EXCEPT ![f] = Never] /\ due[f] <= now
        BY <1>3, <1>9 DEF Fiber, SleepEnds
    <2>2. ~Timed(f)'
        BY <1>0, <2>1 DEF Timed
    <2>3. CASE pc[f] = "plain"
        <3>1. timers' = timers
            BY <1>9, <2>3 DEF SleepEnds
        <3> QED
            BY <1>0, <1>1, <2>1, <2>2, <3>1
    <2>4. CASE pc[f] = "remainder"
        <3>1. Timed(f)
            BY <1>0, <2>1, <2>4 DEF Timed
        <3>2. \A g \in Fibers : ~Timed(g)'
            BY <1>0, <2>1, <3>1 DEF Timed, Never
        <3> QED
            BY <1>2, <3>2
    <2> QED
        BY <1>9, <2>3, <2>4 DEF SleepEnds
(* The lock is released: who was behind it is timed as before.             *)
<1>10. ASSUME NotifyAll PROVE \A f \in Fibers : pc'[f] = IF pc[f] = "blocked" THEN "woken" ELSE pc[f]
    BY <1>00, <1>10, Release
<1>11. CASE CancelDeepSleep \/ RefuseDeepSleep
    <2>1. /\ board = "on" /\ board' = board /\ now' = now /\ due' = due /\ timers' = timers
          /\ \A f \in Fibers : pc'[f] = IF pc[f] = "blocked" THEN "woken" ELSE pc[f]
        BY <1>10, <1>11 DEF CancelDeepSleep, RefuseDeepSleep, Idle, timeVars
    <2>2. \A f \in Fibers : Timed(f)' <=> Timed(f)
        BY <2>1 DEF Timed, Never
    <2> QED
        BY <1>0, <2>1, <2>2 DEF TimedInv
<1>12. CASE StartDeepSleep
    <2>1. PICK prep \in PrepTimes : target' = IF timers = {} THEN Never ELSE SleepUntil(Earliest(timers), prep)
        BY <1>12 DEF StartDeepSleep
    <2>2. \A t \in timers : target' <= t.due
        BY <1>12, <2>1, TargetInTime DEF StartDeepSleep
    <2>3. /\ board = "on" /\ board' = "asleep" /\ running = None /\ now' = now /\ due' = due /\ timers' = timers /\ pc' = pc
          /\ \A f \in Fibers : pc[f] = "remainder" => ~(due[f] <= now)
          /\ \A f \in Fibers : pc[f] # "woken"
        BY <1>12 DEF StartDeepSleep, Idle, Runnable, fiberVars, timeVars
    <2>4. \A f \in Fibers : Timed(f)' <=> Timed(f)
        BY <2>3 DEF Timed, Never
    <2>5. ASSUME NEW f \in Fibers, Timed(f) PROVE due[f] > now
        <3>1. pc[f] \in {"wait", "prepare", "block", "blocked", "remainder"}
            BY <1>0, <1>00, <2>3, <2>5 DEF Timed, Places
        <3> QED
            BY <1>0, <2>3, <2>5, <3>1
    <2>6. \A f \in Fibers : Timed(f) => target' <= due[f]
        BY <1>0, <2>2, <2>5
    <2> QED
        BY <1>0, <2>3, <2>4, <2>6 DEF TimedInv
<1>13. CASE WakeUp
    <2>1. /\ board = "asleep" /\ board' = "on" /\ running = None /\ now' = now /\ due' = due /\ timers' = StillDue(now)
          /\ \A f \in Fibers : pc'[f] = IF pc[f] = "blocked" THEN "woken" ELSE pc[f]
        BY <1>10, <1>13 DEF WakeUp, Down
    <2>2. \A f \in Fibers : (Timed(f)' <=> Timed(f)) /\ ~Waits(f)'
        BY <1>0, <1>00, <2>1 DEF Timed, Never
    <2>3. \A f \in Fibers : Timed(f) /\ due[f] > now => \E t \in timers' : t.due = due[f]
        BY <1>0, <2>1 DEF StillDue
    <2> QED
        BY <1>0, <2>1, <2>2, <2>3 DEF TimedInv
<1>14. CASE Tick
    <2>1. /\ board = "on" /\ board' = "on" /\ running = None /\ now' = now + 1 /\ due' = due /\ timers' = StillDue(now + 1)
          /\ \A f \in Fibers : pc'[f] = pc[f] \/ (pc[f] = "blocked" /\ pc'[f] = "woken")
        BY <1>10, <1>14 DEF Tick, Idle
    <2>2. \A f \in Fibers : Timed(f)' <=> Timed(f)
        BY <2>1 DEF Timed, Never
    <2>3. \A f \in Fibers : Timed(f) /\ due[f] > now + 1 => \E t \in timers' : t.due = due[f]
        BY <1>0, <2>1 DEF StillDue
    <2>4. ASSUME NEW f \in Fibers, Timed(f), Waits(f)' PROVE due[f] > now + 1
        <3>1. pc[f] = "blocked" /\ pc'[f] = "blocked" /\ pending /\ due[f] > now
            BY <1>0, <1>00, <2>1, <2>4
        <3>2. timers' = timers
            <4>1. ~NotifyAll
                BY <1>10, <3>1
            <4> QED
                BY <1>14, <3>1, <4>1 DEF Tick
        <3>3. PICK t \in timers : t.due = due[f]
            BY <1>0, <2>4, <3>1
        <3> QED
            BY <2>1, <3>2, <3>3 DEF StillDue
    <2> QED
        BY <1>0, <2>1, <2>2, <2>3, <2>4 DEF TimedInv
<1>15. CASE SleepOn
    <2>1. board = "asleep" /\ board' = board /\ target' = target /\ now' = now + 1 /\ due' = due /\ timers' = timers /\ pc' = pc
        BY <1>15 DEF SleepOn, fiberVars
    <2>2. \A f \in Fibers : Timed(f)' <=> Timed(f)
        BY <2>1 DEF Timed, Never
    <2> QED
        BY <1>0, <2>1, <2>2 DEF TimedInv
<1>16. CASE UNCHANGED vars
    <2>1. UNCHANGED <<scenario, board, target, now, due, timers, pc>>
        BY <1>16 DEF vars, fiberVars, timeVars
    <2> QED
        BY <1>0, <2>1 DEF TimedInv, Timed, Never
<1> QED
    BY <1>4, <1>5, <1>6, <1>7, <1>8, <1>9, <1>11, <1>12, <1>13, <1>14, <1>15, <1>16 DEF Next, Fiber

LEMMA SleepStep == Types /\ Down /\ DisabledInv /\ QuickPowerDown /\ SleepInv /\ [Next]_vars => SleepInv'
<1> SUFFICES ASSUME Types, Down, DisabledInv, QuickPowerDown, SleepInv, [Next]_vars PROVE SleepInv'
    OBVIOUS
<1>1. ASSUME NEW f \in Fibers, Fiber(f) PROVE SleepInv'
    BY <1>1, FiberAwake DEF SleepInv
<1>2. CASE CancelDeepSleep \/ RefuseDeepSleep \/ Tick \/ WakeUp
    BY <1>2 DEF CancelDeepSleep, RefuseDeepSleep, Tick, Idle, WakeUp, SleepInv
<1>3. CASE StartDeepSleep
    <2>1. PICK prep \in PrepTimes : target' = IF timers = {} THEN Never ELSE SleepUntil(Earliest(timers), prep)
        BY <1>3 DEF StartDeepSleep
    <2>2. now <= target'
        BY <1>3, <2>1, TargetInTime DEF StartDeepSleep
    <2>3. Plain' = {} /\ now' = now
        <3>1. disabled <= 0 /\ pc' = pc /\ now' = now
            BY <1>3 DEF StartDeepSleep, ReadyForDeepSleep, PowerDownIsEnabled, fiberVars, timeVars
        <3> QED
            BY <3>1, PlainCounted DEF Plain
    <2> QED
        BY <2>2, <2>3 DEF SleepInv
<1>4. CASE SleepOn
    BY <1>4 DEF SleepOn, fiberVars, SleepInv, Plain, Types
<1>5. CASE UNCHANGED vars
    BY <1>5 DEF vars, fiberVars, timeVars, SleepInv, Plain
<1> QED
    BY <1>1, <1>2, <1>3, <1>4, <1>5 DEF Next

(* With one timed sleep at a time and no event between the steps of a      *)
(* request, the board does not sleep past the end of a                     *)
(* deepSleep(milliSeconds), if powering down takes at most half of         *)
(* CONFIG_MINIMUM_DEEP_SLEEP_TIME: simpleDeepSleep() counts it twice, and  *)
(* would set the compare register for a time that is past.                 *)
THEOREM WakesInTime == QuickPowerDown => (Spec => [](scenario = "alone" => OnTime))
<1> SUFFICES ASSUME QuickPowerDown PROVE Spec => [](scenario = "alone" => OnTime)
    OBVIOUS
<1>1. Init => Down /\ LockInv /\ DisabledInv /\ TimedInv /\ SleepInv
    <2> SUFFICES ASSUME Init PROVE Down /\ LockInv /\ DisabledInv /\ TimedInv /\ SleepInv
        OBVIOUS
    <2>1. \A f \in Fibers : pc[f] = "ready"
        BY DEF Init
    <2>2. Plain = {}
        BY <2>1 DEF Plain
    <2>3. DisabledInv
        BY <2>2, FS_EmptySet DEF Init, DisabledInv
    <2> QED
        BY <2>1, <2>3, Constants DEF Init, Down, LockInv, TimedInv, Timed, SleepInv
<1>2. Types /\ TimedInv /\ SleepInv => (scenario = "alone" => OnTime)
    <2> SUFFICES ASSUME Types, TimedInv, SleepInv, scenario = "alone", board = "asleep",
                        NEW f \in Fibers, Timed(f) \/ pc[f] = "plain"
                 PROVE  now <= due[f]
        BY DEF OnTime
    <2>1. Timed(f) /\ now <= target
        BY DEF SleepInv, Plain
    <2>2. target <= due[f]
        BY <2>1 DEF TimedInv
    <2> QED
        BY <2>1, <2>2 DEF Types
<1>3. Types /\ Down /\ LockInv /\ TimedInv /\ [Next]_vars => TimedInv'
    BY TimedStep
<1>4. Types /\ Down /\ DisabledInv /\ SleepInv /\ [Next]_vars => SleepInv'
    BY SleepStep
<1> QED
    BY <1>1, <1>2, <1>3, <1>4, TypesInit, TypesStep, DownStep, LockStep, DisabledStep, PTL DEF Spec
=============================================================================
