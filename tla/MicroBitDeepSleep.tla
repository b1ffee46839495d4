-------------------------- MODULE MicroBitDeepSleep --------------------------
(***************************************************************************)
(* Deep sleep: MicroBitPowerManager::deepSleep() and its variants, called  *)
(* by fibers that block on deepSleepLock; MicroBit::schedulerIdle(), which *)
(* puts the board to sleep when every fiber waits; the wake-up events that *)
(* cancel a sleep from interrupts; and MicroBitIO, which saves the pins,   *)
(* arms the ones that may wake the board and restores them.  Fibers are    *)
(* cooperative; an interrupt may come between any two steps.  The scheduler*)
(* is running: before that the calls sleep at once, without the lock.      *)
(***************************************************************************)
EXTENDS Integers, FiniteSets, TLC

CONSTANTS
    Fibers,
    None,
    WakePins,       \* pins with wakeOnActive(true)
    EventPins,      \* other pins, which raise events while the board is on
    Durations,      \* arguments of deepSleep(milliSeconds), in units of time
    MinSleep,       \* CONFIG_MINIMUM_DEEP_SLEEP_TIME
    MinOn,          \* CONFIG_MINIMUM_POWER_ON_TIME
    PrepTimes,      \* what powering down may take
    Horizon,        \* bound on time
    MaxCalls,       \* bound on the calls of a behaviour
    Scenarios       \* subset of {"alone", "racing", "shared"}

Pins == WakePins \cup EventPins

ASSUME DeepSleepAssumption ==
    /\ IsFiniteSet(Fibers) /\ None \notin Fibers /\ WakePins \cap EventPins = {}
    /\ MinSleep \in Nat /\ MinOn \in Nat /\ Horizon \in Nat
    /\ Durations \subseteq Nat /\ PrepTimes \subseteq Nat

VARIABLES
    scenario,       \* "alone": one timed sleep at a time, interrupts when fibers wait;
                    \* "racing": interrupts at any step; "shared": timed sleeps overlap
    now,
    board,          \* "on" or "asleep"
    target,         \* when the compare register wakes the board; Horizon + 1 for never
    running,        \* the fiber that has the CPU, or None
    pc, due,        \* per fiber: where it is, when its call is to end
    left,           \* calls that may still be made
    locked,         \* deepSleepLock: 1 + the number of fibers that wait
    pending,        \* fiber_scheduler_get_deepsleep_pending(), and the listener with it
    disabled,       \* powerDownDisableCount
    upFor,          \* time since powerUpTime, up to CONFIG_MINIMUM_POWER_ON_TIME
    eventValue,     \* shared by every deepSleep(milliSeconds)
    timers,         \* system timer events with CODAL_TIMER_EVENT_FLAGS_WAKEUP
    sense,          \* the pins that raise an interrupt
    savedSense, savedFlag,  \* MicroBitIO::savedStatus
    cancelled       \* history: a prepared sleep was cancelled

fiberVars == <<running, pc, due, left>>
pinVars == <<sense, savedSense, savedFlag>>
timeVars == <<now, upFor, eventValue, timers>>
vars == <<scenario, board, target, fiberVars, locked, pending, disabled, timeVars, pinVars,
          cancelled>>

Never == Horizon + 1

(* What the program has set up: events on the other pins, no interrupts of *)
(* its own on the pins that only wake the board.                           *)
Wanted == EventPins

-----------------------------------------------------------------------------
(* codal's FiberLock: wait() blocks unless it is the first since the last  *)
(* notifyAll(), which releases every fiber and the lock.                   *)

WaitCount == IF locked > 1 THEN locked - 1 ELSE 0

(* Where a fiber that is released from the lock goes on.                   *)
Released == [f \in Fibers |->
               CASE pc[f] = "blocked_first" -> "prepare"
                 [] pc[f] = "blocked" -> "woken"
                 [] OTHER -> pc[f]]

\* Faulty: notify(), for one fiber.
NotifyOne ==
    /\ locked' = IF locked = 0 THEN 0 ELSE locked - 1
    /\ IF \A f \in Fibers : Released[f] = pc[f]
         THEN pc' = pc
         ELSE LET f == CHOOSE g \in Fibers : Released[g] # pc[g]
              IN  pc' = [pc EXCEPT ![f] = Released[f]]
NotifyAll == locked' = 0 /\ pc' = Released

-----------------------------------------------------------------------------
(* MicroBitIO.                                                             *)

(* pinsDetect(true, true, others): wake-up pins are armed, the others are  *)
(* silenced if they are to be.                                             *)
PinsDetect(from, others) == WakePins \cup (IF others THEN {} ELSE from)

(* deepSleepCallbackPrepare saves the pins, and lets those that may wake   *)
(* the board cancel the sleep.                                             *)
PinsPrepare ==
    /\ savedSense' = sense
    /\ savedFlag' = TRUE
    /\ sense' = PinsDetect(sense, FALSE)

\* Faulty: what the preparation saved is overwritten.
PinsBeginAgain ==
    /\ savedSense' = sense
    /\ savedFlag' = TRUE
    /\ sense' = PinsDetect(sense, TRUE)

(* deepSleepCallbackBeginWithWakeUps saves them unless they are saved.     *)
PinsBegin ==
    /\ savedSense' = IF savedFlag THEN savedSense ELSE sense
    /\ savedFlag' = TRUE
    /\ sense' = PinsDetect(sense, TRUE)

(* deepSleepCallbackEndWithWakeUps.                                        *)
PinsRestore ==
    /\ sense' = savedSense
    /\ savedFlag' = FALSE
    /\ UNCHANGED savedSense

-----------------------------------------------------------------------------
(* Whether the board may sleep: until a timed event that is far enough     *)
(* away, or with a pin to wake it.                                         *)

Earliest(events) == CHOOSE t \in {e.due : e \in events} : \A e \in events : t <= e.due

CanDeepSleep ==
    IF timers # {} THEN Earliest(timers) - now >= MinSleep ELSE WakePins # {}

\* Faulty: what powering down takes is not counted.
SleepUntilLate(wake, prep) == wake + prep

(* simpleDeepSleep()'s ticks, unsigned: what powering down takes is counted*)
(* twice, and a result below zero is the whole range of the counter.       *)
SleepUntil(wake, prep) ==
    IF wake - now - 2 * prep < 0 THEN Never ELSE wake - prep

PowerDownIsEnabled == disabled <= 0

ReadyForDeepSleep == upFor >= MinOn /\ PowerDownIsEnabled

-----------------------------------------------------------------------------
Init ==
    /\ scenario \in Scenarios
    /\ now = 0 /\ board = "on" /\ target = Never
    /\ running = None
    /\ pc = [f \in Fibers |-> "ready"]
    /\ due = [f \in Fibers |-> Never]
    /\ left = MaxCalls
    /\ locked = 0 /\ pending = FALSE /\ disabled = 0
    /\ upFor = 0 /\ eventValue = 0 /\ timers = {}
    /\ sense = Wanted /\ savedSense = {} /\ savedFlag = FALSE
    /\ cancelled = FALSE

Goto(f, label) == pc' = [pc EXCEPT ![f] = label]

(* A fiber that is ready calls one of the functions below.                 *)
Calls(f) ==
    /\ board = "on" /\ running = None /\ pc[f] = "ready" /\ left > 0
    /\ left' = left - 1
    /\ UNCHANGED <<scenario, board, target, locked, now, upFor, cancelled>>

(* deepSleep(): waits for the board to have slept, if it can sleep.        *)
DeepSleep(f) ==
    /\ Calls(f)
    /\ CanDeepSleep
    /\ running' = f
    /\ Goto(f, "wait")
    /\ due' = [due EXCEPT ![f] = Never]
    /\ UNCHANGED <<pending, disabled, eventValue, timers, pinVars>>

Timed(f) == pc[f] \notin {"ready", "plain"} /\ due[f] # Never

(* deepSleep(milliSeconds), long enough and with a timer event to spare.   *)
DeepSleepFor(f) ==
    /\ Calls(f)
    /\ scenario # "shared" => \A g \in Fibers : ~Timed(g)
    /\ \E d \in Durations :
          /\ d > MinSleep
          /\ due' = [due EXCEPT ![f] = now + d]
          /\ timers' = timers \cup {[value |-> eventValue + 1, due |-> now + d]}
    /\ eventValue' = eventValue + 1
    /\ running' = f
    /\ Goto(f, "wait")
    /\ UNCHANGED <<pending, disabled, pinVars>>

(* deepSleep(milliSeconds) too short to power down, or without a timer     *)
(* event: a plain fiber_sleep() with power down disabled.                  *)
PlainSleep(f) ==
    /\ Calls(f)
    /\ \E d \in Durations :
          /\ due' = [due EXCEPT ![f] = now + d]
          /\ IF d > MinSleep
               THEN eventValue' = eventValue + 1   \* DEVICE_NO_RESOURCES
               ELSE UNCHANGED eventValue
    /\ disabled' = disabled + 1
    /\ Goto(f, "plain")
    /\ UNCHANGED <<running, pending, timers, pinVars>>

(* prepareDeepSleep(): once for all fibers that wait.                      *)
PrepareDeepSleep ==
    /\ pending' = TRUE
    /\ IF pending THEN UNCHANGED pinVars ELSE PinsPrepare

(* deepSleepAsync(): the board sleeps when the scheduler is next idle.     *)
DeepSleepAsync(f) ==
    /\ Calls(f)
    /\ CanDeepSleep
    /\ PrepareDeepSleep
    /\ UNCHANGED <<running, pc, due, disabled, eventValue, timers>>

(* deepSleepWait(): the first fiber takes the lock, ...                    *)
DeepSleepWait(f) ==
    /\ running = f /\ pc[f] = "wait"
    /\ IF WaitCount = 0
         THEN /\ locked' = locked + 1
              /\ IF locked' > 1 THEN Goto(f, "blocked_first") /\ running' = None
                                ELSE Goto(f, "prepare") /\ UNCHANGED running
         ELSE Goto(f, "prepare") /\ UNCHANGED <<locked, running>>
    /\ UNCHANGED <<scenario, board, target, due, left, pending, disabled, timeVars,
                   pinVars, cancelled>>

Runs(f) == running = f \/ (running = None /\ board = "on")

(* ... the sleep is prepared, ...                                          *)
Prepare(f) ==
    /\ Runs(f) /\ pc[f] = "prepare"
    /\ running' = f
    /\ PrepareDeepSleep
    /\ Goto(f, "block")
    /\ UNCHANGED <<scenario, board, target, due, left, locked, disabled, timeVars,
                   cancelled>>

(* ... and the fiber waits behind the lock.                                *)
Block(f) ==
    /\ running = f /\ pc[f] = "block"
    /\ locked' = locked + 1
    /\ IF locked' > 1 THEN Goto(f, "blocked") /\ running' = None
                      ELSE Goto(f, "woken") /\ UNCHANGED running
    /\ UNCHANGED <<scenario, board, target, due, left, pending, disabled, timeVars,
                   pinVars, cancelled>>

(* system_timer_cancel_event(id, eventValue): the event made last.         *)
CancelTimer(f) == timers' = {t \in timers : t.value # eventValue}

(* The call goes on after the lock: a timed one sleeps for what remains.   *)
Woken(f) ==
    /\ Runs(f) /\ pc[f] = "woken"
    /\ running' = None
    /\ IF due[f] = Never \/ due[f] <= now
         THEN /\ Goto(f, "ready")
              /\ due' = [due EXCEPT ![f] = Never]
              /\ IF due[f] = Never THEN UNCHANGED timers ELSE CancelTimer(f)
         ELSE Goto(f, "remainder") /\ UNCHANGED <<due, timers>>
    /\ UNCHANGED <<scenario, board, target, left, locked, pending, disabled, now,
                   upFor, eventValue, pinVars, cancelled>>

(* A fiber_sleep() of deepSleep(milliSeconds) ends.                        *)
SleepEnds(f) ==
    /\ board = "on" /\ running = None /\ due[f] <= now
    /\ \/ pc[f] = "remainder" /\ CancelTimer(f) /\ UNCHANGED disabled
       \/ pc[f] = "plain" /\ disabled' = disabled - 1 /\ UNCHANGED timers
    /\ Goto(f, "ready")
    /\ due' = [due EXCEPT ![f] = Never]
    /\ UNCHANGED <<scenario, board, target, running, left, locked, pending, now,
                   upFor, eventValue, pinVars, cancelled>>

-----------------------------------------------------------------------------
Runnable(f) ==
    \/ pc[f] \in {"wait", "prepare", "block", "woken"}
    \/ pc[f] \in {"remainder", "plain"} /\ due[f] <= now

Idle == board = "on" /\ running = None /\ \A f \in Fibers : ~Runnable(f)

StillDue(t) == {e \in timers : e.due > t}

(* cancelDeepSleep(): from the listener, in interrupt context, or from     *)
(* schedulerIdle() while a central is connected.                           *)
CancelDeepSleep ==
    /\ board = "on" /\ pending
    /\ scenario # "racing" => running = None
    /\ NotifyAll
    /\ pending' = FALSE
    /\ cancelled' = TRUE
    /\ UNCHANGED <<scenario, board, target, running, due, left, disabled, timeVars,
                   pinVars>>

(* schedulerIdle(): startDeepSleep() powers the board down, ...            *)
StartDeepSleep ==
    /\ Idle /\ pending /\ ReadyForDeepSleep /\ CanDeepSleep
    /\ pending' = FALSE
    /\ board' = "asleep"
    /\ \E prep \in PrepTimes :
          target' = IF timers = {} THEN Never ELSE SleepUntil(Earliest(timers), prep)
    /\ PinsBegin
    /\ UNCHANGED <<scenario, fiberVars, locked, disabled, timeVars, cancelled>>

(* ... or finds that it cannot sleep, and releases the fibers.             *)
RefuseDeepSleep ==
    /\ Idle /\ pending /\ ReadyForDeepSleep /\ ~CanDeepSleep
    /\ pending' = FALSE
    /\ NotifyAll
    /\ cancelled' = TRUE
    /\ UNCHANGED <<scenario, board, target, running, due, left, disabled, timeVars,
                   pinVars>>

(* Time passes while no fiber runs.  A timer event that comes due fires;   *)
(* codal raises POWER_EVT_CANCEL_DEEPSLEEP for one that may wake the board.*)
Tick ==
    /\ Idle
    /\ now < Horizon
    /\ now' = now + 1
    /\ upFor' = IF upFor < MinOn THEN upFor + 1 ELSE upFor
    /\ timers' = StillDue(now + 1)
    /\ IF pending /\ timers' # timers
         THEN NotifyAll /\ pending' = FALSE /\ cancelled' = TRUE
         ELSE UNCHANGED <<pc, locked, pending, cancelled>>
    /\ UNCHANGED <<scenario, board, target, running, due, left, disabled, eventValue, pinVars>>

(* The board sleeps on until the compare register matches.                 *)
SleepOn ==
    /\ board = "asleep" /\ now < target
    /\ now < Horizon
    /\ now' = now + 1
    /\ UNCHANGED <<scenario, board, target, fiberVars, locked, pending, disabled, upFor,
                   eventValue, timers, pinVars, cancelled>>

(* The compare register, a pin or the interface chip wakes the board: the  *)
(* pins are restored and every fiber is released.                          *)
WakeUp ==
    /\ board = "asleep"
    /\ board' = "on"
    /\ target' = Never
    /\ PinsRestore
    /\ upFor' = 0
    /\ timers' = StillDue(now)
    /\ NotifyAll
    /\ UNCHANGED <<scenario, now, running, due, left, pending, disabled, eventValue,
                   cancelled>>

Fiber(f) ==
    \/ DeepSleep(f) \/ DeepSleepFor(f) \/ PlainSleep(f) \/ DeepSleepAsync(f)
    \/ DeepSleepWait(f) \/ Prepare(f) \/ Block(f) \/ Woken(f) \/ SleepEnds(f)

Next ==
    \/ \E f \in Fibers : Fiber(f)
    \/ CancelDeepSleep \/ StartDeepSleep \/ RefuseDeepSleep \/ WakeUp
    \/ Tick \/ SleepOn

Spec == Init /\ [][Next]_vars

Symmetry == Permutations(Fibers)

-----------------------------------------------------------------------------
(* A fiber that waits behind the lock waits for a sleep that is pending, or*)
(* that the board is in: the comment at MicroBitPowerManager.cpp line 636  *)
(* says that taking the lock first is OK as long as only notifyAll() is    *)
(* used.  With "racing", a wake-up between Prepare and Block leaves the    *)
(* lock taken and the next sleeper behind it.                              *)
NotStranded ==
    (\E f \in Fibers : pc[f] \in {"blocked_first", "blocked"}) => pending \/ board = "asleep"

(* The board does not sleep past the end of a deepSleep(milliSeconds),     *)
(* whether its fiber waits for the board, for the remainder of its time    *)
(* (lines 470-476), or plainly because power down was disabled (483-486).  *)
OnTime ==
    board = "asleep" =>
        \A f \in Fibers : Timed(f) \/ pc[f] = "plain" => now <= due[f]

(* Once the board has slept its pins are as the program set them, whoever  *)
(* asked for it and however often (MicroBitIO.cpp lines 181-264), unless a *)
(* sleep that was prepared has been cancelled: nothing restores them then. *)
PinsRestored == board = "on" /\ ~pending /\ ~cancelled => sense = Wanted
=============================================================================
