-------------------------- MODULE MicroBitBLEManager --------------------------
(***************************************************************************)
(* The Bluetooth manager: its start in application or pairing mode, the    *)
(* loop of pairingMode(), advertising (to bonded devices, to all, as an    *)
(* Eddystone beacon), the transmit power, the shutdown before a firmware   *)
(* update, and sleep.  Fibers call it; the SoftDevice's events reach it in *)
(* interrupts, between any two steps of a fiber; the idle thread, which    *)
(* runs when the fiber sleeps, disconnects after pairing and continues a   *)
(* shutdown.  The SoftDevice, the peer manager and the peers are external: *)
(* one peer connects at a time, and advertising ends when it does.         *)
(***************************************************************************)
EXTENDS Integers, FiniteSets, TLC

CONSTANTS
    Peers,
    None,
    MaxBonds,       \* MICROBIT_BLE_MAXIMUM_BONDS
    PairingTimeout, \* rounds of pairingMode(): MICROBIT_BLE_PAIRING_TIMEOUT * 30
    EventDelay,     \* both delays after pairing, in units of time
    ShutdownDelay,
    Powers,         \* transmit power levels; the default is one of them
    DefaultPower,
    MaxCalls,       \* bound on calls of the program
    MaxAttempts,    \* bound on pairing attempts
    MaxConnections, \* bound on connections
    MaxBoots,       \* bound on resets
    Scenarios       \* subset of {"timely", "racing"}

ASSUME BLEManagerAssumption ==
    /\ None \notin Peers /\ DefaultPower \in Powers /\ MaxBonds \in Nat \ {0}
    /\ {PairingTimeout, EventDelay, ShutdownDelay} \subseteq Nat \ {0}

VARIABLES
    scenario,       \* "racing": events also between a test of pairingStatus and its update
    mode,           \* the mode the board has booted into
    pc, idle,       \* where the fiber and the idle thread are
    loaded,         \* pairingStatus as the fiber has tested it
    pairingStatus, sinceEvent,  \* the time since pairingTime; None for pairingTime = 0
    timeInPairingMode,
    disconnect, shutdown,       \* MICROBIT_BLE_STATUS_DISCONNECT, _SHUTDOWN
    sinceShutdown,              \* the time since shutdownTime; None for 0
    advertising, advertisement, advertiseOnDisconnect,
    conn, link,     \* the connected peer, how far pairing with it has come
    bonds, whitelist, pending,  \* pm's bonds, the peers let in, m_pending
    power, connPower, advPower,
    suspended, wasEnabled, interrupts,  \* the SoftDevice's
    rebootMode,     \* the key
    calls, attempts, connections, boots

statusVars == <<pairingStatus, sinceEvent>>
fiberVars == <<pc, loaded, timeInPairingMode>>
flagVars == <<disconnect, shutdown, sinceShutdown>>
advVars == <<advertising, advertisement, advertiseOnDisconnect>>
connVars == <<conn, link>>
bondVars == <<bonds, whitelist, pending>>
powerVars == <<power, connPower, advPower>>
sleepVars == <<suspended, wasEnabled, interrupts>>
bootVars == <<scenario, mode, rebootMode, boots>>
vars == <<bootVars, fiberVars, idle, statusVars, flagVars, advVars, connVars, bondVars,
          powerVars, sleepVars, calls, attempts, connections>>

-----------------------------------------------------------------------------
(* Advertising.                                                            *)

NoAdvertisement == [to |-> "none", content |-> "none", connectable |-> FALSE]
Named(to) == [to |-> to, content |-> "name", connectable |-> TRUE]

(* sd_ble_gap_adv_start() fails while a peer is connected, unless no peer  *)
(* can connect; sd_ble_gap_adv_set_configure() fails while advertising.    *)
(* The results are not looked at.                                          *)
CanAdvertise == conn = None \/ ~advertisement.connectable
Advertise == advertising' = (advertising \/ CanAdvertise)
StopAdvertising == advertising' = FALSE
ConfigureAdvertising(a) == advertisement' = IF advertising THEN advertisement ELSE a

\* Faulty: nothing is advertised again until advertise() is called.
OnDisconnectQuiet(others) == advertising' = advertising

(* onDisconnect(), when it was the last connection.                        *)
OnDisconnect(others) ==
    advertising' = (advertising \/ (advertiseOnDisconnect /\ others = {}))

-----------------------------------------------------------------------------
(* Pairing.                                                                *)

IsComplete == "complete" \in pairingStatus
Due == ~IsComplete /\ sinceEvent # None /\ sinceEvent >= EventDelay

\* Faulty: |= for the failure.
PairingCompleteAdds(event) ==
    IF mode # "pairing" \/ pc \in {"boot", "services", "stop"} \/ IsComplete
      THEN UNCHANGED statusVars
      ELSE CASE event = "failure" ->
                  pairingStatus' = pairingStatus \cup {"complete"} /\ UNCHANGED sinceEvent
             [] event = "auth" -> sinceEvent' = 0 /\ UNCHANGED pairingStatus
             [] event = "update" ->
                  /\ sinceEvent' = IF sinceEvent = None THEN None ELSE 0
                  /\ UNCHANGED pairingStatus

(* pairingComplete() for the events of interrupts.                         *)
PairingComplete(event) ==
    IF mode # "pairing" \/ pc \in {"boot", "services", "stop"} \/ IsComplete
      THEN UNCHANGED statusVars
      ELSE CASE event = "failure" -> pairingStatus' = {"complete"} /\ UNCHANGED sinceEvent
             [] event = "auth" -> sinceEvent' = 0 /\ UNCHANGED pairingStatus
             [] event = "update" ->
                  /\ sinceEvent' = IF sinceEvent = None THEN None ELSE 0
                  /\ UNCHANGED pairingStatus

(* pairingComplete(MICROBIT_BLE_PAIR_CHECK), in the fiber.                 *)
PairingCheck ==
    IF Due THEN pairingStatus' = {"complete", "successful"} /\ disconnect' = TRUE
           ELSE UNCHANGED <<pairingStatus, disconnect>>

PairingRequested == pairingStatus' = {"request"} /\ UNCHANGED sinceEvent

-----------------------------------------------------------------------------
(* What a reset leaves: the bonds and the key.                             *)
Cleared ==
    /\ pc' = "boot" /\ idle' = "none" /\ loaded' = {} /\ timeInPairingMode' = 0
    /\ pairingStatus' = {} /\ sinceEvent' = None
    /\ disconnect' = FALSE /\ shutdown' = FALSE /\ sinceShutdown' = None
    /\ advertising' = FALSE /\ advertisement' = NoAdvertisement
    /\ advertiseOnDisconnect' = TRUE
    /\ conn' = None /\ link' = "plain"
    /\ whitelist' = {} /\ pending' = 0
    /\ power' = DefaultPower /\ connPower' = DefaultPower /\ advPower' = DefaultPower
    /\ suspended' = FALSE /\ wasEnabled' = FALSE /\ interrupts' = TRUE
    /\ calls' = 0 /\ attempts' = 0 /\ connections' = 0

Init ==
    /\ scenario \in Scenarios /\ mode \in {"pairing", "application"} /\ rebootMode = FALSE
    /\ boots = 0
    /\ pc = "boot" /\ idle = "none" /\ loaded = {} /\ timeInPairingMode = 0
    /\ pairingStatus = {} /\ sinceEvent = None
    /\ disconnect = FALSE /\ shutdown = FALSE /\ sinceShutdown = None
    /\ advertising = FALSE /\ advertisement = NoAdvertisement
    /\ advertiseOnDisconnect = TRUE
    /\ conn = None /\ link = "plain"
    /\ bonds \in {b \in SUBSET Peers : Cardinality(b) <= MaxBonds}
    /\ whitelist = {} /\ pending = 0
    /\ power = DefaultPower /\ connPower = DefaultPower /\ advPower = DefaultPower
    /\ suspended = FALSE /\ wasEnabled = FALSE /\ interrupts = TRUE
    /\ calls = 0 /\ attempts = 0 /\ connections = 0

Reset ==
    /\ IF boots < MaxBoots
         THEN /\ Cleared
              /\ boots' = boots + 1
              /\ mode' = IF rebootMode THEN "pairing" ELSE "application"
              /\ rebootMode' = FALSE
         ELSE /\ pc' = "off"
              /\ UNCHANGED <<loaded, timeInPairingMode, idle, statusVars, flagVars, advVars,
                             connVars, whitelist, pending, powerVars, sleepVars, mode,
                             rebootMode, boots, calls, attempts, connections>>
    /\ UNCHANGED <<scenario, bonds>>

Goto(label) == pc' = label
FiberRuns(label) == pc = label /\ idle = "none" /\ ~suspended
Asleep == pc \in {"application", "show", "shown", "tick", "sleep"}

-----------------------------------------------------------------------------
(* The fiber: MicroBit::init() calls init() and perhaps pairingMode().     *)

BondCount == Cardinality(bonds)

(* With bonding enabled and a full table, the lowest ranked bond goes.     *)
TableFull == mode = "pairing" /\ BondCount >= MaxBonds
DeletesLowest ==
    IF TableFull THEN \E lowest \in bonds : bonds' = bonds \ {lowest} ELSE UNCHANGED bonds

AdmitBonded == whitelist' = bonds'

(* servicesChanged() has the peer manager note the change for all bonds    *)
(* and waits until it has, for a second at most.                           *)
ServicesChanged == pending' = BondCount'

InitBLE ==
    /\ FiberRuns("boot")
    /\ DeletesLowest
    /\ AdmitBonded
    /\ ServicesChanged
    /\ Goto("services")
    /\ UNCHANGED <<bootVars, loaded, timeInPairingMode, idle, statusVars, flagVars, advVars,
                   connVars, powerVars, sleepVars, calls, attempts, connections>>

(* The change was noted, or a second has passed.                           *)
StartBLE ==
    /\ FiberRuns("services")
    /\ advertisement' = IF whitelist # {} THEN Named("bonded")
                        ELSE [Named("all") EXCEPT !.connectable = FALSE]
    /\ power' = DefaultPower /\ advPower' = DefaultPower
    /\ advertiseOnDisconnect' = TRUE
    /\ advertising' = (BondCount > 0)
    /\ Goto(IF mode = "pairing" THEN "stop" ELSE "application")
    /\ UNCHANGED <<bootVars, loaded, timeInPairingMode, idle, statusVars, flagVars, connVars,
                   bondVars, connPower, sleepVars, calls, attempts, connections>>

PairingFrame ==
    UNCHANGED <<bootVars, idle, shutdown, sinceShutdown, advertiseOnDisconnect, connVars,
                bonds, pending, powerVars, sleepVars, calls, attempts, connections>>

PairingModeStops ==
    /\ FiberRuns("stop")
    /\ StopAdvertising
    /\ sinceEvent' = None
    /\ whitelist' = Peers
    /\ Goto("configure")
    /\ UNCHANGED <<loaded, timeInPairingMode, pairingStatus, disconnect, advertisement>>
    /\ PairingFrame

PairingModeConfigures ==
    /\ FiberRuns("configure")
    /\ ConfigureAdvertising(Named("all"))
    /\ Goto("advertise")
    /\ UNCHANGED <<loaded, timeInPairingMode, statusVars, disconnect, advertising, whitelist>>
    /\ PairingFrame

PairingModeAdvertises ==
    /\ FiberRuns("advertise")
    /\ Advertise
    /\ Goto("check")
    /\ UNCHANGED <<loaded, timeInPairingMode, statusVars, disconnect, advertisement, whitelist>>
    /\ PairingFrame

LoopFrame == UNCHANGED <<sinceEvent, advertising, advertisement, whitelist>> /\ PairingFrame

LoopCheck ==
    /\ FiberRuns("check")
    /\ PairingCheck
    /\ Goto("request")
    /\ UNCHANGED <<loaded, timeInPairingMode>> /\ LoopFrame

(* A request is shown until the button is pressed.                         *)
LoopRequest ==
    /\ FiberRuns("request")
    /\ loaded' = pairingStatus
    /\ IF "request" \in pairingStatus
         THEN /\ timeInPairingMode' = 0
              /\ \E pressed \in BOOLEAN : Goto(IF pressed THEN "accept" ELSE "passcode")
         ELSE Goto("passcode") /\ UNCHANGED timeInPairingMode
    /\ UNCHANGED <<pairingStatus, disconnect>> /\ LoopFrame

(* &= ~MICROBIT_BLE_PAIR_REQUEST, |= MICROBIT_BLE_PAIR_PASSCODE: the word  *)
(* may have been loaded before an interrupt changed it.                    *)
LoopAccept ==
    /\ FiberRuns("accept")
    /\ \E status \in {loaded, pairingStatus} :
         pairingStatus' = (status \ {"request"}) \cup {"passcode"}
    /\ Goto("passcode")
    /\ UNCHANGED <<loaded, timeInPairingMode, disconnect>> /\ LoopFrame

LoopPasscode ==
    /\ FiberRuns("passcode")
    /\ IF "passcode" \in pairingStatus
         THEN timeInPairingMode' = 0 /\ Goto("show")
         ELSE Goto("result") /\ UNCHANGED timeInPairingMode
    /\ UNCHANGED <<loaded, pairingStatus, disconnect>> /\ LoopFrame

(* Each digit, with sleeps, and a sleep when all are shown.                *)
LoopShow ==
    /\ FiberRuns("show")
    /\ PairingCheck
    /\ IF "complete" \in pairingStatus' THEN Goto("result") ELSE Goto("shown")
    /\ UNCHANGED <<loaded, timeInPairingMode>> /\ LoopFrame

LoopShown ==
    /\ FiberRuns("shown")
    /\ Goto("result")
    /\ UNCHANGED <<loaded, timeInPairingMode, pairingStatus, disconnect>> /\ LoopFrame

LoopResult ==
    /\ FiberRuns("result")
    /\ Goto(IF IsComplete /\ "successful" \in pairingStatus THEN "tick" ELSE "sleep")
    /\ UNCHANGED <<loaded, timeInPairingMode, pairingStatus, disconnect>> /\ LoopFrame

(* 15 seconds, in which the idle thread disconnects.                       *)
LoopTick ==
    /\ FiberRuns("tick") /\ ~disconnect
    /\ timeInPairingMode' = PairingTimeout
    /\ Goto("sleep")
    /\ UNCHANGED <<loaded, pairingStatus, disconnect>> /\ LoopFrame

LoopSleep ==
    /\ FiberRuns("sleep")
    /\ IF timeInPairingMode + 1 >= PairingTimeout
         THEN Reset
         ELSE /\ timeInPairingMode' = timeInPairingMode + 1
              /\ Goto("check")
              /\ UNCHANGED <<loaded, pairingStatus, disconnect>> /\ LoopFrame

PairingMode ==
    \/ PairingModeStops \/ PairingModeConfigures \/ PairingModeAdvertises
    \/ LoopCheck \/ LoopRequest \/ LoopAccept \/ LoopPasscode \/ LoopShow \/ LoopShown
    \/ LoopResult \/ LoopTick \/ LoopSleep

-----------------------------------------------------------------------------
(* The program, in application mode.                                       *)

AppFrame ==
    UNCHANGED <<bootVars, loaded, timeInPairingMode, idle, statusVars, flagVars, connVars,
                bondVars, sleepVars, attempts, connections>>

(* setTransmitPower(): m_power, then the connections, then advertising.    *)
AppSetsPower ==
    /\ FiberRuns("application") /\ calls < MaxCalls
    /\ calls' = calls + 1
    /\ power' \in Powers
    /\ Goto("power_connections")
    /\ UNCHANGED <<advVars, connPower, advPower>> /\ AppFrame

AppSetsPowerOfConnections ==
    /\ FiberRuns("power_connections")
    /\ connPower' = IF conn = None THEN connPower ELSE power
    /\ Goto("power_advertising")
    /\ UNCHANGED <<advVars, power, advPower, calls>> /\ AppFrame

AppSetsPowerOfAdvertising ==
    /\ FiberRuns("power_advertising")
    /\ advPower' = power
    /\ Goto("application")
    /\ UNCHANGED <<advVars, power, connPower, calls>> /\ AppFrame

(* advertiseEddystoneUrl(), advertiseEddystoneUid() of a valid frame.      *)
AppStopsForBeacon ==
    /\ FiberRuns("application") /\ calls < MaxCalls
    /\ calls' = calls + 1
    /\ StopAdvertising
    /\ Goto("beacon")
    /\ UNCHANGED <<advertisement, advertiseOnDisconnect, powerVars>> /\ AppFrame

AppConfiguresBeacon ==
    /\ FiberRuns("beacon")
    /\ \E connectable \in BOOLEAN :
         ConfigureAdvertising([to |-> "all", content |-> "beacon", connectable |-> connectable])
    /\ Goto("beacon_on")
    /\ UNCHANGED <<advertising, advertiseOnDisconnect, powerVars, calls>> /\ AppFrame

AppAdvertisesBeacon ==
    /\ FiberRuns("beacon_on")
    /\ Advertise
    /\ Goto("application")
    /\ UNCHANGED <<advertisement, advertiseOnDisconnect, powerVars, calls>> /\ AppFrame

(* restartInBLEMode(): the key, then the reset.                            *)
RestartInBLEMode ==
    /\ FiberRuns("application") /\ calls < MaxCalls /\ ~rebootMode
    /\ rebootMode' = TRUE
    /\ Goto("restart")
    /\ UNCHANGED <<scenario, mode, boots, loaded, timeInPairingMode, idle, statusVars, flagVars,
                   advVars, connVars, bondVars, powerVars, sleepVars, calls, attempts,
                   connections>>

Restart == FiberRuns("restart") /\ Reset

Application ==
    \/ AppSetsPower \/ AppSetsPowerOfConnections \/ AppSetsPowerOfAdvertising
    \/ AppStopsForBeacon \/ AppConfiguresBeacon \/ AppAdvertisesBeacon
    \/ RestartInBLEMode \/ Restart

-----------------------------------------------------------------------------
(* Shutdown: prepareForShutdown(), called again and again by the idle      *)
(* thread until every handler agrees; the board then resets.               *)

Quiet == conn = None
Settled == Quiet /\ sinceShutdown # None /\ sinceShutdown >= ShutdownDelay

\* Faulty: a disconnection starts advertising again.
ForgetNothing == UNCHANGED advertiseOnDisconnect
Forget == advertiseOnDisconnect' = FALSE

Disconnect == link' = IF conn = None THEN link ELSE "closing"

IdleFrame ==
    UNCHANGED <<bootVars, fiberVars, statusVars, conn, bondVars, powerVars, sleepVars, calls,
                attempts, connections>>

IdleDisconnects ==
    /\ Asleep /\ idle = "none" /\ ~suspended
    /\ disconnect /\ sinceEvent >= EventDelay
    /\ Disconnect
    /\ disconnect' = FALSE
    /\ UNCHANGED <<idle, shutdown, sinceShutdown, advVars>> /\ IdleFrame

IdleContinuesShutdown ==
    /\ Asleep /\ idle = "none" /\ ~suspended
    /\ shutdown
    /\ StopAdvertising
    /\ idle' = "forget"
    /\ UNCHANGED <<flagVars, advertisement, advertiseOnDisconnect, link>> /\ IdleFrame

ForgetsAdvertising ==
    /\ idle = "forget"
    /\ Forget
    /\ idle' = "count"
    /\ UNCHANGED <<flagVars, advertising, advertisement, link>> /\ IdleFrame

\* Faulty: the time starts with each call.
CountsAnew ==
    /\ idle = "count"
    /\ Disconnect
    /\ sinceShutdown' = IF Quiet THEN 0 ELSE sinceShutdown
    /\ idle' = IF Quiet /\ sinceShutdown' >= ShutdownDelay THEN "down" ELSE "none"
    /\ UNCHANGED <<disconnect, shutdown, advVars>> /\ IdleFrame

CountsConnections ==
    /\ idle = "count"
    /\ Disconnect
    /\ sinceShutdown' = IF Quiet /\ sinceShutdown = None THEN 0 ELSE sinceShutdown
    /\ idle' = IF Settled THEN "down" ELSE "none"
    /\ UNCHANGED <<disconnect, shutdown, advVars>> /\ IdleFrame

GoesDown == idle = "down" /\ Reset

Idle ==
    \/ IdleDisconnects \/ IdleContinuesShutdown \/ ForgetsAdvertising \/ CountsConnections
    \/ GoesDown

(* setSleep(), while the fibers wait: the SoftDevice is suspended if it    *)
(* ran, and resumed; of its interrupts only the timer's is enabled again.  *)
SetSleep(doSleep) ==
    /\ pc = "application" /\ idle = "none" /\ suspended = ~doSleep
    /\ IF doSleep
         THEN /\ calls < MaxCalls /\ calls' = calls + 1
              /\ wasEnabled' = ~suspended /\ suspended' = TRUE /\ interrupts' = FALSE
         ELSE /\ suspended' = (suspended /\ ~wasEnabled)
              /\ UNCHANGED <<wasEnabled, interrupts, calls>>
    /\ UNCHANGED <<bootVars, fiberVars, idle, statusVars, flagVars, advVars, connVars, bondVars,
                   powerVars, attempts, connections>>

-----------------------------------------------------------------------------
(* Interrupts: events of the SoftDevice and the peer manager.              *)

Events == ~suspended /\ interrupts /\ pc \notin {"boot", "off"} /\ idle # "down"

(* "timely": pairing takes longer than from init() to pairingMode(), and   *)
(* its events do not fall between a test of pairingStatus and its update.  *)
Timely == scenario = "timely" => pc \notin {"stop", "accept"}

EventFrame ==
    UNCHANGED <<bootVars, fiberVars, idle, disconnect, whitelist, sleepVars, calls>>

\* Faulty: the connection keeps the SoftDevice's own power.
PeerConnectsDefault(p) ==
    /\ Events /\ connections < MaxConnections
    /\ advertising /\ advertisement.connectable /\ conn = None
    /\ advertisement.to = "bonded" => p \in whitelist
    /\ connections' = connections + 1
    /\ conn' = p /\ link' = "plain"
    /\ advertising' = FALSE
    /\ connPower' = DefaultPower
    /\ UNCHANGED <<statusVars, shutdown, sinceShutdown, advertisement, advertiseOnDisconnect,
                   bonds, pending, power, advPower, attempts>>
    /\ EventFrame

(* bleConnectionCallback().                                                *)
PeerConnects(p) ==
    /\ Events /\ connections < MaxConnections
    /\ advertising /\ advertisement.connectable /\ conn = None
    /\ advertisement.to = "bonded" => p \in whitelist
    /\ connections' = connections + 1
    /\ conn' = p /\ link' = "plain"
    /\ advertising' = FALSE
    /\ connPower' = power
    /\ UNCHANGED <<statusVars, shutdown, sinceShutdown, advertisement, advertiseOnDisconnect,
                   bonds, pending, power, advPower, attempts>>
    /\ EventFrame

PairingFrameIRQ ==
    UNCHANGED <<shutdown, sinceShutdown, advVars, conn, powerVars, connections>> /\ EventFrame

(* passkeyDisplayCallback().                                               *)
PasskeyDisplay ==
    /\ Events /\ Timely /\ conn # None /\ link = "plain" /\ attempts < MaxAttempts
    /\ attempts' = attempts + 1
    /\ link' = "asked"
    /\ PairingRequested
    /\ UNCHANGED <<bonds, pending>> /\ PairingFrameIRQ

AuthSucceeds ==
    /\ Events /\ Timely /\ link = "asked"
    /\ link' = "authed"
    /\ PairingComplete("auth")
    /\ UNCHANGED <<bonds, pending, attempts>> /\ PairingFrameIRQ

PeerDataStored ==
    /\ Events /\ link = "authed"
    /\ link' = "bonded"
    /\ bonds' = bonds \cup {conn}
    /\ PairingComplete("update")
    /\ UNCHANGED <<pending, attempts>> /\ PairingFrameIRQ

ServiceChangeNoted ==
    /\ Events /\ pending > 0
    /\ pending' = pending - 1
    /\ PairingComplete("update")
    /\ UNCHANGED <<bonds, link, attempts>> /\ PairingFrameIRQ

SecurityFails ==
    /\ Events /\ Timely /\ link = "asked"
    /\ link' = "plain"
    /\ PairingComplete("failure")
    /\ UNCHANGED <<bonds, pending, attempts>> /\ PairingFrameIRQ

(* The peer leaves, a request times out, or the board has disconnected it; *)
(* a pairing that was on its way has failed.                               *)
Disconnected ==
    /\ Events /\ Timely /\ conn # None
    /\ conn' = None /\ link' = "plain"
    /\ OnDisconnect({})
    /\ IF link = "asked" THEN PairingComplete("failure") ELSE UNCHANGED statusVars
    /\ UNCHANGED <<shutdown, sinceShutdown, advertisement, advertiseOnDisconnect, bonds,
                   pending, powerVars, attempts, connections>>
    /\ EventFrame

(* A bonded peer asks for the bootloader: the shutdown starts in the       *)
(* interrupt.                                                              *)
EnterBootloader ==
    /\ Events /\ conn # None /\ link \in {"plain", "bonded"} /\ conn \in bonds /\ ~shutdown
    /\ shutdown' = TRUE
    /\ Forget
    /\ StopAdvertising
    /\ Disconnect
    /\ UNCHANGED <<statusVars, sinceShutdown, advertisement, conn, bonds, pending, powerVars,
                   attempts, connections>>
    /\ EventFrame

Interrupts ==
    \/ \E p \in Peers : PeerConnects(p)
    \/ PasskeyDisplay \/ AuthSucceeds \/ PeerDataStored \/ ServiceChangeNoted \/ SecurityFails
    \/ Disconnected \/ EnterBootloader

Older(age, limit) == IF age = None \/ age = limit THEN age ELSE age + 1
Tick ==
    /\ ~suspended
    /\ sinceEvent' = Older(sinceEvent, EventDelay)
    /\ sinceShutdown' = Older(sinceShutdown, ShutdownDelay)
    /\ <<sinceEvent, sinceShutdown>>' # <<sinceEvent, sinceShutdown>>
    /\ UNCHANGED <<bootVars, fiberVars, idle, pairingStatus, disconnect, shutdown, advVars,
                   connVars, bondVars, powerVars, sleepVars, calls, attempts, connections>>

-----------------------------------------------------------------------------
Next ==
    \/ InitBLE \/ StartBLE \/ PairingMode \/ Application \/ Idle
    \/ \E doSleep \in BOOLEAN : SetSleep(doSleep)
    \/ Interrupts \/ Tick

(* The fiber, the idle thread and time go on; a connection that is closed  *)
(* or a pairing that was asked for ends one way or the other.              *)
Fairness ==
    /\ WF_vars(InitBLE) /\ WF_vars(StartBLE) /\ WF_vars(PairingMode)
    /\ WF_vars(AppSetsPowerOfConnections) /\ WF_vars(AppSetsPowerOfAdvertising)
    /\ WF_vars(AppConfiguresBeacon) /\ WF_vars(AppAdvertisesBeacon) /\ WF_vars(Restart)
    /\ SF_vars(IdleDisconnects) /\ SF_vars(IdleContinuesShutdown)
    /\ WF_vars(ForgetsAdvertising) /\ WF_vars(CountsConnections) /\ WF_vars(GoesDown)
    /\ WF_vars(SetSleep(FALSE)) /\ WF_vars(Tick)
    /\ SF_vars(link = "closing" /\ Disconnected)
    /\ SF_vars(link = "asked" /\ (AuthSucceeds \/ SecurityFails \/ Disconnected))
    /\ WF_vars(PeerDataStored)

Spec == Init /\ [][Next]_vars /\ Fairness

-----------------------------------------------------------------------------
(* The board goes down with no connection and not advertising, whatever    *)
(* arrives between the steps of prepareForShutdown().                      *)
DownQuietly == idle = "down" => conn = None /\ ~advertising

(* A shutdown that was asked for happens, though the handler refuses it    *)
(* while a peer is connected and for a while after - unless the board has  *)
(* slept, after which no event of the SoftDevice arrives.                  *)
ShutdownHappens == shutdown ~> (~shutdown \/ pc = "off" \/ ~interrupts)

(* A board that peers may connect to can be connected to again when they   *)
(* have left: events and the steps of advertiseEddystoneUrl() or           *)
(* pairingMode() in any order leave it advertising.                        *)
Reachable ==
    /\ pc \in {"application", "check", "request", "sleep", "tick", "show"}
    /\ conn = None /\ ~shutdown /\ (bonds # {} \/ mode = "pairing")
    /\ connections > 0
    => advertising

(* Outside setTransmitPower() every connection and the advertisement use   *)
(* the power that was set last, also a connection made meanwhile.          *)
PowerEverywhere ==
    pc = "application" =>
      (conn # None => connPower = power) /\ (advertising => advPower = power)

(* Pairing mode ends in a reset, however pairing goes.                     *)
PairingEnds == (mode = "pairing" /\ pc = "check") ~> (pc \in {"boot", "off"})

(* pairingRequested() purges the bonding table if it has reached capacity, *)
(* says its comment: it never holds more than it has room for.             *)
BondsFit == BondCount <= MaxBonds
=============================================================================
