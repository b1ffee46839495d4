----------------------- MODULE MicroBitBLEManagerProofs -----------------------
(***************************************************************************)
(* The Bluetooth manager, for every set of peers, number of connections,   *)
(* of resets and of calls, and in both scenarios: what the interrupts may  *)
(* find between two steps of the fiber and of the idle thread.             *)
(***************************************************************************)
EXTENDS MicroBitBLEManager, TLAPS

(* Nobody can have connected before init() has started to advertise.       *)
Starting ==
    pc \in {"boot", "services"} =>
        /\ conn = None /\ connections = 0 /\ ~advertising
        /\ ~shutdown /\ sinceShutdown = None

(* While the idle thread continues a shutdown, advertising starts at most  *)
(* once more, by a disconnection before prepareForShutdown() has taken     *)
(* back advertiseOnDisconnect; and then the time does not run yet.         *)
ShuttingDown ==
    /\ idle # "none" => shutdown
    /\ ~shutdown => advertiseOnDisconnect
    /\ sinceShutdown # None \/ idle \in {"count", "down"} => ~advertiseOnDisconnect
    /\ idle \in {"forget", "count"} /\ sinceShutdown # None => ~advertising
    /\ idle = "down" => conn = None /\ ~advertising

(* Whoever has taken advertising back for a moment will turn it on again.  *)
Advertised ==
    /\ conn = None /\ connections > 0 /\ ~shutdown
    /\ pc \notin {"configure", "advertise", "beacon", "beacon_on", "off"}
    => advertising

(* setTransmitPower() has the connections follow, then the advertisement.  *)
PowerFollows ==
    /\ pc \notin {"power_connections", "off"} /\ conn # None => connPower = power
    /\ pc \notin {"power_connections", "power_advertising", "off"} => advPower = power

Safe == Starting /\ ShuttingDown /\ Advertised /\ PowerFollows

-----------------------------------------------------------------------------
(* The variables that Safe is about, but for the place of the fiber.       *)
LEMMA SameState ==
    ASSUME Safe, pc' \notin {"boot", "services"}, Advertised', PowerFollows',
           UNCHANGED <<flagVars, advVars, connVars, idle, connections>>
    PROVE  Safe'
BY DEF Safe, Starting, ShuttingDown, flagVars, advVars, connVars

LEMMA ClearedSafe ==
    ASSUME Cleared
    PROVE  Safe'
BY DEF Cleared, Safe, Starting, ShuttingDown, Advertised, PowerFollows

(* A reset, or the end: what is behind it is not told.                     *)
LEMMA ResetSafe ==
    ASSUME Safe, Reset
    PROVE  Safe'
<1>1. CASE boots < MaxBoots
    BY <1>1, ClearedSafe DEF Reset
<1>2. CASE ~(boots < MaxBoots)
    <2>1. pc' = "off" /\ UNCHANGED <<flagVars, advVars, connVars, idle, connections>>
        BY <1>2 DEF Reset
    <2> QED
        BY <2>1, SameState DEF Advertised, PowerFollows
<1> QED
    BY <1>1, <1>2

-----------------------------------------------------------------------------
(* The fiber runs: the idle thread is between two calls.                   *)

LEMMA InitBLESafe ==
    ASSUME Safe, InitBLE
    PROVE  Safe'
<1>1. /\ pc = "boot" /\ pc' = "services"
      /\ UNCHANGED <<flagVars, advVars, connVars, powerVars, idle, connections>>
    BY DEF InitBLE, FiberRuns, Goto
<1> QED
    BY <1>1 DEF Safe, Starting, ShuttingDown, Advertised, PowerFollows, flagVars, advVars, connVars, powerVars

LEMMA StartBLESafe ==
    ASSUME Safe, StartBLE
    PROVE  Safe'
<1>1. /\ pc = "services" /\ idle = "none" /\ pc' \in {"stop", "application"}
      /\ power' = advPower' /\ advertiseOnDisconnect'
      /\ UNCHANGED <<flagVars, connVars, idle, connections>>
    BY DEF StartBLE, FiberRuns, Goto
<1>2. conn' = None /\ connections' = 0 /\ ~shutdown' /\ sinceShutdown' = None /\ idle' = "none"
    BY <1>1 DEF Safe, Starting, flagVars, connVars
<1> QED
    BY <1>1, <1>2 DEF Safe, Starting, ShuttingDown, Advertised, PowerFollows

(* A step of pairingMode() that does not touch advertising.                *)
LEMMA LoopSafe ==
    ASSUME Safe, LoopFrame, pc \notin {"boot", "services", "configure", "advertise", "beacon", "beacon_on", "off"},
           pc \notin {"power_connections", "power_advertising"},
           pc' \notin {"boot", "services"}
    PROVE  Safe'
BY DEF Safe, Starting, ShuttingDown, Advertised, PowerFollows, LoopFrame, PairingFrame, connVars, powerVars

LEMMA PairingModeSafe ==
    ASSUME Safe, PairingMode
    PROVE  Safe'
<1>1. CASE PairingModeStops
    <2>1. /\ pc = "stop" /\ idle = "none" /\ pc' = "configure" /\ advertising' = FALSE
          /\ UNCHANGED <<advertiseOnDisconnect, connVars, shutdown, sinceShutdown, powerVars, idle, connections>>
        BY <1>1 DEF PairingModeStops, FiberRuns, StopAdvertising, Goto, PairingFrame
    <2> QED
        BY <2>1 DEF Safe, Starting, ShuttingDown, Advertised, PowerFollows, connVars, powerVars
<1>2. CASE PairingModeConfigures
    <2>1. /\ pc = "configure" /\ idle = "none" /\ pc' = "advertise" /\ advertising' = advertising
          /\ UNCHANGED <<advertiseOnDisconnect, connVars, shutdown, sinceShutdown, powerVars, idle, connections>>
        BY <1>2 DEF PairingModeConfigures, FiberRuns, Goto, PairingFrame
    <2> QED
        BY <2>1 DEF Safe, Starting, ShuttingDown, Advertised, PowerFollows, connVars, powerVars
<1>3. CASE PairingModeAdvertises
    <2>1. /\ pc = "advertise" /\ idle = "none" /\ pc' = "check"
          /\ conn = None => advertising'
          /\ UNCHANGED <<advertiseOnDisconnect, connVars, shutdown, sinceShutdown, powerVars, idle, connections>>
        BY <1>3 DEF PairingModeAdvertises, FiberRuns, Goto, PairingFrame, Advertise, CanAdvertise
    <2> QED
        BY <2>1 DEF Safe, Starting, ShuttingDown, Advertised, PowerFollows, connVars, powerVars
<1>4. CASE LoopCheck \/ LoopRequest \/ LoopAccept \/ LoopPasscode \/ LoopShow \/ LoopShown \/ LoopResult \/ LoopTick
    <2>1. LoopFrame
        BY <1>4 DEF LoopCheck, LoopRequest, LoopAccept, LoopPasscode, LoopShow, LoopShown, LoopResult, LoopTick
    <2>2. pc \in {"check", "request", "accept", "passcode", "show", "shown", "result", "tick"}
        BY <1>4 DEF LoopCheck, LoopRequest, LoopAccept, LoopPasscode, LoopShow, LoopShown, LoopResult, LoopTick,
                    FiberRuns
    <2>3. pc' \in {"request", "accept", "passcode", "show", "shown", "result", "tick", "sleep"}
        BY <1>4 DEF LoopCheck, LoopRequest, LoopAccept, LoopPasscode, LoopShow, LoopShown, LoopResult, LoopTick, Goto
    <2> QED
        BY <2>1, <2>2, <2>3, LoopSafe
<1>5. CASE LoopSleep
    <2>1. CASE timeInPairingMode + 1 >= PairingTimeout
        BY <1>5, <2>1, ResetSafe DEF LoopSleep
    <2>2. CASE ~(timeInPairingMode + 1 >= PairingTimeout)
        <3>1. pc = "sleep" /\ pc' = "check" /\ LoopFrame
            BY <1>5, <2>2 DEF LoopSleep, FiberRuns, Goto
        <3> QED
            BY <3>1, LoopSafe
    <2> QED
        BY <2>1, <2>2
<1> QED
    BY <1>1, <1>2, <1>3, <1>4, <1>5 DEF PairingMode

LEMMA ApplicationSafe ==
    ASSUME Safe, Application
    PROVE  Safe'
<1>1. CASE AppSetsPower
    <2>1. /\ pc = "application" /\ pc' = "power_connections" /\ UNCHANGED <<flagVars, advVars, connVars, idle, connections>>
        BY <1>1 DEF AppSetsPower, FiberRuns, Goto, AppFrame
    <2> QED
        BY <2>1, SameState DEF Safe, Advertised, PowerFollows, connVars, advVars, flagVars
<1>2. CASE AppSetsPowerOfConnections
    <2>1. /\ pc = "power_connections" /\ pc' = "power_advertising" /\ UNCHANGED <<flagVars, advVars, connVars, idle, connections>>
          /\ power' = power /\ (conn # None => connPower' = power)
        BY <1>2 DEF AppSetsPowerOfConnections, FiberRuns, Goto, AppFrame
    <2> QED
        BY <2>1, SameState DEF Safe, Advertised, PowerFollows, connVars, advVars, flagVars
<1>3. CASE AppSetsPowerOfAdvertising
    <2>1. /\ pc = "power_advertising" /\ pc' = "application" /\ UNCHANGED <<flagVars, advVars, connVars, idle, connections>>
          /\ power' = power /\ connPower' = connPower /\ advPower' = power
        BY <1>3 DEF AppSetsPowerOfAdvertising, FiberRuns, Goto, AppFrame
    <2> QED
        BY <2>1, SameState DEF Safe, Advertised, PowerFollows, connVars, advVars, flagVars
<1>4. CASE AppStopsForBeacon \/ AppConfiguresBeacon \/ AppAdvertisesBeacon
    <2>1. /\ idle = "none" /\ UNCHANGED <<flagVars, connVars, powerVars, advertiseOnDisconnect, idle, connections>>
        BY <1>4 DEF AppStopsForBeacon, AppConfiguresBeacon, AppAdvertisesBeacon, FiberRuns, AppFrame
    <2>2. /\ pc \in {"application", "beacon", "beacon_on"}
          /\ pc' \in {"beacon", "beacon_on"} \/ (pc' = "application" /\ (conn = None => advertising'))
        BY <1>4 DEF AppStopsForBeacon, AppConfiguresBeacon, AppAdvertisesBeacon, FiberRuns, Goto, Advertise, CanAdvertise
    <2> QED
        BY <2>1, <2>2 DEF Safe, Starting, ShuttingDown, Advertised, PowerFollows, flagVars, connVars, powerVars
<1>5. CASE RestartInBLEMode
    <2>1. /\ pc = "application" /\ pc' = "restart"
          /\ UNCHANGED <<flagVars, advVars, connVars, powerVars, idle, connections>>
        BY <1>5 DEF RestartInBLEMode, FiberRuns, Goto
    <2> QED
        BY <2>1, SameState DEF Safe, Advertised, PowerFollows, connVars, advVars, flagVars, powerVars
<1>6. CASE Restart
    BY <1>6, ResetSafe DEF Restart
<1> QED
    BY <1>1, <1>2, <1>3, <1>4, <1>5, <1>6 DEF Application

-----------------------------------------------------------------------------
(* The idle thread.                                                        *)
LEMMA IdleSafe ==
    ASSUME Safe, Idle
    PROVE  Safe'
<1>0. ASSUME IdleFrame
      PROVE  UNCHANGED <<pc, conn, powerVars, connections>> /\ pc' = pc
    BY <1>0 DEF IdleFrame, fiberVars
<1>1. CASE IdleDisconnects
    <2>1. UNCHANGED <<pc, conn, powerVars, connections, idle, shutdown, sinceShutdown, advVars>>
        BY <1>0, <1>1 DEF IdleDisconnects
    <2> QED
        BY <2>1 DEF Safe, Starting, ShuttingDown, Advertised, PowerFollows, advVars, powerVars
<1>2. CASE IdleContinuesShutdown
    <2>1. /\ shutdown /\ advertising' = FALSE /\ idle' = "forget"
          /\ UNCHANGED <<pc, conn, powerVars, connections, shutdown, sinceShutdown, advertiseOnDisconnect>>
        BY <1>0, <1>2 DEF IdleContinuesShutdown, StopAdvertising, flagVars
    <2> QED
        BY <2>1 DEF Safe, Starting, ShuttingDown, Advertised, PowerFollows, powerVars
<1>3. CASE ForgetsAdvertising
    <2>1. /\ idle = "forget" /\ idle' = "count" /\ advertiseOnDisconnect' = FALSE
          /\ UNCHANGED <<pc, conn, powerVars, connections, shutdown, sinceShutdown, advertising>>
        BY <1>0, <1>3 DEF ForgetsAdvertising, Forget, flagVars
    <2> QED
        BY <2>1 DEF Safe, Starting, ShuttingDown, Advertised, PowerFollows, powerVars
<1>4. CASE CountsConnections
    <2>1. /\ idle = "count" /\ idle' = IF Settled THEN "down" ELSE "none"
          /\ sinceShutdown' = IF Quiet /\ sinceShutdown = None THEN 0 ELSE sinceShutdown
          /\ UNCHANGED <<pc, conn, powerVars, connections, shutdown, advertising, advertiseOnDisconnect>>
        BY <1>0, <1>4 DEF CountsConnections, advVars
    <2> QED
        BY <2>1 DEF Safe, Starting, ShuttingDown, Advertised, PowerFollows, powerVars, Settled, Quiet
<1>5. CASE GoesDown
    BY <1>5, ResetSafe DEF GoesDown
<1> QED
    BY <1>1, <1>2, <1>3, <1>4, <1>5 DEF Idle

-----------------------------------------------------------------------------
(* Interrupts: not before init() has started the SoftDevice, and not when  *)
(* the idle thread is about to reset the board.                            *)
LEMMA InterruptsSafe ==
    ASSUME Safe, Interrupts
    PROVE  Safe'
<1>0. pc # "boot" /\ idle # "down" /\ UNCHANGED <<pc, idle>>
    BY DEF Interrupts, PeerConnects, PasskeyDisplay, AuthSucceeds, PeerDataStored, ServiceChangeNoted, SecurityFails,
           Disconnected, EnterBootloader, Events, EventFrame, PairingFrameIRQ, fiberVars
<1>1. ASSUME NEW p \in Peers, PeerConnects(p)
      PROVE  Safe'
    <2>1. /\ advertising /\ conn' = p /\ advertising' = FALSE /\ connPower' = power
          /\ UNCHANGED <<shutdown, sinceShutdown, advertiseOnDisconnect, power, advPower>>
        BY <1>1 DEF PeerConnects
    <2>2. p # None
        BY BLEManagerAssumption
    <2> QED
        BY <1>0, <2>1, <2>2 DEF Safe, Starting, ShuttingDown, Advertised, PowerFollows
<1>2. CASE PasskeyDisplay \/ AuthSucceeds \/ PeerDataStored \/ ServiceChangeNoted \/ SecurityFails
    <2>1. UNCHANGED <<shutdown, sinceShutdown, advVars, conn, powerVars, connections>>
        BY <1>2 DEF PasskeyDisplay, AuthSucceeds, PeerDataStored, ServiceChangeNoted, SecurityFails, PairingFrameIRQ
    <2> QED
        BY <1>0, <2>1 DEF Safe, Starting, ShuttingDown, Advertised, PowerFollows, advVars, powerVars
<1>3. CASE Disconnected
    <2>1. /\ conn # None /\ conn' = None /\ advertising' = (advertising \/ advertiseOnDisconnect)
          /\ UNCHANGED <<shutdown, sinceShutdown, advertiseOnDisconnect, powerVars, connections>>
        BY <1>3 DEF Disconnected, OnDisconnect
    <2> QED
        BY <1>0, <2>1 DEF Safe, Starting, ShuttingDown, Advertised, PowerFollows, powerVars
<1>4. CASE EnterBootloader
    <2>1. /\ conn # None /\ shutdown' = TRUE /\ advertiseOnDisconnect' = FALSE /\ advertising' = FALSE
          /\ UNCHANGED <<sinceShutdown, conn, powerVars, connections>>
        BY <1>4 DEF EnterBootloader, Forget, StopAdvertising
    <2> QED
        BY <1>0, <2>1 DEF Safe, Starting, ShuttingDown, Advertised, PowerFollows, powerVars
<1> QED
    BY <1>1, <1>2, <1>3, <1>4 DEF Interrupts

LEMMA TimeSafe ==
    ASSUME Safe, Tick
    PROVE  Safe'
<1>1. UNCHANGED <<pc, idle, shutdown, advVars, conn, powerVars, connections>>
    BY DEF Tick, fiberVars, connVars
<1>2. sinceShutdown' # None => sinceShutdown # None
    BY DEF Tick, Older
<1>3. pc \in {"boot", "services"} => sinceShutdown' = None
    BY DEF Tick, Older, Safe, Starting
<1> QED
    BY <1>1, <1>2, <1>3 DEF Safe, Starting, ShuttingDown, Advertised, PowerFollows, advVars, powerVars

LEMMA SleepSafe ==
    ASSUME Safe, NEW doSleep \in BOOLEAN, SetSleep(doSleep)
    PROVE  Safe'
<1>1. pc = "application" /\ UNCHANGED <<pc, flagVars, advVars, connVars, powerVars, idle, connections>>
    BY DEF SetSleep, fiberVars
<1> QED
    BY <1>1, SameState DEF Safe, Advertised, PowerFollows, connVars, advVars, flagVars, powerVars

-----------------------------------------------------------------------------
LEMMA SafeStep ==
    ASSUME Safe, [Next]_vars
    PROVE  Safe'
<1>1. CASE UNCHANGED vars
    BY <1>1 DEF vars, fiberVars, flagVars, advVars, connVars, powerVars, Safe, Starting, ShuttingDown, Advertised,
                PowerFollows
<1> QED
    BY <1>1, InitBLESafe, StartBLESafe, PairingModeSafe, ApplicationSafe, IdleSafe, InterruptsSafe, TimeSafe, SleepSafe
    DEF Next

LEMMA AlwaysSafe == Spec => []Safe
<1>1. Init => Safe
    BY DEF Init, Safe, Starting, ShuttingDown, Advertised, PowerFollows
<1> QED
    BY <1>1, SafeStep, PTL DEF Spec

(* prepareForShutdown() lets the board go down with no connection and not  *)
(* advertising, whatever connects or leaves between its steps and whoever  *)
(* began the shutdown.                                                     *)
THEOREM GoesDownQuietly == Spec => []DownQuietly
<1>1. Safe => DownQuietly
    BY DEF Safe, ShuttingDown, DownQuietly
<1> QED
    BY <1>1, AlwaysSafe, PTL

(* After the first connection the board advertises whenever nobody is      *)
(* connected, outside the few steps that change what it advertises.        *)
THEOREM StaysReachable == Spec => []Reachable
<1>1. Safe => Reachable
    BY DEF Safe, Advertised, Reachable
<1> QED
    BY <1>1, AlwaysSafe, PTL

(* Outside setTransmitPower() its power is that of every connection, also  *)
(* of one that was made between its steps, and of the advertisement.       *)
THEOREM PowerSet == Spec => []PowerEverywhere
<1>1. Safe => PowerEverywhere
    BY DEF Safe, PowerFollows, PowerEverywhere
<1> QED
    BY <1>1, AlwaysSafe, PTL
=============================================================================
