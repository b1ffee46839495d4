----------------------- MODULE MicroBitPartialFlashing -----------------------
(***************************************************************************)
(* Replacing the user program over Bluetooth: the partial flashing service,*)
(* whose onDataWritten() runs in the Bluetooth interrupt and whose         *)
(* partialFlashingEvent() writes flash in a fiber; the memory map it reads;*)
(* the keys that make MicroBit::init() enter Bluetooth mode; and the       *)
(* client, which is not part of this code: it sends a block as four        *)
(* unacknowledged packets, waits for the notification and sends the next   *)
(* block or, numbered on, the same one again.  Packets and notifications   *)
(* may be lost, the client may start over and the power may fail at any    *)
(* step.                                                                   *)
(***************************************************************************)
EXTENDS Integers, Sequences, SequencesExt, FiniteSets, TLC

CONSTANTS
    Modulus,        \* of packet numbers (256)
    RegionBlocks,   \* blocks in the region that holds the user program
    NewBlocks,      \* blocks of the new program
    PageBlocks,     \* blocks in a flash page
    Kinds,          \* subset of {"makecode", "python"}
    Clients,        \* subset of {"patient", "eager", "hasty"}
    MaxLost,        \* bound on losses, give-ups and restarts of the client
    MaxCuts         \* bound on power failures

ASSUME PartialFlashingAssumption ==
    /\ Modulus \in Nat /\ Modulus >= 16 /\ Modulus % 4 = 0
    /\ PageBlocks \in Nat \ {0} /\ NewBlocks \in 1..RegionBlocks
    /\ RegionBlocks \in Nat /\ MaxLost \in Nat /\ MaxCuts \in Nat

VARIABLES
    kind, clientKind,               \* what is installed, who connects
    flash,                          \* [high][block]: four cells of 16 bytes
    settings, backup,               \* the bootloader's settings, their copy
    flashIncomplete, rebootMode,    \* keys of MicroBitStorage
    userData,                       \* whose data the user's log holds
    mode,                           \* "boot", "application" or "pairing"
    packetCount, blockPacketCount, blockNum, offset, block,
    fsEnd,                          \* micropython_fs_end is set
    events,                         \* message bus events for the handler
    pc, flashPointer, at,           \* the handler: step, address, cell
    air, back,                      \* writes and notifications on their way
    client, next, number,           \* what the client waits for, its block, its packet number
    ended,                          \* the client has sent everything
    lost, cuts

keyVars == <<settings, backup, flashIncomplete, rebootMode, userData>>
rxVars == <<packetCount, blockPacketCount, blockNum, offset, block>>
handlerVars == <<events, pc, flashPointer, at>>
airVars == <<air, back>>
clientVars == <<client, next, number, ended>>
faultVars == <<lost, cuts>>
fixedVars == <<kind, clientKind>>
vars == <<fixedVars, flash, keyVars, mode, rxVars, fsEnd, handlerVars, airVars, clientVars,
          faultVars>>

(* A cell of flash: blank, of the old program, of the new one - the block  *)
(* it belongs to and its place - or the bits of two writes.                *)
Blank == <<0, 0>>
Old == <<0, 1>>
Mixed == <<0, 2>>
Cells(b) == [i \in 1..4 |-> <<b, i>>]
All(c) == [i \in 1..4 |-> c]

Blocks == 1..RegionBlocks
System == 0     \* the high half of an address: SoftDevice, CODAL
Program == 1    \* the user program's region
PageOf(b) == {c \in Blocks : (c - 1) \div PageBlocks = (b - 1) \div PageBlocks}
OnBoundary(b) == (b - 1) % PageBlocks = 0

ErasePage(f, high, b) ==
    [f EXCEPT ![high] = [c \in Blocks |-> IF c \in PageOf(b) THEN All(Blank) ELSE f[high][c]]]
Burn(cell, data) == IF cell \in {Blank, data} THEN data ELSE Mixed

-----------------------------------------------------------------------------
(* MicroBitMemoryMap, made anew for each request.                          *)

NoRegion == [regionId |-> 0, blocks |-> {}]
EmptyMap == [regionCount |-> 0, memoryMap |-> [i \in 1..3 |-> NoRegion]]

PushRegion(m, r) ==
    IF m.regionCount = 3 THEN m
    ELSE [regionCount |-> m.regionCount + 1,
          memoryMap |-> [m.memoryMap EXCEPT ![m.regionCount + 1] = r]]

ProcessRecord(m, r) ==
    IF r.regionId > 3 THEN m ELSE [m EXCEPT !.memoryMap[r.regionId] = r]

(* A MakeCode program starts with its magic number; Python's layout records*)
(* are at the end of its own image, which a transfer does not replace.     *)
FindHashes ==
    LET makecode == <<[regionId |-> 0, blocks |-> {}], [regionId |-> 1, blocks |-> {}],
                      [regionId |-> 2, blocks |-> Blocks]>>
        python == <<[regionId |-> 1, blocks |-> {}], [regionId |-> 2, blocks |-> {}],
                    [regionId |-> 3, blocks |-> Blocks]>>
    IN  CASE kind = "python" -> FoldLeft(ProcessRecord, EmptyMap, python)
          [] kind = "makecode" /\ flash[Program][1][1] \in {Old, <<1, 1>>} ->
               FoldLeft(PushRegion, EmptyMap, makecode)
          [] OTHER -> EmptyMap

-----------------------------------------------------------------------------
Init ==
    /\ kind \in Kinds /\ clientKind \in Clients
    /\ flash = [h \in {System, Program} |-> [b \in Blocks |-> All(Old)]]
    /\ settings = "crc" /\ backup = "crc"
    /\ flashIncomplete = FALSE /\ rebootMode = FALSE /\ userData = "old"
    /\ mode = "boot"
    /\ packetCount = 0 /\ blockPacketCount = 0 /\ blockNum = 0
    /\ offset = [high |-> System, low |-> 1] /\ block = All(Blank)
    /\ fsEnd = FALSE
    /\ events = <<>> /\ pc = "idle" /\ flashPointer = [high |-> System, low |-> 1] /\ at = 1
    /\ air = <<>> /\ back = <<>>
    /\ client = "connect" /\ next = 1 /\ number = 0 /\ ended = FALSE
    /\ lost = 0 /\ cuts = 0

(* A reset, or a power failure: RAM and the connection are lost.           *)
Reset ==
    /\ mode' = "boot"
    /\ packetCount' = 0 /\ blockPacketCount' = 0 /\ blockNum' = 0
    /\ offset' = [high |-> System, low |-> 1] /\ block' = All(Blank)
    /\ fsEnd' = FALSE
    /\ events' = <<>> /\ pc' = "idle" /\ flashPointer' = [high |-> System, low |-> 1]
    /\ at' = 1
    /\ air' = <<>> /\ back' = <<>>
    /\ client' = IF client = "done" THEN "done" ELSE "connect"
    /\ UNCHANGED <<next, number, ended>>

PowerFails ==
    /\ cuts < MaxCuts
    /\ cuts' = cuts + 1
    /\ Reset
    /\ UNCHANGED <<fixedVars, flash, keyVars, lost>>

\* Faulty: both keys are removed, not only deleted from the heap.
BootRemovesBoth ==
    /\ mode = "boot"
    /\ \E held \in {FALSE, ~ended} :
         mode' = IF held \/ rebootMode \/ flashIncomplete THEN "pairing" ELSE "application"
    /\ rebootMode' = FALSE
    /\ flashIncomplete' = FALSE
    /\ UNCHANGED <<fixedVars, flash, settings, backup, userData, rxVars,
                   fsEnd, handlerVars, airVars, clientVars, faultVars>>

(* MicroBit::init(): Bluetooth mode if a key asks for it or both buttons   *)
(* are held, which the user does not do when the transfer is over; the     *)
(* reboot key is taken away, flashIncomplete stays.                        *)
Boot ==
    /\ mode = "boot"
    /\ \E held \in {FALSE, ~ended} :
         mode' = IF held \/ rebootMode \/ flashIncomplete THEN "pairing" ELSE "application"
    /\ rebootMode' = FALSE
    /\ UNCHANGED <<fixedVars, flash, settings, backup, flashIncomplete, userData, rxVars,
                   fsEnd, handlerVars, airVars, clientVars, faultVars>>

-----------------------------------------------------------------------------
(* Bluetooth interrupt: onDataWritten().                                   *)

Notify(n) == back' = Append(back, n)

RegionInfo ==
    LET region == FindHashes.memoryMap[3]
    IN  /\ fsEnd' = (fsEnd \/ (region.blocks # {} /\ region.regionId = 3))
        /\ Notify("region")
        /\ packetCount' = 0 /\ blockPacketCount' = 0 /\ blockNum' = 0
        /\ offset' = [high |-> System, low |-> 1]
        /\ UNCHANGED <<block, events>>

(* A packet of an earlier batch: up to 7 behind, modulo 256.               *)
IsPrevious(num) ==
    IF num < packetCount THEN packetCount - num < 8 ELSE num - packetCount > Modulus - 8

\* Faulty: the part of the block that has arrived is kept.
PacketErrorKeepsPart ==
    /\ Notify("again")
    /\ blockPacketCount' = (blockPacketCount + 4) % Modulus
    /\ packetCount' = (blockPacketCount + 4) % Modulus
    /\ UNCHANGED <<blockNum, offset, block, events>>

(* A gap: the client is to send the block again with the next four numbers.*)
PacketError ==
    /\ Notify("again")
    /\ blockPacketCount' = (blockPacketCount + 4) % Modulus
    /\ packetCount' = (blockPacketCount + 4) % Modulus
    /\ blockNum' = 0
    /\ UNCHANGED <<offset, block, events>>

PacketMatches(p) ==
    /\ packetCount' = (packetCount + 1) % Modulus
    /\ block' = [block EXCEPT ![blockNum + 1] = p.data]
    /\ offset' = CASE blockNum = 0 -> [high |-> System, low |-> p.low]
                   [] blockNum = 1 -> [offset EXCEPT !.high = p.high]
                   [] OTHER -> offset
    /\ IF blockNum = 3
         THEN /\ events' = Append(events, "data")
              /\ blockNum' = 0
              /\ blockPacketCount' = (blockPacketCount + 4) % Modulus
         ELSE /\ blockNum' = blockNum + 1
              /\ UNCHANGED <<events, blockPacketCount>>
    /\ UNCHANGED back

FlashData(p) ==
    \/ p.num = packetCount /\ PacketMatches(p)
    \/ /\ p.num # packetCount /\ IsPrevious(p.num)
       /\ UNCHANGED <<rxVars, events, back>>
    \/ p.num # packetCount /\ ~IsPrevious(p.num) /\ PacketError

OnDataWritten ==
    /\ mode # "boot" /\ air # <<>>
    /\ LET p == Head(air)
       IN  IF p.type = "reset_application"
             THEN Reset /\ UNCHANGED faultVars
             ELSE /\ air' = Tail(air)
                  /\ CASE p.type = "region" -> RegionInfo
                       [] p.type = "data" -> FlashData(p) /\ UNCHANGED fsEnd
                       [] p.type = "end" -> /\ events' = Append(events, "end")
                                            /\ UNCHANGED <<rxVars, fsEnd, back>>
                       [] p.type = "status" -> /\ Notify(mode)
                                               /\ UNCHANGED <<rxVars, fsEnd, events>>
                       [] p.type = "reset_pairing" -> /\ events' = Append(events, "reset")
                                                      /\ UNCHANGED <<rxVars, fsEnd, back>>
                  /\ UNCHANGED <<mode, pc, flashPointer, at, clientVars, faultVars>>
    /\ UNCHANGED <<fixedVars, flash, keyVars>>

-----------------------------------------------------------------------------
(* A fiber: partialFlashingEvent(), one flash operation at a time.         *)

HandlerFrame == UNCHANGED <<fixedVars, mode, rxVars, fsEnd, air, clientVars, faultVars>>

Goto(label) == pc' = label

HandleEvent ==
    /\ mode # "boot" /\ pc = "idle" /\ events # <<>>
    /\ events' = Tail(events)
    /\ \/ Head(events) = "data" /\ Goto("flag") /\ UNCHANGED flashPointer
       \/ Head(events) = "end" /\ Goto("burn_last") /\ flashPointer' = offset
       \/ Head(events) = "reset" /\ Goto("reboot") /\ UNCHANGED flashPointer
    /\ at' = 1
    /\ UNCHANGED <<flash, keyVars, back>> /\ HandlerFrame

(* flashIncomplete is stored before anything is erased; Python's files are *)
(* erased when it is stored for the first time.                            *)
SetFlag ==
    /\ pc = "flag"
    /\ flashIncomplete' = TRUE
    /\ Goto(IF fsEnd /\ ~flashIncomplete THEN "erase_files" ELSE "locate")
    /\ at' = 1
    /\ UNCHANGED <<flash, settings, backup, rebootMode, userData, events, flashPointer, back>>
    /\ HandlerFrame

EraseFiles ==
    /\ pc = "erase_files"
    /\ flash' = ErasePage(flash, Program, at)
    /\ at' = at + PageBlocks
    /\ Goto(IF at' > RegionBlocks THEN "locate" ELSE pc)
    /\ UNCHANGED <<keyVars, events, flashPointer, back>>
    /\ HandlerFrame

Locate ==
    /\ pc = "locate"
    /\ flashPointer' = offset
    /\ at' = 1
    /\ Goto(IF /\ OnBoundary(offset.low)
               /\ \E b \in PageOf(offset.low) : flash[offset.high][b] # All(Blank)
              THEN "erase" ELSE "burn")
    /\ UNCHANGED <<flash, keyVars, events, back>>
    /\ HandlerFrame

Erase ==
    /\ pc = "erase"
    /\ flash' = ErasePage(flash, flashPointer.high, flashPointer.low)
    /\ Goto("burn")
    /\ UNCHANGED <<keyVars, events, flashPointer, at, back>>
    /\ HandlerFrame

BurnCell ==
    /\ pc \in {"burn", "burn_last"} /\ at <= 4
    /\ flash' = [flash EXCEPT ![flashPointer.high][flashPointer.low][at] = Burn(@, block[at])]
    /\ at' = at + 1
    /\ UNCHANGED <<keyVars, events, pc, flashPointer, back>>
    /\ HandlerFrame

Burnt ==
    /\ pc = "burn" /\ at > 4
    /\ Notify("written")
    /\ Goto("idle")
    /\ UNCHANGED <<flash, keyVars, events, flashPointer, at>>
    /\ HandlerFrame

LastBurnt ==
    /\ pc = "burn_last" /\ at > 4
    /\ Goto("settings")
    /\ UNCHANGED <<flash, keyVars, events, flashPointer, at, back>>
    /\ HandlerFrame

\* Faulty: both pages are erased before either is written.
NoValidationErasesBoth ==
    /\ pc \in {"settings", "backup"}
    /\ IF pc = "settings" THEN settings' = "blank" /\ backup' = "blank" /\ Goto("backup")
                          ELSE settings' = "none" /\ backup' = "none" /\ Goto("unflag")
    /\ UNCHANGED <<flash, flashIncomplete, rebootMode, userData, events, flashPointer, at, back>>
    /\ HandlerFrame

(* noValidation(): the settings page and then its backup are erased and    *)
(* written, each unless it is as it should be.                             *)
NoValidation ==
    /\ pc \in {"settings", "backup"}
    /\ LET page == IF pc = "settings" THEN settings ELSE backup
           after == CASE page = "none" -> page
                      [] page = "blank" -> "none"
                      [] OTHER -> "blank"
       IN  /\ IF pc = "settings" THEN settings' = after /\ UNCHANGED backup
                                 ELSE backup' = after /\ UNCHANGED settings
           /\ Goto(IF page = "none" \/ after = "none"
                     THEN (IF pc = "settings" THEN "backup" ELSE "unflag") ELSE pc)
    /\ UNCHANGED <<flash, flashIncomplete, rebootMode, userData, events, flashPointer, at, back>>
    /\ HandlerFrame

\* Faulty: removed under another name.
RemoveFlagMisnamed ==
    /\ pc = "unflag"
    /\ Goto("erase_user_data")
    /\ UNCHANGED <<flash, keyVars, events, flashPointer, at, back>>
    /\ HandlerFrame

RemoveFlag ==
    /\ pc = "unflag"
    /\ flashIncomplete' = FALSE
    /\ Goto("erase_user_data")
    /\ UNCHANGED <<flash, settings, backup, rebootMode, userData, events, flashPointer, at, back>>
    /\ HandlerFrame

(* eraseUserStorage(true) invalidates the user's log.                      *)
EraseUserStorage ==
    /\ pc = "erase_user_data"
    /\ userData' = "none"
    /\ Goto("restart")
    /\ UNCHANGED <<flash, settings, backup, flashIncomplete, rebootMode, events, flashPointer,
                   at, back>>
    /\ HandlerFrame

RestartInBLEMode ==
    /\ pc = "reboot"
    /\ rebootMode' = TRUE
    /\ Goto("restart")
    /\ UNCHANGED <<flash, settings, backup, flashIncomplete, userData, events, flashPointer,
                   at, back>>
    /\ HandlerFrame

Restart ==
    /\ pc = "restart"
    /\ Reset
    /\ UNCHANGED <<fixedVars, flash, keyVars, faultVars>>

Handler ==
    \/ HandleEvent \/ SetFlag \/ EraseFiles \/ Locate \/ Erase \/ BurnCell \/ Burnt
    \/ LastBurnt \/ NoValidation \/ RemoveFlag \/ EraseUserStorage \/ RestartInBLEMode
    \/ Restart

-----------------------------------------------------------------------------
(* The client.                                                             *)

ClientFrame == UNCHANGED <<fixedVars, flash, keyVars, mode, rxVars, fsEnd, handlerVars>>

Send(packets) == air' = air \o packets
Packet(b, i, num) == [type |-> "data", num |-> num % Modulus, data |-> <<b, i>>,
                      low |-> b, high |-> Program]
BlockPackets(b, num) == [i \in 1..4 |-> Packet(b, i, num + i - 1)]
Command(type) == <<[type |-> type]>>

(* A patient client answers when nothing else is on its way, an eager one  *)
(* each notification as it comes; a hasty one also sends a block again that*)
(* may still be written.                                                   *)
Patient == clientKind = "patient"
BoardQuiet == air = <<>> /\ back = <<>> /\ events = <<>> /\ pc = "idle" /\ mode # "boot"

Connect ==
    /\ client = "connect" /\ mode # "boot" /\ BoardQuiet
    /\ Send(Command("status"))
    /\ client' = "status"
    /\ UNCHANGED <<back, next, number, ended, faultVars>> /\ ClientFrame

Start ==
    /\ Send(Command("region"))
    /\ client' = "region" /\ next' = 1 /\ number' = 0 /\ ended' = FALSE

SendBlock(b, num) ==
    /\ Send(BlockPackets(b, num))
    /\ number' = (num + 4) % Modulus
    /\ next' = b
    /\ client' = "block"

SendEnd ==
    /\ Send(Command("end"))
    /\ client' = "end" /\ ended' = TRUE
    /\ UNCHANGED <<next, number>>

Answered ==
    /\ back # <<>>
    /\ Patient => air = <<>>
    /\ LET n == IF Patient THEN Last(back) ELSE Head(back)
       IN  CASE client = "status" /\ n = "pairing" -> Start
             [] client = "status" /\ n = "application" /\ ended ->
                  client' = "done" /\ UNCHANGED <<air, next, number, ended>>
             [] client = "status" /\ n = "application" /\ ~ended ->
                  /\ Send(Command("reset_pairing"))
                  /\ client' = "reset" /\ UNCHANGED <<next, number, ended>>
             [] client = "region" /\ n = "region" -> SendBlock(1, 0) /\ UNCHANGED ended
             [] client = "block" /\ n = "again" -> SendBlock(next, number) /\ UNCHANGED ended
             [] client = "block" /\ n = "written" ->
                  IF next < NewBlocks THEN SendBlock(next + 1, number) /\ UNCHANGED ended
                                      ELSE SendEnd
             [] OTHER -> UNCHANGED <<air, clientVars>>
    /\ back' = IF Patient THEN <<>> ELSE Tail(back)
    /\ UNCHANGED faultVars /\ ClientFrame

(* No answer: the same again, a block with the next four numbers.          *)
Timeout ==
    /\ IF clientKind = "hasty" THEN air = <<>> ELSE BoardQuiet
    /\ CASE client = "status" -> Send(Command("status")) /\ UNCHANGED clientVars
         [] client = "reset" -> Send(Command("reset_pairing")) /\ UNCHANGED clientVars
         [] client = "region" -> Send(Command("region")) /\ UNCHANGED clientVars
         [] client = "block" -> SendBlock(next, number) /\ UNCHANGED ended
         [] client = "end" -> Send(Command("end")) /\ UNCHANGED clientVars
         [] OTHER -> FALSE
    /\ UNCHANGED <<back, faultVars>> /\ ClientFrame

(* The client starts over, in a new connection or after a reset it asks for. *)
GiveUp ==
    /\ client \in {"region", "block"} /\ lost < MaxLost /\ BoardQuiet
    /\ lost' = lost + 1
    /\ \E how \in {"connect", "reset_application"} :
         IF how = "connect" THEN air' = air ELSE Send(Command("reset_application"))
    /\ client' = "connect"
    /\ UNCHANGED <<back, next, number, ended, cuts>> /\ ClientFrame

Lose ==
    /\ lost < MaxLost
    /\ lost' = lost + 1
    /\ \/ air # <<>> /\ air' = Tail(air) /\ back' = back
       \/ back # <<>> /\ back' = Tail(back) /\ air' = air
    /\ UNCHANGED <<clientVars, cuts>> /\ ClientFrame

-----------------------------------------------------------------------------
Next ==
    \/ PowerFails \/ Boot \/ OnDataWritten \/ Handler
    \/ Connect \/ Answered \/ Timeout \/ GiveUp \/ Lose

(* Interrupts, the fiber and booting go on; the client is assumed to.      *)
Fairness ==
    /\ WF_vars(Boot) /\ WF_vars(OnDataWritten) /\ WF_vars(Handler)
    /\ WF_vars(Connect) /\ WF_vars(Answered) /\ WF_vars(Timeout)

Spec == Init /\ [][Next]_vars /\ Fairness

-----------------------------------------------------------------------------
(* The program is all old - the files of a Python program included - or the*)
(* new one is complete, unless flashIncomplete makes the board come up in  *)
(* Bluetooth mode: partialFlashingEvent() stores the key before the first  *)
(* flash operation and removes it after the last.                          *)
Whole ==
    \/ \A b \in Blocks : flash[Program][b] = All(Old)
    \/ \A b \in 1..NewBlocks : flash[Program][b] = Cells(b)
NeverHalfAProgram == flashIncomplete \/ Whole

(* What the client has been told is written is in flash, at its address,   *)
(* whatever was lost, sent again or taken for an earlier batch; and nothing*)
(* but the program's region is written.                                    *)
WrittenExact ==
    /\ client \in {"block", "end"} =>
         \A b \in 1..(IF client = "end" THEN next ELSE next - 1) :
           flash[Program][b] = Cells(b)
    /\ \A b \in Blocks : flash[System][b] = All(Old)

(* The bootloader finds settings in the page or in its backup, whenever    *)
(* the power fails during noValidation().                                  *)
SettingsKept == settings # "blank" \/ backup # "blank"

(* A transfer gets through: each lost packet or notification ends in a     *)
(* block that is sent and matched again, and each reset in another start.  *)
TransferCompletes ==
    <>(/\ client = "done" /\ ~flashIncomplete
       /\ \A b \in 1..NewBlocks : flash[Program][b] = Cells(b))

(* The new program never runs over the data that the user of the old one   *)
(* stored: partialFlashingEvent() clears it before the reset.              *)
UserDataCleared == client = "done" => userData = "none"
=============================================================================
