---------------------------- MODULE MicroBitUIPM ----------------------------
(***************************************************************************)
(* The half of MicroBitPowerManager that talks to the USB interface chip   *)
(* (KL27): the properties it reads and writes, and the user events the     *)
(* chip raises on the interrupt line it shares with MicroBitUSBFlashManager*)
(* and with the sensors.  The waits of these calls are busy waits          *)
(* (target_wait), so a whole call is one step for every other fiber.       *)
(***************************************************************************)
EXTENDS Integers

CONSTANTS
    IrqThreshold,   \* MICROBIT_USB_INTERFACE_IRQ_THRESHOLD
    MaxEvents,      \* bound on the user events of a behaviour
    MaxReads        \* bound on the properties that are read in a behaviour

ASSUME UIPMAssumption == IrqThreshold \in Nat /\ MaxEvents \in Nat /\ MaxReads \in Nat

VARIABLES
    frame,          \* the frame the chip holds for the UIPM address, or "none"
    awaiting,       \* MICROBIT_USB_INTERFACE_AWAITING_RESPONSE
    activeCount,    \* idleCallback()'s count of polls with the line held
    known,          \* what the manager last stored of each property
    power,          \* "on", or "off" once SYSTEMOFF is written
    raised,         \* user events raised so far
    reads           \* properties read so far

uipmVars == <<frame, awaiting, activeCount, known, power, raised, reads>>

Events == {"wake_reset", "wake_usb", "long_press", "unknown_event"}
Versions == {"board_revision", "i2c_version", "daplink_version"}
Properties == {"power_source", "usb_state", "power_consumption", "version"}

UIPMInit ==
    /\ frame = "none"
    /\ awaiting = FALSE
    /\ activeCount = 0
    /\ known = [p \in Properties |-> "unset"]
    /\ power = "on"
    /\ raised = 0
    /\ reads = 0

(* The chip raises an event: the frame waits for a read, the line is low.  *)
RaiseEvent ==
    /\ raised < MaxEvents
    /\ frame = "none"
    /\ \E e \in Events : frame' = e
    /\ raised' = raised + 1
    /\ UNCHANGED <<awaiting, activeCount, known, power, reads>>

AwaitingPacket(on) == awaiting' = on

(* recvUIPMPacket() with the line active: the frame the chip holds, a      *)
(* reply that means nothing when it holds none, or a failed read.          *)
RecvUIPMPacket ==
    {[got |-> "nothing", left |-> frame],
     [got |-> IF frame = "none" THEN "error" ELSE frame, left |-> "none"]}

(* awaitUIPMPacket() returns the first complete frame, whatever it is      *)
(* about: the answer, an event that was waiting, or the error it makes up  *)
(* after MICROBIT_UIPM_MAX_RETRIES.                                        *)
AwaitUIPMPacket ==
    {[got |-> "answer", left |-> "none"], [got |-> "error", left |-> frame]}
    \cup (IF frame \in Events THEN {[got |-> frame, left |-> "none"]} ELSE {})

(* readProperty(): the callers take bytes 3.. of any reply, of an empty    *)
(* one too when the request could not be sent.                             *)
ReadProperty ==
    AwaitUIPMPacket \cup {[got |-> "unsent", left |-> frame]}

Stored(reply) == IF reply.got = "answer" THEN "right" ELSE "junk"

(* getPowerSource(), getUSBStatus() and getPowerConsumption() are one read *)
(* each.                                                                   *)
GetPowerSource ==
    \E p \in {"power_source", "usb_state", "power_consumption"}, r \in ReadProperty :
        /\ reads < MaxReads
        /\ reads' = reads + 1
        /\ known' = [known EXCEPT ![p] = Stored(r)]
        /\ frame' = r.left
        /\ IF r.got = "unsent" THEN UNCHANGED awaiting ELSE AwaitingPacket(FALSE)
        /\ UNCHANGED <<activeCount, power, raised>>

(* getVersion() reads three properties every time: the line that would     *)
(* remember that it did is commented out.  An event can be the reply to    *)
(* one of them.                                                            *)
GetVersion ==
    \E replies \in [Versions -> ReadProperty] :
        LET takers == {p \in Versions : replies[p].got \in Events}
            answered == {p \in Versions : replies[p].got = "answer"}
        IN  /\ reads < MaxReads
            /\ \A p, q \in takers : p = q
            /\ reads' = reads + 1
            /\ known' = [known EXCEPT !["version"] =
                           IF answered = Versions THEN "right" ELSE "junk"]
            /\ frame' = IF takers \cup answered = {} THEN frame ELSE "none"
            /\ IF \A p \in Versions : replies[p].got = "unsent"
                 THEN UNCHANGED awaiting ELSE AwaitingPacket(FALSE)
            /\ UNCHANGED <<activeCount, power, raised>>

(* off() ends the program: the LED and the power mode are written, the     *)
(* components are told, and SYSTEMOFF is set whatever the chip replied.    *)
Off == power' = "off"

(* idleCallback(): nothing while a reply is awaited or the line is high;   *)
(* past the threshold the frame is read, and a long press turns the board  *)
(* off.  `line` is what the interrupt line shows.                          *)
IdleCallback(line) ==
    /\ UNCHANGED <<awaiting, known, raised, reads>>
    /\ \/ /\ awaiting \/ ~line
          /\ activeCount' = 0
          /\ UNCHANGED <<frame, power>>
       \/ /\ ~awaiting /\ line /\ activeCount < IrqThreshold
          /\ activeCount' = activeCount + 1
          /\ UNCHANGED <<frame, power>>
       \/ /\ ~awaiting /\ line /\ activeCount >= IrqThreshold
          /\ activeCount' = 0
          /\ \E r \in RecvUIPMPacket :
                /\ frame' = r.left
                /\ IF r.got = "long_press" THEN Off ELSE UNCHANGED power
=============================================================================
