----------------------------- MODULE MicroBitAudio -----------------------------
(***************************************************************************)
(* Sound: SoundExpressions and SoundOutputPin play sounds on a synthesizer *)
(* (SoundEmojiSynthesizer), which a lock gives to one sound at a time; the *)
(* mixer (Mixer2) pulls buffers from it through a channel, and the PWM     *)
(* driver pulls the mixer's in interrupts, between any two steps of a      *)
(* fiber.  MicroBitAudio creates driver and channel when they are first    *)
(* needed, and again after a deep sleep.  Fibers change only where they    *)
(* block; an interrupt's steps run to their end.  A sound is a sequence of *)
(* effects, of which the model keeps the numbers of samples.  The driver,  *)
(* the scheduler and its FiberLock and events are external.                *)
(***************************************************************************)
EXTENDS Integers, Sequences, FiniteSets, SequencesExt

CONSTANTS
    Fibers,
    Idle,           \* the idle thread, which calls idleCallback()
    Power,          \* the fiber that wakes up from deep sleep
    None,
    Sounds,         \* what programs play: records of type Sound
    PinLength,      \* samples of CONFIG_SOUND_OUTPUT_PIN_PERIOD
    BufferSize,     \* samples of the synthesizer's buffer, and of the mixer's
    MaxCalls,       \* bound on calls
    MaxSleeps,      \* bound on deep sleeps
    Users,          \* subset of {"expressions", "pin"}
    Timing          \* subset of {"timely", "racing"}

Sound == [lengths : Seq(Nat), forever : BOOLEAN]

ASSUME AudioAssumption ==
    /\ None \notin Fibers \cup {Idle, Power} /\ Sounds \subseteq Sound
    /\ BufferSize \in Nat \ {0} /\ PinLength \in Nat \ {0}

VARIABLES
    user, timing,   \* whose synthesizer this is; "racing": interrupts inside play() and stop()
    pc, call,       \* where each fiber is, in which call
    current,        \* the fiber that runs
    armed,          \* the fibers that fiber_wake_on_event() has queued
    lock,           \* the synthesizer's FiberLock
    synth,          \* effectBuffer, effect, samplesWritten, samplesToWrite, status
    sink,           \* downStream: a channel of the mixer
    channels,       \* the mixer's, oldest first: pullRequests and a whole buffer or none
    silent,
    irq,            \* where the interrupt is: in pull() of the mixer or the synthesizer
    pwm, asleep,    \* the driver; MICROBIT_AUDIO_STATUS_DEEPSLEEP
    pin,            \* SoundOutputPin
    turns, heard, stopped,  \* history: the sounds scheduled, samples made, those stopped
    calls, sleeps

fiberVars == <<pc, call, current, armed>>
mixerVars == <<channels, silent, irq>>
history == <<turns, heard, stopped>>
fixed == <<user, timing>>
vars == <<fixed, fiberVars, lock, synth, sink, mixerVars, pwm, asleep, pin, history, calls,
          sleeps>>

Clients == Fibers \cup {Idle, Power}
NoSound == [lengths |-> <<>>, forever |-> FALSE]
PinSound == [lengths |-> <<PinLength>>, forever |-> TRUE]
NoCall == [op |-> "none", sound |-> NoSound, turn |-> 0]
Home == [at |-> "none", channel |-> 0, room |-> 0, fill |-> None, done |-> FALSE, silence |-> TRUE]
NewChannel == [pullRequests |-> 0, stock |-> 0]

Total(sound) == FoldLeft(LAMBDA a, b : a + b, 0, sound.lengths)

Init ==
    /\ user \in Users /\ timing \in Timing
    /\ pc = [f \in Clients |-> "home"] /\ call = [f \in Clients |-> NoCall]
    /\ current = None /\ armed = {}
    /\ lock = [locked |-> 0, queue |-> <<>>]
    /\ synth = [buffer |-> NoSound, effect |-> 0, written |-> 0, toWrite |-> 0,
                active |-> FALSE, stopping |-> FALSE]
    /\ sink = 0 /\ channels = <<>> /\ silent = TRUE /\ irq = Home
    /\ pwm = FALSE /\ asleep = FALSE
    /\ pin = [primed |-> FALSE, active |-> FALSE, volume |-> 0, quiet |-> FALSE]
    /\ turns = <<>> /\ heard = <<>> /\ stopped = {}
    /\ calls = 0 /\ sleeps = 0

-----------------------------------------------------------------------------
(* nextSoundEffect(): an empty buffer's first duration is read too; what   *)
(* lies there is taken not to be negative.                                 *)

Waiters == IF lock.locked > 1 THEN lock.locked - 1 ELSE 0

\* The first effect, the next, or Len + 1 for none.
Candidate(s) == IF s.stopping \/ s.effect = 0 THEN 1 ELSE s.effect + 1
Scheduled(s) == IF s.stopping THEN NoSound ELSE s.buffer
IsPast(s) == Candidate(s) > Len(Scheduled(s).lengths)
Rewinds(s) == Scheduled(s).forever /\ Waiters = 0

\* Faulty: a fiber that waits ends any sound.
IsLastImpatient(s) == (IsPast(s) /\ ~Rewinds(s)) \/ Waiters > 0

\* Faulty: a sound without end is repeated, whoever waits.
IsLastNever(s) == IsPast(s) /\ ~Scheduled(s).forever

IsLast(s) == IsPast(s) /\ ~Rewinds(s)

NextSoundEffect(s) ==
    IF IsLast(s)
      THEN [s EXCEPT !.buffer = NoSound, !.effect = 0, !.written = 0, !.toWrite = 0]
      ELSE LET e == IF IsPast(s) THEN 1 ELSE Candidate(s) IN
           [s EXCEPT !.effect = e, !.written = 0, !.toWrite = Scheduled(s).lengths[e]]

IsRenderComplete(s) == s.effect # 0 /\ IsLast(s)

-----------------------------------------------------------------------------
(* Fibers.  One runs until it blocks or returns; the power manager sleeps  *)
(* and wakes when none does.                                               *)

Runs(f, label) == current = f /\ pc[f] = label /\ irq.at = "none" /\ ~asleep
Goto(f, label) == pc' = [pc EXCEPT ![f] = label] /\ UNCHANGED current
Yield(f, label) == pc' = [pc EXCEPT ![f] = label] /\ current' = None
IsFree == current = None /\ irq.at = "none" /\ ~asleep

AtOnce == UNCHANGED <<fixed, mixerVars, asleep, sleeps>>

Begin(f, op, sound, label) ==
    /\ IsFree /\ pc[f] = "home"
    /\ call' = [call EXCEPT ![f] = [op |-> op, sound |-> sound, turn |-> 0]]
    /\ pc' = [pc EXCEPT ![f] = label] /\ current' = f
    /\ UNCHANGED <<lock, synth, sink, pwm, turns, heard, stopped>> /\ AtOnce

(* SoundExpressions: play() queues itself for the event before playAsync(),*)
(* which gives up when the data does not parse.                            *)
Play(f) ==
    /\ user = "expressions" /\ calls < MaxCalls /\ calls' = calls + 1
    /\ \E sound \in {s \in Sounds : ~s.forever} :
         Begin(f, "play", sound, IF sound = NoSound THEN "schedule" ELSE "activate")
    /\ armed' = armed \cup {f}
    /\ UNCHANGED pin

PlayAsync(f) ==
    /\ user = "expressions" /\ calls < MaxCalls /\ calls' = calls + 1
    /\ \E sound \in Sounds \ {NoSound} : Begin(f, "playAsync", sound, "activate")
    /\ UNCHANGED <<armed, pin>>

Stop(f) ==
    /\ user = "expressions" /\ calls < MaxCalls /\ calls' = calls + 1
    /\ Begin(f, "stop", NoSound, "stop")
    /\ UNCHANGED <<armed, pin>>

(* SoundOutputPin: update(), called by setAnalogValue() and by             *)
(* setAnalogPeriodUs().                                                    *)
Update(f) ==
    /\ user = "pin" /\ calls < MaxCalls /\ calls' = calls + 1
    /\ IF pin.primed
         THEN /\ IsFree
              /\ \E volume \in 0 .. 1 : pin' = [pin EXCEPT !.volume = volume, !.quiet = FALSE]
              /\ UNCHANGED <<fiberVars, lock, synth, sink, pwm, history>> /\ AtOnce
         ELSE /\ Begin(f, "update", NoSound, "activate")
              /\ UNCHANGED <<armed, pin>>

IdleRuns == \A f \in Fibers : pc[f] # "ready"

\* Faulty: SOUND_OUTPUT_PIN_STATUS_ACTIVE stays set.
IdleStopsStaysActive ==
    /\ user = "pin" /\ IdleRuns
    /\ pin.active /\ pin.volume = 0 /\ pin.quiet /\ synth.effect # 0 /\ ~synth.stopping
    /\ Begin(Idle, "stop", NoSound, "stop")
    /\ UNCHANGED <<pin, armed, calls>>

IdleStops ==
    /\ user = "pin" /\ IdleRuns
    /\ pin.active /\ pin.volume = 0 /\ pin.quiet
    /\ pin' = [pin EXCEPT !.active = FALSE]
    /\ Begin(Idle, "stop", NoSound, "stop")
    /\ UNCHANGED <<armed, calls>>

IdlePlays ==
    /\ user = "pin" /\ IdleRuns
    /\ ~pin.active /\ pin.primed /\ pin.volume > 0
    /\ pin' = [pin EXCEPT !.active = TRUE]
    /\ Begin(Idle, "playAsync", PinSound, "activate")
    /\ UNCHANGED <<armed, calls>>

Steps == UNCHANGED <<fixed, silent, irq, asleep, calls, sleeps>>

(* requestActivation() and enable(): the driver starts to pull at once.    *)
(* The pin's own channel is added by update().                             *)
Activate(f) ==
    /\ Runs(f, "activate")
    /\ pwm' = TRUE
    /\ Goto(f, IF (user = "expressions" /\ ~pwm) \/ call[f].op = "update" THEN "add"
               ELSE "lock")
    /\ UNCHANGED <<call, armed, lock, synth, sink, channels, pin, history>> /\ Steps

\* Faulty: the first channel is made anew.
AddChannelReplaces(f) ==
    /\ Runs(f, "add")
    /\ channels' = <<NewChannel>>
    /\ Goto(f, "connect")
    /\ UNCHANGED <<call, armed, lock, synth, sink, pwm, pin, history>> /\ Steps

AddChannel(f) ==
    /\ Runs(f, "add")
    /\ channels' = Append(channels, NewChannel)
    /\ Goto(f, "connect")
    /\ UNCHANGED <<call, armed, lock, synth, sink, pwm, pin, history>> /\ Steps

Connect(f) ==
    /\ Runs(f, "connect")
    /\ sink' = Len(channels)
    /\ IF call[f].op \in {"play", "playAsync"} THEN Goto(f, "lock") ELSE Yield(f, "home")
    /\ \E volume \in 0 .. 1 :
         pin' = IF call[f].op = "update" THEN [pin EXCEPT !.primed = TRUE, !.volume = volume]
                ELSE pin
    /\ UNCHANGED <<call, armed, lock, synth, channels, pwm, history>> /\ Steps

(* lock.wait(): a fiber that has to wait leaves the event's queue for the  *)
(* lock's.                                                                 *)
Wait(f) ==
    /\ Runs(f, "lock")
    /\ lock' = [locked |-> lock.locked + 1,
                queue |-> IF lock.locked = 0 THEN <<>> ELSE Append(lock.queue, f)]
    /\ IF lock.locked = 0
         THEN Goto(f, "store") /\ UNCHANGED armed
         ELSE Yield(f, "blocked") /\ armed' = armed \ {f}
    /\ UNCHANGED <<call, synth, sink, channels, pwm, pin, history>> /\ Steps

Store(f) ==
    /\ Runs(f, "store") \/ (IsFree /\ pc[f] = "ready")
    /\ synth' = [synth EXCEPT !.buffer = call[f].sound]
    /\ turns' = Append(turns, call[f].sound) /\ heard' = Append(heard, 0)
    /\ call' = [call EXCEPT ![f].turn = Len(turns) + 1]
    /\ pc' = [pc EXCEPT ![f] = "next"] /\ current' = f
    /\ UNCHANGED <<armed, lock, sink, channels, pwm, pin, stopped>> /\ Steps

(* The first effect, and the first time the request that starts the        *)
(* pulling.                                                                *)
Start(f) ==
    /\ Runs(f, "next")
    /\ synth' = [NextSoundEffect(synth) EXCEPT !.active = TRUE]
    /\ channels' = IF synth.active THEN channels
                   ELSE [channels EXCEPT ![sink].pullRequests = @ + 1]
    /\ IF call[f].op = "play" THEN Goto(f, "schedule") ELSE Yield(f, "home")
    /\ UNCHANGED <<call, armed, lock, sink, pwm, pin, history>> /\ Steps

(* schedule(): the fiber waits if it is still queued for the event.        *)
Schedule(f) ==
    /\ Runs(f, "schedule")
    /\ Yield(f, IF f \in armed THEN "waiting" ELSE "home")
    /\ UNCHANGED <<call, armed, lock, synth, sink, channels, pwm, pin, history>> /\ Steps

StopTests(f) ==
    /\ Runs(f, "stop")
    /\ stopped' = IF synth.effect # 0 THEN stopped \cup {Len(turns)} ELSE stopped
    /\ IF synth.effect # 0 THEN Goto(f, "stopping") ELSE Yield(f, "home")
    /\ UNCHANGED <<call, armed, lock, synth, sink, channels, pwm, pin, turns, heard>> /\ Steps

StopSets(f) ==
    /\ Runs(f, "stopping")
    /\ synth' = [synth EXCEPT !.stopping = TRUE]
    /\ Yield(f, "home")
    /\ UNCHANGED <<call, armed, lock, sink, channels, pwm, pin, history>> /\ Steps

FiberStep(f) ==
    \/ Activate(f) \/ AddChannel(f) \/ Connect(f) \/ Wait(f) \/ Store(f) \/ Start(f)
    \/ Schedule(f) \/ StopTests(f) \/ StopSets(f)

-----------------------------------------------------------------------------
(* Sleep and time.                                                         *)

Sleep ==
    /\ IsFree /\ pwm /\ sleeps < MaxSleeps
    /\ sleeps' = sleeps + 1
    /\ pwm' = FALSE /\ asleep' = TRUE
    /\ UNCHANGED <<fixed, fiberVars, lock, synth, sink, mixerVars, pin, history, calls>>

(* enable() once more: the expressions' synthesizer gets another channel.  *)
Wake ==
    /\ asleep
    /\ asleep' = FALSE /\ pwm' = TRUE
    /\ IF user = "expressions"
         THEN /\ pc' = [pc EXCEPT ![Power] = "add"] /\ current' = Power
              /\ call' = [call EXCEPT ![Power] = [NoCall EXCEPT !.op = "wake"]]
         ELSE UNCHANGED <<pc, current, call>>
    /\ UNCHANGED <<fixed, armed, lock, synth, sink, mixerVars, pin, history, calls, sleeps>>

SilenceGate ==
    /\ ~asleep /\ pin.primed /\ ~pin.quiet
    /\ pin' = [pin EXCEPT !.quiet = TRUE]
    /\ UNCHANGED <<fixed, fiberVars, lock, synth, sink, mixerVars, pwm, asleep, history, calls,
                   sleeps>>

-----------------------------------------------------------------------------
(* The interrupt.                                                          *)

\* The lock's next fiber, and all that wait for the event, become ready.
Notify ==
    /\ lock' = [locked |-> IF lock.locked > 0 THEN lock.locked - 1 ELSE 0,
                queue |-> IF lock.queue = <<>> THEN <<>> ELSE Tail(lock.queue)]
    /\ pc' = [f \in Clients |->
                CASE lock.queue # <<>> /\ f = Head(lock.queue) -> "ready"
                  [] pc[f] = "waiting" /\ f \in armed -> "home"
                  [] OTHER -> pc[f]]
    /\ armed' = {}

InIRQ == UNCHANGED <<fixed, call, current, sink, pwm, asleep, pin, turns, stopped, calls, sleeps>>

(* "timely": not while play() has stored the sound and not yet moved to    *)
(* it, nor while stop() is between its test and its flag.                  *)
Timely ==
    timing = "timely" => \A f \in Clients : current = f => pc[f] \notin {"next", "stopping"}

MixerPull ==
    /\ irq.at = "none" /\ pwm /\ Timely
    /\ channels # <<>>
    /\ irq' = [Home EXCEPT !.at = "channel", !.channel = Len(channels), !.room = 1]
    /\ UNCHANGED <<pc, armed, lock, synth, channels, silent, heard>> /\ InIRQ

NextChannel(i) == [i EXCEPT !.at = "channel", !.channel = @ - 1, !.room = 1]

(* The buffer is mixed; used up or missing, the next one is asked for.     *)
ChannelMixes ==
    /\ irq.at = "channel" /\ irq.channel > 0
    /\ LET c == channels[irq.channel]
           i == [irq EXCEPT !.room = @ - c.stock, !.silence = @ /\ c.stock = 0]
       IN IF c.pullRequests = 0
            THEN /\ channels' = [channels EXCEPT ![irq.channel].stock = 0]
                 /\ irq' = NextChannel(i)
            ELSE /\ channels' = [channels EXCEPT ![irq.channel] =
                                   [pullRequests |-> c.pullRequests - 1, stock |-> 0]]
                 /\ irq' = [i EXCEPT !.at = "effect", !.fill = None, !.done = FALSE]
    /\ UNCHANGED <<pc, armed, lock, synth, silent, heard>> /\ InIRQ

MixerEnds ==
    /\ irq.at = "channel" /\ irq.channel = 0
    /\ silent' = irq.silence
    /\ irq' = Home
    /\ UNCHANGED <<pc, armed, lock, synth, channels, heard>> /\ InIRQ

(* pull() of the synthesizer, the head of its loop.                        *)
SynthMovesOn ==
    /\ irq.at = "effect"
    /\ IF synth.written = synth.toWrite \/ synth.stopping
         THEN LET next == NextSoundEffect(synth)
                  ends == next.toWrite = 0 \/ synth.stopping
                  over == ends /\ (IsRenderComplete(synth) \/ synth.stopping)
              IN /\ synth' = [next EXCEPT !.stopping = @ /\ ~over]
                 /\ irq' = [irq EXCEPT !.at = "render", !.done = ends]
                 /\ IF over THEN Notify ELSE UNCHANGED <<pc, armed, lock>>
         ELSE /\ irq' = [irq EXCEPT !.at = "render"]
              /\ UNCHANGED <<synth, pc, armed, lock>>
    /\ UNCHANGED <<channels, silent, heard>> /\ InIRQ

Least(a, b) == IF a < b THEN a ELSE b

(* Samples until the buffer is full or the effect over.                    *)
SynthRenders ==
    /\ irq.at = "render"
    /\ LET left == synth.toWrite - synth.written
           fill == IF irq.fill = None THEN 0 ELSE irq.fill
           n == Least(left, BufferSize - fill)
           t == Len(turns)
           before == IF turns[t].forever /\ heard[t] = Total(turns[t]) THEN 0 ELSE heard[t]
       IN /\ synth' = [synth EXCEPT !.written = @ + n]
          /\ heard' = IF n > 0 THEN [heard EXCEPT ![t] = before + n] ELSE heard
          /\ irq' = [irq EXCEPT !.fill = IF left > 0 THEN fill + n ELSE @,
                                !.at = IF irq.done \/ n < left THEN "return" ELSE "effect"]
    /\ UNCHANGED <<pc, armed, lock, channels, silent>> /\ InIRQ

(* The rest is silence, and an empty buffer if all is; either way the      *)
(* channel that is connected now may ask for another.                      *)
SynthReturns ==
    /\ irq.at = "return"
    /\ LET stock == IF irq.fill = None THEN 0 ELSE 1
           received == [channels EXCEPT ![irq.channel].stock = stock]
       IN /\ channels' = [received EXCEPT ![sink].pullRequests = @ + 1]
          /\ irq' = IF stock = 1 /\ irq.room > 0 THEN [irq EXCEPT !.at = "channel"]
                    ELSE NextChannel(irq)
    /\ UNCHANGED <<pc, armed, lock, synth, silent, heard>> /\ InIRQ

Interrupt ==
    \/ MixerPull \/ ChannelMixes \/ MixerEnds \/ SynthMovesOn \/ SynthRenders \/ SynthReturns

-----------------------------------------------------------------------------
Next ==
    \/ \E f \in Fibers : Play(f) \/ PlayAsync(f) \/ Stop(f) \/ Update(f)
    \/ \E f \in Clients : FiberStep(f)
    \/ IdleStops \/ IdlePlays
    \/ Sleep \/ Wake \/ SilenceGate \/ Interrupt

(* Fibers and the idle thread go on, the driver goes on pulling, and a     *)
(* deep sleep ends.                                                        *)
Fairness ==
    /\ SF_vars(\E f \in Clients : FiberStep(f)) /\ SF_vars(IdleStops \/ IdlePlays)
    /\ WF_vars(Wake) /\ WF_vars(SilenceGate) /\ WF_vars(Interrupt)

Spec == Init /\ [][Next]_vars /\ Fairness

-----------------------------------------------------------------------------
(* A sound whose turn is over was played to its last sample, unless stop() *)
(* was called: neither the next sound, nor a sleep, nor the interrupt cuts *)
(* effects off or skips them.                                              *)
PlayedWhole ==
    \A t \in DOMAIN turns :
        (t < Len(turns) \/ lock.locked = 0) /\ t \notin stopped => heard[t] = Total(turns[t])

(* Once the synthesizer is in use, the mixer's channels hold one request   *)
(* for its next buffer between interrupts, also when a sleep has left it   *)
(* with two channels: with none it would be silent for ever, with two the  *)
(* channels would take turns with its buffers.                             *)
OneRequest ==
    irq.at = "none" =>
        FoldLeft(LAMBDA a, c : a + c.pullRequests, 0, channels) = IF synth.active THEN 1 ELSE 0

(* Every call returns: a sound gets its turn, also after one that has no   *)
(* end, and whoever waits for a sound's end is woken.                      *)
CallsReturn == \A f \in Fibers : pc[f] # "home" ~> pc[f] = "home"

(* The pin sounds when its volume is up, and frees the synthesizer after a *)
(* time without.                                                           *)
PinFollows ==
    /\ pin.volume > 0 ~> synth.effect # 0 \/ pin.volume = 0
    /\ pin.volume = 0 /\ pin.quiet ~> synth.effect = 0 \/ pin.volume > 0 \/ ~pin.quiet

(* SoundExpressions::play() "Blocks until the sound is complete."          *)
PlayBlocks ==
    [][\A f \in Fibers :
         pc[f] # "home" /\ pc'[f] = "home" /\ call[f].op = "play" /\ call[f].turn # 0 =>
             call[f].turn < Len(turns) \/ synth'.effect = 0]_vars
=============================================================================
