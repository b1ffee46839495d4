---------------------------- MODULE MCMicroBitAudio ----------------------------
(* Sounds of one and two effects, shorter and longer than a buffer, one    *)
(* that has no end, and for sound_invalid.cfg data that does not parse.    *)
EXTENDS MicroBitAudio

Finite(lengths) == [lengths |-> lengths, forever |-> FALSE]
Endless(lengths) == [lengths |-> lengths, forever |-> TRUE]

MCSounds == {Finite(<<1, 3>>), Endless(<<3>>)}
MCInvalid == {Finite(<<2>>), NoSound}
=============================================================================
