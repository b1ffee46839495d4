-------------------------- MODULE MCMicroBitRadio --------------------------
(***************************************************************************)
(* The heaps and surroundings that MicroBitRadio is checked for.           *)
(***************************************************************************)
EXTENDS MicroBitRadio

(* Memory for every packet that the queues accept, so that they fill up. *)
Roomy == [buffers |-> 5, packets |-> 4, forwards |-> FALSE]

(* Memory runs out before the queues are full. *)
Short == [Roomy EXCEPT !.buffers = 4]

(* Events of other interrupts are sent while the program is anywhere. *)
Forwarding == [buffers |-> 4, packets |-> 2, forwards |-> TRUE]

AllScenarios    == {Roomy, Short, Forwarding}
OnlyForwarding  == {Forwarding}
=============================================================================
