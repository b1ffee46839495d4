----------------------------- MODULE AppendLog -----------------------------
(***************************************************************************)
(* What MicroBitLog promises of its storage: a text log that only grows.   *)
(* A string that is being written reaches the log character by character,  *)
(* in order; once its call has returned all of it is there.  A reset may   *)
(* cut a string that is being written short, and loses nothing else.  Only *)
(* clearing the log removes anything, and a log that was cut short or      *)
(* cleared is closed until it is opened again.                             *)
(***************************************************************************)
EXTENDS Naturals, Sequences

CONSTANTS Val,        \* the characters of a log
          Capacity    \* the number of characters a log holds

VARIABLES log,        \* the characters a reader of the storage finds
          pending,    \* the part of the current string that is not in the log yet
          open        \* TRUE while strings may be written

vars == <<log, pending, open>>

Init == log = <<>> /\ pending = <<>> /\ open = FALSE

Open ==
    /\ open' = TRUE
    /\ UNCHANGED <<log, pending>>

Begin(s) ==
    /\ open /\ pending = <<>>
    /\ Len(log) + Len(s) <= Capacity
    /\ pending' = s
    /\ UNCHANGED <<log, open>>

Put ==
    /\ pending # <<>>
    /\ log' = Append(log, Head(pending))
    /\ pending' = Tail(pending)
    /\ UNCHANGED open

Crash ==
    /\ pending' = <<>> /\ open' = FALSE
    /\ UNCHANGED log

Clear ==
    /\ pending = <<>>
    /\ log' = <<>> /\ open' = FALSE
    /\ UNCHANGED pending

Next == \/ pending' \in Seq(Val) /\ Begin(pending')
        \/ Open \/ Put \/ Crash \/ Clear

Spec == Init /\ [][Next]_vars
=============================================================================
