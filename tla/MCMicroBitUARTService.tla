----------------------- MODULE MCMicroBitUARTService -----------------------
(***************************************************************************)
(* The programs and links that MicroBitUARTService is checked for.         *)
(***************************************************************************)
EXTENDS MicroBitUARTService

CONSTANTS f1, f2

Modes == {"ASYNC", "SYNC_SLEEP"}

(* One program that reads. *)
Reader == [fibers |-> {f1}, calls |-> {"getc", "read", "readUntil"} \X Modes, writes |-> TRUE, drops |-> FALSE]

(* Two programs that send. *)
Senders == [fibers |-> {f1, f2}, calls |-> {"send"} \X Modes, writes |-> FALSE, drops |-> FALSE]

(* One that sends over a link that is lost again and again. *)
LooseLink == [fibers |-> {f1}, calls |-> {"send"} \X Modes, writes |-> FALSE, drops |-> TRUE]

AllScenarios == {Reader, Senders, LooseLink}
OneSender == {[Senders EXCEPT !.fibers = {f1}]}
OneReader == {Reader}
=============================================================================
