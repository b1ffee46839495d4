--------------------------- MODULE MCMicroBitLog ---------------------------
(***************************************************************************)
(* The boards and programs that MicroBitLog is checked for.                *)
(***************************************************************************)
EXTENDS MicroBitLog

CONSTANTS f1, f2, k1, k2

Rows == {"logData", "endRow", "logString"}

(* One program that calls everything in any order. *)
OneCaller ==
    [fibers |-> {f1}, keys |-> {k1, k2}, space |-> 4, formatted |-> TRUE, resets |-> FALSE,
     api |-> Rows \cup {"beginRow", "setTimeStamp", "clear"}]

(* Two programs that share a log. *)
TwoCallers ==
    [fibers |-> {f1, f2}, keys |-> {k1}, space |-> 3, formatted |-> TRUE, resets |-> FALSE,
     api |-> Rows \cup {"clear"}]

(* The same on a board that is new and may be reset. *)
NewBoard ==
    [fibers |-> {f1, f2}, keys |-> {k1}, space |-> 3, formatted |-> FALSE, resets |-> TRUE, api |-> Rows]

(* A board that is flashed with another program again and again. *)
Reflashed ==
    [fibers |-> {f1}, keys |-> {k1}, space |-> 3, formatted |-> FALSE, resets |-> TRUE,
     api |-> Rows \cup {"clear", "invalidate"}]

AllScenarios == {OneCaller, TwoCallers, NewBoard, Reflashed}

(* A new board whose program writes plain lines. *)
NewBoardLines ==
    {[fibers |-> {f1}, keys |-> {k1}, space |-> 3, formatted |-> FALSE, resets |-> FALSE, api |-> {"logString"}]}

(* A program that adds a column later. *)
GrowingRows ==
    {[fibers |-> {f1}, keys |-> {k1, k2}, space |-> 6, formatted |-> TRUE, resets |-> FALSE,
      api |-> {"logData", "endRow"}]}
=============================================================================
