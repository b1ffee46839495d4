------------------------------ MODULE NVStore ------------------------------
(***************************************************************************)
(* What a user of FSCache is promised: a store of NOR flash blocks.  A     *)
(* block is an array of bytes and a byte is the set of its bits that are   *)
(* still 1, so an erased byte is Bit and programming can only shrink it.   *)
(* A write changes exactly the bytes it was given, block by block, or is   *)
(* refused before it changed any; a read returns what the store holds;     *)
(* only an erase turns a bit back to 1.  There is no cache here: FSCache   *)
(* is shown to implement this module.                                      *)
(***************************************************************************)
CONSTANTS Fibers,   \* the fibers that read and write
          Block,    \* the set of blocks
          Cell,     \* the byte offsets of a block
          Bit       \* the bits of a byte

VARIABLES store,    \* [Block -> [Cell -> SUBSET Bit]]
          call,     \* per fiber, the read or write in progress
          reply     \* per fiber, the bytes its last read step returned

Byte    == SUBSET Bit
Erased  == [c \in Cell |-> Bit]
NoReply == [block |-> {}, bytes |-> <<>>]

(* A call names the bytes it is about, as offsets per block, what a write     *)
(* puts there, and the blocks it has not dealt with yet.                      *)
Call    == [kind : {"read", "write"}, cells : [Block -> SUBSET Cell],
            data : [Block -> [Cell -> Byte]], todo : SUBSET Block]
NoCall  == [kind |-> "none", cells |-> [b \in Block |-> {}], data |-> [b \in Block |-> Erased],
            todo |-> {}]

Touched(c) == {b \in Block : c.cells[b] # {}}

Init == /\ store \in [Block -> [Cell -> Byte]]
        /\ call = [f \in Fibers |-> NoCall]
        /\ reply = [f \in Fibers |-> NoReply]

Done(f, b) == IF call[f].todo = {b} THEN NoCall ELSE [call[f] EXCEPT !.todo = @ \ {b}]

Begin(f) ==
    /\ call[f] = NoCall
    /\ call'[f] \in Call /\ call'[f].todo = Touched(call'[f])
    /\ call' = [call EXCEPT ![f] = call'[f]]
    /\ reply' = [reply EXCEPT ![f] = NoReply]
    /\ UNCHANGED store

ReadBlock(f, b) ==
    /\ call[f].kind = "read"
    /\ reply' = [reply EXCEPT ![f] =
                   [block |-> {b}, bytes |-> [c \in call[f].cells[b] |-> store[b][c]]]]
    /\ call' = [call EXCEPT ![f] = Done(f, b)]
    /\ UNCHANGED store

(* Without an erase a bit can only go from 1 to 0. *)
Programmable(f, b) == \A c \in call[f].cells[b] : call[f].data[b][c] \subseteq store[b][c]

WriteBlock(f, b) ==
    /\ call[f].kind = "write"
    /\ \A d \in call[f].todo : Programmable(f, d)
    /\ store' = [store EXCEPT ![b] =
                   [c \in Cell |-> IF c \in call[f].cells[b] THEN call[f].data[b][c] ELSE @[c]]]
    /\ call' = [call EXCEPT ![f] = Done(f, b)]
    /\ UNCHANGED reply

Refuse(f) ==
    /\ call[f].kind = "write"
    /\ call[f].todo = Touched(call[f])
    /\ \E d \in call[f].todo : ~Programmable(f, d)
    /\ call' = [call EXCEPT ![f] = NoCall]
    /\ UNCHANGED <<store, reply>>

Erase(B) ==
    /\ store' = [b \in Block |-> IF b \in B THEN Erased ELSE store[b]]
    /\ UNCHANGED <<call, reply>>

(* A reset abandons the calls in progress and keeps the store. *)
Restart ==
    /\ call' = [f \in Fibers |-> NoCall]
    /\ reply' = [f \in Fibers |-> NoReply]
    /\ UNCHANGED store

Next == \/ \E f \in Fibers :
              \/ Begin(f) \/ Refuse(f)
              \/ \E b \in call[f].todo : ReadBlock(f, b) \/ WriteBlock(f, b)
        \/ \E B \in SUBSET Block : Erase(B)
        \/ Restart

vars == <<store, call, reply>>

Spec == Init /\ [][Next]_vars
=============================================================================
