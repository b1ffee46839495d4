----------------------------- MODULE FSCacheLRU -----------------------------
(***************************************************************************)
(* FSCache together with a history variable: the order in which its        *)
(* entries were used.  The replacement policy, which the code computes     *)
(* from a 16 bit clock, is stated against that order.                      *)
(***************************************************************************)
EXTENDS FSCache

VARIABLE used   \* the slots in the order of their last use, the oldest first

lruVars == <<vars, used>>

Touch(i) == Append(SelectSeq(used, LAMBDA j : j # i), i)

LRUInit == Init /\ used = <<>>

LRUNext ==
    \/ \E f \in Fibers :
         \/ Hit(f) /\ used' = Touch(First(Holding(NextBlock(f))))
         \/ Miss(f) /\ used' = Touch(Victim)
         \/ StartRead(f) /\ UNCHANGED used
         \/ StartWrite(f) /\ UNCHANGED used
         \/ StartPin(f) /\ UNCHANGED used
         \/ Fill(f) /\ UNCHANGED used
         \/ \E b \in Block : Unpin(f, b) /\ used' = Touch(First(Holding(b)))
         \/ \E b \in Block : /\ Erase(f, b)
                             /\ used' = IF Holding(b) = {} THEN used ELSE Touch(First(Holding(b)))
         \/ Clear(f) /\ used' = <<>>
    \/ Restart /\ used' = <<>>

LRUSpec == LRUInit /\ [][LRUNext]_lruVars
-----------------------------------------------------------------------------
(* Slot j was last used before slot i was. *)
Older(j, i) == \E m, n \in 1 .. Len(used) : m < n /\ used[m] = j /\ used[n] = i

(* cachePage() replaces the least recently used block: a loaded entry changes *)
(* its block only if every entry that has been unused for longer is pinned.   *)
EvictsLRU ==
    [][\A i, j \in Slot :
         /\ cache[i].loaded /\ cache'[i].loaded /\ cache'[i].address # cache[i].address
         /\ Older(j, i)
         => cache[j].pinned]_lruVars
=============================================================================
