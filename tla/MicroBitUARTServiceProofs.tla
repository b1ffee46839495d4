--------------------- MODULE MicroBitUARTServiceProofs ---------------------
(***************************************************************************)
(* The two rings of the UART service, for every size of ring, attribute,   *)
(* packet and call, every number of fibers and every program: types, what  *)
(* is on its way to the central, and what a single reader finds.           *)
(***************************************************************************)
EXTENDS MicroBitUARTService, TLAPS, FiniteSetTheorems, SequenceTheorems, WellFoundedInduction

-----------------------------------------------------------------------------
(* Positions on a ring of N cells, and sums of numbers modulo N. *)
Plus(N, t, k)  == (t + k) % N
Minus(N, h, t) == (h - t) % N

LEMMA RingAdd ==
    ASSUME NEW N \in Nat, N > 0, NEW t \in 0 .. N - 1, NEW k \in 0 .. N
    PROVE  Plus(N, t, k) = (IF t + k < N THEN t + k ELSE t + k - N) /\ Plus(N, t, k) \in 0 .. N - 1
BY DEF Plus

LEMMA RingSub ==
    ASSUME NEW N \in Nat, N > 0, NEW h \in 0 .. N - 1, NEW t \in 0 .. N - 1
    PROVE  Minus(N, h, t) = (IF h >= t THEN h - t ELSE h - t + N) /\ Minus(N, h, t) \in 0 .. N - 1
BY DEF Minus

(* Of the c cells from t up to h, k are given up. *)
LEMMA RingTake ==
    ASSUME NEW N \in Nat, N > 0, NEW h \in 0 .. N - 1, NEW t \in 0 .. N - 1,
           NEW k \in 0 .. Minus(N, h, t)
    PROVE  /\ Plus(N, t, k) \in 0 .. N - 1
           /\ Minus(N, h, Plus(N, t, k)) = Minus(N, h, t) - k
           /\ \A i \in 0 .. Minus(N, h, t) - k : Plus(N, Plus(N, t, k), i) = Plus(N, t, k + i)
<1> DEFINE u == Plus(N, t, k)
           c == Minus(N, h, t)
<1>1. c = (IF h >= t THEN h - t ELSE h - t + N) /\ c \in 0 .. N - 1
    BY RingSub, Zenon
<1> HIDE DEF c
<1>2. k \in 0 .. c /\ k \in 0 .. N
    <2>1. k \in 0 .. c
        BY DEF c
    <2> QED
        BY <1>1, <2>1
<1>3. u = (IF t + k < N THEN t + k ELSE t + k - N) /\ u \in 0 .. N - 1
    BY <1>2, RingAdd, Zenon
<1> HIDE DEF u
<1>4. Minus(N, h, u) = (IF h >= u THEN h - u ELSE h - u + N)
    BY <1>3, RingSub, Zenon
<1>5. Minus(N, h, u) = c - k
    BY <1>1, <1>2, <1>3, <1>4
<1>6. ASSUME NEW i \in 0 .. c - k PROVE Plus(N, u, i) = Plus(N, t, k + i)
    <2>1. i \in 0 .. N /\ k + i \in 0 .. N
        BY <1>1, <1>2
    <2>2. Plus(N, u, i) = (IF u + i < N THEN u + i ELSE u + i - N)
        BY <1>3, <2>1, RingAdd, Zenon
    <2>3. Plus(N, t, k + i) = (IF t + (k + i) < N THEN t + (k + i) ELSE t + (k + i) - N)
        BY <2>1, RingAdd, Zenon
    <2> QED
        BY <1>1, <1>2, <1>3, <2>2, <2>3
<1> QED
    BY <1>3, <1>5, <1>6 DEF u, c

(* k of the free cells from h on are filled; the place of a cell among them.  *)
LEMMA RingPut ==
    ASSUME NEW N \in Nat, N > 0, NEW h \in 0 .. N - 1, NEW t \in 0 .. N - 1,
           NEW k \in 0 .. N - 1 - Minus(N, h, t)
    PROVE  /\ Plus(N, h, k) \in 0 .. N - 1
           /\ Minus(N, Plus(N, h, k), t) = Minus(N, h, t) + k
           /\ \A i \in 0 .. Minus(N, h, t) - 1 :
                 Plus(N, t, i) \in 0 .. N - 1 /\ Minus(N, Plus(N, t, i), h) >= k /\ Plus(N, t, i) # h
           /\ \A i \in Minus(N, h, t) .. Minus(N, h, t) + k - 1 :
                 Plus(N, t, i) \in 0 .. N - 1 /\ Minus(N, Plus(N, t, i), h) = i - Minus(N, h, t)
<1> DEFINE c == Minus(N, h, t)
<1>1. c = (IF h >= t THEN h - t ELSE h - t + N) /\ c \in 0 .. N - 1
    BY RingSub, Zenon
<1> HIDE DEF c
<1>0. k \in 0 .. N - 1 - c
    BY DEF c
<1>2. Plus(N, h, k) \in 0 .. N - 1 /\ Minus(N, Plus(N, h, k), t) = c + k
    <2> DEFINE g == Plus(N, h, k)
    <2>1. k \in 0 .. N
        BY <1>1, <1>0
    <2>2. g = (IF h + k < N THEN h + k ELSE h + k - N) /\ g \in 0 .. N - 1
        BY <2>1, RingAdd, Zenon
    <2> HIDE DEF g
    <2>3. Minus(N, g, t) = (IF g >= t THEN g - t ELSE g - t + N)
        BY <2>2, RingSub, Zenon
    <2>4. Minus(N, g, t) = c + k
        BY <1>1, <1>0, <2>2, <2>3
    <2> QED
        BY <2>2, <2>4 DEF g
<1>3. ASSUME NEW i \in 0 .. N - 1
      PROVE  /\ Plus(N, t, i) \in 0 .. N - 1
             /\ i < c => Minus(N, Plus(N, t, i), h) >= k /\ Plus(N, t, i) # h
             /\ i >= c => Minus(N, Plus(N, t, i), h) = i - c
    <2> DEFINE g == Plus(N, t, i)
    <2>1. i \in 0 .. N
        OBVIOUS
    <2>2. g = (IF t + i < N THEN t + i ELSE t + i - N) /\ g \in 0 .. N - 1
        BY <2>1, RingAdd, Zenon
    <2> HIDE DEF g
    <2>3. Minus(N, g, h) = (IF g >= h THEN g - h ELSE g - h + N)
        BY <2>2, RingSub, Zenon
    <2>4. (i < c => Minus(N, g, h) >= k /\ g # h) /\ (i >= c => Minus(N, g, h) = i - c)
        BY <1>1, <1>0, <2>2, <2>3
    <2> QED
        BY <2>2, <2>4 DEF g
<1>4. \A i \in 0 .. c + k - 1 : i \in 0 .. N - 1
    BY <1>1, <1>0
<1> QED
    BY <1>1, <1>2, <1>3, <1>4, <1>0 DEF c

(* Numbers are added in any order. *)
LEMMA RingSum ==
    ASSUME NEW N \in Nat, N > 0, NEW n \in 0 .. N - 1, NEW k \in 0 .. N, NEW i \in 0 .. N, k + i <= N
    PROVE  Plus(N, Plus(N, n, k), i) = Plus(N, n, k + i)
<1> DEFINE m == Plus(N, n, k)
<1>1. m = (IF n + k < N THEN n + k ELSE n + k - N) /\ m \in 0 .. N - 1
    BY RingAdd, Zenon
<1>2. k + i \in 0 .. N
    OBVIOUS
<1>3. Plus(N, n, k + i) = (IF n + (k + i) < N THEN n + (k + i) ELSE n + (k + i) - N)
    BY <1>2, RingAdd, Zenon
<1> HIDE DEF m
<1>4. Plus(N, m, i) = (IF m + i < N THEN m + i ELSE m + i - N)
    BY <1>1, RingAdd, Zenon
<1>5. Plus(N, m, i) = Plus(N, n, k + i)
    BY <1>1, <1>3, <1>4
<1> QED
    BY <1>5 DEF m

(* The least element of a set of naturals. *)
LEMMA MinIsLeast ==
    ASSUME NEW S \in SUBSET Nat, S # {}
    PROVE  Min(S) \in S /\ \A m \in S : Min(S) <= m
<1>1. PICK n \in S : \A m \in S : ~(<<m, n>> \in OpToRel(<, Nat))
    BY NatLessThanWellFounded, WFMin
<1>2. OpToRel(<, Nat) = {p \in Nat \X Nat : p[1] < p[2]}
    BY Zenon DEF OpToRel
<1>3. ASSUME NEW m \in S, m < n PROVE FALSE
    <2>1. <<m, n>> \in {p \in Nat \X Nat : p[1] < p[2]}
        BY <1>3
    <2> QED
        BY <1>1, <1>2, <2>1, Zenon
<1>4. \A m \in S : n <= m
    BY <1>3
<1> QED
    BY <1>4 DEF Min
-----------------------------------------------------------------------------
(* The inductive invariant of control and types.                              *)
Bytes  == 0 .. Wrap - 1
Modes  == {"ASYNC", "SYNC_SLEEP"}
Steps  == {"get", "size", "need", "arm", "await", "scan", "listen", "awaitDelimiter",
           "send", "fill", "store", "register", "next", "copy", "indicate", "sent"}
Sleeps == {"take", "got", "heard", "emptied"}

RxType == [head : 0 .. RxSize - 1, tail : 0 .. RxSize - 1, match : -1 .. RxSize - 1, listening : BOOLEAN,
           ring : [0 .. RxSize - 1 -> [number : Bytes, delimiter : BOOLEAN]]]
TxType == [head : 0 .. TxSize - 1, tail : 0 .. TxSize - 1, waiting : BOOLEAN,
           ring : [0 .. TxSize - 1 -> Bytes], value : Seq(Bytes)]
Places == Steps \cup Sleeps \cup {"idle"}
TaskType == [pc : Places, mode : Modes, left : 0 .. MaxLen,
             after : {"idle", "take", "got"}, local : Int]

Types ==
    /\ scenario \in Scenarios
    /\ rx \in RxType
    /\ tx \in TxType /\ Len(tx.value) <= AttrSize
    /\ link \in [connected : BOOLEAN, flight : Seq(Bytes)] /\ Len(link.flight) <= AttrSize
    /\ number \in [accepted : Bytes, read : Bytes, given : Bytes, confirmed : Bytes]
    /\ task \in [Fibers -> TaskType]
    /\ asleep \in [Events -> SUBSET Fibers]
    /\ running \in Fibers \cup {NoFiber}

(* A fiber that neither sleeps nor is idle has the CPU.                       *)
Control ==
    \A f \in Fibers :
      /\ task[f].pc \in Steps => running = f
      /\ task[f].pc \in {"arm", "await"} => task[f].after \in {"take", "got"}
      /\ task[f].pc \in {"listen", "awaitDelimiter", "heard"} => task[f].mode = "SYNC_SLEEP"
      /\ \/ task[f].pc \in {"take", "store"}
         \/ task[f].pc \in {"arm", "await"} /\ task[f].after = "take"
         => task[f].left > 0
      /\ task[f].pc \in {"store", "copy"} => task[f].local \in 0 .. TxSize - 1
      /\ f \notin scenario.fibers => task[f].pc = "idle"

(* What is on its way to the central while the link holds: the ring and the   *)
(* attribute hold what was given and not confirmed, in order; the attribute   *)
(* is what is in flight, except while a fiber fills it for an indication.     *)
TxRing ==
    /\ number.given = Up(number.confirmed, TxCount)
    /\ \A i \in 0 .. TxCount - 1 : tx.ring[(tx.tail + i) % TxSize] = Up(number.confirmed, i)

TxValue ==
    /\ Len(tx.value) <= TxCount
    /\ \A i \in 1 .. Len(tx.value) : tx.value[i] = Up(number.confirmed, i - 1)

TxLink ==
    link.flight # tx.value =>
        link.flight = <<>> /\ \E f \in Fibers : task[f].pc \in {"copy", "indicate"}

TxTask(f) ==
    /\ task[f].pc \in {"copy", "indicate"} => link.connected /\ link.flight = <<>>
    /\ task[f].pc = "copy"  => task[f].local = (tx.tail + Len(tx.value)) % TxSize
    /\ task[f].pc = "store" => task[f].local = TxUp(tx.head) /\ TxCount < TxSize - 1

TxInv == ~scenario.drops => TxRing /\ TxValue /\ TxLink /\ \A f \in Fibers : TxTask(f)

(* What a single reader finds: a reader that was woken has a byte, and one    *)
(* that waits for a delimiter still has the tail it started with.             *)
Single == \A f, g \in scenario.fibers : f = g

RxRing ==
    /\ number.accepted = Up(number.read, RxCount)
    /\ \A i \in 0 .. RxCount - 1 : rx.ring[(rx.tail + i) % RxSize].number = Up(number.read, i)

RxTask(f) ==
    /\ task[f].pc = "take"  => f \in asleep["HEAD_MATCH"] \/ rx.head # rx.tail
    /\ task[f].pc = "heard" => f \in asleep["DELIM_MATCH"] \/ rx.head # rx.tail
    /\ task[f].pc \in {"listen", "awaitDelimiter", "heard"} => task[f].local = rx.tail

RxInv ==
    /\ Single => RxRing /\ \A f \in Fibers : RxTask(f)
    /\ line.mode = "ASYNC" => EndsAtDelimiter(line.text)

LEMMA Constants ==
    /\ NoFiber \notin Fibers
    /\ RxSize \in Nat /\ RxSize > 1 /\ TxSize \in Nat /\ TxSize > 1 /\ AttrSize \in Nat /\ AttrSize > 0
    /\ Wrap \in Nat /\ Wrap > RxSize /\ Wrap > TxSize /\ MaxLen \in Nat
    /\ 0 \in Bytes
BY UARTAssumption DEF Bytes

LEMMA Counts ==
    ASSUME Types
    PROVE  RxCount \in 0 .. RxSize - 1 /\ TxCount \in 0 .. TxSize - 1
<1>1. /\ rx.head \in 0 .. RxSize - 1 /\ rx.tail \in 0 .. RxSize - 1
      /\ tx.head \in 0 .. TxSize - 1 /\ tx.tail \in 0 .. TxSize - 1
    BY DEF Types, RxType, TxType
<1>2. /\ Minus(RxSize, rx.head, rx.tail) \in 0 .. RxSize - 1
      /\ Minus(TxSize, tx.head, tx.tail) \in 0 .. TxSize - 1
    <2>1. RxSize \in Nat /\ RxSize > 0 /\ TxSize \in Nat /\ TxSize > 0
        BY Constants
    <2> QED
        BY <1>1, <2>1, RingSub, Zenon
<1> QED
    BY <1>2 DEF Minus, RxCount, TxCount

(* Where the ends of the rings and the numbers of the bytes are.              *)
LEMMA Ranges ==
    ASSUME Types
    PROVE  /\ rx.head \in 0 .. RxSize - 1 /\ rx.tail \in 0 .. RxSize - 1 /\ RxCount \in 0 .. RxSize - 1
           /\ tx.head \in 0 .. TxSize - 1 /\ tx.tail \in 0 .. TxSize - 1 /\ TxCount \in 0 .. TxSize - 1
           /\ number.read \in 0 .. Wrap - 1 /\ number.confirmed \in 0 .. Wrap - 1
           /\ tx.value \in Seq(Bytes) /\ Len(tx.value) \in Nat
           /\ RxSize \in Nat /\ RxSize > 0 /\ TxSize \in Nat /\ TxSize > 0
           /\ Wrap \in Nat /\ Wrap > 0 /\ Wrap > RxSize /\ Wrap > TxSize
<1>1. /\ rx.head \in 0 .. RxSize - 1 /\ rx.tail \in 0 .. RxSize - 1
      /\ tx.head \in 0 .. TxSize - 1 /\ tx.tail \in 0 .. TxSize - 1
    BY DEF Types, RxType, TxType
<1>2. number.read \in 0 .. Wrap - 1 /\ number.confirmed \in 0 .. Wrap - 1
    BY DEF Types, Bytes
<1>3. tx.value \in Seq(Bytes) /\ Len(tx.value) \in Nat
    <2>1. tx.value \in Seq(Bytes)
        BY DEF Types, TxType
    <2> QED
        BY <2>1, LenProperties
<1>4. /\ RxSize \in Nat /\ RxSize > 0 /\ TxSize \in Nat /\ TxSize > 0
      /\ Wrap \in Nat /\ Wrap > 0 /\ Wrap > RxSize /\ Wrap > TxSize
    BY Constants
<1>5. RxCount \in 0 .. RxSize - 1 /\ TxCount \in 0 .. TxSize - 1
    BY Counts
<1> QED
    BY <1>1, <1>2, <1>3, <1>4, <1>5

(* A step of a fiber gives it a new task, and leaves the others theirs.       *)
LEMMA MoveTask ==
    ASSUME Types, Control, NEW f \in Fibers, f \in scenario.fibers, running \in {f, NoFiber},
           NEW t \in TaskType, task' = [task EXCEPT ![f] = t], scenario' = scenario,
           running' = (IF t.pc \in Steps THEN f ELSE NoFiber),
           t.pc \in {"arm", "await"} => t.after \in {"take", "got"},
           t.pc \in {"listen", "awaitDelimiter", "heard"} => t.mode = "SYNC_SLEEP",
           t.pc \in {"take", "store"} \/ (t.pc \in {"arm", "await"} /\ t.after = "take") => t.left > 0,
           t.pc \in {"store", "copy"} => t.local \in 0 .. TxSize - 1
    PROVE  /\ task' \in [Fibers -> TaskType] /\ running' \in Fibers \cup {NoFiber} /\ Control'
           /\ \A g \in Fibers : task'[g] = (IF g = f THEN t ELSE task[g])
<1>1. task' \in [Fibers -> TaskType] /\ \A g \in Fibers : task'[g] = (IF g = f THEN t ELSE task[g])
    BY DEF Types
<1>2. \A g \in Fibers : g # f => task[g].pc \notin Steps
    BY Constants DEF Control
<1>3. ASSUME NEW g \in Fibers, g # f
      PROVE  /\ task'[g] = task[g] /\ scenario' = scenario
             /\ task[g].pc \in Steps => running' = g
    BY <1>1, <1>2, <1>3
<1>4. task'[f] = t /\ (t.pc \in Steps => running' = f)
    BY <1>1
<1>5. Control'
    BY <1>3, <1>4 DEF Control
<1> QED
    BY <1>1, <1>5

(* What every step of a fiber does to its task and to the CPU.                *)
Moves(f) ==
    /\ f \in scenario.fibers /\ running \in {f, NoFiber} /\ scenario' = scenario
    /\ task'[f] \in TaskType /\ task' = [task EXCEPT ![f] = task'[f]]
    /\ running' = (IF task'[f].pc \in Steps THEN f ELSE NoFiber)
    /\ task'[f].pc \in {"arm", "await"} => task'[f].after \in {"take", "got"}
    /\ task'[f].pc \in {"listen", "awaitDelimiter", "heard"} => task'[f].mode = "SYNC_SLEEP"
    /\ task'[f].pc \in {"take", "store"} \/ (task'[f].pc \in {"arm", "await"} /\ task'[f].after = "take")
       => task'[f].left > 0
    /\ task'[f].pc \in {"store", "copy"} => task'[f].local \in 0 .. TxSize - 1

LEMMA GoMoves ==
    ASSUME Types, NEW f \in Fibers, f \in scenario.fibers, running \in {f, NoFiber}, scenario' = scenario,
           NEW t \in TaskType, Go(f, t), t = Idle \/ t.pc \in Steps,
           t.pc \in {"arm", "await"} => t.after \in {"take", "got"},
           t.pc \in {"listen", "awaitDelimiter", "heard"} => t.mode = "SYNC_SLEEP",
           t.pc \in {"take", "store"} \/ (t.pc \in {"arm", "await"} /\ t.after = "take") => t.left > 0,
           t.pc \in {"store", "copy"} => t.local \in 0 .. TxSize - 1
    PROVE  Moves(f) /\ task'[f] = t
<1>1. task' = [task EXCEPT ![f] = t] /\ task'[f] = t
    BY DEF Go, Types
<1>2. running' = (IF t.pc \in Steps THEN f ELSE NoFiber)
    <2>1. Idle.pc \notin Steps
        BY DEF Idle, Steps
    <2> QED
        BY <2>1 DEF Go
<1> QED
    BY <1>1, <1>2 DEF Moves

LEMMA WorkMoves ==
    ASSUME Types, Control, NEW f \in Fibers, Work(f)
    PROVE  Moves(f)
<1>1. /\ task[f] \in TaskType /\ task \in [Fibers -> TaskType] /\ rx.tail \in Int /\ tx.tail \in Int /\ tx.head \in Int
      /\ \A i \in Int : TxUp(i) \in 0 .. TxSize - 1 /\ TxUp(i) \in Int
      /\ tx.tail \in 0 .. TxSize - 1
      /\ task[f].left - RxCount \in Int /\ task[f].local \in Int /\ 0 \in Int /\ 1 \in Int
      /\ task[f].left \in 0 .. MaxLen /\ (task[f].left > 0 => task[f].left - 1 \in 0 .. MaxLen)
    <2>1. RxCount \in Int
        BY Counts
    <2>2. \A i \in Int : TxUp(i) \in 0 .. TxSize - 1 /\ TxUp(i) \in Int
        BY Constants DEF TxUp
    <2>3. task[f] \in TaskType /\ task \in [Fibers -> TaskType] /\ rx.tail \in Int
          /\ tx.tail \in Int /\ tx.head \in Int /\ tx.tail \in 0 .. TxSize - 1
        BY Constants DEF Types, RxType, TxType
    <2>4. task[f].left \in 0 .. MaxLen /\ task[f].local \in Int
        BY <2>3 DEF TaskType
    <2>5. task[f].left > 0 => task[f].left - 1 \in 0 .. MaxLen
        BY <2>4, Constants
    <2>6. task[f].left - RxCount \in Int
        BY <2>1, <2>4
    <2> QED
        BY <2>2, <2>3, <2>4, <2>5, <2>6
<1>2. Idle \in TaskType
    BY Constants DEF Idle, TaskType, Places, Modes
<1>3. f \in scenario.fibers /\ running \in {f, NoFiber} /\ scenario' = scenario
    <2>1. task[f].pc # "idle" /\ running \in {f, NoFiber} /\ scenario' = scenario
        BY DEF Work, At, Get, TakeWoken, ReadSize, ReadNeed, EventAfter, AwaitHead, ReadWoken, Scan, EventOn, AwaitDelimiter, Heard, SendLoop, SendFill, SendStore, SendRegister, SendNext, SendCopy, SendIndicate, SendSent, SendWoken
    <2> QED
        BY <2>1 DEF Control
<1>4. Steps \subseteq Places /\ \A pc \in Steps : pc # "idle" /\ pc \notin Sleeps
    BY DEF Places, Steps, Sleeps
<1>5. CASE Get(f)
    <2>1. ASSUME Go(f, [task[f] EXCEPT !.left = @ - 1, !.pc = "get"]), task[f].left > 0 PROVE Moves(f)
        <3>1. "get" \in Steps
            BY <1>5 DEF Steps, At, Get
        <3>2. [task[f] EXCEPT !.left = @ - 1, !.pc = "get"] \in TaskType
            BY <1>1, <1>4, <2>1, <3>1 DEF TaskType
        <3> QED
            BY <1>1, <1>3, <2>1, <3>1, <3>2, GoMoves DEF TaskType
    <2>2. ASSUME Go(f, [task[f] EXCEPT !.pc = "arm", !.local = 1, !.after = "take"]), task[f].left > 0 PROVE Moves(f)
        <3>1. "arm" \in Steps
            BY <1>5 DEF Steps, At, Get
        <3>2. [task[f] EXCEPT !.pc = "arm", !.local = 1, !.after = "take"] \in TaskType
            BY <1>1, <1>4, <2>2, <3>1 DEF TaskType
        <3> QED
            BY <1>1, <1>3, <2>2, <3>1, <3>2, GoMoves DEF TaskType
    <2>3. Go(f, Idle) => Moves(f)
        BY <1>2, <1>3, GoMoves DEF Idle
    <2> QED
        BY <1>5, <1>1, <2>1, <2>2, <2>3 DEF Get, To, Take
<1>6. CASE TakeWoken(f)
    <2>1. ASSUME Go(f, [task[f] EXCEPT !.left = @ - 1, !.pc = "get"]), task[f].left > 0 PROVE Moves(f)
        <3>1. "get" \in Steps
            BY <1>6 DEF Steps, At, TakeWoken
        <3>2. [task[f] EXCEPT !.left = @ - 1, !.pc = "get"] \in TaskType
            BY <1>1, <1>4, <2>1, <3>1 DEF TaskType
        <3> QED
            BY <1>1, <1>3, <2>1, <3>1, <3>2, GoMoves DEF TaskType
    <2>2. task[f].left > 0
        BY <1>6 DEF Control, TakeWoken, At
    <2> QED
        BY <1>6, <1>1, <2>1, <2>2 DEF TakeWoken, To, Take
<1>7. CASE ReadSize(f)
    BY <1>1, <1>2, <1>3, <1>7, GoMoves DEF ReadSize, At, To, Go, Sleep, Moves, Idle, TaskType, Places, Steps, Sleeps, Modes, Control
<1>8. CASE ReadNeed(f)
    <2>1. ASSUME Go(f, [task[f] EXCEPT !.pc = "arm", !.local = task[f].left - RxCount, !.after = "got"]) PROVE Moves(f)
        <3>1. "arm" \in Steps
            BY <1>8 DEF Steps, At, ReadNeed
        <3>2. [task[f] EXCEPT !.pc = "arm", !.local = task[f].left - RxCount, !.after = "got"] \in TaskType
            BY <1>1, <1>4, <2>1, <3>1 DEF TaskType
        <3> QED
            BY <1>1, <1>3, <2>1, <3>1, <3>2, GoMoves DEF TaskType
    <2> QED
        BY <1>8, <2>1 DEF ReadNeed, To, Take
<1>9. CASE EventAfter(f)
    BY <1>1, <1>2, <1>3, <1>9, GoMoves DEF EventAfter, At, To, Go, Sleep, Moves, Idle, TaskType, Places, Steps, Sleeps, Modes, Control
<1>10. CASE AwaitHead(f)
    BY <1>1, <1>2, <1>3, <1>10, GoMoves DEF AwaitHead, At, To, Go, Sleep, Moves, Idle, TaskType, Places, Steps, Sleeps, Modes, Control
<1>11. CASE ReadWoken(f)
    BY <1>1, <1>2, <1>3, <1>11, GoMoves DEF ReadWoken, At, To, Go, Sleep, Moves, Idle, TaskType, Places, Steps, Sleeps, Modes, Control
<1>12. CASE Scan(f)
    <2>1. ASSUME Go(f, [task[f] EXCEPT !.pc = "listen", !.local = rx.tail]), task[f].mode # "ASYNC" PROVE Moves(f)
        <3>1. "listen" \in Steps
            BY <1>12 DEF Steps, At, Scan
        <3>2. [task[f] EXCEPT !.pc = "listen", !.local = rx.tail] \in TaskType
            BY <1>1, <1>4, <2>1, <3>1 DEF TaskType
        <3>3. task[f].mode = "SYNC_SLEEP"
            BY <1>1, <2>1 DEF TaskType, Modes
        <3> QED
            BY <1>1, <1>3, <2>1, <3>1, <3>2, <3>3, GoMoves DEF TaskType
    <2>2. Go(f, Idle) => Moves(f)
        BY <1>2, <1>3, GoMoves DEF Idle
    <2> QED
        BY <1>12, <2>1, <2>2 DEF Scan, To, Take
<1>13. CASE EventOn(f)
    BY <1>1, <1>2, <1>3, <1>13, GoMoves DEF EventOn, At, To, Go, Sleep, Moves, Idle, TaskType, Places, Steps, Sleeps, Modes, Control
<1>14. CASE AwaitDelimiter(f)
    BY <1>1, <1>2, <1>3, <1>14, GoMoves DEF AwaitDelimiter, At, To, Go, Sleep, Moves, Idle, TaskType, Places, Steps, Sleeps, Modes, Control
<1>15. CASE Heard(f)
    BY <1>1, <1>2, <1>3, <1>15, GoMoves DEF Heard, At, To, Go, Sleep, Moves, Idle, TaskType, Places, Steps, Sleeps, Modes, Control
<1>16. CASE SendLoop(f)
    BY <1>1, <1>2, <1>3, <1>16, GoMoves DEF SendLoop, At, To, Go, Sleep, Moves, Idle, TaskType, Places, Steps, Sleeps, Modes, Control
<1>17. CASE SendFill(f)
    <2>1. ASSUME Go(f, [task[f] EXCEPT !.pc = "register"]) PROVE Moves(f)
        <3>1. "register" \in Steps
            BY <1>17 DEF Steps, At, SendFill
        <3>2. [task[f] EXCEPT !.pc = "register"] \in TaskType
            BY <1>1, <1>4, <2>1, <3>1 DEF TaskType
        <3> QED
            BY <1>1, <1>3, <2>1, <3>1, <3>2, GoMoves DEF TaskType
    <2>2. ASSUME Go(f, [task[f] EXCEPT !.pc = "next"]) PROVE Moves(f)
        <3>1. "next" \in Steps
            BY <1>17 DEF Steps, At, SendFill
        <3>2. [task[f] EXCEPT !.pc = "next"] \in TaskType
            BY <1>1, <1>4, <2>2, <3>1 DEF TaskType
        <3> QED
            BY <1>1, <1>3, <2>2, <3>1, <3>2, GoMoves DEF TaskType
    <2>3. ASSUME Go(f, [task[f] EXCEPT !.pc = "store", !.local = TxUp(tx.head)]), task[f].left # 0 PROVE Moves(f)
        <3>1. "store" \in Steps
            BY <1>17 DEF Steps, At, SendFill
        <3>2. [task[f] EXCEPT !.pc = "store", !.local = TxUp(tx.head)] \in TaskType
            BY <1>1, <1>4, <2>3, <3>1 DEF TaskType
        <3>3. task[f].left > 0
            BY <1>1, <2>3
        <3> QED
            BY <1>1, <1>3, <2>3, <3>1, <3>2, <3>3, GoMoves DEF TaskType
    <2> QED
        BY <1>17, <1>1, <2>1, <2>2, <2>3 DEF SendFill, To, Take
<1>18. CASE SendStore(f)
    <2>1. ASSUME Go(f, [task[f] EXCEPT !.pc = "fill", !.left = @ - 1, !.local = 0]), task[f].left > 0 PROVE Moves(f)
        <3>1. "fill" \in Steps
            BY <1>18 DEF Steps, At, SendStore
        <3>2. [task[f] EXCEPT !.pc = "fill", !.left = @ - 1, !.local = 0] \in TaskType
            BY <1>1, <1>4, <2>1, <3>1 DEF TaskType
        <3> QED
            BY <1>1, <1>3, <2>1, <3>1, <3>2, GoMoves DEF TaskType
    <2>2. task[f].left > 0
        BY <1>18 DEF Control, SendStore, At
    <2> QED
        BY <1>18, <2>1, <2>2 DEF SendStore, To, Take
<1>19. CASE SendRegister(f)
    BY <1>1, <1>2, <1>3, <1>19, GoMoves DEF SendRegister, At, To, Go, Sleep, Moves, Idle, TaskType, Places, Steps, Sleeps, Modes, Control
<1>20. CASE SendNext(f)
    <2>1. ASSUME Go(f, [task[f] EXCEPT !.pc = "sent"]) PROVE Moves(f)
        <3>1. "sent" \in Steps
            BY <1>20 DEF Steps, At, SendNext
        <3>2. [task[f] EXCEPT !.pc = "sent"] \in TaskType
            BY <1>1, <1>4, <2>1, <3>1 DEF TaskType
        <3> QED
            BY <1>1, <1>3, <2>1, <3>1, <3>2, GoMoves DEF TaskType
    <2>2. ASSUME Go(f, [task[f] EXCEPT !.pc = "copy", !.local = tx.tail]) PROVE Moves(f)
        <3>1. "copy" \in Steps
            BY <1>20 DEF Steps, At, SendNext
        <3>2. [task[f] EXCEPT !.pc = "copy", !.local = tx.tail] \in TaskType
            BY <1>1, <1>4, <2>2, <3>1 DEF TaskType
        <3> QED
            BY <1>1, <1>3, <2>2, <3>1, <3>2, GoMoves DEF TaskType
    <2> QED
        BY <1>20, <2>1, <2>2 DEF SendNext, To, Take
<1>21. CASE SendCopy(f)
    <2>1. ASSUME Go(f, [task[f] EXCEPT !.local = TxUp(task[f].local)]) PROVE Moves(f)
        <3>1. task[f].pc = "copy" /\ task[f].pc \in Steps
            BY <1>21 DEF Steps, At, SendCopy
        <3>2. [task[f] EXCEPT !.local = TxUp(task[f].local)] \in TaskType
            BY <1>1, <1>4, <2>1, <3>1 DEF TaskType
        <3> QED
            BY <1>1, <1>3, <2>1, <3>1, <3>2, GoMoves DEF TaskType
    <2>2. ASSUME Go(f, [task[f] EXCEPT !.pc = "indicate", !.local = 0]) PROVE Moves(f)
        <3>1. "indicate" \in Steps
            BY <1>21 DEF Steps, At, SendCopy
        <3>2. [task[f] EXCEPT !.pc = "indicate", !.local = 0] \in TaskType
            BY <1>1, <1>4, <2>2, <3>1 DEF TaskType
        <3> QED
            BY <1>1, <1>3, <2>2, <3>1, <3>2, GoMoves DEF TaskType
    <2> QED
        BY <1>21, <2>1, <2>2 DEF SendCopy, To, Take
<1>22. CASE SendIndicate(f)
    BY <1>1, <1>2, <1>3, <1>22, GoMoves DEF SendIndicate, At, To, Go, Sleep, Moves, Idle, TaskType, Places, Steps, Sleeps, Modes, Control
<1>23. CASE SendSent(f)
    BY <1>1, <1>2, <1>3, <1>23, GoMoves DEF SendSent, At, To, Go, Sleep, Moves, Idle, TaskType, Places, Steps, Sleeps, Modes, Control
<1>24. CASE SendWoken(f)
    BY <1>1, <1>2, <1>3, <1>24, GoMoves DEF SendWoken, At, To, Go, Sleep, Moves, Idle, TaskType, Places, Steps, Sleeps, Modes, Control
<1> QED
    BY <1>5, <1>6, <1>7, <1>8, <1>9, <1>10, <1>11, <1>12, <1>13, <1>14, <1>15, <1>16, <1>17, <1>18, <1>19, <1>20, <1>21, <1>22, <1>23, <1>24 DEF Work

(* Modulo is in range. *)
LEMMA InRange ==
    /\ \A i \in Int : i % RxSize \in 0 .. RxSize - 1 /\ i % TxSize \in 0 .. TxSize - 1 /\ i % Wrap \in Bytes
    /\ \A i \in Int : RxUp(i) \in 0 .. RxSize - 1 /\ TxUp(i) \in 0 .. TxSize - 1
    /\ \A n, k \in Int : Up(n, k) \in Bytes
BY Constants DEF RxUp, TxUp, Up, Bytes

LEMMA WorkTypes ==
    ASSUME Types, Control, NEW f \in Fibers, Work(f)
    PROVE  Types' /\ Control'
<1>1. /\ scenario' = scenario /\ task' \in [Fibers -> TaskType] /\ running' \in Fibers \cup {NoFiber} /\ Control'
    <2>1. Moves(f)
        BY WorkMoves
    <2> QED
        BY <2>1, MoveTask DEF Moves
<1>2. /\ rx \in RxType /\ rx.head \in Int /\ rx.tail \in Int /\ rx.head - 1 \in Int
      /\ number \in [accepted : Bytes, read : Bytes, given : Bytes, confirmed : Bytes]
      /\ number.read \in Int /\ number.given \in Int /\ task[f] \in TaskType /\ task[f].local \in Int
      /\ tx.head \in 0 .. TxSize - 1
    <2>1. /\ rx \in RxType /\ rx.head \in 0 .. RxSize - 1 /\ rx.tail \in 0 .. RxSize - 1
          /\ task[f] \in TaskType /\ tx.head \in 0 .. TxSize - 1
        BY DEF Types, RxType, TxType
    <2>2. /\ number \in [accepted : Bytes, read : Bytes, given : Bytes, confirmed : Bytes]
          /\ number.read \in Bytes /\ number.given \in Bytes
        BY DEF Types
    <2>3. task[f].local \in Int
        BY <2>1 DEF TaskType
    <2> QED
        BY <2>1, <2>2, <2>3, Constants DEF Bytes
<1>3. ASSUME NEW from \in Int, NEW found \in Int, Collect(f, from, found)
      PROVE  rx' \in RxType /\ number' \in [accepted : Bytes, read : Bytes, given : Bytes, confirmed : Bytes]
    <2> DEFINE size == (found - from) % RxSize
    <2>1. size \in Int /\ rx.tail + size + 1 \in Int /\ size + 1 \in Int
        BY <1>2, Constants
    <2>2. (rx.tail + size + 1) % RxSize \in 0 .. RxSize - 1 /\ Up(number.read, size + 1) \in Bytes
        BY <1>2, <2>1, InRange
    <2>3. number' = [number EXCEPT !.read = Up(number.read, size + 1)]
        BY <1>3 DEF Collect
    <2>4. PICK b \in BOOLEAN : rx' = [rx EXCEPT !.tail = (rx.tail + size + 1) % RxSize, !.listening = b]
        BY <1>2, <1>3 DEF Collect, RxType
    <2> HIDE DEF size
    <2> QED
        BY <1>2, <2>2, <2>3, <2>4 DEF RxType
<1>4. Take(f) => rx' \in RxType /\ number' \in [accepted : Bytes, read : Bytes, given : Bytes, confirmed : Bytes]
    <2>1. RxUp(rx.tail) \in 0 .. RxSize - 1 /\ Up(number.read, 1) \in Bytes
        <3>1. 1 \in Int
            OBVIOUS
        <3> QED
            BY <1>2, <3>1, InRange, Zenon
    <2> QED
        BY <1>2, <2>1 DEF Take, RxType
<1>5. rx' \in RxType
    <2>1. CASE UNCHANGED rx
        BY <1>2, <2>1
    <2>2. CASE Get(f) \/ TakeWoken(f)
        BY <1>2, <1>4, <2>2 DEF Get, TakeWoken
    <2>3. CASE EventAfter(f)
        <3>1. \A i \in Int : i % RxSize \in -1 .. RxSize - 1
            BY Constants
        <3>2. PICK m \in -1 .. RxSize - 1 : rx' = [rx EXCEPT !.match = m]
            BY <1>2, <2>3, <3>1, Constants DEF EventAfter
        <3> QED
            BY <1>2, <3>2 DEF RxType
    <2>4. CASE Scan(f) \/ Heard(f)
        <3>1. (rx.tail + Min(Matches)) % RxSize \in Int \/ Matches = {}
            <4>1. RxCount \in Int
                BY Counts
            <4>2. Matches \in SUBSET Nat
                BY <4>1 DEF Matches
            <4>3. Matches # {} => Min(Matches) \in Nat
                BY <4>2, MinIsLeast
            <4> QED
                BY <1>2, <4>3, Constants
        <3> QED
            BY <1>2, <1>3, <2>4, <3>1 DEF Scan, Heard, RxType
    <2>5. CASE EventOn(f)
        BY <1>2, <2>5 DEF EventOn, RxType
    <2> QED
        BY <2>1, <2>2, <2>3, <2>4, <2>5 DEF Work, ReadSize, ReadNeed, AwaitHead, ReadWoken, AwaitDelimiter, SendLoop,
           SendFill, SendStore, SendRegister, SendNext, SendCopy, SendIndicate, SendSent, SendWoken
<1>6. number' \in [accepted : Bytes, read : Bytes, given : Bytes, confirmed : Bytes]
    <2>1. CASE UNCHANGED number
        BY <1>2, <2>1
    <2>2. CASE Get(f) \/ TakeWoken(f)
        BY <1>2, <1>4, <2>2 DEF Get, TakeWoken
    <2>3. CASE Scan(f) \/ Heard(f)
        <3>1. (rx.tail + Min(Matches)) % RxSize \in Int \/ Matches = {}
            <4>1. RxCount \in Int
                BY Counts
            <4>2. Matches \in SUBSET Nat
                BY <4>1 DEF Matches
            <4>3. Matches # {} => Min(Matches) \in Nat
                BY <4>2, MinIsLeast
            <4> QED
                BY <1>2, <4>3, Constants
        <3> QED
            BY <1>2, <1>3, <2>3, <3>1 DEF Scan, Heard
    <2>4. CASE SendStore(f)
        <3>1. Up(number.given, 1) \in Bytes
            BY <1>2, InRange
        <3> QED
            BY <1>2, <2>4, <3>1 DEF SendStore
    <2> QED
        BY <2>1, <2>2, <2>3, <2>4 DEF Work, ReadSize, ReadNeed, EventAfter, AwaitHead, ReadWoken, EventOn,
           AwaitDelimiter, SendLoop, SendFill, SendRegister, SendNext, SendCopy, SendIndicate, SendSent, SendWoken
<1>7. tx' \in TxType /\ Len(tx'.value) <= AttrSize
    <2>0. tx \in TxType /\ Len(tx.value) <= AttrSize /\ tx.value \in Seq(Bytes)
        BY DEF Types, TxType
    <2>1. CASE UNCHANGED tx
        BY <2>0, <2>1
    <2>2. CASE SendFill(f) \/ SendWoken(f)
        BY <2>0, <2>2 DEF SendFill, SendWoken, TxType
    <2>3. CASE SendStore(f)
        <3>1. task[f].local \in 0 .. TxSize - 1 /\ number.given \in Bytes
            BY <1>2, <2>3 DEF SendStore, At, Control
        <3> QED
            BY <1>2, <2>0, <2>3, <3>1 DEF SendStore, TxType
    <2>4. CASE SendCopy(f)
        <3>1. tx.ring[task[f].local] \in Bytes
            BY <1>2, <2>0, <2>4 DEF SendCopy, At, Control, TxType
        <3>2. Append(tx.value, tx.ring[task[f].local]) \in Seq(Bytes)
              /\ Len(Append(tx.value, tx.ring[task[f].local])) = Len(tx.value) + 1
            BY <2>0, <3>1
        <3>3. Len(tx.value) < AttrSize => Len(tx.value) + 1 <= AttrSize
            BY <2>0, Constants
        <3> QED
            BY <2>0, <2>4, <3>2, <3>3 DEF SendCopy, TxType
    <2> QED
        BY <2>1, <2>2, <2>3, <2>4 DEF Work, Get, TakeWoken, ReadSize, ReadNeed, EventAfter, AwaitHead, ReadWoken, Scan,
           EventOn, AwaitDelimiter, Heard, SendLoop, SendRegister, SendNext, SendIndicate, SendSent
<1>8. link' \in [connected : BOOLEAN, flight : Seq(Bytes)] /\ Len(link'.flight) <= AttrSize
    <2>1. CASE UNCHANGED link
        BY <2>1 DEF Types
    <2>2. CASE SendIndicate(f)
        BY <2>2 DEF SendIndicate, Types, TxType
    <2> QED
        BY <2>1, <2>2 DEF Work, Get, TakeWoken, ReadSize, ReadNeed, EventAfter, AwaitHead, ReadWoken, Scan,
           EventOn, AwaitDelimiter, Heard, SendLoop, SendFill, SendStore, SendRegister, SendNext, SendCopy,
           SendSent, SendWoken
<1>9. asleep' \in [Events -> SUBSET Fibers]
    <2>1. CASE UNCHANGED asleep
        BY <2>1 DEF Types
    <2>2. CASE AwaitHead(f) \/ AwaitDelimiter(f) \/ SendRegister(f)
        BY <2>2 DEF AwaitHead, AwaitDelimiter, SendRegister, Sleep, Types
    <2> QED
        BY <2>1, <2>2 DEF Work, Get, TakeWoken, ReadSize, ReadNeed, EventAfter, ReadWoken, Scan,
           EventOn, Heard, SendLoop, SendFill, SendStore, SendNext, SendCopy, SendIndicate, SendSent, SendWoken
<1> QED
    BY <1>1, <1>5, <1>6, <1>7, <1>8, <1>9 DEF Types

LEMMA CallTypes ==
    ASSUME Types, Control, NEW f \in Fibers, Call(f)
    PROVE  Types' /\ Control' /\ Moves(f) /\ task'[f].pc \in {"get", "size", "scan", "send"}
<1>1. PICK c \in scenario.calls, len \in 1 .. MaxLen :
          Go(f, [Idle EXCEPT !.pc = Entry(c[1], c[2]), !.mode = c[2], !.left = len])
    BY DEF Call
<1> DEFINE t == [Idle EXCEPT !.pc = Entry(c[1], c[2]), !.mode = c[2], !.left = len]
<1>2. c[1] \in {"getc", "read", "readUntil", "send"} /\ c[2] \in Modes
    BY UARTAssumption DEF Types, Modes
<1>3. Entry(c[1], c[2]) \in {"get", "size", "scan", "send"}
    BY <1>2 DEF Entry
<1>4. len \in 0 .. MaxLen
    OBVIOUS
<1>5. t \in TaskType /\ t.pc = Entry(c[1], c[2])
    <2>1. Idle \in TaskType
        BY Constants DEF Idle, TaskType, Places, Modes
    <2>2. Entry(c[1], c[2]) \in Places
        BY <1>3 DEF Places, Steps
    <2> QED
        BY <1>2, <1>4, <2>1, <2>2 DEF TaskType
<1> HIDE DEF t
<1>6. Moves(f) /\ task'[f] = t
    <2>1. f \in scenario.fibers /\ running \in {f, NoFiber} /\ scenario' = scenario
        BY DEF Call
    <2>2. t.pc \in Steps /\ t.pc \notin {"arm", "await", "listen", "awaitDelimiter", "heard", "take", "store", "copy"}
        BY <1>3, <1>5 DEF Steps
    <2>3. Go(f, t)
        BY <1>1 DEF t
    <2> QED
        BY <1>5, <2>1, <2>2, <2>3, GoMoves
<1>7. task' \in [Fibers -> TaskType] /\ running' \in Fibers \cup {NoFiber} /\ Control'
    BY <1>6, MoveTask DEF Moves
<1>8. Types'
    BY <1>7 DEF Types, Call
<1> QED
    BY <1>3, <1>5, <1>6, <1>7, <1>8

(* The bytes of a packet that fit in the ring.                                *)
LEMMA StoredFits ==
    ASSUME Types, NEW packet \in Packets
    PROVE  /\ Stored(packet) \in 0 .. RxSize - 1 - RxCount
           /\ \A k \in 1 .. Stored(packet) : packet[k] \in BOOLEAN
<1>1. PICK n \in 1 .. MaxPacket : packet \in [1 .. n -> BOOLEAN]
    BY DEF Packets
<1>2. n \in Nat /\ Len(packet) = n
    <2>1. n \in Nat
        OBVIOUS
    <2> QED
        BY <1>1, <2>1, LenProperties
<1>3. RxSize - 1 - RxCount \in Nat
    BY Counts, Constants
<1>4. {n, RxSize - 1 - RxCount} \in SUBSET Nat /\ {n, RxSize - 1 - RxCount} # {}
    BY <1>2, <1>3
<1>5. /\ Stored(packet) \in {n, RxSize - 1 - RxCount}
      /\ \A m \in {n, RxSize - 1 - RxCount} : Stored(packet) <= m
    BY <1>2, <1>4, MinIsLeast, Zenon DEF Stored
<1>6. Stored(packet) \in 0 .. RxSize - 1 - RxCount /\ Stored(packet) <= n
    BY <1>2, <1>3, <1>5
<1> QED
    BY <1>1, <1>2, <1>6

LEMMA WrittenTypes ==
    ASSUME Types, NEW packet \in Packets, OnDataWritten(packet)
    PROVE  Types'
<1> DEFINE stored == Stored(packet)
           Place(i) == (i - rx.head) % RxSize
           cell(i) == [number |-> Up(number.accepted, Place(i)), delimiter |-> packet[Place(i) + 1]]
<1>1. /\ rx \in RxType /\ rx.head \in Int
      /\ number \in [accepted : Bytes, read : Bytes, given : Bytes, confirmed : Bytes]
      /\ number.accepted \in Int
    <2>1. rx \in RxType /\ rx.head \in 0 .. RxSize - 1
        BY DEF Types, RxType
    <2>2. /\ number \in [accepted : Bytes, read : Bytes, given : Bytes, confirmed : Bytes]
          /\ number.accepted \in Bytes
        BY DEF Types
    <2> QED
        BY <2>1, <2>2, Constants DEF Bytes
<1>2. stored \in Nat /\ stored \in Int /\ \A k \in 1 .. stored : packet[k] \in BOOLEAN
    BY StoredFits, Counts, Constants
<1>3. \A i \in 0 .. RxSize - 1 : Place(i) \in 0 .. RxSize - 1 /\ Place(i) \in Int
    BY <1>1, Constants
<1>4. \A i \in 0 .. RxSize - 1 : Place(i) < stored => cell(i) \in [number : Bytes, delimiter : BOOLEAN]
    <2> SUFFICES ASSUME NEW i \in 0 .. RxSize - 1, Place(i) < stored
                 PROVE  cell(i) \in [number : Bytes, delimiter : BOOLEAN]
        OBVIOUS
    <2>1. Up(number.accepted, Place(i)) \in Bytes
        BY <1>1, <1>3, InRange
    <2>2. Place(i) + 1 \in 1 .. stored
        BY <1>2, <1>3
    <2>3. packet[Place(i) + 1] \in BOOLEAN
        BY <1>2, <2>2
    <2> QED
        BY <2>1, <2>3
<1>5. PICK ring \in [0 .. RxSize - 1 -> [number : Bytes, delimiter : BOOLEAN]],
           head \in 0 .. RxSize - 1, match \in -1 .. RxSize - 1 :
           rx' = [rx EXCEPT !.ring = ring, !.head = head, !.match = match]
    <2> DEFINE ring == [i \in 0 .. RxSize - 1 |-> IF Place(i) < stored THEN cell(i) ELSE rx.ring[i]]
               head == (rx.head + stored) % RxSize
               matched == rx.match # -1 /\ (rx.match - rx.head - 1) % RxSize < stored
               match == IF matched THEN -1 ELSE rx.match
    <2>1. ring \in [0 .. RxSize - 1 -> [number : Bytes, delimiter : BOOLEAN]]
        <3>1. \A i \in 0 .. RxSize - 1 : rx.ring[i] \in [number : Bytes, delimiter : BOOLEAN]
            BY <1>1 DEF RxType
        <3> HIDE DEF cell, Place, stored
        <3> QED
            BY <1>4, <3>1
    <2>2. head \in 0 .. RxSize - 1
        BY <1>1, <1>2, Constants
    <2>3. match \in -1 .. RxSize - 1
        BY <1>1, Constants DEF RxType
    <2>4. rx' = [rx EXCEPT !.ring = ring, !.head = head, !.match = match]
        BY DEF OnDataWritten
    <2> HIDE DEF ring, head, match
    <2> QED
        BY <2>1, <2>2, <2>3, <2>4
<1>6. rx' \in RxType
    BY <1>1, <1>5 DEF RxType
<1>7. number' \in [accepted : Bytes, read : Bytes, given : Bytes, confirmed : Bytes]
    <2>1. Up(number.accepted, stored) \in Bytes
        BY <1>1, <1>2, InRange
    <2>2. number' = [number EXCEPT !.accepted = Up(number.accepted, stored)]
        BY DEF OnDataWritten
    <2> QED
        BY <1>1, <2>1, <2>2
<1>8. asleep' \in [Events -> SUBSET Fibers]
    BY DEF Types, OnDataWritten
<1> QED
    BY <1>6, <1>7, <1>8 DEF Types, OnDataWritten

(* sendNext() takes what the attribute holds of the ring, from its tail on.   *)
LEMMA BlockType ==
    ASSUME Types, NEW tail \in Int
    PROVE  /\ Block(tail) \in Seq(Bytes) /\ Len(Block(tail)) <= AttrSize
           /\ Len(Block(tail)) <= (tx.head - tail) % TxSize
           /\ \A i \in 1 .. Len(Block(tail)) : Block(tail)[i] = tx.ring[(tail + i - 1) % TxSize]
<1> DEFINE count == (tx.head - tail) % TxSize
           n == Min({count, AttrSize})
<1>1. tx.head \in Int /\ \A i \in 0 .. TxSize - 1 : tx.ring[i] \in Bytes
    BY Constants DEF Types, TxType
<1>2. count \in Nat /\ AttrSize \in Nat
    BY <1>1, Constants
<1>3. {count, AttrSize} \in SUBSET Nat /\ {count, AttrSize} # {}
    BY <1>2
<1>4. n \in {count, AttrSize} /\ \A m \in {count, AttrSize} : n <= m
    BY <1>3, MinIsLeast, Zenon
<1> HIDE DEF n, count
<1>5. n \in Nat /\ n <= AttrSize /\ n <= count
    BY <1>2, <1>4
<1>6. \A i \in 1 .. n : (tail + i - 1) % TxSize \in 0 .. TxSize - 1
    BY <1>5, Constants
<1>7. Block(tail) = [i \in 1 .. n |-> tx.ring[(tail + i - 1) % TxSize]]
    BY DEF Block, n, count
<1>8. Block(tail) \in [1 .. n -> Bytes]
    BY <1>1, <1>6, <1>7
<1>9. Block(tail) \in Seq(Bytes) /\ Len(Block(tail)) = n
    BY <1>5, <1>8
<1> QED
    BY <1>5, <1>7, <1>9 DEF count

LEMMA InterruptTypes ==
    ASSUME Types, Control, Interrupt
    PROVE  Types' /\ Control'
<1>1. Control'
    BY DEF Control, Interrupt, OnDataWritten, OnConfirmation, OnDisconnect, OnConnect
<1>2. CASE \E packet \in Packets : OnDataWritten(packet)
    BY <1>1, <1>2, WrittenTypes
<1>3. CASE OnConfirmation
    <2> DEFINE tail == (tx.tail + Len(tx.value)) % TxSize
               next == IF tx.waiting THEN <<>> ELSE Block(tail)
    <2>1. tail \in 0 .. TxSize - 1 /\ tail \in Int
        BY Constants DEF Types, TxType
    <2>2. next \in Seq(Bytes) /\ Len(next) <= AttrSize
        BY <2>1, BlockType, Constants
    <2>3. tx' = [tx EXCEPT !.tail = tail, !.value = next] /\ link' = [link EXCEPT !.flight = next]
        BY <1>3 DEF OnConfirmation
    <2>4. tx' \in TxType /\ tx'.value = next
        BY <2>1, <2>2, <2>3 DEF Types, TxType
    <2>5. link' \in [connected : BOOLEAN, flight : Seq(Bytes)] /\ link'.flight = next
        BY <2>2, <2>3 DEF Types
    <2>6. number' \in [accepted : Bytes, read : Bytes, given : Bytes, confirmed : Bytes]
        <3>1. number.confirmed \in Int /\ Len(link.flight) \in Int
            BY Constants DEF Types, Bytes
        <3>2. Up(number.confirmed, Len(link.flight)) \in Bytes
            BY <3>1, InRange
        <3> QED
            BY <1>3, <3>2 DEF Types, OnConfirmation
    <2>7. asleep' \in [Events -> SUBSET Fibers]
        BY <1>3 DEF Types, OnConfirmation
    <2> QED
        BY <1>1, <1>3, <2>2, <2>4, <2>5, <2>6, <2>7 DEF Types, OnConfirmation
<1>4. CASE OnDisconnect
    <2>1. tx' \in TxType /\ tx'.value = <<>>
        <3>1. tx \in TxType /\ 0 \in 0 .. TxSize - 1 /\ <<>> \in Seq(Bytes)
            BY Constants DEF Types
        <3>2. tx' = [tx EXCEPT !.head = 0, !.tail = 0, !.value = <<>>]
            BY <1>4 DEF OnDisconnect
        <3> QED
            BY <3>1, <3>2 DEF TxType
    <2>2. link' \in [connected : BOOLEAN, flight : Seq(Bytes)] /\ link'.flight = <<>>
        BY <1>4 DEF OnDisconnect
    <2>3. asleep' \in [Events -> SUBSET Fibers]
        BY <1>4 DEF OnDisconnect, Types
    <2> QED
        BY <1>1, <1>4, <2>1, <2>2, <2>3, Constants DEF Types, OnDisconnect
<1>5. CASE OnConnect
    BY <1>1, <1>5 DEF OnConnect, Types
<1> QED
    BY <1>2, <1>3, <1>4, <1>5 DEF Interrupt

LEMMA TypesInit == Init => Types /\ Control
<1> SUFFICES ASSUME Init PROVE Types /\ Control
    OBVIOUS
<1>1. rx \in RxType
    <2>1. -1 \in -1 .. RxSize - 1 /\ 0 \in -1 .. RxSize - 1 /\ 0 \in 0 .. RxSize - 1
        BY Constants
    <2> QED
        BY <2>1, Constants DEF Init, RxType
<1>2. tx \in TxType /\ Len(tx.value) <= AttrSize
    BY Constants DEF Init, TxType
<1>3. Idle \in TaskType
    BY Constants DEF Idle, TaskType, Places, Modes
<1>4. task \in [Fibers -> TaskType] /\ Control
    BY <1>3 DEF Init, Control, Idle, Steps
<1> QED
    BY <1>1, <1>2, <1>4, Constants DEF Init, Types

LEMMA TypesStep == Types /\ Control /\ [Next]_vars => Types' /\ Control'
<1> SUFFICES ASSUME Types, Control, [Next]_vars PROVE Types' /\ Control'
    OBVIOUS
<1>1. CASE UNCHANGED vars
    BY <1>1 DEF vars, Types, Control
<1> QED
    BY <1>1, WorkTypes, CallTypes, InterruptTypes DEF Next

(* The rings, the attribute and the calls of send() and read() have their     *)
(* types: no head or tail leaves its ring, the attribute is not overrun.      *)
THEOREM TypeCorrect == Spec => []TypeOK
<1>1. Types => TypeOK
    BY DEF Types, TypeOK, RxType, TxType, TaskType
<1> QED
    BY <1>1, TypesInit, TypesStep, PTL DEF Spec
-----------------------------------------------------------------------------
(* What is on its way to the central. *)

LEMMA TxInit == Init => TxInv
<1> SUFFICES ASSUME Init PROVE TxInv
    OBVIOUS
<1>1. 0 % TxSize = 0 /\ 0 % Wrap = 0
    BY Constants
<1>2. TxCount = 0
    BY <1>1 DEF Init, TxCount
<1>3. TxRing /\ TxValue /\ TxLink
    BY <1>1, <1>2 DEF Init, TxRing, TxValue, TxLink, Up
<1>4. \A f \in Fibers : TxTask(f)
    BY DEF Init, TxTask, Idle
<1> QED
    BY <1>3, <1>4 DEF TxInv

(* While a fiber has the CPU, no other is in the middle of send().            *)
LEMMA OthersRest ==
    ASSUME Types, Control, NEW f \in Fibers, Moves(f)
    PROVE  \A g \in Fibers : g # f => task'[g] = task[g] /\ task[g].pc \notin Steps
<1>1. \A g \in Fibers : g # f => task'[g] = task[g]
    BY DEF Moves, Types
<1>2. \A g \in Fibers : g # f => task[g].pc \notin Steps
    BY Constants DEF Moves, Control
<1> QED
    BY <1>1, <1>2

(* Steps that leave the ring, the attribute and the link as they are.         *)
LEMMA TxSame ==
    ASSUME Types, Control, TxInv, NEW f \in Fibers, Moves(f),
           tx'.head = tx.head, tx'.tail = tx.tail, tx'.ring = tx.ring, tx'.value = tx.value, link' = link,
           number'.given = number.given, number'.confirmed = number.confirmed,
           task[f].pc \notin {"copy", "indicate"},
           task'[f].pc \notin {"copy", "indicate", "store"}
    PROVE  TxInv'
<1> SUFFICES ASSUME ~scenario.drops PROVE (TxRing /\ TxValue /\ TxLink /\ \A g \in Fibers : TxTask(g))'
    BY DEF TxInv, Moves
<1>1. TxRing /\ TxValue /\ TxLink /\ \A g \in Fibers : TxTask(g)
    BY DEF TxInv
<1>2. TxCount' = TxCount
    BY DEF TxCount
<1>3. TxRing' /\ TxValue'
    BY <1>1, <1>2 DEF TxRing, TxValue
<1>4. link.flight = tx.value
    BY <1>1, OthersRest DEF TxLink, Steps
<1>5. TxLink'
    BY <1>4 DEF TxLink
<1>6. \A g \in Fibers : task'[g].pc \notin {"copy", "indicate", "store"}
    BY OthersRest DEF Steps
<1>7. \A g \in Fibers : TxTask(g)'
    BY <1>6 DEF TxTask
<1> QED
    BY <1>3, <1>5, <1>7

(* send() adds a byte: the cell behind the last one gets the next number.     *)
LEMMA TxStore ==
    ASSUME Types, Control, TxInv, NEW f \in Fibers, Moves(f), SendStore(f)
    PROVE  TxInv'
<1> SUFFICES ASSUME ~scenario.drops PROVE (TxRing /\ TxValue /\ TxLink /\ \A g \in Fibers : TxTask(g))'
    BY DEF TxInv, Moves
<1> DEFINE h == tx.head
           t == tx.tail
           n == number.confirmed
<1>1. /\ TxRing /\ TxValue /\ TxLink /\ \A g \in Fibers : TxTask(g)
      /\ task[f].pc = "store" /\ task[f].local = TxUp(h) /\ TxCount < TxSize - 1
    BY DEF TxInv, TxTask, SendStore, At
<1>2. /\ h \in 0 .. TxSize - 1 /\ t \in 0 .. TxSize - 1 /\ n \in 0 .. Wrap - 1
      /\ TxSize \in Nat /\ TxSize > 0 /\ Wrap \in Nat /\ Wrap > 0 /\ Wrap > TxSize
      /\ TxCount \in 0 .. TxSize - 1 /\ 1 \in 0 .. TxSize - 1 - TxCount
    BY <1>1, Ranges
<1>3. /\ tx'.head = Plus(TxSize, h, 1) /\ tx'.tail = t /\ tx'.value = tx.value
      /\ tx'.ring = [tx.ring EXCEPT ![h] = number.given]
      /\ number'.given = Up(number.given, 1) /\ number'.confirmed = n /\ link' = link
    BY <1>1 DEF SendStore, Types, TxType, TxUp, Plus
<1>4. TxCount = Minus(TxSize, h, t) /\ TxCount' = Minus(TxSize, Plus(TxSize, h, 1), t)
    BY <1>3 DEF TxCount, Minus
<1>5. /\ TxCount' = TxCount + 1
      /\ \A i \in 0 .. TxCount - 1 : Plus(TxSize, t, i) \in 0 .. TxSize - 1 /\ Plus(TxSize, t, i) # h
    <2> HIDE DEF h, t
    <2> DEFINE c == Minus(TxSize, h, t)
    <2>0. 1 \in 0 .. TxSize - 1 - c
        BY <1>2, <1>4
    <2>1. /\ Minus(TxSize, Plus(TxSize, h, 1), t) = c + 1
          /\ \A i \in 0 .. c - 1 : Plus(TxSize, t, i) \in 0 .. TxSize - 1 /\ Plus(TxSize, t, i) # h
        BY <1>2, <2>0, RingPut
    <2> QED
        BY <1>4, <2>1
<1>6. Plus(TxSize, t, TxCount) = h
    <2>1. TxCount = (IF h >= t THEN h - t ELSE h - t + TxSize)
        BY <1>2, <1>4, RingSub, Zenon
    <2>2. TxCount \in 0 .. TxSize
        BY <1>2
    <2>3. Plus(TxSize, t, TxCount) = (IF t + TxCount < TxSize THEN t + TxCount ELSE t + TxCount - TxSize)
        BY <1>2, <2>2, RingAdd, Zenon
    <2> QED
        BY <1>2, <2>1, <2>3
<1>7. number'.given = Up(number'.confirmed, TxCount')
    <2>1. TxCount \in 0 .. Wrap /\ 1 \in 0 .. Wrap /\ TxCount + 1 <= Wrap
        BY <1>2
    <2>2. Plus(Wrap, Plus(Wrap, n, TxCount), 1) = Plus(Wrap, n, TxCount + 1)
        BY <1>2, <2>1, RingSum, Zenon
    <2>3. number.given = Plus(Wrap, n, TxCount)
        BY <1>1 DEF TxRing, Up, Plus
    <2> QED
        BY <1>3, <1>5, <2>2, <2>3 DEF Up, Plus
<1>8. \A i \in 0 .. TxCount' - 1 : tx'.ring[(tx'.tail + i) % TxSize] = Up(number'.confirmed, i)
    <2> SUFFICES ASSUME NEW i \in 0 .. TxCount' - 1
                 PROVE  tx'.ring[Plus(TxSize, t, i)] = Up(n, i)
        BY <1>3 DEF Plus
    <2>1. CASE i \in 0 .. TxCount - 1
        <3>1. tx'.ring[Plus(TxSize, t, i)] = tx.ring[Plus(TxSize, t, i)]
            BY <1>3, <1>5, <2>1 DEF Types, TxType
        <3>2. tx.ring[Plus(TxSize, t, i)] = Up(n, i)
            BY <1>1, <2>1 DEF TxRing, Plus
        <3> QED
            BY <3>1, <3>2
    <2>2. CASE i = TxCount
        <3>1. tx'.ring[h] = number.given
            BY <1>2, <1>3 DEF Types, TxType
        <3> QED
            BY <1>1, <1>6, <2>2, <3>1 DEF TxRing
    <2>3. i \in 0 .. TxCount - 1 \/ i = TxCount
        BY <1>2, <1>5
    <2> QED
        BY <2>1, <2>2, <2>3
<1>9. TxValue'
    <2>1. Len(tx.value) <= TxCount /\ Len(tx.value) \in Nat
        BY <1>1 DEF TxValue, Types, TxType
    <2>2. Len(tx.value) <= TxCount'
        BY <1>2, <1>5, <2>1
    <2> QED
        BY <1>1, <1>3, <2>2 DEF TxValue
<1>10. \A g \in Fibers : task'[g].pc \notin {"copy", "indicate", "store"}
    <2>1. task'[f].pc = "fill"
        BY DEF SendStore, Go, Types, TaskType
    <2> QED
        BY <2>1, OthersRest DEF Steps
<1>11. TxLink'
    <2>1. link.flight = tx.value
        BY <1>1, OthersRest DEF TxLink, Steps
    <2> QED
        BY <1>3, <2>1 DEF TxLink
<1>12. \A g \in Fibers : TxTask(g)'
    BY <1>10 DEF TxTask
<1> QED
    BY <1>7, <1>8, <1>9, <1>11, <1>12 DEF TxRing

(* Where a fiber goes.                                                        *)
LEMMA Went ==
    ASSUME Types, NEW f \in Fibers
    PROVE  /\ \A t : Go(f, t) => task'[f] = t
           /\ \A pc : To(f, pc) => task'[f] = [task[f] EXCEPT !.pc = pc] /\ task'[f].pc = pc
<1>1. ASSUME NEW t, Go(f, t) PROVE task'[f] = t
    BY <1>1 DEF Go, Types
<1>2. ASSUME NEW pc, To(f, pc) PROVE task'[f] = [task[f] EXCEPT !.pc = pc] /\ task'[f].pc = pc
    <2>1. task'[f] = [task[f] EXCEPT !.pc = pc]
        BY <1>1, <1>2 DEF To
    <2>2. task[f] \in TaskType
        BY DEF Types
    <2> QED
        BY <2>1, <2>2 DEF TaskType
<1> QED
    BY <1>1, <1>2

(* send() looks for room and, finding it, is about to add a byte.             *)
LEMMA TxFill ==
    ASSUME Types, Control, TxInv, NEW f \in Fibers, Moves(f), SendFill(f)
    PROVE  TxInv'
<1> SUFFICES ASSUME ~scenario.drops PROVE (TxRing /\ TxValue /\ TxLink /\ \A g \in Fibers : TxTask(g))'
    BY DEF TxInv, Moves
<1>1. /\ tx'.head = tx.head /\ tx'.tail = tx.tail /\ tx'.ring = tx.ring /\ tx'.value = tx.value /\ link' = link
      /\ number' = number /\ task[f].pc = "fill"
    BY DEF SendFill, Types, TxType, At
<1>2. CASE task'[f].pc \in {"register", "next"}
    <2>1. TxInv'
        BY <1>1, <1>2, TxSame
    <2> QED
        BY <2>1 DEF TxInv, Moves
<1>3. CASE task'[f].pc = "store"
    <2>1. /\ TxUp(tx.head) # tx.tail /\ task'[f] = [task[f] EXCEPT !.pc = "store", !.local = TxUp(tx.head)]
        BY <1>3 DEF SendFill, To, Go, Types, TaskType
    <2>2. task'[f].local = TxUp(tx.head)
        BY <2>1 DEF Types, TaskType
    <2>3. TxCount < TxSize - 1
        <3>1. /\ tx.head \in 0 .. TxSize - 1 /\ tx.tail \in 0 .. TxSize - 1 /\ TxSize \in Nat /\ TxSize > 0
              /\ 1 \in 0 .. TxSize
            BY Constants DEF Types, TxType
        <3>2. /\ Minus(TxSize, tx.head, tx.tail) =
                    (IF tx.head >= tx.tail THEN tx.head - tx.tail ELSE tx.head - tx.tail + TxSize)
              /\ Plus(TxSize, tx.head, 1) = (IF tx.head + 1 < TxSize THEN tx.head + 1 ELSE tx.head + 1 - TxSize)
            BY <3>1, RingSub, RingAdd, Zenon
        <3>3. TxCount = Minus(TxSize, tx.head, tx.tail) /\ TxUp(tx.head) = Plus(TxSize, tx.head, 1)
            BY DEF TxCount, Minus, TxUp, Plus
        <3> QED
            BY <2>1, <3>1, <3>2, <3>3
    <2>4. TxRing /\ TxValue /\ TxLink /\ TxCount' = TxCount
        BY <1>1 DEF TxInv, TxCount
    <2>5. TxRing' /\ TxValue'
        BY <1>1, <2>4 DEF TxRing, TxValue
    <2>6. TxLink'
        <3>1. link.flight = tx.value
            BY <1>1, <2>4, OthersRest DEF TxLink, Steps
        <3> QED
            BY <1>1, <3>1 DEF TxLink
    <2>7. \A g \in Fibers : g # f => task'[g].pc \notin {"copy", "indicate", "store"}
        BY OthersRest DEF Steps
    <2>8. \A g \in Fibers : TxTask(g)'
        BY <1>1, <1>3, <2>2, <2>3, <2>4, <2>7 DEF TxTask, TxUp
    <2> QED
        BY <2>5, <2>6, <2>8
<1>4. task'[f].pc \in {"register", "next", "store"}
    <2>1. task[f] \in TaskType
        BY DEF Types
    <2>2. CASE To(f, "register") \/ To(f, "next")
        BY <2>2, Went
    <2>3. CASE Go(f, [task[f] EXCEPT !.pc = "store", !.local = TxUp(tx.head)])
        <3>1. task'[f] = [task[f] EXCEPT !.pc = "store", !.local = TxUp(tx.head)]
            BY <2>3, Went
        <3> QED
            BY <2>1, <3>1 DEF TaskType
    <2> QED
        BY <2>2, <2>3 DEF SendFill
<1> QED
    BY <1>2, <1>3, <1>4

(* sendNext() of a fiber: it starts with an empty attribute, copies the bytes *)
(* from the tail on one by one, and indicates them.                           *)
LEMMA TxNext ==
    ASSUME Types, Control, TxInv, NEW f \in Fibers, Moves(f), SendNext(f)
    PROVE  TxInv'
<1> SUFFICES ASSUME ~scenario.drops PROVE (TxRing /\ TxValue /\ TxLink /\ \A g \in Fibers : TxTask(g))'
    BY DEF TxInv, Moves
<1>1. tx' = tx /\ link' = link /\ number' = number /\ task[f].pc = "next" /\ TxCount' = TxCount
    BY DEF SendNext, At, TxCount
<1>2. CASE task'[f].pc = "sent"
    <2>1. TxInv'
        BY <1>1, <1>2, TxSame
    <2> QED
        BY <2>1 DEF TxInv, Moves
<1>3. CASE task'[f].pc = "copy"
    <2>1. /\ tx.value = <<>> /\ link.connected
          /\ task'[f] = [task[f] EXCEPT !.pc = "copy", !.local = tx.tail]
        BY <1>3 DEF SendNext, To, Go, Types, TaskType
    <2>2. task'[f].local = tx.tail
        BY <2>1 DEF Types, TaskType
    <2>3. TxRing /\ TxValue /\ TxLink
        BY DEF TxInv
    <2>4. link.flight = <<>>
        BY <1>1, <2>1, <2>3, OthersRest DEF TxLink, Steps
    <2>5. tx.tail = (tx.tail + Len(tx.value)) % TxSize
        <3>1. tx.tail \in 0 .. TxSize - 1 /\ Len(tx.value) = 0
            BY <2>1 DEF Types, TxType
        <3> QED
            BY <3>1, Constants
    <2>6. \A g \in Fibers : g # f => task'[g].pc \notin {"copy", "indicate", "store"}
        BY OthersRest DEF Steps
    <2>7. \A g \in Fibers : TxTask(g)'
        BY <1>1, <1>3, <2>1, <2>2, <2>4, <2>5, <2>6 DEF TxTask
    <2> QED
        BY <1>1, <2>1, <2>3, <2>4, <2>7 DEF TxRing, TxValue, TxLink
<1>4. task'[f].pc \in {"sent", "copy"}
    <2>1. task[f] \in TaskType
        BY DEF Types
    <2>2. CASE To(f, "sent")
        BY <2>2, Went
    <2>3. CASE Go(f, [task[f] EXCEPT !.pc = "copy", !.local = tx.tail])
        <3>1. task'[f] = [task[f] EXCEPT !.pc = "copy", !.local = tx.tail]
            BY <2>3, Went
        <3> QED
            BY <2>1, <3>1 DEF TaskType
    <2> QED
        BY <2>2, <2>3 DEF SendNext
<1> QED
    BY <1>2, <1>3, <1>4

LEMMA TxCopy ==
    ASSUME Types, Control, TxInv, NEW f \in Fibers, Moves(f), SendCopy(f)
    PROVE  TxInv'
<1> SUFFICES ASSUME ~scenario.drops PROVE (TxRing /\ TxValue /\ TxLink /\ \A g \in Fibers : TxTask(g))'
    BY DEF TxInv, Moves
<1> DEFINE at == task[f].local
           k  == Len(tx.value)
           t  == tx.tail
           n  == number.confirmed
<1>1. /\ TxRing /\ TxValue /\ TxLink /\ task[f].pc = "copy" /\ link.connected /\ link.flight = <<>>
      /\ at = (t + k) % TxSize /\ link' = link /\ number' = number
    BY DEF TxInv, TxTask, SendCopy, At
<1>2. \A g \in Fibers : g # f => task'[g].pc \notin {"copy", "indicate", "store"}
    BY OthersRest DEF Steps
<1>3. CASE ~(Len(tx.value) < AttrSize /\ at # tx.head)
    <2>1. tx' = tx /\ task'[f].pc = "indicate"
        <3>1. tx' = tx /\ Go(f, [task[f] EXCEPT !.pc = "indicate", !.local = 0])
            BY <1>3 DEF SendCopy
        <3>2. task'[f] = [task[f] EXCEPT !.pc = "indicate", !.local = 0] /\ task[f] \in TaskType
            BY <3>1, Went DEF Types
        <3> QED
            BY <3>1, <3>2 DEF TaskType
    <2>2. TxCount' = TxCount
        BY <2>1 DEF TxCount
    <2>3. \A g \in Fibers : TxTask(g)'
        BY <1>1, <1>2, <2>1 DEF TxTask
    <2> QED
        BY <1>1, <2>1, <2>2, <2>3 DEF TxRing, TxValue, TxLink
<1>4. CASE Len(tx.value) < AttrSize /\ at # tx.head
    <2>1. /\ tx' = [tx EXCEPT !.value = Append(tx.value, tx.ring[at])]
          /\ task'[f] = [task[f] EXCEPT !.local = TxUp(at)]
        BY <1>4 DEF SendCopy, Go, Types, TaskType
    <2>2. /\ tx'.head = tx.head /\ tx'.tail = t /\ tx'.ring = tx.ring
          /\ tx'.value = Append(tx.value, tx.ring[at])
          /\ task'[f].pc = "copy" /\ task'[f].local = TxUp(at)
        BY <1>1, <2>1 DEF Types, TxType, TaskType
    <2>3. /\ tx.value \in Seq(Bytes) /\ k \in Nat /\ tx.head \in 0 .. TxSize - 1 /\ t \in 0 .. TxSize - 1
          /\ TxSize \in Nat /\ TxSize > 0 /\ TxCount \in 0 .. TxSize - 1 /\ k <= TxCount
        BY <1>1, Ranges DEF TxValue
    <2>4. tx.ring[at] \in Bytes
        BY <1>1, <2>3, Constants DEF Types, TxType
    <2>5. /\ Len(tx'.value) = k + 1 /\ tx'.value[k + 1] = tx.ring[at]
          /\ \A i \in 1 .. k : tx'.value[i] = tx.value[i]
        BY <2>2, <2>3, <2>4
    <2>6. k # TxCount
        <3>1. TxCount = (IF tx.head >= t THEN tx.head - t ELSE tx.head - t + TxSize)
            <4>1. Minus(TxSize, tx.head, t) = (IF tx.head >= t THEN tx.head - t ELSE tx.head - t + TxSize)
                BY <2>3, RingSub, Zenon
            <4> QED
                BY <4>1 DEF TxCount, Minus
        <3>2. k \in 0 .. TxSize
            BY <2>3
        <3>3. Plus(TxSize, t, k) = (IF t + k < TxSize THEN t + k ELSE t + k - TxSize)
            BY <2>3, <3>2, RingAdd, Zenon
        <3>4. at = Plus(TxSize, t, k)
            BY <1>1 DEF Plus
        <3> QED
            BY <1>4, <2>3, <3>1, <3>3, <3>4
    <2>7. k \in 0 .. TxCount - 1 /\ k + 1 <= TxCount
        BY <2>3, <2>6
    <2>8. tx.ring[at] = Up(n, (k + 1) - 1)
        <3>1. tx.ring[at] = Up(n, k) /\ (k + 1) - 1 = k
            BY <1>1, <2>3, <2>7 DEF TxRing
        <3> QED
            BY <3>1
    <2>9. TxCount' = TxCount
        BY <2>2 DEF TxCount
    <2>10. TxValue'
        <3>1. \A i \in 1 .. k + 1 : i \in 1 .. k \/ i = k + 1
            BY <2>3
        <3>2. \A i \in 1 .. k + 1 : tx'.value[i] = Up(n, i - 1)
            BY <1>1, <2>5, <2>8, <3>1 DEF TxValue
        <3> QED
            BY <1>1, <2>5, <2>7, <2>9, <3>2 DEF TxValue
    <2>11. TxUp(at) = (t + (k + 1)) % TxSize
        <3>1. k \in 0 .. TxSize /\ 1 \in 0 .. TxSize /\ k + 1 <= TxSize
            BY <2>3, <2>7
        <3>2. Plus(TxSize, Plus(TxSize, t, k), 1) = Plus(TxSize, t, k + 1)
            BY <2>3, <3>1, RingSum, Zenon
        <3> QED
            BY <1>1, <3>2 DEF Plus, TxUp
    <2>12. TxTask(f)'
        BY <1>1, <2>2, <2>5, <2>11 DEF TxTask
    <2>13. \A g \in Fibers : TxTask(g)'
        BY <1>2, <2>12 DEF TxTask
    <2>14. TxRing'
        BY <1>1, <2>2, <2>9 DEF TxRing
    <2>15. TxLink'
        BY <1>1, <2>2 DEF TxLink
    <2> QED
        BY <2>10, <2>13, <2>14, <2>15
<1> QED
    BY <1>3, <1>4

LEMMA TxIndicate ==
    ASSUME Types, Control, TxInv, NEW f \in Fibers, Moves(f), SendIndicate(f)
    PROVE  TxInv'
<1> SUFFICES ASSUME ~scenario.drops PROVE (TxRing /\ TxValue /\ TxLink /\ \A g \in Fibers : TxTask(g))'
    BY DEF TxInv, Moves
<1>1. /\ TxRing /\ TxValue /\ task[f].pc = "indicate" /\ link.connected
      /\ tx' = tx /\ number' = number /\ link' = [link EXCEPT !.flight = tx.value]
    BY DEF TxInv, TxTask, SendIndicate, At
<1>2. task'[f].pc = "sent" /\ link'.flight = tx'.value
    BY <1>1 DEF SendIndicate, To, Go, Types, TaskType
<1>3. \A g \in Fibers : task'[g].pc \notin {"copy", "indicate", "store"}
    BY <1>2, OthersRest DEF Steps
<1>4. TxCount' = TxCount
    BY <1>1 DEF TxCount
<1> QED
    BY <1>1, <1>2, <1>3, <1>4 DEF TxRing, TxValue, TxLink, TxTask

(* The confirmation: the block in flight leaves the ring, and the callback    *)
(* may send the next one.                                                     *)
LEMMA TxConfirm ==
    ASSUME Types, Control, TxInv, OnConfirmation
    PROVE  TxInv'
<1> SUFFICES ASSUME ~scenario.drops PROVE (TxRing /\ TxValue /\ TxLink /\ \A g \in Fibers : TxTask(g))'
    BY DEF TxInv, OnConfirmation
<1> DEFINE k    == Len(tx.value)
           t    == tx.tail
           h    == tx.head
           n    == number.confirmed
           tail == (t + k) % TxSize
           next == IF tx.waiting THEN <<>> ELSE Block(tail)
<1>1. /\ TxRing /\ TxValue /\ link.flight # <<>> /\ link.flight = tx.value
      /\ \A g \in Fibers : TxTask(g) /\ task[g].pc \notin {"copy", "indicate"}
    BY DEF TxInv, TxLink, TxTask, OnConfirmation
<1>2. /\ h \in 0 .. TxSize - 1 /\ t \in 0 .. TxSize - 1 /\ n \in 0 .. Wrap - 1 /\ k \in Nat
      /\ TxSize \in Nat /\ TxSize > 0 /\ Wrap \in Nat /\ Wrap > 0 /\ Wrap > TxSize
      /\ TxCount \in 0 .. TxSize - 1 /\ k \in 0 .. TxCount
    BY <1>1, Ranges DEF TxValue
<1>3. /\ tx'.head = h /\ tx'.tail = tail /\ tx'.ring = tx.ring /\ tx'.value = next /\ link'.flight = next
      /\ number'.given = number.given /\ number'.confirmed = Up(n, k) /\ task' = task
      /\ link'.connected = link.connected
    BY <1>1 DEF OnConfirmation, Types, TxType
<1>4. TxCount = Minus(TxSize, h, t) /\ TxCount' = Minus(TxSize, h, Plus(TxSize, t, k)) /\ tail = Plus(TxSize, t, k)
    BY <1>3 DEF TxCount, Minus, Plus
<1>5. /\ TxCount' = TxCount - k /\ tail \in 0 .. TxSize - 1
      /\ \A i \in 0 .. TxCount - k : (tail + i) % TxSize = (t + (k + i)) % TxSize
    <2> HIDE DEF h, t, k
    <2> DEFINE c == Minus(TxSize, h, t)
    <2>0. k \in 0 .. c
        BY <1>2, <1>4
    <2>1. /\ Plus(TxSize, t, k) \in 0 .. TxSize - 1
          /\ Minus(TxSize, h, Plus(TxSize, t, k)) = c - k
          /\ \A i \in 0 .. c - k : Plus(TxSize, Plus(TxSize, t, k), i) = Plus(TxSize, t, k + i)
        BY <1>2, <2>0, RingTake
    <2>2. \A i \in 0 .. c - k : (tail + i) % TxSize = (t + (k + i)) % TxSize
        BY <2>1 DEF Plus
    <2> QED
        BY <1>4, <2>1, <2>2
<1>6. \A i \in 0 .. TxCount - k : Up(Up(n, k), i) = Up(n, k + i)
    <2> SUFFICES ASSUME NEW i \in 0 .. TxCount - k PROVE Plus(Wrap, Plus(Wrap, n, k), i) = Plus(Wrap, n, k + i)
        BY DEF Up, Plus
    <2>1. k \in 0 .. Wrap /\ i \in 0 .. Wrap /\ k + i <= Wrap
        BY <1>2
    <2> QED
        BY <1>2, <2>1, RingSum, Zenon
<1>7. TxRing'
    <2>1. TxCount - k \in 0 .. TxCount - k /\ k + (TxCount - k) = TxCount
        BY <1>2
    <2>2. number'.given = Up(number'.confirmed, TxCount')
        <3>1. Up(Up(n, k), TxCount - k) = Up(n, k + (TxCount - k))
            BY <1>6, <2>1
        <3> QED
            BY <1>1, <1>3, <1>5, <2>1, <3>1 DEF TxRing
    <2>3. ASSUME NEW i \in 0 .. TxCount' - 1 PROVE tx'.ring[(tx'.tail + i) % TxSize] = Up(number'.confirmed, i)
        <3>1. i \in 0 .. TxCount - k /\ k + i \in 0 .. TxCount - 1
            <4> DEFINE c == TxCount
            <4>1. i \in 0 .. (c - k) - 1
                BY <1>5
            <4>2. c \in Nat /\ k \in 0 .. c
                BY <1>2
            <4> HIDE DEF c, k
            <4>3. i \in 0 .. c - k /\ k + i \in 0 .. c - 1
                BY <4>1, <4>2
            <4> QED
                BY <4>3 DEF c
        <3> QED
            BY <1>1, <1>3, <1>5, <1>6, <3>1 DEF TxRing
    <2> QED
        BY <2>2, <2>3 DEF TxRing
<1>8. TxValue'
    <2>1. CASE next = <<>>
        <3>1. TxCount' \in Nat
            <4> HIDE DEF k
            <4> QED
                BY <1>2, <1>5
        <3>2. tx'.value = <<>>
            BY <1>3, <2>1
        <3>3. Len(tx'.value) = 0
            BY <3>2
        <3> QED
            BY <3>1, <3>3 DEF TxValue
    <2>2. CASE next = Block(tail)
        <3>1. /\ next \in Seq(Bytes) /\ Len(next) <= (h - tail) % TxSize
              /\ \A i \in 1 .. Len(next) : next[i] = tx.ring[(tail + i - 1) % TxSize]
            <4>1. tail \in Int
                BY <1>5
            <4> QED
                BY <2>2, <4>1, BlockType
        <3>2. (h - tail) % TxSize = TxCount'
            BY <1>3 DEF TxCount
        <3>3. ASSUME NEW i \in 1 .. Len(next) PROVE next[i] = Up(number'.confirmed, i - 1)
            <4>1. i - 1 \in 0 .. TxCount' - 1
                BY <1>2, <1>5, <3>1, <3>2
            <4>2. tx'.ring[(tx'.tail + (i - 1)) % TxSize] = Up(number'.confirmed, i - 1)
                BY <1>7, <4>1 DEF TxRing
            <4>3. tail + (i - 1) = tail + i - 1
                BY <1>5
            <4> QED
                BY <1>3, <3>1, <4>2, <4>3
        <3> QED
            BY <1>3, <3>1, <3>2, <3>3 DEF TxValue
    <2> QED
        BY <2>1, <2>2
<1>9. TxLink'
    BY <1>3 DEF TxLink
<1>10. \A g \in Fibers : TxTask(g)'
    <2> SUFFICES ASSUME NEW g \in Fibers PROVE TxTask(g)'
        OBVIOUS
    <2>1. TxCount' <= TxCount
        BY <1>2, <1>5
    <2>2. TxCount < TxSize - 1 => TxCount' < TxSize - 1
        BY <1>2, <1>5, <2>1
    <2> QED
        BY <1>1, <1>3, <2>2 DEF TxTask, TxUp
<1> QED
    BY <1>7, <1>8, <1>9, <1>10

(* A reader stays among the steps of the readers.                             *)
LEMMA ReaderGoes ==
    ASSUME Types, NEW f \in Fibers,
           \/ Get(f) \/ TakeWoken(f) \/ ReadSize(f) \/ ReadNeed(f) \/ EventAfter(f) \/ AwaitHead(f)
           \/ ReadWoken(f) \/ Scan(f) \/ EventOn(f) \/ AwaitDelimiter(f) \/ Heard(f)
    PROVE  task'[f].pc \notin {"copy", "indicate", "store"}
<1>1. task[f] \in TaskType /\ task \in [Fibers -> TaskType] /\ task[f].after \in {"idle", "take", "got"}
    BY DEF Types, TaskType
<1>2. Idle.pc = "idle"
    BY DEF Idle
<1>4. CASE Get(f) \/ TakeWoken(f)
    <2>1. \/ Go(f, Idle)
          \/ Go(f, [task[f] EXCEPT !.left = @ - 1, !.pc = "get"])
          \/ Go(f, [task[f] EXCEPT !.pc = "arm", !.local = 1, !.after = "take"])
        BY <1>4 DEF Get, TakeWoken, Take
    <2>2. \/ task'[f] = Idle
          \/ task'[f] = [task[f] EXCEPT !.left = @ - 1, !.pc = "get"]
          \/ task'[f] = [task[f] EXCEPT !.pc = "arm", !.local = 1, !.after = "take"]
        BY <2>1, Went
    <2>3. task'[f].pc \in {"idle", "get", "arm"}
        BY <1>1, <1>2, <2>2 DEF TaskType
    <2> QED
        BY <2>3
<1>5. CASE ReadNeed(f)
    <2>1. task'[f] = [task[f] EXCEPT !.pc = "arm", !.local = task[f].left - RxCount, !.after = "got"]
        BY <1>5, Went DEF ReadNeed
    <2> QED
        BY <1>1, <2>1 DEF TaskType
<1>6. CASE ReadSize(f) \/ EventAfter(f) \/ ReadWoken(f) \/ EventOn(f)
    <2>1. To(f, "need") \/ To(f, "get") \/ To(f, "await") \/ To(f, "awaitDelimiter")
        BY <1>6 DEF ReadSize, EventAfter, ReadWoken, EventOn
    <2>2. task'[f].pc \in {"need", "get", "await", "awaitDelimiter"}
        BY <2>1, Went
    <2> QED
        BY <2>2
<1>7. CASE AwaitHead(f) \/ AwaitDelimiter(f)
    <2>1. task' = [task EXCEPT ![f].pc = task[f].after] \/ task' = [task EXCEPT ![f].pc = "heard"]
        BY <1>7 DEF AwaitHead, AwaitDelimiter, Sleep
    <2>2. task'[f].pc \in {task[f].after, "heard"}
        BY <1>1, <2>1 DEF TaskType
    <2> QED
        BY <1>1, <2>2
<1>8. CASE Scan(f) \/ Heard(f)
    <2>1. Go(f, Idle) \/ Go(f, [task[f] EXCEPT !.pc = "listen", !.local = rx.tail])
        BY <1>8 DEF Scan, Heard
    <2>2. task'[f] = Idle \/ task'[f] = [task[f] EXCEPT !.pc = "listen", !.local = rx.tail]
        BY <2>1, Went
    <2>3. task'[f].pc \in {"idle", "listen"}
        BY <1>1, <1>2, <2>2 DEF TaskType
    <2> QED
        BY <2>3
<1> QED
    BY <1>4, <1>5, <1>6, <1>7, <1>8

(* And a sender among those of the senders.                                   *)
LEMMA SenderGoes ==
    ASSUME Types, NEW f \in Fibers,
           \/ SendLoop(f) \/ SendFill(f) \/ SendStore(f) \/ SendRegister(f) \/ SendNext(f) \/ SendCopy(f)
           \/ SendIndicate(f) \/ SendSent(f) \/ SendWoken(f)
    PROVE  task'[f].pc \notin {"take", "listen", "awaitDelimiter", "heard"}
<1>1. task[f] \in TaskType /\ task \in [Fibers -> TaskType]
    BY DEF Types
<1>2. Idle.pc = "idle"
    BY DEF Idle
<1>3. ASSUME NEW t, t = Idle \/ t.pc \in {"fill", "store", "register", "next", "copy", "indicate", "sent", "send"}, Go(f, t)
      PROVE  task'[f].pc \notin {"take", "listen", "awaitDelimiter", "heard"}
    <2>1. task'[f] = t
        BY <1>3, Went
    <2> QED
        BY <1>2, <1>3, <2>1
<1>4. CASE SendFill(f) \/ SendStore(f)
    <2>1. /\ [task[f] EXCEPT !.pc = "store", !.local = TxUp(tx.head)].pc = "store"
          /\ [task[f] EXCEPT !.pc = "fill", !.left = @ - 1, !.local = 0].pc = "fill"
          /\ [task[f] EXCEPT !.pc = "register"].pc = "register" /\ [task[f] EXCEPT !.pc = "next"].pc = "next"
        BY <1>1 DEF TaskType
    <2>2. \/ Go(f, [task[f] EXCEPT !.pc = "store", !.local = TxUp(tx.head)])
          \/ Go(f, [task[f] EXCEPT !.pc = "fill", !.left = @ - 1, !.local = 0])
          \/ Go(f, [task[f] EXCEPT !.pc = "register"]) \/ Go(f, [task[f] EXCEPT !.pc = "next"])
        BY <1>4 DEF SendFill, SendStore, To
    <2> QED
        BY <1>3, <2>1, <2>2
<1>5. CASE SendNext(f) \/ SendCopy(f)
    <2>1. /\ [task[f] EXCEPT !.pc = "copy", !.local = tx.tail].pc = "copy"
          /\ [task[f] EXCEPT !.pc = "indicate", !.local = 0].pc = "indicate"
          /\ [task[f] EXCEPT !.pc = "sent"].pc = "sent"
          /\ [task[f] EXCEPT !.local = TxUp(task[f].local)].pc = task[f].pc
        BY <1>1 DEF TaskType
    <2>2. CASE SendNext(f)
        <3>1. Go(f, [task[f] EXCEPT !.pc = "sent"]) \/ Go(f, [task[f] EXCEPT !.pc = "copy", !.local = tx.tail])
            BY <2>2 DEF SendNext, To
        <3> QED
            BY <1>3, <2>1, <3>1
    <2>3. CASE SendCopy(f)
        <3>1. /\ task[f].pc = "copy"
              /\ \/ Go(f, [task[f] EXCEPT !.local = TxUp(task[f].local)])
                 \/ Go(f, [task[f] EXCEPT !.pc = "indicate", !.local = 0])
            BY <2>3 DEF SendCopy, At
        <3> QED
            BY <1>3, <2>1, <3>1
    <2> QED
        BY <1>5, <2>2, <2>3
<1>6. CASE SendLoop(f) \/ SendRegister(f) \/ SendIndicate(f) \/ SendSent(f) \/ SendWoken(f)
    <2>1. \/ To(f, "fill") \/ To(f, "next") \/ To(f, "sent") \/ To(f, "send") \/ Go(f, Idle)
          \/ task' = [task EXCEPT ![f].pc = "emptied"]
        BY <1>6 DEF SendLoop, SendRegister, SendIndicate, SendSent, SendWoken
    <2>2. \/ task'[f].pc \in {"fill", "next", "sent", "send"} \/ task'[f] = Idle
          \/ task' = [task EXCEPT ![f].pc = "emptied"]
        BY <2>1, Went
    <2>3. CASE task' = [task EXCEPT ![f].pc = "emptied"]
        BY <1>1, <2>3 DEF TaskType
    <2> QED
        BY <1>2, <2>2, <2>3
<1> QED
    BY <1>4, <1>5, <1>6

LEMMA TxStep ==
    ASSUME Types, Control, TxInv, [Next]_vars
    PROVE  TxInv'
<1>1. ASSUME NEW f \in Fibers, Work(f) PROVE TxInv'
    <2>1. Moves(f)
        BY <1>1, WorkMoves
    <2>2. CASE SendFill(f) \/ SendStore(f) \/ SendNext(f) \/ SendCopy(f) \/ SendIndicate(f)
        BY <2>1, <2>2, TxFill, TxStore, TxNext, TxCopy, TxIndicate
    <2>3. CASE SendWoken(f)
        <3>1. /\ tx'.head = tx.head /\ tx'.tail = tx.tail /\ tx'.ring = tx.ring /\ tx'.value = tx.value
              /\ link' = link /\ number' = number
              /\ task[f].pc = "emptied" /\ task'[f].pc \in {"idle", "send"}
            BY <2>3 DEF SendWoken, At, Go, To, Idle, Types, TxType, TaskType
        <3> QED
            BY <2>1, <3>1, TxSame
    <2>4. CASE SendLoop(f) \/ SendRegister(f) \/ SendSent(f)
        <3>1. /\ tx' = tx /\ link' = link /\ number' = number
              /\ task[f].pc \in {"send", "register", "sent"} /\ task'[f].pc \in {"idle", "fill", "next", "emptied"}
            BY <2>4 DEF SendLoop, SendRegister, SendSent, At, Go, To, Idle, Types, TaskType
        <3> QED
            BY <2>1, <3>1, TxSame
    <2>5. CASE \/ Get(f) \/ TakeWoken(f) \/ ReadSize(f) \/ ReadNeed(f) \/ EventAfter(f) \/ AwaitHead(f)
               \/ ReadWoken(f) \/ Scan(f) \/ EventOn(f) \/ AwaitDelimiter(f) \/ Heard(f)
        <3>1. tx' = tx /\ link' = link /\ number'.given = number.given /\ number'.confirmed = number.confirmed
            BY <2>5 DEF Get, Take, TakeWoken, ReadSize, ReadNeed, EventAfter, AwaitHead, ReadWoken, Scan, EventOn,
               AwaitDelimiter, Heard, Collect, Types
        <3>2. task[f].pc \notin {"copy", "indicate"}
            BY <2>5 DEF Get, TakeWoken, ReadSize, ReadNeed, EventAfter, AwaitHead, ReadWoken, Scan, EventOn,
               AwaitDelimiter, Heard, At
        <3>3. task'[f].pc \notin {"copy", "indicate", "store"}
            BY <2>5, ReaderGoes
        <3> QED
            BY <2>1, <3>1, <3>2, <3>3, TxSame
    <2> QED
        BY <1>1, <2>2, <2>3, <2>4, <2>5 DEF Work
<1>2. ASSUME NEW f \in Fibers, Call(f) PROVE TxInv'
    <2>1. Moves(f) /\ task'[f].pc \in {"get", "size", "scan", "send"}
        BY <1>2, CallTypes
    <2>3. task[f].pc = "idle"
        <3>1. task[f] = Idle
            BY <1>2 DEF Call
        <3> QED
            BY <3>1 DEF Idle
    <2>2. tx' = tx /\ link' = link /\ number' = number
        BY <1>2 DEF Call
    <2> QED
        BY <2>1, <2>2, <2>3, TxSame
<1>3. CASE OnConfirmation
    BY <1>3, TxConfirm
<1>4. CASE OnConnect \/ (\E packet \in Packets : OnDataWritten(packet)) \/ UNCHANGED vars
    <2>1. /\ tx' = tx /\ link'.flight = link.flight /\ (link.connected => link'.connected)
          /\ number'.given = number.given /\ number'.confirmed = number.confirmed
          /\ task' = task /\ scenario' = scenario
        BY <1>4 DEF OnConnect, OnDataWritten, vars, Types
    <2>2. TxCount' = TxCount
        BY <2>1 DEF TxCount
    <2> QED
        BY <2>1, <2>2 DEF TxInv, TxRing, TxValue, TxLink, TxTask
<1>5. CASE OnDisconnect
    BY <1>5 DEF OnDisconnect, TxInv
<1> QED
    BY <1>1, <1>2, <1>3, <1>4, <1>5 DEF Next, Interrupt

(* While the link holds, whatever the interleaving of callback and fibers,    *)
(* what was given to send() and not confirmed is in the ring, in order, and   *)
(* the indication in flight is the first of it.                               *)
THEOREM EachByteSentOnce == Spec => []TxExact
<1>1. Types /\ TxInv => TxExact
    <2> SUFFICES ASSUME Types, TxInv, ~scenario.drops
                 PROVE  /\ TxRing /\ TxValue /\ TxLink
                        /\ link.flight = <<>> \/ link.flight = tx.value
        BY DEF TxExact, TxRing, TxValue, Types
    <2> QED
        BY DEF TxInv, TxLink
<1>2. Types /\ Control /\ TxInv /\ [Next]_vars => TxInv'
    BY TxStep
<1> QED
    BY <1>1, <1>2, TxInit, TypesInit, TypesStep, PTL DEF Spec
-----------------------------------------------------------------------------
(* The receive ring.                                                          *)
LEMMA RxInit == Init => RxInv
<1> SUFFICES ASSUME Init PROVE RxInv
    OBVIOUS
<1>1. RxCount = 0 /\ Up(0, 0) = 0
    BY Constants DEF Init, RxCount, Up
<1>2. number.accepted = 0 /\ number.read = 0 /\ line.text = <<>> /\ \A f \in Fibers : task[f].pc = "idle"
    BY DEF Init, NoLine, Idle
<1> QED
    BY <1>1, <1>2 DEF RxInv, RxRing, RxTask, EndsAtDelimiter

(* With a single fiber in the program, the others never run.                  *)
LEMMA Alone ==
    ASSUME Types, Control, Single, NEW f \in Fibers, Moves(f)
    PROVE  \A g \in Fibers : g # f => task'[g].pc = "idle"
<1> SUFFICES ASSUME NEW g \in Fibers, g # f PROVE task'[g].pc = "idle"
    OBVIOUS
<1>1. g \notin scenario.fibers
    BY DEF Single, Moves
<1>2. task'[g] = task[g]
    BY DEF Moves, Types
<1> QED
    BY <1>1, <1>2 DEF Control

(* Steps that leave the ring alone and after which f does not wait for it.    *)
LEMMA RxSame ==
    ASSUME Types, Control, RxInv, NEW f \in Fibers, Moves(f),
           rx'.head = rx.head, rx'.tail = rx.tail, rx'.ring = rx.ring,
           number'.accepted = number.accepted, number'.read = number.read,
           line' = line \/ line' = NoLine,
           Single => RxTask(f)'
    PROVE  RxInv'
<1>1. ASSUME Single' PROVE RxRing' /\ \A g \in Fibers : RxTask(g)'
    <2>1. Single
        BY <1>1 DEF Single, Moves
    <2>2. RxRing' 
        <3>1. RxRing /\ RxCount' = RxCount
            BY <2>1 DEF RxInv, RxCount
        <3> QED
            BY <3>1 DEF RxRing
    <2>3. \A g \in Fibers : g # f => RxTask(g)'
        BY <2>1, Alone DEF RxTask
    <2> QED
        BY <2>1, <2>2, <2>3
<1>2. line'.mode = "ASYNC" => EndsAtDelimiter(line'.text)
    <2>1. EndsAtDelimiter(NoLine.text)
        BY DEF EndsAtDelimiter, NoLine
    <2> QED
        BY <2>1 DEF RxInv
<1> QED
    BY <1>1, <1>2 DEF RxInv

(* k bytes leave the ring at the tail.                                        *)
LEMMA RxGive ==
    ASSUME Types, RxRing, NEW k \in 0 .. RxCount,
           rx'.head = rx.head, rx'.ring = rx.ring, rx'.tail = (rx.tail + k) % RxSize,
           number'.accepted = number.accepted, number'.read = Up(number.read, k)
    PROVE  RxRing'
<1> DEFINE t == rx.tail
           h == rx.head
           n == number.read
           c == RxCount
<1>1. /\ h \in 0 .. RxSize - 1 /\ t \in 0 .. RxSize - 1 /\ n \in 0 .. Wrap - 1
      /\ RxSize \in Nat /\ RxSize > 0 /\ Wrap \in Nat /\ Wrap > 0 /\ Wrap > RxSize
      /\ c \in 0 .. RxSize - 1 /\ k \in 0 .. c
    BY Ranges
<1>2. c = Minus(RxSize, h, t) /\ RxCount' = Minus(RxSize, h, Plus(RxSize, t, k))
    BY DEF RxCount, Minus, Plus
<1>3. /\ RxCount' = c - k
      /\ \A i \in 0 .. c - k : (rx'.tail + i) % RxSize = (t + (k + i)) % RxSize
    <2> HIDE DEF h, t
    <2> DEFINE m == Minus(RxSize, h, t)
    <2>0. k \in 0 .. m
        BY <1>1, <1>2
    <2>1. /\ Minus(RxSize, h, Plus(RxSize, t, k)) = m - k
          /\ \A i \in 0 .. m - k : Plus(RxSize, Plus(RxSize, t, k), i) = Plus(RxSize, t, k + i)
        BY <1>1, <2>0, RingTake
    <2>2. rx'.tail = Plus(RxSize, t, k)
        BY DEF Plus, t
    <2>3. \A i \in 0 .. m - k : (rx'.tail + i) % RxSize = (t + (k + i)) % RxSize
        BY <2>1, <2>2 DEF Plus
    <2> QED
        BY <1>2, <2>1, <2>3
<1>4. \A i \in 0 .. c - k : Up(Up(n, k), i) = Up(n, k + i)
    <2> SUFFICES ASSUME NEW i \in 0 .. c - k PROVE Plus(Wrap, Plus(Wrap, n, k), i) = Plus(Wrap, n, k + i)
        BY DEF Up, Plus
    <2>1. k \in 0 .. Wrap /\ i \in 0 .. Wrap /\ k + i <= Wrap
        BY <1>1
    <2> QED
        BY <1>1, <2>1, RingSum, Zenon
<1>5. number'.accepted = Up(number'.read, RxCount')
    <2>1. c - k \in 0 .. c - k /\ k + (c - k) = c
        <3> HIDE DEF c
        <3> QED
            BY <1>1
    <2>2. Up(Up(n, k), c - k) = Up(n, k + (c - k))
        BY <1>4, <2>1
    <2> QED
        BY <1>3, <2>1, <2>2 DEF RxRing
<1>6. ASSUME NEW i \in 0 .. RxCount' - 1
      PROVE  rx'.ring[(rx'.tail + i) % RxSize].number = Up(number'.read, i)
    <2>1. i \in 0 .. (c - k) - 1
        BY <1>3
    <2>2. i \in 0 .. c - k /\ k + i \in 0 .. c - 1
        <3> HIDE DEF c
        <3> QED
            BY <1>1, <2>1
    <2>3. rx.ring[(t + (k + i)) % RxSize].number = Up(n, k + i)
        BY <2>2 DEF RxRing
    <2> QED
        BY <1>3, <1>4, <2>2, <2>3
<1> QED
    BY <1>5, <1>6 DEF RxRing

(* k bytes of a packet enter it at the head.                                  *)
LEMMA RxWritten ==
    ASSUME Types, Control, RxInv, NEW packet \in Packets, OnDataWritten(packet)
    PROVE  RxInv'
<1> DEFINE t == rx.tail
           h == rx.head
           n == number.read
           c == RxCount
           k == Stored(packet)
           Place(i) == (i - h) % RxSize
<1>1. /\ h \in 0 .. RxSize - 1 /\ t \in 0 .. RxSize - 1 /\ n \in 0 .. Wrap - 1
      /\ RxSize \in Nat /\ RxSize > 0 /\ Wrap \in Nat /\ Wrap > 0 /\ Wrap > RxSize
      /\ c \in 0 .. RxSize - 1 /\ k \in 0 .. RxSize - 1 - c
    BY Ranges, StoredFits
<1>2. /\ rx'.head = (h + k) % RxSize /\ rx'.tail = t
      /\ rx'.ring = [i \in 0 .. RxSize - 1 |->
                        IF Place(i) < k
                        THEN [number |-> Up(number.accepted, Place(i)), delimiter |-> packet[Place(i) + 1]]
                        ELSE rx.ring[i]]
    <2> HIDE DEF k
    <2>1. rx \in RxType
        BY DEF Types
    <2> QED
        BY <2>1 DEF OnDataWritten, RxType, k
<1>3. /\ number'.accepted = Up(number.accepted, k) /\ number'.read = n
      /\ task' = task /\ scenario' = scenario /\ line' = line
    <2> HIDE DEF k
    <2> QED
        BY DEF OnDataWritten, Types, k
<1> HIDE DEF k
<1>4. ASSUME NEW i \in 0 .. RxSize - 1
      PROVE  /\ Place(i) >= k => rx'.ring[i].number = rx.ring[i].number
             /\ Place(i) < k => rx'.ring[i].number = Up(number.accepted, Place(i))
    <2>1. Place(i) \in Nat
        BY <1>1
    <2> HIDE DEF Place
    <2> QED
        BY <1>1, <1>2, <2>1
<1>5. c = Minus(RxSize, h, t) /\ RxCount' = Minus(RxSize, Plus(RxSize, h, k), t)
    BY <1>2 DEF RxCount, Minus, Plus
<1>6. /\ RxCount' = c + k /\ Plus(RxSize, h, k) \in 0 .. RxSize - 1
      /\ \A i \in 0 .. c - 1 : (t + i) % RxSize \in 0 .. RxSize - 1 /\ Place((t + i) % RxSize) >= k
      /\ \A i \in c .. c + k - 1 : (t + i) % RxSize \in 0 .. RxSize - 1 /\ Place((t + i) % RxSize) = i - c
    <2> HIDE DEF h, t
    <2> DEFINE m == Minus(RxSize, h, t)
    <2>0. k \in 0 .. RxSize - 1 - m
        BY <1>1, <1>5
    <2>1. /\ Plus(RxSize, h, k) \in 0 .. RxSize - 1
          /\ Minus(RxSize, Plus(RxSize, h, k), t) = m + k
          /\ \A i \in 0 .. m - 1 : Plus(RxSize, t, i) \in 0 .. RxSize - 1 /\ Minus(RxSize, Plus(RxSize, t, i), h) >= k
          /\ \A i \in m .. m + k - 1 :
                Plus(RxSize, t, i) \in 0 .. RxSize - 1 /\ Minus(RxSize, Plus(RxSize, t, i), h) = i - m
        BY <1>1, <2>0, RingPut
    <2>2. \A i : Plus(RxSize, t, i) = (t + i) % RxSize /\ Minus(RxSize, Plus(RxSize, t, i), h) = Place((t + i) % RxSize)
        BY DEF Plus, Minus
    <2> HIDE DEF Place
    <2> QED
        BY <1>5, <2>1, <2>2
<1>7. ASSUME Single' PROVE RxRing' /\ \A f \in Fibers : RxTask(f)'
    <2>1. RxRing /\ \A f \in Fibers : RxTask(f)
        BY <1>3, <1>7 DEF RxInv, Single
    <2>2. number.accepted = Up(n, c) /\ \A i \in 0 .. c - 1 : rx.ring[(t + i) % RxSize].number = Up(n, i)
        BY <2>1 DEF RxRing
    <2>3. \A i \in 0 .. k : Up(Up(n, c), i) = Up(n, c + i)
        <3> SUFFICES ASSUME NEW i \in 0 .. k PROVE Plus(Wrap, Plus(Wrap, n, c), i) = Plus(Wrap, n, c + i)
            BY DEF Up, Plus
        <3>1. c \in 0 .. Wrap /\ i \in 0 .. Wrap /\ c + i <= Wrap
            BY <1>1
        <3> QED
            BY <1>1, <3>1, RingSum, Zenon
    <2>4. number'.accepted = Up(number'.read, RxCount')
        <3>1. k \in 0 .. k
            BY <1>1
        <3>2. Up(Up(n, c), k) = Up(n, c + k)
            BY <2>3, <3>1
        <3> QED
            BY <1>3, <1>6, <2>2, <3>2
    <2>5. ASSUME NEW i \in 0 .. RxCount' - 1
          PROVE  rx'.ring[(rx'.tail + i) % RxSize].number = Up(number'.read, i)
        <3> DEFINE cell == (t + i) % RxSize
        <3>1. i \in 0 .. c - 1 \/ i \in c .. c + k - 1
            <4> HIDE DEF c
            <4> QED
                BY <1>1, <1>6
        <3>2. CASE i \in 0 .. c - 1
            <4>1. cell \in 0 .. RxSize - 1 /\ Place(cell) >= k
                BY <1>6, <3>2
            <4>2. rx'.ring[cell].number = rx.ring[cell].number
                BY <1>4, <4>1
            <4> QED
                BY <1>2, <1>3, <2>2, <3>2, <4>2
        <3>3. CASE i \in c .. c + k - 1
            <4>1. cell \in 0 .. RxSize - 1 /\ Place(cell) = i - c
                BY <1>6, <3>3
            <4>2. i - c < k /\ i - c \in 0 .. k /\ c + (i - c) = i
                <5> HIDE DEF c
                <5> QED
                    BY <1>1, <3>3
            <4>3. rx'.ring[cell].number = Up(number.accepted, i - c)
                <5> HIDE DEF Place, cell
                <5> QED
                    BY <1>4, <4>1, <4>2
            <4>4. Up(Up(n, c), i - c) = Up(n, c + (i - c))
                BY <2>3, <4>2
            <4> QED
                BY <1>2, <1>3, <2>2, <4>2, <4>3, <4>4
        <3> QED
            BY <3>1, <3>2, <3>3
    <2>6. RxRing'
        BY <2>4, <2>5 DEF RxRing
    <2>7. c + k > 0 => rx'.head # rx'.tail
        <3>1. ASSUME Plus(RxSize, h, k) = t PROVE c + k = 0
            <4>1. Minus(RxSize, t, t) = 0
                BY <1>1 DEF Minus
            <4> QED
                BY <1>5, <1>6, <3>1, <4>1
        <3> QED
            BY <1>2, <3>1 DEF Plus
    <2>8. h # t => c + k > 0
        <3>1. Minus(RxSize, h, t) = (IF h >= t THEN h - t ELSE h - t + RxSize)
            BY <1>1, RingSub, Zenon
        <3> HIDE DEF h, t, c
        <3> QED
            BY <1>1, <1>5, <3>1
    <2>9. \A f \in Fibers :
            /\ f \in asleep["HEAD_MATCH"]  => f \in asleep'["HEAD_MATCH"] \/ c + k > 0
            /\ f \in asleep["DELIM_MATCH"] => f \in asleep'["DELIM_MATCH"] \/ c + k > 0
        <3>1. k \in Nat /\ c \in Nat
            BY <1>1
        <3>2. (rx.match - rx.head - 1) % RxSize \in Nat
            BY <1>1 DEF Types, RxType
        <3>3. rx.match # -1 /\ (rx.match - rx.head - 1) % RxSize < k => k > 0
            BY <3>1, <3>2
        <3>4. rx.listening /\ (\E i \in 1 .. k : packet[i]) => k > 0
            BY <3>1
        <3>5. asleep' = [asleep EXCEPT !["HEAD_MATCH"] =
                            IF rx.match # -1 /\ (rx.match - rx.head - 1) % RxSize < k THEN {} ELSE @,
                                       !["DELIM_MATCH"] = IF rx.listening /\ \E i \in 1 .. k : packet[i] THEN {} ELSE @]
            BY DEF OnDataWritten, k
        <3>6. /\ asleep'["HEAD_MATCH"] = asleep["HEAD_MATCH"] \/ k > 0
              /\ asleep'["DELIM_MATCH"] = asleep["DELIM_MATCH"] \/ k > 0
            <4>1. asleep \in [Events -> SUBSET Fibers] /\ "HEAD_MATCH" \in Events /\ "DELIM_MATCH" \in Events
                BY DEF Types, Events
            <4> QED
                BY <3>3, <3>4, <3>5, <4>1
        <3> HIDE DEF c
        <3> QED
            BY <3>1, <3>6
    <2>10. \A f \in Fibers : RxTask(f)'
        <3> HIDE DEF c, h, t
        <3> QED
            BY <1>2, <1>3, <2>1, <2>7, <2>8, <2>9 DEF RxTask, h, t
    <2> QED
        BY <2>6, <2>10
<1> QED
    BY <1>3, <1>7 DEF RxInv

(* A byte is there as soon as the head has left the tail.                     *)
LEMMA SomeByte ==
    ASSUME Types, rx.head # rx.tail
    PROVE  RxCount \in 1 .. RxSize - 1
<1>1. /\ rx.head \in 0 .. RxSize - 1 /\ rx.tail \in 0 .. RxSize - 1 /\ RxSize \in Nat /\ RxSize > 0
      /\ RxCount = Minus(RxSize, rx.head, rx.tail)
    BY Constants DEF Types, RxType, RxCount, Minus
<1>2. /\ Minus(RxSize, rx.head, rx.tail) = (IF rx.head >= rx.tail THEN rx.head - rx.tail ELSE rx.head - rx.tail + RxSize)
      /\ Minus(RxSize, rx.head, rx.tail) \in 0 .. RxSize - 1
    BY <1>1, RingSub, Zenon
<1> QED
    BY <1>1, <1>2

(* Steps that take k bytes, after which f does not wait.                      *)
LEMMA RxRemove ==
    ASSUME Types, Control, RxInv, NEW f \in Fibers, Moves(f),
           NEW k, Single => k \in 0 .. RxCount,
           rx'.head = rx.head, rx'.ring = rx.ring, rx'.tail = (rx.tail + k) % RxSize,
           number'.accepted = number.accepted, number'.read = Up(number.read, k),
           task'[f].pc \in {"idle", "get"},
           line' = line \/ line'.mode # "ASYNC" \/ EndsAtDelimiter(line'.text)
    PROVE  RxInv'
<1>1. ASSUME Single' PROVE RxRing' /\ \A g \in Fibers : RxTask(g)'
    <2>1. Single
        BY <1>1 DEF Single, Moves
    <2>2. RxRing /\ k \in 0 .. RxCount
        BY <2>1 DEF RxInv
    <2>3. RxRing'
        BY <2>2, RxGive
    <2>4. \A g \in Fibers : task'[g].pc \in {"idle", "get"}
        BY <2>1, Alone
    <2>5. \A g \in Fibers : RxTask(g)'
        BY <2>4 DEF RxTask
    <2> QED
        BY <2>3, <2>5
<1>2. line'.mode = "ASYNC" => EndsAtDelimiter(line'.text)
    BY DEF RxInv
<1> QED
    BY <1>1, <1>2 DEF RxInv

(* getc() takes a byte that is there: the reader that did not wait saw it,    *)
(* and the one that did was woken for it.                                     *)
LEMMA RxGet ==
    ASSUME Types, Control, RxInv, NEW f \in Fibers, Moves(f), Get(f) \/ TakeWoken(f)
    PROVE  RxInv'
<1>1. task[f] \in TaskType
    BY DEF Types
<1>2. CASE Take(f) /\ line' = line /\ (rx.tail = rx.head => task[f].pc = "take" /\ f \notin asleep["HEAD_MATCH"])
    <2>1. /\ rx'.head = rx.head /\ rx'.ring = rx.ring /\ rx'.tail = (rx.tail + 1) % RxSize
          /\ number'.accepted = number.accepted /\ number'.read = Up(number.read, 1)
        <3>1. rx \in RxType /\ number \in [accepted : Bytes, read : Bytes, given : Bytes, confirmed : Bytes]
            BY DEF Types
        <3>2. rx' = [rx EXCEPT !.tail = RxUp(rx.tail)] /\ number' = [number EXCEPT !.read = Up(number.read, 1)]
            BY <1>2 DEF Take
        <3>3. rx'.head = rx.head /\ rx'.ring = rx.ring /\ rx'.tail = RxUp(rx.tail)
            BY <3>1, <3>2 DEF RxType
        <3> QED
            BY <3>1, <3>2, <3>3 DEF RxUp
    <2>2. task'[f].pc = "get"
        <3>1. task'[f] = [task[f] EXCEPT !.left = @ - 1, !.pc = "get"]
            BY <1>2, Went DEF Take
        <3> QED
            BY <1>1, <3>1 DEF TaskType
    <2>3. Single => 1 \in 0 .. RxCount
        <3>1. Single => rx.head # rx.tail
            BY <1>2 DEF RxInv, RxTask
        <3> QED
            BY <3>1, SomeByte
    <2> QED
        BY <1>2, <2>1, <2>2, <2>3, RxRemove
<1>3. CASE UNCHANGED <<rx, number>> /\ line' = line /\ task'[f].pc \in {"idle", "arm"}
    BY <1>3, RxSame DEF RxTask
<1>4. CASE Get(f)
    <2>1. CASE Take(f) /\ rx.tail # rx.head
        BY <1>2, <1>4, <2>1 DEF Get
    <2>2. CASE UNCHANGED <<rx, number>> /\ (Go(f, Idle) \/ Go(f, [task[f] EXCEPT !.pc = "arm", !.local = 1, !.after = "take"]))
        <3>1. task'[f] = Idle \/ task'[f] = [task[f] EXCEPT !.pc = "arm", !.local = 1, !.after = "take"]
            BY <2>2, Went
        <3>2. task'[f].pc \in {"idle", "arm"}
            <4>1. Idle.pc = "idle"
                BY DEF Idle
            <4> QED
                BY <1>1, <3>1, <4>1 DEF TaskType
        <3>3. line' = line
            BY <1>4 DEF Get
        <3> QED
            BY <1>3, <2>2, <3>2, <3>3
    <2> QED
        BY <1>4, <2>1, <2>2 DEF Get
<1>5. CASE TakeWoken(f)
    <2>1. Take(f) /\ line' = line /\ task[f].pc = "take" /\ f \notin asleep["HEAD_MATCH"]
        BY <1>5 DEF TakeWoken, At
    <2> QED
        BY <1>2, <2>1
<1> QED
    BY <1>4, <1>5

(* The waits: f is registered before another step can fire the event.         *)
LEMMA RxWait ==
    ASSUME Types, Control, RxInv, NEW f \in Fibers, Moves(f),
           \/ ReadSize(f) \/ ReadNeed(f) \/ EventAfter(f) \/ AwaitHead(f)
           \/ ReadWoken(f) \/ EventOn(f) \/ AwaitDelimiter(f)
    PROVE  RxInv'
<1>1. task[f] \in TaskType /\ rx \in RxType
    BY DEF Types
<1>2. /\ rx'.head = rx.head /\ rx'.tail = rx.tail /\ rx'.ring = rx.ring /\ number' = number /\ line' = line
    BY <1>1 DEF ReadSize, ReadNeed, EventAfter, AwaitHead, ReadWoken, EventOn, AwaitDelimiter, RxType
<1>3. CASE ReadNeed(f)
    <2>1. task'[f] = [task[f] EXCEPT !.pc = "arm", !.local = task[f].left - RxCount, !.after = "got"]
        BY <1>3, Went DEF ReadNeed
    <2>2. task'[f].pc = "arm"
        BY <1>1, <2>1 DEF TaskType
    <2>3. RxTask(f)'
        BY <2>2 DEF RxTask
    <2> QED
        BY <1>2, <2>3, RxSame
<1>4. CASE ReadSize(f) \/ EventAfter(f) \/ ReadWoken(f)
    <2>1. To(f, "need") \/ To(f, "get") \/ To(f, "await")
        BY <1>4 DEF ReadSize, EventAfter, ReadWoken
    <2>2. task'[f].pc \in {"need", "get", "await"}
        BY <2>1, Went
    <2>3. RxTask(f)'
        BY <2>2 DEF RxTask
    <2> QED
        BY <1>2, <2>3, RxSame
<1>5. CASE EventOn(f)
    <2>1. task'[f] = [task[f] EXCEPT !.pc = "awaitDelimiter"] /\ task[f].pc = "listen"
        BY <1>5, Went DEF EventOn, At
    <2>2. task'[f].pc = "awaitDelimiter" /\ task'[f].local = task[f].local
        BY <1>1, <2>1 DEF TaskType
    <2>3. Single => RxTask(f)'
        BY <1>2, <2>1, <2>2 DEF RxTask, RxInv
    <2> QED
        BY <1>2, <2>3, RxSame
<1>6. CASE AwaitHead(f) \/ AwaitDelimiter(f)
    <2>1. /\ asleep \in [Events -> SUBSET Fibers] /\ task \in [Fibers -> TaskType]
          /\ "HEAD_MATCH" \in Events /\ "DELIM_MATCH" \in Events
        BY DEF Types, Events
    <2>2. CASE AwaitHead(f)
        <3>1. task'[f].pc = task[f].after /\ f \in asleep'["HEAD_MATCH"]
            BY <1>1, <2>1, <2>2 DEF AwaitHead, Sleep, TaskType
        <3>2. task[f].after \in {"idle", "take", "got"}
            BY <1>1 DEF TaskType
        <3>3. RxTask(f)'
            BY <3>1, <3>2 DEF RxTask
        <3> QED
            BY <1>2, <3>3, RxSame
    <2>3. CASE AwaitDelimiter(f)
        <3>1. /\ task'[f].pc = "heard" /\ task'[f].local = task[f].local /\ f \in asleep'["DELIM_MATCH"]
              /\ task[f].pc = "awaitDelimiter"
            BY <1>1, <2>1, <2>3 DEF AwaitDelimiter, Sleep, At, TaskType
        <3>2. Single => RxTask(f)'
            BY <1>2, <3>1 DEF RxTask, RxInv
        <3> QED
            BY <1>2, <3>2, RxSame
    <2> QED
        BY <1>6, <2>2, <2>3
<1> QED
    BY <1>3, <1>4, <1>5, <1>6

(* From t to t + m there are m cells.                                         *)
LEMMA RingBack ==
    ASSUME NEW N \in Nat, N > 0, NEW t \in 0 .. N - 1, NEW m \in 0 .. N - 1
    PROVE  Minus(N, Plus(N, t, m), t) = m
<1> DEFINE u == Plus(N, t, m)
<1>1. m \in 0 .. N
    OBVIOUS
<1>2. u = (IF t + m < N THEN t + m ELSE t + m - N) /\ u \in 0 .. N - 1
    BY <1>1, RingAdd, Zenon
<1> HIDE DEF u
<1>3. Minus(N, u, t) = (IF u >= t THEN u - t ELSE u - t + N)
    BY <1>2, RingSub, Zenon
<1>4. Minus(N, u, t) = m
    BY <1>2, <1>3
<1> QED
    BY <1>4 DEF u

(* readUntil() without a wait: the text ends at the first delimiter.          *)
LEMMA RxScan ==
    ASSUME Types, Control, RxInv, NEW f \in Fibers, Moves(f), Scan(f)
    PROVE  RxInv'
<1>0. rx \in RxType /\ number \in [accepted : Bytes, read : Bytes, given : Bytes, confirmed : Bytes] /\ task[f] \in TaskType
    BY DEF Types
<1>1. CASE Matches # {} /\ Collect(f, rx.tail, (rx.tail + Min(Matches)) % RxSize) /\ Go(f, Idle)
    <2> DEFINE m == Min(Matches)
               size == (((rx.tail + m) % RxSize) - rx.tail) % RxSize
    <2>1. /\ m \in Matches /\ \A i \in Matches : m <= i
          /\ RxCount \in 0 .. RxSize - 1
        <3>1. RxCount \in 0 .. RxSize - 1
            BY Counts
        <3>2. Matches \in SUBSET Nat
            BY <3>1, Constants DEF Matches
        <3> QED
            BY <1>1, <3>1, <3>2, MinIsLeast, Zenon
    <2>2. m \in 0 .. RxCount - 1 /\ m \in 0 .. RxSize - 1 /\ m + 1 \in 0 .. RxCount /\ m \in Nat
        <3>1. m \in 0 .. RxCount - 1
            BY <2>1 DEF Matches
        <3> HIDE DEF m
        <3> QED
            BY <2>1, <3>1, Constants
    <2> HIDE DEF m
    <2>3. size = m
        <3>1. RxSize \in Nat /\ RxSize > 0 /\ rx.tail \in 0 .. RxSize - 1
            BY <1>0, Constants DEF RxType
        <3>2. Minus(RxSize, Plus(RxSize, rx.tail, m), rx.tail) = m
            BY <2>2, <3>1, RingBack, Zenon
        <3> QED
            BY <3>2 DEF Plus, Minus
    <2>4. /\ line'.text = [i \in 1 .. m + 1 |-> rx.ring[(rx.tail + i - 1) % RxSize]]
          /\ rx' = [rx EXCEPT !.tail = (rx.tail + m + 1) % RxSize,
                              !.listening = rx.listening /\ task[f].pc # "heard"]
          /\ number' = [number EXCEPT !.read = Up(number.read, m + 1)]
        BY <1>1, <2>3 DEF Collect, m
    <2>5. /\ rx'.head = rx.head /\ rx'.ring = rx.ring /\ rx'.tail = (rx.tail + m + 1) % RxSize
          /\ number'.accepted = number.accepted /\ number'.read = Up(number.read, m + 1)
        BY <1>0, <2>4 DEF RxType
    <2>6. rx.tail + m + 1 = rx.tail + (m + 1)
        BY <1>0, <2>2, Constants DEF RxType
    <2>7. EndsAtDelimiter(line'.text)
        <3>1. Len(line'.text) = m + 1
            BY <2>2, <2>4
        <3>2. ASSUME NEW i \in 1 .. m + 1
              PROVE  line'.text[i].delimiter <=> i - 1 \in Matches
            <4>1. line'.text[i] = rx.ring[(rx.tail + i - 1) % RxSize]
                BY <2>4
            <4>2. rx.tail + i - 1 = rx.tail + (i - 1) /\ i - 1 \in 0 .. RxCount - 1
                BY <1>0, <2>1, <2>2, Constants DEF RxType
            <4> QED
                BY <4>1, <4>2 DEF Matches
        <3>3. ASSUME NEW i \in 1 .. m + 1 PROVE i - 1 \in Matches <=> i = m + 1
            <4>1. i - 1 \in Matches => m <= i - 1
                BY <2>1
            <4>2. i = m + 1 => i - 1 = m
                BY <2>2
            <4> QED
                BY <2>1, <2>2, <4>1, <4>2
        <3> QED
            BY <3>1, <3>2, <3>3 DEF EndsAtDelimiter
    <2>8. task'[f].pc = "idle"
        <3>1. task'[f] = Idle
            BY <1>1, Went
        <3> QED
            BY <3>1 DEF Idle
    <2> QED
        BY <2>2, <2>5, <2>6, <2>7, <2>8, RxRemove
<1>2. CASE /\ UNCHANGED <<rx, number, line>>
           /\ Go(f, IF task[f].mode = "ASYNC" THEN Idle ELSE [task[f] EXCEPT !.pc = "listen", !.local = rx.tail])
    <2>1. task'[f] = (IF task[f].mode = "ASYNC" THEN Idle ELSE [task[f] EXCEPT !.pc = "listen", !.local = rx.tail])
        BY <1>2, Went
    <2>2. CASE task[f].mode = "ASYNC"
        <3>1. task'[f].pc = "idle"
            BY <2>1, <2>2 DEF Idle
        <3>2. RxTask(f)'
            BY <3>1 DEF RxTask
        <3> QED
            BY <1>2, <3>2, RxSame
    <2>3. CASE task[f].mode # "ASYNC"
        <3>1. task'[f].pc = "listen" /\ task'[f].local = rx.tail
            BY <1>0, <2>1, <2>3 DEF TaskType
        <3>2. RxTask(f)'
            BY <1>2, <3>1 DEF RxTask
        <3> QED
            BY <1>2, <3>2, RxSame
    <2> QED
        BY <2>2, <2>3
<1> QED
    BY <1>1, <1>2 DEF Scan

(* readUntil() after a wait: the text ends in front of the head.              *)
LEMMA RxHeard ==
    ASSUME Types, Control, RxInv, NEW f \in Fibers, Moves(f), Heard(f)
    PROVE  RxInv'
<1>0. rx \in RxType /\ number \in [accepted : Bytes, read : Bytes, given : Bytes, confirmed : Bytes] /\ task[f] \in TaskType
    BY DEF Types
<1>1. /\ task'[f].pc = "idle" /\ task[f].pc = "heard" /\ f \notin asleep["DELIM_MATCH"]
      /\ task[f].mode = "SYNC_SLEEP"
    <2>1. task'[f] = Idle /\ task[f].pc = "heard" /\ f \notin asleep["DELIM_MATCH"]
        BY Went DEF Heard, At
    <2>2. Idle.pc = "idle"
        BY DEF Idle
    <2> QED
        BY <2>1, <2>2 DEF Control
<1>2. CASE rx.head = 0
    <2>1. /\ rx'.head = rx.head /\ rx'.tail = rx.tail /\ rx'.ring = rx.ring /\ number' = number /\ line' = line
        BY <1>0, <1>2 DEF Heard, RxType
    <2>2. RxTask(f)'
        BY <1>1 DEF RxTask
    <2> QED
        BY <2>1, <2>2, RxSame
<1>3. CASE rx.head # 0
    <2> DEFINE size == (rx.head - 1 - task[f].local) % RxSize
    <2>1. /\ line'.mode = "SYNC_SLEEP"
          /\ rx' = [rx EXCEPT !.tail = (rx.tail + size + 1) % RxSize, !.listening = rx.listening /\ task[f].pc # "heard"]
          /\ number' = [number EXCEPT !.read = Up(number.read, size + 1)]
        BY <1>1, <1>3 DEF Heard, Collect
    <2>2. size \in Int
        BY <1>0, Constants DEF RxType, TaskType
    <2> HIDE DEF size
    <2>3. /\ rx'.head = rx.head /\ rx'.ring = rx.ring /\ rx'.tail = (rx.tail + size + 1) % RxSize
          /\ number'.accepted = number.accepted /\ number'.read = Up(number.read, size + 1)
        BY <1>0, <2>1 DEF RxType
    <2>4. rx.tail + size + 1 = rx.tail + (size + 1)
        BY <1>0, <2>2, Constants DEF RxType
    <2>5. Single => size + 1 \in 0 .. RxCount
        <3> SUFFICES ASSUME Single PROVE size + 1 \in 0 .. RxCount
            OBVIOUS
        <3>1. rx.head # rx.tail /\ task[f].local = rx.tail
            BY <1>1 DEF RxInv, RxTask
        <3>2. /\ rx.head - 1 \in 0 .. RxSize - 1 /\ rx.head \in 0 .. RxSize - 1 /\ rx.tail \in 0 .. RxSize - 1
              /\ RxSize \in Nat /\ RxSize > 0
            BY <1>0, <1>3, Constants DEF RxType
        <3>3. Minus(RxSize, rx.head - 1, rx.tail) =
                  (IF rx.head - 1 >= rx.tail THEN rx.head - 1 - rx.tail ELSE rx.head - 1 - rx.tail + RxSize)
            BY <3>2, RingSub, Zenon
        <3>4. Minus(RxSize, rx.head, rx.tail) =
                  (IF rx.head >= rx.tail THEN rx.head - rx.tail ELSE rx.head - rx.tail + RxSize)
            BY <3>2, RingSub, Zenon
        <3>5. size = Minus(RxSize, rx.head - 1, rx.tail) /\ RxCount = Minus(RxSize, rx.head, rx.tail)
            BY <3>1 DEF Minus, RxCount, size
        <3> QED
            BY <3>1, <3>2, <3>3, <3>4, <3>5
    <2>6. line'.mode # "ASYNC"
        BY <2>1
    <2> QED
        BY <1>1, <2>3, <2>4, <2>5, <2>6, RxRemove
<1> QED
    BY <1>2, <1>3

LEMMA RxStep ==
    ASSUME Types, Control, RxInv, [Next]_vars
    PROVE  RxInv'
<1>1. ASSUME NEW f \in Fibers, Work(f) PROVE RxInv'
    <2>1. Moves(f)
        BY <1>1, WorkMoves
    <2>2. CASE Get(f) \/ TakeWoken(f)
        BY <2>1, <2>2, RxGet
    <2>3. CASE \/ ReadSize(f) \/ ReadNeed(f) \/ EventAfter(f) \/ AwaitHead(f)
               \/ ReadWoken(f) \/ EventOn(f) \/ AwaitDelimiter(f)
        BY <2>1, <2>3, RxWait
    <2>4. CASE Scan(f)
        BY <2>1, <2>4, RxScan
    <2>5. CASE Heard(f)
        BY <2>1, <2>5, RxHeard
    <2>6. CASE \/ SendLoop(f) \/ SendFill(f) \/ SendStore(f) \/ SendRegister(f) \/ SendNext(f) \/ SendCopy(f)
               \/ SendIndicate(f) \/ SendSent(f) \/ SendWoken(f)
        <3>1. rx' = rx /\ number'.accepted = number.accepted /\ number'.read = number.read /\ line' = line
            BY <2>6 DEF SendLoop, SendFill, SendStore, SendRegister, SendNext, SendCopy, SendIndicate, SendSent,
               SendWoken, Types
        <3>2. RxTask(f)'
            BY <2>6, SenderGoes DEF RxTask
        <3> QED
            BY <2>1, <3>1, <3>2, RxSame
    <2> QED
        BY <1>1, <2>2, <2>3, <2>4, <2>5, <2>6 DEF Work
<1>2. ASSUME NEW f \in Fibers, Call(f) PROVE RxInv'
    <2>1. Moves(f) /\ task'[f].pc \in {"get", "size", "scan", "send"}
        BY <1>2, CallTypes
    <2>2. rx' = rx /\ number' = number /\ line' = NoLine
        BY <1>2 DEF Call
    <2>3. RxTask(f)'
        BY <2>1 DEF RxTask
    <2> QED
        BY <2>1, <2>2, <2>3, RxSame
<1>3. ASSUME NEW packet \in Packets, OnDataWritten(packet) PROVE RxInv'
    BY <1>3, RxWritten
<1>4. CASE OnConfirmation \/ OnConnect \/ OnDisconnect \/ UNCHANGED vars
    <2>1. /\ rx' = rx /\ number'.accepted = number.accepted /\ number'.read = number.read /\ line' = line
          /\ task' = task /\ scenario' = scenario
        BY <1>4 DEF OnConfirmation, OnConnect, OnDisconnect, vars, Types
    <2>2. asleep'["HEAD_MATCH"] = asleep["HEAD_MATCH"] /\ asleep'["DELIM_MATCH"] = asleep["DELIM_MATCH"]
        <3>1. asleep' = asleep \/ asleep' = [asleep EXCEPT !["TX_EMPTY"] = {}]
            BY <1>4 DEF OnConfirmation, OnConnect, OnDisconnect, vars
        <3>2. asleep \in [Events -> SUBSET Fibers] /\ "HEAD_MATCH" \in Events /\ "DELIM_MATCH" \in Events
            BY DEF Types, Events
        <3> QED
            BY <3>1, <3>2
    <2>3. RxCount' = RxCount
        BY <2>1 DEF RxCount
    <2> QED
        BY <2>1, <2>2, <2>3 DEF RxInv, RxRing, RxTask, Single
<1> QED
    BY <1>1, <1>2, <1>3, <1>4 DEF Next, Interrupt

(* A single reader gets every byte that was accepted once and in order,       *)
(* whatever the callbacks do between its steps: a fiber that was woken finds  *)
(* the byte it was woken for.  And a readUntil() that does not wait returns   *)
(* the bytes up to the first delimiter, with any number of readers.           *)
THEOREM EachByteReadOnce == Spec => []RxExact
<1>1. Types /\ RxInv => RxExact
    <2> SUFFICES ASSUME Types, RxInv, Cardinality(scenario.fibers) = 1 PROVE RxRing
        BY DEF RxExact, RxRing, RxInv
    <2>1. scenario.fibers \subseteq Fibers /\ IsFiniteSet(Fibers)
        BY UARTAssumption DEF Types
    <2>2. IsFiniteSet(scenario.fibers)
        BY <2>1, FS_Subset
    <2>3. Single
        BY <2>2, FS_Singleton DEF Single
    <2> QED
        BY <2>3 DEF RxInv
<1>2. Types /\ Control /\ RxInv /\ [Next]_vars => RxInv'
    BY RxStep
<1> QED
    BY <1>1, <1>2, RxInit, TypesInit, TypesStep, PTL DEF Spec
=============================================================================
