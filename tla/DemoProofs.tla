----------------------------- MODULE DemoProofs -----------------------------
(***************************************************************************)
(* Proofs about the demo programs, for any number of threads, rounds,      *)
(* clients, descriptors and lines: what the counter without a lock can end *)
(* with, that the programs that sum all come to n(n-1)/2, that a thread    *)
(* gets its own number, that the pool of the server that selects describes *)
(* its connections, and that the lines a client gets are its own.          *)
(***************************************************************************)
EXTENDS ThreadDemos, EchoDemos, FiniteSetTheorems, SequenceTheorems, WellFoundedInduction, TLAPS

----------------------------------------------------------------------------
(* The thread programs *)

(* The inductive invariant                                                 *)

Started(t) == dt[t].pc \notin {"none", "start"}
BodyPC == CASE demo = "badcnt" -> {"load", "store"}
            [] demo = "psum-mutex" -> {"P", "load", "store", "V"}
            [] demo = "psum-array" -> {"load", "store"}
            [] demo = "psum-local" -> {"add", "put"}
            [] demo = "sharing" -> {"load", "store", "print"}
            [] OTHER -> {"print"}
Steps == {"P", "load", "store", "V", "add", "put", "print"}

DRecord == [pc : {"none", "start", "done"} \cup Steps, myid : {-1} \cup (0 .. N), i : Nat,
            reg : Nat, out : {-1} \cup (0 .. N)]
DTypes == /\ dm \in {"create", "join", "end"} /\ di \in 0 .. N
          /\ dt \in [DThreads -> DRecord] /\ shared \in Nat /\ psum \in [DThreads -> Nat]
          /\ mutex \in {0, 1} /\ arg \in [DThreads -> {-1} \cup (0 .. N)]

(* Main has created the threads below di, or has joined them. *)
Created == \A t \in DThreads :
             /\ dt[t].pc \in {"none", "start", "done"} \cup BodyPC
             /\ dt[t].pc = "none" <=> dm = "create" /\ t >= di
             /\ dm = "join" /\ t < di => dt[t].pc = "done"
             /\ dm = "end" /\ demo # "sharing" => dt[t].pc = "done"

(* But for race.c, a thread is given its own number, and keeps it. *)
NumberOf(t) == /\ demo # "race" => /\ dt[t].pc = "start" => arg[t] = t
                                   /\ Started(t) => dt[t].myid = t
               /\ demo \in {"norace", "sharing"} /\ dt[t].pc = "done" => dt[t].out = t
               /\ demo = "norace" /\ Started(t) => arg[t] = -1
Numbered == \A t \in DThreads : NumberOf(t)

(* The rounds of a thread, from First up to Upto. *)
Loops == demo \in Sums \cup {"badcnt"}
First(t) == IF demo \in Sums THEN t * PerThread ELSE 0
Upto(t) == First(t) + PerThread
RoundOf(t) == /\ ~ Started(t) => dt[t].i = 0 /\ dt[t].reg = 0
              /\ Loops /\ Started(t) => First(t) <= dt[t].i /\ dt[t].i <= Upto(t)
              /\ Loops /\ dt[t].pc \in Steps \ {"put"} => dt[t].i < Upto(t)
              /\ Loops /\ dt[t].pc \in {"put", "done"} => dt[t].i = Upto(t)
Rounds == \A t \in DThreads : RoundOf(t)

(* g[k] is the sum of a[t] for the threads t below k. *)
Adds(g, a) == g[0] = 0 /\ \A t \in DThreads : g[t + 1] = g[t] + a[t]
Partial(g, a) == g \in [0 .. N -> Int] /\ Adds(g, a)

(* Without a lock: what is stored or about to be is at most the number of  *)
(* rounds made, and 1 is stored in a first round only.                     *)
Racing == demo = "badcnt" =>
    /\ \E g : /\ Partial(g, [t \in DThreads |-> dt[t].i]) /\ shared <= g[N]
              /\ \A t \in DThreads : dt[t].pc = "store" => dt[t].reg <= g[N]
    /\ shared = 0 => \A t \in DThreads : dt[t].i = 0
    /\ shared = 1 => \E t \in DThreads : dt[t].i = 1
    /\ \A t \in DThreads : dt[t].pc = "store" /\ dt[t].reg = 0 => dt[t].i = 0

(* What thread t has added up: the numbers from First to its i, which the  *)
(* locked loop increments after V only.                                    *)
Tri(n) == (n * (n - 1)) \div 2
Did(t) == IF ~ Started(t) THEN 0
          ELSE Tri(IF dt[t].pc = "V" THEN dt[t].i + 1 ELSE dt[t].i) - Tri(First(t))

Locked == {"load", "store", "V"}
Locking == demo = "psum-mutex" =>
    /\ mutex = 1 => \A t \in DThreads : dt[t].pc \notin Locked
    /\ \A t, u \in DThreads : dt[t].pc \in Locked /\ dt[u].pc \in Locked => t = u
    /\ \A t \in DThreads : dt[t].pc = "store" => dt[t].reg = shared
    /\ \E g : Partial(g, [t \in DThreads |-> Did(t)]) /\ shared = g[N]

OwnSum(t) ==
    /\ demo = "psum-array" => psum[t] = Did(t) /\ (dt[t].pc = "store" => dt[t].reg = psum[t])
    /\ demo = "psum-local" => /\ dt[t].pc \in {"add", "put"} => dt[t].reg = Did(t)
                              /\ dt[t].pc = "done" => psum[t] = Did(t)
OwnSums == \A t \in DThreads : OwnSum(t)

DInv == DTypes /\ Created /\ Numbered /\ Rounds /\ Racing /\ Locking /\ OwnSums

----------------------------------------------------------------------------
(* Numbers and partial sums                                                *)

LEMMA Threads == N \in Nat /\ N >= 1 /\ DThreads = 0 .. N - 1 /\ PerThread \in Nat /\ PerThread >= 1
<1>1. N \in Nat
  BY DemoAssumption, FS_CardinalityType DEF N
<1> QED BY <1>1, DemoAssumption DEF N

LEMMA TimesStep == \A t, p \in Nat : t * p \in Nat /\ (t + 1) * p = t * p + p /\ 0 * p = 0
OBVIOUS

LEMMA Triangle == \A n \in Nat : Tri(n) \in Int /\ Tri(n + 1) = Tri(n) + n
<1> TAKE n \in Nat
<1> DEFINE x == n * (n - 1)
<1>1. x \in Int /\ (n + 1) * ((n + 1) - 1) = x + 2 * n
  OBVIOUS
<1> HIDE DEF x
<1>2. (x + 2 * n) \div 2 = (x \div 2) + n /\ x \div 2 \in Int
  BY <1>1
<1> QED BY <1>1, <1>2 DEF Tri, x

(* When one thread adds d, the sums of those above it grow by d.           *)
LEMMA OneAdds ==
    ASSUME NEW g, NEW a, Partial(g, a), NEW t \in DThreads, NEW d \in Int,
           NEW b, \A u \in DThreads : a[u] \in Int /\ b[u] = IF u = t THEN a[u] + d ELSE a[u]
    PROVE  \E h : Partial(h, b) /\ h[N] = g[N] + d
<1> DEFINE h == [k \in 0 .. N |-> IF k > t THEN g[k] + d ELSE g[k]]
<1>1. h \in [0 .. N -> Int]
  BY Threads DEF Partial, Adds
<1>2. h[0] = 0 /\ h[N] = g[N] + d
  BY Threads DEF Partial, Adds
<1>3. ASSUME NEW u \in DThreads PROVE h[u + 1] = h[u] + b[u]
  <2>1. u \in 0 .. N /\ u + 1 \in 0 .. N /\ u \in Int /\ t \in Int
    BY Threads
  <2>2. g[u + 1] = g[u] + a[u] /\ g[u] \in Int /\ g[u + 1] \in Int /\ a[u] \in Int
    BY <2>1 DEF Partial, Adds
  <2> QED BY <2>1, <2>2
<1> QED BY <1>1, <1>2, <1>3 DEF Partial, Adds

(* The partial sums do not change with the terms' form.                    *)
LEMMA SameTerms ==
    ASSUME NEW g, NEW a, Partial(g, a), NEW b, \A t \in DThreads : b[t] = a[t]
    PROVE  Partial(g, b)
BY DEF Partial, Adds

(* The terms determine their partial sums: where two disagree first, they  *)
(* agree on the number before and add the same term.                       *)
LEMMA OneSum ==
    ASSUME NEW g, NEW h, NEW a, NEW b, Adds(g, a), Adds(h, b), \A t \in DThreads : b[t] = a[t]
    PROVE  g[N] = h[N]
<1> DEFINE D == {k \in 0 .. N : g[k] # h[k]}
<1> SUFFICES ASSUME D # {} PROVE FALSE
  BY Threads
<1>1. PICK k \in D : \A j \in D : ~ (<<j, k>> \in OpToRel(<, Nat))
  <2>1. D \in SUBSET Nat
    BY Threads
  <2> QED BY <2>1, NatLessThanWellFounded, WFMin
<1>2. k \in Nat /\ k <= N /\ k # 0
  BY Threads DEF Partial, Adds
<1>3. k - 1 \in DThreads /\ k - 1 \in 0 .. N /\ (k - 1) + 1 = k
  BY <1>2, Threads
<1>4. k - 1 \notin D
  <2>1. <<k - 1, k>> \in Nat \X Nat /\ <<k - 1, k>>[1] < <<k - 1, k>>[2]
    BY <1>2, <1>3
  <2> QED BY <1>1, <2>1 DEF OpToRel
<1>5. g[k] = g[k - 1] + a[k - 1] /\ h[k] = h[k - 1] + b[k - 1]
  BY <1>3 DEF Partial, Adds
<1> QED BY <1>3, <1>4, <1>5

(* The sum of equal terms, and of terms that meet end to end.              *)
LEMMA SumOfRounds == Partial([k \in 0 .. N |-> k * PerThread], [t \in DThreads |-> PerThread])
<1>1. \A k \in 0 .. N : k \in Nat /\ k * PerThread \in Nat
  BY Threads, TimesStep
<1>2. \A t \in DThreads : t \in Nat /\ t \in 0 .. N /\ t + 1 \in 0 .. N
  BY Threads
<1> QED BY <1>1, <1>2, Threads, TimesStep DEF Partial, Adds

LEMMA SumOfSlices ==
    Partial([k \in 0 .. N |-> Tri(k * PerThread)],
            [t \in DThreads |-> Tri(t * PerThread + PerThread) - Tri(t * PerThread)])
<1>1. \A k \in 0 .. N : k \in Nat /\ k * PerThread \in Nat /\ Tri(k * PerThread) \in Int
  BY Threads, TimesStep, Triangle
<1>2. \A t \in DThreads : t \in Nat /\ t \in 0 .. N /\ t + 1 \in 0 .. N
                          /\ (t + 1) * PerThread = t * PerThread + PerThread
  BY Threads, TimesStep
<1>3. Tri(0 * PerThread) = 0
  BY Threads, TimesStep DEF Tri
<1>4. ASSUME NEW t \in DThreads
      PROVE  Tri((t + 1) * PerThread)
               = Tri(t * PerThread) + (Tri(t * PerThread + PerThread) - Tri(t * PerThread))
  BY <1>1, <1>2
<1>5. 0 \in 0 .. N
  BY Threads
<1> QED BY <1>1, <1>2, <1>3, <1>4, <1>5 DEF Partial, Adds

----------------------------------------------------------------------------
(* The first state, and what a program counter tells                       *)

LEMMA DInvInit == DInit => DInv
<1> SUFFICES ASSUME DInit PROVE DInv
  OBVIOUS
<1> USE DEF DInit, Fresh
<1>1. \A t \in DThreads : dt[t].pc = "none" /\ dt[t].i = 0 /\ dt[t].reg = 0
  OBVIOUS
<1>2. DTypes
  BY Threads DEF DTypes, DRecord
<1>3. Created
  BY <1>1, Threads DEF Created
<1>4. Numbered /\ Rounds
  BY <1>1 DEF Numbered, NumberOf, Rounds, RoundOf, Started, Steps
<1>5. \A t \in DThreads : Did(t) = 0
  BY <1>1 DEF Did, Started
<1>6. OwnSums
  BY <1>1, <1>5 DEF OwnSums, OwnSum
<1>7. \A a : (\A t \in DThreads : a[t] = 0) => Partial([k \in 0 .. N |-> 0], a)
  BY Threads DEF Partial, Adds
<1>8. Racing
  BY <1>1, <1>7, Threads DEF Racing
<1>9. Locking
  BY <1>1, <1>5, <1>7, Threads DEF Locking, Locked
<1> QED BY <1>2, <1>3, <1>4, <1>6, <1>8, <1>9 DEF DInv

(* Which programs have which lines.                                        *)
LEMMA Lines ==
    ASSUME DInv, NEW t \in DThreads
    PROVE  /\ dt[t].pc \in {"P", "V"} => demo = "psum-mutex"
           /\ dt[t].pc \in {"load", "store"} => demo \in {"badcnt", "psum-mutex", "psum-array", "sharing"}
           /\ dt[t].pc \in {"add", "put"} => demo = "psum-local"
           /\ dt[t].pc = "print" => ~ Loops
           /\ dt[t].pc \in Steps => Started(t) /\ dt[t].pc \in BodyPC
BY DEF DInv, Created, BodyPC, Loops, Sums, Steps, Started

(* A thread that runs was created before main joined it.                   *)
LEMMA Running ==
    ASSUME DInv, NEW t \in DThreads, dt[t].pc \in Steps \cup {"start"}
    PROVE  /\ ~ (dm = "create" /\ t >= di) /\ ~ (dm = "join" /\ t < di)
           /\ dm = "end" => demo = "sharing"
BY DEF DInv, Created, Steps

(* The record of a thread.                                                 *)
LEMMA Fields ==
    ASSUME DInv, NEW t \in DThreads
    PROVE  /\ dt \in [DThreads -> DRecord] /\ dt[t] \in DRecord
           /\ dt[t].i \in Nat /\ dt[t].reg \in Nat /\ Did(t) \in Int
           /\ First(t) \in Nat /\ Upto(t) \in Nat
<1>1. dt \in [DThreads -> DRecord] /\ dt[t] \in DRecord /\ dt[t].i \in Nat /\ dt[t].reg \in Nat
  BY DEF DInv, DTypes, DRecord
<1>2. First(t) \in Nat /\ Upto(t) \in Nat
  BY Threads, TimesStep DEF First, Upto
<1>3. Did(t) \in Int
  BY <1>1, <1>2, Triangle DEF Did
<1> QED BY <1>1, <1>2, <1>3

(* A step that leaves what is counted as it was.                           *)
LEMMA Uncounted ==
    ASSUME DInv, demo' = demo, shared' = shared,
           \A t \in DThreads : /\ demo = "badcnt" => dt'[t].i = dt[t].i
                               /\ Did(t)' = Did(t)
                               /\ dt'[t].pc = "store" =>
                                    \/ dt[t].pc = "store" /\ dt'[t].reg = dt[t].reg
                                    \/ dt[t].pc = "load" /\ dt'[t].reg = shared
    PROVE  /\ Racing'
           /\ demo = "psum-mutex" =>
                /\ \A t \in DThreads : dt'[t].pc = "store" => dt'[t].reg = shared
                /\ \E g : Partial(g, [t \in DThreads |-> Did(t)'])  /\ shared = g[N]
<1>1. ASSUME demo = "badcnt" PROVE Racing'
  <2>1. [t \in DThreads |-> dt'[t].i] = [t \in DThreads |-> dt[t].i]
    BY <1>1
  <2> QED BY <1>1, <2>1 DEF DInv, Racing
<1>2. ASSUME demo = "psum-mutex"
      PROVE  /\ \A t \in DThreads : dt'[t].pc = "store" => dt'[t].reg = shared
             /\ \E g : Partial(g, [t \in DThreads |-> Did(t)'])  /\ shared = g[N]
  <2>1. [t \in DThreads |-> Did(t)'] = [t \in DThreads |-> Did(t)]
    OBVIOUS
  <2> QED BY <1>2, <2>1 DEF DInv, Locking
<1> QED BY <1>1, <1>2 DEF Racing

----------------------------------------------------------------------------
(* Main                                                                    *)

LEMMA CreateKeeps == ASSUME DInv, DCreate PROVE DInv'
<1>1. di \in DThreads /\ dt[di].pc = "none"
  BY Threads DEF DCreate, DInv, DTypes, Created
<1>2. /\ dt' = [dt EXCEPT ![di].pc = "start"] /\ arg' = [arg EXCEPT ![di] = di] /\ di' = di + 1
      /\ demo' = demo /\ dm' = dm /\ shared' = shared /\ psum' = psum /\ mutex' = mutex
      /\ dm = "create" /\ di < N
  BY DEF DCreate
<1>3. dt \in [DThreads -> DRecord]
  BY DEF DInv, DTypes
<1>4. \A t \in DThreads : /\ t # di => dt'[t] = dt[t]
                          /\ t = di => dt'[t].pc = "start"
                          /\ dt'[t].myid = dt[t].myid /\ dt'[t].i = dt[t].i /\ dt'[t].reg = dt[t].reg
                          /\ dt'[t].out = dt[t].out
  BY <1>1, <1>2, <1>3 DEF DRecord
<1>5. \A t \in DThreads : Started(t)' = Started(t) /\ Did(t)' = Did(t)
  BY <1>1, <1>2, <1>4 DEF Started, Did, First
<1>6. DTypes'
  <2>1. dt' \in [DThreads -> DRecord]
    BY <1>1, <1>2, <1>3 DEF DRecord
  <2>2. arg' \in [DThreads -> {-1} \cup (0 .. N)] /\ di' \in 0 .. N
    BY <1>1, <1>2, Threads DEF DInv, DTypes
  <2> QED BY <1>2, <2>1, <2>2 DEF DInv, DTypes
<1>7. Created'
  BY <1>1, <1>2, <1>4, Threads DEF DInv, DTypes, Created, BodyPC
<1>8. Numbered'
  <2>1. arg'[di] = di /\ \A t \in DThreads \ {di} : arg'[t] = arg[t]
    BY <1>1, <1>2 DEF DInv, DTypes
  <2>2. ~ Started(di)
    BY <1>1 DEF Started
  <2> QED BY <1>1, <1>2, <1>4, <1>5, <2>1, <2>2 DEF DInv, Numbered, NumberOf
<1>9. Rounds'
  BY <1>1, <1>2, <1>4, <1>5 DEF DInv, Rounds, RoundOf, Loops, First, Upto, Steps
<1>10. Racing' /\ Locking'
  <2>1. \A t \in DThreads : dt'[t].pc \in Locked => dt'[t] = dt[t]
    BY <1>4 DEF Locked
  <2>2. \A t \in DThreads : dt'[t].pc = "store" => dt[t].pc = "store" /\ dt'[t].reg = dt[t].reg
    BY <1>4
  <2> QED BY <1>2, <1>4, <1>5, <2>1, <2>2, Uncounted DEF DInv, Locking
<1>11. OwnSums'
  BY <1>1, <1>2, <1>4, <1>5 DEF DInv, OwnSums, OwnSum
<1> QED BY <1>6, <1>7, <1>8, <1>9, <1>10, <1>11 DEF DInv

LEMMA JoinKeeps == ASSUME DInv, DJoin PROVE DInv'
<1>1. /\ demo' = demo /\ dt' = dt /\ shared' = shared /\ psum' = psum /\ mutex' = mutex /\ arg' = arg
  BY DEF DJoin
<1>2. \A t \in DThreads : Started(t)' = Started(t) /\ Did(t)' = Did(t)
  BY <1>1 DEF Started, Did, First
<1>3. DTypes'
  BY <1>1, Threads DEF DJoin, DInv, DTypes
<1>4. Created'
  <2>1. BodyPC' = BodyPC
    BY <1>1 DEF BodyPC
  <2> QED BY <1>1, <2>1, Threads DEF DJoin, DInv, DTypes, Created
<1>5. Numbered' /\ Rounds'
  BY <1>1, <1>2 DEF DInv, Numbered, NumberOf, Rounds, RoundOf, Loops, First, Upto
<1>6. Racing' /\ Locking'
  BY <1>1, <1>2, Uncounted DEF DInv, Locking
<1>7. OwnSums'
  BY <1>1, <1>2 DEF DInv, OwnSums, OwnSum
<1> QED BY <1>3, <1>4, <1>5, <1>6, <1>7 DEF DInv

----------------------------------------------------------------------------
(* A thread                                                                *)

(* What most lines of thread t leave alone.                                *)
Alone(t) == /\ demo' = demo /\ dm' = dm /\ di' = di
            /\ dt' \in [DThreads -> DRecord]
            /\ \A u \in DThreads \ {t} : dt'[u] = dt[u]

LEMMA OthersKeep ==
    ASSUME DInv, NEW t \in DThreads, Alone(t)
    PROVE  /\ \A u \in DThreads \ {t} : Started(u)' = Started(u) /\ Did(u)' = Did(u)
           /\ \A u \in DThreads : First(u)' = First(u) /\ Upto(u)' = Upto(u)
           /\ BodyPC' = BodyPC /\ Loops' = Loops
BY DEF Alone, Started, Did, First, Upto, BodyPC, Loops

(* A thread that runs goes on running, in a line of its program, or ends.  *)
LEMMA KeepsCreated ==
    ASSUME DInv, NEW t \in DThreads, Alone(t), dt[t].pc \in Steps \cup {"start"},
           dt'[t].pc \in {"done"} \cup BodyPC
    PROVE  Created'
<1>1. dt'[t].pc # "none"
  BY DEF BodyPC
<1>2. ~ (dm = "create" /\ t >= di) /\ ~ (dm = "join" /\ t < di) /\ (dm = "end" => demo = "sharing")
  BY Running
<1> QED BY <1>1, <1>2, OthersKeep DEF DInv, Created, Alone

(* What holds of each thread has only to be checked of the one that moves. *)
LEMMA KeepsRounds ==
    ASSUME DInv, NEW t \in DThreads, Alone(t), RoundOf(t)'
    PROVE  Rounds'
<1>1. ASSUME NEW u \in DThreads \ {t} PROVE RoundOf(u)'
  <2>1. /\ First(u)' = First(u) /\ Upto(u)' = Upto(u) /\ Started(u)' = Started(u)
        /\ dt'[u] = dt[u] /\ Loops' = Loops
    BY OthersKeep DEF Alone
  <2>2. RoundOf(u)
    BY DEF DInv, Rounds
  <2> QED BY <2>1, <2>2 DEF RoundOf
<1> QED BY <1>1 DEF Rounds

LEMMA KeepsNumbered ==
    ASSUME DInv, NEW t \in DThreads, Alone(t), \A u \in DThreads \ {t} : arg'[u] = arg[u], NumberOf(t)'
    PROVE  Numbered'
<1>1. ASSUME NEW u \in DThreads \ {t} PROVE NumberOf(u)'
  <2>1. Started(u)' = Started(u) /\ dt'[u] = dt[u] /\ arg'[u] = arg[u] /\ demo' = demo
    BY OthersKeep DEF Alone
  <2>2. NumberOf(u)
    BY DEF DInv, Numbered
  <2> QED BY <2>1, <2>2 DEF NumberOf
<1> QED BY <1>1 DEF Numbered

LEMMA KeepsOwnSums ==
    ASSUME DInv, NEW t \in DThreads, Alone(t), \A u \in DThreads \ {t} : psum'[u] = psum[u], OwnSum(t)'
    PROVE  OwnSums'
<1>1. ASSUME NEW u \in DThreads \ {t} PROVE OwnSum(u)'
  <2>1. Did(u)' = Did(u) /\ dt'[u] = dt[u] /\ psum'[u] = psum[u] /\ demo' = demo
    BY OthersKeep DEF Alone
  <2>2. OwnSum(u)
    BY DEF DInv, OwnSums
  <2> QED BY <2>1, <2>2 DEF OwnSum
<1> QED BY <1>1 DEF OwnSums

LEMMA BeginKeeps == ASSUME DInv, NEW t \in DThreads, thread_begins(t) PROVE DInv'
<1> DEFINE first == IF demo \in Sums THEN vargp(t) * PerThread ELSE 0
<1>1. /\ dt[t].pc = "start" /\ demo' = demo /\ dm' = dm /\ di' = di
      /\ shared' = shared /\ psum' = psum /\ mutex' = mutex
      /\ dt' = [dt EXCEPT ![t].pc = Body, ![t].myid = vargp(t), ![t].i = first]
      /\ arg' = IF demo = "norace" THEN [arg EXCEPT ![t] = -1] ELSE arg
  BY DEF thread_begins
<1>2. dt \in [DThreads -> DRecord] /\ dt[t].i = 0 /\ dt[t].reg = 0 /\ ~ Started(t)
  BY <1>1 DEF DInv, DTypes, Rounds, RoundOf, Started
<1>3. vargp(t) \in {-1} \cup (0 .. N) /\ (demo # "race" => vargp(t) = t)
  BY <1>1, Threads DEF DInv, DTypes, Numbered, NumberOf, vargp
<1>4. first = First(t) /\ first \in Nat
  BY <1>3, Threads, TimesStep DEF First, Sums
<1>5. Body \in BodyPC /\ Body \in Steps \ {"store", "V", "put"} /\ (demo = "psum-mutex" => Body = "P")
  BY DEF Body, BodyPC, Steps
<1>6. /\ dt' \in [DThreads -> DRecord] /\ \A u \in DThreads \ {t} : dt'[u] = dt[u]
      /\ dt'[t].pc = Body /\ dt'[t].myid = vargp(t) /\ dt'[t].i = first /\ dt'[t].reg = 0
      /\ dt'[t].out = dt[t].out
  <2> HIDE DEF first
  <2> QED BY <1>1, <1>2, <1>3, <1>4, <1>5 DEF DRecord
<1>7. Alone(t) /\ Started(t)'
  BY <1>1, <1>5, <1>6 DEF Alone, Started, Steps
<1>8. \A u \in DThreads : Did(u)' = Did(u)
  <2>1. First(t)' = First(t) /\ \A u \in DThreads \ {t} : Did(u)' = Did(u)
    BY <1>7, OthersKeep
  <2>2. Did(t)' = Tri(First(t)) - Tri(First(t))
    <3> HIDE DEF first
    <3> QED BY <1>4, <1>5, <1>6, <1>7, <2>1 DEF Did
  <2>3. Did(t)' = 0 /\ Did(t) = 0
    BY <1>2, <1>4, <2>2, Triangle DEF Did
  <2> QED BY <2>1, <2>3
<1>9. DTypes'
  BY <1>1, <1>6 DEF DInv, DTypes
<1>10. Created'
  BY <1>1, <1>5, <1>6, <1>7, KeepsCreated
<1>11. Numbered'
  <2>1. \A u \in DThreads \ {t} : arg'[u] = arg[u]
    BY <1>1 DEF DInv, DTypes
  <2>2. demo = "norace" => arg'[t] = -1
    BY <1>1 DEF DInv, DTypes
  <2>3. dt'[t].pc \notin {"start", "done"}
    BY <1>5, <1>6 DEF Steps
  <2>4. NumberOf(t)'
    BY <1>1, <1>3, <1>6, <2>2, <2>3 DEF NumberOf
  <2> QED BY <1>7, <2>1, <2>4, KeepsNumbered
<1>12. Rounds'
  <2>1. First(t) < Upto(t) /\ First(t) \in Nat /\ Upto(t) \in Nat
    BY <1>4, Threads DEF Upto
  <2>2. First(t)' = First(t) /\ Upto(t)' = Upto(t) /\ dt'[t].i = First(t)
    BY <1>4, <1>6, <1>7, OthersKeep
  <2>3. dt'[t].pc \notin {"put", "done"}
    BY <1>5, <1>6 DEF Steps
  <2>4. RoundOf(t)'
    BY <1>4, <1>7, <2>1, <2>2, <2>3 DEF RoundOf
  <2> QED BY <1>7, <2>4, KeepsRounds
<1>13. Racing' /\ Locking'
  <2>1. demo = "badcnt" => \A u \in DThreads : dt'[u].i = dt[u].i
    BY <1>2, <1>6 DEF Sums
  <2>2. \A u \in DThreads : dt'[u].pc = "store" => dt[u].pc = "store" /\ dt'[u].reg = dt[u].reg
    BY <1>5, <1>6
  <2>3. demo = "psum-mutex" => \A u \in DThreads : dt'[u].pc \in Locked => dt[u].pc \in Locked
    BY <1>5, <1>6 DEF Locked
  <2>4. Racing' /\ (demo = "psum-mutex" =>
                /\ \A u \in DThreads : dt'[u].pc = "store" => dt'[u].reg = shared
                /\ \E g : Partial(g, [u \in DThreads |-> Did(u)'])  /\ shared = g[N])
    BY <1>1, <1>8, <2>1, <2>2, Uncounted
  <2> QED BY <1>1, <2>3, <2>4 DEF DInv, Locking
<1>14. OwnSums'
  <2>1. Did(t)' = Did(t) /\ Did(t) = 0
    BY <1>2, <1>8 DEF Did
  <2>2. demo = "psum-array" => psum[t] = Did(t)
    BY DEF DInv, OwnSums, OwnSum
  <2>3. dt'[t].pc # "store" /\ dt'[t].pc # "done"
    BY <1>5, <1>6 DEF Steps
  <2>4. OwnSum(t)'
    BY <1>1, <1>6, <2>1, <2>2, <2>3 DEF OwnSum
  <2> QED BY <1>1, <1>7, <2>4, KeepsOwnSums
<1> QED BY <1>9, <1>10, <1>11, <1>12, <1>13, <1>14 DEF DInv

LEMMA LockKeeps == ASSUME DInv, NEW t \in DThreads, lock(t) PROVE DInv'
<1>1. /\ dt[t].pc = "P" /\ mutex > 0 /\ mutex' = mutex - 1 /\ dt' = [dt EXCEPT ![t].pc = "load"]
      /\ UNCHANGED <<demo, dm, di, shared, psum, arg>>
  BY DEF lock, Move
<1>2. demo = "psum-mutex" /\ Started(t) /\ mutex = 1 /\ mutex' = 0 /\ Loops
  BY <1>1, Lines DEF DInv, DTypes, Loops, Sums, Started
<1>3. dt \in [DThreads -> DRecord]
  BY Fields
<1>4. /\ dt' \in [DThreads -> DRecord] /\ \A u \in DThreads \ {t} : dt'[u] = dt[u]
      /\ dt'[t].pc = "load" /\ dt'[t].myid = dt[t].myid /\ dt'[t].i = dt[t].i
  BY <1>1, <1>3 DEF DRecord, Steps
<1>5. Alone(t) /\ Started(t)'
  BY <1>1, <1>4 DEF Alone, Started
<1>6. First(t)' = First(t) /\ Upto(t)' = Upto(t) /\ \A u \in DThreads : Did(u)' = Did(u)
  <2>1. First(t)' = First(t) /\ Upto(t)' = Upto(t) /\ \A u \in DThreads \ {t} : Did(u)' = Did(u)
    BY <1>5, OthersKeep
  <2> QED BY <1>1, <1>2, <1>4, <1>5, <2>1 DEF Did
<1>7. DTypes'
  BY <1>1, <1>2, <1>4 DEF DInv, DTypes
<1>8. Created'
  BY <1>1, <1>2, <1>4, <1>5, KeepsCreated DEF Steps, BodyPC
<1>9. Numbered'
  <2>1. NumberOf(t) /\ demo' = demo
    BY <1>1 DEF DInv, Numbered
  <2>2. NumberOf(t)'
    BY <1>2, <1>4, <1>5, <2>1 DEF NumberOf
  <2> QED BY <1>1, <1>5, <2>2, KeepsNumbered
<1>10. Rounds'
  <2>1. RoundOf(t)
    BY DEF DInv, Rounds
  <2>2. RoundOf(t)'
    BY <1>1, <1>2, <1>4, <1>5, <1>6, <2>1 DEF RoundOf, Steps
  <2> QED BY <1>5, <2>2, KeepsRounds
<1>11. Racing' /\ Locking'
  <2>1. \A u \in DThreads : dt'[u].pc = "store" => dt[u].pc = "store" /\ dt'[u].reg = dt[u].reg
    BY <1>4
  <2>2. /\ \A u \in DThreads : dt'[u].pc = "store" => dt'[u].reg = shared
        /\ \E g : Partial(g, [u \in DThreads |-> Did(u)'])  /\ shared = g[N]
    BY <1>1, <1>2, <1>6, <2>1, Uncounted
  <2>3. \A u \in DThreads : dt'[u].pc \in Locked => u = t
    BY <1>2, <1>4 DEF DInv, Locking
  <2> QED BY <1>1, <1>2, <2>2, <2>3 DEF Racing, Locking
<1>12. OwnSums'
  BY <1>1, <1>2 DEF OwnSums, OwnSum
<1> QED BY <1>7, <1>8, <1>9, <1>10, <1>11, <1>12 DEF DInv

LEMMA LoadKeeps == ASSUME DInv, NEW t \in DThreads, load(t) PROVE DInv'
<1> DEFINE r == IF demo = "psum-array" THEN psum[dt[t].myid] ELSE shared
<1>1. /\ dt[t].pc = "load" /\ dt' = [dt EXCEPT ![t].pc = "store", ![t].reg = r]
      /\ UNCHANGED <<demo, dm, di, shared, psum, mutex, arg>>
  BY DEF load
<1>2. /\ demo \in {"badcnt", "psum-mutex", "psum-array", "sharing"} /\ Started(t)
      /\ dt[t].myid = t
  BY <1>1, Lines DEF DInv, Numbered, NumberOf, Started
<1>3. dt \in [DThreads -> DRecord] /\ r \in Nat
  BY <1>2, Fields DEF DInv, DTypes
<1>4. /\ dt' \in [DThreads -> DRecord] /\ \A u \in DThreads \ {t} : dt'[u] = dt[u]
      /\ dt'[t].pc = "store" /\ dt'[t].myid = dt[t].myid /\ dt'[t].i = dt[t].i /\ dt'[t].reg = r
  <2> HIDE DEF r
  <2> QED BY <1>1, <1>3 DEF DRecord, Steps
<1>5. Alone(t) /\ Started(t)'
  BY <1>1, <1>4 DEF Alone, Started
<1>6. First(t)' = First(t) /\ Upto(t)' = Upto(t) /\ \A u \in DThreads : Did(u)' = Did(u)
  <2>1. First(t)' = First(t) /\ Upto(t)' = Upto(t) /\ \A u \in DThreads \ {t} : Did(u)' = Did(u)
    BY <1>5, OthersKeep
  <2> QED BY <1>1, <1>2, <1>4, <1>5, <2>1 DEF Did
<1>7. DTypes'
  BY <1>1, <1>4 DEF DInv, DTypes
<1>8. Created'
  <2>1. dt'[t].pc \in BodyPC /\ dt[t].pc \in Steps
    BY <1>1, <1>2, <1>4 DEF Steps, BodyPC
  <2> QED BY <1>5, <2>1, KeepsCreated
<1>9. Numbered'
  <2>1. NumberOf(t) /\ demo' = demo
    BY <1>1 DEF DInv, Numbered
  <2>2. NumberOf(t)'
    BY <1>2, <1>4, <1>5, <2>1 DEF NumberOf
  <2> QED BY <1>1, <1>5, <2>2, KeepsNumbered
<1>10. Rounds'
  <2>1. RoundOf(t) /\ Loops' = Loops
    BY <1>5, OthersKeep DEF DInv, Rounds
  <2>2. RoundOf(t)'
    BY <1>1, <1>2, <1>4, <1>5, <1>6, <2>1 DEF RoundOf, Steps
  <2> QED BY <1>5, <2>2, KeepsRounds
<1>11. Racing' /\ Locking'
  <2>1. ASSUME demo \in {"badcnt", "psum-mutex"}
        PROVE  \A u \in DThreads : dt'[u].pc = "store" =>
                    \/ dt[u].pc = "store" /\ dt'[u].reg = dt[u].reg
                    \/ dt[u].pc = "load" /\ dt'[u].reg = shared
    BY <1>1, <1>4, <2>1
  <2>2. \A u \in DThreads : dt'[u].i = dt[u].i /\ (dt'[u].pc \in Locked => dt[u].pc \in Locked)
    BY <1>1, <1>4 DEF Locked
  <2>3. demo = "badcnt" => Racing'
    BY <1>1, <1>6, <2>1, <2>2, Uncounted
  <2>4. demo = "psum-mutex" =>
            /\ \A u \in DThreads : dt'[u].pc = "store" => dt'[u].reg = shared
            /\ \E g : Partial(g, [u \in DThreads |-> Did(u)'])  /\ shared = g[N]
    BY <1>1, <1>6, <2>1, <2>2, Uncounted
  <2> QED BY <1>1, <2>2, <2>3, <2>4 DEF DInv, Racing, Locking
<1>12. OwnSums'
  <2>1. OwnSum(t) /\ Did(t)' = Did(t)
    BY <1>6 DEF DInv, OwnSums
  <2>2. OwnSum(t)'
    BY <1>1, <1>2, <1>4, <2>1 DEF OwnSum
  <2> QED BY <1>1, <1>5, <2>2, KeepsOwnSums
<1> QED BY <1>7, <1>8, <1>9, <1>10, <1>11, <1>12 DEF DInv

LEMMA PrintKeeps == ASSUME DInv, NEW t \in DThreads, print(t) PROVE DInv'
<1>1. /\ dt[t].pc = "print" /\ dt' = [dt EXCEPT ![t].pc = "done", ![t].out = dt[t].myid]
      /\ UNCHANGED <<demo, dm, di, shared, psum, mutex, arg>>
  BY DEF print
<1>2. Started(t) /\ ~ Loops
  BY <1>1, Lines DEF Started
<1>3. dt \in [DThreads -> DRecord]
  BY Fields
<1>4. /\ dt' \in [DThreads -> DRecord] /\ \A u \in DThreads \ {t} : dt'[u] = dt[u]
      /\ dt'[t].pc = "done" /\ dt'[t].myid = dt[t].myid /\ dt'[t].out = dt[t].myid
  BY <1>1, <1>3 DEF DRecord, Steps
<1>5. Alone(t) /\ Started(t)' /\ ~ Loops'
  BY <1>1, <1>2, <1>4 DEF Alone, Started, Loops
<1>6. DTypes'
  BY <1>1, <1>4 DEF DInv, DTypes
<1>7. Created'
  BY <1>1, <1>4, <1>5, KeepsCreated DEF Steps
<1>8. Numbered'
  <2>1. NumberOf(t) /\ demo' = demo
    BY <1>1 DEF DInv, Numbered
  <2>2. NumberOf(t)'
    BY <1>1, <1>2, <1>4, <1>5, <2>1 DEF NumberOf
  <2> QED BY <1>1, <1>5, <2>2, KeepsNumbered
<1>9. Rounds'
  <2>1. RoundOf(t)'
    BY <1>5 DEF RoundOf
  <2> QED BY <1>5, <2>1, KeepsRounds
<1>10. Racing' /\ Locking' /\ OwnSums'
  BY <1>5 DEF Racing, Locking, OwnSums, OwnSum, Loops, Sums
<1> QED BY <1>6, <1>7, <1>8, <1>9, <1>10 DEF DInv

(* The steps of psum-local.c, on the thread's own data.                    *)
LEMMA AddKeeps == ASSUME DInv, NEW t \in DThreads, sum_local(t) PROVE DInv'
<1> DEFINE r == dt[t].reg + dt[t].i
           pc == IF dt[t].i + 1 = (t + 1) * PerThread THEN "put" ELSE "add"
<1>1. /\ dt[t].pc = "add" /\ UNCHANGED <<demo, dm, di, shared, psum, mutex, arg>>
      /\ dt' = [dt EXCEPT ![t].reg = Added(t), ![t].i = @ + 1,
                          ![t].pc = IF LastRound(t) THEN "put" ELSE "add"]
  BY DEF sum_local
<1>2. demo = "psum-local" /\ Started(t) /\ dt[t].myid = t /\ Loops
  BY <1>1, Lines DEF DInv, Numbered, NumberOf, Started, Loops, Sums
<1>3. Added(t) = r /\ (LastRound(t) <=> pc = "put") /\ pc \in {"put", "add"}
  BY <1>2 DEF Added, LastRound, Sums
<1>4. dt \in [DThreads -> DRecord] /\ r \in Nat /\ dt[t].i + 1 \in Nat
  BY Fields
<1>5. /\ dt' \in [DThreads -> DRecord] /\ \A u \in DThreads \ {t} : dt'[u] = dt[u]
      /\ dt'[t].pc = pc /\ dt'[t].myid = dt[t].myid /\ dt'[t].i = dt[t].i + 1 /\ dt'[t].reg = r
  <2> HIDE DEF r, pc
  <2> QED BY <1>1, <1>3, <1>4 DEF DRecord, Steps
<1>6. Alone(t) /\ Started(t)' /\ Loops'
  BY <1>1, <1>2, <1>3, <1>5 DEF Alone, Started, Loops
<1>7. First(t)' = First(t) /\ Upto(t)' = Upto(t) /\ Upto(t) = (t + 1) * PerThread
      /\ First(t) \in Nat /\ Upto(t) \in Nat
  <2>1. First(t)' = First(t) /\ Upto(t)' = Upto(t) /\ First(t) \in Nat /\ Upto(t) \in Nat
    BY <1>6, OthersKeep, Fields
  <2> QED BY <1>2, <2>1, Threads, TimesStep DEF First, Upto, Sums
<1>8. Did(t)' = Did(t) + dt[t].i
  <2>1. Did(t)' = Tri(dt[t].i + 1) - Tri(First(t)) /\ Did(t) = Tri(dt[t].i) - Tri(First(t))
    BY <1>1, <1>2, <1>3, <1>5, <1>6, <1>7 DEF Did
  <2> QED BY <1>7, <2>1, Fields, Triangle
<1>9. DTypes'
  BY <1>1, <1>5 DEF DInv, DTypes
<1>10. Created'
  BY <1>1, <1>2, <1>3, <1>5, <1>6, KeepsCreated DEF Steps, BodyPC
<1>11. Numbered'
  <2>1. NumberOf(t) /\ demo' = demo
    BY <1>1 DEF DInv, Numbered
  <2>2. NumberOf(t)'
    BY <1>2, <1>3, <1>5, <1>6, <2>1 DEF NumberOf
  <2> QED BY <1>1, <1>6, <2>2, KeepsNumbered
<1>12. Rounds'
  <2>1. RoundOf(t) /\ dt[t].i \in Nat
    BY Fields DEF DInv, Rounds
  <2>2. First(t) <= dt[t].i /\ dt[t].i < Upto(t)
    BY <1>1, <1>2, <2>1 DEF RoundOf, Steps
  <2>3. IF dt[t].i + 1 = Upto(t) THEN dt'[t].pc = "put" ELSE dt'[t].pc = "add"
    BY <1>5, <1>7
  <2>4. RoundOf(t)'
    BY <1>5, <1>6, <1>7, <2>1, <2>2, <2>3 DEF RoundOf, Steps
  <2> QED BY <1>6, <2>4, KeepsRounds
<1>13. Racing' /\ Locking'
  BY <1>1, <1>2 DEF Racing, Locking
<1>14. OwnSums'
  <2>1. dt[t].reg = Did(t)
    BY <1>1, <1>2 DEF DInv, OwnSums, OwnSum
  <2>2. OwnSum(t)'
    BY <1>1, <1>2, <1>3, <1>5, <1>8, <2>1 DEF OwnSum
  <2> QED BY <1>1, <1>6, <2>2, KeepsOwnSums
<1> QED BY <1>9, <1>10, <1>11, <1>12, <1>13, <1>14 DEF DInv

LEMMA PutKeeps == ASSUME DInv, NEW t \in DThreads, put_local(t) PROVE DInv'
<1>1. /\ dt[t].pc = "put" /\ UNCHANGED <<demo, dm, di, shared, mutex, arg>>
      /\ dt' = [dt EXCEPT ![t].pc = "done"] /\ psum' = [psum EXCEPT ![dt[t].myid] = dt[t].reg]
  BY DEF put_local, Move
<1>2. demo = "psum-local" /\ Started(t) /\ dt[t].myid = t
  BY <1>1, Lines DEF DInv, Numbered, NumberOf, Started
<1>3. dt \in [DThreads -> DRecord] /\ psum \in [DThreads -> Nat] /\ dt[t].reg \in Nat
  BY Fields DEF DInv, DTypes
<1>4. /\ dt' \in [DThreads -> DRecord] /\ \A u \in DThreads \ {t} : dt'[u] = dt[u]
      /\ dt'[t].pc = "done" /\ dt'[t].myid = dt[t].myid /\ dt'[t].i = dt[t].i
      /\ psum' \in [DThreads -> Nat] /\ psum'[t] = dt[t].reg
      /\ \A u \in DThreads \ {t} : psum'[u] = psum[u]
  BY <1>1, <1>2, <1>3 DEF DRecord
<1>5. Alone(t) /\ Started(t)'
  BY <1>1, <1>4 DEF Alone, Started
<1>6. First(t)' = First(t) /\ Upto(t)' = Upto(t) /\ Did(t)' = Did(t)
  <2>1. First(t)' = First(t) /\ Upto(t)' = Upto(t)
    BY <1>5, OthersKeep
  <2> QED BY <1>1, <1>2, <1>4, <1>5, <2>1 DEF Did
<1>7. DTypes'
  BY <1>1, <1>4 DEF DInv, DTypes
<1>8. Created'
  BY <1>1, <1>4, <1>5, KeepsCreated DEF Steps
<1>9. Numbered'
  <2>1. NumberOf(t) /\ demo' = demo
    BY <1>1 DEF DInv, Numbered
  <2>2. NumberOf(t)'
    BY <1>2, <1>4, <1>5, <2>1 DEF NumberOf
  <2> QED BY <1>1, <1>5, <2>2, KeepsNumbered
<1>10. Rounds'
  <2>1. RoundOf(t) /\ Loops' = Loops
    BY <1>5, OthersKeep DEF DInv, Rounds
  <2>2. RoundOf(t)'
    BY <1>1, <1>2, <1>4, <1>5, <1>6, <2>1 DEF RoundOf, Steps
  <2> QED BY <1>5, <2>2, KeepsRounds
<1>11. Racing' /\ Locking'
  BY <1>1, <1>2 DEF Racing, Locking
<1>12. OwnSums'
  <2>1. dt[t].reg = Did(t)
    BY <1>1, <1>2 DEF DInv, OwnSums, OwnSum
  <2>2. OwnSum(t)'
    BY <1>1, <1>2, <1>4, <1>6, <2>1 DEF OwnSum
  <2> QED BY <1>4, <1>5, <2>2, KeepsOwnSums
<1> QED BY <1>7, <1>8, <1>9, <1>10, <1>11, <1>12 DEF DInv

LEMMA UnlockKeeps == ASSUME DInv, NEW t \in DThreads, unlock(t) PROVE DInv'
<1> DEFINE pc == IF dt[t].i + 1 = (t + 1) * PerThread THEN "done" ELSE "P"
<1>1. /\ dt[t].pc = "V" /\ mutex' = mutex + 1 /\ UNCHANGED <<demo, dm, di, shared, psum, arg>>
      /\ dt' = [dt EXCEPT ![t].pc = Again(t), ![t].i = @ + 1]
  BY DEF unlock
<1>2. demo = "psum-mutex" /\ Started(t) /\ dt[t].myid = t /\ Loops
  BY <1>1, Lines DEF DInv, Numbered, NumberOf, Started, Loops, Sums
<1>3. Again(t) = pc /\ pc \in {"done", "P"}
  BY <1>2 DEF Again, LastRound, Sums, Body
<1>4. dt \in [DThreads -> DRecord] /\ dt[t].i + 1 \in Nat
  BY Fields
<1>5. /\ dt' \in [DThreads -> DRecord] /\ \A u \in DThreads \ {t} : dt'[u] = dt[u]
      /\ dt'[t].pc = pc /\ dt'[t].myid = dt[t].myid /\ dt'[t].i = dt[t].i + 1
  <2> HIDE DEF pc
  <2> QED BY <1>1, <1>3, <1>4 DEF DRecord, Steps
<1>6. Alone(t) /\ Started(t)' /\ Loops'
  BY <1>1, <1>2, <1>3, <1>5 DEF Alone, Started, Loops
<1>7. First(t)' = First(t) /\ Upto(t)' = Upto(t) /\ Upto(t) = (t + 1) * PerThread
      /\ First(t) \in Nat /\ Upto(t) \in Nat
  <2>1. First(t)' = First(t) /\ Upto(t)' = Upto(t) /\ First(t) \in Nat /\ Upto(t) \in Nat
    BY <1>6, OthersKeep, Fields
  <2> QED BY <1>2, <2>1, Threads, TimesStep DEF First, Upto, Sums
<1>8. \A u \in DThreads : Did(u)' = Did(u)
  <2>1. Did(t)' = Tri(dt[t].i + 1) - Tri(First(t)) /\ Did(t) = Tri(dt[t].i + 1) - Tri(First(t))
    BY <1>1, <1>2, <1>3, <1>5, <1>6, <1>7 DEF Did
  <2> QED BY <1>6, <2>1, OthersKeep
<1>9. mutex = 0 /\ mutex' = 1
  BY <1>1, <1>2 DEF DInv, DTypes, Locking, Locked
<1>10. DTypes'
  BY <1>1, <1>5, <1>9 DEF DInv, DTypes
<1>11. Created'
  BY <1>1, <1>2, <1>3, <1>5, <1>6, KeepsCreated DEF Steps, BodyPC
<1>12. Numbered'
  <2>1. NumberOf(t) /\ demo' = demo
    BY <1>1 DEF DInv, Numbered
  <2>2. NumberOf(t)'
    BY <1>2, <1>3, <1>5, <1>6, <2>1 DEF NumberOf
  <2> QED BY <1>1, <1>6, <2>2, KeepsNumbered
<1>13. Rounds'
  <2>1. RoundOf(t) /\ dt[t].i \in Nat
    BY Fields DEF DInv, Rounds
  <2>2. First(t) <= dt[t].i /\ dt[t].i < Upto(t)
    BY <1>1, <1>2, <2>1 DEF RoundOf, Steps
  <2>3. IF dt[t].i + 1 = Upto(t) THEN dt'[t].pc = "done" ELSE dt'[t].pc = "P"
    BY <1>5, <1>7
  <2>4. RoundOf(t)'
    BY <1>5, <1>6, <1>7, <2>1, <2>2, <2>3 DEF RoundOf, Steps
  <2> QED BY <1>6, <2>4, KeepsRounds
<1>14. Racing' /\ Locking'
  <2>1. \A u \in DThreads : dt'[u].pc = "store" => dt[u].pc = "store" /\ dt'[u].reg = dt[u].reg
    BY <1>3, <1>5
  <2>2. /\ \A u \in DThreads : dt'[u].pc = "store" => dt'[u].reg = shared
        /\ \E g : Partial(g, [u \in DThreads |-> Did(u)'])  /\ shared = g[N]
    BY <1>1, <1>2, <1>8, <2>1, Uncounted
  <2>3. dt[t].pc \in Locked /\ dt'[t].pc \notin Locked
    BY <1>1, <1>3, <1>5 DEF Locked
  <2>4. \A u \in DThreads : dt'[u].pc \notin Locked
    BY <1>2, <1>5, <2>3 DEF DInv, Locking
  <2> QED BY <1>1, <1>2, <2>2, <2>4 DEF Racing, Locking
<1>15. OwnSums'
  BY <1>1, <1>2 DEF OwnSums, OwnSum
<1> QED BY <1>10, <1>11, <1>12, <1>13, <1>14, <1>15 DEF DInv

LEMMA StoreKeeps == ASSUME DInv, NEW t \in DThreads, store(t) PROVE DInv'
<1> DEFINE v == Added(t)
           i == IF demo = "psum-mutex" THEN dt[t].i ELSE dt[t].i + 1
           pc == CASE demo = "psum-mutex" -> "V" [] demo = "sharing" -> "print" [] OTHER -> Again(t)
<1>1. /\ dt[t].pc = "store" /\ UNCHANGED <<demo, dm, di, mutex, arg>>
      /\ dt' = [dt EXCEPT ![t].pc = pc, ![t].i = i]
      /\ IF demo = "psum-array" THEN psum' = [psum EXCEPT ![dt[t].myid] = v] /\ shared' = shared
         ELSE shared' = v /\ psum' = psum
  BY Fields DEF store, DRecord
<1>2. /\ demo \in {"badcnt", "psum-mutex", "psum-array", "sharing"} /\ Started(t)
      /\ dt[t].myid = t
  BY <1>1, Lines DEF DInv, Numbered, NumberOf, Started
<1>3. pc \in {"V", "print", "done", "load"}
  BY <1>2 DEF Again, Body
<1>4. dt \in [DThreads -> DRecord] /\ i \in Nat /\ v \in Nat /\ dt[t].i \in Nat /\ dt[t].reg \in Nat
  BY Fields DEF Added
<1>5. /\ dt' \in [DThreads -> DRecord] /\ \A u \in DThreads \ {t} : dt'[u] = dt[u]
      /\ dt'[t].pc = pc /\ dt'[t].myid = dt[t].myid /\ dt'[t].i = i
  <2> HIDE DEF v, i, pc
  <2> QED BY <1>1, <1>3, <1>4 DEF DRecord, Steps
<1>6. Alone(t) /\ Started(t)' /\ Loops' = Loops
  <2> HIDE DEF pc
  <2> QED BY <1>1, <1>3, <1>5 DEF Alone, Started, Loops
<1>7. /\ First(t)' = First(t) /\ Upto(t)' = Upto(t) /\ First(t) \in Nat /\ Upto(t) \in Nat
      /\ demo \in Sums => Upto(t) = (t + 1) * PerThread
      /\ demo = "badcnt" => Upto(t) = PerThread
  <2>1. First(t)' = First(t) /\ Upto(t)' = Upto(t) /\ First(t) \in Nat /\ Upto(t) \in Nat
    BY <1>6, OthersKeep, Fields
  <2>2. demo = "badcnt" => Upto(t) = PerThread
    BY Threads DEF First, Upto, Sums
  <2> QED BY <2>1, <2>2, Threads, TimesStep DEF First, Upto
<1>8. demo \in Sums => Did(t)' = Did(t) + dt[t].i
  <2>1. Did(t) = Tri(dt[t].i) - Tri(First(t))
    BY <1>1, <1>2 DEF Did
  <2>2. demo \in Sums => Did(t)' = Tri(dt[t].i + 1) - Tri(First(t))
    <3>1. CASE demo = "psum-mutex"
      BY <1>5, <1>6, <1>7, <3>1 DEF Did
    <3>2. CASE demo = "psum-array"
      <4>1. dt'[t].pc # "V" /\ dt'[t].i = dt[t].i + 1
        BY <1>5, <3>2 DEF Again, Body
      <4> QED BY <1>6, <1>7, <4>1 DEF Did
    <3> QED BY <1>2, <3>1, <3>2 DEF Sums
  <2> QED BY <1>4, <1>7, <2>1, <2>2, Triangle
<1>9. DTypes'
  <2>1. shared' \in Nat /\ psum' \in [DThreads -> Nat]
    <3> HIDE DEF v
    <3> QED BY <1>1, <1>2, <1>4 DEF DInv, DTypes
  <2> QED BY <1>1, <1>5, <2>1 DEF DInv, DTypes
<1>10. Created'
  <2>1. dt'[t].pc \in {"done"} \cup BodyPC
    BY <1>2, <1>5 DEF BodyPC, Again, Body
  <2> QED BY <1>1, <1>6, <2>1, KeepsCreated DEF Steps
<1>11. Numbered'
  <2>1. NumberOf(t) /\ demo' = demo
    BY <1>1 DEF DInv, Numbered
  <2>2. demo = "sharing" => dt'[t].pc = "print"
    BY <1>5
  <2>3. dt'[t].pc # "start"
    BY <1>6 DEF Started
  <2>4. NumberOf(t)'
    BY <1>2, <1>5, <1>6, <2>1, <2>2, <2>3 DEF NumberOf
  <2> QED BY <1>1, <1>6, <2>4, KeepsNumbered
<1>12. Rounds'
  <2>1. RoundOf(t)
    BY DEF DInv, Rounds
  <2>2. Loops => First(t) <= dt[t].i /\ dt[t].i < Upto(t)
    BY <1>1, <1>2, <2>1 DEF RoundOf, Steps
  <2>3. Loops => \/ dt'[t].i = dt[t].i /\ dt'[t].pc = "V"
                 \/ dt'[t].i = dt[t].i + 1 /\ dt[t].i + 1 = Upto(t) /\ dt'[t].pc = "done"
                 \/ dt'[t].i = dt[t].i + 1 /\ dt[t].i + 1 # Upto(t) /\ dt'[t].pc = "load"
    <3>1. CASE demo = "psum-mutex"
      BY <1>5, <3>1
    <3>2. CASE demo = "psum-array"
      BY <1>2, <1>5, <1>7, <3>2 DEF Again, Body, LastRound, Sums
    <3>3. CASE demo = "badcnt"
      BY <1>2, <1>5, <1>7, <3>3 DEF Again, Body, LastRound, Sums
    <3> QED BY <1>2, <3>1, <3>2, <3>3 DEF Loops, Sums
  <2>4. RoundOf(t)'
    BY <1>4, <1>6, <1>7, <2>2, <2>3 DEF RoundOf, Steps
  <2> QED BY <1>6, <2>4, KeepsRounds
<1>13. Racing'
  <2> SUFFICES ASSUME demo = "badcnt" PROVE Racing'
    BY <1>1 DEF Racing
  <2>1. v = dt[t].reg + 1 /\ shared' = v /\ dt'[t].i = dt[t].i + 1 /\ dt'[t].pc # "store"
    BY <1>1, <1>3, <1>5 DEF Added, Sums
  <2>2. PICK g : /\ Partial(g, [u \in DThreads |-> dt[u].i]) /\ shared <= g[N]
                 /\ \A u \in DThreads : dt[u].pc = "store" => dt[u].reg <= g[N]
    BY DEF DInv, Racing
  <2>3. PICK h : Partial(h, [u \in DThreads |-> dt'[u].i]) /\ h[N] = g[N] + 1
    <3> DEFINE a == [u \in DThreads |-> dt[u].i]
               b == [u \in DThreads |-> dt'[u].i]
    <3>1. \A u \in DThreads : a[u] \in Int /\ b[u] = IF u = t THEN a[u] + 1 ELSE a[u]
      BY <1>5, <2>1, Fields
    <3>2. Partial(g, a) /\ 1 \in Int
      BY <2>2
    <3>3. \E h : Partial(h, b) /\ h[N] = g[N] + 1
      <4> HIDE DEF a, b
      <4> QED BY <3>1, <3>2, OneAdds
    <3> QED BY <3>3
  <2>4. g[N] \in Int
    BY <2>2, Threads DEF Partial, Adds
  <2>5. shared' <= h[N] /\ \A u \in DThreads : dt'[u].pc = "store" => dt'[u].reg <= h[N]
    <3> HIDE DEF v
    <3>1. \A u \in DThreads : dt[u].reg \in Nat
      BY Fields
    <3> QED BY <1>1, <1>4, <1>5, <2>1, <2>2, <2>3, <2>4, <3>1
  <2>6. dt[t].reg = 0 => dt[t].i = 0
    BY <1>1 DEF DInv, Racing
  <2>7. shared' # 0 /\ (shared' = 1 => dt'[t].i = 1)
    BY <1>4, <2>1, <2>6
  <2>8. \A u \in DThreads : dt'[u].pc = "store" /\ dt'[u].reg = 0 => dt'[u].i = 0
    BY <1>5, <2>1 DEF DInv, Racing
  <2> QED BY <2>3, <2>5, <2>7, <2>8 DEF Racing
<1>14. Locking'
  <2> SUFFICES ASSUME demo = "psum-mutex" PROVE Locking'
    BY <1>1 DEF Locking
  <2>1. v = shared + dt[t].i /\ shared' = v /\ dt'[t].pc = "V"
    BY <1>1, <1>5 DEF DInv, Locking, Added, Sums
  <2>2. PICK g : Partial(g, [u \in DThreads |-> Did(u)]) /\ shared = g[N]
    BY DEF DInv, Locking
  <2>3. PICK h : Partial(h, [u \in DThreads |-> Did(u)']) /\ h[N] = g[N] + dt[t].i
    <3>1. Did(t)' = Did(t) + dt[t].i
      BY <1>8 DEF Sums
    <3> DEFINE a == [u \in DThreads |-> Did(u)]
               b == [u \in DThreads |-> Did(u)']
    <3>2. \A u \in DThreads : a[u] \in Int /\ b[u] = IF u = t THEN a[u] + dt[t].i ELSE a[u]
      BY <1>6, <3>1, OthersKeep, Fields
    <3>3. Partial(g, a) /\ dt[t].i \in Int
      BY <1>4, <2>2
    <3>4. \E h : Partial(h, b) /\ h[N] = g[N] + dt[t].i
      <4> HIDE DEF a, b
      <4> QED BY <3>2, <3>3, OneAdds
    <3> QED BY <3>4
  <2>4. \A u \in DThreads : dt'[u].pc \in Locked => dt[u].pc \in Locked
    BY <1>1, <1>5 DEF Locked
  <2>5. \A u \in DThreads : dt'[u].pc # "store"
    <3>1. \A u \in DThreads \ {t} : dt[u].pc # "store"
      BY <1>1 DEF DInv, Locking, Locked
    <3> QED BY <1>5, <2>1, <3>1
  <2>6. mutex' = mutex /\ dt[t].pc \in Locked
    BY <1>1 DEF Locked
  <2>7. shared' = h[N]
    BY <2>1, <2>2, <2>3
  <2> QED BY <2>3, <2>4, <2>5, <2>6, <2>7 DEF DInv, Locking
<1>15. OwnSums'
  <2>1. CASE demo # "psum-array"
    BY <1>1, <1>2, <2>1 DEF OwnSums, OwnSum
  <2>2. CASE demo = "psum-array"
    <3>1. dt[t].reg = Did(t) /\ Did(t)' = Did(t) + dt[t].i /\ v = dt[t].reg + dt[t].i
      BY <1>1, <1>8, <2>2 DEF DInv, OwnSums, OwnSum, Added, Sums
    <3>2. psum'[t] = v /\ \A u \in DThreads \ {t} : psum'[u] = psum[u]
      BY <1>1, <1>2, <2>2 DEF DInv, DTypes
    <3>3. dt'[t].pc # "store"
      BY <1>3, <1>5
    <3>4. OwnSum(t)'
      BY <1>1, <2>2, <3>1, <3>2, <3>3 DEF OwnSum
    <3> QED BY <1>6, <3>2, <3>4, KeepsOwnSums
  <2> QED BY <2>1, <2>2
<1> QED BY <1>9, <1>10, <1>11, <1>12, <1>13, <1>14, <1>15 DEF DInv

----------------------------------------------------------------------------
(* The theorem                                                             *)

LEMMA DInvNext == DInv /\ [DNext]_dvars => DInv'
<1> SUFFICES ASSUME DInv, [DNext]_dvars PROVE DInv'
  OBVIOUS
<1>1. CASE DCreate
  BY <1>1, CreateKeeps
<1>2. CASE DJoin
  BY <1>2, JoinKeeps
<1>3. ASSUME NEW t \in DThreads, DThreadStep(t) PROVE DInv'
  BY <1>3, BeginKeeps, LockKeeps, LoadKeeps, StoreKeeps, UnlockKeeps, AddKeeps, PutKeeps, PrintKeeps
     DEF DThreadStep
<1>4. CASE UNCHANGED dvars
  BY <1>4 DEF dvars, DInv, DTypes, Created, BodyPC, Numbered, NumberOf, Started, Rounds, RoundOf, Loops,
              First, Upto, Racing, Locking, OwnSums, OwnSum, Did
<1> QED BY <1>1, <1>2, <1>3, <1>4 DEF DNext

(* The result that main adds up satisfies its equation: by the partial     *)
(* sums of the invariant there is a function that does.                    *)
LEMMA ResultIs ==
    ASSUME NEW h, Partial(h, psum)
    PROVE  Result[N] = h[N]
<1> DEFINE Equation(f) == f = [i \in 0 .. N |-> IF i = 0 THEN 0 ELSE f[i - 1] + psum[i - 1]]
<1>1. Equation(h)
  <2>1. ASSUME NEW i \in 0 .. N PROVE h[i] = IF i = 0 THEN 0 ELSE h[i - 1] + psum[i - 1]
    <3>1. CASE i = 0
      BY <3>1 DEF Partial, Adds
    <3>2. CASE i # 0
      <4>1. i - 1 \in DThreads /\ (i - 1) + 1 = i
        BY <3>2, Threads
      <4> QED BY <3>2, <4>1 DEF Partial, Adds
    <3> QED BY <3>1, <3>2
  <2>2. h \in [0 .. N -> Int]
    BY DEF Partial, Adds
  <2> QED BY <2>1, <2>2
<1>2. Equation(Result)
  <2>1. Result = CHOOSE f : Equation(f)
    BY DEF Result
  <2> QED BY <1>1, <2>1
<1> HIDE DEF Equation
<1>3. Result[0] = 0 /\ \A i \in DThreads : Result[i + 1] = Result[i] + psum[i]
  <2>1. Result = [i \in 0 .. N |-> IF i = 0 THEN 0 ELSE Result[i - 1] + psum[i - 1]]
    BY <1>2 DEF Equation
  <2>2. \A i \in 0 .. N : Result[i] = IF i = 0 THEN 0 ELSE Result[i - 1] + psum[i - 1]
    BY <2>1
  <2>3. \A i \in DThreads : i + 1 \in 0 .. N /\ i + 1 # 0 /\ (i + 1) - 1 = i
    BY Threads
  <2>4. 0 \in 0 .. N
    BY Threads
  <2> QED BY <2>2, <2>3, <2>4
<1>4. Adds(Result, psum) /\ Adds(h, psum)
  BY <1>3 DEF Partial, Adds
<1> QED BY <1>4, OneSum

(* What the counter without a lock ends with.                              *)
LEMMA InvBadCnt == DInv => BadCntBounds
<1> SUFFICES ASSUME DInv, demo = "badcnt", dm = "end"
             PROVE  shared \in (IF PerThread = 1 THEN 1 ELSE 2) .. N * PerThread
  BY DEF BadCntBounds
<1>1. \A t \in DThreads : dt[t].i = PerThread
  <2> TAKE t \in DThreads
  <2>1. dt[t].pc = "done"
    BY DEF DInv, Created
  <2>2. dt[t].i = Upto(t)
    BY <2>1 DEF DInv, Rounds, RoundOf, Loops
  <2> QED BY <2>2, Threads DEF Upto, First, Sums
<1>2. PICK g : Partial(g, [t \in DThreads |-> dt[t].i]) /\ shared <= g[N]
  BY DEF DInv, Racing
<1>3. g[N] = N * PerThread
  <2> DEFINE a == [t \in DThreads |-> dt[t].i]
             b == [t \in DThreads |-> PerThread]
             h == [k \in 0 .. N |-> k * PerThread]
  <2>1. Adds(g, a) /\ Adds(h, b) /\ (\A t \in DThreads : b[t] = a[t]) /\ h[N] = N * PerThread
    BY <1>1, <1>2, SumOfRounds, Threads DEF Partial
  <2> HIDE DEF a, b, h
  <2> QED BY <2>1, OneSum
<1>4. PICK t \in DThreads : TRUE
  BY Threads
<1>5. shared # 0 /\ (shared = 1 => PerThread = 1)
  BY <1>1, <1>4, Threads DEF DInv, Racing
<1>6. shared \in Nat /\ N * PerThread \in Nat
  BY Threads, TimesStep DEF DInv, DTypes
<1> QED BY <1>2, <1>3, <1>5, <1>6

(* What the three programs that sum end with: a thread has added the       *)
(* numbers of its slice, and the slices meet.                              *)
LEMMA InvSums == DInv => SumsExact
<1> SUFFICES ASSUME DInv, demo \in Sums, dm = "end"
             PROVE  (IF demo = "psum-mutex" THEN shared ELSE Result[N]) = Tri(N * PerThread)
  BY DEF SumsExact, Tri
<1> DEFINE slice == [t \in DThreads |-> Tri(t * PerThread + PerThread) - Tri(t * PerThread)]
           h == [k \in 0 .. N |-> Tri(k * PerThread)]
<1>1. Adds(h, slice) /\ h[N] = Tri(N * PerThread) /\ Partial(h, slice)
  <2>1. Partial(h, slice)
    BY SumOfSlices
  <2>2. h[N] = Tri(N * PerThread)
    BY Threads
  <2> HIDE DEF h, slice
  <2> QED BY <2>1, <2>2 DEF Partial
<1>2. \A t \in DThreads : dt[t].pc = "done" /\ Did(t) = slice[t]
  <2> TAKE t \in DThreads
  <2>1. dt[t].pc = "done"
    BY DEF DInv, Created, Sums
  <2>2. dt[t].i = Upto(t) /\ Started(t)
    BY <2>1 DEF DInv, Rounds, RoundOf, Loops, Started
  <2>3. Upto(t) = t * PerThread + PerThread /\ First(t) = t * PerThread
    BY DEF Upto, First
  <2> QED BY <2>1, <2>2, <2>3 DEF Did
<1>3. ASSUME demo = "psum-mutex" PROVE shared = h[N]
  <2> DEFINE a == [t \in DThreads |-> Did(t)]
  <2>1. PICK g : Partial(g, a) /\ shared = g[N]
    BY <1>3 DEF DInv, Locking
  <2>2. Adds(g, a) /\ \A t \in DThreads : slice[t] = a[t]
    BY <1>2, <2>1 DEF Partial
  <2> HIDE DEF a, slice, h
  <2> QED BY <1>1, <2>1, <2>2, OneSum
<1>4. ASSUME demo # "psum-mutex" PROVE Result[N] = h[N]
  <2>1. \A t \in DThreads : psum[t] = slice[t]
    BY <1>2, <1>4 DEF DInv, OwnSums, OwnSum, Sums
  <2>2. Partial(h, psum)
    <3> HIDE DEF slice, h
    <3> QED BY <1>1, <2>1, SameTerms
  <2> HIDE DEF h
  <2> QED BY <2>2, ResultIs
<1> QED BY <1>1, <1>3, <1>4

LEMMA InvOwnNumber == DInv => OwnNumber
<1> SUFFICES ASSUME DInv PROVE OwnNumber
  OBVIOUS
<1>1. \A t \in DThreads : demo = "norace" /\ dm = "end" => Started(t)
  BY DEF DInv, Created, Started
<1> QED BY <1>1 DEF DInv, Numbered, NumberOf, OwnNumber

(* For any number of threads and rounds: badcnt.c ends with a count from 2 *)
(* to the number of increments, the programs that sum end with the right   *)
(* sum, and norace.c and sharing.c give each thread its own number.        *)
THEOREM DemosExactAlways == DSpec => []DemosExact
<1>1. DInv => DemosExact
  BY InvBadCnt, InvSums, InvOwnNumber DEF DemosExact
<1> QED BY <1>1, DInvInit, DInvNext, PTL DEF DSpec

----------------------------------------------------------------------------
(* The least element of a set of numbers is one of them.                   *)
LEMMA LeastNatural ==
    ASSUME NEW D \in SUBSET Nat, D # {}
    PROVE  Min(D) \in D
<1>1. PICK x \in D : \A y \in D : ~ (<<y, x>> \in OpToRel(<, Nat))
  BY NatLessThanWellFounded, WFMin
<1>2. ASSUME NEW y \in D, y < x PROVE FALSE
  <2>1. <<y, x>> \in Nat \X Nat /\ <<y, x>>[1] < <<y, x>>[2]
    BY <1>2
  <2> QED BY <1>1, <2>1 DEF OpToRel
<1>3. \E z \in D : \A y \in D : z <= y
  BY <1>2
<1> QED BY <1>3 DEF Min

----------------------------------------------------------------------------
(* The servers with a worker, a process or a thread, for each connection,  *)
(* and those without                                                       *)

(* What is typed, sent and printed.                                        *)
Texts == EClients \X Nat
EClient == [st : {"idle", "type", "await", "closed", "failed", "killed"}, typed : Nat, wire : Seq(Texts),
            back : Seq(Texts), printed : Seq([line : Texts, echoed : BOOLEAN]), met : BOOLEAN]
Worker == [pc : {"none", "copy", "echo", "zombie", "gone"}, arg : {0} \cup Workers, for : {0} \cup EClients]
ETypes == /\ ek \in {"i", "p", "t", "s"}
          /\ em \in {"select", "accept", "fork", "close", "create", "echo", "exit"}
          /\ conn \in {0} \cup EClients
          /\ wk \in [Workers -> Worker] /\ cell \in [Workers -> {0} \cup EClients]
          /\ hold \in [EClients -> SUBSET Parties]
          /\ sigchld \in BOOLEAN /\ handling \in BOOLEAN /\ stdin \in {"quiet", "line", "eof"}
          /\ ec \in [EClients -> EClient]

(* The labels of main, by the kind of server; a process, unlike a thread,  *)
(* does not end the server.                                                *)
Labels == /\ em = "select" => ek = "s"
          /\ em \in {"fork", "close"} => ek = "p"
          /\ em = "create" => ek = "t"
          /\ em = "echo" => ek \in {"i", "s"}
          /\ em = "exit" => ek # "p"
          /\ \A w \in Workers : /\ wk[w].pc # "none" => ek \in {"p", "t"}
                                /\ wk[w].pc = "copy" => ek = "t"

(* The connection a worker serves or served: it is in the cell it was      *)
(* given until it has copied it.  A client is met before it has a worker,  *)
(* and has one at most; the connection main is busy with has none yet.     *)
Of(w) == IF wk[w].pc = "copy" THEN cell[w] ELSE wk[w].for
Served == \A w \in Workers : wk[w].pc # "none" => Of(w) \in EClients /\ ec[Of(w)].met
OwnCell == \A w \in Workers : wk[w].pc = "copy" => wk[w].arg = w
OneWorker == \A v, w \in Workers : wk[v].pc # "none" /\ wk[w].pc # "none" /\ Of(v) = Of(w) => v = w
Accepted == em \in {"fork", "create", "echo"} =>
               /\ conn \in EClients /\ ec[conn].met /\ Main \in hold[conn]
               /\ \A w \in Workers : wk[w].pc # "none" => Of(w) # conn
               /\ em = "create" => cell[NextWorker] = conn

(* Who serves a connection has its descriptor.                             *)
Holding == \A w \in Workers :
              /\ ek = "p" /\ wk[w].pc = "echo" => w \in hold[wk[w].for]
              /\ ek = "t" /\ EUp /\ wk[w].pc \in {"copy", "echo"} => Main \in hold[Of(w)]

(* The line a client waits for is on its way, to the server or back, until *)
(* the server drops the connection; what it printed as echoed it typed.    *)
OnItsWay(c, r, dropped) ==
    /\ r.st \in {"idle", "type"} => /\ r.back = << >> /\ r.typed = Len(r.printed)
                                    /\ (r.wire = << >> \/ dropped)
    /\ r.st = "idle" => ~ r.met
    /\ r.st = "await" => /\ r.typed = Len(r.printed) + 1
                         /\ \/ r.back = << >> /\ dropped
                            \/ r.back = << >> /\ r.wire = <<<<c, r.typed>>>>
                            \/ r.back = <<<<c, r.typed>>>> /\ (r.wire = << >> \/ dropped)
Printed(c, r, dropped) ==
    \A k \in DOMAIN r.printed : r.printed[k].line = <<c, k>> /\ (~ r.printed[k].echoed => dropped)
AllOnTheirWay == \A c \in EClients : /\ OnItsWay(c, ec[c], Dropped(c))
                                     /\ Printed(c, ec[c], Dropped(c))

EInv == ETypes /\ Labels /\ Served /\ OwnCell /\ OneWorker /\ Accepted /\ Holding /\ AllOnTheirWay /\ NoZombieLeft

(* The sets of the model that the pigeonholes are counted in.              *)
LEMMA Injects ==
    ASSUME NEW D, NEW E, IsFiniteSet(D), IsFiniteSet(E), NEW f,
           \A x \in D : f[x] \in E, \A x, y \in D : f[x] = f[y] => x = y
    PROVE  /\ Cardinality(D) <= Cardinality(E)
           /\ Cardinality(D) \in Nat /\ Cardinality(E) \in Nat
<1> DEFINE g == [x \in D |-> f[x]]
<1>1. g \in Injection(D, E)
  BY DEF Injection, IsInjective
<1> QED BY <1>1, FS_Injection, FS_CardinalityType

LEMMA WorkersAre ==
    /\ Cardinality(EClients) \in Nat /\ IsFiniteSet(Workers) /\ Workers \subseteq Nat /\ 0 \notin Workers
    /\ Cardinality(Workers) = Cardinality(EClients) /\ Main \notin Workers /\ Workers \subseteq Parties
    /\ Main \in Parties
<1>1. Cardinality(EClients) \in Nat
  BY EchoServersAssumption, FS_CardinalityType
<1>2. IsFiniteSet(Workers) /\ Cardinality(Workers) = Cardinality(EClients)
  BY <1>1, FS_Interval DEF Workers
<1> QED BY <1>1, <1>2 DEF Workers, Main, Parties

(* While a client has no worker, a worker is left.                         *)
LEMMA WorkerLeft ==
    ASSUME ETypes, Served, OneWorker, NEW c \in EClients,
           \A w \in Workers : wk[w].pc # "none" => Of(w) # c
    PROVE  NextWorker \in Workers /\ wk[NextWorker].pc = "none"
<1> DEFINE S == {w \in Workers : wk[w].pc = "none"}
<1>1. S # {}
  <2> SUFFICES ASSUME S = {} PROVE FALSE
    OBVIOUS
  <2> DEFINE f == [w \in Workers |-> Of(w)]
             E == EClients \ {c}
  <2>1. \A w \in Workers : f[w] \in E
    BY DEF Served
  <2>2. \A v, w \in Workers : f[v] = f[w] => v = w
    BY DEF OneWorker
  <2>3. IsFiniteSet(E) /\ Cardinality(E) = Cardinality(EClients) - 1
    BY EchoServersAssumption, FS_RemoveElement
  <2>4. Cardinality(Workers) <= Cardinality(E)
    <3> HIDE DEF f, E
    <3> QED BY <2>1, <2>2, <2>3, WorkersAre, Injects
  <2> QED BY <2>3, <2>4, WorkersAre
<1>2. S \in SUBSET Nat
  BY WorkersAre
<1>3. Min(S) \in S
  BY <1>1, <1>2, LeastNatural
<1> QED BY <1>3 DEF NextWorker

(* The fields of a client and of a worker.                                 *)
LEMMA EFields ==
    ASSUME ETypes
    PROVE  /\ \A c \in EClients :
                /\ ec[c] \in EClient
                /\ ec[c].st \in {"idle", "type", "await", "closed", "failed", "killed"}
                /\ ec[c].typed \in Nat /\ ec[c].wire \in Seq(Texts) /\ ec[c].back \in Seq(Texts)
                /\ ec[c].printed \in Seq([line : Texts, echoed : BOOLEAN]) /\ ec[c].met \in BOOLEAN
           /\ \A w \in Workers :
                /\ wk[w] \in Worker
                /\ wk[w].pc \in {"none", "copy", "echo", "zombie", "gone"}
                /\ wk[w].arg \in {0} \cup Workers /\ wk[w].for \in {0} \cup EClients
BY DEF ETypes, EClient, Worker

LEMMA EInvInit == EInit => EInv
<1> SUFFICES ASSUME EInit PROVE EInv
  OBVIOUS
<1> USE DEF EInit
<1>1. ETypes
  <2>1. \A T : << >> \in Seq(T)
    OBVIOUS
  <2>2. ec \in [EClients -> EClient]
    BY <2>1 DEF EClient
  <2>3. ek \in {"i", "p", "t", "s"} /\ wk \in [Workers -> Worker] /\ hold \in [EClients -> SUBSET Parties]
    BY EchoServersAssumption DEF Worker
  <2> QED BY <2>2, <2>3 DEF ETypes
<1>2. /\ \A w \in Workers : wk[w].pc = "none"
      /\ \A c \in EClients : /\ ec[c].st = "idle" /\ ec[c].typed = 0 /\ ec[c].wire = << >> /\ ec[c].back = << >>
                             /\ ec[c].printed = << >> /\ ~ ec[c].met
  OBVIOUS
<1>3. Labels /\ Served /\ OwnCell /\ OneWorker /\ Accepted /\ Holding /\ NoZombieLeft
  BY <1>2, EchoServersAssumption DEF Labels, Served, OwnCell, OneWorker, Accepted, Holding, NoZombieLeft
<1>4. AllOnTheirWay
  BY <1>2 DEF AllOnTheirWay, OnItsWay, Printed
<1> QED BY <1>1, <1>3, <1>4 DEF EInv

(* A step of a client, or of who echoes to it, changes its lines only.     *)
LEMMA LinesChange ==
    ASSUME EInv, UNCHANGED <<ek, ServerState>>, NEW c \in EClients, NEW r \in EClient,
           ec' = [ec EXCEPT ![c] = r], r.met = ec[c].met,
           OnItsWay(c, r, Dropped(c)), Printed(c, r, Dropped(c))
    PROVE  EInv'
<1> USE DEF EInv, ServerState
<1>1. ec'[c] = r /\ (\A d \in EClients : d # c => ec'[d] = ec[d])
      /\ ec' \in [EClients -> EClient]
  BY DEF ETypes
<1>2. \A d \in EClients : ec'[d].met = ec[d].met
  BY <1>1
<1>3. ETypes'
  BY <1>1 DEF ETypes
<1>4. Labels' /\ OwnCell' /\ OneWorker' /\ Holding' /\ NoZombieLeft'
  BY DEF Labels, OwnCell, OneWorker, Holding, NoZombieLeft, Of, EUp
<1>5. Served' /\ Accepted'
  BY <1>2 DEF Served, Accepted, Of, NextWorker
<1>6. AllOnTheirWay'
  <2>1. \A d \in EClients : Dropped(d)' <=> Dropped(d)
    BY <1>2 DEF Dropped, EUp
  <2> SUFFICES ASSUME NEW d \in EClients
               PROVE  OnItsWay(d, ec'[d], Dropped(d)') /\ Printed(d, ec'[d], Dropped(d)')
    BY DEF AllOnTheirWay
  <2>2. OnItsWay(d, ec'[d], Dropped(d)) /\ Printed(d, ec'[d], Dropped(d))
    BY <1>1 DEF AllOnTheirWay
  <2> QED BY <2>1, <2>2 DEF OnItsWay, Printed
<1> QED BY <1>3, <1>4, <1>5, <1>6

(* What is printed is kept when a line is printed after it.                *)
LEMMA PrintsOne ==
    ASSUME NEW r \in EClient, NEW one \in [line : Texts, echoed : BOOLEAN], NEW s \in EClient,
           s.printed = Append(r.printed, one)
    PROVE  /\ Len(s.printed) = Len(r.printed) + 1
           /\ \A k \in DOMAIN s.printed : \/ k \in DOMAIN r.printed /\ s.printed[k] = r.printed[k]
                                          \/ k = Len(r.printed) + 1 /\ s.printed[k] = one
<1> DEFINE p == r.printed
<1>1. p \in Seq([line : Texts, echoed : BOOLEAN])
  BY DEF EClient
<1>2. /\ Len(Append(p, one)) = Len(p) + 1 /\ DOMAIN Append(p, one) = 1 .. Len(p) + 1
      /\ DOMAIN p = 1 .. Len(p) /\ Len(p) \in Nat
      /\ \A k \in 1 .. Len(p) : Append(p, one)[k] = p[k]
      /\ Append(p, one)[Len(p) + 1] = one
  BY <1>1
<1>3. \A k \in 1 .. Len(p) + 1 : k \in 1 .. Len(p) \/ k = Len(p) + 1
  BY <1>2
<1> QED BY <1>2, <1>3

LEMMA ClientKeeps == ASSUME EInv, NEW c \in EClients, ClientStep(c) PROVE EInv'
<1> DEFINE d == Dropped(c)
<1>1. PICK r : r = ec[c]
  OBVIOUS
<1>2. /\ r \in EClient /\ r.typed \in Nat /\ r.wire \in Seq(Texts) /\ r.back \in Seq(Texts) /\ r.met \in BOOLEAN
      /\ r.printed \in Seq([line : Texts, echoed : BOOLEAN]) /\ ec \in [EClients -> EClient] /\ d \in BOOLEAN
  BY <1>1, EFields DEF EInv, ETypes, Dropped, EUp
<1>3. OnItsWay(c, r, d) /\ Printed(c, r, d)
  BY <1>1 DEF EInv, AllOnTheirWay
<1>4. \A n \in Nat : <<c, n>> \in Texts
  BY DEF Texts
<1>5. d = Dropped(c)
  OBVIOUS
<1>6. \A s \in EClient : s.printed = r.printed => Printed(c, s, d)
  BY <1>3 DEF Printed
<1>7. CASE ClientOpens(c)
  <2> DEFINE s == [r EXCEPT !.st = "type"]
  <2>1. s \in EClient /\ s.met = r.met /\ s.printed = r.printed /\ ec' = [ec EXCEPT ![c] = s] /\ r.st = "idle"
    BY <1>1, <1>2, <1>7 DEF ClientOpens, EClient
  <2>2. OnItsWay(c, s, d)
    BY <1>2, <1>3, <2>1 DEF OnItsWay, EClient
  <2> QED BY <1>1, <1>5, <1>6, <1>7, <2>1, <2>2, LinesChange DEF ClientOpens
<1>8. CASE ClientWrites(c)
  <2> DEFINE s == [r EXCEPT !.st = "await", !.typed = @ + 1,
                            !.wire = IF d THEN @ ELSE Append(@, <<c, r.typed + 1>>)]
  <2>1. s \in EClient /\ s.met = r.met /\ s.printed = r.printed /\ ec' = [ec EXCEPT ![c] = s] /\ r.st = "type"
    <3>1. (IF d THEN r.wire ELSE Append(r.wire, <<c, r.typed + 1>>)) \in Seq(Texts) /\ r.typed + 1 \in Nat
      BY <1>2, <1>4
    <3>2. s \in EClient /\ s.met = r.met /\ s.printed = r.printed
      <4> HIDE DEF d
      <4> QED BY <1>2, <3>1 DEF EClient
    <3>3. ec' = [ec EXCEPT ![c] = s] /\ r.st = "type"
      <4> HIDE DEF d
      <4> QED BY <1>1, <1>2, <1>5, <1>8 DEF ClientWrites, EClient
    <3> QED BY <3>2, <3>3
  <2>2. /\ s.st = "await" /\ s.typed = r.typed + 1 /\ s.back = r.back
        /\ s.wire = IF d THEN r.wire ELSE Append(r.wire, <<c, r.typed + 1>>)
    BY <1>2 DEF EClient
  <2>3. OnItsWay(c, s, d)
    <3>1. r.back = << >> /\ r.typed = Len(r.printed) /\ (r.wire = << >> \/ d)
      BY <1>3, <2>1 DEF OnItsWay
    <3>2. ~ d => s.wire = <<<<c, s.typed>>>>
      <4>1. Append(<< >>, <<c, r.typed + 1>>) = <<<<c, r.typed + 1>>>>
        OBVIOUS
      <4> HIDE DEF s, d
      <4> QED BY <2>2, <3>1, <4>1
    <3> HIDE DEF s
    <3> QED BY <2>1, <2>2, <3>1, <3>2 DEF OnItsWay
  <2> HIDE DEF s
  <2> QED BY <1>1, <1>5, <1>6, <1>8, <2>1, <2>3, LinesChange DEF ClientWrites
<1>9. CASE ClientCloses(c)
  <2> DEFINE s == [r EXCEPT !.st = "closed"]
  <2>1. s \in EClient /\ s.met = r.met /\ s.printed = r.printed /\ ec' = [ec EXCEPT ![c] = s] /\ s.st = "closed"
    BY <1>1, <1>2, <1>9 DEF ClientCloses, EClient
  <2>2. OnItsWay(c, s, d)
    BY <2>1 DEF OnItsWay
  <2> HIDE DEF s
  <2> QED BY <1>1, <1>5, <1>6, <1>9, <2>1, <2>2, LinesChange DEF ClientCloses
<1>10. CASE ClientKilled(c)
  <2> DEFINE s == [r EXCEPT !.st = "killed", !.wire = << >>, !.back = << >>]
  <2>1. s \in EClient /\ s.met = r.met /\ s.printed = r.printed /\ ec' = [ec EXCEPT ![c] = s] /\ s.st = "killed"
    <3>1. << >> \in Seq(Texts)
      OBVIOUS
    <3> QED BY <1>1, <1>2, <1>10, <3>1 DEF ClientKilled, EClient
  <2>2. OnItsWay(c, s, d)
    BY <2>1 DEF OnItsWay
  <2> HIDE DEF s
  <2> QED BY <1>1, <1>5, <1>6, <1>10, <2>1, <2>2, LinesChange DEF ClientKilled
<1>11. CASE ClientReads(c)
  <2>1. r.st = "await" /\ r.typed = Len(r.printed) + 1 /\ UNCHANGED <<ek, ServerState>>
    BY <1>1, <1>3, <1>11 DEF ClientReads, OnItsWay
  <2>2. <<c, r.typed>> \in Texts /\ <<c, r.typed>> = <<c, Len(r.printed) + 1>>
    BY <1>2, <1>4, <2>1
  <2>3. CASE /\ r.back # << >>
             /\ ec' = [Prints(c, Head(r.back), TRUE) EXCEPT ![c].back = Tail(@)]
    <3> DEFINE s == [r EXCEPT !.st = "type", !.printed = Append(@, [line |-> <<c, r.typed>>, echoed |-> TRUE]),
                              !.back = << >>]
    <3>1. r.back = <<<<c, r.typed>>>> /\ (r.wire = << >> \/ d)
      BY <1>3, <2>1, <2>3 DEF OnItsWay
    <3>2. Head(r.back) = <<c, r.typed>> /\ Tail(r.back) = << >>
      BY <3>1
    <3>3. s \in EClient
      <4>1. << >> \in Seq(Texts)
        OBVIOUS
      <4>2. Append(r.printed, [line |-> <<c, r.typed>>, echoed |-> TRUE]) \in Seq([line : Texts, echoed : BOOLEAN])
        BY <1>2, <2>2
      <4> QED BY <1>2, <4>1, <4>2 DEF EClient
    <3>4. ec' = [ec EXCEPT ![c] = s]
      BY <1>1, <1>2, <2>3, <3>2 DEF Prints, EClient
    <3>5. /\ s.met = r.met /\ s.st = "type" /\ s.back = << >> /\ s.wire = r.wire /\ s.typed = r.typed
          /\ s.printed = Append(r.printed, [line |-> <<c, r.typed>>, echoed |-> TRUE])
      BY <1>2 DEF EClient
    <3> HIDE DEF s, d
    <3>6. Printed(c, s, d) /\ Len(s.printed) = Len(r.printed) + 1
      <4>1. [line |-> <<c, r.typed>>, echoed |-> TRUE] \in [line : Texts, echoed : BOOLEAN]
        BY <2>2
      <4> QED BY <1>2, <1>3, <2>2, <3>3, <3>5, <4>1, PrintsOne DEF Printed
    <3>7. OnItsWay(c, s, d)
      BY <2>1, <3>1, <3>5, <3>6 DEF OnItsWay
    <3> QED BY <1>1, <1>5, <2>1, <3>3, <3>4, <3>5, <3>6, <3>7, LinesChange
  <2>4. CASE r.back = << >> /\ d /\ ec' = Prints(c, <<c, r.typed>>, FALSE)
    <3> DEFINE s == [r EXCEPT !.st = "type", !.printed = Append(@, [line |-> <<c, r.typed>>, echoed |-> FALSE])]
    <3>1. s \in EClient
      <4>1. Append(r.printed, [line |-> <<c, r.typed>>, echoed |-> FALSE]) \in Seq([line : Texts, echoed : BOOLEAN])
        BY <1>2, <2>2
      <4> QED BY <1>2, <4>1 DEF EClient
    <3>2. ec' = [ec EXCEPT ![c] = s]
      BY <1>1, <1>2, <2>4 DEF Prints, EClient
    <3>3. /\ s.met = r.met /\ s.st = "type" /\ s.back = r.back /\ s.wire = r.wire /\ s.typed = r.typed
          /\ s.printed = Append(r.printed, [line |-> <<c, r.typed>>, echoed |-> FALSE])
      BY <1>2 DEF EClient
    <3> HIDE DEF s, d
    <3>4. Printed(c, s, d) /\ Len(s.printed) = Len(r.printed) + 1
      <4>1. [line |-> <<c, r.typed>>, echoed |-> FALSE] \in [line : Texts, echoed : BOOLEAN]
        BY <2>2
      <4> QED BY <1>2, <1>3, <2>2, <2>4, <3>1, <3>3, <4>1, PrintsOne DEF Printed
    <3>5. OnItsWay(c, s, d)
      BY <2>1, <2>4, <3>3, <3>4 DEF OnItsWay
    <3> QED BY <1>1, <1>5, <2>1, <3>1, <3>2, <3>3, <3>4, <3>5, LinesChange
  <2>5. CASE ec' = [ec EXCEPT ![c].st = "failed"]
    <3> DEFINE s == [r EXCEPT !.st = "failed"]
    <3>1. s \in EClient /\ s.met = r.met /\ s.printed = r.printed /\ ec' = [ec EXCEPT ![c] = s] /\ s.st = "failed"
      BY <1>1, <1>2, <2>5 DEF EClient
    <3>2. OnItsWay(c, s, d)
      BY <3>1 DEF OnItsWay
    <3> HIDE DEF s
    <3> QED BY <1>1, <1>5, <1>6, <2>1, <3>1, <3>2, LinesChange
  <2> QED BY <1>1, <1>11, <2>3, <2>4, <2>5 DEF ClientReads
<1> QED BY <1>7, <1>8, <1>9, <1>10, <1>11 DEF ClientStep

(* A client whose connection is dropped stays so, and its lines are right. *)
LEMMA DropsStay ==
    ASSUME AllOnTheirWay, ec' = ec, \A c \in EClients : Dropped(c) => Dropped(c)'
    PROVE  AllOnTheirWay'
<1> SUFFICES ASSUME NEW c \in EClients
             PROVE  OnItsWay(c, ec[c], Dropped(c)') /\ Printed(c, ec[c], Dropped(c)')
  BY DEF AllOnTheirWay
<1>1. OnItsWay(c, ec[c], Dropped(c)) /\ Printed(c, ec[c], Dropped(c)) /\ (Dropped(c) => Dropped(c)')
  BY DEF AllOnTheirWay
<1> HIDE DEF Dropped
<1> QED BY <1>1 DEF OnItsWay, Printed

(* Who runs echo serves a client it has the connection of.                 *)
LEMMA EchoingTo ==
    ASSUME EInv, NEW x \in Parties, Echoes(x)
    PROVE  /\ Conn(x) \in EClients /\ ec[Conn(x)].met /\ EUp /\ hold[Conn(x)] # {}
           /\ ~ Dropped(Conn(x))
           /\ x = Main => ek \in {"i", "s"} /\ em = "echo" /\ Conn(x) = conn
           /\ x # Main => /\ x \in Workers /\ wk[x].pc = "echo" /\ Conn(x) = wk[x].for
                          /\ ek \in {"p", "t"}
<1> USE DEF EInv
<1>1. CASE x = Main
  BY <1>1 DEF Echoes, Conn, Accepted, Labels, EUp, Dropped
<1>2. CASE x # Main
  <2>1. x \in Workers /\ wk[x].pc = "echo" /\ (ek = "p" \/ EUp) /\ Conn(x) = wk[x].for
    BY <1>2 DEF Echoes, Conn, Parties
  <2>2. Of(x) = wk[x].for /\ wk[x].for \in EClients /\ ec[wk[x].for].met /\ ek \in {"p", "t"} /\ EUp
    BY <2>1 DEF Of, Served, Labels, EUp
  <2>3. hold[wk[x].for] # {}
    BY <2>1, <2>2 DEF Holding
  <2> QED BY <1>2, <2>1, <2>2, <2>3 DEF Dropped
<1> QED BY <1>1, <1>2

LEMMA EchoKeeps == ASSUME EInv, NEW x \in Parties, echo(x) PROVE EInv'
<1>1. PICK c \in EClients : c = Conn(x)
  BY EchoingTo DEF echo
<1>2. PICK r : r = ec[c]
  OBVIOUS
<1>3. /\ r \in EClient /\ r.typed \in Nat /\ r.wire \in Seq(Texts) /\ r.back \in Seq(Texts) /\ r.met \in BOOLEAN
      /\ r.printed \in Seq([line : Texts, echoed : BOOLEAN]) /\ ec \in [EClients -> EClient] /\ r.met
      /\ r.st \in {"idle", "type", "await", "closed", "failed", "killed"}
  BY <1>1, <1>2, EFields, EchoingTo DEF EInv, ETypes, echo
<1>4. OnItsWay(c, r, FALSE) /\ Printed(c, r, FALSE) /\ ~ Dropped(c)
  <2>1. OnItsWay(c, r, Dropped(c)) /\ Printed(c, r, Dropped(c)) /\ ~ Dropped(c)
    BY <1>1, <1>2, EchoingTo DEF EInv, AllOnTheirWay, echo
  <2> HIDE DEF Dropped
  <2> QED BY <2>1 DEF OnItsWay, Printed
<1>5. /\ r.wire # << >> /\ UNCHANGED <<ek, ServerState>>
      /\ ec' = [ec EXCEPT ![c].back = Append(@, Head(r.wire)), ![c].wire = Tail(@)]
  BY <1>1, <1>2 DEF echo
<1> DEFINE s == [r EXCEPT !.back = Append(@, Head(r.wire)), !.wire = Tail(@)]
<1>6. s \in EClient
  <2>1. Append(r.back, Head(r.wire)) \in Seq(Texts) /\ Tail(r.wire) \in Seq(Texts)
    BY <1>3, <1>5
  <2> QED BY <1>3, <2>1 DEF EClient
<1>7. ec' = [ec EXCEPT ![c] = s]
  BY <1>2, <1>3, <1>5 DEF EClient
<1>8. /\ s.met = r.met /\ s.st = r.st /\ s.typed = r.typed /\ s.printed = r.printed
      /\ s.back = Append(r.back, Head(r.wire)) /\ s.wire = Tail(r.wire)
  BY <1>3 DEF EClient
<1> HIDE DEF s
<1>9. OnItsWay(c, s, FALSE)
  <2>1. r.st \notin {"idle", "type"}
    BY <1>4, <1>5 DEF OnItsWay
  <2>2. ASSUME r.st = "await"
        PROVE  s.back = <<<<c, r.typed>>>> /\ s.wire = << >> /\ r.typed = Len(r.printed) + 1
    <3>1. r.back = << >> /\ r.wire = <<<<c, r.typed>>>> /\ r.typed = Len(r.printed) + 1
      BY <1>4, <1>5, <2>2 DEF OnItsWay
    <3> QED BY <1>8, <3>1
  <2> QED BY <1>8, <2>1, <2>2 DEF OnItsWay
<1>10. OnItsWay(c, s, Dropped(c)) /\ Printed(c, s, Dropped(c))
  <2> HIDE DEF Dropped
  <2> QED BY <1>4, <1>8, <1>9 DEF OnItsWay, Printed
<1> QED BY <1>2, <1>5, <1>6, <1>7, <1>8, <1>10, LinesChange

(* A worker ends: what it held is given up, and a process raises SIGCHLD.  *)
LEMMA WorkerEnds ==
    ASSUME EInv, NEW x \in Workers, wk[x].pc = "echo", NEW p \in {"zombie", "gone"},
           wk' = [wk EXCEPT ![x].pc = p], NEW h \in SUBSET hold[wk[x].for],
           hold' = [hold EXCEPT ![wk[x].for] = h], sigchld' = (sigchld \/ p = "zombie"),
           UNCHANGED <<ek, em, conn, cell, handling, stdin, ec>>
    PROVE  EInv'
<1> USE DEF EInv
<1>1. wk[x].for \in EClients /\ Of(x) = wk[x].for
  BY DEF Served, Of
<1>2. /\ wk'[x].pc = p /\ wk'[x].for = wk[x].for /\ wk'[x].arg = wk[x].arg
      /\ \A w \in Workers : w # x => wk'[w] = wk[w]
      /\ wk' \in [Workers -> Worker]
  BY DEF ETypes, Worker
<1>3. /\ \A w \in Workers : Of(w)' = Of(w)
      /\ \A w \in Workers : wk'[w].pc = "none" <=> wk[w].pc = "none"
      /\ \A w \in Workers : wk'[w].pc \in {"copy", "echo"} => wk'[w] = wk[w] /\ w # x
  BY <1>1, <1>2 DEF Of
<1>4. NextWorker' = NextWorker
  BY <1>3 DEF NextWorker
<1>5. /\ hold'[wk[x].for] = h /\ (\A c \in EClients : c # wk[x].for => hold'[c] = hold[c])
      /\ hold' \in [EClients -> SUBSET Parties] /\ (\A c \in EClients : hold'[c] \subseteq hold[c])
  BY <1>1 DEF ETypes
<1>6. ETypes'
  BY <1>2, <1>5 DEF ETypes
<1>7. Labels' /\ OwnCell' /\ Served' /\ OneWorker'
  BY <1>2, <1>3 DEF Labels, OwnCell, Served, OneWorker
<1>8. Accepted'
  <2>1. em \in {"fork", "create", "echo"} => conn # wk[x].for
    BY <1>1 DEF Accepted
  <2> QED BY <1>3, <1>4, <1>5, <2>1 DEF Accepted
<1>9. Holding'
  <2> SUFFICES ASSUME NEW w \in Workers, wk'[w].pc \in {"copy", "echo"}
               PROVE  /\ ek = "p" /\ wk'[w].pc = "echo" => w \in hold'[wk'[w].for]
                      /\ ek = "t" /\ EUp => Main \in hold'[Of(w)']
    BY DEF Holding, EUp
  <2>1. wk'[w] = wk[w] /\ w # x /\ Of(w)' = Of(w) /\ Of(w) # wk[x].for
    BY <1>1, <1>3 DEF OneWorker
  <2>2. Of(w) \in EClients /\ hold'[Of(w)] = hold[Of(w)]
    BY <1>5, <2>1 DEF Served
  <2>3. wk[w].pc = "echo" => Of(w) = wk[w].for
    BY DEF Of
  <2> QED BY <2>1, <2>2, <2>3 DEF Holding
<1>10. AllOnTheirWay'
  <2>1. \A c \in EClients : Dropped(c) => Dropped(c)'
    BY <1>5 DEF Dropped, EUp
  <2> QED BY <2>1, DropsStay
<1>11. NoZombieLeft'
  BY <1>2 DEF NoZombieLeft
<1> QED BY <1>6, <1>7, <1>8, <1>9, <1>10, <1>11

LEMMA ChildKeeps ==
    ASSUME EInv, NEW x \in Parties, Echoes(x), ek = "p", ChildExits(x), UNCHANGED <<ek, ec>>
    PROVE  EInv'
<1>1. x \in Workers /\ wk[x].pc = "echo" /\ Conn(x) = wk[x].for
  BY EchoingTo
<1>2. hold[wk[x].for] \ {x} \in SUBSET hold[wk[x].for] /\ sigchld' = (sigchld \/ "zombie" = "zombie")
  BY DEF ChildExits, EInv, ETypes
<1> QED BY <1>1, <1>2, WorkerEnds DEF ChildExits

LEMMA EndsKeeps == ASSUME EInv, NEW x \in Parties, echo_ends(x) PROVE EInv'
<1>1. Echoes(x) /\ UNCHANGED <<ek, ec>>
  BY DEF echo_ends
<1>2. CASE ek = "p" /\ ChildExits(x)
  BY <1>1, <1>2, ChildKeeps
<1>3. CASE /\ x # Main /\ ek # "p" /\ hold' = [hold EXCEPT ![Conn(x)] = {}]
           /\ wk' = [wk EXCEPT ![x].pc = "gone"] /\ UNCHANGED <<em, conn, cell, sigchld, handling, stdin>>
  <2>1. x \in Workers /\ wk[x].pc = "echo" /\ Conn(x) = wk[x].for
    BY <1>1, <1>3, EchoingTo
  <2>2. {} \in SUBSET hold[wk[x].for] /\ sigchld' = (sigchld \/ "gone" = "zombie")
    BY <1>3 DEF EInv, ETypes
  <2> QED BY <1>1, <1>3, <2>1, <2>2, WorkerEnds
<1>4. CASE /\ x = Main /\ hold' = [hold EXCEPT ![Conn(x)] = {}] /\ UNCHANGED wk
           /\ em' = (IF ek = "s" THEN "select" ELSE "accept") /\ UNCHANGED <<conn, cell, sigchld, handling, stdin>>
  <2> USE DEF EInv
  <2>1. ek \in {"i", "s"} /\ em = "echo" /\ Conn(x) = conn /\ conn \in EClients
    BY <1>1, <1>4, EchoingTo
  <2>2. \A w \in Workers : wk[w].pc = "none"
    BY <2>1 DEF Labels, ETypes
  <2>3. \A c \in EClients : hold'[c] \subseteq hold[c] /\ hold' \in [EClients -> SUBSET Parties]
    BY <1>4, <2>1 DEF ETypes
  <2>4. ETypes'
    BY <1>1, <1>4, <2>3 DEF ETypes
  <2>5. Labels' /\ OwnCell' /\ Served' /\ OneWorker' /\ Accepted' /\ Holding' /\ NoZombieLeft'
    BY <1>1, <1>4, <2>1, <2>2
       DEF Labels, OwnCell, Served, OneWorker, Accepted, Holding, NoZombieLeft
  <2>6. AllOnTheirWay'
    <3>1. \A c \in EClients : Dropped(c) => Dropped(c)'
      BY <1>1, <1>4, <2>1, <2>3 DEF Dropped, EUp
    <3> QED BY <1>1, <3>1, DropsStay
  <2> QED BY <2>4, <2>5, <2>6
<1> QED BY <1>2, <1>3, <1>4 DEF echo_ends

LEMMA FailsKeeps == ASSUME EInv, NEW x \in Parties, echo_fails(x) PROVE EInv'
<1>1. Echoes(x) /\ UNCHANGED <<ek, ec>>
  BY DEF echo_fails
<1>2. CASE ek = "p" /\ ChildExits(x)
  BY <1>1, <1>2, ChildKeeps
<1>3. CASE ek # "p" /\ em' = "exit" /\ UNCHANGED <<conn, wk, cell, hold, sigchld, handling, stdin>>
  <2> USE DEF EInv
  <2>1. ETypes'
    BY <1>1, <1>3 DEF ETypes
  <2>2. Labels' /\ OwnCell' /\ Served' /\ OneWorker' /\ Accepted' /\ Holding' /\ NoZombieLeft'
    BY <1>1, <1>3 DEF Labels, OwnCell, Served, OneWorker, Accepted, Holding, NoZombieLeft, Of, EUp
  <2>3. AllOnTheirWay'
    <3>1. \A c \in EClients : Dropped(c)'
      BY <1>3 DEF Dropped, EUp
    <3> QED BY <1>1, <3>1, DropsStay
  <2> QED BY <2>1, <2>2, <2>3
<1> QED BY <1>2, <1>3 DEF echo_fails

(* Main *)

LEMMA HandlerKeeps == ASSUME EInv, sigchld_handler \/ Deliver PROVE EInv'
<1> USE DEF EInv
<1>1. CASE sigchld_handler
  <2>1. CASE (\A w \in Workers : wk[w].pc # "zombie") /\ handling' = FALSE /\ UNCHANGED wk
    <3> USE <1>1, <2>1 DEF sigchld_handler
    <3>1. ETypes' /\ Labels' /\ OwnCell' /\ Served' /\ OneWorker' /\ Accepted' /\ Holding' /\ NoZombieLeft'
      BY DEF ETypes, Labels, OwnCell, Served, OneWorker, Accepted, Holding, NoZombieLeft, Of, EUp, NextWorker
    <3>2. AllOnTheirWay'
      BY DropsStay DEF Dropped, EUp
    <3> QED BY <3>1, <3>2
  <2>2. ASSUME NEW x \in Workers, wk[x].pc = "zombie", wk' = [wk EXCEPT ![x].pc = "gone"], UNCHANGED handling
        PROVE  EInv'
    <3> USE <1>1, <2>2 DEF sigchld_handler
    <3>1. /\ wk'[x].pc = "gone" /\ wk'[x].for = wk[x].for /\ wk'[x].arg = wk[x].arg
          /\ \A w \in Workers : w # x => wk'[w] = wk[w]
          /\ wk' \in [Workers -> Worker]
      BY DEF ETypes, Worker
    <3>2. /\ \A w \in Workers : Of(w)' = Of(w)
          /\ \A w \in Workers : wk'[w].pc = "none" <=> wk[w].pc = "none"
          /\ \A w \in Workers : wk'[w].pc \in {"copy", "echo"} => wk'[w] = wk[w]
      BY <3>1 DEF Of
    <3>3. NextWorker' = NextWorker
      BY <3>2 DEF NextWorker
    <3>4. ETypes'
      BY <3>1 DEF ETypes
    <3>5. Labels' /\ OwnCell' /\ Served' /\ OneWorker' /\ Accepted'
      BY <3>1, <3>2, <3>3 DEF Labels, OwnCell, Served, OneWorker, Accepted
    <3>6. Holding' /\ NoZombieLeft'
      BY <3>1, <3>2 DEF Holding, NoZombieLeft, EUp
    <3>7. AllOnTheirWay'
      BY DropsStay DEF Dropped, EUp
    <3> QED BY <3>4, <3>5, <3>6, <3>7
  <2> QED BY <1>1, <2>1, <2>2 DEF sigchld_handler
<1>2. CASE Deliver
  <2> USE <1>2 DEF Deliver
  <2>1. ETypes' /\ Labels' /\ OwnCell' /\ Served' /\ OneWorker' /\ Accepted' /\ Holding' /\ NoZombieLeft'
    BY DEF ETypes, Labels, OwnCell, Served, OneWorker, Accepted, Holding, NoZombieLeft, Of, EUp, NextWorker
  <2>2. AllOnTheirWay'
    BY DropsStay DEF Dropped, EUp
  <2> QED BY <2>1, <2>2
<1> QED BY <1>1, <1>2

LEMMA StdinKeeps == ASSUME EInv, UserTypes \/ SelectEither PROVE EInv'
<1> USE DEF EInv
<1>1. CASE UserTypes
  <2> USE <1>1 DEF UserTypes
  <2>1. ETypes' /\ Labels' /\ OwnCell' /\ Served' /\ OneWorker' /\ Accepted' /\ Holding' /\ NoZombieLeft'
    BY DEF ETypes, Labels, OwnCell, Served, OneWorker, Accepted, Holding, NoZombieLeft, Of, EUp, NextWorker
  <2>2. AllOnTheirWay'
    BY DropsStay DEF Dropped, EUp
  <2> QED BY <2>1, <2>2
<1>2. CASE SelectEither
  <2>1. /\ ek = "s" /\ em = "select" /\ em' \in {"exit", "accept", "select"}
        /\ stdin' \in {"quiet", "line", "eof"}
        /\ UNCHANGED <<ek, conn, wk, cell, hold, sigchld, handling, ec>>
    BY <1>2 DEF SelectEither, Labels, ETypes
  <2>2. ETypes' /\ Labels' /\ OwnCell' /\ Served' /\ OneWorker' /\ Accepted' /\ NoZombieLeft' /\ Holding'
    BY <2>1 DEF ETypes, Labels, OwnCell, Served, OneWorker, Accepted, NoZombieLeft, Of, Holding
  <2>3. AllOnTheirWay'
    <3>1. \A c \in EClients : Dropped(c) => Dropped(c)'
      BY <2>1 DEF Dropped, EUp
    <3> QED BY <2>1, <3>1, DropsStay
  <2> QED BY <2>2, <2>3
<1> QED BY <1>1, <1>2

LEMMA AcceptKeeps == ASSUME EInv, NEW c \in EClients, EAccept(c) PROVE EInv'
<1> USE DEF EInv
<1>1. /\ em = "accept" /\ ec[c].st # "idle" /\ ~ ec[c].met /\ conn' = c /\ hold' = [hold EXCEPT ![c] = {Main}]
      /\ ec' = [ec EXCEPT ![c].met = TRUE]
      /\ cell' = (IF ek = "t" THEN [cell EXCEPT ![NextWorker] = c] ELSE cell)
      /\ UNCHANGED <<ek, wk, sigchld, handling, stdin>>
  BY DEF EAccept, Pending
<1>2. /\ em' \in {"fork", "create", "echo"} /\ (em' = "fork" => ek = "p")
      /\ (em' = "create" <=> ek = "t") /\ (em' = "echo" => ek \in {"i", "s"})
  BY DEF EAccept, ETypes
<1>3. \A w \in Workers : wk[w].pc # "none" => Of(w) # c
  BY <1>1 DEF Served
<1>4. NextWorker \in Workers /\ wk[NextWorker].pc = "none"
  BY <1>3, WorkerLeft
<1>5. /\ ec' \in [EClients -> EClient]
      /\ \A d \in EClients : /\ d # c => ec'[d] = ec[d]
                             /\ ec'[d].st = ec[d].st /\ ec'[d].typed = ec[d].typed /\ ec'[d].wire = ec[d].wire
                             /\ ec'[d].back = ec[d].back /\ ec'[d].printed = ec[d].printed
      /\ ec'[c].met
  <2>1. ec \in [EClients -> EClient] /\ ec[c] \in EClient
    BY EFields DEF ETypes
  <2>2. PICK r : r = [ec[c] EXCEPT !.met = TRUE]
    OBVIOUS
  <2>3. /\ r \in EClient /\ r.met /\ r.st = ec[c].st /\ r.typed = ec[c].typed /\ r.wire = ec[c].wire
        /\ r.back = ec[c].back /\ r.printed = ec[c].printed
    BY <2>1, <2>2 DEF EClient
  <2>4. ec' = [ec EXCEPT ![c] = r]
    BY <1>1, <2>2
  <2> QED BY <2>1, <2>3, <2>4
<1>6. /\ hold'[c] = {Main} /\ (\A d \in EClients : d # c => hold'[d] = hold[d])
      /\ hold' \in [EClients -> SUBSET Parties]
  BY <1>1, WorkersAre DEF ETypes
<1>7. /\ cell' \in [Workers -> {0} \cup EClients] /\ (ek = "t" => cell'[NextWorker] = c)
      /\ \A w \in Workers : w # NextWorker => cell'[w] = cell[w]
  BY <1>1, <1>4 DEF ETypes
<1>8. \A w \in Workers : wk[w].pc # "none" => Of(w)' = Of(w) /\ Of(w) \in EClients /\ Of(w) # c
  BY <1>1, <1>3, <1>4, <1>7 DEF Of, Served
<1>9. ETypes' /\ Labels' /\ OwnCell' /\ NoZombieLeft'
  BY <1>1, <1>2, <1>5, <1>6, <1>7 DEF ETypes, Labels, OwnCell, NoZombieLeft
<1>10. Served' /\ OneWorker'
  BY <1>1, <1>5, <1>8 DEF Served, OneWorker
<1>11. Accepted'
  <2>1. NextWorker' = NextWorker
    BY <1>1 DEF NextWorker
  <2> QED BY <1>1, <1>2, <1>5, <1>6, <1>7, <1>8, <2>1 DEF Accepted
<1>12. Holding'
  <2> SUFFICES ASSUME NEW w \in Workers, wk[w].pc \in {"copy", "echo"}
               PROVE  /\ ek = "p" /\ wk[w].pc = "echo" => w \in hold'[wk[w].for]
                      /\ ek = "t" => Main \in hold'[Of(w)']
    BY <1>1 DEF Holding
  <2>1. Of(w)' = Of(w) /\ hold'[Of(w)] = hold[Of(w)]
    BY <1>6, <1>8
  <2>2. wk[w].pc = "echo" => Of(w) = wk[w].for
    BY DEF Of
  <2> QED BY <1>1, <2>1, <2>2 DEF Holding, EUp
<1>13. AllOnTheirWay'
  <2> SUFFICES ASSUME NEW d \in EClients
               PROVE  OnItsWay(d, ec'[d], Dropped(d)') /\ Printed(d, ec'[d], Dropped(d)')
    BY DEF AllOnTheirWay
  <2>1. OnItsWay(d, ec[d], Dropped(d)) /\ Printed(d, ec[d], Dropped(d))
    BY DEF AllOnTheirWay
  <2>2. Dropped(d) => Dropped(d)'
    BY <1>1, <1>5, <1>6 DEF Dropped, EUp
  <2>3. ec'[d].st = "idle" => d # c
    BY <1>1, <1>5
  <2> HIDE DEF Dropped
  <2>4. Printed(d, ec'[d], Dropped(d)')
    BY <1>5, <2>1, <2>2 DEF Printed
  <2>5. OnItsWay(d, ec'[d], Dropped(d)')
    BY <1>5, <2>1, <2>2, <2>3 DEF OnItsWay
  <2> QED BY <2>4, <2>5
<1> QED BY <1>9, <1>10, <1>11, <1>12, <1>13

LEMMA ForkKeeps == ASSUME EInv, EFork PROVE EInv'
<1> USE DEF EInv
<1>1. /\ em = "fork" /\ em' = "close" /\ ek = "p" /\ UNCHANGED <<ek, conn, cell, sigchld, handling, stdin, ec>>
      /\ conn \in EClients /\ ec[conn].met /\ Main \in hold[conn]
      /\ \A w \in Workers : wk[w].pc # "none" => Of(w) # conn
  BY DEF EFork, Labels, Accepted
<1>2. PICK x \in Workers : x = NextWorker /\ wk[x].pc = "none"
  BY <1>1, WorkerLeft
<1>3. /\ wk' = [wk EXCEPT ![x] = [pc |-> "echo", arg |-> 0, for |-> conn]]
      /\ hold' = [hold EXCEPT ![conn] = @ \cup {x}]
  BY <1>2 DEF EFork
<1>4. /\ wk'[x].pc = "echo" /\ wk'[x].for = conn /\ \A w \in Workers : w # x => wk'[w] = wk[w]
      /\ wk' \in [Workers -> Worker]
  BY <1>1, <1>3 DEF ETypes, Worker
<1>5. /\ hold'[conn] = hold[conn] \cup {x} /\ (\A c \in EClients : c # conn => hold'[c] = hold[c])
      /\ hold' \in [EClients -> SUBSET Parties]
  BY <1>1, <1>3, WorkersAre DEF ETypes
<1>6. Of(x)' = conn /\ \A w \in Workers : w # x => Of(w)' = Of(w)
  BY <1>1, <1>4 DEF Of
<1>7. ETypes' /\ NoZombieLeft'
  BY <1>1, <1>4, <1>5 DEF ETypes, NoZombieLeft
<1>8. Labels' /\ OwnCell' /\ Accepted'
  BY <1>1, <1>4 DEF Labels, OwnCell, Accepted
<1>9. Served' /\ OneWorker'
  <2>1. Served'
    BY <1>1, <1>4, <1>6 DEF Served
  <2>2. OneWorker'
    BY <1>1, <1>4, <1>6 DEF OneWorker
  <2> QED BY <2>1, <2>2
<1>10. Holding'
  <2> SUFFICES ASSUME NEW w \in Workers, wk'[w].pc = "echo" PROVE w \in hold'[wk'[w].for]
    BY <1>1 DEF Holding
  <2>1. CASE w = x
    BY <1>4, <1>5, <2>1
  <2>2. CASE w # x
    <3>1. wk[w].pc = "echo" /\ w \in hold[wk[w].for] /\ wk'[w] = wk[w] /\ wk[w].for = Of(w)
      BY <1>1, <1>4, <2>2 DEF Holding, Of
    <3> QED BY <1>1, <1>5, <3>1 DEF Served
  <2> QED BY <2>1, <2>2
<1>11. AllOnTheirWay'
  <2>1. \A c \in EClients : Dropped(c) => Dropped(c)'
    BY <1>1, <1>5 DEF Dropped, EUp
  <2> QED BY <1>1, <2>1, DropsStay
<1> QED BY <1>7, <1>8, <1>9, <1>10, <1>11

LEMMA CloseKeeps == ASSUME EInv, ParentCloses PROVE EInv'
<1> USE DEF EInv
<1>1. /\ em = "close" /\ em' = "accept" /\ ek = "p" /\ hold' = [hold EXCEPT ![conn] = @ \ {Main}]
      /\ UNCHANGED <<ek, conn, wk, cell, sigchld, handling, stdin, ec>>
  BY DEF ParentCloses, Labels
<1>2. /\ hold' \in [EClients -> SUBSET Parties] /\ \A c \in EClients : hold[c] \ {Main} \subseteq hold'[c]
      /\ \A c \in EClients : hold'[c] \subseteq hold[c]
  BY <1>1 DEF ETypes
<1>3. ETypes' /\ Labels' /\ OwnCell' /\ Served' /\ OneWorker' /\ Accepted' /\ NoZombieLeft'
  BY <1>1, <1>2 DEF ETypes, Labels, OwnCell, Served, OneWorker, Accepted, NoZombieLeft, Of
<1>4. Holding'
  <2> SUFFICES ASSUME NEW w \in Workers, wk[w].pc = "echo" PROVE w \in hold'[wk[w].for]
    BY <1>1 DEF Holding
  <2>1. w \in hold[wk[w].for] /\ w # Main /\ wk[w].for \in EClients
    BY <1>1, WorkersAre DEF Holding, Served, Of
  <2> QED BY <1>2, <2>1
<1>5. AllOnTheirWay'
  <2>1. \A c \in EClients : Dropped(c) => Dropped(c)'
    BY <1>1, <1>2 DEF Dropped, EUp
  <2> QED BY <1>1, <2>1, DropsStay
<1> QED BY <1>3, <1>4, <1>5

LEMMA ThreadCreateKeeps == ASSUME EInv, ECreate PROVE EInv'
<1> USE DEF EInv
<1>1. /\ em = "create" /\ em' = "accept" /\ ek = "t"
      /\ UNCHANGED <<ek, conn, cell, hold, sigchld, handling, stdin, ec>>
      /\ conn \in EClients /\ ec[conn].met /\ Main \in hold[conn] /\ cell[NextWorker] = conn
      /\ \A w \in Workers : wk[w].pc # "none" => Of(w) # conn
  BY DEF ECreate, Labels, Accepted
<1>2. PICK x \in Workers : x = NextWorker /\ wk[x].pc = "none"
  BY <1>1, WorkerLeft
<1>3. wk' = [wk EXCEPT ![x] = [pc |-> "copy", arg |-> x, for |-> 0]]
  BY <1>2 DEF ECreate
<1>4. /\ wk'[x].pc = "copy" /\ wk'[x].arg = x /\ \A w \in Workers : w # x => wk'[w] = wk[w]
      /\ wk' \in [Workers -> Worker]
  BY <1>3 DEF ETypes, Worker
<1>5. Of(x)' = conn /\ \A w \in Workers : w # x => Of(w)' = Of(w)
  BY <1>1, <1>2, <1>4 DEF Of
<1>6. ETypes' /\ NoZombieLeft'
  BY <1>1, <1>4 DEF ETypes, NoZombieLeft
<1>7. Labels' /\ OwnCell' /\ Accepted'
  BY <1>1, <1>4 DEF Labels, OwnCell, Accepted
<1>8. Served'
  BY <1>1, <1>4, <1>5 DEF Served
<1>9. OneWorker'
  BY <1>1, <1>4, <1>5 DEF OneWorker
<1>10. Holding'
  <2> SUFFICES ASSUME NEW w \in Workers, wk'[w].pc \in {"copy", "echo"} PROVE Main \in hold[Of(w)']
    BY <1>1 DEF Holding
  <2> QED BY <1>1, <1>4, <1>5 DEF Holding, EUp
<1>11. AllOnTheirWay'
  <2>1. \A c \in EClients : Dropped(c) => Dropped(c)'
    BY <1>1 DEF Dropped, EUp
  <2> QED BY <1>1, <2>1, DropsStay
<1> QED BY <1>6, <1>7, <1>8, <1>9, <1>10, <1>11

LEMMA CopyKeeps == ASSUME EInv, NEW x \in Workers, ThreadCopies(x) PROVE EInv'
<1> USE DEF EInv
<1>1. /\ EUp /\ wk[x].pc = "copy" /\ wk[x].arg = x /\ ek = "t" /\ Of(x) = cell[x] /\ Of(x) \in EClients
      /\ wk' = [wk EXCEPT ![x].pc = "echo", ![x].for = cell[x]] /\ cell' = [cell EXCEPT ![x] = 0]
      /\ UNCHANGED <<ek, em, conn, hold, sigchld, handling, stdin, ec>>
  BY DEF ThreadCopies, OwnCell, Labels, Of, Served
<1>2. /\ wk'[x].pc = "echo" /\ wk'[x].for = cell[x] /\ \A w \in Workers : w # x => wk'[w] = wk[w]
      /\ wk' \in [Workers -> Worker] /\ cell' \in [Workers -> {0} \cup EClients]
      /\ \A w \in Workers : w # x => cell'[w] = cell[w]
  <2>1. wk \in [Workers -> Worker] /\ wk[x] \in Worker
        /\ cell \in [Workers -> {0} \cup EClients] /\ cell[x] \in EClients
    BY <1>1, EFields DEF ETypes
  <2>2. [wk[x] EXCEPT !.pc = "echo", !.for = cell[x]] \in Worker
    BY <2>1 DEF Worker
  <2>3. wk' = [wk EXCEPT ![x] = [wk[x] EXCEPT !.pc = "echo", !.for = cell[x]]]
    BY <1>1, <2>1 DEF Worker
  <2>4. wk'[x] = [wk[x] EXCEPT !.pc = "echo", !.for = cell[x]] /\ wk' \in [Workers -> Worker]
    BY <2>1, <2>2, <2>3
  <2>5. wk'[x].pc = "echo" /\ wk'[x].for = cell[x] /\ \A w \in Workers : w # x => wk'[w] = wk[w]
    BY <2>1, <2>3, <2>4 DEF Worker
  <2> QED BY <1>1, <2>1, <2>4, <2>5
<1>3. (\A w \in Workers : Of(w)' = Of(w)) /\ \A w \in Workers : wk'[w].pc = "none" <=> wk[w].pc = "none"
  BY <1>1, <1>2 DEF Of
<1>4. ETypes' /\ NoZombieLeft'
  BY <1>1, <1>2 DEF ETypes, NoZombieLeft
<1>5. Labels' /\ OwnCell' /\ Served' /\ OneWorker'
  BY <1>1, <1>2, <1>3 DEF Labels, OwnCell, Served, OneWorker
<1>6. Accepted'
  <2> SUFFICES ASSUME em \in {"fork", "create", "echo"}
               PROVE  em = "create" => cell'[NextWorker'] = conn
    BY <1>1, <1>3 DEF Accepted
  <2>1. NextWorker' = NextWorker
    BY <1>3 DEF NextWorker
  <2>2. conn \in EClients /\ \A w \in Workers : wk[w].pc # "none" => Of(w) # conn
    BY DEF Accepted
  <2>3. NextWorker \in Workers /\ wk[NextWorker].pc = "none"
    BY <2>2, WorkerLeft
  <2> QED BY <1>1, <1>2, <2>1, <2>3 DEF Accepted
<1>7. Holding'
  BY <1>1, <1>2, <1>3 DEF Holding, EUp
<1>8. AllOnTheirWay'
  <2>1. \A c \in EClients : Dropped(c) => Dropped(c)'
    BY <1>1 DEF Dropped, EUp
  <2> QED BY <1>1, <2>1, DropsStay
<1> QED BY <1>4, <1>5, <1>6, <1>7, <1>8

LEMMA EInvNext == EInv /\ [ENext]_echovars => EInv'
<1> SUFFICES ASSUME EInv, [ENext]_echovars PROVE EInv'
  OBVIOUS
<1>1. CASE UNCHANGED echovars
  <2> USE <1>1 DEF echovars, EInv
  <2>1. ETypes' /\ Labels' /\ OwnCell' /\ Served' /\ OneWorker' /\ Accepted' /\ Holding' /\ NoZombieLeft'
    BY DEF ETypes, Labels, OwnCell, Served, OneWorker, Accepted, Holding, NoZombieLeft, Of, EUp, NextWorker
  <2>2. AllOnTheirWay'
    BY DropsStay DEF Dropped, EUp
  <2> QED BY <2>1, <2>2
<1>2. CASE EMainStep
  BY <1>2, StdinKeeps, AcceptKeeps, ForkKeeps, CloseKeeps, ThreadCreateKeeps DEF EMainStep
<1>3. ASSUME NEW x \in Parties, EPartyStep(x) PROVE EInv'
  BY <1>3, EchoKeeps, EndsKeeps, FailsKeeps DEF EPartyStep
<1>4. ASSUME NEW w \in Workers, EWorkerStep(w) PROVE EInv'
  BY <1>4, CopyKeeps DEF EWorkerStep
<1>5. ASSUME NEW c \in EClients, ClientStep(c) PROVE EInv'
  BY <1>5, ClientKeeps
<1>6. CASE sigchld_handler \/ Deliver \/ UserTypes
  BY <1>6, HandlerKeeps, StdinKeeps
<1> QED BY <1>1, <1>2, <1>3, <1>4, <1>5, <1>6 DEF ENext

LEMMA InvPrinted == EInv => PrintedIsEchoed /\ NoZombieLeft
<1> SUFFICES ASSUME EInv PROVE PrintedIsEchoed
  BY DEF EInv
<1> USE DEF EInv
<1>1. \A c \in EClients : \A k \in DOMAIN ec[c].printed :
         ec[c].printed[k].line = <<c, k>> /\ (~ ec[c].printed[k].echoed => Dropped(c))
  BY DEF AllOnTheirWay, Printed
<1>2. \A w \in Workers : wk[w].pc = "echo" => wk[w].for # 0 /\ ~ \E v \in Workers \ {w} :
                            wk[v].pc = "echo" /\ wk[v].for = wk[w].for
  BY EchoServersAssumption DEF Served, OneWorker, Of
<1> QED BY <1>1, <1>2 DEF PrintedIsEchoed

----------------------------------------------------------------------------
(* The server that selects                                                 *)

Bytes == {"x", "n"}
SClient == [st : {"idle", "queued", "open", "closed", "reset"}, wire : Seq(Bytes), sent : Nat, got : Seq(Seq(Bytes))]
Pool == [maxfd : Nat, read_set : SUBSET (Listenfd .. FdSetSize - 1), ready_set : SUBSET (Listenfd .. FdSetSize - 1),
         nready : Nat, maxi : -1 .. FdSetSize - 1, clientfd : [Slots -> {NoClient} \cup (4 .. FdSetSize - 1)]]
STypes == /\ habit \in [SClients -> {"lockstep", "burst", "partial"}]
          /\ smain \in {"select", "accept", "check", "read", "exit"}
          /\ pool \in Pool /\ idx \in Nat /\ part \in Seq(Bytes) /\ byte_cnt \in Nat
          /\ sfds \in [4 .. FdSetSize - 1 -> {0} \cup SClients] /\ sc \in [SClients -> SClient]

(* The pool describes the open connections at every label, a slot for each *)
(* descriptor; what is decremented after Accept counts it.                 *)
Used(i) == pool.clientfd[i] # NoClient
Slotting(clientfd, fds) ==
    /\ \A i \in Slots : clientfd[i] # NoClient => clientfd[i] \in DOMAIN fds /\ fds[clientfd[i]] # 0
    /\ \A f \in DOMAIN fds : fds[f] # 0 => \E i \in Slots : clientfd[i] = f
    /\ \A i, j \in Slots : clientfd[i] # NoClient /\ clientfd[i] = clientfd[j] => i = j
Slotted == Slotting(pool.clientfd, sfds)
Watched == /\ pool.read_set = {f \in DOMAIN sfds : sfds[f] # 0} \cup {Listenfd}
           /\ \A f \in pool.read_set : f <= pool.maxfd
           /\ \A i \in Slots : Used(i) => i <= pool.maxi
Reading == /\ smain = "accept" => pool.nready >= 1
           /\ smain = "read" => idx \in Slots /\ Used(idx)

(* A line of a client in lockstep is read whole: none of it is left in the *)
(* buffer, and what comes after it was not sent yet.                       *)
InLockstep(c) == habit[c] = "lockstep"
Whole == /\ part # << >> => smain \in {"read", "exit"}
         /\ smain = "read" /\ InLockstep(sfds[Fd]) => part = << >>
         /\ \A c \in SClients : InLockstep(c) =>
              /\ sc[c].wire \in {<< >>, Line}
              /\ \A k \in DOMAIN sc[c].got : sc[c].got[k] = Line
              /\ Len(sc[c].got) + (IF sc[c].wire = << >> THEN 0 ELSE 1) = sc[c].sent

(* What FlattenSeq and SumFunction compute is defined by recursion: the    *)
(* functions that do exist for what was sent back so far.                  *)
Flat(s, h) == h = [i \in 1 .. Len(s) |-> IF i = 1 THEN s[i] ELSE h[i - 1] \o s[i]]
Flattened == \A c \in SClients : \E h \in [1 .. Len(sc[c].got) -> Seq(Bytes)] : Flat(sc[c].got, h)
Pick(s) == CHOOSE x \in s : TRUE
SumsTo(f, S, g) == g = [s \in SUBSET S |-> IF s = {} THEN 0 ELSE f[Pick(s)] + g[s \ {Pick(s)}]]
SentBack == [c \in SClients |-> Len(FlattenSeq(sc[c].got))]
SumOf(f, S, v) == \E g \in [SUBSET S -> Nat] : SumsTo(f, S, g) /\ v = g[S]
Counted == SumOf(SentBack, SClients, byte_cnt)

SInv == STypes /\ Slotted /\ Watched /\ Reading /\ Whole /\ Flattened /\ Counted

(* What SumFunction and FlattenSeq are: the function that satisfies their  *)
(* equation is the one they choose.                                        *)

LEMMA PickIn == ASSUME NEW s, s # {} PROVE Pick(s) \in s
BY DEF Pick

(* A nonempty family of subsets of a finite set has a minimal element.     *)
LEMMA MinimalSubset ==
    ASSUME NEW S, IsFiniteSet(S), NEW F \in SUBSET (SUBSET S), F # {}
    PROVE  \E m \in F : \A s \in F : s \subseteq m => s = m
<1>1. IsWellFoundedOn(StrictSubsetOrdering(S), SUBSET S)
  BY FS_StrictSubsetOrderingWellFounded, FS_FiniteSubsetsOfFinite
<1>2. PICK m \in F : \A s \in F : ~ (<<s, m>> \in StrictSubsetOrdering(S))
  BY <1>1, WFMin
<1>3. ASSUME NEW s \in F, s \subseteq m, s # m PROVE FALSE
  <2>1. <<s, m>> \in (SUBSET S) \X (SUBSET S) /\ <<s, m>>[1] = s /\ <<s, m>>[2] = m
    OBVIOUS
  <2> QED BY <1>2, <1>3, <2>1 DEF StrictSubsetOrdering
<1> QED BY <1>2, <1>3

LEMMA SumsUnique ==
    ASSUME NEW f, NEW S, IsFiniteSet(S), NEW g, NEW h, SumsTo(f, S, g), SumsTo(f, S, h)
    PROVE  g[S] = h[S]
<1> DEFINE F == {s \in SUBSET S : g[s] # h[s]}
<1>1. SUFFICES ASSUME F # {} PROVE FALSE
  OBVIOUS
<1>2. PICK m \in F : \A s \in F : s \subseteq m => s = m
  <2>1. F \in SUBSET (SUBSET S)
    OBVIOUS
  <2> HIDE DEF F
  <2> QED BY <1>1, <2>1, MinimalSubset
<1>3. /\ g[m] = IF m = {} THEN 0 ELSE f[Pick(m)] + g[m \ {Pick(m)}]
      /\ h[m] = IF m = {} THEN 0 ELSE f[Pick(m)] + h[m \ {Pick(m)}]
  BY DEF SumsTo
<1>4. m # {} /\ g[m \ {Pick(m)}] # h[m \ {Pick(m)}]
  BY <1>2, <1>3
<1>5. m \ {Pick(m)} \in F /\ m \ {Pick(m)} # m
  BY <1>4, PickIn
<1> QED BY <1>2, <1>5

LEMMA SumIs ==
    ASSUME NEW S, IsFiniteSet(S), NEW f \in [S -> Nat], NEW g, SumsTo(f, S, g)
    PROVE  SumFunction(f) = g[S]
<1> DEFINE h == CHOOSE k : SumsTo(f, S, k)
<1>1. SumFunction(f) = h[S]
  BY DEF SumFunction, SumFunctionOnSet, FoldFunctionOnSet, MapThenFoldSet, SumsTo, Pick
<1>2. SumsTo(f, S, h)
  OBVIOUS
<1> HIDE DEF h
<1> QED BY <1>1, <1>2, SumsUnique

(* When one term grows, the sums of the sets it is in do.                  *)
Grows(f, e, S, c, n) == e[c] = f[c] + n /\ \A d \in S : d # c => e[d] = f[d]

LEMMA SumGrows ==
    ASSUME NEW S, NEW f \in [S -> Nat], NEW v, SumOf(f, S, v), NEW c \in S, NEW n \in Nat,
           NEW e, Grows(f, e, S, c, n)
    PROVE  SumOf(e, S, v + n)
<1> USE DEF Grows
<1>0. PICK g \in [SUBSET S -> Nat] : SumsTo(f, S, g) /\ v = g[S]
  BY DEF SumOf
<1> DEFINE h == [s \in SUBSET S |-> IF c \in s THEN g[s] + n ELSE g[s]]
<1>1. h \in [SUBSET S -> Nat] /\ h[S] = v + n
  BY <1>0
<1>2. ASSUME NEW s \in SUBSET S
      PROVE  h[s] = IF s = {} THEN 0 ELSE e[Pick(s)] + h[s \ {Pick(s)}]
  <2>1. CASE s = {}
    BY <1>0, <2>1 DEF SumsTo
  <2>2. CASE s # {}
    <3>1. PICK p : p = Pick(s) /\ p \in s
      BY <2>2, PickIn
    <3>2. PICK t : t = s \ {p} /\ t \in SUBSET S
      OBVIOUS
    <3>3. g[s] = f[p] + g[t] /\ g[t] \in Nat /\ f[p] \in Nat
      BY <1>0, <2>2, <3>1, <3>2 DEF SumsTo
    <3>4. CASE c \in t
      <4>1. p # c /\ e[p] = f[p] /\ h[t] = g[t] + n /\ h[s] = g[s] + n
        BY <3>1, <3>2, <3>4
      <4> QED BY <2>2, <3>1, <3>2, <3>3, <4>1
    <3>5. CASE c \notin t /\ c = p
      <4>1. e[p] = f[p] + n /\ h[t] = g[t] /\ h[s] = g[s] + n
        BY <3>1, <3>2, <3>5
      <4> QED BY <2>2, <3>1, <3>2, <3>3, <4>1
    <3>6. CASE c \notin t /\ c # p
      <4>1. e[p] = f[p] /\ h[t] = g[t] /\ h[s] = g[s]
        BY <3>1, <3>2, <3>6
      <4> QED BY <2>2, <3>1, <3>2, <3>3, <4>1
    <3> QED BY <3>4, <3>5, <3>6
  <2> QED BY <2>1, <2>2
<1>3. SumsTo(e, S, h)
  <2>1. h = [s \in SUBSET S |-> h[s]]
    OBVIOUS
  <2> HIDE DEF h
  <2> QED BY <1>2, <2>1 DEF SumsTo
<1> HIDE DEF h
<1> QED BY <1>1, <1>3 DEF SumOf

LEMMA FlatUnique ==
    ASSUME NEW s \in Seq(Seq(Bytes)), NEW g, NEW h, Flat(s, g), Flat(s, h), NEW n \in 1 .. Len(s)
    PROVE  g[n] = h[n]
<1> DEFINE D == {i \in 1 .. Len(s) : g[i] # h[i]}
<1>1. SUFFICES ASSUME D # {} PROVE FALSE
  OBVIOUS
<1>2. Len(s) \in Nat /\ D \in SUBSET Nat
  OBVIOUS
<1>3. PICK m \in D : \A k \in D : ~ (<<k, m>> \in OpToRel(<, Nat))
  <2> HIDE DEF D
  <2> QED BY <1>1, <1>2, NatLessThanWellFounded, WFMin
<1>4. m # 1
  BY DEF Flat
<1>5. g[m] = g[m - 1] \o s[m] /\ h[m] = h[m - 1] \o s[m]
  BY <1>4 DEF Flat
<1>6. m - 1 \in 1 .. Len(s) /\ m - 1 < m /\ m - 1 \in Nat /\ m \in Nat
  BY <1>2, <1>4
<1>7. m - 1 \in D
  BY <1>5, <1>6
<1>8. <<m - 1, m>> \in Nat \X Nat /\ <<m - 1, m>>[1] < <<m - 1, m>>[2]
  BY <1>6
<1> QED BY <1>3, <1>7, <1>8 DEF OpToRel

LEMMA FlattenIs ==
    ASSUME NEW s \in Seq(Seq(Bytes)), NEW h, Flat(s, h)
    PROVE  FlattenSeq(s) = IF Len(s) = 0 THEN s ELSE h[Len(s)]
<1>1. CASE Len(s) = 0
  BY <1>1 DEF FlattenSeq
<1>2. CASE Len(s) # 0
  <2> DEFINE g == CHOOSE k : Flat(s, k)
  <2>1. FlattenSeq(s) = g[Len(s)]
    BY <1>2 DEF FlattenSeq, Flat
  <2>2. Flat(s, g) /\ Len(s) \in 1 .. Len(s)
    BY <1>2
  <2> HIDE DEF g
  <2> QED BY <1>2, <2>1, <2>2, FlatUnique
<1> QED BY <1>1, <1>2

(* One more line is sent back: the function for it, and the length.        *)
LEMMA FlattenAppend ==
    ASSUME NEW s \in Seq(Seq(Bytes)), NEW h \in [1 .. Len(s) -> Seq(Bytes)], Flat(s, h), NEW e \in Seq(Bytes)
    PROVE  /\ \E g \in [1 .. Len(Append(s, e)) -> Seq(Bytes)] : Flat(Append(s, e), g)
           /\ Len(FlattenSeq(s)) \in Nat /\ Len(e) \in Nat
           /\ Len(FlattenSeq(Append(s, e))) = Len(FlattenSeq(s)) + Len(e)
<1>1. PICK t : t = Append(s, e)
  OBVIOUS
<1>2. PICK n : n = Len(s)
  OBVIOUS
<1>3. /\ n \in Nat /\ t \in Seq(Seq(Bytes)) /\ Len(t) = n + 1 /\ t[n + 1] = e
      /\ \A i \in 1 .. n : t[i] = s[i] /\ s[i] \in Seq(Bytes)
  BY <1>1, <1>2
<1>4. \A a, b \in Seq(Bytes) : a \o b \in Seq(Bytes) /\ Len(a \o b) = Len(a) + Len(b)
  OBVIOUS
<1> DEFINE last == IF n = 0 THEN e ELSE h[n] \o e
           g == [i \in 1 .. n + 1 |-> IF i = n + 1 THEN last ELSE h[i]]
<1>5. last \in Seq(Bytes)
  BY <1>2, <1>3, <1>4
<1>6. g \in [1 .. Len(t) -> Seq(Bytes)]
  <2> HIDE DEF last
  <2> QED BY <1>2, <1>3, <1>5
<1>7. Flat(t, g)
  <2>1. ASSUME NEW i \in 1 .. n + 1 PROVE g[i] = IF i = 1 THEN t[i] ELSE g[i - 1] \o t[i]
    <3>1. CASE i = n + 1 /\ n = 0
      BY <1>3, <3>1
    <3>2. CASE i = n + 1 /\ n # 0
      <4>1. g[n] = h[n] /\ g[i] = h[n] \o e /\ i - 1 = n /\ i # 1
        BY <1>3, <3>2
      <4> HIDE DEF g
      <4> QED BY <1>3, <3>2, <4>1
    <3>3. CASE i # n + 1
      <4>1. i \in 1 .. n /\ g[i] = h[i] /\ t[i] = s[i]
        BY <1>3, <3>3
      <4>2. h[i] = IF i = 1 THEN s[i] ELSE h[i - 1] \o s[i]
        BY <1>2, <4>1 DEF Flat
      <4>3. i # 1 => g[i - 1] = h[i - 1]
        BY <1>3, <4>1
      <4> HIDE DEF g
      <4> QED BY <4>1, <4>2, <4>3
    <3> QED BY <3>1, <3>2, <3>3
  <2>2. g = [i \in 1 .. Len(t) |-> g[i]]
    BY <1>3
  <2> HIDE DEF g
  <2> QED BY <1>3, <2>1, <2>2 DEF Flat
<1>8. FlattenSeq(t) = last
  <2>1. FlattenSeq(t) = IF Len(t) = 0 THEN t ELSE g[Len(t)]
    <3> HIDE DEF g
    <3> QED BY <1>3, <1>7, FlattenIs
  <2> QED BY <1>3, <2>1
<1>9. FlattenSeq(s) = (IF n = 0 THEN << >> ELSE h[n]) /\ Len(e) \in Nat
  <2>1. Len(s) = 0 => s = << >>
    OBVIOUS
  <2> QED BY <1>2, <2>1, FlattenIs
<1>10. Len(last) = Len(FlattenSeq(s)) + Len(e) /\ Len(FlattenSeq(s)) \in Nat
  <2>1. CASE n = 0
    <3>1. Len(<< >>) = 0
      OBVIOUS
    <3> QED BY <1>9, <2>1, <3>1
  <2>2. CASE n # 0
    <3>1. h[n] \in Seq(Bytes) /\ Len(h[n]) \in Nat
      <4>1. n \in 1 .. Len(s)
        BY <1>2, <1>3, <2>2
      <4>2. h[n] \in Seq(Bytes)
        BY <4>1
      <4>3. \A a \in Seq(Bytes) : Len(a) \in Nat
        OBVIOUS
      <4> QED BY <4>2, <4>3
    <3>2. FlattenSeq(s) = h[n] /\ last = h[n] \o e
      BY <1>9, <2>2
    <3> HIDE DEF last
    <3> QED BY <1>4, <3>1, <3>2
  <2> QED BY <2>1, <2>2
<1> HIDE DEF g, last
<1> QED BY <1>1, <1>6, <1>7, <1>8, <1>9, <1>10

LEMMA SFields ==
    ASSUME STypes
    PROVE  /\ pool \in Pool /\ pool.maxfd \in Nat /\ pool.nready \in Nat /\ pool.maxi \in -1 .. FdSetSize - 1
           /\ pool.read_set \in SUBSET (Listenfd .. FdSetSize - 1)
           /\ pool.ready_set \in SUBSET (Listenfd .. FdSetSize - 1)
           /\ pool.clientfd \in [Slots -> {NoClient} \cup (4 .. FdSetSize - 1)]
           /\ \A c \in SClients :
                /\ sc[c] \in SClient /\ sc[c].wire \in Seq(Bytes) /\ sc[c].sent \in Nat
                /\ sc[c].got \in Seq(Seq(Bytes)) /\ sc[c].st \in {"idle", "queued", "open", "closed", "reset"}
                /\ Len(sc[c].got) \in Nat
           /\ DOMAIN sfds = 4 .. FdSetSize - 1
<1>1. \A s \in Seq(Seq(Bytes)) : Len(s) \in Nat
  OBVIOUS
<1>2. pool \in Pool /\ sc \in [SClients -> SClient] /\ DOMAIN sfds = 4 .. FdSetSize - 1
  BY DEF STypes
<1>3. \A c \in SClients :
         /\ sc[c] \in SClient /\ sc[c].wire \in Seq(Bytes) /\ sc[c].sent \in Nat
         /\ sc[c].got \in Seq(Seq(Bytes)) /\ sc[c].st \in {"idle", "queued", "open", "closed", "reset"}
  BY <1>2 DEF SClient
<1> QED BY <1>1, <1>2, <1>3 DEF Pool

LEMMA SlotsAre ==
    /\ Slots = 0 .. FdSetSize - 1 /\ FdSetSize \in Nat /\ FdSetSize > 4 /\ Listenfd = 3 /\ NoClient = -1
    /\ IsFiniteSet(SClients) /\ 0 \notin SClients /\ IsFiniteSet(Slots)
    /\ \A f \in 4 .. FdSetSize - 1 : f > 0 /\ f # NoClient /\ f # Listenfd /\ f \in Nat
BY SelectAssumption, FS_Interval DEF Slots, Listenfd, NoClient

LEMMA SInvInit == SelInit => SInv
<1> SUFFICES ASSUME SelInit PROVE SInv
  OBVIOUS
<1> USE DEF SelInit
<1>1. << >> \in Seq(Bytes) /\ << >> \in Seq(Seq(Bytes)) /\ Len(<< >>) = 0
  OBVIOUS
<1>2. \A c \in SClients : sc[c].got = << >> /\ sc[c].wire = << >> /\ sc[c].sent = 0
  OBVIOUS
<1>3. STypes
  <2>1. pool \in Pool
    BY SlotsAre DEF init_pool, Pool
  <2>2. sc \in [SClients -> SClient]
    BY <1>1 DEF SClient
  <2>3. /\ habit \in [SClients -> {"lockstep", "burst", "partial"}]
        /\ sfds \in [4 .. FdSetSize - 1 -> {0} \cup SClients]
    BY SelectAssumption
  <2> QED BY <1>1, <2>1, <2>2, <2>3 DEF STypes
<1>4. Slotted /\ Watched /\ Reading
  BY SlotsAre DEF Slotted, Slotting, Watched, Reading, Used, init_pool
<1>5. Whole
  BY <1>1, <1>2 DEF Whole
<1>6. Flattened
  <2> SUFFICES ASSUME NEW c \in SClients
               PROVE  \E h \in [1 .. Len(sc[c].got) -> Seq(Bytes)] : Flat(sc[c].got, h)
    BY DEF Flattened
  <2> DEFINE h == [i \in 1 .. 0 |-> << >>]
  <2>1. sc[c].got = << >> /\ 1 .. Len(sc[c].got) = {} /\ 1 .. 0 = {}
    BY <1>1, <1>2
  <2>2. h \in [1 .. Len(sc[c].got) -> Seq(Bytes)] /\ Flat(sc[c].got, h)
    BY <2>1 DEF Flat
  <2> QED BY <2>2
<1>7. Counted
  <2> DEFINE g == [s \in SUBSET SClients |-> 0]
  <2>1. \A c \in SClients : Len(FlattenSeq(sc[c].got)) = 0
    BY <1>1, <1>2 DEF FlattenSeq
  <2>2. SentBack = [c \in SClients |-> 0]
    BY <2>1 DEF SentBack
  <2>3. SumsTo(SentBack, SClients, g)
    <3>1. \A s \in SUBSET SClients : s # {} => SentBack[Pick(s)] = 0 /\ s \ {Pick(s)} \in SUBSET SClients
      BY <2>2, PickIn
    <3> QED BY <3>1 DEF SumsTo
  <2>4. g \in [SUBSET SClients -> Nat] /\ g[SClients] = 0
    OBVIOUS
  <2> HIDE DEF g
  <2> QED BY <2>3, <2>4 DEF Counted, SumOf
<1> QED BY <1>3, <1>4, <1>5, <1>6, <1>7 DEF SInv

(* While nothing is sent back, nothing is counted.                         *)
LEMMA NothingSentBack ==
    ASSUME Flattened, Counted, byte_cnt' = byte_cnt, \A c \in SClients : sc'[c].got = sc[c].got
    PROVE  Flattened' /\ Counted'
<1>1. Flattened'
  BY DEF Flattened
<1>2. SentBack' = SentBack
  BY DEF SentBack
<1> QED BY <1>1, <1>2 DEF Counted

(* A line is sent back, and counted.                                       *)
LEMMA LineSentBack ==
    ASSUME STypes, Flattened, Counted, NEW c \in SClients, NEW line \in Seq(Bytes),
           byte_cnt' = byte_cnt + Len(line),
           sc'[c].got = Append(sc[c].got, line), \A d \in SClients : d # c => sc'[d].got = sc[d].got
    PROVE  Flattened' /\ Counted' /\ byte_cnt' \in Nat
<1>1. \A d \in SClients : sc[d].got \in Seq(Seq(Bytes)) /\ Len(sc[d].got) \in Nat
  BY SFields
<1>2. PICK h \in [1 .. Len(sc[c].got) -> Seq(Bytes)] : Flat(sc[c].got, h)
  BY DEF Flattened
<1>3. /\ \E g \in [1 .. Len(sc'[c].got) -> Seq(Bytes)] : Flat(sc'[c].got, g)
      /\ Len(FlattenSeq(sc[c].got)) \in Nat /\ Len(line) \in Nat
      /\ Len(FlattenSeq(sc'[c].got)) = Len(FlattenSeq(sc[c].got)) + Len(line)
  BY <1>1, <1>2, FlattenAppend
<1>4. Flattened'
  <2> SUFFICES ASSUME NEW d \in SClients
               PROVE  \E g \in [1 .. Len(sc'[d].got) -> Seq(Bytes)] : Flat(sc'[d].got, g)
    BY DEF Flattened
  <2>1. CASE d = c
    BY <1>3, <2>1
  <2>2. CASE d # c
    BY <2>2 DEF Flattened
  <2> QED BY <2>1, <2>2
<1>5. \A d \in SClients : Len(FlattenSeq(sc[d].got)) \in Nat
  <2> SUFFICES ASSUME NEW d \in SClients PROVE Len(FlattenSeq(sc[d].got)) \in Nat
    OBVIOUS
  <2>1. PICK g \in [1 .. Len(sc[d].got) -> Seq(Bytes)] : Flat(sc[d].got, g)
    BY DEF Flattened
  <2> QED BY <1>1, <2>1, FlattenAppend
<1>6. SentBack \in [SClients -> Nat] /\ SentBack[c] = Len(FlattenSeq(sc[c].got))
  BY <1>5 DEF SentBack
<1>7. SentBack'[c] = SentBack[c] + Len(line) /\ \A d \in SClients : d # c => SentBack'[d] = SentBack[d]
  BY <1>3, <1>6 DEF SentBack
<1>8. Grows(SentBack, SentBack', SClients, c, Len(line))
  BY <1>7 DEF Grows
<1>9. Counted' /\ byte_cnt' \in Nat
  <2>1. SumOf(SentBack', SClients, byte_cnt + Len(line))
    <3>1. PICK n \in Nat : n = Len(line)
      BY <1>3
    <3>2. PICK f \in [SClients -> Nat] : f = SentBack
      BY <1>6
    <3>3. PICK e : e = SentBack'
      OBVIOUS
    <3>4. PICK v : v = byte_cnt
      OBVIOUS
    <3>5. SumOf(f, SClients, v) /\ Grows(f, e, SClients, c, n)
      BY <1>8, <3>1, <3>2, <3>3, <3>4 DEF Counted
    <3>6. SumOf(e, SClients, v + n)
      BY <3>5, SumGrows
    <3> QED BY <3>1, <3>3, <3>4, <3>6
  <2>2. byte_cnt' \in Nat
    BY <1>3 DEF STypes
  <2> QED BY <2>1, <2>2 DEF Counted
<1> QED BY <1>4, <1>9

(* A step of a client, which changes what it sends only.                   *)
LEMMA SendingChanges ==
    ASSUME SInv, UNCHANGED <<smain, pool, idx, part, byte_cnt, sfds, habit>>, NEW c \in SClients,
           NEW r \in SClient, sc' = [sc EXCEPT ![c] = r], r.got = sc[c].got,
           InLockstep(c) => r.wire \in {<< >>, Line} /\ Len(r.got) + (IF r.wire = << >> THEN 0 ELSE 1) = r.sent
    PROVE  SInv'
<1> USE DEF SInv
<1>1. sc'[c] = r /\ (\A d \in SClients : d # c => sc'[d] = sc[d]) /\ sc' \in [SClients -> SClient]
  BY DEF STypes
<1>2. STypes'
  BY <1>1 DEF STypes
<1>3. Slotted' /\ Watched' /\ Reading'
  BY DEF Slotted, Watched, Reading, Used
<1>4. Whole'
  <2>1. \A d \in SClients : InLockstep(d)' <=> InLockstep(d)
    BY DEF InLockstep
  <2>2. \A d \in SClients : InLockstep(d) =>
          /\ sc'[d].wire \in {<< >>, Line}
          /\ \A k \in DOMAIN sc'[d].got : sc'[d].got[k] = Line
          /\ Len(sc'[d].got) + (IF sc'[d].wire = << >> THEN 0 ELSE 1) = sc'[d].sent
    <3> SUFFICES ASSUME NEW d \in SClients, InLockstep(d)
                 PROVE  /\ sc'[d].wire \in {<< >>, Line}
                        /\ \A k \in DOMAIN sc'[d].got : sc'[d].got[k] = Line
                        /\ Len(sc'[d].got) + (IF sc'[d].wire = << >> THEN 0 ELSE 1) = sc'[d].sent
      OBVIOUS
    <3>1. /\ sc[d].wire \in {<< >>, Line} /\ \A k \in DOMAIN sc[d].got : sc[d].got[k] = Line
          /\ Len(sc[d].got) + (IF sc[d].wire = << >> THEN 0 ELSE 1) = sc[d].sent
      BY DEF Whole
    <3>2. CASE d = c
      BY <1>1, <3>1, <3>2
    <3>3. CASE d # c
      BY <1>1, <3>1, <3>3
    <3> QED BY <3>2, <3>3
  <2>3. /\ part' # << >> => smain' \in {"read", "exit"}
        /\ (smain = "read" /\ InLockstep(sfds[Fd]) => part = << >>)'
    BY DEF Whole, Fd, InLockstep
  <2> QED BY <2>1, <2>2, <2>3 DEF Whole
<1>5. Flattened' /\ Counted'
  BY <1>1, NothingSentBack
<1> QED BY <1>2, <1>3, <1>4, <1>5

LEMMA SelClientKeeps == ASSUME SInv, NEW c \in SClients, SelClient(c), UNCHANGED habit PROVE SInv'
<1>1. PICK r : r = sc[c]
  OBVIOUS
<1>2. /\ r \in SClient /\ r.wire \in Seq(Bytes) /\ r.sent \in Nat /\ r.got \in Seq(Seq(Bytes)) /\ Len(r.got) \in Nat
      /\ sc \in [SClients -> SClient]
  BY <1>1, SFields DEF SInv, STypes
<1>3. InLockstep(c) => r.wire \in {<< >>, Line} /\ Len(r.got) + (IF r.wire = << >> THEN 0 ELSE 1) = r.sent
  BY <1>1 DEF SInv, Whole
<1>4. ASSUME NEW st \in {"queued", "closed"}, sc' = [sc EXCEPT ![c].st = st],
             UNCHANGED <<smain, pool, idx, part, byte_cnt, sfds>>
      PROVE  SInv'
  <2> DEFINE s == [r EXCEPT !.st = st]
  <2>1. /\ s \in SClient /\ s.got = r.got /\ s.wire = r.wire /\ s.sent = r.sent
        /\ sc' = [sc EXCEPT ![c] = s]
    BY <1>1, <1>2, <1>4 DEF SClient
  <2> HIDE DEF s
  <2>2. /\ s.got = sc[c].got
        /\ InLockstep(c) => s.wire \in {<< >>, Line} /\ Len(s.got) + (IF s.wire = << >> THEN 0 ELSE 1) = s.sent
    BY <1>1, <1>3, <2>1
  <2>3. UNCHANGED <<smain, pool, idx, part, byte_cnt, sfds, habit>>
    BY <1>4
  <2> QED BY <2>1, <2>2, <2>3, SendingChanges
<1>5. CASE SelConnect(c)
  BY <1>4, <1>5 DEF SelConnect
<1>6. CASE SelClose(c)
  BY <1>4, <1>6 DEF SelClose
<1>7. CASE SelReset(c)
  <2> DEFINE s == [r EXCEPT !.st = "reset", !.wire = << >>]
  <2>1. /\ s \in SClient /\ s.got = r.got /\ sc' = [sc EXCEPT ![c] = s]
    <3>1. << >> \in Seq(Bytes)
      OBVIOUS
    <3> QED BY <1>1, <1>2, <1>7, <3>1 DEF SelReset, SClient
  <2> HIDE DEF s
  <2> QED BY <1>1, <1>7, <2>1, SendingChanges DEF SelReset, InLockstep
<1>8. CASE SelSend(c)
  <2>1. PICK bytes \in Seq(Bytes) :
          /\ bytes \in (IF habit[c] = "partial" /\ r.sent = 0 THEN {<<"x">>} ELSE {Line})
          /\ sc' = [sc EXCEPT ![c].wire = @ \o bytes, ![c].sent = @ + 1]
    <3>1. <<"x">> \in Seq(Bytes) /\ Line \in Seq(Bytes)
      BY DEF Bytes, Line
    <3> QED BY <1>1, <1>8, <3>1 DEF SelSend
  <2> DEFINE s == [r EXCEPT !.wire = @ \o bytes, !.sent = @ + 1]
  <2>2. PICK w \in Seq(Bytes) : w = r.wire \o bytes
    <3>1. \A a, b \in Seq(Bytes) : a \o b \in Seq(Bytes)
      OBVIOUS
    <3>2. r.wire \o bytes \in Seq(Bytes)
      BY ONLY <1>2, <2>1, <3>1
    <3> QED BY ONLY <3>2
  <2>3. s \in SClient /\ s.got = r.got /\ s.wire = r.wire \o bytes /\ s.sent = r.sent + 1
    <3>1. s = [r EXCEPT !.wire = w, !.sent = @ + 1]
      BY <2>2
    <3>2. [r EXCEPT !.wire = w, !.sent = @ + 1] \in SClient
      <4>1. PICK n \in Nat : n = r.sent + 1
        BY <1>2
      <4>2. [r EXCEPT !.wire = w, !.sent = n] \in SClient
        BY ONLY <1>2, w \in Seq(Bytes), n \in Nat DEF SClient
      <4> QED BY ONLY <4>1, <4>2
    <3>3. /\ [r EXCEPT !.wire = w, !.sent = @ + 1].got = r.got
          /\ [r EXCEPT !.wire = w, !.sent = @ + 1].wire = w
          /\ [r EXCEPT !.wire = w, !.sent = @ + 1].sent = r.sent + 1
      BY <1>2 DEF SClient
    <3> HIDE DEF s
    <3> QED BY <2>2, <3>1, <3>2, <3>3
  <2>4. sc' = [sc EXCEPT ![c] = s]
    BY <1>1, <1>2, <2>1 DEF SClient
  <2>5. InLockstep(c) => s.wire \in {<< >>, Line} /\ Len(s.got) + (IF s.wire = << >> THEN 0 ELSE 1) = s.sent
    <3> SUFFICES ASSUME InLockstep(c)
                 PROVE  s.wire \in {<< >>, Line} /\ Len(s.got) + (IF s.wire = << >> THEN 0 ELSE 1) = s.sent
      OBVIOUS
    <3>1. bytes = Line /\ Len(r.got) = r.sent
      BY <1>1, <1>8, <2>1 DEF InLockstep, SelSend
    <3>2. r.wire = << >>
      BY <1>2, <1>3, <3>1
    <3>3. << >> \o Line = Line /\ Line # << >>
      BY DEF Line
    <3> HIDE DEF s
    <3>4. s.wire = Line /\ s.wire # << >>
      BY <2>3, <3>1, <3>2, <3>3
    <3> QED BY <1>2, <2>3, <3>1, <3>4
  <2> HIDE DEF s
  <2> QED BY <1>1, <1>8, <2>3, <2>4, <2>5, SendingChanges DEF SelSend
<1> QED BY <1>5, <1>6, <1>7, <1>8 DEF SelClient

(* A step that leaves the slots and the descriptors as they are.           *)
LEMMA SlotsKept ==
    ASSUME Slotted, Watched, sfds' = sfds, pool'.clientfd = pool.clientfd, pool'.read_set = pool.read_set,
           pool'.maxfd = pool.maxfd, pool'.maxi = pool.maxi
    PROVE  Slotted' /\ Watched'
BY DEF Slotted, Watched, Used

(* A slot is taken for a descriptor, and given up with it.                 *)
LEMMA SlotTaken ==
    ASSUME NEW D, NoClient \notin D, NEW clientfd \in [Slots -> {NoClient} \cup D], NEW fds, DOMAIN fds = D,
           Slotting(clientfd, fds), NEW i \in Slots, clientfd[i] = NoClient, NEW f \in D, fds[f] = 0,
           NEW c, c # 0
    PROVE  Slotting([clientfd EXCEPT ![i] = f], [fds EXCEPT ![f] = c])
<1> DEFINE p == [clientfd EXCEPT ![i] = f]
           s == [fds EXCEPT ![f] = c]
<1>1. /\ p[i] = f /\ (\A j \in Slots : j # i => p[j] = clientfd[j] /\ p[j] # f)
      /\ s[f] = c /\ (\A g \in D : g # f => s[g] = fds[g]) /\ DOMAIN s = D
  BY DEF Slotting
<1> HIDE DEF p, s
<1>2. \A j \in Slots : p[j] # NoClient => p[j] \in D /\ s[p[j]] # 0
  BY <1>1 DEF Slotting
<1>3. \A g \in D : s[g] # 0 => \E j \in Slots : p[j] = g
  <2> SUFFICES ASSUME NEW g \in D, s[g] # 0, g # f PROVE \E j \in Slots : p[j] = g
    BY <1>1
  <2>1. PICK j \in Slots : clientfd[j] = g
    BY <1>1 DEF Slotting
  <2> QED BY <1>1, <2>1
<1>4. \A j, k \in Slots : p[j] # NoClient /\ p[j] = p[k] => j = k
  BY <1>1 DEF Slotting
<1>5. Slotting(p, s)
  BY <1>1, <1>2, <1>3, <1>4 DEF Slotting
<1> QED BY <1>5 DEF p, s

LEMMA SlotLeft ==
    ASSUME NEW D, NoClient \notin D, NEW clientfd \in [Slots -> {NoClient} \cup D], NEW fds, DOMAIN fds = D,
           Slotting(clientfd, fds), NEW i \in Slots, NEW f \in D, clientfd[i] = f
    PROVE  Slotting([clientfd EXCEPT ![i] = NoClient], [fds EXCEPT ![f] = 0])
<1> DEFINE p == [clientfd EXCEPT ![i] = NoClient]
           s == [fds EXCEPT ![f] = 0]
<1>1. /\ p[i] = NoClient /\ (\A j \in Slots : j # i => p[j] = clientfd[j] /\ clientfd[j] # f)
      /\ s[f] = 0 /\ (\A g \in D : g # f => s[g] = fds[g]) /\ DOMAIN s = D
  BY DEF Slotting
<1> HIDE DEF p, s
<1>2. \A j \in Slots : p[j] # NoClient => p[j] \in D /\ s[p[j]] # 0
  BY <1>1 DEF Slotting
<1>3. \A g \in D : s[g] # 0 => \E j \in Slots : p[j] = g
  <2> SUFFICES ASSUME NEW g \in D, s[g] # 0, g # f PROVE \E j \in Slots : p[j] = g
    BY <1>1
  <2>1. PICK j \in Slots : clientfd[j] = g
    BY <1>1 DEF Slotting
  <2> QED BY <1>1, <2>1
<1>4. \A j, k \in Slots : p[j] # NoClient /\ p[j] = p[k] => j = k
  BY <1>1 DEF Slotting
<1>5. Slotting(p, s)
  BY <1>1, <1>2, <1>3, <1>4 DEF Slotting
<1> QED BY <1>5 DEF p, s

(* A step that leaves the clients as they are, before a line or after it.  *)
LEMMA WholeKept ==
    ASSUME Whole, UNCHANGED <<sc, part, habit>>, part = << >> \/ smain' = "exit"
    PROVE  Whole'
BY DEF Whole, InLockstep

LEMMA SelectKeeps == ASSUME SInv, Select, UNCHANGED habit PROVE SInv'
<1> USE DEF SInv
<1>1. PICK r : /\ r = {f \in pool.read_set : f <= pool.maxfd /\ Readable(f)} /\ r # {}
               /\ pool' = [pool EXCEPT !.ready_set = r, !.nready = Cardinality(r)]
               /\ smain' = (IF Listenfd \in r THEN "accept" ELSE "check")
  BY DEF Select
<1>2. smain = "select" /\ idx' = 0 /\ UNCHANGED <<part, byte_cnt, sfds, sc, habit>> /\ part = << >>
  BY DEF Select, Whole
<1>3. r \in SUBSET (Listenfd .. FdSetSize - 1) /\ IsFiniteSet(r)
  <2>1. pool.read_set \in SUBSET (Listenfd .. FdSetSize - 1)
    BY SFields
  <2>2. IsFiniteSet(Listenfd .. FdSetSize - 1)
    BY SlotsAre, FS_Interval
  <2>3. r \in SUBSET (Listenfd .. FdSetSize - 1)
    BY <1>1, <2>1
  <2> QED BY <2>2, <2>3, FS_Subset
<1>4. Cardinality(r) \in Nat /\ Cardinality(r) # 0
  BY <1>1, <1>3, FS_CardinalityType, FS_EmptySet
<1>5. /\ pool' \in Pool /\ pool'.clientfd = pool.clientfd /\ pool'.read_set = pool.read_set
      /\ pool'.maxfd = pool.maxfd /\ pool'.maxi = pool.maxi /\ pool'.nready = Cardinality(r)
  BY <1>1, <1>3, <1>4, SFields DEF Pool
<1>6. STypes'
  BY <1>1, <1>2, <1>5 DEF STypes
<1>7. Slotted' /\ Watched'
  BY <1>2, <1>5, SlotsKept
<1>8. Reading'
  BY <1>1, <1>4, <1>5 DEF Reading
<1>9. Whole'
  BY <1>2, WholeKept
<1>10. Flattened' /\ Counted'
  BY <1>2, NothingSentBack
<1> QED BY <1>6, <1>7, <1>8, <1>9, <1>10

LEMMA CheckKeeps == ASSUME SInv, check_clients, UNCHANGED habit PROVE SInv'
<1> USE DEF SInv
<1>1. smain = "check" /\ UNCHANGED <<part, byte_cnt, sfds, sc, habit>> /\ part = << >>
  BY DEF check_clients, Whole
<1>2. Whole' /\ Flattened' /\ Counted'
  BY <1>1, WholeKept, NothingSentBack
<1>3. CASE smain' = "select" /\ UNCHANGED <<pool, idx>>
  BY <1>1, <1>2, <1>3, SlotsKept DEF STypes, Reading
<1>4. CASE idx' = idx + 1 /\ UNCHANGED <<smain, pool>>
  <2>1. idx' \in Nat
    BY <1>4 DEF STypes
  <2> QED BY <1>1, <1>2, <1>4, <2>1, SlotsKept DEF STypes, Reading
<1>5. CASE /\ idx <= pool.maxi /\ pool.nready > 0 /\ Fd > 0 /\ smain' = "read"
           /\ pool' = [pool EXCEPT !.nready = @ - 1] /\ UNCHANGED idx
  <2>1. /\ pool' \in Pool /\ pool'.clientfd = pool.clientfd /\ pool'.read_set = pool.read_set
        /\ pool'.maxfd = pool.maxfd /\ pool'.maxi = pool.maxi
    <3>1. pool.nready - 1 \in Nat
      BY <1>5, SFields
    <3> QED BY <1>5, <3>1, SFields DEF Pool
  <2>2. idx \in Slots /\ Fd # NoClient
    <3>1. idx \in Nat /\ pool.maxi \in -1 .. FdSetSize - 1
      BY SFields DEF STypes
    <3> QED BY <1>5, <3>1, SlotsAre
  <2>3. Reading'
    BY <1>5, <2>1, <2>2 DEF Reading, Used, Fd
  <2>4. STypes'
    BY <1>1, <1>5, <2>1 DEF STypes
  <2> QED BY <1>1, <1>2, <2>1, <2>3, <2>4, SlotsKept
<1> QED BY <1>3, <1>4, <1>5 DEF check_clients

LEMMA AcceptAddKeeps == ASSUME SInv, NEW c \in SClients, AcceptAdd(c), UNCHANGED habit PROVE SInv'
<1> USE DEF SInv
<1>1. smain = "accept" /\ UNCHANGED <<idx, part, byte_cnt, habit>> /\ part = << >> /\ pool.nready >= 1
  BY DEF AcceptAdd, Whole, Reading
<1>2. CASE smain' = "exit" /\ UNCHANGED <<pool, sfds, sc>>
  BY <1>1, <1>2, SlotsKept, WholeKept, NothingSentBack DEF STypes, Reading
<1>3. ASSUME SFree # {}, NEW empty, empty = {i \in Slots : pool.clientfd[i] < 0}, empty # {},
             pool' = add_client(Min(SFree), Min(empty), pool), sfds' = [sfds EXCEPT ![Min(SFree)] = c],
             sc' = [sc EXCEPT ![c].st = "open"], smain' = "check"
      PROVE  SInv'
  <2>1. PICK fd : fd = Min(SFree) /\ fd \in 4 .. FdSetSize - 1 /\ sfds[fd] = 0
    <3>1. SFree \in SUBSET Nat
      BY SlotsAre DEF SFree
    <3>2. Min(SFree) \in SFree
      BY <1>3, <3>1, LeastNatural
    <3> QED BY <3>2 DEF SFree
  <2>2. PICK i \in Slots : i = Min(empty) /\ ~ Used(i)
    <3>1. empty \in SUBSET Nat
      BY <1>3, SlotsAre
    <3>2. Min(empty) \in empty
      BY <1>3, <3>1, LeastNatural
    <3>3. pool.clientfd[Min(empty)] < 0 /\ Min(empty) \in Slots
      BY <1>3, <3>2
    <3>4. pool.clientfd[Min(empty)] \in {NoClient} \cup (4 .. FdSetSize - 1)
      BY <3>3, SFields
    <3>5. pool.clientfd[Min(empty)] = NoClient
      BY <3>3, <3>4, SlotsAre
    <3> QED BY <3>3, <3>5 DEF Used
  <2>3. /\ pool'.nready = pool.nready - 1 /\ pool'.clientfd = [pool.clientfd EXCEPT ![i] = fd]
        /\ pool'.read_set = pool.read_set \cup {fd}
        /\ pool'.maxfd = (IF fd > pool.maxfd THEN fd ELSE pool.maxfd)
        /\ pool'.maxi = (IF i > pool.maxi THEN i ELSE pool.maxi)
        /\ pool'.ready_set = pool.ready_set
        /\ pool' = [maxfd |-> pool'.maxfd, read_set |-> pool'.read_set, ready_set |-> pool'.ready_set,
                    nready |-> pool'.nready, maxi |-> pool'.maxi, clientfd |-> pool'.clientfd]
    BY <1>3, <2>1, <2>2, SFields DEF add_client, Pool
  <2>4. pool' \in Pool
    <3>1. pool'.nready \in Nat /\ pool'.clientfd \in [Slots -> {NoClient} \cup (4 .. FdSetSize - 1)]
      BY <1>1, <2>1, <2>3, SFields
    <3>2. /\ pool'.read_set \in SUBSET (Listenfd .. FdSetSize - 1)
          /\ pool'.ready_set \in SUBSET (Listenfd .. FdSetSize - 1)
      BY <2>1, <2>3, SFields, SlotsAre
    <3>3. pool'.maxfd \in Nat /\ pool'.maxi \in -1 .. FdSetSize - 1
      BY <2>1, <2>2, <2>3, SFields, SlotsAre
    <3> QED BY <2>3, <3>1, <3>2, <3>3 DEF Pool
  <2>5. /\ sfds' \in [4 .. FdSetSize - 1 -> {0} \cup SClients] /\ sfds'[fd] = c
        /\ \A f \in 4 .. FdSetSize - 1 : f # fd => sfds'[f] = sfds[f]
    BY <1>3, <2>1 DEF STypes
  <2>6. /\ sc' \in [SClients -> SClient]
        /\ \A d \in SClients : sc'[d].got = sc[d].got /\ sc'[d].wire = sc[d].wire /\ sc'[d].sent = sc[d].sent
    BY <1>3, SFields DEF STypes, SClient
  <2>7. STypes'
    BY <1>1, <1>3, <2>4, <2>5, <2>6 DEF STypes
  <2>8. Slotted'
    <3>1. Slotting([pool.clientfd EXCEPT ![i] = fd], [sfds EXCEPT ![fd] = c])
      <4>1. DOMAIN sfds = 4 .. FdSetSize - 1 /\ NoClient \notin 4 .. FdSetSize - 1 /\ c # 0
        BY SFields, SlotsAre
      <4>2. /\ pool.clientfd \in [Slots -> {NoClient} \cup (4 .. FdSetSize - 1)]
            /\ Slotting(pool.clientfd, sfds) /\ pool.clientfd[i] = NoClient
        BY <2>2, SFields DEF Slotted, Used
      <4> QED BY <2>1, <4>1, <4>2, SlotTaken
    <3> QED BY <1>3, <2>1, <2>3, <3>1 DEF Slotted
  <2>9. pool'.clientfd[i] = fd /\ \A j \in Slots : j # i => pool'.clientfd[j] = pool.clientfd[j]
    BY <2>3, SFields
  <2>10. Watched'
    <3>1. pool'.read_set = {f \in DOMAIN sfds' : sfds'[f] # 0} \cup {Listenfd}
      BY <2>1, <2>3, <2>5, SFields, SlotsAre DEF Watched
    <3>2. \A f \in pool'.read_set : f <= pool'.maxfd
      BY <2>1, <2>3, SFields, SlotsAre DEF Watched
    <3>3. \A j \in Slots : pool'.clientfd[j] # NoClient => j <= pool'.maxi
      <4> SUFFICES ASSUME NEW j \in Slots, pool'.clientfd[j] # NoClient PROVE j <= pool'.maxi
        OBVIOUS
      <4>1. j = i \/ j <= pool.maxi
        BY <2>9 DEF Watched, Used
      <4> QED BY <2>3, <4>1, SFields, SlotsAre
    <3> QED BY <3>1, <3>2, <3>3 DEF Watched, Used
  <2>11. Reading'
    BY <1>3 DEF Reading
  <2>12. Whole'
    <3>1. \A d \in SClients : InLockstep(d) =>
            /\ sc'[d].wire \in {<< >>, Line}
            /\ \A k \in DOMAIN sc'[d].got : sc'[d].got[k] = Line
            /\ Len(sc'[d].got) + (IF sc'[d].wire = << >> THEN 0 ELSE 1) = sc'[d].sent
      <4> SUFFICES ASSUME NEW d \in SClients, InLockstep(d)
                   PROVE  /\ sc'[d].wire \in {<< >>, Line}
                          /\ \A k \in DOMAIN sc'[d].got : sc'[d].got[k] = Line
                          /\ Len(sc'[d].got) + (IF sc'[d].wire = << >> THEN 0 ELSE 1) = sc'[d].sent
        OBVIOUS
      <4>1. sc'[d].got = sc[d].got /\ sc'[d].wire = sc[d].wire /\ sc'[d].sent = sc[d].sent
        BY <2>6
      <4> QED BY <4>1 DEF Whole
    <3> QED BY <1>1, <1>3, <3>1 DEF Whole, InLockstep
  <2>13. Flattened' /\ Counted'
    BY <1>1, <2>6, NothingSentBack
  <2> QED BY <2>7, <2>8, <2>10, <2>11, <2>12, <2>13
<1> QED BY <1>2, <1>3 DEF AcceptAdd

(* The descriptor that is read is open.                                    *)
LEMMA ReadsOpen ==
    ASSUME SInv, smain = "read"
    PROVE  /\ idx \in Slots /\ Used(idx) /\ Fd \in 4 .. FdSetSize - 1 /\ sfds[Fd] \in SClients
           /\ Fd \in DOMAIN sfds
<1>1. idx \in Slots /\ Used(idx) /\ sfds[Fd] # 0 /\ Fd \in DOMAIN sfds
  BY DEF SInv, Reading, Slotted, Slotting, Fd, Used
<1> QED BY <1>1, SFields DEF SInv, STypes

LEMMA EofKeeps == ASSUME SInv, read_eof, UNCHANGED habit PROVE SInv'
<1> USE DEF SInv
<1>1. /\ smain = "read" /\ part = << >> /\ smain' = "check" /\ idx' = idx + 1
      /\ sfds' = [sfds EXCEPT ![Fd] = 0] /\ UNCHANGED <<part, byte_cnt, sc, habit>>
      /\ pool' = [pool EXCEPT !.read_set = @ \ {Fd}, !.clientfd[idx] = NoClient]
  BY DEF read_eof
<1>2. PICK fd \in 4 .. FdSetSize - 1 : fd = Fd
  BY <1>1, ReadsOpen
<1>3. PICK i \in Slots : i = idx /\ Used(i) /\ pool.clientfd[i] = fd
  BY <1>1, <1>2, ReadsOpen DEF Fd
<1>4. /\ pool'.nready = pool.nready /\ pool'.clientfd = [pool.clientfd EXCEPT ![i] = NoClient]
      /\ pool'.read_set = pool.read_set \ {fd} /\ pool'.maxfd = pool.maxfd /\ pool'.maxi = pool.maxi
      /\ pool' \in Pool
  BY <1>1, <1>2, <1>3, SFields DEF Pool
<1>5. /\ sfds' \in [4 .. FdSetSize - 1 -> {0} \cup SClients] /\ DOMAIN sfds' = DOMAIN sfds
      /\ DOMAIN sfds = 4 .. FdSetSize - 1
      /\ sfds'[fd] = 0 /\ \A f \in DOMAIN sfds : f # fd => sfds'[f] = sfds[f]
  BY <1>1, <1>2 DEF STypes
<1>6. STypes'
  <2>1. idx' \in Nat
    BY <1>1 DEF STypes
  <2> QED BY <1>1, <1>4, <1>5, <2>1 DEF STypes
<1>7. /\ pool'.clientfd[i] = NoClient /\ \A j \in Slots : j # i => pool'.clientfd[j] = pool.clientfd[j]
  BY <1>4, SFields
<1>8. Slotted'
  <2>1. Slotting([pool.clientfd EXCEPT ![i] = NoClient], [sfds EXCEPT ![fd] = 0])
    <3>1. DOMAIN sfds = 4 .. FdSetSize - 1 /\ NoClient \notin 4 .. FdSetSize - 1
      BY SFields, SlotsAre
    <3>2. /\ pool.clientfd \in [Slots -> {NoClient} \cup (4 .. FdSetSize - 1)]
          /\ Slotting(pool.clientfd, sfds)
      BY SFields DEF Slotted
    <3> QED BY <1>3, <3>1, <3>2, SlotLeft
  <2> QED BY <1>1, <1>2, <1>4, <2>1 DEF Slotted
<1>9. Watched'
  <2>1. pool'.read_set = {f \in DOMAIN sfds' : sfds'[f] # 0} \cup {Listenfd}
    BY <1>4, <1>5, SlotsAre DEF Watched
  <2>2. (\A f \in pool'.read_set : f <= pool'.maxfd) /\ \A j \in Slots : Used(j)' => j <= pool'.maxi
    BY <1>4, <1>7 DEF Watched, Used
  <2> QED BY <2>1, <2>2 DEF Watched
<1>10. Reading'
  BY <1>1 DEF Reading
<1>11. Whole' /\ Flattened' /\ Counted'
  BY <1>1, WholeKept, NothingSentBack
<1> QED BY <1>6, <1>8, <1>9, <1>10, <1>11

(* A line is echoed: whole, if its client goes in lockstep.                *)
LEMMA LineEchoed ==
    ASSUME SInv, NEW c \in SClients, NEW line \in Seq(Bytes), Echo(c, line), UNCHANGED habit,
           InLockstep(c) => line = Line /\ sc[c].wire = Line
    PROVE  SInv'
<1> USE DEF SInv
<1>1. /\ sc' = [sc EXCEPT ![c].got = Append(@, line), ![c].wire = << >>] /\ byte_cnt' = byte_cnt + Len(line)
      /\ smain' = "check" /\ idx' = idx + 1 /\ part' = << >> /\ UNCHANGED <<pool, sfds, habit>>
  BY DEF Echo
<1>2. PICK r : r = sc[c] /\ r \in SClient /\ r.got \in Seq(Seq(Bytes)) /\ Len(r.got) \in Nat /\ r.sent \in Nat
  BY SFields
<1>3. PICK got : got = Append(r.got, line)
  OBVIOUS
<1>4. /\ got \in Seq(Seq(Bytes)) /\ Len(got) = Len(r.got) + 1 /\ DOMAIN got = 1 .. Len(r.got) + 1
      /\ DOMAIN r.got = 1 .. Len(r.got)
      /\ (\A k \in 1 .. Len(r.got) : got[k] = r.got[k]) /\ got[Len(r.got) + 1] = line
  BY <1>2, <1>3
<1>5. << >> \in Seq(Bytes)
  OBVIOUS
<1>6. /\ sc'[c].got = got /\ sc'[c].wire = << >> /\ sc'[c].sent = r.sent
      /\ (\A d \in SClients : d # c => sc'[d] = sc[d]) /\ sc' \in [SClients -> SClient]
  <2>1. sc \in [SClients -> SClient]
    BY DEF STypes
  <2>2. [r EXCEPT !.got = got, !.wire = << >>] \in SClient
    BY <1>2, <1>4, <1>5 DEF SClient
  <2>3. sc' = [sc EXCEPT ![c] = [r EXCEPT !.got = got, !.wire = << >>]]
    BY <1>1, <1>2, <1>3, <2>1 DEF SClient
  <2>4. sc'[c] = [r EXCEPT !.got = got, !.wire = << >>]
    BY <2>1, <2>3
  <2>5. sc'[c].got = got /\ sc'[c].wire = << >> /\ sc'[c].sent = r.sent
    BY <1>2, <2>4 DEF SClient
  <2> QED BY <2>1, <2>2, <2>3, <2>5
<1>7. Flattened' /\ Counted' /\ byte_cnt' \in Nat
  <2>1. sc'[c].got = Append(sc[c].got, line) /\ \A d \in SClients : d # c => sc'[d].got = sc[d].got
    BY <1>2, <1>3, <1>6
  <2> QED BY <1>1, <2>1, LineSentBack
<1>8. STypes'
  <2>1. idx' \in Nat /\ part' \in Seq(Bytes)
    BY <1>1, <1>5 DEF STypes
  <2> QED BY <1>1, <1>6, <1>7, <2>1 DEF STypes
<1>9. Slotted' /\ Watched' /\ Reading'
  BY <1>1, SlotsKept DEF Reading
<1>10. Whole'
  <2> SUFFICES ASSUME NEW d \in SClients, InLockstep(d)
               PROVE  /\ sc'[d].wire \in {<< >>, Line}
                      /\ \A k \in DOMAIN sc'[d].got : sc'[d].got[k] = Line
                      /\ Len(sc'[d].got) + (IF sc'[d].wire = << >> THEN 0 ELSE 1) = sc'[d].sent
    BY <1>1 DEF Whole, InLockstep
  <2>1. CASE d # c
    BY <1>6, <2>1 DEF Whole
  <2>2. CASE d = c
    <3>1. line = Line /\ r.wire = Line /\ Line # << >>
      BY <1>2, <2>2 DEF Line
    <3>2. Len(r.got) + 1 = r.sent /\ \A k \in 1 .. Len(r.got) : r.got[k] = Line
      BY <1>2, <1>4, <2>2, <3>1 DEF Whole
    <3>3. \A k \in 1 .. Len(r.got) + 1 : k \in 1 .. Len(r.got) \/ k = Len(r.got) + 1
      <4>1. \A n \in Nat : \A k \in 1 .. n + 1 : k \in 1 .. n \/ k = n + 1
        OBVIOUS
      <4> QED BY <1>2, <4>1
    <3>4. \A k \in DOMAIN got : got[k] = Line
      BY <1>4, <3>1, <3>2, <3>3
    <3>5. Len(got) + 0 = r.sent
      BY <1>2, <1>4, <3>2
    <3> QED BY <1>6, <2>2, <3>4, <3>5
  <2> QED BY <2>1, <2>2
<1> QED BY <1>7, <1>8, <1>9, <1>10

LEMMA ReadLineKeeps == ASSUME SInv, read_line, UNCHANGED habit PROVE SInv'
<1> USE DEF SInv
<1>1. smain = "read" /\ sfds[Fd] \in SClients
  BY ReadsOpen DEF read_line
<1>2. PICK c \in SClients : c = sfds[Fd]
  BY <1>1
<1>3. PICK bytes : /\ bytes = part \o sc[c].wire
                   /\ \/ sc[c].st = "reset" /\ smain' = "exit" /\ UNCHANGED <<pool, idx, part, byte_cnt, sfds, sc>>
                      \/ /\ "n" \in Range(bytes)
                         /\ Echo(c, SubSeq(bytes, 1, Min({k \in DOMAIN bytes : bytes[k] = "n"})))
                      \/ /\ "n" \notin Range(bytes) /\ sc[c].wire # << >>
                         /\ part' = bytes /\ sc' = [sc EXCEPT ![c].wire = << >>]
                         /\ UNCHANGED <<smain, pool, idx, byte_cnt, sfds>>
                      \/ part # << >> /\ Echo(c, part)
  BY <1>2 DEF read_line
<1>4. part \in Seq(Bytes) /\ sc[c].wire \in Seq(Bytes) /\ bytes \in Seq(Bytes)
  <2>1. part \in Seq(Bytes) /\ sc[c].wire \in Seq(Bytes)
    BY SFields DEF STypes
  <2> QED BY <1>3, <2>1
<1>5. InLockstep(c) => part = << >> /\ sc[c].wire \in {<< >>, Line} /\ bytes = sc[c].wire
  <2>1. InLockstep(c) => part = << >> /\ sc[c].wire \in {<< >>, Line}
    BY <1>1, <1>2 DEF Whole
  <2>2. << >> \o << >> = << >> /\ << >> \o Line = Line
    BY DEF Line
  <2> QED BY <1>3, <2>1, <2>2
<1>6. Range(Line) = {"x", "n"} /\ "n" \notin Range(<< >>)
  BY DEF Line, Range
<1>7. CASE sc[c].st = "reset" /\ smain' = "exit" /\ UNCHANGED <<pool, idx, part, byte_cnt, sfds, sc>>
  BY <1>7, SlotsKept, WholeKept, NothingSentBack DEF STypes, Reading
<1>8. CASE /\ "n" \in Range(bytes)
           /\ Echo(c, SubSeq(bytes, 1, Min({k \in DOMAIN bytes : bytes[k] = "n"})))
  <2> DEFINE S == {k \in DOMAIN bytes : bytes[k] = "n"}
             line == SubSeq(bytes, 1, Min(S))
  <2>1. S \in SUBSET Nat /\ S # {} /\ DOMAIN bytes = 1 .. Len(bytes) /\ Len(bytes) \in Nat
    BY <1>4, <1>8 DEF Range
  <2>2. Min(S) \in S
    <3> HIDE DEF S
    <3> QED BY <2>1, LeastNatural
  <2>3. line \in Seq(Bytes)
    <3>1. Min(S) \in 1 .. Len(bytes)
      BY <2>1, <2>2
    <3> HIDE DEF S
    <3> QED BY <1>4, <3>1
  <2>4. ASSUME InLockstep(c) PROVE line = Line /\ sc[c].wire = Line
    <3>1. bytes = Line /\ sc[c].wire = Line
      BY <1>5, <1>6, <1>8, <2>4
    <3>2. S = {2}
      BY <3>1 DEF Line
    <3>3. Min(S) = 2
      BY <2>2, <3>2
    <3>4. SubSeq(Line, 1, 2) = Line
      <4>1. Line \in Seq(Bytes) /\ Len(Line) = 2
        BY DEF Line, Bytes
      <4> QED BY <4>1, SubSeqFull
    <3> QED BY <3>1, <3>3, <3>4
  <2>5. Echo(c, line)
    BY <1>8
  <2> HIDE DEF line
  <2> QED BY <2>3, <2>4, <2>5, LineEchoed
<1>9. CASE /\ "n" \notin Range(bytes) /\ sc[c].wire # << >>
           /\ part' = bytes /\ sc' = [sc EXCEPT ![c].wire = << >>]
           /\ UNCHANGED <<smain, pool, idx, byte_cnt, sfds>>
  <2>1. ~ InLockstep(c)
    BY <1>5, <1>6, <1>9
  <2>2. << >> \in Seq(Bytes)
    OBVIOUS
  <2>3. /\ sc' \in [SClients -> SClient] /\ (\A d \in SClients : d # c => sc'[d] = sc[d])
        /\ \A d \in SClients : sc'[d].got = sc[d].got
    <3>1. sc \in [SClients -> SClient] /\ sc[c] \in SClient
      BY SFields DEF STypes
    <3>2. PICK s : s = [sc[c] EXCEPT !.wire = << >>]
      OBVIOUS
    <3>3. s \in SClient /\ s.got = sc[c].got
      BY <2>2, <3>1, <3>2 DEF SClient
    <3>4. sc' = [sc EXCEPT ![c] = s]
      BY <1>9, <3>2
    <3> QED BY <3>1, <3>3, <3>4
  <2>4. STypes'
    BY <1>4, <1>9, <2>3 DEF STypes
  <2>5. Slotted' /\ Watched' /\ Reading'
    BY <1>9, SlotsKept DEF Reading, Used
  <2>6. Whole'
    <3>1. \A d \in SClients : InLockstep(d) => d # c
      BY <2>1
    <3>2. Fd' = Fd /\ sfds'[Fd'] = c
      BY <1>2, <1>9 DEF Fd
    <3>3. (\A d \in SClients : InLockstep(d)' <=> InLockstep(d)) /\ ~ InLockstep(c)'
      BY <2>1 DEF InLockstep
    <3>4. /\ part' # << >> => smain' \in {"read", "exit"}
          /\ (smain = "read" /\ InLockstep(sfds[Fd]) => part = << >>)'
      BY <1>1, <1>9, <3>2, <3>3 DEF InLockstep
    <3>5. ASSUME NEW d \in SClients, InLockstep(d)'
          PROVE  /\ sc'[d].wire \in {<< >>, Line}
                 /\ \A k \in DOMAIN sc'[d].got : sc'[d].got[k] = Line
                 /\ Len(sc'[d].got) + (IF sc'[d].wire = << >> THEN 0 ELSE 1) = sc'[d].sent
      <4>1. InLockstep(d) /\ sc'[d] = sc[d]
        BY <2>3, <3>1, <3>3, <3>5
      <4> QED BY <4>1 DEF Whole
    <3> QED BY <3>4, <3>5 DEF Whole
  <2>7. Flattened' /\ Counted'
    BY <1>9, <2>3, NothingSentBack
  <2> QED BY <2>4, <2>5, <2>6, <2>7
<1>10. CASE part # << >> /\ Echo(c, part)
  BY <1>4, <1>5, <1>10, LineEchoed
<1> QED BY <1>3, <1>7, <1>8, <1>9, <1>10

LEMMA SInvNext == SInv /\ [SelNext]_selvars => SInv'
<1> SUFFICES ASSUME SInv, [SelNext]_selvars PROVE SInv'
  OBVIOUS
<1>1. CASE UNCHANGED selvars
  <2> USE <1>1 DEF selvars, SInv
  <2>1. STypes' /\ Reading' /\ Whole'
    BY DEF STypes, Reading, Whole, Used, InLockstep, Fd
  <2> QED BY <2>1, SlotsKept, NothingSentBack
<1>2. CASE SelServer /\ UNCHANGED habit
  BY <1>2, SelectKeeps, AcceptAddKeeps, CheckKeeps, ReadLineKeeps, EofKeeps DEF SelServer
<1>3. ASSUME NEW c \in SClients, SelClient(c), UNCHANGED habit PROVE SInv'
  BY <1>3, SelClientKeeps
<1> QED BY <1>1, <1>2, <1>3 DEF SelNext

LEMMA InvPool == SInv => PoolConsistent
<1> SUFFICES ASSUME SInv PROVE PoolConsistent
  OBVIOUS
<1> USE DEF SInv
<1> DEFINE used == {i \in Slots : pool.clientfd[i] # NoClient}
           open == {f \in DOMAIN sfds : sfds[f] # 0}
           fd == [i \in used |-> pool.clientfd[i]]
<1>1. \A i \in used : pool.clientfd[i] \in open
  BY DEF Slotted, Slotting
<1>2. {pool.clientfd[i] : i \in used} = open
  <2>1. \A f \in open : \E i \in used : pool.clientfd[i] = f
    BY SFields, SlotsAre DEF Slotted, Slotting
  <2> QED BY <1>1, <2>1
<1>3. fd \in Bijection(used, open)
  <2>1. fd \in Injection(used, open)
    BY <1>1 DEF Injection, IsInjective, Slotted, Slotting
  <2>2. fd \in Surjection(used, open)
    BY <1>1, <1>2 DEF Surjection
  <2> QED BY <2>1, <2>2 DEF Bijection
<1>4. Cardinality(used) = Cardinality(open)
  <2>1. IsFiniteSet(used)
    BY SlotsAre, FS_Subset
  <2>2. ExistsBijection(used, open)
    BY <1>3 DEF ExistsBijection
  <2> HIDE DEF used, open, fd
  <2>3. IsFiniteSet(open)
    BY <2>1, <2>2, FS_Bijection
  <2> QED BY <2>1, <2>2, <2>3, FS_Bijection
<1>5. pool.read_set = open \cup {Listenfd}
  BY DEF Watched
<1>6. /\ \A f \in pool.read_set : f <= pool.maxfd
      /\ \A i \in used : i <= pool.maxi
      /\ pool.nready >= 0
  BY SFields DEF Watched, Used
<1> QED BY <1>2, <1>4, <1>5, <1>6 DEF PoolConsistent

LEMMA InvLockstep == SInv => LockstepEchoed
<1> SUFFICES ASSUME SInv PROVE LockstepEchoed
  OBVIOUS
<1> USE DEF SInv
<1>1. PICK g \in [SUBSET SClients -> Nat] : SumsTo(SentBack, SClients, g) /\ byte_cnt = g[SClients]
  BY DEF Counted, SumOf
<1>2. SentBack \in [SClients -> Nat]
  <2> SUFFICES ASSUME NEW d \in SClients PROVE Len(FlattenSeq(sc[d].got)) \in Nat
    BY DEF SentBack
  <2>1. PICK h \in [1 .. Len(sc[d].got) -> Seq(Bytes)] : Flat(sc[d].got, h)
    BY DEF Flattened
  <2>2. << >> \in Seq(Bytes)
    OBVIOUS
  <2> QED BY <2>1, <2>2, SFields, FlattenAppend
<1>3. byte_cnt = SumFunction(SentBack)
  BY <1>1, <1>2, SlotsAre, SumIs
<1>4. byte_cnt = SumFunction([c \in SClients |-> Len(FlattenSeq(sc[c].got))])
  BY <1>3 DEF SentBack
<1> QED BY <1>4 DEF LockstepEchoed, Whole, InLockstep

(* For any number of clients, descriptors, workers and lines: the pool of  *)
(* echoservers.c describes the open connections and byte_cnt what was sent *)
(* back, a client in lockstep gets each of its lines, and so does one of a *)
(* server with a worker for each connection, whose children are reaped.    *)
THEOREM EchoesRightAlways == EchoSpec => []EchoesRight
<1>1. SInv /\ EInv => EchoesRight
  BY InvPool, InvLockstep, InvPrinted DEF EchoesRight
<1> QED BY <1>1, SInvInit, SInvNext, EInvInit, EInvNext, PTL DEF EchoSpec
=============================================================================
