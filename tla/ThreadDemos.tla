----------------------------- MODULE ThreadDemos ----------------------------
(***************************************************************************)
(* The thread programs of 7_ProxyLab/demoCode/conc: badcnt.c, psum-mutex.c,*)
(* psum-array.c, psum-local.c, race.c, norace.c and sharing.c.  An access  *)
(* to a shared variable is a step: an increment is a load and a store.     *)
(***************************************************************************)
EXTENDS Integers, FiniteSets

CONSTANTS Demos,
          DThreads,    \* 0 .. nthreads - 1
          PerThread    \* niters, nelems_per_thread

ASSUME DemoAssumption == /\ PerThread \in Nat \ {0}
                         /\ DThreads # {} /\ IsFiniteSet(DThreads)
                         /\ DThreads = 0 .. Cardinality(DThreads) - 1

VARIABLES demo,
          dm,      \* main: "create", "join", "end"
          di,      \* i of main
          dt,      \* the threads: [pc, myid, i, reg, out]
          shared,  \* cnt, or gsum
          psum,
          mutex,
          arg      \* what the argument of each thread points to; -1: freed

dvars == <<demo, dm, di, dt, shared, psum, mutex, arg>>

N == Cardinality(DThreads)
Sums == {"psum-mutex", "psum-array", "psum-local"}

Fresh == /\ di = 0 /\ shared = 0 /\ mutex = 1
         /\ psum = [t \in DThreads |-> 0] /\ arg = [t \in DThreads |-> -1]
         /\ dt = [t \in DThreads |-> [pc |-> "none", myid |-> -1, i |-> 0, reg |-> 0, out |-> -1]]

DInit == demo \in Demos /\ dm = "create" /\ Fresh

(* A loop of main: Pthread_create; myid[i], or the cell of Malloc, holds i.*)
DCreate == /\ dm = "create" /\ di < N
           /\ arg' = [arg EXCEPT ![di] = di] /\ dt' = [dt EXCEPT ![di].pc = "start"]
           /\ di' = di + 1
           /\ UNCHANGED <<demo, dm, shared, psum, mutex>>

(* The end of it; sharing.c ends main, but not the process, with           *)
(* Pthread_exit.  The loop of Pthread_join; the check of the result.       *)
DJoin == /\ \/ dm = "create" /\ di = N /\ dm' = (IF demo = "sharing" THEN "end" ELSE "join") /\ di' = 0
            \/ dm = "join" /\ di < N /\ dt[di].pc = "done" /\ di' = di + 1 /\ UNCHANGED dm
            \/ dm = "join" /\ di = N /\ dm' = "end" /\ UNCHANGED di
         /\ UNCHANGED <<demo, dt, shared, psum, mutex, arg>>

Move(t, pc) == dt' = [dt EXCEPT ![t].pc = pc]

(* Mutant: norace.c gives its threads the address of i.                    *)
PointsToI(t) == di
(* What vargp points to, and when it is read: race.c passes &i.            *)
vargp(t) == IF demo = "race" THEN di ELSE arg[t]

Body == CASE demo = "badcnt" -> "load" [] demo = "psum-mutex" -> "P" [] demo = "psum-array" -> "load"
          [] demo = "psum-local" -> "add" [] demo = "sharing" -> "load" [] OTHER -> "print"

(* The first lines of the thread routine.                                  *)
thread_begins(t) ==
    /\ dt[t].pc = "start"
    /\ dt' = [dt EXCEPT ![t].pc = Body, ![t].myid = vargp(t),
                        ![t].i = IF demo \in Sums THEN vargp(t) * PerThread ELSE 0]
    /\ arg' = IF demo = "norace" THEN [arg EXCEPT ![t] = -1] ELSE arg
    /\ UNCHANGED <<demo, dm, di, shared, psum, mutex>>

(* Mutant: P is left out.                                                  *)
TakesNoLock(t) == /\ dt[t].pc = "P" /\ Move(t, "load")
                  /\ UNCHANGED <<demo, dm, di, shared, psum, mutex, arg>>
lock(t) == /\ dt[t].pc = "P" /\ mutex > 0 /\ mutex' = mutex - 1 /\ Move(t, "load")
           /\ UNCHANGED <<demo, dm, di, shared, psum, arg>>

load(t) == /\ dt[t].pc = "load"
           /\ dt' = [dt EXCEPT ![t].pc = "store", ![t].reg = IF demo = "psum-array" THEN psum[dt[t].myid]
                                                             ELSE shared]
           /\ UNCHANGED <<demo, dm, di, shared, psum, mutex, arg>>

Added(t) == dt[t].reg + (IF demo \in Sums THEN dt[t].i ELSE 1)
(* Mutant: the loop runs once more.                                        *)
LastLate(t) == dt[t].i = IF demo \in Sums THEN (dt[t].myid + 1) * PerThread - 1 ELSE PerThread
LastRound(t) == dt[t].i + 1 = IF demo \in Sums THEN (dt[t].myid + 1) * PerThread ELSE PerThread
Again(t) == IF LastRound(t) THEN "done" ELSE Body

(* The store; cnt++ of sharing.c is followed by the printf.                *)
store(t) ==
    /\ dt[t].pc = "store"
    /\ IF demo = "psum-array" THEN psum' = [psum EXCEPT ![dt[t].myid] = Added(t)] /\ UNCHANGED shared
       ELSE shared' = Added(t) /\ UNCHANGED psum
    /\ dt' = [dt EXCEPT ![t].pc = CASE demo = "psum-mutex" -> "V" [] demo = "sharing" -> "print"
                                    [] OTHER -> Again(t),
                        ![t].i = IF demo = "psum-mutex" THEN @ ELSE @ + 1]
    /\ UNCHANGED <<demo, dm, di, mutex, arg>>

(* Mutant: V is left out.                                                  *)
KeepsLock(t) == /\ dt[t].pc = "V" /\ dt' = [dt EXCEPT ![t].pc = Again(t), ![t].i = @ + 1]
                /\ UNCHANGED <<demo, dm, di, shared, psum, mutex, arg>>
unlock(t) == /\ dt[t].pc = "V" /\ mutex' = mutex + 1
             /\ dt' = [dt EXCEPT ![t].pc = Again(t), ![t].i = @ + 1]
             /\ UNCHANGED <<demo, dm, di, shared, psum, arg>>

(* The loop of sum_local, on locals only, and the store of its result.     *)
sum_local(t) == /\ dt[t].pc = "add"
                /\ dt' = [dt EXCEPT ![t].reg = Added(t), ![t].i = @ + 1,
                                    ![t].pc = IF LastRound(t) THEN "put" ELSE "add"]
                /\ UNCHANGED <<demo, dm, di, shared, psum, mutex, arg>>
put_local(t) == /\ dt[t].pc = "put" /\ psum' = [psum EXCEPT ![dt[t].myid] = dt[t].reg]
                /\ Move(t, "done")
                /\ UNCHANGED <<demo, dm, di, shared, mutex, arg>>

print(t) == /\ dt[t].pc = "print" /\ dt' = [dt EXCEPT ![t].pc = "done", ![t].out = dt[t].myid]
            /\ UNCHANGED <<demo, dm, di, shared, psum, mutex, arg>>

DThreadStep(t) == \/ thread_begins(t) \/ lock(t) \/ load(t) \/ store(t) \/ unlock(t)
                  \/ sum_local(t) \/ put_local(t) \/ print(t)
DNext == DCreate \/ DJoin \/ \E t \in DThreads : DThreadStep(t)

(* The last loop of main in psum-array.c and psum-local.c: the sum of the   *)
(* first i results.                                                        *)
Result[i \in 0 .. N] == IF i = 0 THEN 0 ELSE Result[i - 1] + psum[i - 1]

DFairness == WF_dvars(DCreate \/ DJoin) /\ \A t \in DThreads : WF_dvars(DThreadStep(t))

DSpec == DInit /\ [][DNext]_dvars /\ DFairness

----------------------------------------------------------------------------
(* The counter without a lock ends anywhere from 2 to twice niters, and    *)
(* never beyond: a thread can lose all but its last increment.             *)
BadCntBounds == demo = "badcnt" /\ dm = "end" =>
                    shared \in (IF PerThread = 1 THEN 1 ELSE 2) .. N * PerThread

(* The three programs that sum agree on n(n-1)/2, whatever the order of    *)
(* the threads: the check of main never prints its error.                  *)
SumsExact == demo \in Sums /\ dm = "end" =>
    LET nelems == N * PerThread
    IN (IF demo = "psum-mutex" THEN shared ELSE Result[N]) = (nelems * (nelems - 1)) \div 2

(* A thread of norace.c prints its own number, and each is printed once; a *)
(* thread of sharing.c the message that was meant for it.  The cells of    *)
(* norace.c are freed.                                                     *)
OwnNumber == /\ demo \in {"norace", "sharing"} =>
                  \A t \in DThreads : dt[t].pc = "done" => dt[t].out = t
             /\ demo = "norace" /\ dm = "end" => \A t \in DThreads : arg[t] = -1

(* What each of the demos ends with.                                       *)
DemosExact == BadCntBounds /\ SumsExact /\ OwnNumber

(* Every program ends: each is joined, and none waits for the mutex of one *)
(* that is done.                                                           *)
DemosEnd == <>(dm = "end")
=============================================================================
