---------------------------- MODULE SBufProofs -----------------------------
(***************************************************************************)
(* Proofs about the bounded buffer of sbuf.c, for any number of slots and  *)
(* any finite sets of producers and consumers.                             *)
(***************************************************************************)
EXTENDS SBuf, FiniteSetTheorems, TLAPS

(* A thread that enters or leaves a set of threads changes its size by 1.  *)
LEMMA SizeStep ==
    ASSUME NEW S \in SUBSET Threads, NEW t \in Threads
    PROVE  /\ Cardinality(S) \in Nat
           /\ t \notin S => Cardinality(S \cup {t}) = Cardinality(S) + 1
           /\ t \in S => Cardinality(S \ {t}) = Cardinality(S) - 1
<1>1. IsFiniteSet(S)
  <2>1. IsFiniteSet(Threads)
    BY SBufAssumption, FS_Union DEF Threads
  <2> QED BY <2>1, FS_Subset
<1> QED BY <1>1, FS_CardinalityType, FS_AddElement, FS_RemoveElement

(* The sizes of the five sets of threads the invariants count.             *)
InCritical == At(Critical)

LEMMA SubsetsOfThreads ==
    /\ InCritical \in SUBSET Threads /\ Reserving \in SUBSET Threads
    /\ Announcing \in SUBSET Threads /\ Claiming \in SUBSET Threads
    /\ Releasing \in SUBSET Threads
BY DEF InCritical, At, Reserving, Announcing, Claiming, Releasing

----------------------------------------------------------------------------
(* Type correctness *)

LEMMA ModBounds == ASSUME NEW k \in Nat PROVE k % N \in 0 .. N - 1
BY SBufAssumption

LEMMA TypeStep == ASSUME TypeOK, [Next]_vars PROVE TypeOK'
<1> USE SBufAssumption DEF TypeOK, Threads, Goto, InsertPC, RemovePC
<1>1. ASSUME NEW p \in Producers, NEW v \in Values, InsertCall(p, v) PROVE TypeOK'
  BY <1>1 DEF InsertCall
<1>2. ASSUME NEW p \in Producers, PSlots(p) PROVE TypeOK'
  BY <1>2 DEF PSlots
<1>3. ASSUME NEW p \in Producers, IncRear(p) PROVE TypeOK'
  BY <1>3 DEF IncRear
<1>4. ASSUME NEW p \in Producers, Store(p) PROVE TypeOK'
  <2>1. buf' \in [0 .. N - 1 -> Values \cup {Zero}]
    BY <1>4 DEF Store
  <2> QED BY <1>4, <2>1 DEF Store
<1>5. ASSUME NEW p \in Producers, VItems(p) PROVE TypeOK'
  BY <1>5 DEF VItems
<1>6. ASSUME NEW c \in Consumers, RemoveCall(c) PROVE TypeOK'
  BY <1>6 DEF RemoveCall
<1>7. ASSUME NEW c \in Consumers, PItems(c) PROVE TypeOK'
  BY <1>7 DEF PItems
<1>8. ASSUME NEW c \in Consumers, IncFront(c) PROVE TypeOK'
  BY <1>8 DEF IncFront
<1>9. ASSUME NEW c \in Consumers, Load(c) PROVE TypeOK'
  <2>1. buf[front % N] \in Values \cup {Zero}
    BY ModBounds
  <2> QED BY <1>9, <2>1 DEF Load
<1>10. ASSUME NEW c \in Consumers, VSlots(c) PROVE TypeOK'
  BY <1>10 DEF VSlots
<1>11. ASSUME NEW t \in Threads, PMutex(t) PROVE TypeOK'
  BY <1>11 DEF PMutex
<1>12. ASSUME NEW t \in Threads, VMutex(t) PROVE TypeOK'
  BY <1>12 DEF VMutex
<1>13. CASE UNCHANGED vars
  BY <1>13 DEF vars
<1> QED BY <1>1, <1>2, <1>3, <1>4, <1>5, <1>6, <1>7, <1>8, <1>9, <1>10, <1>11,
           <1>12, <1>13 DEF Next, InsertStep, RemoveStep

(* The type invariant of sbuf.c: every index into buf is inside it, no     *)
(* semaphore is negative, and each thread is at a point of its function.   *)
THEOREM TypeCorrect == Spec => []TypeOK
<1>1. Init => TypeOK
  BY SBufAssumption DEF Init, sbuf_init, TypeOK, InsertPC, RemovePC, Threads
<1> QED BY <1>1, TypeStep, PTL DEF Spec

----------------------------------------------------------------------------
(* The semaphores *)

(* The inductive invariant: the mutex counts the thread in the critical    *)
(* section, and the counting semaphores account for every slot.            *)
Inv == TypeOK /\ MutualExclusion /\ SemaphoresMatchRing

LEMMA InvInit == Init => Inv
<1> SUFFICES ASSUME Init PROVE MutualExclusion /\ SemaphoresMatchRing /\ TypeOK
  BY DEF Inv
<1>1. InCritical = {} /\ Reserving = {} /\ Announcing = {} /\ Claiming = {} /\ Releasing = {}
  BY DEF Init, InCritical, At, Critical, Reserving, Announcing, Claiming, Releasing
<1>2. TypeOK
  BY SBufAssumption DEF Init, sbuf_init, TypeOK, InsertPC, RemovePC, Threads
<1>3. Cardinality({}) = 0
  BY FS_EmptySet
<1> QED BY <1>1, <1>2, <1>3, SBufAssumption
        DEF Init, sbuf_init, MutualExclusion, SemaphoresMatchRing, InCritical

(* Sizes for the arithmetic of a step, before and after it.                *)
LEMMA Sizes ==
    /\ Cardinality(InCritical) \in Nat /\ Cardinality(Reserving) \in Nat
    /\ Cardinality(Announcing) \in Nat /\ Cardinality(Claiming) \in Nat
    /\ Cardinality(Releasing) \in Nat
<1>1. Cardinality({}) \in Nat /\ \A S \in SUBSET Threads : IsFiniteSet(S)
  <2>1. IsFiniteSet(Threads)
    BY SBufAssumption, FS_Union DEF Threads
  <2> QED BY <2>1, FS_Subset, FS_EmptySet
<1> QED BY <1>1, SubsetsOfThreads, FS_CardinalityType

LEMMA PSlotsStep ==
    ASSUME Inv, NEW p \in Producers, PSlots(p), TypeOK' PROVE Inv'
<1>1. /\ InCritical' = InCritical
      /\ Reserving' = Reserving \cup {p} /\ p \notin Reserving
      /\ Announcing' = Announcing
      /\ Claiming' = Claiming
      /\ Releasing' = Releasing
  BY SBufAssumption DEF Inv, TypeOK, PSlots, Goto, Threads, At, Critical, InsertPC, RemovePC,
     InCritical, Reserving, Announcing, Claiming, Releasing
<1>2. p \in Threads
  BY DEF Threads
<1>3. /\ Cardinality(InCritical') = Cardinality(InCritical)
      /\ Cardinality(Reserving') = Cardinality(Reserving) + 1
      /\ Cardinality(Announcing') = Cardinality(Announcing)
      /\ Cardinality(Claiming') = Cardinality(Claiming)
      /\ Cardinality(Releasing') = Cardinality(Releasing)
  BY <1>1, <1>2, SizeStep, SubsetsOfThreads
<1>4. MutualExclusion'
  BY <1>3, Sizes DEF Inv, TypeOK, PSlots, MutualExclusion, InCritical
<1>5. SemaphoresMatchRing'
  BY <1>3, Sizes, SBufAssumption DEF Inv, TypeOK, PSlots, SemaphoresMatchRing
<1> QED BY <1>4, <1>5 DEF Inv

LEMMA IncRearStep ==
    ASSUME Inv, NEW p \in Producers, IncRear(p), TypeOK' PROVE Inv'
<1>1. /\ InCritical' = InCritical
      /\ Reserving' = Reserving \ {p} /\ p \in Reserving
      /\ Announcing' = Announcing \cup {p} /\ p \notin Announcing
      /\ Claiming' = Claiming
      /\ Releasing' = Releasing
  BY SBufAssumption DEF Inv, TypeOK, IncRear, Goto, Threads, At, Critical, InsertPC, RemovePC,
     InCritical, Reserving, Announcing, Claiming, Releasing
<1>2. p \in Threads
  BY DEF Threads
<1>3. /\ Cardinality(InCritical') = Cardinality(InCritical)
      /\ Cardinality(Reserving') = Cardinality(Reserving) - 1
      /\ Cardinality(Announcing') = Cardinality(Announcing) + 1
      /\ Cardinality(Claiming') = Cardinality(Claiming)
      /\ Cardinality(Releasing') = Cardinality(Releasing)
  BY <1>1, <1>2, SizeStep, SubsetsOfThreads
<1>4. MutualExclusion'
  BY <1>3, Sizes DEF Inv, TypeOK, IncRear, MutualExclusion, InCritical
<1>5. SemaphoresMatchRing'
  <2>1. /\ rear' = rear + 1 /\ front' = front /\ items' = items /\ slots' = slots
        /\ rear \in Nat /\ front \in Nat /\ items \in Nat /\ slots \in Nat
    BY DEF IncRear, Inv, TypeOK
  <2> QED BY <2>1, <1>3, Sizes, SBufAssumption DEF Inv, SemaphoresMatchRing
<1> QED BY <1>4, <1>5 DEF Inv

LEMMA StoreStep ==
    ASSUME Inv, NEW p \in Producers, Store(p), TypeOK' PROVE Inv'
<1>1. /\ InCritical' = InCritical
      /\ Reserving' = Reserving
      /\ Announcing' = Announcing
      /\ Claiming' = Claiming
      /\ Releasing' = Releasing
  BY SBufAssumption DEF Inv, TypeOK, Store, Goto, Threads, At, Critical, InsertPC, RemovePC,
     InCritical, Reserving, Announcing, Claiming, Releasing
<1>2. p \in Threads
  BY DEF Threads
<1>3. /\ Cardinality(InCritical') = Cardinality(InCritical)
      /\ Cardinality(Reserving') = Cardinality(Reserving)
      /\ Cardinality(Announcing') = Cardinality(Announcing)
      /\ Cardinality(Claiming') = Cardinality(Claiming)
      /\ Cardinality(Releasing') = Cardinality(Releasing)
  BY <1>1, <1>2, SizeStep, SubsetsOfThreads
<1>4. MutualExclusion'
  BY <1>3, Sizes DEF Inv, TypeOK, Store, MutualExclusion, InCritical
<1>5. SemaphoresMatchRing'
  BY <1>3, Sizes, SBufAssumption DEF Inv, TypeOK, Store, SemaphoresMatchRing
<1> QED BY <1>4, <1>5 DEF Inv

LEMMA VItemsStep ==
    ASSUME Inv, NEW p \in Producers, VItems(p), TypeOK' PROVE Inv'
<1>1. /\ InCritical' = InCritical
      /\ Reserving' = Reserving
      /\ Announcing' = Announcing \ {p} /\ p \in Announcing
      /\ Claiming' = Claiming
      /\ Releasing' = Releasing
  BY SBufAssumption DEF Inv, TypeOK, VItems, Goto, Threads, At, Critical, InsertPC, RemovePC,
     InCritical, Reserving, Announcing, Claiming, Releasing
<1>2. p \in Threads
  BY DEF Threads
<1>3. /\ Cardinality(InCritical') = Cardinality(InCritical)
      /\ Cardinality(Reserving') = Cardinality(Reserving)
      /\ Cardinality(Announcing') = Cardinality(Announcing) - 1
      /\ Cardinality(Claiming') = Cardinality(Claiming)
      /\ Cardinality(Releasing') = Cardinality(Releasing)
  BY <1>1, <1>2, SizeStep, SubsetsOfThreads
<1>4. MutualExclusion'
  BY <1>3, Sizes DEF Inv, TypeOK, VItems, MutualExclusion, InCritical
<1>5. SemaphoresMatchRing'
  BY <1>3, Sizes, SBufAssumption DEF Inv, TypeOK, VItems, SemaphoresMatchRing
<1> QED BY <1>4, <1>5 DEF Inv

LEMMA PItemsStep ==
    ASSUME Inv, NEW c \in Consumers, PItems(c), TypeOK' PROVE Inv'
<1>1. /\ InCritical' = InCritical
      /\ Reserving' = Reserving
      /\ Announcing' = Announcing
      /\ Claiming' = Claiming \cup {c} /\ c \notin Claiming
      /\ Releasing' = Releasing
  BY SBufAssumption DEF Inv, TypeOK, PItems, Goto, Threads, At, Critical, InsertPC, RemovePC,
     InCritical, Reserving, Announcing, Claiming, Releasing
<1>2. c \in Threads
  BY DEF Threads
<1>3. /\ Cardinality(InCritical') = Cardinality(InCritical)
      /\ Cardinality(Reserving') = Cardinality(Reserving)
      /\ Cardinality(Announcing') = Cardinality(Announcing)
      /\ Cardinality(Claiming') = Cardinality(Claiming) + 1
      /\ Cardinality(Releasing') = Cardinality(Releasing)
  BY <1>1, <1>2, SizeStep, SubsetsOfThreads
<1>4. MutualExclusion'
  BY <1>3, Sizes DEF Inv, TypeOK, PItems, MutualExclusion, InCritical
<1>5. SemaphoresMatchRing'
  BY <1>3, Sizes, SBufAssumption DEF Inv, TypeOK, PItems, SemaphoresMatchRing
<1> QED BY <1>4, <1>5 DEF Inv

LEMMA IncFrontStep ==
    ASSUME Inv, NEW c \in Consumers, IncFront(c), TypeOK' PROVE Inv'
<1>1. /\ InCritical' = InCritical
      /\ Reserving' = Reserving
      /\ Announcing' = Announcing
      /\ Claiming' = Claiming \ {c} /\ c \in Claiming
      /\ Releasing' = Releasing \cup {c} /\ c \notin Releasing
  BY SBufAssumption DEF Inv, TypeOK, IncFront, Goto, Threads, At, Critical, InsertPC, RemovePC,
     InCritical, Reserving, Announcing, Claiming, Releasing
<1>2. c \in Threads
  BY DEF Threads
<1>3. /\ Cardinality(InCritical') = Cardinality(InCritical)
      /\ Cardinality(Reserving') = Cardinality(Reserving)
      /\ Cardinality(Announcing') = Cardinality(Announcing)
      /\ Cardinality(Claiming') = Cardinality(Claiming) - 1
      /\ Cardinality(Releasing') = Cardinality(Releasing) + 1
  BY <1>1, <1>2, SizeStep, SubsetsOfThreads
<1>4. MutualExclusion'
  BY <1>3, Sizes DEF Inv, TypeOK, IncFront, MutualExclusion, InCritical
<1>5. SemaphoresMatchRing'
  <2>1. /\ front' = front + 1 /\ rear' = rear /\ items' = items /\ slots' = slots
        /\ rear \in Nat /\ front \in Nat /\ items \in Nat /\ slots \in Nat
    BY DEF IncFront, Inv, TypeOK
  <2> QED BY <2>1, <1>3, Sizes, SBufAssumption DEF Inv, SemaphoresMatchRing
<1> QED BY <1>4, <1>5 DEF Inv

LEMMA LoadStep ==
    ASSUME Inv, NEW c \in Consumers, Load(c), TypeOK' PROVE Inv'
<1>1. /\ InCritical' = InCritical
      /\ Reserving' = Reserving
      /\ Announcing' = Announcing
      /\ Claiming' = Claiming
      /\ Releasing' = Releasing
  BY SBufAssumption DEF Inv, TypeOK, Load, Goto, Threads, At, Critical, InsertPC, RemovePC,
     InCritical, Reserving, Announcing, Claiming, Releasing
<1>2. c \in Threads
  BY DEF Threads
<1>3. /\ Cardinality(InCritical') = Cardinality(InCritical)
      /\ Cardinality(Reserving') = Cardinality(Reserving)
      /\ Cardinality(Announcing') = Cardinality(Announcing)
      /\ Cardinality(Claiming') = Cardinality(Claiming)
      /\ Cardinality(Releasing') = Cardinality(Releasing)
  BY <1>1, <1>2, SizeStep, SubsetsOfThreads
<1>4. MutualExclusion'
  BY <1>3, Sizes DEF Inv, TypeOK, Load, MutualExclusion, InCritical
<1>5. SemaphoresMatchRing'
  BY <1>3, Sizes, SBufAssumption DEF Inv, TypeOK, Load, SemaphoresMatchRing
<1> QED BY <1>4, <1>5 DEF Inv

LEMMA VSlotsStep ==
    ASSUME Inv, NEW c \in Consumers, VSlots(c), TypeOK' PROVE Inv'
<1>1. /\ InCritical' = InCritical
      /\ Reserving' = Reserving
      /\ Announcing' = Announcing
      /\ Claiming' = Claiming
      /\ Releasing' = Releasing \ {c} /\ c \in Releasing
  BY SBufAssumption DEF Inv, TypeOK, VSlots, Goto, Threads, At, Critical, InsertPC, RemovePC,
     InCritical, Reserving, Announcing, Claiming, Releasing
<1>2. c \in Threads
  BY DEF Threads
<1>3. /\ Cardinality(InCritical') = Cardinality(InCritical)
      /\ Cardinality(Reserving') = Cardinality(Reserving)
      /\ Cardinality(Announcing') = Cardinality(Announcing)
      /\ Cardinality(Claiming') = Cardinality(Claiming)
      /\ Cardinality(Releasing') = Cardinality(Releasing) - 1
  BY <1>1, <1>2, SizeStep, SubsetsOfThreads
<1>4. MutualExclusion'
  BY <1>3, Sizes DEF Inv, TypeOK, VSlots, MutualExclusion, InCritical
<1>5. SemaphoresMatchRing'
  BY <1>3, Sizes, SBufAssumption DEF Inv, TypeOK, VSlots, SemaphoresMatchRing
<1> QED BY <1>4, <1>5 DEF Inv

LEMMA PMutexStep ==
    ASSUME Inv, NEW t \in Threads, PMutex(t), TypeOK' PROVE Inv'
<1>1. /\ InCritical' = InCritical \cup {t} /\ t \notin InCritical
      /\ Reserving' = Reserving
      /\ Announcing' = Announcing
      /\ Claiming' = Claiming
      /\ Releasing' = Releasing
  BY SBufAssumption DEF Inv, TypeOK, PMutex, Goto, Threads, At, Critical, InsertPC, RemovePC,
     InCritical, Reserving, Announcing, Claiming, Releasing
<1>2. t \in Threads
  BY DEF Threads
<1>3. /\ Cardinality(InCritical') = Cardinality(InCritical) + 1
      /\ Cardinality(Reserving') = Cardinality(Reserving)
      /\ Cardinality(Announcing') = Cardinality(Announcing)
      /\ Cardinality(Claiming') = Cardinality(Claiming)
      /\ Cardinality(Releasing') = Cardinality(Releasing)
  BY <1>1, <1>2, SizeStep, SubsetsOfThreads
<1>4. MutualExclusion'
  BY <1>3, Sizes DEF Inv, TypeOK, PMutex, MutualExclusion, InCritical
<1>5. SemaphoresMatchRing'
  BY <1>3, Sizes, SBufAssumption DEF Inv, TypeOK, PMutex, SemaphoresMatchRing
<1> QED BY <1>4, <1>5 DEF Inv

LEMMA VMutexStep ==
    ASSUME Inv, NEW t \in Threads, VMutex(t), TypeOK' PROVE Inv'
<1>1. /\ InCritical' = InCritical \ {t} /\ t \in InCritical
      /\ Reserving' = Reserving
      /\ Announcing' = Announcing
      /\ Claiming' = Claiming
      /\ Releasing' = Releasing
  BY SBufAssumption DEF Inv, TypeOK, VMutex, Goto, Threads, At, Critical, InsertPC, RemovePC,
     InCritical, Reserving, Announcing, Claiming, Releasing
<1>2. t \in Threads
  BY DEF Threads
<1>3. /\ Cardinality(InCritical') = Cardinality(InCritical) - 1
      /\ Cardinality(Reserving') = Cardinality(Reserving)
      /\ Cardinality(Announcing') = Cardinality(Announcing)
      /\ Cardinality(Claiming') = Cardinality(Claiming)
      /\ Cardinality(Releasing') = Cardinality(Releasing)
  BY <1>1, <1>2, SizeStep, SubsetsOfThreads
<1>4. MutualExclusion'
  BY <1>3, Sizes DEF Inv, TypeOK, VMutex, MutualExclusion, InCritical
<1>5. SemaphoresMatchRing'
  BY <1>3, Sizes, SBufAssumption DEF Inv, TypeOK, VMutex, SemaphoresMatchRing
<1> QED BY <1>4, <1>5 DEF Inv

LEMMA RemoveCallStep ==
    ASSUME Inv, NEW c \in Consumers, RemoveCall(c), TypeOK' PROVE Inv'
<1>1. /\ InCritical' = InCritical
      /\ Reserving' = Reserving
      /\ Announcing' = Announcing
      /\ Claiming' = Claiming
      /\ Releasing' = Releasing
  BY SBufAssumption DEF Inv, TypeOK, RemoveCall, Goto, Threads, At, Critical, InsertPC, RemovePC,
     InCritical, Reserving, Announcing, Claiming, Releasing
<1>2. c \in Threads
  BY DEF Threads
<1>3. /\ Cardinality(InCritical') = Cardinality(InCritical)
      /\ Cardinality(Reserving') = Cardinality(Reserving)
      /\ Cardinality(Announcing') = Cardinality(Announcing)
      /\ Cardinality(Claiming') = Cardinality(Claiming)
      /\ Cardinality(Releasing') = Cardinality(Releasing)
  BY <1>1, <1>2, SizeStep, SubsetsOfThreads
<1>4. MutualExclusion'
  BY <1>3, Sizes DEF Inv, TypeOK, RemoveCall, MutualExclusion, InCritical
<1>5. SemaphoresMatchRing'
  BY <1>3, Sizes, SBufAssumption DEF Inv, TypeOK, RemoveCall, SemaphoresMatchRing
<1> QED BY <1>4, <1>5 DEF Inv

LEMMA InsertCallStep ==
    ASSUME Inv, NEW p \in Producers, NEW v \in Values, InsertCall(p, v), TypeOK' PROVE Inv'
<1>1. /\ InCritical' = InCritical
      /\ Reserving' = Reserving
      /\ Announcing' = Announcing
      /\ Claiming' = Claiming
      /\ Releasing' = Releasing
  BY SBufAssumption DEF Inv, TypeOK, InsertCall, Goto, Threads, At, Critical, InsertPC, RemovePC,
     InCritical, Reserving, Announcing, Claiming, Releasing
<1> QED BY <1>1 DEF Inv, InsertCall, MutualExclusion, SemaphoresMatchRing, InCritical

(* Every step of every thread preserves the invariant.                     *)
LEMMA InvStep == ASSUME Inv, [Next]_vars PROVE Inv'
<1>0. TypeOK'
  BY TypeStep DEF Inv
<1>1. ASSUME NEW p \in Producers, InsertStep(p) PROVE Inv'
  <2>1. p \in Threads
    BY DEF Threads
  <2> QED BY <1>0, <1>1, <2>1, PSlotsStep, PMutexStep, IncRearStep, StoreStep, VMutexStep,
             VItemsStep DEF InsertStep
<1>2. ASSUME NEW c \in Consumers, RemoveStep(c) PROVE Inv'
  <2>1. c \in Threads
    BY DEF Threads
  <2> QED BY <1>0, <1>2, <2>1, PItemsStep, PMutexStep, IncFrontStep, LoadStep, VMutexStep,
             VSlotsStep DEF RemoveStep
<1>3. ASSUME UNCHANGED vars PROVE Inv'
  BY <1>0, <1>3 DEF Inv, vars, MutualExclusion, SemaphoresMatchRing, At, Reserving, Announcing,
     Claiming, Releasing
<1> QED BY <1>0, <1>1, <1>2, <1>3, InsertCallStep, RemoveCallStep DEF Next

(* Inv is an invariant of sbuf.c: every step of every thread preserves it. *)
THEOREM InvInvariant == Spec => []Inv
BY InvStep, InvInit, PTL DEF Spec

(* sbuf_insert and sbuf_remove exclude one another and themselves.         *)
THEOREM MutexSafe == Spec => []MutualExclusion
BY InvInvariant, PTL DEF Inv

(* The semaphores account for every slot of the ring in every reachable    *)
(* state, for any number of threads and slots.                             *)
THEOREM SemaphoresSafe == Spec => []SemaphoresMatchRing
BY InvInvariant, PTL DEF Inv

----------------------------------------------------------------------------
(* Refinement of the FIFO queue *)

LEMMA SeqIsFunction ==
    ASSUME NEW S, NEW s \in Seq(S)
    PROVE  s = [i \in 1 .. Len(s) |-> s[i]]
OBVIOUS

LEMMA ModDistinct ==
    ASSUME NEW i \in Nat, NEW j \in Nat, i < j, j - i < N
    PROVE  i % N # j % N
<1> DEFINE d == (j \div N) - (i \div N)
<1>1. i = N * (i \div N) + (i % N) /\ j = N * (j \div N) + (j % N)
  BY SBufAssumption
<1>2. i \div N \in Int /\ j \div N \in Int /\ i % N \in Int /\ j % N \in Int
  BY SBufAssumption
<1>3. SUFFICES ASSUME i % N = j % N PROVE FALSE
  OBVIOUS
<1>4. j - i = N * d
  BY <1>1, <1>2, <1>3, SBufAssumption
<1>5. d \in Int
  BY <1>2
<1>6. CASE d <= 0
  BY <1>4, <1>5, <1>6, SBufAssumption
<1>7. CASE d >= 1
  BY <1>4, <1>5, <1>7, SBufAssumption
<1> QED BY <1>5, <1>6, <1>7

(* At most one thread is in the critical section.                          *)
LEMMA OneInCritical ==
    ASSUME Inv, NEW t \in Threads, NEW u \in Threads,
           pc[t] \in Critical, pc[u] \in Critical
    PROVE  t = u
<1>1. At(Critical) \in SUBSET Threads /\ t \in At(Critical) /\ u \in At(Critical)
  BY DEF At
<1>2. Cardinality(At(Critical)) <= 1
  <2>1. Cardinality(At(Critical)) \in Nat
    BY <1>1, SizeStep
  <2> QED BY <2>1 DEF Inv, TypeOK, MutualExclusion
<1>3. SUFFICES ASSUME t # u PROVE FALSE
  OBVIOUS
<1>4. Cardinality(At(Critical) \ {t}) = Cardinality(At(Critical)) - 1
  BY <1>1, SizeStep
<1>5. At(Critical) \ {t} \in SUBSET Threads /\ u \in At(Critical) \ {t}
  BY <1>1, <1>3
<1>6. Cardinality((At(Critical) \ {t}) \ {u}) = Cardinality(At(Critical) \ {t}) - 1
  BY <1>5, SizeStep
<1>7. (At(Critical) \ {t}) \ {u} \in SUBSET Threads
  BY <1>5
<1>8. Cardinality((At(Critical) \ {t}) \ {u}) \in Nat /\ Cardinality(At(Critical)) \in Nat
  BY <1>1, <1>7, SizeStep
<1> QED BY <1>2, <1>4, <1>6, <1>8

(* How full the ring is at each point of the critical section.             *)
LEMMA RingBounds ==
    ASSUME Inv
    PROVE  /\ rear \in Nat /\ front \in Nat /\ rear - front \in 0 .. N
           /\ At({"store"}) # {} => rear - front >= 1
           /\ At({"inc_rear"}) # {} => rear - front < N
           /\ At({"inc_front"}) # {} => rear - front >= 1
           /\ At({"load"}) # {} => rear - front < N
<1>1. /\ rear \in Nat /\ front \in Nat /\ items \in Nat /\ slots \in Nat /\ N \in Nat
      /\ rear - front = items + Cardinality(Announcing) + Cardinality(Claiming)
      /\ N - (rear - front) = slots + Cardinality(Reserving) + Cardinality(Releasing)
  BY SBufAssumption DEF Inv, TypeOK, SemaphoresMatchRing
<1>2. /\ At({"store"}) \subseteq Announcing /\ At({"inc_rear"}) \subseteq Reserving
      /\ At({"inc_front"}) \subseteq Claiming /\ At({"load"}) \subseteq Releasing
  BY DEF At, Announcing, Reserving, Claiming, Releasing
<1>3. \A S \in SUBSET Threads : S # {} => Cardinality(S) >= 1
  <2> SUFFICES ASSUME NEW S \in SUBSET Threads, NEW t \in S PROVE Cardinality(S) >= 1
    OBVIOUS
  <2>1. S \ {t} \in SUBSET Threads /\ t \in Threads
    OBVIOUS
  <2>2. Cardinality(S) \in Nat /\ Cardinality(S \ {t}) = Cardinality(S) - 1
    BY <2>1, SizeStep
  <2>3. Cardinality(S \ {t}) \in Nat
    BY <2>1, SizeStep
  <2> QED BY <2>2, <2>3
<1>4. /\ At({"store"}) # {} => Cardinality(Announcing) >= 1
      /\ At({"inc_rear"}) # {} => Cardinality(Reserving) >= 1
      /\ At({"inc_front"}) # {} => Cardinality(Claiming) >= 1
      /\ At({"load"}) # {} => Cardinality(Releasing) >= 1
  BY <1>2, <1>3, SubsetsOfThreads
<1> QED BY <1>1, <1>4, Sizes

(* What the refinement needs besides Inv: a producer inside sbuf_insert    *)
(* carries an item, and so does every occupied position of the ring.       *)
Carrying == \A p \in Producers : pc[p] # "idle" => item[p] \in Values
Occupied == \A i \in 1 .. StoredRear - LoadedFront : buf[(LoadedFront + i) % N] \in Values

FInv == Inv /\ Carrying /\ Occupied

LEMMA FInvInit == Init => FInv /\ Fifo!Init
<1> SUFFICES ASSUME Init PROVE FInv /\ Fifo!Init
  OBVIOUS
<1>1. At({"store"}) = {} /\ At({"load"}) = {}
  BY DEF Init, At
<1>2. StoredRear = 0 /\ LoadedFront = 0
  BY <1>1 DEF Init, sbuf_init, StoredRear, LoadedFront
<1>3. Contents = << >>
  BY <1>2 DEF Contents
<1> QED BY <1>2, <1>3, InvInit DEF FInv, Carrying, Occupied, Init, Threads, Fifo!Init

(* A step that moves no thread into or out of "store" or "load" and leaves *)
(* the ring alone leaves the queue alone.                                  *)
LEMMA QuietStep ==
    ASSUME FInv, Inv', Carrying', UNCHANGED <<buf, front, rear>>,
           At({"store"})' = At({"store"}), At({"load"})' = At({"load"})
    PROVE  FInv' /\ Contents' = Contents
BY DEF FInv, Occupied, Contents, StoredRear, LoadedFront

(* ++sp->rear and ++sp->front alone change nothing a caller can see.       *)
LEMMA IncRearQuiet ==
    ASSUME FInv, Inv', Carrying', NEW p \in Producers, IncRear(p)
    PROVE  FInv' /\ Contents' = Contents
<1>1. p \in Threads /\ pc[p] \in Critical /\ pc'[p] = "store"
  BY DEF Threads, IncRear, Critical, Goto, FInv, Inv, TypeOK
<1>2. At({"store"}) = {} /\ At({"load"}) = {}
  BY <1>1, OneInCritical DEF FInv, At, Critical, IncRear
<1>3. p \in At({"store"})' /\ At({"load"})' = At({"load"})
  BY <1>1 DEF At, IncRear, Goto, FInv, Inv, TypeOK
<1>4. rear' = rear + 1 /\ front' = front /\ buf' = buf /\ rear \in Nat /\ front \in Nat
  BY DEF IncRear, FInv, Inv, TypeOK
<1>5. StoredRear' = StoredRear /\ LoadedFront' = LoadedFront
  BY <1>2, <1>3, <1>4 DEF StoredRear, LoadedFront
<1> QED BY <1>4, <1>5 DEF FInv, Occupied, Contents

LEMMA IncFrontQuiet ==
    ASSUME FInv, Inv', Carrying', NEW c \in Consumers, IncFront(c)
    PROVE  FInv' /\ Contents' = Contents
<1>1. c \in Threads /\ pc[c] \in Critical /\ pc'[c] = "load"
  BY DEF Threads, IncFront, Critical, Goto, FInv, Inv, TypeOK
<1>2. At({"store"}) = {} /\ At({"load"}) = {}
  BY <1>1, OneInCritical DEF FInv, At, Critical, IncFront
<1>3. c \in At({"load"})' /\ At({"store"})' = At({"store"})
  BY <1>1 DEF At, IncFront, Goto, FInv, Inv, TypeOK
<1>4. front' = front + 1 /\ rear' = rear /\ buf' = buf /\ rear \in Nat /\ front \in Nat
  BY DEF IncFront, FInv, Inv, TypeOK
<1>5. StoredRear' = StoredRear /\ LoadedFront' = LoadedFront
  BY <1>2, <1>3, <1>4 DEF StoredRear, LoadedFront
<1> QED BY <1>4, <1>5 DEF FInv, Occupied, Contents

(* The store appends the item of the producer: the slot it writes is not   *)
(* one of the occupied ones.                                               *)
LEMMA StorePuts ==
    ASSUME FInv, Inv', Carrying', NEW p \in Producers, Store(p)
    PROVE  FInv' /\ Fifo!Put(item[p])
<1> DEFINE L == rear - front
<1>1. p \in Threads /\ pc[p] = "store" /\ pc'[p] = "V_mutex" /\ pc[p] \in Critical
  BY DEF Threads, Store, Critical, Goto, FInv, Inv, TypeOK
<1>2. At({"store"}) = {p} /\ At({"load"}) = {}
  BY <1>1, OneInCritical DEF FInv, At, Critical
<1>3. At({"store"})' = {} /\ At({"load"})' = {}
  BY <1>1, <1>2 DEF At, Store, Goto, FInv, Inv, TypeOK
<1>4. rear \in Nat /\ front \in Nat /\ L \in 1 .. N /\ N \in Nat
  BY <1>2, RingBounds, SBufAssumption DEF FInv
<1>5. /\ StoredRear = rear - 1 /\ LoadedFront = front
      /\ StoredRear' = rear /\ LoadedFront' = front
  BY <1>2, <1>3 DEF StoredRear, LoadedFront, Store
<1>6. buf \in [0 .. N - 1 -> Values \cup {Zero}] /\ rear % N \in 0 .. N - 1
  BY <1>4, ModBounds DEF FInv, Inv, TypeOK
<1>7. buf'[rear % N] = item[p]
  BY <1>6 DEF Store
<1>8. \A i \in 1 .. L - 1 : /\ (front + i) % N \in 0 .. N - 1
                            /\ buf'[(front + i) % N] = buf[(front + i) % N]
  <2> TAKE i \in 1 .. L - 1
  <2>1. front + i \in Nat /\ front + i < rear /\ rear - (front + i) < N
    BY <1>4
  <2>2. (front + i) % N # rear % N
    BY <1>4, <2>1, ModDistinct
  <2>3. (front + i) % N \in 0 .. N - 1
    BY <2>1, ModBounds
  <2> QED BY <1>6, <2>2, <2>3 DEF Store
<1>9. Contents = [i \in 1 .. L - 1 |-> buf[(front + i) % N]]
  <2>1. StoredRear - LoadedFront = L - 1
    BY <1>4, <1>5
  <2> QED BY <1>5, <2>1 DEF Contents
<1>10. Contents' = [i \in 1 .. L |-> buf'[(front + i) % N]]
  BY <1>5 DEF Contents
<1>11. item[p] \in Values
  BY <1>1 DEF FInv, Carrying
<1>12. \A i \in 1 .. L - 1 : buf[(front + i) % N] \in Values
  <2>1. StoredRear - LoadedFront = L - 1
    BY <1>4, <1>5
  <2> QED BY <1>5, <2>1 DEF FInv, Occupied
<1>13. front + L = rear
  BY <1>4
<1>14. Occupied'
  <2>1. \A i \in 1 .. L : buf'[(front + i) % N] \in Values
    <3> TAKE i \in 1 .. L
    <3>1. CASE i = L
      BY <1>7, <1>11, <1>13, <3>1
    <3>2. CASE i # L
      <4>1. i \in 1 .. L - 1
        BY <1>4, <3>2
      <4> QED BY <1>8, <1>12, <4>1
    <3> QED BY <3>1, <3>2
  <2> QED BY <1>5, <2>1 DEF Occupied
<1>15. Contents \in Seq(Values) /\ Len(Contents) = L - 1
  BY <1>4, <1>9, <1>12
<1>16. Contents' = Append(Contents, item[p])
  <2>1. Append(Contents, item[p]) = [i \in 1 .. L |-> IF i = L THEN item[p] ELSE Contents[i]]
    BY <1>4, <1>15, <1>11
  <2>2. \A i \in 1 .. L : buf'[(front + i) % N] = IF i = L THEN item[p] ELSE Contents[i]
    <3> TAKE i \in 1 .. L
    <3>1. CASE i = L
      BY <1>7, <1>13, <3>1
    <3>2. CASE i # L
      <4>1. i \in 1 .. L - 1
        BY <1>4, <3>2
      <4> QED BY <1>8, <1>9, <3>2, <4>1
    <3> QED BY <3>1, <3>2
  <2> QED BY <1>10, <2>1, <2>2
<1>17. Len(Contents) < N
  BY <1>4, <1>15
<1> QED BY <1>14, <1>16, <1>17 DEF FInv, Fifo!Put

(* The load takes the oldest item, the head of the queue.                  *)
LEMMA LoadGets ==
    ASSUME FInv, Inv', Carrying', NEW c \in Consumers, Load(c)
    PROVE  FInv' /\ Fifo!Get /\ item'[c] = Head(Contents) /\ item'[c] # Zero
<1> DEFINE L == rear - front
           F == front - 1
<1>1. c \in Threads /\ pc[c] = "load" /\ pc'[c] = "V_mutex" /\ pc[c] \in Critical
  BY DEF Threads, Load, Critical, Goto, FInv, Inv, TypeOK
<1>2. At({"load"}) = {c} /\ At({"store"}) = {}
  BY <1>1, OneInCritical DEF FInv, At, Critical
<1>3. At({"store"})' = {} /\ At({"load"})' = {}
  BY <1>1, <1>2 DEF At, Load, Goto, FInv, Inv, TypeOK
<1>4. rear \in Nat /\ front \in Nat /\ L \in 0 .. N - 1 /\ N \in Nat
  BY <1>2, RingBounds, SBufAssumption DEF FInv
<1>5. /\ StoredRear = rear /\ LoadedFront = F
      /\ StoredRear' = rear /\ LoadedFront' = front /\ buf' = buf
  BY <1>2, <1>3 DEF StoredRear, LoadedFront, Load
<1>6. StoredRear - LoadedFront = L + 1 /\ StoredRear' - LoadedFront' = L
  BY <1>4, <1>5
<1>7. Contents = [i \in 1 .. L + 1 |-> buf[(F + i) % N]]
  BY <1>5, <1>6 DEF Contents
<1>8. Contents' = [i \in 1 .. L |-> buf[(front + i) % N]]
  BY <1>5, <1>6 DEF Contents
<1>9. \A i \in 1 .. L + 1 : buf[(F + i) % N] \in Values
  BY <1>5, <1>6 DEF FInv, Occupied
<1>10. \A i \in 1 .. L : i + 1 \in 1 .. L + 1 /\ F + (i + 1) = front + i
  BY <1>4
<1>11. 1 \in 1 .. L + 1 /\ F + 1 = front
  BY <1>4
<1>12. Contents \in Seq(Values) /\ Len(Contents) = L + 1
  BY <1>4, <1>7, <1>9
<1>13. Contents' = Tail(Contents)
  <2>1. Tail(Contents) = [i \in 1 .. L |-> Contents[i + 1]]
    <3> HIDE DEF L
    <3>1. Len(Contents) - 1 = L /\ Contents # << >>
      BY <1>4, <1>12
    <3>2. /\ Tail(Contents) \in Seq(Values) /\ Len(Tail(Contents)) = L
          /\ \A i \in 1 .. L : Tail(Contents)[i] = Contents[i + 1]
      BY <1>12, <3>1
    <3>3. Tail(Contents) = [i \in 1 .. L |-> Tail(Contents)[i]]
      BY <3>2, SeqIsFunction
    <3> QED BY <3>2, <3>3
  <2>2. \A i \in 1 .. L : Contents[i + 1] = buf[(front + i) % N]
    BY <1>7, <1>10
  <2> QED BY <1>8, <2>1, <2>2
<1>14. Occupied'
  <2>1. \A i \in 1 .. L : buf[(front + i) % N] \in Values
    <3> TAKE i \in 1 .. L
    <3> QED BY <1>9, <1>10
  <2> QED BY <1>5, <1>6, <2>1 DEF Occupied
<1>15. Contents # << >>
  BY <1>4, <1>12
<1>16. Head(Contents) = buf[front % N] /\ buf[front % N] \in Values
  BY <1>7, <1>9, <1>11, <1>12
<1>17. item'[c] = buf[front % N]
  BY <1>1 DEF Load, FInv, Inv, TypeOK
<1> QED BY <1>13, <1>14, <1>15, <1>16, <1>17, SBufAssumption DEF FInv, Fifo!Get

(* A producer carries its item from the call of sbuf_insert to its return. *)
LEMMA CarryingStep ==
    ASSUME FInv, [Next]_vars
    PROVE  Carrying'
<1> USE SBufAssumption DEF FInv, Inv, TypeOK, Carrying, Goto, Threads
<1>1. ASSUME NEW p \in Producers, NEW v \in Values, InsertCall(p, v) PROVE Carrying'
  BY <1>1 DEF InsertCall
<1>2. ASSUME NEW p \in Producers, InsertStep(p) PROVE Carrying'
  BY <1>2 DEF InsertStep, PSlots, PMutex, IncRear, Store, VMutex, VItems
<1>3. ASSUME NEW c \in Consumers, RemoveStep(c) PROVE Carrying'
  <2>1. \A p \in Producers : p # c
    OBVIOUS
  <2>2. \A p \in Producers : pc'[p] = pc[p] /\ item'[p] = item[p]
    BY <1>3, <2>1 DEF RemoveStep, PItems, PMutex, IncFront, Load, VMutex, VSlots
  <2> QED BY <2>2
<1>4. ASSUME NEW c \in Consumers, RemoveCall(c) PROVE Carrying'
  BY <1>4 DEF RemoveCall
<1>5. CASE UNCHANGED vars
  BY <1>5 DEF vars
<1> QED BY <1>1, <1>2, <1>3, <1>4, <1>5 DEF Next

(* The steps that only touch semaphores, calls and returns.                *)
LEMMA QuietActions ==
    ASSUME FInv, NEW t \in Threads,
           \/ PSlots(t) \/ VItems(t) \/ PItems(t) \/ VSlots(t) \/ PMutex(t) \/ VMutex(t)
           \/ RemoveCall(t) \/ \E v \in Values : InsertCall(t, v)
    PROVE  /\ UNCHANGED <<buf, front, rear>>
           /\ At({"store"})' = At({"store"}) /\ At({"load"})' = At({"load"})
<1>1. PICK l \in InsertPC \cup RemovePC :
        /\ l \notin {"store", "load"} /\ pc[t] \notin {"store", "load"}
        /\ pc' = [pc EXCEPT ![t] = l]
        /\ UNCHANGED <<buf, front, rear>>
  BY DEF PSlots, VItems, PItems, VSlots, PMutex, VMutex, RemoveCall, InsertCall, Goto,
     InsertPC, RemovePC
<1>2. pc \in [Threads -> InsertPC \cup RemovePC]
  BY DEF FInv, Inv, TypeOK
<1> QED BY <1>1, <1>2 DEF At

LEMMA FifoStep ==
    ASSUME FInv, Inv', [Next]_vars
    PROVE  /\ FInv'
           /\ [Fifo!Next]_Contents
           /\ \A c \in Consumers : pc[c] = "load" /\ pc'[c] = "V_mutex" =>
                item'[c] = Head(Contents) /\ item'[c] # Zero
<1> DEFINE Returned == \A c \in Consumers : pc[c] = "load" /\ pc'[c] = "V_mutex" =>
                         item'[c] = Head(Contents) /\ item'[c] # Zero
<1>1. Carrying'
  BY CarryingStep
<1>2. ASSUME NEW t \in Threads,
             \/ PSlots(t) \/ VItems(t) \/ PItems(t) \/ VSlots(t) \/ PMutex(t) \/ VMutex(t)
             \/ RemoveCall(t) \/ \E v \in Values : InsertCall(t, v)
      PROVE  FInv' /\ Contents' = Contents /\ Returned
  <2>1. At({"load"})' = At({"load"})
    BY <1>2, QuietActions
  <2>2. Returned
    BY <2>1 DEF At, Threads
  <2> QED BY <1>1, <1>2, <2>2, QuietActions, QuietStep
<1>3. ASSUME NEW p \in Producers, IncRear(p) PROVE FInv' /\ Contents' = Contents /\ Returned
  <2>1. Returned
    BY <1>3, SBufAssumption DEF IncRear, Goto, FInv, Inv, TypeOK, Threads
  <2> QED BY <1>1, <1>3, <2>1, IncRearQuiet
<1>4. ASSUME NEW c \in Consumers, IncFront(c) PROVE FInv' /\ Contents' = Contents /\ Returned
  <2>1. Returned
    BY <1>4, SBufAssumption DEF IncFront, Goto, FInv, Inv, TypeOK, Threads
  <2> QED BY <1>1, <1>4, <2>1, IncFrontQuiet
<1>5. ASSUME NEW p \in Producers, Store(p)
      PROVE  FInv' /\ (\E v \in Values : Fifo!Put(v)) /\ Returned
  <2>1. item[p] \in Values
    BY <1>5 DEF Store, FInv, Carrying
  <2>2. Returned
    BY <1>5, SBufAssumption DEF Store, Goto, FInv, Inv, TypeOK, Threads
  <2> QED BY <1>1, <1>5, <2>1, <2>2, StorePuts
<1>6. ASSUME NEW c \in Consumers, Load(c) PROVE FInv' /\ Fifo!Get /\ Returned
  <2>1. Returned
    <3> SUFFICES ASSUME NEW d \in Consumers, pc[d] = "load", pc'[d] = "V_mutex"
                 PROVE  item'[d] = Head(Contents) /\ item'[d] # Zero
      OBVIOUS
    <3>1. d = c
      BY <1>6 DEF Load, Goto, FInv, Inv, TypeOK, Threads
    <3> QED BY <1>1, <1>6, <3>1, LoadGets
  <2> QED BY <1>1, <1>6, <2>1, LoadGets
<1>7. CASE UNCHANGED vars
  <2>1. Contents' = Contents /\ Occupied'
    BY <1>7 DEF vars, Contents, StoredRear, LoadedFront, At, FInv, Occupied
  <2>2. Returned
    BY <1>7 DEF vars
  <2> QED BY <1>1, <2>1, <2>2 DEF FInv
<1>8. \A p \in Producers : p \in Threads
  BY DEF Threads
<1>9. \A c \in Consumers : c \in Threads
  BY DEF Threads
<1> HIDE DEF Returned
<1>10. ASSUME NEW p \in Producers, InsertStep(p) \/ \E v \in Values : InsertCall(p, v)
       PROVE  FInv' /\ [Fifo!Next]_Contents /\ Returned
  BY <1>2, <1>3, <1>5, <1>8, <1>10 DEF InsertStep, Fifo!Next
<1>11. ASSUME NEW c \in Consumers, RemoveStep(c) \/ RemoveCall(c)
       PROVE  FInv' /\ [Fifo!Next]_Contents /\ Returned
  BY <1>2, <1>4, <1>6, <1>9, <1>11 DEF RemoveStep, Fifo!Next
<1>12. ASSUME UNCHANGED vars PROVE FInv' /\ [Fifo!Next]_Contents /\ Returned
  <2>1. Contents' = Contents
    BY <1>12 DEF vars, Contents, StoredRear, LoadedFront, At
  <2> QED BY <1>7, <1>12, <2>1 DEF Returned, vars
<1>13. FInv' /\ [Fifo!Next]_Contents /\ Returned
  BY <1>10, <1>11, <1>12 DEF Next
<1> QED BY <1>13 DEF Returned

(* What a module that uses the buffer needs of it: a producer that leaves  *)
(* "store" has appended its item to the contents, a consumer that leaves   *)
(* "load" has taken their head, and no other step changes them.            *)
LEMMA RingContents ==
    ASSUME FInv
    PROVE  Contents \in Seq(Values) /\ Len(Contents) <= N
<1>1. StoredRear - LoadedFront \in 0 .. N
  BY RingBounds, SBufAssumption DEF FInv, StoredRear, LoadedFront
<1>2. \A i \in 1 .. StoredRear - LoadedFront : buf[(LoadedFront + i) % N] \in Values
  BY DEF FInv, Occupied
<1> DEFINE L == StoredRear - LoadedFront
           F == LoadedFront
<1> HIDE DEF L, F
<1>3. Contents = [i \in 1 .. L |-> buf[(F + i) % N]] /\ L \in 0 .. N
  BY <1>1 DEF Contents, L, F
<1>4. \A i \in 1 .. L : buf[(F + i) % N] \in Values
  BY <1>2 DEF L, F
<1> QED BY <1>3, <1>4, SBufAssumption

LEMMA RingStep ==
    ASSUME FInv, [Next]_vars
    PROVE  /\ FInv'
           /\ \A p \in Producers : pc[p] = "store" /\ pc'[p] # "store" =>
                item[p] \in Values /\ Contents' = Append(Contents, item[p])
           /\ \A c \in Consumers : pc[c] = "load" /\ pc'[c] # "load" =>
                /\ Contents # << >> /\ Contents' = Tail(Contents)
                /\ item'[c] = Head(Contents)
           /\ \A t \in Threads : pc'[t] # pc[t] /\ pc[t] \notin {"store", "load"} =>
                Contents' = Contents
<1>1. Inv' /\ Carrying'
  BY InvStep, CarryingStep DEF FInv
<1>2. FInv'
  BY <1>1, FifoStep
<1>3. pc \in [Threads -> InsertPC \cup RemovePC]
  BY DEF FInv, Inv, TypeOK
<1>4. ASSUME NEW p \in Producers, pc[p] = "store", pc'[p] # "store"
      PROVE  item[p] \in Values /\ Contents' = Append(Contents, item[p])
  <2>1. p \in Threads /\ p \notin Consumers
    BY SBufAssumption DEF Threads
  <2>2. Store(p)
    <3>1. ASSUME NEW t \in Threads, t # p,
                 \E l \in InsertPC \cup RemovePC : pc' = [pc EXCEPT ![t] = l]
          PROVE  FALSE
      BY <1>3, <1>4, <2>1, <3>1
    <3>2. pc' # pc
      BY <1>4
    <3> QED BY <1>4, <2>1, <3>1, <3>2 DEF Next, vars, InsertStep, RemoveStep, InsertCall,
        RemoveCall, PSlots, PMutex, IncRear, VMutex, VItems, PItems, IncFront, Load, VSlots,
        Store, Goto, InsertPC, RemovePC, Threads
  <2>3. item[p] \in Values
    BY <1>4, <2>1 DEF FInv, Carrying
  <2> QED BY <1>1, <2>2, <2>3, StorePuts DEF Fifo!Put
<1>5. ASSUME NEW c \in Consumers, pc[c] = "load", pc'[c] # "load"
      PROVE  /\ Contents # << >> /\ Contents' = Tail(Contents)
             /\ item'[c] = Head(Contents)
  <2>1. c \in Threads /\ c \notin Producers
    BY SBufAssumption DEF Threads
  <2>2. Load(c)
    <3>1. ASSUME NEW t \in Threads, t # c,
                 \E l \in InsertPC \cup RemovePC : pc' = [pc EXCEPT ![t] = l]
          PROVE  FALSE
      BY <1>3, <1>5, <2>1, <3>1
    <3>2. pc' # pc
      BY <1>5
    <3> QED BY <1>5, <2>1, <3>1, <3>2 DEF Next, vars, InsertStep, RemoveStep, InsertCall,
        RemoveCall, PSlots, PMutex, IncRear, VMutex, VItems, PItems, IncFront, Load, VSlots,
        Store, Goto, InsertPC, RemovePC, Threads
  <2> QED BY <1>1, <2>2, LoadGets DEF Fifo!Get
<1>6. ASSUME NEW t \in Threads, pc'[t] # pc[t], pc[t] \notin {"store", "load"}
      PROVE  Contents' = Contents
  <2>1. ASSUME NEW u \in Threads, pc[u] \in {"store", "load"},
               \E l \in InsertPC \cup RemovePC : pc' = [pc EXCEPT ![u] = l]
        PROVE  FALSE
    BY <1>3, <1>6, <2>1
  <2>2. ASSUME NEW u \in Threads, Store(u) \/ Load(u) PROVE FALSE
    BY <2>1, <2>2 DEF Store, Load, Goto, InsertPC, RemovePC
  <2>3. \A u : u \in Producers \/ u \in Consumers => u \in Threads
    BY DEF Threads
  <2>4. pc' # pc
    BY <1>6
  <2>5. ASSUME NEW u \in Threads,
               \/ PSlots(u) \/ VItems(u) \/ PItems(u) \/ VSlots(u) \/ PMutex(u) \/ VMutex(u)
               \/ RemoveCall(u) \/ \E v \in Values : InsertCall(u, v)
        PROVE  Contents' = Contents
    BY <1>1, <2>5, QuietActions, QuietStep
  <2>6. ASSUME NEW p \in Producers, InsertStep(p) \/ \E v \in Values : InsertCall(p, v)
        PROVE  Contents' = Contents
    BY <1>1, <2>2, <2>3, <2>5, <2>6, IncRearQuiet DEF InsertStep
  <2>7. ASSUME NEW c \in Consumers, RemoveStep(c) \/ RemoveCall(c)
        PROVE  Contents' = Contents
    BY <1>1, <2>2, <2>3, <2>5, <2>7, IncFrontQuiet DEF RemoveStep
  <2>8. ~ UNCHANGED vars
    BY <2>4 DEF vars
  <2> QED BY <2>6, <2>7, <2>8 DEF Next
<1> QED BY <1>2, <1>4, <1>5, <1>6

(* sbuf.c implements the bounded FIFO queue.                               *)
THEOREM SBufImplementsFifo == Spec => ImplementsFifo
<1>1. Init => FInv /\ Fifo!Init
  BY FInvInit
<1>2. FInv /\ Inv' /\ [Next]_vars => FInv' /\ [Fifo!Next]_Contents
  BY FifoStep
<1> QED BY <1>1, <1>2, InvInvariant, PTL DEF Spec, ImplementsFifo, Fifo!Spec

(* sbuf_remove returns the oldest item, never an empty slot.               *)
THEOREM RemoveReturnsOldest == Spec => ReturnsOldest
<1>1. Init => FInv
  BY FInvInit
<1>2. FInv /\ Inv' /\ [Next]_vars =>
        /\ FInv'
        /\ \A c \in Consumers : pc[c] = "load" /\ pc'[c] = "V_mutex" =>
             item'[c] = Head(Contents) /\ item'[c] # Zero
  BY FifoStep
<1> QED BY <1>1, <1>2, InvInvariant, PTL DEF Spec, ReturnsOldest

============================================================================
