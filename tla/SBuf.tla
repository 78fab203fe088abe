------------------------------- MODULE SBuf --------------------------------
(***************************************************************************)
(* The bounded buffer of 7_ProxyLab/demoCode/conc/sbuf.c: a ring of N      *)
(* slots, two counting semaphores (slots, items) and a mutex, shared by    *)
(* the threads that insert and the threads that remove.                    *)
(*                                                                         *)
(* One action per semaphore operation.  The statement between P(&mutex)    *)
(* and V(&mutex) is two accesses to shared memory, ++sp->rear (++front)    *)
(* and the access to buf, and is two actions: nothing in the model makes   *)
(* the critical section atomic but the mutex.                              *)
(***************************************************************************)
EXTENDS Integers, Sequences, FiniteSets

CONSTANTS Producers,  \* threads that call sbuf_insert
          Consumers,  \* threads that call sbuf_remove
          Values,     \* the items (descriptors)
          Zero,       \* what Calloc leaves in a slot
          N,          \* number of slots, the argument of sbuf_init
          IntMax      \* bound: front and rear are C ints that never wrap here

Threads == Producers \cup Consumers

ASSUME SBufAssumption ==
    /\ IsFiniteSet(Producers) /\ IsFiniteSet(Consumers)
    /\ Producers \cap Consumers = {}
    /\ N \in Nat \ {0}
    /\ IntMax \in Nat
    /\ Zero \notin Values

VARIABLES buf,    \* sp->buf
          front,  \* sp->front: buf[(front+1) % n] is the oldest item
          rear,   \* sp->rear:  buf[rear % n] is the newest item
          mutex, slots, items,   \* the three semaphores
          pc,     \* pc[t]: where thread t is in sbuf_insert or sbuf_remove
          item    \* item[t]: the argument of insert, the result of remove

vars == <<buf, front, rear, mutex, slots, items, pc, item>>

InsertPC == {"idle", "P_slots", "P_mutex", "inc_rear", "store", "V_mutex",
             "V_items"}
RemovePC == {"idle", "P_items", "P_mutex", "inc_front", "load", "V_mutex",
             "V_slots"}

Goto(t, l) == pc' = [pc EXCEPT ![t] = l]

sbuf_init == /\ buf = [i \in 0 .. N - 1 |-> Zero]
             /\ front = 0 /\ rear = 0
             /\ mutex = 1 /\ slots = N /\ items = 0

Init == /\ sbuf_init
        /\ pc = [t \in Threads |-> "idle"]
        /\ item = [t \in Threads |-> Zero]

----------------------------------------------------------------------------
(* sbuf_insert *)

InsertCall(p, v) == /\ pc[p] = "idle"
                    /\ Goto(p, "P_slots")
                    /\ item' = [item EXCEPT ![p] = v]
                    /\ UNCHANGED <<buf, front, rear, mutex, slots, items>>

PSlots(p) == /\ pc[p] = "P_slots" /\ slots > 0
             /\ slots' = slots - 1
             /\ Goto(p, "P_mutex")
             /\ UNCHANGED <<buf, front, rear, mutex, items, item>>

IncRear(p) == /\ pc[p] = "inc_rear" /\ rear < IntMax
              /\ rear' = rear + 1
              /\ Goto(p, "store")
              /\ UNCHANGED <<buf, front, mutex, slots, items, item>>

(* Mutant: buf[(rear++) % n], the slot before the right one. *)
StorePostIncrement(p) == /\ pc[p] = "store"
                         /\ buf' = [buf EXCEPT ![(rear - 1) % N] = item[p]]
                         /\ Goto(p, "V_mutex")
                         /\ UNCHANGED <<front, rear, mutex, slots, items, item>>

Store(p) == /\ pc[p] = "store"
            /\ buf' = [buf EXCEPT ![rear % N] = item[p]]
            /\ Goto(p, "V_mutex")
            /\ UNCHANGED <<front, rear, mutex, slots, items, item>>

(* Mutant: the insert posts the semaphore of the free slots. *)
VItemsWrongSemaphore(p) == /\ pc[p] = "V_items"
                           /\ slots' = slots + 1
                           /\ Goto(p, "idle")
                           /\ UNCHANGED <<buf, front, rear, mutex, items, item>>

VItems(p) == /\ pc[p] = "V_items"
             /\ items' = items + 1
             /\ Goto(p, "idle")
             /\ UNCHANGED <<buf, front, rear, mutex, slots, item>>

----------------------------------------------------------------------------
(* sbuf_remove *)

RemoveCall(c) == /\ pc[c] = "idle"
                 /\ Goto(c, "P_items")
                 /\ UNCHANGED <<buf, front, rear, mutex, slots, items, item>>

PItems(c) == /\ pc[c] = "P_items" /\ items > 0
             /\ items' = items - 1
             /\ Goto(c, "P_mutex")
             /\ UNCHANGED <<buf, front, rear, mutex, slots, item>>

IncFront(c) == /\ pc[c] = "inc_front"
               /\ front' = front + 1
               /\ Goto(c, "load")
               /\ UNCHANGED <<buf, rear, mutex, slots, items, item>>

(* Mutant: the item is read after the lock was taken but before front is   *)
(* advanced, buf[(front++) % n].                                           *)
LoadPostIncrement(c) == /\ pc[c] = "load"
                        /\ item' = [item EXCEPT ![c] = buf[(front - 1) % N]]
                        /\ Goto(c, "V_mutex")
                        /\ UNCHANGED <<buf, front, rear, mutex, slots, items>>

Load(c) == /\ pc[c] = "load"
           /\ item' = [item EXCEPT ![c] = buf[front % N]]
           /\ Goto(c, "V_mutex")
           /\ UNCHANGED <<buf, front, rear, mutex, slots, items>>

VSlots(c) == /\ pc[c] = "V_slots"
             /\ slots' = slots + 1
             /\ Goto(c, "idle")
             /\ UNCHANGED <<buf, front, rear, mutex, items, item>>

----------------------------------------------------------------------------
(* the mutex, the same calls in both functions *)

(* Mutant: the buffer is not locked. *)
PMutexMissing(t) == /\ pc[t] = "P_mutex"
                    /\ Goto(t, IF t \in Producers THEN "inc_rear" ELSE "inc_front")
                    /\ UNCHANGED <<buf, front, rear, mutex, slots, items, item>>

PMutex(t) == /\ pc[t] = "P_mutex" /\ mutex > 0
             /\ mutex' = mutex - 1
             /\ Goto(t, IF t \in Producers THEN "inc_rear" ELSE "inc_front")
             /\ UNCHANGED <<buf, front, rear, slots, items, item>>

VMutex(t) == /\ pc[t] = "V_mutex"
             /\ mutex' = mutex + 1
             /\ Goto(t, IF t \in Producers THEN "V_items" ELSE "V_slots")
             /\ UNCHANGED <<buf, front, rear, slots, items, item>>

InsertStep(p) == PSlots(p) \/ PMutex(p) \/ IncRear(p) \/ Store(p) \/ VMutex(p)
                   \/ VItems(p)

RemoveStep(c) == PItems(c) \/ PMutex(c) \/ IncFront(c) \/ Load(c) \/ VMutex(c)
                   \/ VSlots(c)

Next == \/ \E p \in Producers : InsertStep(p) \/ \E v \in Values : InsertCall(p, v)
        \/ \E c \in Consumers : RemoveStep(c) \/ RemoveCall(c)

Spec == Init /\ [][Next]_vars

----------------------------------------------------------------------------
(* Properties *)

At(L) == {t \in Threads : pc[t] \in L}

TypeOK == /\ buf \in [0 .. N - 1 -> Values \cup {Zero}]
          /\ front \in Nat /\ rear \in Nat
          /\ mutex \in Nat /\ slots \in Nat /\ items \in Nat
          /\ pc \in [Threads -> InsertPC \cup RemovePC]
          /\ \A p \in Producers : pc[p] \in InsertPC
          /\ \A c \in Consumers : pc[c] \in RemovePC
          /\ item \in [Threads -> Values \cup {Zero}]

(* Between P(&sp->mutex) and V(&sp->mutex). *)
Critical == {"inc_rear", "store", "inc_front", "load", "V_mutex"}

(* The mutex counts the thread inside the critical section of sbuf_insert  *)
(* or sbuf_remove, so there is never more than one ("Binary semaphore for  *)
(* locking", sbuf.c:12).                                                   *)
MutualExclusion == mutex + Cardinality(At(Critical)) = 1

(* Producers that took a slot and have not advanced rear; that advanced    *)
(* rear and have not announced the item; and the same for consumers.       *)
Reserving  == {t \in Threads : \/ pc[t] = "inc_rear"
                               \/ pc[t] = "P_mutex" /\ t \in Producers}
Announcing == {t \in Threads : \/ pc[t] \in {"store", "V_items"}
                               \/ pc[t] = "V_mutex" /\ t \in Producers}
Claiming   == {t \in Threads : \/ pc[t] = "inc_front"
                               \/ pc[t] = "P_mutex" /\ t \in Consumers}
Releasing  == {t \in Threads : \/ pc[t] \in {"load", "V_slots"}
                               \/ pc[t] = "V_mutex" /\ t \in Consumers}

(* The two counting semaphores and the two indices of the ring tell the    *)
(* same story in every interleaving: each item between front and rear is   *)
(* announced, about to be announced, or claimed by a consumer on its way,  *)
(* and each other slot is free, reserved by a producer, or about to be     *)
(* released.  No wakeup is lost and no slot is overwritten or read early.  *)
SemaphoresMatchRing ==
    /\ rear - front = items + Cardinality(Announcing) + Cardinality(Claiming)
    /\ N - (rear - front) = slots + Cardinality(Reserving) + Cardinality(Releasing)

(* The contents of the ring.  A producer at "store" has advanced rear but  *)
(* its item is not yet there; a consumer at "load" has advanced front and  *)
(* its item is still there.                                                *)
StoredRear  == IF At({"store"}) # {} THEN rear - 1 ELSE rear
LoadedFront == IF At({"load"}) # {} THEN front - 1 ELSE front

Contents == [i \in 1 .. StoredRear - LoadedFront |-> buf[(LoadedFront + i) % N]]

Fifo == INSTANCE FifoQueue WITH q <- Contents

(* sbuf implements the bounded FIFO queue of FifoQueue ("bounded, shared   *)
(* FIFO buffer with n slots", sbuf.c:5): the item takes effect at the      *)
(* access to buf inside the critical section, and items leave in the order *)
(* they came, whichever threads insert and remove them.                    *)
ImplementsFifo == Fifo!Spec

(* What sbuf_remove hands to its caller is the oldest item of the buffer.  *)
ReturnsOldest ==
    [][\A c \in Consumers : pc[c] = "load" /\ pc'[c] = "V_mutex" =>
           item'[c] = Head(Contents) /\ item'[c] # Zero]_vars

============================================================================
