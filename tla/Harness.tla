------------------------------ MODULE Harness ------------------------------
(***************************************************************************)
(* The test harness of the C programming lab, harness.c of                 *)
(* 0_CProgrammingLab/cprogramminglab-handout: the malloc and free the      *)
(* queue under test is compiled with, and the exceptions by which a fault  *)
(* or the time limit leaves an operation in the middle.                    *)
(*                                                                         *)
(* A block is a number; the system allocator hands out the least free one. *)
(* test_malloc and test_free link or unlink a block first and count it     *)
(* afterwards, so the count of the last call is kept in adj until the next *)
(* step of the operation: a siglongjmp in between loses it.                *)
(***************************************************************************)
EXTENDS Integers, FiniteSets, FiniteSetsExt

CONSTANTS NBlocks,   \* bound: blocks of memory there are
          Strings    \* what can be stored in a queue

ASSUME HarnessAssumption == NBlocks \in Nat

VARIABLES heap,              \* heap[b]: what block b holds
          allocated_count,   \* the count of live blocks
          adj,               \* what the last malloc or free has yet to add
          cautious_mode, noallocate_mode, error_occurred,
          jmp_ready, time_limited

blocks == <<heap, allocated_count, adj>>
modes == <<cautious_mode, noallocate_mode>>
exceptions == <<error_occurred, jmp_ready, time_limited>>
harness == <<blocks, modes, exceptions>>

NULL == 0
Blocks == 1 .. NBlocks
Ptr == Blocks \cup {NULL}

Unused == [kind |-> "unused"]
Objects == {Unused} \cup [kind : {"queue"}, head : Ptr, tail : Ptr, size : Int]
           \cup [kind : {"ele"}, value : Ptr, next : Ptr]
           \cup [kind : {"str"}, s : Strings]

HarnessInit == /\ heap = [b \in Blocks |-> Unused]
               /\ allocated_count = 0 /\ adj = 0
               /\ cautious_mode = TRUE /\ noallocate_mode = FALSE
               /\ error_occurred = FALSE /\ jmp_ready = FALSE /\ time_limited = FALSE

Allocated == {b \in Blocks : heap[b] # Unused}
FreeBlocks == Blocks \ Allocated
NewBlock == Min(FreeBlocks)

(* The pending count is added at the next step.                            *)
Settle == allocated_count' = allocated_count + adj

test_malloc(object) == /\ ~noallocate_mode /\ FreeBlocks # {}
                       /\ heap' = [heap EXCEPT ![NewBlock] = object]
                       /\ adj' = 1 /\ Settle

test_free(b) == /\ ~noallocate_mode /\ b \in Allocated
                /\ heap' = [heap EXCEPT ![b] = Unused]
                /\ adj' = -1 /\ Settle

(* Calls that end the program: a call in noallocate mode, no memory left;  *)
(* and a free of a block that is not allocated, which find_header reports  *)
(* and test_free hands to the system allocator nevertheless.               *)
MallocFatal == noallocate_mode \/ FreeBlocks = {}
FreeFatal == noallocate_mode
FreeWild(b) == ~noallocate_mode /\ b \notin Allocated

(* A step of an operation that stores to the heap without allocating.      *)
Store(b, object) == heap' = [heap EXCEPT ![b] = object] /\ adj' = 0 /\ Settle
NoStore == adj' = 0 /\ Settle /\ UNCHANGED heap

exception_setup == jmp_ready' = TRUE /\ time_limited' = TRUE
exception_cancel == jmp_ready' = FALSE /\ time_limited' = FALSE

(* trigger_exception while the jump is ready, with the second return of    *)
(* exception_setup: the handler of the command goes on behind the          *)
(* operation it had called.  The count of a malloc or free that was cut    *)
(* short may or may not have been updated.                                 *)
trigger_exception == /\ jmp_ready
                     /\ error_occurred' = TRUE
                     /\ jmp_ready' = FALSE /\ time_limited' = FALSE
                     /\ adj' = 0 /\ allocated_count' \in {allocated_count, allocated_count + adj}
                     /\ UNCHANGED <<heap, modes>>

HarnessTypeOK == /\ heap \in [Blocks -> Objects]
                 /\ allocated_count \in Int /\ adj \in {-1, 0, 1}
                 /\ {cautious_mode, noallocate_mode, error_occurred, jmp_ready,
                     time_limited} \subseteq BOOLEAN
=============================================================================
