------------------------------ MODULE MmMalloc ------------------------------
(***************************************************************************)
(* The explicit-free-list allocator of mm.c on the simulated memory of     *)
(* memlib.c.                                                               *)
(*                                                                         *)
(* Memory is what it is in C: a function from the addresses of words to    *)
(* unsigned integers.  Headers, footers, list nodes and the caller's data  *)
(* share those words, and a word is a header or a pointer only because of  *)
(* the way it is read.  The static variable TOP is one more word, so that  *)
(* &TOP serves as the predecessor of the first node, as in the code.       *)
(*                                                                         *)
(* The allocator runs in one thread and each call runs to its end, so a    *)
(* call is an operator from the memory before it to                        *)
(*     [mem |-> memory after, brk |-> break after, ptr |-> result].        *)
(* A call that reads or writes outside the memory does not return: its     *)
(* memory is Crashed.                                                      *)
(***************************************************************************)
EXTENDS Integers, Sequences, FiniteSets

CONSTANTS WordMod,      \* number of values of a size_t (2^32 in the code)
          HeapLo,       \* address of the first byte of the heap
          MAX_HEAP      \* bytes behind HeapLo that the heap may grow to

WORD == 4

ASSUME MmAssumption ==
    /\ WordMod \in Nat /\ MAX_HEAP \in Nat /\ HeapLo \in Nat
    /\ (HeapLo % 8) = 0 /\ (MAX_HEAP % 8) = 0 /\ (WordMod % 16) = 0
    /\ HeapLo > 2 * WORD /\ MAX_HEAP >= 8
    /\ HeapLo + MAX_HEAP < WordMod \div 2

NULL    == 0
TOP     == WORD                 \* the address of the static variable TOP
MAXU    == WordMod - 1          \* -1U
HeapEnd == HeapLo + MAX_HEAP    \* mem_max_addr
Words   == {TOP} \cup {HeapLo + WORD * i : i \in 0 .. (MAX_HEAP \div WORD) - 1}
MaxNodes == MAX_HEAP \div 8     \* a block has 8 bytes or more
Crashed == [a \in {} |-> 0]

(* A store.  After a crash nothing can be stored any more.                 *)
Store(m, a, v) == IF a \in DOMAIN m THEN [m EXCEPT ![a] = v] ELSE Crashed

(* The result r of code that reads the words A.                            *)
Reading(m, A, r) == IF A \subseteq DOMAIN m THEN r ELSE Crashed

----------------------------------------------------------------------------
(* Header and footer elements: a multiple of 8 and three flag bits.        *)

HDR_FREE  == 0
HDR_ALLOC == 1
HDR_PFREE == 2
FTR_VALID == 4

ALIGN(size) == LET s == (size + 7) % WordMod IN s - (s % 8)
MM_SIZE(e)  == e - (e % 8)
IS_ALLOC(e) == (e % 2) = 1
IS_PFREE(e) == ((e \div 2) % 2) = 1
IS_VALID(e) == ((e \div 4) % 2) = 1

HDR_PTR(ptr) == ptr - WORD
PLD_PTR(hdr) == hdr + WORD

INIT_SIZE == 8
FRST_BLK_HDR == HeapLo + INIT_SIZE - WORD
LAST_BLK_HDR(brk) == brk - WORD

set_header(m, p, size, flag) == Store(m, p, size + flag)

set_footer(m, p, size) ==
    Reading(m, {p}, Store(m, p + size - WORD,
                          m[p] + IF IS_VALID(m[p]) THEN 0 ELSE FTR_VALID))

----------------------------------------------------------------------------
(* The free list: a node is a word that holds the address of the next one. *)

(* Link(m)[n] is the n-th pointer that a walk from &TOP meets.             *)
Link(m) ==
    LET link[n \in 0 .. MaxNodes + 1] ==
            IF n = 0 THEN TOP
            ELSE LET a == link[n - 1] IN IF a \in DOMAIN m THEN m[a] ELSE NULL
    IN  link

(* The nodes of the list in order, when the walk ends in NULL.  A walk     *)
(* that meets more nodes than there can be blocks never ends.              *)
ListLength(m) ==
    LET link == Link(m) IN
    IF \E n \in DOMAIN link : link[n] = NULL
    THEN (CHOOSE n \in DOMAIN link : link[n] = NULL /\ \A k \in 0 .. n - 1 : link[k] # NULL) - 1
    ELSE -1

Nodes(m) == LET link == Link(m) IN [n \in 1 .. ListLength(m) |-> link[n]]

node_top(m, node) == Reading(m, {TOP}, Store(Store(m, node, m[TOP]), TOP, node))

node_insert(m, prev, node) ==
    Reading(m, {prev}, Store(Store(m, node, m[prev]), prev, node))

node_delete(m, prev, curr) == Reading(m, {curr}, Store(m, prev, m[curr]))

node_replace(m, prev, src, dst) ==
    Reading(m, {src, prev}, Store(Store(m, prev, dst), dst, Store(m, prev, dst)[src]))

(* The predecessor of curr.  For a node that is not on the list the walk   *)
(* goes on through NULL: there is no predecessor, and the caller crashes.  *)
node_find_prev(m, curr) ==
    LET link == Link(m)
        at == {n \in 1 .. MaxNodes + 1 : link[n] = curr
                  /\ \A k \in 1 .. n - 1 : link[k] \notin {NULL, curr}}
    IN  IF at = {} THEN NULL ELSE link[(CHOOSE n \in at : TRUE) - 1]

node_delete_s(m, curr)      == node_delete(m, node_find_prev(m, curr), curr)
node_replace_s(m, src, dst) == node_replace(m, node_find_prev(m, src), src, dst)

----------------------------------------------------------------------------
(* memlib.c: -1 is a failed mem_sbrk, whose argument is a signed int.      *)
mem_sbrk(brk, incr) ==
    IF incr >= WordMod \div 2 \/ brk + incr > HeapEnd THEN -1 ELSE brk + incr

----------------------------------------------------------------------------
(* The bytes of the heap, which never become fewer.                        *)
mem_heapsize(brk) == brk - HeapLo

(* mm_init on a heap that mem_reset_brk has emptied; the words keep the    *)
(* contents of the last use.                                               *)
mm_init(m) == [mem |-> set_header(Store(m, TOP, NULL), FRST_BLK_HDR, 0, HDR_ALLOC),
               brk |-> mem_sbrk(HeapLo, INIT_SIZE), ptr |-> NULL]

(* The blocks of the list whose node is not waiting to be unlinked: a      *)
(* header of -1U marks a node whose block was merged into the next one.    *)
LiveNodes(m) == SelectSeq(Nodes(m), LAMBDA node : m[HDR_PTR(node)] # MAXU)

(* The list after get_target_block has unlinked the marked nodes.          *)
Unlinked(m) ==
    LET chain == <<TOP>> \o LiveNodes(m) \o <<NULL>>
        next == [a \in {chain[n] : n \in 1 .. Len(chain) - 1} |->
                    chain[(CHOOSE n \in DOMAIN chain : chain[n] = a) + 1]]
    IN  [a \in DOMAIN m |-> IF a \in DOMAIN next THEN next[a] ELSE m[a]]

(* Mutant: the search takes the first block that fits.                     *)
FitsFirst(m, blocksize) ==
    LET ln == LiveNodes(m)
        fits == {n \in DOMAIN ln : MM_SIZE(m[HDR_PTR(ln[n])]) >= blocksize}
    IN  {n \in fits : \A k \in fits : n <= k}

(* The position of the block to take: the least size that is enough, and   *)
(* the first of that size.                                                 *)
BestFit(m, blocksize) ==
    LET ln == LiveNodes(m)
        size(n) == MM_SIZE(m[HDR_PTR(ln[n])])
        fits == {n \in DOMAIN ln : size(n) >= blocksize /\ size(n) < MAXU}
    IN  {n \in fits : \A k \in fits : size(n) < size(k) \/ (size(n) = size(k) /\ n <= k)}

(* dest is the header of the block found or NULL, prev and size the        *)
(* globals prev_node and block_size, which are set with it.                *)
get_target_block(m, blocksize) ==
    LET ln == LiveNodes(m)
        found == BestFit(m, blocksize)
        n == CHOOSE k \in found : TRUE
    IN  IF ListLength(m) = -1
        THEN [mem |-> Crashed, dest |-> NULL, prev |-> NULL, size |-> 0]
        ELSE IF found = {}
        THEN [mem |-> Unlinked(m), dest |-> NULL, prev |-> NULL, size |-> 0]
        ELSE [mem |-> Unlinked(m), dest |-> HDR_PTR(ln[n]),
              prev |-> IF n = 1 THEN TOP ELSE ln[n - 1],
              size |-> MM_SIZE(m[HDR_PTR(ln[n])])]

(* Mutant: the block after a block that was taken whole still believes     *)
(* that its predecessor is free.                                           *)
TakeKeepsPfree(m, t, blocksize) ==
    LET p == t.dest  nh == p + blocksize  surplus == t.size - blocksize
        m1 == set_header(m, p, blocksize, HDR_ALLOC)
    IN  IF surplus # 0
        THEN node_replace(set_footer(set_header(m1, nh, surplus, HDR_FREE), nh, surplus),
                          t.prev, PLD_PTR(p), PLD_PTR(nh))
        ELSE node_delete(m1, t.prev, PLD_PTR(p))

(* Take blocksize bytes of the block found, and keep the rest on the list  *)
(* in its place.                                                           *)
TakeBlock(m, t, blocksize) ==
    LET p == t.dest  nh == p + blocksize  surplus == t.size - blocksize
        m1 == set_header(m, p, blocksize, HDR_ALLOC)
    IN  IF surplus # 0
        THEN node_replace(set_footer(set_header(m1, nh, surplus, HDR_FREE), nh, surplus),
                          t.prev, PLD_PTR(p), PLD_PTR(nh))
        ELSE node_delete(Reading(m1, {nh}, Store(m1, nh, m1[nh] - IF IS_PFREE(m1[nh]) THEN HDR_PFREE ELSE 0)),
                         t.prev, PLD_PTR(p))

TakeTarget(t, brk, blocksize) ==
    IF t.dest = NULL
    THEN [mem |-> t.mem, brk |-> brk, ptr |-> NULL]
    ELSE [mem |-> TakeBlock(t.mem, t, blocksize), brk |-> brk, ptr |-> PLD_PTR(t.dest)]

malloc_existing_block(m, brk, blocksize) ==
    TakeTarget(get_target_block(m, blocksize), brk, blocksize)

(* A new block at the end of the heap, which begins in the free block      *)
(* there if there is one.  The size of that block is read from its footer, *)
(* also when the footer of an 8-byte block is overwritten by its node.     *)
malloc_new_block(m, brk, blocksize) ==
    LET last == LAST_BLK_HDR(brk)
        pfree == IS_PFREE(m[last])
        pbsize == IF pfree THEN MM_SIZE(m[last - WORD]) ELSE 0
        p == (last - pbsize) % WordMod
        m1 == IF pfree THEN node_delete_s(m, PLD_PTR(p)) ELSE m
        nbrk == mem_sbrk(brk, (blocksize - pbsize) % WordMod)
    IN  IF m1 = Crashed THEN [mem |-> Crashed, brk |-> brk, ptr |-> NULL]
        ELSE IF nbrk = -1 THEN [mem |-> m1, brk |-> brk, ptr |-> NULL]
        ELSE [mem |-> set_header(set_header(m1, p, blocksize, HDR_ALLOC),
                                 p + blocksize, 0, HDR_ALLOC),
              brk |-> nbrk, ptr |-> PLD_PTR(p)]

OrNewBlock(r, blocksize) == IF r.ptr # NULL \/ r.mem = Crashed THEN r
                            ELSE malloc_new_block(r.mem, r.brk, blocksize)

mm_malloc(m, brk, size) ==
    LET blksize == ALIGN((size + WORD) % WordMod)
    IN  OrNewBlock(malloc_existing_block(m, brk, blksize), blksize)

----------------------------------------------------------------------------
(* The size of the free block before the header p.                         *)
PrevSize(m, p) == IF IS_VALID(m[p - WORD]) THEN MM_SIZE(m[p - WORD])
                  ELSE MM_SIZE(m[p - 2 * WORD])

(* Mutant: a merged 8-byte block is left for later like a larger one.      *)
MergeAlwaysDefers(m, ptr, nh, merged) ==
    LET next == PLD_PTR(nh) IN
    IF merged THEN node_delete_s(m, next)
    ELSE Store(node_insert(m, next, ptr), nh, MAXU)

(* The list when the free block at nh becomes part of the block of ptr.    *)
MergeNext(m, ptr, nh, merged) ==
    LET next == PLD_PTR(nh) IN
    IF merged THEN node_delete_s(m, next)
    ELSE IF MM_SIZE(m[nh]) > 8
         THEN Store(node_insert(m, next, ptr), nh, MAXU)
         ELSE node_replace_s(m, next, ptr)

(* free_coalesce and the node_top that mm_free adds when nothing merged.   *)
mm_free(m, ptr) ==
    LET hp == HDR_PTR(ptr)
        merged == IS_PFREE(m[hp])
        psize == IF merged THEN PrevSize(m, hp) ELSE 0
        p == hp - psize
        nh == hp + MM_SIZE(m[hp])
        nfree == ~IS_ALLOC(m[nh])
        blksize == psize + MM_SIZE(m[hp]) + IF nfree THEN MM_SIZE(m[nh]) ELSE 0
        np == p + blksize
        m1 == IF nfree THEN MergeNext(m, ptr, nh, merged) ELSE m
        m2 == set_footer(set_header(m1, p, blksize, HDR_FREE), p, blksize)
        m3 == Reading(m2, {np}, set_header(m2, np, MM_SIZE(m2[np]), HDR_PFREE + HDR_ALLOC))
    IN  IF nh \notin DOMAIN m THEN Crashed
        ELSE IF merged \/ nfree THEN m3 ELSE node_top(m3, ptr)

----------------------------------------------------------------------------
(* memcpy of n bytes, word by word; both areas are disjoint.               *)
memcpy(m, dst, src, n) ==
    LET area(b) == {b + WORD * i : i \in 0 .. (n \div WORD) - 1} IN
    IF area(dst) \cup area(src) \subseteq DOMAIN m
    THEN [a \in DOMAIN m |-> IF a \in area(dst) THEN m[src + (a - dst)] ELSE m[a]]
    ELSE Crashed

(* Mutant: the old block is not freed. *)
MovedKeepsOld(r, ptr, oldsize) ==
    [r EXCEPT !.mem = memcpy(r.mem, r.ptr, ptr, oldsize - WORD)]

(* Mutant: one word too few is copied.                                     *)
MovedCopiesShort(r, ptr, oldsize) ==
    LET copied == memcpy(r.mem, r.ptr, ptr, oldsize - 2 * WORD)
    IN  [r EXCEPT !.mem = IF copied = Crashed THEN Crashed ELSE mm_free(copied, ptr)]

(* The old data is copied to the new block r, whose ptr is not tested, and *)
(* the old block is freed.                                                 *)
Moved(r, ptr, oldsize) ==
    LET copied == memcpy(r.mem, r.ptr, ptr, oldsize - WORD)
    IN  [r EXCEPT !.mem = IF copied = Crashed THEN Crashed ELSE mm_free(copied, ptr)]

(* Mutant: the old block is freed before its data is copied.               *)
MoveFreesFirst(m, brk, ptr, size, oldsize) ==
    MovedKeepsOld(mm_malloc(mm_free(m, ptr), brk, size), ptr, oldsize)

(* A larger block is a new one.                                            *)
Move(m, brk, ptr, size, oldsize) == Moved(mm_malloc(m, brk, size), ptr, oldsize)

(* A smaller block: the remainder gets a header and a footer, and the      *)
(* block itself a header that is larger by the remainder, not smaller.     *)
Shrink(m, ptr, blksize, oldsize) ==
    LET hp == HDR_PTR(ptr)  nh == hp + blksize  rest == oldsize - blksize
        m1 == Store(m, hp, (m[hp] - blksize + oldsize) % WordMod)
    IN  set_footer(set_header(m1, nh, rest, HDR_FREE), nh, rest)

mm_realloc(m, brk, ptr, size) ==
    LET blksize == ALIGN((size + WORD) % WordMod)
        oldsize == MM_SIZE(m[HDR_PTR(ptr)])
    IN  CASE ptr = NULL -> mm_malloc(m, brk, size)
          [] ptr # NULL /\ size = 0 -> [mem |-> mm_free(m, ptr), brk |-> brk, ptr |-> NULL]
          [] ptr # NULL /\ size # 0 /\ blksize = oldsize -> [mem |-> m, brk |-> brk, ptr |-> ptr]
          [] ptr # NULL /\ size # 0 /\ blksize < oldsize ->
               [mem |-> Shrink(m, ptr, blksize, oldsize), brk |-> brk, ptr |-> ptr]
          [] ptr # NULL /\ size # 0 /\ blksize > oldsize -> Move(m, brk, ptr, size, oldsize)
============================================================================
