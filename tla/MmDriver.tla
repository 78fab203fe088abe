------------------------------ MODULE MmDriver ------------------------------
(***************************************************************************)
(* mdriver.c on top of the allocator.  A trace of malloc, realloc and free *)
(* requests is run three times.  eval_mm_valid remembers the block of      *)
(* every index, fills each block with its index, and reports an error when *)
(* a result is NULL, misaligned, outside the heap, overlapping, or has     *)
(* lost its data.  A valid trace is run again by eval_mm_util, which       *)
(* compares the data in use with the heap, and by eval_mm_speed, each on   *)
(* an emptied heap whose words hold what the last pass left in them.       *)
(*                                                                         *)
(* Here a trace is any sequence of requests.  The sequence is remembered   *)
(* for the traces that are run again, which are short; pass "once" is      *)
(* eval_mm_valid for a trace of any length whose later passes are left     *)
(* out.                                                                    *)
(***************************************************************************)
EXTENDS MmMalloc, FiniteSetsExt

CONSTANTS Indices,      \* the block indices of a trace
          Sizes,        \* requested sizes, in bytes
          Shrinking,    \* whether realloc requests may make a block smaller
          Junk,         \* what the memory may contain before its first use
          MaxTrace,     \* bound: requests of the traces that are run again
          MaxRequests   \* bound: requests in all traces together

ASSUME DriverAssumption ==
    /\ Indices \subseteq 1 .. 255 /\ Indices # {}
    /\ \A s \in Sizes : s \in Nat /\ s > 0 /\ (s % WORD) = 0
    /\ Shrinking \in BOOLEAN
    /\ Junk \subseteq 0 .. WordMod - 1 /\ MaxTrace \in Nat /\ MaxRequests \in Nat

VARIABLES mem,      \* the words of the heap and TOP
          brk,      \* mem_brk
          blocks,   \* trace->blocks and block_sizes: index -> [ptr, size]
          verdict,  \* "ok", why the trace was given up, "exit" or "crash"
          requests, \* requests so far (bounded by MaxRequests)
          pass,     \* the function that runs the trace
          trace,    \* the requests of the trace, with the blocks they got
          pos,      \* i of the loops in eval_mm_util and eval_mm_speed
          util      \* total_size and max_total_size of eval_mm_util

vars == <<mem, brk, blocks, verdict, requests, pass, trace, pos, util>>

NoBlock == [ptr |-> NULL, size |-> 0]
Live    == {i \in Indices : blocks[i].ptr # NULL}
Area(b) == {b.ptr + WORD * k : k \in 0 .. (b.size \div WORD) - 1}

(* memset(p, index & 0xFF, size)                                           *)
memset(m, b, index) == [a \in DOMAIN m |-> IF a \in Area(b) THEN index ELSE m[a]]

(* The check of add_range, with the comparisons of the code.               *)
add_range(new, others, hi) ==
    IF (new.ptr % 8) # 0 THEN "align"
    ELSE IF new.ptr < HeapLo \/ new.ptr + new.size - 1 > hi THEN "outside"
    ELSE IF \E i \in others :
              LET b == blocks[i]  lo == new.ptr  last == new.ptr + new.size - 1
              IN  \/ lo >= b.ptr /\ lo <= b.ptr + b.size - 1
                  \/ last >= b.ptr /\ last <= b.ptr + b.size - 1
         THEN "overlap"
    ELSE "ok"

Crash == /\ mem' = Crashed /\ verdict' = "crash"
         /\ UNCHANGED <<brk, blocks>>

(* A request that returned NULL: mdriver gives up the trace.               *)
Null(r) == /\ mem' = r.mem /\ brk' = r.brk
           /\ verdict' = "null"
           /\ UNCHANGED blocks

(* A result for index i that passed or failed the checks of the driver.    *)
Accept(r, i, size, check) ==
    LET b == [ptr |-> r.ptr, size |-> size] IN
    /\ verdict' = check
    /\ brk' = r.brk
    /\ mem' = IF check = "ok" THEN memset(r.mem, b, i) ELSE r.mem
    /\ blocks' = IF check = "ok" THEN [blocks EXCEPT ![i] = b] ELSE blocks

----------------------------------------------------------------------------
Init == \E junk \in Junk :
          LET h == mm_init([a \in Words |-> junk]) IN
          /\ mem = h.mem /\ brk = h.brk
          /\ blocks = [i \in Indices |-> NoBlock]
          /\ verdict = "ok" /\ requests = 0
          /\ pass \in {"once", "valid"} /\ trace = <<>>
          /\ pos = 0 /\ util = [total |-> 0, max |-> 0]

(* The next request of a trace that is still going on.                     *)
Request == /\ verdict = "ok" /\ pass \in {"once", "valid"}
           /\ requests < IF pass = "valid" THEN MaxTrace ELSE MaxRequests
           /\ requests' = requests + 1
           /\ UNCHANGED <<pass, pos, util>>

(* The request as a part of its trace.                                     *)
Recorded(op, i, size) ==
    trace' = IF pass = "valid"
             THEN Append(trace, [op |-> op, i |-> i, size |-> size, ptr |-> blocks'[i].ptr])
             ELSE trace

(* A new block gets the least index without one: the names of the blocks   *)
(* do not matter.                                                          *)
Malloc(i, size) ==
    /\ Request /\ i \notin Live /\ \A j \in Indices \ Live : i <= j
    /\ \E r \in {mm_malloc(mem, brk, size)} :
         \/ r.mem = Crashed /\ Crash
         \/ r.mem # Crashed /\ r.ptr = NULL /\ Null(r)
         \/ /\ r.mem # Crashed /\ r.ptr # NULL
            /\ Accept(r, i, size, add_range([ptr |-> r.ptr, size |-> size], Live, r.brk - 1))
    /\ Recorded("malloc", i, size)

(* The data of the old block has to be at the start of the new one.        *)
Kept(r, i, size) ==
    \A k \in 0 .. ((IF size < blocks[i].size THEN size ELSE blocks[i].size) \div WORD) - 1 :
        r.mem[r.ptr + WORD * k] = i

(* What the driver finds wrong with the result of a realloc request.       *)
Check(r, i, size) ==
    LET range == add_range([ptr |-> r.ptr, size |-> size], Live \ {i}, r.brk - 1)
    IN  IF range = "ok" /\ ~Kept(r, i, size) THEN "data" ELSE range

Realloc(i, size) ==
    /\ Request /\ i \in Live
    /\ Shrinking \/ size >= blocks[i].size
    /\ \E r \in {mm_realloc(mem, brk, blocks[i].ptr, size)} :
         \/ r.mem = Crashed /\ Crash
         \/ r.mem # Crashed /\ Accept(r, i, size, Check(r, i, size))
    /\ Recorded("realloc", i, size)

Free(i) ==
    /\ Request /\ i \in Live
    /\ \E m \in {mm_free(mem, blocks[i].ptr)} :
         /\ mem' = m
         /\ verdict' = IF m = Crashed THEN "crash" ELSE "ok"
         /\ blocks' = [blocks EXCEPT ![i] = NoBlock]
         /\ UNCHANGED brk
    /\ Recorded("free", i, 0)

(* A pass begins: mem_reset_brk, mm_init, and a loop from the request      *)
(* first.  The words keep what the last pass left in them.                 *)
StartPass(first) ==
    LET h == mm_init(mem) IN
    /\ mem' = h.mem /\ brk' = h.brk
    /\ blocks' = [i \in Indices |-> NoBlock]
    /\ verdict' = "ok" /\ pos' = first
    /\ util' = [total |-> 0, max |-> 0]
    /\ UNCHANGED requests

(* main: the next trace, after a trace that was not valid or is done; the  *)
(* ranges of the last one are cleared.                                     *)
NextTrace ==
    /\ verdict \notin {"crash", "exit"} /\ requests > 0
    /\ pass = "once" \/ verdict # "ok" \/ (pass = "speed" /\ pos = Len(trace))
    /\ StartPass(0)
    /\ pass' \in {"once", "valid"} /\ trace' = <<>>

----------------------------------------------------------------------------
(* Mutant: the loop of eval_mm_util starts with the second request.        *)
EvalUtilFromOne == /\ pass = "valid" /\ verdict = "ok" /\ trace # <<>>
                   /\ StartPass(1) /\ pass' = "util" /\ UNCHANGED trace

(* main: a valid trace is run by eval_mm_util and then by eval_mm_speed.   *)
EvalUtil == /\ pass = "valid" /\ verdict = "ok" /\ trace # <<>>
            /\ StartPass(0) /\ pass' = "util" /\ UNCHANGED trace

EvalSpeed == /\ pass = "util" /\ verdict = "ok" /\ pos = Len(trace)
             /\ StartPass(0) /\ pass' = "speed" /\ UNCHANGED trace

(* ftimer_gettod calls eval_mm_speed ten times; here, as often as it       *)
(* likes.                                                                  *)
SpeedAgain == /\ pass = "speed" /\ verdict = "ok" /\ pos = Len(trace)
              /\ StartPass(0) /\ UNCHANGED <<pass, trace>>

(* The next request of a trace that is run again.                          *)
Turn(p, op) == /\ pass = p /\ verdict = "ok"
               /\ pos < Len(trace) /\ trace[pos + 1].op = op
               /\ pos' = pos + 1
               /\ UNCHANGED <<requests, pass, trace>>

Req == trace[pos + 1]

(* A block was returned and is remembered, or app_error exits on NULL.     *)
Remember(r) ==
    /\ mem' = r.mem /\ brk' = r.brk
    /\ verdict' = IF r.mem = Crashed THEN "crash" ELSE IF r.ptr = NULL THEN "exit" ELSE "ok"
    /\ blocks' = IF verdict' = "ok"
                 THEN [blocks EXCEPT ![Req.i] = [ptr |-> r.ptr, size |-> Req.size]]
                 ELSE blocks

Forget(m) == /\ mem' = m /\ verdict' = IF m = Crashed THEN "crash" ELSE "ok"
             /\ blocks' = [blocks EXCEPT ![Req.i] = NoBlock]
             /\ UNCHANGED brk

(* total_size grows by n, and max_total_size with it.                      *)
Count(n) == LET t == util.total + n IN
            util' = [total |-> t, max |-> IF t > util.max THEN t ELSE util.max]

UtilMalloc == /\ Turn("util", "malloc")
              /\ Remember(mm_malloc(mem, brk, Req.size))
              /\ Count(Req.size)

(* Mutant: the old size stays counted.                                     *)
UtilCountsBoth == /\ Turn("util", "realloc")
                  /\ Remember(mm_realloc(mem, brk, blocks[Req.i].ptr, Req.size))
                  /\ Count(Req.size)

UtilRealloc == /\ Turn("util", "realloc")
               /\ Remember(mm_realloc(mem, brk, blocks[Req.i].ptr, Req.size))
               /\ Count(Req.size - blocks[Req.i].size)

UtilFree == /\ Turn("util", "free")
            /\ Forget(mm_free(mem, blocks[Req.i].ptr))
            /\ Count(-blocks[Req.i].size)

(* eval_mm_speed makes the same calls.  It does not set block_sizes: the   *)
(* size kept here is only for the properties.                              *)
SpeedMalloc  == /\ Turn("speed", "malloc")
                /\ Remember(mm_malloc(mem, brk, Req.size)) /\ UNCHANGED util

SpeedRealloc == /\ Turn("speed", "realloc")
                /\ Remember(mm_realloc(mem, brk, blocks[Req.i].ptr, Req.size)) /\ UNCHANGED util

SpeedFree    == /\ Turn("speed", "free")
                /\ Forget(mm_free(mem, blocks[Req.i].ptr)) /\ UNCHANGED util

Next == \/ \E i \in Indices, size \in Sizes : Malloc(i, size) \/ Realloc(i, size)
        \/ \E i \in Indices : Free(i)
        \/ NextTrace \/ EvalUtil \/ EvalSpeed \/ SpeedAgain
        \/ UtilMalloc \/ UtilRealloc \/ UtilFree
        \/ SpeedMalloc \/ SpeedRealloc \/ SpeedFree

Spec == Init /\ [][Next]_vars
----------------------------------------------------------------------------
(* The heap as a list of blocks: the headers met by stepping from the      *)
(* first header by the sizes, as dbg_heap_check does, up to a size of 0.   *)
Headers(m) ==
    LET step[n \in 0 .. MaxNodes] ==
            IF n = 0 THEN FRST_BLK_HDR
            ELSE LET h == step[n - 1] IN IF h \in DOMAIN m THEN h + MM_SIZE(m[h]) ELSE h
    IN  {step[n] : n \in DOMAIN step}

FreeHeaders(m) == {h \in Headers(m) : h \in DOMAIN m /\ ~IS_ALLOC(m[h])}
UsedHeaders(m) == {h \in Headers(m) : h \in DOMAIN m /\ IS_ALLOC(m[h]) /\ MM_SIZE(m[h]) > 0}

(* dbg_next: the node after next if the header of next marks it as one     *)
(* that waits to be unlinked; that one may be marked as well.              *)
dbg_next(m, node) ==
    LET next == m[node] IN
    IF next # NULL /\ m[HDR_PTR(next)] = MAXU THEN m[next] ELSE next

(* The nodes that the loop of dbg_is_on_list meets from the first one on.  *)
dbg_is_on_list(m, node) ==
    LET walk[n \in 0 .. MaxNodes] ==
            IF n = 0 THEN m[TOP]
            ELSE IF walk[n - 1] = NULL THEN NULL ELSE dbg_next(m, walk[n - 1])
    IN  \E n \in DOMAIN walk : walk[n] = node

dbg_heap_check(m) == \A h \in FreeHeaders(m) : dbg_is_on_list(m, PLD_PTR(h))

TypeOK == /\ mem \in [Words -> 0 .. WordMod - 1] \/ mem = Crashed
          /\ brk \in HeapLo + INIT_SIZE .. HeapEnd /\ (brk % 8) = 0
          /\ \A i \in Indices : blocks[i] = NoBlock
                \/ (blocks[i].ptr \in HeapLo .. HeapEnd /\ blocks[i].size \in Sizes)
          /\ requests \in 0 .. MaxRequests
          /\ verdict \in {"ok", "null", "align", "outside", "overlap", "data", "crash", "exit"}
          /\ pass \in {"once", "valid", "util", "speed"}
          /\ pos \in 0 .. Len(trace) /\ Len(trace) <= MaxTrace
          /\ util.total \in 0 .. MAX_HEAP /\ util.max \in 0 .. MAX_HEAP

(* The blocks tile the heap from the first header to the last one, no two  *)
(* free blocks are neighbours, each pfree flag tells the truth about the   *)
(* block before, and every free block of more than 8 bytes has a footer    *)
(* that equals its header: free_coalesce depends on all of it.             *)
HeapTiles ==
    verdict = "ok" =>
      LET last == LAST_BLK_HDR(brk)
          after(h) == h + MM_SIZE(mem[h])
      IN  /\ \A h \in Headers(mem) : h <= last
          /\ last \in Headers(mem) /\ MM_SIZE(mem[last]) = 0 /\ IS_ALLOC(mem[last])
          /\ ~IS_PFREE(mem[FRST_BLK_HDR])
          /\ \A h \in Headers(mem) \ {last} :
                /\ MM_SIZE(mem[h]) > 0
                /\ IS_PFREE(mem[after(h)]) <=> ~IS_ALLOC(mem[h])
                /\ ~IS_ALLOC(mem[h]) =>
                      /\ IS_ALLOC(mem[after(h)])
                      /\ MM_SIZE(mem[h]) > 8 => mem[after(h) - WORD] = mem[h] + FTR_VALID

(* The free list, without the nodes that wait to be unlinked, holds every  *)
(* free block exactly once: dbg_heap_check (mm.c:586) calls a free block   *)
(* that is not on the list a fatal error, which it would find from the     *)
(* list as it stands, and node_find_prev never returns for one.            *)
FreeListExact ==
    verdict = "ok" =>
      /\ ListLength(mem) # -1
      /\ \A node \in {Nodes(mem)[n] : n \in 1 .. ListLength(mem)} : HDR_PTR(node) \in Words
      /\ LET ln == LiveNodes(mem) IN
            /\ {ln[n] : n \in DOMAIN ln} = {PLD_PTR(h) : h \in FreeHeaders(mem)}
            /\ Len(ln) = Cardinality(FreeHeaders(mem))
      /\ dbg_heap_check(mem)

(* The metadata of the allocator: the words have their types, the blocks   *)
(* tile the heap and the list holds the free ones.                         *)
HeapConsistent == TypeOK /\ HeapTiles /\ FreeListExact

(* The blocks marked allocated are those of the caller, one for each, each *)
(* large enough, and no operation on another block, and no metadata, ever  *)
(* changes a word of the data.                                             *)
LiveBlocksKept ==
    verdict = "ok" =>
      /\ {PLD_PTR(h) : h \in UsedHeaders(mem)} = {blocks[i].ptr : i \in Live}
      /\ \A i \in Live :
            /\ blocks[i].size <= MM_SIZE(mem[HDR_PTR(blocks[i].ptr)]) - WORD
            /\ pass \in {"once", "valid"} => \A a \in Area(blocks[i]) : mem[a] = i
      /\ \A i, j \in Live : i # j => blocks[i].ptr # blocks[j].ptr

(* mdriver never has to report a misaligned, stray or overlapping block or *)
(* lost data (malloc_error calls in add_range and eval_mm_valid).          *)
NoMallocError == verdict \in {"ok", "null", "crash"}

(* The data of the caller is safe, in the words of the heap and by the     *)
(* checks of mdriver.                                                      *)
DataKept == LiveBlocksKept /\ NoMallocError

(* The bytes in use are counted exactly, and so "the ratio hwm/heapsize"   *)
(* that eval_mm_util returns is never above 1.                             *)
UtilAtMostOne ==
    pass = "util" /\ verdict = "ok" =>
      /\ util.total = MapThenSumSet(LAMBDA i : blocks[i].size, Indices)
      /\ util.total <= util.max /\ util.max <= mem_heapsize(brk)

(* A trace that eval_mm_valid accepts is run by eval_mm_util and by        *)
(* eval_mm_speed without an error, and each request gets the block that it *)
(* got before, whatever the pass before left in the words of the heap: the *)
(* passes measure what was found to be valid.                              *)
ReplayAgrees ==
    pass \in {"util", "speed"} =>
      /\ verdict = "ok"
      /\ \A k \in 1 .. pos :
            (\A n \in k + 1 .. pos : trace[n].i # trace[k].i) =>
                blocks[trace[k].i].ptr = trace[k].ptr

(* What the later passes measure is the trace that was found valid.        *)
PassesAgree == UtilAtMostOne /\ ReplayAgrees

(* The tail of the heap is a free block of 8 bytes, whose footer is its    *)
(* list node.                                                              *)
SmallTail == LET last == LAST_BLK_HDR(brk) IN
             IS_PFREE(mem[last]) /\ ~IS_VALID(mem[last - WORD])

(* The heap cannot grow by every size that may be requested.               *)
NearlyFull == \E s \in Sizes : brk + ALIGN(s + WORD) > HeapEnd

(* The allocator walks off its list in two situations only: a heap that    *)
(* ends in a free 8-byte block, whose size malloc_new_block misreads, and  *)
(* a heap at its limit, where mm_realloc copies to NULL.                   *)
CrashesAreKnown == [][verdict' = "crash" => SmallTail \/ NearlyFull]_vars

(* A request takes the smallest free block that is large enough, and the   *)
(* heap grows only if there is none, by no more than what the free block   *)
(* at its end does not provide (get_target_block, malloc_new_block).       *)
Served(i) ==
    LET need == ALIGN(blocks'[i].size + WORD)
        size(h) == MM_SIZE(mem[h])
        fit == {h \in FreeHeaders(mem) : size(h) >= need}
        tail == {h \in FreeHeaders(mem) : h + size(h) = LAST_BLK_HDR(brk)}
        hp == HDR_PTR(blocks'[i].ptr)
    IN  IF fit # {}
        THEN brk' = brk /\ hp \in fit /\ \A h \in fit : size(hp) <= size(h)
        ELSE IF tail # {} THEN \A h \in tail : hp = h /\ brk' = brk + need - size(h)
        ELSE hp = LAST_BLK_HDR(brk) /\ brk' = brk + need

BestFitOrGrow ==
    [][\A i \in Indices : blocks'[i].ptr \notin {NULL, blocks[i].ptr} => Served(i)]_vars
============================================================================
