----------------------------- MODULE QTestProofs -----------------------------
(***************************************************************************)
(* Proofs about the queue, its test harness and its console, for any       *)
(* number of blocks, any command lines and files, and any time-outs.       *)
(***************************************************************************)
EXTENDS QTest, FiniteSetTheorems, SequenceTheorems, WellFoundedInduction, TLAPS

----------------------------------------------------------------------------
(* The inductive invariant.                                                *)

Commands == {line.fn : line \in Lines} \cup {"none", "new", "free", "quit"}
ArgStrings == {line.s : line \in Lines} \cup {"none"}
Registers == [fn : Commands, sub : {"none", "new", "main"}, timed : BOOLEAN,
              s : ArgStrings, reps : Nat,
              new : Ptr, lp : Ptr, prv : Ptr, cnt : Int, r : Nat, val : Int,
              rval : BOOLEAN, ok : BOOLEAN, got : Objects]
Rec(fn, sub, timed, s, reps, new, lp, prv, cnt, r, val, rval, ok, got) ==
    [fn |-> fn, sub |-> sub, timed |-> timed, s |-> s, reps |-> reps, new |-> new, lp |-> lp,
     prv |-> prv, cnt |-> cnt, r |-> r, val |-> val, rval |-> rval, ok |-> ok, got |-> got]
CutRecords == [fn : Commands \cup {"show"}, level : Int, fresh : BOOLEAN]

Types == /\ heap \in [Blocks -> Objects]
         /\ allocated_count \in Int /\ adj \in {-1, 0, 1}
         /\ cautious_mode \in BOOLEAN /\ noallocate_mode \in BOOLEAN
         /\ error_occurred \in BOOLEAN /\ jmp_ready \in BOOLEAN /\ time_limited \in BOOLEAN
         /\ q \in Ptr /\ pc \in PCs /\ fail_probability \in BOOLEAN /\ reg \in Registers
         /\ files \in Seq(File) /\ err_cnt \in Nat /\ quit_flag \in BOOLEAN
         /\ verblevel \in Int /\ accounted \in Int
         /\ qcnt \in Int /\ fail_count \in Nat
         /\ cuts \in Seq(CutRecords) /\ segv \in BOOLEAN

(* Which command the program is in, where it can be in it, and what the    *)
(* harness is set to there.                                                *)
InsertPC == {"insert", "insert_value", "insert_copy", "insert_undo", "insert_size"}
RemovePC == {"remove", "remove_head", "remove_tail", "remove_ele", "remove_size"}
Between == {"main", "ready", "enter", "show", "done"}
Flow == /\ pc \in {"free_value", "free_ele"} => reg.fn \in {"free", "quit"}
        /\ pc = "new" => reg.fn = "new"
        /\ pc \in InsertPC => reg.fn \in {"ih", "it"}
        /\ pc \in {"ih_tail", "ih_head"} => reg.fn = "ih"
        /\ pc \in {"it_link", "it_tail", "caught"} => reg.fn = "it"
        /\ pc \in RemovePC => reg.fn \in {"rh", "rhq"}
        /\ pc \in {"reverse", "reverse_head"} => reg.fn = "reverse"
        /\ pc = "size" => reg.fn = "size"
        /\ pc \in {"ret", "cancel"} =>
               reg.fn \in {"new", "free", "quit", "ih", "it", "rh", "rhq", "reverse", "size"}
        /\ pc = "show" => reg.fn \notin {"free", "quit"}
        /\ reg.sub = "new" => reg.fn = "free"
        /\ reg.sub = "main" => reg.fn = "quit"
        /\ reg.fn \in {"ih", "it"} => reg.s \in Strings
        /\ pc = "enter" => reg.new = NULL /\ reg.lp = NULL /\ reg.prv = NULL
        /\ pc \in {"main", "ready"} => reg = NoRegs
        /\ pc = "enter" /\ ~reg.ok => q = NULL
        /\ pc = "done" /\ reg.fn = "free" => q = NULL
        /\ quit_flag => pc \in {"ready"} \cup Ends
Modes == /\ pc \in Between => ~jmp_ready /\ ~time_limited
         /\ jmp_ready /\ reg.fn # "quit" => ~error_occurred
         /\ \/ cautious_mode
            \/ reg.fn \in {"free", "quit"} /\ pc \in {"free_value", "free_ele", "ret", "cancel"}
            \/ pc \in Ends
         /\ noallocate_mode => \/ reg.fn = "reverse" /\ pc \in {"reverse", "reverse_head", "ret", "cancel"}
                               \/ pc \in Ends

(* The blocks of the console: those of the lists and the files, unless     *)
(* quit has freed them, and those of the command line at work.             *)
Arguments == IF pc \in {"main", "ready"} \/ reg.sub = "main" THEN 0 ELSE ArgBlocks
Account ==
    /\ accounted >= 0
    /\ pc = "main" => files = << >>
    /\ pc \notin Ends \cup {"ready"} =>
         IF reg.fn = "quit" /\ pc # "enter"
         THEN files = << >> /\ accounted = Arguments
         ELSE accounted = Arguments + Registered + Len(files)
    /\ pc = "ready" => \/ quit_flag /\ files = << >> /\ accounted = 0
                       \/ accounted = Registered + Len(files) /\ (quit_flag => err_cnt > 0)
    /\ pc = "exit0" => accounted = 0

(* A command that is known to have failed, and will be counted.            *)
Failing == \/ pc \in {"cancel", "done"} /\ error_occurred /\ reg.fn \in Checks /\ verblevel < 3
           \/ pc # "ready" /\ reg.fn = "new" /\ ~reg.ok
Counted == pc \notin Ends => err_cnt + (IF Failing THEN 1 ELSE 0) >= Cardinality(CountedCuts)

(* The count of blocks: it may only be too low after an insertion or the   *)
(* allocation of a queue was cut short, and the latter is an error.        *)
CutInsert == CutFns \cap {"ih", "it"} # {}
NewCut == \/ err_cnt > 0
          \/ reg.fn = "new" /\ pc \in {"cancel", "show", "done"} /\ error_occurred /\ q = NULL
Count == /\ pc \in Between \cup {"cancel", "caught"} => adj = 0
         /\ cuts = << >> => allocated_count + adj = Cardinality(Allocated)
         /\ Cardinality(Allocated) <= allocated_count + adj \/ CutInsert \/ NewCut \/ pc = "exit1" \/ pc = "wild"
         /\ adj = 1 => \/ reg.fn \in {"ih", "it"} \/ pc \in Ends
                       \/ reg.fn = "new" /\ pc = "ret" /\ q = NULL
         /\ pc = "done" /\ reg.fn = "quit" /\ reg.ok => Allocated = {} \/ CutInsert \/ err_cnt > 0
         /\ pc = "ready" /\ quit_flag => Allocated = {} \/ CutInsert \/ err_cnt > 0
         /\ pc = "exit0" => Allocated = {} \/ CutInsert

----------------------------------------------------------------------------
(* The heap whatever was cut short: the queue is a queue object, and what  *)
(* its fields, its elements and the locals of an operation point to, freed *)
(* or not, is within a region of which the queue object is not a part.     *)
QueuePart == {"free_value", "free_ele", "insert_value", "insert_undo", "insert_copy",
              "ih_tail", "ih_head", "it_link", "it_tail", "insert_size",
              "remove_head", "remove_tail", "remove_ele", "remove_size", "reverse", "reverse_head"}
Freed == \/ pc \in Ends \/ quit_flag
         \/ reg.fn \in {"free", "quit"} /\ pc \in {"ret", "cancel"}
         \/ reg.fn = "quit" /\ pc = "done"
Within(L) ==
    /\ head \in L \cup {NULL} /\ tail \in L \cup {NULL}
    /\ \A e \in L : heap[e].kind = "ele" => heap[e].value \in L \cup {NULL} /\ heap[e].next \in L \cup {NULL}
    /\ pc \in QueuePC \/ (pc = "ret" /\ reg.fn # "new") =>
           reg.new \in L \cup {NULL} /\ reg.lp \in L \cup {NULL} /\ reg.prv \in L \cup {NULL}
Region == q # NULL /\ ~Freed => heap[q].kind = "queue" /\ \E L \in SUBSET (Blocks \ {q}) : Within(L)

NewQueue == [kind |-> "queue", head |-> NULL, tail |-> NULL, size |-> 0]
Locals ==
    /\ pc \in QueuePart => q # NULL
    /\ pc = "new" \/ (pc = "ret" /\ reg.fn = "new") => q = NULL
    /\ pc = "ret" /\ reg.fn = "new" => reg.new = NULL \/ heap[reg.new] = NewQueue
    /\ pc \in {"insert_value", "insert_undo", "insert_copy", "remove_head"} =>
           reg.new # NULL /\ heap[reg.new].kind = "ele"
    /\ pc \in {"ih_tail", "ih_head", "it_link", "it_tail"} => reg.new # NULL
    /\ pc = "insert_copy" => reg.lp # NULL /\ reg.lp # reg.new
    /\ \A e \in Blocks : heap[e].kind = "ele" => heap[e].value # e

(* A queue with a head has a tail, unless q_insert_tail was cut short.     *)
Tailed ==
    "it" \notin CutFns =>
      /\ pc # "caught" /\ ~segv
      /\ q # NULL /\ ~Freed =>
           /\ pc # "it_tail" /\ head # NULL => tail # NULL
           /\ pc = "remove_head" => head # NULL
           /\ pc = "remove_tail" => head = NULL
           /\ pc = "ih_head" => tail # NULL
           /\ pc = "reverse" /\ (reg.lp # NULL \/ reg.prv # NULL) => head # NULL
           /\ pc = "reverse_head" /\ reg.prv # NULL => tail # NULL

Base == Types /\ Flow /\ Modes /\ Account /\ Counted /\ Count /\ Region /\ Locals /\ Tailed

----------------------------------------------------------------------------
(* The list, as long as no removal and no insertion at the tail was cut    *)
(* short.  es is what the program has in the list; in the first k of them, *)
(* next points back.                                                       *)
Nth(es, i) == IF i \in 1 .. Len(es) THEN es[i] ELSE NULL
Cells(h, es) ==
    /\ \A i \in 1 .. Len(es) : /\ h[es[i]].kind = "ele" /\ h[es[i]].value \in Blocks
                               /\ h[h[es[i]].value].kind = "str"
    /\ \A i, j \in 1 .. Len(es) : es[i] = es[j] \/ h[es[i]].value = h[es[j]].value => i = j
Linked(h, es, k) ==
    \A i \in 1 .. Len(es) : h[es[i]].next = IF i <= k THEN Nth(es, i - 1) ELSE Nth(es, i + 1)
Exactly(h, S, es) ==
    \A b \in Blocks : h[b] # Unused => b \in S \/ \E i \in 1 .. Len(es) : b = es[i] \/ b = h[es[i]].value
IsCell(h, p) == p \in Blocks /\ h[p].kind = "ele"
Apart(p, es) == \A i \in 1 .. Len(es) : p # es[i]
IsString(h, p) == p \in Blocks /\ h[p].kind = "str"
IsOwn(h, p, es) == IsString(h, p) /\ \A i \in 1 .. Len(es) : h[es[i]].value # p

(* The list from head; a tail that is not its last element is not in it.   *)
List(es) == q # NULL /\ head = Nth(es, 1) /\ Linked(heap, es, 0)
LastOf(es) == Nth(es, Len(es))
IsLast(p, es) == \A i \in 1 .. Len(es) : p = es[i] => i = Len(es)
TailFits(h, t, es) == IF t = NULL THEN es = << >> ELSE IsCell(h, t) /\ IsLast(t, es)

(* Without any time-out the queue, the blocks in S and the list are all    *)
(* there is, t is the tail, s the size, and c what qcnt has to be.         *)
Whole == cuts = << >>
Exact(es, S, t, s, c) == Whole => /\ Exactly(heap, {q} \cup S, es)
                                  /\ q # NULL => tail = t /\ size = s
                                  /\ qcnt = c
HasQueue == q # NULL => heap[q].kind = "queue"
Empty(es) == es = << >> /\ (Whole => Exactly(heap, {}, es))

(* A queue at rest.                                                        *)
Resting(es, c) == /\ \/ q = NULL /\ es = << >>
                     \/ List(es) /\ TailFits(heap, tail, es)
                  /\ Exact(es, {}, LastOf(es), Len(es), c)

ShapeAt(es, k) ==
    LET n == Len(es)  new == reg.new  lp == reg.lp  prv == reg.prv  IN
    /\ es \in Seq(Blocks) /\ k \in 0 .. n /\ Cells(heap, es)
    /\ pc \notin {"reverse", "reverse_head"} => k = 0
    /\ pc = "ready" => (quit_flag /\ Empty(es)) \/ (Resting(es, n) /\ HasQueue)
    /\ pc \in {"main", "enter", "show", "insert", "remove", "size"} => Resting(es, n)
    /\ pc = "done" => IF reg.fn = "quit" THEN Empty(es) ELSE Resting(es, n)
    /\ pc = "new" => q = NULL /\ Empty(es) /\ (Whole => qcnt = 0)
    /\ pc = "ret" /\ reg.fn = "new" => q = NULL /\ es = << >> /\ Exact(es, {new}, NULL, 0, 0)
    /\ pc = "cancel" /\ reg.fn = "new" => es = << >> /\ Resting(es, n)
    /\ pc \in {"ret", "cancel"} /\ reg.fn \in {"free", "quit"} => Empty(es)
    /\ pc = "ret" /\ reg.fn \in {"ih", "it"} => Resting(es, IF reg.rval THEN n - 1 ELSE n)
    /\ pc = "ret" /\ reg.fn \in {"rh", "rhq"} => Resting(es, IF reg.rval THEN n + 1 ELSE n)
    /\ pc = "cancel" /\ reg.fn \in {"rh", "rhq"} => Resting(es, n + reg.val)
    /\ pc = "cancel" /\ reg.fn \in {"ih", "it"} => Resting(es, n)
    /\ pc \in {"ret", "cancel"} /\ reg.fn \in {"reverse", "size"} => Resting(es, n)
    /\ pc = "free_value" => /\ lp = Nth(es, 1) /\ Linked(heap, es, 0)
                            /\ Whole => Exactly(heap, {q}, es)
    /\ pc = "free_ele" => /\ IsCell(heap, lp) /\ Apart(lp, es) /\ prv = Nth(es, 1)
                          /\ Linked(heap, es, 0) /\ (Whole => Exactly(heap, {q, lp}, es))
    /\ pc \in {"insert_value", "insert_undo"} =>
           /\ List(es) /\ TailFits(heap, tail, es) /\ tail # new
           /\ IsCell(heap, new) /\ Apart(new, es) /\ Exact(es, {new}, LastOf(es), n, n)
    /\ pc \in {"insert_copy", "ih_tail", "ih_head", "it_link"} =>
           /\ List(es) /\ IsCell(heap, new) /\ Apart(new, es)
           /\ IsOwn(heap, lp, es) /\ heap[lp].s = reg.s
    /\ pc \in {"ih_tail", "ih_head", "it_link"} =>
           heap[new].value = lp /\ heap[new].next = IF reg.fn = "ih" THEN Nth(es, 1) ELSE NULL
    /\ pc \in {"insert_copy", "ih_tail", "it_link"} =>
           TailFits(heap, tail, es) /\ tail # new /\ Exact(es, {new, lp}, LastOf(es), n, n)
    /\ pc = "ih_head" => /\ tail # NULL /\ TailFits(heap, tail, es) /\ (tail = new => es = << >>)
                         /\ Exact(es, {new, lp}, IF es = << >> THEN new ELSE LastOf(es), n, n)
    /\ pc = "it_tail" => /\ List(es) /\ IsCell(heap, new) /\ IsLast(new, es) /\ (Whole => new = LastOf(es))
                         /\ Exact(es, {}, tail, n - 1, n - 1)
    /\ pc = "insert_size" => /\ List(es) /\ TailFits(heap, tail, es)
                             /\ Exact(es, {}, LastOf(es), n - 1, n - 1)
    /\ pc = "remove_head" =>
           /\ q # NULL /\ head = new /\ Linked(heap, es, 0)
           /\ IsCell(heap, new) /\ Apart(new, es) /\ heap[new].next = Nth(es, 1)
           /\ tail # NULL /\ TailFits(heap, tail, es) /\ (tail = new => es = << >>)
           /\ Exact(es, {new}, IF es = << >> THEN new ELSE LastOf(es), n + 1, n + 1)
    /\ pc = "remove_tail" => /\ List(es) /\ es = << >> /\ IsCell(heap, new)
                             /\ Exact(es, {new}, tail, 1, 1)
    /\ pc = "remove_ele" => /\ List(es) /\ TailFits(heap, tail, es) /\ tail # new
                            /\ IsCell(heap, new) /\ Apart(new, es)
                            /\ Exact(es, {new}, LastOf(es), n + 1, n + 1)
    /\ pc = "remove_size" => /\ List(es) /\ TailFits(heap, tail, es)
                             /\ Exact(es, {}, LastOf(es), n + 1, n + 1)
    /\ pc = "reverse" => /\ q # NULL /\ head = Nth(es, 1) /\ Linked(heap, es, k)
                         /\ prv = Nth(es, k) /\ lp = Nth(es, k + 1)
                         /\ TailFits(heap, tail, es) /\ Exact(es, {}, LastOf(es), n, n)
    /\ pc = "reverse_head" => /\ q # NULL /\ head = Nth(es, 1) /\ Linked(heap, es, n) /\ k = n
                              /\ prv = Nth(es, n) /\ lp = NULL /\ tail = Nth(es, 1)
                              /\ Exact(es, {}, Nth(es, 1), n, n)

Harmless == CutFns \cap {"rh", "rhq", "it"} = {}
Shape == Harmless => /\ pc # "wild"
                     /\ pc \notin Ends => \E es \in Seq(Blocks), k \in Nat : ShapeAt(es, k)

Inv == Base /\ Shape

----------------------------------------------------------------------------
(* The locals of an operation: what an assignment to some of them gives.   *)

LEMMA PutFn ==
    ASSUME NEW r \in Registers, NEW v
    PROVE  [r EXCEPT !.fn = v] =
             Rec(v, r.sub, r.timed, r.s, r.reps, r.new, r.lp, r.prv, r.cnt, r.r, r.val, r.rval,
                 r.ok, r.got)
BY DEF Registers, Rec

LEMMA PutNew ==
    ASSUME NEW r \in Registers, NEW v
    PROVE  [r EXCEPT !.new = v] =
             Rec(r.fn, r.sub, r.timed, r.s, r.reps, v, r.lp, r.prv, r.cnt, r.r, r.val, r.rval,
                 r.ok, r.got)
BY DEF Registers, Rec

LEMMA PutLp ==
    ASSUME NEW r \in Registers, NEW v
    PROVE  [r EXCEPT !.lp = v] =
             Rec(r.fn, r.sub, r.timed, r.s, r.reps, r.new, v, r.prv, r.cnt, r.r, r.val, r.rval,
                 r.ok, r.got)
BY DEF Registers, Rec

LEMMA PutPrv ==
    ASSUME NEW r \in Registers, NEW v
    PROVE  [r EXCEPT !.prv = v] =
             Rec(r.fn, r.sub, r.timed, r.s, r.reps, r.new, r.lp, v, r.cnt, r.r, r.val, r.rval,
                 r.ok, r.got)
BY DEF Registers, Rec

LEMMA PutCnt ==
    ASSUME NEW r \in Registers, NEW v
    PROVE  [r EXCEPT !.cnt = v] =
             Rec(r.fn, r.sub, r.timed, r.s, r.reps, r.new, r.lp, r.prv, v, r.r, r.val, r.rval,
                 r.ok, r.got)
BY DEF Registers, Rec

LEMMA PutVal ==
    ASSUME NEW r \in Registers, NEW v
    PROVE  [r EXCEPT !.val = v] =
             Rec(r.fn, r.sub, r.timed, r.s, r.reps, r.new, r.lp, r.prv, r.cnt, r.r, v, r.rval,
                 r.ok, r.got)
BY DEF Registers, Rec

LEMMA PutRval ==
    ASSUME NEW r \in Registers, NEW v
    PROVE  [r EXCEPT !.rval = v] =
             Rec(r.fn, r.sub, r.timed, r.s, r.reps, r.new, r.lp, r.prv, r.cnt, r.r, r.val, v,
                 r.ok, r.got)
BY DEF Registers, Rec

LEMMA PutOk ==
    ASSUME NEW r \in Registers, NEW v
    PROVE  [r EXCEPT !.ok = v] =
             Rec(r.fn, r.sub, r.timed, r.s, r.reps, r.new, r.lp, r.prv, r.cnt, r.r, r.val,
                 r.rval, v, r.got)
BY DEF Registers, Rec

LEMMA PutNewGot ==
    ASSUME NEW r \in Registers, NEW v, NEW w
    PROVE  [r EXCEPT !.new = v, !.got = w] =
             Rec(r.fn, r.sub, r.timed, r.s, r.reps, v, r.lp, r.prv, r.cnt, r.r, r.val, r.rval,
                 r.ok, w)
<1> DEFINE mid == [r EXCEPT !.new = v]
<1>1. mid = Rec(r.fn, r.sub, r.timed, r.s, r.reps, v, r.lp, r.prv, r.cnt, r.r, r.val, r.rval,
                r.ok, r.got)
  BY PutNew
<1>2. [r EXCEPT !.new = v, !.got = w] = [mid EXCEPT !.got = w]
  BY Zenon
<1> HIDE DEF mid
<1>3. [mid EXCEPT !.got = w] =
        Rec(r.fn, r.sub, r.timed, r.s, r.reps, v, r.lp, r.prv, r.cnt, r.r, r.val, r.rval, r.ok,
            w)
  BY <1>1 DEF Rec
<1> QED BY <1>2, <1>3, Zenon

LEMMA PutPrvLp ==
    ASSUME NEW r \in Registers, NEW v, NEW w
    PROVE  [r EXCEPT !.prv = v, !.lp = w] =
             Rec(r.fn, r.sub, r.timed, r.s, r.reps, r.new, w, v, r.cnt, r.r, r.val, r.rval,
                 r.ok, r.got)
<1> DEFINE mid == [r EXCEPT !.prv = v]
<1>1. mid = Rec(r.fn, r.sub, r.timed, r.s, r.reps, r.new, r.lp, v, r.cnt, r.r, r.val, r.rval,
                r.ok, r.got)
  BY PutPrv
<1>2. [r EXCEPT !.prv = v, !.lp = w] = [mid EXCEPT !.lp = w]
  BY Zenon
<1> HIDE DEF mid
<1>3. [mid EXCEPT !.lp = w] =
        Rec(r.fn, r.sub, r.timed, r.s, r.reps, r.new, w, v, r.cnt, r.r, r.val, r.rval, r.ok,
            r.got)
  BY <1>1 DEF Rec
<1> QED BY <1>2, <1>3, Zenon

LEMMA PutOkR ==
    ASSUME NEW r \in Registers, NEW v, NEW w
    PROVE  [r EXCEPT !.ok = v, !.r = w] =
             Rec(r.fn, r.sub, r.timed, r.s, r.reps, r.new, r.lp, r.prv, r.cnt, w, r.val,
                 r.rval, v, r.got)
<1> DEFINE mid == [r EXCEPT !.ok = v]
<1>1. mid = Rec(r.fn, r.sub, r.timed, r.s, r.reps, r.new, r.lp, r.prv, r.cnt, r.r, r.val,
                r.rval, v, r.got)
  BY PutOk
<1>2. [r EXCEPT !.ok = v, !.r = w] = [mid EXCEPT !.r = w]
  BY Zenon
<1> HIDE DEF mid
<1>3. [mid EXCEPT !.r = w] =
        Rec(r.fn, r.sub, r.timed, r.s, r.reps, r.new, r.lp, r.prv, r.cnt, w, r.val, r.rval, v,
            r.got)
  BY <1>1 DEF Rec
<1> QED BY <1>2, <1>3, Zenon

LEMMA PutValR ==
    ASSUME NEW r \in Registers, NEW v, NEW w
    PROVE  [r EXCEPT !.val = v, !.r = w] =
             Rec(r.fn, r.sub, r.timed, r.s, r.reps, r.new, r.lp, r.prv, r.cnt, w, v, r.rval,
                 r.ok, r.got)
<1> DEFINE mid == [r EXCEPT !.val = v]
<1>1. mid = Rec(r.fn, r.sub, r.timed, r.s, r.reps, r.new, r.lp, r.prv, r.cnt, r.r, v, r.rval,
                r.ok, r.got)
  BY PutVal
<1>2. [r EXCEPT !.val = v, !.r = w] = [mid EXCEPT !.r = w]
  BY Zenon
<1> HIDE DEF mid
<1>3. [mid EXCEPT !.r = w] =
        Rec(r.fn, r.sub, r.timed, r.s, r.reps, r.new, r.lp, r.prv, r.cnt, w, v, r.rval, r.ok,
            r.got)
  BY <1>1 DEF Rec
<1> QED BY <1>2, <1>3, Zenon

LEMMA PutValROk ==
    ASSUME NEW r \in Registers, NEW v, NEW w, NEW x
    PROVE  [r EXCEPT !.val = v, !.r = w, !.ok = x] =
             Rec(r.fn, r.sub, r.timed, r.s, r.reps, r.new, r.lp, r.prv, r.cnt, w, v, r.rval, x,
                 r.got)
<1> DEFINE mid == [r EXCEPT !.val = v, !.r = w]
<1>1. mid = Rec(r.fn, r.sub, r.timed, r.s, r.reps, r.new, r.lp, r.prv, r.cnt, w, v, r.rval,
                r.ok, r.got)
  BY PutValR, Zenon
<1>2. [r EXCEPT !.val = v, !.r = w, !.ok = x] = [mid EXCEPT !.ok = x]
  BY Zenon
<1> HIDE DEF mid
<1>3. [mid EXCEPT !.ok = x] =
        Rec(r.fn, r.sub, r.timed, r.s, r.reps, r.new, r.lp, r.prv, r.cnt, w, v, r.rval, x,
            r.got)
  BY <1>1 DEF Rec
<1> QED BY <1>2, <1>3, Zenon

LEMMA PutFnSub ==
    ASSUME NEW r \in Registers, NEW v, NEW w
    PROVE  [r EXCEPT !.fn = v, !.sub = w] =
             Rec(v, w, r.timed, r.s, r.reps, r.new, r.lp, r.prv, r.cnt, r.r, r.val, r.rval,
                 r.ok, r.got)
<1> DEFINE mid == [r EXCEPT !.fn = v]
<1>1. mid = Rec(v, r.sub, r.timed, r.s, r.reps, r.new, r.lp, r.prv, r.cnt, r.r, r.val, r.rval,
                r.ok, r.got)
  BY PutFn
<1>2. [r EXCEPT !.fn = v, !.sub = w] = [mid EXCEPT !.sub = w]
  BY Zenon
<1> HIDE DEF mid
<1>3. [mid EXCEPT !.sub = w] =
        Rec(v, w, r.timed, r.s, r.reps, r.new, r.lp, r.prv, r.cnt, r.r, r.val, r.rval, r.ok,
            r.got)
  BY <1>1 DEF Rec
<1> QED BY <1>2, <1>3, Zenon

LEMMA PutFnS ==
    ASSUME NEW r \in Registers, NEW v, NEW w
    PROVE  [r EXCEPT !.fn = v, !.s = w] =
             Rec(v, r.sub, r.timed, w, r.reps, r.new, r.lp, r.prv, r.cnt, r.r, r.val, r.rval,
                 r.ok, r.got)
<1> DEFINE mid == [r EXCEPT !.fn = v]
<1>1. mid = Rec(v, r.sub, r.timed, r.s, r.reps, r.new, r.lp, r.prv, r.cnt, r.r, r.val, r.rval,
                r.ok, r.got)
  BY PutFn
<1>2. [r EXCEPT !.fn = v, !.s = w] = [mid EXCEPT !.s = w]
  BY Zenon
<1> HIDE DEF mid
<1>3. [mid EXCEPT !.s = w] =
        Rec(v, r.sub, r.timed, w, r.reps, r.new, r.lp, r.prv, r.cnt, r.r, r.val, r.rval, r.ok,
            r.got)
  BY <1>1 DEF Rec
<1> QED BY <1>2, <1>3, Zenon

LEMMA PutFnSReps ==
    ASSUME NEW r \in Registers, NEW v, NEW w, NEW x
    PROVE  [r EXCEPT !.fn = v, !.s = w, !.reps = x] =
             Rec(v, r.sub, r.timed, w, x, r.new, r.lp, r.prv, r.cnt, r.r, r.val, r.rval, r.ok,
                 r.got)
<1> DEFINE mid == [r EXCEPT !.fn = v, !.s = w]
<1>1. mid = Rec(v, r.sub, r.timed, w, r.reps, r.new, r.lp, r.prv, r.cnt, r.r, r.val, r.rval,
                r.ok, r.got)
  BY PutFnS, Zenon
<1>2. [r EXCEPT !.fn = v, !.s = w, !.reps = x] = [mid EXCEPT !.reps = x]
  BY Zenon
<1> HIDE DEF mid
<1>3. [mid EXCEPT !.reps = x] =
        Rec(v, r.sub, r.timed, w, x, r.new, r.lp, r.prv, r.cnt, r.r, r.val, r.rval, r.ok, r.got)
  BY <1>1 DEF Rec
<1> QED BY <1>2, <1>3, Zenon

LEMMA PutFnSRepsTimed ==
    ASSUME NEW r \in Registers, NEW v, NEW w, NEW x, NEW y
    PROVE  [r EXCEPT !.fn = v, !.s = w, !.reps = x, !.timed = y] =
             Rec(v, r.sub, y, w, x, r.new, r.lp, r.prv, r.cnt, r.r, r.val, r.rval, r.ok, r.got)
<1> DEFINE mid == [r EXCEPT !.fn = v, !.s = w, !.reps = x]
<1>1. mid = Rec(v, r.sub, r.timed, w, x, r.new, r.lp, r.prv, r.cnt, r.r, r.val, r.rval, r.ok,
                r.got)
  BY PutFnSReps, Zenon
<1>2. [r EXCEPT !.fn = v, !.s = w, !.reps = x, !.timed = y] = [mid EXCEPT !.timed = y]
  BY Zenon
<1> HIDE DEF mid
<1>3. [mid EXCEPT !.timed = y] =
        Rec(v, r.sub, y, w, x, r.new, r.lp, r.prv, r.cnt, r.r, r.val, r.rval, r.ok, r.got)
  BY <1>1 DEF Rec
<1> QED BY <1>2, <1>3, Zenon

LEMMA PutFnTimed ==
    ASSUME NEW r \in Registers, NEW v, NEW w
    PROVE  [r EXCEPT !.fn = v, !.timed = w] =
             Rec(v, r.sub, w, r.s, r.reps, r.new, r.lp, r.prv, r.cnt, r.r, r.val, r.rval, r.ok,
                 r.got)
<1> DEFINE mid == [r EXCEPT !.fn = v]
<1>1. mid = Rec(v, r.sub, r.timed, r.s, r.reps, r.new, r.lp, r.prv, r.cnt, r.r, r.val, r.rval,
                r.ok, r.got)
  BY PutFn
<1>2. [r EXCEPT !.fn = v, !.timed = w] = [mid EXCEPT !.timed = w]
  BY Zenon
<1> HIDE DEF mid
<1>3. [mid EXCEPT !.timed = w] =
        Rec(v, r.sub, w, r.s, r.reps, r.new, r.lp, r.prv, r.cnt, r.r, r.val, r.rval, r.ok,
            r.got)
  BY <1>1 DEF Rec
<1> QED BY <1>2, <1>3, Zenon

LEMMA PutFnTimedOk ==
    ASSUME NEW r \in Registers, NEW v, NEW w, NEW x
    PROVE  [r EXCEPT !.fn = v, !.timed = w, !.ok = x] =
             Rec(v, r.sub, w, r.s, r.reps, r.new, r.lp, r.prv, r.cnt, r.r, r.val, r.rval, x,
                 r.got)
<1> DEFINE mid == [r EXCEPT !.fn = v, !.timed = w]
<1>1. mid = Rec(v, r.sub, w, r.s, r.reps, r.new, r.lp, r.prv, r.cnt, r.r, r.val, r.rval, r.ok,
                r.got)
  BY PutFnTimed, Zenon
<1>2. [r EXCEPT !.fn = v, !.timed = w, !.ok = x] = [mid EXCEPT !.ok = x]
  BY Zenon
<1> HIDE DEF mid
<1>3. [mid EXCEPT !.ok = x] =
        Rec(v, r.sub, w, r.s, r.reps, r.new, r.lp, r.prv, r.cnt, r.r, r.val, r.rval, x, r.got)
  BY <1>1 DEF Rec
<1> QED BY <1>2, <1>3, Zenon

LEMMA NoRegsIs ==
    NoRegs = Rec("none", "none", FALSE, "none", 0, NULL, NULL, NULL, 0, 0, 0, FALSE, TRUE, Unused)
BY DEF NoRegs, Rec

LEMMA NoRegsType == NoRegs \in Registers
BY DEF NoRegs, Registers, Commands, ArgStrings, Ptr, NULL, Objects

LEMMA RecType ==
    ASSUME NEW fn \in Commands, NEW sub \in {"none", "new", "main"}, NEW timed \in BOOLEAN,
           NEW s \in ArgStrings, NEW reps \in Nat, NEW new \in Ptr, NEW lp \in Ptr, NEW prv \in Ptr,
           NEW cnt \in Int, NEW r \in Nat, NEW val \in Int, NEW rval \in BOOLEAN,
           NEW ok \in BOOLEAN, NEW got \in Objects
    PROVE  Rec(fn, sub, timed, s, reps, new, lp, prv, cnt, r, val, rval, ok, got) \in Registers
BY DEF Rec, Registers

LEMMA RegTypes ==
    ASSUME NEW r \in Registers
    PROVE  /\ r.fn \in Commands /\ r.sub \in {"none", "new", "main"} /\ r.timed \in BOOLEAN
           /\ r.s \in ArgStrings /\ r.reps \in Nat /\ r.new \in Ptr /\ r.lp \in Ptr /\ r.prv \in Ptr
           /\ r.cnt \in Int /\ r.r \in Nat /\ r.val \in Int /\ r.rval \in BOOLEAN
           /\ r.ok \in BOOLEAN /\ r.got \in Objects
BY DEF Registers

----------------------------------------------------------------------------
(* The heap: what its objects are, and what a store makes of them.         *)

LEMMA ObjectKinds ==
    ASSUME NEW o \in Objects
    PROVE  /\ o.kind = "queue" => o.head \in Ptr /\ o.tail \in Ptr /\ o.size \in Int
           /\ o.kind = "ele" => o.value \in Ptr /\ o.next \in Ptr
           /\ o.kind = "str" => o.s \in Strings
           /\ o.kind \in {"unused", "queue", "ele", "str"}
           /\ o.kind = "unused" <=> o = Unused
BY DEF Objects, Unused

LEMMA NewObjects ==
    ASSUME NEW v \in Ptr, NEW w \in Ptr
    PROVE  /\ NewQueue \in Objects /\ NewQueue.kind = "queue"
           /\ NewQueue.head = NULL /\ NewQueue.tail = NULL /\ NewQueue.size = 0
           /\ \A o : o = [kind |-> "ele", value |-> v, next |-> w] =>
                   o \in Objects /\ o.kind = "ele" /\ o.value = v /\ o.next = w
           /\ \A s \in Strings : \A o : o = [kind |-> "str", s |-> s] =>
                   o \in Objects /\ o.kind = "str" /\ o.s = s
BY DEF Objects, NewQueue, NULL, Ptr

LEMMA PutField ==
    ASSUME NEW o \in Objects
    PROVE  /\ o.kind = "queue" =>
                /\ \A v \in Ptr : \A t : t = [o EXCEPT !.head = v] =>
                        t \in Objects /\ t.kind = "queue" /\ t.head = v /\ t.tail = o.tail /\ t.size = o.size
                /\ \A v \in Ptr : \A t : t = [o EXCEPT !.tail = v] =>
                        t \in Objects /\ t.kind = "queue" /\ t.head = o.head /\ t.tail = v /\ t.size = o.size
                /\ \A v \in Int : \A t : t = [o EXCEPT !.size = v] =>
                        t \in Objects /\ t.kind = "queue" /\ t.head = o.head /\ t.tail = o.tail /\ t.size = v
           /\ o.kind = "ele" =>
                \A v \in Ptr : \A t : t = [o EXCEPT !.next = v] =>
                        t \in Objects /\ t.kind = "ele" /\ t.value = o.value /\ t.next = v
<1>1. CASE o.kind = "queue"
  <2>1. o \in [kind : {"queue"}, head : Ptr, tail : Ptr, size : Int]
    BY <1>1 DEF Objects, Unused
  <2> QED BY <1>1, <2>1 DEF Objects
<1>2. CASE o.kind = "ele"
  <2>1. o \in [kind : {"ele"}, value : Ptr, next : Ptr]
    BY <1>2 DEF Objects, Unused
  <2> QED BY <1>2, <2>1 DEF Objects
<1> QED BY <1>1, <1>2

LEMMA LeastNatural ==
    ASSUME NEW S \in SUBSET Nat, S # {}
    PROVE  \E x \in S : \A y \in S : x <= y
<1>1. PICK x \in S : \A y \in S : ~ (<<y, x>> \in OpToRel(<, Nat))
  BY NatLessThanWellFounded, WFMin
<1>2. \A y, z \in Nat : y < z => <<y, z>> \in OpToRel(<, Nat)
  <2> TAKE y, z \in Nat
  <2> HAVE y < z
  <2>1. <<y, z>> \in Nat \X Nat /\ <<y, z>>[1] < <<y, z>>[2]
    OBVIOUS
  <2> QED BY <2>1 DEF OpToRel
<1>3. \A y \in S : ~ (y < x)
  BY <1>1, <1>2
<1> QED BY <1>3

LEMMA NewBlockIsFree ==
    ASSUME FreeBlocks # {}
    PROVE  NewBlock \in Blocks /\ heap[NewBlock] = Unused
<1>1. FreeBlocks \in SUBSET Nat
  BY HarnessAssumption DEF FreeBlocks, Blocks
<1>2. \E x \in FreeBlocks : \A y \in FreeBlocks : x <= y
  BY <1>1, LeastNatural
<1>3. NewBlock \in FreeBlocks
  BY <1>2 DEF NewBlock, Min
<1> QED BY <1>3 DEF FreeBlocks, Allocated

LEMMA NullIsNoBlock == NULL \notin Blocks /\ Blocks \subseteq Ptr /\ NULL \in Ptr
BY HarnessAssumption DEF NULL, Blocks, Ptr

----------------------------------------------------------------------------
(* What the steps of the queue's operations have in common.                *)

CallKept == /\ reg' \in Registers /\ reg'.fn = reg.fn /\ reg'.sub = reg.sub /\ reg'.timed = reg.timed
            /\ reg'.s = reg.s /\ reg'.reps = reg.reps /\ reg'.ok = reg.ok /\ reg'.r = reg.r
            /\ reg'.val = reg.val
LocalsBecome(n, l, p) == CallKept /\ reg'.new = n /\ reg'.lp = l /\ reg'.prv = p

LEMMA LocalsMove ==
    ASSUME reg \in Registers
    PROVE  /\ UNCHANGED reg => LocalsBecome(reg.new, reg.lp, reg.prv)
           /\ \A v \in BOOLEAN : Return(v) => /\ LocalsBecome(reg.new, reg.lp, reg.prv)
                                              /\ pc' = "ret" /\ reg'.rval = v
           /\ \A v \in Ptr : reg' = [reg EXCEPT !.new = v] => LocalsBecome(v, reg.lp, reg.prv)
           /\ \A v \in Ptr : reg' = [reg EXCEPT !.lp = v] => LocalsBecome(reg.new, v, reg.prv)
           /\ \A v \in Ptr : reg' = [reg EXCEPT !.prv = v] => LocalsBecome(reg.new, reg.lp, v)
           /\ \A v \in Int : reg' = [reg EXCEPT !.cnt = v] => LocalsBecome(reg.new, reg.lp, reg.prv)
<1> USE DEF LocalsBecome, CallKept, Registers
<1>1. UNCHANGED reg => LocalsBecome(reg.new, reg.lp, reg.prv)
  OBVIOUS
<1>2. ASSUME NEW v \in BOOLEAN, Return(v)
      PROVE  LocalsBecome(reg.new, reg.lp, reg.prv) /\ pc' = "ret" /\ reg'.rval = v
  BY <1>2 DEF Return
<1>3. ASSUME NEW v \in Ptr, reg' = [reg EXCEPT !.new = v] PROVE LocalsBecome(v, reg.lp, reg.prv)
  BY <1>3
<1>4. ASSUME NEW v \in Ptr, reg' = [reg EXCEPT !.lp = v] PROVE LocalsBecome(reg.new, v, reg.prv)
  BY <1>4
<1>5. ASSUME NEW v \in Ptr, reg' = [reg EXCEPT !.prv = v] PROVE LocalsBecome(reg.new, reg.lp, v)
  BY <1>5
<1>6. ASSUME NEW v \in Int, reg' = [reg EXCEPT !.cnt = v] PROVE LocalsBecome(reg.new, reg.lp, reg.prv)
  BY <1>6
<1> QED BY <1>1, <1>2, <1>3, <1>4, <1>5, <1>6

LEMMA QueueIsThere ==
    ASSUME Base, pc \in QueuePC \cup {"enter", "show", "caught"}, q # NULL
    PROVE  /\ ~Freed /\ q \in Blocks /\ heap[q] \in Objects /\ heap[q].kind = "queue"
           /\ head \in Ptr /\ tail \in Ptr /\ size \in Int
<1>1. ~Freed
  BY DEF Base, Flow, Freed, QueuePC, Ends
<1>2. q \in Blocks /\ heap[q] \in Objects
  BY DEF Base, Types, Ptr
<1> QED BY <1>1, <1>2, ObjectKinds DEF Base, Region, head, tail, size

LEMMA PointedTo ==
    ASSUME Types, NEW p \in Ptr, p # NULL
    PROVE  /\ p \in Blocks /\ heap[p] \in Objects
           /\ Usable(p) => heap[p].value \in Ptr /\ heap[p].next \in Ptr
<1>1. p \in Blocks /\ heap[p] \in Objects
  BY DEF Types, Ptr
<1> QED BY <1>1, ObjectKinds DEF Usable

(* The two steps that assign to two locals.                                *)
LEMMA RemoveValueMeans ==
    ASSUME Base, q_remove_value
    PROVE  /\ pc = "remove" /\ Rest
           /\ \/ (q = NULL \/ head = NULL) /\ NoStore /\ Return(FALSE)
              \/ /\ q # NULL /\ head # NULL
                 /\ \/ ~Usable(head) /\ Wild
                    \/ Usable(head) /\ FreeFatal /\ Fatal
                    \/ Usable(head) /\ FreeWild(heap[head].value) /\ Wild
                    \/ /\ Usable(head) /\ test_free(heap[head].value) /\ pc' = "remove_head"
                       /\ LocalsBecome(head, reg.lp, reg.prv)
<1> DEFINE got == heap[heap[head].value]
<1>1. pc = "remove" /\ Rest
  BY Zenon DEF q_remove_value, At
<1>2. ASSUME q # NULL, head # NULL, Usable(head), test_free(heap[head].value),
             reg' = [reg EXCEPT !.new = head, !.got = got]
      PROVE  LocalsBecome(head, reg.lp, reg.prv)
  <2>1. reg \in Registers
    BY DEF Base, Types
  <2>2. reg' = Rec(reg.fn, reg.sub, reg.timed, reg.s, reg.reps, head, reg.lp, reg.prv, reg.cnt,
                   reg.r, reg.val, reg.rval, reg.ok, got)
    BY <1>2, <2>1, PutNewGot, Zenon
  <2>3. head \in Ptr
    BY <1>1, <1>2, QueueIsThere, Zenon DEF QueuePC
  <2>4. heap[head].value \in Blocks
    BY <1>2, Zenon DEF test_free, Allocated
  <2>5. heap \in [Blocks -> Objects]
    BY Zenon DEF Base, Types
  <2>6. got \in Objects
    BY <2>4, <2>5, Zenon
  <2> HIDE DEF got
  <2> DEFINE new == head
  <2> HIDE DEF new
  <2>7. reg' = Rec(reg.fn, reg.sub, reg.timed, reg.s, reg.reps, new, reg.lp, reg.prv, reg.cnt,
                   reg.r, reg.val, reg.rval, reg.ok, got) /\ new \in Ptr
    BY <2>2, <2>3, Zenon DEF new
  <2>8. \A t : t = Rec(reg.fn, reg.sub, reg.timed, reg.s, reg.reps, new, reg.lp, reg.prv, reg.cnt,
                       reg.r, reg.val, reg.rval, reg.ok, got)
               => /\ t \in Registers /\ t.fn = reg.fn /\ t.sub = reg.sub /\ t.timed = reg.timed
                  /\ t.s = reg.s /\ t.reps = reg.reps /\ t.ok = reg.ok /\ t.r = reg.r
                  /\ t.val = reg.val /\ t.new = new /\ t.lp = reg.lp /\ t.prv = reg.prv
    BY <2>1, <2>6, <2>7 DEF Rec, Registers
  <2> QED BY <2>7, <2>8, Zenon DEF LocalsBecome, CallKept, new
<1>3. ASSUME q # NULL, head # NULL, Usable(head)
      PROVE  Release(heap[head].value, /\ Goto("remove_head")
                                       /\ reg' = [reg EXCEPT !.new = head, !.got = got])
  BY <1>3, Zenon DEF q_remove_value
<1> QED BY <1>1, <1>2, <1>3, Zenon DEF q_remove_value, Release, Goto

LEMMA ReverseEleMeans ==
    ASSUME Base, q_reverse_ele
    PROVE  /\ pc = "reverse" /\ pc' = "reverse" /\ Rest
           /\ reg.lp # NULL /\ Usable(reg.lp)
           /\ Store(reg.lp, [heap[reg.lp] EXCEPT !.next = reg.prv])
           /\ LocalsBecome(reg.new, heap[reg.lp].next, reg.lp)
<1>1. reg \in Registers /\ reg.lp \in Ptr
  BY DEF Base, Types, Registers
<1>2. reg.lp # NULL /\ Usable(reg.lp)
  BY Zenon DEF q_reverse_ele
<1> DEFINE p == reg.lp
           n == heap[reg.lp].next
<1>3. p \in Ptr /\ n \in Ptr
  BY <1>1, <1>2, PointedTo DEF Base
<1> HIDE DEF p, n
<1>4. reg' = Rec(reg.fn, reg.sub, reg.timed, reg.s, reg.reps, reg.new, n, p, reg.cnt,
                 reg.r, reg.val, reg.rval, reg.ok, reg.got)
  BY <1>1, PutPrvLp, Zenon DEF q_reverse_ele, p, n
<1>5. reg' = Rec(reg.fn, reg.sub, reg.timed, reg.s, reg.reps, reg.new, n, p, reg.cnt,
                 reg.r, reg.val, reg.rval, reg.ok, reg.got)
      => LocalsBecome(reg.new, n, p)
  BY <1>1, <1>3 DEF Rec, Registers, LocalsBecome, CallKept
<1> QED BY <1>2, <1>4, <1>5, Zenon DEF q_reverse_ele, At, Goto, p, n

(* What every step of an operation leaves alone.                           *)
QueueFrame ==
    /\ pc \in QueuePC /\ CallKept
    /\ UNCHANGED <<q, fail_probability, modes>> /\ Settle
    /\ IF pc' = "caught" THEN error_occurred' = TRUE /\ jmp_ready' = FALSE /\ UNCHANGED time_limited
                         ELSE UNCHANGED exceptions

LEMMA QueueFrameStep == ASSUME Base, QueueStep PROVE QueueFrame
<1> USE DEF QueueFrame, QueuePC, At, Goto, Rest, Fatal, Wild, Allocate, Release, Store, NoStore,
            test_malloc, test_free
<1>0. reg \in Registers
  BY DEF Base, Types
<1>1. LocalsBecome(reg.new, reg.lp, reg.prv) => CallKept
  BY DEF LocalsBecome
<1>2. UNCHANGED reg => CallKept
  BY <1>0 DEF CallKept
<1>3. \A v \in BOOLEAN : Return(v) => CallKept /\ pc' = "ret"
  BY <1>0, LocalsMove DEF LocalsBecome
<1>4. \A v \in Ptr : \/ reg' = [reg EXCEPT !.new = v] \/ reg' = [reg EXCEPT !.lp = v]
                     \/ reg' = [reg EXCEPT !.prv = v]
                     => CallKept
  BY <1>0, LocalsMove DEF LocalsBecome
<1>5. FreeBlocks # {} => NewBlock \in Ptr
  BY NewBlockIsFree, NullIsNoBlock
<1>6. NULL \in Ptr /\ reg.lp \in Ptr /\ reg.prv \in Ptr
  BY <1>0, NullIsNoBlock DEF Registers
<1>7. CASE q_new
  BY <1>4, <1>5, <1>6, <1>7, <1>2 DEF q_new
<1>8. CASE q_free_value
  <2>1. reg.lp # NULL /\ Usable(reg.lp) => heap[reg.lp].next \in Ptr
    BY <1>6, PointedTo DEF Base
  <2> QED BY <1>2, <1>3, <1>4, <1>8, <2>1 DEF q_free_value
<1>9. CASE q_free_ele
  BY <1>2, <1>4, <1>6, <1>9 DEF q_free_ele
<1>10. CASE q_insert_ele
  BY <1>2, <1>3, <1>4, <1>5, <1>10 DEF q_insert_ele
<1>11. CASE q_insert_value
  BY <1>2, <1>4, <1>5, <1>11 DEF q_insert_value
<1>12. CASE q_insert_undo
  BY <1>2, <1>3, <1>12 DEF q_insert_undo
<1>13. CASE q_insert_copy
  BY <1>2, <1>13 DEF q_insert_copy
<1>14. CASE q_insert_head_tail
  BY <1>2, <1>14 DEF q_insert_head_tail
<1>15. CASE q_insert_head_head
  BY <1>2, <1>15 DEF q_insert_head_head
<1>16. CASE q_insert_tail_link
  BY <1>2, <1>16 DEF q_insert_tail_link, Segv, exceptions
<1>17. CASE q_insert_tail_tail
  BY <1>2, <1>17 DEF q_insert_tail_tail
<1>18. CASE q_insert_size
  BY <1>3, <1>18 DEF q_insert_size
<1>19. CASE q_remove_value
  BY <1>1, <1>2, <1>3, <1>19, RemoveValueMeans DEF LocalsBecome
<1>20. CASE q_remove_head
  BY <1>2, <1>20 DEF q_remove_head
<1>21. CASE q_remove_tail
  BY <1>2, <1>21 DEF q_remove_tail
<1>22. CASE q_remove_ele
  BY <1>2, <1>22 DEF q_remove_ele
<1>23. CASE q_remove_size
  BY <1>3, <1>23 DEF q_remove_size
<1>24. CASE q_reverse_wild
  BY <1>2, <1>24 DEF q_reverse_wild
<1>25. CASE q_reverse_ele
  BY <1>25, ReverseEleMeans DEF LocalsBecome
<1>26. CASE q_reverse_tail
  BY <1>2, <1>26 DEF q_reverse_tail
<1>27. CASE q_reverse_head
  BY <1>3, <1>27 DEF q_reverse_head
<1>28. CASE q_size
  <2>1. q # NULL => size \in Int
    BY <1>28, QueueIsThere DEF q_size
  <2>2. \A v \in Int : reg' = [reg EXCEPT !.cnt = v] => CallKept
    BY <1>0, LocalsMove DEF LocalsBecome
  <2> QED BY <1>28, <2>1, <2>2 DEF q_size
<1> QED BY <1>7, <1>8, <1>9, <1>10, <1>11, <1>12, <1>13, <1>14, <1>15, <1>16, <1>17, <1>18, <1>19,
           <1>20, <1>21, <1>22, <1>23, <1>24, <1>25, <1>26, <1>27, <1>28, Zenon DEF QueueStep

LEMMA QueueFlowStep ==
    ASSUME Base, QueueStep, UNCHANGED quit_flag
    PROVE  Flow' /\ Modes' /\ pc' \in QueuePC \cup {"ret", "caught", "exit1", "wild"}
<1> USE DEF At, Goto, Rest, Fatal, Wild, Allocate, Release, Return
<1>0. /\ pc \in QueuePC /\ reg'.fn = reg.fn /\ reg'.sub = reg.sub /\ reg'.s = reg.s
      /\ UNCHANGED modes
      /\ pc' # "caught" => UNCHANGED exceptions
      /\ pc' = "caught" => jmp_ready' = FALSE
  BY QueueFrameStep DEF QueueFrame, CallKept
<1>1. Flow /\ Modes
  BY DEF Base
<1>2. quit_flag' => FALSE
  BY <1>0, <1>1 DEF Flow, QueuePC, Ends
<1> USE DEF Flow, Modes, QueuePC, PCs, Between, Ends, InsertPC, RemovePC, modes, exceptions
<1>3. CASE q_new
  BY <1>0, <1>1, <1>2, <1>3 DEF q_new
<1>4. CASE q_free_value
  BY <1>0, <1>1, <1>2, <1>4 DEF q_free_value
<1>5. CASE q_free_ele
  BY <1>0, <1>1, <1>2, <1>5 DEF q_free_ele
<1>6. CASE q_insert_ele
  BY <1>0, <1>1, <1>2, <1>6 DEF q_insert_ele
<1>7. CASE q_insert_value
  BY <1>0, <1>1, <1>2, <1>7 DEF q_insert_value
<1>8. CASE q_insert_undo
  BY <1>0, <1>1, <1>2, <1>8 DEF q_insert_undo
<1>9. CASE q_insert_copy
  BY <1>0, <1>1, <1>2, <1>9 DEF q_insert_copy
<1>10. CASE q_insert_head_tail
  BY <1>0, <1>1, <1>2, <1>10 DEF q_insert_head_tail
<1>11. CASE q_insert_head_head
  BY <1>0, <1>1, <1>2, <1>11 DEF q_insert_head_head
<1>12. CASE q_insert_tail_link
  BY <1>0, <1>1, <1>2, <1>12 DEF q_insert_tail_link, Segv
<1>13. CASE q_insert_tail_tail
  BY <1>0, <1>1, <1>2, <1>13 DEF q_insert_tail_tail
<1>14. CASE q_insert_size
  BY <1>0, <1>1, <1>2, <1>14 DEF q_insert_size
<1>15. CASE q_remove_value
  BY <1>0, <1>1, <1>2, <1>15, RemoveValueMeans
<1>16. CASE q_remove_head
  BY <1>0, <1>1, <1>2, <1>16 DEF q_remove_head
<1>17. CASE q_remove_tail
  BY <1>0, <1>1, <1>2, <1>17 DEF q_remove_tail
<1>18. CASE q_remove_ele
  BY <1>0, <1>1, <1>2, <1>18 DEF q_remove_ele
<1>19. CASE q_remove_size
  BY <1>0, <1>1, <1>2, <1>19 DEF q_remove_size
<1>20. CASE q_reverse_wild
  BY <1>0, <1>1, <1>2, <1>20 DEF q_reverse_wild
<1>21. CASE q_reverse_ele
  BY <1>0, <1>1, <1>2, <1>21, ReverseEleMeans
<1>22. CASE q_reverse_tail
  BY <1>0, <1>1, <1>2, <1>22 DEF q_reverse_tail
<1>23. CASE q_reverse_head
  BY <1>0, <1>1, <1>2, <1>23 DEF q_reverse_head
<1>24. CASE q_size
  BY <1>0, <1>1, <1>2, <1>24 DEF q_size
<1> QED BY <1>3, <1>4, <1>5, <1>6, <1>7, <1>8, <1>9, <1>10, <1>11, <1>12, <1>13, <1>14, <1>15,
           <1>16, <1>17, <1>18, <1>19, <1>20, <1>21, <1>22, <1>23, <1>24, Zenon DEF QueueStep

(* What a step of an operation does to the heap.                           *)
StoresTo(b) == \E o \in Objects : o # Unused /\ Store(b, o)
HeapMove == \/ NoStore
            \/ \E b \in Allocated : StoresTo(b)
            \/ /\ \E o \in Objects : o # Unused /\ test_malloc(o)
               /\ (pc = "new" /\ pc' = "ret") \/ pc \in {"insert", "insert_value"}
            \/ \E b \in Blocks : test_free(b)

LEMMA QueueHeapStep == ASSUME Base, QueueStep PROVE HeapMove
<1> USE DEF HeapMove, At, Goto, Rest, Fatal, Wild, Allocate, Release
<1>0. pc \in QueuePC /\ Types /\ Locals /\ reg \in Registers
  BY QueueFrameStep DEF QueueFrame, Base, Types
<1>1. reg.new \in Ptr /\ reg.lp \in Ptr /\ reg.prv \in Ptr /\ NULL \in Ptr
  BY <1>0, NullIsNoBlock DEF Registers
<1>2. q # NULL => /\ q \in Allocated /\ heap[q] \in Objects /\ heap[q].kind = "queue"
                  /\ head \in Ptr /\ tail \in Ptr /\ size \in Int
  BY <1>0, QueueIsThere, ObjectKinds DEF Allocated, Unused
<1>3. \A o \in Objects : o.kind # "unused" => o # Unused
  BY ObjectKinds
<1>4. q # NULL => /\ \A v \in Ptr : Store(q, [heap[q] EXCEPT !.head = v]) => StoresTo(q)
                  /\ \A v \in Ptr : Store(q, [heap[q] EXCEPT !.tail = v]) => StoresTo(q)
                  /\ \A v \in Int : Store(q, [heap[q] EXCEPT !.size = v]) => StoresTo(q)
  <2> SUFFICES ASSUME q # NULL
               PROVE  /\ \A v \in Ptr : Store(q, [heap[q] EXCEPT !.head = v]) => StoresTo(q)
                      /\ \A v \in Ptr : Store(q, [heap[q] EXCEPT !.tail = v]) => StoresTo(q)
                      /\ \A v \in Int : Store(q, [heap[q] EXCEPT !.size = v]) => StoresTo(q)
    OBVIOUS
  <2>1. /\ \A v \in Ptr : LET t == [heap[q] EXCEPT !.head = v] IN t \in Objects /\ t # Unused
        /\ \A v \in Ptr : LET t == [heap[q] EXCEPT !.tail = v] IN t \in Objects /\ t # Unused
        /\ \A v \in Int : LET t == [heap[q] EXCEPT !.size = v] IN t \in Objects /\ t # Unused
    BY <1>2, <1>3, PutField
  <2> QED BY <2>1, Zenon DEF StoresTo
<1>5. \A p, v \in Ptr : p # NULL /\ Usable(p) /\ Store(p, [heap[p] EXCEPT !.next = v])
                          => p \in Allocated /\ StoresTo(p)
  <2> SUFFICES ASSUME NEW p \in Ptr, NEW v \in Ptr, p # NULL, Usable(p),
                      Store(p, [heap[p] EXCEPT !.next = v])
               PROVE  p \in Allocated /\ StoresTo(p)
    OBVIOUS
  <2>1. p \in Blocks /\ heap[p] \in Objects /\ heap[p].kind = "ele"
    BY <1>0, PointedTo DEF Usable
  <2>2. p \in Allocated
    BY <2>1, <1>3, ObjectKinds DEF Allocated
  <2>3. [heap[p] EXCEPT !.next = v] \in Objects /\ [heap[p] EXCEPT !.next = v] # Unused
    BY <2>1, <1>3, PutField
  <2> QED BY <2>2, <2>3, Zenon DEF StoresTo
<1>6. \A b : test_free(b) => b \in Blocks
  BY DEF test_free, Allocated
<1>7. NewQueue \in Objects /\ NewQueue # Unused
  BY <1>1, <1>3, NewObjects
<1>8. [kind |-> "ele", value |-> NULL, next |-> NULL] \in Objects \ {Unused}
  BY <1>1, <1>3, NewObjects
<1>9. CASE q_new
  BY <1>9, <1>7 DEF q_new, NewQueue
<1>10. CASE q_free_value
  BY <1>10, <1>6 DEF q_free_value
<1>11. CASE q_free_ele
  BY <1>11, <1>6 DEF q_free_ele
<1>12. CASE q_insert_ele
  BY <1>12, <1>8 DEF q_insert_ele
<1>13. CASE q_insert_value
  <2>1. reg.s \in Strings
    BY <1>13 DEF q_insert_value, Base, Flow, InsertPC
  <2>2. [kind |-> "str", s |-> reg.s] \in Objects \ {Unused}
    BY <2>1, <1>1, <1>3, NewObjects
  <2> QED BY <1>13, <2>2 DEF q_insert_value
<1>14. CASE q_insert_undo
  BY <1>14, <1>6 DEF q_insert_undo
<1>15. CASE q_insert_copy
  <2> DEFINE o == [kind |-> "ele", value |-> reg.lp,
                   next |-> IF reg.fn = "ih" THEN head ELSE NULL]
  <2>1. q # NULL /\ reg.new \in Allocated
    BY <1>15, <1>0, <1>1, <1>3, ObjectKinds, PointedTo DEF q_insert_copy, Locals, QueuePart, Allocated, Usable
  <2>2. o \in Objects /\ o # Unused
    BY <2>1, <1>1, <1>2, <1>3, NewObjects
  <2>3. Store(reg.new, o)
    BY <1>15, Zenon DEF q_insert_copy
  <2> HIDE DEF o
  <2> QED BY <2>1, <2>2, <2>3, Zenon DEF StoresTo
<1>16. CASE q_insert_head_tail
  <2>1. q # NULL
    BY <1>16, <1>0 DEF q_insert_head_tail, Locals, QueuePart
  <2> QED BY <1>16, <2>1, <1>1, <1>2, <1>4 DEF q_insert_head_tail, tail
<1>17. CASE q_insert_head_head
  <2>1. q # NULL
    BY <1>17, <1>0 DEF q_insert_head_head, Locals, QueuePart
  <2> QED BY <1>17, <2>1, <1>1, <1>2, <1>4 DEF q_insert_head_head
<1>18. CASE q_insert_tail_link
  <2>1. q # NULL
    BY <1>18, <1>0 DEF q_insert_tail_link, Locals, QueuePart
  <2> QED BY <1>18, <2>1, <1>1, <1>2, <1>4, <1>5 DEF q_insert_tail_link, Segv
<1>19. CASE q_insert_tail_tail
  <2>1. q # NULL
    BY <1>19, <1>0 DEF q_insert_tail_tail, Locals, QueuePart
  <2> QED BY <1>19, <2>1, <1>1, <1>2, <1>4 DEF q_insert_tail_tail
<1>20. CASE q_insert_size
  <2>1. q # NULL
    BY <1>20, <1>0 DEF q_insert_size, Locals, QueuePart
  <2> QED BY <1>20, <2>1, <1>1, <1>2, <1>4 DEF q_insert_size, size
<1>21. CASE q_remove_value
  BY <1>21, <1>6, RemoveValueMeans
<1>22. CASE q_remove_head
  <2>1. q # NULL /\ heap[reg.new].next \in Ptr
    BY <1>22, <1>0, <1>1, PointedTo DEF q_remove_head, Locals, QueuePart, Usable
  <2> QED BY <1>22, <2>1, <1>2, <1>4 DEF q_remove_head
<1>23. CASE q_remove_tail
  <2>1. q # NULL
    BY <1>23, <1>0 DEF q_remove_tail, Locals, QueuePart
  <2> QED BY <1>23, <2>1, <1>1, <1>2, <1>4 DEF q_remove_tail
<1>24. CASE q_remove_ele
  BY <1>24, <1>6 DEF q_remove_ele
<1>25. CASE q_remove_size
  <2>1. q # NULL
    BY <1>25, <1>0 DEF q_remove_size, Locals, QueuePart
  <2> QED BY <1>25, <2>1, <1>1, <1>2, <1>4 DEF q_remove_size, size
<1>26. CASE q_reverse_wild
  BY <1>26 DEF q_reverse_wild
<1>27. CASE q_reverse_ele
  BY <1>27, <1>5, <1>1, ReverseEleMeans
<1>28. CASE q_reverse_tail
  <2>1. q # NULL
    BY <1>28, <1>0 DEF q_reverse_tail, Locals, QueuePart
  <2> QED BY <1>28, <2>1, <1>1, <1>2, <1>4 DEF q_reverse_tail
<1>29. CASE q_reverse_head
  <2>1. q # NULL
    BY <1>29, <1>0 DEF q_reverse_head, Locals, QueuePart
  <2> QED BY <1>29, <2>1, <1>1, <1>2, <1>4 DEF q_reverse_head
<1>30. CASE q_size
  BY <1>30 DEF q_size
<1> QED BY <1>9, <1>10, <1>11, <1>12, <1>13, <1>14, <1>15, <1>16, <1>17, <1>18, <1>19, <1>20,
           <1>21, <1>22, <1>23, <1>24, <1>25, <1>26, <1>27, <1>28, <1>29, <1>30, Zenon DEF QueueStep

(* Linking or unlinking a block changes the number of blocks by what is    *)
(* still to be counted.                                                    *)
LEMMA BlocksAreFinite == IsFiniteSet(Blocks)
BY HarnessAssumption, FS_Interval DEF Blocks

LEMMA CountStep ==
    ASSUME Types, Settle, HeapMove
    PROVE  allocated_count' + adj' - Cardinality(Allocated)' = allocated_count + adj - Cardinality(Allocated)
<1>0. heap \in [Blocks -> Objects] /\ allocated_count \in Int /\ adj \in Int
  BY DEF Types
<1>1. Allocated \in SUBSET Blocks /\ IsFiniteSet(Allocated) /\ Cardinality(Allocated) \in Nat
  <2>1. Allocated \in SUBSET Blocks
    BY DEF Allocated
  <2> QED BY <2>1, BlocksAreFinite, FS_Subset, FS_CardinalityType
<1>2. allocated_count' = allocated_count + adj
  BY DEF Settle
<1>3. CASE NoStore
  <2>1. adj' = 0 /\ Allocated' = Allocated
    BY <1>3 DEF NoStore, Allocated
  <2> QED BY <1>0, <1>1, <1>2, <2>1
<1>4. ASSUME NEW b \in Allocated, NEW o \in Objects, o # Unused, Store(b, o) PROVE adj' = 0 /\ Allocated' = Allocated
  BY <1>0, <1>4 DEF Store, Allocated
<1>5. CASE \E b \in Allocated : StoresTo(b)
  BY <1>0, <1>1, <1>2, <1>4, <1>5 DEF StoresTo
<1>6. ASSUME NEW o \in Objects, o # Unused, test_malloc(o)
      PROVE  adj' = 1 /\ Cardinality(Allocated)' = Cardinality(Allocated) + 1
  <2>1. NewBlock \in Blocks /\ heap[NewBlock] = Unused /\ adj' = 1 /\ heap' = [heap EXCEPT ![NewBlock] = o]
    BY <1>6, NewBlockIsFree DEF test_malloc
  <2>2. Allocated' = Allocated \cup {NewBlock} /\ NewBlock \notin Allocated
    <3> DEFINE n == NewBlock
    <3> HIDE DEF n
    <3>1. n \in Blocks /\ heap[n] = Unused /\ heap' = [heap EXCEPT ![n] = o]
      BY <2>1 DEF n
    <3>2. Allocated' = Allocated \cup {n} /\ n \notin Allocated
      BY <1>0, <1>6, <3>1 DEF Allocated
    <3> QED BY <3>2 DEF n
  <2> QED BY <1>1, <2>1, <2>2, FS_AddElement
<1>7. ASSUME NEW b \in Blocks, test_free(b)
      PROVE  adj' = -1 /\ Cardinality(Allocated)' = Cardinality(Allocated) - 1
  <2>1. Allocated' = Allocated \ {b} /\ b \in Allocated /\ adj' = -1
    BY <1>0, <1>7 DEF test_free, Allocated
  <2> QED BY <1>1, <2>1, FS_RemoveElement
<1> QED BY <1>0, <1>1, <1>2, <1>3, <1>5, <1>6, <1>7 DEF HeapMove

LEMMA AllocatedSize ==
    /\ IsFiniteSet(Allocated) /\ Cardinality(Allocated) \in Nat
    /\ Cardinality(Allocated) = 0 <=> Allocated = {}
    /\ Cardinality(Allocated)' \in Nat
<1>1. \A S \in SUBSET Blocks : IsFiniteSet(S) /\ Cardinality(S) \in Nat /\ (Cardinality(S) = 0 <=> S = {})
  BY BlocksAreFinite, FS_Subset, FS_CardinalityType, FS_EmptySet
<1>2. Allocated \in SUBSET Blocks /\ Allocated' \in SUBSET Blocks
  BY DEF Allocated
<1> QED BY <1>1, <1>2

----------------------------------------------------------------------------
(* Every step of an operation in plain terms: from which label to which,   *)
(* what one object of the heap becomes, and what the locals become.        *)

Others(b) == heap' \in [Blocks -> Objects] /\ \A x \in Blocks : x # b => heap'[x] = heap[x]
QueueBecomes(h, t, s) == /\ q # NULL /\ Others(q) /\ heap'[q].kind = "queue"
                         /\ heap'[q].head = h /\ heap'[q].tail = t /\ heap'[q].size = s
EleBecomes(p, v, n) == /\ p \in Blocks /\ heap[p].kind = "ele" /\ Others(p)
                       /\ heap'[p].kind = "ele" /\ heap'[p].value = v /\ heap'[p].next = n
Took(b, o) == /\ b \in Blocks /\ heap[b] = Unused /\ Others(b) /\ heap'[b] = o
Gave(b) == b \in Blocks /\ heap[b] # Unused /\ Others(b) /\ heap'[b] = Unused

Same == LocalsBecome(reg.new, reg.lp, reg.prv)
From(here, there) == pc = here /\ pc' = there
Back(v) == pc' = "ret" /\ reg'.rval = v /\ Same

Stuck == pc' = "exit1" /\ UNCHANGED heap /\ Same
Lost == pc' = "wild" /\ UNCHANGED heap /\ Same
Mislaid(b) == Lost /\ b \notin Allocated
LosesFree ==
    \/ pc = "free_value" /\ reg.lp = NULL /\ Mislaid(q)
    \/ pc = "free_value" /\ reg.lp # NULL /\ ~Usable(reg.lp) /\ Lost
    \/ pc = "free_value" /\ reg.lp # NULL /\ Usable(reg.lp) /\ Mislaid(heap[reg.lp].value)
    \/ pc = "free_ele" /\ Mislaid(reg.lp)
LosesOther ==
    \/ pc \in {"insert_undo", "remove_ele"} /\ Mislaid(reg.new)
    \/ pc = "it_link" /\ head # NULL /\ tail # NULL /\ ~Usable(tail) /\ Lost
    \/ pc = "remove" /\ q # NULL /\ head # NULL /\ ~Usable(head) /\ Lost
    \/ pc = "remove" /\ q # NULL /\ head # NULL /\ Usable(head) /\ Mislaid(heap[head].value)
    \/ pc = "reverse" /\ reg.lp # NULL /\ ~Usable(reg.lp) /\ Lost
Faults == From("it_link", "caught") /\ head # NULL /\ tail = NULL /\ UNCHANGED heap /\ Same

GetsQueue == /\ From("new", "ret") /\ FreeBlocks # {} /\ Took(NewBlock, NewQueue)
             /\ LocalsBecome(NewBlock, reg.lp, reg.prv)
GetsNoQueue == From("new", "ret") /\ UNCHANGED heap /\ LocalsBecome(NULL, reg.lp, reg.prv)
FreesQueue == pc = "free_value" /\ reg.lp = NULL /\ Gave(q) /\ Back(TRUE)
FreesValue == /\ From("free_value", "free_ele") /\ reg.lp # NULL /\ Usable(reg.lp)
              /\ Gave(heap[reg.lp].value) /\ LocalsBecome(reg.new, reg.lp, heap[reg.lp].next)
FreesEle == From("free_ele", "free_value") /\ Gave(reg.lp) /\ LocalsBecome(reg.new, reg.prv, reg.prv)

InsertsNot == pc = "insert" /\ UNCHANGED heap /\ Back(FALSE)
GetsEle == /\ From("insert", "insert_value") /\ q # NULL /\ FreeBlocks # {}
           /\ Took(NewBlock, [kind |-> "ele", value |-> NULL, next |-> NULL])
           /\ LocalsBecome(NewBlock, reg.lp, reg.prv)
GetsValue == /\ From("insert_value", "insert_copy") /\ FreeBlocks # {}
             /\ Took(NewBlock, [kind |-> "str", s |-> reg.s])
             /\ LocalsBecome(reg.new, NewBlock, reg.prv)
GetsNoValue == From("insert_value", "insert_undo") /\ UNCHANGED heap /\ Same
Undoes == pc = "insert_undo" /\ Gave(reg.new) /\ Back(FALSE)
CopiesHead == From("insert_copy", "ih_tail") /\ reg.fn = "ih" /\ EleBecomes(reg.new, reg.lp, head) /\ Same
CopiesTail == From("insert_copy", "it_link") /\ reg.fn = "it" /\ EleBecomes(reg.new, reg.lp, NULL) /\ Same
SetsTail == /\ From("ih_tail", "ih_head") /\ Same
            /\ QueueBecomes(head, IF tail = NULL THEN reg.new ELSE tail, size)
SetsHead == From("ih_head", "insert_size") /\ QueueBecomes(reg.new, tail, size) /\ Same
LinksFirst == From("it_link", "it_tail") /\ head = NULL /\ QueueBecomes(reg.new, tail, size) /\ Same
LinksLast == /\ From("it_link", "it_tail") /\ head # NULL /\ tail # NULL /\ Same
             /\ EleBecomes(tail, heap[tail].value, reg.new)
MovesTail == From("it_tail", "insert_size") /\ QueueBecomes(head, reg.new, size) /\ Same
Grows == pc = "insert_size" /\ QueueBecomes(head, tail, size + 1) /\ Back(TRUE)

RemovesNot == pc = "remove" /\ (q = NULL \/ head = NULL) /\ UNCHANGED heap /\ Back(FALSE)
RemovesValue == /\ From("remove", "remove_head") /\ q # NULL /\ head # NULL /\ Usable(head)
                /\ Gave(heap[head].value) /\ LocalsBecome(head, reg.lp, reg.prv)
Unlinks == /\ pc = "remove_head" /\ QueueBecomes(heap[reg.new].next, tail, size) /\ Same
           /\ pc' = IF heap[reg.new].next = NULL THEN "remove_tail" ELSE "remove_ele"
DropsTail == From("remove_tail", "remove_ele") /\ QueueBecomes(head, NULL, size) /\ Same
RemovesEle == From("remove_ele", "remove_size") /\ Gave(reg.new) /\ Same
Shrinks == pc = "remove_size" /\ QueueBecomes(head, tail, size - 1) /\ Back(TRUE)

Turns == /\ From("reverse", "reverse") /\ reg.lp # NULL /\ Usable(reg.lp)
         /\ EleBecomes(reg.lp, heap[reg.lp].value, reg.prv)
         /\ LocalsBecome(reg.new, heap[reg.lp].next, reg.lp)
SwapsTail == From("reverse", "reverse_head") /\ reg.lp = NULL /\ QueueBecomes(head, head, size) /\ Same
SwapsHead == pc = "reverse_head" /\ QueueBecomes(reg.prv, tail, size) /\ Back(TRUE)
Sizes == /\ From("size", "ret") /\ UNCHANGED heap /\ Same
         /\ reg'.cnt = IF q = NULL THEN 0 ELSE size

Effect == \/ Stuck \/ LosesFree \/ LosesOther \/ Faults
          \/ GetsQueue \/ GetsNoQueue \/ FreesQueue \/ FreesValue \/ FreesEle
          \/ InsertsNot \/ GetsEle \/ GetsValue \/ GetsNoValue \/ Undoes \/ CopiesHead \/ CopiesTail
          \/ SetsTail \/ SetsHead \/ LinksFirst \/ LinksLast \/ MovesTail \/ Grows
          \/ RemovesNot \/ RemovesValue \/ Unlinks \/ DropsTail \/ RemovesEle \/ Shrinks
          \/ Turns \/ SwapsTail \/ SwapsHead \/ Sizes

LEMMA StoresMean ==
    ASSUME Base, pc \in QueuePC
    PROVE  /\ q # NULL =>
                /\ \A v \in Ptr : Store(q, [heap[q] EXCEPT !.head = v]) => QueueBecomes(v, tail, size)
                /\ \A v \in Ptr : Store(q, [heap[q] EXCEPT !.tail = v]) => QueueBecomes(head, v, size)
                /\ \A v \in Int : Store(q, [heap[q] EXCEPT !.size = v]) => QueueBecomes(head, tail, v)
           /\ \A p, v \in Ptr : p # NULL /\ Usable(p) /\ Store(p, [heap[p] EXCEPT !.next = v])
                                => EleBecomes(p, heap[p].value, v)
           /\ \A o \in Objects : test_malloc(o) => FreeBlocks # {} /\ Took(NewBlock, o)
           /\ \A b : test_free(b) => Gave(b)
           /\ NoStore => UNCHANGED heap
<1>1. heap \in [Blocks -> Objects] /\ Types
  BY DEF Base, Types
<1>2. \A b \in Blocks : \A o \in Objects : heap' = [heap EXCEPT ![b] = o] => Others(b) /\ heap'[b] = o
  BY <1>1 DEF Others
<1>3. ASSUME q # NULL
      PROVE  /\ \A v \in Ptr : Store(q, [heap[q] EXCEPT !.head = v]) => QueueBecomes(v, tail, size)
             /\ \A v \in Ptr : Store(q, [heap[q] EXCEPT !.tail = v]) => QueueBecomes(head, v, size)
             /\ \A v \in Int : Store(q, [heap[q] EXCEPT !.size = v]) => QueueBecomes(head, tail, v)
  <2>1. q \in Blocks /\ heap[q] \in Objects /\ heap[q].kind = "queue"
    BY <1>3, QueueIsThere
  <2>2. ASSUME NEW o \in Objects, o.kind = "queue", Store(q, o) PROVE QueueBecomes(o.head, o.tail, o.size)
    <3>1. heap' = [heap EXCEPT ![q] = o]
      BY <2>2, Zenon DEF Store
    <3> QED BY <1>2, <1>3, <2>1, <2>2, <3>1, Zenon DEF QueueBecomes
  <2> DEFINE H(v) == [heap[q] EXCEPT !.head = v]
             T(v) == [heap[q] EXCEPT !.tail = v]
             S(v) == [heap[q] EXCEPT !.size = v]
  <2>3. /\ \A v \in Ptr : H(v) \in Objects /\ H(v).kind = "queue" /\ H(v).head = v /\ H(v).tail = tail /\ H(v).size = size
        /\ \A v \in Ptr : T(v) \in Objects /\ T(v).kind = "queue" /\ T(v).head = head /\ T(v).tail = v /\ T(v).size = size
        /\ \A v \in Int : S(v) \in Objects /\ S(v).kind = "queue" /\ S(v).head = head /\ S(v).tail = tail /\ S(v).size = v
    BY <2>1, PutField DEF head, tail, size
  <2> HIDE DEF H, T, S
  <2>4. /\ \A v \in Ptr : Store(q, H(v)) => QueueBecomes(v, tail, size)
        /\ \A v \in Ptr : Store(q, T(v)) => QueueBecomes(head, v, size)
        /\ \A v \in Int : Store(q, S(v)) => QueueBecomes(head, tail, v)
    <3>1. ASSUME NEW v \in Ptr, Store(q, H(v)) PROVE QueueBecomes(v, tail, size)
      <4>1. QueueBecomes(H(v).head, H(v).tail, H(v).size)
        BY <2>2, <2>3, <3>1
      <4> QED BY <2>3, <4>1
    <3>2. ASSUME NEW v \in Ptr, Store(q, T(v)) PROVE QueueBecomes(head, v, size)
      <4>1. QueueBecomes(T(v).head, T(v).tail, T(v).size)
        BY <2>2, <2>3, <3>2
      <4> QED BY <2>3, <4>1
    <3>3. ASSUME NEW v \in Int, Store(q, S(v)) PROVE QueueBecomes(head, tail, v)
      <4>1. QueueBecomes(S(v).head, S(v).tail, S(v).size)
        BY <2>2, <2>3, <3>3
      <4> QED BY <2>3, <4>1
    <3> QED BY <3>1, <3>2, <3>3
  <2> QED BY <2>4, Zenon DEF H, T, S
<1>4. ASSUME NEW p \in Ptr, NEW v \in Ptr, p # NULL, Usable(p), Store(p, [heap[p] EXCEPT !.next = v])
      PROVE  EleBecomes(p, heap[p].value, v)
  <2>1. p \in Blocks /\ heap[p] \in Objects /\ heap[p].kind = "ele"
    BY <1>1, <1>4, PointedTo DEF Usable
  <2> DEFINE o == [heap[p] EXCEPT !.next = v]
  <2>2. o \in Objects /\ o.kind = "ele" /\ o.value = heap[p].value /\ o.next = v
    BY <2>1, PutField
  <2>3. heap' = [heap EXCEPT ![p] = o]
    BY <1>4, Zenon DEF Store
  <2> HIDE DEF o
  <2> QED BY <1>2, <2>1, <2>2, <2>3, Zenon DEF EleBecomes
<1>5. ASSUME NEW o \in Objects, test_malloc(o) PROVE FreeBlocks # {} /\ Took(NewBlock, o)
  <2>1. NewBlock \in Blocks /\ heap[NewBlock] = Unused
    BY <1>5, NewBlockIsFree DEF test_malloc
  <2> QED BY <1>2, <1>5, <2>1, Zenon DEF Took, test_malloc
<1>6. ASSUME NEW b, test_free(b) PROVE Gave(b)
  <2>1. b \in Blocks /\ heap[b] # Unused
    BY <1>6 DEF test_free, Allocated
  <2>2. Unused \in Objects
    BY DEF Objects
  <2> QED BY <1>2, <1>6, <2>1, <2>2, Zenon DEF Gave, test_free
<1> QED BY <1>3, <1>4, <1>5, <1>6, Zenon DEF NoStore

LEMMA QueueEffect == ASSUME Base, QueueStep PROVE Effect
<1> USE DEF At, Goto, Rest, Fatal, Wild, Allocate, Release, Return, From, Back, FreeWild, Stuck, Lost, Mislaid
<1>0. pc \in QueuePC /\ Types /\ Locals /\ reg \in Registers
  BY QueueFrameStep DEF QueueFrame, Base, Types
<1>1. reg.new \in Ptr /\ reg.lp \in Ptr /\ reg.prv \in Ptr /\ NULL \in Ptr
  BY <1>0, NullIsNoBlock DEF Registers
<1>2. q # NULL => /\ q \in Allocated /\ heap[q] \in Objects /\ heap[q].kind = "queue"
                  /\ head \in Ptr /\ tail \in Ptr /\ size \in Int
  BY <1>0, QueueIsThere, ObjectKinds DEF Allocated, Unused
<1>3. /\ UNCHANGED reg => Same
      /\ \A v \in BOOLEAN : pc' = "ret" /\ reg' = [reg EXCEPT !.rval = v] => Back(v)
  <2>1. \A v \in BOOLEAN : Return(v) => Same /\ reg'.rval = v
    BY <1>0, LocalsMove DEF Same
  <2>2. UNCHANGED reg => Same
    BY <1>0, LocalsMove DEF Same
  <2> QED BY <2>1, <2>2
<1>4. /\ \A v \in Ptr : reg' = [reg EXCEPT !.new = v] => LocalsBecome(v, reg.lp, reg.prv)
      /\ \A v \in Ptr : reg' = [reg EXCEPT !.lp = v] => LocalsBecome(reg.new, v, reg.prv)
      /\ \A v \in Ptr : reg' = [reg EXCEPT !.prv = v] => LocalsBecome(reg.new, reg.lp, v)
  BY <1>0, LocalsMove
<1>5. FreeBlocks # {} => NewBlock \in Ptr
  BY NewBlockIsFree, NullIsNoBlock
<1>6. \A b : test_free(b) => Gave(b)
  BY <1>0, StoresMean
<1>7. \A o \in Objects : test_malloc(o) => FreeBlocks # {} /\ Took(NewBlock, o)
  BY <1>0, StoresMean
<1>8. NoStore => UNCHANGED heap
  BY DEF NoStore
<1>9. q # NULL => /\ \A v \in Ptr : Store(q, [heap[q] EXCEPT !.head = v]) => QueueBecomes(v, tail, size)
                  /\ \A v \in Ptr : Store(q, [heap[q] EXCEPT !.tail = v]) => QueueBecomes(head, v, size)
                  /\ \A v \in Int : Store(q, [heap[q] EXCEPT !.size = v]) => QueueBecomes(head, tail, v)
  BY <1>0, StoresMean
<1>10. \A p, v \in Ptr : p # NULL /\ Usable(p) /\ Store(p, [heap[p] EXCEPT !.next = v])
                         => EleBecomes(p, heap[p].value, v)
  BY <1>0, StoresMean
<1>11. pc \in QueuePart => q # NULL
  BY <1>0 DEF Locals
<1>12. NewQueue \in Objects /\ [kind |-> "ele", value |-> NULL, next |-> NULL] \in Objects
  BY <1>1, NewObjects
<1> USE DEF QueuePart
<1>13. CASE q_new
  <2>1. GetsQueue \/ GetsNoQueue \/ Stuck
    BY <1>13, <1>1, <1>3, <1>4, <1>5, <1>7, <1>8, <1>12 DEF q_new, NewQueue, GetsQueue, GetsNoQueue
  <2> QED BY <2>1, Zenon DEF Effect
<1>14. CASE q_free_value
  <2>1. reg.lp # NULL /\ Usable(reg.lp) => heap[reg.lp].next \in Ptr
    BY <1>0, <1>1, PointedTo
  <2>2. FreesQueue \/ FreesValue \/ LosesFree \/ Stuck
    BY <1>14, <1>3, <1>4, <1>6, <1>8, <2>1 DEF q_free_value, FreesQueue, FreesValue, LosesFree
  <2> QED BY <2>2, Zenon DEF Effect
<1>15. CASE q_free_ele
  <2>1. FreesEle \/ LosesFree \/ Stuck
    BY <1>15, <1>1, <1>3, <1>4, <1>6, <1>8 DEF q_free_ele, FreesEle, LosesFree
  <2> QED BY <2>1, Zenon DEF Effect
<1>16. CASE q_insert_ele
  <2>1. InsertsNot \/ GetsEle \/ Stuck
    BY <1>16, <1>3, <1>4, <1>5, <1>7, <1>8, <1>12 DEF q_insert_ele, InsertsNot, GetsEle
  <2> QED BY <2>1, Zenon DEF Effect
<1>17. CASE q_insert_value
  <2>1. reg.s \in Strings
    BY <1>17 DEF q_insert_value, Base, Flow, InsertPC
  <2>2. [kind |-> "str", s |-> reg.s] \in Objects
    BY <2>1, <1>1, NewObjects
  <2>3. GetsValue \/ GetsNoValue \/ Stuck
    BY <1>17, <1>3, <1>4, <1>5, <1>7, <1>8, <2>2 DEF q_insert_value, GetsValue, GetsNoValue
  <2> QED BY <2>3, Zenon DEF Effect
<1>18. CASE q_insert_undo
  <2>1. Undoes \/ LosesOther \/ Stuck
    BY <1>18, <1>3, <1>6, <1>8 DEF q_insert_undo, Undoes, LosesOther
  <2> QED BY <2>1, Zenon DEF Effect
<1>19. CASE q_insert_copy
  <2> DEFINE n == IF reg.fn = "ih" THEN head ELSE NULL
             o == [kind |-> "ele", value |-> reg.lp, next |-> n]
  <2>1. /\ reg.new \in Blocks /\ heap[reg.new].kind = "ele" /\ n \in Ptr
        /\ reg.fn \in {"ih", "it"}
    BY <1>19, <1>0, <1>1, <1>2, <1>11 DEF q_insert_copy, Locals, Ptr, Base, Flow, InsertPC
  <2>2. o \in Objects /\ o.kind = "ele" /\ o.value = reg.lp /\ o.next = n
    BY <2>1, <1>1, NewObjects
  <2>3. heap' = [heap EXCEPT ![reg.new] = o]
    BY <1>19, Zenon DEF q_insert_copy, Store
  <2> HIDE DEF o
  <2>4. EleBecomes(reg.new, reg.lp, n)
    BY <1>0, <2>1, <2>2, <2>3 DEF EleBecomes, Others, Types
  <2>5. CopiesHead \/ CopiesTail
    BY <1>19, <1>3, <2>1, <2>4 DEF q_insert_copy, CopiesHead, CopiesTail
  <2> QED BY <2>5, Zenon DEF Effect
<1>20. CASE q_insert_head_tail
  <2>1. SetsTail
    BY <1>20, <1>1, <1>2, <1>3, <1>9, <1>11 DEF q_insert_head_tail, SetsTail, tail
  <2> QED BY <2>1, Zenon DEF Effect
<1>21. CASE q_insert_head_head
  <2>1. SetsHead
    BY <1>21, <1>1, <1>3, <1>9, <1>11 DEF q_insert_head_head, SetsHead
  <2> QED BY <2>1, Zenon DEF Effect
<1>22. CASE q_insert_tail_link
  <2>1. LinksFirst \/ LinksLast \/ LosesOther \/ Faults
    BY <1>22, <1>1, <1>2, <1>3, <1>8, <1>9, <1>10, <1>11
       DEF q_insert_tail_link, Segv, LinksFirst, LinksLast, LosesOther, Faults
  <2> QED BY <2>1, Zenon DEF Effect
<1>23. CASE q_insert_tail_tail
  <2>1. MovesTail
    BY <1>23, <1>1, <1>3, <1>9, <1>11 DEF q_insert_tail_tail, MovesTail
  <2> QED BY <2>1, Zenon DEF Effect
<1>24. CASE q_insert_size
  <2>1. q # NULL /\ size + 1 \in Int
    BY <1>24, <1>2, <1>11 DEF q_insert_size
  <2>2. \A n \in Int : n = size + 1 => (Store(q, [heap[q] EXCEPT !.size = n]) => QueueBecomes(head, tail, n))
    BY <1>9, <2>1
  <2>3. Store(q, [heap[q] EXCEPT !.size = size + 1]) /\ pc = "insert_size" /\ Return(TRUE)
    BY <1>24, Zenon DEF q_insert_size, size
  <2>4. QueueBecomes(head, tail, size + 1)
    BY <2>1, <2>2, <2>3, Zenon
  <2>5. Grows
    BY <1>3, <2>3, <2>4 DEF Grows
  <2> QED BY <2>5, Zenon DEF Effect
<1>25. CASE q_remove_value
  <2>1. RemovesNot \/ RemovesValue \/ LosesOther \/ Stuck
    BY <1>25, <1>3, <1>6, <1>8, RemoveValueMeans DEF RemovesNot, RemovesValue, LosesOther
  <2> QED BY <2>1, Zenon DEF Effect
<1>26. CASE q_remove_head
  <2>1. heap[reg.new].next \in Ptr
    BY <1>26, <1>0, <1>1, PointedTo DEF q_remove_head, Locals, Usable
  <2>2. Unlinks
    BY <1>26, <2>1, <1>3, <1>9, <1>11 DEF q_remove_head, Unlinks
  <2> QED BY <2>2, Zenon DEF Effect
<1>27. CASE q_remove_tail
  <2>1. DropsTail
    BY <1>27, <1>1, <1>3, <1>9, <1>11 DEF q_remove_tail, DropsTail
  <2> QED BY <2>1, Zenon DEF Effect
<1>28. CASE q_remove_ele
  <2>1. RemovesEle \/ LosesOther \/ Stuck
    BY <1>28, <1>3, <1>6, <1>8 DEF q_remove_ele, RemovesEle, LosesOther
  <2> QED BY <2>1, Zenon DEF Effect
<1>29. CASE q_remove_size
  <2>1. q # NULL /\ size - 1 \in Int
    BY <1>29, <1>2, <1>11 DEF q_remove_size
  <2>2. \A n \in Int : n = size - 1 => (Store(q, [heap[q] EXCEPT !.size = n]) => QueueBecomes(head, tail, n))
    BY <1>9, <2>1
  <2>3. Store(q, [heap[q] EXCEPT !.size = size - 1]) /\ pc = "remove_size" /\ Return(TRUE)
    BY <1>29, Zenon DEF q_remove_size, size
  <2>4. QueueBecomes(head, tail, size - 1)
    BY <2>1, <2>2, <2>3, Zenon
  <2>5. Shrinks
    BY <1>3, <2>3, <2>4 DEF Shrinks
  <2> QED BY <2>5, Zenon DEF Effect
<1>30. CASE q_reverse_wild
  <2>1. LosesOther
    BY <1>30, <1>3, <1>8 DEF q_reverse_wild, LosesOther
  <2> QED BY <2>1, Zenon DEF Effect
<1>31. CASE q_reverse_ele
  <2>1. Turns
    BY <1>31, <1>10, <1>1, ReverseEleMeans DEF Turns
  <2> QED BY <2>1, Zenon DEF Effect
<1>32. CASE q_reverse_tail
  <2>1. SwapsTail
    BY <1>32, <1>2, <1>3, <1>9, <1>11 DEF q_reverse_tail, SwapsTail
  <2> QED BY <2>1, Zenon DEF Effect
<1>33. CASE q_reverse_head
  <2>1. SwapsHead
    BY <1>33, <1>1, <1>3, <1>9, <1>11 DEF q_reverse_head, SwapsHead
  <2> QED BY <2>1, Zenon DEF Effect
<1>34. CASE q_size
  <2>1. q # NULL => size \in Int
    BY <1>2
  <2>2. \A v \in Int : reg' = [reg EXCEPT !.cnt = v] => Same /\ reg'.cnt = v
    BY <1>0, LocalsMove DEF Same, Registers
  <2>3. Sizes
    BY <1>34, <1>8, <2>1, <2>2 DEF q_size, Sizes
  <2> QED BY <2>3, Zenon DEF Effect
<1> QED BY <1>13, <1>14, <1>15, <1>16, <1>17, <1>18, <1>19, <1>20, <1>21, <1>22, <1>23, <1>24, <1>25,
           <1>26, <1>27, <1>28, <1>29, <1>30, <1>31, <1>32, <1>33, <1>34, Zenon DEF QueueStep

(* The frame of an operation's step, and its effect.                       *)
LEMMA QueueOpStep ==
    ASSUME Base, QueueOp
    PROVE  /\ Effect /\ QueueFrame /\ HeapMove
           /\ pc \in QueuePC /\ pc' \in QueuePC \cup {"ret", "caught", "exit1", "wild"} /\ Settle
           /\ UNCHANGED <<q, cuts, segv, quit_flag, err_cnt, qcnt, files, accounted, verblevel>>
           /\ CallKept /\ reg'.fn = reg.fn /\ reg'.sub = reg.sub /\ reg'.s = reg.s
           /\ reg'.ok = reg.ok /\ reg'.val = reg.val
           /\ ~Freed
BY QueueFrameStep, QueueHeapStep, QueueFlowStep, QueueEffect
   DEF QueueOp, console, history, tester, QueueFrame, CallKept, Freed, Base, Flow, QueuePC, Ends

LEMMA QueueTypesStep == ASSUME Base, QueueOp PROVE Types'
<1>1. heap' \in [Blocks -> Objects]
  <2> USE DEF Base, Types, Others, QueueBecomes, EleBecomes, Took, Gave, Lost, Mislaid
  <2>0. Effect
    BY QueueOpStep
  <2>1. CASE Stuck \/ LosesFree \/ LosesOther \/ Faults \/ GetsNoQueue \/ InsertsNot \/ GetsNoValue
             \/ RemovesNot \/ Sizes
    BY <2>1 DEF Stuck, LosesFree, LosesOther, Faults, GetsNoQueue, InsertsNot, GetsNoValue, RemovesNot, Sizes
  <2>2. CASE GetsQueue \/ FreesQueue \/ FreesValue \/ FreesEle \/ GetsEle \/ GetsValue \/ Undoes
             \/ RemovesValue \/ RemovesEle
    BY <2>2 DEF GetsQueue, FreesQueue, FreesValue, FreesEle, GetsEle, GetsValue, Undoes, RemovesValue, RemovesEle
  <2>3. CASE CopiesHead \/ CopiesTail \/ LinksLast \/ Turns
    BY <2>3 DEF CopiesHead, CopiesTail, LinksLast, Turns
  <2>4. CASE \/ SetsTail \/ SetsHead \/ LinksFirst \/ MovesTail \/ Grows
             \/ Unlinks \/ DropsTail \/ Shrinks \/ SwapsTail \/ SwapsHead
    BY <2>4 DEF SetsTail, SetsHead, LinksFirst, MovesTail, Grows, Unlinks, DropsTail, Shrinks,
                SwapsTail, SwapsHead
  <2> QED BY <2>0, <2>1, <2>2, <2>3, <2>4, Zenon DEF Effect
<1>2. allocated_count' \in Int /\ adj' \in {-1, 0, 1}
  BY QueueOpStep DEF Base, Types, HeapMove, Settle, NoStore, StoresTo, Store, test_malloc, test_free
<1>3. /\ reg' \in Registers /\ UNCHANGED <<q, fail_probability, modes>>
      /\ error_occurred' \in BOOLEAN /\ jmp_ready' \in BOOLEAN /\ time_limited' \in BOOLEAN
      /\ pc' \in PCs
  BY QueueOpStep DEF Base, Types, QueueFrame, CallKept, exceptions, PCs, QueuePC, Ends
<1> QED BY <1>1, <1>2, <1>3 DEF Types, Base, QueueOp, tester, console, history, modes

LEMMA QueueRegionStep == ASSUME Base, QueueOp PROVE Region'
<1>0. Effect /\ q' = q /\ reg'.fn = reg.fn /\ pc \in QueuePC /\ ~Freed
      /\ pc' \in QueuePC \cup {"ret", "caught", "exit1", "wild"}
  BY QueueOpStep
<1> SUFFICES ASSUME q # NULL, ~Freed'
             PROVE  heap'[q].kind = "queue" /\ \E L \in SUBSET (Blocks \ {q}) : Within(L)'
  BY <1>0 DEF Region
<1>1. PICK L \in SUBSET (Blocks \ {q}) : Within(L)
  BY <1>0 DEF Base, Region
<1>2. q \in Blocks /\ heap[q].kind = "queue"
  BY <1>0, QueueIsThere
<1>3. /\ heap[q].head \in L \cup {NULL} /\ heap[q].tail \in L \cup {NULL}
      /\ reg.new \in L \cup {NULL} /\ reg.lp \in L \cup {NULL} /\ reg.prv \in L \cup {NULL}
  BY <1>0, <1>1 DEF Within, head, tail
<1>4. \A e \in L : heap[e].kind = "ele" => heap[e].value \in L \cup {NULL} /\ heap[e].next \in L \cup {NULL}
  BY <1>1 DEF Within
<1>5. \A M \in SUBSET (Blocks \ {q}) :
        (/\ heap'[q].kind = "queue"
         /\ heap'[q].head \in M \cup {NULL} /\ heap'[q].tail \in M \cup {NULL}
         /\ reg'.new \in M \cup {NULL} /\ reg'.lp \in M \cup {NULL} /\ reg'.prv \in M \cup {NULL}
         /\ \A e \in M : heap'[e].kind = "ele" => heap'[e].value \in M \cup {NULL} /\ heap'[e].next \in M \cup {NULL})
        => heap'[q].kind = "queue" /\ \E N \in SUBSET (Blocks \ {q}) : Within(N)'
  BY <1>0 DEF Within, head, tail
<1>6. NULL \notin Blocks /\ Unused.kind = "unused"
  BY NullIsNoBlock DEF Unused
<1> USE DEF From, Back, Same, LocalsBecome, Others, QueueBecomes, EleBecomes, Took, Gave, head, tail, Usable
<1>7. CASE Stuck \/ LosesFree \/ LosesOther \/ Faults
  BY <1>0, <1>1, <1>2, <1>3, <1>4, <1>5, <1>6, <1>7 DEF Stuck, LosesFree, LosesOther, Faults, Lost, Mislaid
<1>8. CASE GetsNoQueue \/ InsertsNot \/ GetsNoValue \/ RemovesNot \/ Sizes
  BY <1>0, <1>1, <1>2, <1>3, <1>4, <1>5, <1>6, <1>8 DEF GetsNoQueue, InsertsNot, GetsNoValue, RemovesNot, Sizes
<1>9. CASE GetsQueue
  BY <1>0, <1>9 DEF GetsQueue, Base, Locals
<1>10. CASE FreesQueue
  BY <1>0, <1>10 DEF FreesQueue, Freed, Base, Flow
<1>11. CASE FreesValue
  BY <1>0, <1>1, <1>2, <1>3, <1>4, <1>5, <1>6, <1>11 DEF FreesValue
<1>12. CASE FreesEle
  BY <1>0, <1>1, <1>2, <1>3, <1>4, <1>5, <1>6, <1>12 DEF FreesEle
<1>13. CASE GetsEle
  <2>1. NewBlock # q /\ heap'[NewBlock].kind = "ele" /\ heap'[NewBlock].value = NULL /\ heap'[NewBlock].next = NULL
    BY <1>2, <1>6, <1>13 DEF GetsEle
  <2> DEFINE M == L \cup {NewBlock}
  <2>2. M \in SUBSET (Blocks \ {q})
    BY <2>1, <1>13 DEF GetsEle
  <2>3. \A e \in M : heap'[e].kind = "ele" => heap'[e].value \in M \cup {NULL} /\ heap'[e].next \in M \cup {NULL}
    BY <1>4, <2>1, <1>13 DEF GetsEle
  <2>4. /\ heap'[q].kind = "queue"
        /\ heap'[q].head \in M \cup {NULL} /\ heap'[q].tail \in M \cup {NULL}
        /\ reg'.new \in M \cup {NULL} /\ reg'.lp \in M \cup {NULL} /\ reg'.prv \in M \cup {NULL}
    BY <1>2, <1>3, <2>1, <1>13 DEF GetsEle
  <2> HIDE DEF M
  <2> QED BY <1>5, <2>2, <2>3, <2>4
<1>14. CASE GetsValue
  <2>1. NewBlock # q /\ heap'[NewBlock].kind = "str"
    BY <1>2, <1>6, <1>14 DEF GetsValue
  <2> DEFINE M == L \cup {NewBlock}
  <2>2. M \in SUBSET (Blocks \ {q})
    BY <2>1, <1>14 DEF GetsValue
  <2>3. \A e \in M : heap'[e].kind = "ele" => heap'[e].value \in M \cup {NULL} /\ heap'[e].next \in M \cup {NULL}
    BY <1>4, <2>1, <1>14 DEF GetsValue
  <2>4. /\ heap'[q].kind = "queue"
        /\ heap'[q].head \in M \cup {NULL} /\ heap'[q].tail \in M \cup {NULL}
        /\ reg'.new \in M \cup {NULL} /\ reg'.lp \in M \cup {NULL} /\ reg'.prv \in M \cup {NULL}
    BY <1>2, <1>3, <2>1, <1>14 DEF GetsValue
  <2> HIDE DEF M
  <2> QED BY <1>5, <2>2, <2>3, <2>4
<1>15. CASE Undoes
  BY <1>0, <1>1, <1>2, <1>3, <1>4, <1>5, <1>6, <1>15 DEF Undoes
<1>16. CASE CopiesHead
  BY <1>0, <1>1, <1>2, <1>3, <1>4, <1>5, <1>6, <1>16 DEF CopiesHead
<1>17. CASE CopiesTail
  BY <1>0, <1>1, <1>2, <1>3, <1>4, <1>5, <1>6, <1>17 DEF CopiesTail
<1>18. CASE SetsTail
  BY <1>0, <1>1, <1>2, <1>3, <1>4, <1>5, <1>6, <1>18 DEF SetsTail
<1>19. CASE SetsHead
  BY <1>0, <1>1, <1>2, <1>3, <1>4, <1>5, <1>6, <1>19 DEF SetsHead
<1>20. CASE LinksFirst
  BY <1>0, <1>1, <1>2, <1>3, <1>4, <1>5, <1>6, <1>20 DEF LinksFirst
<1>21. CASE LinksLast
  BY <1>0, <1>1, <1>2, <1>3, <1>4, <1>5, <1>6, <1>21 DEF LinksLast
<1>22. CASE MovesTail
  BY <1>0, <1>1, <1>2, <1>3, <1>4, <1>5, <1>6, <1>22 DEF MovesTail
<1>23. CASE Grows
  BY <1>0, <1>1, <1>2, <1>3, <1>4, <1>5, <1>6, <1>23 DEF Grows
<1>24. CASE RemovesValue
  BY <1>0, <1>1, <1>2, <1>3, <1>4, <1>5, <1>6, <1>24 DEF RemovesValue
<1>25. CASE Unlinks
  <2>1. reg.new \in L /\ heap[reg.new].kind = "ele"
    BY <1>3, <1>25 DEF Unlinks, Base, Locals
  <2> QED BY <1>0, <1>1, <1>2, <1>3, <1>4, <1>5, <1>6, <2>1, <1>25 DEF Unlinks
<1>26. CASE DropsTail
  BY <1>0, <1>1, <1>2, <1>3, <1>4, <1>5, <1>6, <1>26 DEF DropsTail
<1>27. CASE RemovesEle
  BY <1>0, <1>1, <1>2, <1>3, <1>4, <1>5, <1>6, <1>27 DEF RemovesEle
<1>28. CASE Shrinks
  BY <1>0, <1>1, <1>2, <1>3, <1>4, <1>5, <1>6, <1>28 DEF Shrinks
<1>29. CASE Turns
  BY <1>0, <1>1, <1>2, <1>3, <1>4, <1>5, <1>6, <1>29 DEF Turns
<1>30. CASE SwapsTail
  BY <1>0, <1>1, <1>2, <1>3, <1>4, <1>5, <1>6, <1>30 DEF SwapsTail
<1>31. CASE SwapsHead
  BY <1>0, <1>1, <1>2, <1>3, <1>4, <1>5, <1>6, <1>31 DEF SwapsHead
<1> QED BY <1>0, <1>7, <1>8, <1>9, <1>10, <1>11, <1>12, <1>13, <1>14, <1>15, <1>16, <1>17, <1>18, <1>19,
           <1>20, <1>21, <1>22, <1>23, <1>24, <1>25, <1>26, <1>27, <1>28, <1>29, <1>30, <1>31, Zenon DEF Effect

(* The queue object itself changes only in the steps that store to it.     *)
StoresToQueue == \/ SetsTail \/ SetsHead \/ LinksFirst \/ MovesTail \/ Grows
                 \/ Unlinks \/ DropsTail \/ Shrinks \/ SwapsTail \/ SwapsHead

LEMMA QueueObjectKept ==
    ASSUME Base, QueueOp, q # NULL, ~Freed'
    PROVE  heap'[q] = heap[q] \/ StoresToQueue
<1>0. Effect /\ q' = q /\ reg'.fn = reg.fn /\ pc \in QueuePC /\ ~Freed
  BY QueueOpStep
<1>1. PICK L \in SUBSET (Blocks \ {q}) : Within(L)
  BY <1>0 DEF Base, Region
<1>2. q \in Blocks /\ heap[q].kind = "queue"
  BY <1>0, QueueIsThere
<1>3. /\ head \in L \cup {NULL}
      /\ reg.new \in L \cup {NULL} /\ reg.lp \in L \cup {NULL}
      /\ \A e \in L : heap[e].kind = "ele" => heap[e].value \in L \cup {NULL}
  BY <1>0, <1>1 DEF Within
<1>4. NULL \notin Blocks /\ NULL \notin L /\ q \notin L /\ Unused.kind = "unused"
  BY NullIsNoBlock, <1>1 DEF Unused
<1> USE DEF From, Back, Others, EleBecomes, Took, Gave, Usable
<1>5. CASE Stuck \/ LosesFree \/ LosesOther \/ Faults
  BY <1>0, <1>2, <1>3, <1>4, <1>5 DEF Stuck, LosesFree, LosesOther, Faults, Lost, Mislaid
<1>6. CASE GetsNoQueue \/ InsertsNot \/ GetsNoValue \/ RemovesNot \/ Sizes
  BY <1>0, <1>2, <1>3, <1>4, <1>6 DEF GetsNoQueue, InsertsNot, GetsNoValue, RemovesNot, Sizes
<1>7. CASE SetsTail \/ SetsHead \/ LinksFirst \/ MovesTail \/ Grows \/ Unlinks \/ DropsTail \/ Shrinks \/ SwapsTail \/ SwapsHead
  BY <1>7 DEF StoresToQueue
<1>8. CASE CopiesHead \/ CopiesTail \/ LinksLast \/ Turns
  BY <1>0, <1>2, <1>3, <1>4, <1>8 DEF CopiesHead, CopiesTail, LinksLast, Turns
<1>9. CASE GetsEle \/ GetsValue
  BY <1>0, <1>2, <1>3, <1>4, <1>9 DEF GetsEle, GetsValue
<1>10. CASE GetsQueue
  BY <1>0, <1>10 DEF GetsQueue, Base, Locals
<1>11. CASE FreesQueue
  BY <1>0, <1>11 DEF FreesQueue, Freed, Base, Flow
<1>12. CASE FreesValue
  BY <1>0, <1>2, <1>3, <1>4, <1>12 DEF FreesValue
<1>13. CASE FreesEle
  BY <1>0, <1>2, <1>3, <1>4, <1>13 DEF FreesEle
<1>14. CASE Undoes
  BY <1>0, <1>2, <1>3, <1>4, <1>14 DEF Undoes
<1>15. CASE RemovesValue
  BY <1>0, <1>2, <1>3, <1>4, <1>15 DEF RemovesValue
<1>16. CASE RemovesEle
  BY <1>0, <1>2, <1>3, <1>4, <1>16 DEF RemovesEle
<1> QED BY <1>0, <1>5, <1>6, <1>7, <1>8, <1>9, <1>10, <1>11, <1>12, <1>13, <1>14, <1>15, <1>16, Zenon DEF Effect

LEMMA QueueLocalsStep == ASSUME Base, QueueOp PROVE Locals'
<1>0. /\ Effect /\ q' = q /\ reg'.fn = reg.fn /\ pc \in QueuePC /\ ~Freed
      /\ pc' \in QueuePC \cup {"ret", "caught", "exit1", "wild"}
  BY QueueOpStep
<1>1. Locals /\ Flow
  BY DEF Base
<1>2. NULL \notin Blocks /\ Unused.kind = "unused"
  BY NullIsNoBlock DEF Unused
<1>3. /\ reg.new \in Blocks \cup {NULL}
      /\ Usable(reg.lp) /\ reg.lp # NULL => reg.lp \in Blocks
  BY DEF Base, Types, Registers, Ptr
<1>4. q # NULL /\ q \in Blocks => heap[q].kind = "queue"
  BY <1>0, QueueIsThere
<1>5. q # NULL => q \in Blocks
  BY DEF Base, Types, Ptr
<1> USE DEF From, Back, Same, LocalsBecome, Others, QueueBecomes, EleBecomes, Took, Gave, head, tail, Usable,
            Locals, Flow, QueuePart, QueuePC, InsertPC, RemovePC
<1>6. CASE Stuck \/ LosesFree \/ LosesOther \/ Faults
  BY <1>0, <1>1, <1>2, <1>3, <1>4, <1>5, <1>6 DEF Stuck, LosesFree, LosesOther, Faults, Lost, Mislaid
<1>7. CASE GetsNoQueue \/ InsertsNot \/ GetsNoValue \/ RemovesNot \/ Sizes
  BY <1>0, <1>1, <1>2, <1>3, <1>4, <1>5, <1>7 DEF GetsNoQueue, InsertsNot, GetsNoValue, RemovesNot, Sizes
<1>8. CASE GetsQueue
  <2>1. NewQueue.kind = "queue"
    BY DEF NewQueue
  <2> QED BY <1>0, <1>1, <1>2, <1>3, <1>4, <1>5, <2>1, <1>8 DEF GetsQueue
<1>9. CASE FreesQueue
  BY <1>0, <1>1, <1>2, <1>3, <1>4, <1>5, <1>9 DEF FreesQueue
<1>10. CASE FreesValue
  BY <1>0, <1>1, <1>2, <1>3, <1>4, <1>5, <1>10 DEF FreesValue
<1>11. CASE FreesEle
  BY <1>0, <1>1, <1>2, <1>3, <1>4, <1>5, <1>11 DEF FreesEle
<1>12. CASE GetsEle
  BY <1>0, <1>1, <1>2, <1>3, <1>4, <1>5, <1>12 DEF GetsEle
<1>13. CASE GetsValue
  BY <1>0, <1>1, <1>2, <1>3, <1>4, <1>5, <1>13 DEF GetsValue
<1>14. CASE Undoes
  BY <1>0, <1>1, <1>2, <1>3, <1>4, <1>5, <1>14 DEF Undoes
<1>15. CASE CopiesHead
  BY <1>0, <1>1, <1>2, <1>3, <1>4, <1>5, <1>15 DEF CopiesHead
<1>16. CASE CopiesTail
  BY <1>0, <1>1, <1>2, <1>3, <1>4, <1>5, <1>16 DEF CopiesTail
<1>17. CASE SetsTail
  BY <1>0, <1>1, <1>2, <1>3, <1>4, <1>5, <1>17 DEF SetsTail
<1>18. CASE SetsHead
  BY <1>0, <1>1, <1>2, <1>3, <1>4, <1>5, <1>18 DEF SetsHead
<1>19. CASE LinksFirst
  BY <1>0, <1>1, <1>2, <1>3, <1>4, <1>5, <1>19 DEF LinksFirst
<1>20. CASE LinksLast
  BY <1>0, <1>1, <1>2, <1>3, <1>4, <1>5, <1>20 DEF LinksLast
<1>21. CASE MovesTail
  BY <1>0, <1>1, <1>2, <1>3, <1>4, <1>5, <1>21 DEF MovesTail
<1>22. CASE Grows
  BY <1>0, <1>1, <1>2, <1>3, <1>4, <1>5, <1>22 DEF Grows
<1>23. CASE RemovesValue
  <2>1. head \in Blocks /\ heap[head].kind = "ele" /\ heap[head].value # head
    BY <1>0, <1>1, QueueIsThere, <1>23 DEF RemovesValue, Ptr
  <2>2. heap'[head].kind = "ele"
    BY <2>1, <1>23 DEF RemovesValue
  <2> HIDE DEF head
  <2> QED BY <1>0, <1>1, <1>2, <1>3, <1>4, <1>5, <2>1, <2>2, <1>23 DEF RemovesValue
<1>24. CASE Unlinks
  BY <1>0, <1>1, <1>2, <1>3, <1>4, <1>5, <1>24 DEF Unlinks
<1>25. CASE DropsTail
  BY <1>0, <1>1, <1>2, <1>3, <1>4, <1>5, <1>25 DEF DropsTail
<1>26. CASE RemovesEle
  BY <1>0, <1>1, <1>2, <1>3, <1>4, <1>5, <1>26 DEF RemovesEle
<1>27. CASE Shrinks
  BY <1>0, <1>1, <1>2, <1>3, <1>4, <1>5, <1>27 DEF Shrinks
<1>28. CASE Turns
  BY <1>0, <1>1, <1>2, <1>3, <1>4, <1>5, <1>28 DEF Turns
<1>29. CASE SwapsTail
  BY <1>0, <1>1, <1>2, <1>3, <1>4, <1>5, <1>29 DEF SwapsTail
<1>30. CASE SwapsHead
  BY <1>0, <1>1, <1>2, <1>3, <1>4, <1>5, <1>30 DEF SwapsHead
<1> QED BY <1>0, <1>6, <1>7, <1>8, <1>9, <1>10, <1>11, <1>12, <1>13, <1>14, <1>15, <1>16, <1>17, <1>18,
           <1>19, <1>20, <1>21, <1>22, <1>23, <1>24, <1>25, <1>26, <1>27, <1>28, <1>29, <1>30, Zenon DEF Effect

LEMMA QueueTailedStep == ASSUME Base, QueueOp PROVE Tailed'
<1>0. /\ Effect /\ q' = q /\ reg'.fn = reg.fn /\ pc \in QueuePC /\ ~Freed /\ segv' = segv
      /\ pc' \in QueuePC \cup {"ret", "caught", "exit1", "wild"} /\ CutFns' = CutFns
  BY QueueOpStep DEF CutFns
<1> SUFFICES ASSUME "it" \notin CutFns PROVE Tailed'
  BY <1>0 DEF Tailed
<1>1. Tailed /\ Locals
  BY DEF Base
<1>2. ~segv' /\ (pc' # "caught" \/ Faults)
  <2> USE DEF From, Back, Stuck, Lost, Mislaid, LosesFree, LosesOther
  <2>1. ~segv'
    BY <1>0, <1>1 DEF Tailed
  <2>2. pc' = "caught" => Faults
    BY <1>0 DEF Effect, GetsQueue, GetsNoQueue, FreesQueue, FreesValue, FreesEle, InsertsNot, GetsEle, GetsValue,
                GetsNoValue, Undoes, CopiesHead, CopiesTail, SetsTail, SetsHead, LinksFirst, LinksLast, MovesTail,
                Grows, RemovesNot, RemovesValue, Unlinks, DropsTail, RemovesEle, Shrinks, Turns, SwapsTail,
                SwapsHead, Sizes
  <2> QED BY <2>1, <2>2
<1>3. ~Faults
  BY <1>0, <1>1, <1>2 DEF Tailed, Faults, From, Locals, QueuePart
<1> SUFFICES ASSUME q # NULL, ~Freed'
             PROVE /\ pc' # "it_tail" /\ head' # NULL => tail' # NULL
                   /\ pc' = "remove_head" => head' # NULL
                   /\ pc' = "remove_tail" => head' = NULL
                   /\ pc' = "ih_head" => tail' # NULL
                   /\ pc' = "reverse" /\ (reg'.lp # NULL \/ reg'.prv # NULL) => head' # NULL
                   /\ pc' = "reverse_head" /\ reg'.prv # NULL => tail' # NULL
  BY <1>0, <1>2, <1>3, Zenon DEF Tailed
<1>4. /\ pc # "it_tail" /\ head # NULL => tail # NULL
      /\ pc = "remove_head" => head # NULL
      /\ pc = "remove_tail" => head = NULL
      /\ pc = "ih_head" => tail # NULL
      /\ pc = "reverse" /\ (reg.lp # NULL \/ reg.prv # NULL) => head # NULL
      /\ pc = "reverse_head" /\ reg.prv # NULL => tail # NULL
  BY <1>0, <1>1 DEF Tailed
<1>5. CASE StoresToQueue
  <2> USE DEF From, Back, Same, LocalsBecome, QueueBecomes, head, tail
  <2>1. reg.new # NULL \/ pc \notin {"ih_tail", "it_tail"}
    BY <1>1 DEF Locals
  <2>2. CASE SetsTail \/ SetsHead \/ LinksFirst \/ MovesTail \/ Grows
    BY <1>0, <1>4, <2>1, <2>2 DEF SetsTail, SetsHead, LinksFirst, MovesTail, Grows
  <2>3. CASE Unlinks \/ DropsTail \/ Shrinks
    BY <1>0, <1>4, <2>3 DEF Unlinks, DropsTail, Shrinks
  <2>4. CASE SwapsTail \/ SwapsHead
    BY <1>0, <1>4, <2>4 DEF SwapsTail, SwapsHead
  <2> QED BY <1>5, <2>2, <2>3, <2>4, Zenon DEF StoresToQueue
<1>6. CASE heap'[q] = heap[q] /\ ~StoresToQueue
  <2>1. head' = head /\ tail' = tail
    BY <1>0, <1>6 DEF head, tail
  <2> USE DEF From, Back, Same, LocalsBecome
  <2>2. CASE Stuck \/ LosesFree \/ LosesOther
    BY <2>2 DEF Stuck, LosesFree, LosesOther, Lost, Mislaid, Freed, Ends
  <2>3. CASE GetsQueue \/ GetsNoQueue \/ FreesQueue \/ FreesValue \/ FreesEle \/ InsertsNot \/ GetsEle
             \/ GetsValue \/ GetsNoValue \/ Undoes \/ Sizes
    BY <1>0, <1>4, <2>1, <2>3 DEF GetsQueue, GetsNoQueue, FreesQueue, FreesValue, FreesEle, InsertsNot, GetsEle,
       GetsValue, GetsNoValue, Undoes, Sizes
  <2>4. CASE CopiesHead \/ CopiesTail \/ LinksLast \/ Turns
    BY <1>0, <1>4, <2>1, <2>4 DEF CopiesHead, CopiesTail, LinksLast, Turns
  <2>5. CASE RemovesNot \/ RemovesValue \/ RemovesEle
    BY <1>0, <1>4, <2>1, <2>5 DEF RemovesNot, RemovesValue, RemovesEle
  <2> QED BY <1>0, <1>3, <1>6, <2>2, <2>3, <2>4, <2>5, Zenon DEF Effect, StoresToQueue
<1> QED BY <1>0, <1>5, <1>6, QueueObjectKept, Zenon

LEMMA CountedCutsSize ==
    ASSUME Types
    PROVE  IsFiniteSet(CountedCuts) /\ Cardinality(CountedCuts) \in Nat
<1>1. DOMAIN cuts = 1 .. Len(cuts) /\ Len(cuts) \in Nat
  BY DEF Types
<1>2. IsFiniteSet(1 .. Len(cuts))
  BY <1>1, FS_Interval
<1>3. CountedCuts \in SUBSET (1 .. Len(cuts))
  BY <1>1 DEF CountedCuts
<1> QED BY <1>2, <1>3, FS_Subset, FS_CardinalityType

LEMMA QueueAccountStep == ASSUME Base, QueueOp PROVE Account' /\ Counted'
<1>1. /\ reg'.fn = reg.fn /\ reg'.sub = reg.sub /\ pc \in QueuePC /\ reg'.ok = reg.ok
      /\ pc' \in QueuePC \cup {"ret", "caught", "exit1", "wild"}
      /\ UNCHANGED <<cuts, quit_flag, err_cnt, files, accounted, verblevel>>
  BY QueueOpStep
<1>2. Account'
  BY <1>1 DEF Base, Account, Arguments, QueuePC, Ends
<1>3. CountedCuts' = CountedCuts
  BY <1>1 DEF CountedCuts
<1>4. Failing => Failing'
  BY <1>1 DEF Failing, QueuePC
<1>5. Cardinality(CountedCuts) \in Nat /\ err_cnt \in Nat
  BY CountedCutsSize DEF Base, Types
<1>6. Counted'
  BY <1>1, <1>3, <1>4, <1>5 DEF Base, Counted, QueuePC, Ends
<1> QED BY <1>2, <1>6

LEMMA NotCaught == ASSUME Effect, pc' = "caught" PROVE Faults
<1> USE DEF From, Back, Stuck, Lost, Mislaid, LosesFree, LosesOther
<1> QED BY DEF Effect, GetsQueue, GetsNoQueue, FreesQueue, FreesValue, FreesEle, InsertsNot, GetsEle, GetsValue,
               GetsNoValue, Undoes, CopiesHead, CopiesTail, SetsTail, SetsHead, LinksFirst, LinksLast, MovesTail,
               Grows, RemovesNot, RemovesValue, Unlinks, DropsTail, RemovesEle, Shrinks, Turns, SwapsTail,
               SwapsHead, Sizes

LEMMA QueueCountStep == ASSUME Base, QueueOp PROVE Count'
<1>1. /\ Settle /\ HeapMove /\ pc \in QueuePC /\ reg'.fn = reg.fn /\ UNCHANGED q
      /\ pc' \in QueuePC \cup {"ret", "caught", "exit1", "wild"}
      /\ UNCHANGED <<err_cnt, quit_flag, cuts>> /\ Effect
  BY QueueOpStep
<1>2. Types /\ Flow /\ Count
  BY DEF Base
<1>3. allocated_count' + adj' - Cardinality(Allocated)' = allocated_count + adj - Cardinality(Allocated)
  BY <1>1, <1>2, CountStep
<1>4. allocated_count' \in Int /\ adj' \in {-1, 0, 1}
  BY <1>1, <1>2 DEF Types, HeapMove, Settle, NoStore, StoresTo, Store, test_malloc, test_free
<1>5. Cardinality(Allocated) \in Nat /\ Cardinality(Allocated)' \in Nat
  BY AllocatedSize
<1>6. adj' = 1 => (pc = "new" /\ pc' = "ret") \/ pc \in {"insert", "insert_value"}
  BY <1>1 DEF HeapMove, NoStore, StoresTo, Store, test_free
<1>11. pc' = "caught" => adj' = 0
  <2> SUFFICES ASSUME pc' = "caught" PROVE adj' = 0
    OBVIOUS
  <2>1. heap' = heap /\ pc = "it_link"
    BY <1>1, NotCaught DEF Faults, From
  <2>2. heap \in [Blocks -> Objects]
    BY <1>2 DEF Types
  <2> QED BY <1>1, <2>1, <2>2 DEF HeapMove, NoStore, StoresTo, Store, test_malloc, test_free, Allocated
<1>7. pc' \notin Between \cup {"cancel", "exit0"} /\ pc \notin {"cancel", "show", "done", "exit1", "wild"}
  BY <1>1 DEF QueuePC, Between
<1>8. cuts' = << >> => allocated_count' + adj' = Cardinality(Allocated)'
  BY <1>1, <1>2, <1>3, <1>4, <1>5 DEF Count, Types
<1>9. \/ Cardinality(Allocated)' <= allocated_count' + adj' \/ CutInsert' \/ NewCut'
      \/ pc' = "exit1" \/ pc' = "wild"
  <2>1. Cardinality(Allocated) <= allocated_count + adj \/ CutInsert \/ err_cnt > 0
    BY <1>2, <1>7 DEF Count, NewCut
  <2>2. CutInsert' = CutInsert /\ (err_cnt > 0 => NewCut')
    BY <1>1 DEF CutInsert, CutFns, NewCut
  <2>3. allocated_count \in Int /\ adj \in Int
    BY <1>2 DEF Types
  <2> QED BY <1>3, <1>4, <1>5, <2>1, <2>2, <2>3
<1>10. adj' = 1 => reg.fn \in {"ih", "it"} \/ (reg'.fn = "new" /\ pc' = "ret" /\ q' = NULL)
  BY <1>1, <1>2, <1>6 DEF Flow, InsertPC, Base, Locals
<1> QED BY <1>1, <1>7, <1>8, <1>9, <1>10, <1>11 DEF Count, Between

----------------------------------------------------------------------------
(* The other steps in plain terms: none of them stores to the heap.        *)

Alike == /\ reg' \in Registers /\ reg'.fn = reg.fn /\ reg'.sub = reg.sub /\ reg'.timed = reg.timed
         /\ reg'.s = reg.s /\ reg'.new = reg.new /\ reg'.lp = reg.lp /\ reg'.prv = reg.prv
         /\ reg'.rval = reg.rval
Started(fn, s, reps, timed, sub, ok) ==
    reg' = Rec(fn, sub, timed, s, reps, NULL, NULL, NULL, 0, 0, 0, FALSE, ok, Unused)

InsertReturns == /\ pc = "ret" /\ reg.fn \in {"ih", "it"} /\ pc' \in {"insert", "cancel"}
                 /\ NoStore /\ error_occurred' = FALSE /\ UNCHANGED <<q, modes, jmp_ready, time_limited>>
                 /\ qcnt' = (IF reg.rval THEN qcnt + 1 ELSE qcnt) /\ fail_count' \in Nat
                 /\ Alike /\ reg'.ok \in BOOLEAN
OtherReturns == /\ pc = "ret" /\ reg.fn \notin {"ih", "it"}
                /\ NoStore /\ UNCHANGED <<tester, modes, jmp_ready, time_limited>>
                /\ q' = (IF reg.fn = "new" THEN reg.new ELSE q)
                /\ Alike
                /\ IF reg.fn = "size"
                   THEN error_occurred' = FALSE /\ pc' \in {"size", "cancel"}
                   ELSE UNCHANGED error_occurred /\ pc' = "cancel" /\ reg'.ok = reg.ok
                        /\ reg'.val = (IF reg.rval THEN 1 ELSE 0)

LEMMA RepeatMeans ==
    ASSUME reg \in Registers, NEW ok \in BOOLEAN, Repeat(ok)
    PROVE  Alike /\ pc' \in {"insert", "cancel"}
<1> DEFINE n == reg.r + 1
<1>1. n \in Nat
  BY DEF Registers
<1> HIDE DEF n
<1>2. reg' = [reg EXCEPT !.ok = ok, !.r = n]
  BY Zenon DEF Repeat, n
<1>3. reg' = Rec(reg.fn, reg.sub, reg.timed, reg.s, reg.reps, reg.new, reg.lp, reg.prv, reg.cnt,
                 n, reg.val, reg.rval, ok, reg.got)
  BY <1>2, PutOkR, Zenon
<1>4. Alike
  BY <1>1, <1>3 DEF Rec, Registers, Alike
<1>5. pc' \in {"insert", "cancel"}
  BY Zenon DEF Repeat, Goto
<1> QED BY <1>4, <1>5

LEMMA RetInsertMeans == ASSUME Types, RetInsert PROVE InsertReturns
<1>1. reg \in Registers /\ qcnt \in Int /\ fail_count \in Nat
  BY DEF Types
<1> DEFINE a == reg.ok /\ ~error_occurred /\ (Usable(head) => heap[head].value # NULL)
           b == reg.ok /\ ~error_occurred /\ ~TooMany
<1>2. a \in BOOLEAN /\ b \in BOOLEAN
  OBVIOUS
<1>3. \/ reg.rval /\ qcnt' = qcnt + 1 /\ fail_count' = fail_count /\ Repeat(a)
      \/ ~reg.rval /\ fail_count' = fail_count + 1 /\ qcnt' = qcnt /\ Repeat(b)
  BY Zenon DEF RetInsert, fail
<1> HIDE DEF a, b
<1>4. /\ qcnt' = (IF reg.rval THEN qcnt + 1 ELSE qcnt) /\ fail_count' \in Nat
      /\ Alike /\ pc' \in {"insert", "cancel"}
  BY <1>1, <1>2, <1>3, RepeatMeans
<1>5. reg'.ok \in BOOLEAN
  BY <1>4 DEF Alike, Registers
<1> QED BY <1>4, <1>5, Zenon DEF RetInsert, InsertReturns, At

LEMMA RetOtherMeans == ASSUME Types, RetOther PROVE OtherReturns
<1>1. reg \in Registers
  BY DEF Types
<1>2. /\ pc = "ret" /\ reg.fn \notin {"ih", "it"}
      /\ NoStore /\ UNCHANGED <<tester, modes, jmp_ready, time_limited>>
      /\ q' = (IF reg.fn = "new" THEN reg.new ELSE q)
  BY Zenon DEF RetOther, At
<1>3. ASSUME reg.fn = "size"
      PROVE  Alike /\ error_occurred' = FALSE /\ pc' \in {"size", "cancel"}
  <2> DEFINE n == reg.r + 1
             ok == reg.ok /\ ~error_occurred
  <2>1. n \in Nat /\ ok \in BOOLEAN
    BY <1>1 DEF Registers
  <2>2. reg' = [reg EXCEPT !.val = reg.cnt, !.r = n, !.ok = ok]
    BY <1>3, Zenon DEF RetOther
  <2> HIDE DEF n, ok
  <2>3. reg' = Rec(reg.fn, reg.sub, reg.timed, reg.s, reg.reps, reg.new, reg.lp, reg.prv, reg.cnt,
                   n, reg.cnt, reg.rval, ok, reg.got)
    BY <1>1, <2>2, PutValROk, Zenon
  <2>4. Alike
    BY <1>1, <2>1, <2>3 DEF Rec, Registers, Alike
  <2>5. error_occurred' = FALSE /\ pc' \in {"size", "cancel"}
    BY <1>3, Zenon DEF RetOther, Goto
  <2> QED BY <2>4, <2>5
<1>4. ASSUME reg.fn # "size"
      PROVE  /\ Alike /\ UNCHANGED error_occurred /\ pc' = "cancel" /\ reg'.ok = reg.ok
             /\ reg'.val = (IF reg.rval THEN 1 ELSE 0)
  <2>1. reg' = [reg EXCEPT !.val = IF reg.rval THEN 1 ELSE 0] /\ UNCHANGED error_occurred /\ pc' = "cancel"
    BY <1>4, Zenon DEF RetOther, Goto
  <2> QED BY <1>1, <2>1 DEF Registers, Alike
<1> QED BY <1>2, <1>3, <1>4, Zenon DEF OtherReturns

LEMMA StartedMeans ==
    ASSUME NEW fn \in Commands, NEW s \in ArgStrings, NEW reps \in Nat, NEW timed \in BOOLEAN,
           NEW sub \in {"none", "new", "main"}, NEW ok \in BOOLEAN, Started(fn, s, reps, timed, sub, ok)
    PROVE  /\ reg' \in Registers /\ reg'.fn = fn /\ reg'.s = s /\ reg'.sub = sub /\ reg'.ok = ok
           /\ reg'.new = NULL /\ reg'.lp = NULL /\ reg'.prv = NULL
<1> DEFINE t == Rec(fn, sub, timed, s, reps, NULL, NULL, NULL, 0, 0, 0, FALSE, ok, Unused)
<1>1. NULL \in Ptr /\ Unused \in Objects
  BY NullIsNoBlock DEF Objects
<1>2. /\ t \in Registers /\ t.fn = fn /\ t.s = s /\ t.sub = sub /\ t.ok = ok
      /\ t.new = NULL /\ t.lp = NULL /\ t.prv = NULL
  BY <1>1 DEF Rec, Registers
<1>3. reg' = t
  BY Zenon DEF Started
<1> HIDE DEF t
<1> QED BY <1>2, <1>3

Interprets ==
    /\ pc = "ready" /\ ~quit_flag /\ pc' = "enter"
    /\ \E line \in Lines : Started(line.fn, line.s, line.reps, line.timed, "none", TRUE)
    /\ \/ ReadComplete /\ accounted' = accounted + ArgBlocks
       \/ ReadRest /\ accounted' = accounted + (ArgBlocks - 1)
    /\ UNCHANGED <<harness, q, fail_probability, tester, cuts, segv, err_cnt, quit_flag, verblevel>>

LEMMA InterpretMeans == ASSUME interpret_cmd PROVE Interprets
<1>1. PICK line \in Lines : reg' = [NoRegs EXCEPT !.fn = line.fn, !.s = line.s, !.reps = line.reps,
                                                  !.timed = line.timed]
  BY Zenon DEF interpret_cmd
<1> DEFINE fn == line.fn
           s == line.s
           reps == line.reps
           timed == line.timed
<1> HIDE DEF fn, s, reps, timed
<1>5. reg' = [NoRegs EXCEPT !.fn = fn, !.s = s, !.reps = reps, !.timed = timed]
  BY <1>1, Zenon DEF fn, s, reps, timed
<1> DEFINE mid == [NoRegs EXCEPT !.fn = fn, !.s = s, !.reps = reps]
<1>2. mid = Rec(fn, NoRegs.sub, NoRegs.timed, s, reps, NoRegs.new, NoRegs.lp, NoRegs.prv,
                NoRegs.cnt, NoRegs.r, NoRegs.val, NoRegs.rval, NoRegs.ok, NoRegs.got)
  BY NoRegsType, PutFnSReps, Zenon
<1>6. reg' = [mid EXCEPT !.timed = timed]
  BY <1>5, Zenon
<1> HIDE DEF mid
<1>7. reg' = Rec(fn, NoRegs.sub, timed, s, reps, NoRegs.new, NoRegs.lp, NoRegs.prv,
                 NoRegs.cnt, NoRegs.r, NoRegs.val, NoRegs.rval, NoRegs.ok, NoRegs.got)
  BY <1>2, <1>6 DEF Rec
<1>3. Started(fn, s, reps, timed, "none", TRUE)
  BY <1>7 DEF NoRegs, Started
<1>4. \E l \in Lines : Started(l.fn, l.s, l.reps, l.timed, "none", TRUE)
  BY <1>3, Zenon DEF fn, s, reps, timed
<1> QED BY <1>4, Zenon DEF interpret_cmd, Interprets, At, Goto, malloc_or_fail

Finishes ==
    /\ pc = "ready" /\ cmd_done
    /\ \/ err_cnt > 0 /\ pc' = "exit1" /\ UNCHANGED reg
       \/ err_cnt = 0 /\ quit_flag /\ pc' = "exit0" /\ UNCHANGED reg
       \/ /\ err_cnt = 0 /\ ~quit_flag /\ pc' = "enter" /\ Started("quit", "none", 0, FALSE, "main", TRUE)
    /\ UNCHANGED <<harness, q, fail_probability, console, tester, history>>

LEMMA FinishMeans == ASSUME finish_cmd PROVE Finishes
<1>1. ASSUME reg' = [NoRegs EXCEPT !.fn = "quit", !.sub = "main"]
      PROVE  Started("quit", "none", 0, FALSE, "main", TRUE)
  <2>1. reg' = Rec("quit", "main", NoRegs.timed, NoRegs.s, NoRegs.reps, NoRegs.new, NoRegs.lp, NoRegs.prv,
                   NoRegs.cnt, NoRegs.r, NoRegs.val, NoRegs.rval, NoRegs.ok, NoRegs.got)
    BY <1>1, NoRegsType, PutFnSub, Zenon
  <2> QED BY <2>1 DEF NoRegs, Started
<1> QED BY <1>1, Zenon DEF finish_cmd, Finishes, At, Goto

FreesForNew ==
    /\ pc = "done" /\ pc' = "enter" /\ reg.sub = "new" /\ UNCHANGED console
    /\ Started("new", "none", 0, reg.timed, "none", Result)
    /\ error_occurred' = (error_occurred /\ reg.fn \notin Checks)
    /\ UNCHANGED <<blocks, modes, jmp_ready, time_limited, q, fail_probability, tester, history>>

LEMMA FreedForNewMeans == ASSUME FreedForNew PROVE FreesForNew
<1> DEFINE timed == reg.timed
           ok == Result
<1>1. reg' = [NoRegs EXCEPT !.fn = "new", !.timed = timed, !.ok = ok]
  BY Zenon DEF FreedForNew
<1>2. reg' = Rec("new", NoRegs.sub, timed, NoRegs.s, NoRegs.reps, NoRegs.new, NoRegs.lp, NoRegs.prv,
                 NoRegs.cnt, NoRegs.r, NoRegs.val, NoRegs.rval, ok, NoRegs.got)
  BY <1>1, NoRegsType, PutFnTimedOk, Zenon
<1> HIDE DEF timed, ok
<1>3. Started("new", "none", 0, timed, "none", ok)
  BY <1>2 DEF NoRegs, Started
<1> QED BY <1>3, Zenon DEF FreedForNew, FreesForNew, Returned, At, Goto, timed, ok

(* The stack of input files.                                               *)
LEMMA FilesMove ==
    ASSUME files \in Seq(File)
    PROVE  /\ ReadComplete => files' \in Seq(File) /\ Len(files') = Len(files) /\ files # << >> /\ files' # << >>
           /\ (ReadRest \/ ReadNothing) => files' \in Seq(File) /\ Len(files') = Len(files) - 1 /\ files # << >>
           /\ \A f \in File : Pushed(f) \in Seq(File) /\ Len(Pushed(f)) = Len(files) + 1
<1>1. ASSUME ReadComplete
      PROVE  files' \in Seq(File) /\ Len(files') = Len(files) /\ files # << >> /\ files' # << >>
  <2> DEFINE top == Head(files)
             less == top.lines - 1
             mid == [top EXCEPT !.lines = less]
             new == [mid EXCEPT !.loaded = TRUE]
  <2>1. files # << >> /\ top.lines > 0 /\ files' = << [top EXCEPT !.lines = less, !.loaded = TRUE] >> \o Tail(files)
    BY <1>1, Zenon DEF ReadComplete
  <2>2. top \in File /\ Tail(files) \in Seq(File) /\ Len(Tail(files)) = Len(files) - 1
    BY <2>1
  <2>3. less \in Nat
    BY <2>1, <2>2 DEF File
  <2> HIDE DEF top, less
  <2>4. mid \in File
    BY <2>2, <2>3 DEF File
  <2>5. files' = <<new>> \o Tail(files)
    BY <2>1, Zenon
  <2> HIDE DEF mid
  <2>6. new \in File
    BY <2>4 DEF File
  <2> HIDE DEF new
  <2> QED BY <2>1, <2>2, <2>5, <2>6
<1>2. ASSUME ReadRest \/ ReadNothing
      PROVE  files' \in Seq(File) /\ Len(files') = Len(files) - 1 /\ files # << >>
  BY <1>2 DEF ReadRest, ReadNothing, pop_file
<1>3. ASSUME NEW f \in File
      PROVE  Pushed(f) \in Seq(File) /\ Len(Pushed(f)) = Len(files) + 1
  <2> DEFINE new == [f EXCEPT !.loaded = FALSE]
  <2>1. new \in File
    BY DEF File
  <2> HIDE DEF new
  <2>2. <<new>> \o files \in Seq(File) /\ Len(<<new>> \o files) = Len(files) + 1
    BY <2>1
  <2> QED BY <2>2, Zenon DEF Pushed, new
<1> QED BY <1>1, <1>2, <1>3

(* The beginning of an operation.                                          *)
BeginsFree == /\ reg.fn \in {"free", "quit"} /\ UNCHANGED noallocate_mode
              /\ \/ q = NULL /\ reg'.lp = NULL /\ pc' = "ret"
                 \/ q # NULL /\ reg'.lp = head /\ pc' = "free_value"
              /\ IF reg.fn = "free" THEN UNCHANGED <<files, accounted>>
                 ELSE files' = << >> /\ accounted' = accounted - (Registered + Len(files))
BeginsReverse == /\ reg.fn = "reverse" /\ cautious_mode' = cautious_mode /\ noallocate_mode' = TRUE
                 /\ \/ q = NULL /\ reg'.lp = NULL /\ pc' = "cancel"
                    \/ q # NULL /\ reg'.lp = head /\ pc' = "reverse"
                 /\ UNCHANGED <<files, accounted>>
BeginsOther == /\ \/ reg.fn = "new" /\ q = NULL /\ pc' = "new"
                  \/ reg.fn \in {"ih", "it"} /\ pc' \in {"insert", "cancel"}
                  \/ reg.fn \in {"rh", "rhq"} /\ pc' = "remove"
                  \/ reg.fn = "size" /\ pc' \in {"size", "cancel"}
               /\ reg'.lp = NULL /\ UNCHANGED <<modes, files, accounted>>
Begins == /\ pc = "enter" /\ Keep /\ UNCHANGED <<err_cnt, quit_flag, verblevel>>
          /\ jmp_ready' = TRUE /\ time_limited' = TRUE /\ cautious_mode' \in BOOLEAN
          /\ error_occurred' = IF reg.fn = "quit" THEN error_occurred ELSE FALSE
          /\ LocalsBecome(reg.new, reg'.lp, reg.prv)
          /\ BeginsFree \/ BeginsReverse \/ BeginsOther
BeginOp == \/ do_free \/ queue_quit \/ EnterNew \/ do_insert_head \/ do_insert_tail \/ do_remove
           \/ do_reverse \/ do_size

LEMMA BeginMeans == ASSUME Base, BeginOp PROVE Begins
<1>1. reg \in Registers /\ Types
  BY DEF Base, Types
<1>2. pc = "enter"
  BY DEF BeginOp, do_free, queue_quit, EnterNew, do_insert_head, do_insert_tail, do_remove, do_reverse,
         do_size, Enter, At
<1>3. q # NULL => head \in Ptr
  BY <1>2, QueueIsThere
<1>4. NULL \in Ptr
  BY NullIsNoBlock
<1>5. \A v \in Ptr : reg' = [reg EXCEPT !.lp = v] => reg'.lp = v /\ LocalsBecome(reg.new, v, reg.prv)
  BY <1>1, LocalsMove DEF LocalsBecome
<1>6. (qcnt > BigQueue \/ qcnt < 0) \in BOOLEAN
  OBVIOUS
<1> USE DEF At, Goto, Keep, ConsoleKept, exception_setup, Begins, modes
<1>7. CASE do_free \/ queue_quit
  <2>1. reg' = [reg EXCEPT !.lp = IF q = NULL THEN NULL ELSE head] /\ cautious_mode' \in BOOLEAN
    BY <1>7 DEF do_free, queue_quit, EnterFree, Exceeds
  <2>2. (IF q = NULL THEN NULL ELSE head) \in Ptr
    BY <1>3, <1>4
  <2>3. reg'.lp = (IF q = NULL THEN NULL ELSE head) /\ LocalsBecome(reg.new, reg'.lp, reg.prv)
    BY <1>5, <2>1, <2>2
  <2>4. BeginsFree
    BY <1>7, <2>3 DEF do_free, queue_quit, EnterFree, BeginsFree, do_quit_cmd, free_block
  <2> QED BY <1>2, <1>7, <2>1, <2>3, <2>4 DEF do_free, queue_quit
<1>8. CASE do_reverse
  <2>1. reg' = [reg EXCEPT !.lp = IF q = NULL THEN NULL ELSE head] /\ cautious_mode' = cautious_mode
    BY <1>8 DEF do_reverse, Enter
  <2>2. (IF q = NULL THEN NULL ELSE head) \in Ptr
    BY <1>3, <1>4
  <2>3. reg'.lp = (IF q = NULL THEN NULL ELSE head) /\ LocalsBecome(reg.new, reg'.lp, reg.prv)
    BY <1>5, <2>1, <2>2
  <2>4. BeginsReverse
    BY <1>8, <2>1, <2>3 DEF do_reverse, Enter, BeginsReverse
  <2> QED BY <1>1, <1>2, <1>8, <2>1, <2>3, <2>4 DEF do_reverse, Enter, Types
<1>9. CASE EnterNew \/ do_insert_head \/ do_insert_tail \/ do_remove \/ do_size
  <2>1. reg' = [reg EXCEPT !.lp = NULL] /\ cautious_mode' = cautious_mode /\ noallocate_mode' = noallocate_mode
    BY <1>9 DEF EnterNew, do_insert_head, do_insert_tail, do_remove, do_size, Enter
  <2>3. reg'.lp = NULL /\ LocalsBecome(reg.new, reg'.lp, reg.prv)
    BY <1>4, <1>5, <2>1
  <2>4. BeginsOther
    BY <1>9, <2>1, <2>3 DEF EnterNew, do_insert_head, do_insert_tail, do_remove, do_size, Enter, BeginsOther, InsertOrNot
  <2> QED BY <1>1, <1>2, <1>9, <2>1, <2>3, <2>4
          DEF EnterNew, do_insert_head, do_insert_tail, do_remove, do_size, Enter, Types
<1> QED BY <1>7, <1>8, <1>9 DEF BeginOp

(* The commands that only return, and show.                                *)
OnlyReturns == /\ pc = "enter" /\ reg.fn \in {"comment", "bad", "show", "option", "source"}
               /\ pc' = (IF reg.fn = "show" THEN "show" ELSE "done")
               /\ UNCHANGED <<harness, q, qcnt, fail_count, history, err_cnt, quit_flag>>
               /\ fail_probability' \in BOOLEAN /\ verblevel' \in Int
               /\ Alike
               /\ files' \in Seq(File) /\ accounted' \in Int
               /\ accounted' - Len(files') = accounted - Len(files)

LEMMA OnlyReturnMeans == ASSUME Types, do_comment_cmd \/ EnterOther PROVE OnlyReturns
<1>1. /\ reg \in Registers /\ files \in Seq(File) /\ accounted \in Int /\ Len(files) \in Nat
      /\ fail_probability \in BOOLEAN /\ verblevel \in Int /\ reg.reps \in Nat
  BY DEF Types, Registers
<1>2. /\ UNCHANGED reg => Alike
      /\ \A ok \in BOOLEAN : Done(ok) => Alike /\ pc' = "done"
  BY <1>1 DEF Registers, Alike, Done, Goto
<1>3. (reg.reps > 0) \in BOOLEAN
  OBVIOUS
<1> USE DEF At, Goto, OnlyReturns, console, tester
<1>4. CASE do_comment_cmd
  BY <1>1, <1>2, <1>4 DEF do_comment_cmd
<1>5. CASE EnterOther
  <2>1. CASE reg.fn \in {"bad", "show"}
    BY <1>1, <1>2, <1>5, <2>1 DEF EnterOther
  <2>2. CASE reg.fn = "option"
    <3>1. fail_probability' \in BOOLEAN
      <4>1. fail_probability' = (IF reg.s = "malloc" THEN reg.reps > 0 ELSE fail_probability)
        BY <1>5, <2>2, Zenon DEF EnterOther
      <4> QED BY <1>1, <1>3, <4>1, Zenon
    <3>2. verblevel' \in Int
      BY <1>1, <1>5, <2>2 DEF EnterOther, do_option_cmd
    <3>3. UNCHANGED <<files, accounted>>
      BY <1>5, <2>2, Zenon DEF EnterOther
    <3> QED BY <1>1, <1>2, <1>5, <2>2, <3>1, <3>2, <3>3 DEF EnterOther
  <2>3. CASE reg.fn = "source" /\ CanOpen
    <3> DEFINE f == [lines |-> reg.reps, open |-> reg.s = "rest", loaded |-> FALSE]
    <3>1. f \in File
      BY <1>1 DEF File
    <3>2. files' = Pushed(f) /\ accounted' = accounted + 1
      BY <1>5, <2>3, Zenon DEF EnterOther, malloc_or_fail
    <3> HIDE DEF f
    <3>3. files' \in Seq(File) /\ Len(files') = Len(files) + 1
      BY <1>1, <3>1, <3>2, FilesMove
    <3> DEFINE F == files' \in Seq(File) /\ accounted' \in Int /\ accounted' - Len(files') = accounted - Len(files)
    <3>4. F
      BY <1>1, <3>2, <3>3
    <3> HIDE DEF F
    <3>5. Done(TRUE) /\ pc = "enter" /\ UNCHANGED <<harness, q, qcnt, fail_count, history>>
          /\ UNCHANGED <<err_cnt, err_limit, quit_flag, verblevel, fail_probability, fail_limit>>
      BY <1>5, <2>3, Zenon DEF EnterOther, At
    <3> QED BY <1>1, <1>2, <2>3, <3>4, <3>5 DEF F
  <2>4. CASE reg.fn = "source" /\ ~CanOpen
    BY <1>1, <1>2, <1>5, <2>4 DEF EnterOther
  <2> QED BY <1>5, <2>1, <2>2, <2>3, <2>4 DEF EnterOther
<1> QED BY <1>4, <1>5

(* The verdict of a handler on its operation.                              *)
Leaves == /\ pc = "cancel" /\ pc' \in {"done", "show"} /\ (verblevel < 3 => pc' = "done")
          /\ (pc' = "show" => reg.fn \notin {"free", "quit"})
          /\ jmp_ready' = FALSE /\ time_limited' = FALSE /\ cautious_mode' = TRUE /\ noallocate_mode' = FALSE
          /\ UNCHANGED <<blocks, error_occurred, fail_probability, history, console>>
          /\ Alike
          /\ (reg.fn = "new" => reg'.ok = reg.ok)
          /\ (reg.fn = "quit" => reg'.ok = (allocated_count = 0))
          /\ q' = (IF reg.fn = "free" THEN NULL ELSE q)
          /\ qcnt' = (IF reg.fn \in {"new", "free"} THEN 0 ELSE IF reg.fn \in {"rh", "rhq"} THEN qcnt - reg.val ELSE qcnt)
          /\ fail_count' \in Nat

LEMMA CancelMeans == ASSUME Types, CancelOp PROVE Leaves
<1>1. reg \in Registers /\ fail_count \in Nat /\ qcnt \in Int
  BY DEF Types
<1>2. \A ok \in BOOLEAN : reg' = [reg EXCEPT !.ok = ok] => Alike /\ reg'.ok = ok
  BY <1>1 DEF Registers, Alike
<1>3. \A ok \in BOOLEAN : Verdict(ok) => /\ Alike /\ reg'.ok = ok /\ pc' \in {"done", "show"}
                                         /\ (verblevel < 3 => pc' = "done")
  BY <1>2 DEF Verdict, Goto
<1>4. reg.ok \in BOOLEAN /\ reg.val \in Int
  BY <1>1 DEF Registers
<1> USE DEF At, Goto, exception_cancel, Cancel, Leaves
<1>5. CASE CancelNew
  BY <1>1, <1>3, <1>4, <1>5 DEF CancelNew
<1>6. CASE CancelFree
  BY <1>1, <1>2, <1>6 DEF CancelFree, allocation_check
<1>7. CASE CancelQuit
  BY <1>1, <1>2, <1>7 DEF CancelQuit, allocation_check
<1>8. CASE CancelInsert
  BY <1>1, <1>3, <1>4, <1>8 DEF CancelInsert
<1>9. CASE CancelSize
  BY <1>1, <1>3, <1>4, <1>9 DEF CancelSize
<1>10. CASE CancelReverse
  BY <1>1, <1>3, <1>10 DEF CancelReverse
<1>11. CASE CancelRemove
  <2> DEFINE a == Checked => reg.got = [kind |-> "str", s |-> reg.s]
             b == ~Checked /\ ~TooMany
  <2>1. a \in BOOLEAN /\ b \in BOOLEAN
    OBVIOUS
  <2>2. \/ reg.val = 1 /\ qcnt' = qcnt - 1 /\ UNCHANGED fail_count /\ Verdict(a)
        \/ reg.val = 0 /\ fail_count' = fail_count + 1 /\ UNCHANGED qcnt /\ Verdict(b)
    BY <1>11, Zenon DEF CancelRemove, Removed, NotRemoved, fail
  <2> HIDE DEF a, b
  <2>3. UNCHANGED q /\ Cancel({"rh"})
    BY <1>11, Zenon DEF CancelRemove
  <2> QED BY <1>1, <1>3, <2>1, <2>2, <2>3
<1>12. CASE CancelRemoveQuiet
  <2> DEFINE a == TRUE
             b == ~TooMany
  <2>1. a \in BOOLEAN /\ b \in BOOLEAN
    OBVIOUS
  <2>2. \/ reg.val = 1 /\ qcnt' = qcnt - 1 /\ UNCHANGED fail_count /\ Verdict(a)
        \/ reg.val = 0 /\ fail_count' = fail_count + 1 /\ UNCHANGED qcnt /\ Verdict(b)
    BY <1>12, Zenon DEF CancelRemoveQuiet, Removed, NotRemoved, fail
  <2> HIDE DEF a, b
  <2>3. UNCHANGED q /\ Cancel({"rhq"})
    BY <1>12, Zenon DEF CancelRemoveQuiet
  <2> QED BY <1>1, <1>3, <2>1, <2>2, <2>3
<1> QED BY <1>5, <1>6, <1>7, <1>8, <1>9, <1>10, <1>11, <1>12 DEF CancelOp

(* show_queue, cut short or not.                                           *)
Cut(fn) == cuts' = Append(cuts, [fn |-> fn, level |-> verblevel, fresh |-> reg.ok])
Shows == /\ pc = "show" /\ pc' = "done"
         /\ UNCHANGED <<blocks, modes, jmp_ready, time_limited, q, fail_probability, tester, console, segv>>
         /\ Alike /\ (reg.fn # "show" => reg'.ok = reg.ok)
         /\ error_occurred' \in BOOLEAN /\ (q = NULL => error_occurred' = error_occurred)
         /\ UNCHANGED cuts \/ (q # NULL /\ Cut("show"))

LEMMA ShowMeans == ASSUME Types, show_queue \/ show_cut PROVE Shows
<1>1. reg \in Registers /\ error_occurred \in BOOLEAN
  BY DEF Types
<1>2. \A ok \in BOOLEAN : reg' = [reg EXCEPT !.ok = ok] => Alike /\ reg'.ok = ok
  BY <1>1 DEF Registers, Alike
<1>3. reg.ok \in BOOLEAN
  BY <1>1 DEF Registers
<1>4. CASE show_queue
  <2>1. PICK printed \in {IF q = NULL THEN << >> ELSE ElementsFrom(head)} :
          \E looped \in {printed # << >> /\ Exceeds(qcnt, 0)} :
            /\ error_occurred' = (error_occurred /\ ~looped)
            /\ reg' = [reg EXCEPT !.ok = IF reg.fn # "show" THEN @
                                         ELSE ~(error_occurred /\ looped) /\ Exceeds(qcnt, Len(printed) - 1)]
    BY <1>4, Zenon DEF show_queue
  <2>2. PICK looped : /\ looped = (printed # << >> /\ Exceeds(qcnt, 0))
                      /\ error_occurred' = (error_occurred /\ ~looped)
                      /\ reg' = [reg EXCEPT !.ok = IF reg.fn # "show" THEN @
                                         ELSE ~(error_occurred /\ looped) /\ Exceeds(qcnt, Len(printed) - 1)]
    BY <2>1, Zenon
  <2> DEFINE shown == ~(error_occurred /\ looped) /\ Exceeds(qcnt, Len(printed) - 1)
             ok == IF reg.fn # "show" THEN reg.ok ELSE shown
  <2>3. shown \in BOOLEAN
    OBVIOUS
  <2>4. reg' = [reg EXCEPT !.ok = ok]
    BY <2>2, Zenon
  <2> HIDE DEF shown
  <2>5. ok \in BOOLEAN /\ (reg.fn # "show" => ok = reg.ok)
    BY <1>3, <2>3
  <2> HIDE DEF ok
  <2>6. Alike /\ (reg.fn # "show" => reg'.ok = reg.ok)
    BY <1>2, <2>4, <2>5
  <2>7. looped = (printed # << >> /\ Exceeds(qcnt, 0)) /\ error_occurred' = (error_occurred /\ ~looped)
    BY <2>2, Zenon
  <2>8. q = NULL => printed = << >>
    BY <2>1
  <2>9. error_occurred' \in BOOLEAN /\ (q = NULL => error_occurred' = error_occurred)
    BY <1>1, <2>7, <2>8, Zenon
  <2>10. /\ pc = "show" /\ pc' = "done"
         /\ UNCHANGED <<blocks, modes, jmp_ready, time_limited, q, fail_probability, tester, history, console>>
    BY <1>4, Zenon DEF show_queue, At, Goto
  <2> QED BY <2>6, <2>9, <2>10 DEF Shows, history
<1>5. CASE show_cut
  <2>1. PICK b \in BOOLEAN : reg' = [reg EXCEPT !.ok = IF reg.fn = "show" THEN b ELSE @]
    BY <1>5, Zenon DEF show_cut
  <2> DEFINE ok == IF reg.fn = "show" THEN b ELSE reg.ok
  <2>2. reg' = [reg EXCEPT !.ok = ok]
    BY <2>1, Zenon
  <2>3. ok \in BOOLEAN /\ (reg.fn # "show" => ok = reg.ok)
    BY <1>3
  <2> HIDE DEF ok
  <2>4. Alike /\ (reg.fn # "show" => reg'.ok = reg.ok)
    BY <1>2, <2>2, <2>3
  <2>5. /\ pc = "show" /\ pc' = "done" /\ q # NULL /\ Cut("show") /\ error_occurred' = TRUE /\ UNCHANGED <<segv, sourced>>
        /\ UNCHANGED <<blocks, modes, jmp_ready, time_limited, q, fail_probability, tester, console>>
    BY <1>5, Zenon DEF show_cut, At, Goto, Cut
  <2> QED BY <2>4, <2>5 DEF Shows
<1> QED BY <1>4, <1>5

(* The console's steps, the end of a command, and the signals.             *)
Opens == /\ pc = "main"
         /\ \/ /\ files' \in Seq(File) /\ Len(files') = Len(files) + 1
               /\ accounted' = accounted + 1 /\ pc' = "ready"
            \/ pc' = "exit1" /\ UNCHANGED <<files, accounted>>
         /\ UNCHANGED <<harness, q, reg, fail_probability, tester, history, err_cnt, quit_flag, verblevel>>
Skips == /\ pc = "ready" /\ quit_flag /\ files # << >> /\ files' \in Seq(File) /\ files' # << >>
         /\ Len(files') = Len(files)
         /\ UNCHANGED <<harness, machine, tester, history, accounted, err_cnt, quit_flag, verblevel>>
Pops == /\ pc = "ready" /\ ~quit_flag /\ files' \in Seq(File) /\ Len(files') = Len(files) - 1
        /\ accounted' = accounted - 1
        /\ UNCHANGED <<harness, machine, tester, history, err_cnt, quit_flag, verblevel>>
FreesFirst == /\ pc = "enter" /\ reg.fn = "new" /\ q # NULL /\ Keep /\ ConsoleKept
              /\ UNCHANGED <<pc, modes, exceptions>>
              /\ reg' \in Registers /\ reg'.fn = "free" /\ reg'.sub = "new" /\ reg'.ok = reg.ok
              /\ reg'.new = reg.new /\ reg'.lp = reg.lp /\ reg'.prv = reg.prv
Counts(n) == /\ pc = "done" /\ reg.sub = "none" /\ pc' = "ready" /\ reg' = NoRegs
             /\ n \in Nat /\ (n = 0 <=> Result)
             /\ err_cnt' = err_cnt + n /\ quit_flag' \in BOOLEAN
             /\ (quit_flag' => quit_flag \/ reg.fn = "quit" \/ n > 0) /\ (reg.fn = "quit" => quit_flag')
             /\ accounted' = accounted - ArgBlocks
             /\ error_occurred' \in BOOLEAN
             /\ UNCHANGED <<blocks, modes, jmp_ready, time_limited, q, fail_probability, tester, history, files, verblevel>>
Stops == /\ pc = "done" /\ reg.sub = "main" /\ reg' = NoRegs
         /\ pc' = (IF Result /\ err_cnt = 0 THEN "exit0" ELSE "exit1") /\ quit_flag' = TRUE
         /\ error_occurred' \in BOOLEAN
         /\ UNCHANGED <<blocks, modes, jmp_ready, time_limited, q, fail_probability, tester, history, files,
                        err_cnt, verblevel, accounted>>
IsCut == /\ pc \in QueuePC \cup {"ret", "cancel"} /\ jmp_ready /\ error_occurred' = TRUE
         /\ jmp_ready' = FALSE /\ time_limited' = FALSE
         /\ adj' = 0 /\ allocated_count' \in {allocated_count, allocated_count + adj}
         /\ UNCHANGED <<heap, modes, segv>> /\ Interrupt
         /\ pc' = "cancel" /\ Cut(reg.fn) /\ Alike /\ reg'.ok = reg.ok /\ reg'.val \in {0, reg.val}
IsKilled == /\ pc = "caught" /\ pc' = "exit1" /\ Cut(reg.fn) /\ UNCHANGED <<harness, reg, segv>> /\ Interrupt
Jumps == /\ pc = "caught" /\ pc' = "cancel" /\ time_limited' = FALSE /\ segv' = TRUE
         /\ UNCHANGED <<blocks, modes, error_occurred, jmp_ready, reg, cuts>> /\ Interrupt
Idles == pc \in Ends /\ UNCHANGED vars

OtherEffect == \/ Opens \/ Skips \/ Pops \/ Interprets \/ Finishes \/ FreesFirst \/ Begins \/ OnlyReturns
               \/ (InsertReturns \/ OtherReturns) /\ UNCHANGED <<fail_probability, console, history>>
               \/ Leaves \/ Shows \/ FreesForNew \/ (\E n \in Nat : Counts(n)) \/ Stops \/ IsCut \/ IsKilled \/ Jumps
               \/ Idles

LEMMA OtherMeans == ASSUME Base, Next, ~QueueOp PROVE OtherEffect
<1>1. Types /\ reg \in Registers /\ files \in Seq(File) /\ error_occurred \in BOOLEAN
  BY DEF Base, Types
<1> USE DEF At, Goto
<1>2. CASE run_console
  <2>1. \A f \in FirstFiles : Pushed(f) \in Seq(File) /\ Len(Pushed(f)) = Len(files) + 1
    BY <1>1, FilesMove, QTestAssumption
  <2>2. Opens
    BY <1>2, <2>1, Zenon DEF run_console, Opens, malloc_or_fail
  <2> QED BY <2>2, Zenon DEF OtherEffect
<1>3. CASE cmd_skip
  <2>1. files' \in Seq(File) /\ Len(files') = Len(files) /\ files # << >> /\ files' # << >>
    BY <1>1, <1>3, FilesMove DEF cmd_skip
  <2>2. Skips
    BY <1>3, <2>1, Zenon DEF cmd_skip, Skips
  <2> QED BY <2>2, Zenon DEF OtherEffect
<1>4. CASE cmd_eof
  <2>1. files' \in Seq(File) /\ Len(files') = Len(files) - 1
    BY <1>1, <1>4, FilesMove DEF cmd_eof
  <2>2. Pops
    BY <1>4, <2>1, Zenon DEF cmd_eof, Pops, free_block
  <2> QED BY <2>2, Zenon DEF OtherEffect
<1>5. CASE do_new
  <2>1. reg' = Rec("free", "new", reg.timed, reg.s, reg.reps, reg.new, reg.lp, reg.prv, reg.cnt,
                   reg.r, reg.val, reg.rval, reg.ok, reg.got)
    BY <1>1, <1>5, PutFnSub, Zenon DEF do_new
  <2>2. /\ reg' \in Registers /\ reg'.fn = "free" /\ reg'.sub = "new" /\ reg'.ok = reg.ok
        /\ reg'.new = reg.new /\ reg'.lp = reg.lp /\ reg'.prv = reg.prv
    BY <1>1, <2>1 DEF Rec, Registers, Commands
  <2>3. FreesFirst
    BY <1>5, <2>2, Zenon DEF do_new, FreesFirst
  <2> QED BY <2>3, Zenon DEF OtherEffect
<1>6. CASE CommandDone
  <2> DEFINE n == IF Result THEN 0 ELSE IF reg.timed THEN 2 ELSE 1
  <2>1. n \in Nat /\ (n = 0 <=> Result)
    OBVIOUS
  <2>2. record_error(n, reg.fn = "quit")
    BY <1>6, Zenon DEF CommandDone
  <2> HIDE DEF n
  <2>3. /\ err_cnt' = err_cnt + n
        /\ quit_flag' = (quit_flag \/ reg.fn = "quit" \/ (n > 0 /\ err_cnt + n >= err_limit))
    BY <2>2, Zenon DEF record_error
  <2>4. quit_flag' \in BOOLEAN /\ (quit_flag' => quit_flag \/ reg.fn = "quit" \/ n > 0) /\ (reg.fn = "quit" => quit_flag')
    BY <2>3, Zenon
  <2>5. error_occurred' \in BOOLEAN
    BY <1>1, <1>6, Zenon DEF CommandDone, Returned
  <2>6. Counts(n)
    BY <1>6, <2>1, <2>3, <2>4, <2>5, Zenon DEF Counts, CommandDone, Returned, free_block
  <2> QED BY <2>1, <2>6, Zenon DEF OtherEffect
<1>7. CASE Finished
  <2>1. error_occurred' \in BOOLEAN
    BY <1>1, <1>7, Zenon DEF Finished, Returned
  <2>2. Stops
    BY <1>7, <2>1, Zenon DEF Stops, Finished, Returned
  <2> QED BY <2>2, Zenon DEF OtherEffect
<1>8. CASE sigalrmhandler
  <2>1. Alike /\ reg'.ok = reg.ok /\ reg'.val \in {0, reg.val}
    <3>1. reg' = reg \/ reg' = [reg EXCEPT !.val = 0]
      BY <1>8, Zenon DEF sigalrmhandler
    <3> QED BY <1>1, <3>1 DEF Alike, Registers
  <2>2. IsCut
    BY <1>8, <2>1, Zenon DEF sigalrmhandler, IsCut, Cuts, Cut, trigger_exception
  <2> QED BY <2>2, Zenon DEF OtherEffect
<1>9. CASE sigalrm_uncaught
  <2>1. IsKilled
    BY <1>9, Zenon DEF sigalrm_uncaught, IsKilled, Cuts, Cut
  <2> QED BY <2>1, Zenon DEF OtherEffect
<1>10. CASE sigsegvhandler
  <2>1. Jumps
    BY <1>10, Zenon DEF sigsegvhandler, Jumps
  <2> QED BY <2>1, Zenon DEF OtherEffect
<1>11. CASE Ended
  BY <1>11, Zenon DEF Ended, Idles, OtherEffect
<1>12. CASE interpret_cmd
  BY <1>12, InterpretMeans, Zenon DEF OtherEffect
<1>13. CASE finish_cmd
  BY <1>13, FinishMeans, Zenon DEF OtherEffect
<1>14. CASE BeginOp
  BY <1>14, BeginMeans, Zenon DEF OtherEffect
<1>15. CASE do_comment_cmd \/ EnterOther
  BY <1>1, <1>15, OnlyReturnMeans, Zenon DEF OtherEffect
<1>16. CASE ReturnOp
  BY <1>1, <1>16, RetInsertMeans, RetOtherMeans, Zenon DEF OtherEffect, ReturnOp
<1>17. CASE CancelOp
  BY <1>1, <1>17, CancelMeans, Zenon DEF OtherEffect
<1>18. CASE show_queue \/ show_cut
  BY <1>1, <1>18, ShowMeans, Zenon DEF OtherEffect
<1>19. CASE FreedForNew
  BY <1>19, FreedForNewMeans, Zenon DEF OtherEffect
<1> QED BY <1>2, <1>3, <1>4, <1>5, <1>6, <1>7, <1>8, <1>9, <1>10, <1>11, <1>12, <1>13, <1>14, <1>15,
           <1>16, <1>17, <1>18, <1>19, Zenon DEF Next, Program, BeginOp

LEMMA CutMeans ==
    ASSUME Types, NEW fn \in Commands \cup {"show"}, Cut(fn)
    PROVE  /\ cuts' \in Seq(CutRecords) /\ cuts' # << >> /\ CutFns' = CutFns \cup {fn}
           /\ Cardinality(CountedCuts)' = Cardinality(CountedCuts) +
                (IF fn \notin {"ih", "it", "show", "quit"} /\ verblevel < 3 /\ reg.ok THEN 1 ELSE 0)
<1> DEFINE c == [fn |-> fn, level |-> verblevel, fresh |-> reg.ok]
           n == Len(cuts) + 1
           counts == fn \notin {"ih", "it", "show", "quit"} /\ verblevel < 3 /\ reg.ok
<1>1. cuts \in Seq(CutRecords) /\ Len(cuts) \in Nat /\ verblevel \in Int /\ reg.ok \in BOOLEAN
  BY DEF Types, Registers
<1>2. c \in CutRecords /\ c.fn = fn /\ (counts <=> c.fn \notin {"ih", "it", "show", "quit"} /\ c.level < 3 /\ c.fresh)
  BY <1>1 DEF CutRecords
<1>3. cuts' = Append(cuts, c)
  BY Zenon DEF Cut
<1> HIDE DEF c, counts
<1>4. /\ cuts' \in Seq(CutRecords) /\ Len(cuts') = n /\ cuts'[n] = c
      /\ \A i \in 1 .. Len(cuts) : cuts'[i] = cuts[i]
      /\ DOMAIN cuts' = 1 .. n /\ DOMAIN cuts = 1 .. Len(cuts) /\ n \in Nat
  BY <1>1, <1>2, <1>3
<1>5. CutFns' = CutFns \cup {fn} /\ cuts' # << >>
  BY <1>1, <1>2, <1>4 DEF CutFns
<1>6. CountedCuts' = CountedCuts \cup (IF counts THEN {n} ELSE {}) /\ n \notin CountedCuts
  BY <1>1, <1>2, <1>4 DEF CountedCuts
<1>7. Cardinality(CountedCuts') = Cardinality(CountedCuts) + (IF counts THEN 1 ELSE 0)
  <2>1. IsFiniteSet(CountedCuts) /\ Cardinality(CountedCuts) \in Nat
    BY CountedCutsSize
  <2>2. Cardinality(CountedCuts \cup {n}) = Cardinality(CountedCuts) + 1
    BY <1>6, <2>1, FS_AddElement
  <2>3. CASE counts
    <3>1. CountedCuts' = CountedCuts \cup {n}
      BY <1>6, <2>3
    <3> QED BY <2>2, <2>3, <3>1
  <2>4. CASE ~counts
    <3>1. CountedCuts' = CountedCuts
      BY <1>6, <2>4
    <3> QED BY <2>1, <2>4, <3>1
  <2> QED BY <2>3, <2>4
<1> QED BY <1>4, <1>5, <1>7 DEF counts

----------------------------------------------------------------------------
(* The invariant, part by part, for the steps outside of an operation.     *)

LEMMA LineTypes ==
    ASSUME Interprets
    PROVE  /\ reg' \in Registers /\ reg'.sub = "none" /\ reg'.ok = TRUE
           /\ reg'.new = NULL /\ reg'.lp = NULL /\ reg'.prv = NULL
           /\ reg'.fn \in {"ih", "it"} => reg'.s \in Strings
<1>1. PICK line \in Lines : Started(line.fn, line.s, line.reps, line.timed, "none", TRUE)
  BY Zenon DEF Interprets
<1> DEFINE fn == line.fn
           s == line.s
           reps == line.reps
           timed == line.timed
<1>2. /\ fn \in Commands /\ s \in ArgStrings /\ reps \in Nat /\ timed \in BOOLEAN
      /\ fn \in {"ih", "it"} => s \in Strings
  BY LinesAssumption DEF Commands, ArgStrings
<1>3. Started(fn, s, reps, timed, "none", TRUE)
  BY <1>1, Zenon
<1> HIDE DEF fn, s, reps, timed
<1>4. reg' \in Registers /\ reg'.fn = fn /\ reg'.s = s /\ reg'.sub = "none" /\ reg'.ok = TRUE
      /\ reg'.new = NULL /\ reg'.lp = NULL /\ reg'.prv = NULL
  BY <1>2, <1>3, StartedMeans
<1> QED BY <1>2, <1>4

LEMMA QuitTypes ==
    ASSUME Started("quit", "none", 0, FALSE, "main", TRUE)
    PROVE  /\ reg' \in Registers /\ reg'.fn = "quit" /\ reg'.sub = "main" /\ reg'.ok = TRUE
           /\ reg'.new = NULL /\ reg'.lp = NULL /\ reg'.prv = NULL
<1>1. "quit" \in Commands /\ "none" \in ArgStrings
  BY DEF Commands, ArgStrings
<1> QED BY <1>1, StartedMeans

LEMMA ResultTypes ==
    ASSUME Types, FreesForNew
    PROVE  /\ reg' \in Registers /\ reg'.fn = "new" /\ reg'.sub = "none" /\ reg'.ok = Result
           /\ reg'.new = NULL /\ reg'.lp = NULL /\ reg'.prv = NULL
<1> DEFINE ok == Result
<1>1. "new" \in Commands /\ "none" \in ArgStrings /\ ok \in BOOLEAN /\ reg.timed \in BOOLEAN
  BY DEF Commands, ArgStrings, Types, Registers, Result
<1>2. Started("new", "none", 0, reg.timed, "none", ok)
  BY Zenon DEF FreesForNew
<1> HIDE DEF ok
<1>3. /\ reg' \in Registers /\ reg'.fn = "new" /\ reg'.sub = "none" /\ reg'.ok = ok
      /\ reg'.new = NULL /\ reg'.lp = NULL /\ reg'.prv = NULL
  BY <1>1, <1>2, StartedMeans
<1> QED BY <1>3 DEF ok

LEMMA TypesStep == ASSUME Base, Next, ~QueueOp PROVE Types'
<1>0. OtherEffect /\ Types /\ Flow /\ Modes
  BY OtherMeans DEF Base
<1>1. NoRegs \in Registers /\ Registered + Len(files) \in Int
  BY <1>0, NoRegsType DEF Types, Registered
<1> USE DEF Types, PCs, QueuePC, Ends, harness, blocks, modes, exceptions, console, tester, history, machine, Keep,
            ConsoleKept, Interrupt
<1>2. CASE Opens
  BY <1>0, <1>1, <1>2 DEF Opens
<1>3. CASE Skips
  BY <1>0, <1>1, <1>3 DEF Skips
<1>4. CASE Pops
  BY <1>0, <1>1, <1>4 DEF Pops
<1>5. CASE Interprets
  <2>1. files' \in Seq(File) /\ accounted' \in Int
    BY <1>0, <1>5, FilesMove DEF Interprets, ArgBlocks
  <2>2. reg' \in Registers
    BY <1>5, LineTypes
  <2> QED BY <1>0, <2>1, <2>2, <1>5 DEF Interprets
<1>6. CASE Finishes
  <2>1. reg' \in Registers
    BY <1>0, <1>6, QuitTypes DEF Finishes
  <2>2. pc' \in PCs
    BY <1>6 DEF Finishes
  <2>3. UNCHANGED <<harness, q, fail_probability, console, tester, history>>
    BY <1>6 DEF Finishes
  <2> QED BY <1>0, <2>1, <2>2, <2>3
<1>7. CASE FreesFirst
  BY <1>0, <1>1, <1>7 DEF FreesFirst
<1>8. CASE Begins
  <2>1. \/ files' = << >> /\ accounted' = accounted - (Registered + Len(files))
        \/ files' = files /\ accounted' = accounted
    BY <1>8 DEF Begins, BeginsFree, BeginsReverse, BeginsOther
  <2>2. files' \in Seq(File) /\ accounted' \in Int
    <3>1. accounted \in Int /\ files \in Seq(File) /\ << >> \in Seq(File)
      BY <1>0
    <3>2. Len(files) \in Nat
      BY <3>1
    <3>3. Registered + Len(files) \in Int
      BY <3>2 DEF Registered
    <3> DEFINE n == Registered + Len(files)
    <3> HIDE DEF n
    <3>4. n \in Int /\ ((files' = << >> /\ accounted' = accounted - n) \/ (files' = files /\ accounted' = accounted))
      BY <2>1, <3>3, Zenon DEF n
    <3>5. files' \in Seq(File)
      BY <3>1, <3>4
    <3>6. accounted' \in Int
      BY <3>1, <3>4
    <3> QED BY <3>5, <3>6
  <2>3. pc' \in PCs /\ noallocate_mode' \in BOOLEAN
    BY <1>0, <1>8 DEF Begins, BeginsFree, BeginsReverse, BeginsOther
  <2>4. reg' \in Registers /\ error_occurred' \in BOOLEAN /\ cautious_mode' \in BOOLEAN
    BY <1>0, <1>8 DEF Begins, LocalsBecome, CallKept
  <2>5. /\ UNCHANGED <<heap, allocated_count, adj, q, fail_probability, err_cnt, quit_flag, verblevel>>
        /\ UNCHANGED <<qcnt, fail_count, cuts, segv>> /\ jmp_ready' = TRUE /\ time_limited' = TRUE
    BY <1>8 DEF Begins
  <2> QED BY <1>0, <2>2, <2>3, <2>4, <2>5
<1>9. CASE OnlyReturns
  BY <1>0, <1>1, <1>9 DEF OnlyReturns, Alike
<1>10. CASE InsertReturns /\ UNCHANGED <<fail_probability, console, history>>
  <2>1. qcnt' \in Int /\ allocated_count' \in Int
    BY <1>0, <1>10 DEF InsertReturns, NoStore, Settle
  <2> QED BY <1>0, <2>1, <1>10 DEF InsertReturns, Alike, NoStore
<1>11. CASE OtherReturns /\ UNCHANGED <<fail_probability, console, history>>
  <2>1. q' \in Ptr /\ error_occurred' \in BOOLEAN
    BY <1>0, <1>11 DEF OtherReturns, Registers
  <2> QED BY <1>0, <2>1, <1>11 DEF OtherReturns, Alike, NoStore, Settle
<1>12. CASE Leaves
  <2>1. qcnt' \in Int
    BY <1>0, <1>12 DEF Leaves, Registers
  <2>2. q' \in Ptr
    BY <1>0, <1>12, NullIsNoBlock DEF Leaves
  <2> QED BY <1>0, <2>1, <2>2, <1>12 DEF Leaves, Alike
<1>13. CASE Shows
  <2>1. cuts' \in Seq(CutRecords)
    BY <1>0, <1>13, CutMeans DEF Shows
  <2> QED BY <1>0, <2>1, <1>13 DEF Shows, Alike
<1>14. CASE FreesForNew
  <2>1. error_occurred' \in BOOLEAN
    BY <1>0, <1>14, Zenon DEF FreesForNew
  <2>2. reg' \in Registers
    BY <1>0, <1>14, ResultTypes
  <2> QED BY <1>0, <2>1, <2>2, <1>14 DEF FreesForNew
<1>15. ASSUME NEW n \in Nat, Counts(n) PROVE Types'
  BY <1>0, <1>1, <1>15 DEF Counts, ArgBlocks
<1>16. CASE Stops
  BY <1>0, <1>1, <1>16 DEF Stops
<1>17. CASE IsCut
  <2>1. reg.fn \in Commands
    BY <1>0 DEF Registers
  <2>2. cuts' \in Seq(CutRecords)
    BY <1>0, <2>1, <1>17, CutMeans DEF IsCut
  <2>3. allocated_count' \in Int
    BY <1>0, <1>17 DEF IsCut
  <2> QED BY <1>0, <2>2, <2>3, <1>17 DEF IsCut, Alike
<1>18. CASE IsKilled
  <2>1. reg.fn \in Commands
    BY <1>0 DEF Registers
  <2>2. cuts' \in Seq(CutRecords)
    BY <1>0, <2>1, <1>18, CutMeans DEF IsKilled
  <2> QED BY <1>0, <2>2, <1>18 DEF IsKilled
<1>19. CASE Jumps
  BY <1>0, <1>1, <1>19 DEF Jumps
<1>20. CASE Idles
  BY <1>0, <1>1, <1>20 DEF Idles, vars
<1> QED BY <1>0, <1>2, <1>3, <1>4, <1>5, <1>6, <1>7, <1>8, <1>9, <1>10, <1>11, <1>12, <1>13, <1>14,
           <1>15, <1>16, <1>17, <1>18, <1>19, <1>20, Zenon DEF OtherEffect

LEMMA FlowStep == ASSUME Base, Next, ~QueueOp PROVE Flow' /\ Modes'
<1>0. OtherEffect /\ Types /\ Flow /\ Modes
  BY OtherMeans DEF Base
<1>1. NULL = NoRegs.new /\ NULL = NoRegs.lp /\ NULL = NoRegs.prv /\ NoRegs.fn = "none" /\ NoRegs.sub = "none"
  BY DEF NoRegs
<1>2. error_occurred \in BOOLEAN /\ jmp_ready \in BOOLEAN /\ cautious_mode \in BOOLEAN
  BY <1>0 DEF Types
<1> USE DEF Flow, Modes, QueuePC, Ends, Between, InsertPC, RemovePC, harness, blocks, modes, exceptions, console, tester,
            history, machine, Keep, ConsoleKept, Interrupt
<1>3. CASE Opens
  BY <1>0, <1>1, <1>2, <1>3 DEF Opens
<1>4. CASE Skips
  BY <1>0, <1>1, <1>2, <1>4 DEF Skips
<1>5. CASE Pops
  BY <1>0, <1>1, <1>2, <1>5 DEF Pops
<1>6. CASE Interprets
  BY <1>0, <1>1, <1>2, <1>6, LineTypes DEF Interprets
<1>7. CASE Finishes
  BY <1>0, <1>1, <1>2, <1>7, QuitTypes DEF Finishes
<1>8. CASE FreesFirst
  BY <1>0, <1>1, <1>2, <1>8 DEF FreesFirst
<1>9. CASE Begins
  <2>1. /\ pc = "enter" /\ reg'.fn = reg.fn /\ reg'.sub = reg.sub /\ reg'.s = reg.s /\ UNCHANGED quit_flag
        /\ (reg.fn # "quit" => ~error_occurred')
    BY <1>9 DEF Begins, LocalsBecome, CallKept
  <2>2. CASE BeginsFree
    BY <1>0, <1>1, <1>2, <1>9, <2>1, <2>2 DEF BeginsFree
  <2>3. CASE BeginsReverse
    BY <1>0, <1>1, <1>2, <1>9, <2>1, <2>3 DEF BeginsReverse
  <2>4. CASE BeginsOther
    BY <1>0, <1>1, <1>2, <1>9, <2>1, <2>4 DEF BeginsOther
  <2> QED BY <2>2, <2>3, <2>4, <1>9 DEF Begins
<1>10. CASE OnlyReturns
  BY <1>0, <1>1, <1>2, <1>10 DEF OnlyReturns, Alike
<1>11. CASE InsertReturns /\ UNCHANGED <<fail_probability, console, history>>
  BY <1>0, <1>1, <1>2, <1>11 DEF InsertReturns, Alike, NoStore, Settle
<1>12. CASE OtherReturns /\ UNCHANGED <<fail_probability, console, history>>
  BY <1>0, <1>1, <1>2, <1>12 DEF OtherReturns, Alike, NoStore, Settle
<1>13. CASE Leaves
  BY <1>0, <1>1, <1>2, <1>13 DEF Leaves, Alike
<1>14. CASE Shows
  BY <1>0, <1>1, <1>2, <1>14 DEF Shows, Alike
<1>15. CASE FreesForNew
  BY <1>0, <1>1, <1>2, <1>15, ResultTypes DEF FreesForNew
<1>16. ASSUME NEW n \in Nat, Counts(n) PROVE Flow' /\ Modes'
  BY <1>0, <1>1, <1>2, <1>16 DEF Counts
<1>17. CASE Stops
  BY <1>0, <1>1, <1>2, <1>17 DEF Stops
<1>18. CASE IsCut
  BY <1>0, <1>1, <1>2, <1>18 DEF IsCut, Alike
<1>19. CASE IsKilled
  BY <1>0, <1>1, <1>2, <1>19 DEF IsKilled
<1>20. CASE Jumps
  BY <1>0, <1>1, <1>2, <1>20 DEF Jumps
<1>21. CASE Idles
  BY <1>0, <1>1, <1>2, <1>21 DEF Idles, vars
<1> QED BY <1>0, <1>3, <1>4, <1>5, <1>6, <1>7, <1>8, <1>9, <1>10, <1>11, <1>12, <1>13, <1>14, <1>15,
           <1>16, <1>17, <1>18, <1>19, <1>20, <1>21, Zenon DEF OtherEffect

LEMMA AccountStep == ASSUME Base, Next, ~QueueOp PROVE Account'
<1>0. OtherEffect /\ Types /\ Flow /\ Modes
  BY OtherMeans DEF Base
<1>1. /\ accounted \in Int /\ files \in Seq(File) /\ Len(files) \in Nat /\ err_cnt \in Nat
      /\ (files = << >> <=> Len(files) = 0) /\ Account
  BY <1>0 DEF Types, Base
<1>2. NoRegs.fn = "none" /\ NoRegs.sub = "none"
  BY DEF NoRegs
<1>3. Types'
  BY TypesStep
<1>4. accounted' \in Int /\ Len(files') \in Nat /\ (files' = << >> <=> Len(files') = 0) /\ err_cnt' \in Nat
  BY <1>3 DEF Types
<1> USE DEF Account, Flow, Arguments, ArgBlocks, Registered, QueuePC, Ends, console, history, machine, ConsoleKept, Interrupt
<1>5. CASE Opens
  <2>1. pc = "main" /\ accounted = 22 /\ Len(files) = 0 /\ ~quit_flag
    BY <1>0, <1>1, <1>2, <1>4, <1>5 DEF Opens
  <2>2. UNCHANGED quit_flag
    BY <1>5 DEF Opens
  <2>3. CASE pc' = "exit1"
    BY <1>1, <2>1, <2>3, <1>5 DEF Opens
  <2>4. CASE pc' # "exit1"
    <3>0. pc' = "ready" /\ accounted' = accounted + 1 /\ Len(files') = Len(files) + 1
      BY <2>4, <1>5, Zenon DEF Opens
    <3>1. pc' = "ready" /\ accounted' = 22 + Len(files')
      BY <1>4, <2>1, <3>0
    <3> QED BY <1>4, <2>1, <2>2, <3>1
  <2> QED BY <2>3, <2>4
<1>6. CASE Skips
  BY <1>0, <1>1, <1>2, <1>4, <1>6 DEF Skips
<1>7. CASE Pops
  BY <1>0, <1>1, <1>2, <1>4, <1>7 DEF Pops
<1>8. CASE Interprets
  <2>1. \/ Len(files') = Len(files) /\ accounted' = accounted + 2
        \/ Len(files') = Len(files) - 1 /\ accounted' = accounted + 1
    BY <1>0, <1>1, <1>2, <1>4, <1>8, FilesMove DEF Interprets
  <2>2. /\ pc = "ready" /\ pc' = "enter" /\ ~quit_flag /\ reg'.sub = "none" /\ UNCHANGED quit_flag
    BY <1>8, LineTypes DEF Interprets
  <2>3. accounted = 22 + Len(files)
    BY <1>1, <2>2
  <2> QED BY <1>1, <1>4, <2>1, <2>2, <2>3
<1>9. CASE Finishes
  <2>1. pc = "ready" /\ UNCHANGED <<accounted, files, quit_flag, err_cnt>>
    BY <1>9 DEF Finishes
  <2>2. CASE pc' = "exit1"
    BY <1>1, <2>1, <2>2
  <2>3. CASE pc' = "exit0"
    BY <1>1, <2>1, <2>3, <1>9 DEF Finishes
  <2>4. CASE pc' = "enter"
    <3>1. ~quit_flag /\ files = << >> /\ reg'.sub = "main"
      BY <2>4, <1>9, QuitTypes DEF Finishes, cmd_done
    <3> QED BY <1>1, <2>1, <2>4, <3>1
  <2> QED BY <2>2, <2>3, <2>4, <1>9 DEF Finishes
<1>10. CASE FreesFirst
  BY <1>0, <1>1, <1>2, <1>4, <1>10 DEF FreesFirst
<1>11. CASE Begins
  BY <1>0, <1>1, <1>2, <1>4, <1>11 DEF Begins, BeginsFree, BeginsReverse, BeginsOther, LocalsBecome, CallKept
<1>12. CASE OnlyReturns
  BY <1>0, <1>1, <1>2, <1>4, <1>12 DEF OnlyReturns, Alike
<1>13. CASE InsertReturns /\ UNCHANGED <<fail_probability, console, history>>
  BY <1>0, <1>1, <1>2, <1>4, <1>13 DEF InsertReturns, Alike, NoStore, Settle
<1>14. CASE OtherReturns /\ UNCHANGED <<fail_probability, console, history>>
  BY <1>0, <1>1, <1>2, <1>4, <1>14 DEF OtherReturns, Alike, NoStore, Settle
<1>15. CASE Leaves
  BY <1>0, <1>1, <1>2, <1>4, <1>15 DEF Leaves, Alike
<1>16. CASE Shows
  BY <1>0, <1>1, <1>2, <1>4, <1>16 DEF Shows, Alike
<1>17. CASE FreesForNew
  BY <1>0, <1>1, <1>2, <1>4, <1>17, ResultTypes DEF FreesForNew
<1>18. ASSUME NEW n \in Nat, Counts(n) PROVE Account'
  BY <1>0, <1>1, <1>2, <1>4, <1>18 DEF Counts
<1>19. CASE Stops
  BY <1>0, <1>1, <1>2, <1>4, <1>19 DEF Stops
<1>20. CASE IsCut
  BY <1>0, <1>1, <1>2, <1>4, <1>20 DEF IsCut, Alike
<1>21. CASE IsKilled
  BY <1>0, <1>1, <1>2, <1>4, <1>21 DEF IsKilled
<1>22. CASE Jumps
  BY <1>0, <1>1, <1>2, <1>4, <1>22 DEF Jumps
<1>23. CASE Idles
  BY <1>0, <1>1, <1>2, <1>4, <1>23 DEF Idles, vars
<1> QED BY <1>0, <1>5, <1>6, <1>7, <1>8, <1>9, <1>10, <1>11, <1>12, <1>13, <1>14, <1>15, <1>16, <1>17,
           <1>18, <1>19, <1>20, <1>21, <1>22, <1>23, Zenon DEF OtherEffect

LEMMA CountedStep == ASSUME Base, Next, ~QueueOp PROVE Counted'
<1>0. OtherEffect /\ Types /\ Flow /\ Modes
  BY OtherMeans DEF Base
<1>1. /\ Cardinality(CountedCuts) \in Nat /\ err_cnt \in Nat /\ Counted
      /\ error_occurred \in BOOLEAN /\ reg.ok \in BOOLEAN /\ jmp_ready \in BOOLEAN
  BY <1>0, CountedCutsSize DEF Base, Types, Registers
<1>2. UNCHANGED cuts => Cardinality(CountedCuts)' = Cardinality(CountedCuts)
  BY DEF CountedCuts
<1>3. NoRegs.ok = TRUE /\ NoRegs.fn = "none"
  BY DEF NoRegs
<1> DEFINE N == Cardinality(CountedCuts)
           M == Cardinality(CountedCuts)'
<1>4. /\ N \in Nat /\ (UNCHANGED cuts => M = N)
      /\ pc \notin Ends => err_cnt + (IF Failing THEN 1 ELSE 0) >= N
      /\ (pc' \notin Ends => err_cnt' + (IF Failing' THEN 1 ELSE 0) >= M) => Counted'
  BY <1>1, <1>2 DEF Counted
<1> HIDE DEF N, M
<1> USE DEF QueuePC, Ends, Checks, harness, blocks, modes, exceptions, console, tester, history, machine,
            Keep, ConsoleKept, Interrupt
<1>5. ASSUME UNCHANGED <<cuts, err_cnt>>, Failing => Failing' \/ pc' \in Ends, pc \notin Ends PROVE Counted'
  BY <1>1, <1>4, <1>5
<1>6. CASE Opens
  <2>1. UNCHANGED <<cuts, err_cnt>> /\ pc \notin Ends
    BY <1>6 DEF Opens
  <2>2. Failing => Failing' \/ pc' \in Ends
    BY <1>0, <1>1, <1>3, <1>6 DEF Opens, Failing, Flow, Modes
  <2> QED BY <1>5, <2>1, <2>2
<1>7. CASE Skips
  <2>1. UNCHANGED <<cuts, err_cnt>> /\ pc \notin Ends
    BY <1>7 DEF Skips
  <2>2. Failing => Failing' \/ pc' \in Ends
    BY <1>0, <1>1, <1>3, <1>7 DEF Skips, Failing, Flow, Modes
  <2> QED BY <1>5, <2>1, <2>2
<1>8. CASE Pops
  <2>1. UNCHANGED <<cuts, err_cnt>> /\ pc \notin Ends
    BY <1>8 DEF Pops
  <2>2. Failing => Failing' \/ pc' \in Ends
    BY <1>0, <1>1, <1>3, <1>8 DEF Pops, Failing, Flow, Modes
  <2> QED BY <1>5, <2>1, <2>2
<1>9. CASE Interprets
  <2>1. UNCHANGED <<cuts, err_cnt>> /\ pc \notin Ends
    BY <1>9 DEF Interprets
  <2>2. Failing => Failing' \/ pc' \in Ends
    BY <1>0, <1>1, <1>3, LineTypes, <1>9 DEF Interprets, Failing, Flow, Modes
  <2> QED BY <1>5, <2>1, <2>2
<1>10. CASE Finishes
  <2>1. UNCHANGED <<cuts, err_cnt>> /\ pc \notin Ends
    BY <1>10 DEF Finishes
  <2>2. Failing => Failing' \/ pc' \in Ends
    BY <1>0, <1>1, <1>3, QuitTypes, <1>10 DEF Finishes, Failing, Flow, Modes
  <2> QED BY <1>5, <2>1, <2>2
<1>11. CASE FreesFirst
  <2>1. UNCHANGED <<cuts, err_cnt>> /\ pc \notin Ends
    BY <1>11 DEF FreesFirst
  <2>2. Failing => Failing' \/ pc' \in Ends
    BY <1>0, <1>1, <1>3, <1>11 DEF FreesFirst, Failing, Flow, Modes
  <2> QED BY <1>5, <2>1, <2>2
<1>12. CASE Begins
  <2>1. UNCHANGED <<cuts, err_cnt>> /\ pc \notin Ends
    BY <1>12 DEF Begins, BeginsFree, BeginsReverse, BeginsOther, LocalsBecome, CallKept
  <2>2. Failing => Failing' \/ pc' \in Ends
    BY <1>0, <1>1, <1>3, <1>12 DEF Begins, BeginsFree, BeginsReverse, BeginsOther, LocalsBecome, CallKept, Failing, Flow, Modes
  <2> QED BY <1>5, <2>1, <2>2
<1>13. CASE OnlyReturns
  <2>1. UNCHANGED <<cuts, err_cnt>> /\ pc \notin Ends
    BY <1>13 DEF OnlyReturns
  <2>2. Failing => Failing' \/ pc' \in Ends
    BY <1>0, <1>1, <1>3, <1>13 DEF OnlyReturns, Failing, Flow, Modes, Alike
  <2> QED BY <1>5, <2>1, <2>2
<1>14. CASE InsertReturns /\ UNCHANGED <<fail_probability, console, history>>
  <2>1. UNCHANGED <<cuts, err_cnt>> /\ pc \notin Ends
    BY <1>14 DEF InsertReturns
  <2>2. Failing => Failing' \/ pc' \in Ends
    BY <1>0, <1>1, <1>3, <1>14 DEF InsertReturns, Failing, Flow, Modes, Alike
  <2> QED BY <1>5, <2>1, <2>2
<1>15. CASE OtherReturns /\ UNCHANGED <<fail_probability, console, history>>
  <2>1. UNCHANGED <<cuts, err_cnt>> /\ pc \notin Ends
    BY <1>15 DEF OtherReturns
  <2>2. Failing => Failing' \/ pc' \in Ends
    BY <1>0, <1>1, <1>3, <1>15 DEF OtherReturns, Failing, Flow, Modes, Alike
  <2> QED BY <1>5, <2>1, <2>2
<1>16. CASE Leaves
  <2>1. UNCHANGED <<cuts, err_cnt>> /\ pc \notin Ends
    BY <1>16 DEF Leaves
  <2>2. Failing => Failing' \/ pc' \in Ends
    BY <1>0, <1>1, <1>3, <1>16 DEF Leaves, Failing, Flow, Modes, Alike
  <2> QED BY <1>5, <2>1, <2>2
<1>17. CASE Shows
  <2>1. M = N /\ err_cnt' = err_cnt /\ pc = "show" /\ pc' = "done"
    <3>1. UNCHANGED cuts => M = N
      BY <1>4
    <3>2. Cut("show") => M = N
      BY <1>0, <1>1, CutMeans DEF M, N
    <3> QED BY <3>1, <3>2, <1>17 DEF Shows
  <2>2. Failing => Failing'
    BY <2>1, <1>17 DEF Failing, Shows, Alike
  <2> QED BY <1>1, <1>4, <2>1, <2>2
<1>18. CASE FreesForNew
  <2>1. UNCHANGED <<cuts, err_cnt>> /\ pc \notin Ends
    BY <1>18 DEF FreesForNew
  <2>2. Failing => Failing' \/ pc' \in Ends
    BY <1>0, <1>1, <1>3, ResultTypes, <1>18 DEF FreesForNew, Failing, Flow, Modes, Result
  <2> QED BY <1>5, <2>1, <2>2
<1>19. ASSUME NEW n \in Nat, Counts(n) PROVE Counted'
  <2>1. /\ UNCHANGED cuts /\ pc = "done" /\ pc' = "ready" /\ err_cnt' = err_cnt + n /\ n \in Nat
        /\ (n = 0 <=> Result)
    BY <1>19, Zenon DEF Counts, history
  <2>2. Failing => n # 0
    BY <1>1, <2>1 DEF Failing, Result
  <2>3. err_cnt' >= N /\ err_cnt' \in Nat
    BY <1>1, <1>4, <2>1, <2>2
  <2> QED BY <1>4, <2>1, <2>3
<1>20. CASE Stops
  <2>1. UNCHANGED <<cuts, err_cnt>> /\ pc \notin Ends
    BY <1>20 DEF Stops
  <2>2. Failing => Failing' \/ pc' \in Ends
    BY <1>0, <1>1, <1>3, <1>20 DEF Stops, Failing, Flow, Modes, Result
  <2> QED BY <1>5, <2>1, <2>2
<1>21. CASE IsCut
  <2> DEFINE counts == reg.fn \notin {"ih", "it", "show", "quit"} /\ verblevel < 3 /\ reg.ok
  <2>0. reg.fn \in Commands
    BY <1>0 DEF Types, Registers
  <2>1. /\ pc' = "cancel" /\ err_cnt' = err_cnt /\ error_occurred' = TRUE /\ verblevel' = verblevel /\ jmp_ready
        /\ reg'.fn = reg.fn /\ reg'.ok = reg.ok /\ pc \in QueuePC \cup {"ret", "cancel"} /\ Cut(reg.fn)
    BY <1>21 DEF IsCut, Alike
  <2>2. M = N + (IF counts THEN 1 ELSE 0)
    BY <1>0, <2>0, <2>1, CutMeans, Zenon DEF M, N
  <2>3. counts => Failing' /\ ~Failing
    BY <1>0, <1>1, <2>1 DEF Failing, Flow, Modes, InsertPC, RemovePC
  <2>4. Failing => Failing'
    BY <1>0, <1>1, <2>1 DEF Failing, Flow, Modes
  <2> HIDE DEF counts
  <2> QED BY <1>1, <1>4, <2>1, <2>2, <2>3, <2>4
<1>22. CASE IsKilled
  BY <1>4, <1>22 DEF IsKilled
<1>23. CASE Jumps
  <2>1. UNCHANGED <<cuts, err_cnt>> /\ pc \notin Ends
    BY <1>23 DEF Jumps
  <2>2. Failing => Failing' \/ pc' \in Ends
    BY <1>0, <1>1, <1>3, <1>23 DEF Jumps, Failing, Flow, Modes
  <2> QED BY <1>5, <2>1, <2>2
<1>24. CASE Idles
  <2>1. UNCHANGED <<cuts, err_cnt, pc>> /\ pc \in Ends
    BY <1>24 DEF Idles, vars
  <2> QED BY <1>4, <2>1
<1> QED BY <1>0, <1>6, <1>7, <1>8, <1>9, <1>10, <1>11, <1>12, <1>13, <1>14, <1>15, <1>16, <1>17, <1>18,
           <1>19, <1>20, <1>21, <1>22, <1>23, <1>24, Zenon DEF OtherEffect

LEMMA CountOtherStep == ASSUME Base, Next, ~QueueOp PROVE Count'
<1>0. OtherEffect /\ Types /\ Flow /\ Modes
  BY OtherMeans DEF Base
<1>1. UNCHANGED heap
  BY <1>0 DEF OtherEffect, Opens, Skips, Pops, Interprets, Finishes, FreesFirst, Begins, OnlyReturns, InsertReturns,
              OtherReturns, Leaves, Shows, FreesForNew, Counts, Stops, IsCut, IsKilled, Jumps, Idles, vars, harness,
              blocks, Keep, NoStore
<1>2. Allocated' = Allocated
  BY <1>1 DEF Allocated
<1> DEFINE N == Cardinality(Allocated)
<1>3. N \in Nat /\ (N = 0 <=> Allocated = {}) /\ Cardinality(Allocated)' = N
  BY <1>2, AllocatedSize
<1>4. /\ pc \in Between \cup {"cancel", "caught"} => adj = 0
      /\ cuts = << >> => allocated_count + adj = N
      /\ N <= allocated_count + adj \/ CutInsert \/ NewCut \/ pc = "exit1" \/ pc = "wild"
      /\ adj = 1 => \/ reg.fn \in {"ih", "it"} \/ pc \in Ends
                    \/ reg.fn = "new" /\ pc = "ret" /\ q = NULL
      /\ pc = "done" /\ reg.fn = "quit" /\ reg.ok => Allocated = {} \/ CutInsert \/ err_cnt > 0
      /\ pc = "ready" /\ quit_flag => Allocated = {} \/ CutInsert \/ err_cnt > 0
      /\ pc = "exit0" => Allocated = {} \/ CutInsert
  BY DEF Base, Count
<1>5. /\ pc' \in Between \cup {"cancel", "caught"} => adj' = 0
      /\ cuts' = << >> => allocated_count' + adj' = N
      /\ N <= allocated_count' + adj' \/ CutInsert' \/ NewCut' \/ pc' = "exit1" \/ pc' = "wild"
      /\ adj' = 1 => \/ reg'.fn \in {"ih", "it"} \/ pc' \in Ends
                     \/ reg'.fn = "new" /\ pc' = "ret" /\ q' = NULL
      /\ pc' = "done" /\ reg'.fn = "quit" /\ reg'.ok => Allocated = {} \/ CutInsert' \/ err_cnt' > 0
      /\ pc' = "ready" /\ quit_flag' => Allocated = {} \/ CutInsert' \/ err_cnt' > 0
      /\ pc' = "exit0" => Allocated = {} \/ CutInsert'
      => Count'
  BY <1>2, <1>3 DEF Count
<1> HIDE DEF N
<1>6. /\ allocated_count \in Int /\ adj \in {-1, 0, 1} /\ err_cnt \in Nat /\ quit_flag \in BOOLEAN
      /\ error_occurred \in BOOLEAN /\ reg.ok \in BOOLEAN
  BY <1>0 DEF Types, Registers
<1>7. UNCHANGED cuts => CutInsert' = CutInsert
  BY DEF CutInsert, CutFns
<1> USE DEF QueuePC, Ends, Between, harness, blocks, modes, exceptions, console, tester, history, machine,
            Keep, ConsoleKept, Interrupt
<1>20. ASSUME UNCHANGED <<allocated_count, adj, cuts>>, err_cnt' \in Nat, err_cnt' >= err_cnt,
              pc \notin {"ret", "exit1", "wild"}, pc' # "exit0", NewCut => NewCut' \/ pc' = "exit1",
              adj = 0, pc' = "done" /\ reg'.fn = "quit" /\ reg'.ok => Allocated = {} \/ CutInsert \/ err_cnt > 0,
              pc' = "ready" /\ quit_flag' => Allocated = {} \/ CutInsert \/ err_cnt' > 0
       PROVE  Count'
  BY <1>3, <1>4, <1>5, <1>6, <1>7, <1>20
<1>21. CASE Opens
  <2>1. /\ UNCHANGED <<allocated_count, adj, cuts, err_cnt>> /\ pc \notin {"ret", "exit1", "wild"}
        /\ pc' # "exit0"
    BY <1>21 DEF Opens
  <2>2. NewCut => NewCut' \/ pc' = "exit1"
    BY <1>0, <2>1, <1>21 DEF Opens, NewCut, Flow
  <2>3. adj = 0
    BY <1>4, <1>21 DEF Opens
  <2>4. pc' = "done" /\ reg'.fn = "quit" /\ reg'.ok => Allocated = {} \/ CutInsert \/ err_cnt > 0
    BY <1>0, <1>4, <1>21 DEF Opens, Flow
  <2>5. pc' = "ready" /\ quit_flag' => Allocated = {} \/ CutInsert \/ err_cnt' > 0
    BY <1>0, <1>4, <1>21 DEF Opens, Flow
  <2> QED BY <1>6, <1>20, <2>1, <2>2, <2>3, <2>4, <2>5
<1>22. CASE Skips
  <2>1. /\ UNCHANGED <<allocated_count, adj, cuts, err_cnt>> /\ pc \notin {"ret", "exit1", "wild"}
        /\ pc' # "exit0"
    BY <1>22 DEF Skips
  <2>2. NewCut => NewCut' \/ pc' = "exit1"
    BY <1>0, <2>1, <1>22 DEF Skips, NewCut, Flow
  <2>3. adj = 0
    BY <1>4, <1>22 DEF Skips
  <2>4. pc' = "done" /\ reg'.fn = "quit" /\ reg'.ok => Allocated = {} \/ CutInsert \/ err_cnt > 0
    BY <1>0, <1>4, <1>22 DEF Skips, Flow
  <2>5. pc' = "ready" /\ quit_flag' => Allocated = {} \/ CutInsert \/ err_cnt' > 0
    BY <1>0, <1>4, <1>22 DEF Skips, Flow
  <2> QED BY <1>6, <1>20, <2>1, <2>2, <2>3, <2>4, <2>5
<1>23. CASE Pops
  <2>1. /\ UNCHANGED <<allocated_count, adj, cuts, err_cnt>> /\ pc \notin {"ret", "exit1", "wild"}
        /\ pc' # "exit0"
    BY <1>23 DEF Pops
  <2>2. NewCut => NewCut' \/ pc' = "exit1"
    BY <1>0, <2>1, <1>23 DEF Pops, NewCut, Flow
  <2>3. adj = 0
    BY <1>4, <1>23 DEF Pops
  <2>4. pc' = "done" /\ reg'.fn = "quit" /\ reg'.ok => Allocated = {} \/ CutInsert \/ err_cnt > 0
    BY <1>0, <1>4, <1>23 DEF Pops, Flow
  <2>5. pc' = "ready" /\ quit_flag' => Allocated = {} \/ CutInsert \/ err_cnt' > 0
    BY <1>0, <1>4, <1>23 DEF Pops, Flow
  <2> QED BY <1>6, <1>20, <2>1, <2>2, <2>3, <2>4, <2>5
<1>24. CASE Interprets
  <2>1. /\ UNCHANGED <<allocated_count, adj, cuts, err_cnt>> /\ pc \notin {"ret", "exit1", "wild"}
        /\ pc' # "exit0"
    BY <1>24 DEF Interprets
  <2>2. NewCut => NewCut' \/ pc' = "exit1"
    BY <1>0, <2>1, LineTypes, <1>24 DEF Interprets, NewCut, Flow
  <2>3. adj = 0
    BY <1>4, <1>24 DEF Interprets
  <2>4. pc' = "done" /\ reg'.fn = "quit" /\ reg'.ok => Allocated = {} \/ CutInsert \/ err_cnt > 0
    BY <1>0, <1>4, <1>24 DEF Interprets, Flow
  <2>5. pc' = "ready" /\ quit_flag' => Allocated = {} \/ CutInsert \/ err_cnt' > 0
    BY <1>0, <1>4, <1>24 DEF Interprets, Flow
  <2> QED BY <1>6, <1>20, <2>1, <2>2, <2>3, <2>4, <2>5
<1>25. CASE Finishes
  <2>1. /\ UNCHANGED <<allocated_count, adj, cuts, err_cnt, quit_flag>> /\ pc = "ready" /\ pc' \in {"exit1", "exit0", "enter"}
        /\ (pc' = "exit0" => err_cnt = 0 /\ quit_flag)
    BY <1>25 DEF Finishes
  <2>2. N <= allocated_count' + adj' \/ CutInsert' \/ NewCut' \/ pc' = "exit1"
    BY <1>4, <1>7, <2>1 DEF NewCut
  <2>3. pc' = "exit0" => Allocated = {} \/ CutInsert'
    BY <1>4, <1>6, <1>7, <2>1
  <2> QED BY <1>4, <1>5, <1>7, <2>1, <2>2, <2>3
<1>26. CASE FreesFirst
  <2>1. /\ UNCHANGED <<allocated_count, adj, cuts, err_cnt>> /\ pc \notin {"ret", "exit1", "wild"}
        /\ pc' # "exit0"
    BY <1>26 DEF FreesFirst
  <2>2. NewCut => NewCut' \/ pc' = "exit1"
    BY <1>0, <2>1, <1>26 DEF FreesFirst, NewCut, Flow
  <2>3. adj = 0
    BY <1>4, <1>26 DEF FreesFirst
  <2>4. pc' = "done" /\ reg'.fn = "quit" /\ reg'.ok => Allocated = {} \/ CutInsert \/ err_cnt > 0
    BY <1>0, <1>4, <1>26 DEF FreesFirst, Flow
  <2>5. pc' = "ready" /\ quit_flag' => Allocated = {} \/ CutInsert \/ err_cnt' > 0
    BY <1>0, <1>4, <1>26 DEF FreesFirst, Flow
  <2> QED BY <1>6, <1>20, <2>1, <2>2, <2>3, <2>4, <2>5
<1>27. CASE Begins
  <2>1. /\ UNCHANGED <<allocated_count, adj, cuts, err_cnt>> /\ pc \notin {"ret", "exit1", "wild"}
        /\ pc' # "exit0"
    BY <1>27 DEF Begins, BeginsFree, BeginsReverse, BeginsOther, LocalsBecome, CallKept
  <2>2. NewCut => NewCut' \/ pc' = "exit1"
    BY <1>0, <2>1, <1>27 DEF Begins, BeginsFree, BeginsReverse, BeginsOther, LocalsBecome, CallKept, NewCut, Flow
  <2>3. adj = 0
    BY <1>4, <1>27 DEF Begins
  <2>4. pc' = "done" /\ reg'.fn = "quit" /\ reg'.ok => Allocated = {} \/ CutInsert \/ err_cnt > 0
    BY <1>0, <1>4, <1>27 DEF Begins, Flow, BeginsFree, BeginsReverse, BeginsOther, LocalsBecome, CallKept
  <2>5. pc' = "ready" /\ quit_flag' => Allocated = {} \/ CutInsert \/ err_cnt' > 0
    BY <1>0, <1>4, <1>27 DEF Begins, Flow, BeginsFree, BeginsReverse, BeginsOther, LocalsBecome, CallKept
  <2> QED BY <1>6, <1>20, <2>1, <2>2, <2>3, <2>4, <2>5
<1>28. CASE OnlyReturns
  <2>1. /\ UNCHANGED <<allocated_count, adj, cuts, err_cnt>> /\ pc \notin {"ret", "exit1", "wild"}
        /\ pc' # "exit0"
    BY <1>28 DEF OnlyReturns
  <2>2. NewCut => NewCut' \/ pc' = "exit1"
    BY <1>0, <2>1, <1>28 DEF OnlyReturns, NewCut, Flow, Alike
  <2>3. adj = 0
    BY <1>4, <1>28 DEF OnlyReturns
  <2>4. pc' = "done" /\ reg'.fn = "quit" /\ reg'.ok => Allocated = {} \/ CutInsert \/ err_cnt > 0
    BY <1>0, <1>4, <1>28 DEF OnlyReturns, Flow, Alike
  <2>5. pc' = "ready" /\ quit_flag' => Allocated = {} \/ CutInsert \/ err_cnt' > 0
    BY <1>0, <1>4, <1>28 DEF OnlyReturns, Flow, Alike
  <2> QED BY <1>6, <1>20, <2>1, <2>2, <2>3, <2>4, <2>5
<1>29. CASE InsertReturns /\ UNCHANGED <<fail_probability, console, history>>
  <2>1. /\ UNCHANGED <<cuts, err_cnt>> /\ pc = "ret"
        /\ allocated_count' = allocated_count + adj
    BY <1>29 DEF InsertReturns, NoStore, Settle
  <2>4. adj' = 0 /\ pc' \in {"cancel", "insert"}
    BY <1>29 DEF InsertReturns, NoStore
  <2>2. N <= allocated_count' + adj' \/ CutInsert' \/ NewCut'
    <3>1. N <= allocated_count + adj \/ CutInsert \/ err_cnt > 0
      BY <1>4, <2>1 DEF NewCut
    <3>2. err_cnt > 0 => NewCut'
      BY <2>1 DEF NewCut
    <3> QED BY <1>6, <1>7, <2>1, <2>4, <3>1, <3>2
  <2>3. cuts' = << >> => allocated_count' + adj' = N
    BY <1>4, <1>6, <2>1, <2>4
  <2> QED BY <1>5, <2>2, <2>3, <2>4
<1>30. CASE OtherReturns /\ UNCHANGED <<fail_probability, console, history>>
  <2>1. /\ UNCHANGED <<cuts, err_cnt>> /\ pc = "ret"
        /\ allocated_count' = allocated_count + adj
    BY <1>30 DEF OtherReturns, NoStore, Settle
  <2>4. adj' = 0 /\ pc' \in {"cancel", "size"}
    BY <1>30 DEF OtherReturns, NoStore
  <2>2. N <= allocated_count' + adj' \/ CutInsert' \/ NewCut'
    <3>1. N <= allocated_count + adj \/ CutInsert \/ err_cnt > 0
      BY <1>4, <2>1 DEF NewCut
    <3>2. err_cnt > 0 => NewCut'
      BY <2>1 DEF NewCut
    <3> QED BY <1>6, <1>7, <2>1, <2>4, <3>1, <3>2
  <2>3. cuts' = << >> => allocated_count' + adj' = N
    BY <1>4, <1>6, <2>1, <2>4
  <2> QED BY <1>5, <2>2, <2>3, <2>4
<1>31. CASE Leaves
  <2>1. /\ UNCHANGED <<allocated_count, adj, cuts, err_cnt>> /\ pc = "cancel" /\ pc' \in {"done", "show"}
        /\ adj = 0 /\ reg'.fn = reg.fn
    BY <1>4, <1>31 DEF Leaves, Alike
  <2>2. NewCut => NewCut'
    BY <2>1, <1>31 DEF NewCut, Leaves
  <2>3. reg.fn = "quit" /\ reg'.ok => Allocated = {} \/ CutInsert \/ err_cnt > 0
    <3>1. reg.fn = "quit" /\ reg'.ok => allocated_count = 0 /\ (NewCut => err_cnt > 0)
      BY <1>31 DEF Leaves, NewCut
    <3> QED BY <1>3, <1>4, <1>6, <2>1, <3>1
  <2> QED BY <1>6, <1>20, <2>1, <2>2, <2>3
<1>32. CASE Shows
  <2>1. /\ UNCHANGED <<allocated_count, adj, err_cnt>> /\ pc = "show" /\ pc' = "done"
        /\ adj = 0 /\ reg'.fn = reg.fn
    BY <1>4, <1>32 DEF Shows, Alike
  <2>2. NewCut => NewCut'
    BY <2>1, <1>32 DEF NewCut, Shows
  <2>3. (UNCHANGED cuts \/ cuts' # << >>) /\ (CutInsert => CutInsert')
    <3>1. Cut("show") => cuts' # << >> /\ CutFns' = CutFns \cup {"show"}
      BY <1>0, CutMeans
    <3> QED BY <1>7, <3>1, <1>32 DEF Shows, CutInsert
  <2>4. reg'.fn # "quit"
    BY <1>0, <2>1 DEF Flow
  <2> QED BY <1>4, <1>5, <2>1, <2>2, <2>3, <2>4
<1>33. CASE FreesForNew
  <2>1. /\ UNCHANGED <<allocated_count, adj, cuts, err_cnt>> /\ pc \notin {"ret", "exit1", "wild"}
        /\ pc' # "exit0"
    BY <1>33 DEF FreesForNew
  <2>2. NewCut => NewCut' \/ pc' = "exit1"
    BY <1>0, <2>1, ResultTypes, <1>33 DEF FreesForNew, NewCut, Flow
  <2>3. adj = 0
    BY <1>4, <1>33 DEF FreesForNew
  <2>4. pc' = "done" /\ reg'.fn = "quit" /\ reg'.ok => Allocated = {} \/ CutInsert \/ err_cnt > 0
    BY <1>0, <1>4, <1>33 DEF FreesForNew, Flow
  <2>5. pc' = "ready" /\ quit_flag' => Allocated = {} \/ CutInsert \/ err_cnt' > 0
    BY <1>0, <1>4, <1>33 DEF FreesForNew, Flow
  <2> QED BY <1>6, <1>20, <2>1, <2>2, <2>3, <2>4, <2>5
<1>34. ASSUME NEW n \in Nat, Counts(n) PROVE Count'
  <2>1. /\ UNCHANGED <<allocated_count, adj, cuts>> /\ pc = "done" /\ pc' = "ready" /\ err_cnt' = err_cnt + n /\ n \in Nat
        /\ adj = 0 /\ (n = 0 <=> Result) /\ ~quit_flag /\ (quit_flag' => quit_flag \/ reg.fn = "quit" \/ n > 0)
    BY <1>0, <1>4, <1>34 DEF Counts, Flow
  <2>2. NewCut => NewCut'
    BY <1>6, <2>1 DEF NewCut, Result, Checks
  <2>3. quit_flag' => Allocated = {} \/ CutInsert \/ err_cnt' > 0
    BY <1>4, <1>6, <2>1 DEF Result
  <2> QED BY <1>6, <1>20, <2>1, <2>2, <2>3
<1>35. CASE Stops
  <2>1. /\ UNCHANGED <<allocated_count, adj, cuts, err_cnt>> /\ pc = "done" /\ reg.sub = "main" /\ adj = 0
        /\ ((pc' = "exit0" /\ Result /\ err_cnt = 0) \/ pc' = "exit1")
    BY <1>4, <1>35 DEF Stops
  <2>2. N <= allocated_count' + adj' \/ CutInsert' \/ NewCut' \/ pc' = "exit1"
    BY <1>0, <1>4, <1>7, <2>1 DEF NewCut, Flow
  <2>3. pc' = "exit0" => Allocated = {} \/ CutInsert'
    BY <1>0, <1>4, <1>6, <1>7, <2>1 DEF Flow, Result
  <2> QED BY <1>4, <1>5, <2>1, <2>2, <2>3
<1>36. CASE IsCut
  <2>0. reg.fn \in Commands
    BY <1>0 DEF Types, Registers
  <2>1. cuts' # << >> /\ CutFns' = CutFns \cup {reg.fn}
    BY <1>0, <2>0, CutMeans, <1>36 DEF IsCut
  <2>2. /\ adj' = 0 /\ allocated_count' \in {allocated_count, allocated_count + adj} /\ UNCHANGED <<q, err_cnt>>
        /\ pc' = "cancel" /\ error_occurred' = TRUE /\ reg'.fn = reg.fn /\ pc \in QueuePC \cup {"ret", "cancel"}
    BY <1>36 DEF IsCut, Alike
  <2>3. CASE adj = 1 /\ allocated_count' = allocated_count
    <3>1. reg.fn \in {"ih", "it"} => CutInsert'
      BY <2>1 DEF CutInsert
    <3>2. reg.fn = "new" /\ q = NULL => NewCut'
      BY <2>2 DEF NewCut
    <3>3. reg.fn \in {"ih", "it"} \/ (reg.fn = "new" /\ q = NULL)
      <4>1. pc \notin Ends
        BY <2>2
      <4> QED BY <1>4, <2>3, <4>1
    <3> QED BY <1>5, <2>1, <2>2, <3>1, <3>2, <3>3
  <2>4. CASE ~(adj = 1 /\ allocated_count' = allocated_count)
    <3>1. allocated_count' + adj' >= allocated_count + adj /\ allocated_count' \in Int /\ adj' = 0
      <4>1. allocated_count \in Int /\ adj \in {-1, 0, 1} /\ adj' = 0
        BY <1>6, <2>2
      <4>2. CASE allocated_count' = allocated_count + adj
        BY ONLY <4>1, <4>2
      <4>3. CASE allocated_count' = allocated_count /\ adj # 1
        <5>1. adj <= 0
          BY ONLY <4>1, <4>3
        <5> QED BY ONLY <4>1, <4>3, <5>1
      <4> QED BY <2>2, <2>4, <4>2, <4>3
    <3>2. CutInsert => CutInsert'
      BY <2>1 DEF CutInsert
    <3>3. NewCut => NewCut'
      BY <2>2 DEF NewCut
    <3>4. N <= allocated_count' + adj' \/ CutInsert' \/ NewCut'
      <4>1. N <= allocated_count + adj \/ CutInsert \/ NewCut
        BY <1>4, <2>2 DEF QueuePC
      <4>2. N <= allocated_count + adj => N <= allocated_count' + adj'
        <5>1. N \in Int /\ adj \in Int
          BY <1>3, <1>6
        <5>2. \A n, x, y \in Int : n <= x /\ y >= x => n <= y
          OBVIOUS
        <5>3. allocated_count + adj \in Int /\ allocated_count' + adj' \in Int
          BY <5>1, <1>6, <3>1
        <5> QED BY <5>1, <5>2, <5>3, <3>1, Zenon
      <4> QED BY <4>1, <4>2, <3>2, <3>3
    <3> QED BY <1>4, <1>5, <2>1, <2>2, <3>4
  <2> QED BY <2>3, <2>4
<1>37. CASE IsKilled
  <2>0. reg.fn \in Commands
    BY <1>0 DEF Types, Registers
  <2>1. cuts' # << >> /\ pc' = "exit1"
    BY <1>0, <2>0, CutMeans, <1>37 DEF IsKilled
  <2> QED BY <1>5, <2>1
<1>38. CASE Jumps
  <2>1. /\ UNCHANGED <<allocated_count, adj, cuts, err_cnt>> /\ pc \notin {"ret", "exit1", "wild"}
        /\ pc' # "exit0"
    BY <1>38 DEF Jumps
  <2>2. NewCut => NewCut' \/ pc' = "exit1"
    BY <1>0, <2>1, <1>38 DEF Jumps, NewCut, Flow
  <2>3. adj = 0
    BY <1>4, <1>38 DEF Jumps
  <2>4. pc' = "done" /\ reg'.fn = "quit" /\ reg'.ok => Allocated = {} \/ CutInsert \/ err_cnt > 0
    BY <1>0, <1>4, <1>38 DEF Jumps, Flow
  <2>5. pc' = "ready" /\ quit_flag' => Allocated = {} \/ CutInsert \/ err_cnt' > 0
    BY <1>0, <1>4, <1>38 DEF Jumps, Flow
  <2> QED BY <1>6, <1>20, <2>1, <2>2, <2>3, <2>4, <2>5
<1>39. CASE Idles
  <2>1. UNCHANGED <<allocated_count, adj, cuts, err_cnt, pc, reg, q, error_occurred, quit_flag>> /\ pc \in Ends
    BY <1>39 DEF Idles, vars
  <2>2. NewCut' = NewCut
    BY <2>1 DEF NewCut
  <2> QED BY <1>4, <1>5, <1>7, <2>1, <2>2
<1> QED BY <1>0, <1>21, <1>22, <1>23, <1>24, <1>25, <1>26, <1>27, <1>28, <1>29, <1>30, <1>31, <1>32,
           <1>33, <1>34, <1>35, <1>36, <1>37, <1>38, <1>39, Zenon DEF OtherEffect

----------------------------------------------------------------------------
(* Where the other steps lead, and what they leave in the locals.          *)
Live == pc \in QueuePC \/ (pc = "ret" /\ reg.fn # "new")
Locates == /\ pc' \in Ends \cup {"ready", "enter", "ret", "cancel", "show", "done",
                                "free_value", "reverse", "new", "insert", "remove", "size"}
           /\ pc' = "ret" => reg'.fn \in {"free", "quit"}
           /\ pc' \in {"free_value", "reverse"} => q' # NULL
           /\ pc' = "new" => q' = NULL
           /\ pc' = "reverse" => reg'.lp = head /\ reg'.prv = NULL
           /\ \/ q' \in {q, NULL} /\ (Freed => Freed' \/ q' = NULL)
              \/ q' = reg.new /\ heap[reg.new] = NewQueue /\ pc' = "cancel"
LocalsKept == Live' => \A v \in {reg'.new, reg'.lp, reg'.prv} :
                           \/ v = NULL
                           \/ q # NULL /\ q' = q /\ v = head
                           \/ Live /\ v \in {reg.new, reg.lp, reg.prv}
CutsKept == /\ UNCHANGED heap /\ CutFns \subseteq CutFns'
            /\ segv' => segv \/ pc = "caught"
            /\ pc = "it_tail" => "it" \in CutFns'

LEMMA OtherKeeps == ASSUME Base, Next, ~QueueOp PROVE Locates /\ LocalsKept /\ CutsKept
<1>0. OtherEffect /\ Types /\ Flow /\ Modes /\ Locals
  BY OtherMeans DEF Base
<1>1. /\ reg \in Registers /\ reg.fn \in Commands
      /\ UNCHANGED cuts => CutFns' = CutFns
      /\ NoRegs.new = NULL /\ NoRegs.lp = NULL /\ NoRegs.prv = NULL /\ NoRegs.fn = "none"
  BY <1>0 DEF Types, Registers, CutFns, NoRegs
<1>2. \A fn \in Commands \cup {"show"} : Cut(fn) => CutFns' = CutFns \cup {fn}
  BY <1>0, CutMeans
<1> USE DEF QueuePC, Ends, harness, blocks, modes, exceptions, console, tester, history, machine,
            Keep, ConsoleKept, Interrupt
<1>3. CASE Opens
  <2>1. Locates
    BY <1>0, <1>1, <1>3 DEF Opens, Locates, Flow, Freed, Locals
  <2>2. LocalsKept
    BY <1>0, <1>1, <1>3 DEF Opens, LocalsKept, Live, Flow
  <2>3. CutsKept
    BY <1>0, <1>1, <1>2, <1>3 DEF Opens, CutsKept, Flow
  <2> QED BY <2>1, <2>2, <2>3
<1>4. CASE Skips
  <2>1. Locates
    BY <1>0, <1>1, <1>4 DEF Skips, Locates, Flow, Freed, Locals
  <2>2. LocalsKept
    BY <1>0, <1>1, <1>4 DEF Skips, LocalsKept, Live, Flow
  <2>3. CutsKept
    BY <1>0, <1>1, <1>2, <1>4 DEF Skips, CutsKept, Flow
  <2> QED BY <2>1, <2>2, <2>3
<1>5. CASE Pops
  <2>1. Locates
    BY <1>0, <1>1, <1>5 DEF Pops, Locates, Flow, Freed, Locals
  <2>2. LocalsKept
    BY <1>0, <1>1, <1>5 DEF Pops, LocalsKept, Live, Flow
  <2>3. CutsKept
    BY <1>0, <1>1, <1>2, <1>5 DEF Pops, CutsKept, Flow
  <2> QED BY <2>1, <2>2, <2>3
<1>6. CASE Interprets
  <2>1. Locates
    BY <1>0, <1>1, LineTypes, <1>6 DEF Interprets, Locates, Flow, Freed, Locals
  <2>2. LocalsKept
    BY <1>0, <1>1, LineTypes, <1>6 DEF Interprets, LocalsKept, Live, Flow
  <2>3. CutsKept
    BY <1>0, <1>1, <1>2, <1>6 DEF Interprets, CutsKept, Flow
  <2> QED BY <2>1, <2>2, <2>3
<1>7. CASE Finishes
  <2>1. Locates
    BY <1>0, <1>1, QuitTypes, <1>7 DEF Finishes, Locates, Flow, Freed, Locals
  <2>2. LocalsKept
    BY <1>0, <1>1, QuitTypes, <1>7 DEF Finishes, LocalsKept, Live, Flow
  <2>3. CutsKept
    BY <1>0, <1>1, <1>2, <1>7 DEF Finishes, CutsKept, Flow
  <2> QED BY <2>1, <2>2, <2>3
<1>8. CASE FreesFirst
  <2>1. Locates
    BY <1>0, <1>1, <1>8 DEF FreesFirst, Locates, Flow, Freed, Locals
  <2>2. LocalsKept
    BY <1>0, <1>1, <1>8 DEF FreesFirst, LocalsKept, Live, Flow
  <2>3. CutsKept
    BY <1>0, <1>1, <1>2, <1>8 DEF FreesFirst, CutsKept, Flow
  <2> QED BY <2>1, <2>2, <2>3
<1>9. CASE Begins
  <2>1. Locates
    BY <1>0, <1>1, <1>9 DEF Begins, BeginsFree, BeginsReverse, BeginsOther, LocalsBecome, CallKept, Locates, Flow, Freed, Locals
  <2>2. LocalsKept
    BY <1>0, <1>1, <1>9 DEF Begins, BeginsFree, BeginsReverse, BeginsOther, LocalsBecome, CallKept, LocalsKept, Live, Flow
  <2>3. CutsKept
    BY <1>0, <1>1, <1>2, <1>9 DEF Begins, BeginsFree, BeginsReverse, BeginsOther, LocalsBecome, CallKept, CutsKept, Flow
  <2> QED BY <2>1, <2>2, <2>3
<1>10. CASE OnlyReturns
  <2>1. Locates
    BY <1>0, <1>1, <1>10 DEF OnlyReturns, Alike, Locates, Flow, Freed, Locals
  <2>2. LocalsKept
    BY <1>0, <1>1, <1>10 DEF OnlyReturns, Alike, LocalsKept, Live, Flow
  <2>3. CutsKept
    BY <1>0, <1>1, <1>2, <1>10 DEF OnlyReturns, Alike, CutsKept, Flow
  <2> QED BY <2>1, <2>2, <2>3
<1>11. CASE InsertReturns /\ UNCHANGED <<fail_probability, console, history>>
  <2>1. Locates
    BY <1>0, <1>1, <1>11 DEF InsertReturns, Alike, NoStore, Settle, Locates, Flow, Freed, Locals
  <2>2. LocalsKept
    BY <1>0, <1>1, <1>11 DEF InsertReturns, Alike, NoStore, Settle, LocalsKept, Live, Flow
  <2>3. CutsKept
    BY <1>0, <1>1, <1>2, <1>11 DEF InsertReturns, Alike, NoStore, Settle, CutsKept, Flow
  <2> QED BY <2>1, <2>2, <2>3
<1>12. CASE OtherReturns /\ UNCHANGED <<fail_probability, console, history>>
  <2>1. Locates
    BY <1>0, <1>1, <1>12 DEF OtherReturns, Alike, NoStore, Settle, Locates, Flow, Freed, Locals
  <2>2. LocalsKept
    BY <1>0, <1>1, <1>12 DEF OtherReturns, Alike, NoStore, Settle, LocalsKept, Live, Flow
  <2>3. CutsKept
    BY <1>0, <1>1, <1>2, <1>12 DEF OtherReturns, Alike, NoStore, Settle, CutsKept, Flow
  <2> QED BY <2>1, <2>2, <2>3
<1>13. CASE Leaves
  <2>1. Locates
    BY <1>0, <1>1, <1>13 DEF Leaves, Alike, Locates, Flow, Freed, Locals
  <2>2. LocalsKept
    BY <1>0, <1>1, <1>13 DEF Leaves, Alike, LocalsKept, Live, Flow
  <2>3. CutsKept
    BY <1>0, <1>1, <1>2, <1>13 DEF Leaves, Alike, CutsKept, Flow
  <2> QED BY <2>1, <2>2, <2>3
<1>14. CASE Shows
  <2>1. Locates
    BY <1>0, <1>1, <1>14 DEF Shows, Alike, Locates, Flow, Freed, Locals
  <2>2. LocalsKept
    BY <1>0, <1>1, <1>14 DEF Shows, Alike, LocalsKept, Live, Flow
  <2>3. CutsKept
    BY <1>0, <1>1, <1>2, <1>14 DEF Shows, Alike, CutsKept, Flow
  <2> QED BY <2>1, <2>2, <2>3
<1>15. CASE FreesForNew
  <2>1. Locates
    BY <1>0, <1>1, ResultTypes, <1>15 DEF FreesForNew, Locates, Flow, Freed, Locals
  <2>2. LocalsKept
    BY <1>0, <1>1, ResultTypes, <1>15 DEF FreesForNew, LocalsKept, Live, Flow
  <2>3. CutsKept
    BY <1>0, <1>1, <1>2, <1>15 DEF FreesForNew, CutsKept, Flow
  <2> QED BY <2>1, <2>2, <2>3
<1>16. ASSUME NEW n \in Nat, Counts(n) PROVE Locates /\ LocalsKept /\ CutsKept
  <2>1. Locates
    BY <1>0, <1>1, <1>16 DEF Counts, Locates, Flow, Freed, Locals
  <2>2. LocalsKept
    BY <1>0, <1>1, <1>16 DEF Counts, LocalsKept, Live, Flow
  <2>3. CutsKept
    BY <1>0, <1>1, <1>2, <1>16 DEF Counts, CutsKept, Flow
  <2> QED BY <2>1, <2>2, <2>3
<1>17. CASE Stops
  <2>1. Locates
    BY <1>0, <1>1, <1>17 DEF Stops, Locates, Flow, Freed, Locals
  <2>2. LocalsKept
    BY <1>0, <1>1, <1>17 DEF Stops, LocalsKept, Live, Flow
  <2>3. CutsKept
    BY <1>0, <1>1, <1>2, <1>17 DEF Stops, CutsKept, Flow
  <2> QED BY <2>1, <2>2, <2>3
<1>18. CASE IsCut
  <2>1. Locates
    BY <1>0, <1>1, <1>18 DEF IsCut, Alike, Locates, Flow, Freed, Locals
  <2>2. LocalsKept
    BY <1>0, <1>1, <1>18 DEF IsCut, Alike, LocalsKept, Live, Flow
  <2>3. CutsKept
    BY <1>0, <1>1, <1>2, <1>18 DEF IsCut, Alike, CutsKept, Flow
  <2> QED BY <2>1, <2>2, <2>3
<1>19. CASE IsKilled
  <2>1. Locates
    BY <1>0, <1>1, <1>19 DEF IsKilled, Locates, Flow, Freed, Locals
  <2>2. LocalsKept
    BY <1>0, <1>1, <1>19 DEF IsKilled, LocalsKept, Live, Flow
  <2>3. CutsKept
    BY <1>0, <1>1, <1>2, <1>19 DEF IsKilled, CutsKept, Flow
  <2> QED BY <2>1, <2>2, <2>3
<1>20. CASE Jumps
  <2>1. Locates
    BY <1>0, <1>1, <1>20 DEF Jumps, Locates, Flow, Freed, Locals
  <2>2. LocalsKept
    BY <1>0, <1>1, <1>20 DEF Jumps, LocalsKept, Live, Flow
  <2>3. CutsKept
    BY <1>0, <1>1, <1>2, <1>20 DEF Jumps, CutsKept, Flow
  <2> QED BY <2>1, <2>2, <2>3
<1>21. CASE Idles
  <2>1. Locates
    BY <1>0, <1>1, <1>21 DEF Idles, vars, Locates, Flow, Freed, Locals
  <2>2. LocalsKept
    BY <1>0, <1>1, <1>21 DEF Idles, vars, LocalsKept, Live, Flow
  <2>3. CutsKept
    BY <1>0, <1>1, <1>2, <1>21 DEF Idles, vars, CutsKept, Flow
  <2> QED BY <2>1, <2>2, <2>3
<1> QED BY <1>0, <1>3, <1>4, <1>5, <1>6, <1>7, <1>8, <1>9, <1>10, <1>11, <1>12, <1>13, <1>14, <1>15,
           <1>16, <1>17, <1>18, <1>19, <1>20, <1>21, Zenon DEF OtherEffect

LEMMA OtherRegionStep == ASSUME Base, Next, ~QueueOp PROVE Region'
<1>1. Locates /\ LocalsKept /\ UNCHANGED heap /\ Region /\ Types /\ Types'
  BY OtherKeeps, TypesStep DEF Base, CutsKept
<1> SUFFICES ASSUME q' # NULL, ~Freed'
             PROVE  heap'[q'].kind = "queue" /\ \E L \in SUBSET (Blocks \ {q'}) : Within(L)'
  BY DEF Region
<1>2. CASE q' = q /\ ~Freed
  <2>1. heap[q].kind = "queue" /\ q # NULL
    BY <1>1, <1>2 DEF Region
  <2>2. PICK L \in SUBSET (Blocks \ {q}) : Within(L)
    BY <1>1, <1>2 DEF Region
  <2>3. Live' => \A v \in {reg'.new, reg'.lp, reg'.prv} : v \in L \cup {NULL}
    BY <1>1, <2>2 DEF LocalsKept, Within, Live
  <2>4. Within(L)'
    BY <1>1, <1>2, <2>2, <2>3 DEF Within, Live, head, tail
  <2> QED BY <1>1, <1>2, <2>1, <2>2, <2>4
<1>3. CASE q' = reg.new /\ heap[reg.new] = NewQueue /\ pc' = "cancel"
  <2>1. heap'[q'].kind = "queue" /\ head' = NULL /\ tail' = NULL
    BY <1>1, <1>3 DEF NewQueue, head, tail
  <2>2. Within({})'
    BY <1>3, <2>1 DEF Within, QueuePC
  <2>3. {} \in SUBSET (Blocks \ {q'})
    OBVIOUS
  <2> QED BY <2>1, <2>2, <2>3
<1> QED BY <1>1, <1>2, <1>3 DEF Locates

LEMMA OtherLocalsStep == ASSUME Base, Next, ~QueueOp PROVE Locals'
<1>1. Locates /\ UNCHANGED heap /\ Locals
  BY OtherKeeps DEF Base, CutsKept
<1> QED BY <1>1 DEF Locals, Locates, QueuePart, Ends

LEMMA OtherTailedStep == ASSUME Base, Next, ~QueueOp PROVE Tailed'
<1>1. Locates /\ CutsKept /\ Tailed /\ segv \in BOOLEAN
  BY OtherKeeps DEF Base, Types
<1> SUFFICES ASSUME "it" \notin CutFns' PROVE Tailed'
  BY DEF Tailed
<1>2. "it" \notin CutFns /\ UNCHANGED heap /\ pc # "caught" /\ ~segv /\ pc # "it_tail" /\ ~segv' /\ pc' # "caught"
  BY <1>1 DEF CutsKept, Tailed, Locates, Ends
<1>3. ASSUME q' # NULL, ~Freed'
      PROVE  /\ head' # NULL => tail' # NULL
             /\ pc' \notin {"remove_head", "remove_tail", "ih_head", "reverse_head"}
             /\ pc' = "reverse" /\ (reg'.lp # NULL \/ reg'.prv # NULL) => head' # NULL
  <2>1. pc' \notin {"remove_head", "remove_tail", "ih_head", "reverse_head"}
    BY <1>1, <1>3 DEF Locates, Ends
  <2>2. CASE q' = q /\ ~Freed
    BY <1>1, <1>2, <1>3, <2>1, <2>2 DEF Tailed, Locates, head, tail
  <2>3. CASE q' = reg.new /\ heap[reg.new] = NewQueue /\ pc' = "cancel"
    BY <1>2, <2>3 DEF NewQueue, head, tail
  <2> QED BY <1>1, <1>3, <2>1, <2>2, <2>3 DEF Locates
<1> QED BY <1>2, <1>3 DEF Tailed

----------------------------------------------------------------------------
(* The base of the invariant: what holds of the memory, the modes and the  *)
(* counts whatever is cut short.                                           *)
LEMMA BaseInit == Init => Base
<1> SUFFICES ASSUME Init PROVE Base
  OBVIOUS
<1> USE DEF Init, HarnessInit, ConsoleInit, queue_init
<1>1. CutFns = {} /\ CountedCuts = {}
  BY DEF CutFns, CountedCuts
<1>2. NoRegs \in Registers /\ NoRegs.fn = "none" /\ NoRegs.sub = "none" /\ NoRegs.ok = TRUE
  BY NullIsNoBlock DEF NoRegs, Registers, Commands, ArgStrings, Objects
<1>3. Allocated = {}
  BY DEF Allocated
<1>4. Types
  <2>1. heap \in [Blocks -> Objects]
    BY DEF Objects
  <2>2. q \in Ptr /\ verblevel \in Int /\ pc \in PCs /\ cuts \in Seq(CutRecords) /\ files \in Seq(File)
    BY NullIsNoBlock, QTestAssumption DEF PCs
  <2>3. /\ allocated_count \in Int /\ adj \in {-1, 0, 1} /\ err_cnt \in Nat /\ accounted \in Int
        /\ qcnt \in Int /\ fail_count \in Nat
    BY DEF Registered
  <2>4. /\ cautious_mode \in BOOLEAN /\ noallocate_mode \in BOOLEAN
        /\ error_occurred \in BOOLEAN /\ jmp_ready \in BOOLEAN /\ time_limited \in BOOLEAN
        /\ fail_probability \in BOOLEAN /\ quit_flag \in BOOLEAN /\ segv \in BOOLEAN /\ reg \in Registers
    BY <1>2
  <2> QED BY <2>1, <2>2, <2>3, <2>4, Zenon DEF Types
<1>5. Flow
  BY <1>2 DEF Flow, InsertPC, RemovePC
<1>6. Modes
  BY DEF Modes
<1>7. Account
  <2>1. accounted = 22 /\ Len(files) = 0 /\ files = << >> /\ Registered = 22
    BY DEF Registered
  <2>2. pc = "main" /\ reg.fn = "none"
    BY <1>2
  <2> QED BY <2>1, <2>2 DEF Account, Arguments, Ends
<1>8. Counted
  <2>1. Cardinality(CountedCuts) = 0
    BY <1>1, FS_EmptySet
  <2> QED BY <2>1 DEF Counted
<1>9. Count
  <2>1. Cardinality(Allocated) = 0
    BY <1>3, FS_EmptySet
  <2> QED BY <1>3, <2>1 DEF Count
<1>10. Region
  BY DEF Region
<1>11. Locals
  BY DEF Locals, QueuePart, Unused
<1>12. Tailed
  BY DEF Tailed
<1> QED BY <1>4, <1>5, <1>6, <1>7, <1>8, <1>9, <1>10, <1>11, <1>12 DEF Base

LEMMA BaseStep == Base /\ [Next]_vars => Base'
<1> SUFFICES ASSUME Base, [Next]_vars PROVE Base'
  OBVIOUS
<1>1. CASE QueueOp
  <2>1. QueueStep /\ UNCHANGED <<tester, console, history>>
    BY <1>1 DEF QueueOp
  <2>2. Flow' /\ Modes'
    BY <2>1, QueueFlowStep DEF console
  <2> QED BY <1>1, <2>2, QueueTypesStep, QueueAccountStep, QueueCountStep, QueueRegionStep, QueueLocalsStep,
             QueueTailedStep, Zenon DEF Base
<1>2. CASE Next /\ ~QueueOp
  BY <1>2, TypesStep, FlowStep, AccountStep, CountedStep, CountOtherStep, OtherRegionStep, OtherLocalsStep,
     OtherTailedStep DEF Base
<1>3. CASE UNCHANGED vars
  <2>1. UNCHANGED <<heap, allocated_count, adj, cautious_mode, noallocate_mode, error_occurred, jmp_ready,
                    time_limited, q, pc, reg, fail_probability, files, err_cnt, quit_flag, verblevel, accounted,
                    qcnt, fail_count, cuts, segv>>
    BY <1>3 DEF vars, harness, blocks, modes, exceptions, machine, console, tester, history
  <2>2. Types' /\ Flow' /\ Modes' /\ Account'
    BY <2>1 DEF Base, Types, Flow, Modes, Account, Arguments
  <2>3. Counted' /\ Count'
    <3>1. Counted'
      BY <2>1 DEF Base, Counted, CountedCuts, Failing
    <3>2. UNCHANGED <<Allocated, CutInsert, NewCut>>
      BY <2>1 DEF Allocated, CutInsert, CutFns, NewCut
    <3> QED BY <2>1, <3>1, <3>2 DEF Base, Count
  <2>4. Region'
    BY <2>1 DEF Base, Region, Within, Freed, head, tail
  <2>5. Locals' /\ Tailed'
    BY <2>1 DEF Base, Locals, Tailed, CutFns, Freed, head, tail
  <2> QED BY <2>2, <2>3, <2>4, <2>5 DEF Base
<1> QED BY <1>1, <1>2, <1>3

(* Whatever the lines, the files and the time-outs: the types, where the   *)
(* program is and in what modes, the counts, and the shape of the memory.  *)
THEOREM BaseHolds == Spec => []Base
<1>1. Init => Base
  BY BaseInit
<1>2. Base /\ [Next]_vars => Base'
  BY BaseStep
<1> QED BY <1>1, <1>2, PTL DEF Spec

LEMMA BaseTyped == Base => TypeOK
<1> SUFFICES ASSUME Base PROVE TypeOK
  OBVIOUS
<1>1. Types /\ reg \in Registers /\ files \in Seq(File)
  BY DEF Base, Types
<1>2. DOMAIN reg = DOMAIN NoRegs
  BY <1>1 DEF Registers, NoRegs
<1>3. reg.new \in Ptr /\ reg.lp \in Ptr /\ reg.prv \in Ptr
  BY <1>1 DEF Registers
<1>4. \A i \in DOMAIN files : files[i] \in File
  BY <1>1
<1>5. HarnessTypeOK
  BY <1>1 DEF HarnessTypeOK, Types
<1>6. accounted \in Nat
  BY <1>1 DEF Base, Account, Types
<1> QED BY <1>1, <1>2, <1>3, <1>4, <1>5, <1>6 DEF TypeOK, Types

(* The blocks of the console: none is left after a normal end, and between *)
(* two commands there are those of the lists and the open files, or none,  *)
(* whatever the lines that were read, and however the files are nested.    *)
THEOREM ConsoleBlocksAreKept == Spec => []ConsoleBlocksKept
<1>1. Base => ConsoleBlocksKept
  BY DEF Base, Account, ConsoleBlocksKept
<1> QED BY <1>1, BaseHolds, PTL

(* How commands and the program end: no error_check on the way eats a      *)
(* time-out, status 0 means that every block was given back unless an      *)
(* insertion was cut short, and the modes of an operation do not outlive   *)
(* the command, for any number of time-outs at any of their steps.         *)
THEOREM CommandsEndCleanly == Spec => []CommandsEndClean
<1>1. Base => CommandsEndClean
  <2> SUFFICES ASSUME Base PROVE CommandsEndClean
    OBVIOUS
  <2>1. CutsAreCounted
    <3>1. pc = "ready" => ~Failing
      BY DEF Base, Flow, NoRegs, Failing
    <3>2. Cardinality(CountedCuts) \in Nat /\ err_cnt \in Nat
      BY CountedCutsSize DEF Base, Types
    <3> QED BY <3>1, <3>2 DEF Base, Counted, CutsAreCounted, Ends
  <2>2. ExitZeroMeansFreed
    BY DEF Base, Count, CutInsert, ExitZeroMeansFreed
  <2>3. ModesRestored
    BY DEF Base, Flow, Modes, NoRegs, Between, Ends, ModesRestored
  <2> QED BY <2>1, <2>2, <2>3 DEF CommandsEndClean
<1> QED BY <1>1, BaseHolds, PTL

(* NULL is dereferenced in q_insert_tail only after an earlier q_insert_-  *)
(* tail was cut short before it had set the tail.                          *)
THEOREM FaultsNeedCuts == Spec => []FaultNeedsCutInsert
<1>1. Base => FaultNeedsCutInsert
  BY DEF Base, Tailed, FaultNeedsCutInsert
<1> QED BY <1>1, BaseHolds, PTL

----------------------------------------------------------------------------
(* Lists in a heap: what a list keeps when the heap changes elsewhere, and *)
(* what becomes of it when an element is taken off, put in front, appended *)
(* or turned round.                                                        *)

LEMMA NthMeans ==
    ASSUME NEW es \in Seq(Blocks)
    PROVE  /\ \A i \in Int : /\ Nth(es, i) \in Ptr
                             /\ i \in 1 .. Len(es) => Nth(es, i) = es[i] /\ es[i] \in Blocks
                             /\ Nth(es, i) = NULL <=> i \notin 1 .. Len(es)
           /\ Len(es) \in Nat /\ (Len(es) = 0 <=> es = << >>)
           /\ LastOf(es) \in Ptr /\ (LastOf(es) = NULL <=> es = << >>)
<1>1. /\ Len(es) \in Nat /\ (Len(es) = 0 <=> es = << >>)
      /\ \A i \in 1 .. Len(es) : es[i] \in Blocks
  OBVIOUS
<1>2. ASSUME NEW i \in Int
      PROVE  /\ Nth(es, i) \in Ptr
             /\ i \in 1 .. Len(es) => Nth(es, i) = es[i] /\ es[i] \in Blocks
             /\ Nth(es, i) = NULL <=> i \notin 1 .. Len(es)
  BY <1>1, NullIsNoBlock DEF Nth
<1>3. Len(es) \in Int /\ (es # << >> => Len(es) \in 1 .. Len(es))
  BY <1>1
<1>4. LastOf(es) \in Ptr /\ (LastOf(es) = NULL <=> es = << >>)
  BY <1>1, <1>2, <1>3 DEF LastOf
<1> QED BY <1>1, <1>2, <1>4

LEMMA ListKept ==
    ASSUME NEW h, NEW g, NEW es \in Seq(Blocks), Cells(h, es),
           \A i \in 1 .. Len(es) : g[es[i]] = h[es[i]] /\ g[h[es[i]].value] = h[h[es[i]].value]
    PROVE  /\ Cells(g, es)
           /\ \A k \in Int : Linked(h, es, k) => Linked(g, es, k)
<1>1. Cells(g, es)
  BY DEF Cells
<1>2. ASSUME NEW k \in Int, Linked(h, es, k) PROVE Linked(g, es, k)
  BY <1>2 DEF Linked
<1> QED BY <1>1, <1>2

(* t is the list es without its first element.                             *)
IsTail(t, es) == /\ t \in Seq(Blocks) /\ Len(t) = Len(es) - 1
                 /\ \A i \in 1 .. Len(t) : t[i] = es[i + 1]

LEMMA TailOfList ==
    ASSUME NEW es \in Seq(Blocks), es # << >>
    PROVE  IsTail(Tail(es), es)
BY DEF IsTail

LEMMA TailList ==
    ASSUME NEW h, NEW es \in Seq(Blocks), Cells(h, es), es # << >>, Linked(h, es, 0),
           NEW t, IsTail(t, es)
    PROVE  /\ t \in Seq(Blocks) /\ Len(t) = Len(es) - 1 /\ Cells(h, t) /\ Linked(h, t, 0)
           /\ IsCell(h, es[1]) /\ Apart(es[1], t) /\ h[es[1]].next = Nth(t, 1)
           /\ IsOwn(h, h[es[1]].value, t) /\ h[es[1]].value # es[1]
           /\ \A i \in 1 .. Len(t) : h[es[1]].value # t[i]
           /\ \A S : Exactly(h, S, es) => Exactly(h, S \cup {es[1], h[es[1]].value}, t)
           /\ LastOf(es) = IF t = << >> THEN es[1] ELSE LastOf(t)
           /\ \A x : x # NULL /\ TailFits(h, x, es) => TailFits(h, x, t) /\ (x = es[1] => t = << >>)
<1>1. /\ t \in Seq(Blocks) /\ Len(t) = Len(es) - 1 /\ Len(es) \in Nat /\ Len(es) >= 1
      /\ \A i \in 1 .. Len(t) : t[i] = es[i + 1] /\ i + 1 \in 1 .. Len(es)
      /\ 1 \in 1 .. Len(es) /\ (t = << >> <=> Len(es) = 1)
  <2>1. t \in Seq(Blocks) /\ Len(t) = Len(es) - 1 /\ \A i \in 1 .. Len(t) : t[i] = es[i + 1]
    BY DEF IsTail
  <2>2. Len(es) \in Nat /\ Len(es) # 0 /\ (Len(t) = 0 <=> t = << >>)
    BY <2>1, NthMeans
  <2> QED BY <2>1, <2>2
<1>2. \A i \in Nat : i > 0 => Nth(t, i) = Nth(es, i + 1)
  <2> TAKE i \in Nat
  <2> HAVE i > 0
  <2>1. i \in 1 .. Len(t) <=> i + 1 \in 1 .. Len(es)
    BY <1>1
  <2>2. i \in 1 .. Len(t) => t[i] = es[i + 1]
    BY <1>1
  <2> QED BY <2>1, <2>2 DEF Nth
<1>3. /\ \A i \in 1 .. Len(es) : /\ h[es[i]].kind = "ele" /\ h[es[i]].value \in Blocks
                                 /\ h[h[es[i]].value].kind = "str"
      /\ \A i, j \in 1 .. Len(es) : es[i] = es[j] \/ h[es[i]].value = h[es[j]].value => i = j
  BY DEF Cells
<1>5. Cells(h, t)
  <2>1. \A i \in 1 .. Len(t) : h[t[i]].kind = "ele" /\ h[t[i]].value \in Blocks /\ h[h[t[i]].value].kind = "str"
    BY <1>1, <1>3
  <2>2. ASSUME NEW i \in 1 .. Len(t), NEW j \in 1 .. Len(t), t[i] = t[j] \/ h[t[i]].value = h[t[j]].value
        PROVE  i = j
    <3>1. i + 1 = j + 1
      BY <1>1, <1>3, <2>2
    <3> QED BY <1>1, <3>1
  <2> QED BY <2>1, <2>2 DEF Cells
<1>6. Linked(h, t, 0)
  <2> SUFFICES ASSUME NEW i \in 1 .. Len(t) PROVE h[t[i]].next = Nth(t, i + 1)
    BY <1>1 DEF Linked
  <2>1. i \in Nat /\ i > 0 /\ i + 1 \in Nat /\ i + 1 > 0 /\ i + 1 \in 1 .. Len(es) /\ t[i] = es[i + 1]
    BY <1>1
  <2>2. h[es[i + 1]].next = Nth(es, (i + 1) + 1)
    BY <2>1 DEF Linked
  <2> QED BY <1>2, <2>1, <2>2
<1>7. IsCell(h, es[1]) /\ h[es[1]].next = Nth(t, 1)
  <2>1. h[es[1]].next = Nth(es, 1 + 1)
    BY <1>1 DEF Linked
  <2>2. es[1] \in Blocks
    BY <1>1
  <2> QED BY <1>1, <1>2, <1>3, <2>1, <2>2 DEF IsCell
<1>8. Apart(es[1], t)
  BY <1>1, <1>3 DEF Apart
<1>9. IsOwn(h, h[es[1]].value, t) /\ h[es[1]].value # es[1] /\ \A i \in 1 .. Len(t) : h[es[1]].value # t[i]
  <2>1. 1 \in 1 .. Len(es) /\ IsString(h, h[es[1]].value) /\ h[es[1]].value # es[1]
    BY <1>1, <1>3 DEF IsString
  <2>2. ASSUME NEW i \in 1 .. Len(t) PROVE h[t[i]].value # h[es[1]].value /\ h[es[1]].value # t[i]
    <3>1. i + 1 \in 1 .. Len(es) /\ i + 1 # 1 /\ t[i] = es[i + 1]
      BY <1>1
    <3> QED BY <1>3, <2>1, <3>1 DEF IsString
  <2> QED BY <2>1, <2>2 DEF IsOwn
<1>10. ASSUME NEW S, Exactly(h, S, es) PROVE Exactly(h, S \cup {es[1], h[es[1]].value}, t)
  <2> SUFFICES ASSUME NEW b \in Blocks, h[b] # Unused, b \notin S, b # es[1], b # h[es[1]].value
               PROVE  \E i \in 1 .. Len(t) : b = t[i] \/ b = h[t[i]].value
    BY DEF Exactly
  <2>1. PICK i \in 1 .. Len(es) : b = es[i] \/ b = h[es[i]].value
    BY <1>10 DEF Exactly
  <2>2. i # 1
    BY <2>1
  <2>3. i - 1 \in 1 .. Len(t) /\ t[i - 1] = es[i]
    <3>1. i - 1 \in 1 .. Len(t) /\ (i - 1) + 1 = i
      BY <1>1, <2>2
    <3> QED BY <1>1, <3>1
  <2> QED BY <2>1, <2>3
<1>11. LastOf(es) = IF t = << >> THEN es[1] ELSE LastOf(t)
  <2>1. CASE t = << >>
    <3>1. Len(t) = 0 /\ Len(es) = 1
      BY <1>1, <2>1
    <3> QED BY <2>1, <3>1 DEF LastOf, Nth
  <2>2. CASE t # << >>
    <3>1. Len(t) \in Nat /\ Len(t) > 0 /\ Len(t) + 1 = Len(es)
      BY <1>1, <2>2
    <3> QED BY <1>2, <2>2, <3>1 DEF LastOf
  <2> QED BY <2>1, <2>2
<1>12. ASSUME NEW x, x # NULL, TailFits(h, x, es) PROVE TailFits(h, x, t) /\ (x = es[1] => t = << >>)
  <2>1. IsCell(h, x) /\ IsLast(x, es)
    BY <1>12 DEF TailFits
  <2>2. ASSUME NEW i \in 1 .. Len(t), x = t[i] PROVE i = Len(t)
    <3>1. i + 1 = Len(es)
      BY <1>1, <2>1, <2>2 DEF IsLast
    <3> QED BY <1>1, <3>1
  <2>3. x = es[1] => t = << >>
    BY <1>1, <2>1 DEF IsLast
  <2> QED BY <1>12, <2>1, <2>2, <2>3 DEF TailFits, IsLast
<1> QED BY <1>1, <1>5, <1>6, <1>7, <1>8, <1>9, <1>10, <1>11, <1>12

(* A new element in front.                                                 *)
LEMMA ConsOfList ==
    ASSUME NEW es \in Seq(Blocks), NEW p \in Blocks
    PROVE  /\ <<p>> \o es \in Seq(Blocks) /\ <<p>> \o es # << >>
           /\ (<<p>> \o es)[1] = p /\ IsTail(es, <<p>> \o es)
BY DEF IsTail

LEMMA ConsList ==
    ASSUME NEW h, NEW es \in Seq(Blocks), NEW c \in Seq(Blocks), c # << >>, IsTail(es, c),
           Cells(h, es), Linked(h, es, 0), IsCell(h, c[1]), Apart(c[1], es),
           IsOwn(h, h[c[1]].value, es), h[c[1]].next = Nth(es, 1)
    PROVE  /\ Len(c) = Len(es) + 1 /\ Cells(h, c) /\ Linked(h, c, 0) /\ Nth(c, 1) = c[1]
           /\ \A S : Exactly(h, S \cup {c[1], h[c[1]].value}, es) => Exactly(h, S, c)
           /\ LastOf(c) = IF es = << >> THEN c[1] ELSE LastOf(es)
           /\ \A x : x # NULL /\ TailFits(h, x, es) /\ (x = c[1] => es = << >>) => TailFits(h, x, c)
<1>1. /\ Len(c) \in Nat /\ Len(c) = Len(es) + 1 /\ Len(es) \in Nat /\ (es = << >> <=> Len(es) = 0)
      /\ \A i \in 1 .. Len(es) : c[i + 1] = es[i]
      /\ \A i \in 1 .. Len(c) : i # 1 => i - 1 \in 1 .. Len(es) /\ c[i] = es[i - 1]
      /\ 1 \in 1 .. Len(c)
  <2>1. Len(es) = Len(c) - 1 /\ \A i \in 1 .. Len(es) : es[i] = c[i + 1]
    BY DEF IsTail
  <2>2. Len(c) \in Nat /\ Len(es) \in Nat /\ (es = << >> <=> Len(es) = 0)
    BY NthMeans
  <2>3. ASSUME NEW i \in 1 .. Len(c), i # 1 PROVE i - 1 \in 1 .. Len(es) /\ c[i] = es[i - 1]
    <3>1. i - 1 \in 1 .. Len(es) /\ (i - 1) + 1 = i
      BY <2>1, <2>2, <2>3
    <3> QED BY <2>1, <3>1
  <2> QED BY <2>1, <2>2, <2>3
<1>2. \A i \in Nat : i > 0 => Nth(es, i) = Nth(c, i + 1)
  <2> TAKE i \in Nat
  <2> HAVE i > 0
  <2>1. i \in 1 .. Len(es) <=> i + 1 \in 1 .. Len(c)
    BY <1>1
  <2>2. i \in 1 .. Len(es) => es[i] = c[i + 1]
    BY <1>1
  <2> QED BY <2>1, <2>2 DEF Nth
<1>3. /\ \A i \in 1 .. Len(es) : /\ h[es[i]].kind = "ele" /\ h[es[i]].value \in Blocks
                                 /\ h[h[es[i]].value].kind = "str"
      /\ \A i, j \in 1 .. Len(es) : es[i] = es[j] \/ h[es[i]].value = h[es[j]].value => i = j
  BY DEF Cells
<1>4. /\ c[1] \in Blocks /\ h[c[1]].kind = "ele" /\ h[c[1]].value \in Blocks /\ h[h[c[1]].value].kind = "str"
      /\ \A i \in 1 .. Len(es) : c[1] # es[i] /\ h[es[i]].value # h[c[1]].value
  BY DEF IsCell, IsOwn, IsString, Apart
<1>5. Cells(h, c)
  <2>1. \A i \in 1 .. Len(c) : h[c[i]].kind = "ele" /\ h[c[i]].value \in Blocks /\ h[h[c[i]].value].kind = "str"
    BY <1>1, <1>3, <1>4
  <2>2. ASSUME NEW i \in 1 .. Len(c), NEW j \in 1 .. Len(c), c[i] = c[j] \/ h[c[i]].value = h[c[j]].value
        PROVE  i = j
    <3>1. i # 1 /\ j # 1 => i = j
      <4> SUFFICES ASSUME i # 1, j # 1 PROVE i = j
        OBVIOUS
      <4>1. /\ i - 1 \in 1 .. Len(es) /\ c[i] = es[i - 1] /\ i \in Int
            /\ j - 1 \in 1 .. Len(es) /\ c[j] = es[j - 1] /\ j \in Int
        BY <1>1
      <4>2. i - 1 = j - 1
        BY <1>3, <2>2, <4>1
      <4> QED BY ONLY <4>1, <4>2
    <3>2. i = 1 <=> j = 1
      <4>1. ASSUME NEW m \in 1 .. Len(c), m # 1 PROVE c[m] # c[1] /\ h[c[m]].value # h[c[1]].value
        <5>1. m - 1 \in 1 .. Len(es) /\ c[m] = es[m - 1]
          BY <1>1, <4>1
        <5> QED BY <1>4, <5>1
      <4> QED BY <2>2, <4>1
    <3> QED BY <3>1, <3>2
  <2> QED BY <2>1, <2>2 DEF Cells
<1>6. Linked(h, c, 0)
  <2> SUFFICES ASSUME NEW i \in 1 .. Len(c) PROVE h[c[i]].next = Nth(c, i + 1)
    BY <1>1 DEF Linked
  <2>1. CASE i = 1
    BY <1>2, <2>1
  <2>2. CASE i # 1
    <3>1. i - 1 \in 1 .. Len(es) /\ c[i] = es[i - 1] /\ (i - 1) + 1 = i /\ i \in Nat /\ i > 0
      BY <1>1, <2>2
    <3>2. h[es[i - 1]].next = Nth(es, (i - 1) + 1)
      BY <1>1, <3>1 DEF Linked
    <3> QED BY <1>2, <3>1, <3>2
  <2> QED BY <2>1, <2>2
<1>7. Nth(c, 1) = c[1]
  BY <1>1 DEF Nth
<1>8. ASSUME NEW S, Exactly(h, S \cup {c[1], h[c[1]].value}, es) PROVE Exactly(h, S, c)
  <2> SUFFICES ASSUME NEW b \in Blocks, h[b] # Unused, b \notin S
               PROVE  \E i \in 1 .. Len(c) : b = c[i] \/ b = h[c[i]].value
    BY DEF Exactly
  <2>1. CASE b = c[1] \/ b = h[c[1]].value
    BY <1>1, <2>1
  <2>2. CASE ~(b = c[1] \/ b = h[c[1]].value)
    <3>1. PICK i \in 1 .. Len(es) : b = es[i] \/ b = h[es[i]].value
      BY <1>8, <2>2 DEF Exactly
    <3>2. i + 1 \in 1 .. Len(c) /\ c[i + 1] = es[i]
      BY <1>1
    <3> QED BY <3>1, <3>2
  <2> QED BY <2>1, <2>2
<1>9. LastOf(c) = IF es = << >> THEN c[1] ELSE LastOf(es)
  <2>1. CASE es = << >>
    <3>1. Len(c) = 1
      BY <1>1, <2>1
    <3> QED BY <1>7, <2>1, <3>1 DEF LastOf
  <2>2. CASE es # << >>
    <3>1. Len(es) \in Nat /\ Len(es) > 0 /\ Len(es) + 1 = Len(c)
      BY <1>1, <2>2
    <3> QED BY <1>2, <2>2, <3>1 DEF LastOf
  <2> QED BY <2>1, <2>2
<1>10. ASSUME NEW x, x # NULL, TailFits(h, x, es), x = c[1] => es = << >> PROVE TailFits(h, x, c)
  <2>1. IsCell(h, x) /\ IsLast(x, es)
    BY <1>10 DEF TailFits
  <2>2. ASSUME NEW i \in 1 .. Len(c), x = c[i] PROVE i = Len(c)
    <3>1. CASE i = 1
      BY <1>1, <1>10, <2>2, <3>1
    <3>2. CASE i # 1
      <4>1. i - 1 \in 1 .. Len(es) /\ x = es[i - 1]
        BY <1>1, <2>2, <3>2
      <4>2. i - 1 = Len(es)
        BY <2>1, <4>1 DEF IsLast
      <4> QED BY <1>1, <4>2
    <3> QED BY <3>1, <3>2
  <2> QED BY <1>10, <2>1, <2>2 DEF TailFits, IsLast
<1> QED BY <1>1, <1>5, <1>6, <1>7, <1>8, <1>9, <1>10

(* A new element behind the last one, whose next is stored.                *)
(* a is the list es with p appended.                                       *)
IsAppend(a, es, p) == /\ a \in Seq(Blocks) /\ Len(a) = Len(es) + 1
                      /\ a[Len(es) + 1] = p /\ \A i \in 1 .. Len(es) : a[i] = es[i]

LEMMA AppendOfList ==
    ASSUME NEW es \in Seq(Blocks), NEW p \in Blocks
    PROVE  IsAppend(Append(es, p), es, p)
BY DEF IsAppend

(* g is the heap h after the store of p in the next of t.                  *)
Links(g, h, t, p) == /\ \A x \in Blocks : x # t => g[x] = h[x]
                     /\ g[t].kind = "ele" /\ g[t].value = h[t].value /\ g[t].next = p

LEMMA AppendList ==
    ASSUME NEW h, NEW g, NEW es \in Seq(Blocks), NEW p, NEW a, IsAppend(a, es, p),
           Cells(h, es), Linked(h, es, 0), es # << >>, IsCell(h, p), Apart(p, es),
           IsOwn(h, h[p].value, es), h[p].next = NULL,
           Links(g, h, LastOf(es), p)
    PROVE  /\ a \in Seq(Blocks) /\ Len(a) = Len(es) + 1 /\ Cells(g, a) /\ Linked(g, a, 0)
           /\ Nth(a, 1) = Nth(es, 1) /\ LastOf(a) = p /\ IsLast(p, a) /\ IsCell(g, p)
           /\ \A S : Exactly(h, S \cup {p, h[p].value}, es) => Exactly(g, S, a)
<1> DEFINE n == Len(es)
           v == h[p].value
<1>1. /\ p \in Blocks /\ h[p].kind = "ele" /\ h[p].next = NULL
      /\ v \in Blocks /\ h[v].kind = "str" /\ \A i \in 1 .. n : es[i] # p /\ h[es[i]].value # v
  BY DEF IsCell, IsOwn, IsString, Apart
<1>0. /\ \A x \in Blocks : x # LastOf(es) => g[x] = h[x]
      /\ g[LastOf(es)].kind = "ele" /\ g[LastOf(es)].value = h[LastOf(es)].value /\ g[LastOf(es)].next = p
  BY DEF Links
<1>2. /\ n \in Nat /\ n > 0 /\ n \in 1 .. n /\ LastOf(es) = es[n] /\ 1 \in 1 .. n /\ Nth(es, 1) = es[1]
      /\ \A i \in 1 .. n : es[i] \in Blocks
  BY NthMeans DEF LastOf, Nth
<1>3. /\ a \in Seq(Blocks) /\ Len(a) = n + 1 /\ a[n + 1] = p
      /\ \A i \in 1 .. n : a[i] = es[i] /\ i \in 1 .. n + 1
      /\ \A i \in 1 .. n + 1 : i = n + 1 \/ i \in 1 .. n
      /\ n + 1 \in 1 .. n + 1 /\ 1 \in 1 .. n + 1
  BY <1>1, <1>2 DEF IsAppend
<1>4. /\ \A i \in 1 .. n : /\ h[es[i]].kind = "ele" /\ h[es[i]].value \in Blocks
                           /\ h[h[es[i]].value].kind = "str" /\ h[es[i]].next = Nth(es, i + 1)
      /\ \A i, j \in 1 .. n : es[i] = es[j] \/ h[es[i]].value = h[es[j]].value => i = j
  BY <1>2 DEF Cells, Linked
<1>5. /\ g[p] = h[p] /\ g[v] = h[v]
      /\ \A i \in 1 .. n : /\ g[es[i]].kind = "ele" /\ g[es[i]].value = h[es[i]].value
                           /\ g[h[es[i]].value] = h[h[es[i]].value]
                           /\ i # n => g[es[i]] = h[es[i]]
  <2>1. h[es[n]].kind = "ele" /\ v # es[n] /\ p # es[n]
    BY <1>1, <1>2, <1>4
  <2>2. \A i \in 1 .. n : h[es[i]].value # es[n] /\ (i # n => es[i] # es[n])
    BY <1>2, <1>4, <2>1
  <2>3. \A x \in Blocks : x # es[n] => g[x] = h[x]
    BY <1>0, <1>2
  <2>4. g[es[n]].kind = "ele" /\ g[es[n]].value = h[es[n]].value
    BY <1>0, <1>2
  <2>5. ASSUME NEW i \in 1 .. n
        PROVE  /\ g[es[i]].kind = "ele" /\ g[es[i]].value = h[es[i]].value
               /\ g[h[es[i]].value] = h[h[es[i]].value]
               /\ i # n => g[es[i]] = h[es[i]]
    BY <1>2, <1>4, <2>2, <2>3, <2>4
  <2> QED BY <1>1, <2>1, <2>3, <2>5
<1> HIDE DEF v
<1>6. Cells(g, a)
  <2>1. ASSUME NEW i \in 1 .. Len(a)
        PROVE  g[a[i]].kind = "ele" /\ g[a[i]].value \in Blocks /\ g[g[a[i]].value].kind = "str"
    BY <1>1, <1>3, <1>4, <1>5 DEF v
  <2>2. ASSUME NEW i \in 1 .. Len(a), NEW j \in 1 .. Len(a), a[i] = a[j] \/ g[a[i]].value = g[a[j]].value
        PROVE  i = j
    BY <1>1, <1>3, <1>4, <1>5, <2>2 DEF v
  <2> QED BY <2>1, <2>2 DEF Cells
<1>7. Linked(g, a, 0)
  <2> SUFFICES ASSUME NEW i \in 1 .. Len(a) PROVE g[a[i]].next = Nth(a, i + 1)
    BY <1>2, <1>3 DEF Linked
  <2>1. CASE i = n + 1
    <3>1. i + 1 \notin 1 .. Len(a)
      BY <1>2, <1>3, <2>1
    <3> QED BY <1>1, <1>3, <1>5, <2>1, <3>1 DEF Nth
  <2>2. CASE i = n
    <3>1. i + 1 \in 1 .. Len(a) /\ a[i + 1] = p /\ a[i] = LastOf(es)
      BY <1>2, <1>3, <2>2
    <3> QED BY <1>0, <3>1 DEF Nth
  <2>3. CASE i \in 1 .. n /\ i # n
    <3>1. i + 1 \in 1 .. n /\ i + 1 \in 1 .. Len(a) /\ a[i + 1] = es[i + 1]
      BY <1>2, <1>3, <2>3
    <3>2. h[es[i]].next = Nth(es, i + 1) /\ g[a[i]] = h[es[i]]
      BY <1>3, <1>4, <1>5, <2>3
    <3> QED BY <3>1, <3>2 DEF Nth
  <2> QED BY <1>3, <2>1, <2>2, <2>3
<1>8. Nth(a, 1) = Nth(es, 1) /\ LastOf(a) = p /\ IsLast(p, a) /\ IsCell(g, p)
  BY <1>1, <1>2, <1>3, <1>5 DEF Nth, LastOf, IsLast, IsCell
<1>9. ASSUME NEW S, Exactly(h, S \cup {p, h[p].value}, es) PROVE Exactly(g, S, a)
  <2> SUFFICES ASSUME NEW b \in Blocks, g[b] # Unused, b \notin S
               PROVE  \E i \in 1 .. Len(a) : b = a[i] \/ b = g[a[i]].value
    BY DEF Exactly
  <2>1. CASE b = p \/ b = v
    <3>1. Len(a) \in 1 .. Len(a) /\ a[Len(a)] = p /\ g[p].value = v
      BY <1>3, <1>5 DEF v
    <3> QED BY <2>1, <3>1
  <2>2. CASE b = LastOf(es)
    BY <1>2, <1>3, <2>2
  <2>3. CASE b # p /\ b # v /\ b # LastOf(es)
    <3>1. PICK i \in 1 .. n : b = es[i] \/ b = h[es[i]].value
      BY <1>0, <1>9, <2>3 DEF Exactly, v
    <3>2. i \in 1 .. Len(a) /\ a[i] = es[i] /\ g[es[i]].value = h[es[i]].value
      BY <1>3, <1>5
    <3> QED BY <3>1, <3>2
  <2> QED BY <2>1, <2>2, <2>3
<1> QED BY <1>3, <1>6, <1>7, <1>8, <1>9

(* The element k + 1 turned round: its next is stored.                     *)
LEMMA TurnList ==
    ASSUME NEW h, NEW g, NEW es \in Seq(Blocks), NEW k \in Nat, k < Len(es), Cells(h, es), Linked(h, es, k),
           NEW p, p = Nth(es, k + 1), Links(g, h, p, Nth(es, k))
    PROVE  /\ h[p].next = Nth(es, (k + 1) + 1) /\ Cells(g, es) /\ Linked(g, es, k + 1)
           /\ \A S : Exactly(h, S, es) => Exactly(g, S, es)
           /\ \A t : TailFits(h, t, es) => TailFits(g, t, es)
<1>0. /\ \A x \in Blocks : x # p => g[x] = h[x]
      /\ g[p].kind = "ele" /\ g[p].value = h[p].value /\ g[p].next = Nth(es, k)
  BY DEF Links
<1>1. /\ Len(es) \in Nat /\ k + 1 \in 1 .. Len(es) /\ p = es[k + 1] /\ p \in Blocks
      /\ \A i \in 1 .. Len(es) : es[i] \in Blocks /\ i \in Int
  BY NthMeans
<1>2. /\ \A i \in 1 .. Len(es) : /\ h[es[i]].kind = "ele" /\ h[es[i]].value \in Blocks
                                 /\ h[h[es[i]].value].kind = "str"
      /\ \A i, j \in 1 .. Len(es) : es[i] = es[j] \/ h[es[i]].value = h[es[j]].value => i = j
  BY DEF Cells
<1>3. \A i \in 1 .. Len(es) : /\ g[es[i]].kind = "ele" /\ g[es[i]].value = h[es[i]].value
                              /\ g[h[es[i]].value] = h[h[es[i]].value]
                              /\ i # k + 1 => g[es[i]] = h[es[i]]
  <2> TAKE i \in 1 .. Len(es)
  <2>1. h[es[i]].value # p /\ (i # k + 1 => es[i] # p)
    BY <1>1, <1>2
  <2> QED BY <1>0, <1>1, <1>2, <2>1
<1>4. Cells(g, es)
  BY <1>2, <1>3 DEF Cells
<1>5. Linked(g, es, k + 1)
  <2> SUFFICES ASSUME NEW i \in 1 .. Len(es)
               PROVE  g[es[i]].next = IF i <= k + 1 THEN Nth(es, i - 1) ELSE Nth(es, i + 1)
    BY DEF Linked
  <2>1. h[es[i]].next = IF i <= k THEN Nth(es, i - 1) ELSE Nth(es, i + 1)
    BY DEF Linked
  <2>2. CASE i = k + 1
    <3>1. i - 1 = k /\ i <= k + 1
      BY <2>2
    <3> QED BY <1>0, <1>1, <2>2, <3>1
  <2>3. CASE i # k + 1
    <3>1. i <= k + 1 <=> i <= k
      BY <2>3
    <3> QED BY <1>3, <2>1, <2>3, <3>1
  <2> QED BY <2>2, <2>3
<1>6. h[p].next = Nth(es, (k + 1) + 1)
  <2>1. ~(k + 1 <= k)
    OBVIOUS
  <2> QED BY <1>1, <2>1 DEF Linked
<1>7. ASSUME NEW S, Exactly(h, S, es) PROVE Exactly(g, S, es)
  <2> SUFFICES ASSUME NEW b \in Blocks, g[b] # Unused, b \notin S
               PROVE  \E i \in 1 .. Len(es) : b = es[i] \/ b = g[es[i]].value
    BY DEF Exactly
  <2>1. CASE b = p
    BY <1>0, <1>1, <2>1
  <2>2. CASE b # p
    <3>1. PICK i \in 1 .. Len(es) : b = es[i] \/ b = h[es[i]].value
      BY <1>0, <1>7, <2>2 DEF Exactly
    <3> QED BY <1>3, <3>1
  <2> QED BY <2>1, <2>2
<1>8. ASSUME NEW t, TailFits(h, t, es) PROVE TailFits(g, t, es)
  BY <1>0, <1>8 DEF TailFits, IsCell
<1> QED BY <1>4, <1>5, <1>6, <1>7, <1>8

(* The list when all of it has been turned round.                          *)
IsReverse(r, es) == /\ r \in Seq(Blocks) /\ Len(r) = Len(es)
                    /\ \A i \in 1 .. Len(es) : r[i] = es[Len(es) + 1 - i]

LEMMA ReverseOfList == ASSUME NEW es \in Seq(Blocks) PROVE IsReverse(Reverse(es), es)
<1>1. Len(es) \in Nat /\ \A i \in 1 .. Len(es) : es[i] \in Blocks
  BY NthMeans
<1>2. Reverse(es) = [i \in 1 .. Len(es) |-> es[(Len(es) - i) + 1]]
  BY DEF Reverse
<1>3. \A i \in 1 .. Len(es) : (Len(es) - i) + 1 \in 1 .. Len(es) /\ (Len(es) - i) + 1 = Len(es) + 1 - i
  BY <1>1
<1> DEFINE r == [i \in 1 .. Len(es) |-> es[(Len(es) - i) + 1]]
<1>4. r \in Seq(Blocks) /\ Len(r) = Len(es) /\ \A i \in 1 .. Len(es) : r[i] = es[Len(es) + 1 - i]
  BY <1>1, <1>3
<1> QED BY <1>2, <1>4 DEF IsReverse

LEMMA ReverseList ==
    ASSUME NEW h, NEW es \in Seq(Blocks), NEW r, IsReverse(r, es), Cells(h, es), Linked(h, es, Len(es))
    PROVE  /\ r \in Seq(Blocks) /\ Len(r) = Len(es) /\ Cells(h, r) /\ Linked(h, r, 0)
           /\ Nth(r, 1) = LastOf(es) /\ LastOf(r) = Nth(es, 1)
           /\ TailFits(h, Nth(es, 1), r)
           /\ \A S : Exactly(h, S, es) => Exactly(h, S, r)
<1> DEFINE n == Len(es)
<1>1. /\ r \in Seq(Blocks) /\ Len(r) = n /\ n \in Nat /\ (es = << >> <=> n = 0) /\ (r = << >> <=> n = 0)
      /\ \A i \in 1 .. n : r[i] = es[n + 1 - i] /\ n + 1 - i \in 1 .. n /\ es[i] \in Blocks
  <2>1. r \in Seq(Blocks) /\ Len(r) = n /\ \A i \in 1 .. n : r[i] = es[n + 1 - i]
    BY DEF IsReverse
  <2> QED BY <2>1, NthMeans
<1> HIDE DEF n
<1>2. /\ \A i \in 1 .. n : /\ h[es[i]].kind = "ele" /\ h[es[i]].value \in Blocks
                           /\ h[h[es[i]].value].kind = "str" /\ h[es[i]].next = Nth(es, i - 1)
      /\ \A i, j \in 1 .. n : es[i] = es[j] \/ h[es[i]].value = h[es[j]].value => i = j
  BY <1>1 DEF Cells, Linked, n
<1>3. \A i \in 0 .. n + 1 : Nth(r, i) = Nth(es, n + 1 - i)
  <2> TAKE i \in 0 .. n + 1
  <2>1. i \in 1 .. n <=> n + 1 - i \in 1 .. n
    BY <1>1
  <2>2. Len(r) = n /\ Len(es) = n
    BY <1>1 DEF n
  <2> QED BY <1>1, <2>1, <2>2 DEF Nth
<1> DEFINE m(i) == n + 1 - i
<1>10. /\ \A i \in 1 .. n : r[i] = es[m(i)] /\ m(i) \in 1 .. n
       /\ \A i, j \in 1 .. n : m(i) = m(j) => i = j
       /\ \A i \in 1 .. n : m(i) = 1 => i = n
  BY <1>1
<1> HIDE DEF m
<1>4. Cells(h, r)
  <2>1. \A i \in 1 .. n : h[r[i]].kind = "ele" /\ h[r[i]].value \in Blocks /\ h[h[r[i]].value].kind = "str"
    BY <1>2, <1>10
  <2>2. ASSUME NEW i \in 1 .. n, NEW j \in 1 .. n, r[i] = r[j] \/ h[r[i]].value = h[r[j]].value PROVE i = j
    <3>1. PICK x \in 1 .. n : x = m(i) /\ r[i] = es[x]
      BY <1>10
    <3>2. PICK y \in 1 .. n : y = m(j) /\ r[j] = es[y]
      BY <1>10
    <3>3. x = y
      BY <1>2, <2>2, <3>1, <3>2
    <3> QED BY <1>10, <3>1, <3>2, <3>3
  <2> QED BY <1>1, <2>1, <2>2 DEF Cells
<1>5. Linked(h, r, 0)
  <2> SUFFICES ASSUME NEW i \in 1 .. n PROVE h[r[i]].next = Nth(r, i + 1)
    BY <1>1 DEF Linked
  <2>1. h[r[i]].next = Nth(es, m(i) - 1)
    BY <1>2, <1>10
  <2>2. i + 1 \in 0 .. n + 1 /\ m(i) - 1 = n + 1 - (i + 1)
    BY <1>1 DEF m
  <2> QED BY <1>3, <2>1, <2>2
<1>6. Nth(r, 1) = LastOf(es) /\ LastOf(r) = Nth(es, 1)
  <2>1. 1 \in 0 .. n + 1 /\ n \in 0 .. n + 1 /\ n + 1 - 1 = n /\ n + 1 - n = 1
    BY <1>1
  <2> QED BY <1>1, <1>3, <2>1 DEF LastOf, n
<1>7. TailFits(h, Nth(es, 1), r)
  <2>1. CASE n = 0
    <3>1. Nth(es, 1) = NULL
      BY <2>1 DEF Nth, n
    <3> QED BY <1>1, <2>1, <3>1 DEF TailFits
  <2>2. CASE n # 0
    <3>1. 1 \in 1 .. n /\ n \in 1 .. n /\ n + 1 - n = 1
      BY <1>1, <2>2
    <3>2. Nth(es, 1) = es[1] /\ es[1] # NULL /\ IsCell(h, es[1])
      BY <1>1, <1>2, <3>1, NullIsNoBlock DEF Nth, IsCell, n
    <3>3. IsLast(es[1], r)
      <4> SUFFICES ASSUME NEW i \in 1 .. n, es[1] = r[i] PROVE i = n
        BY <1>1 DEF IsLast
      <4>1. m(i) = 1
        <5>1. PICK x \in 1 .. n : x = m(i) /\ r[i] = es[x]
          BY <1>10
        <5> QED BY <1>2, <3>1, <5>1
      <4> QED BY <1>10, <4>1
    <3> QED BY <3>2, <3>3 DEF TailFits
  <2> QED BY <2>1, <2>2
<1>8. ASSUME NEW S, Exactly(h, S, es) PROVE Exactly(h, S, r)
  <2> SUFFICES ASSUME NEW b \in Blocks, h[b] # Unused, b \notin S
               PROVE  \E i \in 1 .. n : b = r[i] \/ b = h[r[i]].value
    BY <1>1 DEF Exactly
  <2>1. PICK i \in 1 .. n : b = es[i] \/ b = h[es[i]].value
    BY <1>8 DEF Exactly, n
  <2>2. n + 1 - i \in 1 .. n /\ n + 1 - (n + 1 - i) = i
    BY <1>1
  <2>3. r[n + 1 - i] = es[i]
    BY <1>1, <2>2
  <2> QED BY <2>1, <2>2, <2>3
<1> QED BY <1>1, <1>4, <1>5, <1>6, <1>7, <1>8 DEF n

(* A list cut short while it is turned round: its first element is left.   *)
LEMMA CutList ==
    ASSUME NEW h, NEW es \in Seq(Blocks), NEW k \in 1 .. Len(es), Cells(h, es), Linked(h, es, k)
    PROVE  LET r == << es[1] >> IN
           /\ r \in Seq(Blocks) /\ Len(r) = 1 /\ Cells(h, r) /\ Linked(h, r, 0) /\ Nth(r, 1) = Nth(es, 1)
           /\ \A t : t # NULL /\ TailFits(h, t, es) => TailFits(h, t, r)
           /\ TailFits(h, Nth(es, 1), r)
<1> DEFINE r == << es[1] >>
<1>1. Len(es) \in Nat /\ 1 \in 1 .. Len(es) /\ es[1] \in Blocks /\ 1 <= k /\ 1 - 1 = 0
  BY NthMeans
<1>2. r \in Seq(Blocks) /\ Len(r) = 1 /\ r[1] = es[1] /\ \A i \in 1 .. Len(r) : i = 1
  BY <1>1
<1> HIDE DEF r
<1>3. /\ h[es[1]].kind = "ele" /\ h[es[1]].value \in Blocks /\ h[h[es[1]].value].kind = "str"
      /\ h[es[1]].next = Nth(es, 0)
  BY <1>1 DEF Cells, Linked
<1>4. Cells(h, r)
  BY <1>2, <1>3 DEF Cells
<1>5. Linked(h, r, 0)
  <2>1. Nth(es, 0) = NULL /\ Nth(r, 1 + 1) = NULL
    BY <1>1, <1>2 DEF Nth
  <2>2. ~(1 <= 0)
    OBVIOUS
  <2> QED BY <1>2, <1>3, <2>1, <2>2 DEF Linked
<1>6. Nth(r, 1) = Nth(es, 1) /\ Nth(es, 1) = es[1]
  BY <1>1, <1>2 DEF Nth
<1>7. \A t : t # NULL /\ TailFits(h, t, es) => TailFits(h, t, r)
  BY <1>2 DEF TailFits, IsLast
<1>8. TailFits(h, Nth(es, 1), r)
  BY <1>1, <1>2, <1>3, <1>6, NullIsNoBlock DEF TailFits, IsLast, IsCell
<1> QED BY <1>2, <1>4, <1>5, <1>6, <1>7, <1>8 DEF r

(* A store elsewhere leaves the list as it is.                             *)
LEMMA NotInList ==
    ASSUME NEW es, Cells(heap, es), NEW b
    PROVE  /\ heap[b].kind # "ele" => Apart(b, es)
           /\ heap[b].kind # "str" => \A i \in 1 .. Len(es) : heap[es[i]].value # b
BY DEF Cells, Apart

LEMMA Untouched ==
    ASSUME NEW es \in Seq(Blocks), Cells(heap, es), NEW b, Others(b),
           Apart(b, es), \A i \in 1 .. Len(es) : heap[es[i]].value # b
    PROVE  /\ Cells(heap', es)
           /\ \A k \in Int : Linked(heap, es, k) => Linked(heap', es, k)
           /\ \A p : p # b /\ IsCell(heap, p) => IsCell(heap', p) /\ heap'[p] = heap[p]
           /\ \A p : p # b /\ TailFits(heap, p, es) => TailFits(heap', p, es)
           /\ \A p : p # b /\ IsOwn(heap, p, es) => IsOwn(heap', p, es) /\ heap'[p] = heap[p]
           /\ \A S : b \in S /\ Exactly(heap, S, es) => Exactly(heap', S, es)
           /\ \A S, R : Exactly(heap, S, es) /\ S \subseteq R \cup {b} /\ heap'[b] = Unused => Exactly(heap', R, es)
           /\ \A S, R : Exactly(heap, S, es) /\ S \cup {b} \subseteq R => Exactly(heap', R, es)
<1>1. /\ \A x \in Blocks : x # b => heap'[x] = heap[x]
      /\ \A i \in 1 .. Len(es) : es[i] \in Blocks /\ es[i] # b /\ heap[es[i]].value \in Blocks
  BY NthMeans DEF Others, Cells, Apart
<1>2. \A i \in 1 .. Len(es) : heap'[es[i]] = heap[es[i]] /\ heap'[heap[es[i]].value] = heap[heap[es[i]].value]
  BY <1>1
<1>3. Cells(heap', es) /\ \A k \in Int : Linked(heap, es, k) => Linked(heap', es, k)
  BY <1>2, ListKept
<1>4. \A p : p # b /\ IsCell(heap, p) => IsCell(heap', p) /\ heap'[p] = heap[p]
  BY <1>1 DEF IsCell
<1>5. \A p : p # b /\ TailFits(heap, p, es) => TailFits(heap', p, es)
  BY <1>4 DEF TailFits
<1>6. \A p : p # b /\ IsOwn(heap, p, es) => IsOwn(heap', p, es) /\ heap'[p] = heap[p]
  BY <1>1, <1>2 DEF IsOwn, IsString
<1>7. ASSUME NEW S, NEW R, Exactly(heap, S, es), S \subseteq R \cup {b}, b \in R \/ heap'[b] = Unused
      PROVE  Exactly(heap', R, es)
  <2> SUFFICES ASSUME NEW x \in Blocks, heap'[x] # Unused, x \notin R
               PROVE  \E i \in 1 .. Len(es) : x = es[i] \/ x = heap'[es[i]].value
    BY DEF Exactly
  <2>1. x # b
    BY <1>7
  <2>2. PICK i \in 1 .. Len(es) : x = es[i] \/ x = heap[es[i]].value
    BY <1>1, <1>7, <2>1 DEF Exactly
  <2> QED BY <1>2, <2>2
<1> QED BY <1>3, <1>4, <1>5, <1>6, <1>7

----------------------------------------------------------------------------
(* The list step by step.                                                  *)

LEMMA ShapeFrame ==
    ASSUME Base, QueueOp, NEW es, NEW k, ShapeAt(es, k)
    PROVE  /\ es \in Seq(Blocks) /\ k \in 0 .. Len(es) /\ Len(es) \in Nat /\ Cells(heap, es)
           /\ q' = q /\ qcnt' = qcnt /\ Whole' = Whole /\ reg'.fn = reg.fn /\ reg'.s = reg.s
           /\ heap \in [Blocks -> Objects] /\ reg.new \in Ptr /\ reg.lp \in Ptr /\ reg.prv \in Ptr /\ q \in Ptr
           /\ pc \in QueuePC
<1>1. es \in Seq(Blocks) /\ k \in 0 .. Len(es) /\ Cells(heap, es)
  BY DEF ShapeAt
<1>2. /\ q' = q /\ qcnt' = qcnt /\ cuts' = cuts /\ reg'.fn = reg.fn /\ reg'.s = reg.s /\ pc \in QueuePC
  BY QueueOpStep DEF QueueFrame
<1> QED BY <1>1, <1>2 DEF Base, Types, Registers, Whole

(* A store to the queue object.                                            *)
LEMMA QueueStored ==
    ASSUME Base, QueueOp, NEW es, NEW k, ShapeAt(es, k), q # NULL, Others(q)
    PROVE  /\ Cells(heap', es)
           /\ \A i \in Int : Linked(heap, es, i) => Linked(heap', es, i)
           /\ \A p : IsCell(heap, p) => IsCell(heap', p) /\ heap'[p] = heap[p]
           /\ \A p : TailFits(heap, p, es) => TailFits(heap', p, es)
           /\ \A p : IsOwn(heap, p, es) => IsOwn(heap', p, es) /\ heap'[p] = heap[p]
           /\ \A S : q \in S /\ Exactly(heap, S, es) => Exactly(heap', S, es)
<1>1. es \in Seq(Blocks) /\ Cells(heap, es) /\ pc \in QueuePC
  BY ShapeFrame
<1>2. heap[q].kind = "queue"
  BY <1>1, QueueIsThere
<1>3. Apart(q, es) /\ \A i \in 1 .. Len(es) : heap[es[i]].value # q
  BY <1>1, <1>2, NotInList
<1>4. \A p : /\ IsCell(heap, p) => p # q
             /\ IsOwn(heap, p, es) => p # q
             /\ TailFits(heap, p, es) => p # q
  BY <1>2 DEF IsCell, IsOwn, IsString, TailFits
<1> QED BY <1>1, <1>3, <1>4, Untouched

LEMMA NewShape ==
    ASSUME Base, QueueOp, NEW es, NEW k, ShapeAt(es, k), GetsQueue \/ GetsNoQueue
    PROVE  ShapeAt(es, 0)'
<1>1. /\ es \in Seq(Blocks) /\ Cells(heap, es) /\ q' = q /\ qcnt' = qcnt /\ Whole' = Whole /\ reg'.fn = reg.fn
  BY ShapeFrame
<1>2. pc = "new" /\ pc' = "ret" /\ q = NULL /\ es = << >> /\ (Whole => qcnt = 0 /\ Exactly(heap, {}, es))
  BY DEF GetsQueue, GetsNoQueue, From, ShapeAt, Empty
<1>3. reg.fn = "new"
  BY <1>2 DEF Base, Flow
<1>4. Len(es) = 0
  BY <1>2
<1>5. Cells(heap', es)
  BY <1>2, <1>4 DEF Cells
<1>6. Whole => Exactly(heap', {q, reg'.new}, es)
  <2>1. CASE GetsNoQueue
    BY <1>2, <1>4, <2>1 DEF GetsNoQueue, Exactly
  <2>2. CASE GetsQueue
    <3>1. Others(NewBlock) /\ reg'.new = NewBlock
      BY <2>2 DEF GetsQueue, Took, LocalsBecome
    <3> QED BY <1>2, <1>4, <3>1 DEF Exactly, Others
  <2> QED BY <2>1, <2>2
<1>7. {q'} \cup {reg'.new} = {q, reg'.new}
  BY <1>1
<1> QED BY <1>1, <1>2, <1>3, <1>4, <1>5, <1>6, <1>7 DEF ShapeAt, Exact

LEMMA FreesQueueShape ==
    ASSUME Base, QueueOp, NEW es, NEW k, ShapeAt(es, k), FreesQueue
    PROVE  ShapeAt(es, 0)'
<1>1. /\ es \in Seq(Blocks) /\ Cells(heap, es) /\ q' = q /\ Whole' = Whole /\ reg'.fn = reg.fn
  BY ShapeFrame
<1>2. /\ pc = "free_value" /\ pc' = "ret" /\ reg.lp = NULL /\ Others(q) /\ heap'[q] = Unused /\ reg.lp = Nth(es, 1)
      /\ (Whole => Exactly(heap, {q}, es)) /\ reg.fn \in {"free", "quit"}
  BY DEF FreesQueue, Gave, Back, ShapeAt, Base, Flow
<1>3. es = << >> /\ Len(es) = 0
  <2>1. 1 \notin 1 .. Len(es) /\ Len(es) \in Nat /\ (Len(es) = 0 <=> es = << >>)
    BY <1>1, <1>2, NthMeans
  <2> QED BY <2>1
<1>4. Cells(heap', es)
  BY <1>3 DEF Cells
<1>5. Whole => Exactly(heap', {}, es)
  BY <1>2, <1>3 DEF Exactly, Others
<1> QED BY <1>1, <1>2, <1>3, <1>4, <1>5 DEF ShapeAt, Empty

LEMMA FreesValueShape ==
    ASSUME Base, QueueOp, NEW es, NEW k, ShapeAt(es, k), FreesValue
    PROVE  es # << >> /\ ShapeAt(Tail(es), 0)'
<1>1. /\ es \in Seq(Blocks) /\ Cells(heap, es) /\ q' = q /\ Whole' = Whole /\ reg'.fn = reg.fn
  BY ShapeFrame
<1>2. /\ pc = "free_value" /\ pc' = "free_ele" /\ reg.lp # NULL /\ reg.lp = Nth(es, 1)
      /\ reg'.lp = reg.lp /\ reg'.prv = heap[reg.lp].next
      /\ Linked(heap, es, 0) /\ (Whole => Exactly(heap, {q}, es)) /\ reg.fn \in {"free", "quit"}
  BY DEF FreesValue, From, ShapeAt, Base, Flow, LocalsBecome
<1>3. es # << >> /\ reg.lp = es[1]
  BY <1>1, <1>2, NthMeans
<1> DEFINE t == Tail(es)
           v == heap[es[1]].value
<1>4. IsTail(t, es)
  BY <1>1, <1>3, TailOfList
<1> HIDE DEF t
<1>5. /\ t \in Seq(Blocks) /\ Cells(heap, t) /\ Linked(heap, t, 0) /\ Len(t) \in Nat
      /\ IsCell(heap, es[1]) /\ Apart(es[1], t) /\ heap[es[1]].next = Nth(t, 1)
      /\ IsOwn(heap, v, t) /\ v # es[1] /\ \A i \in 1 .. Len(t) : v # t[i]
      /\ \A S : Exactly(heap, S, es) => Exactly(heap, S \cup {es[1], v}, t)
  BY <1>1, <1>2, <1>3, <1>4, TailList, NthMeans
<1>6. Others(v) /\ heap'[v] = Unused
  BY <1>3 DEF FreesValue, Gave
<1> HIDE DEF v
<1>7. Apart(v, t) /\ \A i \in 1 .. Len(t) : heap[t[i]].value # v
  BY <1>5 DEF Apart, IsOwn
<1>8. /\ Cells(heap', t) /\ Linked(heap', t, 0) /\ IsCell(heap', es[1])
      /\ \A S, R : Exactly(heap, S, t) /\ S \subseteq R \cup {v} => Exactly(heap', R, t)
      /\ heap'[es[1]] = heap[es[1]]
  BY <1>5, <1>6, <1>7, Untouched
<1>9. Whole => Exactly(heap', {q, es[1]}, t)
  <2>1. {q} \cup {es[1], v} \subseteq {q, es[1]} \cup {v}
    OBVIOUS
  <2> QED BY <1>2, <1>5, <1>8, <2>1
<1>10. ShapeAt(t, 0)'
  <2>1. reg'.lp = es[1] /\ reg'.prv = Nth(t, 1) /\ (Whole' => Exactly(heap', {q', reg'.lp}, t))
    BY <1>1, <1>2, <1>3, <1>5, <1>9
  <2>2. IsCell(heap', reg'.lp) /\ Apart(reg'.lp, t)
    BY <1>5, <1>8, <2>1
  <2> QED BY <1>1, <1>2, <1>5, <1>8, <2>1, <2>2 DEF ShapeAt
<1> QED BY <1>3, <1>10 DEF t

LEMMA FreesEleShape ==
    ASSUME Base, QueueOp, NEW es, NEW k, ShapeAt(es, k), FreesEle
    PROVE  ShapeAt(es, 0)'
<1>1. /\ es \in Seq(Blocks) /\ Cells(heap, es) /\ q' = q /\ Whole' = Whole /\ reg'.fn = reg.fn /\ Len(es) \in Nat
  BY ShapeFrame
<1> DEFINE p == reg.lp
<1>2. /\ pc = "free_ele" /\ pc' = "free_value" /\ reg'.lp = reg.prv
      /\ IsCell(heap, p) /\ Apart(p, es) /\ reg.prv = Nth(es, 1)
      /\ Linked(heap, es, 0) /\ (Whole => Exactly(heap, {q, p}, es)) /\ reg.fn \in {"free", "quit"}
      /\ Others(p) /\ heap'[p] = Unused
  BY DEF FreesEle, From, ShapeAt, Base, Flow, LocalsBecome, Gave
<1> HIDE DEF p
<1>3. \A i \in 1 .. Len(es) : heap[es[i]].value # p
  BY <1>1, <1>2, NotInList DEF IsCell
<1>4. /\ Cells(heap', es) /\ Linked(heap', es, 0)
      /\ \A S, R : Exactly(heap, S, es) /\ S \subseteq R \cup {p} => Exactly(heap', R, es)
  BY <1>1, <1>2, <1>3, Untouched
<1>5. Whole => Exactly(heap', {q}, es)
  <2>1. {q, p} \subseteq {q} \cup {p}
    OBVIOUS
  <2> QED BY <1>2, <1>4, <2>1
<1> QED BY <1>1, <1>2, <1>4, <1>5 DEF ShapeAt

LEMMA QueueFields ==
    ASSUME q' = q
    PROVE  /\ \A h, t, s : QueueBecomes(h, t, s) => /\ head' = h /\ tail' = t /\ size' = s /\ Others(q) /\ q # NULL
           /\ \A b : q \in Blocks /\ b # q /\ Others(b) => head' = head /\ tail' = tail /\ size' = size
           /\ UNCHANGED heap => head' = head /\ tail' = tail /\ size' = size
BY DEF QueueBecomes, head, tail, size, Others

(* A step that stores nothing, from rest to rest.                          *)
LEMMA RestShape ==
    ASSUME Base, QueueOp, NEW es, NEW k, ShapeAt(es, k), UNCHANGED heap,
           InsertsNot \/ RemovesNot \/ Sizes
    PROVE  ShapeAt(es, 0)'
<1>1. /\ es \in Seq(Blocks) /\ Cells(heap, es) /\ q' = q /\ qcnt' = qcnt /\ Whole' = Whole /\ reg'.fn = reg.fn
      /\ Len(es) \in Nat
  BY ShapeFrame
<1>2. /\ pc \in {"insert", "remove", "size"} /\ pc' = "ret" /\ Resting(es, Len(es))
      /\ (pc # "size" => reg'.rval = FALSE)
      /\ reg.fn \in {"ih", "it", "rh", "rhq", "size"}
  BY DEF InsertsNot, RemovesNot, Sizes, From, Back, ShapeAt, Base, Flow, InsertPC, RemovePC
<1>3. head' = head /\ tail' = tail /\ size' = size
  BY <1>1, QueueFields
<1>4. Resting(es, Len(es))'
  BY <1>1, <1>2, <1>3 DEF Resting, List, Exact
<1>5. pc = "size" => reg.fn = "size"
  BY DEF Base, Flow
<1>6. reg.fn \in {"ih", "it", "rh", "rhq"} => reg'.rval = FALSE
  BY <1>2, <1>5
<1> QED BY <1>1, <1>2, <1>4, <1>6 DEF ShapeAt

LEMMA GetsEleShape ==
    ASSUME Base, QueueOp, NEW es, NEW k, ShapeAt(es, k), GetsEle
    PROVE  ShapeAt(es, 0)'
<1>1. /\ es \in Seq(Blocks) /\ Cells(heap, es) /\ q' = q /\ qcnt' = qcnt /\ Whole' = Whole /\ reg'.fn = reg.fn
      /\ Len(es) \in Nat /\ q \in Ptr /\ pc \in QueuePC
  BY ShapeFrame
<1> DEFINE b == NewBlock
<1>2. /\ pc = "insert" /\ pc' = "insert_value" /\ Resting(es, Len(es)) /\ q # NULL
      /\ b \in Blocks /\ heap[b] = Unused /\ Others(b) /\ heap'[b] = [kind |-> "ele", value |-> NULL, next |-> NULL]
      /\ reg'.new = b /\ reg.fn \in {"ih", "it"}
  BY DEF GetsEle, From, ShapeAt, Base, Flow, InsertPC, Took, LocalsBecome
<1> HIDE DEF b
<1>3. List(es) /\ TailFits(heap, tail, es) /\ Exact(es, {}, LastOf(es), Len(es), Len(es))
  BY <1>2 DEF Resting
<1>4. heap[b].kind = "unused" /\ heap'[b].kind = "ele"
  BY <1>2 DEF Unused
<1>5. /\ Apart(b, es) /\ (\A i \in 1 .. Len(es) : heap[es[i]].value # b) /\ tail # b /\ q # b /\ q \in Blocks
  <2>1. Apart(b, es) /\ \A i \in 1 .. Len(es) : heap[es[i]].value # b
    BY <1>1, <1>4, NotInList
  <2>2. tail # b
    BY <1>2, <1>3, <1>4, NullIsNoBlock DEF TailFits, IsCell
  <2>3. q \in Blocks /\ heap[q].kind = "queue"
    BY <1>1, <1>2, QueueIsThere
  <2> QED BY <1>4, <2>1, <2>2, <2>3
<1>6. head' = head /\ tail' = tail /\ size' = size
  BY <1>1, <1>2, <1>5, QueueFields
<1>7. /\ Cells(heap', es) /\ Linked(heap', es, 0) /\ TailFits(heap', tail, es)
      /\ \A S, R : Exactly(heap, S, es) /\ S \cup {b} \subseteq R => Exactly(heap', R, es)
  BY <1>1, <1>2, <1>3, <1>5, Untouched DEF List
<1>8. Exact(es, {reg.new}, LastOf(es), Len(es), Len(es))'
  <2>1. ({q} \cup {}) \cup {b} \subseteq {q'} \cup {reg'.new}
    BY <1>1, <1>2
  <2> QED BY <1>1, <1>3, <1>6, <1>7, <2>1 DEF Exact
<1>9. List(es)' /\ TailFits(heap', tail', es) /\ tail' # reg'.new /\ IsCell(heap', reg'.new) /\ Apart(reg'.new, es)
  BY <1>1, <1>2, <1>3, <1>4, <1>5, <1>6, <1>7 DEF List, IsCell
<1> QED BY <1>1, <1>2, <1>7, <1>8, <1>9 DEF ShapeAt

LEMMA GetsValueShape ==
    ASSUME Base, QueueOp, NEW es, NEW k, ShapeAt(es, k), GetsValue
    PROVE  ShapeAt(es, 0)'
<1>1. /\ es \in Seq(Blocks) /\ Cells(heap, es) /\ q' = q /\ qcnt' = qcnt /\ Whole' = Whole /\ reg'.fn = reg.fn
      /\ Len(es) \in Nat /\ q \in Ptr /\ pc \in QueuePC /\ reg'.s = reg.s
  BY ShapeFrame
<1> DEFINE b == NewBlock
           new == reg.new
<1>2. /\ pc = "insert_value" /\ pc' = "insert_copy" /\ reg.fn \in {"ih", "it"}
      /\ List(es) /\ TailFits(heap, tail, es) /\ tail # new /\ IsCell(heap, new) /\ Apart(new, es)
      /\ Exact(es, {new}, LastOf(es), Len(es), Len(es))
      /\ b \in Blocks /\ heap[b] = Unused /\ Others(b) /\ heap'[b] = [kind |-> "str", s |-> reg.s]
      /\ reg'.new = new /\ reg'.lp = b
  BY DEF GetsValue, From, ShapeAt, Base, Flow, InsertPC, Took, LocalsBecome
<1> HIDE DEF b, new
<1>4. heap[b].kind = "unused" /\ heap'[b].kind = "str" /\ heap'[b].s = reg'.s
  BY <1>1, <1>2 DEF Unused
<1>5. /\ Apart(b, es) /\ (\A i \in 1 .. Len(es) : heap[es[i]].value # b) /\ tail # b /\ q # b /\ q \in Blocks
      /\ new # b
  <2>1. Apart(b, es) /\ \A i \in 1 .. Len(es) : heap[es[i]].value # b
    BY <1>1, <1>4, NotInList
  <2>2. tail # b /\ new # b
    BY <1>2, <1>4, NullIsNoBlock DEF TailFits, IsCell
  <2>3. q \in Blocks /\ heap[q].kind = "queue"
    BY <1>1, <1>2, QueueIsThere DEF List
  <2> QED BY <1>4, <2>1, <2>2, <2>3
<1>6. head' = head /\ tail' = tail /\ size' = size
  BY <1>1, <1>2, <1>5, QueueFields
<1>7. /\ Cells(heap', es) /\ Linked(heap', es, 0) /\ TailFits(heap', tail, es) /\ IsCell(heap', new)
      /\ \A S, R : Exactly(heap, S, es) /\ S \cup {b} \subseteq R => Exactly(heap', R, es)
  BY <1>1, <1>2, <1>5, Untouched DEF List
<1>8. Exact(es, {reg.new, reg.lp}, LastOf(es), Len(es), Len(es))'
  <2>1. ({q} \cup {new}) \cup {b} \subseteq {q'} \cup {reg'.new, reg'.lp}
    BY <1>1, <1>2
  <2> QED BY <1>1, <1>2, <1>6, <1>7, <2>1 DEF Exact
<1>9. IsOwn(heap', b, es)
  <2>1. \A i \in 1 .. Len(es) : heap'[es[i]] = heap[es[i]]
    BY <1>1, <1>2, <1>5, NthMeans DEF Others, Apart
  <2> QED BY <1>2, <1>4, <1>5, <2>1 DEF IsOwn, IsString
<1>10. /\ List(es)' /\ TailFits(heap', tail', es) /\ tail' # reg'.new /\ IsCell(heap', reg'.new) /\ Apart(reg'.new, es)
       /\ IsOwn(heap', reg'.lp, es) /\ heap'[reg'.lp].s = reg'.s
  BY <1>1, <1>2, <1>4, <1>5, <1>6, <1>7, <1>9 DEF List
<1> QED BY <1>1, <1>2, <1>7, <1>8, <1>10 DEF ShapeAt

LEMMA GetsNoValueShape ==
    ASSUME Base, QueueOp, NEW es, NEW k, ShapeAt(es, k), GetsNoValue
    PROVE  ShapeAt(es, 0)'
<1>1. /\ es \in Seq(Blocks) /\ Cells(heap, es) /\ q' = q /\ qcnt' = qcnt /\ Whole' = Whole /\ Len(es) \in Nat
  BY ShapeFrame
<1>2. /\ pc = "insert_value" /\ pc' = "insert_undo" /\ UNCHANGED heap /\ reg'.new = reg.new
      /\ List(es) /\ TailFits(heap, tail, es) /\ tail # reg.new /\ IsCell(heap, reg.new) /\ Apart(reg.new, es)
      /\ Exact(es, {reg.new}, LastOf(es), Len(es), Len(es))
  BY DEF GetsNoValue, From, ShapeAt, Same, LocalsBecome
<1>3. head' = head /\ tail' = tail /\ size' = size
  BY <1>1, <1>2, QueueFields
<1>4. List(es)' /\ Exact(es, {reg.new}, LastOf(es), Len(es), Len(es))'
  BY <1>1, <1>2, <1>3 DEF List, Exact
<1>5. TailFits(heap', tail', es) /\ tail' # reg'.new /\ IsCell(heap', reg'.new) /\ Apart(reg'.new, es) /\ Cells(heap', es)
  BY <1>1, <1>2, <1>3
<1> QED BY <1>1, <1>2, <1>4, <1>5 DEF ShapeAt

LEMMA UndoesShape ==
    ASSUME Base, QueueOp, NEW es, NEW k, ShapeAt(es, k), Undoes
    PROVE  ShapeAt(es, 0)'
<1>1. /\ es \in Seq(Blocks) /\ Cells(heap, es) /\ q' = q /\ qcnt' = qcnt /\ Whole' = Whole /\ reg'.fn = reg.fn
      /\ Len(es) \in Nat /\ q \in Ptr /\ pc \in QueuePC
  BY ShapeFrame
<1> DEFINE p == reg.new
<1>2. /\ pc = "insert_undo" /\ pc' = "ret" /\ reg.fn \in {"ih", "it"} /\ reg'.rval = FALSE
      /\ List(es) /\ TailFits(heap, tail, es) /\ tail # p /\ IsCell(heap, p) /\ Apart(p, es)
      /\ Exact(es, {p}, LastOf(es), Len(es), Len(es))
      /\ Others(p) /\ heap'[p] = Unused
  BY DEF Undoes, From, ShapeAt, Base, Flow, InsertPC, Gave, Back
<1> HIDE DEF p
<1>3. (\A i \in 1 .. Len(es) : heap[es[i]].value # p) /\ q # p /\ q \in Blocks
  <2>1. q \in Blocks /\ heap[q].kind = "queue"
    BY <1>1, <1>2, QueueIsThere DEF List
  <2> QED BY <1>1, <1>2, <2>1, NotInList DEF IsCell
<1>4. head' = head /\ tail' = tail /\ size' = size
  BY <1>1, <1>2, <1>3, QueueFields
<1>5. /\ Cells(heap', es) /\ Linked(heap', es, 0) /\ TailFits(heap', tail, es)
      /\ \A S, R : Exactly(heap, S, es) /\ S \subseteq R \cup {p} => Exactly(heap', R, es)
  BY <1>1, <1>2, <1>3, Untouched DEF List
<1>6. Resting(es, Len(es))'
  <2>1. {q} \cup {p} \subseteq ({q'} \cup {}) \cup {p}
    BY <1>1
  <2>2. Exact(es, {}, LastOf(es), Len(es), Len(es))'
    BY <1>1, <1>2, <1>4, <1>5, <2>1 DEF Exact
  <2>3. List(es)' /\ TailFits(heap', tail', es)
    BY <1>1, <1>2, <1>4, <1>5 DEF List
  <2> QED BY <2>2, <2>3 DEF Resting
<1> QED BY <1>1, <1>2, <1>5, <1>6 DEF ShapeAt

LEMMA CopiesShape ==
    ASSUME Base, QueueOp, NEW es, NEW k, ShapeAt(es, k), CopiesHead \/ CopiesTail
    PROVE  ShapeAt(es, 0)'
<1>1. /\ es \in Seq(Blocks) /\ Cells(heap, es) /\ q' = q /\ qcnt' = qcnt /\ Whole' = Whole /\ reg'.fn = reg.fn
      /\ Len(es) \in Nat /\ q \in Ptr /\ pc \in QueuePC /\ reg'.s = reg.s
  BY ShapeFrame
<1> DEFINE new == reg.new
           lp == reg.lp
<1>2. /\ pc = "insert_copy"
      /\ List(es) /\ IsCell(heap, new) /\ Apart(new, es) /\ IsOwn(heap, lp, es) /\ heap[lp].s = reg.s
      /\ TailFits(heap, tail, es) /\ tail # new /\ Exact(es, {new, lp}, LastOf(es), Len(es), Len(es))
  BY DEF CopiesHead, CopiesTail, From, ShapeAt
<1>3. /\ reg'.new = new /\ reg'.lp = lp /\ Others(new) /\ heap'[new].kind = "ele" /\ heap'[new].value = lp
      /\ \/ pc' = "ih_tail" /\ reg.fn = "ih" /\ heap'[new].next = head
         \/ pc' = "it_link" /\ reg.fn = "it" /\ heap'[new].next = NULL
  BY DEF CopiesHead, CopiesTail, From, Same, LocalsBecome, EleBecomes
<1> HIDE DEF new, lp
<1>4. (\A i \in 1 .. Len(es) : heap[es[i]].value # new) /\ q # new /\ q \in Blocks /\ lp # new
  <2>1. q \in Blocks /\ heap[q].kind = "queue"
    BY <1>1, <1>2, QueueIsThere DEF List
  <2> QED BY <1>1, <1>2, <2>1, NotInList DEF IsCell, IsOwn, IsString
<1>5. head' = head /\ tail' = tail /\ size' = size
  BY <1>1, <1>3, <1>4, QueueFields
<1>6. /\ Cells(heap', es) /\ Linked(heap', es, 0) /\ TailFits(heap', tail, es)
      /\ IsOwn(heap', lp, es) /\ heap'[lp] = heap[lp]
      /\ \A S : new \in S /\ Exactly(heap, S, es) => Exactly(heap', S, es)
  BY <1>1, <1>2, <1>3, <1>4, Untouched DEF List
<1>7. Exact(es, {reg.new, reg.lp}, LastOf(es), Len(es), Len(es))'
  <2>1. new \in {q} \cup {new, lp} /\ {q} \cup {new, lp} = {q'} \cup {reg'.new, reg'.lp}
    BY <1>1, <1>3
  <2> QED BY <1>1, <1>2, <1>5, <1>6, <2>1 DEF Exact
<1>8. /\ List(es)' /\ TailFits(heap', tail', es) /\ tail' # reg'.new /\ IsCell(heap', reg'.new) /\ Apart(reg'.new, es)
      /\ IsOwn(heap', reg'.lp, es) /\ heap'[reg'.lp].s = reg'.s /\ heap'[reg'.new].value = reg'.lp
      /\ heap'[reg'.new].next = IF reg'.fn = "ih" THEN Nth(es, 1) ELSE NULL
  BY <1>1, <1>2, <1>3, <1>5, <1>6 DEF List, IsCell
<1> QED BY <1>1, <1>3, <1>6, <1>7, <1>8 DEF ShapeAt

LEMMA SetsTailShape ==
    ASSUME Base, QueueOp, NEW es, NEW k, ShapeAt(es, k), SetsTail
    PROVE  ShapeAt(es, 0)'
<1>1. /\ es \in Seq(Blocks) /\ Cells(heap, es) /\ q' = q /\ qcnt' = qcnt /\ Whole' = Whole /\ reg'.fn = reg.fn
      /\ Len(es) \in Nat /\ q \in Ptr /\ pc \in QueuePC /\ reg'.s = reg.s
  BY ShapeFrame
<1> DEFINE new == reg.new
           lp == reg.lp
           t == IF tail = NULL THEN new ELSE tail
<1>2. /\ pc = "ih_tail" /\ pc' = "ih_head" /\ reg'.new = new /\ reg'.lp = lp /\ reg.fn = "ih"
      /\ List(es) /\ IsCell(heap, new) /\ Apart(new, es) /\ IsOwn(heap, lp, es) /\ heap[lp].s = reg.s
      /\ heap[new].value = lp /\ heap[new].next = Nth(es, 1)
      /\ TailFits(heap, tail, es) /\ tail # new /\ Exact(es, {new, lp}, LastOf(es), Len(es), Len(es))
      /\ QueueBecomes(head, t, size)
  BY DEF SetsTail, From, ShapeAt, Base, Flow, Same, LocalsBecome
<1> HIDE DEF new, lp, t
<1>3. head' = head /\ tail' = t /\ size' = size /\ Others(q) /\ q # NULL
  BY <1>1, <1>2, QueueFields
<1>4. /\ Cells(heap', es) /\ Linked(heap', es, 0) /\ IsCell(heap', new) /\ heap'[new] = heap[new]
      /\ (\A p : TailFits(heap, p, es) => TailFits(heap', p, es))
      /\ IsOwn(heap', lp, es) /\ heap'[lp] = heap[lp]
      /\ \A S : q \in S /\ Exactly(heap, S, es) => Exactly(heap', S, es)
  BY <1>2, <1>3, QueueStored DEF List
<1>5. t # NULL /\ TailFits(heap, t, es) /\ (t = new => es = << >>)
      /\ (tail = LastOf(es) => t = IF es = << >> THEN new ELSE LastOf(es))
  <2>1. CASE tail = NULL
    <3>1. t = new /\ es = << >> /\ new \in Blocks /\ IsCell(heap, new) /\ Len(es) = 0
      BY <1>2, <2>1 DEF t, TailFits, IsCell
    <3> QED BY <3>1, NullIsNoBlock DEF TailFits, IsLast
  <2>2. CASE tail # NULL
    <3>1. t = tail
      BY <2>2 DEF t
    <3> QED BY <1>1, <1>2, <2>2, <3>1, NthMeans
  <2> QED BY <2>1, <2>2
<1>6. Exact(es, {reg.new, reg.lp}, IF es = << >> THEN reg.new ELSE LastOf(es), Len(es), Len(es))'
  <2>1. q \in {q} \cup {new, lp} /\ {q} \cup {new, lp} = {q'} \cup {reg'.new, reg'.lp}
    BY <1>1, <1>2
  <2> QED BY <1>1, <1>2, <1>3, <1>4, <1>5, <2>1 DEF Exact
<1>7. /\ List(es)' /\ tail' # NULL /\ TailFits(heap', tail', es) /\ (tail' = reg'.new => es = << >>)
      /\ IsCell(heap', reg'.new) /\ Apart(reg'.new, es)
      /\ IsOwn(heap', reg'.lp, es) /\ heap'[reg'.lp].s = reg'.s /\ heap'[reg'.new].value = reg'.lp
      /\ heap'[reg'.new].next = Nth(es, 1)
  BY <1>1, <1>2, <1>3, <1>4, <1>5 DEF List
<1> QED BY <1>1, <1>2, <1>4, <1>6, <1>7 DEF ShapeAt

LEMMA SetsHeadShape ==
    ASSUME Base, QueueOp, NEW es, NEW k, ShapeAt(es, k), SetsHead,
           NEW c, c = <<reg.new>> \o es
    PROVE  ShapeAt(c, 0)'
<1>1. /\ es \in Seq(Blocks) /\ Cells(heap, es) /\ q' = q /\ qcnt' = qcnt /\ Whole' = Whole /\ reg'.fn = reg.fn
      /\ Len(es) \in Nat /\ q \in Ptr /\ pc \in QueuePC
  BY ShapeFrame
<1> DEFINE new == reg.new
           lp == reg.lp
<1>2. /\ pc = "ih_head" /\ pc' = "insert_size" /\ reg.fn = "ih"
      /\ List(es) /\ IsCell(heap, new) /\ Apart(new, es) /\ IsOwn(heap, lp, es)
      /\ heap[new].value = lp /\ heap[new].next = Nth(es, 1)
      /\ tail # NULL /\ TailFits(heap, tail, es) /\ (tail = new => es = << >>)
      /\ Exact(es, {new, lp}, IF es = << >> THEN new ELSE LastOf(es), Len(es), Len(es))
      /\ QueueBecomes(new, tail, size)
  BY DEF SetsHead, From, ShapeAt, Base, Flow
<1>3. head' = new /\ tail' = tail /\ size' = size /\ Others(q) /\ q # NULL
  BY <1>1, <1>2, QueueFields
<1>4. c \in Seq(Blocks) /\ c # << >> /\ c[1] = new /\ IsTail(es, c)
  BY <1>1, <1>2, ConsOfList DEF IsCell
<1> HIDE DEF new, lp
<1>5. /\ Cells(heap', es) /\ Linked(heap', es, 0) /\ IsCell(heap', new) /\ heap'[new] = heap[new]
      /\ TailFits(heap', tail, es) /\ IsOwn(heap', lp, es)
      /\ \A S : q \in S /\ Exactly(heap, S, es) => Exactly(heap', S, es)
  BY <1>2, <1>3, QueueStored DEF List
<1>6. /\ Len(c) = Len(es) + 1 /\ Cells(heap', c) /\ Linked(heap', c, 0) /\ Nth(c, 1) = new
      /\ \A S : Exactly(heap', S \cup {new, lp}, es) => Exactly(heap', S, c)
      /\ LastOf(c) = IF es = << >> THEN new ELSE LastOf(es)
      /\ TailFits(heap', tail, c)
  <2>1. heap'[new].value = lp /\ heap'[new].next = Nth(es, 1)
    BY <1>2, <1>5
  <2>2. /\ IsCell(heap', c[1]) /\ Apart(c[1], es) /\ IsOwn(heap', heap'[c[1]].value, es)
        /\ heap'[c[1]].next = Nth(es, 1) /\ c[1] = new /\ heap'[c[1]].value = lp
    BY <1>2, <1>4, <1>5, <2>1
  <2>3. /\ Len(c) = Len(es) + 1 /\ Cells(heap', c) /\ Linked(heap', c, 0) /\ Nth(c, 1) = c[1]
        /\ \A S : Exactly(heap', S \cup {c[1], heap'[c[1]].value}, es) => Exactly(heap', S, c)
        /\ LastOf(c) = IF es = << >> THEN c[1] ELSE LastOf(es)
        /\ \A x : x # NULL /\ TailFits(heap', x, es) /\ (x = c[1] => es = << >>) => TailFits(heap', x, c)
    BY <1>1, <1>4, <1>5, <2>2, ConsList
  <2> QED BY <1>2, <1>5, <2>2, <2>3
<1>7. Exact(c, {}, LastOf(c), Len(c) - 1, Len(c) - 1)'
  <2>1. q \in {q} \cup {new, lp} /\ {q} \cup {new, lp} = ({q'} \cup {}) \cup {new, lp} /\ Len(c) - 1 = Len(es)
    BY <1>1, <1>6
  <2> QED BY <1>1, <1>2, <1>3, <1>5, <1>6, <2>1 DEF Exact
<1>8. List(c)' /\ TailFits(heap', tail', c)
  BY <1>1, <1>3, <1>6 DEF List
<1> QED BY <1>1, <1>2, <1>4, <1>6, <1>7, <1>8 DEF ShapeAt

LEMMA LinksFirstShape ==
    ASSUME Base, QueueOp, NEW es, NEW k, ShapeAt(es, k), LinksFirst,
           NEW c, c = <<reg.new>> \o es
    PROVE  es = << >> /\ ShapeAt(c, 0)'
<1>1. /\ es \in Seq(Blocks) /\ Cells(heap, es) /\ q' = q /\ qcnt' = qcnt /\ Whole' = Whole /\ reg'.fn = reg.fn
      /\ Len(es) \in Nat /\ q \in Ptr /\ pc \in QueuePC
  BY ShapeFrame
<1> DEFINE new == reg.new
           lp == reg.lp
<1>2. /\ pc = "it_link" /\ pc' = "it_tail" /\ reg.fn = "it" /\ reg'.new = new /\ head = NULL
      /\ List(es) /\ IsCell(heap, new) /\ Apart(new, es) /\ IsOwn(heap, lp, es)
      /\ heap[new].value = lp /\ heap[new].next = NULL
      /\ Exact(es, {new, lp}, LastOf(es), Len(es), Len(es))
      /\ QueueBecomes(new, tail, size)
  BY DEF LinksFirst, From, ShapeAt, Base, Flow, Same, LocalsBecome
<1>3. head' = new /\ tail' = tail /\ size' = size /\ Others(q) /\ q # NULL
  BY <1>1, <1>2, QueueFields
<1>4. es = << >> /\ Len(es) = 0 /\ Nth(es, 1) = NULL
  <2>1. Nth(es, 1) = NULL
    BY <1>2 DEF List
  <2>2. Len(es) \in Nat /\ 1 \notin 1 .. Len(es) /\ (Len(es) = 0 <=> es = << >>)
    BY <1>1, <2>1, NthMeans
  <2> QED BY <2>1, <2>2
<1>5. c \in Seq(Blocks) /\ c # << >> /\ c[1] = new /\ IsTail(es, c)
  BY <1>1, <1>2, ConsOfList DEF IsCell
<1> HIDE DEF new, lp
<1>7. /\ Cells(heap', es) /\ Linked(heap', es, 0) /\ IsCell(heap', new) /\ heap'[new] = heap[new]
      /\ IsOwn(heap', lp, es)
      /\ \A S : q \in S /\ Exactly(heap, S, es) => Exactly(heap', S, es)
  BY <1>2, <1>3, QueueStored DEF List
<1>8. /\ Len(c) = Len(es) + 1 /\ Cells(heap', c) /\ Linked(heap', c, 0) /\ Nth(c, 1) = new
      /\ \A S : Exactly(heap', S \cup {new, lp}, es) => Exactly(heap', S, c)
      /\ LastOf(c) = new
  <2>1. heap'[new].value = lp /\ heap'[new].next = Nth(es, 1)
    BY <1>2, <1>4, <1>7
  <2>2. /\ IsCell(heap', c[1]) /\ Apart(c[1], es) /\ IsOwn(heap', heap'[c[1]].value, es)
        /\ heap'[c[1]].next = Nth(es, 1) /\ c[1] = new /\ heap'[c[1]].value = lp
    BY <1>2, <1>5, <1>7, <2>1
  <2>3. /\ Len(c) = Len(es) + 1 /\ Cells(heap', c) /\ Linked(heap', c, 0) /\ Nth(c, 1) = c[1]
        /\ \A S : Exactly(heap', S \cup {c[1], heap'[c[1]].value}, es) => Exactly(heap', S, c)
        /\ LastOf(c) = IF es = << >> THEN c[1] ELSE LastOf(es)
    <3>1. PICK h : h = heap'
      OBVIOUS
    <3>2. /\ es \in Seq(Blocks) /\ c \in Seq(Blocks) /\ c # << >> /\ IsTail(es, c)
          /\ Cells(h, es) /\ Linked(h, es, 0) /\ IsCell(h, c[1]) /\ Apart(c[1], es)
          /\ IsOwn(h, h[c[1]].value, es) /\ h[c[1]].next = Nth(es, 1)
      BY <1>1, <1>5, <1>7, <2>2, <3>1
    <3>3. /\ Len(c) = Len(es) + 1 /\ Cells(h, c) /\ Linked(h, c, 0) /\ Nth(c, 1) = c[1]
          /\ \A S : Exactly(h, S \cup {c[1], h[c[1]].value}, es) => Exactly(h, S, c)
          /\ LastOf(c) = IF es = << >> THEN c[1] ELSE LastOf(es)
      BY ONLY <3>2, ConsList
    <3> QED BY <3>1, <3>3
  <2> QED BY <1>2, <1>4, <2>2, <2>3
<1>9. Exact(c, {}, tail, Len(c) - 1, Len(c) - 1)'
  <2>1. q \in {q} \cup {new, lp} /\ {q} \cup {new, lp} = ({q'} \cup {}) \cup {new, lp} /\ Len(c) - 1 = Len(es)
    BY <1>1, <1>8
  <2> QED BY <1>1, <1>2, <1>3, <1>7, <1>8, <2>1 DEF Exact
<1>10. List(c)' /\ IsCell(heap', reg'.new) /\ IsLast(reg'.new, c) /\ reg'.new = LastOf(c)
  <2>1. List(c)'
    BY <1>1, <1>3, <1>8 DEF List
  <2>2. Len(c) = 1
    BY <1>4, <1>8
  <2>3. IsLast(new, c)
    BY <2>2 DEF IsLast
  <2> QED BY <1>2, <1>7, <1>8, <2>1, <2>3
<1> QED BY <1>1, <1>2, <1>4, <1>5, <1>8, <1>9, <1>10 DEF ShapeAt

LEMMA LinksLastShape ==
    ASSUME Base, QueueOp, NEW es, NEW k, ShapeAt(es, k), LinksLast,
           NEW a, a = Append(es, reg.new)
    PROVE  ShapeAt(a, 0)' \/ (~Whole /\ ShapeAt(es, 0)')
<1>1. /\ es \in Seq(Blocks) /\ Cells(heap, es) /\ q' = q /\ qcnt' = qcnt /\ Whole' = Whole /\ reg'.fn = reg.fn
      /\ Len(es) \in Nat /\ q \in Ptr /\ pc \in QueuePC
  BY ShapeFrame
<1> DEFINE new == reg.new
           lp == reg.lp
           t == tail
<1>2. /\ pc = "it_link" /\ pc' = "it_tail" /\ reg.fn = "it" /\ reg'.new = new /\ head # NULL /\ t # NULL
      /\ List(es) /\ IsCell(heap, new) /\ Apart(new, es) /\ IsOwn(heap, lp, es)
      /\ heap[new].value = lp /\ heap[new].next = NULL /\ TailFits(heap, t, es) /\ t # new
      /\ Exact(es, {new, lp}, LastOf(es), Len(es), Len(es))
      /\ Others(t) /\ heap'[t].kind = "ele" /\ heap'[t].value = heap[t].value /\ heap'[t].next = new
  BY DEF LinksLast, From, ShapeAt, Base, Flow, Same, LocalsBecome, EleBecomes
<1> HIDE DEF new, lp
<1>3. IsCell(heap, t) /\ IsLast(t, es)
  BY <1>2 DEF TailFits
<1>4. q \in Blocks /\ q # t /\ q # NULL
  <2>1. q \in Blocks /\ heap[q].kind = "queue" /\ q # NULL
    BY <1>1, <1>2, QueueIsThere DEF List
  <2> QED BY <1>3, <2>1 DEF IsCell
<1>5. head' = head /\ tail' = t /\ size' = size
  BY <1>1, <1>2, <1>4, QueueFields
<1>6. es # << >> /\ Nth(es, 1) = head
  BY <1>1, <1>2, NthMeans DEF List
<1>7. CASE t = LastOf(es)
  <2>1. /\ a \in Seq(Blocks) /\ Len(a) = Len(es) + 1 /\ Cells(heap', a) /\ Linked(heap', a, 0)
        /\ Nth(a, 1) = Nth(es, 1) /\ LastOf(a) = new /\ IsLast(new, a) /\ IsCell(heap', new)
        /\ \A S : Exactly(heap, S \cup {new, heap[new].value}, es) => Exactly(heap', S, a)
    <3>1. PICK h, g, p : h = heap /\ g = heap' /\ p = new
      OBVIOUS
    <3>2. /\ es \in Seq(Blocks) /\ IsAppend(a, es, p)
          /\ Cells(h, es) /\ Linked(h, es, 0) /\ es # << >> /\ IsCell(h, p) /\ Apart(p, es)
          /\ IsOwn(h, h[p].value, es) /\ h[p].next = NULL
      BY <1>1, <1>2, <1>6, <3>1, AppendOfList DEF List, new, IsCell
    <3>3. Links(g, h, LastOf(es), p)
      BY <1>2, <1>7, <3>1 DEF Others, Links
    <3>4. /\ a \in Seq(Blocks) /\ Len(a) = Len(es) + 1 /\ Cells(g, a) /\ Linked(g, a, 0)
          /\ Nth(a, 1) = Nth(es, 1) /\ LastOf(a) = p /\ IsLast(p, a) /\ IsCell(g, p)
          /\ \A S : Exactly(h, S \cup {p, h[p].value}, es) => Exactly(g, S, a)
      BY ONLY <3>2, <3>3, AppendList
    <3> QED BY <3>1, <3>4
  <2>2. Exact(a, {}, tail, Len(a) - 1, Len(a) - 1)'
    <3>1. {q} \cup {new, lp} = ({q'} \cup {}) \cup {new, heap[new].value} /\ Len(a) - 1 = Len(es)
      BY <1>1, <1>2, <2>1
    <3> QED BY <1>1, <1>2, <1>5, <2>1, <3>1 DEF Exact
  <2>3. List(a)' /\ IsCell(heap', reg'.new) /\ IsLast(reg'.new, a) /\ reg'.new = LastOf(a)
    BY <1>1, <1>2, <1>4, <1>5, <1>6, <2>1 DEF List
  <2>4. ShapeAt(a, 0)'
    BY <1>1, <1>2, <2>1, <2>2, <2>3 DEF ShapeAt
  <2> QED BY <2>4
<1>8. CASE t # LastOf(es)
  <2>1. ~Whole
    BY <1>2, <1>8 DEF Exact, List
  <2>2. Apart(t, es) /\ \A i \in 1 .. Len(es) : heap[es[i]].value # t
    <3>1. \A i \in 1 .. Len(es) : heap[es[i]].value # t
      BY <1>1, <1>3, NotInList DEF IsCell
    <3>2. ASSUME NEW i \in 1 .. Len(es), t = es[i] PROVE FALSE
      <4>1. i = Len(es)
        BY <1>3, <3>2 DEF IsLast
      <4> QED BY <1>1, <1>8, <3>2, <4>1, NthMeans DEF LastOf
    <3> QED BY <3>1, <3>2 DEF Apart
  <2>3. Cells(heap', es) /\ Linked(heap', es, 0) /\ IsCell(heap', new)
    BY <1>1, <1>2, <2>2, Untouched DEF List
  <2>4. Exact(es, {}, tail, Len(es) - 1, Len(es) - 1)'
    BY <1>1, <2>1 DEF Exact
  <2>5. List(es)' /\ IsCell(heap', reg'.new) /\ IsLast(reg'.new, es) /\ ~Whole'
    BY <1>1, <1>2, <1>4, <1>5, <1>6, <2>1, <2>3 DEF List, IsLast, Apart
  <2>6. ShapeAt(es, 0)'
    BY <1>1, <1>2, <2>3, <2>4, <2>5 DEF ShapeAt
  <2> QED BY <2>1, <2>6
<1> QED BY <1>7, <1>8

LEMMA MovesTailShape ==
    ASSUME Base, QueueOp, NEW es, NEW k, ShapeAt(es, k), MovesTail
    PROVE  ShapeAt(es, 0)'
<1>1. /\ es \in Seq(Blocks) /\ Cells(heap, es) /\ q' = q /\ qcnt' = qcnt /\ Whole' = Whole /\ reg'.fn = reg.fn
      /\ Len(es) \in Nat /\ q \in Ptr /\ pc \in QueuePC
  BY ShapeFrame
<1>2. /\ pc = "it_tail" /\ pc' = "insert_size" /\ reg.fn = "it"
      /\ List(es) /\ IsCell(heap, reg.new) /\ IsLast(reg.new, es) /\ (Whole => reg.new = LastOf(es))
      /\ Exact(es, {}, tail, Len(es) - 1, Len(es) - 1)
      /\ QueueBecomes(head, reg.new, size)
  BY DEF MovesTail, From, ShapeAt, Base, Flow
<1>3. head' = head /\ tail' = reg.new /\ size' = size /\ Others(q) /\ q # NULL
  BY <1>1, <1>2, QueueFields
<1>4. TailFits(heap, reg.new, es)
  BY <1>2, NullIsNoBlock DEF TailFits, IsCell
<1>5. /\ Cells(heap', es) /\ Linked(heap', es, 0) /\ TailFits(heap', reg.new, es)
      /\ \A S : q \in S /\ Exactly(heap, S, es) => Exactly(heap', S, es)
  BY <1>2, <1>3, <1>4, QueueStored DEF List
<1>6. Exact(es, {}, LastOf(es), Len(es) - 1, Len(es) - 1)'
  <2>1. q \in {q} \cup {} /\ {q} \cup {} = {q'} \cup {}
    BY <1>1
  <2> QED BY <1>1, <1>2, <1>3, <1>5, <2>1 DEF Exact
<1>7. List(es)' /\ TailFits(heap', tail', es)
  BY <1>1, <1>2, <1>3, <1>5 DEF List
<1> QED BY <1>1, <1>2, <1>5, <1>6, <1>7 DEF ShapeAt

LEMMA GrowsShape ==
    ASSUME Base, QueueOp, NEW es, NEW k, ShapeAt(es, k), Grows \/ Shrinks
    PROVE  ShapeAt(es, 0)'
<1>1. /\ es \in Seq(Blocks) /\ Cells(heap, es) /\ q' = q /\ qcnt' = qcnt /\ Whole' = Whole /\ reg'.fn = reg.fn
      /\ Len(es) \in Nat /\ q \in Ptr /\ pc \in QueuePC
  BY ShapeFrame
<1>2. /\ pc' = "ret" /\ List(es) /\ TailFits(heap, tail, es) /\ reg'.rval = TRUE
      /\ \/ /\ reg.fn \in {"ih", "it"} /\ QueueBecomes(head, tail, size + 1)
            /\ Exact(es, {}, LastOf(es), Len(es) - 1, Len(es) - 1)
         \/ /\ reg.fn \in {"rh", "rhq"} /\ QueueBecomes(head, tail, size - 1)
            /\ Exact(es, {}, LastOf(es), Len(es) + 1, Len(es) + 1)
  BY DEF Grows, Shrinks, Back, ShapeAt, Base, Flow, InsertPC, RemovePC
<1>3. /\ head' = head /\ tail' = tail /\ Others(q) /\ q # NULL
      /\ \/ reg.fn \in {"ih", "it"} /\ size' = size + 1
         \/ reg.fn \in {"rh", "rhq"} /\ size' = size - 1
  BY <1>1, <1>2, QueueFields
<1>5. /\ Cells(heap', es) /\ Linked(heap', es, 0) /\ TailFits(heap', tail, es)
      /\ \A S : q \in S /\ Exactly(heap, S, es) => Exactly(heap', S, es)
  BY <1>2, <1>3, QueueStored DEF List
<1>4. PICK c : c = IF reg.fn \in {"ih", "it"} THEN Len(es) - 1 ELSE Len(es) + 1
  OBVIOUS
<1>6. Exact(es, {}, LastOf(es), c, c) /\ (size = c => size' = Len(es))
  <2>1. /\ Exact(es, {}, LastOf(es), c, c)
        /\ \/ c = Len(es) - 1 /\ size' = size + 1
           \/ c = Len(es) + 1 /\ size' = size - 1
    BY <1>2, <1>3, <1>4
  <2> QED BY <1>1, <2>1
<1>7. Exact(es, {}, LastOf(es), Len(es), c)'
  <2>1. q \in {q} \cup {} /\ {q} \cup {} = {q'} \cup {}
    BY <1>1
  <2>2. Whole => Exactly(heap', {q'} \cup {}, es) /\ tail' = LastOf(es) /\ size' = Len(es) /\ qcnt' = c
    BY <1>1, <1>3, <1>5, <1>6, <2>1 DEF Exact
  <2> QED BY <1>1, <2>2 DEF Exact
<1>8. Resting(es, c)'
  <2>1. List(es)' /\ TailFits(heap', tail', es)
    BY <1>1, <1>2, <1>3, <1>5 DEF List
  <2>2. Exact(es, {}, LastOf(es), Len(es), c)'
    BY <1>7
  <2> QED BY <2>1, <2>2 DEF Resting
<1> QED BY <1>1, <1>2, <1>4, <1>5, <1>8 DEF ShapeAt

LEMMA RemovesValueShape ==
    ASSUME Base, QueueOp, NEW es, NEW k, ShapeAt(es, k), RemovesValue
    PROVE  es # << >> /\ ShapeAt(Tail(es), 0)'
<1>1. /\ es \in Seq(Blocks) /\ Cells(heap, es) /\ q' = q /\ qcnt' = qcnt /\ Whole' = Whole /\ reg'.fn = reg.fn
      /\ q \in Ptr /\ pc \in QueuePC /\ Len(es) \in Nat
  BY ShapeFrame
<1> DEFINE new == head
<1>2. /\ pc = "remove" /\ pc' = "remove_head" /\ q # NULL /\ new # NULL /\ reg'.new = new
      /\ Resting(es, Len(es)) /\ reg.fn \in {"rh", "rhq"}
  BY DEF RemovesValue, From, ShapeAt, Base, Flow, RemovePC, LocalsBecome
<1>3. List(es) /\ TailFits(heap, tail, es) /\ Exact(es, {}, LastOf(es), Len(es), Len(es))
  BY <1>2 DEF Resting
<1>4. es # << >> /\ new = es[1] /\ q \in Blocks /\ heap[q].kind = "queue"
  BY <1>1, <1>2, <1>3, NthMeans, QueueIsThere DEF List
<1> DEFINE t == Tail(es)
           v == heap[es[1]].value
<1>5. IsTail(t, es)
  BY <1>1, <1>4, TailOfList
<1> HIDE DEF t
<1>6. /\ t \in Seq(Blocks) /\ Cells(heap, t) /\ Linked(heap, t, 0) /\ Len(t) \in Nat /\ Len(es) = Len(t) + 1
      /\ IsCell(heap, es[1]) /\ Apart(es[1], t) /\ heap[es[1]].next = Nth(t, 1)
      /\ IsOwn(heap, v, t) /\ v # es[1] /\ \A i \in 1 .. Len(t) : v # t[i]
      /\ \A S : Exactly(heap, S, es) => Exactly(heap, S \cup {es[1], v}, t)
      /\ LastOf(es) = IF t = << >> THEN es[1] ELSE LastOf(t)
      /\ \A x : x # NULL /\ TailFits(heap, x, es) => TailFits(heap, x, t) /\ (x = es[1] => t = << >>)
  BY <1>1, <1>3, <1>4, <1>5, TailList, NthMeans DEF List
<1>7. Others(v) /\ heap'[v] = Unused
  BY <1>4 DEF RemovesValue, Gave
<1> HIDE DEF v
<1>8. Apart(v, t) /\ (\A i \in 1 .. Len(t) : heap[t[i]].value # v) /\ tail # NULL /\ q # v /\ tail # v
  <2>1. tail # NULL /\ IsCell(heap, tail) /\ heap[v].kind = "str"
    BY <1>3, <1>4, <1>6 DEF TailFits, IsOwn, IsString
  <2> QED BY <1>4, <1>6, <2>1 DEF Apart, IsOwn, IsCell
<1>9. head' = head /\ tail' = tail /\ size' = size
  BY <1>1, <1>4, <1>7, <1>8, QueueFields
<1>10. /\ Cells(heap', t) /\ Linked(heap', t, 0) /\ IsCell(heap', es[1]) /\ TailFits(heap', tail, t)
       /\ \A S, R : Exactly(heap, S, t) /\ S \subseteq R \cup {v} => Exactly(heap', R, t)
       /\ heap'[es[1]] = heap[es[1]]
  BY <1>3, <1>6, <1>7, <1>8, Untouched
<1>11. Exact(t, {reg.new}, IF t = << >> THEN reg.new ELSE LastOf(t), Len(t) + 1, Len(t) + 1)'
  <2>1. ({q} \cup {}) \cup {es[1], v} \subseteq ({q'} \cup {reg'.new}) \cup {v}
    BY <1>1, <1>2, <1>4
  <2> QED BY <1>1, <1>2, <1>3, <1>4, <1>6, <1>9, <1>10, <2>1 DEF Exact
<1>12. /\ q' # NULL /\ head' = reg'.new /\ IsCell(heap', reg'.new) /\ Apart(reg'.new, t)
       /\ heap'[reg'.new].next = Nth(t, 1)
       /\ tail' # NULL /\ TailFits(heap', tail', t) /\ (tail' = reg'.new => t = << >>)
  BY <1>1, <1>2, <1>3, <1>4, <1>6, <1>8, <1>9, <1>10
<1>13. ShapeAt(t, 0)'
  BY <1>1, <1>2, <1>6, <1>10, <1>11, <1>12 DEF ShapeAt
<1> QED BY <1>4, <1>13 DEF t

LEMMA UnlinksShape ==
    ASSUME Base, QueueOp, NEW es, NEW k, ShapeAt(es, k), Unlinks
    PROVE  ShapeAt(es, 0)'
<1>1. /\ es \in Seq(Blocks) /\ Cells(heap, es) /\ q' = q /\ qcnt' = qcnt /\ Whole' = Whole /\ reg'.fn = reg.fn
      /\ Len(es) \in Nat /\ q \in Ptr /\ pc \in QueuePC
  BY ShapeFrame
<1> DEFINE new == reg.new
<1>2. /\ pc = "remove_head" /\ reg'.new = new /\ reg.fn \in {"rh", "rhq"}
      /\ q # NULL /\ Linked(heap, es, 0) /\ IsCell(heap, new) /\ Apart(new, es) /\ heap[new].next = Nth(es, 1)
      /\ TailFits(heap, tail, es) /\ (tail = new => es = << >>)
      /\ Exact(es, {new}, IF es = << >> THEN new ELSE LastOf(es), Len(es) + 1, Len(es) + 1)
      /\ QueueBecomes(Nth(es, 1), tail, size)
      /\ pc' = IF Nth(es, 1) = NULL THEN "remove_tail" ELSE "remove_ele"
  BY DEF Unlinks, ShapeAt, Base, Flow, RemovePC, Same, LocalsBecome
<1> HIDE DEF new
<1>3. head' = Nth(es, 1) /\ tail' = tail /\ size' = size /\ Others(q)
  BY <1>1, <1>2, QueueFields
<1>4. /\ Cells(heap', es) /\ Linked(heap', es, 0) /\ IsCell(heap', new) /\ TailFits(heap', tail, es)
      /\ \A S : q \in S /\ Exactly(heap, S, es) => Exactly(heap', S, es)
  BY <1>2, <1>3, QueueStored
<1>5. List(es)' /\ IsCell(heap', reg'.new) /\ TailFits(heap', tail', es)
  BY <1>1, <1>2, <1>3, <1>4 DEF List
<1>6. /\ Nth(es, 1) = NULL => es = << >> /\ Len(es) + 1 = 1
      /\ Nth(es, 1) # NULL => es # << >>
  <2>1. Nth(es, 1) = NULL <=> 1 \notin 1 .. Len(es)
    BY <1>1, NthMeans
  <2>2. Len(es) = 0 <=> es = << >>
    BY <1>1, NthMeans
  <2> QED BY <1>1, <2>1, <2>2
<1>7. q \in {q} \cup {new} /\ {q} \cup {new} = {q'} \cup {reg'.new}
  BY <1>1, <1>2
<1>8. CASE Nth(es, 1) = NULL
  <2>1. Exact(es, {reg.new}, tail, 1, 1)'
    BY <1>1, <1>2, <1>3, <1>4, <1>6, <1>7, <1>8 DEF Exact
  <2> QED BY <1>1, <1>2, <1>4, <1>5, <1>6, <1>8, <2>1 DEF ShapeAt
<1>9. CASE Nth(es, 1) # NULL
  <2>1. Exact(es, {reg.new}, LastOf(es), Len(es) + 1, Len(es) + 1)'
    BY <1>1, <1>2, <1>3, <1>4, <1>6, <1>7, <1>9 DEF Exact
  <2>2. Apart(reg'.new, es) /\ tail' # reg'.new
    BY <1>2, <1>3, <1>6, <1>9
  <2> QED BY <1>1, <1>2, <1>4, <1>5, <1>9, <2>1, <2>2 DEF ShapeAt
<1> QED BY <1>8, <1>9

LEMMA DropsTailShape ==
    ASSUME Base, QueueOp, NEW es, NEW k, ShapeAt(es, k), DropsTail
    PROVE  ShapeAt(es, 0)'
<1>1. /\ es \in Seq(Blocks) /\ Cells(heap, es) /\ q' = q /\ qcnt' = qcnt /\ Whole' = Whole /\ reg'.fn = reg.fn
      /\ Len(es) \in Nat /\ q \in Ptr /\ pc \in QueuePC
  BY ShapeFrame
<1> DEFINE new == reg.new
<1>2. /\ pc = "remove_tail" /\ pc' = "remove_ele" /\ reg'.new = new /\ reg.fn \in {"rh", "rhq"}
      /\ List(es) /\ es = << >> /\ IsCell(heap, new) /\ Exact(es, {new}, tail, 1, 1)
      /\ QueueBecomes(head, NULL, size)
  BY DEF DropsTail, From, ShapeAt, Base, Flow, RemovePC, Same, LocalsBecome
<1> HIDE DEF new
<1>3. head' = head /\ tail' = NULL /\ size' = size /\ Others(q) /\ q # NULL
  BY <1>1, <1>2, QueueFields
<1>4. /\ Cells(heap', es) /\ Linked(heap', es, 0) /\ IsCell(heap', new)
      /\ \A S : q \in S /\ Exactly(heap, S, es) => Exactly(heap', S, es)
  BY <1>2, <1>3, QueueStored DEF List
<1>5. Len(es) = 0 /\ LastOf(es) = NULL
  BY <1>1, <1>2, NthMeans
<1>6. Exact(es, {reg.new}, LastOf(es), Len(es) + 1, Len(es) + 1)'
  <2>1. q \in {q} \cup {new} /\ {q} \cup {new} = {q'} \cup {reg'.new} /\ Len(es) + 1 = 1
    BY <1>1, <1>2, <1>5
  <2> QED BY <1>1, <1>2, <1>3, <1>4, <1>5, <2>1 DEF Exact
<1>7. /\ List(es)' /\ TailFits(heap', tail', es) /\ tail' # reg'.new /\ IsCell(heap', reg'.new)
      /\ Apart(reg'.new, es)
  BY <1>1, <1>2, <1>3, <1>4, <1>5, NullIsNoBlock DEF List, TailFits, IsCell, Apart
<1> QED BY <1>1, <1>2, <1>4, <1>6, <1>7 DEF ShapeAt

LEMMA RemovesEleShape ==
    ASSUME Base, QueueOp, NEW es, NEW k, ShapeAt(es, k), RemovesEle
    PROVE  ShapeAt(es, 0)'
<1>1. /\ es \in Seq(Blocks) /\ Cells(heap, es) /\ q' = q /\ qcnt' = qcnt /\ Whole' = Whole /\ reg'.fn = reg.fn
      /\ Len(es) \in Nat /\ q \in Ptr /\ pc \in QueuePC
  BY ShapeFrame
<1> DEFINE p == reg.new
<1>2. /\ pc = "remove_ele" /\ pc' = "remove_size" /\ reg.fn \in {"rh", "rhq"}
      /\ List(es) /\ TailFits(heap, tail, es) /\ tail # p /\ IsCell(heap, p) /\ Apart(p, es)
      /\ Exact(es, {p}, LastOf(es), Len(es) + 1, Len(es) + 1)
      /\ Others(p) /\ heap'[p] = Unused
  BY DEF RemovesEle, From, ShapeAt, Base, Flow, RemovePC, Gave
<1> HIDE DEF p
<1>3. (\A i \in 1 .. Len(es) : heap[es[i]].value # p) /\ q # p /\ q \in Blocks
  <2>1. q \in Blocks /\ heap[q].kind = "queue"
    BY <1>1, <1>2, QueueIsThere DEF List
  <2> QED BY <1>1, <1>2, <2>1, NotInList DEF IsCell
<1>4. head' = head /\ tail' = tail /\ size' = size
  BY <1>1, <1>2, <1>3, QueueFields
<1>5. /\ Cells(heap', es) /\ Linked(heap', es, 0) /\ TailFits(heap', tail, es)
      /\ \A S, R : Exactly(heap, S, es) /\ S \subseteq R \cup {p} => Exactly(heap', R, es)
  BY <1>1, <1>2, <1>3, Untouched DEF List
<1>6. Exact(es, {}, LastOf(es), Len(es) + 1, Len(es) + 1)'
  <2>1. {q} \cup {p} \subseteq ({q'} \cup {}) \cup {p}
    BY <1>1
  <2> QED BY <1>1, <1>2, <1>4, <1>5, <2>1 DEF Exact
<1>7. List(es)' /\ TailFits(heap', tail', es)
  BY <1>1, <1>2, <1>4, <1>5 DEF List
<1> QED BY <1>1, <1>2, <1>5, <1>6, <1>7 DEF ShapeAt

LEMMA TurnsShape ==
    ASSUME Base, QueueOp, NEW es, NEW k, ShapeAt(es, k), Turns
    PROVE  ShapeAt(es, k + 1)'
<1>1. /\ es \in Seq(Blocks) /\ Cells(heap, es) /\ q' = q /\ qcnt' = qcnt /\ Whole' = Whole /\ reg'.fn = reg.fn
      /\ Len(es) \in Nat /\ q \in Ptr /\ pc \in QueuePC /\ k \in 0 .. Len(es)
  BY ShapeFrame
<1> DEFINE p == reg.lp
<1>2. /\ pc = "reverse" /\ pc' = "reverse" /\ reg.fn = "reverse" /\ p # NULL
      /\ q # NULL /\ head = Nth(es, 1) /\ Linked(heap, es, k) /\ reg.prv = Nth(es, k) /\ p = Nth(es, k + 1)
      /\ TailFits(heap, tail, es) /\ Exact(es, {}, LastOf(es), Len(es), Len(es))
      /\ reg'.prv = p /\ reg'.lp = heap[p].next
      /\ heap[p].kind = "ele" /\ Others(p) /\ heap'[p].kind = "ele" /\ heap'[p].value = heap[p].value
      /\ heap'[p].next = reg.prv
  BY DEF Turns, From, ShapeAt, Base, Flow, LocalsBecome, EleBecomes
<1> HIDE DEF p
<1>3. k \in Nat /\ k < Len(es) /\ k + 1 \in 0 .. Len(es) /\ p \in Blocks
  <2>1. k + 1 \in 1 .. Len(es)
    BY <1>1, <1>2, NthMeans
  <2> QED BY <1>1, <1>2, <2>1, NthMeans
<1>4. q \in Blocks /\ q # p
  BY <1>1, <1>2, QueueIsThere
<1>5. head' = head /\ tail' = tail /\ size' = size
  BY <1>1, <1>2, <1>4, QueueFields
<1>6. /\ heap[p].next = Nth(es, (k + 1) + 1) /\ Cells(heap', es) /\ Linked(heap', es, k + 1)
      /\ \A S : Exactly(heap, S, es) => Exactly(heap', S, es)
      /\ \A t : TailFits(heap, t, es) => TailFits(heap', t, es)
  <2>1. PICK h, g : h = heap /\ g = heap'
    OBVIOUS
  <2>2. /\ es \in Seq(Blocks) /\ k \in Nat /\ k < Len(es) /\ Cells(h, es) /\ Linked(h, es, k) /\ p = Nth(es, k + 1)
        /\ Links(g, h, p, Nth(es, k))
    BY <1>1, <1>2, <1>3, <2>1 DEF Links, Others
  <2>3. /\ h[p].next = Nth(es, (k + 1) + 1) /\ Cells(g, es) /\ Linked(g, es, k + 1)
        /\ \A S : Exactly(h, S, es) => Exactly(g, S, es)
        /\ \A t : TailFits(h, t, es) => TailFits(g, t, es)
    BY ONLY <2>2, TurnList
  <2> QED BY <2>1, <2>3
<1>7. Exact(es, {}, LastOf(es), Len(es), Len(es))'
  <2>1. {q} \cup {} = {q'} \cup {}
    BY <1>1
  <2> QED BY <1>1, <1>2, <1>5, <1>6, <2>1 DEF Exact
<1>8. /\ q' # NULL /\ head' = Nth(es, 1) /\ TailFits(heap', tail', es)
      /\ reg'.prv = Nth(es, k + 1) /\ reg'.lp = Nth(es, (k + 1) + 1)
  BY <1>1, <1>2, <1>5, <1>6
<1> QED BY <1>1, <1>2, <1>3, <1>6, <1>7, <1>8 DEF ShapeAt

LEMMA SwapsTailShape ==
    ASSUME Base, QueueOp, NEW es, NEW k, ShapeAt(es, k), SwapsTail
    PROVE  ShapeAt(es, k)'
<1>1. /\ es \in Seq(Blocks) /\ Cells(heap, es) /\ q' = q /\ qcnt' = qcnt /\ Whole' = Whole /\ reg'.fn = reg.fn
      /\ Len(es) \in Nat /\ q \in Ptr /\ pc \in QueuePC /\ k \in 0 .. Len(es)
  BY ShapeFrame
<1>2. /\ pc = "reverse" /\ pc' = "reverse_head" /\ reg.fn = "reverse" /\ reg.lp = NULL
      /\ q # NULL /\ head = Nth(es, 1) /\ Linked(heap, es, k) /\ reg.prv = Nth(es, k) /\ reg.lp = Nth(es, k + 1)
      /\ TailFits(heap, tail, es) /\ Exact(es, {}, LastOf(es), Len(es), Len(es))
      /\ reg'.prv = reg.prv /\ reg'.lp = reg.lp /\ QueueBecomes(head, head, size)
  BY DEF SwapsTail, From, ShapeAt, Base, Flow, Same, LocalsBecome
<1>3. k = Len(es) /\ k \in Nat
  <2>1. k + 1 \notin 1 .. Len(es) /\ k + 1 \in Int
    BY <1>1, <1>2, NthMeans
  <2> QED BY <1>1, <2>1
<1>4. head' = head /\ tail' = head /\ size' = size /\ Others(q)
  BY <1>1, <1>2, QueueFields
<1>5. /\ Cells(heap', es) /\ Linked(heap', es, k)
      /\ \A S : q \in S /\ Exactly(heap, S, es) => Exactly(heap', S, es)
  BY <1>2, <1>3, <1>4, QueueStored
<1>6. Exact(es, {}, Nth(es, 1), Len(es), Len(es))'
  <2>1. q \in {q} \cup {} /\ {q} \cup {} = {q'} \cup {}
    BY <1>1
  <2> QED BY <1>1, <1>2, <1>4, <1>5, <2>1 DEF Exact
<1>7. /\ q' # NULL /\ head' = Nth(es, 1) /\ Linked(heap', es, Len(es)) /\ reg'.prv = Nth(es, Len(es))
      /\ reg'.lp = NULL /\ tail' = Nth(es, 1)
  BY <1>1, <1>2, <1>3, <1>4, <1>5
<1> QED BY <1>1, <1>2, <1>3, <1>5, <1>6, <1>7 DEF ShapeAt

LEMMA SwapsHeadShape ==
    ASSUME Base, QueueOp, NEW es, NEW k, ShapeAt(es, k), SwapsHead,
           NEW r, r = Reverse(es)
    PROVE  ShapeAt(r, 0)'
<1>1. /\ es \in Seq(Blocks) /\ Cells(heap, es) /\ q' = q /\ qcnt' = qcnt /\ Whole' = Whole /\ reg'.fn = reg.fn
      /\ Len(es) \in Nat /\ q \in Ptr /\ pc \in QueuePC
  BY ShapeFrame
<1>2. /\ pc = "reverse_head" /\ pc' = "ret" /\ reg.fn = "reverse"
      /\ q # NULL /\ head = Nth(es, 1) /\ Linked(heap, es, Len(es)) /\ reg.prv = Nth(es, Len(es))
      /\ tail = Nth(es, 1) /\ Exact(es, {}, Nth(es, 1), Len(es), Len(es))
      /\ QueueBecomes(Nth(es, Len(es)), tail, size)
  BY DEF SwapsHead, Back, ShapeAt, Base, Flow
<1>3. head' = LastOf(es) /\ tail' = tail /\ size' = size /\ Others(q)
  BY <1>1, <1>2, QueueFields DEF LastOf
<1>4. /\ Cells(heap', es) /\ Linked(heap', es, Len(es))
      /\ \A S : q \in S /\ Exactly(heap, S, es) => Exactly(heap', S, es)
  BY <1>1, <1>2, <1>3, QueueStored
<1>5. /\ r \in Seq(Blocks) /\ Len(r) = Len(es) /\ Cells(heap', r) /\ Linked(heap', r, 0)
      /\ Nth(r, 1) = LastOf(es) /\ LastOf(r) = Nth(es, 1) /\ TailFits(heap', Nth(es, 1), r)
      /\ \A S : Exactly(heap', S, es) => Exactly(heap', S, r)
  <2>1. PICK h : h = heap'
    OBVIOUS
  <2>2. es \in Seq(Blocks) /\ IsReverse(r, es) /\ Cells(h, es) /\ Linked(h, es, Len(es))
    BY <1>1, <1>4, <2>1, ReverseOfList
  <2>3. /\ r \in Seq(Blocks) /\ Len(r) = Len(es) /\ Cells(h, r) /\ Linked(h, r, 0)
        /\ Nth(r, 1) = LastOf(es) /\ LastOf(r) = Nth(es, 1) /\ TailFits(h, Nth(es, 1), r)
        /\ \A S : Exactly(h, S, es) => Exactly(h, S, r)
    BY ONLY <2>2, ReverseList
  <2> QED BY <2>1, <2>3
<1>6. Exact(r, {}, LastOf(r), Len(r), Len(r))'
  <2>1. q \in {q} \cup {} /\ {q} \cup {} = {q'} \cup {}
    BY <1>1
  <2> QED BY <1>1, <1>2, <1>3, <1>4, <1>5, <2>1 DEF Exact
<1>7. List(r)' /\ TailFits(heap', tail', r)
  BY <1>1, <1>2, <1>3, <1>5 DEF List
<1>8. Resting(r, Len(r))'
  BY <1>6, <1>7 DEF Resting
<1> QED BY <1>1, <1>2, <1>5, <1>8 DEF ShapeAt

LEMMA AllocatedKinds == \A b \in Blocks : heap[b].kind # "unused" => b \in Allocated
BY DEF Allocated, Unused

(* What an operation frees is there, and so is what it dereferences.       *)
LEMMA NothingLost ==
    ASSUME Base, QueueOp, NEW es, NEW k, ShapeAt(es, k)
    PROVE  ~LosesFree /\ ~LosesOther /\ ~Faults
<1>1. /\ es \in Seq(Blocks) /\ Cells(heap, es) /\ Len(es) \in Nat /\ q \in Ptr /\ pc \in QueuePC
      /\ k \in 0 .. Len(es) /\ k + 1 \in Int
  BY ShapeFrame
<1>2. \A p : IsCell(heap, p) => p \in Allocated /\ Usable(p)
  BY AllocatedKinds DEF IsCell, Usable
<1>3. \A i \in Int : Nth(es, i) # NULL => /\ IsCell(heap, Nth(es, i))
                                          /\ heap[Nth(es, i)].value \in Allocated
  <2> SUFFICES ASSUME NEW i \in Int, Nth(es, i) # NULL
               PROVE  IsCell(heap, Nth(es, i)) /\ heap[Nth(es, i)].value \in Allocated
    OBVIOUS
  <2>1. i \in 1 .. Len(es) /\ Nth(es, i) = es[i] /\ es[i] \in Blocks
    BY <1>1, NthMeans
  <2>2. /\ heap[es[i]].kind = "ele" /\ heap[es[i]].value \in Blocks /\ heap[heap[es[i]].value].kind = "str"
    BY <1>1, <2>1 DEF Cells
  <2> QED BY <2>1, <2>2, AllocatedKinds DEF IsCell
<1>4. ~LosesFree
  <2>1. pc = "free_value" => q \in Allocated
    <3>1. pc = "free_value" => q # NULL
      BY DEF Base, Locals, QueuePart
    <3> QED BY <1>1, <3>1, QueueIsThere, AllocatedKinds
  <2>2. pc = "free_value" /\ reg.lp # NULL => Usable(reg.lp) /\ heap[reg.lp].value \in Allocated
    <3>1. pc = "free_value" => reg.lp = Nth(es, 1)
      BY DEF ShapeAt
    <3> QED BY <1>2, <1>3, <3>1
  <2>3. pc = "free_ele" => reg.lp \in Allocated
    BY <1>2 DEF ShapeAt
  <2> QED BY <2>1, <2>2, <2>3 DEF LosesFree, Mislaid
<1>5. pc = "remove" /\ q # NULL /\ head # NULL => Usable(head) /\ heap[head].value \in Allocated
  <2>1. pc = "remove" /\ q # NULL => List(es)
    BY DEF ShapeAt, Resting
  <2> QED BY <1>2, <1>3, <2>1 DEF List
<1>6. pc = "it_link" /\ head # NULL => tail # NULL /\ Usable(tail)
  <2> SUFFICES ASSUME pc = "it_link", head # NULL PROVE tail # NULL /\ Usable(tail)
    OBVIOUS
  <2>1. head = Nth(es, 1) /\ TailFits(heap, tail, es)
    BY DEF ShapeAt, List
  <2>2. es # << >>
    BY <1>1, <2>1, NthMeans
  <2> QED BY <1>2, <2>1, <2>2 DEF TailFits
<1>7. ~LosesOther
  <2>1. pc \in {"insert_undo", "remove_ele"} => reg.new \in Allocated
    BY <1>2 DEF ShapeAt
  <2>2. pc = "reverse" /\ reg.lp # NULL => Usable(reg.lp)
    <3>1. pc = "reverse" => reg.lp = Nth(es, k + 1)
      BY DEF ShapeAt
    <3> QED BY <1>1, <1>2, <1>3, <3>1
  <2> QED BY <1>5, <1>6, <2>1, <2>2 DEF LosesOther, Mislaid
<1> QED BY <1>4, <1>6, <1>7 DEF Faults, From

LEMMA QueueShapeStep == ASSUME Base, Shape, QueueOp PROVE Shape'
<1> SUFFICES ASSUME Harmless'
             PROVE  pc' # "wild" /\ (pc' \notin Ends => \E es \in Seq(Blocks), k \in Nat : ShapeAt(es, k)')
  BY DEF Shape
<1>1. Effect /\ QueueFrame /\ pc \in QueuePC
  BY QueueOpStep DEF QueueFrame
<1>2. Harmless /\ pc \notin Ends
  BY QueueOpStep DEF Harmless, CutFns, QueuePC, Ends
<1>3. PICK es \in Seq(Blocks), k \in Nat : ShapeAt(es, k)
  BY <1>2 DEF Shape
<1> SUFFICES pc' # "wild" /\ (pc' \notin Ends => \E e \in Seq(Blocks), j \in Nat : ShapeAt(e, j)')
  OBVIOUS
<1>4. k + 1 \in Nat /\ 0 \in Nat /\ \A e, j : ShapeAt(e, j)' => e \in Seq(Blocks)
  BY DEF ShapeAt
<1>5. (\E e, j : j \in Nat /\ ShapeAt(e, j)') => \E e \in Seq(Blocks), j \in Nat : ShapeAt(e, j)'
  BY <1>4
<1>6. ~LosesFree /\ ~LosesOther /\ ~Faults
  BY <1>3, NothingLost
<1>7. Stuck => pc' = "exit1"
  BY DEF Stuck
<1>8. pc' = "wild" => LosesFree \/ LosesOther
  BY <1>1 DEF Effect, From, Back, Stuck, GetsQueue, GetsNoQueue, FreesQueue, FreesValue, FreesEle, InsertsNot, GetsEle,
              GetsValue, GetsNoValue, Undoes, CopiesHead, CopiesTail, SetsTail, SetsHead, LinksFirst, LinksLast,
              MovesTail, Grows, RemovesNot, RemovesValue, Unlinks, DropsTail, RemovesEle, Shrinks, Turns, SwapsTail,
              SwapsHead, Sizes, Faults
<1>9. \/ GetsQueue \/ GetsNoQueue \/ FreesQueue \/ FreesEle \/ InsertsNot \/ GetsEle \/ GetsValue \/ GetsNoValue
      \/ Undoes \/ CopiesHead \/ CopiesTail \/ SetsTail \/ MovesTail \/ Grows \/ RemovesNot \/ Unlinks \/ DropsTail
      \/ RemovesEle \/ Shrinks \/ Sizes
      => ShapeAt(es, 0)'
  <2>1. InsertsNot \/ RemovesNot \/ Sizes => UNCHANGED heap
    BY DEF InsertsNot, RemovesNot, Sizes
  <2> QED BY <1>3, <2>1, NewShape, FreesQueueShape, FreesEleShape, RestShape, GetsEleShape, GetsValueShape,
             GetsNoValueShape, UndoesShape, CopiesShape, SetsTailShape, MovesTailShape, GrowsShape, UnlinksShape,
             DropsTailShape, RemovesEleShape
<1>10. FreesValue \/ RemovesValue => ShapeAt(Tail(es), 0)'
  BY <1>3, FreesValueShape, RemovesValueShape
<1>11. Turns => ShapeAt(es, k + 1)'
  BY <1>3, TurnsShape
<1>12. SwapsTail => ShapeAt(es, k)'
  BY <1>3, SwapsTailShape
<1>13. SwapsHead => \E e : ShapeAt(e, 0)'
  <2>1. PICK r : r = Reverse(es)
    OBVIOUS
  <2> QED BY <1>3, <2>1, SwapsHeadShape
<1>14. SetsHead \/ LinksFirst => \E e : ShapeAt(e, 0)'
  <2>1. PICK c : c = <<reg.new>> \o es
    OBVIOUS
  <2> QED BY <1>3, <2>1, SetsHeadShape, LinksFirstShape
<1>15. LinksLast => \E e : ShapeAt(e, 0)'
  <2>1. PICK a : a = Append(es, reg.new)
    OBVIOUS
  <2> QED BY <1>3, <2>1, LinksLastShape
<1>16. (\E e, j : j \in Nat /\ ShapeAt(e, j)') \/ pc' = "exit1"
  BY <1>1, <1>3, <1>4, <1>6, <1>7, <1>9, <1>10, <1>11, <1>12, <1>13, <1>14, <1>15 DEF Effect
<1> QED BY <1>5, <1>6, <1>8, <1>16 DEF Ends

----------------------------------------------------------------------------
(* The list and the steps that do not belong to an operation.              *)

LEMMA ShapeAtRest ==
    ASSUME NEW es \in Seq(Blocks), Cells(heap', es), Resting(es, Len(es))',
           \/ pc' \in {"enter", "show", "insert", "remove", "size"}
           \/ pc' = "ready" /\ HasQueue'
           \/ pc' = "done" /\ reg'.fn # "quit"
           \/ pc' = "cancel" /\ reg'.fn \in {"ih", "it", "reverse", "size"}
           \/ pc' = "cancel" /\ reg'.fn = "new" /\ es = << >>
    PROVE  ShapeAt(es, 0)'
<1>1. 0 \in 0 .. Len(es) /\ Len(es) \in Nat
  BY NthMeans
<1> QED BY <1>1 DEF ShapeAt

LEMMA ShapeWhenEmpty ==
    ASSUME NEW es \in Seq(Blocks), Empty(es)',
           \/ pc' = "ready" /\ quit_flag'
           \/ pc' = "done" /\ reg'.fn = "quit"
           \/ pc' \in {"ret", "cancel"} /\ reg'.fn \in {"free", "quit"}
    PROVE  ShapeAt(es, 0)'
<1>1. es = << >> /\ Len(es) = 0
  BY DEF Empty
<1>2. Cells(heap', es)
  BY <1>1 DEF Cells
<1> QED BY <1>1, <1>2 DEF ShapeAt

LEMMA RestKept ==
    ASSUME UNCHANGED heap, q' = q, NEW es, NEW c, NEW d, Resting(es, c),
           Whole' => Whole /\ (qcnt = c => qcnt' = d)
    PROVE  Resting(es, d)'
<1>1. head' = head /\ tail' = tail /\ size' = size
  BY DEF head, tail, size
<1>2. Exact(es, {}, LastOf(es), Len(es), d)'
  <2>1. {q} \cup {} = {q'} \cup {}
    OBVIOUS
  <2> QED BY <1>1, <2>1 DEF Resting, Exact
<1> QED BY <1>1, <1>2 DEF Resting, List

LEMMA EmptyKept ==
    ASSUME UNCHANGED heap, NEW es, Empty(es), Whole' => Whole
    PROVE  Empty(es)'
BY DEF Empty

(* Without a queue nothing is allocated.                                   *)
LEMMA NoQueueEmpty ==
    ASSUME NEW es, NEW c, Resting(es, c), q = NULL
    PROVE  Empty(es) /\ (Whole => qcnt = c)
BY NullIsNoBlock DEF Resting, List, Exact, Empty, Exactly

LEMMA EmptyRest ==
    ASSUME NEW es, Empty(es), UNCHANGED heap, q' = NULL, Whole' => Whole /\ qcnt' = 0
    PROVE  Resting(es, 0)'
<1>1. es = << >> /\ (Whole' => Exactly(heap', {q'} \cup {}, es))
  BY DEF Empty, Exactly
<1> QED BY <1>1 DEF Resting, Exact

LEMMA OtherFrame ==
    ASSUME Base, Next, ~QueueOp
    PROVE  /\ OtherEffect /\ UNCHANGED heap /\ (Harmless' => Harmless) /\ (Whole' => Whole)
           /\ Types /\ Flow
<1>1. OtherEffect /\ Types /\ Flow
  BY OtherMeans DEF Base
<1>2. UNCHANGED heap /\ (Harmless' => Harmless)
  BY OtherKeeps DEF CutsKept, Harmless
<1>3. cuts \in Seq(CutRecords)
  BY <1>1 DEF Types
<1>4. \A fn : Cut(fn) => cuts' # << >>
  BY <1>3 DEF Cut
<1>5. UNCHANGED cuts \/ \E fn : Cut(fn)
  BY <1>1, Zenon DEF OtherEffect, Opens, Skips, Pops, Interprets, Finishes, FreesFirst, Begins, OnlyReturns, InsertReturns,
     OtherReturns, Leaves, Shows, FreesForNew, Counts, Stops, IsCut, IsKilled, Jumps, Idles, history, Keep, vars
<1>6. Whole' => Whole
  BY <1>4, <1>5 DEF Whole
<1> QED BY <1>1, <1>2, <1>6

(* The console, and the handlers before and after their operations.        *)
LEMMA ConsoleShape ==
    ASSUME Base, Next, ~QueueOp, NEW es, NEW k, ShapeAt(es, k),
           Opens \/ Skips \/ Pops \/ Interprets \/ Finishes \/ FreesFirst \/ OnlyReturns \/ FreesForNew \/ Shows
    PROVE  pc' \in {"exit0", "exit1"} \/ ShapeAt(es, 0)'
<1>1. UNCHANGED heap /\ (Whole' => Whole) /\ Flow /\ Types
  BY OtherFrame
<1>2. es \in Seq(Blocks) /\ Cells(heap', es)
  BY <1>1 DEF ShapeAt
<1>3. /\ q' = q /\ qcnt' = qcnt
      /\ \/ pc' \in {"exit0", "exit1"}
         \/ quit_flag' = quit_flag /\ pc' \in {"enter", "show"}
         \/ quit_flag' = quit_flag /\ pc' = "ready" /\ pc \in {"main", "ready"}
         \/ pc' = "done" /\ reg'.fn # "quit"
      /\ pc \in {"main", "ready", "enter", "show", "done"}
      /\ pc = "done" => reg.fn = "free"
      /\ pc = "main" => ~quit_flag
      /\ pc = "ready" /\ quit_flag => pc' \in {"ready", "exit0", "exit1"}
  BY <1>1 DEF Opens, Skips, Pops, Interprets, Finishes, FreesFirst, OnlyReturns, FreesForNew, Shows, Flow, Ends,
              machine, tester, console, Keep, ConsoleKept, Alike
<1>4. Resting(es, Len(es)) \/ (pc = "ready" /\ quit_flag /\ Empty(es))
  BY <1>3 DEF ShapeAt
<1>5. CASE pc = "ready" /\ quit_flag /\ Empty(es)
  <2>1. Empty(es)'
    BY <1>1, <1>5, EmptyKept
  <2> QED BY <1>2, <1>3, <1>5, <2>1, ShapeWhenEmpty
<1>6. CASE Resting(es, Len(es))
  <2>1. Resting(es, Len(es))'
    BY <1>1, <1>3, <1>6, RestKept
  <2>2. pc \in {"main", "ready"} => HasQueue \/ (pc = "ready" /\ quit_flag /\ Empty(es))
    <3>1. pc = "main" => ~Freed
      BY <1>1 DEF Flow, NoRegs, Freed, Ends
    <3> QED BY <3>1 DEF ShapeAt, Base, Region, HasQueue
  <2>3. HasQueue => HasQueue'
    BY <1>1, <1>3 DEF HasQueue
  <2> QED BY <1>2, <1>3, <1>5, <2>1, <2>2, <2>3, ShapeAtRest
<1> QED BY <1>4, <1>5, <1>6

LEMMA BeginsShape ==
    ASSUME Base, Next, ~QueueOp, NEW es, NEW k, ShapeAt(es, k), Begins
    PROVE  ShapeAt(es, 0)'
<1>1. UNCHANGED heap /\ (Whole' => Whole) /\ Flow /\ Types
  BY OtherFrame
<1>2. es \in Seq(Blocks) /\ Cells(heap', es) /\ Len(es) \in Nat /\ 0 \in 0 .. Len(es)
  BY <1>1, NthMeans DEF ShapeAt
<1>3. /\ pc = "enter" /\ q' = q /\ qcnt' = qcnt /\ reg'.fn = reg.fn /\ reg'.prv = NULL
      /\ Resting(es, Len(es))
  BY <1>1 DEF Begins, Keep, tester, LocalsBecome, CallKept, Flow, ShapeAt
<1>4. Resting(es, Len(es))'
  BY <1>1, <1>3, RestKept
<1>5. CASE q = NULL
  <2>1. Empty(es) /\ (Whole => qcnt = Len(es))
    BY <1>3, <1>5, NoQueueEmpty
  <2>2. Empty(es)'
    BY <1>1, <2>1, EmptyKept
  <2>3. CASE reg.fn \in {"free", "quit"}
    <3>1. pc' = "ret"
      BY <1>5, <2>3 DEF Begins, BeginsFree, BeginsReverse, BeginsOther
    <3> QED BY <1>2, <1>3, <2>2, <2>3, <3>1, ShapeWhenEmpty
  <2>4. CASE reg.fn \notin {"free", "quit"}
    <3>1. \/ pc' = "cancel" /\ reg.fn \in {"ih", "it", "reverse", "size"}
          \/ pc' \in {"insert", "remove", "size"}
          \/ pc' = "new"
      BY <1>5, <2>4 DEF Begins, BeginsFree, BeginsReverse, BeginsOther
    <3>2. CASE pc' = "new"
      <4>1. Len(es) = 0
        BY <2>1 DEF Empty
      <4>2. q' = NULL /\ (Whole' => qcnt' = 0)
        BY <1>1, <1>3, <1>5, <2>1, <4>1
      <4> QED BY <1>2, <2>2, <3>2, <4>2 DEF ShapeAt
    <3> QED BY <1>2, <1>3, <1>4, <3>1, <3>2, ShapeAtRest
  <2> QED BY <2>3, <2>4
<1>6. CASE q # NULL
  <2>1. /\ head' = Nth(es, 1) /\ Linked(heap', es, 0) /\ TailFits(heap', tail', es) /\ q' # NULL
        /\ Exact(es, {}, LastOf(es), Len(es), Len(es))'
    BY <1>3, <1>4, <1>6 DEF Resting, List
  <2>2. head' = head
    BY <1>1, <1>3 DEF head
  <2>3. CASE reg.fn \in {"free", "quit"}
    <3>1. pc' = "free_value" /\ reg'.lp = Nth(es, 1)
      BY <1>6, <2>1, <2>2, <2>3 DEF Begins, BeginsFree, BeginsReverse, BeginsOther
    <3>2. {q'} \cup {} = {q'}
      OBVIOUS
    <3>3. Whole' => Exactly(heap', {q'}, es)
      BY <2>1, <3>2 DEF Exact
    <3> QED BY <1>2, <2>1, <3>1, <3>3 DEF ShapeAt
  <2>4. CASE reg.fn = "reverse"
    <3>1. pc' = "reverse" /\ reg'.lp = Nth(es, 1)
      BY <1>6, <2>1, <2>2, <2>4 DEF Begins, BeginsFree, BeginsReverse, BeginsOther
    <3>2. Nth(es, 0) = NULL /\ 0 + 1 = 1
      BY <1>2, NthMeans
    <3> QED BY <1>2, <1>3, <2>1, <3>1, <3>2 DEF ShapeAt
  <2>5. CASE reg.fn \notin {"free", "quit", "reverse"}
    <3>1. \/ pc' = "cancel" /\ reg.fn \in {"ih", "it", "size"}
          \/ pc' \in {"insert", "remove", "size"}
      BY <1>6, <2>5 DEF Begins, BeginsFree, BeginsReverse, BeginsOther
    <3> QED BY <1>2, <1>3, <1>4, <3>1, ShapeAtRest
  <2> QED BY <2>3, <2>4, <2>5
<1> QED BY <1>5, <1>6

LEMMA ReturnsShape ==
    ASSUME Base, Next, ~QueueOp, NEW es, NEW k, ShapeAt(es, k), InsertReturns \/ OtherReturns
    PROVE  ShapeAt(es, 0)'
<1>1. UNCHANGED heap /\ (Whole' => Whole) /\ Flow /\ Types /\ Locals
  BY OtherFrame DEF Base
<1>2. es \in Seq(Blocks) /\ Cells(heap', es) /\ Len(es) \in Nat /\ 0 \in 0 .. Len(es)
  BY <1>1, NthMeans DEF ShapeAt
<1>3. pc = "ret" /\ reg'.fn = reg.fn /\ qcnt \in Int
      /\ reg.fn \in {"new", "free", "quit", "ih", "it", "rh", "rhq", "reverse", "size"}
  BY <1>1 DEF InsertReturns, OtherReturns, Alike, Flow, Types
<1>4. CASE InsertReturns
  <2>1. /\ q' = q /\ pc' \in {"insert", "cancel"} /\ reg.fn \in {"ih", "it"}
        /\ qcnt' = IF reg.rval THEN qcnt + 1 ELSE qcnt
    BY <1>4 DEF InsertReturns
  <2>2. PICK c : c = IF reg.rval THEN Len(es) - 1 ELSE Len(es)
    OBVIOUS
  <2>3. Resting(es, c)
    BY <1>3, <2>1, <2>2 DEF ShapeAt
  <2>4. qcnt = c => qcnt' = Len(es)
    BY <1>2, <1>3, <2>1, <2>2
  <2>5. Resting(es, Len(es))'
    BY <1>1, <2>1, <2>3, <2>4, RestKept
  <2> QED BY <1>2, <1>3, <2>1, <2>5, ShapeAtRest
<1>5. CASE OtherReturns /\ reg.fn = "new"
  <2>1. /\ pc' = "cancel" /\ q' = reg.new /\ qcnt' = qcnt
        /\ q = NULL /\ es = << >> /\ Exact(es, {reg.new}, NULL, 0, 0)
    BY <1>3, <1>5 DEF OtherReturns, tester, ShapeAt
  <2>2. q' # NULL => head' = NULL /\ tail' = NULL /\ size' = 0
    BY <1>1, <1>3, <1>5, <2>1 DEF Locals, NewQueue, head, tail, size
  <2>3. Nth(es, 1) = NULL /\ LastOf(es) = NULL /\ Len(es) = 0
    <3>1. Len(es) = 0 /\ LastOf(es) = NULL
      BY <1>2, <2>1, NthMeans
    <3>2. 1 \notin 1 .. Len(es)
      BY <3>1
    <3>3. Nth(es, 1) = NULL <=> 1 \notin 1 .. Len(es)
      BY <1>2, NthMeans
    <3> QED BY <3>1, <3>2, <3>3
  <2>4. Whole' => Exactly(heap', {q'} \cup {}, es)
    BY <1>1, <2>1, NullIsNoBlock DEF Exact, Exactly
  <2>5. Exact(es, {}, LastOf(es), Len(es), Len(es))'
    BY <1>1, <2>1, <2>2, <2>3, <2>4 DEF Exact
  <2>6. Resting(es, Len(es))'
    BY <2>1, <2>2, <2>3, <2>5 DEF Resting, List, Linked, TailFits
  <2> QED BY <1>2, <1>3, <1>5, <2>1, <2>6, ShapeAtRest
<1>6. CASE OtherReturns /\ reg.fn \in {"free", "quit"}
  <2>1. pc' = "cancel" /\ Empty(es)
    BY <1>3, <1>6 DEF OtherReturns, ShapeAt
  <2> QED BY <1>1, <1>2, <1>3, <1>6, <2>1, EmptyKept, ShapeWhenEmpty
<1>7. CASE OtherReturns /\ reg.fn \in {"rh", "rhq"}
  <2>1. pc' = "cancel" /\ q' = q /\ qcnt' = qcnt /\ reg'.val = IF reg.rval THEN 1 ELSE 0
    BY <1>7 DEF OtherReturns, tester
  <2>2. PICK c : c = Len(es) + reg'.val
    OBVIOUS
  <2>3. Resting(es, c)
    <3>1. c = IF reg.rval THEN Len(es) + 1 ELSE Len(es)
      BY <1>2, <2>1, <2>2
    <3> QED BY <1>3, <1>7, <3>1 DEF ShapeAt
  <2>4. Resting(es, c)'
    BY <1>1, <2>1, <2>3, RestKept
  <2> QED BY <1>2, <1>3, <1>7, <2>1, <2>2, <2>4 DEF ShapeAt
<1>8. CASE OtherReturns /\ reg.fn \in {"reverse", "size"}
  <2>1. pc' \in {"size", "cancel"} /\ q' = q /\ qcnt' = qcnt
    BY <1>8 DEF OtherReturns, tester
  <2>2. Resting(es, Len(es))
    BY <1>3, <1>8 DEF ShapeAt
  <2>3. Resting(es, Len(es))'
    BY <1>1, <2>1, <2>2, RestKept
  <2> QED BY <1>2, <1>3, <1>8, <2>1, <2>3, ShapeAtRest
<1> QED BY <1>3, <1>4, <1>5, <1>6, <1>7, <1>8 DEF OtherReturns

LEMMA LeavesShape ==
    ASSUME Base, Next, ~QueueOp, NEW es, NEW k, ShapeAt(es, k), Leaves
    PROVE  ShapeAt(es, 0)'
<1>1. UNCHANGED heap /\ (Whole' => Whole) /\ Flow /\ Types
  BY OtherFrame
<1>2. es \in Seq(Blocks) /\ Cells(heap', es) /\ Len(es) \in Nat /\ 0 \in 0 .. Len(es)
  BY <1>1, NthMeans DEF ShapeAt
<1>3. /\ pc = "cancel" /\ pc' \in {"done", "show"} /\ reg'.fn = reg.fn /\ qcnt \in Int /\ reg.val \in Int
      /\ reg.fn \in {"new", "free", "quit", "ih", "it", "rh", "rhq", "reverse", "size"}
      /\ pc' = "show" => reg.fn \notin {"free", "quit"}
      /\ q' = (IF reg.fn = "free" THEN NULL ELSE q)
      /\ qcnt' = (IF reg.fn \in {"new", "free"} THEN 0 ELSE IF reg.fn \in {"rh", "rhq"} THEN qcnt - reg.val ELSE qcnt)
  BY <1>1 DEF Leaves, Alike, Flow, Types, Registers
<1>4. CASE reg.fn = "quit"
  <2>1. Empty(es)
    BY <1>3, <1>4 DEF ShapeAt
  <2> QED BY <1>1, <1>2, <1>3, <1>4, <2>1, EmptyKept, ShapeWhenEmpty
<1>5. CASE reg.fn = "free"
  <2>1. Empty(es) /\ q' = NULL /\ qcnt' = 0
    BY <1>3, <1>5 DEF ShapeAt
  <2>2. Resting(es, 0)'
    BY <1>1, <2>1, EmptyRest
  <2>3. Len(es) = 0
    BY <2>1 DEF Empty
  <2> QED BY <1>2, <1>3, <1>5, <2>2, <2>3, ShapeAtRest
<1>6. CASE reg.fn \notin {"free", "quit"}
  <2>1. PICK c : /\ Resting(es, c) /\ (qcnt = c => qcnt' = Len(es))
    <3>1. CASE reg.fn \in {"rh", "rhq"}
      <4>1. Resting(es, Len(es) + reg.val)
        BY <1>3, <3>1 DEF ShapeAt
      <4>2. qcnt = Len(es) + reg.val => qcnt' = Len(es)
        BY <1>2, <1>3, <3>1
      <4> QED BY <4>1, <4>2
    <3>2. CASE reg.fn \notin {"rh", "rhq"}
      <4>1. Resting(es, Len(es)) /\ (reg.fn = "new" => es = << >>)
        BY <1>3, <1>6, <3>2 DEF ShapeAt
      <4>2. qcnt = Len(es) => qcnt' = Len(es)
        BY <1>3, <1>6, <3>2, <4>1
      <4> QED BY <4>1, <4>2
    <3> QED BY <3>1, <3>2
  <2>2. Resting(es, Len(es))'
    BY <1>1, <1>3, <1>6, <2>1, RestKept
  <2> QED BY <1>2, <1>3, <1>6, <2>2, ShapeAtRest
<1> QED BY <1>4, <1>5, <1>6

LEMMA CountsShape ==
    ASSUME Base, Next, ~QueueOp, NEW es, NEW k, ShapeAt(es, k), NEW n, Counts(n)
    PROVE  ShapeAt(es, 0)'
<1>1. UNCHANGED heap /\ (Whole' => Whole)
  BY OtherFrame
<1>2. es \in Seq(Blocks) /\ Cells(heap', es)
  BY <1>1 DEF ShapeAt
<1>3. pc = "done" /\ pc' = "ready" /\ (reg.fn = "quit" => quit_flag') /\ q' = q /\ qcnt' = qcnt
  BY DEF Counts, tester
<1>4. CASE reg.fn = "quit"
  <2>1. Empty(es)
    BY <1>3, <1>4 DEF ShapeAt
  <2> QED BY <1>1, <1>2, <1>3, <1>4, <2>1, EmptyKept, ShapeWhenEmpty
<1>5. CASE reg.fn # "quit"
  <2>1. Resting(es, Len(es))
    BY <1>3, <1>5 DEF ShapeAt
  <2>2. HasQueue'
    <3>1. ~Freed
      BY <1>3, <1>5 DEF Counts, Base, Flow, Freed, Ends
    <3> QED BY <1>1, <1>3, <3>1 DEF Base, Region, HasQueue
  <2> QED BY <1>1, <1>2, <1>3, <2>1, <2>2, RestKept, ShapeAtRest
<1> QED BY <1>4, <1>5

(* What the time limit leaves behind.                                      *)
LEMMA CutShape ==
    ASSUME Base, Next, ~QueueOp, NEW es, NEW k, ShapeAt(es, k), IsCut, Harmless'
    PROVE  \E e : ShapeAt(e, 0)'
<1>1. UNCHANGED heap /\ Flow /\ Types
  BY OtherFrame
<1>2. es \in Seq(Blocks) /\ Cells(heap, es) /\ Len(es) \in Nat /\ k \in 0 .. Len(es)
  BY <1>1, NthMeans DEF ShapeAt
<1>3. /\ pc' = "cancel" /\ reg'.fn = reg.fn /\ q' = q /\ pc \in QueuePC \cup {"ret", "cancel"}
      /\ Cut(reg.fn) /\ reg.fn \in Commands
  BY <1>1 DEF IsCut, Alike, Interrupt, Types, Registers
<1>4. ~Whole' /\ CutFns' = CutFns \cup {reg.fn}
  BY <1>1, <1>3, CutMeans DEF Whole, Cut, Types
<1>5. reg.fn \notin {"rh", "rhq", "it"}
  BY <1>4 DEF Harmless
<1>6. head' = head /\ tail' = tail
  BY <1>1, <1>3 DEF head, tail
<1>7. ASSUME NEW e \in Seq(Blocks), Cells(heap, e),
             \/ q = NULL /\ e = << >>
             \/ List(e) /\ TailFits(heap, tail, e),
             reg.fn \in {"ih", "reverse", "size"} \/ (reg.fn = "new" /\ e = << >>)
      PROVE  ShapeAt(e, 0)'
  <2>1. Resting(e, Len(e))'
    BY <1>1, <1>3, <1>4, <1>6, <1>7 DEF Resting, List, Exact
  <2>2. Cells(heap', e)
    BY <1>1, <1>7
  <2> QED BY <1>3, <1>7, <2>1, <2>2, ShapeAtRest
<1>8. CASE reg.fn \in {"free", "quit"}
  <2>1. Empty(<< >>)' /\ << >> \in Seq(Blocks)
    BY <1>4 DEF Empty
  <2> QED BY <1>3, <1>8, <2>1, ShapeWhenEmpty
<1>9. CASE reg.fn = "new"
  <2>1. /\ pc \in {"new", "ret", "cancel"}
        /\ es = << >> /\ (q = NULL \/ Resting(es, Len(es)))
    BY <1>1, <1>3, <1>9 DEF Flow, InsertPC, RemovePC, QueuePC, ShapeAt, Empty
  <2>2. (q = NULL /\ es = << >>) \/ (List(es) /\ TailFits(heap, tail, es))
    BY <2>1 DEF Resting
  <2> QED BY <1>2, <1>7, <1>9, <2>1, <2>2
<1>10. CASE reg.fn \in {"ih", "size"}
  <2>1. /\ pc \in {"insert", "insert_value", "insert_copy", "insert_undo", "ih_tail", "ih_head", "insert_size", "size",
                   "ret", "cancel"}
        /\ pc \in {"ret", "cancel", "insert", "size"} => \E c : Resting(es, c)
    BY <1>1, <1>3, <1>10 DEF Flow, RemovePC, QueuePC, ShapeAt
  <2>2. (q = NULL /\ es = << >>) \/ (List(es) /\ TailFits(heap, tail, es))
    BY <2>1 DEF Resting, ShapeAt
  <2> QED BY <1>2, <1>7, <1>10, <2>2
<1>11. CASE reg.fn = "reverse"
  <2>1. pc \in {"reverse", "reverse_head", "ret", "cancel"}
    BY <1>1, <1>3, <1>11 DEF Flow, InsertPC, RemovePC, QueuePC
  <2>2. CASE pc \in {"ret", "cancel"}
    <3>1. (q = NULL /\ es = << >>) \/ (List(es) /\ TailFits(heap, tail, es))
      BY <1>11, <2>2 DEF Resting, ShapeAt
    <3> QED BY <1>2, <1>7, <1>11, <3>1
  <2>3. CASE pc \in {"reverse", "reverse_head"}
    <3>1. /\ q # NULL /\ head = Nth(es, 1) /\ Linked(heap, es, k)
          /\ TailFits(heap, tail, es) \/ (tail = Nth(es, 1) /\ k = Len(es))
      BY <2>3 DEF ShapeAt
    <3>2. CASE k = 0
      <4>1. k = Len(es) => es = << >> /\ Nth(es, 1) = NULL
        <5>1. Len(es) = 0 => es = << >> /\ 1 \notin 1 .. Len(es)
          BY <1>2, NthMeans
        <5>2. Nth(es, 1) = NULL <=> 1 \notin 1 .. Len(es)
          BY <1>2, NthMeans
        <5> QED BY <3>2, <5>1, <5>2
      <4>2. TailFits(heap, tail, es)
        BY <3>1, <4>1 DEF TailFits
      <4> QED BY <1>2, <1>7, <1>11, <3>1, <3>2, <4>2 DEF List
    <3>3. CASE k # 0
      <4>1. PICK r : r = << es[1] >>
        OBVIOUS
      <4>2. k \in 1 .. Len(es) /\ es # << >>
        BY <1>2, <3>3
      <4>3. /\ r \in Seq(Blocks) /\ Cells(heap, r) /\ Linked(heap, r, 0) /\ Nth(r, 1) = Nth(es, 1)
            /\ \A t : t # NULL /\ TailFits(heap, t, es) => TailFits(heap, t, r)
            /\ TailFits(heap, Nth(es, 1), r)
        BY <1>2, <3>1, <4>1, <4>2, CutList
      <4>4. TailFits(heap, tail, r)
        BY <3>1, <4>2, <4>3 DEF TailFits
      <4> QED BY <1>7, <1>11, <3>1, <4>3, <4>4 DEF List
    <3> QED BY <3>2, <3>3
  <2> QED BY <2>1, <2>2, <2>3
<1>12. reg.fn \in {"free", "quit", "new", "ih", "size", "reverse"}
  BY <1>1, <1>3, <1>5 DEF Flow, InsertPC, RemovePC, QueuePC
<1> QED BY <1>8, <1>9, <1>10, <1>11, <1>12

LEMMA OtherShapeStep == ASSUME Base, Shape, Next, ~QueueOp PROVE Shape'
<1> SUFFICES ASSUME Harmless'
             PROVE  pc' # "wild" /\ (pc' \notin Ends => \E e \in Seq(Blocks), j \in Nat : ShapeAt(e, j)')
  BY DEF Shape
<1>1. OtherEffect /\ Harmless /\ Flow
  BY OtherFrame
<1>2. pc # "wild" /\ pc # "caught"
  BY <1>1 DEF Shape, Base, Tailed, Harmless
<1>3. 0 \in Nat /\ \A e : ShapeAt(e, 0)' => e \in Seq(Blocks)
  BY DEF ShapeAt
<1>4. CASE pc \in Ends
  <2>1. Idles
    BY <1>1, <1>4 DEF OtherEffect, Opens, Skips, Pops, Interprets, Finishes, FreesFirst, Begins, OnlyReturns, InsertReturns,
       OtherReturns, Leaves, Shows, FreesForNew, Counts, Stops, IsCut, IsKilled, Jumps, Idles, Ends, QueuePC
  <2> QED BY <1>2, <1>4, <2>1 DEF Idles, vars, machine
<1>5. CASE pc \notin Ends
  <2>1. PICK es \in Seq(Blocks), k \in Nat : ShapeAt(es, k)
    BY <1>1, <1>5 DEF Shape
  <2>2. pc' \in {"exit0", "exit1"} \/ \E e : ShapeAt(e, 0)'
    <3>1. CASE Opens \/ Skips \/ Pops \/ Interprets \/ Finishes \/ FreesFirst \/ OnlyReturns \/ FreesForNew \/ Shows
      BY <2>1, <3>1, ConsoleShape
    <3>2. CASE Begins \/ Leaves
      BY <2>1, <3>2, BeginsShape, LeavesShape
    <3>3. CASE InsertReturns \/ OtherReturns
      BY <2>1, <3>3, ReturnsShape
    <3>4. CASE \E n \in Nat : Counts(n)
      BY <2>1, <3>4, CountsShape
    <3>5. CASE IsCut
      BY <2>1, <3>5, CutShape
    <3>6. CASE Stops \/ IsKilled
      BY <3>6 DEF Stops, IsKilled
    <3> QED BY <1>1, <1>2, <1>5, <3>1, <3>2, <3>3, <3>4, <3>5, <3>6 DEF OtherEffect, Idles, Jumps
  <2>3. pc' # "wild"
    <3>1. ASSUME NEW e, ShapeAt(e, 0)' PROVE pc' # "wild"
      BY <1>1, <1>5 DEF OtherEffect, Opens, Skips, Pops, Interprets, Finishes, FreesFirst, Begins, OnlyReturns,
         BeginsFree, BeginsReverse, BeginsOther, ConsoleKept, machine,
         InsertReturns, OtherReturns, Leaves, Shows, FreesForNew, Counts, Stops, IsCut, IsKilled, Jumps, Idles, Ends
    <3> QED BY <2>2, <3>1
  <2> QED BY <1>3, <2>2, <2>3 DEF Ends
<1> QED BY <1>4, <1>5

LEMMA ShapeInit == Init => Shape
<1> SUFFICES ASSUME Init PROVE Shape
  OBVIOUS
<1> DEFINE es == << >>
<1>1. /\ pc = "main" /\ q = NULL /\ qcnt = 0 /\ cuts = << >> /\ \A b \in Blocks : heap[b] = Unused
  BY DEF Init, HarnessInit, queue_init
<1>2. es \in Seq(Blocks) /\ Len(es) = 0 /\ 0 \in 0 .. Len(es) /\ Cells(heap, es)
  BY DEF Cells
<1>3. Resting(es, Len(es))
  BY <1>1, <1>2 DEF Resting, Exact, Exactly
<1>4. ShapeAt(es, 0)
  BY <1>1, <1>2, <1>3 DEF ShapeAt
<1>5. es \in Seq(Blocks) /\ 0 \in Nat
  OBVIOUS
<1> HIDE DEF es
<1> QED BY <1>1, <1>4, <1>5 DEF Shape

LEMMA InvStep == Inv /\ [Next]_vars => Inv'
<1> SUFFICES ASSUME Inv, [Next]_vars PROVE Inv'
  OBVIOUS
<1>1. Base' /\ Base /\ Shape
  BY BaseStep DEF Inv
<1>2. CASE QueueOp
  BY <1>1, <1>2, QueueShapeStep DEF Inv
<1>3. CASE Next /\ ~QueueOp
  BY <1>1, <1>3, OtherShapeStep DEF Inv
<1>4. CASE UNCHANGED vars
  <2>1. /\ heap' = heap /\ q' = q /\ pc' = pc /\ reg' = reg /\ quit_flag' = quit_flag /\ qcnt' = qcnt /\ cuts' = cuts
        /\ head' = head /\ tail' = tail /\ size' = size
    BY <1>4 DEF vars, harness, blocks, machine, console, tester, history, head, tail, size
  <2>2. ASSUME NEW es, NEW k, ShapeAt(es, k) PROVE ShapeAt(es, k)'
    <3>1. Whole' = Whole /\ List(es)' = List(es) /\ HasQueue' = HasQueue
      BY <2>1 DEF Whole, List, HasQueue
    <3>2. Empty(es)' = Empty(es)
      BY <2>1, <3>1 DEF Empty
    <3>3. \A S, t, s, c : Exact(es, S, t, s, c)' = Exact(es, S, t, s, c)
      BY <2>1, <3>1 DEF Exact
    <3>4. \A c : Resting(es, c)' = Resting(es, c)
      BY <2>1, <3>1, <3>3 DEF Resting
    <3> QED BY <2>1, <2>2, <3>1, <3>2, <3>3, <3>4 DEF ShapeAt
  <2>3. Shape'
    BY <1>1, <2>1, <2>2 DEF Shape, Harmless, CutFns
  <2> QED BY <1>1, <2>3 DEF Inv
<1> QED BY <1>2, <1>3, <1>4

(* Whatever the lines, the files and the time-outs: the queue is the list  *)
(* the program takes it for, unless a removal or an insertion at the tail  *)
(* was cut short.                                                          *)
THEOREM InvHolds == Spec => []Inv
<1>1. Init => Inv
  BY BaseInit, ShapeInit DEF Inv
<1> QED BY <1>1, InvStep, PTL DEF Spec

(* Memory that was freed is never used, and NULL never dereferenced, unless *)
(* the time limit has cut short a removal or an insertion at the tail.     *)
THEOREM DamageNeedsACut == Spec => []DamageNeedsCut
<1>1. Inv => UseAfterFreeNeedsCut
  BY DEF Inv, Shape, Harmless, UseAfterFreeNeedsCut
<1>2. Inv => DamageNeedsCut
  BY <1>1 DEF Inv, Base, Tailed, FaultNeedsCutInsert, DamageNeedsCut
<1> QED BY <1>2, InvHolds, PTL

----------------------------------------------------------------------------
(* What is found by following next is the list.                            *)
Chain(h, c) == /\ \A i \in 1 .. Len(c) : h[c[i]].kind = "ele" /\ h[c[i]].next = Nth(c, i + 1)
               /\ \A i, j \in 1 .. Len(c) : c[i] = c[j] => i = j

LEMMA ListFits ==
    ASSUME NEW h, NEW es \in Seq(Blocks), Chain(h, es)
    PROVE  Len(es) <= NBlocks
<1>1. Len(es) \in Nat /\ (\A i \in 1 .. Len(es) : es[i] \in Blocks) /\ NBlocks \in Nat
  BY NthMeans, HarnessAssumption
<1>2. IsFiniteSet(1 .. Len(es)) /\ Cardinality(1 .. Len(es)) = Len(es)
  <2>1. PICK n \in Nat : n = Len(es)
    BY <1>1
  <2>2. IsFiniteSet(1 .. n) /\ Cardinality(1 .. n) = IF 1 > n THEN 0 ELSE n - 1 + 1
    <3>1. 1 \in Int /\ n \in Int
      BY ONLY <2>1
    <3> QED BY ONLY <3>1, FS_Interval, Zenon
  <2>3. (IF 1 > n THEN 0 ELSE n - 1 + 1) = n
    BY ONLY <2>1
  <2> QED BY ONLY <2>1, <2>2, <2>3
<1>3. IsFiniteSet(Blocks) /\ Cardinality(Blocks) = NBlocks
  BY <1>1, FS_Interval DEF Blocks
<1>4. es \in [1 .. Len(es) -> Blocks]
  BY LenProperties
<1>5. \A i, j \in 1 .. Len(es) : es[i] = es[j] => i = j
  BY DEF Chain
<1> SUFFICES ASSUME Len(es) > NBlocks PROVE FALSE
  BY <1>1
<1>6. \E i, j \in 1 .. Len(es) : i # j /\ es[i] = es[j]
  BY <1>1, <1>2, <1>3, <1>4, FS_PigeonHole
<1> QED BY <1>5, <1>6

LEMMA WalkIs ==
    ASSUME NEW h, NEW es \in Seq(Blocks), Chain(h, es)
    PROVE  Walk(h, Nth(es, 1)) = es
<1> DEFINE M == NBlocks
           p == Nth(es, 1)
           g == [n \in 0 .. M |-> Nth(es, n + 1)]
           After(x) == IF IsEle(h, x) THEN h[x].next ELSE NULL
           Equation(f) == f = [n \in 0 .. M |-> IF n = 0 THEN p ELSE After(f[n - 1])]
           at == CHOOSE f : Equation(f)
<1>1. /\ M \in Nat /\ Len(es) \in Nat /\ Len(es) <= M
      /\ \A i \in 1 .. Len(es) : es[i] \in Blocks /\ h[es[i]].kind = "ele" /\ h[es[i]].next = Nth(es, i + 1)
  BY ListFits, NthMeans, HarnessAssumption DEF Chain
<1>2. \A i \in 1 .. M : /\ IsEle(h, Nth(es, i)) <=> i <= Len(es)
                        /\ i <= Len(es) => Nth(es, i) = es[i]
                        /\ After(Nth(es, i)) = Nth(es, i + 1)
  <2> TAKE i \in 1 .. M
  <2>1. CASE i \in 1 .. Len(es)
    BY <1>1, <2>1, NullIsNoBlock DEF Nth, IsEle
  <2>2. CASE i \notin 1 .. Len(es)
    <3>1. i + 1 \notin 1 .. Len(es) /\ ~ (i <= Len(es))
      BY <1>1, <2>2
    <3> QED BY <2>2, <3>1 DEF Nth, IsEle
  <2> QED BY <2>1, <2>2
<1>3. Equation(g)
  <2> DEFINE e == [n \in 0 .. M |-> IF n = 0 THEN p ELSE After(g[n - 1])]
  <2>1. ASSUME NEW n \in 0 .. M PROVE g[n] = IF n = 0 THEN p ELSE After(g[n - 1])
    <3>1. CASE n = 0
      BY <3>1
    <3>2. CASE n # 0
      <4>1. n \in 1 .. M /\ n - 1 \in 0 .. M /\ (n - 1) + 1 = n
        BY <1>1, <3>2
      <4>2. g[n - 1] = Nth(es, n) /\ g[n] = Nth(es, n + 1)
        BY <4>1
      <4> HIDE DEF g, After
      <4> QED BY <1>2, <3>2, <4>1, <4>2
    <3> QED BY <3>1, <3>2
  <2>2. g = [n \in 0 .. M |-> g[n]]
    OBVIOUS
  <2> HIDE DEF g, After
  <2> QED BY <2>1, <2>2
<1>4. Equation(at)
  <2> HIDE DEF Equation, g
  <2> QED BY <1>3
<1> HIDE DEF at
<1>5. \A n \in 0 .. M : at[n] = g[n]
  <2> DEFINE Off == {n \in 0 .. M : at[n] # g[n]}
  <2> SUFFICES ASSUME Off # {} PROVE FALSE
    OBVIOUS
  <2>1. PICK n \in Off : \A j \in Off : ~ (<<j, n>> \in OpToRel(<, Nat))
    <3>1. Off \in SUBSET Nat
      BY <1>1
    <3> HIDE DEF Off
    <3> QED BY <3>1, NatLessThanWellFounded, WFMin
  <2>2. n \in 0 .. M /\ at[n] # g[n]
    OBVIOUS
  <2>3. /\ at[n] = IF n = 0 THEN p ELSE After(at[n - 1])
        /\ g[n] = IF n = 0 THEN p ELSE After(g[n - 1])
    <3> HIDE DEF g, Off, After
    <3> QED BY <1>3, <1>4, <2>2
  <2>5. n # 0 /\ n - 1 \in 0 .. M /\ at[n - 1] # g[n - 1]
    <3> HIDE DEF g, Off, After
    <3> QED BY <1>1, <2>2, <2>3
  <2>6. <<n - 1, n>> \in Nat \X Nat /\ <<n - 1, n>>[1] < <<n - 1, n>>[2]
    BY <1>1, <2>2, <2>5
  <2> QED BY <2>1, <2>5, <2>6 DEF OpToRel
<1>6. \A n \in 1 .. M : at[n - 1] = Nth(es, n)
  <2> TAKE n \in 1 .. M
  <2>1. n - 1 \in 0 .. M /\ (n - 1) + 1 = n
    BY <1>1
  <2> QED BY <1>5, <2>1
<1>7. Walk(h, p) = [k \in {n \in 1 .. M : IsEle(h, at[n - 1])} |-> at[k - 1]]
  <2>1. [n \in 0 .. M |-> IF n = 0 THEN p ELSE After(at[n - 1])]
        = [n \in 0 .. M |-> IF n = 0 THEN p ELSE IF IsEle(h, at[n - 1]) THEN h[at[n - 1]].next ELSE NULL]
    OBVIOUS
  <2> QED BY DEF Walk, at
<1> HIDE DEF g, After, Equation
<1>8. {n \in 1 .. M : IsEle(h, at[n - 1])} = 1 .. Len(es)
  BY <1>1, <1>2, <1>6
<1>9. \A k \in 1 .. Len(es) : at[k - 1] = es[k]
  BY <1>1, <1>2, <1>6
<1>10. es = [k \in 1 .. Len(es) |-> es[k]]
  OBVIOUS
<1> QED BY <1>7, <1>8, <1>9, <1>10

LEMMA ListChain ==
    ASSUME NEW h, NEW es \in Seq(Blocks), Cells(h, es), Linked(h, es, 0)
    PROVE  Chain(h, es) /\ Walk(h, Nth(es, 1)) = es
<1>1. \A i \in 1 .. Len(es) : ~ (i <= 0)
  OBVIOUS
<1>2. Chain(h, es)
  BY <1>1 DEF Cells, Linked, Chain
<1> QED BY <1>2, WalkIs

LEMMA ElementsAre ==
    ASSUME NEW es \in Seq(Blocks), Cells(heap, es), List(es), q \in Allocated
    PROVE  /\ Elements = es /\ Range(es) = {es[i] : i \in 1 .. Len(es)}
           /\ InUse = {q} \cup {es[i] : i \in 1 .. Len(es)} \cup {heap[es[i]].value : i \in 1 .. Len(es)}
<1>1. head = Nth(es, 1) /\ Linked(heap, es, 0) /\ q # NULL
  BY DEF List
<1>2. Walk(heap, Nth(es, 1)) = es
  BY <1>1, ListChain
<1>3. Elements = es
  BY <1>1, <1>2 DEF Elements, ElementsFrom
<1>4. Range(es) = {es[i] : i \in 1 .. Len(es)}
  BY DEF Range
<1>5. {heap[e].value : e \in Range(es)} = {heap[es[i]].value : i \in 1 .. Len(es)}
  BY <1>4
<1> QED BY <1>1, <1>3, <1>4, <1>5 DEF InUse

(* Between two commands, as long as none was cut short, size, qcnt, the    *)
(* tail and the blocks that are allocated are what the list says, whatever *)
(* the strings and the number of blocks, and whichever malloc fails.       *)
THEOREM QueueIsConsistent == Spec => []QueueConsistent
<1>1. ASSUME Inv PROVE QueueConsistent
  <2>1. TypeOK /\ Types
    BY <1>1, BaseTyped DEF Inv, Base
  <2> SUFFICES ASSUME pc = "ready", cuts = << >>
               PROVE  /\ Allocated = InUse /\ allocated_count = Cardinality(InUse)
                      /\ InUse # {} => /\ size = Len(Elements) /\ qcnt = Len(Elements)
                                       /\ tail = (IF Elements = << >> THEN NULL ELSE Last(Elements))
    BY <2>1 DEF QueueConsistent
  <2>2. Harmless /\ pc \notin Ends
    BY DEF Harmless, CutFns, Ends
  <2>3. PICK es \in Seq(Blocks), k \in Nat : ShapeAt(es, k)
    BY <1>1, <2>2 DEF Inv, Shape
  <2>4. Cells(heap, es) /\ ((quit_flag /\ Empty(es)) \/ (Resting(es, Len(es)) /\ HasQueue))
    BY <2>3 DEF ShapeAt
  <2>5. allocated_count = Cardinality(Allocated)
    <3>1. adj = 0 /\ allocated_count + adj = Cardinality(Allocated)
      BY <1>1 DEF Inv, Base, Count, Between
    <3> QED BY <2>1, <3>1 DEF Types
  <2>6. CASE Allocated = {}
    BY <2>5, <2>6 DEF InUse
  <2>7. CASE Allocated # {}
    <3>1. PICK b \in Blocks : heap[b] # Unused
      BY <2>7 DEF Allocated
    <3>2. Resting(es, Len(es)) /\ HasQueue
      BY <2>4, <3>1 DEF Empty, Whole, Exactly
    <3>3. q # NULL
      BY <3>1, <3>2, NullIsNoBlock DEF Resting, Exact, Whole, Exactly, List
    <3>4. /\ List(es) /\ q \in Allocated
          /\ Exactly(heap, {q}, es) /\ tail = LastOf(es) /\ size = Len(es) /\ qcnt = Len(es)
      <4>1. q \in Blocks /\ heap[q].kind = "queue"
        BY <2>1, <3>2, <3>3 DEF HasQueue, Types, Ptr
      <4>2. q \in Allocated
        BY <4>1 DEF Allocated, Unused
      <4> QED BY <3>2, <3>3, <4>2 DEF Resting, Exact, Whole, Exactly
    <3>5. /\ Elements = es
          /\ InUse = {q} \cup {es[i] : i \in 1 .. Len(es)} \cup {heap[es[i]].value : i \in 1 .. Len(es)}
      BY <2>4, <3>4, ElementsAre
    <3>6. Allocated \subseteq InUse
      BY <3>4, <3>5 DEF Allocated, Exactly
    <3>7. InUse \subseteq Allocated
      <4>1. \A i \in 1 .. Len(es) : es[i] \in Blocks /\ heap[es[i]] # Unused
        BY <2>4 DEF Cells, Unused
      <4>2. \A i \in 1 .. Len(es) : heap[es[i]].value \in Blocks /\ heap[heap[es[i]].value] # Unused
        BY <2>4 DEF Cells, Unused
      <4> QED BY <3>4, <3>5, <4>1, <4>2 DEF Allocated
    <3>8. tail = (IF es = << >> THEN NULL ELSE Last(es))
      <4>1. Len(es) \in Nat /\ (Len(es) = 0 <=> es = << >>)
        BY NthMeans
      <4>2. Nth(es, Len(es)) = IF es = << >> THEN NULL ELSE es[Len(es)]
        BY <4>1 DEF Nth
      <4> QED BY <3>4, <4>2 DEF LastOf, Last
    <3> QED BY <2>5, <3>4, <3>5, <3>6, <3>7, <3>8
  <2> QED BY <2>6, <2>7
<1> QED BY <1>1, InvHolds, PTL

----------------------------------------------------------------------------
(* The queue implements the deque of queue.h.  Without a time-out the      *)
(* contents are the strings of the list, in whatever part it is linked.    *)

(* b is the first k of es in reverse, c the others.                        *)
Turned(b, es, k) == b = [i \in 1 .. k |-> es[k + 1 - i]]
Unturned(c, es, k) == c = [i \in 1 .. Len(es) - k |-> es[k + i]]

(* The list turned round up to k: followed back from the k-th and on from  *)
(* the next.                                                               *)
LEMMA TurnedChains ==
    ASSUME NEW h, NEW es \in Seq(Blocks), Cells(h, es), NEW k \in 0 .. Len(es), Linked(h, es, k),
           NEW b, Turned(b, es, k),
           NEW c, Unturned(c, es, k)
    PROVE  /\ b \in Seq(Blocks) /\ Len(b) = k /\ Walk(h, Nth(es, k)) = b
           /\ c \in Seq(Blocks) /\ Len(c) = Len(es) - k /\ Walk(h, Nth(es, k + 1)) = c
<1>1. /\ Len(es) \in Nat /\ k \in Nat /\ k <= Len(es)
      /\ \A i \in 1 .. Len(es) : es[i] \in Blocks /\ h[es[i]].kind = "ele"
      /\ \A i, j \in 1 .. Len(es) : es[i] = es[j] => i = j
      /\ \A i \in 1 .. Len(es) : h[es[i]].next = IF i <= k THEN Nth(es, i - 1) ELSE Nth(es, i + 1)
  BY NthMeans DEF Cells, Linked
<1>2. /\ b \in Seq(Blocks) /\ Len(b) = k
      /\ \A i \in 1 .. k : b[i] = es[k + 1 - i] /\ k + 1 - i \in 1 .. Len(es) /\ k + 1 - i <= k
  BY <1>1 DEF Turned
<1>3. /\ c \in Seq(Blocks) /\ Len(c) = Len(es) - k
      /\ \A i \in 1 .. Len(es) - k : c[i] = es[k + i] /\ k + i \in 1 .. Len(es) /\ ~ (k + i <= k)
  BY <1>1 DEF Unturned
<1>4. \A i \in 1 .. k + 1 : Nth(b, i) = Nth(es, k + 1 - i)
  <2> TAKE i \in 1 .. k + 1
  <2>1. CASE i \in 1 .. k
    BY <1>1, <1>2, <2>1 DEF Nth
  <2>2. CASE i = k + 1
    <3>1. k + 1 - i \notin 1 .. Len(es) /\ i \notin 1 .. Len(b)
      BY <1>1, <1>2, <2>2
    <3> QED BY <3>1 DEF Nth
  <2> QED BY <1>1, <2>1, <2>2
<1>5. \A i \in 1 .. Len(es) - k + 1 : Nth(c, i) = Nth(es, k + i)
  <2> TAKE i \in 1 .. Len(es) - k + 1
  <2>1. CASE i \in 1 .. Len(es) - k
    BY <1>1, <1>3, <2>1 DEF Nth
  <2>2. CASE i = Len(es) - k + 1
    <3>1. k + i \notin 1 .. Len(es) /\ i \notin 1 .. Len(c)
      BY <1>1, <1>3, <2>2
    <3> QED BY <3>1 DEF Nth
  <2> QED BY <1>1, <2>1, <2>2
<1>6. Chain(h, b)
  <2>1. ASSUME NEW i \in 1 .. Len(b) PROVE h[b[i]].kind = "ele" /\ h[b[i]].next = Nth(b, i + 1)
    <3>1. /\ i \in 1 .. k /\ b[i] = es[k + 1 - i] /\ k + 1 - i \in 1 .. Len(es) /\ k + 1 - i <= k
          /\ i + 1 \in 1 .. k + 1 /\ (k + 1 - i) - 1 = k + 1 - (i + 1)
      <4>1. i \in 1 .. k
        BY <1>2
      <4>2. i + 1 \in 1 .. k + 1 /\ (k + 1 - i) - 1 = k + 1 - (i + 1)
        BY <4>1
      <4> QED BY <1>2, <4>1, <4>2
    <3>2. h[b[i]].next = Nth(es, (k + 1 - i) - 1)
      BY <1>1, <3>1
    <3> QED BY <1>1, <1>4, <3>1, <3>2
  <2>2. ASSUME NEW i \in 1 .. Len(b), NEW j \in 1 .. Len(b), b[i] = b[j] PROVE i = j
    <3>1. /\ i \in 1 .. k /\ j \in 1 .. k /\ es[k + 1 - i] = es[k + 1 - j]
          /\ k + 1 - i \in 1 .. Len(es) /\ k + 1 - j \in 1 .. Len(es)
      BY <1>2, <2>2
    <3>2. k + 1 - i = k + 1 - j
      BY <1>1, <3>1
    <3> QED BY <1>1, <3>1, <3>2
  <2> QED BY <2>1, <2>2 DEF Chain
<1>7. Chain(h, c)
  <2>1. ASSUME NEW i \in 1 .. Len(c) PROVE h[c[i]].kind = "ele" /\ h[c[i]].next = Nth(c, i + 1)
    <3>1. /\ i \in 1 .. Len(es) - k /\ c[i] = es[k + i] /\ k + i \in 1 .. Len(es) /\ ~ (k + i <= k)
          /\ i + 1 \in 1 .. Len(es) - k + 1 /\ (k + i) + 1 = k + (i + 1)
      BY <1>1, <1>3
    <3>2. h[c[i]].next = Nth(es, (k + i) + 1)
      BY <1>1, <3>1
    <3> QED BY <1>1, <1>5, <3>1, <3>2
  <2>2. ASSUME NEW i \in 1 .. Len(c), NEW j \in 1 .. Len(c), c[i] = c[j] PROVE i = j
    <3>1. k + i = k + j
      BY <1>1, <1>3, <2>2
    <3> QED BY <1>1, <1>3, <3>1
  <2> QED BY <2>1, <2>2 DEF Chain
<1>8. Nth(b, 1) = Nth(es, k) /\ Nth(c, 1) = Nth(es, k + 1)
  <2>1. 1 \in 1 .. k + 1 /\ k + 1 - 1 = k /\ 1 \in 1 .. Len(es) - k + 1
    BY <1>1
  <2> QED BY <1>4, <1>5, <2>1
<1> QED BY <1>2, <1>3, <1>6, <1>7, <1>8, WalkIs

LEMMA TurnedTexts ==
    ASSUME NEW es \in Seq(Blocks), NEW k \in 0 .. Len(es), Cells(heap, es), Linked(heap, es, k)
    PROVE  Reverse(Texts(ElementsFrom(Nth(es, k)))) \o Texts(ElementsFrom(Nth(es, k + 1))) = Texts(es)
<1>1. PICK b, c : /\ b = [i \in 1 .. k |-> es[k + 1 - i]]
                  /\ c = [i \in 1 .. Len(es) - k |-> es[k + i]]
  OBVIOUS
<1>2. /\ b \in Seq(Blocks) /\ Len(b) = k /\ ElementsFrom(Nth(es, k)) = b
      /\ c \in Seq(Blocks) /\ Len(c) = Len(es) - k /\ ElementsFrom(Nth(es, k + 1)) = c
  <2>1. PICK h : h = heap
    OBVIOUS
  <2>2. Cells(h, es) /\ Linked(h, es, k)
    BY <2>1
  <2>3. /\ b \in Seq(Blocks) /\ Len(b) = k /\ Walk(h, Nth(es, k)) = b
        /\ c \in Seq(Blocks) /\ Len(c) = Len(es) - k /\ Walk(h, Nth(es, k + 1)) = c
    <3>1. /\ es \in Seq(Blocks) /\ k \in 0 .. Len(es)
          /\ Turned(b, es, k) /\ Unturned(c, es, k)
      BY <1>1 DEF Turned, Unturned
    <3> QED BY ONLY <2>2, <3>1, TurnedChains
  <2> QED BY <2>1, <2>3 DEF ElementsFrom
<1> DEFINE T(e) == heap[heap[e].value].s
<1>3. Len(es) \in Nat /\ k \in Nat /\ k <= Len(es)
  OBVIOUS
<1> HIDE DEF T
<1>4. /\ Texts(b) = [i \in 1 .. k |-> T(b[i])]
      /\ Texts(c) = [i \in 1 .. Len(es) - k |-> T(c[i])]
      /\ Texts(es) = [i \in 1 .. Len(es) |-> T(es[i])]
  BY <1>2 DEF Texts, T
<1>5. Reverse(Texts(b)) = [i \in 1 .. k |-> T(es[i])]
  <2>1. Len(Texts(b)) = k /\ DOMAIN Texts(b) = 1 .. k
    BY <1>3, <1>4
  <2>2. \A i \in 1 .. k : (k - i) + 1 \in 1 .. k /\ b[(k - i) + 1] = es[i]
    <3> TAKE i \in 1 .. k
    <3>1. (k - i) + 1 \in 1 .. k /\ k + 1 - ((k - i) + 1) = i
      BY <1>3
    <3> QED BY <1>1, <3>1
  <2>3. \A i \in 1 .. k : Texts(b)[(k - i) + 1] = T(es[i])
    BY <1>4, <2>2
  <2> QED BY <2>1, <2>3 DEF Reverse
<1>6. \A i \in 1 .. Len(es) - k : Texts(c)[i] = T(es[k + i])
  BY <1>1, <1>4
<1>7. PICK u, w : u = Reverse(Texts(b)) /\ w = Texts(c)
  OBVIOUS
<1>8. /\ u = [i \in 1 .. k |-> T(es[i])] /\ w = [i \in 1 .. Len(es) - k |-> T(c[i])]
      /\ \A i \in 1 .. Len(es) - k : w[i] = T(es[k + i])
  BY <1>4, <1>5, <1>6, <1>7
<1>9. u \o w = [i \in 1 .. Len(es) |-> T(es[i])]
  <2>1. Len(u) = k /\ Len(w) = Len(es) - k /\ DOMAIN u = 1 .. k /\ DOMAIN w = 1 .. Len(es) - k
    BY <1>3, <1>8
  <2>2. \A i \in 1 .. k : u[i] = T(es[i])
    BY <1>8
  <2>3. u \o w = [i \in 1 .. Len(u) + Len(w) |-> IF i <= Len(u) THEN u[i] ELSE w[i - Len(u)]]
    <3>1. PICK S : S = {u[i] : i \in 1 .. k} \cup {w[i] : i \in 1 .. Len(es) - k}
      OBVIOUS
    <3>2. u \in Seq(S) /\ w \in Seq(S)
      BY <1>3, <1>8, <3>1
    <3>3. /\ u \o w \in Seq(S) /\ Len(u \o w) = Len(u) + Len(w)
          /\ \A i \in 1 .. Len(u) + Len(w) : (u \o w)[i] = IF i <= Len(u) THEN u[i] ELSE w[i - Len(u)]
      BY <3>2, ConcatProperties
    <3>4. PICK z : z = u \o w
      OBVIOUS
    <3>5. z = [i \in 1 .. Len(z) |-> z[i]]
      <4>1. z \in Seq(S)
        BY <3>3, <3>4
      <4> QED BY ONLY <4>1
    <3> QED BY <3>3, <3>4, <3>5
  <2>4. \A i \in 1 .. Len(es) : (IF i <= k THEN u[i] ELSE w[i - k]) = T(es[i])
    <3> TAKE i \in 1 .. Len(es)
    <3>1. CASE i <= k
      BY <1>3, <2>2, <3>1
    <3>2. CASE ~ (i <= k)
      <4>1. i - k \in 1 .. Len(es) - k /\ k + (i - k) = i
        BY <1>3, <3>2
      <4> QED BY <1>8, <3>2, <4>1
    <3> QED BY <3>1, <3>2
  <2>5. Len(u) + Len(w) = Len(es)
    BY <1>3, <2>1
  <2> QED BY <2>1, <2>3, <2>4, <2>5
<1> QED BY <1>2, <1>4, <1>7, <1>9

(* Where the queue object is not allocated, the list is empty.             *)
LEMMA QueueThereOrEmpty ==
    ASSUME Inv, Whole, pc \notin Ends, NEW es, NEW k, ShapeAt(es, k)
    PROVE  \/ q = NULL /\ es = << >>
           \/ q \notin Allocated /\ es = << >>
           \/ q # NULL /\ q \in Allocated /\ (pc \notin {"free_value", "free_ele", "remove_head", "reverse", "reverse_head"}
                                              => List(es))
<1>1. /\ es \in Seq(Blocks) /\ Base /\ q \in Ptr /\ pc \in PCs
      /\ "it" \notin CutFns
  BY DEF ShapeAt, Inv, Base, Types, Whole, CutFns
<1>2. pc # "caught" /\ (pc = "ready" \/ ~quit_flag) /\ (pc \in QueuePart => q # NULL)
  BY <1>1 DEF Base, Tailed, Flow, Locals
<1>3. Empty(es) => es = << >> /\ q \notin Allocated
  <2>1. Empty(es) => \A b \in Blocks : heap[b] = Unused
    BY DEF Empty, Whole, Exactly
  <2> QED BY <2>1 DEF Empty, Allocated
<1>4. ASSUME q # NULL, ~Freed \/ HasQueue PROVE q \in Allocated
  <2>1. q \in Blocks /\ heap[q].kind = "queue"
    BY <1>1, <1>4 DEF Base, Region, HasQueue, Ptr
  <2> QED BY <2>1, AllocatedKinds
<1>5. \A n : Resting(es, n) => (q = NULL /\ es = << >>) \/ (q # NULL /\ List(es))
  BY DEF Resting, List
<1>6. CASE pc = "ready"
  BY <1>3, <1>4, <1>5, <1>6 DEF ShapeAt
<1>7. CASE pc \in {"ret", "cancel"} /\ reg.fn \in {"free", "quit"}
  BY <1>3, <1>7 DEF ShapeAt
<1>8. CASE pc = "done" /\ reg.fn = "quit"
  BY <1>3, <1>8 DEF ShapeAt
<1>9. CASE pc = "new"
  BY <1>3, <1>9 DEF ShapeAt
<1>10. CASE pc = "ret" /\ reg.fn = "new"
  BY <1>10 DEF ShapeAt
<1>11. CASE /\ pc \notin {"ready", "new"} /\ ~ (pc \in {"ret", "cancel"} /\ reg.fn \in {"free", "quit"})
            /\ ~ (pc = "done" /\ reg.fn = "quit") /\ ~ (pc = "ret" /\ reg.fn = "new")
  <2>1. ~Freed
    BY <1>2, <1>11 DEF Freed
  <2>2. CASE pc \in {"main", "enter", "show", "insert", "remove", "size", "done", "ret", "cancel"}
    <3>1. \E n : Resting(es, n)
      <4>1. pc \in {"ret", "cancel"} => reg.fn \in {"new", "ih", "it", "rh", "rhq", "reverse", "size"}
        BY <1>1, <1>11 DEF Base, Flow
      <4> QED BY <1>11, <2>2, <4>1 DEF ShapeAt
    <3> QED BY <1>4, <1>5, <2>1, <3>1
  <2>3. CASE pc \in {"free_value", "free_ele", "remove_head", "reverse", "reverse_head"}
    BY <1>2, <1>4, <2>1, <2>3 DEF QueuePart
  <2>4. CASE pc \in {"insert_value", "insert_undo", "insert_copy", "ih_tail", "ih_head", "it_link", "it_tail", "insert_size",
                     "remove_tail", "remove_ele", "remove_size"}
    <3>1. q # NULL /\ List(es)
      BY <2>4 DEF ShapeAt, List
    <3> QED BY <1>4, <2>1, <3>1
  <2> QED BY <1>1, <1>2, <1>11, <2>2, <2>3, <2>4 DEF PCs, QueuePC
<1> QED BY <1>6, <1>7, <1>8, <1>9, <1>10, <1>11

LEMMA ContentsAre ==
    ASSUME Inv, Whole, pc \notin Ends, NEW es, NEW k, ShapeAt(es, k)
    PROVE  Contents = Texts(es)
<1>1. es \in Seq(Blocks) /\ Cells(heap, es) /\ k \in 0 .. Len(es)
  BY DEF ShapeAt
<1>2. es = << >> => Texts(es) = << >>
  BY DEF Texts
<1>3. Linked(heap, es, 0) => ElementsFrom(Nth(es, 1)) = es
  <2>1. PICK h : h = heap
    OBVIOUS
  <2>2. Linked(h, es, 0) => Walk(h, Nth(es, 1)) = es
    BY <1>1, <2>1, ListChain
  <2> QED BY <2>1, <2>2 DEF ElementsFrom
<1>4. CASE q = NULL \/ q \notin Allocated
  BY <1>2, <1>4, QueueThereOrEmpty DEF Contents
<1>5. CASE q # NULL /\ q \in Allocated
  <2>1. CASE pc = "free_value"
    <3>1. reg.lp = Nth(es, 1) /\ Linked(heap, es, 0)
      BY <2>1 DEF ShapeAt
    <3> QED BY <1>3, <1>5, <2>1, <3>1 DEF Contents
  <2>2. CASE pc = "free_ele"
    <3>1. reg.prv = Nth(es, 1) /\ Linked(heap, es, 0)
      BY <2>2 DEF ShapeAt
    <3> QED BY <1>3, <1>5, <2>2, <3>1 DEF Contents
  <2>3. CASE pc = "remove_head"
    <3>1. heap[head].next = Nth(es, 1) /\ Linked(heap, es, 0)
      BY <2>3 DEF ShapeAt
    <3> QED BY <1>3, <1>5, <2>3, <3>1 DEF Contents
  <2>4. CASE pc \in {"reverse", "reverse_head"}
    <3>1. /\ Linked(heap, es, k) /\ reg.prv = Nth(es, k)
          /\ reg.lp = Nth(es, k + 1)
      <4>1. pc = "reverse_head" => k = Len(es) /\ reg.lp = NULL /\ Linked(heap, es, k) /\ reg.prv = Nth(es, k)
        BY <2>4 DEF ShapeAt
      <4>2. Nth(es, Len(es) + 1) = NULL
        <5>1. Len(es) + 1 \notin 1 .. Len(es)
          BY <1>1
        <5> QED BY <5>1 DEF Nth
      <4> QED BY <2>4, <4>1, <4>2 DEF ShapeAt
    <3>2. Contents = Reverse(Texts(ElementsFrom(reg.prv))) \o Texts(ElementsFrom(reg.lp))
      BY <1>5, <2>4 DEF Contents
    <3> QED BY <1>1, <3>1, <3>2, TurnedTexts
  <2>5. CASE pc \notin {"free_value", "free_ele", "remove_head", "reverse", "reverse_head"}
    <3>1. List(es)
      BY <1>5, <2>5, QueueThereOrEmpty DEF List
    <3>2. head = Nth(es, 1) /\ Linked(heap, es, 0)
      BY <3>1 DEF List
    <3> QED BY <1>3, <1>5, <2>5, <3>2 DEF Contents
  <2> QED BY <2>1, <2>2, <2>3, <2>4, <2>5
<1> QED BY <1>4, <1>5

LEMMA TextsKept ==
    ASSUME NEW es \in Seq(Blocks), Cells(heap, es), NEW b, Others(b),
           \A i \in 1 .. Len(es) : heap[es[i]].value # b,
           \A i \in 1 .. Len(es) : es[i] = b => heap'[b].value = heap[b].value
    PROVE  Texts(es)' = Texts(es)
<1>1. \A i \in 1 .. Len(es) : heap'[es[i]].value = heap[es[i]].value /\ heap'[heap[es[i]].value] = heap[heap[es[i]].value]
  BY DEF Cells, Others
<1>2. Texts(es)' = [i \in DOMAIN es |-> heap'[heap'[es[i]].value].s]
  BY DEF Texts
<1>3. DOMAIN es = 1 .. Len(es)
  OBVIOUS
<1> QED BY <1>1, <1>2, <1>3 DEF Texts

LEMMA ContentsHere == Inv /\ Whole /\ pc \notin Ends => \A es, k : ShapeAt(es, k) => Contents = Texts(es)
BY ContentsAre

LEMMA ContentsThere == (Inv /\ Whole /\ pc \notin Ends => \A es, k : ShapeAt(es, k) => Contents = Texts(es))'
BY ContentsHere, PTL

LEMMA ContentsAfter ==
    ASSUME Inv', Whole', pc' \notin Ends, NEW es, NEW k, ShapeAt(es, k)'
    PROVE  Contents' = Texts(es)'
BY ContentsThere

(* What a step may store without touching a string of the list.            *)
Mild(es) == \/ UNCHANGED heap
            \/ \E b : /\ Others(b) /\ heap[b].kind # "str"
                      /\ heap[b].kind = "ele" => Apart(b, es) \/ heap'[b].value = heap[b].value

LEMMA MildKeeps ==
    ASSUME NEW es \in Seq(Blocks), Cells(heap, es), Mild(es)
    PROVE  Texts(es)' = Texts(es)
<1>1. CASE UNCHANGED heap
  BY <1>1 DEF Texts
<1>2. CASE \E b : /\ Others(b) /\ heap[b].kind # "str"
                  /\ heap[b].kind = "ele" => Apart(b, es) \/ heap'[b].value = heap[b].value
  <2>1. PICK b : /\ Others(b) /\ heap[b].kind # "str"
                 /\ heap[b].kind = "ele" => Apart(b, es) \/ heap'[b].value = heap[b].value
    BY <1>2
  <2>2. \A i \in 1 .. Len(es) : heap[es[i]].value # b
    BY <2>1, NotInList
  <2>3. \A i \in 1 .. Len(es) : es[i] = b => heap'[b].value = heap[b].value
    BY <2>1, NotInList DEF Apart
  <2> QED BY <2>1, <2>2, <2>3, TextsKept
<1> QED BY <1>1, <1>2 DEF Mild

LEMMA EffectIsMild ==
    ASSUME Base, QueueOp, NEW es, NEW k, ShapeAt(es, k), Effect, ~LosesFree, ~LosesOther, ~Faults,
           ~FreesValue, ~RemovesValue
    PROVE  Mild(es)
<1>1. pc \in QueuePart \cup QueuePC /\ (pc \in QueuePart => q # NULL)
  BY QueueOpStep DEF Base, Locals
<1>2. q # NULL => q \in Blocks /\ heap[q].kind = "queue"
  BY QueueOpStep, QueueIsThere
<1>3. GetsQueue \/ GetsEle \/ GetsValue => Mild(es)
  <2>1. GetsQueue \/ GetsEle \/ GetsValue => Others(NewBlock) /\ heap[NewBlock] = Unused
    BY DEF GetsQueue, GetsEle, GetsValue, Took
  <2>2. heap[NewBlock] = Unused => heap[NewBlock].kind # "str" /\ heap[NewBlock].kind # "ele"
    BY DEF Unused
  <2> QED BY <2>1, <2>2 DEF Mild
<1>4. Stuck \/ GetsNoQueue \/ InsertsNot \/ RemovesNot \/ Sizes \/ GetsNoValue => Mild(es)
  BY DEF Stuck, GetsNoQueue, InsertsNot, RemovesNot, Sizes, GetsNoValue, Mild
<1>5. FreesQueue => Mild(es)
  BY <1>1, <1>2 DEF FreesQueue, Gave, Mild, QueuePart
<1>6. FreesEle => Mild(es)
  BY DEF FreesEle, Gave, Mild, From, ShapeAt, IsCell
<1>7. Undoes => Mild(es)
  BY DEF Undoes, Gave, Mild, ShapeAt, IsCell
<1>8. RemovesEle => Mild(es)
  BY DEF RemovesEle, Gave, Mild, From, ShapeAt, IsCell
<1>9. CopiesHead \/ CopiesTail => Mild(es)
  BY DEF CopiesHead, CopiesTail, EleBecomes, Mild, From, ShapeAt, IsCell
<1>10. (\E h, t, s : QueueBecomes(h, t, s)) => Mild(es)
  BY <1>2 DEF QueueBecomes, Mild
<1>11. SetsTail \/ SetsHead \/ LinksFirst \/ MovesTail \/ Grows \/ Unlinks \/ DropsTail \/ Shrinks \/ SwapsTail \/ SwapsHead
       => \E h, t, s : QueueBecomes(h, t, s)
  BY DEF SetsTail, SetsHead, LinksFirst, MovesTail, Grows, Unlinks, DropsTail, Shrinks, SwapsTail, SwapsHead
<1>12. LinksLast \/ Turns => Mild(es)
  BY DEF LinksLast, Turns, EleBecomes, Mild
<1> QED BY <1>3, <1>4, <1>5, <1>6, <1>7, <1>8, <1>9, <1>10, <1>11, <1>12 DEF Effect

(* The strings of a list that is cut, extended or turned round.            *)
LEMMA TailTexts ==
    ASSUME NEW es \in Seq(Blocks), Cells(heap, es), es # << >>, Others(heap[es[1]].value)
    PROVE  Texts(es) # << >> /\ Texts(Tail(es))' = Tail(Texts(es))
<1>1. /\ Len(es) \in Nat /\ Len(es) >= 1 /\ 1 \in 1 .. Len(es) /\ DOMAIN es = 1 .. Len(es)
  BY NthMeans
<1>2. PICK t : t = Tail(es)
  OBVIOUS
<1>3. t \in Seq(Blocks) /\ Len(t) = Len(es) - 1 /\ \A i \in 1 .. Len(t) : t[i] = es[i + 1]
  BY <1>2, TailOfList DEF IsTail
<1>4. \A i \in 1 .. Len(t) : heap'[heap'[t[i]].value].s = heap[heap[es[i + 1]].value].s
  <2> TAKE i \in 1 .. Len(t)
  <2>1. i + 1 \in 1 .. Len(es) /\ i + 1 # 1 /\ t[i] = es[i + 1] /\ es[i + 1] \in Blocks
    BY <1>1, <1>3
  <2>2. /\ heap[es[i + 1]].kind = "ele" /\ heap[es[i + 1]].value \in Blocks
        /\ heap[es[i + 1]].value # heap[es[1]].value /\ heap[heap[es[1]].value].kind = "str"
    BY <1>1, <2>1 DEF Cells
  <2>3. es[i + 1] # heap[es[1]].value
    BY <2>2
  <2> QED BY <2>1, <2>2, <2>3 DEF Others
<1>5. Texts(t)' = [i \in 1 .. Len(t) |-> heap[heap[es[i + 1]].value].s]
  <2>1. DOMAIN t = 1 .. Len(t)
    BY <1>3
  <2> QED BY <1>4, <2>1 DEF Texts
<1>6. PICK u : u = Texts(es)
  OBVIOUS
<1>7. u = [i \in 1 .. Len(es) |-> heap[heap[es[i]].value].s]
  BY <1>1, <1>6 DEF Texts
<1>8. Tail(u) = [i \in 1 .. Len(es) - 1 |-> u[i + 1]]
  <2>1. PICK S : S = {u[i] : i \in 1 .. Len(es)}
    OBVIOUS
  <2>2. u \in Seq(S) /\ Len(u) = Len(es) /\ u # << >>
    <3>1. PICK n \in Nat : n = Len(es) /\ n >= 1
      BY <1>1
    <3>2. u = [i \in 1 .. n |-> u[i]] /\ \A i \in 1 .. n : u[i] \in S
      <4>1. DOMAIN u = 1 .. n /\ u = [i \in DOMAIN u |-> u[i]]
        BY <1>7, <3>1
      <4> QED BY <2>1, <3>1, <4>1
    <3>3. u \in Seq(S) /\ Len(u) = n
      BY ONLY <3>1, <3>2
    <3> QED BY ONLY <3>1, <3>3
  <2>3. /\ Tail(u) \in Seq(S) /\ Len(Tail(u)) = Len(es) - 1
        /\ \A i \in 1 .. Len(es) - 1 : Tail(u)[i] = u[i + 1]
    BY <1>1, <2>2
  <2>4. PICK z : z = Tail(u)
    OBVIOUS
  <2>5. z = [i \in 1 .. Len(z) |-> z[i]]
    <3>1. z \in Seq(S)
      BY <2>3, <2>4
    <3> QED BY ONLY <3>1
  <2> QED BY <2>3, <2>4, <2>5
<1>9. \A i \in 1 .. Len(es) - 1 : u[i + 1] = heap[heap[es[i + 1]].value].s
  BY <1>1, <1>7
<1>10. Tail(u) = Texts(t)'
  BY <1>3, <1>5, <1>8, <1>9
<1>11. u # << >>
  BY <1>1, <1>7
<1> QED BY <1>2, <1>6, <1>10, <1>11

LEMMA ConsTexts ==
    ASSUME NEW es \in Seq(Blocks), NEW p, NEW c, c = <<p>> \o es, p \in Blocks
    PROVE  Texts(c) = <<heap[heap[p].value].s>> \o Texts(es)
<1> DEFINE T(e) == heap[heap[e].value].s
<1>1. /\ c \in Seq(Blocks) /\ Len(c) = Len(es) + 1 /\ Len(es) \in Nat /\ DOMAIN c = 1 .. Len(es) + 1
      /\ DOMAIN es = 1 .. Len(es)
      /\ c[1] = p /\ \A i \in 1 .. Len(es) : c[i + 1] = es[i]
  BY ConsOfList
<1> HIDE DEF T
<1>2. PICK u : u = Texts(es)
  OBVIOUS
<1>3. PICK S : S = {u[i] : i \in 1 .. Len(es)} \cup {T(p)}
  OBVIOUS
<1>4. u = [i \in 1 .. Len(es) |-> T(es[i])]
  BY <1>1, <1>2 DEF Texts, T
<1>5. u \in Seq(S) /\ Len(u) = Len(es) /\ T(p) \in S
  BY <1>1, <1>3, <1>4
<1>6. PICK w : w = <<T(p)>> \o u
  OBVIOUS
<1>7. /\ w \in Seq(S) /\ Len(w) = Len(es) + 1 /\ w[1] = T(p)
      /\ \A i \in 1 .. Len(es) : w[i + 1] = u[i]
  BY <1>1, <1>5, <1>6
<1>8. w = [i \in 1 .. Len(es) + 1 |-> w[i]]
  BY <1>7
<1>9. \A i \in 1 .. Len(es) + 1 : w[i] = T(c[i])
  <2> TAKE i \in 1 .. Len(es) + 1
  <2>1. CASE i = 1
    BY <1>1, <1>7, <2>1
  <2>2. CASE i # 1
    <3>1. i - 1 \in 1 .. Len(es) /\ (i - 1) + 1 = i
      BY <1>1, <2>2
    <3> QED BY <1>1, <1>4, <1>7, <3>1
  <2> QED BY <2>1, <2>2
<1>10. Texts(c) = [i \in 1 .. Len(es) + 1 |-> T(c[i])]
  BY <1>1 DEF Texts, T
<1>11. Texts(c) = w
  BY <1>8, <1>9, <1>10
<1> QED BY <1>2, <1>6, <1>11 DEF T

LEMMA AppendTexts ==
    ASSUME NEW es \in Seq(Blocks), NEW p, NEW a, a = Append(es, p), p \in Blocks
    PROVE  Texts(a) = Append(Texts(es), heap[heap[p].value].s)
<1> DEFINE T(e) == heap[heap[e].value].s
<1>1. /\ a \in Seq(Blocks) /\ Len(a) = Len(es) + 1 /\ Len(es) \in Nat /\ DOMAIN a = 1 .. Len(es) + 1
      /\ DOMAIN es = 1 .. Len(es)
      /\ a[Len(es) + 1] = p /\ \A i \in 1 .. Len(es) : a[i] = es[i]
  BY AppendOfList DEF IsAppend
<1> HIDE DEF T
<1>2. PICK u : u = Texts(es)
  OBVIOUS
<1>3. PICK S : S = {u[i] : i \in 1 .. Len(es)} \cup {T(p)}
  OBVIOUS
<1>4. u = [i \in 1 .. Len(es) |-> T(es[i])]
  BY <1>1, <1>2 DEF Texts, T
<1>5. u \in Seq(S) /\ Len(u) = Len(es) /\ T(p) \in S
  BY <1>1, <1>3, <1>4
<1>6. PICK w : w = Append(u, T(p))
  OBVIOUS
<1>7. /\ w \in Seq(S) /\ Len(w) = Len(es) + 1 /\ w[Len(es) + 1] = T(p)
      /\ \A i \in 1 .. Len(es) : w[i] = u[i]
  BY <1>1, <1>5, <1>6
<1>8. w = [i \in 1 .. Len(es) + 1 |-> w[i]]
  BY <1>7
<1>9. \A i \in 1 .. Len(es) + 1 : w[i] = T(a[i])
  BY <1>1, <1>4, <1>7
<1>10. Texts(a) = [i \in 1 .. Len(es) + 1 |-> T(a[i])]
  BY <1>1 DEF Texts, T
<1>11. Texts(a) = w
  BY <1>8, <1>9, <1>10
<1> QED BY <1>2, <1>6, <1>11 DEF T

LEMMA ReverseTexts ==
    ASSUME NEW es \in Seq(Blocks)
    PROVE  Texts(Reverse(es)) = Reverse(Texts(es))
<1>1. PICK r : r = Reverse(es)
  OBVIOUS
<1>2. Len(es) \in Nat /\ DOMAIN es = 1 .. Len(es)
  OBVIOUS
<1>3. r = [i \in 1 .. Len(es) |-> es[(Len(es) - i) + 1]]
  BY <1>1, <1>2 DEF Reverse
<1>4. DOMAIN r = 1 .. Len(es)
  BY <1>3
<1>5. PICK u : u = Texts(es)
  OBVIOUS
<1>6. u = [i \in 1 .. Len(es) |-> heap[heap[es[i]].value].s]
  BY <1>2, <1>5 DEF Texts
<1>7. Len(u) = Len(es) /\ DOMAIN u = 1 .. Len(es)
  BY <1>2, <1>6
<1>8. Reverse(u) = [i \in 1 .. Len(es) |-> u[(Len(es) - i) + 1]]
  BY <1>7 DEF Reverse
<1>9. \A i \in 1 .. Len(es) : u[(Len(es) - i) + 1] = heap[heap[r[i]].value].s
  <2> TAKE i \in 1 .. Len(es)
  <2>1. (Len(es) - i) + 1 \in 1 .. Len(es)
    BY <1>2
  <2> QED BY <1>3, <1>6, <2>1
<1>10. Texts(r) = [i \in 1 .. Len(es) |-> heap[heap[r[i]].value].s]
  BY <1>4 DEF Texts
<1> QED BY <1>1, <1>5, <1>8, <1>9, <1>10

(* The same in the next state.                                             *)
LEMMA TextsAfter ==
    /\ (\A es \in Seq(Blocks), p \in Blocks : Texts(<<p>> \o es) = <<heap[heap[p].value].s>> \o Texts(es))'
    /\ (\A es \in Seq(Blocks), p \in Blocks : Texts(Append(es, p)) = Append(Texts(es), heap[heap[p].value].s))'
    /\ (\A es \in Seq(Blocks) : Texts(Reverse(es)) = Reverse(Texts(es)))'
<1>1. \A es \in Seq(Blocks), p \in Blocks : Texts(<<p>> \o es) = <<heap[heap[p].value].s>> \o Texts(es)
  BY ConsTexts
<1>2. \A es \in Seq(Blocks), p \in Blocks : Texts(Append(es, p)) = Append(Texts(es), heap[heap[p].value].s)
  BY AppendTexts
<1>3. \A es \in Seq(Blocks) : Texts(Reverse(es)) = Reverse(Texts(es))
  BY ReverseTexts
<1> QED BY <1>1, <1>2, <1>3, PTL

(* The program ends in an operation only for want of memory.               *)
LEMMA StuckStep ==
    ASSUME Base, QueueStep, pc' = "exit1"
    PROVE  pc \in {"new", "insert", "insert_value"}
<1> USE DEF At, Goto, Rest, Fatal, Wild, Allocate, Release, Return, FreeFatal
<1>1. noallocate_mode => pc \in {"reverse", "reverse_head"} \cup {"ret", "cancel"} \cup Ends
  BY DEF Base, Modes
<1>2. CASE q_new \/ q_insert_ele \/ q_insert_value
  BY <1>2 DEF q_new, q_insert_ele, q_insert_value
<1>3. CASE q_free_value \/ q_free_ele \/ q_insert_undo \/ q_remove_value \/ q_remove_ele
  BY <1>1, <1>3 DEF q_free_value, q_free_ele, q_insert_undo, q_remove_value, q_remove_ele, Ends
<1>4. CASE q_insert_copy \/ q_insert_head_tail \/ q_insert_head_head \/ q_insert_tail_link \/ q_insert_tail_tail \/ q_insert_size
  BY <1>4 DEF q_insert_copy, q_insert_head_tail, q_insert_head_head, q_insert_tail_link, q_insert_tail_tail,
              q_insert_size, Segv
<1>5. CASE q_remove_head \/ q_remove_tail \/ q_remove_size \/ q_reverse_wild \/ q_reverse_ele \/ q_reverse_tail \/ q_reverse_head \/ q_size
  BY <1>5 DEF q_remove_head, q_remove_tail, q_remove_size, q_reverse_wild, q_reverse_ele, q_reverse_tail, q_reverse_head, q_size
<1> QED BY <1>2, <1>3, <1>4, <1>5 DEF QueueStep

(* What a step of an operation does to the contents.                       *)
Extends == \/ reg.fn = "ih" /\ Contents' = <<reg.s>> \o Contents
           \/ reg.fn = "it" /\ Contents' = Append(Contents, reg.s)
Shortens == reg.fn \in {"rh", "rhq", "free", "quit"} /\ Contents # << >> /\ Contents' = Tail(Contents)
TurnsRound == reg.fn = "reverse" /\ Contents' = Reverse(Contents)

LEMMA QueueContents ==
    ASSUME Inv, Inv', QueueOp, Whole
    PROVE  Contents' = Contents \/ (q # NULL /\ (Extends \/ Shortens \/ TurnsRound))
<1>1. /\ Base /\ Effect /\ pc \in QueuePC /\ pc' \in QueuePC \cup {"ret", "caught", "exit1", "wild"}
      /\ q' = q /\ cuts' = cuts
  BY QueueOpStep DEF Inv
<1>2. Harmless /\ Harmless' /\ pc \notin Ends /\ Whole'
  BY <1>1 DEF Whole, Harmless, CutFns, QueuePC, Ends
<1>3. PICK es \in Seq(Blocks), k \in Nat : ShapeAt(es, k)
  BY <1>2 DEF Inv, Shape
<1>4. ~LosesFree /\ ~LosesOther /\ ~Faults
  BY <1>1, <1>3, NothingLost
<1>5. Contents = Texts(es) /\ Cells(heap, es)
  BY <1>2, <1>3, ContentsAre DEF ShapeAt
<1>6. pc' # "wild"
  BY <1>2 DEF Inv, Shape
<1>7. CASE pc' = "exit1"
  <2>1. pc \in {"new", "insert", "insert_value"}
    BY <1>1, <1>7, StuckStep DEF QueueOp
  <2>2. UNCHANGED heap
    BY <1>1, <1>4, <1>7 DEF Effect, From, Back, Stuck, GetsQueue, GetsNoQueue, FreesQueue, FreesValue, FreesEle,
              InsertsNot, GetsEle,
              GetsValue, GetsNoValue, Undoes, CopiesHead, CopiesTail, SetsTail, SetsHead, LinksFirst, LinksLast,
              MovesTail, Grows, RemovesNot, RemovesValue, Unlinks, DropsTail, RemovesEle, Shrinks, Turns, SwapsTail,
              SwapsHead, Sizes
  <2>3. \A p : ElementsFrom(p)' = ElementsFrom(p)
    BY <2>2 DEF ElementsFrom
  <2>4. \A e : Texts(e)' = Texts(e)
    BY <2>2 DEF Texts
  <2>5. head' = head /\ Allocated' = Allocated
    BY <1>1, <2>2 DEF head, Allocated
  <2>6. Contents' = IF q = NULL \/ q \notin Allocated THEN << >> ELSE Texts(ElementsFrom(head))'
    BY <1>1, <1>7, <2>5 DEF Contents
  <2>7. Contents = IF q = NULL \/ q \notin Allocated THEN << >> ELSE Texts(ElementsFrom(head))
    BY <2>1 DEF Contents
  <2>8. Texts(ElementsFrom(head))' = Texts(ElementsFrom(head))
    BY <1>1, <2>2 DEF Texts, ElementsFrom, head
  <2> QED BY <2>6, <2>7, <2>8
<1>8. CASE pc' # "exit1"
  <2>1. pc' \notin Ends
    BY <1>1, <1>6, <1>8 DEF QueuePC, Ends
  <2>2. ASSUME NEW e, NEW j, ShapeAt(e, j)' PROVE Contents' = Texts(e)'
    BY <1>2, <2>1, <2>2, ContentsAfter
  <2>3. ~FreesValue /\ ~RemovesValue => Texts(es)' = Texts(es)
    BY <1>1, <1>3, <1>4, <1>5, EffectIsMild, MildKeeps
  <2>4. CASE FreesValue \/ RemovesValue
    <3>1. es # << >> /\ ShapeAt(Tail(es), 0)'
      BY <1>1, <1>3, <2>4, FreesValueShape, RemovesValueShape
    <3>2. q # NULL /\ reg.fn \in {"rh", "rhq", "free", "quit"}
      BY <1>1, <2>4 DEF FreesValue, RemovesValue, From, Base, Flow, Locals, QueuePart, RemovePC
    <3>3. Others(heap[es[1]].value)
      <4>1. Nth(es, 1) = es[1]
        <5>1. 1 \in 1 .. Len(es)
          BY <3>1, NthMeans
        <5> QED BY <5>1 DEF Nth
      <4>2. FreesValue => reg.lp = Nth(es, 1)
        BY <1>3 DEF FreesValue, From, ShapeAt
      <4>3. RemovesValue => head = Nth(es, 1)
        BY <1>3 DEF RemovesValue, From, ShapeAt, Resting, List
      <4> QED BY <2>4, <4>1, <4>2, <4>3 DEF FreesValue, RemovesValue, Gave
    <3>4. Texts(es) # << >> /\ Texts(Tail(es))' = Tail(Texts(es))
      BY <1>5, <3>1, <3>3, TailTexts
    <3>5. PICK t : t = Tail(es)
      OBVIOUS
    <3>6. Contents' = Texts(t)'
      BY <2>2, <3>1, <3>5
    <3> QED BY <1>5, <3>2, <3>4, <3>5, <3>6 DEF Shortens
  <2>5. CASE SetsHead \/ LinksFirst
    <3>1. PICK c : c = <<reg.new>> \o es
      OBVIOUS
    <3>2. ShapeAt(c, 0)' /\ (LinksFirst => es = << >>)
      BY <1>1, <1>3, <2>5, <3>1, SetsHeadShape, LinksFirstShape
    <3>3. /\ pc \in {"ih_head", "it_link"} /\ reg.fn = (IF SetsHead THEN "ih" ELSE "it")
          /\ pc # "free_value" /\ pc # "remove" /\ q # NULL
      BY <1>1, <2>5 DEF SetsHead, LinksFirst, From, Base, Flow, Locals, QueuePart
    <3>4. /\ IsCell(heap, reg.new) /\ heap[reg.new].value = reg.lp /\ heap[reg.lp].s = reg.s /\ reg.lp \in Blocks
          /\ heap[reg.lp].kind = "str"
      BY <1>3, <3>3 DEF ShapeAt, IsOwn, IsString
    <3>5. heap'[heap'[reg.new].value].s = reg.s
      <4>1. Others(q)
        BY <2>5 DEF SetsHead, LinksFirst, QueueBecomes
      <4>2. heap[q].kind = "queue"
        BY <1>1, <3>3, QueueOpStep, QueueIsThere
      <4> QED BY <3>4, <4>1, <4>2 DEF Others, IsCell
    <3>6. Texts(c)' = <<reg.s>> \o Texts(es)
      <4>1. Texts(c)' = <<heap'[heap'[reg.new].value].s>> \o Texts(es)'
        <5>1. PICK p : p = reg.new
          OBVIOUS
        <5>2. p \in Blocks /\ c = <<p>> \o es
          BY <3>1, <3>4, <5>1 DEF IsCell
        <5>3. Texts(c)' = <<heap'[heap'[p].value].s>> \o Texts(es)'
          BY <5>2, TextsAfter
        <5> QED BY <5>1, <5>3
      <4>2. ~FreesValue /\ ~RemovesValue
        BY <3>3 DEF FreesValue, RemovesValue, From
      <4> QED BY <2>3, <3>5, <4>1, <4>2
    <3>7. Contents' = <<reg.s>> \o Contents
      BY <1>5, <2>2, <3>2, <3>6
    <3>8. LinksFirst /\ ~SetsHead => <<reg.s>> \o Contents = Append(Contents, reg.s)
      <4>1. es = << >> => Texts(es) = << >>
        BY DEF Texts
      <4>2. <<reg.s>> \o << >> = Append(<< >>, reg.s)
        OBVIOUS
      <4> QED BY <1>5, <3>2, <4>1, <4>2
    <3> QED BY <2>5, <3>3, <3>7, <3>8 DEF Extends
  <2>6. CASE LinksLast
    <3>1. PICK a : a = Append(es, reg.new)
      OBVIOUS
    <3>2. ShapeAt(a, 0)'
      BY <1>1, <1>3, <2>6, <3>1, LinksLastShape
    <3>3. pc = "it_link" /\ reg.fn = "it" /\ q # NULL
      BY <1>1, <2>6 DEF LinksLast, From, Base, Flow, Locals, QueuePart
    <3>4. /\ IsCell(heap, reg.new) /\ heap[reg.new].value = reg.lp /\ heap[reg.lp].s = reg.s /\ reg.lp \in Blocks
          /\ heap[reg.lp].kind = "str" /\ tail # reg.new
      BY <1>3, <3>3 DEF ShapeAt, IsOwn, IsString
    <3>5. heap'[heap'[reg.new].value].s = reg.s
      <4>1. Others(tail) /\ heap[tail].kind = "ele"
        BY <2>6 DEF LinksLast, EleBecomes
      <4> QED BY <3>4, <4>1 DEF Others, IsCell
    <3>6. Texts(a)' = Append(Texts(es), reg.s)
      <4>1. Texts(a)' = Append(Texts(es)', heap'[heap'[reg.new].value].s)
        <5>1. PICK p : p = reg.new
          OBVIOUS
        <5>2. p \in Blocks /\ a = Append(es, p)
          BY <3>1, <3>4, <5>1 DEF IsCell
        <5>3. Texts(a)' = Append(Texts(es)', heap'[heap'[p].value].s)
          BY <5>2, TextsAfter
        <5> QED BY <5>1, <5>3
      <4>2. ~FreesValue /\ ~RemovesValue
        BY <3>3 DEF FreesValue, RemovesValue, From
      <4> QED BY <2>3, <3>5, <4>1, <4>2
    <3> QED BY <1>5, <2>2, <3>2, <3>3, <3>6 DEF Extends
  <2>7. CASE SwapsHead
    <3>1. PICK r : r = Reverse(es)
      OBVIOUS
    <3>2. ShapeAt(r, 0)'
      BY <1>1, <1>3, <2>7, <3>1, SwapsHeadShape
    <3>3. pc = "reverse_head" /\ reg.fn = "reverse" /\ q # NULL
      BY <1>1, <2>7 DEF SwapsHead, Base, Flow, Locals, QueuePart
    <3>4. Texts(r)' = Reverse(Texts(es)')
      BY <3>1, TextsAfter
    <3>5. ~FreesValue /\ ~RemovesValue
      BY <3>3 DEF FreesValue, RemovesValue, From
    <3> QED BY <1>5, <2>2, <2>3, <3>2, <3>3, <3>4, <3>5 DEF TurnsRound
  <2>8. CASE ~ (FreesValue \/ RemovesValue \/ SetsHead \/ LinksFirst \/ LinksLast \/ SwapsHead \/ Stuck)
    <3>1. \E j : ShapeAt(es, j)'
      <4>1. InsertsNot \/ RemovesNot \/ Sizes => UNCHANGED heap
        BY DEF InsertsNot, RemovesNot, Sizes
      <4> QED BY <1>1, <1>3, <1>4, <2>8, <4>1, NewShape, FreesQueueShape, FreesEleShape, RestShape, GetsEleShape,
             GetsValueShape, GetsNoValueShape, UndoesShape, CopiesShape, SetsTailShape, MovesTailShape, GrowsShape,
             UnlinksShape, DropsTailShape, RemovesEleShape, TurnsShape, SwapsTailShape DEF Effect
    <3> QED BY <1>5, <2>2, <2>3, <2>8, <3>1
  <2>9. ~Stuck
    BY <1>8 DEF Stuck
  <2> QED BY <2>4, <2>5, <2>6, <2>7, <2>8, <2>9
<1> QED BY <1>7, <1>8

(* What the other steps do to it: a new queue is stored, a freed one is    *)
(* forgotten, and everything else leaves it alone.                         *)
LEMMA OtherContents ==
    ASSUME Inv, Inv', Next, ~QueueOp, Whole'
    PROVE  \/ Contents' = Contents /\ q' = q
           \/ q = NULL /\ reg.fn = "new" /\ Contents = << >> /\ Contents' = << >>
           \/ q # NULL /\ reg.fn = "free" /\ q' = NULL /\ Contents' = << >>
           \/ q = NULL /\ q' = NULL /\ Contents = << >> /\ Contents' = << >>
<1>1. Base /\ OtherEffect /\ UNCHANGED heap /\ Whole /\ Flow
  BY OtherFrame DEF Inv
<1>2. Harmless /\ Harmless' /\ ~IsCut /\ ~IsKilled
  <2>1. cuts \in Seq(CutRecords)
    BY <1>1 DEF Base, Types
  <2>2. \A fn : ~Cut(fn)
    BY <1>1, <2>1 DEF Whole, Cut
  <2> QED BY <1>1, <2>2 DEF Whole, Harmless, CutFns, IsCut, IsKilled
<1>3. pc # "caught" /\ pc # "wild" /\ pc' # "wild"
  <2>1. "it" \notin CutFns
    BY <1>1 DEF Whole, CutFns
  <2> QED BY <1>1, <1>2, <2>1 DEF Inv, Shape, Base, Tailed
<1>4. CASE pc \in Ends
  <2>1. Idles
    BY <1>1, <1>4 DEF OtherEffect, Opens, Skips, Pops, Interprets, Finishes, FreesFirst, Begins, OnlyReturns, InsertReturns,
       OtherReturns, Leaves, Shows, FreesForNew, Counts, Stops, IsCut, IsKilled, Jumps, Idles, Ends, QueuePC
  <2>2. heap' = heap /\ q' = q /\ pc' = pc /\ reg' = reg
    BY <2>1 DEF Idles, vars, machine, harness, blocks
  <2>3. Contents' = Contents
    BY <2>2 DEF Contents, Texts, ElementsFrom, head, Allocated
  <2> QED BY <2>2, <2>3
<1>5. CASE pc \notin Ends /\ pc' \in Ends
  <2>1. /\ q' = q
        /\ pc \notin {"free_value", "free_ele", "remove_head", "reverse", "reverse_head"}
        /\ pc' \notin {"free_value", "free_ele", "remove_head", "reverse", "reverse_head"}
    BY <1>1, <1>2, <1>5 DEF OtherEffect, Opens, Skips, Pops, Interprets, Finishes, FreesFirst, Begins, OnlyReturns,
       BeginsFree, BeginsReverse, BeginsOther, ConsoleKept, machine,
       InsertReturns, OtherReturns, Leaves, Shows, FreesForNew, Counts, Stops, Jumps, Idles, Ends
  <2>2. Contents' = Contents
    BY <1>1, <2>1 DEF Contents, Texts, ElementsFrom, head, Allocated
  <2> QED BY <2>1, <2>2
<1>6. CASE pc \notin Ends /\ pc' \notin Ends
  <2>1. PICK es \in Seq(Blocks), k \in Nat : ShapeAt(es, k)
    BY <1>2, <1>6 DEF Inv, Shape
  <2>2. ShapeAt(es, 0)'
    <3>1. CASE Opens \/ Skips \/ Pops \/ Interprets \/ Finishes \/ FreesFirst \/ OnlyReturns \/ FreesForNew \/ Shows
      BY <1>1, <1>6, <2>1, <3>1, ConsoleShape DEF Ends
    <3>2. CASE Begins \/ Leaves
      BY <1>1, <2>1, <3>2, BeginsShape, LeavesShape
    <3>3. CASE InsertReturns \/ OtherReturns
      BY <1>1, <2>1, <3>3, ReturnsShape
    <3>4. CASE \E n \in Nat : Counts(n)
      BY <1>1, <2>1, <3>4, CountsShape
    <3> QED BY <1>1, <1>2, <1>3, <1>6, <3>1, <3>2, <3>3, <3>4 DEF OtherEffect, Idles, Jumps, Stops, Ends
  <2>3. Contents = Texts(es)
    BY <1>1, <1>6, <2>1, ContentsAre
  <2>4. Contents' = Texts(es)'
    BY <1>6, <2>2, ContentsAfter
  <2>5. Contents' = Contents
    BY <1>1, <2>3, <2>4 DEF Texts
  <2>6. CASE OtherReturns /\ reg.fn = "new"
    <3>1. pc = "ret" /\ q = NULL
      BY <1>1, <2>6 DEF OtherReturns, Base, Locals
    <3>2. Contents = << >>
      BY <3>1 DEF Contents
    <3> QED BY <2>5, <2>6, <3>1, <3>2
  <2>7. CASE Leaves /\ reg.fn = "free"
    <3>1. q' = NULL
      BY <2>7 DEF Leaves
    <3>2. Contents' = << >>
      BY <3>1 DEF Contents
    <3> QED BY <2>5, <2>7, <3>1, <3>2
  <2>8. CASE ~ (OtherReturns /\ reg.fn = "new") /\ ~ (Leaves /\ reg.fn = "free")
    <3>1. ASSUME OtherReturns PROVE q' = q
      BY <2>8, <3>1 DEF OtherReturns
    <3>2. ASSUME Leaves PROVE q' = q
      BY <2>8, <3>2 DEF Leaves
    <3>3. ASSUME ~OtherReturns /\ ~Leaves PROVE q' = q
      BY <1>1, <1>2, <1>3, <3>3 DEF OtherEffect, Opens, Skips, Pops, Interprets, Finishes, FreesFirst, Begins, OnlyReturns,
         ConsoleKept, Keep, machine, InsertReturns, Shows, FreesForNew, Counts, Stops, Jumps, Idles, vars
    <3>4. q' = q
      BY <3>1, <3>2, <3>3
    <3> QED BY <2>5, <3>4
  <2> QED BY <2>6, <2>7, <2>8
<1> QED BY <1>4, <1>5, <1>6

(* Step by step the program does to its queue what queue.h promises: an    *)
(* operation has one step that takes effect, and all others leave the      *)
(* contents alone, until the time limit cuts something short.              *)
THEOREM QueueRefinesDeque == Spec => RefinesDeque
<1>1. Init => D!DequeInit
  BY DEF Init, queue_init, D!DequeInit, Contents
<1>2. ASSUME Inv, Inv', [Next]_vars
      PROVE  [D!DequeNext]_<<(q # NULL /\ cuts = << >>), (IF cuts = << >> THEN Contents ELSE << >>), cuts # << >>>>
  <2> DEFINE there == q # NULL /\ cuts = << >>
             contents == IF cuts = << >> THEN Contents ELSE << >>
             lost == cuts # << >>
  <2> SUFFICES D!DequeNext \/ (there' = there /\ contents' = contents /\ lost' = lost)
    OBVIOUS
  <2>1. CASE UNCHANGED vars
    <3>1. heap' = heap /\ q' = q /\ pc' = pc /\ reg' = reg /\ cuts' = cuts
      BY <2>1 DEF vars, machine, harness, blocks, history
    <3>2. Contents' = Contents
      BY <3>1 DEF Contents, Texts, ElementsFrom, head, Allocated
    <3> QED BY <3>1, <3>2
  <2>2. CASE cuts' # << >>
    BY <2>2 DEF D!DequeNext, D!Cut
  <2>3. CASE QueueOp /\ cuts' = << >>
    <3>1. cuts = << >> /\ q' = q /\ cuts' = cuts
      BY <1>2, <2>3, QueueOpStep DEF Inv
    <3>2. Contents' = Contents \/ (q # NULL /\ (Extends \/ Shortens \/ TurnsRound))
      BY <1>2, <2>3, <3>1, QueueContents DEF Whole
    <3>3. ASSUME NEW x, q # NULL, Contents' = x PROVE D!Change(TRUE, x)
      BY <3>1, <3>3, <2>3 DEF D!Change
    <3>4. q # NULL /\ cuts = << >> => there = TRUE
      OBVIOUS
    <3>5. contents = Contents
      BY <3>1
    <3>6. CASE q # NULL /\ Extends
      <4>1. D!InsertHead \/ D!InsertTail
        BY <3>1, <3>3, <3>5, <3>6 DEF Extends, D!InsertHead, D!InsertTail
      <4> QED BY <4>1 DEF D!DequeNext
    <3>7. CASE q # NULL /\ Shortens
      <4>1. D!RemoveHead \/ D!FreeSome
        BY <3>1, <3>3, <3>5, <3>7 DEF Shortens, D!RemoveHead, D!FreeSome
      <4> QED BY <4>1 DEF D!DequeNext
    <3>8. CASE q # NULL /\ TurnsRound
      <4>1. D!ReverseAll
        BY <3>1, <3>3, <3>5, <3>8 DEF TurnsRound, D!ReverseAll, Reverse, D!Reverse
      <4> QED BY <4>1 DEF D!DequeNext
    <3>9. CASE Contents' = Contents
      BY <2>3, <3>1, <3>9
    <3> QED BY <3>2, <3>6, <3>7, <3>8, <3>9
  <2>4. CASE Next /\ ~QueueOp /\ cuts' = << >>
    <3>1. cuts = << >>
      BY <1>2, <2>4, OtherFrame DEF Inv, Whole
    <3>2. \/ Contents' = Contents /\ q' = q
          \/ q = NULL /\ reg.fn = "new" /\ Contents = << >> /\ Contents' = << >>
          \/ q # NULL /\ reg.fn = "free" /\ q' = NULL /\ Contents' = << >>
          \/ q = NULL /\ q' = NULL /\ Contents = << >> /\ Contents' = << >>
      BY <1>2, <2>4, OtherContents DEF Whole
    <3> QED BY <2>4, <3>1, <3>2 DEF D!DequeNext, D!Change, D!New, D!FreeAll
  <2> QED BY <1>2, <2>1, <2>2, <2>3, <2>4
<1> QED BY <1>1, <1>2, InvHolds, PTL DEF Spec, RefinesDeque, D!DequeSpec
=============================================================================
