-------------------------------- MODULE CSim --------------------------------
(***************************************************************************)
(* The cache simulator of the cache lab, 4_CacheLab/cachelab-handout/      *)
(* csim.c: the reading of a trace, the sets as linked lists of lines in    *)
(* the order of their last use, and the counts.  One action executes one   *)
(* access; the two accesses of a modify line are two actions.              *)
(***************************************************************************)
EXTENDS Integers, Sequences, FiniteSets, Functions

CONSTANTS SetBits, BlockBits,   \* s and b
          Associativities,      \* values of E; parse_args refuses 0 only
          Addresses,            \* the addresses of a trace
          Lines,                \* where malloc puts a struct cache_line
          MaxTrace              \* bound: lines of a trace

NoLine == 0

(* The powers are what shifts of 1 give.                                   *)
ASSUME CSimAssumption == /\ 2 ^ SetBits \in Nat \ {0} /\ 2 ^ BlockBits \in Nat \ {0}
                         /\ Associativities \subseteq Int \ {0}
                         /\ Addresses \subseteq Nat /\ MaxTrace \in Nat
                         /\ Lines \subseteq Nat \ {NoLine} /\ IsFiniteSet(Lines)

VARIABLES E,       \* _op.E
          cache,   \* cache[i] = [cnt, head, tail]
          line,    \* line[p]: the struct cache_line at p, or Unallocated
          count,   \* _count
          read,    \* lines of the trace read so far
          at,      \* "loop", "again" (second access of M), "free", "exit", "failed"
          ad       \* the access of the current line

csimvars == <<E, cache, line, count, read, at, ad>>

Sets == 0 .. 2 ^ SetBits - 1
Unallocated == [v |-> -1, tag |-> 0, next |-> NoLine]

parse_adress_bit(address) == [set_i |-> (address \div 2 ^ BlockBits) % 2 ^ SetBits,
                              tag |-> address \div 2 ^ (SetBits + BlockBits)]

CSimInit == /\ E \in Associativities
            /\ cache = [i \in Sets |-> [cnt |-> 0, head |-> NoLine, tail |-> NoLine]]
            /\ line = [p \in Lines |-> Unallocated]
            /\ count = [hit |-> 0, miss |-> 0, eviction |-> 0]
            /\ read = 0 /\ at = "loop" /\ ad = parse_adress_bit(0)

Allocated == {p \in Lines : line[p] # Unallocated}

(* The loop of search_cache, p = p->next: the line of each set it is at    *)
(* after k steps.                                                          *)
after(p) == IF p = NoLine THEN NoLine ELSE line[p].next
Walk[k \in 0 .. Cardinality(Lines)] ==
    [i \in Sets |-> IF k = 0 THEN cache[i].head ELSE after(Walk[k - 1][i])]

(* The lines of a set in list order.                                       *)
List(i) == [k \in {n \in 1 .. Cardinality(Lines) : Walk[n - 1][i] # NoLine} |-> Walk[k - 1][i]]

(* search_cache: where the tag is first found, if anywhere.                *)
Found(list, tag) == {k \in DOMAIN list : /\ line[list[k]].tag = tag
                                         /\ \A n \in 1 .. k - 1 : line[list[n]].tag # tag}

(* Mutant: the oldest line is dropped from the list and not freed.         *)
RmvHeadLeaks(l, set) == <<l, [set EXCEPT !.head = l[set.head].next, !.cnt = @ - 1]>>

(* rmv_head on lines l and set; tail is left as it is.                     *)
rmv_head(l, set) == <<[l EXCEPT ![set.head] = Unallocated],
                      [set EXCEPT !.head = l[set.head].next, !.cnt = @ - 1]>>

(* add_tail with a new line p, and the stores of search_cache to it.       *)
add_tail(p, set, tag) ==
    LET new == [v |-> 1, tag |-> tag, next |-> NoLine]
    IN IF set.head = NoLine
       THEN <<[line EXCEPT ![p] = new], [cnt |-> set.cnt + 1, head |-> p, tail |-> p]>>
       ELSE <<[line EXCEPT ![set.tail].next = p, ![p] = new],
              [set EXCEPT !.cnt = @ + 1, !.tail = p]>>

(* Mutant: a line found at the head stays there.                           *)
MoveKeepsHead(set, prev) ==
    IF prev = NoLine \/ line[line[prev].next].next = NoLine THEN <<line, set>>
    ELSE LET new == line[prev].next
         IN <<[line EXCEPT ![prev].next = line[new].next, ![set.tail].next = new, ![new].next = NoLine],
              [set EXCEPT !.tail = new]>>

(* move_node_to_tail: prev is the line before the one found, if any.       *)
move_node_to_tail(set, prev) ==
    IF prev # NoLine
    THEN LET new == line[prev].next
         IN IF line[new].next = NoLine THEN <<line, set>>
            ELSE <<[line EXCEPT ![prev].next = line[new].next,
                                ![set.tail].next = new, ![new].next = NoLine],
                   [set EXCEPT !.tail = new]>>
    ELSE LET new == set.head
             second == line[new].next
         IN <<[[line EXCEPT ![set.tail].next = new] EXCEPT ![new].next = NoLine],
              [set EXCEPT !.head = IF second = NoLine THEN new ELSE second, !.tail = new]>>

Hits(i, list, k) ==
    \E moved \in {move_node_to_tail(cache[i], IF k = 1 THEN NoLine ELSE list[k - 1])} :
        /\ line' = moved[1] /\ cache' = [cache EXCEPT ![i] = moved[2]]
        /\ count' = [count EXCEPT !.hit = @ + 1]

Misses(i, tag) ==
    \E p \in Lines \ Allocated : \E added \in {add_tail(p, cache[i], tag)} :
        /\ IF E < added[2].cnt
           THEN \E rest \in {rmv_head(added[1], added[2])} :
                  /\ line' = rest[1] /\ cache' = [cache EXCEPT ![i] = rest[2]]
                  /\ count' = [count EXCEPT !.miss = @ + 1, !.eviction = @ + 1]
           ELSE /\ line' = added[1] /\ cache' = [cache EXCEPT ![i] = added[2]]
                /\ count' = [count EXCEPT !.miss = @ + 1]

search_cache(i, tag) ==
    \E list \in {List(i)} : IF Found(list, tag) = {} THEN Misses(i, tag)
                           ELSE \E k \in Found(list, tag) : Hits(i, list, k)

(* One line of the trace: an access, two of the same address for M, or a   *)
(* line that does not begin with a blank and is skipped.                   *)
execute_line == /\ at = "loop" /\ read < MaxTrace /\ read' = read + 1 /\ UNCHANGED E
                /\ \/ \E address \in Addresses, id \in {"L", "M"} :
                        /\ ad' = parse_adress_bit(address)
                        /\ search_cache(ad'.set_i, ad'.tag)
                        /\ at' = IF id = "M" THEN "again" ELSE "loop"
                   \/ UNCHANGED <<at, ad, cache, line, count>>

execute_again == /\ at = "again" /\ at' = "loop" /\ search_cache(ad.set_i, ad.tag)
                 /\ UNCHANGED <<E, read, ad>>

(* add_tail finds no memory: search_cache ends the program, with the trace  *)
(* unfinished and no summary.                                              *)
search_cache_fails == /\ at \in {"loop", "again"} /\ at' = "failed"
                      /\ \E a \in IF at = "loop" THEN {parse_adress_bit(x) : x \in Addresses} ELSE {ad} :
                           Found(List(a.set_i), a.tag) = {}
                      /\ line' = [p \in Lines |-> Unallocated]
                      /\ UNCHANGED <<E, cache, count, read, ad>>

(* get_line at an empty line, or at the end of the file, where a last line *)
(* without a newline is dropped.                                           *)
get_line_ends == at = "loop" /\ at' = "free" /\ UNCHANGED <<E, cache, line, count, read, ad>>

(* free_cache, and the end of main.                                        *)
free_cache == /\ at = "free" /\ at' = "exit"
              /\ line' = [p \in Lines |-> IF \E i \in Sets : p \in Range(List(i))
                                          THEN Unallocated ELSE line[p]]
              /\ UNCHANGED <<E, cache, count, read, ad>>

CSimNext == execute_line \/ execute_again \/ search_cache_fails \/ get_line_ends \/ free_cache

CSimSpec == CSimInit /\ [][CSimNext]_csimvars

----------------------------------------------------------------------------
(* The simulator implements the least-recently-used cache: list order is   *)
(* order of use, hits, misses and evictions are those of the abstract      *)
(* cache, whatever stale tail an emptied list still has.                   *)
L == INSTANCE LRUCache WITH Sets <- Sets, Tags <- {parse_adress_bit(a).tag : a \in Addresses},
         Ways <- IF E > 0 THEN E ELSE 0, req <- ad,
         lru <- [i \in Sets |-> IF at \in {"exit", "failed"} THEN << >>
                                ELSE [k \in DOMAIN List(i) |-> line[List(i)[k]].tag]],
         hits <- count.hit, misses <- count.miss, evictions <- count.eviction
ImplementsLRU == L!LRUSpec

(* The counts are those of a cache: what was missed and not evicted is     *)
(* held, cnt counts the lines of a set, no line is lost, and at the end    *)
(* all of them have been freed.                                            *)
CountsMatchLines == /\ at \notin {"exit", "failed"} =>
                          /\ count.miss - count.eviction = Cardinality(Allocated)
                          /\ \A i \in Sets : cache[i].cnt = Len(List(i))
                    /\ at = "exit" => Allocated = {}
=============================================================================
