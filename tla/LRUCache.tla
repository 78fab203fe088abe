------------------------------ MODULE LRUCache ------------------------------
(***************************************************************************)
(* What the cache simulator simulates: sets of at most Ways lines with     *)
(* least-recently-used replacement.  A set is the sequence of its tags,    *)
(* the least recently used one first.                                      *)
(***************************************************************************)
EXTENDS Integers, Sequences, SequencesExt

CONSTANTS Sets, Tags

VARIABLES Ways,   \* chosen at the start
          req,    \* the last access, [set_i, tag]: the cache does not choose it
          lru, hits, misses, evictions

LRUInit == /\ lru = [i \in Sets |-> << >>]
           /\ hits = 0 /\ misses = 0 /\ evictions = 0

Hit(i, tag) == /\ \E k \in DOMAIN lru[i] :
                     lru[i][k] = tag /\ lru' = [lru EXCEPT ![i] = Append(RemoveAt(@, k), tag)]
               /\ hits' = hits + 1 /\ UNCHANGED <<misses, evictions>>

Fill(i, tag) == /\ tag \notin Range(lru[i]) /\ Len(lru[i]) < Ways
                /\ lru' = [lru EXCEPT ![i] = Append(@, tag)]
                /\ misses' = misses + 1 /\ UNCHANGED <<hits, evictions>>

Evict(i, tag) == /\ tag \notin Range(lru[i]) /\ Len(lru[i]) >= Ways
                 /\ lru' = [lru EXCEPT ![i] = Tail(Append(@, tag))]
                 /\ misses' = misses + 1 /\ evictions' = evictions + 1 /\ UNCHANGED hits

(* The end of the program.                                                 *)
Drop == lru' = [i \in Sets |-> << >>] /\ UNCHANGED <<req, hits, misses, evictions>>

Access(i, tag) == req' = [set_i |-> i, tag |-> tag] /\ (Hit(i, tag) \/ Fill(i, tag) \/ Evict(i, tag))

LRUNext == Drop \/ \E i \in Sets, tag \in Tags : Access(i, tag)

LRUSpec == LRUInit /\ [][LRUNext]_<<req, lru, hits, misses, evictions>>
=============================================================================
