------------------------------ MODULE LabProofs ------------------------------
(***************************************************************************)
(* Proofs about the programs of the cache lab and the data lab.  The cache *)
(* simulator, for any trace, any numbers of sets and lines and any memory: *)
(* its linked lists stay lists, whatever is moved, dropped and used again, *)
(* and they implement the cache.  The drivers, for any functions under     *)
(* test: test-trans reports what it has measured of the submission, and    *)
(* btest gives each function its own time-outs and points.                 *)
(***************************************************************************)
EXTENDS CSim, TransTest, BTest, SequencesExt, FiniteSetTheorems, SequenceTheorems, WellFoundedInduction, TLAPS

----------------------------------------------------------------------------
(* The cache simulator                                                     *)

(* The inductive invariant                                                 *)

Accesses == {parse_adress_bit(a) : a \in Addresses}
Tags == {ad0.tag : ad0 \in Accesses} \cup {0}
Ways == IF E > 0 THEN E ELSE 0
Running == at \notin {"exit", "failed"}

CTypes == /\ E \in Associativities
          /\ cache \in [Sets -> [cnt : Int, head : Lines \cup {NoLine}, tail : Lines \cup {NoLine}]]
          /\ line \in [Lines -> [v : {-1, 1}, tag : Tags, next : Lines \cup {NoLine}]]
          /\ count \in [hit : Nat, miss : Nat, eviction : Nat]
          /\ at \in {"loop", "again", "free", "exit", "failed"}
          /\ at = "again" => ad \in Accesses

Held(s) == {s[k] : k \in 1 .. Len(s)}

(* The lines s are set i: from head by next to tail, as many as cnt, none  *)
(* twice, and no tag twice.  Each is valid, so the branch of search_cache  *)
(* for one that is not is never taken.  An empty set may have any tail.    *)
Chain(i, s) ==
    /\ s \in Seq(Lines) /\ Len(s) <= Ways
    /\ cache[i].cnt = Len(s)
    /\ cache[i].head = IF Len(s) = 0 THEN NoLine ELSE s[1]
    /\ Len(s) > 0 => cache[i].tail = s[Len(s)]
    /\ \A k \in 1 .. Len(s) : /\ line[s[k]].v = 1
                              /\ line[s[k]].next = IF k < Len(s) THEN s[k + 1] ELSE NoLine
    /\ \A j, k \in 1 .. Len(s) : s[j] = s[k] \/ line[s[j]].tag = line[s[k]].tag => j = k

(* Memory has the lists li, apart from each other, and nothing else.       *)
Chains(li) ==
    /\ li \in [Sets -> Seq(Lines)] /\ \A i \in Sets : Chain(i, li[i])
    /\ \A i, j \in Sets : i # j => Held(li[i]) \cap Held(li[j]) = {}
    /\ \A p \in Lines : line[p] # Unallocated <=> \E i \in Sets : p \in Held(li[i])

CInv == /\ CTypes
        /\ Running => /\ \E li : Chains(li)
                      /\ count.miss - count.eviction = Cardinality(Allocated)
        /\ at = "exit" => Allocated = {}

----------------------------------------------------------------------------
(* Sequences and numbers                                                   *)

LEMMA Shifts == \A a \in Nat : parse_adress_bit(a).set_i \in Sets
<1> TAKE a \in Nat
<1>1. a \div 2 ^ BlockBits \in Nat
  BY CSimAssumption
<1> QED BY <1>1, CSimAssumption DEF parse_adress_bit, Sets

(* What a list is after its k-th line was moved to the end, a line was     *)
(* added, and one was added and the first dropped.                         *)
LEMMA Moved ==
    ASSUME NEW Q, NEW s \in Seq(Q), NEW k \in 1 .. Len(s)
    PROVE  /\ Append(RemoveAt(s, k), s[k]) \in Seq(Q) /\ Len(Append(RemoveAt(s, k), s[k])) = Len(s)
           /\ \A j \in 1 .. Len(s) : Append(RemoveAt(s, k), s[k])[j] = IF j < k THEN s[j]
                                              ELSE IF j < Len(s) THEN s[j + 1] ELSE s[k]
<1> DEFINE a == SubSeq(s, 1, k - 1)
           b == SubSeq(s, k + 1, Len(s))
           r == Append(a \o b, s[k])
<1>0. k \in 1 .. Len(s) /\ Len(s) \in Nat
  OBVIOUS
<1>1. a \in Seq(Q) /\ Len(a) = k - 1 /\ \A j \in 1 .. k - 1 : a[j] = s[j]
  OBVIOUS
<1>2. b \in Seq(Q) /\ Len(b) = Len(s) - k /\ \A j \in 1 .. Len(s) - k : b[j] = s[k + j]
  OBVIOUS
<1> HIDE DEF a, b
<1>3. /\ a \o b \in Seq(Q) /\ Len(a \o b) = Len(s) - 1
      /\ \A j \in 1 .. Len(s) - 1 : (a \o b)[j] = IF j < k THEN a[j] ELSE b[j - k + 1]
  <2>1. a \o b \in Seq(Q) /\ Len(a \o b) = Len(a) + Len(b)
    BY <1>1, <1>2, ConcatProperties
  <2>2. \A j \in 1 .. Len(a) + Len(b) : (a \o b)[j] = IF j <= Len(a) THEN a[j] ELSE b[j - Len(a)]
    BY <1>1, <1>2, ConcatProperties
  <2>3. Len(a) + Len(b) = Len(s) - 1 /\ \A j \in 1 .. Len(s) - 1 : (j <= k - 1 <=> j < k) /\ j - (k - 1) = j - k + 1
    BY <1>0, <1>1, <1>2
  <2> QED BY <1>1, <2>1, <2>2, <2>3
<1>4. /\ r \in Seq(Q) /\ Len(r) = Len(s) /\ r[Len(s)] = s[k]
      /\ \A j \in 1 .. Len(s) - 1 : r[j] = (a \o b)[j]
  BY <1>0, <1>3
<1> HIDE DEF r
<1>5. \A j \in 1 .. Len(s) : r[j] = IF j < k THEN s[j] ELSE IF j < Len(s) THEN s[j + 1] ELSE s[k]
  <2> TAKE j \in 1 .. Len(s)
  <2>1. CASE j < k
    <3>1. j \in 1 .. Len(s) - 1 /\ j \in 1 .. k - 1
      BY <1>0, <2>1
    <3>2. r[j] = (a \o b)[j] /\ (a \o b)[j] = a[j] /\ a[j] = s[j]
      BY <1>1, <1>3, <1>4, <2>1, <3>1
    <3> QED BY <2>1, <3>2
  <2>2. CASE j >= k /\ j < Len(s)
    <3>1. /\ j \in 1 .. Len(s) - 1 /\ j - k + 1 \in 1 .. Len(s) - k /\ k + (j - k + 1) = j + 1
          /\ ~ (j < k)
      BY <1>0, <2>2
    <3>2. r[j] = (a \o b)[j] /\ (a \o b)[j] = b[j - k + 1] /\ b[j - k + 1] = s[j + 1]
      <4>1. r[j] = (a \o b)[j]
        BY <1>4, <3>1
      <4>2. (a \o b)[j] = b[j - k + 1]
        BY <1>3, <3>1
      <4>3. b[j - k + 1] = s[k + (j - k + 1)]
        BY <1>2, <3>1
      <4> QED BY <3>1, <4>1, <4>2, <4>3
    <3> QED BY <2>2, <3>1, <3>2
  <2>3. CASE j = Len(s)
    BY <1>0, <2>3, <1>4
  <2> QED BY <1>0, <2>1, <2>2, <2>3
<1>6. r = Append(RemoveAt(s, k), s[k])
  BY DEF RemoveAt, a, b, r
<1> QED BY <1>4, <1>5, <1>6

LEMMA Added ==
    ASSUME NEW Q, NEW s \in Seq(Q), NEW x \in Q
    PROVE  /\ Append(s, x) \in Seq(Q) /\ Len(Append(s, x)) = Len(s) + 1
           /\ \A j \in 1 .. Len(s) + 1 : Append(s, x)[j] = IF j <= Len(s) THEN s[j] ELSE x
           /\ Tail(Append(s, x)) \in Seq(Q) /\ Len(Tail(Append(s, x))) = Len(s)
           /\ \A j \in 1 .. Len(s) : Tail(Append(s, x))[j] = IF j < Len(s) THEN s[j + 1] ELSE x
OBVIOUS

LEMMA Memory == Lines \subseteq Nat /\ NoLine \notin Lines /\ IsFiniteSet(Lines)
BY CSimAssumption

(* No more lines than there are.                                           *)
LEMMA ListFits ==
    ASSUME NEW s \in Seq(Lines), \A j, k \in 1 .. Len(s) : s[j] = s[k] => j = k
    PROVE  Len(s) <= Cardinality(Lines) /\ Cardinality(Lines) \in Nat
<1>1. s \in Injection(1 .. Len(s), Lines)
  BY DEF Injection, IsInjective
<1>2. IsFiniteSet(1 .. Len(s)) /\ Cardinality(1 .. Len(s)) = Len(s)
  <2>1. Len(s) \in Nat
    OBVIOUS
  <2>2. IsFiniteSet(1 .. Len(s)) /\ Cardinality(1 .. Len(s)) = IF 1 > Len(s) THEN 0 ELSE Len(s) - 1 + 1
    BY <2>1, FS_Interval
  <2> QED BY <2>1, <2>2
<1> QED BY <1>1, <1>2, Memory, FS_Injection, FS_CardinalityType

----------------------------------------------------------------------------
(* The loop of search_cache walks through the list of a set                *)

LEMMA WalkIs ==
    ASSUME NEW li, Chains(li)
    PROVE  \A k \in 0 .. Cardinality(Lines), i \in Sets :
               Walk[k][i] = IF k < Len(li[i]) THEN li[i][k + 1] ELSE NoLine
<1> DEFINE M == Cardinality(Lines)
           h == [k \in 0 .. M |-> [i \in Sets |-> IF k < Len(li[i]) THEN li[i][k + 1] ELSE NoLine]]
           Equation(f) == f = [k \in 0 .. M |-> [i \in Sets |-> IF k = 0 THEN cache[i].head
                                                               ELSE after(f[k - 1][i])]]
<1>1. M \in Nat
  BY Memory, FS_CardinalityType
<1>2. ASSUME NEW k \in 0 .. M, NEW i \in Sets
      PROVE  h[k][i] = IF k = 0 THEN cache[i].head ELSE after(h[k - 1][i])
  <2>1. Chain(i, li[i]) /\ li[i] \in Seq(Lines) /\ Len(li[i]) \in Nat
    BY DEF Chains
  <2>2. CASE k = 0
    BY <1>1, <2>1, <2>2 DEF Chain
  <2>3. CASE k # 0
    <3>1. k - 1 \in 0 .. M /\ (k - 1) + 1 = k
      BY <1>1, <2>3
    <3>2. h[k - 1][i] = IF k - 1 < Len(li[i]) THEN li[i][k] ELSE NoLine
      BY <3>1
    <3>3. k - 1 < Len(li[i]) =>
              /\ k \in 1 .. Len(li[i]) /\ li[i][k] \in Lines /\ li[i][k] # NoLine
              /\ line[li[i][k]].next = IF k < Len(li[i]) THEN li[i][k + 1] ELSE NoLine
      <4>1. k - 1 < Len(li[i]) => k \in 1 .. Len(li[i])
        BY <1>1, <2>1, <2>3
      <4> QED BY <2>1, <4>1, Memory DEF Chain
    <3>4. k - 1 >= Len(li[i]) => ~ (k < Len(li[i]))
      BY <1>1, <2>1
    <3> HIDE DEF M
    <3>5. h[k][i] = IF k < Len(li[i]) THEN li[i][k + 1] ELSE NoLine
      OBVIOUS
    <3> HIDE DEF h
    <3> QED BY <1>1, <2>1, <2>3, <3>2, <3>3, <3>4, <3>5 DEF after
  <2> QED BY <2>2, <2>3
<1>3. Equation(h)
  <2> DEFINE g == [k \in 0 .. M |-> [i \in Sets |-> IF k = 0 THEN cache[i].head ELSE after(h[k - 1][i])]]
  <2>1. ASSUME NEW k \in 0 .. M PROVE h[k] = g[k]
    <3>1. h[k] = [i \in Sets |-> h[k][i]] /\ g[k] = [i \in Sets |-> g[k][i]]
      BY DEF h
    <3>2. \A i \in Sets : h[k][i] = g[k][i]
      BY <1>2
    <3> HIDE DEF h, g
    <3> QED BY <3>1, <3>2
  <2>2. h = [k \in 0 .. M |-> h[k]] /\ g = [k \in 0 .. M |-> g[k]]
    OBVIOUS
  <2>3. h = g
    <3> HIDE DEF h, g
    <3> QED BY <2>1, <2>2
  <2> QED BY <2>3
<1>4. Equation(Walk)
  <2>1. Walk = CHOOSE f : Equation(f)
    BY DEF Walk
  <2> HIDE DEF Equation, h
  <2> QED BY <1>3, <2>1
<1>5. \A k \in 0 .. M : Walk[k] = h[k]
  <2> DEFINE D == {k \in 0 .. M : Walk[k] # h[k]}
  <2> SUFFICES ASSUME D # {} PROVE FALSE
    OBVIOUS
  <2>1. PICK k \in D : \A j \in D : ~ (<<j, k>> \in OpToRel(<, Nat))
    <3>1. D \in SUBSET Nat
      BY <1>1
    <3> HIDE DEF D
    <3> QED BY <3>1, NatLessThanWellFounded, WFMin
  <2>2. k \in 0 .. M /\ Walk[k] # h[k]
    OBVIOUS
  <2>3. Walk[k] = [i \in Sets |-> IF k = 0 THEN cache[i].head ELSE after(Walk[k - 1][i])]
    <3> HIDE DEF h, D
    <3> QED BY <1>4, <2>2
  <2>4. h[k] = [i \in Sets |-> IF k = 0 THEN cache[i].head ELSE after(h[k - 1][i])]
    <3> HIDE DEF h, D
    <3> QED BY <1>3, <2>2
  <2>5. k # 0 /\ k - 1 \in 0 .. M /\ Walk[k - 1] # h[k - 1]
    <3> HIDE DEF h, D
    <3> QED BY <1>1, <2>2, <2>3, <2>4
  <2>6. <<k - 1, k>> \in Nat \X Nat /\ <<k - 1, k>>[1] < <<k - 1, k>>[2]
    BY <1>1, <2>2, <2>5
  <2> QED BY <2>1, <2>5, <2>6 DEF OpToRel
<1> QED BY <1>5

LEMMA ListIs == \A li : Chains(li) => \A i \in Sets : List(i) = li[i]
<1> SUFFICES ASSUME NEW li, Chains(li), NEW i \in Sets PROVE List(i) = li[i]
  OBVIOUS
<1>1. li[i] \in Seq(Lines) /\ Len(li[i]) \in Nat
  BY DEF Chains
<1>2. Len(li[i]) <= Cardinality(Lines) /\ Cardinality(Lines) \in Nat
  BY <1>1, ListFits DEF Chains, Chain
<1>3. \A n \in 1 .. Cardinality(Lines) : n - 1 \in 0 .. Cardinality(Lines) /\ (n - 1) + 1 = n
  BY <1>2
<1>4. \A n \in 1 .. Cardinality(Lines) : Walk[n - 1][i] = IF n <= Len(li[i]) THEN li[i][n] ELSE NoLine
  <2> TAKE n \in 1 .. Cardinality(Lines)
  <2>1. Walk[n - 1][i] = IF n - 1 < Len(li[i]) THEN li[i][(n - 1) + 1] ELSE NoLine
    BY <1>3, WalkIs
  <2> QED BY <1>1, <1>2, <1>3, <2>1
<1>5. \A n \in 1 .. Len(li[i]) : li[i][n] \in Lines /\ li[i][n] # NoLine
  BY <1>1, Memory
<1>6. {n \in 1 .. Cardinality(Lines) : Walk[n - 1][i] # NoLine} = 1 .. Len(li[i])
  BY <1>1, <1>2, <1>4, <1>5
<1>7. List(i) = [k \in 1 .. Len(li[i]) |-> Walk[k - 1][i]]
  BY <1>6 DEF List
<1>8. \A k \in 1 .. Len(li[i]) : Walk[k - 1][i] = li[i][k]
  BY <1>1, <1>2, <1>4
<1>9. li[i] = [k \in 1 .. Len(li[i]) |-> li[i][k]]
  BY <1>1
<1> QED BY <1>7, <1>8, <1>9

LEMMA ListIsNext == (\A li : Chains(li) => \A i \in Sets : List(i) = li[i])'
BY ListIs, PTL

----------------------------------------------------------------------------
(* What search_cache does to a list                                        *)

LEMMA HeldIs == \A s : \A p : p \in Held(s) <=> \E k \in 1 .. Len(s) : s[k] = p
BY DEF Held

(* The lists of the other sets stay as they are.                           *)
LEMMA OneSetChanges ==
    ASSUME NEW li, Chains(li), NEW i \in Sets, NEW s \in Seq(Lines), Chain(i, s)', E' = E,
           \A j \in Sets \ {i} : cache'[j] = cache[j],
           \A p \in Lines : p \notin Held(li[i]) /\ p \notin Held(s) => line'[p] = line[p],
           \A p \in Held(li[i]) : p \notin Held(s) => line'[p] = Unallocated,
           \A p \in Held(s) : p \in Held(li[i]) \/ line[p] = Unallocated
    PROVE  Chains([li EXCEPT ![i] = s])'
<1> DEFINE m == [li EXCEPT ![i] = s]
<1>1. m \in [Sets -> Seq(Lines)] /\ m[i] = s /\ \A j \in Sets \ {i} : m[j] = li[j]
  BY DEF Chains
<1>2. ASSUME NEW j \in Sets \ {i}, NEW p \in Held(li[j])
      PROVE  p \in Lines /\ line[p] # Unallocated /\ p \notin Held(li[i]) /\ p \notin Held(s)
             /\ line'[p] = line[p]
  <2>1. p \in Lines
    BY <1>2 DEF Chains, Held
  <2>2. line[p] # Unallocated /\ p \notin Held(li[i])
    BY <2>1 DEF Chains
  <2> QED BY <2>1, <2>2
<1>3. ASSUME NEW j \in Sets \ {i} PROVE Chain(j, li[j])'
  <2>1. Chain(j, li[j]) /\ cache'[j] = cache[j] /\ Ways' = Ways
    BY DEF Chains, Ways
  <2>2. \A k \in 1 .. Len(li[j]) : line'[li[j][k]] = line[li[j][k]]
    BY <1>2, HeldIs
  <2>3. \A k \in 1 .. Len(li[j]) : /\ line'[li[j][k]].v = 1
                                   /\ line'[li[j][k]].next = IF k < Len(li[j]) THEN li[j][k + 1] ELSE NoLine
    <3>1. \A k \in 1 .. Len(li[j]) : /\ line[li[j][k]].v = 1
                                     /\ line[li[j][k]].next = IF k < Len(li[j]) THEN li[j][k + 1] ELSE NoLine
      BY <2>1 DEF Chain
    <3> QED BY <2>2, <3>1
  <2>4. \A k, u \in 1 .. Len(li[j]) : li[j][k] = li[j][u] \/ line'[li[j][k]].tag = line'[li[j][u]].tag => k = u
    BY <2>1, <2>2 DEF Chain
  <2>5. /\ li[j] \in Seq(Lines) /\ Len(li[j]) <= Ways' /\ cache'[j].cnt = Len(li[j])
        /\ cache'[j].head = IF Len(li[j]) = 0 THEN NoLine ELSE li[j][1]
        /\ Len(li[j]) > 0 => cache'[j].tail = li[j][Len(li[j])]
    BY <2>1 DEF Chain
  <2> QED BY <2>3, <2>4, <2>5 DEF Chain
<1>4. \A j \in Sets : Chain(j, m[j])'
  BY <1>1, <1>3
<1>5. \A j, k \in Sets : j # k => Held(m[j]) \cap Held(m[k]) = {}
  BY <1>1, <1>2 DEF Chains
<1>6. ASSUME NEW p \in Lines PROVE line'[p] # Unallocated <=> \E j \in Sets : p \in Held(m[j])
  <2>1. CASE p \in Held(s)
    <3>1. line'[p].v = 1
      BY <2>1, HeldIs DEF Chain
    <3>2. line'[p] # Unallocated
      BY <3>1 DEF Unallocated
    <3> QED BY <1>1, <2>1, <3>2
  <2>2. CASE p \notin Held(s) /\ p \in Held(li[i])
    <3>1. \A j \in Sets \ {i} : p \notin Held(m[j])
      BY <1>1, <1>2, <2>2
    <3> QED BY <1>1, <2>2, <3>1
  <2>3. CASE p \notin Held(s) /\ p \notin Held(li[i])
    <3>1. line'[p] = line[p] /\ (line[p] # Unallocated <=> \E j \in Sets : p \in Held(li[j]))
      BY <2>3 DEF Chains
    <3> QED BY <1>1, <2>3, <3>1
  <2> QED BY <2>1, <2>2, <2>3
<1> HIDE DEF m
<1>7. Chains(m)'
  BY <1>1, <1>4, <1>5, <1>6 DEF Chains, Unallocated
<1> QED BY <1>7 DEF m

(* The cases of move_node_to_tail.                                         *)
LEMMA MoveNode ==
    ASSUME NEW set, NEW prev, NEW new, prev # NoLine, line[prev].next = new
    PROVE  /\ line[new].next = NoLine => move_node_to_tail(set, prev) = <<line, set>>
           /\ line[new].next # NoLine => move_node_to_tail(set, prev) =
                <<[line EXCEPT ![prev].next = line[new].next, ![set.tail].next = new, ![new].next = NoLine],
                  [set EXCEPT !.tail = new]>>
BY DEF move_node_to_tail

(* A store to a next pointer.                                              *)
LineArray == [Lines -> [v : {-1, 1}, tag : Tags, next : Lines \cup {NoLine}]]
LEMMA NextStored ==
    ASSUME NEW l \in LineArray, NEW p \in Lines, NEW q \in Lines \cup {NoLine}
    PROVE  /\ [l EXCEPT ![p].next = q] \in LineArray
           /\ \A u \in Lines : /\ [l EXCEPT ![p].next = q][u].tag = l[u].tag
                               /\ [l EXCEPT ![p].next = q][u].v = l[u].v
                               /\ [l EXCEPT ![p].next = q][u].next = IF u = p THEN q ELSE l[u].next
BY DEF LineArray

(* A hit: the line found is taken out and linked after the last.           *)
LEMMA HitMoves ==
    ASSUME CTypes, NEW li, Chains(li), NEW i \in Sets, NEW k \in 1 .. Len(li[i]), E' = E,
           Hits(i, List(i), k)
    PROVE  /\ Chains([li EXCEPT ![i] = Append(RemoveAt(@, k), @[k])])'
           /\ line' \in [Lines -> [v : {-1, 1}, tag : Tags, next : Lines \cup {NoLine}]]
           /\ cache' \in [Sets -> [cnt : Int, head : Lines \cup {NoLine}, tail : Lines \cup {NoLine}]]
           /\ \A p \in Lines : line'[p].tag = line[p].tag /\ line'[p].v = line[p].v
           /\ count' = [count EXCEPT !.hit = @ + 1]
           /\ Held(Append(RemoveAt(li[i], k), li[i][k])) = Held(li[i])
<1> DEFINE s == li[i]
           n == Len(s)
           set == cache[i]
           r == Append(RemoveAt(s, k), s[k])
           moved == move_node_to_tail(set, IF k = 1 THEN NoLine ELSE s[k - 1])
<1>1. /\ s \in Seq(Lines) /\ n \in Nat /\ k \in 1 .. n /\ \A j \in 1 .. n : s[j] \in Lines /\ s[j] # NoLine
      /\ Chain(i, s) /\ List(i) = s
  BY ListIs, Memory DEF Chains
<1>2. line' = moved[1] /\ cache' = [cache EXCEPT ![i] = moved[2]] /\ count' = [count EXCEPT !.hit = @ + 1]
  BY <1>1 DEF Hits
<1>3. /\ r \in Seq(Lines) /\ Len(r) = n
      /\ \A j \in 1 .. n : r[j] = IF j < k THEN s[j] ELSE IF j < n THEN s[j + 1] ELSE s[k]
  BY <1>1, Moved
<1>4. /\ n <= Ways /\ set.cnt = n /\ set.head = s[1] /\ set.tail = s[n]
      /\ \A j \in 1 .. n : line[s[j]].v = 1 /\ line[s[j]].next = IF j < n THEN s[j + 1] ELSE NoLine
      /\ \A j, m \in 1 .. n : s[j] = s[m] \/ line[s[j]].tag = line[s[m]].tag => j = m
  BY <1>1 DEF Chain
<1>5. /\ line \in [Lines -> [v : {-1, 1}, tag : Tags, next : Lines \cup {NoLine}]]
      /\ cache \in [Sets -> [cnt : Int, head : Lines \cup {NoLine}, tail : Lines \cup {NoLine}]]
  BY DEF CTypes
<1> HIDE DEF s, r, n
\* What the assignments to the pointers come to.
<1>6. /\ line' \in [Lines -> [v : {-1, 1}, tag : Tags, next : Lines \cup {NoLine}]]
      /\ \A p \in Lines :
           /\ line'[p].tag = line[p].tag /\ line'[p].v = line[p].v
           /\ line'[p].next = IF k = n THEN (IF p = s[n] THEN NoLine ELSE line[p].next)
                              ELSE IF p = s[k] THEN NoLine
                              ELSE IF p = s[n] THEN s[k]
                              ELSE IF k > 1 /\ p = s[k - 1] THEN s[k + 1] ELSE line[p].next
      /\ cache' \in [Sets -> [cnt : Int, head : Lines \cup {NoLine}, tail : Lines \cup {NoLine}]]
      /\ \A j \in Sets \ {i} : cache'[j] = cache[j]
      /\ cache'[i].cnt = n /\ cache'[i].tail = s[k]
      /\ cache'[i].head = IF k = 1 /\ n > 1 THEN s[2] ELSE s[1]
  <2>1. CASE k = 1
    <3> DEFINE second == line[s[1]].next
    <3>1. second = IF n = 1 THEN NoLine ELSE s[2]
      BY <1>1, <1>4, <2>1
    <3>2. moved = <<[[line EXCEPT ![s[n]].next = s[1]] EXCEPT ![s[1]].next = NoLine],
                    [set EXCEPT !.head = IF second = NoLine THEN s[1] ELSE second, !.tail = s[1]]>>
      BY <1>4, <2>1 DEF move_node_to_tail
    <3> HIDE DEF moved, set
    <3>3. (IF second = NoLine THEN s[1] ELSE second) = IF n > 1 THEN s[2] ELSE s[1]
      BY <1>1, <3>1
    <3>4. line' = [[line EXCEPT ![s[n]].next = s[1]] EXCEPT ![s[1]].next = NoLine]
      BY <1>2, <3>2
    <3>5. cache' = [cache EXCEPT ![i] = [set EXCEPT !.head = IF n > 1 THEN s[2] ELSE s[1], !.tail = s[1]]]
      BY <1>2, <3>2, <3>3
    <3>6. s[1] \in Lines /\ s[n] \in Lines /\ (n > 1 => s[2] \in Lines /\ s[n] # s[1]) /\ 1 \in 1 .. n
      BY <1>1, <1>4
    <3>7. set \in [cnt : Int, head : Lines \cup {NoLine}, tail : Lines \cup {NoLine}]
      BY <1>5 DEF set
    <3> HIDE DEF second
    <3>8. /\ line' \in [Lines -> [v : {-1, 1}, tag : Tags, next : Lines \cup {NoLine}]]
          /\ \A p \in Lines :
               /\ line'[p].tag = line[p].tag /\ line'[p].v = line[p].v
               /\ line'[p].next = IF p = s[1] THEN NoLine ELSE IF p = s[n] THEN s[1] ELSE line[p].next
      <4> DEFINE l1 == [line EXCEPT ![s[n]].next = s[1]]
                 l2 == [l1 EXCEPT ![s[1]].next = NoLine]
      <4>1. line \in LineArray /\ line' = l2
        BY <1>5, <3>4 DEF LineArray
      <4>2. /\ l1 \in LineArray
            /\ \A p \in Lines : /\ l1[p].tag = line[p].tag /\ l1[p].v = line[p].v
                                /\ l1[p].next = IF p = s[n] THEN s[1] ELSE line[p].next
        <5>1. line \in LineArray /\ s[n] \in Lines /\ s[1] \in Lines
          BY <3>6, <4>1
        <5> QED BY <5>1, NextStored
      <4> HIDE DEF l1
      <4>3. /\ l2 \in LineArray
            /\ \A p \in Lines : /\ l2[p].tag = l1[p].tag /\ l2[p].v = l1[p].v
                                /\ l2[p].next = IF p = s[1] THEN NoLine ELSE l1[p].next
        <5>1. l1 \in LineArray /\ s[1] \in Lines
          BY <3>6, <4>2
        <5> QED BY <5>1, NextStored
      <4> HIDE DEF l2
      <4> QED BY <4>1, <4>2, <4>3 DEF LineArray
    <3>9. /\ cache' \in [Sets -> [cnt : Int, head : Lines \cup {NoLine}, tail : Lines \cup {NoLine}]]
          /\ \A j \in Sets \ {i} : cache'[j] = cache[j]
          /\ cache'[i].cnt = n /\ cache'[i].tail = s[1]
          /\ cache'[i].head = IF n > 1 THEN s[2] ELSE s[1]
      BY <1>1, <1>4, <1>5, <3>5, <3>6, <3>7
    <3> QED BY <1>1, <2>1, <3>6, <3>8, <3>9
  <2>2. CASE k > 1 /\ k = n
    <3>1. s[k - 1] # NoLine /\ line[s[k - 1]].next = s[k] /\ line[s[k]].next = NoLine
      BY <1>1, <1>4, <2>2
    <3>2. moved = <<line, set>>
      <4>1. moved = move_node_to_tail(set, s[k - 1])
        BY <2>2
      <4> QED BY <3>1, <4>1, MoveNode
    <3> HIDE DEF moved
    <3>3. line' = line /\ cache' = cache
      BY <1>2, <1>5, <3>2
    <3> QED BY <1>1, <1>4, <1>5, <2>2, <3>1, <3>3
  <2>3. CASE k > 1 /\ k < n
    <3>1. /\ s[k - 1] # NoLine /\ line[s[k - 1]].next = s[k] /\ line[s[k]].next = s[k + 1] /\ s[k + 1] # NoLine
          /\ s[k - 1] \in Lines /\ s[k] \in Lines /\ s[k + 1] \in Lines /\ s[n] \in Lines
          /\ s[k - 1] # s[k] /\ s[n] # s[k] /\ s[k - 1] # s[n]
      <4>1. /\ k - 1 \in 1 .. n /\ k + 1 \in 1 .. n /\ n \in 1 .. n /\ k - 1 < n /\ (k - 1) + 1 = k
            /\ k - 1 # k /\ n # k /\ k - 1 # n
        BY <1>1, <2>3
      <4>2. line[s[k - 1]].next = s[k] /\ line[s[k]].next = s[k + 1]
        BY <1>1, <1>4, <2>3, <4>1
      <4>3. s[k - 1] # s[k] /\ s[n] # s[k] /\ s[k - 1] # s[n]
        BY <1>1, <1>4, <4>1
      <4> QED BY <1>1, <4>1, <4>2, <4>3
    <3>2. moved = <<[line EXCEPT ![s[k - 1]].next = s[k + 1], ![s[n]].next = s[k], ![s[k]].next = NoLine],
                    [set EXCEPT !.tail = s[k]]>>
      <4>1. moved = move_node_to_tail(set, s[k - 1])
        BY <2>3
      <4>2. move_node_to_tail(set, s[k - 1]) =
              <<[line EXCEPT ![s[k - 1]].next = line[s[k]].next, ![set.tail].next = s[k], ![s[k]].next = NoLine],
                [set EXCEPT !.tail = s[k]]>>
        <5>1. s[k - 1] # NoLine /\ line[s[k - 1]].next = s[k] /\ line[s[k]].next # NoLine
          BY <3>1
        <5> HIDE DEF set
        <5> QED BY <5>1, MoveNode
      <4>3. line[s[k]].next = s[k + 1] /\ set.tail = s[n]
        BY <1>4, <3>1
      <4> HIDE DEF moved, set
      <4> QED BY <4>1, <4>2, <4>3
    <3> HIDE DEF moved, set
    <3>3. line' = [line EXCEPT ![s[k - 1]].next = s[k + 1], ![s[n]].next = s[k], ![s[k]].next = NoLine]
      BY <1>2, <3>2
    <3>4. cache' = [cache EXCEPT ![i] = [set EXCEPT !.tail = s[k]]]
      BY <1>2, <3>2
    <3>5. set \in [cnt : Int, head : Lines \cup {NoLine}, tail : Lines \cup {NoLine}]
      BY <1>5 DEF set
    <3>6. /\ line' \in [Lines -> [v : {-1, 1}, tag : Tags, next : Lines \cup {NoLine}]]
          /\ \A p \in Lines :
               /\ line'[p].tag = line[p].tag /\ line'[p].v = line[p].v
               /\ line'[p].next = IF p = s[k] THEN NoLine ELSE IF p = s[n] THEN s[k]
                                  ELSE IF p = s[k - 1] THEN s[k + 1] ELSE line[p].next
      <4> DEFINE l1 == [line EXCEPT ![s[k - 1]].next = s[k + 1]]
                 l2 == [l1 EXCEPT ![s[n]].next = s[k]]
                 l3 == [l2 EXCEPT ![s[k]].next = NoLine]
      <4>1. line' = l3
        BY <3>3
      <4>2. /\ l1 \in LineArray
            /\ \A p \in Lines : /\ l1[p].tag = line[p].tag /\ l1[p].v = line[p].v
                                /\ l1[p].next = IF p = s[k - 1] THEN s[k + 1] ELSE line[p].next
        <5>1. line \in LineArray
          BY <1>5 DEF LineArray
        <5> QED BY <3>1, <5>1, NextStored
      <4> HIDE DEF l1
      <4>3. /\ l2 \in LineArray
            /\ \A p \in Lines : /\ l2[p].tag = l1[p].tag /\ l2[p].v = l1[p].v
                                /\ l2[p].next = IF p = s[n] THEN s[k] ELSE l1[p].next
        BY <3>1, <4>2, NextStored
      <4> HIDE DEF l2
      <4>4. /\ l3 \in LineArray
            /\ \A p \in Lines : /\ l3[p].tag = l2[p].tag /\ l3[p].v = l2[p].v
                                /\ l3[p].next = IF p = s[k] THEN NoLine ELSE l2[p].next
        <5>1. l2 \in LineArray /\ s[k] \in Lines
          BY <3>1, <4>3
        <5> QED BY <5>1, NextStored
      <4> HIDE DEF l3
      <4> QED BY <4>1, <4>2, <4>3, <4>4 DEF LineArray
    <3>7. /\ cache' \in [Sets -> [cnt : Int, head : Lines \cup {NoLine}, tail : Lines \cup {NoLine}]]
          /\ \A j \in Sets \ {i} : cache'[j] = cache[j]
          /\ cache'[i].cnt = n /\ cache'[i].tail = s[k] /\ cache'[i].head = s[1]
      BY <1>1, <1>4, <1>5, <3>1, <3>4, <3>5
    <3> QED BY <1>1, <2>3, <3>1, <3>6, <3>7
  <2> QED BY <1>1, <2>1, <2>2, <2>3
<1>7. Held(r) = Held(s)
  <2>1. \A j \in 1 .. n : \E m \in 1 .. n : r[j] = s[m]
    BY <1>1, <1>3
  <2>2. ASSUME NEW j \in 1 .. n PROVE \E m \in 1 .. n : s[j] = r[m]
    <3>1. CASE j < k
      BY <1>1, <1>3, <3>1
    <3>2. CASE j = k
      BY <1>1, <1>3, <3>2
    <3>3. CASE j > k
      <4>1. j - 1 \in 1 .. n /\ ~ (j - 1 < k) /\ j - 1 < n /\ (j - 1) + 1 = j
        BY <1>1, <3>3
      <4> QED BY <1>3, <4>1
    <3> QED BY <1>1, <3>1, <3>2, <3>3
  <2>3. \A p : p \in Held(r) <=> p \in Held(s)
    <3> TAKE p
    <3>1. p \in Held(r) <=> \E j \in 1 .. n : r[j] = p
      BY <1>3 DEF Held
    <3>2. p \in Held(s) <=> \E j \in 1 .. n : s[j] = p
      BY DEF Held, n
    <3> QED BY <2>1, <2>2, <3>1, <3>2
  <2> QED BY <2>3
<1>8. \A j \in 1 .. n : /\ line'[r[j]].v = 1
                        /\ line'[r[j]].next = IF j < n THEN r[j + 1] ELSE NoLine
  <2> SUFFICES ASSUME NEW j \in 1 .. n
               PROVE  line'[r[j]].v = 1 /\ line'[r[j]].next = IF j < n THEN r[j + 1] ELSE NoLine
    OBVIOUS
  <2>1. \A m \in 1 .. n : /\ line'[s[m]].v = 1
                          /\ line'[s[m]].next = IF k = n THEN (IF m = n THEN NoLine ELSE s[m + 1])
                                                ELSE IF m = k THEN NoLine ELSE IF m = n THEN s[k]
                                                ELSE IF m = k - 1 THEN s[k + 1] ELSE s[m + 1]
    <3> TAKE m \in 1 .. n
    <3>1. s[m] \in Lines /\ (s[m] = s[n] <=> m = n) /\ (s[m] = s[k] <=> m = k)
      BY <1>1, <1>4
    <3>2. k > 1 => (s[m] = s[k - 1] <=> m = k - 1)
      BY <1>1, <1>4
    <3>3. line[s[m]].v = 1 /\ line[s[m]].next = IF m < n THEN s[m + 1] ELSE NoLine
      BY <1>4
    <3> QED BY <1>1, <1>6, <3>1, <3>2, <3>3
  <2>2. CASE j < k - 1
    <3>1. r[j] = s[j] /\ r[j + 1] = s[j + 1]
      BY <1>1, <1>3, <2>2
    <3> QED BY <1>1, <2>1, <2>2, <3>1
  <2>3. CASE j = k - 1
    <3>1. r[j] = s[j] /\ r[k] = IF k < n THEN s[k + 1] ELSE s[k]
      BY <1>1, <1>3, <2>3
    <3>2. j + 1 = k /\ j < n /\ j # k /\ j # n
      BY <1>1, <2>3
    <3>3. line'[s[j]].v = 1 /\ line'[s[j]].next = IF k = n THEN s[j + 1] ELSE s[k + 1]
      BY <2>1, <2>3, <3>2
    <3> QED BY <1>1, <3>1, <3>2, <3>3
  <2>4. CASE j >= k /\ j < n
    <3>0. /\ j + 1 \in 1 .. n /\ ~ (j < k) /\ ~ (j + 1 < k) /\ (j + 1) + 1 = j + 2
          /\ k # n /\ j + 1 # k /\ j + 1 # k - 1
      BY <1>1, <2>4
    <3>1. r[j] = s[j + 1] /\ r[j + 1] = IF j + 1 < n THEN s[j + 2] ELSE s[k]
      BY <1>3, <2>4, <3>0
    <3>2. line'[s[j + 1]].v = 1 /\ line'[s[j + 1]].next = IF j + 1 = n THEN s[k] ELSE s[j + 2]
      BY <2>1, <3>0
    <3> QED BY <1>1, <2>4, <3>0, <3>1, <3>2
  <2>5. CASE j = n /\ j >= k
    <3>1. r[j] = s[k]
      BY <1>1, <1>3, <2>5
    <3> QED BY <1>1, <2>1, <2>5, <3>1
  <2> QED BY <1>1, <2>2, <2>3, <2>4, <2>5
<1>9. \A j, m \in 1 .. n : r[j] = r[m] \/ line'[r[j]].tag = line'[r[m]].tag => j = m
  <2> DEFINE from(j) == IF j < k THEN j ELSE IF j < n THEN j + 1 ELSE k
  <2>1. \A j \in 1 .. n : from(j) \in 1 .. n /\ r[j] = s[from(j)] /\ line'[r[j]].tag = line[s[from(j)]].tag
    BY <1>1, <1>3, <1>6
  <2>2. \A j, m \in 1 .. n : from(j) = from(m) => j = m
    BY <1>1
  <2> HIDE DEF from
  <2> QED BY <1>4, <2>1, <2>2
<1>10. Chain(i, r)'
  <2>1. Ways' = Ways
    BY DEF Ways
  <2>2. n > 0 /\ r[n] = s[k] /\ r[1] = IF k = 1 /\ n > 1 THEN s[2] ELSE s[1]
    BY <1>1, <1>3
  <2> QED BY <1>1, <1>3, <1>4, <1>6, <1>8, <1>9, <2>1, <2>2 DEF Chain
<1>11. \A p \in Lines : p \notin Held(s) => line'[p] = line[p]
  <2> TAKE p \in Lines
  <2> HAVE p \notin Held(s)
  <2>1. \A j \in 1 .. n : s[j] # p
    BY DEF Held, n
  <2>2. line'[p].tag = line[p].tag /\ line'[p].v = line[p].v /\ line'[p].next = line[p].next
    BY <1>1, <1>6, <2>1
  <2>3. line[p] \in [v : {-1, 1}, tag : Tags, next : Lines \cup {NoLine}]
        /\ line'[p] \in [v : {-1, 1}, tag : Tags, next : Lines \cup {NoLine}]
    BY <1>5, <1>6
  <2> QED BY <2>2, <2>3
<1>12. Chains([li EXCEPT ![i] = r])'
  <2>1. \A p \in Lines : p \notin Held(li[i]) /\ p \notin Held(r) => line'[p] = line[p]
    BY <1>11 DEF s
  <2>2. Held(li[i]) = Held(r)
    BY <1>7 DEF s
  <2> QED BY <1>3, <1>6, <1>10, <2>1, <2>2, OneSetChanges
<1>13. [li EXCEPT ![i] = r] = [li EXCEPT ![i] = Append(RemoveAt(@, k), @[k])]
  BY DEF r, s
<1> QED BY <1>2, <1>6, <1>7, <1>12, <1>13 DEF r, s

(* A miss: the line of the new tag comes last, and the first is dropped if *)
(* there are more than E.                                                  *)
Missed(li, i, tag, p) ==
    /\ line[p] = Unallocated /\ tag \notin {line[li[i][k]].tag : k \in 1 .. Len(li[i])}
    /\ line' \in LineArray
    /\ cache' \in [Sets -> [cnt : Int, head : Lines \cup {NoLine}, tail : Lines \cup {NoLine}]]
    /\ \A q \in Lines : line'[q] # Unallocated => line'[q].tag = IF q = p THEN tag ELSE line[q].tag
    /\ IF E <= Len(li[i])
       THEN /\ \E m : m = [li EXCEPT ![i] = Tail(Append(@, p))] /\ Chains(m)'
            /\ count' = [count EXCEPT !.miss = @ + 1, !.eviction = @ + 1]
            /\ Allocated' = (Allocated \cup {p}) \ {Append(li[i], p)[1]}
       ELSE /\ \E m : m = [li EXCEPT ![i] = Append(@, p)] /\ Chains(m)'
            /\ count' = [count EXCEPT !.miss = @ + 1]
            /\ Allocated' = Allocated \cup {p}

LEMMA MissAdds ==
    ASSUME CTypes, NEW li, Chains(li), NEW i \in Sets, NEW tag \in Tags, E' = E,
           Found(List(i), tag) = {}, Misses(i, tag)
    PROVE  \E p \in Lines : Missed(li, i, tag, p)
<1> DEFINE s == li[i]
           n == Len(s)
           set == cache[i]
           new == [v |-> 1, tag |-> tag, next |-> NoLine]
<1>1. /\ s \in Seq(Lines) /\ n \in Nat /\ \A j \in 1 .. n : s[j] \in Lines /\ s[j] # NoLine
      /\ Chain(i, s) /\ List(i) = s
  BY ListIs, Memory DEF Chains
<1>2. PICK p \in Lines \ Allocated :
        LET added == add_tail(p, set, tag)
            rest == rmv_head(added[1], added[2])
        IN IF E < added[2].cnt
           THEN /\ line' = rest[1] /\ cache' = [cache EXCEPT ![i] = rest[2]]
                /\ count' = [count EXCEPT !.miss = @ + 1, !.eviction = @ + 1]
           ELSE /\ line' = added[1] /\ cache' = [cache EXCEPT ![i] = added[2]]
                /\ count' = [count EXCEPT !.miss = @ + 1]
  BY DEF Misses
<1> DEFINE added == add_tail(p, set, tag)
           rest == rmv_head(added[1], added[2])
<1>3. p \in Lines /\ p # NoLine /\ line[p] = Unallocated
  BY Memory DEF Allocated
<1>4. \A j \in 1 .. n : s[j] # p /\ line[s[j]] # Unallocated
  <2>1. \A j \in 1 .. n : s[j] \in Held(li[i])
    BY DEF Held
  <2> QED BY <1>1, <1>3, <2>1 DEF Chains
<1>5. tag \notin {line[s[k]].tag : k \in 1 .. n}
  <2> DEFINE D == {k \in 1 .. n : line[s[k]].tag = tag}
  <2> SUFFICES ASSUME D # {} PROVE FALSE
    OBVIOUS
  <2>1. PICK k \in D : \A j \in D : ~ (<<j, k>> \in OpToRel(<, Nat))
    <3>1. D \in SUBSET Nat
      BY <1>1
    <3> HIDE DEF D
    <3> QED BY <3>1, NatLessThanWellFounded, WFMin
  <2>2. ASSUME NEW j \in 1 .. k - 1 PROVE line[s[j]].tag # tag
    <3>1. j \in 1 .. n /\ <<j, k>> \in Nat \X Nat /\ <<j, k>>[1] < <<j, k>>[2]
      BY <1>1
    <3>2. j \notin D
      BY <2>1, <3>1 DEF OpToRel
    <3> QED BY <3>1, <3>2
  <2>3. DOMAIN List(i) = 1 .. n
    BY <1>1
  <2>4. k \in Found(List(i), tag)
    BY <1>1, <2>2, <2>3 DEF Found
  <2> QED BY <2>4
<1>6. /\ n <= Ways /\ set.cnt = n /\ set.head = (IF n = 0 THEN NoLine ELSE s[1]) /\ (n > 0 => set.tail = s[n])
      /\ \A j \in 1 .. n : line[s[j]].v = 1 /\ line[s[j]].next = IF j < n THEN s[j + 1] ELSE NoLine
      /\ \A j, m \in 1 .. n : s[j] = s[m] \/ line[s[j]].tag = line[s[m]].tag => j = m
  BY <1>1 DEF Chain
<1>7. /\ line \in LineArray /\ E \in Int
      /\ cache \in [Sets -> [cnt : Int, head : Lines \cup {NoLine}, tail : Lines \cup {NoLine}]]
      /\ set \in [cnt : Int, head : Lines \cup {NoLine}, tail : Lines \cup {NoLine}]
  BY CSimAssumption DEF CTypes, LineArray
\* What add_tail does.
<1>8. /\ added[1] \in LineArray /\ added[1][p] = new
      /\ \A q \in Lines \ {p} : added[1][q] = IF n > 0 /\ q = s[n] THEN [line[q] EXCEPT !.next = p] ELSE line[q]
      /\ added[2] = [cnt |-> n + 1, head |-> IF n = 0 THEN p ELSE s[1], tail |-> p]
  <2>1. new \in [v : {-1, 1}, tag : Tags, next : Lines \cup {NoLine}]
    OBVIOUS
  <2>2. CASE n = 0
    <3>1. added = <<[line EXCEPT ![p] = new], [cnt |-> set.cnt + 1, head |-> p, tail |-> p]>>
      BY <1>6, <2>2 DEF add_tail
    <3> HIDE DEF set, new, added
    <3> QED BY <1>3, <1>6, <1>7, <2>1, <2>2, <3>1 DEF LineArray
  <2>3. CASE n > 0
    <3>1. set.head # NoLine /\ set.head = s[1] /\ set.tail = s[n] /\ s[n] \in Lines /\ s[n] # p
      BY <1>1, <1>4, <1>6, <2>3
    <3>2. added = <<[line EXCEPT ![set.tail].next = p, ![p] = new], [set EXCEPT !.cnt = @ + 1, !.tail = p]>>
      BY <3>1 DEF add_tail
    <3> HIDE DEF set, new, added
    <3>3. added[1] = [[line EXCEPT ![s[n]].next = p] EXCEPT ![p] = new]
      BY <3>1, <3>2
    <3>4. added[2] = [cnt |-> n + 1, head |-> s[1], tail |-> p]
      BY <1>6, <1>7, <3>1, <3>2
    <3> DEFINE l == [line EXCEPT ![s[n]].next = p]
    <3>5. l \in LineArray /\ \A q \in Lines : l[q] = IF q = s[n] THEN [line[q] EXCEPT !.next = p] ELSE line[q]
      BY <1>3, <1>7, <3>1 DEF LineArray
    <3>6. added[1] = [l EXCEPT ![p] = new]
      BY <3>3
    <3> HIDE DEF l
    <3>7. /\ added[1] \in LineArray /\ added[1][p] = new
          /\ \A q \in Lines \ {p} : added[1][q] = l[q]
      BY <1>3, <2>1, <3>5, <3>6 DEF LineArray
    <3>8. n # 0
      BY <2>3
    <3>9. \A q \in Lines \ {p} : added[1][q] = IF n > 0 /\ q = s[n] THEN [line[q] EXCEPT !.next = p] ELSE line[q]
      BY <2>3, <3>5, <3>7
    <3> HIDE DEF n, s
    <3> QED BY <3>4, <3>7, <3>8, <3>9
  <2> QED BY <1>1, <2>2, <2>3
<1> HIDE DEF added
\* The list with p.
<1> DEFINE a == Append(s, p)
           l == added[1]
           addedSet == added[2]
<1>9. /\ a \in Seq(Lines) /\ Len(a) = n + 1 /\ \A j \in 1 .. n + 1 : a[j] = IF j <= n THEN s[j] ELSE p
      /\ Tail(a) \in Seq(Lines) /\ Len(Tail(a)) = n
      /\ \A j \in 1 .. n : Tail(a)[j] = IF j < n THEN s[j + 1] ELSE p
  BY <1>1, <1>3, Added
<1>10. /\ l \in LineArray /\ l[p] = new
       /\ \A q \in Lines \ {p} : l[q] = IF n > 0 /\ q = s[n] THEN [line[q] EXCEPT !.next = p] ELSE line[q]
       /\ addedSet = [cnt |-> n + 1, head |-> IF n = 0 THEN p ELSE s[1], tail |-> p]
  BY <1>8
<1>11. \A q \in Lines \ {p} : /\ l[q].v = line[q].v /\ l[q].tag = line[q].tag
                              /\ l[q].next = IF n > 0 /\ q = s[n] THEN p ELSE line[q].next
                              /\ (l[q] = Unallocated <=> line[q] = Unallocated)
  <2> TAKE q \in Lines \ {p}
  <2> HIDE DEF l, s, n
  <2>1. line[q] \in [v : {-1, 1}, tag : Tags, next : Lines \cup {NoLine}]
    BY <1>7 DEF LineArray
  <2>2. CASE n > 0 /\ q = s[n]
    <3>0. n \in 1 .. n
      BY <1>1, <2>2
    <3>1. l[q] = [line[q] EXCEPT !.next = p] /\ n \in 1 .. n
      BY <1>10, <2>2, <3>0
    <3>2. line[q].v = 1
      BY <1>6, <2>2, <3>1
    <3> QED BY <2>1, <2>2, <3>1, <3>2 DEF Unallocated
  <2>3. CASE ~ (n > 0 /\ q = s[n])
    BY <1>10, <2>3
  <2> QED BY <2>2, <2>3
<1> HIDE DEF l, a, n, s, addedSet
<1>12. /\ a[1] = addedSet.head /\ a[n + 1] = p /\ addedSet.tail = p /\ addedSet.cnt = n + 1
       /\ a[1] \in Lines /\ 1 \in 1 .. n + 1
  BY <1>1, <1>3, <1>9, <1>10
<1>13. \A j \in 1 .. n + 1 : /\ a[j] \in Lines /\ l[a[j]].v = 1 /\ l[a[j]] # Unallocated
                             /\ l[a[j]].next = IF j < n + 1 THEN a[j + 1] ELSE NoLine
                             /\ l[a[j]].tag = IF j <= n THEN line[s[j]].tag ELSE tag
  <2> TAKE j \in 1 .. n + 1
  <2>1. CASE j <= n
    <3>1. j \in 1 .. n /\ a[j] = s[j] /\ s[j] \in Lines \ {p} /\ (s[j] = s[n] <=> j = n) /\ n > 0
      <4>1. j \in 1 .. n /\ n > 0 /\ n \in 1 .. n
        BY <1>1, <2>1
      <4>2. a[j] = s[j]
        BY <1>1, <1>9, <2>1
      <4>3. s[j] \in Lines \ {p}
        BY <1>1, <1>4, <1>6, <4>1
      <4>4. s[j] = s[n] <=> j = n
        BY <1>1, <1>6, <4>1
      <4> QED BY <4>1, <4>2, <4>3, <4>4
    <3>2. a[j + 1] = IF j < n THEN s[j + 1] ELSE p
      BY <1>1, <1>9, <2>1
    <3>3. line[s[j]].v = 1 /\ line[s[j]].next = IF j < n THEN s[j + 1] ELSE NoLine
      BY <1>6, <3>1
    <3>4. l[s[j]].v = 1 /\ l[s[j]].tag = line[s[j]].tag /\ l[s[j]].next = IF j = n THEN p ELSE line[s[j]].next
      BY <1>11, <3>1, <3>3
    <3> QED BY <1>1, <2>1, <3>1, <3>2, <3>3, <3>4 DEF Unallocated
  <2>2. CASE j = n + 1
    BY <1>1, <1>3, <1>9, <1>10, <2>2 DEF Unallocated
  <2> QED BY <1>1, <2>1, <2>2
<1>14. \A j, m \in 1 .. n + 1 : a[j] = a[m] \/ l[a[j]].tag = l[a[m]].tag => j = m
  <2>1. \A j, m \in 1 .. n + 1 : l[a[j]].tag = l[a[m]].tag => j = m
    <3> SUFFICES ASSUME NEW j \in 1 .. n + 1, NEW m \in 1 .. n + 1, l[a[j]].tag = l[a[m]].tag
                 PROVE  j = m
      OBVIOUS
    <3>1. CASE j <= n /\ m <= n
      <4>1. l[a[j]].tag = line[s[j]].tag /\ l[a[m]].tag = line[s[m]].tag
        BY <1>13, <3>1
      <4>2. line[s[j]].tag = line[s[m]].tag
        BY <4>1
      <4>3. j \in 1 .. n /\ m \in 1 .. n
        BY <1>1, <3>1
      <4> QED BY <1>6, <4>2, <4>3
    <3>2. CASE j <= n /\ m = n + 1
      BY <1>1, <1>5, <1>13, <3>2 DEF n, s
    <3>3. CASE j = n + 1 /\ m <= n
      BY <1>1, <1>5, <1>13, <3>3 DEF n, s
    <3> QED BY <1>1, <3>1, <3>2, <3>3
  <2> QED BY <2>1
<1>15. \A q : /\ q \in Held(s) <=> \E j \in 1 .. n : s[j] = q
              /\ q \in Held(a) <=> \E j \in 1 .. n + 1 : a[j] = q
              /\ q \in Held(Tail(a)) <=> \E j \in 1 .. n : Tail(a)[j] = q
  BY <1>9 DEF Held, n
<1>16. /\ tag \notin {line[li[i][k]].tag : k \in 1 .. Len(li[i])} /\ Ways' = Ways
  BY <1>5 DEF s, n, Ways
<1>17. CASE ~ (E < n + 1)
  <2>1. /\ line' = l /\ cache' = [cache EXCEPT ![i] = addedSet]
        /\ count' = [count EXCEPT !.miss = @ + 1]
    BY <1>2, <1>17, <1>12 DEF l, addedSet, added
  <2>2. n + 1 <= Ways
    BY <1>1, <1>7, <1>17 DEF Ways
  <2>3. /\ cache' \in [Sets -> [cnt : Int, head : Lines \cup {NoLine}, tail : Lines \cup {NoLine}]]
        /\ cache'[i] = addedSet /\ \A j \in Sets \ {i} : cache'[j] = cache[j]
    <3>1. addedSet \in [cnt : Int, head : Lines \cup {NoLine}, tail : Lines \cup {NoLine}]
      BY <1>1, <1>3, <1>10, <1>12
    <3> QED BY <1>7, <2>1, <3>1
  <2>4. Chain(i, a)'
    BY <1>1, <1>9, <1>12, <1>13, <1>14, <1>16, <2>1, <2>2, <2>3 DEF Chain
  <2>5. \A q \in Lines : q \notin Held(li[i]) /\ q \notin Held(a) => line'[q] = line[q]
    <3> TAKE q \in Lines
    <3> HAVE q \notin Held(li[i]) /\ q \notin Held(a)
    <3>1. q # p /\ ~ (n > 0 /\ q = s[n])
      BY <1>1, <1>12, <1>15 DEF s
    <3> QED BY <1>10, <2>1, <3>1
  <2>6. \A q \in Held(li[i]) : q \in Held(a)
    BY <1>1, <1>9, <1>15 DEF s
  <2>7. \A q \in Held(a) : q \in Held(li[i]) \/ line[q] = Unallocated
    BY <1>1, <1>3, <1>9, <1>15 DEF s
  <2>8. Chains([li EXCEPT ![i] = a])'
    BY <1>9, <2>3, <2>4, <2>5, <2>6, <2>7, OneSetChanges
  <2>9. Allocated' = Allocated \cup {p}
    BY <1>3, <1>10, <1>11, <2>1 DEF Allocated, Unallocated
  <2>10. \A q \in Lines : line'[q] # Unallocated => line'[q].tag = IF q = p THEN tag ELSE line[q].tag
    BY <1>10, <1>11, <2>1
  <2>11. ~ (E <= Len(li[i])) /\ [li EXCEPT ![i] = a] = [li EXCEPT ![i] = Append(@, p)]
    BY <1>1, <1>7, <1>17 DEF a, n, s
  <2>12. \E m : m = [li EXCEPT ![i] = Append(@, p)] /\ Chains(m)'
    BY <2>8, <2>11
  <2> QED BY <1>3, <1>10, <1>16, <2>1, <2>3, <2>9, <2>10, <2>11, <2>12 DEF Missed
<1>18. CASE E < n + 1
  <2> DEFINE r == Tail(a)
             left == [addedSet EXCEPT !.head = l[addedSet.head].next, !.cnt = @ - 1]
  <2>1. /\ line' = [l EXCEPT ![a[1]] = Unallocated] /\ cache' = [cache EXCEPT ![i] = left]
        /\ count' = [count EXCEPT !.miss = @ + 1, !.eviction = @ + 1]
    <3>1. rest = <<[l EXCEPT ![addedSet.head] = Unallocated], left>>
      BY DEF rmv_head, l, addedSet
    <3>2. E < added[2].cnt
      BY <1>12, <1>18 DEF addedSet
    <3>3. /\ line' = rest[1] /\ cache' = [cache EXCEPT ![i] = rest[2]]
          /\ count' = [count EXCEPT !.miss = @ + 1, !.eviction = @ + 1]
      BY <1>2, <3>2 DEF added
    <3> HIDE DEF rest, left
    <3> QED BY <1>12, <3>1, <3>3
  <2>2. l[a[1]].next = IF n = 0 THEN NoLine ELSE a[2]
    BY <1>1, <1>12, <1>13
  <2>3. left.cnt = n /\ left.head = (IF n = 0 THEN NoLine ELSE a[2]) /\ left.tail = p
        /\ left \in [cnt : Int, head : Lines \cup {NoLine}, tail : Lines \cup {NoLine}]
    <3> DEFINE nx == l[a[1]].next
    <3>1. left = [addedSet EXCEPT !.head = nx, !.cnt = @ - 1] /\ nx = IF n = 0 THEN NoLine ELSE a[2]
      BY <1>12, <2>2
    <3>2. nx \in Lines \cup {NoLine}
      <4>1. n # 0 => 2 \in 1 .. n + 1
        BY <1>1
      <4> QED BY <1>13, <3>1, <4>1
    <3>3. addedSet \in [cnt : Int, head : Lines \cup {NoLine}, tail : Lines \cup {NoLine}]
      BY <1>1, <1>3, <1>10, <1>12
    <3>4. addedSet.cnt = n + 1 /\ addedSet.tail = p /\ (n + 1) - 1 = n
      BY <1>1, <1>12
    <3> DEFINE mid == [addedSet EXCEPT !.head = nx]
    <3> HIDE DEF nx
    <3>5. left = [mid EXCEPT !.cnt = @ - 1]
      BY <3>1, <3>3
    <3>6. mid \in [cnt : Int, head : Lines \cup {NoLine}, tail : Lines \cup {NoLine}]
          /\ mid.cnt = n + 1 /\ mid.tail = p /\ mid.head = nx
      BY <3>2, <3>3, <3>4
    <3> HIDE DEF mid, left
    <3> QED BY <1>1, <3>1, <3>4, <3>5, <3>6
  <2>4. /\ cache' \in [Sets -> [cnt : Int, head : Lines \cup {NoLine}, tail : Lines \cup {NoLine}]]
        /\ cache'[i] = left /\ \A j \in Sets \ {i} : cache'[j] = cache[j]
    <3> HIDE DEF left
    <3> QED BY <1>7, <2>1, <2>3
  <2>5. line' \in LineArray /\ line'[a[1]] = Unallocated /\ \A q \in Lines \ {a[1]} : line'[q] = l[q]
    <3>1. Unallocated \in [v : {-1, 1}, tag : Tags, next : Lines \cup {NoLine}]
      BY DEF Unallocated, Tags
    <3> QED BY <1>10, <1>12, <2>1, <3>1 DEF LineArray
  <2>6. /\ r \in Seq(Lines) /\ Len(r) = n
        /\ \A j \in 1 .. n : /\ j + 1 \in 1 .. n + 1 /\ r[j] = a[j + 1] /\ r[j] \in Lines
                             /\ r[j] # a[1] /\ line'[r[j]] = l[a[j + 1]]
    <3>1. \A j \in 1 .. n : j + 1 \in 1 .. n + 1 /\ j + 1 # 1 /\ r[j] = a[j + 1]
      BY <1>1, <1>9
    <3>2. \A j \in 1 .. n : r[j] \in Lines /\ r[j] # a[1]
      <4> TAKE j \in 1 .. n
      <4>1. j + 1 \in 1 .. n + 1 /\ j + 1 # 1 /\ r[j] = a[j + 1] /\ 1 \in 1 .. n + 1
        BY <1>12, <3>1
      <4> HIDE DEF r
      <4> QED BY <1>13, <1>14, <4>1
    <3> HIDE DEF r
    <3> QED BY <1>9, <2>5, <3>1, <3>2 DEF r
  <2> HIDE DEF r, left
  <2>7. Chain(i, r)'
    <3>1. n <= Ways /\ cache'[i].cnt = n /\ cache'[i].tail = p
          /\ cache'[i].head = IF n = 0 THEN NoLine ELSE a[2]
      BY <1>6, <2>3, <2>4
    <3>2. n > 0 => r[1] = a[2] /\ r[n] = p
      BY <1>1, <1>12, <2>6
    <3>3. ASSUME NEW j \in 1 .. n
          PROVE  line'[r[j]].v = 1 /\ line'[r[j]].next = IF j < n THEN r[j + 1] ELSE NoLine
      <4>1. j < n => j + 1 \in 1 .. n
        BY <1>1
      <4>2. j < n <=> j + 1 < n + 1
        BY <1>1
      <4> QED BY <1>13, <2>6, <4>1, <4>2
    <3>4. \A j, m \in 1 .. n : r[j] = r[m] \/ line'[r[j]].tag = line'[r[m]].tag => j = m
      <4>1. \A j, m \in 1 .. n : j + 1 = m + 1 => j = m
        BY <1>1
      <4> QED BY <1>14, <2>6, <4>1
    <3> QED BY <1>1, <1>16, <2>6, <3>1, <3>2, <3>3, <3>4 DEF Chain
  <2>8. \A q \in Lines : q \notin Held(li[i]) /\ q \notin Held(r) => line'[q] = line[q]
    <3> TAKE q \in Lines
    <3> HAVE q \notin Held(li[i]) /\ q \notin Held(r)
    <3>1. \A j \in 1 .. n : q # s[j] /\ q # r[j]
      BY <1>15 DEF s, r
    <3>2. CASE n = 0
      BY <1>3, <1>10, <1>12, <2>5, <3>2
    <3>3. CASE n > 0
      <4>1. q # s[n] /\ q # p /\ q # a[1]
        BY <1>1, <1>9, <1>12, <2>6, <3>1, <3>3
      <4> QED BY <1>10, <2>5, <4>1
    <3> QED BY <1>1, <3>2, <3>3
  <2>9. \A q \in Held(li[i]) : q \notin Held(r) => line'[q] = Unallocated
    <3> TAKE q \in Held(li[i])
    <3> HAVE q \notin Held(r)
    <3>1. PICK j \in 1 .. n : s[j] = q
      BY <1>15 DEF s
    <3>2. j = 1
      <4> SUFFICES ASSUME j > 1 PROVE FALSE
        BY <1>1
      <4>1. j - 1 \in 1 .. n /\ (j - 1) + 1 = j /\ j <= n /\ j \in 1 .. n + 1
        BY <1>1
      <4>2. r[j - 1] = q
        BY <1>9, <2>6, <3>1, <4>1
      <4> QED BY <1>15, <4>1, <4>2 DEF r
    <3> QED BY <1>1, <1>9, <1>12, <2>5, <3>1, <3>2
  <2>10. \A q \in Held(r) : q \in Held(li[i]) \/ line[q] = Unallocated
    <3> TAKE q \in Held(r)
    <3>1. PICK j \in 1 .. n : r[j] = q
      BY <1>15 DEF r
    <3>2. j + 1 \in 1 .. n + 1 /\ q = IF j + 1 <= n THEN s[j + 1] ELSE p
      BY <1>9, <2>6, <3>1
    <3>3. j + 1 <= n => j + 1 \in 1 .. n
      BY <1>1, <3>2
    <3> QED BY <1>3, <1>15, <3>2, <3>3 DEF s
  <2>11. Chains([li EXCEPT ![i] = r])'
    BY <2>4, <2>6, <2>7, <2>8, <2>9, <2>10, OneSetChanges
  <2>12. Allocated' = (Allocated \cup {p}) \ {a[1]}
    BY <1>3, <1>10, <1>11, <1>12, <2>5 DEF Allocated, Unallocated
  <2>13. \A q \in Lines : line'[q] # Unallocated => line'[q].tag = IF q = p THEN tag ELSE line[q].tag
    BY <1>10, <1>11, <2>5
  <2>14. E <= Len(li[i]) /\ [li EXCEPT ![i] = r] = [li EXCEPT ![i] = Tail(Append(@, p))] /\ a = Append(li[i], p)
    BY <1>1, <1>7, <1>18 DEF a, n, s, r
  <2>15. \E m : m = [li EXCEPT ![i] = Tail(Append(@, p))] /\ Chains(m)'
    BY <2>11, <2>14
  <2> QED BY <1>3, <1>16, <2>1, <2>4, <2>5, <2>12, <2>13, <2>14, <2>15 DEF Missed
<1> QED BY <1>17, <1>18

----------------------------------------------------------------------------
(* What the lists say of the abstract cache                                *)

LruNow == [i \in Sets |-> IF at \in {"exit", "failed"} THEN << >>
                          ELSE [k \in DOMAIN List(i) |-> line[List(i)[k]].tag]]

LEMMA TagsAre ==
    \A li : CTypes /\ Running /\ Chains(li) =>
        \A i \in Sets : /\ LruNow[i] \in Seq(Tags) /\ Len(LruNow[i]) = Len(li[i])
                        /\ \A k \in 1 .. Len(li[i]) : LruNow[i][k] = line[li[i][k]].tag
<1> SUFFICES ASSUME CTypes, Running, NEW li, Chains(li), NEW i \in Sets
             PROVE  /\ LruNow[i] \in Seq(Tags) /\ Len(LruNow[i]) = Len(li[i])
                    /\ \A k \in 1 .. Len(li[i]) : LruNow[i][k] = line[li[i][k]].tag
  OBVIOUS
<1>1. li[i] \in Seq(Lines) /\ Len(li[i]) \in Nat /\ List(i) = li[i] /\ DOMAIN li[i] = 1 .. Len(li[i])
  BY ListIs DEF Chains
<1>2. LruNow[i] = [k \in 1 .. Len(li[i]) |-> line[li[i][k]].tag]
  BY <1>1 DEF LruNow, Running
<1>3. \A k \in 1 .. Len(li[i]) : line[li[i][k]].tag \in Tags
  BY <1>1 DEF CTypes
<1> QED BY <1>1, <1>2, <1>3

LEMMA TagsAreNext ==
    \A li : CTypes' /\ Running' /\ Chains(li)' =>
        \A i \in Sets : /\ LruNow'[i] \in Seq(Tags) /\ Len(LruNow'[i]) = Len(li[i])
                        /\ \A k \in 1 .. Len(li[i]) : LruNow'[i][k] = line'[li[i][k]].tag
<1>1. (\A li : CTypes /\ Running /\ Chains(li) =>
        \A i \in Sets : /\ LruNow[i] \in Seq(Tags) /\ Len(LruNow[i]) = Len(li[i])
                        /\ \A k \in 1 .. Len(li[i]) : LruNow[i][k] = line[li[i][k]].tag)'
  BY TagsAre, PTL
<1> QED BY <1>1

LEMMA LruIs == /\ DOMAIN LruNow = Sets /\ LruNow = [i \in Sets |-> LruNow[i]]
               /\ DOMAIN LruNow' = Sets /\ LruNow' = [i \in Sets |-> LruNow'[i]]
BY DEF LruNow

LEMMA SameElements ==
    ASSUME NEW Q, NEW s \in Seq(Q), NEW t \in Seq(Q), Len(s) = Len(t), \A k \in 1 .. Len(s) : s[k] = t[k]
    PROVE  s = t
OBVIOUS

(* Nothing is lost where nothing is written.                               *)
LEMMA SameChains ==
    ASSUME NEW li, Chains(li), UNCHANGED <<E, cache, line>>
    PROVE  Chains(li)' /\ Allocated' = Allocated
BY DEF Chains, Chain, Ways, Allocated, Unallocated, NoLine

LEMMA AllocatedFinite == IsFiniteSet(Allocated) /\ Cardinality(Allocated) \in Nat
<1>1. Allocated \subseteq Lines
  BY DEF Allocated
<1> QED BY <1>1, Memory, FS_Subset, FS_CardinalityType

(* search_cache with one access: the lists stay lists, the counts count    *)
(* them, and to the abstract cache it is a hit, a fill or an eviction.     *)
Searched(i, tag) == /\ CTypes' /\ \E m : Chains(m)'
                    /\ count'.miss - count'.eviction = Cardinality(Allocated)'
                    /\ L!Hit(i, tag) \/ L!Fill(i, tag) \/ L!Evict(i, tag)

SearchTypes == /\ E' \in Associativities /\ at' \in {"loop", "again"}
               /\ at' = "again" => ad' \in Accesses

LEMMA HitSearched ==
    ASSUME CTypes, Running, NEW li, Chains(li), NEW i \in Sets, NEW tag \in Tags,
           E' = E, SearchTypes, count.miss - count.eviction = Cardinality(Allocated),
           NEW k \in Found(List(i), tag), Hits(i, List(i), k)
    PROVE  Searched(i, tag)
<1> DEFINE m == [li EXCEPT ![i] = Append(RemoveAt(@, k), @[k])]
           n == Len(li[i])
           t == LruNow[i]
<1>1. li[i] \in Seq(Lines) /\ n \in Nat /\ List(i) = li[i] /\ k \in 1 .. n /\ line[li[i][k]].tag = tag
  <2>1. li[i] \in Seq(Lines) /\ List(i) = li[i]
    BY ListIs DEF Chains
  <2>2. k \in DOMAIN List(i) /\ line[List(i)[k]].tag = tag
    BY DEF Found
  <2> QED BY <2>1, <2>2
<1>2. /\ Chains(m)'
      /\ line' \in [Lines -> [v : {-1, 1}, tag : Tags, next : Lines \cup {NoLine}]]
      /\ cache' \in [Sets -> [cnt : Int, head : Lines \cup {NoLine}, tail : Lines \cup {NoLine}]]
      /\ \A p \in Lines : line'[p].tag = line[p].tag /\ line'[p].v = line[p].v
      /\ count' = [count EXCEPT !.hit = @ + 1]
  BY <1>1, HitMoves
<1>3. count \in [hit : Nat, miss : Nat, eviction : Nat]
  BY DEF CTypes
<1>4. /\ count' \in [hit : Nat, miss : Nat, eviction : Nat]
      /\ count'.hit = count.hit + 1 /\ count'.miss = count.miss /\ count'.eviction = count.eviction
  <2>1. count' = [count EXCEPT !.hit = @ + 1]
    BY <1>2
  <2> QED BY <1>3, <2>1
<1>5. CTypes' /\ Running'
  BY <1>2, <1>4 DEF CTypes, SearchTypes, Accesses, Running
<1>6. Allocated' = Allocated
  <2>1. \A p \in Lines : line'[p] # Unallocated <=> line[p] # Unallocated
    <3> TAKE p \in Lines
    <3>1. line[p] # Unallocated <=> \E j \in Sets : p \in Held(li[j])
      BY DEF Chains
    <3>2. line'[p] # Unallocated <=> \E j \in Sets : p \in Held(m[j])
      BY <1>2 DEF Chains, Unallocated
    <3>3. Held(m[i]) = Held(li[i])
      <4> DEFINE r == Append(RemoveAt(li[i], k), li[i][k])
      <4>1. m[i] = r /\ Held(r) = Held(li[i])
        BY <1>1, HitMoves DEF Chains
      <4> QED BY <4>1
    <3>4. \A j \in Sets : Held(m[j]) = Held(li[j])
      BY <3>3 DEF Chains
    <3> HIDE DEF m
    <3> QED BY <3>1, <3>2, <3>4
  <2> QED BY <2>1 DEF Allocated, Unallocated
<1>7. L!Hit(i, tag)
  <2>1. \A j \in Sets : /\ LruNow[j] \in Seq(Tags) /\ Len(LruNow[j]) = Len(li[j])
                        /\ \A h \in 1 .. Len(li[j]) : LruNow[j][h] = line[li[j][h]].tag
    BY TagsAre
  <2>2. \A j \in Sets : /\ LruNow'[j] \in Seq(Tags) /\ Len(LruNow'[j]) = Len(m[j])
                        /\ \A h \in 1 .. Len(m[j]) : LruNow'[j][h] = line'[m[j][h]].tag
    <3> HIDE DEF m
    <3> QED BY <1>2, <1>5, TagsAreNext
  <2>3. \A j \in Sets \ {i} : LruNow'[j] = LruNow[j]
    <3> TAKE j \in Sets \ {i}
    <3>1. m[j] = li[j] /\ li[j] \in Seq(Lines)
      BY DEF Chains
    <3>2. \A h \in 1 .. Len(li[j]) : LruNow'[j][h] = LruNow[j][h]
      BY <1>2, <2>1, <2>2, <3>1
    <3> HIDE DEF m
    <3>3. /\ LruNow[j] \in Seq(Tags) /\ LruNow'[j] \in Seq(Tags)
          /\ Len(LruNow[j]) = Len(li[j]) /\ Len(LruNow'[j]) = Len(li[j])
      BY <2>1, <2>2, <3>1
    <3> QED BY <3>2, <3>3, SameElements
  <2>4. LruNow'[i] = Append(RemoveAt(t, k), tag)
    <3> DEFINE r == Append(RemoveAt(li[i], k), li[i][k])
               u == Append(RemoveAt(t, k), t[k])
    <3>1. r \in Seq(Lines) /\ Len(r) = n /\
          \A j \in 1 .. n : r[j] = IF j < k THEN li[i][j] ELSE IF j < n THEN li[i][j + 1] ELSE li[i][k]
      BY <1>1, Moved
    <3>2. t \in Seq(Tags) /\ Len(t) = n /\ t[k] = tag /\ \A h \in 1 .. n : t[h] = line[li[i][h]].tag
      BY <1>1, <2>1
    <3>3. u \in Seq(Tags) /\ Len(u) = n /\
          \A j \in 1 .. n : u[j] = IF j < k THEN t[j] ELSE IF j < n THEN t[j + 1] ELSE t[k]
      <4> HIDE DEF t, n
      <4> QED BY <1>1, <3>2, Moved
    <3>4. m[i] = r
      BY DEF Chains
    <3>5. /\ LruNow'[i] \in Seq(Tags) /\ Len(LruNow'[i]) = n
          /\ \A j \in 1 .. n : LruNow'[i][j] = line'[r[j]].tag
      BY <2>2, <3>1, <3>4
    <3> HIDE DEF r, u, t, m
    <3>6. \A j \in 1 .. n : LruNow'[i][j] = u[j]
      <4> TAKE j \in 1 .. n
      <4>1. r[j] \in Lines
        BY <3>1
      <4>2. LruNow'[i][j] = line[r[j]].tag
        BY <1>2, <3>5, <4>1
      <4>3. j < n => j + 1 \in 1 .. n
        BY <1>1
      <4> HIDE DEF n
      <4> QED BY <1>1, <3>1, <3>2, <3>3, <4>2, <4>3
    <3>7. LruNow'[i] = u
      BY <3>3, <3>5, <3>6, SameElements
    <3> QED BY <3>2, <3>7 DEF u
  <2>5. LruNow' = [LruNow EXCEPT ![i] = Append(RemoveAt(@, k), tag)]
    BY <2>3, <2>4, LruIs
  <2>6. k \in DOMAIN LruNow[i] /\ LruNow[i][k] = tag
    BY <1>1, <2>1
  <2> QED BY <1>4, <2>5, <2>6 DEF L!Hit, L!RemoveAt, RemoveAt, LruNow
<1>8. count'.miss - count'.eviction = Cardinality(Allocated)'
  BY <1>4, <1>6
<1> HIDE DEF m
<1> QED BY <1>2, <1>5, <1>7, <1>8 DEF Searched

LEMMA MissSearched ==
    ASSUME CTypes, Running, NEW li, Chains(li), NEW i \in Sets, NEW tag \in Tags,
           E' = E, SearchTypes, count.miss - count.eviction = Cardinality(Allocated),
           Found(List(i), tag) = {}, Misses(i, tag)
    PROVE  Searched(i, tag)
<1> DEFINE n == Len(li[i])
           t == LruNow[i]
<1>1. PICK p \in Lines : Missed(li, i, tag, p)
  BY MissAdds
<1> DEFINE a == Append(li[i], p)
           r == IF E <= n THEN Tail(a) ELSE a
<1>2. /\ li \in [Sets -> Seq(Lines)] /\ li[i] \in Seq(Lines) /\ n \in Nat /\ E \in Int
      /\ count \in [hit : Nat, miss : Nat, eviction : Nat]
  BY CSimAssumption DEF CTypes, Chains
<1>3. /\ a \in Seq(Lines) /\ Len(a) = n + 1 /\ \A j \in 1 .. n + 1 : a[j] = IF j <= n THEN li[i][j] ELSE p
      /\ Tail(a) \in Seq(Lines) /\ Len(Tail(a)) = n
      /\ \A j \in 1 .. n : Tail(a)[j] = IF j < n THEN li[i][j + 1] ELSE p
  BY <1>2, Added
<1>4. PICK m : Chains(m)' /\ m = [li EXCEPT ![i] = r]
  BY <1>1 DEF Missed
<1>39. Chains(m)'
  BY <1>4
<1>40. m[i] = r /\ \A j \in Sets \ {i} : m[j] = li[j]
  BY <1>2, <1>4
<1> HIDE DEF a, r
<1>41. /\ line[p] = Unallocated /\ tag \notin {line[li[i][k]].tag : k \in 1 .. Len(li[i])}
       /\ line' \in LineArray
       /\ cache' \in [Sets -> [cnt : Int, head : Lines \cup {NoLine}, tail : Lines \cup {NoLine}]]
       /\ \A q \in Lines : line'[q] # Unallocated => line'[q].tag = IF q = p THEN tag ELSE line[q].tag
       /\ count' = IF E <= n THEN [count EXCEPT !.miss = @ + 1, !.eviction = @ + 1]
                             ELSE [count EXCEPT !.miss = @ + 1]
  BY <1>1 DEF Missed
<1>5. CTypes' /\ Running'
  <2>1. count' \in [hit : Nat, miss : Nat, eviction : Nat]
    <3>0. count \in [hit : Nat, miss : Nat, eviction : Nat]
      BY <1>2
    <3>1. CASE E <= n
      <4> DEFINE mid == [count EXCEPT !.miss = @ + 1]
      <4>1. count' = [mid EXCEPT !.eviction = @ + 1]
        BY <3>0, <1>41, <3>1
      <4>2. mid \in [hit : Nat, miss : Nat, eviction : Nat]
        BY <3>0
      <4> HIDE DEF mid
      <4> QED BY <4>1, <4>2
    <3>2. CASE ~ (E <= n)
      <4>1. count' = [count EXCEPT !.miss = @ + 1]
        BY <1>41, <3>2
      <4> QED BY <3>0, <4>1
    <3> QED BY <3>1, <3>2
  <2> QED BY <1>41, <2>1 DEF CTypes, SearchTypes, Accesses, Running, LineArray
<1>6. \A j \in Sets : /\ LruNow[j] \in Seq(Tags) /\ Len(LruNow[j]) = Len(li[j])
                      /\ \A h \in 1 .. Len(li[j]) : LruNow[j][h] = line[li[j][h]].tag
  BY TagsAre
<1>7. \A j \in Sets : /\ LruNow'[j] \in Seq(Tags) /\ Len(LruNow'[j]) = Len(m[j])
                      /\ \A h \in 1 .. Len(m[j]) : LruNow'[j][h] = line'[m[j][h]].tag
  BY <1>39, <1>5, TagsAreNext
<1>8. ASSUME NEW j \in Sets, NEW h \in 1 .. Len(m[j])
      PROVE  /\ m[j][h] \in Lines /\ line'[m[j][h]] # Unallocated
             /\ LruNow'[j][h] = IF m[j][h] = p THEN tag ELSE line[m[j][h]].tag
  <2>1. m[j] \in Seq(Lines) /\ m[j][h] \in Held(m[j])
    <3>1. m \in [Sets -> Seq(Lines)]
      BY <1>4 DEF Chains
    <3> QED BY <3>1 DEF Held
  <2>2. m[j][h] \in Lines
    BY <2>1
  <2>3. line'[m[j][h]] # Unallocated
    <3>1. \A q \in Lines : line'[q] # Unallocated' <=> \E u \in Sets : q \in Held(m[u])
      BY <1>4 DEF Chains
    <3> QED BY <2>1, <2>2, <3>1 DEF Unallocated, NoLine
  <2> QED BY <1>41, <1>7, <2>2, <2>3
<1>9. \A j \in Sets : \A h \in 1 .. Len(li[j]) : li[j][h] # p /\ li[j][h] \in Lines /\ li[j][h] \in Allocated
  <2> TAKE j \in Sets
  <2> TAKE h \in 1 .. Len(li[j])
  <2>1. li[j][h] \in Lines /\ li[j][h] \in Held(li[j])
    BY <1>2 DEF Held
  <2>2. line[li[j][h]] # Unallocated
    BY <2>1 DEF Chains
  <2> QED BY <1>41, <2>1, <2>2 DEF Allocated
<1>10. \A j \in Sets \ {i} : LruNow'[j] = LruNow[j]
  <2> TAKE j \in Sets \ {i}
  <2>1. m[j] = li[j]
    BY <1>40
  <2>2. \A h \in 1 .. Len(li[j]) : LruNow'[j][h] = LruNow[j][h]
    BY <1>6, <1>8, <1>9, <2>1
  <2>3. /\ LruNow[j] \in Seq(Tags) /\ LruNow'[j] \in Seq(Tags)
        /\ Len(LruNow[j]) = Len(li[j]) /\ Len(LruNow'[j]) = Len(li[j])
    BY <1>6, <1>7, <2>1
  <2> QED BY <2>2, <2>3, SameElements
<1>11. /\ t \in Seq(Tags) /\ Len(t) = n /\ \A h \in 1 .. n : t[h] = line[li[i][h]].tag
  BY <1>6
<1>12. tag \notin L!Range(LruNow[i])
  <2>1. L!Range(LruNow[i]) = {t[h] : h \in 1 .. n}
    BY <1>11 DEF L!Range
  <2>2. {t[h] : h \in 1 .. n} = {line[li[i][h]].tag : h \in 1 .. n}
    BY <1>11
  <2> QED BY <1>41, <2>1, <2>2
<1>13. Allocated \subseteq Lines /\ IsFiniteSet(Allocated) /\ Cardinality(Allocated) \in Nat /\ p \notin Allocated
  BY <1>41, AllocatedFinite DEF Allocated
<1>14. Cardinality(Allocated \cup {p}) = Cardinality(Allocated) + 1 /\ IsFiniteSet(Allocated \cup {p})
  BY <1>13, FS_AddElement
<1> HIDE DEF n, t
<1>15. CASE ~ (E <= n)
  <2>1. r = a /\ Allocated' = Allocated \cup {p} /\ count' = [count EXCEPT !.miss = @ + 1]
    BY <1>1, <1>15 DEF r, n, Missed
  <2>2. count'.hit = count.hit /\ count'.miss = count.miss + 1 /\ count'.eviction = count.eviction
    BY <1>2, <2>1
  <2>3. count'.miss - count'.eviction = Cardinality(Allocated)'
    BY <1>2, <1>13, <1>14, <2>1, <2>2
  <2>4. LruNow'[i] = Append(t, tag)
    <3>1. /\ Append(t, tag) \in Seq(Tags) /\ Len(Append(t, tag)) = n + 1
          /\ \A j \in 1 .. n + 1 : Append(t, tag)[j] = IF j <= n THEN t[j] ELSE tag
      BY <1>11, Added
    <3>2. LruNow'[i] \in Seq(Tags) /\ Len(LruNow'[i]) = n + 1
      BY <1>3, <1>40, <1>7, <2>1
    <3>3. ASSUME NEW j \in 1 .. n + 1 PROVE LruNow'[i][j] = Append(t, tag)[j]
      <4>1. LruNow'[i][j] = IF a[j] = p THEN tag ELSE line[a[j]].tag
        BY <1>3, <1>40, <1>8, <2>1
      <4>2. CASE j <= n
        <5>1. j \in 1 .. n /\ a[j] = li[i][j] /\ li[i][j] # p
          BY <1>2, <1>3, <1>9, <4>2 DEF n
        <5> QED BY <1>11, <3>1, <4>1, <4>2, <5>1
      <4>3. CASE ~ (j <= n)
        BY <1>3, <3>1, <4>1, <4>3
      <4> QED BY <4>2, <4>3
    <3> QED BY <3>1, <3>2, <3>3, SameElements
  <2>5. LruNow' = [LruNow EXCEPT ![i] = Append(@, tag)]
    BY <1>10, <2>4, LruIs DEF t
  <2>6. Len(LruNow[i]) < Ways
    BY <1>2, <1>11, <1>15 DEF Ways, t
  <2>7. L!Fill(i, tag)
    BY <1>12, <2>2, <2>5, <2>6 DEF L!Fill, LruNow, Ways
  <2> QED BY <1>4, <1>5, <2>3, <2>7 DEF Searched
<1>16. CASE E <= n
  <2>1. /\ r = Tail(a) /\ Allocated' = (Allocated \cup {p}) \ {a[1]}
        /\ count' = [count EXCEPT !.miss = @ + 1, !.eviction = @ + 1]
    BY <1>1, <1>16 DEF r, n, a, Missed
  <2>2. count'.hit = count.hit /\ count'.miss = count.miss + 1 /\ count'.eviction = count.eviction + 1
    BY <1>2, <2>1
  <2>3. count'.miss - count'.eviction = Cardinality(Allocated)'
    <3>1. a[1] \in Allocated \cup {p}
      <4>1. CASE n = 0
        BY <1>2, <1>3, <4>1
      <4>2. CASE n > 0
        <5>1. a[1] = li[i][1] /\ 1 \in 1 .. n
          BY <1>2, <1>3, <4>2
        <5> QED BY <1>9, <5>1 DEF n
      <4> QED BY <1>2, <4>1, <4>2
    <3>2. Cardinality(Allocated)' = Cardinality(Allocated \cup {p}) - 1
      BY <1>14, <2>1, <3>1, FS_RemoveElement
    <3> QED BY <1>2, <1>13, <1>14, <2>2, <3>2
  <2>4. LruNow'[i] = Tail(Append(t, tag))
    <3> DEFINE u == Tail(Append(t, tag))
    <3>1. /\ u \in Seq(Tags) /\ Len(u) = n
          /\ \A j \in 1 .. n : u[j] = IF j < n THEN t[j + 1] ELSE tag
      BY <1>11, Added
    <3>2. LruNow'[i] \in Seq(Tags) /\ Len(LruNow'[i]) = n
      BY <1>3, <1>40, <1>7, <2>1
    <3> HIDE DEF u
    <3>3. ASSUME NEW j \in 1 .. n PROVE LruNow'[i][j] = u[j]
      <4>1. LruNow'[i][j] = IF r[j] = p THEN tag ELSE line[r[j]].tag
        BY <1>3, <1>40, <1>8, <2>1
      <4>2. CASE j < n
        <5>1. j + 1 \in 1 .. n /\ r[j] = li[i][j + 1] /\ li[i][j + 1] # p
          BY <1>2, <1>3, <1>9, <2>1, <4>2 DEF n
        <5> QED BY <1>11, <3>1, <4>1, <4>2, <5>1
      <4>3. CASE ~ (j < n)
        BY <1>3, <2>1, <3>1, <4>1, <4>3
      <4> QED BY <4>2, <4>3
    <3>4. LruNow'[i] = u
      BY <3>1, <3>2, <3>3, SameElements
    <3> QED BY <3>4 DEF u
  <2>5. LruNow' = [LruNow EXCEPT ![i] = Tail(Append(@, tag))]
    BY <1>10, <2>4, LruIs DEF t
  <2>6. Len(LruNow[i]) >= Ways
    BY <1>2, <1>11, <1>16 DEF Ways, t
  <2>7. L!Evict(i, tag)
    BY <1>12, <2>2, <2>5, <2>6 DEF L!Evict, LruNow, Ways
  <2> QED BY <1>4, <1>5, <2>3, <2>7 DEF Searched
<1> QED BY <1>15, <1>16

LEMMA Searches ==
    ASSUME CTypes, Running, \E li : Chains(li), NEW i \in Sets, NEW tag \in Tags,
           E' = E, SearchTypes, count.miss - count.eviction = Cardinality(Allocated),
           search_cache(i, tag)
    PROVE  Searched(i, tag)
<1>1. PICK li : Chains(li)
  OBVIOUS
<1>2. CASE Found(List(i), tag) = {}
  <2>1. Misses(i, tag)
    BY <1>2 DEF search_cache
  <2> QED BY <1>1, <1>2, <2>1, MissSearched
<1>3. CASE Found(List(i), tag) # {}
  <2>1. PICK k \in Found(List(i), tag) : Hits(i, List(i), k)
    BY <1>3 DEF search_cache
  <2> QED BY <1>1, <2>1, HitSearched
<1> QED BY <1>2, <1>3

----------------------------------------------------------------------------
(* The invariant is inductive, and every step is one of the abstract cache *)

LEMMA CInvInit == CSimInit => CInv /\ L!LRUInit
<1> SUFFICES ASSUME CSimInit PROVE CInv /\ L!LRUInit
  OBVIOUS
<1> DEFINE li == [i \in Sets |-> << >>]
<1>1. CTypes
  <2>1. Unallocated \in [v : {-1, 1}, tag : Tags, next : Lines \cup {NoLine}]
    BY DEF Unallocated, Tags
  <2> QED BY <2>1 DEF CSimInit, CTypes, NoLine
<1>2. \A p \in Lines : line[p] = Unallocated
  BY DEF CSimInit
<1>3. << >> \in Seq(Lines) /\ Len(<< >>) = 0 /\ 1 .. 0 = {} /\ Held(<< >>) = {}
  BY DEF Held
<1>4. Ways >= 0
  BY CSimAssumption DEF CSimInit, Ways
<1>5. \A i \in Sets : Chain(i, << >>)
  BY <1>3, <1>4 DEF CSimInit, Chain
<1>6. Chains(li)
  BY <1>2, <1>3, <1>5 DEF Chains
<1>7. Allocated = {} /\ Cardinality(Allocated) = 0
  BY <1>2, FS_EmptySet DEF Allocated
<1>8. Running
  BY DEF CSimInit, Running
<1>9. CInv
  BY <1>1, <1>6, <1>7 DEF CInv, CSimInit
<1>10. \A i \in Sets : LruNow[i] = << >>
  <2> TAKE i \in Sets
  <2>1. LruNow[i] \in Seq(Tags) /\ Len(LruNow[i]) = Len(li[i])
    <3> HIDE DEF li
    <3> QED BY <1>1, <1>6, <1>8, TagsAre
  <2>2. Len(LruNow[i]) = 0
    BY <1>3, <2>1
  <2> QED BY <2>1, <2>2
<1>11. LruNow = [i \in Sets |-> << >>]
  BY <1>10, LruIs
<1> QED BY <1>9, <1>11 DEF CSimInit, L!LRUInit, LruNow

(* A step of the simulator, seen by the cache it implements.               *)
Implemented == \/ L!LRUNext
               \/ UNCHANGED <<ad, LruNow, count.hit, count.miss, count.eviction>>

LEMMA AccessKeeps ==
    ASSUME CInv, at \in {"loop", "again"}, NEW ad1 \in Accesses, ad' = ad1, E' = E, at' \in {"loop", "again"},
           search_cache(ad1.set_i, ad1.tag)
    PROVE  CInv' /\ Implemented
<1>1. /\ ad1.set_i \in Sets /\ ad1.tag \in Tags /\ ad1 = [set_i |-> ad1.set_i, tag |-> ad1.tag]
      /\ ad1.tag \in {parse_adress_bit(a).tag : a \in Addresses}
  <2>1. PICK a \in Addresses : ad1 = parse_adress_bit(a)
    BY DEF Accesses
  <2>2. parse_adress_bit(a).set_i \in Sets
    BY Shifts, CSimAssumption
  <2> QED BY <2>1, <2>2 DEF Tags, parse_adress_bit
<1>2. /\ CTypes /\ Running /\ \E li : Chains(li)
      /\ count.miss - count.eviction = Cardinality(Allocated)
  BY DEF CInv, Running
<1>3. SearchTypes
  BY <1>2 DEF SearchTypes, CTypes
<1>4. Searched(ad1.set_i, ad1.tag)
  BY <1>1, <1>2, <1>3, Searches
<1>5. CInv'
  BY <1>4 DEF Searched, CInv
<1>6. L!Access(ad1.set_i, ad1.tag)
  BY <1>1, <1>4 DEF Searched, L!Access
<1>7. L!LRUNext
  BY <1>1, <1>6 DEF L!LRUNext
<1> QED BY <1>5, <1>7 DEF Implemented

LEMMA StepKeeps == CInv /\ [CSimNext]_csimvars => CInv' /\ Implemented
<1> SUFFICES ASSUME CInv, [CSimNext]_csimvars PROVE CInv' /\ Implemented
  OBVIOUS
<1>1. CTypes
  BY DEF CInv
<1>2. ASSUME UNCHANGED <<E, cache, line, count>>, at \in {"loop", "again", "free"},
             at' \in {"loop", "again", "free"}, ad' = ad, at' = "again" => ad \in Accesses
      PROVE  CInv' /\ Implemented
  <2>1. PICK li : Chains(li)
    BY <1>2 DEF CInv, Running
  <2>2. Chains(li)' /\ Allocated' = Allocated
    BY <1>2, <2>1, SameChains
  <2>3. CTypes' /\ Running /\ Running'
    BY <1>1, <1>2 DEF CTypes, Running, Accesses
  <2>4. CInv'
    BY <1>2, <2>2, <2>3 DEF CInv, Running
  <2>5. \A i \in Sets : LruNow'[i] = LruNow[i]
    <3> TAKE i \in Sets
    <3>1. /\ LruNow[i] \in Seq(Tags) /\ Len(LruNow[i]) = Len(li[i])
          /\ \A k \in 1 .. Len(li[i]) : LruNow[i][k] = line[li[i][k]].tag
      BY <1>1, <2>1, <2>3, TagsAre
    <3>2. /\ LruNow'[i] \in Seq(Tags) /\ Len(LruNow'[i]) = Len(li[i])
          /\ \A k \in 1 .. Len(li[i]) : LruNow'[i][k] = line'[li[i][k]].tag
      BY <2>2, <2>3, TagsAreNext
    <3>3. line' = line
      BY <1>2
    <3> QED BY <3>1, <3>2, <3>3, SameElements
  <2>6. LruNow' = LruNow
    BY <2>5, LruIs
  <2> QED BY <1>2, <2>4, <2>6 DEF Implemented
<1>3. ASSUME E' = E, cache' = cache, count' = count, ad' = ad, at' \in {"exit", "failed"},
             line' \in LineArray, at' = "exit" => Allocated' = {}
      PROVE  CInv' /\ Implemented
  <2>1. CTypes'
    BY <1>1, <1>3 DEF CTypes, LineArray
  <2>2. CInv'
    BY <1>3, <2>1 DEF CInv, Running
  <2>3. LruNow' = [i \in Sets |-> << >>]
    BY <1>3 DEF LruNow
  <2>4. L!Drop
    BY <1>3, <2>3 DEF L!Drop, LruNow
  <2> QED BY <2>2, <2>4 DEF Implemented, L!LRUNext
<1>4. Unallocated \in [v : {-1, 1}, tag : Tags, next : Lines \cup {NoLine}]
  BY DEF Unallocated, Tags
<1>5. CASE execute_line
  <2>1. CASE \E address \in Addresses, id \in {"L", "M"} :
               /\ ad' = parse_adress_bit(address)
               /\ search_cache(ad'.set_i, ad'.tag)
               /\ at' = IF id = "M" THEN "again" ELSE "loop"
    <3>1. PICK address \in Addresses, id \in {"L", "M"} :
               /\ ad' = parse_adress_bit(address)
               /\ search_cache(ad'.set_i, ad'.tag)
               /\ at' = IF id = "M" THEN "again" ELSE "loop"
      BY <2>1
    <3> DEFINE ad1 == parse_adress_bit(address)
    <3>2. ad1 \in Accesses
      BY DEF Accesses
    <3>3. ad' = ad1 /\ search_cache(ad1.set_i, ad1.tag)
      BY <3>1
    <3>4. at \in {"loop", "again"} /\ at' \in {"loop", "again"} /\ E' = E
      BY <1>5, <3>1 DEF execute_line
    <3> HIDE DEF ad1
    <3> QED BY <3>2, <3>3, <3>4, AccessKeeps
  <2>2. CASE UNCHANGED <<at, ad, cache, line, count>>
    BY <1>2, <1>5, <2>2 DEF execute_line
  <2> QED BY <1>5, <2>1, <2>2 DEF execute_line
<1>6. CASE execute_again
  <2>1. ad \in Accesses
    BY <1>1, <1>6 DEF execute_again, CTypes
  <2> QED BY <1>6, <2>1, AccessKeeps DEF execute_again
<1>7. CASE search_cache_fails
  <2>1. line' \in LineArray
    BY <1>4, <1>7 DEF search_cache_fails, LineArray
  <2> QED BY <1>3, <1>7, <2>1 DEF search_cache_fails
<1>8. CASE get_line_ends
  BY <1>2, <1>8 DEF get_line_ends
<1>9. CASE free_cache
  <2>1. line' \in LineArray
    BY <1>1, <1>4, <1>9 DEF free_cache, LineArray, CTypes
  <2>2. PICK li : Chains(li)
    BY <1>9 DEF CInv, Running, free_cache
  <2>3. ASSUME NEW p \in Lines PROVE line'[p] = Unallocated
    <3>1. CASE \E i \in Sets : p \in Range(List(i))
      BY <1>9, <3>1 DEF free_cache
    <3>2. CASE \A i \in Sets : p \notin Range(List(i))
      <4>1. line'[p] = line[p]
        BY <1>9, <3>2 DEF free_cache
      <4>2. \A i \in Sets : p \notin Held(li[i])
        <5> TAKE i \in Sets
        <5>1. List(i) = li[i] /\ li[i] \in Seq(Lines) /\ p \notin Range(List(i))
          BY <2>2, <3>2, ListIs DEF Chains
        <5>2. DOMAIN li[i] = 1 .. Len(li[i])
          BY <5>1
        <5> QED BY <5>1, <5>2 DEF Range, Held
      <4> QED BY <2>2, <4>1, <4>2 DEF Chains
    <3> QED BY <3>1, <3>2
  <2>4. Allocated' = {}
    BY <2>3 DEF Allocated, Unallocated, NoLine
  <2> QED BY <1>3, <1>9, <2>1, <2>4 DEF free_cache
<1>10. CASE UNCHANGED csimvars
  <2>1. CASE at \in {"loop", "again", "free"}
    BY <1>1, <1>2, <1>10, <2>1 DEF csimvars, CTypes
  <2>2. CASE at \in {"exit", "failed"}
    <3>1. line' \in LineArray
      BY <1>1, <1>10 DEF csimvars, CTypes, LineArray
    <3>2. Allocated' = Allocated
      BY <1>10 DEF csimvars, Allocated, Unallocated, NoLine
    <3> QED BY <1>3, <1>10, <2>2, <3>1, <3>2 DEF csimvars, CInv
  <2> QED BY <1>1, <2>1, <2>2 DEF CTypes
<1> QED BY <1>5, <1>6, <1>7, <1>8, <1>9, <1>10 DEF CSimNext

LEMMA CInvAlways == CSimSpec => []CInv
<1>1. CSimInit => CInv
  BY CInvInit
<1>2. CInv /\ [CSimNext]_csimvars => CInv'
  BY StepKeeps
<1> QED BY <1>1, <1>2, PTL DEF CSimSpec

LEMMA CInvCounts == CInv => CountsMatchLines
<1> SUFFICES ASSUME CInv, at \notin {"exit", "failed"}
             PROVE  \A i \in Sets : cache[i].cnt = Len(List(i))
  BY DEF CInv, CountsMatchLines, Running
<1>1. PICK li : Chains(li)
  BY DEF CInv, Running
<1>2. ASSUME NEW i \in Sets PROVE cache[i].cnt = Len(List(i))
  <2>1. Chain(i, li[i])
    BY <1>1 DEF Chains
  <2>2. cache[i].cnt = Len(li[i])
    BY <2>1 DEF Chain
  <2> QED BY <1>1, <2>2, ListIs
<1> QED BY <1>2

(* Whatever the trace is and wherever malloc puts the lines: what was      *)
(* missed and not evicted is in memory, cnt counts the lines of a set, and *)
(* at the end all of them have been freed (csim.c 87-217).                 *)
THEOREM CountsMatchLinesAlways == CSimSpec => []CountsMatchLines
BY CInvAlways, CInvCounts, PTL

(* The simulator implements the least-recently-used cache: the order of    *)
(* its lists is the order of use, and each access hits, misses and evicts  *)
(* where the abstract cache does (csim.c 87-217).                          *)
THEOREM CSimImplementsLRU == CSimSpec => ImplementsLRU
<1>1. CSimInit => L!LRUInit
  BY CInvInit
<1>2. CInv /\ [CSimNext]_csimvars => Implemented
  BY StepKeeps
<1> DEFINE lruvars == <<ad, LruNow, count.hit, count.miss, count.eviction>>
<1>3. Implemented => [L!LRUNext]_lruvars
  BY DEF Implemented
<1> QED BY <1>1, <1>2, <1>3, CInvAlways, PTL DEF CSimSpec, ImplementsLRU, L!LRUSpec, LruNow

----------------------------------------------------------------------------
(* test-trans                                                              *)

TTLabels == {"trace", "status", "filter", "simulate", "collect", "emit", "exit", "abort"}
TTTypes == /\ list \in Lists /\ execs \in BOOLEAN /\ func \in DOMAIN list /\ dpc \in TTLabels
           /\ tracetmp \in Int /\ tracef \in [DOMAIN list -> Int] /\ simresults \in Int /\ flag \in Int
           /\ results \in [funcid : {0} \cup DOMAIN list, correct : {0, 1}, misses : Int]
           /\ output \in {"none", "0:0", "results"} /\ simfailed \in BOOLEAN
           /\ output = "results" => dpc = "exit"

(* The submission found last is behind, or the function evaluated.         *)
Registered == /\ results.funcid = 0 => results.correct = 0
              /\ results.funcid # 0 => /\ Submission.desc = SUBMIT_DESCRIPTION /\ results.funcid <= func
                                       /\ dpc = "trace" => results.funcid < func

(* What the programs have left of the function evaluated.                  *)
AtHand == LET does == list[func].does IN
          /\ dpc = "status" => flag = ExitStatus
          /\ dpc \in {"status", "filter"} /\ does # "crashes" => tracetmp = Whole(func)
          /\ dpc = "simulate" /\ does = "works" => tracef[func] = Whole(func)
          /\ dpc = "collect" /\ does = "works" /\ ~simfailed => simresults = Whole(func)

Validated == results.correct = 1 /\ OneSubmission =>
                \/ Submission.does = "works"
                \/ Submission.does = "crashes" /\ execs
Behind == results.funcid < func \/ dpc = "emit" \/ output = "results"
Evaluated == results.funcid # 0 /\ Submission.does = "works" =>
                /\ Behind \/ dpc \in {"filter", "simulate", "collect"} => results.correct = 1
                /\ Behind /\ ~simfailed => results.misses = Whole(results.funcid)

TTInv == TTTypes /\ Registered /\ AtHand /\ Validated /\ Evaluated

LEMMA ListFacts ==
    ASSUME TTTypes
    PROVE  /\ Len(list) \in Nat /\ DOMAIN list = 1 .. Len(list) /\ func \in Nat /\ func >= 1
           /\ \A k \in DOMAIN list : list[k].does \in {"works", "wrong", "crashes"}
           /\ results.funcid \in {0} \cup DOMAIN list /\ results.funcid \in Nat
           /\ results.correct \in {0, 1} /\ results.misses \in Int
           /\ ExitStatus \in Int
<1>1. list \in Seq([desc : STRING, does : {"works", "wrong", "crashes"}])
  BY TransTestAssumption DEF TTTypes
<1>2. Len(list) \in Nat /\ DOMAIN list = 1 .. Len(list)
  BY <1>1
<1>3. \A k \in DOMAIN list : list[k].does \in {"works", "wrong", "crashes"}
  <2> DEFINE R == [desc : STRING, does : {"works", "wrong", "crashes"}]
  <2>1. \A r \in R : r.does \in {"works", "wrong", "crashes"}
    OBVIOUS
  <2>2. list \in Seq(R)
    BY <1>1
  <2> HIDE DEF R
  <2>3. \A k \in DOMAIN list : list[k] \in R
    BY <2>2
  <2> QED BY <2>1, <2>3
<1>4. func \in 1 .. Len(list) /\ results.funcid \in {0} \cup 1 .. Len(list)
  BY <1>2 DEF TTTypes
<1>5. ExitStatus \in Int
  <2>1. list[func].does \in {"works", "wrong", "crashes"}
    BY <1>3 DEF TTTypes
  <2> QED BY <1>4, <2>1 DEF ExitStatus
<1>6. results.correct \in {0, 1} /\ results.misses \in Int
  BY DEF TTTypes
<1> QED BY <1>2, <1>3, <1>4, <1>5, <1>6

LEMMA TTInvInit == TTInit => TTInv
<1> SUFFICES ASSUME TTInit PROVE TTInv
  OBVIOUS
<1>1. list \in Seq([desc : STRING, does : {"works", "wrong", "crashes"}]) /\ list # << >>
  BY TransTestAssumption DEF TTInit
<1>2. 1 \in DOMAIN list
  BY <1>1
<1>3. TTTypes
  <2>1. /\ list \in Lists /\ execs \in BOOLEAN /\ func \in DOMAIN list /\ dpc \in TTLabels
        /\ tracetmp \in Int /\ simresults \in Int /\ flag \in Int
        /\ output = "none" /\ simfailed \in BOOLEAN
    <3>1. /\ list \in Lists /\ execs \in BOOLEAN /\ func \in DOMAIN list /\ dpc \in TTLabels
          /\ output = "none" /\ simfailed \in BOOLEAN
      BY <1>2 DEF TTInit, TTLabels
    <3>2. tracetmp \in Int /\ simresults \in Int /\ flag \in Int
      BY DEF TTInit, NoFile, None
    <3> QED BY <3>1, <3>2
  <2>2. tracef \in [DOMAIN list -> Int]
    BY DEF TTInit, None
  <2>3. results \in [funcid : {0} \cup DOMAIN list, correct : {0, 1}, misses : Int]
    BY DEF TTInit, None
  <2> QED BY <2>1, <2>2, <2>3 DEF TTTypes
<1> QED BY <1>3 DEF TTInit, TTInv, Registered, AtHand, Validated, Evaluated

(* The next function of the list, or the end of the loop.                  *)
LEMMA NextTypes ==
    ASSUME TTTypes, NextFunction, UNCHANGED list
    PROVE  /\ func' \in DOMAIN list /\ func' \in Nat /\ func <= func' /\ dpc' \in {"trace", "emit"}
           /\ dpc' = "trace" => func < func'
BY ListFacts DEF NextFunction, TTTypes

LEMMA TTInvNext == TTInv /\ [TTNext]_ttvars => TTInv'
<1> SUFFICES ASSUME TTInv, [TTNext]_ttvars PROVE TTInv'
  OBVIOUS
<1> USE ListFacts DEF TTInv
<1>1. CASE validate_function
  <2>1. /\ dpc = "trace" /\ dpc' = "status" /\ flag' = ExitStatus
        /\ results' = IF list[func].desc = SUBMIT_DESCRIPTION THEN [results EXCEPT !.funcid = func] ELSE results
        /\ tracetmp' = IF list[func].does = "crashes" THEN Cut(func) ELSE Whole(func)
        /\ UNCHANGED <<list, execs, func, tracef, simresults, counts, output, simfailed>>
    BY <1>1 DEF validate_function
  <2>2. results' \in [funcid : {0} \cup DOMAIN list, correct : {0, 1}, misses : Int]
    BY <2>1 DEF TTTypes
  <2>3. /\ results'.funcid = (IF list[func].desc = SUBMIT_DESCRIPTION THEN func ELSE results.funcid)
        /\ results'.correct = results.correct /\ results'.misses = results.misses
    BY <2>1 DEF TTTypes
  <2>4. TTTypes'
    BY <2>1, <2>2 DEF TTTypes, TTLabels, Cut, Whole
  <2>5. Registered' /\ AtHand'
    <3>1. Registered'
      BY <2>1, <2>3 DEF Registered, Submission
    <3>2. ExitStatus' = ExitStatus
      BY <2>1 DEF ExitStatus
    <3>3. AtHand'
      BY <2>1, <3>2 DEF AtHand
    <3> QED BY <3>1, <3>3
  <2>6. Validated'
    <3>1. CASE list[func].desc = SUBMIT_DESCRIPTION
      <4>1. CASE results.funcid = 0
        <5>1. results'.correct = 0
          BY <2>3, <4>1 DEF Registered
        <5> QED BY <5>1 DEF Validated
      <4>2. CASE results.funcid # 0
        <5>1. /\ results.funcid \in DOMAIN list /\ results.funcid < func
              /\ list[results.funcid].desc = SUBMIT_DESCRIPTION
          BY <2>1, <4>2 DEF Registered, Submission
        <5>2. ~ OneSubmission'
          <6>1. results'.funcid = func /\ list' = list /\ results.funcid # func
            BY <2>1, <2>3, <3>1, <5>1
          <6> QED BY <5>1, <6>1 DEF OneSubmission
        <5> QED BY <5>2 DEF Validated
      <4> QED BY <4>1, <4>2
    <3>2. CASE ~ list[func].desc = SUBMIT_DESCRIPTION
      BY <2>1, <3>2 DEF Validated, OneSubmission, Submission
    <3> QED BY <3>1, <3>2
  <2>7. Evaluated'
    BY <2>1, <2>3 DEF Evaluated, Behind, Submission, Registered, TTTypes
  <2> QED BY <2>4, <2>5, <2>6, <2>7
<1>2. CASE skip_function
  <2>1. /\ dpc = "status" /\ flag # 0 /\ NextFunction
        /\ UNCHANGED <<list, execs, files, flag, counts, results, output, simfailed>>
    BY <1>2 DEF skip_function
  <2>2. flag = ExitStatus /\ list[func].does # "works"
    BY <2>1 DEF AtHand, ExitStatus
  <2>3. TTTypes'
    BY <2>1, NextTypes DEF TTTypes, TTLabels, files
  <2>4. Registered' /\ AtHand'
    <3>1. Registered'
      BY <2>1, NextTypes DEF Registered, Submission
    <3> QED BY <2>1, <3>1, NextTypes DEF AtHand
  <2>5. Validated'
    BY <2>1 DEF Validated, OneSubmission, Submission
  <2>6. Evaluated'
    BY <2>1, <2>2, NextTypes DEF Evaluated, Behind, Submission, Registered, TTTypes
  <2> QED BY <2>3, <2>4, <2>5, <2>6
<1>3. CASE accept_function
  <2>1. /\ dpc = "status" /\ flag = 0 /\ dpc' = "filter"
        /\ results' = IF results.funcid = func THEN [results EXCEPT !.correct = 1] ELSE results
        /\ UNCHANGED <<list, execs, func, files, flag, counts, output, simfailed>>
    BY <1>3 DEF accept_function
  <2>2. /\ results'.funcid = results.funcid /\ results'.misses = results.misses
        /\ results'.correct = IF results.funcid = func THEN 1 ELSE results.correct
        /\ results' \in [funcid : {0} \cup DOMAIN list, correct : {0, 1}, misses : Int]
    BY <2>1 DEF TTTypes
  <2>3. \/ list[func].does = "works"
        \/ list[func].does = "crashes" /\ execs
    <3>1. ExitStatus = 0
      BY <2>1 DEF AtHand
    <3>2. list[func].does \in {"works", "wrong", "crashes"} /\ func # 0 /\ execs \in BOOLEAN
      BY DEF TTTypes
    <3>3. CASE list[func].does = "wrong"
      <4>1. ExitStatus = func
        BY <3>3 DEF ExitStatus
      <4> QED BY <3>1, <3>2, <4>1
    <3>4. CASE list[func].does = "crashes"
      <4>1. ExitStatus = IF execs THEN 0 ELSE 139
        BY <3>4 DEF ExitStatus
      <4>2. CASE ~ execs
        <5>1. ExitStatus = 139
          BY <4>1, <4>2
        <5> QED BY <3>1, <5>1
      <4>3. CASE execs
        BY <3>4, <4>3
      <4> QED BY <4>2, <4>3
    <3>5. CASE list[func].does = "works"
      BY <3>5
    <3>6. \/ list[func].does = "works" \/ list[func].does = "wrong" \/ list[func].does = "crashes"
      BY <3>2
    <3> QED BY <3>3, <3>4, <3>5, <3>6
  <2>4. TTTypes'
    BY <2>1, <2>2 DEF TTTypes, TTLabels, files
  <2>5. Registered' /\ AtHand'
    <3>1. Registered'
      BY <2>1, <2>2 DEF Registered, Submission
    <3> QED BY <2>1, <3>1 DEF AtHand, files
  <2>6. Validated'
    BY <2>1, <2>2, <2>3 DEF Validated, OneSubmission, Submission
  <2>7. Evaluated'
    BY <2>1, <2>2 DEF Evaluated, Behind, Submission, TTTypes, Registered
  <2> QED BY <2>4, <2>5, <2>6, <2>7
<1>4. CASE filter_trace
  <2>1. PICK t \in IF tracetmp = Whole(func) THEN {tracetmp} ELSE {tracetmp, None} :
               tracef' = [tracef EXCEPT ![func] = t]
    BY <1>4 DEF filter_trace
  <2>2. /\ dpc = "filter" /\ dpc' = "simulate"
        /\ UNCHANGED <<list, execs, func, marker, tracetmp, simresults, flag, counts, results, output, simfailed>>
    BY <1>4 DEF filter_trace
  <2>3. t \in Int /\ tracef' \in [DOMAIN list -> Int] /\ tracef'[func] = t
    BY <2>1 DEF TTTypes, None
  <2>4. TTTypes'
    BY <2>2, <2>3 DEF TTTypes, TTLabels
  <2>5. Registered' /\ AtHand'
    BY <2>1, <2>2, <2>3 DEF Registered, AtHand, Submission
  <2>6. Validated' /\ Evaluated'
    BY <2>2 DEF Validated, OneSubmission, Submission, Evaluated, Behind
  <2> QED BY <2>4, <2>5, <2>6
<1>5. CASE run_csim_ref
  <2>1. /\ dpc = "simulate" /\ dpc' = "collect"
        /\ UNCHANGED <<list, execs, func, marker, tracetmp, tracef, flag, counts, results, output>>
        /\ \/ simresults' = tracef[func] /\ simfailed' = simfailed
           \/ simfailed' = TRUE /\ simresults' = simresults
    BY <1>5 DEF run_csim_ref
  <2>2. TTTypes'
    BY <2>1 DEF TTTypes, TTLabels
  <2>3. Registered' /\ AtHand'
    BY <2>1 DEF Registered, AtHand, Submission
  <2>4. Validated' /\ Evaluated'
    BY <2>1 DEF Validated, OneSubmission, Submission, Evaluated, Behind
  <2> QED BY <2>2, <2>3, <2>4
<1>6. CASE collect
  <2>1. /\ dpc = "collect" /\ UNCHANGED <<list, execs, files, flag, output, simfailed>>
    BY <1>6 DEF collect
  <2>2. CASE simresults = NoFile
    <3>1. dpc' = "abort" /\ UNCHANGED <<func, counts, results>>
      BY <1>6, <2>2 DEF collect
    <3>2. TTTypes'
      BY <2>1, <3>1 DEF TTTypes, TTLabels, files
    <3> QED BY <2>1, <3>1, <3>2 DEF Registered, AtHand, Validated, OneSubmission, Submission, Evaluated, Behind
  <2>3. CASE simresults # NoFile
    <3>1. /\ NextFunction
          /\ results' = IF results.funcid = func THEN [results EXCEPT !.misses = simresults] ELSE results
      BY <1>6, <2>3 DEF collect
    <3>2. /\ results'.funcid = results.funcid /\ results'.correct = results.correct
          /\ results'.misses = IF results.funcid = func THEN simresults ELSE results.misses
          /\ results' \in [funcid : {0} \cup DOMAIN list, correct : {0, 1}, misses : Int]
      BY <3>1 DEF TTTypes
    <3>3. TTTypes'
      BY <2>1, <3>1, <3>2, NextTypes DEF TTTypes, TTLabels, files
    <3>4. Registered' /\ AtHand'
      <4>1. Registered'
        BY <2>1, <3>1, <3>2, NextTypes DEF Registered, Submission
      <4> QED BY <2>1, <3>1, <4>1, NextTypes DEF AtHand
    <3>5. Validated'
      BY <2>1, <3>2 DEF Validated, OneSubmission, Submission
    <3>6. Evaluated'
      BY <2>1, <3>1, <3>2, NextTypes DEF Evaluated, Behind, Submission, Registered, AtHand, TTTypes
    <3> QED BY <3>3, <3>4, <3>5, <3>6
  <2> QED BY <2>2, <2>3
<1>7. CASE emit
  <2>1. /\ dpc = "emit" /\ dpc' = "exit" /\ output' \in {"0:0", "results"}
        /\ UNCHANGED <<list, execs, func, files, flag, counts, results, simfailed>>
    BY <1>7 DEF emit
  <2>2. TTTypes'
    BY <2>1 DEF TTTypes, TTLabels, files
  <2> QED BY <2>1, <2>2 DEF Registered, AtHand, Validated, OneSubmission, Submission, Evaluated, Behind
<1>8. CASE sigalrm_handler
  <2>1. /\ dpc \notin {"exit", "abort"} /\ dpc' = "exit" /\ output' = "0:0"
        /\ UNCHANGED <<list, execs, func, files, flag, counts, results, simfailed>>
    BY <1>8 DEF sigalrm_handler
  <2>2. TTTypes'
    BY <2>1 DEF TTTypes, TTLabels, files
  <2> QED BY <2>1, <2>2 DEF Registered, AtHand, Validated, OneSubmission, Submission, Evaluated, Behind
<1>9. CASE UNCHANGED ttvars
  <2>1. TTTypes' /\ Registered'
    BY <1>9 DEF ttvars, TTTypes, Registered, Submission
  <2>2. ExitStatus' = ExitStatus
    BY <1>9 DEF ttvars, ExitStatus
  <2>3. AtHand'
    BY <1>9, <2>2 DEF ttvars, AtHand
  <2>4. Validated' /\ Evaluated'
    BY <1>9 DEF ttvars, Validated, OneSubmission, Submission, Evaluated, Behind
  <2> QED BY <2>1, <2>3, <2>4
<1> QED BY <1>1, <1>2, <1>3, <1>4, <1>5, <1>6, <1>7, <1>8, <1>9 DEF TTNext

LEMMA TTReports == TTInv => ReportIsRight
<1> SUFFICES ASSUME TTInv, output = "results" PROVE ReportIsRight
  BY DEF ReportIsRight, CorrectMeansValidated, MissesAreItsOwn, RightIsReported
<1>1. CorrectMeansValidated
  BY DEF TTInv, Validated, CorrectMeansValidated
<1>2. results.funcid = 0 => results.correct = 0
  BY DEF TTInv, Registered
<1>3. results.funcid # 0 /\ Submission.does = "works" =>
         results.correct = 1 /\ (~simfailed => results.misses = Whole(results.funcid))
  BY DEF TTInv, Evaluated, Behind
<1>4. MissesAreItsOwn /\ RightIsReported
  BY <1>2, <1>3 DEF MissesAreItsOwn, RightIsReported
<1> QED BY <1>1, <1>4 DEF ReportIsRight

THEOREM ReportIsRightAlways == TTSpec => []ReportIsRight
<1>1. TTSpec => []TTInv
  BY TTInvInit, TTInvNext, PTL DEF TTSpec
<1> QED BY <1>1, TTReports, PTL

----------------------------------------------------------------------------
(* btest                                                                   *)

Functions == 1 .. Len(test_set)
Testing == {"gen", "setjmp", "alarm", "test"}
BTTypes == /\ opt \in BTOptions /\ ti \in Nat \ {0} /\ bpc \in Testing \cup {"select", "exit", "dead"}
           /\ bpc \in Testing => ti \in Functions
           /\ points \in Int /\ max_points \in Int /\ alarmOf \in Nat

(* An alarm that is pending is of the function under test, and there is a  *)
(* place to jump to, or of an earlier one.                                 *)
Armed == /\ alarmOf <= ti
         /\ alarmOf = ti => bpc = "test"
         /\ bpc = "alarm" => envbuf = ti
         /\ bpc = "test" /\ opt.limit => alarmOf = ti
         /\ bpc = "test" /\ alarmOf = ti => envbuf = ti
         /\ bpc = "setjmp" => opt.limit

(* A function loses its points once, when it is left.                      *)
Charged == /\ IsFiniteSet(Lost) /\ \A f \in Lost : f \in Functions /\ f < ti
           /\ \A c \in charged : c.owner <= c.f

(* What was lost, added up in any order, is what is owed.                  *)
AnyOf(s) == CHOOSE x \in s : TRUE
Rating(f) == opt.rating[f]
Rated(S) == \A c \in S : Rating(c) \in Int
AddsUp(S, g) == g = [s \in SUBSET S |-> IF s = {} THEN 0 ELSE Rating(AnyOf(s)) + g[s \ {AnyOf(s)}]]
Open == IF bpc \in Testing THEN opt.rating[ti] ELSE 0
Owed == max_points - Open - points
Balance(S, total) == \E g \in [SUBSET S -> Int] : AddsUp(S, g) /\ g[S] = total
Balanced == \E total \in Int : Balance(Lost, total) /\ (bpc # "dead" => Owed = total)

BTInv == BTTypes /\ Armed /\ Charged /\ Balanced

LEMMA AnyOfIn == ASSUME NEW s, s # {} PROVE AnyOf(s) \in s
BY DEF AnyOf

LEMMA SmallestSet ==
    ASSUME NEW S, IsFiniteSet(S), NEW F \in SUBSET (SUBSET S), F # {}
    PROVE  \E m \in F : \A s \in F : s \subseteq m => s = m
<1>1. IsWellFoundedOn(StrictSubsetOrdering(S), SUBSET S)
  BY FS_StrictSubsetOrderingWellFounded, FS_FiniteSubsetsOfFinite
<1>2. PICK m \in F : \A s \in F : ~ (<<s, m>> \in StrictSubsetOrdering(S))
  BY <1>1, WFMin
<1>3. ASSUME NEW s \in F, s \subseteq m, s # m PROVE FALSE
  <2>1. <<s, m>> \in (SUBSET S) \X (SUBSET S) /\ <<s, m>>[1] = s /\ <<s, m>>[2] = m
    OBVIOUS
  <2> QED BY <1>2, <1>3, <2>1 DEF StrictSubsetOrdering
<1> QED BY <1>2, <1>3

LEMMA OneTotal ==
    ASSUME NEW S, IsFiniteSet(S), NEW g, NEW h, AddsUp(S, g), AddsUp(S, h)
    PROVE  g[S] = h[S]
<1> DEFINE F == {s \in SUBSET S : g[s] # h[s]}
<1>1. SUFFICES ASSUME F # {} PROVE FALSE
  OBVIOUS
<1>2. PICK m \in F : \A s \in F : s \subseteq m => s = m
  <2>1. F \in SUBSET (SUBSET S)
    OBVIOUS
  <2> HIDE DEF F
  <2> QED BY <1>1, <2>1, SmallestSet
<1>3. /\ g[m] = IF m = {} THEN 0 ELSE Rating(AnyOf(m)) + g[m \ {AnyOf(m)}]
      /\ h[m] = IF m = {} THEN 0 ELSE Rating(AnyOf(m)) + h[m \ {AnyOf(m)}]
  BY DEF AddsUp
<1>4. m # {} /\ g[m \ {AnyOf(m)}] # h[m \ {AnyOf(m)}]
  BY <1>2, <1>3
<1>5. m \ {AnyOf(m)} \in F /\ m \ {AnyOf(m)} # m
  BY <1>4, AnyOfIn
<1> QED BY <1>2, <1>5

(* Whichever charge of a set is taken first, the total is the same.        *)
TakenInAnyOrder(S, g) == \A t \in SUBSET S : \A x \in t : g[t] = Rating(x) + g[t \ {x}]

LEMMA AnyOrder ==
    ASSUME NEW S, IsFiniteSet(S), Rated(S),
           NEW g, g \in [SUBSET S -> Int], AddsUp(S, g)
    PROVE  TakenInAnyOrder(S, g)
<1> DEFINE F == {s \in SUBSET S : \E y \in s : g[s] # Rating(y) + g[s \ {y}]}
<1>1. SUFFICES ASSUME F # {} PROVE FALSE
  BY DEF TakenInAnyOrder
<1>2. PICK m \in F : \A s \in F : s \subseteq m => s = m
  <2>1. F \in SUBSET (SUBSET S)
    OBVIOUS
  <2> HIDE DEF F
  <2> QED BY <1>1, <2>1, SmallestSet
<1>3. m \in SUBSET S /\ \E y \in m : g[m] # Rating(y) + g[m \ {y}]
  OBVIOUS
<1>4. PICK y \in m : g[m] # Rating(y) + g[m \ {y}]
  BY <1>3
<1>5. PICK p : p = AnyOf(m) /\ p \in m
  BY <1>4, AnyOfIn
<1>6. g[m] = Rating(p) + g[m \ {p}]
  BY <1>3, <1>4, <1>5 DEF AddsUp
<1>7. p # y
  BY <1>4, <1>6
<1>8. /\ m \ {p} \in SUBSET S /\ m \ {p} # m /\ m \ {p} \subseteq m /\ y \in m \ {p}
      /\ m \ {y} \in SUBSET S /\ m \ {y} # m /\ m \ {y} \subseteq m /\ p \in m \ {y}
      /\ (m \ {p}) \ {y} = (m \ {y}) \ {p} /\ (m \ {p}) \ {y} \in SUBSET S
  BY <1>3, <1>5, <1>7
<1>9. m \ {p} \notin F /\ m \ {y} \notin F
  <2> HIDE DEF F
  <2> QED BY <1>2, <1>8
<1>10. PICK rest : rest = (m \ {p}) \ {y}
  OBVIOUS
<1>11. g[m \ {p}] = Rating(y) + g[rest] /\ g[m \ {y}] = Rating(p) + g[rest]
  BY <1>8, <1>9, <1>10
<1>12. Rating(p) \in Int /\ Rating(y) \in Int /\ g[rest] \in Int
  BY <1>3, <1>5, <1>8, <1>10 DEF Rated
<1>13. g[m] = Rating(y) + g[m \ {y}]
  <2> HIDE DEF F
  <2> QED BY <1>6, <1>11, <1>12
<1> QED BY <1>4, <1>13

(* One more charge.                                                        *)
LEMMA ChargeAdds ==
    ASSUME NEW S, IsFiniteSet(S), NEW c, c \notin S, Rated(S \cup {c}),
           NEW total \in Int, Balance(S, total)
    PROVE  Balance(S \cup {c}, total + Rating(c))
<1>1. PICK g \in [SUBSET S -> Int] : AddsUp(S, g) /\ g[S] = total
  BY DEF Balance
<1>2. PICK U : U = S \cup {c}
  OBVIOUS
<1> DEFINE h == [s \in SUBSET U |-> IF c \in s THEN g[s \ {c}] + Rating(c) ELSE g[s]]
<1>3. \A s \in SUBSET U : s \ {c} \in SUBSET S /\ (c \notin s => s \in SUBSET S)
  BY <1>2
<1>4. h \in [SUBSET U -> Int] /\ h[U] = total + Rating(c)
  <2>1. U \ {c} = S /\ Rating(c) \in Int
    BY <1>2 DEF Rated
  <2>2. \A s \in SUBSET U : (IF c \in s THEN g[s \ {c}] + Rating(c) ELSE g[s]) \in Int
    BY <1>1, <1>3, <2>1
  <2>3. c \in U /\ U \in SUBSET U
    BY <1>2
  <2>4. h[U] = g[U \ {c}] + Rating(c)
    BY <2>3
  <2> QED BY <1>1, <2>1, <2>2, <2>4
<1>5. TakenInAnyOrder(S, g)
  <2>1. Rated(S)
    BY DEF Rated
  <2> HIDE DEF h
  <2> QED BY <1>1, <2>1, AnyOrder
<1>6. ASSUME NEW s \in SUBSET U
      PROVE  h[s] = IF s = {} THEN 0 ELSE Rating(AnyOf(s)) + h[s \ {AnyOf(s)}]
  <2>1. CASE s = {}
    BY <1>1, <2>1 DEF AddsUp
  <2>2. CASE s # {}
    <3>1. PICK p : p = AnyOf(s) /\ p \in s
      BY <2>2, AnyOfIn
    <3>2. PICK t : t = s \ {p} /\ t \in SUBSET U
      <4>1. s \ {p} \in SUBSET U
        OBVIOUS
      <4> HIDE DEF h
      <4> QED BY <4>1
    <3>3. CASE c \notin s
      <4>1. s \in SUBSET S /\ t \in SUBSET S /\ c \notin t /\ h[s] = g[s] /\ h[t] = g[t]
        BY <1>3, <3>2, <3>3
      <4>2. g[s] = Rating(p) + g[t]
        BY <1>1, <2>2, <3>1, <3>2, <4>1 DEF AddsUp
      <4> QED BY <2>2, <3>1, <3>2, <4>1, <4>2
    <3>4. CASE c = p
      <4>1. t = s \ {c} /\ t \in SUBSET S /\ c \notin t /\ h[t] = g[t] /\ h[s] = g[t] + Rating(c)
        BY <1>3, <3>1, <3>2, <3>4
      <4>2. g[t] \in Int /\ Rating(c) \in Int
        BY <4>1 DEF Rated
      <4> QED BY <2>2, <3>1, <3>2, <3>4, <4>1, <4>2
    <3>5. CASE c \in s /\ c # p
      <4>1. PICK r : r = s \ {c} /\ r \in SUBSET S
        BY <1>3
      <4>2. p \in r /\ r \ {p} = t \ {c} /\ r \ {p} \in SUBSET S /\ c \in t
        BY <3>1, <3>2, <3>5, <4>1
      <4>3. g[r] = Rating(p) + g[r \ {p}]
        BY <1>5, <4>1, <4>2 DEF TakenInAnyOrder
      <4>4. h[s] = g[r] + Rating(c) /\ h[t] = g[r \ {p}] + Rating(c)
        BY <3>2, <3>5, <4>1, <4>2
      <4>5. g[r \ {p}] \in Int /\ Rating(c) \in Int /\ Rating(p) \in Int
        BY <3>1, <4>1, <4>2 DEF Rated
      <4> HIDE DEF h
      <4> QED BY <2>2, <3>1, <3>2, <4>3, <4>4, <4>5
    <3> QED BY <3>3, <3>4, <3>5
  <2> QED BY <2>1, <2>2
<1>7. AddsUp(U, h)
  <2>1. h = [s \in SUBSET U |-> h[s]]
    OBVIOUS
  <2> HIDE DEF h
  <2> QED BY <1>6, <2>1 DEF AddsUp
<1> HIDE DEF h
<1> QED BY <1>2, <1>4, <1>7 DEF Balance

LEMMA TotalIs ==
    ASSUME NEW S, IsFiniteSet(S), NEW total, Balance(S, total)
    PROVE  MapThenSumSet(LAMBDA f : opt.rating[f], S) = total
<1>1. PICK g \in [SUBSET S -> Int] : AddsUp(S, g) /\ g[S] = total
  BY DEF Balance
<1> DEFINE h == CHOOSE k : AddsUp(S, k)
<1>2. MapThenSumSet(LAMBDA f : opt.rating[f], S) = h[S]
  BY DEF MapThenSumSet, MapThenFoldSet, AddsUp, AnyOf, Rating
<1>3. AddsUp(S, h)
  BY <1>1
<1> HIDE DEF h
<1> QED BY <1>1, <1>2, <1>3, OneTotal

LEMMA TableLength == Len(test_set) = 13 /\ Functions = 1 .. 13
BY DEF test_set, Functions

LEMMA OptionFacts ==
    ASSUME BTTypes
    PROVE  /\ \A i \in Functions : opt.rating[i] \in Int
           /\ bpc \in Testing => opt.rating[ti] \in Int
           /\ Open \in Int /\ ti \in Nat
<1>1. opt.rating \in [Functions -> Int]
  BY BTestAssumption DEF BTTypes, Functions
<1> QED BY <1>1 DEF BTTypes, Open

LEMMA BTInvInit == BTInit => BTInv
<1> SUFFICES ASSUME BTInit PROVE BTInv
  OBVIOUS
<1>1. BTTypes /\ Armed
  BY DEF BTInit, BTTypes, Armed, Testing
<1>2. Lost = {}
  BY DEF BTInit, Lost
<1>3. Charged
  BY <1>2, FS_EmptySet DEF BTInit, Charged
<1>4. Balance({}, 0)
  <2> DEFINE g == [s \in SUBSET {} |-> 0]
  <2>1. g \in [SUBSET {} -> Int] /\ g[{}] = 0
    OBVIOUS
  <2>2. g = [s \in SUBSET {} |-> IF s = {} THEN 0 ELSE Rating(AnyOf(s)) + g[s \ {AnyOf(s)}]]
    <3>1. \A s \in SUBSET {} : s = {}
      OBVIOUS
    <3> QED BY <3>1
  <2> HIDE DEF g
  <2> QED BY <2>1, <2>2 DEF Balance, AddsUp
<1>5. Balanced
  BY <1>2, <1>4 DEF BTInit, Balanced, Owed, Open, Testing
<1> QED BY <1>1, <1>3, <1>5 DEF BTInv

(* A balance of this state is one of the next: the ratings are those main  *)
(* has set.                                                                *)
LEMMA BalanceKept ==
    ASSUME NEW S, NEW total, Balance(S, total), opt' = opt
    PROVE  Balance(S, total)'
<1>1. PICK g \in [SUBSET S -> Int] : AddsUp(S, g) /\ g[S] = total
  BY DEF Balance
<1>2. g = [s \in SUBSET S |-> IF s = {} THEN 0 ELSE opt.rating[AnyOf(s)] + g[s \ {AnyOf(s)}]]
  BY <1>1 DEF AddsUp, Rating
<1>3. g = [s \in SUBSET S |-> IF s = {} THEN 0 ELSE opt'.rating[AnyOf(s)] + g[s \ {AnyOf(s)}]]
  BY <1>2
<1> QED BY <1>1, <1>3 DEF Balance, AddsUp, Rating

(* No function loses its points.                                           *)
LEMMA NothingLost ==
    ASSUME BTInv, UNCHANGED <<opt, failed, charged>>, ti <= ti', ti \in Nat, ti' \in Nat,
           bpc' # "dead" => bpc # "dead" /\ Owed' = Owed
    PROVE  Charged' /\ Balanced'
<1>1. PICK total \in Int : Balance(Lost, total) /\ (bpc # "dead" => Owed = total)
  BY DEF BTInv, Balanced
<1>2. PICK S : S = Lost
  OBVIOUS
<1>3. Lost' = S
  BY <1>2 DEF Lost
<1>4. Balance(S, total)'
  BY <1>1, <1>2, BalanceKept
<1>5. Balanced'
  BY <1>1, <1>3, <1>4 DEF Balanced
<1>6. \A f \in S : f \in 1 .. 13 /\ f < ti
  BY <1>2, TableLength DEF BTInv, Charged
<1>7. \A f \in S : f \in 1 .. 13 /\ f < ti'
  BY <1>6
<1>8. Charged'
  BY <1>2, <1>3, <1>7, TableLength DEF BTInv, Charged
<1> QED BY <1>5, <1>8

(* The function under test is left, with its points or without.            *)
LEMMA Leaves ==
    ASSUME BTInv, bpc \in {"alarm", "test"}, ti' = ti + 1, bpc' = "select", alarmOf' \in {0, alarmOf},
           UNCHANGED <<opt, max_points, envbuf>>, points' \in Int, \A c \in charged' : c.owner <= c.f,
           \/ points' = points + opt.rating[ti] /\ Lost' = Lost
           \/ points' = points /\ Lost' = Lost \cup {ti}
    PROVE  BTInv'
<1>1. /\ opt \in BTOptions /\ ti \in Nat \ {0} /\ points \in Int /\ max_points \in Int /\ alarmOf \in Nat
      /\ ti \in Functions /\ opt.rating[ti] \in Int
  BY OptionFacts DEF BTInv, BTTypes, Testing
<1>2. BTTypes'
  BY <1>1 DEF BTTypes, Testing
<1>3. Armed'
  BY <1>1 DEF BTInv, Armed
<1>4. /\ Open = opt.rating[ti] /\ Open' = 0 /\ bpc # "dead"
  BY DEF Open, Testing
<1>5. PICK total \in Int : Balance(Lost, total) /\ (bpc # "dead" => Owed = total)
  BY DEF BTInv, Balanced
<1>6. PICK n \in Int : n = opt.rating[ti]
  BY <1>1
<1>7. IsFiniteSet(Lost) /\ (\A f \in Lost : f \in Functions /\ f < ti) /\ ti \notin Lost
  BY <1>1 DEF BTInv, Charged
<1>8. \A f \in Lost \cup {ti} : f \in Functions /\ f < ti'
  BY <1>1, <1>7, TableLength
<1>9. CASE points' = points + opt.rating[ti] /\ Lost' = Lost
  <2>1. Charged'
    BY <1>7, <1>8, <1>9, TableLength DEF Charged, Functions
  <2>2. Owed' = Owed
    BY <1>1, <1>4, <1>9 DEF Owed
  <2>3. Balance(Lost, total)'
    <3>1. PICK S : S = Lost
      OBVIOUS
    <3>2. Balance(S, total)'
      BY <1>5, <3>1, BalanceKept
    <3> QED BY <1>9, <3>1, <3>2
  <2>4. Balanced'
    BY <1>4, <1>5, <2>2, <2>3 DEF Balanced
  <2> QED BY <1>2, <1>3, <2>1, <2>4 DEF BTInv
<1>10. CASE points' = points /\ Lost' = Lost \cup {ti}
  <2>1. PICK S : S = Lost \cup {ti}
    OBVIOUS
  <2>2. Charged'
    <3>1. IsFiniteSet(S)
      BY <1>7, <2>1, FS_AddElement
    <3> QED BY <1>8, <1>10, <2>1, <3>1, TableLength DEF Charged, Functions
  <2>3. Owed' = Owed + n
    BY <1>1, <1>4, <1>6, <1>10 DEF Owed
  <2>4. Balance(S, total + n)
    <3>1. Rated(S)
      BY <1>8, <2>1, OptionFacts DEF BTInv, Rated, Rating
    <3>2. Rating(ti) = n
      BY <1>6 DEF Rating
    <3> QED BY <1>5, <1>7, <2>1, <3>1, <3>2, ChargeAdds
  <2>5. Balance(S, total + n)'
    BY <2>4, BalanceKept
  <2>6. Balanced'
    <3>1. PICK t \in Int : t = total + n
      BY <1>5
    <3>2. Balance(S, t)' /\ Owed' = t
      BY <1>4, <1>5, <2>3, <2>5, <3>1
    <3> QED BY <1>10, <2>1, <3>2 DEF Balanced
  <2> QED BY <1>2, <1>3, <2>2, <2>6 DEF BTInv
<1> QED BY <1>9, <1>10

LEMMA BTInvNext == BTInv /\ [BTNext]_bvars => BTInv'
<1> SUFFICES ASSUME BTInv, [BTNext]_bvars PROVE BTInv'
  OBVIOUS
<1>1. /\ opt \in BTOptions /\ ti \in Nat \ {0} /\ points \in Int /\ max_points \in Int /\ alarmOf \in Nat
      /\ opt.limit \in BOOLEAN
      /\ bpc \in Testing => ti \in Functions /\ opt.rating[ti] \in Int
      /\ Functions = 1 .. 13 /\ Len(test_set) = 13
  BY BTestAssumption, OptionFacts, TableLength DEF BTInv, BTTypes
<1>2. CASE run_tests
  <2>1. CASE opt.only \in {"all", T.name}
    <3>1. /\ bpc = "select" /\ ti \in Functions /\ bpc' = "gen" /\ max_points' = max_points + opt.rating[ti]
          /\ UNCHANGED <<opt, ti, vals, failed, points, envbuf, alarmOf, charged>>
      BY <1>1, <1>2, <2>1 DEF run_tests
    <3>2. opt.rating[ti] \in Int
      BY <3>1, OptionFacts DEF BTInv
    <3>3. BTTypes' /\ Armed'
      BY <1>1, <3>1, <3>2 DEF BTInv, BTTypes, Armed, Testing, Functions
    <3>4. Open = 0 /\ Open' = opt.rating[ti]
      BY <3>1 DEF Open, Testing
    <3>5. Owed' = Owed
      BY <1>1, <3>1, <3>2, <3>4 DEF Owed
    <3> QED BY <1>1, <3>1, <3>3, <3>5, NothingLost DEF BTInv
  <2>2. CASE ~ (opt.only \in {"all", T.name})
    <3>1. /\ bpc = "select" /\ ti' = ti + 1
          /\ UNCHANGED <<opt, bpc, max_points, vals, failed, points, envbuf, alarmOf, charged>>
      BY <1>2, <2>2 DEF run_tests
    <3>2. BTTypes' /\ Armed'
      BY <1>1, <3>1 DEF BTInv, BTTypes, Armed, Testing
    <3>3. Owed' = Owed
      BY <3>1 DEF Owed, Open, Testing
    <3> QED BY <1>1, <3>1, <3>2, <3>3, NothingLost DEF BTInv
  <2> QED BY <2>1, <2>2
<1>3. CASE test_function
  <2>1. /\ bpc = "gen" /\ bpc' = (IF opt.limit THEN "setjmp" ELSE "test")
        /\ UNCHANGED <<opt, ti, failed, points, max_points, envbuf, alarmOf, charged>>
    BY <1>3 DEF test_function
  <2>2. BTTypes' /\ Armed'
    BY <1>1, <2>1 DEF BTInv, BTTypes, Armed, Testing, Functions
  <2>3. Owed' = Owed
    BY <2>1 DEF Owed, Open, Testing
  <2> QED BY <1>1, <2>1, <2>2, <2>3, NothingLost DEF BTInv
<1>4. CASE arm
  <2>1. /\ \/ bpc = "setjmp" /\ bpc' = "alarm" /\ envbuf' = ti /\ alarmOf' = alarmOf
           \/ bpc = "alarm" /\ bpc' = "test" /\ alarmOf' = ti /\ envbuf' = envbuf
        /\ UNCHANGED <<opt, ti, vals, failed, points, max_points, charged>>
    BY <1>4 DEF arm
  <2>2. BTTypes' /\ Armed'
    BY <1>1, <2>1 DEF BTInv, BTTypes, Armed, Testing, Functions
  <2>3. Owed' = Owed
    BY <2>1 DEF Owed, Open, Testing
  <2> QED BY <1>1, <2>1, <2>2, <2>3, NothingLost DEF BTInv
<1>5. CASE test_arg
  <2>1. /\ bpc = "test" /\ UNCHANGED <<opt, max_points, envbuf, alarmOf, charged>>
        /\ \/ UNCHANGED <<ti, bpc, points, failed>>
           \/ failed' = failed \cup {ti} /\ points' = points + 0 /\ ti' = ti + 1 /\ bpc' = "select"
    BY <1>5 DEF test_arg, Return
  <2>2. CASE UNCHANGED <<ti, bpc, points, failed>>
    <3>1. BTTypes' /\ Armed' /\ Owed' = Owed
      BY <2>1, <2>2 DEF BTInv, BTTypes, Armed, Owed, Open
    <3> QED BY <1>1, <2>1, <2>2, <3>1, NothingLost DEF BTInv
  <2>3. CASE failed' = failed \cup {ti} /\ points' = points + 0 /\ ti' = ti + 1 /\ bpc' = "select"
    <3>1. Lost' = Lost \cup {ti} /\ \A c \in charged' : c.owner <= c.f
      BY <2>1, <2>3 DEF BTInv, Charged, Lost
    <3> QED BY <1>1, <2>1, <2>3, <3>1, Leaves
  <2> QED BY <2>1, <2>2, <2>3
<1>6. CASE test_done
  <2>1. /\ bpc = "test" /\ UNCHANGED <<opt, max_points, envbuf, alarmOf, charged>>
        /\ ti' = ti + 1 /\ bpc' = "select"
        /\ \/ points' = points + opt.rating[ti] /\ failed' = failed
           \/ points' = points + 0 /\ failed' = failed \cup {ti}
    BY <1>6 DEF test_done, Return
  <2>2. /\ \/ points' = points + opt.rating[ti] /\ Lost' = Lost
           \/ points' = points /\ Lost' = Lost \cup {ti}
        /\ \A c \in charged' : c.owner <= c.f
    BY <1>1, <2>1 DEF BTInv, Charged, Lost
  <2>3. points' \in Int
    BY <1>1, <2>1 DEF Testing
  <2> QED BY <2>1, <2>2, <2>3, Leaves
<1>7. CASE timeout_handler
  <2>1. CASE envbuf = ti /\ bpc \in {"alarm", "test"}
    <3>1. PICK c : c = [f |-> ti, owner |-> alarmOf]
      OBVIOUS
    <3>2. /\ charged' = charged \cup {c} /\ points' = points + 0 /\ ti' = ti + 1 /\ bpc' = "select" /\ alarmOf' = 0
          /\ UNCHANGED <<opt, failed, max_points, envbuf>>
      BY <1>7, <2>1, <3>1 DEF timeout_handler, Return
    <3>3. c.f = ti /\ c.owner = alarmOf /\ alarmOf <= ti
      BY <3>1 DEF BTInv, Armed
    <3>4. Lost' = Lost \cup {ti}
      BY <3>2, <3>3 DEF Lost
    <3>5. \A d \in charged' : d.owner <= d.f
      BY <3>2, <3>3 DEF BTInv, Charged
    <3> QED BY <1>1, <2>1, <3>2, <3>4, <3>5, Leaves
  <2>2. CASE ~ (envbuf = ti /\ bpc \in {"alarm", "test"})
    <3>1. /\ alarmOf # 0 /\ bpc' = "dead" /\ bpc # "dead"
          /\ UNCHANGED <<opt, points, ti, vals, charged, alarmOf, failed, max_points, envbuf>>
      BY <1>7, <2>2 DEF timeout_handler
    <3>2. alarmOf # ti
      BY <2>2 DEF BTInv, Armed
    <3>3. BTTypes' /\ Armed'
      BY <1>1, <3>1, <3>2 DEF BTInv, BTTypes, Armed, Testing
    <3> QED BY <1>1, <3>1, <3>3, NothingLost DEF BTInv
  <2> QED BY <2>1, <2>2
<1>8. CASE bt_exit
  <2>1. /\ bpc = "select" /\ bpc' = "exit"
        /\ UNCHANGED <<opt, ti, vals, failed, points, max_points, envbuf, alarmOf, charged>>
    BY <1>8 DEF bt_exit
  <2>2. BTTypes' /\ Armed'
    BY <1>1, <2>1 DEF BTInv, BTTypes, Armed, Testing
  <2>3. Owed' = Owed
    BY <2>1 DEF Owed, Open, Testing
  <2> QED BY <1>1, <2>1, <2>2, <2>3, NothingLost DEF BTInv
<1>9. CASE UNCHANGED bvars
  <2>1. UNCHANGED <<opt, ti, bpc, failed, points, max_points, envbuf, alarmOf, charged>>
    BY <1>9 DEF bvars
  <2>2. BTTypes' /\ Armed' /\ Owed' = Owed
    BY <2>1 DEF BTInv, BTTypes, Armed, Owed, Open
  <2> QED BY <1>1, <2>1, <2>2, NothingLost DEF BTInv
<1> QED BY <1>2, <1>3, <1>4, <1>5, <1>6, <1>7, <1>8, <1>9 DEF BTNext

LEMMA BTCharges == BTInv => ChargesAreRight
<1> SUFFICES ASSUME BTInv PROVE ChargesAreRight
  OBVIOUS
<1>1. AlarmFindsItsFunction
  BY DEF BTInv, Armed, Charged, AlarmFindsItsFunction, BTTypes
<1>2. PointsExact
  <2>1. PICK total \in Int : Balance(Lost, total) /\ (bpc # "dead" => Owed = total)
    BY DEF BTInv, Balanced
  <2>2. MapThenSumSet(LAMBDA f : opt.rating[f], Lost) = total
    BY <2>1, TotalIs DEF BTInv, Charged
  <2>3. bpc = "exit" => points = max_points - total
    BY <2>1 DEF BTInv, Owed, Open, Testing, BTTypes
  <2> QED BY <2>2, <2>3 DEF PointsExact
<1> QED BY <1>1, <1>2 DEF ChargesAreRight

THEOREM ChargesAreRightAlways == BTSpec => []ChargesAreRight
<1>1. BTSpec => []BTInv
  BY BTInvInit, BTInvNext, PTL DEF BTSpec
<1> QED BY <1>1, BTCharges, PTL
==============================================================================
