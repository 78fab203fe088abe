------------------------ MODULE EchoServerPreProofs ------------------------
(***************************************************************************)
(* Proofs about the prethreaded echo server, for any finite set of workers *)
(* and any number of slots: every open connection has exactly one holder,  *)
(* their number is bounded, and no byte is counted twice or forgotten.     *)
(* The bounded buffer is used by what SBufProofs proves of it.             *)
(***************************************************************************)
EXTENDS EchoServerPre, FiniteSetTheorems, SequenceTheorems, WellFoundedInduction, TLAPS

Ring == INSTANCE SBufProofs WITH Producers <- {Main}, Consumers <- Workers, Values <- Fds

----------------------------------------------------------------------------
(* Sums over finite sets.  Total is a fold, a function defined by          *)
(* recursion over the subsets of S; the induction that shows the function  *)
(* exists, and that the order of the additions is of no consequence, is    *)
(* the choice of a minimal counterexample.                                 *)

Pick(s) == CHOOSE x \in s : TRUE

Sums(f, S, g) == g = [s \in SUBSET S |-> IF s = {} THEN 0 ELSE f[Pick(s)] + g[s \ {Pick(s)}]]

LEMMA PickIn == ASSUME NEW s, s # {} PROVE Pick(s) \in s
BY DEF Pick

(* A nonempty family of subsets of a finite set has a minimal element.     *)
LEMMA MinimalSubset ==
    ASSUME NEW S, IsFiniteSet(S), NEW F \in SUBSET (SUBSET S), F # {}
    PROVE  \E m \in F : \A s \in F : s \subseteq m => s = m
<1>1. IsWellFoundedOn(StrictSubsetOrdering(S), SUBSET S)
  BY FS_StrictSubsetOrderingWellFounded, FS_FiniteSubsetsOfFinite
<1>2. PICK m \in F : \A s \in F : ~ (<<s, m>> \in StrictSubsetOrdering(S))
  BY <1>1, WFMin
<1>3. ASSUME NEW s \in F, s \subseteq m, s # m PROVE FALSE
  <2>1. <<s, m>> \in (SUBSET S) \X (SUBSET S) /\ <<s, m>>[1] = s /\ <<s, m>>[2] = m
    OBVIOUS
  <2> QED BY <1>2, <1>3, <2>1 DEF StrictSubsetOrdering
<1> QED BY <1>2, <1>3

LEMMA SumsUnique ==
    ASSUME NEW f, NEW S, IsFiniteSet(S), NEW T \in SUBSET S, NEW g, NEW h,
           Sums(f, S, g), Sums(f, T, h)
    PROVE  \A s \in SUBSET T : g[s] = h[s]
<1> DEFINE F == {s \in SUBSET T : g[s] # h[s]}
<1>1. SUFFICES ASSUME F # {} PROVE FALSE
  OBVIOUS
<1>2. PICK m \in F : \A s \in F : s \subseteq m => s = m
  <2>1. F \in SUBSET (SUBSET S)
    OBVIOUS
  <2> HIDE DEF F
  <2> QED BY <1>1, <2>1, MinimalSubset
<1>3. m \in SUBSET T /\ m \in SUBSET S
  OBVIOUS
<1>4. /\ g[m] = IF m = {} THEN 0 ELSE f[Pick(m)] + g[m \ {Pick(m)}]
      /\ h[m] = IF m = {} THEN 0 ELSE f[Pick(m)] + h[m \ {Pick(m)}]
  BY <1>3 DEF Sums
<1>5. m # {} /\ g[m \ {Pick(m)}] # h[m \ {Pick(m)}]
  BY <1>4, <1>2
<1>6. m \ {Pick(m)} \in F /\ m \ {Pick(m)} # m
  BY <1>3, <1>5, PickIn
<1> QED BY <1>2, <1>6

LEMMA SumsExists ==
    ASSUME NEW f, NEW U, IsFiniteSet(U)
    PROVE  \A S \in SUBSET U : \E g : Sums(f, S, g)
<1> DEFINE F == {S \in SUBSET U : ~ \E g : Sums(f, S, g)}
<1>1. SUFFICES ASSUME F # {} PROVE FALSE
  OBVIOUS
<1>2. PICK M \in F : \A s \in F : s \subseteq M => s = M
  <2>1. F \in SUBSET (SUBSET U)
    OBVIOUS
  <2> HIDE DEF F
  <2> QED BY <1>1, <2>1, MinimalSubset
<1> DEFINE H(T) == CHOOSE h : Sums(f, T, h)
           R(s) == s \ {Pick(s)}
           G == [s \in SUBSET M |-> IF s = {} THEN 0 ELSE f[Pick(s)] + H(R(s))[R(s)]]
<1>3. ASSUME NEW T \in SUBSET M, T # M PROVE Sums(f, T, H(T)) /\ IsFiniteSet(T)
  <2>1. T \in SUBSET U /\ T \notin F
    BY <1>2, <1>3
  <2>2. \E h : Sums(f, T, h)
    BY <2>1
  <2> QED BY <2>1, <2>2, FS_Subset
<1>4. ASSUME NEW T \in SUBSET M, T # M PROVE G[T] = H(T)[T]
  <2>1. H(T)[T] = IF T = {} THEN 0 ELSE f[Pick(T)] + H(T)[R(T)]
    <3>1. Sums(f, T, H(T)) /\ T \in SUBSET T
      BY <1>3, <1>4
    <3> HIDE DEF H
    <3> QED BY <3>1 DEF Sums
  <2>2. ASSUME T # {} PROVE H(T)[R(T)] = H(R(T))[R(T)]
    <3>1. R(T) \in SUBSET T /\ R(T) \in SUBSET M /\ R(T) # M
      BY <1>4, <2>2, PickIn
    <3>2. Sums(f, T, H(T)) /\ Sums(f, R(T), H(R(T))) /\ IsFiniteSet(T)
      BY <1>3, <1>4, <3>1
    <3>3. R(T) \in SUBSET R(T)
      OBVIOUS
    <3> HIDE DEF H, R
    <3> QED BY <3>1, <3>2, <3>3, SumsUnique
  <2> HIDE DEF H, R
  <2> QED BY <2>1, <2>2
<1>5. \A s \in SUBSET M : s # {} => G[R(s)] = H(R(s))[R(s)]
  <2> TAKE s \in SUBSET M
  <2> HAVE s # {}
  <2>1. R(s) \in SUBSET M /\ R(s) # M
    BY PickIn
  <2> QED BY <1>4, <2>1
<1>6. Sums(f, M, G)
  <2> HIDE DEF H
  <2>1. G = [s \in SUBSET M |-> IF s = {} THEN 0 ELSE f[Pick(s)] + H(R(s))[R(s)]]
    OBVIOUS
  <2> HIDE DEF G
  <2>2. G = [s \in SUBSET M |-> IF s = {} THEN 0 ELSE f[Pick(s)] + G[R(s)]]
    BY <1>5, <2>1
  <2> QED BY <2>2 DEF Sums
<1> QED BY <1>2, <1>6

LEMMA TotalStep ==
    ASSUME NEW f, NEW S, IsFiniteSet(S)
    PROVE  /\ Total(f, {}) = 0
           /\ S # {} => Total(f, S) = f[Pick(S)] + Total(f, S \ {Pick(S)})
<1> DEFINE C(T) == CHOOSE g : Sums(f, T, g)
<1>1. \A T : Total(f, T) = C(T)[T]
  BY DEF Total, MapThenSumSet, MapThenFoldSet, Pick, Sums
<1>2. \A T \in SUBSET S : Sums(f, T, C(T))
  BY SumsExists
<1>3. Total(f, {}) = 0
  <2>1. Sums(f, {}, C({})) /\ {} \in SUBSET {}
    BY <1>2
  <2> HIDE DEF C
  <2> QED BY <1>1, <2>1 DEF Sums
<1>4. ASSUME S # {} PROVE Total(f, S) = f[Pick(S)] + Total(f, S \ {Pick(S)})
  <2> DEFINE T == S \ {Pick(S)}
  <2>1. Sums(f, S, C(S)) /\ Sums(f, T, C(T)) /\ T \in SUBSET S /\ T \in SUBSET T /\ S \in SUBSET S
    BY <1>2
  <2>2. C(S)[T] = C(T)[T]
    <3> HIDE DEF C, T
    <3> QED BY <2>1, SumsUnique
  <2>3. C(S)[S] = f[Pick(S)] + C(S)[T]
    <3> HIDE DEF C
    <3> QED BY <1>4, <2>1 DEF Sums
  <2> QED BY <1>1, <2>2, <2>3
<1> QED BY <1>3, <1>4

LEMMA TotalRemove ==
    ASSUME NEW U, IsFiniteSet(U), NEW f \in [U -> Int]
    PROVE  \A S \in SUBSET U : /\ Total(f, S) \in Int
                               /\ \A x \in S : Total(f, S) = f[x] + Total(f, S \ {x})
<1> DEFINE F == {S \in SUBSET U : ~ (/\ Total(f, S) \in Int
                                     /\ \A x \in S : Total(f, S) = f[x] + Total(f, S \ {x}))}
<1>1. SUFFICES ASSUME F # {} PROVE FALSE
  OBVIOUS
<1>2. PICK M \in F : \A s \in F : s \subseteq M => s = M
  <2>1. F \in SUBSET (SUBSET U)
    OBVIOUS
  <2> HIDE DEF F
  <2> QED BY <1>1, <2>1, MinimalSubset
<1>3. M \in SUBSET U
  OBVIOUS
<1>4. \A T \in SUBSET M : T # M => /\ Total(f, T) \in Int
                                   /\ \A x \in T : Total(f, T) = f[x] + Total(f, T \ {x})
  BY <1>2
<1>5. IsFiniteSet(M)
  BY <1>3, FS_Subset
<1> DEFINE y == Pick(M)
<1>6. M # {}
  <2>1. Total(f, {}) = 0
    BY <1>5, TotalStep
  <2>2. M = {} => Total(f, M) \in Int /\ \A x \in M : Total(f, M) = f[x] + Total(f, M \ {x})
    BY <2>1
  <2> QED BY <2>2
<1>7. y \in M /\ f[y] \in Int /\ Total(f, M) = f[y] + Total(f, M \ {y})
  BY <1>3, <1>5, <1>6, PickIn, TotalStep
<1> HIDE DEF y
<1>8. Total(f, M \ {y}) \in Int
  BY <1>4, <1>7
<1>9. ASSUME NEW x \in M, x # y PROVE Total(f, M) = f[x] + Total(f, M \ {x})
  <2>1. Total(f, M \ {y}) = f[x] + Total(f, (M \ {y}) \ {x})
    BY <1>4, <1>7, <1>9
  <2>2. Total(f, M \ {x}) = f[y] + Total(f, (M \ {x}) \ {y})
    BY <1>4, <1>7, <1>9
  <2>3. (M \ {x}) \ {y} = (M \ {y}) \ {x}
    OBVIOUS
  <2>4. f[x] \in Int /\ Total(f, (M \ {y}) \ {x}) \in Int
    <3>1. (M \ {y}) \ {x} \in SUBSET M /\ (M \ {y}) \ {x} # M
      BY <1>7
    <3> QED BY <1>3, <1>4, <3>1
  <2>5. \A a, b, c \in Int : a + (b + c) = b + (a + c)
    OBVIOUS
  <2>6. f[y] + (f[x] + Total(f, (M \ {y}) \ {x})) = f[x] + (f[y] + Total(f, (M \ {y}) \ {x}))
    BY <1>7, <2>4, <2>5
  <2> QED BY <1>7, <2>1, <2>2, <2>3, <2>6
<1>10. Total(f, M) \in Int
  <2>1. \A a, b \in Int : a + b \in Int
    OBVIOUS
  <2> QED BY <1>7, <1>8, <2>1
<1>11. \A x \in M : Total(f, M) = f[x] + Total(f, M \ {x})
  <2> TAKE x \in M
  <2> QED BY <1>7, <1>9
<1> QED BY <1>2, <1>10, <1>11
LEMMA TotalSame ==
    ASSUME NEW U, IsFiniteSet(U), NEW f, NEW g, \A x \in U : f[x] = g[x]
    PROVE  Total(f, U) = Total(g, U)
<1> DEFINE F == {T \in SUBSET U : Total(f, T) # Total(g, T)}
<1>1. SUFFICES ASSUME F # {} PROVE FALSE
  OBVIOUS
<1>2. PICK M \in F : \A s \in F : s \subseteq M => s = M
  <2>1. F \in SUBSET (SUBSET U)
    OBVIOUS
  <2> HIDE DEF F
  <2> QED BY <1>1, <2>1, MinimalSubset
<1>3. M \in SUBSET U /\ IsFiniteSet(M) /\ Total(f, M) # Total(g, M)
  BY FS_Subset
<1>4. Total(f, {}) = 0 /\ Total(g, {}) = 0
  BY <1>3, TotalStep
<1>5. M # {}
  BY <1>3, <1>4
<1>6. M \ {Pick(M)} \in SUBSET U /\ M \ {Pick(M)} # M /\ f[Pick(M)] = g[Pick(M)]
  BY <1>3, <1>5, PickIn
<1>7. Total(f, M \ {Pick(M)}) = Total(g, M \ {Pick(M)})
  BY <1>2, <1>6
<1>8. /\ Total(f, M) = f[Pick(M)] + Total(f, M \ {Pick(M)})
      /\ Total(g, M) = g[Pick(M)] + Total(g, M \ {Pick(M)})
  BY <1>3, <1>5, TotalStep
<1> QED BY <1>3, <1>6, <1>7, <1>8

LEMMA TotalNat ==
    ASSUME NEW U, IsFiniteSet(U), NEW f \in [U -> Nat]
    PROVE  Total(f, U) \in Nat
<1> DEFINE F == {T \in SUBSET U : Total(f, T) \notin Nat}
<1>1. SUFFICES ASSUME F # {} PROVE FALSE
  OBVIOUS
<1>2. PICK M \in F : \A s \in F : s \subseteq M => s = M
  <2>1. F \in SUBSET (SUBSET U)
    OBVIOUS
  <2> HIDE DEF F
  <2> QED BY <1>1, <2>1, MinimalSubset
<1>3. M \in SUBSET U /\ IsFiniteSet(M) /\ Total(f, M) \notin Nat
  BY FS_Subset
<1>4. M # {}
  <2>1. Total(f, {}) = 0
    BY <1>3, TotalStep
  <2> QED BY <1>3, <2>1
<1>5. M \ {Pick(M)} \in SUBSET U /\ M \ {Pick(M)} # M /\ f[Pick(M)] \in Nat
  BY <1>3, <1>4, PickIn
<1>6. Total(f, M \ {Pick(M)}) \in Nat
  BY <1>2, <1>5
<1>7. Total(f, M) = f[Pick(M)] + Total(f, M \ {Pick(M)})
  BY <1>3, <1>4, TotalStep
<1>8. \A a, b \in Nat : a + b \in Nat
  OBVIOUS
<1> QED BY <1>3, <1>5, <1>6, <1>7, <1>8

----------------------------------------------------------------------------
(* The buffer the server uses                                              *)

LEMMA RingAssumption ==
    /\ Ring!IsFiniteSet({Main}) /\ Ring!IsFiniteSet(Workers)
    /\ {Main} \cap Workers = {} /\ N \in Nat \ {0} /\ IntMax \in Nat /\ Zero \notin Fds
<1>1. IsFiniteSet({Main}) /\ IsFiniteSet(Workers)
  BY EchoAssumption, FS_Singleton
<1>2. ASSUME NEW T, IsFiniteSet(T) PROVE Ring!IsFiniteSet(T)
  BY <1>2 DEF Ring!IsFiniteSet, IsFiniteSet
<1> QED BY <1>1, <1>2, EchoAssumption

(* EchoServerPre and the proofs about the buffer instantiate SBuf with the *)
(* same arguments: their definitions are the same.                         *)
LEMMA SameBuffer ==
    /\ B!Init => Ring!Init
    /\ Ring!TypeOK => B!TypeOK
    /\ Ring!Contents = B!Contents
    /\ (Ring!Contents)' = (B!Contents)'
    /\ bvars' = bvars => [Ring!Next]_(Ring!vars)
<1>1. B!Init => Ring!Init
  BY DEF B!Init, Ring!Init, B!sbuf_init, Ring!sbuf_init, B!Threads, Ring!Threads
<1>2. Ring!TypeOK => B!TypeOK
  BY DEF B!TypeOK, Ring!TypeOK, B!Threads, Ring!Threads, B!InsertPC, Ring!InsertPC,
     B!RemovePC, Ring!RemovePC
<1>3. Ring!Contents = B!Contents
  BY DEF Ring!Contents, B!Contents, Ring!StoredRear, B!StoredRear, Ring!LoadedFront,
     B!LoadedFront, Ring!At, B!At, Ring!Threads, B!Threads
<1>4. (Ring!Contents)' = (B!Contents)'
  BY DEF Ring!Contents, B!Contents, Ring!StoredRear, B!StoredRear, Ring!LoadedFront,
     B!LoadedFront, Ring!At, B!At, Ring!Threads, B!Threads
<1>5. bvars' = bvars => [Ring!Next]_(Ring!vars)
  BY DEF bvars, Ring!vars
<1> QED BY <1>1, <1>2, <1>3, <1>4, <1>5

LEMMA SameInsert ==
    /\ B!InsertStep(Main) => Ring!Next
    /\ \A v \in Fds : B!InsertCall(Main, v) => Ring!Next
<1>1. B!InsertStep(Main) => Ring!InsertStep(Main)
  BY DEF B!InsertStep, B!PSlots, B!PMutex, B!IncRear, B!Store, B!VMutex, B!VItems, B!Goto,
     Ring!InsertStep, Ring!PSlots, Ring!PMutex, Ring!IncRear, Ring!Store, Ring!VMutex,
     Ring!VItems, Ring!Goto
<1>2. \A v \in Fds : B!InsertCall(Main, v) => Ring!InsertCall(Main, v)
  BY DEF B!InsertCall, B!Goto, Ring!InsertCall, Ring!Goto
<1> QED BY <1>1, <1>2 DEF Ring!Next

LEMMA SameRemove ==
    \A c \in Workers : B!RemoveCall(c) \/ B!RemoveStep(c) => Ring!Next
<1> TAKE c \in Workers
<1>1. B!RemoveStep(c) => Ring!RemoveStep(c)
  BY DEF B!RemoveStep, B!PItems, B!PMutex, B!IncFront, B!Load, B!VMutex, B!VSlots, B!Goto,
     Ring!RemoveStep, Ring!PItems, Ring!PMutex, Ring!IncFront, Ring!Load, Ring!VMutex,
     Ring!VSlots, Ring!Goto
<1>2. B!RemoveCall(c) => Ring!RemoveCall(c)
  BY DEF B!RemoveCall, B!Goto, Ring!RemoveCall, Ring!Goto
<1> QED BY <1>1, <1>2 DEF Ring!Next

(* What SBufProofs says of a step of the buffer, in the server's terms.    *)
LEMMA BufferStep ==
    ASSUME Ring!FInv, [Ring!Next]_(Ring!vars)
    PROVE  /\ (Ring!FInv)'
           /\ pc[Main] = "store" /\ pc'[Main] # "store" =>
                (B!Contents)' = Append(B!Contents, item[Main])
           /\ \A w \in Workers : pc[w] = "load" /\ pc'[w] # "load" =>
                /\ B!Contents # << >> /\ (B!Contents)' = Tail(B!Contents)
                /\ item'[w] = Head(B!Contents)
           /\ \A t \in {Main} \cup Workers :
                pc'[t] # pc[t] /\ pc[t] \notin {"store", "load"} =>
                  (B!Contents)' = B!Contents
BY RingAssumption, SameBuffer, Ring!RingStep DEF Ring!Threads

LEMMA BufferContents ==
    ASSUME Ring!FInv
    PROVE  /\ B!Contents \in Seq(Fds) /\ Len(B!Contents) <= N
           /\ Ring!TypeOK
<1>1. Ring!Contents \in Seq(Fds) /\ Len(Ring!Contents) <= N
  BY RingAssumption, Ring!RingContents
<1> QED BY <1>1, SameBuffer DEF Ring!FInv, Ring!Inv

----------------------------------------------------------------------------
(* The inductive invariant *)

(* The types of the server's own variables. *)
Types == /\ open \subseteq Fds /\ alive \in BOOLEAN
         /\ wpc \in [Workers -> WorkerPC]
         /\ n \in [Workers -> LineSizes \cup {0}] /\ tmp \in [Workers -> 0 .. ByteMax]
         /\ once \in {"new", "running", "done"} /\ cmutex \in 0 .. 1
         /\ byte_cnt \in 0 .. ByteMax /\ received \in 0 .. ByteMax

(* A worker is in sbuf_remove only while it waits for a connection. *)
Serving == \A w \in Workers : wpc[w] # "remove" => pc[w] = "idle"

(* The three places a descriptor can be in, as OneHolder counts them. *)
Sending == pc[Main] \notin {"idle", "V_mutex", "V_items"}
Holding == {w \in Workers : wpc[w] # "remove" \/ pc[w] \in {"V_mutex", "V_slots"}}
Places == DOMAIN B!Contents

(* Each place holds an open descriptor, ... *)
HoldersOpen == /\ Sending => item[Main] \in open
               /\ \A i \in Places : B!Contents[i] \in open
               /\ \A w \in Holding : item[w] \in open

(* ... no two places hold the same one, ... *)
HoldersDistinct ==
    /\ Sending => /\ \A i \in Places : B!Contents[i] # item[Main]
                  /\ \A w \in Holding : item[w] # item[Main]
    /\ \A i, j \in Places : B!Contents[i] = B!Contents[j] => i = j
    /\ \A v, w \in Holding : item[v] = item[w] => v = w
    /\ \A i \in Places, w \in Holding : B!Contents[i] # item[w]

(* ... and every open descriptor is in one. *)
OpenHeld == \A fd \in open : \/ Sending /\ item[Main] = fd
                             \/ \E i \in Places : B!Contents[i] = fd
                             \/ \E w \in Holding : item[w] = fd

(* Nobody counts before init_echo_cnt has run, and it runs once. *)
CountStarts ==
    /\ once # "done" => /\ received = 0 /\ byte_cnt = 0 /\ cmutex = 0
                        /\ \A w \in Workers : wpc[w] \in {"remove", "once", "init"}
    /\ \A w \in Workers : wpc[w] = "init" => once = "running"
    /\ \A v, w \in Workers : wpc[v] = "init" /\ wpc[w] = "init" => v = w

(* Between P(&mutex) and V(&mutex) of echo_cnt is at most one worker, and  *)
(* while it is there byte_cnt is the value it has loaded.                  *)
Locked == {"load_cnt", "store_cnt", "V_cnt"}
CountLocked ==
    /\ \A v, w \in Workers : wpc[v] \in Locked /\ wpc[w] \in Locked => v = w
    /\ cmutex > 0 => \A w \in Workers : wpc[w] \notin Locked
    /\ once = "done" /\ cmutex = 0 => \E w \in Workers : wpc[w] \in Locked
    /\ \A w \in Workers : wpc[w] = "store_cnt" => tmp[w] = byte_cnt

Accounts == HoldersOpen /\ HoldersDistinct /\ OpenHeld
Counting == CountStarts /\ CountLocked /\ ByteCountExact

Inv == Types /\ Ring!FInv /\ Serving /\ Accounts /\ Counting

LEMMA InvInit == Init => Inv
<1> SUFFICES ASSUME Init PROVE Inv
  OBVIOUS
<1>1. Ring!FInv /\ Ring!Contents = << >>
  BY RingAssumption, SameBuffer, Ring!FInvInit DEF Init, Ring!Fifo!Init
<1>2. Types
  BY EchoAssumption DEF Init, Types, WorkerPC
<1>3. \A t \in {Main} \cup Workers : pc[t] = "idle"
  BY DEF Init, B!Init, B!Threads
<1>4. Serving /\ ~ Sending /\ Holding = {}
  BY <1>3 DEF Init, Serving, Sending, Holding
<1>5. Places = {}
  BY <1>1, SameBuffer DEF Places
<1>6. Accounts
  BY <1>4, <1>5 DEF Init, Accounts, HoldersOpen, HoldersDistinct, OpenHeld
<1>7. CountStarts /\ CountLocked
  BY DEF Init, CountStarts, CountLocked, Locked
<1>8. Uncounted = {}
  BY DEF Init, Uncounted
<1>9. Total(n, {}) = 0
  BY FS_EmptySet, TotalStep
<1> QED BY <1>1, <1>2, <1>4, <1>6, <1>7, <1>8, <1>9 DEF Inv, Counting, ByteCountExact, Init

----------------------------------------------------------------------------
(* The buffer takes a step of its own in every step of the server.         *)

LEMMA LeastNatural ==
    ASSUME NEW D \in SUBSET Nat, D # {}
    PROVE  Min(D) \in D
<1>1. PICK x \in D : \A y \in D : ~ (<<y, x>> \in OpToRel(<, Nat))
  BY NatLessThanWellFounded, WFMin
<1>2. ASSUME NEW y \in D, y < x PROVE FALSE
  <2>1. <<y, x>> \in Nat \X Nat /\ <<y, x>>[1] < <<y, x>>[2]
    BY <1>2
  <2> QED BY <1>1, <2>1 DEF OpToRel
<1>3. \E z \in D : \A y \in D : z <= y
  BY <1>2
<1> QED BY <1>3 DEF Min

(* accept returns a number that is not open.                               *)
LEMMA AcceptFd ==
    ASSUME open # Fds, open \subseteq Fds
    PROVE  Min(Fds \ open) \in Fds /\ Min(Fds \ open) \notin open
<1>1. Fds \ open \in SUBSET Nat /\ Fds \ open # {}
  BY EchoAssumption
<1> QED BY <1>1, LeastNatural

LEMMA BufferNext ==
    ASSUME Inv, [Next]_vars
    PROVE  [Ring!Next]_(Ring!vars)
<1>1. CASE Accept
  <2>1. B!InsertCall(Main, Min(Fds \ open)) /\ Min(Fds \ open) \in Fds
    BY <1>1, AcceptFd DEF Accept, Inv, Types
  <2> QED BY <2>1, SameInsert
<1>2. CASE Insert
  BY <1>2, SameInsert DEF Insert
<1>3. ASSUME NEW w \in Workers, Remove(w) PROVE Ring!Next
  BY <1>3, SameRemove DEF Remove
<1>4. ASSUME NEW w \in Workers,
             \/ Once(w) \/ init_echo_cnt(w) \/ PCnt(w) \/ LoadCnt(w)
             \/ StoreCnt(w) \/ VCnt(w) \/ Write(w) \/ Close(w)
             \/ ReadLine(w) \/ ReadEOF(w) \/ RioError(w)
      PROVE  bvars' = bvars
  BY <1>4 DEF Once, init_echo_cnt, PCnt, LoadCnt, StoreCnt, VCnt, Write, Close, ReadLine,
     ReadEOF, RioError, bvars
<1>5. CASE UNCHANGED vars
  BY <1>5, SameBuffer DEF vars
<1> QED BY <1>1, <1>2, <1>3, <1>4, <1>5, SameBuffer DEF Next, Thread

(* The ranges of the buffer's variables, as the steps below use them.      *)
LEMMA BufferTypes ==
    ASSUME Inv
    PROVE  /\ pc \in [{Main} \cup Workers -> B!InsertPC \cup B!RemovePC]
           /\ pc[Main] \in B!InsertPC
           /\ \A w \in Workers : pc[w] \in B!RemovePC
           /\ DOMAIN item = {Main} \cup Workers
           /\ item \in [{Main} \cup Workers -> Fds \cup {Zero}]
           /\ B!Contents \in Seq(Fds) /\ Len(B!Contents) <= N
           /\ Places = 1 .. Len(B!Contents)
           /\ Main \notin Workers
<1>1. B!TypeOK /\ B!Contents \in Seq(Fds) /\ Len(B!Contents) <= N
  BY BufferContents, SameBuffer DEF Inv
<1>2. Places = 1 .. Len(B!Contents)
  BY <1>1 DEF Places
<1> QED BY <1>1, <1>2, EchoAssumption DEF B!TypeOK, B!Threads

----------------------------------------------------------------------------
(* Where the descriptors are *)

(* A step that moves no descriptor.                                        *)
LEMMA AccountsKept ==
    ASSUME Accounts, open' = open, (B!Contents)' = B!Contents, Sending' = Sending,
           Holding' = Holding, \A w \in Holding : item'[w] = item[w],
           Sending => item'[Main] = item[Main]
    PROVE  Accounts'
<1>1. Places' = Places
  BY DEF Places
<1>2. HoldersOpen'
  BY <1>1 DEF Accounts, HoldersOpen
<1>3. HoldersDistinct'
  BY <1>1 DEF Accounts, HoldersDistinct
<1>4. OpenHeld'
  BY <1>1 DEF Accounts, OpenHeld
<1> QED BY <1>2, <1>3, <1>4 DEF Accounts

(* accept: a new descriptor, held by main.                                 *)
LEMMA AcceptAccounts == ASSUME Inv, Accept PROVE Accounts'
<1> DEFINE fd == Min(Fds \ open)
<1>1. fd \in Fds /\ fd \notin open
  BY AcceptFd DEF Accept, Inv, Types
<1> HIDE DEF fd
<1>2. /\ item' = [item EXCEPT ![Main] = fd] /\ pc' = [pc EXCEPT ![Main] = "P_slots"]
      /\ open' = open \cup {fd} /\ wpc' = wpc /\ pc[Main] = "idle"
  BY DEF Accept, B!InsertCall, B!Goto, fd
<1>3. /\ item'[Main] = fd /\ pc'[Main] = "P_slots"
      /\ \A w \in Workers : item'[w] = item[w] /\ pc'[w] = pc[w]
  BY <1>2, BufferTypes
<1>4. (B!Contents)' = B!Contents
  BY <1>2, <1>3, BufferNext, BufferStep DEF Inv, Next
<1>5. /\ Places' = Places /\ Holding' = Holding /\ ~ Sending /\ Sending'
      /\ \A w \in Holding : w \in Workers
  BY <1>2, <1>3, <1>4 DEF Places, Holding, Sending
<1>6. HoldersOpen /\ HoldersDistinct /\ OpenHeld
  BY DEF Inv, Accounts
<1>7. HoldersOpen'
  BY <1>2, <1>3, <1>4, <1>5, <1>6 DEF HoldersOpen
<1>8. HoldersDistinct'
  BY <1>1, <1>3, <1>4, <1>5, <1>6 DEF HoldersDistinct, HoldersOpen
<1>9. OpenHeld'
  BY <1>2, <1>3, <1>4, <1>5, <1>6 DEF OpenHeld
<1> QED BY <1>7, <1>8, <1>9 DEF Accounts

(* The store of sbuf_insert moves main's descriptor into the buffer.       *)
LEMMA StoreAccounts ==
    ASSUME Inv, [Ring!Next]_(Ring!vars), pc[Main] = "store", pc'[Main] = "V_mutex",
           item' = item, open' = open, Holding' = Holding
    PROVE  Accounts'
<1> DEFINE C == B!Contents
           L == Len(C)
<1>1. C' = Append(C, item[Main])
  BY BufferStep DEF Inv
<1>2. C \in Seq(Fds) /\ Places = 1 .. L /\ L \in Nat
  BY BufferTypes
<1>3. Sending /\ ~ Sending'
  BY DEF Sending
<1>4. HoldersOpen /\ HoldersDistinct /\ OpenHeld
  BY DEF Inv, Accounts
<1>5. item[Main] \in Fds
  BY <1>3, <1>4 DEF HoldersOpen, Inv, Types
<1>6. Places' = DOMAIN C'
  BY DEF Places
<1> HIDE DEF C
<1>7. /\ Places' = 1 .. L + 1
      /\ \A i \in 1 .. L : C'[i] = C[i]
      /\ C'[L + 1] = item[Main]
  BY <1>1, <1>2, <1>5, <1>6, AppendProperties
<1> HIDE DEF L
<1>8. \A i \in Places' : \/ i \in Places /\ C'[i] = C[i]
                         \/ i = L + 1 /\ C'[i] = item[Main]
  BY <1>2, <1>7
<1>9. L + 1 \in Places' /\ \A i \in Places : i \in Places'
  BY <1>2, <1>7
<1>10. /\ \A i \in Places : C[i] # item[Main] /\ C[i] \in open
       /\ \A i, j \in Places : C[i] = C[j] => i = j
       /\ \A i \in Places, w \in Holding : C[i] # item[w]
       /\ \A w \in Holding : item[w] # item[Main]
       /\ item[Main] \in open
  BY <1>3, <1>4 DEF HoldersDistinct, HoldersOpen, C
<1>11. HoldersOpen'
  <2>1. \A i \in Places' : C'[i] \in open
    BY <1>8, <1>10
  <2> QED BY <1>3, <1>4, <2>1 DEF HoldersOpen, C
<1>12. HoldersDistinct'
  <2>1. \A i, j \in Places' : C'[i] = C'[j] => i = j
    BY <1>8, <1>10
  <2>2. \A i \in Places', w \in Holding : C'[i] # item[w]
    BY <1>8, <1>10
  <2> QED BY <1>3, <1>4, <2>1, <2>2 DEF HoldersDistinct, C
<1>13. OpenHeld'
  <2> SUFFICES ASSUME NEW fd \in open
               PROVE  (\E i \in Places' : C'[i] = fd) \/ \E w \in Holding : item[w] = fd
    BY DEF OpenHeld, C
  <2>1. CASE item[Main] = fd
    BY <1>7, <1>9, <2>1
  <2>2. CASE \E i \in Places : C[i] = fd
    BY <1>2, <1>7, <1>9, <2>2
  <2> QED BY <1>4, <2>1, <2>2 DEF OpenHeld, C
<1> QED BY <1>11, <1>12, <1>13 DEF Accounts

(* The load of sbuf_remove moves the oldest one to the worker.             *)
LEMMA LoadAccounts ==
    ASSUME Inv, [Ring!Next]_(Ring!vars), NEW w \in Workers, w \notin Holding,
           pc[w] = "load", pc'[w] = "V_mutex", open' = open, Sending' = Sending,
           Holding' = Holding \cup {w},
           \A t \in {Main} \cup Workers : t # w => item'[t] = item[t]
    PROVE  Accounts'
<1> DEFINE C == B!Contents
           L == Len(C)
<1>1. C # << >> /\ C' = Tail(C) /\ item'[w] = Head(C)
  BY BufferStep DEF Inv
<1>2. C \in Seq(Fds) /\ Places = 1 .. L /\ L \in Nat
  BY BufferTypes
<1>3. HoldersOpen /\ HoldersDistinct /\ OpenHeld
  BY DEF Inv, Accounts
<1>4. Places' = DOMAIN C'
  BY DEF Places
<1> HIDE DEF C
<1>5. /\ Places' = 1 .. L - 1 /\ L >= 1
      /\ \A i \in 1 .. L - 1 : C'[i] = C[i + 1]
      /\ item'[w] = C[1]
  BY <1>1, <1>2, <1>4, HeadTailProperties, EmptySeq
<1> HIDE DEF L
<1>6. /\ 1 \in Places
      /\ \A i \in Places' : i + 1 \in Places /\ i + 1 # 1 /\ C'[i] = C[i + 1]
      /\ \A i \in Places : i # 1 => i - 1 \in Places' /\ C'[i - 1] = C[i]
  <2>1. \A i \in Places : i # 1 => i - 1 \in 1 .. L - 1 /\ (i - 1) + 1 = i
    BY <1>2
  <2>2. \A i \in Places : i # 1 => i - 1 \in Places' /\ C'[i - 1] = C[i]
    BY <1>5, <2>1
  <2> QED BY <1>2, <1>5, <2>2
<1>7. \A i, j \in Places' : i + 1 = j + 1 => i = j
  BY <1>2, <1>5
<1>8. /\ \A i \in Places : C[i] \in open
      /\ \A i, j \in Places : C[i] = C[j] => i = j
      /\ \A i \in Places, v \in Holding : C[i] # item[v]
      /\ \A v \in Holding : item[v] \in open
      /\ \A u, v \in Holding : item[u] = item[v] => u = v
      /\ Sending => /\ item[Main] \in open
                    /\ \A i \in Places : C[i] # item[Main]
                    /\ \A v \in Holding : item[v] # item[Main]
  BY <1>3 DEF HoldersDistinct, HoldersOpen, C
<1>9. /\ item'[Main] = item[Main]
      /\ \A v \in Holding : item'[v] = item[v] /\ v # w
  BY BufferTypes DEF Holding
<1>10. HoldersOpen'
  <2>1. \A i \in Places' : C'[i] \in open
    BY <1>6, <1>8
  <2>2. \A v \in Holding' : item'[v] \in open
    BY <1>5, <1>6, <1>8, <1>9
  <2> QED BY <1>8, <1>9, <2>1, <2>2 DEF HoldersOpen, C
<1>11. HoldersDistinct'
  <2>1. \A i, j \in Places' : C'[i] = C'[j] => i = j
    BY <1>6, <1>7, <1>8
  <2>2. \A i \in Places', v \in Holding' : C'[i] # item'[v]
    BY <1>5, <1>6, <1>8, <1>9
  <2>3. \A u, v \in Holding' : item'[u] = item'[v] => u = v
    BY <1>5, <1>6, <1>8, <1>9
  <2>4. Sending => /\ \A i \in Places' : C'[i] # item'[Main]
                   /\ \A v \in Holding' : item'[v] # item'[Main]
    BY <1>5, <1>6, <1>8, <1>9
  <2> QED BY <2>1, <2>2, <2>3, <2>4 DEF HoldersDistinct, C
<1>12. OpenHeld'
  <2> SUFFICES ASSUME NEW fd \in open
               PROVE  \/ Sending /\ item'[Main] = fd
                      \/ \E i \in Places' : C'[i] = fd
                      \/ \E v \in Holding' : item'[v] = fd
    BY DEF OpenHeld, C
  <2>1. CASE \E i \in Places : C[i] = fd
    BY <1>5, <1>6, <2>1
  <2>2. CASE \E v \in Holding : item[v] = fd
    BY <1>9, <2>2
  <2> QED BY <1>3, <1>9, <2>1, <2>2 DEF OpenHeld, C
<1> QED BY <1>10, <1>11, <1>12 DEF Accounts

(* close: the worker's descriptor is nowhere any more.                     *)
LEMMA CloseAccounts ==
    ASSUME Inv, NEW w \in Holding, (B!Contents)' = B!Contents, item' = item,
           Sending' = Sending, open' = open \ {item[w]}, Holding' = Holding \ {w}
    PROVE  Accounts'
<1>1. Places' = Places
  BY DEF Places
<1>2. HoldersOpen /\ HoldersDistinct /\ OpenHeld
  BY DEF Inv, Accounts
<1>3. HoldersOpen'
  BY <1>1, <1>2 DEF HoldersOpen, HoldersDistinct
<1>4. HoldersDistinct'
  BY <1>1, <1>2 DEF HoldersDistinct
<1>5. OpenHeld'
  BY <1>1, <1>2 DEF OpenHeld
<1> QED BY <1>3, <1>4, <1>5 DEF Accounts

(* A step of a worker outside the buffer that neither takes a connection   *)
(* nor gives one back.                                                     *)
LEMMA ServingAccounts ==
    ASSUME Inv, bvars' = bvars, open' = open,
           \A w \in Workers : wpc'[w] = "remove" <=> wpc[w] = "remove"
    PROVE  Accounts'
<1>1. pc' = pc /\ item' = item /\ (B!Contents)' = B!Contents
  BY DEF bvars, B!Contents, B!StoredRear, B!LoadedFront, B!At
<1>2. Sending' = Sending /\ Holding' = Holding
  BY <1>1 DEF Sending, Holding
<1> QED BY <1>1, <1>2, AccountsKept DEF Inv

LEMMA InsertAccounts == ASSUME Inv, Insert PROVE Accounts'
<1>1. [Ring!Next]_(Ring!vars)
  BY BufferNext DEF Next
<1>2. /\ open' = open /\ wpc' = wpc /\ item' = item
      /\ \E l \in B!InsertPC : pc' = [pc EXCEPT ![Main] = l]
  BY EchoAssumption DEF Insert, B!InsertStep, B!PSlots, B!PMutex, B!IncRear, B!Store,
     B!VMutex, B!VItems, B!Goto, B!InsertPC
<1>3. /\ \A w \in Workers : pc'[w] = pc[w]
      /\ Holding' = Holding
  BY <1>2, BufferTypes DEF Holding
<1>4. CASE pc[Main] = "store"
  <2>1. pc'[Main] = "V_mutex"
    BY <1>4, BufferTypes DEF Insert, B!InsertStep, B!PSlots, B!PMutex, B!IncRear, B!Store,
       B!VMutex, B!VItems, B!Goto
  <2> QED BY <1>1, <1>2, <1>3, <1>4, <2>1, StoreAccounts
<1>5. CASE pc[Main] # "store"
  <2>1. /\ pc'[Main] # pc[Main] /\ pc[Main] \notin {"store", "load"}
        /\ Sending' = Sending
    BY <1>5, BufferTypes, EchoAssumption DEF Insert, B!InsertStep, B!PSlots, B!PMutex,
       B!IncRear, B!Store, B!VMutex, B!VItems, B!Goto, B!InsertPC, Sending
  <2>2. (B!Contents)' = B!Contents
    BY <1>1, <2>1, BufferStep DEF Inv
  <2> QED BY <1>2, <1>3, <2>1, <2>2, AccountsKept DEF Inv
<1> QED BY <1>4, <1>5

(* The steps of sbuf_remove: where the worker is before and after.         *)
LEMMA RemoveMoves ==
    ASSUME Inv, NEW w \in Workers, Remove(w)
    PROVE  /\ [Ring!Next]_(Ring!vars)
           /\ \A t \in {Main} \cup Workers : t # w => pc'[t] = pc[t] /\ item'[t] = item[t]
           /\ wpc[w] = "remove" /\ pc'[w] # pc[w]
           /\ wpc' = [wpc EXCEPT ![w] = IF pc'[w] = "idle" THEN "once" ELSE "remove"]
           /\ pc[w] = "load" => pc'[w] = "V_mutex"
           /\ pc[w] # "load" =>
                /\ item' = item
                /\ pc[w] \in {"V_mutex", "V_slots"} <=> pc'[w] \in {"V_slots", "idle"}
                /\ pc'[w] # "V_mutex"
           /\ UNCHANGED <<open, n, cntvars, received>>
<1>1. [Ring!Next]_(Ring!vars)
  BY BufferNext DEF Next, Thread
<1>2. /\ wpc[w] = "remove" /\ wpc \in [Workers -> WorkerPC]
      /\ wpc' = [wpc EXCEPT ![w] = IF pc'[w] = "idle" THEN "once" ELSE "remove"]
      /\ UNCHANGED <<open, n, cntvars, received>>
  BY DEF Remove, Inv, Types
<1>3. \E l \in B!RemovePC : pc' = [pc EXCEPT ![w] = l]
  BY EchoAssumption DEF Remove, B!RemoveCall, B!RemoveStep, B!PItems, B!PMutex, B!IncFront,
     B!Load, B!VMutex, B!VSlots, B!Goto, B!RemovePC
<1>4. item' = item \/ \E v : item' = [item EXCEPT ![w] = v]
  BY DEF Remove, B!RemoveCall, B!RemoveStep, B!PItems, B!PMutex, B!IncFront,
     B!Load, B!VMutex, B!VSlots
<1>5. \A t \in {Main} \cup Workers : t # w => pc'[t] = pc[t] /\ item'[t] = item[t]
  BY <1>3, <1>4, BufferTypes
<1>6. /\ pc'[w] # pc[w]
      /\ pc[w] = "load" => pc'[w] = "V_mutex"
      /\ pc[w] # "load" =>
           /\ item' = item
           /\ pc[w] \in {"V_mutex", "V_slots"} <=> pc'[w] \in {"V_slots", "idle"}
           /\ pc'[w] # "V_mutex"
  BY BufferTypes, EchoAssumption DEF Remove, B!RemoveCall, B!RemoveStep, B!PItems,
     B!PMutex, B!IncFront, B!Load, B!VMutex, B!VSlots, B!Goto, B!RemovePC
<1> QED BY <1>1, <1>2, <1>5, <1>6

LEMMA RemoveAccounts == ASSUME Inv, NEW w \in Workers, Remove(w) PROVE Accounts'
<1>1. /\ Main # w /\ Sending' = Sending /\ open' = open
  BY BufferTypes, RemoveMoves DEF Sending
<1>2. \A v \in Workers : v # w => (v \in Holding' <=> v \in Holding)
  BY RemoveMoves DEF Holding, Inv, Types
<1>3. wpc \in [Workers -> WorkerPC]
  BY DEF Inv, Types
<1>4. CASE pc[w] = "load"
  <2>1. w \notin Holding /\ w \in Holding'
    BY <1>4, RemoveMoves DEF Holding
  <2>2. Holding' = Holding \cup {w}
    BY <1>2, <2>1 DEF Holding
  <2> QED BY <1>1, <1>4, <2>1, <2>2, LoadAccounts, RemoveMoves
<1>5. CASE pc[w] # "load"
  <2>1. w \in Holding' <=> w \in Holding
    BY <1>3, <1>5, RemoveMoves DEF Holding
  <2>2. Holding' = Holding
    BY <1>2, <2>1 DEF Holding
  <2>3. pc[w] # "store"
    BY BufferTypes DEF B!RemovePC
  <2>4. (B!Contents)' = B!Contents
    BY <1>5, <2>3, RemoveMoves, BufferStep DEF Inv
  <2> QED BY <1>1, <1>5, <2>2, <2>4, RemoveMoves, AccountsKept DEF Inv
<1> QED BY <1>4, <1>5

LEMMA AccountsStep == ASSUME Inv, [Next]_vars PROVE Accounts'
<1>1. ASSUME NEW w \in Workers, Close(w) PROVE Accounts'
  <2>1. w \in Holding /\ wpc \in [Workers -> WorkerPC]
    BY <1>1 DEF Close, Step, Holding, Inv, Types
  <2>2. /\ pc' = pc /\ item' = item /\ open' = open \ {item[w]}
        /\ wpc' = [wpc EXCEPT ![w] = "remove"]
        /\ (B!Contents)' = B!Contents
    BY <1>1 DEF Close, Step, bvars, B!Contents, B!StoredRear, B!LoadedFront, B!At
  <2>3. pc[w] = "idle" /\ Sending' = Sending
    BY <1>1, <2>2 DEF Inv, Serving, Close, Step, Sending
  <2>4. Holding' = Holding \ {w}
    BY <2>1, <2>2, <2>3 DEF Holding
  <2> QED BY <2>1, <2>2, <2>3, <2>4, CloseAccounts
<1>2. ASSUME NEW w \in Workers,
             \/ Once(w) \/ init_echo_cnt(w) \/ PCnt(w) \/ LoadCnt(w)
             \/ StoreCnt(w) \/ VCnt(w) \/ Write(w)
             \/ ReadLine(w) \/ ReadEOF(w) \/ RioError(w)
      PROVE  Accounts'
  <2>1. /\ bvars' = bvars /\ open' = open
        /\ \/ wpc' = wpc
           \/ \E l \in WorkerPC \ {"remove"} :
                wpc[w] # "remove" /\ wpc' = [wpc EXCEPT ![w] = l]
    BY <1>2 DEF Once, init_echo_cnt, PCnt, LoadCnt, StoreCnt, VCnt, Write, ReadLine,
       ReadEOF, RioError, Step, bvars, WorkerPC
  <2> QED BY <2>1, ServingAccounts DEF Inv, Types
<1>3. CASE UNCHANGED vars
  BY <1>3, ServingAccounts DEF vars
<1> QED BY <1>1, <1>2, <1>3, AcceptAccounts, InsertAccounts, RemoveAccounts DEF Next, Thread

LEMMA ServingStep == ASSUME Inv, [Next]_vars PROVE Serving'
<1> USE DEF Inv, Types, Serving
<1>1. CASE Accept \/ Insert
  <2>1. wpc' = wpc /\ \E l \in B!InsertPC : pc' = [pc EXCEPT ![Main] = l]
    BY <1>1 DEF Accept, Insert, B!InsertCall, B!InsertStep, B!PSlots, B!PMutex,
       B!IncRear, B!Store, B!VMutex, B!VItems, B!Goto, B!InsertPC
  <2> QED BY <2>1, BufferTypes
<1>2. ASSUME NEW w \in Workers, Remove(w) PROVE Serving'
  BY <1>2, RemoveMoves
<1>3. ASSUME NEW w \in Workers,
             \/ Once(w) \/ init_echo_cnt(w) \/ PCnt(w) \/ LoadCnt(w)
             \/ StoreCnt(w) \/ VCnt(w) \/ Write(w) \/ Close(w)
             \/ ReadLine(w) \/ ReadEOF(w) \/ RioError(w)
      PROVE  Serving'
  <2>1. /\ pc' = pc
        /\ \/ wpc' = wpc
           \/ \E l \in WorkerPC : wpc[w] # "remove" /\ wpc' = [wpc EXCEPT ![w] = l]
    BY <1>3 DEF Once, init_echo_cnt, PCnt, LoadCnt, StoreCnt, VCnt, Write, Close, ReadLine,
       ReadEOF, RioError, Step, bvars, WorkerPC
  <2> QED BY <2>1
<1>4. CASE UNCHANGED vars
  BY <1>4 DEF vars, bvars
<1> QED BY <1>1, <1>2, <1>3, <1>4 DEF Next, Thread

----------------------------------------------------------------------------
(* The count *)

(* The bytes read and not yet counted, and the counter, before a step.     *)
LEMMA CountTypes ==
    ASSUME Types
    PROVE  /\ n \in [Workers -> Nat] /\ IsFiniteSet(Workers)
           /\ Uncounted \in SUBSET Workers
           /\ Total(n, Uncounted) \in Nat
           /\ \A w \in Uncounted :
                /\ Total(n, Uncounted \ {w}) \in Nat
                /\ Total(n, Uncounted) = n[w] + Total(n, Uncounted \ {w})
<1>1. n \in [Workers -> Nat] /\ IsFiniteSet(Workers) /\ Uncounted \in SUBSET Workers
  <2>1. LineSizes \cup {0} \subseteq Nat /\ n \in [Workers -> LineSizes \cup {0}]
    BY EchoAssumption DEF Types
  <2>2. n \in [Workers -> Nat]
    BY <2>1
  <2> QED BY <2>2, EchoAssumption DEF Uncounted
<1>2. \A D \in SUBSET Workers : Total(n, D) \in Nat
  <2> TAKE D \in SUBSET Workers
  <2> DEFINE f == [x \in D |-> n[x]]
  <2>1. IsFiniteSet(D) /\ f \in [D -> Nat]
    BY <1>1, FS_Subset
  <2>2. Total(f, D) = Total(n, D)
    BY <2>1, TotalSame
  <2> QED BY <2>1, <2>2, TotalNat
<1>3. \A w \in Uncounted : Total(n, Uncounted) = n[w] + Total(n, Uncounted \ {w})
  <2>1. n \in [Workers -> Int]
    BY <1>1
  <2> QED BY <1>1, <2>1, TotalRemove
<1> QED BY <1>1, <1>2, <1>3

(* A step that leaves the counter and what is not yet counted alone.       *)
LEMMA CountKept ==
    ASSUME ByteCountExact, n' = n, byte_cnt' = byte_cnt, received' = received,
           Uncounted' = Uncounted
    PROVE  ByteCountExact'
BY DEF ByteCountExact

(* The steps outside the counter: the worker was not counting and is not.  *)
LEMMA CountingKept ==
    ASSUME Inv, UNCHANGED <<cntvars, received, n>>, NEW w \in Workers, NEW l \in WorkerPC,
           wpc' = [wpc EXCEPT ![w] = l], wpc[w] \notin Locked \cup {"P_cnt", "init"},
           l \in {"remove", "once", "read", "close"},
           l \in {"read", "close"} => once = "done"
    PROVE  Counting'
<1> USE DEF Inv, Types
<1>1. CountStarts'
  BY DEF Counting, CountStarts, cntvars
<1>2. CountLocked'
  BY DEF Counting, CountLocked, Locked, cntvars
<1>3. Uncounted' = Uncounted
  BY DEF Uncounted, Locked
<1> QED BY <1>1, <1>2, <1>3, CountKept DEF Counting, cntvars

LEMMA BufferCounting ==
    ASSUME Inv, UNCHANGED <<cntvars, received, n, wpc>> PROVE Counting'
<1>1. CountStarts' /\ CountLocked'
  BY DEF Inv, Counting, CountStarts, CountLocked, cntvars
<1>2. Uncounted' = Uncounted
  BY DEF Uncounted
<1> QED BY <1>1, <1>2, CountKept DEF Inv, Counting, cntvars

(* Pthread_once and init_echo_cnt                                          *)
LEMMA OnceCounting == ASSUME Inv, NEW w \in Workers, Once(w) PROVE Counting'
<1>1. CASE once = "done"
  BY <1>1, CountingKept DEF Once, Step, Locked, cntvars, WorkerPC
<1>2. CASE once # "done"
  <2>1. /\ once = "new" /\ once' = "running" /\ wpc[w] = "once"
        /\ wpc' = [wpc EXCEPT ![w] = "init"]
        /\ UNCHANGED <<n, cmutex, byte_cnt, tmp, received>>
    BY <1>2 DEF Once, Step
  <2>2. wpc \in [Workers -> WorkerPC] /\ CountStarts /\ CountLocked /\ ByteCountExact
    BY DEF Inv, Types, Counting
  <2>3. CountStarts'
    BY <2>1, <2>2 DEF CountStarts
  <2>4. CountLocked'
    BY <2>1, <2>2 DEF CountLocked, Locked
  <2>5. Uncounted' = Uncounted
    BY <2>1, <2>2 DEF Uncounted
  <2> QED BY <2>1, <2>2, <2>3, <2>4, <2>5, CountKept DEF Counting
<1> QED BY <1>1, <1>2

LEMMA InitCounting == ASSUME Inv, NEW w \in Workers, init_echo_cnt(w) PROVE Counting'
<1>1. /\ wpc[w] = "init" /\ wpc' = [wpc EXCEPT ![w] = "read"]
      /\ once' = "done" /\ cmutex' = 1 /\ byte_cnt' = 0
      /\ UNCHANGED <<n, tmp, received>>
  BY DEF init_echo_cnt, Step
<1>2. wpc \in [Workers -> WorkerPC] /\ CountStarts /\ CountLocked /\ ByteCountExact
  BY DEF Inv, Types, Counting
<1>3. /\ once = "running" /\ byte_cnt = 0
      /\ \A v \in Workers : wpc[v] \in {"remove", "once", "init"}
      /\ \A v \in Workers : wpc[v] = "init" => v = w
  BY <1>1, <1>2 DEF CountStarts
<1>4. CountStarts'
  BY <1>1, <1>2, <1>3 DEF CountStarts
<1>5. CountLocked'
  BY <1>1, <1>2, <1>3 DEF CountLocked, Locked
<1>6. Uncounted' = Uncounted
  BY <1>1, <1>2 DEF Uncounted
<1> QED BY <1>1, <1>2, <1>3, <1>4, <1>5, <1>6, CountKept DEF Counting

(* A line is read: its bytes are received, and not yet counted.            *)
LEMMA ReadLineCounting == ASSUME Inv, NEW w \in Workers, ReadLine(w) PROVE Counting'
<1>1. PICK k \in LineSizes :
        /\ wpc[w] = "read" /\ wpc' = [wpc EXCEPT ![w] = "P_cnt"]
        /\ n' = [n EXCEPT ![w] = k] /\ received' = received + k
        /\ UNCHANGED cntvars
  BY DEF ReadLine, Step
<1>2. wpc \in [Workers -> WorkerPC] /\ CountStarts /\ CountLocked /\ ByteCountExact
  BY DEF Inv, Types, Counting
<1>3. CountStarts'
  BY <1>1, <1>2 DEF CountStarts, cntvars
<1>4. CountLocked'
  BY <1>1, <1>2 DEF CountLocked, Locked, cntvars
<1>5. w \notin Uncounted /\ Uncounted' = Uncounted \cup {w}
  BY <1>1, <1>2 DEF Uncounted
<1>6. /\ n \in [Workers -> Nat] /\ n' \in [Workers -> Nat] /\ k \in Nat /\ n'[w] = k
      /\ \A v \in Workers : v # w => n'[v] = n[v]
      /\ IsFiniteSet(Workers) /\ Uncounted \in SUBSET Workers
      /\ Total(n, Uncounted) \in Nat
  BY <1>1, CountTypes, EchoAssumption DEF Inv
<1>7. Total(n', Uncounted') = k + Total(n', Uncounted)
  <2>1. n' \in [Workers -> Int] /\ Uncounted' \in SUBSET Workers /\ w \in Uncounted'
    BY <1>5, <1>6
  <2>2. Uncounted' \ {w} = Uncounted
    BY <1>5
  <2> QED BY <1>6, <2>1, <2>2, TotalRemove
<1>8. Total(n', Uncounted) = Total(n, Uncounted)
  <2>1. IsFiniteSet(Uncounted) /\ \A v \in Uncounted : n'[v] = n[v]
    BY <1>5, <1>6, FS_Subset
  <2> QED BY <2>1, TotalSame
<1>9. ByteCountExact'
  <2>1. byte_cnt \in Nat /\ received \in Nat /\ byte_cnt' = byte_cnt
    BY <1>1, EchoAssumption DEF Inv, Types, cntvars
  <2>2. byte_cnt + (k + Total(n, Uncounted)) = received + k
    BY <1>2, <1>6, <2>1 DEF ByteCountExact
  <2> QED BY <1>1, <1>7, <1>8, <2>1, <2>2 DEF ByteCountExact
<1> QED BY <1>3, <1>4, <1>9 DEF Counting

(* byte_cnt is what the worker has loaded: its line is added, once.        *)
LEMMA StoreCounting ==
    ASSUME Inv, NEW w \in Workers, StoreCnt(w)
    PROVE  Counting' /\ byte_cnt' \in 0 .. ByteMax
<1>1. /\ wpc[w] = "store_cnt" /\ wpc' = [wpc EXCEPT ![w] = "V_cnt"]
      /\ byte_cnt' = tmp[w] + n[w]
      /\ UNCHANGED <<n, once, cmutex, tmp, received>>
  BY DEF StoreCnt, Step
<1>2. wpc \in [Workers -> WorkerPC] /\ CountStarts /\ CountLocked /\ ByteCountExact
  BY DEF Inv, Types, Counting
<1>3. byte_cnt' = byte_cnt + n[w] /\ once = "done"
  BY <1>1, <1>2 DEF CountLocked, CountStarts
<1>4. CountStarts'
  BY <1>1, <1>2, <1>3 DEF CountStarts
<1>5. CountLocked'
  <2>1. \A v \in Workers : wpc'[v] \in Locked <=> wpc[v] \in Locked
    BY <1>1, <1>2 DEF Locked
  <2>2. \A v \in Workers : wpc'[v] # "store_cnt"
    BY <1>1, <1>2 DEF CountLocked, Locked
  <2> QED BY <1>1, <1>2, <2>1, <2>2 DEF CountLocked
<1>6. w \in Uncounted /\ Uncounted' = Uncounted \ {w}
  BY <1>1, <1>2 DEF Uncounted
<1>7. /\ Total(n, Uncounted) = n[w] + Total(n, Uncounted \ {w})
      /\ Total(n, Uncounted \ {w}) \in Nat /\ n[w] \in Nat
  BY <1>6, CountTypes DEF Inv
<1>8. byte_cnt \in Nat /\ received \in 0 .. ByteMax /\ ByteMax \in Nat
  BY EchoAssumption DEF Inv, Types
<1>9. (byte_cnt + n[w]) + Total(n, Uncounted \ {w}) = received
  BY <1>2, <1>7, <1>8 DEF ByteCountExact
<1>10. ByteCountExact'
  BY <1>1, <1>3, <1>6, <1>9 DEF ByteCountExact
<1>11. byte_cnt' \in 0 .. ByteMax
  BY <1>3, <1>7, <1>8, <1>9
<1> QED BY <1>4, <1>5, <1>10, <1>11 DEF Counting

(* The semaphore and the load.                                             *)
LEMMA LockCounting ==
    ASSUME Inv, NEW w \in Workers, PCnt(w) \/ LoadCnt(w) \/ VCnt(w)
    PROVE  Counting' /\ cmutex' \in 0 .. 1
<1> USE DEF Inv, Types, Counting
<1>1. once = "done"
  BY DEF CountStarts, PCnt, LoadCnt, VCnt, Step
<1>2. CountStarts'
  BY <1>1 DEF CountStarts, PCnt, LoadCnt, VCnt, Step
<1>3. CASE PCnt(w)
  <2>1. /\ cmutex' = 0 /\ wpc' = [wpc EXCEPT ![w] = "load_cnt"] /\ wpc[w] = "P_cnt"
        /\ UNCHANGED <<once, byte_cnt, tmp, n, received>> /\ cmutex = 1
    BY <1>3 DEF PCnt, Step
  <2>2. CountLocked'
    BY <2>1 DEF CountLocked, Locked
  <2>3. Uncounted' = Uncounted
    BY <2>1 DEF Uncounted
  <2> QED BY <1>2, <2>1, <2>2, <2>3, CountKept
<1>4. CASE LoadCnt(w)
  <2>1. /\ cmutex' = cmutex /\ wpc' = [wpc EXCEPT ![w] = "store_cnt"] /\ wpc[w] = "load_cnt"
        /\ tmp' = [tmp EXCEPT ![w] = byte_cnt]
        /\ UNCHANGED <<once, byte_cnt, n, received>>
    BY <1>4 DEF LoadCnt, Step
  <2>2. CountLocked'
    <3>1. \A v \in Workers : wpc'[v] \in Locked <=> wpc[v] \in Locked
      BY <2>1 DEF Locked
    <3>2. \A v \in Workers : wpc'[v] = "store_cnt" => tmp'[v] = byte_cnt
      BY <2>1 DEF CountLocked
    <3> QED BY <2>1, <3>1, <3>2 DEF CountLocked
  <2>3. Uncounted' = Uncounted
    BY <2>1 DEF Uncounted
  <2> QED BY <1>2, <2>1, <2>2, <2>3, CountKept
<1>5. CASE VCnt(w)
  <2>1. /\ cmutex' = cmutex + 1 /\ wpc' = [wpc EXCEPT ![w] = "write"] /\ wpc[w] = "V_cnt"
        /\ UNCHANGED <<once, byte_cnt, tmp, n, received>>
    BY <1>5 DEF VCnt, Step
  <2>2. cmutex = 0 /\ \A v \in Workers : wpc[v] \in Locked => v = w
    BY <2>1 DEF CountLocked, Locked
  <2>3. CountLocked'
    BY <2>1, <2>2 DEF CountLocked, Locked
  <2>4. Uncounted' = Uncounted
    BY <2>1 DEF Uncounted
  <2> QED BY <1>2, <2>1, <2>2, <2>3, <2>4, CountKept
<1> QED BY <1>3, <1>4, <1>5

LEMMA WriteCounting == ASSUME Inv, NEW w \in Workers, VCnt(w) \/ Write(w) PROVE Counting'
<1>1. CASE VCnt(w)
  BY <1>1, LockCounting
<1>2. CASE Write(w)
  <2>1. /\ wpc[w] = "write" /\ wpc' = [wpc EXCEPT ![w] = "read"]
        /\ UNCHANGED <<cntvars, received, n>> /\ once = "done"
    BY <1>2 DEF Write, Step, Inv, Counting, CountStarts
  <2> QED BY <2>1, CountingKept DEF Locked, WorkerPC
<1> QED BY <1>1, <1>2

LEMMA CountingStep == ASSUME Inv, [Next]_vars PROVE Counting'
<1>1. CASE Accept \/ Insert
  BY <1>1, BufferCounting DEF Accept, Insert
<1>2. ASSUME NEW w \in Workers, Remove(w) PROVE Counting'
  <2>1. /\ wpc[w] = "remove" /\ UNCHANGED <<cntvars, received, n>>
        /\ \E l \in {"once", "remove"} : wpc' = [wpc EXCEPT ![w] = l]
    BY <1>2, RemoveMoves
  <2> QED BY <2>1, CountingKept DEF Locked, WorkerPC
<1>3. ASSUME NEW w \in Workers, ReadEOF(w) \/ Close(w) PROVE Counting'
  <2>1. /\ wpc[w] \in {"read", "close"} /\ UNCHANGED <<cntvars, received, n>>
        /\ \E l \in {"close", "remove"} : wpc' = [wpc EXCEPT ![w] = l]
        /\ once = "done"
    BY <1>3 DEF ReadEOF, Close, Step, Inv, Counting, CountStarts
  <2> QED BY <2>1, CountingKept DEF Locked, WorkerPC
<1>4. ASSUME NEW w \in Workers, RioError(w) PROVE Counting'
  BY <1>4, BufferCounting DEF RioError
<1>5. CASE UNCHANGED vars
  BY <1>5, BufferCounting DEF vars
<1> QED BY <1>1, <1>2, <1>3, <1>4, <1>5, OnceCounting, InitCounting, ReadLineCounting,
           StoreCounting, LockCounting, WriteCounting DEF Next, Thread

LEMMA TypesStep == ASSUME Inv, [Next]_vars PROVE Types'
<1> USE DEF Inv, Types
<1>1. CASE Accept
  <2>1. Min(Fds \ open) \in Fds
    BY <1>1, AcceptFd DEF Accept
  <2> QED BY <1>1, <2>1 DEF Accept, cntvars
<1>2. CASE Insert
  BY <1>2 DEF Insert, cntvars
<1>3. ASSUME NEW w \in Workers, Remove(w) PROVE Types'
  <2>1. alive' = alive
    BY <1>3 DEF Remove
  <2> QED BY <1>3, <2>1, RemoveMoves DEF cntvars, WorkerPC
<1>4. ASSUME NEW w \in Workers, Once(w) \/ init_echo_cnt(w) PROVE Types'
  <2>1. /\ UNCHANGED <<open, alive, n, tmp, received>>
        /\ once' \in {"new", "running", "done"}
        /\ \E l \in WorkerPC : wpc' = [wpc EXCEPT ![w] = l]
    BY <1>4 DEF Once, init_echo_cnt, Step, cntvars, WorkerPC
  <2>2. cmutex' \in 0 .. 1 /\ byte_cnt' \in 0 .. ByteMax
    BY <1>4, EchoAssumption DEF Once, init_echo_cnt, cntvars
  <2> QED BY <2>1, <2>2
<1>5. ASSUME NEW w \in Workers, PCnt(w) \/ VCnt(w) PROVE Types'
  BY <1>5, LockCounting DEF PCnt, VCnt, Step, WorkerPC
<1>6. ASSUME NEW w \in Workers, LoadCnt(w) PROVE Types'
  BY <1>6 DEF LoadCnt, Step, WorkerPC
<1>7. ASSUME NEW w \in Workers, StoreCnt(w) PROVE Types'
  BY <1>7, StoreCounting DEF StoreCnt, Step, WorkerPC
<1>8. ASSUME NEW w \in Workers, Write(w) \/ Close(w) \/ ReadEOF(w) \/ RioError(w) PROVE Types'
  BY <1>8 DEF Write, Close, ReadEOF, RioError, Step, cntvars, WorkerPC
<1>9. ASSUME NEW w \in Workers, ReadLine(w) PROVE Types'
  <2>1. PICK k \in LineSizes :
          /\ received + k <= ByteMax /\ received' = received + k
          /\ n' = [n EXCEPT ![w] = k] /\ wpc' = [wpc EXCEPT ![w] = "P_cnt"]
          /\ UNCHANGED <<open, alive, cntvars>>
    BY <1>9 DEF ReadLine, Step
  <2>2. received' \in 0 .. ByteMax
    BY <2>1, EchoAssumption
  <2> QED BY <2>1, <2>2 DEF cntvars, WorkerPC
<1>10. CASE UNCHANGED vars
  BY <1>10 DEF vars, cntvars
<1> QED BY <1>1, <1>2, <1>3, <1>4, <1>5, <1>6, <1>7, <1>8, <1>9, <1>10 DEF Next, Thread

(* Inv is an invariant of the server: every step of main and of every      *)
(* worker preserves it.                                                    *)
THEOREM InvInvariant == Spec => []Inv
<1>1. Inv /\ [Next]_vars => Inv'
  <2> SUFFICES ASSUME Inv, [Next]_vars PROVE Inv'
    OBVIOUS
  <2>1. (Ring!FInv)'
    BY BufferNext, BufferStep DEF Inv
  <2> QED BY <2>1, TypesStep, ServingStep, AccountsStep, CountingStep DEF Inv
<1> QED BY <1>1, InvInit, PTL DEF Spec

----------------------------------------------------------------------------
(* What the runs check *)

(* byte_cnt and the lines read but not yet added are what was received:    *)
(* concurrent workers lose no byte and count none twice.                   *)
THEOREM ByteCountExactAlways == Spec => []ByteCountExact
<1>1. Inv => ByteCountExact
  BY DEF Inv, Counting
<1> QED BY <1>1, InvInvariant, PTL

(* The sizes of the places of one descriptor.                              *)
LEMMA AtMostOne ==
    ASSUME NEW T, \A x, y \in T : x = y
    PROVE  /\ T = {} => Cardinality(T) = 0
           /\ T # {} => Cardinality(T) = 1
<1>1. T = {} => Cardinality(T) = 0
  BY FS_EmptySet
<1>2. T # {} => \E x : T = {x}
  OBVIOUS
<1>3. T # {} => Cardinality(T) = 1
  BY <1>2, FS_Singleton
<1> QED BY <1>1, <1>3

LEMMA InvOneHolder == Inv => OneHolder
<1> SUFFICES ASSUME Inv, NEW fd \in Fds
             PROVE  Holders(fd) = IF fd \in open THEN 1 ELSE 0
  BY DEF OneHolder
<1>1. HoldersOpen /\ HoldersDistinct /\ OpenHeld
  BY DEF Inv, Accounts
<1> DEFINE P == Positions(fd)
           W == WorkersWith(fd)
           M == Sending /\ item[Main] = fd
<1>2. /\ P = {i \in Places : B!Contents[i] = fd}
      /\ W = {w \in Holding : item[w] = fd}
      /\ MainHas(fd) <=> M
  BY DEF Positions, WorkersWith, MainHas, Places, Holding, Sending
<1>3. (\A i, j \in P : i = j) /\ (\A v, w \in W : v = w)
  BY <1>1, <1>2 DEF HoldersDistinct
<1>4. /\ P # {} => W = {} /\ ~ M
      /\ W # {} => ~ M
      /\ fd \in open <=> P # {} \/ W # {} \/ M
  BY <1>1, <1>2 DEF HoldersDistinct, HoldersOpen, OpenHeld
<1>5. /\ Cardinality(P) = IF P = {} THEN 0 ELSE 1
      /\ Cardinality(W) = IF W = {} THEN 0 ELSE 1
  BY <1>3, AtMostOne
<1>6. Holders(fd) = Cardinality(P) + Cardinality(W) + (IF M THEN 1 ELSE 0)
  BY <1>2 DEF Holders
<1> HIDE DEF P, W, M
<1> QED BY <1>4, <1>5, <1>6

(* A finite set has at least as many elements as a function of it has      *)
(* values.                                                                 *)
LEMMA ImageBound ==
    ASSUME NEW D, IsFiniteSet(D), NEW f
    PROVE  /\ IsFiniteSet({f[x] : x \in D})
           /\ Cardinality({f[x] : x \in D}) <= Cardinality(D)
<1> DEFINE T == {f[x] : x \in D}
           g == [x \in D |-> f[x]]
<1>1. g \in Surjection(D, T)
  BY DEF Surjection
<1> QED BY <1>1, FS_Surjection

LEMMA UnionBound ==
    ASSUME NEW D, NEW E, IsFiniteSet(D), IsFiniteSet(E)
    PROVE  /\ IsFiniteSet(D \cup E) /\ Cardinality(D \cup E) <= Cardinality(D) + Cardinality(E)
           /\ Cardinality(D) \in Nat /\ Cardinality(E) \in Nat /\ Cardinality(D \cup E) \in Nat
<1>1. IsFiniteSet(D \cup E) /\ IsFiniteSet(D \cap E)
  BY FS_Union, FS_Subset
<1>2. /\ Cardinality(D) \in Nat /\ Cardinality(E) \in Nat
      /\ Cardinality(D \cup E) \in Nat /\ Cardinality(D \cap E) \in Nat
  BY <1>1, FS_CardinalityType
<1>3. Cardinality(D \cup E) = Cardinality(D) + Cardinality(E) - Cardinality(D \cap E)
  BY FS_Union
<1> QED BY <1>1, <1>2, <1>3

LEMMA InvOpenBound == Inv => OpenBound
<1> SUFFICES ASSUME Inv PROVE Cardinality(open) <= N + Cardinality(Workers) + 1
  BY DEF OpenBound
<1> DEFINE C == B!Contents
           L == Len(C)
           P == {C[i] : i \in 1 .. L}
           W == {item[w] : w \in Workers}
           M == {item[Main]}
<1>1. L \in 0 .. N /\ Places = 1 .. L /\ N \in Nat
  BY BufferTypes, EchoAssumption
<1>2. IsFiniteSet(1 .. L) /\ Cardinality(1 .. L) = L
  <2> HIDE DEF L
  <2>1. IsFiniteSet(1 .. L) /\ Cardinality(1 .. L) = IF 1 > L THEN 0 ELSE L - 1 + 1
    BY <1>1, FS_Interval
  <2> QED BY <1>1, <2>1
<1>3. IsFiniteSet(P) /\ Cardinality(P) <= L
  <2> HIDE DEF C, L
  <2> QED BY <1>2, ImageBound
<1>4. IsFiniteSet(W) /\ Cardinality(W) <= Cardinality(Workers)
  BY EchoAssumption, ImageBound
<1>5. IsFiniteSet(M) /\ Cardinality(M) = 1
  BY FS_Singleton
<1>6. open \subseteq (P \cup W) \cup M
  BY <1>1 DEF Inv, Accounts, OpenHeld, Holding
<1> HIDE DEF P, W, M, L
<1>7. /\ IsFiniteSet(P \cup W) /\ Cardinality(P \cup W) <= Cardinality(P) + Cardinality(W)
      /\ Cardinality(P) \in Nat /\ Cardinality(W) \in Nat /\ Cardinality(P \cup W) \in Nat
  BY <1>3, <1>4, UnionBound
<1>8. /\ IsFiniteSet((P \cup W) \cup M) /\ Cardinality((P \cup W) \cup M) \in Nat
      /\ Cardinality((P \cup W) \cup M) <= Cardinality(P \cup W) + 1
  BY <1>5, <1>7, UnionBound
<1>9. Cardinality(open) <= Cardinality((P \cup W) \cup M) /\ Cardinality(open) \in Nat
  BY <1>6, <1>8, FS_Subset, FS_CardinalityType
<1>10. Cardinality(Workers) \in Nat
  BY EchoAssumption, FS_CardinalityType
<1> QED BY <1>1, <1>3, <1>4, <1>7, <1>8, <1>9, <1>10

(* Every open connection is with exactly one of main, the buffer and the   *)
(* workers, and there are at most one per slot, one per worker and one     *)
(* more.                                                                   *)
THEOREM ConnectionsAccountedAlways == Spec => []ConnectionsAccounted
<1>1. Inv => TypeOK
  <2>1. Inv => B!TypeOK
    BY BufferContents, SameBuffer DEF Inv
  <2> QED BY <2>1 DEF Inv, Types, TypeOK
<1>2. Inv => ConnectionsAccounted
  BY <1>1, InvOneHolder, InvOpenBound DEF ConnectionsAccounted
<1> QED BY <1>2, InvInvariant, PTL

============================================================================
