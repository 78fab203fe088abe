------------------------------- MODULE Trans --------------------------------
(***************************************************************************)
(* The transpose functions of the cache lab, 4_CacheLab/cachelab-handout/  *)
(* trans.c, run and validated by tracegen.c.  A function is a walk over    *)
(* blocks <<i, j>> of A; for each block it performs a few moves, one per   *)
(* loop nest of the code.  A move maps cells of B to the cells of A or B   *)
(* they are loaded from.  One action performs one move, so that what a     *)
(* function parks in a part of B until a later nest is a state.            *)
(***************************************************************************)
EXTENDS Integers, Sequences, FiniteSets

CONSTANTS Invocations   \* {<<M, N, functions>>}: one function with -F, all of them without

ASSUME TransAssumption == \A v \in Invocations : v[1] \in Nat \ {0} /\ v[2] \in Nat \ {0}

VARIABLES size,     \* <<M, N>>
          funcs,    \* the functions to run
          fi,       \* the one that runs
          B,        \* the destination, M rows of N
          block,    \* blocks done
          nest,     \* moves of the current block done
          tpc       \* "run", "validate", "out" (an index out of bounds), "ok", "failed"

tvars == <<size, funcs, fi, B, block, nest, tpc>>

MM == size[1]
NN == size[2]
Up(a, d) == (a + d - 1) \div d

(* initMatrix: the random numbers of A are taken to be distinct, and       *)
(* different from those of B.                                              *)
A == [p \in (0 .. NN - 1) \X (0 .. MM - 1) |-> 1000 * p[1] + p[2] + 1]
initMatrix(s) == [p \in (0 .. s[1] - 1) \X (0 .. s[2] - 1) |-> 0]

(* Moves.  FromA: B[j1][i1 + d] = A[i1][j1] for rows R and columns C of B. *)
FromA(R, C, d) == [p \in R \X C |-> <<"A", p[2] - d, p[1]>>]
(* B[r][c] and B[r][c + d] change places, for c in C.                      *)
Swap(R, C, d) == [p \in R \X (C \cup {c + d : c \in C}) |->
                     <<"B", p[1], IF p[2] \in C THEN p[2] + d ELSE p[2] - d>>]
(* B[r][c] = B[r + dr][c + dc].                                            *)
FromB(R, C, dr, dc) == [p \in R \X C |-> <<"B", p[1] + dr, p[2] + dc>>]

Rows(j, n) == (j .. j + n - 1) \cap (0 .. MM - 1)   \* j1 < j + n && j1 < M
Cols(i, n) == (i .. i + n - 1) \cap (0 .. NN - 1)   \* i1 < i + n && i1 < N

(* Block b of a grid of steps di and dj over columns of B and rows of B.   *)
Grid(b, di, nj, dj) == <<di * (b \div nj), dj * (b % nj)>>
Plain(b, di, dj) == Grid(b, di, Up(MM, dj), dj)

(* The moves of each function for block b, and the number of blocks.       *)
trans(b) == <<FromA(0 .. MM - 1, {b}, 0)>>

block8_simple(b) == LET k == Plain(b, 8, 8) IN <<FromA(Rows(k[2], 8), Cols(k[1], 8), 0)>>

block8(b) == LET k == Plain(b, 8, 8)
             IN [x \in 1 .. 8 |-> FromA(Rows(k[2], 8), Cols(k[1], 8) \cap {k[1] + x - 1}, 0)]

block8_for64(b) == LET k == Plain(b, 8, 4)
                   IN [x \in 1 .. 8 |-> FromA(Rows(k[2], 4), Cols(k[1], 8) \cap {k[1] + x - 1}, 0)]

avoid_eviction(b) ==
    LET k == Plain(b, 4, 4)
        all == FromA(Rows(k[2], 4), Cols(k[1], 4), 0)
        diagonal == {<<r, r - k[2] + k[1]>> : r \in Rows(k[2], 4)}
    IN <<[p \in DOMAIN all \ diagonal |-> all[p]], [p \in diagonal |-> <<"A", p[2], p[1]>>]>>

(* Mutant: the two halves are not put back in their places.                *)
HalvesLeftSwapped(b) == LET k == Plain(b, 16, 4) i == k[1] R == k[2] .. k[2] + 3
                        IN <<FromA(R, i + 8 .. i + 15, 8), FromA(R, i .. i + 7, -8)>>

opfor64(b) == LET k == Plain(b, 16, 4) i == k[1] R == k[2] .. k[2] + 3
              IN <<FromA(R, i + 8 .. i + 15, 8), FromA(R, i .. i + 7, -8), Swap(R, i .. i + 7, 8)>>

opfor64_m(b) == LET k == Plain(b, 8, 4) i == k[1] R == k[2] .. k[2] + 3
                    d == NN - 2 * i - 8
                IN <<FromA(R, i + d .. i + d + 7, d), FromA(R, i .. i + 7, -d),
                     Swap(R, i .. i + 7, d)>>

(* First the rows up to M - 9, then, with j left where it was, the rest.   *)
opfor64_f(b) ==
    LET nj == Up(MM - 8, 4)
        first == Up(NN, 16) * nj
        k == IF b < first THEN Grid(b, 16, nj, 4) ELSE <<0, 4 * nj + 4 * (b - first)>>
        i == k[1]
        R == k[2] .. k[2] + 3
    IN IF b < first
       THEN <<FromA(R, i + 8 .. i + 15, 8),
              [p \in {r + 8 : r \in R} \X (i + 8 .. i + 15) |-> <<"A", p[2], p[1] - 8>>],
              FromB(R, i .. i + 7, 8, 8), Swap(R, i .. i + 7, 8)>>
       ELSE <<FromA(R, i + 8 .. i + 15, 8), FromA(R, i .. i + 7, -8), Swap(R, i .. i + 7, 8)>>

block8x4_ref(b) == LET k == Plain(b, 8, 4) IN <<FromA(Rows(k[2], 4), Cols(k[1], 8), 0)>>

(* The blocks on the diagonal through the last block, the last through its *)
(* left neighbour; then the other blocks.                                  *)
block8x4_opt(b) ==
    LET first == 2 * Up(NN, 8)
        k == IF b < first THEN Grid(b, 8, 2, 4) ELSE Plain(b - first, 8, 4)
        i == k[1]
        R == IF b < first THEN i + k[2] .. i + k[2] + 3 ELSE k[2] .. k[2] + 3
        C == i .. i + 7
    IN CASE b >= first -> IF k[2] \in {i, i + 4} THEN << >> ELSE <<FromA(R, C, 0)>>
         [] i = MM - 8 -> <<FromA(R, {c - 8 : c \in C}, -8), FromB(R, C, 0, -8)>>
         [] OTHER -> <<[p \in {r - i + MM - 8 : r \in R} \X {c - i + NN - 8 : c \in C} |->
                           <<"A", p[2] + i - NN + 8, p[1] + i - MM + 8>>],
                       FromB(R, C, MM - 8 - i, NN - 8 - i)>>

Blocks(fn) == CASE fn = "transpose_submit" -> 0
                [] fn = "trans" -> NN
                [] fn \in {"block8_simple", "block8"} -> Up(NN, 8) * Up(MM, 8)
                [] fn \in {"block8_for64", "block8x4_ref"} -> Up(NN, 8) * Up(MM, 4)
                [] fn = "avoid_eviction" -> Up(NN, 4) * Up(MM, 4)
                [] fn = "opfor64" -> Up(NN, 16) * Up(MM, 4)
                [] fn = "opfor64_m" -> Up(NN \div 2, 8) * Up(MM, 4)
                [] fn = "opfor64_f" -> Up(NN, 16) * Up(MM - 8, 4) + Up(MM - 4 * Up(MM - 8, 4), 4)
                [] fn = "block8x4_opt" -> 2 * Up(NN, 8) + Up(NN, 8) * Up(MM, 4)

Moves(fn, b) == CASE fn = "trans" -> trans(b)
                  [] fn = "block8_simple" -> block8_simple(b) [] fn = "block8" -> block8(b)
                  [] fn = "block8_for64" -> block8_for64(b)
                  [] fn = "avoid_eviction" -> avoid_eviction(b)
                  [] fn = "opfor64" -> opfor64(b) [] fn = "opfor64_m" -> opfor64_m(b)
                  [] fn = "opfor64_f" -> opfor64_f(b)
                  [] fn = "block8x4_ref" -> block8x4_ref(b)
                  [] fn = "block8x4_opt" -> block8x4_opt(b)

----------------------------------------------------------------------------
TransInit == \E v \in Invocations :
                /\ size = <<v[1], v[2]>> /\ funcs = v[3] /\ fi = 1
                /\ B = initMatrix(<<v[1], v[2]>>) /\ block = 0 /\ nest = 0 /\ tpc = "run"

(* Every cell a move loads or stores is one of the matrices'.              *)
Within(mv) == /\ DOMAIN mv \subseteq DOMAIN B
              /\ \A p \in DOMAIN mv : <<mv[p][2], mv[p][3]>> \in IF mv[p][1] = "A" THEN DOMAIN A ELSE DOMAIN B

Load(cell) == IF cell[1] = "A" THEN 1000 * cell[2] + cell[3] + 1 ELSE B[<<cell[2], cell[3]>>]

move == /\ tpc = "run" /\ block < Blocks(funcs[fi])
        /\ \E moves \in {Moves(funcs[fi], block)} :
             IF nest = Len(moves) THEN block' = block + 1 /\ nest' = 0 /\ UNCHANGED <<B, tpc>>
             ELSE /\ nest' = nest + 1 /\ UNCHANGED block
                  /\ \E mv \in {moves[nest + 1]} :
                       IF Within(mv)
                       THEN /\ B' = [p \in DOMAIN B |-> IF p \in DOMAIN mv THEN Load(mv[p]) ELSE B[p]]
                            /\ UNCHANGED tpc
                       ELSE tpc' = "out" /\ UNCHANGED B
        /\ UNCHANGED <<size, funcs, fi>>

return == /\ tpc = "run" /\ block = Blocks(funcs[fi]) /\ tpc' = "validate"
          /\ UNCHANGED <<size, funcs, fi, B, block, nest>>

correctTrans == [p \in DOMAIN B |-> 1000 * p[2] + p[1] + 1]

is_transpose == \A p \in DOMAIN A : A[p] = B[<<p[2], p[1]>>]

(* Mutant: only the last function is validated.                            *)
ValidatesLast == /\ tpc = "validate" /\ nest' = 0 /\ UNCHANGED <<size, funcs, B>>
                 /\ IF fi < Len(funcs) THEN fi' = fi + 1 /\ block' = 0 /\ tpc' = "run"
                    ELSE tpc' = (IF B = correctTrans THEN "ok" ELSE "failed") /\ UNCHANGED <<fi, block>>

(* validate: the program ends at the first function that fails, with its   *)
(* number, or after the last one; B is not filled again in between.        *)
validate == /\ tpc = "validate" /\ nest' = 0 /\ UNCHANGED <<size, funcs, B>>
            /\ \/ B # correctTrans /\ tpc' = "failed" /\ UNCHANGED <<fi, block>>
               \/ B = correctTrans /\ fi < Len(funcs) /\ fi' = fi + 1 /\ block' = 0 /\ tpc' = "run"
               \/ B = correctTrans /\ fi = Len(funcs) /\ tpc' = "ok" /\ UNCHANGED <<fi, block>>

TransNext == move \/ return \/ validate

----------------------------------------------------------------------------
(* The matrices a function transposes.                                     *)
Works(fn) == CASE fn = "transpose_submit" -> FALSE
               [] fn = "avoid_eviction" -> NN % 4 = 0 \/ MM <= NN % 4
               [] fn = "opfor64" -> NN % 16 = 0 /\ MM % 4 = 0
               [] fn = "opfor64_m" -> NN % 8 = 0 /\ MM % 4 = 0
               [] fn = "opfor64_f" -> NN = 16 /\ MM % 4 = 0 /\ MM >= 8
               [] fn = "block8x4_opt" -> NN = MM /\ NN % 8 = 0 /\ NN >= 16
               [] OTHER -> TRUE

(* Every function, on the matrices it is meant for, stays within A and B,  *)
(* and whatever it parks in B is moved or overwritten before it returns:   *)
(* it ends with the transpose.  On others it is found out by validate.     *)
(* opfor64_f, "not working...(why?)", works for 16 columns only: the loop  *)
(* over its last rows does not start j again.                              *)
TransposeExact == /\ tpc = "out" => ~Works(funcs[fi])
                  /\ tpc = "validate" /\ fi = 1 =>
                        (is_transpose <=> Works(funcs[fi]))

(* What tracegen answers: it accepts a list of functions if each works, or *)
(* does nothing after one that worked, for B is not filled in between.     *)
AcceptsWhatWorks ==
    /\ tpc = "ok" => \A k \in 1 .. Len(funcs) :
                        \/ Works(funcs[k])
                        \/ k > 1 /\ funcs[k] = "transpose_submit"
    /\ tpc = "failed" => ~Works(funcs[fi]) /\ \A k \in 1 .. fi - 1 : Works(funcs[k])

(* The functions transpose, and tracegen tells which of them do.           *)
TransposesJudged == TransposeExact /\ AcceptsWhatWorks
=============================================================================
