------------------------------- MODULE BTest --------------------------------
(***************************************************************************)
(* The test program of the data lab, 1_DataLab/datalab-handout/btest.c: it *)
(* runs every puzzle of the table in decl.c on values near the edges of    *)
(* its range, with a time limit whose handler jumps back into              *)
(* test_function.  One action tests one value of the first argument with   *)
(* all values of the others.                                               *)
(***************************************************************************)
EXTENDS Bits, Sequences

CONSTANTS TestRange,     \* TEST_RANGE, per argument
          RandomWords,   \* what random_val may return
          BTOptions,     \* command lines: [only, fixed, limit, rating]; fixed[i] is {} or {word}
          MaxTimeouts    \* bound

VARIABLES opt,       \* the globals set by main
          ti,        \* index in test_set
          bpc,       \* "select", "gen", "setjmp", "alarm", "test", "exit", "dead"
          vals,      \* arg_test_vals, of the first argument those not yet tested
          failed,    \* functions with an error, other than a time-out
          points, max_points,
          envbuf,    \* the function whose call envbuf was set in, 0 before
          alarmOf,   \* the function that called alarm, 0 when none is pending
          charged    \* {[f, owner]}: f was reported as timed out by the alarm of owner

bvars == <<opt, ti, bpc, vals, failed, points, max_points, envbuf, alarmOf, charged>>

(* decl.c: name, number of arguments, range of float words, rating.        *)
Entry(name, args, float, rating) == [name |-> name, args |-> args, float |-> float, rating |-> rating]
test_set == <<Entry("bitXor", 2, FALSE, 1), Entry("tmin", 0, FALSE, 1), Entry("isTmax", 1, FALSE, 2),
              Entry("allOddBits", 1, FALSE, 2), Entry("negate", 1, FALSE, 2),
              Entry("isAsciiDigit", 1, FALSE, 3), Entry("conditional", 3, FALSE, 3),
              Entry("isLessOrEqual", 2, FALSE, 3), Entry("logicalNeg", 1, FALSE, 4),
              Entry("howManyBits", 1, FALSE, 4), Entry("float_twice", 1, TRUE, 4),
              Entry("float_i2f", 1, TRUE, 4), Entry("float_f2i", 1, TRUE, 4)>>

ASSUME BTestAssumption == \A o \in BTOptions : o.limit \in BOOLEAN /\ o.rating \in [1 .. Len(test_set) -> Int]

T == test_set[ti]

(* solution_funct against test_funct on arguments a.                       *)
Passes(name, a) ==
    CASE name = "bitXor" -> test_bitXor(a[1], a[2], bitXor(a[1], a[2]))
      [] name = "tmin" -> test_tmin(tmin)
      [] name = "isTmax" -> test_isTmax(a[1], isTmax(a[1]))
      [] name = "allOddBits" -> test_allOddBits(a[1], allOddBits(a[1]))
      [] name = "negate" -> test_negate(a[1], negate(a[1]))
      [] name = "isAsciiDigit" -> test_isAsciiDigit(a[1], isAsciiDigit(a[1]))
      [] name = "conditional" -> test_conditional(a[1], a[2], a[3], conditional(a[1], a[2], a[3]))
      [] name = "isLessOrEqual" -> test_isLessOrEqual(a[1], a[2], isLessOrEqual(a[1], a[2]))
      [] name = "logicalNeg" -> test_logicalNeg(a[1], logicalNeg(a[1]))
      [] name = "howManyBits" -> test_howManyBits(a[1], howManyBits(a[1]))
      [] name = "float_twice" -> test_float_twice(a[1], float_twice(a[1]))
      [] name = "float_i2f" -> test_float_i2f(a[1], float_i2f(a[1]))
      [] name = "float_f2i" -> test_float_f2i(a[1], float_f2i(a[1]))

BTInit == /\ opt \in BTOptions /\ ti = 1 /\ bpc = "select" /\ vals = << >> /\ failed = {}
          /\ points = 0 /\ max_points = 0 /\ envbuf = 0 /\ alarmOf = 0 /\ charged = {}

(* gen_vals for words of floats: around zero, the least normal number, one *)
(* and the largest number, and the special values.                         *)
Around(x) == UNION {{Add(x, W(i)), Add(x, Neg(W(i)))} : i \in 0 .. TestRange - 1}
float_vals == LET inf == 23 .. 30
                  plus == {W(i) : i \in 0 .. TestRange - 1} \cup Around({23}) \cup Around(23 .. 29)
                          \cup {Add((0 .. 30) \ {23}, Neg(W(i))) : i \in 0 .. TestRange - 1}
                          \cup {inf, inf \cup {22}}
              IN plus \cup {x \cup {31} : x \in plus}
(* For integers: at both ends of the range, around zero, and at random.    *)
int_vals(rand) == UNION {{Add(tmin, W(i)), Add(Comp(tmin), Neg(W(i))), W(i), Neg(W(i))} :
                            i \in 0 .. TestRange - 1} \cup {rand}

gen_vals(arg, rand) == IF opt.fixed[arg] # {} THEN opt.fixed[arg]
                       ELSE IF T.float THEN float_vals ELSE int_vals(rand)

(* run_tests: the next function of the table, with -f only the named one.  *)
run_tests == /\ bpc = "select" /\ ti <= Len(test_set)
             /\ IF opt.only \in {"all", T.name}
                THEN bpc' = "gen" /\ max_points' = max_points + opt.rating[ti] /\ UNCHANGED ti
                ELSE ti' = ti + 1 /\ UNCHANGED <<bpc, max_points>>
             /\ UNCHANGED <<opt, vals, failed, points, envbuf, alarmOf, charged>>

test_function == /\ bpc = "gen"
                 /\ \E rand \in RandomWords : vals' = [i \in 1 .. T.args |-> gen_vals(i, rand)]
                 /\ bpc' = IF opt.limit THEN "setjmp" ELSE "test"
                 /\ UNCHANGED <<opt, ti, failed, points, max_points, envbuf, alarmOf, charged>>

(* Mutant: the alarm is set before there is a place to jump to.            *)
AlarmFirst == /\ bpc \in {"setjmp", "alarm"}
              /\ IF bpc = "setjmp" THEN bpc' = "alarm" /\ alarmOf' = ti /\ UNCHANGED envbuf
                 ELSE bpc' = "test" /\ envbuf' = ti /\ UNCHANGED alarmOf
              /\ UNCHANGED <<opt, ti, vals, failed, points, max_points, charged>>

(* sigsetjmp, then alarm, which replaces an alarm still pending.           *)
arm == /\ bpc \in {"setjmp", "alarm"}
       /\ IF bpc = "setjmp" THEN bpc' = "alarm" /\ envbuf' = ti /\ UNCHANGED alarmOf
          ELSE bpc' = "test" /\ alarmOf' = ti /\ UNCHANGED envbuf
       /\ UNCHANGED <<opt, ti, vals, failed, points, max_points, charged>>

Return(pts) == /\ points' = points + pts /\ ti' = ti + 1 /\ bpc' = "select" /\ vals' = << >>

Others == CASE T.args < 2 -> {<< >>}
            [] T.args = 2 -> {<<y>> : y \in vals[2]}
            [] T.args = 3 -> {<<y, z>> : y \in vals[2], z \in vals[3]}

(* The next value of the first argument (the values are sets here: their   *)
(* order matters only for which error is the one reported).                *)
test_arg == /\ bpc = "test" /\ T.args > 0 /\ vals[1] # {}
            /\ \E x \in {CHOOSE x \in vals[1] : TRUE} :
                 IF \A o \in Others : Passes(T.name, <<x>> \o o)
                 THEN vals' = [vals EXCEPT ![1] = @ \ {x}] /\ UNCHANGED <<ti, bpc, points, failed>>
                 ELSE failed' = failed \cup {ti} /\ Return(0)
            /\ UNCHANGED <<opt, max_points, envbuf, alarmOf, charged>>

(* The alarm is left running when test_function returns.                   *)
test_done == /\ bpc = "test" /\ (T.args > 0 => vals[1] = {})
             /\ IF T.args > 0 \/ Passes(T.name, << >>)
                THEN Return(opt.rating[ti]) /\ UNCHANGED failed
                ELSE Return(0) /\ failed' = failed \cup {ti}
             /\ UNCHANGED <<opt, max_points, envbuf, alarmOf, charged>>

(* Mutant: a function that timed out is given its points.                  *)
TimeoutStillScores ==
    /\ alarmOf # 0 /\ bpc \notin {"exit", "dead"} /\ Cardinality(charged) < MaxTimeouts
    /\ IF envbuf = ti /\ bpc \in {"alarm", "test"}
       THEN charged' = charged \cup {[f |-> ti, owner |-> alarmOf]} /\ Return(opt.rating[ti])
       ELSE bpc' = "dead" /\ UNCHANGED <<points, ti, vals, charged>>
    /\ alarmOf' = IF bpc' = "dead" THEN alarmOf ELSE 0
    /\ UNCHANGED <<opt, failed, max_points, envbuf>>

(* The jump lands in the call envbuf was set in, if it has not returned.   *)
timeout_handler == /\ alarmOf # 0 /\ bpc \notin {"exit", "dead"} /\ Cardinality(charged) < MaxTimeouts
                   /\ IF envbuf = ti /\ bpc \in {"alarm", "test"}
                      THEN charged' = charged \cup {[f |-> ti, owner |-> alarmOf]} /\ Return(0)
                      ELSE bpc' = "dead" /\ UNCHANGED <<points, ti, vals, charged>>
                   /\ alarmOf' = IF bpc' = "dead" THEN alarmOf ELSE 0
                   /\ UNCHANGED <<opt, failed, max_points, envbuf>>

bt_exit == /\ bpc = "select" /\ ti > Len(test_set) /\ bpc' = "exit"
           /\ UNCHANGED <<opt, ti, vals, failed, points, max_points, envbuf, alarmOf, charged>>

BTNext == run_tests \/ test_function \/ arm \/ test_arg \/ test_done \/ timeout_handler \/ bt_exit

BTSpec == BTInit /\ [][BTNext]_bvars

----------------------------------------------------------------------------
(* A magnitude of 25 bits half way between two floats, the smaller of them *)
(* even.                                                                   *)
Misrounded(x) == LET mag == IF 31 \in x THEN Neg(x) ELSE x
                 IN Width(mag) = 25 /\ 0 \in mag /\ 1 \notin mag

(* Every puzzle of bits.c agrees with its reference on all the values      *)
(* btest gives it, its own, which wrap and overflow, and those of a        *)
(* command line; the one exception is float_i2f on a word it misrounds.    *)
PuzzlesCorrect == \A f \in failed : /\ test_set[f].name = "float_i2f"
                                    /\ \E x \in opt.fixed[1] : Misrounded(x)

(* bits.c says that float_i2f is bit-level equivalent to the conversion to *)
(* float (bits.c:378), without exception.  That does not hold.             *)
FloatI2fEquivalent == \A f \in failed : test_set[f].name # "float_i2f"

(* A jump out of the handler finds the call of the function the alarm was  *)
(* set for; one that finds none, or another function's, comes from an      *)
(* alarm that its function left running when it returned.                  *)
AlarmFindsItsFunction == /\ bpc = "dead" => alarmOf < ti
                         /\ \A c \in charged : c.owner <= c.f
                         /\ bpc = "test" /\ opt.limit => alarmOf = ti /\ envbuf = ti

(* A function that failed or was charged with a time-out loses its points, *)
(* once and all of them; the others have theirs.                           *)
Lost == failed \cup {c.f : c \in charged}
PointsExact == bpc = "exit" =>
                   points = max_points - MapThenSumSet(LAMBDA f : opt.rating[f], Lost)

(* The alarm finds its function, and the points are what it charged.       *)
ChargesAreRight == AlarmFindsItsFunction /\ PointsExact
=============================================================================
