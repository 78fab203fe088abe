------------------------------- MODULE FShow --------------------------------
(***************************************************************************)
(* The two display programs of the data lab, fshow.c and ishow.c: they     *)
(* read each argument as a word of 32 bits and show it as a float or as an *)
(* integer.                                                                *)
(***************************************************************************)
EXTENDS Bits, Sequences

(* An argument is the classes of its characters ("x", "e", "." and other), *)
(* the number hi * 2^31 + lo that strtoll reads from it, the float that    *)
(* strtof reads, and whether strtof reads all of it.  lo and the float are *)
(* words.                                                                  *)
CONSTANTS Args,     \* the arguments there can be
          MaxArgs   \* bound: arguments of one call

VARIABLES prog,     \* "fshow" or "ishow"
          argv,     \* the arguments that are left
          shown,    \* what was shown last, and for which argument
          fpc       \* "loop", "exit" or "usage"

fvars == <<prog, argv, shown, fpc>>

Nothing == [arg |-> << >>, as |-> [kind |-> "none"]]
Show(arg, as) == shown' = [arg |-> arg, as |-> as]

----------------------------------------------------------------------------
get_exp(uf)  == Unsigned(Shr(uf, 23) \cap (0 .. 7))
get_frac(uf) == Unsigned(uf \cap (0 .. 22))
get_sign(uf) == 31 \in uf

BIAS == 127
EXP_MASK == 255

(* Mutant: the exponent of denormalized numbers is not adjusted.           *)
DenormFromZero(exp, frac) ==
    IF exp = 0 THEN [man |-> frac, uexp |-> -BIAS]
    ELSE [man |-> frac + 2 ^ 23, uexp |-> exp - BIAS]

(* The mantissa, in units of 2^-23, and the exponent of a finite number.   *)
Scaled(exp, frac) ==
    IF exp = 0 THEN [man |-> frac, uexp |-> 1 - BIAS]
    ELSE [man |-> frac + 2 ^ 23, uexp |-> exp - BIAS]

show_float(uf) ==
    LET exp == get_exp(uf)  frac == get_frac(uf)  f == Scaled(exp, frac)
    IN  [kind |-> IF exp # EXP_MASK THEN "float" ELSE IF frac = 0 THEN "infinity" ELSE "nan",
         word |-> uf, minus |-> get_sign(uf), man |-> f.man, uexp |-> f.uexp]

show_int(uf) == [kind |-> "int", word |-> uf, signed |-> Value(uf)]

----------------------------------------------------------------------------
(* A point, or an e that does not follow an x, means a float.              *)
isfloat(text) == \E i \in DOMAIN text :
                    \/ text[i] = "."
                    \/ text[i] = "e" /\ ~\E j \in 1 .. i - 1 : text[j] = "x"

(* An integer is taken if the bits above the lowest 31 are -1, 0 or 1;     *)
(* where strtoll stopped is not looked at.                                 *)
int_val(a) == [ok |-> a.hi \in {-1, 0, 1},
               val |-> a.lo \cup (IF (a.hi % 2) = 1 THEN {31} ELSE {})]

fshow_num_val(a) == IF isfloat(a.text) THEN [ok |-> a.whole, val |-> a.float] ELSE int_val(a)

ishow_num_val(a) == IF isfloat(a.text) THEN [ok |-> FALSE, val |-> {}] ELSE int_val(a)

ShowInit == /\ prog \in {"fshow", "ishow"} /\ shown = Nothing
            /\ argv \in UNION {[1 .. n -> Args] : n \in 0 .. MaxArgs}
            /\ fpc = IF argv = << >> THEN "usage" ELSE "loop"

(* One argument of fshow; the first that is no number ends the program.    *)
fshow_main == /\ prog = "fshow" /\ fpc = "loop" /\ argv # << >>
              /\ \E n \in {fshow_num_val(Head(argv))} :
                   \/ n.ok /\ Show(Head(argv), show_float(n.val)) /\ UNCHANGED fpc
                   \/ ~n.ok /\ fpc' = "usage" /\ UNCHANGED shown
              /\ argv' = Tail(argv) /\ UNCHANGED prog

(* One argument of ishow, which goes on after one that is no number.       *)
ishow_main == /\ prog = "ishow" /\ fpc = "loop" /\ argv # << >>
              /\ \E n \in {ishow_num_val(Head(argv))} :
                   \/ n.ok /\ Show(Head(argv), show_int(n.val))
                   \/ ~n.ok /\ UNCHANGED shown
              /\ argv' = Tail(argv) /\ UNCHANGED <<prog, fpc>>

show_exit == /\ fpc = "loop" /\ argv = << >> /\ fpc' = "exit"
             /\ UNCHANGED <<prog, argv, shown>>

ShowNext == fshow_main \/ ishow_main \/ show_exit

----------------------------------------------------------------------------
(* What fshow shows is the value of the float.  Zero is zero, and the      *)
(* value of the next word, in any direction away from zero, is one unit of *)
(* the last place more, also from the denormalized to the normalized       *)
(* numbers and from one exponent to the next; the word after the largest   *)
(* number is infinity.  ishow shows the number it was given, if that fits  *)
(* an int.                                                                 *)
ShownIsExact ==
    LET s == shown.as  arg == shown.arg IN
    /\ s.kind = "float" =>
         LET next == show_float(Add(s.word, {0})) IN
         /\ s.word \subseteq {31} => s.man = 0
         /\ next.minus = s.minus
         /\ next.kind = "float" => /\ next.uexp - s.uexp \in {0, 1}
                                   /\ next.man * 2 ^ (next.uexp - s.uexp) = s.man + 1
         /\ next.kind # "float" => /\ next.kind = "infinity"
                                   /\ s.man = 2 ^ 24 - 1 /\ s.uexp = BIAS
    /\ s.kind = "int" /\ arg.hi \in {-1, 0} =>
         s.signed = Unsigned(arg.lo) + (IF arg.hi = 0 THEN 0 ELSE -2147483647 - 1)
============================================================================
