------------------------------- MODULE MCLabs -------------------------------
(***************************************************************************)
(* The programs of the cache lab and of the data lab on small instances.   *)
(* They do not interact: a behaviour runs one of them, chosen by mode, and *)
(* the state of the others stays initial.                                  *)
(***************************************************************************)
EXTENDS CSim, Trans, TransTest, BTest, FShow

VARIABLE mode

MCAssociativities == {-1, 1, 2}

Clipped == {"trans", "block8_simple", "block8", "block8_for64", "avoid_eviction", "block8x4_ref"}
Fixed == {"opfor64", "opfor64_m", "opfor64_f", "block8x4_opt"}
(* The matrices of the lab, 32 x 32, 64 x 64 and 61 x 67, and small ones.  *)
MCInvocations ==
    {<<s[1], s[2], <<f>>>> : s \in {<<61, 67>>, <<13, 8>>, <<3, 7>>, <<32, 32>>}, f \in Clipped}
    \cup {<<s, s, <<f>>>> : s \in {16, 24, 32, 64}, f \in Fixed}
    \cup {<<61, 67, <<"block8x4_opt">>>>, <<12, 16, <<"opfor64">>>>}
    \cup {<<16, 16, fs>> : fs \in {<<"transpose_submit", "block8x4_opt">>,
                                  <<"block8x4_opt", "transpose_submit">>,
                                  <<"block8", "opfor64_f", "transpose_submit">>}}

MCLists == UNION {[1 .. n -> [desc : {SUBMIT_DESCRIPTION, "other"},
                             does : {"works", "wrong", "crashes"}]] : n \in 1 .. 2}

OwnRating == [i \in 1 .. Len(test_set) |-> test_set[i].rating]
Given(x) == [only |-> "float_i2f", fixed |-> <<{x}, {}, {}>>, limit |-> FALSE, rating |-> OwnRating]
(* Numbers of n bits, of which floats keep 24: both sides of the last one, *)
(* all kept bits set or only the first.                                    *)
MCInts == {((IF all THEN n - 24 .. n - 1 ELSE {n - 1}) \cup {n - 25 + b : b \in low} \cup rest) \cap (0 .. n - 1) :
              n \in {23, 24, 25, 26, 31}, all \in BOOLEAN, low \in SUBSET {0, 1}, rest \in {{}, {0}}}
MCBTOptions == {[only |-> "all", fixed |-> <<{}, {}, {}>>, limit |-> TRUE, rating |-> OwnRating],
                [only |-> "isLessOrEqual", fixed |-> <<{{31}}, {}, {}>>, limit |-> FALSE,
                 rating |-> [i \in 1 .. Len(test_set) |-> 1]]}
               \cup {Given(x) : x \in MCInts \cup {Neg(x) : x \in MCInts}}
MCRandomWords == {{0, 7, 8, 31}, 6 .. 30}

(* Words on both sides of every change of exponent, as hex patterns; the   *)
(* other forms of a number, and numbers of more than 32 bits.              *)
MCWords == {{23 + b : b \in W(e)} \cup f : e \in {0, 1, 2, 127, 128, 254, 255},
                                          f \in {{}, {0}, 1 .. 22, 0 .. 22}}
Pattern(hi, lo) == [text |-> <<"d", "x", "e">>, hi |-> hi, lo |-> lo, float |-> {}, whole |-> FALSE]
MCArgs == {Pattern(hi, w) : hi \in {0, 1}, w \in MCWords}
          \cup {Pattern(hi, lo) : hi \in {-2, -1, 2}, lo \in {{}, 0 .. 30}}
          \cup {[text |-> t, hi |-> 0, lo |-> {0}, float |-> {23}, whole |-> w] :
                   t \in {<<"d", ".", "d">>, <<"d", "e", "d">>, <<"d", "x", ".", "e">>, <<"d">>},
                   w \in BOOLEAN}

labvars == <<csimvars, tvars, ttvars, bvars, fvars, mode>>

CSimIdle == CSimInit /\ E = 1
TransIdle == TransInit /\ size = <<3, 7>> /\ funcs = <<"trans">>
TTIdle == TTInit /\ list = <<[desc |-> "other", does |-> "wrong"]>> /\ ~execs /\ simresults = NoFile
BTIdle == BTInit /\ opt.limit
ShowIdle == ShowInit /\ prog = "fshow" /\ argv = << >>

Init == \/ mode = "csim" /\ CSimInit /\ TransIdle /\ TTIdle /\ BTIdle /\ ShowIdle
        \/ mode = "tracegen" /\ CSimIdle /\ TransInit /\ TTIdle /\ BTIdle /\ ShowIdle
        \/ mode = "test-trans" /\ CSimIdle /\ TransIdle /\ TTInit /\ BTIdle /\ ShowIdle
        \/ mode = "btest" /\ CSimIdle /\ TransIdle /\ TTIdle /\ BTInit /\ ShowIdle
        \/ mode = "show" /\ CSimIdle /\ TransIdle /\ TTIdle /\ BTIdle /\ ShowInit

Ended == CASE mode = "csim" -> at \in {"exit", "failed"}
           [] mode = "tracegen" -> tpc \in {"ok", "failed", "out"}
           [] mode = "test-trans" -> dpc \in {"exit", "abort"}
           [] mode = "btest" -> bpc \in {"exit", "dead"}
           [] mode = "show" -> fpc \in {"exit", "usage"}

Next == \/ mode = "csim" /\ CSimNext /\ UNCHANGED <<tvars, ttvars, bvars, fvars, mode>>
        \/ mode = "tracegen" /\ TransNext /\ UNCHANGED <<csimvars, ttvars, bvars, fvars, mode>>
        \/ mode = "test-trans" /\ TTNext /\ UNCHANGED <<csimvars, tvars, bvars, fvars, mode>>
        \/ mode = "btest" /\ BTNext /\ UNCHANGED <<csimvars, tvars, ttvars, fvars, mode>>
        \/ mode = "show" /\ ShowNext /\ UNCHANGED <<csimvars, tvars, ttvars, bvars, mode>>
        \/ Ended /\ UNCHANGED labvars

Spec == Init /\ [][Next]_labvars
=============================================================================
