------------------------------ MODULE MCQTest -------------------------------
(***************************************************************************)
(* QTest on a small instance: the command lines and the input files.       *)
(***************************************************************************)
EXTENDS QTest

Line(fn, s, n) == [fn |-> fn, s |-> s, reps |-> n, timed |-> FALSE]

MCLines == {Line(fn, "none", 0) : fn \in {"new", "free", "rhq", "reverse", "show", "quit", "bad",
                                         "comment"}}
           \cup {Line("ih", "a", 1), Line("it", "b", 2), Line("rh", "a", 0),
                 Line("size", "none", 1),
                 Line("option", "malloc", 1), Line("option", "fail", 1), Line("option", "error", 1),
                 Line("source", "rest", 0), Line("source", "none", 1)}
           \cup {[Line("reverse", "none", 0) EXCEPT !.timed = TRUE]}

MCFirstFiles == {[lines |-> 4, open |-> FALSE, loaded |-> FALSE],
                 [lines |-> 3, open |-> TRUE, loaded |-> FALSE]}
=============================================================================
