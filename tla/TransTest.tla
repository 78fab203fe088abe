----------------------------- MODULE TransTest ------------------------------
(***************************************************************************)
(* The driver of the transpose functions, 4_CacheLab/cachelab-handout/     *)
(* test-trans.c.  For every registered function it runs tracegen under     *)
(* valgrind, cuts the trace of the function out of the trace of the        *)
(* program, has the reference simulator count its misses, and at the end   *)
(* reports on the submission.  It communicates with the programs it runs   *)
(* through exit statuses and files, which stay where they are between two  *)
(* functions and from an earlier run.                                      *)
(***************************************************************************)
EXTENDS Integers, Sequences

CONSTANTS Lists   \* {sequence of [desc, does]}: does is "works", "wrong" or "crashes"

ASSUME TransTestAssumption ==
    \A l \in Lists : l # << >> /\ l \in Seq([desc : STRING, does : {"works", "wrong", "crashes"}])

SUBMIT_DESCRIPTION == "Transpose submission"
NoFile == -2
None == 0            \* a file without content, and the counts obtained from it
Whole(i) == 2 * i    \* the trace of function i, and the counts obtained from it
Cut(i) == 2 * i - 1  \* a part of that trace, without its end marker

VARIABLES list,      \* func_list
          execs,     \* the shell replaces itself by its last command (external)
          func,      \* the function evaluated
          dpc,
          marker, tracetmp, tracef, simresults,  \* .marker, trace.tmp, trace.f<i>, .csim_results
          flag, counts,                          \* locals of eval_perf
          results, output,
          simfailed  \* history: csim-ref left without writing its counts

ttvars == <<list, execs, func, dpc, marker, tracetmp, tracef, simresults, flag, counts,
            results, output, simfailed>>
files == <<marker, tracetmp, tracef, simresults>>

(* The registered functions; -1 marks the counts an earlier run left.      *)
TTInit == /\ list \in Lists /\ execs \in BOOLEAN
          /\ func = 1 /\ dpc = "trace"
          /\ marker = FALSE /\ tracetmp = None /\ tracef = [i \in DOMAIN list |-> None]
          /\ simresults \in {NoFile, -1}
          /\ flag = 0 /\ counts = None
          /\ results = [funcid |-> 0, correct |-> 0, misses |-> None]
          /\ output = "none" /\ simfailed = FALSE

(* WEXITSTATUS of system(cmd): tracegen returns the number of the function *)
(* when it is wrong; a crash is 128 + n only if the shell is still there   *)
(* to say so.                                                              *)
ExitStatus == CASE list[func].does = "works" -> 0
                [] list[func].does = "wrong" -> func
                [] list[func].does = "crashes" -> IF execs THEN 0 ELSE 139

(* The end of the loop, or of main.                                        *)
NextFunction == IF func < Len(list) THEN func' = func + 1 /\ dpc' = "trace"
                ELSE dpc' = "emit" /\ UNCHANGED func

(* Step 1: find the submission, run tracegen.                              *)
validate_function ==
    /\ dpc = "trace" /\ dpc' = "status"
    /\ results' = IF list[func].desc = SUBMIT_DESCRIPTION
                  THEN [results EXCEPT !.funcid = func] ELSE results
    /\ marker' = TRUE /\ flag' = ExitStatus
    /\ tracetmp' = IF list[func].does = "crashes" THEN Cut(func) ELSE Whole(func)
    /\ UNCHANGED <<list, execs, func, tracef, simresults, counts, output, simfailed>>

(* Mutant: a function that fails takes the verdict on the submission away. *)
SkipClearsCorrect == /\ dpc = "status" /\ flag # 0 /\ NextFunction
                     /\ results' = [results EXCEPT !.correct = 0]
                     /\ UNCHANGED <<list, execs, files, flag, counts, output, simfailed>>

skip_function == /\ dpc = "status" /\ flag # 0 /\ NextFunction
                 /\ UNCHANGED <<list, execs, files, flag, counts, results, output, simfailed>>

(* Mutant: the submission is always correct once it has been found.        *)
CorrectOnceFound == /\ dpc = "status" /\ dpc' = "filter"
                    /\ results' = IF results.funcid = func THEN [results EXCEPT !.correct = 1] ELSE results
                    /\ UNCHANGED <<list, execs, func, files, flag, counts, output, simfailed>>

accept_function == /\ dpc = "status" /\ flag = 0 /\ marker /\ dpc' = "filter"
                   /\ results' = IF results.funcid = func THEN [results EXCEPT !.correct = 1] ELSE results
                   /\ UNCHANGED <<list, execs, func, files, flag, counts, output, simfailed>>

(* The trace of the function.  The file is closed, and with it written, at *)
(* the end marker only: without one the simulator finds what stdio has     *)
(* flushed so far, or nothing.                                             *)
filter_trace == /\ dpc = "filter" /\ dpc' = "simulate"
                /\ \E t \in IF tracetmp = Whole(func) THEN {tracetmp} ELSE {tracetmp, None} :
                     tracef' = [tracef EXCEPT ![func] = t]
                /\ UNCHANGED <<list, execs, func, marker, tracetmp, simresults, flag, counts,
                               results, output, simfailed>>

(* Mutant: every function is simulated on the trace of the first.          *)
SimulatesFirst == /\ dpc = "simulate" /\ dpc' = "collect"
                  /\ simresults' = tracef[1] /\ simfailed' = simfailed
                  /\ UNCHANGED <<list, execs, func, marker, tracetmp, tracef, flag, counts, results, output>>

(* Step 2: csim-ref writes its counts, or fails and writes none; its       *)
(* status is not looked at.                                                *)
run_csim_ref == /\ dpc = "simulate" /\ dpc' = "collect"
                /\ \/ simresults' = tracef[func] /\ UNCHANGED simfailed
                   \/ simfailed' = TRUE /\ UNCHANGED simresults
                /\ UNCHANGED <<list, execs, func, marker, tracetmp, tracef, flag, counts, results, output>>

collect == /\ dpc = "collect"
           /\ IF simresults = NoFile   \* assert(in_fp)
              THEN dpc' = "abort" /\ UNCHANGED <<func, counts, results>>
              ELSE /\ counts' = simresults /\ NextFunction
                   /\ results' = IF results.funcid = func THEN [results EXCEPT !.misses = simresults]
                                 ELSE results
           /\ UNCHANGED <<list, execs, files, flag, output, simfailed>>

emit == /\ dpc = "emit" /\ dpc' = "exit"
        /\ output' = IF results.funcid = 0 THEN "0:0" ELSE "results"
        /\ UNCHANGED <<list, execs, func, files, flag, counts, results, simfailed>>

(* Two minutes are over.                                                   *)
sigalrm_handler == /\ dpc \notin {"exit", "abort"} /\ dpc' = "exit" /\ output' = "0:0"
                   /\ UNCHANGED <<list, execs, func, files, flag, counts, results, simfailed>>

TTNext == \/ validate_function \/ skip_function \/ accept_function \/ filter_trace \/ run_csim_ref
          \/ collect \/ emit \/ sigalrm_handler

TTSpec == TTInit /\ [][TTNext]_ttvars

----------------------------------------------------------------------------
Submission == list[results.funcid]
OneSubmission == \A k \in DOMAIN list : list[k].desc = SUBMIT_DESCRIPTION => k = results.funcid

(* What is reported as correct has been validated: unless the function     *)
(* crashed in a shell that replaced itself, so that WEXITSTATUS is 0, or   *)
(* two functions carry the description of the submission.                  *)
CorrectMeansValidated ==
    output = "results" /\ OneSubmission /\ results.correct = 1 =>
        \/ Submission.does = "works"
        \/ Submission.does = "crashes" /\ execs

(* The misses reported are those of the whole trace of the submission, not *)
(* of another function, of an earlier run or of half a trace, as long as   *)
(* every simulation succeeds and no crash is taken for a success.          *)
MissesAreItsOwn ==
    output = "results" /\ ~simfailed /\ results.correct = 1 /\ Submission.does = "works" =>
        results.misses = Whole(results.funcid)

(* Without the alarm a right submission is reported right: nothing the     *)
(* other functions do, before it or after it, takes that away.             *)
RightIsReported ==
    output = "results" /\ results.funcid # 0 /\ Submission.does = "works" => results.correct = 1

(* What test-trans reports of the submission: its correctness, in both     *)
(* directions, and its misses.                                             *)
ReportIsRight == CorrectMeansValidated /\ MissesAreItsOwn /\ RightIsReported
=============================================================================
