------------------------------- MODULE QTest --------------------------------
(***************************************************************************)
(* The test program of the C programming lab, qtest.c, with its console,   *)
(* its harness and the queue it tests: main, the command handlers do_new,  *)
(* do_free, ..., queue_quit, and the handlers of SIGALRM and SIGSEGV.      *)
(*                                                                         *)
(* A handler is: checks and exception_setup (Enter), the steps of the      *)
(* queue operation, exception_cancel and the verdict (Cancel), show_queue  *)
(* (Show), and the return to the console, which counts errors (Finish).    *)
(* The alarm may strike between any two steps of an operation.             *)
(***************************************************************************)
EXTENDS CQueue, Console, SequencesExt

CONSTANTS Lines,      \* the command lines there can be
          FirstFiles, \* the input files the program may be started with
          MaxCuts,    \* bound: time-outs in one run
          MaxSources, \* bound: source commands in one run: the input is finite
          Levels,     \* verbosity levels of -v
          BigQueue    \* big_queue_size

ASSUME QTestAssumption == /\ FirstFiles \subseteq File /\ MaxFiles \in Nat /\ MaxCuts \in Nat
                          /\ MaxSources \in Nat /\ BigQueue \in Nat
                          /\ Levels \subseteq Int

(* What parsing a line gives: a command, a string argument, which is one   *)
(* that can be stored where the command stores it, and a number.           *)
ASSUME LinesAssumption ==
    \A line \in Lines : /\ line.reps \in Nat /\ line.timed \in BOOLEAN
                        /\ line.fn \in {"ih", "it"} => line.s \in Strings

VARIABLES qcnt, fail_count, fail_limit,   \* the globals of qtest.c
          cuts,                           \* history: the commands cut short
          segv,                           \* history: was NULL dereferenced?
          sourced                         \* how many source commands there were

(* qcnt and allocated_count are of type size_t: a negative number n stands *)
(* for n + 2^64, which is greater than any number they are compared with.  *)
Exceeds(count, n) == count > n \/ count < 0

tester == <<qcnt, fail_count, fail_limit>>
history == <<cuts, segv, sourced>>
machine == <<q, pc, reg, fail_probability>>
vars == <<harness, machine, console, tester, history>>

(* The end of the program, normal (exit0, exit1) or not.                   *)
Ends == {"exit0", "exit1", "wild"}
NoRegs == [fn |-> "none", sub |-> "none", timed |-> FALSE, s |-> "none", reps |-> 0,
           new |-> NULL, lp |-> NULL, prv |-> NULL, cnt |-> 0, r |-> 0, val |-> 0,
           rval |-> FALSE, ok |-> TRUE, got |-> Unused]

(* The queue is absent; both handlers are installed before any command.    *)
queue_init == fail_count = 0 /\ q = NULL

Init == /\ HarnessInit /\ ConsoleInit /\ queue_init
        /\ pc = "main" /\ reg = NoRegs /\ fail_probability = FALSE
        /\ qcnt = 0 /\ fail_limit = 2 /\ err_limit = 2
        /\ verblevel \in Levels
        /\ cuts = << >> /\ segv = FALSE /\ sourced = 0

----------------------------------------------------------------------------
(* run_console and cmd_select.                                             *)

(* main: the first file is opened, or the program fails.                   *)
run_console == /\ At("main")
               /\ \/ /\ \E f \in FirstFiles : files' = Pushed(f)
                     /\ malloc_or_fail(1) /\ Goto("ready")
                  \/ Goto("exit1") /\ UNCHANGED <<files, accounted>>
               /\ UNCHANGED <<harness, q, reg, fail_probability, tester, history,
                              err_cnt, err_limit, quit_flag, verblevel>>

(* A line is skipped once quit_flag is set: the buffer is drained.         *)
cmd_skip == /\ At("ready") /\ quit_flag /\ read_ready /\ ReadComplete
            /\ UNCHANGED <<harness, machine, tester, history, accounted,
                           err_cnt, err_limit, quit_flag, verblevel>>

(* Mutant: the file is not popped at its end.                              *)
EofKeepsFile == At("ready") /\ ~quit_flag /\ files # << >> /\ Head(files).lines = 0 /\ UNCHANGED vars

(* An empty read at the end of a file.                                     *)
cmd_eof == /\ At("ready") /\ ~quit_flag /\ ReadNothing /\ free_block(1)
           /\ UNCHANGED <<harness, machine, tester, history,
                          err_cnt, err_limit, quit_flag, verblevel>>

(* interpret_cmd: the handler of the command is called.                    *)
interpret_cmd == /\ At("ready") /\ ~quit_flag
                 /\ \E line \in Lines :
                      /\ line.fn = "source" => sourced < MaxSources
                      /\ sourced' = sourced + (IF line.fn = "source" THEN 1 ELSE 0)
                      /\ reg' = [NoRegs EXCEPT !.fn = line.fn, !.s = line.s, !.reps = line.reps,
                                               !.timed = line.timed]
                 /\ \/ ReadComplete /\ malloc_or_fail(ArgBlocks)
                    \/ ReadRest /\ malloc_or_fail(ArgBlocks - 1)   \* one is freed by pop_file
                 /\ Goto("enter")
                 /\ UNCHANGED <<harness, q, fail_probability, tester, cuts, segv,
                                err_cnt, err_limit, quit_flag, verblevel>>

(* finish_cmd: quit, unless it was the error limit or the command quit     *)
(* that ended the loop, or an error was counted.                           *)
finish_cmd == /\ At("ready") /\ cmd_done /\ ~read_ready
              /\ \/ err_cnt > 0 /\ Goto("exit1") /\ UNCHANGED reg
                 \/ err_cnt = 0 /\ quit_flag /\ Goto("exit0") /\ UNCHANGED reg
                 \/ /\ err_cnt = 0 /\ ~quit_flag
                    /\ Goto("enter") /\ reg' = [NoRegs EXCEPT !.fn = "quit", !.sub = "main"]
              /\ UNCHANGED <<harness, q, fail_probability, console, tester, history>>

----------------------------------------------------------------------------
(* The command handlers.                                                   *)

Keep == UNCHANGED <<blocks, q, fail_probability, tester, history>>
ConsoleKept == UNCHANGED <<files, err_cnt, err_limit, quit_flag, verblevel, accounted>>
Done(ok) == Goto("done") /\ reg' = [reg EXCEPT !.ok = ok]

(* do_free and queue_quit begin alike; a long queue is freed incautiously. *)
EnterFree == /\ cautious_mode' = ~Exceeds(qcnt, BigQueue) /\ UNCHANGED noallocate_mode
             /\ reg' = [reg EXCEPT !.lp = IF q = NULL THEN NULL ELSE head]
             /\ Goto(IF q = NULL THEN "ret" ELSE "free_value")

(* do_new calls do_free on the old queue first.                            *)
do_new == /\ At("enter") /\ reg.fn = "new" /\ q # NULL /\ Keep /\ ConsoleKept
          /\ reg' = [reg EXCEPT !.fn = "free", !.sub = "new"]
          /\ UNCHANGED <<pc, modes, exceptions>>

do_free == /\ At("enter") /\ reg.fn = "free" /\ Keep /\ ConsoleKept
           /\ error_occurred' = FALSE /\ exception_setup /\ EnterFree

queue_quit == /\ At("enter") /\ reg.fn = "quit" /\ Keep
              /\ do_quit_cmd /\ UNCHANGED <<err_cnt, err_limit, quit_flag, verblevel>>
              /\ UNCHANGED error_occurred /\ exception_setup /\ EnterFree

(* error_check, whose result is dropped, and exception_setup.              *)
Enter(fns, lp, first) == /\ At("enter") /\ reg.fn \in fns /\ Keep /\ ConsoleKept
                         /\ error_occurred' = FALSE /\ exception_setup /\ UNCHANGED cautious_mode
                         /\ reg' = [reg EXCEPT !.lp = lp] /\ Goto(first)

EnterNew == q = NULL /\ Enter({"new"}, NULL, "new") /\ UNCHANGED noallocate_mode
InsertOrNot == IF reg.reps = 0 THEN "cancel" ELSE "insert"
do_insert_head == Enter({"ih"}, NULL, InsertOrNot) /\ UNCHANGED noallocate_mode
do_insert_tail == Enter({"it"}, NULL, InsertOrNot) /\ UNCHANGED noallocate_mode
do_remove == Enter({"rh", "rhq"}, NULL, "remove") /\ UNCHANGED noallocate_mode
do_reverse == /\ Enter({"reverse"}, IF q = NULL THEN NULL ELSE head, IF q = NULL THEN "cancel" ELSE "reverse")
              /\ noallocate_mode' = TRUE
do_size == Enter({"size"}, NULL, IF reg.reps = 0 THEN "cancel" ELSE "size")
           /\ UNCHANGED noallocate_mode

(* Comments and help print and return.                                     *)
do_comment_cmd == /\ At("enter") /\ reg.fn = "comment" /\ Done(TRUE)
                  /\ UNCHANGED <<harness, q, tester, history, console, fail_probability>>

(* Commands that only return, and do_show, which begins with show_queue.   *)
EnterOther == /\ At("enter") /\ UNCHANGED <<harness, q, qcnt, fail_count, history>>
              /\ \/ /\ reg.fn = "bad" /\ Done(FALSE)   \* unknown, or wrong arguments
                    /\ UNCHANGED <<console, fail_probability, fail_limit>>
                 \/ /\ reg.fn = "show" /\ Goto("show") /\ UNCHANGED <<reg, console, fail_probability, fail_limit>>
                 \/ /\ reg.fn = "option" /\ Done(TRUE)
                    /\ do_option_cmd(reg.s, reg.reps)
                    /\ fail_probability' = IF reg.s = "malloc" THEN reg.reps > 0 ELSE fail_probability
                    /\ fail_limit' = IF reg.s = "fail" THEN reg.reps ELSE fail_limit
                    /\ UNCHANGED <<files, err_cnt, quit_flag, accounted>>
                 \/ /\ reg.fn = "source" /\ CanOpen /\ Done(TRUE)
                    /\ files' = Pushed([lines |-> reg.reps, open |-> reg.s = "rest", loaded |-> FALSE])
                    /\ malloc_or_fail(1)
                    /\ UNCHANGED <<err_cnt, err_limit, quit_flag, verblevel, fail_probability, fail_limit>>
                 \/ /\ reg.fn = "source" /\ ~CanOpen /\ Done(FALSE)
                    /\ UNCHANGED <<console, fail_probability, fail_limit>>

(* The count of failures, and whether there have been too many.            *)
fail == fail_count' = fail_count + 1
TooMany == fail_count + 1 >= fail_limit

(* The operation has returned.  Insertions and sizes are repeated; what    *)
(* the others return is stored.                                            *)
Repeat(ok) == /\ reg' = [reg EXCEPT !.ok = ok, !.r = @ + 1]
              /\ Goto(IF ok /\ reg.r + 1 < reg.reps THEN "insert" ELSE "cancel")

RetInsert == /\ At("ret") /\ reg.fn \in {"ih", "it"}
             /\ NoStore /\ error_occurred' = FALSE
             /\ \/ /\ reg.rval /\ qcnt' = qcnt + 1 /\ UNCHANGED fail_count
                   /\ Repeat(reg.ok /\ ~error_occurred /\ (Usable(head) => heap[head].value # NULL))
                \/ /\ ~reg.rval /\ fail /\ UNCHANGED qcnt
                   /\ Repeat(reg.ok /\ ~error_occurred /\ ~TooMany)
             /\ UNCHANGED <<q, fail_limit, modes, jmp_ready, time_limited>>

RetOther == /\ At("ret") /\ reg.fn \notin {"ih", "it"}
            /\ NoStore /\ UNCHANGED <<tester, modes, jmp_ready, time_limited>>
            /\ q' = IF reg.fn = "new" THEN reg.new ELSE q
            /\ IF reg.fn = "size"
               THEN /\ error_occurred' = FALSE
                    /\ reg' = [reg EXCEPT !.val = reg.cnt, !.r = @ + 1, !.ok = @ /\ ~error_occurred]
                    /\ Goto(IF reg.ok /\ ~error_occurred /\ reg.r + 1 < reg.reps
                            THEN "size" ELSE "cancel")
               ELSE /\ UNCHANGED error_occurred /\ Goto("cancel")
                    /\ reg' = [reg EXCEPT !.val = IF reg.rval THEN 1 ELSE 0]

(* SIGALRM in an operation.  A handler's local that the operation had set  *)
(* is not volatile: it may have its old value after the jump.              *)
Cuts == cuts' = Append(cuts, [fn |-> reg.fn, level |-> verblevel, fresh |-> reg.ok])
Interrupt == UNCHANGED <<q, tester, fail_probability, console>>

sigalrmhandler == /\ pc \in QueuePC \cup {"ret", "cancel"} /\ Len(cuts) < MaxCuts
                  /\ trigger_exception /\ Goto("cancel")
                  /\ reg' \in {reg, [reg EXCEPT !.val = 0]}
                  /\ Cuts /\ UNCHANGED <<segv, sourced>> /\ Interrupt

(* After a fault, before alarm(0), nobody would catch the alarm.           *)
sigalrm_uncaught == /\ At("caught") /\ time_limited /\ ~jmp_ready
                    /\ Goto("exit1") /\ Cuts
                    /\ UNCHANGED <<harness, reg, segv, sourced>> /\ Interrupt

(* exception_setup after the jump of sigsegvhandler.                       *)
sigsegvhandler == /\ At("caught") /\ time_limited' = FALSE /\ Goto("cancel")
                  /\ segv' = TRUE
                  /\ UNCHANGED <<blocks, modes, error_occurred, jmp_ready, reg, cuts, sourced>> /\ Interrupt

(* Mutant: the modes are reset only when the operation came back.          *)
CancelIfReturned(fns) ==
    /\ At("cancel") /\ reg.fn \in fns /\ exception_cancel
    /\ cautious_mode' = (error_occurred => cautious_mode)
    /\ noallocate_mode' = (error_occurred /\ noallocate_mode)
    /\ UNCHANGED <<blocks, error_occurred, fail_limit, fail_probability, history, console>>

(* exception_cancel, the modes, and the verdict of the handler on what the *)
(* operation did; then show_queue, which prints from verbosity 3 on.       *)
Cancel(fns) == /\ At("cancel") /\ reg.fn \in fns /\ exception_cancel
               /\ cautious_mode' = TRUE /\ noallocate_mode' = FALSE
               /\ UNCHANGED <<blocks, error_occurred, fail_limit, fail_probability, history, console>>
Verdict(ok) == /\ reg' = [reg EXCEPT !.ok = ok]
               /\ Goto(IF verblevel < 3 THEN "done" ELSE "show")

allocation_check == allocated_count

CancelNew == /\ Cancel({"new"}) /\ qcnt' = 0 /\ UNCHANGED <<q, fail_count>> /\ Verdict(reg.ok)

CancelFree == /\ Cancel({"free"}) /\ q' = NULL /\ qcnt' = 0 /\ UNCHANGED fail_count
              /\ reg' = [reg EXCEPT !.ok = allocation_check = 0] /\ Goto("done")

(* Mutant: quit does not look at what is still allocated.                  *)
QuitUnchecked == /\ Cancel({"quit"}) /\ UNCHANGED <<q, qcnt, fail_count>>
                 /\ reg' = [reg EXCEPT !.ok = TRUE] /\ Goto("done")

CancelQuit == /\ Cancel({"quit"}) /\ UNCHANGED <<q, qcnt, fail_count>>
              /\ reg' = [reg EXCEPT !.ok = allocation_check = 0] /\ Goto("done")

CancelReverse == Cancel({"reverse"}) /\ UNCHANGED <<q, qcnt, fail_count>> /\ Verdict(TRUE)

CancelInsert == Cancel({"ih", "it"}) /\ UNCHANGED <<q, qcnt, fail_count>> /\ Verdict(reg.ok)

CancelSize == /\ Cancel({"size"}) /\ UNCHANGED <<q, qcnt, fail_count>>
              /\ Verdict(reg.ok /\ qcnt = reg.val)

(* An expected string has to be the one that was removed.                  *)
Checked == reg.s # "none"
Removed(ok) == reg.val = 1 /\ qcnt' = qcnt - 1 /\ UNCHANGED fail_count /\ Verdict(ok)
NotRemoved(ok) == reg.val = 0 /\ fail /\ UNCHANGED qcnt /\ Verdict(ok)
CancelRemove == /\ Cancel({"rh"}) /\ UNCHANGED q
                /\ \/ Removed(Checked => reg.got = [kind |-> "str", s |-> reg.s])
                   \/ NotRemoved(~Checked /\ ~TooMany)
CancelRemoveQuiet == /\ Cancel({"rhq"}) /\ UNCHANGED q
                     /\ Removed(TRUE) \/ NotRemoved(~TooMany)

(* show_queue: at most qcnt elements are printed, and before each next one *)
(* error_check clears a pending error.  The alarm may strike here too, and *)
(* e, which is not volatile, is then any pointer.                          *)
show_queue == /\ At("show") /\ Goto("done")
              /\ \E printed \in {IF q = NULL THEN << >> ELSE ElementsFrom(head)} :
                   \E looped \in {printed # << >> /\ Exceeds(qcnt, 0)} :
                     /\ error_occurred' = (error_occurred /\ ~looped)
                     /\ reg' = [reg EXCEPT !.ok = IF reg.fn # "show" THEN @
                                                  ELSE ~(error_occurred /\ looped) /\ Exceeds(qcnt, Len(printed) - 1)]
              /\ UNCHANGED <<blocks, modes, jmp_ready, time_limited, q, fail_probability,
                             tester, history, console>>

show_cut == /\ At("show") /\ q # NULL /\ Len(cuts) < MaxCuts /\ Goto("done")
            /\ error_occurred' = TRUE
            /\ reg' \in {[reg EXCEPT !.ok = IF reg.fn = "show" THEN b ELSE @] : b \in BOOLEAN}
            /\ cuts' = Append(cuts, [fn |-> "show", level |-> verblevel, fresh |-> reg.ok]) /\ UNCHANGED <<segv, sourced>>
            /\ UNCHANGED <<blocks, modes, jmp_ready, time_limited, q, fail_probability,
                           tester, console>>

(* The return of a handler: error_check, unless the command is one that    *)
(* does not call it, and in interpret_cmda record_error.  A timed command  *)
(* goes through interpret_cmda twice.                                      *)
(* Mutant: the handlers return ok without error_check.                     *)
ResultIgnoresErrors == reg.ok

Checks == {"new", "free", "rh", "rhq", "reverse", "size"}
Result == reg.ok /\ ~(reg.fn \in Checks /\ error_occurred)
Returned == /\ At("done")
            /\ error_occurred' = (error_occurred /\ reg.fn \notin Checks)
            /\ UNCHANGED <<blocks, modes, jmp_ready, time_limited, q, fail_probability,
                           tester, history>>

(* do_free returns to do_new, which clears errors but keeps the result.    *)
FreedForNew == /\ Returned /\ reg.sub = "new" /\ Goto("enter")
               /\ reg' = [NoRegs EXCEPT !.fn = "new", !.timed = reg.timed, !.ok = Result]
               /\ UNCHANGED console

CommandDone == /\ Returned /\ reg.sub = "none" /\ Goto("ready") /\ reg' = NoRegs
               /\ record_error(IF Result THEN 0 ELSE IF reg.timed THEN 2 ELSE 1, reg.fn = "quit")
               /\ free_block(ArgBlocks)
               /\ UNCHANGED <<files, err_limit, verblevel>>

(* The return of finish_cmd to main.                                       *)
Finished == /\ Returned /\ reg.sub = "main" /\ reg' = NoRegs
            /\ quit_flag' = TRUE
            /\ Goto(IF Result /\ err_cnt = 0 THEN "exit0" ELSE "exit1")
            /\ UNCHANGED <<files, err_cnt, err_limit, verblevel, accounted>>
----------------------------------------------------------------------------
QueueOp == QueueStep /\ UNCHANGED <<tester, console, history>>
ReturnOp == (RetInsert \/ RetOther) /\ UNCHANGED <<fail_probability, console, history>>
CancelOp == \/ CancelNew \/ CancelFree \/ CancelQuit \/ CancelInsert \/ CancelSize
            \/ CancelReverse \/ CancelRemove \/ CancelRemoveQuiet

Program == \/ run_console \/ cmd_skip \/ cmd_eof \/ interpret_cmd \/ finish_cmd
           \/ do_new \/ do_free \/ queue_quit
           \/ EnterNew \/ do_insert_head \/ do_insert_tail \/ do_remove \/ do_reverse \/ do_size \/ do_comment_cmd \/ EnterOther
           \/ QueueOp \/ ReturnOp \/ CancelOp \/ sigsegvhandler
           \/ show_queue \/ FreedForNew \/ CommandDone \/ Finished

Ended == pc \in Ends /\ UNCHANGED vars

Next == Program \/ sigalrmhandler \/ sigalrm_uncaught \/ show_cut \/ Ended

(* The program keeps running; the alarm need not strike.                   *)
Spec == Init /\ [][Next]_vars /\ WF_vars(Program)

----------------------------------------------------------------------------
PCs == {"main", "ready", "enter", "ret", "caught", "cancel", "show", "done"} \cup QueuePC \cup Ends

(* The types of the variables.                                             *)
TypeOK == /\ HarnessTypeOK
          /\ q \in Ptr /\ pc \in PCs /\ fail_probability \in BOOLEAN
          /\ DOMAIN reg = DOMAIN NoRegs /\ {reg.new, reg.lp, reg.prv} \subseteq Ptr
          /\ \A i \in DOMAIN files : files[i] \in File
          /\ err_cnt \in Nat /\ quit_flag \in BOOLEAN /\ accounted \in Nat
          /\ qcnt \in Int /\ fail_count \in Nat

(* Between two commands, as long as no operation was cut short, the queue  *)
(* is a list of as many elements as both size and qcnt say, its tail is    *)
(* the last one, and the blocks allocated are exactly the queue, its       *)
(* elements and their strings: in particular an insertion whose second     *)
(* allocation failed has given the first one back.                         *)
Elements == IF q = NULL \/ q \notin Allocated THEN << >> ELSE ElementsFrom(head)
InUse == IF q = NULL \/ q \notin Allocated THEN {}
         ELSE {q} \cup Range(Elements) \cup {heap[e].value : e \in Range(Elements)}
QueueConsistent ==
    /\ TypeOK
    /\ pc = "ready" /\ cuts = << >> =>
        /\ Allocated = InUse /\ allocated_count = Cardinality(InUse)
        /\ InUse # {} => /\ size = Len(Elements) /\ qcnt = Len(Elements)
                         /\ tail = (IF Elements = << >> THEN NULL ELSE Last(Elements))

(* The program and its queue implement the deque of queue.h, step by step: *)
(* an insertion takes effect when the element is linked, a removal when    *)
(* the string is freed, a reversal when head is stored.                    *)
Texts(es) == [i \in DOMAIN es |-> heap[heap[es[i]].value].s]
Contents ==
    IF q = NULL \/ q \notin Allocated THEN << >>
    ELSE CASE pc = "free_value" -> Texts(ElementsFrom(reg.lp))
           [] pc = "free_ele" -> Texts(ElementsFrom(reg.prv))
           [] pc = "remove_head" -> Texts(ElementsFrom(heap[head].next))
           [] pc \in {"reverse", "reverse_head"} ->
                  Reverse(Texts(ElementsFrom(reg.prv))) \o Texts(ElementsFrom(reg.lp))
           [] OTHER -> Texts(ElementsFrom(head))
D == INSTANCE Deque WITH call <- reg.fn, arg <- reg.s, there <- q # NULL /\ cuts = << >>, lost <- cuts # << >>,
                         contents <- IF cuts = << >> THEN Contents ELSE << >>
RefinesDeque == D!DequeSpec

(* Memory that was freed is used only after the time limit has cut short   *)
(* a removal, between the free of the string and the store to head, or an  *)
(* insertion at the tail, whose tail then lags behind and may be removed.  *)
CutFns == {cuts[i].fn : i \in DOMAIN cuts}
UseAfterFreeNeedsCut == pc = "wild" => CutFns \cap {"rh", "rhq", "it"} # {}

(* A time-out in any command but insertions, show and quit is counted as   *)
(* an error, as long as show_queue prints nothing: no error_check on the   *)
(* way eats it.  A command counts once: new may be cut short in its do_free *)
(* and again in q_new, when it has failed already.                         *)
CountedCuts == {i \in DOMAIN cuts : /\ cuts[i].fn \notin {"ih", "it", "show", "quit"}
                                    /\ cuts[i].level < 3 /\ cuts[i].fresh}
CutsAreCounted == pc = "ready" => err_cnt >= Cardinality(CountedCuts)

(* A program that ends with status 0 has given back every block, unless an *)
(* insertion was cut short.                                                *)
ExitZeroMeansFreed == pc = "exit0" => Allocated = {} \/ CutFns \cap {"ih", "it"} # {}

(* Whatever way a command ends, the modes it has set for its operation     *)
(* are reset when the next one is read.                                    *)
ModesRestored == pc = "ready" => cautious_mode /\ ~noallocate_mode /\ ~jmp_ready /\ ~time_limited

(* How a command and the program end, cut short or not.                    *)
CommandsEndClean == CutsAreCounted /\ ExitZeroMeansFreed /\ ModesRestored

(* A time-out finds someone to catch it, unless NULL was dereferenced      *)
(* first; and that takes an earlier time-out in q_insert_tail.             *)
FaultNeedsCutInsert == (pc = "caught" \/ segv) => "it" \in CutFns

(* The only ways to damage: what the time limit can lead to, and nothing   *)
(* without it.                                                             *)
DamageNeedsCut == UseAfterFreeNeedsCut /\ FaultNeedsCutInsert

(* After a normal end by quit no block of the console is left; after an    *)
(* end by errors at most the lists and the files are.                      *)
ConsoleBlocksKept == /\ pc = "exit0" => accounted = 0
                     /\ pc = "ready" => accounted \in {Registered + Len(files), 0}

(* Every run comes to an end.                                              *)
Terminates == <>(pc \in Ends)
=============================================================================
