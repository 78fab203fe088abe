----------------------------- MODULE TinyShell -----------------------------
(***************************************************************************)
(* Job control of the tiny shell, 5_ShellLab/shlab-handout/tsh.c: the      *)
(* read/eval loop, the builtins jobs, bg and fg, the wait for the          *)
(* foreground job, and the handlers of SIGCHLD, SIGINT and SIGTSTP, which  *)
(* interrupt the main loop and one another wherever the signal mask lets   *)
(* them.                                                                   *)
(*                                                                         *)
(* A step of the shell is the code between two points where a handler can  *)
(* run and be noticed.  The kernel and the child processes are external:   *)
(* a standard signal that is already pending is not queued again, a signal *)
(* that is pending and not blocked is handled before the next step of the  *)
(* shell, and sigsuspend changes the mask and sleeps in one step.          *)
(***************************************************************************)
EXTENDS JobTable, Sequences

CONSTANTS MaxForks,    \* bound: processes ever forked, with pids 1, 2, ...
          MaxKeys,     \* bound: ctrl-c, ctrl-z and signals from outside
          Builtins,    \* the builtins the user types: subset of jobs, bg, fg
          ExtSignals   \* signals other programs send to children

ASSUME ShellAssumption == /\ MaxForks \in Nat /\ MaxKeys \in Nat
                          /\ Builtins \subseteq {"jobs", "bg", "fg"}
                          /\ ExtSignals \subseteq {"KILL", "CONT"}

Procs == 1 .. MaxForks

VARIABLES jobs, nextjid,  \* the globals of tsh.c
          pc,             \* where the main loop is
          reg,            \* its locals, see Registers
          mask, pending,  \* signal mask of the shell and its pending signals
          stack,          \* the handlers running, the innermost one last
          proc,           \* proc[p]: what child p is doing
          sigs,           \* sigs[p]: signals pending at child p
          forks, keys,    \* how many children and keys there have been
          rejected        \* history: children addjob had no slot for

shell == <<jobs, nextjid, rejected>>
cpu == <<pc, reg, mask, stack>>
world == <<proc, sigs, forks, keys>>
vars == <<shell, cpu, pending, world>>

Signals == {"CHLD", "INT", "TSTP"}

(* pid: argument of waitfg or kill; slot: a job pointer; st: a state that  *)
(* was read or is to be set; ret: where waitfg returns to; old: the mask   *)
(* sigsuspend restores.                                                    *)
Registers == [pid : 0 .. MaxForks, slot : 0 .. MAXJOBS, st : States,
              ret : {"unblock", "prompt"}, old : SUBSET Signals]

(* A running handler: at is "start" (before waitpid or fgpid), "update"    *)
(* (waitpid returned pid, stopped or gone) or "kill" (fgpid returned pid). *)
Frame == [sig : Signals, at : {"start", "update", "kill"}, pid : 0 .. MaxForks,
          stopped : BOOLEAN, saved : SUBSET Signals]

(* "forked": still in the group of the shell; "pgset": after setpgid, with *)
(* the handlers of the shell until execve; "stopping": stopped, and the    *)
(* shell has not seen it by waitpid; "stopped": it has.                    *)
ProcStates == {"none", "forked", "pgset", "running", "stopping", "stopped",
               "zombie", "reaped"}

MainPC == {"prompt", "fork", "addjob", "kill_child", "waitfg", "suspend",
           "suspended", "woken", "unblock", "list", "list_print", "fg_switch",
           "fg_set", "fg_cont", "fg_kill", "fg_wait", "bg_check", "bg_set", "bg_cont",
           "bg_kill", "quit", "aborted"}

(* The locals are new in each command. *)
NoLocals == [pid |-> 0, slot |-> 0, st |-> "UNDEF", ret |-> "prompt", old |-> {}]

Init == /\ jobs = initjobs /\ nextjid = 1
        /\ pc = "prompt"
        /\ reg = NoLocals
        /\ mask = {} /\ pending = {} /\ stack = << >>
        /\ proc = [p \in Procs |-> "none"] /\ sigs = [p \in Procs |-> {}]
        /\ forks = 0 /\ keys = 0 /\ rejected = {}

Alive == pc \notin {"quit", "aborted"}

(* The shell executes an instruction only when no signal has to be handled *)
(* first; the main loop only when no handler is running.                   *)
Runs == Alive /\ pending \subseteq mask
MainAt(l) == Runs /\ stack = << >> /\ pc = l

----------------------------------------------------------------------------
(* The kernel: kill(2) *)

Live(p) == proc[p] \notin {"none", "zombie", "reaped"}

(* The process group p exists from setpgid until its leader is reaped.     *)
GroupExists(p) == proc[p] \notin {"none", "forked", "reaped"}

(* Signal s is generated for child p.  SIGCONT continues it at once, drops *)
(* a pending stop and tells the parent by SIGCHLD.                         *)
Send(p, s) ==
    IF s = "CONT"
    THEN /\ sigs' = [sigs EXCEPT ![p] = @ \ {"TSTP"}]
         /\ proc' = [proc EXCEPT ![p] = IF @ \in {"stopping", "stopped"}
                                        THEN "running" ELSE @]
         /\ pending' = IF proc'[p] # proc[p] THEN pending \cup {"CHLD"} ELSE pending
    ELSE /\ sigs' = IF Live(p) THEN [sigs EXCEPT ![p] = @ \cup {s}] ELSE sigs
         /\ UNCHANGED <<proc, pending>>

(* kill(0, SIGCONT) is for the shell itself and has no effect. *)
SendOrSelf(p, s) ==
    IF p = 0 THEN UNCHANGED <<sigs, proc, pending>> ELSE Send(p, s)

----------------------------------------------------------------------------
(* main and eval *)

(* The words of a command line do not matter to job control, only whether  *)
(* the last one is & and whether the command is a builtin.                 *)
parseline == {"FG", "BG"}

(* Mutant: SIGCHLD is not blocked around fork and addjob. *)
EvalNoBlock == /\ MainAt("prompt") /\ forks < MaxForks
               /\ pc' = "fork"
               /\ \E st \in parseline :
                    reg' = [NoLocals EXCEPT !.st = st, !.ret = "unblock"]
               /\ UNCHANGED <<shell, mask, stack, pending, world>>

(* A command that is not a builtin: block SIGCHLD and go on to fork.       *)
EvalCommand == /\ MainAt("prompt") /\ forks < MaxForks
               /\ mask' = mask \cup {"CHLD"}
               /\ pc' = "fork"
               /\ \E st \in parseline :
                    reg' = [NoLocals EXCEPT !.st = st, !.ret = "unblock"]
               /\ UNCHANGED <<shell, stack, pending, world>>

Fork == /\ MainAt("fork")
        /\ forks' = forks + 1
        /\ proc' = [proc EXCEPT ![forks'] = "forked"]
        /\ reg' = [reg EXCEPT !.pid = forks']
        /\ pc' = "addjob"
        /\ UNCHANGED <<shell, mask, stack, pending, sigs, keys>>

(* unix_error("fork error") *)
ForkFails == /\ MainAt("fork")
             /\ pc' = "aborted"
             /\ UNCHANGED <<shell, reg, mask, stack, pending, world>>

(* waitfg for a foreground job, printjobpid for a background one.          *)
(* Mutant: the shell does not wait for a foreground job. *)
AfterAddNoWait == "unblock"

AfterAdd == IF reg.st = "FG" THEN "waitfg" ELSE "unblock"

AddJob == /\ MainAt("addjob")
          /\ LET s == FreeSlot(jobs)
             IN  IF s # 0
                 THEN /\ jobs' = addjob(jobs, s, reg.pid, nextjid, reg.st)
                      /\ nextjid' = NextJid(nextjid)
                      /\ pc' = AfterAdd
                      /\ UNCHANGED rejected
                 ELSE /\ pc' = "kill_child"
                      /\ rejected' = rejected \cup {reg.pid}
                      /\ UNCHANGED <<jobs, nextjid>>
          /\ UNCHANGED <<reg, mask, stack, pending, world>>

KillChild == /\ MainAt("kill_child")
             /\ Send(reg.pid, "KILL")
             /\ pc' = AfterAdd
             /\ UNCHANGED <<shell, reg, mask, stack, forks, keys>>

Unblock == /\ MainAt("unblock")
           /\ mask' = mask \ {"CHLD"}
           /\ pc' = "prompt" /\ reg' = NoLocals
           /\ UNCHANGED <<shell, stack, pending, world>>

(* The quit command; the jobs are left alone.                              *)
Quit == /\ MainAt("prompt")
        /\ pc' = "quit"
        /\ UNCHANGED <<shell, reg, mask, stack, pending, world>>

(* End of file on the standard input ends the loop of main like quit.      *)
EndOfInput == /\ MainAt("prompt")
              /\ pc' = "quit"
              /\ UNCHANGED <<shell, reg, mask, stack, pending, world>>

----------------------------------------------------------------------------
(* waitfg *)

Waitfg == /\ MainAt("waitfg")
          /\ LET s == getjobpid(jobs, reg.pid)
             IN  IF s # 0 /\ jobs[s].state = "FG"
                 THEN pc' = "suspend" /\ reg' = [reg EXCEPT !.slot = s]
                 ELSE pc' = reg.ret /\ UNCHANGED reg
          /\ UNCHANGED <<shell, mask, stack, pending, world>>

(* Mutant: SIGCHLD stays blocked during the wait. *)
SigsuspendBlocked == /\ MainAt("suspend")
                     /\ reg' = [reg EXCEPT !.old = mask]
                     /\ pc' = "suspended"
                     /\ UNCHANGED <<shell, mask, stack, pending, world>>

Sigsuspend == /\ MainAt("suspend")
              /\ mask' = {}
              /\ reg' = [reg EXCEPT !.old = mask]
              /\ pc' = "suspended"
              /\ UNCHANGED <<shell, stack, pending, world>>

(* Mutant: waitfg returns after the first signal of any kind. *)
WokenOnce == /\ MainAt("woken")
             /\ pc' = reg.ret
             /\ UNCHANGED <<shell, reg, mask, stack, pending, world>>

(* sigsuspend has returned: read the state through the job pointer again.  *)
Woken == /\ MainAt("woken")
         /\ pc' = IF jobs[reg.slot].state = "FG" THEN "suspend" ELSE reg.ret
         /\ UNCHANGED <<shell, reg, mask, stack, pending, world>>

----------------------------------------------------------------------------
(* The builtin jobs: listbgjobs tests a slot, then prints it.              *)

Listing(s) == IF s > MAXJOBS
              THEN pc' = "prompt" /\ reg' = NoLocals
              ELSE pc' = "list" /\ reg' = [NoLocals EXCEPT !.slot = s]

JobsCommand == /\ MainAt("prompt") /\ "jobs" \in Builtins
               /\ Listing(1)
               /\ UNCHANGED <<shell, mask, stack, pending, world>>

ListTest == /\ MainAt("list")
            /\ IF Listed(jobs, reg.slot)
               THEN pc' = "list_print" /\ UNCHANGED reg
               ELSE Listing(reg.slot + 1)
            /\ UNCHANGED <<shell, mask, stack, pending, world>>

ListPrint == /\ MainAt("list_print")
             /\ Listing(reg.slot + 1)
             /\ UNCHANGED <<shell, mask, stack, pending, world>>

----------------------------------------------------------------------------
(* The builtins fg and bg: do_bgfg and bg2fg.  SIGCHLD is not blocked.     *)

(* The job of a pid or of a %jid; without one the command has no effect.   *)
Found == ({getjobpid(jobs, p) : p \in Procs} \cup {getjobjid(jobs, j) : j \in Procs}) \ {0}

FgCommand == /\ MainAt("prompt") /\ "fg" \in Builtins
             /\ \E s \in Found : reg' = [NoLocals EXCEPT !.slot = s]
             /\ pc' = "fg_switch"
             /\ UNCHANGED <<shell, mask, stack, pending, world>>

(* switch(bgjob->state); a job that is FG already is an error.             *)
FgSwitch == /\ MainAt("fg_switch")
            /\ LET st == jobs[reg.slot].state
               IN  /\ reg' = [reg EXCEPT !.st = st]
                   /\ pc' = CASE st = "FG" -> "prompt"
                              [] st = "UNDEF" -> "fg_wait"
                              [] OTHER -> "fg_set"
            /\ UNCHANGED <<shell, mask, stack, pending, world>>

(* Mutant: a job in the background is continued as well. *)
FgSetContinuesAll == /\ MainAt("fg_set")
                     /\ jobs' = setstate(jobs, reg.slot, "FG")
                     /\ pc' = "fg_cont"
                     /\ UNCHANGED <<nextjid, rejected, reg, mask, stack, pending, world>>

(* The write goes to the slot, even if its job has been deleted since.     *)
FgSet == /\ MainAt("fg_set")
         /\ jobs' = setstate(jobs, reg.slot, "FG")
         /\ pc' = IF reg.st = "ST" THEN "fg_cont" ELSE "fg_wait"
         /\ UNCHANGED <<nextjid, rejected, reg, mask, stack, pending, world>>

(* An argument is read from the slot before the call: the pid of the job,  *)
(* or 0 once it has been deleted.                                          *)
LoadPid(l) == /\ reg' = [reg EXCEPT !.pid = jobs[reg.slot].pid]
              /\ pc' = l
              /\ UNCHANGED <<shell, mask, stack, pending, world>>

FgCont == MainAt("fg_cont") /\ LoadPid("fg_kill")

(* Kill(-pid, SIGCONT).  The handler may have reaped the process since its *)
(* pid was read: then kill fails, and unix_error ends the shell.           *)
FgKill == /\ MainAt("fg_kill")
          /\ IF reg.pid = 0 \/ GroupExists(reg.pid)
             THEN SendOrSelf(reg.pid, "CONT") /\ pc' = "fg_wait"
             ELSE pc' = "aborted" /\ UNCHANGED <<sigs, proc, pending>>
          /\ UNCHANGED <<shell, reg, mask, stack, forks, keys>>

(* waitfg(bgjob->pid) *)
FgWait == MainAt("fg_wait") /\ LoadPid("waitfg")

BgCommand == /\ MainAt("prompt") /\ "bg" \in Builtins
             /\ \E s \in Found : reg' = [NoLocals EXCEPT !.slot = s]
             /\ pc' = "bg_check"
             /\ UNCHANGED <<shell, mask, stack, pending, world>>

BgCheck == /\ MainAt("bg_check")
           /\ pc' = IF jobs[reg.slot].state = "ST" THEN "bg_set" ELSE "prompt"
           /\ UNCHANGED <<shell, reg, mask, stack, pending, world>>

BgSet == /\ MainAt("bg_set")
         /\ jobs' = setstate(jobs, reg.slot, "BG")
         /\ pc' = "bg_cont"
         /\ UNCHANGED <<nextjid, rejected, reg, mask, stack, pending, world>>

BgCont == MainAt("bg_cont") /\ LoadPid("bg_kill")

(* Kill(pid, SIGCONT), with the same gap. *)
BgKill == /\ MainAt("bg_kill")
          /\ IF reg.pid = 0 \/ proc[reg.pid] # "reaped"
             THEN SendOrSelf(reg.pid, "CONT") /\ pc' = "prompt" /\ reg' = NoLocals
             ELSE pc' = "aborted" /\ UNCHANGED <<sigs, proc, pending, reg>>
          /\ UNCHANGED <<shell, mask, stack, forks, keys>>

Main == \/ EvalCommand \/ Fork \/ ForkFails \/ AddJob \/ KillChild \/ Unblock
        \/ Quit \/ EndOfInput
        \/ Waitfg \/ Sigsuspend \/ Woken \/ JobsCommand \/ ListTest \/ ListPrint
        \/ FgCommand \/ FgSwitch \/ FgSet \/ FgCont \/ FgKill \/ FgWait
        \/ BgCommand \/ BgCheck \/ BgSet \/ BgCont \/ BgKill

----------------------------------------------------------------------------
(* The signal handlers *)

Top == stack[Len(stack)]
Below == SubSeq(stack, 1, Len(stack) - 1)
HandlerAt(S, l) == Runs /\ stack # << >> /\ Top.sig \in S /\ Top.at = l

(* The kernel calls the handler of a pending signal with that signal       *)
(* blocked; this ends a sigsuspend, whose mask is undone on return.        *)
Deliver(s) == /\ Alive /\ s \in pending \ mask
              /\ pending' = pending \ {s}
              /\ LET sleeping == pc = "suspended" /\ stack = << >>
                 IN  /\ stack' = Append(stack, [sig |-> s, at |-> "start", pid |-> 0,
                                                stopped |-> FALSE,
                                                saved |-> IF sleeping THEN reg.old ELSE mask])
                     /\ pc' = IF sleeping THEN "woken" ELSE pc
              /\ mask' = mask \cup {s}
              /\ UNCHANGED <<shell, reg, world>>

Return == stack' = Below /\ mask' = Top.saved
Continue(f) == stack' = Append(Below, f) /\ UNCHANGED mask

(* waitpid(-1, WNOHANG | WUNTRACED) reports any zombie, which is then      *)
(* gone, or any child that stopped and was not reported.                   *)
Reportable == {p \in Procs : proc[p] \in {"zombie", "stopping"}}

ChldWaitpid ==
    /\ HandlerAt({"CHLD"}, "start")
    /\ \E p \in Reportable :
         /\ proc' = [proc EXCEPT ![p] = IF @ = "zombie" THEN "reaped" ELSE "stopped"]
         /\ Continue([Top EXCEPT !.at = "update", !.pid = p, !.stopped = proc[p] = "stopping"])
    /\ UNCHANGED <<shell, pc, reg, pending, sigs, forks, keys>>

ChldReturn == /\ HandlerAt({"CHLD"}, "start") /\ Reportable = {}
              /\ Return
              /\ UNCHANGED <<shell, pc, reg, pending, world>>

(* Mutant: a stopped job is reported but not marked. *)
UpdateForgetsStop ==
    /\ HandlerAt({"CHLD"}, "update")
    /\ LET s == getjobpid(jobs, Top.pid)
       IN  IF s = 0
           THEN Return /\ UNCHANGED <<jobs, nextjid>>
           ELSE /\ Continue([Top EXCEPT !.at = "start"])
                /\ IF Top.stopped
                   THEN UNCHANGED <<jobs, nextjid>>
                   ELSE jobs' = clearjob(jobs, s) /\ nextjid' = maxjid(jobs') + 1
    /\ UNCHANGED <<rejected, pc, reg, pending, world>>

(* Mutant: if instead of while, one child per SIGCHLD. *)
UpdateOneChild ==
    /\ HandlerAt({"CHLD"}, "update")
    /\ LET s == getjobpid(jobs, Top.pid)
       IN  IF s = 0 THEN UNCHANGED <<jobs, nextjid>>
           ELSE IF Top.stopped
           THEN jobs' = setstate(jobs, s, "ST") /\ UNCHANGED nextjid
           ELSE jobs' = clearjob(jobs, s) /\ nextjid' = maxjid(jobs') + 1
    /\ Return
    /\ UNCHANGED <<rejected, pc, reg, pending, world>>

(* The body of the loop, with all signals blocked.  A child that is not in *)
(* the job list ends the loop.                                             *)
ChldUpdate ==
    /\ HandlerAt({"CHLD"}, "update")
    /\ LET s == getjobpid(jobs, Top.pid)
       IN  IF s = 0
           THEN Return /\ UNCHANGED <<jobs, nextjid>>
           ELSE /\ Continue([Top EXCEPT !.at = "start"])
                /\ IF Top.stopped
                   THEN jobs' = setstate(jobs, s, "ST") /\ UNCHANGED nextjid
                   ELSE jobs' = clearjob(jobs, s) /\ nextjid' = maxjid(jobs') + 1
    /\ UNCHANGED <<rejected, pc, reg, pending, world>>

(* sigint_handler and sigtstp_handler: fgpid, then Kill(-pid, sig).        *)
KeyFgpid == /\ HandlerAt({"INT", "TSTP"}, "start")
            /\ IF fgpid(jobs) = 0
               THEN Return
               ELSE Continue([Top EXCEPT !.at = "kill", !.pid = fgpid(jobs)])
            /\ UNCHANGED <<shell, pc, reg, pending, world>>

KeyKill == /\ HandlerAt({"INT", "TSTP"}, "kill")
           /\ IF GroupExists(Top.pid)
              THEN Send(Top.pid, Top.sig) /\ Return /\ UNCHANGED pc
              ELSE pc' = "aborted" /\ UNCHANGED <<stack, mask, sigs, proc, pending>>
           /\ UNCHANGED <<shell, reg, forks, keys>>

Handler == ChldWaitpid \/ ChldReturn \/ ChldUpdate \/ KeyFgpid \/ KeyKill

----------------------------------------------------------------------------
(* The children and the user *)

(* Child p changes to state l and the kernel tells the shell by SIGCHLD.   *)
Becomes(p, l) == /\ proc' = [proc EXCEPT ![p] = l]
                 /\ pending' = pending \cup {"CHLD"}

ChildSetpgid(p) == /\ proc[p] = "forked"
                   /\ proc' = [proc EXCEPT ![p] = "pgset"]
                   /\ UNCHANGED <<shell, cpu, pending, sigs, forks, keys>>

(* execve, or "Command not found" and exit(0). *)
ChildExec(p) == /\ proc[p] = "pgset"
                /\ \/ proc' = [proc EXCEPT ![p] = "running"] /\ UNCHANGED pending
                   \/ Becomes(p, "zombie")
                /\ UNCHANGED <<shell, cpu, sigs, forks, keys>>

(* The program of the child exits, or stops itself. *)
ChildChange(p) == /\ proc[p] = "running"
                  /\ Becomes(p, "zombie") \/ Becomes(p, "stopping")
                  /\ UNCHANGED <<shell, cpu, sigs, forks, keys>>

(* A pending signal takes effect.  Before execve a child has the handlers  *)
(* of the shell, and its copy of the job list has no foreground job: it    *)
(* does nothing on SIGINT and SIGTSTP.                                     *)
ChildSignal(p) ==
    \E s \in sigs[p] :
      /\ \/ s = "KILL" /\ Live(p) /\ Becomes(p, "zombie")
         \/ s \in {"INT", "TSTP"} /\ proc[p] \in {"forked", "pgset"} /\ UNCHANGED <<proc, pending>>
         \/ s = "INT" /\ proc[p] = "running" /\ Becomes(p, "zombie")
         \/ s = "TSTP" /\ proc[p] = "running" /\ Becomes(p, "stopping")
      /\ sigs' = [sigs EXCEPT ![p] = @ \ {s}]
      /\ UNCHANGED <<shell, cpu, forks, keys>>

(* ctrl-c or ctrl-z at the keyboard; a child still in the group of the     *)
(* shell also receives it, and does nothing (see ChildSignal).             *)
Keyboard(s) == /\ Alive /\ keys < MaxKeys
               /\ keys' = keys + 1
               /\ pending' = pending \cup {s}
               /\ UNCHANGED <<shell, cpu, proc, sigs, forks>>

(* Another program, for example /bin/kill, signals a child. *)
External(p, s) == /\ Alive /\ keys < MaxKeys /\ proc[p] \in {"running", "stopping", "stopped"}
                  /\ keys' = keys + 1
                  /\ Send(p, s)
                  /\ UNCHANGED <<shell, cpu, forks>>

Next == \/ Main \/ Handler
        \/ \E s \in Signals : Deliver(s)
        \/ \E s \in {"INT", "TSTP"} : Keyboard(s)
        \/ \E p \in Procs : \/ ChildSetpgid(p) \/ ChildExec(p) \/ ChildChange(p) \/ ChildSignal(p)
                            \/ \E s \in ExtSignals : External(p, s)

(* The shell is scheduled and its signals are delivered; a child gets to   *)
(* execve and its signals take effect.  Nothing is assumed of the user, of *)
(* other programs, or of the program a child executes.                     *)
Fairness == /\ WF_vars(Main /\ pc # "prompt") /\ WF_vars(Handler)
            /\ \A s \in Signals : WF_vars(Deliver(s))
            /\ \A p \in Procs : WF_vars(ChildSetpgid(p) \/ ChildExec(p)) /\ WF_vars(ChildSignal(p))

Spec == Init /\ [][Next]_vars /\ Fairness

----------------------------------------------------------------------------
(* Properties *)

TypeOK == /\ jobs \in [Slots -> [pid : 0 .. MaxForks, jid : 0 .. MaxForks, state : States]]
          /\ nextjid \in 1 .. MaxForks + 1
          /\ pc \in MainPC /\ reg \in Registers
          /\ mask \subseteq Signals /\ pending \subseteq Signals
          /\ Len(stack) <= 3 /\ \A i \in 1 .. Len(stack) : stack[i] \in Frame
          /\ proc \in [Procs -> ProcStates]
          /\ sigs \in [Procs -> SUBSET {"INT", "TSTP", "KILL"}]
          /\ forks \in 0 .. MaxForks /\ keys \in 0 .. MaxKeys /\ rejected \subseteq Procs

(* The children the job list has to know: forked and handed to addjob, not *)
(* rejected, and not yet reaped, or reaped by a handler that is about to   *)
(* delete the job.                                                         *)
BeingReaped == {stack[i].pid : i \in {k \in 1 .. Len(stack) : stack[k].at = "update"
                                                              /\ ~stack[k].stopped}}
Known == {p \in 1 .. forks : /\ p \notin rejected
                             /\ pc = "addjob" => p # reg.pid
                             /\ proc[p] = "reaped" => p \in BeingReaped}

(* In every interleaving the job list and the children of the shell agree: *)
(* each known child has exactly one slot, and no slot outlives its child.  *)
(* A SIGCHLD handled between fork and addjob would break this, and so      *)
(* would one missed or handled twice.                                      *)
JobListTracksChildren ==
    /\ \A p \in Known : Cardinality({s \in Slots : jobs[s].pid = p}) = 1
    /\ \A s \in Slots : jobs[s].pid # 0 => jobs[s].pid \in Known

(* What holds in every state of the shell, whatever is typed.              *)
ShellConsistent == TypeOK /\ JobListTracksChildren

(* Which kills of the main loop fail and end the shell: never the one for  *)
(* a child without a slot (tsh.c:215), and those of bg and fg (tsh.c:348,  *)
(* 358, 595) only for a process that the handler reaped, and whose slot it *)
(* cleared, after the pid had been read, never because the child has not   *)
(* come to setpgid yet.                                                    *)
ReapedSinceRead == /\ reg.pid # 0 /\ proc[reg.pid] = "reaped"
                   /\ jobs[reg.slot].pid = 0
KillsMissOnlyReaped ==
    [][pc' = "aborted" /\ pc # "aborted" =>
         \/ pc = "fork" \/ stack # << >>
         \/ pc \in {"fg_kill", "bg_kill"} /\ ReapedSinceRead]_vars

(* "At most 1 job can be in the FG state." (tsh.c:35) *)
AtMostOneFG == Cardinality({s \in Slots : jobs[s].state = "FG"}) <= 1

(* The prompt is only given when no job is in the foreground, so ctrl-c at *)
(* the prompt hits nobody.                                                 *)
NoForegroundAtPrompt == pc = "prompt" => fgpid(jobs) = 0

(* fgpid: "Return PID of current foreground job, 0 if no such job"         *)
(* (tsh.c:686).  That does not hold: fg may have set a slot to FG that the *)
(* handler has cleared, and fgpid finds this slot first (tsh.c:598).       *)
FgpidFindsForeground ==
    fgpid(jobs) = 0 => \A s \in Slots : jobs[s].pid # 0 => jobs[s].state # "FG"

(* The discipline of the foreground: never two jobs, and none at the prompt. *)
ForegroundDiscipline == AtMostOneFG /\ NoForegroundAtPrompt

(* A job whose process the shell has seen stop is listed as stopped, from  *)
(* the end of the handler until bg or fg is about to continue it: the      *)
(* shell marks the job before it sends SIGCONT, so a process that stops    *)
(* again at once is not overlooked (tsh.c:347, 357, 594).                  *)
StoppedJobIsST ==
    \A s \in Slots :
       \/ jobs[s].pid = 0 \/ proc[jobs[s].pid] # "stopped"
       \/ jobs[s].state = "ST"
       \/ pc \in {"bg_cont", "bg_kill", "fg_cont", "fg_kill"} /\ reg.slot = s
       \/ \E i \in 1 .. Len(stack) : stack[i].at = "update" /\ stack[i].pid = jobs[s].pid

(* waitfg: "Block until process pid is no longer the foreground process"   *)
(* (tsh.c:366).  Once the process is dead, or seen stopped, the shell      *)
(* comes back.                                                             *)
Waiting == pc \in {"waitfg", "suspend", "suspended", "woken"}
WaitfgReturns ==
    \A p \in Procs : Waiting /\ reg.pid = p /\ proc[p] \in {"zombie", "stopped", "reaped"}
                       ~> ~(Waiting /\ reg.pid = p)

(* sigchld_handler: "The handler reaps all available zombie children"      *)
(* (tsh.c:400-401).                                                        *)
ZombiesAreReaped == \A p \in Procs : proc[p] = "zombie" ~> proc[p] # "zombie" \/ ~Alive
============================================================================
