------------------------------ MODULE JobList ------------------------------
(***************************************************************************)
(* The job list of tsh.c as the calls on it leave it: addjob for a new     *)
(* process, the SIGCHLD handler, which marks a job as stopped or does what *)
(* deletejob does, and the commands bg and fg.  The handler blocks all     *)
(* signals around its work on the list, and eval blocks SIGCHLD around     *)
(* addjob; do_bgfg and bg2fg block nothing: they look up a pointer to the  *)
(* job, test its state and set it, and the handler may run in between.     *)
(***************************************************************************)
EXTENDS JobTable

CONSTANT MaxPid   \* bound: the number of processes the kernel ever creates

ASSUME MaxPidAssumption == MaxPid \in Nat

VARIABLES jobs, nextjid,
          lastpid,   \* the kernel hands out process ids 1, 2, ...
          bgfg       \* the command bg or fg that is being executed: the job
                     \* pointer, the pid it was found for (history), the state
                     \* to set, and whether the old state has been tested

vars == <<jobs, nextjid, lastpid, bgfg>>

NoCommand == [job |-> 0, pid |-> 0, goal |-> "UNDEF", tested |-> FALSE]

Init == jobs = initjobs /\ nextjid = 1 /\ lastpid = 0 /\ bgfg = NoCommand

(* The main loop executes one command at a time.                           *)
AddJob(st) == /\ bgfg = NoCommand /\ lastpid < MaxPid
              /\ lastpid' = lastpid + 1
              /\ FreeSlot(jobs) # 0
              /\ jobs' = addjob(jobs, FreeSlot(jobs), lastpid', nextjid, st)
              /\ nextjid' = NextJid(nextjid)
              /\ UNCHANGED bgfg

(* "Tried to create too many jobs" *)
AddJobFails == /\ bgfg = NoCommand /\ lastpid < MaxPid
               /\ lastpid' = lastpid + 1
               /\ FreeSlot(jobs) = 0
               /\ UNCHANGED <<jobs, nextjid, bgfg>>

(* Mutant: nextjid = maxjid(jobs). *)
DeleteJobReusesId(pid) == /\ getjobpid(jobs, pid) # 0
                          /\ jobs' = clearjob(jobs, getjobpid(jobs, pid))
                          /\ nextjid' = IF maxjid(jobs') = 0 THEN 1 ELSE maxjid(jobs')
                          /\ UNCHANGED <<lastpid, bgfg>>

DeleteJob(pid) == /\ getjobpid(jobs, pid) # 0
                  /\ jobs' = clearjob(jobs, getjobpid(jobs, pid))
                  /\ nextjid' = maxjid(jobs') + 1
                  /\ UNCHANGED <<lastpid, bgfg>>

(* The handler: job->state = ST.                                           *)
StopJob(pid) == /\ getjobpid(jobs, pid) # 0
                /\ jobs' = setstate(jobs, getjobpid(jobs, pid), "ST")
                /\ UNCHANGED <<nextjid, lastpid, bgfg>>

(* bg and fg: the pointer to the job of a pid or of a %jid.                *)
FindJob(id, goal) ==
    /\ bgfg = NoCommand
    /\ \E s \in {getjobpid(jobs, id), getjobjid(jobs, id)} \ {0} :
         bgfg' = [job |-> s, pid |-> jobs[s].pid, goal |-> goal, tested |-> FALSE]
    /\ UNCHANGED <<jobs, nextjid, lastpid>>

(* fg sets the state of a job that is stopped or in the background, bg     *)
(* that of a stopped one; otherwise the command has no effect on the list. *)
TestState == /\ bgfg.job # 0 /\ ~bgfg.tested
             /\ bgfg' = IF jobs[bgfg.job].state \in {"ST"} \cup (IF bgfg.goal = "FG" THEN {"BG"} ELSE {})
                        THEN [bgfg EXCEPT !.tested = TRUE] ELSE NoCommand
             /\ UNCHANGED <<jobs, nextjid, lastpid>>

(* job->state = BG, bgjob->state = FG: of the job, or of the free slot     *)
(* that the handler has made of it since.                                  *)
SetState == /\ bgfg.tested
            /\ jobs' = setstate(jobs, bgfg.job, bgfg.goal)
            /\ bgfg' = NoCommand
            /\ UNCHANGED <<nextjid, lastpid>>

Next == \/ \E st \in {"FG", "BG"} : AddJob(st)
        \/ AddJobFails
        \/ \E pid \in 1 .. lastpid : DeleteJob(pid) \/ StopJob(pid)
        \/ \E id \in 1 .. lastpid, goal \in {"FG", "BG"} : FindJob(id, goal)
        \/ TestState \/ SetState

Spec == Init /\ [][Next]_vars

----------------------------------------------------------------------------
(* Properties *)

JobType == [pid : Nat, jid : Nat, state : States]

TypeOK == /\ jobs \in [Slots -> JobType]
          /\ nextjid \in Nat /\ lastpid \in Nat
          /\ bgfg \in [job : {0} \cup Slots, pid : Nat, goal : States, tested : BOOLEAN]

(* The searches by pid and by jid (tsh.c:651, 702, 716) agree on which     *)
(* slots hold a job, and a job has a state.  A free slot may keep the      *)
(* state that bg or fg has set through its pointer after the handler has   *)
(* cleared the job (tsh.c:347, 357, 594, 598): it looks like a foreground  *)
(* job to fgpid, which searches by state, but never like a stopped one.    *)
SlotHolds(s) == jobs[s].pid \in 1 .. lastpid /\ jobs[s].jid > 0 /\ jobs[s].state # "UNDEF"
SlotFree(s) == jobs[s].pid = 0 /\ jobs[s].jid = 0 /\ jobs[s].state # "ST"

(* While a command holds a job pointer, its slot holds that job or none:   *)
(* what is set late is never the state of another job.                     *)
PointerIsOwn == bgfg.job # 0 => jobs[bgfg.job].pid \in {0, bgfg.pid}

SlotsCoherent == (\A s \in Slots : SlotHolds(s) \/ SlotFree(s)) /\ PointerIsOwn

(* No process has two slots, so getjobpid and deletejob act on the only    *)
(* slot of a process and leave nothing of it behind.                       *)
PidsUnique == \A s, t \in Slots : jobs[s].pid = jobs[t].pid /\ jobs[s].pid # 0 => s = t

(* Going from a job to its id (pid2jid, "Map process ID to job ID") and    *)
(* from the id to a job (getjobjid, "Find a job (by JID) on the job list") *)
(* leads back to the same job: fg %jid and bg %jid act on the job that was *)
(* printed with that id (tsh.c:655, 709).                                  *)
JidFindsJob == \A s \in Slots :
    jobs[s].pid # 0 => getjobjid(jobs, pid2jid(jobs, jobs[s].pid)) = s

(* The guarantee above holds for as long as the shell has started no more  *)
(* than MAXJOBS jobs, whatever the order they end in: only the wrap of     *)
(* nextjid (tsh.c:655) gives an id away twice, never the renumbering after *)
(* a deletion (tsh.c:436, 679).                                            *)
JidFindsJobBeforeWrap == lastpid <= MAXJOBS => JidFindsJob
============================================================================
