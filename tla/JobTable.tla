----------------------------- MODULE JobTable ------------------------------
(***************************************************************************)
(* The job list of 5_ShellLab/shlab-handout/tsh.c: an array of MAXJOBS     *)
(* slots, searched from the first slot up.  A slot with pid 0 is free.     *)
(* The routines are functions of the array; the C pointer to a slot is its *)
(* index, and NULL is 0.                                                   *)
(***************************************************************************)
EXTENDS Integers, FiniteSets, FiniteSetsExt

CONSTANT MAXJOBS

ASSUME MAXJOBSAssumption == MAXJOBS \in Nat \ {0}

Slots == 1 .. MAXJOBS
States == {"UNDEF", "FG", "BG", "ST"}

ClearJob == [pid |-> 0, jid |-> 0, state |-> "UNDEF"]

initjobs == [s \in Slots |-> ClearJob]

(* Mutant: only the pid is cleared. *)
ClearPidOnly(jobs, s) == [jobs EXCEPT ![s].pid = 0]

clearjob(jobs, s) == [jobs EXCEPT ![s] = ClearJob]

setstate(jobs, s, st) == [jobs EXCEPT ![s].state = st]

maxjid(jobs) == Max({0} \cup {jobs[s].jid : s \in Slots})

(* The first slot of a set of slots, NULL if there is none. *)
First(S) == IF S = {} THEN 0 ELSE Min(S)

FreeSlot(jobs) == First({s \in Slots : jobs[s].pid = 0})

(* Mutant: the loop does not stop at the first free slot. *)
AddToEveryFreeSlot(jobs, s, pid, jid, st) ==
    [t \in Slots |-> IF jobs[t].pid = 0 THEN [pid |-> pid, jid |-> jid, state |-> st]
                     ELSE jobs[t]]

addjob(jobs, s, pid, jid, st) ==
    [jobs EXCEPT ![s] = [pid |-> pid, jid |-> jid, state |-> st]]

(* nextjid++, back to 1 past MAXJOBS. *)
NextJid(jid) == IF jid + 1 > MAXJOBS THEN 1 ELSE jid + 1

getjobpid(jobs, pid) ==
    IF pid < 1 THEN 0 ELSE First({s \in Slots : jobs[s].pid = pid})

getjobjid(jobs, jid) ==
    IF jid < 1 THEN 0 ELSE First({s \in Slots : jobs[s].jid = jid})

pid2jid(jobs, pid) ==
    LET s == getjobpid(jobs, pid) IN IF s = 0 THEN 0 ELSE jobs[s].jid

fgpid(jobs) == LET s == First({t \in Slots : jobs[t].state = "FG"})
               IN  IF s = 0 THEN 0 ELSE jobs[s].pid

(* listbgjobs prints these slots, and an "Internal error" for one of them  *)
(* whose state is not BG or ST by the time it is printed.                  *)
Listed(jobs, s) == jobs[s].pid # 0 /\ jobs[s].state # "FG"
============================================================================
