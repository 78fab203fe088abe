--------------------------- MODULE JobListProofs ---------------------------
(***************************************************************************)
(* Proofs about the job list of tsh.c, for every MAXJOBS and any number of *)
(* processes.                                                              *)
(***************************************************************************)
EXTENDS JobList, WellFoundedInduction, TLAPS

----------------------------------------------------------------------------
(* What the searches of the job list of tsh.c return. *)

LEMMA LeastNatural ==
    ASSUME NEW S \in SUBSET Nat, S # {}
    PROVE  \E x \in S : \A y \in S : x <= y
<1>1. \E x \in S : \A y \in S : ~ (<<y, x>> \in OpToRel(<, Nat))
  BY NatLessThanWellFounded, WFMin
<1>2. \A x, y \in Nat : y < x => <<y, x>> \in OpToRel(<, Nat)
  <2> TAKE x, y \in Nat
  <2> HAVE y < x
  <2>1. <<y, x>> \in Nat \X Nat /\ <<y, x>>[1] < <<y, x>>[2]
    OBVIOUS
  <2> QED BY <2>1 DEF OpToRel
<1>3. PICK x \in S : \A y \in S : ~ (<<y, x>> \in OpToRel(<, Nat))
  BY <1>1
<1>4. \A y \in S : ~ (y < x)
  BY <1>2, <1>3
<1> QED BY <1>4

LEMMA FirstIsIn ==
    ASSUME NEW S \in SUBSET Slots
    PROVE  /\ S # {} => First(S) \in S
           /\ S = {} => First(S) = 0
           /\ First(S) # 0 => First(S) \in S
           /\ \A s : S = {s} => First(S) = s
<1>1. S # {} => Min(S) \in S
  <2> SUFFICES ASSUME S # {} PROVE Min(S) \in S
    OBVIOUS
  <2>1. S \in SUBSET Nat
    BY MAXJOBSAssumption DEF Slots
  <2>2. \E x \in S : \A y \in S : x <= y
    BY <2>1, LeastNatural
  <2> QED BY <2>2 DEF Min
<1> QED BY <1>1 DEF First

LEMMA MaxJidBounds ==
    ASSUME NEW tab, NEW b \in Nat, \A s \in Slots : tab[s].jid \in 0 .. b
    PROVE  /\ maxjid(tab) \in 0 .. b
           /\ \A s \in Slots : tab[s].jid <= maxjid(tab)
<1> DEFINE J == {0} \cup {tab[s].jid : s \in Slots}
           U == {u \in Nat : \A j \in J : j <= u}
<1>1. J \in SUBSET Nat /\ \A j \in J : j <= b
  OBVIOUS
<1>2. PICK m \in U : \A u \in U : m <= u
  <2>1. U \in SUBSET Nat /\ b \in U
    BY <1>1
  <2> QED BY <2>1, LeastNatural
<1>3. m \in J
  <2> SUFFICES ASSUME m \notin J PROVE FALSE
    OBVIOUS
  <2>1. m - 1 \in Nat /\ \A j \in J : j <= m - 1
    BY <1>1, <1>2
  <2>2. m - 1 \in U
    BY <2>1
  <2> QED BY <1>2, <2>2
<1>4. Max(J) \in J /\ \A j \in J : j <= Max(J)
  <2>1. \E x \in J : \A y \in J : x >= y
    BY <1>1, <1>2, <1>3
  <2>2. \A y \in J : Max(J) >= y
    BY <2>1 DEF Max
  <2>3. Max(J) \in J
    BY <2>1 DEF Max
  <2> QED BY <1>1, <2>2, <2>3
<1>5. maxjid(tab) = Max(J)
  BY DEF maxjid
<1>6. \A s \in Slots : tab[s].jid \in J
  OBVIOUS
<1> HIDE DEF J, U
<1>7. maxjid(tab) \in J /\ \A j \in J : j <= maxjid(tab)
  BY <1>4, <1>5
<1>8. maxjid(tab) \in 0 .. b
  <2>1. maxjid(tab) \in Nat /\ maxjid(tab) <= b
    BY <1>1, <1>7
  <2> QED BY <2>1
<1>9. \A s \in Slots : tab[s].jid <= maxjid(tab)
  BY <1>6, <1>7
<1> QED BY <1>8, <1>9

LEMMA FreeSlotIsFree ==
    ASSUME NEW tab, FreeSlot(tab) # 0
    PROVE  FreeSlot(tab) \in Slots /\ tab[FreeSlot(tab)].pid = 0
BY FirstIsIn DEF FreeSlot

LEMMA FoundByPid ==
    ASSUME NEW tab, NEW pid \in Nat, getjobpid(tab, pid) # 0
    PROVE  /\ getjobpid(tab, pid) \in Slots
           /\ tab[getjobpid(tab, pid)].pid = pid
           /\ pid # 0
BY FirstIsIn DEF getjobpid

LEMMA FoundByJid ==
    ASSUME NEW tab, NEW jid \in Nat, getjobjid(tab, jid) # 0
    PROVE  getjobjid(tab, jid) \in Slots /\ tab[getjobjid(tab, jid)].jid = jid /\ jid # 0
BY FirstIsIn DEF getjobjid

----------------------------------------------------------------------------
(* The inductive invariant *)

(* A command that holds a job pointer is a bg or a fg.                     *)
CommandOK == /\ bgfg.job # 0 => bgfg.goal \in {"FG", "BG"}
             /\ bgfg.tested => bgfg.job \in Slots

(* Ids in use and the next id stay within what a session of lastpid        *)
(* processes can have reached.                                             *)
JidsBelow == /\ nextjid \in 1 .. lastpid + 1
             /\ \A s \in Slots : jobs[s].jid <= lastpid

(* Before the wrap the next id is above every id in use, and no two jobs   *)
(* share one.                                                              *)
JidsFresh == lastpid < MAXJOBS => \A s \in Slots : jobs[s].jid < nextjid

JidsUnique == lastpid <= MAXJOBS =>
                \A s, t \in Slots : jobs[s].jid = jobs[t].jid /\ jobs[s].jid # 0 => s = t

Inv == /\ TypeOK /\ CommandOK /\ SlotsCoherent
       /\ PidsUnique /\ JidsBelow /\ JidsFresh /\ JidsUnique

LEMMA InvInit == Init => Inv
BY MAXJOBSAssumption DEF Init, Inv, TypeOK, CommandOK, SlotsCoherent, SlotFree, PointerIsOwn,
   PidsUnique, JidsBelow, JidsFresh, JidsUnique, initjobs, ClearJob, JobType, States, NoCommand

LEMMA AddJobStep ==
    ASSUME Inv, NEW st \in {"FG", "BG"}, AddJob(st)
    PROVE  Inv'
<1> DEFINE f == FreeSlot(jobs)
           new == [pid |-> lastpid + 1, jid |-> nextjid, state |-> st]
<1>1. f \in Slots /\ jobs[f].pid = 0
  BY FreeSlotIsFree DEF AddJob
<1>2. /\ lastpid' = lastpid + 1 /\ jobs' = [jobs EXCEPT ![f] = new]
      /\ nextjid' = NextJid(nextjid)
      /\ bgfg' = bgfg /\ bgfg = NoCommand
  BY DEF AddJob, addjob
<1>3. /\ lastpid \in Nat /\ nextjid \in Nat /\ nextjid >= 1 /\ nextjid <= lastpid + 1
      /\ jobs \in [Slots -> JobType] /\ new \in JobType
      /\ new.pid = lastpid + 1 /\ new.jid = nextjid /\ new.state # "UNDEF"
  BY DEF Inv, TypeOK, JidsBelow, JobType, States
<1>4. \A s \in Slots : jobs'[s] = IF s = f THEN new ELSE jobs[s]
  BY <1>1, <1>2, <1>3
<1> HIDE DEF f, new
<1>5. TypeOK' /\ CommandOK'
  BY <1>1, <1>2, <1>3, MAXJOBSAssumption DEF Inv, TypeOK, CommandOK, NextJid
<1>6. SlotsCoherent'
  <2>1. \A s \in Slots : (SlotHolds(s) \/ SlotFree(s))'
    <3> TAKE s \in Slots
    <3>1. CASE s = f
      BY <1>2, <1>3, <1>4, <3>1 DEF SlotHolds
    <3>2. CASE s # f
      BY <1>2, <1>3, <1>4, <3>2 DEF Inv, SlotsCoherent, SlotHolds, SlotFree
    <3> QED BY <3>1, <3>2
  <2>2. PointerIsOwn'
    BY <1>2 DEF PointerIsOwn, NoCommand
  <2> QED BY <2>1, <2>2 DEF SlotsCoherent
<1>7. PidsUnique'
  <2>1. \A s \in Slots : jobs[s].pid \in 0 .. lastpid
    BY <1>3 DEF Inv, SlotsCoherent, SlotHolds, SlotFree
  <2> QED BY <1>3, <1>4, <2>1 DEF Inv, PidsUnique
<1>8. JidsBelow'
  BY <1>2, <1>3, <1>4, MAXJOBSAssumption DEF Inv, JidsBelow, NextJid, JobType
<1>9. JidsFresh'
  BY <1>2, <1>3, <1>4, MAXJOBSAssumption DEF Inv, JidsFresh, NextJid, JobType
<1>10. JidsUnique'
  BY <1>2, <1>3, <1>4, MAXJOBSAssumption DEF Inv, JidsFresh, JidsUnique, JobType
<1> QED BY <1>5, <1>6, <1>7, <1>8, <1>9, <1>10 DEF Inv

(* The handler may clear the slot a command holds a pointer to.            *)
LEMMA DeleteJobStep ==
    ASSUME Inv, NEW pid \in Nat, DeleteJob(pid)
    PROVE  Inv'
<1> DEFINE f == getjobpid(jobs, pid)
<1>1. f \in Slots
  BY FoundByPid DEF DeleteJob
<1>2. /\ lastpid' = lastpid /\ bgfg' = bgfg /\ jobs' = [jobs EXCEPT ![f] = ClearJob]
      /\ nextjid' = maxjid(jobs') + 1
  BY DEF DeleteJob, clearjob
<1>3. /\ lastpid \in Nat /\ jobs \in [Slots -> JobType]
      /\ ClearJob \in JobType /\ ClearJob.pid = 0 /\ ClearJob.jid = 0 /\ ClearJob.state # "ST"
  BY DEF Inv, TypeOK, JobType, States, ClearJob
<1>4. \A s \in Slots : jobs'[s] = IF s = f THEN ClearJob ELSE jobs[s]
  BY <1>1, <1>2, <1>3
<1> HIDE DEF f
<1>5. jobs' \in [Slots -> JobType] /\ \A s \in Slots : jobs'[s].jid <= lastpid
  BY <1>1, <1>2, <1>3, <1>4 DEF Inv, JidsBelow
<1>6. maxjid(jobs') \in 0 .. lastpid /\ \A s \in Slots : jobs'[s].jid <= maxjid(jobs')
  <2>1. \A s \in Slots : jobs'[s].jid \in 0 .. lastpid
    BY <1>3, <1>5 DEF JobType
  <2> QED BY <1>3, <2>1, MaxJidBounds
<1>7. TypeOK' /\ CommandOK'
  BY <1>2, <1>3, <1>5, <1>6 DEF Inv, TypeOK, CommandOK
<1>8. SlotsCoherent'
  <2>1. \A s \in Slots : (SlotHolds(s) \/ SlotFree(s))'
    BY <1>2, <1>3, <1>4 DEF Inv, SlotsCoherent, SlotHolds, SlotFree
  <2>2. PointerIsOwn'
    <3> SUFFICES ASSUME bgfg.job # 0 PROVE jobs'[bgfg.job].pid \in {0, bgfg.pid}
      BY <1>2 DEF PointerIsOwn
    <3>1. bgfg.job \in Slots /\ jobs[bgfg.job].pid \in {0, bgfg.pid}
      BY DEF Inv, TypeOK, SlotsCoherent, PointerIsOwn
    <3> QED BY <1>3, <1>4, <3>1
  <2> QED BY <2>1, <2>2 DEF SlotsCoherent
<1>9. PidsUnique'
  BY <1>3, <1>4 DEF Inv, PidsUnique
<1>10. JidsBelow'
  BY <1>2, <1>3, <1>5, <1>6 DEF JidsBelow
<1>11. JidsFresh'
  <2>1. \A s \in Slots : jobs'[s].jid \in Nat
    BY <1>5 DEF JobType
  <2>2. \A s \in Slots : jobs'[s].jid < nextjid'
    <3>1. nextjid' = maxjid(jobs') + 1 /\ maxjid(jobs') \in Nat
      BY <1>2, <1>3, <1>6
    <3> QED BY <1>6, <2>1, <3>1
  <2> QED BY <2>2 DEF JidsFresh
<1>12. JidsUnique'
  BY <1>2, <1>3, <1>4 DEF Inv, JidsUnique
<1> QED BY <1>7, <1>8, <1>9, <1>10, <1>11, <1>12 DEF Inv

(* What the steps that set the state of one slot leave alone.              *)
LEMMA StateOnly ==
    ASSUME Inv, NEW f \in Slots, NEW st \in States,
           jobs' = setstate(jobs, f, st), lastpid' = lastpid, nextjid' = nextjid
    PROVE  /\ jobs' \in [Slots -> JobType]
           /\ \A s \in Slots : /\ jobs'[s].pid = jobs[s].pid /\ jobs'[s].jid = jobs[s].jid
                               /\ s # f => jobs'[s] = jobs[s]
           /\ jobs'[f].state = st
           /\ PidsUnique' /\ JidsBelow' /\ JidsFresh' /\ JidsUnique'
<1>1. jobs \in [Slots -> JobType] /\ jobs' = [jobs EXCEPT ![f].state = st]
  BY DEF Inv, TypeOK, setstate
<1>2. /\ jobs' \in [Slots -> JobType]
      /\ \A s \in Slots : /\ jobs'[s].pid = jobs[s].pid /\ jobs'[s].jid = jobs[s].jid
                          /\ s # f => jobs'[s] = jobs[s]
      /\ jobs'[f].state = st
  BY <1>1 DEF JobType
<1>3. PidsUnique' /\ JidsBelow' /\ JidsFresh' /\ JidsUnique'
  BY <1>2 DEF Inv, PidsUnique, JidsBelow, JidsFresh, JidsUnique
<1> QED BY <1>2, <1>3

LEMMA StopJobStep ==
    ASSUME Inv, NEW pid \in Nat, StopJob(pid)
    PROVE  Inv'
<1> DEFINE f == getjobpid(jobs, pid)
<1>1. f \in Slots /\ jobs[f].pid = pid /\ pid # 0
  BY FoundByPid DEF StopJob
<1>2. /\ lastpid' = lastpid /\ nextjid' = nextjid /\ bgfg' = bgfg
      /\ jobs' = setstate(jobs, f, "ST")
  BY DEF StopJob
<1> HIDE DEF f
<1>3. /\ jobs' \in [Slots -> JobType]
      /\ \A s \in Slots : /\ jobs'[s].pid = jobs[s].pid /\ jobs'[s].jid = jobs[s].jid
                          /\ s # f => jobs'[s] = jobs[s]
      /\ jobs'[f].state = "ST"
      /\ PidsUnique' /\ JidsBelow' /\ JidsFresh' /\ JidsUnique'
  BY <1>1, <1>2, StateOnly DEF States
<1>4. TypeOK' /\ CommandOK'
  BY <1>2, <1>3 DEF Inv, TypeOK, CommandOK
<1>5. SlotsCoherent'
  <2>1. SlotHolds(f)
    BY <1>1 DEF Inv, SlotsCoherent, SlotFree
  <2>2. \A s \in Slots : (SlotHolds(s) \/ SlotFree(s))'
    BY <1>2, <1>3, <2>1 DEF Inv, SlotsCoherent, SlotHolds, SlotFree
  <2>3. PointerIsOwn'
    BY <1>2, <1>3 DEF Inv, TypeOK, SlotsCoherent, PointerIsOwn
  <2> QED BY <2>2, <2>3 DEF SlotsCoherent
<1> QED BY <1>3, <1>4, <1>5 DEF Inv

LEMMA FindJobStep ==
    ASSUME Inv, NEW id \in Nat, NEW goal \in {"FG", "BG"}, FindJob(id, goal)
    PROVE  Inv'
<1>1. PICK s \in {getjobpid(jobs, id), getjobjid(jobs, id)} \ {0} :
        bgfg' = [job |-> s, pid |-> jobs[s].pid, goal |-> goal, tested |-> FALSE]
  BY DEF FindJob
<1>2. s \in Slots
  BY <1>1, FoundByPid, FoundByJid
<1>3. jobs' = jobs /\ nextjid' = nextjid /\ lastpid' = lastpid
  BY DEF FindJob
<1>4. TypeOK' /\ CommandOK'
  BY <1>1, <1>2, <1>3 DEF Inv, TypeOK, CommandOK, JobType, States
<1>5. SlotsCoherent'
  BY <1>1, <1>2, <1>3 DEF Inv, SlotsCoherent, SlotHolds, SlotFree, PointerIsOwn
<1> QED BY <1>3, <1>4, <1>5 DEF Inv, PidsUnique, JidsBelow, JidsFresh, JidsUnique

LEMMA TestStateStep ==
    ASSUME Inv, TestState
    PROVE  Inv'
<1>1. /\ jobs' = jobs /\ nextjid' = nextjid /\ lastpid' = lastpid
      /\ bgfg.job # 0 /\ bgfg \in [job : {0} \cup Slots, pid : Nat, goal : States, tested : BOOLEAN]
      /\ \/ /\ bgfg' = [bgfg EXCEPT !.tested = TRUE]
            /\ jobs[bgfg.job].state \in {"ST"} \cup (IF bgfg.goal = "FG" THEN {"BG"} ELSE {})
         \/ bgfg' = NoCommand
  BY DEF TestState, Inv, TypeOK
<1>2. TypeOK'
  <2>1. bgfg' \in [job : {0} \cup Slots, pid : Nat, goal : States, tested : BOOLEAN]
    <3>1. CASE bgfg' = [bgfg EXCEPT !.tested = TRUE]
      BY <1>1, <3>1
    <3>2. CASE bgfg' = NoCommand
      BY <3>2 DEF NoCommand, States
    <3> QED BY <1>1, <3>1, <3>2
  <2> QED BY <1>1, <2>1 DEF Inv, TypeOK
<1>3. CommandOK'
  BY <1>1 DEF Inv, CommandOK, NoCommand
<1>4. SlotsCoherent'
  BY <1>1 DEF Inv, SlotsCoherent, SlotHolds, SlotFree, PointerIsOwn, NoCommand
<1> QED BY <1>1, <1>2, <1>3, <1>4 DEF Inv, PidsUnique, JidsBelow, JidsFresh, JidsUnique

(* The late write: to the job of the command, or to the free slot that the *)
(* handler has made of it.                                                 *)
LEMMA SetStateStep ==
    ASSUME Inv, SetState
    PROVE  Inv'
<1> DEFINE f == bgfg.job
<1>1. /\ f \in Slots /\ bgfg.goal \in {"FG", "BG"}
      /\ bgfg' = NoCommand /\ lastpid' = lastpid /\ nextjid' = nextjid
      /\ jobs' = setstate(jobs, f, bgfg.goal)
  BY MAXJOBSAssumption DEF SetState, Inv, CommandOK, Slots
<1> HIDE DEF f
<1>2. /\ jobs' \in [Slots -> JobType]
      /\ \A s \in Slots : /\ jobs'[s].pid = jobs[s].pid /\ jobs'[s].jid = jobs[s].jid
                          /\ s # f => jobs'[s] = jobs[s]
      /\ jobs'[f].state = bgfg.goal
      /\ PidsUnique' /\ JidsBelow' /\ JidsFresh' /\ JidsUnique'
  BY <1>1, StateOnly DEF States
<1>3. TypeOK' /\ CommandOK'
  BY <1>1, <1>2 DEF Inv, TypeOK, CommandOK, NoCommand, States
<1>4. SlotsCoherent'
  <2>1. \A s \in Slots : (SlotHolds(s) \/ SlotFree(s))'
    BY <1>1, <1>2 DEF Inv, SlotsCoherent, SlotHolds, SlotFree
  <2>2. PointerIsOwn'
    BY <1>1 DEF PointerIsOwn, NoCommand
  <2> QED BY <2>1, <2>2 DEF SlotsCoherent
<1> QED BY <1>2, <1>3, <1>4 DEF Inv

LEMMA AddJobFailsStep ==
    ASSUME Inv, AddJobFails
    PROVE  Inv'
<1>1. /\ lastpid \in Nat /\ lastpid' = lastpid + 1 /\ jobs' = jobs /\ nextjid' = nextjid
      /\ bgfg' = bgfg
      /\ \A s \in Slots : jobs[s].jid \in Nat /\ jobs[s].pid \in Nat
  BY DEF AddJobFails, Inv, TypeOK, JobType
<1>2. TypeOK' /\ CommandOK' /\ PidsUnique'
  BY <1>1 DEF Inv, TypeOK, CommandOK, PidsUnique
<1>3. SlotsCoherent'
  BY <1>1 DEF Inv, SlotsCoherent, SlotHolds, SlotFree, PointerIsOwn
<1>4. JidsBelow'
  BY <1>1 DEF Inv, JidsBelow
<1>5. JidsFresh' /\ JidsUnique'
  BY <1>1, MAXJOBSAssumption DEF Inv, JidsFresh, JidsUnique
<1> QED BY <1>2, <1>3, <1>4, <1>5 DEF Inv

(* Inv is an invariant of the job list.                                    *)
THEOREM InvInvariant == Spec => []Inv
<1>1. Inv /\ [Next]_vars => Inv'
  <2> SUFFICES ASSUME Inv, [Next]_vars PROVE Inv'
    OBVIOUS
  <2>1. CASE UNCHANGED vars
    BY <2>1 DEF vars, Inv, TypeOK, CommandOK, SlotsCoherent, SlotHolds, SlotFree, PointerIsOwn,
                PidsUnique, JidsBelow, JidsFresh, JidsUnique
  <2>2. \A pid \in 1 .. lastpid : pid \in Nat
    OBVIOUS
  <2> QED BY <2>1, <2>2, AddJobStep, AddJobFailsStep, DeleteJobStep, StopJobStep, FindJobStep,
             TestStateStep, SetStateStep DEF Next
<1> QED BY <1>1, InvInit, PTL DEF Spec

(* The fields of the job list keep their types.                            *)
THEOREM TypeCorrect == Spec => []TypeOK
BY InvInvariant, PTL DEF Inv

(* Every slot holds a job in all its fields or has neither a pid nor a     *)
(* jid, whatever bg or fg writes late through a job pointer, and what is   *)
(* written late is never the state of another job.                         *)
THEOREM SlotsCoherentAlways == Spec => []SlotsCoherent
BY InvInvariant, PTL DEF Inv

(* No process ever has two slots.                                          *)
THEOREM PidsUniqueAlways == Spec => []PidsUnique
BY InvInvariant, PTL DEF Inv

(* Until the shell has started more than MAXJOBS jobs, the id of a job     *)
(* leads back to that job.                                                 *)
THEOREM JidFindsJobAlways == Spec => []JidFindsJobBeforeWrap
<1>1. Inv => JidFindsJobBeforeWrap
  <2> SUFFICES ASSUME Inv, lastpid <= MAXJOBS, NEW s \in Slots, jobs[s].pid # 0
               PROVE  getjobjid(jobs, pid2jid(jobs, jobs[s].pid)) = s
    BY DEF JidFindsJobBeforeWrap, JidFindsJob
  <2>1. jobs[s].pid >= 1 /\ jobs[s].jid >= 1
    BY DEF Inv, SlotsCoherent, SlotHolds, SlotFree, TypeOK, JobType
  <2>2. {t \in Slots : jobs[t].pid = jobs[s].pid} = {s}
    BY DEF Inv, PidsUnique
  <2>3. getjobpid(jobs, jobs[s].pid) = s
    <3>1. First({t \in Slots : jobs[t].pid = jobs[s].pid}) = s
      BY <2>2, FirstIsIn
    <3>2. ~(jobs[s].pid < 1)
      BY <2>1 DEF Inv, TypeOK, JobType
    <3> QED BY <3>1, <3>2 DEF getjobpid
  <2>4. pid2jid(jobs, jobs[s].pid) = jobs[s].jid
    BY <2>3, MAXJOBSAssumption DEF pid2jid, Slots
  <2>5. {t \in Slots : jobs[t].jid = jobs[s].jid} = {s}
    BY <2>1 DEF Inv, JidsUnique
  <2>6. First({t \in Slots : jobs[t].jid = jobs[s].jid}) = s
    BY <2>5, FirstIsIn
  <2>7. ~(jobs[s].jid < 1)
    BY <2>1 DEF Inv, TypeOK, JobType
  <2> QED BY <2>4, <2>6, <2>7 DEF getjobjid
<1> QED BY <1>1, InvInvariant, PTL

============================================================================
