-------------------------- MODULE TinyShellProofs --------------------------
(***************************************************************************)
(* Proofs about job control in tsh.c, for any number of job slots, of      *)
(* children and of keys typed, and any nesting of the signal handlers.     *)
(***************************************************************************)
EXTENDS TinyShell, FiniteSetTheorems, SequenceTheorems, WellFoundedInduction, TLAPS

----------------------------------------------------------------------------
(* What the searches of the job list of tsh.c return. *)

LEMMA LeastNatural ==
    ASSUME NEW S \in SUBSET Nat, S # {}
    PROVE  \E x \in S : \A y \in S : x <= y
<1>1. \E x \in S : \A y \in S : ~ (<<y, x>> \in OpToRel(<, Nat))
  BY NatLessThanWellFounded, WFMin
<1>2. \A x, y \in Nat : y < x => <<y, x>> \in OpToRel(<, Nat)
  <2> TAKE x, y \in Nat
  <2> HAVE y < x
  <2>1. <<y, x>> \in Nat \X Nat /\ <<y, x>>[1] < <<y, x>>[2]
    OBVIOUS
  <2> QED BY <2>1 DEF OpToRel
<1>3. PICK x \in S : \A y \in S : ~ (<<y, x>> \in OpToRel(<, Nat))
  BY <1>1
<1>4. \A y \in S : ~ (y < x)
  BY <1>2, <1>3
<1> QED BY <1>4

LEMMA FirstIsIn ==
    ASSUME NEW S \in SUBSET Slots
    PROVE  /\ S # {} => First(S) \in S
           /\ S = {} => First(S) = 0
           /\ First(S) # 0 => First(S) \in S
           /\ \A s : S = {s} => First(S) = s
<1>1. S # {} => Min(S) \in S
  <2> SUFFICES ASSUME S # {} PROVE Min(S) \in S
    OBVIOUS
  <2>1. S \in SUBSET Nat
    BY MAXJOBSAssumption DEF Slots
  <2>2. \E x \in S : \A y \in S : x <= y
    BY <2>1, LeastNatural
  <2> QED BY <2>2 DEF Min
<1> QED BY <1>1 DEF First

LEMMA MaxJidBounds ==
    ASSUME NEW tab, NEW b \in Nat, \A s \in Slots : tab[s].jid \in 0 .. b
    PROVE  /\ maxjid(tab) \in 0 .. b
           /\ \A s \in Slots : tab[s].jid <= maxjid(tab)
<1> DEFINE J == {0} \cup {tab[s].jid : s \in Slots}
           U == {u \in Nat : \A j \in J : j <= u}
<1>1. J \in SUBSET Nat /\ \A j \in J : j <= b
  OBVIOUS
<1>2. PICK m \in U : \A u \in U : m <= u
  <2>1. U \in SUBSET Nat /\ b \in U
    BY <1>1
  <2> QED BY <2>1, LeastNatural
<1>3. m \in J
  <2> SUFFICES ASSUME m \notin J PROVE FALSE
    OBVIOUS
  <2>1. m - 1 \in Nat /\ \A j \in J : j <= m - 1
    BY <1>1, <1>2
  <2>2. m - 1 \in U
    BY <2>1
  <2> QED BY <1>2, <2>2
<1>4. Max(J) \in J /\ \A j \in J : j <= Max(J)
  <2>1. \E x \in J : \A y \in J : x >= y
    BY <1>1, <1>2, <1>3
  <2>2. \A y \in J : Max(J) >= y
    BY <2>1 DEF Max
  <2>3. Max(J) \in J
    BY <2>1 DEF Max
  <2> QED BY <1>1, <2>2, <2>3
<1>5. maxjid(tab) = Max(J)
  BY DEF maxjid
<1>6. \A s \in Slots : tab[s].jid \in J
  OBVIOUS
<1> HIDE DEF J, U
<1>7. maxjid(tab) \in J /\ \A j \in J : j <= maxjid(tab)
  BY <1>4, <1>5
<1>8. maxjid(tab) \in 0 .. b
  <2>1. maxjid(tab) \in Nat /\ maxjid(tab) <= b
    BY <1>1, <1>7
  <2> QED BY <2>1
<1>9. \A s \in Slots : tab[s].jid <= maxjid(tab)
  BY <1>6, <1>7
<1> QED BY <1>8, <1>9

LEMMA FreeSlotIsFree ==
    ASSUME NEW tab, FreeSlot(tab) # 0
    PROVE  FreeSlot(tab) \in Slots /\ tab[FreeSlot(tab)].pid = 0
BY FirstIsIn DEF FreeSlot

----------------------------------------------------------------------------
(* The inductive invariant. *)

JobType == [pid : 0 .. MaxForks, jid : 0 .. MaxForks, state : States]

(* Types, with the handlers as a sequence. *)
Types == /\ jobs \in [Slots -> JobType]
         /\ nextjid \in 1 .. MaxForks + 1
         /\ pc \in MainPC /\ reg \in Registers
         /\ mask \subseteq Signals /\ pending \subseteq Signals
         /\ stack \in Seq(Frame)
         /\ proc \in [Procs -> ProcStates]
         /\ sigs \in [Procs -> SUBSET {"INT", "TSTP", "KILL"}]
         /\ forks \in 0 .. MaxForks /\ keys \in 0 .. MaxKeys

(* A running handler has its own signal blocked, and a handler that        *)
(* interrupted it gives that mask back: no signal is handled twice at once. *)
Nested == \A j \in 1 .. Len(stack) :
            /\ stack[j].sig \in mask
            /\ \A i \in 1 .. j - 1 : /\ stack[i].sig \in stack[j].saved
                                     /\ stack[i].sig # stack[j].sig

(* Where the main loop can be while a job with a process is in the foreground. *)
ForegroundPC == {"waitfg", "suspend", "suspended", "woken", "fg_cont", "fg_kill", "fg_wait",
                 "aborted"}

(* What a handler has read is still so when it acts on it: the child that  *)
(* waitpid returned is gone, or it got as far as being stopped; a key is   *)
(* passed on only while the main loop waits.                               *)
FramesCurrent ==
    \A i \in 1 .. Len(stack) : LET f == stack[i] IN
       /\ f.at = "update" =>
            /\ f.sig = "CHLD" /\ f.pid \in Procs
            /\ IF f.stopped THEN proc[f.pid] \notin {"none", "forked"}
                            ELSE proc[f.pid] = "reaped"
       /\ f.at = "kill" => f.pid \in Procs /\ pc \in ForegroundPC

(* Between sigprocmask and addjob no SIGCHLD handler runs or will run.     *)
ChldBlocked == pc \in {"fork", "addjob"} =>
                 /\ "CHLD" \in mask
                 /\ \A i \in 1 .. Len(stack) : /\ stack[i].sig # "CHLD"
                                            /\ "CHLD" \in stack[i].saved

(* The child that addjob is about to list is the last one forked, and no   *)
(* handler has waited for it.                                              *)
Newest == /\ pc = "fork" => forks < MaxForks
          /\ pc \in {"fork", "addjob"} => reg.st \in parseline
          /\ pc = "addjob" => /\ forks >= 1 /\ reg.pid = forks
                              /\ proc[forks] \notin {"stopped", "reaped"}
          /\ rejected \subseteq {p \in 1 .. forks : pc = "addjob" => p # forks}

(* Every known child has a slot, every slot in use a known child, and no   *)
(* child has two.                                                          *)
Tracks == /\ \A s \in Slots : jobs[s].pid # 0 => jobs[s].pid \in Known
          /\ \A p \in Known : \E s \in Slots : jobs[s].pid = p
          /\ \A s, t \in Slots : jobs[s].pid = jobs[t].pid /\ jobs[s].pid # 0 => s = t

(* Job ids are bounded by the number of children handed to addjob.         *)
Jids == /\ nextjid <= forks + 1
        /\ \A s \in Slots : jobs[s].jid <= forks
        /\ pc = "addjob" => nextjid <= forks /\ \A s \in Slots : jobs[s].jid < forks

(* The job pointer of listbgjobs, do_bgfg and waitfg is not NULL.          *)
SlotPtr == pc \in {"list", "list_print", "fg_switch", "fg_set", "fg_cont", "fg_kill", "fg_wait",
                   "bg_check", "bg_set", "bg_cont", "bg_kill", "suspend", "suspended", "woken"}
             => reg.slot \in Slots

(* The pid that bg and fg have read for kill is that of their slot, or     *)
(* the process was reaped and the slot cleared since.                      *)
LoadedPid == pc \in {"fg_kill", "bg_kill"} =>
    \/ jobs[reg.slot].pid = reg.pid
    \/ ReapedSinceRead /\ reg.pid \in Procs

(* A job with a process is in the foreground only while the main loop      *)
(* waits for it.                                                           *)
Foreground ==
    \A s \in Slots : jobs[s].state = "FG" /\ jobs[s].pid # 0 =>
       /\ pc \in ForegroundPC
       /\ pc = "waitfg" => jobs[s].pid = reg.pid
       /\ pc \in {"suspend", "suspended", "woken", "fg_cont", "fg_kill", "fg_wait"} => reg.slot = s

(* A job that was seen stopped, or that fg is going to continue, has set   *)
(* its process group.                                                      *)
Continuing(s) == /\ reg.slot = s
                 /\ pc \in {"fg_cont", "fg_kill"} \/ (pc = "fg_set" /\ reg.st = "ST")
StoppedHasGroup ==
    \A s \in Slots : jobs[s].pid # 0 /\ (jobs[s].state = "ST" \/ Continuing(s)) =>
                        proc[jobs[s].pid] \notin {"none", "forked"}

Inv == /\ Types /\ Nested /\ FramesCurrent /\ ChldBlocked /\ Newest /\ Tracks /\ Jids
       /\ SlotPtr /\ LoadedPid /\ Foreground /\ StoppedHasGroup

----------------------------------------------------------------------------
(* Lemmas *)

(* What every step but Fork and ChldWaitpid does to the children: nobody   *)
(* is reaped or seen stopped, nobody leaves its process group.             *)
ProcKept == \A q \in Procs : /\ proc'[q] = "reaped" <=> proc[q] = "reaped"
                             /\ proc'[q] = "stopped" => proc[q] = "stopped"
                             /\ proc'[q] \in {"none", "forked"} => proc[q] \in {"none", "forked"}

WorldTypes == /\ pending \subseteq Signals
              /\ proc \in [Procs -> ProcStates]
              /\ sigs \in [Procs -> SUBSET {"INT", "TSTP", "KILL"}]

LEMMA SendKeeps ==
    ASSUME WorldTypes, NEW p \in Procs, NEW s \in {"INT", "TSTP", "KILL", "CONT"}, Send(p, s)
    PROVE  WorldTypes' /\ ProcKept
<1>1. CASE s = "CONT"
  <2>1. sigs' = [sigs EXCEPT ![p] = sigs[p] \ {"TSTP"}]
    BY <1>1 DEF Send
  <2>2. proc' = [proc EXCEPT ![p] = IF proc[p] \in {"stopping", "stopped"}
                                    THEN "running" ELSE proc[p]]
    BY <1>1 DEF Send
  <2>3. pending' \subseteq Signals
    BY <1>1 DEF Send, WorldTypes, Signals
  <2>4. sigs' \in [Procs -> SUBSET {"INT", "TSTP", "KILL"}]
    BY <2>1 DEF WorldTypes
  <2>5. proc' \in [Procs -> ProcStates] /\ ProcKept
    BY <2>2 DEF WorldTypes, ProcStates, ProcKept
  <2> QED BY <2>3, <2>4, <2>5 DEF WorldTypes
<1>2. CASE s # "CONT"
  <2>1. /\ sigs' = IF Live(p) THEN [sigs EXCEPT ![p] = sigs[p] \cup {s}] ELSE sigs
        /\ proc' = proc /\ pending' = pending
    BY <1>2 DEF Send
  <2>2. sigs' \in [Procs -> SUBSET {"INT", "TSTP", "KILL"}]
    BY <1>2, <2>1 DEF WorldTypes
  <2> QED BY <2>1, <2>2 DEF WorldTypes, ProcKept
<1> QED BY <1>1, <1>2

LEMMA BecomesKeeps ==
    ASSUME WorldTypes, NEW p \in Procs, NEW l \in {"zombie", "stopping"},
           proc[p] \notin {"none", "zombie", "reaped"}, Becomes(p, l)
    PROVE  proc' \in [Procs -> ProcStates] /\ pending' \subseteq Signals /\ ProcKept
<1>1. proc' = [proc EXCEPT ![p] = l] /\ pending' = pending \cup {"CHLD"}
  BY DEF Becomes
<1> QED BY <1>1 DEF WorldTypes, ProcStates, ProcKept, Signals

(* Who is known, without the set of pids being reaped. *)
ReapedBy(p) == \E i \in 1 .. Len(stack) : /\ stack[i].at = "update" /\ ~stack[i].stopped
                                          /\ stack[i].pid = p

LEMMA KnownIs ==
    /\ \A p : p \in Known <=> /\ p \in 1 .. forks /\ p \notin rejected
                              /\ pc = "addjob" => p # reg.pid
                              /\ proc[p] = "reaped" => ReapedBy(p)
    /\ \A p : p \in Known' <=> /\ p \in 1 .. forks' /\ p \notin rejected'
                               /\ pc' = "addjob" => p # reg'.pid
                               /\ proc'[p] = "reaped" => ReapedBy(p)'
BY DEF Known, BeingReaped, ReapedBy

(* The three things that happen to the stack of handlers. *)
LEMMA Pushed ==
    ASSUME stack \in Seq(Frame), NEW f \in Frame, stack' = Append(stack, f)
    PROVE  /\ stack' \in Seq(Frame) /\ Len(stack) \in Nat /\ Len(stack') = Len(stack) + 1
           /\ stack'[Len(stack) + 1] = f
           /\ \A i \in 1 .. Len(stack) : stack'[i] = stack[i]
BY AppendProperties

LEMMA BelowIs ==
    ASSUME stack \in Seq(Frame), stack # << >>
    PROVE  /\ Below \in Seq(Frame) /\ Len(Below) = Len(stack) - 1
           /\ \A i \in 1 .. Len(Below) : Below[i] = stack[i]
           /\ Len(stack) \in Nat \ {0} /\ Top \in Frame
<1>1. Len(stack) \in Nat \ {0} /\ \A i \in 1 .. Len(stack) : stack[i] \in Frame
  OBVIOUS
<1>2. 1 \in Int /\ Len(stack) - 1 \in Int /\ \A i \in 1 .. Len(stack) - 1 : stack[i] \in Frame
  BY <1>1
<1>3. /\ Below \in Seq(Frame)
      /\ \A i \in 1 .. Len(stack) - 1 - 1 + 1 : Below[i] = stack[1 + i - 1]
  BY <1>2, SubSeqProperties DEF Below
<1>4. Len(Below) = Len(stack) - 1
  <2>1. Len(Below) = IF 1 <= Len(stack) - 1 THEN Len(stack) - 1 - 1 + 1 ELSE 0
    BY <1>2, SubSeqProperties DEF Below
  <2>2. \A k \in Nat \ {0} : (IF 1 <= k - 1 THEN k - 1 - 1 + 1 ELSE 0) = k - 1
    OBVIOUS
  <2> QED BY <1>1, <2>1, <2>2
<1>5. ASSUME NEW i \in 1 .. Len(Below) PROVE Below[i] = stack[i]
  <2>1. i \in 1 .. Len(stack) - 1 - 1 + 1 /\ 1 + i - 1 = i
    BY <1>1, <1>4
  <2> QED BY <1>3, <2>1
<1> QED BY <1>1, <1>3, <1>4, <1>5 DEF Top

LEMMA Popped ==
    ASSUME stack \in Seq(Frame), stack # << >>, stack' = Below
    PROVE  /\ stack' \in Seq(Frame) /\ Len(stack) \in Nat \ {0}
           /\ Len(stack') = Len(stack) - 1
           /\ Top \in Frame
           /\ \A i \in 1 .. Len(stack') : stack'[i] = stack[i]
BY BelowIs

LEMMA Replaced ==
    ASSUME stack \in Seq(Frame), stack # << >>, NEW f \in Frame, stack' = Append(Below, f)
    PROVE  /\ stack' \in Seq(Frame) /\ Len(stack) \in Nat \ {0}
           /\ Len(stack') = Len(stack)
           /\ Top \in Frame
           /\ stack'[Len(stack)] = f
           /\ \A i \in 1 .. Len(stack) : i # Len(stack) => stack'[i] = stack[i]
<1>1. /\ stack' \in Seq(Frame) /\ Len(stack') = Len(Below) + 1
      /\ stack'[Len(Below) + 1] = f
      /\ \A i \in 1 .. Len(Below) : stack'[i] = Below[i]
  BY BelowIs, AppendProperties
<1> QED BY <1>1, BelowIs

----------------------------------------------------------------------------
(* Steps *)

LEMMA NoLocalsTyped == NoLocals \in Registers
BY MAXJOBSAssumption, ShellAssumption DEF NoLocals, Registers, States, Signals

LEMMA InvInit == Init => Inv
<1> SUFFICES ASSUME Init PROVE Inv
  OBVIOUS
<1>1. /\ jobs = [s \in Slots |-> [pid |-> 0, jid |-> 0, state |-> "UNDEF"]]
      /\ nextjid = 1 /\ pc = "prompt" /\ stack = << >> /\ forks = 0 /\ rejected = {}
  BY DEF Init, initjobs, ClearJob
<1>2. Types
  <2>1. jobs \in [Slots -> JobType]
    BY <1>1, ShellAssumption DEF JobType, States
  <2>2. reg \in Registers
    BY NoLocalsTyped DEF Init
  <2>3. stack \in Seq(Frame)
    BY <1>1
  <2> QED BY <1>1, <2>1, <2>2, <2>3, ShellAssumption DEF Init, Types, MainPC, ProcStates
<1>3. Known = {}
  BY <1>1 DEF Known
<1>4. Nested /\ FramesCurrent /\ ChldBlocked /\ Newest
  BY <1>1 DEF Nested, FramesCurrent, ChldBlocked, Newest
<1>5. Tracks /\ Jids /\ SlotPtr /\ LoadedPid /\ Foreground /\ StoppedHasGroup
  BY <1>1, <1>3 DEF Tracks, Jids, SlotPtr, LoadedPid, Foreground, StoppedHasGroup, Continuing
<1> QED BY <1>2, <1>4, <1>5 DEF Inv

(* What Inv says of the slots, spelled out. *)
LEMMA SlotFacts ==
    ASSUME Inv
    PROVE  /\ \A s \in Slots : /\ jobs[s] \in JobType
                               /\ jobs[s].pid \in Nat /\ jobs[s].jid \in Nat
                               /\ jobs[s].state \in States
                               /\ jobs[s].pid # 0 => jobs[s].pid \in Procs
                               /\ jobs[s].pid # 0 => jobs[s].pid \in 1 .. forks
           /\ MaxForks \in Nat /\ MaxKeys \in Nat /\ forks \in Nat /\ forks <= MaxForks
           /\ 1 .. forks \subseteq Procs
<1>1. /\ jobs \in [Slots -> JobType] /\ MaxForks \in Nat /\ MaxKeys \in Nat
      /\ forks \in Nat /\ forks <= MaxForks
  BY ShellAssumption DEF Inv, Types
<1>2. 1 .. forks \subseteq Procs
  BY <1>1 DEF Procs
<1>3. \A s \in Slots : /\ jobs[s] \in JobType
                       /\ jobs[s].pid \in Nat /\ jobs[s].jid \in Nat
                       /\ jobs[s].state \in States
  BY <1>1 DEF JobType
<1>4. \A s \in Slots : jobs[s].pid # 0 => jobs[s].pid \in 1 .. forks
  BY KnownIs DEF Inv, Tracks
<1> QED BY <1>1, <1>2, <1>3, <1>4

(* A step of the main loop that at most changes the state of a job. *)
LEMMA MainStep ==
    ASSUME Inv, stack = << >>, stack' = << >>, Types', ProcKept,
           \A s \in Slots : jobs'[s].pid = jobs[s].pid /\ jobs'[s].jid = jobs[s].jid,
           UNCHANGED <<nextjid, rejected, forks>>, pc # "addjob", pc' # "addjob",
           pc' = "fork" => "CHLD" \in mask' /\ forks < MaxForks /\ reg'.st \in parseline,
           SlotPtr', LoadedPid', Foreground', StoppedHasGroup'
    PROVE  Inv'
<1>1. \A p : ~ReapedBy(p) /\ ~ReapedBy(p)'
  BY DEF ReapedBy
<1>2. \A p : p \in Known' <=> p \in Known
  <2>1. \A p \in 1 .. forks : proc'[p] = "reaped" <=> proc[p] = "reaped"
    BY SlotFacts DEF ProcKept
  <2> QED BY <1>1, <2>1, KnownIs
<1>3. Tracks'
  BY <1>2 DEF Inv, Tracks
<1>4. Nested' /\ FramesCurrent' /\ ChldBlocked'
  BY DEF Nested, FramesCurrent, ChldBlocked
<1>5. Newest' /\ Jids'
  BY DEF Inv, Newest, Jids
<1> QED BY <1>3, <1>4, <1>5 DEF Inv

(* The same when the children are left alone as well. *)
LEMMA QuietStep ==
    ASSUME Inv, stack = << >>, UNCHANGED <<shell, stack, pending, world>>,
           pc # "addjob", pc' \in MainPC \ {"addjob", "fg_kill", "bg_kill"},
           reg' \in Registers, mask' \subseteq Signals,
           pc' = "fork" => "CHLD" \in mask' /\ forks < MaxForks /\ reg'.st \in parseline,
           SlotPtr', Foreground',
           \A s \in Slots : Continuing(s)' => jobs[s].state = "ST"
    PROVE  Inv'
<1>1. Types'
  BY DEF Inv, Types, shell, world
<1>2. ProcKept
  BY DEF ProcKept, world
<1>3. StoppedHasGroup'
  BY DEF Inv, StoppedHasGroup, shell, world
<1>4. LoadedPid'
  BY DEF LoadedPid
<1> QED BY <1>1, <1>2, <1>3, <1>4, MainStep DEF shell, world

(* At the prompt and in the builtins no job with a process is in the foreground. *)
LEMMA NobodyInForeground ==
    ASSUME Inv, pc \notin ForegroundPC, jobs' = jobs
    PROVE  Foreground'
BY DEF Inv, Foreground

LEMMA RegTypes ==
    ASSUME reg \in Registers
    PROVE  /\ reg.pid \in 0 .. MaxForks /\ reg.slot \in 0 .. MAXJOBS /\ reg.st \in States
           /\ reg.ret \in {"unblock", "prompt"} /\ reg.old \subseteq Signals
BY DEF Registers

LEMMA EvalSteps ==
    ASSUME Inv, EvalCommand \/ ForkFails \/ Unblock \/ Quit \/ EndOfInput
    PROVE  Inv'
<1>1. reg \in Registers /\ mask \subseteq Signals
  BY DEF Inv, Types
<1>2. CASE EvalCommand
  <2>1. reg' \in Registers /\ reg'.st \in parseline
    BY <1>2, NoLocalsTyped DEF EvalCommand, Registers, parseline, States
  <2>2. /\ stack = << >> /\ UNCHANGED <<shell, stack, pending, world>>
        /\ pc = "prompt" /\ pc' = "fork" /\ "CHLD" \in mask' /\ mask' \subseteq Signals
        /\ forks < MaxForks
    BY <1>1, <1>2 DEF EvalCommand, MainAt, Signals
  <2>3. Foreground'
    BY <2>2, NobodyInForeground DEF ForegroundPC, shell
  <2>4. SlotPtr' /\ \A s \in Slots : ~Continuing(s)'
    BY <2>2 DEF SlotPtr, Continuing
  <2> QED BY <2>1, <2>2, <2>3, <2>4, QuietStep DEF MainPC
<1>3. CASE ForkFails \/ Unblock \/ Quit \/ EndOfInput
  <2>1. /\ stack = << >> /\ UNCHANGED <<shell, stack, pending, world>>
        /\ pc \in {"fork", "unblock", "prompt"} /\ pc' \in {"aborted", "prompt", "quit"}
        /\ mask' \subseteq Signals /\ reg' \in Registers
    BY <1>1, <1>3, NoLocalsTyped DEF ForkFails, Unblock, Quit, EndOfInput, MainAt
  <2>2. Foreground'
    BY <2>1, NobodyInForeground DEF ForegroundPC, shell
  <2>3. SlotPtr' /\ \A s \in Slots : ~Continuing(s)'
    BY <2>1 DEF SlotPtr, Continuing
  <2> QED BY <1>1, <2>1, <2>2, <2>3, QuietStep DEF MainPC
<1> QED BY <1>2, <1>3

LEMMA ListSteps ==
    ASSUME Inv, JobsCommand \/ ListTest \/ ListPrint
    PROVE  Inv'
<1>1. reg \in Registers /\ mask \subseteq Signals
  BY DEF Inv, Types
<1>2. /\ stack = << >> /\ UNCHANGED <<shell, mask, stack, pending, world>>
      /\ pc \in {"prompt", "list", "list_print"}
  BY DEF JobsCommand, ListTest, ListPrint, MainAt
<1>3. \/ \E s \in Nat \ {0} : Listing(s)
      \/ pc = "list" /\ pc' = "list_print" /\ reg' = reg
  <2>1. pc \in {"list", "list_print"} => reg.slot + 1 \in Nat \ {0}
    BY MAXJOBSAssumption DEF Inv, SlotPtr, Slots
  <2> QED BY <2>1 DEF JobsCommand, ListTest, ListPrint, MainAt
<1>4. pc' \in {"prompt", "list", "list_print"} /\ reg' \in Registers /\ SlotPtr'
  <2>1. CASE \E s \in Nat \ {0} : Listing(s)
    <3>1. PICK s \in Nat \ {0} : Listing(s)
      BY <2>1
    <3>2. CASE s > MAXJOBS
      BY <3>1, <3>2, NoLocalsTyped DEF Listing, SlotPtr
    <3>3. CASE ~(s > MAXJOBS)
      <4>1. pc' = "list" /\ reg' = [NoLocals EXCEPT !.slot = s] /\ s \in Slots /\ s \in 0 .. MAXJOBS
        BY <3>1, <3>3, MAXJOBSAssumption DEF Listing, Slots
      <4> QED BY <4>1, NoLocalsTyped DEF SlotPtr, Registers
    <3> QED BY <3>2, <3>3
  <2>2. CASE pc = "list" /\ pc' = "list_print" /\ reg' = reg
    BY <2>2, <1>1 DEF Inv, SlotPtr
  <2> QED BY <1>3, <2>1, <2>2
<1>5. Foreground'
  BY <1>2, NobodyInForeground DEF ForegroundPC, shell
<1>6. \A s \in Slots : ~Continuing(s)'
  BY <1>4 DEF Continuing
<1> QED BY <1>1, <1>2, <1>4, <1>5, <1>6, QuietStep DEF MainPC

(* The argument of fg and bg leads to a slot. *)
LEMMA FoundIsSlot == Found \subseteq Slots
<1>1. \A p \in Procs : getjobpid(jobs, p) # 0 => getjobpid(jobs, p) \in Slots
  BY FirstIsIn DEF getjobpid
<1>2. \A j \in Procs : getjobjid(jobs, j) # 0 => getjobjid(jobs, j) \in Slots
  BY FirstIsIn DEF getjobjid
<1> QED BY <1>1, <1>2 DEF Found

LEMMA BgFgSteps ==
    ASSUME Inv, FgCommand \/ FgSwitch \/ BgCommand \/ BgCheck
    PROVE  Inv'
<1>1. reg \in Registers /\ mask \subseteq Signals
  BY DEF Inv, Types
<1>2. /\ stack = << >> /\ UNCHANGED <<shell, mask, stack, pending, world>>
      /\ pc \in {"prompt", "fg_switch", "bg_check"}
  BY DEF FgCommand, FgSwitch, BgCommand, BgCheck, MainAt
<1>3. Foreground'
  BY <1>2, NobodyInForeground DEF ForegroundPC, shell
<1>4. CASE FgCommand \/ BgCommand
  <2>1. PICK s \in Slots : reg' = [NoLocals EXCEPT !.slot = s]
    BY <1>4, FoundIsSlot DEF FgCommand, BgCommand
  <2>2. s \in 0 .. MAXJOBS
    BY MAXJOBSAssumption DEF Slots
  <2>3. reg' \in Registers /\ reg'.slot = s
    BY <2>1, <2>2, NoLocalsTyped DEF Registers
  <2>4. pc' \in {"fg_switch", "bg_check"}
    BY <1>4 DEF FgCommand, BgCommand
  <2>5. SlotPtr' /\ \A t \in Slots : ~Continuing(t)'
    BY <2>3, <2>4 DEF SlotPtr, Continuing
  <2> QED BY <1>1, <1>2, <1>3, <2>3, <2>4, <2>5, QuietStep DEF MainPC
<1>5. CASE FgSwitch
  <2>1. reg.slot \in Slots /\ pc = "fg_switch"
    BY <1>5 DEF Inv, SlotPtr, FgSwitch, MainAt
  <2> DEFINE j == jobs[reg.slot]
  <2>2. j \in JobType
    BY <2>1, SlotFacts
  <2>3. reg' = [reg EXCEPT !.st = j.state] /\ pc' \in {"prompt", "fg_wait", "fg_set"}
    BY <1>5 DEF FgSwitch
  <2> HIDE DEF j
  <2>4. reg' \in Registers /\ reg'.slot = reg.slot /\ reg'.st = j.state
    BY <1>1, <2>2, <2>3 DEF Registers, JobType
  <2>5. SlotPtr' /\ \A t \in Slots : Continuing(t)' => jobs[t].state = "ST"
    BY <2>1, <2>3, <2>4 DEF SlotPtr, Continuing, j
  <2> QED BY <1>1, <1>2, <1>3, <2>3, <2>4, <2>5, QuietStep DEF MainPC
<1>6. CASE BgCheck
  <2>1. reg' = reg /\ pc' \in {"bg_set", "prompt"} /\ pc = "bg_check"
    BY <1>6 DEF BgCheck, MainAt
  <2>2. SlotPtr' /\ \A t \in Slots : ~Continuing(t)'
    BY <2>1 DEF Inv, SlotPtr, Continuing
  <2> QED BY <1>1, <1>2, <1>3, <2>1, <2>2, QuietStep DEF MainPC
<1> QED BY <1>4, <1>5, <1>6

(* getjobpid finds the slot of a child. *)
LEMMA GetJobPid ==
    ASSUME Inv, NEW p \in 1 .. MaxForks
    PROVE  /\ getjobpid(jobs, p) # 0 => /\ getjobpid(jobs, p) \in Slots
                                        /\ jobs[getjobpid(jobs, p)].pid = p
           /\ getjobpid(jobs, p) = 0 => \A s \in Slots : jobs[s].pid # p
           /\ \A s \in Slots : jobs[s].pid = p => getjobpid(jobs, p) = s
<1>1. p \in Nat /\ ~(p < 1) /\ 0 \notin Slots
  BY ShellAssumption, MAXJOBSAssumption DEF Slots
<1>2. getjobpid(jobs, p) = First({s \in Slots : jobs[s].pid = p})
  BY <1>1 DEF getjobpid
<1>3. getjobpid(jobs, p) # 0 => getjobpid(jobs, p) \in {s \in Slots : jobs[s].pid = p}
  BY <1>2, FirstIsIn
<1>4. getjobpid(jobs, p) = 0 => {s \in Slots : jobs[s].pid = p} = {}
  BY <1>1, <1>2, FirstIsIn
<1> QED BY <1>1, <1>3, <1>4 DEF Inv, Tracks

LEMMA WaitSteps ==
    ASSUME Inv, Waitfg \/ Sigsuspend \/ Woken
    PROVE  Inv'
<1>1. reg \in Registers /\ mask \subseteq Signals /\ pc \in MainPC
  BY DEF Inv, Types
<1>2. /\ stack = << >> /\ UNCHANGED <<shell, stack, pending, world>>
      /\ pc \in {"waitfg", "suspend", "woken"}
  BY DEF Waitfg, Sigsuspend, Woken, MainAt
<1>3. CASE Waitfg
  <2> DEFINE s == getjobpid(jobs, reg.pid)
  <2>1. pc = "waitfg" /\ mask' = mask
    BY <1>3 DEF Waitfg, MainAt
  <2>2. CASE s # 0 /\ jobs[s].state = "FG"
    <3>1. pc' = "suspend" /\ reg' = [reg EXCEPT !.slot = s]
      BY <1>3, <2>2 DEF Waitfg
    <3>2. reg.pid \in 1 .. MaxForks
      BY <1>1, <2>2, RegTypes, ShellAssumption DEF getjobpid
    <3>3. s \in Slots /\ jobs[s].pid = reg.pid
      BY <2>2, <3>2, GetJobPid
    <3> HIDE DEF s
    <3>4. reg' \in Registers /\ reg'.slot = s
      BY <1>1, <3>1, <3>3, MAXJOBSAssumption DEF Registers, Slots
    <3>5. SlotPtr' /\ \A t \in Slots : ~Continuing(t)'
      BY <3>1, <3>3, <3>4 DEF SlotPtr, Continuing
    <3>6. Foreground'
      <4>1. \A t \in Slots : jobs[t].state = "FG" /\ jobs[t].pid # 0 => t = s
        BY <2>1, <3>3 DEF Inv, Foreground, Tracks
      <4> QED BY <1>2, <3>1, <3>4, <4>1 DEF Foreground, ForegroundPC, shell
    <3> QED BY <1>1, <1>2, <2>1, <3>1, <3>4, <3>5, <3>6, QuietStep DEF MainPC
  <2>3. CASE ~(s # 0 /\ jobs[s].state = "FG")
    <3>1. pc' = reg.ret /\ reg' = reg /\ reg.ret \in {"unblock", "prompt"}
      BY <1>1, <1>3, <2>3, RegTypes DEF Waitfg
    <3>2. \A t \in Slots : ~(jobs[t].state = "FG" /\ jobs[t].pid # 0)
      <4> SUFFICES ASSUME NEW t \in Slots, jobs[t].state = "FG", jobs[t].pid # 0 PROVE FALSE
        OBVIOUS
      <4>1. jobs[t].pid = reg.pid /\ jobs[t].pid \in 1 .. MaxForks
        BY <2>1, SlotFacts DEF Inv, Foreground, Procs
      <4>2. s = t
        BY <4>1, GetJobPid
      <4> QED BY <2>3, <4>2, MAXJOBSAssumption DEF Slots
    <3> HIDE DEF s
    <3>3. Foreground'
      BY <1>2, <3>2 DEF Foreground, shell
    <3>4. SlotPtr' /\ \A t \in Slots : ~Continuing(t)'
      BY <3>1 DEF SlotPtr, Continuing
    <3> QED BY <1>1, <1>2, <2>1, <3>1, <3>3, <3>4, QuietStep DEF MainPC
  <2> QED BY <2>2, <2>3
<1>4. CASE Sigsuspend
  <2>1. /\ pc = "suspend" /\ pc' = "suspended" /\ mask' = {}
        /\ reg' = [reg EXCEPT !.old = mask]
    BY <1>4 DEF Sigsuspend, MainAt
  <2>2. reg' \in Registers /\ reg'.slot = reg.slot
    BY <1>1, <2>1 DEF Registers
  <2>3. SlotPtr' /\ \A t \in Slots : ~Continuing(t)'
    BY <2>1, <2>2 DEF Inv, SlotPtr, Continuing
  <2>4. Foreground'
    BY <1>2, <2>1, <2>2 DEF Inv, Foreground, ForegroundPC, shell
  <2> QED BY <1>1, <1>2, <2>1, <2>2, <2>3, <2>4, QuietStep DEF MainPC
<1>5. CASE Woken
  <2>1. /\ pc = "woken" /\ reg' = reg /\ mask' = mask /\ reg.slot \in Slots
        /\ pc' = IF jobs[reg.slot].state = "FG" THEN "suspend" ELSE reg.ret
        /\ reg.ret \in {"unblock", "prompt"}
    BY <1>1, <1>5, RegTypes DEF Woken, MainAt, Inv, SlotPtr
  <2>2. SlotPtr' /\ \A t \in Slots : ~Continuing(t)'
    BY <2>1 DEF SlotPtr, Continuing
  <2>3. Foreground'
    BY <1>2, <2>1 DEF Inv, Foreground, ForegroundPC, shell
  <2> QED BY <1>1, <1>2, <2>1, <2>2, <2>3, QuietStep DEF MainPC
<1> QED BY <1>3, <1>4, <1>5

(* bg and fg read the pid of their slot. *)
LEMMA LoadSteps ==
    ASSUME Inv, FgCont \/ FgWait \/ BgCont
    PROVE  Inv'
<1>1. /\ stack = << >> /\ UNCHANGED <<shell, mask, stack, pending, world>>
      /\ pc \in {"fg_cont", "fg_wait", "bg_cont"}
      /\ pc' = CASE pc = "fg_cont" -> "fg_kill" [] pc = "fg_wait" -> "waitfg" [] OTHER -> "bg_kill"
      /\ reg' = [reg EXCEPT !.pid = jobs[reg.slot].pid]
  BY DEF FgCont, FgWait, BgCont, LoadPid, MainAt
<1>2. reg.slot \in Slots /\ jobs[reg.slot].pid \in 0 .. MaxForks
  BY <1>1, SlotFacts DEF Inv, SlotPtr, JobType
<1>3. reg' \in Registers /\ reg'.pid = jobs[reg.slot].pid /\ reg'.slot = reg.slot
  BY <1>1, <1>2 DEF Inv, Types, Registers
<1>4. Types' /\ ProcKept
  BY <1>1, <1>3 DEF Inv, Types, MainPC, ProcKept, shell, world
<1>5. SlotPtr' /\ LoadedPid'
  BY <1>1, <1>2, <1>3 DEF SlotPtr, LoadedPid, shell
<1>6. Foreground'
  <2>1. CASE pc = "bg_cont"
    BY <1>1, <2>1, NobodyInForeground DEF ForegroundPC, shell
  <2>2. CASE pc # "bg_cont"
    BY <1>1, <1>3, <2>2 DEF Inv, Foreground, ForegroundPC, shell
  <2> QED BY <2>1, <2>2
<1>7. StoppedHasGroup'
  BY <1>1, <1>3 DEF Inv, StoppedHasGroup, Continuing, shell, world
<1> QED BY <1>1, <1>4, <1>5, <1>6, <1>7, MainStep DEF shell, world

(* What bg and fg know of the process they kill.                           *)
LEMMA MainKills ==
    ASSUME Inv, stack = << >>, pc \in {"fg_kill", "bg_kill"}, reg.pid # 0
    PROVE  /\ reg.pid \in Procs
           /\ \/ /\ jobs[reg.slot].pid = reg.pid /\ proc[reg.pid] # "reaped"
                 /\ pc = "fg_kill" => GroupExists(reg.pid)
              \/ ReapedSinceRead
<1>1. reg.slot \in Slots
  BY DEF Inv, SlotPtr
<1>2. CASE jobs[reg.slot].pid = reg.pid
  <2>1. reg.pid \in Procs
    BY <1>1, <1>2, SlotFacts
  <2>2. reg.pid \in Known /\ \A p : ~ReapedBy(p)
    BY <1>1, <1>2 DEF Inv, Tracks, ReapedBy
  <2>3. proc[reg.pid] # "reaped"
    BY <2>2, KnownIs
  <2>4. pc = "fg_kill" => proc[reg.pid] \notin {"none", "forked"}
    BY <1>1, <1>2 DEF Inv, StoppedHasGroup, Continuing
  <2> QED BY <1>2, <2>1, <2>3, <2>4 DEF GroupExists
<1>3. CASE jobs[reg.slot].pid # reg.pid
  BY <1>3 DEF Inv, LoadedPid
<1> QED BY <1>2, <1>3

LEMMA KillSteps ==
    ASSUME Inv, KillChild \/ FgKill \/ BgKill
    PROVE  Inv'
<1>1. /\ reg \in Registers /\ mask \subseteq Signals /\ pc \in MainPC /\ WorldTypes
      /\ stack \in Seq(Frame)
  BY DEF Inv, Types, WorldTypes
<1>2. /\ stack = << >> /\ UNCHANGED <<shell, mask, stack, forks, keys>>
      /\ pc \in {"kill_child", "fg_kill", "bg_kill"}
  BY DEF KillChild, FgKill, BgKill, MainAt
<1>3. CASE KillChild
  <2>1. /\ reg' = reg /\ pc = "kill_child" /\ pc' \in {"waitfg", "unblock"}
        /\ Send(reg.pid, "KILL")
    BY <1>3 DEF KillChild, MainAt, AfterAdd
  <2>2. WorldTypes' /\ proc' = proc
    BY <1>1, <2>1, RegTypes DEF Send, WorldTypes
  <2>3. Types' /\ ProcKept
    BY <1>1, <1>2, <2>1, <2>2 DEF Inv, Types, WorldTypes, MainPC, ProcKept, shell
  <2>4. Foreground'
    BY <1>2, <2>1, NobodyInForeground DEF ForegroundPC, shell
  <2>5. SlotPtr' /\ LoadedPid' /\ StoppedHasGroup'
    BY <1>2, <2>1, <2>2 DEF Inv, SlotPtr, LoadedPid, StoppedHasGroup, Continuing, shell
  <2> QED BY <1>2, <2>1, <2>3, <2>4, <2>5, MainStep DEF shell
<1>4. CASE FgKill \/ BgKill
  <2>1. /\ pc \in {"fg_kill", "bg_kill"}
        /\ \/ SendOrSelf(reg.pid, "CONT") /\ pc = "fg_kill" /\ pc' = "fg_wait" /\ reg' = reg
           \/ SendOrSelf(reg.pid, "CONT") /\ pc = "bg_kill" /\ pc' = "prompt" /\ reg' = NoLocals
           \/ pc' = "aborted" /\ UNCHANGED <<reg, sigs, proc, pending>>
    BY <1>4 DEF FgKill, BgKill, MainAt
  <2>2. reg.slot \in Slots /\ (reg.pid # 0 => reg.pid \in Procs)
    BY <1>2, <2>1, MainKills DEF Inv, SlotPtr
  <2>3. WorldTypes' /\ ProcKept
    <3>1. CASE UNCHANGED <<sigs, proc, pending>>
      BY <1>1, <3>1 DEF WorldTypes, ProcKept
    <3>2. CASE ~UNCHANGED <<sigs, proc, pending>>
      <4>1. reg.pid \in Procs /\ Send(reg.pid, "CONT")
        BY <2>1, <2>2, <3>2 DEF SendOrSelf
      <4> QED BY <1>1, <4>1, SendKeeps
    <3> QED BY <3>1, <3>2
  <2>4. reg' \in Registers /\ pc' \in {"fg_wait", "prompt", "aborted"}
    BY <1>1, <2>1, NoLocalsTyped
  <2>5. Types'
    BY <1>1, <1>2, <2>3, <2>4 DEF Inv, Types, WorldTypes, MainPC, shell
  <2>6. SlotPtr' /\ LoadedPid'
    BY <2>1, <2>2 DEF SlotPtr, LoadedPid
  <2>7. Foreground'
    <3>1. CASE pc = "bg_kill"
      BY <1>2, <3>1, NobodyInForeground DEF ForegroundPC, shell
    <3>2. CASE pc = "fg_kill"
      BY <1>2, <2>1, <3>2 DEF Inv, Foreground, ForegroundPC, shell
    <3> QED BY <2>1, <3>1, <3>2
  <2>8. StoppedHasGroup'
    <3>1. \A s \in Slots : jobs[s].pid # 0 => jobs[s].pid \in Procs
      BY SlotFacts
    <3> QED BY <1>2, <2>3, <2>4, <3>1 DEF Inv, StoppedHasGroup, Continuing, ProcKept, shell
  <2> QED BY <1>2, <2>1, <2>3, <2>4, <2>5, <2>6, <2>7, <2>8, MainStep DEF shell
<1> QED BY <1>3, <1>4

(* setstate *)
LEMMA SetStateIs ==
    ASSUME jobs \in [Slots -> JobType], NEW t \in Slots, NEW st \in States,
           jobs' = setstate(jobs, t, st)
    PROVE  /\ jobs' \in [Slots -> JobType] /\ jobs'[t].state = st
           /\ \A s \in Slots : /\ jobs'[s].pid = jobs[s].pid /\ jobs'[s].jid = jobs[s].jid
                               /\ s # t => jobs'[s].state = jobs[s].state
<1>1. jobs' = [jobs EXCEPT ![t].state = st]
  BY DEF setstate
<1> QED BY <1>1 DEF JobType

LEMMA MarkSteps ==
    ASSUME Inv, FgSet \/ BgSet
    PROVE  Inv'
<1>1. /\ reg \in Registers /\ mask \subseteq Signals /\ jobs \in [Slots -> JobType]
  BY DEF Inv, Types
<1>2. /\ stack = << >> /\ UNCHANGED <<nextjid, rejected, mask, stack, pending, world>>
      /\ pc \in {"fg_set", "bg_set"} /\ reg.slot \in Slots
  BY DEF FgSet, BgSet, MainAt, Inv, SlotPtr
<1>3. ProcKept
  BY <1>2 DEF ProcKept, world
<1>4. \A s \in Slots : jobs[s].state = "FG" => jobs[s].pid = 0
  BY <1>2 DEF Inv, Foreground, ForegroundPC
<1>5. CASE FgSet
  <2>1. /\ pc = "fg_set" /\ pc' = IF reg.st = "ST" THEN "fg_cont" ELSE "fg_wait"
        /\ jobs' = setstate(jobs, reg.slot, "FG") /\ reg' = reg
    BY <1>5 DEF FgSet, MainAt
  <2>4. /\ jobs' \in [Slots -> JobType] /\ jobs'[reg.slot].state = "FG"
        /\ \A s \in Slots : /\ jobs'[s].pid = jobs[s].pid /\ jobs'[s].jid = jobs[s].jid
                            /\ s # reg.slot => jobs'[s].state = jobs[s].state
    BY <1>1, <1>2, <2>1, SetStateIs DEF States
  <2>5. Types'
    BY <1>2, <2>1, <2>4 DEF Inv, Types, MainPC, world
  <2>6. SlotPtr' /\ LoadedPid'
    BY <1>2, <2>1 DEF SlotPtr, LoadedPid
  <2>7. Foreground'
    BY <1>2, <1>4, <2>1, <2>4 DEF Foreground, ForegroundPC
  <2>8. StoppedHasGroup'
    <3> SUFFICES ASSUME NEW s \in Slots, jobs'[s].pid # 0,
                        jobs'[s].state = "ST" \/ Continuing(s)'
                 PROVE  proc'[jobs'[s].pid] \notin {"none", "forked"}
      BY DEF StoppedHasGroup
    <3>1. jobs[s].pid # 0 /\ (jobs[s].state = "ST" \/ Continuing(s))
      BY <2>1, <2>4 DEF Continuing
    <3> QED BY <1>2, <2>4, <3>1 DEF Inv, StoppedHasGroup, world
  <2> QED BY <1>2, <1>3, <2>1, <2>4, <2>5, <2>6, <2>7, <2>8, MainStep DEF world
<1>6. CASE BgSet
  <2>1. /\ pc = "bg_set" /\ pc' = "bg_cont" /\ reg' = reg
        /\ jobs' = setstate(jobs, reg.slot, "BG")
    BY <1>6 DEF BgSet, MainAt
  <2>2. /\ jobs' \in [Slots -> JobType] /\ jobs'[reg.slot].state = "BG"
        /\ \A s \in Slots : /\ jobs'[s].pid = jobs[s].pid /\ jobs'[s].jid = jobs[s].jid
                            /\ s # reg.slot => jobs'[s].state = jobs[s].state
    BY <1>1, <1>2, <2>1, SetStateIs DEF States
  <2>3. Types'
    BY <1>2, <2>1, <2>2 DEF Inv, Types, MainPC, world
  <2>4. SlotPtr' /\ LoadedPid' /\ Foreground'
    BY <1>2, <1>4, <2>1, <2>2 DEF SlotPtr, LoadedPid, Foreground
  <2>5. StoppedHasGroup'
    BY <1>2, <2>1, <2>2 DEF Inv, StoppedHasGroup, Continuing, world
  <2> QED BY <1>2, <1>3, <2>1, <2>2, <2>3, <2>4, <2>5, MainStep DEF world
<1> QED BY <1>5, <1>6

LEMMA ForkStep ==
    ASSUME Inv, Fork
    PROVE  Inv'
<1>1. /\ pc = "fork" /\ pc' = "addjob" /\ stack = << >> /\ stack' = << >>
      /\ UNCHANGED <<jobs, nextjid, rejected, mask, pending, sigs, keys>>
      /\ forks' = forks + 1 /\ reg' = [reg EXCEPT !.pid = forks + 1]
      /\ proc' = [proc EXCEPT ![forks + 1] = "forked"]
  BY DEF Fork, MainAt, shell
<1>2. forks \in Nat /\ forks' \in Procs /\ forks' \in 0 .. MaxForks /\ forks' >= 1
  BY <1>1, SlotFacts DEF Inv, Newest, Procs
<1>3. reg' \in Registers /\ reg'.pid = forks' /\ reg'.st = reg.st
  BY <1>1, <1>2 DEF Inv, Types, Registers
<1>4. /\ proc' \in [Procs -> ProcStates] /\ proc'[forks'] = "forked"
      /\ \A q \in 1 .. forks : proc'[q] = proc[q]
  BY <1>1, <1>2, SlotFacts DEF Inv, Types, ProcStates
<1>5. Types'
  BY <1>1, <1>2, <1>3, <1>4 DEF Inv, Types, MainPC
<1>6. \A p : p \in Known' <=> p \in Known
  <2>1. \A p : ~ReapedBy(p) /\ ~ReapedBy(p)'
    BY <1>1 DEF ReapedBy
  <2>2. \A p : p \in 1 .. forks' /\ p # forks' <=> p \in 1 .. forks
    BY <1>1, <1>2
  <2> QED BY <1>1, <1>3, <1>4, <2>1, <2>2, KnownIs
<1>7. Tracks'
  BY <1>1, <1>6 DEF Inv, Tracks
<1>8. Nested' /\ FramesCurrent' /\ ChldBlocked'
  BY <1>1 DEF Inv, Nested, FramesCurrent, ChldBlocked
<1>9. Newest'
  <2>1. rejected \subseteq 1 .. forks
    BY DEF Inv, Newest
  <2>2. rejected' \subseteq {p \in 1 .. forks' : pc' = "addjob" => p # forks'}
    BY <1>1, <1>2, <2>1
  <2> QED BY <1>1, <1>2, <1>3, <1>4, <2>2 DEF Inv, Newest
<1>10. Jids'
  BY <1>1, <1>2, SlotFacts DEF Inv, Jids, Types
<1>11. SlotPtr' /\ LoadedPid' /\ Foreground'
  BY <1>1, NobodyInForeground DEF SlotPtr, LoadedPid, ForegroundPC
<1>12. StoppedHasGroup'
  BY <1>1, <1>4, SlotFacts DEF Inv, StoppedHasGroup, Continuing
<1> QED BY <1>5, <1>7, <1>8, <1>9, <1>10, <1>11, <1>12 DEF Inv

LEMMA AddJobStep ==
    ASSUME Inv, AddJob
    PROVE  Inv'
<1> DEFINE f == FreeSlot(jobs)
           new == [pid |-> forks, jid |-> nextjid, state |-> reg.st]
<1>1. /\ pc = "addjob" /\ stack = << >> /\ stack' = << >>
      /\ UNCHANGED <<reg, mask, pending, proc, sigs, forks, keys>>
  BY DEF AddJob, MainAt, world
<1>2. /\ reg.pid = forks /\ forks >= 1 /\ forks \notin rejected /\ forks \in Procs
      /\ proc[forks] \notin {"stopped", "reaped"} /\ forks \in Nat /\ MaxForks \in Nat
      /\ forks <= MaxForks /\ rejected \subseteq 1 .. forks
  BY <1>1, SlotFacts DEF Inv, Newest, Procs
<1>3. \A p : ~ReapedBy(p) /\ ~ReapedBy(p)'
  BY <1>1 DEF ReapedBy
<1>4. Nested' /\ FramesCurrent'
  BY <1>1 DEF Nested, FramesCurrent
<1>5. \A s \in Slots : jobs[s].state = "FG" => jobs[s].pid = 0
  BY <1>1 DEF Inv, Foreground, ForegroundPC
<1>6. forks \notin Known /\ \A s \in Slots : jobs[s].pid # forks
  BY <1>1, <1>2, KnownIs DEF Inv, Tracks
<1>7. CASE f = 0
  <2>1. /\ pc' = "kill_child" /\ rejected' = rejected \cup {forks}
        /\ jobs' = jobs /\ nextjid' = nextjid
    BY <1>2, <1>7 DEF AddJob
  <2>2. Types'
    BY <1>1, <2>1 DEF Inv, Types, MainPC
  <2>3. \A p : p \in Known' <=> p \in Known
    BY <1>1, <1>2, <1>3, <2>1, KnownIs
  <2>4. Tracks'
    BY <2>1, <2>3 DEF Inv, Tracks
  <2>5. ChldBlocked' /\ Newest'
    <3>1. rejected' \subseteq 1 .. forks
      BY <1>2, <2>1
    <3> QED BY <1>1, <2>1, <3>1 DEF ChldBlocked, Newest
  <2>8. Jids'
    BY <1>1, <2>1 DEF Inv, Jids
  <2>6. SlotPtr' /\ LoadedPid' /\ Foreground'
    BY <1>1, <2>1, NobodyInForeground DEF SlotPtr, LoadedPid, ForegroundPC
  <2>7. StoppedHasGroup'
    BY <1>1, <2>1 DEF Inv, StoppedHasGroup, Continuing
  <2> QED BY <1>4, <2>2, <2>4, <2>5, <2>6, <2>7, <2>8 DEF Inv
<1>8. CASE f # 0
  <2>1. f \in Slots /\ jobs[f].pid = 0
    BY <1>8, FreeSlotIsFree
  <2>2. /\ pc' \in {"waitfg", "unblock"} /\ (pc' = "waitfg" <=> reg.st = "FG")
        /\ jobs' = [jobs EXCEPT ![f] = new] /\ nextjid' = NextJid(nextjid)
        /\ rejected' = rejected
    BY <1>2, <1>8 DEF AddJob, addjob, AfterAdd
  <2>3. /\ new \in JobType /\ new.pid = forks /\ new.jid = nextjid /\ new.state = reg.st
        /\ nextjid \in Nat /\ nextjid <= forks
    BY <1>1, <1>2, RegTypes DEF Inv, Types, Jids, JobType
  <2> HIDE DEF f, new
  <2>4. /\ jobs' \in [Slots -> JobType]
        /\ \A s \in Slots : jobs'[s] = IF s = f THEN new ELSE jobs[s]
    BY <2>1, <2>2, <2>3 DEF Inv, Types
  <2>5. nextjid' \in 1 .. MaxForks + 1 /\ nextjid' <= forks + 1
    BY <1>2, <2>2, <2>3, MAXJOBSAssumption DEF NextJid, Inv, Types
  <2>6. Types'
    BY <1>1, <2>2, <2>4, <2>5 DEF Inv, Types, MainPC
  <2>7. \A p : p \in Known' <=> p \in Known \/ p = forks
    BY <1>1, <1>2, <1>3, <2>2, KnownIs
  <2>8. Tracks'
    <3>1. \A s \in Slots : jobs'[s].pid = IF s = f THEN forks ELSE jobs[s].pid
      BY <2>3, <2>4
    <3>2. \A s \in Slots : jobs'[s].pid # 0 => jobs'[s].pid \in Known'
      BY <2>7, <3>1 DEF Inv, Tracks
    <3>3. \A p \in Known' : \E s \in Slots : jobs'[s].pid = p
      <4>1. \A p \in Known : p # 0
        BY <1>2, KnownIs
      <4>2. \A p \in Known : \E s \in Slots : jobs[s].pid = p /\ s # f
        BY <2>1, <4>1 DEF Inv, Tracks
      <4> QED BY <2>1, <2>7, <3>1, <4>2
    <3>4. \A s, t \in Slots : jobs'[s].pid = jobs'[t].pid /\ jobs'[s].pid # 0 => s = t
      BY <1>6, <3>1 DEF Inv, Tracks
    <3> QED BY <3>2, <3>3, <3>4 DEF Tracks
  <2>9. ChldBlocked' /\ Newest'
    BY <1>1, <1>2, <2>2 DEF ChldBlocked, Newest
  <2>10. Jids'
    BY <1>1, <1>2, <2>2, <2>3, <2>4, <2>5, SlotFacts DEF Inv, Jids
  <2>11. SlotPtr' /\ LoadedPid'
    BY <2>2 DEF SlotPtr, LoadedPid
  <2>12. Foreground'
    BY <1>1, <1>2, <1>5, <2>2, <2>3, <2>4 DEF Foreground, ForegroundPC
  <2>13. StoppedHasGroup'
    <3>1. reg.st # "ST"
      BY <1>1 DEF Inv, Newest, parseline
    <3> QED BY <1>1, <2>2, <2>3, <2>4, <3>1 DEF Inv, StoppedHasGroup, Continuing
  <2> QED BY <1>4, <2>6, <2>8, <2>9, <2>10, <2>11, <2>12, <2>13 DEF Inv
<1> QED BY <1>7, <1>8

----------------------------------------------------------------------------
(* The handlers, and the steps outside the shell *)

(* What does not depend on the handlers that are running. *)
LEMMA RestKept ==
    ASSUME Inv, ProcKept, UNCHANGED <<jobs, nextjid, rejected, reg, forks>>,
           \/ pc' = pc
           \/ pc = "suspended" /\ pc' = "woken"
           \/ pc' = "aborted"
    PROVE  Newest' /\ Jids' /\ SlotPtr' /\ LoadedPid' /\ Foreground' /\ StoppedHasGroup'
<1>1. Newest'
  <2>1. pc' = "addjob" => forks \in Procs
    BY SlotFacts DEF Inv, Newest
  <2> QED BY <2>1 DEF Inv, Newest, ProcKept
<1>2. Jids' /\ SlotPtr' /\ LoadedPid'
  BY DEF Inv, Jids, SlotPtr, LoadedPid, ReapedSinceRead, ProcKept
<1>3. Foreground'
  BY DEF Inv, Foreground, ForegroundPC
<1>4. StoppedHasGroup'
  BY SlotFacts DEF Inv, StoppedHasGroup, Continuing, ProcKept
<1> QED BY <1>1, <1>2, <1>3, <1>4

(* Known children stay known as long as the same handlers are reaping.     *)
LEMMA TracksKept ==
    ASSUME Inv, ProcKept, UNCHANGED <<jobs, rejected, reg, forks>>,
           pc' = "addjob" <=> pc = "addjob", \A p : ReapedBy(p)' <=> ReapedBy(p)
    PROVE  Tracks'
<1>1. \A p \in 1 .. forks : proc'[p] = "reaped" <=> proc[p] = "reaped"
  BY SlotFacts DEF ProcKept
<1>2. \A p : p \in Known' <=> p \in Known
  BY <1>1, KnownIs
<1> QED BY <1>2 DEF Inv, Tracks

(* A step of a child, of the user or of another program. *)
LEMMA WorldStep ==
    ASSUME Inv, ProcKept, WorldTypes', keys' \in 0 .. MaxKeys, UNCHANGED <<shell, cpu, forks>>
    PROVE  Inv'
<1>1. Types'
  BY DEF Inv, Types, WorldTypes, shell, cpu
<1>2. Newest' /\ Jids' /\ SlotPtr' /\ LoadedPid' /\ Foreground' /\ StoppedHasGroup'
  BY RestKept DEF shell, cpu
<1>3. Nested' /\ ChldBlocked'
  BY DEF Inv, Nested, ChldBlocked, cpu
<1>4. FramesCurrent'
  BY DEF Inv, FramesCurrent, ProcKept, cpu
<1>5. Tracks'
  BY TracksKept DEF ReapedBy, shell, cpu
<1> QED BY <1>1, <1>2, <1>3, <1>4, <1>5 DEF Inv

LEMMA KeyboardStep ==
    ASSUME Inv, NEW s \in {"INT", "TSTP"}, Keyboard(s)
    PROVE  Inv'
<1>1. keys' \in 0 .. MaxKeys /\ pending' \subseteq Signals
  BY ShellAssumption DEF Keyboard, Inv, Types, Signals
<1>2. UNCHANGED <<shell, cpu, proc, sigs, forks>>
  BY DEF Keyboard
<1>3. WorldTypes' /\ ProcKept
  BY <1>1, <1>2 DEF Inv, Types, WorldTypes, ProcKept
<1> QED BY <1>1, <1>2, <1>3, WorldStep

LEMMA ExternalStep ==
    ASSUME Inv, NEW p \in Procs, NEW s \in ExtSignals, External(p, s)
    PROVE  Inv'
<1>1. /\ keys' \in 0 .. MaxKeys /\ Send(p, s) /\ UNCHANGED <<shell, cpu, forks>>
      /\ s \in {"INT", "TSTP", "KILL", "CONT"} /\ WorldTypes
  BY ShellAssumption DEF External, Inv, Types, WorldTypes
<1> QED BY <1>1, SendKeeps, WorldStep

LEMMA ChildStep ==
    ASSUME Inv, NEW p \in Procs,
           ChildSetpgid(p) \/ ChildExec(p) \/ ChildChange(p) \/ ChildSignal(p)
    PROVE  Inv'
<1>1. WorldTypes /\ keys \in 0 .. MaxKeys
  BY DEF Inv, Types, WorldTypes
<1>2. CASE ChildSetpgid(p)
  <2>1. /\ proc[p] = "forked" /\ proc' = [proc EXCEPT ![p] = "pgset"]
        /\ UNCHANGED <<shell, cpu, pending, sigs, forks, keys>>
    BY <1>2 DEF ChildSetpgid
  <2>2. WorldTypes' /\ ProcKept
    BY <1>1, <2>1 DEF WorldTypes, ProcStates, ProcKept
  <2> QED BY <1>1, <2>1, <2>2, WorldStep
<1>3. CASE ChildExec(p)
  <2>1. proc[p] = "pgset" /\ UNCHANGED <<shell, cpu, sigs, forks, keys>>
    BY <1>3 DEF ChildExec
  <2>2. CASE proc' = [proc EXCEPT ![p] = "running"] /\ UNCHANGED pending
    <3>1. WorldTypes' /\ ProcKept
      BY <1>1, <2>1, <2>2 DEF WorldTypes, ProcStates, ProcKept
    <3> QED BY <1>1, <2>1, <3>1, WorldStep
  <2>3. CASE Becomes(p, "zombie")
    <3>1. WorldTypes' /\ ProcKept
      BY <1>1, <2>1, <2>3, BecomesKeeps DEF WorldTypes
    <3> QED BY <1>1, <2>1, <3>1, WorldStep
  <2> QED BY <1>3, <2>2, <2>3 DEF ChildExec
<1>4. CASE ChildChange(p)
  <2>1. proc[p] = "running" /\ UNCHANGED <<shell, cpu, sigs, forks, keys>>
    BY <1>4 DEF ChildChange
  <2>2. PICK l \in {"zombie", "stopping"} : Becomes(p, l)
    BY <1>4 DEF ChildChange
  <2>3. WorldTypes' /\ ProcKept
    BY <1>1, <2>1, <2>2, BecomesKeeps DEF WorldTypes
  <2> QED BY <1>1, <2>1, <2>3, WorldStep
<1>5. CASE ChildSignal(p)
  <2>1. PICK s \in sigs[p] :
          /\ \/ s = "KILL" /\ Live(p) /\ Becomes(p, "zombie")
             \/ s \in {"INT", "TSTP"} /\ proc[p] \in {"forked", "pgset"} /\ UNCHANGED <<proc, pending>>
             \/ s = "INT" /\ proc[p] = "running" /\ Becomes(p, "zombie")
             \/ s = "TSTP" /\ proc[p] = "running" /\ Becomes(p, "stopping")
          /\ sigs' = [sigs EXCEPT ![p] = @ \ {s}]
          /\ UNCHANGED <<shell, cpu, forks, keys>>
    BY <1>5 DEF ChildSignal
  <2>2. sigs' \in [Procs -> SUBSET {"INT", "TSTP", "KILL"}]
    BY <1>1, <2>1 DEF WorldTypes
  <2>3. proc' \in [Procs -> ProcStates] /\ pending' \subseteq Signals /\ ProcKept
    <3>1. CASE UNCHANGED <<proc, pending>>
      BY <1>1, <3>1 DEF WorldTypes, ProcKept
    <3>2. CASE ~UNCHANGED <<proc, pending>>
      <4>1. PICK l \in {"zombie", "stopping"} : Becomes(p, l)
        BY <2>1, <3>2
      <4>2. proc[p] \notin {"none", "zombie", "reaped"}
        BY <2>1, <3>2 DEF Live
      <4> QED BY <1>1, <4>1, <4>2, BecomesKeeps
    <3> QED BY <3>1, <3>2
  <2>4. WorldTypes'
    BY <2>2, <2>3 DEF WorldTypes
  <2> QED BY <1>1, <2>1, <2>3, <2>4, WorldStep
<1> QED BY <1>2, <1>3, <1>4, <1>5

(* A signal interrupts the main loop or a handler. *)
LEMMA DeliverStep ==
    ASSUME Inv, NEW s \in Signals, Deliver(s)
    PROVE  Inv'
<1> DEFINE sleeping == pc = "suspended" /\ stack = << >>
           f == [sig |-> s, at |-> "start", pid |-> 0, stopped |-> FALSE,
                 saved |-> IF sleeping THEN reg.old ELSE mask]
<1>1. /\ s \notin mask /\ stack' = Append(stack, f)
      /\ pc' = IF sleeping THEN "woken" ELSE pc
      /\ mask' = mask \cup {s} /\ pending' = pending \ {s}
      /\ UNCHANGED <<jobs, nextjid, rejected, reg, proc, sigs, forks, keys>>
  BY DEF Deliver, shell, world
<1>2. /\ mask \subseteq Signals /\ reg.old \subseteq Signals /\ stack \in Seq(Frame)
  BY RegTypes DEF Inv, Types
<1>3. /\ f \in Frame /\ f.sig = s /\ f.at = "start"
      /\ f.saved = IF sleeping THEN reg.old ELSE mask
  <2>1. 0 \in 0 .. MaxForks
    BY ShellAssumption
  <2> QED BY <1>2, <2>1 DEF Frame
<1> HIDE DEF f
<1>4. /\ stack' \in Seq(Frame) /\ Len(stack) \in Nat /\ Len(stack') = Len(stack) + 1
      /\ stack'[Len(stack) + 1] = f
      /\ \A i \in 1 .. Len(stack) : stack'[i] = stack[i]
  BY <1>1, <1>2, <1>3, Pushed
<1>5. ProcKept
  BY <1>1 DEF ProcKept
<1>6. Types'
  BY <1>1, <1>2, <1>4 DEF Inv, Types, MainPC
<1>7. Newest' /\ Jids' /\ SlotPtr' /\ LoadedPid' /\ Foreground' /\ StoppedHasGroup'
  BY <1>1, <1>5, RestKept
<1>8. \A j \in 1 .. Len(stack') : j \in 1 .. Len(stack) \/ j = Len(stack) + 1
  BY <1>4
<1>9. Nested'
  <2> SUFFICES ASSUME NEW j \in 1 .. Len(stack')
               PROVE  /\ stack'[j].sig \in mask'
                      /\ \A i \in 1 .. j - 1 : /\ stack'[i].sig \in stack'[j].saved
                                               /\ stack'[i].sig # stack'[j].sig
    BY DEF Nested
  <2>1. CASE j \in 1 .. Len(stack)
    BY <1>1, <1>4, <2>1 DEF Inv, Nested
  <2>2. CASE j = Len(stack) + 1
    <3>1. stack'[j] = f /\ \A i \in 1 .. j - 1 : i \in 1 .. Len(stack) /\ stack'[i] = stack[i]
      BY <1>4, <2>2
    <3>2. \A i \in 1 .. Len(stack) : stack[i].sig \in mask /\ ~sleeping
      BY <1>2 DEF Inv, Nested
    <3> QED BY <1>1, <1>3, <3>1, <3>2
  <2> QED BY <1>8, <2>1, <2>2
<1>10. FramesCurrent'
  BY <1>1, <1>3, <1>4, <1>8 DEF Inv, FramesCurrent, ForegroundPC
<1>11. ChldBlocked'
  BY <1>1, <1>3, <1>4, <1>8 DEF Inv, ChldBlocked
<1>12. Tracks'
  <2>1. \A p : ReapedBy(p)' <=> ReapedBy(p)
    BY <1>3, <1>4, <1>8 DEF ReapedBy
  <2> QED BY <1>1, <1>5, <2>1, TracksKept
<1> QED BY <1>6, <1>7, <1>9, <1>10, <1>11, <1>12 DEF Inv

(* A handler returns: the mask it restores still blocks the signals of the *)
(* handlers below it.                                                      *)
LEMMA ReturnKeeps ==
    ASSUME Inv, stack # << >>, Return, pc' = pc, ProcKept
    PROVE  /\ stack' \in Seq(Frame) /\ mask' \subseteq Signals
           /\ Nested' /\ FramesCurrent' /\ ChldBlocked'
           /\ \A p : ReapedBy(p)' => ReapedBy(p)
           /\ \A p : ReapedBy(p) => \/ ReapedBy(p)'
                                    \/ Top.at = "update" /\ ~Top.stopped /\ Top.pid = p
<1>1. stack \in Seq(Frame) /\ stack' = Below /\ mask' = Top.saved
  BY DEF Inv, Types, Return
<1>2. /\ stack' \in Seq(Frame) /\ Len(stack) \in Nat \ {0}
      /\ Len(stack') = Len(stack) - 1
      /\ Top \in Frame
      /\ \A i \in 1 .. Len(stack') : stack'[i] = stack[i]
  BY <1>1, Popped
<1>3. /\ \A i \in 1 .. Len(stack') : i \in 1 .. Len(stack) /\ i \in 1 .. Len(stack) - 1
      /\ \A i \in 1 .. Len(stack) : i \in 1 .. Len(stack') \/ i = Len(stack)
      /\ Len(stack) \in 1 .. Len(stack) /\ stack[Len(stack)] = Top
  BY <1>2 DEF Top
<1>4. mask' \subseteq Signals
  BY <1>1, <1>2 DEF Frame
<1>5. Nested'
  <2> SUFFICES ASSUME NEW j \in 1 .. Len(stack')
               PROVE  /\ stack'[j].sig \in mask'
                      /\ \A i \in 1 .. j - 1 : /\ stack'[i].sig \in stack'[j].saved
                                               /\ stack'[i].sig # stack'[j].sig
    BY DEF Nested
  <2>1. stack[j].sig \in Top.saved
    BY <1>3 DEF Inv, Nested
  <2>2. \A i \in 1 .. j - 1 : i \in 1 .. Len(stack')
    BY <1>2
  <2> QED BY <1>1, <1>2, <1>3, <2>1, <2>2 DEF Inv, Nested
<1>6. FramesCurrent'
  BY <1>2, <1>3 DEF Inv, FramesCurrent, ProcKept
<1>7. ChldBlocked'
  BY <1>1, <1>2, <1>3 DEF Inv, ChldBlocked
<1>8. \A p : ReapedBy(p)' => ReapedBy(p)
  BY <1>2, <1>3 DEF ReapedBy
<1>9. \A p : ReapedBy(p) => \/ ReapedBy(p)'
                            \/ Top.at = "update" /\ ~Top.stopped /\ Top.pid = p
  BY <1>2, <1>3 DEF ReapedBy
<1> QED BY <1>2, <1>4, <1>5, <1>6, <1>7, <1>8, <1>9

(* A handler goes on: its frame is replaced by one of the same signal.     *)
LEMMA ContinueKeeps ==
    ASSUME Inv, stack # << >>, NEW f \in Frame, Continue(f), pc' = pc,
           f.sig = Top.sig, f.saved = Top.saved
    PROVE  /\ stack' \in Seq(Frame) /\ mask' = mask
           /\ Nested' /\ ChldBlocked'
           /\ Len(stack') = Len(stack) /\ Len(stack) \in 1 .. Len(stack)
           /\ stack[Len(stack)] = Top /\ stack'[Len(stack)] = f
           /\ \A i \in 1 .. Len(stack) : i # Len(stack) =>
                 stack'[i] = stack[i] /\ stack[i].sig # Top.sig
<1>1. stack \in Seq(Frame) /\ stack' = Append(Below, f) /\ mask' = mask
  BY DEF Inv, Types, Continue
<1>2. /\ stack' \in Seq(Frame) /\ Len(stack) \in Nat \ {0}
      /\ Len(stack') = Len(stack)
      /\ stack'[Len(stack)] = f
      /\ \A i \in 1 .. Len(stack) : i # Len(stack) => stack'[i] = stack[i]
  BY <1>1, Replaced
<1>3. Len(stack) \in 1 .. Len(stack) /\ stack[Len(stack)] = Top
  BY <1>2 DEF Top
<1>4. \A i \in 1 .. Len(stack) : /\ stack'[i].sig = stack[i].sig
                                 /\ stack'[i].saved = stack[i].saved
  BY <1>2, <1>3
<1>5. Nested'
  <2> SUFFICES ASSUME NEW j \in 1 .. Len(stack)
               PROVE  /\ stack'[j].sig \in mask'
                      /\ \A i \in 1 .. j - 1 : /\ stack'[i].sig \in stack'[j].saved
                                               /\ stack'[i].sig # stack'[j].sig
    BY <1>2 DEF Nested
  <2>1. \A i \in 1 .. j - 1 : i \in 1 .. Len(stack)
    BY <1>2
  <2> QED BY <1>1, <1>4, <2>1 DEF Inv, Nested
<1>6. ChldBlocked'
  BY <1>1, <1>2, <1>4 DEF Inv, ChldBlocked
<1>7. \A i \in 1 .. Len(stack) : i # Len(stack) => stack[i].sig # Top.sig
  <2>1. \A i \in 1 .. Len(stack) : i # Len(stack) => i \in 1 .. Len(stack) - 1
    BY <1>2
  <2> QED BY <1>3, <2>1 DEF Inv, Nested
<1> QED BY <1>1, <1>2, <1>3, <1>5, <1>6, <1>7

LEMMA KeyFgpidStep ==
    ASSUME Inv, KeyFgpid
    PROVE  Inv'
<1>1. /\ stack # << >> /\ Top.at = "start" /\ Top.sig \in {"INT", "TSTP"}
      /\ UNCHANGED <<jobs, nextjid, rejected, pc, reg, pending, proc, sigs, forks, keys>>
  BY DEF KeyFgpid, HandlerAt, shell, world
<1>2. ProcKept /\ stack \in Seq(Frame)
  BY <1>1 DEF Inv, Types, ProcKept
<1>3. Newest' /\ Jids' /\ SlotPtr' /\ LoadedPid' /\ Foreground' /\ StoppedHasGroup'
  BY <1>1, <1>2, RestKept
<1>4. CASE fgpid(jobs) = 0
  <2>1. Return
    BY <1>4 DEF KeyFgpid
  <2>2. /\ stack' \in Seq(Frame) /\ mask' \subseteq Signals
        /\ Nested' /\ FramesCurrent' /\ ChldBlocked'
        /\ \A p : ReapedBy(p)' <=> ReapedBy(p)
    BY <1>1, <1>2, <2>1, ReturnKeeps
  <2>3. Types'
    BY <1>1, <2>2 DEF Inv, Types
  <2>4. Tracks'
    BY <1>1, <1>2, <2>2, TracksKept
  <2> QED BY <1>3, <2>2, <2>3, <2>4 DEF Inv
<1>5. CASE fgpid(jobs) # 0
  <2> DEFINE p == fgpid(jobs)
             f == [Top EXCEPT !.at = "kill", !.pid = p]
  <2>1. Continue(f)
    BY <1>5 DEF KeyFgpid
  <2>2. p \in Procs /\ pc \in ForegroundPC
    <3> DEFINE t == First({s \in Slots : jobs[s].state = "FG"})
    <3>1. t # 0 /\ jobs[t].pid # 0 /\ p = jobs[t].pid
      BY <1>5 DEF fgpid
    <3>2. t \in {s \in Slots : jobs[s].state = "FG"}
      BY <3>1, FirstIsIn
    <3> QED BY <3>1, <3>2, SlotFacts DEF Inv, Foreground
  <2>3. Top \in Frame /\ p \in 0 .. MaxForks
    BY <1>1, <1>2, <2>2, BelowIs, ShellAssumption DEF Procs
  <2> HIDE DEF p
  <2>4. /\ f \in Frame /\ f.sig = Top.sig /\ f.saved = Top.saved
        /\ f.at = "kill" /\ f.pid = p
    BY <2>3 DEF Frame
  <2> HIDE DEF f
  <2>5. /\ stack' \in Seq(Frame) /\ mask' = mask
        /\ Nested' /\ ChldBlocked'
        /\ Len(stack') = Len(stack) /\ Len(stack) \in 1 .. Len(stack)
        /\ stack[Len(stack)] = Top /\ stack'[Len(stack)] = f
        /\ \A i \in 1 .. Len(stack) : i # Len(stack) => stack'[i] = stack[i]
    BY <1>1, <2>1, <2>4, ContinueKeeps
  <2>6. Types'
    BY <1>1, <2>5 DEF Inv, Types
  <2>7. FramesCurrent'
    BY <1>1, <2>2, <2>4, <2>5 DEF Inv, FramesCurrent
  <2>8. Tracks'
    <3>1. \A q : ReapedBy(q)' <=> ReapedBy(q)
      BY <1>1, <2>4, <2>5 DEF ReapedBy
    <3> QED BY <1>1, <1>2, <3>1, TracksKept
  <2> QED BY <1>3, <2>5, <2>6, <2>7, <2>8 DEF Inv
<1> QED BY <1>4, <1>5

LEMMA KeyKillStep ==
    ASSUME Inv, KeyKill
    PROVE  Inv'
<1>1. /\ stack # << >> /\ Top.at = "kill" /\ Top.sig \in {"INT", "TSTP"}
      /\ UNCHANGED <<jobs, nextjid, rejected, reg, forks, keys>>
  BY DEF KeyKill, HandlerAt, shell
<1>2. stack \in Seq(Frame) /\ WorldTypes /\ mask \subseteq Signals
  BY DEF Inv, Types, WorldTypes
<1>3. Len(stack) \in 1 .. Len(stack) /\ stack[Len(stack)] = Top
  BY <1>1, <1>2, BelowIs DEF Top
<1>4. Top.pid \in Procs /\ pc \in ForegroundPC
  BY <1>1, <1>3 DEF Inv, FramesCurrent
<1>5. CASE GroupExists(Top.pid)
  <2>1. Send(Top.pid, Top.sig) /\ Return /\ pc' = pc
    BY <1>5 DEF KeyKill
  <2>2. WorldTypes' /\ ProcKept
    BY <1>1, <1>2, <1>4, <2>1, SendKeeps
  <2>3. /\ stack' \in Seq(Frame) /\ mask' \subseteq Signals
        /\ Nested' /\ FramesCurrent' /\ ChldBlocked'
        /\ \A p : ReapedBy(p)' <=> ReapedBy(p)
    BY <1>1, <2>1, <2>2, ReturnKeeps
  <2>4. Types'
    BY <1>1, <2>1, <2>2, <2>3 DEF Inv, Types, WorldTypes
  <2>5. Tracks'
    BY <1>1, <2>1, <2>2, <2>3, TracksKept
  <2> QED BY <1>1, <2>1, <2>2, <2>3, <2>4, <2>5, RestKept DEF Inv
<1>6. CASE ~GroupExists(Top.pid)
  <2>1. pc' = "aborted" /\ UNCHANGED <<stack, mask, sigs, proc, pending>>
    BY <1>6 DEF KeyKill
  <2>2. ProcKept /\ Types'
    BY <1>1, <2>1 DEF Inv, Types, MainPC, ProcKept
  <2>3. Nested' /\ FramesCurrent' /\ ChldBlocked'
    BY <2>1 DEF Inv, Nested, FramesCurrent, ForegroundPC, ChldBlocked
  <2>4. Tracks'
    BY <1>1, <1>4, <2>1, <2>2, TracksKept DEF ReapedBy, ForegroundPC
  <2> QED BY <1>1, <2>1, <2>2, <2>3, <2>4, RestKept DEF Inv
<1> QED BY <1>5, <1>6

LEMMA ChldReturnStep ==
    ASSUME Inv, ChldReturn
    PROVE  Inv'
<1>1. /\ stack # << >> /\ Top.at = "start" /\ Return
      /\ UNCHANGED <<jobs, nextjid, rejected, pc, reg, pending, proc, sigs, forks, keys>>
  BY DEF ChldReturn, HandlerAt, shell, world
<1>2. ProcKept
  BY <1>1 DEF ProcKept
<1>3. /\ stack' \in Seq(Frame) /\ mask' \subseteq Signals
      /\ Nested' /\ FramesCurrent' /\ ChldBlocked'
      /\ \A p : ReapedBy(p)' <=> ReapedBy(p)
  BY <1>1, <1>2, ReturnKeeps
<1>4. Types'
  BY <1>1, <1>3 DEF Inv, Types
<1>5. Tracks'
  BY <1>1, <1>2, <1>3, TracksKept
<1> QED BY <1>1, <1>2, <1>3, <1>4, <1>5, RestKept DEF Inv

(* The SIGCHLD handler never runs between fork and addjob. *)
LEMMA ChldElsewhere ==
    ASSUME Inv, stack # << >>, Top.sig = "CHLD"
    PROVE  pc \notin {"fork", "addjob"}
<1>1. Len(stack) \in 1 .. Len(stack) /\ stack[Len(stack)] = Top
  BY BelowIs DEF Inv, Types, Top
<1> QED BY <1>1 DEF Inv, ChldBlocked

LEMMA ChldWaitpidStep ==
    ASSUME Inv, ChldWaitpid
    PROVE  Inv'
<1>1. /\ stack # << >> /\ Top.at = "start" /\ Top.sig = "CHLD"
      /\ UNCHANGED <<jobs, nextjid, rejected, pc, reg, pending, sigs, forks, keys>>
  BY DEF ChldWaitpid, HandlerAt, shell
<1>2. PICK p \in Procs :
        /\ proc[p] \in {"zombie", "stopping"}
        /\ proc' = [proc EXCEPT ![p] = IF proc[p] = "zombie" THEN "reaped" ELSE "stopped"]
        /\ Continue([Top EXCEPT !.at = "update", !.pid = p, !.stopped = proc[p] = "stopping"])
  BY DEF ChldWaitpid, Reportable
<1> DEFINE f == [Top EXCEPT !.at = "update", !.pid = p, !.stopped = proc[p] = "stopping"]
<1>3. stack \in Seq(Frame) /\ Top \in Frame /\ p \in 0 .. MaxForks
  BY <1>1, BelowIs, ShellAssumption DEF Inv, Types, Procs
<1>4. /\ f \in Frame /\ f.sig = "CHLD" /\ f.saved = Top.saved /\ f.at = "update"
      /\ f.pid = p /\ f.stopped = (proc[p] = "stopping")
  BY <1>1, <1>3 DEF Frame
<1>5. Continue(f)
  BY <1>2
<1> HIDE DEF f
<1>6. /\ stack' \in Seq(Frame) /\ mask' = mask
      /\ Nested' /\ ChldBlocked'
      /\ Len(stack') = Len(stack) /\ Len(stack) \in 1 .. Len(stack)
      /\ stack[Len(stack)] = Top /\ stack'[Len(stack)] = f
      /\ \A i \in 1 .. Len(stack) : i # Len(stack) => stack'[i] = stack[i]
  BY <1>1, <1>4, <1>5, ContinueKeeps
<1>7. /\ proc' \in [Procs -> ProcStates]
      /\ proc'[p] = IF proc[p] = "zombie" THEN "reaped" ELSE "stopped"
      /\ \A q \in Procs : q # p => proc'[q] = proc[q]
  BY <1>2 DEF Inv, Types, ProcStates
<1>8. Types'
  BY <1>1, <1>6, <1>7 DEF Inv, Types
<1>9. pc \notin {"fork", "addjob"}
  BY <1>1, ChldElsewhere
<1>10. Newest' /\ Jids' /\ SlotPtr' /\ LoadedPid' /\ Foreground'
  <2>1. \A q \in Procs : proc[q] = "reaped" => proc'[q] = "reaped"
    BY <1>2, <1>7
  <2> QED BY <1>1, <1>9, <2>1 DEF Inv, Newest, Jids, SlotPtr, LoadedPid, ReapedSinceRead, Foreground
<1>11. StoppedHasGroup'
  <2>1. \A q \in Procs : proc'[q] \in {"none", "forked"} => proc[q] \in {"none", "forked"}
    BY <1>2, <1>7
  <2> QED BY <1>1, <2>1, SlotFacts DEF Inv, StoppedHasGroup, Continuing
<1>12. FramesCurrent'
  <2>1. \A q \in Procs : /\ proc[q] = "reaped" => proc'[q] = "reaped"
                         /\ proc'[q] \in {"none", "forked"} => proc[q] \in {"none", "forked"}
    BY <1>2, <1>7
  <2>2. IF f.stopped THEN proc'[f.pid] \notin {"none", "forked"} ELSE proc'[f.pid] = "reaped"
    <3>1. f.stopped => proc[p] # "zombie"
      BY <1>4
    <3>2. ~f.stopped => proc[p] = "zombie"
      BY <1>2, <1>4
    <3> QED BY <1>4, <1>7, <3>1, <3>2
  <2> SUFFICES ASSUME NEW i \in 1 .. Len(stack)
               PROVE  /\ stack'[i].at = "update" =>
                           /\ stack'[i].sig = "CHLD" /\ stack'[i].pid \in Procs
                           /\ IF stack'[i].stopped THEN proc'[stack'[i].pid] \notin {"none", "forked"}
                                                   ELSE proc'[stack'[i].pid] = "reaped"
                      /\ stack'[i].at = "kill" => stack'[i].pid \in Procs /\ pc' \in ForegroundPC
    BY <1>6 DEF FramesCurrent
  <2>3. CASE i = Len(stack)
    BY <1>4, <1>6, <2>2, <2>3
  <2>4. CASE i # Len(stack)
    BY <1>1, <1>6, <2>1, <2>4 DEF Inv, FramesCurrent
  <2> QED BY <2>3, <2>4
<1>13. Tracks'
  <2>1. \A q : ReapedBy(q)' <=> ReapedBy(q) \/ (q = p /\ proc[p] = "zombie")
    <3>1. \A q : ReapedBy(q)' => ReapedBy(q) \/ (q = p /\ proc[p] = "zombie")
      BY <1>2, <1>4, <1>6 DEF ReapedBy
    <3>2. \A q : ReapedBy(q) => ReapedBy(q)'
      BY <1>1, <1>6 DEF ReapedBy
    <3>3. proc[p] = "zombie" => ReapedBy(p)'
      BY <1>4, <1>6 DEF ReapedBy
    <3> QED BY <3>1, <3>2, <3>3
  <2>2. \A q \in 1 .. forks : (proc'[q] = "reaped" => ReapedBy(q)') <=> (proc[q] = "reaped" => ReapedBy(q))
    BY <1>2, <1>7, <2>1, SlotFacts
  <2>3. \A q : q \in Known' <=> q \in Known
    BY <1>1, <2>2, KnownIs
  <2> QED BY <1>1, <2>3 DEF Inv, Tracks
<1> QED BY <1>6, <1>8, <1>10, <1>11, <1>12, <1>13 DEF Inv

LEMMA ChldUpdateStep ==
    ASSUME Inv, ChldUpdate
    PROVE  Inv'
<1> DEFINE p == Top.pid
           s == getjobpid(jobs, p)
           f == [Top EXCEPT !.at = "start"]
<1>1. /\ stack # << >> /\ Top.at = "update" /\ Top.sig = "CHLD"
      /\ UNCHANGED <<rejected, pc, reg, pending, proc, sigs, forks, keys>>
  BY DEF ChldUpdate, HandlerAt, world
<1>2. /\ stack \in Seq(Frame) /\ Top \in Frame /\ jobs \in [Slots -> JobType]
      /\ Len(stack) \in 1 .. Len(stack) /\ stack[Len(stack)] = Top
  BY <1>1, BelowIs DEF Inv, Types, Top
<1>3. /\ p \in Procs /\ (Top.stopped => proc[p] \notin {"none", "forked"})
      /\ (~Top.stopped => proc[p] = "reaped")
  BY <1>1, <1>2 DEF Inv, FramesCurrent
<1>4. pc \notin {"fork", "addjob"}
  BY <1>1, ChldElsewhere
<1>5. ProcKept
  BY <1>1 DEF ProcKept
<1>6. /\ s # 0 => s \in Slots /\ jobs[s].pid = p
      /\ s = 0 => \A t \in Slots : jobs[t].pid # p
      /\ \A t \in Slots : jobs[t].pid = p => s = t
  BY <1>3, GetJobPid DEF Procs
<1>7. CASE s = 0
  <2>1. Return /\ UNCHANGED <<jobs, nextjid>>
    BY <1>7 DEF ChldUpdate
  <2>2. /\ stack' \in Seq(Frame) /\ mask' \subseteq Signals
        /\ Nested' /\ FramesCurrent' /\ ChldBlocked'
        /\ \A q : ReapedBy(q)' => ReapedBy(q)
        /\ \A q : ReapedBy(q) => ReapedBy(q)' \/ q = p
    BY <1>1, <1>5, <2>1, ReturnKeeps
  <2>3. Types'
    BY <1>1, <2>1, <2>2 DEF Inv, Types
  <2>4. Tracks'
    <3>1. p \notin Known
      BY <1>6, <1>7 DEF Inv, Tracks
    <3>2. \A q : q \in Known' <=> q \in Known
      BY <1>1, <2>2, <3>1, KnownIs
    <3> QED BY <2>1, <3>2 DEF Inv, Tracks
  <2> QED BY <1>1, <1>5, <2>1, <2>2, <2>3, <2>4, RestKept DEF Inv
<1>8. CASE s # 0
  <2>1. /\ Continue(f)
        /\ Top.stopped => jobs' = setstate(jobs, s, "ST") /\ nextjid' = nextjid
        /\ ~Top.stopped => jobs' = clearjob(jobs, s) /\ nextjid' = maxjid(jobs') + 1
    BY <1>8 DEF ChldUpdate
  <2>2. s \in Slots /\ jobs[s].pid = p /\ p # 0
    BY <1>3, <1>6, <1>8, ShellAssumption DEF Procs
  <2>3. f \in Frame /\ f.sig = "CHLD" /\ f.saved = Top.saved /\ f.at = "start"
    BY <1>1, <1>2 DEF Frame
  <2> HIDE DEF f, s, p
  <2>4. /\ stack' \in Seq(Frame) /\ mask' = mask
        /\ Nested' /\ ChldBlocked'
        /\ Len(stack') = Len(stack) /\ stack'[Len(stack)] = f
        /\ \A i \in 1 .. Len(stack) : i # Len(stack) => stack'[i] = stack[i] /\ stack[i].sig # "CHLD"
    BY <1>1, <2>1, <2>3, ContinueKeeps
  <2>5. FramesCurrent'
    BY <1>1, <2>3, <2>4 DEF Inv, FramesCurrent
  <2>6. \A q : ~ReapedBy(q)' /\ (ReapedBy(q) <=> ~Top.stopped /\ q = p)
    <3>1. \A i \in 1 .. Len(stack) : i # Len(stack) => stack[i].at # "update"
      BY <2>4 DEF Inv, FramesCurrent
    <3>2. \A q : ~ReapedBy(q)'
      BY <2>3, <2>4, <3>1 DEF ReapedBy
    <3>3. \A q : ReapedBy(q) <=> ~Top.stopped /\ q = p
      BY <1>1, <1>2, <3>1 DEF ReapedBy, p
    <3> QED BY <3>2, <3>3
  <2>7. \A q : q \in Known' <=> q \in Known /\ (Top.stopped \/ q # p)
    BY <1>1, <1>3, <2>6, KnownIs
  <2>8. CASE Top.stopped
    <3>1. /\ jobs' \in [Slots -> JobType] /\ jobs'[s].state = "ST"
          /\ \A t \in Slots : /\ jobs'[t].pid = jobs[t].pid /\ jobs'[t].jid = jobs[t].jid
                              /\ t # s => jobs'[t].state = jobs[t].state
      BY <1>2, <2>1, <2>2, <2>8, SetStateIs DEF States
    <3>2. Types'
      BY <1>1, <2>1, <2>4, <2>8, <3>1 DEF Inv, Types
    <3>3. Tracks'
      BY <2>7, <2>8, <3>1 DEF Inv, Tracks
    <3>4. Newest' /\ Jids' /\ SlotPtr' /\ LoadedPid' /\ Foreground'
      BY <1>1, <1>4, <2>1, <2>8, <3>1
         DEF Inv, Newest, Jids, SlotPtr, LoadedPid, ReapedSinceRead, Foreground
    <3>5. StoppedHasGroup'
      BY <1>1, <1>3, <2>2, <2>8, <3>1 DEF Inv, StoppedHasGroup, Continuing
    <3> QED BY <2>4, <2>5, <3>2, <3>3, <3>4, <3>5 DEF Inv
  <2>9. CASE ~Top.stopped
    <3>1. /\ ClearJob \in JobType /\ ClearJob.pid = 0 /\ ClearJob.jid = 0
          /\ ClearJob.state = "UNDEF"
      BY ShellAssumption DEF ClearJob, JobType, States
    <3>2. jobs' = [jobs EXCEPT ![s] = ClearJob]
      BY <2>1, <2>9 DEF clearjob
    <3>3. /\ jobs' \in [Slots -> JobType]
          /\ \A t \in Slots : jobs'[t] = IF t = s THEN ClearJob ELSE jobs[t]
      BY <1>2, <2>2, <3>1, <3>2
    <3>4. \A t \in Slots : jobs'[t].jid \in 0 .. forks
      BY <3>1, <3>3, SlotFacts DEF Inv, Jids
    <3>5. maxjid(jobs') \in 0 .. forks
      BY <3>4, SlotFacts, MaxJidBounds
    <3>6. nextjid' \in 1 .. MaxForks + 1 /\ nextjid' <= forks + 1
      BY <2>1, <2>9, <3>5, SlotFacts
    <3>7. Types'
      BY <1>1, <2>4, <3>3, <3>6 DEF Inv, Types
    <3>8. Tracks'
      <4>1. \A t \in Slots : jobs'[t].pid = IF t = s THEN 0 ELSE jobs[t].pid
        BY <3>1, <3>3
      <4>2. \A t \in Slots : jobs'[t].pid # 0 => jobs'[t].pid \in Known'
        BY <2>2, <2>7, <2>9, <4>1 DEF Inv, Tracks
      <4>3. \A q \in Known' : \E t \in Slots : jobs'[t].pid = q
        BY <2>2, <2>7, <2>9, <4>1 DEF Inv, Tracks
      <4>4. \A t, u \in Slots : jobs'[t].pid = jobs'[u].pid /\ jobs'[t].pid # 0 => t = u
        BY <4>1 DEF Inv, Tracks
      <4> QED BY <4>2, <4>3, <4>4 DEF Tracks
    <3>9. Newest' /\ SlotPtr' /\ LoadedPid'
      <4>1. LoadedPid'
        <5> SUFFICES ASSUME pc \in {"fg_kill", "bg_kill"}
                     PROVE  \/ jobs'[reg.slot].pid = reg.pid
                            \/ /\ reg.pid # 0 /\ proc[reg.pid] = "reaped" /\ jobs'[reg.slot].pid = 0
                               /\ reg.pid \in Procs
          BY <1>1 DEF LoadedPid, ReapedSinceRead
        <5>1. reg.slot \in Slots
          BY DEF Inv, SlotPtr
        <5>2. CASE reg.slot = s
          BY <1>3, <2>2, <2>9, <3>1, <3>3, <5>1, <5>2 DEF Inv, LoadedPid, ReapedSinceRead, p
        <5>3. CASE reg.slot # s
          BY <3>3, <5>1, <5>3 DEF Inv, LoadedPid, ReapedSinceRead
        <5> QED BY <5>2, <5>3
      <4> QED BY <1>1, <1>4, <4>1 DEF Inv, Newest, SlotPtr
    <3>10. Jids'
      BY <1>1, <1>4, <3>4, <3>6, SlotFacts DEF Jids
    <3>11. Foreground' /\ StoppedHasGroup'
      BY <1>1, <3>1, <3>3 DEF Inv, Foreground, StoppedHasGroup, Continuing
    <3> QED BY <2>4, <2>5, <3>7, <3>8, <3>9, <3>10, <3>11 DEF Inv
  <2> QED BY <2>8, <2>9
<1> QED BY <1>7, <1>8

LEMMA InvNext == Inv /\ [Next]_vars => Inv'
<1> SUFFICES ASSUME Inv, [Next]_vars PROVE Inv'
  OBVIOUS
<1>1. CASE Main
  BY <1>1, EvalSteps, ForkStep, AddJobStep, KillSteps, LoadSteps, WaitSteps, ListSteps, BgFgSteps,
     MarkSteps DEF Main
<1>2. CASE Handler
  BY <1>2, ChldWaitpidStep, ChldReturnStep, ChldUpdateStep, KeyFgpidStep, KeyKillStep DEF Handler
<1>3. ASSUME NEW s \in Signals, Deliver(s) PROVE Inv'
  BY <1>3, DeliverStep
<1>4. ASSUME NEW s \in {"INT", "TSTP"}, Keyboard(s) PROVE Inv'
  BY <1>4, KeyboardStep
<1>5. ASSUME NEW p \in Procs,
             \/ ChildSetpgid(p) \/ ChildExec(p) \/ ChildChange(p) \/ ChildSignal(p)
             \/ \E s \in ExtSignals : External(p, s)
      PROVE  Inv'
  BY <1>5, ChildStep, ExternalStep
<1>6. CASE UNCHANGED vars
  <2>1. UNCHANGED <<shell, cpu, pending, world>>
    BY <1>6 DEF vars
  <2>2. WorldTypes' /\ ProcKept /\ keys' \in 0 .. MaxKeys /\ forks' = forks
    BY <2>1 DEF Inv, Types, WorldTypes, ProcKept, world
  <2> QED BY <2>1, <2>2, WorldStep
<1> QED BY <1>1, <1>2, <1>3, <1>4, <1>5, <1>6 DEF Next

(* Inv is an invariant of the shell, whatever is typed.                    *)
THEOREM InvInvariant == Spec => []Inv
BY InvInit, InvNext, PTL DEF Spec

----------------------------------------------------------------------------
(* What the invariant says about the shell *)

LEMMA InvImplies == Inv => ShellConsistent
<1> SUFFICES ASSUME Inv PROVE ShellConsistent
  OBVIOUS
<1>1. Len(stack) <= 3
  <2> SUFFICES ASSUME ~(Len(stack) <= 3) PROVE FALSE
    OBVIOUS
  <2>1. stack \in Seq(Frame) /\ Len(stack) \in Nat
    BY DEF Inv, Types
  <2>2. 1 \in 1 .. Len(stack) /\ 2 \in 1 .. Len(stack) /\ 3 \in 1 .. Len(stack) /\ 4 \in 1 .. Len(stack)
    BY <2>1
  <2>3. \A i \in 1 .. Len(stack) : stack[i].sig \in {"CHLD", "INT", "TSTP"}
    <3>1. \A f \in Frame : f.sig \in {"CHLD", "INT", "TSTP"}
      BY DEF Frame, Signals
    <3> QED BY <2>1, <3>1
  <2>4. /\ 1 \in 1 .. 2 - 1 /\ 1 \in 1 .. 3 - 1 /\ 2 \in 1 .. 3 - 1
        /\ 1 \in 1 .. 4 - 1 /\ 2 \in 1 .. 4 - 1 /\ 3 \in 1 .. 4 - 1
    OBVIOUS
  <2>5. /\ stack[1].sig # stack[2].sig /\ stack[1].sig # stack[3].sig
        /\ stack[2].sig # stack[3].sig /\ stack[1].sig # stack[4].sig
        /\ stack[2].sig # stack[4].sig /\ stack[3].sig # stack[4].sig
    BY <2>2, <2>4 DEF Inv, Nested
  <2> QED BY <2>2, <2>3, <2>5
<1>2. TypeOK
  <2>1. rejected \subseteq Procs
    BY SlotFacts DEF Inv, Newest
  <2> QED BY <1>1, <2>1 DEF Inv, Types, TypeOK, JobType
<1>3. JobListTracksChildren
  <2>1. ASSUME NEW p \in Known
        PROVE  Cardinality({s \in Slots : jobs[s].pid = p}) = 1
    <3>1. p # 0
      BY SlotFacts, KnownIs
    <3>2. PICK s \in Slots : jobs[s].pid = p
      BY DEF Inv, Tracks
    <3>3. {t \in Slots : jobs[t].pid = p} = {s}
      BY <3>1, <3>2 DEF Inv, Tracks
    <3> QED BY <3>3, FS_Singleton
  <2> QED BY <2>1 DEF Inv, Tracks, JobListTracksChildren
<1> QED BY <1>2, <1>3 DEF ShellConsistent

(* In every interleaving of the main loop, the handlers, the children and  *)
(* the keys, for any number of job slots and of children: the variables of *)
(* tsh.c keep their types, at most three handlers are nested, every child  *)
(* that was handed to addjob and not reaped has exactly one slot, and no   *)
(* slot outlives its child.                                                *)
THEOREM ShellConsistentAlways == Spec => []ShellConsistent
BY InvInvariant, InvImplies, PTL

(* The kills of the main loop: the one for a child without a slot never    *)
(* fails, those of bg and fg fail only for a process that was reaped, and  *)
(* whose slot was cleared, after its pid had been read.  Nothing else than *)
(* a failed fork or a handler ends the shell with an error.                *)
THEOREM KillsMissOnlyReapedAlways == Spec => KillsMissOnlyReaped
<1>1. Inv /\ [Next]_vars => [pc' = "aborted" /\ pc # "aborted" =>
                               \/ pc = "fork" \/ stack # << >>
                               \/ pc \in {"fg_kill", "bg_kill"} /\ ReapedSinceRead]_vars
  <2> SUFFICES ASSUME Inv, Next, pc' = "aborted", pc # "aborted", pc # "fork", stack = << >>
               PROVE  pc \in {"fg_kill", "bg_kill"} /\ ReapedSinceRead
    OBVIOUS
  <2>1. Main
    <3>1. ~Handler
      BY DEF Handler, ChldWaitpid, ChldReturn, ChldUpdate, KeyFgpid, KeyKill, HandlerAt
    <3>2. \A s \in Signals : ~Deliver(s)
      BY DEF Deliver
    <3>3. \A s : ~Keyboard(s)
      BY DEF Keyboard, cpu
    <3>4. \A p : ~ChildSetpgid(p) /\ ~ChildExec(p) /\ ~ChildChange(p) /\ ~ChildSignal(p)
      BY DEF ChildSetpgid, ChildExec, ChildChange, ChildSignal, cpu
    <3>5. \A p, s : ~External(p, s)
      BY DEF External, cpu
    <3> QED BY <3>1, <3>2, <3>3, <3>4, <3>5 DEF Next
  <2>2. reg.ret # "aborted"
    BY RegTypes DEF Inv, Types
  <2>3. FgKill \/ BgKill
    BY <2>1, <2>2 DEF Main, EvalCommand, Fork, ForkFails, AddJob, KillChild, Unblock, Quit, EndOfInput,
       Waitfg, Sigsuspend, Woken, JobsCommand, ListTest, ListPrint, Listing, FgCommand, FgSwitch,
       FgSet, FgCont, FgWait, LoadPid, BgCommand, BgCheck, BgSet, BgCont, AfterAdd, MainAt
  <2>4. /\ FgKill => pc = "fg_kill" /\ reg.pid # 0 /\ ~GroupExists(reg.pid)
        /\ BgKill => pc = "bg_kill" /\ reg.pid # 0 /\ proc[reg.pid] = "reaped"
    BY DEF FgKill, BgKill, MainAt
  <2> QED BY <2>3, <2>4, MainKills
<1> QED BY <1>1, InvInvariant, PTL DEF Spec, KillsMissOnlyReaped

(* The prompt is given only when no process is in the foreground, with or  *)
(* without the builtin fg.                                                 *)
THEOREM NoForegroundAtPromptAlways == Spec => []NoForegroundAtPrompt
<1>1. Inv => NoForegroundAtPrompt
  <2> SUFFICES ASSUME Inv, pc = "prompt" PROVE fgpid(jobs) = 0
    BY DEF NoForegroundAtPrompt
  <2> DEFINE t == First({s \in Slots : jobs[s].state = "FG"})
  <2>1. t # 0 => t \in Slots /\ jobs[t].state = "FG"
    BY FirstIsIn
  <2>2. t # 0 => jobs[t].pid = 0
    BY <2>1 DEF Inv, Foreground, ForegroundPC
  <2> QED BY <2>2 DEF fgpid
<1> QED BY <1>1, InvInvariant, PTL

----------------------------------------------------------------------------
(* The foreground, for a user who does not type fg *)

(* No free slot is left in the foreground, at most one job is, and the     *)
(* shell knows of every job it has seen stop.  The builtin fg can mark a   *)
(* slot whose job was just deleted, and breaks all three.                  *)
FgPC == {"fg_switch", "fg_set", "fg_cont", "fg_kill", "fg_wait"}
NoFg == /\ pc \notin FgPC
        /\ \A s \in Slots : jobs[s].state = "FG" => jobs[s].pid # 0
        /\ \A s, t \in Slots : jobs[s].state = "FG" /\ jobs[t].state = "FG" => s = t
        /\ StoppedJobIsST

(* A handler is about to mark the job of p. *)
SeenBy(p) == \E i \in 1 .. Len(stack) : stack[i].at = "update" /\ stack[i].pid = p

LEMMA StoppedIs ==
    /\ StoppedJobIsST <=> \A s \in Slots : \/ jobs[s].pid = 0 \/ proc[jobs[s].pid] # "stopped"
                                           \/ jobs[s].state = "ST"
                                           \/ pc \in {"bg_cont", "bg_kill", "fg_cont", "fg_kill"} /\ reg.slot = s
                                           \/ SeenBy(jobs[s].pid)
    /\ StoppedJobIsST' <=> \A s \in Slots : \/ jobs'[s].pid = 0 \/ proc'[jobs'[s].pid] # "stopped"
                                            \/ jobs'[s].state = "ST"
                                            \/ pc' \in {"bg_cont", "bg_kill", "fg_cont", "fg_kill"} /\ reg'.slot = s
                                            \/ SeenBy(jobs[s].pid)'
BY DEF StoppedJobIsST, SeenBy

(* A step that leaves the job list alone. *)
LEMMA NoFgKept ==
    ASSUME Inv, NoFg, jobs' = jobs, pc' \notin FgPC,
           \A q \in Procs : proc'[q] = "stopped" => proc[q] = "stopped" \/ SeenBy(q)',
           pc \in {"bg_cont", "bg_kill"} =>
              \/ pc' \in {"bg_cont", "bg_kill"} /\ reg'.slot = reg.slot
              \/ jobs[reg.slot].pid = 0
              \/ proc'[jobs[reg.slot].pid] # "stopped",
           \A s \in Slots : SeenBy(jobs[s].pid) => SeenBy(jobs[s].pid)'
    PROVE  NoFg'
<1>1. StoppedJobIsST'
  <2> SUFFICES ASSUME NEW s \in Slots, jobs[s].pid # 0, proc'[jobs[s].pid] = "stopped",
                      ~SeenBy(jobs[s].pid)'
               PROVE  jobs[s].state = "ST" \/ (pc' \in {"bg_cont", "bg_kill", "fg_cont", "fg_kill"} /\ reg'.slot = s)
    BY StoppedIs
  <2>1. jobs[s].pid \in Procs
    BY SlotFacts
  <2>2. proc[jobs[s].pid] = "stopped" /\ ~SeenBy(jobs[s].pid)
    BY <2>1
  <2>3. jobs[s].state = "ST" \/ (pc \in {"bg_cont", "bg_kill"} /\ reg.slot = s)
    BY <2>2, StoppedIs DEF NoFg, FgPC
  <2> QED BY <2>3
<1> QED BY <1>1 DEF NoFg

LEMMA NoFgInit == Init => NoFg
<1> SUFFICES ASSUME Init PROVE NoFg
  OBVIOUS
<1>1. \A s \in Slots : jobs[s] = [pid |-> 0, jid |-> 0, state |-> "UNDEF"]
  BY DEF Init, initjobs, ClearJob
<1> QED BY <1>1 DEF Init, NoFg, FgPC, StoppedJobIsST

LEMMA NoFgMain ==
    ASSUME Inv, NoFg, "fg" \notin Builtins, Main
    PROVE  NoFg'
<1>1. stack = << >> /\ stack' = << >> /\ reg.ret \in {"unblock", "prompt"}
  <2>1. stack = << >> /\ stack' = stack
    BY DEF Main, EvalCommand, Fork, ForkFails, AddJob, KillChild, Unblock, Quit, EndOfInput, Waitfg,
       Sigsuspend, Woken, JobsCommand, ListTest, ListPrint, FgCommand, FgSwitch, FgSet, FgCont,
       FgKill, FgWait, BgCommand, BgCheck, BgSet, BgCont, BgKill, LoadPid, MainAt
  <2> QED BY <2>1, RegTypes DEF Inv, Types
<1>2. \A p : ~SeenBy(p) /\ ~SeenBy(p)'
  BY <1>1 DEF SeenBy
<1>3. ~FgCommand /\ ~FgSwitch /\ ~FgSet /\ ~FgCont /\ ~FgKill /\ ~FgWait
  BY DEF NoFg, FgPC, FgCommand, FgSwitch, FgSet, FgCont, FgKill, FgWait, MainAt
<1>4. CASE EvalCommand \/ ForkFails \/ Unblock \/ Quit \/ EndOfInput \/ KillChild
  <2>1. /\ jobs' = jobs /\ proc' = proc /\ pc \notin {"bg_cont", "bg_kill"}
        /\ pc' \notin FgPC
    BY <1>4 DEF EvalCommand, ForkFails, Unblock, Quit, EndOfInput, KillChild, MainAt, Send,
       AfterAdd, FgPC, shell, world
  <2> QED BY <1>2, <2>1, NoFgKept
<1>5. CASE Waitfg \/ Sigsuspend \/ Woken
  <2>1. /\ jobs' = jobs /\ proc' = proc /\ pc \notin {"bg_cont", "bg_kill"}
        /\ pc' \notin FgPC
    BY <1>1, <1>5 DEF Waitfg, Sigsuspend, Woken, MainAt, FgPC, shell, world
  <2> QED BY <1>2, <2>1, NoFgKept
<1>6. CASE JobsCommand \/ ListTest \/ ListPrint \/ BgCommand \/ BgCheck
  <2>1. /\ jobs' = jobs /\ proc' = proc /\ pc \notin {"bg_cont", "bg_kill"}
        /\ pc' \notin FgPC
    BY <1>6 DEF JobsCommand, ListTest, ListPrint, Listing, BgCommand, BgCheck, MainAt, FgPC,
       shell, world
  <2> QED BY <1>2, <2>1, NoFgKept
<1>7. CASE Fork
  <2>1. /\ jobs' = jobs /\ pc = "fork" /\ pc' = "addjob"
        /\ proc' = [proc EXCEPT ![forks + 1] = "forked"]
    BY <1>7 DEF Fork, MainAt, shell
  <2>2. \A q \in Procs : proc'[q] = "stopped" => proc[q] = "stopped"
    BY <2>1 DEF Inv, Types
  <2> QED BY <1>2, <2>1, <2>2, NoFgKept DEF FgPC
<1>8. CASE BgCont \/ BgKill
  <2>1. /\ jobs' = jobs /\ pc \in {"bg_cont", "bg_kill"} /\ pc' \in {"bg_kill", "prompt", "aborted"}
        /\ reg.slot \in Slots /\ WorldTypes
    BY <1>8 DEF BgCont, BgKill, LoadPid, MainAt, shell, Inv, Types, WorldTypes, SlotPtr
  <2>2. CASE BgCont
    <3>1. pc' = "bg_kill" /\ reg'.slot = reg.slot /\ proc' = proc
      BY <2>2 DEF BgCont, LoadPid, world, Inv, Types, Registers
    <3> QED BY <1>2, <2>1, <3>1, NoFgKept DEF FgPC
  <2>3. CASE BgKill
    <3>1. pc = "bg_kill" /\ (jobs[reg.slot].pid = reg.pid \/ jobs[reg.slot].pid = 0)
      BY <2>3 DEF BgKill, MainAt, Inv, LoadedPid, ReapedSinceRead
    <3>2. CASE reg.pid = 0 \/ proc[reg.pid] = "reaped"
      <4>1. proc' = proc /\ (reg.pid = 0 \/ jobs[reg.slot].pid = 0)
        BY <1>1, <2>3, <3>1, <3>2, MainKills DEF BgKill, SendOrSelf, ReapedSinceRead
      <4> QED BY <1>2, <2>1, <3>1, <4>1, NoFgKept DEF FgPC
    <3>3. CASE reg.pid # 0 /\ proc[reg.pid] # "reaped"
      <4>1. Send(reg.pid, "CONT") /\ reg.pid \in Procs
        BY <1>1, <2>3, <3>1, <3>3, MainKills DEF BgKill, SendOrSelf
      <4>2. proc' = [proc EXCEPT ![reg.pid] = IF proc[reg.pid] \in {"stopping", "stopped"}
                                              THEN "running" ELSE proc[reg.pid]]
        BY <4>1 DEF Send
      <4>3. /\ \A q \in Procs : proc'[q] = "stopped" => proc[q] = "stopped"
            /\ proc'[reg.pid] # "stopped"
        BY <2>1, <4>1, <4>2 DEF WorldTypes
      <4> QED BY <1>2, <2>1, <3>1, <4>3, NoFgKept DEF FgPC
    <3> QED BY <3>2, <3>3
  <2> QED BY <1>8, <2>2, <2>3
<1>9. CASE BgSet
  <2>1. /\ pc = "bg_set" /\ pc' = "bg_cont" /\ reg' = reg /\ proc' = proc
        /\ jobs' = setstate(jobs, reg.slot, "BG") /\ reg.slot \in Slots
        /\ jobs \in [Slots -> JobType]
    BY <1>9 DEF BgSet, MainAt, world, Inv, SlotPtr, Types
  <2>2. /\ jobs'[reg.slot].state = "BG"
        /\ \A s \in Slots : /\ jobs'[s].pid = jobs[s].pid
                            /\ s # reg.slot => jobs'[s].state = jobs[s].state
    BY <2>1, SetStateIs DEF States
  <2>3. StoppedJobIsST'
    BY <1>2, <2>1, <2>2, StoppedIs DEF NoFg
  <2> QED BY <2>1, <2>2, <2>3 DEF NoFg, FgPC
<1>10. CASE AddJob
  <2>1. /\ pc = "addjob" /\ pc' \in {"waitfg", "unblock", "kill_child"} /\ proc' = proc
        /\ reg.pid = forks /\ proc[forks] # "stopped"
        /\ jobs' = jobs \/ (/\ FreeSlot(jobs) # 0
                            /\ jobs' = addjob(jobs, FreeSlot(jobs), reg.pid, nextjid, reg.st))
    BY <1>10 DEF AddJob, AfterAdd, MainAt, world, Inv, Newest
  <2>2. CASE jobs' = jobs
    BY <1>2, <2>1, <2>2, NoFgKept DEF FgPC
  <2>3. CASE FreeSlot(jobs) # 0 /\ jobs' = addjob(jobs, FreeSlot(jobs), reg.pid, nextjid, reg.st)
    <3> DEFINE f == FreeSlot(jobs)
               new == [pid |-> reg.pid, jid |-> nextjid, state |-> reg.st]
    <3>1. f \in Slots /\ new.pid = forks /\ jobs' = [jobs EXCEPT ![f] = new]
      BY <2>1, <2>3, FreeSlotIsFree DEF addjob
    <3> HIDE DEF f, new
    <3>2. \A s \in Slots : jobs'[s] = IF s = f THEN new ELSE jobs[s]
      BY <3>1 DEF Inv, Types
    <3>3. \A s \in Slots : jobs[s].state # "FG"
      BY <2>1 DEF NoFg, Inv, Foreground, ForegroundPC
    <3>4. forks # 0
      BY <2>1 DEF Inv, Newest
    <3>5. StoppedJobIsST'
      BY <1>2, <2>1, <3>1, <3>2, StoppedIs DEF NoFg
    <3> QED BY <2>1, <3>1, <3>2, <3>3, <3>4, <3>5 DEF NoFg, FgPC
  <2> QED BY <2>1, <2>2, <2>3
<1> QED BY <1>3, <1>4, <1>5, <1>6, <1>7, <1>8, <1>9, <1>10 DEF Main

LEMMA NoFgWorld ==
    ASSUME Inv, NoFg, ProcKept, UNCHANGED <<shell, cpu>>
    PROVE  NoFg'
<1>1. jobs' = jobs /\ pc' = pc /\ reg' = reg /\ stack' = stack
  BY DEF shell, cpu
<1>2. \A q : SeenBy(q)' <=> SeenBy(q)
  BY <1>1 DEF SeenBy
<1>3. \A s \in Slots : SeenBy(jobs[s].pid) => SeenBy(jobs[s].pid)'
  BY <1>1 DEF SeenBy
<1> QED BY <1>1, <1>2, <1>3, NoFgKept DEF NoFg, ProcKept

LEMMA NoFgOutside ==
    ASSUME Inv, NoFg,
           \/ \E s \in {"INT", "TSTP"} : Keyboard(s)
           \/ \E p \in Procs : \/ ChildSetpgid(p) \/ ChildExec(p) \/ ChildChange(p) \/ ChildSignal(p)
                               \/ \E s \in ExtSignals : External(p, s)
    PROVE  NoFg'
<1>1. WorldTypes
  BY DEF Inv, Types, WorldTypes
<1>2. UNCHANGED <<shell, cpu>>
  BY DEF Keyboard, ChildSetpgid, ChildExec, ChildChange, ChildSignal, External
<1>3. CASE \E s \in {"INT", "TSTP"} : Keyboard(s)
  <2>1. ProcKept
    BY <1>3 DEF Keyboard, ProcKept
  <2> QED BY <1>2, <2>1, NoFgWorld
<1>4. ASSUME NEW p \in Procs, ChildSetpgid(p) PROVE NoFg'
  <2>1. proc[p] = "forked" /\ proc' = [proc EXCEPT ![p] = "pgset"]
    BY <1>4 DEF ChildSetpgid
  <2>2. ProcKept
    BY <1>1, <2>1 DEF WorldTypes, ProcKept
  <2> QED BY <1>2, <2>2, NoFgWorld
<1>5. ASSUME NEW p \in Procs, ChildExec(p), ~Becomes(p, "zombie") PROVE NoFg'
  <2>1. proc[p] = "pgset" /\ proc' = [proc EXCEPT ![p] = "running"]
    BY <1>5 DEF ChildExec
  <2>2. ProcKept
    BY <1>1, <2>1 DEF WorldTypes, ProcKept
  <2> QED BY <1>2, <2>2, NoFgWorld
<1>6. ASSUME NEW p \in Procs, NEW l \in {"zombie", "stopping"}, Becomes(p, l),
             proc[p] \notin {"none", "zombie", "reaped"}
      PROVE  NoFg'
  BY <1>1, <1>2, <1>6, BecomesKeeps, NoFgWorld
<1>7. ASSUME NEW p \in Procs, ChildExec(p), Becomes(p, "zombie") PROVE NoFg'
  <2>1. proc[p] = "pgset"
    BY <1>7 DEF ChildExec
  <2> QED BY <1>6, <1>7, <2>1
<1>8. ASSUME NEW p \in Procs, ChildChange(p) PROVE NoFg'
  <2>1. proc[p] = "running" /\ (Becomes(p, "zombie") \/ Becomes(p, "stopping"))
    BY <1>8 DEF ChildChange
  <2> QED BY <1>6, <2>1
<1>9. ASSUME NEW p \in Procs, ChildSignal(p) PROVE NoFg'
  <2>1. CASE UNCHANGED proc
    BY <1>2, <2>1, NoFgWorld DEF ProcKept
  <2>2. CASE ~UNCHANGED proc
    <3>1. /\ proc[p] \notin {"none", "zombie", "reaped"}
          /\ Becomes(p, "zombie") \/ Becomes(p, "stopping")
      BY <1>9, <2>2 DEF ChildSignal, Live
    <3> QED BY <1>6, <3>1
  <2> QED BY <2>1, <2>2
<1>10. ASSUME NEW p \in Procs, NEW s \in ExtSignals, External(p, s) PROVE NoFg'
  <2>1. Send(p, s) /\ s \in {"INT", "TSTP", "KILL", "CONT"}
    BY <1>10, ShellAssumption DEF External
  <2> QED BY <1>1, <1>2, <2>1, SendKeeps, NoFgWorld
<1> QED BY <1>3, <1>4, <1>5, <1>7, <1>8, <1>9, <1>10

(* The handlers: the frame of the child that waitpid returned goes away    *)
(* only when its job is marked or deleted.                                 *)
LEMMA NoFgHandlers ==
    ASSUME Inv, NoFg, Handler \/ \E s \in Signals : Deliver(s)
    PROVE  NoFg'
<1>1. stack \in Seq(Frame) /\ jobs \in [Slots -> JobType]
  BY DEF Inv, Types
<1>2. ASSUME NEW s \in Signals, Deliver(s) PROVE NoFg'
  <2>1. PICK f : stack' = Append(stack, f)
    BY <1>2 DEF Deliver
  <2>2. /\ jobs' = jobs /\ proc' = proc /\ reg' = reg
        /\ pc' = pc \/ (pc = "suspended" /\ pc' = "woken")
    BY <1>2 DEF Deliver, shell, world
  <2>3. Len(stack') = Len(stack) + 1 /\ \A i \in 1 .. Len(stack) : stack'[i] = stack[i]
    BY <1>1, <2>1
  <2>4. \A q : SeenBy(q) => SeenBy(q)'
    <3>1. \A i \in 1 .. Len(stack) : i \in 1 .. Len(stack')
      BY <1>1, <2>3
    <3> QED BY <2>3, <3>1 DEF SeenBy
  <2>5. \A t \in Slots : SeenBy(jobs[t].pid) => SeenBy(jobs[t].pid)'
    BY <2>2, <2>4 DEF SeenBy
  <2> QED BY <2>2, <2>4, <2>5, NoFgKept DEF NoFg, FgPC
<1> SUFFICES ASSUME Handler PROVE NoFg'
  BY <1>2
<1>3. stack # << >> /\ Len(stack) \in 1 .. Len(stack) /\ stack[Len(stack)] = Top
  <2>1. stack # << >>
    BY DEF Handler, ChldWaitpid, ChldReturn, ChldUpdate, KeyFgpid, KeyKill, HandlerAt
  <2> QED BY <1>1, <2>1, BelowIs DEF Top
<1>4. ASSUME Return PROVE \A q : SeenBy(q) => SeenBy(q)' \/ (Top.at = "update" /\ q = Top.pid)
  <2>1. /\ Len(stack) \in Nat \ {0} /\ Len(stack') = Len(stack) - 1
        /\ \A i \in 1 .. Len(stack') : stack'[i] = stack[i]
    BY <1>1, <1>3, <1>4, Popped DEF Return
  <2>2. \A i \in 1 .. Len(stack) : i \in 1 .. Len(stack') \/ i = Len(stack)
    BY <2>1
  <2> QED BY <1>3, <2>1, <2>2 DEF SeenBy
<1>5. ASSUME NEW f \in Frame, Continue(f)
      PROVE  /\ Len(stack) \in 1 .. Len(stack') /\ stack'[Len(stack)] = f
             /\ \A q : SeenBy(q) => SeenBy(q)' \/ (Top.at = "update" /\ q = Top.pid)
  <2>1. /\ Len(stack) \in Nat \ {0} /\ Len(stack') = Len(stack) /\ stack'[Len(stack)] = f
        /\ \A i \in 1 .. Len(stack) : i # Len(stack) => stack'[i] = stack[i]
    BY <1>1, <1>3, <1>5, Replaced DEF Continue
  <2> QED BY <1>3, <2>1 DEF SeenBy
<1>6. CASE ChldReturn
  <2>1. jobs' = jobs /\ proc' = proc /\ reg' = reg /\ pc' = pc /\ Top.at = "start" /\ Return
    BY <1>6 DEF ChldReturn, HandlerAt, shell, world
  <2>2. \A t \in Slots : SeenBy(jobs[t].pid) => SeenBy(jobs[t].pid)'
    BY <1>4, <2>1 DEF SeenBy
  <2> QED BY <2>1, <2>2, NoFgKept DEF NoFg
<1>7. CASE KeyFgpid
  <2>1. jobs' = jobs /\ proc' = proc /\ reg' = reg /\ pc' = pc /\ Top.at = "start"
    BY <1>7 DEF KeyFgpid, HandlerAt, shell, world
  <2>2. \A q : SeenBy(q) => SeenBy(q)'
    <3>1. CASE fgpid(jobs) = 0
      BY <1>4, <1>7, <2>1, <3>1 DEF KeyFgpid
    <3>2. CASE fgpid(jobs) # 0
      <4>1. stack' \in Seq(Frame)
        BY <1>7, KeyFgpidStep DEF Inv, Types
      <4>2. PICK f : Continue(f) /\ f = [Top EXCEPT !.at = "kill", !.pid = fgpid(jobs)]
        BY <1>7, <3>2 DEF KeyFgpid
      <4>3. f \in Frame
        <5>1. stack' = Append(Below, f) /\ Below \in Seq(Frame)
          BY <1>1, <1>3, <4>2, BelowIs DEF Continue
        <5>2. Len(stack') \in 1 .. Len(stack') /\ stack'[Len(stack')] = f
          BY <5>1
        <5> QED BY <4>1, <5>2
      <4> QED BY <1>5, <2>1, <4>2, <4>3
    <3> QED BY <3>1, <3>2
  <2>3. \A t \in Slots : SeenBy(jobs[t].pid) => SeenBy(jobs[t].pid)'
    BY <2>1, <2>2 DEF SeenBy
  <2> QED BY <2>1, <2>3, NoFgKept DEF NoFg
<1>8. CASE KeyKill
  <2>1. jobs' = jobs /\ reg' = reg /\ Top.at = "kill" /\ Top.sig \in {"INT", "TSTP"}
    BY <1>8 DEF KeyKill, HandlerAt, shell
  <2>2. pc \in ForegroundPC /\ Top.pid \in Procs
    BY <1>3, <2>1 DEF Inv, FramesCurrent
  <2>3. CASE GroupExists(Top.pid)
    <3>1. Send(Top.pid, Top.sig) /\ Return /\ pc' = pc
      BY <1>8, <2>3 DEF KeyKill
    <3>2. ProcKept
      BY <2>1, <2>2, <3>1, SendKeeps DEF Inv, Types, WorldTypes
    <3>3. \A t \in Slots : SeenBy(jobs[t].pid) => SeenBy(jobs[t].pid)'
      BY <1>4, <2>1, <3>1 DEF SeenBy
    <3> QED BY <2>1, <3>1, <3>2, <3>3, NoFgKept DEF NoFg, ProcKept
  <2>4. CASE ~GroupExists(Top.pid)
    <3>1. pc' = "aborted" /\ stack' = stack /\ proc' = proc
      BY <1>8, <2>4 DEF KeyKill
    <3>2. \A t \in Slots : SeenBy(jobs[t].pid) => SeenBy(jobs[t].pid)'
      BY <2>1, <3>1 DEF SeenBy
    <3> QED BY <2>1, <2>2, <3>1, <3>2, NoFgKept DEF ForegroundPC, FgPC
  <2> QED BY <2>3, <2>4
<1>9. CASE ChldWaitpid
  <2>1. jobs' = jobs /\ reg' = reg /\ pc' = pc /\ Top.at = "start"
    BY <1>9 DEF ChldWaitpid, HandlerAt, shell
  <2>2. PICK p \in Procs :
          /\ proc' = [proc EXCEPT ![p] = IF proc[p] = "zombie" THEN "reaped" ELSE "stopped"]
          /\ Continue([Top EXCEPT !.at = "update", !.pid = p, !.stopped = proc[p] = "stopping"])
    BY <1>9 DEF ChldWaitpid, Reportable
  <2> DEFINE f == [Top EXCEPT !.at = "update", !.pid = p, !.stopped = proc[p] = "stopping"]
  <2>3. Top \in Frame /\ p \in 0 .. MaxForks
    BY <1>1, <1>3, BelowIs, ShellAssumption DEF Procs
  <2>4. f \in Frame /\ f.at = "update" /\ f.pid = p /\ Continue(f)
    BY <2>2, <2>3 DEF Frame
  <2> HIDE DEF f
  <2>5. Len(stack) \in 1 .. Len(stack') /\ stack'[Len(stack)] = f /\ \A q : SeenBy(q) => SeenBy(q)'
    BY <1>5, <2>1, <2>4
  <2>6. SeenBy(p)'
    BY <2>4, <2>5 DEF SeenBy
  <2>7. \A q \in Procs : proc'[q] = "stopped" => proc[q] = "stopped" \/ SeenBy(q)'
    BY <2>2, <2>6 DEF Inv, Types
  <2>8. \A t \in Slots : SeenBy(jobs[t].pid) => SeenBy(jobs[t].pid)'
    BY <2>1, <2>5 DEF SeenBy
  <2> QED BY <2>1, <2>7, <2>8, NoFgKept DEF NoFg
<1>10. CASE ChldUpdate
  <2> DEFINE p == Top.pid
             s == getjobpid(jobs, p)
  <2>1. proc' = proc /\ reg' = reg /\ pc' = pc /\ Top.at = "update"
    BY <1>10 DEF ChldUpdate, HandlerAt, world
  <2>2. p \in 1 .. MaxForks
    BY <1>3, <2>1 DEF Inv, FramesCurrent, Procs
  <2>3. /\ s # 0 => s \in Slots /\ jobs[s].pid = p
        /\ s = 0 => \A t \in Slots : jobs[t].pid # p
        /\ \A t \in Slots : jobs[t].pid = p => s = t
    BY <2>2, GetJobPid
  <2>4. CASE s = 0
    <3>1. Return /\ jobs' = jobs
      BY <1>10, <2>4 DEF ChldUpdate
    <3>2. \A t \in Slots : SeenBy(jobs[t].pid) => SeenBy(jobs[t].pid)'
      BY <1>4, <2>3, <2>4, <3>1 DEF SeenBy
    <3> QED BY <2>1, <3>1, <3>2, NoFgKept DEF NoFg
  <2>5. CASE s # 0
    <3>1. /\ Continue([Top EXCEPT !.at = "start"])
          /\ \/ Top.stopped /\ jobs' = setstate(jobs, s, "ST")
             \/ ~Top.stopped /\ jobs' = clearjob(jobs, s)
      BY <1>10, <2>5 DEF ChldUpdate
    <3>2. [Top EXCEPT !.at = "start"] \in Frame
      <4>1. Top \in Frame
        BY <1>1, <1>3, BelowIs
      <4> QED BY <4>1 DEF Frame
    <3>3. s \in Slots /\ \A t \in Slots : jobs[t].pid = p <=> s = t
      BY <2>3, <2>5
    <3>4. \A q : SeenBy(q) => SeenBy(q)' \/ q = p
      BY <1>5, <3>1, <3>2
    <3> HIDE DEF s, p
    <3>5. \A t \in Slots : /\ t # s => jobs'[t] = jobs[t]
                           /\ \/ jobs'[t].pid = 0 /\ jobs'[t].state = "UNDEF"
                              \/ jobs'[t].pid = jobs[t].pid /\ jobs'[t].state = "ST"
                              \/ t # s
      <4>1. CASE Top.stopped /\ jobs' = setstate(jobs, s, "ST")
        <5>1. jobs' = [jobs EXCEPT ![s].state = "ST"]
          BY <4>1 DEF setstate
        <5> QED BY <1>1, <3>3, <5>1 DEF JobType
      <4>2. CASE ~Top.stopped /\ jobs' = clearjob(jobs, s)
        <5>1. jobs' = [jobs EXCEPT ![s] = ClearJob] /\ ClearJob.pid = 0 /\ ClearJob.state = "UNDEF"
          BY <4>2 DEF clearjob, ClearJob
        <5> QED BY <1>1, <3>3, <5>1
      <4> QED BY <3>1, <4>1, <4>2
    <3>6. StoppedJobIsST'
      <4> SUFFICES ASSUME NEW t \in Slots
                   PROVE  \/ jobs'[t].pid = 0 \/ proc'[jobs'[t].pid] # "stopped"
                          \/ jobs'[t].state = "ST"
                          \/ pc' \in {"bg_cont", "bg_kill", "fg_cont", "fg_kill"} /\ reg'.slot = t
                          \/ SeenBy(jobs[t].pid)'
        BY StoppedIs
      <4>1. CASE t = s
        BY <3>5, <4>1
      <4>2. CASE t # s
        <5>1. jobs'[t] = jobs[t] /\ jobs[t].pid # p
          BY <3>3, <3>5, <4>2
        <5>2. SeenBy(jobs[t].pid) => SeenBy(jobs[t].pid)'
          BY <3>4, <5>1 DEF SeenBy
        <5> QED BY <2>1, <5>1, <5>2, StoppedIs DEF NoFg
      <4> QED BY <4>1, <4>2
    <3> QED BY <2>1, <3>5, <3>6 DEF NoFg
  <2> QED BY <2>4, <2>5
<1> QED BY <1>6, <1>7, <1>8, <1>9, <1>10 DEF Handler

(* NoFg is an invariant of the shell of a user who does not type fg.       *)
THEOREM NoFgInvariant ==
    ASSUME "fg" \notin Builtins
    PROVE  Spec => []NoFg
<1>1. Inv /\ NoFg /\ [Next]_vars => NoFg'
  <2> SUFFICES ASSUME Inv, NoFg, [Next]_vars PROVE NoFg'
    OBVIOUS
  <2>1. CASE UNCHANGED vars
    <3>1. UNCHANGED <<shell, cpu>> /\ ProcKept
      BY <2>1 DEF vars, world, ProcKept
    <3> QED BY <3>1, NoFgWorld
  <2> QED BY <2>1, NoFgMain, NoFgHandlers, NoFgOutside DEF Next
<1> QED BY <1>1, NoFgInit, InvInvariant, PTL DEF Spec

(* "At most 1 job can be in the FG state" (tsh.c:35) and none at the       *)
(* prompt, in every interleaving, if the user does not type fg.            *)
THEOREM ForegroundDisciplineAlways ==
    ASSUME "fg" \notin Builtins
    PROVE  Spec => []ForegroundDiscipline
<1>1. NoFg => AtMostOneFG
  <2> SUFFICES ASSUME NoFg PROVE AtMostOneFG
    OBVIOUS
  <2> DEFINE F == {s \in Slots : jobs[s].state = "FG"}
  <2>1. CASE F = {}
    BY <2>1, FS_EmptySet DEF AtMostOneFG
  <2>2. CASE F # {}
    <3>1. PICK s \in Slots : F = {s}
      BY <2>2 DEF NoFg
    <3>2. Cardinality(F) = 1
      BY <3>1, FS_Singleton
    <3> QED BY <3>2 DEF AtMostOneFG
  <2> QED BY <2>1, <2>2
<1> QED BY <1>1, NoFgInvariant, NoForegroundAtPromptAlways, PTL DEF ForegroundDiscipline

(* No stop is overlooked: a job whose process the shell has seen stop is   *)
(* listed as stopped until bg is about to continue it, if the user does    *)
(* not type fg.                                                            *)
THEOREM StoppedJobIsSTAlways ==
    ASSUME "fg" \notin Builtins
    PROVE  Spec => []StoppedJobIsST
BY NoFgInvariant, PTL DEF NoFg

============================================================================
