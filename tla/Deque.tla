------------------------------- MODULE Deque --------------------------------
(***************************************************************************)
(* What queue.h of the C programming lab promises: a sequence of strings   *)
(* that is created, freed, extended at both ends, shortened at its head    *)
(* and reversed.  An operation that the time limit has cut short (lost)    *)
(* ends the promise.                                                       *)
(***************************************************************************)
EXTENDS Sequences, SequencesExt

VARIABLES call, arg,  \* the call in progress and its argument: inputs
          there,      \* is there a queue?
          contents,   \* its strings
          lost        \* has an operation been cut short?

DequeInit == there = FALSE /\ contents = << >> /\ lost = FALSE

Change(t, s) == ~lost /\ ~lost' /\ there' = t /\ contents' = s

New == call = "new" /\ ~there /\ Change(TRUE, << >>)
InsertHead == call = "ih" /\ there /\ Change(TRUE, <<arg>> \o contents)
InsertTail == call = "it" /\ there /\ Change(TRUE, Append(contents, arg))
RemoveHead == call \in {"rh", "rhq"} /\ there /\ contents # << >> /\ Change(TRUE, Tail(contents))
ReverseAll == call = "reverse" /\ there /\ Change(TRUE, Reverse(contents))
FreeSome == call \in {"free", "quit"} /\ there /\ contents # << >> /\ Change(TRUE, Tail(contents))
FreeAll == call = "free" /\ there /\ Change(FALSE, << >>)
Cut == lost' = TRUE

DequeNext == \/ New \/ InsertHead \/ InsertTail \/ RemoveHead \/ ReverseAll
             \/ FreeSome \/ FreeAll \/ Cut

DequeSpec == DequeInit /\ [][DequeNext]_<<there, contents, lost>>
=============================================================================
