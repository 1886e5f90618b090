------------------------------ MODULE Background ------------------------------
(* Schedule and the background thread (util/env_posix.cc): a queue under a  *)
(* mutex and a condition variable; the actions are what is done while the   *)
(* mutex is held, up to a wait or to its release.                           *)
EXTENDS Integers, Sequences

CONSTANTS Items      \* what may be scheduled, each once

VARIABLES queue, started,
          thread,    \* "none", "top", "waiting", "signalled" or "running"
          asked,     \* the items in the order of their Schedule calls
          ran        \* the items in the order in which their functions began

vars == <<queue, started, thread, asked, ran>>
Scheduled == {asked[i] : i \in DOMAIN asked}

Init == queue = <<>> /\ started = FALSE /\ thread = "none" /\ asked = <<>> /\ ran = <<>>

(* The signal wakes the thread only if it waits then.                       *)
Wakes == queue = <<>> /\ thread = "waiting"

(* The thread is created on the first call, and only then.                  *)
Schedule(i) ==
  /\ i \notin Scheduled
  /\ started' = TRUE
  /\ thread' = (IF ~started THEN "top" ELSE IF Wakes THEN "signalled" ELSE thread)
  /\ queue' = Append(queue, i)
  /\ asked' = Append(asked, i)
  /\ UNCHANGED ran

(* A wait may also end by itself.                                           *)
Wait ==
  /\ thread \in {"top", "signalled"} /\ queue = <<>>
  /\ thread' = "waiting"
  /\ UNCHANGED <<queue, started, asked, ran>>
Spurious ==
  /\ thread = "waiting" /\ thread' = "signalled"
  /\ UNCHANGED <<queue, started, asked, ran>>

Take ==
  /\ thread \in {"top", "signalled"} /\ queue # <<>>
  /\ queue' = Tail(queue)
  /\ ran' = Append(ran, Head(queue))
  /\ thread' = "running"
  /\ UNCHANGED <<started, asked>>

(* The function returns; it may have scheduled more, as compactions do.     *)
Return == thread = "running" /\ thread' = "top" /\ UNCHANGED <<queue, started, asked, ran>>

Next == (\E i \in Items : Schedule(i)) \/ Wait \/ Spurious \/ Take \/ Return
Spec == Init /\ [][Next]_vars

(* The thread gets the mutex, and functions return.                         *)
FairSpec == Spec /\ WF_vars(Wait) /\ WF_vars(Take) /\ WF_vars(Return)

-----------------------------------------------------------------------------
(* env.h:133: each item runs once; with the one thread that there is, in    *)
(* the order of the calls, and not before the item before has returned.     *)
InOrder == asked = ran \o queue

(* What is scheduled runs, whenever the call fell: before the thread began  *)
(* to wait, while it waited, or after the signal that it has not yet seen.  *)
Runs == \A i \in Items : (i \in Scheduled) ~> (\E n \in DOMAIN ran : ran[n] = i)
=============================================================================
