------------------------------- MODULE CallFifo -------------------------------
(***************************************************************************)
(* What a thread context's call buffer promises to its two users: a        *)
(* bounded first-in first-out queue of calls.  call_push appends, call_pop *)
(* hands out the oldest call.  Nothing here says how.                      *)
(***************************************************************************)
EXTENDS Naturals, Sequences

CONSTANTS Calls,      \* the calls that can be queued
          Capacity,   \* the number of calls the queue holds at most
          NULL        \* no call

VARIABLES queue,      \* the calls pushed and not yet popped, oldest first
          out         \* the call popped last, NULL before the first pop

Init == queue = <<>> /\ out = NULL

Push(c) ==
  /\ Len(queue) < Capacity
  /\ queue' = Append(queue, c)
  /\ UNCHANGED out

Pop ==
  /\ queue # <<>>
  /\ out' = Head(queue)
  /\ queue' = Tail(queue)

Next == Pop \/ \E c \in Calls : Push(c)

Spec == Init /\ [][Next]_<<queue, out>>
===============================================================================
