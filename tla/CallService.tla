------------------------------ MODULE CallService ------------------------------
(***************************************************************************)
(* What teleport-express promises a guest about the calls it issues: calls *)
(* for the same thread are served in the order in which they were issued,  *)
(* every call is served once, and its buffers come back once and only      *)
(* after it was served.  Nothing here says through which queues.           *)
(***************************************************************************)
EXTENDS Sequences

CONSTANTS Calls, Servers

VARIABLES todo,       \* todo[s]: the calls issued for s and not yet served
          served,     \* calls served, whose buffers are still with the host
          avail       \* calls the guest owns

Init == todo = [s \in Servers |-> <<>>] /\ served = {} /\ avail = Calls

Issue(c, s) ==
  /\ c \in avail
  /\ avail' = avail \ {c}
  /\ todo' = [todo EXCEPT ![s] = Append(@, c)]
  /\ UNCHANGED served

(* A call no thread serves is answered on the spot.                        *)
Answer(c) ==
  /\ c \in avail
  /\ avail' = avail \ {c} /\ served' = served \cup {c}
  /\ UNCHANGED todo

Serve(s) ==
  /\ todo[s] # <<>>
  /\ served' = served \cup {Head(todo[s])}
  /\ todo' = [todo EXCEPT ![s] = Tail(@)]
  /\ UNCHANGED avail

Return(c) ==
  /\ c \in served
  /\ served' = served \ {c} /\ avail' = avail \cup {c}
  /\ UNCHANGED todo

Next ==
  \/ \E s \in Servers : Serve(s) \/ \E c \in Calls : Issue(c, s)
  \/ \E c \in Calls : Answer(c) \/ Return(c)

Spec == Init /\ [][Next]_<<todo, served, avail>>
================================================================================
