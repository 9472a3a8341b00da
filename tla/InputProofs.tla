------------------------------ MODULE InputProofs -----------------------------
(***************************************************************************)
(* The irq call of an input device is always in exactly one place, for any *)
(* set of device threads: for the interrupts of DeviceIrq alone, and so    *)
(* for the touch screen of TouchInput and the network bridge of Bridge,    *)
(* whose steps are steps of DeviceIrq or leave its variables alone.        *)
(*                                                                         *)
(* Every exchange of irq_call is atomic, so most steps move the call from  *)
(* one place to the next.  The exception is the plain store with which a   *)
(* release clears its mark: it is safe because register_input_vq_locker    *)
(* keeps the other thread from registering a call meanwhile.               *)
(*                                                                         *)
(* What arrives through the bridge reaches the guest in order, for every   *)
(* size of its ring and of its cache.                                      *)
(***************************************************************************)
EXTENDS TouchInput, Bridge, TLAPS

InQueue(q, i) == i \in 1 .. Len(q) /\ q[i] = "register"
InSlot(q, i)  == i \in QueueSlots /\ q[i] = "register"
NotQueued == \A i : ~InQueue(inq, i)
NotInSlot == \A i : ~InSlot(queue, i)
NotInHand == \A t \in Threads : lpc[t] # "reg_swap"
NotTaken  == \A a \in Senders : ~Sends(a)

Somewhere ==
  \/ "register" \in guest \/ irq_call = CALL
  \/ (\E i : InQueue(inq, i)) \/ (\E i : InSlot(queue, i))
  \/ (\E t \in Threads : lpc[t] = "reg_swap")
  \/ (\E a \in Senders : Sends(a))

NowhereElse ==
  /\ "register" \in guest => irq_call # CALL /\ NotQueued /\ NotInSlot /\ NotInHand /\ NotTaken
  /\ irq_call = CALL => NotQueued /\ NotInSlot /\ NotInHand /\ NotTaken
  /\ \A i : InSlot(queue, i) => NotQueued /\ NotInHand /\ NotTaken
  /\ \A i, j : InSlot(queue, i) /\ InSlot(queue, j) => i = j
  /\ \A i : InQueue(inq, i) => NotInHand /\ NotTaken
  /\ \A i, j : InQueue(inq, i) /\ InQueue(inq, j) => i = j
  /\ \A t \in Threads : lpc[t] = "reg_swap" => NotTaken
  /\ \A t, u \in Threads : lpc[t] = "reg_swap" /\ lpc[u] = "reg_swap" => t = u
  /\ \A a, b \in Senders : Sends(a) /\ Sends(b) => a = b

(* The locker admits one thread; the mark is cleared while it is there, or *)
(* has been taken.                                                         *)
Locked ==
  /\ \A t \in Threads : lpc[t] # "out" => locker = 1
  /\ \A t, u \in Threads : lpc[t] # "out" /\ lpc[u] # "out" => t = u
  /\ \A t \in Threads : lpc[t] \in {"rel_send", "rel_clear"} => irq_call # CALL

(* A thread is in input_call_release only where it calls it.               *)
InCallback ==
  /\ \A t \in Threads : cb[t].at # "none" => lpc[t] \in {"reg_send", "rel_send", "rel_done"}
  /\ \A s \in Setters : cb[s].at # "none" => spc[s] = "send"

IrqTyped ==
  /\ inq \in Seq(Kinds)
  /\ lpc \in [Threads -> {"out", "next", "reg_swap", "reg_again", "reg_send", "reg_enable",
                          "rel_disable", "rel_swap", "rel_send", "rel_clear", "rel_done",
                          "sync", "unlock"}]
  /\ spc \in [Setters -> {"idle", "swap", "send"}]
  /\ queue \in [QueueSlots -> Kinds \cup {"none"}]
  /\ tail \in QueueSlots
  /\ cb \in [Senders -> [at : {"none", "scan", "tail"}, origin_tail : QueueSlots, t : QueueSlots]]

IrqIInv == IrqTyped /\ Somewhere /\ NowhereElse /\ Locked /\ InCallback

-------------------------------------------------------------------------------
(* The numbers of the slots, whichever of them the header is at.           *)
LEMMA SlotNumbers ==
  ASSUME NEW i \in QueueSlots
  PROVE  /\ After(i) \in QueueSlots /\ Before(i) \in QueueSlots
         /\ After(i) = IF i = QueueSize - 1 THEN 0 ELSE i + 1
         /\ Before(i) = IF i = 0 THEN QueueSize - 1 ELSE i - 1
<1>1. i \in Nat /\ i < QueueSize /\ QueueSize \in Nat /\ QueueSize >= 3
  BY QueueAssumption DEF QueueSlots
<1>2. (i + 1) % QueueSize = IF i = QueueSize - 1 THEN 0 ELSE i + 1
  BY <1>1
<1>3. (i + QueueSize - 1) % QueueSize = IF i = 0 THEN QueueSize - 1 ELSE i - 1
  BY <1>1
<1> QED BY <1>1, <1>2, <1>3 DEF After, Before, QueueSlots

(* A step that leaves every place of the call as it is.                    *)
LEMMA SamePlaces ==
  ASSUME Somewhere, NowhereElse,
         "register" \in guest' <=> "register" \in guest,
         irq_call' = CALL <=> irq_call = CALL,
         \A i : InQueue(inq', i) <=> InQueue(inq, i),
         \A i : InSlot(queue', i) <=> InSlot(queue, i),
         \A t \in Threads : lpc'[t] = "reg_swap" <=> lpc[t] = "reg_swap",
         \A a \in Senders : Sends(a)' <=> Sends(a)
  PROVE  Somewhere' /\ NowhereElse'
BY DEF Somewhere, NowhereElse, NotQueued, NotInSlot, NotInHand, NotTaken

LEMMA IrqInit == Init => IrqIInv
<1> SUFFICES ASSUME Init PROVE IrqIInv
  OBVIOUS
<1>1. IrqTyped
  BY QueueAssumption DEF Init, IrqTyped, Kinds, QueueSlots, NoCallback
<1>2. (\A a \in Senders : ~Sends(a)) /\ InCallback
  BY SettersAssumption DEF Init, Sends, InCallback, Senders, NoCallback
<1> QED
  BY <1>1, <1>2, IrqCallAssumption
  DEF Init, IrqIInv, Somewhere, NowhereElse, Locked, InQueue, InSlot, NotQueued, NotInSlot,
      NotInHand, NotTaken, Kinds

(* Sends depends on where a thread is, and on nothing else.                *)
LEMMA SameSends ==
  ASSUME NEW a \in Senders, cb'[a].at = cb[a].at,
         a \in Threads => (lpc'[a] \in {"reg_send", "rel_send"} <=> lpc[a] \in {"reg_send", "rel_send"}),
         a \notin Threads => (spc'[a] = "send" <=> spc[a] = "send")
  PROVE  Sends(a)' <=> Sends(a)
BY DEF Sends

LEMMA GuestKeeps ==
  ASSUME IrqIInv, GuestRegister \/ GuestRelease \/ Shutdown
  PROVE  IrqIInv'
<1> USE IrqCallAssumption DEF IrqIInv
<1>0. UNCHANGED <<lpc, spc, irq_call, qvars, locker>>
  BY DEF GuestRegister, GuestRelease, GuestSend, Shutdown
<1>1. Locked' /\ InCallback' /\ (IrqTyped' <=> inq' \in Seq(Kinds))
  BY <1>0 DEF Locked, InCallback, IrqTyped, qvars
<1>2. \A a \in Senders : Sends(a)' <=> Sends(a)
  BY <1>0 DEF Sends, qvars
<1>3. inq \in Seq(Kinds)
  BY DEF IrqTyped
<1>4. CASE GuestRegister
  <2>1. "register" \in guest /\ guest' = guest \ {"register"} /\ inq' = Append(inq, "register")
    BY <1>4 DEF GuestRegister, GuestSend
  <2>2. inq' \in Seq(Kinds) /\ \A i : InQueue(inq', i) <=> i = Len(inq) + 1
    <3>1. NotQueued
      BY <2>1 DEF NowhereElse
    <3>2. /\ inq' \in Seq(Kinds) /\ Len(inq') = Len(inq) + 1 /\ Len(inq) \in Nat
          /\ inq'[Len(inq) + 1] = "register" /\ \A i \in 1 .. Len(inq) : inq'[i] = inq[i]
      BY <1>3, <2>1 DEF Kinds
    <3> QED BY <3>1, <3>2 DEF NotQueued, InQueue
  <2>3. Somewhere' /\ NowhereElse'
    BY <1>0, <1>2, <2>1, <2>2 DEF Somewhere, NowhereElse, NotQueued, NotInSlot, NotInHand, NotTaken, qvars
  <2> QED BY <1>1, <2>2, <2>3
<1>5. CASE GuestRelease
  <2>1. guest' = guest \ {"release"} /\ inq' = Append(inq, "release")
    BY <1>5 DEF GuestRelease, GuestSend
  <2>2. inq' \in Seq(Kinds) /\ \A i : InQueue(inq', i) <=> InQueue(inq, i)
    BY <1>3, <2>1 DEF InQueue, Kinds
  <2>3. Somewhere' /\ NowhereElse'
    BY <1>0, <1>2, <2>1, <2>2, SamePlaces DEF qvars
  <2> QED BY <1>1, <2>2, <2>3
<1>6. CASE Shutdown
  <2>1. UNCHANGED <<guest, inq>>
    BY <1>6 DEF Shutdown, gvars
  <2>2. Somewhere' /\ NowhereElse'
    BY <1>0, <1>2, <2>1, SamePlaces DEF qvars
  <2> QED BY <1>1, <1>3, <2>1, <2>2
<1> QED BY <1>4, <1>5, <1>6

(* L_Next takes the first call of the input queue.                         *)
LEMMA NextKeeps ==
  ASSUME IrqIInv, NEW t \in Threads, L_Next(t)
  PROVE  Somewhere' /\ NowhereElse' /\ inq' \in Seq(Kinds)
<1> USE DEF IrqIInv
<1>1. /\ inq # <<>> /\ inq' = Tail(inq) /\ lpc[t] = "next" /\ inq \in Seq(Kinds)
      /\ lpc' = [lpc EXCEPT ![t] = IF Head(inq) = "register" THEN "reg_swap" ELSE "rel_disable"]
      /\ UNCHANGED <<spc, irq_call, queue, cb, guest>>
  BY DEF L_Next, At, gvars, qvars, IrqTyped
<1>2. inq' \in Seq(Kinds) /\ \A i : InQueue(inq', i) <=> i >= 1 /\ i \in Int /\ InQueue(inq, i + 1)
  BY <1>1 DEF InQueue
<1>3. Head(inq) = "register" <=> InQueue(inq, 1)
  BY <1>1 DEF InQueue
<1>4. \A i : InQueue(inq, i) => i \in Int /\ i >= 1
  BY DEF InQueue
<1>5. /\ \A u \in Threads : u # t => lpc'[u] = lpc[u]
      /\ lpc'[t] = IF Head(inq) = "register" THEN "reg_swap" ELSE "rel_disable"
  BY <1>1 DEF IrqTyped
<1>6. \A a \in Senders : Sends(a)' <=> Sends(a)
  BY <1>1, <1>5 DEF Sends
<1>7. CASE Head(inq) = "register"
  <2>1. NotQueued'
    BY <1>2, <1>3, <1>4, <1>7 DEF NowhereElse, NotQueued
  <2> QED BY <1>1, <1>2, <1>3, <1>5, <1>6, <1>7, <2>1
          DEF Somewhere, NowhereElse, NotQueued, NotInSlot, NotInHand, NotTaken
<1>8. CASE Head(inq) # "register"
  <2>1. /\ (\E i : InQueue(inq, i)) => \E i : InQueue(inq', i)
        /\ \A i : InQueue(inq', i) => InQueue(inq, i + 1) /\ i \in Int
    <3>1. ASSUME NEW i, InQueue(inq, i) PROVE InQueue(inq', i - 1)
      <4>1. i \in Int /\ i >= 1 /\ i # 1
        BY <1>3, <1>4, <1>8, <3>1
      <4>2. i - 1 >= 1 /\ i - 1 \in Int /\ (i - 1) + 1 = i
        BY <4>1
      <4> QED BY <1>2, <3>1, <4>2
    <3> QED BY <3>1, <1>2
  <2>2. \A u \in Threads : lpc'[u] = "reg_swap" <=> lpc[u] = "reg_swap"
    BY <1>1, <1>5, <1>8
  <2> QED BY <1>1, <1>2, <1>6, <1>8, <2>1, <2>2
          DEF Somewhere, NowhereElse, NotQueued, NotInSlot, NotInHand, NotTaken
<1> QED BY <1>2, <1>7, <1>8

(* input_call_release moves the call from the hands of thread a into a     *)
(* slot that was empty, in the step that fills the slot.                   *)
LEMMA CallbackTyped ==
  ASSUME IrqTyped, NEW a \in Senders, NEW call \in Kinds,
         CB_Begin(a) \/ CB_Scan(a, call) \/ CB_Tail(a)
  PROVE  /\ queue' \in [QueueSlots -> Kinds \cup {"none"}] /\ tail' \in QueueSlots
         /\ cb' \in [Senders -> [at : {"none", "scan", "tail"}, origin_tail : QueueSlots, t : QueueSlots]]
         /\ \A b \in Senders : b # a => cb'[b] = cb[b]
         /\ CB_Tail(a) => cb'[a].at = "none"
<1>0. 0 \in QueueSlots /\ After(cb[a].t) \in QueueSlots
  <2>1. 0 \in QueueSlots
    BY QueueAssumption DEF QueueSlots
  <2>2. After(cb[a].t) \in QueueSlots
    BY SlotNumbers DEF IrqTyped
  <2> QED BY <2>1, <2>2
<1>1. CASE CB_Begin(a)
  BY <1>0, <1>1 DEF CB_Begin, CB_Tail, IrqTyped
<1>2. CASE CB_Scan(a, call)
  <2>1. CASE queue[After(cb[a].t)] # "none"
    BY <1>0, <1>2, <2>1 DEF CB_Scan, CB_Tail, IrqTyped
  <2>2. CASE queue[After(cb[a].t)] = "none"
    BY <1>0, <1>2, <2>2 DEF CB_Scan, CB_Tail, IrqTyped
  <2> QED BY <2>1, <2>2
<1>3. CASE CB_Tail(a)
  BY <1>0, <1>3 DEF CB_Tail, NoCallback, IrqTyped
<1> QED BY <1>1, <1>2, <1>3

LEMMA FillsSlot ==
  ASSUME IrqTyped, NEW a \in Senders, NEW call \in Kinds, CB_Scan(a, call),
         queue[After(cb[a].t)] = "none"
  PROVE  /\ \A i : InSlot(queue', i) <=> InSlot(queue, i) \/ (i = After(cb[a].t) /\ call = "register")
         /\ ~InSlot(queue, After(cb[a].t))
         /\ cb[a].at = "scan" /\ cb'[a].at = "tail"
<1>1. After(cb[a].t) \in QueueSlots
  BY SlotNumbers DEF IrqTyped
<1>2. queue' = [queue EXCEPT ![After(cb[a].t)] = call] /\ cb' = [cb EXCEPT ![a].at = "tail"]
  BY DEF CB_Scan
<1> QED BY <1>1, <1>2 DEF IrqTyped, InSlot, CB_Scan

(* express_input_device_sync renumbers the slots.                          *)
LEMMA SyncRenumbers ==
  ASSUME IrqTyped, NEW t \in Threads, L_Sync(t)
  PROVE  /\ IrqTyped'
         /\ \A i \in QueueSlots : queue'[i] = IF i = 0 THEN "none" ELSE queue[After(i)]
         /\ \A a \in Senders : cb'[a].at = cb[a].at
<1>1. \A i \in QueueSlots : After(i) \in QueueSlots /\ Before(i) \in QueueSlots
  BY SlotNumbers
<1>2. /\ queue' = [i \in QueueSlots |-> IF i = 0 THEN "none" ELSE queue[After(i)]]
      /\ tail' = Before(tail) /\ cb' = [a \in Senders |-> Renumbered(cb[a])]
      /\ UNCHANGED <<inq, lpc, spc>>
  BY DEF L_Sync
<1>3. \A a \in Senders :
        /\ Renumbered(cb[a]) \in [at : {"none", "scan", "tail"}, origin_tail : QueueSlots, t : QueueSlots]
        /\ Renumbered(cb[a]).at = cb[a].at
  BY <1>1 DEF Renumbered, IrqTyped
<1>4. /\ queue' \in [QueueSlots -> Kinds \cup {"none"}]
      /\ \A i \in QueueSlots : queue'[i] = IF i = 0 THEN "none" ELSE queue[After(i)]
  BY <1>1, <1>2 DEF IrqTyped
<1>5. /\ cb' \in [Senders -> [at : {"none", "scan", "tail"}, origin_tail : QueueSlots, t : QueueSlots]]
      /\ \A a \in Senders : cb'[a].at = cb[a].at
  BY <1>2, <1>3
<1> QED BY <1>1, <1>2, <1>4, <1>5 DEF IrqTyped

LEMMA SyncKeeps ==
  ASSUME IrqIInv, NEW t \in Threads, L_Sync(t)
  PROVE  Somewhere' /\ NowhereElse'
<1> USE DEF IrqIInv
<1>1. /\ UNCHANGED <<inq, irq_call, lpc, spc>> /\ queue[1] # "none" /\ guest' = guest \cup {queue[1]}
  BY DEF L_Sync
<1>2. \A i \in QueueSlots : queue'[i] = IF i = 0 THEN "none" ELSE queue[After(i)]
  BY SyncRenumbers
<1>3. \A a \in Senders : Sends(a)' <=> Sends(a)
  BY <1>1, SyncRenumbers DEF Sends
<1>4. 0 \in QueueSlots /\ 1 \in QueueSlots /\ After(0) = 1
  BY QueueAssumption, SlotNumbers DEF QueueSlots
<1>5. \A i : InSlot(queue', i) => InSlot(queue, After(i)) /\ i # 0
  BY <1>2, SlotNumbers DEF InSlot
<1>6. \A i \in QueueSlots : After(Before(i)) = i /\ (Before(i) = 0 <=> i = 1)
  BY SlotNumbers, QueueAssumption DEF QueueSlots
<1>7. \A i : InSlot(queue, i) /\ i # 1 => InSlot(queue', Before(i))
  BY <1>2, <1>6, SlotNumbers DEF InSlot
<1>8. \A i, j \in QueueSlots : After(i) = After(j) => i = j
  BY SlotNumbers, QueueAssumption DEF QueueSlots
<1>9. CASE queue[1] = "register"
  <2>1. InSlot(queue, 1) /\ "register" \notin guest
    BY <1>4, <1>9 DEF InSlot, NowhereElse, NotInSlot
  <2>2. NotInSlot'
    <3>1. \A i \in QueueSlots : After(i) = 1 => i = 0
      BY <1>4, <1>8
    <3> QED BY <2>1, <3>1, <1>5 DEF NotInSlot, NowhereElse, InSlot
  <2> QED BY <1>1, <1>3, <1>9, <2>1, <2>2 DEF Somewhere, NowhereElse, NotQueued, NotInSlot, NotInHand, NotTaken
<1>10. CASE queue[1] # "register"
  <2>1. \A i : InSlot(queue, i) => InSlot(queue', Before(i))
    BY <1>7, <1>10 DEF InSlot
  <2>2. \A i, j : InSlot(queue', i) /\ InSlot(queue', j) => i = j
    BY <1>5, <1>8 DEF NowhereElse, InSlot
  <2>3. "register" \in guest' <=> "register" \in guest
    BY <1>1, <1>10
  <2> QED BY <1>1, <1>3, <1>5, <2>1, <2>2, <2>3
          DEF Somewhere, NowhereElse, NotQueued, NotInSlot, NotInHand, NotTaken
<1> QED BY <1>9, <1>10

(* The callback, by a thread of the handler and by a device thread.        *)
LEMMA CallbackKeeps ==
  ASSUME IrqIInv, NEW a \in Senders, NEW call \in Kinds,
         \/ (CB_Begin(a) \/ CB_Scan(a, call)) /\ UNCHANGED <<lpc, spc>>
         \/ CB_Tail(a) /\ a \in Threads /\ UNCHANGED spc
              /\ lpc[a] \in {"reg_send", "rel_send", "rel_done"}
              /\ lpc' = [lpc EXCEPT ![a] = IF @ = "rel_send" THEN "rel_clear" ELSE "next"]
         \/ CB_Tail(a) /\ a \in Setters /\ UNCHANGED lpc /\ spc' = [spc EXCEPT ![a] = "idle"],
         call = "register" <=> IF a \in Threads THEN lpc[a] \in {"reg_send", "rel_send"} ELSE spc[a] = "send",
         UNCHANGED <<inq, irq_call, guest>>
  PROVE  Somewhere' /\ NowhereElse'
<1> USE DEF IrqIInv
<1>1. \A b \in Senders : b # a => cb'[b] = cb[b]
  BY CallbackTyped
<1>2. ASSUME NEW b \in Senders, b # a PROVE Sends(b)' <=> Sends(b)
  <2>1. b \in Threads => lpc'[b] = lpc[b]
    BY <1>2 DEF IrqTyped
  <2>2. b \notin Threads => spc'[b] = spc[b]
    BY <1>2 DEF IrqTyped, Senders
  <2> QED BY <1>1, <1>2, <2>1, <2>2, SameSends
<1>3. \A t \in Threads : lpc'[t] = "reg_swap" <=> lpc[t] = "reg_swap"
  BY DEF IrqTyped
<1>4. CASE CB_Scan(a, call) /\ queue[After(cb[a].t)] = "none" /\ UNCHANGED <<lpc, spc>>
  <2>1. /\ \A i : InSlot(queue', i) <=> InSlot(queue, i) \/ (i = After(cb[a].t) /\ call = "register")
        /\ ~InSlot(queue, After(cb[a].t)) /\ cb[a].at = "scan" /\ cb'[a].at = "tail"
    BY <1>4, FillsSlot
  <2>2. ~Sends(a)' /\ (Sends(a) <=> call = "register")
    BY <2>1 DEF Sends
  <2>3. CASE call = "register"
    <3>1. InSlot(queue', After(cb[a].t))
      BY <2>1, <2>3
    <3>2. /\ NotQueued /\ NotInSlot /\ NotInHand /\ "register" \notin guest /\ irq_call # CALL
          /\ \A b \in Senders : b # a => ~Sends(b)
      BY <2>2, <2>3 DEF NowhereElse, NotQueued, NotInSlot, NotInHand, NotTaken
    <3>3. NotTaken' /\ NotQueued' /\ NotInHand'
      BY <1>2, <1>3, <2>2, <3>2 DEF NotTaken, NotQueued, NotInHand
    <3>4. \A i : InSlot(queue', i) => i = After(cb[a].t)
      BY <2>1, <3>2 DEF NotInSlot
    <3> QED BY <3>1, <3>2, <3>3, <3>4 DEF Somewhere, NowhereElse, NotQueued, NotInHand, NotTaken
  <2>4. CASE call # "register"
    <3>1. \A b \in Senders : Sends(b)' <=> Sends(b)
      BY <1>2, <2>2, <2>4
    <3> QED BY <1>3, <2>1, <2>4, <3>1, SamePlaces
  <2> QED BY <2>3, <2>4
<1>5. CASE ~(CB_Scan(a, call) /\ queue[After(cb[a].t)] = "none")
  <2>1. UNCHANGED queue
    BY <1>5 DEF CB_Begin, CB_Scan, CB_Tail
  <2>2. Sends(a)' <=> Sends(a)
    <3>1. CASE (CB_Begin(a) \/ CB_Scan(a, call)) /\ UNCHANGED <<lpc, spc>>
      <4>1. cb[a].at # "tail" /\ cb'[a].at # "tail"
        BY <1>5, <3>1 DEF CB_Begin, CB_Scan, IrqTyped
      <4> QED BY <3>1, <4>1 DEF Sends
    <3>2. CASE CB_Tail(a) /\ a \in Threads
      <4>1. cb[a].at = "tail" /\ lpc'[a] \in {"rel_clear", "next"}
        BY <3>2, SettersAssumption DEF CB_Tail, CB_Begin, CB_Scan, IrqTyped
      <4> QED BY <3>2, <4>1 DEF Sends
    <3>3. CASE CB_Tail(a) /\ a \in Setters /\ spc' = [spc EXCEPT ![a] = "idle"]
      <4>1. cb[a].at = "tail" /\ spc'[a] = "idle" /\ a \notin Threads
        BY <3>3, SettersAssumption DEF CB_Tail, IrqTyped
      <4> QED BY <4>1 DEF Sends
    <3> QED BY <3>1, <3>2, <3>3
  <2>3. \A b \in Senders : Sends(b)' <=> Sends(b)
    BY <1>2, <2>2
  <2> QED BY <1>3, <2>1, <2>3, SamePlaces
<1> QED BY <1>4, <1>5 DEF CB_Scan, CB_Tail

-------------------------------------------------------------------------------
(* The steps of the handler that move the call, or none, by themselves.    *)
LEMMA ExchangeKeeps ==
  ASSUME IrqIInv, NEW t \in Threads,
         \/ L_Enter(t) \/ L_RegSwap(t) \/ L_RegAgain(t) \/ L_RegEnable(t) \/ L_RelDisable(t)
         \/ L_RelSwap(t) \/ L_RelClear(t) \/ L_Last(t) \/ L_Synced(t) \/ L_Unlock(t)
  PROVE  IrqIInv'
<1> USE IrqCallAssumption DEF IrqIInv, At
<1>1. UNCHANGED <<inq, guest, spc, queue, tail, cb>>
  BY DEF L_Enter, L_RegSwap, L_RegAgain, L_RegEnable, L_RelDisable, L_RelSwap, L_RelClear, L_Last,
         L_Synced, L_Unlock, gvars, qvars
<1>2. \E x \in {"out", "next", "reg_swap", "reg_again", "reg_send", "reg_enable", "rel_disable",
                "rel_swap", "rel_send", "rel_clear", "rel_done", "sync", "unlock"} :
        lpc' = [lpc EXCEPT ![t] = x]
  <2>1. CASE L_Enter(t) \/ L_RegSwap(t) \/ L_RegAgain(t)
    BY <2>1 DEF L_Enter, L_RegSwap, L_RegAgain
  <2>2. CASE L_RegEnable(t) \/ L_RelDisable(t) \/ L_RelSwap(t) \/ L_RelClear(t)
    BY <2>2 DEF L_RegEnable, L_RelDisable, L_RelSwap, L_RelClear
  <2>3. CASE L_Last(t) \/ L_Synced(t) \/ L_Unlock(t)
    BY <2>3 DEF L_Last, L_Synced, L_Unlock
  <2> QED BY <2>1, <2>2, <2>3
<1>3. IrqTyped' /\ \A u \in Threads : u # t => lpc'[u] = lpc[u]
  BY <1>1, <1>2 DEF IrqTyped
<1>4. lpc[t] \notin {"reg_send", "rel_send", "rel_done"}
  BY DEF L_Enter, L_RegSwap, L_RegAgain, L_RegEnable, L_RelDisable, L_RelSwap, L_RelClear, L_Last,
         L_Synced, L_Unlock
<1>5. InCallback' /\ cb[t].at = "none"
  BY <1>1, <1>3, <1>4 DEF InCallback
<1>6. \A a \in Senders : a # t => (Sends(a)' <=> Sends(a))
  BY <1>1, <1>3 DEF Sends
<1>7. t \in Senders /\ ~Sends(t) /\ (Sends(t)' <=> lpc'[t] \in {"reg_send", "rel_send"})
  BY <1>1, <1>4, <1>5 DEF Sends, Senders
<1>8. \A i : (InQueue(inq', i) <=> InQueue(inq, i)) /\ (InSlot(queue', i) <=> InSlot(queue, i))
  BY <1>1
<1>9. Locked'
  <2>1. CASE L_Enter(t)
    BY <2>1, <1>3 DEF Locked, L_Enter, IrqTyped
  <2>2. CASE L_Unlock(t)
    BY <2>2, <1>3 DEF Locked, L_Unlock, IrqTyped
  <2>3. ASSUME lpc[t] # "out", UNCHANGED locker,
               irq_call' = CALL => irq_call = CALL \/ lpc'[t] \notin {"rel_send", "rel_clear"},
               lpc'[t] \in {"rel_send", "rel_clear"} => irq_call' # CALL
        PROVE  Locked'
    BY <2>3, <1>3 DEF Locked
  <2>4. CASE L_RegSwap(t) \/ L_RegAgain(t) \/ L_RegEnable(t)
    BY <2>3, <2>4 DEF L_RegSwap, L_RegAgain, L_RegEnable, IrqTyped
  <2>5. CASE L_RelDisable(t) \/ L_RelSwap(t) \/ L_RelClear(t)
    BY <2>3, <2>5 DEF L_RelDisable, L_RelSwap, L_RelClear, IrqTyped
  <2>6. CASE L_Last(t) \/ L_Synced(t)
    BY <2>3, <2>6 DEF L_Last, L_Synced, IrqTyped
  <2> QED BY <2>1, <2>2, <2>4, <2>5, <2>6
<1>10. CASE L_RegSwap(t)
  <2>1. lpc[t] = "reg_swap" /\ irq_call' = CALL /\ lpc'[t] \in {"reg_again", "reg_enable"}
    BY <1>10, <1>2 DEF L_RegSwap, IrqTyped
  <2>2. Somewhere' /\ NowhereElse'
    BY <1>1, <1>3, <1>6, <1>7, <1>8, <2>1
    DEF Somewhere, NowhereElse, NotQueued, NotInSlot, NotInHand, NotTaken
  <2> QED BY <1>3, <1>5, <1>9, <2>2
<1>11. CASE (L_RegAgain(t) \/ L_RelSwap(t)) /\ irq_call = CALL
  <2>1. /\ lpc[t] \in {"reg_again", "rel_swap"} /\ irq_call' # CALL
        /\ lpc'[t] \in {"reg_send", "rel_send"}
    BY <1>11, <1>2 DEF L_RegAgain, L_RelSwap, IrqTyped
  <2>2. Sends(t)' /\ \A a \in Senders : a # t => ~Sends(a)'
    BY <1>6, <1>7, <1>11, <2>1 DEF NowhereElse, NotTaken
  <2>3. NotQueued' /\ NotInSlot' /\ NotInHand' /\ "register" \notin guest'
    BY <1>1, <1>3, <1>8, <1>11, <2>1 DEF NowhereElse, NotQueued, NotInSlot, NotInHand
  <2>4. Somewhere' /\ NowhereElse'
    BY <1>7, <2>1, <2>2, <2>3 DEF Somewhere, NowhereElse, NotQueued, NotInSlot, NotInHand
  <2> QED BY <1>3, <1>5, <1>9, <2>4
<1>12. CASE ~L_RegSwap(t) /\ ~((L_RegAgain(t) \/ L_RelSwap(t)) /\ irq_call = CALL)
  <2>1. /\ lpc[t] # "reg_swap" /\ lpc'[t] \notin {"reg_swap", "reg_send", "rel_send"}
        /\ irq_call' = CALL <=> irq_call = CALL
    <3>1. CASE L_RegAgain(t) \/ L_RelSwap(t)
      BY <1>12, <3>1 DEF L_RegAgain, L_RelSwap, IrqTyped
    <3>2. CASE L_RelClear(t)
      BY <3>2 DEF L_RelClear, IrqTyped, Locked
    <3>3. CASE L_Enter(t) \/ L_RegEnable(t) \/ L_RelDisable(t)
      BY <3>3 DEF L_Enter, L_RegEnable, L_RelDisable, IrqTyped
    <3>4. CASE L_Last(t) \/ L_Synced(t) \/ L_Unlock(t)
      BY <3>4 DEF L_Last, L_Synced, L_Unlock, IrqTyped
    <3> QED BY <1>12, <3>1, <3>2, <3>3, <3>4
  <2>2. \A u \in Threads : lpc'[u] = "reg_swap" <=> lpc[u] = "reg_swap"
    BY <1>3, <2>1
  <2>3. \A a \in Senders : Sends(a)' <=> Sends(a)
    BY <1>6, <1>7, <2>1
  <2>4. Somewhere' /\ NowhereElse'
    BY <1>1, <1>8, <2>1, <2>2, <2>3, SamePlaces
  <2> QED BY <1>3, <1>5, <1>9, <2>4
<1> QED BY <1>10, <1>11, <1>12

(* The input handler as a whole.                                           *)
LEMMA HandlerKeeps ==
  ASSUME IrqIInv, NEW t \in Threads, L_Enter(t) \/ register_input_buffer_call(t)
  PROVE  IrqIInv'
<1> USE IrqCallAssumption DEF IrqIInv
<1>1. CASE L_Next(t)
  <2>1. /\ lpc[t] = "next" /\ UNCHANGED <<spc, queue, tail, cb, irq_call, locker>>
        /\ lpc' = [lpc EXCEPT ![t] = IF Head(inq) = "register" THEN "reg_swap" ELSE "rel_disable"]
    BY <1>1 DEF L_Next, At, gvars, qvars
  <2>2. IrqTyped' /\ Locked' /\ InCallback'
    BY <1>1, <2>1, NextKeeps DEF IrqTyped, Locked, InCallback
  <2> QED BY <1>1, <2>2, NextKeeps
<1>2. CASE L_Callback(t)
  <2> DEFINE call == IF lpc[t] = "rel_done" THEN "release" ELSE "register"
  <2>1. /\ lpc[t] \in {"reg_send", "rel_send", "rel_done"}
        /\ UNCHANGED <<inq, irq_call, guest, spc, locker>>
        /\ \/ (CB_Begin(t) \/ CB_Scan(t, call)) /\ UNCHANGED lpc
           \/ CB_Tail(t) /\ lpc' = [lpc EXCEPT ![t] = IF @ = "rel_send" THEN "rel_clear" ELSE "next"]
    BY <1>2 DEF L_Callback, gvars
  <2>2. t \in Senders /\ call \in Kinds /\ (call = "register" <=> lpc[t] \in {"reg_send", "rel_send"})
    BY <2>1 DEF Senders, Kinds
  <2>3. Somewhere' /\ NowhereElse'
    BY <2>1, <2>2, CallbackKeeps
  <2>4. IrqTyped'
    BY <2>1, <2>2, CallbackTyped DEF IrqTyped
  <2>5. /\ \A a \in Senders : a # t => cb'[a] = cb[a]
        /\ \A u \in Threads : u # t => lpc'[u] = lpc[u]
        /\ CB_Tail(t) => cb'[t].at = "none"
        /\ lpc'[t] = lpc[t] \/ (CB_Tail(t) /\ lpc'[t] \in {"next", "rel_clear"} /\
                                (lpc'[t] = "rel_clear" <=> lpc[t] = "rel_send"))
    BY <2>1, <2>2, CallbackTyped DEF IrqTyped
  <2>6. InCallback'
    <3>1. \A u \in Threads : cb'[u].at # "none" => lpc'[u] \in {"reg_send", "rel_send", "rel_done"}
      BY <2>1, <2>5 DEF InCallback, Senders
    <3>2. \A s \in Setters : cb'[s].at # "none" => spc'[s] = "send"
      BY <2>1, <2>5, SettersAssumption DEF InCallback, Senders
    <3> QED BY <3>1, <3>2 DEF InCallback
  <2>7. Locked'
    BY <2>1, <2>5 DEF Locked
  <2> QED BY <2>3, <2>4, <2>6, <2>7
<1>3. CASE L_Sync(t)
  <2>1. UNCHANGED <<lpc, spc, irq_call, locker>> /\ \A a \in Senders : cb'[a].at = cb[a].at
    BY <1>3, SyncRenumbers DEF L_Sync
  <2>2. Locked' /\ InCallback'
    BY <2>1 DEF Locked, InCallback, Senders
  <2> QED BY <1>3, <2>2, SyncKeeps, SyncRenumbers
<1>4. CASE \/ L_Enter(t) \/ L_RegSwap(t) \/ L_RegAgain(t) \/ L_RegEnable(t) \/ L_RelDisable(t)
           \/ L_RelSwap(t) \/ L_RelClear(t) \/ L_Last(t) \/ L_Synced(t) \/ L_Unlock(t)
  BY <1>4, ExchangeKeeps, Zenon
<1> QED BY <1>1, <1>2, <1>3, <1>4, Zenon DEF register_input_buffer_call

(* The device threads.                                                     *)
LEMMA SetterKeeps ==
  ASSUME IrqIInv, NEW s \in Setters, S_Check(s) \/ set_express_device_irq(s)
  PROVE  IrqIInv'
<1> USE IrqCallAssumption DEF IrqIInv
<1>0. s \in Senders /\ s \notin Threads
  BY SettersAssumption DEF Senders
<1>1. CASE S_Check(s) \/ S_Swap(s)
  <2>1. /\ UNCHANGED <<inq, guest, lpc, queue, tail, cb, locker>> /\ spc[s] \in {"idle", "swap"}
        /\ spc' = [spc EXCEPT ![s] = IF S_Swap(s) /\ irq_call = CALL THEN "send"
                                     ELSE IF S_Swap(s) THEN "idle" ELSE "swap"]
        /\ irq_call' = IF S_Swap(s) THEN NULL ELSE irq_call
    BY <1>1 DEF S_Check, S_Swap, gvars, qvars
  <2>2. IrqTyped' /\ Locked' /\ InCallback' /\ cb[s].at = "none"
    BY <2>1 DEF IrqTyped, Locked, InCallback
  <2>3. \A a \in Senders : a # s => (Sends(a)' <=> Sends(a))
    BY <2>1, <1>0 DEF Sends, Senders, IrqTyped
  <2>4. ~Sends(s) /\ (Sends(s)' <=> S_Swap(s) /\ irq_call = CALL)
    BY <1>0, <2>1, <2>2 DEF Sends, IrqTyped
  <2>5. CASE S_Swap(s) /\ irq_call = CALL
    <3>1. Sends(s)' /\ \A a \in Senders : a # s => ~Sends(a)'
      BY <2>3, <2>4, <2>5 DEF NowhereElse, NotTaken
    <3>2. NotQueued' /\ NotInSlot' /\ NotInHand' /\ "register" \notin guest' /\ irq_call' # CALL
      BY <2>1, <2>5 DEF NowhereElse, NotQueued, NotInSlot, NotInHand
    <3>3. Somewhere' /\ NowhereElse'
      BY <1>0, <3>1, <3>2 DEF Somewhere, NowhereElse, NotQueued, NotInSlot, NotInHand
    <3> QED BY <2>2, <3>3
  <2>6. CASE ~(S_Swap(s) /\ irq_call = CALL)
    <3>1. irq_call' = CALL <=> irq_call = CALL
      BY <2>1, <2>6
    <3>2. \A a \in Senders : Sends(a)' <=> Sends(a)
      BY <2>3, <2>4, <2>6
    <3>3. Somewhere' /\ NowhereElse'
      BY <2>1, <3>1, <3>2, SamePlaces
    <3> QED BY <2>2, <3>3
  <2> QED BY <2>5, <2>6
<1>2. CASE S_Send(s) \/ S_Sent(s)
  <2>1. /\ spc[s] = "send" /\ UNCHANGED <<inq, irq_call, guest, lpc, locker>>
        /\ \/ (CB_Begin(s) \/ CB_Scan(s, "register")) /\ UNCHANGED spc
           \/ CB_Tail(s) /\ spc' = [spc EXCEPT ![s] = "idle"]
    BY <1>2 DEF S_Send, S_Sent, gvars
  <2>2. "register" \in Kinds
    BY DEF Kinds
  <2>3. Somewhere' /\ NowhereElse'
    BY <1>0, <2>1, <2>2, CallbackKeeps
  <2>4. IrqTyped'
    BY <1>0, <2>1, <2>2, CallbackTyped DEF IrqTyped
  <2>5. /\ \A a \in Senders : a # s => cb'[a] = cb[a]
        /\ CB_Tail(s) => cb'[s].at = "none"
    BY <1>0, <2>1, <2>2, CallbackTyped
  <2>6. InCallback'
    <3>1. \A t \in Threads : cb'[t].at # "none" => lpc'[t] \in {"reg_send", "rel_send", "rel_done"}
      BY <1>0, <2>1, <2>5 DEF InCallback, Senders
    <3>2. \A r \in Setters : cb'[r].at # "none" => spc'[r] = "send"
      BY <2>1, <2>5 DEF InCallback, Senders, IrqTyped
    <3> QED BY <3>1, <3>2 DEF InCallback
  <2>7. Locked'
    BY <2>1 DEF Locked
  <2> QED BY <2>3, <2>4, <2>6, <2>7
<1> QED BY <1>1, <1>2, ZenonT(30) DEF set_express_device_irq

LEMMA IrqStep == IrqIInv /\ [Next]_vars => IrqIInv'
<1> SUFFICES ASSUME IrqIInv, [Next]_vars PROVE IrqIInv'
  OBVIOUS
<1>1. CASE Next
  BY <1>1, GuestKeeps, HandlerKeeps, SetterKeeps DEF Next
<1>2. CASE UNCHANGED vars
  <2>1. UNCHANGED <<inq, locker, irq_call, lpc, spc, queue, tail, cb, guest>>
    BY <1>2 DEF vars, gvars, qvars
  <2>2. \A a \in Senders : Sends(a)' <=> Sends(a)
    BY <2>1 DEF Sends
  <2>3. Somewhere' /\ NowhereElse'
    BY <2>1, <2>2, SamePlaces DEF IrqIInv
  <2>4. IrqTyped' /\ Locked' /\ InCallback'
    BY <2>1 DEF IrqIInv, IrqTyped, Locked, InCallback
  <2> QED BY <2>3, <2>4 DEF IrqIInv
<1> QED BY <1>1, <1>2

(* Somewhere and NowhereElse say that Places has one element.              *)
LEMMA OnePlace == IrqIInv => IrqCallInOnePlace
<1> SUFFICES ASSUME IrqIInv PROVE \E p : Places = {p}
  BY DEF IrqCallInOnePlace
<1> USE DEF IrqIInv, Places, NowhereElse, InQueue, InSlot, NotQueued, NotInSlot, NotInHand, NotTaken
<1>1. CASE "register" \in guest
  <2>1. Places = {<<"guest", 0>>}
    BY <1>1
  <2> QED BY <2>1, Zenon
<1>2. CASE irq_call = CALL
  <2>1. Places = {<<"irq_call", 0>>}
    BY <1>2
  <2> QED BY <2>1, Zenon
<1>3. CASE \E i : InSlot(queue, i)
  <2>1. PICK i : InSlot(queue, i)
    BY <1>3
  <2>2. Places = {<<"queue", i>>}
    BY <2>1
  <2> QED BY <2>2, Zenon
<1>4. CASE \E i : InQueue(inq, i)
  <2>1. PICK i : InQueue(inq, i)
    BY <1>4
  <2>2. Places = {<<"inq", i>>}
    BY <2>1
  <2> QED BY <2>2, Zenon
<1>5. CASE \E t \in Threads : lpc[t] = "reg_swap"
  <2>1. PICK t \in Threads : lpc[t] = "reg_swap"
    BY <1>5
  <2>2. Places = {<<t, 0>>}
    BY <2>1
  <2> QED BY <2>2, Zenon
<1>6. CASE \E a \in Senders : Sends(a)
  <2>1. PICK a \in Senders : Sends(a)
    BY <1>6
  <2>2. Places = {<<"sender", a>>}
    BY <2>1
  <2> QED BY <2>2, Zenon
<1> QED BY <1>1, <1>2, <1>3, <1>4, <1>5, <1>6, Zenon DEF Somewhere

-------------------------------------------------------------------------------
(* For any number of device threads, the irq call of register_input_buffer *)
(* _call and set_express_device_irq is never lost and never sent twice.    *)
THEOREM IrqCallIsKept == Spec => []IrqCallInOnePlace
<1>1. Spec => []IrqIInv
  BY IrqInit, IrqStep, PTL DEF Spec
<1> QED BY <1>1, OnePlace, PTL

(* Every step of the touch screen is a step of the interrupts, its thread  *)
(* M being one of the setters, or leaves them alone.                       *)
LEMMA InputStepIsIrqStep == [InputNext]_inputvars => [Next]_vars
<1> SUFFICES ASSUME InputNext \/ UNCHANGED inputvars PROVE [Next]_vars
  BY DEF inputvars
<1>1. CASE sync_express_touchscreen_input \/ M_Skip(FALSE)
  BY <1>1, MAssumption
  DEF sync_express_touchscreen_input, M_Poll, M_Skip, M_Write, M_NotEnabled, M_Check, M_Swap, M_Send,
      M_Sent, Next, set_express_device_irq
<1>2. CASE User \/ GuestRead \/ UNCHANGED inputvars
  BY <1>2 DEF User, GuestRead, inputvars
<1>3. CASE GuestRegisters \/ GuestRelease \/ Shutdown
  BY <1>3 DEF GuestRegisters, Next
<1>4. CASE \E t \in Threads : Host(t)
  BY <1>4 DEF Host, Next
<1> QED BY <1>1, <1>2, <1>3, <1>4, Zenon DEF InputNext

(* So the call is in one place also while the window thread sends touches  *)
(* (sync_express_touchscreen_input).                                       *)
THEOREM TouchKeepsIrqCall == InputSpec => []IrqCallInOnePlace
<1>1. InputInit => Init
  BY DEF InputInit
<1>2. InputSpec => Spec
  BY <1>1, InputStepIsIrqStep, PTL DEF InputSpec, Spec
<1> QED BY <1>2, IrqCallIsKept, PTL
-------------------------------------------------------------------------------
(* The bridge: every byte and every connection arrives once, in order.     *)

(* How far behind r the slot k is.                                         *)
Off(r, k) == IF k >= r THEN k - r ELSE k - r + DataSize

Slots == 0 .. DataSize - 1
Pending == Off(head.read, head.write) + todo[1] + todo[2]
Here(b) == IF b THEN 1 ELSE 0
Offered == Here(accept.status = "GET")

BridgeTyped ==
  /\ head \in [write : Slots, read : Slots]
  /\ data \in [Slots -> 0 .. 1]
  /\ accept \in [status : {"NONE", "GET"}, fd : 0 .. 1]
  /\ todo \in Nat \X Nat
  /\ get_accept_fd \in -1 .. 1 /\ sent \in 0 .. 1 /\ got \in 0 .. 1

(* Where R may be: a context listens or has a connection, never both.      *)
Control ==
  /\ then \in {"loop", "pending", "accept", "end"}
  /\ then = "end" => rpc \in {"irq", "swap", "send", "end"}
  /\ status_id = "NONE" => rpc = "none"
  /\ rpc \in {"irq", "swap", "send"} /\ then = "accept" => get_accept_fd = -1
  /\ IF status_id = "BIND"
     THEN rpc \notin {"nodata", "recv", "publish", "second"}
     ELSE rpc \notin {"pending", "status", "accept"} /\ then \notin {"pending", "accept"}

OneMode ==
  /\ status_id \in {"NONE", "BIND"} => head.read = head.write
  /\ status_id # "BIND" => accept.status = "NONE" /\ get_accept_fd = -1

(* The ring: what is published, what is copied, and what fits.             *)
Published ==
  \A k \in Slots :
    Off(head.read, k) < Off(head.read, head.write) => data[k] = (got + Off(head.read, k)) % 2
CopiedInOrder ==
  \A k \in head.write .. head.write + todo[1] - 1 :
    k \in Slots /\ data[k] = (got + Off(head.read, head.write) + k - head.write) % 2
Sizes ==
  /\ Pending < DataSize
  /\ rpc = "publish" => /\ todo[1] > 0 /\ head.write + todo[1] <= DataSize
                        /\ todo[2] > 0 => head.write + todo[1] = DataSize
  /\ rpc = "second" => todo[1] = 0 /\ todo[2] > 0 /\ head.write = 0
  /\ rpc \notin {"publish", "second"} => todo = <<0, 0>>
  /\ status_id # "BIND" => sent = (got + Pending) % 2

(* The connections: one in the buffer, one with R.                         *)
AcceptInOrder ==
  /\ accept.status = "GET" => accept.fd = got
  /\ get_accept_fd # -1 => get_accept_fd = (got + Offered) % 2
  /\ rpc = "accept" => get_accept_fd = -1
  /\ rpc = "status" => accept.status = "NONE" /\ accept.fd = get_accept_fd
  /\ status_id = "BIND" /\ then # "end" =>
       sent = (got + Offered + Here(get_accept_fd # -1)) % 2

BridgeIInv ==
  BridgeTyped /\ Control /\ OneMode /\ Published /\ CopiedInOrder /\ Sizes /\ AcceptInOrder

(* From here on linear arithmetic is enough.                               *)
LEMMA ModSmall == \A n \in Nat \ {0} : \A x \in 0 .. n - 1 : x % n = x
OBVIOUS

LEMMA ModBig == \A n \in Nat \ {0} : \A x \in n .. 2 * n - 1 : x % n = x - n
OBVIOUS

LEMMA Parity ==
  /\ \A x, y \in Int : ((x % 2) + y) % 2 = (x + y) % 2 /\ x % 2 \in 0 .. 1
  /\ \A g \in 0 .. 1, y \in Int : ((1 - g) + (y - 1)) % 2 = (g + y) % 2
  /\ \A g \in 0 .. 1 : g % 2 = g /\ (g + 1) % 2 = 1 - g
OBVIOUS

LEMMA OffTyped == \A r, k \in Slots : Off(r, k) \in Slots /\ Off(r, k) \in Int
BY SizeAssumption DEF Slots, Off

LEMMA OffAdd ==
  ASSUME NEW r \in Slots, NEW w \in Slots, NEW j \in Nat, Off(r, w) + j < DataSize
  PROVE  /\ Off(r, w) \in Slots
         /\ w + j < DataSize => Off(r, w + j) = Off(r, w) + j
         /\ w + j = DataSize => Off(r, 0) = Off(r, w) + j
BY SizeAssumption DEF Slots, Off

(* The slots a copy of j bytes fills are the next j ones.                  *)
LEMMA OffRange ==
  ASSUME NEW r \in Slots, NEW w \in Slots, NEW j \in Nat, Off(r, w) + j < DataSize,
         w + j <= DataSize, NEW k \in Slots
  PROVE  k \in w .. w + j - 1 <=> Off(r, w) <= Off(r, k) /\ Off(r, k) < Off(r, w) + j
BY SizeAssumption DEF Slots, Off

LEMMA OffNext ==
  ASSUME NEW r \in Slots, NEW k \in Slots
  PROVE  /\ (r + 1) % DataSize \in Slots
         /\ Off((r + 1) % DataSize, k) = IF k = r THEN DataSize - 1 ELSE Off(r, k) - 1
         /\ k # r => Off(r, k) > 0
<1>1. CASE r + 1 < DataSize
  <2>1. (r + 1) % DataSize = r + 1
    BY <1>1, ModSmall, SizeAssumption DEF Slots
  <2> QED BY <1>1, <2>1, SizeAssumption DEF Slots, Off
<1>2. CASE r + 1 = DataSize
  <2>1. (r + 1) % DataSize = 0
    BY <1>2, ModBig, SizeAssumption DEF Slots
  <2> QED BY <1>2, <2>1, SizeAssumption DEF Slots, Off
<1> QED BY <1>1, <1>2, SizeAssumption DEF Slots

(* The room fd_data_to_guest_mem computes.                                 *)
LEMMA Room ==
  ASSUME BridgeTyped
  PROVE  max_guest_size = DataSize - 1 - Off(head.read, head.write)
<1> DEFINE x == head.read - head.write + DataSize - 1
<1>0. head.read \in Slots /\ head.write \in Slots
  BY DEF BridgeTyped
<1>1. CASE head.write >= head.read
  <2>1. x \in 0 .. DataSize - 1
    BY <1>0, <1>1, SizeAssumption DEF Slots
  <2>2. x % DataSize = x
    BY <2>1, ModSmall, SizeAssumption
  <2> QED BY <1>0, <1>1, <2>2, SizeAssumption DEF max_guest_size, Off, Slots
<1>2. CASE head.write < head.read
  <2>1. x \in DataSize .. 2 * DataSize - 1
    BY <1>0, <1>2, SizeAssumption DEF Slots
  <2>2. x % DataSize = x - DataSize
    BY <2>1, ModBig, SizeAssumption
  <2> QED BY <1>0, <1>2, <2>2, SizeAssumption DEF max_guest_size, Off, Slots
<1> QED BY <1>0, <1>1, <1>2, SizeAssumption DEF Slots

LEMMA BridgeInitIInv == BridgeInit => BridgeIInv
BY SizeAssumption
DEF BridgeInit, BridgeIInv, BridgeTyped, Control, OneMode, Published, CopiedInOrder, Sizes, AcceptInOrder,
    Pending, Off, Slots, Offered, Here

ring == <<head, data, todo, got, sent>>

(* Steps that move R, and touch no data.                                   *)
LEMMA MoveKeeps ==
  ASSUME BridgeIInv, UNCHANGED <<ring, accept, get_accept_fd>>, Control',
         status_id' = status_id \/ (status_id # "BIND" /\ status_id' \notin {"NONE", "BIND"}),
         \/ rpc \notin {"publish", "second"} /\ rpc' \notin {"publish", "second", "status"}
         \/ rpc' = rpc,
         rpc' = "accept" => get_accept_fd = -1,
         then' # "end" => then # "end"
  PROVE  BridgeIInv'
<1> USE DEF BridgeIInv, ring
<1>1. BridgeTyped' /\ OneMode'
  BY DEF BridgeTyped, OneMode
<1>2. Published' /\ CopiedInOrder'
  BY DEF Published, CopiedInOrder
<1>3. Pending' = Pending /\ Offered' = Offered
  BY DEF Pending, Offered
<1>4. Sizes'
  <2>1. status_id' # "BIND" => status_id # "BIND"
    OBVIOUS
  <2> QED BY <1>3, <2>1 DEF Sizes
<1>5. AcceptInOrder'
  <2>1. status_id' = "BIND" => status_id = "BIND"
    OBVIOUS
  <2> QED BY <1>3, <2>1 DEF AcceptInOrder
<1> QED BY <1>1, <1>2, <1>4, <1>5

(* The steps of R that do not touch the data.                              *)
LEMMA ThreadMoves ==
  ASSUME BridgeIInv,
         \/ Irq \/ R_Loop \/ R_Begin \/ R_GivesUp \/ R_Full \/ R_Again \/ R_Ends \/ A_Loop \/ A_Nobody
  PROVE  BridgeIInv'
<1> USE DEF Go, Interrupt, context, buffer, thread, world, ring
<1>c. Control /\ (rpc = "accept" => get_accept_fd = -1)
  BY DEF BridgeIInv, AcceptInOrder
<1>1. CASE Irq
  <2>1. /\ UNCHANGED <<ring, accept, get_accept_fd, status_id, then>>
        /\ rpc \in {"irq", "swap", "send"} /\ rpc' \in {"swap", "send", then}
    BY <1>1 DEF Irq, R_NotEnabled, R_Check, R_Swap, R_Send, R_Sent
  <2>2. Control'
    BY <2>1, <1>c DEF Control
  <2>3. then \in {"loop", "pending", "accept", "end"}
    BY <1>c DEF Control
  <2>4. rpc' = "accept" => get_accept_fd = -1
    BY <2>1, <1>c DEF Control
  <2> QED BY <2>1, <2>2, <2>3, <2>4, MoveKeeps, SMTT(20)
<1>2. CASE R_Loop \/ R_Begin \/ R_GivesUp
  <2>1. /\ UNCHANGED <<ring, accept, get_accept_fd, then>> /\ status_id' \in {status_id, "CLOSED"}
        /\ rpc \in {"loop", "nodata"} /\ rpc' \in {"close", "nodata", "recv", "end"}
        /\ rpc = "nodata" \/ status_id = "CONNECTED"
    BY <1>2 DEF R_Loop, R_Begin, R_GivesUp
  <2>2. Control' /\ status_id # "BIND"
    BY <2>1, <1>c DEF Control
  <2> QED BY <2>1, <2>2, MoveKeeps, SMTT(20)
<1>3. CASE R_Full \/ R_Again \/ R_Ends
  <2>1. /\ UNCHANGED <<ring, accept, get_accept_fd>> /\ status_id' \in {status_id, "CLOSED"}
        /\ rpc = "recv" /\ rpc' \in {"irq", "loop", "close"} /\ then' \in {then, "loop"}
    BY <1>3 DEF R_Full, R_Again, R_Ends, R_Returns
  <2>2. Control' /\ status_id # "BIND" /\ then # "end"
    BY <2>1, <1>c DEF Control
  <2> QED BY <2>1, <2>2, MoveKeeps, SMTT(20)
<1>4. CASE A_Loop \/ A_Nobody
  <2>1. /\ UNCHANGED <<ring, accept, get_accept_fd, status_id>>
        /\ rpc \in {"loop", "accept"} /\ rpc' \in {"irq", "pending", "close", "loop"}
        /\ then' \in {then, "pending"}
        /\ status_id = "BIND" \/ (rpc = "accept" /\ UNCHANGED then)
        /\ rpc' = "irq" => then' = "pending"
    BY <1>4 DEF A_Loop, A_Nobody
  <2>2. Control' /\ then # "end"
    BY <2>1, <1>c DEF Control
  <2> QED BY <2>1, <2>2, MoveKeeps
<1> QED BY <1>1, <1>2, <1>3, <1>4

(* The steps of everybody else, but for the guest that takes something.    *)
LEMMA OthersMove ==
  ASSUME BridgeIInv,
         \/ PeerShuts \/ bridge_buffer_register \/ remove_bridge_context \/ Rm_Join
         \/ B_GuestDone \/ B_GuestRegisters \/ (\E t \in Threads : B_Host(t))
         \/ (GuestRelease \/ Shutdown) /\ UNCHANGED <<context, buffer, rpc, then, thread, world>>
         \/ UNCHANGED bridgevars
  PROVE  BridgeIInv'
<1>1. UNCHANGED <<ring, accept, get_accept_fd, status_id, rpc, then>>
  BY Zenon DEF PeerShuts, bridge_buffer_register, remove_bridge_context, Rm_Join, B_GuestDone,
         B_GuestRegisters, B_Host, bridgevars, context, buffer, thread, world, ring
<1>2. Control' /\ (rpc' = "accept" => get_accept_fd = -1)
  BY <1>1 DEF BridgeIInv, Control, AcceptInOrder
<1> QED BY <1>1, <1>2, MoveKeeps

-------------------------------------------------------------------------------
(* fd_data_to_guest_mem copies j bytes behind host_write_loc, numbered from *)
(* where the ring ends: what is published stays as it is.                  *)
LEMMA CopyKeeps ==
  ASSUME BridgeTyped, Published, NEW j \in Nat, NEW n \in Int, UNCHANGED <<head, got>>,
         Off(head.read, head.write) + j < DataSize, head.write + j <= DataSize,
         \A y \in Nat : (n + y) % 2 = (got + Off(head.read, head.write) + y) % 2,
         data' = Copied(n, j), todo'[1] = j
  PROVE  data' \in [Slots -> 0 .. 1] /\ Published' /\ CopiedInOrder'
<1> DEFINE r == head.read  w == head.write
<1>1. r \in Slots /\ w \in Slots /\ DOMAIN data = Slots /\ got \in 0 .. 1
  BY DEF BridgeTyped
<1>2. \A k \in Slots : data'[k] = IF k \in w .. w + j - 1 THEN (n + (k - w)) % 2 ELSE data[k]
  <2>1. \A k \in Slots : n + k - w = n + (k - w)
    BY <1>1 DEF Slots
  <2> QED BY <1>1, <2>1 DEF Copied
<1>3. data' \in [Slots -> 0 .. 1]
  <2>1. \A k \in Slots : n + k - w \in Int
    BY <1>1, SMTT(20) DEF Slots
  <2>2. \A k \in Slots : (n + k - w) % 2 \in 0 .. 1
    BY <2>1, Parity
  <2> QED BY <1>1, <2>2 DEF Copied, BridgeTyped
<1>4. Published'
  <2>1. SUFFICES ASSUME NEW k \in Slots, Off(r, k) < Off(r, w)
                 PROVE  data'[k] = (got + Off(r, k)) % 2
    BY DEF Published
  <2>2. Off(r, w) \in Int /\ Off(r, k) \in Int
    BY <1>1, OffTyped
  <2>3. k \in w .. w + j - 1 => Off(r, w) <= Off(r, k)
    <3> HIDE DEF r, w
    <3>1. Off(r, w) + j < DataSize /\ w + j <= DataSize
      BY DEF r, w
    <3> QED BY <1>1, <3>1, OffRange
  <2>4. k \notin w .. w + j - 1
    BY <2>1, <2>2, <2>3
  <2> QED BY <1>2, <2>1, <2>4 DEF Published
<1>5. CopiedInOrder'
  <2>1. SUFFICES ASSUME NEW k \in w .. w + j - 1
                 PROVE  k \in Slots /\ data'[k] = (got + Off(r, w) + k - w) % 2
    BY DEF CopiedInOrder
  <2>2. k \in Slots /\ k - w \in Nat
    <3>1. w + j <= DataSize
      OBVIOUS
    <3> HIDE DEF w
    <3>2. w \in Nat /\ DataSize \in Nat
      BY <1>1, SizeAssumption DEF Slots
    <3> QED BY <3>1, <3>2, <2>1 DEF Slots
  <2>3. data'[k] = (got + Off(r, w) + (k - w)) % 2
    BY <1>2, <2>1, <2>2
  <2>4. got + Off(r, w) + (k - w) = got + Off(r, w) + k - w
    BY <1>1, <2>2 DEF Slots, Off
  <2> QED BY <2>2, <2>3, <2>4
<1> QED BY <1>3, <1>4, <1>5

LEMMA RecvKeeps ==
  ASSUME BridgeIInv, NEW n \in 1 .. DataSize, R_Recv(n)
  PROVE  BridgeIInv'
<1> DEFINE r == head.read  w == head.write
           first == IF w + n > DataSize THEN DataSize - w ELSE n
<1> USE DEF BridgeIInv
<1>1. /\ rpc = "recv" /\ rpc' = "publish" /\ n <= max_guest_size
      /\ data' = Copied(sent, first) /\ todo' = <<first, n - first>> /\ sent' = (sent + n) % 2
      /\ UNCHANGED <<head, accept, get_accept_fd, status_id, then, got>>
  BY DEF R_Recv, Go, context
<1>2. /\ r \in Slots /\ w \in Slots /\ Off(r, w) \in Slots /\ DataSize \in Nat
      /\ got \in 0 .. 1 /\ sent \in 0 .. 1 /\ n \in Nat /\ n > 0
  BY OffAdd, SizeAssumption DEF BridgeTyped, Slots, Off
<1>3. Off(r, w) + n < DataSize
  BY <1>1, <1>2, Room DEF Slots
<1>4. first \in Nat /\ n - first \in Nat /\ first > 0 /\ w + first <= DataSize /\ first <= n
      /\ (n - first > 0 => w + first = DataSize)
  BY <1>2 DEF Slots
<1>5. status_id # "BIND" /\ then \notin {"end", "pending", "accept"}
  BY <1>1 DEF Control
<1>6. sent = (got + Off(r, w)) % 2
  <2>1. todo = <<0, 0>>
    BY <1>1 DEF Sizes
  <2>2. Pending = Off(r, w)
    BY <1>2, <2>1 DEF Pending, Slots
  <2> QED BY <1>5, <2>2 DEF Sizes
<1>7. \A y \in Nat : (sent + y) % 2 = (got + Off(r, w) + y) % 2
  <2>1. got + Off(r, w) \in Int
    BY <1>2 DEF Slots
  <2> QED BY <1>6, <2>1, Parity
<1>8. data' \in [Slots -> 0 .. 1] /\ Published' /\ CopiedInOrder'
  <2>1. todo'[1] = first /\ Off(r, w) + first < DataSize
    BY <1>1, <1>2, <1>3, <1>4 DEF Slots
  <2> HIDE DEF first
  <2> QED BY <1>1, <1>2, <1>4, <1>7, <2>1, CopyKeeps, SMTT(20)
<1>9. Pending' = Off(r, w) + n /\ todo' \in Nat \X Nat /\ todo'[1] = first /\ todo'[2] = n - first
  <2> HIDE DEF first
  <2> QED BY <1>1, <1>2, <1>4 DEF Pending, Slots
<1>10. sent' = (got + Pending') % 2 /\ sent' \in 0 .. 1
  <2>1. got + Off(r, w) + n = got + Pending'
    BY <1>2, <1>9 DEF Slots
  <2>2. sent' = (got + Pending') % 2
    BY <1>1, <1>2, <1>7, <2>1
  <2> QED BY <1>1, <1>2, <2>2, Parity
<1>11. BridgeTyped'
  BY <1>1, <1>8, <1>9, <1>10 DEF BridgeTyped
<1>12. Control' /\ OneMode'
  BY <1>1, <1>5 DEF Control, OneMode
<1>13. Sizes'
  <2> HIDE DEF first
  <2> QED BY <1>1, <1>3, <1>4, <1>9, <1>10 DEF Sizes
<1>14. AcceptInOrder'
  BY <1>1, <1>5 DEF AcceptInOrder, OneMode
<1> QED BY <1>8, <1>11, <1>12, <1>13, <1>14

(* The part behind the end of the ring.                                    *)
LEMMA SecondKeeps ==
  ASSUME BridgeIInv, R_Second
  PROVE  BridgeIInv'
<1> DEFINE r == head.read  w == head.write  b == todo[2]
<1> USE DEF BridgeIInv
<1>1. /\ rpc = "second" /\ rpc' = "publish"
      /\ data' = Copied(sent + b, b) /\ todo' = <<b, 0>>
      /\ UNCHANGED <<head, accept, get_accept_fd, status_id, then, got, sent>>
  BY DEF R_Second, Go, context, world
<1>2. /\ r \in Slots /\ w \in Slots /\ Off(r, w) \in Slots /\ DataSize \in Nat
      /\ got \in 0 .. 1 /\ sent \in 0 .. 1 /\ b \in Nat
  BY SizeAssumption DEF BridgeTyped, Slots, Off
<1>3. todo[1] = 0 /\ b > 0 /\ w = 0 /\ Pending = Off(r, w) + b /\ Pending < DataSize
  BY <1>1, <1>2 DEF Sizes, Pending, Slots
<1>4. status_id # "BIND" /\ then \notin {"end", "pending", "accept"}
  BY <1>1 DEF Control
<1>5. \A y \in Nat : (sent + b + y) % 2 = (got + Off(r, w) + y) % 2
  <2>1. SUFFICES ASSUME NEW y \in Nat PROVE (sent + b + y) % 2 = (got + Off(r, w) + y) % 2
    OBVIOUS
  <2> DEFINE x == got + Off(r, w)
  <2>2. x \in Int /\ got + Pending = x + b
    BY <1>2, <1>3 DEF Slots
  <2>3. sent = (x + b) % 2
    BY <1>4, <2>2 DEF Sizes
  <2>4. (sent + (b + y)) % 2 = (x + b + (b + y)) % 2
    <3> HIDE DEF x, b
    <3> QED BY <1>2, <2>2, <2>3, Parity
  <2>5. x + b + (b + y) = (x + y) + 2 * b /\ sent + b + y = sent + (b + y)
    BY <1>2, <2>2
  <2>6. \A u \in Int, v \in Nat : (u + 2 * v) % 2 = u % 2
    OBVIOUS
  <2> QED BY <1>2, <2>2, <2>4, <2>5, <2>6
<1>6. data' \in [Slots -> 0 .. 1] /\ Published' /\ CopiedInOrder'
  <2> DEFINE n == sent + b
  <2>1. todo'[1] = b /\ Off(r, w) + b < DataSize /\ w + b <= DataSize /\ n \in Int
    BY <1>1, <1>2, <1>3 DEF Slots
  <2>2. \A y \in Nat : (n + y) % 2 = (got + Off(r, w) + y) % 2
    BY <1>5
  <2>3. data' = Copied(n, b) /\ UNCHANGED <<head, got>>
    BY <1>1
  <2> HIDE DEF b, n
  <2> QED BY <1>2, <2>1, <2>2, <2>3, CopyKeeps
<1>7. Pending' = Pending /\ todo' \in Nat \X Nat /\ todo'[1] = b /\ todo'[2] = 0
  BY <1>1, <1>2, <1>3 DEF Pending, Slots
<1>8. BridgeTyped'
  BY <1>1, <1>6, <1>7 DEF BridgeTyped
<1>9. Control' /\ OneMode'
  BY <1>1, <1>4 DEF Control, OneMode
<1>10. Sizes'
  BY <1>1, <1>2, <1>3, <1>7, SMTT(20) DEF Sizes, Slots
<1>11. AcceptInOrder'
  BY <1>1, <1>4 DEF AcceptInOrder, OneMode
<1> QED BY <1>6, <1>8, <1>9, <1>10, <1>11

(* host_write_loc moves behind what was copied.                            *)
LEMMA PublishKeeps ==
  ASSUME BridgeIInv, R_Publish
  PROVE  BridgeIInv'
<1> DEFINE r == head.read  w == head.write  a == todo[1]  b == todo[2]  new == (w + a) % DataSize
<1> USE DEF BridgeIInv
<1>1. /\ rpc = "publish" /\ rpc' = IF b > 0 THEN "second" ELSE "recv"
      /\ head' = [head EXCEPT !.write = new] /\ todo' = <<0, b>>
      /\ UNCHANGED <<data, accept, get_accept_fd, status_id, then, got, sent>>
  BY DEF R_Publish, Go, context, world
<1>2. /\ r \in Slots /\ w \in Slots /\ Off(r, w) \in Slots /\ DataSize \in Nat /\ DataSize > 0
      /\ got \in 0 .. 1 /\ a \in Nat /\ b \in Nat
  BY SizeAssumption, OffTyped DEF BridgeTyped
<1>3. /\ a > 0 /\ w + a <= DataSize /\ (b > 0 => w + a = DataSize)
      /\ Pending = Off(r, w) + a + b /\ Pending < DataSize
  BY <1>1 DEF Sizes, Pending
<1>4. status_id \notin {"BIND"} /\ then \notin {"end", "pending", "accept"}
  BY <1>1 DEF Control
<1>5. Off(r, w) + a < DataSize
  BY <1>2, <1>3, SMTT(20) DEF Slots
<1>6. new \in Slots /\ Off(r, new) = Off(r, w) + a /\ (w + a = DataSize => new = 0)
  <2>1. CASE w + a < DataSize
    <3>1. new = w + a
      BY <1>2, <2>1, ModSmall DEF Slots
    <3> HIDE DEF new
    <3>2. new \in Slots
      BY <1>2, <2>1, <3>1 DEF Slots
    <3>3. Off(r, w + a) = Off(r, w) + a
      BY <1>2, <1>5, <2>1, OffAdd
    <3> QED BY <1>2, <2>1, <3>1, <3>2, <3>3 DEF Slots
  <2>2. CASE w + a = DataSize
    <3>1. new = 0
      BY <1>2, <2>2, ModBig DEF Slots
    <3> HIDE DEF new
    <3> QED BY <1>2, <1>5, <2>2, <3>1, OffAdd DEF Slots
  <2> QED BY <1>2, <1>3, <2>1, <2>2 DEF Slots
<1>7. head'.read = r /\ head'.write = new /\ head' \in [write : Slots, read : Slots]
  <2> HIDE DEF new
  <2> QED BY <1>1, <1>2, <1>6 DEF BridgeTyped
<1>8. Published'
  <2>1. SUFFICES ASSUME NEW k \in Slots, Off(r, k) < Off(r, w) + a
                 PROVE  data[k] = (got + Off(r, k)) % 2
    BY <1>1, <1>6, <1>7 DEF Published
  <2>2. CASE Off(r, k) < Off(r, w)
    BY <2>2 DEF Published
  <2>3. CASE Off(r, w) <= Off(r, k)
    <3>1. k \in w .. w + a - 1
      <4> HIDE DEF r, w, a
      <4> QED BY <1>2, <1>3, <1>5, <2>1, <2>3, OffRange
    <3>2. Off(r, k) = Off(r, w) + (k - w)
      <4> DEFINE i == k - w
      <4>1. i \in Nat /\ i < a /\ w + i = k /\ k < DataSize
        BY <1>2, <3>1 DEF Slots
      <4> HIDE DEF r, w, a, i
      <4>2. Off(r, w) + i < DataSize /\ w + i < DataSize
        BY <1>2, <1>5, <4>1 DEF Slots
      <4>3. Off(r, w + i) = Off(r, w) + i
        BY <1>2, <4>1, <4>2, OffAdd
      <4> QED BY <4>1, <4>3 DEF i
    <3>3. data[k] = (got + Off(r, w) + k - w) % 2
      BY <3>1 DEF CopiedInOrder
    <3>4. got + Off(r, w) + k - w = got + (Off(r, w) + (k - w))
      BY <1>2 DEF Slots
    <3> QED BY <3>2, <3>3, <3>4
  <2>4. Off(r, k) \in Int /\ Off(r, w) \in Int
    BY <1>2, OffTyped
  <2> QED BY <2>2, <2>3, <2>4
<1>9. Pending' = Pending /\ todo' \in Nat \X Nat /\ todo'[1] = 0 /\ todo'[2] = b
  <2>1. Pending' = Off(r, new) + 0 + b
    BY <1>1, <1>7 DEF Pending
  <2> HIDE DEF new
  <2> QED BY <1>1, <1>2, <1>3, <1>6, <2>1 DEF Slots
<1>10. CopiedInOrder'
  <2> HIDE DEF new
  <2>1. new .. new + 0 - 1 = {}
    BY <1>6 DEF Slots
  <2> QED BY <1>7, <1>9, <2>1 DEF CopiedInOrder
<1>11. BridgeTyped'
  BY <1>1, <1>7, <1>9 DEF BridgeTyped
<1>12. OneMode' /\ Control'
  <2>1. status_id # "NONE"
    BY <1>1 DEF Control
  <2> QED BY <1>1, <1>4, <2>1 DEF Control, OneMode
<1>13. Sizes'
  <2> HIDE DEF new
  <2>1. b > 0 \/ b = 0
    BY <1>2
  <2> QED BY <1>1, <1>2, <1>3, <1>6, <1>7, <1>9, <2>1 DEF Sizes
<1>14. AcceptInOrder'
  BY <1>1, <1>4 DEF AcceptInOrder, OneMode
<1> QED BY <1>8, <1>10, <1>11, <1>12, <1>13, <1>14

(* The guest takes a byte or a connection.                                 *)
LEMMA TakeKeeps ==
  ASSUME BridgeIInv, B_GuestTakes
  PROVE  BridgeIInv'
<1> DEFINE r == head.read  w == head.write
<1> USE DEF BridgeIInv
<1>1. /\ Available /\ got' = 1 - got
      /\ UNCHANGED <<data, todo, get_accept_fd, status_id, rpc, then, sent>>
  BY DEF B_GuestTakes, context, thread
<1>2. /\ r \in Slots /\ w \in Slots /\ DataSize \in Nat /\ DataSize > 0 /\ got \in 0 .. 1
      /\ todo[1] \in Nat /\ todo[2] \in Nat /\ got' \in 0 .. 1
  BY <1>1, SizeAssumption DEF BridgeTyped
<1>3. Control'
  BY <1>1 DEF Control
<1>4. CASE accept.status = "GET"
  <2>1. accept' = [accept EXCEPT !.status = "NONE"] /\ UNCHANGED head
    BY <1>4 DEF B_GuestTakes
  <2>2. status_id = "BIND" /\ r = w /\ todo = <<0, 0>> /\ rpc # "status"
    BY <1>4 DEF OneMode, Control, Sizes, AcceptInOrder
  <2>3. BridgeTyped' /\ OneMode'
    BY <1>1, <1>2, <2>1, <2>2 DEF BridgeTyped, OneMode
  <2>4. Off(r, w) = 0 /\ \A k \in Slots : Off(r, k) >= 0
    BY <1>2, <2>2 DEF Off, Slots
  <2>5. Published'
    <3>1. SUFFICES ASSUME NEW k \in Slots, Off(r, k) < Off(r, w) PROVE FALSE
      BY <2>1 DEF Published
    <3> QED BY <1>2, <2>4, <3>1, OffTyped
  <2>6. CopiedInOrder'
    <3>1. w .. w + 0 - 1 = {}
      BY <1>2 DEF Slots
    <3> QED BY <1>1, <2>1, <2>2, <3>1 DEF CopiedInOrder
  <2>7. Sizes'
    BY <1>1, <2>1, <2>2 DEF Sizes, Pending
  <2>8. Offered = 1 /\ Offered' = 0 /\ accept'.status = "NONE"
    BY <1>4, <2>1, SMTT(20) DEF Offered, Here, BridgeTyped
  <2>9. AcceptInOrder'
    <3>1. \A y \in 0 .. 1 : (got + 1 + y) % 2 = (got' + 0 + y) % 2 /\ (got + 1) % 2 = (got' + 0) % 2
      BY <1>1, <1>2
    <3>2. Here(get_accept_fd # -1) \in 0 .. 1 /\ Here(get_accept_fd # -1)' = Here(get_accept_fd # -1)
      BY <1>1 DEF Here
    <3> QED BY <1>1, <2>2, <2>8, <3>1, <3>2 DEF AcceptInOrder
  <2> QED BY <1>3, <2>3, <2>5, <2>6, <2>7, <2>9
<1>5. CASE accept.status # "GET"
  <2> DEFINE new == (r + 1) % DataSize
  <2>1. /\ head' = [head EXCEPT !.read = new] /\ UNCHANGED accept /\ r # w
    BY <1>1, <1>5 DEF B_GuestTakes, Available
  <2>2. status_id \notin {"NONE", "BIND"} /\ accept.status = "NONE" /\ get_accept_fd = -1
    BY <2>1 DEF OneMode
  <2>3. new \in Slots /\ Off(new, w) = Off(r, w) - 1
        /\ \A k \in Slots : Off(new, k) = IF k = r THEN DataSize - 1 ELSE Off(r, k) - 1
    <3> HIDE DEF w
    <3> QED BY <1>2, <2>1, OffNext
  <2> HIDE DEF new
  <2>4. head'.read = new /\ head'.write = w /\ head' \in [write : Slots, read : Slots]
    BY <2>1, <2>3 DEF BridgeTyped
  <2>5. \A y \in Int : (got' + (y - 1)) % 2 = (got + y) % 2
    BY <1>1, <1>2, Parity
  <2>6. Off(r, w) \in Int /\ Off(r, w) < DataSize
    <3>1. Off(r, w) \in Slots
      BY <1>2, OffTyped
    <3> HIDE DEF r, w
    <3> QED BY <3>1, SizeAssumption DEF Slots
  <2>7. Published'
    <3>1. SUFFICES ASSUME NEW k \in Slots, Off(new, k) < Off(new, w)
                   PROVE  data[k] = (got' + Off(new, k)) % 2
      BY <1>1, <2>4, SMTT(20) DEF Published
    <3>2. k # r
      BY <1>2, <2>3, <2>6, <3>1
    <3>3. Off(new, k) = Off(r, k) - 1 /\ Off(r, k) \in Int
      BY <1>2, <2>3, <3>2, OffTyped, SMTT(20)
    <3>4. Off(r, k) < Off(r, w)
      BY <2>3, <2>6, <3>1, <3>3
    <3>5. data[k] = (got + Off(r, k)) % 2
      BY <3>4 DEF Published
    <3> QED BY <2>5, <3>3, <3>5, SMTT(20)
  <2>8. CopiedInOrder'
    <3>1. SUFFICES ASSUME NEW k \in w .. w + todo[1] - 1
                   PROVE  k \in Slots /\ data[k] = (got' + Off(new, w) + k - w) % 2
      BY <1>1, <2>4 DEF CopiedInOrder
    <3>2. k \in Slots /\ data[k] = (got + Off(r, w) + k - w) % 2
      BY DEF CopiedInOrder
    <3> DEFINE y == Off(r, w) + k - w
    <3>3. y \in Int /\ got + Off(r, w) + k - w = got + y /\ got' + Off(new, w) + k - w = got' + (y - 1)
      BY <1>2, <2>3, <2>6, <3>2 DEF Slots
    <3> HIDE DEF y
    <3> QED BY <2>5, <3>2, <3>3, SMTT(20)
  <2>9. Pending' = Pending - 1 /\ Pending \in Int
    <3>1. Pending' = Off(new, w) + todo[1] + todo[2]
      BY <1>1, <2>4 DEF Pending
    <3>2. Pending = Off(r, w) + todo[1] + todo[2]
      BY DEF Pending
    <3> HIDE DEF r, w
    <3> QED BY <1>2, <2>3, <2>6, <3>1, <3>2
  <2>10. Sizes'
    <3>1. (got' + Pending') % 2 = (got + Pending) % 2
      BY <2>5, <2>9
    <3>2. Pending' < DataSize
      BY <1>2, <2>9 DEF Sizes
    <3> QED BY <1>1, <2>4, <3>1, <3>2 DEF Sizes
  <2>11. BridgeTyped' /\ OneMode'
    BY <1>1, <1>2, <2>1, <2>2, <2>4 DEF BridgeTyped, OneMode
  <2>12. AcceptInOrder'
    BY <1>1, <2>1, <2>2 DEF AcceptInOrder
  <2> QED BY <1>3, <2>7, <2>8, <2>10, <2>11, <2>12
<1> QED BY <1>4, <1>5

(* bridge_accept_host_thread has a connection, and hands it over.          *)
LEMMA AcceptKeeps ==
  ASSUME BridgeIInv, A_Pending \/ A_Status \/ A_Accept
  PROVE  BridgeIInv'
<1> USE DEF BridgeIInv, Go, Interrupt, context, world
<1>1. UNCHANGED <<head, data, todo, got, status_id>> /\ rpc \in {"pending", "status", "accept"}
  BY DEF A_Pending, A_Status, A_Accept, buffer, thread
<1>2. rpc' \in {"accept", "status", "loop", "irq"} /\ then' \in {then, "accept"}
  BY DEF A_Pending, A_Status, A_Accept
<1>3. status_id = "BIND" /\ then # "end" /\ then \in {"loop", "pending", "accept", "end"}
  BY <1>1 DEF Control
<1>4. Published' /\ CopiedInOrder'
  BY <1>1 DEF Published, CopiedInOrder
<1>5. Sizes'
  <2>1. Pending' = Pending /\ todo = <<0, 0>>
    BY <1>1 DEF Pending, Sizes
  <2> QED BY <1>1, <1>2, <1>3, <2>1 DEF Sizes
<1>6. OneMode'
  BY <1>1, <1>3 DEF OneMode
<1>7. got \in 0 .. 1 /\ sent \in 0 .. 1 /\ get_accept_fd \in -1 .. 1
      /\ accept \in [status : {"NONE", "GET"}, fd : 0 .. 1] /\ Offered \in 0 .. 1
  BY DEF BridgeTyped, Offered, Here
<1>8. CASE A_Pending
  <2>1. /\ UNCHANGED <<get_accept_fd, sent, then>> /\ rpc' \in {"accept", "status", "loop"}
        /\ rpc' = "accept" => get_accept_fd = -1
        /\ accept' = IF rpc' = "status" THEN [accept EXCEPT !.fd = get_accept_fd] ELSE accept
        /\ rpc' = "status" => accept.status = "NONE" /\ get_accept_fd # -1
    BY <1>8 DEF A_Pending, thread
  <2>2. /\ accept' \in [status : {"NONE", "GET"}, fd : 0 .. 1] /\ accept'.status = accept.status
        /\ accept.status = "GET" => accept'.fd = accept.fd
        /\ rpc' = "status" => accept'.fd = get_accept_fd
    BY <1>7, <2>1
  <2>3. Offered' = Offered /\ Here(get_accept_fd # -1)' = Here(get_accept_fd # -1)
    BY <2>1, <2>2 DEF Offered
  <2>4. AcceptInOrder'
    BY <1>1, <2>1, <2>2, <2>3 DEF AcceptInOrder
  <2> QED BY <1>1, <1>3, <1>4, <1>5, <1>6, <2>1, <2>2, <2>4 DEF BridgeTyped, Control
<1>9. CASE A_Status
  <2>1. /\ rpc = "status" /\ rpc' = "irq" /\ then' = "accept" /\ get_accept_fd' = -1
        /\ accept' = [accept EXCEPT !.status = "GET"] /\ UNCHANGED sent
    BY <1>9 DEF A_Status
  <2>2. accept.status = "NONE" /\ accept.fd = get_accept_fd /\ get_accept_fd # -1
    BY <1>7, <2>1 DEF AcceptInOrder
  <2>3. /\ accept' \in [status : {"NONE", "GET"}, fd : 0 .. 1]
        /\ accept'.status = "GET" /\ accept'.fd = accept.fd
    BY <1>7, <2>1
  <2>4. Offered = 0 /\ Offered' = 1 /\ Here(get_accept_fd # -1) = 1 /\ Here(get_accept_fd # -1)' = 0
    BY <2>1, <2>2, <2>3 DEF Offered, Here
  <2>5. accept.fd = got /\ sent = (got + 1 + 0) % 2
    BY <1>3, <1>7, <2>2, <2>4 DEF AcceptInOrder
  <2>6. AcceptInOrder'
    BY <1>1, <2>1, <2>3, <2>4, <2>5, SMTT(20) DEF AcceptInOrder
  <2> QED BY <1>1, <1>3, <1>4, <1>5, <1>6, <2>1, <2>3, <2>6 DEF BridgeTyped, Control
<1>10. CASE A_Accept
  <2>1. /\ rpc = "accept" /\ rpc' = "loop" /\ get_accept_fd' = sent /\ sent' = 1 - sent
        /\ UNCHANGED <<accept, then>>
    BY <1>10 DEF A_Accept, buffer
  <2>2. get_accept_fd = -1
    BY <2>1 DEF AcceptInOrder
  <2>3. Offered' = Offered /\ Here(get_accept_fd # -1) = 0 /\ Here(get_accept_fd # -1)' = 1
    BY <1>7, <2>1, <2>2 DEF Offered, Here
  <2>4. sent = (got + Offered + 0) % 2
    BY <1>3, <2>3 DEF AcceptInOrder
  <2>5. sent = (got + Offered) % 2 /\ sent' = (got + Offered + 1) % 2 /\ sent' \in 0 .. 1
    BY <1>7, <2>1, <2>4, SMTT(20)
  <2>6. AcceptInOrder'
    BY <1>1, <1>7, <2>1, <2>3, <2>5 DEF AcceptInOrder
  <2> QED BY <1>1, <1>3, <1>4, <1>5, <1>6, <1>7, <2>1, <2>5, <2>6, SMTT(20) DEF BridgeTyped, Control
<1> QED BY <1>8, <1>9, <1>10

(* A context begins and ends.                                              *)
LEMMA BeginAndEndKeep ==
  ASSUME BridgeIInv, R_Close \/ \E status \in {"BIND", "CONNECTED"} : Start(status)
  PROVE  BridgeIInv'
<1> USE DEF BridgeIInv, ring
<1>1. UNCHANGED <<ring, accept>> /\ rpc \in {"close", "none"} /\ rpc' \in {"irq", "loop"}
  BY SMTT(20) DEF R_Close, Start, Interrupt, Go, buffer, thread, world
<1>2. Published' /\ CopiedInOrder' /\ Pending' = Pending /\ Offered' = Offered /\ todo = <<0, 0>>
  BY <1>1 DEF Published, CopiedInOrder, Pending, Offered, Sizes
<1>3. CASE R_Close
  <2>1. rpc = "close" /\ rpc' = "irq" /\ then' = "end" /\ get_accept_fd' = -1 /\ UNCHANGED status_id
    BY <1>3, SMTT(20) DEF R_Close, Interrupt
  <2>2. BridgeTyped' /\ OneMode' /\ Control'
    BY <1>1, <2>1, SMTT(20) DEF BridgeTyped, OneMode, Control
  <2>3. Sizes' /\ AcceptInOrder'
    BY <1>1, <1>2, <2>1 DEF Sizes, AcceptInOrder
  <2> QED BY <1>2, <2>2, <2>3
<1>4. ASSUME NEW status \in {"BIND", "CONNECTED"}, Start(status) PROVE BridgeIInv'
  <2>1. /\ status_id = "NONE" /\ status_id' = status /\ rpc = "none" /\ rpc' = "loop"
        /\ UNCHANGED <<get_accept_fd, then>>
    BY <1>4 DEF Start, Go, thread
  <2>2. /\ head.read = head.write /\ accept.status = "NONE" /\ get_accept_fd = -1
        /\ then \notin {"end", "pending", "accept"}
    BY <2>1, SMTT(20) DEF OneMode, Control
  <2>3. BridgeTyped' /\ OneMode' /\ Control'
    BY <1>1, <2>1, <2>2, SMTT(20) DEF BridgeTyped, OneMode, Control
  <2>4. Sizes'
    BY <1>1, <1>2, <2>1, SMTT(20) DEF Sizes
  <2>5. Pending = 0 /\ Offered = 0 /\ Here(get_accept_fd # -1)' = 0
    BY <1>2, <2>1, <2>2, SizeAssumption DEF Pending, Off, Offered, Here, BridgeTyped, Slots
  <2>6. sent = (got + 0 + 0) % 2
    BY <2>1, <2>5, SMTT(20) DEF Sizes, BridgeTyped
  <2>7. AcceptInOrder'
    BY <1>1, <1>2, <2>1, <2>2, <2>5, <2>6, Zenon DEF AcceptInOrder
  <2> QED BY <1>2, <2>3, <2>4, <2>7
<1> QED BY <1>3, <1>4

(* For every size of the ring and of the cache, the guest finds every byte *)
(* and every connection in order, whatever R does between two of its reads *)
(* (fd_data_to_guest_mem, bridge_accept_host_thread).                      *)
THEOREM BridgeIsInOrder == BridgeSpec => []ArrivesInOrder
<1>1. BridgeIInv /\ [BridgeNext]_bridgevars => BridgeIInv'
  <2> SUFFICES ASSUME BridgeIInv, BridgeNext \/ UNCHANGED bridgevars PROVE BridgeIInv'
    OBVIOUS
  <2>1. CASE bridge_read_host_thread
    BY <2>1, ThreadMoves, RecvKeeps, PublishKeeps, SecondKeeps DEF bridge_read_host_thread
  <2>2. CASE bridge_accept_host_thread
    BY <2>2, ThreadMoves, AcceptKeeps DEF bridge_accept_host_thread
  <2>3. CASE Irq \/ R_Close \/ Start("BIND") \/ Start("CONNECTED") \/ B_GuestTakes
    BY <2>3, ThreadMoves, BeginAndEndKeep, TakeKeeps
  <2> QED BY <2>1, <2>2, <2>3, OthersMove DEF BridgeNext
<1>2. BridgeIInv => ArrivesInOrder
  <2> SUFFICES ASSUME BridgeIInv PROVE ArrivesInOrder
    OBVIOUS
  <2>1. ASSUME head.read # head.write PROVE data[head.read] = got
    <3>1. head.read \in Slots /\ head.write \in Slots /\ got \in 0 .. 1
      BY DEF BridgeIInv, BridgeTyped
    <3>2. Off(head.read, head.read) = 0 /\ Off(head.read, head.write) > 0
      BY <2>1, <3>1, SizeAssumption DEF Off, Slots
    <3>3. data[head.read] = (got + 0) % 2
      BY <3>1, <3>2 DEF BridgeIInv, Published
    <3> QED BY <3>1, <3>3
  <2> QED BY <2>1, Zenon DEF BridgeIInv, AcceptInOrder, ArrivesInOrder
<1> QED BY <1>1, <1>2, BridgeInitIInv, PTL DEF BridgeSpec

LEMMA BridgeStepIsIrqStep == [BridgeNext]_bridgevars => [Next]_vars
<1> SUFFICES ASSUME BridgeNext \/ UNCHANGED bridgevars PROVE [Next]_vars
  BY DEF bridgevars
<1>1. CASE Irq
  BY <1>1, RAssumption, Zenon
  DEF Irq, R_NotEnabled, R_Check, R_Swap, R_Send, R_Sent, Next, set_express_device_irq
<1>2. CASE bridge_read_host_thread \/ R_Close
  BY <1>2 DEF bridge_read_host_thread, R_Loop, R_Begin, R_GivesUp, R_Recv, R_Publish, R_Second,
              R_Full, R_Again, R_Returns, R_Ends, R_Close
<1>3. CASE bridge_accept_host_thread
  BY <1>3 DEF bridge_accept_host_thread, A_Loop, A_Pending, A_Status, A_Nobody, A_Accept
<1>4. CASE \/ PeerShuts \/ Start("BIND") \/ Start("CONNECTED") \/ bridge_buffer_register
           \/ remove_bridge_context \/ Rm_Join \/ B_GuestTakes \/ B_GuestDone
           \/ UNCHANGED bridgevars
  BY <1>4 DEF PeerShuts, Start, bridge_buffer_register, remove_bridge_context, Rm_Join, B_GuestTakes,
              B_GuestDone, bridgevars
<1>5. CASE B_GuestRegisters \/ GuestRelease \/ Shutdown
  BY <1>5 DEF B_GuestRegisters, Next
<1>6. CASE \E t \in Threads : B_Host(t)
  BY <1>6 DEF B_Host, Next
<1> QED BY <1>1, <1>2, <1>3, <1>4, <1>5, <1>6 DEF BridgeNext

(* The irq call is in one place also while the bridge's thread R tries     *)
(* again and again to interrupt the guest.                                 *)
THEOREM BridgeKeepsIrqCall == BridgeSpec => []IrqCallInOnePlace
<1>1. BridgeInit => Init
  BY DEF BridgeInit
<1>2. BridgeSpec => Spec
  BY <1>1, BridgeStepIsIrqStep, PTL DEF BridgeSpec, Spec
<1> QED BY <1>2, IrqCallIsKept, PTL
===============================================================================
