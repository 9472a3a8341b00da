----------------------------- MODULE ExpressSync ------------------------------
(***************************************************************************)
(* The synchronisation points of express-sync.  A sync id is one bit of a  *)
(* bitmap in memory shared with the guest: a host thread sets the bit when *)
(* its work is done (signal_express_sync), others wait until it is set     *)
(* (wait_for_express_sync).  With need_gpu_sync the signaller also leaves  *)
(* a GL fence in gpu_sync_id[id], which the waiter waits for and deletes.  *)
(*                                                                         *)
(* The ids of the model share one 32-bit word of the bitmap, so that two   *)
(* signallers of different ids compete for the word.  The host's waiters   *)
(* sleep on one auto-reset event for all ids, at most 1 ms at a time.      *)
(* A valid id and a registered sync buffer are assumed: without them both  *)
(* functions return at once.                                               *)
(***************************************************************************)
EXTENDS Integers, FiniteSets

CONSTANTS Signallers, SyncWaiters,   \* host threads
          Ids,                   \* sync ids of one word of the bitmap
          IdsOf,                 \* thread -> the ids it signals or waits for
          MaxFence,              \* bound: GL fences ever created
          MaxReset               \* bound: times the guest takes back an id

NONE == 0                        \* the NULL fence; no id

ASSUME SyncAssumption ==
  /\ NONE \notin Ids
  /\ IdsOf \in [Signallers \cup SyncWaiters -> SUBSET Ids]
  /\ MaxFence \in Nat /\ MaxReset \in Nat

VARIABLES
  sync_status,      \* the ids whose bit is set
  gpu_sync_id,      \* id -> fence
  fences,           \* number of fences created
  waited, ended,    \* history: waiter -> the fence its call waited for; the fences of calls that returned
  sync_event, sync_wait_cnt,        \* the event, and whether the count is not 0
  guest_waitting_cnt,               \* whether the guest's count is not 0
  resets,
  sigpc, sid, stmp,   \* signaller -> place, id, word read
  waitpc, wid          \* waiter -> place, id

fvars == <<gpu_sync_id, fences, waited, ended>>
eventvars == <<sync_event, sync_wait_cnt>>
guestvars == <<guest_waitting_cnt, resets>>
svars == <<sigpc, sid, stmp>>
wvars == <<waitpc, wid>>
syncvars == <<sync_status, fvars, eventvars, guestvars, svars, wvars>>

SyncTypeOK ==
  /\ sync_status \in SUBSET Ids
  /\ gpu_sync_id \in [Ids -> NONE .. MaxFence]
  /\ fences \in 0 .. MaxFence
  /\ waited \in [SyncWaiters -> NONE .. MaxFence] /\ ended \in SUBSET (1 .. MaxFence)
  /\ sync_event \in BOOLEAN /\ sync_wait_cnt \in BOOLEAN
  /\ guest_waitting_cnt \in BOOLEAN /\ resets \in 0 .. MaxReset
  /\ sigpc \in [Signallers -> {"idle", "fence", "read", "cas", "check", "wake", "irq"}]
  /\ sid \in [Signallers -> Ids \cup {NONE}] /\ stmp \in [Signallers -> SUBSET Ids]
  /\ waitpc \in [SyncWaiters -> {"idle", "test", "count", "sleep", "gpu", "wait", "clear"}]
  /\ wid \in [SyncWaiters -> Ids \cup {NONE}]

SyncInit ==
  /\ sync_status = {}
  /\ gpu_sync_id = [i \in Ids |-> NONE]
  /\ fences = 0 /\ waited = [w \in SyncWaiters |-> NONE] /\ ended = {}
  /\ sync_event = FALSE /\ sync_wait_cnt = FALSE
  /\ guest_waitting_cnt = FALSE /\ resets = 0
  /\ sigpc = [s \in Signallers |-> "idle"]
  /\ sid = [s \in Signallers |-> NONE]
  /\ stmp = [s \in Signallers |-> {}]
  /\ waitpc = [w \in SyncWaiters |-> "idle"]
  /\ wid = [w \in SyncWaiters |-> NONE]

-------------------------------------------------------------------------------
(* The guest (external): it counts itself before it sleeps, and takes a    *)
(* signalled id back for reuse when no host thread waits for it.           *)
GuestWaits ==
  /\ ~guest_waitting_cnt
  /\ guest_waitting_cnt' = TRUE
  /\ UNCHANGED <<sync_status, fvars, eventvars, resets, svars, wvars>>

GuestReset(i) ==
  /\ i \in sync_status /\ resets < MaxReset
  /\ \A w \in SyncWaiters : wid[w] # i
  /\ sync_status' = sync_status \ {i}
  /\ resets' = resets + 1
  /\ UNCHANGED <<fvars, eventvars, guest_waitting_cnt, svars, wvars>>

-------------------------------------------------------------------------------
(* signal_express_sync.                                                    *)
SGo(s, from, to) == sigpc[s] = from /\ sigpc' = [sigpc EXCEPT ![s] = to]

S_Call(s, i, need_gpu_sync) ==
  /\ SGo(s, "idle", IF need_gpu_sync THEN "fence" ELSE "read")
  /\ need_gpu_sync => fences + Cardinality({u \in Signallers : sigpc[u] = "fence"}) < MaxFence
  /\ sid' = [sid EXCEPT ![s] = i]
  /\ UNCHANGED <<sync_status, fvars, eventvars, guestvars, stmp, wvars>>

(* An old fence is deleted, a new one created.  A deleted fence has no     *)
(* state of its own here: what counts is which one gpu_sync_id names.      *)
S_Fence(s) ==
  /\ SGo(s, "fence", "read")
  /\ fences' = fences + 1
  /\ gpu_sync_id' = [gpu_sync_id EXCEPT ![sid[s]] = fences + 1]
  /\ UNCHANGED <<sync_status, waited, ended, eventvars, guestvars, sid, stmp, wvars>>

(* SET_SYNC_FLAG: read the word, compare-and-swap, look at the bit.        *)
S_Read(s) ==
  /\ SGo(s, "read", "cas")
  /\ stmp' = [stmp EXCEPT ![s] = sync_status]
  /\ UNCHANGED <<sync_status, fvars, eventvars, guestvars, sid, wvars>>

(* Mutant: a plain store instead of the compare-and-swap.                  *)
S_CasStores(s) ==
  /\ SGo(s, "cas", "check")
  /\ sync_status' = stmp[s] \cup {sid[s]}
  /\ stmp' = [stmp EXCEPT ![s] = {}]
  /\ UNCHANGED <<fvars, eventvars, guestvars, sid, wvars>>

S_Cas(s) ==
  /\ SGo(s, "cas", "check")
  /\ sync_status' = IF sync_status = stmp[s] THEN stmp[s] \cup {sid[s]} ELSE sync_status
  /\ stmp' = [stmp EXCEPT ![s] = {}]
  /\ UNCHANGED <<fvars, eventvars, guestvars, sid, wvars>>

S_AnyWaiter(s) ==
  /\ SGo(s, "check", IF sid[s] \in sync_status THEN "wake" ELSE "read")
  /\ UNCHANGED <<sync_status, fvars, eventvars, guestvars, sid, stmp, wvars>>

S_Wake(s) ==
  /\ SGo(s, "wake", "irq")
  /\ sync_event' = (sync_event \/ sync_wait_cnt)
  /\ sync_wait_cnt' = FALSE
  /\ UNCHANGED <<sync_status, fvars, guestvars, sid, stmp, wvars>>

(* The waiting guest is interrupted (DeviceIrq).                           *)
S_Irq(s) ==
  /\ SGo(s, "irq", "idle")
  /\ guest_waitting_cnt' = FALSE
  /\ sid' = [sid EXCEPT ![s] = NONE]
  /\ UNCHANGED <<sync_status, fvars, eventvars, resets, stmp, wvars>>

signal_express_sync(s) ==
  S_Fence(s) \/ S_Read(s) \/ S_Cas(s) \/ S_AnyWaiter(s) \/ S_Wake(s) \/ S_Irq(s)

-------------------------------------------------------------------------------
(* wait_for_express_sync.                                                  *)
WGo(w, from, to) ==
  /\ waitpc[w] = from
  /\ waitpc' = [waitpc EXCEPT ![w] = to]
  /\ wid' = [wid EXCEPT ![w] = IF to = "idle" THEN NONE ELSE @]

W_Call(w, i) ==
  /\ waitpc[w] = "idle"
  /\ waitpc' = [waitpc EXCEPT ![w] = "test"]
  /\ wid' = [wid EXCEPT ![w] = i]
  /\ UNCHANGED <<sync_status, fvars, eventvars, guestvars, svars>>

(* A signalled id goes on to its fence, or returns without need_gpu_sync.  *)
W_Test(w) ==
  /\ \/ wid[w] \notin sync_status /\ WGo(w, "test", "count")
     \/ wid[w] \in sync_status /\ WGo(w, "test", "gpu")
     \/ wid[w] \in sync_status /\ WGo(w, "test", "idle")
  /\ UNCHANGED <<sync_status, fvars, eventvars, guestvars, svars>>

W_Count(w) ==
  /\ WGo(w, "count", "sleep")
  /\ sync_wait_cnt' = TRUE
  /\ UNCHANGED <<sync_status, fvars, sync_event, guestvars, svars>>

(* Mutant: the wait has no timeout.                                        *)
W_SleepForever(w) ==
  /\ sync_event
  /\ WGo(w, "sleep", "test")
  /\ sync_event' = FALSE
  /\ UNCHANGED <<sync_status, fvars, sync_wait_cnt, guestvars, svars>>

(* wait_event(sync_event, 1): the event, or the timeout.                   *)
W_Sleep(w) ==
  /\ WGo(w, "sleep", "test")
  /\ sync_event' = FALSE
  /\ UNCHANGED <<sync_status, fvars, sync_wait_cnt, guestvars, svars>>

(* wait_event returns -1: "wait for sync failed", the loop is left.        *)
W_Fail(w) ==
  /\ WGo(w, "sleep", "gpu")
  /\ UNCHANGED <<sync_status, fvars, eventvars, guestvars, svars>>

W_Gpu(w) ==
  /\ WGo(w, "gpu", IF gpu_sync_id[wid[w]] # NONE THEN "wait" ELSE "idle")
  /\ UNCHANGED <<sync_status, fvars, eventvars, guestvars, svars>>

(* glWaitSync on what gpu_sync_id holds by now.                            *)
W_WaitFence(w) ==
  /\ WGo(w, "wait", "clear")
  /\ waited' = [waited EXCEPT ![w] = gpu_sync_id[wid[w]]]
  /\ UNCHANGED <<sync_status, gpu_sync_id, fences, ended, eventvars, guestvars, svars>>

FenceEnds(w) ==
  /\ ended' = ended \cup ({waited[w]} \ {NONE})
  /\ waited' = [waited EXCEPT ![w] = NONE]

(* Mutant: the fence stays after the wait.                                 *)
W_ClearNot(w) ==
  /\ WGo(w, "clear", "idle")
  /\ FenceEnds(w)
  /\ UNCHANGED <<sync_status, gpu_sync_id, fences, eventvars, guestvars, svars>>

(* glDeleteSync, and gpu_sync_id[sync_id] = NULL.                          *)
W_Clear(w) ==
  /\ WGo(w, "clear", "idle")
  /\ gpu_sync_id' = [gpu_sync_id EXCEPT ![wid[w]] = NONE]
  /\ FenceEnds(w)
  /\ UNCHANGED <<sync_status, fences, eventvars, guestvars, svars>>

wait_for_express_sync(w) ==
  W_Test(w) \/ W_Count(w) \/ W_Sleep(w) \/ W_Gpu(w) \/ W_WaitFence(w) \/ W_Clear(w)

-------------------------------------------------------------------------------
SyncNext ==
  \/ GuestWaits
  \/ \E i \in Ids : GuestReset(i)
  \/ \E s \in Signallers :
       \/ \E i \in IdsOf[s], need_gpu_sync \in BOOLEAN : S_Call(s, i, need_gpu_sync)
       \/ signal_express_sync(s)
  \/ \E w \in SyncWaiters :
       \/ \E i \in IdsOf[w] : W_Call(w, i)
       \/ wait_for_express_sync(w)
       \/ W_Fail(w)

SyncSpec == SyncInit /\ [][SyncNext]_syncvars

(* A host thread inside one of the two functions goes on; nobody has to    *)
(* call them, the guest owes nothing and no wait has to fail.              *)
SyncFairSpec ==
  /\ SyncSpec
  /\ \A s \in Signallers : WF_syncvars(signal_express_sync(s))
  /\ \A w \in SyncWaiters : WF_syncvars(wait_for_express_sync(w))

-------------------------------------------------------------------------------
(* Signallers of other ids of the word never take a signal back: only the  *)
(* guest clears a bit, although each signaller writes the whole word.      *)
OnlyGuestClears ==
  [][\A i \in Ids : i \in sync_status /\ i \notin sync_status' => GuestReset(i)]_syncvars

(* "a second wait_sync on the same id will skip gpu sync", for a wait that *)
(* begins when an earlier one has returned: whatever other threads wait    *)
(* for or signal meanwhile, the fence the earlier one waited for is gone.  *)
LaterWaitSkips == \A i \in Ids : gpu_sync_id[i] \notin ended

(* The same for two waits under way at the same time (express_sync.c:134): *)
(* the test, glWaitSync and the deletion are three steps, so that two      *)
(* threads can wait for one fence, and both delete it.                     *)
FenceWaitedOnce ==
  \A u, v \in SyncWaiters : u # v /\ waited[u] # NONE => waited[u] # waited[v]

(* A wait for a signalled id ends, although the waiter may have counted    *)
(* itself after the signaller looked and another may have taken the event. *)
SignalEndsWait ==
  \A w \in SyncWaiters : (wid[w] \in sync_status) ~> waitpc[w] = "idle"
===============================================================================
