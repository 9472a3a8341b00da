------------------------------- MODULE CallCache ------------------------------
(***************************************************************************)
(* The allocator of calls and of guest memory descriptors: a table of      *)
(* slots that doubles when no slot remains.  A slot is taken by a          *)
(* compare-and-swap on its flag, without a lock; only the growth is        *)
(* serialised, by atomic_locker, and runs while other threads take and     *)
(* release slots.                                                          *)
(*                                                                         *)
(* The flags are reached through pointers that growth copies, so a slot    *)
(* keeps its flag; flag_len and data_len are the lengths of the pointer    *)
(* arrays cache->flag and cache->data.  Slots are numbered from 0.  The    *)
(* cache exists (pre_alloc_cache_init has run).                            *)
(***************************************************************************)
EXTENDS Integers, FiniteSets

CONSTANTS Threads,            \* each holds at most one slot at a time
          INIT_CACHE_SIZE,
          MaxNum              \* bound: largest table

ASSUME CacheAssumption ==
  INIT_CACHE_SIZE \in Nat \ {0} /\ MaxNum \in Nat /\ INIT_CACHE_SIZE <= MaxNum

ASSUME ThreadsAssumption == IsFiniteSet(Threads)

Slots == 0 .. MaxNum - 1

VARIABLES flag,                      \* slot -> taken
          num, flag_len, data_len,
          remain_num, alloc_loc, atomic_locker,
          pc, loc                    \* thread -> place, now_loc

sizevars  == <<num, flag_len, data_len>>
cachevars == <<flag, sizevars, remain_num, alloc_loc, atomic_locker, pc, loc>>

Owning   == {"data", "count", "held", "rel_flag"}    \* the thread has a slot
Counted  == {"held", "rel_flag", "rel_count"}        \* remain_num tells so
Growing  == {"recheck", "grow_data", "grow_flag", "grow_remain", "grow_num", "unlock"}
CachePlaces == {"idle", "lock", "start", "scan"} \cup Owning \cup Counted \cup Growing

CacheTypeOK ==
  /\ flag \in [Slots -> BOOLEAN]
  /\ num \in 1 .. MaxNum /\ flag_len \in 1 .. MaxNum /\ data_len \in 1 .. MaxNum
  /\ remain_num \in Int /\ alloc_loc \in Slots
  /\ atomic_locker \in 0 .. 1
  /\ pc \in [Threads -> CachePlaces] /\ loc \in [Threads -> Slots]

CacheInit ==
  /\ flag = [i \in Slots |-> FALSE]
  /\ num = INIT_CACHE_SIZE /\ flag_len = INIT_CACHE_SIZE /\ data_len = INIT_CACHE_SIZE
  /\ remain_num = INIT_CACHE_SIZE
  /\ alloc_loc = 0 /\ atomic_locker = 0
  /\ pc = [t \in Threads |-> "idle"] /\ loc = [t \in Threads |-> 0]

Go(t, from, to) == pc[t] = from /\ pc' = [pc EXCEPT ![t] = to]

-------------------------------------------------------------------------------
(* get_one_cache: is there a slot?                                         *)
G_Test(t) ==
  /\ Go(t, "idle", IF remain_num = 0 THEN "lock" ELSE "start")
  /\ UNCHANGED <<flag, sizevars, remain_num, alloc_loc, atomic_locker, loc>>

G_Lock(t) ==
  /\ atomic_locker = 0
  /\ Go(t, "lock", "recheck")
  /\ atomic_locker' = 1
  /\ UNCHANGED <<flag, sizevars, remain_num, alloc_loc, loc>>

G_Recheck(t) ==
  /\ Go(t, "recheck", IF remain_num = 0 THEN "grow_data" ELSE "unlock")
  /\ UNCHANGED <<flag, sizevars, remain_num, alloc_loc, atomic_locker, loc>>

G_Data(t) ==
  /\ 2 * num <= MaxNum
  /\ Go(t, "grow_data", "grow_flag")
  /\ data_len' = 2 * num
  /\ UNCHANGED <<flag, num, flag_len, remain_num, alloc_loc, atomic_locker, loc>>

G_Flag(t) ==
  /\ Go(t, "grow_flag", "grow_remain")
  /\ flag_len' = 2 * num
  /\ UNCHANGED <<flag, num, data_len, remain_num, alloc_loc, atomic_locker, loc>>

(* Mutant: the count is stored, not added to.                              *)
G_RemainStores(t) ==
  /\ Go(t, "grow_remain", "grow_num")
  /\ remain_num' = num
  /\ UNCHANGED <<flag, sizevars, alloc_loc, atomic_locker, loc>>

G_Remain(t) ==
  /\ Go(t, "grow_remain", "grow_num")
  /\ remain_num' = remain_num + num
  /\ UNCHANGED <<flag, sizevars, alloc_loc, atomic_locker, loc>>

G_Num(t) ==
  /\ Go(t, "grow_num", "unlock")
  /\ num' = 2 * num
  /\ UNCHANGED <<flag, flag_len, data_len, remain_num, alloc_loc, atomic_locker, loc>>

G_Unlock(t) ==
  /\ Go(t, "unlock", "start")
  /\ atomic_locker' = 0
  /\ UNCHANGED <<flag, sizevars, remain_num, alloc_loc, loc>>

(* The scan starts at the last slot taken.                                 *)
G_Start(t) ==
  /\ Go(t, "start", "scan")
  /\ loc' = [loc EXCEPT ![t] = alloc_loc]
  /\ UNCHANGED <<flag, sizevars, remain_num, alloc_loc, atomic_locker>>

(* Mutant: the flag is set whether or not it was.                          *)
G_ScanTakes(t) ==
  /\ Go(t, "scan", "data")
  /\ flag' = [flag EXCEPT ![loc[t]] = TRUE]
  /\ UNCHANGED <<sizevars, remain_num, alloc_loc, atomic_locker, loc>>

(* The compare-and-swap of one flag takes the slot or moves on.            *)
G_Scan(t) ==
  /\ pc[t] = "scan"
  /\ IF flag[loc[t]]
     THEN /\ loc' = [loc EXCEPT ![t] = (@ + 1) % num]
          /\ UNCHANGED <<flag, pc>>
     ELSE /\ flag' = [flag EXCEPT ![loc[t]] = TRUE]
          /\ pc' = [pc EXCEPT ![t] = "data"]
          /\ UNCHANGED loc
  /\ UNCHANGED <<sizevars, remain_num, alloc_loc, atomic_locker>>

(* The index is written in front of the data; alloc_loc follows.           *)
G_Found(t) ==
  /\ Go(t, "data", "count")
  /\ alloc_loc' = loc[t]
  /\ UNCHANGED <<flag, sizevars, remain_num, atomic_locker, loc>>

G_Count(t) ==
  /\ Go(t, "count", "held")
  /\ remain_num' = remain_num - 1
  /\ UNCHANGED <<flag, sizevars, alloc_loc, atomic_locker, loc>>

get_one_cache(t) ==
  \/ G_Test(t) \/ G_Lock(t) \/ G_Recheck(t) \/ G_Data(t) \/ G_Flag(t) \/ G_Remain(t)
  \/ G_Num(t) \/ G_Unlock(t) \/ G_Start(t) \/ G_Scan(t) \/ G_Found(t) \/ G_Count(t)

-------------------------------------------------------------------------------
(* release_one_cache.                                                      *)
R_Begin(t) ==
  /\ Go(t, "held", "rel_flag")
  /\ UNCHANGED <<flag, sizevars, remain_num, alloc_loc, atomic_locker, loc>>

R_Flag(t) ==
  /\ Go(t, "rel_flag", "rel_count")
  /\ flag' = [flag EXCEPT ![loc[t]] = FALSE]
  /\ UNCHANGED <<sizevars, remain_num, alloc_loc, atomic_locker, loc>>

R_Count(t) ==
  /\ Go(t, "rel_count", "idle")
  /\ remain_num' = remain_num + 1
  /\ UNCHANGED <<flag, sizevars, alloc_loc, atomic_locker, loc>>

release_one_cache(t) == R_Begin(t) \/ R_Flag(t) \/ R_Count(t)

CacheNext == \E t \in Threads : get_one_cache(t) \/ release_one_cache(t)

CacheSpec == CacheInit /\ [][CacheNext]_cachevars

-------------------------------------------------------------------------------
(* Whatever grows meanwhile, a slot is never given to two threads.         *)
SlotHeldOnce ==
  \A t, u \in Threads : t # u /\ pc[t] \in Owning /\ pc[u] \in Owning => loc[t] # loc[u]

(* The lock-free scan and the read of cache->data never index beyond the   *)
(* pointer arrays, although growth replaces them and num one by one.       *)
IndexInArrays ==
  \A t \in Threads :
    /\ pc[t] = "scan" => loc[t] < flag_len
    /\ pc[t] \in Owning => loc[t] < flag_len /\ loc[t] < data_len

(* The flags and remain_num are changed in separate steps by every thread, *)
(* and remain_num may even be negative; still it does not drift: outside a *)
(* growth it is the number of slots minus the slots counted as taken.      *)
RemainDoesNotDrift ==
  atomic_locker = 0 => remain_num = num - Cardinality({t \in Threads : pc[t] \in Counted})

(* The table grows only when every slot is counted as taken by another     *)
(* thread: it stays below twice the number of slots in use at once.        *)
GrowsOnlyWhenNeeded ==
  num <= INIT_CACHE_SIZE \/ num <= 2 * (Cardinality(Threads) - 1)
===============================================================================
