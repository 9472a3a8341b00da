---------------------------- MODULE SharingProofs -----------------------------
(***************************************************************************)
(* Proofs about what threads share without a queue between them: the table *)
(* the structures of calls come from (CallCache), the word of sync bits    *)
(* and the fences behind it (ExpressSync), and the gbuffers of the         *)
(* composer and the window thread (Display).                               *)
(***************************************************************************)
EXTENDS CallCache, Display, ExpressSync, FiniteSetTheorems, TLAPS

-------------------------------------------------------------------------------
(* CallCache.                                                              *)

Enlarging == {"grow_data", "grow_flag", "grow_remain", "grow_num"}

(* atomic_locker is held by the one thread that may grow the table.        *)
LockerInv ==
  /\ \A t \in Threads : pc[t] \in Growing => atomic_locker = 1
  /\ \A t, u \in Threads : pc[t] \in Growing /\ pc[u] \in Growing => t = u

(* How far the arrays are ahead of num, by the grower's place.             *)
SizeInv ==
  /\ num <= flag_len /\ flag_len <= data_len
  /\ \A t \in Threads :
       /\ pc[t] = "grow_flag" => data_len = 2 * num /\ flag_len = num
       /\ pc[t] \in {"grow_remain", "grow_num"} => data_len = 2 * num /\ flag_len = 2 * num
  /\ (\A t \in Threads : pc[t] \notin {"grow_flag", "grow_remain", "grow_num"}) =>
        data_len = num /\ flag_len = num

(* Every index was below num when it was read, and num only grows.         *)
LocInv ==
  /\ alloc_loc < num
  /\ \A t \in Threads : pc[t] \in {"scan"} \cup Owning => loc[t] < num

(* A thread that has a slot has set its flag.                              *)
OwnInv == \A t \in Threads : pc[t] \in Owning => flag[loc[t]] = TRUE

SafeInv == CacheTypeOK /\ LockerInv /\ SizeInv /\ LocInv /\ OwnInv /\ SlotHeldOnce

-------------------------------------------------------------------------------
LEMMA InitSafe == CacheInit => SafeInv
BY CacheAssumption DEF CacheInit, SafeInv, CacheTypeOK, LockerInv, SizeInv, LocInv, OwnInv, SlotHeldOnce,
   Slots, CachePlaces, Owning, Counted, Growing

LEMMA G_Test_Safe == ASSUME SafeInv, NEW t \in Threads, G_Test(t) PROVE SafeInv'
<1> USE CacheAssumption DEF SafeInv, G_Test, Go, sizevars, CacheTypeOK, Slots
<1>1. CacheTypeOK'
  BY DEF SizeInv, CachePlaces, Owning, Counted, Growing
<1>2. LockerInv'
  BY DEF LockerInv, Growing, CachePlaces, Owning, Counted
<1>3. SizeInv'
  BY DEF SizeInv, LockerInv, Growing, CachePlaces, Owning, Counted
<1>4. LocInv'
  BY DEF LocInv, Owning
<1>5. OwnInv' /\ SlotHeldOnce'
  BY DEF OwnInv, SlotHeldOnce, Owning
<1> QED
  BY <1>1, <1>2, <1>3, <1>4, <1>5

LEMMA G_Lock_Safe == ASSUME SafeInv, NEW t \in Threads, G_Lock(t) PROVE SafeInv'
<1> USE CacheAssumption DEF SafeInv, G_Lock, Go, sizevars, CacheTypeOK, Slots
<1>1. CacheTypeOK'
  BY DEF SizeInv, CachePlaces, Owning, Counted, Growing
<1>2. LockerInv'
  BY DEF LockerInv, Growing, CachePlaces, Owning, Counted
<1>3. SizeInv'
  BY DEF SizeInv, LockerInv, Growing, CachePlaces, Owning, Counted
<1>4. LocInv'
  BY DEF LocInv, Owning
<1>5. OwnInv' /\ SlotHeldOnce'
  BY SMTT(20) DEF OwnInv, SlotHeldOnce, Owning
<1> QED
  BY <1>1, <1>2, <1>3, <1>4, <1>5, SMTT(20)

LEMMA G_Recheck_Safe == ASSUME SafeInv, NEW t \in Threads, G_Recheck(t) PROVE SafeInv'
<1> USE CacheAssumption DEF SafeInv, G_Recheck, Go, sizevars, CacheTypeOK, Slots
<1>1. CacheTypeOK'
  BY DEF SizeInv, CachePlaces, Owning, Counted, Growing
<1>2. LockerInv'
  BY DEF LockerInv, Growing, CachePlaces, Owning, Counted
<1>3. SizeInv'
  BY DEF SizeInv, LockerInv, Growing, CachePlaces, Owning, Counted
<1>4. LocInv'
  BY DEF LocInv, Owning
<1>5. OwnInv' /\ SlotHeldOnce'
  BY SMTT(20) DEF OwnInv, SlotHeldOnce, Owning
<1> QED
  BY <1>1, <1>2, <1>3, <1>4, <1>5, SMTT(20)

LEMMA G_Data_Safe == ASSUME SafeInv, NEW t \in Threads, G_Data(t) PROVE SafeInv'
<1> USE CacheAssumption DEF SafeInv, G_Data, Go, sizevars, CacheTypeOK, Slots
<1>1. CacheTypeOK'
  BY DEF SizeInv, CachePlaces, Owning, Counted, Growing
<1>2. LockerInv'
  BY DEF LockerInv, Growing, CachePlaces, Owning, Counted
<1>3. SizeInv'
  BY DEF SizeInv, LockerInv, Growing, CachePlaces, Owning, Counted
<1>4. LocInv'
  BY DEF LocInv, Owning
<1>5. OwnInv' /\ SlotHeldOnce'
  BY DEF OwnInv, SlotHeldOnce, Owning
<1> QED
  BY <1>1, <1>2, <1>3, <1>4, <1>5, SMTT(20)

LEMMA G_Flag_Safe == ASSUME SafeInv, NEW t \in Threads, G_Flag(t) PROVE SafeInv'
<1> USE CacheAssumption DEF SafeInv, G_Flag, Go, sizevars, CacheTypeOK, Slots
<1>1. CacheTypeOK'
  BY DEF SizeInv, CachePlaces, Owning, Counted, Growing
<1>2. LockerInv'
  BY DEF LockerInv, Growing, CachePlaces, Owning, Counted
<1>3. SizeInv'
  BY DEF SizeInv, LockerInv, Growing, CachePlaces, Owning, Counted
<1>4. LocInv'
  BY DEF LocInv, Owning
<1>5. OwnInv' /\ SlotHeldOnce'
  BY SMTT(20) DEF OwnInv, SlotHeldOnce, Owning
<1> QED
  BY <1>1, <1>2, <1>3, <1>4, <1>5, ZenonT(30)

LEMMA G_Remain_Safe == ASSUME SafeInv, NEW t \in Threads, G_Remain(t) PROVE SafeInv'
<1> USE CacheAssumption DEF SafeInv, G_Remain, Go, sizevars, CacheTypeOK, Slots
<1>1. CacheTypeOK'
  BY DEF SizeInv, CachePlaces, Owning, Counted, Growing
<1>2. LockerInv'
  BY DEF LockerInv, Growing, CachePlaces, Owning, Counted
<1>3. SizeInv'
  BY DEF SizeInv, LockerInv, Growing, CachePlaces, Owning, Counted
<1>4. LocInv'
  BY DEF LocInv, Owning
<1>5. OwnInv' /\ SlotHeldOnce'
  BY SMTT(20) DEF OwnInv, SlotHeldOnce, Owning
<1> QED
  BY <1>1, <1>2, <1>3, <1>4, <1>5, SMTT(20)

LEMMA G_Num_Safe == ASSUME SafeInv, NEW t \in Threads, G_Num(t) PROVE SafeInv'
<1> USE CacheAssumption DEF SafeInv, G_Num, Go, sizevars, CacheTypeOK, Slots
<1>1. CacheTypeOK'
  BY DEF SizeInv, CachePlaces, Owning, Counted, Growing
<1>2. LockerInv'
  BY DEF LockerInv, Growing, CachePlaces, Owning, Counted
<1>3. SizeInv'
  BY DEF SizeInv, LockerInv, Growing, CachePlaces, Owning, Counted
<1>4. LocInv'
  BY DEF LocInv, Owning
<1>5. OwnInv' /\ SlotHeldOnce'
  BY DEF OwnInv, SlotHeldOnce, Owning
<1> QED
  BY <1>1, <1>2, <1>3, <1>4, <1>5, SMTT(20)

LEMMA G_Unlock_Safe == ASSUME SafeInv, NEW t \in Threads, G_Unlock(t) PROVE SafeInv'
<1> USE CacheAssumption DEF SafeInv, G_Unlock, Go, sizevars, CacheTypeOK, Slots
<1>1. CacheTypeOK'
  BY DEF SizeInv, CachePlaces, Owning, Counted, Growing
<1>2. LockerInv'
  BY DEF LockerInv, Growing, CachePlaces, Owning, Counted
<1>3. SizeInv'
  BY DEF SizeInv, LockerInv, Growing, CachePlaces, Owning, Counted
<1>4. LocInv'
  BY DEF LocInv, Owning
<1>5. OwnInv' /\ SlotHeldOnce'
  BY DEF OwnInv, SlotHeldOnce, Owning
<1> QED
  BY <1>1, <1>2, <1>3, <1>4, <1>5, ZenonT(30)

LEMMA G_Start_Safe == ASSUME SafeInv, NEW t \in Threads, G_Start(t) PROVE SafeInv'
<1> USE CacheAssumption DEF SafeInv, G_Start, Go, sizevars, CacheTypeOK, Slots
<1>1. CacheTypeOK'
  BY DEF SizeInv, CachePlaces, Owning, Counted, Growing
<1>2. LockerInv'
  BY DEF LockerInv, Growing, CachePlaces, Owning, Counted
<1>3. SizeInv'
  BY DEF SizeInv, LockerInv, Growing, CachePlaces, Owning, Counted
<1>4. LocInv'
  BY DEF LocInv, Owning
<1>5. OwnInv' /\ SlotHeldOnce'
  BY DEF OwnInv, SlotHeldOnce, Owning
<1> QED
  BY <1>1, <1>2, <1>3, <1>4, <1>5, SMTT(20)

LEMMA G_Scan_Safe == ASSUME SafeInv, NEW t \in Threads, G_Scan(t) PROVE SafeInv'
<1> USE CacheAssumption DEF SafeInv, G_Scan, Go, sizevars, CacheTypeOK, Slots
<1>0. (loc[t] + 1) % num \in 0 .. num - 1
  OBVIOUS
<1>1. CacheTypeOK'
  <2>0. (loc[t] + 1) % num \in Slots
    BY <1>0
  <2>1. CASE flag[loc[t]]
    <3>1. loc' = [loc EXCEPT ![t] = (loc[t] + 1) % num]
      BY <2>1
    <3>2. loc' \in [Threads -> Slots]
      BY <2>0, <3>1
    <3>3. UNCHANGED <<flag, pc, num, flag_len, data_len, remain_num, alloc_loc, atomic_locker>>
      BY <2>1
    <3> QED
      BY <3>2, <3>3
  <2>2. CASE ~flag[loc[t]]
    BY <2>2, Zenon DEF CachePlaces, Owning
  <2> QED
    BY <2>1, <2>2
<1>2. LockerInv'
  BY DEF LockerInv, Growing, CachePlaces, Owning, Counted
<1>3. SizeInv'
  BY DEF SizeInv, LockerInv, Growing, CachePlaces, Owning, Counted
<1>4. LocInv'
  <2>1. num \in Int /\ num' = num /\ alloc_loc' = alloc_loc
    OBVIOUS
  <2>2. CASE flag[loc[t]]
    <3>1. PICK i \in 0 .. num - 1 : pc' = pc /\ loc' = [loc EXCEPT ![t] = i]
      BY <1>0, <2>2
    <3>2. ASSUME NEW u \in Threads, pc[u] \in {"scan"} \cup Owning PROVE loc'[u] < num
      BY <3>1, <3>2 DEF LocInv
    <3> QED  BY <2>1, <3>1, <3>2 DEF LocInv
  <2>3. CASE ~flag[loc[t]]
    BY <2>1, <2>3 DEF LocInv, Owning
  <2> QED  BY <2>2, <2>3
<1>5. OwnInv' /\ SlotHeldOnce'
  BY SMTT(20) DEF OwnInv, SlotHeldOnce, Owning
<1> QED
  BY <1>1, <1>2, <1>3, <1>4, <1>5

LEMMA G_Found_Safe == ASSUME SafeInv, NEW t \in Threads, G_Found(t) PROVE SafeInv'
<1> USE CacheAssumption DEF SafeInv, G_Found, Go, sizevars, CacheTypeOK, Slots
<1>1. CacheTypeOK'
  BY DEF SizeInv, CachePlaces, Owning, Counted, Growing
<1>2. LockerInv'
  BY DEF LockerInv, Growing, CachePlaces, Owning, Counted
<1>3. SizeInv'
  BY DEF SizeInv, LockerInv, Growing, CachePlaces, Owning, Counted
<1>4. LocInv'
  BY DEF LocInv, Owning
<1>5. OwnInv' /\ SlotHeldOnce'
  BY DEF OwnInv, SlotHeldOnce, Owning
<1> QED
  BY <1>1, <1>2, <1>3, <1>4, <1>5, SMTT(20)

LEMMA G_Count_Safe == ASSUME SafeInv, NEW t \in Threads, G_Count(t) PROVE SafeInv'
<1> USE CacheAssumption DEF SafeInv, G_Count, Go, sizevars, CacheTypeOK, Slots
<1>1. CacheTypeOK'
  BY DEF SizeInv, CachePlaces, Owning, Counted, Growing
<1>2. LockerInv'
  BY DEF LockerInv, Growing, CachePlaces, Owning, Counted
<1>3. SizeInv'
  BY DEF SizeInv, LockerInv, Growing, CachePlaces, Owning, Counted
<1>4. LocInv'
  BY DEF LocInv, Owning
<1>5. OwnInv' /\ SlotHeldOnce'
  BY SMTT(20) DEF OwnInv, SlotHeldOnce, Owning
<1> QED
  BY <1>1, <1>2, <1>3, <1>4, <1>5

LEMMA R_Begin_Safe == ASSUME SafeInv, NEW t \in Threads, R_Begin(t) PROVE SafeInv'
<1> USE CacheAssumption DEF SafeInv, R_Begin, Go, sizevars, CacheTypeOK, Slots
<1>1. CacheTypeOK'
  BY DEF SizeInv, CachePlaces, Owning, Counted, Growing
<1>2. LockerInv'
  BY DEF LockerInv, Growing, CachePlaces, Owning, Counted
<1>3. SizeInv'
  BY DEF SizeInv, LockerInv, Growing, CachePlaces, Owning, Counted
<1>4. LocInv'
  BY DEF LocInv, Owning
<1>5. OwnInv' /\ SlotHeldOnce'
  BY DEF OwnInv, SlotHeldOnce, Owning
<1> QED
  BY <1>1, <1>2, <1>3, <1>4, <1>5, SMTT(20)

LEMMA R_Flag_Safe == ASSUME SafeInv, NEW t \in Threads, R_Flag(t) PROVE SafeInv'
<1> USE CacheAssumption DEF SafeInv, R_Flag, Go, sizevars, CacheTypeOK, Slots
<1>1. CacheTypeOK'
  BY DEF SizeInv, CachePlaces, Owning, Counted, Growing
<1>2. LockerInv'
  BY DEF LockerInv, Growing, CachePlaces, Owning, Counted
<1>3. SizeInv'
  BY DEF SizeInv, LockerInv, Growing, CachePlaces, Owning, Counted
<1>4. LocInv'
  BY DEF LocInv, Owning
<1>5. OwnInv' /\ SlotHeldOnce'
  BY DEF OwnInv, SlotHeldOnce, Owning
<1> QED
  BY <1>1, <1>2, <1>3, <1>4, <1>5, ZenonT(30)

LEMMA R_Count_Safe == ASSUME SafeInv, NEW t \in Threads, R_Count(t) PROVE SafeInv'
<1> USE CacheAssumption DEF SafeInv, R_Count, Go, sizevars, CacheTypeOK, Slots
<1>1. CacheTypeOK'
  BY DEF SizeInv, CachePlaces, Owning, Counted, Growing
<1>2. LockerInv'
  BY DEF LockerInv, Growing, CachePlaces, Owning, Counted
<1>3. SizeInv'
  BY DEF SizeInv, LockerInv, Growing, CachePlaces, Owning, Counted
<1>4. LocInv'
  BY DEF LocInv, Owning
<1>5. OwnInv' /\ SlotHeldOnce'
  BY DEF OwnInv, SlotHeldOnce, Owning
<1> QED
  BY <1>1, <1>2, <1>3, <1>4, <1>5

LEMMA SafeStep == SafeInv /\ [CacheNext]_cachevars => SafeInv'
<1> SUFFICES ASSUME SafeInv, [CacheNext]_cachevars PROVE SafeInv'
  OBVIOUS
<1>1. CASE UNCHANGED cachevars
  BY <1>1 DEF SafeInv, CacheTypeOK, LockerInv, SizeInv, LocInv, OwnInv, SlotHeldOnce, cachevars, sizevars
<1>2. ASSUME NEW t \in Threads, get_one_cache(t) PROVE SafeInv'
  BY <1>2, G_Test_Safe, G_Lock_Safe, G_Recheck_Safe, G_Data_Safe, G_Flag_Safe, G_Remain_Safe, G_Num_Safe,
     G_Unlock_Safe, G_Start_Safe, G_Scan_Safe, G_Found_Safe, G_Count_Safe DEF get_one_cache
<1>3. ASSUME NEW t \in Threads, release_one_cache(t) PROVE SafeInv'
  BY <1>3, R_Begin_Safe, R_Flag_Safe, R_Count_Safe DEF release_one_cache
<1> QED
  BY <1>1, <1>2, <1>3, SMTT(20) DEF CacheNext

(* Whatever grows meanwhile, get_one_cache gives no slot to two threads,   *)
(* and neither its scan nor its read of cache->data leaves the arrays.     *)
THEOREM SlotsAreSafe == CacheSpec => [](CacheTypeOK /\ SlotHeldOnce /\ IndexInArrays)
<1>1. SafeInv => CacheTypeOK /\ SlotHeldOnce /\ IndexInArrays
  BY DEF SafeInv, CacheTypeOK, Slots, SizeInv, LocInv, IndexInArrays
<1> QED
  BY <1>1, InitSafe, SafeStep, PTL DEF CacheSpec

-------------------------------------------------------------------------------
CountedThreads == {t \in Threads : pc[t] \in Counted}

(* remain_num runs ahead of num while the grower is between the two.       *)
CountInv ==
  /\ (\A t \in Threads : pc[t] # "grow_num") => remain_num = num - Cardinality(CountedThreads)
  /\ (\E t \in Threads : pc[t] = "grow_num") => remain_num = 2 * num - Cardinality(CountedThreads)

(* The grower found every slot counted as taken by the others.             *)
NeedInv == \A t \in Threads : pc[t] \in Enlarging => num <= Cardinality(Threads) - 1

CacheInv == SafeInv /\ CountInv /\ NeedInv /\ GrowsOnlyWhenNeeded

LEMMA CountedFinite == IsFiniteSet(CountedThreads) /\ Cardinality(CountedThreads) \in Nat
<1>1. CountedThreads \in SUBSET Threads
  BY DEF CountedThreads
<1>2. IsFiniteSet(CountedThreads)
  BY <1>1, ThreadsAssumption, FS_Subset
<1> QED
  BY <1>2, FS_CardinalityType

LEMMA OthersCounted ==
  ASSUME NEW t \in Threads, t \notin CountedThreads
  PROVE  Cardinality(CountedThreads) <= Cardinality(Threads) - 1
<1>1. CountedThreads \in SUBSET (Threads \ {t})
  BY DEF CountedThreads
<1>2. /\ IsFiniteSet(Threads \ {t})
      /\ Cardinality(Threads \ {t}) = Cardinality(Threads) - 1
  BY ThreadsAssumption, FS_RemoveElement
<1>3. Cardinality(CountedThreads) <= Cardinality(Threads \ {t})
  BY <1>1, <1>2, FS_Subset
<1> QED
  BY <1>2, <1>3

LEMMA InitCache == CacheInit => CacheInv
<1> SUFFICES ASSUME CacheInit PROVE CacheInv
  OBVIOUS
<1>1. CountedThreads = {}
  BY DEF CacheInit, CountedThreads, Counted
<1>2. Cardinality(CountedThreads) = 0
  BY <1>1, FS_EmptySet
<1> QED
  BY <1>2, InitSafe, CacheAssumption
  DEF CacheInit, CacheInv, CountInv, NeedInv, GrowsOnlyWhenNeeded, Enlarging

LEMMA TestNeeded == ASSUME CacheInv, NEW t \in Threads, G_Recheck(t) PROVE CountInv' /\ NeedInv'
<1> USE DEF CacheInv, SafeInv, CacheTypeOK, G_Recheck, Go, sizevars
<1>1. CountedThreads' = CountedThreads
  BY DEF CountedThreads, Counted
<1>2. pc[t] = "recheck" /\ \A u \in Threads : pc[u] # "grow_num"
  BY DEF LockerInv, Growing
<1>3. Cardinality(CountedThreads) <= Cardinality(Threads) - 1
  BY <1>2, OthersCounted DEF CountedThreads, Counted
<1>4. CountInv'
  BY <1>1, <1>2 DEF CountInv
<1>5. remain_num = 0 => num <= Cardinality(Threads) - 1
  BY <1>2, <1>3, CountedFinite, CacheAssumption, SMT DEF CountInv
<1>6. NeedInv'
  BY <1>5 DEF NeedInv, Enlarging
<1> QED
  BY <1>4, <1>6

LEMMA GrowCounts ==
  ASSUME CacheInv, NEW t \in Threads, G_Data(t) \/ G_Flag(t) \/ G_Remain(t) \/ G_Num(t)
  PROVE  CountInv' /\ NeedInv' /\ GrowsOnlyWhenNeeded'
<1> USE DEF CacheInv, SafeInv, CacheTypeOK, G_Data, G_Flag, G_Remain, G_Num, Go, sizevars
<1>1. CountedThreads' = CountedThreads
  BY DEF CountedThreads, Counted
<1>2. Cardinality(CountedThreads) \in Nat /\ Cardinality(Threads) \in Nat
  BY CountedFinite, ThreadsAssumption, FS_CardinalityType, SMTT(20)
<1>3. pc[t] \in Growing /\ \A u \in Threads : pc[u] \in Growing => u = t
  BY SMTT(20) DEF LockerInv, Growing
<1>4. CountInv'
  BY <1>1, <1>2, <1>3, SMTT(20) DEF CountInv, Growing
<1>5. NeedInv'
  BY <1>2, <1>3, SMTT(20) DEF NeedInv, Enlarging, Growing
<1>6. GrowsOnlyWhenNeeded'
  BY <1>2, CacheAssumption DEF NeedInv, GrowsOnlyWhenNeeded, Enlarging
<1> QED
  BY <1>4, <1>5, <1>6, SMTT(20)

LEMMA TakeCounts == ASSUME CacheInv, NEW t \in Threads, G_Count(t) PROVE CountInv' /\ NeedInv'
<1> USE DEF CacheInv, SafeInv, CacheTypeOK, G_Count, Go, sizevars
<1>1. CountedThreads' = CountedThreads \cup {t} /\ t \notin CountedThreads
  BY DEF CountedThreads, Counted
<1>2. Cardinality(CountedThreads') = Cardinality(CountedThreads) + 1
  BY <1>1, CountedFinite, FS_AddElement, Zenon
<1>3. CountInv'
  BY <1>2, CountedFinite DEF CountInv
<1>4. NeedInv'
  BY DEF NeedInv, Enlarging
<1> QED
  BY <1>3, <1>4

LEMMA ReleaseCounts == ASSUME CacheInv, NEW t \in Threads, R_Count(t) PROVE CountInv' /\ NeedInv'
<1> USE DEF CacheInv, SafeInv, CacheTypeOK, R_Count, Go, sizevars
<1>1. CountedThreads' = CountedThreads \ {t} /\ t \in CountedThreads
  BY DEF CountedThreads, Counted
<1>2. Cardinality(CountedThreads') = Cardinality(CountedThreads) - 1
  BY <1>1, CountedFinite, FS_RemoveElement, Zenon
<1>3. CountInv'
  BY <1>2, CountedFinite DEF CountInv
<1>4. NeedInv'
  BY DEF NeedInv, Enlarging
<1> QED
  BY <1>3, <1>4

LEMMA CacheStep == CacheInv /\ [CacheNext]_cachevars => CacheInv'
<1> SUFFICES ASSUME CacheInv, [CacheNext]_cachevars PROVE CacheInv'
  OBVIOUS
<1>1. SafeInv'
  BY SafeStep DEF CacheInv
<1>2. CASE UNCHANGED cachevars
  BY <1>1, <1>2
  DEF CacheInv, CountInv, NeedInv, GrowsOnlyWhenNeeded, CountedThreads, cachevars, sizevars
<1>3. ASSUME NEW t \in Threads, G_Recheck(t) \/ G_Count(t) \/ R_Count(t) PROVE CacheInv'
  <2>1. GrowsOnlyWhenNeeded'
    BY <1>3 DEF G_Recheck, G_Count, R_Count, CacheInv, GrowsOnlyWhenNeeded, sizevars
  <2> QED
    BY <1>1, <1>3, <2>1, TestNeeded, TakeCounts, ReleaseCounts DEF CacheInv
<1>4. ASSUME NEW t \in Threads, G_Data(t) \/ G_Flag(t) \/ G_Remain(t) \/ G_Num(t)
      PROVE  CacheInv'
  BY <1>1, <1>4, GrowCounts DEF CacheInv
<1>5. ASSUME NEW t \in Threads,
             \/ G_Test(t) \/ G_Lock(t) \/ G_Unlock(t) \/ G_Start(t) \/ G_Scan(t)
             \/ G_Found(t) \/ R_Begin(t) \/ R_Flag(t)
      PROVE  CacheInv'
  <2> USE <1>5 DEF CacheInv, SafeInv, CacheTypeOK, Go, sizevars, G_Test, G_Lock, G_Unlock, G_Start,
              G_Scan, G_Found, R_Begin, R_Flag
  <2>1. CountedThreads' = CountedThreads
    BY ZenonT(30) DEF CountedThreads, Counted
  <2>2. CountInv'
    BY <2>1, ZenonT(30) DEF CountInv
  <2>3. NeedInv' /\ GrowsOnlyWhenNeeded'
    BY ZenonT(30) DEF NeedInv, Enlarging, GrowsOnlyWhenNeeded
  <2> QED
    BY <1>1, <2>2, <2>3, ZenonT(30)
<1> QED
  BY <1>2, <1>3, <1>4, <1>5 DEF CacheNext, get_one_cache, release_one_cache

(* The count that every thread changes in a step of its own does not       *)
(* drift, and the table grows only when every slot is counted as taken.    *)
THEOREM CountIsRight == CacheSpec => [](RemainDoesNotDrift /\ GrowsOnlyWhenNeeded)
<1>1. CacheInv => RemainDoesNotDrift /\ GrowsOnlyWhenNeeded
  BY DEF CacheInv, SafeInv, LockerInv, CountInv, CountedThreads, RemainDoesNotDrift, Growing
<1> QED
  BY <1>1, InitCache, CacheStep, PTL DEF CacheSpec

-------------------------------------------------------------------------------
(* ExpressSync.  A fence is in one place of gpu_sync_id only, and a fence  *)
(* some call has waited for is at the id of that call, which is about to   *)
(* clear that place.  fences is the number of the newest fence.            *)
FencesInv ==
  /\ fences \in Nat /\ ended \in SUBSET (1 .. fences)
  /\ gpu_sync_id \in [Ids -> 0 .. fences] /\ waited \in [SyncWaiters -> 0 .. fences]
  /\ \A i, j \in Ids : gpu_sync_id[i] = gpu_sync_id[j] /\ gpu_sync_id[i] # NONE => i = j
  /\ \A i \in Ids : gpu_sync_id[i] \notin ended
  /\ \A w \in SyncWaiters : waited[w] # NONE => waitpc[w] = "clear"
  /\ \A w \in SyncWaiters, i \in Ids :
       waited[w] # NONE /\ gpu_sync_id[i] = waited[w] => wid[w] = i

(* A thread inside one of the two functions has an id.                     *)
SPlaces == {"idle", "fence", "read", "cas", "check", "wake", "irq"}
WPlaces == {"idle", "test", "count", "sleep", "gpu", "wait", "clear"}

IdsInv ==
  /\ sigpc \in [Signallers -> SPlaces] /\ sid \in [Signallers -> Ids \cup {NONE}]
  /\ waitpc \in [SyncWaiters -> WPlaces] /\ wid \in [SyncWaiters -> Ids \cup {NONE}]
  /\ \A s \in Signallers : sigpc[s] # "idle" => sid[s] \in Ids
  /\ \A w \in SyncWaiters : waitpc[w] # "idle" => wid[w] \in Ids

(* The ids a thread uses are ids.                                          *)
LEMMA IdsOfThread ==
  /\ \A s \in Signallers : \A i \in IdsOf[s] : i \in Ids
  /\ \A w \in SyncWaiters : \A i \in IdsOf[w] : i \in Ids
BY SyncAssumption

LEMMA InitFencesInv == SyncInit => FencesInv /\ IdsInv
BY SyncAssumption DEF SyncInit, FencesInv, IdsInv, NONE, SPlaces, WPlaces

LEMMA NextIdsInv == IdsInv /\ [SyncNext]_syncvars => IdsInv'
<1> SUFFICES ASSUME IdsInv, [SyncNext]_syncvars PROVE IdsInv'
  OBVIOUS
<1> USE DEF IdsInv, SPlaces, WPlaces, fvars, eventvars, guestvars, svars, wvars
<1>1. CASE GuestWaits \/ (\E i \in Ids : GuestReset(i)) \/ UNCHANGED syncvars
  BY <1>1 DEF GuestWaits, GuestReset, syncvars
<1>2. ASSUME NEW s \in Signallers, NEW i \in Ids, NEW g \in BOOLEAN, S_Call(s, i, g) PROVE IdsInv'
  BY <1>2 DEF S_Call, SGo
<1>3. ASSUME NEW s \in Signallers, S_Fence(s) \/ S_Read(s) \/ S_Cas(s) \/ S_AnyWaiter(s) \/ S_Wake(s)
      PROVE  IdsInv'
  BY <1>3, ZenonT(30) DEF S_Fence, S_Read, S_Cas, S_AnyWaiter, S_Wake, SGo
<1>4. ASSUME NEW s \in Signallers, S_Irq(s) PROVE IdsInv'
  BY <1>4 DEF S_Irq, SGo
<1>5. ASSUME NEW w \in SyncWaiters, NEW i \in Ids, W_Call(w, i) PROVE IdsInv'
  BY <1>5 DEF W_Call
<1>6. ASSUME NEW w \in SyncWaiters, NEW a, NEW b \in WPlaces, a # "idle", WGo(w, a, b), UNCHANGED svars
      PROVE  IdsInv'
  BY <1>6 DEF WGo
<1>7. ASSUME NEW w \in SyncWaiters, wait_for_express_sync(w) \/ W_Fail(w) PROVE IdsInv'
  BY <1>6, <1>7, Zenon DEF wait_for_express_sync, W_Test, W_Count, W_Sleep, W_Gpu, W_WaitFence, W_Clear, W_Fail
<1> QED
  BY <1>1, <1>2, <1>3, <1>4, <1>5, <1>7, IdsOfThread, ZenonT(30) DEF SyncNext, signal_express_sync

(* The three steps that touch a fence are S_Fence, W_WaitFence and W_Clear. *)
LEMMA NextFencesInv ==
  ASSUME IdsInv, FencesInv, [SyncNext]_syncvars
  PROVE  FencesInv'
<1> USE DEF fvars, wvars
<1>1. ASSUME UNCHANGED fvars, UNCHANGED wvars PROVE FencesInv'
  BY <1>1 DEF FencesInv
<1>2. ASSUME NEW s \in Signallers, S_Fence(s) PROVE FencesInv'
  <2>1. PICK k \in Ids : k = sid[s]
    BY <1>2, Zenon DEF S_Fence, SGo, IdsInv, SPlaces
  <2>2. /\ fences' = fences + 1 /\ gpu_sync_id' = [gpu_sync_id EXCEPT ![k] = fences + 1]
        /\ UNCHANGED <<waited, ended, waitpc, wid>>
    BY <1>2, <2>1, Zenon DEF S_Fence
  <2>3. /\ fences' \in Nat /\ ended' \in SUBSET (1 .. fences')
        /\ gpu_sync_id' \in [Ids -> 0 .. fences'] /\ waited' \in [SyncWaiters -> 0 .. fences']
    BY <2>2, SMTT(20) DEF FencesInv
  <2>4. /\ gpu_sync_id'[k] = fences + 1
        /\ \A i \in Ids : i # k => gpu_sync_id'[i] = gpu_sync_id[i]
    BY <2>2, SMTT(20) DEF FencesInv
  <2>5. /\ \A i \in Ids : gpu_sync_id[i] # fences + 1
        /\ \A w \in SyncWaiters : waited[w] # fences + 1
        /\ fences + 1 \notin ended
    BY SMTT(20) DEF FencesInv
  <2>6. ASSUME NEW i \in Ids, NEW j \in Ids, gpu_sync_id'[i] = gpu_sync_id'[j], gpu_sync_id'[i] # NONE
        PROVE  i = j
    BY <2>4, <2>5, <2>6, SMTT(20) DEF FencesInv
  <2>7. ASSUME NEW i \in Ids PROVE gpu_sync_id'[i] \notin ended'
    BY <2>2, <2>4, <2>5, Zenon DEF FencesInv
  <2>8. ASSUME NEW w \in SyncWaiters, NEW i \in Ids, waited'[w] # NONE, gpu_sync_id'[i] = waited'[w]
        PROVE  wid'[w] = i
    BY <2>2, <2>4, <2>5, <2>8, Zenon DEF FencesInv
  <2>9. ASSUME NEW w \in SyncWaiters, waited'[w] # NONE PROVE waitpc'[w] = "clear"
    BY <2>2, <2>9, Zenon DEF FencesInv
  <2> QED
    BY <2>3, <2>6, <2>7, <2>8, <2>9, ZenonT(30) DEF FencesInv
<1>3. ASSUME NEW w \in SyncWaiters, W_WaitFence(w) PROVE FencesInv'
  <2>1. /\ wid[w] \in Ids /\ waitpc'[w] = "clear" /\ wid' = wid
        /\ \A v \in SyncWaiters \ {w} : waitpc'[v] = waitpc[v]
    BY <1>3, SMTT(20) DEF W_WaitFence, WGo, IdsInv
  <2>2. /\ UNCHANGED <<gpu_sync_id, fences, ended>>
        /\ waited' = [waited EXCEPT ![w] = gpu_sync_id[wid[w]]]
    BY <1>3, SMTT(20) DEF W_WaitFence
  <2>3. /\ fences' \in Nat /\ ended' \in SUBSET (1 .. fences')
        /\ gpu_sync_id' \in [Ids -> 0 .. fences'] /\ waited' \in [SyncWaiters -> 0 .. fences']
        /\ \A i, j \in Ids : gpu_sync_id'[i] = gpu_sync_id'[j] /\ gpu_sync_id'[i] # NONE => i = j
        /\ \A i \in Ids : gpu_sync_id'[i] \notin ended'
    BY <2>1, <2>2, SMTT(20) DEF FencesInv
  <2>4. /\ waited'[w] = gpu_sync_id[wid[w]]
        /\ \A v \in SyncWaiters \ {w} : waited'[v] = waited[v]
    BY <2>2, Zenon DEF FencesInv
  <2>5. ASSUME NEW v \in SyncWaiters, waited'[v] # NONE PROVE waitpc'[v] = "clear"
    BY <2>1, <2>4, <2>5, Zenon DEF FencesInv
  <2>6. ASSUME NEW v \in SyncWaiters, NEW i \in Ids, waited'[v] # NONE, gpu_sync_id'[i] = waited'[v]
        PROVE  wid'[v] = i
    <3>1. CASE v = w
      <4>1. gpu_sync_id[i] = gpu_sync_id[wid[w]] /\ gpu_sync_id[i] # NONE
        BY <2>2, <2>4, <2>6, <3>1, Zenon
      <4> QED  BY <2>1, <3>1, <4>1, Zenon DEF FencesInv
    <3>2. CASE v # w
      BY <2>1, <2>2, <2>4, <2>6, <3>2, Zenon DEF FencesInv
    <3> QED  BY <3>1, <3>2
  <2> QED
    BY <2>3, <2>5, <2>6, ZenonT(30) DEF FencesInv
<1>4. ASSUME NEW w \in SyncWaiters, W_Clear(w) PROVE FencesInv'
  <2>1. /\ wid[w] \in Ids
        /\ \A v \in SyncWaiters \ {w} : waitpc'[v] = waitpc[v] /\ wid'[v] = wid[v]
    BY <1>4, SMTT(20) DEF W_Clear, WGo, IdsInv
  <2>2. /\ gpu_sync_id' = [gpu_sync_id EXCEPT ![wid[w]] = NONE] /\ fences' = fences
        /\ ended' = ended \cup ({waited[w]} \ {NONE})
        /\ waited' = [waited EXCEPT ![w] = NONE]
    BY <1>4, Zenon DEF W_Clear, FenceEnds
  <2>3. /\ fences' \in Nat /\ ended' \in SUBSET (1 .. fences')
        /\ gpu_sync_id' \in [Ids -> 0 .. fences'] /\ waited' \in [SyncWaiters -> 0 .. fences']
    <3>1. waited[w] \in 0 .. fences /\ fences \in Nat
      BY Zenon DEF FencesInv
    <3>2. ended' \in SUBSET (1 .. fences')
      <4>1. waited[w] # NONE => waited[w] \in 1 .. fences  BY <3>1 DEF NONE
      <4> QED  BY <2>2, <4>1, Zenon DEF FencesInv
    <3>3. gpu_sync_id' \in [Ids -> 0 .. fences'] /\ waited' \in [SyncWaiters -> 0 .. fences']
      <4>1. NONE \in 0 .. fences  BY <3>1 DEF NONE
      <4> QED  BY <2>2, <4>1, Zenon DEF FencesInv
    <3> QED  BY <2>2, <3>1, <3>2, <3>3
  <2>4. /\ gpu_sync_id'[wid[w]] = NONE
        /\ \A i \in Ids : i # wid[w] => gpu_sync_id'[i] = gpu_sync_id[i]
        /\ waited'[w] = NONE
        /\ \A v \in SyncWaiters \ {w} : waited'[v] = waited[v]
    BY <2>1, <2>2, Zenon DEF FencesInv
  <2>5. NONE \notin ended
    BY SMTT(20) DEF FencesInv, NONE
  <2>6. ASSUME NEW i \in Ids PROVE gpu_sync_id'[i] \notin ended'
    <3>1. CASE i = wid[w]
      <4>1. NONE \notin ended'  BY <2>2, <2>5
      <4> QED  BY <2>4, <3>1, <4>1
    <3>2. CASE i # wid[w]
      BY <2>2, <2>4, <3>2, Zenon DEF FencesInv
    <3> QED  BY <3>1, <3>2
  <2>7. ASSUME NEW i \in Ids, NEW j \in Ids, gpu_sync_id'[i] = gpu_sync_id'[j], gpu_sync_id'[i] # NONE
        PROVE  i = j
    BY <2>4, <2>7, Zenon DEF FencesInv
  <2>8. ASSUME NEW v \in SyncWaiters, waited'[v] # NONE
        PROVE  waitpc'[v] = "clear" /\ \A i \in Ids : gpu_sync_id'[i] = waited'[v] => wid'[v] = i
    <3>1. v # w /\ waited[v] # NONE /\ waited'[v] = waited[v] /\ waitpc'[v] = waitpc[v] /\ wid'[v] = wid[v]
      BY <2>1, <2>4, <2>8, Zenon
    <3>2. ASSUME NEW i \in Ids, gpu_sync_id'[i] = waited[v] PROVE gpu_sync_id[i] = waited[v]
      BY <2>4, <3>1, <3>2, Zenon
    <3> QED  BY <3>1, <3>2, Zenon DEF FencesInv
  <2> QED
    BY <2>3, <2>6, <2>7, <2>8, ZenonT(30) DEF FencesInv
<1>5. ASSUME NEW w \in SyncWaiters, UNCHANGED fvars, waitpc[w] # "clear",
             \A v \in SyncWaiters \ {w} : waitpc'[v] = waitpc[v] /\ wid'[v] = wid[v]
      PROVE  FencesInv'
  <2>1. waited[w] = NONE
    BY <1>5, Zenon DEF FencesInv
  <2>2. \A v \in SyncWaiters : waited[v] # NONE => waitpc'[v] = waitpc[v] /\ wid'[v] = wid[v]
    BY <1>5, <2>1, Zenon
  <2> QED  BY <1>5, <2>2, ZenonT(30) DEF FencesInv
<1> USE DEF eventvars, guestvars, svars
<1>6. ASSUME NEW w \in SyncWaiters, NEW i \in Ids, W_Call(w, i) PROVE FencesInv'
  <2>1. waitpc[w] # "clear" /\ \A v \in SyncWaiters \ {w} : waitpc'[v] = waitpc[v] /\ wid'[v] = wid[v]
    BY <1>6 DEF W_Call, IdsInv
  <2> QED  BY <1>5, <1>6, <2>1, Zenon DEF W_Call
<1>7. ASSUME NEW w \in SyncWaiters, W_Test(w) \/ W_Count(w) \/ W_Sleep(w) \/ W_Gpu(w) \/ W_Fail(w)
      PROVE  FencesInv'
  <2>1. \E from \in WPlaces \ {"clear"}, to \in WPlaces : WGo(w, from, to)
    BY <1>7, ZenonT(30) DEF W_Test, W_Count, W_Sleep, W_Gpu, W_Fail, WPlaces
  <2>2. waitpc[w] # "clear" /\ \A v \in SyncWaiters \ {w} : waitpc'[v] = waitpc[v] /\ wid'[v] = wid[v]
    BY <2>1 DEF WGo, IdsInv
  <2>3. UNCHANGED fvars
    BY <1>7 DEF W_Test, W_Count, W_Sleep, W_Gpu, W_Fail
  <2> QED  BY <1>5, <2>2, <2>3, Zenon
<1>8. CASE GuestWaits \/ (\E i \in Ids : GuestReset(i)) \/ UNCHANGED syncvars
  BY <1>1, <1>8, ZenonT(30) DEF GuestWaits, GuestReset, syncvars
<1>9. ASSUME NEW s \in Signallers, S_Read(s) \/ S_Cas(s) \/ S_AnyWaiter(s) \/ S_Wake(s) \/ S_Irq(s)
      PROVE  FencesInv'
  BY <1>1, <1>9, ZenonT(30) DEF S_Read, S_Cas, S_AnyWaiter, S_Wake, S_Irq
<1>10. ASSUME NEW s \in Signallers, NEW i \in Ids, NEW g \in BOOLEAN, S_Call(s, i, g)
       PROVE  FencesInv'
  BY <1>1, <1>10, Zenon DEF S_Call
<1>11. ASSUME NEW s \in Signallers, signal_express_sync(s) PROVE FencesInv'
  BY <1>2, <1>9, <1>11, Zenon DEF signal_express_sync
<1>12. ASSUME NEW w \in SyncWaiters, wait_for_express_sync(w) PROVE FencesInv'
  BY <1>3, <1>4, <1>7, <1>12, Zenon DEF wait_for_express_sync
<1>13. ASSUME SyncNext PROVE FencesInv'
  BY <1>6, <1>7, <1>8, <1>10, <1>11, <1>12, <1>13, IdsOfThread, ZenonT(30) DEF SyncNext
<1> QED  BY <1>8, <1>13, Zenon

(* wait_for_express_sync: for any number of waiting and signalling threads, *)
(* the fence a call has waited for is gone when the call returns, so that  *)
(* no later wait on the id waits for it again.                             *)
THEOREM LaterWaitsSkip == SyncSpec => []LaterWaitSkips
<1>1. FencesInv => LaterWaitSkips
  BY DEF FencesInv, LaterWaitSkips
<1>2. FencesInv /\ IdsInv /\ [SyncNext]_syncvars => (FencesInv /\ IdsInv)'
  BY NextFencesInv, NextIdsInv
<1> QED
  BY <1>1, <1>2, InitFencesInv, PTL DEF SyncSpec

(* signal_express_sync: the compare-and-swap on the whole word adds the    *)
(* signaller's own bit and takes none away.                                *)
THEOREM SignalsStay == SyncSpec => OnlyGuestClears
<1> DEFINE Kept == \A i \in Ids : i \in sync_status /\ i \notin sync_status' => GuestReset(i)
<1>1. [SyncNext]_syncvars => [Kept]_syncvars
  <2> SUFFICES ASSUME SyncNext PROVE Kept
    OBVIOUS
  <2>1. ASSUME NEW j \in Ids, GuestReset(j) PROVE Kept
    BY <2>1 DEF GuestReset
  <2>2. CASE GuestWaits
    BY <2>2 DEF GuestWaits
  <2>3. ASSUME NEW s \in Signallers, S_Cas(s) PROVE Kept
    BY <2>3 DEF S_Cas
  <2>4. ASSUME NEW s \in Signallers,
               S_Fence(s) \/ S_Read(s) \/ S_AnyWaiter(s) \/ S_Wake(s) \/ S_Irq(s)
        PROVE  Kept
    BY <2>4, Zenon DEF S_Fence, S_Read, S_AnyWaiter, S_Wake, S_Irq
  <2>6. ASSUME NEW s \in Signallers, NEW i \in Ids, NEW g \in BOOLEAN, S_Call(s, i, g)
        PROVE  Kept
    BY <2>6 DEF S_Call
  <2>5. ASSUME NEW w \in SyncWaiters,
               (\E i \in Ids : W_Call(w, i)) \/ wait_for_express_sync(w) \/ W_Fail(w)
        PROVE  Kept
    BY <2>5, Zenon DEF W_Call, wait_for_express_sync, W_Test, W_Count, W_Sleep, W_Gpu, W_WaitFence, W_Clear, W_Fail
  <2>7. ASSUME NEW s \in Signallers, signal_express_sync(s) PROVE Kept
    BY <2>3, <2>4, <2>7, Zenon DEF signal_express_sync
  <2> HIDE DEF Kept
  <2> QED
    BY <2>1, <2>2, <2>5, <2>6, <2>7, IdsOfThread, Zenon DEF SyncNext
<1> QED
  BY <1>1, PTL DEF SyncSpec, OnlyGuestClears

-------------------------------------------------------------------------------
(* Display.  The composer never draws into the gbuffer the window thread   *)
(* paints, as long as the window thread paints what it has locked.         *)
(* is_lock alone does not say who has taken it, and the composer gives its *)
(* lock back before it draws: the invariant has to tell which gbuffer each *)
(* thread has locked and where main_display_gbuffer points while the       *)
(* composer is in display_present.                                         *)

(* The pointer is at the gbuffer that is not drawn into, except between    *)
(* the exchange and the store.                                             *)
Pointer ==
  /\ cpc \in {"init", "child"} =>
       main_display_gbuffer = NoBuf /\ mpc \notin {"null?", "aim", "try", "read", "paint"}
  /\ cpc \in {"lock", "point"} => main_display_gbuffer \in {write, NoBuf}
  /\ cpc \in {"unlock", "post", "ready", "draw"} => main_display_gbuffer \in {Other(write), NoBuf}

(* Who has locked what.                                                    *)
LockedBy ==
  /\ cpc \in {"point", "unlock"} => is_lock[write]
  /\ mpc \in {"read", "paint"} => is_lock[aim]
  /\ mpc = "paint" => gbuffer = aim
  /\ mpc \in {"read", "paint"} /\ cpc \in {"point", "unlock"} => aim # write
  /\ mpc = "paint" /\ cpc \in {"post", "ready", "draw"} => gbuffer # write

(* As much of the type invariant as the argument needs.                    *)
DisplayTyped ==
  /\ main_display_gbuffer \in Bufs \cup {NoBuf}
  /\ is_lock \in [Bufs -> BOOLEAN]
  /\ write \in Bufs /\ aim \in Bufs /\ gbuffer \in Bufs
  /\ cpc \in CLocs

DisplayIInv == DisplayTyped /\ Pointer /\ (strayed \/ LockedBy)

-------------------------------------------------------------------------------
LEMMA OtherBuf ==
  \A b \in Bufs : Other(b) \in Bufs /\ Other(b) # b /\ Other(Other(b)) = b
BY DEF Bufs, Other

LEMMA DisplayInitIInv == DisplayInit => DisplayIInv
BY NoBufAssumption
DEF DisplayInit, DisplayIInv, DisplayTyped, Pointer, LockedBy, Bufs, CLocs

(* The steps that start the window, and shutdown.                          *)
LEMMA StartKeeps ==
  ASSUME DisplayIInv,
         \/ \E s \in Starters : context_init(s)
         \/ C_Child \/ C_Ready \/ ShutdownClear \/ ShutdownRun
  PROVE  DisplayIInv'
<1> USE NoBufAssumption, OtherBuf
<1>1. ASSUME NEW s \in Starters, context_init(s) PROVE DisplayIInv'
  BY <1>1, ZenonT(30) DEF DisplayIInv, DisplayTyped, Pointer, LockedBy, context_init, I_Start, I_Test, I_Poll,
              cvars, mvars
<1>2. CASE C_Child \/ C_Ready
  BY <1>2, ZenonT(30) DEF DisplayIInv, DisplayTyped, Pointer, LockedBy, C_Child, C_Ready, mvars, CLocs
<1>3. CASE ShutdownClear \/ ShutdownRun
  BY <1>3, ZenonT(30) DEF DisplayIInv, DisplayTyped, Pointer, LockedBy, ShutdownClear, ShutdownRun, cvars, mvars
<1> QED BY <1>1, <1>2, <1>3

(* The composer.  C_Swap makes the gbuffer that is shown the one to be     *)
(* drawn into next; C_Lock waits until the window thread has done with it. *)
LEMMA ComposerKeeps ==
  ASSUME DisplayIInv, Commit \/ display_present
  PROVE  DisplayIInv'
<1> USE NoBufAssumption, OtherBuf DEF DisplayIInv, DisplayTyped, Pointer, LockedBy, C_At, mvars, CLocs
<1>1. CASE Commit
  BY <1>1 DEF Commit
<1>2. CASE C_Swap
  BY <1>2 DEF C_Swap
<1>3. CASE C_Lock
  BY <1>3, ZenonT(30) DEF C_Lock
<1>4. CASE C_Point
  BY <1>4 DEF C_Point
<1>5. CASE C_Unlock
  BY <1>5 DEF C_Unlock
<1>6. CASE C_Post
  BY <1>6 DEF C_Post
<1> QED BY <1>1, <1>2, <1>3, <1>4, <1>5, <1>6, ZenonT(30) DEF display_present

(* The window thread.  M_Read is where it may stray: from then on nothing  *)
(* is said about the locks.                                                *)
LEMMA WindowKeeps ==
  ASSUME DisplayIInv, native_window_thread \/ M_CreateFails \/ M_PollEvents(TRUE) \/ M_Again
  PROVE  DisplayIInv'
<1> USE NoBufAssumption, OtherBuf DEF DisplayIInv, DisplayTyped, Pointer, LockedBy, M_At, cvars
<1>1. CASE M_Create \/ M_CreateFails \/ M_Again \/ M_FrameTime \/ M_Close
  BY <1>1, ZenonT(30) DEF M_Create, M_CreateFails, M_Again, M_FrameTime, M_Close
<1>2. ASSUME NEW r \in BOOLEAN, M_PollEvents(r) PROVE DisplayIInv'
  BY <1>2 DEF M_PollEvents
<1>3. CASE M_Input \/ M_NoEvent \/ M_Test
  BY <1>3, ZenonT(30) DEF M_Input, M_NoEvent, M_Test
<1>4. ASSUME NEW e \in events, M_Event(e) PROVE DisplayIInv'
  BY <1>4, Zenon DEF M_Event, mvars
<1>5. CASE M_Null \/ M_Aim \/ M_Miss
  BY <1>5, ZenonT(30) DEF M_Null, M_Aim, M_Miss
<1>6. CASE M_Lock
  BY <1>6, ZenonT(30) DEF M_Lock
<1>7. CASE M_Read
  BY <1>7, ZenonT(30) DEF M_Read
<1>8. CASE M_Unlock
  BY <1>8, Zenon DEF M_Unlock
<1> QED
  BY <1>1, <1>2, <1>3, <1>4, <1>5, <1>6, <1>7, <1>8, ZenonT(30) DEF native_window_thread, opengl_paint_composer_gbuffer

LEMMA DisplayStep == DisplayIInv /\ [DisplayNext]_dispvars => DisplayIInv'
<1> SUFFICES ASSUME DisplayIInv, [DisplayNext]_dispvars PROVE DisplayIInv'
  OBVIOUS
<1>1. CASE DisplayNext
  BY <1>1, StartKeeps, ComposerKeeps, WindowKeeps, Zenon DEF DisplayNext
<1>2. CASE UNCHANGED dispvars
  BY <1>2, Zenon DEF dispvars, cvars, mvars, DisplayIInv, DisplayTyped, Pointer, LockedBy
<1> QED BY <1>1, <1>2

(* What the composer draws into is not what the window thread paints       *)
(* (display_present against opengl_paint_composer_gbuffer), until the      *)
(* window thread has locked one gbuffer and painted the other.             *)
THEOREM PaintingIsSafe == DisplaySpec => []PaintedIsNotDrawn
<1>1. DisplayIInv => PaintedIsNotDrawn
  BY DEF DisplayIInv, LockedBy, PaintedIsNotDrawn
<1> QED BY DisplayInitIInv, DisplayStep, <1>1, PTL DEF DisplaySpec
===============================================================================
