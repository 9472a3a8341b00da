---------------------------- MODULE ClusterDecode -----------------------------
(***************************************************************************)
(* Clustered calls: the guest packs several asynchronous calls into one    *)
(* call with two parameters, an array of words that describes them and a   *)
(* buffer with their data; cluster_decode_invoke takes it apart and runs   *)
(* the device's decode function on each.  The words of an inner call are   *)
(* its id, its number of parameters, and a length and an offset for each;  *)
(* offset 0 stands for a null pointer.  The words arrive in guest memory   *)
(* cut at page boundaries (GuestMem); of the data only its place matters.  *)
(***************************************************************************)
EXTENDS Integers, Sequences, SequencesExt, GuestMem

CONSTANTS Lists,      \* the sequences of inner calls a guest may cluster
          Cut,        \* how many of the last words may be missing
          Beyond,     \* the words that may lie behind a buffer
          MAX_PARA_NUM,
          PageSize    \* words on a page

ClusterId == 9999
Junk == 0             \* what g_malloc leaves in a buffer
NullPtr == << <<>> >> \* a null pointer: one segment without data

(* The guest's encoding (external).                                        *)
EncodePara(p) == <<p.len, p.off>>
EncodeCall(c) == <<c.id, Len(c.paras)>> \o FlattenSeq([i \in 1 .. Len(c.paras) |-> EncodePara(c.paras[i])])
Encode(list)  == FlattenSeq([i \in 1 .. Len(list) |-> EncodeCall(list[i])])

(* A buffer of the guest process: one segment if its pages happen to lie   *)
(* together, else one for each page, the first and the last in part.       *)
Scattered(ws, first) ==
  LET n == Len(ws) - first IN
  <<SubSeq(ws, 1, first)>>
    \o [i \in 1 .. (n + PageSize - 1) \div PageSize |->
          LET from == first + (i - 1) * PageSize
          IN  SubSeq(ws, from + 1, IF from + PageSize < Len(ws) THEN from + PageSize ELSE Len(ws))]
Pages(ws) ==
  {<<ws>>} \cup {Scattered(ws, first) : first \in {f \in 1 .. PageSize : f < Len(ws)}}

VARIABLES
  list, cluster_para_num, aligned,   \* what the guest sent
  pages, data_null,                  \* the two parameters as they arrive
  send_async_buf,                    \* the words in host memory
  cpc, buf_loc,
  unpack_call,                       \* the inner call at hand
  decoded,                           \* the inner calls the device has run
  callbacks                          \* how often the call was released

input == <<list, cluster_para_num, aligned, pages, data_null>>
clustervars == <<input, send_async_buf, cpc, buf_loc, unpack_call, decoded, callbacks>>

ClusterInit ==
  /\ list \in Lists
  /\ cluster_para_num \in {1, 2} /\ aligned \in BOOLEAN
  /\ \/ pages = NullPtr
     \/ \E k \in Cut : /\ k <= 2 * Len(Last(list).paras) + 1
                       /\ pages \in Pages(SubSeq(Encode(list), 1, Len(Encode(list)) - k))
  /\ data_null \in BOOLEAN
  /\ send_async_buf = <<>>
  /\ cpc = "start" /\ buf_loc = 0 /\ unpack_call = <<>> /\ decoded = <<>> /\ callbacks = 0

-------------------------------------------------------------------------------
Release == callbacks' = callbacks + 1 /\ cpc' = "done"

C_Check ==
  /\ cpc = "start"
  /\ IF cluster_para_num # 2 \/ ~aligned
     THEN Release
     ELSE cpc' = "words" /\ UNCHANGED callbacks
  /\ UNCHANGED <<input, send_async_buf, buf_loc, unpack_call, decoded>>

(* Copy the words into host memory, directly or page by page; a null       *)
(* pointer ends the call.                                                  *)
C_CopyWords ==
  /\ cpc = "words"
  /\ IF HasDirectPtr(pages)
     THEN IF pages = NullPtr
          THEN Release /\ UNCHANGED send_async_buf
          ELSE send_async_buf' = pages[1] /\ cpc' = "data" /\ UNCHANGED callbacks
     ELSE /\ send_async_buf' = read_from_guest_mem(pages, [i \in 1 .. all_len(pages) |-> Junk], 0, all_len(pages))
          /\ cpc' = "data"
          /\ UNCHANGED callbacks
  /\ UNCHANGED <<input, buf_loc, unpack_call, decoded>>

(* The same for the data, of which only the place matters.                 *)
C_CopyData ==
  /\ cpc = "data"
  /\ IF data_null THEN Release ELSE cpc' = "loop" /\ UNCHANGED callbacks
  /\ UNCHANGED <<input, send_async_buf, buf_loc, unpack_call, decoded>>

(* What the device gets for parameter i of the call at word loc.           *)
ParaAt(words, loc, i) ==
  LET len == words[loc + 2 * i + 1]
      off == words[loc + 2 * i + 2]
  IN  [len |-> len, data |-> IF off # 0 THEN <<off, len>> ELSE <<>>]

Step(n) == n * 2 + 2

(* create_call_from_cluster.  It reads before the caller tests whether the *)
(* call fits, so the words of a call that is cut off come from behind the  *)
(* buffer, where anything may lie.  It stops at a nested cluster; with     *)
(* more parameters than MAX_PARA_NUM it would write behind pre_elem.       *)
C_Create ==
  /\ cpc = "loop" /\ buf_loc < Len(send_async_buf)
  /\ \E behind \in [1 .. Step(MAX_PARA_NUM) -> Beyond] :
       LET words == send_async_buf \o behind
           id    == words[buf_loc + 1]
           n     == words[buf_loc + 2]
       IN  \/ id = ClusterId /\ cpc' = "release" /\ UNCHANGED unpack_call
           \/ id # ClusterId /\ n > MAX_PARA_NUM /\ cpc' = "overrun" /\ UNCHANGED unpack_call
           \/ /\ id # ClusterId /\ n <= MAX_PARA_NUM
              /\ unpack_call' = [id |-> id, paras |-> [i \in 1 .. n |-> ParaAt(words, buf_loc, i)]]
              /\ cpc' = "fits"
  /\ UNCHANGED <<input, send_async_buf, buf_loc, decoded, callbacks>>

(* Mutant: a call that ends where the words end is taken for one that does *)
(* not fit.                                                                *)
C_RunStopsAtEnd ==
  /\ cpc = "fits"
  /\ buf_loc' = buf_loc + Step(Len(unpack_call.paras))
  /\ IF buf_loc' >= Len(send_async_buf)
     THEN cpc' = "release" /\ UNCHANGED decoded
     ELSE cpc' = "loop" /\ decoded' = Append(decoded, unpack_call)
  /\ UNCHANGED <<input, send_async_buf, unpack_call, callbacks>>

(* Mutant: the call is run before it is tested whether it fits.            *)
C_RunUntested ==
  /\ cpc = "fits"
  /\ buf_loc' = buf_loc + Step(Len(unpack_call.paras))
  /\ decoded' = Append(decoded, unpack_call)
  /\ cpc' = IF buf_loc' > Len(send_async_buf) THEN "release" ELSE "loop"
  /\ UNCHANGED <<input, send_async_buf, unpack_call, callbacks>>

(* The rest of the turn: a call that does not fit ends the loop, any other *)
(* one is run.                                                             *)
C_Run ==
  /\ cpc = "fits"
  /\ buf_loc' = buf_loc + Step(Len(unpack_call.paras))
  /\ IF buf_loc' > Len(send_async_buf)
     THEN cpc' = "release" /\ UNCHANGED decoded
     ELSE cpc' = "loop" /\ decoded' = Append(decoded, unpack_call)
  /\ UNCHANGED <<input, send_async_buf, unpack_call, callbacks>>

C_End ==
  /\ cpc = "loop" /\ buf_loc >= Len(send_async_buf)
  /\ cpc' = "release"
  /\ UNCHANGED <<input, send_async_buf, buf_loc, unpack_call, decoded, callbacks>>

C_Release ==
  /\ cpc = "release"
  /\ Release
  /\ UNCHANGED <<input, send_async_buf, buf_loc, unpack_call, decoded>>

cluster_decode_invoke ==
  C_Check \/ C_CopyWords \/ C_CopyData \/ C_Create \/ C_Run \/ C_End \/ C_Release

ClusterNext == cluster_decode_invoke

ClusterSpec == ClusterInit /\ [][ClusterNext]_clustervars
ClusterFairSpec == ClusterSpec /\ WF_clustervars(cluster_decode_invoke)

-------------------------------------------------------------------------------
(* What an inner call means.                                               *)
Meaning(c) ==
  [id |-> c.id, paras |-> [i \in 1 .. Len(c.paras) |->
     [len  |-> c.paras[i].len,
      data |-> IF c.paras[i].off # 0 THEN <<c.paras[i].off, c.paras[i].len>> ELSE <<>>]]]

(* host_guest_buffer_exchange: whatever the cut into pages, a read of any  *)
(* part yields that part of the buffer, and a write changes that part and  *)
(* nothing else.                                                           *)
ExchangeIsExact ==
  cpc = "words" =>
    LET flat == FlattenSeq(pages)
        New  == [k \in 1 .. Len(flat) |-> -k]
        Blank(n) == [k \in 1 .. n |-> Junk]
    IN  \A start \in 0 .. Len(flat) : \A length \in 0 .. Len(flat) - start :
          /\ read_from_guest_mem(pages, Blank(length), start, length)
               = SubSeq(flat, start + 1, start + length)
          /\ FlattenSeq(write_to_guest_mem(pages, New, start, length))
               = SubSeq(flat, 1, start) \o SubSeq(New, 1, length) \o SubSeq(flat, start + length + 1, Len(flat))

(* The device runs the guest's calls, in the guest's order, unchanged; and *)
(* the call ends with exactly one callback, whatever the path through the  *)
(* function, after the last inner call: the guest may reuse the memory of  *)
(* a call that was released.                                               *)
RunsInOrderThenReleases ==
  [][ /\ decoded' # decoded =>
           /\ callbacks' = 0 /\ Len(decoded) < Len(list)
           /\ decoded' = Append(decoded, Meaning(list[Len(decoded) + 1]))
      /\ callbacks' = IF cpc' = "done" THEN 1 ELSE 0 ]_clustervars

(* A complete cluster without a nested one is run completely.              *)
Complete ==
  /\ cluster_para_num = 2 /\ aligned /\ ~data_null
  /\ FlattenSeq(pages) = Encode(list)
  /\ \A i \in 1 .. Len(list) : list[i].id # ClusterId
AllAreRun == []<>(Complete => callbacks = 1 /\ Len(decoded) = Len(list))
===============================================================================
