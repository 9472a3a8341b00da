------------------------------- MODULE GuestMem -------------------------------
(***************************************************************************)
(* Guest memory as the host sees it: a Guest_Mem is a list of segments,    *)
(* one for each stretch of guest pages that is contiguous in host memory.  *)
(* host_guest_buffer_exchange copies between such a list and a plain host  *)
(* buffer, in either direction; what it copies is given by the list of     *)
(* places <<segment, offset>> that stand for the bytes of the host buffer. *)
(* A segment is a sequence of units; the unit (a byte, a word) does not    *)
(* matter here.                                                            *)
(***************************************************************************)
EXTENDS Integers, Sequences, SequencesExt

(* all_len, as fill_teleport_express_queue_elem adds it up.                *)
all_len(segs) == Len(FlattenSeq(segs))

(* get_direct_ptr: the only segment, if there is only one.                 *)
HasDirectPtr(segs) == Len(segs) = 1

(* Mutant: guest_loc is not set to 0 after a copy.                         *)
RECURSIVE PlacesKeepLoc(_, _, _, _)
PlacesKeepLoc(segs, guest_index, guest_loc, remain_len) ==
  IF remain_len = 0 \/ guest_index > Len(segs) \/ segs[guest_index] = <<>>
  THEN <<>>
  ELSE LET here == Len(segs[guest_index]) - guest_loc
           n    == IF remain_len < here THEN remain_len ELSE here
       IN  IF here > 0
           THEN [k \in 1 .. n |-> <<guest_index, guest_loc + k>>]
                  \o PlacesKeepLoc(segs, guest_index + 1, guest_loc, remain_len - n)
           ELSE PlacesKeepLoc(segs, guest_index + 1, -here, remain_len)

(* The loop of host_guest_buffer_exchange.  An empty segment ends it.  The *)
(* code relies on the caller not to run off the list: there it would read  *)
(* whatever follows, here the copy ends.                                   *)
RECURSIVE Places(_, _, _, _)
Places(segs, guest_index, guest_loc, remain_len) ==
  IF remain_len = 0 \/ guest_index > Len(segs) \/ segs[guest_index] = <<>>
  THEN <<>>
  ELSE LET here == Len(segs[guest_index]) - guest_loc
           n    == IF remain_len < here THEN remain_len ELSE here
       IN  IF here > 0
           THEN [k \in 1 .. n |-> <<guest_index, guest_loc + k>>]
                  \o Places(segs, guest_index + 1, 0, remain_len - n)
           ELSE Places(segs, guest_index + 1, -here, remain_len)

(* The contents of host after a read, of segs after a write.  A length     *)
(* that is 0 or exceeds the memory is refused, the buffer stays as it is.  *)
Accepted(segs, length) == length # 0 /\ length <= all_len(segs)

read_from_guest_mem(segs, host, start_loc, length) ==
  IF ~Accepted(segs, length) THEN host
  ELSE LET from == Places(segs, 1, start_loc, length)
       IN  [k \in 1 .. Len(host) |->
              IF k <= Len(from) THEN segs[from[k][1]][from[k][2]] ELSE host[k]]

write_to_guest_mem(segs, host, start_loc, length) ==
  IF ~Accepted(segs, length) THEN segs
  ELSE LET to == Places(segs, 1, start_loc, length)
       IN  [s \in 1 .. Len(segs) |-> [o \in 1 .. Len(segs[s]) |->
              IF \E k \in 1 .. Len(to) : to[k] = <<s, o>>
              THEN host[CHOOSE k \in 1 .. Len(to) : to[k] = <<s, o>>]
              ELSE segs[s][o]]]
===============================================================================
