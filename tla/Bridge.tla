-------------------------------- MODULE Bridge --------------------------------
(***************************************************************************)
(* The network bridge (express_bridge.c).  A context of the guest listens  *)
(* on a port of the host (bridge_accept_host_thread) or has one connection *)
(* (bridge_read_host_thread); in both cases the host thread R passes what  *)
(* arrives to the guest through a buffer in guest memory and the irq call  *)
(* of DeviceIrq, and remove_bridge_context ends it.                        *)
(*                                                                         *)
(* The bytes of the connection, and the connections to the port, are       *)
(* numbered modulo 2: with an odd DataSize a byte of the previous lap of   *)
(* the ring has the wrong number.                                          *)
(***************************************************************************)
EXTENDS DeviceIrq

CONSTANTS DataSize,     \* data_size of the guest's Bridge_Read_Data
          CacheSize     \* WRITE_CACHE_SIZE

R == "R"
ASSUME RAssumption == R \in Setters
ASSUME SizeAssumption == DataSize \in Nat /\ DataSize >= 2 /\ CacheSize \in Nat \ {0}

VARIABLES
  status_id, should_running,   \* the Bridge_Thread_Context
  guest_data,                  \* the registered buffer: "null", "set", "freed"
  head, data,                  \* Bridge_Read_Data: the two indices, the ring
  accept,                      \* Bridge_Accept_Data
  rpc, then,                   \* where R is, where it goes on after an irq
  need_send_irq, errno,        \* of R
  all_read_cnt,                \* > 0
  todo,                        \* bytes copied but not published, bytes not copied
  get_accept_fd,               \* a connection the guest has not got, or -1
  sent, got,                   \* the next number to arrive, the next the guest expects
  peer,                        \* the other end: "open" or "shut"
  due,                         \* the guest has, or is about to get, an irq to answer
  removal                      \* where D is in remove_bridge_context

context == <<status_id, should_running, guest_data>>
buffer  == <<head, data, accept>>
thread  == <<need_send_irq, errno, all_read_cnt, todo, get_accept_fd>>
world   == <<sent, got, peer, due, removal>>
bridgevars == <<vars, context, buffer, rpc, then, thread, world>>

BridgeTypeOK ==
  /\ status_id \in {"NONE", "BIND", "CONNECTED", "CLOSED"} /\ should_running \in BOOLEAN
  /\ guest_data \in {"null", "set", "freed"}
  /\ head \in [write : 0 .. DataSize - 1, read : 0 .. DataSize - 1]
  /\ data \in [0 .. DataSize - 1 -> 0 .. 1]
  /\ accept \in [status : {"NONE", "GET"}, fd : 0 .. 1]
  /\ rpc \in {"none", "loop", "nodata", "recv", "publish", "second", "pending", "status", "accept",
              "irq", "swap", "send", "close", "end"}
  /\ then \in {"loop", "pending", "accept", "end"}
  /\ need_send_irq \in BOOLEAN /\ errno \in {"0", "EAGAIN"} /\ all_read_cnt \in BOOLEAN
  /\ todo \in (0 .. CacheSize) \X (0 .. CacheSize)
  /\ get_accept_fd \in -1 .. 1
  /\ sent \in 0 .. 1 /\ got \in 0 .. 1 /\ peer \in {"open", "shut"}
  /\ due \in BOOLEAN /\ removal \in {"none", "join", "done"}

BridgeInit ==
  /\ Init
  /\ status_id = "NONE" /\ should_running = FALSE /\ guest_data = "null"
  /\ head = [write |-> 0, read |-> 0] /\ data = [i \in 0 .. DataSize - 1 |-> 0]
  /\ accept = [status |-> "NONE", fd |-> 0]
  /\ rpc = "none" /\ then = "loop"
  /\ need_send_irq = FALSE /\ errno = "0" /\ all_read_cnt = FALSE /\ todo = <<0, 0>>
  /\ get_accept_fd = -1
  /\ sent = 0 /\ got = 0 /\ peer = "open" /\ due = FALSE /\ removal = "none"

-------------------------------------------------------------------------------
Go(from, to) == rpc = from /\ rpc' = to

(* set_express_device_irq; a failure is remembered in need_send_irq.       *)
R_NotEnabled ==
  /\ Go("irq", then) /\ ~irq_enabled
  /\ need_send_irq' = TRUE
  /\ UNCHANGED <<vars, context, buffer, then, errno, all_read_cnt, todo, get_accept_fd, world>>

R_Check ==
  /\ Go("irq", "swap") /\ S_Check(R)
  /\ UNCHANGED <<context, buffer, then, thread, world>>

(* Mutant: an interrupt that found no call is not remembered.              *)
R_SwapForgets ==
  /\ S_Swap(R) /\ Go("swap", IF irq_call = CALL THEN "send" ELSE then)
  /\ due' = (due \/ irq_call = CALL)
  /\ UNCHANGED <<context, buffer, then, thread, sent, got, peer, removal>>

R_Swap ==
  /\ S_Swap(R) /\ Go("swap", IF irq_call = CALL THEN "send" ELSE then)
  /\ need_send_irq' = (need_send_irq \/ irq_call # CALL)
  /\ due' = (due \/ irq_call = CALL)
  /\ UNCHANGED <<context, buffer, then, errno, all_read_cnt, todo, get_accept_fd, sent, got, peer,
                 removal>>

R_Send ==
  /\ S_Send(R) /\ Go("send", "send")
  /\ UNCHANGED <<context, buffer, then, thread, world>>

R_Sent ==
  /\ S_Sent(R) /\ Go("send", then)
  /\ need_send_irq' = FALSE
  /\ UNCHANGED <<context, buffer, then, errno, all_read_cnt, todo, get_accept_fd, world>>

Irq == R_NotEnabled \/ R_Check \/ R_Swap \/ R_Send \/ R_Sent

(* R interrupts the guest and goes on at pc.                               *)
Interrupt(pc) == rpc' = "irq" /\ then' = pc

(* The end of both threads, with one more interrupt.                       *)
R_Close ==
  /\ rpc = "close" /\ Interrupt("end")
  /\ guest_data' = IF guest_data = "null" THEN "null" ELSE "freed"
  /\ get_accept_fd' = -1
  /\ UNCHANGED <<vars, status_id, should_running, buffer, need_send_irq, errno, all_read_cnt, todo,
                 world>>

-------------------------------------------------------------------------------
(* Mutant: read_thread_should_running is not looked at.                    *)
R_LoopRuns ==
  /\ status_id = "CONNECTED"
  /\ Go("loop", "nodata")
  /\ UNCHANGED <<vars, context, buffer, then, thread, world>>

(* bridge_read_host_thread.                                                *)
R_Loop ==
  /\ status_id = "CONNECTED"
  /\ Go("loop", IF ~should_running THEN "close" ELSE "nodata")
  /\ UNCHANGED <<vars, context, buffer, then, thread, world>>

R_Begin ==
  /\ Go("nodata", "recv") /\ guest_data # "null"
  /\ all_read_cnt' = FALSE
  /\ UNCHANGED <<vars, context, buffer, then, need_send_irq, errno, todo, get_accept_fd, world>>

(* No buffer after 10000 looks.                                            *)
R_GivesUp ==
  /\ Go("nodata", "end") /\ guest_data = "null"
  /\ status_id' = "CLOSED"
  /\ UNCHANGED <<vars, should_running, guest_data, buffer, then, thread, world>>

(* fd_data_to_guest_mem.  Byte i of what is copied is number n + i.        *)
max_guest_size == (head.read - head.write + DataSize - 1) % DataSize
Copied(n, first) ==
  [k \in DOMAIN data |-> IF k \in head.write .. head.write + first - 1
                         THEN (n + k - head.write) % 2 ELSE data[k]]

R_Recv(n) ==
  /\ Go("recv", "publish") /\ peer = "open"
  /\ n <= max_guest_size /\ n <= CacheSize
  /\ LET first == IF head.write + n > DataSize THEN DataSize - head.write ELSE n
     IN data' = Copied(sent, first) /\ todo' = <<first, n - first>>
  /\ sent' = (sent + n) % 2
  /\ UNCHANGED <<vars, context, head, accept, then, need_send_irq, errno, all_read_cnt, get_accept_fd,
                 got, peer, due, removal>>

(* Mutant: both parts are published when the first one has been copied.    *)
R_PublishBoth ==
  /\ Go("publish", IF todo[2] > 0 THEN "second" ELSE "recv")
  /\ head' = [head EXCEPT !.write = (@ + todo[1] + todo[2]) % DataSize]
  /\ todo' = <<0, todo[2]>>
  /\ all_read_cnt' = TRUE
  /\ UNCHANGED <<vars, context, data, accept, then, need_send_irq, errno, get_accept_fd, world>>

R_Publish ==
  /\ Go("publish", IF todo[2] > 0 THEN "second" ELSE "recv")
  /\ head' = [head EXCEPT !.write = (@ + todo[1]) % DataSize]
  /\ todo' = <<0, todo[2]>>
  /\ all_read_cnt' = TRUE
  /\ UNCHANGED <<vars, context, data, accept, then, need_send_irq, errno, get_accept_fd, world>>

(* The part behind the end of the ring.                                    *)
R_Second ==
  /\ Go("second", "publish")
  /\ data' = Copied(sent + todo[2], todo[2])
  /\ todo' = <<todo[2], 0>>
  /\ UNCHANGED <<vars, context, head, accept, then, need_send_irq, errno, all_read_cnt, get_accept_fd,
                 world>>

(* It returns: an interrupt for what was read, or another try of one that  *)
(* is owed.                                                                *)
R_Returns ==
  /\ rpc = "recv"
  /\ IF all_read_cnt \/ need_send_irq THEN Interrupt("loop") ELSE rpc' = "loop" /\ UNCHANGED then
  /\ UNCHANGED <<vars, context, buffer, need_send_irq, all_read_cnt, todo, get_accept_fd, world>>

R_Full  == max_guest_size = 0 /\ R_Returns /\ UNCHANGED errno
R_Again ==
  /\ max_guest_size # 0 /\ (peer = "open" \/ errno = "EAGAIN")
  /\ R_Returns /\ errno' = "EAGAIN"

(* recv fails, or finds the end.  errno is looked at also in the second    *)
(* case, where recv has not set it.                                        *)
R_Ends ==
  /\ Go("recv", "close") /\ max_guest_size # 0
  /\ peer = "open" \/ errno # "EAGAIN"
  /\ status_id' = "CLOSED"
  /\ UNCHANGED <<vars, should_running, guest_data, buffer, then, thread, world>>

bridge_read_host_thread ==
  \/ R_Loop \/ R_Begin \/ R_GivesUp \/ (\E n \in 1 .. DataSize : R_Recv(n))
  \/ R_Publish \/ R_Second \/ R_Full \/ R_Again \/ R_Ends

-------------------------------------------------------------------------------
(* bridge_accept_host_thread.                                              *)
A_Loop ==
  /\ status_id = "BIND" /\ rpc = "loop"
  /\ IF should_running /\ need_send_irq THEN Interrupt("pending")
     ELSE rpc' = (IF should_running THEN "pending" ELSE "close") /\ UNCHANGED then
  /\ UNCHANGED <<vars, context, buffer, thread, world>>

(* A connection waits until the guest has taken the one before.            *)
A_Pending ==
  /\ Go("pending", IF get_accept_fd = -1 THEN "accept"
                   ELSE IF guest_data = "set" /\ accept.status = "NONE" THEN "status" ELSE "loop")
  /\ accept' = IF rpc' = "status" THEN [accept EXCEPT !.fd = get_accept_fd] ELSE accept
  /\ UNCHANGED <<vars, context, head, data, then, thread, world>>

A_Status ==
  /\ rpc = "status" /\ Interrupt("accept")
  /\ accept' = [accept EXCEPT !.status = "GET"]
  /\ get_accept_fd' = -1
  /\ UNCHANGED <<vars, context, head, data, need_send_irq, errno, all_read_cnt, todo, world>>

A_Nobody ==
  /\ Go("accept", "loop")
  /\ UNCHANGED <<vars, context, buffer, then, thread, world>>

A_Accept ==
  /\ Go("accept", "loop") /\ peer = "open"
  /\ get_accept_fd' = sent /\ sent' = 1 - sent
  /\ UNCHANGED <<vars, context, buffer, then, need_send_irq, errno, all_read_cnt, todo, got, peer, due,
                 removal>>

bridge_accept_host_thread == A_Loop \/ A_Pending \/ A_Status \/ A_Nobody \/ A_Accept

-------------------------------------------------------------------------------
(* bridge_output_call_handle: BRIDGE_FUN_BIND and BRIDGE_FUN_CONNECT.      *)
Start(status) ==
  /\ status_id = "NONE" /\ removal = "none"
  /\ status_id' = status /\ should_running' = TRUE /\ Go("none", "loop")
  /\ UNCHANGED <<vars, guest_data, buffer, then, thread, world>>

(* The guest (external) registers its buffer once.                         *)
bridge_buffer_register ==
  /\ guest_data = "null" /\ status_id # "NONE" /\ removal = "none"
  /\ guest_data' = "set"
  /\ UNCHANGED <<vars, status_id, should_running, buffer, rpc, then, thread, world>>

(* remove_bridge_context, by D.  The guest (external) has released the     *)
(* interrupts and has its call back.                                       *)
remove_bridge_context ==
  /\ removal = "none" /\ status_id # "NONE" /\ Closed /\ "register" \in guest
  /\ IF status_id = "CLOSED" THEN removal' = "done" /\ UNCHANGED should_running
     ELSE removal' = "join" /\ should_running' = FALSE
  /\ UNCHANGED <<vars, status_id, guest_data, buffer, rpc, then, thread, sent, got, peer, due>>

Rm_Join ==
  /\ removal = "join" /\ rpc = "end"
  /\ removal' = "done"
  /\ UNCHANGED <<vars, context, buffer, rpc, then, thread, sent, got, peer, due>>

PeerShuts ==
  /\ peer = "open" /\ status_id # "NONE" /\ peer' = "shut"
  /\ UNCHANGED <<vars, context, buffer, rpc, then, thread, sent, got, due, removal>>

(* The guest's driver (external) answers a real interrupt: it takes what   *)
(* is there, number by number, and only then registers the call again.     *)
Answering == "register" \in guest /\ more /\ due /\ removal = "none"
Available == head.read # head.write \/ accept.status = "GET"

B_GuestTakes ==
  /\ Answering /\ Available
  /\ got' = 1 - got
  /\ IF accept.status = "GET" THEN accept' = [accept EXCEPT !.status = "NONE"] /\ UNCHANGED head
     ELSE head' = [head EXCEPT !.read = (@ + 1) % DataSize] /\ UNCHANGED accept
  /\ UNCHANGED <<vars, context, data, rpc, then, thread, sent, peer, due, removal>>

B_GuestDone ==
  /\ Answering /\ ~Available
  /\ due' = FALSE
  /\ UNCHANGED <<vars, context, buffer, rpc, then, thread, sent, got, peer, removal>>

B_GuestRegisters ==
  /\ GuestRegister /\ status_id # "NONE" /\ removal = "none" /\ ~(more /\ due)
  /\ UNCHANGED <<context, buffer, rpc, then, thread, world>>

B_Host(t) ==
  /\ L_Enter(t) \/ register_input_buffer_call(t)
  /\ UNCHANGED <<context, buffer, rpc, then, thread, world>>

-------------------------------------------------------------------------------
BridgeNext ==
  \/ Irq \/ R_Close \/ bridge_read_host_thread \/ bridge_accept_host_thread
  \/ PeerShuts \/ Start("BIND") \/ Start("CONNECTED")
  \/ bridge_buffer_register \/ remove_bridge_context \/ Rm_Join
  \/ B_GuestTakes \/ B_GuestDone \/ B_GuestRegisters
  \/ (GuestRelease \/ Shutdown) /\ UNCHANGED <<context, buffer, rpc, then, thread, world>>
  \/ \E t \in Threads : B_Host(t)

(* R and the other host threads go on, and the guest's irq loop does while *)
(* its context lives; nothing need arrive.                                 *)
BridgeFairness ==
  /\ WF_bridgevars(Irq \/ R_Close \/ bridge_read_host_thread \/ bridge_accept_host_thread)
  /\ WF_bridgevars(Rm_Join)
  /\ WF_bridgevars(B_GuestTakes \/ B_GuestDone)
  /\ WF_bridgevars(B_GuestRegisters /\ more)
  /\ \A t \in Threads : WF_bridgevars(B_Host(t))

BridgeSpec == BridgeInit /\ [][BridgeNext]_bridgevars

-------------------------------------------------------------------------------
(* The guest gets every byte, and every connection, once and in order,     *)
(* although it reads the buffer while R writes it and the ring wraps       *)
(* around (fd_data_to_guest_mem, bridge_accept_host_thread).               *)
ArrivesInOrder ==
  /\ head.read # head.write => data[head.read] = got
  /\ accept.status = "GET" => accept.fd = got

(* What is in the buffer does not stay there for ever: the guest takes it  *)
(* although the irq call is often under way when R wants it, since         *)
(* need_send_irq makes R try again (until R ends), and although a kick     *)
(* that finds the input queue locked is dropped.                           *)
Over == should_stop \/ ~open \/ robbed \/ Stranded \/ rpc \in {"close", "end"} \/ then = "end"
DataReachesGuest ==
  \A n \in 0 .. 1 : []<>(~Available \/ got # n \/ Over)

(* D, the one distributor of the machine, does not wait in remove_bridge_  *)
(* context for a thread that does not end.                                 *)
RemoveReturns == []<>(removal # "join")
===============================================================================
