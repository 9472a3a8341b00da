------------------------------- MODULE Dataflow -------------------------------
(***************************************************************************)
(* The data flows express-mem learns to predict where a gbuffer is read    *)
(* next.  A flow has a source device and destination devices; there is a   *)
(* table of virtual flows (guest devices) and one of physical flows        *)
(* (memory types), and each gbuffer id maps to at most one flow of each.   *)
(* When a gbuffer that was written is read, the reader must be in its flow:*)
(* a new gbuffer takes the first flow that fits, one whose flow does not   *)
(* have the reader moves to another flow or forks a new one.               *)
(*                                                                         *)
(* A flow is a pointer into a table of MAX_FLOW_SIZE entries: an index     *)
(* here, NULL being 0.  Slack intervals are left out, but not that the     *)
(* code writes them through the pointer.  A usage is tracked in one step:  *)
(* the code takes no lock, and what two threads make of one table or one   *)
(* gbuffer at the same time is not modelled.                               *)
(***************************************************************************)
EXTENDS Integers, Sequences

CONSTANTS Gbuffers,
          VirtDevs, PhyDevs,        \* devices, positive numbers
          MAX_FLOW_SIZE, DstLen     \* lengths of the table and of dst_dev

ASSUME FlowAssumption ==
  /\ MAX_FLOW_SIZE \in Nat \ {0} /\ DstLen \in Nat \ {0}
  /\ VirtDevs \subseteq Nat \ {0} /\ PhyDevs \subseteq Nat \ {0}

Tables == {"virt", "phy"}
Devs == [virt |-> VirtDevs, phy |-> PhyDevs]
NoFlow == 0

VARIABLES
  flows,        \* table -> sequence of flows
  flow_of,      \* table -> gbuffer -> flow
  last_dev, last_write,   \* table -> gbuffer -> its last usage
  crashed       \* where a NULL flow was dereferenced

flowvars == <<flows, flow_of, last_dev, last_write, crashed>>

Flow(t) == [src_dev : Devs[t], dst_dev : [1 .. DstLen -> Devs[t] \cup {0}], dst_dev_size : 0 .. DstLen]

FlowTypeOK ==
  /\ \A t \in Tables :
       /\ flows[t] \in Seq(Flow(t)) /\ Len(flows[t]) <= MAX_FLOW_SIZE
       /\ flow_of[t] \in [Gbuffers -> NoFlow .. Len(flows[t])]
       /\ last_dev[t] \in [Gbuffers -> Devs[t] \cup {0}]
       /\ last_write[t] \in [Gbuffers -> BOOLEAN]
  /\ crashed \in {"no", "update", "predict"}

FlowInit ==
  /\ flows = [t \in Tables |-> <<>>]
  /\ flow_of = [t \in Tables |-> [g \in Gbuffers |-> NoFlow]]
  /\ last_dev = [t \in Tables |-> [g \in Gbuffers |-> 0]]
  /\ last_write = [t \in Tables |-> [g \in Gbuffers |-> FALSE]]
  /\ crashed = "no"

-------------------------------------------------------------------------------
Dsts(f) == {f.dst_dev[i] : i \in 1 .. f.dst_dev_size}

is_in_devs(dev, f) == dev \in Dsts(f)

(* hg_new_virt_flow, hg_new_phy_flow: the destinations of the base flow    *)
(* are copied, their number is not; a fresh entry has dst_dev_size 0.      *)
hg_new_flow(src, base_dst, base_size, dev) ==
  LET copied == [i \in 1 .. DstLen |-> IF i <= base_size THEN base_dst[i] ELSE 0]
      size   == 0
  IN [src_dev |-> src, dst_dev |-> [copied EXCEPT ![size + 1] = dev], dst_dev_size |-> size + 1]

NoDst == [i \in 1 .. DstLen |-> 0]

First(S) == CHOOSE i \in S : \A j \in S : i <= j

(* Mutant: only the source of a flow is compared.                          *)
FittingAnyReader(t, src, dev) ==
  {i \in 1 .. Len(flows[t]) : flows[t][i].src_dev = src}

(* The flows a new gbuffer written by src and read by dev may take.        *)
Fitting(t, src, dev) ==
  {i \in 1 .. Len(flows[t]) : flows[t][i].src_dev = src /\ is_in_devs(dev, flows[t][i])}

(* The flows with one destination more than f, the last one being dev.     *)
Extending(t, f, dev) ==
  {i \in 1 .. Len(flows[t]) :
     LET g == flows[t][i] IN
     /\ g.dst_dev_size = f.dst_dev_size + 1
     /\ \A k \in 1 .. f.dst_dev_size : g.dst_dev[k] = f.dst_dev[k]
     /\ g.dst_dev[g.dst_dev_size] = dev}

(* Table t gets the flow f for gbuffer g, or NULL when it is full.         *)
AddFlow(t, g, f) ==
  IF Len(flows[t]) < MAX_FLOW_SIZE
  THEN /\ flows' = [flows EXCEPT ![t] = Append(@, f)]
       /\ flow_of' = [flow_of EXCEPT ![t][g] = Len(flows[t]) + 1]
  ELSE /\ flow_of' = [flow_of EXCEPT ![t][g] = NoFlow]
       /\ UNCHANGED flows

SetFlow(t, g, i) == flow_of' = [flow_of EXCEPT ![t][g] = i] /\ UNCHANGED flows

NewUser(t, g, src, dev) ==
  IF Fitting(t, src, dev) # {}
  THEN SetFlow(t, g, First(Fitting(t, src, dev)))
  ELSE AddFlow(t, g, hg_new_flow(src, NoDst, 0, dev))

KnownUser(t, g, src, dev) ==
  LET f == flows[t][flow_of[t][g]] IN
  IF src = f.src_dev /\ ~is_in_devs(dev, f)
  THEN IF Extending(t, f, dev) # {}
       THEN SetFlow(t, g, First(Extending(t, f, dev)))
       ELSE AddFlow(t, g, hg_new_flow(src, f.dst_dev, f.dst_dev_size, dev))
  ELSE UNCHANGED <<flows, flow_of>>

(* The last usage is recorded; a read after a write is tracked.            *)
Usage(t, g, dev, write) ==
  /\ last_dev' = [last_dev EXCEPT ![t][g] = dev]
  /\ last_write' = [last_write EXCEPT ![t][g] = write]
  /\ IF last_dev[t][g] = 0 \/ ~last_write[t][g] \/ write
     THEN UNCHANGED <<flows, flow_of>>
     ELSE IF flow_of[t][g] = NoFlow
          THEN NewUser(t, g, last_dev[t][g], dev)
          ELSE KnownUser(t, g, last_dev[t][g], dev)

Tracked(t, g, write) == last_dev[t][g] # 0 /\ last_write[t][g] /\ ~write

(* The slack interval is stored through the flow.                          *)
update_gbuffer_virt_usage(g, dev, write) ==
  /\ crashed = "no"
  /\ Usage("virt", g, dev, write)
  /\ crashed' = IF Tracked("virt", g, write) /\ flow_of'["virt"][g] = NoFlow THEN "update" ELSE "no"

update_gbuffer_phy_usage(g, dev, write) ==
  /\ crashed = "no"
  /\ Usage("phy", g, dev, write)
  /\ UNCHANGED crashed

(* A producer records its write and predicts the reader; the slack         *)
(* interval of the virtual flow is read if there is a physical flow.       *)
mem_predict_prefetch(g, dev) ==
  /\ crashed = "no"
  /\ Usage("phy", g, dev, TRUE)
  /\ crashed' = IF flow_of["phy"][g] # NoFlow /\ flow_of["virt"][g] = NoFlow THEN "predict" ELSE "no"

(* A gbuffer is destroyed and its id reused: the usage starts anew, the    *)
(* id keeps its flows.                                                     *)
Recreate(g) ==
  /\ crashed = "no" /\ \E t \in Tables : last_dev[t][g] # 0
  /\ last_dev' = [t \in Tables |-> [last_dev[t] EXCEPT ![g] = 0]]
  /\ last_write' = [t \in Tables |-> [last_write[t] EXCEPT ![g] = FALSE]]
  /\ UNCHANGED <<flows, flow_of, crashed>>

FlowNext ==
  \E g \in Gbuffers :
    \/ \E dev \in VirtDevs, write \in BOOLEAN : update_gbuffer_virt_usage(g, dev, write)
    \/ \E dev \in PhyDevs, write \in BOOLEAN : update_gbuffer_phy_usage(g, dev, write)
    \/ \E dev \in PhyDevs : mem_predict_prefetch(g, dev)
    \/ Recreate(g)

FlowSpec == FlowInit /\ [][FlowNext]_flowvars

-------------------------------------------------------------------------------
(* The flow of a gbuffer after a step, and whether the step tracked a read *)
(* of g by the device that is now the last one.                            *)
FlowAfter(t, g) == flows'[t][flow_of'[t][g]]
ReadAfterWrite(t, g) ==
  /\ last_write[t][g] /\ ~last_write'[t][g] /\ 0 \notin {last_dev[t][g], last_dev'[t][g]}

(* However gbuffers share and change flows, the flow a gbuffer has after a *)
(* tracked read is a flow of its writer's only if it has its reader among  *)
(* the destinations: what is predicted from it is what happened.           *)
ReaderIsInFlow ==
  [][\A t \in Tables, g \in Gbuffers :
       ReadAfterWrite(t, g) /\ flow_of'[t][g] # NoFlow
         => (FlowAfter(t, g).src_dev = last_dev[t][g] => is_in_devs(last_dev'[t][g], FlowAfter(t, g)))]_flowvars

(* What the comment at express_mem.c:220 says of the flow the code writes  *)
(* its slack interval through: "virt_flow should be non-null".             *)
VirtFlowIsNonNull == crashed # "update"

(* What the comment at express_mem.c:223 says of the flow a gbuffer moves  *)
(* to when it gets a new reader: its destinations are "UNION(virt_flow     *)
(* ->dst_dev, virt_dev)", so that the readers it had are kept.             *)
MoveKeepsReaders ==
  [][\A t \in Tables, g \in Gbuffers :
       ReadAfterWrite(t, g) /\ NoFlow \notin {flow_of[t][g], flow_of'[t][g]}
         => Dsts(flows[t][flow_of[t][g]]) \subseteq Dsts(FlowAfter(t, g))]_flowvars
===============================================================================
