------------------------------ MODULE MCCallPath ------------------------------
(* Instances of PackCall, ClusterDecode, Distribute and CallCache for TLC:  *)
(* the parts of teleport-express that calls pass through, one at a time,    *)
(* chosen at the start.  The other parts rest.                              *)
EXTENDS PackCall, ClusterDecode, Distribute, CallCache

VARIABLE part

mcvars == <<packvars, clustervars, vars, cachevars, part>>

(* Every stream of five elements, malformed ones included.                 *)
MCStreams == [1 .. 5 -> {0, 1, 2, Out, Wide}]
PackRests == stream = [i \in 1 .. 5 |-> 0] /\ PackInit

(* Up to two inner calls with up to two parameters, nested clusters        *)
(* included; up to three of the last words may be missing, the number of   *)
(* parameters among them.                                                  *)
MCParas == {[len |-> 4, off |-> 8], [len |-> 4, off |-> 0]}
MCCalls == {[id |-> i, paras |-> p] : i \in {1, ClusterId}, p \in UNION {[1 .. n -> MCParas] : n \in 0 .. 2}}
MCLists == UNION {[1 .. n -> MCCalls] : n \in 1 .. 2}
MCCut == 0 .. 3
ClusterRests ==
  /\ list = <<[id |-> 1, paras |-> <<>>]>> /\ cluster_para_num = 1 /\ aligned = FALSE
  /\ pages = NullPtr /\ data_null = TRUE
  /\ ClusterInit

MCInit ==
  \/ part = "pack" /\ ClusterRests /\ Init /\ CacheInit /\ PackInit
  \/ part = "cluster" /\ PackRests /\ Init /\ CacheInit /\ ClusterInit
  \/ part \in {"distribute", "cache"} /\ PackRests /\ ClusterRests /\ Init /\ CacheInit

MCNext ==
  /\ \/ part = "pack" /\ PackNext /\ UNCHANGED <<clustervars, vars, cachevars>>
     \/ part = "cluster" /\ ClusterNext /\ UNCHANGED <<packvars, vars, cachevars>>
     \/ part = "distribute" /\ Next /\ UNCHANGED <<packvars, clustervars, cachevars>>
     \/ part = "cache" /\ CacheNext /\ UNCHANGED <<packvars, clustervars, vars>>
     \/ part # "cache" /\ UNCHANGED mcvars       \* only the cache cannot stop
  /\ UNCHANGED part

MCSpec ==
  /\ MCInit /\ [][MCNext]_mcvars
  /\ WF_packvars(pack_call_from_queue)
  /\ WF_clustervars(part = "cluster" /\ cluster_decode_invoke)
  /\ DistributeFairness
===============================================================================
