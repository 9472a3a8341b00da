------------------------------ MODULE MCGraphics ------------------------------
(* Instances of Display and Dataflow for TLC, the two modules about what    *)
(* happens to gbuffers, one at a time, chosen at the start.                 *)
EXTENDS Display, Dataflow

VARIABLE part

mcvars == <<dispvars, flowvars, part>>

MCInit == DisplayInit /\ FlowInit /\ part \in {"display", "dataflow"}
MCNext ==
  /\ \/ part = "display" /\ DisplayNext /\ UNCHANGED flowvars
     \/ part = "dataflow" /\ FlowNext /\ UNCHANGED dispvars
  /\ UNCHANGED part

(* Display's fairness, when it is chosen.                                  *)
Shown(A) == part = "display" /\ A
MCSpec ==
  /\ MCInit /\ [][MCNext]_mcvars
  /\ \A s \in Starters : WF_dispvars(Shown(context_init(s)))
  /\ WF_dispvars(Shown(C_Child \/ C_Ready \/ display_present))
  /\ WF_dispvars(Shown(native_window_thread))
  /\ SF_dispvars(Shown(M_NoEvent))
  /\ SF_dispvars(Shown(C_Lock))
  /\ SF_dispvars(Shown(M_Aim /\ main_display_gbuffer # NoBuf /\ ~is_lock[main_display_gbuffer]))
  /\ SF_dispvars(Shown(M_Lock))
===============================================================================
