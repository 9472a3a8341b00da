------------------------------- MODULE Display --------------------------------
(***************************************************************************)
(* The composer and the window.  The display device's handle thread C      *)
(* composes the layers of a commit into the write gbuffer, exchanges it    *)
(* with the read gbuffer and points main_display_gbuffer at the result     *)
(* (express_display.c); the window thread M paints main_display_gbuffer    *)
(* whenever the window needs a refresh (express_gpu_render.c).  A gbuffer  *)
(* is kept from being painted and drawn at once by its is_lock alone.      *)
(*                                                                         *)
(* The first of the threads that need the window starts M; all of them     *)
(* poll native_render_run until M runs.  The event queue of M is a set:    *)
(* handle_child_window_event empties it before anything else happens, and  *)
(* a second MAIN_PAINT in it changes nothing.                              *)
(***************************************************************************)
EXTENDS Integers

CONSTANTS NoBuf        \* main_display_gbuffer == NULL

Bufs == {"a", "b"}
Other(b) == IF b = "a" THEN "b" ELSE "a"

ASSUME NoBufAssumption == NoBuf \notin Bufs

Starters == {"display", "gpu"}      \* C itself, and a rendering thread

VARIABLES
  native_render_run,       \* 0: none, 1: starting, 2: running, -1: to stop
  main_display_gbuffer,
  is_lock,                 \* gbuffer -> BOOLEAN
  events,                  \* main_window_event_queue
  window_need_refresh,
  init,                    \* starter -> where in its context_init
  child,                   \* native_display_context exists
  cpc, write,              \* C, and display_write_gbuffer
  mpc, aim, gbuffer,       \* M, the gbuffer it tries to lock, the one it paints
  halt,                    \* how far shutdown_notify_callback is
  frame,                   \* history: how far the oldest unshown frame is
  strayed                  \* history: M locked one gbuffer and painted the other

cvars == <<cpc, write>>
mvars == <<mpc, aim, gbuffer>>
dispvars == <<native_render_run, main_display_gbuffer, is_lock, events, window_need_refresh,
              init, child, cvars, mvars, halt, frame, strayed>>

CLocs == {"init", "child", "ready", "draw", "lock", "point", "unlock", "post"}
MLocs == {"off", "create", "failed", "poll", "input", "events", "test", "null?", "aim", "try",
          "read", "paint", "next", "close", "fault"}

DisplayTypeOK ==
  /\ native_render_run \in -1 .. 2
  /\ main_display_gbuffer \in Bufs \cup {NoBuf}
  /\ is_lock \in [Bufs -> BOOLEAN]
  /\ events \in SUBSET {"child", "paint"}
  /\ window_need_refresh \in BOOLEAN /\ child \in BOOLEAN
  /\ init \in [Starters -> {"start", "test", "poll", "done"}]
  /\ cpc \in CLocs /\ write \in Bufs
  /\ mpc \in MLocs /\ aim \in Bufs /\ gbuffer \in Bufs
  /\ halt \in {"no", "clear", "done"}
  /\ frame \in {"shown", "drawing", "published"} /\ strayed \in BOOLEAN

DisplayInit ==
  /\ native_render_run = 0 /\ main_display_gbuffer = NoBuf
  /\ is_lock = [b \in Bufs |-> FALSE]
  /\ events = {} /\ window_need_refresh = FALSE
  /\ init = [s \in Starters |-> "start"] /\ child = FALSE
  /\ cpc = "init" /\ write = "a"
  /\ mpc = "off" /\ aim = "a" /\ gbuffer = "a"
  /\ halt = "no" /\ frame = "shown" /\ strayed = FALSE

-------------------------------------------------------------------------------
(* display_context_init and the gpu's context_init: one of them starts M.  *)
I_Start(s) ==
  /\ init[s] = "start"
  /\ init' = [init EXCEPT ![s] = "test"]
  /\ IF native_render_run = 0
     THEN native_render_run' = 1 /\ mpc' = "create"
     ELSE UNCHANGED <<native_render_run, mpc>>
  /\ UNCHANGED <<main_display_gbuffer, is_lock, events, window_need_refresh, child, cvars,
                 aim, gbuffer, halt, frame, strayed>>

(* Only a starter that finds the window starting waits for it.             *)
I_Test(s) ==
  /\ init[s] = "test"
  /\ init' = [init EXCEPT ![s] = IF native_render_run = 1 THEN "poll" ELSE "done"]
  /\ UNCHANGED <<native_render_run, main_display_gbuffer, is_lock, events, window_need_refresh,
                 child, cvars, mvars, halt, frame, strayed>>

I_Poll(s) ==
  /\ init[s] = "poll" /\ native_render_run = 2
  /\ init' = [init EXCEPT ![s] = "done"]
  /\ UNCHANGED <<native_render_run, main_display_gbuffer, is_lock, events, window_need_refresh,
                 child, cvars, mvars, halt, frame, strayed>>

context_init(s) == I_Start(s) \/ I_Test(s) \/ I_Poll(s)

(* C asks M for a context to draw with, waits for it, makes the gbuffers.  *)
C_Child ==
  /\ cpc = "init" /\ init["display"] = "done"
  /\ cpc' = "child" /\ events' = events \cup {"child"}
  /\ UNCHANGED <<native_render_run, main_display_gbuffer, is_lock, window_need_refresh, init,
                 child, write, mvars, halt, frame, strayed>>

C_Ready ==
  /\ cpc = "child" /\ child
  /\ cpc' = "ready"
  /\ UNCHANGED <<native_render_run, main_display_gbuffer, is_lock, events, window_need_refresh,
                 init, child, write, mvars, halt, frame, strayed>>

-------------------------------------------------------------------------------
(* display_decode_invoke, FUNID_Commit_Composer_Layer.                     *)
C_At(from, to) == cpc = from /\ cpc' = to

(* A well-formed commit arrives: opengl_paint_composer_layers draws.       *)
Commit ==
  /\ C_At("ready", "draw")
  /\ frame' = IF frame = "shown" THEN "drawing" ELSE frame
  /\ UNCHANGED <<native_render_run, main_display_gbuffer, is_lock, events, window_need_refresh,
                 init, child, write, mvars, halt, strayed>>

(* display_present exchanges the gbuffers.                                 *)
C_Swap ==
  /\ C_At("draw", "lock")
  /\ write' = Other(write)
  /\ UNCHANGED <<native_render_run, main_display_gbuffer, is_lock, events, window_need_refresh,
                 init, child, mvars, halt, frame, strayed>>

(* Mutant: the new write gbuffer is drawn to although M may be painting it. *)
C_LockNot ==
  /\ C_At("lock", "point")
  /\ UNCHANGED <<native_render_run, main_display_gbuffer, is_lock, events, window_need_refresh,
                 init, child, write, mvars, halt, frame, strayed>>

(* "make sure the main thread has done with the last gbuffer"              *)
C_Lock ==
  /\ C_At("lock", "point")
  /\ ~is_lock[write]
  /\ is_lock' = [is_lock EXCEPT ![write] = TRUE]
  /\ UNCHANGED <<native_render_run, main_display_gbuffer, events, window_need_refresh,
                 init, child, write, mvars, halt, frame, strayed>>

C_Point ==
  /\ C_At("point", "unlock")
  /\ main_display_gbuffer' = Other(write)
  /\ frame' = IF frame = "drawing" THEN "published" ELSE frame
  /\ UNCHANGED <<native_render_run, is_lock, events, window_need_refresh,
                 init, child, write, mvars, halt, strayed>>

C_Unlock ==
  /\ C_At("unlock", "post")
  /\ is_lock' = [is_lock EXCEPT ![write] = FALSE]
  /\ UNCHANGED <<native_render_run, main_display_gbuffer, events, window_need_refresh,
                 init, child, write, mvars, halt, frame, strayed>>

C_Post ==
  /\ C_At("post", "ready")
  /\ events' = events \cup {"paint"}
  /\ UNCHANGED <<native_render_run, main_display_gbuffer, is_lock, window_need_refresh,
                 init, child, write, mvars, halt, frame, strayed>>

display_present == C_Swap \/ C_Lock \/ C_Point \/ C_Unlock \/ C_Post

-------------------------------------------------------------------------------
(* native_window_thread.                                                   *)
M_At(from, to) == mpc = from /\ mpc' = to

M_Create ==
  /\ M_At("create", "poll")
  /\ native_render_run' = 2
  /\ UNCHANGED <<main_display_gbuffer, is_lock, events, window_need_refresh, init, child, cvars,
                 aim, gbuffer, halt, frame, strayed>>

(* glfw gives no window: the thread returns, native_render_run stays 1.    *)
M_CreateFails ==
  /\ M_At("create", "failed")
  /\ UNCHANGED <<native_render_run, main_display_gbuffer, is_lock, events, window_need_refresh,
                 init, child, cvars, aim, gbuffer, halt, frame, strayed>>

(* glfwWaitEventsTimeout runs the user's callbacks, or none: a change of   *)
(* the window's size asks for a refresh.                                   *)
M_PollEvents(resized) ==
  /\ M_At("poll", "input")
  /\ window_need_refresh' = (window_need_refresh \/ resized)
  /\ UNCHANGED <<native_render_run, main_display_gbuffer, is_lock, events, init, child, cvars,
                 aim, gbuffer, halt, frame, strayed>>

(* The input devices are synchronised.                                     *)
M_Input ==
  /\ M_At("input", "events")
  /\ UNCHANGED <<native_render_run, main_display_gbuffer, is_lock, events, window_need_refresh,
                 init, child, cvars, aim, gbuffer, halt, frame, strayed>>

(* handle_child_window_event                                               *)
M_Event(e) ==
  /\ mpc = "events" /\ e \in events
  /\ events' = events \ {e}
  /\ child' = (child \/ e = "child")
  /\ window_need_refresh' = (window_need_refresh \/ e = "paint")
  /\ UNCHANGED <<native_render_run, main_display_gbuffer, is_lock, init, cvars, mvars,
                 halt, frame, strayed>>

M_NoEvent ==
  /\ M_At("events", "test") /\ events = {}
  /\ UNCHANGED <<native_render_run, main_display_gbuffer, is_lock, events, window_need_refresh,
                 init, child, cvars, aim, gbuffer, halt, frame, strayed>>

M_Test ==
  /\ M_At("test", IF main_display_gbuffer # NoBuf /\ window_need_refresh THEN "null?" ELSE "next")
  /\ window_need_refresh' = (window_need_refresh /\ main_display_gbuffer = NoBuf)
  /\ UNCHANGED <<native_render_run, main_display_gbuffer, is_lock, events, init, child, cvars,
                 aim, gbuffer, halt, frame, strayed>>

(* opengl_paint_composer_gbuffer                                           *)
M_Null ==
  /\ M_At("null?", IF main_display_gbuffer = NoBuf THEN "next" ELSE "aim")
  /\ UNCHANGED <<native_render_run, main_display_gbuffer, is_lock, events, window_need_refresh,
                 init, child, cvars, aim, gbuffer, halt, frame, strayed>>

(* ATOMIC_LOCK(main_display_gbuffer->is_lock) reads the pointer before     *)
(* each attempt; a NULL that shutdown stored meanwhile is dereferenced.    *)
M_Aim ==
  /\ M_At("aim", IF main_display_gbuffer = NoBuf THEN "fault" ELSE "try")
  /\ aim' = IF main_display_gbuffer = NoBuf THEN aim ELSE main_display_gbuffer
  /\ UNCHANGED <<native_render_run, main_display_gbuffer, is_lock, events, window_need_refresh,
                 init, child, cvars, gbuffer, halt, frame, strayed>>

M_Miss ==
  /\ M_At("try", "aim") /\ is_lock[aim]
  /\ UNCHANGED <<native_render_run, main_display_gbuffer, is_lock, events, window_need_refresh,
                 init, child, cvars, aim, gbuffer, halt, frame, strayed>>

M_Lock ==
  /\ M_At("try", "read") /\ ~is_lock[aim]
  /\ is_lock' = [is_lock EXCEPT ![aim] = TRUE]
  /\ UNCHANGED <<native_render_run, main_display_gbuffer, events, window_need_refresh,
                 init, child, cvars, aim, gbuffer, halt, frame, strayed>>

(* gbuffer = main_display_gbuffer: the pointer is read once more.          *)
M_Read ==
  /\ M_At("read", IF main_display_gbuffer = NoBuf THEN "fault" ELSE "paint")
  /\ gbuffer' = IF main_display_gbuffer = NoBuf THEN gbuffer ELSE main_display_gbuffer
  /\ strayed' = (strayed \/ main_display_gbuffer \notin {aim, NoBuf})
  /\ UNCHANGED <<native_render_run, main_display_gbuffer, is_lock, events, window_need_refresh,
                 init, child, cvars, aim, halt, frame>>

(* Mutant: the gbuffer stays locked.                                       *)
M_UnlockForgotten ==
  /\ M_At("paint", "next")
  /\ frame' = IF frame = "published" /\ gbuffer = main_display_gbuffer THEN "shown" ELSE frame
  /\ UNCHANGED <<native_render_run, main_display_gbuffer, is_lock, events, window_need_refresh,
                 init, child, cvars, aim, gbuffer, halt, strayed>>

(* Painted: ATOMIC_UNLOCK(gbuffer->is_lock), and glfwSwapBuffers.          *)
M_Unlock ==
  /\ M_At("paint", "next")
  /\ is_lock' = [is_lock EXCEPT ![gbuffer] = FALSE]
  /\ frame' = IF frame = "published" /\ gbuffer = main_display_gbuffer THEN "shown" ELSE frame
  /\ UNCHANGED <<native_render_run, main_display_gbuffer, events, window_need_refresh,
                 init, child, cvars, aim, gbuffer, halt, strayed>>

(* The inner loop goes on until a frame time has passed; then the outer    *)
(* loop looks at native_render_run.  The window's close button does not    *)
(* end it: close_window_callback only asks for a shutdown.                 *)
M_Again ==
  /\ M_At("next", "poll")
  /\ UNCHANGED <<native_render_run, main_display_gbuffer, is_lock, events, window_need_refresh,
                 init, child, cvars, aim, gbuffer, halt, frame, strayed>>

M_FrameTime ==
  /\ M_At("next", IF native_render_run = 2 THEN "poll" ELSE "close")
  /\ UNCHANGED <<native_render_run, main_display_gbuffer, is_lock, events, window_need_refresh,
                 init, child, cvars, aim, gbuffer, halt, frame, strayed>>

M_Close ==
  /\ M_At("close", "off")
  /\ native_render_run' = 0
  /\ UNCHANGED <<main_display_gbuffer, is_lock, events, window_need_refresh, init, child, cvars,
                 aim, gbuffer, halt, frame, strayed>>

opengl_paint_composer_gbuffer == M_Null \/ M_Aim \/ M_Miss \/ M_Lock \/ M_Read \/ M_Unlock

native_window_thread ==
  \/ M_Create \/ M_PollEvents(FALSE) \/ M_Input \/ (\E e \in events : M_Event(e)) \/ M_NoEvent \/ M_Test
  \/ opengl_paint_composer_gbuffer \/ M_FrameTime \/ M_Close

-------------------------------------------------------------------------------
(* shutdown_notify_callback, which M itself registers: it clears the       *)
(* pointer, then tells a running window thread to stop.                    *)
ShutdownClear ==
  /\ halt = "no" /\ native_render_run = 2
  /\ halt' = "clear" /\ main_display_gbuffer' = NoBuf
  /\ UNCHANGED <<native_render_run, is_lock, events, window_need_refresh, init, child, cvars,
                 mvars, frame, strayed>>

ShutdownRun ==
  /\ halt = "clear"
  /\ halt' = "done"
  /\ native_render_run' = IF native_render_run = 2 THEN -1 ELSE native_render_run
  /\ UNCHANGED <<main_display_gbuffer, is_lock, events, window_need_refresh, init, child, cvars,
                 mvars, frame, strayed>>

DisplayNext ==
  \/ \E s \in Starters : context_init(s)
  \/ C_Child \/ C_Ready \/ Commit \/ display_present
  \/ native_window_thread \/ M_CreateFails \/ M_PollEvents(TRUE) \/ M_Again
  \/ ShutdownClear \/ ShutdownRun

DisplaySpec == DisplayInit /\ [][DisplayNext]_dispvars

(* The host's threads go on.  A thread that spins on is_lock tries without *)
(* a pause and the other holds it for moments only: some attempt begins,   *)
(* and ends, while the lock is free.  In the same way M, which handles an  *)
(* event in no time, finds its queue empty between two frames of C.  A     *)
(* frame time passes.  The guest need not commit, and nobody need resize   *)
(* the window or shut down.                                                *)
DisplayFairSpec ==
  /\ DisplaySpec
  /\ \A s \in Starters : WF_dispvars(context_init(s))
  /\ WF_dispvars(C_Child \/ C_Ready \/ display_present)
  /\ WF_dispvars(native_window_thread)
  /\ SF_dispvars(M_NoEvent)
  /\ SF_dispvars(C_Lock)
  /\ SF_dispvars(M_Aim /\ main_display_gbuffer # NoBuf /\ ~is_lock[main_display_gbuffer])
  /\ SF_dispvars(M_Lock)

-------------------------------------------------------------------------------
(* "the main thread will not access it, so it need not be locked": what C  *)
(* draws into is not what M is painting, until M has once locked the       *)
(* gbuffer that was main_display_gbuffer before a present and painted the  *)
(* one after it.                                                           *)
PaintedIsNotDrawn ==
  mpc = "paint" /\ cpc = "draw" /\ gbuffer = write => strayed

(* A frame that the guest commits is painted, or a later one is, although  *)
(* C and M wait for each other's locks and refreshes are asked for and     *)
(* cleared by different threads; unless M has strayed or the machine shuts *)
(* down.                                                                   *)
FrameIsShown == []<>(frame = "shown" \/ strayed \/ halt # "no")
===============================================================================
