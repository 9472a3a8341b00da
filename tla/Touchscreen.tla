----------------------------- MODULE Touchscreen ------------------------------
(***************************************************************************)
(* The fingers of the virtual touch screen (express_touchscreen.c).  The   *)
(* buttons of the mouse, its wheel, real touches and replays of recorded   *)
(* strokes (which keys start and stop, express_keyboard.c) each hold       *)
(* fingers of the MAX_TOUCH_POINT the guest is shown.  All of it runs on   *)
(* the window thread: a callback is one step.                              *)
(*                                                                         *)
(* Positions are left out.  So is the count of polls after which a touch   *)
(* without an event is released: the touch may expire at any poll.         *)
(***************************************************************************)
EXTENDS Integers, FiniteSetsExt

CONSTANTS MaxTouchPoint,      \* MAX_TOUCH_POINT
          TouchIds,           \* touches of the real screen
          Records,            \* keys that have a record slot
          RightIsTwo          \* express_touchscreen_right_click_is_two_finger

ASSUME TouchPointAssumption == MaxTouchPoint \in Nat \ {0} /\ RightIsTwo \in BOOLEAN

Fingers == 0 .. MaxTouchPoint - 1
Buttons == {"left", "right"}
Mouse   == {"left", "right", "right2", "scroll1", "scroll2"}
Holders == Mouse \cup TouchIds \cup Records

ASSUME HoldersAssumption ==
  /\ "none" \notin Holders
  /\ Mouse \cap (TouchIds \cup Records) = {} /\ TouchIds \cap Records = {}

VARIABLES
  screen,             \* finger_used, is_touched, touch_cnt and need_sync
  finger,             \* holder -> the finger it has, or had, or -1
  press,              \* left_mouse_press, right_mouse_press
  down,               \* the buttons that are down, as GLFW knows
  is_scrolling,
  now_record_index, now_record_cnt,    \* none is -1; the count is 0 or more
  finger_is_record, finger_is_replay, blank,   \* per record; blank: stroke of length 0
  stray               \* history: why a finger may be shared or lost

records == <<now_record_index, now_record_cnt, finger_is_record, finger_is_replay, blank>>
tvars == <<screen, finger, press, down, is_scrolling, records, stray>>

TouchTypeOK ==
  /\ screen \in [used : SUBSET Fingers, touched : SUBSET Fingers,
                 touch_cnt : 0 .. MaxTouchPoint, need_sync : BOOLEAN]
  /\ finger \in [Holders -> Fingers \cup {-1}]
  /\ press \in SUBSET Buttons /\ down \in SUBSET Buttons /\ is_scrolling \in BOOLEAN
  /\ now_record_index \in Records \cup {"none"} /\ now_record_cnt \in 0 .. 1
  /\ finger_is_record \in SUBSET Records /\ finger_is_replay \in SUBSET Records
  /\ blank \in SUBSET Records
  /\ stray \in BOOLEAN

(* The fingers of the records are zeroed memory; the others begin as -1.   *)
TouchInit ==
  /\ screen = [used |-> {}, touched |-> {}, touch_cnt |-> 0, need_sync |-> FALSE]
  /\ finger = [h \in Holders |-> IF h \in Records THEN 0 ELSE -1]
  /\ press = {} /\ down = {} /\ is_scrolling = FALSE
  /\ now_record_index = "none" /\ now_record_cnt = 0
  /\ finger_is_record = {} /\ finger_is_replay = {} /\ blank = {}
  /\ stray = FALSE

-------------------------------------------------------------------------------
get_next_avali_finger(s) == IF Fingers \subseteq s.used THEN -1 ELSE Min(Fingers \ s.used)

(* Mutant: the finger that was found is not marked.                        *)
UseForgotten(s, f) == s

(* finger_used of the finger that was found.                               *)
Use(s, f) == [s EXCEPT !.used = @ \cup ({f} \cap Fingers)]

set_express_touchscreen_input(s, f, is_touched) ==
  IF f \notin Fingers THEN s
  ELSE [s EXCEPT !.touch_cnt = Max({@, f + 1}),
                 !.touched = IF is_touched THEN @ \cup {f} ELSE @ \ {f},
                 !.need_sync = @ \/ is_touched \/ f \in s.touched]

release_finger(s, f) ==
  [s EXCEPT !.touched = @ \ {f}, !.used = @ \ {f}, !.need_sync = @ \/ f \in s.touched]

(* A finger is lifted and given back.                                      *)
Lift(s, f) == release_finger(set_express_touchscreen_input(s, f, FALSE), f)

(* Every other event of the mouse ends a scrolling.                        *)
EndScroll(s) ==
  IF is_scrolling THEN Lift(Lift(s, finger["scroll1"]), finger["scroll2"]) ELSE s
ScrollEnds ==
  IF is_scrolling THEN [finger EXCEPT !["scroll1"] = -1, !["scroll2"] = -1] ELSE finger

-------------------------------------------------------------------------------
(* The fingers a pressed button moves.                                     *)
Second == IF RightIsTwo THEN finger["right2"] ELSE -1

express_touchscreen_mouse_move_handle ==
  LET s1 == EndScroll(screen)
      s2 == IF "left" \in press THEN set_express_touchscreen_input(s1, finger["left"], TRUE) ELSE s1
  IN /\ screen' = IF "right" \in press
                  THEN set_express_touchscreen_input(
                         set_express_touchscreen_input(s2, finger["right"], TRUE), Second, TRUE)
                  ELSE s2
     /\ finger' = ScrollEnds
     /\ is_scrolling' = FALSE
     /\ UNCHANGED <<press, down, records, stray>>

(* express_touchscreen_mouse_click_handle                                  *)
PressLeft ==
  LET s == EndScroll(screen)
      f == get_next_avali_finger(s)
  IN /\ "left" \notin down
     /\ down' = down \cup {"left"} /\ press' = press \cup {"left"}
     /\ screen' = set_express_touchscreen_input(Use(s, f), f, TRUE)
     /\ finger' = [ScrollEnds EXCEPT !["left"] = f]
     /\ is_scrolling' = FALSE
     /\ UNCHANGED <<records, stray>>

PressRight ==
  LET s  == EndScroll(screen)
      f  == get_next_avali_finger(s)
      s1 == Use(s, f)
      g  == IF RightIsTwo THEN get_next_avali_finger(s1) ELSE -1
  IN /\ "right" \notin down
     /\ down' = down \cup {"right"} /\ press' = press \cup {"right"}
     /\ screen' = set_express_touchscreen_input(
                    set_express_touchscreen_input(Use(s1, g), f, TRUE), g, TRUE)
     /\ finger' = [ScrollEnds EXCEPT !["right"] = f,
                                     !["right2"] = IF RightIsTwo THEN g ELSE @]
     /\ is_scrolling' = FALSE
     /\ UNCHANGED <<records, stray>>

(* The variable keeps the number of the finger.                            *)
ReleaseLeft ==
  /\ "left" \in down
  /\ down' = down \ {"left"} /\ press' = press \ {"left"}
  /\ screen' = Lift(EndScroll(screen), finger["left"])
  /\ finger' = ScrollEnds
  /\ is_scrolling' = FALSE
  /\ UNCHANGED <<records, stray>>

ReleaseRight ==
  /\ "right" \in down
  /\ down' = down \ {"right"} /\ press' = press \ {"right"}
  /\ screen' = Lift(Lift(EndScroll(screen), finger["right"]), Second)
  /\ finger' = ScrollEnds
  /\ is_scrolling' = FALSE
  /\ UNCHANGED <<records, stray>>

(* With scroll_is_zoom the wheel spreads two fingers.                      *)
express_touchscreen_mouse_scroll_handle ==
  LET f1 == IF finger["scroll1"] = -1 THEN get_next_avali_finger(screen) ELSE finger["scroll1"]
      s1 == Use(screen, f1)
      f2 == IF finger["scroll1"] = -1 THEN get_next_avali_finger(s1) ELSE finger["scroll2"]
  IN /\ screen' = set_express_touchscreen_input(
                    set_express_touchscreen_input(Use(s1, f2), f1, TRUE), f2, TRUE)
     /\ finger' = [finger EXCEPT !["scroll1"] = f1, !["scroll2"] = f2]
     /\ is_scrolling' = TRUE
     /\ UNCHANGED <<press, down, records, stray>>

(* express_touchscreen_touch_handle: without a finger a touch is ignored.  *)
Touch(t) ==
  LET f == IF finger[t] = -1 THEN get_next_avali_finger(screen) ELSE finger[t]
  IN /\ f # -1
     /\ screen' = set_express_touchscreen_input(Use(screen, f), f, TRUE)
     /\ finger' = [finger EXCEPT ![t] = f]
     /\ UNCHANGED <<press, down, is_scrolling, records, stray>>

Untouch(t) ==
  /\ finger[t] # -1
  /\ screen' = Lift(screen, finger[t])
  /\ finger' = [finger EXCEPT ![t] = -1]
  /\ UNCHANGED <<press, down, is_scrolling, records, stray>>

(* express_touchscreen_entered_handle: the pointer leaves the window with  *)
(* a button pressed.  reset_touchscreen_input takes every finger that was  *)
(* ever shown to the guest back; a replay that has not been shown yet      *)
(* forgets its finger, which stays used.                                   *)
reset_touchscreen_input ==
  /\ press # {}
  /\ LET Shown == 0 .. screen.touch_cnt - 1
     IN /\ screen' = [screen EXCEPT !.need_sync = @ \/ screen.touched \cap Shown # {},
                                    !.touched = @ \ Shown, !.used = @ \ Shown]
        /\ stray' = (stray \/ ~(screen.used \subseteq Shown))
  /\ finger' = [h \in Holders |-> -1]
  /\ press' = {}
  /\ UNCHANGED <<down, is_scrolling, records>>

-------------------------------------------------------------------------------
(* The keyboard's part (express_keyboard_handle_callback): a key with ALT  *)
(* starts and ends a record, the key alone its replay.  ALT may go up or   *)
(* down between the press and the release of the key.                      *)

(* What is reset belongs to the record that was being made: a replay of it *)
(* forgets its finger, which stays used and touched.                       *)
start_mouse_record(k) ==
  /\ LET old == now_record_index
     IN /\ finger_is_record' = finger_is_record \ {old}
        /\ finger' = [h \in Holders |-> IF h = old THEN -1 ELSE finger[h]]
        /\ stray' = (stray \/ old \in finger_is_replay)
  /\ now_record_index' = k /\ now_record_cnt' = 0
  /\ UNCHANGED <<screen, press, down, is_scrolling, finger_is_replay, blank>>

(* The end mark goes behind the last position, if any.                     *)
stop_mouse_record ==
  /\ now_record_index # "none"
  /\ blank' = IF now_record_cnt = 0 THEN blank \cup {now_record_index} ELSE blank
  /\ now_record_index' = "none"
  /\ UNCHANGED <<screen, finger, press, down, is_scrolling, now_record_cnt, finger_is_record,
                 finger_is_replay, stray>>

(* A finger is taken if the record has none.  Its first replay uses finger *)
(* 0, the zero of the memory, without taking it.                           *)
start_mouse_replay(k) ==
  LET f == IF finger[k] = -1 THEN get_next_avali_finger(screen) ELSE finger[k]
  IN /\ k \in finger_is_record \ blank
     /\ finger' = [finger EXCEPT ![k] = f]
     /\ screen' = IF finger[k] = -1 THEN Use(screen, f) ELSE screen
     /\ finger_is_replay' = IF f = -1 THEN finger_is_replay ELSE finger_is_replay \cup {k}
     /\ stray' = (stray \/ (finger[k] # -1 /\ k \notin finger_is_replay))
     /\ UNCHANGED <<press, down, is_scrolling, now_record_index, now_record_cnt,
                    finger_is_record, blank>>

stop_mouse_replay(k) ==
  /\ k \in finger_is_record \cap finger_is_replay
  /\ screen' = Lift(screen, finger[k])
  /\ finger' = [finger EXCEPT ![k] = -1]
  /\ finger_is_replay' = finger_is_replay \ {k}
  /\ UNCHANGED <<press, down, is_scrolling, now_record_index, now_record_cnt,
                 finger_is_record, blank, stray>>

-------------------------------------------------------------------------------
(* The first half of sync_express_touchscreen_input, at every poll: a      *)
(* record goes on (record_mouse_pos), replays move their fingers           *)
(* (keep_mouse_replaying), and the touches in old are released.            *)
Recording == now_record_index # "none" /\ "left" \in press

Replayed(s, replays) ==
  LET Moved == {finger[k] : k \in replays} \ {-1}
  IN IF Moved = {} THEN s
     ELSE [s EXCEPT !.touched = @ \cup Moved, !.need_sync = TRUE,
                    !.touch_cnt = Max({@, Max(Moved) + 1})]

Expired(s, old) ==
  LET Gone == {finger[t] : t \in old}
  IN [s EXCEPT !.touched = @ \ Gone, !.used = @ \ Gone,
               !.need_sync = @ \/ s.touched \cap Gone # {}]

Poll(old) ==
  /\ old \subseteq {t \in TouchIds : finger[t] # -1}
  /\ finger_is_record' = IF Recording THEN finger_is_record \cup {now_record_index}
                         ELSE finger_is_record
  /\ now_record_cnt' = IF Recording THEN 1 ELSE now_record_cnt
  /\ blank' = IF Recording THEN blank \ {now_record_index} ELSE blank
  /\ screen' = Expired(Replayed(screen, finger_is_record' \cap finger_is_replay), old)
  /\ finger' = [h \in Holders |-> IF h \in old THEN -1 ELSE finger[h]]
  /\ UNCHANGED <<press, down, is_scrolling, now_record_index, finger_is_replay, stray>>

UserEvent ==
  \/ express_touchscreen_mouse_move_handle
  \/ PressLeft \/ ReleaseLeft \/ PressRight \/ ReleaseRight
  \/ express_touchscreen_mouse_scroll_handle
  \/ \E t \in TouchIds : Touch(t) \/ Untouch(t)
  \/ reset_touchscreen_input
  \/ \E k \in Records : start_mouse_record(k) \/ start_mouse_replay(k) \/ stop_mouse_replay(k)
  \/ stop_mouse_record

-------------------------------------------------------------------------------
(* The holders that have a finger now: a button's number is stale when the *)
(* button is not pressed.                                                  *)
Live(h) ==
  /\ finger[h] # -1
  /\ CASE h = "left" -> "left" \in press
       [] h \in {"right", "right2"} -> "right" \in press
       [] h \in Records -> h \in finger_is_replay
       [] OTHER -> TRUE

(* No two of the mouse, the wheel, the touches and the replays ever have   *)
(* the same finger, and every finger that is taken, or shown to the guest  *)
(* as touching, belongs to one of them that will lift it, so the fingers   *)
(* do not run out; in whatever order they begin, end, expire and are       *)
(* reset.  Until the first replay of a record, which uses finger 0 without *)
(* taking it, or until a replay is forgotten, by a reset before the guest  *)
(* was shown its finger or by a second start of its record.                *)
FingerHeldOnce ==
  LET Owners == {h \in Holders : Live(h)}
  IN \/ /\ \A h, k \in Owners : finger[h] = finger[k] => h = k
        /\ screen.used \cup screen.touched \subseteq {finger[h] : h \in Owners}
     \/ stray
===============================================================================
