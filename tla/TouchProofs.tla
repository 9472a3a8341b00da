------------------------------ MODULE TouchProofs -----------------------------
(***************************************************************************)
(* The fingers of the touch screen (Touchscreen, as TouchInput runs it):   *)
(* for any number of fingers, touches and records, no two of the mouse,    *)
(* the wheel, the touches and the replays have the same finger and none is *)
(* lost.                                                                   *)
(***************************************************************************)
EXTENDS TouchInput, WellFoundedInduction, TLAPS

(* The natural numbers are well-founded, so a nonempty set of them has a   *)
(* least element.                                                          *)
LEMMA LessIsWellFounded == IsWellFoundedOn({p \in Nat \X Nat : p[1] < p[2]}, Nat)
BY NatLessThanWellFounded, Zenon DEF OpToRel

LEMMA LeastElement ==
  ASSUME NEW S \in SUBSET Nat, S # {}
  PROVE  \E i \in S : \A j \in S : i <= j
<1>1. PICK i \in S : \A j \in S : <<j, i>> \notin {p \in Nat \X Nat : p[1] < p[2]}
  BY LessIsWellFounded, WFMin, Zenon
<1>2. ASSUME NEW j \in S PROVE i <= j
  <2>1. ~(j < i)
    BY <1>1, Zenon
  <2> QED  BY <2>1
<1> QED  BY <1>2

(* What a holder has now: a button's number is stale when the button is    *)
(* not pressed, a record's when it is not being replayed.                  *)
HasOf(numbers, pressed, replays) ==
  [h \in Holders |->
     IF \/ h = "left" /\ "left" \notin pressed
        \/ h \in {"right", "right2"} /\ "right" \notin pressed
        \/ h \in Records /\ h \notin replays
     THEN -1 ELSE numbers[h]]

Has == HasOf(finger, press, finger_is_replay)

(* The fingers used are those that holders have, each one once, and only   *)
(* those are shown as touching.                                            *)
Owned(has, used, touched) ==
  /\ has \in [Holders -> Fingers \cup {-1}]
  /\ \A h, k \in Holders : has[h] = has[k] /\ has[h] # -1 => h = k
  /\ \A f \in used : f # -1 /\ \E h \in Holders : has[h] = f
  /\ \A h \in Holders : has[h] # -1 => has[h] \in used
  /\ touched \subseteq used

(* The rest of what the callbacks rely on: a button that is down but not   *)
(* pressed has been reset, and the two fingers of the wheel come and go    *)
(* together.                                                               *)
Screen(s) ==
  /\ DOMAIN s = {"used", "touched", "touch_cnt", "need_sync"}
  /\ s = [x \in DOMAIN s |-> s[x]]

TouchAux ==
  /\ finger \in [Holders -> Fingers \cup {-1}]
  /\ press \subseteq down
  /\ "left" \in down \ press => finger["left"] = -1
  /\ "right" \in down \ press => finger["right"] = -1 /\ finger["right2"] = -1
  /\ ~RightIsTwo => finger["right2"] = -1
  /\ ~is_scrolling => finger["scroll1"] = -1
  /\ finger["scroll1"] = -1 => finger["scroll2"] = -1
  /\ finger_is_replay \subseteq Records /\ now_record_index \in Records \cup {"none"}

TouchIInv ==
  Screen(screen) /\ TouchAux /\ (stray \/ Owned(Has, screen.used, screen.touched))

(* So a free finger is found when there is one.                            *)
LEMMA LeastFinger ==
  ASSUME NEW S \in SUBSET Fingers, S # {}
  PROVE  Min(S) \in S
<1>1. S \in SUBSET Nat
  BY TouchPointAssumption DEF Fingers
<1>2. \E i \in S : \A j \in S : i <= j
  BY <1>1, LeastElement
<1> QED  BY <1>2, Zenon DEF Min

LEMMA NextFinger ==
  ASSUME NEW s, NEW f, f = get_next_avali_finger(s)
  PROVE  f = -1 \/ f \in Fingers \ s.used
<1>1. CASE Fingers \subseteq s.used
  BY <1>1 DEF get_next_avali_finger
<1>2. CASE ~(Fingers \subseteq s.used)
  <2>1. Min(Fingers \ s.used) \in Fingers \ s.used
    BY <1>2, LeastFinger
  <2> QED  BY <1>2, <2>1 DEF get_next_avali_finger
<1> QED  BY <1>1, <1>2

LEMMA UseScreen ==
  ASSUME NEW s, Screen(s), NEW f
  PROVE  /\ Screen(Use(s, f))
         /\ Use(s, f).used = s.used \cup ({f} \cap Fingers)
         /\ Use(s, f).touched = s.touched
BY DEF Screen, Use

LEMMA InputScreen ==
  ASSUME NEW s, Screen(s), NEW f, NEW b \in BOOLEAN
  PROVE  LET r == set_express_touchscreen_input(s, f, b)
         IN /\ Screen(r)
            /\ r.used = s.used
            /\ r.touched = IF f \notin Fingers THEN s.touched
                           ELSE IF b THEN s.touched \cup {f} ELSE s.touched \ {f}
<1>1. CASE f \notin Fingers BY <1>1 DEF set_express_touchscreen_input
<1>2. CASE f \in Fingers BY <1>2, Zenon DEF Screen, set_express_touchscreen_input
<1> QED BY <1>1, <1>2

LEMMA ReleaseScreen ==
  ASSUME NEW s, Screen(s), NEW f
  PROVE  /\ Screen(release_finger(s, f))
         /\ release_finger(s, f).used = s.used \ {f}
         /\ release_finger(s, f).touched = s.touched \ {f}
BY Zenon DEF Screen, release_finger

LEMMA LiftScreen ==
  ASSUME NEW s, Screen(s), NEW f
  PROVE  /\ Screen(Lift(s, f))
         /\ Lift(s, f).used = s.used \ {f}
         /\ Lift(s, f).touched = s.touched \ {f}
<1> DEFINE r == set_express_touchscreen_input(s, f, FALSE)
<1>1. /\ Screen(r) /\ r.used = s.used
      /\ r.touched = IF f \notin Fingers THEN s.touched ELSE s.touched \ {f}
  BY InputScreen, Zenon
<1> HIDE DEF r
<1>2. /\ Screen(release_finger(r, f)) /\ release_finger(r, f).used = r.used \ {f}
      /\ release_finger(r, f).touched = r.touched \ {f}
  BY <1>1, ReleaseScreen
<1>3. Lift(s, f) = release_finger(r, f) BY DEF Lift, r
<1> QED BY <1>1, <1>2, <1>3

(* A holder that has no finger takes a free one, one that has a finger     *)
(* shows it to the guest, and gives it back.                               *)
LEMMA Takes ==
  ASSUME NEW has, NEW used, NEW touched, Owned(has, used, touched),
         NEW h \in Holders, has[h] = -1, NEW f, f = -1 \/ f \in Fingers \ used,
         NEW u, u = used \cup ({f} \cap Fingers)
  PROVE  Owned([has EXCEPT ![h] = f], u, touched)
<1> DEFINE new == [has EXCEPT ![h] = f]
<1>1. has \in [Holders -> Fingers \cup {-1}] BY DEF Owned
<1>2. new \in [Holders -> Fingers \cup {-1}] BY <1>1
<1>3. -1 \notin Fingers BY DEF Fingers
<1>4. \A k \in Holders : new[k] = IF k = h THEN f ELSE has[k] BY <1>1
<1> HIDE DEF new
<1>5. \A g, k \in Holders : new[g] = new[k] /\ new[g] # -1 => g = k
  BY <1>3, <1>4 DEF Owned
<1>6. \A g \in used \cup ({f} \cap Fingers) : g # -1 /\ \E k \in Holders : new[k] = g
  <2> SUFFICES ASSUME NEW g \in used \cup ({f} \cap Fingers)
               PROVE  g # -1 /\ \E k \in Holders : new[k] = g
    OBVIOUS
  <2>1. CASE g \in used
    <3>1. PICK k \in Holders : g # -1 /\ has[k] = g BY <2>1 DEF Owned
    <3>2. k # h BY <3>1
    <3> QED BY <1>4, <3>1, <3>2
  <2>2. CASE g \in {f} \cap Fingers BY <2>2, <1>3, <1>4
  <2> QED BY <2>1, <2>2
<1>7. \A k \in Holders : new[k] # -1 => new[k] \in used \cup ({f} \cap Fingers)
  BY <1>4 DEF Owned
<1> QED BY <1>2, <1>5, <1>6, <1>7 DEF Owned, new

LEMMA Gives ==
  ASSUME NEW has, NEW used, NEW touched, Owned(has, used, touched), NEW h \in Holders,
         NEW u, u = used \ {has[h]}, NEW t, t = touched \ {has[h]}
  PROVE  Owned([has EXCEPT ![h] = -1], u, t)
<1> DEFINE new == [has EXCEPT ![h] = -1]
<1>1. has \in [Holders -> Fingers \cup {-1}] BY DEF Owned
<1>2. new \in [Holders -> Fingers \cup {-1}] BY <1>1
<1>4. \A k \in Holders : new[k] = IF k = h THEN -1 ELSE has[k] BY <1>1
<1> HIDE DEF new
<1>5. \A g, k \in Holders : new[g] = new[k] /\ new[g] # -1 => g = k
  BY <1>4 DEF Owned
<1>6. \A g \in used \ {has[h]} : g # -1 /\ \E k \in Holders : new[k] = g
  <2> SUFFICES ASSUME NEW g \in used \ {has[h]}
               PROVE  g # -1 /\ \E k \in Holders : new[k] = g
    OBVIOUS
  <2>1. PICK k \in Holders : g # -1 /\ has[k] = g BY DEF Owned
  <2>2. k # h BY <2>1
  <2> QED BY <1>4, <2>1, <2>2
<1>7. \A k \in Holders : new[k] # -1 => new[k] \in used \ {has[h]}
  BY <1>4 DEF Owned
<1> QED BY <1>2, <1>5, <1>6, <1>7 DEF Owned, new

LEMMA Shows ==
  ASSUME NEW has, NEW used, NEW touched, Owned(has, used, touched), NEW h \in Holders,
         NEW t, t = IF has[h] \notin Fingers THEN touched ELSE touched \cup {has[h]}
  PROVE  Owned(has, used, t)
<1>1. has[h] \in Fingers => has[h] \in used BY DEF Owned, Fingers
<1> QED BY <1>1 DEF Owned

LEMMA GivesAll ==
  ASSUME NEW has, NEW used, NEW touched, Owned(has, used, touched),
         NEW S, S \subseteq Holders, NEW gone, gone = {has[h] : h \in S},
         NEW u, u = used \ gone, NEW t, t = touched \ gone,
         NEW new, new = [h \in Holders |-> IF h \in S THEN -1 ELSE has[h]]
  PROVE  Owned(new, u, t)
<1>1. has \in [Holders -> Fingers \cup {-1}]
  BY DEF Owned
<1>2. new \in [Holders -> Fingers \cup {-1}]
  BY <1>1
<1>3. \A k \in Holders : new[k] = IF k \in S THEN -1 ELSE has[k]
  OBVIOUS
<1>4. \A g, k \in Holders : new[g] = new[k] /\ new[g] # -1 => g = k
  BY <1>3 DEF Owned
<1>5. ASSUME NEW g \in used \ gone
      PROVE  g # -1 /\ \E k \in Holders : new[k] = g
  <2>1. PICK k \in Holders : g # -1 /\ has[k] = g
    BY DEF Owned
  <2>2. k \notin S
    BY <2>1
  <2> QED  BY <1>3, <2>1, <2>2
<1>6. ASSUME NEW k \in Holders, new[k] # -1
      PROVE  new[k] \in used \ gone
  <2>1. k \notin S /\ new[k] = has[k]
    BY <1>3, <1>6
  <2>2. has[k] \in used
    BY <1>6, <2>1 DEF Owned
  <2>3. ASSUME NEW h \in S, has[h] = has[k] PROVE FALSE
    BY <1>6, <2>1, <2>3 DEF Owned
  <2> QED  BY <2>1, <2>2, <2>3
<1> QED  BY <1>2, <1>4, <1>5, <1>6 DEF Owned

(* What the holders have, by the names of the callbacks.                   *)
HasAre(has, numbers, pressed, replays) ==
  /\ has["left"] = IF "left" \in pressed THEN numbers["left"] ELSE -1
  /\ has["right"] = IF "right" \in pressed THEN numbers["right"] ELSE -1
  /\ has["right2"] = IF "right" \in pressed THEN numbers["right2"] ELSE -1
  /\ has["scroll1"] = numbers["scroll1"] /\ has["scroll2"] = numbers["scroll2"]
  /\ \A t \in TouchIds : has[t] = numbers[t]
  /\ \A k \in Records : has[k] = IF k \in replays THEN numbers[k] ELSE -1

LEMMA HasAt ==
  ASSUME NEW numbers, NEW pressed, NEW replays
  PROVE  HasAre(HasOf(numbers, pressed, replays), numbers, pressed, replays)
<1> DEFINE has == HasOf(numbers, pressed, replays)
<1>1. /\ {"left", "right", "right2", "scroll1", "scroll2"} \cap (TouchIds \cup Records) = {}
      /\ TouchIds \cap Records = {}
  BY HoldersAssumption DEF Mouse
<1>3. \A h \in Holders : has[h] =
        IF \/ h = "left" /\ "left" \notin pressed
           \/ h \in {"right", "right2"} /\ "right" \notin pressed
           \/ h \in Records /\ h \notin replays
        THEN -1 ELSE numbers[h]
  BY DEF HasOf
<1>4. {"left", "right", "right2", "scroll1", "scroll2"} \cup TouchIds \cup Records = Holders
  BY DEF Holders, Mouse
<1> HIDE DEF has
<1>5. HasAre(has, numbers, pressed, replays)
  BY <1>1, <1>3, <1>4 DEF HasAre
<1> QED  BY <1>5 DEF has

LEMMA HasIs ==
  ASSUME NEW numbers, NEW pressed, NEW replays, NEW has \in [Holders -> Fingers \cup {-1}],
         HasAre(has, numbers, pressed, replays)
  PROVE  HasOf(numbers, pressed, replays) = has
<1> DEFINE new == HasOf(numbers, pressed, replays)
<1>1. HasAre(new, numbers, pressed, replays)
  BY HasAt
<1>2. new = [h \in Holders |-> new[h]]
  BY DEF HasOf
<1>3. {"left", "right", "right2", "scroll1", "scroll2"} \cup TouchIds \cup Records = Holders
  BY DEF Holders, Mouse
<1> HIDE DEF new
<1>4. ASSUME NEW h \in Holders PROVE new[h] = has[h]
  BY <1>1, <1>3 DEF HasAre
<1>5. new = has
  BY <1>2, <1>4
<1> QED  BY <1>5 DEF new

LEMMA HasNow ==
  ASSUME TouchAux
  PROVE  /\ Has \in [Holders -> Fingers \cup {-1}]
         /\ HasAre(Has, finger, press, finger_is_replay)
<1>1. Has \in [Holders -> Fingers \cup {-1}]
  BY DEF Has, HasOf, TouchAux
<1>2. HasAre(Has, finger, press, finger_is_replay)
  BY HasAt DEF Has
<1> QED  BY <1>1, <1>2

(* The names are different and are holders.                                *)
Names ==
  /\ {"left", "right", "right2", "scroll1", "scroll2"} \cup TouchIds \cup Records = Holders
  /\ {"left", "right", "right2", "scroll1", "scroll2"} \cap (TouchIds \cup Records) = {}
  /\ TouchIds \cap Records = {}

LEMMA NamesHold == Names
BY HoldersAssumption DEF Names, Holders, Mouse

(* The end of a scrolling.                                                 *)
Unscrolled == [[Has EXCEPT !["scroll1"] = -1] EXCEPT !["scroll2"] = -1]

LEMMA ScrollDone ==
  ASSUME TouchIInv
  PROVE  /\ Screen(EndScroll(screen))
         /\ ~stray => Owned(Unscrolled, EndScroll(screen).used, EndScroll(screen).touched)
         /\ ScrollEnds = [finger EXCEPT !["scroll1"] = -1, !["scroll2"] = -1]
<1> DEFINE a == finger["scroll1"]
           b == finger["scroll2"]
           s1 == Lift(screen, a)
           s2 == Lift(s1, b)
<1>1. /\ Has \in [Holders -> Fingers \cup {-1}]
      /\ Has["scroll1"] = a /\ Has["scroll2"] = b
      /\ "scroll1" \in Holders /\ "scroll2" \in Holders
  BY HasNow DEF TouchIInv, HasAre, Holders, Mouse
<1>2. CASE is_scrolling
  <2>1. /\ Screen(s1) /\ s1.used = screen.used \ {a} /\ s1.touched = screen.touched \ {a}
    BY LiftScreen DEF TouchIInv
  <2> HIDE DEF s1
  <2>2. /\ Screen(s2) /\ s2.used = s1.used \ {b} /\ s2.touched = s1.touched \ {b}
    BY <2>1, LiftScreen
  <2>3. EndScroll(screen) = s2
    BY <1>2 DEF EndScroll, s1
  <2> HIDE DEF s2, a, b
  <2>4. ASSUME ~stray PROVE Owned(Unscrolled, s2.used, s2.touched)
    <3> DEFINE H == [Has EXCEPT !["scroll1"] = -1]
    <3>1. Owned(H, s1.used, s1.touched)
      BY <1>1, <2>1, <2>4, Gives, Zenon DEF TouchIInv
    <3>2. H["scroll2"] = b
      BY <1>1
    <3> HIDE DEF H
    <3>3. Owned([H EXCEPT !["scroll2"] = -1], s2.used, s2.touched)
      BY <1>1, <2>2, <3>1, <3>2, Gives
    <3> QED  BY <3>3 DEF Unscrolled, H
  <2> QED  BY <1>2, <2>2, <2>3, <2>4 DEF ScrollEnds
<1>3. CASE ~is_scrolling
  <2>1. a = -1 /\ b = -1
    BY <1>3 DEF TouchIInv, TouchAux
  <2>2. Unscrolled = Has
    BY <1>1, <2>1 DEF Unscrolled
  <2>3. finger = [finger EXCEPT !["scroll1"] = -1, !["scroll2"] = -1]
    BY <2>1 DEF TouchIInv, TouchAux
  <2> QED  BY <1>3, <2>2, <2>3 DEF TouchIInv, EndScroll, ScrollEnds
<1> QED  BY <1>2, <1>3

(* Each callback keeps the invariant: what its screen operations do to the *)
(* used and touched fingers is what it does to what the holders have.      *)
LEMMA PressLeftKeeps ==
  ASSUME TouchIInv, PressLeft
  PROVE  TouchIInv'
<1> DEFINE s == EndScroll(screen)
           f == get_next_avali_finger(s)
           s1 == Use(s, f)
           s2 == set_express_touchscreen_input(s1, f, TRUE)
           H == [Unscrolled EXCEPT !["left"] = f]
<1>1. /\ Screen(s) /\ (~stray => Owned(Unscrolled, s.used, s.touched))
      /\ finger' = [[finger EXCEPT !["scroll1"] = -1, !["scroll2"] = -1] EXCEPT !["left"] = f]
      /\ finger \in [Holders -> Fingers \cup {-1}]
  BY ScrollDone, Zenon DEF PressLeft, TouchIInv, TouchAux
<1>2. f = -1 \/ f \in Fingers \ s.used
  BY NextFinger
<1>3. /\ screen' = s2 /\ "left" \notin down /\ stray' = stray
      /\ press' = press \cup {"left"} /\ down' = down \cup {"left"}
      /\ is_scrolling' = FALSE /\ UNCHANGED <<finger_is_replay, now_record_index>>
  BY DEF PressLeft, records
<1>4. /\ Has \in [Holders -> Fingers \cup {-1}] /\ Unscrolled["left"] = -1
      /\ Unscrolled \in [Holders -> Fingers \cup {-1}]
  BY <1>3, HasNow, NamesHold DEF TouchIInv, TouchAux, HasAre, Names, Unscrolled
<1> HIDE DEF s, f
<1>5. Screen(s1) /\ s1.used = s.used \cup ({f} \cap Fingers) /\ s1.touched = s.touched
  BY <1>1, UseScreen
<1> HIDE DEF s1
<1>6. /\ Screen(s2) /\ s2.used = s1.used
      /\ s2.touched = IF f \notin Fingers THEN s1.touched ELSE s1.touched \cup {f}
  BY <1>5, InputScreen, Zenon
<1> HIDE DEF s2
<1>7. ASSUME ~stray PROVE Owned(H, s2.used, s2.touched)
  <2>1. Owned(H, s1.used, s1.touched)
    BY <1>1, <1>2, <1>4, <1>5, <1>7, Takes, NamesHold, Zenon DEF Names
  <2>2. H["left"] = f /\ "left" \in Holders
    BY <1>4, NamesHold DEF Names
  <2> HIDE DEF H
  <2> QED  BY <2>1, <2>2, <1>6, Shows
<1>8. /\ finger' \in [Holders -> Fingers \cup {-1}]
      /\ \A h \in Holders : finger'[h] = IF h \in {"scroll1", "scroll2"} THEN -1
                                         ELSE IF h = "left" THEN f ELSE finger[h]
  BY <1>1, <1>2, NamesHold DEF Names
<1>9. /\ H \in [Holders -> Fingers \cup {-1}]
      /\ \A h \in Holders : H[h] = IF h \in {"scroll1", "scroll2"} THEN -1
                                   ELSE IF h = "left" THEN f ELSE Has[h]
  BY <1>2, <1>4, NamesHold DEF Names, Unscrolled
<1> HIDE DEF H
<1>10. HasAre(H, finger', press', finger_is_replay')
  BY <1>3, <1>8, <1>9, HasNow, NamesHold DEF HasAre, Names, TouchIInv
<1>11. Has' = H
  BY <1>9, <1>10, HasIs DEF Has
<1>12. TouchAux'
  BY <1>3, <1>8, NamesHold DEF TouchIInv, TouchAux, Names
<1> QED  BY <1>3, <1>6, <1>7, <1>11, <1>12 DEF TouchIInv

LEMMA PressRightKeeps ==
  ASSUME TouchIInv, PressRight
  PROVE  TouchIInv'
<1> DEFINE s == EndScroll(screen)
           f == get_next_avali_finger(s)
           s1 == Use(s, f)
           g == IF RightIsTwo THEN get_next_avali_finger(s1) ELSE -1
           s2 == Use(s1, g)
           s3 == set_express_touchscreen_input(s2, f, TRUE)
           s4 == set_express_touchscreen_input(s3, g, TRUE)
           H1 == [Unscrolled EXCEPT !["right"] = f]
           H2 == [H1 EXCEPT !["right2"] = g]
<1>1. /\ Screen(s) /\ (~stray => Owned(Unscrolled, s.used, s.touched))
      /\ ScrollEnds = [finger EXCEPT !["scroll1"] = -1, !["scroll2"] = -1]
  BY ScrollDone
<1>2. /\ f = -1 \/ f \in Fingers \ s.used
      /\ g = -1 \/ g \in Fingers \ s1.used
  BY NextFinger
<1>3. /\ screen' = s4 /\ "right" \in Holders /\ "right2" \in Holders /\ stray' = stray
      /\ finger' = [ScrollEnds EXCEPT !["right"] = f, !["right2"] = IF RightIsTwo THEN g ELSE @]
      /\ "right" \notin down /\ press' = press \cup {"right"} /\ down' = down \cup {"right"}
      /\ is_scrolling' = FALSE /\ UNCHANGED <<finger_is_replay, now_record_index>>
  BY DEF PressRight, Holders, Mouse, records
<1>4. /\ Has \in [Holders -> Fingers \cup {-1}]
      /\ Unscrolled["right"] = -1 /\ Unscrolled["right2"] = -1
      /\ Unscrolled \in [Holders -> Fingers \cup {-1}]
  BY <1>3, HasNow, NamesHold DEF TouchIInv, TouchAux, HasAre, Names, Unscrolled
<1>5. ~RightIsTwo => g = -1
  OBVIOUS
<1> HIDE DEF s, f
<1>6. Screen(s1) /\ s1.used = s.used \cup ({f} \cap Fingers) /\ s1.touched = s.touched
  BY <1>1, UseScreen
<1> HIDE DEF s1, g
<1>7. Screen(s2) /\ s2.used = s1.used \cup ({g} \cap Fingers) /\ s2.touched = s1.touched
  BY <1>6, UseScreen
<1> HIDE DEF s2
<1>8. /\ Screen(s3) /\ s3.used = s2.used
      /\ s3.touched = IF f \notin Fingers THEN s2.touched ELSE s2.touched \cup {f}
  BY <1>7, InputScreen, Zenon
<1> HIDE DEF s3
<1>9. /\ Screen(s4) /\ s4.used = s3.used
      /\ s4.touched = IF g \notin Fingers THEN s3.touched ELSE s3.touched \cup {g}
  BY <1>8, InputScreen, ZenonT(30)
<1> HIDE DEF s4
<1>10. ASSUME ~stray PROVE Owned(H2, s4.used, s4.touched)
  <2>1. Owned(H1, s1.used, s1.touched)
    BY <1>1, <1>2, <1>3, <1>4, <1>6, <1>10, Takes, Zenon
  <2>2. H1["right2"] = -1 /\ H1 \in [Holders -> Fingers \cup {-1}] /\ H1["right"] = f
    BY <1>2, <1>3, <1>4
  <2> HIDE DEF H1
  <2>3. Owned(H2, s2.used, s2.touched)
    BY <1>2, <1>3, <1>7, <2>1, <2>2, Takes, ZenonT(30)
  <2>4. H2["right"] = f /\ H2["right2"] = g
    BY <1>3, <2>2
  <2> HIDE DEF H2
  <2>5. Owned(H2, s3.used, s3.touched)
    BY <1>3, <1>8, <2>3, <2>4, Shows
  <2> QED  BY <1>3, <1>9, <2>4, <2>5, Shows
<1>11. finger' = [[finger EXCEPT !["scroll1"] = -1, !["scroll2"] = -1]
                    EXCEPT !["right"] = f, !["right2"] = g]
  BY <1>1, <1>3, <1>5, ZenonT(30) DEF TouchIInv, TouchAux
<1>12. /\ finger' \in [Holders -> Fingers \cup {-1}]
       /\ \A h \in Holders : finger'[h] = IF h \in {"scroll1", "scroll2"} THEN -1
                                          ELSE IF h = "right" THEN f
                                          ELSE IF h = "right2" THEN g ELSE finger[h]
  BY <1>2, <1>11, NamesHold DEF Names, TouchIInv, TouchAux
<1>13. /\ H2 \in [Holders -> Fingers \cup {-1}]
       /\ \A h \in Holders : H2[h] = IF h \in {"scroll1", "scroll2"} THEN -1
                                     ELSE IF h = "right" THEN f
                                     ELSE IF h = "right2" THEN g ELSE Has[h]
  BY <1>2, <1>4, NamesHold DEF Names, Unscrolled
<1> HIDE DEF H2
<1>14. HasAre(H2, finger', press', finger_is_replay')
  BY <1>3, <1>12, <1>13, HasNow, NamesHold DEF HasAre, Names, TouchIInv
<1>15. Has' = H2
  BY <1>13, <1>14, HasIs DEF Has
<1>16. TouchAux'
  BY <1>3, <1>5, <1>12, NamesHold DEF TouchIInv, TouchAux, Names
<1> QED  BY <1>3, <1>9, <1>10, <1>15, <1>16 DEF TouchIInv

LEMMA MouseMoveKeeps ==
  ASSUME TouchIInv, express_touchscreen_mouse_move_handle
  PROVE  TouchIInv'
<1> DEFINE s == EndScroll(screen)
           a == finger["left"]
           f == finger["right"]
           g == Second
           s2 == IF "left" \in press THEN set_express_touchscreen_input(s, a, TRUE) ELSE s
           s3 == set_express_touchscreen_input(s2, f, TRUE)
           s4 == set_express_touchscreen_input(s3, g, TRUE)
<1>1. /\ Screen(s) /\ (~stray => Owned(Unscrolled, s.used, s.touched))
      /\ ScrollEnds = [finger EXCEPT !["scroll1"] = -1, !["scroll2"] = -1]
  BY ScrollDone
<1>2. /\ screen' = (IF "right" \in press THEN s4 ELSE s2)
      /\ stray' = stray /\ finger' = ScrollEnds /\ is_scrolling' = FALSE
      /\ UNCHANGED <<press, down, finger_is_replay, now_record_index>>
  BY DEF express_touchscreen_mouse_move_handle, records
<1>3. /\ Unscrolled \in [Holders -> Fingers \cup {-1}]
      /\ \A h \in Holders : Unscrolled[h] = IF h \in {"scroll1", "scroll2"} THEN -1 ELSE Has[h]
  BY HasNow, NamesHold DEF Names, Unscrolled, TouchIInv
<1>4. /\ "left" \in press => Unscrolled["left"] = a
      /\ "right" \in press => Unscrolled["right"] = f /\ Unscrolled["right2"] = g
  BY <1>3, HasNow, NamesHold DEF Names, HasAre, TouchIInv, TouchAux, Second
<1> HIDE DEF s, a, f, g
<1>5. Screen(s2) /\ (~stray => Owned(Unscrolled, s2.used, s2.touched))
  <2>1. CASE "left" \in press
    <3>1. /\ Screen(s2) /\ s2.used = s.used
          /\ s2.touched = IF a \notin Fingers THEN s.touched ELSE s.touched \cup {a}
      BY <1>1, <2>1, InputScreen, ZenonT(30)
    <3> QED  BY <1>1, <1>4, <2>1, <3>1, Shows, NamesHold, ZenonT(30) DEF Names
  <2>2. CASE "left" \notin press
    BY <1>1, <2>2
  <2> QED  BY <2>1, <2>2, Zenon
<1> HIDE DEF s2
<1>6. ASSUME "right" \in press
      PROVE  Screen(s4) /\ (~stray => Owned(Unscrolled, s4.used, s4.touched))
  <2>1. /\ Screen(s3) /\ s3.used = s2.used
        /\ s3.touched = IF f \notin Fingers THEN s2.touched ELSE s2.touched \cup {f}
    BY <1>5, InputScreen, ZenonT(30)
  <2> HIDE DEF s3
  <2>2. /\ Screen(s4) /\ s4.used = s3.used
        /\ s4.touched = IF g \notin Fingers THEN s3.touched ELSE s3.touched \cup {g}
    BY <2>1, InputScreen, Zenon
  <2> HIDE DEF s4
  <2>3. ~stray => Owned(Unscrolled, s3.used, s3.touched)
    BY <1>4, <1>5, <1>6, <2>1, Shows, NamesHold DEF Names
  <2> QED  BY <1>4, <1>6, <2>2, <2>3, Shows, NamesHold DEF Names
<1> HIDE DEF s4
<1>7. /\ finger' \in [Holders -> Fingers \cup {-1}]
      /\ \A h \in Holders : finger'[h] = IF h \in {"scroll1", "scroll2"} THEN -1 ELSE finger[h]
  BY <1>1, <1>2, NamesHold DEF Names, TouchIInv, TouchAux
<1>8. HasAre(Unscrolled, finger', press', finger_is_replay')
  BY <1>2, <1>3, <1>7, HasNow, NamesHold DEF HasAre, Names, TouchIInv
<1>9. Has' = Unscrolled
  BY <1>3, <1>8, HasIs DEF Has
<1>10. TouchAux'
  BY <1>2, <1>7, NamesHold DEF TouchIInv, TouchAux, Names
<1> QED  BY <1>2, <1>5, <1>6, <1>9, <1>10 DEF TouchIInv

LEMMA ReleaseLeftKeeps ==
  ASSUME TouchIInv, ReleaseLeft
  PROVE  TouchIInv'
<1> DEFINE s == EndScroll(screen)
           f == finger["left"]
           s1 == Lift(s, f)
           H == [Unscrolled EXCEPT !["left"] = -1]
<1>1. /\ Screen(s) /\ (~stray => Owned(Unscrolled, s.used, s.touched))
      /\ ScrollEnds = [finger EXCEPT !["scroll1"] = -1, !["scroll2"] = -1]
  BY ScrollDone
<1>2. /\ screen' = s1 /\ stray' = stray /\ finger' = ScrollEnds /\ is_scrolling' = FALSE
      /\ "left" \in down /\ down' = down \ {"left"} /\ press' = press \ {"left"}
      /\ UNCHANGED <<finger_is_replay, now_record_index>>
  BY DEF ReleaseLeft, records
<1>3. /\ Unscrolled \in [Holders -> Fingers \cup {-1}]
      /\ \A h \in Holders : Unscrolled[h] = IF h \in {"scroll1", "scroll2"} THEN -1 ELSE Has[h]
  BY HasNow, NamesHold DEF Names, Unscrolled, TouchIInv
<1>4. Unscrolled["left"] = f
  BY <1>2, <1>3, HasNow, NamesHold DEF Names, HasAre, TouchIInv, TouchAux
<1> HIDE DEF s, f
<1>5. Screen(s1) /\ s1.used = s.used \ {f} /\ s1.touched = s.touched \ {f}
  BY <1>1, LiftScreen, Zenon
<1> HIDE DEF s1
<1>6. ~stray => Owned(H, s1.used, s1.touched)
  BY <1>1, <1>4, <1>5, Gives, NamesHold DEF Names
<1>7. /\ finger' \in [Holders -> Fingers \cup {-1}]
      /\ \A h \in Holders : finger'[h] = IF h \in {"scroll1", "scroll2"} THEN -1 ELSE finger[h]
  BY <1>1, <1>2, NamesHold DEF Names, TouchIInv, TouchAux
<1>8. /\ H \in [Holders -> Fingers \cup {-1}]
      /\ \A h \in Holders : H[h] = IF h \in {"scroll1", "scroll2", "left"} THEN -1 ELSE Has[h]
  BY <1>3, NamesHold DEF Names
<1> HIDE DEF H
<1>9. HasAre(H, finger', press', finger_is_replay')
  BY <1>2, <1>7, <1>8, HasNow, NamesHold DEF HasAre, Names, TouchIInv
<1>10. Has' = H
  BY <1>8, <1>9, HasIs DEF Has
<1>11. TouchAux'
  BY <1>2, <1>7, NamesHold DEF TouchIInv, TouchAux, Names
<1> QED  BY <1>2, <1>5, <1>6, <1>10, <1>11, Zenon DEF TouchIInv

LEMMA ReleaseRightKeeps ==
  ASSUME TouchIInv, ReleaseRight
  PROVE  TouchIInv'
<1> DEFINE s == EndScroll(screen)
           f == finger["right"]
           g == Second
           s1 == Lift(s, f)
           s2 == Lift(s1, g)
           H1 == [Unscrolled EXCEPT !["right"] = -1]
           H2 == [H1 EXCEPT !["right2"] = -1]
<1>1. /\ Screen(s) /\ (~stray => Owned(Unscrolled, s.used, s.touched))
      /\ ScrollEnds = [finger EXCEPT !["scroll1"] = -1, !["scroll2"] = -1]
  BY ScrollDone
<1>2. /\ screen' = s2 /\ stray' = stray /\ finger' = ScrollEnds /\ is_scrolling' = FALSE
      /\ "right" \in down /\ down' = down \ {"right"} /\ press' = press \ {"right"}
      /\ UNCHANGED <<finger_is_replay, now_record_index>>
  BY DEF ReleaseRight, records
<1>3. /\ Unscrolled \in [Holders -> Fingers \cup {-1}]
      /\ \A h \in Holders : Unscrolled[h] = IF h \in {"scroll1", "scroll2"} THEN -1 ELSE Has[h]
  BY HasNow, NamesHold DEF Names, Unscrolled, TouchIInv
<1>4. Unscrolled["right"] = f /\ Unscrolled["right2"] = g
  BY <1>2, <1>3, HasNow, NamesHold DEF Names, HasAre, TouchIInv, TouchAux, Second
<1> HIDE DEF s, f, g
<1>5. Screen(s1) /\ s1.used = s.used \ {f} /\ s1.touched = s.touched \ {f}
  BY <1>1, LiftScreen, Zenon
<1> HIDE DEF s1
<1>6. Screen(s2) /\ s2.used = s1.used \ {g} /\ s2.touched = s1.touched \ {g}
  BY <1>5, LiftScreen
<1> HIDE DEF s2
<1>7. ASSUME ~stray PROVE Owned(H2, s2.used, s2.touched)
  <2>1. Owned(H1, s1.used, s1.touched)
    BY <1>1, <1>4, <1>5, <1>7, Gives, NamesHold DEF Names
  <2>2. H1["right2"] = g
    BY <1>3, <1>4, NamesHold DEF Names
  <2> HIDE DEF H1
  <2> QED  BY <1>6, <2>1, <2>2, Gives, NamesHold DEF Names
<1>8. /\ finger' \in [Holders -> Fingers \cup {-1}]
      /\ \A h \in Holders : finger'[h] = IF h \in {"scroll1", "scroll2"} THEN -1 ELSE finger[h]
  BY <1>1, <1>2, NamesHold DEF Names, TouchIInv, TouchAux
<1>9. /\ H2 \in [Holders -> Fingers \cup {-1}]
      /\ \A h \in Holders :
           H2[h] = IF h \in {"scroll1", "scroll2", "right", "right2"} THEN -1 ELSE Has[h]
  BY <1>3, NamesHold DEF Names
<1> HIDE DEF H2
<1>10. HasAre(H2, finger', press', finger_is_replay')
  BY <1>2, <1>8, <1>9, HasNow, NamesHold DEF HasAre, Names, TouchIInv
<1>11. Has' = H2
  BY <1>9, <1>10, HasIs DEF Has
<1>12. TouchAux'
  BY <1>2, <1>8, NamesHold DEF TouchIInv, TouchAux, Names
<1> QED  BY <1>2, <1>6, <1>7, <1>11, <1>12, ZenonT(30) DEF TouchIInv

(* The wheel takes two fingers, or moves the ones it has.                  *)
LEMMA ScrollKeeps ==
  ASSUME TouchIInv, express_touchscreen_mouse_scroll_handle
  PROVE  TouchIInv'
<1> DEFINE f1 == IF finger["scroll1"] = -1 THEN get_next_avali_finger(screen)
                 ELSE finger["scroll1"]
           s1 == Use(screen, f1)
           f2 == IF finger["scroll1"] = -1 THEN get_next_avali_finger(s1) ELSE finger["scroll2"]
           s2 == Use(s1, f2)
           s3 == set_express_touchscreen_input(s2, f1, TRUE)
           s4 == set_express_touchscreen_input(s3, f2, TRUE)
           H1 == [Has EXCEPT !["scroll1"] = f1]
           H2 == [H1 EXCEPT !["scroll2"] = f2]
<1>1. /\ Has \in [Holders -> Fingers \cup {-1}] /\ finger \in [Holders -> Fingers \cup {-1}]
      /\ Has["scroll1"] = finger["scroll1"] /\ Has["scroll2"] = finger["scroll2"]
      /\ finger["scroll1"] = -1 => finger["scroll2"] = -1
      /\ -1 \notin Fingers
  BY HasNow DEF TouchIInv, TouchAux, HasAre, Fingers
<1>2. /\ finger["scroll1"] = -1 => f1 = -1 \/ f1 \in Fingers \ screen.used
      /\ finger["scroll1"] # -1 => f1 = finger["scroll1"]
      /\ finger["scroll1"] = -1 => f2 = -1 \/ f2 \in Fingers \ s1.used
      /\ finger["scroll1"] # -1 => f2 = finger["scroll2"]
  BY NextFinger
<1>3. /\ screen' = s4 /\ stray' = stray /\ is_scrolling' = TRUE
      /\ finger' = [finger EXCEPT !["scroll1"] = f1, !["scroll2"] = f2]
      /\ UNCHANGED <<press, down, finger_is_replay, now_record_index>>
  BY DEF express_touchscreen_mouse_scroll_handle, records
<1>4. f1 = -1 => f2 = -1
  BY <1>1, <1>2 DEF get_next_avali_finger, Use
<1> HIDE DEF f1
<1>5. Screen(s1) /\ s1.used = screen.used \cup ({f1} \cap Fingers) /\ s1.touched = screen.touched
  BY UseScreen, ZenonT(30) DEF TouchIInv
<1> HIDE DEF s1, f2
<1>6. Screen(s2) /\ s2.used = s1.used \cup ({f2} \cap Fingers) /\ s2.touched = s1.touched
  BY <1>5, UseScreen, ZenonT(30)
<1> HIDE DEF s2
<1>7. /\ Screen(s3) /\ s3.used = s2.used
      /\ s3.touched = IF f1 \notin Fingers THEN s2.touched ELSE s2.touched \cup {f1}
  BY <1>6, InputScreen, Zenon
<1> HIDE DEF s3
<1>8. /\ Screen(s4) /\ s4.used = s3.used
      /\ s4.touched = IF f2 \notin Fingers THEN s3.touched ELSE s3.touched \cup {f2}
  BY <1>7, InputScreen, Zenon
<1> HIDE DEF s4
<1>9. f1 \in Fingers \cup {-1} /\ f2 \in Fingers \cup {-1}
  BY <1>1, <1>2, NamesHold DEF Names
<1>10. /\ H2 \in [Holders -> Fingers \cup {-1}]
       /\ \A h \in Holders : H2[h] = IF h = "scroll1" THEN f1
                                     ELSE IF h = "scroll2" THEN f2 ELSE Has[h]
  BY <1>1, <1>9, NamesHold DEF Names
<1>11. ASSUME ~stray PROVE Owned(H2, s2.used, s2.touched)
  <2>1. CASE finger["scroll1"] = -1
    <3>1. Owned(H1, s1.used, s1.touched)
      BY <1>1, <1>2, <1>5, <1>11, <2>1, Takes, NamesHold, Zenon DEF Names, TouchIInv
    <3>2. H1["scroll2"] = -1
      BY <1>1, <2>1, NamesHold DEF Names
    <3> HIDE DEF H1
    <3> QED  BY <1>2, <1>6, <2>1, <3>1, <3>2, Takes, NamesHold DEF Names
  <2>2. CASE finger["scroll1"] # -1
    <3>1. Owned(Has, screen.used, screen.touched)
      BY <1>11 DEF TouchIInv
    <3>2. s1.used = screen.used
      BY <1>1, <1>2, <1>5, <2>2, <3>1, NamesHold DEF Names, Owned
    <3>3. s2.used = screen.used
      BY <1>1, <1>2, <1>6, <2>2, <3>1, <3>2, NamesHold DEF Names, Owned
    <3>4. H2 = Has
      BY <1>1, <1>2, <2>2
    <3> QED  BY <1>5, <1>6, <3>1, <3>3, <3>4
  <2> QED  BY <2>1, <2>2
<1> HIDE DEF H2
<1>12. ASSUME ~stray PROVE Owned(H2, s4.used, s4.touched)
  <2>1. H2["scroll1"] = f1 /\ H2["scroll2"] = f2
    BY <1>10, NamesHold DEF Names
  <2>2. Owned(H2, s3.used, s3.touched)
    BY <1>7, <1>11, <1>12, <2>1, Shows, NamesHold DEF Names
  <2> QED  BY <1>8, <2>1, <2>2, Shows, NamesHold DEF Names
<1>13. /\ finger' \in [Holders -> Fingers \cup {-1}]
       /\ \A h \in Holders : finger'[h] = IF h = "scroll1" THEN f1
                                          ELSE IF h = "scroll2" THEN f2 ELSE finger[h]
  BY <1>1, <1>3, <1>9, NamesHold DEF Names
<1>14. HasAre(H2, finger', press', finger_is_replay')
  BY <1>3, <1>10, <1>13, HasNow, NamesHold DEF HasAre, Names, TouchIInv
<1>15. Has' = H2
  BY <1>10, <1>14, HasIs DEF Has
<1>16. TouchAux'
  BY <1>3, <1>4, <1>13, NamesHold DEF TouchIInv, TouchAux, Names
<1> QED  BY <1>3, <1>8, <1>12, <1>15, <1>16, ZenonT(30) DEF TouchIInv

LEMMA TouchKeeps ==
  ASSUME TouchIInv, NEW t \in TouchIds, Touch(t)
  PROVE  TouchIInv'
<1> DEFINE f == IF finger[t] = -1 THEN get_next_avali_finger(screen) ELSE finger[t]
           s1 == Use(screen, f)
           s2 == set_express_touchscreen_input(s1, f, TRUE)
           H == [Has EXCEPT ![t] = f]
<1>1. /\ Has \in [Holders -> Fingers \cup {-1}] /\ finger \in [Holders -> Fingers \cup {-1}]
      /\ Has[t] = finger[t] /\ t \in Holders /\ -1 \notin Fingers
  BY HasNow, NamesHold DEF TouchIInv, TouchAux, HasAre, Names, Fingers
<1>2. /\ finger[t] = -1 => f = -1 \/ f \in Fingers \ screen.used
      /\ finger[t] # -1 => f = finger[t]
  BY NextFinger
<1>3. /\ screen' = s2 /\ stray' = stray /\ finger' = [finger EXCEPT ![t] = f]
      /\ UNCHANGED <<press, down, is_scrolling, finger_is_replay, now_record_index>>
  BY DEF Touch, records
<1> HIDE DEF f
<1>4. Screen(s1) /\ s1.used = screen.used \cup ({f} \cap Fingers) /\ s1.touched = screen.touched
  BY UseScreen, ZenonT(30) DEF TouchIInv
<1> HIDE DEF s1
<1>5. /\ Screen(s2) /\ s2.used = s1.used
      /\ s2.touched = IF f \notin Fingers THEN s1.touched ELSE s1.touched \cup {f}
  BY <1>4, InputScreen, ZenonT(30)
<1> HIDE DEF s2
<1>6. /\ H \in [Holders -> Fingers \cup {-1}]
      /\ \A h \in Holders : H[h] = IF h = t THEN f ELSE Has[h]
  BY <1>1, <1>2
<1>7. ASSUME ~stray PROVE Owned(H, s2.used, s2.touched)
  <2>1. Owned(H, s1.used, s1.touched)
    <3>1. CASE finger[t] = -1
      BY <1>1, <1>2, <1>4, <1>7, <3>1, Takes, ZenonT(30) DEF TouchIInv
    <3>2. CASE finger[t] # -1
      <4>1. Owned(Has, screen.used, screen.touched)
        BY <1>7 DEF TouchIInv
      <4>2. s1.used = screen.used
        BY <1>1, <1>2, <1>4, <3>2, <4>1 DEF Owned
      <4>3. H = Has
        BY <1>1, <1>2, <3>2
      <4> QED  BY <1>4, <4>1, <4>2, <4>3, Zenon
    <3> QED  BY <3>1, <3>2
  <2>2. H[t] = f
    BY <1>1, <1>6
  <2> HIDE DEF H
  <2> QED  BY <1>1, <1>5, <2>1, <2>2, Shows
<1> HIDE DEF H
<1>8. /\ finger' \in [Holders -> Fingers \cup {-1}]
      /\ \A h \in Holders : finger'[h] = IF h = t THEN f ELSE finger[h]
  BY <1>1, <1>2, <1>3
<1>9. HasAre(H, finger', press', finger_is_replay')
  BY <1>3, <1>6, <1>8, HasNow, NamesHold DEF HasAre, Names, TouchIInv
<1>10. Has' = H
  BY <1>6, <1>9, HasIs DEF Has
<1>11. TouchAux'
  BY <1>3, <1>8, NamesHold DEF TouchIInv, TouchAux, Names
<1> QED  BY <1>3, <1>5, <1>7, <1>10, <1>11, ZenonT(30) DEF TouchIInv

LEMMA UntouchKeeps ==
  ASSUME TouchIInv, NEW t \in TouchIds, Untouch(t)
  PROVE  TouchIInv'
<1> DEFINE f == finger[t]
           s1 == Lift(screen, f)
           H == [Has EXCEPT ![t] = -1]
<1>1. /\ Has \in [Holders -> Fingers \cup {-1}] /\ finger \in [Holders -> Fingers \cup {-1}]
      /\ Has[t] = f /\ t \in Holders
  BY HasNow, NamesHold DEF TouchIInv, TouchAux, HasAre, Names
<1>2. /\ screen' = s1 /\ stray' = stray /\ finger' = [finger EXCEPT ![t] = -1]
      /\ UNCHANGED <<press, down, is_scrolling, finger_is_replay, now_record_index>>
  BY DEF Untouch, records
<1> HIDE DEF f
<1>3. Screen(s1) /\ s1.used = screen.used \ {f} /\ s1.touched = screen.touched \ {f}
  BY LiftScreen DEF TouchIInv
<1> HIDE DEF s1
<1>4. ~stray => Owned(H, s1.used, s1.touched)
  BY <1>1, <1>3, Gives, Zenon DEF TouchIInv
<1>5. /\ finger' \in [Holders -> Fingers \cup {-1}]
      /\ \A h \in Holders : finger'[h] = IF h = t THEN -1 ELSE finger[h]
  BY <1>1, <1>2
<1>6. /\ H \in [Holders -> Fingers \cup {-1}]
      /\ \A h \in Holders : H[h] = IF h = t THEN -1 ELSE Has[h]
  BY <1>1
<1> HIDE DEF H
<1>7. HasAre(H, finger', press', finger_is_replay')
  BY <1>2, <1>5, <1>6, HasNow, NamesHold DEF HasAre, Names, TouchIInv
<1>8. Has' = H
  BY <1>6, <1>7, HasIs DEF Has
<1>9. TouchAux'
  BY <1>2, <1>5, NamesHold DEF TouchIInv, TouchAux, Names
<1> QED  BY <1>2, <1>3, <1>4, <1>8, <1>9, ZenonT(30) DEF TouchIInv

(* A reset takes every finger, or one is astray.                           *)
LEMMA ResetKeeps ==
  ASSUME TouchIInv, reset_touchscreen_input
  PROVE  TouchIInv'
<1> DEFINE Shown == 0 .. screen.touch_cnt - 1
           s1 == [screen EXCEPT !.need_sync = @ \/ screen.touched \cap Shown # {},
                                !.touched = @ \ Shown, !.used = @ \ Shown]
           H == [h \in Holders |-> -1]
<1>1. /\ screen' = s1 /\ stray' = (stray \/ ~(screen.used \subseteq Shown))
      /\ finger' = H /\ press' = {}
      /\ UNCHANGED <<down, is_scrolling, finger_is_replay, now_record_index>>
  BY DEF reset_touchscreen_input, records
<1> HIDE DEF Shown
<1>2. Screen(s1) /\ s1.used = screen.used \ Shown /\ s1.touched = screen.touched \ Shown
  BY Zenon DEF TouchIInv, Screen
<1> HIDE DEF s1
<1>3. ASSUME ~stray' PROVE Owned(H, s1.used, s1.touched)
  BY <1>1, <1>2, <1>3, Zenon DEF TouchIInv, Owned
<1>4. H \in [Holders -> Fingers \cup {-1}] /\ \A h \in Holders : H[h] = -1
  OBVIOUS
<1> HIDE DEF H
<1>5. HasAre(H, finger', press', finger_is_replay')
  BY <1>1, <1>4, NamesHold DEF HasAre, Names
<1>6. Has' = H
  BY <1>4, <1>5, HasIs DEF Has
<1>7. TouchAux'
  BY <1>1, <1>4, NamesHold DEF TouchIInv, TouchAux, Names
<1> QED  BY <1>1, <1>2, <1>3, <1>6, <1>7 DEF TouchIInv

(* The record that was being made had no finger, or one is astray.         *)
LEMMA StartRecordKeeps ==
  ASSUME TouchIInv, NEW k \in Records, start_mouse_record(k)
  PROVE  TouchIInv'
<1> DEFINE old == now_record_index
<1>1. /\ screen' = screen /\ stray' = (stray \/ old \in finger_is_replay)
      /\ finger' = [h \in Holders |-> IF h = old THEN -1 ELSE finger[h]]
      /\ now_record_index' = k /\ old \in Records \cup {"none"} /\ "none" \notin Holders
      /\ UNCHANGED <<press, down, is_scrolling, finger_is_replay>>
  BY HoldersAssumption DEF start_mouse_record, TouchIInv, TouchAux
<1> HIDE DEF old
<1>2. /\ finger' \in [Holders -> Fingers \cup {-1}]
      /\ \A h \in Holders : finger'[h] = IF h = old THEN -1 ELSE finger[h]
  BY <1>1 DEF TouchIInv, TouchAux
<1>3. ASSUME ~stray' PROVE Owned(Has, screen.used, screen.touched)'
  <2>1. Has \in [Holders -> Fingers \cup {-1}] /\ HasAre(Has, finger, press, finger_is_replay)
    BY HasNow DEF TouchIInv
  <2>2. old \notin finger_is_replay
    BY <1>1, <1>3, ZenonT(30)
  <2>3. \A h \in Holders : h \notin Records \/ h \in finger_is_replay => finger'[h] = finger[h]
    BY <1>1, <1>2, <2>2
  <2>4. HasAre(Has, finger', press, finger_is_replay)
    BY <2>1, <2>3, NamesHold DEF HasAre, Names
  <2>5. Has' = Has
    BY <1>1, <2>1, <2>4, HasIs DEF Has
  <2> QED  BY <1>1, <1>3, <2>5, Zenon DEF TouchIInv
<1>4. TouchAux'
  BY <1>1, <1>2, NamesHold DEF TouchIInv, TouchAux, Names
<1> QED  BY <1>1, <1>3, <1>4 DEF TouchIInv

(* A replay takes a finger, goes on with the one it has, or uses finger 0, *)
(* which is astray then.                                                   *)
LEMMA StartReplayKeeps ==
  ASSUME TouchIInv, NEW k \in Records, start_mouse_replay(k)
  PROVE  TouchIInv'
<1> DEFINE f == IF finger[k] = -1 THEN get_next_avali_finger(screen) ELSE finger[k]
           H == [Has EXCEPT ![k] = f]
<1>1. /\ Has \in [Holders -> Fingers \cup {-1}] /\ finger \in [Holders -> Fingers \cup {-1}]
      /\ Has[k] = (IF k \in finger_is_replay THEN finger[k] ELSE -1)
      /\ k \in Holders /\ -1 \notin Fingers
  BY HasNow, NamesHold DEF TouchIInv, TouchAux, HasAre, Names, Fingers
<1>2. /\ finger[k] = -1 => f = -1 \/ f \in Fingers \ screen.used
      /\ finger[k] # -1 => f = finger[k]
  BY NextFinger
<1>3. /\ screen' = (IF finger[k] = -1 THEN Use(screen, f) ELSE screen)
      /\ stray' = (stray \/ (finger[k] # -1 /\ k \notin finger_is_replay))
      /\ finger' = [finger EXCEPT ![k] = f]
      /\ finger_is_replay' = IF f = -1 THEN finger_is_replay ELSE finger_is_replay \cup {k}
      /\ UNCHANGED <<press, down, is_scrolling, now_record_index>>
  BY DEF start_mouse_replay
<1> HIDE DEF f
<1>4. /\ Screen(Use(screen, f)) /\ Use(screen, f).used = screen.used \cup ({f} \cap Fingers)
      /\ Use(screen, f).touched = screen.touched
  BY UseScreen, ZenonT(30) DEF TouchIInv
<1>5. /\ H \in [Holders -> Fingers \cup {-1}]
      /\ \A h \in Holders : H[h] = IF h = k THEN f ELSE Has[h]
  BY <1>1, <1>2, Zenon
<1>6. ASSUME ~stray' PROVE Owned(H, screen'.used, screen'.touched)
  <2>1. CASE finger[k] = -1
    <3>1. Has[k] = -1 /\ Owned(Has, screen.used, screen.touched) /\ screen' = Use(screen, f)
      BY <1>1, <1>3, <1>6, <2>1, Zenon DEF TouchIInv
    <3>2. Owned(H, Use(screen, f).used, screen.touched)
      BY <1>1, <1>2, <1>4, <2>1, <3>1, Takes, ZenonT(30)
    <3> QED  BY <1>4, <3>1, <3>2, ZenonT(30)
  <2>2. CASE finger[k] # -1
    <3>1. Has[k] = f
      BY <1>1, <1>2, <1>3, <1>6, <2>2, Zenon
    <3>2. H = Has
      BY <1>1, <3>1, SMTT(20)
    <3> QED  BY <1>3, <1>6, <2>2, <3>2, Zenon DEF TouchIInv
  <2> QED  BY <2>1, <2>2
<1> HIDE DEF H
<1>7. /\ finger' \in [Holders -> Fingers \cup {-1}]
      /\ \A h \in Holders : finger'[h] = IF h = k THEN f ELSE finger[h]
  BY <1>1, <1>2, <1>3, Zenon
<1>8. HasAre(H, finger', press', finger_is_replay')
  BY <1>3, <1>5, <1>7, HasNow, NamesHold DEF HasAre, Names, TouchIInv
<1>9. Has' = H
  BY <1>5, <1>8, HasIs DEF Has
<1>10. TouchAux'
  BY <1>3, <1>7, NamesHold DEF TouchIInv, TouchAux, Names
<1>11. Screen(screen')
  BY <1>3, <1>4, ZenonT(30) DEF TouchIInv
<1> QED  BY <1>6, <1>9, <1>10, <1>11 DEF TouchIInv

LEMMA StopReplayKeeps ==
  ASSUME TouchIInv, NEW k \in Records, stop_mouse_replay(k)
  PROVE  TouchIInv'
<1> DEFINE f == finger[k]
           s1 == Lift(screen, f)
           H == [Has EXCEPT ![k] = -1]
<1>1. /\ screen' = s1 /\ stray' = stray /\ finger' = [finger EXCEPT ![k] = -1]
      /\ k \in finger_is_replay /\ finger_is_replay' = finger_is_replay \ {k}
      /\ UNCHANGED <<press, down, is_scrolling, now_record_index>>
  BY DEF stop_mouse_replay
<1>2. /\ Has \in [Holders -> Fingers \cup {-1}] /\ finger \in [Holders -> Fingers \cup {-1}]
      /\ Has[k] = f /\ k \in Holders
  BY <1>1, HasNow, NamesHold, ZenonT(30) DEF TouchIInv, TouchAux, HasAre, Names
<1> HIDE DEF f
<1>3. Screen(s1) /\ s1.used = screen.used \ {f} /\ s1.touched = screen.touched \ {f}
  BY LiftScreen DEF TouchIInv
<1> HIDE DEF s1
<1>4. ~stray => Owned(H, s1.used, s1.touched)
  BY <1>2, <1>3, Gives, Zenon DEF TouchIInv
<1>5. /\ finger' \in [Holders -> Fingers \cup {-1}]
      /\ \A h \in Holders : finger'[h] = IF h = k THEN -1 ELSE finger[h]
  BY <1>1, <1>2
<1>6. /\ H \in [Holders -> Fingers \cup {-1}]
      /\ \A h \in Holders : H[h] = IF h = k THEN -1 ELSE Has[h]
  BY <1>2
<1> HIDE DEF H
<1>7. HasAre(H, finger', press', finger_is_replay')
  BY <1>1, <1>5, <1>6, HasNow, NamesHold DEF HasAre, Names, TouchIInv
<1>8. Has' = H
  BY <1>6, <1>7, HasIs DEF Has
<1>9. TouchAux'
  BY <1>1, <1>5, NamesHold DEF TouchIInv, TouchAux, Names
<1> QED  BY <1>1, <1>3, <1>4, <1>8, <1>9, ZenonT(30) DEF TouchIInv

(* At a poll replays show their fingers, and old touches give theirs back. *)
LEMMA PollKeeps ==
  ASSUME TouchIInv, NEW old \in SUBSET TouchIds, Poll(old)
  PROVE  TouchIInv'
<1> DEFINE replays == finger_is_record' \cap finger_is_replay
           Moved == {finger[k] : k \in replays} \ {-1}
           Gone == {finger[t] : t \in old}
           s1 == Replayed(screen, replays)
           s2 == Expired(s1, old)
           H == [h \in Holders |-> IF h \in old THEN -1 ELSE Has[h]]
<1>1. /\ screen' = s2 /\ stray' = stray
      /\ finger' = [h \in Holders |-> IF h \in old THEN -1 ELSE finger[h]]
      /\ UNCHANGED <<press, down, is_scrolling, finger_is_replay, now_record_index>>
  BY DEF Poll
<1>2. /\ Has \in [Holders -> Fingers \cup {-1}] /\ finger \in [Holders -> Fingers \cup {-1}]
      /\ HasAre(Has, finger, press, finger_is_replay) /\ finger_is_replay \subseteq Records
  BY HasNow DEF TouchIInv, TouchAux
<1>3. /\ \A k \in replays : k \in Holders /\ Has[k] = finger[k]
      /\ \A t \in old : t \in Holders /\ Has[t] = finger[t]
  BY <1>2, NamesHold DEF HasAre, Names
<1> HIDE DEF replays
<1>4. Screen(s1) /\ s1.used = screen.used /\ s1.touched = screen.touched \cup Moved
  <2>1. CASE Moved = {}
    BY <2>1 DEF TouchIInv, Replayed
  <2>2. CASE Moved # {}
    BY <2>2, Zenon DEF TouchIInv, Screen, Replayed
  <2> QED  BY <2>1, <2>2, Zenon
<1> HIDE DEF s1
<1>5. Screen(s2) /\ s2.used = s1.used \ Gone /\ s2.touched = s1.touched \ Gone
  BY <1>4, ZenonT(30) DEF Screen, Expired
<1> HIDE DEF s2
<1>6. ASSUME ~stray PROVE Owned(H, s2.used, s2.touched)
  <2>1. \A h \in Holders : Has[h] # -1 => Has[h] \in screen.used
    BY <1>6, Zenon DEF TouchIInv, Owned
  <2>2. \A k \in replays : finger[k] # -1 => finger[k] \in screen.used
    BY <1>3, <2>1, ZenonT(30)
  <2>3. Moved \subseteq screen.used
    BY <2>2, Zenon
  <2> HIDE DEF Moved
  <2>4. Owned(Has, s1.used, s1.touched)
    BY <1>4, <1>6, <2>3, ZenonT(30) DEF TouchIInv, Owned
  <2>5. old \subseteq Holders /\ Gone = {Has[t] : t \in old}
    BY <1>3
  <2>6. H = [h \in Holders |-> IF h \in old THEN -1 ELSE Has[h]]
    OBVIOUS
  <2> HIDE DEF Gone, H
  <2> QED  BY <1>5, <2>4, <2>5, <2>6, GivesAll
<1>7. /\ finger' \in [Holders -> Fingers \cup {-1}]
      /\ \A h \in Holders : finger'[h] = IF h \in old THEN -1 ELSE finger[h]
  BY <1>1, <1>2
<1>8. /\ H \in [Holders -> Fingers \cup {-1}]
      /\ \A h \in Holders : H[h] = IF h \in old THEN -1 ELSE Has[h]
  BY <1>2
<1> HIDE DEF H
<1>9. HasAre(H, finger', press', finger_is_replay')
  BY <1>1, <1>2, <1>7, <1>8, NamesHold, ZenonT(30) DEF HasAre, Names
<1>10. Has' = H
  BY <1>8, <1>9, HasIs DEF Has
<1>11. TouchAux'
  BY <1>1, <1>7, NamesHold DEF TouchIInv, TouchAux, Names
<1> QED  BY <1>1, <1>5, <1>6, <1>10, <1>11, ZenonT(30) DEF TouchIInv

LEMMA SameFingers ==
  ASSUME TouchIInv, Screen(screen'), screen'.used = screen.used, screen'.touched = screen.touched,
         UNCHANGED <<finger, press, down, is_scrolling, finger_is_replay, stray>>,
         now_record_index' \in {now_record_index, "none"}
  PROVE  TouchIInv'
BY DEF TouchIInv, TouchAux, Has

LEMMA UserKeeps ==
  ASSUME TouchIInv, UserEvent
  PROVE  TouchIInv'
<1>1. ASSUME NEW t \in TouchIds, Touch(t) \/ Untouch(t) PROVE TouchIInv'
  BY <1>1, TouchKeeps, UntouchKeeps
<1>2. ASSUME NEW k \in Records,
             start_mouse_record(k) \/ start_mouse_replay(k) \/ stop_mouse_replay(k)
      PROVE  TouchIInv'
  BY <1>2, StartRecordKeeps, StartReplayKeeps, StopReplayKeeps
<1>3. ASSUME stop_mouse_record PROVE TouchIInv'
  <2>1. /\ now_record_index' = "none"
        /\ UNCHANGED <<screen, finger, press, down, is_scrolling, finger_is_replay, stray>>
    BY <1>3 DEF stop_mouse_record
  <2> QED  BY <2>1, SameFingers DEF TouchIInv
<1>4. CASE \/ express_touchscreen_mouse_move_handle
           \/ PressLeft \/ ReleaseLeft \/ PressRight \/ ReleaseRight
           \/ express_touchscreen_mouse_scroll_handle
           \/ reset_touchscreen_input
  BY <1>4, MouseMoveKeeps, PressLeftKeeps, ReleaseLeftKeeps, PressRightKeeps, ReleaseRightKeeps,
     ScrollKeeps, ResetKeeps
<1> QED  BY <1>1, <1>2, <1>3, <1>4 DEF UserEvent

LEMMA InitTouchIInv == TouchInit => TouchIInv
<1> SUFFICES ASSUME TouchInit PROVE TouchIInv
  OBVIOUS
<1>1. Screen(screen) /\ screen.used = {} /\ screen.touched = {}
  BY Zenon DEF TouchInit, Screen
<1>2. /\ finger \in [Holders -> Fingers \cup {-1}]
      /\ \A h \in Holders \ Records : finger[h] = -1
  BY TouchPointAssumption DEF TouchInit, Fingers
<1>3. TouchAux
  BY <1>2, NamesHold DEF TouchAux, TouchInit, Names
<1>4. Has = [h \in Holders |-> -1]
  <2> DEFINE H == [h \in Holders |-> -1]
  <2>1. H \in [Holders -> Fingers \cup {-1}] /\ \A h \in Holders : H[h] = -1
    OBVIOUS
  <2> HIDE DEF H
  <2>2. press = {} /\ finger_is_replay = {}
    BY DEF TouchInit
  <2>3. HasAre(H, finger, press, finger_is_replay)
    BY <1>2, <2>1, <2>2, NamesHold DEF HasAre, Names
  <2> QED  BY <2>1, <2>3, HasIs DEF Has, H
<1>5. Owned(Has, screen.used, screen.touched)
  BY <1>1, <1>4 DEF Owned
<1> QED  BY <1>1, <1>3, <1>5 DEF TouchIInv

(* A step of the device is a callback, a poll or the end of a sync, or it  *)
(* leaves the fingers alone.                                               *)
LEMMA InputTouchIInv == TouchIInv /\ [InputNext]_inputvars => TouchIInv'
<1> SUFFICES ASSUME TouchIInv, [InputNext]_inputvars PROVE TouchIInv'
  OBVIOUS
<1>1. ASSUME UNCHANGED tvars PROVE TouchIInv'
  BY <1>1, SameFingers DEF tvars, records, TouchIInv
<1>2. ASSUME Synced PROVE TouchIInv'
  <2>1. /\ screen' = [screen EXCEPT !.need_sync = FALSE]
        /\ UNCHANGED <<finger, press, down, is_scrolling, finger_is_replay, stray>>
        /\ now_record_index' = now_record_index
    BY <1>2 DEF Synced, records
  <2>2. Screen(screen') /\ screen'.used = screen.used /\ screen'.touched = screen.touched
    BY <2>1, Zenon DEF TouchIInv, Screen
  <2> QED  BY <2>1, <2>2, SameFingers
<1>3. CASE User
  BY <1>3, UserKeeps DEF User
<1>4. ASSUME NEW old \in SUBSET TouchIds, M_Poll(old) PROVE TouchIInv'
  BY <1>4, PollKeeps DEF M_Poll
<1>5. (M_Skip(TRUE) => TouchIInv') /\ (M_Skip(FALSE) => TouchIInv')
  BY <1>2 DEF M_Skip, NoIrq
<1>6. CASE M_Write \/ M_Check
  BY <1>1, <1>6 DEF M_Write, M_Check
<1>7. CASE M_NotEnabled \/ M_Swap \/ M_Send \/ M_Sent
  BY <1>1, <1>2, <1>7 DEF M_NotEnabled, M_Swap, M_Send, M_Sent, NoIrq
<1>8. CASE GuestRead \/ GuestRegisters
  BY <1>1, <1>8 DEF GuestRead, GuestRegisters
<1>9. ASSUME NEW t \in Threads, Host(t) PROVE TouchIInv'
  BY <1>1, <1>9 DEF Host
<1>10. CASE UNCHANGED inputvars
  BY <1>1, <1>10 DEF inputvars
<1>11. CASE sync_express_touchscreen_input
  BY <1>4, <1>5, <1>6, <1>7, <1>11, Zenon DEF sync_express_touchscreen_input
<1>12. CASE UNCHANGED <<tvars, ivars>>
  BY <1>1, <1>12
<1>13. CASE \E t \in Threads : Host(t)
  BY <1>9, <1>13
<1>14. CASE InputNext
  BY <1>3, <1>5, <1>8, <1>11, <1>12, <1>13, <1>14, Zenon DEF InputNext
<1> QED  BY <1>10, <1>14

LEMMA HeldOnce == TouchIInv => FingerHeldOnce
<1> SUFFICES ASSUME TouchIInv, ~stray PROVE FingerHeldOnce
  BY DEF FingerHeldOnce
<1>1. /\ HasAre(Has, finger, press, finger_is_replay)
      /\ Owned(Has, screen.used, screen.touched)
  BY HasNow DEF TouchIInv
<1>2. ASSUME NEW h \in Holders
      PROVE  /\ Live(h) => Has[h] = finger[h] /\ finger[h] # -1
             /\ Has[h] # -1 => Live(h) /\ Has[h] = finger[h]
  BY <1>1, NamesHold DEF HasAre, Names, Live
<1>3. \A h, k \in {x \in Holders : Live(x)} : finger[h] = finger[k] => h = k
  BY <1>1, <1>2, ZenonT(30) DEF Owned
<1>4. \A f \in screen.used : \E h \in {x \in Holders : Live(x)} : finger[h] = f
  BY <1>1, <1>2, Zenon DEF Owned
<1>5. screen.touched \subseteq screen.used
  BY <1>1, Zenon DEF Owned
<1> QED  BY <1>3, <1>4, <1>5 DEF FingerHeldOnce

(* No two holders ever have the same finger and none is lost, for any      *)
(* number of fingers, touches and records, with or without the right       *)
(* button's second finger, and however the callbacks come between the      *)
(* steps of a sync.                                                        *)
THEOREM FingersAreHeld == InputSpec => []FingerHeldOnce
<1>1. InputInit => TouchIInv
  BY InitTouchIInv DEF InputInit
<1> QED  BY <1>1, InputTouchIInv, HeldOnce, PTL DEF InputSpec
===============================================================================
