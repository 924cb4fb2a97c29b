---------------------------- MODULE ScreenUpdate ----------------------------
(***************************************************************************)
(* How the picture the frontend shows comes about: the partial updates of  *)
(* the screen device (emu/screen.cpp, emu/video.cpp), the driver's         *)
(* screen_update that hands the bitmap to the capture, the mode changes of *)
(* the CRTC, the palette writes that draw ahead of the beam, and the       *)
(* frontend, who in each frame has the screen drawn up to the beam and     *)
(* shows what was captured.                                                *)
(*                                                                         *)
(* A pixel is its age: the number of vertical blankings since it was drawn *)
(* or Old, which is also a pixel of another mode or of a machine state     *)
(* that was replaced by load_state.  The bridge sets VIDEO_ALWAYS_UPDATE   *)
(* and makes no render target: an update is never skipped, and update_quads*)
(* never exchanges the two bitmaps, so there is one.                       *)
(*                                                                         *)
(* Time is counted in Ticks to a frame.  The driver sets a width and a     *)
(* height with no lines outside the visible area, so the vertical blanking *)
(* begins when the beam is back at the first line, and vblank_begin runs   *)
(* just before first_scanline_tick.  Yet vblank() holds for the 2.5 ms of  *)
(* set_vblank_time, in which the beam passes the first lines.              *)
(*                                                                         *)
(* Both updates also return when machine().time() is before                *)
(* m_last_partial_reset (screen.cpp 1175 and 1299).  That is left out,     *)
(* because it does not come about here.  The CPU is the only one, and runs *)
(* up to the next timer, so the frontend and the blanking look no earlier  *)
(* than the CPU did; and when its clock lags behind a blanking that has    *)
(* begun, by less than a cycle, vblank() holds and no palette write draws. *)
(***************************************************************************)
EXTENDS Integers, FiniteSetsExt

CONSTANTS
  Ticks,       \* points in time in a frame at which the frontend may look
  Modes,       \* sizes the guest sets: [w, h : Nat]
  VblankTicks, \* m_vblank_period (2.5 ms)
  Ahead,       \* lines a palette write draws ahead of the beam (4)
  MaxChanges   \* bound: mode changes and restored states

ASSUME ScreenAssumption ==
  /\ Ticks \in Nat \ {0} /\ MaxChanges \in Nat /\ VblankTicks \in Nat /\ Ahead \in Nat
  /\ Modes \subseteq [w : Nat \ {0}, h : Nat \ {0}] /\ Modes # {}
  /\ \A m \in Modes : m.w * m.h <= Ticks

VARIABLES
  now,       \* ticks since m_vblank_start_time
  mode,      \* m_width and m_height, with the visible area
  last,      \* m_last_partial_scan
  hpart,     \* m_partial_scan_hpos
  bitmap,    \* the ages of the pixels of m_bitmap
  captured,  \* the captured frame: its size and the ages of its pixels
  saved,     \* the save states that were taken, at most one
  calm,      \* history: vertical blankings since the last disturbance, at most 2
  changes    \* steps taken towards the bound

screenVars == <<last, hpart, bitmap, captured>>
vars == <<now, mode, screenVars, saved, calm, changes>>

Old  == 2
Ages == 0..Old

Pixels(m)  == (0..(m.h - 1)) \X (0..(m.w - 1))
Blank(m)   == [p \in Pixels(m) |-> Old]
Older(map) == [p \in DOMAIN map |-> Min({map[p] + 1, Old})]

-----------------------------------------------------------------------------
(* The beam *)

scantime(m)  == Ticks \div m.h
pixeltime(m) == Ticks \div (m.h * m.w)

\* Both divisions round down, and there is no room for one more pixel in a line:
\* a frame has some 10^16 attoseconds.
ASSUME BeamAssumption ==
  \A m \in Modes : scantime(m) < (m.w + 1) * pixeltime(m)

\* The line of time t, rounded to the nearest pixel, and the pixel in it.  Half
\* a pixel before the blanking the beam counts as back at the first line.
Line(t, m)  == (2 * t + pixeltime(m)) \div (2 * scantime(m))
vpos(t, m)  == (m.h + Line(t, m)) % m.h
hpos(t, m)  == (2 * t + pixeltime(m) - 2 * Line(t, m) * scantime(m)) \div (2 * pixeltime(m))

-----------------------------------------------------------------------------
(* Drawing.  s is the record of screenVars; an update maps it to the next one *)

Screen == [last |-> last, hpart |-> hpart, bitmap |-> bitmap, captured |-> captured]

Becomes(s) ==
  /\ last' = s.last /\ hpart' = s.hpart
  /\ bitmap' = s.bitmap /\ captured' = s.captured

\* screen_update of the driver, with a clip rectangle that is not empty: the
\* rectangle is drawn and the whole bitmap captured.
screen_update(s, rows, cols) ==
  LET drawn == [p \in DOMAIN s.bitmap |-> IF p \in rows \X cols THEN 0 ELSE s.bitmap[p]]
  IN IF rows = {} \/ cols = {} THEN s
     ELSE [s EXCEPT !.bitmap = drawn, !.captured = [size |-> mode, map |-> drawn]]

\* Mutant: the pixel in the line drawn last is kept.
mutant_keeps_hpart(s, scanline) ==
  LET rows == s.last..Min({mode.h - 1, scanline})
  IN IF scanline < s.last \/ rows = {} THEN s
     ELSE [screen_update(s, rows, 0..(mode.w - 1)) EXCEPT !.last = scanline + 1]

\* Draw the lines from the last one drawn to scanline.
update_partial(s, scanline) ==
  LET rows == s.last..Min({mode.h - 1, scanline})
  IN IF scanline < s.last \/ rows = {} THEN s
     ELSE [screen_update(s, rows, 0..(mode.w - 1)) EXCEPT !.last = scanline + 1, !.hpart = 0]

\* Draw up to the beam, at line v and pixel h: the rest of the line the last
\* update stopped in, the lines above the beam, and the line it is in.
update_now(s, t) ==
  LET v    == vpos(t, mode)
      h    == hpos(t, mode)
      rest == screen_update(s, {s.last} \cap 0..(mode.h - 1), s.hpart..(mode.w - 1))
      past == IF v > s.last /\ s.hpart > 0 THEN [rest EXCEPT !.hpart = 0, !.last = @ + 1] ELSE s
      up   == IF v > past.last THEN update_partial(past, v - 1) ELSE past
      line == screen_update(up, {v}, up.hpart..Min({mode.w - 1, h - 1}))
  IN IF v < s.last \/ (v = s.last /\ h = s.hpart) THEN s
     ELSE [line EXCEPT !.hpart = h, !.last = v]

reset_partial_updates(s) == [s EXCEPT !.last = 0, !.hpart = 0]

\* Mutant: the last line is left out.
mutant_forgets_last(s) ==
  update_partial(IF s.hpart > 0 THEN update_now(s, 0) ELSE s, mode.h - 2)

\* video_manager, when the beam is at the first line again: what is missing of
\* the frame is drawn.
finish_screen_updates(s) ==
  update_partial(IF s.hpart > 0 THEN update_now(s, 0) ELSE s, mode.h - 1)

-----------------------------------------------------------------------------
(* The guest and time *)

Init ==
  /\ mode \in Modes /\ now = 0 /\ last = 0 /\ hpart = 0
  /\ bitmap = Blank(mode) /\ captured = [size |-> mode, map |-> Blank(mode)]
  /\ saved = {} /\ calm = 0 /\ changes = 0

Tick ==
  /\ now < Ticks - 1 /\ now' = now + 1
  /\ UNCHANGED <<mode, screenVars, saved, calm, changes>>

\* The frame ends: vblank_begin, from which on time is counted, and
\* first_scanline_tick right after it.
vblank_begin ==
  /\ now = Ticks - 1 /\ now' = 0
  /\ LET s == reset_partial_updates(finish_screen_updates(Screen))
     IN Becomes([s EXCEPT !.bitmap = Older(@), !.captured.map = Older(@)])
  /\ calm' = Min({calm + 1, 2})
  /\ UNCHANGED <<mode, saved, changes>>

\* towns_crtc_refresh_mode, at every write to a CRTC register, with registers
\* that make sense; configure starts the frame's updates again if the beam is
\* in the first line.  With the size it has the bitmap keeps its pixels.
configure(m) ==
  /\ mode' = m
  /\ LET s == IF vpos(now, m) = 0 THEN reset_partial_updates(Screen) ELSE Screen
     IN Becomes([s EXCEPT !.bitmap = IF m = mode THEN @ ELSE Blank(m)])
  /\ IF m = mode THEN UNCHANGED <<calm, changes>>
     ELSE calm' = 0 /\ changes < MaxChanges /\ changes' = changes + 1
  /\ UNCHANGED <<now, saved>>

\* In the blank: time is before m_vblank_end_time.
vblank(t) == t < VblankTicks

\* A write to a palette register: outside the blank the lines up to Ahead below the
\* beam are drawn with the palette as it now is, also lines the screen lacks.
towns_update_palette ==
  /\ ~vblank(now)
  /\ Becomes(update_partial(Screen, vpos(now, mode) + Ahead))
  /\ UNCHANGED <<now, mode, saved, calm, changes>>

-----------------------------------------------------------------------------
(* The frontend *)

\* run_frame from force_video_update on: what is shown is captured'.
render_mame_frame ==
  /\ Becomes(update_now(Screen, now))
  /\ UNCHANGED <<now, mode, saved, calm, changes>>

\* The items the screen registers: m_partial_scan_hpos is not among them.
save_state ==
  /\ saved' = {[now |-> now, mode |-> mode, last |-> last]}
  /\ UNCHANGED <<now, mode, screenVars, calm, changes>>

\* load_state, with device_post_load: the bitmap gets the size, its pixels and
\* the captured frame stay and are the replaced machine's.
load_state ==
  /\ changes < MaxChanges /\ changes' = changes + 1
  /\ \E s \in saved :
       /\ now' = s.now /\ mode' = s.mode /\ last' = s.last
       /\ bitmap' = Blank(s.mode)
  /\ captured' = [captured EXCEPT !.map = Blank(captured.size)]
  /\ calm' = 0
  /\ UNCHANGED <<hpart, saved>>

Next ==
  \/ Tick
  \/ vblank_begin
  \/ \E m \in Modes : configure(m)
  \/ towns_update_palette
  \/ render_mame_frame
  \/ save_state
  \/ load_state

Spec == Init /\ [][Next]_vars

-----------------------------------------------------------------------------
\* Nothing is drawn outside the bitmap; no more is remembered as drawn than a line
\* has pixels and, with what a palette write near the bottom adds to it, than some
\* mode has lines.
TypeOK ==
  /\ now \in 0..(Ticks - 1) /\ mode \in Modes
  /\ last \in 0..(Max({m.h : m \in Modes}) + Ahead) /\ hpart \in 0..Max({m.w : m \in Modes})
  /\ bitmap \in [Pixels(mode) -> Ages]
  /\ captured.size \in Modes /\ captured.map \in [Pixels(captured.size) -> Ages]
  /\ calm \in 0..2 /\ changes \in 0..MaxChanges

\* A pixel the beam has passed, when it is at line v and pixel h.
Passed(p, v, h) == p[1] < v \/ (p[1] = v /\ p[2] < h)

\* What the frontend shows if it looks now, also when nothing is left to draw.
Shown == update_now(Screen, now).captured

\* Once a frame has begun in the present mode, the picture shown by
\* render_mame_frame holds every pixel the beam has passed as it was drawn in this
\* frame, however often and wherever in a line the updates before it stopped,
\* however far ahead of the beam palette writes drew, and whatever registers of
\* the CRTC were written.
ShownUpToBeam ==
  LET shown == Shown
      v     == vpos(now, mode)
      h     == hpos(now, mode)
  IN calm >= 1 => \A p \in Pixels(mode) : Passed(p, v, h) => shown.size = mode /\ shown.map[p] = 0

\* One frame later all the rest of it is of the frame before: nothing older,
\* of another mode or from before a restored state is shown any more, also when
\* the guest changed to fewer lines than were already drawn; and at all times the
\* drawing stays inside the bitmap.
NothingOlder ==
  LET shown == Shown
  IN /\ TypeOK
     /\ calm = 2 => shown.size = mode /\ \A p \in Pixels(mode) : shown.map[p] <= 1
=============================================================================
