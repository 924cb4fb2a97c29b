---------------------------- MODULE FramePresent ----------------------------
(***************************************************************************)
(* From the machine's screen to the frontend's: the capture of the bitmap  *)
(* (osd_libretro.cpp), its copy or its scaled copy into g_framebuffer      *)
(* (mame_bridge.cpp), the cropping of the black border when the widescreen *)
(* option is on, and the geometry announced with the frame                 *)
(* (fmtowns_libretro.cpp).                                                 *)
(*                                                                         *)
(* The two buffers are the linear arrays they are in the code: the frame   *)
(* buffer has lines of k_width pixels, of which a smaller picture leaves   *)
(* the rest as earlier pictures left it; the buffer presented after a crop *)
(* has lines as long as the crop is wide.                                  *)
(***************************************************************************)
EXTENDS Integers, FiniteSetsExt

CONSTANTS
  k_width, k_height,  \* the buffers' size, and the largest geometry
  k_margin,           \* dark lines and columns kept around the active ones
  MinSide,            \* a crop narrower or lower than this is not made
  Pictures            \* what the guest draws: [w, h : Nat, at : pixels -> Colours]

Colours == {"zero", "black", "lit"}  \* black has its unused byte set

\* Pixels are <<line, column>>.
Pixels(w, h) == (0..(h - 1)) \X (0..(w - 1))

ASSUME FrameAssumption ==
  /\ {k_width, k_height, MinSide} \subseteq Nat \ {0} /\ k_margin \in Nat
  /\ Pictures # {}
  /\ \A p \in Pictures :
       /\ {p.w, p.h} \subseteq Nat \ {0} /\ p.at \in [Pixels(p.w, p.h) -> Colours]
       /\ p = [w |-> p.w, h |-> p.h, at |-> p.at]

VARIABLES
  loaded,         \* g_runtime_loaded, with a running machine
  wide,           \* g_widescreen_enabled
  screen,         \* the bitmap of the screen device, of the visible area's size
  captured,       \* g_captured_frame with its width and height
  framebuffer,    \* g_framebuffer
  presentbuffer,  \* g_presentbuffer
  video,          \* <<m_video_width, m_video_height>>
  shown,          \* what the frontend's video callback last read
  geometry,       \* the size the frontend goes by
  refused         \* history: the frontend refused the last geometry

bufferVars == <<framebuffer, presentbuffer>>
vars == <<loaded, wide, screen, captured, bufferVars, video, shown, geometry, refused>>

NoPicture == [w |-> 0, h |-> 0, at |-> <<>>]
Offsets   == 0..(k_width * k_height - 1)
Cleared   == [i \in Offsets |-> "zero"]

-----------------------------------------------------------------------------
(* Copying *)

\* Mutant: only the width is looked at.
mutant_fits_wide(p) == p.w # 0 /\ p.w <= k_width

\* copy_captured_xrgb8888 and copy_video_frame: the picture is there and is not
\* larger than the frame buffer.
fits(p) == p.w # 0 /\ p.w <= k_width /\ p.h <= k_height

\* The picture brought to the size of the frame buffer by its nearest pixels.
scaled(p) ==
  [w |-> k_width, h |-> k_height,
   at |-> [q \in Pixels(k_width, k_height) |->
             p.at[<<Min({p.h - 1, (q[1] * p.h) \div k_height}),
                    Min({p.w - 1, (q[2] * p.w) \div k_width})>>]]]

\* The picture copy_video_frame copies: the captured one; one captured too
\* large is passed over for the pixels of the screen.
source ==
  IF fits(captured) THEN captured
  ELSE IF fits(screen) THEN screen ELSE scaled(screen)

\* The frame buffer with p at its upper left.
copy_video_frame(p) ==
  LET Copied == {q[1] * k_width + q[2] : q \in Pixels(p.w, p.h)}
  IN [i \in Offsets \cup Copied |->
        IF i \in Copied THEN p.at[<<i \div k_width, i % k_width>>] ELSE framebuffer[i]]

-----------------------------------------------------------------------------
(* Cropping *)

is_active_pixel(c) == c = "lit"

\* Mutant: columns are scanned in the topmost active line only.
mutant_top_line(buf, w, h) ==
  LET active(y, x) == is_active_pixel(buf[y * k_width + x])
      rows == {y \in 0..(h - 1) : \E x \in 0..(w - 1) : active(y, x)}
      cols == {x \in 0..(w - 1) : active(Min(rows), x)}
      x0 == Max({0, Min(cols) - k_margin})
      y0 == Max({0, Min(rows) - k_margin})
      rect == [x |-> x0, y |-> y0,
               width  |-> Min({w - 1, Max(cols) + k_margin}) - x0 + 1,
               height |-> Min({h - 1, Max(rows) + k_margin}) - y0 + 1]
  IN IF rows = {} \/ rect.width < MinSide \/ rect.height < MinSide THEN {} ELSE {rect}

\* Mutant: the margin below and to the right is added to the size as well.
mutant_wide_margin(buf, w, h) ==
  LET active(y, x) == is_active_pixel(buf[y * k_width + x])
      rows == {y \in 0..(h - 1) : \E x \in 0..(w - 1) : active(y, x)}
      cols == {x \in 0..(w - 1) : \E y \in Min(rows)..Max(rows) : active(y, x)}
      x0 == Max({0, Min(cols) - k_margin})
      y0 == Max({0, Min(rows) - k_margin})
      rect == [x |-> x0, y |-> y0,
               width  |-> Min({w - 1, Max(cols) + k_margin + 1}) - x0 + 1,
               height |-> Min({h - 1, Max(rows) + k_margin + 1}) - y0 + 1]
  IN IF rows = {} \/ rect.width < MinSide \/ rect.height < MinSide THEN {} ELSE {rect}

\* The rectangle of the active pixels with its margin, in the w by h pixels at
\* the upper left of the buffer: none or one.
detect_active_rect(buf, w, h) ==
  LET active(y, x) == is_active_pixel(buf[y * k_width + x])
      rows == {y \in 0..(h - 1) : \E x \in 0..(w - 1) : active(y, x)}
      cols == {x \in 0..(w - 1) : \E y \in Min(rows)..Max(rows) : active(y, x)}
      x0 == Max({0, Min(cols) - k_margin})
      y0 == Max({0, Min(rows) - k_margin})
      rect == [x |-> x0, y |-> y0,
               width  |-> Min({w - 1, Max(cols) + k_margin}) - x0 + 1,
               height |-> Min({h - 1, Max(rows) + k_margin}) - y0 + 1]
  IN IF rows = {} \/ rect.width < MinSide \/ rect.height < MinSide THEN {} ELSE {rect}

\* The present buffer with the rectangle r of buf packed at its start.
copy_cropped_frame(buf, r) ==
  LET Copied == 0..(r.width * r.height - 1)
  IN [i \in Offsets \cup Copied |->
        IF i \in Copied
        THEN buf[(r.y + i \div r.width) * k_width + r.x + (i % r.width)]
        ELSE presentbuffer[i]]

-----------------------------------------------------------------------------
(* Presenting *)

\* present_xrgb8888: what the frontend reads at a buffer with lines of pitch pixels.
present_xrgb8888(buf, w, h, pitch) ==
  shown' = [w |-> w, h |-> h, at |-> [q \in Pixels(w, h) |-> buf[q[1] * pitch + q[2]]]]

\* Mutant: a frame of the same width is taken to have the same height.
mutant_width_only(w, h, accepted) ==
  IF video[1] = w THEN UNCHANGED <<video, geometry, refused>>
  ELSE /\ video' = <<w, h>>
       /\ refused' = ~accepted
       /\ geometry' = IF accepted THEN <<w, h>> ELSE geometry

\* A size that differs from the last one announced is announced: the frontend
\* accepts it or does not, and is not asked again.
update_geometry(w, h, accepted) ==
  IF video = <<w, h>> THEN UNCHANGED <<video, geometry, refused>>
  ELSE /\ video' = <<w, h>>
       /\ refused' = ~accepted
       /\ geometry' = IF accepted THEN <<w, h>> ELSE geometry

\* The picture is copied, cropped if it can be, announced and presented.
render_mame_frame(accepted) ==
  LET p == source
      fb == copy_video_frame(p)
      crops == IF wide' THEN detect_active_rect(fb, p.w, p.h) ELSE {}
  IN /\ framebuffer' = fb
     /\ IF crops = {}
        THEN /\ present_xrgb8888(fb, p.w, p.h, k_width) /\ UNCHANGED presentbuffer
             /\ update_geometry(p.w, p.h, accepted)
        ELSE \E r \in crops :
             /\ presentbuffer' = copy_cropped_frame(fb, r)
             /\ present_xrgb8888(presentbuffer', r.width, r.height, r.width)
             /\ update_geometry(r.width, r.height, accepted)

-----------------------------------------------------------------------------
Init ==
  /\ loaded = FALSE /\ wide = FALSE /\ screen \in Pictures /\ captured = NoPicture
  /\ framebuffer = Cleared /\ presentbuffer = Cleared
  /\ video = <<0, 0>> /\ shown = NoPicture
  /\ geometry = <<k_width, k_height>> /\ refused = FALSE

\* The machine draws, in the slices run_frame gives it or at force_video_update,
\* and the driver's screen_update hands the bitmap to capture_xrgb8888.
capture_xrgb8888 ==
  /\ loaded
  /\ \E p \in Pictures : screen' = p /\ captured' = p
  /\ UNCHANGED <<loaded, wide, bufferVars, video, shown, geometry, refused>>

\* The guest changes the mode: the bitmap has the new size and whatever its
\* memory held, nothing is captured until it is drawn.
configure ==
  /\ loaded
  /\ \E p \in Pictures : <<p.w, p.h>> # <<screen.w, screen.h>> /\ screen' = p
  /\ UNCHANGED <<loaded, wide, captured, bufferVars, video, shown, geometry, refused>>

\* retro_run: the options may have changed; without a runtime an empty frame of
\* the full size is presented and nothing announced.
retro_run ==
  /\ wide' \in BOOLEAN
  /\ IF loaded
     THEN \E accepted \in BOOLEAN : render_mame_frame(accepted)
     ELSE /\ framebuffer' = Cleared
          /\ present_xrgb8888(framebuffer', k_width, k_height, k_width)
          /\ UNCHANGED <<presentbuffer, video, geometry, refused>>
  /\ UNCHANGED <<loaded, screen, captured>>

\* load of the runtime, which begins with unload: a new machine or none.  The
\* captured frame stays.
load(started) ==
  /\ loaded' = started
  /\ video' = <<0, 0>>
  /\ IF started THEN screen' \in Pictures ELSE UNCHANGED screen
  /\ UNCHANGED <<captured, bufferVars, shown>>

\* The frontend asks retro_get_system_av_info after a game was loaded.
retro_load_game ==
  /\ ~loaded /\ wide' \in BOOLEAN
  /\ \E started \in BOOLEAN :
       /\ load(started)
       /\ IF started THEN geometry' = <<k_width, k_height>> /\ refused' = FALSE
          ELSE UNCHANGED <<geometry, refused>>

\* retro_reset boots the machine again, and may fail to; the options stay.
retro_reset ==
  /\ loaded
  /\ \E started \in BOOLEAN : load(started)
  /\ UNCHANGED <<wide, geometry, refused>>

retro_unload_game ==
  /\ loaded
  /\ load(FALSE)
  /\ UNCHANGED <<wide, geometry, refused>>

\* A state is restored: the buffer is cleared and the size announced anew.
load_state ==
  /\ loaded
  /\ screen' \in Pictures
  /\ framebuffer' = Cleared /\ video' = <<0, 0>>
  /\ UNCHANGED <<loaded, wide, captured, presentbuffer, shown, geometry, refused>>

Next ==
  \/ capture_xrgb8888 \/ configure
  \/ retro_run
  \/ retro_load_game \/ retro_reset \/ retro_unload_game \/ load_state

Spec == Init /\ [][Next]_vars

-----------------------------------------------------------------------------
\* No picture and no crop is written past the end of a buffer (the buffers are
\* arrays of k_width * k_height pixels), and no frame is larger than the largest
\* geometry the frontend was told of.
TypeOK ==
  /\ {loaded, wide, refused} \subseteq BOOLEAN
  /\ screen \in Pictures /\ captured \in Pictures \cup {NoPicture}
  /\ framebuffer \in [Offsets -> Colours] /\ presentbuffer \in [Offsets -> Colours]
  /\ video \in (0..k_width) \X (0..k_height)
  /\ geometry \in (1..k_width) \X (1..k_height)
  /\ shown.w \in 0..k_width /\ shown.h \in 0..k_height

\* The steps the properties are about.
Presents == loaded /\ UNCHANGED <<loaded, screen, captured>> /\ retro_run

\* The frame shown is a rectangle of the picture with its corner at c.
IsPart(s, p, c) ==
  \A q \in DOMAIN s.at : s.at[q] = p.at[<<q[1] + c[1], q[2] + c[2]>>]

Corners(s, p) == (0..(p.h - s.h)) \X (0..(p.w - s.w))

Inside(q, s, c) == q[1] - c[1] \in 0..(s.h - 1) /\ q[2] - c[2] \in 0..(s.w - 1)

\* What is presented while a machine runs is a rectangle of its picture, with
\* every lit pixel of it: no line is displaced, nothing of an earlier picture
\* that the buffers still hold is seen, whatever sizes came before.
ShownIsPicture ==
  [][Presents =>
       \E c \in Corners(shown', source) :
         /\ IsPart(shown', source, c)
         /\ \A q \in DOMAIN source.at : is_active_pixel(source.at[q]) => Inside(q, shown', c)]_vars

\* Lines and columns of the frame that hold a lit pixel.
LitRows(s) == {q[1] : q \in {r \in DOMAIN s.at : is_active_pixel(s.at[r])}}
LitCols(s) == {q[2] : q \in {r \in DOMAIN s.at : is_active_pixel(s.at[r])}}

\* With the widescreen option a frame that is not the whole picture has at most
\* the margin around what is lit, and is no smaller than the least crop; one
\* that is whole could not be cropped any further, or is lit in a part smaller
\* than the least crop.  Without the option the whole picture is shown.
CropIsTight ==
  [][Presents =>
       LET s == shown'
           whole == s = source
           tight == /\ LitRows(s) # {}
                    /\ Min(LitRows(s)) <= k_margin /\ Max(LitRows(s)) >= s.h - 1 - k_margin
                    /\ Min(LitCols(s)) <= k_margin /\ Max(LitCols(s)) >= s.w - 1 - k_margin
           small == \/ LitRows(s) = {}
                    \/ Max(LitRows(s)) - Min(LitRows(s)) + 1 < MinSide
                    \/ Max(LitCols(s)) - Min(LitCols(s)) + 1 < MinSide
       IN IF whole THEN ~wide' \/ tight \/ small
          ELSE wide' /\ tight /\ s.w >= MinSide /\ s.h >= MinSide]_vars

\* A frame of a running machine has the size the frontend was last told, unless
\* it refused that size: after every change of mode, crop or machine, and after
\* the frontend fell back to the largest geometry.
GeometryFollows ==
  [][Presents => refused' \/ geometry' = <<shown'.w, shown'.h>>]_vars
=============================================================================
