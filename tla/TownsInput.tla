----------------------------- MODULE TownsInput -----------------------------
(***************************************************************************)
(* The way of the player's input into the machine: the options and the     *)
(* part of retro_run that reads the frontend's devices, the session's      *)
(* accumulated mouse position (set_mouse_input, set_joystick_input), the   *)
(* mouse on the MSX port (bus/msx/ctrl/mouse.cpp) and the driver's pad     *)
(* ports, with a guest that reads the mouse four bits at a time.           *)
(*                                                                         *)
(* Integers have the widths of the code: positions are 16 bits, a reported *)
(* motion is 8 bits, a nibble 4.                                           *)
(*                                                                         *)
(* Assumed of the guest, which is external: it begins a packet with the    *)
(* strobe low and after it was still for more than 3 ms (games read the    *)
(* mouse once per vertical blanking).  It may be interrupted in a packet   *)
(* for any time, or give it up.                                            *)
(***************************************************************************)
EXTENDS Integers

CONSTANTS
  Motions,      \* motions the frontend may report for a frame: [Axes -> Int]
  Buttons,      \* what can be pressed, of pads and mouse
  Options,      \* the option values in question: [mode : Modes, mouse : BOOLEAN]
  Presses,      \* what the frontend may find held down: a subset of Holds
  PadDevice,    \* the device on each pad port
  MaxFrames,    \* bound: calls of retro_run
  MaxFaults     \* bound: interrupted and abandoned packets, saves, restores, restarts

Axes    == {"x", "y"}
Players == 0..1
Modes   == {"keyboard", "retropad", "hybrid"}
Holds   == [pads : [Players -> SUBSET Buttons], mouse : SUBSET Buttons]

ASSUME InputAssumption ==
  /\ Motions \subseteq [Axes -> Int] /\ Presses \subseteq Holds
  /\ Options \subseteq [mode : Modes, mouse : BOOLEAN] /\ Options # {}
  /\ PadDevice \in [Players -> {"townspad", "martypad", "mouse", "none"}]
  /\ MaxFrames \in Nat /\ MaxFaults \in Nat

VARIABLES
  g_mode, g_mouse_enabled,   \* the options in use
  pads,                      \* buttons forced down on each pad port
  clicks,                    \* buttons forced down on the mouse port
  held,                      \* what the frontend held down in the last frame
  acc,                       \* m_mouse_x and m_mouse_y of the session
  mouse,                     \* the mouse device
  quiet,                     \* 3 ms have passed since its strobe changed
  pc,                        \* the guest: what it does next
  pin,                       \*   the level it wrote to pin 8
  k, got,                    \*   the nibbles it read of a packet
  cursor,                    \*   its cursor
  pos,                       \* history: the position of the player's hand
  base,                      \* history: the position the mouse took over last
  torn,                      \* history: the packet was interrupted
  clean,                     \* history: no motion was lost so far
  saved,                     \* the save states that were taken, at most one
  frames, faults             \* steps taken towards the bounds

hostVars  == <<g_mode, g_mouse_enabled, pads, clicks, held, acc, pos, frames>>
guest     == <<pc, pin, k, got, cursor>>
guestVars == <<mouse, quiet, guest, base, torn, clean>>
vars      == <<hostVars, guestVars, saved, faults>>

-----------------------------------------------------------------------------
(* The mouse *)

Still == [a \in Axes |-> 0]

\* device_reset, at the start of a machine.
NewMouse == [data |-> Still, stat |-> 3, old_pin8 |-> FALSE, last |-> Still]

\* Mutant: no time-out.
mutant_no_timeout(m, state, now) ==
  LET stat == (m.stat + 1) % 4
  IN IF m.old_pin8 = state THEN m
     ELSE IF stat # 0 THEN [m EXCEPT !.stat = stat, !.old_pin8 = state]
     ELSE [data |-> [a \in Axes |-> (m.last[a] - acc[a]) % 256], stat |-> 0,
           old_pin8 |-> state, last |-> acc]

\* Mutant: the position taken over is not remembered for the y axis.
mutant_forgets_y(m, state, now) ==
  LET stat == IF now THEN 0 ELSE (m.stat + 1) % 4
  IN IF m.old_pin8 = state THEN m
     ELSE IF stat # 0 THEN [m EXCEPT !.stat = stat, !.old_pin8 = state]
     ELSE [data |-> [a \in Axes |-> (m.last[a] - acc[a]) % 256], stat |-> 0,
           old_pin8 |-> state, last |-> [acc EXCEPT !["y"] = m.last["y"]]]

\* Mutant: a small motion to the left is left for later.
mutant_dead_zone(m, state, now) ==
  LET stat == IF now THEN 0 ELSE (m.stat + 1) % 4
  IN IF m.old_pin8 = state THEN m
     ELSE IF stat # 0 THEN [m EXCEPT !.stat = stat, !.old_pin8 = state]
     ELSE IF (m.last["x"] - acc["x"]) % 256 \in 1..20
     THEN [m EXCEPT !.stat = stat, !.old_pin8 = state, !.data = Still]
     ELSE [data |-> [a \in Axes |-> (m.last[a] - acc[a]) % 256], stat |-> 0,
           old_pin8 |-> state, last |-> acc]

\* A change of pin 8 steps to the next nibble; after 3 ms without one, 'now', to
\* the first.  The first takes the motion over, eight bits for each axis.
pin_8_w(m, state, now) ==
  LET stat == IF now THEN 0 ELSE (m.stat + 1) % 4
  IN IF m.old_pin8 = state THEN m
     ELSE IF stat # 0 THEN [m EXCEPT !.stat = stat, !.old_pin8 = state]
     ELSE [data |-> [a \in Axes |-> (m.last[a] - acc[a]) % 256], stat |-> 0,
           old_pin8 |-> state, last |-> acc]

\* read: the high and the low nibble of x, then of y.
Nibble(m) ==
  CASE m.stat = 0 -> m.data["x"] \div 16
    [] m.stat = 1 -> m.data["x"] % 16
    [] m.stat = 2 -> m.data["y"] \div 16
    [] m.stat = 3 -> m.data["y"] % 16

-----------------------------------------------------------------------------
(* The frontend *)

Shut == [p \in Players |-> {}]

NoNibbles == [i \in 0..3 |-> 0]

Init ==
  /\ \E o \in Options : g_mode = o.mode /\ g_mouse_enabled = o.mouse
  /\ pads = Shut /\ clicks = {} /\ held = [pads |-> Shut, mouse |-> {}]
  /\ acc = Still /\ pos = Still /\ base = Still
  /\ mouse = NewMouse /\ quiet = FALSE
  /\ pc = "idle" /\ pin = FALSE /\ k = 0 /\ got = NoNibbles /\ cursor = Still
  /\ torn = FALSE /\ clean = TRUE
  /\ saved = {} /\ frames = 0 /\ faults = 0

\* The options as they are now.
refresh_core_options ==
  \E o \in Options : g_mode' = o.mode /\ g_mouse_enabled' = o.mouse

\* Mutant: nothing is forwarded in keyboard mode.
mutant_leaves_pads(down) ==
  pads' = [p \in Players |-> IF PadDevice[p] # "townspad" \/ g_mode' = "keyboard" THEN pads[p] ELSE down[p]]

\* The pads: in keyboard mode they are released.  A port is found by the name
\* townspad; another device is left alone.
set_joystick_input(down) ==
  pads' = [p \in Players |->
             IF PadDevice[p] # "townspad" THEN pads[p]
             ELSE IF g_mode' = "keyboard" THEN {} ELSE down[p]]

\* The position accumulates and becomes the value of the port.
set_mouse_input(motion, down) ==
  /\ acc' = [a \in Axes |-> (acc[a] + motion[a]) % 65536]
  /\ clicks' = down

\* retro_run up to the frame: the options, if they changed, the pads, and the
\* mouse if it is enabled.  A hand that moves while it is not moves nothing.
RetroRun(motion, press) ==
  /\ frames < MaxFrames /\ frames' = frames + 1
  /\ refresh_core_options
  /\ set_joystick_input(press.pads)
  /\ held' = press
  /\ \/ /\ g_mouse_enabled'
        /\ set_mouse_input(motion, press.mouse)
        /\ pos' = [a \in Axes |-> pos[a] + motion[a]]
     \/ /\ ~g_mouse_enabled'
        /\ UNCHANGED <<acc, clicks, pos>>
  /\ UNCHANGED <<guestVars, saved, faults>>

-----------------------------------------------------------------------------
(* The guest *)

\* Emulated time: the strobe has been still for more than 3 ms.
Wait ==
  /\ ~quiet /\ quiet' = TRUE
  /\ pc = "idle"
  /\ UNCHANGED <<hostVars, mouse, guest, base, torn, clean, saved, faults>>

Begin ==
  /\ pc = "idle" /\ quiet
  /\ pc' = "strobe" /\ torn' = FALSE
  /\ UNCHANGED <<hostVars, pin, k, got, cursor, mouse, quiet, base, clean, saved, faults>>

Fits(motion) == \A a \in Axes : motion[a] \in -127..128

\* towns_pad_mask_w: bit 5 goes to pin 8 of the second port, where the mouse is.
\* 'whole' says that the write does not end a packet before its time.
towns_pad_mask_w(level, whole) ==
  LET m == pin_8_w(mouse, level, quiet)
      takes == mouse.old_pin8 # level /\ m.stat = 0 /\ m.last = acc
      went  == [a \in Axes |-> pos[a] - base[a]]
  IN /\ mouse' = m
     /\ quiet' = (quiet /\ mouse.old_pin8 = level)
     /\ base' = IF takes THEN pos ELSE base
     /\ clean' = (clean /\ whole /\ (takes => Fits(went)))

Strobe ==
  /\ pc = "strobe"
  /\ towns_pad_mask_w(~pin, k = 0 \/ ~quiet)
  /\ pin' = ~pin /\ pc' = "read"
  /\ torn' = (torn \/ (quiet /\ k > 0))
  /\ UNCHANGED <<hostVars, k, got, cursor, saved, faults>>

Signed(byte) == IF byte < 128 THEN byte ELSE byte - 256

Byte(g, a) == IF a = "x" THEN 16 * g[0] + g[1] ELSE 16 * g[2] + g[3]

\* towns_padport_r: the nibble; the last one completes the packet, and the guest
\* moves its cursor against the motion reported.
Read ==
  /\ pc = "read"
  /\ LET now == [got EXCEPT ![k] = Nibble(mouse)]
     IN \/ /\ k < 3
           /\ pc' = "strobe" /\ k' = k + 1 /\ got' = now
           /\ UNCHANGED cursor
        \/ /\ k = 3
           /\ pc' = "idle" /\ k' = 0 /\ got' = NoNibbles
           /\ cursor' = [a \in Axes |-> cursor[a] - Signed(Byte(now, a))]
  /\ UNCHANGED <<hostVars, pin, mouse, quiet, base, torn, clean, saved, faults>>

-----------------------------------------------------------------------------
(* What disturbs it *)

Fault == faults < MaxFaults /\ faults' = faults + 1

InPacket == pc = "read" \/ (pc = "strobe" /\ k > 0)

\* The guest is kept from its packet for more than 3 ms.
Interrupt ==
  /\ Fault /\ InPacket /\ ~quiet
  /\ quiet' = TRUE
  /\ UNCHANGED <<hostVars, mouse, guest, base, torn, clean, saved>>

\* The guest leaves a packet and lowers its strobe.
Abandon ==
  /\ Fault /\ InPacket
  /\ towns_pad_mask_w(FALSE, FALSE)
  /\ pc' = "idle" /\ pin' = FALSE /\ k' = 0 /\ got' = NoNibbles
  /\ UNCHANGED <<hostVars, cursor, torn, saved>>

\* save_state and load_state: the machine goes back, the session's position,
\* the values forced on the ports and the player's hand do not.
SaveState ==
  /\ Fault
  /\ saved' = {[mouse |-> mouse, quiet |-> quiet, base |-> base, torn |-> torn, clean |-> clean,
                pc |-> pc, pin |-> pin, k |-> k, got |-> got, cursor |-> cursor]}
  /\ UNCHANGED <<hostVars, guestVars>>

LoadState ==
  /\ Fault
  /\ \E s \in saved :
       /\ mouse' = s.mouse /\ quiet' = s.quiet
       /\ pc' = s.pc /\ pin' = s.pin /\ k' = s.k /\ got' = s.got /\ cursor' = s.cursor
       /\ base' = s.base /\ torn' = s.torn /\ clean' = s.clean
  /\ UNCHANGED <<hostVars, saved>>

\* retro_reset: the session starts anew, and with it the position.
Restart ==
  /\ Fault
  /\ acc' = Still /\ pos' = Still /\ base' = Still
  /\ mouse' = NewMouse /\ quiet' = FALSE
  /\ pc' = "idle" /\ pin' = FALSE /\ k' = 0 /\ got' = NoNibbles /\ cursor' = Still
  /\ pads' = Shut /\ clicks' = {} /\ held' = [pads |-> Shut, mouse |-> {}]
  /\ torn' = FALSE /\ clean' = TRUE
  /\ UNCHANGED <<g_mode, g_mouse_enabled, frames, saved>>

-----------------------------------------------------------------------------
Guest == Wait \/ Begin \/ Strobe \/ Read

Next ==
  \/ \E motion \in Motions, press \in Presses : RetroRun(motion, press)
  \/ Guest
  \/ Interrupt
  \/ Abandon
  \/ SaveState
  \/ LoadState
  \/ Restart

Spec == Init /\ [][Next]_vars

\* Emulated time passes, and the guest reads the mouse again and again.
FairSpec == Spec /\ WF_vars(Guest)

-----------------------------------------------------------------------------
Width     == 65536
Words     == 0..(Width - 1)
Positions == [Axes -> Words]
Mice   == [data : [Axes -> 0..255], stat : 0..3, old_pin8 : BOOLEAN, last : Positions]
Pcs    == {"idle", "strobe", "read"}
Packets == [0..3 -> 0..15]
Saves  == [mouse : Mice, quiet : BOOLEAN, base : [Axes -> Int], torn : BOOLEAN, clean : BOOLEAN,
           pc : Pcs, pin : BOOLEAN, k : 0..3, got : Packets, cursor : [Axes -> Int]]

\* The registers keep the widths of the code, whatever the frontend reports.
TypeOK ==
  /\ g_mode \in Modes /\ g_mouse_enabled \in BOOLEAN
  /\ pads \in [Players -> SUBSET Buttons] /\ clicks \in SUBSET Buttons
  /\ held \in Holds
  /\ acc \in Positions /\ pos \in [Axes -> Int]
  /\ mouse \in Mice /\ quiet \in BOOLEAN
  /\ pc \in Pcs /\ pin \in BOOLEAN /\ k \in 0..3 /\ got \in Packets /\ cursor \in [Axes -> Int]
  /\ base \in [Axes -> Int] /\ torn \in BOOLEAN /\ clean \in BOOLEAN
  /\ saved \subseteq Saves
  /\ frames \in Nat /\ faults \in Nat

\* While the guest reads a packet that was not interrupted, the mouse shows the
\* nibble the guest means, whatever became of the packets before it: pin_8_w
\* finds its way back by the time-out alone.
Aligned == pc = "read" /\ ~torn => mouse.stat = k

\* Between two packets the guest's cursor is where the player's hand was when
\* the mouse last took it over: motion that arrives while a packet is read, or
\* makes the 16 bit position wrap, is neither lost nor counted twice.  A motion
\* of more than eight bits, an interrupted and an abandoned packet are excepted;
\* a motion made since the save state that is restored is reported in one piece.
CursorFollows == pc = "idle" /\ clean => cursor = base

\* Between two frames the ports show what the frontend held down in the last
\* one: nothing stays pressed when the mode changes, a state is restored or the
\* content restarted.  While the mouse is disabled its buttons stay as they are.
\* Pads are forwarded in the hybrid mode too (joypad_input_enabled), although the
\* comment in retro_run (1034-1036) speaks of the mode dedicated to RetroPad only.
ButtonsFollow ==
  /\ \A p \in Players : PadDevice[p] = "townspad" =>
       pads[p] = (IF g_mode = "keyboard" THEN {} ELSE held.pads[p])
  /\ g_mouse_enabled => clicks = held.mouse

\* When the hand rests, the mouse takes its last position over for good: the
\* packets begin again after any disturbance.  With Aligned and CursorFollows, the
\* guest's cursor then is where the hand is.
Reported == <>[](base = pos)
=============================================================================
