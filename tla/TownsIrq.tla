------------------------------ MODULE TownsIrq ------------------------------
(***************************************************************************)
(* The interrupts of the FM Towns driver (fmtowns.cpp, fmtowns_v.cpp): the *)
(* timers and port 60, the keyboard, the serial port, the floppy           *)
(* controller, SCSI, the vertical sync, and the sound chips, through two   *)
(* cascaded interrupt controllers to a guest that serves them.  (The       *)
(* CD-ROM controller's interrupt is in TownsCdrom.)                        *)
(*                                                                         *)
(* Device callbacks come at any moment.  A timer with no delay fires       *)
(* before the CPU's next instruction, so the guest acts only when neither  *)
(* controller has one pending.  The guest is external to the emulator: it  *)
(* serves one interrupt at a time and, for the sound chips, which share a  *)
(* request, looks again until neither asks for anything.                   *)
(***************************************************************************)
EXTENDS Pic8259

CONSTANTS
    Keys,           \* scan codes that occur, positive numbers
    Channels,       \* PCM channels that occur
    MaxEvents       \* bound: device events and register writes of the guest

ASSUME KeysAssumption == Keys \subseteq 1..127
ASSUME EventsAssumption == MaxEvents \in Nat

VARIABLES
    master, slave,  \* the two controllers
    tim,            \* PIT outputs, m_timer0, m_timer1, m_towns_timer_mask
    kb,             \* the keyboard controller
    snd,            \* FM and PCM interrupt flags, PCM channel flags and mask
    ser,            \* m_serial_irq_enable, _state and _source
    fdcmask,        \* m_towns_fdc_irq6mask
    vid,            \* vertical blank, sprite engine, page on the screen
    cpu,            \* what the guest does: the program, or serving a request
    whole,          \* history: the sprite pages with no drawing to be done
    events

devVars == <<tim, kb, snd, ser, fdcmask, vid, whole>>
vars == <<master, slave, devVars, cpu, events>>

Sources == {"rx", "tx", "syndet"}
NoCode == 255       \* m_towns_kb_extend: no second byte to come
Bytes == 0..NoCode

\* The first byte of a key: bit 7 and the keyboard type, and bit 4 for a release.
\* The modifier bits are left out.
First(release) == IF release THEN 208 ELSE 192

Idle == [at |-> "run", pic |-> "none", irq |-> NoLevel]

\* machine_start and machine_reset, and controllers the guest has initialised
\* edge or level triggered.
Init ==
    /\ \E level_trig, nested \in BOOLEAN :
          /\ master = Initialised({7}, level_trig, nested)
          /\ slave = Initialised({}, level_trig, FALSE)
    /\ tim = [out |-> {}, timer |-> {}, mask |-> {}]
    /\ kb = [ready |-> FALSE, enable |-> FALSE, output |-> 0, extend |-> 0, prev |-> {}]
    /\ snd = [fm |-> FALSE, pcm |-> FALSE, flag |-> {}, mask |-> Channels]
    /\ ser = [enable |-> {}, state |-> {}, source |-> FALSE]
    /\ fdcmask = FALSE
    /\ vid = [vblank |-> FALSE, on |-> FALSE, flag |-> FALSE, page |-> 0, shown |-> 0]
    /\ whole = {0, 1}
    /\ cpu = Idle
    /\ events = 0

-----------------------------------------------------------------------------
(* The driver's handlers.                                                  *)

\* towns_pit_out0_changed and towns_pit_out1_changed.
towns_pit_out_changed(ch, state) ==
    LET timer == IF state /\ ch \in tim.mask THEN tim.timer \cup {ch} ELSE tim.timer \ {ch}
    IN /\ tim' = [tim EXCEPT !.out = IF state THEN @ \cup {ch} ELSE @ \ {ch}, !.timer = timer]
       /\ master' = set_irq_line(master, 0, timer # {})
       /\ UNCHANGED <<slave, kb, snd, ser, fdcmask, vid, whole>>

\* towns_port60_w: the mask, and with bit 7 the reset of timer 0's request.  (The
\* speaker is left out.)
towns_port60_w(reset, mask) ==
    LET timer == IF reset THEN tim.timer \ {0} ELSE tim.timer
    IN /\ tim' = [tim EXCEPT !.timer = timer, !.mask = mask]
       /\ master' = IF reset THEN set_irq_line(master, 0, timer # {}) ELSE master
       /\ UNCHANGED <<slave, kb, snd, ser, fdcmask, vid, whole>>

\* kb_sendcode, on the keyboard and on the controller it leaves.
kb_sendcode(k, output, extend) ==
    [k EXCEPT !.output = output, !.extend = extend, !.ready = TRUE]
kb_raises(p) == IF kb.enable THEN set_irq_line(p, 1, TRUE) ELSE p

\* poll_keyboard: one code for each key that changed since the last poll, in the
\* order of the scan codes.  There is one place for a code, so of several only
\* the last one stays.
poll_keyboard(pressed) ==
    LET changed == (pressed \ kb.prev) \cup (kb.prev \ pressed)
        last == Max(changed)
    IN /\ changed # {}
       /\ kb' = [kb_sendcode(kb, First(last \notin pressed), last) EXCEPT !.prev = pressed]
       /\ master' = kb_raises(master)
       /\ UNCHANGED <<slave, tim, snd, ser, fdcmask, vid, whole>>

\* Mutant: the line is not lowered before the second byte is offered.
mutant_keyboard_line_up ==
    /\ kb' = IF kb.extend # NoCode THEN kb_sendcode(kb, kb.extend, NoCode)
             ELSE [kb EXCEPT !.ready = FALSE]
    /\ master' = IF kb.extend # NoCode THEN kb_raises(master) ELSE set_irq_line(master, 1, FALSE)
    /\ UNCHANGED <<slave, tim, snd, ser, fdcmask, vid, whole>>

\* towns_keyboard_r, data port: the second byte follows the first one, with an
\* interrupt of its own.
towns_keyboard_r ==
    LET low == set_irq_line(master, 1, FALSE)
    IN /\ IF kb.extend # NoCode
          THEN kb' = kb_sendcode(kb, kb.extend, NoCode) /\ master' = kb_raises(low)
          ELSE kb' = [kb EXCEPT !.ready = FALSE] /\ master' = low
       /\ UNCHANGED <<slave, tim, snd, ser, fdcmask, vid, whole>>

\* towns_keyboard_w: a command sets the same status bit as a code does; the
\* interrupt enable bit.  (The busy bit of the status is left out.)
towns_keyboard_w(offset, data) ==
    /\ kb' = IF offset = 0 THEN [kb EXCEPT !.ready = TRUE] ELSE [kb EXCEPT !.enable = data]
    /\ UNCHANGED <<master, slave, tim, snd, ser, fdcmask, vid, whole>>

\* towns_fm_irq: FM and PCM share a request, which falls when neither asks.
towns_fm_irq(state) ==
    /\ snd' = [snd EXCEPT !.fm = state]
    /\ slave' = IF state THEN set_irq_line(slave, 5, TRUE)
                ELSE IF ~snd.pcm THEN set_irq_line(slave, 5, FALSE) ELSE slave
    /\ UNCHANGED <<master, tim, kb, ser, fdcmask, vid, whole>>

\* towns_pcm_irq.
towns_pcm_irq(channel) ==
    /\ channel \in snd.mask
    /\ snd' = [snd EXCEPT !.pcm = TRUE, !.flag = @ \cup {channel}]
    /\ slave' = set_irq_line(slave, 5, TRUE)
    /\ UNCHANGED <<master, tim, kb, ser, fdcmask, vid, whole>>

\* Mutant: reading the PCM flags lowers the line whatever FM does.
mutant_pcm_lowers ==
    /\ snd' = [snd EXCEPT !.pcm = FALSE, !.flag = {}]
    /\ slave' = set_irq_line(slave, 5, FALSE)
    /\ UNCHANGED <<master, tim, kb, ser, fdcmask, vid, whole>>

\* towns_sound_ctrl_r, PCM flags: reading clears them.
towns_sound_ctrl_r ==
    /\ snd' = [snd EXCEPT !.pcm = FALSE, !.flag = {}]
    /\ slave' = IF ~snd.fm THEN set_irq_line(slave, 5, FALSE) ELSE slave
    /\ UNCHANGED <<master, tim, kb, ser, fdcmask, vid, whole>>

\* towns_sound_ctrl_w: the PCM channels that may interrupt.
towns_sound_ctrl_w(mask) ==
    /\ snd' = [snd EXCEPT !.mask = mask]
    /\ UNCHANGED <<master, slave, tim, kb, ser, fdcmask, vid, whole>>

\* towns_rxrdy_irq, towns_txrdy_irq and towns_syndet_irq, with towns_serial_irq:
\* a falling signal takes the guest's enable bit back and leaves the state bit;
\* the line is looked at only while the enable bit is set.
towns_serial_ready_irq(source, state) ==
    LET enable == IF state THEN ser.enable ELSE ser.enable \ {source}
        pending == IF state THEN ser.state \cup {source} ELSE ser.state
        request == enable \cap pending # {}
        looks == source \in enable /\ request # ser.source
    IN /\ ser' = [enable |-> enable, state |-> pending,
                  source |-> IF looks THEN request ELSE ser.source]
       /\ master' = IF looks THEN set_irq_line(master, 2, request) ELSE master
       /\ UNCHANGED <<slave, tim, kb, snd, fdcmask, vid, whole>>

\* towns_serial_w, interrupt control.
towns_serial_w(enable) ==
    /\ ser' = [ser EXCEPT !.enable = enable]
    /\ UNCHANGED <<master, slave, tim, kb, snd, fdcmask, vid, whole>>

\* mb8877a_irq_w, and the mask in towns_floppy_w, which does not look at the line.
mb8877a_irq_w(state) ==
    /\ master' = set_irq_line(master, 6, state /\ fdcmask)
    /\ UNCHANGED <<slave, devVars>>
towns_floppy_w(mask) ==
    /\ fdcmask' = mask
    /\ UNCHANGED <<master, slave, tim, kb, snd, ser, vid, whole>>

\* towns_scsi_irq.
towns_scsi_irq(state) ==
    /\ slave' = set_irq_line(slave, 0, state)
    /\ UNCHANGED <<master, devVars>>

\* Mutant: the pages are flipped although a drawing is not done.
mutant_flip_anytime ==
    /\ ~vid.vblank
    /\ slave' = set_irq_line(slave, 3, TRUE)
    /\ vid' = IF vid.on
              THEN [vid EXCEPT !.vblank = TRUE, !.page = 1 - @, !.shown = vid.page, !.flag = TRUE]
              ELSE [vid EXCEPT !.vblank = TRUE]
    /\ whole' = IF vid.on THEN whole \ {vid'.page} ELSE whole
    /\ UNCHANGED <<master, tim, kb, snd, ser, fdcmask>>

\* towns_vsync_irq, with towns_sprite_start.  A blank ends before the next one
\* starts.  With sprites on and no drawing to be done the two pages are flipped:
\* CRTC register 21 shows the one drawn last.  (The text layer is left out.)
towns_vsync_irq ==
    /\ ~vid.vblank
    /\ slave' = set_irq_line(slave, 3, TRUE)
    /\ IF vid.on /\ ~vid.flag
       THEN /\ vid' = [vid EXCEPT !.vblank = TRUE, !.page = 1 - @, !.shown = vid.page, !.flag = TRUE]
            /\ whole' = whole \ {vid'.page}
       ELSE /\ vid' = [vid EXCEPT !.vblank = TRUE]
            /\ UNCHANGED whole
    /\ UNCHANGED <<master, tim, kb, snd, ser, fdcmask>>

\* draw_sprites, when sprite_timer expires: whatever the engine's registers say
\* by then, it draws the current page.
draw_sprites ==
    /\ vid.flag
    /\ vid' = [vid EXCEPT !.flag = FALSE]
    /\ whole' = whole \cup {vid.page}
    /\ UNCHANGED <<master, slave, tim, kb, snd, ser, fdcmask>>

\* towns_vblank_end, and the guest's write to port 5ca.
towns_vblank_end ==
    /\ vid.vblank
    /\ slave' = set_irq_line(slave, 3, FALSE)
    /\ vid' = [vid EXCEPT !.vblank = FALSE]
    /\ UNCHANGED <<master, tim, kb, snd, ser, fdcmask, whole>>
towns_video_5c8_w ==
    /\ slave' = set_irq_line(slave, 3, FALSE)
    /\ UNCHANGED <<master, devVars>>

\* towns_video_440_w, the registers of the sprite engine: its enable bit, its
\* page, and the page on the screen in the high byte of CRTC register 21, which
\* is the engine's while sprites are on.
towns_video_440_w(reg, data) ==
    /\ vid' = CASE reg = "enable" -> [vid EXCEPT !.on = (data = 1)]
                [] reg = "page" -> [vid EXCEPT !.page = data]
                [] reg = "crtc21" -> [vid EXCEPT !.shown = IF vid.on THEN @ ELSE data]
    /\ UNCHANGED <<master, slave, tim, kb, snd, ser, fdcmask, whole>>

-----------------------------------------------------------------------------
(* The controllers' timers.                                                *)

MasterTick ==
    /\ master.timer
    /\ master' = irq_timer_tick(master)
    /\ UNCHANGED <<slave, devVars, cpu, events>>

\* The slave's output is request 7 of the master.
SlaveTick ==
    /\ slave.timer
    /\ slave' = irq_timer_tick(slave)
    /\ master' = set_irq_line(master, 7, INT(slave'))
    /\ UNCHANGED <<devVars, cpu, events>>

Settled == ~master.timer /\ ~slave.timer

-----------------------------------------------------------------------------
(* The guest.                                                              *)

\* The CPU takes the interrupt: the master's acknowledge asks the slave for its
\* vector (get_slave_ack) when the request is the slave's.
Take ==
    LET cascaded == master.level \in master.slaves
    IN /\ Settled /\ cpu.at = "run" /\ INT(master)
       /\ master' = acknowledge(master)
       /\ slave' = IF cascaded /\ INT(slave) THEN acknowledge(slave) ELSE slave
       /\ cpu' = [at |-> "serve", pic |-> IF cascaded THEN "slave" ELSE "master",
                  irq |-> IF cascaded THEN slave.level ELSE master.level]
       /\ UNCHANGED <<devVars, events>>

Serving(pic, irq) == cpu = [at |-> "serve", pic |-> pic, irq |-> irq]

\* The bodies of the interrupt routines that are done in one step.
Serve ==
    /\ Settled
    /\ \/ Serving("master", 0) /\ towns_port60_w(TRUE, tim.mask)
       \/ Serving("master", 1) /\ towns_keyboard_r
       \/ Serving("master", 2) /\ towns_serial_ready_irq("rx", FALSE)
       \/ Serving("master", 6) /\ mb8877a_irq_w(FALSE)
       \/ Serving("slave", 0) /\ towns_scsi_irq(FALSE)
       \/ Serving("slave", 3) /\ towns_video_5c8_w
    /\ cpu' = [cpu EXCEPT !.at = "eoi"]
    /\ UNCHANGED events

\* The sound routine: it resets the chip that asks, and looks again.
ServeSound ==
    /\ Settled /\ Serving("slave", 5)
    /\ \/ snd.fm /\ towns_fm_irq(FALSE) /\ UNCHANGED cpu
       \/ snd.pcm /\ towns_sound_ctrl_r /\ UNCHANGED cpu
       \/ /\ ~snd.fm /\ ~snd.pcm
          /\ cpu' = [cpu EXCEPT !.at = "eoi"]
          /\ UNCHANGED <<master, slave, devVars>>
    /\ UNCHANGED events

\* The end of interrupt, to the slave first.
Eoi ==
    /\ Settled /\ cpu.at = "eoi"
    /\ \/ cpu.pic = "slave" /\ slave' = end_of_interrupt(slave) /\ UNCHANGED master
          /\ cpu' = [cpu EXCEPT !.pic = "master"]
       \/ cpu.pic = "master" /\ master' = end_of_interrupt(master) /\ UNCHANGED slave
          /\ cpu' = Idle
    /\ UNCHANGED <<devVars, events>>

\* A program that has not enabled the keyboard interrupt polls the status.
PollKeyboard ==
    /\ Settled /\ cpu.at = "run" /\ kb.ready /\ ~kb.enable
    /\ towns_keyboard_r
    /\ UNCHANGED <<cpu, events>>

\* Register writes of the program.  It changes the sprite pages only when the
\* status port says that no drawing is to be done.
MaskMaster(imr) == master' = write_mask(master, imr) /\ UNCHANGED <<slave, devVars>>
MaskSlave(imr) == slave' = write_mask(slave, imr) /\ UNCHANGED <<master, devVars>>

Write ==
    /\ Settled /\ cpu.at = "run" /\ events < MaxEvents
    /\ \/ \E mask \in SUBSET {0, 1} : towns_port60_w(FALSE, mask)
       \/ towns_keyboard_w(0, FALSE)
       \/ \E enable \in BOOLEAN : towns_keyboard_w(2, enable)
       \/ \E mask \in SUBSET Channels : towns_sound_ctrl_w(mask)
       \/ \E enable \in SUBSET Sources : towns_serial_w(enable)
       \/ \E mask \in BOOLEAN : towns_floppy_w(mask)
       \/ \E data \in {0, 1} : towns_video_440_w("enable", data)
       \/ ~vid.flag /\ \E reg \in {"page", "crtc21"}, data \in {0, 1} : towns_video_440_w(reg, data)
       \/ \E imr \in {{}, {0}, {1, 7}} : MaskMaster(imr)
       \/ \E imr \in {{}, {3}, {5}} : MaskSlave(imr)
    /\ events' = events + 1
    /\ UNCHANGED cpu

-----------------------------------------------------------------------------
(* The devices.                                                            *)

Device ==
    /\ events < MaxEvents
    /\ \/ \E ch \in {0, 1} : towns_pit_out_changed(ch, ch \notin tim.out)
       \/ \E pressed \in SUBSET Keys : poll_keyboard(pressed)
       \/ \E state \in BOOLEAN : towns_fm_irq(state)
       \/ \E channel \in Channels : towns_pcm_irq(channel)
       \/ \E source \in Sources, state \in BOOLEAN : towns_serial_ready_irq(source, state)
       \/ \E state \in BOOLEAN : mb8877a_irq_w(state)
       \/ \E state \in BOOLEAN : towns_scsi_irq(state)
       \/ towns_vsync_irq
    /\ events' = events + 1
    /\ UNCHANGED cpu

SpritesDone == draw_sprites /\ UNCHANGED <<cpu, events>>
VblankEnd == towns_vblank_end /\ UNCHANGED <<cpu, events>>

Guest == Take \/ Serve \/ ServeSound \/ Eoi

Next ==
    \/ MasterTick \/ SlaveTick \/ Guest \/ PollKeyboard \/ Write
    \/ Device \/ SpritesDone \/ VblankEnd

Spec == Init /\ [][Next]_vars

\* A timer fires, and the guest goes on serving.
FairSpec == Spec /\ WF_vars(MasterTick) /\ WF_vars(SlaveTick) /\ WF_vars(Guest)

-----------------------------------------------------------------------------
(* Properties.                                                             *)

TypeOK ==
    /\ master \in Pics /\ slave \in Pics
    /\ tim \in [out : SUBSET {0, 1}, timer : SUBSET {0, 1}, mask : SUBSET {0, 1}]
    /\ kb \in [ready : BOOLEAN, enable : BOOLEAN, output : Bytes, extend : Bytes,
               prev : SUBSET Keys]
    /\ snd \in [fm : BOOLEAN, pcm : BOOLEAN, flag : SUBSET Channels, mask : SUBSET Channels]
    /\ ser \in [enable : SUBSET Sources, state : SUBSET Sources, source : BOOLEAN]
    /\ fdcmask \in BOOLEAN /\ whole \subseteq {0, 1}
    /\ vid \in [vblank : BOOLEAN, on : BOOLEAN, flag : BOOLEAN, page : {0, 1}, shown : {0, 1}]
    /\ cpu \in [at : {"run", "serve", "eoi"}, pic : {"none", "master", "slave"},
                irq : {NoLevel} \cup Irqs]
    /\ events \in 0..MaxEvents

\* A request line that several sources share is up exactly while one of them
\* asks: neither timer's reset nor either sound chip's lowers it for the other
\* (towns_port60_w, towns_fm_irq, towns_sound_ctrl_r).  Request 7 of the master
\* is the slave's output.  All registers are of their types.
LinesAgree ==
    /\ TypeOK
    /\ 0 \in master.lines <=> tim.timer # {}
    /\ tim.timer \subseteq tim.out
    /\ 5 \in slave.lines <=> snd.fm \/ snd.pcm
    /\ snd.pcm <=> snd.flag # {}
    /\ 2 \in master.lines <=> ser.source
    /\ 7 \in master.lines <=> INT(slave)
    /\ 3 \in slave.lines => vid.vblank
    /\ 1 \in master.lines => kb.ready

\* No request is lost: the line of a device that waits for the guest is either
\* latched in the controller or the guest's routine for it still has to look at
\* the device.  (set_irq_line latches an edge only; towns_keyboard_r makes one
\* for the second byte, and the sound chips share theirs.)
NoneLost ==
    \A r \in {<<"master", 1>>, <<"master", 6>>, <<"slave", 0>>, <<"slave", 3>>, <<"slave", 5>>} :
        LET p == IF r[1] = "master" THEN master ELSE slave
        IN r[2] \in p.lines => r[2] \in p.irr \/ Serving(r[1], r[2])

\* The cascade announces nothing the slave does not have, however late a device
\* of the slave withdraws its request: when the CPU may look, request 7 of the
\* master has one of the slave behind it, so that the slave answers with a vector
\* of its own (acknowledge, get_slave_ack).  It says nothing of a line that a
\* device leaves up, as the serial port does when its signal falls.
NoSpurious ==
    Settled /\ master.level = 7 => INT(slave)

\* The page on the screen has no drawing to be done: a drawing may take longer
\* than a frame, end after sprites were switched off, and the pages are flipped
\* only between two drawings (towns_vsync_irq, draw_sprites).
ShownIsWhole == vid.shown \in whole

\* The shared sound interrupt is served: with edge triggered controllers and the
\* request not masked, the guest sees both chips at rest again and again.
SoundServed ==
    <>[](5 \notin slave.imr /\ 7 \notin master.imr /\ ~slave.level_trig)
        => []<>(~snd.fm /\ ~snd.pcm)
=============================================================================
