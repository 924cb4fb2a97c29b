---------------------------- MODULE LibretroCore ----------------------------
(***************************************************************************)
(* The life cycle of the libretro core: the retro_* entry points of        *)
(* libretro/fmtowns_libretro.cpp, the phase3_runtime object they drive,    *)
(* the session object of libretro/mame_bridge.cpp that owns the MAME       *)
(* machine, and the captured frame of libretro/osd_libretro.cpp.           *)
(*                                                                         *)
(* Every entry point runs on the frontend's thread.  All of them are one   *)
(* step except retro_run, whose slice loop (advance_mame_frame) takes one  *)
(* step per 'run_slice': the emulated machine draws, writes its battery    *)
(* backed memory and advances its clock between two checks of the loop.    *)
(*                                                                         *)
(* Pixels, audio samples and paths are abstracted.  A picture is the       *)
(* number of the boot whose machine drew it.  The contents of a machine is *)
(* one member of Mem, which stands for the battery backed memory and goes  *)
(* into a save state with the rest.                                        *)
(***************************************************************************)
EXTENDS Naturals

CONSTANTS
    Models,             \* values of the core option fmtowns_model
    Devices,            \* values of fmtowns_ram, fmtowns_pad1 and fmtowns_pad2, taken together
    Contents,           \* paths a frontend may pass to retro_load_game
    Mem,                \* contents of the machine's memory
    DefaultOptions,     \* initial values of the option globals
    NoMachine,          \* no running_machine exists
    NoState,            \* the frontend holds no serialized state
    GuardBoot,          \* k_savestate_guard_frames_boot
    GuardPostLoad,      \* k_savestate_guard_frames_post_load
    MaxSlicesBoot,      \* slices per frame before the first real frame (64000)
    MaxSlicesLive,      \* slices per frame afterwards (24000)
    CheckPeriod,        \* the loop reads the snapshot every CheckPeriod slices (128)
    MaxBoots            \* bound: machines booted in one behaviour

Options == [model : Models, devices : Devices]
Machines == [boot : Nat \ {0}, model : Models, devices : Devices, content : Contents, mem : Mem]
States == [model : Models, devices : Devices, mem : Mem]

ASSUME OptionsAssumption == DefaultOptions \in Options
ASSUME NullAssumption == NoMachine \notin Machines /\ NoState \notin States
ASSUME GuardAssumption == GuardBoot \in Nat \ {0} /\ GuardPostLoad \in Nat \ {0}
ASSUME SliceAssumption == /\ MaxSlicesBoot \in Nat \ {0}
                          /\ MaxSlicesLive \in Nat \ {0}
                          /\ CheckPeriod \in Nat \ {0}
ASSUME BootsAssumption == MaxBoots \in Nat

VARIABLES
    up,                 \* between retro_init and retro_deinit
    opts,               \* the option values the frontend holds
    updated,            \* what GET_VARIABLE_UPDATE answers next
    g_opts,             \* g_model and g_ram_size, g_pad1_device, g_pad2_device
    g_runtime_loaded,
    m_state,            \* phase3_runtime::m_state
    m_model,            \* the model and the content the runtime was loaded with
    m_content,
    m_have_real_frame,
    machine,            \* the session's running_machine
    guard,              \* session::impl::m_savestate_guard_countdown
    capture,            \* the capture callback, and the boot whose frame is captured
    pc,                 \* where the frontend's thread is: out of the core or in retro_run
    slice,              \* slices run in this retro_run
    overdue,            \* slices run in it since the frame was due
    nvfile,             \* nvram/<model>/ on disk
    slot,               \* the state the frontend serialized last
    shown,              \* boot whose picture was presented last, 0 for a blank one
    boots,              \* machines booted so far
    drawn,              \* history: the machine has drawn a frame since its boot
    settled,            \* history: frames completed since boot or restore
    restored            \* history: a state was restored since boot

frontVars == <<up, opts, updated>>
runtimeVars == <<g_opts, g_runtime_loaded, m_state, m_model, m_content, m_have_real_frame>>
loopVars == <<pc, slice, overdue>>
historyVars == <<drawn, settled, restored>>
vars == <<frontVars, runtimeVars, machine, guard, capture, loopVars, nvfile, slot,
          shown, boots, historyVars>>

Loaded == m_state # "stopped"

-----------------------------------------------------------------------------
(* The globals of the core before retro_init.                              *)
Init ==
    /\ up = FALSE
    /\ opts \in Options
    /\ updated = FALSE
    /\ g_opts = DefaultOptions
    /\ g_runtime_loaded = FALSE
    /\ m_state = "stopped"
    /\ m_model = ""
    /\ m_content = ""
    /\ m_have_real_frame = FALSE
    /\ machine = NoMachine
    /\ guard = 0
    /\ capture = [on |-> FALSE, boot |-> 0]
    /\ pc = "out"
    /\ slice = 0
    /\ overdue = 0
    /\ nvfile \in [Models -> Mem]
    /\ slot = NoState
    /\ shown = 0
    /\ boots = 0
    /\ drawn = FALSE
    /\ settled = 0
    /\ restored = FALSE

-----------------------------------------------------------------------------
(* Helpers: the pieces the entry points share.                             *)

\* refresh_core_options: the globals take the values the frontend holds.
refresh_core_options == g_opts' = opts

\* phase3_runtime::unload on a runtime that is loaded: session::stop destroys
\* the machine (its memory goes with it) and zeroes the guard.  The captured
\* frame and m_have_real_frame are left as they are.
unload ==
    /\ machine' = NoMachine
    /\ guard' = 0
    /\ m_state' = "stopped"
    /\ g_runtime_loaded' = FALSE
    /\ drawn' = FALSE
    /\ settled' = 0
    /\ restored' = FALSE

\* Mutant: the guard is armed one frame short.
mutant_start_short(model, devices, content) ==
    /\ boots' = boots + 1
    /\ machine' = [boot |-> boots + 1, model |-> model, devices |-> devices,
                   content |-> content, mem |-> nvfile[model]]
    /\ guard' = GuardBoot - 1

\* session::start on its success path, with the machine libretro_start leaves
\* behind: a new machine whose memory is what nvram_load reads.
start(model, devices, content) ==
    /\ boots' = boots + 1
    /\ machine' = [boot |-> boots + 1, model |-> model, devices |-> devices,
                   content |-> content, mem |-> nvfile[model]]
    /\ guard' = GuardBoot

\* phase3_runtime::load when the session starts.  The unload it begins with
\* destroys whatever machine there was.
load(model, devices, content) ==
    /\ boots < MaxBoots
    /\ start(model, devices, content)
    /\ m_model' = model
    /\ m_content' = content
    /\ m_state' = "loaded"
    /\ g_runtime_loaded' = TRUE
    /\ drawn' = FALSE
    /\ settled' = 0
    /\ restored' = FALSE

\* Mutant: the failure path forgets the atomic flag.
mutant_load_fails_flag(model, content) ==
    /\ machine' = NoMachine
    /\ guard' = 0
    /\ m_state' = "stopped"
    /\ m_model' = model
    /\ m_content' = content
    /\ UNCHANGED <<g_runtime_loaded, drawn, settled, restored, boots>>

\* phase3_runtime::load when session::start returns false: an unknown model, a
\* CMOS seed that cannot be copied, an empty playlist, a missing media slot, or
\* a machine that does not start.
load_fails(model, content) ==
    /\ unload
    /\ m_model' = model
    /\ m_content' = content
    /\ UNCHANGED boots

-----------------------------------------------------------------------------
(* The environment.                                                        *)

\* The user changes an option: the frontend reports it at its next query.
SetOption(o) ==
    /\ pc = "out"
    /\ opts' = o
    /\ updated' = TRUE
    /\ UNCHANGED <<up, runtimeVars, machine, guard, capture, loopVars, nvfile, slot,
                   shown, boots, historyVars>>

-----------------------------------------------------------------------------
(* The entry points.                                                       *)

\* retro_init installs the capture callback (and starts the watchdog).
retro_init ==
    /\ ~up
    /\ up' = TRUE
    /\ capture' = [capture EXCEPT !.on = TRUE]
    /\ UNCHANGED <<opts, updated, runtimeVars, machine, guard, loopVars, nvfile, slot,
                   shown, boots, historyVars>>

\* retro_deinit removes the capture callback and unloads the runtime, which
\* does nothing when it is stopped.
retro_deinit ==
    /\ up /\ pc = "out"
    /\ up' = FALSE
    /\ capture' = [capture EXCEPT !.on = FALSE]
    /\ IF Loaded THEN unload
       ELSE UNCHANGED <<machine, guard, m_state, g_runtime_loaded, historyVars>>
    /\ UNCHANGED <<opts, updated, g_opts, m_model, m_content, m_have_real_frame,
                   loopVars, nvfile, slot, shown, boots>>

\* retro_load_game reads the options and loads the runtime with them.
retro_load_game(content) ==
    /\ up /\ pc = "out"
    /\ refresh_core_options
    /\ \/ load(opts.model, opts.devices, content)
       \/ load_fails(opts.model, content)
    /\ UNCHANGED <<frontVars, m_have_real_frame, capture, loopVars, nvfile, slot, shown>>

\* retro_unload_game.
retro_unload_game ==
    /\ up /\ pc = "out" /\ Loaded
    /\ unload
    /\ UNCHANGED <<frontVars, g_opts, m_model, m_content, m_have_real_frame, capture,
                   loopVars, nvfile, slot, shown, boots>>

\* retro_reset loads the runtime again with the model and content it already
\* has; the RAM size and the pad devices come from the globals.
retro_reset ==
    /\ up /\ pc = "out" /\ Loaded
    /\ \/ load(m_model, g_opts.devices, m_content)
       \/ load_fails(m_model, m_content)
    /\ UNCHANGED <<frontVars, g_opts, m_have_real_frame, capture, loopVars, nvfile, slot, shown>>

\* retro_run with no runtime loaded presents a blank frame.
retro_run_blank ==
    /\ up /\ pc = "out" /\ ~g_runtime_loaded
    /\ IF updated THEN refresh_core_options ELSE UNCHANGED g_opts
    /\ updated' = FALSE
    /\ shown' = 0
    /\ UNCHANGED <<up, opts, g_runtime_loaded, m_state, m_model, m_content,
                   m_have_real_frame, machine, guard, capture, loopVars, nvfile, slot,
                   boots, historyVars>>

\* retro_run and run_frame up to the slice loop.
retro_run_enter ==
    /\ up /\ pc = "out" /\ g_runtime_loaded
    /\ IF updated THEN refresh_core_options ELSE UNCHANGED g_opts
    /\ updated' = FALSE
    /\ m_state' = "running"
    /\ pc' = "slice"
    /\ slice' = 0
    /\ overdue' = 0
    /\ UNCHANGED <<up, opts, g_runtime_loaded, m_model, m_content, m_have_real_frame,
                   machine, guard, capture, nvfile, slot, shown, boots, historyVars>>

\* Mutant: a frame is captured only when there is none yet.
mutant_capture_once ==
    /\ capture' = IF capture.on /\ capture.boot = 0 THEN [capture EXCEPT !.boot = machine.boot]
                  ELSE capture
    /\ drawn' = TRUE

\* screen_update: the driver hands every frame it draws to the callback.
screen_update ==
    /\ capture' = IF capture.on THEN [capture EXCEPT !.boot = machine.boot] ELSE capture
    /\ drawn' = TRUE

\* The wall budget, the snapshot check and the slice limit of advance_mame_frame.
\* 'due' says that the emulated clock or the screen has passed the target frame;
\* 'late' that the wall clock has used up its budget.
max_slices == IF m_have_real_frame THEN MaxSlicesLive ELSE MaxSlicesBoot

\* Mutant: the clock is looked at in every other check only.
mutant_check_skips(due, late) ==
    \/ slice + 1 = max_slices
    \/ slice % (2 * CheckPeriod) = CheckPeriod - 1 /\ (due \/ late)

LoopEnds(due, late) ==
    \/ slice + 1 = max_slices
    \/ slice % CheckPeriod = CheckPeriod - 1 /\ (due \/ late)

\* One iteration of the loop: the machine runs one time slice, in which it may
\* write its memory, draw, and complete the frame.
run_slice ==
    /\ pc = "slice"
    /\ \E m \in Mem : machine' = [machine EXCEPT !.mem = m]
    /\ \/ screen_update
       \/ UNCHANGED <<capture, drawn>>
    /\ slice' = slice + 1
    /\ \E due, late \in BOOLEAN :
          /\ overdue > 0 => due
          /\ overdue' = IF due THEN overdue + 1 ELSE 0
          /\ pc' = IF LoopEnds(due, late) THEN "render" ELSE "slice"
    /\ UNCHANGED <<frontVars, runtimeVars, guard, nvfile, slot, shown, boots, settled, restored>>

\* copy_video_frame: the captured frame if there is one that fits, otherwise the
\* pixels of the machine's own screen, otherwise (no visible area) nothing.
copy_video_frame ==
    \/ capture'.boot # 0 /\ shown' = capture'.boot
    \/ shown' = machine.boot
    \/ shown' = 0

\* Mutant: the countdown stops at one.
mutant_guard_sticks == guard' = IF guard > 1 THEN guard - 1 ELSE guard

\* session::advance_savestate_guard.
advance_savestate_guard == guard' = IF guard > 0 THEN guard - 1 ELSE 0

\* The rest of run_frame: force_video_update draws what the beam has passed
\* (nothing while it is in the blanking interval), the frame is copied and
\* presented, and the frame is counted.
run_render ==
    /\ pc = "render"
    /\ \/ screen_update
       \/ UNCHANGED <<capture, drawn>>
    /\ copy_video_frame
    /\ m_have_real_frame' \in {m_have_real_frame, m_have_real_frame \/ shown' # 0}
    /\ advance_savestate_guard
    /\ settled' = IF settled < GuardBoot + GuardPostLoad THEN settled + 1 ELSE settled
    /\ pc' = "out"
    /\ UNCHANGED <<frontVars, g_opts, g_runtime_loaded, m_state, m_model, m_content,
                   machine, slice, overdue, nvfile, slot, boots, restored>>

\* Mutant: save_state does not ask the guard.
mutant_serialize_unguarded ==
    /\ up /\ pc = "out"
    /\ machine # NoMachine
    /\ slot' = [model |-> machine.model, devices |-> machine.devices, mem |-> machine.mem]
    /\ UNCHANGED <<frontVars, runtimeVars, machine, guard, capture, loopVars, nvfile,
                   shown, boots, historyVars>>

\* retro_serialize, when session::save_state accepts.
retro_serialize ==
    /\ up /\ pc = "out"
    /\ machine # NoMachine
    /\ guard = 0
    /\ slot' = [model |-> machine.model, devices |-> machine.devices, mem |-> machine.mem]
    /\ UNCHANGED <<frontVars, runtimeVars, machine, guard, capture, loopVars, nvfile,
                   shown, boots, historyVars>>

\* retro_unserialize, when session::load_state accepts.  read_buffer compares
\* the length and the header (machine name, signature of the registered items)
\* before it writes anything.
retro_unserialize ==
    /\ up /\ pc = "out"
    /\ machine # NoMachine
    /\ guard = 0
    /\ slot # NoState
    /\ slot.model = machine.model /\ slot.devices = machine.devices
    /\ machine' = [machine EXCEPT !.mem = slot.mem]
    /\ guard' = GuardPostLoad
    /\ m_have_real_frame' = FALSE
    /\ settled' = 0
    /\ restored' = TRUE
    /\ UNCHANGED <<frontVars, g_opts, g_runtime_loaded, m_state, m_model, m_content,
                   capture, loopVars, nvfile, slot, shown, boots, drawn>>

-----------------------------------------------------------------------------
retro_run == retro_run_blank \/ retro_run_enter

Next ==
    \/ \E o \in Options : SetOption(o)
    \/ retro_init
    \/ retro_deinit
    \/ \E c \in Contents : retro_load_game(c)
    \/ retro_unload_game
    \/ retro_reset
    \/ retro_run
    \/ run_slice
    \/ run_render
    \/ retro_serialize
    \/ retro_unserialize

Spec == Init /\ [][Next]_vars

\* The core's own steps happen once the frontend has called it: retro_run is
\* straight-line code around the slice loop.
InsideRun == WF_vars(run_slice) /\ WF_vars(run_render)

\* A frontend with a game loaded keeps calling retro_run.
KeepsRunning == WF_vars(retro_run_enter)

FairSpec == Spec /\ InsideRun /\ KeepsRunning

-----------------------------------------------------------------------------
(* Properties.                                                             *)

\* Every variable has its type.
TypeOK ==
    /\ up \in BOOLEAN /\ updated \in BOOLEAN
    /\ opts \in Options /\ g_opts \in Options
    /\ g_runtime_loaded \in BOOLEAN
    /\ m_state \in {"stopped", "loaded", "running"}
    /\ m_model \in Models \cup {""}
    /\ m_content \in Contents \cup {""}
    /\ m_have_real_frame \in BOOLEAN
    /\ machine \in Machines \cup {NoMachine}
    /\ guard \in Nat
    /\ capture \in [on : BOOLEAN, boot : Nat]
    /\ pc \in {"out", "slice", "render"}
    /\ slice \in Nat /\ overdue \in Nat
    /\ nvfile \in [Models -> Mem]
    /\ slot \in States \cup {NoState}
    /\ shown \in Nat /\ boots \in Nat
    /\ drawn \in BOOLEAN /\ settled \in Nat /\ restored \in BOOLEAN

\* The three records of whether a game is loaded never disagree, whatever loads
\* failed: the atomic flag retro_run and the watchdog read, the runtime's state,
\* and the existence of a machine.  In particular the slice loop and the save
\* state calls always have a machine, retro_deinit leaves none behind, and a
\* stopped session has no guard left over.
RuntimeAgrees ==
    /\ g_runtime_loaded <=> Loaded
    /\ Loaded <=> machine # NoMachine
    /\ pc # "out" => up /\ m_state = "running"
    /\ Loaded => up
    /\ ~Loaded => guard = 0

\* Frames a machine must complete before a save state of it may be taken.
Window == IF restored THEN GuardPostLoad ELSE GuardBoot

\* The countdown of session::advance_savestate_guard never runs ahead of the
\* frames completed since the boot or the restore it was armed by.
GuardCoversWindow == Loaded => guard + settled >= Window

\* A state is serialized only when a full window of frames was completed since
\* the machine booted or was last restored, whichever is the later: a restore or
\* a reset in between starts the window again.
SavesAreSettled == [][slot' # slot => settled >= Window]_vars

\* The capture buffer outlives its machine, so a new game can be presented with
\* the picture of the previous one; but never again once its own machine has
\* drawn a frame.
StalePictureEnds == machine # NoMachine /\ pc = "out" /\ drawn => shown \in {0, machine.boot}

\* The loop of advance_mame_frame runs at most to the next snapshot check once
\* the frame is due, although it looks at the machine only every CheckPeriod
\* slices.
LoopStopsInTime == overdue <= CheckPeriod

\* While the frontend keeps calling retro_run every call returns, even when the
\* machine makes no progress and the wall budget never expires, and every save
\* state refusal is temporary: the guard reaches zero (MaxBoots bounds the reboots that re-arm it).
GuardExpires == guard > 0 ~> guard = 0

\* The refinement mapping onto LibretroContract.
Status == IF ~up THEN "down"
          ELSE IF machine = NoMachine THEN "empty"
          ELSE IF guard > 0 THEN "settling" ELSE "ready"

Contract == INSTANCE LibretroContract WITH
                BootWindow <- GuardBoot, RestoreWindow <- GuardPostLoad,
                status <- Status, left <- guard, saved <- slot

\* The core implements the contract a frontend relies on: every entry point,
\* a failed load or reset included, is a contract step or invisible in it.
ImplementsContract == Contract!Spec

\* What docs/README_DEV.md says of the battery backed memory: it is saved
\* automatically, so a machine that goes away leaves its memory on disk.
NvramPersisted ==
    [][machine # NoMachine /\ (machine' = NoMachine \/ machine'.boot # machine.boot)
        => nvfile'[machine.model] = machine.mem]_vars

\* What the option labels say ("Restart needed"): a restart of the content brings
\* a machine built from the current values of all these options.
RestartAppliesOptions ==
    [][machine # NoMachine /\ machine' # NoMachine /\ machine'.boot # machine.boot
        => machine'.model = g_opts'.model /\ machine'.devices = g_opts'.devices]_vars
=============================================================================
