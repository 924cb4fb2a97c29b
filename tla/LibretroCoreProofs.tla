------------------------ MODULE LibretroCoreProofs --------------------------
(***************************************************************************)
(* Proofs about LibretroCore for every set of models, devices, contents    *)
(* and memories and every value of the guard windows and loop bounds.      *)
(***************************************************************************)
EXTENDS LibretroCore, TLAPS

(***************************************************************************)
(* Types.  A loaded runtime knows the model and the content it was loaded  *)
(* with; the slice loop runs only with a machine.  TypeOK needs both to be *)
(* inductive: retro_reset boots a machine from m_model and m_content, and  *)
(* run_slice writes into the machine.                                      *)
(***************************************************************************)
LoadedKnowsContent == Loaded => m_model \in Models /\ m_content \in Contents

TypeInv == TypeOK /\ RuntimeAgrees /\ LoadedKnowsContent

LEMMA InitTypeInv == Init => TypeInv
<1> SUFFICES ASSUME Init PROVE TypeInv
  OBVIOUS
<1>1. capture \in [on : BOOLEAN, boot : Nat]
  BY DEF Init
<1>2. TypeOK
  BY <1>1, OptionsAssumption DEF Init, TypeOK
<1>3. RuntimeAgrees /\ LoadedKnowsContent
  BY DEF Init, RuntimeAgrees, LoadedKnowsContent, Loaded
<1> QED
  BY <1>2, <1>3 DEF TypeInv

\* A record of the right fields is a machine, hence not NoMachine.
LEMMA NewMachine ==
    ASSUME NEW b \in Nat, NEW mo \in Models, NEW d \in Devices, NEW c \in Contents, NEW v \in Mem
    PROVE  /\ [boot |-> b + 1, model |-> mo, devices |-> d, content |-> c, mem |-> v] \in Machines
           /\ [boot |-> b + 1, model |-> mo, devices |-> d, content |-> c, mem |-> v] # NoMachine
BY NullAssumption DEF Machines

\* Writing memory into a machine leaves a machine with the same boot.
LEMMA WriteMachine ==
    ASSUME NEW m \in Machines, NEW v \in Mem
    PROVE  /\ [m EXCEPT !.mem = v] \in Machines
           /\ [m EXCEPT !.mem = v] # NoMachine
BY NullAssumption DEF Machines

\* Drawing keeps the type of the capture buffer.
LEMMA CaptureType ==
    ASSUME capture \in [on : BOOLEAN, boot : Nat], drawn \in BOOLEAN, machine \in Machines,
           screen_update \/ UNCHANGED <<capture, drawn>>
    PROVE  /\ capture' \in [on : BOOLEAN, boot : Nat]
           /\ drawn' \in BOOLEAN
<1>1. machine.boot \in Nat
  BY DEF Machines
<1>2. capture' = capture \/ capture' = [capture EXCEPT !.boot = machine.boot]
  BY DEF screen_update
<1>3. drawn' \in BOOLEAN
  BY DEF screen_update
<1> QED
  BY <1>1, <1>2, <1>3

\* phase3_runtime::load leaves a consistent runtime.
LEMMA LoadTypeInv ==
    ASSUME TypeInv, up, pc = "out", up' = up, pc' = pc,
           NEW mo \in Models, NEW d \in Devices, NEW c \in Contents,
           load(mo, d, c)
    PROVE  /\ machine' \in Machines /\ machine' # NoMachine
           /\ guard' \in Nat /\ boots' \in Nat
           /\ m_state' = "loaded" /\ m_model' = mo /\ m_content' = c
           /\ g_runtime_loaded' = TRUE /\ drawn' = FALSE /\ settled' = 0 /\ restored' = FALSE
<1>1. nvfile[mo] \in Mem /\ boots \in Nat
  BY DEF TypeInv, TypeOK
<1>2. machine' \in Machines /\ machine' # NoMachine
  BY <1>1, NewMachine DEF load, start
<1> QED
  BY <1>1, <1>2, GuardAssumption DEF load, start

LEMMA StutterType == TypeOK /\ UNCHANGED vars => TypeOK'
<1> SUFFICES ASSUME TypeOK, UNCHANGED vars PROVE TypeOK'
  OBVIOUS
<1>1. /\ UNCHANGED <<up, updated, opts, g_opts, g_runtime_loaded, m_state, m_model, m_content>>
      /\ UNCHANGED <<m_have_real_frame, machine, guard, capture, pc, slice, overdue, nvfile>>
      /\ UNCHANGED <<slot, shown, boots, drawn, settled, restored>>
  BY DEF vars, frontVars, runtimeVars, loopVars, historyVars
<1>2. /\ up' \in BOOLEAN /\ updated' \in BOOLEAN /\ g_runtime_loaded' \in BOOLEAN
      /\ m_have_real_frame' \in BOOLEAN /\ drawn' \in BOOLEAN /\ restored' \in BOOLEAN
  BY <1>1, Zenon DEF TypeOK
<1>3. /\ opts' \in Options /\ g_opts' \in Options /\ capture' \in [on : BOOLEAN, boot : Nat]
      /\ machine' \in Machines \cup {NoMachine} /\ slot' \in States \cup {NoState}
      /\ m_model' \in Models \cup {""} /\ m_content' \in Contents \cup {""}
      /\ nvfile' \in [Models -> Mem]
  BY <1>1, Zenon DEF TypeOK
<1>4. /\ m_state' \in {"stopped", "loaded", "running"} /\ pc' \in {"out", "slice", "render"}
      /\ guard' \in Nat /\ slice' \in Nat /\ overdue' \in Nat /\ shown' \in Nat
      /\ boots' \in Nat /\ settled' \in Nat
  BY <1>1, Zenon DEF TypeOK
<1> QED
  BY <1>2, <1>3, <1>4, Zenon DEF TypeOK

LEMMA NextTypeInv == TypeInv /\ [Next]_vars => TypeInv'
<1> SUFFICES ASSUME TypeInv, [Next]_vars PROVE TypeInv'
  OBVIOUS
<1> USE DEF TypeInv, RuntimeAgrees, LoadedKnowsContent, Loaded, frontVars, runtimeVars,
            loopVars, historyVars
<1>1. ASSUME NEW o \in Options, SetOption(o) PROVE TypeInv'
  <2>1. TypeOK'
    BY <1>1 DEF SetOption, TypeOK
  <2>2. RuntimeAgrees' /\ LoadedKnowsContent'
    BY <1>1 DEF SetOption
  <2> QED
    BY <2>1, <2>2
<1>2. CASE retro_init
  BY <1>2 DEF retro_init, TypeOK
<1>3. CASE retro_deinit
  <2>1. capture' \in [on : BOOLEAN, boot : Nat]
    BY <1>3 DEF retro_deinit, TypeOK
  <2>2. CASE Loaded
    <3>1. unload /\ up' = FALSE /\ pc = "out"
      BY <1>3, <2>2 DEF retro_deinit
    <3>2. UNCHANGED <<opts, updated, g_opts, m_model, m_content, m_have_real_frame,
                      loopVars, nvfile, slot, shown, boots>>
      BY <1>3 DEF retro_deinit
    <3> QED
      BY <2>1, <3>1, <3>2 DEF unload, TypeOK
  <2>3. CASE ~Loaded
    BY <1>3, <2>1, <2>3 DEF retro_deinit, TypeOK
  <2> QED
    BY <2>2, <2>3
<1>4. ASSUME NEW c \in Contents, retro_load_game(c) PROVE TypeInv'
  <2>1. opts.model \in Models /\ opts.devices \in Devices
    BY DEF TypeOK, Options
  <2>2. CASE load(opts.model, opts.devices, c)
    <3>1. /\ machine' \in Machines /\ machine' # NoMachine
          /\ guard' \in Nat /\ boots' \in Nat
          /\ m_state' = "loaded" /\ m_model' = opts.model /\ m_content' = c
          /\ g_runtime_loaded' = TRUE /\ drawn' = FALSE /\ settled' = 0 /\ restored' = FALSE
      BY <1>4, <2>1, <2>2, LoadTypeInv DEF retro_load_game
    <3> QED
      BY <1>4, <2>1, <3>1 DEF retro_load_game, refresh_core_options, TypeOK
  <2>3. CASE load_fails(opts.model, c)
    BY <1>4, <2>1, <2>3 DEF retro_load_game, refresh_core_options, load_fails, unload, TypeOK
  <2> QED
    BY <1>4, <2>2, <2>3 DEF retro_load_game
<1>5. CASE retro_unload_game
  BY <1>5 DEF retro_unload_game, unload, TypeOK
<1>6. CASE retro_reset
  <2>1. g_opts.devices \in Devices /\ m_model \in Models /\ m_content \in Contents
    BY <1>6 DEF TypeOK, Options, retro_reset
  <2>2. CASE load(m_model, g_opts.devices, m_content)
    <3>1. /\ machine' \in Machines /\ machine' # NoMachine
          /\ guard' \in Nat /\ boots' \in Nat
          /\ m_state' = "loaded" /\ m_model' = m_model /\ m_content' = m_content
          /\ g_runtime_loaded' = TRUE /\ drawn' = FALSE /\ settled' = 0 /\ restored' = FALSE
      BY <1>6, <2>1, <2>2, LoadTypeInv DEF retro_reset
    <3> QED
      BY <1>6, <2>1, <3>1 DEF retro_reset, TypeOK
  <2>3. CASE load_fails(m_model, m_content)
    BY <1>6, <2>1, <2>3 DEF retro_reset, load_fails, unload, TypeOK
  <2> QED
    BY <1>6, <2>2, <2>3 DEF retro_reset
<1>7. CASE retro_run_blank
  BY <1>7 DEF retro_run_blank, refresh_core_options, TypeOK
<1>8. CASE retro_run_enter
  BY <1>8 DEF retro_run_enter, refresh_core_options, TypeOK
<1>9. CASE run_slice
  <2>1. machine \in Machines
    BY <1>9 DEF run_slice, TypeOK
  <2>2. machine' \in Machines /\ machine' # NoMachine
    BY <1>9, <2>1, WriteMachine DEF run_slice
  <2>3. capture' \in [on : BOOLEAN, boot : Nat] /\ drawn' \in BOOLEAN
    BY <1>9, <2>1, CaptureType DEF run_slice, TypeOK
  <2>4. pc' \in {"slice", "render"} /\ overdue' \in Nat /\ slice' \in Nat
    <3>1. PICK due, late \in BOOLEAN :
             /\ overdue' = IF due THEN overdue + 1 ELSE 0
             /\ pc' = IF LoopEnds(due, late) THEN "render" ELSE "slice"
      BY <1>9, Zenon DEF run_slice
    <3>2. overdue' = overdue + 1 \/ overdue' = 0
      BY <3>1
    <3>3. slice' = slice + 1
      BY <1>9, Zenon DEF run_slice
    <3>4. overdue \in Nat /\ slice \in Nat
      BY DEF TypeOK
    <3> QED
      BY <3>1, <3>2, <3>3, <3>4
  <2> QED
    BY <1>9, <2>2, <2>3, <2>4 DEF run_slice, TypeOK
<1>10. CASE run_render
  <2>1. machine \in Machines
    BY <1>10 DEF run_render, advance_savestate_guard, TypeOK
  <2>2. capture' \in [on : BOOLEAN, boot : Nat] /\ drawn' \in BOOLEAN
    BY <1>10, <2>1, CaptureType DEF run_render, advance_savestate_guard, TypeOK
  <2>3. shown' \in Nat
    BY <1>10, <2>1, <2>2 DEF run_render, advance_savestate_guard, copy_video_frame, Machines
  <2>4. guard' \in Nat /\ settled' \in Nat
    <3>1. /\ guard' = IF guard > 0 THEN guard - 1 ELSE 0
          /\ settled' = IF settled < GuardBoot + GuardPostLoad THEN settled + 1 ELSE settled
      BY <1>10, Zenon DEF run_render, advance_savestate_guard
    <3>2. guard \in Nat /\ settled \in Nat
      BY DEF TypeOK
    <3> QED
      BY <3>1, <3>2
  <2>5. m_have_real_frame' \in BOOLEAN
    BY <1>10 DEF run_render, advance_savestate_guard, TypeOK
  <2> QED
    BY <1>10, <2>1, <2>2, <2>3, <2>4, <2>5 DEF run_render, advance_savestate_guard, TypeOK
<1>11. CASE retro_serialize
  <2>1. slot' \in States
    BY <1>11 DEF retro_serialize, TypeOK, Machines, States
  <2> QED
    BY <1>11, <2>1 DEF retro_serialize, TypeOK
<1>12. CASE retro_unserialize
  <2>1. machine \in Machines /\ slot.mem \in Mem
    BY <1>12 DEF retro_unserialize, TypeOK, States
  <2>2. machine' \in Machines /\ machine' # NoMachine
    BY <1>12, <2>1, WriteMachine DEF retro_unserialize
  <2> QED
    BY <1>12, <2>2, GuardAssumption DEF retro_unserialize, TypeOK
<1>13. CASE UNCHANGED vars
  <2>1. TypeOK'
    BY <1>13, StutterType
  <2>2. RuntimeAgrees' /\ LoadedKnowsContent'
    BY <1>13 DEF vars
  <2> QED
    BY <2>1, <2>2
<1> QED
  BY <1>1, <1>2, <1>3, <1>4, <1>5, <1>6, <1>7, <1>8, <1>9, <1>10, <1>11, <1>12, <1>13
  DEF Next, retro_run

\* Every variable keeps its type in every behaviour of the core.
THEOREM TypeCorrect == Spec => []TypeOK
<1>1. TypeInv => TypeOK
  BY DEF TypeInv
<1> QED
  BY <1>1, InitTypeInv, NextTypeInv, PTL DEF Spec

\* The flag retro_run and the watchdog read, the runtime's state and the
\* existence of a machine agree in every reachable state, whatever loads,
\* resets and restores succeeded or failed before.
THEOREM RuntimeAlwaysAgrees == Spec => []RuntimeAgrees
<1>1. TypeInv => RuntimeAgrees
  BY DEF TypeInv
<1> QED
  BY <1>1, InitTypeInv, NextTypeInv, PTL DEF Spec

(***************************************************************************)
(* The guard.  GuardCoversWindow is inductive on its own once the types    *)
(* are known: a frame takes one from the guard and adds one to the frames  *)
(* completed, and both are reset together.                                 *)
(***************************************************************************)
LEMMA NextGuard == TypeInv /\ GuardCoversWindow /\ [Next]_vars => GuardCoversWindow'
<1> SUFFICES ASSUME TypeInv, GuardCoversWindow, [Next]_vars PROVE GuardCoversWindow'
  OBVIOUS
<1> USE DEF GuardCoversWindow, Window, Loaded
<1>0. /\ guard \in Nat /\ settled \in Nat
      /\ GuardBoot \in Nat \ {0} /\ GuardPostLoad \in Nat \ {0}
  BY GuardAssumption DEF TypeInv, TypeOK
<1>1. CASE \/ \E o \in Options : SetOption(o)
           \/ retro_init \/ retro_run_blank \/ run_slice \/ retro_serialize
           \/ UNCHANGED vars
  <2>1. UNCHANGED <<m_state, guard, settled, restored>>
    BY <1>1 DEF SetOption, retro_init, retro_run_blank, run_slice, retro_serialize, vars,
                runtimeVars, historyVars
  <2> QED
    BY <2>1
<1>2. CASE retro_deinit \/ retro_unload_game
  <2>1. m_state' = "stopped"
    BY <1>2 DEF retro_deinit, retro_unload_game, unload
  <2> QED
    BY <2>1
<1>3. ASSUME NEW mo, NEW d, NEW c, load(mo, d, c) \/ load_fails(mo, c) PROVE GuardCoversWindow'
  <2>1. CASE load(mo, d, c)
    <3>1. guard' = GuardBoot /\ settled' = 0 /\ restored' = FALSE
      BY <2>1 DEF load, start
    <3> QED
      BY <1>0, <3>1
  <2>2. CASE load_fails(mo, c)
    BY <2>2 DEF load_fails, unload
  <2> QED
    BY <1>3, <2>1, <2>2
<1>4. ASSUME NEW c \in Contents, retro_load_game(c) PROVE GuardCoversWindow'
  BY <1>3, <1>4 DEF retro_load_game
<1>5. CASE retro_reset
  BY <1>3, <1>5 DEF retro_reset
<1>6. CASE retro_run_enter
  <2>1. Loaded
    BY <1>6 DEF retro_run_enter, TypeInv, RuntimeAgrees
  <2>2. UNCHANGED <<guard, settled, restored>>
    BY <1>6 DEF retro_run_enter, historyVars
  <2> QED
    BY <2>1, <2>2
<1>7. CASE run_render
  <2>1. /\ guard' = IF guard > 0 THEN guard - 1 ELSE 0
        /\ settled' = IF settled < GuardBoot + GuardPostLoad THEN settled + 1 ELSE settled
        /\ UNCHANGED <<restored, m_state>>
    BY <1>7, Zenon DEF run_render, advance_savestate_guard
  <2> QED
    BY <1>0, <2>1
<1>8. CASE retro_unserialize
  <2>1. guard' = GuardPostLoad /\ settled' = 0 /\ restored' = TRUE
    BY <1>8 DEF retro_unserialize
  <2> QED
    BY <1>0, <2>1
<1> QED
  BY <1>1, <1>2, <1>4, <1>5, <1>6, <1>7, <1>8 DEF Next, retro_run

LEMMA GuardInvariant == Spec => [](TypeInv /\ GuardCoversWindow)
<1>1. Init => GuardCoversWindow
  BY DEF Init, GuardCoversWindow, Loaded
<1> QED
  BY <1>1, InitTypeInv, NextTypeInv, NextGuard, PTL DEF Spec

\* The savestate countdown never runs ahead of the frames the machine has
\* completed since the boot or the restore that armed it.
THEOREM GuardAlwaysCovers == Spec => []GuardCoversWindow
BY GuardInvariant, PTL

\* No state is ever serialized before a full window of frames was completed
\* since the last boot or restore, for windows of any length.
THEOREM SavesAlwaysSettled == Spec => SavesAreSettled
<1>1. ASSUME TypeInv, GuardCoversWindow, [Next]_vars PROVE [slot' # slot => settled >= Window]_vars
  <2> SUFFICES ASSUME Next, slot' # slot PROVE settled >= Window
    BY <1>1
  <2>1. CASE retro_serialize
    <3>1. guard = 0 /\ machine # NoMachine
      BY <2>1 DEF retro_serialize
    <3>2. Loaded
      BY <1>1, <3>1 DEF TypeInv, RuntimeAgrees
    <3>3. settled \in Nat
      BY <1>1 DEF TypeInv, TypeOK
    <3> QED
      BY <1>1, <3>1, <3>2, <3>3 DEF GuardCoversWindow
  <2>2. retro_serialize
    BY DEF Next, retro_run, SetOption, retro_init, retro_deinit, retro_load_game,
           retro_unload_game, retro_reset, retro_run_blank, retro_run_enter, run_slice,
           run_render, advance_savestate_guard, retro_unserialize
  <2> QED
    BY <2>1, <2>2
<1> QED
  BY <1>1, GuardInvariant, PTL DEF Spec, SavesAreSettled

(***************************************************************************)
(* The picture.  Whenever the core is up the capture callback is installed *)
(* (retro_deinit removes it only together with the machine), so once a     *)
(* machine has drawn the capture buffer is its own until it goes away.     *)
(***************************************************************************)
CaptureIsOwn ==
    /\ up => capture.on
    /\ machine # NoMachine /\ drawn => capture.boot = machine.boot

PictureInv == CaptureIsOwn /\ StalePictureEnds

LEMMA NextPicture == TypeInv /\ PictureInv /\ [Next]_vars => PictureInv'
<1> SUFFICES ASSUME TypeInv, PictureInv, [Next]_vars PROVE PictureInv'
  OBVIOUS
<1> USE DEF PictureInv, CaptureIsOwn, StalePictureEnds
<1>0. capture \in [on : BOOLEAN, boot : Nat]
  BY DEF TypeInv, TypeOK
<1>1. CASE \/ \E o \in Options : SetOption(o)
           \/ retro_serialize \/ UNCHANGED vars
  <2>1. UNCHANGED <<up, machine, capture, drawn, shown, pc>>
    BY <1>1 DEF SetOption, retro_serialize, vars, frontVars, loopVars, historyVars
  <2> QED
    BY <2>1
<1>2. CASE retro_run_blank \/ retro_run_enter
  <2>1. UNCHANGED <<up, machine, capture, drawn>>
    BY <1>2 DEF retro_run_blank, retro_run_enter, historyVars
  <2>2. CASE retro_run_blank
    BY <2>1, <2>2 DEF retro_run_blank, loopVars
  <2>3. CASE retro_run_enter
    BY <2>1, <2>3 DEF retro_run_enter
  <2> QED
    BY <1>2, <2>2, <2>3
<1>3. CASE retro_init \/ retro_deinit
  <2>1. CASE retro_init
    <3>1. machine = NoMachine /\ machine' = machine
      BY <2>1 DEF retro_init, TypeInv, RuntimeAgrees
    <3>2. capture'.on
      BY <1>0, <2>1 DEF retro_init
    <3> QED
      BY <3>1, <3>2
  <2>2. CASE retro_deinit
    <3>1. machine' = NoMachine /\ up' = FALSE
      BY <2>2 DEF retro_deinit, unload, TypeInv, RuntimeAgrees
    <3> QED
      BY <3>1
  <2> QED
    BY <1>3, <2>1, <2>2
<1>4. ASSUME \/ \E c \in Contents : retro_load_game(c)
             \/ retro_unload_game \/ retro_reset
      PROVE  PictureInv'
  <2>1. drawn' = FALSE
    BY <1>4 DEF retro_load_game, retro_unload_game, retro_reset, load, load_fails, unload
  <2>2. UNCHANGED <<up, capture>>
    BY <1>4 DEF retro_load_game, retro_unload_game, retro_reset, frontVars
  <2> QED
    BY <2>1, <2>2
<1>5. ASSUME run_slice \/ run_render
      PROVE  /\ machine \in Machines /\ machine # NoMachine
             /\ machine'.boot = machine.boot /\ up' = up
             /\ capture'.on = capture.on
             /\ drawn' => capture'.boot = machine.boot
  <2>1. machine \in Machines /\ machine # NoMachine /\ up
    <3>1. pc # "out"
      BY <1>5 DEF run_slice, run_render, advance_savestate_guard
    <3>2. machine # NoMachine /\ up
      BY <3>1 DEF TypeInv, RuntimeAgrees, Loaded
    <3> QED
      BY <3>2 DEF TypeInv, TypeOK
  <2>2. machine'.boot = machine.boot /\ up' = up
    BY <1>5, <2>1 DEF run_slice, run_render, advance_savestate_guard, Machines, frontVars
  <2>3. screen_update \/ UNCHANGED <<capture, drawn>>
    BY <1>5, Zenon DEF run_slice, run_render, advance_savestate_guard
  <2>4. capture'.on = capture.on /\ (drawn' => capture'.boot = machine.boot)
    BY <1>0, <2>1, <2>3 DEF screen_update, Machines
  <2> QED
    BY <2>1, <2>2, <2>4
<1>6. CASE run_slice
  <2>1. pc' # "out"
    BY <1>6 DEF run_slice
  <2> QED
    BY <1>5, <1>6, <2>1
<1>7. CASE run_render
  <2>1. shown' = 0 \/ shown' = machine.boot \/ shown' = capture'.boot
    BY <1>7, Zenon DEF run_render, advance_savestate_guard, copy_video_frame
  <2> QED
    BY <1>5, <1>7, <2>1
<1>8. CASE retro_unserialize
  <2>1. machine \in Machines
    BY <1>8 DEF retro_unserialize, TypeInv, TypeOK
  <2>2. machine'.boot = machine.boot /\ UNCHANGED <<up, capture, drawn, shown, pc>>
    BY <1>8, <2>1 DEF retro_unserialize, Machines, frontVars, loopVars
  <2> QED
    BY <1>8, <2>2 DEF retro_unserialize
<1> QED
  BY <1>1, <1>2, <1>3, <1>4, <1>6, <1>7, <1>8 DEF Next, retro_run

\* A machine that has drawn a frame is never again presented with the picture
\* of an earlier machine, although nothing ever clears the capture buffer.
THEOREM StalePictureAlwaysEnds == Spec => []StalePictureEnds
<1>1. Init => PictureInv
  BY DEF Init, PictureInv, CaptureIsOwn, StalePictureEnds
<1>2. PictureInv => StalePictureEnds
  BY DEF PictureInv
<1> QED
  BY <1>1, <1>2, InitTypeInv, NextTypeInv, NextPicture, PTL DEF Spec

(***************************************************************************)
(* The slice loop.  LoopStopsInTime is not inductive: the slices run since *)
(* the frame was due never outnumber those run since the snapshot was last *)
(* looked at, which is how the next look comes in time.                    *)
(***************************************************************************)
LoopInv ==
    /\ LoopStopsInTime
    /\ pc = "slice" => overdue <= slice % CheckPeriod

\* Between two looks at the snapshot the remainder counts up.
LEMMA NextRemainder ==
    ASSUME NEW c \in Nat \ {0}, NEW s \in Nat, s % c # c - 1
    PROVE  (s + 1) % c = (s % c) + 1
<1> DEFINE q == s \div c
           r == s % c
           p == (s + 1) \div c
           t == (s + 1) % c
<1>1. q \in Nat /\ r \in 0..(c - 1) /\ s = c * q + r
  OBVIOUS
<1>2. p \in Nat /\ t \in 0..(c - 1) /\ s + 1 = c * p + t
  OBVIOUS
<1>3. r # c - 1
  OBVIOUS
<1> HIDE DEF p, q, r, t
<1>4. c * (p - q) = (r + 1) - t
  BY <1>1, <1>2
<1>5. CASE p > q
  <2>1. c * (p - q) >= c
    BY <1>1, <1>2, <1>5
  <2> QED
    BY <1>1, <1>2, <1>3, <1>4, <2>1
<1>6. CASE p < q
  <2>1. c * (q - p) >= c
    BY <1>1, <1>2, <1>6
  <2>2. c * (p - q) = 0 - (c * (q - p))
    BY <1>1, <1>2
  <2> QED
    BY <1>1, <1>2, <1>4, <2>1, <2>2
<1>7. CASE p = q
  <2>1. c * (p - q) = 0
    BY <1>1, <1>7
  <2>2. t = r + 1
    BY <1>1, <1>2, <1>4, <2>1
  <2> QED
    BY <2>2 DEF r, t
<1> QED
  BY <1>1, <1>2, <1>5, <1>6, <1>7

LEMMA NextLoop == TypeInv /\ LoopInv /\ [Next]_vars => LoopInv'
<1> SUFFICES ASSUME TypeInv, LoopInv, [Next]_vars PROVE LoopInv'
  OBVIOUS
<1> USE DEF LoopInv, LoopStopsInTime
<1>0. slice \in Nat /\ overdue \in Nat /\ CheckPeriod \in Nat \ {0}
  BY SliceAssumption DEF TypeInv, TypeOK
<1>1. CASE UNCHANGED <<pc, slice, overdue>>
  BY <1>1
<1>2. CASE retro_run_enter
  <2>1. slice' = 0 /\ overdue' = 0
    BY <1>2 DEF retro_run_enter
  <2>2. 0 <= 0 % CheckPeriod
    BY <1>0
  <2> QED
    BY <1>0, <2>1, <2>2
<1>3. CASE run_render
  BY <1>3 DEF run_render
<1>4. CASE run_slice
  <2> DEFINE r == slice % CheckPeriod
  <2>1. PICK due \in BOOLEAN, late \in BOOLEAN :
          /\ overdue' = IF due THEN overdue + 1 ELSE 0
          /\ pc' = IF LoopEnds(due, late) THEN "render" ELSE "slice"
    BY <1>4 DEF run_slice
  <2>2. slice' = slice + 1 /\ overdue <= r
    BY <1>4 DEF run_slice
  <2>3. r \in 0..(CheckPeriod - 1)
    BY <1>0
  <2>4. overdue' <= CheckPeriod /\ overdue' <= r + 1
    <3> HIDE DEF r
    <3> QED
      BY <1>0, <2>1, <2>2, <2>3
  <2>5. pc' = "slice" => overdue' <= slice' % CheckPeriod
    <3> SUFFICES ASSUME pc' = "slice" PROVE overdue' <= slice' % CheckPeriod
      OBVIOUS
    <3>1. r # CheckPeriod - 1 \/ ~due
      BY <2>1 DEF LoopEnds
    <3>2. CASE r # CheckPeriod - 1
      BY <1>0, <2>2, <2>4, <3>2, NextRemainder
    <3>3. CASE ~due
      <4>1. overdue' = 0
        BY <2>1, <3>3
      <4>2. slice + 1 \in Nat /\ (slice + 1) % CheckPeriod >= 0
        BY <1>0
      <4> QED
        BY <2>2, <4>1, <4>2
    <3> QED
      BY <3>1, <3>2, <3>3
  <2> QED
    BY <2>4, <2>5
<1>5. UNCHANGED <<pc, slice, overdue>> \/ retro_run_enter \/ run_render \/ run_slice
  BY DEF Next, retro_run, vars, loopVars, SetOption, retro_init, retro_deinit, retro_load_game,
         retro_unload_game, retro_reset, retro_run_blank, retro_serialize, retro_unserialize
<1> QED
  BY <1>1, <1>2, <1>3, <1>4, <1>5

\* Once the frame is due the slice loop of advance_mame_frame runs at most
\* CheckPeriod slices more, for every period and every limit on the slices.
THEOREM LoopAlwaysStops == Spec => []LoopStopsInTime
<1>1. Init => LoopInv
  <2>1. CheckPeriod \in Nat \ {0}
    BY SliceAssumption
  <2>2. ASSUME Init PROVE pc = "out" /\ overdue = 0
    BY <2>2 DEF Init
  <2> QED
    BY <2>1, <2>2 DEF LoopInv, LoopStopsInTime
<1>2. LoopInv => LoopStopsInTime
  BY DEF LoopInv
<1> QED
  BY <1>1, <1>2, InitTypeInv, NextTypeInv, NextLoop, PTL DEF Spec

(***************************************************************************)
(* The contract.  Each entry point maps to one contract step; SetOption,   *)
(* retro_run's entry, the slices, and a frame of a game that is ready      *)
(* leave the contract's state alone.                                       *)
(***************************************************************************)
LEMMA ContractStep ==
    TypeInv /\ [Next]_vars => [Contract!Next]_<<Status, guard, slot>>
<1> SUFFICES ASSUME TypeInv, [Next]_vars PROVE [Contract!Next]_<<Status, guard, slot>>
  OBVIOUS
<1> USE DEF TypeInv, RuntimeAgrees, Loaded
<1>0. /\ guard \in Nat /\ GuardBoot \in Nat \ {0} /\ GuardPostLoad \in Nat \ {0}
      /\ up \in BOOLEAN
  BY GuardAssumption DEF TypeOK
<1>1. CASE \/ \E o \in Options : SetOption(o)
           \/ retro_run_blank \/ retro_run_enter \/ UNCHANGED vars
  BY <1>1 DEF SetOption, retro_run_blank, retro_run_enter, vars, frontVars, Status
<1>2. CASE retro_init
  <2>1. ~up /\ up' = TRUE /\ UNCHANGED <<machine, guard, slot>>
    BY <1>2 DEF retro_init
  <2>2. up = FALSE /\ machine = NoMachine
    BY <1>0, <2>1
  <2>3. Contract!PowerUp
    BY <2>1, <2>2 DEF Contract!PowerUp, Status
  <2> QED
    BY <2>3 DEF Contract!Next
<1>3. CASE retro_deinit
  <2>1. up /\ up' = FALSE /\ guard' = 0 /\ slot' = slot
    BY <1>3 DEF retro_deinit, unload
  <2>2. Contract!PowerDown
    BY <2>1 DEF Contract!PowerDown, Status
  <2> QED
    BY <2>2 DEF Contract!Next
<1>4. ASSUME NEW mo \in Models, NEW d \in Devices, NEW c \in Contents, up, up' = up, slot' = slot,
             load(mo, d, c), pc = "out", pc' = pc
      PROVE  Contract!Boot
  <2>1. machine' # NoMachine /\ guard' = GuardBoot
    BY <1>4, LoadTypeInv DEF load, start
  <2> QED
    BY <1>0, <1>4, <2>1 DEF Contract!Boot, Status
<1>5. ASSUME up, up' = up, slot' = slot, machine' = NoMachine, guard' = 0
      PROVE  [Contract!Next]_<<Status, guard, slot>>
  <2>1. CASE machine = NoMachine
    BY <1>5, <2>1 DEF Status
  <2>2. CASE machine # NoMachine
    <3>1. Contract!Drop
      BY <1>5, <2>2 DEF Contract!Drop, Status
    <3> QED
      BY <3>1 DEF Contract!Next
  <2> QED
    BY <2>1, <2>2
<1>6. ASSUME NEW c \in Contents, retro_load_game(c) PROVE [Contract!Next]_<<Status, guard, slot>>
  <2>1. /\ up /\ up' = up /\ slot' = slot /\ pc = "out" /\ pc' = pc
        /\ opts.model \in Models /\ opts.devices \in Devices
    BY <1>6 DEF retro_load_game, frontVars, loopVars, TypeOK, Options
  <2>2. CASE load(opts.model, opts.devices, c)
    BY <1>4, <2>1, <2>2 DEF Contract!Next
  <2>3. CASE load_fails(opts.model, c)
    BY <1>5, <2>1, <2>3 DEF load_fails, unload
  <2> QED
    BY <1>6, <2>2, <2>3 DEF retro_load_game
<1>7. CASE retro_unload_game
  BY <1>5, <1>7 DEF retro_unload_game, unload, frontVars
<1>8. CASE retro_reset
  <2>1. /\ up /\ up' = up /\ slot' = slot /\ pc = "out" /\ pc' = pc
        /\ m_model \in Models /\ g_opts.devices \in Devices /\ m_content \in Contents
    BY <1>8 DEF retro_reset, frontVars, loopVars, TypeOK, Options, LoadedKnowsContent
  <2>2. CASE load(m_model, g_opts.devices, m_content)
    BY <1>4, <2>1, <2>2 DEF Contract!Next
  <2>3. CASE load_fails(m_model, m_content)
    BY <1>5, <2>1, <2>3 DEF load_fails, unload
  <2> QED
    BY <1>8, <2>2, <2>3 DEF retro_reset
<1>9. CASE run_slice
  <2>1. machine # NoMachine /\ machine \in Machines
    BY <1>9 DEF run_slice, TypeOK
  <2>2. machine' # NoMachine /\ UNCHANGED <<up, guard, slot>>
    BY <1>9, <2>1, WriteMachine DEF run_slice, frontVars
  <2> QED
    BY <2>1, <2>2 DEF Status
<1>10. CASE run_render
  <2>1. up /\ machine # NoMachine
    BY <1>10 DEF run_render, advance_savestate_guard
  <2>2. /\ UNCHANGED <<up, machine, slot>>
        /\ guard' = IF guard > 0 THEN guard - 1 ELSE 0
    BY <1>10, Zenon DEF run_render, advance_savestate_guard, frontVars
  <2>3. CASE guard > 0
    <3>1. Contract!Frame
      BY <1>0, <2>1, <2>2, <2>3 DEF Contract!Frame, Status
    <3> QED
      BY <3>1 DEF Contract!Next
  <2>4. CASE guard = 0
    BY <2>1, <2>2, <2>4 DEF Status
  <2> QED
    BY <1>0, <2>3, <2>4
<1>11. CASE retro_serialize
  <2>1. slot' \in States
    BY <1>11 DEF retro_serialize, TypeOK, Machines, States
  <2>2. Contract!Save
    BY <1>11, <2>1, NullAssumption DEF retro_serialize, frontVars, Contract!Save, Status
  <2> QED
    BY <2>2 DEF Contract!Next
<1>12. CASE retro_unserialize
  <2>1. machine \in Machines /\ slot.mem \in Mem
    BY <1>12 DEF retro_unserialize, TypeOK, States
  <2>2. machine' # NoMachine
    BY <1>12, <2>1, WriteMachine DEF retro_unserialize
  <2>3. Contract!Restore
    BY <1>0, <1>12, <2>2 DEF retro_unserialize, frontVars, Contract!Restore, Status
  <2> QED
    BY <2>3 DEF Contract!Next
<1> QED
  BY <1>1, <1>2, <1>3, <1>6, <1>7, <1>8, <1>9, <1>10, <1>11, <1>12 DEF Next, retro_run

\* The core implements the contract: seen through the mapping, whatever the
\* frontend calls and whatever loads fail, a game becomes saveable only by
\* completing its window of frames and the saved state changes only by a save.
THEOREM CoreImplementsContract == Spec => ImplementsContract
<1>1. Init => Contract!Init
  BY DEF Init, Contract!Init, Status
<1> QED
  BY <1>1, InitTypeInv, NextTypeInv, ContractStep, PTL
  DEF Spec, ImplementsContract, Contract!Spec
=============================================================================
