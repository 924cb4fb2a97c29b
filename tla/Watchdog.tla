------------------------------ MODULE Watchdog ------------------------------
(***************************************************************************)
(* The watchdog thread of libretro/fmtowns_libretro.cpp and the frontend's *)
(* thread it observes.  The two share only atomics: the frontend's thread  *)
(* stores them one by one while it is inside retro_run, the watchdog loads *)
(* them one by one every PollSteps sleeps and appends a line to its log,   *)
(* and retro_init / retro_deinit start the thread and join it.             *)
(*                                                                         *)
(* The clock value in g_last_run_tick_ns is the number of the retro_run    *)
(* call that stored it: the code uses it only to tell calls apart.         *)
(***************************************************************************)
EXTENDS Naturals

CONSTANTS
    PollSteps,      \* one second sleeps between two reports (5)
    MaxRuns,        \* bound: retro_run calls in one behaviour
    MaxInits        \* bound: retro_init calls in one behaviour

ASSUME PollAssumption == PollSteps \in Nat \ {0} /\ MaxRuns \in Nat /\ MaxInits \in Nat

VARIABLES
    main,           \* frontend's thread: "out", "enter", "frame", "slice" (in retro_run), "join"
    up,             \* between retro_init and the return of retro_deinit
    inits,          \* retro_init calls so far
    m_frame,        \* frames of the loaded game
    g_runtime_loaded,
    g_last_run_tick, g_last_run_frame, g_last_completed_frame, g_run_stage,
    g_watchdog_running, g_watchdog_stop,
    thread,         \* watchdog: "none", "poll", "tick", "frame", "completed", "stage", "report", "exited"
    polls,          \* sleeps done in this round
    last_reported,  \* last_reported_tick
    sample,         \* what this round has loaded so far
    line,           \* the last line appended to the log
    ran             \* history: retro_run was entered since the last tick sample

sharedVars == <<g_runtime_loaded, g_last_run_tick, g_last_run_frame,
                g_last_completed_frame, g_run_stage>>
threadVars == <<thread, polls, last_reported, sample, line>>
watchdogVars == <<main, up, inits, m_frame, sharedVars, g_watchdog_running, g_watchdog_stop,
          threadVars, ran>>

Kinds == {"nothing", "waiting", "stalled", "alive"}
Stages == {"idle", "retro_run", "run_frame", "slice", "done"}
NoSample == [tick |-> 0, ran |-> FALSE, frame |-> 0, completed |-> 0, stage |-> "idle"]
NoLine == [kind |-> "nothing", first |-> TRUE, of |-> NoSample, loaded |-> FALSE]

WatchdogInit ==
    /\ main = "out" /\ up = FALSE /\ inits = 0 /\ m_frame = 0
    /\ g_runtime_loaded = FALSE
    /\ g_last_run_tick = 0 /\ g_last_run_frame = 0 /\ g_last_completed_frame = 0
    /\ g_run_stage = "idle"
    /\ g_watchdog_running = FALSE /\ g_watchdog_stop = FALSE
    /\ thread = "none" /\ polls = 0 /\ last_reported = 0
    /\ sample = NoSample /\ line = NoLine
    /\ ran = FALSE

-----------------------------------------------------------------------------
(* The frontend's thread.                                                  *)

\* start_watchdog, from retro_init: the compare-exchange lets one caller in.
start_watchdog ==
    IF g_watchdog_running
    THEN UNCHANGED <<g_watchdog_running, g_watchdog_stop, threadVars, ran>>
    ELSE /\ g_watchdog_running' = TRUE
         /\ g_watchdog_stop' = FALSE
         /\ thread' = "poll"
         /\ polls' = 0
         /\ last_reported' = 0
         /\ sample' = NoSample
         /\ line' = NoLine
         /\ ran' = FALSE

retro_init ==
    /\ main = "out" /\ inits < MaxInits
    /\ up' = TRUE
    /\ inits' = inits + 1
    /\ start_watchdog
    /\ UNCHANGED <<main, m_frame, sharedVars>>

\* phase3_runtime::unload on a loaded runtime: the completed frame and the stage
\* are cleared, the tick and the number of the frame run last are not.
unload ==
    /\ m_frame' = 0
    /\ g_last_completed_frame' = 0
    /\ g_run_stage' = "idle"
    /\ g_runtime_loaded' = FALSE
    /\ UNCHANGED <<g_last_run_tick, g_last_run_frame>>

retro_load_game ==
    /\ main = "out" /\ up /\ ~g_runtime_loaded
    /\ g_runtime_loaded' = TRUE
    /\ m_frame' = 0
    /\ UNCHANGED <<main, up, inits, g_last_run_tick, g_last_run_frame, g_last_completed_frame,
                   g_run_stage, g_watchdog_running, g_watchdog_stop, threadVars, ran>>

retro_unload_game ==
    /\ main = "out" /\ up /\ g_runtime_loaded
    /\ unload
    /\ UNCHANGED <<main, up, inits, g_watchdog_running, g_watchdog_stop, threadVars, ran>>

\* retro_run stores the tick before anything else.
store_tick ==
    /\ g_last_run_tick' = g_last_run_tick + 1
    /\ ran' = TRUE

retro_run ==
    /\ main = "out" /\ up /\ g_last_run_tick < MaxRuns
    /\ main' = "enter"
    /\ store_tick
    /\ g_run_stage' = "retro_run"
    /\ UNCHANGED <<up, inits, m_frame, g_runtime_loaded, g_last_run_frame,
                   g_last_completed_frame, g_watchdog_running, g_watchdog_stop, threadVars>>

\* Without a game retro_run presents a blank frame and returns; with one it
\* stores the frame number and enters run_frame.
retro_run_blank ==
    /\ main = "enter" /\ ~g_runtime_loaded
    /\ main' = "out"
    /\ UNCHANGED <<up, inits, m_frame, sharedVars, g_watchdog_running, g_watchdog_stop,
                   threadVars, ran>>

run_frame ==
    /\ main = "enter" /\ g_runtime_loaded
    /\ main' = "frame"
    /\ g_last_run_frame' = m_frame
    /\ g_run_stage' = "run_frame"
    /\ UNCHANGED <<up, inits, m_frame, g_runtime_loaded, g_last_run_tick,
                   g_last_completed_frame, g_watchdog_running, g_watchdog_stop, threadVars, ran>>

run_slices ==
    /\ main = "frame"
    /\ main' = "slice"
    /\ g_run_stage' = "slice"
    /\ UNCHANGED <<up, inits, m_frame, g_runtime_loaded, g_last_run_tick, g_last_run_frame,
                   g_last_completed_frame, g_watchdog_running, g_watchdog_stop, threadVars, ran>>

frame_done ==
    /\ main = "slice"
    /\ main' = "out"
    /\ m_frame' = m_frame + 1
    /\ g_last_completed_frame' = m_frame + 1
    /\ g_run_stage' = "done"
    /\ UNCHANGED <<up, inits, g_runtime_loaded, g_last_run_tick, g_last_run_frame,
                   g_watchdog_running, g_watchdog_stop, threadVars, ran>>

\* Mutant: retro_deinit asks the thread to stop and does not wait for it.
mutant_no_join ==
    /\ g_watchdog_running' = FALSE /\ g_watchdog_stop' = TRUE
    /\ main' = "out" /\ up' = FALSE

\* retro_deinit: unload, then stop_watchdog up to the join.
stop_watchdog ==
    IF g_watchdog_running
    THEN g_watchdog_running' = FALSE /\ g_watchdog_stop' = TRUE /\ main' = "join" /\ up' = up
    ELSE UNCHANGED <<g_watchdog_running, g_watchdog_stop, main>> /\ up' = FALSE

retro_deinit ==
    /\ main = "out" /\ up
    /\ IF g_runtime_loaded THEN unload ELSE UNCHANGED <<m_frame, sharedVars>>
    /\ stop_watchdog
    /\ UNCHANGED <<inits, threadVars, ran>>

\* The join returns when the thread has.
join ==
    /\ main = "join" /\ thread = "exited"
    /\ main' = "out"
    /\ up' = FALSE
    /\ thread' = "none"
    /\ UNCHANGED <<inits, m_frame, sharedVars, g_watchdog_running, g_watchdog_stop,
                   polls, last_reported, sample, line, ran>>

-----------------------------------------------------------------------------
(* The watchdog thread.                                                    *)

\* Mutant: the stop flag is not read.
mutant_deaf ==
    /\ thread = "poll"
    /\ IF polls = PollSteps
       THEN thread' = "tick" /\ polls' = 0
       ELSE thread' = thread /\ polls' = polls + 1
    /\ UNCHANGED <<main, up, inits, m_frame, sharedVars, g_watchdog_running, g_watchdog_stop,
                   last_reported, sample, line, ran>>

\* Before each sleep the stop flag is read; after PollSteps sleeps it samples.
poll ==
    /\ thread = "poll"
    /\ IF polls = PollSteps
       THEN thread' = "tick" /\ polls' = 0
       ELSE IF g_watchdog_stop
       THEN thread' = "exited" /\ UNCHANGED polls
       ELSE thread' = thread /\ polls' = polls + 1
    /\ UNCHANGED <<main, up, inits, m_frame, sharedVars, g_watchdog_running, g_watchdog_stop,
                   last_reported, sample, line, ran>>

\* The loads, each atomic, in the order of the code.
load_tick ==
    /\ thread = "tick" /\ thread' = "frame"
    /\ sample' = [sample EXCEPT !.tick = g_last_run_tick, !.ran = ran]
    /\ ran' = FALSE
load_frame ==
    /\ thread = "frame" /\ thread' = "completed"
    /\ sample' = [sample EXCEPT !.frame = g_last_run_frame]
    /\ UNCHANGED ran
load_completed ==
    /\ thread = "completed" /\ thread' = "stage"
    /\ sample' = [sample EXCEPT !.completed = g_last_completed_frame]
    /\ UNCHANGED ran
load_stage ==
    /\ thread = "stage" /\ thread' = "report"
    /\ sample' = [sample EXCEPT !.stage = g_run_stage]
    /\ UNCHANGED ran

load_sample ==
    /\ load_tick \/ load_frame \/ load_completed \/ load_stage
    /\ UNCHANGED <<main, up, inits, m_frame, sharedVars, g_watchdog_running, g_watchdog_stop,
                   polls, last_reported, line>>

\* Mutant: a tick within one unit of the last counts as the same.
mutant_coarse_tick(tick, last) == IF tick = 0 THEN "waiting"
                                  ELSE IF tick <= last + 1 THEN "stalled" ELSE "alive"

\* The line a sample gives.
kind_of(tick, last) == IF tick = 0 THEN "waiting"
                       ELSE IF tick = last THEN "stalled" ELSE "alive"

\* Mutants: only the first tick is remembered; none is.
mutant_remembers_first ==
    /\ thread = "report" /\ thread' = "poll"
    /\ LET kind == kind_of(sample.tick, last_reported)
       IN  /\ line' = [kind |-> kind, first |-> last_reported = 0, of |-> sample,
                       loaded |-> g_runtime_loaded]
           /\ last_reported' = IF last_reported = 0 THEN sample.tick ELSE last_reported
    /\ UNCHANGED <<main, up, inits, m_frame, sharedVars, g_watchdog_running, g_watchdog_stop,
                   polls, sample, ran>>
mutant_remembers_none ==
    /\ thread = "report" /\ thread' = "poll"
    /\ line' = [kind |-> kind_of(sample.tick, last_reported), first |-> last_reported = 0,
                of |-> sample, loaded |-> g_runtime_loaded]
    /\ UNCHANGED <<main, up, inits, m_frame, sharedVars, g_watchdog_running, g_watchdog_stop,
                   polls, sample, ran, last_reported>>

report ==
    /\ thread = "report" /\ thread' = "poll"
    /\ LET kind == kind_of(sample.tick, last_reported)
       IN  /\ line' = [kind |-> kind, first |-> last_reported = 0, of |-> sample,
                       loaded |-> g_runtime_loaded]
           /\ last_reported' = IF kind = "alive" THEN sample.tick ELSE last_reported
    /\ UNCHANGED <<main, up, inits, m_frame, sharedVars, g_watchdog_running, g_watchdog_stop,
                   polls, sample, ran>>

-----------------------------------------------------------------------------
Frontend == \/ retro_init \/ retro_load_game \/ retro_unload_game \/ retro_run
            \/ retro_run_blank \/ run_frame \/ run_slices \/ frame_done
            \/ retro_deinit \/ join
Thread == poll \/ load_sample \/ report

WatchdogNext == Frontend \/ Thread

WatchdogSpec == WatchdogInit /\ [][WatchdogNext]_watchdogVars

\* The operating system schedules the watchdog thread and the joining thread.
\* Nothing is assumed of the frontend or of retro_run: either may stop for ever.
FairSpec == WatchdogSpec /\ WF_watchdogVars(Thread) /\ WF_watchdogVars(join)

-----------------------------------------------------------------------------
(* Properties.                                                             *)

Samples == [tick : 0..MaxRuns, ran : BOOLEAN, frame : 0..MaxRuns, completed : 0..MaxRuns,
            stage : Stages]

\* Every variable has its type.
WatchdogTypeOK ==
    /\ main \in {"out", "enter", "frame", "slice", "join"}
    /\ up \in BOOLEAN /\ inits \in 0..MaxInits /\ m_frame \in 0..MaxRuns
    /\ g_runtime_loaded \in BOOLEAN
    /\ g_last_run_tick \in 0..MaxRuns /\ g_last_run_frame \in 0..MaxRuns
    /\ g_last_completed_frame \in 0..MaxRuns /\ g_run_stage \in Stages
    /\ g_watchdog_running \in BOOLEAN /\ g_watchdog_stop \in BOOLEAN
    /\ thread \in {"none", "poll", "tick", "frame", "completed", "stage", "report", "exited"}
    /\ polls \in 0..PollSteps /\ last_reported \in 0..MaxRuns
    /\ sample \in Samples
    /\ line \in [kind : Kinds, first : BOOLEAN, of : Samples, loaded : BOOLEAN]
    /\ ran \in BOOLEAN

\* The thread never outlives the core: it exists exactly between the return of
\* retro_init and the join in retro_deinit, and it leaves only when asked to.
ThreadLifetime ==
    /\ thread # "none" <=> up
    /\ main = "join" => g_watchdog_stop /\ ~g_watchdog_running /\ up
    /\ thread = "exited" => main = "join"

\* A "stalled" line says that no retro_run was entered between the previous
\* sample of this thread and this one, however the loads of the sample interleave
\* with the calls.  It may be a call that hangs, or a frontend that pauses.
NoFalseStall == line.kind = "stalled" => ~line.of.ran

\* An "alive" line after the first one of a thread means that retro_run was
\* entered since the previous sample.  (The first one may be about a call made
\* before the thread existed: the tick outlives retro_deinit.)
AliveIsRecent == line.kind = "alive" /\ ~line.first => line.of.ran

\* retro_deinit returns: the watchdog notices the stop flag in every state.
JoinEnds == main = "join" ~> main = "out"

\* A retro_run that hangs is reported: unless the call returns, the thread logs
\* a stall of this very call.
HangIsReported ==
    main = "slice" ~> \/ main # "slice"
                      \/ line.kind = "stalled" /\ line.of.tick = g_last_run_tick
=============================================================================
