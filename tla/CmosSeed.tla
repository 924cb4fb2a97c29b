------------------------------ MODULE CmosSeed ------------------------------
(***************************************************************************)
(* Where a session keeps the battery backed memory of a game and how it is *)
(* seeded: preferred_nvram_directory, copy_file_if_missing and their use   *)
(* in session::start (libretro/mame_bridge.cpp).  A cmos.dat beside the    *)
(* content is copied once into <nvram>/<content stem>/<model>/nvram16.     *)
(*                                                                         *)
(* Every file system call of the copy is a step, may fail, and the process *)
(* may be killed between two of them.  Contents are abstracted to the      *)
(* name of the cmos.dat they come from, whole or cut short.                *)
(***************************************************************************)
EXTENDS Naturals

CONSTANTS
    Contents,       \* content paths, each in a directory of its own
    StemOf,         \* content -> its file_stem, "" also for a start without content
    Models,         \* machine names
    MaxStarts       \* bound: sessions started

ASSUME StartsAssumption == MaxStarts \in Nat \ {0}

VARIABLES
    cmos,           \* contents with a cmos.dat beside them
    base,           \* stems whose directory below the NVRAM directory exists
    nvram16,        \* <<stem, model>> -> the file there
    step,           \* the next step of session::start, or "idle"
    content, machine, \* of the session being started
    made,           \* this session created its nvram16
    result,         \* how the last session's seeding went
    starts

seedVars == <<cmos, base, nvram16, step, content, machine, made, result, starts>>

Stems == {StemOf[c] : c \in Contents} \ {""}
Missing == [form |-> "missing"]
Cut(c) == [form |-> "cut", of |-> c]      \* created, not all of c's cmos.dat in it
Whole(c) == [form |-> "whole", of |-> c]
Files == {Missing} \cup {Cut(c) : c \in Contents} \cup {Whole(c) : c \in Contents}
target == <<StemOf[content], machine>>

SeedInit ==
    /\ cmos \in SUBSET {c \in Contents : StemOf[c] # ""}
    /\ base = {}
    /\ nvram16 = [t \in Stems \X Models |-> Missing]
    /\ step = "idle" /\ content \in Contents /\ machine \in Models
    /\ made = FALSE /\ result = "none" /\ starts = 0

\* The user puts a cmos.dat beside a content, or takes it away.
EditCmos(c) ==
    /\ step = "idle" /\ StemOf[c] # ""
    /\ cmos' = IF c \in cmos THEN cmos \ {c} ELSE cmos \cup {c}
    /\ UNCHANGED <<base, nvram16, step, content, machine, made, result, starts>>

\* Mutant: the stem's directory is looked at only when there is a seed.
mutant_forgets_base(c) ==
    [seed_cmos |-> c \in cmos, dir |-> IF c \in cmos THEN StemOf[c] ELSE "default"]

\* preferred_nvram_directory: with a cmos.dat the stem's directory and a seed,
\* without one the stem's directory if some earlier session made it.
preferred_nvram_directory(c) ==
    [seed_cmos |-> c \in cmos,
     dir |-> IF c \in cmos \/ StemOf[c] \in base THEN StemOf[c] ELSE "default"]

\* session::start up to the decision whether to seed.
start(c, m) ==
    /\ step = "idle" /\ starts < MaxStarts
    /\ content' = c /\ machine' = m /\ made' = FALSE /\ starts' = starts + 1
    /\ IF preferred_nvram_directory(c).seed_cmos
       THEN step' = "exists" /\ result' = "none"
       ELSE step' = "idle" /\ result' = preferred_nvram_directory(c).dir
    /\ UNCHANGED <<cmos, base, nvram16>>

Return(r) == step' = "idle" /\ result' = r

\* Mutant: the target is not looked for.
mutant_no_check ==
    /\ step = "exists" /\ step' = "source"
    /\ UNCHANGED <<cmos, base, nvram16, content, machine, made, result, starts>>

\* if (path_exists(target)) return true;
path_exists ==
    /\ step = "exists"
    /\ IF nvram16[target] # Missing THEN Return("seeded") ELSE step' = "source" /\ UNCHANGED result
    /\ UNCHANGED <<cmos, base, nvram16, content, machine, made, starts>>

\* std::ifstream in(source): may be unreadable.
open_source ==
    /\ step = "source"
    /\ \/ step' = "directories" /\ UNCHANGED result
       \/ Return("failed")
    /\ UNCHANGED <<cmos, base, nvram16, content, machine, made, starts>>

\* create_directories(target.parent_path()): may fail before or after the
\* stem's own directory was made.
create_directories ==
    /\ step = "directories"
    /\ \/ base' = base \cup {StemOf[content]} /\ step' = "target" /\ UNCHANGED result
       \/ base' = base \cup {StemOf[content]} /\ Return("failed")
       \/ UNCHANGED base /\ Return("failed")
    /\ UNCHANGED <<cmos, nvram16, content, machine, made, starts>>

\* std::ofstream out(target, trunc).
open_target ==
    /\ step = "target"
    /\ \/ /\ nvram16' = [nvram16 EXCEPT ![target] = Cut(content)]
          /\ made' = TRUE /\ step' = "copy" /\ UNCHANGED result
       \/ Return("failed") /\ UNCHANGED <<nvram16, made>>
    /\ UNCHANGED <<cmos, base, content, machine, starts>>

\* Mutant: the stream is not tested after the copy.
mutant_copy_unchecked ==
    /\ step = "copy" /\ Return("seeded")
    /\ \/ nvram16' = [nvram16 EXCEPT ![target] = Whole(content)]
       \/ UNCHANGED nvram16
    /\ UNCHANGED <<cmos, base, content, machine, made, starts>>

\* out << in.rdbuf(); out.flush(); if (!out.good()) ...
copy ==
    /\ step = "copy"
    /\ \/ nvram16' = [nvram16 EXCEPT ![target] = Whole(content)] /\ Return("seeded")
       \/ UNCHANGED nvram16 /\ Return("failed")
    /\ UNCHANGED <<cmos, base, content, machine, made, starts>>

\* The process is killed during the copy; what reached the disk stays.
Crash ==
    /\ step # "idle"
    /\ Return("none")
    /\ UNCHANGED <<cmos, base, nvram16, content, machine, made, starts>>

SeedNext ==
    \/ \E c \in Contents : EditCmos(c)
    \/ \E c \in Contents, m \in Models : start(c, m)
    \/ path_exists \/ open_source \/ create_directories \/ open_target \/ copy
    \/ Crash

SeedSpec == SeedInit /\ [][SeedNext]_seedVars

-----------------------------------------------------------------------------
SeedTypeOK ==
    /\ cmos \subseteq Contents /\ base \subseteq Stems
    /\ nvram16 \in [Stems \X Models -> Files]
    /\ step \in {"idle", "exists", "source", "directories", "target", "copy"}
    /\ content \in Contents /\ machine \in Models
    /\ made \in BOOLEAN /\ result \in {"none", "seeded", "failed", "default"} \cup Stems
    /\ starts \in 0..MaxStarts

\* A session that created its nvram16 and reports success has the whole of its
\* own content's cmos.dat in it: copy_file_if_missing tests the stream after
\* the flush.
OwnCopyIsWhole ==
    step = "idle" /\ made /\ result = "seeded" => nvram16[target] = Whole(content)

\* Battery backed memory that is on the disk is never replaced by a seed, and
\* no session touches the file of another stem or of another model, whatever
\* failed or was killed before.
NeverOverwritten ==
    [][\A t \in Stems \X Models :
          nvram16'[t] # nvram16[t] =>
             /\ t = target
             /\ nvram16[t] = Missing \/ (made /\ nvram16[t] = Cut(content))]_seedVars

\* A game that has a file of its own on the disk finds it again: no later
\* session of it falls back to the directory all games share.
FileIsFound ==
    \A c \in {d \in Contents : StemOf[d] # ""} :
        (\E m \in Models : nvram16[<<StemOf[c], m>>] # Missing) =>
            preferred_nvram_directory(c).dir = StemOf[c]
=============================================================================
