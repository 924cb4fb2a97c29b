----------------------------- MODULE MediaMount -----------------------------
(***************************************************************************)
(* How content becomes mounted media: session::start from 'content_path'   *)
(* on, all_m3u_entries, mount_content_paths and mount_content_entry of     *)
(* libretro/mame_bridge.cpp.  One step reads one playlist line or mounts   *)
(* one entry.                                                              *)
(*                                                                         *)
(* A line of a playlist is abstracted to what the code tells apart: is it  *)
(* blank, is it a comment, and in which extension the path on it ends: for *)
(* a line with a '#' further on, in which the part before that '#' ends.   *)
(***************************************************************************)
EXTENDS Integers, Sequences, FiniteSets

CONSTANTS
    Extensions,     \* lower-case extensions that occur, "" for none
    NotedHeads,     \* extensions that occur before a '#' inside a line
    Offers,         \* model -> the image options that model has
    MaxLines        \* bound: lines of a playlist

ASSUME LinesAssumption == MaxLines \in Nat \ {0}

VARIABLES
    model,
    m3u,            \* the content is a playlist
    lines,          \* the playlist, or the content path itself as the one line
    at,             \* "read", "mount", "mounted", "failed"
    pos,            \* lines or entries dealt with
    entries,        \* media_paths: the extension of each path
    count,          \* cd_count, floppy_count, harddisk_count
    mounted         \* image option -> number of the entry it was given

vars == <<model, m3u, lines, at, pos, entries, count, mounted>>

Media == {"cdrom", "floppy", "harddisk"}

\* kind_for_extension.
kind_for_extension(ext) ==
    CASE ext \in {"chd", "cue", "toc", "nrg", "gdi", "iso", "cdr"} -> "cdrom"
      [] ext \in {"mfi", "dfi", "mfm", "td0", "imd", "86f", "d77", "d88", "1dd", "cqm",
                  "cqi", "dsk", "bin", "hdm"} -> "floppy"
      [] ext \in {"hd", "hdv", "2mg", "hdi", "h0"} -> "harddisk"
      [] OTHER -> "unknown"

\* slot_for_media: one CD drive, four floppy and four hard disk options.
NoSlot == "none"
slot_for_media(kind, index) ==
    CASE kind = "cdrom" -> IF index = 0 THEN "cdrom" ELSE NoSlot
      [] kind = "floppy" /\ index < 4 ->
            <<"floppydisk1", "floppydisk2", "floppydisk3", "floppydisk4">>[index + 1]
      [] kind = "harddisk" /\ index < 4 ->
            <<"harddisk1", "harddisk2", "harddisk3", "harddisk4">>[index + 1]
      [] OTHER -> NoSlot

\* NoSlot stands for nullptr: it is no image option of a model.
ASSUME OffersAssumption == \A m \in DOMAIN Offers : NoSlot \notin Offers[m]

Slots == {slot_for_media(k, i) : k \in Media, i \in 0..3} \ {NoSlot}

\* A line: "blank" (or all white space), "comment" (begins with '#'), a path, or
\* a path with a '#' in it ("disk.d88 # side A", but also "Game #1.cue").
Lines == {[form |-> "blank"], [form |-> "comment"]}
           \cup [form : {"path"}, ext : Extensions]
           \cup [form : {"noted"}, head : NotedHeads]

\* all_m3u_entries keeps a line unless it is empty or a comment, and cuts it at '#'.
keeps(line) == line.form \in {"path", "noted"}
cut(line) == IF line.form = "noted" THEN line.head ELSE line.ext

-----------------------------------------------------------------------------
Init ==
    /\ model \in DOMAIN Offers
    /\ m3u \in BOOLEAN
    /\ IF m3u THEN lines \in UNION {[1..n -> Lines] : n \in 0..MaxLines}
              ELSE lines \in [1..1 -> [form : {"path"}, ext : Extensions]]
    /\ at = "read"
    /\ pos = 0
    /\ entries = <<>>
    /\ count = [k \in Media |-> 0]
    /\ mounted = << >>

\* One iteration of all_m3u_entries.
read_line ==
    /\ at = "read" /\ pos < Len(lines)
    /\ pos' = pos + 1
    /\ entries' = IF keeps(lines[pos + 1]) THEN Append(entries, cut(lines[pos + 1])) ELSE entries
    /\ UNCHANGED <<model, m3u, lines, at, count, mounted>>

\* The playlist is read: an empty one fails the start of the session.
read_done ==
    /\ at = "read" /\ pos = Len(lines)
    /\ at' = IF entries = <<>> THEN "failed" ELSE "mount"
    /\ pos' = 0
    /\ UNCHANGED <<model, m3u, lines, entries, count, mounted>>

\* Mutant: the counter of the kind stays.
mutant_same_slot ==
    /\ at = "mount" /\ pos < Len(entries)
    /\ pos' = pos + 1
    /\ LET kind == kind_for_extension(entries[pos + 1])
           slot == slot_for_media(kind, 0)
       IN  \/ kind = "unknown" /\ UNCHANGED <<at, mounted>>
           \/ slot \in Offers[model] /\ UNCHANGED at
                 /\ mounted' = [s \in DOMAIN mounted \cup {slot} |->
                                  IF s = slot THEN pos + 1 ELSE mounted[s]]
           \/ slot \notin Offers[model] \cup {NoSlot} /\ at' = "failed" /\ mounted' = << >>
    /\ UNCHANGED <<model, m3u, lines, entries, count>>

\* mount_content_entry.  An entry of unknown kind, and one that no slot is left
\* for, are skipped; one whose slot the model does not have ends the start, and
\* session::stop drops the options with what was mounted so far.
mount_content_entry ==
    /\ at = "mount" /\ pos < Len(entries)
    /\ pos' = pos + 1
    /\ LET kind == kind_for_extension(entries[pos + 1])
           slot == slot_for_media(kind, count[kind])
       IN  IF kind = "unknown"
           THEN UNCHANGED <<at, count, mounted>>
           ELSE /\ count' = [count EXCEPT ![kind] = @ + 1]
                /\ \/ slot = NoSlot /\ UNCHANGED <<at, mounted>>
                   \/ slot \in Offers[model] /\ UNCHANGED at
                         /\ mounted' = [s \in DOMAIN mounted \cup {slot} |->
                                          IF s = slot THEN pos + 1 ELSE mounted[s]]
                   \/ slot \notin Offers[model] \cup {NoSlot} /\ at' = "failed" /\ mounted' = << >>
    /\ UNCHANGED <<model, m3u, lines, entries>>

mount_done ==
    /\ at = "mount" /\ pos = Len(entries)
    /\ at' = "mounted"
    /\ UNCHANGED <<model, m3u, lines, pos, entries, count, mounted>>

Next == read_line \/ read_done \/ mount_content_entry \/ mount_done

Spec == Init /\ [][Next]_vars

-----------------------------------------------------------------------------
(* The reference: what the playlist means, independent of the loop.        *)

Kept == {l \in 1..Len(lines) : keeps(lines[l])}
Of(kind) == {l \in Kept : kind_for_extension(cut(lines[l])) = kind}

\* How many of the lines in S come no later than line l: the number of line l, for
\* one of them.
Nth(S, l) == Cardinality({j \in S : j <= l})

Capacity(kind) == IF kind = "cdrom" THEN 1 ELSE 4

\* Slot number i of a kind is wanted when the playlist has i + 1 entries of it.
Wanted(kind) == {slot_for_media(kind, i) : i \in 0..(Cardinality(Of(kind)) - 1)} \ {NoSlot}

Succeeds == Kept # {} /\ \A k \in Media : Wanted(k) \subseteq Offers[model]

-----------------------------------------------------------------------------
(* Properties.                                                             *)

\* Every variable has its type.
TypeOK ==
    /\ model \in DOMAIN Offers /\ m3u \in BOOLEAN
    /\ at \in {"read", "mount", "mounted", "failed"}
    /\ pos \in 0..MaxLines + 1
    /\ entries \in Seq(Extensions \cup NotedHeads)
    /\ count \in [Media -> Nat]
    /\ DOMAIN mounted \subseteq Slots \cap Offers[model]

\* A session that starts has, in slot i of each kind, the i-th entry of that kind
\* in playlist order, for as many as the kind has slots, and nothing else: no
\* entry displaces another, and comments, blank lines and unsupported entries in
\* between shift nothing.  It fails to start exactly when the playlist has no
\* entry or asks for a slot the model does not have, wherever in the list that
\* entry stands; then nothing stays mounted.  (So a desktop, which has two drives,
\* does not start with the playlist of three floppies that
\* docs/CD_FLOPPY_PROBLEM_SOLUTION.md gives as a use case in 237-242.)  All along
\* the variables are typed.
MountsInOrder ==
    /\ TypeOK
    /\ at = "mounted" =>
          /\ Succeeds
          /\ DOMAIN mounted = UNION {Wanted(k) : k \in Media}
          /\ \A k \in Media : \A l \in Of(k) :
                Nth(Of(k), l) <= Capacity(k) =>
                  mounted[slot_for_media(k, Nth(Of(k), l) - 1)] = Nth(Kept, l)
    /\ at = "failed" => ~Succeeds /\ mounted = << >>
=============================================================================
