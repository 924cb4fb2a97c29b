---------------------------- MODULE MCMediaMount ----------------------------
(* Instances of MediaMount for TLC: a desktop FM Towns and a Marty.        *)
EXTENDS MediaMount

\* The image options MAME derives from the machine configuration: one CD drive,
\* two floppy drives, hard disks where the model has a SCSI controller.  The Marty
\* has a single floppy drive, and a single device's option carries no number.
MCOffers == [fmtownsux |-> {"cdrom", "floppydisk1", "floppydisk2", "harddisk1",
                            "harddisk2", "harddisk3", "harddisk4"},
             fmtmarty |-> {"cdrom", "floppydisk"}]

\* One extension of each kind and one of none.
MCExtensions == {"cue", "d88", "hdi", ""}
MCNotedHeads == {"", "d88"}
=============================================================================
