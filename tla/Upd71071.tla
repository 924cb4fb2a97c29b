------------------------------ MODULE Upd71071 ------------------------------
(***************************************************************************)
(* The DMA controller of devices/machine/upd71071.cpp.  A handler is a     *)
(* function from the controller's record to the record it leaves behind.   *)
(* Masks and status bits are sets of channels; a mode is the record of its *)
(* fields; timer holds the channels whose transfer timer runs.  The bytes  *)
(* of a count or an address are written as one: the guest writes them      *)
(* while the channel is masked.  The temporary and request registers,      *)
(* which nothing but their own ports reads, are left out.                  *)
(***************************************************************************)
EXTENDS Integers

CONSTANTS
  CountModulus,    \* values of a count register, 65536 in the code
  AddressModulus   \* values of an address register, 2^32 in the code

ASSUME ModulusAssumption ==
  /\ CountModulus \in Nat \ {0}
  /\ AddressModulus \in Nat \ {0}

Channels == 0..3

Modes == [transfer  : {"demand", "single", "block", "cascade"},
          direction : {"verify", "in", "out", "invalid"},
          auto      : BOOLEAN,     \* initialise again at terminal count
          down      : BOOLEAN]     \* count addresses down

NoMode == [transfer |-> "demand", direction |-> "verify", auto |-> FALSE, down |-> FALSE]

Dmas == [selected : Channels, base : BOOLEAN, disabled : BOOLEAN, eop : BOOLEAN,
         mask : SUBSET Channels, reached : SUBSET Channels, requests : SUBSET Channels,
         timer : SUBSET Channels, mode : [Channels -> Modes],
         count : [Channels -> 0..(CountModulus - 1)],
         count_base : [Channels -> 0..(CountModulus - 1)],
         address : [Channels -> 0..(AddressModulus - 1)],
         address_base : [Channels -> 0..(AddressModulus - 1)]]

\* device_start.
Started ==
  LET zeros == [c \in Channels |-> 0]
  IN [selected |-> 0, base |-> FALSE, disabled |-> FALSE, eop |-> FALSE,
      mask |-> Channels, reached |-> {}, requests |-> {}, timer |-> {},
      mode |-> [c \in Channels |-> NoMode],
      count |-> zeros, count_base |-> zeros, address |-> zeros, address_base |-> zeros]

-----------------------------------------------------------------------------
(* Registers.  A write to a base register also sets the current one, unless *)
(* the channel register selects the base alone.                             *)

channel_w(d, channel, base) == [d EXCEPT !.selected = channel, !.base = base]

count_w(d, n) ==
  [d EXCEPT !.count_base[d.selected] = n,
            !.count[d.selected] = IF d.base THEN @ ELSE n]

address_w(d, a) ==
  [d EXCEPT !.address_base[d.selected] = a,
            !.address[d.selected] = IF d.base THEN @ ELSE a]

mode_w(d, m) == [d EXCEPT !.mode[d.selected] = m]
mask_w(d, m) == [d EXCEPT !.mask = m]
device_control_w(d, disabled) == [d EXCEPT !.disabled = disabled]

\* Reading the status register clears the terminal counts.
status_r(d) == [d EXCEPT !.reached = {}]

\* A transfer timer that runs is left running.
soft_reset(d) ==
  [d EXCEPT !.selected = 0, !.base = FALSE, !.mode = [c \in Channels |-> NoMode],
            !.disabled = FALSE, !.mask = Channels, !.reached = {}]

-----------------------------------------------------------------------------
(* Requests and transfers *)

\* A rising request starts the transfer of one byte, unless the controller is
\* disabled or the channel masked: then it leaves no trace.
request(d, channel) ==
  IF d.disabled \/ channel \in d.mask THEN d
  ELSE [d EXCEPT !.requests = @ \cup {channel},
                 !.eop = @ /\ d.mode[channel].transfer # "demand",
                 !.timer = IF d.mode[channel].transfer \in {"demand", "single"}
                           THEN @ \cup {channel} ELSE @]

\* A withdrawn request cancels the transfer.
withdraw(d, channel) ==
  [d EXCEPT !.requests = @ \ {channel}, !.timer = @ \ {channel}]

dmarq(d, state, channel) == IF state THEN request(d, channel) ELSE withdraw(d, channel)

\* Mutant: terminal count one byte early.
mutant_ends_early(d, channel) ==
  LET left == (d.count[channel] - 1) % CountModulus
      step == IF d.mode[channel].down THEN -1 ELSE 1
  IN [d EXCEPT !.address[channel] = (@ + step) % AddressModulus,
               !.count[channel] = left,
               !.mask = IF left = 0 THEN @ \cup {channel} ELSE @,
               !.reached = IF left = 0 THEN @ \cup {channel} ELSE @]

\* The registers after a byte has moved; the count wraps at terminal count.
advance(d, channel) ==
  LET m     == d.mode[channel]
      step  == IF m.down THEN -1 ELSE 1
      moved == [d EXCEPT !.address[channel] = (@ + step) % AddressModulus,
                         !.count[channel] = (@ - 1) % CountModulus]
      ended == [moved EXCEPT !.eop = TRUE, !.reached = @ \cup {channel}]
  IN IF d.count[channel] # 0 THEN moved
     ELSE IF m.auto
     THEN [ended EXCEPT !.address[channel] = d.address_base[channel],
                        !.count[channel] = d.count_base[channel]]
     ELSE [ended EXCEPT !.timer = @ \ {channel}, !.mask = @ \cup {channel}]
=============================================================================
