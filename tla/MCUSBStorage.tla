---------------------------- MODULE MCUSBStorage ----------------------------
(***************************************************************************)
(* USBStorage for TLC: two units at most and two tries at each, so that    *)
(* the loops of FindLun turn, and the devices that tell its paths apart.   *)
(***************************************************************************)
EXTENDS USBStorage

Reader(d, a) == [bulk |-> TRUE, maxLun |-> 1, disks |-> d, attention |-> a, size |-> 512]

(* A card reader whose second unit is a disk with a UNIT ATTENTION, one    *)
(* without a disk, two with too many units, and one without endpoints.     *)
MCDevices == {Reader({1}, {1}), Reader({}, {}),
              [Reader({0}, {}) EXCEPT !.maxLun = 2],
              [Reader({0}, {}) EXCEPT !.maxLun = 255],
              [Reader({0}, {}) EXCEPT !.bulk = FALSE]}

(* A disk with blocks of 4096 bytes. *)
LargeBlocks == {[Reader({0}, {}) EXCEPT !.size = 4096]}
=============================================================================
