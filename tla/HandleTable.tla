----------------------------- MODULE HandleTable -----------------------------
(***************************************************************************)
(* What the DeviceMgr promises of its table of device handles, whatever    *)
(* order it works in.  A handle is leased to a stick that the last report  *)
(* lists and that no other handle serves.  It keeps its device until that  *)
(* was pulled and its volume closed.  A report that no longer lists a      *)
(* stick unplugs its handle, unless I/O on it failed before.  A failure    *)
(* lasts until the handle is ejected or opened.  blob.bin is opened on,    *)
(* and the game gets, only a handle that was open, plugged and not failed  *)
(* when its files were read; until it is used it stays open and plugged,   *)
(* and only an access of the running game can fail it.                     *)
(***************************************************************************)
CONSTANTS
  Handles,
  Sticks,
  Card, CardHandle,  \* the SD card, and its handle
  Free,              \* no device
  None               \* no handle

VARIABLES
  lease,    \* the device of each handle, or Free
  plugged,  \* handles whose device is in, as far as was noticed
  failed,   \* handles whose last I/O failed
  open,     \* handles with a volume
  host,     \* the handle of the open blob.bin
  tested,   \* the handle whose files were read and that is used next
  game,     \* the handle that the game got
  access,   \* the handle that serves an access of the game
  listed    \* the sticks of the last report

tableVars == <<lease, plugged, failed, open, host, tested, game, access, listed>>

Healthy == plugged \ failed

Init ==
  /\ lease = [k \in Handles |-> IF k = CardHandle THEN Card ELSE Free]
  /\ plugged = {} /\ failed = {} /\ open = {}
  /\ host = None /\ tested = None /\ game = None /\ access = None /\ listed = {}

Report(S) ==
  /\ listed' = S
  /\ UNCHANGED <<lease, plugged, failed, open, host, tested, game, access>>

(* The handles of the sticks that are gone; those that failed may be missed. *)
Unplug(S) ==
  /\ S \subseteq {k \in plugged \ {tested} : lease[k] \in Sticks \ listed}
  /\ {k \in Healthy : lease[k] \in Sticks \ listed} \subseteq S
  /\ plugged' = plugged \ S
  /\ UNCHANGED <<lease, failed, open, host, tested, game, access, listed>>

Lease(k, s) ==
  /\ lease[k] = Free
  /\ s \in listed /\ \A i \in Healthy : lease[i] # s
  /\ lease' = [lease EXCEPT ![k] = s]
  /\ plugged' = plugged \cup {k}
  /\ UNCHANGED <<failed, open, host, tested, game, access, listed>>

InsertCard ==
  /\ plugged' = plugged \cup {CardHandle}
  /\ UNCHANGED <<lease, failed, open, host, tested, game, access, listed>>

(* A stick that was never opened keeps its handle. *)
Eject(k) ==
  /\ lease[k] # Free /\ k # tested /\ (k \in plugged => k = CardHandle)
  /\ lease' = [lease EXCEPT ![k] = IF k \in open /\ @ \in Sticks THEN Free ELSE @]
  /\ plugged' = plugged \ {k} /\ failed' = failed \ {k} /\ open' = open \ {k}
  /\ host' = IF host = k THEN None ELSE host
  /\ UNCHANGED <<tested, game, access, listed>>

Open(k) ==
  /\ k \in plugged \ open
  /\ open' = open \cup {k} /\ failed' = failed \ {k}
  /\ UNCHANGED <<lease, plugged, host, tested, game, access, listed>>

HostFails ==
  /\ host # None /\ tested = None
  /\ failed' = failed \cup {host}
  /\ UNCHANGED <<lease, plugged, open, host, tested, game, access, listed>>

(* blob.bin of another handle is closed first, and this one may fail, too. *)
CloseBlob(k) ==
  /\ k \in open \cap plugged /\ tested = None
  /\ host' = None
  /\ failed' \in {failed, failed \cup {k}}
  /\ UNCHANGED <<lease, plugged, open, tested, game, access, listed>>

(* The file is found, and read without an error: that of another handle is  *)
(* closed by then.                                                          *)
FindBlob(k) ==
  /\ k \in open \cap Healthy /\ tested = None
  /\ tested' = k /\ host' = None
  /\ UNCHANGED <<lease, plugged, failed, open, game, access, listed>>

OpenBlob ==
  /\ tested # None /\ host = None
  /\ host' = tested /\ tested' = None
  /\ UNCHANGED <<lease, plugged, failed, open, game, access, listed>>

(* The program for the game is read from the host without an error.         *)
Load ==
  /\ host \in open \cap Healthy /\ tested = None
  /\ tested' = host
  /\ UNCHANGED <<lease, plugged, failed, open, host, game, access, listed>>

Launch ==
  /\ tested # None /\ host = tested
  /\ game' = tested /\ tested' = None
  /\ UNCHANGED <<lease, plugged, failed, open, host, access, listed>>

(* An access goes on when its handle was ejected, and may fail whatever the *)
(* handle is leased to by then.                                             *)
Access ==
  /\ access = None /\ game # None /\ lease[game] # Free /\ game \notin failed
  /\ access' = game
  /\ UNCHANGED <<lease, plugged, failed, open, host, tested, game, listed>>

AccessEnds ==
  /\ access # None
  /\ access' = None
  /\ \/ UNCHANGED failed
     \/ lease[access] # Free /\ failed' = failed \cup {access}
  /\ UNCHANGED <<lease, plugged, open, host, tested, game, listed>>

Next ==
  \/ \E S \in SUBSET Sticks : Report(S)
  \/ \E S \in SUBSET Handles : Unplug(S)
  \/ InsertCard \/ HostFails \/ OpenBlob \/ Load \/ Launch \/ Access \/ AccessEnds
  \/ \E k \in Handles : \/ Eject(k) \/ Open(k) \/ CloseBlob(k) \/ FindBlob(k)
                        \/ \E s \in Sticks : Lease(k, s)

Spec == Init /\ [][Next]_tableVars
=============================================================================
