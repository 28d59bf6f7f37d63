----------------------------- MODULE MCServices -----------------------------
(***************************************************************************)
(* The small services of the IOS module for TLC: the decryption of the     *)
(* blob, the import of the channel, the HID proxy with the reload, the     *)
(* clock and the time stamps of files.  They do not touch each other's     *)
(* state, so that a behaviour moves one of them only, the one in focus,    *)
(* and the others rest in an initial state.                                *)
(***************************************************************************)
EXTENDS BlobRead, EmuES, EmuHID, Clock, FatTime

VARIABLE focus

servicesVars == <<focus, blobVars, importVars, emuHIDVars, clockVars, fatVars>>

Content(c, d) == [cid |-> c, data |-> d]
Tmd(list) == [i \in 0 .. Len(list) - 1 |-> list[i + 1]]

(* A banner, the stub and another content; the stub with id 0; the stub's  *)
(* data as the banner, which is not searched.                              *)
MCTmds == {Tmd(<<Content(3, "banner"), Content(2, "stub"), Content(1, "app")>>),
           Tmd(<<Content(3, "banner"), Content(0, "stub")>>),
           Tmd(<<Content(2, "stub"), Content(1, "app")>>)}

(* The first days of FAT, and four years from a century that is a leap     *)
(* year, from one that is not, and to the end of FAT in 2107.              *)
NewYear(d, y) == [day |-> d, date |-> Date(y, 1, 1)]
MCAnchors == {NewYear(3652, 1980), NewYear(10957, 2000), NewYear(47482, 2100),
              NewYear(48942, 2104)}

ServicesInit ==
  /\ focus \in {"read", "import", "hid", "clock", "stamp"}
  /\ ReadInit
  /\ ImportInit /\ (focus # "import" => esKey = NoKey)
  /\ HIDInit /\ (focus # "hid" => plugged = 0)
  /\ ClockInit /\ (focus # "clock" => timer = 0)
  /\ FatInit /\ (focus # "stamp" => day = 3652 /\ second = 0)

InRead(A) ==
  focus = "read" /\ A /\ UNCHANGED <<focus, importVars, emuHIDVars, clockVars, fatVars>>
InHID(A) ==
  focus = "hid" /\ A /\ UNCHANGED <<focus, blobVars, importVars, clockVars, fatVars>>

ServicesNext ==
  \/ InRead(ReadNext)
  \/ InHID(HIDNext)
  \/ /\ focus = "import" /\ ImportNext
     /\ UNCHANGED <<focus, blobVars, emuHIDVars, clockVars, fatVars>>
  \/ /\ focus = "clock" /\ ClockNext
     /\ UNCHANGED <<focus, blobVars, importVars, emuHIDVars, fatVars>>
  \/ /\ focus = "stamp" /\ FatNext
     /\ UNCHANGED <<focus, blobVars, importVars, emuHIDVars, clockVars>>

(* The fairness of BlobRead and of EmuHID. *)
ServicesSpec ==
  /\ ServicesInit /\ [][ServicesNext]_servicesVars
  /\ WF_servicesVars(InRead(ReadSectors))
  /\ WF_servicesVars(InHID(HIDThread)) /\ WF_servicesVars(InHID(ESThread))
  /\ WF_servicesVars(InHID(ReportChange)) /\ WF_servicesVars(InHID(Ask))
=============================================================================
