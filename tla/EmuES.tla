------------------------------- MODULE EmuES -------------------------------
(***************************************************************************)
(* The import of the channel through EmuES: AddTicket to AddContentFinish  *)
(* of src/ios/IOS/EmuES.cpp, between an installer on the PowerPC side and  *)
(* the real ES.                                                            *)
(*                                                                         *)
(* The channel's TMD lists a loader stub.  EmuES edits the TMD so that ES  *)
(* expects this program (System::s_dolData) in its place, throws the       *)
(* installer's data for that content away, and writes the program,         *)
(* encrypted with the key of the ticket, when the content is finished.     *)
(*                                                                         *)
(* One thread serves one request at a time, so each request is a step.     *)
(* One with the wrong vectors, or a content of another title, is refused   *)
(* before it has an effect and is no step.                                 *)
(* The hash of a content in a TMD is the name of its data.  A chunk of     *)
(* encrypted data is named by the data, its place, the key, and what its   *)
(* vector was: the content's index, or the chunk before it.                *)
(* The real ES and the installer are external.                             *)
(***************************************************************************)
EXTENDS Integers, Sequences

CONSTANTS
  Tmds,           \* the channel's TMDs: functions from indices to contents
  Data,           \* names of the data of contents, the stub's among them
  Stub,           \* the loader stub that the server has
  Dol,            \* this program, s_dolData
  Keys, NoKey,    \* title keys
  Cfds,           \* content descriptors of ES
  ContentChunks,  \* chunks that the installer sends for a content
  DolChunks       \* chunks of WriteSize bytes in the program

(* The contents of a TMD have different ids, and each one has its index as *)
(* its place in the list, what EmuES takes for granted at line 370; only   *)
(* one content behind the banner is the stub.                              *)
ASSUME ImportAssumption ==
  /\ Stub \in Data /\ Dol \notin Data
  /\ NoKey \notin Keys
  /\ Cfds \subseteq Nat
  /\ ContentChunks \in Nat \ {0} /\ DolChunks \in Nat \ {0}
  /\ \A t \in Tmds :
       /\ DOMAIN t \subseteq Nat /\ DOMAIN t # {}
       /\ t \in [DOMAIN t -> [cid : Nat, data : Data]]
       /\ \A i, j \in DOMAIN t :
            i # j => t[i].cid # t[j].cid /\ ~(i >= 1 /\ j >= 1 /\ t[i].data = Stub /\ t[j].data = Stub)

Unset == -1
Refused == -101    \* an error of ES
NoTmd == <<>>

VARIABLES
  titleKey,      \* s_ctgpTitleKey
  stubIndex,     \* s_ctgpStubIndex
  stubCid,       \* s_ctgpStubCid
  stubCfd,       \* s_ctgpStubCfd
  esKey,         \* ES: the key of the installed ticket
  esTmd,         \* the TMD of the import in progress
  esIndex,       \* the content that a cfd is open for, or Unset
  written,       \* the data written to a cfd
  original,      \* the installer: its TMD of the import in progress
  granted,       \* the cfds that it was given and has not finished
  sent,          \* what it sent for a cfd
  disturbed,     \* a request failed, or came out of place, in this import
  last           \* history: the content that the last request finished

stubVars == <<titleKey, stubIndex, stubCid, stubCfd>>
esVars == <<esKey, esTmd, esIndex, written>>
installerVars == <<original, granted, sent, disturbed, last>>
importVars == <<stubVars, esVars, installerVars>>

Chunk(d, m, k, i) == [data |-> d, place |-> m, key |-> k, iv |-> IF m = 1 THEN i ELSE Unset]
Cipher(d, n, k, i) == [m \in 1 .. n |-> Chunk(d, m, k, i)]
Chunks ==
  [data : Data \cup {Dol}, place : Nat \ {0}, key : Keys \cup {NoKey}, iv : Nat \cup {Unset}]
Length(d) == IF d = Dol THEN DolChunks ELSE ContentChunks

InProgress == original # NoTmd
Results == [index : Nat \cup {Unset}, got : Data \cup {Dol}, deserved : BOOLEAN, ok : BOOLEAN]
Nothing == [index |-> Unset, got |-> Stub, deserved |-> FALSE, ok |-> FALSE]

ImportInit ==
  /\ titleKey = NoKey
  /\ stubIndex = Unset /\ stubCid = Unset /\ stubCfd = Unset
  /\ esKey \in Keys \cup {NoKey} /\ esTmd = NoTmd
  /\ esIndex = [f \in Cfds |-> Unset] /\ written = [f \in Cfds |-> <<>>]
  /\ original = NoTmd /\ granted = {} /\ sent = [f \in Cfds |-> <<>>]
  /\ disturbed = FALSE /\ last = Nothing

-----------------------------------------------------------------------------
(* AddTicket of the channel: the title key is kept before ES takes or      *)
(* refuses the ticket.                                                     *)
AddTicket(k) ==
  /\ titleKey' = k
  /\ \/ esKey' = k
     \/ UNCHANGED esKey
  /\ disturbed' = (disturbed \/ InProgress)
  /\ last' = Nothing
  /\ UNCHANGED <<stubIndex, stubCid, stubCfd, esTmd, esIndex, written,
                 original, granted, sent>>

(* A variant of Stubs whose search starts behind index 1. *)
StubsAfterFirst(t) ==
  {i \in DOMAIN t : i >= 2 /\ t[i].data = Stub /\ \A j \in DOMAIN t : j >= 2 /\ j < i => t[j].data # Stub}

(* The first content behind the banner that has the stub's size and hash.  *)
Stubs(t) ==
  {i \in DOMAIN t : i >= 1 /\ t[i].data = Stub /\ \A j \in DOMAIN t : j >= 1 /\ j < i => t[j].data # Stub}

(* The TMD that ES gets. *)
Edited(t) == [i \in DOMAIN t |-> IF i \in Stubs(t) THEN [t[i] EXCEPT !.data = Dol] ELSE t[i]]

(* AddTitleStart of another title forgets the stub and fails at once: ES   *)
(* does not hear of it and goes on with the import it has.                 *)
AddOtherTitle ==
  /\ stubIndex' = Unset /\ stubCid' = Unset /\ stubCfd' = Unset
  /\ disturbed' = (disturbed \/ InProgress)
  /\ last' = Nothing
  /\ UNCHANGED <<titleKey, esVars, original, granted, sent>>

(* AddTitleStart of the channel.  ES needs the ticket.  It may refuse, with *)
(* an import in progress for one, or start anew.                           *)
AddTitleStart(t) ==
  /\ \/ \E i \in Stubs(t) : stubIndex' = i /\ stubCid' = t[i].cid
     \/ Stubs(t) = {} /\ stubIndex' = Unset /\ stubCid' = Unset
  /\ stubCfd' = Unset
  /\ \/ /\ esKey # NoKey
        /\ esTmd' = Edited(t) /\ original' = t
        /\ esIndex' = [f \in Cfds |-> Unset] /\ written' = [f \in Cfds |-> <<>>]
        /\ granted' = {} /\ sent' = [f \in Cfds |-> <<>>]
        /\ disturbed' = FALSE
     \/ /\ disturbed' = (disturbed \/ InProgress)
        /\ UNCHANGED <<esTmd, original, esIndex, written, granted, sent>>
  /\ last' = Nothing
  /\ UNCHANGED <<titleKey, esKey>>

(* A variant of NewStubCfd that takes an error of ES for a descriptor. *)
UncheckedCfd(i, ret) == IF esTmd[i].cid = stubCid /\ stubCid # 0 THEN ret ELSE stubCfd

(* s_ctgpStubCfd after AddContentStart. *)
NewStubCfd(i, ret) ==
  IF esTmd[i].cid = stubCid /\ stubCid # 0 /\ ret \in Cfds THEN ret ELSE stubCfd

(* AddContentStart for the content at index i: ES refuses, or opens it.    *)
(* The installer gets an error as well if the content is the stub with     *)
(* id 0, which ES has then opened.                                         *)
AddContentStart(i, ret) ==
  /\ i \in DOMAIN esTmd
  /\ \/ ret = Refused /\ UNCHANGED <<esIndex, written, sent, granted>>
     \/ /\ ret \in Cfds /\ esIndex[ret] = Unset /\ \A f \in Cfds : esIndex[f] # i
        /\ esIndex' = [esIndex EXCEPT ![ret] = i]
        /\ written' = [written EXCEPT ![ret] = <<>>] /\ sent' = [sent EXCEPT ![ret] = <<>>]
        /\ granted' = IF esTmd[i].cid = stubCid /\ stubCid = 0 THEN granted ELSE granted \cup {ret}
  /\ stubCfd' = NewStubCfd(i, ret)
  /\ last' = Nothing
  /\ UNCHANGED <<titleKey, stubIndex, stubCid, esKey, esTmd, original, disturbed>>

(* A variant of AddContentData that passes the data of the stub on. *)
AddAnyData(f, m) ==
  /\ f \in granted /\ Len(sent[f]) < ContentChunks
  /\ LET c == Chunk(original[esIndex[f]].data, m, esKey, esIndex[f]) IN
     /\ sent' = [sent EXCEPT ![f] = Append(@, c)]
     /\ written' = [written EXCEPT ![f] = Append(@, c)]
  /\ last' = Nothing
  /\ UNCHANGED <<stubVars, esKey, esTmd, esIndex, original, granted, disturbed>>

(* AddContentData: a chunk of the content's data, in its place or not.     *)
(* The installer sends no more than the content is long (a bound).         *)
AddContentData(f, m) ==
  /\ f \in granted /\ Len(sent[f]) < ContentChunks
  /\ LET c == Chunk(original[esIndex[f]].data, m, esKey, esIndex[f]) IN
     /\ sent' = [sent EXCEPT ![f] = Append(@, c)]
     /\ written' = IF f = stubCfd THEN written ELSE [written EXCEPT ![f] = Append(@, c)]
  /\ last' = Nothing
  /\ UNCHANGED <<stubVars, esKey, esTmd, esIndex, original, granted, disturbed>>

(* The installer sent a content as the server has it, with the ticket that *)
(* ES has, and nothing came between: the content has to be taken.          *)
Deserved(f) ==
  /\ ~disturbed
  /\ sent[f] = Cipher(original[esIndex[f]].data, ContentChunks, esKey, esIndex[f])
  /\ esIndex[f] \in Stubs(original) => titleKey = esKey

(* ES closes the content, and takes it if the data matches the hash. *)
Matches(f, data) ==
  LET d == esTmd[esIndex[f]].data IN data = Cipher(d, Length(d), esKey, esIndex[f])

EsFinish(f, data) ==
  /\ last' = [index |-> esIndex[f], got |-> esTmd[esIndex[f]].data,
              deserved |-> Deserved(f), ok |-> Matches(f, data)]
  /\ esIndex' = [esIndex EXCEPT ![f] = Unset]
  /\ written' = [written EXCEPT ![f] = <<>>] /\ sent' = [sent EXCEPT ![f] = <<>>]
  /\ granted' = granted \ {f}

FinishContent(f) ==
  /\ f \in granted /\ f # stubCfd
  /\ EsFinish(f, written[f])
  /\ UNCHANGED <<stubVars, esKey, esTmd, original, disturbed>>

(* A variant of FinishStub that does not forget the descriptor. *)
FinishKeepsCfd(f) ==
  /\ f \in granted /\ f = stubCfd
  /\ EsFinish(f, written[f] \o Cipher(Dol, DolChunks, titleKey, stubIndex))
  /\ UNCHANGED <<stubVars, esKey, esTmd, original, disturbed>>

(* AddContentFinish of the stub: the program is written in its place. *)
FinishStub(f) ==
  /\ f \in granted /\ f = stubCfd
  /\ stubCfd' = Unset
  /\ EsFinish(f, written[f] \o Cipher(Dol, DolChunks, titleKey, stubIndex))
  /\ UNCHANGED <<titleKey, stubIndex, stubCid, esKey, esTmd, original, disturbed>>

(* The AES engine or ES fails after n chunks: the content stays open, and  *)
(* is not taken for the stub any more.                                     *)
FinishStubFails(f, n) ==
  /\ f \in granted /\ f = stubCfd
  /\ stubCfd' = Unset
  /\ written' = [written EXCEPT ![f] = @ \o Cipher(Dol, n, titleKey, stubIndex)]
  /\ disturbed' = TRUE /\ last' = Nothing
  /\ UNCHANGED <<titleKey, stubIndex, stubCid, esKey, esTmd, esIndex, original, granted, sent>>

(* AddTitleFinish and AddTitleCancel go to ES as they are. *)
EndImport ==
  /\ esTmd' = NoTmd /\ original' = NoTmd
  /\ esIndex' = [f \in Cfds |-> Unset] /\ written' = [f \in Cfds |-> <<>>]
  /\ granted' = {} /\ sent' = [f \in Cfds |-> <<>>] /\ disturbed' = FALSE
  /\ last' = Nothing
  /\ UNCHANGED <<stubVars, esKey>>

Indices == UNION {DOMAIN t : t \in Tmds}

ImportNext ==
  \/ \E k \in Keys : AddTicket(k)
  \/ AddOtherTitle
  \/ \E t \in Tmds : AddTitleStart(t)
  \/ \E i \in Indices, ret \in Cfds \cup {Refused} : AddContentStart(i, ret)
  \/ \E f \in Cfds, m \in 1 .. ContentChunks : AddContentData(f, m)
  \/ \E f \in Cfds : FinishContent(f) \/ FinishStub(f)
  \/ \E f \in Cfds, n \in 0 .. DolChunks - 1 : FinishStubFails(f, n)
  \/ EndImport

ImportSpec == ImportInit /\ [][ImportNext]_importVars

-----------------------------------------------------------------------------
(* The type invariant of the import. *)
ImportTypeOK ==
  /\ titleKey \in Keys \cup {NoKey} /\ esKey \in Keys \cup {NoKey}
  /\ stubIndex \in Nat \cup {Unset} /\ stubCid \in Nat \cup {Unset}
  /\ stubCfd \in Cfds \cup {Unset}
  /\ original \in Tmds \cup {NoTmd} /\ esTmd \in {NoTmd} \cup {Edited(t) : t \in Tmds}
  /\ esIndex \in [Cfds -> Nat \cup {Unset}]
  /\ written \in [Cfds -> Seq(Chunks)] /\ sent \in [Cfds -> Seq(Chunks)]
  /\ granted \subseteq Cfds /\ disturbed \in BOOLEAN
  /\ last \in Results

(* An installer cannot tell that EmuES is there: every content that it     *)
(* sends as the server has it is taken, the stub as well as the others,    *)
(* in whatever order it opens, sends and finishes them.                    *)
InstallerCannotTell == last.deserved => last.ok

(* While s_ctgpStubCfd is set, ES has that descriptor open for the stub,   *)
(* with nothing in it: the swap at the end (lines 358-407) hits no content *)
(* that was given the descriptor later.                                    *)
StubCfdIsStub ==
  InProgress /\ ~disturbed /\ stubCfd # Unset =>
    /\ esIndex[stubCfd] = stubIndex /\ stubIndex \in Stubs(original)
    /\ written[stubCfd] = <<>>

(* Whatever requests come in whatever order, what ES takes for the stub is *)
(* the whole of this program, never the loader that the server has.        *)
OwnStub == last.ok /\ last.index >= 1 => last.got # Stub
=============================================================================
