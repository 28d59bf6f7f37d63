---------------------------- MODULE EmuESProofs ----------------------------
(***************************************************************************)
(* What holds of the import of the channel for all TMDs, keys and lengths. *)
(* The inductive invariant says that ES has the edited TMD (Import), which *)
(* contents are open (Opened), and, in an import that nothing disturbed,   *)
(* that EmuES knows the stub (StubKnown), and that a content holds what    *)
(* was sent for it, the stub nothing (Contents).                           *)
(***************************************************************************)
EXTENDS EmuES, SequenceTheorems, TLAPS

Import ==
  /\ InProgress => original \in Tmds /\ esTmd = Edited(original)
  /\ ~InProgress => esTmd = NoTmd /\ granted = {}

Opened ==
  /\ \A f \in Cfds : esIndex[f] # Unset => esIndex[f] \in DOMAIN original
  /\ \A f \in granted : esIndex[f] # Unset
  /\ \A f, g \in Cfds : esIndex[f] # Unset /\ esIndex[f] = esIndex[g] => f = g

Following == InProgress /\ ~disturbed

StubKnown ==
  Following =>
    \/ stubIndex \in Stubs(original) /\ stubCid = original[stubIndex].cid
    \/ Stubs(original) = {} /\ stubIndex = Unset /\ stubCid = Unset

Contents ==
  Following =>
    /\ stubCfd # Unset => stubCfd \in granted /\ esIndex[stubCfd] \in Stubs(original)
    /\ \A f \in granted :
         /\ esIndex[f] \in Stubs(original) => f = stubCfd /\ written[f] = <<>>
         /\ esIndex[f] \notin Stubs(original) => written[f] = sent[f]

IInv == ImportTypeOK /\ Import /\ Opened /\ StubKnown /\ Contents

-----------------------------------------------------------------------------
LEMMA TmdShape ==
  ASSUME NEW t \in Tmds
  PROVE  /\ t # NoTmd /\ DOMAIN t \subseteq Nat /\ DOMAIN Edited(t) = DOMAIN t
         /\ \A i \in DOMAIN t : /\ t[i] \in [cid : Nat, data : Data]
                                /\ Edited(t)[i].cid = t[i].cid
                                /\ Edited(t)[i].data = IF i \in Stubs(t) THEN Dol ELSE t[i].data
<1>1. DOMAIN t \subseteq Nat /\ DOMAIN t # {} /\ t \in [DOMAIN t -> [cid : Nat, data : Data]]
  BY ImportAssumption DEF ImportAssumption
<1>2. t # NoTmd
  BY <1>1 DEF NoTmd
<1>3. DOMAIN Edited(t) = DOMAIN t
  BY DEF Edited
<1>4. ASSUME NEW i \in DOMAIN t
      PROVE  /\ t[i] \in [cid : Nat, data : Data]
             /\ Edited(t)[i].cid = t[i].cid
             /\ Edited(t)[i].data = IF i \in Stubs(t) THEN Dol ELSE t[i].data
  <2>1. t[i] \in [cid : Nat, data : Data]
    BY <1>1
  <2>2. Edited(t)[i] = IF i \in Stubs(t) THEN [t[i] EXCEPT !.data = Dol] ELSE t[i]
    BY DEF Edited
  <2> HIDE DEF Edited
  <2> QED
    BY <2>1, <2>2
<1> QED
  BY <1>1, <1>2, <1>3, <1>4

(* The stub is the only content behind the banner with its data, and is    *)
(* found by its id.                                                        *)
LEMMA StubUnique ==
  ASSUME NEW t \in Tmds
  PROVE  /\ \A i \in DOMAIN t : i >= 1 /\ t[i].data = Stub => i \in Stubs(t)
         /\ \A i \in Stubs(t) : i \in DOMAIN t /\ t[i].data = Stub
         /\ \A i, j \in Stubs(t) : i = j
         /\ \A i, j \in DOMAIN t : t[i].cid = t[j].cid => i = j
<1>1. \A i, j \in DOMAIN t :
        i # j => t[i].cid # t[j].cid /\ ~(i >= 1 /\ j >= 1 /\ t[i].data = Stub /\ t[j].data = Stub)
  BY ImportAssumption DEF ImportAssumption
<1>2. DOMAIN t \subseteq Nat
  BY ImportAssumption DEF ImportAssumption
<1> QED
  BY <1>1, <1>2 DEF Stubs

LEMMA CipherIsSeq ==
  ASSUME NEW d \in Data \cup {Dol}, NEW n \in Nat, NEW k \in Keys \cup {NoKey},
         NEW i \in Nat \cup {Unset}
  PROVE  Cipher(d, n, k, i) \in Seq(Chunks)
<1>1. \A m \in 1 .. n : Chunk(d, m, k, i) \in Chunks
  BY DEF Chunk, Chunks, Unset
<1> QED
  BY <1>1 DEF Cipher

LEMMA NothingTyped == Nothing \in Results
BY ImportAssumption DEF Nothing, Results, ImportAssumption

LEMMA InitInv == ImportInit => IInv
<1> SUFFICES ASSUME ImportInit PROVE IInv
  OBVIOUS
<1>1. ImportTypeOK
  <2>1. last \in Results
    BY NothingTyped DEF ImportInit
  <2>2. <<>> \in Seq(Chunks)
    OBVIOUS
  <2>3. written \in [Cfds -> Seq(Chunks)] /\ sent \in [Cfds -> Seq(Chunks)]
    BY <2>2 DEF ImportInit
  <2>4. disturbed \in BOOLEAN
    BY DEF ImportInit
  <2>5. esTmd \in {NoTmd} \cup {Edited(t) : t \in Tmds}
    BY DEF ImportInit
  <2>6. esIndex \in [Cfds -> Nat \cup {Unset}] /\ granted \subseteq Cfds
    BY DEF ImportInit
  <2>7. /\ titleKey \in Keys \cup {NoKey} /\ esKey \in Keys \cup {NoKey}
        /\ stubIndex \in Nat \cup {Unset} /\ stubCid \in Nat \cup {Unset}
        /\ stubCfd \in Cfds \cup {Unset} /\ original \in Tmds \cup {NoTmd}
    BY DEF ImportInit
  <2> QED
    BY <2>1, <2>3, <2>4, <2>5, <2>6, <2>7 DEF ImportTypeOK
<1>2. Import /\ Opened /\ StubKnown /\ Contents
  BY DEF ImportInit, Import, Opened, StubKnown, Contents, Following, InProgress
<1> QED
  BY <1>1, <1>2 DEF IInv

-----------------------------------------------------------------------------
(* The type invariant. *)
EsTyped ==
  /\ original \in Tmds \cup {NoTmd} /\ esTmd \in {NoTmd} \cup {Edited(t) : t \in Tmds}
  /\ esIndex \in [Cfds -> Nat \cup {Unset}]
  /\ written \in [Cfds -> Seq(Chunks)] /\ sent \in [Cfds -> Seq(Chunks)]
  /\ granted \subseteq Cfds

StubTyped ==
  /\ titleKey \in Keys \cup {NoKey} /\ esKey \in Keys \cup {NoKey}
  /\ stubIndex \in Nat \cup {Unset} /\ stubCid \in Nat \cup {Unset}
  /\ stubCfd \in Cfds \cup {Unset}

LEMMA TypeParts ==
  ImportTypeOK <=> EsTyped /\ StubTyped /\ disturbed \in BOOLEAN /\ last \in Results
BY DEF ImportTypeOK, EsTyped, StubTyped

LEMMA TypePartsNext ==
  EsTyped' /\ StubTyped' /\ disturbed' \in BOOLEAN /\ last' \in Results => ImportTypeOK'
BY DEF ImportTypeOK, EsTyped, StubTyped

(* A content that is open or granted has an index of the TMD. *)
LEMMA GrantedIndex ==
  ASSUME IInv, NEW f \in granted
  PROVE  /\ f \in Cfds /\ InProgress /\ original \in Tmds /\ esTmd = Edited(original)
         /\ esIndex[f] \in Nat /\ esIndex[f] \in DOMAIN original
         /\ original[esIndex[f]].data \in Data
<1>1. f \in Cfds /\ InProgress /\ original \in Tmds /\ esTmd = Edited(original)
  BY DEF IInv, ImportTypeOK, Import
<1>2. esIndex[f] \in DOMAIN original
  BY <1>1 DEF IInv, Opened
<1>3. DOMAIN original \subseteq Nat /\ original[esIndex[f]] \in [cid : Nat, data : Data]
  BY <1>1, <1>2, TmdShape
<1> QED
  BY <1>1, <1>2, <1>3

LEMMA FinishTyped ==
  ASSUME IInv, NEW f \in granted, NEW data, EsFinish(f, data)
  PROVE  /\ last' \in Results /\ esIndex' \in [Cfds -> Nat \cup {Unset}]
         /\ written' \in [Cfds -> Seq(Chunks)] /\ sent' \in [Cfds -> Seq(Chunks)]
         /\ granted' \subseteq Cfds
<1>1. EsTyped /\ f \in Cfds
  BY TypeParts, GrantedIndex DEF IInv
<1>2. /\ esIndex' \in [Cfds -> Nat \cup {Unset}]
      /\ written' \in [Cfds -> Seq(Chunks)] /\ sent' \in [Cfds -> Seq(Chunks)]
      /\ granted' \subseteq Cfds
  BY <1>1 DEF EsFinish, EsTyped
<1>3. last' \in Results
  <2>1. esIndex[f] \in Nat \cup {Unset}
    BY GrantedIndex
  <2>2. esTmd[esIndex[f]].data \in Data \cup {Dol}
    BY GrantedIndex, TmdShape
  <2>3. Deserved(f) \in BOOLEAN /\ Matches(f, data) \in BOOLEAN
    BY DEF Deserved, Matches
  <2>4. last' = [index |-> esIndex[f], got |-> esTmd[esIndex[f]].data,
                 deserved |-> Deserved(f), ok |-> Matches(f, data)]
    BY DEF EsFinish
  <2> HIDE DEF Results
  <2> QED
    BY <2>1, <2>2, <2>3, <2>4, Zenon DEF Results
<1> QED
  BY <1>2, <1>3

LEMMA TypeStep == IInv /\ [ImportNext]_importVars => ImportTypeOK'
<1> SUFFICES ASSUME IInv, [ImportNext]_importVars PROVE ImportTypeOK'
  OBVIOUS
<1>0. EsTyped /\ StubTyped /\ disturbed \in BOOLEAN /\ last \in Results
  BY TypeParts DEF IInv
<1>1. ASSUME NEW k \in Keys, AddTicket(k) PROVE ImportTypeOK'
  <2>1. EsTyped'
    BY <1>0, <1>1 DEF AddTicket, EsTyped
  <2>2. StubTyped'
    BY <1>0, <1>1 DEF AddTicket, StubTyped
  <2>3. disturbed' \in BOOLEAN /\ last' \in Results
    BY <1>1, NothingTyped, Zenon DEF AddTicket
  <2> QED
    BY <2>1, <2>2, <2>3, TypePartsNext
<1>2. CASE AddOtherTitle
  <2>1. EsTyped'
    BY <1>0, <1>2 DEF AddOtherTitle, EsTyped, esVars
  <2>2. StubTyped'
    BY <1>0, <1>2 DEF AddOtherTitle, StubTyped, esVars
  <2>3. disturbed' \in BOOLEAN /\ last' \in Results
    BY <1>2, NothingTyped, Zenon DEF AddOtherTitle
  <2> QED
    BY <2>1, <2>2, <2>3, TypePartsNext
<1>3. ASSUME NEW t \in Tmds, AddTitleStart(t) PROVE ImportTypeOK'
  <2>1. EsTyped'
    <3>1. CASE /\ esTmd' = Edited(t) /\ original' = t
               /\ esIndex' = [f \in Cfds |-> Unset] /\ written' = [f \in Cfds |-> <<>>]
               /\ granted' = {} /\ sent' = [f \in Cfds |-> <<>>]
      <4>1. written' \in [Cfds -> Seq(Chunks)] /\ sent' \in [Cfds -> Seq(Chunks)]
        <5>1. <<>> \in Seq(Chunks)
          OBVIOUS
        <5> QED
          BY <3>1, <5>1
      <4> QED
        BY <3>1, <4>1 DEF EsTyped
    <3>2. CASE UNCHANGED <<esTmd, original, esIndex, written, granted, sent>>
      BY <1>0, <3>2 DEF EsTyped
    <3> QED
      BY <1>3, <3>1, <3>2 DEF AddTitleStart
  <2>2. StubTyped'
    <3>1. \A i \in Stubs(t) : i \in Nat /\ t[i].cid \in Nat
      BY TmdShape, StubUnique
    <3>2. stubIndex' \in Nat \cup {Unset} /\ stubCid' \in Nat \cup {Unset}
      BY <1>3, <3>1 DEF AddTitleStart
    <3>3. stubCfd' = Unset /\ UNCHANGED <<titleKey, esKey>>
      BY <1>3 DEF AddTitleStart
    <3> QED
      BY <1>0, <3>2, <3>3 DEF StubTyped
  <2>3. disturbed' \in BOOLEAN /\ last' \in Results
    BY <1>3, NothingTyped, Zenon DEF AddTitleStart
  <2> QED
    BY <2>1, <2>2, <2>3, TypePartsNext
<1>4. ASSUME NEW i \in Indices, NEW ret \in Cfds \cup {Refused}, AddContentStart(i, ret)
      PROVE ImportTypeOK'
  <2>1. EsTyped'
    <3>1. CASE UNCHANGED <<esIndex, written, sent, granted>>
      BY <1>0, <1>4, <3>1 DEF AddContentStart, EsTyped
    <3>2. CASE /\ ret \in Cfds /\ esIndex' = [esIndex EXCEPT ![ret] = i]
               /\ written' = [written EXCEPT ![ret] = <<>>] /\ sent' = [sent EXCEPT ![ret] = <<>>]
               /\ granted' \subseteq granted \cup {ret}
      <4>1. i \in Nat
        <5>1. \A t \in Tmds : DOMAIN t \subseteq Nat
          BY TmdShape
        <5> QED
          BY <5>1 DEF Indices
      <4>2. <<>> \in Seq(Chunks)
        OBVIOUS
      <4>3. UNCHANGED <<esTmd, original>>
        BY <1>4 DEF AddContentStart
      <4> QED
        BY <1>0, <3>2, <4>1, <4>2, <4>3 DEF EsTyped
    <3> QED
      BY <1>4, <3>1, <3>2 DEF AddContentStart
  <2>2. StubTyped'
    <3>1. UNCHANGED <<titleKey, stubIndex, stubCid, esKey>>
      BY <1>4 DEF AddContentStart
    <3>2. stubCfd' = stubCfd \/ (ret \in Cfds /\ stubCfd' = ret)
      BY <1>4 DEF AddContentStart, NewStubCfd
    <3> QED
      BY <1>0, <3>1, <3>2 DEF StubTyped
  <2>3. disturbed' \in BOOLEAN /\ last' \in Results
    BY <1>0, <1>4, NothingTyped, Zenon DEF AddContentStart
  <2> QED
    BY <2>1, <2>2, <2>3, TypePartsNext
<1>5. ASSUME NEW f \in Cfds, NEW m \in 1 .. ContentChunks, AddContentData(f, m)
      PROVE ImportTypeOK'
  <2> DEFINE c == Chunk(original[esIndex[f]].data, m, esKey, esIndex[f])
  <2>1. c \in Chunks
    <3>1. original[esIndex[f]].data \in Data /\ esIndex[f] \in Nat
      BY <1>5, GrantedIndex DEF AddContentData
    <3>2. m \in Nat \ {0} /\ esKey \in Keys \cup {NoKey}
      BY <1>0, ImportAssumption DEF StubTyped, ImportAssumption
    <3> QED
      BY <3>1, <3>2 DEF Chunk, Chunks
  <2>2. EsTyped'
    <3>1. sent' = [sent EXCEPT ![f] = Append(@, c)]
      BY <1>5 DEF AddContentData
    <3>2. written' = written \/ written' = [written EXCEPT ![f] = Append(@, c)]
      BY <1>5 DEF AddContentData
    <3>3. UNCHANGED <<esTmd, esIndex, original, granted>>
      BY <1>5 DEF AddContentData
    <3> HIDE DEF c
    <3>4. sent' \in [Cfds -> Seq(Chunks)]
      BY <1>0, <2>1, <3>1 DEF EsTyped
    <3>5. written' \in [Cfds -> Seq(Chunks)]
      <4>1. CASE written' = written
        BY <1>0, <4>1 DEF EsTyped
      <4>2. CASE written' = [written EXCEPT ![f] = Append(@, c)]
        BY <1>0, <2>1, <4>2 DEF EsTyped
      <4> QED
        BY <3>2, <4>1, <4>2
    <3> QED
      BY <1>0, <3>3, <3>4, <3>5 DEF EsTyped
  <2>3. StubTyped'
    BY <1>0, <1>5 DEF AddContentData, StubTyped, stubVars
  <2>4. disturbed' \in BOOLEAN /\ last' \in Results
    BY <1>0, <1>5, NothingTyped, Zenon DEF AddContentData
  <2> QED
    BY <2>2, <2>3, <2>4, TypePartsNext
<1>6. ASSUME NEW f \in Cfds, FinishContent(f) PROVE ImportTypeOK'
  <2>1. f \in granted /\ EsFinish(f, written[f])
    BY <1>6 DEF FinishContent
  <2>2. EsTyped'
    <3>1. UNCHANGED <<esTmd, original>>
      BY <1>6 DEF FinishContent
    <3> QED
      BY <1>0, <2>1, <3>1, FinishTyped DEF EsTyped
  <2>3. StubTyped'
    BY <1>0, <1>6 DEF FinishContent, StubTyped, stubVars
  <2>4. disturbed' \in BOOLEAN
    BY <1>0, <1>6, Zenon DEF FinishContent
  <2> QED
    BY <2>1, <2>2, <2>3, <2>4, FinishTyped, TypePartsNext
<1>7. ASSUME NEW f \in Cfds, FinishStub(f) PROVE ImportTypeOK'
  <2>1. f \in granted /\ EsFinish(f, written[f] \o Cipher(Dol, DolChunks, titleKey, stubIndex))
    BY <1>7 DEF FinishStub
  <2>2. EsTyped'
    <3>1. UNCHANGED <<esTmd, original>>
      BY <1>7 DEF FinishStub
    <3> QED
      BY <1>0, <2>1, <3>1, FinishTyped DEF EsTyped
  <2>3. StubTyped'
    BY <1>0, <1>7 DEF FinishStub, StubTyped
  <2>4. disturbed' \in BOOLEAN
    BY <1>0, <1>7, Zenon DEF FinishStub
  <2> QED
    BY <2>1, <2>2, <2>3, <2>4, FinishTyped, TypePartsNext
<1>8. ASSUME NEW f \in Cfds, NEW n \in 0 .. DolChunks - 1, FinishStubFails(f, n)
      PROVE ImportTypeOK'
  <2> DEFINE cipher == Cipher(Dol, n, titleKey, stubIndex)
  <2>1. cipher \in Seq(Chunks)
    <3>1. n \in Nat
      BY ImportAssumption DEF ImportAssumption
    <3>2. titleKey \in Keys \cup {NoKey} /\ stubIndex \in Nat \cup {Unset}
      BY <1>0 DEF StubTyped
    <3>3. Dol \in Data \cup {Dol}
      OBVIOUS
    <3> QED
      BY <3>1, <3>2, <3>3, CipherIsSeq
  <2>2. EsTyped'
    <3>1. written' = [written EXCEPT ![f] = @ \o cipher]
      BY <1>8 DEF FinishStubFails
    <3>2. UNCHANGED <<esTmd, esIndex, original, granted, sent>>
      BY <1>8 DEF FinishStubFails
    <3> HIDE DEF cipher
    <3>3. written' \in [Cfds -> Seq(Chunks)]
      BY <1>0, <2>1, <3>1 DEF EsTyped
    <3> QED
      BY <1>0, <3>2, <3>3 DEF EsTyped
  <2>3. StubTyped'
    BY <1>0, <1>8 DEF FinishStubFails, StubTyped
  <2>4. disturbed' \in BOOLEAN /\ last' \in Results
    BY <1>8, NothingTyped, Zenon DEF FinishStubFails
  <2> QED
    BY <2>2, <2>3, <2>4, TypePartsNext
<1>9. CASE EndImport
  <2>1. EsTyped'
    <3>1. <<>> \in Seq(Chunks)
      OBVIOUS
    <3> QED
      BY <1>9, <3>1 DEF EndImport, EsTyped
  <2>2. StubTyped'
    BY <1>0, <1>9 DEF EndImport, StubTyped, stubVars
  <2>3. disturbed' \in BOOLEAN /\ last' \in Results
    BY <1>9, NothingTyped, Zenon DEF EndImport
  <2> QED
    BY <2>1, <2>2, <2>3, TypePartsNext
<1>10. CASE UNCHANGED importVars
  BY <1>10 DEF IInv, importVars, stubVars, esVars, installerVars, ImportTypeOK
<1> QED
  BY <1>1, <1>2, <1>3, <1>4, <1>5, <1>6, <1>7, <1>8, <1>9, <1>10 DEF ImportNext

-----------------------------------------------------------------------------
(* The other parts of the invariant. *)
Rest == Import /\ Opened /\ StubKnown /\ Contents

(* What a request that fails, or comes out of place, leaves to show. *)
LEMMA RestDisturbed ==
  ASSUME IInv, disturbed' = (disturbed \/ InProgress) \/ disturbed' = TRUE,
         UNCHANGED <<esTmd, original, esIndex, granted>>
  PROVE  Rest'
<1>1. ~Following'
  BY Zenon DEF Following, InProgress
<1>2. Import' /\ Opened'
  BY DEF IInv, Import, Opened, InProgress
<1> QED
  BY <1>1, <1>2, Zenon DEF Rest, StubKnown, Contents

LEMMA RestFinish ==
  ASSUME IInv, NEW f \in granted, NEW data, EsFinish(f, data),
         UNCHANGED <<stubIndex, stubCid, esTmd, original, disturbed>>,
         stubCfd' = IF f = stubCfd THEN Unset ELSE stubCfd
  PROVE  Rest'
<1>1. /\ esIndex' = [esIndex EXCEPT ![f] = Unset]
      /\ written' = [written EXCEPT ![f] = <<>>] /\ sent' = [sent EXCEPT ![f] = <<>>]
      /\ granted' = granted \ {f}
  BY DEF EsFinish
<1>2. /\ esIndex \in [Cfds -> Nat \cup {Unset}]
      /\ written \in [Cfds -> Seq(Chunks)] /\ sent \in [Cfds -> Seq(Chunks)]
      /\ granted \subseteq Cfds /\ Cfds \subseteq Nat
  BY ImportAssumption DEF IInv, ImportTypeOK, ImportAssumption
<1>3. Import'
  BY <1>1 DEF IInv, Import, InProgress
<1>4. Opened'
  BY <1>1, <1>2 DEF IInv, Opened
<1>5. StubKnown'
  BY DEF IInv, StubKnown, Following, InProgress
<1>6. ASSUME Following' PROVE Contents'
  <2>1. Following
    BY <1>6 DEF Following, InProgress
  <2>2. /\ stubCfd # Unset => stubCfd \in granted /\ esIndex[stubCfd] \in Stubs(original)
        /\ \A g \in granted :
             /\ esIndex[g] \in Stubs(original) => g = stubCfd /\ written[g] = <<>>
             /\ esIndex[g] \notin Stubs(original) => written[g] = sent[g]
    BY <2>1 DEF IInv, Contents
  <2>3. stubCfd' # Unset => stubCfd' \in granted' /\ esIndex'[stubCfd'] \in Stubs(original')
    BY <1>1, <1>2, <2>2
  <2>4. ASSUME NEW g \in granted'
        PROVE  /\ esIndex'[g] \in Stubs(original') => g = stubCfd' /\ written'[g] = <<>>
               /\ esIndex'[g] \notin Stubs(original') => written'[g] = sent'[g]
    <3>1. g \in granted /\ g # f /\ g \in Cfds
      BY <1>1, <1>2, <2>4
    <3>2. esIndex'[g] = esIndex[g] /\ written'[g] = written[g] /\ sent'[g] = sent[g]
      BY <1>1, <1>2, <3>1
    <3>3. g = stubCfd => g = stubCfd'
      BY <3>1
    <3> QED
      BY <2>2, <3>1, <3>2, <3>3
  <2> QED
    BY <2>3, <2>4 DEF Contents
<1> QED
  BY <1>3, <1>4, <1>5, <1>6, Zenon DEF Rest, Contents

(* A content that ES opens: the stub is told from the others by its id.    *)
LEMMA RestStart ==
  ASSUME IInv, NEW i, NEW ret \in Cfds, i \in DOMAIN esTmd,
         esIndex[ret] = Unset, \A f \in Cfds : esIndex[f] # i,
         esIndex' = [esIndex EXCEPT ![ret] = i],
         written' = [written EXCEPT ![ret] = <<>>], sent' = [sent EXCEPT ![ret] = <<>>],
         granted' = IF esTmd[i].cid = stubCid /\ stubCid = 0 THEN granted ELSE granted \cup {ret},
         stubCfd' = NewStubCfd(i, ret),
         UNCHANGED <<stubIndex, stubCid, esTmd, original, disturbed>>
  PROVE  Rest'
<1>1. /\ esIndex \in [Cfds -> Nat \cup {Unset}]
      /\ written \in [Cfds -> Seq(Chunks)] /\ sent \in [Cfds -> Seq(Chunks)]
      /\ granted \subseteq Cfds /\ Cfds \subseteq Nat
  BY ImportAssumption DEF IInv, ImportTypeOK, ImportAssumption
<1>2. InProgress /\ original \in Tmds /\ esTmd = Edited(original)
  <2>1. InProgress
    BY DEF IInv, Import, NoTmd
  <2> QED
    BY <2>1 DEF IInv, Import
<1>3. i \in DOMAIN original /\ i \in Nat /\ esTmd[i].cid = original[i].cid /\ original[i].cid \in Nat
  BY <1>2, TmdShape
<1>4. Import'
  BY <1>2 DEF Import, InProgress
<1>5. Opened'
  <2>1. ASSUME NEW f \in Cfds, esIndex'[f] # Unset PROVE esIndex'[f] \in DOMAIN original'
    BY <1>1, <1>3, <2>1 DEF IInv, Opened
  <2>2. ASSUME NEW f \in granted' PROVE esIndex'[f] # Unset
    BY <1>1, <1>3, <2>2 DEF IInv, Opened, Unset
  <2>3. ASSUME NEW f \in Cfds, NEW g \in Cfds, esIndex'[f] # Unset, esIndex'[f] = esIndex'[g]
        PROVE  f = g
    BY <1>1, <1>3, <2>3 DEF IInv, Opened
  <2> QED
    BY <1>1, <2>1, <2>2, <2>3 DEF Opened
<1>6. StubKnown'
  BY DEF IInv, StubKnown, Following, InProgress
<1>7. ASSUME Following' PROVE Contents'
  <2>1. Following
    BY <1>7 DEF Following, InProgress
  <2>2. /\ stubCfd # Unset => stubCfd \in granted /\ esIndex[stubCfd] \in Stubs(original)
        /\ \A g \in granted :
             /\ esIndex[g] \in Stubs(original) => g = stubCfd /\ written[g] = <<>>
             /\ esIndex[g] \notin Stubs(original) => written[g] = sent[g]
    BY <2>1 DEF IInv, Contents
  <2>3. i \in Stubs(original) <=> esTmd[i].cid = stubCid
    BY <1>2, <1>3, <2>1, StubUnique DEF IInv, StubKnown, Unset
  <2>4. ret \notin granted
    BY DEF IInv, Opened
  <2>5. \A g \in granted : esIndex'[g] = esIndex[g] /\ written'[g] = written[g] /\ sent'[g] = sent[g]
    BY <1>1, <2>4
  <2>6. esIndex'[ret] = i /\ written'[ret] = <<>> /\ sent'[ret] = <<>>
    BY <1>1
  <2>7. CASE i \in Stubs(original)
    <3>1. stubCfd = Unset
      <4>1. SUFFICES ASSUME stubCfd # Unset PROVE FALSE
        OBVIOUS
      <4>2. stubCfd \in Cfds /\ esIndex[stubCfd] \in Stubs(original)
        BY <1>1, <2>2, <4>1
      <4>3. esIndex[stubCfd] = i
        BY <1>2, <2>7, <4>2, StubUnique
      <4> QED
        BY <4>2, <4>3
    <3>2. CASE stubCid = 0
      <4>1. granted' = granted /\ stubCfd' = Unset
        BY <2>3, <2>7, <3>1, <3>2 DEF NewStubCfd
      <4> QED
        BY <2>2, <2>5, <3>1, <4>1 DEF Contents
    <3>3. CASE stubCid # 0
      <4>1. granted' = granted \cup {ret} /\ stubCfd' = ret
        BY <2>3, <2>7, <3>3 DEF NewStubCfd
      <4>2. \A g \in granted : esIndex[g] \notin Stubs(original)
        BY <1>1, <2>2, <3>1 DEF Unset
      <4> QED
        BY <2>2, <2>5, <2>6, <2>7, <4>1, <4>2 DEF Contents
    <3> QED
      BY <3>2, <3>3
  <2>8. CASE i \notin Stubs(original)
    <3>1. granted' = granted \cup {ret} /\ stubCfd' = stubCfd
      BY <2>3, <2>8 DEF NewStubCfd
    <3>2. stubCfd # Unset => stubCfd' \in granted' /\ esIndex'[stubCfd'] \in Stubs(original')
      BY <2>2, <2>5, <3>1
    <3> QED
      BY <2>2, <2>5, <2>6, <2>8, <3>1, <3>2 DEF Contents
  <2> QED
    BY <2>7, <2>8
<1> QED
  BY <1>4, <1>5, <1>6, <1>7, Zenon DEF Rest, Contents

LEMMA RestStep == IInv /\ [ImportNext]_importVars => Rest'
<1> SUFFICES ASSUME IInv, [ImportNext]_importVars PROVE Rest'
  OBVIOUS
<1>0. granted \subseteq Cfds /\ Cfds \subseteq Nat
  BY ImportAssumption DEF IInv, ImportTypeOK, ImportAssumption
<1>1. ASSUME NEW k \in Keys, AddTicket(k) PROVE Rest'
  <2>1. disturbed' = (disturbed \/ InProgress) /\ UNCHANGED <<esTmd, original, esIndex, granted>>
    BY <1>1, Zenon DEF AddTicket
  <2> QED
    BY <2>1, RestDisturbed
<1>2. CASE AddOtherTitle
  <2>1. disturbed' = (disturbed \/ InProgress) /\ UNCHANGED <<esTmd, original, esIndex, granted>>
    BY <1>2, Zenon DEF AddOtherTitle, esVars
  <2> QED
    BY <2>1, RestDisturbed
<1>3. ASSUME NEW t \in Tmds, AddTitleStart(t) PROVE Rest'
  <2>1. CASE /\ disturbed' = (disturbed \/ InProgress)
             /\ UNCHANGED <<esTmd, original, esIndex, written, granted, sent>>
    BY <2>1, RestDisturbed
  <2>2. CASE /\ esTmd' = Edited(t) /\ original' = t
             /\ esIndex' = [f \in Cfds |-> Unset] /\ granted' = {}
    <3>1. t # NoTmd
      BY TmdShape
    <3>2. Import'
      BY <2>2, <3>1 DEF Import, InProgress
    <3>3. Opened'
      BY <2>2 DEF Opened
    <3>4. StubKnown'
      BY <1>3, <2>2 DEF AddTitleStart, StubKnown
    <3>5. stubCfd' = Unset
      BY <1>3 DEF AddTitleStart
    <3>6. Contents'
      BY <2>2, <3>5 DEF Contents
    <3> QED
      BY <3>2, <3>3, <3>4, <3>6 DEF Rest
  <2> QED
    BY <1>3, <2>1, <2>2, Zenon DEF AddTitleStart
<1>4. ASSUME NEW i \in Indices, NEW ret \in Cfds \cup {Refused}, AddContentStart(i, ret)
      PROVE Rest'
  <2>1. CASE ret = Refused /\ UNCHANGED <<esIndex, written, sent, granted>>
    <3>1. stubCfd' = stubCfd
      BY <1>0, <1>4, <2>1 DEF AddContentStart, NewStubCfd, Refused
    <3>2. UNCHANGED <<stubIndex, stubCid, esTmd, original, disturbed>>
      BY <1>4 DEF AddContentStart
    <3> QED
      BY <2>1, <3>1, <3>2 DEF IInv, Rest, Import, Opened, StubKnown, Contents, Following, InProgress
  <2>2. CASE ~(ret = Refused /\ UNCHANGED <<esIndex, written, sent, granted>>)
    <3>1. /\ ret \in Cfds /\ esIndex[ret] = Unset /\ \A f \in Cfds : esIndex[f] # i
          /\ esIndex' = [esIndex EXCEPT ![ret] = i]
          /\ written' = [written EXCEPT ![ret] = <<>>] /\ sent' = [sent EXCEPT ![ret] = <<>>]
          /\ granted' = IF esTmd[i].cid = stubCid /\ stubCid = 0 THEN granted ELSE granted \cup {ret}
      BY <1>4, <2>2, Zenon DEF AddContentStart
    <3>2. /\ i \in DOMAIN esTmd /\ stubCfd' = NewStubCfd(i, ret)
          /\ UNCHANGED <<stubIndex, stubCid, esTmd, original, disturbed>>
      BY <1>4, Zenon DEF AddContentStart
    <3> QED
      BY <3>1, <3>2, RestStart
  <2> QED
    BY <2>1, <2>2
<1>5. ASSUME NEW f \in Cfds, NEW m \in 1 .. ContentChunks, AddContentData(f, m) PROVE Rest'
  <2> DEFINE c == Chunk(original[esIndex[f]].data, m, esKey, esIndex[f])
  <2>1. /\ sent' = [sent EXCEPT ![f] = Append(@, c)]
        /\ written' = IF f = stubCfd THEN written ELSE [written EXCEPT ![f] = Append(@, c)]
    BY <1>5 DEF AddContentData
  <2>2. UNCHANGED <<stubIndex, stubCid, stubCfd, esTmd, esIndex, original, granted, disturbed>>
    BY <1>5 DEF AddContentData, stubVars
  <2> HIDE DEF c
  <2>3. Import' /\ Opened' /\ StubKnown'
    BY <2>2 DEF IInv, Import, Opened, StubKnown, Following, InProgress
  <2>4. written \in [Cfds -> Seq(Chunks)] /\ sent \in [Cfds -> Seq(Chunks)]
    BY DEF IInv, ImportTypeOK
  <2>5. ASSUME Following' PROVE Contents'
    <3>1. Following
      BY <2>2, <2>5 DEF Following, InProgress
    <3>2. /\ stubCfd # Unset => stubCfd \in granted /\ esIndex[stubCfd] \in Stubs(original)
          /\ \A g \in granted :
               /\ esIndex[g] \in Stubs(original) => g = stubCfd /\ written[g] = <<>>
               /\ esIndex[g] \notin Stubs(original) => written[g] = sent[g]
      BY <3>1 DEF IInv, Contents
    <3>3. stubCfd \in granted => esIndex[stubCfd] \in Stubs(original)
      BY <1>0, <3>2 DEF Unset
    <3>4. ASSUME NEW g \in granted
          PROVE  /\ esIndex[g] \in Stubs(original) => g = stubCfd /\ written'[g] = <<>>
                 /\ esIndex[g] \notin Stubs(original) => written'[g] = sent'[g]
      <4>1. CASE g # f
        BY <1>0, <2>1, <2>4, <3>2, <4>1
      <4>2. CASE g = f /\ f = stubCfd
        BY <2>1, <3>2, <3>3, <4>2
      <4>3. CASE g = f /\ f # stubCfd
        BY <1>0, <2>1, <2>4, <3>2, <4>3
      <4> QED
        BY <4>1, <4>2, <4>3
    <3> QED
      BY <2>2, <3>2, <3>4 DEF Contents
  <2> QED
    BY <2>3, <2>5, Zenon DEF Rest, Contents
<1>6. ASSUME NEW f \in Cfds, FinishContent(f) PROVE Rest'
  <2>1. f \in granted /\ EsFinish(f, written[f]) /\ f # stubCfd /\ stubCfd' = stubCfd
    BY <1>6 DEF FinishContent, stubVars
  <2>2. UNCHANGED <<stubIndex, stubCid, esTmd, original, disturbed>>
    BY <1>6 DEF FinishContent, stubVars
  <2> QED
    BY <2>1, <2>2, RestFinish
<1>7. ASSUME NEW f \in Cfds, FinishStub(f) PROVE Rest'
  <2>1. /\ f \in granted /\ EsFinish(f, written[f] \o Cipher(Dol, DolChunks, titleKey, stubIndex))
        /\ f = stubCfd /\ stubCfd' = Unset
    BY <1>7 DEF FinishStub
  <2>2. UNCHANGED <<stubIndex, stubCid, esTmd, original, disturbed>>
    BY <1>7 DEF FinishStub
  <2> QED
    BY <2>1, <2>2, RestFinish
<1>8. ASSUME NEW f \in Cfds, NEW n \in 0 .. DolChunks - 1, FinishStubFails(f, n) PROVE Rest'
  <2>1. disturbed' = TRUE /\ UNCHANGED <<esTmd, original, esIndex, granted>>
    BY <1>8 DEF FinishStubFails
  <2> QED
    BY <2>1, RestDisturbed
<1>9. CASE EndImport
  <2>1. ~InProgress' /\ esTmd' = NoTmd /\ granted' = {} /\ esIndex' = [f \in Cfds |-> Unset]
    BY <1>9 DEF EndImport, InProgress
  <2> QED
    BY <2>1, Zenon DEF Rest, Import, Opened, StubKnown, Contents, Following
<1>10. CASE UNCHANGED importVars
  BY <1>10 DEF IInv, importVars, stubVars, esVars, installerVars, Rest, Import, Opened, StubKnown,
               Contents, Following, InProgress
<1> QED
  BY <1>1, <1>2, <1>3, <1>4, <1>5, <1>6, <1>7, <1>8, <1>9, <1>10 DEF ImportNext

LEMMA Invariance == ImportSpec => []IInv
<1>1. IInv /\ [ImportNext]_importVars => IInv'
  BY TypeStep, RestStep DEF IInv, Rest
<1> QED
  BY <1>1, InitInv, PTL DEF ImportSpec

-----------------------------------------------------------------------------
(* The type invariant of the import holds. *)
THEOREM TypeCorrect == ImportSpec => []ImportTypeOK
BY Invariance, PTL DEF IInv

(* While s_ctgpStubCfd is set, ES has that descriptor open for the stub,   *)
(* with nothing in it.                                                     *)
THEOREM StubDescriptor == ImportSpec => []StubCfdIsStub
<1>1. IInv => StubCfdIsStub
  <2> SUFFICES ASSUME IInv, InProgress, ~disturbed, stubCfd # Unset
               PROVE  /\ esIndex[stubCfd] = stubIndex /\ stubIndex \in Stubs(original)
                      /\ written[stubCfd] = <<>>
    BY DEF StubCfdIsStub
  <2>1. stubCfd \in granted /\ esIndex[stubCfd] \in Stubs(original) /\ written[stubCfd] = <<>>
    BY DEF IInv, Contents, Following
  <2>2. stubIndex \in Stubs(original)
    BY <2>1 DEF IInv, StubKnown, Following
  <2>3. original \in Tmds
    BY DEF IInv, Import
  <2> QED
    BY <2>1, <2>2, <2>3, StubUnique
<1> QED
  BY <1>1, Invariance, PTL

(* What the last request finished, by cases of Next. *)
LEMMA LastStep ==
  ASSUME IInv, [ImportNext]_importVars
  PROVE  \/ last' = last
         \/ last' = Nothing
         \/ \E f \in granted : FinishContent(f) \/ FinishStub(f)
<1>1. CASE \E f \in Cfds : FinishContent(f) \/ FinishStub(f)
  BY <1>1 DEF FinishContent, FinishStub
<1>2. CASE UNCHANGED importVars
  BY <1>2 DEF importVars, installerVars
<1>3. CASE \E k \in Keys : AddTicket(k)
  BY <1>3 DEF AddTicket
<1>4. CASE AddOtherTitle
  BY <1>4 DEF AddOtherTitle
<1>5. CASE \E t \in Tmds : AddTitleStart(t)
  BY <1>5 DEF AddTitleStart
<1>6. CASE \E i \in Indices, ret \in Cfds \cup {Refused} : AddContentStart(i, ret)
  BY <1>6 DEF AddContentStart
<1>7. CASE \E f \in Cfds, m \in 1 .. ContentChunks : AddContentData(f, m)
  BY <1>7 DEF AddContentData
<1>8. CASE \E f \in Cfds, n \in 0 .. DolChunks - 1 : FinishStubFails(f, n)
  BY <1>8 DEF FinishStubFails
<1>9. CASE EndImport
  BY <1>9 DEF EndImport
<1> QED
  BY <1>1, <1>2, <1>3, <1>4, <1>5, <1>6, <1>7, <1>8, <1>9 DEF ImportNext

(* ES never takes the loader of the server for the stub, whatever requests *)
(* come in whatever order.                                                 *)
THEOREM OwnStubTaken == ImportSpec => []OwnStub
<1>1. ImportInit => OwnStub
  BY DEF ImportInit, OwnStub, Nothing
<1>2. IInv /\ OwnStub /\ [ImportNext]_importVars => OwnStub'
  <2> SUFFICES ASSUME IInv, OwnStub, [ImportNext]_importVars PROVE OwnStub'
    OBVIOUS
  <2>1. CASE last' = last
    BY <2>1 DEF OwnStub
  <2>2. CASE last' = Nothing
    BY <2>2, Zenon DEF OwnStub, Nothing
  <2>3. ASSUME NEW f \in granted, NEW data, EsFinish(f, data) PROVE OwnStub'
    <3> DEFINE i == esIndex[f]
    <3>1. last'.index = i /\ last'.got = esTmd[i].data
      BY <2>3 DEF EsFinish
    <3>2. original \in Tmds /\ esTmd = Edited(original) /\ i \in DOMAIN original
      BY GrantedIndex
    <3>3. esTmd[i].data = IF i \in Stubs(original) THEN Dol ELSE original[i].data
      BY <3>2, TmdShape
    <3>4. i >= 1 => esTmd[i].data # Stub
      BY <3>2, <3>3, StubUnique, ImportAssumption DEF ImportAssumption
    <3> HIDE DEF i
    <3> QED
      BY <3>1, <3>4 DEF OwnStub
  <2> QED
    BY <2>1, <2>2, <2>3, LastStep DEF FinishContent, FinishStub
<1> QED
  BY <1>1, <1>2, Invariance, PTL DEF ImportSpec

(* Every content that the installer sends as the server has it is taken.   *)
THEOREM CannotTell == ImportSpec => []InstallerCannotTell
<1>1. ImportInit => InstallerCannotTell
  BY DEF ImportInit, InstallerCannotTell, Nothing
<1>2. IInv /\ InstallerCannotTell /\ [ImportNext]_importVars => InstallerCannotTell'
  <2> SUFFICES ASSUME IInv, InstallerCannotTell, [ImportNext]_importVars
               PROVE  InstallerCannotTell'
    OBVIOUS
  <2>1. CASE last' = last
    BY <2>1, Zenon DEF InstallerCannotTell
  <2>2. CASE last' = Nothing
    BY <2>2, Zenon DEF InstallerCannotTell, Nothing
  <2>3. ASSUME NEW f \in granted, NEW data, EsFinish(f, data), Deserved(f) => Matches(f, data)
        PROVE  InstallerCannotTell'
    <3>1. last'.deserved = Deserved(f) /\ last'.ok = Matches(f, data)
      BY <2>3, Zenon DEF EsFinish
    <3> QED
      BY <2>3, <3>1, Zenon DEF InstallerCannotTell
  <2>4. ASSUME NEW f \in granted, Deserved(f)
        PROVE  /\ f # stubCfd => Matches(f, written[f])
               /\ f = stubCfd =>
                     Matches(f, written[f] \o Cipher(Dol, DolChunks, titleKey, stubIndex))
    <3> DEFINE i == esIndex[f]
    <3>1. original \in Tmds /\ InProgress /\ i \in DOMAIN original /\ original[i].data \in Data
      BY GrantedIndex
    <3>2. esTmd[i].data = IF i \in Stubs(original) THEN Dol ELSE original[i].data
      BY GrantedIndex, TmdShape
    <3>3. Following
      BY <2>4, <3>1, Zenon DEF Deserved, Following
    <3>4. /\ i \in Stubs(original) => f = stubCfd /\ written[f] = <<>>
          /\ i \notin Stubs(original) => f # stubCfd /\ written[f] = sent[f]
      <4>1. f # Unset
        BY GrantedIndex, ImportAssumption DEF ImportAssumption, Unset
      <4> QED
        BY <3>3, <4>1 DEF IInv, Contents
    <3>5. CASE i \in Stubs(original)
      <4>1. stubIndex = i
        BY <3>1, <3>3, <3>5, StubUnique DEF IInv, StubKnown
      <4>2. titleKey = esKey
        BY <2>4, <3>5 DEF Deserved
      <4>3. Length(Dol) = DolChunks /\ esTmd[i].data = Dol
        BY <3>2, <3>5 DEF Length
      <4> DEFINE cipher == Cipher(Dol, DolChunks, esKey, i)
      <4>4. cipher \in Seq(Chunks)
        <5>1. Dol \in Data \cup {Dol} /\ DolChunks \in Nat
          BY ImportAssumption DEF ImportAssumption
        <5>2. esKey \in Keys \cup {NoKey}
          BY DEF IInv, ImportTypeOK
        <5>3. i \in Nat \cup {Unset}
          BY GrantedIndex
        <5> QED
          BY <5>1, <5>2, <5>3, CipherIsSeq
      <4>5. <<>> \o cipher = cipher
        <5> HIDE DEF cipher
        <5> QED
          BY <4>4, ConcatEmptySeq
      <4> QED
        BY <3>4, <3>5, <4>1, <4>2, <4>3, <4>5 DEF Matches
    <3>6. CASE i \notin Stubs(original)
      <4>1. esTmd[i].data = original[i].data /\ Length(original[i].data) = ContentChunks
        BY <3>1, <3>2, <3>6, ImportAssumption DEF ImportAssumption, Length
      <4>2. sent[f] = Cipher(original[i].data, ContentChunks, esKey, i)
        BY <2>4 DEF Deserved
      <4> QED
        BY <3>4, <3>6, <4>1, <4>2 DEF Matches
    <3> QED
      BY <3>5, <3>6
  <2>5. ASSUME NEW f \in granted, FinishContent(f) PROVE InstallerCannotTell'
    <3>1. f # stubCfd /\ EsFinish(f, written[f])
      BY <2>5 DEF FinishContent
    <3> QED
      BY <2>3, <2>4, <3>1
  <2>6. ASSUME NEW f \in granted, FinishStub(f) PROVE InstallerCannotTell'
    <3>1. f = stubCfd /\ EsFinish(f, written[f] \o Cipher(Dol, DolChunks, titleKey, stubIndex))
      BY <2>6 DEF FinishStub
    <3> QED
      BY <2>3, <2>4, <3>1
  <2> QED
    BY <2>1, <2>2, <2>5, <2>6, LastStep
<1> QED
  BY <1>1, <1>2, Invariance, PTL DEF ImportSpec
=============================================================================
