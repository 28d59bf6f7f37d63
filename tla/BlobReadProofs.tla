--------------------------- MODULE BlobReadProofs ---------------------------
(***************************************************************************)
(* What holds of ReadSectors for every size of region, of AES call, of     *)
(* read and of file.  The inductive invariant says how far a read is and   *)
(* which vector it goes on with; the arithmetic of regions is in lemmas.   *)
(***************************************************************************)
EXTENDS BlobRead, TLAPS

(* What the k-th sector of a read becomes. *)
Clear(k) == Decrypted(Encrypted(file, sector + k), RightIv(file, sector + k))

(* A read is of the open file, within it. *)
Reading ==
  pc # "idle" => /\ file \in Files /\ volume = "accessed"
                 /\ count > 0 /\ sector + count <= Sectors

(* The sectors before s are done, the others as they were read. *)
Progress ==
  /\ pc \in {"blocks", "decrypt"} => \A k \in 0 .. count - 1 :
       data[k] = IF k < s THEN Clear(k) ELSE Encrypted(file, sector + k)
  /\ PlainText

(* Between blocks, s is at the start of the read or of a region, and iv is *)
(* its vector.                                                             *)
AtBlock ==
  pc = "blocks" =>
    /\ s <= count
    /\ s < count => /\ s = 0 \/ (sector + s) % BlockSize = 0
                    /\ iv = RightIv(file, sector + s)

(* A block ends with the read or with a region, and crosses no boundary. *)
InBlock ==
  pc = "decrypt" =>
    /\ s + left <= count
    /\ s + left = count \/ (sector + (s + left)) % BlockSize = 0
    /\ \A j \in s + 1 .. s + left - 1 : (sector + j) % BlockSize # 0
    /\ left > 0 => iv = RightIv(file, sector + s)

(* The kept vector is of the open file, once the volume was read. *)
Kept ==
  volume = "accessed" =>
    \/ pc = "blocks" /\ s = 0
    \/ nextIvSector >= 1 /\ nextIv = LastOf(file, nextIvSector - 1)

IInv == ReadTypeOK /\ Reading /\ Progress /\ AtBlock /\ InBlock /\ Kept

-----------------------------------------------------------------------------
(* Division with remainder, and its converse. *)
LEMMA Division ==
  ASSUME NEW b \in Nat \ {0}, NEW n \in Nat
  PROVE  n \div b \in Nat /\ n % b \in 0 .. b - 1 /\ n = b * (n \div b) + (n % b)
BY SMTT(20)

(* What is q regions and r sectors has the remainder r. *)
LEMMA Remainder ==
  ASSUME NEW b \in Nat \ {0}, NEW q \in Nat, NEW r \in 0 .. b - 1
  PROVE  (b * q + r) % b = r
BY SMTT(20)

(* Within a region the offset just grows. *)
LEMMA WithinRegion ==
  ASSUME NEW b \in Nat \ {0}, NEW n \in Nat, NEW d \in Nat, (n % b) + d < b
  PROVE  (n + d) % b = (n % b) + d
<1> DEFINE q == n \div b
           r == (n % b) + d
<1>1. q \in Nat /\ n = b * q + (n % b) /\ n % b \in 0 .. b - 1
  BY Division
<1>2. r \in 0 .. b - 1
  BY <1>1
<1> HIDE DEF q
<1>3. b * q \in Nat
  BY <1>1
<1> DEFINE p == b * q
<1>4. n + d = p + r
  <2>1. p \in Nat /\ n = p + (n % b)
    BY <1>1, <1>3
  <2> HIDE DEF p
  <2> QED
    BY <2>1, <1>1
<1>5. (p + r) % b = r
  <2> HIDE DEF r
  <2> QED
    BY <1>1, <1>2, Remainder
<1> QED
  BY <1>4, <1>5

(* The end of a region is the start of the next one. *)
LEMMA RegionEnd ==
  ASSUME NEW b \in Nat \ {0}, NEW n \in Nat
  PROVE  (n + (b - (n % b))) % b = 0
<1> DEFINE q == n \div b
<1>1. q \in Nat /\ n = b * q + (n % b) /\ n % b \in 0 .. b - 1
  BY Division
<1> HIDE DEF q
<1>2. n + (b - (n % b)) = b * (q + 1) + 0
  <2>1. b * (q + 1) = b * q + b /\ b * q \in Nat
    BY <1>1
  <2> DEFINE p == b * q
  <2>2. n = p + (n % b) /\ p \in Nat /\ b * (q + 1) = p + b
    BY <1>1, <2>1
  <2> HIDE DEF p
  <2> QED
    BY <2>2, <1>1
<1>3. q + 1 \in Nat /\ 0 \in 0 .. b - 1
  BY <1>1
<1>4. (b * (q + 1) + 0) % b = 0
  BY <1>3, Remainder
<1> QED
  BY <1>2, <1>4

(* decryptCount reaches the end of the read or of the region, and no       *)
(* further.                                                                *)
LEMMA BlockFits ==
  ASSUME IInv, pc = "blocks", s < count
  PROVE  /\ DecryptCount \in 1 .. count - s
         /\ DecryptCount \in 1 .. BlockSize
         /\ s + DecryptCount = count \/ (sector + (s + DecryptCount)) % BlockSize = 0
         /\ \A j \in s + 1 .. s + DecryptCount - 1 : (sector + j) % BlockSize # 0
<1> DEFINE r == (sector + s) % BlockSize
<1>1. /\ sector \in Nat /\ s \in Nat /\ count \in 1 .. BlockSize
      /\ BlockSize \in Nat \ {0}
      /\ s = 0 \/ r = 0
  BY BlobAssumption DEF IInv, ReadTypeOK, AtBlock, Reading
<1>2. r \in 0 .. BlockSize - 1
  BY <1>1, Division
<1>3. DecryptCount = IF count < BlockSize - r THEN count - s ELSE BlockSize - r - s
  BY <1>1, <1>2 DEF DecryptCount
<1> HIDE DEF r
<1>4. /\ DecryptCount \in 1 .. count - s /\ DecryptCount \in 1 .. BlockSize
      /\ s + DecryptCount <= BlockSize
      /\ s = 0 => r + DecryptCount <= BlockSize
      /\ s + DecryptCount = count \/ (s = 0 /\ DecryptCount = BlockSize - r)
  BY <1>1, <1>2, <1>3
<1>5. s + DecryptCount = count \/ (sector + (s + DecryptCount)) % BlockSize = 0
  <2>1. CASE s = 0 /\ DecryptCount = BlockSize - r
    <3>1. (sector + (BlockSize - (sector % BlockSize))) % BlockSize = 0
      BY <1>1, RegionEnd
    <3> QED
      BY <2>1, <3>1, <1>1, <1>2 DEF r
  <2> QED
    BY <1>4, <2>1
<1>6. ASSUME NEW j \in s + 1 .. s + DecryptCount - 1
      PROVE  (sector + j) % BlockSize # 0
  <2> DEFINE d == j - s
  <2>1. d \in Nat \ {0} /\ r + d < BlockSize /\ sector + s \in Nat
        /\ sector + j = (sector + s) + d
    BY <1>1, <1>2, <1>4
  <2>2. ((sector + s) + d) % BlockSize = r + d
    <3> HIDE DEF d
    <3> QED
      BY <1>1, <2>1, WithinRegion DEF r
  <2> QED
    BY <1>2, <2>1, <2>2
<1> QED
  BY <1>4, <1>5, <1>6

(* No offset wraps. *)
LEMMA NoWrap ==
  ASSUME NEW x \in 0 .. Sectors - 1
  PROVE  Position(x) = x
<1>1. AddressSpace \in Nat \ {0} /\ x \in 0 .. AddressSpace - 1
  BY BlobAssumption
<1>2. (AddressSpace * 0 + x) % AddressSpace = x
  BY <1>1, Remainder
<1> QED
  BY <1>1, <1>2 DEF Position

-----------------------------------------------------------------------------
(* At the start nothing is open. *)
LEMMA InitIInv == ReadInit => IInv
BY BlobAssumption
DEF ReadInit, IInv, ReadTypeOK, Reading, Progress, PlainText, AtBlock, InBlock, Kept, Ivs

(* A new file is mounted, or the open one goes, between reads. *)
LEMMA VolumeStep ==
  ASSUME IInv, (\E f \in Files : Mount(f)) \/ Eject
  PROVE  IInv'
<1>1. PICK v \in {"untouched", "unmounted"} :
        /\ volume' = v /\ file' \in Files \cup {NoFile}
        /\ v = "untouched" => file' \in Files
  BY DEF Mount, Eject
<1> pc' = "idle" /\ UNCHANGED <<nextVars, sector, count, data, iv, s, left>>
  BY DEF Mount, Eject
<1> QED
  BY <1>1 DEF IInv, ReadTypeOK, Reading, Progress, PlainText, AtBlock, InBlock, Kept, nextVars

(* A read starts with the vector of its first sector, whether it is        *)
(* computed, read or kept.                                                 *)
LEMMA FirstIvRight ==
  ASSUME IInv, NEW x \in 0 .. Sectors - 1, Resting, volume # "unmounted", volume = "untouched" => x = 0
  PROVE  FirstIv(x) = RightIv(file, x)
<1>1. CASE volume = "untouched"
  <2>1. 0 % BlockSize = 0
    BY BlobAssumption
  <2> QED
    BY <1>1, <2>1, NoWrap DEF FirstIv, RightIv
<1>2. CASE volume = "accessed"
  <2>1. nextIv = LastOf(file, nextIvSector - 1)
    BY <1>2 DEF IInv, Kept, Resting
  <2> QED
    BY <2>1, NoWrap DEF FirstIv, RightIv
<1> QED
  BY <1>1, <1>2 DEF IInv, ReadTypeOK

(* The vector of every sector of the file is one of Ivs. *)
LEMMA RightIvType ==
  ASSUME NEW f \in Files, NEW x \in 0 .. Sectors
  PROVE  RightIv(f, x) \in Ivs
<1>1. Start(x) \in Ivs
  BY DEF Ivs
<1>2. CASE x % BlockSize # 0
  <2>1. 0 % BlockSize = 0
    BY BlobAssumption
  <2>2. x # 0
    BY <1>2, <2>1
  <2>3. x - 1 \in 0 .. Sectors
    BY <2>2, BlobAssumption
  <2> QED
    BY <1>2, <2>3 DEF RightIv, Ivs
<1> QED
  BY <1>1, <1>2 DEF RightIv

(* A read starts from the right vector, with cipher text in the buffer. *)
LEMMA BeginStep ==
  ASSUME IInv, NEW x \in 0 .. Sectors - 1, NEW n \in 1 .. MaxCount, BeginRead(x, n)
  PROVE  IInv'
<1>1. /\ file' = file /\ file \in Files /\ volume' = "accessed"
      /\ pc' = "blocks" /\ sector' = x /\ count' = n /\ s' = 0 /\ left' = 0
      /\ x + n <= Sectors /\ UNCHANGED nextVars
  BY DEF BeginRead, IInv, ReadTypeOK
<1>2. iv' = RightIv(file, x)
  BY FirstIvRight DEF BeginRead
<1>3. data' = [k \in 0 .. n - 1 |-> Encrypted(file, x + k)]
  BY NoWrap DEF BeginRead
<1>4. ReadTypeOK'
  <2>1. iv' \in Ivs
    BY <1>1, <1>2, RightIvType, BlobAssumption
  <2>2. \A k \in 0 .. n - 1 : Encrypted(file, x + k) \in [file : Files, sector : 0 .. Sectors, iv : Ivs]
    BY <1>1, BlobAssumption DEF Encrypted, Ivs
  <2>3. data' \in [0 .. n - 1 -> [file : Files, sector : 0 .. Sectors, iv : Ivs]]
    BY <1>3, <2>2
  <2>4. /\ x \in 0 .. Sectors /\ n \in 0 .. MaxCount /\ 0 \in 0 .. MaxCount
        /\ 0 \in 0 .. BlockSize
    BY BlobAssumption
  <2> QED
    BY <1>1, <2>1, <2>3, <2>4 DEF IInv, ReadTypeOK, nextVars
<1>5. Reading'
  BY <1>1 DEF Reading
<1>6. Progress'
  BY <1>1, <1>3 DEF Progress, PlainText, Clear
<1>7. AtBlock'
  BY <1>1, <1>2 DEF AtBlock, RightIv
<1>8. InBlock' /\ Kept'
  BY <1>1 DEF InBlock, Kept
<1> QED
  BY <1>4, <1>5, <1>6, <1>7, <1>8 DEF IInv

(* What is kept for a later read is still cipher text. *)
LEMMA LastCipherText ==
  ASSUME IInv, pc \in {"blocks", "decrypt"}, NEW k \in s .. count - 1
  PROVE  LastBytes(k) = LastOf(file, sector + k)
<1>1. k \in 0 .. count - 1 /\ k \in DOMAIN data /\ ~(k < s)
  BY BlobAssumption DEF IInv, ReadTypeOK
<1>2. data[k] = Encrypted(file, sector + k)
  BY <1>1 DEF IInv, Progress
<1> QED
  BY <1>1, <1>2 DEF LastBytes, Encrypted

(* A block lies within one region, and what is kept is the vector of the   *)
(* sector behind it.                                                       *)
LEMMA NextBlockStep ==
  ASSUME IInv, NextBlock
  PROVE  IInv'
<1> DEFINE n == DecryptCount
<1>1. /\ pc = "blocks" /\ s < count /\ pc' = "decrypt"
      /\ nextIvSector' = sector + s + n /\ nextIv' = LastBytes(s + n - 1) /\ left' = n
      /\ UNCHANGED <<file, volume, sector, count, data, iv, s>>
  BY DEF NextBlock, volumeVars
<1>2. /\ n \in 1 .. count - s /\ n \in 1 .. BlockSize
      /\ s + n = count \/ (sector + (s + n)) % BlockSize = 0
      /\ \A j \in s + 1 .. s + n - 1 : (sector + j) % BlockSize # 0
  BY <1>1, BlockFits
<1>3. /\ sector \in Nat /\ s \in Nat /\ count \in Nat /\ sector + count <= Sectors
      /\ file \in Files
  BY <1>1 DEF IInv, ReadTypeOK, Reading
<1> HIDE DEF n
<1>4. nextIv' = LastOf(file, sector + (s + n - 1))
  <2>1. s + n - 1 \in s .. count - 1
    BY <1>2, <1>3
  <2> QED
    BY <1>1, <2>1, LastCipherText
<1>5. ReadTypeOK'
  <2>1. nextIv' \in Ivs
    <3>1. sector + (s + n - 1) \in 0 .. Sectors
      BY <1>2, <1>3, BlobAssumption
    <3> QED
      BY <1>3, <1>4, <3>1 DEF Ivs
  <2>2. nextIvSector' \in -1 .. Sectors
    BY <1>1, <1>2, <1>3, BlobAssumption
  <2>3. left' \in 0 .. BlockSize
    BY <1>1, <1>2, BlobAssumption
  <2> QED
    BY <1>1, <2>1, <2>2, <2>3 DEF IInv, ReadTypeOK
<1>6. Reading' /\ Progress' /\ AtBlock'
  BY <1>1 DEF IInv, Reading, Progress, PlainText, AtBlock, Clear
<1>7. InBlock'
  <2>1. s + n <= count
    BY <1>2, <1>3
  <2> QED
    BY <1>1, <1>2, <2>1 DEF IInv, InBlock, AtBlock, RightIv
<1>8. Kept'
  BY <1>1, <1>2, <1>3, <1>4 DEF Kept
<1> QED
  BY <1>5, <1>6, <1>7, <1>8 DEF IInv

(* A call of the AES engine goes on with the chain. *)
LEMMA AesChain ==
  ASSUME IInv, pc = "decrypt", NEW n \in 1 .. left,
         UNCHANGED <<file, sector, count>>, Aes(n)
  PROVE  /\ \A k \in 0 .. count - 1 :
              data'[k] = IF k < s + n THEN Clear(k) ELSE Encrypted(file, sector + k)
         /\ iv' = LastOf(file, sector + (s + n - 1))
         /\ DOMAIN data' = 0 .. count - 1
<1>1. /\ s \in Nat /\ count \in Nat /\ left \in Nat /\ s + left <= count /\ sector \in Nat
      /\ DOMAIN data = 0 .. count - 1
      /\ iv = RightIv(file, sector + s)
      /\ \A j \in s + 1 .. s + left - 1 : (sector + j) % BlockSize # 0
      /\ \A k \in 0 .. count - 1 :
           data[k] = IF k < s THEN Clear(k) ELSE Encrypted(file, sector + k)
  BY BlobAssumption DEF IInv, ReadTypeOK, InBlock, Progress
<1>2. ASSUME NEW k \in s .. s + n - 1
      PROVE  Decrypted(data[k], IF k = s THEN iv ELSE LastBytes(k - 1)) = Clear(k)
  <2>1. data[k] = Encrypted(file, sector + k)
    BY <1>1
  <2>2. CASE k = s
    BY <1>1, <2>1, <2>2 DEF Clear
  <2>3. CASE k # s
    <3>1. k \in s + 1 .. s + left - 1 /\ k - 1 \in s .. count - 1
          /\ sector + (k - 1) = (sector + k) - 1
      BY <1>1, <2>3
    <3>2. LastBytes(k - 1) = LastOf(file, (sector + k) - 1)
      BY <3>1, LastCipherText
    <3>3. RightIv(file, sector + k) = LastOf(file, (sector + k) - 1)
      BY <1>1, <3>1 DEF RightIv
    <3> QED
      BY <2>1, <2>3, <3>2, <3>3 DEF Clear
  <2> QED
    BY <2>2, <2>3
<1>3. ASSUME NEW k \in 0 .. count - 1
      PROVE  data'[k] = IF k < s + n THEN Clear(k) ELSE Encrypted(file, sector + k)
  <2>1. CASE k \in s .. s + n - 1
    <3>1. data'[k] = Decrypted(data[k], IF k = s THEN iv ELSE LastBytes(k - 1))
      BY <1>1, <2>1 DEF Aes
    <3> QED
      BY <1>1, <1>2, <2>1, <3>1
  <2>2. CASE k \notin s .. s + n - 1
    <3>1. data'[k] = data[k]
      BY <1>1, <2>2 DEF Aes
    <3> QED
      BY <1>1, <2>2, <3>1
  <2> QED
    BY <2>1, <2>2
<1>4. iv' = LastOf(file, sector + (s + n - 1))
  <2>1. s + n - 1 \in s .. count - 1
    BY <1>1
  <2> QED
    BY <2>1, LastCipherText DEF Aes
<1>5. DOMAIN data' = 0 .. count - 1
  BY <1>1 DEF Aes
<1> QED
  BY <1>3, <1>4, <1>5

(* A call of the AES engine takes a part of the block. *)
LEMMA LaterPart ==
  ASSUME NEW a \in Nat, NEW b \in Nat, NEW c \in Nat, NEW d \in Nat,
         c >= a, c + d = a + b, NEW j \in c + 1 .. c + d - 1
  PROVE  j \in a + 1 .. a + b - 1
OBVIOUS

(* The sectors of the call become plain text, those behind it stay.        *)
LEMMA DecryptStep ==
  ASSUME IInv, Decrypt
  PROVE  IInv'
<1>1. /\ pc = "decrypt" /\ pc' = "decrypt"
      /\ UNCHANGED <<file, volume, nextIv, nextIvSector, sector, count>>
  BY DEF Decrypt, volumeVars, nextVars
<1>2. PICK n \in 1 .. left : Aes(n)
  <2>1. (IF left >= AesChunk THEN AesChunk ELSE left) \in 1 .. left
    BY BlobAssumption DEF Decrypt, IInv, ReadTypeOK
  <2> QED
    BY <2>1 DEF Decrypt
<1>3. /\ \A k \in 0 .. count - 1 :
           data'[k] = IF k < s + n THEN Clear(k) ELSE Encrypted(file, sector + k)
      /\ iv' = LastOf(file, sector + (s + n - 1))
      /\ DOMAIN data' = 0 .. count - 1
  BY <1>1, <1>2, AesChain
<1>4. s' = s + n /\ left' = left - n
  BY <1>2 DEF Aes
<1>5. /\ s \in Nat /\ left \in Nat /\ sector \in Nat /\ count \in 0 .. MaxCount
      /\ s + left <= count /\ sector + count <= Sectors /\ file \in Files
      /\ left <= BlockSize /\ MaxCount \in Nat /\ Sectors \in Nat /\ BlockSize \in Nat
      /\ s + left = count \/ (sector + (s + left)) % BlockSize = 0
      /\ \A j \in s + 1 .. s + left - 1 : (sector + j) % BlockSize # 0
  BY <1>1, BlobAssumption DEF IInv, ReadTypeOK, InBlock, Reading
<1>6. ReadTypeOK'
  <2>1. \A k \in 0 .. count - 1 : data'[k] \in [file : Files, sector : 0 .. Sectors, iv : Ivs]
    <3> SUFFICES ASSUME NEW k \in 0 .. count - 1
                 PROVE  data'[k] \in [file : Files, sector : 0 .. Sectors, iv : Ivs]
      OBVIOUS
    <3>1. sector + k \in 0 .. Sectors
      BY <1>5
    <3>2. RightIv(file, sector + k) \in Ivs /\ Zero \in Ivs
      BY <1>5, <3>1, RightIvType DEF Ivs
    <3>3. Encrypted(file, sector + k) \in [file : Files, sector : 0 .. Sectors, iv : Ivs]
      BY <1>5, <3>1, <3>2 DEF Encrypted
    <3>4. Clear(k) \in [file : Files, sector : 0 .. Sectors, iv : Ivs]
      BY <1>5, <3>2, <3>3 DEF Clear, Decrypted
    <3> QED
      BY <1>3, <3>3, <3>4
  <2>2. data' = [k \in DOMAIN data' |-> data'[k]]
    BY <1>2 DEF Aes
  <2>3. data' \in [0 .. count - 1 -> [file : Files, sector : 0 .. Sectors, iv : Ivs]]
    BY <1>3, <2>1, <2>2
  <2>4. iv' \in Ivs
    <3>1. sector + (s + n - 1) \in 0 .. Sectors
      BY <1>5
    <3> QED
      BY <1>3, <1>5, <3>1 DEF Ivs
  <2>5. s' \in 0 .. MaxCount /\ left' \in 0 .. BlockSize
    BY <1>4, <1>5
  <2> QED
    BY <1>1, <2>3, <2>4, <2>5 DEF IInv, ReadTypeOK
<1>7. Reading'
  BY <1>1 DEF IInv, Reading
<1>8. Progress'
  BY <1>1, <1>3, <1>4 DEF Progress, PlainText, Clear, RightIv
<1>9. InBlock'
  <2>1. s' + left' = s + left
    BY <1>4, <1>5
  <2>2. \A j \in s' + 1 .. s' + left' - 1 : (sector + j) % BlockSize # 0
    <3> SUFFICES ASSUME NEW j \in s' + 1 .. s' + left' - 1
                 PROVE  (sector + j) % BlockSize # 0
      OBVIOUS
    <3>1. s' \in Nat /\ s' >= s /\ left' \in Nat /\ s \in Nat /\ left \in Nat
      BY <1>4, <1>5
    <3>2. j \in s + 1 .. s + left - 1
      BY <2>1, <3>1, LaterPart
    <3> QED
      BY <1>5, <3>2
  <2>3. ASSUME left' > 0
        PROVE  iv' = RightIv(file, sector + s')
    <3>1. s' \in s + 1 .. s + left - 1 /\ sector + (s + n - 1) = (sector + s') - 1
      BY <1>4, <1>5, <2>3
    <3>2. (sector + s') % BlockSize # 0
      BY <1>5, <3>1
    <3> QED
      BY <1>3, <3>1, <3>2 DEF RightIv
  <2> QED
    BY <1>1, <1>5, <2>1, <2>2, <2>3 DEF InBlock, RightIv
<1>10. AtBlock' /\ Kept'
  BY <1>1 DEF IInv, AtBlock, Kept
<1> QED
  BY <1>6, <1>7, <1>8, <1>9, <1>10 DEF IInv

(* A region that follows starts with the vector of its own. *)
LEMMA EndBlockStep ==
  ASSUME IInv, EndBlock
  PROVE  IInv'
<1>1. /\ pc = "decrypt" /\ left = 0 /\ pc' = "blocks" /\ iv' = NextIv
      /\ UNCHANGED <<file, volume, nextIv, nextIvSector, sector, count, data, s, left>>
  BY DEF EndBlock, volumeVars, nextVars
<1>2. /\ s \in Nat /\ count \in Nat /\ sector \in Nat /\ sector + count <= Sectors
      /\ s <= count
      /\ s = count \/ (sector + s) % BlockSize = 0
  BY <1>1, BlobAssumption DEF IInv, ReadTypeOK, InBlock, Reading
<1>3. s < count => iv' = RightIv(file, sector + s)
  BY <1>1, <1>2 DEF NextIv, RightIv
<1>4. ReadTypeOK'
  <2>1. s < count => sector + s \in 0 .. Sectors
    BY <1>2, BlobAssumption
  <2>2. iv' \in Ivs
    BY <1>1, <2>1 DEF IInv, ReadTypeOK, NextIv, Ivs
  <2> QED
    BY <1>1, <2>2 DEF IInv, ReadTypeOK
<1>5. AtBlock'
  BY <1>1, <1>2, <1>3 DEF AtBlock, RightIv
<1>6. Reading' /\ Progress' /\ InBlock' /\ Kept'
  BY <1>1 DEF IInv, Reading, Progress, PlainText, InBlock, Kept, Clear, RightIv
<1> QED
  BY <1>4, <1>5, <1>6 DEF IInv

(* A read returns when all its sectors are plain text. *)
LEMMA ReturnStep ==
  ASSUME IInv, Return
  PROVE  IInv'
<1>1. /\ pc = "blocks" /\ s >= count /\ pc' = "done"
      /\ UNCHANGED <<file, volume, nextIv, nextIvSector, sector, count, data, iv, s, left>>
  BY DEF Return, volumeVars, nextVars
<1>2. s = count /\ s # 0 /\ count \in Nat
  BY <1>1, BlobAssumption DEF IInv, ReadTypeOK, AtBlock, Reading
<1>3. PlainText'
  BY <1>1, <1>2 DEF IInv, Progress, PlainText, Clear, RightIv
<1>4. ReadTypeOK'
  BY <1>1 DEF IInv, ReadTypeOK
<1>5. Kept'
  BY <1>1, <1>2 DEF IInv, Kept
<1> QED
  BY <1>1, <1>3, <1>4, <1>5 DEF IInv, Reading, Progress, AtBlock, InBlock

(* The invariant is inductive. *)
LEMMA Invariance == ReadSpec => []IInv
<1>1. IInv /\ [ReadNext]_blobVars => IInv'
  <2> SUFFICES ASSUME IInv, [ReadNext]_blobVars
               PROVE  IInv'
    OBVIOUS
  <2>1. CASE \E x \in 0 .. Sectors - 1, n \in 1 .. MaxCount : BeginRead(x, n)
    BY <2>1, BeginStep
  <2>2. CASE ReadSectors
    BY <2>2, NextBlockStep, DecryptStep, EndBlockStep, ReturnStep DEF ReadSectors
  <2>3. CASE UNCHANGED blobVars
    <3> UNCHANGED <<file, volume, nextIv, nextIvSector, pc, sector, count, data, iv, s, left>>
      BY <2>3 DEF blobVars, volumeVars, nextVars, readVars
    <3> QED
      BY DEF IInv, ReadTypeOK, Reading, Progress, PlainText, AtBlock, InBlock, Kept, Clear, RightIv
  <2> QED
    BY <2>1, <2>2, <2>3, VolumeStep DEF ReadNext
<1> QED
  BY <1>1, InitIInv, PTL DEF ReadSpec

-----------------------------------------------------------------------------
(* The variables keep their types, so no vector and no sector count is     *)
(* made of anything else (the statics and locals of Blob::ReadSectors).    *)
THEOREM TypeCorrect == ReadSpec => []ReadTypeOK
<1>1. IInv => ReadTypeOK
  BY DEF IInv
<1> QED
  BY <1>1, Invariance, PTL

(* BlobDecrypt stays in the buffer of the caller, for every region size    *)
(* and every read that is not longer than a region (Blob.cpp:130-140).     *)
THEOREM StaysInBuffer == ReadSpec => []InBuffer
<1>1. IInv => InBuffer
  BY DEF IInv, InBlock, InBuffer
<1> QED
  BY <1>1, Invariance, PTL

(* ReadSectors returns the sectors that were asked for, each decrypted     *)
(* with the vector that CBC gives it, in any sequence of reads and mounts  *)
(* (Blob.cpp:99-148).                                                      *)
THEOREM ReadsPlainText == ReadSpec => []PlainText
<1>1. IInv => PlainText
  BY DEF IInv, Progress
<1> QED
  BY <1>1, Invariance, PTL

-----------------------------------------------------------------------------
(* How much of a read is left: the sectors, and where the loop stands.     *)
LeftToDo ==
  3 * (count - s)
    + (IF pc = "blocks" THEN 2
       ELSE IF pc # "decrypt" THEN 0
       ELSE IF left = 0 THEN 3 ELSE 1)

GetsOn == ReadSectors => LeftToDo \in Nat /\ LeftToDo' \in Nat /\ LeftToDo' < LeftToDo

(* Every block has a sector, every call of the engine decrypts one, and s  *)
(* does not pass count.                                                    *)
LEMMA RoundGetsOn ==
  ASSUME IInv, ReadSectors
  PROVE  LeftToDo \in Nat /\ LeftToDo' \in Nat /\ LeftToDo' < LeftToDo
<1>1. s \in Nat /\ count \in Nat /\ left \in Nat
  BY BlobAssumption DEF IInv, ReadTypeOK
<1>2. CASE NextBlock
  <2>1. /\ pc = "blocks" /\ pc' = "decrypt" /\ s < count /\ s' = s /\ count' = count
        /\ left' = DecryptCount
    BY <1>2 DEF NextBlock
  <2>2. DecryptCount \in 1 .. BlockSize
    BY <2>1, BlockFits
  <2>3. left' # 0
    BY <2>1, <2>2
  <2>4. LeftToDo = 3 * (count - s) + 2 /\ LeftToDo' = 3 * (count - s) + 1
    BY <2>1, <2>3 DEF LeftToDo
  <2> QED
    BY <1>1, <2>1, <2>4
<1>3. CASE Decrypt
  <2>1. pc = "decrypt" /\ pc' = "decrypt" /\ count' = count /\ left > 0
    BY <1>3 DEF Decrypt
  <2>2. PICK n \in 1 .. left : Aes(n)
    <3>1. (IF left >= AesChunk THEN AesChunk ELSE left) \in 1 .. left
      BY <1>1, <2>1, BlobAssumption
    <3> QED
      BY <1>3, <3>1 DEF Decrypt
  <2>3. s' = s + n /\ left' = left - n
    BY <2>2 DEF Aes
  <2>4. s + left <= count
    BY <2>1 DEF IInv, InBlock
  <2>5. /\ LeftToDo = 3 * (count - s) + 1
        /\ LeftToDo' = 3 * (count - (s + n)) + (IF left' = 0 THEN 3 ELSE 1)
    BY <1>1, <2>1, <2>3 DEF LeftToDo
  <2>6. LeftToDo' \in {3 * (count - (s + n)) + 3, 3 * (count - (s + n)) + 1}
    BY <2>5
  <2> QED
    BY <1>1, <2>4, <2>5, <2>6
<1>4. CASE EndBlock
  <2>1. pc = "decrypt" /\ pc' = "blocks" /\ left = 0 /\ s' = s /\ count' = count /\ left' = left
    BY <1>4 DEF EndBlock
  <2>2. s <= count
    BY <1>1, <2>1 DEF IInv, InBlock
  <2>3. LeftToDo = 3 * (count - s) + 3 /\ LeftToDo' = 3 * (count - s) + 2
    BY <2>1 DEF LeftToDo
  <2> QED
    BY <1>1, <2>2, <2>3
<1>5. CASE Return
  <2>1. pc = "blocks" /\ pc' = "done" /\ s' = s /\ count' = count
    BY <1>5 DEF Return
  <2>2. s <= count
    BY <2>1 DEF IInv, AtBlock
  <2>3. LeftToDo = 3 * (count - s) + 2 /\ LeftToDo' = 3 * (count - s)
    BY <1>1, <2>1 DEF LeftToDo
  <2> QED
    BY <1>1, <2>2, <2>3
<1> QED
  BY <1>2, <1>3, <1>4, <1>5 DEF ReadSectors

(* Every round of the loop of ReadSectors and of BlobDecrypt gets on, so a *)
(* read of n sectors takes no more than 3 * n + 2 of their steps: no       *)
(* decryptCount is 0 (Blob.cpp:131-146).  It is the safety core of         *)
(* ReadEnds.                                                               *)
THEOREM RoundsGetOn == ReadSpec => [][GetsOn]_blobVars
<1>1. IInv /\ [ReadNext]_blobVars => [GetsOn]_blobVars
  BY RoundGetsOn DEF GetsOn
<1> QED
  BY <1>1, Invariance, PTL DEF ReadSpec
=============================================================================
