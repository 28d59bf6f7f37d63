------------------------------ MODULE BlobRead ------------------------------
(***************************************************************************)
(* The decryption of blob.bin: Blob::ReadSectors and BlobDecrypt of        *)
(* src/ios/CTGP/Blob.cpp, as FatFs calls them for the volume that the file *)
(* contains.                                                               *)
(*                                                                         *)
(* blob.bin is encrypted in regions of BlockSize sectors (BLOCK_SIZE_SEC), *)
(* each one AES-CBC from an initialisation vector that encodes its first   *)
(* sector.  A read may start and end anywhere, so the vector it starts     *)
(* from is computed, read from the file, or kept from the read before.     *)
(*                                                                         *)
(* A sector in memory is a record of the file and sector it was read from  *)
(* and the vector it was decrypted with.  Of a vector only its origin is   *)
(* kept.  A failing seek or read leaves all of this alone and has no step. *)
(***************************************************************************)
EXTENDS Integers

CONSTANTS
  BlockSize,    \* BLOCK_SIZE_SEC: sectors in a region, 64 in the code
  AesChunk,     \* sectors that one call of the AES engine decrypts, 8 in the code
  MaxCount,     \* the longest read that FatFs requests: a cluster of the volume
  Sectors,      \* sectors of a blob.bin
  AddressSpace, \* sectors that a 32-bit byte offset reaches, 2^23 in the code
  Files,        \* the blob.bin of each device
  NoFile

(* FatFs clips a read at a cluster, and the pack's clusters are not larger *)
(* than a region.  The file is not longer than its offsets can address.    *)
ASSUME BlobAssumption ==
  /\ BlockSize \in Nat \ {0}
  /\ AesChunk \in Nat \ {0}
  /\ MaxCount \in 1 .. BlockSize
  /\ AddressSpace \in Nat \ {0}
  /\ Sectors \in 1 .. AddressSpace
  /\ NoFile \notin Files

VARIABLES
  file,          \* m_fil: the open blob.bin
  volume,        \* the FatFs volume in it: "unmounted", "untouched", "accessed"
  nextIv, nextIvSector,   \* static: survive the read and the file
  pc,            \* "idle", "blocks", "decrypt", "done"
  sector, count, \* the arguments of ReadSectors
  data,          \* the caller's buffer
  iv,            \* iv of ReadSectors, which the AES engine updates
  s,             \* sectors decrypted
  left           \* sectorCount of BlobDecrypt

volumeVars == <<file, volume>>
nextVars == <<nextIv, nextIvSector>>
readVars == <<pc, sector, count, data, iv, s, left>>
blobVars == <<volumeVars, nextVars, readVars>>

(* Where the 16 bytes of a vector come from: nowhere, the number of the    *)
(* first sector of a region, the last cipher text of a sector, or bytes    *)
(* that are neither.                                                       *)
Zero == <<"zero">>
Start(x) == <<"start", x>>
LastOf(f, x) == <<"tail", f, x>>
Plain == <<"plain">>
Ivs ==
  {Zero, Plain} \cup {Start(x) : x \in 0 .. Sectors} \cup {LastOf(f, x) : f \in Files, x \in 0 .. Sectors}

Encrypted(f, x) == [file |-> f, sector |-> x, iv |-> Zero]
Decrypted(d, v) == [d EXCEPT !.iv = v]

(* The sector at the 32-bit offset sector * 512. *)
Position(x) == x % AddressSpace

(* CBC over the file: what the vector of sector x is. *)
RightIv(f, x) == IF x % BlockSize = 0 THEN Start(x) ELSE LastOf(f, x - 1)

(* The last 16 bytes of the k-th sector in the buffer, or of the memory    *)
(* around it.                                                              *)
LastBytes(k) ==
  IF k \in DOMAIN data /\ data[k].iv = Zero THEN LastOf(data[k].file, data[k].sector) ELSE Plain

ReadInit ==
  /\ file = NoFile /\ volume = "unmounted"
  /\ nextIv = Zero /\ nextIvSector = -1
  /\ pc = "idle" /\ sector = 0 /\ count = 0 /\ data = <<>>
  /\ iv = Zero /\ s = 0 /\ left = 0

Resting == pc \in {"idle", "done"}

(* Blob::Mount opens the file of a device, then f_mount for the volume in  *)
(* it, which reads nothing until the first access.                         *)
Mount(f) ==
  /\ Resting /\ volume = "unmounted"
  /\ file' = f /\ volume' = "untouched" /\ pc' = "idle"
  /\ UNCHANGED <<nextVars, sector, count, data, iv, s, left>>

(* The host of the file is ejected: f_unmount and Blob::Reset. *)
Eject ==
  /\ Resting /\ file # NoFile
  /\ file' = NoFile /\ volume' = "unmounted" /\ pc' = "idle"
  /\ UNCHANGED <<nextVars, sector, count, data, iv, s, left>>

(* A variant of FirstIv that takes any kept vector for the right one. *)
AnyNextIv(x) ==
  IF x % BlockSize = 0 THEN Start(x)
  ELSE IF nextIvSector = -1 THEN LastOf(file, Position(x) - 1)
  ELSE nextIv

(* The vector a read starts from.  Only a read in the middle of a region   *)
(* that does not continue the last one takes it from the file.             *)
FirstIv(x) ==
  IF x % BlockSize = 0 THEN Start(x)
  ELSE IF x # nextIvSector THEN LastOf(file, Position(x) - 1)
  ELSE nextIv

(* ReadSectors up to its loop.  The first access to a volume reads its     *)
(* sector 0 (FatFs mount_volume).                                          *)
BeginRead(x, n) ==
  /\ Resting /\ volume # "unmounted"
  /\ x + n <= Sectors
  /\ volume = "untouched" => x = 0 /\ n = 1
  /\ volume' = "accessed"
  /\ pc' = "blocks" /\ sector' = x /\ count' = n
  /\ iv' = FirstIv(x)
  /\ data' = [k \in 0 .. n - 1 |-> Encrypted(file, Position(x) + k)]
  /\ s' = 0 /\ left' = 0
  /\ UNCHANGED <<file, nextVars>>

(* Variants of DecryptCount: a clip or a subtraction is missing, or the    *)
(* region is the one of the first sector.                                  *)
DecryptBlock ==
  LET blockEnd == BlockSize - ((sector + s) % BlockSize)
  IN  IF count < blockEnd THEN count - s ELSE blockEnd

DecryptToBlockEnd ==
  LET blockEnd == BlockSize - ((sector + s) % BlockSize)
  IN  blockEnd - s

DecryptFromFirst ==
  LET blockEnd == BlockSize - (sector % BlockSize)
  IN  IF count < blockEnd THEN count - s ELSE blockEnd - s

(* How much of the read is in the region that s has reached. *)
DecryptCount ==
  LET blockEnd == BlockSize - ((sector + s) % BlockSize)
  IN  IF count < blockEnd THEN count - s ELSE blockEnd - s

(* The loop of ReadSectors: the vector for a later read is kept while the  *)
(* cipher text is still there.                                             *)
NextBlock ==
  /\ pc = "blocks" /\ s < count
  /\ nextIvSector' = sector + s + DecryptCount
  /\ nextIv' = LastBytes(s + DecryptCount - 1)
  /\ left' = DecryptCount
  /\ pc' = "decrypt"
  /\ UNCHANGED <<volumeVars, sector, count, data, iv, s>>

(* A call of AES::Decrypt in BlobDecrypt.  It decrypts in place, and       *)
(* leaves the last cipher text in iv.                                      *)
Aes(n) ==
  /\ data' = [k \in DOMAIN data |->
       IF k \in s .. s + n - 1
         THEN Decrypted(data[k], IF k = s THEN iv ELSE LastBytes(k - 1))
         ELSE data[k]]
  /\ iv' = LastBytes(s + n - 1)
  /\ s' = s + n
  /\ left' = left - n

Decrypt ==
  /\ pc = "decrypt" /\ left > 0
  /\ Aes(IF left >= AesChunk THEN AesChunk ELSE left)
  /\ UNCHANGED <<volumeVars, nextVars, pc, sector, count>>

(* Back in ReadSectors; a region that is not the last starts a new chain. *)
NextIv == IF s < count THEN Start(sector + s) ELSE iv

EndBlock ==
  /\ pc = "decrypt" /\ left = 0
  /\ pc' = "blocks"
  /\ iv' = NextIv
  /\ UNCHANGED <<volumeVars, nextVars, sector, count, data, s, left>>

Return ==
  /\ pc = "blocks" /\ s >= count
  /\ pc' = "done"
  /\ UNCHANGED <<volumeVars, nextVars, sector, count, data, iv, s, left>>

ReadSectors == NextBlock \/ Decrypt \/ EndBlock \/ Return

ReadNext ==
  \/ \E f \in Files : Mount(f)
  \/ Eject
  \/ \E x \in 0 .. Sectors - 1, n \in 1 .. MaxCount : BeginRead(x, n)
  \/ ReadSectors

(* ReadSectors runs on until it returns. *)
ReadSpec == ReadInit /\ [][ReadNext]_blobVars /\ WF_blobVars(ReadSectors)

-----------------------------------------------------------------------------
(* The type invariant.  No more is decrypted than was asked for, and a     *)
(* block is not longer than a region.                                      *)
ReadTypeOK ==
  /\ file \in Files \cup {NoFile}
  /\ volume \in {"unmounted", "untouched", "accessed"}
  /\ volume # "unmounted" => file \in Files
  /\ nextIv \in Ivs /\ nextIvSector \in -1 .. Sectors
  /\ pc \in {"idle", "blocks", "decrypt", "done"}
  /\ sector \in 0 .. Sectors /\ count \in 0 .. MaxCount
  /\ data \in [0 .. count - 1 -> [file : Files, sector : 0 .. Sectors, iv : Ivs]]
  /\ iv \in Ivs
  /\ s \in 0 .. MaxCount /\ left \in 0 .. BlockSize

(* BlobDecrypt never touches memory behind the caller's buffer, however    *)
(* the read lies across the regions (the arithmetic of decryptCount,       *)
(* Blob.cpp:131-132).                                                      *)
InBuffer == pc = "decrypt" => s + left <= count

(* When ReadSectors returns, each sector is the one asked for and was      *)
(* decrypted with the vector that CBC over the whole file gives it:        *)
(* whatever was read before, of this file or of one mounted earlier, and   *)
(* wherever the read starts and ends.                                      *)
PlainText ==
  pc = "done" => \A k \in 0 .. count - 1 :
    data[k] = Decrypted(Encrypted(file, sector + k), RightIv(file, sector + k))

(* A read comes to its end: every round of the loop gets on (a count of 0  *)
(* for a block would repeat it for ever, Blob.cpp:130-145).                *)
ReadEnds == pc \in {"blocks", "decrypt"} ~> pc = "done"
=============================================================================
