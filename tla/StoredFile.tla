----------------------------- MODULE StoredFile -----------------------------
(***************************************************************************)
(* Columns on disk: s2r_save and s2r_load (the format of v3.2),            *)
(* s2r_save_portable and s2r_load_portable (v3.3) and s2r_map_open.        *)
(*                                                                         *)
(* A save truncates its file and the bytes reach the disk one by one; the  *)
(* program can die, a write can fail, and the last writes can fail inside  *)
(* fclose, whose answer the code ignores.  A file at rest can be damaged.  *)
(***************************************************************************)
EXTENDS ByteWords

CONSTANTS
  Files,     \* file names
  Arrays,    \* columns are built from these
  MaxDamage, \* bound: how often a file is damaged
  Careful    \* s2r_load is given only undamaged files with no flags but SIGNED and SORTED

HeaderItems == 3
Trailer == 1       \* the checksum is one item

\* What is stored comes from a block, whose size is a number of whole units, and the
\* length of a file is a size_t.
ASSUME FileAssumption ==
  /\ Arrays \subseteq Seq(Word) /\ MaxDamage \in Nat /\ Careful \in BOOLEAN
  /\ \A c \in Classes : Pow(c) = Place(ElemBytes[c])
  /\ \A a \in Arrays : Askable(Len(a))
  /\ Memory % Align = 0 /\ HeaderItems + Memory + Trailer <= SizeMax
  /\ {"none", "pool"} \cap Files = {}

VARIABLES
  pool,     \* the program's column, Zeroed when there is none
  owner,    \* "none", "pool", or the file the column is mapped from
  disk,     \* disk[f] = the image that was being written, and how much is there
  writing,  \* the file a save has open, or "none"
  saved,    \* observer: the column last begun to be saved to each file
  damage    \* observer: the files damaged since, and the number of times left
vars == <<pool, owner, disk, writing, saved, damage>>

-----------------------------------------------------------------------------
(* Images.  An item is the magic, the four or eight header bytes after it,  *)
(* the count, each byte of the payload, or the checksum.                    *)

\* S2R_FLAGS_FORMAT_MASK: what a portable file says of a column.
WithSummary(flags) == flags \cap {"SIGNED", "SUMMARY"}   \* mutant
WithOwner(flags)   == flags \ FactFlags                  \* mutant
FormatFlags(flags) == flags \cap {"SIGNED"}

\* Little-endian bytes of the elements, and back.
Encoded(p) ==
  LET eb == Bytes(p.size) IN
  [b \in 1 .. Count(p) * eb |-> ByteOf(p.data[((b - 1) \div eb) + 1], (b - 1) % eb)]
Decoded(size, bytes) ==
  LET eb == Bytes(size) IN
  [i \in 1 .. Len(bytes) \div eb |-> WordOf(SubSeq(bytes, (i - 1) * eb + 1, i * eb))]

\* The checksum tells payloads apart.  (CRC-32 does for those that differ in one
\* byte, and no file is damaged in two places here.)  It is one item.
Crc(payload) == <<payload>>

Image(magic, p) ==
  [magic |-> magic, size |-> p.size, count |-> Count(p), payload |-> Encoded(p),
   flags |-> IF magic = "V33" THEN FormatFlags(p.flags) ELSE p.flags,
   fmt |-> IF magic = "V33" THEN 1 ELSE 0, reserved |-> 0, crc |-> Crc(Encoded(p))]
Whole(img) == HeaderItems + Len(img.payload) + Len(img.crc)

Legacy(p)   == [Image("V32", p) EXCEPT !.crc = <<>>]
Portable(p) == Image("V33", p)

NoFile == [there |-> FALSE]
Stored(img, len) == [there |-> TRUE, image |-> img, len |-> len]

-----------------------------------------------------------------------------
(* Readers.                                                                 *)

Refused(heap) == Result(Zeroed(heap), FALSE)
HasPayload(d, n) == n <= Len(d.image.payload) /\ HeaderItems + n <= d.len
GoodSize(size) == size # 0 /\ Abs(size) \in Classes

\* A new pool filled with the first bytes of the payload.
Read(heap, d, flags, ok) ==
  LET size == d.image.size
      r == PoolInit(heap, size, d.image.count, ok)
      bytes == SubSeq(d.image.payload, 1, d.image.count * Bytes(size))
  IN  IF ~r.ret THEN Refused(heap)
      ELSE Result([r.pool EXCEPT !.data = Decoded(size, bytes), !.flags = flags], TRUE)

s2r_load(heap, d, ok) ==
  IF \/ ~d.there \/ d.len < HeaderItems
     \/ d.image.magic # "V32" \/ ~GoodSize(d.image.size)
     \/ ~HasPayload(d, d.image.count * Bytes(d.image.size))
  THEN Refused(heap)
  ELSE Read(heap, d, d.image.flags, ok)

\* The rules of the portable format on the header.
HeaderGood(img) ==
  /\ img.fmt = 1 /\ img.reserved = 0 /\ GoodSize(img.size)
  /\ (img.size < 0) = ("SIGNED" \in img.flags)
SizeT(n) == n % (SizeMax + 1)
CountFits(img) == img.count <= SizeMax \div Bytes(img.size)
PayloadInElements(img) == img.count   \* mutant: the payload measured in elements
PayloadBytes(img) == SizeT(img.count * Bytes(img.size))

\* The checksum found after n bytes of payload is that of these bytes; bytes of the
\* payload do not pass for one.
CrcUnread(img) == TRUE   \* mutant: the checksum is not compared
CrcGood(img) == img.crc = Crc(img.payload)
CrcMatches(d, n) == n = Len(d.image.payload) /\ d.len >= Whole(d.image) /\ CrcGood(d.image)

\* s2r_load_portable reads on, payload and checksum, and then expects the end.
EndUnread(d) ==   \* mutant: "trailing bytes were silently tolerated"
  LET n == PayloadBytes(d.image) IN
  /\ HeaderGood(d.image) /\ CountFits(d.image)
  /\ HeaderItems + n + Trailer <= d.len /\ CrcMatches(d, n)
LoaderAccepts(d) ==
  LET n == PayloadBytes(d.image) IN
  /\ HeaderGood(d.image) /\ CountFits(d.image)
  /\ HeaderItems + n + Trailer <= d.len /\ CrcMatches(d, n)
  /\ ~ d.len > HeaderItems + n + Trailer

s2r_load_portable(heap, d, ok) ==
  IF ~d.there \/ d.len < HeaderItems THEN Refused(heap)
  ELSE IF d.image.magic = "V33"
  THEN IF LoaderAccepts(d) THEN Read(heap, d, FormatFlags(d.image.flags), ok) ELSE Refused(heap)
  ELSE IF /\ d.image.magic = "V32" /\ GoodSize(d.image.size)
          /\ HasPayload(d, d.image.count * Bytes(d.image.size))
       THEN Read(heap, d, FormatFlags(d.image.flags), ok) ELSE Refused(heap)

\* s2r_map_open has the length of the file from the start, and compares it with the
\* length announced, computed in a size_t.  What can be mapped is what fits in memory.
MapAccepts(d, verify) ==
  LET n == PayloadBytes(d.image) IN
  /\ d.there /\ d.len >= HeaderItems + Trailer /\ d.len <= HeaderItems + Memory + Trailer
  /\ d.image.magic = "V33" /\ HeaderGood(d.image) /\ CountFits(d.image)
  /\ SizeT(HeaderItems + n + Trailer) = d.len
  /\ verify => CrcMatches(d, n)

\* The n bytes after the header: a count that was altered, unverified, reaches beyond
\* the payload.
Found(d, n) ==
  [b \in 1 .. n |-> IF b \in DOMAIN d.image.payload THEN d.image.payload[b] ELSE 0]
s2r_map_open(heap, d, verify) ==
  IF MapAccepts(d, verify)
  THEN Result(Mapped(heap, d.image.size,
                     Decoded(d.image.size, Found(d, PayloadBytes(d.image)))), TRUE)
  ELSE Refused(heap)

-----------------------------------------------------------------------------
Nothing == [values |-> <<>>, signed |-> FALSE, size |-> 0, agrees |-> FALSE, magic |-> "none"]

Init ==
  /\ pool = Zeroed(0) /\ owner = "none"
  /\ disk = [f \in Files |-> NoFile] /\ writing = "none"
  /\ saved = [f \in Files |-> Nothing]
  /\ damage = [hit |-> {}, left |-> MaxDamage]

OnlyPool(p) == pool' = p /\ UNCHANGED <<owner, disk, writing, saved, damage>>
Idle == writing = "none"

\* Columns as the rest of the library makes them: built, with facts recorded, or
\* demoted, which leaves a signed pool with an unsigned class.
Build ==
  /\ Idle /\ owner = "none" /\ owner' = "pool"
  /\ \E a \in Arrays :
       \E r \in {FromArrayAuto(pool.heap, a, TRUE),
                FromArraySignedAuto(pool.heap, [i \in DOMAIN a |-> I64(a[i])], TRUE)} :
         r.ret /\ pool' = r.pool
  /\ UNCHANGED <<disk, writing, saved, damage>>
MarkFacts ==
  /\ Idle /\ owner = "pool" /\ "READONLY" \notin pool.flags
  /\ \/ OnlyPool(MarkSorted(pool))
     \/ \E q \in Summarize(pool) : OnlyPool(q)
Demoted ==
  /\ Idle /\ owner = "pool" /\ \E c \in Classes : OnlyPool(Demote(pool, c, TRUE).pool)

Release ==
  /\ Idle /\ owner # "none" /\ owner' = "none"
  /\ pool' = IF owner = "pool" THEN Zeroed(PoolFree(pool).heap) ELSE Zeroed(pool.heap)
  /\ UNCHANGED <<disk, writing, saved, damage>>

-----------------------------------------------------------------------------
(* Saving.                                                                  *)

\* fopen truncates.  A column mapped from the file itself is gone with its bytes,
\* and reading it ends the program.
SaveBegin(f, magic) ==
  LET img == IF magic = "V33" THEN Portable(pool) ELSE Legacy(pool)
      suicide == owner = f /\ Count(pool) > 0
  IN  /\ Idle /\ owner # "none"
      /\ disk' = [disk EXCEPT ![f] = Stored(img, 0)]
      /\ saved' = [saved EXCEPT ![f] =
           [values |-> Values(pool), signed |-> IsSigned(pool), size |-> pool.size, magic |-> magic,
            agrees |-> (pool.size < 0) = ("SIGNED" \in pool.flags)]]
      /\ damage' = [damage EXCEPT !.hit = @ \ {f}]
      /\ writing' = IF suicide THEN "none" ELSE f
      /\ pool' = IF suicide THEN Zeroed(0) ELSE pool
      /\ owner' = IF suicide THEN "none" ELSE owner

\* One more item reaches the disk.
SaveWrites ==
  /\ ~Idle /\ disk[writing].len < Whole(disk[writing].image)
  /\ disk' = [disk EXCEPT ![writing].len = @ + 1]
  /\ UNCHANGED <<pool, owner, writing, saved, damage>>

\* The call returns: all written, or a write failed (an error is reported), or the
\* last ones failed inside fclose (success is reported all the same).
SaveEnds ==
  /\ ~Idle /\ writing' = "none" /\ UNCHANGED <<pool, owner, disk, saved, damage>>

\* The program dies, in a save or between calls, and starts again.
Crash ==
  /\ pool' = Zeroed(0) /\ owner' = "none" /\ writing' = "none"
  /\ UNCHANGED <<disk, saved, damage>>

(* Loading, into a structure that holds nothing.                            *)

Loaded(r, o) ==
  /\ Idle /\ owner = "none"
  /\ pool' = r.pool /\ owner' = IF r.ret THEN o ELSE "none"
  /\ UNCHANGED <<disk, writing, saved, damage>>
Load(f, ok) ==
  /\ Careful /\ disk[f].there =>
       f \notin damage.hit /\ disk[f].image.flags \subseteq {"SIGNED", "SORTED"}
  /\ Loaded(s2r_load(pool.heap, disk[f], ok), "pool")
LoadPortable(f, ok) == Loaded(s2r_load_portable(pool.heap, disk[f], ok), "pool")
MapOpen(f, verify)  == Loaded(s2r_map_open(pool.heap, disk[f], verify), f)

-----------------------------------------------------------------------------
\* One item of a complete file altered, the file cut, or lengthened.  Of the large counts
\* there is the one whose product with the element size comes out right in a size_t.
Altered(img) ==
     {[img EXCEPT !.magic = "unknown"], [img EXCEPT !.fmt = @ + 1], [img EXCEPT !.reserved = @ + 1]}
  \cup {[img EXCEPT !.size = s] : s \in -K .. K}
  \cup {[img EXCEPT !.flags = (@ \ {x}) \cup ({x} \ @)] : x \in {"SIGNED", "EXTERNAL"}}
  \cup {[img EXCEPT !.count = n] : n \in 0 .. img.count + 1}
  \cup {[img EXCEPT !.count = @ + (SizeMax + 1) \div ElemBytes[c]] : c \in Classes}
  \cup {[img EXCEPT !.payload[i] = v] : i \in DOMAIN img.payload, v \in Byte}
  \cup (IF img.crc = <<>> THEN {} ELSE {[img EXCEPT !.crc = Crc(Append(img.payload, 0))]})
Damage(f) ==
  /\ damage.left > 0 /\ disk[f].there /\ writing # f /\ owner # f
  /\ damage' = [hit |-> damage.hit \cup {f}, left |-> damage.left - 1]
  /\ \/ disk[f].len = Whole(disk[f].image) /\
        \E img \in Altered(disk[f].image) : disk' = [disk EXCEPT ![f].image = img]
     \/ \E n \in 0 .. disk[f].len + 1 : disk' = [disk EXCEPT ![f].len = n]
  /\ UNCHANGED <<pool, owner, writing, saved>>

Next ==
  \/ Build \/ MarkFacts \/ Demoted \/ Release
  \/ \E f \in Files, magic \in {"V32", "V33"} : SaveBegin(f, magic)
  \/ SaveWrites \/ SaveEnds \/ Crash
  \/ \E f \in Files, b \in BOOLEAN : Load(f, b) \/ LoadPortable(f, b) \/ MapOpen(f, b)
  \/ \E f \in Files : Damage(f)

Spec == Init /\ [][Next]_vars

-----------------------------------------------------------------------------
Same(p, s) == Values(p) = s.values /\ IsSigned(p) = s.signed
Intact(f)  == disk[f].there /\ f \notin damage.hit /\ disk[f].len = Whole(disk[f].image)

\* At any moment, in a save, after a crash, a failed write or damage to one place, a
\* portable or verified mapped load gives the column last saved to the file or
\* refuses; the other two readers do on a file that is not damaged.  (A demoted
\* signed column, whose class and sign flag disagree, is left out of the first part.)
LoadsWhatWasSaved ==
  \A f \in Files :
    LET reads(r) == r.ret => Same(r.pool, saved[f]) IN
    /\ disk[f].there /\ disk[f].image.magic = "V33" /\ saved[f].agrees =>
         reads(s2r_load_portable(0, disk[f], TRUE)) /\ reads(s2r_map_open(0, disk[f], TRUE))
    /\ f \notin damage.hit =>
         /\ reads(s2r_load(0, disk[f], TRUE)) /\ reads(s2r_load_portable(0, disk[f], TRUE))
         /\ reads(s2r_map_open(0, disk[f], FALSE))

\* A file that is complete is never refused for want of anything but memory: a
\* column whose class and sign flag agree can always be had back, in its class.
SavedCanBeLoaded ==
  \A f \in Files :
    LET back(r) == r.ret /\ r.pool.size = saved[f].size IN
    Intact(f) /\ saved[f].agrees =>
      /\ back(s2r_load_portable(0, disk[f], TRUE))
      /\ saved[f].magic = "V33" => back(s2r_map_open(0, disk[f], TRUE))
      /\ saved[f].magic = "V32" => back(s2r_load(0, disk[f], TRUE))

\* The two readers of the portable format look at a file in different ways, one to its
\* end and one at its length, and accept the same ones, torn and damaged included.
ReadersAgree ==
  \A f \in Files :
    disk[f].there /\ disk[f].image.magic = "V33" =>
      s2r_map_open(0, disk[f], TRUE).ret = s2r_load_portable(0, disk[f], TRUE).ret

\* "must never round-trip through a file": a column that was read from a file owns
\* its block, can be written and is released with it, whatever column was saved;
\* and the facts it claims are true of it.
OwnershipStaysHome ==
  /\ owner \notin Files => pool.flags \cap {"READONLY", "EXTERNAL"} = {}
  /\ pool.heap = IF owner = "pool" /\ pool.buf = "heap" THEN 1 ELSE 0
FactsStayTrue ==
  /\ "SORTED" \in pool.flags => InOrder(pool)
  /\ "SUMMARY" \in pool.flags /\ Count(pool) > 0 => IsMinimum(pool, pool.smin) /\ IsMaximum(pool, pool.smax)
=============================================================================
