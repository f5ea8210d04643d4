----------------------------- MODULE BlockFile -----------------------------
(***************************************************************************)
(* A block-wise column on disk: the image s2r_blocked_save writes, in the  *)
(* formats 2 and 3, and what s2r_blocked_load makes of an image.           *)
(*                                                                         *)
(* The checksum covers the body alone.  The header is checked against      *)
(* itself and against the length of the file, and so the loader has to     *)
(* refuse whatever header does not describe the body that follows it.      *)
(***************************************************************************)
EXTENDS Blocked, ByteWords

ASSUME ByteAssumption == K < Pow(1) /\ \A c \in Classes : Pow(c) = Place(ElemBytes[c])

\* The number of `eb` bytes that starts after the first `at` bytes of s.
NumberAt(s, at, eb) == WordOf(SubSeq(s, at + 1, at + eb))

-----------------------------------------------------------------------------
(* Writing: s2r__blk_stage and s2r_blocked_save.                            *)

\* A signed column has negative classes for its bases and sums.
ClassByte(b, c) == IF b.signed THEN -c ELSE c
Header(b) ==
  [magic |-> "SR33", class |-> 0, signed |-> b.signed, fmt |-> IF b.has_stride THEN 3 ELSE 2,
   rsvd |-> 0, count |-> b.count, block |-> b.block, nblocks |-> Len(b.blocks),
   bcls |-> ClassByte(b, b.bcls), pcls |-> b.pcls, ocls |-> b.ocls,
   scls |-> ClassByte(b, b.scls), bytes |-> b.bytes]

\* One bookkeeping array: a field of every block, `eb` bytes each.
FieldBytes(b, field, eb) ==
  [k \in 1 .. Len(b.blocks) * eb |-> ByteOf(b.blocks[((k - 1) \div eb) + 1][field], (k - 1) % eb)]

\* The payload, byte for byte.  The gaps the alignment leaves between the blocks were
\* never written: `pad` is what the allocator left there.
PayloadByte(b, a, pad) ==
  LET w(bi)  == Bytes(b.blocks[bi].width)
      has(bi) == b.blocks[bi].width # 0 /\ BO(b, bi) <= a /\ a < BO(b, bi) + BlkLen(b, bi) * w(bi)
      in == {bi \in DOMAIN b.blocks : has(bi)}
  IN  IF in = {} THEN pad
      ELSE LET bi  == CHOOSE x \in in : TRUE
               off == (a - BO(b, bi)) % w(bi)
           IN  ByteOf(b.data[a - off], off)

Body(b, pad) ==
  [i \in DOMAIN b.blocks |-> b.blocks[i].width]
  \o [i \in DOMAIN b.blocks |-> IF b.blocks[i].sorted THEN 1 ELSE 0]
  \o FieldBytes(b, "base", Bytes(b.bcls)) \o FieldBytes(b, "span", Bytes(b.pcls))
  \o FieldBytes(b, "off", Bytes(b.ocls)) \o FieldBytes(b, "sum", Bytes(b.scls))
  \o (IF b.has_stride THEN FieldBytes(b, "stride", Bytes(b.tcls)) ELSE <<>>)
  \o [a \in 1 .. b.bytes |-> PayloadByte(b, a - 1, pad)]

\* The checksum of a body is one item, and tells bodies apart that differ in one byte.
Crc(body) == IF body = <<>> THEN <<>> ELSE <<body>>

\* rest is what follows the header: in format 3 a class byte comes before the body.
Image(b, pad) ==
  LET body == Body(b, pad) IN
  [head |-> Header(b), rest |-> (IF b.has_stride THEN <<b.tcls>> ELSE <<>>) \o body,
   crc |-> Crc(body)]
HeaderItems == 7
Whole(img) == HeaderItems + Len(img.rest) + 1

NoFile == [there |-> FALSE]
Stored(img, len) == [there |-> TRUE, image |-> img, len |-> len]

-----------------------------------------------------------------------------
(* Reading: s2r_blocked_load.                                               *)

IsClass(c) == Abs(c) \in Classes
HasTcls(h) == h.fmt = 3
\* The class byte of the strides; on an empty body it is read from the checksum, 0.
TclsOf(img) == IF ~HasTcls(img.head) THEN 1 ELSE IF img.rest = <<>> THEN 0 ELSE img.rest[1]

FormatGood(h) == h.magic = "SR33" /\ h.class = 0 /\ h.rsvd = 0 /\ h.fmt \in {2, 3}

\* "never trust it": the number of blocks is worked out again, in 64 bits.
CountGood(h) == h.block # 0 /\ h.nblocks = Wrap(h.count + h.block - 1) \div h.block

ClassesGood(h) ==
  /\ \A c \in {h.bcls, h.pcls, h.ocls, h.scls} : IsClass(c)
  /\ h.pcls > 0 /\ h.ocls > 0
  /\ \A c \in {h.bcls, h.scls} : (c < 0) = h.signed

\* The bytes of bookkeeping one block has, and the length of the body: size_t.
PerBlock(h, tcls) ==
  2 + Bytes(h.bcls) + Bytes(h.pcls) + Bytes(h.ocls) + Bytes(h.scls)
    + IF HasTcls(h) THEN Bytes(tcls) ELSE 0
BodyLen(h, tcls) == h.nblocks * PerBlock(h, tcls) + h.bytes
BodyLenGood(h, tcls) == BodyLen(h, tcls) < Pow(K)
\* The body and the checksum are in the file, and nothing comes after them.
BodyExact(d, h, tcls) ==
  LET skip == IF HasTcls(h) THEN 1 ELSE 0 IN
  skip + BodyLen(h, tcls) = Len(d.image.rest) /\ d.len = Whole(d.image)

\* What the header alone says.
NoBody(h, tcls) ==
  [NoBlocks EXCEPT !.count = h.count, !.block = h.block, !.signed = h.signed,
     !.bcls = Abs(h.bcls), !.pcls = h.pcls, !.ocls = h.ocls, !.scls = Abs(h.scls),
     !.tcls = tcls, !.has_stride = HasTcls(h), !.bytes = h.bytes]

\* The structure a body is taken apart into, with the header's idea of its shape.  (A
\* signed base or sum is sign-extended and cut again to its class: the same word.)
Parsed(h, tcls, body) ==
  LET nb == h.nblocks
      a1 == 2 * nb
      a2 == a1 + nb * Bytes(h.bcls)
      a3 == a2 + nb * Bytes(h.pcls)
      a4 == a3 + nb * Bytes(h.ocls)
      a5 == a4 + nb * Bytes(h.scls)
      num(at, c, i) == NumberAt(body, at + (i - 1) * Bytes(c), Bytes(c))
  IN  [NoBody(h, tcls) EXCEPT
         !.blocks = [i \in 1 .. nb |->
           [width |-> body[i], sorted |-> body[nb + i] % 2 = 1, base |-> num(a1, h.bcls, i),
            span |-> num(a2, h.pcls, i), off |-> num(a3, h.ocls, i), sum |-> num(a4, h.scls, i),
            stride |-> IF HasTcls(h) THEN num(a5, tcls, i) ELSE 1]],
         !.data = SubSeq(body, Len(body) - h.bytes + 1, Len(body))]

\* "a stride of 0 ... is never something this library writes", and the deltas of a
\* block lie inside the payload.
StridesOnly(b) ==   \* mutant: the range of the payload is not looked at
  \A bi \in DOMAIN b.blocks : b.blocks[bi].width \in 0 .. K /\ b.blocks[bi].stride # 0
BlocksGood(b) ==
  \A bi \in DOMAIN b.blocks :
    LET w == b.blocks[bi].width IN
    /\ w \in 0 .. K /\ b.blocks[bi].stride # 0
    /\ w # 0 => BO(b, bi) <= b.bytes /\ BlkLen(b, bi) <= (b.bytes - BO(b, bi)) \div Bytes(w)

\* The payload as the rest of this development reads it: by whole elements.
Elements(b) ==
  LET starts(a) == {bi \in DOMAIN b.blocks :
                      LET w == Bytes(b.blocks[bi].width) IN
                      /\ b.blocks[bi].width # 0 /\ BO(b, bi) <= a
                      /\ a < BO(b, bi) + BlkLen(b, bi) * w /\ (a - BO(b, bi)) % w = 0}
  IN  [b EXCEPT !.data = [a \in 0 .. b.bytes - 1 |->
         IF starts(a) = {} THEN 0
         ELSE NumberAt(b.data, a, Bytes(b.blocks[CHOOSE bi \in starts(a) : TRUE].width))]]

\* (One of the refusals leaves the format's stride class in the structure; no one reads it.)
RefusedFile == [blk |-> NoBlocks, ret |-> FALSE]
CrcIgnored(img, body) == TRUE   \* mutant: the checksum is not compared
CrcMatches(img, body) == img.crc = Crc(body)

ParsedGood(b) == IF BlocksGood(b) THEN [blk |-> Elements(b), ret |-> TRUE] ELSE RefusedFile
LoadBody(d, h, tcls, ok) ==
  LET body == SubSeq(d.image.rest, Len(d.image.rest) - BodyLen(h, tcls) + 1, Len(d.image.rest)) IN
  IF ok /\ CrcMatches(d.image, body) THEN ParsedGood(Parsed(h, tcls, body)) ELSE RefusedFile

\* A file without blocks is accepted as soon as its header is: the rest is not read.
Load(d, ok) ==
  LET h    == d.image.head
      tcls == TclsOf(d.image)
  IN  IF \/ d.len < HeaderItems + (IF HasTcls(h) THEN 1 ELSE 0)
         \/ ~FormatGood(h) \/ tcls \notin Classes \/ ~CountGood(h) \/ ~ClassesGood(h)
      THEN RefusedFile
      ELSE IF h.nblocks = 0 THEN [blk |-> NoBody(h, tcls), ret |-> TRUE]
      ELSE IF BodyLenGood(h, tcls) /\ BodyExact(d, h, tcls) THEN LoadBody(d, h, tcls, ok)
      ELSE RefusedFile
LoadBlocked(d, ok) == IF d.there THEN Load(d, ok) ELSE RefusedFile
=============================================================================
