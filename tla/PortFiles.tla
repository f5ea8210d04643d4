----------------------------- MODULE PortFiles -----------------------------
(***************************************************************************)
(* The other readers and writers of the portable format: the ports to Go,  *)
(* JavaScript and Python, which share no code with the C library, and the  *)
(* tool s2r_verify.  A port has the whole file in memory; what it returns  *)
(* are a class and integers.  (The reader that s2r pack, unpack, verify    *)
(* and agg call is the library's.)                                         *)
(***************************************************************************)
EXTENDS StoredFile

CONSTANT MaxSafeInteger   \* of JavaScript, 2^53 - 1

\* A port has the whole file in memory: of the columns saved, a size_t counts the items
\* of the file and JavaScript the bytes of the payload.
Countable(n) == n <= MaxSafeInteger /\ HeaderItems + n + Trailer <= SizeMax
ASSUME PortAssumption ==
  /\ MaxSafeInteger \in Nat
  /\ \A a \in Arrays, c \in Classes : Countable(Len(a) * ElemBytes[c])

\* What the three ports ask of a header.
Header(d) ==
  /\ d.there /\ d.len >= HeaderItems + Trailer
  /\ d.image.magic = "V33" /\ d.image.fmt = 1 /\ d.image.reserved = 0
  /\ d.image.size \in (-K .. K) \ {0}
  /\ (d.image.size < 0) = ("SIGNED" \in d.image.flags)

Column(d, n) ==
  LET size == d.image.size
      raw  == Decoded(size, Found(d, n))
  IN  [ok |-> TRUE, size |-> size,
       values |-> [i \in DOMAIN raw |-> IF size < 0 THEN AsSigned(-size, raw[i]) ELSE raw[i]]]
Rejected == [ok |-> FALSE, size |-> 0, values |-> <<>>]

\* Go: the bytes between header and checksum have to be the elements declared.
GoCountByProduct(d) ==   \* mutant: as it was, by a product in 64 bits
  d.len = SizeT(HeaderItems + d.image.count * Bytes(d.image.size) + Trailer)
GoCount(d) ==
  LET n == d.len - HeaderItems - Trailer
  IN  n % Bytes(d.image.size) = 0 /\ n \div Bytes(d.image.size) = d.image.count
GoLoad(d) ==
  IF ~Header(d) \/ ~GoCount(d) THEN Rejected
  ELSE IF CrcMatches(d, d.len - HeaderItems - Trailer) THEN Column(d, d.len - HeaderItems - Trailer)
  ELSE Rejected

\* JavaScript and Python: the length of the file against the one announced.
Announced(d) == d.image.count * Bytes(d.image.size)
FromBytes(d, verify) ==
  IF ~Header(d) \/ d.len # HeaderItems + Announced(d) + Trailer THEN Rejected
  ELSE IF verify => CrcMatches(d, Announced(d)) THEN Column(d, Announced(d)) ELSE Rejected
fromS2RBytes(d, verify) ==
  IF Header(d) /\ d.image.count > MaxSafeInteger THEN Rejected ELSE FromBytes(d, verify)
from_bytes(d, verify) == FromBytes(d, verify)

\* What a port writes of a column: Save, toS2RBytes, to_bytes.
Serialized(c) ==
  LET eb == Bytes(c.size)
      payload == [b \in 1 .. Len(c.values) * eb |->
        ByteOf(c.values[((b - 1) \div eb) + 1] % Pow(Abs(c.size)), (b - 1) % eb)]
  IN  [magic |-> "V33", size |-> c.size, count |-> Len(c.values), payload |-> payload,
       flags |-> IF c.size < 0 THEN {"SIGNED"} ELSE {}, fmt |-> 1, reserved |-> 0,
       crc |-> Crc(payload)]

\* s2r_verify looks at the header for itself, both formats in one layout, and leaves the
\* rest to the mapping reader.  (What it takes for the count of an old file does not
\* matter: that reader refuses the file.)
s2r_verify(d) ==
  /\ d.there /\ d.len >= HeaderItems
  /\ d.image.magic \in {"V33", "V32"} /\ GoodSize(d.image.size)
  /\ SizeT(HeaderItems + d.image.count * Bytes(d.image.size) + Trailer) = d.len
  /\ MapAccepts(d, TRUE)

-----------------------------------------------------------------------------
\* Four implementations of one format: whatever has become of a file, torn, damaged or
\* announcing a count beyond the word, the ports read the column that the C library
\* reads, with and without a look at the checksum, or refuse with it; written out by
\* a port that column is the same file again; and s2r_verify calls intact what the
\* library reads.  (Looked at when the program holds nothing: it is about the disk
\* alone, and a crash leads there from any moment of a save.)
PortsAgree ==
  \A f \in Files : owner = "none" /\ Idle =>
    LET d     == disk[f]
        c     == s2r_load_portable(0, d, TRUE)
        fast  == s2r_map_open(0, d, FALSE)
        same(p, r) == p.ok = r.ret /\ (p.ok => p.size = r.pool.size /\ p.values = Values(r.pool))
    IN  d.there /\ d.image.magic = "V33" =>
          /\ same(GoLoad(d), c) /\ same(fromS2RBytes(d, TRUE), c) /\ same(from_bytes(d, TRUE), c)
          /\ same(fromS2RBytes(d, FALSE), fast) /\ same(from_bytes(d, FALSE), fast)
          /\ c.ret => Serialized(GoLoad(d)) = [d.image EXCEPT !.flags = FormatFlags(@)]
          /\ s2r_verify(d) = c.ret
=============================================================================
