------------------------------ MODULE WebFiles ------------------------------
(***************************************************************************)
(* The in-memory files of the browser build (web/src/s2r_rt.c): a FILE is  *)
(* a buffer that grows as it is written.  The page has one file, col.s2r,  *)
(* so there is one entry of the table here, and its name is always found   *)
(* while it has a buffer.                                                  *)
(*                                                                         *)
(* What is in the buffer is a prefix of the image being written.  Sizes    *)
(* are counted in items of that image.                                     *)
(***************************************************************************)
EXTENDS BlockFile

CONSTANTS
  FirstCap,   \* the capacity a file starts with, 4096
  AddrSpace   \* 2^32: size_t of the browser build

\* The header fits the first buffer: 46 bytes.
ASSUME FilesAssumption == FirstCap \in Nat /\ FirstCap > HeaderItems + 1 /\ AddrSpace \in Nat

\* An entry of the table.  A cleared one has no buffer.
NoBuffer == [buf |-> FALSE, image |-> <<>>, cap |-> 0, len |-> 0, pos |-> 0, err |-> FALSE, open |-> FALSE]

\* fopen for writing frees the buffer there was, and only then asks for a new one.
fopen_keeps(f, img, ok) ==   \* mutant: the old buffer is written over from its start
  IF f.buf THEN [f EXCEPT !.image = img, !.pos = 0, !.err = FALSE, !.open = TRUE]
  ELSE [NoBuffer EXCEPT !.buf = ok, !.image = img, !.cap = FirstCap, !.open = TRUE]
fopen_w(f, img, ok) ==
  IF ok THEN [NoBuffer EXCEPT !.buf = TRUE, !.image = img, !.cap = FirstCap, !.open = TRUE]
  ELSE NoBuffer
fopen_r(f) == [f EXCEPT !.pos = 0, !.err = FALSE, !.open = TRUE]
fclose(f)  == [f EXCEPT !.open = FALSE]

\* fwrite: the capacity grows by half and a constant until the words fit, is asked for,
\* and the words are copied.
Fits(f, want) == f.pos + want <= f.cap
GrowthHalved(cap) == (cap \div 2 + FirstCap) % AddrSpace   \* mutant: = where += is meant
Growth(cap) == (cap + cap \div 2 + FirstCap) % AddrSpace
Resized(f, cap) == [f EXCEPT !.cap = cap]
Failed(f) == [f EXCEPT !.err = TRUE]
Copied(f, want) ==
  [f EXCEPT !.pos = @ + want, !.len = IF f.pos + want > @ THEN f.pos + want ELSE @]

\* The bytes a reader finds: s2r_memfile_ptr and s2r_memfile_len, fread, fseek, ftell.
Content(f) == IF f.buf THEN Stored(f.image, f.len) ELSE NoFile
=============================================================================
