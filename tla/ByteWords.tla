----------------------------- MODULE ByteWords -----------------------------
(***************************************************************************)
(* Words as the files hold them: byte by byte, the least significant first *)
(* (the memcpy of a little-endian host, the portable staging of another).  *)
(***************************************************************************)
EXTENDS PoolOps

Byte == 0 .. Pow(1) - 1

\* What the byte after j less significant ones counts for, and that byte of a word.
Place(j) ==
  LET f[i \in 0 .. j] == IF i = 0 THEN 1 ELSE Pow(1) * f[i - 1]
  IN  f[j]
ByteOf(w, j) == (w \div Place(j)) % Pow(1)

\* The word that some bytes make.
WordOf(bytes) ==
  LET s[j \in 0 .. Len(bytes)] == IF j = 0 THEN 0 ELSE s[j - 1] + bytes[j] * Place(j - 1)
  IN  s[Len(bytes)]
=============================================================================
