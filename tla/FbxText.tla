-------------------------------- MODULE FbxText --------------------------------
(***************************************************************************)
(* The conversion of names between UTF-8, in which the backend has them,   *)
(* and the local character set of the other programs.  What the local      *)
(* character set lacks is escaped: a '%' and a number in base 32, whose    *)
(* first digit also holds the length.                                      *)
(*                                                                         *)
(* A string is a sequence of bytes without the 0 at its end.  A buffer of  *)
(* size n has room for n - 1 of them.                                      *)
(***************************************************************************)
EXTENDS FbxAvl, Sequences

At(s, i) == IF i <= Len(s) THEN s[i] ELSE 0
From(s, i) == SubSeq(s, i, Len(s))
Least(a, b) == IF a < b THEN a ELSE b

Percent == 37
UNWRITTEN == -1

NoCharacter == [code |-> -1, size |-> 0]

-----------------------------------------------------------------------------
(* UTF-8 *)

\* utf8_trailing_bytes
Trailing(byte) ==
  IF byte < 192 THEN 0 ELSE IF byte < 224 THEN 1 ELSE IF byte < 240 THEN 2
  ELSE IF byte < 248 THEN 3 ELSE IF byte < 252 THEN 4 ELSE 5

utf8_first_codes == <<0, 128, 2048, 65536>>
utf8_offsets == <<0, 12416, 925824, 63447168>>

\* The number that the digits make, the first being the highest.
RECURSIVE Number(_, _)
Number(digits, base) ==
  IF digits = <<>> THEN 0
  ELSE Number(SubSeq(digits, 1, Len(digits) - 1), base) * base + digits[Len(digits)]

\* Neither too long for its code, nor a surrogate, nor no character.
ValidCode(unicode, n) ==
  /\ utf8_first_codes[n + 1] <= unicode /\ unicode <= 1114111
  /\ unicode \notin 55296..57343 \cup {65534, 65535}

\* The character at the beginning of a string, with a check.
utf8_decode_slow(s) ==
  LET byte == At(s, 1)
      n == Trailing(byte)
      rest == [i \in 1..n |-> At(s, i + 1)]
      unicode == Number(<<byte % 2^(6 - n)>> \o [i \in 1..n |-> rest[i] % 64], 64)
  IN IF byte \in 128..191 \/ n >= 4 THEN NoCharacter
     ELSE IF n = 0 THEN [code |-> byte, size |-> 1]
     ELSE IF (\E i \in 1..n : rest[i] \notin 128..191) \/ ~ValidCode(unicode, n)
     THEN NoCharacter
     ELSE [code |-> unicode, size |-> n + 1]

\* The same without a check.
utf8_decode_fast(s) ==
  LET n == Trailing(At(s, 1))
  IN [code |-> Number([i \in 1..n + 1 |-> At(s, i)], 64) - utf8_offsets[n + 1],
      size |-> n + 1]

RECURSIVE FbxCheckString(_)
FbxCheckString(s) ==
  LET c == utf8_decode_slow(s)
  IN c.code = 0 \/ (c.code > 0 /\ FbxCheckString(From(s, c.size + 1)))

UTF8Size(unicode) ==
  IF unicode < 128 THEN 1 ELSE IF unicode < 2048 THEN 2
  ELSE IF unicode < 65536 THEN 3 ELSE 4

encode_unicode(unicode) ==
  LET n == UTF8Size(unicode)
      lead == <<0, 192, 224, 240>>
  IN [i \in 1..n |-> IF i = 1 THEN lead[n] + (unicode \div 64^(n - 1))
                     ELSE 128 + ((unicode \div 64^(n - i)) % 64)]

\* Mutant of Fits: the 0 at the end is forgotten.
FitsBare(pos, n, size) == pos + n <= size

Fits(pos, n, size) == pos + n < size

\* utf8_strlcpy and, with something in the buffer, utf8_strlcat: characters
\* are copied whole.
RECURSIVE Copy(_, _, _, _)
Copy(src, buf, pos, size) ==
  LET n == 1 + Trailing(src[1])
  IN IF src = <<>> THEN [dst |-> buf, len |-> pos]
     ELSE Copy(From(src, n + 1),
               IF Fits(pos, n, size) THEN buf \o SubSeq(src, 1, n) ELSE buf,
               pos + n, size)

-----------------------------------------------------------------------------
(* Escapes *)

Digit(d) == IF d < 10 THEN 48 + d ELSE 55 + d

\* Mutant of Value: the last digit is forgotten.
ValueShort(c) ==
  IF c \in 48..57 THEN c - 48
  ELSE IF c \in 65..85 THEN c - 55
  ELSE IF c \in 97..117 THEN c - 87
  ELSE -1

\* The value of a digit in either case, or -1.
Value(c) ==
  IF c \in 48..57 THEN c - 48
  ELSE IF c \in 65..86 THEN c - 55
  ELSE IF c \in 97..118 THEN c - 87
  ELSE -1

\* Three- and four-byte characters leave the lowest bit unused.
Shifted(n) == n >= 3

escape_unicode(unicode) ==
  LET n == UTF8Size(unicode)
      v == IF Shifted(n) THEN unicode * 2 ELSE unicode
  IN <<Percent>> \o
     [i \in 1..n + 1 |-> Digit(((v \div 32^(n + 1 - i)) % 32) + IF i = 1 THEN 4 * n ELSE 0)]

\* What comes after a '%'.
unescape_unicode(s) ==
  LET b == Value(At(s, 1))
      n == b \div 4
      digits == [i \in 1..n |-> Value(At(s, i + 1))]
      v == Number(<<b % 4>> \o digits, 32)
      unicode == IF Shifted(n) THEN v \div 2 ELSE v
  IN IF b = -1 \/ n \notin 1..4 THEN NoCharacter
     ELSE IF (\E i \in 1..n : digits[i] = -1) \/ (Shifted(n) /\ v % 2 = 1)
     THEN NoCharacter
     ELSE IF ValidCode(unicode, n - 1) THEN [code |-> unicode, size |-> n + 1]
     ELSE NoCharacter

-----------------------------------------------------------------------------
(* Names.  A character set has a table, from local characters to Unicode,  *)
(* and the tree of its other direction; without a table it is Latin-1.     *)
(* `pos' counts the bytes of the result, also those there is no room for.  *)

latin1 == table = NoTable

\* 0 for a character that the character set lacks.
Local(unicode) ==
  IF latin1 THEN IF unicode < 256 THEN unicode ELSE 0
  ELSE IF unicode \in (128..255) \ DOMAIN table THEN unicode ELSE Found(unicode)

\* The rest of the table is the identity.
Unicode(local) ==
  IF local \in DOMAIN table THEN table[local] ELSE local

\* An escape can be cut in the middle.
RECURSIVE utf8_to_local(_, _, _, _)
utf8_to_local(src, buf, pos, size) ==
  LET c == utf8_decode_fast(src)
      seq == IF c.code < 128 THEN <<c.code>>
             ELSE IF Local(c.code) # 0 THEN <<Local(c.code)>>
             ELSE escape_unicode(c.code)
      room == size - 1 - pos
  IN IF src = <<>> THEN [dst |-> buf, len |-> pos]
     ELSE utf8_to_local(From(src, c.size + 1),
            IF room > 0 THEN buf \o SubSeq(seq, 1, Least(Len(seq), room)) ELSE buf,
            pos + Len(seq), size)

\* A character that does not fit is left out, and so is what is after it: the
\* rest of the buffer is not written.
Cut(buf, seq, room) ==
  IF Len(seq) <= room THEN buf \o seq
  ELSE buf \o [i \in 1..room |-> UNWRITTEN]

\* An escape that does not fit is counted twice: as a character and by its
\* digits.
RECURSIVE local_to_utf8(_, _, _, _)
local_to_utf8(src, buf, pos, size) ==
  LET escape == IF src[1] = Percent THEN unescape_unicode(Tail(src)) ELSE NoCharacter
      escaped == escape.code >= 128
      unicode == IF escaped THEN escape.code
                 ELSE IF src[1] = Percent THEN Percent
                 ELSE Unicode(src[1])
      seq == encode_unicode(unicode)
      room == size - 1 - pos
      skipped == escaped /\ (room <= 0 \/ Len(seq) <= room)
  IN IF src = <<>> THEN [dst |-> buf, len |-> pos]
     ELSE local_to_utf8(From(src, 2 + IF skipped THEN escape.size ELSE 0),
            IF room > 0 THEN Cut(buf, seq, room) ELSE buf,
            pos + Len(seq), size)
=============================================================================
