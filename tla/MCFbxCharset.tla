----------------------------- MODULE MCFbxCharset -----------------------------
(***************************************************************************)
(* Instances of FbxCharset for TLC.                                        *)
(***************************************************************************)
EXTENDS FbxCharset, FiniteSetsExt, Functions

\* Six local characters for six of Unicode, in any order, all different but
\* perhaps two neighbours, which can both be missing.
Locals == {164, 165, 174, 215, 233, 255}
Unicodes == {0, 165, 174, 215, 233, 8364}
SomeTables ==
  LET Injections == Injection(Locals, Unicodes) IN
  Injections \cup {[t EXCEPT ![174] = t[165]] : t \in Injections}

OneTable ==
  [l \in Locals |-> CASE l = 164 -> 8364 [] l \in {165, 174} -> 0 [] l = 215 -> 1234 [] OTHER -> l]
AllTables == SomeTables \cup {OneTable}
OneOfThem == {OneTable}

\* The first and the last character of each length, what must not be one, and
\* the characters of the tables.
Pieces == {
  <<97>>, <<Percent>>, <<50>>, <<195, 151>>, <<195, 169>>, <<226, 130, 172>>,
  <<194, 128>>, <<223, 191>>, <<224, 160, 128>>, <<239, 191, 189>>,
  <<240, 144, 128, 128>>, <<244, 143, 191, 191>>, <<227, 131, 132>>, <<211, 146>>,
  <<128>>, <<195>>, <<193, 191>>, <<224, 159, 191>>, <<237, 160, 128>>,
  <<239, 191, 190>>, <<240, 143, 191, 191>>, <<244, 144, 128, 128>>, <<248, 136, 128, 128, 128>> }

UTF8Names == Pieces \cup {p \o q : p \in Pieces, q \in Pieces}

\* Escapes of U+D7, of a surrogate, of U+10FFFF, a long one of U+D7, one in
\* small letters, one of "a", and unfinished ones.
LocalPieces == {
  <<97>>, <<164>>, <<165>>, <<215>>, <<233>>, <<Percent>>, <<50>>, <<86>>,
  <<Percent, 56, 54, 78>>, <<Percent, 70, 67, 48, 48>>, <<Percent, 73, 51, 86, 86, 85>>,
  <<Percent, 67, 48, 68, 69>>, <<Percent, 56, 54, 110>>, <<Percent, 55, 49>>,
  <<Percent, 56, 54>>, <<Percent, 73, 51, 86>> }

LocalNames == LocalPieces \cup {p \o q : p \in LocalPieces, q \in LocalPieces}

Presents == {<<>>, <<97>>, <<195, 169>>}

Sizes == 0..9
=============================================================================
