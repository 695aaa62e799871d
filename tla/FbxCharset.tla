------------------------------ MODULE FbxCharset ------------------------------
(***************************************************************************)
(* The character set of a handler: its setup, and the conversions.         *)
(*                                                                         *)
(* The table of a character set is one of codesets.c, or there is none     *)
(* (Latin-1).  A conversion changes nothing of the handler, so that there  *)
(* is one in a behaviour, `done'.                                          *)
(***************************************************************************)
EXTENDS FbxText

CONSTANTS
  Convertible,    \* bound: the tables with which names are converted
  UTF8Name,       \* names that the backend gives, valid or not
  LocalName,      \* names that programs give
  Present,        \* what a buffer has before FbxStrlcat, or nothing
  BufferSize      \* sizes of buffers

ASSUME CharsetAssumption ==
  /\ Convertible \subseteq Table /\ BufferSize \subseteq Nat
  /\ \A s \in Present : FbxCheckString(s)
  /\ \A t \in Table : \A l \in DOMAIN t :
       l \in 128..255 /\ t[l] \in {0} \cup 128..65535

VARIABLE
  done            \* the conversion

vars == <<avlvars, done>>

NoConversion == [kind |-> "none"]

Conversion(kind, src, size, res) ==
  [kind |-> kind, src |-> src, size |-> size, dst |-> res.dst, len |-> res.len]

Ready ==
  /\ next = {} /\ phase = "next" /\ done = NoConversion
  /\ latin1 \/ table \in Convertible

\* dir_fill_func ignores a name that is not UTF-8.
FbxUTF8ToLocal ==
  /\ Ready
  /\ \E name \in UTF8Name, size \in BufferSize :
       /\ FbxCheckString(name)
       /\ LET res == utf8_to_local(name, <<>>, 0, size) IN
          done' = Conversion("local", name, size, res)
  /\ UNCHANGED avlvars

FbxLocalToUTF8 ==
  /\ Ready
  /\ \E name \in LocalName, size \in BufferSize :
       LET res == local_to_utf8(name, <<>>, 0, size) IN
       done' = Conversion("utf8", name, size, res)
  /\ UNCHANGED avlvars

\* FbxStrlcpy, and FbxStrlcat when there is something in the buffer.
FbxStrlcat ==
  /\ Ready /\ latin1
  /\ \E name \in UTF8Name, old \in Present, size \in BufferSize :
       /\ FbxCheckString(name) /\ Len(old) < size
       /\ LET res == Copy(name, old, Len(old), size) IN
          done' = Conversion("copy", old \o name, size, res)
  /\ UNCHANGED avlvars

\* FbxGetCharsetMapTable
Init == AvlInit /\ done = NoConversion

Next ==
  \/ FbxSetupAVL /\ UNCHANGED done
  \/ FbxUTF8ToLocal \/ FbxLocalToUTF8 \/ FbxStrlcat

Spec == Init /\ [][Next]_vars

-----------------------------------------------------------------------------
(* Properties *)

\* Big enough for every conversion of the instance.
Ample == 100

\* The characters after each '%' of the name cannot be read as an escape.
NotLikeEscape(name) ==
  \A i \in DOMAIN name : name[i] = Percent => Value(At(name, i + 1)) = -1

\* A program that gives a name back as it has been told it, names the same
\* object: a valid name comes back from the local character set unchanged,
\* whatever that lacks and whatever the tables say.
RoundTrip ==
  done.kind = "local" /\ done.len < done.size /\ NotLikeEscape(done.src)
    => local_to_utf8(done.dst, <<>>, 0, Ample).dst = done.src

\* C's string in a buffer.
String(dst) ==
  IF \E i \in DOMAIN dst : dst[i] = 0
  THEN SubSeq(dst, 1, (CHOOSE i \in DOMAIN dst :
                         dst[i] = 0 /\ \A j \in 1..i - 1 : dst[j] # 0) - 1)
  ELSE dst

Whole ==
  CASE done.kind = "local" -> utf8_to_local(done.src, <<>>, 0, Ample).dst
    [] done.kind = "utf8" -> local_to_utf8(done.src, <<>>, 0, Ample).dst
    [] OTHER -> done.src

\* The callers look at the length that is returned.  When it is less than the
\* size, all of the name is in the buffer and what the backend gets of it is
\* valid; when it is not, the name was cut, and no buffer is ever overrun.
CutIsTold ==
  done.kind # "none" =>
    /\ done.len < done.size <=> done.dst = Whole
    /\ done.size > 0 => Len(done.dst) < done.size
    /\ done.kind = "copy" => FbxCheckString(done.dst)
    /\ done.kind = "utf8" /\ done.len < done.size => FbxCheckString(String(done.dst))
=============================================================================
