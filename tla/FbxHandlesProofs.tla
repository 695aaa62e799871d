---------------------------- MODULE FbxHandlesProofs ----------------------------
(***************************************************************************)
(* Proofs about FbxFileIO and FbxExamine as FbxHandles composes them, for  *)
(* all handles, offsets and sizes of files, and for all names, patterns    *)
(* and buffers of directories.                                             *)
(***************************************************************************)
EXTENDS FbxHandles, Sequences, TLAPS, FiniteSetTheorems

-----------------------------------------------------------------------------
(* FbxFileIO *)

LEMMA InitTypeOK == Init => TypeOK
  BY HandleAssumption DEF Init, TypeOK, HandleAssumption

LEMMA StepTypeOK ==
  ASSUME TypeOK, [Next]_vars
  PROVE  TypeOK'
<1> USE HandleAssumption DEF HandleAssumption, TypeOK
<1>1. ASSUME NEW h \in Handle, OpenShared(h) PROVE TypeOK'
  BY <1>1 DEF OpenShared
<1>2. ASSUME NEW h \in Handle, OpenNew(h) PROVE TypeOK'
  BY <1>2 DEF OpenNew
<1>3. ASSUME NEW h \in Handle, FbxCloseFile(h) PROVE TypeOK'
  BY <1>3 DEF FbxCloseFile
<1>4. ASSUME NEW h \in Handle, FbxReadFile(h) PROVE TypeOK'
  BY <1>4 DEF FbxReadFile
<1>5. ASSUME NEW h \in Handle, FbxWriteFile(h) PROVE TypeOK'
  BY <1>5 DEF FbxWriteFile
<1>6. ASSUME NEW h \in Handle, FbxSeekFile64(h) PROVE TypeOK'
  BY <1>6 DEF FbxSeekFile64, Target
<1>7. ASSUME NEW h \in Handle, FbxSetFileSize64(h) PROVE TypeOK'
  <2>1. PICK newsize \in -MaxSize..MaxSize :
          /\ filepos' = [filepos EXCEPT ![h] = IF @ > newsize THEN newsize ELSE @]
          /\ (newsize >= 0 /\ size' = newsize) \/ size' = size
          /\ access' = access
    BY <1>7 DEF FbxSetFileSize64
  <2> QED BY <2>1
<1>8. CASE UNCHANGED vars
  BY <1>8 DEF vars
<1> QED BY <1>1, <1>2, <1>3, <1>4, <1>5, <1>6, <1>7, <1>8 DEF Next

\* The handle table and the size of the file keep their types.
THEOREM TypeOKHolds == Spec => []TypeOK
<1>1. Init => TypeOK
  BY InitTypeOK
<1>2. TypeOK /\ [Next]_vars => TypeOK'
  BY StepTypeOK
<1> QED BY <1>1, <1>2, PTL DEF Spec

-----------------------------------------------------------------------------
\* One step leaves no handle behind the end.
Kept == \A h \in Handle : Stays(h) => filepos'[h] <= size'

\* The file grows, or keeps its size, in every step but these two.
LEMMA OpenNewKeeps ==
  ASSUME TypeOK, NEW h \in Handle, OpenNew(h)
  PROVE  Kept
<1> SUFFICES ASSUME NEW k \in Handle, Stays(k) PROVE FALSE
  BY DEF Kept
<1>1. k \in OpenHandles
  BY DEF Stays, OpenHandles
<1>2. OpenHandles = {}
  BY DEF OpenNew, CanLock
<1> QED BY <1>1, <1>2

LEMMA SetFileSizeKeeps ==
  ASSUME TypeOK, NEW h \in Handle, FbxSetFileSize64(h)
  PROVE  Kept
<1> USE DEF TypeOK
<1>1. PICK newsize \in -MaxSize..MaxSize :
        /\ FbxTruncNewSize(h, newsize)
        /\ filepos' = [filepos EXCEPT ![h] = IF @ > newsize THEN newsize ELSE @]
        /\ size' = newsize \/ size' = size
  BY DEF FbxSetFileSize64
<1>2. newsize \in Int
  BY HandleAssumption DEF HandleAssumption
<1> SUFFICES ASSUME NEW k \in Handle, Stays(k) PROVE filepos'[k] <= size'
  BY DEF Kept
<1>3. filepos'[k] = filepos[k] /\ filepos[k] <= size /\ k \in OpenHandles
  BY DEF Stays, OpenHandles
<1>4. CASE size' = size
  BY <1>3, <1>4
<1>5. CASE size' = newsize /\ k = h
  BY <1>1, <1>2, <1>3, <1>5
<1>6. CASE size' = newsize /\ k # h
  <2>1. filepos[k] <= newsize
    BY <1>1, <1>3, <1>6 DEF FbxTruncNewSize
  <2> QED BY <1>3, <1>6, <2>1
<1> QED BY <1>1, <1>4, <1>5, <1>6

LEMMA StepKeeps ==
  ASSUME TypeOK, [Next]_vars
  PROVE  Kept
<1>1. CASE size' \in Int /\ size <= size'
  BY <1>1 DEF Kept, Stays, TypeOK
<1>2. ASSUME NEW h \in Handle,
             OpenShared(h) \/ FbxCloseFile(h) \/ FbxReadFile(h) \/ FbxSeekFile64(h)
      PROVE  Kept
  BY <1>1, <1>2 DEF OpenShared, FbxCloseFile, FbxReadFile, FbxSeekFile64, TypeOK
<1>3. ASSUME NEW h \in Handle, FbxWriteFile(h) PROVE Kept
  BY <1>1, <1>3, HandleAssumption DEF FbxWriteFile, TypeOK, HandleAssumption
<1>4. ASSUME NEW h \in Handle, OpenNew(h) PROVE Kept
  BY <1>4, OpenNewKeeps
<1>5. ASSUME NEW h \in Handle, FbxSetFileSize64(h) PROVE Kept
  BY <1>5, SetFileSizeKeeps
<1>6. CASE UNCHANGED vars
  BY <1>1, <1>6 DEF vars, TypeOK
<1> QED BY <1>2, <1>3, <1>4, <1>5, <1>6 DEF Next

\* No truncation, by FbxSetFileSize or by MODE_NEWFILE, leaves the handle of
\* another program behind the end of the file.
THEOREM PositionsKeptHolds == Spec => PositionsKept
<1>1. TypeOK /\ [Next]_vars => [Kept]_vars
  BY StepKeeps
<1>2. Spec => []TypeOK
  BY TypeOKHolds
<1> QED BY <1>1, <1>2, PTL DEF Spec, PositionsKept, Kept

-----------------------------------------------------------------------------
(* FbxExamine: lists *)

ScanRecord == [by : {"none", "next", "all"}, told : [Name -> Nat],
               kept : SUBSET Name, over : BOOLEAN]

LEMMA NoScanFacts ==
  /\ Directory!NoScan \in ScanRecord
  /\ Directory!NoScan.by = "none" /\ Directory!NoScan.kept = {}
  /\ Directory!NoScan.told = Directory!Nothing /\ ~Directory!NoScan.over
BY DEF Directory!NoScan, Directory!Nothing, ScanRecord

LEMMA NewScanFacts ==
  ASSUME dir \subseteq Name, NEW kind \in {"next", "all"}
  PROVE  /\ Directory!Scan(kind) \in ScanRecord
         /\ Directory!Scan(kind).by = kind /\ Directory!Scan(kind).kept = dir
         /\ Directory!Scan(kind).told = Directory!Nothing
         /\ ~Directory!Scan(kind).over
BY DEF Directory!Scan, Directory!Nothing, ScanRecord

\* FbxHandles has the operators of FiniteSets through Directory, too.
LEMMA SameCardinality ==
  \A S : Directory!Cardinality(S) = Cardinality(S)
BY DEF Directory!Cardinality, Cardinality

\* readdir gives each name once.
LEMMA OrderFacts ==
  ASSUME dir \subseteq Name, NEW s \in Directory!SetToSeqs(dir)
  PROVE  /\ s \in Seq(Name)
         /\ \A i, j \in 1..Len(s) : s[i] = s[j] => i = j
         /\ \A n \in dir : Directory!Listed(s, n)
<1> DEFINE D == 1..Cardinality(dir)
<1>1. IsFiniteSet(dir) /\ Cardinality(dir) \in Nat
  BY ExamineAssumption, FS_Subset, FS_CardinalityType
<1>2. s \in [D -> dir] /\ \A i, j \in D : i # j => s[i] # s[j]
  BY SameCardinality DEF Directory!SetToSeqs
<1>3. s \in Seq(Name) /\ Len(s) = Cardinality(dir)
  BY <1>1, <1>2
<1>4. s \in Injection(D, dir)
  BY <1>2 DEF Injection, IsInjective
<1>5. Cardinality(D) = Cardinality(dir) /\ IsFiniteSet(D)
  BY <1>1, FS_Interval
<1>6. s \in Surjection(D, dir)
  BY <1>1, <1>4, <1>5, FS_Injection
<1>7. \A n \in dir : \E i \in D : s[i] = n
  BY <1>6 DEF Surjection
<1>8. QED
  BY <1>2, <1>3, <1>7 DEF Directory!Listed

LEMMA ReadDirFacts ==
  ASSUME dir \subseteq Name, NEW old \in Seq(Name), NEW list \in Directory!FbxReadDir(old)
  PROVE  /\ list \in Seq(Name)
         /\ old = <<>> =>
              /\ \A i, j \in 1..Len(list) : list[i] = list[j] => i = j
              /\ \A n \in dir : Directory!Listed(list, n)
<1>1. PICK s \in Directory!SetToSeqs(dir) : list = old \o s
  BY DEF Directory!FbxReadDir
<1>2. s \in Seq(Name)
  BY OrderFacts
<1>3. old = <<>> => list = s
  BY <1>1, <1>2
<1>4. list \in Seq(Name)
  BY <1>1, <1>2
<1>5. QED
  BY <1>3, <1>4, OrderFacts

\* A scan that begins has everything before it.
LEMMA FreshPending ==
  ASSUME dir \subseteq Name, NEW list \in Directory!FbxReadDir(<<>>),
         NEW s, s.told = Directory!Nothing, s.kept \subseteq dir, ~s.over
  PROVE  Directory!Pending(s, list)
<1>1. <<>> \in Seq(Name)
  OBVIOUS
<1>2. /\ \A i, j \in 1..Len(list) : list[i] = list[j] => i = j
      /\ \A n \in dir : Directory!Listed(list, n)
  BY <1>1, ReadDirFacts
<1>3. QED
  BY <1>2 DEF Directory!Pending, Directory!Nothing

\* The tail of a list from behind its entry p.
LEMMA RestFacts ==
  ASSUME NEW list \in Seq(Name), NEW p \in 0..Len(list)
  PROVE  /\ Directory!Rest(list, p) \in Seq(Name)
         /\ Len(Directory!Rest(list, p)) = Len(list) - p
         /\ \A i \in 1..(Len(list) - p) : Directory!Rest(list, p)[i] = list[p + i]
<1> DEFINE k == Len(list)
<1>1. k \in Nat /\ p \in Nat /\ p <= k /\ \A i \in 1..k : list[i] \in Name
  OBVIOUS
<1> HIDE DEF k
<1>2. /\ SubSeq(list, p + 1, k) \in Seq(Name)
      /\ Len(SubSeq(list, p + 1, k)) = k - p
      /\ \A i \in 1..(k - p) : SubSeq(list, p + 1, k)[i] = list[p + i]
  BY <1>1
<1>3. QED
  BY <1>2 DEF Directory!Rest, k

\* An entry of a list in which no name is twice is counted once.
LEMMA BufferedOnce ==
  ASSUME NEW list \in Seq(Name), NEW p \in 0..Len(list), NEW n \in Name,
         \A i, j \in 1..Len(list) : list[i] = list[j] => i = j
  PROVE  Directory!Cardinality({i \in Directory!Buffered(list, p) : list[i] = n})
           = IF n \in Matching /\ \E i \in 1..p : list[i] = n THEN 1 ELSE 0
<1> DEFINE H == {i \in Directory!Buffered(list, p) : list[i] = n}
<1>1. ASSUME n \in Matching, NEW i \in 1..p, list[i] = n PROVE H = {i}
  BY <1>1 DEF Directory!Buffered
<1>2. ~(n \in Matching /\ \E i \in 1..p : list[i] = n) => H = {}
  BY DEF Directory!Buffered
<1>3. Directory!Cardinality(H) = Cardinality(H)
  BY SameCardinality
<1> HIDE DEF H
<1>4. CASE n \in Matching /\ \E i \in 1..p : list[i] = n
  <2>1. PICK i \in 1..p : list[i] = n
    BY <1>4
  <2>2. H = {i}
    BY <1>1, <1>4, <2>1
  <2>3. Cardinality(H) = 1
    BY <2>2, FS_Singleton
  <2> QED
    BY <1>3, <1>4, <2>3 DEF H
<1>5. CASE ~(n \in Matching /\ \E i \in 1..p : list[i] = n)
  <2>1. Cardinality(H) = 0
    BY <1>2, <1>5, FS_EmptySet
  <2> QED
    BY <1>3, <1>5, <2>1 DEF H
<1> QED
  BY <1>4, <1>5

\* What ExAll does with the first p entries, s becoming r.
LEMMA FillPending ==
  ASSUME NEW list \in Seq(Name), NEW p \in 0..Len(list),
         NEW s \in ScanRecord, NEW r \in ScanRecord, s.by = "all",
         Directory!Pending(s, list), r.by = s.by, r.kept = s.kept,
         \A n \in Name :
           r.told[n] = s.told[n] + Directory!Cardinality(
                         {i \in Directory!Buffered(list, p) : list[i] = n}),
         r.over => Directory!Rest(list, p) = <<>>
  PROVE  Directory!Pending(r, Directory!Rest(list, p))
<1> DEFINE R == Directory!Rest(list, p)
           L == Len(list)
<1>1. /\ \A i, j \in 1..L : list[i] = list[j] => i = j
      /\ \A n \in Name : s.told[n] <= 1 /\ (Directory!Listed(list, n) => s.told[n] = 0)
      /\ \A n \in s.kept : n \in Matching
                            => Directory!Listed(list, n) \/ s.told[n] = 1
  BY DEF Directory!Pending
<1>2. R \in Seq(Name) /\ Len(R) = L - p
      /\ \A i \in 1..(L - p) : R[i] = list[p + i]
  BY RestFacts
<1>3. ASSUME NEW n \in Name
      PROVE  r.told[n] = s.told[n] + (IF n \in Matching /\ \E i \in 1..p : list[i] = n
                                      THEN 1 ELSE 0)
  <2>1. Directory!Cardinality({i \in Directory!Buffered(list, p) : list[i] = n})
          = IF n \in Matching /\ \E i \in 1..p : list[i] = n THEN 1 ELSE 0
    BY <1>1, BufferedOnce
  <2>2. r.told[n] = s.told[n] + Directory!Cardinality(
                      {i \in Directory!Buffered(list, p) : list[i] = n})
    OBVIOUS
  <2> QED
    BY <2>1, <2>2
<1>4. L \in Nat /\ p \in 0..L /\ s.told \in [Name -> Nat] /\ s.kept \subseteq Name
  BY DEF ScanRecord
<1> HIDE DEF R, L
<1>5. \A i, j \in 1..Len(R) : R[i] = R[j] => i = j
  <2> SUFFICES ASSUME NEW i \in 1..Len(R), NEW j \in 1..Len(R), R[i] = R[j]
               PROVE  i = j
    OBVIOUS
  <2>1. R[i] = list[p + i] /\ R[j] = list[p + j] /\ p + i \in 1..L /\ p + j \in 1..L
    BY <1>2, <1>4
  <2>2. p + i = p + j
    BY <1>1, <2>1
  <2> QED
    BY <1>2, <1>4, <2>2
<1>6. ASSUME NEW n \in Name PROVE Directory!Listed(list, n) <=>
        (\E i \in 1..p : list[i] = n) \/ Directory!Listed(R, n)
  <2>1. ASSUME NEW i \in 1..L, list[i] = n, i \notin 1..p
        PROVE  Directory!Listed(R, n)
    <3>1. i - p \in 1..Len(R) /\ R[i - p] = list[p + (i - p)] /\ p + (i - p) = i
      BY <1>2, <1>4, <2>1
    <3> QED
      BY <2>1, <3>1 DEF Directory!Listed
  <2>2. ASSUME NEW i \in 1..Len(R), R[i] = n
        PROVE  Directory!Listed(list, n)
    <3>1. p + i \in 1..L /\ list[p + i] = n
      BY <1>2, <1>4, <2>2
    <3> QED
      BY <3>1 DEF Directory!Listed, L
  <2>3. ASSUME NEW i \in 1..p, list[i] = n PROVE Directory!Listed(list, n)
    BY <1>4, <2>3 DEF Directory!Listed, L
  <2>4. Directory!Listed(list, n) => \E i \in 1..L : list[i] = n
    BY DEF Directory!Listed, L
  <2>5. Directory!Listed(R, n) => \E i \in 1..Len(R) : R[i] = n
    BY DEF Directory!Listed
  <2> QED
    BY <2>1, <2>2, <2>3, <2>4, <2>5
<1>7. ASSUME NEW n \in Name, Directory!Listed(R, n) PROVE ~ \E i \in 1..p : list[i] = n
  <2>1. PICK j \in 1..Len(R) : R[j] = n
    BY <1>7 DEF Directory!Listed
  <2>2. p + j \in 1..L /\ list[p + j] = n
    BY <1>2, <1>4, <2>1
  <2> QED
    BY <1>1, <1>4, <2>2
<1>8. \A n \in Name : r.told[n] <= 1 /\ (Directory!Listed(R, n) => r.told[n] = 0)
  <2> SUFFICES ASSUME NEW n \in Name
               PROVE  r.told[n] <= 1 /\ (Directory!Listed(R, n) => r.told[n] = 0)
    OBVIOUS
  <2>1. s.told[n] \in Nat
    BY <1>4
  <2>2. CASE \E i \in 1..p : list[i] = n
    <3>1. s.told[n] = 0 /\ ~Directory!Listed(R, n)
      BY <1>1, <1>6, <1>7, <2>2
    <3>2. r.told[n] = 0 \/ r.told[n] = 1
      BY <1>3, <3>1
    <3> QED
      BY <3>1, <3>2
  <2>3. CASE ~ \E i \in 1..p : list[i] = n
    <3>1. r.told[n] = s.told[n]
      BY <1>3, <2>1, <2>3
    <3> QED
      BY <1>1, <1>6, <3>1
  <2> QED
    BY <2>2, <2>3
<1>9. \A n \in r.kept : n \in Matching => Directory!Listed(R, n) \/ r.told[n] = 1
  <2> SUFFICES ASSUME NEW n \in r.kept, n \in Matching, ~Directory!Listed(R, n)
               PROVE  r.told[n] = 1
    OBVIOUS
  <2>1. n \in Name /\ s.told[n] \in Nat
    BY <1>4
  <2>2. CASE \E i \in 1..p : list[i] = n
    BY <1>1, <1>3, <1>6, <2>1, <2>2
  <2>3. CASE ~ \E i \in 1..p : list[i] = n
    BY <1>1, <1>3, <1>6, <2>1, <2>3
  <2> QED
    BY <2>2, <2>3
<1>10. Directory!Pending(r, R)
  BY <1>5, <1>8, <1>9 DEF Directory!Pending, R
<1> QED
  BY <1>10 DEF R

\* What ExNext does with the first entry, s becoming r: the entry is told, or
\* it was deleted.
LEMMA TailPending ==
  ASSUME NEW list \in Seq(Name), list # <<>>,
         NEW s \in ScanRecord, NEW r \in ScanRecord, Directory!Pending(s, list),
         r.by = s.by, r.kept = s.kept, r.over = s.over,
         \/ r.told = [s.told EXCEPT ![Head(list)] = @ + 1]
         \/ r.told = s.told /\ Head(list) \notin s.kept
  PROVE  Directory!Pending(r, Tail(list))
<1> DEFINE R == Tail(list)
           h == Head(list)
           L == Len(list)
<1>1. /\ \A i, j \in 1..L : list[i] = list[j] => i = j
      /\ \A n \in Name : s.told[n] <= 1 /\ (Directory!Listed(list, n) => s.told[n] = 0)
      /\ \A n \in s.kept : (s.by = "all" => n \in Matching)
                            => Directory!Listed(list, n) \/ s.told[n] = 1
      /\ ~s.over
  BY DEF Directory!Pending
<1>2. /\ L \in Nat \ {0} /\ h = list[1] /\ h \in Name
      /\ R \in Seq(Name) /\ Len(R) = L - 1 /\ \A i \in 1..(L - 1) : R[i] = list[i + 1]
  OBVIOUS
<1>3. s.told \in [Name -> Nat] /\ s.kept \subseteq Name
  BY DEF ScanRecord
<1> HIDE DEF R, L, h
<1>4. \A i, j \in 1..Len(R) : R[i] = R[j] => i = j
  BY <1>1, <1>2
<1>5. ASSUME NEW n \in Name
      PROVE  Directory!Listed(list, n) <=> n = h \/ Directory!Listed(R, n)
  <2>1. ASSUME NEW i \in 1..L, list[i] = n, i # 1 PROVE Directory!Listed(R, n)
    <3>1. i - 1 \in 1..Len(R) /\ R[i - 1] = n
      BY <1>2, <2>1
    <3> QED
      BY <3>1 DEF Directory!Listed
  <2>2. ASSUME NEW i \in 1..Len(R), R[i] = n PROVE Directory!Listed(list, n)
    <3>1. i + 1 \in 1..L /\ list[i + 1] = n
      BY <1>2, <2>2
    <3> QED
      BY <3>1 DEF Directory!Listed, L
  <2>3. Directory!Listed(list, h)
    BY <1>2 DEF Directory!Listed, L
  <2>4. Directory!Listed(list, n) => \E i \in 1..L : list[i] = n
    BY DEF Directory!Listed, L
  <2>5. Directory!Listed(R, n) => \E i \in 1..Len(R) : R[i] = n
    BY DEF Directory!Listed
  <2> QED
    BY <1>2, <2>1, <2>2, <2>3, <2>4, <2>5
<1>6. ~Directory!Listed(R, h)
  <2> SUFFICES ASSUME NEW j \in 1..Len(R), R[j] = h PROVE FALSE
    BY DEF Directory!Listed
  <2>1. j + 1 \in 1..L /\ list[j + 1] = list[1] /\ 1 \in 1..L
    BY <1>2
  <2> QED
    BY <1>1, <2>1
<1>7. /\ \A n \in Name : n # h => r.told[n] = s.told[n]
      /\ r.told[h] = s.told[h] + 1 \/ (r.told[h] = s.told[h] /\ h \notin s.kept)
  BY <1>2, <1>3 DEF h
<1>8. s.told[h] = 0
  BY <1>1, <1>2, <1>5
<1>9. \A n \in Name : r.told[n] <= 1 /\ (Directory!Listed(R, n) => r.told[n] = 0)
  BY <1>1, <1>5, <1>6, <1>7, <1>8
<1>10. \A n \in r.kept : (r.by = "all" => n \in Matching)
                          => Directory!Listed(R, n) \/ r.told[n] = 1
  BY <1>1, <1>3, <1>5, <1>7, <1>8
<1>11. Directory!Pending(r, R)
  BY <1>1, <1>4, <1>9, <1>10 DEF Directory!Pending
<1> QED
  BY <1>11 DEF R

-----------------------------------------------------------------------------
(* FbxExamine: the inductive invariant *)

LEMMA DirectoryInit == Directory!Init => Directory!IInv
<1> SUFFICES ASSUME Directory!Init PROVE Directory!IInv
  OBVIOUS
<1>1. scan = Directory!NoScan /\ dir \subseteq Name /\ dirdatalist = <<>>
      /\ dirscan = FALSE /\ lastkey = "NULL"
  BY DEF Directory!Init
<1>2. <<>> \in Seq(Name)
  OBVIOUS
<1>3. Directory!TypeOK
  BY <1>1, <1>2, NoScanFacts DEF Directory!TypeOK, ScanRecord
<1>4. Directory!ScanInv
  BY <1>1, NoScanFacts DEF Directory!ScanInv
<1> QED
  BY <1>3, <1>4 DEF Directory!IInv

\* A step that ends the scan, or that belongs to none.
LEMMA WithoutScan ==
  ASSUME scan' = Directory!NoScan, dir' \subseteq Name, dirscan' \in BOOLEAN,
         dirdatalist' \in Seq(Name), lastkey' \in {"NULL", "state", "-1"}
  PROVE  Directory!IInv'
BY NoScanFacts
DEF Directory!IInv, Directory!TypeOK, Directory!ScanInv, ScanRecord, Directory!NoScan,
    Directory!Nothing

\* What a step has to keep when there is a scan.
LEMMA WithScan ==
  ASSUME NEW s \in ScanRecord, scan' = s, dir' \subseteq Name, s.kept \subseteq dir',
         dirscan' \in BOOLEAN, dirdatalist' \in Seq(Name),
         lastkey' \in {"NULL", "state", "-1"},
         \/ s.by = "next" /\ dirscan' = TRUE /\ Directory!Pending(s, dirdatalist')
         \/ /\ s.by = "next" /\ dirscan' = FALSE /\ dirdatalist' = <<>>
            /\ s.told = Directory!Nothing /\ ~s.over
         \/ s.by = "all" /\ lastkey' # "NULL" /\ Directory!Pending(s, dirdatalist')
  PROVE  Directory!IInv'
<1>1. Directory!TypeOK'
  BY DEF Directory!TypeOK, ScanRecord
<1>2. Directory!ScanInv'
  BY DEF Directory!ScanInv, Directory!Pending, Directory!Listed, Directory!Nothing
<1> QED
  BY <1>1, <1>2 DEF Directory!IInv

LEMMA CreateStep ==
  ASSUME Directory!IInv, NEW n \in Name, Directory!Create(n)
  PROVE  Directory!IInv'
<1> USE DEF Directory!IInv, Directory!TypeOK, Directory!ScanInv, Directory!Create
<1>1. /\ scan \in ScanRecord /\ scan' = scan /\ dir' \subseteq Name
      /\ scan.kept \subseteq dir'
  BY DEF ScanRecord
<1>2. CASE scan.by = "none"
  BY <1>1, <1>2, WithoutScan
<1>3. CASE scan.by # "none"
  BY <1>1, <1>3, WithScan DEF ScanRecord
<1> QED
  BY <1>2, <1>3

LEMMA DeleteStep ==
  ASSUME Directory!IInv, NEW n \in Name, Directory!Delete(n)
  PROVE  Directory!IInv'
<1> USE DEF Directory!IInv, Directory!TypeOK, Directory!ScanInv, Directory!Delete
<1> DEFINE s == [scan EXCEPT !.kept = @ \ {n}]
<1>1. /\ s \in ScanRecord /\ scan' = s /\ dir' \subseteq Name
      /\ s.kept = scan.kept \ {n} /\ s.kept \subseteq dir'
      /\ s.by = scan.by /\ s.told = scan.told /\ s.over = scan.over
  BY DEF ScanRecord
<1>2. CASE scan.by = "none"
  <2>1. s = Directory!NoScan
    BY <1>2, NoScanFacts DEF Directory!NoScan
  <2> QED
    BY <1>1, <2>1, WithoutScan
<1>3. Directory!Pending(scan, dirdatalist) => Directory!Pending(s, dirdatalist)
  <2> HIDE DEF s
  <2> QED
    BY <1>1 DEF Directory!Pending
<1>4. CASE scan.by # "none"
  <2> HIDE DEF s
  <2> QED
    BY <1>1, <1>3, <1>4, WithScan DEF ScanRecord
<1> QED
  BY <1>2, <1>4

LEMMA ExamineLockStep ==
  ASSUME Directory!IInv, Directory!FbxExamineLock
  PROVE  Directory!IInv'
<1> USE DEF Directory!IInv, Directory!TypeOK, Directory!FbxExamineLock
<1>1. CASE dirscan' = FALSE /\ scan' = Directory!Scan("next")
  <2> DEFINE s == Directory!Scan("next")
  <2>1. /\ s \in ScanRecord /\ s.by = "next" /\ s.kept = dir
        /\ s.told = Directory!Nothing /\ ~s.over
    BY NewScanFacts
  <2> HIDE DEF s
  <2>2. scan' = s
    BY <1>1 DEF s
  <2>3. /\ dirscan' = FALSE /\ dirdatalist' = <<>> /\ dirdatalist' \in Seq(Name)
        /\ dir' = dir /\ lastkey' = lastkey
    BY <1>1
  <2> QED
    BY <2>1, <2>2, <2>3, WithScan
<1>2. CASE scan' = Directory!NoScan /\ UNCHANGED dirscan
  BY <1>2, WithoutScan
<1> QED
  BY <1>1, <1>2

LEMMA ExamineNextStep ==
  ASSUME Directory!IInv, Directory!FbxExamineNext
  PROVE  Directory!IInv'
<1> USE DEF Directory!IInv, Directory!TypeOK
<1>1. PICK list \in Directory!NextLists :
        /\ dirscan' = TRUE
        /\ dirdatalist' = IF list = <<>> THEN <<>> ELSE Tail(list)
        /\ scan' = IF scan.by # "next" THEN Directory!NoScan
                   ELSE IF list = <<>> THEN [scan EXCEPT !.over = TRUE]
                   ELSE IF FillDirStat \/ Head(list) \in dir
                   THEN Directory!Told(Head(list))
                   ELSE scan
  BY DEF Directory!FbxExamineNext
<1>2. dir' = dir /\ lastkey' = lastkey
  BY DEF Directory!FbxExamineNext
<1>3. list \in Seq(Name)
  BY ReadDirFacts DEF Directory!NextLists
<1>4. scan \in ScanRecord /\ scan.kept \subseteq dir
  BY DEF Directory!ScanInv, ScanRecord
<1>5. dirdatalist' \in Seq(Name)
  BY <1>1, <1>3
<1>6. CASE scan.by # "next"
  BY <1>1, <1>2, <1>5, <1>6, WithoutScan
<1>7. ASSUME scan.by = "next" PROVE Directory!Pending(scan, list)
  <2>1. CASE dirscan
    BY <1>7, <2>1 DEF Directory!ScanInv, Directory!NextLists
  <2>2. CASE ~dirscan
    <3>1. /\ dirdatalist = <<>> /\ scan.told = Directory!Nothing /\ ~scan.over
          /\ list \in Directory!FbxReadDir(<<>>)
      BY <1>7, <2>2 DEF Directory!ScanInv, Directory!NextLists
    <3> QED
      BY <1>4, <3>1, FreshPending
  <2> QED
    BY <2>1, <2>2
<1>8. CASE scan.by = "next" /\ list = <<>>
  <2> DEFINE s == [scan EXCEPT !.over = TRUE]
  <2>1. /\ s \in ScanRecord /\ s.by = scan.by /\ s.kept = scan.kept
        /\ s.told = scan.told /\ scan' = s
    BY <1>1, <1>4, <1>8 DEF ScanRecord
  <2> HIDE DEF s
  <2>2. Directory!Pending(s, list)
    BY <1>7, <1>8, <2>1 DEF Directory!Pending
  <2>3. dirdatalist' = list
    BY <1>1, <1>8
  <2> QED
    BY <1>1, <1>2, <1>3, <1>4, <1>8, <2>1, <2>2, <2>3, WithScan
<1>9. CASE scan.by = "next" /\ list # <<>>
  <2>1. PICK s \in ScanRecord :
          /\ scan' = s /\ s.by = scan.by /\ s.kept = scan.kept /\ s.over = scan.over
          /\ \/ s.told = [scan.told EXCEPT ![Head(list)] = @ + 1]
             \/ s.told = scan.told /\ Head(list) \notin scan.kept
    <3>1. Head(list) \in Name
      BY <1>3, <1>9
    <3>2. CASE FillDirStat \/ Head(list) \in dir
      <4> DEFINE t == [scan EXCEPT !.told[Head(list)] = @ + 1]
      <4>1. scan' = t
        BY <1>1, <1>9, <3>2 DEF Directory!Told
      <4>2. [scan.told EXCEPT ![Head(list)] = @ + 1] \in [Name -> Nat]
        BY <1>4, <3>1 DEF ScanRecord
      <4>3. /\ t.by = scan.by /\ t.kept = scan.kept /\ t.over = scan.over
            /\ t.told = [scan.told EXCEPT ![Head(list)] = @ + 1]
            /\ t \in ScanRecord
        BY <1>4, <4>2 DEF ScanRecord
      <4> QED
        BY <4>1, <4>3
    <3>3. CASE ~(FillDirStat \/ Head(list) \in dir)
      BY <1>1, <1>4, <1>9, <3>3
    <3> QED
      BY <3>2, <3>3
  <2>2. Directory!Pending(s, Tail(list))
    BY <1>3, <1>4, <1>7, <1>9, <2>1, TailPending
  <2>3. dirdatalist' = Tail(list)
    BY <1>1, <1>9
  <2> QED
    BY <1>1, <1>2, <1>4, <1>5, <1>9, <2>1, <2>2, <2>3, WithScan
<1> QED
  BY <1>6, <1>8, <1>9

LEMMA ExamineAllStep ==
  ASSUME Directory!IInv, Directory!FbxExamineAll
  PROVE  Directory!IInv'
<1> USE DEF Directory!IInv, Directory!TypeOK
<1>1. dir' = dir /\ dirscan' = dirscan /\ lastkey # "-1"
  BY DEF Directory!FbxExamineAll
<1>2. PICK list \in IF lastkey = "NULL" THEN Directory!FbxReadDir(<<>>) ELSE {dirdatalist},
           room \in 0..BufferSize :
        \E p \in 0..Len(list) :
          Directory!Fill(list, p, room) \/ Directory!FillFails(list, p, room)
  BY DEF Directory!FbxExamineAll
<1> PICK p \in 0..Len(list) :
      Directory!Fill(list, p, room) \/ Directory!FillFails(list, p, room)
  BY <1>2
<1>3. <<>> \in Seq(Name)
  OBVIOUS
<1>4. list \in Seq(Name)
  BY <1>2, <1>3, ReadDirFacts
<1>5. Directory!Rest(list, p) \in Seq(Name)
  BY <1>4, RestFacts
<1>6. CASE Directory!FillFails(list, p, room)
  BY <1>1, <1>5, <1>6, WithoutScan DEF Directory!FillFails
<1>7. CASE Directory!Fill(list, p, room) /\ Directory!AllScan = Directory!NoScan
  BY <1>1, <1>5, <1>7, WithoutScan DEF Directory!Fill
<1>8. CASE Directory!Fill(list, p, room) /\ Directory!AllScan # Directory!NoScan
  <2> DEFINE s == Directory!AllScan
             r == [s EXCEPT
                     !.told = [n \in Name |->
                                 @[n] + Directory!Cardinality(
                                          {i \in Directory!Buffered(list, p) :
                                             list[i] = n})],
                     !.over = Directory!Rest(list, p) = <<>>]
  <2>1. scan' = r
    BY <1>8 DEF Directory!Fill
  <2>2. /\ s \in ScanRecord /\ s.by = "all" /\ s.kept \subseteq dir
        /\ Directory!Pending(s, list)
    <3>1. CASE lastkey = "NULL"
      <4>1. s = Directory!Scan("all")
        BY <3>1 DEF Directory!AllScan
      <4> HIDE DEF s
      <4>2. s \in ScanRecord /\ s.by = "all" /\ s.kept = dir
            /\ s.told = Directory!Nothing /\ ~s.over
        BY <4>1, NewScanFacts
      <4> QED
        BY <1>2, <3>1, <4>2, FreshPending
    <3>2. CASE lastkey # "NULL"
      <4>1. scan.by = "all" /\ s = scan
        BY <1>8, <3>2 DEF Directory!AllScan
      <4> HIDE DEF s
      <4> QED
        BY <1>2, <3>2, <4>1 DEF Directory!ScanInv, ScanRecord
    <3> QED
      BY <3>1, <3>2
  <2> HIDE DEF s
  <2>3. \A n \in Name : Directory!Cardinality({i \in Directory!Buffered(list, p) :
                                                 list[i] = n}) \in Nat
    <3>1. \A i, j \in 1..Len(list) : list[i] = list[j] => i = j
      BY <2>2 DEF Directory!Pending
    <3> SUFFICES ASSUME NEW n \in Name
                 PROVE  Directory!Cardinality({i \in Directory!Buffered(list, p) :
                                                 list[i] = n}) \in Nat
      OBVIOUS
    <3>2. Directory!Cardinality({i \in Directory!Buffered(list, p) : list[i] = n})
            = IF n \in Matching /\ \E i \in 1..p : list[i] = n THEN 1 ELSE 0
      BY <1>4, <3>1, BufferedOnce
    <3> QED
      BY <3>2
  <2> DEFINE count(n) == Directory!Cardinality(
                           {i \in Directory!Buffered(list, p) : list[i] = n})
  <2>4. /\ r \in ScanRecord /\ r.by = s.by /\ r.kept = s.kept
        /\ \A n \in Name :
             r.told[n] = s.told[n] + count(n)
        /\ r.over => Directory!Rest(list, p) = <<>>
    <3> DEFINE told == [n \in Name |-> s.told[n] + count(n)]
               over == Directory!Rest(list, p) = <<>>
    <3>1. s.told \in [Name -> Nat]
      BY <2>2 DEF ScanRecord
    <3>2. \A n \in Name : count(n) \in Nat
      BY <2>3
    <3> HIDE DEF count
    <3>3. told \in [Name -> Nat]
      BY <3>1, <3>2
    <3>4. r = [s EXCEPT !.told = told, !.over = over]
      BY DEF count
    <3>5. over \in BOOLEAN /\ \A n \in Name : told[n] = s.told[n] + count(n)
      OBVIOUS
    <3> HIDE DEF told, r
    <3>6. /\ r \in ScanRecord /\ r.by = s.by /\ r.kept = s.kept
          /\ r.told = told /\ r.over = over
      BY <2>2, <3>3, <3>4 DEF ScanRecord
    <3> QED
      BY <3>5, <3>6
  <2> HIDE DEF r
  <2>5. Directory!Pending(r, Directory!Rest(list, p))
    BY <1>4, <2>2, <2>4, FillPending
  <2>6. dirdatalist' = Directory!Rest(list, p) /\ lastkey' \in {"state", "-1"}
    BY <1>8 DEF Directory!Fill
  <2> QED
    BY <1>1, <1>5, <2>1, <2>2, <2>4, <2>5, <2>6, WithScan
<1> QED
  BY <1>6, <1>7, <1>8

LEMMA DirectoryStep ==
  ASSUME Directory!IInv, [Directory!Next]_directory
  PROVE  Directory!IInv'
<1>1. ASSUME NEW n \in Name, Directory!Create(n) PROVE Directory!IInv'
  BY <1>1, CreateStep
<1>2. ASSUME NEW n \in Name, Directory!Delete(n) PROVE Directory!IInv'
  BY <1>2, DeleteStep
<1>3. CASE Directory!FbxExamineLock
  BY <1>3, ExamineLockStep
<1>4. CASE Directory!FbxExamineNext
  BY <1>4, ExamineNextStep
<1>5. CASE Directory!ReadDirFails
  BY <1>5, WithoutScan DEF Directory!ReadDirFails, Directory!IInv, Directory!TypeOK
<1>6. CASE Directory!FbxExamineAll
  BY <1>6, ExamineAllStep
<1>7. CASE Directory!ExamineAllFails
  BY <1>7, WithoutScan DEF Directory!ExamineAllFails, Directory!IInv, Directory!TypeOK
<1>8. CASE Directory!FbxExamineAllEnd
  BY <1>8, WithoutScan DEF Directory!FbxExamineAllEnd, Directory!IInv, Directory!TypeOK
<1>9. CASE Directory!ClearControl
  BY <1>9, WithoutScan DEF Directory!ClearControl, Directory!IInv, Directory!TypeOK
<1>10. CASE UNCHANGED directory
  BY <1>10 DEF directory, Directory!IInv, Directory!TypeOK, Directory!ScanInv,
     Directory!Pending, Directory!Listed, Directory!NoScan, Directory!Nothing
<1> QED
  BY <1>1, <1>2, <1>3, <1>4, <1>5, <1>6, <1>7, <1>8, <1>9, <1>10 DEF Directory!Next

LEMMA ScanTellsFollows == Directory!IInv => ScanTells
<1> SUFFICES ASSUME Directory!IInv PROVE ScanTells
  OBVIOUS
<1>1. CASE scan.by = "none"
  BY <1>1, NoScanFacts
  DEF ScanTells, Directory!ScanTells, Directory!IInv, Directory!ScanInv, Directory!Nothing
<1>2. CASE scan.by # "none" /\ Directory!Pending(scan, dirdatalist)
  BY <1>2 DEF ScanTells, Directory!ScanTells, Directory!Pending, Directory!Listed,
              Directory!IInv, Directory!TypeOK
<1>3. CASE scan.told = Directory!Nothing /\ ~scan.over
  BY <1>3 DEF ScanTells, Directory!ScanTells, Directory!Nothing
<1> QED
  BY <1>1, <1>2, <1>3 DEF Directory!IInv, Directory!TypeOK, Directory!ScanInv

-----------------------------------------------------------------------------
(* FbxHandles *)

\* The files of FbxHandles are those of FbxFileIO: what is proved of its
\* positions above holds beside the directories, too.
THEOREM HandlesAreFiles == HandlesSpec => Spec
<1>1. HandlesInit => Init
  BY DEF HandlesInit
<1>2. [HandlesNext]_<<type, vars, directory>> => [Next]_vars
  BY DEF HandlesNext
<1> QED
  BY <1>1, <1>2, PTL DEF HandlesSpec, Spec

\* What is left to tell of a scan, and what has been told, stay in step.
THEOREM DirectoryInvariance == HandlesSpec => []Directory!IInv
<1>1. HandlesInit => Directory!IInv
  BY DirectoryInit DEF HandlesInit
<1>2. Directory!IInv /\ [HandlesNext]_<<type, vars, directory>> => Directory!IInv'
  BY DirectoryStep DEF HandlesNext
<1> QED
  BY <1>1, <1>2, PTL DEF HandlesSpec

\* A scan that is over has told all that was there all the time, and no name
\* twice, whatever other programs created and deleted meanwhile.
THEOREM ScanTellsHolds == HandlesSpec => []ScanTells
BY DirectoryInvariance, ScanTellsFollows, PTL
=============================================================================
