-------------------------------- MODULE FbxExamine --------------------------------
(***************************************************************************)
(* Two ways to read a directory through a lock: Examine and ExNext, and    *)
(* ExAll.  Either keeps what is left to tell in the lock between the       *)
(* packets, and other programs change the directory meanwhile.             *)
(*                                                                         *)
(* The lock is that of one program, which may begin, continue, give up and *)
(* mix its scans as it likes.  `scan' is not part of the code: it follows  *)
(* the scan that is under way, as long as nothing but the directory        *)
(* disturbs it: what was there all the time, and how often each name was   *)
(* told.  Memory of finished scans is left out: it goes with the lock at   *)
(* the latest.                                                             *)
(***************************************************************************)
EXTENDS Naturals, SequencesExt, FiniteSets

CONSTANTS
  Name,           \* the names of objects in the directory
  Matching,       \* those that eac_MatchString, or eac_MatchFunc, lets through
  FillDirStat,    \* FBXF_USE_FILL_DIR_STAT: readdir gives the attributes, too
  BufferSize      \* the most entries that a buffer of ExAll holds

VARIABLES
  dir,            \* the directory
  dirscan,        \* lock->dirscan
  dirdatalist,    \* lock->dirdatalist
  lastkey,        \* ctrl->eac_LastKey: "NULL", "state" or "-1"
  scan

vars == <<dir, dirscan, dirdatalist, lastkey, scan>>

Nothing == [n \in Name |-> 0]

NoScan == [by |-> "none", told |-> Nothing, kept |-> {}, over |-> FALSE]

\* A scan begins; it has to tell what is in the directory all the time.
Scan(kind) == [by |-> kind, told |-> Nothing, kept |-> dir, over |-> FALSE]

\* FbxReadDir: the backend may give the names in any order.
FbxReadDir(list) == {list \o s : s \in SetToSeqs(dir)}

-----------------------------------------------------------------------------
(* Other programs *)

Create(n) ==
  /\ n \notin dir
  /\ dir' = dir \cup {n}
  /\ UNCHANGED <<dirscan, dirdatalist, lastkey, scan>>

Delete(n) ==
  /\ n \in dir
  /\ dir' = dir \ {n} /\ scan' = [scan EXCEPT !.kept = @ \ {n}]
  /\ UNCHANGED <<dirscan, dirdatalist, lastkey>>

-----------------------------------------------------------------------------
(* Examine and ExNext *)

\* Mutant of FbxExamineLock: the scan is not started anew.
ExamineAgain ==
  /\ dirdatalist' = <<>> /\ UNCHANGED dirscan
  /\ scan' = Scan("next")
  /\ UNCHANGED <<dir, lastkey>>

\* The second case is an error of getattr.
FbxExamineLock ==
  /\ dirdatalist' = <<>>
  /\ \/ dirscan' = FALSE /\ scan' = Scan("next")
     \/ scan' = NoScan /\ UNCHANGED dirscan
  /\ UNCHANGED <<dir, lastkey>>

\* The list that ExNext takes its entry from.
NextLists == IF dirscan THEN {dirdatalist} ELSE FbxReadDir(dirdatalist)

Told(n) == [scan EXCEPT !.told[n] = @ + 1]

\* One entry.  The object can be gone when its attributes are asked for.
FbxExamineNext ==
  /\ \E list \in NextLists :
       /\ dirscan' = TRUE
       /\ dirdatalist' = IF list = <<>> THEN <<>> ELSE Tail(list)
       /\ scan' = IF scan.by # "next" THEN NoScan
                  ELSE IF list = <<>> THEN [scan EXCEPT !.over = TRUE]
                  ELSE IF FillDirStat \/ Head(list) \in dir
                  THEN Told(Head(list))
                  ELSE scan
  /\ UNCHANGED <<dir, lastkey>>

\* FbxReadDir fails.
ReadDirFails ==
  /\ ~dirscan
  /\ dirdatalist' = <<>> /\ scan' = NoScan
  /\ UNCHANGED <<dir, dirscan, lastkey>>

-----------------------------------------------------------------------------
(* ExAll *)

\* What a buffer gets of a list's first p entries.
Buffered(list, p) == {i \in 1..p : list[i] \in Matching}
Rest(list, p) == SubSeq(list, p + 1, Len(list))

\* The first p entries can be told: all that match are still there.
Readable(list, p) == FillDirStat \/ \A i \in Buffered(list, p) : list[i] \in dir

\* After entry p there is no room for another one.
Full(list, p, room) ==
  Cardinality(Buffered(list, p)) = room /\ (p > 0 => list[p] \in Matching)

\* The scan that a call of ExAll continues.
AllScan == IF lastkey = "NULL" THEN Scan("all")
           ELSE IF scan.by = "all" THEN scan ELSE NoScan

\* The buffer is filled until it is full or the list is empty ...
Fill(list, p, room) ==
  /\ Readable(list, p)
  /\ Full(list, p, room) \/ (p = Len(list) /\ Cardinality(Buffered(list, p)) < room)
  /\ dirdatalist' = Rest(list, p)
  /\ lastkey' = IF Rest(list, p) = <<>> /\ Buffered(list, p) = {}
                THEN "-1" ELSE "state"
  /\ scan' = IF AllScan = NoScan THEN NoScan
             ELSE [AllScan EXCEPT
                     !.told = [n \in Name |->
                                 @[n] + Cardinality({i \in Buffered(list, p) :
                                                       list[i] = n})],
                     !.over = Rest(list, p) = <<>>]

\* ... or there is an error with entry p, or no memory for it.
FillFails(list, p, room) ==
  /\ p > 0 /\ Readable(list, p - 1) /\ Cardinality(Buffered(list, p - 1)) < room
  /\ dirdatalist' = Rest(list, p)
  /\ lastkey' = "state" /\ scan' = NoScan

FbxExamineAll ==
  /\ lastkey # "-1"
  /\ \E list \in IF lastkey = "NULL" THEN FbxReadDir(<<>>) ELSE {dirdatalist},
        room \in 0..BufferSize :
       \E p \in 0..Len(list) : Fill(list, p, room) \/ FillFails(list, p, room)
  /\ UNCHANGED <<dir, dirscan>>

\* The first call fails before it has read the directory.
ExamineAllFails ==
  /\ lastkey = "NULL"
  /\ dirdatalist' = <<>> /\ scan' = NoScan
  /\ UNCHANGED <<dir, dirscan, lastkey>>

FbxExamineAllEnd ==
  /\ lastkey' = "NULL" /\ dirdatalist' = <<>> /\ scan' = NoScan
  /\ UNCHANGED <<dir, dirscan>>

\* The program clears its ExAllControl.
ClearControl ==
  /\ lastkey # "NULL"
  /\ lastkey' = "NULL" /\ scan' = NoScan
  /\ UNCHANGED <<dir, dirscan, dirdatalist>>

-----------------------------------------------------------------------------
Init ==
  /\ dir \in SUBSET Name
  /\ dirscan = FALSE /\ dirdatalist = <<>> /\ lastkey = "NULL"
  /\ scan = NoScan

Next ==
  \/ \E n \in Name : Create(n) \/ Delete(n)
  \/ FbxExamineLock \/ FbxExamineNext \/ ReadDirFails
  \/ FbxExamineAll \/ ExamineAllFails \/ FbxExamineAllEnd \/ ClearControl

Spec == Init /\ [][Next]_vars

-----------------------------------------------------------------------------
(* Properties *)

\* A scan that is over has told every object that was there all the time and
\* was asked for, and none twice, whatever was created and deleted meanwhile
\* and whatever scans were left unfinished before.
ScanTells ==
  /\ \A n \in Name : scan.told[n] <= 1
  /\ scan.over => \A n \in scan.kept :
                    (scan.by = "all" => n \in Matching) => scan.told[n] = 1

-----------------------------------------------------------------------------
(* The inductive invariant behind ScanTells *)

TypeOK ==
  /\ dir \subseteq Name /\ dirscan \in BOOLEAN
  /\ dirdatalist \in Seq(Name)
  /\ lastkey \in {"NULL", "state", "-1"}
  /\ scan \in [by : {"none", "next", "all"}, told : [Name -> Nat],
              kept : SUBSET Name, over : BOOLEAN]

Listed(list, n) == \E i \in 1..Len(list) : list[i] = n

\* Scan s has list still to tell: nothing in it has been told, and what has to
\* be told and has not been is in it.
Pending(s, list) ==
  /\ \A i, j \in 1..Len(list) : list[i] = list[j] => i = j
  /\ \A n \in Name : s.told[n] <= 1 /\ (Listed(list, n) => s.told[n] = 0)
  /\ \A n \in s.kept : (s.by = "all" => n \in Matching)
                        => Listed(list, n) \/ s.told[n] = 1
  /\ s.over => list = <<>>

ScanInv ==
  /\ scan.kept \subseteq dir
  /\ scan.by = "none" => scan = NoScan
  /\ scan.by = "next" => IF dirscan THEN Pending(scan, dirdatalist)
                         ELSE /\ dirdatalist = <<>>
                              /\ scan.told = Nothing /\ ~scan.over
  /\ scan.by = "all" => lastkey # "NULL" /\ Pending(scan, dirdatalist)

IInv == TypeOK /\ ScanInv
=============================================================================
