------------------------------- MODULE FbxRename -------------------------------
(***************************************************************************)
(* FbxUpdatePaths: after a directory was renamed, the entries below it get *)
(* their new paths.  The entries are found by a walk over the buckets of   *)
(* the volume's hash table, and each one is moved to another bucket, or    *)
(* to the end of its own, while the walk is under way.                     *)
(*                                                                         *)
(* FbxLocks has the effect of the whole walk as one step.  Here a step     *)
(* looks at one entry.  A path is only what the walk can tell of it: under *)
(* the old name, under the new name, or elsewhere.  Names are compared     *)
(* without regard to case, and so are they hashed.                         *)
(***************************************************************************)
EXTENDS Naturals, FiniteSets, SequencesExt

CONSTANTS
  Walked,         \* the entries of the volume
  Bucket,         \* the number of buckets
  CaseOnly,       \* the new name differs from the old one in case only
  END             \* the end of a bucket's list

ASSUME WalkAssumption ==
  /\ Bucket \in Nat \ {0} /\ CaseOnly \in BOOLEAN
  /\ IsFiniteSet(Walked) /\ END \notin Walked

VARIABLES
  hash,           \* where an entry belongs, by the place of its path
  path,           \* e->path
  entrytab,       \* the buckets
  a,              \* the bucket that the walk is in
  chain           \* the entry that it looks at next

walkvars == <<hash, path, entrytab, a, chain>>

Index == 0..Bucket - 1
Place == {"old", "new", "elsewhere"}

Home(e, p) == hash[e][p]

\* The node after e in a list.
Succ(list, e) ==
  LET i == CHOOSE n \in DOMAIN list : list[n] = e
  IN  IF i = Len(list) THEN END ELSE list[i + 1]

First(list) == IF list = <<>> THEN END ELSE Head(list)

\* Mutant of Matches: a path under the new name is taken for the old one.
MatchesBoth(e) == path[e] # "elsewhere"

\* The path begins with the old name.
Matches(e) == path[e] = "old" \/ (CaseOnly /\ path[e] = "new")

-----------------------------------------------------------------------------
\* Remove: the list without the node of e.
Without(list, e) ==
  LET i == CHOOSE n \in DOMAIN list : list[n] = e
  IN  RemoveAt(list, i)

\* Remove and FbxAddEntry, which adds at the end.
Rehash(e) ==
  LET removed == [entrytab EXCEPT ![a] = Without(@, e)]
  IN  entrytab' = [removed EXCEPT ![Home(e, "new")] = Append(@, e)]

\* Mutant of Visit: the next node is read after the entry was moved.
VisitThenNext ==
  /\ a < Bucket /\ chain # END
  /\ IF Matches(chain)
     THEN /\ path' = [path EXCEPT ![chain] = "new"]
          /\ Rehash(chain)
     ELSE UNCHANGED <<path, entrytab>>
  /\ LET b == IF Matches(chain) THEN Home(chain, "new") ELSE a
     IN  chain' = Succ(entrytab'[b], chain)
  /\ UNCHANGED <<hash, a>>

\* One entry.  The node after it is read first.
Visit ==
  /\ a < Bucket /\ chain # END
  /\ chain' = Succ(entrytab[a], chain)
  /\ IF Matches(chain)
     THEN /\ path' = [path EXCEPT ![chain] = "new"]
          /\ Rehash(chain)
     ELSE UNCHANGED <<path, entrytab>>
  /\ UNCHANGED <<hash, a>>

\* The end of a bucket.
NextBucket ==
  /\ a < Bucket /\ chain = END
  /\ a' = a + 1
  /\ chain' = IF a' < Bucket THEN First(entrytab[a']) ELSE END
  /\ UNCHANGED <<hash, path, entrytab>>

\* Any hash function that does not tell case apart, and any order of the
\* entries in their buckets.  No entry is under the new name yet, because no
\* object is.
WalkInit ==
  /\ hash \in [Walked -> [Place -> Index]]
  /\ CaseOnly => \A e \in Walked : hash[e]["old"] = hash[e]["new"]
  /\ path \in [Walked -> {"old", "elsewhere"}]
  /\ entrytab \in [Index -> UNION {SetToSeqs(S) : S \in SUBSET Walked}]
  /\ \A i \in Index :
       entrytab[i] \in SetToSeqs({e \in Walked : Home(e, path[e]) = i})
  /\ a = 0 /\ chain = First(entrytab[0])

WalkNext == Visit \/ NextBucket

WalkSpec == WalkInit /\ [][WalkNext]_walkvars /\ WF_walkvars(WalkNext)

-----------------------------------------------------------------------------
(* Properties *)

WalkTypeOK ==
  /\ hash \in [Walked -> [Place -> Index]] /\ path \in [Walked -> Place]
  /\ entrytab \in [Index -> Seq(Walked)]
  /\ a \in 0..Bucket /\ chain \in Walked \cup {END}

\* When the walk is over, no entry has a path under the old name, and each one
\* is in the bucket in which its path is looked up.
AllRenamed ==
  a = Bucket => \A e \in Walked :
                  path[e] # "old" /\ e \in Range(entrytab[Home(e, path[e])])

\* The buckets have each entry once, where it belongs.
TableInv ==
  /\ \A i \in Index : \A m, n \in DOMAIN entrytab[i] :
       entrytab[i][m] = entrytab[i][n] => m = n
  /\ \A i \in Index, e \in Walked :
       (\E n \in DOMAIN entrytab[i] : entrytab[i][n] = e) <=> i = Home(e, path[e])

\* The walk is at m or before it in the list of its bucket.
NotPassed(m) ==
  chain # END /\ \E n \in DOMAIN entrytab[a] : entrytab[a][n] = chain /\ n <= m

\* What is still under the old name is where the walk has not been.
WalkInv ==
  /\ chain # END => a < Bucket /\ a = Home(chain, path[chain])
  /\ \A e \in Walked : path[e] = "old" =>
       \/ a < Home(e, "old")
       \/ /\ a = Home(e, "old")
          /\ \A m \in DOMAIN entrytab[a] : entrytab[a][m] = e => NotPassed(m)

WalkIInv == WalkTypeOK /\ TableInv /\ WalkInv

\* The walk ends.
Ends == <>(a = Bucket)
=============================================================================
