------------------------------- MODULE Store -------------------------------
(***************************************************************************)
(* The database of a server (pkg/bboltdb/bboltdb.go): a function from the  *)
(* keys that are there to their values. A key is a sequence; bbolt keeps   *)
(* keys in lexicographic order, and every scan walks a cursor over them.   *)
(***************************************************************************)
EXTENDS Naturals, Sequences, FiniteSets, Functions, SequencesExt

CONSTANT Key    \* the keys there may be

NoData == [k \in {} |-> 0]

PutEntry(db, k, v) == [j \in DOMAIN db \cup {k} |-> IF j = k THEN v ELSE db[j]]

\* GetEntry finds k
GetEntry(db, k) == k \in DOMAIN db

Del(db, k) == Restrict(db, DOMAIN db \ {k})

\* The order of bbolt: of the first difference, or the shorter first
Less(j, k) ==
  \/ IsStrictPrefix(j, k)
  \/ \E i \in 1..Len(j) : /\ i <= Len(k) /\ j[i] < k[i]
                          /\ SubSeq(j, 1, i - 1) = SubSeq(k, 1, i - 1)

Order == SetToSortSeq(Key, Less)

\* What a cursor walks over
Sorted(db) == SelectSeq(Order, LAMBDA k : k \in DOMAIN db)

\* Mutant of Seek: the cursor stands behind the prefix itself
SeekPast(db, p) == SelectInSeq(Sorted(db), LAMBDA k : Less(p, k))

\* The place of the first key that is not below p, 0 if there is none
Seek(db, p) == SelectInSeq(Sorted(db), LAMBDA k : ~ Less(k, p))

\* The loop of GetPairsWithPrefix: from Seek on, while the key has the prefix
GetPairsWithPrefix(db, p) ==
  LET from == Seek(db, p)
      rest == SubSeq(Sorted(db), from, Cardinality(DOMAIN db))
      stop == SelectInSeq(rest, LAMBDA k : ~ IsPrefix(p, k))
  IN  IF from = 0 THEN <<>> ELSE IF stop = 0 THEN rest ELSE SubSeq(rest, 1, stop - 1)

\* The same loop, for the values alone
GetEntryWithPrefix(db, p) ==
  LET ks == GetPairsWithPrefix(db, p) IN [i \in 1..Len(ks) |-> db[ks[i]]]

\* The same loop, with Delete on the cursor
DelWithPrefix(db, p) == Restrict(db, DOMAIN db \ Range(GetPairsWithPrefix(db, p)))

\* Skip, and then read a page
Keys(db, pageSize, pageIndex) ==
  LET skip == pageIndex * pageSize IN
  SubSeq(Sorted(db), skip + 1, Min({skip + pageSize, Len(Sorted(db))}))

\* The same page, with the values
KVs(db, pageSize, pageIndex) ==
  LET ks == Keys(db, pageSize, pageIndex) IN [i \in 1..Len(ks) |-> <<ks[i], db[ks[i]]>>]

\* The keys with prefix p
HasPrefix(db, p) == {k \in DOMAIN db : IsPrefix(p, k)}

\* All pages of one size
Pages(db, pageSize) ==
  FoldLeft(LAMBDA all, i : all \o KVs(db, pageSize, i), <<>>,
           [i \in 1..(Cardinality(DOMAIN db) + 1) |-> i - 1])

=============================================================================
