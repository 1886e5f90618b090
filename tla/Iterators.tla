------------------------------- MODULE Iterators -------------------------------
(* The iterators over a whole database: a child walks a memtable or the     *)
(* files of a level, the merging iterator all the children (table/merger.cc), *)
(* and DBIter the newest entries of a snapshot (db/db_iter.cc), while the   *)
(* memtable grows. An entry is its rank in the order of internal keys.      *)
EXTENDS Integers, Sequences, FiniteSets, FiniteSetsExt, SequencesExt

CONSTANTS Users,      \* user keys, 1 up
          LastSeq,    \* bound: sequence numbers
          Sources,    \* what a database may hold: sequences of files for each child;
                      \* the first child is the memtable
          Snapshots,  \* sequence numbers of snapshots
          Raw         \* the merging iterator is used itself, as compactions do

Deletion == 0
Value == 1
Corrupt == 2     \* any other type
Tags == 3 * (LastSeq + 1)
Rank(user, seq, type) == (user * Tags) + (Tags - 1 - ((3 * seq) + type))
UserOf(k) == k \div Tags
SequenceOf(k) == (Tags - 1 - (k % Tags)) \div 3
TypeOf(k) == (Tags - 1 - (k % Tags)) % 3

VARIABLES src,       \* the files of each child; the memtable's only one is the first's
          sequence,  \* of the snapshot
          d          \* the iterator

vars == <<src, sequence, d>>

All == UNION {UNION ToSet(src[i]) : i \in DOMAIN src}

-----------------------------------------------------------------------------
(* A child: its file and its entry, 0 when not Valid. A level's is a two-   *)
(* level iterator over LevelFileNumIterator.                                *)
Least(S) == IF S = {} THEN 0 ELSE Min(S)
Greatest(S) == IF S = {} THEN 0 ELSE Max(S)
At(file, k) == [file |-> file, at |-> k]
Out(fs) == At(Len(fs) + 1, 0)

(* The first file whose largest key is at or past the key.                  *)
FindFile(fs, k) == Min({i \in DOMAIN fs : Greatest(fs[i]) >= k} \cup {Len(fs) + 1})

ChildSeek(fs, k) ==
  LET i == FindFile(fs, k) IN IF i > Len(fs) THEN Out(fs) ELSE At(i, Min({x \in fs[i] : x >= k}))
ChildFirst(fs) == IF fs = <<>> THEN Out(fs) ELSE At(1, Least(fs[1]))
ChildLast(fs) == IF fs = <<>> THEN Out(fs) ELSE At(Len(fs), Greatest(fs[Len(fs)]))
ChildNext(fs, c) ==
  LET later == {x \in fs[c.file] : x > c.at}
  IN  IF later # {} THEN At(c.file, Min(later))
      ELSE IF c.file < Len(fs) THEN At(c.file + 1, Least(fs[c.file + 1])) ELSE Out(fs)
ChildPrev(fs, c) ==
  LET before == {x \in fs[c.file] : x < c.at}
  IN  IF before # {} THEN At(c.file, Max(before))
      ELSE IF c.file > 1 THEN At(c.file - 1, Greatest(fs[c.file - 1])) ELSE Out(fs)

-----------------------------------------------------------------------------
(* MergingIterator                                                          *)
NewMerging == [ch |-> [i \in DOMAIN src |-> Out(src[i])], cur |-> 0, forward |-> TRUE]
ValidIn(m) == {i \in DOMAIN m.ch : m.ch[i].at # 0}
Key(m) == m.ch[m.cur].at

FindSmallest(m) ==
  [m EXCEPT !.cur = IF ValidIn(m) = {} THEN 0
                    ELSE CHOOSE i \in ValidIn(m) : \A j \in ValidIn(m) : m.ch[i].at <= m.ch[j].at]
FindLargest(m) ==
  [m EXCEPT !.cur = IF ValidIn(m) = {} THEN 0
                    ELSE CHOOSE i \in ValidIn(m) : \A j \in ValidIn(m) : m.ch[i].at >= m.ch[j].at]

MergeFirst(m) == FindSmallest([m EXCEPT !.ch = [i \in DOMAIN src |-> ChildFirst(src[i])], !.forward = TRUE])
MergeLast(m) == FindLargest([m EXCEPT !.ch = [i \in DOMAIN src |-> ChildLast(src[i])], !.forward = FALSE])
MergeSeek(m, k) == FindSmallest([m EXCEPT !.ch = [i \in DOMAIN src |-> ChildSeek(src[i], k)], !.forward = TRUE])

(* Where the other children go when the direction changes.                  *)
AfterKey(i, k) == LET c == ChildSeek(src[i], k) IN IF c.at = k THEN ChildNext(src[i], c) ELSE c
BeforeKey(i, k) == LET c == ChildSeek(src[i], k) IN IF c.at # 0 THEN ChildPrev(src[i], c) ELSE ChildLast(src[i])
Others(m, To(_, _)) == [m EXCEPT !.ch = [i \in DOMAIN @ |-> IF i = m.cur THEN @[i] ELSE To(i, Key(m))]]

MergeNext(m) ==
  LET n == IF m.forward THEN m ELSE Others(m, AfterKey)
  IN  FindSmallest([n EXCEPT !.ch[m.cur] = ChildNext(src[m.cur], @), !.forward = TRUE])
MergePrev(m) ==
  LET n == IF m.forward THEN Others(m, BeforeKey) ELSE m
  IN  FindLargest([n EXCEPT !.ch[m.cur] = ChildPrev(src[m.cur], @), !.forward = FALSE])

-----------------------------------------------------------------------------
(* DBIter: going back, saved is the entry that it shows; skip is a user key *)
(* kept in saved_key_, 0 when that is empty.                                *)
NewDB == [m |-> NewMerging, forward |-> TRUE, valid |-> FALSE, saved |-> 0, skip |-> 0, ok |-> TRUE]
At0(it) == it.m.cur # 0
Here(it) == Key(it.m)
Shown(it) == IF ~it.valid THEN 0 ELSE IF it.forward THEN Here(it) ELSE it.saved

(* ParseKey: whether the entry is one of the snapshot, and the iterator     *)
(* after it has been looked at.                                             *)
Parsed(it) == TypeOf(Here(it)) # Corrupt /\ SequenceOf(Here(it)) <= sequence
Look(it) == [it EXCEPT !.ok = @ /\ TypeOf(Here(it)) # Corrupt]

RECURSIVE NextUserEntry(_, _)
NextUserEntry(it, skipping) ==
  LET l == Look(it)
      u == UserOf(Here(it))
      step == [l EXCEPT !.m = MergeNext(@)]
  IN  IF ~At0(it) THEN [it EXCEPT !.skip = 0, !.valid = FALSE]
      ELSE IF Parsed(it) /\ TypeOf(Here(it)) = Deletion THEN NextUserEntry([step EXCEPT !.skip = u], TRUE)
      ELSE IF Parsed(it) /\ ~(skipping /\ u <= it.skip) THEN [l EXCEPT !.valid = TRUE, !.skip = 0]
      ELSE NextUserEntry(step, skipping)

(* The entries of a user key are met from the oldest to the newest; type is *)
(* that of the last one that the snapshot covers.                           *)
RECURSIVE PrevUserEntry(_, _)
PrevUserEntry(it, type) ==
  LET k == Here(it)
      step == [Look(it) EXCEPT !.m = MergePrev(@)]
      end == IF type = Deletion THEN [it EXCEPT !.valid = FALSE, !.skip = 0, !.saved = 0, !.forward = TRUE]
             ELSE [it EXCEPT !.valid = TRUE]
  IN  IF ~At0(it) THEN end
      ELSE IF ~Parsed(it) THEN PrevUserEntry(step, type)
      ELSE IF type # Deletion /\ UserOf(k) < it.skip THEN end
      ELSE IF TypeOf(k) = Deletion THEN PrevUserEntry([step EXCEPT !.skip = 0, !.saved = 0], Deletion)
      ELSE PrevUserEntry([step EXCEPT !.skip = UserOf(k), !.saved = k], Value)

DBSeek(it, user) ==
  LET m == MergeSeek(it.m, Rank(user, sequence, Value))
      s == [it EXCEPT !.m = m, !.forward = TRUE, !.saved = 0, !.skip = user]
  IN  IF m.cur = 0 THEN [s EXCEPT !.valid = FALSE] ELSE NextUserEntry(s, FALSE)
DBFirst(it) ==
  LET s == [it EXCEPT !.m = MergeFirst(@), !.forward = TRUE, !.saved = 0]
  IN  IF ~At0(s) THEN [s EXCEPT !.valid = FALSE] ELSE NextUserEntry(s, FALSE)
DBLast(it) == PrevUserEntry([it EXCEPT !.m = MergeLast(@), !.forward = FALSE, !.saved = 0], Deletion)

(* Mutant: turning round, before the first entry is taken for the end.      *)
DBNext_AtStart(it) ==
  LET turned == [it EXCEPT !.forward = TRUE, !.m = IF At0(it) THEN MergeNext(@) ELSE @]
  IN  IF it.forward THEN NextUserEntry([it EXCEPT !.skip = UserOf(Here(it))], TRUE)
      ELSE IF ~At0(turned) THEN [turned EXCEPT !.valid = FALSE, !.skip = 0]
      ELSE NextUserEntry(turned, TRUE)

(* Turning round, the merging iterator stands just before the entries of    *)
(* the key shown, or nowhere.                                               *)
DBNext(it) ==
  LET turned == [it EXCEPT !.forward = TRUE, !.m = IF At0(it) THEN MergeNext(@) ELSE MergeFirst(@)]
  IN  IF it.forward THEN NextUserEntry([it EXCEPT !.skip = UserOf(Here(it))], TRUE)
      ELSE IF ~At0(turned) THEN [turned EXCEPT !.valid = FALSE, !.skip = 0]
      ELSE NextUserEntry(turned, TRUE)

RECURSIVE BackPast(_, _)
BackPast(m, user) ==
  LET b == MergePrev(m) IN IF b.cur = 0 \/ UserOf(Key(b)) < user THEN b ELSE BackPast(b, user)

DBPrev(it) ==
  LET user == UserOf(Here(it))
      turned == [it EXCEPT !.m = BackPast(@, user), !.skip = user]
  IN  IF ~it.forward THEN PrevUserEntry(it, Deletion)
      ELSE IF ~At0(turned) THEN [turned EXCEPT !.valid = FALSE, !.skip = 0, !.saved = 0]
      ELSE PrevUserEntry([turned EXCEPT !.forward = FALSE], Deletion)

-----------------------------------------------------------------------------
Newest == IF All = {} THEN 0 ELSE Max({SequenceOf(k) : k \in All})

Init ==
  /\ src \in Sources
  /\ sequence \in Snapshots
  /\ d = NewDB

(* A write made after the iterator: the memtable is shared.                 *)
Add(user, type) ==
  /\ ~Raw /\ Newest < LastSeq /\ sequence <= Newest
  /\ src' = [src EXCEPT ![1][1] = @ \cup {Rank(user, Newest + 1, type)}]
  /\ UNCHANGED <<sequence, d>>

Move(to) == d' = to /\ UNCHANGED <<src, sequence>>
User(To(_)) == ~Raw /\ Move(To(d))
Inner(To(_)) == Raw /\ Move([d EXCEPT !.m = To(@)])

First == User(DBFirst) \/ Inner(MergeFirst)
AtLast == User(DBLast) \/ Inner(MergeLast)
SeekTo(user) == User(LAMBDA it : DBSeek(it, user)) \/ Inner(LAMBDA m : MergeSeek(m, Rank(user, sequence, Value)))
Forward == (d.valid /\ User(DBNext)) \/ (d.m.cur # 0 /\ Inner(MergeNext))
Back == (d.valid /\ User(DBPrev)) \/ (d.m.cur # 0 /\ Inner(MergePrev))

Next ==
  \/ First \/ AtLast \/ Forward \/ Back
  \/ \E user \in Users : SeekTo(user) \/ \E type \in {Deletion, Value} : Add(user, type)
Spec == Init /\ [][Next]_vars

-----------------------------------------------------------------------------
(* What the snapshot holds: for each user key the newest entry it covers.   *)
View ==
  LET covered == {k \in All : TypeOf(k) # Corrupt /\ SequenceOf(k) <= sequence}
      top == {k \in covered : \A j \in covered : UserOf(j) = UserOf(k) => k <= j}
  IN  SetToSortSeq({k \in top : TypeOf(k) = Value}, LAMBDA a, b : a < b)
Position(k, es) == IF k = 0 THEN 0 ELSE IF \E i \in DOMAIN es : es[i] = k THEN CHOOSE i \in DOMAIN es : es[i] = k ELSE -1
UserAtOrPast(k, user) == UserOf(k) >= user
RankAtOrPast(k, user) == k >= Rank(user, sequence, Value)

(* options.h:172, iterator.h: the iterator of a database is the cursor over    *)
(* what its snapshot holds, whatever is written while it is used, and each  *)
(* operation is the cursor's of that name.                                  *)
UserView == INSTANCE Cursor WITH Targets <- Users, AtOrPast <- UserAtOrPast,
  entries <- View, pos <- Position(Shown(d), View)
ShowsSnapshot ==
  /\ UserView!Spec
  /\ [][/\ First => UserView!SeekToFirst
        /\ AtLast => UserView!SeekToLast
        /\ Forward => UserView!NextEntry
        /\ Back => UserView!Prev]_vars

(* What the merging iterator is a cursor over: the entries of all children. *)
Entries == SetToSortSeq(All, LAMBDA a, b : a < b)
Merged == INSTANCE Cursor WITH Targets <- Users, AtOrPast <- RankAtOrPast,
  entries <- Entries, pos <- Position(IF d.m.cur = 0 THEN 0 ELSE Key(d.m), Entries)
=============================================================================
