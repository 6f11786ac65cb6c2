------------------------ MODULE CandidatePartsProofs ------------------------
(***************************************************************************)
(* For any numbers of images, versions, models, failures and runs, every   *)
(* file that image blocking and matching leave is what its name says, and  *)
(* a run that succeeds leaves one part for each shard of its batch.  Bytes *)
(* only get newer: what was read between two looks that both found the     *)
(* recorded version is that version.                                       *)
(***************************************************************************)
EXTENDS CandidateParts, FiniteSetTheorems, TLAPS

-----------------------------------------------------------------------------
(* The inductive invariant.                                                *)

\* A run's rows lag behind the committed ones, and these behind the files.
VersionsOK ==
  /\ \A x \in Image : row[x] <= ver[x] /\ ver[x] <= disk[x]
  /\ revision <= ver[Lost]

\* The rows of a run.
Loaded == {"cache", "generate", "store", "plan", "part", "embed", "write", "recheck", "mark"}
RowsOK ==
  /\ batch \in Seq(Auction) /\ \A x \in ImagesOf(batch) : row[x] # 0
  /\ pc \in Loaded => row[Lost] # 0
  /\ pc \in Loaded \cup {"rows"} => rev # 0

\* The batch has each of its images once, and the snapshot has the paths of all of them.
SelectedOK ==
  /\ \A i, j \in 1..Len(batch) : batch[i] = batch[j] => i = j
  /\ ImagesOf(batch) \subseteq paths

\* What was read of a file is no older than what was seen before it was read, and no newer
\* than the file.
LostOK ==
  /\ pc = "store" => /\ lostEmb.by = model
                     /\ row[Lost] <= lostEmb.of /\ lostEmb.of <= disk[Lost]
  /\ pc \in {"plan", "part", "embed", "write"} => lostEmb = [of |-> row[Lost], by |-> model]

Inside(xs, v) == [x \in Image |-> IF x \in xs THEN v[x] ELSE 0]
ShardOK ==
  pc = "write" => /\ emb = Inside(ImagesOf(Shard(index)), emb)
                  /\ \A x \in ImagesOf(Shard(index)) : row[x] <= emb[x] /\ emb[x] <= disk[x]

FeaturesOK ==
  /\ pc \in {"reuse", "extract", "save"} => fingerprint # 0 /\ fingerprint <= disk[Lost]
  /\ pc = "save" => fingerprint <= prepared /\ prepared <= disk[Lost]
  /\ \A v \in Version : features[v] \in {0, v}

CacheOK == cache # NoCache => cache.emb = [of |-> cache.src, by |-> cache.model]

\* A part is determined by its name.
PartOK(p) ==
  /\ p = [name |-> p.name, emb |-> Inside(ImagesOf(p.name.shard), p.name.vers)]
  /\ p.name.lost.emb = [of |-> p.name.lost.src, by |-> p.name.model]

\* The directory up to the part that is made is this run's.
DirectoryOK ==
  /\ pc \in {"idle", "rows", "cache", "generate", "store", "plan"} => index = 0
  /\ pc \in {"part", "embed", "write"} =>
       /\ index <= PartCount
       /\ \A i \in 0..(index - 1) : \E p \in parts : p.name = Name(i)
       /\ \A p \in parts : p.name.index < index => p.name = Name(p.name.index)
  /\ pc \in {"embed", "write"} => index < PartCount /\ \A p \in parts : p.name.index # index
  /\ pc \in {"recheck", "mark", "blocked"} =>
       {p.name : p \in parts} = {Name(i) : i \in 0..(PartCount - 1)}

IInv ==
  /\ TypeOK /\ VersionsOK /\ RowsOK /\ SelectedOK /\ LostOK /\ ShardOK /\ FeaturesOK /\ CacheOK
  /\ (\A p \in parts : PartOK(p)) /\ DirectoryOK
-----------------------------------------------------------------------------
(* What the statements compute.                                            *)

\* A finite set of ids has an order: an id's place is the number of ids up to it.
LEMMA ByIdOrder ==
  ASSUME NEW xs \in SUBSET Auction
  PROVE  \E s \in [1..Cardinality(xs) -> xs] : \A i, j \in DOMAIN s : i < j => s[i] < s[j]
<1> DEFINE n == Cardinality(xs)
           UpTo(x) == {y \in xs : y <= x}
           place == [x \in xs |-> Cardinality(UpTo(x))]
<1>1. xs \subseteq Nat /\ IsFiniteSet(xs) BY CandidateAssumption, FS_Subset
<1>2. n \in Nat /\ IsFiniteSet(1..n) /\ Cardinality(1..n) = n
  BY <1>1, FS_CardinalityType, FS_Interval
<1>3. ASSUME NEW x \in xs
      PROVE  place[x] \in 1..n
  <2>1. UpTo(x) \in SUBSET xs /\ x \in UpTo(x) BY <1>1
  <2>2. IsFiniteSet(UpTo(x)) /\ Cardinality(UpTo(x)) <= n BY <1>1, <2>1, FS_Subset
  <2>3. Cardinality(UpTo(x)) \in Nat /\ Cardinality(UpTo(x)) # 0
    <3> HIDE DEF UpTo
    <3> QED BY <2>1, <2>2, FS_CardinalityType, FS_EmptySet
  <2> HIDE DEF n, UpTo
  <2> QED BY <1>2, <2>2, <2>3
<1>4. ASSUME NEW x \in xs, NEW y \in xs, x < y
      PROVE  place[x] < place[y]
  <2>0. x \in Nat /\ y \in Nat /\ \A z \in xs : z \in Nat BY <1>1
  <2>a. y \in UpTo(y) /\ y \notin UpTo(x) BY <1>4, <2>0
  <2>b. \A z \in xs : z <= x => z <= y BY <1>4, <2>0
  <2>1. UpTo(x) \in SUBSET UpTo(y) /\ UpTo(y) \in SUBSET xs /\ y \in UpTo(y) /\ y \notin UpTo(x)
    BY <2>a, <2>b
  <2>2. IsFiniteSet(UpTo(y)) BY <1>1, <2>1, FS_Subset
  <2>3. /\ Cardinality(UpTo(x)) <= Cardinality(UpTo(y))
        /\ Cardinality(UpTo(x)) # Cardinality(UpTo(y))
    <3> HIDE DEF UpTo
    <3> QED BY <2>1, <2>2, FS_Subset
  <2>4. place[x] \in 1..n /\ place[y] \in 1..n BY <1>3
  <2>5. place[x] = Cardinality(UpTo(x)) /\ place[y] = Cardinality(UpTo(y)) OBVIOUS
  <2> HIDE DEF n, UpTo, place
  <2> QED BY <1>2, <2>3, <2>4, <2>5
<1> HIDE DEF place
<1>5. place \in [xs -> 1..n]
  <2>1. place = [x \in xs |-> place[x]] BY DEF place
  <2> HIDE DEF n
  <2> QED BY <1>3, <2>1
<1>6. \A x, y \in xs : place[x] = place[y] => x = y
  <2> SUFFICES ASSUME NEW x \in xs, NEW y \in xs, x # y PROVE place[x] # place[y]
    OBVIOUS
  <2>1. x < y \/ y < x BY <1>1
  <2>2. place[x] \in Nat /\ place[y] \in Nat BY <1>2, <1>3
  <2> QED BY <1>4, <2>1, <2>2
<1>7. place \in Injection(xs, 1..n)
  <2> HIDE DEF n
  <2> QED BY <1>5, <1>6 DEF Injection, IsInjective
<1>8. place \in Surjection(xs, 1..n) BY <1>2, <1>7, FS_Injection
<1>9. \A i \in 1..n : \E x \in xs : place[x] = i BY <1>8 DEF Surjection
<1> DEFINE s == [i \in 1..n |-> CHOOSE x \in xs : place[x] = i]
<1>10. \A i \in 1..n : s[i] \in xs /\ place[s[i]] = i BY <1>9
<1>11. s \in [1..n -> xs] /\ DOMAIN s = 1..n
  <2>1. s = [i \in 1..n |-> s[i]] OBVIOUS
  <2> HIDE DEF s, n
  <2> QED BY <1>10, <2>1
<1> HIDE DEF s, n
<1>12. ASSUME NEW i \in 1..n, NEW j \in 1..n, i < j
       PROVE  s[i] < s[j]
  <2>1. s[i] \in Nat /\ s[j] \in Nat BY <1>1, <1>10
  <2>2. ~(s[j] < s[i]) BY <1>2, <1>4, <1>10, <1>12
  <2>3. s[i] # s[j] BY <1>2, <1>10, <1>12
  <2> QED BY <2>1, <2>2, <2>3
<1>13. \A i, j \in DOMAIN s : i < j => s[i] < s[j] BY <1>11, <1>12
<1> QED BY <1>11, <1>13 DEF n

LEMMA ByIdType ==
  ASSUME NEW xs \in SUBSET Auction
  PROVE  ById(xs) \in Seq(xs) /\ ById(xs) \in Seq(Auction) /\ ImagesOf(ById(xs)) \subseteq xs
         /\ Len(ById(xs)) = Cardinality(xs)
<1>1. ById(xs) \in [1..Cardinality(xs) -> xs] BY ByIdOrder DEF ById
<1>2. Cardinality(xs) \in Nat BY CandidateAssumption, FS_Subset, FS_CardinalityType
<1> DEFINE n == Cardinality(xs)
           s == ById(xs)
<1> HIDE DEF n, s
<1>3. s \in [1..n -> xs] /\ n \in Nat BY <1>1, <1>2 DEF s, n
<1>4. s \in Seq(xs) /\ s \in Seq(Auction) /\ Len(s) = n BY <1>3
<1>5. ImagesOf(s) \subseteq xs BY <1>3, <1>4 DEF ImagesOf
<1> QED BY <1>4, <1>5 DEF s, n

LEMMA ByIdDistinct ==
  ASSUME NEW xs \in SUBSET Auction
  PROVE  \A i, j \in 1..Len(ById(xs)) : ById(xs)[i] = ById(xs)[j] => i = j
<1>1. /\ ById(xs) \in [1..Cardinality(xs) -> xs]
      /\ \A i, j \in DOMAIN ById(xs) : i < j => ById(xs)[i] < ById(xs)[j]
  BY ByIdOrder DEF ById
<1>2. Cardinality(xs) \in Nat /\ Len(ById(xs)) = Cardinality(xs)
  BY CandidateAssumption, ByIdType, FS_Subset, FS_CardinalityType
<1>3. \A i \in 1..Len(ById(xs)) : i \in DOMAIN ById(xs) /\ ById(xs)[i] \in Nat
  BY <1>1, <1>2, CandidateAssumption
<1>4. ASSUME NEW i \in 1..Len(ById(xs)), NEW j \in 1..Len(ById(xs)), i < j
      PROVE  ById(xs)[i] # ById(xs)[j]
  <2>1. ById(xs)[i] < ById(xs)[j] BY <1>1, <1>3, <1>4
  <2> QED BY <1>3, <2>1
<1>5. \A i, j \in 1..Len(ById(xs)) : i < j \/ j < i \/ i = j BY <1>2
<1> QED BY <1>4, <1>5

LEMMA PartCountType ==
  ASSUME batch \in Seq(Auction)
  PROVE  PartCount \in Nat /\ (batch = <<>> => PartCount = 0)
<1>1. \A n \in Nat, d \in Nat \ {0} : n \div d \in Nat OBVIOUS
<1>2. \A d \in Nat \ {0} : (0 + d - 1) \div d = 0 OBVIOUS
<1>3. Len(batch) + ShardSize - 1 \in Nat BY CandidateAssumption
<1> QED BY <1>1, <1>2, <1>3, CandidateAssumption DEF PartCount

LEMMA ShardType ==
  ASSUME batch \in Seq(Auction), NEW i \in Nat
  PROVE  Shard(i) \in Seq(Auction) /\ ImagesOf(Shard(i)) \subseteq ImagesOf(batch)
         /\ ImagesOf(Shard(i)) \subseteq Auction
<1> DEFINE m == i * ShardSize
           e == IF (i + 1) * ShardSize < Len(batch) THEN (i + 1) * ShardSize ELSE Len(batch)
<1>1. m \in Nat /\ (i + 1) * ShardSize \in Nat BY CandidateAssumption
<1>2. e \in Nat /\ e <= Len(batch) BY <1>1
<1>3. Shard(i) = SubSeq(batch, m + 1, e) BY DEF Shard
<1> HIDE DEF m, e
<1>4. SubSeq(batch, m + 1, e) \in Seq(Auction) BY <1>1, <1>2
<1>5. \A k \in 1..Len(SubSeq(batch, m + 1, e)) :
         m + k \in 1..Len(batch) /\ SubSeq(batch, m + 1, e)[k] = batch[m + k]
  BY <1>1, <1>2
<1>6. ImagesOf(Shard(i)) \subseteq ImagesOf(batch) BY <1>1, <1>3, <1>5 DEF ImagesOf
<1>7. ImagesOf(batch) \subseteq Auction BY DEF ImagesOf
<1> QED BY <1>3, <1>4, <1>6, <1>7

LEMMA Values ==
  /\ 0 \in 0..MaxVersion /\ 0 \in 0..MaxModel /\ Version \subseteq 0..MaxVersion
  /\ 1 \in Version /\ 1 \in 1..MaxModel
  /\ Auction \subseteq Image /\ Lost \in Image /\ Lost \notin Auction
  /\ NoEmbedding \in Embeddings /\ Unread \in [Image -> 0..MaxVersion]
  /\ Unread \in [Image -> {0}]
BY CandidateAssumption DEF Version, Image, NoEmbedding, Embeddings, Unread

-----------------------------------------------------------------------------
(* Kinds of steps: of scrapers and the operator, the end of a run, and the  *)
(* steps of a run that goes on.                                             *)

Outside == (\E x \in Image : Replace(x) \/ Record(x)) \/ ChangeModel
Ends == pc' = "idle" /\ Reset /\ parts' \in {parts, {}} /\ UNCHANGED <<store, embedded, cache, paths>>

LEMMA Kinds ==
  ASSUME Next
  PROVE  Outside \/ SkipBlocking \/ Ends \/ (pc' # "idle" /\ (Stage \/ Match))
<1> USE DEF Ends, store, files, run, Blocking, Matching, Raise, RaiseAndClear, RaiseAtChange, Clear, Done
<1>1. CASE Stage /\ pc' = "idle"
  <2>1. ReadRevision \/ LoadRows \/ EmbedLost \/ EmbedPart \/ TakePart \/ Mark => pc' # "idle"
    BY DEF ReadRevision, LoadRows, EmbedLost, EmbedPart, TakePart, Mark
  <2>2. CASE CheckLost BY <1>1, <2>2 DEF CheckLost
  <2>3. CASE StoreLost BY <1>1, <2>3 DEF StoreLost
  <2>4. CASE Plan BY <1>1, <2>4 DEF Plan
  <2>5. CASE WritePart BY <1>1, <2>5 DEF WritePart
  <2>6. CASE Close BY <1>1, <2>6 DEF Close
  <2>7. CASE Recheck BY <1>1, <2>7 DEF Recheck
  <2> QED BY <1>1, <2>1, <2>2, <2>3, <2>4, <2>5, <2>6, <2>7 DEF Stage
<1>2. CASE Match /\ pc' = "idle"
  <2>1. CASE StartMatching BY <1>2, <2>1 DEF StartMatching
  <2>2. CASE SkipMatching BY <1>2, <2>2 DEF SkipMatching
  <2>3. Prepare \/ Fingerprint => pc' # "idle" BY DEF Prepare, Fingerprint
  <2>4. CASE Reuse BY <1>2, <2>4 DEF Reuse
  <2>5. CASE Extract BY <1>2, <2>5 DEF Extract
  <2>6. CASE Save BY <1>2, <2>6 DEF Save
  <2> QED BY <1>2, <2>1, <2>2, <2>3, <2>4, <2>5, <2>6 DEF Match
<1>3. CASE Fail BY <1>3 DEF Fail, Fault
<1>4. CASE EmbedLostFails BY <1>4 DEF EmbedLostFails, Fault
<1> QED BY <1>1, <1>2, <1>3, <1>4 DEF Next, Outside

LEMMA StoreFrame ==
  ASSUME SkipBlocking \/ Ends \/ Stage \/ Match
  PROVE  UNCHANGED <<disk, ver, revision, model>>
<1> USE DEF store, Blocking, Matching
<1>1. CASE SkipBlocking BY <1>1 DEF SkipBlocking
<1>2. CASE Ends BY <1>2 DEF Ends
<1>3. CASE Stage
  BY <1>3 DEF Stage, ReadRevision, LoadRows, CheckLost, EmbedLost, StoreLost, Plan, TakePart,
              EmbedPart, WritePart, Close, Recheck, Mark
<1>4. CASE Match
  BY <1>4 DEF Match, StartMatching, SkipMatching, Prepare, Fingerprint, Reuse, Extract, Save
<1> QED BY <1>1, <1>2, <1>3, <1>4

\* A run that goes on keeps its rows.
Reads == ReadRevision \/ LoadRows
LEMMA RunFrame ==
  ASSUME Outside \/ SkipBlocking \/ (pc' # "idle" /\ (Stage \/ Match)), ~Reads
  PROVE  UNCHANGED <<rev, batch, row, forced>>
<1> USE DEF store, files, run, Blocking, Matching, Raise, RaiseAndClear, RaiseAtChange, Done
<1>1. CASE Outside BY <1>1 DEF Outside, Replace, Record, ChangeModel
<1>2. CASE SkipBlocking BY <1>2 DEF SkipBlocking
<1>3. CASE Stage /\ pc' # "idle"
  BY <1>3 DEF Stage, Reads, CheckLost, EmbedLost, StoreLost, Plan, TakePart,
              EmbedPart, WritePart, Close, Recheck, Mark
<1>4. CASE Match /\ pc' # "idle"
  BY <1>4 DEF Match, StartMatching, SkipMatching, Prepare, Fingerprint, Reuse, Extract, Save
<1> QED BY <1>1, <1>2, <1>3, <1>4

-----------------------------------------------------------------------------
(* Versions.                                                               *)

StoreType == /\ disk \in [Image -> Version] /\ ver \in [Image -> Version]
             /\ revision \in 1..MaxVersion /\ model \in 1..MaxModel /\ embedded \subseteq Image

LEMMA Numbers ==
  ASSUME TypeOK
  PROVE  /\ StoreType /\ row \in [Image -> 0..MaxVersion]
         /\ \A x \in Image : disk[x] \in 1..MaxVersion /\ ver[x] \in 1..MaxVersion /\ row[x] \in Nat
BY CandidateAssumption DEF TypeOK, StoreType, Version

LEMMA RowType ==
  ASSUME TypeOK, VersionsOK, Next
  PROVE  row' \in [Image -> 0..MaxVersion] /\ \A x \in Image : row'[x] <= ver[x]
<1>0. MaxVersion \in Nat BY CandidateAssumption
<1>1. CASE Ends
  <2>1. row' = Unread BY <1>1 DEF Ends, Reset
  <2>2. \A x \in Image : Unread[x] = 0 /\ ver[x] \in 1..MaxVersion BY Numbers DEF Unread
  <2>3. \A x \in Image : Unread[x] <= ver[x] BY <2>2, <1>0
  <2> QED BY <2>1, <2>3, Values
<1>2. CASE LoadRows
  <2>1. PICK xs \in SUBSET Auction : row' = [x \in Image |-> IF x \in xs \cup {Lost} THEN ver[x] ELSE 0]
    BY <1>2 DEF LoadRows
  <2>2. ASSUME NEW x \in Image PROVE row'[x] \in 0..MaxVersion /\ row'[x] <= ver[x]
    <3>1. ver[x] \in 1..MaxVersion BY Numbers
    <3>2. row'[x] \in {0, ver[x]} BY <2>1
    <3> QED BY <1>0, <3>1, <3>2
  <2>3. row' = [x \in Image |-> row'[x]] BY <2>1
  <2> QED BY <2>2, <2>3
<1>3. CASE UNCHANGED row BY <1>3, Numbers DEF VersionsOK
<1>4. ReadRevision => UNCHANGED row BY DEF ReadRevision
<1> QED BY <1>1, <1>2, <1>3, <1>4, Kinds, RunFrame DEF Reads

LEMMA VersionsStep ==
  ASSUME TypeOK, RowsOK, VersionsOK, Next
  PROVE  VersionsOK' /\ StoreType'
<1>0. MaxVersion \in Nat /\ MaxModel \in Nat /\ Lost \in Image BY CandidateAssumption, Values
<1>n. /\ StoreType /\ row \in [Image -> 0..MaxVersion]
      /\ \A y \in Image : /\ disk[y] \in Nat /\ ver[y] \in Nat /\ row[y] \in Nat
                           /\ row[y] <= ver[y] /\ ver[y] <= disk[y] /\ disk[y] <= MaxVersion
  BY <1>0, Numbers DEF VersionsOK
<1>r. revision <= ver[Lost] BY DEF VersionsOK
<1>1. ASSUME NEW x \in Image, Replace(x) PROVE VersionsOK' /\ StoreType'
  <2>1. /\ disk[x] < MaxVersion /\ disk' = [disk EXCEPT ![x] = disk[x] + 1]
        /\ UNCHANGED <<ver, revision, model, embedded, row>>
    BY <1>1 DEF Replace, run
  <2>2. disk' \in [Image -> Version] BY <1>0, <1>n, <2>1 DEF StoreType, Version
  <2>3. \A y \in Image : disk[y] <= disk'[y] BY <1>n, <2>1 DEF StoreType
  <2>4. \A y \in Image : disk'[y] \in Nat BY <2>2 DEF Version
  <2>5. \A y \in Image : row[y] <= ver[y] /\ ver[y] <= disk'[y] BY <1>n, <2>3, <2>4
  <2> QED BY <1>n, <1>r, <2>1, <2>2, <2>5 DEF VersionsOK, StoreType
<1>2. ASSUME NEW x \in Image, Record(x) PROVE VersionsOK' /\ StoreType'
  <2>1. /\ ver' = [ver EXCEPT ![x] = disk[x]] /\ ver[x] # disk[x]
        /\ revision' = IF x = Lost THEN revision + 1 ELSE revision
        /\ embedded' = embedded \ {x} /\ UNCHANGED <<disk, model, row>>
    BY <1>2 DEF Record, run
  <2>2. ver' \in [Image -> Version] BY <1>n, <2>1 DEF StoreType
  <2>3. \A y \in Image : ver'[y] = IF y = x THEN disk[y] ELSE ver[y] BY <1>n, <2>1 DEF StoreType
  <2>4. \A y \in Image : row[y] <= ver'[y] /\ ver'[y] <= disk[y] BY <1>n, <2>3
  <2>5. revision' \in 1..MaxVersion /\ revision' <= ver'[Lost]
    <3>0. revision \in Nat /\ 1 <= revision /\ ver'[Lost] <= MaxVersion /\ ver'[Lost] \in Nat
      BY <1>0, <1>n, <2>3 DEF StoreType
    <3>1. CASE x = Lost
      <4>1. revision' = revision + 1 /\ ver'[Lost] = disk[Lost] /\ ver[Lost] < disk[Lost]
        BY <1>n, <2>1, <2>3, <3>1
      <4> QED BY <1>0, <1>n, <1>r, <3>0, <4>1
    <3>2. CASE x # Lost
      <4>1. revision' = revision /\ ver'[Lost] = ver[Lost] BY <1>0, <2>1, <2>3, <3>2
      <4> QED BY <1>0, <1>n, <1>r, <3>0, <4>1
    <3> QED BY <3>1, <3>2
  <2> QED BY <1>n, <2>1, <2>2, <2>4, <2>5 DEF VersionsOK, StoreType
<1>3. CASE ChangeModel
  <2>1. model' = model + 1 /\ model < MaxModel /\ UNCHANGED <<disk, ver, revision, embedded, row>>
    BY <1>3 DEF ChangeModel, run
  <2> QED BY <1>0, <1>n, <1>r, <2>1 DEF VersionsOK, StoreType
<1>4. CASE UNCHANGED <<disk, ver, revision, model>>
  <2>1. embedded' \subseteq Image
    <3>1. CASE Mark
      <4>1. ImagesOf(batch) \subseteq Auction BY DEF RowsOK, ImagesOf
      <4> QED BY <1>n, <3>1, <4>1, Values DEF Mark, StoreType
    <3>2. Mark \/ UNCHANGED embedded \/ \E x \in Image : Record(x)
      BY DEF Next, Replace, ChangeModel, SkipBlocking, Fail, EmbedLostFails, Stage, Match,
             ReadRevision, LoadRows, CheckLost, EmbedLost, StoreLost, Plan, TakePart,
             EmbedPart, WritePart, Close, Recheck, Blocking, Matching,
             StartMatching, SkipMatching, Prepare, Fingerprint, Reuse, Extract, Save
    <3> QED BY <1>n, <3>1, <3>2 DEF Record, StoreType
  <2>2. \A x \in Image : row'[x] <= ver[x] BY RowType
  <2> QED BY <1>4, <1>n, <1>r, <2>1, <2>2 DEF VersionsOK, StoreType
<1> QED BY <1>1, <1>2, <1>3, <1>4, Kinds, StoreFrame DEF Outside

-----------------------------------------------------------------------------
(* Types of what a run has in hand and of the files.                       *)

LEMMA RowsStep ==
  ASSUME TypeOK, RowsOK, Next
  PROVE  RowsOK'
<1>1. CASE Ends
  <2>1. batch' = <<>> /\ pc' = "idle" BY <1>1 DEF Ends, Reset
  <2>2. ImagesOf(batch)' = {} BY <2>1 DEF ImagesOf
  <2> QED BY <2>1, <2>2 DEF RowsOK, Loaded
<1>2. CASE LoadRows
  <2>1. PICK xs \in SUBSET Auction :
          /\ row' = [x \in Image |-> IF x \in xs \cup {Lost} THEN ver[x] ELSE 0]
          /\ batch' = ById(xs)
    BY <1>2 DEF LoadRows
  <2>2. batch' \in Seq(Auction) /\ ImagesOf(batch)' \subseteq xs BY <2>1, ByIdType DEF ImagesOf
  <2>3. \A x \in xs \cup {Lost} : row'[x] # 0 BY <2>1, Values, Numbers
  <2>4. pc = "rows" /\ UNCHANGED rev BY <1>2 DEF LoadRows
  <2> QED BY <2>2, <2>3, <2>4 DEF RowsOK
<1>3. CASE ReadRevision
  <2>1. UNCHANGED <<batch, row>> /\ pc' = "rows" /\ rev' = revision BY <1>3 DEF ReadRevision
  <2>2. revision # 0 BY Numbers, CandidateAssumption DEF StoreType
  <2> QED BY <2>1, <2>2 DEF RowsOK, Loaded, ImagesOf
<1>4. CASE (Outside \/ SkipBlocking) /\ ~Reads
  <2>1. UNCHANGED pc BY <1>4 DEF Outside, Replace, Record, ChangeModel, SkipBlocking
  <2>2. UNCHANGED <<rev, batch, row>> BY <1>4, RunFrame
  <2> QED BY <2>1, <2>2 DEF RowsOK, ImagesOf
<1>5. CASE pc' # "idle" /\ (Stage \/ Match) /\ ~Reads
  <2>1. UNCHANGED <<rev, batch, row>> BY <1>5, RunFrame
  <2>2. pc' \in Loaded => pc \in Loaded
    <3>1. CASE Stage
      BY <1>5, <3>1 DEF Stage, Reads, CheckLost, EmbedLost, StoreLost, Plan, TakePart,
             EmbedPart, WritePart, Close, Recheck, Mark, Loaded
    <3>2. CASE Match
      BY <3>2 DEF Match, StartMatching, SkipMatching, Prepare, Fingerprint, Reuse, Extract, Save,
             Done, Loaded
    <3> QED BY <1>5, <3>1, <3>2
  <2>3. pc' = "rows" => pc = "rows"
    <3>1. CASE Stage
      BY <1>5, <3>1 DEF Stage, Reads, CheckLost, EmbedLost, StoreLost, Plan, TakePart,
             EmbedPart, WritePart, Close, Recheck, Mark, RaiseAndClear, RaiseAtChange, Raise
    <3>2. CASE Match
      BY <3>2 DEF Match, StartMatching, SkipMatching, Prepare, Fingerprint, Reuse, Extract, Save,
             Done
    <3> QED BY <1>5, <3>1, <3>2
  <2> QED BY <2>1, <2>2, <2>3 DEF RowsOK, ImagesOf
<1> QED BY <1>1, <1>2, <1>3, <1>4, <1>5, Kinds DEF Reads

LEMMA SelectedStep ==
  ASSUME Next, SelectedOK
  PROVE  SelectedOK'
<1>1. CASE Ends
  <2>1. batch' = <<>> /\ Len(<<>>) = 0 BY <1>1 DEF Ends, Reset
  <2> QED BY <2>1 DEF SelectedOK, ImagesOf
<1>2. CASE LoadRows
  <2>1. PICK xs \in SUBSET Auction : batch' = ById(xs) /\ paths' = xs
    BY <1>2 DEF LoadRows, WritePaths
  <2>2. ImagesOf(ById(xs)) \subseteq xs BY ByIdType
  <2>3. ImagesOf(batch)' = ImagesOf(ById(xs)) BY <2>1 DEF ImagesOf
  <2> QED BY <2>1, <2>2, <2>3, ByIdDistinct DEF SelectedOK
<1>3. CASE UNCHANGED <<batch, paths>> BY <1>3 DEF SelectedOK, ImagesOf
<1>4. ASSUME ~LoadRows, ~Ends PROVE UNCHANGED <<batch, paths>>
  <2>1. UNCHANGED batch BY <1>4, Kinds, RunFrame DEF Reads, ReadRevision
  <2>2. UNCHANGED paths
    BY <1>4 DEF Next, Replace, Record, ChangeModel, SkipBlocking, Fail, EmbedLostFails, Stage,
           Match, ReadRevision, CheckLost, EmbedLost, StoreLost, Plan, TakePart, EmbedPart,
           WritePart, Close, Recheck, Mark, Matching, files, StartMatching, SkipMatching,
           Prepare, Fingerprint, Reuse, Extract, Save
  <2> QED BY <2>1, <2>2
<1> QED BY <1>1, <1>2, <1>3, <1>4

LEMMA HandType ==
  ASSUME TypeOK, Next
  PROVE  /\ rev' \in 0..MaxVersion /\ forced' \subseteq Image
         /\ lostEmb' \in Embeddings /\ index' \in Nat /\ emb' \in [Image -> 0..MaxVersion]
         /\ prepared' \in 0..MaxVersion /\ fingerprint' \in 0..MaxVersion
<1> DEFINE OK == /\ rev' \in 0..MaxVersion /\ forced' \subseteq Image
                 /\ lostEmb' \in Embeddings /\ index' \in Nat /\ emb' \in [Image -> 0..MaxVersion]
                 /\ prepared' \in 0..MaxVersion /\ fingerprint' \in 0..MaxVersion
<1>0. /\ rev \in 0..MaxVersion /\ forced \subseteq Image
      /\ lostEmb \in Embeddings /\ index \in Nat /\ emb \in [Image -> 0..MaxVersion]
      /\ prepared \in 0..MaxVersion /\ fingerprint \in 0..MaxVersion /\ cache.emb \in Embeddings
  BY DEF TypeOK
<1>1. /\ 0 \in 0..MaxVersion /\ disk[Lost] \in 0..MaxVersion /\ revision \in 0..MaxVersion
      /\ Unread \in [Image -> 0..MaxVersion] /\ NoEmbedding \in Embeddings /\ index + 1 \in Nat
  BY <1>0, Numbers, Values, CandidateAssumption DEF StoreType, Version
<1>2. CASE UNCHANGED run BY <1>0, <1>2 DEF run
<1>3. CASE Ends BY <1>1, <1>3 DEF Ends, Reset
<1>4. CASE ReadRevision BY <1>0, <1>1, <1>4 DEF ReadRevision
<1>5. CASE LoadRows
  <2>1. PICK xs \in SUBSET Auction : forced' = (xs \cup {Lost}) \ embedded BY <1>5 DEF LoadRows
  <2>2. UNCHANGED <<rev, lostEmb, index, emb, prepared, fingerprint>> BY <1>5 DEF LoadRows, Blocking
  <2> QED BY <1>0, <2>1, <2>2, Values
<1>6. CASE CheckLost /\ pc' # "idle"
  <2>1. lostEmb' \in {cache.emb, lostEmb} /\ UNCHANGED <<rev, forced, index, emb, prepared, fingerprint>>
    BY <1>6 DEF CheckLost, RaiseAndClear
  <2> QED BY <1>0, <2>1
<1>7. CASE EmbedLost
  <2>1. Generated \in Embeddings
    BY Numbers, CandidateAssumption, Values DEF Generated, Embeddings, StoreType, Version
  <2>2. lostEmb' = Generated /\ UNCHANGED <<rev, forced, index, emb, prepared, fingerprint>>
    BY <1>7 DEF EmbedLost, Blocking
  <2> QED BY <1>0, <2>1, <2>2
<1>8. CASE TakePart
  <2>1. index' \in {index, index + 1} /\ UNCHANGED <<rev, forced, lostEmb, emb, prepared, fingerprint>>
    BY <1>8 DEF TakePart, Blocking
  <2> QED BY <1>0, <1>1, <2>1
<1>9. CASE EmbedPart
  <2>1. emb' \in [Image -> 0..MaxVersion]
    <3> DEFINE xs == ImagesOf(Shard(index))
    <3>1. emb' = [x \in Image |-> IF x \in xs THEN disk[x] ELSE 0] BY <1>9 DEF EmbedPart
    <3>2. \A x \in Image : disk[x] \in 0..MaxVersion BY Numbers, CandidateAssumption
    <3> HIDE DEF xs
    <3> QED BY <1>1, <3>1, <3>2
  <2>2. UNCHANGED <<rev, forced, lostEmb, index, prepared, fingerprint>> BY <1>9 DEF EmbedPart, Blocking
  <2> QED BY <1>0, <2>1, <2>2
<1>10. CASE WritePart /\ pc' # "idle"
  <2>1. /\ index' = index + 1 /\ emb' = Unread
        /\ UNCHANGED <<rev, forced, lostEmb, prepared, fingerprint>>
    BY <1>10 DEF WritePart, RaiseAndClear, RaiseAtChange, Raise
  <2> QED BY <1>0, <1>1, <2>1
<1>11. CASE Prepare \/ Fingerprint \/ (Extract /\ pc' # "idle")
  <2>1. /\ prepared' \in {prepared, disk[Lost]} /\ fingerprint' \in {fingerprint, disk[Lost]}
        /\ UNCHANGED <<rev, forced, lostEmb, index, emb>>
    BY <1>11 DEF Prepare, Fingerprint, Extract, Matching, Done
  <2> QED BY <1>0, <1>1, <2>1
<1>12. CASE Outside BY <1>2, <1>12 DEF Outside, Replace, Record, ChangeModel
<1>13. CASE SkipBlocking BY <1>2, <1>13 DEF SkipBlocking
<1>14. CASE Stage /\ pc' # "idle"
  <2>1. StoreLost \/ Plan \/ Close \/ Recheck \/ Mark => UNCHANGED run
    BY <1>14 DEF StoreLost, Plan, Close, Recheck, Mark, RaiseAndClear, RaiseAtChange, Raise
  <2> QED BY <1>2, <1>4, <1>5, <1>6, <1>7, <1>8, <1>9, <1>10, <1>14, <2>1 DEF Stage
<1>15. CASE Match /\ pc' # "idle"
  <2>1. StartMatching => UNCHANGED run BY <1>15 DEF StartMatching
  <2>2. ~(SkipMatching \/ Reuse \/ Save) BY <1>15 DEF SkipMatching, Reuse, Save, Done
  <2> QED BY <1>2, <1>11, <1>15, <2>1, <2>2 DEF Match
<1> QED BY <1>3, <1>12, <1>13, <1>14, <1>15, Kinds

LEMMA FilesType ==
  ASSUME TypeOK, RowsOK, VersionsOK, Next
  PROVE  /\ cache' \in [src : 0..MaxVersion, emb : Embeddings, model : 0..MaxModel]
         /\ paths' \subseteq Auction /\ features' \in [Version -> 0..MaxVersion]
<1>0. /\ cache \in [src : 0..MaxVersion, emb : Embeddings, model : 0..MaxModel]
      /\ paths \subseteq Auction /\ features \in [Version -> 0..MaxVersion]
      /\ prepared \in 0..MaxVersion /\ lostEmb \in Embeddings
  BY DEF TypeOK
<1>1. cache' \in [src : 0..MaxVersion, emb : Embeddings, model : 0..MaxModel]
  <2>1. CASE StoreLost
    <3>1. cache' \in {cache, [src |-> row[Lost], emb |-> lostEmb, model |-> model]}
      BY <2>1 DEF StoreLost
    <3>2. row[Lost] \in 0..MaxVersion /\ model \in 0..MaxModel
      BY Numbers, Values, CandidateAssumption DEF StoreType
    <3> QED BY <1>0, <3>1, <3>2
  <2>2. ~StoreLost => UNCHANGED cache
    BY DEF Next, Replace, Record, ChangeModel, SkipBlocking, Fail, EmbedLostFails, Stage, Match,
           ReadRevision, LoadRows, CheckLost, EmbedLost, Plan, TakePart, files,
           EmbedPart, WritePart, Close, Recheck, Mark, Blocking, Matching,
           StartMatching, SkipMatching, Prepare, Fingerprint, Reuse, Extract, Save
  <2> QED BY <1>0, <2>1, <2>2
<1>2. paths' \subseteq Auction
  <2>1. CASE LoadRows BY <2>1 DEF LoadRows, WritePaths
  <2>2. ~LoadRows => UNCHANGED paths
    BY DEF Next, Replace, Record, ChangeModel, SkipBlocking, Fail, EmbedLostFails, Stage, Match,
           ReadRevision, CheckLost, EmbedLost, StoreLost, Plan, TakePart, files,
           EmbedPart, WritePart, Close, Recheck, Mark, Blocking, Matching,
           StartMatching, SkipMatching, Prepare, Fingerprint, Reuse, Extract, Save
  <2> QED BY <1>0, <2>1, <2>2
<1>3. features' \in {features, Kept}
  BY DEF Next, Replace, Record, ChangeModel, SkipBlocking, Fail, EmbedLostFails, Stage, Match,
         ReadRevision, LoadRows, CheckLost, EmbedLost, StoreLost, Plan, TakePart, files,
         EmbedPart, WritePart, Close, Recheck, Mark, Blocking, Matching,
         StartMatching, SkipMatching, Prepare, Fingerprint, Reuse, Extract, Save
<1>4. Kept \in [Version -> 0..MaxVersion] BY <1>0 DEF Kept
<1> QED BY <1>0, <1>1, <1>2, <1>3, <1>4

PCs == {"idle", "rows", "cache", "generate", "store", "plan", "part", "embed", "write",
        "recheck", "mark", "blocked", "prepare", "fingerprint", "reuse", "extract", "save"}

LEMMA ControlType ==
  ASSUME TypeOK, Next
  PROVE  pc' \in PCs /\ faults' \in 0..MaxFaults
<1>0. pc \in PCs /\ faults \in 0..MaxFaults /\ MaxFaults \in Nat
  BY CandidateAssumption DEF TypeOK, PCs
<1>1. UNCHANGED faults \/ (faults < MaxFaults /\ faults' = faults + 1)
  BY DEF Next, Replace, Record, ChangeModel, SkipBlocking, Fail, EmbedLostFails, Stage, Match,
         ReadRevision, LoadRows, CheckLost, EmbedLost, StoreLost, Plan, TakePart, Fault,
         EmbedPart, WritePart, Close, Recheck, Mark, Blocking, Matching,
         StartMatching, SkipMatching, Prepare, Fingerprint, Reuse, Extract, Save
<1>2. pc' \in PCs
  <2>1. CASE Ends BY <2>1 DEF Ends, PCs
  <2>2. CASE Outside \/ SkipBlocking
    BY <1>0, <2>2 DEF Outside, Replace, Record, ChangeModel, SkipBlocking
  <2>3. CASE Stage
    BY <1>0, <2>3 DEF PCs, Stage, ReadRevision, LoadRows, CheckLost, EmbedLost, StoreLost, Plan,
         TakePart, EmbedPart, WritePart, Close, Recheck, Mark, RaiseAndClear, RaiseAtChange, Raise
  <2>4. CASE Match
    BY <1>0, <2>4 DEF PCs, Match, StartMatching, SkipMatching, Prepare, Fingerprint, Reuse, Extract,
         Save, Done
  <2> QED BY <2>1, <2>2, <2>3, <2>4, Kinds
<1> QED BY <1>0, <1>1, <1>2

PartType(p) == /\ p.name.index \in Nat /\ ImagesOf(p.name.shard) \subseteq Auction
               /\ p.name.vers \in [ImagesOf(p.name.shard) -> Version]
               /\ p.name.rev \in 1..MaxVersion /\ p.name.model \in 1..MaxModel
               /\ p.name.lost \in [src : Version, emb : Embeddings]
               /\ p.emb \in [Image -> 0..MaxVersion]

Unchanged == Identified(ImagesOf(Shard(index)))

\* Parts are only added by WritePart, where the second look finds the files unchanged.
LEMMA PartsFrame ==
  ASSUME Next
  PROVE  parts' \subseteq parts \/ (WritePart /\ Unchanged /\ parts' = parts \cup {Part})
<1> USE DEF files, Blocking, Matching, Raise, RaiseAndClear, RaiseAtChange, Clear, Done, Unchanged
<1>1. CASE TakePart
  <2>1. parts' \subseteq parts BY <1>1 DEF TakePart
  <2> QED BY <2>1
<1>2. CASE LoadRows BY <1>2 DEF LoadRows
<1>3. CASE Stage /\ ~TakePart /\ ~LoadRows
  BY <1>3 DEF Stage, ReadRevision, CheckLost, EmbedLost, StoreLost, Plan, EmbedPart, WritePart,
              Close, Recheck, Mark
<1>4. CASE Match
  BY <1>4 DEF Match, StartMatching, SkipMatching, Prepare, Fingerprint, Reuse, Extract, Save
<1>5. CASE Fail \/ EmbedLostFails BY <1>5 DEF Fail, EmbedLostFails
<1>6. CASE Outside \/ SkipBlocking
  BY <1>6 DEF Outside, Replace, Record, ChangeModel, SkipBlocking
<1> QED BY <1>1, <1>2, <1>3, <1>4, <1>5, <1>6 DEF Next, Outside

\* The part that is written has its type, and is what its name says.
LEMMA NewPart ==
  ASSUME TypeOK, VersionsOK, RowsOK, LostOK, ShardOK, WritePart, Unchanged
  PROVE  PartType(Part) /\ PartOK(Part)
<1> DEFINE xs == ImagesOf(Shard(index))
           vers == [x \in xs |-> row[x]]
<1>1. pc = "write" BY DEF WritePart
<1>2. \A x \in xs : disk[x] = row[x] BY DEF Unchanged, Identified
<1>3. index \in Nat BY DEF TypeOK
<1>4. Shard(index) \in Seq(Auction) /\ xs \subseteq ImagesOf(batch) /\ xs \subseteq Auction /\ xs \subseteq Image
  BY <1>3, ShardType, Values DEF RowsOK
<1>5. \A x \in xs : row[x] \in Version
  <2>1. \A x \in xs : row[x] # 0 BY <1>4 DEF RowsOK
  <2> QED BY <1>4, <2>1, Numbers, CandidateAssumption DEF Version, TypeOK
<1>6. vers \in [xs -> Version] BY <1>5
<1>7. lostEmb = [of |-> row[Lost], by |-> model] /\ row[Lost] # 0 /\ rev # 0
  BY <1>1 DEF LostOK, RowsOK, Loaded
<1>8. row[Lost] \in Version /\ rev \in 1..MaxVersion /\ model \in 1..MaxModel /\ lostEmb \in Embeddings
  <2>1. row[Lost] \in 0..MaxVersion /\ rev \in 0..MaxVersion /\ model \in 1..MaxModel /\ lostEmb \in Embeddings
    BY Values DEF TypeOK
  <2> QED BY <1>7, <2>1, CandidateAssumption DEF Version
<1>9. Part = [name |-> Name(index), emb |-> emb] /\ Part.name = Name(index) /\ Part.emb = emb
  BY DEF Part
<1>10. /\ Name(index).index = index /\ Name(index).shard = Shard(index)
       /\ Name(index).vers = vers /\ Name(index).rev = rev /\ Name(index).model = model
       /\ Name(index).lost = [src |-> row[Lost], emb |-> lostEmb]
  <2> HIDE DEF xs
  <2> QED BY DEF Name, LostName, xs
<1>11. emb = Inside(xs, vers)
  <2>1. emb = Inside(xs, emb) /\ \A x \in xs : row[x] <= emb[x] /\ emb[x] <= disk[x]
    BY <1>1 DEF ShardOK
  <2>2. \A x \in xs : row[x] \in Nat /\ emb[x] \in Nat /\ disk[x] \in Nat
    <3>1. emb \in [Image -> 0..MaxVersion] /\ MaxVersion \in Nat BY CandidateAssumption DEF TypeOK
    <3>2. \A x \in Image : row[x] \in Nat /\ disk[x] \in Nat BY Numbers, <3>1
    <3> HIDE DEF xs
    <3> QED BY <1>4, <3>1, <3>2
  <2>3. \A x \in xs : emb[x] = vers[x] BY <1>2, <2>1, <2>2
  <2> HIDE DEF xs, vers
  <2> QED BY <2>1, <2>3 DEF Inside
<1>12. emb \in [Image -> 0..MaxVersion] BY DEF TypeOK
<1> HIDE DEF xs, vers
<1>13. PartType(Part)
  BY <1>3, <1>4, <1>6, <1>8, <1>9, <1>10, <1>12 DEF PartType, xs
<1>14. PartOK(Part)
  <2>1. ImagesOf(Part.name.shard) = xs /\ Part.name.vers = vers BY <1>9, <1>10 DEF xs
  <2>2. Part = [name |-> Part.name, emb |-> Inside(ImagesOf(Part.name.shard), Part.name.vers)]
    BY <1>9, <1>11, <2>1
  <2>3. Part.name.lost.emb = [of |-> Part.name.lost.src, by |-> Part.name.model]
    BY <1>7, <1>9, <1>10
  <2> QED BY <2>2, <2>3 DEF PartOK
<1> QED BY <1>13, <1>14

LEMMA PartsStep ==
  ASSUME TypeOK, VersionsOK, RowsOK, LostOK, ShardOK, \A p \in parts : PartOK(p), Next
  PROVE  \A p \in parts' : PartType(p) /\ PartOK(p)
<1>1. \A p \in parts : PartType(p) /\ PartOK(p) BY DEF TypeOK, PartType
<1> QED BY <1>1, PartsFrame, NewPart

LEMMA TypeStep ==
  ASSUME TypeOK, VersionsOK, RowsOK, LostOK, ShardOK, \A p \in parts : PartOK(p), Next
  PROVE  TypeOK'
<1>1. StoreType' BY VersionsStep
<1>2. /\ rev' \in 0..MaxVersion /\ forced' \subseteq Image
      /\ lostEmb' \in Embeddings /\ index' \in Nat /\ emb' \in [Image -> 0..MaxVersion]
      /\ prepared' \in 0..MaxVersion /\ fingerprint' \in 0..MaxVersion
  BY HandType
<1>3. /\ cache' \in [src : 0..MaxVersion, emb : Embeddings, model : 0..MaxModel]
      /\ paths' \subseteq Auction /\ features' \in [Version -> 0..MaxVersion]
  BY FilesType
<1>4. pc' \in PCs /\ faults' \in 0..MaxFaults BY ControlType
<1>5. row' \in [Image -> 0..MaxVersion] BY RowType
<1>6. ImagesOf(batch)' \subseteq Auction
  <2>1. batch' \in Seq(Auction) BY RowsStep DEF RowsOK
  <2> QED BY <2>1 DEF ImagesOf
<1>7. \A p \in parts' : PartType(p) BY PartsStep
<1> QED BY <1>1, <1>2, <1>3, <1>4, <1>5, <1>6, <1>7 DEF TypeOK, StoreType, PCs, PartType

-----------------------------------------------------------------------------
(* What was read is what was recorded.                                     *)

LEMMA DiskGrows ==
  ASSUME TypeOK, Next
  PROVE  \A x \in Image : disk[x] <= disk'[x] /\ disk'[x] \in Nat /\ disk[x] \in Nat
<1>0. disk \in [Image -> Version] /\ MaxVersion \in Nat BY CandidateAssumption DEF TypeOK
<1>1. CASE UNCHANGED disk BY <1>0, <1>1 DEF Version
<1>2. ASSUME NEW x \in Image, Replace(x)
      PROVE  \A y \in Image : disk[y] <= disk'[y] /\ disk'[y] \in Nat /\ disk[y] \in Nat
  <2>1. disk' = [disk EXCEPT ![x] = disk[x] + 1] BY <1>2 DEF Replace
  <2>2. \A y \in Image : disk[y] \in Nat BY <1>0 DEF Version
  <2>3. \A y \in Image : disk'[y] = IF y = x THEN disk[x] + 1 ELSE disk[y] BY <1>0, <2>1
  <2> QED BY <2>2, <2>3
<1> QED BY <1>1, <1>2, Kinds, StoreFrame DEF Outside, Record, ChangeModel

LEMMA LostStep ==
  ASSUME TypeOK, VersionsOK, RowsOK, LostOK, CacheOK, Next
  PROVE  LostOK'
<1>0. Lost \in Image /\ disk[Lost] <= disk'[Lost] /\ disk'[Lost] \in Nat /\ disk[Lost] \in Nat
      /\ row[Lost] \in Nat /\ row[Lost] <= disk[Lost] /\ lostEmb.of \in Nat /\ lostEmb.by \in Nat
      /\ lostEmb \in Embeddings
  BY DiskGrows, Values, Numbers, CandidateAssumption DEF VersionsOK, TypeOK, Embeddings
<1>1. CASE Ends BY <1>1 DEF Ends, LostOK
<1>2. CASE Outside
  <2>1. UNCHANGED <<pc, row, lostEmb>> /\ (model' = model \/ pc = "idle")
    BY <1>2 DEF Outside, Replace, Record, ChangeModel, run
  <2> QED BY <1>0, <2>1 DEF LostOK
<1>3. CASE SkipBlocking BY <1>3 DEF SkipBlocking, run, store, LostOK
<1>4. CASE Reads BY <1>4 DEF Reads, ReadRevision, LoadRows, LostOK
<1>5. CASE CheckLost /\ pc' # "idle"
  <2>1. pc = "cache" /\ disk[Lost] = row[Lost] /\ UNCHANGED <<row, disk, model>>
    BY <1>5 DEF CheckLost, RaiseAndClear, LostIdentified, Identified, store
  <2>2. CASE Cached
    <3>1. cache.src = row[Lost] /\ cache.model = model BY <2>2 DEF Cached
    <3>2. row[Lost] # 0 BY <2>1 DEF RowsOK, Loaded
    <3>3. cache # NoCache BY <3>1, <3>2 DEF NoCache
    <3>4. cache.emb = [of |-> row[Lost], by |-> model] BY <3>1, <3>3 DEF CacheOK
    <3>5. lostEmb' = cache.emb /\ pc' = "store" BY <1>5, <2>1, <2>2 DEF CheckLost, LostIdentified, Identified
    <3> QED BY <1>0, <2>1, <3>4, <3>5 DEF LostOK
  <2>3. CASE ~Cached
    <3>1. pc' = "generate" BY <2>1, <1>5, <2>3 DEF CheckLost, RaiseAndClear
    <3> QED BY <3>1 DEF LostOK
  <2> QED BY <2>2, <2>3
<1>6. CASE EmbedLost
  <2>1. lostEmb' = [of |-> disk[Lost], by |-> model] /\ pc' = "store" /\ UNCHANGED <<row, disk, model>>
    BY <1>6 DEF EmbedLost, Generated, Blocking, store
  <2> QED BY <1>0, <2>1 DEF LostOK
<1>7. CASE StoreLost /\ pc' # "idle"
  <2>1. /\ pc = "store" /\ pc' = "plan" /\ disk[Lost] = row[Lost]
        /\ UNCHANGED <<row, lostEmb, disk, model>>
    BY <1>7 DEF StoreLost, RaiseAndClear, LostIdentified, Identified, store, run
  <2>2. lostEmb.by = model /\ lostEmb.of = row[Lost] BY <1>0, <2>1 DEF LostOK
  <2>3. lostEmb = [of |-> lostEmb.of, by |-> lostEmb.by] BY <1>0 DEF Embeddings
  <2> QED BY <2>1, <2>2, <2>3 DEF LostOK
<1>8. CASE pc' # "idle" /\ (Plan \/ TakePart \/ EmbedPart \/ WritePart)
  <2>1. /\ pc \in {"plan", "part", "embed", "write"} /\ pc' \in {"part", "embed", "write"}
        /\ UNCHANGED <<row, lostEmb, model>>
    BY <1>8 DEF Plan, TakePart, EmbedPart, WritePart, RaiseAndClear, RaiseAtChange, Raise, Blocking, store, run
  <2> QED BY <2>1 DEF LostOK
<1>9. CASE pc' # "idle" /\ (Close \/ Recheck \/ Mark)
  <2>1. pc' \in {"recheck", "mark", "blocked"}
    BY <1>9 DEF Close, Recheck, Mark, RaiseAndClear, RaiseAtChange, Raise
  <2> QED BY <2>1 DEF LostOK
<1>10. CASE Match
  <2>1. pc' \in {"idle", "prepare", "fingerprint", "reuse", "extract", "save"}
    BY <1>10 DEF Match, StartMatching, SkipMatching, Prepare, Fingerprint, Reuse, Extract, Save, Done
  <2> QED BY <2>1 DEF LostOK
<1> QED BY <1>1, <1>2, <1>3, <1>4, <1>5, <1>6, <1>7, <1>8, <1>9, <1>10, Kinds DEF Stage, Reads

LEMMA ShardStep ==
  ASSUME TypeOK, VersionsOK, RowsOK, ShardOK, Next
  PROVE  ShardOK'
<1> SUFFICES ASSUME pc' = "write"
             PROVE  /\ emb' = Inside(ImagesOf(Shard(index)'), emb')
                    /\ \A x \in ImagesOf(Shard(index)') : row'[x] <= emb'[x] /\ emb'[x] <= disk'[x]
  BY DEF ShardOK, ImagesOf, Inside
<1>1. EmbedPart \/ (Outside /\ pc = "write")
  <2>1. CASE Ends BY <2>1 DEF Ends
  <2>2. CASE Outside \/ SkipBlocking
    BY <2>2 DEF Outside, Replace, Record, ChangeModel, SkipBlocking
  <2>3. CASE Stage
    BY <2>3 DEF Stage, ReadRevision, LoadRows, CheckLost, EmbedLost, StoreLost, Plan,
         TakePart, EmbedPart, WritePart, Close, Recheck, Mark, RaiseAndClear, RaiseAtChange, Raise
  <2>4. CASE Match
    BY <2>4 DEF Match, StartMatching, SkipMatching, Prepare, Fingerprint, Reuse, Extract,
         Save, Done
  <2> QED BY <2>1, <2>2, <2>3, <2>4, Kinds
<1>2. UNCHANGED <<batch, index, row>>
  <2>1. EmbedPart => UNCHANGED <<batch, index, row>> BY DEF EmbedPart
  <2>2. Outside => UNCHANGED <<batch, index, row>> BY DEF Outside, Replace, Record, ChangeModel, run
  <2> QED BY <1>1, <2>1, <2>2
<1>3. Shard(index)' = Shard(index) BY <1>2 DEF Shard
<1> DEFINE xs == ImagesOf(Shard(index))
<1>4. xs \subseteq Image
  BY ShardType, Values DEF RowsOK, TypeOK
<1>5. CASE EmbedPart
  <2>1. emb' = [x \in Image |-> IF x \in xs THEN disk[x] ELSE 0] /\ UNCHANGED disk
    BY <1>5 DEF EmbedPart, Blocking, store
  <2> HIDE DEF xs
  <2>2. \A x \in xs : emb'[x] = disk[x] BY <1>4, <2>1
  <2>3. emb' = Inside(xs, emb') BY <2>1, <2>2 DEF Inside
  <2>4. \A x \in xs : row[x] <= disk[x] /\ disk[x] <= disk[x]
    BY <1>4, Numbers, CandidateAssumption DEF VersionsOK
  <2> QED BY <1>2, <1>3, <2>1, <2>2, <2>3, <2>4 DEF xs
<1>6. CASE Outside /\ pc = "write"
  <2>1. UNCHANGED emb BY <1>6 DEF Outside, Replace, Record, ChangeModel, run
  <2>2. emb = Inside(xs, emb) /\ \A x \in xs : row[x] <= emb[x] /\ emb[x] <= disk[x]
    BY <1>6 DEF ShardOK
  <2>3. \A x \in xs : emb[x] <= disk'[x]
    <3>1. \A x \in xs : emb[x] \in Nat BY <1>4, CandidateAssumption DEF TypeOK
    <3>2. \A x \in xs : disk[x] <= disk'[x] /\ disk'[x] \in Nat /\ disk[x] \in Nat BY <1>4, DiskGrows
    <3> HIDE DEF xs
    <3> QED BY <2>2, <3>1, <3>2
  <2> QED BY <1>2, <1>3, <2>1, <2>2, <2>3
<1> QED BY <1>1, <1>5, <1>6

LEMMA FeaturesStep ==
  ASSUME TypeOK, FeaturesOK, Next
  PROVE  FeaturesOK'
<1>0. /\ disk[Lost] <= disk'[Lost] /\ disk'[Lost] \in Nat /\ disk[Lost] \in Nat /\ disk[Lost] # 0
      /\ fingerprint \in Nat /\ prepared \in Nat
  BY DiskGrows, Values, Numbers, CandidateAssumption DEF TypeOK
<1>1. CASE Save
  <2>1. pc' = "idle" /\ pc = "save" BY <1>1 DEF Save, Done
  <2>2. features' = IF disk[Lost] = fingerprint THEN Kept ELSE features BY <1>1 DEF Save
  <2>3. CASE disk[Lost] = fingerprint
    <3>1. prepared = fingerprint BY <1>0, <2>1, <2>3 DEF FeaturesOK
    <3>2. features' = [features EXCEPT ![fingerprint] = fingerprint] BY <2>2, <2>3, <3>1 DEF Kept
    <3>3. features \in [Version -> 0..MaxVersion] BY DEF TypeOK
    <3>4. \A v \in Version : features'[v] \in {0, v} BY <3>2, <3>3 DEF FeaturesOK
    <3> QED BY <2>1, <3>4 DEF FeaturesOK
  <2>4. CASE disk[Lost] # fingerprint BY <2>1, <2>2, <2>4 DEF FeaturesOK
  <2> QED BY <2>3, <2>4
<1>2. CASE ~Save
  <2>1. UNCHANGED features
    BY <1>2 DEF Next, Replace, Record, ChangeModel, SkipBlocking, Fail, EmbedLostFails, Stage, Match,
         ReadRevision, LoadRows, CheckLost, EmbedLost, StoreLost, Plan, TakePart, files,
         EmbedPart, WritePart, Close, Recheck, Mark, Blocking, Matching,
         StartMatching, SkipMatching, Prepare, Fingerprint, Reuse, Extract
  <2>2. CASE Ends \/ SkipBlocking \/ Stage
    <3>1. pc' \notin {"reuse", "extract", "save"}
      <4>1. Ends => pc' \notin {"reuse", "extract", "save"} BY DEF Ends
      <4>2. SkipBlocking => pc' \notin {"reuse", "extract", "save"} BY DEF SkipBlocking
      <4>3. Stage => pc' \notin {"reuse", "extract", "save"}
        BY DEF Stage, ReadRevision, LoadRows, CheckLost, EmbedLost, StoreLost, Plan,
             TakePart, EmbedPart, WritePart, Close, Recheck, Mark, RaiseAndClear, RaiseAtChange, Raise
      <4> QED BY <2>2, <4>1, <4>2, <4>3
    <3> QED BY <2>1, <3>1 DEF FeaturesOK
  <2>3. CASE Outside
    <3>1. UNCHANGED <<pc, fingerprint, prepared>> BY <2>3 DEF Outside, Replace, Record, ChangeModel, run
    <3>2. fingerprint <= disk[Lost] => fingerprint <= disk'[Lost] BY <1>0
    <3>3. prepared <= disk[Lost] => prepared <= disk'[Lost] BY <1>0
    <3> QED BY <2>1, <3>1, <3>2, <3>3 DEF FeaturesOK
  <2>4. CASE Fingerprint
    <3>1. pc' \in {"reuse", "extract"} /\ fingerprint' = disk[Lost] /\ UNCHANGED disk
      BY <2>4 DEF Fingerprint, Matching, store
    <3> QED BY <1>0, <2>1, <3>1 DEF FeaturesOK
  <2>5. CASE Extract /\ pc' # "idle"
    <3>1. pc = "extract" /\ pc' = "save" /\ prepared' = disk[Lost] /\ UNCHANGED <<fingerprint, disk>>
      BY <2>5 DEF Extract, Done, store
    <3>2. fingerprint # 0 /\ fingerprint <= disk[Lost] BY <3>1 DEF FeaturesOK
    <3>3. fingerprint' # 0 /\ fingerprint' <= disk'[Lost] /\ fingerprint' <= prepared' /\ prepared' <= disk'[Lost]
      BY <1>0, <3>1, <3>2
    <3> QED BY <2>1, <3>1, <3>3 DEF FeaturesOK
  <2>6. CASE pc' # "idle" /\ (StartMatching \/ SkipMatching \/ Prepare \/ Reuse)
    <3>1. pc' \in {"prepare", "fingerprint"}
      BY <2>6 DEF StartMatching, SkipMatching, Prepare, Reuse, Done
    <3> QED BY <2>1, <3>1 DEF FeaturesOK
  <2> QED BY <1>2, <2>2, <2>3, <2>4, <2>5, <2>6, Kinds DEF Match
<1> QED BY <1>1, <1>2

LEMMA CacheStep ==
  ASSUME TypeOK, VersionsOK, LostOK, CacheOK, Next
  PROVE  CacheOK'
<1>1. CASE StoreLost
  <2>1. UNCHANGED cache \/ ( /\ disk[Lost] = row[Lost] /\ pc = "store"
                             /\ cache' = [src |-> row[Lost], emb |-> lostEmb, model |-> model])
    BY <1>1 DEF StoreLost, LostIdentified, Identified
  <2>2. ASSUME disk[Lost] = row[Lost], pc = "store"
        PROVE  lostEmb = [of |-> row[Lost], by |-> model]
    <3>1. lostEmb.by = model /\ row[Lost] <= lostEmb.of /\ lostEmb.of <= disk[Lost] BY <2>2 DEF LostOK
    <3>2. lostEmb \in Embeddings /\ row[Lost] \in Nat BY Numbers, Values DEF TypeOK
    <3>3. lostEmb.of = row[Lost] BY <2>2, <3>1, <3>2, CandidateAssumption DEF Embeddings
    <3>4. lostEmb = [of |-> lostEmb.of, by |-> lostEmb.by] BY <3>2 DEF Embeddings
    <3> QED BY <3>1, <3>3, <3>4
  <2> QED BY <2>1, <2>2 DEF CacheOK
<1>2. CASE ~StoreLost
  <2>1. UNCHANGED cache
    BY <1>2 DEF Next, Replace, Record, ChangeModel, SkipBlocking, Fail, EmbedLostFails, Stage, Match,
           ReadRevision, LoadRows, CheckLost, EmbedLost, Plan, TakePart, files,
           EmbedPart, WritePart, Close, Recheck, Mark, Blocking, Matching,
           StartMatching, SkipMatching, Prepare, Fingerprint, Reuse, Extract, Save
  <2> QED BY <2>1 DEF CacheOK
<1> QED BY <1>1, <1>2

-----------------------------------------------------------------------------
(* The directory.                                                          *)

LEMMA NameFrame ==
  ASSUME UNCHANGED <<rev, batch, row, lostEmb, model>>
  PROVE  (\A i : Name(i)' = Name(i)) /\ PartCount' = PartCount
BY DEF Name, LostName, Shard, ImagesOf, PartCount

LEMMA NameIndex == \A i : Name(i).index = i
BY DEF Name

\* Where this run's parts are and nothing moves, they stay.
LEMMA DirectoryFrame ==
  ASSUME DirectoryOK, UNCHANGED <<rev, batch, row, lostEmb, model, index, parts>>,
         \/ pc' = pc
         \/ pc \in {"idle", "rows", "cache", "generate", "store"}
            /\ pc' \in {"rows", "cache", "generate", "store", "plan"}
         \/ pc = "embed" /\ pc' = "write"
         \/ pc = "recheck" /\ pc' = "mark"
         \/ pc = "mark" /\ pc' = "blocked"
  PROVE  DirectoryOK'
<1>1. (\A i : Name(i)' = Name(i)) /\ PartCount' = PartCount BY NameFrame
<1> HIDE DEF DirectoryOK
<1> QED
  <2> SUFFICES ASSUME DirectoryOK PROVE DirectoryOK' OBVIOUS
  <2>1. pc' \in {"idle", "rows", "cache", "generate", "store", "plan"} => index' = 0
    BY DEF DirectoryOK
  <2>2. pc' \in {"part", "embed", "write"} =>
          /\ index' <= PartCount'
          /\ \A i \in 0..(index' - 1) : \E p \in parts' : p.name = Name(i)'
          /\ \A p \in parts' : p.name.index < index' => p.name = Name(p.name.index)'
    BY <1>1 DEF DirectoryOK
  <2>3. pc' \in {"embed", "write"} => index' < PartCount' /\ \A p \in parts' : p.name.index # index'
    BY <1>1 DEF DirectoryOK
  <2>4. pc' \in {"recheck", "mark", "blocked"} =>
          {p.name : p \in parts'} = {Name(i)' : i \in 0..(PartCount' - 1)}
    <3> SUFFICES ASSUME pc' \in {"recheck", "mark", "blocked"}
                 PROVE  {p.name : p \in parts'} = {Name(i)' : i \in 0..(PartCount' - 1)}
      OBVIOUS
    <3>1. {p.name : p \in parts} = {Name(i) : i \in 0..(PartCount - 1)} BY DEF DirectoryOK
    <3>2. {Name(i)' : i \in 0..(PartCount' - 1)} = {Name(i) : i \in 0..(PartCount - 1)} BY <1>1
    <3> QED BY <3>1, <3>2
  <2> QED BY <2>1, <2>2, <2>3, <2>4 DEF DirectoryOK

LEMMA TakeStep ==
  ASSUME TypeOK, RowsOK, DirectoryOK, TakePart
  PROVE  DirectoryOK'
<1> DEFINE n == Name(index)
<1>1. pc = "part" /\ index < PartCount /\ index \in Nat /\ PartCount \in Nat
  BY PartCountType DEF TakePart, TypeOK, RowsOK
<1>2. PICK fresh \in SUBSET parts :
        /\ parts' = fresh
        /\ \A p \in fresh : p.name.index = index => p.name = n
        /\ \A p \in parts : p.name.index # index => p \in fresh
        /\ IF \E p \in fresh : p.name = n THEN index' = index + 1 /\ pc' = "part"
                                         ELSE pc' = "embed" /\ UNCHANGED index
  <2> DEFINE xs == ImagesOf(Shard(index))
             kept == {p \in parts : p.name.index # index \/ p.name = n}
             fresh == IF xs \cap forced # {} THEN {p \in kept : p.name # n} ELSE kept
  <2>1. /\ parts' = fresh
        /\ IF \E p \in fresh : p.name = n THEN index' = index + 1 /\ pc' = "part"
                                         ELSE pc' = "embed" /\ UNCHANGED index
    BY Zenon DEF TakePart
  <2>2. n.index = index BY NameIndex
  <2> HIDE DEF xs, n
  <2>3. /\ fresh \in SUBSET parts
        /\ \A p \in fresh : p.name.index = index => p.name = n
        /\ \A p \in parts : p.name.index # index => p \in fresh
    BY <2>2
  <2> HIDE DEF fresh
  <2> QED BY <2>1, <2>3
<1>3. UNCHANGED <<rev, batch, row, lostEmb, model>> BY DEF TakePart, Blocking, store
<1>4. (\A i : Name(i)' = Name(i)) /\ PartCount' = PartCount BY <1>3, NameFrame
<1>5. /\ \A i \in 0..(index - 1) : \E p \in parts : p.name = Name(i)
      /\ \A p \in parts : p.name.index < index => p.name = Name(p.name.index)
  BY <1>1 DEF DirectoryOK
<1>6. \A i \in 0..(index - 1) : \E p \in fresh : p.name = Name(i)
  <2> TAKE i \in 0..(index - 1)
  <2>1. PICK p \in parts : p.name = Name(i) BY <1>5
  <2>2. p.name.index # index BY <1>1, <2>1, NameIndex
  <2> QED BY <1>2, <2>1, <2>2
<1>7. \A p \in fresh : p.name.index \in Nat BY <1>2 DEF TypeOK
<1>8. CASE \E p \in fresh : p.name = n
  <2>1. index' = index + 1 /\ pc' = "part" BY <1>2, <1>8
  <2>2. \A i \in 0..(index' - 1) : \E p \in fresh : p.name = Name(i) BY <1>1, <1>6, <1>8, <2>1
  <2>3. \A p \in fresh : p.name.index < index' => p.name = Name(p.name.index)
    <3> TAKE p \in fresh
    <3>1. CASE p.name.index < index BY <1>2, <1>5, <3>1
    <3>2. CASE p.name.index = index BY <1>2, <3>2
    <3> QED BY <1>1, <1>7, <2>1, <3>1, <3>2
  <2>4. index' <= PartCount BY <1>1, <2>1
  <2> QED BY <1>2, <1>4, <2>1, <2>2, <2>3, <2>4 DEF DirectoryOK
<1>9. CASE ~\E p \in fresh : p.name = n
  <2>1. index' = index /\ pc' = "embed" BY <1>2, <1>9
  <2>2. \A p \in fresh : p.name.index # index BY <1>2, <1>9
  <2>3. \A p \in fresh : p.name.index < index => p.name = Name(p.name.index) BY <1>2, <1>5
  <2>4. index <= PartCount BY <1>1
  <2> QED BY <1>1, <1>2, <1>4, <1>6, <2>1, <2>2, <2>3, <2>4 DEF DirectoryOK
<1> QED BY <1>8, <1>9

LEMMA WriteStep ==
  ASSUME TypeOK, RowsOK, DirectoryOK, WritePart, pc' # "idle"
  PROVE  DirectoryOK'
<1>1. /\ pc = "write" /\ pc' = "part" /\ parts' = parts \cup {Part} /\ index' = index + 1
      /\ UNCHANGED <<rev, batch, row, lostEmb, model>>
  BY DEF WritePart, RaiseAndClear, RaiseAtChange, Raise, store
<1>2. (\A i : Name(i)' = Name(i)) /\ PartCount' = PartCount BY <1>1, NameFrame
<1>3. index \in Nat /\ PartCount \in Nat /\ index < PartCount /\ \A p \in parts : p.name.index \in Nat
  BY <1>1, PartCountType DEF TypeOK, RowsOK, DirectoryOK
<1>4. /\ \A i \in 0..(index - 1) : \E p \in parts : p.name = Name(i)
      /\ \A p \in parts : p.name.index < index => p.name = Name(p.name.index)
      /\ \A p \in parts : p.name.index # index
  BY <1>1 DEF DirectoryOK
<1>5. Part.name = Name(index) /\ Part.name.index = index BY NameIndex DEF Part
<1>6. \A i \in 0..(index' - 1) : \E p \in parts' : p.name = Name(i)
  <2> TAKE i \in 0..(index' - 1)
  <2>1. CASE i = index BY <1>1, <1>5, <2>1
  <2>2. CASE i \in 0..(index - 1) BY <1>1, <1>4, <2>2
  <2> QED BY <1>1, <1>3, <2>1, <2>2
<1>7. \A p \in parts' : p.name.index < index' => p.name = Name(p.name.index)
  <2> TAKE p \in parts'
  <2>1. CASE p = Part BY <1>5, <2>1
  <2>2. CASE p \in parts
    <3>1. p.name.index \in Nat /\ p.name.index # index BY <1>3, <1>4, <2>2
    <3> QED BY <1>1, <1>3, <1>4, <2>2, <3>1
  <2> QED BY <1>1, <2>1, <2>2
<1>8. index' <= PartCount BY <1>1, <1>3
<1> QED BY <1>1, <1>2, <1>6, <1>7, <1>8 DEF DirectoryOK

LEMMA CloseStep ==
  ASSUME TypeOK, RowsOK, DirectoryOK, Close, pc' # "idle"
  PROVE  DirectoryOK'
<1>1. /\ pc = "part" /\ pc' = "recheck" /\ index = PartCount
      /\ parts' = {p \in parts : p.name.index < PartCount}
      /\ UNCHANGED <<rev, batch, row, lostEmb, model>>
  BY DEF Close, RaiseAndClear, RaiseAtChange, Raise, store, run
<1>2. (\A i : Name(i)' = Name(i)) /\ PartCount' = PartCount BY <1>1, NameFrame
<1>3. PartCount \in Nat /\ \A p \in parts : p.name.index \in Nat
  BY PartCountType DEF TypeOK, RowsOK
<1>4. /\ \A i \in 0..(PartCount - 1) : \E p \in parts : p.name = Name(i)
      /\ \A p \in parts : p.name.index < PartCount => p.name = Name(p.name.index)
  BY <1>1 DEF DirectoryOK
<1>5. \A i \in 0..(PartCount - 1) : \E p \in parts' : p.name = Name(i)
  <2> TAKE i \in 0..(PartCount - 1)
  <2>1. PICK p \in parts : p.name = Name(i) BY <1>4
  <2>2. p.name.index < PartCount BY <1>3, <2>1, NameIndex
  <2> QED BY <1>1, <2>1, <2>2
<1>6. \A p \in parts' : \E i \in 0..(PartCount - 1) : p.name = Name(i)
  <2> TAKE p \in parts'
  <2>1. p.name = Name(p.name.index) /\ p.name.index \in 0..(PartCount - 1) BY <1>1, <1>3, <1>4
  <2> QED BY <2>1
<1>7. {p.name : p \in parts'} = {Name(i)' : i \in 0..(PartCount' - 1)} BY <1>2, <1>5, <1>6
<1> QED BY <1>1, <1>7 DEF DirectoryOK

LEMMA LoadStep ==
  ASSUME TypeOK, DirectoryOK, LoadRows
  PROVE  DirectoryOK'
<1>1. PICK xs \in SUBSET Auction :
        /\ batch' = ById(xs)
        /\ IF xs = {} THEN parts' = {} /\ pc' = "blocked" ELSE UNCHANGED parts /\ pc' = "cache"
  BY DEF LoadRows, Clear
<1>2. pc = "rows" /\ UNCHANGED index /\ index = 0 BY DEF LoadRows, DirectoryOK
<1>3. CASE xs = {}
  <2>1. Len(batch') = 0 BY <1>1, <1>3, ByIdType, FS_EmptySet
  <2>2. (0 + ShardSize - 1) \div ShardSize = 0 BY CandidateAssumption
  <2>3. PartCount' = 0 BY <2>1, <2>2 DEF PartCount
  <2>4. {Name(i)' : i \in 0..(PartCount' - 1)} = {} BY <2>3
  <2> QED BY <1>1, <1>3, <2>4 DEF DirectoryOK
<1>4. CASE xs # {} BY <1>1, <1>2, <1>4 DEF DirectoryOK
<1> QED BY <1>3, <1>4

LEMMA DirectoryStep ==
  ASSUME TypeOK, RowsOK, DirectoryOK, Next
  PROVE  DirectoryOK'
<1> USE DEF run, store, files, Blocking, RaiseAndClear, RaiseAtChange, Raise
<1>1. CASE Ends BY <1>1 DEF Ends, Reset, DirectoryOK
<1>2. CASE \E x \in Image : Replace(x) \/ Record(x)
  <2>1. UNCHANGED <<rev, batch, row, lostEmb, model, index, parts, pc>> BY <1>2 DEF Replace, Record
  <2> QED BY <2>1, DirectoryFrame
<1>3. CASE ChangeModel \/ SkipBlocking
  <2>1. pc = "idle" /\ UNCHANGED <<index, pc>> BY <1>3 DEF ChangeModel, SkipBlocking
  <2> QED BY <2>1 DEF DirectoryOK
<1>4. CASE ReadRevision
  <2>1. pc = "idle" /\ pc' = "rows" /\ UNCHANGED index BY <1>4 DEF ReadRevision
  <2> QED BY <2>1 DEF DirectoryOK
<1>5. CASE pc' # "idle" /\ (CheckLost \/ EmbedLost \/ StoreLost)
  <2>1. pc \in {"cache", "generate", "store"} /\ pc' \in {"generate", "store", "plan"} /\ UNCHANGED index
    BY <1>5 DEF CheckLost, EmbedLost, StoreLost
  <2> QED BY <2>1 DEF DirectoryOK
<1>6. CASE pc' # "idle" /\ Plan
  <2>1. pc = "plan" /\ pc' = "part" /\ UNCHANGED <<rev, batch, row, lostEmb, model, index, parts>>
    BY <1>6 DEF Plan
  <2>2. index = 0 /\ PartCount \in Nat /\ \A p \in parts : p.name.index \in Nat
    BY <2>1, PartCountType DEF DirectoryOK, TypeOK, RowsOK
  <2>3. PartCount' = PartCount BY <2>1, NameFrame
  <2>4. index' = 0 /\ index' <= PartCount' BY <2>1, <2>2, <2>3
  <2>5. \A p \in parts' : ~(p.name.index < index') BY <2>1, <2>2
  <2>6. 0..(index' - 1) = {} BY <2>4
  <2> QED BY <2>1, <2>4, <2>5, <2>6 DEF DirectoryOK
<1>7. CASE EmbedPart
  <2>1. pc = "embed" /\ pc' = "write" /\ UNCHANGED <<rev, batch, row, lostEmb, model, index, parts>>
    BY <1>7 DEF EmbedPart
  <2> QED BY <2>1, DirectoryFrame
<1>8. CASE pc' # "idle" /\ Recheck
  <2>1. pc = "recheck" /\ pc' = "mark" /\ UNCHANGED <<rev, batch, row, lostEmb, model, index, parts>>
    BY <1>8 DEF Recheck
  <2> QED BY <2>1, DirectoryFrame
<1>9. CASE Mark
  <2>1. pc = "mark" /\ pc' = "blocked" /\ UNCHANGED <<rev, batch, row, lostEmb, model, index, parts>>
    BY <1>9 DEF Mark
  <2> QED BY <2>1, DirectoryFrame
<1>10. CASE Match /\ pc' # "idle"
  <2>1. pc' \in {"prepare", "fingerprint", "reuse", "extract", "save"}
    BY <1>10 DEF Match, StartMatching, SkipMatching, Prepare, Fingerprint, Reuse, Extract, Save, Done
  <2> QED BY <2>1 DEF DirectoryOK
<1> QED BY <1>1, <1>2, <1>3, <1>4, <1>5, <1>6, <1>7, <1>8, <1>9, <1>10, Kinds, LoadStep, TakeStep,
           WriteStep, CloseStep DEF Outside, Stage

-----------------------------------------------------------------------------
(* The theorems.                                                           *)

LEMMA InitInv == Init => IInv
<1> SUFFICES ASSUME Init PROVE IInv OBVIOUS
<1> USE CandidateAssumption, Values
<1>1. /\ disk \in [Image -> Version] /\ ver \in [Image -> Version] /\ embedded \subseteq Image
      /\ \A x \in Image : row[x] <= ver[x] /\ ver[x] <= disk[x]
  BY DEF Init, Unread
<1>2. ver[Lost] = 1 BY DEF Init
<1>3. cache \in [src : 0..MaxVersion, emb : Embeddings, model : 0..MaxModel]
      /\ features \in [Version -> 0..MaxVersion]
  BY DEF Init, NoCache
<1>4. batch \in Seq(Auction) /\ ImagesOf(batch) = {} BY DEF Init, ImagesOf
<1>5. TypeOK
  <2>1. MaxFaults \in Nat /\ 1 \in 1..MaxVersion /\ MaxVersion \in Nat BY DEF Version
  <2> QED BY <1>1, <1>3, <1>4, <2>1 DEF Init, TypeOK
<1>6. VersionsOK BY <1>1, <1>2 DEF Init, VersionsOK
<1>7. FeaturesOK BY DEF Init, FeaturesOK
<1>8. SelectedOK
  <2>1. batch = <<>> /\ Len(<<>>) = 0 BY DEF Init
  <2> QED BY <1>4, <2>1 DEF SelectedOK
<1> QED BY <1>4, <1>5, <1>6, <1>7, <1>8
        DEF Init, IInv, RowsOK, Loaded, LostOK, ShardOK, CacheOK, DirectoryOK

LEMMA NextInv == IInv /\ [Next]_vars => IInv'
<1> SUFFICES ASSUME IInv, [Next]_vars PROVE IInv' OBVIOUS
<1>1. CASE Next
  <2>1. TypeOK' BY <1>1, TypeStep DEF IInv
  <2>2. VersionsOK' BY <1>1, VersionsStep DEF IInv
  <2>3. RowsOK' BY <1>1, RowsStep DEF IInv
  <2>4. LostOK' BY <1>1, LostStep DEF IInv
  <2>5. ShardOK' BY <1>1, ShardStep DEF IInv
  <2>6. FeaturesOK' BY <1>1, FeaturesStep DEF IInv
  <2>7. CacheOK' BY <1>1, CacheStep DEF IInv
  <2>8. (\A p \in parts : PartOK(p))'
    <3>1. \A p \in parts' : PartOK(p) BY <1>1, PartsStep DEF IInv
    <3> QED BY <3>1 DEF PartOK, Inside, ImagesOf
  <2>9. DirectoryOK' BY <1>1, DirectoryStep DEF IInv
  <2>10. SelectedOK' BY <1>1, SelectedStep DEF IInv
  <2> QED BY <2>1, <2>2, <2>3, <2>4, <2>5, <2>6, <2>7, <2>8, <2>9, <2>10 DEF IInv
<1>2. CASE UNCHANGED vars
  <2>1. UNCHANGED <<disk, ver, revision, model, embedded, cache, parts, paths, features, pc, rev,
                    batch, row, forced, lostEmb, index, emb, prepared, fingerprint, faults>>
    BY <1>2 DEF vars, store, files, run
  <2>2. TypeOK' BY <2>1 DEF IInv, TypeOK, ImagesOf
  <2>3. (VersionsOK /\ RowsOK /\ LostOK /\ FeaturesOK /\ CacheOK)'
    BY <2>1 DEF IInv, VersionsOK, RowsOK, LostOK, FeaturesOK, CacheOK, ImagesOf
  <2>4. ShardOK'
    <3>1. Shard(index)' = Shard(index) BY <2>1 DEF Shard
    <3>2. ImagesOf(Shard(index))' = ImagesOf(Shard(index)) BY <3>1 DEF ImagesOf
    <3>3. Inside(ImagesOf(Shard(index)), emb)' = Inside(ImagesOf(Shard(index)), emb)
      BY <2>1, <3>2 DEF Inside
    <3> QED BY <2>1, <3>2, <3>3 DEF IInv, ShardOK
  <2>5. (\A p \in parts : PartOK(p))' BY <2>1 DEF IInv, PartOK, Inside, ImagesOf
  <2>6. DirectoryOK' BY <2>1, DirectoryFrame DEF IInv
  <2>7. SelectedOK' BY <2>1 DEF IInv, SelectedOK, ImagesOf
  <2> QED BY <2>2, <2>3, <2>4, <2>5, <2>6, <2>7 DEF IInv
<1> QED BY <1>1, <1>2

LEMMA Invariance == Spec => []IInv
BY InitInv, NextInv, PTL DEF Spec

\* Every variable has its type, the records of the parts among them.
THEOREM TypeCorrect == Spec => []TypeOK
<1>1. IInv => TypeOK BY DEF IInv
<1> QED BY <1>1, Invariance, PTL

\* A part, its lost embedding, the cached lost embedding and the cached features are what
\* their names and labels say (write_candidate_parts, ensure_lost_embedding_cache,
\* load_or_extract), whenever files are replaced and wherever runs die.
THEOREM FilesAreTrue == Spec => []FilesTellTheTruth
<1>1. IInv => FilesTellTheTruth
  <2> SUFFICES ASSUME IInv PROVE FilesTellTheTruth OBVIOUS
  <2>1. ASSUME NEW p \in parts, NEW x \in ImagesOf(p.name.shard)
        PROVE  p.emb[x] = p.name.vers[x]
    <3> DEFINE xs == ImagesOf(p.name.shard)
               r == [name |-> p.name, emb |-> Inside(xs, p.name.vers)]
    <3>1. p = r BY DEF IInv, PartOK
    <3>2. r.emb = Inside(xs, p.name.vers) OBVIOUS
    <3> HIDE DEF r
    <3>3. p.emb = Inside(xs, p.name.vers) BY <3>1, <3>2
    <3>4. x \in Image BY Values DEF IInv, TypeOK
    <3> QED BY <3>3, <3>4 DEF Inside
  <2>2. \A p \in parts : p.name.lost.emb = [of |-> p.name.lost.src, by |-> p.name.model]
    BY DEF IInv, PartOK
  <2> QED BY <2>1, <2>2 DEF FilesTellTheTruth, IInv, CacheOK, FeaturesOK
<1> QED BY <1>1, Invariance, PTL

-----------------------------------------------------------------------------
(* What blocking leaves when it has succeeded.                             *)

\* A part's place in the directory is its index.
LEMMA PartsByIndex ==
  ASSUME IInv, pc = "blocked"
  PROVE  /\ {p.name : p \in parts} = {Name(i) : i \in 0..(PartCount - 1)} /\ PartCount \in Nat
         /\ \A p \in parts : p.name.index \in 0..(PartCount - 1) /\ p.name = Name(p.name.index)
         /\ \A p, q \in parts : p.name.index = q.name.index => p = q
         /\ \A i \in 0..(PartCount - 1) : \E p \in parts : p.name.index = i
         /\ Cardinality(parts) = PartCount
<1> DEFINE T == 0..(PartCount - 1)
           place == [p \in parts |-> p.name.index]
<1>1. {p.name : p \in parts} = {Name(i) : i \in T} BY DEF IInv, DirectoryOK
<1>2. PartCount \in Nat BY PartCountType DEF IInv, RowsOK
<1>3. IsFiniteSet(T) /\ Cardinality(T) = PartCount BY <1>2, FS_Interval
<1>4. \A p \in parts : p.name.index \in T /\ p.name = Name(p.name.index)
  <2> TAKE p \in parts
  <2>1. PICK i \in T : p.name = Name(i) BY <1>1
  <2> QED BY <2>1, NameIndex
<1>5. \A p, q \in parts : p.name.index = q.name.index => p = q
  <2> SUFFICES ASSUME NEW p \in parts, NEW q \in parts, p.name.index = q.name.index PROVE p = q
    OBVIOUS
  <2>1. p.name = q.name BY <1>4
  <2>2. /\ p = [name |-> p.name, emb |-> Inside(ImagesOf(p.name.shard), p.name.vers)]
        /\ q = [name |-> q.name, emb |-> Inside(ImagesOf(q.name.shard), q.name.vers)]
    BY DEF IInv, PartOK
  <2> QED BY <2>1, <2>2
<1>6. \A i \in T : \E p \in parts : p.name.index = i
  <2> TAKE i \in T
  <2>1. PICK p \in parts : p.name = Name(i) BY <1>1
  <2> QED BY <2>1, NameIndex
<1> HIDE DEF T
<1>7. place \in [parts -> T] BY <1>4
<1>8. \A p \in parts : place[p] = p.name.index OBVIOUS
<1> HIDE DEF place
<1>9. place \in Injection(parts, T) BY <1>5, <1>7, <1>8 DEF Injection, IsInjective
<1>10. place \in Surjection(parts, T) BY <1>6, <1>7, <1>8 DEF Surjection
<1>11. Cardinality(parts) = Cardinality(T) BY <1>3, <1>9, <1>10, FS_Injection
<1> QED BY <1>1, <1>2, <1>3, <1>4, <1>5, <1>6, <1>11 DEF T

\* The parts can be sorted by their names.
LEMMA SortedParts ==
  ASSUME IInv, pc = "blocked"
  PROVE  /\ PartCount \in Nat /\ InOrder \in [1..PartCount -> parts]
         /\ \A i, j \in 1..PartCount : i < j => InOrder[i] # InOrder[j]
<1> DEFINE n == PartCount
           s == [i \in 1..n |-> CHOOSE p \in parts : p.name.index = i - 1]
<1>1. /\ n \in Nat /\ Cardinality(parts) = n
      /\ \A i \in 0..(n - 1) : \E p \in parts : p.name.index = i
  BY PartsByIndex
<1> HIDE DEF n
<1>2. ASSUME NEW i \in 1..n PROVE s[i] \in parts /\ s[i].name.index = i - 1
  <2>1. i - 1 \in 0..(n - 1) BY <1>1
  <2>2. \E p \in parts : p.name.index = i - 1 BY <1>1, <2>1
  <2> QED BY <2>2
<1>3. s \in [1..n -> parts] /\ DOMAIN s = 1..n
  <2>1. s = [i \in 1..n |-> s[i]] OBVIOUS
  <2> HIDE DEF s
  <2> QED BY <1>2, <2>1
<1> HIDE DEF s
<1>4. ASSUME NEW i \in DOMAIN s, NEW j \in DOMAIN s, i < j
      PROVE  s[i] # s[j] /\ s[i].name.index <= s[j].name.index
  <2>1. i \in 1..n /\ j \in 1..n /\ s[i].name.index = i - 1 /\ s[j].name.index = j - 1
    BY <1>2, <1>3
  <2>2. i - 1 # j - 1 /\ i - 1 <= j - 1 BY <1>1, <1>4, <2>1
  <2> QED BY <2>1, <2>2
<1>5. /\ InOrder \in [1..n -> parts]
      /\ \A i, j \in DOMAIN InOrder : i < j => InOrder[i] # InOrder[j]
  BY <1>1, <1>3, <1>4 DEF InOrder
<1> QED BY <1>1, <1>5 DEF n

\* Two places in shards of one size are the same place or have different numbers.
LEMMA Places ==
  ASSUME NEW d \in Nat \ {0}, NEW m \in Nat, NEW n \in Nat, NEW k \in 1..d, NEW l \in 1..d,
         m * d + k = n * d + l
  PROVE  m = n /\ k = l
<1>1. ASSUME NEW a \in Nat, NEW b \in Nat, NEW i \in 1..d, NEW j \in 1..d, a < b
      PROVE  a * d + i < b * d + j
  <2>1. PICK e \in Nat : b = a + 1 + e
    <3>1. b - a - 1 \in Nat /\ b = a + 1 + (b - a - 1) BY <1>1
    <3> QED BY <3>1
  <2>2. b * d = a * d + d + e * d BY <2>1
  <2>3. a * d \in Nat /\ e * d \in Nat BY <1>1
  <2> QED BY <2>2, <2>3
<1>2. m = n
  <2>1. m * d + k \in Nat /\ n * d + l \in Nat OBVIOUS
  <2>2. ~(m < n) /\ ~(n < m) BY <1>1, <2>1
  <2> QED BY <2>2
<1>3. m * d \in Nat OBVIOUS
<1> QED BY <1>2, <1>3

\* The rows of a shard are those of the batch from its place on.
LEMMA ShardAt ==
  ASSUME batch \in Seq(Auction), NEW i \in Nat, NEW k \in DOMAIN Shard(i)
  PROVE  /\ k \in 1..ShardSize /\ i * ShardSize + k \in 1..Len(batch)
         /\ Shard(i)[k] = batch[i * ShardSize + k]
<1> DEFINE m == i * ShardSize
           e == IF (i + 1) * ShardSize < Len(batch) THEN (i + 1) * ShardSize ELSE Len(batch)
<1>1. m \in Nat /\ (i + 1) * ShardSize = m + ShardSize /\ ShardSize \in Nat \ {0}
  BY CandidateAssumption
<1>2. e \in Nat /\ e <= Len(batch) /\ e <= m + ShardSize BY <1>1
<1>3. Shard(i) = SubSeq(batch, m + 1, e) BY DEF Shard
<1> HIDE DEF m, e
<1>4. /\ DOMAIN SubSeq(batch, m + 1, e) = 1..(e - m) \/ DOMAIN SubSeq(batch, m + 1, e) = {}
      /\ \A j \in DOMAIN SubSeq(batch, m + 1, e) : SubSeq(batch, m + 1, e)[j] = batch[m + j]
  BY <1>1, <1>2
<1>5. k \in 1..(e - m) /\ Shard(i)[k] = batch[m + k] BY <1>3, <1>4
<1> QED BY <1>1, <1>2, <1>5 DEF m

\* No image has rows in two places, so those of each are together.
LEMMA RowsAreDistinct ==
  ASSUME IInv, pc = "blocked", NEW r \in Rows(InOrder), NEW t \in Rows(InOrder),
         Id(InOrder, r) = Id(InOrder, t)
  PROVE  r = t
<1> DEFINE s == InOrder
<1>1. /\ PartCount \in Nat /\ s \in [1..PartCount -> parts]
      /\ \A i, j \in 1..PartCount : i < j => s[i] # s[j]
  BY SortedParts
<1> HIDE DEF s
<1>2. ASSUME NEW u \in Rows(s)
      PROVE  /\ u = <<u[1], u[2]>> /\ u[1] \in 1..PartCount /\ s[u[1]] \in parts
             /\ u[2] \in DOMAIN s[u[1]].name.shard
  BY <1>1 DEF Rows
<1>3. ASSUME NEW u \in Rows(s)
      PROVE  /\ s[u[1]].name.index \in Nat /\ u[2] \in 1..ShardSize
             /\ s[u[1]].name.index * ShardSize + u[2] \in 1..Len(batch)
             /\ Id(s, u) = batch[s[u[1]].name.index * ShardSize + u[2]]
  <2> DEFINE i == s[u[1]].name.index
  <2>1. i \in Nat /\ s[u[1]].name = Name(i)
    <3>1. s[u[1]] \in parts BY <1>2
    <3>2. s[u[1]].name.index \in 0..(PartCount - 1) /\ s[u[1]].name = Name(s[u[1]].name.index)
      BY <3>1, PartsByIndex
    <3> QED BY <1>1, <3>2
  <2> HIDE DEF i
  <2>2. s[u[1]].name.shard = Shard(i) BY <2>1 DEF Name
  <2>3. u[2] \in DOMAIN Shard(i) BY <1>2, <2>2
  <2>4. batch \in Seq(Auction) BY DEF IInv, RowsOK
  <2>5. /\ u[2] \in 1..ShardSize /\ i * ShardSize + u[2] \in 1..Len(batch)
        /\ Shard(i)[u[2]] = batch[i * ShardSize + u[2]]
    BY <2>1, <2>3, <2>4, ShardAt
  <2>6. Id(s, u) = Shard(i)[u[2]] BY <2>2 DEF Id
  <2> QED BY <2>1, <2>5, <2>6 DEF i
<1>4. r \in Rows(s) /\ t \in Rows(s) /\ Id(s, r) = Id(s, t) BY DEF s
<1>5. s[r[1]].name.index * ShardSize + r[2] = s[t[1]].name.index * ShardSize + t[2]
  BY <1>3, <1>4 DEF IInv, SelectedOK
<1>6. s[r[1]].name.index = s[t[1]].name.index /\ r[2] = t[2]
  <2>1. /\ s[r[1]].name.index \in Nat /\ s[t[1]].name.index \in Nat
        /\ r[2] \in 1..ShardSize /\ t[2] \in 1..ShardSize /\ ShardSize \in Nat \ {0}
    BY <1>3, <1>4, CandidateAssumption
  <2> DEFINE m == s[r[1]].name.index
             n == s[t[1]].name.index
             k == r[2]
             l == t[2]
  <2> HIDE DEF m, n, k, l
  <2>2. /\ m \in Nat /\ n \in Nat /\ k \in 1..ShardSize /\ l \in 1..ShardSize
        /\ m * ShardSize + k = n * ShardSize + l
    BY <1>5, <2>1 DEF m, n, k, l
  <2>3. m = n /\ k = l BY <2>1, <2>2, Places
  <2> QED BY <2>3 DEF m, n, k, l
<1>7. s[r[1]] = s[t[1]] BY <1>2, <1>4, <1>6, PartsByIndex
<1>8. r[1] \in 1..PartCount /\ t[1] \in 1..PartCount BY <1>2, <1>4
<1>9. ~(r[1] < t[1]) /\ ~(t[1] < r[1]) BY <1>1, <1>7, <1>8
<1>10. r[1] = t[1] BY <1>1, <1>8, <1>9
<1> QED BY <1>2, <1>4, <1>6, <1>10

\* When blocking has succeeded the directory holds exactly one part for each shard of its
\* batch (TakePart, WritePart, Close), whatever earlier runs have left there, and the matcher
\* meets none of what it raises at: one revision, one version and one place of every image,
\* and a path for each.
THEOREM DirectoryIsExact == Spec => []BlockedIsExact
<1>1. ASSUME IInv, pc = "blocked" PROVE PartsOfBatch /\ Readable
  <2>1. /\ {p.name : p \in parts} = {Name(i) : i \in 0..(PartCount - 1)} /\ PartCount \in Nat
        /\ \A p \in parts : p.name.index \in 0..(PartCount - 1) /\ p.name = Name(p.name.index)
        /\ Cardinality(parts) = PartCount
    BY <1>1, PartsByIndex
  <2>2. PartsOfBatch BY <2>1 DEF PartsOfBatch
  <2>3. ASSUME NEW p \in parts
        PROVE  /\ p.name.rev = rev /\ ImagesOf(p.name.shard) \subseteq ImagesOf(batch)
               /\ \A x \in ImagesOf(p.name.shard) : p.name.vers[x] = row[x]
    <3> DEFINE i == p.name.index
    <3>1. i \in Nat /\ p.name = Name(i) BY <2>1
    <3> HIDE DEF i
    <3>2. /\ p.name.rev = rev /\ p.name.shard = Shard(i)
          /\ p.name.vers = [x \in ImagesOf(Shard(i)) |-> row[x]]
      BY <3>1 DEF Name
    <3>3. ImagesOf(Shard(i)) \subseteq ImagesOf(batch) BY <1>1, <3>1, ShardType DEF IInv, RowsOK
    <3> QED BY <3>2, <3>3
  <2>4. PathsKnown BY <1>1, <2>3 DEF PathsKnown, IInv, SelectedOK
  <2>5. ASSUME NEW r \in Rows(InOrder), NEW t \in Rows(InOrder), NEW u \in Rows(InOrder),
               Before(r, t), Before(t, u), Id(InOrder, r) = Id(InOrder, u)
        PROVE  Id(InOrder, t) = Id(InOrder, r)
    <3>1. r = u BY <1>1, <2>5, RowsAreDistinct
    <3>2. PartCount \in Nat /\ InOrder \in [1..PartCount -> parts] BY <1>1, SortedParts
    <3>3. \A v \in Rows(InOrder) : v[1] \in 1..PartCount /\ v[2] \in DOMAIN InOrder[v[1]].name.shard
      BY <3>2 DEF Rows
    <3>4. \A v \in Rows(InOrder) : v[1] \in Nat /\ v[2] \in Nat
      <4> TAKE v \in Rows(InOrder)
      <4>1. InOrder[v[1]] \in parts BY <3>2, <3>3
      <4>2. PICK i \in Nat : InOrder[v[1]].name = Name(i) BY <2>1, <4>1
      <4>3. v[2] \in DOMAIN Shard(i) BY <3>3, <4>2 DEF Name
      <4> QED BY <1>1, <3>2, <3>3, <4>3, ShardAt, CandidateAssumption DEF IInv, RowsOK
    <3>5. ~(Before(r, t) /\ Before(t, r)) BY <3>4 DEF Before
    <3> QED BY <2>5, <3>1, <3>5
  <2>6. Readable BY <2>3, <2>4, <2>5 DEF Readable
  <2> QED BY <2>2, <2>6
<1>2. IInv => BlockedIsExact BY <1>1 DEF BlockedIsExact
<1> QED BY <1>2, Invariance, PTL
=============================================================================
