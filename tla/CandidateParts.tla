--------------------------- MODULE CandidateParts ---------------------------
(***************************************************************************)
(* The files that image blocking leaves for image matching: the cache of   *)
(* lost embeddings, the candidate parts, which are named by all that they  *)
(* were computed from and taken over by a later run when their name is the *)
(* same, and the matcher's cache of features of lost images.               *)
(*                                                                         *)
(* A run reads the database once and the image files again and again,      *)
(* while scrapers replace files and record them; it may raise, or die,     *)
(* between any two of its steps and leaves its files behind.  The bytes of *)
(* an image are a version number, which is also their digest and their     *)
(* stat signature; the lost images are one image.  An embedding is the     *)
(* version of the bytes that were read for it.  Temporary files are left   *)
(* out: no reader looks at them.                                           *)
(***************************************************************************)
EXTENDS Integers, Sequences, FiniteSets

CONSTANTS
  Auction,     \* ids of auction images
  Lost,        \* the id of the lost image
  ShardSize,   \* --candidate-shard-auction-images
  MaxVersion,  \* bound: how often an image is replaced
  MaxModel,    \* bound: how often the configured model changes
  MaxFaults    \* bound: deaths and failing steps

ASSUME CandidateAssumption ==
  /\ Auction \subseteq Nat /\ IsFiniteSet(Auction) /\ Lost \in Nat \ Auction
  /\ ShardSize \in Nat \ {0} /\ MaxVersion \in Nat \ {0} /\ MaxModel \in Nat \ {0}
  /\ MaxFaults \in Nat

Image == Auction \cup {Lost}
Version == 1..MaxVersion
Unread == [x \in Image |-> 0]

VARIABLES
  \* --- the image store and the committed rows
  disk,      \* version of the bytes at an image's path
  ver,       \* content_version, with its digest
  embedded,  \* images with is_embedded = true
  revision,  \* lost_content_revision
  model,     \* the configured DINOv3 model
  \* --- files of the pipeline
  cache,     \* the lost embedding cache
  parts,     \* the candidate parts
  paths,     \* ids in the snapshot of auction image paths
  features,  \* per digest, the bytes behind the cached features of the lost image
  \* --- the process
  pc, rev, batch, row, forced,
  lostEmb,   \* the lost embedding in hand: of which bytes, by which model
  index,     \* the part that is made
  emb,       \* bytes behind the embeddings of its images
  prepared, fingerprint,
  faults     \* bound

store == <<disk, ver, revision, model>>
files == <<cache, parts, paths, features>>
run   == <<rev, batch, row, forced, lostEmb, index, emb, prepared, fingerprint>>
vars  == <<store, embedded, files, pc, run, faults>>

NoEmbedding == [of |-> 0, by |-> 0]
NoCache == [src |-> 0, emb |-> NoEmbedding, model |-> 0]

Init ==
  /\ disk = [x \in Image |-> 1] /\ ver = disk /\ embedded = {} /\ revision = 1 /\ model = 1
  /\ cache = NoCache /\ parts = {} /\ paths = {} /\ features = [v \in Version |-> 0]
  /\ pc = "idle" /\ rev = 0 /\ batch = <<>> /\ row = Unread /\ forced = {}
  /\ lostEmb = NoEmbedding /\ index = 0 /\ emb = Unread /\ prepared = 0 /\ fingerprint = 0
  /\ faults = 0

-----------------------------------------------------------------------------
(* Scrapers and the operator.                                              *)

Replace(x) ==
  /\ disk[x] < MaxVersion
  /\ disk' = [disk EXCEPT ![x] = @ + 1]
  /\ UNCHANGED <<ver, revision, model, embedded, files, pc, run, faults>>

\* The new digest is recorded; the triggers clear is_embedded, and a lost image
\* advances the revision.
Record(x) ==
  /\ ver[x] # disk[x]
  /\ ver' = [ver EXCEPT ![x] = disk[x]]
  /\ embedded' = embedded \ {x}
  /\ revision' = IF x = Lost THEN revision + 1 ELSE revision
  /\ UNCHANGED <<disk, model, files, pc, run, faults>>

ChangeModel ==
  /\ pc = "idle" /\ model < MaxModel
  /\ model' = model + 1
  /\ UNCHANGED <<disk, ver, revision, embedded, files, pc, run, faults>>

-----------------------------------------------------------------------------
(* The shards of a batch and the names of their parts.                     *)

PartCount == (Len(batch) + ShardSize - 1) \div ShardSize
Shard(i) == SubSeq(batch, i * ShardSize + 1, IF (i + 1) * ShardSize < Len(batch)
                                             THEN (i + 1) * ShardSize ELSE Len(batch))
ImagesOf(shard) == {shard[k] : k \in 1..Len(shard)}

\* The lost images a part was ranked against; an embedding of theirs by another model has
\* another digest.
LostName == [src |-> row[Lost], emb |-> lostEmb]

\* What the digest in a part's name covers.
Name(i) ==
  [index |-> i, shard |-> Shard(i), vers |-> [x \in ImagesOf(Shard(i)) |-> row[x]],
   lost |-> LostName, rev |-> rev, model |-> model]

\* The bytes still have the digest of the row.
Identified(xs) == \A x \in xs : disk[x] = row[x]
LostIdentified == Identified({Lost})

Reset ==
  /\ rev' = 0 /\ batch' = <<>> /\ row' = Unread /\ forced' = {} /\ lostEmb' = NoEmbedding
  /\ index' = 0 /\ emb' = Unread /\ prepared' = 0 /\ fingerprint' = 0

\* clear_candidate_parts.
Clear == parts' = {}

\* A step that raises; the parts of this and of earlier runs stay or are cleared.
Raise == pc' = "idle" /\ Reset /\ UNCHANGED parts
RaiseAndClear == pc' = "idle" /\ Reset /\ Clear

\* A file has changed since the first look: its row's digest says so, and the parts stay, or,
\* where the row has none, the comparison of the two looks, and they go.
RaiseAtChange == Raise \/ RaiseAndClear

Blocking == <<store, embedded, features, prepared, fingerprint>>

-----------------------------------------------------------------------------
(* Image blocking.                                                         *)

\* Nothing is pending.
SkipBlocking ==
  /\ pc = "idle" /\ parts # {}
  /\ Clear
  /\ UNCHANGED <<store, embedded, cache, paths, features, pc, run, faults>>

ReadRevision ==
  /\ pc = "idle"
  /\ rev' = revision
  /\ pc' = "rows"
  /\ UNCHANGED <<store, embedded, files, batch, row, forced, lostEmb, index, emb,
                 prepared, fingerprint, faults>>

\* write_image_files_parquet.
WritePaths(xs) == paths' = xs

\* ORDER BY.
ById(xs) == CHOOSE s \in [1..Cardinality(xs) -> xs] :
              \A i, j \in DOMAIN s : i < j => s[i] < s[j]

\* The pending images that can be decoded, in the order of their ids, at most one batch
\* of them; then the snapshot of their paths.
LoadRows ==
  /\ pc = "rows"
  /\ \E xs \in SUBSET Auction :
       /\ batch' = ById(xs)
       /\ row' = [x \in Image |-> IF x \in xs \cup {Lost} THEN ver[x] ELSE 0]
       /\ forced' = (xs \cup {Lost}) \ embedded
       /\ WritePaths(xs)
       /\ IF xs = {} THEN Clear /\ pc' = "blocked" ELSE UNCHANGED parts /\ pc' = "cache"
  /\ UNCHANGED <<Blocking, cache, rev, lostEmb, index, emb, faults>>

\* _valid_cached_embeddings, without what the database has invalidated.
Cached == cache.src = row[Lost] /\ cache.model = model /\ Lost \notin forced

\* _generate_embeddings: the model reads the file.
Generated == [of |-> disk[Lost], by |-> model]

\* ensure_lost_embedding_cache: the identities, and what the cache has of them.
CheckLost ==
  /\ pc = "cache"
  /\ IF LostIdentified
     THEN /\ lostEmb' = IF Cached THEN cache.emb ELSE lostEmb
          /\ pc' = IF Cached THEN "store" ELSE "generate"
          /\ UNCHANGED <<parts, rev, batch, row, forced, index, emb, prepared, fingerprint>>
     ELSE RaiseAndClear
  /\ UNCHANGED <<store, embedded, cache, paths, features, faults>>

\* The embeddings that are missing, once the model is loaded.
EmbedLost ==
  /\ pc = "generate"
  /\ lostEmb' = Generated
  /\ pc' = "store"
  /\ UNCHANGED <<Blocking, files, rev, batch, row, forced, index, emb, faults>>

\* ... and the rest: a second look at the file, and the cache is replaced.
StoreLost ==
  /\ pc = "store"
  /\ IF LostIdentified
     THEN /\ cache' = [src |-> row[Lost], emb |-> lostEmb, model |-> model]
          /\ pc' = "plan"
          /\ UNCHANGED <<parts, run>>
     ELSE RaiseAndClear /\ UNCHANGED cache
  /\ UNCHANGED <<store, embedded, paths, features, faults>>

\* write_candidate_parts up to its loop.
Plan ==
  /\ pc = "plan"
  /\ IF Identified(ImagesOf(batch))
     THEN pc' = "part" /\ UNCHANGED <<parts, run>>
     ELSE RaiseAndClear
  /\ UNCHANGED <<store, embedded, cache, paths, features, faults>>

\* The loop: other parts of this index go, and this one too if the database has
\* invalidated one of its images; a part that is left is taken over.
TakePart ==
  /\ pc = "part" /\ index < PartCount
  /\ LET xs == ImagesOf(Shard(index))
         kept == {p \in parts : p.name.index # index \/ p.name = Name(index)}
         fresh == IF xs \cap forced # {} THEN {p \in kept : p.name # Name(index)} ELSE kept
     IN /\ parts' = fresh
        /\ IF \E p \in fresh : p.name = Name(index)
           THEN index' = index + 1 /\ pc' = "part"
           ELSE pc' = "embed" /\ UNCHANGED index
  /\ UNCHANGED <<Blocking, cache, paths, rev, batch, row, forced, lostEmb, emb, faults>>

\* generate_embeddings_batch and topk_cosine_similarity.
EmbedPart ==
  /\ pc = "embed"
  /\ emb' = [x \in Image |-> IF x \in ImagesOf(Shard(index)) THEN disk[x] ELSE 0]
  /\ pc' = "write"
  /\ UNCHANGED <<Blocking, files, rev, batch, row, forced, lostEmb, index, faults>>

Part == [name |-> Name(index), emb |-> emb]

\* Mutant: the files are looked at once, before they are embedded.
WritePartUnseen ==
  /\ pc = "write"
  /\ parts' = parts \cup {Part}
  /\ index' = index + 1 /\ emb' = Unread
  /\ pc' = "part"
  /\ UNCHANGED <<Blocking, cache, paths, rev, batch, row, forced, lostEmb, faults>>

\* A second look at the files, and the part is moved to its name.
WritePart ==
  /\ pc = "write"
  /\ IF Identified(ImagesOf(Shard(index)))
     THEN /\ parts' = parts \cup {Part}
          /\ index' = index + 1 /\ emb' = Unread
          /\ pc' = "part"
          /\ UNCHANGED <<rev, batch, row, forced, lostEmb, prepared, fingerprint>>
     ELSE RaiseAtChange
  /\ UNCHANGED <<store, embedded, cache, paths, features, faults>>

\* Mutant: parts past the last one stay.
CloseShort ==
  /\ pc = "part" /\ index = PartCount
  /\ IF Identified(ImagesOf(batch))
     THEN pc' = "recheck" /\ UNCHANGED <<parts, run>>
     ELSE RaiseAtChange
  /\ UNCHANGED <<store, embedded, cache, paths, features, faults>>

\* After the last part: every file once more, and the parts past it are removed.
Close ==
  /\ pc = "part" /\ index = PartCount
  /\ IF Identified(ImagesOf(batch))
     THEN /\ parts' = {p \in parts : p.name.index < PartCount}
          /\ pc' = "recheck" /\ UNCHANGED run
     ELSE RaiseAtChange
  /\ UNCHANGED <<store, embedded, cache, paths, features, faults>>

\* run_image_blocking: the lost files once more.
Recheck ==
  /\ pc = "recheck"
  /\ IF LostIdentified THEN pc' = "mark" /\ UNCHANGED <<parts, run>> ELSE RaiseAtChange
  /\ UNCHANGED <<store, embedded, cache, paths, features, faults>>

\* mark_image_files_embedded.
Mark ==
  /\ pc = "mark"
  /\ embedded' = embedded \cup {x \in ImagesOf(batch) \cup {Lost} : ver[x] = row[x]}
  /\ pc' = "blocked"
  /\ UNCHANGED <<store, files, run, faults>>

-----------------------------------------------------------------------------
(* Image matching, after blocking or, by hand, after a run that failed.    *)

\* The parts in the order of their names: by index, then as their digests fall.
InOrder ==
  CHOOSE s \in [1..Cardinality(parts) -> parts] :
    \A i, j \in DOMAIN s : i < j => s[i] # s[j] /\ s[i].name.index <= s[j].name.index

\* The rows of parts in an order, by part and row, and the auction image of a row.
Rows(s) == UNION {{i} \X DOMAIN s[i].name.shard : i \in DOMAIN s}
Before(r, t) == r[1] < t[1] \/ (r[1] = t[1] /\ r[2] < t[2])
Id(s, r) == s[r[1]].name.shard[r[2]]

\* _lookup_path.
PathsKnown == \A p \in parts : ImagesOf(p.name.shard) \subseteq paths

\* _iter_rankings: what it does not raise at.
Readable ==
  /\ \A p, q \in parts : p.name.rev = q.name.rev
  /\ \A p, q \in parts : \A x \in ImagesOf(p.name.shard) \cap ImagesOf(q.name.shard) :
       p.name.vers[x] = q.name.vers[x]
  /\ LET s == InOrder
     IN  \A r, t, u \in Rows(s) :
           Before(r, t) /\ Before(t, u) /\ Id(s, r) = Id(s, u) => Id(s, t) = Id(s, r)
  /\ PathsKnown

Matching == <<store, embedded, cache, parts, paths, rev, batch, row, forced, lostEmb, index, emb>>

\* The file that is named by the digest of the bytes and all that configures the extractor.
HasFeatures(v) == features[v] # 0

\* The preflight: without features of the bytes that are there, the image is given to the
\* threads that prepare images.
StartMatching ==
  /\ pc \in {"idle", "blocked"}
  /\ parts # {}
  /\ IF Readable
     THEN /\ pc' = IF HasFeatures(disk[Lost]) THEN "fingerprint" ELSE "prepare"
          /\ UNCHANGED run
     ELSE pc' = "idle" /\ Reset
  /\ UNCHANGED <<store, embedded, files, faults>>

\* There is no candidate.
SkipMatching ==
  /\ pc = "blocked" /\ parts = {}
  /\ pc' = "idle" /\ Reset
  /\ UNCHANGED <<store, embedded, files, faults>>

\* prepare_image, while the auction image's features are extracted.
Prepare ==
  /\ pc = "prepare"
  /\ prepared' = disk[Lost]
  /\ pc' = "fingerprint"
  /\ UNCHANGED <<Matching, features, fingerprint, faults>>

\* load_or_extract: the digest of the bytes, and the features that are cached for it.
Fingerprint ==
  /\ pc = "fingerprint"
  /\ fingerprint' = disk[Lost]
  /\ pc' = IF HasFeatures(disk[Lost]) THEN "reuse" ELSE "extract"
  /\ UNCHANGED <<Matching, features, prepared, faults>>

Done == pc' = "idle" /\ Reset

\* The cached features, if the file is still the same; otherwise the pair fails.
Reuse ==
  /\ pc = "reuse"
  /\ Done
  /\ UNCHANGED <<store, embedded, files, faults>>

\* extract_prepared, of the pixels prepared earlier or read now.
Extract ==
  /\ pc = "extract"
  /\ IF prepared \in {0, disk[Lost]}
     THEN /\ prepared' = disk[Lost]
          /\ pc' = "save"
          /\ UNCHANGED <<rev, batch, row, forced, lostEmb, index, emb, fingerprint>>
     ELSE Done
  /\ UNCHANGED <<store, embedded, files, faults>>

\* _write_feature_cache_atomic: the file of this name is replaced as a whole.
Kept == [features EXCEPT ![fingerprint] = prepared]

\* The features are kept under the digest that was read first, if it still holds.
Save ==
  /\ pc = "save"
  /\ features' = IF disk[Lost] = fingerprint THEN Kept ELSE features
  /\ Done
  /\ UNCHANGED <<store, embedded, cache, parts, paths, faults>>

-----------------------------------------------------------------------------
(* Failures.                                                               *)

Fault == faults < MaxFaults /\ faults' = faults + 1

\* The process is killed, or one of its calls raises where nothing is cleared: the model
\* cannot be loaded, it runs out of memory, the database is away.
Fail ==
  /\ pc # "idle" /\ Fault
  /\ Raise
  /\ UNCHANGED <<store, embedded, cache, paths, features>>

\* The lost embeddings cannot be made.
EmbedLostFails ==
  /\ pc \in {"cache", "generate", "store"} /\ Fault
  /\ RaiseAndClear
  /\ UNCHANGED <<store, embedded, cache, paths, features>>

Stage ==
  \/ ReadRevision \/ LoadRows \/ CheckLost \/ EmbedLost \/ StoreLost \/ Plan \/ TakePart
  \/ EmbedPart \/ WritePart \/ Close \/ Recheck \/ Mark
Match == StartMatching \/ SkipMatching \/ Prepare \/ Fingerprint \/ Reuse \/ Extract \/ Save

Next ==
  \/ \E x \in Image : Replace(x) \/ Record(x)
  \/ ChangeModel \/ SkipBlocking \/ Stage \/ Match \/ Fail \/ EmbedLostFails

Spec == Init /\ [][Next]_vars

-----------------------------------------------------------------------------
(* Properties.                                                             *)

Embeddings == [of : 0..MaxVersion, by : 0..MaxModel]

\* The state has its type.
TypeOK ==
  /\ disk \in [Image -> Version] /\ ver \in [Image -> Version] /\ embedded \subseteq Image
  /\ revision \in 1..MaxVersion /\ model \in 1..MaxModel
  /\ cache \in [src : 0..MaxVersion, emb : Embeddings, model : 0..MaxModel]
  /\ \A p \in parts : /\ p.name.index \in Nat /\ ImagesOf(p.name.shard) \subseteq Auction
                       /\ p.name.vers \in [ImagesOf(p.name.shard) -> Version]
                       /\ p.name.rev \in 1..MaxVersion /\ p.name.model \in 1..MaxModel
                       /\ p.name.lost \in [src : Version, emb : Embeddings]
                       /\ p.emb \in [Image -> 0..MaxVersion]
  /\ paths \subseteq Auction /\ features \in [Version -> 0..MaxVersion]
  /\ pc \in {"idle", "rows", "cache", "generate", "store", "plan", "part", "embed", "write",
             "recheck", "mark", "blocked", "prepare", "fingerprint", "reuse", "extract", "save"}
  /\ rev \in 0..MaxVersion /\ ImagesOf(batch) \subseteq Auction
  /\ row \in [Image -> 0..MaxVersion] /\ forced \subseteq Image /\ lostEmb \in Embeddings
  /\ index \in Nat /\ emb \in [Image -> 0..MaxVersion]
  /\ prepared \in 0..MaxVersion /\ fingerprint \in 0..MaxVersion /\ faults \in 0..MaxFaults

\* What a file of the pipeline is named or labelled with is what it was computed from,
\* whenever its source was replaced, and whatever run died in between: a part and its
\* lost embedding, the cached lost embedding, the features cached for a digest.
FilesTellTheTruth ==
  /\ \A p \in parts : /\ \A x \in ImagesOf(p.name.shard) : p.emb[x] = p.name.vers[x]
                       /\ p.name.lost.emb = [of |-> p.name.lost.src, by |-> p.name.model]
  /\ cache # NoCache => cache.emb = [of |-> cache.src, by |-> cache.model]
  /\ \A v \in Version : features[v] \in {0, v}

PartsOfBatch ==
  /\ {p.name : p \in parts} = {Name(i) : i \in 0..PartCount - 1}
  /\ Cardinality(parts) = PartCount

\* When blocking succeeds the directory holds one part for each shard of its batch, made
\* for these rows, this revision and this model, and nothing that an earlier run, killed
\* or larger, has left; the matcher can read all of it.
BlockedIsExact ==
  pc = "blocked" => PartsOfBatch /\ Readable
=============================================================================
