--------------------------- MODULE SimpleHashMap ----------------------------
(***************************************************************************)
(* common/map.rs: SimpleHashMap<K, V>, a fixed number of buckets, each a   *)
(* spin::Mutex<Vec<Entry>>.  get, insert and remove lock one bucket for    *)
(* their whole body, so each is one atomic step on one bucket.             *)
(* PersistentHashMap::get / insert_no_log / remove_no_log                  *)
(* (disk/persistentmap.rs) have the same bodies.                           *)
(***************************************************************************)
LOCAL INSTANCE Naturals
LOCAL INSTANCE Sequences
LOCAL SeqX == INSTANCE SequencesExt

CONSTANTS Keys, Values,
          None,          \* Option::None
          Buckets,       \* the bucket indices 0 .. num_buckets-1
          BucketOf       \* compute_bucket_idx: hash(key) % num_buckets

ASSUME BucketOf \in [Keys -> Buckets]

VARIABLE buckets       \* buckets[b]: the Vec<Entry> of bucket b

\* struct Entry
Entry == [key : Keys, value : Values]

TypeOK == buckets \in [Buckets -> Seq(Entry)]

\* SimpleHashMap::new / with_capacity
Init == buckets = [b \in Buckets |-> <<>>]

\* the position of `key` in its bucket, 0 when it has no entry
Position(key) ==
    SeqX!SelectInSeq(buckets[BucketOf[key]], LAMBDA e : e.key = key)

\* SimpleHashMap::get
Get(key) ==
    IF Position(key) = 0 THEN None
    ELSE buckets[BucketOf[key]][Position(key)].value

\* SimpleHashMap::insert: overwrite the key's entry or push a new one
Insert(key, value) ==
    buckets' = [buckets EXCEPT ![BucketOf[key]] =
                   IF Position(key) = 0
                   THEN Append(@, [key |-> key, value |-> value])
                   ELSE [@ EXCEPT ![Position(key)].value = value]]

\* SimpleHashMap::remove: Vec::remove keeps the order of the other entries
Remove(key) ==
    buckets' = [buckets EXCEPT ![BucketOf[key]] =
                   IF Position(key) = 0 THEN @
                   ELSE SeqX!RemoveAt(@, Position(key))]

\* What the map holds, as a function: the value every reader sees.
Contents == [k \in Keys |-> Get(k)]
=============================================================================
