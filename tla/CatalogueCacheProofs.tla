------------------------ MODULE CatalogueCacheProofs ------------------------
(***************************************************************************)
(* Theorems about CatalogueCache: for every catalogue, set of keys, of     *)
(* clients and of administrators, the cache is coherent up to the excuses  *)
(* of its policy.                                                          *)
(***************************************************************************)
EXTENDS CatalogueCache, TLAPS

-----------------------------------------------------------------------------
(* Types                                                                   *)

\* What a loader returns is a body.
LEMMA CurrentType ==
  ASSUME Inv, NEW k \in Keys
  PROVE  Current(k) \in Body(k)
<1>1. Shown(k) \subseteq Rows
  <2>1. k \in AllKeys
    BY CacheAssumption
  <2>2. CASE k[1] = "detail"
    <3>1. k[2] \in Charities \cup Projects
      BY <2>1, <2>2 DEF AllKeys
    <3>2. \A p \in Projects : CharityOf[p] \in Charities
      BY CacheAssumption
    <3> QED BY <2>2, <3>1, <3>2 DEF Shown, Rows
  <2>3. CASE k[1] # "detail"
    <3>1. k[2] \in Kinds
      BY <2>1, <2>3 DEF AllKeys
    <3> QED BY <2>3, <3>1 DEF Shown, Rows, Kinds
  <2> QED BY <2>2, <2>3
<1>2. \A e \in Rows : Seen(e) \in 0..(MaxWrites + 1)
  <2>1. \A e \in Rows : row[e].version \in 1..(MaxWrites + 1)
    BY DEF Inv, TypeOK, Row
  <2> QED BY <2>1, CacheAssumption DEF Seen
<1> QED BY <1>1, <1>2 DEF Current, Body

LEMMA SetRequest ==
  ASSUME NEW q \in Request, q.pc = "set"
  PROVE  q.key \in Keys /\ q.got \in Entry(q.key)
BY DEF Request, IdleReader

LEMMA LoadRequest ==
  ASSUME NEW q \in Request, q.pc = "load"
  PROVE  q.key \in Keys /\ q = [pc |-> "load", key |-> q.key, got |-> NULL]
BY DEF Request, IdleReader

LEMMA AnswerType ==
  ASSUME TypeOK, NEW r \in Readers, NEW k \in Keys, NEW body \in Body(k),
         Answer(r, k, body)
  PROVE  /\ reader' \in [Readers -> Request]
         /\ held' \in [Readers -> Response \cup {NULL}]
         /\ \A s \in Readers : reader'[s].pc = "set" => s # r /\ reader'[s] = reader[s]
<1>1. reader \in [Readers -> Request] /\ held \in [Readers -> Response \cup {NULL}]
  BY DEF TypeOK
<1>2. /\ reader' = [reader EXCEPT ![r] = IdleReader]
      /\ \/ held' = held
         \/ Tagged(k) /\ held' = [held EXCEPT ![r] = [key |-> k, body |-> body]]
  BY DEF Answer
<1>3. IdleReader \in Request /\ IdleReader.pc = "idle"
  BY DEF Request, IdleReader
<1>4. Tagged(k) => [key |-> k, body |-> body] \in Response
  BY DEF Response
<1>5. held' \in [Readers -> Response \cup {NULL}]
  BY <1>1, <1>2, <1>4
<1> QED BY <1>1, <1>2, <1>3, <1>5

\* Excusing loads changes nothing else about them.
LEMMA ExcuseReadersType ==
  ASSUME TypeOK, NEW ks, ExcuseReaders(ks)
  PROVE  /\ reader' \in [Readers -> Request]
         /\ \A r \in Readers : reader'[r].pc = "set" =>
              \/ reader'[r] = reader[r] /\ reader[r].key \notin ks
              \/ reader'[r].got.excused
<1>1. ASSUME NEW r \in Readers
      PROVE  /\ reader'[r] \in Request
             /\ reader'[r].pc = "set" =>
                  \/ reader'[r] = reader[r] /\ reader[r].key \notin ks
                  \/ reader'[r].got.excused
  <2>1. reader[r] \in Request
    BY DEF TypeOK
  <2>2. CASE reader[r].pc = "set" /\ reader[r].key \in ks
    <3>1. PICK k \in Keys : reader[r] \in [pc : {"set"}, key : {k}, got : Entry(k)]
      BY <2>1, <2>2 DEF Request, IdleReader
    <3>2. reader'[r] = [reader[r] EXCEPT !.got.excused = TRUE]
      BY <2>2 DEF ExcuseReaders
    <3>3. PICK entry : entry = [reader[r].got EXCEPT !.excused = TRUE]
      OBVIOUS
    <3>4. reader[r].got \in Entry(k)
      BY <3>1
    <3>5. entry \in Entry(k) /\ entry.excused
      BY <3>3, <3>4 DEF Entry
    <3>6. reader'[r] = [reader[r] EXCEPT !.got = entry]
      BY <3>2, <3>3, Zenon
    <3>7. /\ reader'[r] \in [pc : {"set"}, key : {k}, got : Entry(k)]
          /\ reader'[r].got = entry
      BY <3>1, <3>5, <3>6
    <3> QED BY <3>5, <3>7 DEF Request
  <2>3. CASE ~(reader[r].pc = "set" /\ reader[r].key \in ks)
    BY <2>1, <2>3 DEF ExcuseReaders
  <2> QED BY <2>2, <2>3
<1>2. reader' = [r \in Readers |-> reader'[r]]
  BY DEF ExcuseReaders
<1> QED BY <1>1, <1>2

\* So does excusing entries.
LEMMA ExcuseEntriesType ==
  ASSUME TypeOK, NEW ks,
         cache' = [k \in Keys |-> IF k \in ks /\ cache[k] # NULL
                                  THEN [cache[k] EXCEPT !.excused = TRUE]
                                  ELSE cache[k]]
  PROVE  /\ DOMAIN cache' = Keys
         /\ \A k \in Keys : /\ cache'[k] \in Entry(k) \cup {NULL}
                            /\ \/ cache'[k] = cache[k] /\ k \notin ks
                               \/ cache'[k] = NULL
                               \/ cache'[k].excused
BY DEF TypeOK, Entry

-----------------------------------------------------------------------------
(* Soundness of entries                                                    *)

\* It depends on the rows and on the DELs to come only.
LEMMA SoundStays ==
  ASSUME UNCHANGED <<row, todo>>, NEW k, NEW entry, Sound(k, entry)
  PROVE  Sound(k, entry)'
BY DEF Sound, Pending, Fresh, Seen

\* A step of a reader or an expiry: every entry and every loaded body is an old
\* one or a sound one.
SoundCache(c) ==
  /\ DOMAIN c = Keys
  /\ \A k \in Keys : \/ c[k] = cache[k] \/ c[k] = NULL
                     \/ c[k] \in Entry(k) /\ Sound(k, c[k])

SoundReaders(rs) ==
  /\ rs \in [Readers -> Request]
  /\ \A r \in Readers : rs[r].pc = "set" =>
       rs[r] = reader[r] \/ Sound(rs[r].key, rs[r].got)

ReadStep ==
  /\ row' = row /\ todo' = todo /\ writes' = writes
  /\ SoundCache(cache') /\ SoundReaders(reader')
  /\ held' \in [Readers -> Response \cup {NULL}]

\* Such a step keeps Inv.
LEMMA ReadKeeps ==
  ASSUME Inv, ReadStep
  PROVE  Inv'
<1>1. TypeOK'
  <2>1. \A k \in Keys : cache'[k] \in Entry(k) \cup {NULL}
    BY DEF ReadStep, SoundCache, Inv, TypeOK
  <2> QED BY <2>1 DEF ReadStep, SoundCache, SoundReaders, Inv, TypeOK
<1>2. UNCHANGED <<row, todo>>
  BY DEF ReadStep
<1>3. Coherent'
  <2>1. SUFFICES ASSUME NEW k \in Keys, cache'[k] # NULL
                 PROVE  Sound(k, cache[k])'
    BY DEF Coherent
  <2>2. PICK entry : entry = cache'[k]
    OBVIOUS
  <2>3. Sound(k, entry)
    BY <2>1, <2>2 DEF ReadStep, SoundCache, Inv, Coherent
  <2>4. Sound(k, entry)'
    BY <1>2, <2>3, SoundStays
  <2> QED BY <2>2, <2>4 DEF Sound, Fresh
<1>4. \A r \in Readers : reader'[r].pc = "set" => Sound(reader[r].key, reader[r].got)'
  <2>1. SUFFICES ASSUME NEW r \in Readers, reader'[r].pc = "set"
                 PROVE  Sound(reader[r].key, reader[r].got)'
    OBVIOUS
  <2>2. PICK q : q = reader'[r]
    OBVIOUS
  <2>3. Sound(q.key, q.got)
    BY <2>1, <2>2 DEF ReadStep, SoundReaders, Inv
  <2>4. Sound(q.key, q.got)'
    BY <1>2, <2>3, SoundStays
  <2> QED BY <2>2, <2>4 DEF Sound, Pending, Fresh
<1>5. \A e \in Rows : row'[e].version <= writes' + 1
  BY DEF ReadStep, Inv
<1> QED BY <1>1, <1>3, <1>4, <1>5 DEF Inv

LEMMA CacheUntouched ==
  ASSUME TypeOK, cache' = cache
  PROVE  SoundCache(cache')
BY DEF TypeOK, SoundCache

\* A reader that goes idle, or starts to load, leaves nothing new to store.
LEMMA ReadersSettle ==
  ASSUME TypeOK, NEW r \in Readers, NEW q \in Request, q.pc # "set",
         reader' = [reader EXCEPT ![r] = q]
  PROVE  SoundReaders(reader')
BY DEF TypeOK, SoundReaders

LEMMA HitKeeps ==
  ASSUME Inv, NEW r \in Readers, NEW k \in Keys, Hit(r, k)
  PROVE  Inv'
<1>1. /\ TypeOK /\ cache[k] \in Entry(k) /\ Answer(r, k, cache[k].body)
      /\ row' = row /\ cache' = cache /\ todo' = todo /\ writes' = writes
  BY DEF Hit, Inv, TypeOK
<1>2. cache[k].body \in Body(k)
  BY <1>1 DEF Entry
<1>3. SoundReaders(reader') /\ held' \in [Readers -> Response \cup {NULL}]
  BY <1>1, <1>2, AnswerType DEF SoundReaders
<1>4. SoundCache(cache')
  BY <1>1, CacheUntouched
<1> QED BY <1>1, <1>3, <1>4, ReadKeeps DEF ReadStep

LEMMA MissKeeps ==
  ASSUME Inv, NEW r \in Readers, NEW k \in Keys, Miss(r, k)
  PROVE  Inv'
<1> DEFINE q == [pc |-> "load", key |-> k, got |-> NULL]
<1>1. /\ TypeOK /\ reader' = [reader EXCEPT ![r] = q]
      /\ row' = row /\ cache' = cache /\ held' = held /\ todo' = todo /\ writes' = writes
  BY DEF Miss, Inv
<1>2. q \in Request /\ q.pc # "set"
  BY DEF Request
<1> HIDE DEF q
<1>3. SoundReaders(reader')
  BY <1>1, <1>2, ReadersSettle
<1>4. SoundCache(cache') /\ held' \in [Readers -> Response \cup {NULL}]
  BY <1>1, CacheUntouched DEF TypeOK
<1> QED BY <1>1, <1>3, <1>4, ReadKeeps DEF ReadStep

\* What the loader returns is fresh.
LEMMA LoadKeeps ==
  ASSUME Inv, NEW r \in Readers, Load(r)
  PROVE  Inv'
<1>1. /\ TypeOK /\ reader[r] \in Request /\ reader[r].pc = "load"
      /\ row' = row /\ cache' = cache /\ todo' = todo /\ writes' = writes
  BY DEF Load, Inv, TypeOK
<1>2. PICK k : k = reader[r].key
  OBVIOUS
<1>3. k \in Keys /\ reader[r] = [pc |-> "load", key |-> k, got |-> NULL]
  BY <1>1, <1>2, LoadRequest
<1>4. PICK entry : entry = [body |-> Current(k), excused |-> FALSE]
  OBVIOUS
<1>5. entry \in Entry(k)
  BY <1>3, <1>4, CurrentType DEF Entry
<1>6. Sound(k, entry)
  BY <1>4 DEF Sound, Fresh, Current
<1>7. SoundCache(cache')
  BY <1>1, CacheUntouched
<1>8. CASE Found(k)
  <2>1. /\ reader' = [reader EXCEPT ![r] = [reader[r] EXCEPT !.pc = "set", !.got = entry]]
        /\ held' = held
    BY <1>2, <1>4, <1>8 DEF Load
  <2>2. PICK q : q = [reader[r] EXCEPT !.pc = "set", !.got = entry]
    OBVIOUS
  <2>3. reader[r] \in [pc : {"load"}, key : {k}, got : {NULL}]
    BY <1>3
  <2>4. q \in [pc : {"set"}, key : {k}, got : Entry(k)] /\ q.key = k /\ q.got = entry
    BY <1>5, <2>2, <2>3
  <2>5. reader' = [reader EXCEPT ![r] = q]
    BY <2>1, <2>2
  <2>6. q \in Request
    BY <1>3, <2>4 DEF Request
  <2>7. SoundReaders(reader')
    BY <1>1, <1>6, <2>4, <2>5, <2>6 DEF TypeOK, SoundReaders
  <2>8. held' \in [Readers -> Response \cup {NULL}]
    BY <1>1, <2>1 DEF TypeOK
  <2> QED BY <1>1, <1>7, <2>7, <2>8, ReadKeeps DEF ReadStep
<1>9. CASE ~Found(k)
  <2>1. reader' = [reader EXCEPT ![r] = IdleReader] /\ held' = [held EXCEPT ![r] = NULL]
    BY <1>2, <1>9 DEF Load
  <2>2. IdleReader \in Request /\ IdleReader.pc # "set"
    BY DEF Request, IdleReader
  <2>3. SoundReaders(reader')
    BY <1>1, <2>1, <2>2, ReadersSettle
  <2>4. held' \in [Readers -> Response \cup {NULL}]
    BY <1>1, <2>1 DEF TypeOK
  <2> QED BY <1>1, <1>7, <2>3, <2>4, ReadKeeps DEF ReadStep
<1> QED BY <1>8, <1>9

\* A reader stores what it holds, which is sound by the invariant.
LEMMA SetCacheKeeps ==
  ASSUME Inv, NEW r \in Readers, SetCache(r)
  PROVE  Inv'
<1>1. PICK k, entry : k = reader[r].key /\ entry = reader[r].got
  OBVIOUS
<1>2. /\ TypeOK /\ reader[r] \in Request /\ reader[r].pc = "set"
      /\ row' = row /\ todo' = todo /\ writes' = writes
      /\ Answer(r, k, entry.body)
      /\ cache' = [cache EXCEPT ![k] = entry] \/ cache' = cache
  BY <1>1 DEF SetCache, Inv, TypeOK
<1>3. k \in Keys /\ entry \in Entry(k) /\ Sound(k, entry)
  BY <1>1, <1>2, SetRequest DEF Inv
<1>4. entry.body \in Body(k)
  BY <1>3 DEF Entry
<1>5. SoundReaders(reader') /\ held' \in [Readers -> Response \cup {NULL}]
  BY <1>2, <1>3, <1>4, AnswerType DEF SoundReaders
<1>6. SoundCache(cache')
  BY <1>2, <1>3 DEF TypeOK, SoundCache
<1> QED BY <1>2, <1>5, <1>6, ReadKeeps DEF ReadStep

LEMMA DropKeeps ==
  ASSUME Inv, NEW r \in Readers, Drop(r)
  PROVE  Inv'
<1>1. /\ TypeOK /\ reader' = [reader EXCEPT ![r] = IdleReader]
      /\ row' = row /\ cache' = cache /\ held' = held /\ todo' = todo /\ writes' = writes
  BY DEF Drop, Inv
<1>2. IdleReader \in Request /\ IdleReader.pc # "set"
  BY DEF Request, IdleReader
<1>3. SoundReaders(reader')
  BY <1>1, <1>2, ReadersSettle
<1>4. SoundCache(cache') /\ held' \in [Readers -> Response \cup {NULL}]
  BY <1>1, CacheUntouched DEF TypeOK
<1> QED BY <1>1, <1>3, <1>4, ReadKeeps DEF ReadStep

LEMMA ExpireKeeps ==
  ASSUME Inv, NEW k \in Keys, Expire(k)
  PROVE  Inv'
<1>1. /\ TypeOK /\ cache' = [cache EXCEPT ![k] = NULL]
      /\ row' = row /\ reader' = reader /\ held' = held /\ todo' = todo /\ writes' = writes
  BY DEF Expire, Inv
<1>2. /\ SoundCache(cache') /\ SoundReaders(reader')
      /\ held' \in [Readers -> Response \cup {NULL}]
  BY <1>1 DEF TypeOK, SoundCache, SoundReaders
<1> QED BY <1>1, <1>2, ReadKeeps DEF ReadStep

-----------------------------------------------------------------------------
(* Writes and the environment                                              *)

\* Whatever was sound under k is so after the step: a DEL is to come, or none was
\* and the rows that DELs tell the key about show what they showed.
StillSound(k) ==
  \/ Pending(k)'
  \/ /\ ~Pending(k)
     /\ \A e \in Shown(k) : ~LeftToTTL(k, e) => Seen(e)' = Seen(e)

LEMMA StillSoundStays ==
  ASSUME NEW k, NEW entry, StillSound(k), Sound(k, entry)
  PROVE  Sound(k, entry)'
BY DEF StillSound, Sound, Fresh

\* A step that excuses, or deletes, whatever is stored or loaded under ks.
ExcuseStep(ks) ==
  /\ TypeOK'
  /\ \A e \in Rows : row'[e].version <= writes' + 1
  /\ \A k \in Keys :
       /\ \/ cache'[k] = cache[k] /\ k \notin ks
          \/ cache'[k] = NULL
          \/ cache'[k].excused
       /\ k \notin ks => StillSound(k)
  /\ \A r \in Readers : reader'[r].pc = "set" =>
       \/ reader'[r] = reader[r] /\ reader[r].key \notin ks
       \/ reader'[r].got.excused

LEMMA ExcuseKeeps ==
  ASSUME Inv, NEW ks, ExcuseStep(ks)
  PROVE  Inv'
<1>1. TypeOK' /\ \A e \in Rows : row'[e].version <= writes' + 1
  BY DEF ExcuseStep
<1>2. Coherent'
  <2>1. SUFFICES ASSUME NEW k \in Keys, cache'[k] # NULL
                 PROVE  Sound(k, cache[k])'
    BY DEF Coherent
  <2>2. CASE cache'[k].excused
    BY <2>2 DEF Sound
  <2>3. CASE ~cache'[k].excused
    <3>1. PICK entry : entry = cache'[k]
      OBVIOUS
    <3>2. entry = cache[k] /\ StillSound(k)
      BY <2>1, <2>3, <3>1 DEF ExcuseStep
    <3>3. Sound(k, entry)
      BY <2>1, <3>1, <3>2 DEF Inv, Coherent
    <3>4. Sound(k, entry)'
      BY <3>2, <3>3, StillSoundStays
    <3> QED BY <3>1, <3>4 DEF Sound, Fresh
  <2> QED BY <2>2, <2>3
<1>3. \A r \in Readers : reader'[r].pc = "set" => Sound(reader[r].key, reader[r].got)'
  <2>1. SUFFICES ASSUME NEW r \in Readers, reader'[r].pc = "set"
                 PROVE  Sound(reader[r].key, reader[r].got)'
    OBVIOUS
  <2>2. CASE reader'[r].got.excused
    BY <2>2 DEF Sound
  <2>3. CASE ~reader'[r].got.excused
    <3>1. PICK q : q = reader'[r]
      OBVIOUS
    <3>2. q = reader[r] /\ q.key \notin ks
      BY <2>1, <2>3, <3>1 DEF ExcuseStep
    <3>3. q.key \in Keys
      BY <2>1, <3>1, <3>2, SetRequest DEF Inv, TypeOK
    <3>4. StillSound(q.key)
      BY <3>2, <3>3 DEF ExcuseStep
    <3>5. Sound(q.key, q.got)
      BY <2>1, <3>1, <3>2 DEF Inv
    <3>6. Sound(q.key, q.got)'
      BY <3>4, <3>5, StillSoundStays
    <3> QED BY <3>1, <3>6 DEF Sound, Pending, Fresh
  <2> QED BY <2>2, <2>3
<1> QED BY <1>1, <1>2, <1>3 DEF Inv

\* A write names every key that shows its row and does not leave it to the TTL.
LEMMA DelKeysReach ==
  ASSUME NEW k \in Keys, NEW e \in Shown(k), ~LeftToTTL(k, e)
  PROVE  k \in DelKeys(e)
<1>1. k \in AllKeys
  BY CacheAssumption
<1>2. CASE k[1] = "detail"
  <2>1. PICK x \in Charities \cup Projects : k = <<"detail", x>>
    BY <1>1, <1>2 DEF AllKeys
  <2>2. e = x /\ e \notin Categories
    <3>1. e \notin Categories
      BY <2>1 DEF LeftToTTL
    <3>2. CASE x \in Projects
      <4>1. CharityOf[x] \in Charities
        BY <3>2, CacheAssumption
      <4> QED BY <2>1, <3>1, <3>2, <4>1 DEF Shown, LeftToTTL
    <3>3. CASE x \notin Projects
      BY <2>1, <3>1, <3>3 DEF Shown
    <3> QED BY <3>1, <3>2, <3>3
  <2> QED BY <2>1, <2>2, CacheAssumption DEF DelKeys
<1>3. CASE k[1] # "detail"
  <2>1. PICK x \in Kinds : k = <<"list", x>>
    BY <1>1, <1>3 DEF AllKeys
  <2>2. CASE x = "category"
    <3>1. e \in Categories
      BY <2>1, <2>2 DEF Shown
    <3> QED BY <2>1, <2>2, <3>1, CacheAssumption DEF DelKeys
  <2>3. CASE x # "category"
    <3>1. e \notin Categories
      BY <2>1, <2>3 DEF LeftToTTL
    <3>2. CASE x = "charity"
      BY <2>1, <3>1, <3>2, CacheAssumption DEF Shown, DelKeys
    <3>3. CASE x = "project"
      BY <2>1, <3>1, <3>3, CacheAssumption DEF Shown, DelKeys
    <3> QED BY <2>3, <3>2, <3>3 DEF Kinds
  <2> QED BY <2>2, <2>3
<1> QED BY <1>2, <1>3

\* The keys a write names are pending at once, and no other key is told of the row.
LEMMA CommitKeeps ==
  ASSUME Inv, NEW w \in Writers, NEW e \in Rows, NEW live \in BOOLEAN, Commit(w, e, live)
  PROVE  Inv'
<1>1. /\ TypeOK /\ todo[w] = {} /\ writes < MaxWrites /\ writes' = writes + 1
      /\ row' = [row EXCEPT ![e] = [version |-> row[e].version + 1, live |-> live]]
      /\ todo' = [todo EXCEPT ![w] = DelKeys(e)]
      /\ cache' = cache /\ reader' = reader /\ held' = held
  BY DEF Commit, Inv
<1>2. writes \in Nat /\ writes' \in 0..MaxWrites /\ MaxWrites \in Nat
  BY <1>1, CacheAssumption DEF TypeOK
<1>3. \A x \in Rows : row[x].version \in 1..(MaxWrites + 1) /\ row[x].version <= writes + 1
  BY <1>1 DEF Inv, TypeOK, Row
<1>4. [version |-> row[e].version + 1, live |-> live] \in Row
  BY <1>1, <1>2, <1>3 DEF Row
<1>5. row' \in [Rows -> Row] /\ \A x \in Rows : row'[x].version <= writes' + 1
  BY <1>1, <1>2, <1>3, <1>4 DEF TypeOK
<1>6. todo' \in [Writers -> SUBSET Keys]
  BY <1>1 DEF TypeOK, DelKeys
<1>7. TypeOK'
  BY <1>1, <1>2, <1>5, <1>6 DEF TypeOK
<1>8. ASSUME NEW k \in Keys
      PROVE  StillSound(k)
  <2>1. CASE k \in DelKeys(e)
    BY <1>1, <2>1 DEF StillSound, Pending, TypeOK
  <2>2. CASE k \notin DelKeys(e) /\ Pending(k)
    BY <1>1, <2>2 DEF StillSound, Pending, TypeOK
  <2>3. CASE k \notin DelKeys(e) /\ ~Pending(k)
    BY <1>1, <2>3, DelKeysReach DEF StillSound, Seen, TypeOK
  <2> QED BY <2>1, <2>2, <2>3
<1>9. ExcuseStep({})
  BY <1>1, <1>5, <1>7, <1>8 DEF ExcuseStep
<1> QED BY <1>9, ExcuseKeeps

LEMMA DelKeyKeeps ==
  ASSUME Inv, NEW w \in Writers, NEW k \in Keys, DelKey(w, k)
  PROVE  Inv'
<1>1. /\ TypeOK /\ k \in todo[w] /\ cache' = [cache EXCEPT ![k] = NULL]
      /\ ExcuseReaders({k}) /\ todo' = [todo EXCEPT ![w] = todo[w] \ {k}]
      /\ row' = row /\ held' = held /\ writes' = writes
  BY DEF DelKey, Inv
<1>2. /\ reader' \in [Readers -> Request]
      /\ \A r \in Readers : reader'[r].pc = "set" =>
           \/ reader'[r] = reader[r] /\ reader[r].key \notin {k}
           \/ reader'[r].got.excused
  BY <1>1, ExcuseReadersType
<1>3. TypeOK'
  BY <1>1, <1>2 DEF TypeOK
<1>4. ASSUME NEW j \in Keys, j \notin {k}
      PROVE  StillSound(j)
  <2>1. CASE Pending(j)
    BY <1>1, <1>4, <2>1 DEF StillSound, Pending, TypeOK
  <2>2. CASE ~Pending(j)
    BY <1>1, <2>2 DEF StillSound, Seen
  <2> QED BY <2>1, <2>2
<1>5. ExcuseStep({k})
  BY <1>1, <1>2, <1>3, <1>4 DEF ExcuseStep, Inv, TypeOK
<1> QED BY <1>5, ExcuseKeeps

LEMMA DelFailsKeeps ==
  ASSUME Inv, NEW w \in Writers, DelFails(w)
  PROVE  Inv'
<1>1. PICK ks : ks = todo[w]
  OBVIOUS
<1>2. /\ TypeOK /\ ExcuseReaders(ks) /\ todo' = [todo EXCEPT ![w] = {}]
      /\ cache' = [k \in Keys |-> IF k \in ks /\ cache[k] # NULL
                                  THEN [cache[k] EXCEPT !.excused = TRUE]
                                  ELSE cache[k]]
      /\ row' = row /\ held' = held /\ writes' = writes
  BY <1>1 DEF DelFails, Inv
<1>3. /\ reader' \in [Readers -> Request]
      /\ \A r \in Readers : reader'[r].pc = "set" =>
           \/ reader'[r] = reader[r] /\ reader[r].key \notin ks
           \/ reader'[r].got.excused
  BY <1>2, ExcuseReadersType
<1>4. /\ DOMAIN cache' = Keys
      /\ \A k \in Keys : /\ cache'[k] \in Entry(k) \cup {NULL}
                         /\ \/ cache'[k] = cache[k] /\ k \notin ks
                            \/ cache'[k] = NULL
                            \/ cache'[k].excused
  BY <1>2, ExcuseEntriesType
<1>5. TypeOK'
  BY <1>2, <1>3, <1>4 DEF TypeOK
<1>6. ASSUME NEW j \in Keys, j \notin ks
      PROVE  StillSound(j)
  <2>1. CASE Pending(j)
    BY <1>1, <1>2, <1>6, <2>1 DEF StillSound, Pending, TypeOK
  <2>2. CASE ~Pending(j)
    BY <1>2, <2>2 DEF StillSound, Seen
  <2> QED BY <2>1, <2>2
<1>7. ExcuseStep(ks)
  BY <1>2, <1>3, <1>4, <1>5, <1>6 DEF ExcuseStep, Inv
<1> QED BY <1>7, ExcuseKeeps

LEMMA WindowPassesKeeps ==
  ASSUME Inv, NEW e \in Charities \cup Projects, WindowPasses(e)
  PROVE  Inv'
<1>1. PICK ks : ks = {k \in Keys : e \in Shown(k)}
  OBVIOUS
<1>2. /\ TypeOK /\ ExcuseReaders(ks) /\ writes < MaxWrites /\ writes' = writes + 1
      /\ cache' = [k \in Keys |-> IF k \in ks /\ cache[k] # NULL
                                  THEN [cache[k] EXCEPT !.excused = TRUE]
                                  ELSE cache[k]]
      /\ row' = [row EXCEPT ![e].live = ~row[e].live] /\ held' = held /\ todo' = todo
  BY <1>1 DEF WindowPasses, Inv
<1>3. /\ reader' \in [Readers -> Request]
      /\ \A r \in Readers : reader'[r].pc = "set" =>
           \/ reader'[r] = reader[r] /\ reader[r].key \notin ks
           \/ reader'[r].got.excused
  BY <1>2, ExcuseReadersType
<1>4. /\ DOMAIN cache' = Keys
      /\ \A k \in Keys : /\ cache'[k] \in Entry(k) \cup {NULL}
                         /\ \/ cache'[k] = cache[k] /\ k \notin ks
                            \/ cache'[k] = NULL
                            \/ cache'[k].excused
  BY <1>2, ExcuseEntriesType
<1>5. writes \in Nat /\ MaxWrites \in Nat
  BY <1>2, CacheAssumption DEF TypeOK
<1>6. /\ row' \in [Rows -> Row]
      /\ \A x \in Rows : row'[x].version = row[x].version
  BY <1>2 DEF TypeOK, Row
<1>7. /\ \A x \in Rows : row'[x].version <= writes' + 1
      /\ writes' \in 0..MaxWrites
  <2>1. \A x \in Rows : row[x].version \in Nat /\ row[x].version <= writes + 1
    BY <1>2, <1>5 DEF Inv, TypeOK, Row
  <2> QED BY <1>2, <1>5, <1>6, <2>1
<1>8. TypeOK'
  BY <1>2, <1>3, <1>4, <1>6, <1>7 DEF TypeOK
<1>9. ASSUME NEW j \in Keys, j \notin ks
      PROVE  StillSound(j)
  <2>1. e \notin Shown(j)
    BY <1>1, <1>9
  <2>2. CASE Pending(j)
    BY <1>2, <2>2 DEF StillSound, Pending
  <2>3. CASE ~Pending(j)
    BY <1>2, <2>1, <2>3 DEF StillSound, Seen, TypeOK
  <2> QED BY <2>2, <2>3
<1>10. ExcuseStep(ks)
  BY <1>3, <1>4, <1>7, <1>8, <1>9 DEF ExcuseStep
<1> QED BY <1>10, ExcuseKeeps

-----------------------------------------------------------------------------
(* The theorems                                                            *)

LEMMA InitInv ==
  ASSUME Init
  PROVE  Inv
<1>1. TypeOK
  BY CacheAssumption DEF Init, TypeOK, Row, Request, IdleReader
<1>2. Coherent /\ \A r \in Readers : reader[r].pc # "set"
  BY DEF Init, Coherent, IdleReader
<1>3. \A e \in Rows : row[e].version <= writes + 1
  BY DEF Init
<1> QED BY <1>1, <1>2, <1>3 DEF Inv

LEMMA NextInv ==
  ASSUME Inv, [Next]_vars
  PROVE  Inv'
<1>1. CASE UNCHANGED vars
  <2>1. /\ UNCHANGED <<row, todo>> /\ cache' = cache /\ reader' = reader
        /\ held' = held /\ writes' = writes /\ row' = row /\ todo' = todo
    BY <1>1 DEF vars
  <2>2. ReadStep
    BY <2>1 DEF ReadStep, SoundCache, SoundReaders, Inv, TypeOK
  <2> QED BY <2>2, ReadKeeps
<1>2. ASSUME NEW r \in Readers, Read(r)
      PROVE  Inv'
  BY <1>2, HitKeeps, MissKeeps, LoadKeeps, SetCacheKeeps, DropKeeps DEF Read
<1>3. ASSUME NEW w \in Writers, Write(w)
      PROVE  Inv'
  BY <1>3, CommitKeeps, DelKeyKeeps, DelFailsKeeps DEF Write
<1>4. ASSUME NEW k \in Keys, Expire(k)
      PROVE  Inv'
  BY <1>4, ExpireKeeps
<1>5. ASSUME NEW e \in Charities \cup Projects, WindowPasses(e)
      PROVE  Inv'
  BY <1>5, WindowPassesKeeps
<1> QED BY <1>1, <1>2, <1>3, <1>4, <1>5 DEF Next

\* The inductive invariant: what is stored, and what a reader is about to store, is
\* fresh or has an excuse.
THEOREM InvCorrect == Spec => []Inv
<1>1. Init => Inv
  BY InitInv
<1>2. Inv /\ [Next]_vars => Inv'
  BY NextInv
<1> QED BY <1>1, <1>2, PTL DEF Spec

\* Every variable keeps its type, for every catalogue and any number of clients.
THEOREM TypeCorrect == Spec => []TypeOK
<1>1. Inv => TypeOK
  BY DEF Inv
<1> QED BY <1>1, InvCorrect, PTL

\* An entry of the cache that is stale in a row not left to the TTL has one of the
\* other excuses of the cache policy (withCache, invalidateDonationEntity).
THEOREM CoherenceCorrect == Spec => []Coherent
<1>1. Inv => Coherent
  BY DEF Inv
<1> QED BY <1>1, InvCorrect, PTL

=============================================================================
