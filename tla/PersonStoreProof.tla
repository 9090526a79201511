--------------------------- MODULE PersonStoreProof ---------------------------
(***************************************************************************)
(* The steps of PersonStore, for any persons, employee numbers, faces and  *)
(* rules and any number of changes: the values stay in their ranges, and   *)
(* what memory says of a person who is no stray is what his row says.      *)
(* FingerReaderProof draws the invariants of the whole from them.          *)
(***************************************************************************)
EXTENDS PersonStore, FiniteSetTheorems, SequenceTheorems, WellFoundedInduction, TLAPS

\* A row and an entry say the same; no finger is one finger, -1 or 0.
Alike(row, e) ==
  /\ row.uuid = e.uuid /\ row.card = e.card /\ row.face = e.face /\ row.rule = e.rule
  /\ row.finger = e.finger \/ (row.finger <= 0 /\ e.finger <= 0)

\* Who is no stray is stored once in the table and once in memory ...
Once(list) ==
  \A i, j \in DOMAIN list : list[i].uuid \notin strays /\ list[i].uuid = list[j].uuid => i = j

\* ... his entry has a row that says the same, before the table is loaded too ...
EntryHasRow ==
  \A i \in DOMAIN cache :
    cache[i].uuid \notin strays => \E r \in DOMAIN table : Alike(table[r], cache[i])

\* ... and once it is loaded, his row has an entry.
RowHasEntry ==
  loaded => \A r \in DOMAIN table :
              table[r].uuid \notin strays => \E i \in DOMAIN cache : cache[i].uuid = table[r].uuid

TableOK ==
  /\ IsFiniteSet(DOMAIN table) /\ DOMAIN table \subseteq Nat \ {0}
  /\ table \in [DOMAIN table -> Entry]

CacheOK == cache \in Seq(Entry)

StoreInv ==
  /\ TableOK /\ CacheOK /\ strays \subseteq Uuids
  /\ Once(table) /\ Once(cache) /\ EntryHasRow /\ RowHasEntry

\* Rows and entries of one person get another content, the same in both.
AlikeChange(u) ==
  /\ DOMAIN table' = DOMAIN table /\ table' \in [DOMAIN table -> Entry]
  /\ DOMAIN cache' = DOMAIN cache /\ cache' \in Seq(Entry)
  /\ \A r \in DOMAIN table :
       table'[r].uuid = table[r].uuid /\ (table[r].uuid # u => table'[r] = table[r])
  /\ \A i \in DOMAIN cache :
       cache'[i].uuid = cache[i].uuid /\ (cache[i].uuid # u => cache'[i] = cache[i])
  /\ u \notin strays => \A r \in DOMAIN table, i \in DOMAIN cache :
       table[r].uuid = u /\ Alike(table[r], cache[i]) => Alike(table'[r], cache'[i])

-----------------------------------------------------------------------------
(* Places *)

\* A set of numbers has a first one: of the intervals that end at its members,
\* one is smallest.
LEMMA FirstIsMember == ASSUME NEW S \in SUBSET Nat, S # {} PROVE First(S) \in S
<1> DEFINE Below == {1 .. x : x \in S}
<1>1. Below \subseteq FiniteSubsetsOf(Nat)
  <2>1. ASSUME NEW x \in S PROVE 1 .. x \subseteq Nat /\ IsFiniteSet(1 .. x)
    BY FS_Interval
  <2> QED
    BY <2>1 DEF FiniteSubsetsOf
<1>2. \E A \in Below : \A B \in Below : <<B, A>> \notin StrictSubsetOrdering(Nat)
  <2>1. Below # {}
    OBVIOUS
  <2> HIDE DEF Below
  <2> QED
    BY <1>1, <2>1, FS_StrictSubsetOrderingWellFounded, WFMin
<1>3. PICK m \in S : \A x \in S : <<1 .. x, 1 .. m>> \notin StrictSubsetOrdering(Nat)
  BY <1>2
<1>4. ASSUME NEW x \in S, ~(m <= x) PROVE FALSE
  <2>1. 1 .. x \subseteq 1 .. m /\ 1 .. x # 1 .. m
    BY <1>4
  <2>2. 1 .. x \in SUBSET Nat /\ 1 .. m \in SUBSET Nat
    OBVIOUS
  <2> QED
    BY <1>3, <2>1, <2>2 DEF StrictSubsetOrdering
<1>5. \E s \in S : \A r \in S : s <= r
  BY <1>4
<1> QED
  BY <1>5 DEF First

\* A finite set of numbers has a largest one: of its parts above its members,
\* one is smallest.
LEMMA LargestExists ==
  ASSUME NEW S \in SUBSET Nat, S # {}, IsFiniteSet(S)
  PROVE  \E m \in S : \A x \in S : x <= m
<1> DEFINE Above(x) == {y \in S : x <= y}
<1> DEFINE Parts == {Above(x) : x \in S}
<1>1. Parts \subseteq FiniteSubsetsOf(Nat)
  <2>1. ASSUME NEW x \in S PROVE Above(x) \in SUBSET Nat /\ IsFiniteSet(Above(x))
    BY FS_Subset
  <2> QED
    BY <2>1 DEF FiniteSubsetsOf
<1>2. \E A \in Parts : \A B \in Parts : <<B, A>> \notin StrictSubsetOrdering(Nat)
  <2>1. Parts # {}
    OBVIOUS
  <2> HIDE DEF Parts
  <2> QED
    BY <1>1, <2>1, FS_StrictSubsetOrderingWellFounded, WFMin
<1>3. PICK m \in S : \A x \in S : <<Above(x), Above(m)>> \notin StrictSubsetOrdering(Nat)
  BY <1>2
<1>4. ASSUME NEW x \in S, ~(x <= m) PROVE FALSE
  <2>0. x \in Nat /\ m \in Nat /\ m < x
    BY <1>4
  <2>1. Above(x) \subseteq Above(m) /\ Above(x) # Above(m)
    <3>1. ASSUME NEW y \in Above(x) PROVE y \in Above(m)
      BY <2>0
    <3>2. m \in Above(m) /\ m \notin Above(x)
      BY <2>0
    <3> QED
      BY <3>1, <3>2
  <2>2. Above(x) \in SUBSET Nat /\ Above(m) \in SUBSET Nat
    OBVIOUS
  <2> QED
    BY <1>3, <2>1, <2>2 DEF StrictSubsetOrdering
<1> QED
  BY <1>4

\* A list in which u is not doubled has at most one place for him.
LEMMA NotDoubled ==
  ASSUME NEW list, IsFiniteSet(DOMAIN list), NEW u \in Uuids, u \notin Doubled(list),
         NEW i \in DOMAIN list, NEW j \in DOMAIN list, list[i].uuid = u, list[j].uuid = u
  PROVE  i = j
<1> SUFFICES ASSUME i # j PROVE FALSE
  OBVIOUS
<1>1. IsFiniteSet(WithUuid(list, u)) /\ Cardinality(WithUuid(list, u)) \in Nat
  <2>1. WithUuid(list, u) \in SUBSET DOMAIN list
    BY DEF WithUuid
  <2> QED
    BY <2>1, FS_Subset, FS_CardinalityType
<1>2. {i, j} \in SUBSET WithUuid(list, u)
  BY DEF WithUuid
<1>3. Cardinality({i, j}) = 2 /\ IsFiniteSet({i, j})
  <2>1. IsFiniteSet({i}) /\ Cardinality({i}) = 1
    BY FS_Singleton
  <2>2. /\ IsFiniteSet({i} \cup {j})
        /\ Cardinality({i} \cup {j}) = IF j \in {i} THEN Cardinality({i}) ELSE Cardinality({i}) + 1
    BY <2>1, FS_AddElement, Zenon
  <2>3. {i} \cup {j} = {i, j} /\ j \notin {i}
    OBVIOUS
  <2> QED
    BY <2>1, <2>2, <2>3
<1>4. Cardinality({i, j}) <= Cardinality(WithUuid(list, u))
  BY <1>1, <1>2, FS_Subset
<1> QED
  BY <1>1, <1>3, <1>4 DEF Doubled
-----------------------------------------------------------------------------
(* Steps in general *)

LEMMA EntryFields ==
  ASSUME NEW e \in Entry
  PROVE  /\ e.uuid \in Uuids /\ e.card \in AnyCard /\ e.face \in AnyFace
         /\ e.rule \in AnyRule /\ e.finger \in Int
  BY DEF Entry

\* The elements of the list and its arguments.
LEMMA CacheEntries ==
  ASSUME NEW list \in Seq(Entry)
  PROVE  /\ Len(list) \in Nat /\ DOMAIN list = 1 .. Len(list) /\ IsFiniteSet(DOMAIN list)
         /\ DOMAIN list \subseteq Nat \ {0}
         /\ \A i \in DOMAIN list : list[i] \in Entry
<1>1. Len(list) \in Nat /\ DOMAIN list = 1 .. Len(list)
  BY LenProperties
<1>2. IsFiniteSet(1 .. Len(list))
  BY <1>1, FS_Interval
<1> QED
  BY <1>1, <1>2, ElementOfSeq

\* Who is doubled by a step is noted by it.
LEMMA NotedOnce ==
  ASSUME NEW lost, Noted(lost), TableOK', CacheOK'
  PROVE  Once(table)' /\ Once(cache)' /\ lost \subseteq strays' /\ strays \subseteq strays'
<1>1. \A u : u \notin strays' => u \notin Doubled(table') /\ u \notin Doubled(cache')
  BY DEF Noted
<1>2. ASSUME NEW i \in DOMAIN table', NEW j \in DOMAIN table', table'[i].uuid \notin strays',
             table'[i].uuid = table'[j].uuid
      PROVE  i = j
  <2>1. table'[i].uuid \in Uuids
    <3>1. table'[i] \in Entry
      BY DEF TableOK
    <3> QED
      BY <3>1, EntryFields
  <2>2. IsFiniteSet(DOMAIN table')
    BY DEF TableOK
  <2> QED
    BY <1>1, <1>2, <2>1, <2>2, NotDoubled
<1>3. ASSUME NEW i \in DOMAIN cache', NEW j \in DOMAIN cache', cache'[i].uuid \notin strays',
             cache'[i].uuid = cache'[j].uuid
      PROVE  i = j
  <2>1. cache'[i] \in Entry /\ IsFiniteSet(DOMAIN cache')
    BY CacheEntries DEF CacheOK
  <2>2. cache'[i].uuid \in Uuids
    BY <2>1, EntryFields
  <2> QED
    BY <1>1, <1>3, <2>1, <2>2, NotDoubled
<1> QED
  BY <1>2, <1>3 DEF Once, Noted

LEMMA ChangeKeeps ==
  ASSUME StoreInv, NEW u \in Uuids, AlikeChange(u),
         strays \subseteq strays', strays' \subseteq Uuids, loaded' = loaded
  PROVE  StoreInv'
<1> USE DEF StoreInv, AlikeChange
<1>1. TableOK' /\ CacheOK'
  BY DEF TableOK, CacheOK
<1>2. Once(table)' /\ Once(cache)'
  BY DEF Once
<1>3. EntryHasRow'
  <2> SUFFICES ASSUME NEW i \in DOMAIN cache, cache[i].uuid \notin strays
               PROVE  \E r \in DOMAIN table : Alike(table'[r], cache'[i])
    BY DEF EntryHasRow
  <2>1. PICK r \in DOMAIN table : Alike(table[r], cache[i])
    BY DEF EntryHasRow
  <2>2. table[r].uuid = cache[i].uuid
    BY <2>1 DEF Alike
  <2>3. CASE cache[i].uuid = u
    BY <2>1, <2>2, <2>3
  <2>4. CASE cache[i].uuid # u
    BY <2>1, <2>2, <2>4
  <2> QED
    BY <2>3, <2>4
<1>4. RowHasEntry'
  BY DEF RowHasEntry
<1> QED
  BY <1>1, <1>2, <1>3, <1>4
-----------------------------------------------------------------------------
(* The writers *)

\* The first entry of u is an entry of u.
LEMMA FirstOfUuid ==
  ASSUME StoreInv, NEW u, WithUuid(cache, u) # {}
  PROVE  /\ First(WithUuid(cache, u)) \in DOMAIN cache
         /\ cache[First(WithUuid(cache, u))].uuid = u
<1>1. WithUuid(cache, u) \in SUBSET Nat
  BY CacheEntries DEF WithUuid, StoreInv, CacheOK
<1>2. First(WithUuid(cache, u)) \in WithUuid(cache, u)
  BY <1>1, FirstIsMember
<1> QED
  BY <1>2 DEF WithUuid

\* A list whose first entry of u is replaced by another of his.
LEMMA ReplacedFirst ==
  ASSUME StoreInv, NEW u, NEW e \in Entry, e.uuid = u,
         WithUuid(cache, u) # {}, cache' = ReplaceAt(cache, First(WithUuid(cache, u)), e)
  PROVE  /\ DOMAIN cache' = DOMAIN cache /\ cache' \in Seq(Entry)
         /\ \A i \in DOMAIN cache :
              cache'[i].uuid = cache[i].uuid /\ (cache[i].uuid # u => cache'[i] = cache[i])
         /\ u \notin strays => \A i \in DOMAIN cache : cache[i].uuid = u => cache'[i] = e
<1> DEFINE k == First(WithUuid(cache, u))
<1>1. k \in DOMAIN cache /\ cache[k].uuid = u
  BY FirstOfUuid
<1>2. cache \in Seq(Entry)
  BY DEF StoreInv, CacheOK
<1> HIDE DEF k
<1>3. /\ cache' \in Seq(Entry) /\ DOMAIN cache' = DOMAIN cache
      /\ \A i \in DOMAIN cache : cache'[i] = IF i = k THEN e ELSE cache[i]
  <2>1. cache' = [cache EXCEPT ![k] = e]
    BY DEF ReplaceAt, k
  <2>2. k \in 1 .. Len(cache) /\ DOMAIN cache = 1 .. Len(cache)
    BY <1>1, <1>2, LenProperties
  <2> QED
    BY <2>1, <2>2, <1>2, ExceptSeq, LenProperties
<1>4. u \notin strays => \A i \in DOMAIN cache : cache[i].uuid = u => i = k
  BY <1>1 DEF StoreInv, Once
<1> QED
  BY <1>1, <1>3, <1>4

\* UpdatePersonFingerId: the rows and the first entry of u get the number.
LEMMA FingerIdChange ==
  ASSUME StoreInv, NEW u \in Uuids, NEW id \in Int, UpdatePersonFingerId(u, id)
  PROVE  AlikeChange(u)
<1>1. table' = [r \in DOMAIN table |->
                 IF table[r].uuid = u THEN [table[r] EXCEPT !.finger = id] ELSE table[r]]
  BY DEF UpdatePersonFingerId, EveryRow
<1>2. \A r \in DOMAIN table : table[r] \in Entry
  BY DEF StoreInv, TableOK
<1>3. /\ DOMAIN table' = DOMAIN table /\ table' \in [DOMAIN table -> Entry]
      /\ \A r \in DOMAIN table :
           table'[r].uuid = table[r].uuid /\ (table[r].uuid # u => table'[r] = table[r])
  BY <1>1, <1>2 DEF Entry
<1>4. CASE WithUuid(cache, u) = {}
  <2>1. cache' = cache
    BY <1>4 DEF UpdatePersonFingerId, FirstEntry
  <2>2. \A i \in DOMAIN cache : cache[i].uuid # u
    BY <1>4 DEF WithUuid
  <2> QED
    BY <1>3, <2>1, <2>2 DEF AlikeChange, Alike, StoreInv, CacheOK
<1>5. CASE WithUuid(cache, u) # {}
  <2> DEFINE old == cache[First(WithUuid(cache, u))]
  <2> DEFINE e == [old EXCEPT !.finger = id]
  <2>1. old \in Entry /\ old.uuid = u
    BY <1>5, FirstOfUuid, CacheEntries DEF StoreInv, CacheOK
  <2>2. /\ e \in Entry /\ e.uuid = u /\ e.finger = id
        /\ e.card = old.card /\ e.face = old.face /\ e.rule = old.rule
    BY <2>1 DEF Entry
  <2>3. cache' = ReplaceAt(cache, First(WithUuid(cache, u)), e)
    BY <1>5 DEF UpdatePersonFingerId, FirstEntry
  <2> HIDE DEF e
  <2>4. ASSUME u \notin strays, NEW r \in DOMAIN table, NEW i \in DOMAIN cache,
               table[r].uuid = u, Alike(table[r], cache[i])
        PROVE  Alike(table'[r], cache'[i])
    <3>1. cache[i].uuid = u /\ i = First(WithUuid(cache, u))
      BY <2>4, <1>5, FirstOfUuid DEF Alike, StoreInv, Once
    <3>2. cache'[i] = e
      BY <2>2, <2>3, <2>4, <3>1, <1>5, ReplacedFirst
    <3>3. table'[r] = [table[r] EXCEPT !.finger = id]
      BY <1>1, <2>4
    <3> QED
      BY <2>1, <2>2, <2>4, <3>1, <3>2, <3>3, <1>2 DEF Alike, Entry
  <2>5. /\ DOMAIN cache' = DOMAIN cache /\ cache' \in Seq(Entry)
        /\ \A i \in DOMAIN cache :
             cache'[i].uuid = cache[i].uuid /\ (cache[i].uuid # u => cache'[i] = cache[i])
    BY <2>2, <2>3, <1>5, ReplacedFirst
  <2> QED
    BY <1>3, <2>4, <2>5 DEF AlikeChange
<1> QED
  BY <1>4, <1>5

\* UpdatePersonToDBAndRAM: what the entry says now, the rows say too.
LEMMA PersonChange ==
  ASSUME StoreInv, NEW u \in Uuids, NEW c \in AnyCard, NEW f \in AnyFace, NEW r \in AnyRule,
         UpdatePerson(u, c, f, r)
  PROVE  AlikeChange(u)
<1> DEFINE old == cache[First(WithUuid(cache, u))]
<1> DEFINE new == [old EXCEPT !.card = IF c = NoCard THEN @ ELSE c,
                              !.rule = IF r = NoRule THEN @ ELSE r,
                              !.face = f]
<1>0. WithUuid(cache, u) # {}
  BY DEF UpdatePerson
<1>1. old \in Entry /\ old.uuid = u
  BY <1>0, FirstOfUuid, CacheEntries DEF StoreInv, CacheOK
<1>2. new \in Entry /\ new.uuid = u /\ new.finger = old.finger
  BY <1>1 DEF Entry
<1>3. /\ cache' = ReplaceAt(cache, First(WithUuid(cache, u)), new)
      /\ table' = [q \in DOMAIN table |->
                    IF table[q].uuid = u THEN [new EXCEPT !.finger = table[q].finger] ELSE table[q]]
  BY <1>0 DEF UpdatePerson, EveryRow, FirstEntry
<1> HIDE DEF new
<1>4. \A q \in DOMAIN table : table[q] \in Entry
  BY DEF StoreInv, TableOK
<1>5. /\ DOMAIN table' = DOMAIN table /\ table' \in [DOMAIN table -> Entry]
      /\ \A q \in DOMAIN table :
           table'[q].uuid = table[q].uuid /\ (table[q].uuid # u => table'[q] = table[q])
  BY <1>2, <1>3, <1>4 DEF Entry
<1>6. ASSUME u \notin strays, NEW q \in DOMAIN table, NEW i \in DOMAIN cache,
             table[q].uuid = u, Alike(table[q], cache[i])
      PROVE  Alike(table'[q], cache'[i])
  <2>1. cache[i].uuid = u /\ cache[i] = old
    BY <1>6, <1>0, FirstOfUuid DEF Alike, StoreInv, Once
  <2>2. cache'[i] = new
    BY <1>0, <1>2, <1>3, <1>6, <2>1, ReplacedFirst
  <2>3. table'[q] = [new EXCEPT !.finger = table[q].finger]
    BY <1>3, <1>6
  <2> QED
    BY <1>2, <1>6, <2>1, <2>2, <2>3 DEF Alike, Entry
<1>7. /\ DOMAIN cache' = DOMAIN cache /\ cache' \in Seq(Entry)
      /\ \A i \in DOMAIN cache :
           cache'[i].uuid = cache[i].uuid /\ (cache[i].uuid # u => cache'[i] = cache[i])
  BY <1>0, <1>2, <1>3, ReplacedFirst
<1> QED
  BY <1>5, <1>6, <1>7 DEF AlikeChange

\* UpdatePersonFaceFeature: rows and entry get the same face.
LEMMA FaceChange ==
  ASSUME StoreInv, NEW u \in Uuids, NEW f \in AnyFace, UpdateFace(u, f)
  PROVE  AlikeChange(u)
<1> DEFINE old == cache[First(WithUuid(cache, u))]
<1> DEFINE new == [old EXCEPT !.face = f]
<1>0. WithUuid(cache, u) # {}
  BY DEF UpdateFace
<1>1. old \in Entry /\ old.uuid = u
  BY <1>0, FirstOfUuid, CacheEntries DEF StoreInv, CacheOK
<1>2. /\ new \in Entry /\ new.uuid = u /\ new.face = f
      /\ new.card = old.card /\ new.rule = old.rule /\ new.finger = old.finger
  BY <1>1 DEF Entry
<1>3. /\ cache' = ReplaceAt(cache, First(WithUuid(cache, u)), new)
      /\ table' = [q \in DOMAIN table |->
                    IF table[q].uuid = u THEN [table[q] EXCEPT !.face = f] ELSE table[q]]
  BY <1>0 DEF UpdateFace, EveryRow, FirstEntry
<1> HIDE DEF new
<1>4. \A q \in DOMAIN table : table[q] \in Entry
  BY DEF StoreInv, TableOK
<1>5. /\ DOMAIN table' = DOMAIN table /\ table' \in [DOMAIN table -> Entry]
      /\ \A q \in DOMAIN table :
           table'[q].uuid = table[q].uuid /\ (table[q].uuid # u => table'[q] = table[q])
  BY <1>3, <1>4 DEF Entry
<1>6. ASSUME u \notin strays, NEW q \in DOMAIN table, NEW i \in DOMAIN cache,
             table[q].uuid = u, Alike(table[q], cache[i])
      PROVE  Alike(table'[q], cache'[i])
  <2>1. cache[i].uuid = u /\ cache[i] = old
    BY <1>6, <1>0, FirstOfUuid DEF Alike, StoreInv, Once
  <2>2. cache'[i] = new
    BY <1>0, <1>2, <1>3, <1>6, <2>1, ReplacedFirst
  <2>3. table'[q] = [table[q] EXCEPT !.face = f]
    BY <1>3, <1>6
  <2> QED
    BY <1>1, <1>2, <1>4, <1>6, <2>1, <2>2, <2>3 DEF Alike, Entry
<1>7. /\ DOMAIN cache' = DOMAIN cache /\ cache' \in Seq(Entry)
      /\ \A i \in DOMAIN cache :
           cache'[i].uuid = cache[i].uuid /\ (cache[i].uuid # u => cache'[i] = cache[i])
  BY <1>0, <1>2, <1>3, ReplacedFirst
<1> QED
  BY <1>5, <1>6, <1>7 DEF AlikeChange

\* clearAllFingerIds: everybody has no finger, in the table and in memory.
LEMMA ClearKeeps ==
  ASSUME StoreInv, ClearAllFingerIds, UNCHANGED << strays, loaded >>
  PROVE  StoreInv'
<1> USE DEF StoreInv
<1>1. /\ \A r \in DOMAIN table : table[r] \in Entry
      /\ \A i \in DOMAIN cache : cache[i] \in Entry
      /\ DOMAIN cache = 1 .. Len(cache) /\ Len(cache) \in Nat
  BY CacheEntries DEF TableOK, CacheOK
<1>2. /\ DOMAIN table' = DOMAIN table
      /\ \A r \in DOMAIN table : table'[r] = [table[r] EXCEPT !.finger = ZeroFinger]
      /\ DOMAIN cache' = DOMAIN cache
      /\ \A i \in DOMAIN cache : cache'[i] = [cache[i] EXCEPT !.finger = ZeroFinger]
  BY DEF ClearAllFingerIds
<1>3. \A e \in Entry : LET n == [e EXCEPT !.finger = ZeroFinger]
                      IN  /\ n \in Entry /\ n.uuid = e.uuid /\ n.card = e.card /\ n.face = e.face
                          /\ n.rule = e.rule /\ n.finger = ZeroFinger
  BY DEF Entry, ZeroFinger
<1>4. /\ \A r \in DOMAIN table : table'[r] \in Entry /\ table'[r].uuid = table[r].uuid
      /\ \A i \in DOMAIN cache : cache'[i] \in Entry /\ cache'[i].uuid = cache[i].uuid
  BY <1>1, <1>2, <1>3
<1>5. TableOK'
  <2>1. table' = [r \in DOMAIN table |-> [table[r] EXCEPT !.finger = ZeroFinger]]
    BY DEF ClearAllFingerIds
  <2> QED
    BY <2>1, <1>2, <1>4 DEF TableOK
<1>6. CacheOK'
  <2>1. cache' = [i \in 1 .. Len(cache) |-> [cache[i] EXCEPT !.finger = ZeroFinger]]
    BY <1>1 DEF ClearAllFingerIds
  <2>2. cache' \in [1 .. Len(cache) -> Entry]
    BY <2>1, <1>2, <1>4, <1>1
  <2> QED
    BY <2>2, <1>1 DEF CacheOK
<1>7. Once(table)' /\ Once(cache)'
  BY <1>2, <1>4 DEF Once
<1>8. EntryHasRow'
  <2> SUFFICES ASSUME NEW i \in DOMAIN cache, cache[i].uuid \notin strays
               PROVE  \E r \in DOMAIN table : Alike(table'[r], cache'[i])
    BY <1>2, <1>4 DEF EntryHasRow
  <2>1. PICK r \in DOMAIN table : Alike(table[r], cache[i])
    BY DEF EntryHasRow
  <2>2. /\ table[r] \in Entry /\ table'[r] = [table[r] EXCEPT !.finger = ZeroFinger]
        /\ cache[i] \in Entry /\ cache'[i] = [cache[i] EXCEPT !.finger = ZeroFinger]
    BY <1>1, <1>2
  <2>3. Alike(table'[r], cache'[i])
    BY <2>1, <2>2, <1>3 DEF Alike
  <2> QED
    BY <2>3
<1>9. RowHasEntry'
  BY <1>2, <1>4 DEF RowHasEntry
<1> QED
  BY <1>5, <1>6, <1>7, <1>8, <1>9

\* What is left of a list without its element at k.
LEMMA RemovedAt ==
  ASSUME NEW list \in Seq(Entry), NEW k \in DOMAIN list
  PROVE  /\ RemoveAt(list, k) \in Seq(Entry)
         /\ \A i \in DOMAIN RemoveAt(list, k) :
              \E j \in DOMAIN list \ {k} : RemoveAt(list, k)[i] = list[j]
         /\ \A j \in DOMAIN list \ {k} :
              \E i \in DOMAIN RemoveAt(list, k) : RemoveAt(list, k)[i] = list[j]
<1> DEFINE n == Len(list)
<1> DEFINE before == SubSeq(list, 1, k - 1)
<1> DEFINE after == SubSeq(list, k + 1, n)
<1>1. n \in Nat /\ DOMAIN list = 1 .. n /\ k \in 1 .. n /\ \A i \in 1 .. n : list[i] \in Entry
  BY CacheEntries
<1> HIDE DEF n
<1>2. /\ before \in Seq(Entry) /\ Len(before) = k - 1
      /\ \A i \in 1 .. k - 1 : before[i] = list[i]
  <2>1. 1 \in Int /\ k - 1 \in Int /\ \A i \in 1 .. k - 1 : list[i] \in Entry
    BY <1>1
  <2>2. /\ before \in Seq(Entry) /\ Len(before) = IF 1 <= k - 1 THEN (k - 1) - 1 + 1 ELSE 0
        /\ \A i \in 1 .. (k - 1) - 1 + 1 : before[i] = list[1 + i - 1]
    BY <2>1, SubSeqProperties
  <2> QED
    BY <2>2, <1>1
<1>3. /\ after \in Seq(Entry) /\ Len(after) = n - k
      /\ \A i \in 1 .. n - k : after[i] = list[k + i]
  <2>1. k + 1 \in Int /\ n \in Int /\ \A i \in k + 1 .. n : list[i] \in Entry
    BY <1>1
  <2>2. /\ after \in Seq(Entry) /\ Len(after) = IF k + 1 <= n THEN n - (k + 1) + 1 ELSE 0
        /\ \A i \in 1 .. n - (k + 1) + 1 : after[i] = list[(k + 1) + i - 1]
    BY <2>1, SubSeqProperties
  <2> QED
    BY <2>2, <1>1
<1>4. RemoveAt(list, k) = before \o after
  BY DEF RemoveAt, n
<1> HIDE DEF before, after
<1> DEFINE left == before \o after
<1>5. /\ left \in Seq(Entry) /\ Len(left) = n - 1
      /\ \A i \in 1 .. n - 1 : left[i] = IF i <= k - 1 THEN before[i] ELSE after[i - (k - 1)]
  <2>1. /\ left \in Seq(Entry) /\ Len(left) = Len(before) + Len(after)
        /\ \A i \in 1 .. Len(before) + Len(after) :
             left[i] = IF i <= Len(before) THEN before[i] ELSE after[i - Len(before)]
    BY <1>2, <1>3, ConcatProperties
  <2> QED
    BY <2>1, <1>1, <1>2, <1>3
<1> HIDE DEF left
<1>6. DOMAIN left = 1 .. n - 1
  BY <1>5, LenProperties
<1>7. \A i \in 1 .. n - 1 : left[i] = IF i < k THEN list[i] ELSE list[i + 1]
  <2> SUFFICES ASSUME NEW i \in 1 .. n - 1 PROVE left[i] = IF i < k THEN list[i] ELSE list[i + 1]
    OBVIOUS
  <2>1. CASE i < k
    <3>1. i \in 1 .. k - 1 /\ i <= k - 1
      BY <2>1, <1>1
    <3> QED
      BY <3>1, <2>1, <1>2, <1>5
  <2>2. CASE ~(i < k)
    <3>1. i - (k - 1) \in 1 .. n - k /\ ~(i <= k - 1) /\ k + (i - (k - 1)) = i + 1
      BY <2>2, <1>1
    <3>2. left[i] = after[i - (k - 1)]
      BY <3>1, <1>5
    <3> QED
      BY <3>1, <3>2, <2>2, <1>3
  <2> QED
    BY <2>1, <2>2
<1>8. ASSUME NEW i \in 1 .. n - 1 PROVE \E j \in DOMAIN list \ {k} : left[i] = list[j]
  <2>1. CASE i < k
    BY <2>1, <1>1, <1>7
  <2>2. CASE ~(i < k)
    <3>1. i + 1 \in DOMAIN list \ {k} /\ left[i] = list[i + 1]
      BY <2>2, <1>1, <1>7
    <3> QED
      BY <3>1
  <2> QED
    BY <2>1, <2>2
<1>9. ASSUME NEW j \in DOMAIN list \ {k} PROVE \E i \in 1 .. n - 1 : left[i] = list[j]
  <2>1. CASE j < k
    <3>1. j \in 1 .. n - 1 /\ left[j] = list[j]
      BY <2>1, <1>1, <1>7
    <3> QED
      BY <3>1
  <2>2. CASE ~(j < k)
    <3>1. j - 1 \in 1 .. n - 1 /\ ~(j - 1 < k) /\ (j - 1) + 1 = j
      BY <2>2, <1>1
    <3>2. left[j - 1] = list[j]
      BY <3>1, <1>7
    <3> QED
      BY <3>1, <3>2
  <2> QED
    BY <2>1, <2>2
<1>10. RemoveAt(list, k) = left
  BY <1>4 DEF left
<1> QED
  BY <1>5, <1>6, <1>8, <1>9, <1>10

\* An entry of u goes from memory.
LEMMA DroppedEntry ==
  ASSUME StoreInv, NEW u, DropEntry(u)
  PROVE  /\ CacheOK'
         /\ \A i \in DOMAIN cache' : \E j \in DOMAIN cache :
              cache'[i] = cache[j] /\ (u \notin strays => cache[j].uuid # u)
         /\ \A j \in DOMAIN cache : cache[j].uuid # u => \E i \in DOMAIN cache' : cache'[i] = cache[j]
<1>1. CASE WithUuid(cache, u) = {}
  <2>1. cache' = cache
    BY <1>1 DEF DropEntry
  <2>2. \A i \in DOMAIN cache : cache[i].uuid # u
    BY <1>1 DEF WithUuid
  <2> QED
    BY <2>1, <2>2 DEF StoreInv, CacheOK
<1>2. CASE WithUuid(cache, u) # {}
  <2> DEFINE k == First(WithUuid(cache, u))
  <2>1. k \in DOMAIN cache /\ cache[k].uuid = u
    BY <1>2, FirstOfUuid
  <2>2. cache' = RemoveAt(cache, k)
    BY <1>2 DEF DropEntry
  <2>3. cache \in Seq(Entry)
    BY DEF StoreInv, CacheOK
  <2> HIDE DEF k
  <2>4. /\ cache' \in Seq(Entry)
        /\ \A i \in DOMAIN cache' : \E j \in DOMAIN cache \ {k} : cache'[i] = cache[j]
        /\ \A j \in DOMAIN cache \ {k} : \E i \in DOMAIN cache' : cache'[i] = cache[j]
    BY <2>1, <2>2, <2>3, RemovedAt
  <2>5. u \notin strays => \A j \in DOMAIN cache \ {k} : cache[j].uuid # u
    BY <2>1 DEF StoreInv, Once
  <2> QED
    BY <2>1, <2>4, <2>5 DEF CacheOK
<1> QED
  BY <1>1, <1>2

\* DelPersonByPersionUUIDFromDBAndRAM: the rows and the entry of u go, or u is
\* a stray.
LEMMA DeleteKeeps ==
  ASSUME StoreInv, NEW u \in Uuids, NEW succeeds \in BOOLEAN, DelPerson(u, succeeds), loaded' = loaded
  PROVE  StoreInv'
<1> USE DEF StoreInv
<1>1. DropEntry(u) /\ Noted(IF succeeds THEN {} ELSE {u})
  BY DEF DelPerson
<1>2. /\ DOMAIN table' \subseteq DOMAIN table
      /\ \A r \in DOMAIN table' : table'[r] = table[r]
      /\ \A r \in DOMAIN table : table[r].uuid # u => r \in DOMAIN table'
      /\ succeeds => \A r \in DOMAIN table' : table[r].uuid # u
      /\ table' \in [DOMAIN table' -> Entry]
  <2>1. CASE succeeds
    <3>1. table' = [r \in DOMAIN table \ WithUuid(table, u) |-> table[r]]
      BY <2>1 DEF DelPerson, Restrict
    <3> QED
      BY <3>1, <2>1 DEF WithUuid, TableOK
  <2>2. CASE ~succeeds
    BY <2>2 DEF DelPerson, TableOK
  <2> QED
    BY <2>1, <2>2
<1>3. TableOK'
  BY <1>2, FS_Subset DEF TableOK
<1>4. /\ CacheOK'
      /\ \A i \in DOMAIN cache' : \E j \in DOMAIN cache :
           cache'[i] = cache[j] /\ (u \notin strays => cache[j].uuid # u)
      /\ \A j \in DOMAIN cache : cache[j].uuid # u => \E i \in DOMAIN cache' : cache'[i] = cache[j]
  BY <1>1, DroppedEntry
<1>5. /\ Once(table)' /\ Once(cache)' /\ strays \subseteq strays'
      /\ ~succeeds => u \in strays'
  BY <1>1, <1>3, <1>4, NotedOnce
<1>6. strays' \subseteq Uuids
  BY <1>1 DEF Noted, Doubled
<1>7. EntryHasRow'
  <2> SUFFICES ASSUME NEW i \in DOMAIN cache', cache'[i].uuid \notin strays'
               PROVE  \E r \in DOMAIN table' : Alike(table'[r], cache'[i])
    BY DEF EntryHasRow
  <2>1. PICK j \in DOMAIN cache : cache'[i] = cache[j] /\ (u \notin strays => cache[j].uuid # u)
    BY <1>4
  <2>2. PICK r \in DOMAIN table : Alike(table[r], cache[j])
    BY <1>5, <2>1 DEF EntryHasRow
  <2>3. table[r].uuid # u
    BY <1>5, <2>1, <2>2 DEF Alike
  <2> QED
    BY <1>2, <2>1, <2>2, <2>3
<1>8. RowHasEntry'
  <2> SUFFICES ASSUME loaded, NEW r \in DOMAIN table', table'[r].uuid \notin strays'
               PROVE  \E i \in DOMAIN cache' : cache'[i].uuid = table'[r].uuid
    BY DEF RowHasEntry
  <2>1. r \in DOMAIN table /\ table'[r] = table[r] /\ table[r].uuid \notin strays /\ table[r].uuid # u
    BY <1>2, <1>5
  <2>2. PICK j \in DOMAIN cache : cache[j].uuid = table[r].uuid
    BY <2>1 DEF RowHasEntry
  <2> QED
    BY <1>4, <2>1, <2>2
<1> QED
  BY <1>3, <1>4, <1>5, <1>6, <1>7, <1>8

\* A new row gets a personid that none has.
LEMMA NewPersonid ==
  ASSUME TableOK
  PROVE  getPersonMaxid \in Nat \ {0} /\ getPersonMaxid \notin DOMAIN table
<1>1. CASE DOMAIN table = {}
  BY <1>1 DEF getPersonMaxid
<1>2. CASE DOMAIN table # {}
  <2> DEFINE last == CHOOSE r \in DOMAIN table : \A q \in DOMAIN table : q <= r
  <2>1. \E r \in DOMAIN table : \A q \in DOMAIN table : q <= r
    BY <1>2, LargestExists DEF TableOK
  <2>2. last \in DOMAIN table /\ \A q \in DOMAIN table : q <= last
    BY <2>1
  <2>3. getPersonMaxid = 1 + last
    BY <1>2 DEF getPersonMaxid
  <2> HIDE DEF last
  <2>4. last \in Nat
    BY <2>2 DEF TableOK
  <2>5. 1 + last \notin DOMAIN table
    BY <2>2, <2>4
  <2> QED
    BY <2>3, <2>4, <2>5
<1> QED
  BY <1>1, <1>2

\* The place of the entry that is written: a new one, or that of somebody with
\* the same employee number, who is noted if he is another.
LEMMA AddedEntry ==
  ASSUME StoreInv, NEW known \in BOOLEAN, NEW p \in Entry, AddEntry(known, p)
  PROVE  /\ CacheOK'
         /\ \E m \in DOMAIN cache' :
              /\ cache'[m] = p
              /\ DOMAIN cache' = DOMAIN cache \cup {m}
              /\ \A i \in DOMAIN cache' : i # m => cache'[i] = cache[i]
              /\ m \in DOMAIN cache => cache[m].uuid \in Displaced(known, p) \cup {p.uuid}
<1> DEFINE old == WithCard(cache, p.card)
<1>1. cache \in Seq(Entry) /\ Len(cache) \in Nat /\ DOMAIN cache = 1 .. Len(cache)
  BY CacheEntries DEF StoreInv, CacheOK
<1>2. CASE known /\ old # {}
  <2> DEFINE k == First(old)
  <2>1. k \in DOMAIN cache
    <3>1. old \in SUBSET Nat /\ old \subseteq DOMAIN cache
      BY <1>1 DEF WithCard
    <3> QED
      BY <1>2, <3>1, FirstIsMember
  <2>2. cache' = [cache EXCEPT ![k] = p]
    BY <1>2 DEF AddEntry, ReplaceAt
  <2>3. Displaced(known, p) = {cache[k].uuid} \ {p.uuid}
    BY <1>2 DEF Displaced
  <2> HIDE DEF k
  <2>4. /\ cache' \in Seq(Entry) /\ DOMAIN cache' = DOMAIN cache
        /\ \A i \in DOMAIN cache : cache'[i] = IF i = k THEN p ELSE cache[i]
    BY <1>1, <2>1, <2>2, ExceptSeq, LenProperties
  <2> QED
    BY <2>1, <2>3, <2>4 DEF CacheOK
<1>3. CASE ~(known /\ old # {})
  <2>1. cache' = Append(cache, p)
    BY <1>3 DEF AddEntry
  <2> DEFINE m == Len(cache) + 1
  <2>2. /\ cache' \in Seq(Entry) /\ Len(cache') = m
        /\ \A i \in 1 .. Len(cache) : cache'[i] = cache[i]
        /\ cache'[m] = p
    BY <1>1, <2>1, AppendProperties
  <2>3. DOMAIN cache' = 1 .. m
    BY <2>2, LenProperties
  <2>4. m \in DOMAIN cache' /\ m \notin DOMAIN cache /\ DOMAIN cache' = DOMAIN cache \cup {m}
    BY <1>1, <2>3
  <2>5. \A i \in DOMAIN cache' : i # m => cache'[i] = cache[i]
    BY <1>1, <2>2, <2>4
  <2> HIDE DEF m
  <2> QED
    BY <2>2, <2>4, <2>5 DEF CacheOK
<1> QED
  BY <1>2, <1>3

\* RegPersonToDBAndRAM writes row and p, with the same content, at the places id
\* and m; a person of another name who had one of the places is a stray.
Registration(row, p, id, m) ==
  /\ Alike(row, p)
  /\ id \in DOMAIN table => table[id].uuid = row.uuid
  /\ DOMAIN table' = DOMAIN table \cup {id} /\ table'[id] = row
  /\ \A q \in DOMAIN table : q # id => table'[q] = table[q]
  /\ m \in DOMAIN cache => cache[m].uuid \in strays' \cup {row.uuid}
  /\ DOMAIN cache' = DOMAIN cache \cup {m} /\ cache'[m] = p
  /\ \A i \in DOMAIN cache' : i # m => cache'[i] = cache[i]

LEMMA Registered ==
  ASSUME StoreInv, NEW u \in Uuids, NEW c \in AnyCard, NEW f \in AnyFace, NEW r \in AnyRule,
         RegPerson(u, c, f, r)
  PROVE  /\ TableOK' /\ CacheOK' /\ Once(table)' /\ Once(cache)'
         /\ strays \subseteq strays' /\ strays' \subseteq Uuids
         /\ \E row, p \in Entry, id \in DOMAIN table', m \in DOMAIN cache' : Registration(row, p, id, m)
<1> DEFINE rows == WithCard(table, c)
<1> DEFINE uuid == IF rows = {} THEN u ELSE table[First(rows)].uuid
<1> DEFINE row == Person(uuid, c, f, r, NoFinger)
<1> DEFINE p == [row EXCEPT !.finger = ZeroFinger]
<1> DEFINE id == IF rows = {} THEN getPersonMaxid ELSE First(rows)
<1> USE DEF StoreInv
<1>1. /\ table' = [q \in DOMAIN table \cup {id} |-> IF q = id THEN row ELSE table[q]]
      /\ AddEntry(rows # {}, p)
      /\ Noted(Displaced(rows # {}, row))
  BY DEF RegPerson
<1>2. \A q \in DOMAIN table : table[q] \in Entry /\ q \in Nat \ {0}
  BY DEF TableOK
<1>4. id \in Nat \ {0} /\ uuid \in Uuids /\ (id \in DOMAIN table => table[id].uuid = uuid)
  <2>1. CASE rows = {}
    BY <2>1, NewPersonid
  <2>2. CASE rows # {}
    <3>1. rows \in SUBSET Nat /\ rows \subseteq DOMAIN table
      BY <1>2 DEF WithCard
    <3>2. First(rows) \in DOMAIN table
      BY <2>2, <3>1, FirstIsMember
    <3> QED
      BY <2>2, <3>2, <1>2, EntryFields
  <2> QED
    BY <2>1, <2>2
<1> HIDE DEF id, uuid
<1>5. /\ row \in Entry /\ row.uuid = uuid /\ p \in Entry /\ p.uuid = uuid
      /\ Alike(row, p) /\ Displaced(rows # {}, row) = Displaced(rows # {}, p)
  <2>1. row \in Entry /\ row.uuid = uuid /\ row.finger = -1
    BY <1>4 DEF Person, Entry, NoFinger
  <2> HIDE DEF row
  <2>2. /\ p \in Entry /\ p.uuid = row.uuid /\ p.card = row.card /\ p.face = row.face
        /\ p.rule = row.rule /\ p.finger = 0
    BY <2>1 DEF Entry, ZeroFinger
  <2> HIDE DEF p
  <2>3. Alike(row, p)
    BY <2>1, <2>2 DEF Alike
  <2>4. Displaced(rows # {}, row) = Displaced(rows # {}, p)
    BY <2>2 DEF Displaced
  <2> QED
    BY <2>1, <2>2, <2>3, <2>4
<1> HIDE DEF row, p
<1>6. /\ DOMAIN table' = DOMAIN table \cup {id}
      /\ table'[id] = row
      /\ \A q \in DOMAIN table : q # id => table'[q] = table[q]
      /\ table' \in [DOMAIN table' -> Entry]
  BY <1>1, <1>2, <1>5
<1>7. TableOK'
  BY <1>4, <1>6, FS_AddElement DEF TableOK
<1>8. PICK m \in DOMAIN cache' :
        /\ cache'[m] = p
        /\ DOMAIN cache' = DOMAIN cache \cup {m}
        /\ \A i \in DOMAIN cache' : i # m => cache'[i] = cache[i]
        /\ m \in DOMAIN cache => cache[m].uuid \in Displaced(rows # {}, p) \cup {p.uuid}
  BY <1>1, <1>5, AddedEntry
<1>9. CacheOK'
  BY <1>1, <1>5, AddedEntry
<1>10. Once(table)' /\ Once(cache)' /\ Displaced(rows # {}, p) \subseteq strays' /\ strays \subseteq strays'
  BY <1>1, <1>5, <1>7, <1>9, NotedOnce
<1>11. strays' \subseteq Uuids
  <2>1. Displaced(rows # {}, row) \subseteq Uuids
    <3>1. \A k \in DOMAIN cache : cache[k].uuid \in Uuids
      BY CacheEntries, EntryFields DEF CacheOK
    <3>2. WithCard(cache, row.card) # {} => First(WithCard(cache, row.card)) \in DOMAIN cache
      <4>1. WithCard(cache, row.card) \in SUBSET Nat /\ WithCard(cache, row.card) \subseteq DOMAIN cache
        BY CacheEntries DEF WithCard, CacheOK
      <4> QED
        BY <4>1, FirstIsMember
    <3> QED
      BY <3>1, <3>2 DEF Displaced
  <2> QED
    BY <1>1, <2>1 DEF Noted, Doubled
<1>12. Registration(row, p, id, m)
  BY <1>4, <1>5, <1>6, <1>8, <1>10 DEF Registration
<1>13. row \in Entry /\ p \in Entry /\ id \in DOMAIN table'
  BY <1>5, <1>6
<1> QED
  BY <1>7, <1>9, <1>10, <1>11, <1>12, <1>13

\* Row and entry get the same content; whose entry was taken, and who has two of
\* them now, is a stray.
LEMMA RegisterKeeps ==
  ASSUME StoreInv, NEW u \in Uuids, NEW c \in AnyCard, NEW f \in AnyFace, NEW r \in AnyRule,
         RegPerson(u, c, f, r), loaded' = loaded
  PROVE  StoreInv'
<1> USE DEF StoreInv
<1>1. /\ TableOK' /\ CacheOK' /\ Once(table)' /\ Once(cache)'
      /\ strays \subseteq strays' /\ strays' \subseteq Uuids
  BY Registered
<1>2. PICK row, p \in Entry, id \in DOMAIN table', m \in DOMAIN cache' : Registration(row, p, id, m)
  BY Registered
<1> USE <1>2 DEF Registration
<1>3. row.uuid = p.uuid
  BY DEF Alike
<1>4. EntryHasRow'
  <2> SUFFICES ASSUME NEW i \in DOMAIN cache', cache'[i].uuid \notin strays'
               PROVE  \E q \in DOMAIN table' : Alike(table'[q], cache'[i])
    BY DEF EntryHasRow
  <2>1. CASE i = m
    BY <2>1
  <2>2. CASE i # m
    <3>1. i \in DOMAIN cache /\ cache'[i] = cache[i] /\ cache[i].uuid \notin strays
      BY <2>2, <1>1
    <3>2. PICK q \in DOMAIN table : Alike(table[q], cache[i])
      BY <3>1 DEF EntryHasRow
    <3>3. q # id
      <4> SUFFICES ASSUME q = id PROVE FALSE
        OBVIOUS
      <4>1. cache'[i].uuid = cache'[m].uuid
        BY <1>3, <3>1, <3>2 DEF Alike
      <4> QED
        BY <4>1, <2>2, <1>1 DEF Once
    <3> QED
      BY <3>1, <3>2, <3>3
  <2> QED
    BY <2>1, <2>2
<1>5. RowHasEntry'
  <2> SUFFICES ASSUME loaded, NEW q \in DOMAIN table', table'[q].uuid \notin strays'
               PROVE  \E i \in DOMAIN cache' : cache'[i].uuid = table'[q].uuid
    BY DEF RowHasEntry
  <2>1. CASE q = id
    BY <2>1, <1>3
  <2>2. CASE q # id
    <3>1. q \in DOMAIN table /\ table'[q] = table[q] /\ table[q].uuid \notin strays
      BY <2>2, <1>1
    <3>2. PICK i \in DOMAIN cache : cache[i].uuid = table[q].uuid
      BY <3>1 DEF RowHasEntry
    <3>3. CASE i = m
      <4>1. cache[m].uuid = p.uuid
        BY <1>1, <1>3, <2>2, <3>1, <3>2, <3>3
      <4> QED
        BY <4>1, <3>1, <3>2, <3>3
    <3>4. CASE i # m
      BY <3>1, <3>2, <3>4
    <3> QED
      BY <3>3, <3>4
  <2> QED
    BY <2>1, <2>2
<1> QED
  BY <1>1, <1>4, <1>5

-----------------------------------------------------------------------------
(* The threads *)

\* run(): every row gets an entry with its content; who had one is a stray.
LEMMA LoadKeeps == ASSUME StoreInv, Load PROVE StoreInv'
<1> USE DEF StoreInv
<1> DEFINE n == Cardinality(DOMAIN table)
<1>1. n \in Nat
  BY FS_CardinalityType DEF TableOK
<1>2. PICK ids \in [1 .. n -> DOMAIN table] :
        InOrder(ids) /\ cache' = cache \o [i \in DOMAIN ids |-> table[ids[i]]]
  BY DEF Load
<1>3. table' = table /\ ~loaded /\ Noted({})
  BY DEF Load
<1> HIDE DEF n
<1> DEFINE rows == [i \in 1 .. n |-> table[ids[i]]]
<1>4. \A r \in DOMAIN table : table[r] \in Entry /\ \E i \in 1 .. n : ids[i] = r
  BY <1>2 DEF InOrder, Range, TableOK
<1>5. \A i \in 1 .. n : ids[i] \in DOMAIN table /\ rows[i] = table[ids[i]] /\ rows[i] \in Entry
  BY <1>2, <1>4
<1>6. rows \in Seq(Entry) /\ Len(rows) = n /\ cache' = cache \o rows
  <2>1. rows \in [1 .. n -> Entry]
    BY <1>5
  <2> QED
    BY <2>1, <1>1, <1>2
<1> HIDE DEF rows
<1>7. cache \in Seq(Entry) /\ Len(cache) \in Nat /\ DOMAIN cache = 1 .. Len(cache)
  BY CacheEntries DEF CacheOK
<1> DEFINE k == Len(cache)
<1>8. /\ cache' \in Seq(Entry) /\ Len(cache') = k + n
      /\ \A i \in 1 .. k + n : cache'[i] = IF i <= k THEN cache[i] ELSE rows[i - k]
  BY <1>6, <1>7, ConcatProperties
<1>9. DOMAIN cache' = 1 .. k + n
  BY <1>8, LenProperties
<1> HIDE DEF k
<1>10. TableOK' /\ CacheOK'
  BY <1>3, <1>8 DEF TableOK, CacheOK
<1>11. Once(table)' /\ Once(cache)' /\ strays \subseteq strays'
  BY <1>3, <1>10, NotedOnce
<1>12. strays' \subseteq Uuids
  BY <1>3 DEF Noted, Doubled
<1>13. EntryHasRow'
  <2> SUFFICES ASSUME NEW i \in 1 .. k + n, cache'[i].uuid \notin strays'
               PROVE  \E r \in DOMAIN table : Alike(table[r], cache'[i])
    BY <1>3, <1>9 DEF EntryHasRow
  <2>1. CASE i <= k
    <3>1. i \in DOMAIN cache /\ cache'[i] = cache[i] /\ cache[i].uuid \notin strays
      BY <2>1, <1>7, <1>8, <1>11 DEF k
    <3> QED
      BY <3>1 DEF EntryHasRow
  <2>2. CASE ~(i <= k)
    <3>1. i - k \in 1 .. n /\ cache'[i] = rows[i - k]
      BY <2>2, <1>1, <1>7, <1>8 DEF k
    <3> QED
      BY <3>1, <1>5 DEF Alike
  <2> QED
    BY <2>1, <2>2
<1>14. RowHasEntry'
  <2> SUFFICES ASSUME NEW r \in DOMAIN table
               PROVE  \E i \in 1 .. k + n : cache'[i].uuid = table[r].uuid
    BY <1>3, <1>9 DEF RowHasEntry
  <2>1. PICK i \in 1 .. n : ids[i] = r
    BY <1>4
  <2>2. /\ k + i \in 1 .. k + n /\ ~(k + i <= k) /\ (k + i) - k = i
    BY <1>1, <1>7 DEF k
  <2>3. cache'[k + i] = rows[i]
    BY <2>2, <1>8
  <2> QED
    BY <2>1, <2>2, <2>3, <1>5
<1> QED
  BY <1>10, <1>11, <1>12, <1>13, <1>14

\* After a restart memory is empty, and who has two rows is a stray.
LEMMA RestartKeeps ==
  ASSUME StoreInv, NEW rows \in {table, NoRows}, StoreRestart(rows)
  PROVE  StoreInv'
<1>1. table' = rows /\ cache' = << >> /\ loaded' = FALSE /\ strays' = Doubled(rows)
  BY DEF StoreRestart
<1>2. TableOK'
  <2>1. CASE rows = table
    BY <1>1, <2>1 DEF StoreInv, TableOK
  <2>2. CASE rows = NoRows
    <3>1. DOMAIN table' = {} /\ table' = [r \in {} |-> r]
      BY <1>1, <2>2 DEF NoRows
    <3> QED
      BY <3>1, FS_EmptySet DEF TableOK
  <2> QED
    BY <2>1, <2>2
<1>3. CacheOK' /\ DOMAIN cache' = {}
  BY <1>1 DEF CacheOK
<1>4. Once(table)'
  <2> SUFFICES ASSUME NEW i \in DOMAIN table', NEW j \in DOMAIN table',
                      table'[i].uuid \notin strays', table'[i].uuid = table'[j].uuid
               PROVE  i = j
    BY DEF Once
  <2>1. table'[i].uuid \in Uuids /\ IsFiniteSet(DOMAIN table')
    BY <1>2, EntryFields DEF TableOK
  <2> QED
    BY <2>1, <1>1, NotDoubled
<1>5. strays' \subseteq Uuids
  BY <1>1 DEF Doubled
<1> QED
  BY <1>1, <1>2, <1>3, <1>4, <1>5 DEF StoreInv, Once, EntryHasRow, RowHasEntry

\* A change of one person, and what is noted by it.
LEMMA NotedChange ==
  ASSUME StoreInv, NEW u \in Uuids, AlikeChange(u), Noted({}), loaded' = loaded
  PROVE  StoreInv'
<1>1. strays \subseteq strays' /\ strays' \subseteq Uuids
  BY DEF Noted, Doubled, StoreInv
<1> QED
  BY <1>1, ChangeKeeps

LEMMA GivenTypes == ASSUME NEW g \in Given PROVE g[1] \in AnyFace /\ g[2] \in AnyRule
  BY StoreAssumption DEF AnyFace, AnyRule

LEMMA StoreStep == ASSUME StoreInv, job \subseteq Uuids, StoreNext PROVE StoreInv'
<1>1. ASSUME AddPerson PROVE StoreInv'
  BY <1>1, GivenTypes, RegisterKeeps DEF AddPerson
<1>2. ASSUME ChangePerson PROVE StoreInv'
  <2>1. PICK u \in Uuids, c \in AnyCard, r \in AnyRule : UpdatePerson(u, c, NoFace, r)
    BY <1>2 DEF ChangePerson
  <2>2. AlikeChange(u)
    BY <2>1, PersonChange DEF AnyFace
  <2>3. Noted({}) /\ loaded' = loaded
    BY <1>2, <2>1 DEF ChangePerson, UpdatePerson
  <2> QED
    BY <2>2, <2>3, NotedChange
<1>3. ASSUME ChangeFace PROVE StoreInv'
  <2>1. PICK u \in Uuids, f \in Faces : UpdateFace(u, f)
    BY <1>3 DEF ChangeFace
  <2>2. AlikeChange(u)
    BY <2>1, FaceChange DEF AnyFace
  <2>3. Noted({}) /\ loaded' = loaded
    BY <1>3, <2>1 DEF ChangeFace, UpdateFace
  <2> QED
    BY <2>2, <2>3, NotedChange
<1>4. ASSUME DeletePerson PROVE StoreInv'
  BY <1>4, DeleteKeeps DEF DeletePerson
<1>5. ASSUME UNCHANGED << table, cache, strays, loaded >> PROVE StoreInv'
  BY <1>5 DEF StoreInv, TableOK, CacheOK, Once, EntryHasRow, RowHasEntry
<1>6. ASSUME SyncDelete PROVE StoreInv'
  <2>1. PICK u \in Uuids : IF WithUuid(cache, u) = {}
                           THEN UNCHANGED << table, cache, strays >>
                           ELSE \E succeeds \in BOOLEAN : DelPerson(u, succeeds)
    BY <1>6 DEF SyncDelete
  <2> QED
    BY <2>1, <1>5, <1>6, DeleteKeeps DEF SyncDelete
<1>7. ASSUME SyncAdd PROVE StoreInv'
  <2>1. CASE \E u \in job, c \in AnyCard, g \in Given :
               g[1] # NoFace /\ RegPerson(u, c, g[1], g[2])
    BY <2>1, <1>7, GivenTypes, RegisterKeeps DEF SyncAdd
  <2>2. CASE UNCHANGED << table, cache, strays >>
    BY <2>2, <1>5, <1>7 DEF SyncAdd
  <2> QED
    BY <1>7, <2>1, <2>2 DEF SyncAdd
<1> QED
  BY <1>1, <1>2, <1>3, <1>4, <1>6, <1>7, LoadKeeps DEF StoreNext

\* The rest of the types: the flag, the job and the number of changes.
LEMMA StoreStepTypes ==
  ASSUME loaded \in BOOLEAN, job \subseteq Uuids, edits \in 0 .. MaxEdits, NEW rows,
         StoreNext \/ StoreRestart(rows)
  PROVE  loaded' \in BOOLEAN /\ job' \subseteq Uuids /\ edits' \in 0 .. MaxEdits
<1>0. MaxEdits \in Nat
  BY StoreAssumption
<1> USE <1>0 DEF Edit, NoJob
<1>1. CASE AddPerson \/ ChangePerson \/ ChangeFace \/ DeletePerson
  BY <1>1 DEF AddPerson, ChangePerson, ChangeFace, DeletePerson
<1>2. CASE SyncDelete
  BY <1>2 DEF SyncDelete
<1>3. CASE SyncAdd \/ Load
  BY <1>3 DEF SyncAdd, Load
<1>4. CASE StoreRestart(rows)
  <2>1. edits < MaxEdits /\ edits' = edits + 1 /\ loaded' = FALSE /\ job' = {}
    BY ONLY <1>4, Zenon DEF StoreRestart, Edit, NoJob
  <2>2. edits' \in 0 .. MaxEdits
    BY ONLY <2>1, <1>0, edits \in 0 .. MaxEdits
  <2> QED
    BY ONLY <2>1, <2>2, Zenon
<1> QED
  BY <1>1, <1>2, <1>3, <1>4 DEF StoreNext

LEMMA StoreStart == StoreInit => StoreInv /\ StoreTypeOK
<1> SUFFICES ASSUME StoreInit PROVE StoreInv /\ StoreTypeOK
  OBVIOUS
<1>1. table = [r \in {} |-> Nat] /\ DOMAIN table = {} /\ cache = << >> /\ DOMAIN cache = {}
  <2>1. table = << >> /\ cache = << >>
    BY DEF StoreInit, NoRows
  <2>2. << >> = [r \in {} |-> Nat] /\ DOMAIN << >> = {}
    OBVIOUS
  <2> QED
    BY <2>1, <2>2
<1>2. TableOK
  BY <1>1, FS_EmptySet DEF TableOK
<1>3. CacheOK
  BY <1>1 DEF CacheOK
<1>4. loaded = FALSE /\ job = {} /\ edits = 0 /\ strays = {}
  BY DEF StoreInit, NoJob
<1>5. StoreInv
  BY <1>1, <1>2, <1>3, <1>4 DEF StoreInv, Once, EntryHasRow, RowHasEntry
<1>6. StoreTypeOK
  <2>1. MaxEdits \in Nat
    BY StoreAssumption
  <2>2. edits \in 0 .. MaxEdits
    BY ONLY <1>4, <2>1
  <2>3. loaded \in BOOLEAN /\ job \subseteq Uuids /\ strays \subseteq Uuids
    BY ONLY <1>4, Zenon
  <2> QED
    BY <1>2, <1>3, <2>2, <2>3, Zenon DEF StoreTypeOK, TableOK, CacheOK
<1> QED
  BY <1>5, <1>6

\* What is alike is said alike.
LEMMA SaidAlike == StoreInv => StoreAgrees
<1> SUFFICES ASSUME StoreInv, loaded, NEW u \in Uuids, u \notin strays
             PROVE  Said(cache, u) = Said(table, u)
  BY DEF StoreAgrees
<1> DEFINE Norm(e) == [e EXCEPT !.finger = IF @ > 0 THEN @ ELSE 0]
<1>1. /\ \A i \in DOMAIN cache : cache[i] \in Entry
      /\ \A r \in DOMAIN table : table[r] \in Entry
  BY CacheEntries DEF StoreInv, TableOK, CacheOK
<1>2. ASSUME NEW row \in Entry, NEW e \in Entry, Alike(row, e) PROVE Norm(row) = Norm(e)
  <2>1. row.finger \in Int /\ e.finger \in Int
    BY EntryFields
  <2>2. (IF row.finger > 0 THEN row.finger ELSE 0) = (IF e.finger > 0 THEN e.finger ELSE 0)
    BY <1>2, <2>1 DEF Alike
  <2> DEFINE n == IF e.finger > 0 THEN e.finger ELSE 0
  <2>3. Norm(row) = [row EXCEPT !.finger = n] /\ Norm(e) = [e EXCEPT !.finger = n]
    BY <2>2
  <2> HIDE DEF n
  <2> QED
    BY <1>2, <2>3 DEF Alike, Entry
<1>3. ASSUME NEW i \in WithUuid(cache, u)
      PROVE  \E r \in WithUuid(table, u) : Alike(table[r], cache[i])
  BY DEF StoreInv, EntryHasRow, WithUuid, Alike
<1>4. ASSUME NEW r \in WithUuid(table, u)
      PROVE  \E i \in WithUuid(cache, u) : Alike(table[r], cache[i])
  <2>1. PICK i \in WithUuid(cache, u) : TRUE
    BY DEF StoreInv, RowHasEntry, WithUuid
  <2>2. PICK q \in WithUuid(table, u) : Alike(table[q], cache[i])
    BY <1>3
  <2>3. q = r
    BY DEF StoreInv, Once, WithUuid
  <2> QED
    BY <2>2, <2>3
<1>5. /\ Said(cache, u) = {Norm(cache[i]) : i \in WithUuid(cache, u)}
      /\ Said(table, u) = {Norm(table[r]) : r \in WithUuid(table, u)}
  BY Zenon DEF Said
<1>6. /\ \A i \in WithUuid(cache, u) : \E r \in WithUuid(table, u) : Norm(cache[i]) = Norm(table[r])
      /\ \A r \in WithUuid(table, u) : \E i \in WithUuid(cache, u) : Norm(cache[i]) = Norm(table[r])
  <2>1. WithUuid(cache, u) \subseteq DOMAIN cache /\ WithUuid(table, u) \subseteq DOMAIN table
    BY DEF WithUuid
  <2> HIDE DEF Norm
  <2> QED
    BY <1>1, <1>2, <1>3, <1>4, <2>1
<1> HIDE DEF Norm
<1> QED
  BY <1>5, <1>6

-----------------------------------------------------------------------------
(* The numbers of the fingers *)

\* No row gets a number: it has none, or somebody's row had it already.
NoNewNumber ==
  \A r \in DOMAIN table' :
    \/ table'[r].finger = NoFinger
    \/ \E q \in DOMAIN table : table'[r].finger = table[q].finger /\ table'[r].uuid = table[q].uuid

\* The server and the panel's forms for persons give nobody a number.
LEMMA StoreNumbers == ASSUME StoreInv, job \subseteq Uuids, StoreNext PROVE NoNewNumber
<1> USE DEF NoNewNumber
<1>1. ASSUME NEW u \in Uuids, NEW c \in AnyCard, NEW f \in AnyFace, NEW t \in AnyRule,
             RegPerson(u, c, f, t)
      PROVE  NoNewNumber
  <2> DEFINE row == Person(IF WithCard(table, c) = {} THEN u ELSE table[First(WithCard(table, c))].uuid,
                           c, f, t, NoFinger)
  <2> DEFINE id == IF WithCard(table, c) = {} THEN getPersonMaxid ELSE First(WithCard(table, c))
  <2>1. table' = [q \in DOMAIN table \cup {id} |-> IF q = id THEN row ELSE table[q]]
    BY <1>1 DEF RegPerson
  <2>2. row.finger = NoFinger
    BY DEF Person
  <2> HIDE DEF id, row
  <2> QED
    BY <2>1, <2>2
<1>2. ASSUME NEW u \in Uuids, NEW c \in AnyCard, NEW t \in AnyRule, UpdatePerson(u, c, NoFace, t)
      PROVE  NoNewNumber
  <2>1. AlikeChange(u)
    BY <1>2, PersonChange DEF AnyFace
  <2>2. \A q \in DOMAIN table : table'[q].uuid = table[q].uuid
    BY <2>1 DEF AlikeChange
  <2>3. ASSUME NEW q \in DOMAIN table PROVE table'[q].finger = table[q].finger
    <3>1. CASE table[q].uuid # u
      BY <2>1, <3>1 DEF AlikeChange
    <3>2. CASE table[q].uuid = u
      <4> DEFINE old == cache[First(WithUuid(cache, u))]
      <4> DEFINE new == [old EXCEPT !.card = IF c = NoCard THEN @ ELSE c,
                                    !.rule = IF t = NoRule THEN @ ELSE t,
                                    !.face = NoFace]
      <4>1. table'[q] = [new EXCEPT !.finger = table[q].finger]
        BY <1>2, <3>2 DEF UpdatePerson, EveryRow
      <4>2. new \in Entry
        <5>1. old \in Entry
          BY <1>2, FirstOfUuid, CacheEntries DEF UpdatePerson, StoreInv, CacheOK
        <5> QED
          BY <5>1 DEF Entry, AnyFace
      <4> HIDE DEF new
      <4> QED
        BY <4>1, <4>2 DEF Entry
    <3> QED
      BY <3>1, <3>2
  <2> QED
    BY <2>1, <2>2, <2>3 DEF AlikeChange
<1>3. ASSUME NEW u \in Uuids, NEW f \in AnyFace, UpdateFace(u, f) PROVE NoNewNumber
  <2>1. table' = [q \in DOMAIN table |->
                   IF table[q].uuid = u THEN [table[q] EXCEPT !.face = f] ELSE table[q]]
    BY <1>3 DEF UpdateFace, EveryRow
  <2>2. \A q \in DOMAIN table : table[q] \in Entry
    BY DEF StoreInv, TableOK
  <2> QED
    BY <2>1, <2>2 DEF Entry
<1>4. ASSUME NEW u \in Uuids, NEW succeeds \in BOOLEAN, DelPerson(u, succeeds) PROVE NoNewNumber
  <2>1. CASE succeeds
    <3>1. table' = [q \in DOMAIN table \ WithUuid(table, u) |-> table[q]]
      BY <1>4, <2>1 DEF DelPerson, Restrict
    <3> QED
      BY <3>1
  <2>2. CASE ~succeeds
    BY <1>4, <2>2 DEF DelPerson
  <2> QED
    BY <2>1, <2>2
<1>5. ASSUME table' = table PROVE NoNewNumber
  BY <1>5
<1> HIDE DEF NoNewNumber
<1>6. CASE AddPerson
  BY <1>1, <1>6, GivenTypes DEF AddPerson
<1>7. CASE ChangePerson
  BY <1>2, <1>7 DEF ChangePerson
<1>8. CASE ChangeFace
  BY <1>3, <1>8 DEF ChangeFace, AnyFace
<1>9. CASE DeletePerson
  BY <1>4, <1>9 DEF DeletePerson
<1>10. CASE SyncDelete
  <2>1. PICK u \in Uuids : IF WithUuid(cache, u) = {}
                           THEN UNCHANGED << table, cache, strays >>
                           ELSE \E succeeds \in BOOLEAN : DelPerson(u, succeeds)
    BY <1>10 DEF SyncDelete
  <2> QED
    BY <2>1, <1>4, <1>5
<1>11. CASE SyncAdd
  BY <1>11, <1>1, <1>5, GivenTypes DEF SyncAdd
<1>12. CASE Load
  BY <1>12, <1>5 DEF Load
<1> QED
  BY <1>6, <1>7, <1>8, <1>9, <1>10, <1>11, <1>12 DEF StoreNext
-----------------------------------------------------------------------------
(* The roster *)

\* What one list says of q, the other says too.
Covers(list, other, q) ==
  \A i \in DOMAIN list : list[i].uuid = q =>
    \E j \in DOMAIN other :
      /\ other[j].uuid = q /\ other[j].card = list[i].card
      /\ other[j].face = list[i].face /\ other[j].rule = list[i].rule

LEMMA DescribedAlike ==
  ASSUME NEW list, NEW other, NEW q, Covers(list, other, q), Covers(other, list, q)
  PROVE  Described(list, q) = Described(other, q)
<1> DEFINE Of(e) == [card |-> e.card, face |-> e.face, rule |-> e.rule]
<1>1. /\ Described(list, q) = {Of(list[i]) : i \in WithUuid(list, q)}
      /\ Described(other, q) = {Of(other[i]) : i \in WithUuid(other, q)}
  BY DEF Described
<1>2. /\ \A i \in WithUuid(list, q) : \E j \in WithUuid(other, q) : Of(list[i]) = Of(other[j])
      /\ \A j \in WithUuid(other, q) : \E i \in WithUuid(list, q) : Of(other[j]) = Of(list[i])
  BY DEF Covers, WithUuid
<1> HIDE DEF Of
<1> QED
  BY <1>1, <1>2

\* The step is about u and about those who are strays after it.
Concerns(u) ==
  \A q \in Uuids \ (strays' \cup {u}) :
    Described(table', q) = Described(table, q) /\ Described(cache', q) = Described(cache, q)

LEMMA ChangeConcerns == ASSUME NEW u, AlikeChange(u) PROVE Concerns(u)
<1> SUFFICES ASSUME NEW q \in Uuids, q # u
             PROVE  /\ Described(table', q) = Described(table, q)
                    /\ Described(cache', q) = Described(cache, q)
  BY DEF Concerns
<1>1. Covers(table', table, q) /\ Covers(table, table', q)
  BY DEF AlikeChange, Covers
<1>2. Covers(cache', cache, q) /\ Covers(cache, cache', q)
  BY DEF AlikeChange, Covers
<1> QED
  BY <1>1, <1>2, DescribedAlike

LEMMA DeleteConcerns ==
  ASSUME StoreInv, NEW u \in Uuids, NEW succeeds \in BOOLEAN, DelPerson(u, succeeds)
  PROVE  Concerns(u)
<1> SUFFICES ASSUME NEW q \in Uuids, q # u
             PROVE  /\ Described(table', q) = Described(table, q)
                    /\ Described(cache', q) = Described(cache, q)
  BY DEF Concerns
<1>1. Covers(table', table, q) /\ Covers(table, table', q)
  <2>1. CASE succeeds
    <3>1. table' = [r \in DOMAIN table \ WithUuid(table, u) |-> table[r]]
      BY <2>1 DEF DelPerson, Restrict
    <3> QED
      BY <3>1 DEF WithUuid, Covers
  <2>2. CASE ~succeeds
    BY <2>2 DEF DelPerson, Covers
  <2> QED
    BY <2>1, <2>2
<1>2. Covers(cache', cache, q) /\ Covers(cache, cache', q)
  <2>1. /\ \A i \in DOMAIN cache' : \E j \in DOMAIN cache : cache'[i] = cache[j]
        /\ \A j \in DOMAIN cache : cache[j].uuid # u => \E i \in DOMAIN cache' : cache'[i] = cache[j]
    BY DroppedEntry DEF DelPerson
  <2> QED
    BY <2>1 DEF Covers
<1> QED
  BY <1>1, <1>2, DescribedAlike

\* The row written is somebody's whose row was there before, or a new one; whose
\* entry was taken for it is he, or a stray.
LEMMA RegisterConcerns ==
  ASSUME StoreInv, NEW u \in Uuids, NEW c \in AnyCard, NEW f \in AnyFace, NEW r \in AnyRule,
         RegPerson(u, c, f, r)
  PROVE  \E writing \in Uuids : Concerns(writing)
<1>1. PICK row, p \in Entry, id \in DOMAIN table', m \in DOMAIN cache' : Registration(row, p, id, m)
  BY Registered
<1>2. row.uuid \in Uuids /\ p.uuid = row.uuid
  BY <1>1, EntryFields DEF Registration, Alike
<1>3. ASSUME NEW q \in Uuids, q \notin strays', q # row.uuid
      PROVE  /\ Covers(table', table, q) /\ Covers(table, table', q)
             /\ Covers(cache', cache, q) /\ Covers(cache, cache', q)
  <2>1. Covers(table', table, q) /\ Covers(table, table', q)
    BY <1>1, <1>3 DEF Registration, Covers
  <2>2. Covers(cache', cache, q) /\ Covers(cache, cache', q)
    BY <1>1, <1>2, <1>3 DEF Registration, Covers
  <2> QED
    BY <2>1, <2>2
<1>4. Concerns(row.uuid)
  BY <1>3, DescribedAlike DEF Concerns
<1> QED
  BY <1>2, <1>4

\* No writer concerns two persons.
LEMMA WriterConcerns ==
  ASSUME StoreInv, job \subseteq Uuids, StoreNext, ~Load
  PROVE  /\ loaded' = loaded
         /\ \/ UNCHANGED << table, cache, strays >>
            \/ strays \subseteq strays' /\ \E u \in Uuids : Concerns(u)
<1> DEFINE Writes == strays \subseteq strays' /\ \E u \in Uuids : Concerns(u)
<1>0. \A lost : Noted(lost) => strays \subseteq strays'
  BY DEF Noted
<1>1. ASSUME NEW u \in Uuids, NEW c \in AnyCard, NEW g \in Given, RegPerson(u, c, g[1], g[2])
      PROVE  Writes
  BY <1>0, <1>1, GivenTypes, RegisterConcerns DEF RegPerson
<1>2. ASSUME NEW u \in Uuids, NEW succeeds \in BOOLEAN, DelPerson(u, succeeds) PROVE Writes
  BY <1>0, <1>2, DeleteConcerns DEF DelPerson
<1>3. ASSUME NEW u \in Uuids, AlikeChange(u), Noted({}) PROVE Writes
  BY <1>0, <1>3, ChangeConcerns
<1>4. CASE AddPerson
  BY <1>1, <1>4 DEF AddPerson
<1>5. CASE ChangePerson
  <2>1. PICK u \in Uuids, c \in AnyCard, r \in AnyRule : UpdatePerson(u, c, NoFace, r)
    BY <1>5 DEF ChangePerson
  <2>2. AlikeChange(u)
    BY <2>1, PersonChange DEF AnyFace
  <2>3. Noted({})
    BY <2>1 DEF UpdatePerson
  <2> QED
    BY <1>3, <1>5, <2>2, <2>3 DEF ChangePerson
<1>6. CASE ChangeFace
  <2>1. PICK u \in Uuids, f \in Faces : UpdateFace(u, f)
    BY <1>6 DEF ChangeFace
  <2>2. AlikeChange(u) /\ Noted({})
    BY <2>1, FaceChange DEF AnyFace, UpdateFace
  <2> QED
    BY <1>3, <1>6, <2>2 DEF ChangeFace
<1>7. CASE DeletePerson
  BY <1>2, <1>7 DEF DeletePerson
<1>8. CASE SyncDelete
  BY <1>2, <1>8 DEF SyncDelete
<1>9. CASE SyncAdd
  BY <1>1, <1>9 DEF SyncAdd
<1> QED
  BY <1>4, <1>5, <1>6, <1>7, <1>8, <1>9 DEF StoreNext

LEMMA BookSound == StoreInv => \A u \in Uuids \ strays : Book!Sound(u)
<1> SUFFICES ASSUME StoreInv, NEW u \in Uuids \ strays PROVE Book!Sound(u)
  OBVIOUS
<1>1. DescribedIn(table)[u] = Described(table, u) /\ DescribedIn(cache)[u] = Described(cache, u)
  BY DEF DescribedIn
<1>2. \A i, j \in WithUuid(table, u) : i = j
  BY DEF WithUuid, StoreInv, Once
<1>3. \A one, other \in Described(table, u) : one = other
  BY <1>2 DEF Described
<1>4. Covers(cache, table, u)
  BY DEF Covers, StoreInv, EntryHasRow, Alike
<1>5. CASE WithUuid(cache, u) = {}
  <2>1. Described(cache, u) = {}
    BY <1>5 DEF Described
  <2>2. loaded => WithUuid(table, u) = {}
    BY <1>5 DEF WithUuid, StoreInv, RowHasEntry
  <2>3. loaded => Described(table, u) = {}
    BY <2>2 DEF Described
  <2> QED
    BY <1>1, <1>3, <2>1, <2>3 DEF Book!Sound
<1>6. CASE WithUuid(cache, u) # {}
  <2>1. PICK i \in WithUuid(cache, u) : TRUE
    BY <1>6
  <2>2. PICK r \in DOMAIN table :
          /\ table[r].uuid = u /\ table[r].card = cache[i].card
          /\ table[r].face = cache[i].face /\ table[r].rule = cache[i].rule
    BY <1>4, <2>1 DEF Covers, WithUuid
  <2>3. Covers(table, cache, u)
    BY <1>2, <2>1, <2>2 DEF Covers, WithUuid
  <2>4. Described(table, u) = Described(cache, u)
    BY <1>4, <2>3, DescribedAlike
  <2> QED
    BY <1>1, <1>3, <2>4 DEF Book!Sound
<1> QED
  BY <1>5, <1>6

LEMMA BookSoundAfter == StoreInv' => (\A u \in Uuids \ strays : Book!Sound(u))'
  BY BookSound, PTL

LEMMA BookWrite ==
  ASSUME StoreInv', strays \subseteq strays', loaded' = loaded, NEW u \in Uuids, Concerns(u)
  PROVE  Book!Write
<1>1. DOMAIN DescribedIn(table) = Uuids \ strays /\ DOMAIN DescribedIn(table)' = Uuids \ strays'
  BY DEF DescribedIn
<1>2. \A q \in Uuids \ strays' : Book!Sound(q)'
  BY BookSoundAfter
<1>3. ASSUME NEW q \in Uuids \ strays', q # u PROVE Book!Untouched(q)
  BY <1>3 DEF Concerns, DescribedIn, Book!Untouched
<1> QED
  BY <1>1, <1>2, <1>3 DEF Book!Write, Book!Everybody

LEMMA BookLoad == ASSUME StoreInv', Load PROVE Book!Load
<1>1. DOMAIN DescribedIn(table) = Uuids \ strays /\ DOMAIN DescribedIn(table)' = Uuids \ strays'
  BY DEF DescribedIn
<1>2. \A q \in Uuids \ strays' : Book!Sound(q)'
  BY BookSoundAfter
<1>3. table' = table /\ strays \subseteq strays' /\ ~loaded /\ loaded'
  BY DEF Load, Noted
<1>4. \A q \in Uuids \ strays' : DescribedIn(table)'[q] = DescribedIn(table)[q]
  BY <1>3 DEF DescribedIn
<1> QED
  BY <1>1, <1>2, <1>3, <1>4 DEF Book!Load, Book!Everybody

LEMMA BookRestart ==
  ASSUME StoreInv', NEW rows \in {table, NoRows}, StoreRestart(rows)
  PROVE  Book!Restart
<1>1. DOMAIN DescribedIn(table) = Uuids \ strays /\ DOMAIN DescribedIn(table)' = Uuids \ strays'
  BY DEF DescribedIn
<1>2. \A q \in Uuids \ strays' : Book!Sound(q)'
  BY BookSoundAfter
<1>3. table' = rows /\ cache' = << >> /\ ~loaded'
  BY DEF StoreRestart
<1>4. \A q \in Uuids : Described(<< >>, q) = {}
  BY DEF Described, WithUuid
<1>5. \A q \in Uuids \ strays' : DescribedIn(cache)'[q] = {}
  BY <1>3, <1>4 DEF DescribedIn
<1>6. CASE rows = table
  BY <1>1, <1>2, <1>3, <1>5, <1>6 DEF Book!Restart, Book!Everybody, DescribedIn
<1>7. CASE rows = NoRows
  BY <1>1, <1>2, <1>3, <1>4, <1>5, <1>7 DEF Book!Restart, Book!Everybody, DescribedIn, NoRows
<1> QED
  BY <1>6, <1>7

LEMMA BookRests ==
  ASSUME StoreInv, UNCHANGED << strays, loaded >>,
         UNCHANGED << table, cache >> \/ ClearAllFingerIds
  PROVE  UNCHANGED Book!vars
<1>1. ASSUME NEW q \in Uuids
      PROVE  /\ Described(table', q) = Described(table, q)
             /\ Described(cache', q) = Described(cache, q)
  <2>1. CASE UNCHANGED << table, cache >>
    BY <2>1
  <2>2. CASE ClearAllFingerIds
    <3> DEFINE SameBut(e, d) == /\ e.uuid = d.uuid /\ e.card = d.card
                                /\ e.face = d.face /\ e.rule = d.rule
    <3>1. \A e \in Entry : SameBut([e EXCEPT !.finger = ZeroFinger], e)
      BY DEF Entry
    <3>2. /\ \A r \in DOMAIN table : table[r] \in Entry
          /\ \A i \in DOMAIN cache : cache[i] \in Entry
      BY CacheEntries DEF StoreInv, TableOK, CacheOK
    <3>3. /\ DOMAIN table' = DOMAIN table /\ DOMAIN cache' = DOMAIN cache
          /\ \A r \in DOMAIN table : table'[r] = [table[r] EXCEPT !.finger = ZeroFinger]
          /\ \A i \in DOMAIN cache : cache'[i] = [cache[i] EXCEPT !.finger = ZeroFinger]
      BY <2>2 DEF ClearAllFingerIds
    <3> HIDE DEF SameBut
    <3>4. /\ \A r \in DOMAIN table : SameBut(table'[r], table[r])
          /\ \A i \in DOMAIN cache : SameBut(cache'[i], cache[i])
      BY <3>1, <3>2, <3>3
    <3>5. /\ Covers(table', table, q) /\ Covers(table, table', q)
          /\ Covers(cache', cache, q) /\ Covers(cache, cache', q)
      BY <3>3, <3>4 DEF SameBut, Covers
    <3> QED
      BY <3>5, DescribedAlike
  <2> QED
    BY <2>1, <2>2
<1> QED
  BY <1>1 DEF Book!vars, DescribedIn

LEMMA BookStart == StoreInit => Book!Init
<1> SUFFICES ASSUME StoreInit PROVE Book!Init
  OBVIOUS
<1>1. table = << >> /\ cache = << >> /\ ~loaded /\ loaded = FALSE /\ strays = {}
  BY DEF StoreInit, NoRows
<1>2. \A q \in Uuids : Described(<< >>, q) = {}
  BY DEF Described, WithUuid
<1> QED
  BY <1>1, <1>2 DEF Book!Init, DescribedIn
=============================================================================
