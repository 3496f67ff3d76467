-------------------------- MODULE FaceLibraryProofs --------------------------
(* Theorems about FaceLibrary for every set of names and of readers, every *)
(* size of the ring and any number of saves.                               *)
EXTENDS FaceLibrary, FiniteSetTheorems, TLAPS

(* The slot after a slot is a slot.                                        *)
LEMMA NextSlot ==
  ASSUME NEW p \in Slots
  PROVE  (p + 1) % CacheSize \in Slots
BY CacheAssumption DEF Slots

LEMMA CacheSetTyped ==
  ASSUME cache \in [Slots -> Entry \cup {NoEntry}], pos \in Slots,
         NEW e \in Entry, CacheSet(e)
  PROVE  cache' \in [Slots -> Entry \cup {NoEntry}] /\ pos' \in Slots
BY NextSlot DEF CacheSet

(* What is found by a comparison is a sequence of faces.                   *)
LEMMA MatchesTyped ==
  ASSUME FilesTyped, NEW n \in 1..Cardinality(emb), NEW s \in [1..n -> emb]
  PROVE  s \in Seq(Ids) /\ DOMAIN s \in SUBSET Nat
<1>1. IsFiniteSet(emb)
  <2>1. IsFiniteSet(1..MaxSaves)
    BY SavesAssumption, FS_Interval
  <2>2. emb \subseteq 1..MaxSaves
    BY DEF FilesTyped, Ids
  <2> QED BY <2>1, <2>2, FS_Subset
<1>2. n \in Nat
  BY <1>1, FS_CardinalityType
<1>3. emb \subseteq Ids
  BY DEF FilesTyped
<1>4. s \in [1..n -> Ids]
  BY <1>3
<1> HIDE DEF Ids
<1> QED BY <1>2, <1>4

(* The match in hand is one of those not looked up yet.                    *)
LEMMA InHandIsLeft ==
  ASSUME LookupInv, NEW r \in Readers, at[r] = "read"
  PROVE  InHand(r) \in left[r] /\ ranked[r][InHand(r)] = hand[r].id
BY DEF LookupInv, InHand

(* A program that is started again has forgotten all but the files.        *)
LEMMA ForgetStarts ==
  ASSUME Forget
  PROVE  /\ w' = "idle" /\ held' = {} /\ todo' = {} /\ UNCHANGED asked
         /\ \A i \in Slots : cache'[i] = NoEntry
         /\ \A r \in Readers : at'[r] = "idle" /\ left'[r] = {} /\ best'[r] = 0
BY DEF Forget

(* A reader leaves the files and the ws thread alone.                      *)
LEMMA ReaderKeeps ==
  ASSUME NEW r \in Readers, Reader(r)
  PROVE  UNCHANGED <<emb, index, soft, dirty, safe, short, valid, w, entry,
                     held, todo, saves, asked, torn>>
BY DEF Reader, Compare, NameFromCache, NotInCache, NameFromIndex, NoName,
       CacheFound, Report, fileVars, wsVars

(* Every step keeps the types.                                             *)
LEMMA TypeStep ==
  ASSUME TypeOK, LookupInv, [Next]_vars
  PROVE  TypeOK'
<1> USE SavesAssumption DEF Ids, Entry, NoEntry
<1>1. ASSUME Ws PROVE TypeOK'
  <2>1. UNCHANGED <<at, ranked, left, hand, best, named, torn>>
    BY <1>1 DEF Ws, EnrollOnRecog, EnrollOnOwner, WriteEmbFile, OpenIndex,
                IndexFails, KeepEntry, AddEntry, CacheNew, readerVars
  <2>2. FilesTyped' /\ WsTyped'
    <3> USE DEF TypeOK, FilesTyped, WsTyped, fileVars, wsVars
    <3>1. CASE EnrollOnRecog
      BY <3>1 DEF EnrollOnRecog
    <3>2. CASE EnrollOnOwner
      <4>1. saves' \in 1..MaxSaves
        BY <3>2 DEF EnrollOnOwner
      <4>2. entry' \in Entry
        BY <3>2, <4>1 DEF EnrollOnOwner
      <4> QED BY <3>2, <4>1, <4>2 DEF EnrollOnOwner
    <3>3. CASE WriteEmbFile
      BY <2>1, <3>3 DEF WriteEmbFile, WholeFile, Fails
    <3>4. CASE OpenIndex
      BY <2>1, <3>4 DEF OpenIndex, Others
    <3>5. CASE IndexFails
      BY <2>1, <3>5 DEF IndexFails, Fails
    <3>6. CASE KeepEntry
      BY <2>1, <3>6 DEF KeepEntry, Written
    <3>7. CASE AddEntry
      BY <2>1, <3>7 DEF AddEntry, Written
    <3>8. CASE CacheNew
      BY <2>1, <3>8 DEF CacheNew
    <3> QED BY <1>1, <3>1, <3>2, <3>3, <3>4, <3>5, <3>6, <3>7, <3>8 DEF Ws
  <2>3. cache' \in [Slots -> Entry \cup {NoEntry}] /\ pos' \in Slots
    <3>1. CASE CacheNew
      <4>1. entry \in Entry
        BY <3>1 DEF CacheNew, TypeOK, WsTyped
      <4> QED BY <3>1, <4>1, CacheSetTyped DEF CacheNew, TypeOK, ReadersTyped
    <3>2. CASE ~CacheNew
      BY <1>1, <3>2 DEF Ws, EnrollOnRecog, EnrollOnOwner, WriteEmbFile,
         OpenIndex, IndexFails, KeepEntry, AddEntry, cacheVars, TypeOK,
         ReadersTyped
    <3> QED BY <3>1, <3>2
  <2>4. calm' \in [Readers -> BOOLEAN]
    BY <1>1 DEF Ws, EnrollOnRecog, EnrollOnOwner, WriteEmbFile, OpenIndex,
       IndexFails, KeepEntry, AddEntry, CacheNew, TypeOK, ReadersTyped
  <2> QED BY <2>1, <2>2, <2>3, <2>4 DEF TypeOK, ReadersTyped
<1>2. ASSUME NEW r \in Readers, Reader(r) PROVE TypeOK'
  <2>2. FilesTyped' /\ WsTyped'
    BY <1>2, ReaderKeeps DEF TypeOK, FilesTyped, WsTyped
  <2>3. ReadersTyped'
    <3> USE DEF TypeOK, ReadersTyped, cacheVars
    <3>1. CASE Compare(r)
      <4>1. PICK n \in 1..Cardinality(emb) :
              \E s \in [1..n -> emb] : ranked' = [ranked EXCEPT ![r] = s]
        BY <3>1 DEF Compare
      <4>2. PICK s \in [1..n -> emb] : ranked' = [ranked EXCEPT ![r] = s]
        BY <4>1
      <4>3. s \in Seq(Ids) /\ DOMAIN s \in SUBSET Nat
        BY MatchesTyped
      <4>4. ranked' \in [Readers -> Seq(Ids)] /\ ranked'[r] = s
        BY <4>2, <4>3
      <4>5. left' \in [Readers -> SUBSET Nat]
        BY <3>1, <4>3, <4>4 DEF Compare
      <4> QED BY <3>1, <4>4, <4>5 DEF Compare
    <3>2. CASE NameFromCache(r)
      <4>1. PICK i \in left[r], s \in Slots :
              CacheHit(s, ranked[r][i]) /\ NearestName(r, i, cache[s].name)
        BY <3>2 DEF NameFromCache
      <4>0. cache[s] \in Entry \cup {NoEntry}
        OBVIOUS
      <4>2. i \in Nat /\ cache[s].name \in Names \cup {"none"}
        BY <4>0
      <4>3. best' \in [Readers -> Nat]
        BY <4>1, <4>2 DEF NearestName
      <4>4. named' \in [Readers -> Names \cup {"none"}]
        BY <4>1, <4>2 DEF NearestName
      <4>5. left' \in [Readers -> SUBSET Nat]
        BY <3>2 DEF NameFromCache
      <4>6. UNCHANGED <<at, ranked, hand, calm, cache, pos>>
        BY <3>2 DEF NameFromCache
      <4> QED BY <4>3, <4>4, <4>5, <4>6
    <3>3. CASE NotInCache(r)
      <4>1. PICK i \in left[r] :
              hand' = [hand EXCEPT ![r] = [NoEntry EXCEPT !.id = ranked[r][i]]]
        BY <3>3 DEF NotInCache
      <4>2. ranked[r][i] \in Ids
        BY LookupInv DEF LookupInv
      <4> QED BY <3>3, <4>1, <4>2 DEF NotInCache
    <3>4. CASE NameFromIndex(r)
      <4> DEFINE i == InHand(r)
      <4>0. index \subseteq Entry /\ i \in Nat
        BY <3>4, InHandIsLeft DEF FilesTyped, NameFromIndex
      <4>1. PICK e \in index : hand' = [hand EXCEPT ![r] = e]
                               /\ NearestName(r, i, e.name)
        BY <3>4 DEF NameFromIndex
      <4>2. hand' \in [Readers -> [name : Names \cup {"none"}, id : 0..MaxSaves]]
        BY <4>0, <4>1
      <4>3. e.name \in Names
        BY <4>0
      <4>4. best' \in [Readers -> Nat]
        BY <4>0, <4>1 DEF NearestName
      <4>5. named' \in [Readers -> Names \cup {"none"}]
        BY <4>1, <4>3 DEF NearestName
      <4>6. left' \in [Readers -> SUBSET Nat]
        BY <3>4 DEF NameFromIndex
      <4>7. at' = [at EXCEPT ![r] = "found"]
            /\ UNCHANGED <<ranked, calm, cache, pos>>
        BY <3>4 DEF NameFromIndex
      <4>8. \A q \in Readers : at'[q] = "found" => hand'[q] \in Entry
        BY <4>0, <4>1, <4>7
      <4> QED BY <4>2, <4>4, <4>5, <4>6, <4>7, <4>8
    <3>5. CASE NoName(r)
      BY <3>5 DEF NoName
    <3>6. CASE CacheFound(r)
      <4>1. hand[r] \in Entry
        BY <3>6 DEF CacheFound
      <4>2. cache' \in [Slots -> Entry \cup {NoEntry}] /\ pos' \in Slots
        BY <3>6, <4>1, CacheSetTyped DEF CacheFound
      <4> QED BY <3>6, <4>2 DEF CacheFound
    <3>7. CASE Report(r)
      BY <3>7 DEF Report, Reset
    <3> QED BY <1>2, <3>1, <3>2, <3>3, <3>4, <3>5, <3>6, <3>7 DEF Reader
  <2> QED BY <2>2, <2>3 DEF TypeOK
<1>3. CASE RunShort \/ WriteBack
  BY <1>3 DEF RunShort, WriteBack, TypeOK, FilesTyped, WsTyped, ReadersTyped,
              wsVars, readerVars, cacheVars
<1>4. ASSUME Forget PROVE WsTyped' /\ ReadersTyped'
  <2>1. WsTyped'
    BY <1>4 DEF Forget, TypeOK, WsTyped
  <2>2. 0 \in Slots /\ <<>> \in Seq(Ids)
    BY CacheAssumption DEF Slots
  <2> QED BY <1>4, <2>1, <2>2 DEF Forget, ReadersTyped
<1>5. CASE Killed
  BY <1>4, <1>5 DEF Killed, fileVars, TypeOK, FilesTyped, Forget
<1>6. CASE PowerCut
  <2>1. index' \subseteq Entry
    <3>1. index' = safe \/ index' \in SUBSET index
      BY <1>6 DEF PowerCut
    <3> QED BY <3>1 DEF TypeOK, FilesTyped
  <2>2. emb' \subseteq Ids
    BY <1>6 DEF PowerCut, TypeOK, FilesTyped
  <2>3. FilesTyped'
    <3>1. torn' \in BOOLEAN /\ UNCHANGED <<short, asked>> /\ soft' = {}
          /\ dirty' = FALSE /\ safe' = index'
      BY <1>6 DEF PowerCut, Forget, TypeOK, FilesTyped
    <3> QED BY <2>1, <2>2, <3>1 DEF TypeOK, FilesTyped
  <2> QED BY <1>4, <1>6, <2>3 DEF PowerCut, TypeOK
<1>7. CASE UNCHANGED vars
  BY <1>7 DEF vars, fileVars, cacheVars, wsVars, readerVars, TypeOK,
              FilesTyped, WsTyped, ReadersTyped
<1> QED BY <1>1, <1>2, <1>3, <1>5, <1>6, <1>7 DEF Next

(* An entry is written, or lost for want of room.                          *)
LEMMA WrittenOrLost ==
  ASSUME NEW e, Written(e)
  PROVE  index' = index \cup {e} \/ (short /\ index' = index)
BY DEF Written

(* So it is with each entry that a rewrite keeps.                          *)
LEMMA KeptOrLost ==
  ASSUME KeepEntry
  PROVE  \E e \in todo : /\ todo' = todo \ {e}
                         /\ index' = index \cup {e} \/ (short /\ index' = index)
BY DEF KeepEntry, Written

(* What a rewrite has written and has yet to write.                        *)
LEMMA RewriteStep ==
  ASSUME TypeOK, RewriteInv, [Next]_vars
  PROVE  RewriteInv'
<1> USE DEF RewriteInv, Others
<1>1. CASE EnrollOnRecog \/ EnrollOnOwner \/ WriteEmbFile \/ IndexFails
           \/ CacheNew
  BY <1>1 DEF EnrollOnRecog, EnrollOnOwner, WriteEmbFile, IndexFails, CacheNew,
              Fails, fileVars
<1>2. CASE OpenIndex
  BY <1>2 DEF OpenIndex
<1>3. CASE KeepEntry
  <2>1. PICK e \in todo :
          /\ todo' = todo \ {e}
          /\ index' = index \cup {e} \/ (short /\ index' = index)
    BY <1>3, KeptOrLost
  <2>3. w = "keep" /\ UNCHANGED <<w, entry, held, dirty, safe, short>>
    BY <1>3 DEF KeepEntry
  <2>4. ~short => index' \cup todo' = Others(held)
    BY <2>1, <2>3
  <2> QED BY <2>1, <2>3, <2>4
<1>4. CASE AddEntry
  BY <1>4 DEF AddEntry
<1>5. ASSUME NEW r \in Readers, Reader(r) PROVE RewriteInv'
  BY <1>5, ReaderKeeps
<1>6. CASE RunShort \/ WriteBack
  BY <1>6 DEF RunShort, WriteBack, wsVars
<1>7. CASE Killed \/ PowerCut
  BY <1>7, ForgetStarts DEF Killed, PowerCut, fileVars
<1>8. CASE UNCHANGED vars
  BY <1>8 DEF vars, fileVars, wsVars
<1> QED BY <1>1, <1>2, <1>3, <1>4, <1>5, <1>6, <1>7, <1>8 DEF Next, Ws

(* What the index names, or will name, has its features on file.           *)
LEMMA WholeStep ==
  ASSUME TypeOK, RewriteInv, WholeInv, [Next]_vars
  PROVE  WholeInv'
<1> USE DEF WholeInv
<1>1. CASE EnrollOnRecog \/ EnrollOnOwner \/ IndexFails \/ CacheNew
  BY <1>1 DEF EnrollOnRecog, EnrollOnOwner, IndexFails, CacheNew, Fails,
              fileVars
<1>2. CASE WriteEmbFile
  BY <1>2 DEF WriteEmbFile, WholeFile, Fails
<1>3. CASE OpenIndex
  BY <1>3 DEF OpenIndex, Others
<1>4. CASE KeepEntry
  BY <1>4 DEF KeepEntry, Written
<1>5. CASE AddEntry
  <2>1. w = "keep" /\ w' = "cache" /\ held' = {} /\ todo = {}
        /\ UNCHANGED <<emb, entry, todo, short, torn>>
    BY <1>5 DEF AddEntry
  <2>2. index' \subseteq index \cup {entry}
    BY <1>5, WrittenOrLost DEF AddEntry
  <2>3. ~short /\ ~torn => \A e \in index \cup {entry} : e.id \in emb
    BY <2>1
  <2> QED BY <2>1, <2>2, <2>3
<1>6. ASSUME NEW r \in Readers, Reader(r) PROVE WholeInv'
  BY <1>6, ReaderKeeps
<1>7. CASE RunShort \/ WriteBack
  BY <1>7 DEF RunShort, WriteBack, wsVars
<1>8. CASE Killed
  BY <1>8, ForgetStarts DEF Killed, fileVars
<1>9. CASE PowerCut
  <2>1. CASE torn'
    BY <2>1
  <2>2. CASE ~torn'
    <3>1. ~torn /\ ~dirty /\ soft = {}
      BY <1>9, <2>2 DEF PowerCut
    <3>2. UNCHANGED <<index, emb, short>>
      BY <1>9, <3>1 DEF PowerCut
    <3> QED BY <1>9, <3>1, <3>2, ForgetStarts DEF PowerCut
  <2> QED BY <2>1, <2>2
<1>10. CASE UNCHANGED vars
  BY <1>10 DEF vars, fileVars, wsVars
<1> QED BY <1>1, <1>2, <1>3, <1>4, <1>5, <1>6, <1>7, <1>8, <1>9, <1>10
           DEF Next, Ws

(* Nothing comes into the library or the ring that was not asked for.      *)
LEMMA AskedStep ==
  ASSUME TypeOK, AskedInv, [Next]_vars
  PROVE  AskedInv'
<1> USE DEF AskedInv
<1>1. CASE EnrollOnRecog \/ EnrollOnOwner \/ IndexFails \/ WriteEmbFile
  BY <1>1 DEF EnrollOnRecog, EnrollOnOwner, IndexFails, WriteEmbFile, Fails,
              fileVars, cacheVars, readerVars
<1>2. CASE OpenIndex
  BY <1>2 DEF OpenIndex, Others, cacheVars, readerVars
<1>3. CASE KeepEntry
  BY <1>3 DEF KeepEntry, Written, cacheVars, readerVars
<1>4. CASE AddEntry
  BY <1>4 DEF AddEntry, Written, cacheVars, readerVars
<1>5. CASE CacheNew
  BY <1>5 DEF CacheNew, CacheSet, fileVars, readerVars, TypeOK, ReadersTyped
<1>6. ASSUME NEW r \in Readers, Reader(r) PROVE AskedInv'
  <2>1. CASE Compare(r) \/ NameFromCache(r) \/ NotInCache(r) \/ NoName(r)
             \/ Report(r)
    BY <2>1 DEF Compare, NameFromCache, NotInCache, NoName, Report, Reset,
                fileVars, cacheVars, wsVars, TypeOK, ReadersTyped
  <2>2. CASE NameFromIndex(r)
    BY <2>2 DEF NameFromIndex, fileVars, cacheVars, wsVars, TypeOK,
                ReadersTyped
  <2>3. CASE CacheFound(r)
    BY <2>3 DEF CacheFound, CacheSet, fileVars, wsVars, TypeOK, ReadersTyped
  <2> QED BY <1>6, <2>1, <2>2, <2>3 DEF Reader
<1>7. CASE RunShort \/ WriteBack
  BY <1>7 DEF RunShort, WriteBack, wsVars, cacheVars, readerVars
<1>8. CASE Killed
  BY <1>8, ForgetStarts DEF Killed, fileVars
<1>9. CASE PowerCut
  <2>1. index' \subseteq asked
    BY <1>9 DEF PowerCut
  <2>2. safe' = index'
    BY <1>9 DEF PowerCut
  <2>3. Forget
    BY <1>9 DEF PowerCut
  <2> QED BY <2>1, <2>2, <2>3, ForgetStarts
<1>10. CASE UNCHANGED vars
  BY <1>10 DEF vars, fileVars, wsVars, cacheVars, readerVars
<1> QED BY <1>1, <1>2, <1>3, <1>4, <1>5, <1>6, <1>7, <1>8, <1>9, <1>10
           DEF Next, Ws

(* The ws thread leaves the readers alone, all but the mark that a rewrite *)
(* overlapped them.                                                        *)
LEMMA WsKeeps ==
  ASSUME Ws
  PROVE  UNCHANGED <<at, ranked, left, hand, best, named>>
BY DEF Ws, EnrollOnRecog, EnrollOnOwner, WriteEmbFile, OpenIndex, IndexFails,
       KeepEntry, AddEntry, CacheNew, readerVars

(* A reader leaves the other readers alone.                                *)
LEMMA OthersKept ==
  ASSUME TypeOK, NEW r \in Readers, Reader(r), NEW q \in Readers, q # r
  PROVE  /\ at'[q] = at[q] /\ ranked'[q] = ranked[q] /\ left'[q] = left[q]
         /\ hand'[q] = hand[q] /\ best'[q] = best[q] /\ named'[q] = named[q]
         /\ calm'[q] = calm[q]
BY DEF TypeOK, ReadersTyped, Reader, Compare, NameFromCache, NotInCache,
       NameFromIndex, NoName, CacheFound, Report, Reset, NearestName

(* Which match is the nearest with a name, once one of them has been found.*)
LEMMA NearestFound ==
  ASSUME TypeOK, NEW r \in Readers, NEW i \in Nat, NEW n, NearestName(r, i, n)
  PROVE  \/ (best[r] = 0 \/ i < best[r]) /\ best'[r] = i /\ named'[r] = n
         \/ best[r] # 0 /\ best[r] <= i /\ best'[r] = best[r]
            /\ named'[r] = named[r]
BY DEF NearestName, TypeOK, ReadersTyped

(* What a lookup has done with one of its matches: found a name in the     *)
(* ring or in the index, or none.                                          *)
LEMMA NameInRing ==
  ASSUME TypeOK, LookupInv, AskedInv, NEW r \in Readers, NameFromCache(r)
  PROVE  \E i \in left[r], e \in asked :
           /\ e.id = ranked[r][i]
           /\ NearestName(r, i, e.name)
           /\ left'[r] = left[r] \ {i}
<1>1. PICK i \in left[r], s \in Slots :
        /\ cache[s].id = ranked[r][i]
        /\ NearestName(r, i, cache[s].name)
        /\ left' = [left EXCEPT ![r] = @ \ {i}]
  BY DEF NameFromCache, CacheHit
<1>2. ranked[r] \in Seq(Ids) /\ i \in DOMAIN ranked[r]
  BY DEF LookupInv, TypeOK, ReadersTyped
<1>3. ranked[r][i] \in Ids
  <2> HIDE DEF Ids
  <2> QED BY <1>2
<1>4. cache[s] # NoEntry
  BY <1>1, <1>3, SavesAssumption DEF NoEntry, Ids
<1> QED BY <1>1, <1>4 DEF AskedInv, TypeOK, ReadersTyped

LEMMA NameInIndex ==
  ASSUME TypeOK, LookupInv, AskedInv, NEW r \in Readers, NameFromIndex(r)
  PROVE  \E i \in left[r], e \in asked :
           /\ e.id = ranked[r][i]
           /\ NearestName(r, i, e.name)
           /\ left'[r] = left[r] \ {i}
<1>1. at[r] = "read"
  BY DEF NameFromIndex
<1>2. InHand(r) \in left[r] /\ ranked[r][InHand(r)] = hand[r].id
  BY <1>1, InHandIsLeft
<1>3. PICK e \in index : e.id = hand[r].id /\ NearestName(r, InHand(r), e.name)
  BY DEF NameFromIndex
<1>4. left'[r] = left[r] \ {InHand(r)}
  BY DEF NameFromIndex, TypeOK, ReadersTyped
<1> QED BY <1>2, <1>3, <1>4 DEF AskedInv

LEMMA NameNowhere ==
  ASSUME TypeOK, LookupInv, NEW r \in Readers, NoName(r)
  PROVE  \E i \in left[r] : /\ MayMiss(ranked[r][i])
                            /\ left'[r] = left[r] \ {i}
                            /\ UNCHANGED <<best, named, ranked, calm>>
<1>1. at[r] = "read"
  BY DEF NoName
<1>2. InHand(r) \in left[r] /\ ranked[r][InHand(r)] = hand[r].id
  BY <1>1, InHandIsLeft
<1> QED BY <1>2 DEF NoName, TypeOK, ReadersTyped

(* A lookup works on its own matches.                                      *)
LEMMA LookupStep ==
  ASSUME TypeOK, LookupInv, AskedInv, [Next]_vars
  PROVE  LookupInv'
<1>1. CASE Ws
  BY <1>1, WsKeeps DEF LookupInv
<1>2. ASSUME NEW r \in Readers, Reader(r) PROVE LookupInv'
  <2> DEFINE Own(q) == /\ left[q] \subseteq DOMAIN ranked[q]
                       /\ best[q] # 0 => best[q] \in DOMAIN ranked[q]
                       /\ at[q] = "idle" => best[q] = 0
                       /\ at[q] = "read" =>
                            \E i \in left[q] : ranked[q][i] = hand[q].id
  <2>0. \A q \in Readers : Own(q)
    BY DEF LookupInv
  <2>1. ASSUME NEW q \in Readers, q # r PROVE Own(q)'
    BY <1>2, <2>0, <2>1, OthersKept
  <2>2. ASSUME NEW i \in left[r], NEW n, NearestName(r, i, n),
               left'[r] = left[r] \ {i}, ranked'[r] = ranked[r],
               at'[r] # "idle", at'[r] # "read"
        PROVE  Own(r)'
    <3>0. left[r] \in SUBSET Nat
      BY DEF TypeOK, ReadersTyped
    <3>1. i \in Nat
      BY <3>0
    <3>4. i \in DOMAIN ranked[r]
      BY <2>0
    <3>2. best'[r] = i \/ (best[r] # 0 /\ best'[r] = best[r])
      BY <2>2, <3>1, NearestFound
    <3>3. left'[r] \subseteq DOMAIN ranked'[r]
      BY <2>0, <2>2
    <3>5. best'[r] # 0 => best'[r] \in DOMAIN ranked'[r]
      <4>1. best[r] # 0 => best[r] \in DOMAIN ranked[r]
        BY <2>0
      <4> HIDE DEF Own
      <4> QED BY <2>2, <3>2, <3>4, <4>1
    <3> QED BY <2>2, <3>3, <3>5
  <2>3. Own(r)'
    <3>1. CASE Compare(r)
      <4>1. left'[r] = DOMAIN ranked'[r] /\ best'[r] = best[r]
            /\ at[r] = "idle" /\ at'[r] = "look"
        BY <3>1 DEF Compare, TypeOK, ReadersTyped
      <4> QED BY <2>0, <4>1
    <3>2. CASE NameFromCache(r)
      <4>1. PICK i \in left[r], e \in asked :
              NearestName(r, i, e.name) /\ left'[r] = left[r] \ {i}
        BY <3>2, NameInRing
      <4>2. ranked'[r] = ranked[r] /\ at'[r] = "look"
        BY <3>2 DEF NameFromCache
      <4> QED BY <2>2, <4>1, <4>2
    <3>3. CASE NotInCache(r)
      <4>1. PICK i \in left[r] :
              hand' = [hand EXCEPT ![r] = [NoEntry EXCEPT !.id = ranked[r][i]]]
        BY <3>3 DEF NotInCache
      <4>2. hand'[r].id = ranked[r][i]
        BY <4>1 DEF TypeOK, ReadersTyped, NoEntry
      <4>3. at'[r] = "read" /\ UNCHANGED <<ranked, left, best, named>>
        BY <3>3 DEF NotInCache, TypeOK, ReadersTyped
      <4> QED BY <2>0, <4>2, <4>3
    <3>4. CASE NameFromIndex(r)
      <4>1. PICK i \in left[r], e \in asked :
              NearestName(r, i, e.name) /\ left'[r] = left[r] \ {i}
        BY <3>4, NameInIndex
      <4>2. ranked'[r] = ranked[r] /\ at'[r] = "found"
        BY <3>4 DEF NameFromIndex, TypeOK, ReadersTyped
      <4> QED BY <2>2, <4>1, <4>2
    <3>5. CASE NoName(r)
      <4>1. left'[r] \subseteq left[r]
            /\ UNCHANGED <<best, ranked>> /\ at'[r] = "look"
        BY <3>5, NameNowhere DEF NoName, TypeOK, ReadersTyped
      <4> QED BY <2>0, <4>1
    <3>6. CASE CacheFound(r)
      <4>1. UNCHANGED <<left, best, ranked>> /\ at'[r] = "look"
        BY <3>6 DEF CacheFound, TypeOK, ReadersTyped
      <4> QED BY <2>0, <4>1
    <3>7. CASE Report(r)
      <4>1. left'[r] = {} /\ best'[r] = 0 /\ at'[r] = "idle"
        BY <3>7 DEF Report, Reset, TypeOK, ReadersTyped
      <4> QED BY <4>1
    <3> QED BY <1>2, <3>1, <3>2, <3>3, <3>4, <3>5, <3>6, <3>7 DEF Reader
  <2> QED BY <2>1, <2>3 DEF LookupInv
<1>3. CASE RunShort \/ WriteBack \/ UNCHANGED vars
  BY <1>3 DEF RunShort, WriteBack, vars, readerVars, LookupInv
<1>4. CASE Killed \/ PowerCut
  BY <1>4, ForgetStarts DEF Killed, PowerCut, LookupInv
<1> QED BY <1>1, <1>2, <1>3, <1>4 DEF Next

(* A name found for a face is one it was saved under.                      *)
LEMMA OwnStep ==
  ASSUME TypeOK, LookupInv, AskedInv, NamesAreOwn, [Next]_vars
  PROVE  NamesAreOwn'
<1>1. CASE Ws
  <2>1. asked \subseteq asked'
    BY <1>1 DEF Ws, EnrollOnRecog, EnrollOnOwner, WriteEmbFile, OpenIndex,
       IndexFails, KeepEntry, AddEntry, CacheNew
  <2> QED BY <1>1, <2>1, WsKeeps DEF NamesAreOwn
<1>2. ASSUME NEW r \in Readers, Reader(r) PROVE NamesAreOwn'
  <2> DEFINE Own(q) == best[q] # 0 =>
                 [name |-> named[q], id |-> ranked[q][best[q]]] \in asked
  <2>0. \A q \in Readers : Own(q)
    BY DEF NamesAreOwn
  <2>1. asked' = asked
    BY <1>2, ReaderKeeps
  <2>2. ASSUME NEW q \in Readers, q # r PROVE Own(q)'
    BY <1>2, <2>0, <2>1, <2>2, OthersKept
  <2>3. ASSUME NEW i \in left[r], NEW e \in asked, e.id = ranked[r][i],
               NearestName(r, i, e.name), ranked'[r] = ranked[r]
        PROVE  Own(r)'
    <3>1. i \in Nat
      BY DEF TypeOK, ReadersTyped
    <3>2. e = [name |-> e.name, id |-> e.id]
      BY DEF TypeOK, FilesTyped, Entry
    <3>3. \/ best'[r] = i /\ named'[r] = e.name
          \/ best[r] # 0 /\ best'[r] = best[r] /\ named'[r] = named[r]
      BY <2>3, <3>1, NearestFound
    <3> QED BY <2>0, <2>1, <2>3, <3>2, <3>3
  <2>4. Own(r)'
    <3>1. CASE Compare(r)
      <4>1. best'[r] = best[r] /\ best[r] = 0
        BY <3>1 DEF Compare, LookupInv
      <4> QED BY <4>1
    <3>2. CASE NameFromCache(r)
      <4>1. PICK i \in left[r], e \in asked :
              e.id = ranked[r][i] /\ NearestName(r, i, e.name)
        BY <3>2, NameInRing
      <4>2. ranked'[r] = ranked[r]
        BY <3>2 DEF NameFromCache
      <4> QED BY <2>3, <4>1, <4>2
    <3>3. CASE NotInCache(r) \/ NoName(r) \/ CacheFound(r)
      BY <2>0, <2>1, <3>3 DEF NotInCache, NoName, CacheFound
    <3>4. CASE NameFromIndex(r)
      <4>1. PICK i \in left[r], e \in asked :
              e.id = ranked[r][i] /\ NearestName(r, i, e.name)
        BY <3>4, NameInIndex
      <4>2. ranked'[r] = ranked[r]
        BY <3>4 DEF NameFromIndex
      <4> QED BY <2>3, <4>1, <4>2
    <3>5. CASE Report(r)
      <4>1. best'[r] = 0
        BY <3>5 DEF Report, Reset, TypeOK, ReadersTyped
      <4> QED BY <4>1
    <3> QED BY <1>2, <3>1, <3>2, <3>3, <3>4, <3>5 DEF Reader
  <2> QED BY <2>2, <2>4 DEF NamesAreOwn
<1>3. CASE RunShort \/ WriteBack \/ UNCHANGED vars
  BY <1>3 DEF RunShort, WriteBack, vars, readerVars, wsVars, NamesAreOwn
<1>4. CASE Killed \/ PowerCut
  BY <1>4, ForgetStarts DEF Killed, PowerCut, NamesAreOwn
<1> QED BY <1>1, <1>2, <1>3, <1>4 DEF Next

(* A lookup that no rewrite overlapped misses no name that there is.       *)
LEMMA CalmStep ==
  ASSUME TypeOK, LookupInv, AskedInv, CalmInv, [Next]_vars
  PROVE  CalmInv'
<1> DEFINE Nearest(q) ==
             at[q] # "idle" /\ calm[q] =>
               /\ w # "keep"
               /\ ~short => \A i \in DOMAIN ranked[q] \ left[q] :
                    (\E e \in index : e.id = ranked[q][i]) => best[q] \in 1..i
<1>0. \A q \in Readers : Nearest(q)
  BY DEF CalmInv
<1>1. CASE Ws
  <2> SUFFICES ASSUME NEW q \in Readers PROVE Nearest(q)'
    BY DEF CalmInv
  <2>1. UNCHANGED <<at, ranked, left, best>>
    BY <1>1, WsKeeps
  <2>2. CASE EnrollOnRecog \/ EnrollOnOwner \/ WriteEmbFile \/ IndexFails
             \/ CacheNew
    <3>1. w' # "keep" \/ w' = w
      BY <2>2 DEF EnrollOnRecog, EnrollOnOwner, WriteEmbFile, IndexFails,
                  CacheNew, Fails
    <3>2. UNCHANGED <<index, short, calm>>
      BY <2>2 DEF EnrollOnRecog, EnrollOnOwner, WriteEmbFile, IndexFails,
                  CacheNew, fileVars
    <3> QED BY <1>0, <2>1, <3>1, <3>2
  <2>3. CASE OpenIndex
    <3>1. ~calm'[q]
      BY <2>3 DEF OpenIndex
    <3> QED BY <3>1
  <2>4. CASE KeepEntry \/ AddEntry
    <3>1. w = "keep" /\ UNCHANGED calm
      BY <2>4 DEF KeepEntry, AddEntry
    <3> QED BY <1>0, <2>1, <3>1
  <2> QED BY <1>1, <2>2, <2>3, <2>4 DEF Ws
<1>2. ASSUME NEW r \in Readers, Reader(r) PROVE CalmInv'
  <2>0. UNCHANGED <<w, index, short>>
    BY <1>2, ReaderKeeps
  <2>1. ASSUME NEW q \in Readers, q # r PROVE Nearest(q)'
    BY <1>0, <1>2, <2>0, <2>1, OthersKept
  <2>2. ASSUME NEW i \in left[r], NEW n, NearestName(r, i, n),
               left'[r] = left[r] \ {i}, UNCHANGED <<ranked, calm>>,
               at[r] # "idle"
        PROVE  Nearest(r)'
    <3> SUFFICES ASSUME calm[r], ~short,
                        NEW j \in DOMAIN ranked[r] \ left'[r],
                        \E e \in index : e.id = ranked[r][j]
                 PROVE  best'[r] \in 1..j
      BY <1>0, <2>0, <2>2
    <3>1. left[r] \in SUBSET Nat /\ ranked[r] \in Seq(Ids) /\ best[r] \in Nat
      BY DEF TypeOK, ReadersTyped
    <3>2. i \in DOMAIN ranked[r]
      BY DEF LookupInv
    <3>3. \A k \in DOMAIN ranked[r] : k \in Nat \ {0}
      BY <3>1
    <3>4. i \in Nat \ {0} /\ j \in Nat \ {0}
      BY <3>2, <3>3
    <3>5. \/ (best[r] = 0 \/ i < best[r]) /\ best'[r] = i
          \/ best[r] # 0 /\ best[r] <= i /\ best'[r] = best[r]
      BY <2>2, <3>4, NearestFound
    <3>6. CASE j = i
      BY <3>1, <3>4, <3>5, <3>6
    <3>7. CASE j # i
      <4>1. best[r] \in 1..j
        BY <1>0, <2>2, <3>7
      <4> QED BY <3>1, <3>4, <3>5, <4>1
    <3> QED BY <3>6, <3>7
  <2>3. Nearest(r)'
    <3>1. CASE Compare(r)
      <4>1. left'[r] = DOMAIN ranked'[r] /\ calm'[r] = (w # "keep")
        BY <3>1 DEF Compare, TypeOK, ReadersTyped
      <4> QED BY <2>0, <4>1
    <3>2. CASE NameFromCache(r)
      <4>1. PICK i \in left[r], e \in asked :
              NearestName(r, i, e.name) /\ left'[r] = left[r] \ {i}
        BY <3>2, NameInRing
      <4>2. UNCHANGED <<ranked, calm>> /\ at[r] # "idle"
        BY <3>2 DEF NameFromCache
      <4> QED BY <2>2, <4>1, <4>2
    <3>3. CASE NotInCache(r)
      <4>1. UNCHANGED <<ranked, left, best, calm>> /\ at[r] # "idle"
        BY <3>3 DEF NotInCache
      <4> QED BY <1>0, <2>0, <4>1
    <3>4. CASE NameFromIndex(r)
      <4>1. PICK i \in left[r], e \in asked :
              NearestName(r, i, e.name) /\ left'[r] = left[r] \ {i}
        BY <3>4, NameInIndex
      <4>2. UNCHANGED <<ranked, calm>> /\ at[r] # "idle"
        BY <3>4 DEF NameFromIndex
      <4> QED BY <2>2, <4>1, <4>2
    <3>5. CASE NoName(r)
      <4>1. PICK i \in left[r] : MayMiss(ranked[r][i])
                                 /\ left'[r] = left[r] \ {i}
                                 /\ UNCHANGED <<best, ranked, calm>>
        BY <3>5, NameNowhere
      <4>2. at[r] # "idle"
        BY <3>5 DEF NoName
      <4> QED BY <1>0, <2>0, <4>1, <4>2 DEF MayMiss
    <3>6. CASE CacheFound(r)
      <4>1. UNCHANGED <<ranked, left, best, calm>> /\ at[r] # "idle"
        BY <3>6 DEF CacheFound
      <4> QED BY <1>0, <2>0, <4>1
    <3>7. CASE Report(r)
      <4>1. at'[r] = "idle"
        BY <3>7 DEF Report, Reset, TypeOK, ReadersTyped
      <4> QED BY <4>1
    <3> QED BY <1>2, <3>1, <3>2, <3>3, <3>4, <3>5, <3>6, <3>7 DEF Reader
  <2> QED BY <2>1, <2>3 DEF CalmInv
<1>3. CASE RunShort \/ WriteBack \/ UNCHANGED vars
  BY <1>3 DEF RunShort, WriteBack, vars, fileVars, wsVars, readerVars, CalmInv
<1>4. CASE Killed \/ PowerCut
  BY <1>4, ForgetStarts DEF Killed, PowerCut, CalmInv
<1> QED BY <1>1, <1>2, <1>3, <1>4 DEF Next

LibraryInv == /\ TypeOK /\ RewriteInv /\ WholeInv /\ AskedInv
              /\ LookupInv /\ NamesAreOwn /\ CalmInv

(* The parts together are inductive.                                       *)
THEOREM LibraryInductive == Spec => []LibraryInv
<1>1. Init => LibraryInv
  <2> SUFFICES ASSUME Init PROVE LibraryInv
    OBVIOUS
  <2>1. 0 \in Slots /\ <<>> \in Seq(Ids)
    BY CacheAssumption DEF Slots
  <2>2. TypeOK
    BY <2>1, SavesAssumption DEF Init, TypeOK, FilesTyped, WsTyped,
       ReadersTyped, NoEntry
  <2>3. RewriteInv /\ WholeInv
    BY DEF Init, RewriteInv, WholeInv
  <2>4. AskedInv /\ LookupInv /\ NamesAreOwn /\ CalmInv
    BY DEF Init, AskedInv, LookupInv, NamesAreOwn, CalmInv
  <2> QED BY <2>2, <2>3, <2>4 DEF LibraryInv
<1>2. LibraryInv /\ [Next]_vars => LibraryInv'
  BY TypeStep, RewriteStep, WholeStep, AskedStep, LookupStep, OwnStep, CalmStep
     DEF LibraryInv
<1> QED BY <1>1, <1>2, PTL DEF Spec

(* Every variable keeps its type, for any number of saves and any ring.    *)
THEOREM LibraryTypeCorrect == Spec => []TypeOK
BY LibraryInductive, PTL DEF LibraryInv

(* The features of a face are on file before the index names it, so that a *)
(* program that is killed in zh_face_enroll_on_owner leaves no entry       *)
(* without its file.                                                       *)
THEOREM IndexIsBacked == Spec => []IndexNamesWholeFiles
<1>1. LibraryInv => IndexNamesWholeFiles
  BY DEF LibraryInv, WholeInv, IndexNamesWholeFiles
<1> QED BY <1>1, LibraryInductive, PTL

(* What is reported of a face is a name it was saved under.                *)
THEOREM ReportsOwnNames == Spec => []NamesAreOwn
BY LibraryInductive, PTL DEF LibraryInv

(* Unless a rewrite overlapped the lookup, the nearest match with a name   *)
(* is the one reported.                                                    *)
THEOREM ReportsNearest == Spec => []NearestIsReported
<1>1. LibraryInv => NearestIsReported
  BY DEF LibraryInv, CalmInv, NearestIsReported
<1> QED BY <1>1, LibraryInductive, PTL

-----------------------------------------------------------------------------
(* The library implements the set of faces.                                *)

Shown == IF w = "keep" THEN held ELSE index

(* A step that changes neither what the set is nor what is at risk.        *)
LEMMA Stutters ==
  ASSUME UNCHANGED <<Shown, dirty, safe, short>>
  PROVE  UNCHANGED Set!vars
BY DEF Set!vars, Shown

(* To truncate the index is to begin a save, unless an earlier one has not *)
(* reached the disk.                                                       *)
LEMMA OpenIsBegin ==
  ASSUME RewriteInv, OpenIndex
  PROVE  [Set!Next]_Set!vars
<1>1. Shown' = index /\ Shown = index /\ UNCHANGED short /\ dirty' = TRUE
      /\ safe' = IF dirty THEN safe ELSE index
  BY DEF OpenIndex, Shown
<1>2. CASE dirty = TRUE
  BY <1>1, <1>2, Stutters
<1>3. CASE ~dirty
  BY <1>1, <1>3 DEF Set!Next, Set!Begin, Shown
<1> QED BY <1>2, <1>3

(* The last line of a rewrite saves the face.                              *)
LEMMA AddIsSave ==
  ASSUME TypeOK, RewriteInv, AddEntry
  PROVE  Set!Next
<1>1. w = "keep" /\ w' = "cache" /\ todo = {} /\ entry \in Entry /\ dirty
  BY DEF AddEntry, TypeOK, WsTyped, RewriteInv
<1>2. Shown = held /\ Shown' = index' /\ UNCHANGED <<dirty, safe, short>>
  BY <1>1 DEF AddEntry, Shown
<1>3. index' = index \cup {entry} \/ (short /\ index' = index)
  BY WrittenOrLost DEF AddEntry
<1>4. index \subseteq Others(held) /\ (~short => index = Others(held))
  BY <1>1 DEF RewriteInv
<1>5. Set!With(entry) = Others(held) \cup {entry}
  BY <1>2 DEF Set!With, Others, Shown
<1>6. entry \in Set!Entry
  BY <1>1 DEF Set!Entry, Entry
<1>7. CASE short
  <2>1. index' \in SUBSET Set!With(entry)
    <3> HIDE DEF Others
    <3> QED BY <1>3, <1>4, <1>5
  <2> QED BY <1>1, <1>2, <1>6, <1>7, <2>1 DEF Set!Next, Set!SaveShort, Shown
<1>8. CASE ~short
  <2>1. index' = Set!With(entry)
    BY <1>3, <1>4, <1>5, <1>8
  <2> QED BY <1>1, <1>2, <1>6, <2>1 DEF Set!Next, Set!Save, Shown
<1> QED BY <1>7, <1>8

(* To die loses entries only while something is at risk.                   *)
LEMMA DeathIsLoss ==
  ASSUME TypeOK, RewriteInv, Killed \/ PowerCut
  PROVE  [Set!Next]_Set!vars
<1>1. w' = "idle" /\ Shown' = index'
  BY ForgetStarts DEF Killed, PowerCut, Shown
<1>2. index \subseteq Shown
  BY DEF RewriteInv, Others, Shown
<1>3. CASE ~dirty
  <2>1. safe = index /\ Shown = index
    BY <1>3 DEF RewriteInv, Shown
  <2>2. dirty = FALSE
    BY <1>3 DEF TypeOK, FilesTyped
  <2>3. index' = index /\ dirty' = FALSE /\ safe' = safe /\ short' = short
    <3>1. CASE Killed
      BY <2>2, <3>1 DEF Killed, fileVars
    <3>2. CASE PowerCut
      <4>1. index' = index
        BY <2>2, <3>2 DEF PowerCut
      <4> QED BY <2>1, <3>2, <4>1 DEF PowerCut
    <3> QED BY <3>1, <3>2
  <2> QED BY <1>1, <2>1, <2>2, <2>3, Stutters
<1>4. CASE Killed /\ dirty
  <2>1. UNCHANGED <<index, dirty, safe, short>>
    BY <1>4 DEF Killed, fileVars
  <2>2. Shown' \in SUBSET Shown
    BY <1>1, <1>2, <2>1
  <2> QED BY <1>4, <2>1, <2>2 DEF Set!Next, Set!Lose, Shown
<1>5. CASE PowerCut /\ dirty
  <2>1. index' = index \/ index' = safe \/ index' \in SUBSET index
    BY <1>5 DEF PowerCut
  <2>2. Shown' \in (SUBSET Shown) \cup {safe}
    BY <1>1, <1>2, <2>1
  <2>3. safe' = Shown' /\ dirty' = FALSE /\ UNCHANGED short
    BY <1>1, <1>5 DEF PowerCut
  <2> QED BY <1>5, <2>2, <2>3 DEF Set!Next, Set!Lose, Shown
<1> QED BY <1>3, <1>4, <1>5

LEMMA BackIsSettled ==
  ASSUME TypeOK, RewriteInv, WriteBack
  PROVE  [Set!Next]_Set!vars
<1>1. Shown = index /\ Shown' = index /\ UNCHANGED short
      /\ dirty' = FALSE /\ safe' = index
  BY DEF WriteBack, Shown, wsVars
<1>2. CASE dirty
  BY <1>1, <1>2 DEF Set!Next, Set!Settle, Shown
<1>3. CASE ~dirty
  <2>1. dirty = FALSE /\ safe = index
    BY <1>3 DEF RewriteInv, TypeOK, FilesTyped
  <2> QED BY <1>1, <2>1, Stutters
<1> QED BY <1>2, <1>3

(* Names stand for one face each, a save is one step of the set, and only  *)
(* a save that has not reached the disk puts the others at risk.           *)
THEOREM LibraryIsSet == Spec => LibrarySpec
<1>1. Init => Set!Init
  BY DEF Init, Set!Init
<1>2. LibraryInv /\ [Next]_vars => [Set!Next]_Set!vars
  <2> SUFFICES ASSUME TypeOK, RewriteInv, [Next]_vars
               PROVE  [Set!Next]_Set!vars
    BY DEF LibraryInv
  <2>1. CASE EnrollOnRecog \/ EnrollOnOwner \/ WriteEmbFile \/ IndexFails
             \/ CacheNew
    <3>1. w # "keep" /\ w' # "keep" /\ UNCHANGED <<index, dirty, safe, short>>
      BY <2>1 DEF EnrollOnRecog, EnrollOnOwner, WriteEmbFile, IndexFails,
                  CacheNew, Fails, fileVars
    <3> QED BY <3>1, Stutters DEF Shown
  <2>2. CASE OpenIndex
    BY <2>2, OpenIsBegin
  <2>3. CASE KeepEntry
    <3>1. w = "keep" /\ UNCHANGED <<w, held, dirty, safe, short>>
      BY <2>3 DEF KeepEntry
    <3> QED BY <3>1, Stutters DEF Shown
  <2>4. CASE AddEntry
    BY <2>4, AddIsSave
  <2>5. ASSUME NEW r \in Readers, Reader(r) PROVE [Set!Next]_Set!vars
    BY <2>5, ReaderKeeps, Stutters DEF Shown
  <2>6. CASE RunShort
    BY <2>6 DEF RunShort, wsVars, Set!Next, Set!RunShort
  <2>7. CASE WriteBack
    BY <2>7, BackIsSettled
  <2>8. CASE Killed \/ PowerCut
    BY <2>8, DeathIsLoss
  <2>9. CASE UNCHANGED vars
    BY <2>9, Stutters DEF vars, fileVars, wsVars, Shown
  <2> QED BY <2>1, <2>2, <2>3, <2>4, <2>5, <2>6, <2>7, <2>8, <2>9
             DEF Next, Ws
<1> QED BY <1>1, <1>2, LibraryInductive, PTL DEF Spec, LibrarySpec, Set!Spec
=============================================================================
