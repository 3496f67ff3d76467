----------------------------- MODULE FaceLibrary -----------------------------
(***************************************************************************)
(* The library of faces of src/src/face_recognition.c: a file of features  *)
(* per saved face, an index that gives it a name, and a ring in memory of  *)
(* names looked up before.  The ws thread saves (zh_face_enroll_on_owner); *)
(* the report thread and the capture thread look names up                  *)
(* (zh_face_do_compare_and_report, zh_face_detect_name_for_commit).  The   *)
(* ring has a mutex, the files have none, and neither is synced: the       *)
(* program may be killed and the power may fail between any two steps.     *)
(*                                                                         *)
(* A face is the number in its id, which the code takes from the clock.    *)
(* The index is a set of entries; the code keeps their order and adds the  *)
(* new one last.                                                           *)
(***************************************************************************)
EXTENDS Naturals, Sequences, FiniteSets

CONSTANTS
  Names,       \* the names people give
  Readers,     \* the threads that look names up
  CacheSize,   \* ZH_FACE_CACHE_MAX
  MaxSaves     \* bound on the faces saved

ASSUME CacheAssumption == CacheSize \in Nat \ {0}
ASSUME SavesAssumption == MaxSaves \in Nat

Ids == 1..MaxSaves
Slots == 0..(CacheSize - 1)
Entry == [name : Names, id : Ids]
NoEntry == [name |-> "none", id |-> 0]

VARIABLES
  \* the files: complete feature files, the index
  emb, index,
  \* what a power cut leaves of them: feature files not yet on the disk,
  \* whether the index is not, and what is there instead
  soft, dirty, safe,
  \* out of memory or of space on the disk
  short,
  \* the ring and its next slot
  cache, pos,
  \* g_face_enroll_valid
  valid,
  \* the ws thread in zh_face_enroll_on_owner: its place, the entry it saves,
  \* the entries of the index it rewrites and those it has yet to write
  w, entry, held, todo,
  \* the readers: place, the matches from the nearest on, those not looked
  \* up yet, the one in hand, the nearest that has a name and that name
  at, ranked, left, hand, best, named,
  \* how many faces have been saved
  saves,
  \* history: every entry ever asked for; whether no rewrite overlapped the
  \* lookup; whether power was cut while something was not on the disk
  asked, calm, torn

fileVars   == <<emb, index, soft, dirty, safe, short>>
cacheVars  == <<cache, pos>>
wsVars     == <<valid, w, entry, held, todo, saves, asked>>
readerVars == <<at, ranked, left, hand, best, named>>

vars == <<fileVars, cacheVars, wsVars, readerVars, calm, torn>>

Init ==
  /\ emb = {} /\ index = {}
  /\ soft = {} /\ dirty = FALSE /\ safe = {}
  /\ short = FALSE
  /\ cache = [i \in Slots |-> NoEntry] /\ pos = 0
  /\ valid = FALSE
  /\ w = "idle" /\ entry = NoEntry /\ held = {} /\ todo = {}
  /\ at = [r \in Readers |-> "idle"]
  /\ ranked = [r \in Readers |-> <<>>] /\ left = [r \in Readers |-> {}]
  /\ hand = [r \in Readers |-> NoEntry]
  /\ best = [r \in Readers |-> 0] /\ named = [r \in Readers |-> "none"]
  /\ saves = 0
  /\ asked = {} /\ calm = [r \in Readers |-> TRUE] /\ torn = FALSE

-----------------------------------------------------------------------------
(* The ring.                                                               *)

\* Mutant: the slot is moved on before the name is written into it.
PutAside(e) ==
  /\ cache' = [i \in Slots |-> IF i = pos
                               THEN [cache[i] EXCEPT !.id = e.id]
                               ELSE IF i = (pos + 1) % CacheSize
                                    THEN [cache[i] EXCEPT !.name = e.name]
                                    ELSE cache[i]]
  /\ pos' = (pos + 1) % CacheSize

\* zh_face_cache_set
CacheSet(e) ==
  /\ cache' = [cache EXCEPT ![pos] = e]
  /\ pos' = (pos + 1) % CacheSize

\* zh_face_cache_get: the first slot of that face.
CacheHit(i, f) == cache[i].id = f /\ \A j \in 0..(i - 1) : cache[j].id # f

CacheMiss(f) == \A i \in Slots : cache[i].id # f

-----------------------------------------------------------------------------
(* The ws thread.                                                          *)

\* zh_face_enroll_on_recog: what the engine answers is kept or not.
EnrollOnRecog ==
  /\ w = "idle"
  /\ valid' \in BOOLEAN
  /\ UNCHANGED <<fileVars, cacheVars, w, entry, held, todo, saves, asked,
                 readerVars, calm, torn>>

\* zh_face_enroll_on_owner: the sample stays valid for another name.
EnrollOnOwner ==
  /\ w = "idle" /\ valid /\ saves < MaxSaves
  /\ saves' = saves + 1
  /\ \E n \in Names : entry' = [name |-> n, id |-> saves']
  /\ asked' = asked \cup {entry'}
  /\ w' = "open"
  /\ UNCHANGED <<fileVars, cacheVars, valid, held, todo, readerVars, calm,
                 torn>>

Fails == w' = "idle" /\ entry' = NoEntry

\* Mutant: the features are left in the stream's buffer.
LeftInBuffer(f) == UNCHANGED <<emb, soft>>

WholeFile(f) == emb' = emb \cup {f} /\ soft' = soft \cup {f}

\* zh_write_emb_file.  The features fit the buffer of the stream: that
\* there is no room for them shows only when it is closed, which nobody asks.
WriteEmbFile ==
  /\ w = "open"
  /\ \/ WholeFile(entry.id) /\ w' = "index" /\ UNCHANGED entry
     \/ short /\ w' = "index" /\ UNCHANGED <<emb, soft, entry>>
     \/ Fails /\ UNCHANGED <<emb, soft>>
  /\ UNCHANGED <<index, dirty, safe, short, cacheVars, valid, held, todo,
                 saves, asked, readerVars, calm, torn>>

\* Mutant: the rewrite keeps the face that had the name.
KeepsAll(old) == old

Others(old) == {e \in old : e.name # entry.name}

\* zh_upsert_index_json up to fopen: the old entries are in memory (or could
\* not be read), the file is empty.
OpenIndex ==
  /\ w = "index"
  /\ w' = "keep"
  /\ held' = index
  /\ \/ todo' = Others(index)
     \/ short /\ todo' = {}
  /\ index' = {}
  /\ safe' = IF dirty THEN safe ELSE index
  /\ dirty' = TRUE
  /\ calm' = [r \in Readers |-> FALSE]
  /\ UNCHANGED <<emb, soft, short, cacheVars, valid, entry, saves, asked,
                 readerVars, torn>>

IndexFails ==
  /\ w = "index"
  /\ Fails
  /\ UNCHANGED <<fileVars, cacheVars, valid, held, todo, saves, asked,
                 readerVars, calm, torn>>

\* What is written when there is no room is lost, and nobody notices.
Written(e) == index' = index \cup {e} \/ (short /\ UNCHANGED index)

KeepEntry ==
  /\ w = "keep"
  /\ \E e \in todo : Written(e) /\ todo' = todo \ {e}
  /\ UNCHANGED <<emb, soft, dirty, safe, short, cacheVars, valid, w, entry,
                 held, saves, asked, readerVars, calm, torn>>

AddEntry ==
  /\ w = "keep" /\ todo = {}
  /\ Written(entry)
  /\ w' = "cache" /\ held' = {}
  /\ UNCHANGED <<emb, soft, dirty, safe, short, cacheVars, valid, entry, todo,
                 saves, asked, readerVars, calm, torn>>

CacheNew ==
  /\ w = "cache"
  /\ CacheSet(entry)
  /\ w' = "idle" /\ entry' = NoEntry
  /\ UNCHANGED <<fileVars, valid, held, todo, saves, asked, readerVars, calm,
                 torn>>

Ws == EnrollOnRecog \/ EnrollOnOwner \/ WriteEmbFile \/ OpenIndex
      \/ IndexFails \/ KeepEntry \/ AddEntry \/ CacheNew

-----------------------------------------------------------------------------
(* A reader.                                                               *)

Injective(s) == \A i, j \in DOMAIN s : s[i] = s[j] => i = j

\* compare_face_emb_dir: the engine names the files that match, each with
\* its distance.
Compare(r) ==
  /\ at[r] = "idle"
  /\ \E n \in 1..Cardinality(emb) :
       \E s \in [1..n -> emb] :
         Injective(s) /\ ranked' = [ranked EXCEPT ![r] = s]
  /\ left' = [left EXCEPT ![r] = DOMAIN ranked'[r]]
  /\ at' = [at EXCEPT ![r] = "look"]
  /\ calm' = [calm EXCEPT ![r] = w # "keep"]
  /\ UNCHANGED <<fileVars, cacheVars, wsVars, hand, best, named, torn>>

\* Mutant: the name found last wins.
LastName(r, i, n) ==
  best' = [best EXCEPT ![r] = i] /\ named' = [named EXCEPT ![r] = n]

\* The nearest match that has a name.
NearestName(r, i, n) ==
  IF best[r] = 0 \/ i < best[r]
  THEN best' = [best EXCEPT ![r] = i] /\ named' = [named EXCEPT ![r] = n]
  ELSE UNCHANGED <<best, named>>

InHand(r) == CHOOSE i \in left[r] : ranked[r][i] = hand[r].id

NameFromCache(r) ==
  /\ at[r] = "look"
  /\ \E i \in left[r], s \in Slots :
       /\ CacheHit(s, ranked[r][i])
       /\ NearestName(r, i, cache[s].name)
       /\ left' = [left EXCEPT ![r] = @ \ {i}]
  /\ UNCHANGED <<fileVars, cacheVars, wsVars, at, ranked, hand, calm, torn>>

NotInCache(r) ==
  /\ at[r] = "look"
  /\ \E i \in left[r] :
       /\ CacheMiss(ranked[r][i])
       /\ hand' = [hand EXCEPT ![r] = [NoEntry EXCEPT !.id = ranked[r][i]]]
  /\ at' = [at EXCEPT ![r] = "read"]
  /\ UNCHANGED <<fileVars, cacheVars, wsVars, ranked, left, best, named, calm,
                 torn>>

\* zh_index_find_name, on what there is of the index.
NameFromIndex(r) ==
  /\ at[r] = "read"
  /\ \E e \in index :
       /\ e.id = hand[r].id
       /\ hand' = [hand EXCEPT ![r] = e]
       /\ NearestName(r, InHand(r), e.name)
  /\ left' = [left EXCEPT ![r] = @ \ {InHand(r)}]
  /\ at' = [at EXCEPT ![r] = "found"]
  /\ UNCHANGED <<fileVars, cacheVars, wsVars, ranked, calm, torn>>

\* zh_read_file_dyn gives up on a file that changes under it, or for want of
\* memory.
MayMiss(f) == w = "keep" \/ short \/ \A e \in index : e.id # f

NoName(r) ==
  /\ at[r] = "read"
  /\ MayMiss(hand[r].id)
  /\ left' = [left EXCEPT ![r] = @ \ {InHand(r)}]
  /\ hand' = [hand EXCEPT ![r] = NoEntry]
  /\ at' = [at EXCEPT ![r] = "look"]
  /\ UNCHANGED <<fileVars, cacheVars, wsVars, ranked, best, named, calm, torn>>

CacheFound(r) ==
  /\ at[r] = "found"
  /\ CacheSet(hand[r])
  /\ hand' = [hand EXCEPT ![r] = NoEntry]
  /\ at' = [at EXCEPT ![r] = "look"]
  /\ UNCHANGED <<fileVars, wsVars, ranked, left, best, named, calm, torn>>

Reset(f, r, v) == f' = [f EXCEPT ![r] = v]

\* The name is reported to the server, or sent with the picture.
Report(r) ==
  /\ at[r] = "look" /\ left[r] = {}
  /\ Reset(at, r, "idle") /\ Reset(ranked, r, <<>>)
  /\ Reset(best, r, 0) /\ Reset(named, r, "none") /\ Reset(calm, r, TRUE)
  /\ UNCHANGED <<fileVars, cacheVars, wsVars, left, hand, torn>>

Reader(r) == Compare(r) \/ NameFromCache(r) \/ NotInCache(r)
             \/ NameFromIndex(r) \/ NoName(r) \/ CacheFound(r) \/ Report(r)

-----------------------------------------------------------------------------
(* The world.                                                              *)

RunShort ==
  /\ ~short
  /\ short' = TRUE
  /\ UNCHANGED <<emb, index, soft, dirty, safe, cacheVars, wsVars, readerVars,
                 calm, torn>>

\* The kernel writes back; between the lines of a rewrite it changes nothing
\* that a cut could not leave anyway.
WriteBack ==
  /\ w # "keep"
  /\ soft' = {} /\ dirty' = FALSE /\ safe' = index
  /\ UNCHANGED <<emb, index, short, cacheVars, wsVars, readerVars, calm, torn>>

\* What the program has in memory is gone; the supervisor starts it again.
Forget ==
  /\ cache' = [i \in Slots |-> NoEntry] /\ pos' = 0
  /\ valid' = FALSE
  /\ w' = "idle" /\ entry' = NoEntry /\ held' = {} /\ todo' = {}
  /\ at' = [r \in Readers |-> "idle"]
  /\ ranked' = [r \in Readers |-> <<>>] /\ left' = [r \in Readers |-> {}]
  /\ hand' = [r \in Readers |-> NoEntry]
  /\ best' = [r \in Readers |-> 0] /\ named' = [r \in Readers |-> "none"]
  /\ calm' = [r \in Readers |-> TRUE]
  /\ UNCHANGED <<saves, asked>>

Killed == Forget /\ UNCHANGED <<fileVars, torn>>

PowerCut ==
  /\ Forget
  /\ \E lost \in SUBSET soft : emb' = emb \ lost
  /\ \/ UNCHANGED index
     \/ dirty /\ (index' = safe \/ index' \in SUBSET index)
  /\ soft' = {} /\ dirty' = FALSE /\ safe' = index'
  /\ torn' = (torn \/ dirty \/ soft # {})
  /\ UNCHANGED short

Next == Ws \/ (\E r \in Readers : Reader(r)) \/ RunShort \/ WriteBack
        \/ Killed \/ PowerCut

Spec == Init /\ [][Next]_vars

-----------------------------------------------------------------------------
(* Properties.                                                             *)

FilesTyped ==
  /\ emb \subseteq Ids /\ soft \subseteq Ids
  /\ index \subseteq Entry /\ safe \subseteq Entry
  /\ dirty \in BOOLEAN /\ short \in BOOLEAN /\ torn \in BOOLEAN
  /\ asked \subseteq Entry

WsTyped ==
  /\ valid \in BOOLEAN
  /\ w \in {"idle", "open", "index", "keep", "cache"}
  /\ entry \in IF w = "idle" THEN {NoEntry} ELSE Entry
  /\ held \subseteq Entry /\ todo \subseteq Entry
  /\ saves \in 0..MaxSaves

ReadersTyped ==
  /\ cache \in [Slots -> Entry \cup {NoEntry}] /\ pos \in Slots
  /\ at \in [Readers -> {"idle", "look", "read", "found"}]
  /\ ranked \in [Readers -> Seq(Ids)]
  /\ left \in [Readers -> SUBSET Nat]
  /\ hand \in [Readers -> [name : Names \cup {"none"}, id : 0..MaxSaves]]
  /\ \A r \in Readers : at[r] = "found" => hand[r] \in Entry
  /\ best \in [Readers -> Nat]
  /\ named \in [Readers -> Names \cup {"none"}]
  /\ calm \in [Readers -> BOOLEAN]

\* Every variable has its type.
TypeOK == FilesTyped /\ WsTyped /\ ReadersTyped

\* The library is the set that FaceSet promises: while the index is rewritten
\* the entries in memory stand for it.
Set == INSTANCE FaceSet WITH
         faces <- IF w = "keep" THEN held ELSE index,
         atRisk <- dirty, before <- safe, short <- short

LibrarySpec == Set!Spec

\* An entry of the index names a face whose features are all there, also
\* after the program was killed: they are written first
\* (zh_face_enroll_on_owner).  Power cuts are another matter, nothing is
\* synced in that order.
IndexNamesWholeFiles == ~short /\ ~torn => \A e \in index : e.id \in emb

\* The name that is reported is the one its face was saved under, whichever
\* of ring and index it comes from, and however they were replaced meanwhile.
NamesAreOwn ==
  \A r \in Readers :
    best[r] # 0 => [name |-> named[r], id |-> ranked[r][best[r]]] \in asked

\* A lookup that no rewrite overlapped reports the nearest match, if it has
\* a name, and no match with a name is nearer than the one reported.
NearestIsReported ==
  \A r \in Readers :
    at[r] = "look" /\ left[r] = {} /\ calm[r] /\ ~short =>
      \A i \in DOMAIN ranked[r] :
        (\E e \in index : e.id = ranked[r][i]) => best[r] \in 1..i

-----------------------------------------------------------------------------
(* The parts of the inductive invariant.                                   *)

\* A rewrite has written nothing that it does not mean to keep, and loses
\* something only for want of room; at rest the disk has the index.
RewriteInv ==
  /\ ~dirty => safe = index /\ w # "keep"
  /\ w = "keep" =>
       /\ todo \subseteq Others(held) /\ index \subseteq Others(held)
       /\ ~short => index \cup todo = Others(held)

WholeInv ==
  ~short /\ ~torn =>
    /\ \A e \in index \cup held \cup todo : e.id \in emb
    /\ w \in {"index", "keep", "cache"} => entry.id \in emb

AskedInv ==
  /\ index \cup held \cup todo \cup safe \subseteq asked
  /\ w # "idle" => entry \in asked
  /\ \A i \in Slots : cache[i] # NoEntry => cache[i] \in asked
  /\ \A r \in Readers : at[r] = "found" => hand[r] \in asked

LookupInv ==
  \A r \in Readers :
    /\ left[r] \subseteq DOMAIN ranked[r]
    /\ best[r] # 0 => best[r] \in DOMAIN ranked[r]
    /\ at[r] = "idle" => best[r] = 0
    /\ at[r] = "read" => \E i \in left[r] : ranked[r][i] = hand[r].id

CalmInv ==
  \A r \in Readers :
    at[r] # "idle" /\ calm[r] =>
      /\ w # "keep"
      /\ ~short => \A i \in DOMAIN ranked[r] \ left[r] :
                     (\E e \in index : e.id = ranked[r][i]) => best[r] \in 1..i
=============================================================================
