-------------------------- MODULE MusicPlayerProofs --------------------------
(* Theorems about MusicPlayer for every value of its bounds.               *)
EXTENDS MusicPlayer, SequenceTheorems, TLAPS

(* The two queues a url list is split into are sequences of items, and     *)
(* together they are the list, in its order.                               *)
LEMMA ItemsOfList ==
  ASSUME NEW kinds \in UrlLists, token \in Nat
  PROVE  /\ ItemsOf(kinds) \in Seq(Item)
         /\ Len(ItemsOf(kinds)) = Len(kinds)
         /\ ItemsOf(kinds) # <<>>
         /\ \A i \in 1..Len(ItemsOf(kinds)) :
              /\ ItemsOf(kinds)[i].gen = token + 1
              /\ ItemsOf(kinds)[i].pos = i
              /\ ItemsOf(kinds)[i].kind # "baidu"
<1>1. PICK n \in 1..MaxList : kinds \in [1..n -> {"local", "stream"}]
  BY DEF UrlLists
<1>2. n \in Nat /\ n > 0
  BY BoundsAssumption
<1>3. kinds \in Seq(Kinds) /\ Len(kinds) = n
  BY <1>1, <1>2 DEF Kinds
<1>4. \A i \in 1..n : kinds[i] \in Kinds /\ kinds[i] # "baidu"
  BY <1>1 DEF Kinds
<1>5. ItemsOf(kinds) \in [1..n -> Item]
  BY <1>2, <1>3, <1>4 DEF ItemsOf, Item
<1>6. ItemsOf(kinds) \in Seq(Item) /\ Len(ItemsOf(kinds)) = n
  BY <1>2, <1>5
<1>7. \A i \in 1..n : /\ ItemsOf(kinds)[i].gen = token + 1
                      /\ ItemsOf(kinds)[i].pos = i
                      /\ ItemsOf(kinds)[i].kind = kinds[i]
  BY <1>2, <1>3 DEF ItemsOf
<1> QED BY <1>2, <1>3, <1>4, <1>6, <1>7

LEMMA SplitIsWhole ==
  ASSUME NEW S, NEW s \in Seq(S), s # <<>>
  PROVE  /\ <<Head(s)>> \in Seq(S)
         /\ Tail(s) \in Seq(S)
         /\ Head(s) \in S
         /\ <<Head(s)>> \o Tail(s) = s
<1>1. Len(s) \in Nat /\ Len(s) >= 1 /\ s[1] \in S /\ Head(s) = s[1]
  BY EmptySeq, ElementOfSeq
<1>2. Tail(s) \in Seq(S) /\ Len(Tail(s)) = Len(s) - 1
      /\ \A i \in 1..Len(Tail(s)) : Tail(s)[i] = s[i + 1]
  BY HeadTailProperties
<1>3. <<Head(s)>> \in Seq(S) /\ Len(<<Head(s)>>) = 1 /\ <<Head(s)>>[1] = s[1]
  BY <1>1
<1>4. <<Head(s)>> \o Tail(s) = s
  <2> DEFINE t == <<Head(s)>> \o Tail(s)
  <2>1. /\ t \in Seq(S)
        /\ Len(t) = Len(s)
        /\ \A i \in 1..Len(t) : t[i] = IF i <= 1 THEN <<Head(s)>>[i]
                                        ELSE Tail(s)[i - 1]
    BY <1>1, <1>2, <1>3, ConcatProperties
  <2>2. \A i \in 1..Len(s) : t[i] = s[i]
    BY <1>1, <1>2, <1>3, <2>1
  <2> QED BY <2>1, <2>2, SeqEqual
<1> QED BY <1>1, <1>2, <1>3, <1>4

LEMMA TakeFirst ==
  ASSUME NEW S, NEW h \in Seq(S), NEW p \in Seq(S), h \o p # <<>>
  PROVE  /\ h # <<>> => /\ Head(h \o p) = h[1]
                        /\ Tail(h \o p) = Tail(h) \o p
                        /\ Tail(h) \in Seq(S)
                        /\ Len(h) >= 1 /\ h[1] \in S
         /\ h = <<>> => /\ p # <<>> /\ h \o p = p /\ h \o Tail(p) = Tail(p)
                        /\ Head(h \o p) = p[1]
                        /\ Tail(p) \in Seq(S)
                        /\ Len(p) >= 1 /\ p[1] \in S
OBVIOUS

-----------------------------------------------------------------------------
(* The worker's actions that leave g_music alone.                          *)

KeepsPlayer ==
  \/ Exit \/ Sleep \/ SpuriousWake \/ CheckItem \/ OpenSource \/ BaiduBegin
  \/ Transfer \/ GateWaitEnds \/ GateDecide \/ GateRelease \/ FeedGo
  \/ FeedStop \/ Write \/ Sample \/ Finish \/ BaiduEnd

(* A request replaces the queue by the items it was given, in order, or by *)
(* nothing, and changes g_music and the transfer flag in no other way; a   *)
(* Baidu query comes alone.                                                *)
LEMMA RequestStep ==
  ASSUME TypeOK, PlayUrls \/ PlayBaiduQuery \/ Interrupt
  PROVE  \E h, p \in Seq(Item) :
           /\ Replace(h, p)
           /\ \A i \in 1..Len(h) : h[i].gen = token + 1
           /\ \A i \in 1..Len(p) : p[i].gen = token + 1
           /\ \A i \in 1..Len(h \o p) : (h \o p)[i].gen = token + 1
                                       /\ (h \o p)[i].pos = i
           /\ \A i \in 1..Len(h) : h[i].kind = "baidu"
                                   => Len(h) = 1 /\ p = <<>>
           /\ \A i \in 1..Len(p) : p[i].kind # "baidu"
<1>1. token \in Nat /\ <<>> \in Seq(Item)
  BY DEF TypeOK, PlayerTyped
<1>2. CASE PlayUrls
  <2>1. PICK kinds \in UrlLists :
          LET items == ItemsOf(kinds) IN
            \/ Replace(<<Head(items)>>, Tail(items))
            \/ Replace(<<>>, items)
    BY <1>2 DEF PlayUrls
  <2> DEFINE items == ItemsOf(kinds)
  <2>2. /\ items \in Seq(Item) /\ items # <<>>
        /\ \A i \in 1..Len(items) : /\ items[i].gen = token + 1
                                    /\ items[i].pos = i
                                    /\ items[i].kind # "baidu"
    BY <1>1, ItemsOfList
  <2> HIDE DEF items
  <2>3. /\ <<Head(items)>> \in Seq(Item) /\ Tail(items) \in Seq(Item)
        /\ <<Head(items)>> \o Tail(items) = items
    BY <2>2, SplitIsWhole
  <2>4. /\ \A i \in 1..Len(<<Head(items)>>) :
             /\ <<Head(items)>>[i].gen = token + 1
             /\ <<Head(items)>>[i].kind # "baidu"
        /\ \A i \in 1..Len(Tail(items)) :
             Tail(items)[i].gen = token + 1 /\ Tail(items)[i].kind # "baidu"
    BY <2>2, HeadTailProperties, EmptySeq
  <2>5. CASE Replace(<<Head(items)>>, Tail(items))
    <3> USE <2>3
    <3> WITNESS <<Head(items)>> \in Seq(Item), Tail(items) \in Seq(Item)
    <3> QED BY <2>2, <2>4, <2>5
  <2>6. CASE Replace(<<>>, items)
    <3>1. <<>> \o items = items /\ Len(<<>>) = 0
      BY <2>2, ConcatEmptySeq
    <3> USE <1>1, <2>2
    <3> WITNESS <<>> \in Seq(Item), items \in Seq(Item)
    <3> QED BY <2>2, <2>6, <3>1
  <2> QED BY <2>1, <2>5, <2>6 DEF items
<1>3. CASE PlayBaiduQuery
  <2> DEFINE item == [gen |-> token + 1, pos |-> 1, kind |-> "baidu"]
  <2>1. item \in Item /\ item.gen = token + 1 /\ item.pos = 1
    BY <1>1 DEF Item, Kinds
  <2> HIDE DEF item
  <2>2. /\ <<item>> \in Seq(Item) /\ Len(<<item>>) = 1 /\ <<item>>[1] = item
        /\ <<item>> \o <<>> = <<item>> /\ Len(<<>>) = 0
    BY <2>1, ConcatEmptySeq
  <2>3. Replace(<<item>>, <<>>)
    BY <1>3 DEF PlayBaiduQuery, item
  <2> USE <1>1, <2>2
  <2> WITNESS <<item>> \in Seq(Item), <<>> \in Seq(Item)
  <2> QED BY <2>1, <2>2, <2>3
<1>4. CASE Interrupt
  <2>1. Len(<<>>) = 0 /\ <<>> \o <<>> = <<>>
    BY <1>1, ConcatEmptySeq
  <2>2. Replace(<<>>, <<>>)
    BY <1>4 DEF Interrupt
  <2> USE <1>1
  <2> WITNESS <<>> \in Seq(Item), <<>> \in Seq(Item)
  <2> QED BY <2>1, <2>2
<1> QED BY <1>2, <1>3, <1>4

-----------------------------------------------------------------------------
(* g_music keeps its type: its two queues are sequences of items.          *)
LEMMA PlayerTypeStep ==
  ASSUME TypeOK, [Next]_vars
  PROVE  PlayerTyped'
<1> USE DEF PlayerTyped
<1>0. PlayerTyped
  BY DEF TypeOK
<1>1. CASE Start \/ Stop
  <2>1. <<>> \in Seq(Item)
    OBVIOUS
  <2>2. CASE Start
    BY <1>0, <2>2 DEF Start
  <2>3. CASE Stop
    BY <1>0, <2>1, <2>3 DEF Stop
  <2> QED BY <1>1, <2>2, <2>3
<1>2. CASE PlayUrls \/ PlayBaiduQuery \/ Interrupt
  <2>1. PICK h, p \in Seq(Item) : Replace(h, p)
    BY <1>2, RequestStep
  <2> QED BY <1>0, <2>1 DEF Replace
<1>3. CASE Dequeue
  <2>1. /\ head # <<>> => Tail(head) \in Seq(Item)
        /\ head = <<>> => Tail(pending) \in Seq(Item)
    BY <1>0, <1>3, TakeFirst DEF Dequeue, HasWork, Queue
  <2> QED BY <1>0, <1>3, <2>1 DEF Dequeue, RaisePlaying
<1>4. CASE ItemDone
  <2>1. pending # <<>> => /\ <<Head(pending)>> \in Seq(Item)
                          /\ Tail(pending) \in Seq(Item)
    BY <1>0, SplitIsWhole
  <2>2. <<>> \in Seq(Item)
    OBVIOUS
  <2>3. head' \in Seq(Item) /\ pending' \in Seq(Item)
    BY <1>0, <1>4, <2>1, <2>2 DEF ItemDone
  <2>4. UNCHANGED <<running, stop, token>> /\ playing' \in {playing, FALSE}
    BY <1>4 DEF ItemDone
  <2> QED BY <1>0, <2>3, <2>4
<1>5. CASE StartCreated
  BY <1>0, <1>5 DEF StartCreated
<1>6. CASE Server \/ KeepsPlayer \/ UNCHANGED vars
  <2>1. UNCHANGED playerVars
    BY <1>6 DEF Server, BaiduTtsDone, BaiduCancel, BaiduCancelTail,
       KeepsPlayer, Exit, Sleep, SpuriousWake, CheckItem, OpenSource,
       BaiduBegin, Transfer, ReadLocal, LocalEnd, StreamData, StreamEnd,
       SseAudio, QueueOrPlay, SseResource, SseReport, BaiduPosted,
       GateWaitEnds, GateDecide, GateRelease, FeedGo, FeedStop, Write,
       Sample, Finish, BaiduEnd, vars
  <2> QED BY <1>0, <2>1 DEF playerVars
<1> QED BY <1>1, <1>2, <1>3, <1>4, <1>5, <1>6 DEF Next, Callers, Worker,
        KeepsPlayer

(* The worker's locals keep their types, with the fact that its program    *)
(* counter says whether it holds an item.                                  *)
LEMMA WorkerTypeStep ==
  ASSUME TypeOK, HandInv, [Next]_vars
  PROVE  WorkerTyped'
<1> USE DEF WorkerTyped
<1>0. WorkerTyped
  BY DEF TypeOK
<1> HIDE DEF HandInv
<1>1. CASE PlayUrls \/ PlayBaiduQuery \/ Interrupt
  <2>1. PICK h, p \in Seq(Item) : Replace(h, p)
    BY <1>1, RequestStep
  <2>2. UNCHANGED <<localVars, stale>> /\ pc' \in {pc, "top"}
    BY <2>1 DEF Replace, Broadcast
  <2> QED BY <1>0, <2>2 DEF localVars
<1>2. CASE Start \/ StartCreated \/ Exit \/ Sleep \/ SpuriousWake
  <2>1. UNCHANGED <<localVars, stale>>
    BY <1>2 DEF Start, StartCreated, Exit, Sleep, SpuriousWake
  <2>2. pc' \in {"none", "creating", "top", "asleep", "exited"}
    BY <1>2 DEF Start, StartCreated, Exit, Sleep, SpuriousWake
  <2> QED BY <1>0, <2>1, <2>2 DEF localVars
<1>3. CASE Stop \/ Server \/ BaiduEnd \/ UNCHANGED vars
  <2>1. UNCHANGED <<localVars, stale>> /\ pc' \in {pc, "top", "done"}
    BY <1>3 DEF Stop, Broadcast, Server, BaiduTtsDone, BaiduCancel,
                BaiduCancelTail, BaiduEnd, vars
  <2> QED BY <1>0, <2>1 DEF localVars
<1>4. CASE Dequeue
  <2>1. Head(Queue) \in Item
    BY <1>4, TakeFirst DEF Dequeue, HasWork, Queue, TypeOK, PlayerTyped
  <2>2. Head(Queue).kind \in Kinds
    BY <2>1 DEF Item
  <2>3. token \in Nat
    BY DEF TypeOK, PlayerTyped
  <2> QED BY <1>0, <1>4, <2>1, <2>2, <2>3 DEF Dequeue
<1>5. CASE CheckItem
  BY <1>0, <1>5 DEF CheckItem, localVars
<1>6. "stream" \in Kinds /\ "baidu" \in Kinds /\ "local" \in Kinds
  BY DEF Kinds
<1>7. CASE OpenSource \/ Finish
  <2>1. cur # None
    BY <1>7 DEF HandInv, InHandPcs, OpenSource, Finish
  <2>2. cur.kind \in Kinds
    BY <1>0, <2>1 DEF Item
  <2>3. CASE OpenSource
    BY <1>0, <1>6, <2>2, <2>3, BoundsAssumption DEF OpenSource
  <2>4. CASE Finish
    BY <1>0, <2>2, <2>4 DEF Finish
  <2> QED BY <1>7, <2>3, <2>4
<1>8. CASE BaiduBegin
  BY <1>0, <1>8, BoundsAssumption DEF BaiduBegin
<1>9. CASE ReadLocal
  <2>1. UNCHANGED <<cur, wtoken, mode, stale>> /\ pc' \in {"finish", "feed"}
    BY <1>9 DEF ReadLocal
  <2>2. left' \in Nat /\ toPlay' \in Nat
    BY <1>0, <1>9 DEF ReadLocal
  <2>3. interrupted' = interrupted \/ interrupted' = TRUE
    BY <1>9 DEF ReadLocal
  <2>4. interrupted' \in BOOLEAN
    BY <1>0, <2>3
  <2> QED BY <1>0, <2>1, <2>2, <2>4
<1>10. CASE LocalEnd \/ StreamEnd \/ BaiduPosted
  BY <1>0, <1>10 DEF LocalEnd, StreamEnd, BaiduPosted, localVars
<1>11. CASE StreamData
  BY <1>0, <1>11 DEF StreamData
<1>12. CASE SseAudio \/ QueueOrPlay
  BY <1>0, <1>12 DEF SseAudio, QueueOrPlay, SseEvent, TypeOK, BaiduTyped
<1>13. CASE SseResource \/ SseReport
  BY <1>0, <1>13 DEF SseResource, SseReport, SseEvent
<1>14. CASE GateWaitEnds \/ FeedGo
  BY <1>0, <1>14 DEF GateWaitEnds, FeedGo, localVars
<1>15. CASE GateDecide \/ GateRelease
  BY <1>0, <1>6, <1>15 DEF GateDecide, GateRelease, localVars, TypeOK,
                           BaiduTyped
<1>16. CASE FeedStop
  BY <1>0, <1>16 DEF FeedStop, ShouldAbort, TypeOK, PlayerTyped
<1>17. CASE Write
  <2>1. toPlay > 0
    BY <1>17 DEF Write, HandInv
  <2> QED BY <1>0, <1>17, <2>1 DEF Write, OneLess
<1>18. CASE Sample
  BY <1>0, <1>18 DEF Sample, ShouldAbort, TypeOK, PlayerTyped, GateTyped
<1>19. CASE ItemDone
  BY <1>0, <1>6, <1>19 DEF ItemDone
<1> QED
  BY <1>1, <1>2, <1>3, <1>4, <1>5, <1>7, <1>8, <1>9, <1>10, <1>11, <1>12,
     <1>13, <1>14, <1>15, <1>16, <1>17, <1>18, <1>19
     DEF Next, Callers, Worker, Transfer

(* The context of a Baidu request, the gate and the histories keep theirs. *)
LEMMA GateTypeStep ==
  ASSUME TypeOK, [Next]_vars
  PROVE  BaiduTyped' /\ GateTyped' /\ HistoryTyped'
<1>0. BaiduTyped /\ GateTyped /\ HistoryTyped /\ wtoken \in Nat
  BY DEF TypeOK, WorkerTyped
<1>1. BaiduTyped'
  <2> USE DEF BaiduTyped
  <2>1. CASE BaiduBegin
    <3>1. \/ UNCHANGED baiduVars
          \/ /\ buffered' = 0 /\ playable' = TRUE /\ gotAudio' = FALSE
             /\ hasUrl' = FALSE /\ posted' = FALSE
      BY <2>1 DEF BaiduBegin
    <3>2. CASE UNCHANGED baiduVars
      BY <1>0, <3>2 DEF baiduVars
    <3>3. CASE /\ buffered' = 0 /\ playable' = TRUE /\ gotAudio' = FALSE
               /\ hasUrl' = FALSE /\ posted' = FALSE
      BY <3>3
    <3> QED BY <3>1, <3>2, <3>3
  <2>2. CASE SseAudio \/ QueueOrPlay
    <3>1. /\ UNCHANGED <<playable, hasUrl, posted>>
          /\ gotAudio' = TRUE \/ gotAudio' = gotAudio
          /\ buffered' \in {0, buffered, buffered + 1}
      BY <2>2 DEF SseAudio, QueueOrPlay
    <3>2. buffered' \in Nat
      BY <1>0, <3>1
    <3>3. /\ playable' \in BOOLEAN /\ gotAudio' \in BOOLEAN
          /\ hasUrl' \in BOOLEAN /\ posted' \in BOOLEAN
      BY <1>0, <3>1, Zenon
    <3> QED BY <3>2, <3>3
  <2>3. CASE SseResource
    BY <1>0, <2>3 DEF SseResource
  <2>4. CASE BaiduPosted
    BY <1>0, <2>4 DEF BaiduPosted
  <2>5. CASE ItemDone
    BY <1>0, <2>5 DEF ItemDone
  <2>6. CASE ~(BaiduBegin \/ SseAudio \/ QueueOrPlay \/ SseResource
                \/ BaiduPosted \/ ItemDone)
    <3>1. UNCHANGED baiduVars
      <4>1. CASE PlayUrls \/ PlayBaiduQuery \/ Interrupt
        BY <4>1, RequestStep DEF Replace
      <4> QED BY <2>6, <4>1 DEF Next, Callers, Start, Stop, Server,
        BaiduTtsDone, BaiduCancel, BaiduCancelTail, Worker, StartCreated,
        Exit, Sleep, SpuriousWake, Dequeue, CheckItem, OpenSource, Transfer,
        ReadLocal, LocalEnd, StreamData, StreamEnd, SseReport, GateWaitEnds,
        GateDecide, GateRelease, FeedGo, FeedStop, Write, Sample, Finish,
        BaiduEnd, vars
    <3> QED BY <1>0, <3>1 DEF baiduVars
  <2> QED BY <2>1, <2>2, <2>3, <2>4, <2>5, <2>6
<1>2. GateTyped'
  <2> USE DEF GateTyped, gateVars
  <2>1. CASE PlayUrls \/ PlayBaiduQuery \/ Interrupt
    BY <1>0, <2>1, RequestStep DEF Replace, StopTransfer
  <2>2. CASE Server
    BY <1>0, <2>2 DEF Server, BaiduTtsDone, BaiduCancel, MarkCancelled,
                      BaiduCancelTail
  <2>3. CASE Stop
    BY <1>0, <2>3 DEF Stop
  <2>4. CASE Dequeue
    BY <1>0, <2>4 DEF Dequeue
  <2>5. CASE BaiduBegin
    BY <1>0, <2>5 DEF BaiduBegin, InstallRequest
  <2>6. CASE BaiduEnd
    BY <1>0, <2>6 DEF BaiduEnd, ClearGate
  <2>7. CASE ItemDone
    BY <1>0, <2>7 DEF ItemDone
  <2>8. CASE ~(Stop \/ PlayUrls \/ PlayBaiduQuery \/ Interrupt \/ Server
                \/ Dequeue \/ BaiduBegin \/ BaiduEnd \/ ItemDone)
    <3>1. UNCHANGED <<streamRunning, gateVars, cancelTail>>
      BY <2>8 DEF Next, Callers, Start, Worker, StartCreated, Exit, Sleep,
         SpuriousWake, CheckItem, OpenSource, Transfer, ReadLocal, LocalEnd,
         StreamData, StreamEnd, SseAudio, QueueOrPlay, SseResource,
         SseReport, BaiduPosted, GateWaitEnds, GateDecide, GateRelease,
         FeedGo, FeedStop, Write, Sample, Finish, vars
    <3> QED BY <1>0, <3>1
  <2> QED BY <2>1, <2>2, <2>3, <2>4, <2>5, <2>6, <2>7, <2>8
<1>3. HistoryTyped'
  <2> USE DEF HistoryTyped, historyVars
  <2>1. CASE BaiduTtsDone \/ BaiduCancel
    BY <1>0, <2>1 DEF BaiduTtsDone, BaiduCancel
  <2>2. CASE SseReport
    BY <1>0, <2>2 DEF SseReport
  <2>3. CASE ~(BaiduTtsDone \/ BaiduCancel \/ SseReport)
    <3>1. UNCHANGED historyVars
      <4>1. CASE PlayUrls \/ PlayBaiduQuery \/ Interrupt
        BY <4>1, RequestStep DEF Replace
      <4> QED BY <2>3, <4>1 DEF Next, Callers, Start, Stop, Server,
        BaiduCancelTail, Worker, StartCreated, Exit, Sleep, SpuriousWake,
        Dequeue, CheckItem, OpenSource, BaiduBegin, Transfer, ReadLocal,
        LocalEnd, StreamData, StreamEnd, SseAudio, QueueOrPlay, SseResource,
        BaiduPosted, GateWaitEnds, GateDecide, GateRelease, FeedGo, FeedStop,
        Write, Sample, Finish, BaiduEnd, ItemDone, vars
    <3> QED BY <1>0, <3>1
  <2> QED BY <2>1, <2>2, <2>3
<1> QED BY <1>1, <1>2, <1>3

(* Every step keeps every variable in its type.                            *)
LEMMA TypeStep ==
  ASSUME TypeOK, HandInv, [Next]_vars
  PROVE  TypeOK'
BY PlayerTypeStep, WorkerTypeStep, GateTypeStep DEF TypeOK

(* What is left of a sequence keeps what held of all its elements.         *)
LEMMA TailKeeps ==
  ASSUME NEW s \in Seq(Item), s # <<>>, NEW t,
         \A i \in 1..Len(s) : s[i].gen = t
  PROVE  /\ Tail(s) \in Seq(Item)
         /\ \A i \in 1..Len(Tail(s)) : Tail(s)[i].gen = t
         /\ <<Head(s)>> \in Seq(Item)
         /\ \A i \in 1..Len(<<Head(s)>>) : <<Head(s)>>[i].gen = t
<1>1. /\ Len(s) \in Nat /\ Len(s) >= 1 /\ Head(s) = s[1]
      /\ Tail(s) \in Seq(Item) /\ Len(Tail(s)) = Len(s) - 1
      /\ \A i \in 1..Len(Tail(s)) : Tail(s)[i] = s[i + 1]
      /\ <<Head(s)>> \in Seq(Item)
  BY HeadTailProperties, EmptySeq, SplitIsWhole
<1>2. ASSUME NEW i \in 1..Len(Tail(s)) PROVE Tail(s)[i].gen = t
  <2>1. i + 1 \in 1..Len(s) /\ Tail(s)[i] = s[i + 1]
    BY <1>1
  <2> QED BY <2>1
<1>3. 1 \in 1..Len(s)
  BY <1>1
<1>4. Head(s).gen = t
  BY <1>1, <1>3
<1> QED BY <1>1, <1>2, <1>4

(* No item of a superseded request stays queued.                           *)
LEMMA QueueStep ==
  ASSUME TypeOK, QueueInv, [Next]_vars
  PROVE  QueueInv'
<1> USE DEF QueueInv
<1>0. head \in Seq(Item) /\ pending \in Seq(Item) /\ token \in Nat
  BY DEF TypeOK, PlayerTyped
<1>1. CASE PlayUrls \/ PlayBaiduQuery \/ Interrupt
  <2>1. PICK h, p \in Seq(Item) :
          /\ Replace(h, p)
          /\ \A i \in 1..Len(h) : h[i].gen = token + 1
          /\ \A i \in 1..Len(p) : p[i].gen = token + 1
    BY <1>1, RequestStep
  <2>2. head' = h /\ pending' = p /\ token' = token + 1
    BY <2>1 DEF Replace
  <2> QED BY <1>0, <2>1, <2>2
<1>2. CASE Stop
  BY <1>0, <1>2, ConcatEmptySeq DEF Stop, Queue
<1>3. CASE Dequeue
  <2>1. token' = token /\ Queue # <<>>
    BY <1>3 DEF Dequeue, HasWork
  <2>2. CASE head # <<>>
    <3>1. head' = Tail(head) /\ pending' = pending
      BY <1>3, <2>2 DEF Dequeue
    <3>2. \A i \in 1..Len(Tail(head)) : Tail(head)[i].gen = token
      BY <1>0, <2>2, TailKeeps
    <3> QED BY <2>1, <3>1, <3>2
  <2>3. CASE head = <<>>
    <3>1. head' = head /\ pending' = Tail(pending)
      BY <1>3, <2>3 DEF Dequeue
    <3>2. pending # <<>>
      BY <2>1, <2>3, <1>0, ConcatEmptySeq DEF Queue
    <3>3. \A i \in 1..Len(Tail(pending)) : Tail(pending)[i].gen = token
      BY <1>0, <3>2, TailKeeps
    <3> QED BY <2>1, <3>1, <3>3
  <2> QED BY <2>2, <2>3
<1>4. CASE ItemDone
  <2>1. CASE head # <<>> \/ pending = <<>>
    BY <1>4, <2>1 DEF ItemDone, Queue
  <2>2. CASE head = <<>> /\ pending # <<>>
    <3>1. head' = <<Head(pending)>> /\ pending' = Tail(pending)
          /\ token' = token
      BY <1>4, <2>2 DEF ItemDone
    <3>2. /\ \A i \in 1..Len(Tail(pending)) : Tail(pending)[i].gen = token
          /\ \A i \in 1..Len(<<Head(pending)>>) :
               <<Head(pending)>>[i].gen = token
      BY <1>0, <2>2, TailKeeps
    <3>3. Queue # <<>>
      BY <2>2, <1>0, ConcatEmptySeq DEF Queue
    <3> QED BY <3>1, <3>2, <3>3
  <2> QED BY <2>1, <2>2
<1>5. CASE Start \/ StartCreated \/ Server \/ KeepsPlayer \/ UNCHANGED vars
  <2>1. UNCHANGED <<head, pending, token>>
    BY <1>5 DEF Start, StartCreated, Server, BaiduTtsDone, BaiduCancel,
       BaiduCancelTail, KeepsPlayer, Exit, Sleep, SpuriousWake, CheckItem,
       OpenSource, BaiduBegin, Transfer, ReadLocal, LocalEnd, StreamData,
       StreamEnd, SseAudio, QueueOrPlay, SseResource, SseReport, BaiduPosted,
       GateWaitEnds, GateDecide, GateRelease, FeedGo, FeedStop, Write,
       Sample, Finish, BaiduEnd, vars, playerVars
  <2> QED BY <2>1 DEF Queue
<1> QED BY <1>1, <1>2, <1>3, <1>4, <1>5 DEF Next, Callers, Worker, KeepsPlayer

(* The program counter tells whether an item is held, and a held item      *)
(* carries the token the worker copied, with playing raised.               *)
LEMMA HandStep ==
  ASSUME TypeOK, HandInv, QueueInv, [Next]_vars
  PROVE  HandInv'
<1> USE DEF HandInv, InHandPcs
<1>0. /\ token \in Nat /\ wtoken \in Nat /\ toPlay \in Nat /\ buffered \in Nat
      /\ cur = None \/ cur \in Item
  BY DEF TypeOK, PlayerTyped, WorkerTyped, BaiduTyped
<1>1. CASE Start
  BY <1>1 DEF Start, localVars
<1>2. CASE Stop \/ Server \/ UNCHANGED vars
  <2>1. /\ UNCHANGED <<running, playing, token, localVars>>
        /\ pc' = pc \/ (pc = "asleep" /\ pc' = "top")
    BY <1>2 DEF Stop, Broadcast, Server, BaiduTtsDone, BaiduCancel,
                BaiduCancelTail, playerVars, vars
  <2> QED BY <2>1 DEF localVars
<1>3. CASE PlayUrls \/ PlayBaiduQuery \/ Interrupt
  <2>1. PICK h, p \in Seq(Item) : Replace(h, p)
    BY <1>3, RequestStep
  <2>2. /\ UNCHANGED <<running, playing, localVars>> /\ token' = token + 1
        /\ pc' = pc \/ (pc = "asleep" /\ pc' = "top")
    BY <2>1 DEF Replace, Broadcast
  <2> QED BY <1>0, <2>2 DEF localVars
<1>4. CASE StartCreated
  BY <1>4 DEF StartCreated, localVars
<1>5. CASE Exit \/ Sleep \/ SpuriousWake
  BY <1>5 DEF Exit, Sleep, SpuriousWake, playerVars, localVars
<1>6. CASE Dequeue
  <2>1. /\ Head(Queue) \in Item /\ Head(Queue).gen = token /\ token > 0
    <3>1. Queue # <<>> /\ head \in Seq(Item) /\ pending \in Seq(Item)
      BY <1>6 DEF Dequeue, HasWork, TypeOK, PlayerTyped
    <3>2. CASE head # <<>>
      <4>1. Head(Queue) = head[1] /\ 1 \in 1..Len(head) /\ head[1] \in Item
        BY <3>1, <3>2, TakeFirst DEF Queue
      <4> QED BY <3>1, <4>1 DEF QueueInv
    <3>3. CASE head = <<>>
      <4>1. /\ Head(Queue) = pending[1] /\ 1 \in 1..Len(pending)
            /\ pending[1] \in Item
        BY <3>1, <3>3, TakeFirst DEF Queue
      <4> QED BY <3>1, <4>1 DEF QueueInv
    <3> QED BY <3>2, <3>3
  <2>2. Head(Queue) # None
    BY <2>1, NoneAssumption
  <2>3. /\ cur' = Head(Queue) /\ wtoken' = token /\ token' = token
        /\ mode' = Head(Queue).kind /\ playing' = TRUE /\ pc' = "check"
        /\ running' = running /\ pc = "top"
    BY <1>6 DEF Dequeue, RaisePlaying
  <2> QED BY <1>0, <2>1, <2>2, <2>3
<1>7. CASE CheckItem
  BY <1>7 DEF CheckItem, playerVars, localVars
<1>8. CASE OpenSource
  BY <1>8 DEF OpenSource, playerVars
<1>9. CASE BaiduBegin
  BY <1>9 DEF BaiduBegin, playerVars
<1>10. CASE ReadLocal \/ LocalEnd \/ StreamData
  BY <1>10 DEF ReadLocal, LocalEnd, StreamData, playerVars
<1>11. CASE StreamEnd \/ GateWaitEnds \/ FeedGo
  BY <1>11 DEF StreamEnd, GateWaitEnds, FeedGo, playerVars, localVars
<1>12. CASE SseAudio \/ QueueOrPlay
  BY <1>0, <1>12 DEF SseAudio, QueueOrPlay, SseEvent, playerVars
<1>13. CASE SseResource \/ SseReport
  BY <1>13 DEF SseResource, SseReport, SseEvent, playerVars
<1>14. CASE BaiduPosted
  BY <1>14 DEF BaiduPosted, playerVars, localVars
<1>15. CASE GateDecide \/ GateRelease
  BY <1>15 DEF GateDecide, GateRelease, playerVars, localVars
<1>16. CASE FeedStop
  BY <1>16 DEF FeedStop, playerVars
<1>17. CASE Write
  BY <1>0, <1>17 DEF Write, OneLess, playerVars
<1>18. CASE Sample
  BY <1>18 DEF Sample, playerVars
<1>19. CASE Finish
  BY <1>19 DEF Finish, playerVars
<1>20. CASE BaiduEnd
  BY <1>20 DEF BaiduEnd, playerVars, localVars
<1>21. CASE ItemDone
  BY <1>21 DEF ItemDone
<1> QED
  BY <1>1, <1>2, <1>3, <1>4, <1>5, <1>6, <1>7, <1>8, <1>9, <1>10, <1>11,
     <1>12, <1>13, <1>14, <1>15, <1>16, <1>17, <1>18, <1>19, <1>20, <1>21
     DEF Next, Callers, Worker, Transfer

(* Two facts about a superseded item: its transfer is told to stop, and at *)
(* most one chunk of it is heard, the one whose token test came before.    *)
LEMMA StaleStep ==
  ASSUME TypeOK, HandInv, StaleInv, StaleTransferStopped, [Next]_vars
  PROVE  StaleInv' /\ StaleTransferStopped'
<1> USE DEF StaleInv, StaleTransferStopped
<1>0. token \in Nat /\ wtoken \in Nat /\ stale \in Nat
  BY DEF TypeOK, PlayerTyped, WorkerTyped
<1>1. CASE PlayUrls \/ PlayBaiduQuery \/ Interrupt
  <2>1. PICK h, p \in Seq(Item) : Replace(h, p)
    BY <1>1, RequestStep
  <2>2. /\ UNCHANGED <<cur, wtoken, stale>> /\ pc' \in {pc, "top"}
        /\ token' = token + 1 /\ streamRunning' = FALSE
    BY <2>1 DEF Replace, Broadcast, StopTransfer, localVars
  <2>3. cur # None => wtoken <= token
    BY <1>0 DEF HandInv
  <2> QED BY <1>0, <2>2, <2>3
<1>2. CASE Dequeue
  <2>1. /\ wtoken' = token /\ token' = token /\ stale' = 0 /\ pc' = "check"
    BY <1>2 DEF Dequeue
  <2> QED BY <2>1
<1>3. CASE FeedGo
  <2>1. /\ UNCHANGED <<cur, wtoken, token, streamRunning, stale>>
        /\ pc = "feed" /\ token = wtoken
    BY <1>3 DEF FeedGo, ShouldAbort, playerVars, localVars
  <2>2. cur # None
    BY <2>1 DEF HandInv, InHandPcs
  <2> QED BY <2>1, <2>2
<1>4. CASE Write
  <2>1. /\ UNCHANGED <<cur, wtoken, token, streamRunning>>
        /\ pc = "write" /\ pc' # "write"
        /\ stale' = IF token # wtoken THEN stale + 1 ELSE stale
    BY <1>4 DEF Write, playerVars
  <2> QED BY <2>1
<1>5. CASE ItemDone
  <2>1. cur' = None /\ stale' = stale /\ pc' = "top"
    BY <1>5 DEF ItemDone
  <2> QED BY <2>1
<1>6. CASE Stop \/ Server
  <2>1. /\ UNCHANGED <<cur, wtoken, token, stale>> /\ pc' \in {pc, "top"}
        /\ streamRunning' = FALSE \/ streamRunning' = streamRunning
    BY <1>6 DEF Stop, Broadcast, Server, BaiduTtsDone, BaiduCancel,
                BaiduCancelTail, localVars, playerVars
  <2> QED BY <2>1
<1>7. CASE \/ Start \/ StartCreated \/ Exit \/ Sleep \/ SpuriousWake
           \/ CheckItem \/ OpenSource
           \/ BaiduBegin \/ Transfer \/ GateWaitEnds \/ GateDecide
           \/ GateRelease
           \/ FeedStop \/ Sample \/ Finish \/ BaiduEnd \/ UNCHANGED vars
  <2>1. UNCHANGED <<cur, wtoken, token, stale, streamRunning>>
    BY <1>7 DEF Start, StartCreated, Exit, Sleep, SpuriousWake, CheckItem,
       OpenSource, BaiduBegin, Transfer, ReadLocal, LocalEnd, StreamData,
       StreamEnd, SseEvent, SseAudio, QueueOrPlay, SseResource, SseReport,
       BaiduPosted, GateWaitEnds, GateDecide, GateRelease, FeedStop, Sample,
       Finish, BaiduEnd, vars, playerVars, localVars
  <2>2. pc' = pc \/ pc' # "write"
    BY <1>7 DEF Start, StartCreated, Exit, Sleep, SpuriousWake, CheckItem,
       OpenSource, BaiduBegin, Transfer, ReadLocal, LocalEnd, StreamData,
       StreamEnd, SseEvent, SseAudio, QueueOrPlay, SseResource, SseReport,
       BaiduPosted, GateWaitEnds, GateDecide, GateRelease, FeedStop, Sample,
       Finish, BaiduEnd, vars
  <2> QED BY <2>1, <2>2
<1> QED
  BY <1>1, <1>2, <1>3, <1>4, <1>5, <1>6, <1>7 DEF Next, Callers, Worker

(* The gate opens for the installed request only, and only while a Baidu   *)
(* request is between its entry and its end does anybody wait at it.       *)
LEMMA GateStep ==
  ASSUME TypeOK, HandInv, GateInv, WaitingIsHeld, [Next]_vars
  PROVE  GateInv' /\ WaitingIsHeld'
<1> DEFINE Heard == doneFor \union cancelFor
<1>0. /\ token \in Nat /\ wtoken \in Nat /\ requestId \in Nat
      /\ cur # None => wtoken # 0
  BY DEF TypeOK, PlayerTyped, WorkerTyped, GateTyped, HandInv
<1>1. GateInv /\ WaitingIsHeld
  OBVIOUS
<1>2. CASE PlayUrls \/ PlayBaiduQuery \/ Interrupt
  <2>1. PICK h, p \in Seq(Item) : Replace(h, p)
    BY <1>2, RequestStep
  <2>2. /\ UNCHANGED <<localVars, gateVars, historyVars>>
        /\ pc' = pc \/ (pc = "asleep" /\ pc' = "top")
    BY <2>1 DEF Replace, Broadcast
  <2> QED BY <1>1, <2>2 DEF GateInv, WaitingIsHeld, AtGatePcs, localVars,
                            gateVars, historyVars
<1>3. CASE BaiduTtsDone \/ BaiduCancel
  <2>1. UNCHANGED <<pc, localVars, requestId>>
    BY <1>3 DEF BaiduTtsDone, BaiduCancel
  <2>2. Heard \subseteq Heard'
    BY <1>3 DEF BaiduTtsDone, BaiduCancel
  <2>3. /\ waitingTts' => waitingTts
        /\ ttsDone' => ttsDone \/ requestId = 0 \/ requestId \in Heard'
    BY <1>3 DEF BaiduTtsDone, BaiduCancel, MarkCancelled
  <2> QED BY <1>1, <2>1, <2>2, <2>3 DEF GateInv, WaitingIsHeld, localVars
<1>4. CASE Stop \/ BaiduCancelTail \/ UNCHANGED vars
  <2>1. /\ UNCHANGED <<localVars, gateVars, historyVars>>
        /\ pc' = pc \/ (pc = "asleep" /\ pc' = "top")
    BY <1>4 DEF Stop, Broadcast, BaiduCancelTail, vars
  <2> QED BY <1>1, <2>1 DEF GateInv, WaitingIsHeld, AtGatePcs, localVars,
                            gateVars, historyVars
<1>5. CASE Start \/ StartCreated \/ Exit \/ Sleep \/ SpuriousWake
  <2>1. UNCHANGED <<localVars, gateVars, historyVars>>
    BY <1>5 DEF Start, StartCreated, Exit, Sleep, SpuriousWake
  <2>2. pc \notin AtGatePcs /\ pc' \notin {"feed", "write"}
    BY <1>5 DEF Start, StartCreated, Exit, Sleep, SpuriousWake, AtGatePcs,
       HandInv
  <2> QED BY <1>1, <2>1, <2>2 DEF GateInv, WaitingIsHeld, localVars,
                                  gateVars, historyVars
<1>6. CASE Dequeue
  <2>1. /\ UNCHANGED <<gateVars, historyVars>> /\ pc = "top" /\ pc' = "check"
        /\ cur' = Head(Queue) /\ mode' = cur'.kind
    BY <1>6 DEF Dequeue
  <2>2. ~waitingTts
    BY <1>1, <2>1 DEF GateInv, AtGatePcs
  <2> QED BY <1>1, <2>1, <2>2 DEF GateInv, WaitingIsHeld, gateVars,
                                  historyVars
<1>7. CASE CheckItem
  <2>1. /\ UNCHANGED <<localVars, gateVars, historyVars>>
        /\ pc = "check" /\ pc' \notin {"feed", "write"}
    BY <1>7 DEF CheckItem
  <2>2. ~waitingTts
    BY <1>1, <2>1 DEF GateInv, AtGatePcs
  <2> QED BY <1>1, <2>1, <2>2 DEF GateInv, WaitingIsHeld, localVars,
                                  gateVars, historyVars
<1>8. CASE OpenSource
  <2>1. /\ UNCHANGED <<cur, wtoken, gateVars, historyVars>>
        /\ pc = "open" /\ pc' \in {"recv", "sample", "done"}
        /\ mode' = mode \/ mode' = cur.kind
        /\ pc' = "done" => cur.kind # "baidu"
    BY <1>8 DEF OpenSource
  <2> QED BY <1>1, <2>1 DEF GateInv, WaitingIsHeld, AtGatePcs, gateVars,
                            historyVars
<1>9. CASE BaiduBegin
  <2>1. pc = "begin" /\ ~waitingTts /\ cur # None /\ cur.kind = "baidu"
    BY <1>1, <1>9 DEF BaiduBegin, GateInv, AtGatePcs, HandInv, InHandPcs
  <2>2. UNCHANGED <<cur, wtoken, mode, historyVars>>
    BY <1>9 DEF BaiduBegin
  <2>3. CASE InstallRequest /\ pc' = "recv"
    <3>1. requestId' = wtoken /\ ttsDone' = FALSE /\ waitingTts' = TRUE
      BY <2>3 DEF InstallRequest
    <3> QED BY <1>1, <2>1, <2>2, <2>3, <3>1
            DEF GateInv, WaitingIsHeld, AtGatePcs, historyVars
  <2>4. CASE pc' = "done" /\ UNCHANGED <<requestId, ttsDone, waitingTts>>
    BY <1>1, <2>1, <2>2, <2>4 DEF GateInv, WaitingIsHeld, historyVars
  <2> QED BY <1>9, <2>3, <2>4 DEF BaiduBegin
<1>10. CASE ReadLocal \/ LocalEnd \/ StreamData
  <2>1. /\ UNCHANGED <<cur, wtoken, mode, gateVars, historyVars>>
        /\ pc = "recv" /\ pc' \in {"feed", "finish"}
        /\ mode # "baidu"
    BY <1>10 DEF ReadLocal, LocalEnd, StreamData
  <2>2. cur # None /\ (cur.kind = "baidu" => mode = "stream")
    BY <2>1 DEF HandInv, InHandPcs
  <2> QED BY <1>1, <2>1, <2>2 DEF GateInv, WaitingIsHeld, AtGatePcs,
                                  gateVars, historyVars
<1>11. CASE StreamEnd \/ BaiduPosted \/ GateWaitEnds
  <2>1. /\ UNCHANGED <<localVars, gateVars, historyVars>>
        /\ pc' \in {"sample", "gate", "decide"}
    BY <1>11 DEF StreamEnd, BaiduPosted, GateWaitEnds
  <2> QED BY <1>1, <2>1 DEF GateInv, WaitingIsHeld, AtGatePcs, localVars,
                            gateVars, historyVars
<1>12. CASE SseAudio \/ QueueOrPlay
  <2>1. /\ UNCHANGED <<cur, wtoken, mode, gateVars, historyVars>>
        /\ pc \in {"recv", "queue"}
        /\ pc' \in {"recv", "queue"} \/ (pc' = "feed" /\ TtsIsDone)
    BY <1>12 DEF SseAudio, QueueOrPlay, SseEvent
  <2>2. cur # None
    BY <2>1 DEF HandInv, InHandPcs
  <2>3. pc' = "feed" => wtoken \in Heard
    BY <1>0, <1>1, <2>1, <2>2 DEF TtsIsDone, GateInv
  <2> QED BY <1>1, <2>1, <2>3 DEF GateInv, WaitingIsHeld, AtGatePcs,
                                  gateVars, historyVars
<1>13. CASE SseResource
  <2>1. UNCHANGED <<pc, cur, wtoken, mode, gateVars, historyVars>>
    BY <1>13 DEF SseResource
  <2> QED BY <1>1, <2>1 DEF GateInv, WaitingIsHeld, gateVars, historyVars
<1>14. CASE SseReport
  <2>1. UNCHANGED <<pc, cur, wtoken, mode, gateVars, doneFor, cancelFor>>
    BY <1>14 DEF SseReport
  <2> QED BY <1>1, <2>1 DEF GateInv, WaitingIsHeld, gateVars
<1>15. CASE GateDecide \/ GateRelease
  <2>1. /\ UNCHANGED <<cur, wtoken, gateVars, historyVars>>
        /\ pc \in {"decide", "release"}
        /\ pc' \in {"sample", "release", "feed", "open"}
        /\ (pc' \in {"sample", "release"} /\ mode' = mode) \/ TtsIsDone
    BY <1>15 DEF GateDecide, GateRelease, localVars
  <2>2. cur # None
    BY <2>1 DEF HandInv, InHandPcs
  <2>3. TtsIsDone => wtoken \in Heard
    BY <1>0, <1>1, <2>2 DEF TtsIsDone, GateInv
  <2> QED BY <1>1, <2>1, <2>3 DEF GateInv, WaitingIsHeld, AtGatePcs,
                                  gateVars, historyVars
<1>16. CASE FeedGo \/ FeedStop \/ Write \/ Sample
  <2>1. /\ UNCHANGED <<cur, wtoken, mode, gateVars, historyVars>>
        /\ pc \in {"feed", "write", "sample"}
        /\ pc' \in {"feed", "write", "sample", "recv", "finish"}
        /\ pc = "sample" => pc' = "finish"
    BY <1>16 DEF FeedGo, FeedStop, Write, Sample, localVars
  <2> QED BY <1>1, <2>1 DEF GateInv, WaitingIsHeld, AtGatePcs, gateVars,
                            historyVars
<1>17. CASE Finish
  <2>1. /\ UNCHANGED <<cur, wtoken, gateVars, historyVars>>
        /\ mode' = cur.kind
        /\ pc' \in {"done", "sample", "end"}
        /\ pc' = "done" => cur.kind # "baidu"
    BY <1>17 DEF Finish
  <2> QED BY <1>1, <2>1 DEF GateInv, WaitingIsHeld, AtGatePcs, gateVars,
                            historyVars
<1>18. CASE BaiduEnd
  <2>1. /\ UNCHANGED <<localVars, requestId, ttsDone, historyVars>>
        /\ pc' = "done"
        /\ requestId = wtoken => waitingTts' = FALSE
        /\ requestId # wtoken => waitingTts' = waitingTts
    BY <1>18 DEF BaiduEnd, ClearGate
  <2>2. waitingTts' = FALSE
    BY <1>1, <2>1 DEF WaitingIsHeld, TypeOK, GateTyped
  <2> QED BY <1>1, <2>1, <2>2 DEF GateInv, WaitingIsHeld, localVars,
                                  historyVars
<1>19. CASE ItemDone
  <2>1. /\ UNCHANGED <<gateVars, historyVars>>
        /\ cur' = None /\ pc = "done" /\ pc' = "top"
    BY <1>19 DEF ItemDone
  <2>2. ~waitingTts
    BY <1>1, <2>1 DEF GateInv, AtGatePcs
  <2> QED BY <1>1, <2>1, <2>2 DEF GateInv, WaitingIsHeld, gateVars,
                                  historyVars
<1> QED
  BY <1>2, <1>3, <1>4, <1>5, <1>6, <1>7, <1>8, <1>9, <1>10, <1>11, <1>12,
     <1>13, <1>14, <1>15, <1>16, <1>17, <1>18, <1>19
     DEF Next, Callers, Server, Worker, Transfer

(* A Baidu query is alone in its request, unknown to the server until it   *)
(* is posted, and the one installed at the gate from then on.              *)
LEMMA FreshStep ==
  ASSUME TypeOK, HandInv, QueueInv, FreshInv, [Next]_vars
  PROVE  FreshInv'
<1>0. /\ head \in Seq(Item) /\ pending \in Seq(Item) /\ token \in Nat
      /\ wtoken \in Nat /\ cur # None => wtoken \in 1..token
      /\ reported \subseteq 1..token /\ cancelFor \subseteq reported
  BY DEF TypeOK, PlayerTyped, WorkerTyped, HandInv, FreshInv
<1>1. CASE PlayUrls \/ PlayBaiduQuery \/ Interrupt
  <2>1. PICK h, p \in Seq(Item) :
          /\ Replace(h, p)
          /\ \A i \in 1..Len(h) : h[i].kind = "baidu"
                                  => Len(h) = 1 /\ p = <<>>
          /\ \A i \in 1..Len(p) : p[i].kind # "baidu"
    BY <1>1, RequestStep
  <2>2. /\ head' = h /\ pending' = p /\ token' = token + 1
        /\ UNCHANGED <<cur, wtoken, requestId, reported, cancelFor>>
        /\ pc' = pc \/ (pc = "asleep" /\ pc' = "top")
    BY <2>1 DEF Replace, Broadcast, localVars, gateVars, historyVars
  <2>3. token' \notin reported /\ cur # None => wtoken # token'
    BY <1>0, <2>2
  <2>4. reported \subseteq 1..token' /\ token' \notin reported
    BY <1>0, <2>2
  <2>5. cur # None => wtoken # token'
    BY <1>0, <2>2
  <2>6. pc' = pc \/ cur = None
    BY <2>2 DEF HandInv, InHandPcs
  <2> QED BY <1>0, <2>1, <2>2, <2>4, <2>5, <2>6 DEF FreshInv
<1>2. CASE Stop
  <2>1. /\ head' = <<>> /\ pending' = <<>> /\ token' = token
        /\ UNCHANGED <<cur, wtoken, requestId, reported, cancelFor>>
        /\ pc' = pc \/ (pc = "asleep" /\ pc' = "top")
    BY <1>2 DEF Stop, Broadcast, localVars, gateVars, historyVars
  <2>2. pc' = pc \/ cur = None
    BY <2>1 DEF HandInv, InHandPcs
  <2>3. Len(<<>>) = 0
    OBVIOUS
  <2> QED BY <2>1, <2>2, <2>3 DEF FreshInv
<1>3. CASE Dequeue
  <2>1. /\ UNCHANGED <<token, requestId, reported, cancelFor>>
        /\ wtoken' = token /\ cur' = Head(Queue) /\ pc' = "check"
        /\ Queue # <<>>
    BY <1>3 DEF Dequeue, HasWork, gateVars, historyVars
  <2>2. CASE head # <<>>
    <3>1. /\ head' = Tail(head) /\ pending' = pending
          /\ cur' = head[1] /\ Len(head) >= 1
      BY <1>0, <1>3, <2>1, <2>2, TakeFirst DEF Dequeue, Queue
    <3>2. Len(Tail(head)) = Len(head) - 1
          /\ \A i \in 1..Len(Tail(head)) : Tail(head)[i] = head[i + 1]
      BY <1>0, <2>2, HeadTailProperties
    <3>5. Tail(head) \in Seq(Item) /\ (Len(head) = 1 => Tail(head) = <<>>)
      BY <1>0, <2>2, <3>2, HeadTailProperties, EmptySeq
    <3>3. CASE cur'.kind = "baidu"
      <4>1. Len(head) = 1 /\ pending = <<>> /\ token \notin reported
        BY <1>0, <3>1, <3>3 DEF FreshInv
      <4> QED BY <2>1, <3>1, <3>2, <3>5, <4>1 DEF FreshInv
    <3>4. CASE cur'.kind # "baidu"
      <4>1. ASSUME NEW i \in 1..Len(Tail(head)), Tail(head)[i].kind = "baidu"
            PROVE  FALSE
        <5>1. i + 1 \in 1..Len(head) /\ Tail(head)[i] = head[i + 1]
              /\ Len(head) # 1
          BY <1>0, <3>1, <3>2
        <5> QED BY <4>1, <5>1 DEF FreshInv
      <4> QED BY <2>1, <3>1, <3>4, <4>1 DEF FreshInv
    <3> QED BY <3>3, <3>4
  <2>3. CASE head = <<>>
    <3>1. /\ head' = head /\ pending' = Tail(pending)
          /\ cur' = pending[1] /\ Len(pending) >= 1
      BY <1>0, <1>3, <2>1, <2>3, TakeFirst DEF Dequeue, Queue
    <3>2. cur'.kind # "baidu"
      BY <1>0, <3>1 DEF FreshInv
    <3>3. ASSUME NEW i \in 1..Len(Tail(pending))
          PROVE  Tail(pending)[i].kind # "baidu"
      <4>1. i + 1 \in 1..Len(pending) /\ Tail(pending)[i] = pending[i + 1]
        BY <1>0, <3>1, HeadTailProperties, EmptySeq
      <4> QED BY <4>1 DEF FreshInv
    <3>4. Len(head) = 0
      BY <2>3
    <3> QED BY <2>1, <3>1, <3>2, <3>3, <3>4 DEF FreshInv
  <2> QED BY <2>2, <2>3
<1>4. CASE ItemDone
  <2>1. /\ cur' = None /\ UNCHANGED <<token, reported, cancelFor>>
    BY <1>4 DEF ItemDone, historyVars
  <2>2. CASE head # <<>> \/ pending = <<>>
    <3>1. head' = head /\ pending' = pending
      BY <1>4, <2>2 DEF ItemDone
    <3> QED BY <2>1, <3>1 DEF FreshInv
  <2>3. CASE head = <<>> /\ pending # <<>>
    <3>1. head' = <<Head(pending)>> /\ pending' = Tail(pending)
      BY <1>4, <2>3 DEF ItemDone
    <3>2. /\ Len(<<Head(pending)>>) = 1
          /\ <<Head(pending)>>[1] = pending[1] /\ 1 \in 1..Len(pending)
      BY <1>0, <2>3
    <3>3. ASSUME NEW i \in 1..Len(Tail(pending))
          PROVE  Tail(pending)[i].kind # "baidu"
      <4>1. i + 1 \in 1..Len(pending) /\ Tail(pending)[i] = pending[i + 1]
        BY <1>0, <2>3, HeadTailProperties
      <4> QED BY <4>1 DEF FreshInv
    <3>4. \A i \in 1..Len(head') : head'[i].kind # "baidu"
      BY <3>1, <3>2 DEF FreshInv
    <3> QED BY <2>1, <3>1, <3>3, <3>4 DEF FreshInv
  <2> QED BY <2>2, <2>3
<1>5. CASE BaiduTtsDone \/ BaiduCancel
  <2>1. UNCHANGED <<head, pending, token, cur, wtoken, pc, requestId,
  reported>>
        /\ cancelFor' \subseteq reported
    BY <1>0, <1>5 DEF BaiduTtsDone, BaiduCancel, playerVars, localVars
  <2> QED BY <2>1 DEF FreshInv
<1>6. CASE SseReport
  <2>1. /\ UNCHANGED <<head, pending, token, cur, wtoken, pc, requestId,
                       cancelFor>>
        /\ reported' = reported \union {wtoken}
        /\ pc = "recv" /\ mode = "baidu"
    BY <1>6 DEF SseReport, SseEvent, playerVars, gateVars
  <2>2. cur # None /\ cur.kind = "baidu" /\ wtoken \in 1..token
    BY <1>0, <2>1 DEF HandInv, InHandPcs
  <2>3. wtoken = token => head = <<>>
    BY <2>2 DEF FreshInv
  <2>4. \A i \in 1..Len(head) : head[i].kind = "baidu" => token # wtoken
    BY <1>0, <2>3
  <2> QED BY <1>0, <2>1, <2>2, <2>4 DEF FreshInv
<1>7. CASE BaiduBegin
  <2>1. /\ UNCHANGED <<head, pending, token, cur, wtoken, reported, cancelFor>>
        /\ (pc' = "recv" /\ requestId' = wtoken) \/ pc' = "done"
    BY <1>7 DEF BaiduBegin, InstallRequest, playerVars, historyVars
  <2> QED BY <2>1 DEF FreshInv
<1>8. CASE CheckItem
  <2>1. /\ UNCHANGED <<head, pending, token, cur, wtoken, requestId, reported,
                       cancelFor>>
        /\ pc = "check"
        /\ pc' \in {"done", "begin"} \/ cur.kind # "baidu"
    BY <1>8 DEF CheckItem, playerVars, localVars, gateVars, historyVars
  <2> QED BY <2>1 DEF FreshInv
<1>9. CASE Start \/ StartCreated \/ Exit \/ Sleep \/ SpuriousWake
  <2>1. /\ UNCHANGED <<head, pending, token, cur, reported, cancelFor>>
        /\ pc \notin InHandPcs
    BY <1>9 DEF Start, StartCreated, Exit, Sleep, SpuriousWake, playerVars,
       localVars, historyVars, InHandPcs, HandInv
  <2> QED BY <2>1 DEF FreshInv, HandInv
<1>10. CASE \/ OpenSource \/ (Transfer /\ ~SseReport) \/ GateWaitEnds
            \/ GateDecide \/ GateRelease \/ FeedGo \/ FeedStop \/ Write
            \/ Sample \/ Finish \/ BaiduEnd
  <2>1. /\ UNCHANGED <<head, pending, token, cur, wtoken, requestId, reported,
                       cancelFor>>
        /\ pc \notin {"check", "begin", "done"}
        /\ pc' \notin {"check", "begin"}
    BY <1>10 DEF OpenSource, Transfer, ReadLocal, LocalEnd, StreamData,
       StreamEnd, SseEvent, SseAudio, QueueOrPlay, SseResource, BaiduPosted,
       GateWaitEnds, GateDecide, GateRelease, FeedGo, FeedStop, Write, Sample,
       Finish, BaiduEnd, playerVars, localVars, gateVars, historyVars
  <2> QED BY <2>1 DEF FreshInv
<1>11. CASE BaiduCancelTail \/ UNCHANGED vars
  <2>1. UNCHANGED <<head, pending, token, cur, wtoken, pc, requestId, reported,
                    cancelFor>>
    BY <1>11 DEF BaiduCancelTail, vars, playerVars, localVars, gateVars,
       historyVars
  <2> QED BY <2>1 DEF FreshInv
<1> QED
  BY <1>1, <1>2, <1>3, <1>4, <1>5, <1>6, <1>7, <1>8, <1>9, <1>10, <1>11
     DEF Next, Callers, Server, Worker

(* The marks of a CANCEL stay up for as long as the request it names is in *)
(* the worker's hands: nobody arms the transfer flag under that request.   *)
LEMMA CancelStep ==
  ASSUME TypeOK, HandInv, FreshInv, FreshInv', CancelInv, [Next]_vars
  PROVE  CancelInv'
<1>1. CASE PlayUrls \/ PlayBaiduQuery \/ Interrupt
  <2>1. PICK h, p \in Seq(Item) : Replace(h, p)
    BY <1>1, RequestStep
  <2>2. /\ UNCHANGED <<cur, wtoken, cancelled, cancelTail, cancelFor>>
        /\ ~streamRunning'
        /\ pc' = pc \/ (pc = "asleep" /\ pc' = "top")
    BY <2>1 DEF Replace, Broadcast, StopTransfer, localVars, gateVars,
                historyVars
  <2>3. pc' = pc \/ cur = None
    BY <2>2 DEF HandInv, InHandPcs
  <2> QED BY <2>2, <2>3 DEF CancelInv
<1>2. CASE Stop
  <2>1. /\ UNCHANGED <<cur, wtoken, cancelled, cancelTail, cancelFor>>
        /\ ~streamRunning'
        /\ pc' = pc \/ (pc = "asleep" /\ pc' = "top")
    BY <1>2 DEF Stop, Broadcast, localVars, gateVars, historyVars
  <2>2. pc' = pc \/ cur = None
    BY <2>1 DEF HandInv, InHandPcs
  <2> QED BY <2>1, <2>2 DEF CancelInv
<1>3. CASE BaiduTtsDone
  <2>1. UNCHANGED <<pc, cur, wtoken, cancelled, cancelTail, cancelFor,
                    streamRunning>>
    BY <1>3 DEF BaiduTtsDone, localVars
  <2> QED BY <2>1 DEF CancelInv
<1>4. CASE BaiduCancel
  <2>1. PICK id \in reported :
          /\ cancelFor' = cancelFor \union {id}
          /\ IF requestId \in {0, id} THEN MarkCancelled
             ELSE UNCHANGED <<cancelled, ttsDone, waitingTts>>
    BY <1>4 DEF BaiduCancel
  <2>2. UNCHANGED <<pc, cur, wtoken, streamRunning>> /\ cancelTail' = TRUE
    BY <1>4 DEF BaiduCancel, localVars
  <2>3. cancelled' = cancelled \/ cancelled' = TRUE
    BY <2>1 DEF MarkCancelled
  <2>4. CASE cur # None /\ wtoken = id
    <3>1. cur.kind = "baidu" /\ pc # "done" => requestId = id
      BY <2>1, <2>4 DEF FreshInv
    <3>2. cur.kind = "baidu" /\ pc # "done" => cancelled' = TRUE
      BY <2>1, <3>1 DEF MarkCancelled
    <3> QED BY <2>2, <3>2 DEF CancelInv
  <2>5. CASE ~(cur # None /\ wtoken = id)
    BY <2>1, <2>2, <2>3, <2>5 DEF CancelInv
  <2> QED BY <2>4, <2>5
<1>5. CASE BaiduCancelTail
  <2>1. /\ UNCHANGED <<pc, cur, wtoken, cancelled, cancelFor>>
        /\ ~streamRunning'
    BY <1>5 DEF BaiduCancelTail, localVars, gateVars, historyVars
  <2> QED BY <2>1 DEF CancelInv
<1>6. CASE Dequeue \/ BaiduBegin
  <2>1. /\ wtoken \notin reported \/ cur.kind # "baidu" \/ ~BaiduBegin
        /\ UNCHANGED <<reported, cancelFor>>
        /\ pc' = "check" \/ (BaiduBegin /\ UNCHANGED <<cur, wtoken>>)
    BY <1>6 DEF Dequeue, BaiduBegin, FreshInv, HandInv, InHandPcs, historyVars
  <2>2. cur' # None /\ cur'.kind = "baidu" => wtoken' \notin cancelFor'
    BY <2>1 DEF FreshInv
  <2> QED BY <2>2 DEF CancelInv
<1>7. CASE BaiduEnd \/ ItemDone
  <2>1. pc' = "done" \/ cur' = None
    BY <1>7 DEF BaiduEnd, ItemDone
  <2> QED BY <2>1 DEF CancelInv
<1>8. CASE Start \/ StartCreated \/ Exit \/ Sleep \/ SpuriousWake
  <2>1. cur' = None
    BY <1>8 DEF Start, StartCreated, Exit, Sleep, SpuriousWake, localVars,
       InHandPcs, HandInv
  <2> QED BY <2>1 DEF CancelInv
<1>9. CASE \/ CheckItem \/ OpenSource \/ Transfer \/ GateWaitEnds
           \/ GateDecide \/ GateRelease \/ FeedGo \/ FeedStop \/ Write
           \/ Sample \/ Finish
  <2>1. /\ UNCHANGED <<cur, wtoken, cancelled, cancelTail, streamRunning,
                       cancelFor>>
        /\ pc # "done"
    BY <1>9 DEF CheckItem, OpenSource, Transfer, ReadLocal, LocalEnd,
       StreamData, StreamEnd, SseEvent, SseAudio, QueueOrPlay, SseResource,
       SseReport, BaiduPosted, GateWaitEnds, GateDecide, GateRelease, FeedGo,
       FeedStop, Write, Sample, Finish, localVars, gateVars, historyVars
  <2> QED BY <2>1 DEF CancelInv
<1>10. CASE UNCHANGED vars
  BY <1>10 DEF CancelInv, vars, localVars, gateVars, historyVars
<1> QED
  BY <1>1, <1>2, <1>3, <1>4, <1>5, <1>6, <1>7, <1>8, <1>9, <1>10
     DEF Next, Callers, Server, Worker

(* With the CANCEL of its request handled the worker begins no further     *)
(* piece of audio: the stream is told to stop and the mark at the gate is  *)
(* up.                                                                     *)
LEMMA CancelHeededStep ==
  ASSUME HandInv, CancelInv, [Next]_vars, CancelDone,
         pc \in {"recv", "gate", "decide"}
  PROVE  pc' \notin {"queue", "feed", "release", "open"}
<1>1. cancelled /\ ~streamRunning
  BY DEF CancelInv, CancelDone
<1>2. mode # "local"
  BY DEF CancelDone, HandInv
<1>3. CASE Callers \/ Server \/ SpuriousWake \/ UNCHANGED vars
  <2>1. CASE PlayUrls \/ PlayBaiduQuery \/ Interrupt
    BY <2>1 DEF PlayUrls, PlayBaiduQuery, Interrupt, Replace, Broadcast
  <2>2. CASE ~(PlayUrls \/ PlayBaiduQuery \/ Interrupt)
    BY <1>3, <2>2 DEF Callers, Start, Stop, Broadcast, Server, BaiduTtsDone,
       BaiduCancel, BaiduCancelTail, SpuriousWake, vars
  <2> QED BY <2>1, <2>2
<1>4. CASE pc = "recv" /\ Worker
  <2>1. Transfer
    BY <1>4 DEF Worker, StartCreated, Exit, Sleep, Dequeue, CheckItem,
       OpenSource, BaiduBegin, GateWaitEnds, GateDecide, GateRelease, FeedGo,
       FeedStop, Write, Sample, Finish, BaiduEnd, ItemDone
  <2> QED BY <1>1, <1>2, <1>4, <2>1 DEF Transfer, ReadLocal, LocalEnd,
             StreamData, StreamEnd, SseEvent, SseAudio, QueueOrPlay,
             SseResource, SseReport, BaiduPosted
<1>5. CASE pc \in {"gate", "decide"} /\ Worker
  <2>1. GateWaitEnds \/ GateDecide
    BY <1>5 DEF Worker, StartCreated, Exit, Sleep, Dequeue, CheckItem,
       OpenSource, BaiduBegin, Transfer, ReadLocal, LocalEnd, StreamData,
       StreamEnd, SseEvent, SseAudio, QueueOrPlay, SseResource, SseReport,
       BaiduPosted, GateRelease, FeedGo, FeedStop, Write, Sample, Finish,
       BaiduEnd, ItemDone
  <2> QED BY <1>1, <2>1 DEF GateWaitEnds, GateDecide
<1> QED BY <1>3, <1>4, <1>5 DEF Next

-----------------------------------------------------------------------------
(* The inductive invariant, and the theorems it gives.                     *)

IInv == /\ TypeOK /\ HandInv /\ QueueInv
        /\ StaleInv /\ StaleTransferStopped
        /\ GateInv /\ WaitingIsHeld
        /\ FreshInv /\ CancelInv

(* The inductive invariant holds in every reachable state.                 *)
THEOREM Inductive == Spec => []IInv
<1>1. Init => IInv
  <2> SUFFICES ASSUME Init PROVE IInv
    OBVIOUS
  <2> USE DEF Init
  <2>1. PlayerTyped
    BY EmptySeq DEF PlayerTyped
  <2>2. WorkerTyped /\ BaiduTyped /\ GateTyped /\ HistoryTyped
    BY DEF WorkerTyped, BaiduTyped, GateTyped, HistoryTyped, Kinds
  <2>3. HandInv /\ StaleInv /\ StaleTransferStopped
    BY DEF HandInv, InHandPcs, StaleInv, StaleTransferStopped
  <2>4. QueueInv
    <3>1. <<>> \o <<>> = <<>> /\ Len(<<>>) = 0
      BY EmptySeq, ConcatEmptySeq
    <3> QED BY <3>1 DEF QueueInv, Queue
  <2>5. GateInv /\ WaitingIsHeld
    BY DEF GateInv, WaitingIsHeld
  <2>6. FreshInv /\ CancelInv
    <3>1. Len(<<>>) = 0
      BY EmptySeq
    <3> QED BY <3>1 DEF FreshInv, CancelInv
  <2> QED BY <2>1, <2>2, <2>3, <2>4, <2>5, <2>6 DEF IInv, TypeOK
<1>2. IInv /\ [Next]_vars => IInv'
  BY TypeStep, HandStep, QueueStep, StaleStep, GateStep, FreshStep, CancelStep
     DEF IInv
<1> QED BY <1>1, <1>2, PTL DEF Spec

(* Every variable keeps its type.                                          *)
THEOREM TypeCorrect == Spec => []TypeOK
<1>1. IInv => TypeOK
  BY DEF IInv
<1> QED BY <1>1, Inductive, PTL

(* A transfer of a superseded item is always told to stop.                 *)
THEOREM TransfersStop == Spec => []StaleTransferStopped
<1>1. IInv => StaleTransferStopped
  BY DEF IInv
<1> QED BY <1>1, Inductive, PTL

(* The player never claims to be idle while it has work.                   *)
THEOREM ActiveWhenWorking == Spec => []WorkIsActive
<1>1. IInv => WorkIsActive
  <2> SUFFICES ASSUME IInv, cur # None \/ Queue # <<>> PROVE IsActive
    BY DEF WorkIsActive
  <2>1. CASE cur # None
    BY <2>1 DEF IInv, HandInv, IsActive
  <2>2. CASE Queue # <<>>
    <3>1. <<>> \o <<>> = <<>>
      BY EmptySeq, ConcatEmptySeq
    <3> QED BY <2>2, <3>1 DEF Queue, IsActive
  <2> QED BY <2>1, <2>2
<1> QED BY <1>1, Inductive, PTL

(* Baidu audio is not heard before the server has spoken of its request.   *)
THEOREM GateIsHeld == Spec => []GateHeld
<1>1. IInv => GateHeld
  BY DEF IInv, HandInv, InHandPcs, GateInv, GateHeld
<1> QED BY <1>1, Inductive, PTL

(* Nobody is told to wait for a Baidu answer the worker does not hold.     *)
THEOREM WaitersAreHeld == Spec => []WaitingIsHeld
<1>1. IInv => WaitingIsHeld
  BY DEF IInv
<1> QED BY <1>1, Inductive, PTL

(* After its CANCEL no further audio of a request is taken up.             *)
THEOREM CancelIsHeeded == Spec => CancelHeeded
<1>1. IInv /\ [Next]_vars =>
        [CancelDone /\ pc \in {"recv", "gate", "decide"}
           => pc' \notin {"queue", "feed", "release", "open"}]_vars
  BY CancelHeededStep DEF IInv
<1> QED BY <1>1, Inductive, PTL DEF Spec, CancelHeeded

(* All together: what the gate owes those around it.                       *)
THEOREM GateIsKept == Spec => GateKept
BY GateIsHeld, WaitersAreHeld, CancelIsHeeded, PTL DEF GateKept

-----------------------------------------------------------------------------
(* Every initial state of the player is one of the playlist, and every     *)
(* step of it is a step of the playlist or leaves the playlist alone.      *)
LEMMA StepRefines ==
  ASSUME IInv, [Next]_vars
  PROVE  [List!Next]_(List!vars)
<1> USE DEF List!vars
<1>0. /\ token \in Nat /\ head \in Seq(Item) /\ pending \in Seq(Item)
      /\ Queue \in Seq(Item)
  BY DEF IInv, TypeOK, PlayerTyped, Queue
<1>1. CASE PlayUrls \/ PlayBaiduQuery \/ Interrupt
  <2>1. PICK h, p \in Seq(Item) :
          /\ Replace(h, p)
          /\ \A i \in 1..Len(h \o p) : (h \o p)[i].gen = token + 1
                                       /\ (h \o p)[i].pos = i
    BY <1>1, RequestStep DEF IInv
  <2>2. /\ token' = token + 1 /\ Queue' = h \o p
        /\ cur' = cur /\ stale' = stale
    BY <2>1 DEF Replace, Queue, localVars
  <2>3. h \o p \in Seq(List!Item)
    BY <2>1 DEF List!Item, Item
  <2> QED BY <2>1, <2>2, <2>3 DEF List!Next, List!Request
<1>2. CASE Stop
  <2>1. <<>> \o <<>> = <<>>
    BY EmptySeq, ConcatEmptySeq
  <2>2. Queue' = <<>> /\ UNCHANGED <<token, cur, stale>>
    BY <1>2, <2>1 DEF Stop, Queue, localVars
  <2> QED BY <2>2 DEF List!Next, List!Halt
<1>3. CASE Dequeue
  <2>1. cur = None /\ Queue # <<>> /\ token' = token
        /\ cur' = Head(Queue) /\ stale' = 0
    BY <1>3 DEF Dequeue, HasWork, IInv, HandInv, InHandPcs
  <2>2. CASE head # <<>>
    <3>1. /\ Head(Queue) = head[1] /\ Tail(Queue) = Tail(head) \o pending
          /\ 1 \in 1..Len(head)
      BY <1>0, <2>1, <2>2, TakeFirst DEF Queue
    <3>2. Queue' = Tail(Queue)
      BY <1>3, <2>2, <3>1 DEF Dequeue, Queue
    <3>3. Head(Queue).gen = token
      BY <3>1 DEF IInv, QueueInv
    <3> QED BY <2>1, <3>2, <3>3 DEF List!Next, List!Begin
  <2>3. CASE head = <<>>
    <3>1. /\ Head(Queue) = pending[1] /\ Queue = pending
          /\ head \o Tail(pending) = Tail(pending)
          /\ 1 \in 1..Len(pending)
      BY <1>0, <2>1, <2>3, TakeFirst DEF Queue
    <3>2. Queue' = Tail(Queue)
      <4>1. head' = head /\ pending' = Tail(pending)
        BY <1>3, <2>3 DEF Dequeue
      <4> QED BY <3>1, <4>1 DEF Queue
    <3>3. Head(Queue).gen = token
      BY <3>1 DEF IInv, QueueInv
    <3> QED BY <2>1, <3>2, <3>3 DEF List!Next, List!Begin
  <2> QED BY <2>2, <2>3
<1>4. CASE Write
  <2>1. /\ UNCHANGED <<token, cur, Queue>>
        /\ pc = "write"
        /\ stale' = IF token # wtoken THEN stale + 1 ELSE stale
    BY <1>4 DEF Write, playerVars, Queue
  <2>2. CASE token = wtoken
    BY <2>1, <2>2
  <2>3. CASE token # wtoken
    <3>1. cur # None /\ cur.gen = wtoken /\ stale = 0
      BY <2>1 DEF IInv, HandInv, InHandPcs, StaleInv
    <3> QED BY <2>1, <2>3, <3>1 DEF List!Next, List!LateChunk
  <2> QED BY <2>2, <2>3
<1>5. CASE ItemDone
  <2>1. /\ cur # None /\ cur' = None /\ token' = token /\ stale' = stale
    BY <1>5 DEF ItemDone, IInv, HandInv, InHandPcs
  <2>2. Queue' = Queue
    <3>1. CASE head # <<>>
      BY <1>5, <3>1 DEF ItemDone, Queue
    <3>2. CASE head = <<>> /\ pending = <<>>
      BY <1>5, <3>2 DEF ItemDone, Queue
    <3>3. CASE head = <<>> /\ pending # <<>>
      <4>1. head' = <<Head(pending)>> /\ pending' = Tail(pending)
        BY <1>5, <3>3 DEF ItemDone
      <4>2. <<Head(pending)>> \o Tail(pending) = pending
        BY <1>0, <3>3, SplitIsWhole
      <4>3. head \o pending = pending
        BY <1>0, <3>3, ConcatEmptySeq
      <4> QED BY <4>1, <4>2, <4>3 DEF Queue
    <3> QED BY <3>1, <3>2, <3>3
  <2> QED BY <2>1, <2>2 DEF List!Next, List!End
<1>6. CASE \/ Start \/ Server \/ StartCreated \/ Exit \/ Sleep
           \/ SpuriousWake \/ CheckItem
           \/ OpenSource \/ BaiduBegin \/ Transfer \/ GateWaitEnds
           \/ GateDecide \/ GateRelease \/ FeedGo \/ FeedStop \/ Sample
           \/ Finish
           \/ BaiduEnd \/ UNCHANGED vars
  <2>1. UNCHANGED <<token, head, pending, cur, stale>>
    BY <1>6 DEF Start, Server, BaiduTtsDone, BaiduCancel, BaiduCancelTail,
       StartCreated, Exit, Sleep, SpuriousWake, CheckItem, OpenSource,
       BaiduBegin, Transfer, ReadLocal, LocalEnd, StreamData, StreamEnd,
       SseAudio, QueueOrPlay, SseResource, SseReport, BaiduPosted,
       GateWaitEnds, GateDecide, GateRelease, FeedGo, FeedStop, Sample,
       Finish, BaiduEnd, vars, playerVars, localVars
  <2> QED BY <2>1 DEF Queue
<1> QED BY <1>1, <1>2, <1>3, <1>4, <1>5, <1>6 DEF Next, Callers, Worker

(* The player implements the playlist: only the latest request's items are *)
(* begun, in order, and at most one chunk of an older one is heard late.   *)
THEOREM PlayerIsPlaylist == Spec => PlaylistSpec
<1>1. Init => List!Init
  <2>1. <<>> \o <<>> = <<>>
    BY EmptySeq, ConcatEmptySeq
  <2> QED BY <2>1 DEF Init, List!Init, Queue
<1>2. IInv /\ [Next]_vars => [List!Next]_(List!vars)
  BY StepRefines
<1> QED BY <1>1, <1>2, Inductive, PTL DEF Spec, PlaylistSpec, List!Spec
=============================================================================
