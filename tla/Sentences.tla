------------------------------ MODULE Sentences ------------------------------
(***************************************************************************)
(* What the server is promised about what is said, without the thread, its *)
(* buffer or its places: a sentence's START comes on a live connection and *)
(* not after one of its frames, the frames come in their order and while   *)
(* the sentence lasts, an END when it is over.  A START or an END may      *)
(* fail, and a sentence may outlive its connection: the next one then gets *)
(* its frames without a START.  What is not promised: a sentence may be    *)
(* abandoned without an END, and a START of no sentence may come at any    *)
(* time, within one too.                                                   *)
(***************************************************************************)
EXTENDS Naturals, Sequences

VARIABLES
  up,         \* whether the connection is up
  speaking,   \* whether a sentence is being said
  begun,      \* the START of this connection that had no END: that of the
              \* "sentence", of a "dropped" one, of "music", or "none"
  sent        \* the frames of the sentence that were sent

vars == <<up, speaking, begun, sent>>

Init == up = FALSE /\ speaking = FALSE /\ begun = "none" /\ sent = <<>>

Connect ==
  /\ ~up /\ up' = TRUE
  /\ begun' = "none"
  /\ UNCHANGED <<speaking, sent>>

Lose ==
  /\ up' = FALSE
  /\ UNCHANGED <<speaking, begun, sent>>

Find ==
  /\ ~speaking /\ speaking' = TRUE
  /\ sent' = <<>>
  /\ UNCHANGED <<up, begun>>

SendStart ==
  /\ up /\ speaking /\ sent = <<>>
  /\ begun' = "sentence"
  /\ UNCHANGED <<up, speaking, sent>>

Deliver ==
  /\ speaking
  /\ Len(sent') >= Len(sent)
  /\ \A i \in 1..Len(sent) : sent'[i] = sent[i]
  /\ \A i, j \in 1..Len(sent') : i < j => sent'[i] < sent'[j]
  /\ UNCHANGED <<up, speaking, begun>>

Finish ==
  /\ speaking' = FALSE
  /\ UNCHANGED <<up, begun, sent>>

SendEnd ==
  /\ up /\ ~speaking
  /\ begun' = "none"
  /\ UNCHANGED <<up, speaking, sent>>

(* The client has begun to play: what was said is dropped.  The server is  *)
(* not told, and keeps the START.                                          *)
Abandon ==
  /\ speaking' = FALSE /\ sent' = <<>>
  /\ begun' = IF begun = "sentence" THEN "dropped" ELSE begun
  /\ UNCHANGED up

(* A START of another thread.                                              *)
Intrude ==
  /\ up
  /\ begun' = IF begun = "sentence" THEN begun ELSE "music"
  /\ UNCHANGED <<up, speaking, sent>>

(* In silence the last sentence is forgotten.                              *)
Forget ==
  /\ ~speaking
  /\ sent' = <<>>
  /\ UNCHANGED <<up, speaking, begun>>

Next ==
  \/ Connect \/ Lose \/ Find \/ SendStart \/ Deliver \/ Finish \/ SendEnd
  \/ Abandon \/ Intrude \/ Forget

Spec == Init /\ [][Next]_vars
=============================================================================
