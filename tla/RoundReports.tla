---------------------------- MODULE RoundReports ----------------------------
(***************************************************************************)
(* What the server is promised about the end of speech, without the thread *)
(* that plays, its queue or its marks: it is told of a round at most once, *)
(* of rounds it has begun, of a later one never before an earlier one, and *)
(* nothing is played between the decision to tell it and the message.  A   *)
(* message may name no round; there is at most one of these for each time  *)
(* the speech was cut off, and it makes the rounds told of be forgotten.   *)
(***************************************************************************)
EXTENDS Naturals

VARIABLES
  round,     \* the rounds of conversation the server has begun
  playing,   \* whether speech is being played
  telling,   \* whether the server is about to be told of an end
  what,      \* and of which round, 0 being none
  told,      \* the rounds it was told of and that were not forgotten since
  cuts,      \* how often the speech was cut off by an interrupt or sub-round
  blanks     \* how often it was decided to tell of no round

vars == <<round, playing, telling, what, told, cuts, blanks>>

Init ==
  /\ round = 0 /\ playing = FALSE /\ telling = FALSE /\ what = 0
  /\ told = {} /\ cuts = 0 /\ blanks = 0

Recognize ==
  /\ round' = round + 1
  /\ UNCHANGED <<playing, telling, what, told, cuts, blanks>>

Cut ==
  /\ cuts' = cuts + 1
  /\ UNCHANGED <<round, playing, telling, what, told, blanks>>

Play ==
  /\ ~telling
  /\ playing' = TRUE
  /\ UNCHANGED <<round, telling, what, told, cuts, blanks>>

Silence ==
  /\ playing' = FALSE
  /\ UNCHANGED <<round, telling, what, told, cuts, blanks>>

Decide ==
  /\ ~telling /\ ~playing
  /\ telling' = TRUE
  /\ what' \in 1..round
  /\ \A r \in told : r < what'
  /\ UNCHANGED <<round, playing, told, cuts, blanks>>

DecideBlank ==
  /\ ~telling /\ ~playing
  /\ blanks < cuts
  /\ telling' = TRUE /\ what' = 0 /\ blanks' = blanks + 1
  /\ UNCHANGED <<round, playing, told, cuts>>

Tell ==
  /\ telling
  /\ told' = IF what = 0 THEN {} ELSE told \union {what}
  /\ telling' = FALSE /\ what' = 0
  /\ UNCHANGED <<round, playing, cuts, blanks>>

(* The message cannot be sent; the round may be told of later.             *)
Fail ==
  /\ telling
  /\ telling' = FALSE /\ what' = 0
  /\ UNCHANGED <<round, playing, told, cuts, blanks>>

(* A round that goes on, or a new session, is told of anew.                *)
Forget ==
  /\ told' = {}
  /\ playing' \in {playing, FALSE}
  /\ UNCHANGED <<round, telling, what, cuts, blanks>>

Next ==
  \/ Recognize \/ Cut \/ Play \/ Silence \/ Decide \/ DecideBlank \/ Tell
  \/ Fail \/ Forget

Spec == Init /\ [][Next]_vars
=============================================================================
