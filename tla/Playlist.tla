------------------------------ MODULE Playlist ------------------------------
(***************************************************************************)
(* What the music player promises its callers, without its thread, its     *)
(* mutex or its two queues: one playlist at a time, a new request replaces *)
(* the old one, the items of a request are begun in order, each at most    *)
(* once, and an item that is still in the worker's hands when its request  *)
(* is replaced is heard for at most one more chunk.                        *)
(***************************************************************************)
EXTENDS Naturals, Sequences

CONSTANTS
  Kinds,   \* what an item can be
  None     \* no item

Item == [gen : Nat, pos : Nat, kind : Kinds]

VARIABLES
  gen,     \* the number of requests made so far
  todo,    \* the items of the latest request not yet begun
  now,     \* the item being played, or None
  late     \* chunks of `now` heard since it was superseded

vars == <<gen, todo, now, late>>

Init ==
  /\ gen = 0
  /\ todo = <<>>
  /\ now = None
  /\ late = 0

(* A request (or an interrupt, a request for nothing) replaces the list.   *)
Request ==
  /\ gen' = gen + 1
  /\ todo' \in Seq(Item)
  /\ \A i \in 1..Len(todo') : todo'[i].gen = gen' /\ todo'[i].pos = i
  /\ UNCHANGED <<now, late>>

(* Stopping the player empties the list.                                   *)
Halt ==
  /\ todo' = <<>>
  /\ UNCHANGED <<gen, now, late>>

Begin ==
  /\ now = None
  /\ todo # <<>>
  /\ Head(todo).gen = gen
  /\ now' = Head(todo)
  /\ todo' = Tail(todo)
  /\ late' = 0
  /\ UNCHANGED gen

(* A chunk of a superseded item is heard: once, never again.               *)
LateChunk ==
  /\ now # None
  /\ now.gen # gen
  /\ late = 0
  /\ late' = 1
  /\ UNCHANGED <<gen, todo, now>>

End ==
  /\ now # None
  /\ now' = None
  /\ UNCHANGED <<gen, todo, late>>

Next == Request \/ Halt \/ Begin \/ LateChunk \/ End

Spec == Init /\ [][Next]_vars
=============================================================================
