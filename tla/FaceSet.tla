------------------------------- MODULE FaceSet -------------------------------
(***************************************************************************)
(* What the library of faces promises across crashes, without its files:   *)
(* names stand for one face each; saving a face gives its name to it in    *)
(* one step; nothing is lost except between the moment a save begins and   *)
(* the moment it has reached the disk, or by a save for which there was no *)
(* room; and nothing ever comes in that was not saved.                     *)
(***************************************************************************)
CONSTANTS
  Names,   \* the names people give
  Ids      \* the identities of saved faces

Entry == [name : Names, id : Ids]

VARIABLES
  faces,    \* the entries a reader is entitled to
  atRisk,   \* a save has begun and may not have reached the disk
  before,   \* what was on the disk when it began
  short     \* the system is out of room

vars == <<faces, atRisk, before, short>>

Init ==
  /\ faces = {} /\ before = {}
  /\ atRisk = FALSE
  /\ short = FALSE

\* The entries once `e` is saved: its name no longer stands for another face.
With(e) == {f \in faces : f.name # e.name} \cup {e}

Begin ==
  /\ ~atRisk
  /\ atRisk' = TRUE /\ before' = faces
  /\ UNCHANGED <<faces, short>>

Save ==
  /\ atRisk
  /\ \E e \in Entry : faces' = With(e)
  /\ UNCHANGED <<atRisk, before, short>>

SaveShort ==
  /\ atRisk /\ short
  /\ \E e \in Entry : faces' \in SUBSET With(e)
  /\ UNCHANGED <<atRisk, before, short>>

\* The program dies, or the power does; in the second case what is left is
\* on the disk.
Lose ==
  /\ atRisk
  /\ \/ /\ faces' \in SUBSET faces
        /\ UNCHANGED <<atRisk, before>>
     \/ /\ faces' \in (SUBSET faces) \cup {before}
        /\ before' = faces'
        /\ atRisk' = FALSE
  /\ UNCHANGED short

Settle ==
  /\ atRisk
  /\ atRisk' = FALSE /\ before' = faces
  /\ UNCHANGED <<faces, short>>

RunShort == short' = TRUE /\ UNCHANGED <<faces, atRisk, before>>

Next == Begin \/ Save \/ SaveShort \/ Lose \/ Settle \/ RunShort

Spec == Init /\ [][Next]_vars
=============================================================================
