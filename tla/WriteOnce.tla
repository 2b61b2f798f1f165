------------------------------ MODULE WriteOnce ------------------------------
(***************************************************************************)
(* What storage that many calls share promises: a cell that has a value    *)
(* keeps it, and whoever is handed an answer is handed the value of every  *)
(* cell, none of which is still empty. Writers may fill several cells at   *)
(* once and take their answer in the same step.                            *)
(*                                                                         *)
(* The pages of a Gemini attempt, the pages of an Arabic attempt and the   *)
(* snapshot of a Transkribus transcript implement this specification.      *)
(***************************************************************************)
CONSTANTS
  Cells,     \* what is stored
  Readers,   \* who may be handed the whole
  Empty,     \* a cell without a value
  Unanswered \* a reader without an answer

VARIABLES
  cell,  \* cell[c]: the value of c, or Empty
  answer \* answer[r]: what r was handed, or Unanswered

Init ==
  /\ \A c \in Cells : cell[c] = Empty
  /\ \A r \in Readers : answer[r] = Unanswered

Whole == \A c \in Cells : cell[c] # Empty
Contents == [c \in Cells |-> cell[c]]

(* Only empty cells are written. *)
Write == \A c \in Cells : cell[c] # Empty => cell'[c] = cell[c]

(* A reader keeps the answer it has. One without an answer may be handed   *)
(* the contents as they are now, none of them empty.                       *)
Answer ==
  \A r \in Readers :
    \/ answer'[r] = answer[r]
    \/ answer[r] = Unanswered /\ Whole' /\ answer'[r] = Contents'

Next == Write /\ Answer

Spec == Init /\ [][Next]_<<cell, answer>>

(* All answers are the same, and what is stored stays the answer. *)
AnswersAgree ==
  \A r \in Readers : answer[r] # Unanswered => Whole /\ answer[r] = Contents
=============================================================================
