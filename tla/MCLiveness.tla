----------------------------- MODULE MCLiveness -----------------------------
(***************************************************************************)
(* What must end: the requests of a document and, in behaviours of their   *)
(* own, the runs that share the pages of a Gemini attempt and the requests *)
(* for a corrected transcript.                                             *)
(***************************************************************************)
EXTENDS ProcessDocument, GeminiPageCheckpoints, CorrectedCurrentSync

VARIABLE part

Init_Liveness ==
  part \in {"requests", "gemini", "sync"} /\ Init /\ Init_Gemini /\ Init_Sync

Next_Liveness ==
  \/ part = "requests" /\ Next /\ UNCHANGED <<part, gVars, ccVars>>
  \/ part = "gemini" /\ Next_Gemini /\ UNCHANGED <<part, vars, ccVars>>
  \/ part = "sync" /\ Next_Sync /\ UNCHANGED <<part, vars, gVars>>

Spec_Liveness ==
  /\ Init_Liveness /\ [][Next_Liveness]_<<part, vars, gVars, ccVars>>
  /\ Fairness /\ GeminiFairness /\ SyncFairness
=============================================================================
