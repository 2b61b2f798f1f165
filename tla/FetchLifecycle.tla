---------------------------- MODULE FetchLifecycle ----------------------------
(***************************************************************************)
(* What the durable request for a corrected transcript promises beyond     *)
(* RequestLifecycle: the work at the provider begins at most once, under a *)
(* request that was granted; a request is parked only while its work is    *)
(* under way; and what the staff are told is what the work came to, or     *)
(* that a request failed whose work never began and never will.            *)
(*                                                                         *)
(* CorrectedCurrentSync implements this specification.                     *)
(***************************************************************************)
EXTENDS RequestLifecycle

CONSTANT Outcomes \* what the work may come to

VARIABLES
  work, \* work[r]: "none", "started" or its outcome
  told  \* told[r]: what the finished request says, "none" before

fetchVars == <<phase, work, told>>

Init_Fetch ==
  /\ Init
  /\ work = [r \in Requests |-> "none"]
  /\ told = [r \in Requests |-> "none"]

(* The request moves on; its work does not, and nothing is said yet. *)
Move(r) ==
  /\ Create(r) \/ Grant(r) \/ (work[r] = "started" /\ Park(r))
  /\ UNCHANGED <<work, told>>

Begin(r) ==
  /\ phase[r] = "running" /\ work[r] = "none"
  /\ work' = [work EXCEPT ![r] = "started"]
  /\ UNCHANGED <<phase, told>>

End(r) ==
  /\ phase[r] \in {"running", "parked"} /\ work[r] = "started"
  /\ \E outcome \in Outcomes : work' = [work EXCEPT ![r] = outcome]
  /\ UNCHANGED <<phase, told>>

Tell(r) ==
  /\ work[r] \in Outcomes
  /\ Finish(r)
  /\ told' = [told EXCEPT ![r] = work[r]]
  /\ UNCHANGED work

(* The work cannot begin: no credentials, nothing to fetch from. *)
GiveUp(r) ==
  /\ phase[r] = "running" /\ work[r] = "none"
  /\ Finish(r)
  /\ told' = [told EXCEPT ![r] = "FAILED"]
  /\ UNCHANGED work

(* A step takes one request further. *)
Advances(r) == <<phase[r], work[r]>>' # <<phase[r], work[r]>>

Next_Fetch ==
  \E r \in Requests :
    /\ Advances(r)
    /\ Move(r) \/ Begin(r) \/ End(r) \/ Tell(r) \/ GiveUp(r)

Spec_Fetch == Init_Fetch /\ [][Next_Fetch]_fetchVars
=============================================================================
