-------------------------- MODULE RequestLifecycle --------------------------
(***************************************************************************)
(* What the durable PROCESS_DOCUMENT request promises of one document: at  *)
(* most one request is unfinished at a time, a request is granted to a     *)
(* worker at most once, a granted request that is given up is parked and   *)
(* never granted again, and a finished request stays finished.             *)
(*                                                                         *)
(* ProcessDocument implements this specification; the mapping collapses    *)
(* QUEUED and ENQUEUE_FAILED into "waiting" and the three terminal         *)
(* statuses into "done". CorrectedCurrentSync implements FetchLifecycle,   *)
(* which extends it.                                                       *)
(***************************************************************************)
CONSTANT Requests       \* the ids that request rows may get

VARIABLE phase          \* phase[r]: how far request r has come

Phases == {"absent", "waiting", "running", "parked", "done"}

Unfinished == {"waiting", "running", "parked"}

Init == phase = [r \in Requests |-> "absent"]

(* A request is created only when the document has no unfinished one. *)
Create(r) ==
  /\ phase[r] = "absent"
  /\ \A q \in Requests : phase[q] \notin Unfinished
  /\ phase' = [phase EXCEPT ![r] = "waiting"]

Grant(r) ==
  /\ phase[r] = "waiting"
  /\ phase' = [phase EXCEPT ![r] = "running"]

Park(r) ==
  /\ phase[r] = "running"
  /\ phase' = [phase EXCEPT ![r] = "parked"]

Finish(r) ==
  /\ phase[r] \in {"running", "parked"}
  /\ phase' = [phase EXCEPT ![r] = "done"]

Next == \E r \in Requests : Create(r) \/ Grant(r) \/ Park(r) \/ Finish(r)

Spec == Init /\ [][Next]_phase
=============================================================================
