------------------------------ MODULE EntityReview ------------------------------
(***************************************************************************)
(* Mentions of places and organizations in a text. The detector proposes   *)
(* an occurrence of a surface with one candidate per registry entity;      *)
(* staff decide candidates one by one, approve a whole group of them, or   *)
(* run the clean-up of overlapping proposals; the outcome of a proposal is *)
(* one pin, the ArchiveItemEntityOccurrence. Workbook and stage-2 imports  *)
(* make pins beside the reviews. Every transaction may also be refused     *)
(* because the text has changed, for a flag of the group or a conflict,    *)
(* or die, or be the victim of a deadlock: then it keeps nothing.          *)
(***************************************************************************)
CONSTANTS
  Proposals,   \* occurrences of one surface, each in one text
  Entities,    \* registry entities that have that name
  Reviewers,   \* requests of staff
  NoEntity

ASSUME EntityAssumption == NoEntity \notin Entities

VARIABLES
  eCand,   \* the candidate of each proposal and entity, and what it resolves to
  ePin,    \* the occurrence of each proposal
  eTx      \* what each request holds and has read

eVars == <<eCand, ePin, eTx>>

Statuses == {"NONE", "PENDING", "NEEDS_RESEARCH", "REJECTED", "APPROVED", "REMOVED"}
NoCandidate == [status |-> "NONE", to |-> NoEntity]
Maybe == Entities \cup {NoEntity}

(* A pin without a decision is a review's or a stage-2 import's: the rows  *)
(* do not tell which, and no guard below asks. A workbook's has a decision.*)
Pins == [entity : Maybe, by : {"nobody", "review", "stage2", "workbook"}]
NoPin == [entity |-> NoEntity, by |-> "nobody"]
PinOf(e) == [entity |-> e, by |-> "review"]

Idle == [at |-> "idle"]
SingleOps == {"approve", "reject", "research", "reassign", "remove"}
Singles == [at : SingleOps, p : Proposals, e : Entities, pin : Pins]
Cleanups == [at : {"cleanup"}, p : Proposals, pin : Pins]
GroupPages == [at : {"page"}, e : Entities, ids : SUBSET Proposals]
Groups == [at : {"group"}, e : Entities, ids : SUBSET Proposals,
           held : SUBSET Proposals]

EntityTypeOK ==
  /\ eCand \in [Proposals -> [Entities -> [status : Statuses, to : Maybe]]]
  /\ ePin \in [Proposals -> Pins]
  /\ eTx \in [Reviewers -> Singles \cup Cleanups \cup GroupPages \cup Groups \cup {Idle}]

Init_Entity ==
  /\ eCand = [p \in Proposals |-> [e \in Entities |-> NoCandidate]]
  /\ ePin = [p \in Proposals |-> NoPin]
  /\ eTx = [w \in Reviewers |-> Idle]

------------------------------------------------------------------------------
(* Locks                                                                   *)

HeldBy(w) ==
  IF eTx[w].at \in SingleOps \cup {"cleanup"} THEN {eTx[w].p}
  ELSE IF eTx[w].at = "group" THEN eTx[w].held ELSE {}

Unlocked(p) == \A w \in Reviewers : p \notin HeldBy(w)

TxIs(w, tx) == eTx' = [eTx EXCEPT ![w] = tx]
MentionsRest == UNCHANGED <<eCand, ePin>>

(* _lock_review_rows: the proposal, then the candidate and the pin.        *)
LockRows(w, op, p, e) ==
  /\ eTx[w] = Idle /\ Unlocked(p) /\ eCand[p][e].status # "NONE"
  /\ TxIs(w, [at |-> op, p |-> p, e |-> e, pin |-> ePin[p]])
  /\ MentionsRest

AbortReview(w) ==
  /\ eTx[w] # Idle
  /\ TxIs(w, Idle)
  /\ MentionsRest

------------------------------------------------------------------------------
(* Decisions about one candidate                                           *)

(* The unique identity refuses to create a pin beside one that was         *)
(* imported since the locked row was read as missing.                      *)
MayPin(w, p, e) ==
  IF eTx[w].pin = NoPin THEN ePin[p] = NoPin ELSE eTx[w].pin.entity = e

Decided(p, e, status, to) ==
  eCand' = [eCand EXCEPT ![p][e] = [status |-> status, to |-> to]]

(* An APPROVED candidate keeps what it was resolved to.                    *)
Intended(c, e) == IF c.status = "APPROVED" THEN c.to ELSE e

Approve(w, p, e) ==
  LET c == eCand[p][e] IN
  /\ c.status # "REMOVED" /\ MayPin(w, p, Intended(c, e))
  /\ Decided(p, e, "APPROVED", Intended(c, e))
  /\ ePin' = IF eTx[w].pin = NoPin
               THEN [ePin EXCEPT ![p] = PinOf(Intended(c, e))] ELSE ePin

(* Mutant of MayTurnDown: an approved candidate is turned down as well. *)
MayTurnDownAny(c) == c.status # "REMOVED"

MayTurnDown(c) == c.status \notin {"APPROVED", "REMOVED"}

TurnDown(p, e, status) ==
  /\ MayTurnDown(eCand[p][e])
  /\ Decided(p, e, status, NoEntity)
  /\ UNCHANGED ePin

IsProtected(w) == eTx[w].pin.by = "workbook"

Reassign(w, p, e) ==
  \E to \in Entities :
    /\ ~ IsProtected(w) /\ eCand[p][e].status # "REMOVED"
    /\ eTx[w].pin = NoPin => ePin[p] = NoPin
    /\ Decided(p, e, "APPROVED", to)
    /\ ePin' = IF eTx[w].pin.entity = to THEN ePin
                                         ELSE [ePin EXCEPT ![p] = PinOf(to)]

Remove(w, p, e) ==
  LET c == eCand[p][e] IN
  /\ ~ IsProtected(w) /\ c.status = "APPROVED"
  /\ eTx[w].pin.entity \in {c.to, NoEntity}
  /\ Decided(p, e, "REMOVED", c.to)
  /\ ePin' = IF eTx[w].pin = NoPin THEN ePin ELSE [ePin EXCEPT ![p] = NoPin]

Decide(w) ==
  /\ eTx[w].at \in SingleOps
  /\ LET p == eTx[w].p
         e == eTx[w].e
     IN \/ eTx[w].at = "approve" /\ Approve(w, p, e)
        \/ eTx[w].at = "reject" /\ TurnDown(p, e, "REJECTED")
        \/ eTx[w].at = "research" /\ TurnDown(p, e, "NEEDS_RESEARCH")
        \/ eTx[w].at = "reassign" /\ Reassign(w, p, e)
        \/ eTx[w].at = "remove" /\ Remove(w, p, e)
  /\ TxIs(w, Idle)

------------------------------------------------------------------------------
(* approve_pending_occurrence_group                                        *)

GroupOf(e) == {p \in Proposals : eCand[p][e].status = "PENDING"}

ShowGroup(w, e) ==
  /\ eTx[w] = Idle /\ GroupOf(e) # {}
  /\ TxIs(w, [at |-> "page", e |-> e, ids |-> GroupOf(e)])
  /\ MentionsRest

(* The confirmed ids must be the group as it is now, read without a lock.  *)
SubmitGroup(w) ==
  /\ eTx[w].at = "page" /\ GroupOf(eTx[w].e) = eTx[w].ids
  /\ TxIs(w, [at |-> "group", e |-> eTx[w].e, ids |-> eTx[w].ids, held |-> {}])
  /\ MentionsRest

(* Candidates are locked in the order of their ids; ids follow detection,  *)
(* which may meet the proposals in any order.                              *)
LockMember(w, p) ==
  /\ eTx[w].at = "group" /\ p \in eTx[w].ids \ eTx[w].held /\ Unlocked(p)
  /\ TxIs(w, [eTx[w] EXCEPT !.held = @ \cup {p}])
  /\ MentionsRest

(* Mutant of StillTheGroup: approve_candidate's own guard has to do.       *)
NoneRemoved(w) == \A p \in eTx[w].ids : eCand[p][eTx[w].e].status # "REMOVED"

(* _verify_locked_group                                                    *)
StillTheGroup(w) ==
  \A p \in eTx[w].ids : eCand[p][eTx[w].e] = [status |-> "PENDING", to |-> NoEntity]

ApproveGroup(w) ==
  LET e == eTx[w].e
      ids == eTx[w].ids
  IN /\ eTx[w].at = "group" /\ eTx[w].held = ids /\ StillTheGroup(w)
     /\ \A p \in ids : ePin[p].entity \in {e, NoEntity}
     /\ eCand' = [p \in Proposals |->
                   IF p \in ids
                     THEN [eCand[p] EXCEPT ![e] = [status |-> "APPROVED", to |-> e]]
                     ELSE eCand[p]]
     /\ ePin' = [p \in Proposals |->
                  IF p \in ids /\ ePin[p] = NoPin THEN PinOf(e) ELSE ePin[p]]
     /\ TxIs(w, Idle)

------------------------------------------------------------------------------
(* cleanup_non_person_overlap_candidates, one proposal per transaction     *)

Existing(p) == {e \in Entities : eCand[p][e].status # "NONE"}

LockForCleanup(w, p) ==
  /\ eTx[w] = Idle /\ Unlocked(p) /\ Existing(p) # {}
  /\ TxIs(w, [at |-> "cleanup", p |-> p, pin |-> ePin[p]])
  /\ MentionsRest

RejectContained(w) ==
  LET p == eTx[w].p
  IN /\ eTx[w].at = "cleanup" /\ eTx[w].pin = NoPin
     /\ \A e \in Existing(p) : eCand[p][e].status = "PENDING"
     /\ eCand' = [eCand EXCEPT ![p] = [e \in Entities |->
                   IF e \in Existing(p)
                     THEN [status |-> "REJECTED", to |-> NoEntity] ELSE @[e]]]
     /\ TxIs(w, Idle)
     /\ UNCHANGED ePin

------------------------------------------------------------------------------
(* Detector and imports                                                    *)

(* The detector inserts what is missing. It asks for no lock, but the      *)
(* deferred foreign key of a new candidate is checked at its commit, which *)
(* waits for a locked proposal.                                            *)
Detect(p, e) ==
  /\ eCand[p][e] = NoCandidate /\ Unlocked(p)
  /\ eCand' = [eCand EXCEPT ![p][e].status = "PENDING"]
  /\ UNCHANGED <<ePin, eTx>>

(* A workbook locks the item and its pins, not the proposals; a collision  *)
(* refuses the whole workbook.                                             *)
ApplyWorkbook(p, e) ==
  /\ ePin[p] = NoPin
  /\ ePin' = [ePin EXCEPT ![p] = [entity |-> e, by |-> "workbook"]]
  /\ UNCHANGED <<eCand, eTx>>

(* Stage 2 locks the proposals too; a proposal that exists refuses its row,*)
(* so the proposal is detected later. *)
ApplyStage2(p, e) ==
  /\ ePin[p] = NoPin /\ Existing(p) = {}
  /\ ePin' = [ePin EXCEPT ![p] = [entity |-> e, by |-> "stage2"]]
  /\ UNCHANGED <<eCand, eTx>>

------------------------------------------------------------------------------
ReviewerStep(w) ==
  \/ \E p \in Proposals :
       \/ \E e \in Entities, op \in SingleOps : LockRows(w, op, p, e)
       \/ LockMember(w, p) \/ LockForCleanup(w, p)
  \/ Decide(w) \/ AbortReview(w)
  \/ \E e \in Entities : ShowGroup(w, e)
  \/ SubmitGroup(w) \/ ApproveGroup(w) \/ RejectContained(w)

Next_Entity ==
  \/ \E w \in Reviewers : ReviewerStep(w)
  \/ \E p \in Proposals, e \in Entities :
       Detect(p, e) \/ ApplyWorkbook(p, e) \/ ApplyStage2(p, e)

Spec_Entity == Init_Entity /\ [][Next_Entity]_eVars

------------------------------------------------------------------------------
(* A pin that reviews made is the outcome of an approval that still        *)
(* stands, however the candidates of its proposal are approved,            *)
(* reassigned, removed and rejected beside each other and the imports.     *)
PinIsExplained ==
  \A p \in Proposals :
    ePin[p].by = "review" =>
      \E e \in Entities : eCand[p][e] = [status |-> "APPROVED", to |-> ePin[p].entity]

(* A verdict on a candidate is changed only by a decision about that very  *)
(* candidate: no group approval, clean-up, detection or import touches     *)
(* one, whatever was decided while they ran. Workbook pins never change.   *)
VerdictsStand ==
  \A p \in Proposals :
    /\ \A e \in Entities :
         eCand[p][e].status \notin {"NONE", "PENDING"} /\ eCand'[p][e] # eCand[p][e]
           => \E w \in Reviewers :
                /\ eTx[w].at \in SingleOps /\ eTx[w].p = p /\ eTx[w].e = e
                /\ eTx'[w] = Idle
    /\ ePin[p].by = "workbook" => ePin'[p] = ePin[p]

DecisionsStand == [][VerdictsStand]_eVars
=============================================================================
