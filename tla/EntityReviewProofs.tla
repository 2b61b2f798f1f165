-------------------------- MODULE EntityReviewProofs --------------------------
(***************************************************************************)
(* Proofs about the review of mentions, for any number of proposals,       *)
(* entities and reviewers. A decision relies on a pin it read when it took *)
(* its locks: the pin is still that one when the decision writes, or there *)
(* was none and an import has made one since.                              *)
(***************************************************************************)
EXTENDS EntityReview, TLAPS

LocksAreExclusive ==
  \A v, w \in Reviewers : v # w => HeldBy(v) \cap HeldBy(w) = {}

ReadThePin == SingleOps \cup {"cleanup"}

PinStands(p, pin) == ePin[p] = pin \/ (pin = NoPin /\ ePin[p].by # "review")

LockedPinStands ==
  \A w \in Reviewers : eTx[w].at \in ReadThePin => PinStands(eTx[w].p, eTx[w].pin)

EntityInvariant ==
  EntityTypeOK /\ LocksAreExclusive /\ LockedPinStands /\ PinIsExplained

------------------------------------------------------------------------------
(* Shapes                                                                  *)

TypedCand == eCand \in [Proposals -> [Entities -> [status : Statuses, to : Maybe]]]
TypedPin == ePin \in [Proposals -> Pins]
TypedTx ==
  eTx \in [Reviewers -> Singles \cup Cleanups \cup GroupPages \cup Groups \cup {Idle}]

LEMMA TypesByVariable == EntityTypeOK <=> TypedCand /\ TypedPin /\ TypedTx
BY DEF EntityTypeOK, TypedCand, TypedPin, TypedTx

LEMMA TxShapes ==
  ASSUME TypedTx, NEW w \in Reviewers
  PROVE  /\ eTx[w].at \in SingleOps => eTx[w] \in Singles
         /\ eTx[w].at = "cleanup" => eTx[w] \in Cleanups
         /\ eTx[w].at = "page" => eTx[w] \in GroupPages
         /\ eTx[w].at = "group" => eTx[w] \in Groups
         /\ eTx[w].at \in SingleOps \cup {"cleanup", "page", "group", "idle"}
<1>1. eTx[w] \in Singles \cup Cleanups \cup GroupPages \cup Groups \cup {Idle}
  BY DEF TypedTx
<1>2. CASE eTx[w] \in Singles
  BY <1>2 DEF Singles, SingleOps
<1>3. CASE eTx[w] \in Cleanups
  BY <1>3 DEF Cleanups, SingleOps
<1>4. CASE eTx[w] \in Groups
  BY <1>4 DEF Groups, SingleOps
<1>5. CASE eTx[w] \in GroupPages
  BY <1>5 DEF GroupPages, SingleOps
<1>6. CASE eTx[w] = Idle
  BY <1>6 DEF Idle, SingleOps
<1> QED BY <1>1, <1>2, <1>3, <1>4, <1>5, <1>6

LEMMA PinReaderHoldsItsProposal ==
  ASSUME TypedTx, NEW w \in Reviewers, eTx[w].at \in ReadThePin
  PROVE  /\ eTx[w].p \in Proposals /\ eTx[w].pin \in Pins
         /\ HeldBy(w) = {eTx[w].p}
BY TxShapes DEF ReadThePin, HeldBy, Singles, Cleanups

LEMMA NoPinIsNobodys == NoPin \in Pins /\ NoPin.by = "nobody" /\ NoPin.entity = NoEntity
BY DEF NoPin, Pins, Maybe

LEMMA PinOfIsAReviews ==
  ASSUME NEW e \in Maybe
  PROVE  PinOf(e) \in Pins /\ PinOf(e).by = "review" /\ PinOf(e).entity = e
BY DEF PinOf, Pins

------------------------------------------------------------------------------
(* Steps that change no row                                                *)

(* A transaction that takes a free proposal's lock and reads its pin, or   *)
(* lets go of all it holds.                                                *)
LEMMA NewTxIsSound ==
  ASSUME EntityInvariant, NEW w \in Reviewers,
         NEW tx \in Singles \cup Cleanups \cup GroupPages \cup Groups \cup {Idle},
         TxIs(w, tx), UNCHANGED <<eCand, ePin>>,
         HeldBy(w)' \subseteq HeldBy(w) \cup {p \in Proposals : Unlocked(p)},
         tx.at \in ReadThePin => tx.pin = ePin[tx.p]
  PROVE  EntityInvariant'
<1>1. TypedTx /\ TypedCand /\ TypedPin
  BY TypesByVariable DEF EntityInvariant
<1>2. eTx' = [eTx EXCEPT ![w] = tx]
  BY DEF TxIs
<1>3. TypedTx'
  BY <1>1, <1>2 DEF TypedTx
<1>4. EntityTypeOK'
  BY <1>1, <1>3 DEF EntityTypeOK, TypedTx, TypedCand, TypedPin
<1>5. \A v \in Reviewers : v # w => eTx'[v] = eTx[v]
  BY <1>1, <1>2 DEF TypedTx
<1>6. eTx'[w] = tx
  BY <1>1, <1>2 DEF TypedTx
<1>7. \A v \in Reviewers : v # w => HeldBy(v)' = HeldBy(v)
  BY <1>5 DEF HeldBy
<1>8. LocksAreExclusive'
  <2> SUFFICES ASSUME NEW u \in Reviewers, NEW v \in Reviewers, u # v
               PROVE  HeldBy(u)' \cap HeldBy(v)' = {}
    BY DEF LocksAreExclusive
  <2>1. \A x \in Reviewers : x # w => HeldBy(w)' \cap HeldBy(x) = {}
    BY DEF EntityInvariant, LocksAreExclusive, Unlocked
  <2>2. CASE u = w
    BY <2>1, <2>2, <1>7
  <2>3. CASE v = w
    BY <2>1, <2>3, <1>7
  <2>4. CASE u # w /\ v # w
    BY <2>4, <1>7 DEF EntityInvariant, LocksAreExclusive
  <2> QED BY <2>2, <2>3, <2>4
<1>9. LockedPinStands'
  <2> SUFFICES ASSUME NEW v \in Reviewers, eTx'[v].at \in ReadThePin
               PROVE  PinStands(eTx[v].p, eTx[v].pin)'
    BY DEF LockedPinStands, PinStands, ReadThePin, SingleOps
  <2>1. CASE v = w
    BY <2>1, <1>6 DEF PinStands
  <2>2. CASE v # w
    BY <2>2, <1>5 DEF PinStands, EntityInvariant, LockedPinStands
  <2> QED BY <2>1, <2>2
<1>10. PinIsExplained'
  BY DEF EntityInvariant, PinIsExplained
<1> QED BY <1>4, <1>8, <1>9, <1>10 DEF EntityInvariant

------------------------------------------------------------------------------
(* Steps that write under locks                                            *)

(* A transaction that ends writes only rows of proposals it has locked, so *)
(* the others' locks and what they have read are not touched.              *)
LEMMA CommitIsSound ==
  ASSUME EntityInvariant, NEW w \in Reviewers, TxIs(w, Idle),
         TypedCand', TypedPin', PinIsExplained',
         \A p \in Proposals \ HeldBy(w) : ePin'[p] = ePin[p]
  PROVE  EntityInvariant'
<1>1. TypedTx
  BY TypesByVariable DEF EntityInvariant
<1>2. eTx' = [eTx EXCEPT ![w] = Idle]
  BY DEF TxIs
<1>3. TypedTx'
  BY <1>1, <1>2 DEF TypedTx
<1>4. EntityTypeOK'
  BY <1>3 DEF EntityTypeOK, TypedTx, TypedCand, TypedPin
<1>5. \A v \in Reviewers : v # w => eTx'[v] = eTx[v] /\ HeldBy(v)' = HeldBy(v)
  BY <1>1, <1>2 DEF TypedTx, HeldBy
<1>6. eTx'[w] = Idle /\ HeldBy(w)' = {}
  BY <1>1, <1>2 DEF TypedTx, HeldBy, Idle, SingleOps
<1>7. LocksAreExclusive'
  BY <1>5, <1>6 DEF LocksAreExclusive, EntityInvariant
<1>8. LockedPinStands'
  <2> SUFFICES ASSUME NEW v \in Reviewers, eTx'[v].at \in ReadThePin
               PROVE  PinStands(eTx[v].p, eTx[v].pin)'
    BY DEF LockedPinStands, PinStands, ReadThePin, SingleOps
  <2>1. v # w
    BY <1>6 DEF Idle, ReadThePin, SingleOps
  <2>2. eTx[v].at \in ReadThePin /\ eTx'[v] = eTx[v]
    BY <2>1, <1>5
  <2>3. eTx[v].p \in Proposals /\ eTx[v].p \in HeldBy(v)
    BY <1>1, <2>2, PinReaderHoldsItsProposal
  <2>4. eTx[v].p \notin HeldBy(w)
    BY <2>1, <2>3 DEF EntityInvariant, LocksAreExclusive
  <2>5. ePin'[eTx[v].p] = ePin[eTx[v].p]
    BY <2>3, <2>4
  <2> QED BY <2>2, <2>5 DEF PinStands, EntityInvariant, LockedPinStands
<1> QED BY <1>4, <1>7, <1>8 DEF EntityInvariant

(* Writing one candidate as decided, its pin being left or replaced by one *)
(* that needs no explanation or is explained by that very candidate.       *)
LEMMA DecidedIsSound ==
  ASSUME EntityInvariant, NEW w \in Reviewers, TxIs(w, Idle),
         NEW p \in Proposals, NEW e \in Entities, HeldBy(w) = {p},
         NEW status \in Statuses, NEW to \in Maybe, Decided(p, e, status, to),
         NEW pin \in Pins, ePin' = [ePin EXCEPT ![p] = pin],
         \/ pin.by # "review"
         \/ status = "APPROVED" /\ to = pin.entity
         \/ pin = ePin[p] /\ eCand[p][e].status # "APPROVED"
  PROVE  EntityInvariant'
<1>1. TypedCand /\ TypedPin
  BY TypesByVariable DEF EntityInvariant
<1>2. eCand' = [eCand EXCEPT ![p][e] = [status |-> status, to |-> to]]
  BY DEF Decided
<1>3. TypedCand' /\ TypedPin'
  BY <1>1, <1>2 DEF TypedCand, TypedPin
<1>4. \A q \in Proposals : q # p => ePin'[q] = ePin[q] /\ eCand'[q] = eCand[q]
  BY <1>1, <1>2 DEF TypedCand, TypedPin
<1>5. /\ ePin'[p] = pin
      /\ eCand'[p][e] = [status |-> status, to |-> to]
      /\ \A d \in Entities : d # e => eCand'[p][d] = eCand[p][d]
  BY <1>1, <1>2 DEF TypedCand, TypedPin
<1>6. PinIsExplained'
  <2> SUFFICES ASSUME NEW q \in Proposals, ePin'[q].by = "review"
               PROVE  \E d \in Entities :
                        eCand'[q][d] = [status |-> "APPROVED", to |-> ePin'[q].entity]
    BY DEF PinIsExplained
  <2>1. CASE q # p
    BY <2>1, <1>4 DEF EntityInvariant, PinIsExplained
  <2>2. CASE q = p /\ status = "APPROVED" /\ to = pin.entity
    BY <2>2, <1>5
  <2>3. CASE q = p /\ pin = ePin[p] /\ eCand[p][e].status # "APPROVED"
    <3>1. PICK d \in Entities :
            eCand[p][d] = [status |-> "APPROVED", to |-> ePin[p].entity]
      BY <2>3, <1>5 DEF EntityInvariant, PinIsExplained
    <3>2. d # e
      BY <2>3, <3>1
    <3> QED BY <2>3, <3>1, <3>2, <1>5
  <2> QED BY <2>1, <2>2, <2>3, <1>5
<1> QED BY <1>3, <1>4, <1>6, CommitIsSound

------------------------------------------------------------------------------
(* The decisions about one candidate                                       *)

LEMMA DecisionFacts ==
  ASSUME EntityInvariant, NEW w \in Reviewers, eTx[w].at \in SingleOps
  PROVE  /\ eTx[w].p \in Proposals /\ eTx[w].e \in Entities
         /\ HeldBy(w) = {eTx[w].p}
         /\ PinStands(eTx[w].p, eTx[w].pin)
         /\ ePin[eTx[w].p] \in Pins
         /\ eCand[eTx[w].p][eTx[w].e] \in [status : Statuses, to : Maybe]
         /\ ePin = [ePin EXCEPT ![eTx[w].p] = ePin[eTx[w].p]]
<1>1. TypedTx /\ TypedPin /\ TypedCand
  BY TypesByVariable DEF EntityInvariant
<1>2. eTx[w] \in Singles
  BY <1>1, TxShapes
<1>3. eTx[w].p \in Proposals /\ eTx[w].e \in Entities /\ HeldBy(w) = {eTx[w].p}
  BY <1>2 DEF Singles, HeldBy
<1>4. PinStands(eTx[w].p, eTx[w].pin)
  BY DEF EntityInvariant, LockedPinStands, ReadThePin
<1> QED BY <1>1, <1>3, <1>4 DEF TypedPin, TypedCand

LEMMA ApproveIsSound ==
  ASSUME EntityInvariant, NEW w \in Reviewers, eTx[w].at \in SingleOps,
         Approve(w, eTx[w].p, eTx[w].e), TxIs(w, Idle)
  PROVE  EntityInvariant'
<1> DEFINE p == eTx[w].p
           e == eTx[w].e
           c == eCand[p][e]
           to == Intended(c, e)
           pin == IF eTx[w].pin = NoPin THEN PinOf(to) ELSE ePin[p]
<1>1. /\ MayPin(w, p, to) /\ Decided(p, e, "APPROVED", to)
      /\ ePin' = IF eTx[w].pin = NoPin THEN [ePin EXCEPT ![p] = PinOf(to)] ELSE ePin
  BY DEF Approve
<1>2. to \in Maybe
  BY DecisionFacts DEF Intended, Maybe
<1>3. pin \in Pins /\ ePin' = [ePin EXCEPT ![p] = pin]
  BY <1>1, <1>2, DecisionFacts, PinOfIsAReviews
<1>4. to = pin.entity
  BY <1>1, <1>2, DecisionFacts, PinOfIsAReviews DEF MayPin, PinStands
<1>5. p \in Proposals /\ e \in Entities /\ HeldBy(w) = {p}
  BY DecisionFacts
<1>6. "APPROVED" \in Statuses
  BY DEF Statuses
<1> HIDE DEF p, e, c, to, pin
<1>7. Decided(p, e, "APPROVED", to)
  BY <1>1
<1> QED BY <1>7, <1>2, <1>3, <1>4, <1>5, <1>6, DecidedIsSound

LEMMA TurnDownIsSound ==
  ASSUME EntityInvariant, NEW w \in Reviewers, eTx[w].at \in SingleOps,
         NEW status \in {"REJECTED", "NEEDS_RESEARCH"},
         TurnDown(eTx[w].p, eTx[w].e, status), TxIs(w, Idle)
  PROVE  EntityInvariant'
<1>1. /\ eCand[eTx[w].p][eTx[w].e].status # "APPROVED"
      /\ Decided(eTx[w].p, eTx[w].e, status, NoEntity)
      /\ ePin' = ePin
  BY DEF TurnDown, MayTurnDown
<1>2. status \in Statuses /\ NoEntity \in Maybe
  BY DEF Statuses, Maybe
<1> QED BY <1>1, <1>2, DecisionFacts, DecidedIsSound

LEMMA ReassignIsSound ==
  ASSUME EntityInvariant, NEW w \in Reviewers, eTx[w].at \in SingleOps,
         Reassign(w, eTx[w].p, eTx[w].e), TxIs(w, Idle)
  PROVE  EntityInvariant'
<1> DEFINE p == eTx[w].p
           e == eTx[w].e
<1>1. PICK to \in Entities :
        /\ Decided(p, e, "APPROVED", to)
        /\ ePin' = IF eTx[w].pin.entity = to THEN ePin
                                             ELSE [ePin EXCEPT ![p] = PinOf(to)]
  BY DEF Reassign
<1> DEFINE pin == IF eTx[w].pin.entity = to THEN ePin[p] ELSE PinOf(to)
<1>2. to \in Maybe /\ to # NoEntity
  BY EntityAssumption DEF Maybe
<1>3. pin \in Pins /\ ePin' = [ePin EXCEPT ![p] = pin]
  BY <1>1, <1>2, DecisionFacts, PinOfIsAReviews
<1>4. to = pin.entity
  BY <1>2, DecisionFacts, PinOfIsAReviews, NoPinIsNobodys DEF PinStands
<1>5. p \in Proposals /\ e \in Entities /\ HeldBy(w) = {p}
  BY DecisionFacts
<1>6. "APPROVED" \in Statuses
  BY DEF Statuses
<1> HIDE DEF p, e, pin
<1>7. Decided(p, e, "APPROVED", to)
  BY <1>1
<1> QED BY <1>7, <1>2, <1>3, <1>4, <1>5, <1>6, DecidedIsSound

LEMMA RemoveIsSound ==
  ASSUME EntityInvariant, NEW w \in Reviewers, eTx[w].at \in SingleOps,
         Remove(w, eTx[w].p, eTx[w].e), TxIs(w, Idle)
  PROVE  EntityInvariant'
<1> DEFINE p == eTx[w].p
           c == eCand[p][eTx[w].e]
           pin == IF eTx[w].pin = NoPin THEN ePin[p] ELSE NoPin
<1>1. /\ Decided(p, eTx[w].e, "REMOVED", c.to)
      /\ ePin' = IF eTx[w].pin = NoPin THEN ePin ELSE [ePin EXCEPT ![p] = NoPin]
  BY DEF Remove
<1>2. c.to \in Maybe
  BY DecisionFacts
<1>3. pin \in Pins /\ ePin' = [ePin EXCEPT ![p] = pin]
  BY <1>1, DecisionFacts, NoPinIsNobodys
<1>4. pin.by # "review"
  BY DecisionFacts, NoPinIsNobodys DEF PinStands
<1>5. p \in Proposals /\ eTx[w].e \in Entities /\ HeldBy(w) = {p}
  BY DecisionFacts
<1>6. "REMOVED" \in Statuses
  BY DEF Statuses
<1> HIDE DEF p, c, pin
<1> QED BY <1>1, <1>2, <1>3, <1>4, <1>5, <1>6, DecidedIsSound

LEMMA DecideIsSound ==
  ASSUME EntityInvariant, NEW w \in Reviewers, Decide(w)
  PROVE  EntityInvariant'
BY ApproveIsSound, TurnDownIsSound, ReassignIsSound, RemoveIsSound DEF Decide

------------------------------------------------------------------------------
(* Groups, clean-up                                                        *)

LEMMA ApproveGroupIsSound ==
  ASSUME EntityInvariant, NEW w \in Reviewers, ApproveGroup(w)
  PROVE  EntityInvariant'
<1> DEFINE e == eTx[w].e
           ids == eTx[w].ids
<1>1. TypedTx /\ TypedPin /\ TypedCand
  BY TypesByVariable DEF EntityInvariant
<1>2. /\ eTx[w].at = "group" /\ eTx[w].held = ids /\ StillTheGroup(w)
      /\ TxIs(w, Idle)
      /\ eCand' = [p \in Proposals |->
                    IF p \in ids
                      THEN [eCand[p] EXCEPT ![e] = [status |-> "APPROVED", to |-> e]]
                      ELSE eCand[p]]
      /\ ePin' = [p \in Proposals |->
                   IF p \in ids /\ ePin[p] = NoPin THEN PinOf(e) ELSE ePin[p]]
  BY DEF ApproveGroup
<1>3. eTx[w] \in Groups
  BY <1>1, <1>2, TxShapes
<1>4. e \in Entities /\ e \in Maybe /\ ids \subseteq Proposals
  BY <1>3 DEF Groups, Maybe
<1>5. HeldBy(w) = ids
  BY <1>2 DEF HeldBy, SingleOps
<1>6. \A p \in ids : eCand[p][e].status # "APPROVED"
  BY <1>2 DEF StillTheGroup
<1>7. PinOf(e) \in Pins /\ PinOf(e).entity = e
  BY <1>4, PinOfIsAReviews
<1> HIDE DEF e, ids
<1>8. TypedCand' /\ TypedPin'
  <2>1. [status |-> "APPROVED", to |-> e] \in [status : Statuses, to : Maybe]
    BY <1>4 DEF Statuses
  <2> QED BY <1>1, <1>2, <1>4, <1>7, <2>1 DEF TypedCand, TypedPin
<1>9. \A p \in Proposals \ ids : eCand'[p] = eCand[p] /\ ePin'[p] = ePin[p]
  BY <1>2
<1>10. \A p \in ids :
         /\ eCand'[p][e] = [status |-> "APPROVED", to |-> e]
         /\ \A d \in Entities : d # e => eCand'[p][d] = eCand[p][d]
         /\ ePin'[p] = IF ePin[p] = NoPin THEN PinOf(e) ELSE ePin[p]
  BY <1>1, <1>2, <1>4 DEF TypedCand
<1>11. PinIsExplained'
  <2> SUFFICES ASSUME NEW p \in Proposals, ePin'[p].by = "review"
               PROVE  \E d \in Entities :
                        eCand'[p][d] = [status |-> "APPROVED", to |-> ePin'[p].entity]
    BY DEF PinIsExplained
  <2>1. CASE p \notin ids
    BY <2>1, <1>9 DEF EntityInvariant, PinIsExplained
  <2>2. CASE p \in ids /\ ePin[p] = NoPin
    BY <2>2, <1>4, <1>7, <1>10
  <2>3. CASE p \in ids /\ ePin[p] # NoPin
    <3>1. PICK d \in Entities :
            eCand[p][d] = [status |-> "APPROVED", to |-> ePin[p].entity]
      BY <2>3, <1>10 DEF EntityInvariant, PinIsExplained
    <3>2. d # e
      BY <2>3, <3>1, <1>6
    <3> QED BY <2>3, <3>1, <3>2, <1>10
  <2> QED BY <2>1, <2>2, <2>3
<1> QED BY <1>2, <1>5, <1>8, <1>9, <1>11, CommitIsSound

LEMMA RejectContainedIsSound ==
  ASSUME EntityInvariant, NEW w \in Reviewers, RejectContained(w)
  PROVE  EntityInvariant'
<1> DEFINE p == eTx[w].p
<1>1. TypedTx /\ TypedPin /\ TypedCand
  BY TypesByVariable DEF EntityInvariant
<1>2. /\ eTx[w].at = "cleanup" /\ TxIs(w, Idle) /\ ePin' = ePin
      /\ \A e \in Existing(p) : eCand[p][e].status = "PENDING"
      /\ eCand' = [eCand EXCEPT ![p] = [e \in Entities |->
                    IF e \in Existing(p)
                      THEN [status |-> "REJECTED", to |-> NoEntity]
                      ELSE eCand[p][e]]]
  BY DEF RejectContained
<1>3. p \in Proposals
  BY <1>1, <1>2, PinReaderHoldsItsProposal DEF ReadThePin
<1> HIDE DEF p
<1>4. TypedCand' /\ TypedPin'
  <2>1. [status |-> "REJECTED", to |-> NoEntity] \in [status : Statuses, to : Maybe]
    BY DEF Statuses, Maybe
  <2> QED BY <1>1, <1>2, <1>3, <2>1 DEF TypedCand, TypedPin
<1>5. \A q \in Proposals : q # p => eCand'[q] = eCand[q]
  BY <1>1, <1>2, <1>3 DEF TypedCand
<1>6. \A e \in Entities : eCand[p][e].status # "APPROVED"
  BY <1>2 DEF Existing
<1>7. PinIsExplained'
  BY <1>2, <1>5, <1>6 DEF EntityInvariant, PinIsExplained
<1> QED BY <1>2, <1>4, <1>7, CommitIsSound

------------------------------------------------------------------------------
(* Locks, pages, and ends that keep nothing                                *)

LEMMA TakesOrDropsIsSound ==
  ASSUME EntityInvariant, NEW w \in Reviewers,
         \/ \E p \in Proposals :
              \/ \E e \in Entities, op \in SingleOps : LockRows(w, op, p, e)
              \/ LockMember(w, p) \/ LockForCleanup(w, p)
         \/ \E e \in Entities : ShowGroup(w, e)
         \/ SubmitGroup(w) \/ AbortReview(w)
  PROVE  EntityInvariant'
<1>1. TypedTx /\ TypedPin /\ TypedCand
  BY TypesByVariable DEF EntityInvariant
<1>2. HeldBy(w)' = IF eTx'[w].at \in SingleOps \cup {"cleanup"} THEN {eTx'[w].p}
                   ELSE IF eTx'[w].at = "group" THEN eTx'[w].held ELSE {}
  BY DEF HeldBy
<1>3. \A tx : TxIs(w, tx) => eTx'[w] = tx
  BY <1>1 DEF TxIs, TypedTx
<1>4. ASSUME NEW p \in Proposals, NEW e \in Entities, NEW op \in SingleOps,
             LockRows(w, op, p, e)
      PROVE  EntityInvariant'
  <2> DEFINE tx == [at |-> op, p |-> p, e |-> e, pin |-> ePin[p]]
  <2>1. TxIs(w, tx) /\ UNCHANGED <<eCand, ePin>> /\ Unlocked(p)
    BY <1>4 DEF LockRows, MentionsRest
  <2>2. tx \in Singles /\ tx.at \in SingleOps /\ tx.pin = ePin[tx.p] /\ tx.p = p
    BY <1>1 DEF TypedPin, Singles
  <2> HIDE DEF tx
  <2>3. HeldBy(w)' = {p}
    BY <1>2, <1>3, <2>1, <2>2
  <2> QED BY <2>1, <2>2, <2>3, NewTxIsSound
<1>5. ASSUME NEW p \in Proposals, LockForCleanup(w, p)
      PROVE  EntityInvariant'
  <2> DEFINE tx == [at |-> "cleanup", p |-> p, pin |-> ePin[p]]
  <2>1. TxIs(w, tx) /\ UNCHANGED <<eCand, ePin>> /\ Unlocked(p)
    BY <1>5 DEF LockForCleanup, MentionsRest
  <2>2. tx \in Cleanups /\ tx.at = "cleanup" /\ tx.pin = ePin[tx.p] /\ tx.p = p
    BY <1>1 DEF TypedPin, Cleanups
  <2> HIDE DEF tx
  <2>3. HeldBy(w)' = {p}
    BY <1>2, <1>3, <2>1, <2>2
  <2> QED BY <2>1, <2>2, <2>3, NewTxIsSound
<1>6. ASSUME NEW p \in Proposals, LockMember(w, p)
      PROVE  EntityInvariant'
  <2> DEFINE tx == [eTx[w] EXCEPT !.held = eTx[w].held \cup {p}]
  <2>1. /\ TxIs(w, tx) /\ UNCHANGED <<eCand, ePin>> /\ Unlocked(p)
        /\ eTx[w].at = "group"
    BY <1>6 DEF LockMember, MentionsRest
  <2>2. eTx[w] \in Groups
    BY <1>1, <2>1, TxShapes
  <2>3. tx \in Groups /\ tx.at = "group" /\ tx.held = eTx[w].held \cup {p}
    BY <2>1, <2>2 DEF Groups
  <2>4. HeldBy(w) = eTx[w].held
    BY <2>1 DEF HeldBy, SingleOps
  <2> HIDE DEF tx
  <2>5. HeldBy(w)' = HeldBy(w) \cup {p}
    BY <1>2, <1>3, <2>1, <2>3, <2>4 DEF SingleOps
  <2>6. tx.at \notin ReadThePin
    BY <2>3 DEF ReadThePin, SingleOps
  <2> QED BY <2>1, <2>3, <2>5, <2>6, NewTxIsSound
<1>7. ASSUME NEW e \in Entities, ShowGroup(w, e)
      PROVE  EntityInvariant'
  <2> DEFINE tx == [at |-> "page", e |-> e, ids |-> GroupOf(e)]
  <2>1. TxIs(w, tx) /\ UNCHANGED <<eCand, ePin>>
    BY <1>7 DEF ShowGroup, MentionsRest
  <2>2. tx \in GroupPages /\ tx.at = "page"
    BY DEF GroupPages, GroupOf
  <2> HIDE DEF tx
  <2>3. HeldBy(w)' = {} /\ tx.at \notin ReadThePin
    BY <1>2, <1>3, <2>1, <2>2 DEF SingleOps, ReadThePin
  <2> QED BY <2>1, <2>2, <2>3, NewTxIsSound
<1>8. ASSUME SubmitGroup(w)
      PROVE  EntityInvariant'
  <2> DEFINE tx == [at |-> "group", e |-> eTx[w].e, ids |-> eTx[w].ids, held |-> {}]
  <2>1. /\ TxIs(w, tx) /\ UNCHANGED <<eCand, ePin>>
        /\ eTx[w].at = "page"
    BY <1>8 DEF SubmitGroup, MentionsRest
  <2>2. eTx[w] \in GroupPages
    BY <1>1, <2>1, TxShapes
  <2>3. tx \in Groups /\ tx.at = "group" /\ tx.held = {}
    BY <2>2 DEF Groups, GroupPages
  <2> HIDE DEF tx
  <2>4. HeldBy(w)' = {} /\ tx.at \notin ReadThePin
    BY <1>2, <1>3, <2>1, <2>3 DEF SingleOps, ReadThePin
  <2> QED BY <2>1, <2>3, <2>4, NewTxIsSound
<1>9. ASSUME AbortReview(w)
      PROVE  EntityInvariant'
  <2>1. TxIs(w, Idle) /\ UNCHANGED <<eCand, ePin>>
    BY <1>9 DEF AbortReview, MentionsRest
  <2>2. Idle.at = "idle"
    BY DEF Idle
  <2>3. HeldBy(w)' = {} /\ Idle.at \notin ReadThePin
    BY <1>2, <1>3, <2>1, <2>2 DEF SingleOps, ReadThePin
  <2> QED BY <2>1, <2>3, NewTxIsSound
<1> QED BY <1>4, <1>5, <1>6, <1>7, <1>8, <1>9

------------------------------------------------------------------------------
(* Detector and imports                                                    *)

LEMMA DetectIsSound ==
  ASSUME EntityInvariant, NEW p \in Proposals, NEW e \in Entities, Detect(p, e)
  PROVE  EntityInvariant'
<1>1. TypedCand
  BY TypesByVariable DEF EntityInvariant
<1>2. /\ eCand[p][e] = NoCandidate
      /\ eCand' = [eCand EXCEPT ![p][e].status = "PENDING"]
      /\ ePin' = ePin /\ eTx' = eTx
  BY DEF Detect
<1>3. TypedCand'
  BY <1>1, <1>2 DEF TypedCand, Statuses
<1>4. EntityTypeOK'
  BY <1>2, <1>3 DEF EntityInvariant, EntityTypeOK, TypedCand
<1>5. \A q \in Proposals, d \in Entities :
        eCand[q][d].status = "APPROVED" => eCand'[q][d] = eCand[q][d]
  BY <1>1, <1>2 DEF TypedCand, NoCandidate
<1>6. PinIsExplained'
  <2> SUFFICES ASSUME NEW q \in Proposals, ePin[q].by = "review"
               PROVE  \E d \in Entities :
                        eCand'[q][d] = [status |-> "APPROVED", to |-> ePin[q].entity]
    BY <1>2 DEF PinIsExplained
  <2>1. PICK d \in Entities :
          eCand[q][d] = [status |-> "APPROVED", to |-> ePin[q].entity]
    BY DEF EntityInvariant, PinIsExplained
  <2> QED BY <2>1, <1>5
<1>7. LocksAreExclusive' /\ LockedPinStands'
  BY <1>2 DEF EntityInvariant, LocksAreExclusive, LockedPinStands, HeldBy, PinStands
<1> QED BY <1>4, <1>6, <1>7 DEF EntityInvariant

LEMMA ImportIsSound ==
  ASSUME EntityInvariant, NEW p \in Proposals, NEW e \in Entities,
         ApplyWorkbook(p, e) \/ ApplyStage2(p, e)
  PROVE  EntityInvariant'
<1>1. TypedPin /\ TypedTx
  BY TypesByVariable DEF EntityInvariant
<1>2. PICK by \in {"workbook", "stage2"} :
        /\ ePin[p] = NoPin /\ ePin' = [ePin EXCEPT ![p] = [entity |-> e, by |-> by]]
        /\ eCand' = eCand /\ eTx' = eTx
  BY DEF ApplyWorkbook, ApplyStage2
<1>3. [entity |-> e, by |-> by] \in Pins
  BY DEF Pins, Maybe
<1>4. EntityTypeOK'
  BY <1>1, <1>2, <1>3 DEF EntityInvariant, EntityTypeOK, TypedPin
<1>5. \A q \in Proposals : q # p => ePin'[q] = ePin[q]
  BY <1>1, <1>2 DEF TypedPin
<1>6. ePin'[p].by # "review"
  BY <1>1, <1>2 DEF TypedPin
<1>7. PinIsExplained'
  BY <1>2, <1>5, <1>6 DEF EntityInvariant, PinIsExplained
<1>8. LocksAreExclusive'
  BY <1>2 DEF EntityInvariant, LocksAreExclusive, HeldBy
<1>9. LockedPinStands'
  <2> SUFFICES ASSUME NEW w \in Reviewers, eTx[w].at \in ReadThePin
               PROVE  PinStands(eTx[w].p, eTx[w].pin)'
    BY <1>2 DEF LockedPinStands, PinStands
  <2>1. PinStands(eTx[w].p, eTx[w].pin) /\ eTx[w].p \in Proposals
    BY <1>1, PinReaderHoldsItsProposal DEF EntityInvariant, LockedPinStands
  <2>2. CASE eTx[w].p # p
    BY <2>1, <2>2, <1>2, <1>5 DEF PinStands
  <2>3. CASE eTx[w].p = p
    BY <2>1, <2>3, <1>2, <1>6 DEF PinStands
  <2> QED BY <2>2, <2>3
<1> QED BY <1>4, <1>7, <1>8, <1>9 DEF EntityInvariant

------------------------------------------------------------------------------
(* Verdicts                                                                *)

LEMMA DecideKeepsVerdicts ==
  ASSUME EntityInvariant, NEW w \in Reviewers, Decide(w)
  PROVE  VerdictsStand
<1> DEFINE p == eTx[w].p
           e == eTx[w].e
<1>1. TypedTx /\ TypedPin /\ TypedCand
  BY TypesByVariable DEF EntityInvariant
<1>2. eTx[w].at \in SingleOps /\ TxIs(w, Idle)
  BY DEF Decide
<1>3. p \in Proposals /\ e \in Entities
  BY <1>2, DecisionFacts
<1>4. PinStands(p, eTx[w].pin)
  BY <1>2, DecisionFacts
<1>5. PICK status, to : eCand' = [eCand EXCEPT ![p][e] = [status |-> status, to |-> to]]
  BY DEF Decide, Approve, TurnDown, Reassign, Remove, Decided
<1>6. \/ ePin' = ePin
      \/ /\ \E pin : ePin' = [ePin EXCEPT ![p] = pin]
         /\ ePin[p] = NoPin \/ (~ IsProtected(w) /\ eTx[w].pin # NoPin)
  BY DEF Decide, Approve, TurnDown, Reassign, Remove, MayPin
<1>7. eTx'[w] = Idle
  BY <1>1, <1>2 DEF TxIs, TypedTx
<1> HIDE DEF p, e
<1>8. ASSUME NEW q \in Proposals, NEW d \in Entities, eCand'[q][d] # eCand[q][d]
      PROVE  q = p /\ d = e
  BY <1>1, <1>3, <1>5, <1>8 DEF TypedCand
<1>9. ASSUME NEW q \in Proposals, ePin[q].by = "workbook"
      PROVE  ePin'[q] = ePin[q]
  <2>1. CASE q # p
    BY <1>1, <1>6, <2>1 DEF TypedPin
  <2>2. CASE q = p
    BY <1>4, <1>6, <1>9, <2>2, NoPinIsNobodys DEF PinStands, IsProtected
  <2> QED BY <2>1, <2>2
<1> QED BY <1>2, <1>7, <1>8, <1>9 DEF VerdictsStand, p, e

LEMMA GroupKeepsVerdicts ==
  ASSUME EntityInvariant, NEW w \in Reviewers, ApproveGroup(w)
  PROVE  VerdictsStand
<1>1. TypedCand
  BY TypesByVariable DEF EntityInvariant
<1>2. ASSUME NEW q \in Proposals, NEW d \in Entities, eCand'[q][d] # eCand[q][d]
      PROVE  eCand[q][d].status = "PENDING"
  BY <1>1, <1>2 DEF ApproveGroup, StillTheGroup, TypedCand
<1>3. \A q \in Proposals : ePin[q].by = "workbook" => ePin'[q] = ePin[q]
  BY NoPinIsNobodys DEF ApproveGroup
<1> QED BY <1>2, <1>3 DEF VerdictsStand

LEMMA CleanupKeepsVerdicts ==
  ASSUME EntityInvariant, NEW w \in Reviewers, RejectContained(w)
  PROVE  VerdictsStand
<1>1. TypedCand
  BY TypesByVariable DEF EntityInvariant
<1>2. ASSUME NEW q \in Proposals, NEW d \in Entities, eCand'[q][d] # eCand[q][d]
      PROVE  eCand[q][d].status = "PENDING"
  BY <1>1, <1>2 DEF RejectContained, Existing, TypedCand
<1> QED BY <1>2 DEF VerdictsStand, RejectContained

LEMMA OthersKeepVerdicts ==
  ASSUME EntityInvariant, NEW p \in Proposals, NEW e \in Entities,
         Detect(p, e) \/ ApplyWorkbook(p, e) \/ ApplyStage2(p, e)
  PROVE  VerdictsStand
<1>1. TypedCand /\ TypedPin
  BY TypesByVariable DEF EntityInvariant
<1>2. ASSUME NEW q \in Proposals, NEW d \in Entities, eCand'[q][d] # eCand[q][d]
      PROVE  eCand[q][d].status = "NONE"
  <2>1. Detect(p, e)
    BY <1>2 DEF ApplyWorkbook, ApplyStage2
  <2>2. eCand[p][e].status = "NONE" /\ eCand' = [eCand EXCEPT ![p][e].status = "PENDING"]
    BY <2>1 DEF Detect, NoCandidate
  <2>3. q = p /\ d = e
    BY <1>1, <1>2, <2>2 DEF TypedCand
  <2> QED BY <2>2, <2>3
<1>3. ASSUME NEW q \in Proposals, ePin[q].by = "workbook"
      PROVE  ePin'[q] = ePin[q]
  BY <1>1, <1>3, NoPinIsNobodys DEF Detect, ApplyWorkbook, ApplyStage2, TypedPin
<1> QED BY <1>2, <1>3 DEF VerdictsStand

LEMMA RowsRestKeepsVerdicts ==
  ASSUME UNCHANGED <<eCand, ePin>>
  PROVE  VerdictsStand
BY DEF VerdictsStand

LEMMA StepKeepsVerdicts ==
  EntityInvariant /\ [Next_Entity]_eVars => [VerdictsStand]_eVars
<1> SUFFICES ASSUME EntityInvariant, Next_Entity PROVE VerdictsStand
  OBVIOUS
<1>1. ASSUME NEW w \in Reviewers, ReviewerStep(w) PROVE VerdictsStand
  <2>1. CASE Decide(w)
    BY <2>1, DecideKeepsVerdicts
  <2>2. CASE ApproveGroup(w)
    BY <2>2, GroupKeepsVerdicts
  <2>3. CASE RejectContained(w)
    BY <2>3, CleanupKeepsVerdicts
  <2>4. CASE \/ \E p \in Proposals :
                  \/ \E e \in Entities, op \in SingleOps : LockRows(w, op, p, e)
                  \/ LockMember(w, p) \/ LockForCleanup(w, p)
             \/ \E e \in Entities : ShowGroup(w, e)
             \/ SubmitGroup(w) \/ AbortReview(w)
    BY <2>4, RowsRestKeepsVerdicts
    DEF LockRows, LockMember, LockForCleanup, ShowGroup, SubmitGroup, AbortReview,
        MentionsRest
  <2> QED BY <1>1, <2>1, <2>2, <2>3, <2>4 DEF ReviewerStep
<1> QED BY <1>1, OthersKeepVerdicts DEF Next_Entity

------------------------------------------------------------------------------
(* Theorems                                                                *)

LEMMA EntityInit == Init_Entity => EntityInvariant
<1> SUFFICES ASSUME Init_Entity PROVE EntityInvariant
  OBVIOUS
<1>1. EntityTypeOK
  BY NoPinIsNobodys DEF Init_Entity, EntityTypeOK, NoCandidate, Statuses, Maybe
<1>2. \A w \in Reviewers : eTx[w] = Idle
  BY DEF Init_Entity
<1>3. LocksAreExclusive /\ LockedPinStands
  BY <1>2 DEF LocksAreExclusive, LockedPinStands, HeldBy, Idle, SingleOps, ReadThePin
<1>4. PinIsExplained
  BY NoPinIsNobodys DEF Init_Entity, PinIsExplained
<1> QED BY <1>1, <1>3, <1>4 DEF EntityInvariant

LEMMA EntityStep == EntityInvariant /\ [Next_Entity]_eVars => EntityInvariant'
<1> SUFFICES ASSUME EntityInvariant, [Next_Entity]_eVars PROVE EntityInvariant'
  OBVIOUS
<1>1. ASSUME NEW w \in Reviewers, ReviewerStep(w) PROVE EntityInvariant'
  <2>1. CASE Decide(w)
    BY <2>1, DecideIsSound
  <2>2. CASE ApproveGroup(w)
    BY <2>2, ApproveGroupIsSound
  <2>3. CASE RejectContained(w)
    BY <2>3, RejectContainedIsSound
  <2>4. CASE \/ \E p \in Proposals :
                  \/ \E e \in Entities, op \in SingleOps : LockRows(w, op, p, e)
                  \/ LockMember(w, p) \/ LockForCleanup(w, p)
             \/ \E e \in Entities : ShowGroup(w, e)
             \/ SubmitGroup(w) \/ AbortReview(w)
    BY <2>4, TakesOrDropsIsSound
  <2> QED BY <1>1, <2>1, <2>2, <2>3, <2>4 DEF ReviewerStep
<1>2. CASE \E p \in Proposals, e \in Entities :
             Detect(p, e) \/ ApplyWorkbook(p, e) \/ ApplyStage2(p, e)
  BY <1>2, DetectIsSound, ImportIsSound
<1>3. CASE UNCHANGED eVars
  BY <1>3 DEF eVars, EntityInvariant, EntityTypeOK, LocksAreExclusive, HeldBy,
              LockedPinStands, PinStands, PinIsExplained
<1> QED BY <1>1, <1>2, <1>3 DEF Next_Entity

(* Every reachable state has the parts of the invariant: types, exclusive  *)
(* locks of proposals, pins that stand while they are relied on, and       *)
(* explained pins.                                                         *)
THEOREM EntityInvariantHolds == Spec_Entity => []EntityInvariant
BY EntityInit, EntityStep, PTL DEF Spec_Entity

(* A pin that reviews made is the outcome of an approval that stands.      *)
THEOREM PinsAreExplained == Spec_Entity => []PinIsExplained
<1>1. EntityInvariant => PinIsExplained
  BY DEF EntityInvariant
<1> QED BY <1>1, EntityInvariantHolds, PTL

(* Only a decision about a candidate changes its verdict, and nothing      *)
(* changes a pin that a workbook made.                                     *)
THEOREM VerdictsAlwaysStand == Spec_Entity => DecisionsStand
BY EntityInvariantHolds, StepKeepsVerdicts, PTL DEF Spec_Entity, DecisionsStand
=============================================================================
