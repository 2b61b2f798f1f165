--------------------------- MODULE TextReviewProofs ---------------------------
(***************************************************************************)
(* Proofs about the reviewed text rows, for any number of open pages,      *)
(* texts and revisions. The rows of a Hebrew document are always equal, on *)
(* every open page too, so the baseline of one row speaks for both; and a  *)
(* translation never claims a later revision than the source has, so a new *)
(* revision always makes it stale.                                         *)
(***************************************************************************)
EXTENDS TextReview, TLAPS

Mirror(text) == ReviewHebrew => text["source"] = text["hebrew"]

RowsMirror ==
  /\ Mirror(rText)
  /\ \A s \in ReviewStaff : form[s] # NoForm => Mirror(form[s].shown)

OnlyTranslationsAreRetried == job.kind = "retry" => ~ ReviewHebrew

ReviewInvariant ==
  /\ ReviewTypeOK
  /\ basedOn <= sourceRev
  /\ FreshTranslationIsOfItsSource
  /\ RowsMirror
  /\ OnlyTranslationsAreRetried

(* Storing a person's text t keeps the rows well typed and mirrored, and   *)
(* leaves no fresh machine translation of another text.                    *)
LEMMA StoredTextIsSound ==
  ASSUME ReviewInvariant, NEW row \in RowTypes, NEW t \in Texts, StoreText(row, t)
  PROVE  /\ rText' \in [RowTypes -> Texts \cup {NoText}]
         /\ sourceRev' \in 1 .. ReviewRevBound
         /\ basedOn' \in 0 .. ReviewRevBound
         /\ madeFrom' \in Texts \cup {NoText}
         /\ basedOn' <= sourceRev'
         /\ FreshTranslationIsOfItsSource'
         /\ Mirror(rText')
<1> USE ReviewAssumption DEF ReviewInvariant, ReviewTypeOK, RowTypes, NoText
<1>1. CASE ReviewHebrew
  <2>1. /\ sourceRev < ReviewRevBound /\ sourceRev' = sourceRev + 1
        /\ rText' = [r \in RowTypes |-> t]
        /\ basedOn' = sourceRev' /\ madeFrom' = NoText
    BY <1>1 DEF StoreText
  <2> QED BY <1>1, <2>1 DEF FreshTranslationIsOfItsSource, Mirror
<1>2. CASE ~ ReviewHebrew /\ row = "source"
  <2>1. /\ sourceRev < ReviewRevBound /\ sourceRev' = sourceRev + 1
        /\ rText' = [rText EXCEPT !["source"] = t]
        /\ basedOn' = basedOn /\ madeFrom' = madeFrom
    BY <1>2 DEF StoreText
  <2> QED BY <1>2, <2>1 DEF FreshTranslationIsOfItsSource, Mirror
<1>3. CASE ~ ReviewHebrew /\ row = "hebrew"
  <2>1. /\ rText' = [rText EXCEPT !["hebrew"] = t]
        /\ basedOn' = sourceRev /\ madeFrom' = NoText
        /\ sourceRev' = sourceRev
    BY <1>3 DEF StoreText
  <2> QED BY <1>3, <2>1 DEF FreshTranslationIsOfItsSource, Mirror
<1> QED BY <1>1, <1>2, <1>3

(* What is left of the invariant beside the texts: verdicts, pages, job.   *)
Surroundings ==
  /\ rVer \in [RowTypes -> Verdicts]
  /\ form \in [ReviewStaff -> Forms \cup {NoForm}]
  /\ \A s \in ReviewStaff : form[s] # NoForm => Mirror(form[s].shown)
  /\ job \in [kind : {"idle", "ocr", "retry"}, read : Texts \cup {NoText}]
  /\ OnlyTranslationsAreRetried

LEMMA InvariantFromParts ==
  ASSUME rText' \in [RowTypes -> Texts \cup {NoText}],
         sourceRev' \in 1 .. ReviewRevBound, basedOn' \in 0 .. ReviewRevBound,
         madeFrom' \in Texts \cup {NoText}, basedOn' <= sourceRev',
         FreshTranslationIsOfItsSource', Mirror(rText'), Surroundings'
  PROVE  ReviewInvariant'
BY DEF ReviewInvariant, ReviewTypeOK, RowsMirror, Surroundings, Mirror

LEMMA VerifyWrittenTyped ==
  ASSUME ReviewInvariant, NEW row \in RowTypes, VerifyWritten(row)
  PROVE  rVer' \in [RowTypes -> Verdicts]
BY DEF VerifyWritten, ReviewInvariant, ReviewTypeOK, RowTypes, Verdicts

LEMMA ClosedPagesStaySound ==
  ASSUME ReviewInvariant, NEW s \in ReviewStaff, ClosePage(s)
  PROVE  /\ form' \in [ReviewStaff -> Forms \cup {NoForm}]
         /\ \A q \in ReviewStaff : form'[q] # NoForm => Mirror(form'[q].shown)
BY DEF ClosePage, ReviewInvariant, ReviewTypeOK, RowsMirror

LEMMA OpenPageNamesARow ==
  ASSUME ReviewInvariant, NEW s \in ReviewStaff, form[s] # NoForm
  PROVE  form[s] \in Forms /\ form[s].row \in RowTypes
BY DEF ReviewInvariant, ReviewTypeOK, Forms

(* A step that leaves the texts and their revisions alone.                 *)
LEMMA RowsRestAreSound ==
  ASSUME ReviewInvariant, UNCHANGED <<rText, sourceRev, basedOn, madeFrom>>,
         Surroundings'
  PROVE  ReviewInvariant'
BY DEF ReviewInvariant, ReviewTypeOK, RowsMirror, Surroundings, Mirror,
       FreshTranslationIsOfItsSource

LEMMA ReviewInit == Init_Review => ReviewInvariant
<1> SUFFICES ASSUME Init_Review PROVE ReviewInvariant OBVIOUS
<1> USE ReviewAssumption DEF Init_Review, NoText
<1>1. ReviewTypeOK
  BY DEF ReviewTypeOK, RowTypes, Verdicts, IdleJob
<1>2. basedOn <= sourceRev /\ FreshTranslationIsOfItsSource /\ RowsMirror
  BY DEF FreshTranslationIsOfItsSource, RowsMirror, Mirror, RowTypes
<1>3. OnlyTranslationsAreRetried
  BY DEF OnlyTranslationsAreRetried, IdleJob
<1> QED BY <1>1, <1>2, <1>3 DEF ReviewInvariant

LEMMA StaffStep ==
  ASSUME ReviewInvariant, NEW s \in ReviewStaff,
         \/ \E row \in RowTypes : OpenPage(s, row)
         \/ \E t \in Texts : EditPending(s, t) \/ EditVerified(s, t) \/ VerifyEdited(s, t)
         \/ Verify(s) \/ Refuse(s) \/ RejectRead(s) \/ RejectSave(s)
  PROVE  ReviewInvariant'
<1>1. ASSUME NEW row \in RowTypes, OpenPage(s, row) PROVE ReviewInvariant'
  <2>1. RevisionFor(row) \in 0 .. ReviewRevBound
    BY ReviewAssumption DEF RevisionFor, ReviewInvariant, ReviewTypeOK
  <2>2. [at |-> "open", row |-> row, shown |-> rText, rev |-> RevisionFor(row)] \in Forms
    BY <2>1 DEF Forms, ReviewInvariant, ReviewTypeOK
  <2>3. Surroundings'
    BY <1>1, <2>2
    DEF Surroundings, OnlyTranslationsAreRetried, OpenPage, RowsRest,
        ReviewInvariant, ReviewTypeOK, RowsMirror, Mirror
  <2> QED BY <1>1, <2>3, RowsRestAreSound DEF OpenPage, RowsRest
<1>2. ASSUME NEW t \in Texts, EditPending(s, t) \/ EditVerified(s, t) \/ VerifyEdited(s, t)
      PROVE  ReviewInvariant'
  <2>1. form[s] # NoForm /\ StoreText(form[s].row, t) /\ ClosePage(s) /\ job' = job
    BY <1>2 DEF EditPending, EditVerified, VerifyEdited, IsOpen
  <2>2. form[s].row \in RowTypes
    BY <2>1, OpenPageNamesARow
  <2>3. rVer' \in [RowTypes -> Verdicts]
    BY <1>2, <2>2, VerifyWrittenTyped

    DEF EditPending, EditVerified, VerifyEdited, ReviewInvariant, ReviewTypeOK,
        Verdicts
  <2>4. Surroundings'
    BY <2>1, <2>3, ClosedPagesStaySound
    DEF Surroundings, OnlyTranslationsAreRetried, ReviewInvariant, ReviewTypeOK
  <2> QED BY <2>1, <2>2, <2>4, StoredTextIsSound, InvariantFromParts
<1>3. CASE Verify(s) \/ Refuse(s) \/ RejectSave(s)
  <2>1. ClosePage(s) /\ job' = job /\ UNCHANGED <<rText, sourceRev, basedOn, madeFrom>>
    BY <1>3 DEF Verify, Refuse, RejectSave, RowsRest
  <2>2. rVer' \in [RowTypes -> Verdicts]
    BY <1>3
    DEF Verify, Refuse, RejectSave, RowsRest, ReviewInvariant, ReviewTypeOK,
        Verdicts
  <2>3. Surroundings'
    BY <2>1, <2>2, ClosedPagesStaySound
    DEF Surroundings, OnlyTranslationsAreRetried, ReviewInvariant, ReviewTypeOK
  <2> QED BY <2>1, <2>3, RowsRestAreSound
<1>4. CASE RejectRead(s)
  <2>1. form[s] \in Forms
    BY <1>4, OpenPageNamesARow DEF RejectRead, IsOpen
  <2>2. form' = [form EXCEPT ![s] = [form[s] EXCEPT !.at = "rejecting"]]
    BY <1>4 DEF RejectRead
  <2>3. /\ [form[s] EXCEPT !.at = "rejecting"] \in Forms
        /\ [form[s] EXCEPT !.at = "rejecting"].shown = form[s].shown
    BY <2>1 DEF Forms
  <2>4. Surroundings'
    BY <1>4, <2>2, <2>3
    DEF Surroundings, OnlyTranslationsAreRetried, RejectRead, IsOpen, RowsRest,
        ReviewInvariant, ReviewTypeOK, RowsMirror
  <2> QED BY <1>4, <2>4, RowsRestAreSound DEF RejectRead, RowsRest
<1> QED BY <1>1, <1>2, <1>3, <1>4

LEMMA WorkerStep ==
  ASSUME ReviewInvariant,
         \/ \E t \in Texts :
              \/ ApproveSuggestion(t)
              \/ \E u \in Texts \cup {NoText} : PersistOcr(t, u)
         \/ \E u \in Texts \cup {NoText} : PersistRetry(u)
         \/ StartOcr \/ EndJob \/ ClaimRetry
  PROVE  ReviewInvariant'
<1>1. ASSUME NEW t \in Texts, ApproveSuggestion(t) PROVE ReviewInvariant'
  <2>1. Displayed \in RowTypes
    BY DEF Displayed, RowTypes
  <2>2. Surroundings'
    BY <1>1, <2>1, VerifyWrittenTyped

    DEF Surroundings, OnlyTranslationsAreRetried, ApproveSuggestion,
        ReviewInvariant, ReviewTypeOK, RowsMirror
  <2> QED BY <1>1, <2>1, <2>2, StoredTextIsSound, InvariantFromParts
  DEF ApproveSuggestion
<1>2. ASSUME NEW t \in Texts, NEW u \in Texts \cup {NoText}, PersistOcr(t, u)
      PROVE  ReviewInvariant'
  <2> USE <1>2 DEF PersistOcr, ReviewInvariant, ReviewTypeOK, RowsMirror, IdleJob
  <2>1. CASE SomeVerified
    <3>1. Surroundings' /\ UNCHANGED <<rText, sourceRev, basedOn, madeFrom>>
      BY <2>1 DEF Surroundings, OnlyTranslationsAreRetried, RowsRest, NoText
    <3> QED BY <3>1, RowsRestAreSound
  <2>2. CASE ~ SomeVerified
    <3>1. Surroundings'
      BY <2>2 DEF Surroundings, OnlyTranslationsAreRetried, Verdicts, NoText
    <3>2. /\ rText' = [row \in RowTypes |->
                         IF ReviewHebrew \/ row = "source" THEN t ELSE u]
          /\ madeFrom' = IF ReviewHebrew \/ u = NoText THEN NoText ELSE t
          /\ basedOn' = IF ReviewHebrew \/ u = NoText THEN basedOn ELSE sourceRev
          /\ sourceRev' = sourceRev
      BY <2>2
    <3>3. /\ rText' \in [RowTypes -> Texts \cup {NoText}]
          /\ rText'["source"] = t /\ Mirror(rText')
      BY <3>2 DEF RowTypes, Mirror
    <3>4. /\ basedOn' \in 0 .. ReviewRevBound /\ basedOn' <= sourceRev'
          /\ madeFrom' \in Texts \cup {NoText}
      BY <3>2, ReviewAssumption
    <3>5. FreshTranslationIsOfItsSource'
      BY <3>2, <3>3 DEF FreshTranslationIsOfItsSource
    <3> QED BY <3>1, <3>2, <3>3, <3>4, <3>5, InvariantFromParts
  <2> QED BY <2>1, <2>2
<1>3. ASSUME NEW u \in Texts \cup {NoText}, PersistRetry(u) PROVE ReviewInvariant'
  <2> USE <1>3 DEF PersistRetry, ReviewInvariant, ReviewTypeOK, RowsMirror, IdleJob
  <2>1. ~ ReviewHebrew
    BY DEF OnlyTranslationsAreRetried
  <2>2. Surroundings'
    BY DEF Surroundings, OnlyTranslationsAreRetried, Verdicts, RowTypes, NoText
  <2>3. /\ rText' = [rText EXCEPT !["hebrew"] = u]
        /\ basedOn' = IF u = NoText THEN basedOn ELSE sourceRev
        /\ madeFrom' = IF u = NoText THEN NoText ELSE job.read
        /\ sourceRev' = sourceRev /\ job.read = rText["source"]
    BY DEF RetryMayPersist
  <2>4. rText' \in [RowTypes -> Texts \cup {NoText}] /\ rText'["source"] = rText["source"]
    BY <2>3 DEF RowTypes
  <2>5. /\ basedOn' \in 0 .. ReviewRevBound /\ basedOn' <= sourceRev'
        /\ madeFrom' \in Texts \cup {NoText}
    BY <2>3, ReviewAssumption
  <2>6. FreshTranslationIsOfItsSource'
    BY <2>3, <2>4 DEF FreshTranslationIsOfItsSource
  <2>7. Mirror(rText')
    BY <2>1 DEF Mirror
  <2> QED BY <2>2, <2>3, <2>4, <2>5, <2>6, <2>7, InvariantFromParts
<1>4. CASE StartOcr \/ EndJob \/ ClaimRetry
  <2>1. Surroundings'
    BY <1>4
    DEF Surroundings, OnlyTranslationsAreRetried, StartOcr, EndJob, ClaimRetry,
        RowsRest, ReviewInvariant, ReviewTypeOK,
                RowsMirror, IdleJob, RowTypes, NoText
  <2> QED BY <1>4, <2>1, RowsRestAreSound DEF StartOcr, EndJob, ClaimRetry, RowsRest
<1> QED BY <1>1, <1>2, <1>3, <1>4

LEMMA ReviewStep == ReviewInvariant /\ [Next_Review]_rVars => ReviewInvariant'
<1> SUFFICES ASSUME ReviewInvariant, [Next_Review]_rVars PROVE ReviewInvariant'
  OBVIOUS
<1>1. CASE UNCHANGED rVars
  BY <1>1 DEF rVars, ReviewInvariant, ReviewTypeOK, RowsMirror, Mirror,
              FreshTranslationIsOfItsSource, OnlyTranslationsAreRetried
<1>2. CASE Next_Review
  BY <1>2, StaffStep, WorkerStep DEF Next_Review
<1> QED BY <1>1, <1>2

(* Every reachable state satisfies the inductive invariant.                *)
THEOREM ReviewInvariantHolds == Spec_Review => []ReviewInvariant
BY ReviewInit, ReviewStep, PTL DEF Spec_Review

(* Type correctness of the rows, the review pages and the job.             *)
THEOREM ReviewTyped == Spec_Review => []ReviewTypeOK
<1>1. ReviewInvariant => ReviewTypeOK
  BY DEF ReviewInvariant
<1> QED BY <1>1, ReviewInvariantHolds, PTL

(* A machine translation that does not look stale translates the source    *)
(* text beside it (persist of recognition and of translation retries).     *)
THEOREM FreshTranslations == Spec_Review => []FreshTranslationIsOfItsSource
<1>1. ReviewInvariant => FreshTranslationIsOfItsSource
  BY DEF ReviewInvariant
<1> QED BY <1>1, ReviewInvariantHolds, PTL

------------------------------------------------------------------------------
(* A page that matches its baseline shows the text of its row, and on a    *)
(* Hebrew document that of the mirrored row too.                           *)
LEMMA MatchingPageShowsRows ==
  ASSUME ReviewInvariant, NEW s \in ReviewStaff, IsOpen(s), BaselineMatches(s),
         NEW row \in RowTypes, ReviewHebrew \/ row = form[s].row
  PROVE  rText[row] = form[s].shown[row]
<1>1. form[s].row \in RowTypes
  BY OpenPageNamesARow DEF IsOpen
<1>2. rText[form[s].row] = form[s].shown[form[s].row]
  BY DEF BaselineMatches
<1>3. CASE ReviewHebrew
  <2>1. Mirror(rText) /\ Mirror(form[s].shown)
    BY DEF IsOpen, ReviewInvariant, RowsMirror
  <2> QED BY <1>1, <1>2, <1>3, <2>1 DEF Mirror, RowTypes
<1> QED BY <1>2, <1>3

(* What a page that closes has written to.                                 *)
LEMMA PagesWriteTheirRows ==
  ASSUME ReviewInvariant, NEW s \in ReviewStaff, NEW row \in RowTypes,
         rText'[row] # rText[row] \/ rVer'[row] # rVer[row],
         \/ \E t \in Texts : EditPending(s, t) \/ EditVerified(s, t) \/ VerifyEdited(s, t)
         \/ Verify(s)
  PROVE  BaselineMatches(s) /\ (ReviewHebrew \/ row = form[s].row)
<1>1. rText \in [RowTypes -> Texts \cup {NoText}] /\ rVer \in [RowTypes -> Verdicts]
  BY DEF ReviewInvariant, ReviewTypeOK
<1>2. ASSUME NEW t \in Texts, EditPending(s, t) \/ EditVerified(s, t) \/ VerifyEdited(s, t)
      PROVE  BaselineMatches(s) /\ (ReviewHebrew \/ row = form[s].row)
  <2>1. BaselineMatches(s) /\ StoreText(form[s].row, t)
    BY <1>2 DEF EditPending, EditVerified, VerifyEdited
  <2>2. form[s].row \in RowTypes
    BY <1>2, OpenPageNamesARow DEF EditPending, EditVerified, VerifyEdited, IsOpen
  <2>3. ASSUME ~ ReviewHebrew, row # form[s].row PROVE FALSE
    <3>1. rText'[row] = rText[row]
      BY <1>1, <2>1, <2>2, <2>3 DEF StoreText, RowTypes
    <3>2. rVer'[row] = rVer[row]
      BY <1>1, <1>2, <2>3 DEF EditPending, EditVerified, VerifyEdited, VerifyWritten
    <3> QED BY <3>1, <3>2
  <2> QED BY <2>1, <2>3
<1>3. CASE Verify(s)
  BY <1>1, <1>3 DEF Verify
<1> QED BY <1>2, <1>3

LEMMA ReviewReplacesOnlyShown ==
  ReviewInvariant /\ [Next_Review]_rVars => [ReplacesOnlyShown]_rVars
<1> SUFFICES ASSUME ReviewInvariant, Next_Review, NEW s \in ReviewStaff,
                    IsOpen(s), form'[s] = NoForm, NEW row \in RowTypes,
                    rText'[row] # rText[row] \/ rVer'[row] # rVer[row]
             PROVE  rText[row] = form[s].shown[row]
  BY DEF ReplacesOnlyShown
<1>1. form[s] # NoForm /\ form[s].at = "open" /\ form[s] # form'[s]
  BY DEF IsOpen
<1>2. form \in [ReviewStaff -> Forms \cup {NoForm}]
  BY DEF ReviewInvariant, ReviewTypeOK
<1>3. ASSUME NEW q \in ReviewStaff,
             \/ \E r \in RowTypes : OpenPage(q, r)
             \/ RejectRead(q) \/ RejectSave(q) \/ Refuse(q)
      PROVE  FALSE
  <2>1. q = s
    BY <1>1, <1>2, <1>3 DEF OpenPage, RejectRead, RejectSave, Refuse, ClosePage
  <2> QED BY <1>1, <1>3, <2>1 DEF OpenPage, RejectRead, RejectSave, Refuse, RowsRest
<1>4. ASSUME NEW q \in ReviewStaff,
             \/ \E t \in Texts : EditPending(q, t) \/ EditVerified(q, t) \/ VerifyEdited(q, t)
             \/ Verify(q)
      PROVE  rText[row] = form[s].shown[row]
  <2>1. q = s
    BY <1>1, <1>2, <1>4 DEF EditPending, EditVerified, VerifyEdited, Verify, ClosePage
  <2> QED BY <1>4, <2>1, PagesWriteTheirRows, MatchingPageShowsRows
<1>5. form'[s] = form[s]
      \/ \E q \in ReviewStaff :
           \/ \E r \in RowTypes : OpenPage(q, r)
           \/ \E t \in Texts : EditPending(q, t) \/ EditVerified(q, t) \/ VerifyEdited(q, t)
           \/ Verify(q) \/ Refuse(q) \/ RejectRead(q) \/ RejectSave(q)
  BY DEF Next_Review, ApproveSuggestion, PersistOcr, PersistRetry, StartOcr, EndJob, ClaimRetry
<1> QED BY <1>1, <1>3, <1>4, <1>5

(* What a person replaces or verifies on a review page is what the page    *)
(* showed, in the mirrored row of a Hebrew document too.                   *)
THEOREM StaffReplaceOnlyWhatTheySaw == Spec_Review => StaffReplaceWhatTheySaw
BY ReviewInvariantHolds, ReviewReplacesOnlyShown, PTL
   DEF Spec_Review, StaffReplaceWhatTheySaw
=============================================================================
