--------------------------- MODULE GeminiPageCalls ---------------------------
(***************************************************************************)
(* The provider calls that one claimed page may spend: the candidate       *)
(* models of its route, the retries of one model inside its call window,   *)
(* the token-cap ladder, and what follows a failed full page (OpenAI for   *)
(* Hebrew print, or two crops with one Latin region).                      *)
(*                                                                         *)
(* One action is one provider answer and what the adapter makes of it.     *)
(***************************************************************************)
EXTENDS Naturals

CONSTANTS
  GeminiModelCount, \* bound: candidate models of a route
  GeminiStartCap,   \* max_output_tokens of the worker
  GeminiHardCap     \* max_output_tokens_hard_cap of the worker

ASSUME GeminiCapsAssumption ==
  /\ GeminiModelCount \in Nat \ {0}
  /\ GeminiStartCap \in Nat /\ GeminiHardCap \in Nat
  /\ 0 < GeminiStartCap /\ GeminiStartCap <= GeminiHardCap

VARIABLE gc \* the page: its route, call window, caps and counted calls; plain says
            \* that the model was retried for another reason than its token cap

(* english_handwritten and hebrew_printed share the RECITATION fallback;   *)
(* primary_then_36 is English and French print and French and Hebrew MIXED.*)
PageRoutes == {"default", "english_handwritten", "hebrew_printed", "hebrew_general",
               "primary_then_36"}
RecitationRoutes == {"english_handwritten", "hebrew_printed"}
FallbackRoutes == PageRoutes \ {"default"}

PageMaxProviderCalls == 3
MinEscalatedOutputTokens == 8192

(* "blank" is a well-formed answer whose text is empty; "LIMIT_0" a quota   *)
(* refusal that says the limit is 0.                                       *)
ResponseErrors == {"MAX_TOKENS", "EMPTY_RESPONSE", "JSON_PARSE", "RECITATION", "PERMANENT"}
QuotaErrors == {"QUOTA", "LIMIT_0"}
Answers == {"text", "blank", "API_ERROR"} \cup ResponseErrors \cup QuotaErrors

(* The call window of a candidate: how many calls it may make and how many *)
(* of them a token-cap escalation may not use.                             *)
MaxCalls(route, model, left) ==
  IF route = "hebrew_general" /\ model = 1 THEN 1 ELSE left

(* Mutant of ReservedCalls: the escalation may spend the whole budget. *)
NoReserve(route, model, models, left) == 0

ReservedCalls(route, model, models, left) ==
  IF route = "primary_then_36" /\ model = 1 /\ models > 1 /\ left > 1 THEN 1 ELSE 0

Candidate(c, model, left, cap) ==
  [c EXCEPT !.pc = "call", !.model = model, !.left = left, !.cap = cap, !.start = cap,
            !.tries = 0, !.plain = FALSE, !.max = MaxCalls(c.route, model, left),
            !.reserve = ReservedCalls(c.route, model, c.models, left)]

NewPage(route, models, openai) ==
  Candidate([route |-> route, models |-> models, openai |-> openai, pc |-> "call",
             model |-> 1, left |-> PageMaxProviderCalls, tries |-> 0,
             plain |-> FALSE, max |-> 1, reserve |-> 0, cap |-> GeminiStartCap,
             start |-> GeminiStartCap, last |-> "none", calls |-> 0, extra |-> 0, crop |-> 0, hebrew |-> FALSE],
            1, PageMaxProviderCalls, GeminiStartCap)

Init_Calls ==
  \E route \in PageRoutes, models \in 1..GeminiModelCount :
    \E openai \in IF route = "hebrew_printed" THEN BOOLEAN ELSE {FALSE} :
      gc = NewPage(route, models, openai)

-----------------------------------------------------------------------------
(* Inside transcribe_pages_with_gemini. *)

(* Mutant of NextCap: the hard cap is only looked at before it grows. *)
GrownCap(cap) ==
  IF cap >= GeminiHardCap THEN 0
  ELSE IF cap < MinEscalatedOutputTokens THEN MinEscalatedOutputTokens ELSE cap * 2

(* _next_max_output_tokens_cap; 0 when the cap cannot grow. *)
NextCap(cap) ==
  LET grown == IF cap < MinEscalatedOutputTokens THEN MinEscalatedOutputTokens ELSE cap * 2
      next == IF grown < GeminiHardCap THEN grown ELSE GeminiHardCap
  IN IF next <= cap THEN 0 ELSE next

(* Mutant of Retries: the window is not asked. *)
RetriesAlways(c, answer) ==
  answer \in {"EMPTY_RESPONSE", "JSON_PARSE", "QUOTA"}

Retries(c, answer) ==
  \/ /\ answer = "MAX_TOKENS"
     /\ c.max - (c.tries + 1) > c.reserve
     /\ NextCap(c.cap) # 0
  \/ /\ answer \in {"EMPTY_RESPONSE", "JSON_PARSE", "QUOTA"}
     /\ c.tries + 1 < c.max

RetryCap(c, answer) == IF answer = "MAX_TOKENS" THEN NextCap(c.cap) ELSE c.cap

SpendCall(answer) == [gc EXCEPT !.calls = @ + 1, !.tries = @ + 1, !.last = answer]

RetrySameModel ==
  \E answer \in Answers :
    /\ gc.pc = "call"
    /\ Retries(gc, answer)
    /\ gc' = [SpendCall(answer) EXCEPT !.cap = RetryCap(gc, answer),
                                       !.plain = @ \/ answer # "MAX_TOKENS"]

(* The page is persisted; a blank text is refused and settles as a failure. *)
PageAnswered ==
  /\ gc.pc = "call"
  /\ \/ gc' = [SpendCall("text") EXCEPT !.pc = "succeeded"]
     \/ gc' = [SpendCall("blank") EXCEPT !.pc = "failed"]

-----------------------------------------------------------------------------
(* After the engine raised: the decision of _execute_claimed_page.         *)

(* Mutant of CallsUsed: a failed candidate is charged one call. *)
OneCall(c, answer) == 1

(* _provider_calls_used: only an API error hides the retries before it. *)
CallsUsed(c, answer) == IF answer = "API_ERROR" THEN 1 ELSE c.tries + 1

LeftAfter(c, answer) ==
  IF CallsUsed(c, answer) > c.left THEN 0 ELSE c.left - CallsUsed(c, answer)

HasNextModel(c) == c.model < c.models

(* _is_quota_error looks for "429" and "QUOTA" in the text of the error,   *)
(* and the text of a response error contains its token counts: 1429 tokens *)
(* make it look like a quota refusal.                                      *)
LooksLikeQuota(answer, counts429) ==
  answer \in QuotaErrors \/ (answer \in ResponseErrors /\ counts429)

QuotaTakesNext(c, answer) ==
  /\ HasNextModel(c)
  /\ c.route # "primary_then_36"
  /\ c.route = "default" \/ LeftAfter(c, answer) > 0

FallbackCodes(route) ==
  CASE route \in RecitationRoutes -> {"RECITATION"}
    [] route \in {"hebrew_general", "primary_then_36"} -> {"MAX_TOKENS", "RECITATION"}
    [] OTHER -> {}

CodeTakesNext(c, answer) ==
  /\ answer \in FallbackCodes(c.route)
  /\ HasNextModel(c)
  /\ LeftAfter(c, answer) > 0

(* A quota refusal ends the page unless the route is primary_then_36,      *)
(* which goes on to look at the failure code.                              *)
Decision(c, answer, counts429) ==
  LET quota == LooksLikeQuota(answer, counts429)
  IN IF quota /\ QuotaTakesNext(c, answer) THEN "next_after_quota"
     ELSE IF quota /\ c.route # "primary_then_36" THEN "exhausted"
     ELSE IF CodeTakesNext(c, answer) THEN "next_after_code"
     ELSE "settle"

Raised(answer) == gc.pc = "call" /\ answer \notin {"text", "blank"} /\ ~Retries(gc, answer)

(* The default route gives the next model a fresh budget and cap; the      *)
(* others hand on what is left. A failure code hands on the grown cap.     *)
TakeNextModel ==
  \E answer \in Answers, counts429 \in BOOLEAN :
    /\ Raised(answer)
    /\ \/ /\ Decision(gc, answer, counts429) = "next_after_quota"
          /\ gc' = IF gc.route = "default"
                   THEN Candidate(SpendCall(answer), gc.model + 1,
                                  PageMaxProviderCalls, GeminiStartCap)
                   ELSE Candidate(SpendCall(answer), gc.model + 1,
                                  LeftAfter(gc, answer), gc.start)
       \/ /\ Decision(gc, answer, counts429) = "next_after_code"
          /\ gc' = Candidate(SpendCall(answer), gc.model + 1,
                             LeftAfter(gc, answer), gc.cap)

(* Only the last candidate's RECITATION starts the crops, and only while   *)
(* the OpenAI fallback is off; the plan may find no two crops.             *)
StartsCrops(c, answer, decision) ==
  /\ decision = "settle"
  /\ c.route = "hebrew_printed" /\ ~c.openai
  /\ answer = "RECITATION" /\ ~HasNextModel(c)

SettleFullPage ==
  \E answer \in Answers, counts429 \in BOOLEAN :
    LET decision == Decision(gc, answer, counts429)
    IN /\ Raised(answer)
       /\ decision \in {"exhausted", "settle"}
       /\ \/ gc.openai /\ answer \in ResponseErrors
             /\ gc' = [SpendCall(answer) EXCEPT !.pc = "openai"]
          \/ StartsCrops(gc, answer, decision)
             /\ gc' = [SpendCall(answer) EXCEPT !.pc = "crop", !.crop = 1, !.model = 1]
          \/ ~(gc.openai /\ answer \in ResponseErrors)
             /\ gc' = [SpendCall(answer) EXCEPT !.pc = "failed"]

(* _transcribe_hebrew_printed_openai_page: one call, or none when the      *)
(* worker has no key or model configured.                                  *)
OpenAIPage ==
  /\ gc.pc = "openai"
  /\ \E pc \in {"succeeded", "failed"}, spent \in {0, 1} :
       /\ pc = "succeeded" => spent = 1
       /\ gc' = [gc EXCEPT !.pc = pc, !.extra = @ + spent]

-----------------------------------------------------------------------------
(* _recover_hebrew_printed_recitation_crops: one call per model and crop.  *)

CropText ==
  /\ gc.pc = "crop"
  /\ \/ /\ gc.crop = 1
        /\ \E hebrew \in BOOLEAN :
             gc' = [gc EXCEPT !.extra = @ + 1, !.crop = 2, !.model = 1, !.hebrew = hebrew]
     \/ /\ gc.crop = 2
        /\ \E pc \in {"succeeded", "failed"} : gc' = [gc EXCEPT !.extra = @ + 1, !.pc = pc]

CropNextModel ==
  /\ gc.pc = "crop"
  /\ HasNextModel(gc)
  /\ gc' = [gc EXCEPT !.extra = @ + 1, !.model = @ + 1]

(* The Latin probe needs a Hebrew text of an earlier crop to keep. *)
LatinRegionIsOpen(c) == c.crop = 2 /\ c.hebrew

CropFails ==
  /\ gc.pc = "crop"
  /\ \/ gc' = [gc EXCEPT !.extra = @ + 1, !.pc = "failed"]
     \/ /\ ~HasNextModel(gc)
        /\ LatinRegionIsOpen(gc)
        /\ gc' = [gc EXCEPT !.extra = @ + 1, !.pc = "latin"]

LatinRegion ==
  /\ gc.pc = "latin"
  /\ \/ gc' = [gc EXCEPT !.extra = @ + 1, !.pc = "failed"]
     \/ /\ gc.crop = 2
        /\ gc' = [gc EXCEPT !.extra = @ + 1, !.pc = "succeeded"]
     \/ /\ gc.crop = 1
        /\ gc' = [gc EXCEPT !.extra = @ + 1, !.pc = "crop", !.crop = 2, !.model = 1]

Next_Calls ==
  \/ RetrySameModel \/ PageAnswered \/ TakeNextModel \/ SettleFullPage \/ OpenAIPage
  \/ CropText \/ CropNextModel \/ CropFails \/ LatinRegion

Spec_Calls == Init_Calls /\ [][Next_Calls]_gc

-----------------------------------------------------------------------------
(* Properties *)

CallsTypeOK ==
  gc \in [route : PageRoutes, models : 1..GeminiModelCount, openai : BOOLEAN,
          pc : {"call", "openai", "crop", "latin", "succeeded", "failed"},
          model : 1..GeminiModelCount, left : 0..PageMaxProviderCalls,
          tries : 0..PageMaxProviderCalls, plain : BOOLEAN, max : 1..PageMaxProviderCalls,
          reserve : {0, 1}, cap : 1..GeminiHardCap, start : 1..GeminiHardCap,
          last : Answers \cup {"none"}, calls : Nat, extra : Nat, crop : 0..2,
          hebrew : BOOLEAN]

(* The page budget: a route with a fallback never asks Gemini for the full *)
(* page more than three times in all, whatever is retried, reset or        *)
(* misread as a quota refusal; the default route gives each model three.   *)
(* The crops cost at most two calls per model and one Latin region. Every  *)
(* window handed to the engine is one it accepts, so no page fails with    *)
(* the ValueError of transcribe_pages_with_gemini: the candidate may call, *)
(* its window ends inside the page budget, its reserve is smaller.         *)
PageBudgetHolds ==
  /\ gc.calls <= IF gc.route \in FallbackRoutes THEN PageMaxProviderCalls
                 ELSE PageMaxProviderCalls * gc.models
  /\ gc.extra <= 2 * gc.models + 1
  /\ gc.pc = "call" =>
       /\ gc.tries < gc.max
       /\ (PageMaxProviderCalls - gc.left) + gc.max <= PageMaxProviderCalls
       /\ gc.reserve < gc.max

(* A page that the first model truncates or recites is not given up by    *)
(* token-cap retries: on the routes with a 3.6 fallback the second model   *)
(* gets a call, unless plain retries (blank or malformed answers, quota    *)
(* refusals) already spent the budget of three.                            *)
FallbackIsTried ==
  /\ gc.pc = "failed" /\ gc.route \in {"hebrew_general", "primary_then_36"}
  /\ gc.model = 1 /\ gc.models > 1 /\ gc.last \in {"MAX_TOKENS", "RECITATION"}
  => gc.plain /\ gc.calls = PageMaxProviderCalls
=============================================================================
