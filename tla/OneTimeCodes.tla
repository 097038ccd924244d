---------------------------- MODULE OneTimeCodes ----------------------------
(***************************************************************************)
(* The codes svc-users mails for a lost password (purpose "reset") and for *)
(* an unverified address ("verify"): table reset_codes and the handlers of *)
(* reset.go and verify.go for one account.  A handler is a few statements  *)
(* and calls without a transaction; a slot is one request in progress.     *)
(* Codes are drawn at random; two of one account are taken to differ.      *)
(* Every query filters on purpose and every UPDATE is by id, so the flows  *)
(* do not meet: a behaviour has requests, and rows, of one of them.        *)
(***************************************************************************)
EXTENDS Naturals, FiniteSets

CONSTANTS
    Code,               \* ids of rows, in the order of the sequence
    CodeSlot,           \* bound: requests served at a time
    MaxResetAttempts, MaxCodesPerHour,
    CodeTTL, CodeHour,  \* ticks
    CodesMaxNow,        \* bound: ticks the clock runs
    CodesMaxFaults      \* bound: statements and calls that fail in silence

ASSUME CodesAssumption ==
    /\ Code \subseteq Nat /\ IsFiniteSet(Code) /\ IsFiniteSet(CodeSlot)
    /\ MaxResetAttempts \in Nat \ {0} /\ MaxCodesPerHour \in Nat \ {0}
    /\ CodeTTL \in Nat /\ CodeHour \in Nat

VARIABLES
    flow,          \* purpose: never changes
    codes,         \* codes[c]: the row, or NoCode
    codesNow,      \* clock
    codeSlot,      \* codeSlot[s]: what the handler holds
    verified,      \* email_verified of the account, in auth
    wrongGuesses,  \* kept for the properties: comparisons that failed,
    applied,       \* how often a code took effect,
    unmarked,      \* codes that took effect and were not marked used,
    raced,         \* codes read while another request was using them,
    uncounted      \* faults so far: each leaves one count too low

codesVars == <<flow, codes, codesNow, codeSlot, verified, wrongGuesses, applied,
               unmarked, raced, uncounted>>

Purposes == {"reset", "verify"}
NoCode   == [born |-> "never"]
FreeSlot     == [at |-> "free"]

CodeRows == { c \in Code : codes[c] # NoCode }

\* created_at > now() - interval '1 hour'
RecentCodes == { c \in CodeRows : codes[c].born + CodeHour > codesNow }

\* Mutant: the query takes used codes as well.
UsableCodes_Used == { c \in CodeRows : codesNow < codes[c].born + CodeTTL }

\* purpose=.. AND NOT used AND expires_at > now()
UsableCodes == { c \in CodeRows : ~codes[c].used /\ codesNow < codes[c].born + CodeTTL }

\* ORDER BY id DESC LIMIT 1
NewestOf(S) == { c \in S : \A d \in S : d <= c }

\* callService, callNotify: done, not done, or done with the answer lost.
CallOutcomes == {"done", "failed", "unanswered"}

CodeInUse(s, c) == codeSlot[s].at \in {"right", "applied"} /\ codeSlot[s].code = c

-----------------------------------------------------------------------------
CodesInit ==
    /\ flow \in Purposes
    /\ codes = [c \in Code |-> NoCode]
    /\ codesNow = 0
    /\ codeSlot = [s \in CodeSlot |-> FreeSlot]
    /\ verified = FALSE
    /\ wrongGuesses = [c \in Code |-> 0]
    /\ applied = [c \in Code |-> 0]
    /\ unmarked = {} /\ raced = {}
    /\ uncounted = 0

\* A statement whose error the code drops.
SilentFault == uncounted < CodesMaxFaults /\ uncounted' = uncounted + 1

LeaveCode(s) == codeSlot' = [codeSlot EXCEPT ![s] = FreeSlot]

\* Mutant: the limit is compared with <=.
AskForCode_OffByOne(s) ==
    /\ codeSlot[s] = FreeSlot
    /\ flow = "verify" => ~verified
    /\ Cardinality(RecentCodes) <= MaxCodesPerHour
    /\ codeSlot' = [codeSlot EXCEPT ![s] = [at |-> "counted"]]
    /\ UNCHANGED <<flow, codes, codesNow, verified, wrongGuesses, applied, unmarked, raced, uncounted>>

\* handleForgot and handleVerifySend up to SELECT count(*); an error counts as
\* none.  The lookup of verified, before it, is taken to happen with it.
AskForCode(s) ==
    /\ codeSlot[s] = FreeSlot
    /\ flow = "verify" => ~verified
    /\ \/ Cardinality(RecentCodes) < MaxCodesPerHour /\ UNCHANGED uncounted
       \/ SilentFault
    /\ codeSlot' = [codeSlot EXCEPT ![s] = [at |-> "counted"]]
    /\ UNCHANGED <<flow, codes, codesNow, verified, wrongGuesses, applied, unmarked, raced>>

\* INSERT INTO reset_codes and the mail; nothing of it if lookup or INSERT fails.
StoreCode(s) ==
    /\ codeSlot[s].at = "counted"
    /\ \/ \E c \in Code \ CodeRows :
            /\ \A d \in Code \ CodeRows : c <= d
            /\ codes' = [codes EXCEPT ![c] =
                  [born |-> codesNow, attempts |-> 0, used |-> FALSE]]
       \/ UNCHANGED codes
    /\ LeaveCode(s)
    /\ UNCHANGED <<flow, codesNow, verified, wrongGuesses, applied, unmarked, raced, uncounted>>

\* handleReset, handleVerifyConfirm: the newest usable row and the comparison.
SubmitCode(s, right) ==
    /\ codeSlot[s] = FreeSlot
    /\ \E c \in NewestOf(UsableCodes) :
        /\ codes[c].attempts < MaxResetAttempts
        /\ codeSlot' = [codeSlot EXCEPT ![s] =
                          [at |-> IF right THEN "right" ELSE "wrong", code |-> c]]
        /\ wrongGuesses' = IF right THEN wrongGuesses ELSE [wrongGuesses EXCEPT ![c] = @ + 1]
        /\ raced' = IF \E other \in CodeSlot : CodeInUse(other, c) THEN raced \cup {c} ELSE raced
    /\ UNCHANGED <<flow, codes, codesNow, verified, applied, unmarked, uncounted>>

\* UPDATE ... SET attempts=attempts+1; its error is dropped.
CountGuess(s) ==
    /\ codeSlot[s].at = "wrong"
    /\ \/ /\ codes' = [codes EXCEPT ![codeSlot[s].code].attempts = @ + 1]
          /\ UNCHANGED uncounted
       \/ SilentFault /\ UNCHANGED codes
    /\ LeaveCode(s)
    /\ UNCHANGED <<flow, codesNow, verified, wrongGuesses, applied, unmarked, raced>>

\* set-password or set-email-verified in auth.
ApplyCode(s, outcome) ==
    /\ codeSlot[s].at = "right"
    /\ LET c == codeSlot[s].code
           effective == outcome # "failed"
       IN  /\ verified' = (verified \/ (effective /\ flow = "verify"))
           /\ applied' = IF effective THEN [applied EXCEPT ![c] = @ + 1] ELSE applied
           /\ unmarked' = IF outcome = "unanswered" THEN unmarked \cup {c} ELSE unmarked
    /\ IF outcome = "done" THEN codeSlot' = [codeSlot EXCEPT ![s].at = "applied"] ELSE LeaveCode(s)
    /\ IF outcome = "unanswered" THEN SilentFault ELSE UNCHANGED uncounted
    /\ UNCHANGED <<flow, codes, codesNow, wrongGuesses, raced>>

\* UPDATE ... SET used=true; its error is dropped.
MarkUsed(s) ==
    /\ codeSlot[s].at = "applied"
    /\ \/ /\ codes' = [codes EXCEPT ![codeSlot[s].code].used = TRUE]
          /\ UNCHANGED <<unmarked, uncounted>>
       \/ SilentFault /\ unmarked' = unmarked \cup {codeSlot[s].code} /\ UNCHANGED codes
    /\ LeaveCode(s)
    /\ UNCHANGED <<flow, codesNow, verified, wrongGuesses, applied, raced>>

CodesTick ==
    /\ codesNow < CodesMaxNow
    /\ codesNow' = codesNow + 1
    /\ UNCHANGED <<flow, codes, codeSlot, verified, wrongGuesses, applied, unmarked, raced, uncounted>>

\* The four handlers, each for its own purpose.
HandleForgot(s) == flow = "reset" /\ (AskForCode(s) \/ StoreCode(s))
HandleVerifySend(s) == flow = "verify" /\ (AskForCode(s) \/ StoreCode(s))

ConfirmCode(s) ==
    \/ \E right \in BOOLEAN : SubmitCode(s, right)
    \/ \E outcome \in CallOutcomes : ApplyCode(s, outcome)
    \/ CountGuess(s) \/ MarkUsed(s)
HandleReset(s) == flow = "reset" /\ ConfirmCode(s)
HandleVerifyConfirm(s) == flow = "verify" /\ ConfirmCode(s)

CodesNext ==
    \/ \E s \in CodeSlot :
        HandleForgot(s) \/ HandleVerifySend(s) \/ HandleReset(s) \/ HandleVerifyConfirm(s)
    \/ CodesTick

-----------------------------------------------------------------------------
\* The limits of codes in an hour and of guesses at a code (reset.go:27-28) are
\* read before they are used, so requests served at once overshoot them: by no
\* more than their number less one, and by what statements failed in silence.
LimitsHold ==
    LET slack == Cardinality(CodeSlot) - 1 + uncounted
    IN  /\ \A c \in Code : wrongGuesses[c] <= MaxResetAttempts + slack
        /\ Cardinality(RecentCodes) <= MaxCodesPerHour + slack

\* A code takes effect once, unless a second request read it before the first
\* had marked it, or it took effect and the mark failed (reset.go:166-174).
CodeSpentOnce == \A c \in Code : applied[c] > 1 => c \in raced \cup unmarked

\* Both, for the handlers together (reset.go:99, 156, 174; verify.go:78, 120, 137).
CodesHold == LimitsHold /\ CodeSpentOnce
=============================================================================
