--------------------------- MODULE CustomerLogin ---------------------------
(***************************************************************************)
(* A customer's one-time codes, sessions and tokens: CustomerAuthService   *)
(* with EmailOtpChannel, LoginLockoutService and CustomerSessionService.   *)
(*                                                                         *)
(* One customer, from one address.  A session and the tokens that open it  *)
(* are named after the request that made them; a request is split at the   *)
(* awaits between a read and the write that rests on it.                   *)
(***************************************************************************)
EXTENDS Naturals, FiniteSets

CONSTANTS
  Visit,          \* requests of the browser's tabs
  NoVisit,
  MaxAttempts,    \* LOGIN_MAX_FAILED_ATTEMPTS
  MaxCodes        \* codes sent, a bound

ASSUME LoginAssumption ==
  NoVisit \notin Visit /\ IsFiniteSet(Visit) /\ MaxAttempts \in Nat \ {0} /\ MaxCodes \in Nat

VARIABLES
  visit,       \* where each request is, the code or session it read, and the token
  code,        \* email_otp:<email>, 0 when there is none
  sent, spent, \* codes sent so far, and those deleted on use
  fails,       \* otp:fail:*
  lockedOut,   \* otp:lockout:*
  guesses,     \* wrong codes compared since the count last began
  session,     \* customer:session:<id>, as the refresh token whose hash it stores
  refresh,     \* customer:refresh:<hash>, as a session
  revoked,     \* customer:revoked:<jti>
  left         \* sessions logged out of with no rotation under way

loginVars == <<visit, code, sent, spent, fails, lockedOut, guesses, session, refresh, revoked, left>>
codeVars == <<code, sent, spent>>
lockVars == <<fails, lockedOut, guesses>>
sessionVars == <<session, refresh, revoked, left>>

Issued == {"loggedIn", "rotated"}
VisitAt(r, at) == visit[r].at = at
VisitGoes(r, at, of, by) == visit' = [visit EXCEPT ![r] = [at |-> at, of |-> of, by |-> by]]
VisitEnds(r) == VisitGoes(r, "done", 0, NoVisit)

LoginInit ==
  /\ visit = [r \in Visit |-> [at |-> "new", of |-> 0, by |-> NoVisit]]
  /\ code = 0 /\ sent = 0 /\ spent = {}
  /\ fails = 0 /\ lockedOut = FALSE /\ guesses = 0
  /\ session = [r \in Visit |-> NoVisit]
  /\ refresh = [r \in Visit |-> NoVisit]
  /\ revoked = {} /\ left = {}

-----------------------------------------------------------------------------
(* One-time codes *)

SendOtp ==
  /\ sent < MaxCodes
  /\ code' = sent + 1
  /\ sent' = sent + 1
  /\ UNCHANGED <<visit, spent, lockVars, sessionVars>>

CodeExpires ==
  /\ code # 0
  /\ code' = 0
  /\ UNCHANGED <<visit, sent, spent, lockVars, sessionVars>>

(* assert_not_locked, and the code read and compared. *)
MatchOtp(r) ==
  /\ VisitAt(r, "new") /\ ~lockedOut
  /\ code # 0
  /\ VisitGoes(r, "matched", code, NoVisit)
  /\ UNCHANGED <<codeVars, lockVars, sessionVars>>

MissOtp(r) ==
  /\ VisitAt(r, "new") /\ ~lockedOut
  /\ VisitGoes(r, "missed", 0, NoVisit)
  /\ guesses' = guesses + 1
  /\ UNCHANGED <<codeVars, fails, lockedOut, sessionVars>>

(* record_failure *)
RecordFailure(r) ==
  /\ VisitAt(r, "missed")
  /\ VisitGoes(r, "new", 0, NoVisit)
  /\ IF fails + 1 >= MaxAttempts
     THEN fails' = 0 /\ lockedOut' = TRUE
     ELSE fails' = fails + 1 /\ UNCHANGED lockedOut
  /\ UNCHANGED <<codeVars, guesses, sessionVars>>

(* The key is deleted: the code that was compared, or one sent since. *)
SpendOtp(r) ==
  /\ VisitAt(r, "matched")
  /\ VisitGoes(r, "proved", visit[r].of, NoVisit)
  /\ spent' = spent \cup {visit[r].of}
  /\ code' = 0
  /\ UNCHANGED <<sent, lockVars, sessionVars>>

(* create_session: the session and its refresh token, in one pipeline. *)
OpensSession(r) ==
  /\ session' = [session EXCEPT ![r] = r]
  /\ refresh' = [refresh EXCEPT ![r] = r]

(* record_success, the account, create_session. *)
LogIn(r) ==
  /\ VisitAt(r, "proved")
  /\ VisitGoes(r, "loggedIn", visit[r].of, r)
  /\ fails' = 0 /\ lockedOut' = FALSE /\ guesses' = 0
  /\ OpensSession(r)
  /\ UNCHANGED <<codeVars, revoked, left>>

LockoutLapses ==
  /\ lockedOut \/ fails > 0
  /\ lockedOut' = FALSE
  /\ fails' \in {0, fails}
  /\ guesses' = 0
  /\ UNCHANGED <<visit, codeVars, sessionVars>>

-----------------------------------------------------------------------------
(* Sessions *)

(* verify_access_token, of the access token a request was answered with. *)
ValidAccess(r) ==
  /\ visit[r].at \in Issued
  /\ r \notin revoked
  /\ session[visit[r].by] # NoVisit

Rotating(s) == \E r \in Visit : VisitAt(r, "rotating") /\ visit[r].by = s

(* revoke_session: the pipeline that deletes what its read found. *)
Revokes(s) ==
  IF session[s] = NoVisit THEN UNCHANGED <<session, refresh>>
  ELSE /\ session' = [session EXCEPT ![s] = NoVisit]
       /\ refresh' = [refresh EXCEPT ![session[s]] = NoVisit]

(* rotate_refresh_token up to its pipeline, on any token handed out. *)
Refresh(r, token) ==
  LET s == refresh[token] IN
  /\ VisitAt(r, "new")
  /\ visit[token].at \in Issued
  /\ IF s # NoVisit /\ session[s] = token
     THEN VisitGoes(r, "rotating", token, s) /\ UNCHANGED <<session, refresh>>
     ELSE /\ VisitEnds(r)
          /\ IF s = NoVisit THEN UNCHANGED <<session, refresh>>
             ELSE IF session[s] = NoVisit
             THEN refresh' = [refresh EXCEPT ![token] = NoVisit] /\ UNCHANGED session
             ELSE Revokes(s)
  /\ UNCHANGED <<codeVars, lockVars, revoked, left>>

(* The pipeline writes the session as it was read, with the new hash. *)
Rotate(r) ==
  /\ VisitAt(r, "rotating")
  /\ LET s == visit[r].by IN
     /\ session' = [session EXCEPT ![s] = r]
     /\ refresh' = [refresh EXCEPT ![visit[r].of] = NoVisit, ![r] = s]
     /\ VisitGoes(r, "rotated", 0, s)
  /\ UNCHANGED <<codeVars, lockVars, revoked, left>>

(* logout, by the access token, or by the refresh token alone. *)
LogOut(r, tab) ==
  LET s == IF ValidAccess(tab) THEN visit[tab].by ELSE refresh[tab] IN
  /\ VisitAt(r, "new")
  /\ visit[tab].at \in Issued
  /\ VisitEnds(r)
  /\ revoked' = IF ValidAccess(tab) THEN revoked \cup {tab} ELSE revoked
  /\ IF s = NoVisit THEN UNCHANGED <<session, refresh, left>>
     ELSE Revokes(s) /\ left' = IF Rotating(s) THEN left ELSE left \cup {s}
  /\ UNCHANGED <<codeVars, lockVars>>

LoginNext ==
  \/ SendOtp \/ CodeExpires \/ LockoutLapses
  \/ \E r \in Visit :
       \/ MatchOtp(r) \/ MissOtp(r) \/ RecordFailure(r) \/ SpendOtp(r) \/ LogIn(r)
       \/ Rotate(r)
       \/ \E t \in Visit : Refresh(r, t) \/ LogOut(r, t)

LoginSpec == LoginInit /\ [][LoginNext]_loginVars

-----------------------------------------------------------------------------
(* Properties *)

(* Codes, sessions and the requests that use them are in their types.      *)
LoginTypeOK ==
  /\ visit \in [Visit -> [at : {"new", "matched", "missed", "proved", "rotating", "done"} \cup Issued,
                          of : 0 .. MaxCodes \cup Visit, by : Visit \cup {NoVisit}]]
  /\ code \in 0 .. MaxCodes /\ sent \in 0 .. MaxCodes /\ spent \subseteq 1 .. MaxCodes
  /\ fails \in Nat /\ lockedOut \in BOOLEAN /\ guesses \in Nat
  /\ session \in [Visit -> Visit \cup {NoVisit}]
  /\ refresh \in [Visit -> Visit \cup {NoVisit}]
  /\ revoked \subseteq Visit /\ left \subseteq Visit

(* A code that was used is not accepted again: two requests can use one    *)
(* code only when both compared it before either deleted it.               *)
CodeUsedOnceUnlessRaced ==
  [][\A r \in Visit : VisitAt(r, "new") /\ visit'[r].at = "matched" => visit'[r].of \notin spent]_loginVars

(* The lockout bounds guessing: no more wrong codes are compared in a row  *)
(* than it allows, and one for each request already past its check.        *)
GuessesBounded == guesses <= MaxAttempts + Cardinality(Visit) - 1

(* Who logs out is out: none of the tokens of the session opens it again,  *)
(* unless a rotation had read the session before it was deleted.           *)
LoggedOutIsOut == \A s \in left : \A r \in Visit : visit[r].by = s => ~ValidAccess(r)
=============================================================================
