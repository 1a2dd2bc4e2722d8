---------------------------- MODULE AdminAccess ----------------------------
(***************************************************************************)
(* One admin account under the root admin's hands: AdminUserService,       *)
(* AdminAuthService, AdminSessionService and the rules of abac.            *)
(*                                                                         *)
(* An authenticator's secret is a number; the invite that carries it is    *)
(* named after it.  A session, and the tokens that open it, are named      *)
(* after the request that made them, as in CustomerLogin.                  *)
(***************************************************************************)
EXTENDS Naturals, FiniteSets

CONSTANTS
  Call,          \* requests of the admin and of the root admin
  NoCall,
  Scope,         \* AdminPermission
  MaxSecrets     \* invites issued, a bound

ASSUME AdminAssumption ==
  NoCall \notin Call /\ IsFiniteSet(Scope) /\ Scope # {} /\ MaxSecrets \in Nat

VARIABLES
  admin,       \* admin_users: [status, totp, scopes]
  invites,     \* admin:invite:<token>, by the secret it carries
  issued,      \* secrets issued so far
  confirming,  \* secrets whose invite some confirmation has read, and not deleted
  call,        \* where each request is, what it read, and its token's scopes
  adminSession,\* admin:session:<id>, as the refresh token whose hash it stores
  adminRefresh,\* admin:refresh:<hash>, as a session
  listed,      \* admin:user_sessions:<email>
  retired,     \* secrets enrolled once and taken back with no confirmation under way
  barred,      \* calls begun since the account was deactivated
  rescoped     \* calls begun since its scopes were last set

accountVars == <<admin, invites, issued, confirming, retired>>
adminVars == <<accountVars, call, adminSession, adminRefresh, listed, barred, rescoped>>

NewCall == [at |-> "new", of |-> 0, by |-> NoCall, list |-> {}, scopes |-> {}]
CallAt(r, at) == call[r].at = at
New == {r \in Call : CallAt(r, "new")}
CallGoes(r, at) == call' = [call EXCEPT ![r].at = at]
CallReads(r, at, of, by) == call' = [call EXCEPT ![r] = [NewCall EXCEPT !.at = at, !.of = of, !.by = by,
                                                     !.scopes = admin.scopes]]
CallEnds(r) == call' = [call EXCEPT ![r] = [NewCall EXCEPT !.at = "done"]]
Answered == {"loggedIn", "refreshed"}

AdminInit ==
  /\ admin = [status |-> "none", totp |-> 0, scopes |-> {}]
  /\ invites = {} /\ issued = 0 /\ confirming = {} /\ retired = {}
  /\ call = [r \in Call |-> NewCall]
  /\ adminSession = [r \in Call |-> NoCall]
  /\ adminRefresh = [r \in Call |-> NoCall]
  /\ listed = {} /\ barred = {} /\ rescoped = {}

-----------------------------------------------------------------------------
(* The account.  These are the root admin's, and one write each: none has  *)
(* a filter but the account, none looks at the status it finds.            *)

Invites == issued < MaxSecrets /\ issued' = issued + 1 /\ invites' = invites \cup {issued + 1}

CreateInvite(scopes) ==
  /\ admin.status = "none"
  /\ admin' = [status |-> "invited", totp |-> 0, scopes |-> scopes]
  /\ Invites
  /\ UNCHANGED <<confirming, retired, call, adminSession, adminRefresh, listed, barred, rescoped>>

(* The sessions stay, and so do the invites issued before. *)
RegenerateTotp ==
  /\ admin.status # "none"
  /\ admin' = [admin EXCEPT !.status = "invited", !.totp = 0]
  /\ Invites
  /\ retired' = retired \cup ({admin.totp} \ (confirming \cup {0}))
  /\ barred' = {}
  /\ UNCHANGED <<confirming, call, adminSession, adminRefresh, listed, rescoped>>

Reactivate ==
  /\ admin.status # "none"
  /\ admin' = [admin EXCEPT !.status = IF admin.totp # 0 THEN "active" ELSE "invited"]
  /\ barred' = {}
  /\ UNCHANGED <<invites, issued, confirming, retired, call, adminSession, adminRefresh, listed, rescoped>>

SetScopes(scopes) ==
  /\ admin.status # "none"
  /\ admin' = [admin EXCEPT !.scopes = scopes]
  /\ rescoped' = New
  /\ UNCHANGED <<invites, issued, confirming, retired, call, adminSession, adminRefresh, listed, barred>>

(* confirm_enrollment: the invite is read; the code proves its secret, and *)
(* an account that is not invited is left alone; the invite goes last.     *)
GetInvite(s) ==
  /\ s \in invites \ confirming
  /\ confirming' = confirming \cup {s}
  /\ UNCHANGED <<admin, invites, issued, retired, call, adminSession, adminRefresh, listed, barred, rescoped>>

ConfirmEnrollment(s) ==
  /\ s \in confirming
  /\ admin.status = "invited"
  /\ admin' = [admin EXCEPT !.status = "active", !.totp = s]
  /\ UNCHANGED <<invites, issued, confirming, retired, call, adminSession, adminRefresh, listed, barred, rescoped>>

(* Another request may be confirming it still. *)
InviteUsed(s) ==
  /\ s \in confirming
  /\ invites' = invites \ {s}
  /\ confirming' \in {confirming, confirming \ {s}}
  /\ UNCHANGED <<admin, issued, retired, call, adminSession, adminRefresh, listed, barred, rescoped>>

InviteExpires(s) ==
  /\ s \in invites
  /\ invites' = invites \ {s}
  /\ UNCHANGED <<admin, issued, confirming, retired, call, adminSession, adminRefresh, listed, barred, rescoped>>

-----------------------------------------------------------------------------
(* Sessions *)

AdminRevokes(S) ==
  LET live == {s \in S : adminSession[s] # NoCall} IN
  /\ adminSession' = [s \in Call |-> IF s \in live THEN NoCall ELSE adminSession[s]]
  /\ adminRefresh' = [t \in Call |-> IF \E s \in live : adminSession[s] = t
                                     THEN NoCall ELSE adminRefresh[t]]

(* The route: the status, and then revoke_all_user_sessions, which lists   *)
(* the sessions, ends each, and deletes the list as it is by then.         *)
Deactivate(r) ==
  /\ CallAt(r, "new")
  /\ admin.status # "none"
  /\ admin' = [admin EXCEPT !.status = "deactivated"]
  /\ CallGoes(r, "deactivated")
  /\ barred' = New \ {r}
  /\ UNCHANGED <<invites, issued, confirming, retired, adminSession, adminRefresh, listed, rescoped>>

ListSessions(r) ==
  /\ \/ CallAt(r, "deactivated")
     \/ CallAt(r, "new") /\ admin.status # "none"
  /\ call' = [call EXCEPT ![r].at = "revoking", ![r].list = listed]
  /\ UNCHANGED <<accountVars, adminSession, adminRefresh, listed, barred, rescoped>>

RevokeAllUserSessions(r) ==
  /\ CallAt(r, "revoking")
  /\ AdminRevokes(call[r].list)
  /\ listed' = {}
  /\ CallEnds(r)
  /\ UNCHANGED <<accountVars, barred, rescoped>>

(* logout, and the root admin's revocation of one session *)
RevokeSession(r, s) ==
  /\ CallAt(r, "new")
  /\ adminSession[s] # NoCall
  /\ AdminRevokes({s})
  /\ listed' = listed \ {s}
  /\ CallEnds(r)
  /\ UNCHANGED <<accountVars, barred, rescoped>>

-----------------------------------------------------------------------------
(* Login and refresh *)

(* authenticate_passwordless reads the account; verify_totp_login reads it *)
(* again; the session and its token have the scopes of the first read.     *)
Authenticate(r, s) ==
  /\ CallAt(r, "new")
  /\ admin.status = "active"
  /\ s \in 1 .. issued
  /\ CallReads(r, "known", s, r)
  /\ UNCHANGED <<accountVars, adminSession, adminRefresh, listed, barred, rescoped>>

VerifyTotpLogin(r) ==
  /\ CallAt(r, "known")
  /\ IF admin.status = "active" /\ admin.totp = call[r].of THEN CallGoes(r, "verified") ELSE CallEnds(r)
  /\ UNCHANGED <<accountVars, adminSession, adminRefresh, listed, barred, rescoped>>

CreateSession(r) ==
  /\ CallAt(r, "verified")
  /\ adminSession' = [adminSession EXCEPT ![r] = r]
  /\ adminRefresh' = [adminRefresh EXCEPT ![r] = r]
  /\ listed' = listed \cup {r}
  /\ call' = [call EXCEPT ![r].at = "loggedIn", ![r].of = 0]
  /\ UNCHANGED <<accountVars, barred, rescoped>>

(* rotate_refresh_token: what it reads, and its pipeline. *)
AdminRefresh(r, token) ==
  LET s == adminRefresh[token] IN
  /\ CallAt(r, "new")
  /\ s # NoCall
  /\ IF adminSession[s] = token
     THEN /\ call' = [call EXCEPT ![r].at = "rotating", ![r].of = token, ![r].by = s]
          /\ UNCHANGED <<adminSession, adminRefresh, listed>>
     ELSE /\ CallEnds(r)
          /\ IF adminSession[s] = NoCall
             THEN /\ adminRefresh' = [adminRefresh EXCEPT ![token] = NoCall]
                  /\ UNCHANGED <<adminSession, listed>>
             ELSE AdminRevokes({s}) /\ listed' = listed \ {s}
  /\ UNCHANGED <<accountVars, barred, rescoped>>

AdminRotate(r) ==
  /\ CallAt(r, "rotating")
  /\ adminSession' = [adminSession EXCEPT ![call[r].by] = r]
  /\ adminRefresh' = [adminRefresh EXCEPT ![call[r].of] = NoCall, ![r] = call[r].by]
  /\ CallGoes(r, "rereading")
  /\ UNCHANGED <<accountVars, listed, barred, rescoped>>

(* (RefreshUnchecked: a mutant that does not look at the status.)          *)
RefreshUnchecked(r) ==
  /\ CallAt(r, "rereading")
  /\ CallReads(r, "refreshed", 0, call[r].by)
  /\ UNCHANGED <<accountVars, adminSession, adminRefresh, listed, barred, rescoped>>

(* refresh reads the account again, for its status and its scopes. *)
Reread(r) ==
  /\ CallAt(r, "rereading")
  /\ IF admin.status = "active"
     THEN CallReads(r, "refreshed", 0, call[r].by) /\ UNCHANGED <<adminSession, adminRefresh, listed>>
     ELSE /\ AdminRevokes({call[r].by}) /\ listed' = listed \ {call[r].by}
          /\ CallEnds(r)
  /\ UNCHANGED <<accountVars, barred, rescoped>>

AdminNext ==
  \/ \E scopes \in SUBSET Scope : CreateInvite(scopes) \/ SetScopes(scopes)
  \/ RegenerateTotp \/ Reactivate
  \/ \E r \in Call :
       \/ Deactivate(r) \/ ListSessions(r) \/ RevokeAllUserSessions(r)
       \/ VerifyTotpLogin(r) \/ CreateSession(r) \/ AdminRotate(r) \/ Reread(r)
       \/ \E s \in 1 .. issued : Authenticate(r, s)
       \/ \E s \in Call : RevokeSession(r, s) \/ AdminRefresh(r, s)
  \/ \E s \in 1 .. issued : GetInvite(s) \/ ConfirmEnrollment(s) \/ InviteUsed(s) \/ InviteExpires(s)

AdminSpec == AdminInit /\ [][AdminNext]_adminVars

-----------------------------------------------------------------------------
(* Properties *)

(* The admin, the secrets given out and the sessions are in their types.   *)
AdminTypeOK ==
  /\ admin \in [status : {"none", "invited", "active", "deactivated"}, totp : 0 .. MaxSecrets,
                scopes : SUBSET Scope]
  /\ invites \subseteq 1 .. issued /\ issued \in 0 .. MaxSecrets
  /\ confirming \subseteq 1 .. issued /\ retired \subseteq 1 .. issued
  /\ \A r \in Call : call[r].scopes \subseteq Scope /\ call[r].by \in Call \cup {NoCall}
  /\ adminSession \in [Call -> Call \cup {NoCall}]
  /\ adminRefresh \in [Call -> Call \cup {NoCall}]
  /\ listed \subseteq Call /\ barred \subseteq Call /\ rescoped \subseteq Call

(* A deactivated admin gets no token: whatever session survives the        *)
(* deactivation (a login or a rotation under way writes one after the list *)
(* was read), no login or refresh that begins later is answered with one.  *)
DeactivatedGetNoToken == \A r \in barred : call[r].at \notin Answered

(* A change of scopes reaches every token asked for after it, those of     *)
(* older sessions included.                                                *)
ScopesReachTokens ==
  \A r \in rescoped : call[r].at = "refreshed" => call[r].scopes = admin.scopes

(* An authenticator that was enrolled and then replaced is never the       *)
(* account's again, unless a confirmation had read its invite by then.     *)
RetiredSecretStaysOut == admin.totp \notin retired
=============================================================================
