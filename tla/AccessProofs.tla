---------------------------- MODULE AccessProofs ----------------------------
(* Proofs about the four components of MCAccess: each has an invariant of  *)
(* its own, kept by its steps and by the others' (which leave its          *)
(* variables alone), and the invariant of a behaviour is the four of them. *)
EXTENDS MCAccess, FiniteSetTheorems, TLAPS

-----------------------------------------------------------------------------
(* Admin accounts *)

CallPlaces == {"new", "done", "deactivated", "revoking", "known", "verified", "loggedIn",
               "rotating", "rereading", "refreshed"}
SecretOrToken == 0 .. MaxSecrets \cup Call
CallRow == [at : CallPlaces, of : SecretOrToken, by : Call \cup {NoCall},
            list : SUBSET Call, scopes : SUBSET Scope]

AdminTyped == AdminTypeOK /\ call \in [Call -> CallRow]

(* Nobody who began after the deactivation is past its check. *)
BarredWait ==
  /\ barred # {} => admin.status = "deactivated"
  /\ \A r \in barred : call[r].at \notin Answered \cup {"known", "verified"}

RescopedFit ==
  /\ admin.status = "none" => rescoped = {}
  /\ ScopesReachTokens

(* A secret that is retired is in no invite that can still be confirmed. *)
RetiredAreGone ==
  /\ \A s \in retired : s \notin invites \cup confirming
  /\ admin.totp # 0 => admin.totp \in confirming \/ admin.totp \notin invites
  /\ admin.totp \in 0 .. issued
  /\ RetiredSecretStaysOut

AdminInv == AdminTyped /\ BarredWait /\ RescopedFit /\ RetiredAreGone

LEMMA AdminInitFits == AdminInit => AdminInv
BY AdminAssumption
   DEF AdminInit, AdminInv, AdminTyped, AdminTypeOK, BarredWait, RescopedFit, RetiredAreGone,
       ScopesReachTokens, RetiredSecretStaysOut, CallRow, CallPlaces, NewCall, Answered, SecretOrToken

(* The account's own steps. *)
AccountActs ==
  \/ \E scopes \in SUBSET Scope : CreateInvite(scopes) \/ SetScopes(scopes)
  \/ RegenerateTotp \/ Reactivate
  \/ \E s \in 1 .. issued : GetInvite(s) \/ ConfirmEnrollment(s) \/ InviteUsed(s) \/ InviteExpires(s)

LEMMA AccountActsKept ==
  ASSUME AdminInv, AccountActs
  PROVE  AdminInv'
<1> USE DEF AdminInv, AdminTyped, AdminTypeOK
<1>1. ASSUME NEW scopes \in SUBSET Scope, CreateInvite(scopes)
      PROVE  AdminInv'
  <2> USE <1>1 DEF CreateInvite, Invites
  <2>1. AdminTyped'
    <3>1. admin' \in [status : {"none", "invited", "active", "deactivated"}, totp : 0 .. MaxSecrets,
                      scopes : SUBSET Scope]
      BY AdminAssumption
    <3>2. issued' = issued + 1 /\ issued' \in 0 .. MaxSecrets /\ 1 .. issued \subseteq 1 .. issued'
      BY AdminAssumption
    <3>3. invites' \subseteq 1 .. issued' /\ confirming' \subseteq 1 .. issued' /\ retired' \subseteq 1 .. issued'
      BY <3>2
    <3>4. QED
      BY <3>1, <3>2, <3>3
  <2>2. BarredWait' /\ RescopedFit'
    BY DEF BarredWait, RescopedFit, ScopesReachTokens, CallAt
  <2>3. RetiredAreGone'
    BY DEF RetiredAreGone, RetiredSecretStaysOut
  <2>4. QED
    BY <2>1, <2>2, <2>3
<1>2. ASSUME NEW scopes \in SUBSET Scope, SetScopes(scopes)
      PROVE  AdminInv'
  <2> USE <1>2 DEF SetScopes, New
  <2>1. AdminTyped'
    OBVIOUS
  <2>2. BarredWait' /\ RescopedFit'
    BY DEF BarredWait, RescopedFit, ScopesReachTokens, CallAt
  <2>3. RetiredAreGone'
    BY DEF RetiredAreGone, RetiredSecretStaysOut
  <2>4. QED
    BY <2>1, <2>2, <2>3
<1>3. CASE RegenerateTotp
  <2> USE <1>3 DEF RegenerateTotp, Invites
  <2>1. AdminTyped'
    <3>1. admin' \in [status : {"none", "invited", "active", "deactivated"}, totp : 0 .. MaxSecrets,
                      scopes : SUBSET Scope]
      <4>1. 0 \in 0 .. MaxSecrets
        BY AdminAssumption
      <4>2. admin' = [admin EXCEPT !.status = "invited", !.totp = 0]
        OBVIOUS
      <4>3. admin \in [status : {"none", "invited", "active", "deactivated"}, totp : 0 .. MaxSecrets,
                       scopes : SUBSET Scope]
        OBVIOUS
      <4>4. QED
        BY ONLY <4>1, <4>2, <4>3
    <3>2. issued' = issued + 1 /\ issued' \in 0 .. MaxSecrets /\ 1 .. issued \subseteq 1 .. issued'
      BY AdminAssumption
    <3>3. invites' \subseteq 1 .. issued' /\ confirming' \subseteq 1 .. issued' /\ retired' \subseteq 1 .. issued'
      BY <3>2 DEF RetiredAreGone
    <3>4. QED
      BY <3>1, <3>2, <3>3
  <2>2. BarredWait' /\ RescopedFit'
    BY DEF BarredWait, RescopedFit, ScopesReachTokens
  <2>3. RetiredAreGone'
    BY DEF RetiredAreGone, RetiredSecretStaysOut
  <2>4. QED
    BY <2>1, <2>2, <2>3
<1>4. CASE Reactivate
  <2> USE <1>4 DEF Reactivate
  <2>1. AdminTyped'
    OBVIOUS
  <2>2. BarredWait' /\ RescopedFit'
    BY DEF BarredWait, RescopedFit, ScopesReachTokens
  <2>3. RetiredAreGone'
    BY DEF RetiredAreGone, RetiredSecretStaysOut
  <2>4. QED
    BY <2>1, <2>2, <2>3
<1>5. ASSUME NEW s \in 1 .. issued, GetInvite(s) \/ InviteUsed(s) \/ InviteExpires(s)
      PROVE  AdminInv'
  <2> USE <1>5 DEF GetInvite, InviteUsed, InviteExpires
  <2>1. AdminTyped'
    OBVIOUS
  <2>2. BarredWait' /\ RescopedFit'
    BY DEF BarredWait, RescopedFit, ScopesReachTokens
  <2>3. RetiredAreGone'
    BY DEF RetiredAreGone, RetiredSecretStaysOut
  <2>4. QED
    BY <2>1, <2>2, <2>3
<1>6. ASSUME NEW s \in 1 .. issued, ConfirmEnrollment(s)
      PROVE  AdminInv'
  <2> USE <1>6 DEF ConfirmEnrollment
  <2>1. AdminTyped'
    <3>1. s \in 0 .. MaxSecrets
      BY AdminAssumption
    <3>2. admin' \in [status : {"none", "invited", "active", "deactivated"}, totp : 0 .. MaxSecrets,
                      scopes : SUBSET Scope]
      BY <3>1
    <3>3. QED
      BY <3>2
  <2>2. BarredWait' /\ RescopedFit'
    BY DEF BarredWait, RescopedFit, ScopesReachTokens
  <2>3. RetiredAreGone'
    BY DEF RetiredAreGone, RetiredSecretStaysOut
  <2>4. QED
    BY <2>1, <2>2, <2>3
<1>7. QED
  BY <1>1, <1>2, <1>3, <1>4, <1>5, <1>6 DEF AccountActs

(* A request that moves, and the rest of what it may change. *)
CallMoved(r) ==
  /\ call' \in [Call -> CallRow]
  /\ \A q \in Call : q # r => call'[q] = call[q]

SessionsTyped ==
  /\ adminSession \in [Call -> Call \cup {NoCall}]
  /\ adminRefresh \in [Call -> Call \cup {NoCall}]
  /\ listed \subseteq Call

LEMMA AdminRevokesTyped ==
  ASSUME NEW S \in SUBSET Call, SessionsTyped, AdminRevokes(S)
  PROVE  /\ adminSession' \in [Call -> Call \cup {NoCall}]
         /\ adminRefresh' \in [Call -> Call \cup {NoCall}]
BY DEF AdminRevokes, SessionsTyped

LEMMA CallSet ==
  ASSUME NEW r \in Call, AdminTyped, NEW row \in CallRow, call' = [call EXCEPT ![r] = row]
  PROVE  CallMoved(r) /\ call'[r] = row
BY DEF CallMoved, AdminTyped

LEMMA CallDone ==
  ASSUME NEW r \in Call, AdminTyped, CallEnds(r)
  PROVE  CallMoved(r) /\ call'[r].at = "done"
<1> DEFINE row == [NewCall EXCEPT !.at = "done"]
<1>1. row \in CallRow /\ row.at = "done"
  BY AdminAssumption DEF CallRow, CallPlaces, NewCall, SecretOrToken
<1> HIDE DEF row
<1>2. call' = [call EXCEPT ![r] = row]
  BY DEF CallEnds, row
<1>3. QED
  BY <1>1, <1>2, CallSet

LEMMA CallWent ==
  ASSUME NEW r \in Call, AdminTyped, NEW at \in CallPlaces, CallGoes(r, at)
  PROVE  CallMoved(r) /\ call'[r].at = at
BY DEF CallMoved, AdminTyped, CallGoes, CallRow

LEMMA CallTakes ==
  ASSUME NEW r \in Call, AdminTyped, NEW at \in CallPlaces, NEW of \in SecretOrToken,
         call' = [call EXCEPT ![r].at = at, ![r].of = of]
  PROVE  CallMoved(r) /\ call'[r].at = at
<1> DEFINE mid == [call EXCEPT ![r].at = at]
<1>1. mid \in [Call -> CallRow] /\ mid[r].at = at /\ \A q \in Call : q # r => mid[q] = call[q]
  BY DEF CallRow, AdminTyped
<1>2. call' = [mid EXCEPT ![r].of = of]
  BY Zenon
<1> HIDE DEF mid
<1>3. call' \in [Call -> CallRow] /\ call'[r].at = at /\ \A q \in Call : q # r => call'[q] = mid[q]
  BY ONLY <1>1, <1>2, SMT DEF CallRow
<1>4. QED
  BY <1>1, <1>3 DEF CallMoved

LEMMA CallRead ==
  ASSUME NEW r \in Call, AdminTyped, NEW at \in CallPlaces, NEW of \in 0 .. MaxSecrets, NEW by \in Call \cup {NoCall},
         CallReads(r, at, of, by)
  PROVE  CallMoved(r) /\ call'[r].at = at /\ call'[r].scopes = admin.scopes
<1> DEFINE row == [NewCall EXCEPT !.at = at, !.of = of, !.by = by, !.scopes = admin.scopes]
<1>1. row \in CallRow /\ row.at = at /\ row.scopes = admin.scopes
  BY DEF CallRow, CallPlaces, NewCall, AdminTyped, AdminTypeOK, SecretOrToken
<1> HIDE DEF row
<1>2. call' = [call EXCEPT ![r] = row]
  BY DEF CallReads, row
<1>3. QED
  BY <1>1, <1>2, CallSet

CallActs(r) ==
  \/ Deactivate(r) \/ ListSessions(r) \/ RevokeAllUserSessions(r)
  \/ VerifyTotpLogin(r) \/ CreateSession(r) \/ AdminRotate(r) \/ Reread(r)
  \/ (\E s \in 1 .. issued : Authenticate(r, s))
  \/ (\E s \in Call : RevokeSession(r, s) \/ AdminRefresh(r, s))

(* Where a request may come to, and what must hold for it: a token is only *)
(* given past a check of the status.                                       *)
LEMMA CallSteps ==
  ASSUME NEW r \in Call, AdminTyped, CallActs(r)
  PROVE  /\ CallMoved(r)
         /\ SessionsTyped'
         /\ call'[r].at \in Answered \cup {"known", "verified"} =>
              \/ call[r].at \in {"known", "verified"}
              \/ admin.status = "active"
         /\ call'[r].at = "refreshed" => call'[r].scopes = admin.scopes
<1> DEFINE Goal == /\ CallMoved(r)
                   /\ SessionsTyped'
                   /\ call'[r].at \in Answered \cup {"known", "verified"} =>
                        \/ call[r].at \in {"known", "verified"}
                        \/ admin.status = "active"
                   /\ call'[r].at = "refreshed" => call'[r].scopes = admin.scopes
<1>1. SessionsTyped /\ call[r] \in CallRow
  BY DEF AdminTyped, AdminTypeOK, SessionsTyped
<1> USE DEF Answered
<1>2. CASE Deactivate(r)
  BY <1>1, <1>2, CallWent DEF Deactivate, CallPlaces, SessionsTyped
<1>3. CASE ListSessions(r)
  <2>1. CallMoved(r) /\ call'[r].at = "revoking"
    BY <1>1, <1>3 DEF ListSessions, CallMoved, AdminTyped, CallRow, CallPlaces, SessionsTyped
  <2>2. QED
    BY <1>1, <1>3, <2>1 DEF ListSessions, SessionsTyped
<1>4. CASE RevokeAllUserSessions(r)
  <2>1. call[r].list \in SUBSET Call
    BY <1>1 DEF CallRow
  <2>2. QED
    BY <1>1, <1>4, <2>1, CallDone, AdminRevokesTyped DEF RevokeAllUserSessions, SessionsTyped
<1>5. CASE VerifyTotpLogin(r)
  BY <1>1, <1>5, CallWent, CallDone DEF VerifyTotpLogin, CallPlaces, SessionsTyped, CallAt
<1>6. CASE CreateSession(r)
  <2>1. CallMoved(r) /\ call'[r].at = "loggedIn"
    <3>1. 0 \in SecretOrToken /\ "loggedIn" \in CallPlaces
      BY AdminAssumption DEF CallPlaces, SecretOrToken
    <3>2. QED
      BY <1>6, <3>1, CallTakes DEF CreateSession
  <2>2. SessionsTyped'
    BY <1>1, <1>6 DEF CreateSession, SessionsTyped
  <2>3. QED
    BY <1>6, <2>1, <2>2 DEF CreateSession, CallAt
<1>7. CASE AdminRotate(r)
  <2>1. call[r].by \in Call \cup {NoCall}
    BY <1>1 DEF CallRow
  <2>2. SessionsTyped'
    BY <1>1, <1>7, <2>1 DEF AdminRotate, SessionsTyped
  <2>3. QED
    BY <1>7, <2>2, CallWent DEF AdminRotate, CallPlaces
<1>8. CASE Reread(r)
  <2>1. call[r].by \in Call \cup {NoCall}
    BY <1>1 DEF CallRow
  <2>2. CASE admin.status = "active"
    <3>1. CallReads(r, "refreshed", 0, call[r].by) /\ UNCHANGED <<adminSession, adminRefresh, listed>>
      BY <1>8, <2>2 DEF Reread
    <3>2. CallMoved(r) /\ call'[r].at = "refreshed" /\ call'[r].scopes = admin.scopes
      BY <2>1, <3>1, CallRead, AdminAssumption DEF CallPlaces
    <3>3. QED
      BY <1>1, <2>2, <3>1, <3>2 DEF SessionsTyped
  <2>3. CASE admin.status # "active"
    <3>1. SessionsTyped'
      BY <1>1, <1>8, <2>3 DEF Reread, SessionsTyped, AdminRevokes
    <3>2. QED
      BY <1>8, <2>3, <3>1, CallDone DEF Reread
  <2>4. QED
    BY <2>2, <2>3
<1>9. ASSUME NEW s \in 1 .. issued, Authenticate(r, s)
      PROVE  Goal
  <2>1. s \in 0 .. MaxSecrets
    BY AdminAssumption DEF AdminTyped, AdminTypeOK
  <2>2. CallReads(r, "known", s, r) /\ admin.status = "active"
    BY <1>9 DEF Authenticate
  <2>3. CallMoved(r) /\ call'[r].at = "known"
    BY <2>1, <2>2, CallRead DEF CallPlaces
  <2>4. QED
    BY <1>1, <1>9, <2>2, <2>3 DEF Authenticate, SessionsTyped
<1>10. ASSUME NEW s \in Call, RevokeSession(r, s)
       PROVE  Goal
  BY <1>1, <1>10, CallDone, AdminRevokesTyped DEF RevokeSession, SessionsTyped
<1>11. ASSUME NEW t \in Call, AdminRefresh(r, t)
       PROVE  Goal
  <2> DEFINE s == adminRefresh[t]
  <2>1. s \in Call
    BY <1>1, <1>11 DEF AdminRefresh, SessionsTyped
  <2>2. CASE adminSession[s] = t
    <3>1. CallMoved(r) /\ call'[r].at = "rotating"
      BY <1>1, <1>11, <2>1, <2>2 DEF AdminRefresh, CallMoved, AdminTyped, CallRow, CallPlaces, SecretOrToken
    <3>2. QED
      BY <1>1, <1>11, <2>2, <3>1 DEF AdminRefresh, SessionsTyped
  <2>3. CASE adminSession[s] # t
    <3>1. SessionsTyped'
      BY <1>1, <1>11, <2>1, <2>3, AdminRevokesTyped DEF AdminRefresh, SessionsTyped
    <3>2. QED
      BY <1>11, <2>3, <3>1, CallDone DEF AdminRefresh
  <2>4. QED
    BY <2>2, <2>3
<1>12. QED
  BY <1>2, <1>3, <1>4, <1>5, <1>6, <1>7, <1>8, <1>9, <1>10, <1>11 DEF CallActs

LEMMA CallActsKept ==
  ASSUME AdminInv, NEW r \in Call, CallActs(r)
  PROVE  AdminInv'
<1>1. AdminTyped /\ BarredWait /\ RescopedFit /\ RetiredAreGone
  BY DEF AdminInv
<1>2. /\ CallMoved(r)
      /\ SessionsTyped'
      /\ call'[r].at \in Answered \cup {"known", "verified"} =>
           \/ call[r].at \in {"known", "verified"}
           \/ admin.status = "active"
      /\ call'[r].at = "refreshed" => call'[r].scopes = admin.scopes
  BY <1>1, CallSteps
<1>3. \A q \in Call : call'[q] \in CallRow
  BY <1>2 DEF CallMoved
<1>4. CASE Deactivate(r)
  <2>1. /\ admin' = [admin EXCEPT !.status = "deactivated"] /\ admin.status # "none"
        /\ barred' = New \ {r} /\ UNCHANGED <<invites, issued, confirming, retired, rescoped>>
    BY <1>4 DEF Deactivate
  <2>2. AdminTyped'
    BY <1>1, <1>2, <1>3, <2>1 DEF AdminTyped, AdminTypeOK, SessionsTyped, CallMoved, CallRow, New
  <2>3. BarredWait'
    BY <1>1, <1>2, <2>1 DEF BarredWait, AdminTyped, AdminTypeOK, New, CallMoved, CallAt, Answered
  <2>4. RescopedFit'
    BY <1>1, <1>2, <2>1 DEF RescopedFit, ScopesReachTokens, AdminTyped, AdminTypeOK, CallMoved
  <2>5. RetiredAreGone'
    BY <1>1, <2>1 DEF RetiredAreGone, RetiredSecretStaysOut, AdminTyped, AdminTypeOK
  <2>6. QED
    BY <2>2, <2>3, <2>4, <2>5 DEF AdminInv
<1>5. CASE UNCHANGED <<accountVars, barred, rescoped>>
  <2>1. UNCHANGED <<admin, invites, issued, confirming, retired, barred, rescoped>>
    BY <1>5 DEF accountVars
  <2>2. AdminTyped'
    BY <1>1, <1>2, <1>3, <2>1 DEF AdminTyped, AdminTypeOK, SessionsTyped, CallMoved, CallRow
  <2>3. BarredWait'
    BY <1>1, <1>2, <2>1 DEF BarredWait, AdminTyped, AdminTypeOK, CallMoved, Answered
  <2>4. RescopedFit'
    BY <1>1, <1>2, <2>1 DEF RescopedFit, ScopesReachTokens, AdminTyped, AdminTypeOK, CallMoved
  <2>5. RetiredAreGone'
    BY <1>1, <2>1 DEF RetiredAreGone, RetiredSecretStaysOut
  <2>6. QED
    BY <2>2, <2>3, <2>4, <2>5 DEF AdminInv
<1>6. QED
  BY <1>4, <1>5 DEF CallActs, ListSessions, RevokeAllUserSessions, VerifyTotpLogin, CreateSession, AdminRotate,
                    Reread, Authenticate, RevokeSession, AdminRefresh

LEMMA AdminStutters == AdminInv /\ UNCHANGED adminVars => AdminInv'
BY DEF adminVars, accountVars, AdminInv, AdminTyped, AdminTypeOK, BarredWait, RescopedFit, RetiredAreGone,
       ScopesReachTokens, RetiredSecretStaysOut

LEMMA AdminInvKept == AdminInv /\ AdminNext => AdminInv'
BY AccountActsKept, CallActsKept DEF AdminNext, AccountActs, CallActs

-----------------------------------------------------------------------------
(* The order desk *)

(* A page of a restricted key has orders of its regions alone. *)
ShelfFits ==
  \A key \in DOMAIN shelf : key[2] # {} => \A o \in shelf[key] : RegionOf[o] \in key[2]

(* No number is drawn twice, or drawn and given. *)
NumbersApart ==
  /\ \A o, p \in Order : \A n \in assigning[o] : n \in assigning[p] => o = p
  /\ \A o, p \in Order : number[p] \notin assigning[o]
  /\ \A o, p \in Order : number[o] # 0 /\ number[o] = number[p] => o = p

DeskTyped == DeskTypeOK /\ assigning \in [Order -> SUBSET (1 .. seq)]

DeskInv == DeskTyped /\ ShelfFits /\ ShownIsInScope /\ NumbersApart

NumbersKept ==
  \A o, p \in Order :
    /\ number[o] # 0 => number'[o] = number[o]
    /\ number'[o] # 0 /\ number'[o] = number'[p] => o = p

LEMMA DeskInitFits == DeskInit => DeskInv
<1> SUFFICES ASSUME DeskInit PROVE DeskInv
  OBVIOUS
<1>1. DeskTyped
  BY DeskAssumption DEF DeskInit, DeskTyped, DeskTypeOK, Types
<1>2. ShelfFits /\ ShownIsInScope /\ NumbersApart
  BY DEF DeskInit, ShelfFits, ShownIsInScope, NumbersApart
<1>3. QED
  BY <1>1, <1>2 DEF DeskInv

(* A restricted admin's query is held to some of the admin's regions. *)
LEMMA FilterRestricts ==
  ASSUME NEW a \in Admin, NEW wish, ~Unrestricted(a)
  PROVE  RegionFilter(a, wish) # {} /\ RegionFilter(a, wish) \subseteq RegionsOf[a]
BY DEF Unrestricted, RegionFilter

LEMMA InScope ==
  ASSUME NEW a \in Admin, NEW wish, NEW page \in SUBSET Order,
         RegionFilter(a, wish) # {} => \A o \in page : RegionOf[o] \in RegionFilter(a, wish)
  PROVE  \A o \in page : MayOpen(a, o)
<1>1. CASE Unrestricted(a)
  BY <1>1 DEF MayOpen
<1>2. CASE ~Unrestricted(a)
  <2>1. ASSUME NEW o \in page PROVE OrderRegion(o) \in RegionsOf[a]
    <3>1. RegionOf[o] \in RegionsOf[a]
      BY <1>2, FilterRestricts
    <3>2. RegionsOf[a] \subseteq Region
      BY DeskAssumption
    <3>3. QED
      BY <3>1, <3>2, DeskAssumption DEF OrderRegion
  <2>2. QED
    BY <2>1 DEF MayOpen
<1>3. QED
  BY <1>1, <1>2

LEMMA QueryHeld ==
  ASSUME NEW forced, NEW country, NEW type
  PROVE  /\ OrderQuery(forced, country, type) \subseteq Order
         /\ forced # {} => \A o \in OrderQuery(forced, country, type) : RegionOf[o] \in forced
BY DEF OrderQuery

(* A page that is put on the shelf under its key. *)
LEMMA ShelveFits ==
  ASSUME ShelfFits, DeskTyped, NEW key, NEW page \in SUBSET Order, Shelve(key, page),
         key[2] # {} => \A o \in page : RegionOf[o] \in key[2]
  PROVE  ShelfFits' /\ \A k \in DOMAIN shelf' : shelf'[k] \subseteq Order
BY DEF ShelfFits, Shelve, DeskTyped, DeskTypeOK

(* An answer from the shelf, or one computed and shelved. *)
LEMMA AnsweredKept ==
  ASSUME DeskInv, NEW a \in Admin, NEW wish, NEW key, NEW computed \in SUBSET Order,
         key[2] = RegionFilter(a, wish),
         key[2] # {} => \A o \in computed : RegionOf[o] \in key[2],
         NEW page, page = IF key \in DOMAIN shelf THEN shelf[key] ELSE computed,
         Answers(a, page), Shelve(key, page),
         UNCHANGED <<status, paid, noted, number, seq, assigning, changes>>
  PROVE  DeskInv' /\ NumbersKept
<1>1. DeskTyped /\ ShelfFits
  BY DEF DeskInv
<1>2. page \in SUBSET Order /\ (key[2] # {} => \A o \in page : RegionOf[o] \in key[2])
  BY <1>1 DEF ShelfFits, DeskTyped, DeskTypeOK
<1>3. ShelfFits' /\ \A k \in DOMAIN shelf' : shelf'[k] \subseteq Order
  BY <1>1, <1>2, ShelveFits
<1>4. ShownIsInScope'
  <2>1. \A o \in page : MayOpen(a, o)
    BY <1>2, InScope
  <2>2. QED
    BY <2>1 DEF ShownIsInScope, Answers
<1>5. DeskTyped'
  BY <1>1, <1>3 DEF DeskTyped, DeskTypeOK
<1>6. NumbersApart' /\ NumbersKept
  BY DEF DeskInv, NumbersApart, NumbersKept
<1>7. QED
  BY <1>3, <1>4, <1>5, <1>6 DEF DeskInv

LEMMA ListOrdersKept ==
  ASSUME DeskInv, NEW a \in Admin, NEW wish, NEW type, ListOrders(a, wish, type)
  PROVE  DeskInv' /\ NumbersKept
<1> DEFINE forced == RegionFilter(a, wish)
           country == IF forced # {} THEN NoRegion ELSE wish
           key == ListKey(forced, country, type)
           computed == OrderQuery(forced, country, type)
           page == IF key \in DOMAIN shelf THEN shelf[key] ELSE computed
<1>1. key[2] = RegionFilter(a, wish)
  BY DEF ListKey
<1>2. computed \in SUBSET Order /\ (key[2] # {} => \A o \in computed : RegionOf[o] \in key[2])
  BY <1>1, QueryHeld
<1>3. Answers(a, page) /\ Shelve(key, page) /\ UNCHANGED <<status, paid, noted, number, seq, assigning, changes>>
  BY DEF ListOrders
<1> HIDE DEF forced, country, key, computed
<1>4. QED
  BY <1>1, <1>2, <1>3, AnsweredKept

LEMMA GetStatsKept ==
  ASSUME DeskInv, NEW a \in Admin, GetStats(a)
  PROVE  DeskInv' /\ NumbersKept
<1> DEFINE forced == RegionFilter(a, NoRegion)
           key == <<"stats", forced>>
           computed == Revenue(OrderQuery(forced, NoRegion, Unfiltered))
           page == IF key \in DOMAIN shelf THEN shelf[key] ELSE computed
<1>1. key[2] = RegionFilter(a, NoRegion)
  OBVIOUS
<1>2. computed \in SUBSET Order /\ (key[2] # {} => \A o \in computed : RegionOf[o] \in key[2])
  BY <1>1, QueryHeld DEF Revenue
<1>3. Answers(a, page) /\ Shelve(key, page) /\ UNCHANGED <<status, paid, noted, number, seq, assigning, changes>>
  BY DEF GetStats
<1> HIDE DEF forced, key, computed
<1>4. QED
  BY <1>1, <1>2, <1>3, AnsweredKept

LEMMA PageLapsesKept ==
  ASSUME DeskInv, NEW key, PageLapses(key)
  PROVE  DeskInv' /\ NumbersKept
<1>1. ShelfFits' /\ \A k \in DOMAIN shelf' : shelf'[k] \subseteq Order
  BY DEF DeskInv, DeskTyped, DeskTypeOK, ShelfFits, PageLapses
<1>2. DeskTyped'
  BY <1>1 DEF DeskInv, DeskTyped, DeskTypeOK, PageLapses
<1>3. ShownIsInScope' /\ NumbersApart' /\ NumbersKept
  BY DEF DeskInv, ShownIsInScope, NumbersApart, NumbersKept, PageLapses
<1>4. QED
  BY <1>1, <1>2, <1>3 DEF DeskInv

LEMMA OpensInScope ==
  ASSUME NEW a \in Admin, NEW o \in Order, NEW perm, Opens(a, o, perm)
  PROVE  ShownIsInScope'
BY DEF Opens, Answers, ShownIsInScope

(* Marks, notes and statuses leave the numbers and the shelf alone. *)
LEMMA MarksKept ==
  ASSUME DeskInv, NEW a \in Admin, NEW o \in Order,
         \/ GetOrder(a, o) \/ MarkPaymentCollected(a, o) \/ AddNote(a, o) \/ SetCustomStatus(a, o)
         \/ \E type \in Types : UpdateOrderStatus(a, o, type)
  PROVE  DeskInv' /\ NumbersKept
<1>1. ShownIsInScope'
  BY OpensInScope DEF GetOrder, MarkPaymentCollected, AddNote, SetCustomStatus, UpdateOrderStatus
<1>2. UNCHANGED <<number, seq, assigning, shelf>>
  BY DEF GetOrder, MarkPaymentCollected, AddNote, SetCustomStatus, UpdateOrderStatus
<1>3. /\ status' \in [Order -> Types] /\ paid' \subseteq Order /\ noted' \subseteq Order
      /\ changes' \in 0 .. MaxChanges
  BY DeskAssumption DEF GetOrder, MarkPaymentCollected, AddNote, SetCustomStatus, UpdateOrderStatus, Changes,
     DeskInv, DeskTyped, DeskTypeOK
<1>4. DeskTyped'
  BY <1>2, <1>3 DEF DeskInv, DeskTyped, DeskTypeOK
<1>5. ShelfFits' /\ NumbersApart' /\ NumbersKept
  BY <1>2 DEF DeskInv, ShelfFits, NumbersApart, NumbersKept
<1>6. QED
  BY <1>1, <1>4, <1>5 DEF DeskInv

LEMMA DrawNumberKept ==
  ASSUME DeskInv, NEW a \in Admin, NEW o \in Order, DrawNumber(a, o)
  PROVE  DeskInv' /\ NumbersKept
<1>1. ShownIsInScope'
  BY OpensInScope DEF DrawNumber
<1>2. /\ seq \in Nat /\ seq' = seq + 1 /\ UNCHANGED <<status, paid, noted, number, shelf>>
      /\ assigning \in [Order -> SUBSET (1 .. seq)] /\ number \in [Order -> 0 .. seq]
      /\ assigning' = [assigning EXCEPT ![o] = assigning[o] \cup {seq + 1}]
      /\ changes' \in 0 .. MaxChanges
  BY DeskAssumption DEF DrawNumber, Changes, DeskInv, DeskTyped, DeskTypeOK
<1>3. /\ assigning'[o] = assigning[o] \cup {seq + 1}
      /\ \A p \in Order : p # o => assigning'[p] = assigning[p]
  BY <1>2
<1>4. 1 .. seq \subseteq 1 .. seq' /\ 0 .. seq \subseteq 0 .. seq' /\ seq + 1 \in 1 .. seq' /\ seq + 1 \notin 0 .. seq
  BY <1>2
<1>5. assigning' \in [Order -> SUBSET (1 .. seq')]
  BY <1>2, <1>4
<1>6. DeskTyped'
  BY <1>2, <1>4, <1>5 DEF DeskInv, DeskTyped, DeskTypeOK
<1>7. ShelfFits'
  BY <1>2 DEF DeskInv, ShelfFits
<1>8. NumbersApart' /\ NumbersKept
  <2>1. \A p \in Order : seq + 1 \notin assigning[p] /\ seq + 1 # number[p]
    BY <1>2
  <2>2. \A p, q \in Order : \A n \in assigning'[p] : n \in assigning'[q] => p = q
    BY <1>3, <2>1 DEF DeskInv, NumbersApart
  <2>3. \A p, q \in Order : number'[q] \notin assigning'[p]
    BY <1>2, <1>3, <2>1 DEF DeskInv, NumbersApart
  <2>4. \A p, q \in Order : number'[p] # 0 /\ number'[p] = number'[q] => p = q
    BY <1>2 DEF DeskInv, NumbersApart
  <2>5. QED
    BY <1>2, <2>2, <2>3, <2>4 DEF NumbersApart, NumbersKept
<1>9. QED
  BY <1>1, <1>6, <1>7, <1>8 DEF DeskInv

LEMMA ClaimNumberKept ==
  ASSUME DeskInv, NEW o \in Order, NEW n \in 1 .. seq, ClaimNumber(o, n)
  PROVE  DeskInv' /\ NumbersKept
<1>1. /\ n \in assigning[o] /\ seq \in Nat
      /\ assigning \in [Order -> SUBSET (1 .. seq)] /\ number \in [Order -> 0 .. seq]
      /\ number' = [number EXCEPT ![o] = IF number[o] = 0 THEN n ELSE number[o]]
      /\ assigning' = [assigning EXCEPT ![o] = assigning[o] \ {n}]
      /\ UNCHANGED <<status, paid, noted, seq, shelf, shown, changes>>
  BY DEF ClaimNumber, DeskInv, DeskTyped, DeskTypeOK
<1>2. /\ assigning'[o] = assigning[o] \ {n}
      /\ number'[o] = IF number[o] = 0 THEN n ELSE number[o]
      /\ \A p \in Order : p # o => assigning'[p] = assigning[p] /\ number'[p] = number[p]
  BY <1>1
<1>3. DeskTyped'
  <2>1. number' \in [Order -> 0 .. seq] /\ assigning' \in [Order -> SUBSET (1 .. seq)]
    BY <1>1
  <2>2. QED
    BY <1>1, <2>1 DEF DeskInv, DeskTyped, DeskTypeOK
<1>4. ShelfFits' /\ ShownIsInScope'
  BY <1>1 DEF DeskInv, ShelfFits, ShownIsInScope, MayOpen, Unrestricted, OrderRegion
<1>5. NumbersApart' /\ NumbersKept
  <2>1. NumbersApart
    BY DEF DeskInv
  <2>2. \A p \in Order : n \in assigning[p] => p = o
    BY <1>1, <2>1 DEF NumbersApart
  <2>3. \A p, q \in Order : \A m \in assigning'[p] : m \in assigning'[q] => p = q
    BY <1>2, <2>1 DEF NumbersApart
  <2>4. \A p, q \in Order : number'[q] \notin assigning'[p]
    <3>1. ASSUME NEW p \in Order, NEW q \in Order PROVE number'[q] \notin assigning'[p]
      <4>1. number[q] \notin assigning[p] /\ number[o] \notin assigning[p]
        BY <2>1 DEF NumbersApart
      <4>2. n \notin assigning'[p]
        BY <1>2, <2>2
      <4>3. assigning'[p] \subseteq assigning[p]
        BY <1>2
      <4>4. QED
        BY <1>2, <4>1, <4>2, <4>3
    <3>2. QED
      BY <3>1
  <2>5. \A p, q \in Order : number'[p] # 0 /\ number'[p] = number'[q] => p = q
    <3>1. \A p \in Order : number[p] # n
      BY <1>1, <2>1 DEF NumbersApart
    <3>2. QED
      BY <1>2, <2>1, <3>1 DEF NumbersApart
  <2>6. QED
    BY <1>2, <2>3, <2>4, <2>5 DEF NumbersApart, NumbersKept
<1>6. QED
  BY <1>3, <1>4, <1>5 DEF DeskInv

LEMMA DeskInvKept == DeskInv /\ DeskNext => DeskInv' /\ NumbersKept
BY ListOrdersKept, GetStatsKept, PageLapsesKept, MarksKept, DrawNumberKept, ClaimNumberKept DEF DeskNext

LEMMA DeskStutters == DeskInv /\ UNCHANGED deskVars => DeskInv' /\ NumbersKept
BY DEF deskVars, DeskInv, DeskTyped, DeskTypeOK, ShelfFits, ShownIsInScope, NumbersApart, NumbersKept,
       MayOpen, Unrestricted, OrderRegion

-----------------------------------------------------------------------------
(* Customer logins *)

LoginTyped ==
  /\ LoginTypeOK
  /\ \A r \in Visit : visit[r].at \in {"matched", "proved"} => visit[r].of \in 1 .. sent
  /\ \A r \in Visit : visit[r].at \in Issued \cup {"rotating"} => visit[r].by \in Visit

CodesFresh ==
  /\ spent \subseteq 1 .. sent /\ code <= sent
  /\ code # 0 => code \notin spent

Missed == {r \in Visit : VisitAt(r, "missed")}

(* A wrong code that was compared is in the count, or about to be. *)
GuessesFit ==
  /\ fails < MaxAttempts
  /\ ~lockedOut => guesses <= fails + Cardinality(Missed)
  /\ GuessesBounded

(* Sessions are those of logins; one that was left is gone, and nobody is  *)
(* about to write it again.                                                *)
SessionsFit ==
  /\ \A r \in Visit : visit[r].at \in Issued \cup {"rotating"} => visit[visit[r].by].at = "loggedIn"
  /\ \A t \in Visit : refresh[t] # NoVisit => visit[refresh[t]].at = "loggedIn"
  /\ \A s \in left : session[s] = NoVisit /\ ~Rotating(s) /\ visit[s].at = "loggedIn"

LoginInv == LoginTyped /\ CodesFresh /\ GuessesFit /\ SessionsFit

CodesKept == \A r \in Visit : VisitAt(r, "new") /\ visit'[r].at = "matched" => visit'[r].of \notin spent

LEMMA VisitsCounted ==
  /\ Cardinality(Visit) \in Nat
  /\ \A S \in SUBSET Visit : IsFiniteSet(S) /\ Cardinality(S) \in Nat /\ Cardinality(S) <= Cardinality(Visit)
BY LoginAssumption, FS_Subset, FS_CardinalityType

LEMMA MissedCounted ==
  /\ IsFiniteSet(Missed) /\ Cardinality(Missed) \in Nat /\ Cardinality(Missed) <= Cardinality(Visit)
  /\ IsFiniteSet(Missed') /\ Cardinality(Missed') \in Nat /\ Cardinality(Missed') <= Cardinality(Visit)
  /\ Cardinality(Visit) \in Nat
<1>1. Missed \subseteq Visit /\ Missed' \subseteq Visit
  BY DEF Missed
<1>2. QED
  BY <1>1, VisitsCounted

LEMMA LoginInitFits == LoginInit => LoginInv
<1> SUFFICES ASSUME LoginInit PROVE LoginInv
  OBVIOUS
<1>1. LoginTyped
  <2>1. visit \in [Visit -> [at : {"new", "matched", "missed", "proved", "rotating", "done"} \cup Issued,
                            of : 0 .. MaxCodes \cup Visit, by : Visit \cup {NoVisit}]]
    BY LoginAssumption DEF LoginInit
  <2>2. \A r \in Visit : visit[r].at = "new"
    BY DEF LoginInit
  <2>3. code \in 0 .. MaxCodes /\ sent \in 0 .. MaxCodes /\ spent \subseteq 1 .. MaxCodes
    BY LoginAssumption DEF LoginInit
  <2>4. QED
    BY <2>1, <2>2, <2>3 DEF LoginInit, LoginTyped, LoginTypeOK, Issued
<1>2. CodesFresh
  BY DEF LoginInit, CodesFresh
<1>3. GuessesFit
  BY LoginAssumption, MissedCounted DEF LoginInit, GuessesFit, GuessesBounded
<1>4. SessionsFit
  BY DEF LoginInit, SessionsFit, Issued
<1>5. QED
  BY <1>1, <1>2, <1>3, <1>4 DEF LoginInv

VisitPlaces == {"new", "matched", "missed", "proved", "rotating", "done"} \cup Issued

LEMMA VisitWent ==
  ASSUME LoginTypeOK, NEW r \in Visit, NEW at \in VisitPlaces,
         NEW of \in 0 .. MaxCodes \cup Visit, NEW by \in Visit \cup {NoVisit}, VisitGoes(r, at, of, by)
  PROVE  /\ visit' \in [Visit -> [at : VisitPlaces, of : 0 .. MaxCodes \cup Visit, by : Visit \cup {NoVisit}]]
         /\ visit'[r] = [at |-> at, of |-> of, by |-> by]
         /\ \A q \in Visit : q # r => visit'[q] = visit[q]
<1> DEFINE row == [at |-> at, of |-> of, by |-> by]
           Rows == [at : VisitPlaces, of : 0 .. MaxCodes \cup Visit, by : Visit \cup {NoVisit}]
<1>1. row \in Rows /\ visit \in [Visit -> Rows]
  BY DEF LoginTypeOK, VisitPlaces
<1>2. visit' = [visit EXCEPT ![r] = row]
  BY DEF VisitGoes
<1> HIDE DEF row, Rows
<1>3. visit' \in [Visit -> Rows] /\ visit'[r] = row /\ \A q \in Visit : q # r => visit'[q] = visit[q]
  BY <1>1, <1>2
<1>4. QED
  BY <1>3 DEF row, Rows

LEMMA MissedSame ==
  ASSUME NEW r \in Visit, \A q \in Visit : q # r => visit'[q] = visit[q],
         visit[r].at # "missed", visit'[r].at # "missed"
  PROVE  Missed' = Missed
BY DEF Missed, VisitAt

(* Steps that leave the sessions alone, and move a request that is not in  *)
(* one to a place that is not, or no request.                              *)
LEMMA SessionsAside ==
  ASSUME LoginTyped, SessionsFit, NEW r \in Visit, \A q \in Visit : q # r => visit'[q] = visit[q],
         visit[r].at # "loggedIn", visit'[r].at \notin Issued \cup {"rotating"}, UNCHANGED sessionVars
  PROVE  SessionsFit'
<1>1. \A q \in Visit : visit'[q].at \in Issued \cup {"rotating"} => q # r /\ visit'[q] = visit[q]
  OBVIOUS
<1>2. \A q \in Visit : visit[q].at = "loggedIn" => visit'[q].at = "loggedIn"
  OBVIOUS
<1>3. \A q \in Visit : visit'[q].at \in Issued \cup {"rotating"} => visit'[visit'[q].by].at = "loggedIn"
  BY <1>1, <1>2 DEF SessionsFit, LoginTyped
<1>4. \A t \in Visit : refresh'[t] # NoVisit => visit'[refresh'[t]].at = "loggedIn"
  BY <1>2 DEF SessionsFit, sessionVars, LoginTyped, LoginTypeOK
<1>5. \A s \in left' : session'[s] = NoVisit /\ ~Rotating(s)' /\ visit'[s].at = "loggedIn"
  <2>1. \A s \in Visit : Rotating(s)' => Rotating(s)
    BY <1>1 DEF Rotating, VisitAt
  <2>2. QED
    BY <1>2, <2>1 DEF SessionsFit, sessionVars, LoginTyped, LoginTypeOK
<1>6. QED
  BY <1>3, <1>4, <1>5 DEF SessionsFit

LEMMA CodesAloneKept ==
  ASSUME LoginInv, SendOtp \/ CodeExpires \/ LockoutLapses
  PROVE  LoginInv' /\ CodesKept
<1> USE DEF LoginInv
<1>1. visit' = visit /\ UNCHANGED sessionVars
  BY DEF SendOtp, CodeExpires, LockoutLapses
<1>2. LoginTyped'
  <2>1. CASE SendOtp
    BY <1>1, <2>1, LoginAssumption DEF SendOtp, LoginTyped, LoginTypeOK, lockVars, sessionVars
  <2>2. CASE CodeExpires
    BY <1>1, <2>2, LoginAssumption DEF CodeExpires, LoginTyped, LoginTypeOK, lockVars, sessionVars
  <2>3. CASE LockoutLapses
    <3>1. fails' \in {0, fails} /\ lockedOut' = FALSE /\ guesses' = 0 /\ UNCHANGED codeVars
      BY <2>3 DEF LockoutLapses
    <3>2. fails' \in Nat /\ guesses' \in Nat
      BY <3>1 DEF LoginTyped, LoginTypeOK
    <3>3. QED
      BY <1>1, <3>1, <3>2 DEF LoginTyped, LoginTypeOK, codeVars, sessionVars
  <2>4. QED
    BY <2>1, <2>2, <2>3
<1>3. CodesFresh'
  <2>1. sent \in Nat /\ code \in Nat
    BY LoginAssumption DEF LoginTyped, LoginTypeOK
  <2>2. CASE SendOtp
    BY <2>1, <2>2 DEF SendOtp, CodesFresh
  <2>3. CASE CodeExpires
    BY <2>1, <2>3 DEF CodeExpires, CodesFresh
  <2>4. CASE LockoutLapses
    BY <2>4 DEF LockoutLapses, CodesFresh, codeVars
  <2>5. QED
    BY <2>2, <2>3, <2>4
<1>4. GuessesFit'
  <2>1. Missed' = Missed
    BY <1>1 DEF Missed, VisitAt
  <2>2. CASE UNCHANGED lockVars
    BY <2>1, <2>2 DEF lockVars, GuessesFit, GuessesBounded
  <2>3. CASE LockoutLapses
    BY <2>1, <2>3, MissedCounted, LoginAssumption DEF LockoutLapses, GuessesFit, GuessesBounded, LoginTyped, LoginTypeOK
  <2>4. QED
    BY <2>2, <2>3 DEF SendOtp, CodeExpires
<1>5. SessionsFit'
  BY <1>1 DEF SessionsFit, sessionVars, Rotating, VisitAt
<1>6. CodesKept
  BY <1>1 DEF CodesKept, VisitAt
<1>7. QED
  BY <1>2, <1>3, <1>4, <1>5, <1>6

LEMMA MatchOtpKept ==
  ASSUME LoginInv, NEW r \in Visit, MatchOtp(r)
  PROVE  LoginInv' /\ CodesKept
<1>1. LoginTyped /\ CodesFresh /\ GuessesFit /\ SessionsFit /\ LoginTypeOK
  BY DEF LoginInv, LoginTyped
<1>2. visit[r].at = "new" /\ code # 0 /\ UNCHANGED <<codeVars, lockVars, sessionVars>> /\ code \in 0 .. MaxCodes
  BY <1>1 DEF MatchOtp, VisitAt, LoginTypeOK
<1>3. /\ visit' \in [Visit -> [at : VisitPlaces, of : 0 .. MaxCodes \cup Visit, by : Visit \cup {NoVisit}]]
      /\ visit'[r] = [at |-> "matched", of |-> code, by |-> NoVisit]
      /\ \A q \in Visit : q # r => visit'[q] = visit[q]
  BY <1>1, <1>2, VisitWent DEF MatchOtp, VisitPlaces
<1>4. LoginTyped'
  <2>1. code \in 1 .. sent
    BY <1>1, <1>2 DEF CodesFresh, LoginTypeOK
  <2>2. QED
    BY <1>1, <1>2, <1>3, <2>1 DEF LoginTyped, LoginTypeOK, VisitPlaces, codeVars, lockVars, sessionVars, Issued
<1>5. CodesFresh'
  BY <1>1, <1>2 DEF CodesFresh, codeVars
<1>6. GuessesFit'
  BY <1>1, <1>2, <1>3, MissedSame DEF GuessesFit, GuessesBounded, lockVars
<1>7. SessionsFit'
  BY <1>1, <1>2, <1>3, SessionsAside DEF Issued
<1>8. CodesKept
  BY <1>1, <1>2, <1>3 DEF CodesKept, CodesFresh, VisitAt
<1>9. QED
  BY <1>4, <1>5, <1>6, <1>7, <1>8 DEF LoginInv

LEMMA MissOtpKept ==
  ASSUME LoginInv, NEW r \in Visit, MissOtp(r)
  PROVE  LoginInv' /\ CodesKept
<1>1. LoginTyped /\ CodesFresh /\ GuessesFit /\ SessionsFit /\ LoginTypeOK
  BY DEF LoginInv, LoginTyped
<1>2. /\ visit[r].at = "new" /\ ~lockedOut /\ guesses' = guesses + 1
      /\ UNCHANGED <<codeVars, fails, lockedOut, sessionVars>>
  BY DEF MissOtp, VisitAt
<1>3. /\ visit' \in [Visit -> [at : VisitPlaces, of : 0 .. MaxCodes \cup Visit, by : Visit \cup {NoVisit}]]
      /\ visit'[r] = [at |-> "missed", of |-> 0, by |-> NoVisit]
      /\ \A q \in Visit : q # r => visit'[q] = visit[q]
  BY <1>1, VisitWent, LoginAssumption DEF MissOtp, VisitPlaces
<1>4. LoginTyped'
  BY <1>1, <1>2, <1>3 DEF LoginTyped, LoginTypeOK, VisitPlaces, codeVars, sessionVars, Issued
<1>5. CodesFresh'
  BY <1>1, <1>2 DEF CodesFresh, codeVars
<1>6. GuessesFit'
  <2>1. Missed' = Missed \cup {r} /\ r \notin Missed /\ IsFiniteSet(Missed) /\ Missed' \subseteq Visit
    BY <1>2, <1>3, MissedCounted DEF Missed, VisitAt
  <2>2. Cardinality(Missed') = Cardinality(Missed) + 1
    BY <2>1, FS_AddElement
  <2>3. Cardinality(Missed') <= Cardinality(Visit)
    BY <2>1, LoginAssumption, FS_Subset
  <2>4. QED
    BY <1>1, <1>2, <2>2, <2>3, MissedCounted, LoginAssumption DEF GuessesFit, GuessesBounded, LoginTypeOK
<1>7. SessionsFit'
  BY <1>1, <1>2, <1>3, SessionsAside DEF Issued
<1>8. CodesKept
  BY <1>2, <1>3 DEF CodesKept, VisitAt
<1>9. QED
  BY <1>4, <1>5, <1>6, <1>7, <1>8 DEF LoginInv

LEMMA RecordFailureKept ==
  ASSUME LoginInv, NEW r \in Visit, RecordFailure(r)
  PROVE  LoginInv' /\ CodesKept
<1>1. LoginTyped /\ CodesFresh /\ GuessesFit /\ SessionsFit /\ LoginTypeOK
  BY DEF LoginInv, LoginTyped
<1>2. visit[r].at = "missed" /\ UNCHANGED <<codeVars, guesses, sessionVars>>
  BY DEF RecordFailure, VisitAt
<1>3. /\ visit' \in [Visit -> [at : VisitPlaces, of : 0 .. MaxCodes \cup Visit, by : Visit \cup {NoVisit}]]
      /\ visit'[r] = [at |-> "new", of |-> 0, by |-> NoVisit]
      /\ \A q \in Visit : q # r => visit'[q] = visit[q]
  BY <1>1, VisitWent, LoginAssumption DEF RecordFailure, VisitPlaces
<1>4. \/ fails' = 0 /\ lockedOut' = TRUE
      \/ fails' = fails + 1 /\ lockedOut' = lockedOut /\ fails + 1 < MaxAttempts
  BY <1>1, LoginAssumption DEF RecordFailure, LoginTypeOK
<1>5. LoginTyped'
  <2>1. fails' \in Nat /\ lockedOut' \in BOOLEAN
    <3>1. fails' \in Nat
      BY <1>1, <1>4 DEF LoginTypeOK
    <3>2. lockedOut' \in BOOLEAN
      BY <1>1, <1>4, Zenon DEF LoginTypeOK
    <3>3. QED
      BY <3>1, <3>2
  <2>2. QED
    BY <1>1, <1>2, <1>3, <2>1 DEF LoginTyped, LoginTypeOK, VisitPlaces, codeVars, sessionVars, Issued
<1>6. CodesFresh'
  BY <1>1, <1>2 DEF CodesFresh, codeVars
<1>7. GuessesFit'
  <2>1. Missed' = Missed \ {r} /\ r \in Missed /\ IsFiniteSet(Missed)
    BY <1>2, <1>3, MissedCounted DEF Missed, VisitAt
  <2>2. Cardinality(Missed') = Cardinality(Missed) - 1
    BY <2>1, FS_RemoveElement
  <2>3. QED
    BY <1>1, <1>2, <1>4, <2>2, MissedCounted, LoginAssumption DEF GuessesFit, GuessesBounded, LoginTypeOK
<1>8. SessionsFit'
  BY <1>1, <1>2, <1>3, SessionsAside DEF Issued
<1>9. CodesKept
  BY <1>2, <1>3 DEF CodesKept, VisitAt
<1>10. QED
  BY <1>5, <1>6, <1>7, <1>8, <1>9 DEF LoginInv

LEMMA SpendOtpKept ==
  ASSUME LoginInv, NEW r \in Visit, SpendOtp(r)
  PROVE  LoginInv' /\ CodesKept
<1>1. LoginTyped /\ CodesFresh /\ GuessesFit /\ SessionsFit /\ LoginTypeOK
  BY DEF LoginInv, LoginTyped
<1>2. /\ visit[r].at = "matched" /\ visit[r].of \in 1 .. sent /\ sent \in 0 .. MaxCodes
      /\ spent' = spent \cup {visit[r].of} /\ code' = 0 /\ UNCHANGED <<sent, lockVars, sessionVars>>
  BY <1>1 DEF SpendOtp, VisitAt, LoginTyped, LoginTypeOK
<1>3. /\ visit' \in [Visit -> [at : VisitPlaces, of : 0 .. MaxCodes \cup Visit, by : Visit \cup {NoVisit}]]
      /\ visit'[r] = [at |-> "proved", of |-> visit[r].of, by |-> NoVisit]
      /\ \A q \in Visit : q # r => visit'[q] = visit[q]
  <2>1. visit[r].of \in 0 .. MaxCodes \cup Visit
    BY <1>1 DEF LoginTypeOK
  <2>2. QED
    BY <1>1, <2>1, VisitWent DEF SpendOtp, VisitPlaces
<1>4. LoginTyped'
  <2>1. spent' \subseteq 1 .. MaxCodes /\ code' \in 0 .. MaxCodes
    <3>1. visit[r].of \in 1 .. MaxCodes
      BY <1>2, LoginAssumption
    <3>2. QED
      <4>1. spent \subseteq 1 .. MaxCodes /\ 0 \in 0 .. MaxCodes
        BY <1>1, LoginAssumption DEF LoginTypeOK
      <4>2. QED
        BY <1>2, <3>1, <4>1
  <2>2. \A q \in Visit : visit'[q].at \in {"matched", "proved"} => visit'[q].of \in 1 .. sent'
    BY <1>1, <1>2, <1>3 DEF LoginTyped
  <2>3. \A q \in Visit : visit'[q].at \in Issued \cup {"rotating"} => visit'[q].by \in Visit
    BY <1>1, <1>3 DEF LoginTyped, Issued
  <2>4. QED
    BY <1>1, <1>2, <1>3, <2>1, <2>2, <2>3 DEF LoginTyped, LoginTypeOK, VisitPlaces, lockVars, sessionVars
<1>5. CodesFresh'
  <2>1. sent \in Nat
    BY <1>2, LoginAssumption
  <2>2. sent' = sent /\ code' = 0 /\ spent' \subseteq 1 .. sent
    BY <1>1, <1>2 DEF CodesFresh
  <2>3. code' <= sent'
    BY <2>1, <2>2
  <2>4. QED
    BY <2>2, <2>3 DEF CodesFresh
<1>6. GuessesFit'
  BY <1>1, <1>2, <1>3, MissedSame DEF GuessesFit, GuessesBounded, lockVars
<1>7. SessionsFit'
  BY <1>1, <1>2, <1>3, SessionsAside DEF Issued
<1>8. CodesKept
  BY <1>2, <1>3 DEF CodesKept, VisitAt
<1>9. QED
  BY <1>4, <1>5, <1>6, <1>7, <1>8 DEF LoginInv

LEMMA LogInKept ==
  ASSUME LoginInv, NEW r \in Visit, LogIn(r)
  PROVE  LoginInv' /\ CodesKept
<1>1. LoginTyped /\ CodesFresh /\ GuessesFit /\ SessionsFit /\ LoginTypeOK
  BY DEF LoginInv, LoginTyped
<1>2. /\ visit[r].at = "proved" /\ fails' = 0 /\ lockedOut' = FALSE /\ guesses' = 0
      /\ session' = [session EXCEPT ![r] = r] /\ refresh' = [refresh EXCEPT ![r] = r]
      /\ UNCHANGED <<codeVars, revoked, left>>
  BY DEF LogIn, VisitAt, OpensSession
<1>3. /\ visit' \in [Visit -> [at : VisitPlaces, of : 0 .. MaxCodes \cup Visit, by : Visit \cup {NoVisit}]]
      /\ visit'[r] = [at |-> "loggedIn", of |-> visit[r].of, by |-> r]
      /\ \A q \in Visit : q # r => visit'[q] = visit[q]
  <2>1. visit[r].of \in 0 .. MaxCodes \cup Visit
    BY <1>1 DEF LoginTypeOK
  <2>2. QED
    BY <1>1, <2>1, VisitWent DEF LogIn, VisitPlaces, Issued
<1>4. LoginTyped'
  <2>1. session' \in [Visit -> Visit \cup {NoVisit}] /\ refresh' \in [Visit -> Visit \cup {NoVisit}]
    BY <1>1, <1>2 DEF LoginTypeOK
  <2>2. \A q \in Visit : visit'[q].at \in {"matched", "proved"} => visit'[q].of \in 1 .. sent
    BY <1>1, <1>3 DEF LoginTyped
  <2>3. \A q \in Visit : visit'[q].at \in Issued \cup {"rotating"} => visit'[q].by \in Visit
    BY <1>1, <1>3 DEF LoginTyped
  <2>4. QED
    BY <1>1, <1>2, <1>3, <2>1, <2>2, <2>3 DEF LoginTyped, LoginTypeOK, VisitPlaces, codeVars
<1>5. CodesFresh'
  BY <1>1, <1>2 DEF CodesFresh, codeVars
<1>6. GuessesFit'
  BY <1>2, MissedCounted, LoginAssumption DEF GuessesFit, GuessesBounded
<1>7. SessionsFit'
  <2>1. \A q \in Visit : visit[q].at = "loggedIn" => visit'[q].at = "loggedIn"
    BY <1>2, <1>3
  <2>2. \A q \in Visit : visit'[q].at \in Issued \cup {"rotating"} => visit'[visit'[q].by].at = "loggedIn"
    BY <1>1, <1>3, <2>1 DEF SessionsFit, LoginTyped
  <2>3. \A t \in Visit : refresh'[t] # NoVisit => visit'[refresh'[t]].at = "loggedIn"
    BY <1>1, <1>2, <1>3, <2>1 DEF SessionsFit, LoginTypeOK
  <2>4. ASSUME NEW s \in left'
        PROVE  session'[s] = NoVisit /\ ~Rotating(s)' /\ visit'[s].at = "loggedIn"
    <3>1. s \in Visit /\ s # r /\ session[s] = NoVisit /\ ~Rotating(s) /\ visit[s].at = "loggedIn"
      BY <1>1, <1>2 DEF SessionsFit, LoginTypeOK
    <3>2. QED
      BY <1>1, <1>2, <1>3, <3>1 DEF Rotating, VisitAt, LoginTypeOK
  <2>5. QED
    BY <2>2, <2>3, <2>4 DEF SessionsFit
<1>8. CodesKept
  BY <1>2, <1>3 DEF CodesKept, VisitAt
<1>9. QED
  BY <1>4, <1>5, <1>6, <1>7, <1>8 DEF LoginInv

LEMMA RotateKept ==
  ASSUME LoginInv, NEW r \in Visit, Rotate(r)
  PROVE  LoginInv' /\ CodesKept
<1> DEFINE s == visit[r].by
<1>1. LoginTyped /\ CodesFresh /\ GuessesFit /\ SessionsFit /\ LoginTypeOK
  BY DEF LoginInv, LoginTyped
<1>2. /\ visit[r].at = "rotating"
      /\ session' = [session EXCEPT ![s] = r]
      /\ refresh' = [refresh EXCEPT ![visit[r].of] = NoVisit, ![r] = s]
      /\ UNCHANGED <<codeVars, lockVars, revoked, left>>
  BY DEF Rotate, VisitAt
<1>3. s \in Visit /\ s # r /\ visit[s].at = "loggedIn" /\ s # NoVisit
  BY <1>1, <1>2, LoginAssumption DEF LoginTyped, SessionsFit
<1>4. /\ visit' \in [Visit -> [at : VisitPlaces, of : 0 .. MaxCodes \cup Visit, by : Visit \cup {NoVisit}]]
      /\ visit'[r] = [at |-> "rotated", of |-> 0, by |-> s]
      /\ \A q \in Visit : q # r => visit'[q] = visit[q]
  BY <1>1, <1>3, VisitWent, LoginAssumption DEF Rotate, VisitPlaces, Issued
<1>5. session' \in [Visit -> Visit \cup {NoVisit}] /\ refresh' \in [Visit -> Visit \cup {NoVisit}]
  BY <1>1, <1>2, <1>3 DEF LoginTypeOK
<1>6. LoginTyped'
  BY <1>1, <1>2, <1>3, <1>4, <1>5 DEF LoginTyped, LoginTypeOK, VisitPlaces, codeVars, lockVars, Issued
<1>7. CodesFresh'
  BY <1>1, <1>2 DEF CodesFresh, codeVars
<1>8. GuessesFit'
  BY <1>1, <1>2, <1>4, MissedSame DEF GuessesFit, GuessesBounded, lockVars
<1>9. SessionsFit'
  <2>1. \A q \in Visit : visit[q].at = "loggedIn" => visit'[q].at = "loggedIn"
    BY <1>2, <1>4
  <2>2. \A q \in Visit : visit'[q].at \in Issued \cup {"rotating"} => visit'[visit'[q].by].at = "loggedIn"
    BY <1>1, <1>3, <1>4, <2>1 DEF SessionsFit, LoginTyped
  <2>3. \A t \in Visit : refresh'[t] # NoVisit => refresh'[t] = refresh[t] \/ refresh'[t] = s
    BY <1>1, <1>2 DEF LoginTypeOK
  <2>4. \A t \in Visit : refresh'[t] # NoVisit => visit'[refresh'[t]].at = "loggedIn"
    BY <1>1, <1>3, <1>5, <2>1, <2>3 DEF SessionsFit, LoginTypeOK
  <2>5. ASSUME NEW u \in left'
        PROVE  session'[u] = NoVisit /\ ~Rotating(u)' /\ visit'[u].at = "loggedIn"
    <3>1. u \in Visit /\ session[u] = NoVisit /\ ~Rotating(u) /\ visit[u].at = "loggedIn"
      BY <1>1, <1>2 DEF SessionsFit, LoginTypeOK
    <3>2. u # s
      BY <1>2, <3>1 DEF Rotating, VisitAt
    <3>3. QED
      BY <1>1, <1>2, <1>4, <2>1, <3>1, <3>2 DEF Rotating, VisitAt, LoginTypeOK
  <2>6. QED
    BY <2>2, <2>4, <2>5 DEF SessionsFit
<1>10. CodesKept
  BY <1>2, <1>4 DEF CodesKept, VisitAt
<1>11. QED
  BY <1>6, <1>7, <1>8, <1>9, <1>10 DEF LoginInv

(* Deleting a session, and the token its hash names. *)
LEMMA RevokesFits ==
  ASSUME LoginTypeOK, NEW s \in Visit, Revokes(s)
  PROVE  /\ session' \in [Visit -> Visit \cup {NoVisit}] /\ refresh' \in [Visit -> Visit \cup {NoVisit}]
         /\ session'[s] = NoVisit
         /\ \A u \in Visit : session'[u] \in {session[u], NoVisit} /\ refresh'[u] \in {refresh[u], NoVisit}
BY DEF Revokes, LoginTypeOK

(* A request that ends, having at most deleted sessions and tokens. *)
LEMMA EndedKept ==
  ASSUME LoginInv, NEW r \in Visit, visit[r].at = "new", VisitEnds(r), UNCHANGED <<codeVars, lockVars>>,
         session' \in [Visit -> Visit \cup {NoVisit}], refresh' \in [Visit -> Visit \cup {NoVisit}],
         \A u \in Visit : session'[u] \in {session[u], NoVisit} /\ refresh'[u] \in {refresh[u], NoVisit},
         revoked' \subseteq Visit,
         NEW s \in Visit, left' \in {left, left \cup {s}},
         s \in left' => session'[s] = NoVisit /\ ~Rotating(s) /\ visit[s].at = "loggedIn"
  PROVE  LoginInv' /\ CodesKept
<1>1. LoginTyped /\ CodesFresh /\ GuessesFit /\ SessionsFit /\ LoginTypeOK
  BY DEF LoginInv, LoginTyped
<1>2. /\ visit' \in [Visit -> [at : VisitPlaces, of : 0 .. MaxCodes \cup Visit, by : Visit \cup {NoVisit}]]
      /\ visit'[r] = [at |-> "done", of |-> 0, by |-> NoVisit]
      /\ \A q \in Visit : q # r => visit'[q] = visit[q]
  BY <1>1, VisitWent, LoginAssumption DEF VisitEnds, VisitPlaces
<1>3. LoginTyped'
  BY <1>1, <1>2 DEF LoginTyped, LoginTypeOK, VisitPlaces, codeVars, lockVars, Issued
<1>4. CodesFresh'
  BY <1>1 DEF CodesFresh, codeVars
<1>5. GuessesFit'
  BY <1>1, <1>2, MissedSame DEF GuessesFit, GuessesBounded, lockVars
<1>6. SessionsFit'
  <2>1. \A q \in Visit : visit[q].at = "loggedIn" => visit'[q].at = "loggedIn"
    BY <1>2
  <2>2. \A q \in Visit : visit'[q].at \in Issued \cup {"rotating"} => visit'[q] = visit[q]
    BY <1>2 DEF Issued
  <2>3. \A q \in Visit : visit'[q].at \in Issued \cup {"rotating"} => visit'[visit'[q].by].at = "loggedIn"
    BY <1>1, <2>1, <2>2 DEF SessionsFit, LoginTyped
  <2>4. \A t \in Visit : refresh'[t] # NoVisit => visit'[refresh'[t]].at = "loggedIn"
    BY <1>1, <2>1 DEF SessionsFit, LoginTypeOK
  <2>5. \A u \in Visit : Rotating(u)' => Rotating(u)
    BY <2>2 DEF Rotating, VisitAt
  <2>6. \A u \in left' : session'[u] = NoVisit /\ ~Rotating(u)' /\ visit'[u].at = "loggedIn"
    BY <1>1, <2>1, <2>5 DEF SessionsFit, LoginTypeOK
  <2>7. QED
    BY <2>3, <2>4, <2>6 DEF SessionsFit
<1>7. CodesKept
  BY <1>2 DEF CodesKept, VisitAt
<1>8. QED
  BY <1>3, <1>4, <1>5, <1>6, <1>7 DEF LoginInv

LEMMA RefreshKept ==
  ASSUME LoginInv, NEW r \in Visit, NEW token \in Visit, Refresh(r, token)
  PROVE  LoginInv' /\ CodesKept
<1> DEFINE s == refresh[token]
<1>1. LoginTyped /\ CodesFresh /\ GuessesFit /\ SessionsFit /\ LoginTypeOK
  BY DEF LoginInv, LoginTyped
<1>2. visit[r].at = "new" /\ UNCHANGED <<codeVars, lockVars, revoked, left>> /\ s \in Visit \cup {NoVisit}
  BY <1>1 DEF Refresh, VisitAt, LoginTypeOK
<1>3. CASE s # NoVisit /\ session[s] = token
  <2>1. VisitGoes(r, "rotating", token, s) /\ UNCHANGED <<session, refresh>>
    BY <1>3 DEF Refresh
  <2>2. /\ visit' \in [Visit -> [at : VisitPlaces, of : 0 .. MaxCodes \cup Visit, by : Visit \cup {NoVisit}]]
        /\ visit'[r] = [at |-> "rotating", of |-> token, by |-> s]
        /\ \A q \in Visit : q # r => visit'[q] = visit[q]
    BY <1>1, <1>2, <2>1, VisitWent DEF VisitPlaces
  <2>3. LoginTyped'
    BY <1>1, <1>2, <1>3, <2>1, <2>2 DEF LoginTyped, LoginTypeOK, VisitPlaces, codeVars, lockVars, Issued
  <2>4. CodesFresh'
    BY <1>1, <1>2 DEF CodesFresh, codeVars
  <2>5. GuessesFit'
    BY <1>1, <1>2, <2>2, MissedSame DEF GuessesFit, GuessesBounded, lockVars
  <2>6. SessionsFit'
    <3>1. \A q \in Visit : visit[q].at = "loggedIn" => visit'[q].at = "loggedIn"
      BY <1>2, <2>2
    <3>2. \A q \in Visit : visit'[q].at \in Issued \cup {"rotating"} => visit'[visit'[q].by].at = "loggedIn"
      BY <1>1, <1>2, <1>3, <2>2, <3>1 DEF SessionsFit, LoginTyped
    <3>3. \A t \in Visit : refresh'[t] # NoVisit => visit'[refresh'[t]].at = "loggedIn"
      BY <1>1, <2>1, <3>1 DEF SessionsFit, LoginTypeOK
    <3>4. ASSUME NEW u \in left'
          PROVE  session'[u] = NoVisit /\ ~Rotating(u)' /\ visit'[u].at = "loggedIn"
      <4>1. u \in Visit /\ session[u] = NoVisit /\ ~Rotating(u) /\ visit[u].at = "loggedIn"
        BY <1>1, <1>2 DEF SessionsFit, LoginTypeOK
      <4>2. u # s
        BY <1>3, <4>1, LoginAssumption
      <4>3. QED
        BY <2>1, <2>2, <3>1, <4>1, <4>2 DEF Rotating, VisitAt
    <3>5. QED
      BY <3>2, <3>3, <3>4 DEF SessionsFit
  <2>7. CodesKept
    BY <1>2, <2>2 DEF CodesKept, VisitAt
  <2>8. QED
    BY <2>3, <2>4, <2>5, <2>6, <2>7 DEF LoginInv
<1>4. CASE ~(s # NoVisit /\ session[s] = token)
  <2>1. VisitEnds(r)
    BY <1>4 DEF Refresh
  <2>2. /\ session' \in [Visit -> Visit \cup {NoVisit}] /\ refresh' \in [Visit -> Visit \cup {NoVisit}]
        /\ \A u \in Visit : session'[u] \in {session[u], NoVisit} /\ refresh'[u] \in {refresh[u], NoVisit}
    <3>1. CASE UNCHANGED <<session, refresh>>
      BY <1>1, <3>1 DEF LoginTypeOK
    <3>2. CASE refresh' = [refresh EXCEPT ![token] = NoVisit] /\ UNCHANGED session
      BY <1>1, <3>2 DEF LoginTypeOK
    <3>3. CASE s # NoVisit /\ Revokes(s)
      BY <1>1, <1>2, <3>3, RevokesFits
    <3>4. QED
      BY <1>4, <3>1, <3>2, <3>3 DEF Refresh
  <2>3. left' = left /\ revoked' \subseteq Visit
    BY <1>1, <1>2 DEF LoginTypeOK
  <2>4. \A u \in left' : session'[u] = NoVisit /\ ~Rotating(u) /\ visit[u].at = "loggedIn"
    BY <1>1, <2>2, <2>3 DEF SessionsFit, LoginTypeOK
  <2>5. QED
    BY <1>2, <2>1, <2>2, <2>3, <2>4, EndedKept
<1>5. QED
  BY <1>3, <1>4

LEMMA LogOutKept ==
  ASSUME LoginInv, NEW r \in Visit, NEW tab \in Visit, LogOut(r, tab)
  PROVE  LoginInv' /\ CodesKept
<1> DEFINE s == IF ValidAccess(tab) THEN visit[tab].by ELSE refresh[tab]
<1>1. LoginTyped /\ CodesFresh /\ GuessesFit /\ SessionsFit /\ LoginTypeOK
  BY DEF LoginInv, LoginTyped
<1>2. visit[r].at = "new" /\ VisitEnds(r) /\ UNCHANGED <<codeVars, lockVars>> /\ revoked' \subseteq Visit
  BY <1>1 DEF LogOut, VisitAt, LoginTypeOK
<1>3. s # NoVisit => s \in Visit /\ visit[s].at = "loggedIn"
  BY <1>1 DEF SessionsFit, LoginTyped, LoginTypeOK, ValidAccess
<1>4. CASE s = NoVisit
  <2>1. UNCHANGED <<session, refresh, left>>
    BY <1>4 DEF LogOut
  <2>2. /\ session' \in [Visit -> Visit \cup {NoVisit}] /\ refresh' \in [Visit -> Visit \cup {NoVisit}]
        /\ \A u \in Visit : session'[u] \in {session[u], NoVisit} /\ refresh'[u] \in {refresh[u], NoVisit}
    BY <1>1, <2>1 DEF LoginTypeOK
  <2>3. \A u \in left' : session'[u] = NoVisit /\ ~Rotating(u) /\ visit[u].at = "loggedIn"
    BY <1>1, <2>1 DEF SessionsFit
  <2>4. QED
    BY <1>2, <2>1, <2>2, <2>3, EndedKept
<1>5. CASE s # NoVisit
  <2>1. Revokes(s) /\ left' = IF Rotating(s) THEN left ELSE left \cup {s}
    BY <1>5 DEF LogOut
  <2>2. /\ session' \in [Visit -> Visit \cup {NoVisit}] /\ refresh' \in [Visit -> Visit \cup {NoVisit}]
        /\ session'[s] = NoVisit
        /\ \A u \in Visit : session'[u] \in {session[u], NoVisit} /\ refresh'[u] \in {refresh[u], NoVisit}
    BY <1>1, <1>3, <1>5, <2>1, RevokesFits
  <2>3. s \in Visit /\ (s \in left' => session'[s] = NoVisit /\ ~Rotating(s) /\ visit[s].at = "loggedIn")
    BY <1>1, <1>3, <1>5, <2>1, <2>2 DEF SessionsFit
  <2>4. left' \in {left, left \cup {s}}
    BY <2>1
  <2> HIDE DEF s
  <2>5. QED
    BY <1>2, <2>2, <2>3, <2>4, EndedKept
<1>6. QED
  BY <1>4, <1>5

LEMMA LoginInvKept == LoginInv /\ LoginNext => LoginInv' /\ CodesKept
BY CodesAloneKept, MatchOtpKept, MissOtpKept, RecordFailureKept, SpendOtpKept, LogInKept, RotateKept,
   RefreshKept, LogOutKept DEF LoginNext

LEMMA LoginStutters == LoginInv /\ UNCHANGED loginVars => LoginInv' /\ CodesKept
<1> SUFFICES ASSUME LoginInv, UNCHANGED loginVars PROVE LoginInv' /\ CodesKept
  OBVIOUS
<1>1. LoginTyped' /\ CodesFresh' /\ CodesKept
  BY DEF loginVars, LoginInv, LoginTyped, LoginTypeOK, CodesFresh, CodesKept, VisitAt
<1>2. GuessesFit' /\ SessionsFit'
  BY DEF loginVars, LoginInv, GuessesFit, GuessesBounded, Missed, VisitAt, SessionsFit, Rotating
<1>3. QED
  BY <1>1, <1>2 DEF LoginInv

-----------------------------------------------------------------------------
(* Rate limits *)

Full(k) == Capacity(k[2]) * Window
Ttl == Most(2 * Window, MinTtl)

RateTyped ==
  /\ time \in Nat /\ steps \in Nat
  /\ skew \in [Process -> Int]
  /\ bucket \in [Keys -> [units : Int, last : Int, until : Int]]
  /\ granted \in [Keys -> Nat]

(* A bucket holds no more than its capacity. *)
BucketsFit == \A k \in Keys : bucket[k].units \in 0 .. Full(k)

(* With clocks that agree, a bucket is dated, lapses its time after that,  *)
(* and with what was granted from it holds what the rate has given.        *)
InRate ==
  steps = 0 =>
    /\ \A p \in Process : skew[p] = 0
    /\ \A k \in Keys : bucket[k] # None => bucket[k].last <= time /\ bucket[k].until = bucket[k].last + Ttl
    /\ \A k \in Keys : granted[k] * Window + Refilled(k, time) <= Full(k) + k[2].rate * time

(* A request takes from buckets there are. *)
RequestsFit ==
  /\ request = [p \in Process |-> request[p]]
  /\ \A p \in Process : \A turn \in request[p] : KeyAt(turn) \in Keys

RateInv == RateTyped /\ BucketsFit /\ InRate /\ RequestsFit

LEMMA Product == ASSUME NEW a \in Nat, NEW b \in Nat PROVE a * b \in Nat
OBVIOUS

LEMMA Scaled == ASSUME NEW a \in Int, NEW b \in Int, NEW c \in Nat, a <= b PROVE a * c <= b * c
OBVIOUS

LEMMA KeyFits ==
  ASSUME NEW k \in Keys
  PROVE  /\ k[2].rate \in Nat \ {0} /\ Capacity(k[2]) \in Nat \ {0} /\ Capacity(k[2]) <= 2 * k[2].rate
         /\ Full(k) \in Nat /\ Window \in Nat \ {0} /\ Ttl \in Nat \ {0} /\ 2 * Window <= Ttl
<1>1. k[2].rate \in Nat \ {0} /\ k[2].burst \in 0 .. 2 * k[2].rate
  BY RateLimitAssumption DEF Keys
<1>2. Capacity(k[2]) \in Nat \ {0} /\ Capacity(k[2]) <= 2 * k[2].rate
  BY <1>1 DEF Capacity
<1>3. Window \in Nat \ {0} /\ MinTtl \in Nat
  BY RateLimitAssumption
<1>4. Full(k) \in Nat
  BY <1>2, <1>3, Product DEF Full
<1>5. Ttl \in Nat \ {0} /\ 2 * Window <= Ttl
  BY <1>3 DEF Ttl, Most
<1>6. QED
  BY <1>1, <1>2, <1>3, <1>4, <1>5

LEMMA RateInitFits == RateInit => RateInv
<1> SUFFICES ASSUME RateInit PROVE RateInv
  OBVIOUS
<1>1. RateTyped
  BY DEF RateInit, RateTyped, None
<1>2. BucketsFit
  BY KeyFits DEF RateInit, BucketsFit, None
<1>3. \A k \in Keys : granted[k] = 0 /\ Refilled(k, time) = Full(k) /\ k[2].rate * time = 0
  BY KeyFits DEF RateInit, Refilled, Full
<1>4. \A k \in Keys : granted[k] * Window = 0 /\ Full(k) \in Nat
  BY <1>3, KeyFits
<1>5. InRate
  BY <1>3, <1>4 DEF RateInit, InRate
<1>6. RequestsFit
  BY DEF RateInit, RequestsFit
<1>7. QED
  BY <1>1, <1>2, <1>5, <1>6 DEF RateInv

(* What a bucket has been refilled to. *)
LEMMA RefilledFits ==
  ASSUME RateTyped, BucketsFit, NEW k \in Keys, NEW now \in Int
  PROVE  Refilled(k, now) \in 0 .. Full(k)
<1>1. bucket[k].units \in 0 .. Full(k) /\ bucket[k].last \in Int /\ Full(k) \in Nat /\ k[2].rate \in Nat
  BY KeyFits DEF RateTyped, BucketsFit
<1>2. Most(0, now - bucket[k].last) \in Nat
  BY <1>1 DEF Most
<1>3. Most(0, now - bucket[k].last) * k[2].rate \in Nat
  BY <1>1, <1>2, Product
<1>4. QED
  BY <1>1, <1>3 DEF Refilled, Least, Full

(* A bucket kept now is refilled to what was kept. *)
LEMMA KeptIsRefilled ==
  ASSUME RateTyped, NEW k \in Keys, NEW units \in 0 .. Full(k), time' = time, bucket'[k] = Kept(units, time)
  PROVE  Refilled(k, time)' = units
<1>1. /\ bucket'[k] # None /\ bucket'[k].units = units /\ bucket'[k].last = time
      /\ time \in Nat /\ Full(k) \in Nat /\ k[2].rate \in Nat /\ units \in Nat
  <2>1. time + Most(2 * Window, MinTtl) # -1
    BY KeyFits DEF RateTyped, Ttl
  <2>2. bucket'[k].until # None.until
    BY <2>1 DEF Kept, None
  <2>3. QED
    BY <2>2, KeyFits DEF Kept, RateTyped
<1>2. Most(0, time' - bucket'[k].last) = 0
  BY <1>1 DEF Most
<1>3. Most(0, time' - bucket'[k].last) * k[2].rate = 0
  BY <1>1, <1>2
<1>4. Refilled(k, time)' = Least(Full(k), bucket'[k].units + Most(0, time' - bucket'[k].last) * k[2].rate)
  BY <1>1 DEF Refilled, Full
<1>5. QED
  BY <1>1, <1>3, <1>4 DEF Least

(* What a request has left, and the buckets a new one asks, there are. *)
LEMMA FewerTurns ==
  ASSUME RequestsFit, NEW p \in Process, NEW fewer \in SUBSET request[p],
         request' = [request EXCEPT ![p] = fewer]
  PROVE  RequestsFit'
<1>1. \A q \in Process : request'[q] = IF q = p THEN fewer ELSE request[q]
  BY DEF RequestsFit
<1>2. request' = [q \in Process |-> request'[q]]
  BY DEF RequestsFit
<1>3. \A q \in Process : \A turn \in request'[q] : KeyAt(turn) \in Keys
  BY <1>1 DEF RequestsFit
<1>4. QED
  BY <1>2, <1>3 DEF RequestsFit, KeyAt, Keys

LEMMA BucketsThereAre ==
  ASSUME NEW path, NEW ip \in Ip \cup {NoIp}, NEW mail \in Mail \cup {NoMail},
         NEW turn \in BucketsOf(path, ip, mail)
  PROVE  KeyAt(turn) \in Keys
<1>1. PICK i \in Matched(path) : \E j \in DOMAIN Rules[i].buckets :
        turn = <<i, j, Identifier(Rules[i].buckets[j], ip, mail)>>
  BY DEF BucketsOf
<1>2. PICK j \in DOMAIN Rules[i].buckets : turn = <<i, j, Identifier(Rules[i].buckets[j], ip, mail)>>
  BY <1>1
<1>3. i \in DOMAIN Rules
  BY DEF Matched
<1>4. Rules[i] \in Range(Rules) /\ Rules[i].buckets[j] \in Range(Rules[i].buckets)
  BY <1>3 DEF Range
<1>5. turn[1] = i /\ turn[2] = j /\ turn[3] \in {ip, mail} /\ turn[3] \notin {NoIp, NoMail}
  BY <1>2 DEF BucketsOf, Identifier
<1>6. turn[3] \in Ip \cup Mail
  BY <1>5
<1>7. QED
  BY <1>4, <1>5, <1>6 DEF KeyAt, Keys

LEMMA AskKept ==
  ASSUME RateInv, NEW p \in Process, NEW path, NEW ip \in Ip \cup {NoIp}, NEW mail \in Mail \cup {NoMail},
         Ask(p, path, ip, mail)
  PROVE  RateInv'
<1>1. RequestsFit'
  <2>1. \A q \in Process : request'[q] = IF q = p THEN BucketsOf(path, ip, mail) ELSE request[q]
    BY DEF Ask, RateInv, RequestsFit
  <2>2. request' = [q \in Process |-> request'[q]]
    BY DEF Ask, RateInv, RequestsFit
  <2>3. \A q \in Process : \A turn \in request'[q] : KeyAt(turn) \in Keys
    BY <2>1, BucketsThereAre DEF RateInv, RequestsFit
  <2>4. QED
    BY <2>2, <2>3 DEF RequestsFit, KeyAt, Keys
<1>2. QED
  BY <1>1 DEF Ask, RateInv, RateTyped, BucketsFit, InRate, Refilled

(* A token is taken from what the bucket holds by now. *)
LEMMA ConsumeKept ==
  ASSUME RateInv, NEW p \in Process, Consume(p)
  PROVE  RateInv'
<1> PICK turn \in request[p] :
      /\ \/ /\ bucket' = [bucket EXCEPT ![KeyAt(turn)] = Kept(Refilled(KeyAt(turn), Now(p)), Now(p))]
            /\ request' = [request EXCEPT ![p] = {}]
            /\ UNCHANGED granted
         \/ /\ ~(Refilled(KeyAt(turn), Now(p)) < Window)
            /\ bucket' = [bucket EXCEPT ![KeyAt(turn)] = Kept(Refilled(KeyAt(turn), Now(p)) - Window, Now(p))]
            /\ request' = [request EXCEPT ![p] = request[p] \ {turn}]
            /\ granted' = [granted EXCEPT ![KeyAt(turn)] = granted[KeyAt(turn)] + 1]
      /\ UNCHANGED <<time, skew, asked, faults, steps>>
  BY DEF Consume
<1> DEFINE first == KeyAt(turn)
           units == Refilled(first, Now(p))
<1>1. RateTyped /\ BucketsFit /\ InRate /\ RequestsFit /\ first \in Keys
  BY DEF RateInv, RequestsFit
<1>2. time' = time /\ skew' = skew /\ steps' = steps /\ time \in Nat /\ Now(p) \in Int
  BY <1>1 DEF RateTyped, Now
<1>3. \/ UNCHANGED granted /\ bucket' = [bucket EXCEPT ![first] = Kept(units, Now(p))]
      \/ /\ ~(units < Window)
         /\ granted' = [granted EXCEPT ![first] = granted[first] + 1]
         /\ bucket' = [bucket EXCEPT ![first] = Kept(units - Window, Now(p))]
  OBVIOUS
<1>4. RequestsFit'
  <2>1. PICK fewer \in SUBSET request[p] : request' = [request EXCEPT ![p] = fewer]
    OBVIOUS
  <2>2. QED
    BY <1>1, <2>1, FewerTurns
<1>5. ASSUME NEW k \in Keys, k = first
      PROVE  RateInv'
  <2>1. units \in 0 .. Full(k) /\ Full(k) \in Nat /\ Window \in Nat \ {0} /\ granted[k] \in Nat
    BY <1>1, <1>2, <1>5, RefilledFits, KeyFits DEF RateTyped
  <2> HIDE DEF first, units
  <2>2. PICK kept \in 0 .. Full(k) :
          /\ bucket' = [bucket EXCEPT ![k] = Kept(kept, Now(p))]
          /\ \/ UNCHANGED granted /\ kept = units
             \/ granted' = [granted EXCEPT ![k] = granted[k] + 1] /\ kept = units - Window
    <3>1. CASE UNCHANGED granted /\ bucket' = [bucket EXCEPT ![k] = Kept(units, Now(p))]
      BY <2>1, <3>1
    <3>2. CASE /\ ~(units < Window)
               /\ granted' = [granted EXCEPT ![k] = granted[k] + 1]
               /\ bucket' = [bucket EXCEPT ![k] = Kept(units - Window, Now(p))]
      <4>1. units - Window \in 0 .. Full(k)
        BY <2>1, <3>2
      <4>2. QED
        BY <3>2, <4>1
    <3>3. QED
      BY <1>3, <1>5, <3>1, <3>2
  <2>3. Kept(kept, Now(p)) \in [units : Int, last : Int, until : Int] /\ Kept(kept, Now(p)).units = kept
    BY <1>2, <1>5, <2>1, KeyFits DEF Kept, Ttl
  <2>4. RateTyped'
    BY <1>1, <1>2, <1>5, <2>1, <2>2, <2>3 DEF RateTyped
  <2>5. /\ bucket'[k] = Kept(kept, Now(p))
        /\ \A l \in Keys : l # k => bucket'[l] = bucket[l] /\ granted'[l] = granted[l]
    BY <1>1, <1>5, <2>2 DEF RateTyped
  <2>6. BucketsFit'
    BY <1>1, <2>3, <2>5 DEF BucketsFit
  <2>7. InRate'
    <3> SUFFICES ASSUME steps = 0 PROVE InRate'
      BY <1>2 DEF InRate
    <3>1. Now(p) = time /\ \A q \in Process : skew'[q] = 0
      BY <1>1, <1>2 DEF InRate, Now, RateTyped
    <3>2. Refilled(k, time)' = kept
      <4>1. bucket'[k] = Kept(kept, time)
        BY <2>5, <3>1
      <4>2. QED
        BY <1>1, <1>2, <1>5, <4>1, KeptIsRefilled
    <3>3. granted'[k] * Window + kept = granted[k] * Window + units
      <4>1. CASE UNCHANGED granted /\ kept = units
        BY <4>1
      <4>2. CASE granted' = [granted EXCEPT ![k] = granted[k] + 1] /\ kept = units - Window
        <5>1. granted'[k] = granted[k] + 1
          BY <1>1, <1>5, <4>2 DEF RateTyped
        <5>2. granted'[k] * Window = granted[k] * Window + Window
          BY <2>1, <5>1
        <5>3. granted[k] * Window \in Nat
          BY <2>1, Product
        <5>4. QED
          BY <2>1, <4>2, <5>2, <5>3
      <4>3. QED
        BY <2>2, <4>1, <4>2
    <3>4. units = Refilled(k, time)
      BY <1>5, <3>1 DEF units
    <3>5. granted'[k] * Window + Refilled(k, time)' <= Full(k) + k[2].rate * time'
      BY <1>1, <1>2, <1>5, <3>2, <3>3, <3>4 DEF InRate
    <3>6. ASSUME NEW l \in Keys, l # k
          PROVE  granted'[l] * Window + Refilled(l, time)' <= Full(l) + l[2].rate * time'
      <4>1. Refilled(l, time)' = Refilled(l, time) /\ granted'[l] = granted[l]
        BY <1>2, <2>5, <3>6 DEF Refilled
      <4>2. QED
        BY <1>1, <1>2, <4>1 DEF InRate
    <3>7. ASSUME NEW l \in Keys, bucket'[l] # None
          PROVE  bucket'[l].last <= time' /\ bucket'[l].until = bucket'[l].last + Ttl
      <4>1. CASE l = k
        BY <1>2, <2>5, <3>1, <4>1 DEF Kept, Ttl
      <4>2. CASE l # k
        BY <1>1, <1>2, <2>5, <3>7, <4>2 DEF InRate
      <4>3. QED
        BY <4>1, <4>2
    <3>8. \A l \in Keys : granted'[l] * Window + Refilled(l, time)' <= Full(l) + l[2].rate * time'
      <4>1. ASSUME NEW l \in Keys
            PROVE  granted'[l] * Window + Refilled(l, time)' <= Full(l) + l[2].rate * time'
        <5>1. CASE l = k
          BY <3>5, <5>1
        <5>2. CASE l # k
          BY <3>6, <5>2
        <5>3. QED
          BY <5>1, <5>2
      <4>2. QED
        BY <4>1
    <3>9. QED
      BY <1>2, <3>1, <3>7, <3>8 DEF InRate, Full, Ttl
  <2>8. QED
    BY <1>4, <2>4, <2>6, <2>7 DEF RateInv
<1>6. QED
  BY <1>1, <1>5

(* A tick gives each bucket at most its rate; one that lapses was as good   *)
(* as full.                                                                *)
LEMMA TickRefills ==
  ASSUME RateInv, Tick, steps = 0, NEW k \in Keys
  PROVE  Refilled(k, time)' <= Refilled(k, time) + k[2].rate
<1> DEFINE rate == k[2].rate
           last == bucket[k].last
<1>1. RateTyped /\ BucketsFit /\ InRate
  BY DEF RateInv
<1>2. /\ time \in Nat /\ time' = time + 1 /\ rate \in Nat \ {0} /\ Full(k) \in Nat
      /\ bucket'[k] = IF bucket[k].until <= time' THEN None ELSE bucket[k]
  BY <1>1, KeyFits DEF Tick, RateTyped
<1>3. CASE bucket[k] = None
  <2>1. bucket'[k] = None
    BY <1>2, <1>3 DEF None
  <2>2. Refilled(k, time)' = Full(k) /\ Refilled(k, time) = Full(k)
    BY <1>3, <2>1 DEF Refilled, Full
  <2>3. QED
    BY <1>2, <2>2
<1>4. CASE bucket[k] # None
  <2>1. last \in Int /\ last <= time /\ bucket[k].until = last + Ttl /\ bucket[k].units \in Nat
    BY <1>1, <1>2, <1>4 DEF RateTyped, BucketsFit, InRate
  <2>2. Refilled(k, time) = Least(Full(k), bucket[k].units + (time - last) * rate)
    <3>1. Most(0, time - last) = time - last
      BY <1>2, <2>1 DEF Most
    <3>2. QED
      BY <1>4, <3>1 DEF Refilled, Full
  <2>3. (time + 1 - last) * rate = (time - last) * rate + rate /\ (time - last) * rate \in Int
    BY <1>2, <2>1
  <2>4. CASE bucket'[k] = bucket[k]
    <3>1. Most(0, time' - last) = time + 1 - last
      BY <1>2, <2>1 DEF Most
    <3>2. Refilled(k, time)' = Least(Full(k), bucket[k].units + (time + 1 - last) * rate)
      BY <1>4, <2>4, <3>1 DEF Refilled, Full
    <3> HIDE DEF rate, last
    <3>3. QED
      BY <1>2, <2>1, <2>2, <2>3, <3>2 DEF Least, rate
  <2>5. CASE bucket[k].until <= time' /\ bucket'[k] = None
    <3>1. Refilled(k, time)' = Full(k)
      BY <2>5 DEF Refilled, Full
    <3>2. 2 * Window <= time + 1 - last
      BY <1>2, <2>1, <2>5, KeyFits
    <3>3. (2 * Window) * rate <= (time + 1 - last) * rate
      BY <1>2, <2>1, <3>2, Scaled, KeyFits
    <3>4. Full(k) <= (2 * rate) * Window
      BY Scaled, KeyFits DEF Full
    <3>5. (2 * rate) * Window = (2 * Window) * rate
      BY <1>2, KeyFits
    <3>6. Full(k) <= bucket[k].units + (time - last) * rate + rate
      BY <1>2, <2>1, <2>3, <3>3, <3>4, <3>5, KeyFits
    <3> HIDE DEF rate, last
    <3>7. QED
      BY <1>2, <2>1, <2>2, <2>3, <3>1, <3>6 DEF Least, rate
  <2>6. QED
    BY <1>2, <2>4, <2>5
<1>5. QED
  BY <1>3, <1>4

LEMMA TickKept ==
  ASSUME RateInv, Tick
  PROVE  RateInv'
<1>1. RateTyped /\ BucketsFit /\ InRate
  BY DEF RateInv
<1>2. /\ time \in Nat /\ time' = time + 1 /\ UNCHANGED <<skew, granted, steps>>
      /\ bucket' = [k \in Keys |-> IF bucket[k].until <= time' THEN None ELSE bucket[k]]
  BY <1>1 DEF Tick, RateTyped
<1>3. \A k \in Keys : bucket'[k] \in {None, bucket[k]}
  BY <1>2
<1>4. RateTyped'
  BY <1>1, <1>2 DEF RateTyped, None
<1>5. BucketsFit'
  BY <1>1, <1>3, KeyFits DEF BucketsFit, None
<1>6. InRate'
  <2> SUFFICES ASSUME steps = 0 PROVE InRate'
    BY <1>2 DEF InRate
  <2>1. ASSUME NEW k \in Keys
        PROVE  granted'[k] * Window + Refilled(k, time)' <= Full(k) + k[2].rate * time'
    <3>1. Refilled(k, time)' <= Refilled(k, time) + k[2].rate
      BY TickRefills
    <3>2. granted[k] * Window + Refilled(k, time) <= Full(k) + k[2].rate * time /\ granted'[k] = granted[k]
      BY <1>1, <1>2 DEF InRate
    <3>3. k[2].rate * time' = k[2].rate * time + k[2].rate
      <4>1. k[2].rate \in Nat
        BY KeyFits
      <4>2. \A rate \in Nat : rate * (time + 1) = rate * time + rate
        BY <1>2
      <4>3. QED
        BY <1>2, <4>1, <4>2
    <3>4. /\ granted[k] * Window \in Nat /\ k[2].rate * time \in Nat /\ k[2].rate \in Nat /\ Full(k) \in Nat
          /\ Refilled(k, time) \in Int /\ Refilled(k, time)' \in Int
      <4>1. Refilled(k, time) \in Int
        BY <1>1, <1>2, RefilledFits
      <4>2. bucket'[k].units \in Int /\ bucket'[k].last \in Int /\ Full(k) \in Nat /\ k[2].rate \in Nat /\ time' \in Int
        BY <1>2, <1>4, KeyFits DEF RateTyped
      <4>3. Most(0, time' - bucket'[k].last) \in Nat
        BY <4>2 DEF Most
      <4>4. Most(0, time' - bucket'[k].last) * k[2].rate \in Nat
        BY <4>2, <4>3, Product
      <4>5. Refilled(k, time)' \in Int
        BY <4>2, <4>4 DEF Refilled, Least, Full
      <4>6. granted[k] \in Nat /\ Window \in Nat
        BY <1>1, KeyFits DEF RateTyped
      <4>7. QED
        BY <1>2, <4>1, <4>2, <4>5, <4>6, Product
    <3>5. QED
      BY <3>1, <3>2, <3>3, <3>4
  <2>2. ASSUME NEW k \in Keys, bucket'[k] # None
        PROVE  bucket'[k].last <= time' /\ bucket'[k].until = bucket'[k].last + Ttl
    <3>1. bucket'[k] = bucket[k] /\ bucket[k].last \in Int
      BY <1>1, <1>3, <2>2 DEF RateTyped
    <3>2. QED
      BY <1>1, <1>2, <2>2, <3>1 DEF InRate
  <2>3. QED
    BY <1>1, <1>2, <2>1, <2>2 DEF InRate, Full
<1>7. RequestsFit'
  BY DEF Tick, RateInv, RequestsFit
<1>8. QED
  BY <1>4, <1>5, <1>6, <1>7 DEF RateInv

LEMMA StepClockKept ==
  ASSUME RateInv, NEW p \in Process, NEW by \in -MaxSkew .. MaxSkew, StepClock(p, by)
  PROVE  RateInv'
<1>1. skew' \in [Process -> Int] /\ steps' \in Nat /\ steps' # 0
  BY RateLimitAssumption DEF StepClock, RateInv, RateTyped
<1>2. UNCHANGED <<time, bucket, granted, request>>
  BY DEF StepClock
<1>3. QED
  BY <1>1, <1>2 DEF RateInv, RateTyped, BucketsFit, InRate, RequestsFit

(* A request that cannot be checked. *)
LEMMA CannotCheckKept ==
  ASSUME RateInv, NEW p \in Process, CannotCheck(p)
  PROVE  RateInv'
<1>1. RequestsFit'
  BY FewerTurns DEF CannotCheck, RateInv
<1>2. QED
  BY <1>1 DEF CannotCheck, RateInv, RateTyped, BucketsFit, InRate, Refilled

LEMMA RateInvKept == RateInv /\ RateNext => RateInv'
<1> SUFFICES ASSUME RateInv, RateNext PROVE RateInv'
  OBVIOUS
<1>1. CASE Tick
  BY <1>1, TickKept
<1>2. ASSUME NEW p \in Process, NEW path, NEW ip \in Ip \cup {NoIp}, NEW mail \in Mail \cup {NoMail}, Ask(p, path, ip, mail)
      PROVE  RateInv'
  BY <1>2, AskKept
<1>3. ASSUME NEW p \in Process, Consume(p) PROVE RateInv'
  BY <1>3, ConsumeKept
<1>4. ASSUME NEW p \in Process, CannotCheck(p) PROVE RateInv'
  BY <1>4, CannotCheckKept
<1>5. ASSUME NEW p \in Process, NEW by \in -MaxSkew .. MaxSkew, StepClock(p, by) PROVE RateInv'
  BY <1>5, StepClockKept
<1>6. QED
  BY <1>1, <1>2, <1>3, <1>4, <1>5 DEF RateNext

LEMMA RateStutters == RateInv /\ UNCHANGED rateVars => RateInv'
BY DEF rateVars, RateInv, RateTyped, BucketsFit, InRate, Refilled, RequestsFit

(* What a bucket could still give is not negative. *)
LEMMA RateInvBounds == RateInv => GrantedWithinRateUnlessStepped
<1> SUFFICES ASSUME RateInv, steps = 0, NEW k \in Keys
             PROVE  granted[k] * Window <= Capacity(k[2]) * Window + k[2].rate * time
  BY DEF GrantedWithinRateUnlessStepped, GrantedWithinRate
<1>1. granted[k] * Window + Refilled(k, time) <= Full(k) + k[2].rate * time
  BY DEF RateInv, InRate
<1>2. Refilled(k, time) \in Nat
  BY RefilledFits, KeyFits DEF RateInv, RateTyped
<1>3. granted[k] * Window \in Nat /\ k[2].rate * time \in Nat /\ Full(k) \in Nat
  BY Product, KeyFits DEF RateInv, RateTyped
<1>4. Full(k) = Capacity(k[2]) * Window
  BY DEF Full
<1>5. QED
  BY <1>1, <1>2, <1>3, <1>4

-----------------------------------------------------------------------------
(* The four together *)

AccessInv == AdminInv /\ DeskInv /\ LoginInv /\ RateInv

LEMMA AccessInitFits == AccessInit => AccessInv
BY AdminInitFits, DeskInitFits, LoginInitFits, RateInitFits DEF AccessInit, AccessInv

LEMMA AccessInvKept == AccessInv /\ [AccessNext]_accessVars => AccessInv' /\ NumbersKept /\ CodesKept
<1> SUFFICES ASSUME AccessInv, [AccessNext]_accessVars PROVE AccessInv' /\ NumbersKept /\ CodesKept
  OBVIOUS
<1>1. AdminInv' /\ DeskInv' /\ LoginInv' /\ RateInv' /\ NumbersKept /\ CodesKept
  <2>1. AdminNext \/ UNCHANGED adminVars
    BY DEF AccessNext, accessVars
  <2>2. DeskNext \/ UNCHANGED deskVars
    BY DEF AccessNext, accessVars
  <2>3. LoginNext \/ UNCHANGED loginVars
    BY DEF AccessNext, accessVars
  <2>4. RateNext \/ UNCHANGED rateVars
    BY DEF AccessNext, accessVars
  <2>5. AdminInv' /\ RateInv'
    BY <2>1, <2>4, AdminInvKept, AdminStutters, RateInvKept, RateStutters DEF AccessInv
  <2>6. DeskInv' /\ NumbersKept
    BY <2>2, DeskInvKept, DeskStutters DEF AccessInv
  <2>7. LoginInv' /\ CodesKept
    BY <2>3, LoginInvKept, LoginStutters DEF AccessInv
  <2>8. QED
    BY <2>5, <2>6, <2>7
<1>2. QED
  BY <1>1 DEF AccessInv

LEMMA AccessInvHolds == AccessSpec => []AccessInv
BY AccessInitFits, AccessInvKept, PTL DEF AccessSpec

(* A deactivated admin gets no token, changed scopes reach every token, a  *)
(* replaced authenticator stays out; who logged out is out, and guesses of *)
(* a code are bounded; no key is granted more than its rate while the      *)
(* clocks agree; and an admin of some regions is shown theirs alone.       *)
THEOREM ShutOutStayOut == AccessSpec => []AccessHolds
<1>1. AccessInv => AccessHolds
  <2> SUFFICES ASSUME AccessInv PROVE AccessHolds
    OBVIOUS
  <2>1. DeactivatedGetNoToken /\ ScopesReachTokens /\ RetiredSecretStaysOut
    BY DEF AccessInv, AdminInv, BarredWait, RescopedFit, RetiredAreGone, DeactivatedGetNoToken
  <2>2. LoggedOutIsOut /\ GuessesBounded
    BY DEF AccessInv, LoginInv, SessionsFit, GuessesFit, LoggedOutIsOut, ValidAccess
  <2>3. GrantedWithinRateUnlessStepped /\ ShownIsInScope
    BY RateInvBounds DEF AccessInv, DeskInv
  <2>4. QED
    BY <2>1, <2>2, <2>3 DEF AccessHolds
<1>2. QED
  BY <1>1, AccessInvHolds, PTL

(* An order's invoice number is its own and stays, though two requests may *)
(* draw one at once; a code that was used is not accepted again by a       *)
(* request that had not compared it by then.                               *)
THEOREM NumbersAndCodesSpentOnce == AccessSpec => SpentOnce
<1>1. AccessInv /\ [AccessNext]_accessVars => [NumbersKept]_deskVars /\ [CodesKept]_loginVars
  BY AccessInvKept
<1>2. AccessSpec => [][NumbersKept]_deskVars /\ [][CodesKept]_loginVars
  BY <1>1, AccessInvHolds, PTL DEF AccessSpec
<1>3. QED
  BY <1>2 DEF SpentOnce, InvoiceNumberIsFinal, CodeUsedOnceUnlessRaced, NumbersKept, CodesKept

(* The admins, sessions, secrets, orders, pages, codes and logins are in   *)
(* their types; a bucket holds between nothing and its capacity, and a     *)
(* request takes from the buckets of the rules alone.                      *)
THEOREM AccessTyped == AccessSpec => []AccessTypeOK
<1>1. AccessInv => RateTypeOK
  BY DEF AccessInv, RateInv, BucketsFit, RequestsFit, RateTypeOK, Full
<1>2. AccessInv => AccessTypeOK
  BY <1>1 DEF AccessTypeOK, AccessInv, AdminInv, AdminTyped, DeskInv, DeskTyped, LoginInv, LoginTyped
<1>3. QED
  BY <1>2, AccessInvHolds, PTL
=============================================================================
