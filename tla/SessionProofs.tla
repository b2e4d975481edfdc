----------------------------- MODULE SessionProofs -----------------------------
(***************************************************************************)
(* Proofs about Session, for every number of calls, links and profiles and *)
(* every bound.  The types, the queue of calls and the page a sign-in ends *)
(* on are proved whatever Calm, BootAlone and InOrder are; that the store, *)
(* the refresh cookie and the gate agree if they hold.                     *)
(***************************************************************************)
EXTENDS Session, SequenceTheorems, TLAPS

RequestState == [st : {"idle", "sent", "queued", "owner"},
                 with : {"none", "live", "old"}, retry : BOOLEAN]
RefreshState == {"idle", "good", "kept", "bad", "granted", "refused"}

(* the profiles are profiles, the token is none, live or old, and a change *)
(* is one of the three                                                     *)
ChangeState == [kind : {"enable", "disable", "register"},
                st : {"idle", "sent", "me", "save", "done"}]
StoreInv ==
  /\ account \in Profile
  /\ store \in [user : MaybeProfile, token : {"none", "live", "old"}, ready : BOOLEAN]
  /\ change \in ChangeState

(* ... and so is the rest, but for the calls *)
RestTyped ==
  /\ registered \in BOOLEAN
  /\ gate \in MaybeProfile /\ jar \in {"none", "good", "spent"}
  /\ boot \in {"refresh", "me", "clear", "done"} /\ syncs \in Seq(SyncCall)
  /\ form \in {"idle", "password", "register", "totp", "code", "merge", "save"}
  /\ caller \in [here : BOOLEAN, to : Pages \cup {None}, user : MaybeProfile]
  /\ change \in [kind : Kinds \cup {"register"}, st : {"idle", "sent", "me", "save", "done"}]
  /\ out \in {"none", "good", "kept", "bad", "answered"}
  /\ leaving \in BOOLEAN /\ missed \in BOOLEAN
  /\ page \in Pages /\ next \in Pages \cup {None} /\ expiries \in 0 .. MaxExpiries

LEMMA InitStore == Init => StoreInv
BY SessionAssumption DEF Init, StoreInv, MaybeProfile, NoChange, ChangeState

LEMMA NextKeepsStore == StoreInv /\ RestTyped /\ [Next]_sessionVars => StoreInv'
<1> SUFFICES ASSUME StoreInv, RestTyped, [Next]_sessionVars PROVE StoreInv'
  OBVIOUS
<1>1. CASE UNCHANGED <<account, store, change>>
  BY <1>1 DEF StoreInv
<1>2. CASE account' = account /\ change' \in {change, NoChange}
           /\ store' \in [user : MaybeProfile, token : {"none", "live", "old"}, ready : BOOLEAN]
  BY <1>2 DEF StoreInv, NoChange, ChangeState
<1>3. CASE BootMe \/ StoreLogin
  <2>1. /\ account' = account /\ change' = change
        /\ \/ store' = [user |-> account, token |-> "live", ready |-> TRUE]
           \/ store' = [store EXCEPT !.user = caller.user, !.token = "live"]
    BY <1>3 DEF BootMe, StoreLogin, server, flows
  <2>2. store' \in [user : MaybeProfile, token : {"none", "live", "old"}, ready : BOOLEAN]
    <3>1. account \in MaybeProfile /\ caller.user \in MaybeProfile
      BY DEF StoreInv, RestTyped, MaybeProfile
    <3>2. CASE store' = [user |-> account, token |-> "live", ready |-> TRUE]
      BY <3>1, <3>2
    <3>3. CASE store' = [store EXCEPT !.user = caller.user, !.token = "live"]
      BY <3>1, <3>3 DEF StoreInv
    <3> QED
      BY <2>1, <3>2, <3>3
  <2>3. change' \in ChangeState
    BY <2>1 DEF StoreInv, NoChange, ChangeState
  <2> QED
    BY <2>1, <2>2, <2>3 DEF StoreInv
<1>4. CASE SignOut \/ ApiRefreshFails
  <2>1. /\ account' = account /\ change' = change
        /\ store' = [store EXCEPT !.user = None, !.token = "none"]
    BY <1>4 DEF SignOut, ApiRefreshFails, server, flows
  <2>2. store' \in [user : MaybeProfile, token : {"none", "live", "old"}, ready : BOOLEAN]
    BY <2>1 DEF StoreInv, MaybeProfile
  <2> QED
    BY <2>1, <2>2 DEF StoreInv
<1>5. CASE ApiRefreshed \/ Expire
  BY <1>2, <1>5 DEF StoreInv, ApiRefreshed, TokenRefreshed, Expire, server, flows
<1>6. ASSUME change.st = "sent" PROVE Changed \in Profile
  <2>1. account \in Profile /\ change.kind \in {"enable", "disable", "register"}
    BY DEF StoreInv, ChangeState
  <2>2. Changed \in {[account EXCEPT !.totp = TRUE], [account EXCEPT !.totp = FALSE],
                     [account EXCEPT !.role = "SUPPLIER"]}
    BY <2>1 DEF Changed
  <2> QED
    BY <2>1, <2>2 DEF Profile
<1>7. CASE ChangeMade
  <2>1. account' = Changed /\ store' = store /\ change.st = "sent"
        /\ change' = [change EXCEPT !.st = "me"]
    BY <1>7 DEF ChangeMade
  <2>2. change' \in ChangeState
    BY <2>1 DEF StoreInv, ChangeState
  <2> QED
    BY <1>6, <2>1, <2>2 DEF StoreInv
<1>8. CASE TotpChanged \/ SellerRegistered
  <2>1. account' = account /\ store' = [store EXCEPT !.user = account]
    BY <1>8 DEF TotpChanged, SellerRegistered, UserSet, server
  <2>2. change' \in {NoChange, [change EXCEPT !.st = "save"], [change EXCEPT !.st = "done"]}
    BY <1>8 DEF TotpChanged, SellerRegistered
  <2> QED
    BY <2>1, <2>2 DEF StoreInv, MaybeProfile, NoChange, ChangeState
<1>9. ASSUME NEW i \in DOMAIN syncs, SyncAnswered(i) \/ SyncLost(i) PROVE StoreInv'
  <2>1. /\ account' = account /\ (store' = store \/ store' = [store EXCEPT !.ready = TRUE])
        /\ change' \in {change, NoChange}
    BY <1>9 DEF SyncAnswered, SyncLost, Awaited, ChangeLeft, server
  <2> QED
    BY <1>2, <2>1 DEF StoreInv
<1>10. ASSUME NEW k \in Kinds, StartChange(k) PROVE StoreInv'
  BY <1>10, SessionAssumption DEF StoreInv, StartChange, ChangeState, server
<1>11. CASE ChangeFails
  <2>1. /\ account' = account /\ store' = store
        /\ change' \in {NoChange, [change EXCEPT !.st = "done"]}
    BY <1>11 DEF ChangeFails, server
  <2> QED
    BY <2>1 DEF StoreInv, NoChange, ChangeState
<1>12. CASE GoToDashboard \/ \E p \in Links[page] : Visit(p)
  BY <1>2, <1>12 DEF GoToDashboard, Visit, ChangeLeft, server, StoreInv
<1>13. CASE \/ UNCHANGED sessionVars \/ Guard
            \/ (\E i \in DOMAIN syncs : SyncHandled(i))
            \/ (\E w \in Refreshers : RefreshHandled(w))
            \/ BootRefreshed \/ BootFails
            \/ (\E r \in Requests : Send(r) \/ Answered(r) \/ Unauthorised(r))
  BY <1>1, <1>13 DEF sessionVars, Guard, SyncHandled, RefreshHandled,
     BootRefreshed, BootFails, Send, Answered, Unauthorised, server, flows
<1>14. CASE \/ SubmitLogin \/ SubmitRegistration \/ SubmitCode \/ BackToLogin
            \/ SignInFails \/ LoginAnswered \/ CodeAnswered \/ RegisterAnswered
            \/ SignOutHandled \/ SignOutAnswered \/ SignOutLost
  BY <1>1, <1>14 DEF SubmitLogin, SubmitRegistration, SubmitCode, Submitted, BackToLogin,
     SignInFails, LoginAnswered, CodeAnswered, RegisterAnswered, SignedIn, SignOutHandled,
     SignOutAnswered, SignOutLost, server
<1>15. ASSUME NEW p \in Links[page] \cup {page}, Reload(p) PROVE StoreInv'
  <2>1. /\ account' = account \/ (change.st = "sent" /\ account' = Changed)
        /\ store' = [user |-> None, token |-> "none", ready |-> FALSE] /\ change' = NoChange
    BY <1>15 DEF Reload, CutOff
  <2> QED
    BY <1>6, <2>1 DEF StoreInv, NoChange, ChangeState, MaybeProfile
<1> QED
  BY <1>3, <1>4, <1>5, <1>7, <1>8, <1>9, <1>10, <1>11, <1>12, <1>13, <1>14, <1>15
     DEF Next

(* the calls and the refresh they wait for *)
QueueInv ==
  /\ req \in [Requests -> RequestState]
  /\ rotate \in [Refreshers -> RefreshState]
  /\ QueueServed

queueVars == <<req, rotate>>

(* The page load starts with nothing queued. *)
LEMMA InitQueue == Init => QueueInv
BY DEF Init, QueueInv, QueueServed, RequestState, RefreshState, Refreshers,
       IdleReq, Waiting, Cookie, CookieIn

(* What changes neither the calls nor the refresh keeps the invariant. *)
LEMMA QueueKept == QueueInv /\ UNCHANGED queueVars => QueueInv'
BY DEF QueueInv, QueueServed, Waiting, queueVars

(* The refresh of the page load is not the one calls queue behind. *)
LEMMA RefreshKeepsQueue ==
  ASSUME QueueInv, req' = req, rotate' \in [Refreshers -> RefreshState],
         (rotate["api"] = "idle") <=> (rotate'["api"] = "idle")
  PROVE  QueueInv'
BY DEF QueueInv, QueueServed, Waiting

(* A 401 makes a call the owner of a new refresh, or queues it behind one. *)
LEMMA UnauthorisedKeepsQueue ==
  ASSUME QueueInv, NEW r \in Requests, Unauthorised(r)
  PROVE  QueueInv'
<1>1. req[r] \in RequestState
  BY DEF QueueInv
<1>2. CASE req[r].retry
  <2>1. req' = [req EXCEPT ![r] = IdleReq] /\ rotate' = rotate /\ req[r].st = "sent"
    BY <1>2 DEF Unauthorised
  <2> QED
    BY <1>1, <2>1 DEF QueueInv, QueueServed, Waiting, IdleReq, RequestState
<1>3. CASE ~req[r].retry /\ rotate["api"] # "idle"
  <2>1. req' = [req EXCEPT ![r].st = "queued", ![r].with = "none"] /\ rotate' = rotate
    BY <1>3 DEF Unauthorised
  <2>2. req' \in [Requests -> RequestState]
    BY <1>1, <2>1 DEF QueueInv, RequestState
  <2>3. \A x \in Requests : req'[x].st = "owner" <=> req[x].st = "owner"
    BY <1>1, <2>1 DEF QueueInv, Unauthorised, RequestState
  <2> QED
    BY <1>3, <2>1, <2>2, <2>3 DEF QueueInv, QueueServed
<1>4. CASE ~req[r].retry /\ rotate["api"] = "idle"
  <2>1. /\ req' = [req EXCEPT ![r] = [st |-> "owner", with |-> "none", retry |-> TRUE]]
        /\ rotate' = [rotate EXCEPT !["api"] = Cookie]
    BY <1>4 DEF Unauthorised
  <2>2. \A x \in Requests : ~Waiting(x)
    BY <1>4 DEF QueueInv, QueueServed
  <2>3. rotate'["api"] # "idle" /\ rotate' \in [Refreshers -> RefreshState]
    BY <2>1 DEF QueueInv, Cookie, CookieIn, Refreshers, RefreshState
  <2>4. req' \in [Requests -> RequestState]
    BY <2>1 DEF QueueInv, RequestState
  <2>5. \A x \in Requests : req'[x].st = "owner" <=> x = r
    BY <2>1, <2>2 DEF QueueInv, Waiting
  <2> QED
    BY <2>3, <2>4, <2>5 DEF QueueInv, QueueServed
<1> QED
  BY <1>1, <1>2, <1>3, <1>4 DEF RequestState

(* A new cookie ends the refresh that brings it, and no other. *)
LEMMA NewCookieIs ==
  ASSUME QueueInv, NEW w, NewCookie(w)
  PROVE  /\ rotate' \in [Refreshers -> RefreshState]
         /\ \A x \in Refreshers : rotate'[x] = IF x = w THEN "idle" ELSE Kept(rotate[x])
         /\ \A x \in Refreshers : x # w => (rotate'[x] = "idle" <=> rotate[x] = "idle")
BY DEF QueueInv, NewCookie, Kept, RefreshState

(* drainQueue leaves nothing waiting. *)
LEMMA DrainKeepsQueue ==
  ASSUME QueueInv, req' = Resent \/ req' = Rejected,
         rotate' \in [Refreshers -> RefreshState], rotate'["api"] = "idle"
  PROVE  QueueInv'
<1>1. /\ req' \in [Requests -> RequestState]
      /\ \A r \in Requests : req'[r].st \notin {"queued", "owner"}
  <2>1. CASE req' = Resent
    <3>1. ASSUME NEW r \in Requests
          PROVE  req'[r] \in RequestState /\ req'[r].st \notin {"queued", "owner"}
      <4>1. req[r] \in RequestState /\ req'[r] = Resent[r]
        BY <2>1 DEF QueueInv
      <4>2. CASE Waiting(r)
        BY <4>1, <4>2 DEF Resent, RequestState
      <4>3. CASE ~Waiting(r)
        BY <4>1, <4>3 DEF Resent, Waiting
      <4> QED
        BY <4>2, <4>3
    <3> QED
      BY <2>1, <3>1 DEF Resent
  <2>2. CASE req' = Rejected
    BY <2>2 DEF QueueInv, Rejected, IdleReq, Waiting, RequestState
  <2> QED
    BY <2>1, <2>2
<1>2. \A r \in Requests : ~Waiting(r)'
  BY <1>1 DEF Waiting
<1> QED
  BY <1>1, <1>2 DEF QueueInv, QueueServed, Waiting

LEMMA NextKeepsQueue == QueueInv /\ StoreInv /\ [Next]_sessionVars => QueueInv'
<1> SUFFICES ASSUME QueueInv, StoreInv, [Next]_sessionVars PROVE QueueInv'
  OBVIOUS
<1>1. CASE UNCHANGED sessionVars
  BY <1>1, QueueKept DEF sessionVars, queueVars
<1>2. CASE Guard \/ (\E p \in Links[page] : Visit(p)) \/ GoToDashboard
  BY <1>2, QueueKept DEF Guard, Visit, GoToDashboard, queueVars
<1>3. CASE \E i \in DOMAIN syncs : SyncHandled(i) \/ SyncAnswered(i) \/ SyncLost(i)
  BY <1>3, QueueKept DEF SyncHandled, SyncAnswered, SyncLost, queueVars
<1>4. ASSUME NEW w \in Refreshers, RefreshHandled(w) PROVE QueueInv'
  <2>1. req' = req
    BY <1>4 DEF RefreshHandled
  <2>2. rotate' \in [Refreshers -> RefreshState]
    BY <1>4 DEF RefreshHandled, QueueInv, RefreshState
  <2>3. (rotate["api"] = "idle") <=> (rotate'["api"] = "idle")
    BY <1>4 DEF RefreshHandled, QueueInv, Refreshers, RefreshState
  <2> QED
    BY <2>1, <2>2, <2>3, RefreshKeepsQueue
<1>5. CASE BootFails
  <2>1. req' = req /\ rotate' = [rotate EXCEPT !["boot"] = "idle"]
    BY <1>5 DEF BootFails
  <2> QED
    BY <2>1, RefreshKeepsQueue DEF QueueInv, Refreshers, RefreshState
<1>16. CASE BootRefreshed \/ LoginAnswered \/ CodeAnswered \/ RegisterAnswered
  <2>1. req' = req
    BY <1>16 DEF BootRefreshed, LoginAnswered, CodeAnswered, RegisterAnswered, SignedIn
  <2>2. CASE rotate' = rotate
    BY <2>1, <2>2, QueueKept DEF queueVars
  <2>3. CASE NewCookie("boot") \/ NewCookie("form")
    BY <2>1, <2>3, NewCookieIs, RefreshKeepsQueue DEF Refreshers
  <2> QED
    BY <1>16, <2>2, <2>3 DEF BootRefreshed, LoginAnswered, CodeAnswered, RegisterAnswered, SignedIn
<1>6. CASE BootMe
  BY <1>6, QueueKept DEF BootMe, queueVars
<1>7. ASSUME NEW r \in Requests, Send(r) \/ Answered(r) PROVE QueueInv'
  <2>1. rotate' = rotate /\ req[r].st \in {"idle", "sent"}
    BY <1>7 DEF Send, Answered
  <2>2. PICK to \in RequestState : /\ to.st \in {"idle", "sent"}
                                   /\ req' = [req EXCEPT ![r] = to]
    <3>1. CASE Answered(r)
      BY <3>1 DEF Answered, IdleReq, RequestState
    <3>2. CASE Send(r)
      BY <3>2 DEF Send, StoreInv, RequestState
    <3> QED
      BY <1>7, <3>1, <3>2
  <2> QED
    BY <2>1, <2>2 DEF QueueInv, QueueServed, Waiting
<1>8. ASSUME NEW r \in Requests, Unauthorised(r) PROVE QueueInv'
  BY <1>8, UnauthorisedKeepsQueue
<1>9. CASE ApiRefreshed
  <2>1. req' = Resent /\ NewCookie("api")
    BY <1>9 DEF ApiRefreshed
  <2> QED
    BY <2>1, NewCookieIs, DrainKeepsQueue DEF Refreshers
<1>17. CASE ApiRefreshFails
  <2>1. req' = Rejected /\ rotate' = [rotate EXCEPT !["api"] = "idle"]
    BY <1>17 DEF ApiRefreshFails
  <2>2. rotate' \in [Refreshers -> RefreshState] /\ rotate'["api"] = "idle"
    BY <2>1 DEF QueueInv, Refreshers, RefreshState
  <2> QED
    BY <2>1, <2>2, DrainKeepsQueue
<1>10. CASE Expire
  <2>1. rotate' = rotate /\ req' \in [Requests -> RequestState]
    BY <1>10 DEF Expire, QueueInv, RequestState
  <2>2. \A r \in Requests : req'[r].st = req[r].st
    BY <1>10 DEF Expire, QueueInv, RequestState
  <2> QED
    BY <2>1, <2>2 DEF QueueInv, QueueServed, Waiting
<1>11. CASE \/ SubmitLogin \/ SubmitRegistration \/ SubmitCode \/ BackToLogin
            \/ SignInFails \/ StoreLogin
  BY <1>11, QueueKept DEF SubmitLogin, SubmitRegistration, SubmitCode, Submitted, BackToLogin,
     SignInFails, StoreLogin, queueVars
<1>12. CASE SignOut \/ SignOutAnswered \/ SignOutLost
  BY <1>12, QueueKept DEF SignOut, SignOutAnswered, SignOutLost, queueVars
<1>13. CASE SignOutHandled
  <2>1. req' = req
    BY <1>13 DEF SignOutHandled
  <2>2. /\ rotate' \in [Refreshers -> RefreshState]
        /\ (rotate["api"] = "idle") <=> (rotate'["api"] = "idle")
    BY <1>13 DEF SignOutHandled, QueueInv, Refreshers, RefreshState
  <2> QED
    BY <2>1, <2>2, RefreshKeepsQueue
<1>14. CASE \/ \E k \in Kinds : StartChange(k)
            \/ ChangeMade \/ ChangeFails \/ TotpChanged \/ SellerRegistered
  BY <1>14, QueueKept DEF StartChange, ChangeMade, ChangeFails, TotpChanged,
     SellerRegistered, UserSet, queueVars
<1>15. ASSUME NEW p \in Links[page] \cup {page}, Reload(p) PROVE QueueInv'
  <2>1. /\ rotate' = [w \in Refreshers |-> IF w = "boot" THEN CookieIn(jar') ELSE "idle"]
        /\ req' = [r \in Requests |-> IdleReq]
    BY <1>15 DEF Reload
  <2> QED
    BY <2>1 DEF QueueInv, QueueServed, Waiting, IdleReq, CookieIn, Refreshers, RefreshState,
       RequestState
<1> QED
  BY <1>1, <1>2, <1>3, <1>4, <1>5, <1>6, <1>7, <1>8, <1>9, <1>10, <1>11, <1>12,
     <1>13, <1>14, <1>15, <1>16, <1>17 DEF Next

-----------------------------------------------------------------------------
(* Types                                                                   *)

LEMMA RemovedIs ==
  ASSUME NEW S, NEW s \in Seq(S), NEW i \in DOMAIN s
  PROVE  /\ RemoveAt(s, i) \in Seq(S) /\ Len(RemoveAt(s, i)) = Len(s) - 1
         /\ \A j \in DOMAIN RemoveAt(s, i) :
              RemoveAt(s, i)[j] = IF j < i THEN s[j] ELSE s[j + 1]
         /\ \A j \in DOMAIN RemoveAt(s, i) : \E k \in DOMAIN s : RemoveAt(s, i)[j] = s[k]
<1> DEFINE a == SubSeq(s, 1, i - 1)
           b == SubSeq(s, i + 1, Len(s))
<1>1. Len(s) \in Nat /\ DOMAIN s = 1 .. Len(s) /\ i \in 1 .. Len(s)
  BY LenProperties
<1>2. \A j \in 1 .. Len(s) : s[j] \in S
  BY ElementOfSeq
<1>3. a \in Seq(S) /\ Len(a) = i - 1 /\ \A j \in 1 .. i - 1 : a[j] = s[j]
  <2>1. \A j \in 1 .. i - 1 : s[j] \in S
    BY <1>1, <1>2
  <2>2. /\ a \in Seq(S) /\ Len(a) = IF 1 <= i - 1 THEN (i - 1) - 1 + 1 ELSE 0
        /\ \A j \in 1 .. (i - 1) - 1 + 1 : a[j] = s[1 + j - 1]
    BY <1>1, <2>1, SubSeqProperties
  <2>. QED BY <1>1, <2>2
<1>4. b \in Seq(S) /\ Len(b) = Len(s) - i /\ \A j \in 1 .. Len(s) - i : b[j] = s[i + j]
  <2>1. \A j \in i + 1 .. Len(s) : s[j] \in S
    BY <1>1, <1>2
  <2>2. /\ b \in Seq(S) /\ Len(b) = IF i + 1 <= Len(s) THEN Len(s) - (i + 1) + 1 ELSE 0
        /\ \A j \in 1 .. Len(s) - (i + 1) + 1 : b[j] = s[(i + 1) + j - 1]
    BY <1>1, <2>1, SubSeqProperties
  <2>. QED BY <1>1, <2>2
<1> HIDE DEF a, b
<1>5. RemoveAt(s, i) = a \o b
  BY DEF RemoveAt, a, b
<1>6. /\ RemoveAt(s, i) \in Seq(S) /\ Len(RemoveAt(s, i)) = Len(s) - 1
      /\ \A j \in 1 .. Len(s) - 1 :
           RemoveAt(s, i)[j] = IF j <= i - 1 THEN a[j] ELSE b[j - (i - 1)]
  <2>1. /\ a \o b \in Seq(S) /\ Len(a \o b) = Len(a) + Len(b)
        /\ \A j \in 1 .. Len(a) + Len(b) : (a \o b)[j] = IF j <= Len(a) THEN a[j] ELSE b[j - Len(a)]
    BY <1>3, <1>4, ConcatProperties
  <2>2. Len(a) + Len(b) = Len(s) - 1
    BY <1>1, <1>3, <1>4
  <2>. QED BY <1>3, <1>5, <2>1, <2>2
<1>7. DOMAIN RemoveAt(s, i) = 1 .. Len(s) - 1
  BY <1>6, LenProperties
<1>8. ASSUME NEW j \in 1 .. Len(s) - 1
      PROVE  RemoveAt(s, i)[j] = IF j < i THEN s[j] ELSE s[j + 1]
  <2>1. CASE j < i
    BY <1>1, <1>3, <1>6, <2>1
  <2>2. CASE ~(j < i)
    <3>1. j - (i - 1) \in 1 .. Len(s) - i /\ i + (j - (i - 1)) = j + 1 /\ ~(j <= i - 1)
      BY <1>1, <2>2
    <3>. QED BY <1>4, <1>6, <2>2, <3>1
  <2>. QED BY <2>1, <2>2
<1>9. ASSUME NEW j \in 1 .. Len(s) - 1
      PROVE  j \in DOMAIN s /\ j + 1 \in DOMAIN s
  BY <1>1
<1>. QED BY <1>6, <1>7, <1>8, <1>9

(* a call that goes out *)
LEMMA SentTyped ==
  ASSUME RestTyped, NEW by \in Senders,
         NEW token \in {"none", "live", "old"}, Posted(by, token) \/ Deleted(by)
  PROVE  /\ syncs' \in Seq(SyncCall) /\ Len(syncs') = Len(syncs) + 1
         /\ DOMAIN syncs' = 1 .. Len(syncs) + 1
         /\ \A i \in 1 .. Len(syncs) : syncs'[i] = syncs[i]
         /\ LET l == syncs'[Len(syncs) + 1]
            IN  l.by = by /\ l.st = "sent" /\ l.to = None /\ (l.post <=> Posted(by, token))
<1> DEFINE P == [by |-> by, post |-> TRUE, token |-> token, st |-> "sent", to |-> None]
           D == [by |-> by, post |-> FALSE, token |-> "none", st |-> "sent", to |-> None]
<1>1. P \in SyncCall /\ D \in SyncCall
  BY DEF SyncCall, MaybeProfile
<1>2. syncs \in Seq(SyncCall) /\ Len(syncs) \in Nat
  BY LenProperties DEF RestTyped
<1>3. (Posted(by, token) <=> Len(syncs) < MaxSyncs /\ syncs' = Append(syncs, P))
      /\ (Deleted(by) => syncs' = Append(syncs, D))
  BY DEF Posted, Deleted
<1>4. P.by = by /\ P.st = "sent" /\ P.to = None /\ P.post = TRUE
  OBVIOUS
<1>5. D.by = by /\ D.st = "sent" /\ D.to = None /\ D.post = FALSE
  OBVIOUS
<1> HIDE DEF P, D
<1>6. ASSUME NEW l \in SyncCall, syncs' = Append(syncs, l)
      PROVE  /\ syncs' \in Seq(SyncCall) /\ Len(syncs') = Len(syncs) + 1
             /\ DOMAIN syncs' = 1 .. Len(syncs) + 1
             /\ \A i \in 1 .. Len(syncs) : syncs'[i] = syncs[i]
             /\ syncs'[Len(syncs) + 1] = l
  <2>1. /\ syncs' \in Seq(SyncCall) /\ Len(syncs') = Len(syncs) + 1
        /\ \A i \in 1 .. Len(syncs) : syncs'[i] = syncs[i]
        /\ syncs'[Len(syncs) + 1] = l
    BY <1>2, <1>6, AppendProperties
  <2>2. DOMAIN syncs' = 1 .. Len(syncs')
    BY <2>1, LenProperties
  <2>. QED BY <2>1, <2>2
<1>7. CASE Posted(by, token)
  BY <1>1, <1>3, <1>4, <1>6, <1>7
<1>8. CASE Deleted(by) /\ ~Posted(by, token)
  BY <1>1, <1>3, <1>5, <1>6, <1>8
<1>. QED BY <1>7, <1>8

(* a call that the route handler answers *)
LEMMA HandledTyped ==
  ASSUME RestTyped, account \in Profile, NEW i \in DOMAIN syncs, SyncHandled(i)
  PROVE  /\ syncs' \in Seq(SyncCall) /\ Len(syncs') = Len(syncs) /\ DOMAIN syncs' = DOMAIN syncs
         /\ \A j \in DOMAIN syncs : j # i => syncs'[j] = syncs[j]
         /\ syncs'[i].by = syncs[i].by /\ syncs'[i].post = syncs[i].post
         /\ syncs'[i].st = "answered"
         /\ syncs'[i].to = IF syncs[i].post /\ syncs[i].token = "live" THEN account ELSE None
<1> DEFINE to == IF syncs[i].post /\ syncs[i].token = "live" THEN account ELSE None
           l == [syncs[i] EXCEPT !.st = "answered", !.to = to]
<1>1. /\ syncs \in Seq(SyncCall) /\ Len(syncs) \in Nat /\ DOMAIN syncs = 1 .. Len(syncs)
      /\ syncs[i] \in SyncCall
  BY LenProperties, ElementOfSeq DEF RestTyped
<1>2. to \in MaybeProfile
  BY DEF MaybeProfile
<1>3. syncs' = [syncs EXCEPT ![i] = l]
  BY <1>1 DEF SyncHandled, SyncCall
<1> HIDE DEF to
<1>4. l \in SyncCall /\ l.by = syncs[i].by /\ l.post = syncs[i].post /\ l.st = "answered" /\ l.to = to
  BY <1>1, <1>2 DEF SyncCall
<1> HIDE DEF l
<1>5. /\ syncs' \in Seq(SyncCall) /\ Len(syncs') = Len(syncs)
      /\ \A j \in 1 .. Len(syncs) : syncs'[j] = IF j = i THEN l ELSE syncs[j]
  BY <1>1, <1>3, <1>4, ExceptSeq
<1>6. DOMAIN syncs' = DOMAIN syncs
  BY <1>1, <1>5, LenProperties
<1>. QED BY <1>1, <1>4, <1>5, <1>6 DEF to

(* a token that runs out in the calls that carry it *)
LEMMA AgedTyped ==
  ASSUME RestTyped, Expire
  PROVE  /\ syncs' \in Seq(SyncCall) /\ Len(syncs') = Len(syncs) /\ DOMAIN syncs' = DOMAIN syncs
         /\ \A j \in DOMAIN syncs :
              /\ syncs'[j].by = syncs[j].by /\ syncs'[j].post = syncs[j].post
              /\ syncs'[j].st = syncs[j].st /\ syncs'[j].to = syncs[j].to
<1> DEFINE aged(j) == IF syncs[j].token = "live" THEN [syncs[j] EXCEPT !.token = "old"] ELSE syncs[j]
<1>1. /\ syncs \in Seq(SyncCall) /\ Len(syncs) \in Nat /\ DOMAIN syncs = 1 .. Len(syncs)
      /\ \A j \in DOMAIN syncs : syncs[j] \in SyncCall
  BY LenProperties, ElementOfSeq DEF RestTyped
<1>2. syncs' = [j \in 1 .. Len(syncs) |-> aged(j)]
  BY <1>1 DEF Expire
<1>3. ASSUME NEW j \in 1 .. Len(syncs)
      PROVE  /\ aged(j) \in SyncCall
             /\ aged(j).by = syncs[j].by /\ aged(j).post = syncs[j].post
             /\ aged(j).st = syncs[j].st /\ aged(j).to = syncs[j].to
  <2>1. syncs[j] \in SyncCall
    BY <1>1
  <2>2. [syncs[j] EXCEPT !.token = "old"] \in SyncCall
    BY <2>1 DEF SyncCall
  <2>. QED BY <2>1, <2>2 DEF SyncCall
<1> HIDE DEF aged
<1>4. syncs' \in [1 .. Len(syncs) -> SyncCall] /\ \A j \in 1 .. Len(syncs) : syncs'[j] = aged(j)
  BY <1>2, <1>3
<1>5. syncs' \in Seq(SyncCall)
  BY <1>1, <1>4, SeqDef
<1>6. Len(syncs') = Len(syncs) /\ DOMAIN syncs' = DOMAIN syncs
  <2>1. DOMAIN syncs' = 1 .. Len(syncs)
    BY <1>4
  <2>2. DOMAIN syncs' = 1 .. Len(syncs') /\ Len(syncs') \in Nat
    BY <1>5, LenProperties
  <2>. QED BY <1>1, <2>1, <2>2
<1>. QED BY <1>1, <1>3, <1>4, <1>5, <1>6

(* where the gate sends a visitor is a page, and one of the sign-in pages   *)
(* only if there is no profile in it                                        *)
LEMMA MiddlewareIs ==
  ASSUME NEW g \in MaybeProfile, NEW p \in Pages
  PROVE  /\ Middleware(g, p) \in Pages
         /\ g # None => Middleware(g, p) \notin {"login", "register"}
         /\ Middleware(None, "login") = "login"
<1>1. g = None \/ (g # None /\ g \in Profile /\ g.role \in {"BUYER", "SUPPLIER", "ADMIN"})
  BY DEF MaybeProfile, Profile
<1>2. /\ Area("login") = "auth only" /\ Area("register") = "auth only" /\ Area("admin") = "ADMIN"
      /\ Area("supplier") = "SUPPLIER" /\ Area("orders") = "protected" /\ Area("account") = "protected"
      /\ Area("catalogue") = "open" /\ Area("sell") = "open"
  BY DEF Area
<1>3. \A role : Home(role) \in {"admin", "supplier", "catalogue"}
  BY DEF Home
<1>4. ASSUME NEW q \in Pages
      PROVE  /\ RoleGate(g, q) \in Pages
             /\ g # None => RoleGate(g, q) \in {"catalogue", "account", q}
  BY <1>4 DEF RoleGate, Pages
<1>5. Middleware(None, "login") = "login"
  BY <1>2 DEF Middleware
<1>6. CASE p \in {"login", "register"}
  <2>1. Middleware(g, p) = IF g = None THEN p ELSE IF Home(g.role) = "catalogue" THEN "catalogue"
                           ELSE RoleGate(g, Home(g.role))
    BY <1>2, <1>6 DEF Middleware
  <2>2. Home(g.role) \in Pages /\ Home(g.role) \in {"admin", "supplier", "catalogue"}
    BY <1>3 DEF Pages
  <2>. QED BY <1>4, <1>5, <2>1, <2>2 DEF Pages
<1>7. CASE p \in {"admin", "supplier"}
  <2>1. Middleware(g, p) = RoleGate(g, p)
    BY <1>2, <1>7 DEF Middleware
  <2>. QED BY <1>4, <1>5, <1>7, <2>1
<1>8. CASE p \in {"orders", "account"}
  <2>1. Middleware(g, p) = IF g = None THEN "login" ELSE p
    BY <1>2, <1>8 DEF Middleware
  <2>. QED BY <1>5, <1>8, <2>1 DEF Pages
<1>9. CASE p \in {"catalogue", "sell"}
  <2>1. Middleware(g, p) = p
    BY <1>2, <1>9 DEF Middleware
  <2>. QED BY <1>5, <1>9, <2>1
<1>. QED BY <1>6, <1>7, <1>8, <1>9 DEF Pages

LEMMA GoTyped ==
  ASSUME NEW g \in MaybeProfile, NEW p \in Pages, Go(g, p)
  PROVE  page' \in Pages /\ next' \in Pages \cup {None}
BY MiddlewareIs DEF Go

(* a page that is left loses its state, not the call it waits for *)
LEMMA LeftTyped ==
  ASSUME RestTyped, FormLeft
  PROVE  /\ form' \in {form, "idle"} /\ (form' # form => form = "totp")
         /\ caller' \in [here : BOOLEAN, to : Pages \cup {None}, user : MaybeProfile]
         /\ caller'.user = caller.user
BY DEF FormLeft, RestTyped

LEMMA AwaitedTyped ==
  ASSUME RestTyped, gate' \in MaybeProfile, NEW by, Awaited(by)
  PROVE  /\ boot' \in {"refresh", "me", "clear", "done"}
         /\ form' \in {form, "idle"}
         /\ form' # form => form \in {"save", "totp"}
         /\ caller' \in [here : BOOLEAN, to : Pages \cup {None}, user : MaybeProfile]
         /\ form' # "idle" => caller'.user = caller.user
         /\ leaving' \in BOOLEAN /\ change' \in {change, NoChange}
         /\ page' \in Pages /\ next' \in Pages \cup {None}
<1>1. boot' \in {"refresh", "me", "clear", "done"}
      /\ leaving' \in {leaving, FALSE} /\ change' \in {change, NoChange}
  BY DEF Awaited, ChangeLeft, RestTyped
<1>2. page' \in Pages /\ next' \in Pages \cup {None}
  <2>1. CASE by = "login"
    <3>1. Home(caller.user.role) \in Pages
      BY DEF Home, Pages
    <3>2. (IF caller.to # None THEN caller.to ELSE Home(caller.user.role)) \in Pages
      BY <3>1 DEF RestTyped
    <3>3. Go(gate', IF caller.to # None THEN caller.to ELSE Home(caller.user.role))
      BY <2>1 DEF Awaited
    <3>. QED BY <3>2, <3>3, GoTyped
  <2>2. CASE by = "out"
    <3>1. Go(gate', "login")
      BY <2>2 DEF Awaited
    <3>. QED BY <3>1, GoTyped DEF Pages
  <2>3. CASE by \notin {"login", "out"}
    BY <2>3 DEF Awaited, RestTyped
  <2>. QED BY <2>1, <2>2, <2>3
<1>3. CASE by = "login" /\ form = "save"
  <2>1. form' = "idle" /\ caller' = NoCaller
    BY <1>3 DEF Awaited
  <2>. QED BY <1>1, <1>2, <1>3, <2>1 DEF RestTyped, NoCaller, MaybeProfile
<1>4. CASE ~(by = "login" /\ form = "save")
  <2>1. FormLeft
    BY <1>4 DEF Awaited
  <2>. QED BY <1>1, <1>2, <2>1, LeftTyped DEF RestTyped
<1>. QED BY <1>3, <1>4

LEMMA RestBegins == Init => RestTyped
<1> SUFFICES ASSUME Init PROVE RestTyped
  OBVIOUS
<1>1. syncs \in Seq(SyncCall)
  BY EmptySeq DEF Init
<1>2. expiries \in 0 .. MaxExpiries /\ jar \in {"none", "good"}
  BY SessionAssumption DEF Init
<1>3. gate \in MaybeProfile /\ page \in Pages /\ next \in Pages \cup {None}
  BY DEF Init, MaybeProfile, Pages
<1>. QED BY <1>1, <1>2, <1>3 DEF Init, RestTyped, NoChange, NoCaller, MaybeProfile

(* calls, refreshes and store move, which RestTyped is not of *)
restVars == <<registered, gate, jar, boot, syncs, form, caller, change, out, leaving, missed,
              page, next, expiries>>

LEMMA NextKeepsRest == StoreInv /\ QueueInv /\ RestTyped /\ [Next]_sessionVars => RestTyped'
<1> SUFFICES ASSUME StoreInv, QueueInv, RestTyped, [Next]_sessionVars PROVE RestTyped'
  OBVIOUS
<1>1. CASE \/ UNCHANGED sessionVars
           \/ \E r \in Requests : Send(r) \/ Answered(r) \/ Unauthorised(r)
  <2>1. UNCHANGED restVars
    BY <1>1 DEF sessionVars, Send, Answered, Unauthorised, flows, server, restVars
  <2>. QED BY <2>1 DEF RestTyped, restVars
<1>2. ASSUME NEW p \in Links[page], Visit(p) PROVE RestTyped'
  <2>1. p \in Pages
    BY SessionAssumption DEF RestTyped
  <2>2. page' \in Pages
    BY <1>2, <2>1, MiddlewareIs DEF Visit, RestTyped
  <2>3. next' \in {p, "sell", None}
    BY <1>2 DEF Visit
  <2>4. /\ FormLeft /\ change' \in {change, NoChange}
        /\ UNCHANGED <<registered, gate, jar, boot, syncs, out, leaving, missed, expiries>>
    BY <1>2 DEF Visit, ChangeLeft, server
  <2>5. next' \in Pages \cup {None}
    BY <2>1, <2>3 DEF Pages
  <2>. QED BY <2>2, <2>4, <2>5, LeftTyped DEF RestTyped, NoChange
<1>3. CASE Guard
  <2>1. UNCHANGED <<registered, gate, jar, boot, syncs, form, caller, change, out, leaving,
                    missed, expiries>>
    BY <1>3 DEF Guard, server, flows
  <2>2. CASE /\ page' = Middleware(gate, "login")
             /\ next' = IF page' = "login" THEN page ELSE None
    <3>1. "login" \in Pages
      BY DEF Pages
    <3>. QED BY <2>1, <2>2, <3>1, MiddlewareIs DEF RestTyped
  <2>3. CASE Go(gate, "catalogue")
    <3>1. "catalogue" \in Pages
      BY DEF Pages
    <3>2. page' \in Pages /\ next' \in Pages \cup {None}
      BY <2>3, <3>1, GoTyped DEF RestTyped
    <3>. QED BY <2>1, <3>2 DEF RestTyped
  <2>. QED BY <1>3, <2>2, <2>3 DEF Guard
<1>4. ASSUME NEW i \in DOMAIN syncs, SyncHandled(i) PROVE RestTyped'
  <2>1. syncs' \in Seq(SyncCall)
    BY <1>4, HandledTyped DEF StoreInv
  <2>2. UNCHANGED <<registered, gate, jar, boot, form, caller, change, out, leaving, missed,
                    page, next, expiries>>
    BY <1>4 DEF SyncHandled, server, flows
  <2>. QED BY <2>1, <2>2 DEF RestTyped
<1>5. ASSUME NEW i \in DOMAIN syncs, SyncAnswered(i) \/ SyncLost(i) PROVE RestTyped'
  <2>1. syncs' \in Seq(SyncCall) /\ syncs[i] \in SyncCall
    <3>1. syncs \in Seq(SyncCall) /\ i \in 1 .. Len(syncs)
      BY LenProperties DEF RestTyped
    <3>2. syncs' = RemoveAt(syncs, i)
      BY <1>5 DEF SyncAnswered, SyncLost
    <3>. QED BY <3>1, <3>2, RemovedIs, ElementOfSeq
  <2>2. gate' \in MaybeProfile /\ missed' \in BOOLEAN
    <3>1. gate' \in {gate, syncs[i].to} /\ missed' \in {missed, TRUE, missed \/ (syncs[i].post /\ syncs[i].to = None)}
      BY <1>5 DEF SyncAnswered, SyncLost
    <3>. QED BY <2>1, <3>1 DEF RestTyped, SyncCall
  <2>3. Awaited(syncs[i].by) /\ UNCHANGED <<registered, jar, out, expiries>>
    BY <1>5 DEF SyncAnswered, SyncLost, server
  <2>4. change' \in [kind : Kinds \cup {"register"}, st : {"idle", "sent", "me", "save", "done"}]
    BY <2>2, <2>3, AwaitedTyped DEF RestTyped, NoChange
  <2>5. /\ boot' \in {"refresh", "me", "clear", "done"}
        /\ form' \in {form, "idle"}
        /\ caller' \in [here : BOOLEAN, to : Pages \cup {None}, user : MaybeProfile]
        /\ leaving' \in BOOLEAN /\ page' \in Pages /\ next' \in Pages \cup {None}
    BY <2>2, <2>3, AwaitedTyped
  <2>. QED BY <2>1, <2>2, <2>3, <2>4, <2>5 DEF RestTyped
<1>6. ASSUME NEW w \in Refreshers, RefreshHandled(w) PROVE RestTyped'
  <2>1. /\ jar' \in {jar, "spent"} /\ out' \in {out, "bad"}
        /\ UNCHANGED <<registered, gate, boot, syncs, form, caller, change, leaving, missed,
                       page, next, expiries>>
    BY <1>6 DEF RefreshHandled
  <2>. QED BY <2>1 DEF RestTyped
<1>7. CASE BootRefreshed \/ ApiRefreshed
  <2>1. /\ jar' = "good" /\ out' \in {out, "kept"} /\ boot' \in {boot, "me"}
        /\ UNCHANGED <<registered, gate, syncs, form, caller, change, leaving, missed,
                       page, next, expiries>>
    BY <1>7 DEF BootRefreshed, ApiRefreshed, NewCookie, Kept
  <2>. QED BY <2>1 DEF RestTyped
<1>8. CASE BootMe \/ BootFails \/ ApiRefreshFails
  <2>1. syncs' \in Seq(SyncCall)
    <3>1. Posted("boot", "live") \/ Deleted("boot") \/ Deleted("drop")
      BY <1>8 DEF BootMe, BootFails, ApiRefreshFails
    <3>. QED BY <3>1, SentTyped DEF Senders
  <2>2. /\ boot' \in {boot, "done", "clear"}
        /\ UNCHANGED <<registered, gate, jar, form, caller, change, out, leaving, page, next,
                       expiries>>
    BY <1>8 DEF BootMe, BootFails, ApiRefreshFails, server, flows
  <2>3. missed' \in BOOLEAN
    BY <1>8 DEF BootMe, BootFails, ApiRefreshFails, RestTyped
  <2>. QED BY <2>1, <2>2, <2>3 DEF RestTyped
<1>9. CASE Expire
  <2>1. syncs' \in Seq(SyncCall)
    BY <1>9, AgedTyped
  <2>2. expiries' \in 0 .. MaxExpiries
    BY <1>9, SessionAssumption DEF Expire, RestTyped
  <2>. QED BY <1>9, <2>1, <2>2 DEF Expire, RestTyped, server, flows
<1>10. CASE SubmitLogin \/ SubmitRegistration \/ SubmitCode \/ BackToLogin \/ SignInFails
  <2>1. /\ form' \in {"idle", "password", "register", "totp", "code"}
        /\ caller' \in {caller, NoCaller, [here |-> TRUE, to |-> next, user |-> None]}
        /\ UNCHANGED <<registered, gate, jar, boot, syncs, change, out, leaving, missed,
                       page, next, expiries>>
    BY <1>10 DEF SubmitLogin, SubmitRegistration, SubmitCode, Submitted, BackToLogin,
       SignInFails, server
  <2>2. caller' \in [here : BOOLEAN, to : Pages \cup {None}, user : MaybeProfile]
    <3>1. None \in MaybeProfile /\ next \in Pages \cup {None}
      BY DEF RestTyped, MaybeProfile
    <3>2. /\ NoCaller \in [here : BOOLEAN, to : Pages \cup {None}, user : MaybeProfile]
          /\ [here |-> TRUE, to |-> next, user |-> None]
               \in [here : BOOLEAN, to : Pages \cup {None}, user : MaybeProfile]
      BY <3>1 DEF NoCaller
    <3>3. caller \in [here : BOOLEAN, to : Pages \cup {None}, user : MaybeProfile]
      BY DEF RestTyped
    <3>. QED BY <2>1, <3>2, <3>3
  <2>3. registered' \in BOOLEAN /\ leaving' \in BOOLEAN /\ missed' \in BOOLEAN
    BY <2>1 DEF RestTyped
  <2>. QED BY <2>1, <2>2, <2>3 DEF RestTyped
<1>18. CASE LoginAnswered \/ CodeAnswered \/ RegisterAnswered
  <2>1. CASE SignedIn /\ registered' \in BOOLEAN
    <3>1. /\ jar' = "good" /\ out' \in {out, "kept"} /\ form' = "merge"
          /\ caller' = [caller EXCEPT !.user = account]
          /\ UNCHANGED <<gate, boot, syncs, change, leaving, missed, page, next, expiries>>
      BY <2>1 DEF SignedIn, NewCookie, Kept
    <3>2. caller' \in [here : BOOLEAN, to : Pages \cup {None}, user : MaybeProfile]
      BY <3>1 DEF RestTyped, StoreInv, MaybeProfile
    <3>. QED BY <2>1, <3>1, <3>2 DEF RestTyped
  <2>2. CASE /\ form' \in {"idle", "totp"} /\ caller' = NoCaller
             /\ UNCHANGED <<server, store, gate, boot, rotate, req, syncs, change, out,
                            leaving, page, next, missed, expiries>>
    BY <2>2 DEF RestTyped, NoCaller, MaybeProfile, server
  <2>. QED BY <1>18, <2>1, <2>2 DEF LoginAnswered, CodeAnswered, RegisterAnswered, RestTyped
<1>11. CASE StoreLogin
  <2>1. syncs' \in Seq(SyncCall)
    BY <1>11, SentTyped DEF StoreLogin, Senders
  <2>2. missed' \in BOOLEAN
    BY <1>11 DEF StoreLogin
  <2>. QED BY <1>11, <2>1, <2>2 DEF StoreLogin, RestTyped, server
<1>12. CASE SignOut
  <2>1. syncs' \in Seq(SyncCall)
    BY <1>12, SentTyped DEF SignOut, Senders
  <2>2. /\ out' \in {"good", "bad"} /\ leaving' = TRUE
        /\ UNCHANGED <<registered, gate, jar, boot, form, caller, change, missed, page, next,
                       expiries>>
    BY <1>12 DEF SignOut, server, Cookie, CookieIn
  <2>3. registered' \in BOOLEAN /\ leaving' \in BOOLEAN /\ missed' \in BOOLEAN
    BY <2>2 DEF RestTyped
  <2>. QED BY <2>1, <2>2, <2>3 DEF RestTyped
<1>13. CASE SignOutHandled \/ SignOutAnswered \/ SignOutLost
  <2>1. /\ out' \in {"none", "answered"} /\ jar' \in {jar, "spent", "none"}
        /\ UNCHANGED <<registered, gate, boot, syncs, form, caller, change, leaving, page, next,
                       expiries>>
    BY <1>13 DEF SignOutHandled, SignOutAnswered, SignOutLost, server
  <2>2. missed' \in BOOLEAN
    BY <1>13 DEF SignOutHandled, SignOutAnswered, SignOutLost, RestTyped
  <2>3. registered' \in BOOLEAN /\ leaving' \in BOOLEAN
    BY <2>1 DEF RestTyped
  <2>. QED BY <2>1, <2>2, <2>3 DEF RestTyped
<1>14. CASE ChangeMade \/ ChangeFails \/ \E k \in Kinds : StartChange(k)
  <2>1. change' \in [kind : Kinds \cup {"register"}, st : {"idle", "sent", "me", "save", "done"}]
    BY <1>14 DEF ChangeMade, ChangeFails, StartChange, RestTyped, NoChange
  <2>2. /\ missed' \in {missed, TRUE, missed \/ change.st = "me"}
        /\ UNCHANGED <<registered, gate, jar, boot, syncs, form, caller, out, leaving, page, next,
                       expiries>>
    BY <1>14 DEF ChangeMade, ChangeFails, StartChange, server
  <2>3. registered' \in BOOLEAN /\ leaving' \in BOOLEAN /\ missed' \in BOOLEAN
    BY <2>2 DEF RestTyped
  <2>. QED BY <2>1, <2>2, <2>3 DEF RestTyped
<1>15. CASE TotpChanged \/ SellerRegistered
  <2>1. change' \in [kind : Kinds \cup {"register"}, st : {"idle", "sent", "me", "save", "done"}]
    BY <1>15 DEF TotpChanged, SellerRegistered, RestTyped, NoChange
  <2>2. UserSet
    BY <1>15 DEF TotpChanged, SellerRegistered
  <2>3. syncs' \in Seq(SyncCall)
    <3>1. CASE store.token = "none"
      BY <2>2, <3>1 DEF UserSet, RestTyped
    <3>2. CASE store.token # "none"
      <4>1. \/ Posted("profile", store.token)
            \/ Posted("seller", store.token)
        BY <2>2, <3>2 DEF UserSet
      <4>2. store.token \in {"none", "live", "old"}
        BY DEF StoreInv
      <4>. QED BY <4>1, <4>2, SentTyped DEF Senders
    <3>. QED BY <3>1, <3>2
  <2>. QED BY <2>1, <2>2, <2>3 DEF UserSet, RestTyped, server
<1>16. CASE GoToDashboard
  <2>1. page' \in Pages /\ next' \in Pages \cup {None}
    <3>1. "supplier" \in Pages /\ gate \in MaybeProfile /\ Go(gate, "supplier")
      BY <1>16 DEF GoToDashboard, RestTyped, Pages
    <3>. QED BY <3>1, GoTyped
  <2>. QED BY <1>16, <2>1 DEF GoToDashboard, RestTyped, server, NoChange
<1>17. ASSUME NEW p \in Links[page] \cup {page}, Reload(p) PROVE RestTyped'
  <2>1. page' \in Pages /\ next' \in Pages \cup {None}
    <3>1. p \in Pages /\ gate \in MaybeProfile
      BY SessionAssumption DEF RestTyped
    <3>2. Go(gate, p) \/ UNCHANGED <<page, next>>
      BY <1>17 DEF Reload
    <3>. QED BY <3>1, <3>2, GoTyped DEF RestTyped
  <2>2. syncs' \in Seq(SyncCall)
    BY <1>17, EmptySeq DEF Reload
  <2>3. jar' \in {jar, "spent"} /\ registered' \in {registered, TRUE}
    BY <1>17 DEF Reload, CutOff
  <2>. QED BY <1>17, <2>1, <2>2, <2>3 DEF Reload, RestTyped, NoChange, NoCaller, MaybeProfile
<1>. QED
  BY <1>1, <1>2, <1>3, <1>4, <1>5, <1>6, <1>7, <1>8, <1>9, <1>10, <1>11, <1>12,
     <1>13, <1>14, <1>15, <1>16, <1>17, <1>18 DEF Next

Typed == StoreInv /\ QueueInv /\ RestTyped

LEMMA TypesBegin == Init => Typed
BY InitStore, InitQueue, RestBegins DEF Typed

LEMMA StepKeepsTypes == Typed /\ [Next]_sessionVars => Typed'
BY NextKeepsStore, NextKeepsQueue, NextKeepsRest DEF Typed

(* client.ts: a call is never left in the queue with no refresh to serve   *)
(* it, and one call owns the refresh at a time, for any number of calls.   *)
THEOREM NoCallStranded == Spec => []QueueServed
<1>1. Typed => QueueServed
  BY DEF Typed, QueueInv
<1>. QED BY <1>1, TypesBegin, StepKeepsTypes, PTL DEF Spec

(* Every value the tab, the cookies and the calls have is one of those      *)
(* SessionTypeOK names: a visitor is never sent to a page there is not, and *)
(* no call outlives its bound.                                              *)
THEOREM SessionIsTyped == Spec => []SessionTypeOK
<1>1. Typed => SessionTypeOK
  BY DEF Typed, StoreInv, QueueInv, RestTyped, SessionTypeOK, RequestState, RefreshState
<1>. QED BY <1>1, TypesBegin, StepKeepsTypes, PTL DEF Spec

-----------------------------------------------------------------------------
(* Where sign-in and sign-out end                                          *)

(* who awaits a call, and what it will set: a DELETE clears the gate        *)
Tells(l) ==
  /\ l.by \in {"login", "profile", "seller"} => l.post
  /\ l.by \in {"out", "drop"} => ~l.post
  /\ ~l.post => l.to = None

SyncsTell == \A i \in DOMAIN syncs : Tells(syncs[i])

LEMMA StepTells == Typed /\ SyncsTell /\ [Next]_sessionVars => SyncsTell'
<1> SUFFICES ASSUME Typed, SyncsTell, [Next]_sessionVars PROVE SyncsTell'
  OBVIOUS
<1>1. syncs \in Seq(SyncCall) /\ Len(syncs) \in Nat /\ DOMAIN syncs = 1 .. Len(syncs)
  BY LenProperties DEF Typed, RestTyped
<1>2. CASE UNCHANGED syncs
  BY <1>2 DEF SyncsTell, Tells
<1>3. ASSUME NEW by \in Senders,
             NEW token \in {"none", "live", "old"},
             \/ Posted(by, token) /\ by \notin {"out", "drop"}
             \/ Deleted(by) /\ by \notin {"login", "profile", "seller"}
      PROVE  SyncsTell'
  <2>1. /\ DOMAIN syncs' = 1 .. Len(syncs) + 1
        /\ \A i \in 1 .. Len(syncs) : syncs'[i] = syncs[i]
        /\ LET l == syncs'[Len(syncs) + 1]
           IN  l.by = by /\ l.to = None /\ (l.post <=> Posted(by, token))
    BY <1>3, SentTyped DEF Typed
  <2>2. Tells(syncs'[Len(syncs) + 1])
    <3>1. CASE Posted(by, token) /\ by \notin {"out", "drop"}
      BY <2>1, <3>1 DEF Tells
    <3>2. CASE Deleted(by) /\ by \notin {"login", "profile", "seller"} /\ ~Posted(by, token)
      BY <2>1, <3>2 DEF Tells
    <3>3. CASE Deleted(by) /\ Posted(by, token)
      <4>1. [by |-> by, post |-> TRUE, token |-> token, st |-> "sent", to |-> None]
              # [by |-> by, post |-> FALSE, token |-> "none", st |-> "sent", to |-> None]
        OBVIOUS
      <4>. QED BY <1>1, <3>3, <4>1, AppendProperties DEF Deleted, Posted
    <3>. QED BY <1>3, <3>1, <3>2, <3>3
  <2>3. \A i \in DOMAIN syncs' : i \in DOMAIN syncs \/ i = Len(syncs) + 1
    BY <1>1, <2>1
  <2>. QED BY <1>1, <2>1, <2>2, <2>3 DEF SyncsTell
<1>4. ASSUME NEW i \in DOMAIN syncs, SyncHandled(i) PROVE SyncsTell'
  <2>1. /\ DOMAIN syncs' = DOMAIN syncs
        /\ \A j \in DOMAIN syncs : j # i => syncs'[j] = syncs[j]
        /\ syncs'[i].by = syncs[i].by /\ syncs'[i].post = syncs[i].post
        /\ syncs'[i].to = IF syncs[i].post /\ syncs[i].token = "live" THEN account ELSE None
    BY <1>4, HandledTyped DEF Typed, StoreInv
  <2>. QED BY <2>1 DEF SyncsTell, Tells
<1>5. ASSUME NEW i \in DOMAIN syncs, SyncAnswered(i) \/ SyncLost(i) PROVE SyncsTell'
  <2>1. syncs' = RemoveAt(syncs, i)
    BY <1>5 DEF SyncAnswered, SyncLost
  <2>2. \A j \in DOMAIN RemoveAt(syncs, i) : \E k \in DOMAIN syncs : RemoveAt(syncs, i)[j] = syncs[k]
    <3>1. i \in DOMAIN syncs /\ syncs \in Seq(SyncCall)
      BY <1>1
    <3>. QED BY ONLY <3>1, RemovedIs
  <2>. QED BY <2>1, <2>2 DEF SyncsTell
<1>6. CASE Expire
  <2>1. /\ DOMAIN syncs' = DOMAIN syncs
        /\ \A j \in DOMAIN syncs :
             syncs'[j].by = syncs[j].by /\ syncs'[j].post = syncs[j].post /\ syncs'[j].to = syncs[j].to
    BY <1>6, AgedTyped DEF Typed
  <2>. QED BY <2>1 DEF SyncsTell, Tells
<1>7. ASSUME NEW p \in Links[page] \cup {page}, Reload(p) PROVE SyncsTell'
  <2>1. syncs' = <<>>
    BY <1>7 DEF Reload
  <2>. QED BY <2>1 DEF SyncsTell
<1>8. CASE BootMe
  BY <1>3, <1>8 DEF BootMe, Senders
<1>9. CASE BootFails \/ ApiRefreshFails
  BY <1>3, <1>9 DEF BootFails, ApiRefreshFails, Senders
<1>10. CASE StoreLogin \/ SignOut
  BY <1>3, <1>10 DEF StoreLogin, SignOut, Senders
<1>11. CASE TotpChanged \/ SellerRegistered
  <2>1. store.token \in {"none", "live", "old"}
    BY DEF Typed, StoreInv
  <2>2. syncs' = syncs \/ Posted("profile", store.token) \/ Posted("seller", store.token)
    BY <1>11 DEF TotpChanged, SellerRegistered, UserSet
  <2>. QED BY <1>2, <1>3, <2>1, <2>2 DEF Senders
<1>12. CASE \/ UNCHANGED sessionVars \/ (\E p \in Links[page] : Visit(p)) \/ Guard
            \/ (\E w \in Refreshers : RefreshHandled(w)) \/ BootRefreshed
            \/ (\E r \in Requests : Send(r) \/ Answered(r) \/ Unauthorised(r)) \/ ApiRefreshed
  BY <1>2, <1>12 DEF sessionVars, Visit, Guard, RefreshHandled, BootRefreshed, Send, Answered,
     Unauthorised, ApiRefreshed
<1>13. CASE \/ SubmitLogin \/ SubmitRegistration \/ SubmitCode \/ BackToLogin \/ SignInFails
            \/ LoginAnswered \/ CodeAnswered \/ RegisterAnswered
            \/ SignOutHandled \/ SignOutAnswered \/ SignOutLost
  BY <1>2, <1>13 DEF SubmitLogin, SubmitRegistration, SubmitCode, Submitted, BackToLogin,
     SignInFails, LoginAnswered, CodeAnswered, RegisterAnswered, SignedIn, SignOutHandled, SignOutAnswered, SignOutLost
<1>14. CASE (\E k \in Kinds : StartChange(k)) \/ ChangeMade \/ ChangeFails \/ GoToDashboard
  BY <1>2, <1>14 DEF StartChange, ChangeMade, ChangeFails, GoToDashboard
<1>. QED
  BY <1>4, <1>5, <1>6, <1>7, <1>8, <1>9, <1>10, <1>11, <1>12, <1>13, <1>14 DEF Next

(* only an answer, or a page load, ends a sign-in or a sign-out *)
LEMMA EndsBySync ==
  ASSUME [Next]_sessionVars,
         (form = "save" /\ form' = "idle") \/ (leaving /\ ~leaving'), boot' # "refresh"
  PROVE  \E i \in DOMAIN syncs : SyncAnswered(i) \/ SyncLost(i)
<1>1. CASE UNCHANGED sessionVars \/ Guard \/ (\E i \in DOMAIN syncs : SyncHandled(i))
  <2>1. UNCHANGED flows
    BY <1>1 DEF sessionVars, flows, Guard, SyncHandled
  <2>. QED BY <2>1 DEF flows
<1>7. CASE BootRefreshed \/ BootMe \/ BootFails
  BY <1>7 DEF flows, BootRefreshed, BootMe, BootFails
<1>5. ASSUME NEW p \in Links[page], Visit(p) PROVE FALSE
  BY <1>5 DEF Visit, FormLeft
<1>8. ASSUME NEW p \in Links[page] \cup {page}, Reload(p) PROVE FALSE
  BY <1>8 DEF Reload
<1>6. ASSUME NEW w \in Refreshers, RefreshHandled(w) PROVE FALSE
  BY <1>6 DEF RefreshHandled
<1>2. CASE \/ (\E r \in Requests : Send(r) \/ Answered(r) \/ Unauthorised(r))
           \/ ApiRefreshed \/ ApiRefreshFails \/ Expire
  BY <1>2 DEF flows, Send, Answered, Unauthorised, ApiRefreshed, ApiRefreshFails, Expire
<1>3. CASE \/ SubmitLogin \/ SubmitRegistration \/ SubmitCode \/ BackToLogin \/ SignInFails
           \/ LoginAnswered \/ CodeAnswered \/ RegisterAnswered \/ StoreLogin
  BY <1>3 DEF SubmitLogin, SubmitRegistration, SubmitCode, Submitted, BackToLogin, SignInFails,
     LoginAnswered, CodeAnswered, RegisterAnswered, SignedIn, StoreLogin
<1>4. CASE \/ SignOut \/ SignOutHandled \/ SignOutAnswered \/ SignOutLost
           \/ (\E k \in Kinds : StartChange(k)) \/ ChangeMade \/ ChangeFails
           \/ TotpChanged \/ SellerRegistered \/ GoToDashboard
  BY <1>4 DEF SignOut, SignOutHandled, SignOutAnswered, SignOutLost, StartChange, ChangeMade,
     ChangeFails, TotpChanged, SellerRegistered, UserSet, GoToDashboard
<1>. QED BY <1>1, <1>2, <1>3, <1>4, <1>5, <1>6, <1>7, <1>8 DEF Next

(* A sign-in that was answered ends on another page than the forms, because *)
(* the gate has the profile by then, and a sign-out on the sign-in page,    *)
(* because the gate is empty: handleLogin and handleLogout navigate after   *)
(* the /session-sync call, whatever else is under way.                      *)
THEOREM Lands == Spec => LandsWhereSent
<1>1. ASSUME Typed, SyncsTell, [Next]_sessionVars
      PROVE  [ /\ form = "save" /\ form' = "idle" /\ boot' # "refresh" /\ ~missed'
                 => page' \notin {"login", "register"}
               /\ leaving /\ ~leaving' /\ boot' # "refresh" /\ ~missed'
                 => page' = "login" ]_sessionVars
  <2> SUFFICES ASSUME (form = "save" /\ form' = "idle") \/ (leaving /\ ~leaving'),
                      boot' # "refresh", ~missed'
               PROVE  /\ form = "save" /\ form' = "idle" => page' \notin {"login", "register"}
                      /\ leaving /\ ~leaving' => page' = "login"
    OBVIOUS
  <2>1. PICK i \in DOMAIN syncs : SyncAnswered(i) \/ SyncLost(i)
    BY <1>1, EndsBySync
  <2>2. /\ SyncAnswered(i) /\ gate' = syncs[i].to /\ Awaited(syncs[i].by)
        /\ ~(syncs[i].post /\ syncs[i].to = None)
    BY <2>1 DEF SyncAnswered, SyncLost
  <2>3. Tells(syncs[i])
    BY <1>1 DEF SyncsTell
  <2>4. RestTyped' /\ Home(caller.user.role) \in Pages /\ caller.to \in Pages \cup {None}
    BY <1>1, StepKeepsTypes DEF Typed, RestTyped, Home, Pages
  <2>5. CASE syncs[i].by = "login"
    <3>1. gate' # None /\ gate' \in MaybeProfile
      BY <2>2, <2>3, <2>4, <2>5 DEF Tells, RestTyped
    <3>2. /\ Go(gate', IF caller.to # None THEN caller.to ELSE Home(caller.user.role))
          /\ leaving' = leaving
      BY <2>2, <2>5 DEF Awaited
    <3>3. (IF caller.to # None THEN caller.to ELSE Home(caller.user.role)) \in Pages
      BY <2>4
    <3>. QED BY <3>1, <3>2, <3>3, MiddlewareIs DEF Go
  <2>6. CASE syncs[i].by = "out"
    <3>1. gate' = None
      BY <2>2, <2>3, <2>6 DEF Tells
    <3>2. Go(gate', "login") /\ ~(form = "save" /\ form' = "idle")
      BY <2>2, <2>6 DEF Awaited, FormLeft
    <3>3. "login" \in Pages /\ None \in MaybeProfile
      BY DEF Pages, MaybeProfile
    <3>. QED BY <3>1, <3>2, <3>3, MiddlewareIs DEF Go
  <2>7. CASE syncs[i].by \notin {"login", "out"}
    BY <2>2, <2>7 DEF Awaited, FormLeft
  <2>. QED BY <2>5, <2>6, <2>7
<1>2. Init => SyncsTell
  BY DEF Init, SyncsTell
<1>3. Typed /\ SyncsTell /\ [Next]_sessionVars => SyncsTell'
  BY StepTells
<1>. QED BY <1>1, <1>2, <1>3, TypesBegin, StepKeepsTypes, PTL DEF Spec, LandsWhereSent

-----------------------------------------------------------------------------
(* The store and the refresh cookie                                        *)

NoCalls == \A r \in Requests : req[r].st = "idle"

(* until initialise() is done nothing else goes on, and its refresh is      *)
(* refused only if there is no good cookie                                  *)
Booting ==
  /\ boot # "done" =>
       /\ store.user = None /\ store.token = "none" /\ NoCalls /\ rotate["api"] = "idle"
       /\ form = "idle" /\ change.st = "idle" /\ out = "none" /\ ~leaving
  /\ rotate["boot"] # "idle" <=> boot = "refresh"
  /\ rotate["boot"] # "kept"
  /\ rotate["boot"] \in {"bad", "refused"} => jar # "good"
  /\ boot \in {"refresh", "me"} => syncs = <<>>
  /\ boot = "me" => jar = "good"
  /\ boot = "clear" => /\ Len(syncs) = 1 /\ syncs[1].by = "boot" /\ ~syncs[1].post
                       /\ missed \/ jar # "good"

(* a sign-in brings the profile the service holds, and meets no sign-out    *)
SigningIn ==
  /\ form \notin {"idle", "totp"} => change.st \in {"idle", "done"}
  /\ form \in {"merge", "save"} => out = "none" /\ caller.user = account

(* until a sign-out is answered nobody is signed in *)
SigningOut ==
  out # "none" => /\ store.user = None /\ rotate["api"] = "idle" /\ NoCalls
                  /\ change.st \in {"idle", "done"} /\ form \notin {"merge", "save"}

(* once initialise() is done, and as long as nothing failed *)
JarAgrees == boot = "done" /\ ~missed =>
  /\ store.user # None => store.token # "none"
  /\ ~NoCalls \/ rotate["api"] # "idle" \/ change.st \in {"sent", "me", "save"} =>
       store.user # None
  /\ rotate["api"] \in {"idle", "good", "kept", "granted"}
  /\ rotate["api"] = "idle" /\ out = "none" /\ form # "merge" =>
       (store.user # None <=> jar = "good")
  /\ rotate["api"] = "idle" /\ form = "merge" => jar = "good"

Single == Booting /\ SigningIn /\ SigningOut /\ JarAgrees

LEMMA SingleBegins == Init => Single
BY DEF Init, Single, Booting, SigningIn, SigningOut, JarAgrees, NoCalls, IdleReq, NoChange, Cookie,
       CookieIn, Refreshers

(* something that only goes on in a tab that has begun, with no sign-out    *)
(* outstanding                                                              *)
Free == boot = "done" /\ out = "none"

LEMMA FreeIs ==
  ASSUME Typed, Single
  PROVE  /\ ~NoCalls \/ rotate["api"] # "idle" => Free
         /\ change.st \in {"sent", "me", "save"} => Free /\ form \in {"idle", "totp"}
         /\ store.user # None => Free
         /\ form # "idle" => boot = "done"
BY DEF Typed, RestTyped, Single, Booting, SigningIn, SigningOut, Free

(* a call of a page *)
LEMMA CallsSingle ==
  ASSUME Typed, Single, BootAlone,
         NEW r \in Requests, Send(r) \/ Answered(r) \/ Unauthorised(r)
  PROVE  Single'
<1>1. /\ UNCHANGED <<server, store, gate, boot, syncs, flows, page, next, missed, expiries>>
      /\ rotate' = rotate \/ (rotate' = [rotate EXCEPT !["api"] = Cookie] /\ rotate["api"] = "idle")
  BY DEF Send, Answered, Unauthorised
<1>2. /\ rotate \in [Refreshers -> RefreshState]
      /\ rotate'["boot"] = rotate["boot"]
  BY <1>1 DEF Typed, QueueInv, Refreshers
<1>3. ~NoCalls \/ store.user # None
  BY DEF Send, Answered, Unauthorised, NoCalls
<1>4. Free
  BY <1>3, FreeIs
<1>5. ASSUME ~missed PROVE store.user # None
  BY <1>3, <1>4, <1>5 DEF Single, JarAgrees, Free
<1>6. Booting'
  BY <1>1, <1>2, <1>4 DEF Single, Booting, Free, server, flows
<1>7. SigningIn' /\ SigningOut'
  BY <1>1, <1>4 DEF Single, SigningIn, SigningOut, Free, server, flows
<1>8. JarAgrees'
  <2>1. CASE rotate' = rotate
    BY <1>1, <1>4, <1>5, <2>1 DEF Single, JarAgrees, server, flows
  <2>2. CASE rotate' = [rotate EXCEPT !["api"] = Cookie] /\ rotate["api"] = "idle"
    <3>1. rotate'["api"] = Cookie
      BY <1>2, <2>2 DEF Refreshers
    <3>2. ASSUME ~missed PROVE Cookie = "good"
      BY <1>4, <1>5, <2>2, <3>2 DEF Single, JarAgrees, Cookie, CookieIn, Free
    <3>. QED BY <1>1, <1>4, <1>5, <3>1, <3>2 DEF JarAgrees, Single, server, flows
  <2>. QED BY <1>1, <2>1, <2>2
<1>. QED BY <1>6, <1>7, <1>8 DEF Single

(* the refresh, of the page load or of the API client *)
LEMMA RefreshSingle ==
  ASSUME Typed, Single, NEW w \in Refreshers, RefreshHandled(w)
  PROVE  Single'
<1>1. /\ rotate \in [Refreshers -> RefreshState]
      /\ rotate' \in [Refreshers -> RefreshState]
      /\ UNCHANGED <<account, store, gate, boot, req, syncs, form, caller, change, leaving,
                     page, next, missed, expiries>>
  BY StepKeepsTypes DEF Typed, QueueInv, RefreshHandled, Next
<1>2. CASE w = "boot"
  <2>1. rotate["boot"] # "idle" /\ rotate["api"] = "idle" /\ boot = "refresh" /\ out = "none"
        /\ rotate["boot"] # "kept"
    BY <1>2 DEF RefreshHandled, Single, Booting
  <2>2. /\ rotate'["api"] = "idle" /\ out' = "none"
        /\ \/ rotate'["boot"] = "granted"
           \/ rotate'["boot"] = "refused" /\ rotate["boot"] = "bad" /\ jar' = jar
    BY <1>1, <1>2, <2>1 DEF RefreshHandled, Refreshers
  <2>. QED BY <1>1, <2>1, <2>2
           DEF Single, Booting, SigningIn, SigningOut, JarAgrees, NoCalls
<1>3. CASE w = "api"
  <2>1. rotate["api"] # "idle" /\ Free /\ rotate["boot"] = "idle"
    BY <1>3, FreeIs DEF RefreshHandled, Free, Single, Booting
  <2>2. /\ rotate'["boot"] = "idle" /\ out' = "none"
        /\ \/ rotate'["api"] = "granted" /\ rotate["api"] \in {"good", "kept"}
           \/ rotate'["api"] = "refused" /\ rotate["api"] = "bad"
    BY <1>1, <1>3, <2>1 DEF RefreshHandled, Refreshers, Free
  <2>3. NoCalls' <=> NoCalls
    BY <1>1 DEF NoCalls
  <2>4. Booting' /\ SigningIn' /\ SigningOut'
    BY <1>1, <2>1, <2>2, <2>3 DEF Single, Booting, SigningIn, SigningOut, Free
  <2>5. JarAgrees'
    BY <1>1, <2>1, <2>2, <2>3 DEF Single, JarAgrees, Free
  <2>. QED BY <2>4, <2>5 DEF Single
<1>. QED BY <1>2, <1>3 DEF Refreshers

(* the page load *)
LEMMA BootSingle ==
  ASSUME Typed, Single, BootRefreshed \/ BootMe \/ BootFails
  PROVE  Single'
<1>1. rotate \in [Refreshers -> RefreshState] /\ syncs \in Seq(SyncCall)
  BY DEF Typed, QueueInv, RestTyped
<1>2. CASE BootRefreshed
  <2>1. /\ boot = "refresh" /\ rotate["api"] = "idle" /\ out = "none"
        /\ NewCookie("boot") /\ boot' = "me"
        /\ UNCHANGED <<account, store, gate, req, syncs, form, caller, change, leaving,
                       page, next, missed, expiries>>
    BY <1>2 DEF BootRefreshed, Single, Booting
  <2>2. jar' = "good" /\ rotate'["boot"] = "idle" /\ rotate'["api"] = "idle" /\ out' = "none"
    BY <2>1 DEF NewCookie, Kept, Refreshers
  <2>. QED BY <2>1, <2>2 DEF Single, Booting, SigningIn, SigningOut, JarAgrees, NoCalls
<1>3. CASE BootMe
  <2>1. /\ boot = "me" /\ boot' = "done" /\ syncs = <<>>
        /\ store' = [user |-> account, token |-> "live", ready |-> TRUE]
        /\ UNCHANGED <<server, gate, rotate, req, flows, page, next, missed, expiries>>
    BY <1>3 DEF BootMe, Single, Booting
  <2>2. account # None
    BY NoneAssumption DEF Typed, StoreInv
  <2>3. NoCalls' /\ NoCalls
    BY <2>1 DEF NoCalls, Single, Booting
  <2>. QED BY <2>1, <2>2, <2>3
           DEF Single, Booting, SigningIn, SigningOut, JarAgrees, flows, server
<1>4. CASE BootFails
  <2>1. /\ boot \in {"refresh", "me"} /\ boot' = "clear" /\ syncs = <<>>
        /\ rotate'["boot"] = "idle" /\ rotate'["api"] = rotate["api"]
        /\ missed' \/ rotate["boot"] = "refused"
        /\ UNCHANGED <<server, store, gate, req, flows, page, next, expiries>>
    BY <1>1, <1>4 DEF BootFails, Refreshers, Single, Booting
  <2>2. Len(syncs') = 1 /\ syncs'[1].by = "boot" /\ ~syncs'[1].post
    <3>1. Deleted("boot") /\ Len(syncs) = 0
      BY <1>4, <2>1, EmptySeq DEF BootFails
    <3>2. Len(syncs') = 1 /\ syncs'[1].by = "boot"
      BY <3>1, SentTyped DEF Typed, Senders
    <3>3. syncs' = <<[by |-> "boot", post |-> FALSE, token |-> "none", st |-> "sent", to |-> None]>>
      BY <2>1, <3>1 DEF Deleted
    <3>. QED BY <3>2, <3>3
  <2>. QED BY <2>1, <2>2
           DEF Single, Booting, SigningIn, SigningOut, JarAgrees, NoCalls, flows, server
<1>. QED BY <1>2, <1>3, <1>4

(* ... and what it clears, with nothing outstanding *)
LEMMA ReloadSingle ==
  ASSUME Typed, Single, Calm, NEW p \in Links[page] \cup {page}, Reload(p)
  PROVE  Single'
<1>1. /\ store' = [user |-> None, token |-> "none", ready |-> FALSE] /\ boot' = "refresh"
      /\ rotate' = [w \in Refreshers |-> IF w = "boot" THEN CookieIn(jar') ELSE "idle"]
      /\ req' = [r \in Requests |-> IdleReq]
      /\ syncs' = <<>> /\ form' = "idle" /\ change' = NoChange
      /\ out' = "none" /\ leaving' = FALSE /\ missed' = FALSE
  BY DEF Reload
<1>2. rotate'["api"] = "idle" /\ rotate'["boot"] = CookieIn(jar')
  BY <1>1 DEF Refreshers
<1>3. NoCalls'
  BY <1>1 DEF NoCalls, IdleReq
<1>. QED BY <1>1, <1>2, <1>3
         DEF Single, Booting, SigningIn, SigningOut, JarAgrees, NoChange, CookieIn

(* the answer to the API client's refresh, and a token that runs out *)
LEMMA ClientSingle ==
  ASSUME Typed, Single, ApiRefreshed \/ ApiRefreshFails \/ Expire
  PROVE  Single'
<1>1. /\ rotate \in [Refreshers -> RefreshState] /\ syncs \in Seq(SyncCall)
      /\ store \in [user : MaybeProfile, token : {"none", "live", "old"}, ready : BOOLEAN]
      /\ req \in [Requests -> RequestState]
  BY DEF Typed, QueueInv, RestTyped, StoreInv
<1>2. CASE ApiRefreshed
  <2>1. Free /\ rotate["boot"] = "idle" /\ NewCookie("api")
    BY <1>2, FreeIs DEF ApiRefreshed, Single, Booting, Free
  <2>2. /\ jar' = "good" /\ rotate'["api"] = "idle" /\ rotate'["boot"] = "idle" /\ out' = "none"
        /\ store'.user = store.user /\ store'.token = "live"
        /\ UNCHANGED <<account, gate, boot, syncs, form, caller, change, leaving,
                       page, next, missed, expiries>>
    BY <1>1, <1>2, <2>1 DEF ApiRefreshed, TokenRefreshed, NewCookie, Kept, Refreshers, Free
  <2>3. ASSUME ~missed PROVE store.user # None
    BY <1>2, <2>1, <2>3 DEF ApiRefreshed, Single, JarAgrees, Free
  <2>4. Booting' /\ SigningIn' /\ SigningOut'
    BY <2>1, <2>2 DEF Single, Booting, SigningIn, SigningOut, Free
  <2>5. JarAgrees'
    BY <2>1, <2>2, <2>3 DEF JarAgrees
  <2>. QED BY <2>4, <2>5 DEF Single
<1>3. CASE ApiRefreshFails
  <2>1. Free /\ rotate["boot"] = "idle" /\ rotate["api"] # "idle"
    BY <1>3, FreeIs DEF ApiRefreshFails, Single, Booting, Free
  <2>2. missed'
    BY <1>3, <2>1 DEF ApiRefreshFails, Single, JarAgrees, Free
  <2>3. /\ rotate'["boot"] = "idle" /\ UNCHANGED <<server, gate, boot, flows, page, next, expiries>>
    BY <1>1, <1>3, <2>1 DEF ApiRefreshFails, Refreshers
  <2>. QED BY <2>1, <2>2, <2>3
           DEF Single, Booting, SigningIn, SigningOut, JarAgrees, Free, flows, server
<1>4. CASE Expire
  <2>1. boot = "done"
    BY <1>4 DEF Expire, Single, Booting
  <2>2. /\ store'.user = store.user /\ store'.token = "old"
        /\ UNCHANGED <<server, gate, boot, rotate, flows, page, next, missed>>
    BY <1>1, <1>4 DEF Expire
  <2>3. NoCalls' <=> NoCalls
    <3>1. \A r \in Requests : req'[r].st = req[r].st
      BY <1>1, <1>4 DEF Expire, RequestState
    <3>. QED BY <3>1 DEF NoCalls
  <2>. QED BY <2>1, <2>2, <2>3
           DEF Single, Booting, SigningIn, SigningOut, JarAgrees, flows, server
<1>. QED BY <1>2, <1>3, <1>4

(* the answer that signs in *)
LEMMA SignedInSingle ==
  ASSUME Typed, Single, InOrder, SignedIn, form \in {"password", "register", "code"}
  PROVE  Single'
<1>1. rotate \in [Refreshers -> RefreshState] /\ boot = "done" /\ rotate["boot"] = "idle"
  BY FreeIs DEF Typed, QueueInv, Single, Booting
<1>2. /\ out = "none" /\ NewCookie("form") /\ form' = "merge"
      /\ caller' = [caller EXCEPT !.user = account]
      /\ UNCHANGED <<account, store, gate, boot, req, syncs, change, leaving, page, next,
                     missed, expiries>>
  BY DEF SignedIn
<1>3. caller'.user = account
  BY <1>2 DEF Typed, RestTyped
<1>4. /\ jar' = "good" /\ out' = "none" /\ rotate'["boot"] = "idle"
      /\ rotate'["api"] = IF rotate["api"] = "good" THEN "kept" ELSE rotate["api"]
  BY <1>1, <1>2 DEF NewCookie, Kept, Refreshers
<1>5. NoCalls' <=> NoCalls
  BY <1>2 DEF NoCalls
<1>6. Booting' /\ SigningIn' /\ SigningOut'
  BY <1>1, <1>2, <1>3, <1>4 DEF Single, Booting, SigningIn, SigningOut
<1>7. JarAgrees'
  BY <1>1, <1>2, <1>4, <1>5 DEF Single, JarAgrees
<1>. QED BY <1>6, <1>7 DEF Single

(* the sign-in and the registration form *)
LEMMA FormSingle ==
  ASSUME Typed, Single, Calm, BootAlone, InOrder,
         \/ SubmitLogin \/ SubmitRegistration \/ SubmitCode \/ BackToLogin \/ SignInFails
         \/ LoginAnswered \/ CodeAnswered \/ RegisterAnswered
  PROVE  Single'
<1>1. CASE SubmitLogin \/ SubmitRegistration \/ SubmitCode
  <2>1. /\ boot = "done" /\ AtRest /\ form' \in {"password", "register", "code"}
        /\ form \in {"idle", "totp"}
        /\ UNCHANGED <<server, store, gate, boot, rotate, req, syncs, change, out, leaving,
                       page, next, missed, expiries>>
    BY <1>1 DEF SubmitLogin, SubmitRegistration, SubmitCode, Submitted
  <2>2. (NoCalls' <=> NoCalls) /\ change.st \in {"idle", "done"}
    BY <2>1 DEF AtRest, NoCalls
  <2>. QED BY <2>1, <2>2 DEF Single, Booting, SigningIn, SigningOut, JarAgrees, server
<1>2. CASE \/ BackToLogin \/ SignInFails
           \/ LoginAnswered /\ form' \in {"idle", "totp"}
  <2>1. /\ form \in {"totp", "password", "register", "code"} /\ form' \in {"idle", "totp"}
        /\ UNCHANGED <<server, store, gate, boot, rotate, req, syncs, change, out, leaving,
                       page, next, missed, expiries>>
    BY <1>2 DEF BackToLogin, SignInFails, LoginAnswered, SignedIn
  <2>2. (NoCalls' <=> NoCalls) /\ boot = "done"
    BY <2>1, FreeIs DEF NoCalls
  <2>. QED BY <2>1, <2>2 DEF Single, Booting, SigningIn, SigningOut, JarAgrees, server
<1>3. CASE SignedIn /\ form \in {"password", "register", "code"}
  BY <1>3, SignedInSingle
<1>. QED BY <1>1, <1>2, <1>3 DEF LoginAnswered, CodeAnswered, RegisterAnswered

(* a sign-in that is stored, and a sign-out *)
LEMMA SignSingle ==
  ASSUME Typed, Single, Calm,
         StoreLogin \/ SignOut \/ SignOutHandled \/ SignOutAnswered \/ SignOutLost
  PROVE  Single'
<1>1. /\ rotate \in [Refreshers -> RefreshState] /\ change \in ChangeState
      /\ store \in [user : MaybeProfile, token : {"none", "live", "old"}, ready : BOOLEAN]
      /\ account # None
  BY NoneAssumption DEF Typed, QueueInv, StoreInv
<1>2. CASE StoreLogin
  <2>1. /\ form = "merge" /\ boot = "done" /\ out = "none" /\ caller.user = account
        /\ change.st \in {"idle", "done"}
    BY <1>2, FreeIs DEF StoreLogin, Single, SigningIn
  <2>2. /\ form' = "save" /\ store'.user = account /\ store'.token = "live"
        /\ UNCHANGED <<server, gate, boot, rotate, req, caller, change, out, leaving, page,
                       next, expiries>>
    BY <1>1, <1>2, <2>1 DEF StoreLogin
  <2>3. NoCalls' <=> NoCalls
    BY <2>2 DEF NoCalls
  <2>4. ~missed' => /\ rotate["api"] \in {"idle", "good", "kept", "granted"}
                    /\ rotate["api"] = "idle" => jar = "good"
    <3>1. CASE missed
      BY <1>2, <3>1 DEF StoreLogin, AtRest
    <3>2. CASE ~missed
      BY <2>1, <3>2 DEF Single, JarAgrees
    <3>. QED BY <3>1, <3>2
  <2>. QED BY <1>1, <2>1, <2>2, <2>3, <2>4
           DEF Single, Booting, SigningIn, SigningOut, JarAgrees, server
<1>3. CASE SignOut
  <2>1. /\ Quiet /\ out' = Cookie
        /\ store'.user = None /\ store'.token = "none"
        /\ UNCHANGED <<server, gate, boot, rotate, req, form, caller, change, page, next,
                       missed, expiries>>
    BY <1>1, <1>3 DEF SignOut
  <2>2. /\ boot = "done" /\ rotate["api"] = "idle" /\ NoCalls
        /\ form \in {"idle", "totp"} /\ change.st \in {"idle", "done"}
    BY <2>1 DEF Quiet, AtRest, NoCalls
  <2>3. NoCalls' /\ out' # "none"
    BY <2>1, <2>2 DEF NoCalls, Cookie, CookieIn
  <2>. QED BY <2>1, <2>2, <2>3
           DEF Single, Booting, SigningIn, SigningOut, JarAgrees, server
<1>4. CASE SignOutHandled \/ SignOutAnswered \/ SignOutLost
  <2>1. /\ out # "none" /\ boot = "done" /\ form \notin {"merge", "save"} /\ store.user = None
        /\ rotate["api"] = "idle" /\ rotate["boot"] = "idle" /\ NoCalls
        /\ change.st \in {"idle", "done"}
    BY <1>4 DEF SignOutHandled, SignOutAnswered, SignOutLost, Single, Booting, SigningOut
  <2>2. /\ UNCHANGED <<account, store, gate, boot, req, syncs, form, caller, change, leaving,
                       page, next, expiries>>
        /\ missed => missed'
    BY <1>4 DEF SignOutHandled, SignOutAnswered, SignOutLost, server
  <2>3. rotate'["api"] = "idle" /\ rotate'["boot"] = "idle"
    BY <1>4, <2>1 DEF SignOutHandled, SignOutAnswered, SignOutLost, Refreshers
  <2>4. NoCalls'
    BY <2>1, <2>2 DEF NoCalls
  <2>5. out' = "answered" \/ (out' = "none" /\ jar' # "good") \/ (out' = "none" /\ missed')
    BY <1>4 DEF SignOutHandled, SignOutAnswered, SignOutLost
  <2>. QED BY <2>1, <2>2, <2>3, <2>4, <2>5
           DEF Single, Booting, SigningIn, SigningOut, JarAgrees
<1>. QED BY <1>2, <1>3, <1>4

(* a change of the own profile *)
LEMMA ChangeSingle ==
  ASSUME Typed, Single, Calm,
         \/ (\E k \in Kinds : StartChange(k)) \/ ChangeMade \/ ChangeFails
         \/ TotpChanged \/ SellerRegistered
  PROVE  Single'
<1>1. /\ store \in [user : MaybeProfile, token : {"none", "live", "old"}, ready : BOOLEAN]
      /\ account # None /\ change \in ChangeState
  BY NoneAssumption DEF Typed, StoreInv
<1>2. ASSUME NEW k \in Kinds, StartChange(k) PROVE Single'
  <2>1. /\ store.user # None /\ change'.st = "sent" /\ form \in {"idle", "totp"}
        /\ UNCHANGED <<server, store, gate, boot, rotate, req, syncs, form, caller, out,
                       leaving, page, next, missed, expiries>>
    BY <1>2 DEF StartChange
  <2>2. Free
    BY <2>1, FreeIs
  <2>. QED BY <2>1, <2>2
           DEF Single, Booting, SigningIn, SigningOut, JarAgrees, NoCalls, Free, server
<1>3. CASE ChangeMade \/ ChangeFails
  <2>1. /\ change.st \in {"sent", "me"}
        /\ UNCHANGED <<jar, store, gate, boot, rotate, req, syncs, form, caller, out, leaving,
                       page, next, expiries>>
        /\ missed => missed'
    <3>1. CASE ChangeMade
      BY <3>1 DEF ChangeMade
    <3>2. CASE ChangeFails
      BY <3>2 DEF ChangeFails, server
    <3>. QED BY <1>3, <3>1, <3>2
  <2>2. Free /\ form \in {"idle", "totp"}
    BY <2>1, FreeIs
  <2>. QED BY <2>1, <2>2 DEF Single, Booting, SigningIn, SigningOut, JarAgrees, NoCalls, Free
<1>4. CASE TotpChanged \/ SellerRegistered
  <2>1. /\ change.st = "me" /\ UserSet /\ change'.st \in {"idle", "save", "done"}
    BY <1>1, <1>4 DEF TotpChanged, SellerRegistered, UserSet, NoChange, ChangeState
  <2>2. Free /\ form \in {"idle", "totp"}
    BY <2>1, FreeIs
  <2>3. /\ store'.user = account /\ store'.token = store.token
        /\ UNCHANGED <<server, gate, boot, rotate, req, form, caller, out, leaving, page, next,
                       missed, expiries>>
    BY <1>1, <2>1 DEF UserSet
  <2>4. Booting' /\ SigningIn' /\ SigningOut'
    BY <2>1, <2>2, <2>3 DEF Single, Booting, SigningIn, SigningOut, Free, server
  <2>5. JarAgrees'
    BY <1>1, <2>1, <2>2, <2>3 DEF Single, JarAgrees, NoCalls, Free, server
  <2>. QED BY <2>4, <2>5 DEF Single
<1>. QED BY <1>2, <1>3, <1>4

(* another page *)
LEMMA PageSingle ==
  ASSUME Typed, Single, Guard \/ GoToDashboard \/ \E p \in Links[page] : Visit(p)
  PROVE  Single'
<1>1. /\ UNCHANGED <<server, store, gate, boot, rotate, req, syncs, out, leaving, missed, expiries>>
      /\ change' = change \/ (change.st = "done" /\ change' = NoChange)
      /\ form' = form \/ (form = "totp" /\ form' = "idle")
      /\ caller'.user = caller.user
  <2>1. CASE Guard
    BY <2>1 DEF Guard, flows
  <2>2. CASE GoToDashboard
    BY <2>2 DEF GoToDashboard
  <2>3. CASE \E p \in Links[page] : Visit(p)
    <3>1. FormLeft /\ ChangeLeft
      BY <2>3 DEF Visit
    <3>2. /\ form' = form \/ (form = "totp" /\ form' = "idle")
          /\ caller'.user = caller.user
      BY <3>1, LeftTyped DEF Typed, RestTyped
    <3>. QED BY <2>3, <3>1, <3>2 DEF Visit, ChangeLeft
  <2>. QED BY <2>1, <2>2, <2>3
<1>2. NoCalls' <=> NoCalls
  BY <1>1 DEF NoCalls
<1>. QED BY <1>1, <1>2 DEF Single, Booting, SigningIn, SigningOut, JarAgrees, NoChange, server

(* the route handler, and the answer to a /session-sync call *)
LEMMA SyncSingle ==
  ASSUME Typed, Single, NEW i \in DOMAIN syncs, SyncHandled(i) \/ SyncAnswered(i) \/ SyncLost(i)
  PROVE  Single'
<1>1. /\ syncs \in Seq(SyncCall) /\ Len(syncs) \in Nat /\ DOMAIN syncs = 1 .. Len(syncs)
      /\ store \in [user : MaybeProfile, token : {"none", "live", "old"}, ready : BOOLEAN]
      /\ change \in ChangeState /\ syncs # <<>>
  BY LenProperties, EmptySeq DEF Typed, RestTyped, StoreInv
<1>2. boot \in {"clear", "done"}
  BY <1>1 DEF Typed, RestTyped, Single, Booting
<1>3. CASE SyncHandled(i)
  <2>1. /\ Len(syncs') = Len(syncs) /\ DOMAIN syncs' = DOMAIN syncs
        /\ \A j \in DOMAIN syncs : syncs'[j].by = syncs[j].by /\ syncs'[j].post = syncs[j].post
    BY <1>3, HandledTyped DEF Typed, StoreInv
  <2>2. UNCHANGED <<server, store, gate, boot, rotate, req, flows, page, next, missed, expiries>>
    BY <1>3 DEF SyncHandled
  <2>. QED BY <1>1, <1>2, <2>1, <2>2
           DEF Single, Booting, SigningIn, SigningOut, JarAgrees, NoCalls, flows, server
<1>4. CASE SyncAnswered(i) \/ SyncLost(i)
  <2> DEFINE by == syncs[i].by
  <2>1. /\ Awaited(by)
        /\ UNCHANGED <<server, rotate, req, out, expiries>> /\ (missed => missed')
        /\ (NoCalls' <=> NoCalls)
    BY <1>4 DEF SyncAnswered, SyncLost, NoCalls
  <2>2. /\ boot' = "done" /\ store'.user = store.user /\ store'.token = store.token
        /\ boot = "clear" => missed \/ jar # "good"
    <3>1. CASE boot = "clear"
      <4>1. by = "boot"
        BY <1>1, <3>1 DEF Single, Booting
      <4>. QED BY <1>1, <2>1, <3>1, <4>1 DEF Awaited, Single, Booting
    <3>2. CASE boot = "done"
      BY <2>1, <3>2 DEF Awaited
    <3>. QED BY <1>2, <3>1, <3>2
  <2>3. change' = change \/ (change.st \in {"save", "done"} /\ change' = NoChange)
    BY <2>1 DEF Awaited, ChangeLeft
  <2>4. /\ form' \in {form, "idle"}
        /\ form' # form => form \in {"save", "totp"}
        /\ form' # "idle" => caller'.user = caller.user
    <3>1. gate' \in MaybeProfile
      BY <1>4, StepKeepsTypes DEF Typed, RestTyped, Next
    <3>. QED BY <2>1, <3>1, AwaitedTyped DEF Typed
  <2>5. Booting'
    <3>1. rotate["boot"] = "idle"
      BY <1>2 DEF Single, Booting
    <3>. QED BY <2>1, <2>2, <3>1 DEF Booting
  <2>6. SigningIn'
    BY <2>1, <2>3, <2>4 DEF Single, SigningIn, NoChange, server
  <2>7. SigningOut'
    BY <2>1, <2>2, <2>3, <2>4 DEF Single, SigningOut, NoChange
  <2>8. JarAgrees'
    <3>1. CASE boot = "clear"
      BY <2>1, <2>2, <2>3, <2>4, <3>1 DEF Single, Booting, JarAgrees, NoChange, server
    <3>2. CASE boot = "done"
      BY <2>1, <2>2, <2>3, <2>4, <3>2 DEF Single, JarAgrees, NoChange, server
    <3>. QED BY <1>2, <3>1, <3>2
  <2>. QED BY <2>5, <2>6, <2>7, <2>8 DEF Single
<1>. QED BY <1>3, <1>4

LEMMA StepSingle ==
  Calm /\ BootAlone /\ InOrder /\ Typed /\ Single /\ [Next]_sessionVars => Single'
<1> SUFFICES ASSUME Calm, BootAlone, InOrder, Typed, Single, [Next]_sessionVars PROVE Single'
  OBVIOUS
<1>1. CASE UNCHANGED sessionVars
  BY <1>1 DEF sessionVars, Single, Booting, SigningIn, SigningOut, JarAgrees, NoCalls
<1>. QED BY <1>1, PageSingle, SyncSingle, RefreshSingle, BootSingle, ReloadSingle, CallsSingle,
         ClientSingle, FormSingle, SignSingle, ChangeSingle DEF Next

(* Once everything has been answered and nothing failed, nobody is signed   *)
(* out who has a session, and nobody who signed out has one left: for every *)
(* number of calls and every change of the profile, with links followed and *)
(* forms submitted while a sign-out or another call is on its way - if the  *)
(* visitor signs out and loads pages in peace and signs in with no call of  *)
(* a page out (Calm), if nothing goes on before initialise() is done        *)
(* (BootAlone), and if a sign-out is answered before the sign-in after it   *)
(* (InOrder).  The code sees to none of the three.                          *)
THEOREM StoreMatches == Calm /\ BootAlone /\ InOrder => (Spec => []StoreMatchesJar)
<1>1. Single => StoreMatchesJar
  BY DEF Single, JarAgrees, StoreMatchesJar, Quiet, AtRest
<1>2. CASE Calm /\ BootAlone /\ InOrder
  <2>1. Typed /\ Single /\ [Next]_sessionVars => Single'
    BY <1>2, StepSingle
  <2>. QED BY <1>1, <2>1, SingleBegins, TypesBegin, StepKeepsTypes, PTL DEF Spec
<1>. QED BY <1>2

-----------------------------------------------------------------------------
(* The store and the gate                                                  *)

(* The last call that is outstanding leaves the gate with the user in the   *)
(* store, unless its token runs out or the profile is just being changed    *)
LastTells(l, user, st) ==
  /\ l.post <=> user # None
  /\ l.post /\ l.st = "answered" /\ st # "me" => l.to \in {user, None}

GateAgrees == boot = "done" /\ ~missed =>
  /\ store.user # None /\ change.st # "me" => store.user = account
  /\ syncs = <<>> /\ change.st # "me" => gate = store.user
  /\ syncs # <<>> => LastTells(syncs[Len(syncs)], store.user, change.st)

LEMMA GateKept ==
  ASSUME GateAgrees, boot' = boot, missed => missed', store'.user = store.user,
         account' = account, syncs' = syncs, gate' = gate,
         change.st = "me" => change'.st = "me" \/ missed'
  PROVE  GateAgrees'
BY DEF GateAgrees, LastTells

(* a call sent by a step that leaves the store with the user it tells *)
LEMMA GateSent ==
  ASSUME Typed, NEW by \in Senders,
         NEW token \in {"none", "live", "old"},
         \/ Posted(by, token) /\ store'.user = account
         \/ Deleted(by) /\ store'.user = None,
         account' = account
  PROVE  GateAgrees'
<1>1. /\ Len(syncs) \in Nat /\ account # None
  BY LenProperties, NoneAssumption DEF Typed, RestTyped, StoreInv
<1>2. /\ syncs' \in Seq(SyncCall) /\ Len(syncs') = Len(syncs) + 1
      /\ LET l == syncs'[Len(syncs) + 1]
         IN  l.st = "sent" /\ (l.post <=> Posted(by, token))
  BY SentTyped DEF Typed
<1>3. syncs' # <<>>
  BY <1>1, <1>2, EmptySeq
<1>4. CASE Posted(by, token) /\ store'.user = account
  BY <1>1, <1>2, <1>3, <1>4 DEF GateAgrees, LastTells
<1>5. CASE Deleted(by) /\ store'.user = None /\ ~Posted(by, token)
  BY <1>2, <1>3, <1>5 DEF GateAgrees, LastTells
<1>6. ~(Deleted(by) /\ Posted(by, token))
  <2>1. [by |-> by, post |-> TRUE, token |-> token, st |-> "sent", to |-> None]
          # [by |-> by, post |-> FALSE, token |-> "none", st |-> "sent", to |-> None]
    OBVIOUS
  <2>2. syncs \in Seq(SyncCall)
    BY DEF Typed, RestTyped
  <2>. QED BY <2>1, <2>2, AppendProperties DEF Deleted, Posted
<1>. QED BY <1>4, <1>5, <1>6

LEMMA SyncGate ==
  ASSUME Typed, SyncsTell, Single, GateAgrees, InOrder,
         NEW i \in DOMAIN syncs, SyncHandled(i) \/ SyncAnswered(i) \/ SyncLost(i)
  PROVE  GateAgrees'
<1> DEFINE n == Len(syncs)
           last == syncs[n]
<1>1. /\ syncs \in Seq(SyncCall) /\ n \in Nat /\ DOMAIN syncs = 1 .. n /\ syncs # <<>>
      /\ n \in DOMAIN syncs /\ 1 <= n /\ change \in ChangeState
      /\ store \in [user : MaybeProfile, token : {"none", "live", "old"}, ready : BOOLEAN]
  BY LenProperties, EmptySeq DEF Typed, RestTyped, StoreInv
<1>2. boot \in {"clear", "done"}
  BY <1>1 DEF Typed, RestTyped, Single, Booting
<1>3. CASE SyncHandled(i)
  <2>1. /\ Len(syncs') = n /\ syncs' # <<>>
        /\ \A j \in DOMAIN syncs : j # i => syncs'[j] = syncs[j]
        /\ syncs'[i].post = syncs[i].post
        /\ syncs'[i].to = IF syncs[i].post /\ syncs[i].token = "live" THEN account ELSE None
    BY <1>1, <1>3, HandledTyped, EmptySeq DEF Typed, StoreInv
  <2>2. UNCHANGED <<server, store, gate, boot, rotate, req, flows, page, next, missed, expiries>>
    BY <1>3 DEF SyncHandled
  <2>3. ASSUME boot = "done", ~missed PROVE LastTells(syncs'[n], store.user, change.st)
    <3>1. LastTells(last, store.user, change.st)
      BY <1>1, <2>3 DEF GateAgrees
    <3>2. CASE i = n
      <4>1. store.user # None /\ change.st # "me" => store.user = account
        BY <1>2, <2>3 DEF GateAgrees
      <4>. QED BY <2>1, <2>2, <3>1, <3>2, <4>1 DEF LastTells, flows
    <3>3. CASE i # n
      BY <1>1, <2>1, <2>2, <3>1, <3>3 DEF LastTells, flows
    <3>. QED BY <3>2, <3>3
  <2>. QED BY <2>1, <2>2, <2>3 DEF GateAgrees, flows, server
<1>4. CASE SyncAnswered(i) \/ SyncLost(i)
  <2> SUFFICES ASSUME ~missed' PROVE GateAgrees'
    BY DEF GateAgrees
  <2>1. /\ SyncAnswered(i) /\ i = 1 /\ ~missed /\ gate' = syncs[1].to
        /\ Awaited(syncs[1].by) /\ syncs' = RemoveAt(syncs, 1)
        /\ syncs[1].post => syncs[1].to # None
        /\ UNCHANGED <<server, rotate, req, out, expiries>>
    BY <1>4 DEF SyncAnswered, SyncLost
  <2>2. /\ syncs' \in Seq(SyncCall) /\ Len(syncs') = n - 1
        /\ \A j \in DOMAIN syncs' : syncs'[j] = IF j < 1 THEN syncs[j] ELSE syncs[j + 1]
    <3>1. 1 \in DOMAIN syncs /\ syncs \in Seq(SyncCall)
      BY <1>1, <2>1
    <3>2. /\ RemoveAt(syncs, 1) \in Seq(SyncCall) /\ Len(RemoveAt(syncs, 1)) = Len(syncs) - 1
          /\ \A j \in DOMAIN RemoveAt(syncs, 1) :
               RemoveAt(syncs, 1)[j] = IF j < 1 THEN syncs[j] ELSE syncs[j + 1]
      BY ONLY <3>1, RemovedIs
    <3>. QED BY <2>1, <3>2
  <2>3. /\ store'.user = store.user
        /\ change.st = "me" <=> change'.st = "me"
    BY <1>1, <1>2, <2>1 DEF Awaited, ChangeLeft, NoChange
  <2>4. Tells(syncs[1])
    BY <2>1 DEF SyncsTell
  <2>5. CASE boot = "clear"
    <3>1. n = 1 /\ ~syncs[1].post /\ store.user = None
      BY <2>5 DEF Single, Booting
    <3>2. syncs' = <<>>
      BY <2>2, <3>1, EmptySeq
    <3>. QED BY <2>1, <2>3, <2>4, <3>1, <3>2 DEF GateAgrees, Tells
  <2>6. CASE boot = "done"
    <3>1. /\ store.user # None /\ change.st # "me" => store.user = account
          /\ LastTells(last, store.user, change.st)
      BY <1>1, <1>2, <2>1, <2>6 DEF GateAgrees
    <3>2. CASE n = 1
      <4>1. syncs' = <<>>
        BY <2>2, <3>2, EmptySeq
      <4>2. syncs[1].st = "answered"
        BY <2>1 DEF SyncAnswered
      <4>. QED BY <2>1, <2>3, <2>4, <3>1, <3>2, <4>1, <4>2 DEF GateAgrees, LastTells, Tells, server
    <3>3. CASE n # 1
      <4>1. Len(syncs') \in DOMAIN syncs' /\ syncs' # <<>>
        BY <1>1, <2>2, <3>3, LenProperties, EmptySeq
      <4>2. syncs'[Len(syncs')] = last
        BY <1>1, <2>2, <3>3, <4>1
      <4>3. LastTells(last, store'.user, change'.st)
        BY <2>3, <3>1, <4>2 DEF LastTells
      <4>. QED BY <2>1, <2>3, <3>1, <4>1, <4>2 DEF GateAgrees, LastTells, server
    <3>. QED BY <3>2, <3>3
  <2>. QED BY <1>2, <2>5, <2>6
<1>. QED BY <1>3, <1>4

LEMMA StepGate ==
  Calm /\ BootAlone /\ InOrder /\ Typed /\ SyncsTell /\ Single /\ GateAgrees /\ [Next]_sessionVars
    => GateAgrees'
<1> SUFFICES ASSUME Calm, BootAlone, InOrder, Typed, SyncsTell, Single, GateAgrees,
                    [Next]_sessionVars
             PROVE  GateAgrees'
  OBVIOUS
<1>1. /\ store \in [user : MaybeProfile, token : {"none", "live", "old"}, ready : BOOLEAN]
      /\ account # None /\ change \in ChangeState
      /\ syncs \in Seq(SyncCall) /\ Len(syncs) \in Nat /\ DOMAIN syncs = 1 .. Len(syncs)
  BY LenProperties, NoneAssumption DEF Typed, RestTyped, StoreInv
<1>2. CASE \/ UNCHANGED sessionVars \/ Guard
           \/ (\E w \in Refreshers : RefreshHandled(w))
           \/ (\E r \in Requests : Send(r) \/ Answered(r) \/ Unauthorised(r))
  <2>1. UNCHANGED <<boot, missed, store, account, syncs, gate, change>>
    BY <1>2 DEF sessionVars, Guard, RefreshHandled, Send, Answered, Unauthorised, server, flows
  <2>. QED BY <2>1, GateKept
<1>3. CASE GoToDashboard
  <2>1. /\ UNCHANGED <<boot, missed, store, account, syncs, gate>>
        /\ change.st = "done"
    BY <1>3 DEF GoToDashboard, server
  <2>. QED BY <2>1, GateKept
<1>16. ASSUME NEW p \in Links[page], Visit(p) PROVE GateAgrees'
  <2>1. /\ UNCHANGED <<boot, missed, store, account, syncs, gate>>
        /\ change.st = "me" => change' = change
    BY <1>16 DEF Visit, ChangeLeft, server
  <2>. QED BY <2>1, GateKept
<1>4. ASSUME NEW i \in DOMAIN syncs, SyncHandled(i) \/ SyncAnswered(i) \/ SyncLost(i) PROVE GateAgrees'
  BY <1>4, SyncGate
<1>5. CASE BootRefreshed \/ BootFails \/ \E p \in Links[page] \cup {page} : Reload(p)
  <2>1. boot' # "done"
    BY <1>5 DEF BootRefreshed, BootFails, Reload
  <2>. QED BY <2>1 DEF GateAgrees
<1>6. CASE BootMe \/ StoreLogin
  <2>1. /\ Posted("boot", "live") \/ Posted("login", "live")
        /\ account' = account
    BY <1>6 DEF BootMe, StoreLogin, server
  <2>2. store'.user = account
    <3>1. CASE BootMe
      BY <3>1 DEF BootMe
    <3>2. CASE StoreLogin
      <4>1. caller.user = account
        BY <3>2 DEF StoreLogin, Single, SigningIn
      <4>. QED BY <1>1, <3>2, <4>1 DEF StoreLogin
    <3>. QED BY <1>6, <3>1, <3>2
  <2>. QED BY <2>1, <2>2, GateSent DEF Senders
<1>7. CASE ApiRefreshed
  <2>1. /\ UNCHANGED <<boot, missed, account, syncs, gate, change>>
        /\ store'.user = store.user
    BY <1>1, <1>7 DEF ApiRefreshed, TokenRefreshed
  <2>. QED BY <2>1, GateKept
<1>8. CASE ApiRefreshFails \/ SignOut
  <2>1. /\ Deleted("drop") \/ Deleted("out")
        /\ store'.user = None /\ account' = account
    BY <1>1, <1>8 DEF ApiRefreshFails, SignOut, server
  <2>. QED BY <2>1, GateSent DEF Senders
<1>9. CASE Expire
  <2>1. /\ UNCHANGED <<boot, missed, account, gate, change>> /\ store'.user = store.user
    BY <1>1, <1>9 DEF Expire, server, flows
  <2>2. /\ Len(syncs') = Len(syncs) /\ syncs' \in Seq(SyncCall)
        /\ \A j \in DOMAIN syncs : syncs'[j].post = syncs[j].post
                                   /\ syncs'[j].st = syncs[j].st /\ syncs'[j].to = syncs[j].to
    BY <1>9, AgedTyped DEF Typed
  <2>3. syncs' = <<>> <=> syncs = <<>>
    BY <1>1, <2>2, EmptySeq
  <2>4. syncs # <<>> => Len(syncs) \in DOMAIN syncs
    BY <1>1, EmptySeq
  <2>. QED BY <2>1, <2>2, <2>3, <2>4 DEF GateAgrees, LastTells
<1>10. CASE \/ SubmitLogin \/ SubmitRegistration \/ SubmitCode \/ BackToLogin \/ SignInFails
            \/ LoginAnswered \/ CodeAnswered \/ RegisterAnswered
  <2>1. UNCHANGED <<boot, missed, store, account, syncs, gate, change>>
    BY <1>10 DEF SubmitLogin, SubmitRegistration, SubmitCode, Submitted, BackToLogin,
       SignInFails, LoginAnswered, CodeAnswered, RegisterAnswered, SignedIn, server
  <2>. QED BY <2>1, GateKept
<1>12. CASE SignOutHandled \/ SignOutAnswered \/ SignOutLost
  <2>1. /\ UNCHANGED <<boot, store, account, syncs, gate, change>> /\ (missed => missed')
    BY <1>12 DEF SignOutHandled, SignOutAnswered, SignOutLost, server
  <2>. QED BY <2>1, GateKept
<1>13. CASE ChangeFails \/ \E k \in Kinds : StartChange(k)
  <2>1. /\ UNCHANGED <<boot, store, account, syncs, gate>> /\ (missed => missed')
        /\ change.st = "me" => missed'
    <3>1. CASE ChangeFails
      BY <3>1 DEF ChangeFails, server
    <3>2. ASSUME NEW k \in Kinds, StartChange(k)
          PROVE  /\ UNCHANGED <<boot, store, account, syncs, gate>> /\ missed' = missed
                 /\ change.st # "me"
      BY <3>2 DEF StartChange, server
    <3>. QED BY <1>13, <3>1, <3>2
  <2>. QED BY <2>1, GateKept
<1>14. CASE ChangeMade
  <2>1. UNCHANGED <<store, gate, boot, syncs, missed>>
    BY <1>14 DEF ChangeMade
  <2>2. change'.st = "me" /\ change.st = "sent"
    BY <1>1, <1>14 DEF ChangeMade, ChangeState
  <2>. QED BY <2>1, <2>2 DEF GateAgrees, LastTells
<1>15. CASE TotpChanged \/ SellerRegistered
  <2>1. /\ UserSet /\ store'.user = account /\ UNCHANGED <<account, boot, missed>>
    BY <1>1, <1>15 DEF TotpChanged, SellerRegistered, UserSet, server
  <2>2. change.st = "me"
    BY <2>1 DEF UserSet
  <2>3. CASE store.token = "none"
    <3>1. boot = "done"
      BY <2>2, FreeIs DEF Free
    <3>2. missed
      <4>1. change.st \in {"sent", "me", "save"}
        BY <2>2
      <4>. QED BY <2>3, <3>1, <4>1 DEF Single, JarAgrees
    <3>. QED BY <2>1, <3>2 DEF GateAgrees
  <2>4. CASE store.token # "none"
    <3>1. Posted("profile", store.token) \/ Posted("seller", store.token)
      BY <2>1, <2>4 DEF UserSet
    <3>2. store.token \in {"none", "live", "old"}
      BY <1>1
    <3>. QED BY <2>1, <3>1, <3>2, GateSent DEF Senders
  <2>. QED BY <2>3, <2>4
<1>. QED BY <1>2, <1>3, <1>4, <1>5, <1>6, <1>7, <1>8, <1>9, <1>10, <1>12, <1>13, <1>14,
            <1>15, <1>16 DEF Next

(* ... and the middleware gates by the profile in the store, so that guard  *)
(* and middleware do not send a visitor to and fro: a role or second factor *)
(* just gained opens its area.  Here InOrder says that the answers to       *)
(* /session-sync come in order too, as the last one decides.                *)
THEOREM GateMatches == Calm /\ BootAlone /\ InOrder => (Spec => []GateMatchesStore)
<1>1. GateAgrees => GateMatchesStore
  BY DEF GateAgrees, GateMatchesStore, Quiet, AtRest
<1>2. Init => GateAgrees /\ SyncsTell
  BY DEF Init, GateAgrees, SyncsTell
<1>3. CASE Calm /\ BootAlone /\ InOrder
  <2>1. Typed /\ SyncsTell /\ Single /\ GateAgrees /\ [Next]_sessionVars
          => Single' /\ GateAgrees' /\ SyncsTell'
    BY <1>3, StepSingle, StepGate, StepTells
  <2>. QED BY <1>1, <1>2, <2>1, SingleBegins, TypesBegin, StepKeepsTypes, PTL DEF Spec
<1>. QED BY <1>3
=============================================================================
