-------------------------------- MODULE Session --------------------------------
(***************************************************************************)
(* Who is signed in, as the storefront's browser tab sees it.              *)
(*                                                                         *)
(* Three places hold an answer and nothing updates them together:          *)
(*   store  the auth store (store/auth.ts): profile and access token, in   *)
(*          memory, lost on every page load;                               *)
(*   gate   the httpOnly cookies the Next middleware gates routes by,      *)
(*          written by POST and DELETE /session-sync;                      *)
(*   jar    the refresh cookie, rotated by every /auth/refresh/, the old   *)
(*          one being blacklisted.                                         *)
(*                                                                         *)
(* The calls that change them are steps of their own: sent, handled by the *)
(* server, answered.  An access token has no identity here, only an age.   *)
(***************************************************************************)
EXTENDS Naturals, SequencesExt

Profile == [role : {"BUYER", "SUPPLIER", "ADMIN"}, totp : BOOLEAN]
Pages == {"login", "register", "catalogue", "orders", "account", "sell",
          "supplier", "admin"}

CONSTANTS
  Links,        \* bound: Links[p] are the links followed on page p
  Requests,     \* API calls of the pages that may be outstanding together
  Accounts,     \* the profiles an account may have at first
  Kinds,        \* the changes of the own profile that are made
  MaxExpiries,  \* bound: how often an access token runs out
  MaxSyncs,     \* bound: /session-sync calls outstanding together
  Calm,         \* one thing at a time: the visitor signs out and loads a page
                \* only while no call that bears on the session is outstanding,
                \* signs in only while no call of a page, refresh or change of
                \* the profile is, and changes the profile while no form waits
  BootAlone,    \* before initialise() is done no page sends a protected call
                \* and no form is submitted
  InOrder,      \* answers that set cookies come in the order of their calls:
                \* those of /session-sync, and a sign-out's before that of the
                \* sign-in it overlaps with
  None          \* no profile, no page

ASSUME SessionAssumption ==
  /\ Links \in [Pages -> SUBSET Pages]
  /\ Accounts \subseteq Profile
  /\ Kinds \subseteq {"enable", "disable", "register"}
  /\ MaxExpiries \in Nat /\ MaxSyncs \in Nat \ {0}
  /\ Calm \in BOOLEAN /\ BootAlone \in BOOLEAN /\ InOrder \in BOOLEAN

MaybeProfile == Profile \cup {None}
ASSUME NoneAssumption == None \notin Profile /\ None \notin Pages

VARIABLES
  account,    \* the profile the service holds
  registered, \* ... and holds already: one account is followed
  jar,        \* the refresh cookie in the browser: "none", "good" or "spent"
  store,      \* [user, token, ready]; the token is "none", "live" or "old"
  gate,       \* the profile in the route-gating cookies, or None
  boot,       \* initialise(): "refresh", "me", "clear" or "done"
  rotate,     \* the refresh call of initialise() and of the API client:
              \* "idle"; sent with the cookie in the jar if that is "good",
              \* with a good one the jar has lost to another since ("kept")
              \* or with a "bad" one; "granted" or "refused" (answered, not
              \* yet received)
  req,        \* req[r]: [st, with, retry], one API call
  syncs,      \* /session-sync calls outstanding, oldest first
  form,       \* the sign-in under way: what its form waits for
  caller,     \* ... whether its page is still shown, the ?next= it was
              \* submitted with, the profile its answer has brought
  change,     \* a change of the own profile: [kind, st]
  out,        \* the POST /auth/logout/: "none", "good", "kept" or "bad" as
              \* above, "answered"
  leaving,    \* handleLogout is waiting for its DELETE
  page,       \* the page shown
  next,       \* the ?next= of the sign-in page
  missed,     \* a call that bears on the session failed, and no page load and
              \* no sign-in with nothing else under way has mended it since
  expiries    \* bound

server == <<account, registered, jar>>
flows == <<form, caller, change, out, leaving>>
sessionVars == <<account, registered, jar, store, gate, boot, rotate, req, syncs,
                 form, caller, change, out, leaving, page, next, missed, expiries>>

Refreshers == {"boot", "api"}
Senders == {"boot", "login", "profile", "seller", "out", "drop"}
SyncCall == [by : Senders,
             post : BOOLEAN, token : {"none", "live", "old"},
             st : {"sent", "answered"}, to : MaybeProfile]

IdleReq == [st |-> "idle", with |-> "none", retry |-> FALSE]
NoChange == [kind |-> "register", st |-> "idle"]
NoCaller == [here |-> FALSE, to |-> None, user |-> None]

SessionTypeOK ==
  /\ account \in Profile /\ registered \in BOOLEAN /\ gate \in MaybeProfile
  /\ jar \in {"none", "good", "spent"}
  /\ store \in [user : MaybeProfile, token : {"none", "live", "old"}, ready : BOOLEAN]
  /\ boot \in {"refresh", "me", "clear", "done"}
  /\ rotate \in [Refreshers -> {"idle", "good", "kept", "bad", "granted", "refused"}]
  /\ req \in [Requests -> [st : {"idle", "sent", "queued", "owner"},
                           with : {"none", "live", "old"}, retry : BOOLEAN]]
  /\ syncs \in Seq(SyncCall)
  /\ form \in {"idle", "password", "register", "totp", "code", "merge", "save"}
  /\ caller \in [here : BOOLEAN, to : Pages \cup {None}, user : MaybeProfile]
  /\ change \in [kind : Kinds \cup {"register"}, st : {"idle", "sent", "me", "save", "done"}]
  /\ out \in {"none", "good", "kept", "bad", "answered"}
  /\ leaving \in BOOLEAN /\ missed \in BOOLEAN
  /\ page \in Pages /\ next \in Pages \cup {None}
  /\ expiries \in 0 .. MaxExpiries

(* no call of a page, refresh of the API client or change of the profile is *)
(* outstanding                                                            *)
AtRest ==
  /\ rotate["api"] = "idle"
  /\ \A r \in Requests : req[r].st = "idle"
  /\ change.st \in {"idle", "done"}

(* nothing that bears on the session is *)
Quiet ==
  /\ AtRest /\ boot = "done" /\ syncs = <<>> /\ out = "none" /\ ~leaving
  /\ form \in {"idle", "totp"}

-----------------------------------------------------------------------------
(* Route gating: the middleware and the guard                              *)

Area(p) ==
  CASE p \in {"login", "register"} -> "auth only"
    [] p = "admin" -> "ADMIN"
    [] p = "supplier" -> "SUPPLIER"
    [] p \in {"orders", "account"} -> "protected"
    [] OTHER -> "open"

(* the wrong way: the role is taken for the path *)
HomeByRole(role) == role

Home(role) ==
  CASE role = "ADMIN" -> "admin" [] role = "SUPPLIER" -> "supplier"
    [] OTHER -> "catalogue"

(* the area gate for a role: its session, its role, then its second factor; *)
(* the second factor is set up at /account/security                        *)
RoleGate(g, p) ==
  IF g = None THEN "login"
  ELSE IF g.role # Area(p) THEN "catalogue"
  ELSE IF ~g.totp THEN "account" ELSE p

(* middleware(): the page a request for page p is answered with, given the *)
(* cookies g.  A redirect is a request of its own, gated in turn           *)
Middleware(g, p) ==
  CASE Area(p) = "auth only" ->
         IF g = None THEN p
         ELSE IF Home(g.role) = "catalogue" THEN "catalogue"
         ELSE RoleGate(g, Home(g.role))
    [] Area(p) \in {"ADMIN", "SUPPLIER"} -> RoleGate(g, p)
    [] Area(p) = "protected" -> IF g = None THEN "login" ELSE p
    [] OTHER -> p

(* the wrong way: gated by the cookies from before the sync was answered *)
GoEarly(g, p) ==
  /\ page' = Middleware(gate, p)
  /\ next' = IF page' = "login" /\ Area(p) \notin {"auth only", "open"} THEN p ELSE None

(* a navigation to p; a redirect to the sign-in page keeps p as its ?next= *)
Go(g, p) ==
  /\ page' = Middleware(g, p)
  /\ next' = IF page' = "login" /\ Area(p) \notin {"auth only", "open"} THEN p ELSE None

(* a page that is left loses its state; a form of it that waits goes on *)
FormLeft ==
  /\ form' = IF form = "totp" /\ page' # page THEN "idle" ELSE form
  /\ caller' = IF page' # page THEN [caller EXCEPT !.here = FALSE] ELSE caller
ChangeLeft ==
  change' = IF change.st = "done" /\ page' # page THEN NoChange ELSE change

(* a link, or back; the links of /sell bring the visitor back to it *)
Visit(p) ==
  /\ p # page
  /\ page' = Middleware(gate, p)
  /\ next' = CASE page' = "login" /\ Area(p) \notin {"auth only", "open"} -> p
               [] page = "sell" /\ page' \in {"login", "register"} -> "sell"
               [] OTHER -> None
  /\ FormLeft /\ ChangeLeft
  /\ UNCHANGED <<server, store, gate, boot, rotate, req, syncs, out, leaving,
                 missed, expiries>>

(* useAuthGuard: once the store is initialised, a page under AuthGuard     *)
(* sends an unknown visitor to the sign-in page, another role away         *)
Guard ==
  /\ store.ready /\ Area(page) \notin {"open", "auth only"}
  /\ \/ /\ store.user = None
        /\ page' = Middleware(gate, "login")
        /\ next' = IF page' = "login" THEN page ELSE None
     \/ /\ store.user # None
        /\ Area(page) \in {"ADMIN", "SUPPLIER"} /\ store.user.role # Area(page)
        /\ Go(gate, "catalogue")
  /\ UNCHANGED <<server, store, gate, boot, rotate, req, syncs, flows, missed, expiries>>

-----------------------------------------------------------------------------
(* /session-sync                                                           *)

(* syncSessionCookies and clearSessionCookies: the call goes out *)
Posted(by, token) ==
  /\ Len(syncs) < MaxSyncs
  /\ syncs' = Append(syncs, [by |-> by, post |-> TRUE, token |-> token,
                             st |-> "sent", to |-> None])
Deleted(by) ==
  /\ Len(syncs) < MaxSyncs
  /\ syncs' = Append(syncs, [by |-> by, post |-> FALSE, token |-> "none",
                             st |-> "sent", to |-> None])

(* the route handler: the cookies it will set are the profile the service  *)
(* returns for the token; without one, and on DELETE, they are cleared     *)
SyncHandled(i) ==
  /\ syncs[i].st = "sent"
  /\ syncs' = [syncs EXCEPT ![i].st = "answered",
                            ![i].to = IF syncs[i].post /\ syncs[i].token = "live"
                                      THEN account ELSE None]
  /\ UNCHANGED <<server, store, gate, boot, rotate, req, flows, page, next,
                 missed, expiries>>

(* what awaits the call goes on, answered or not: the helpers swallow the  *)
(* error.  Sign-in goes to its ?next= or to the home of the role, sign-out *)
(* to the sign-in page, both gated by the cookies there are by then; the   *)
(* second step of the sign-in is lost with its page                        *)
Awaited(by) ==
  /\ IF by = "boot" /\ boot = "clear"
     THEN boot' = "done" /\ store' = [store EXCEPT !.ready = TRUE]
     ELSE UNCHANGED <<boot, store>>
  /\ leaving' = IF by = "out" THEN FALSE ELSE leaving
  /\ CASE by = "login" -> Go(gate', IF caller.to # None THEN caller.to ELSE Home(caller.user.role))
       [] by = "out" -> Go(gate', "login")
       [] OTHER -> UNCHANGED <<page, next>>
  /\ IF by = "login" /\ form = "save" THEN form' = "idle" /\ caller' = NoCaller ELSE FormLeft
  /\ IF by = "profile" /\ change.st = "save" THEN change' = NoChange ELSE ChangeLeft

SyncAnswered(i) ==
  /\ syncs[i].st = "answered" /\ (InOrder => i = 1)
  /\ gate' = syncs[i].to
  /\ missed' = (missed \/ (syncs[i].post /\ syncs[i].to = None))
  /\ syncs' = RemoveAt(syncs, i)
  /\ Awaited(syncs[i].by)
  /\ UNCHANGED <<server, rotate, req, out, expiries>>

SyncLost(i) ==
  /\ InOrder => i = 1
  /\ ~missed /\ missed' = TRUE
  /\ syncs' = RemoveAt(syncs, i)
  /\ gate' = gate /\ Awaited(syncs[i].by)
  /\ UNCHANGED <<server, rotate, req, out, expiries>>

-----------------------------------------------------------------------------
(* /auth/refresh/                                                          *)

(* the cookie a call sent now carries *)
CookieIn(j) == IF j = "good" THEN "good" ELSE "bad"
Cookie == CookieIn(jar)

(* an answer puts a new cookie into the jar, that of call w if it is a     *)
(* refresh; calls on their way go on carrying the one they were sent with  *)
Kept(cookie) == IF cookie = "good" THEN "kept" ELSE cookie
NewCookie(w) ==
  /\ jar' = "good"
  /\ rotate' = [x \in Refreshers |-> IF x = w THEN "idle" ELSE Kept(rotate[x])]
  /\ out' = Kept(out)

(* CookieTokenRefreshView: a good cookie is blacklisted and another issued. *)
(* A second refresh with the same cookie that has already passed the        *)
(* blacklist test goes through as well; a sign-out with it does nothing.    *)
RefreshHandled(w) ==
  /\ \/ /\ rotate[w] \in {"good", "kept"}
        /\ \E late \in BOOLEAN :
             rotate' = [x \in Refreshers |->
                          IF x = w THEN "granted"
                          ELSE IF rotate[x] # rotate[w] THEN rotate[x]
                          ELSE IF late THEN "granted" ELSE "bad"]
        /\ jar' = IF rotate[w] = "good" /\ jar = "good" THEN "spent" ELSE jar
        /\ out' = IF out = rotate[w] THEN "bad" ELSE out
     \/ /\ rotate[w] = "bad"
        /\ rotate' = [rotate EXCEPT ![w] = "refused"]
        /\ UNCHANGED <<jar, out>>
  /\ UNCHANGED <<account, registered, store, gate, boot, req, syncs, form, caller,
                 change, leaving, page, next, missed, expiries>>

(* initialise(): refresh, then GET /auth/me/, then the store and the gate  *)
BootRefreshed ==
  /\ boot = "refresh" /\ rotate["boot"] = "granted"
  /\ boot' = "me" /\ NewCookie("boot")
  /\ UNCHANGED <<account, registered, store, gate, req, syncs, form, caller, change,
                 leaving, page, next, missed, expiries>>

BootMe ==
  /\ boot = "me" /\ Posted("boot", "live")
  /\ store' = [user |-> account, token |-> "live", ready |-> TRUE]
  /\ boot' = "done"
  /\ UNCHANGED <<server, gate, rotate, req, flows, page, next, missed, expiries>>

(* its catch: a refused or failed call clears the gate, not the store *)
BootFails ==
  /\ \/ boot = "refresh" /\ rotate["boot"] = "refused" /\ missed' = missed
     \/ boot \in {"refresh", "me"} /\ ~missed /\ missed' = TRUE
  /\ boot' = "clear" /\ Deleted("boot")
  /\ rotate' = [rotate EXCEPT !["boot"] = "idle"]
  /\ UNCHANGED <<server, store, gate, req, flows, page, next, expiries>>

-----------------------------------------------------------------------------
(* The API client                                                          *)

(* a page sends a call; the pages of account and staff areas do so without *)
(* waiting for the store, most others only for a known user.  A call sent  *)
(* with a live token is left out: answered in time it changes nothing      *)
(* here, and if the token runs out first it is one sent after that.        *)
Send(r) ==
  /\ req[r].st = "idle" /\ store.token # "live"
  /\ \/ store.user # None
     \/ ~BootAlone /\ ~store.ready /\ page \in {"account", "supplier", "admin"}
  /\ req' = [req EXCEPT ![r] = [st |-> "sent", with |-> store.token, retry |-> FALSE]]
  /\ UNCHANGED <<server, store, gate, boot, rotate, syncs, flows, page, next, missed, expiries>>

(* answered, or failed in a way a new token does not mend *)
Answered(r) ==
  /\ req[r].st = "sent"
  /\ req' = [req EXCEPT ![r] = IdleReq]
  /\ UNCHANGED <<server, store, gate, boot, rotate, syncs, flows, page, next, missed, expiries>>

(* 401: one call at a time refreshes, those that fail meanwhile queue; a   *)
(* call that has been sent again after its own refresh is given up         *)
Unauthorised(r) ==
  /\ req[r].st = "sent" /\ req[r].with # "live"
  /\ CASE req[r].retry ->
            /\ req' = [req EXCEPT ![r] = IdleReq]
            /\ UNCHANGED rotate
       [] ~req[r].retry /\ rotate["api"] # "idle" ->
            /\ req' = [req EXCEPT ![r].st = "queued", ![r].with = "none"]
            /\ UNCHANGED rotate
       [] OTHER ->
            /\ req' = [req EXCEPT ![r] = [st |-> "owner", with |-> "none", retry |-> TRUE]]
            /\ rotate' = [rotate EXCEPT !["api"] = Cookie]
  /\ UNCHANGED <<server, store, gate, boot, syncs, flows, page, next, missed, expiries>>

Waiting(r) == req[r].st \in {"queued", "owner"}

(* the wrong way: only the call that refreshed is sent again, or given up *)
OwnerResent == [r \in Requests |->
  IF req[r].st = "owner" THEN [req[r] EXCEPT !.st = "sent", !.with = "live"] ELSE req[r]]
OwnerRejected == [r \in Requests |-> IF req[r].st = "owner" THEN IdleReq ELSE req[r]]

(* onTokenRefreshed: the store takes the token, whoever is signed in there *)
TokenRefreshed == store' = [store EXCEPT !.token = "live"]

(* drainQueue(null, token) and the repeat of the owner's call, drainQueue(err) *)
Resent == [r \in Requests |->
  IF Waiting(r) THEN [req[r] EXCEPT !.st = "sent", !.with = "live"] ELSE req[r]]
Rejected == [r \in Requests |-> IF Waiting(r) THEN IdleReq ELSE req[r]]

ApiRefreshed ==
  /\ rotate["api"] = "granted"
  /\ NewCookie("api") /\ TokenRefreshed
  /\ req' = Resent
  /\ UNCHANGED <<account, registered, gate, boot, syncs, form, caller, change, leaving,
                 page, next, missed, expiries>>

(* _onLogout: the store is emptied, the gate's DELETE  *)
(* goes out and nobody waits for it                                        *)
ApiRefreshFails ==
  /\ \/ rotate["api"] = "refused" /\ missed' = missed
     \/ rotate["api"] # "idle" /\ ~missed /\ missed' = TRUE
  /\ Deleted("drop")
  /\ store' = [store EXCEPT !.user = None, !.token = "none"]
  /\ req' = Rejected
  /\ rotate' = [rotate EXCEPT !["api"] = "idle"]
  /\ UNCHANGED <<server, gate, boot, flows, page, next, expiries>>

(* the access token runs out, in the store and in the calls that carry it *)
Expire ==
  /\ store.token = "live" /\ expiries < MaxExpiries
  /\ expiries' = expiries + 1
  /\ store' = [store EXCEPT !.token = "old"]
  /\ req' = [r \in Requests |->
               IF req[r].with = "live" THEN [req[r] EXCEPT !.with = "old"] ELSE req[r]]
  /\ syncs' = [i \in DOMAIN syncs |->
                 IF syncs[i].token = "live" THEN [syncs[i] EXCEPT !.token = "old"] ELSE syncs[i]]
  /\ UNCHANGED <<server, gate, boot, rotate, flows, page, next, missed>>

-----------------------------------------------------------------------------
(* Signing in and out                                                      *)

(* A form is disabled while it waits, and by nothing else.  Bound: one     *)
(* sign-in is under way at a time, one of a page left since included       *)
Submitted(waits) ==
  /\ BootAlone => boot = "done"
  /\ Calm => AtRest
  /\ form' = waits /\ caller' = [here |-> TRUE, to |-> next, user |-> None]
  /\ UNCHANGED <<server, store, gate, boot, rotate, req, syncs, change, out,
                 leaving, page, next, missed, expiries>>

SubmitLogin == page = "login" /\ form = "idle" /\ Submitted("password")
SubmitRegistration == page = "register" /\ form = "idle" /\ Submitted("register")

(* the second step: the code, or "Back to login" *)
SubmitCode == form = "totp" /\ Submitted("code")

BackToLogin ==
  /\ form = "totp" /\ form' = "idle"
  /\ UNCHANGED <<server, store, gate, boot, rotate, req, syncs, caller, change, out,
                 leaving, page, next, missed, expiries>>

(* a wrong password or code, a form refused, or no answer *)
SignInFails ==
  /\ form \in {"password", "register", "code"}
  /\ form' = IF form = "code" /\ caller.here THEN "totp" ELSE "idle"
  /\ caller' = NoCaller
  /\ UNCHANGED <<server, store, gate, boot, rotate, req, syncs, change, out,
                 leaving, page, next, missed, expiries>>

(* the answer that signs in sets a refresh cookie and brings the profile.  *)
(* Bound: the calls on their way carry at most one cookie the jar has lost *)
SignedIn ==
  /\ InOrder => out = "none"
  /\ "kept" \notin {out, rotate["boot"], rotate["api"]}
  /\ NewCookie("form")
  /\ form' = "merge" /\ caller' = [caller EXCEPT !.user = account]
  /\ UNCHANGED <<account, store, gate, boot, req, syncs, change, leaving, page, next,
                 missed, expiries>>

(* handleLogin: the answer signs in, or asks for a code *)
LoginAnswered ==
  /\ form = "password" /\ registered
  /\ \/ ~account.totp /\ SignedIn /\ UNCHANGED registered
     \/ /\ account.totp
        /\ form' = IF caller.here THEN "totp" ELSE "idle"
        /\ caller' = NoCaller
        /\ UNCHANGED <<server, store, gate, boot, rotate, req, syncs, change, out,
                       leaving, page, next, missed, expiries>>

(* handleTotp *)
CodeAnswered == form = "code" /\ SignedIn /\ UNCHANGED registered

(* handleRegister: the account is new *)
RegisterAnswered == form = "register" /\ ~registered /\ SignedIn /\ registered' = TRUE

(* mergeGuestCart has ended, well or not; login() of the store *)
StoreLogin ==
  /\ form = "merge" /\ Posted("login", "live")
  /\ form' = "save"
  /\ store' = [store EXCEPT !.user = caller.user, !.token = "live"]
  /\ missed' = (missed /\ ~(AtRest /\ boot = "done" /\ out = "none" /\ jar = "good"))
  /\ UNCHANGED <<server, gate, boot, rotate, req, caller, change, out, leaving, page,
                 next, expiries>>

(* the wrong way: the service is not told *)
SignOutHere ==
  /\ store.user # None /\ Area(page) # "auth only" /\ ~leaving /\ out = "none"
  /\ Calm => Quiet
  /\ leaving' = TRUE /\ Deleted("out")
  /\ store' = [store EXCEPT !.user = None, !.token = "none"]
  /\ UNCHANGED <<server, out, gate, boot, rotate, req, form, caller, change, page, next,
                 missed, expiries>>

(* handleLogout: the service is told and not waited for, the store is      *)
(* emptied at once, the gate's DELETE is waited for.  Bound: one at a time *)
SignOut ==
  /\ store.user # None /\ Area(page) # "auth only" /\ ~leaving /\ out = "none"
  /\ Calm => Quiet
  /\ out' = Cookie /\ leaving' = TRUE /\ Deleted("out")
  /\ store' = [store EXCEPT !.user = None, !.token = "none"]
  /\ UNCHANGED <<server, gate, boot, rotate, req, form, caller, change, page, next,
                 missed, expiries>>

(* LogoutView blacklists the cookie it was sent; its answer removes it *)
SignOutHandled ==
  /\ out \in {"good", "kept", "bad"}
  /\ out' = "answered"
  /\ jar' = IF out = "good" /\ jar = "good" THEN "spent" ELSE jar
  /\ rotate' = [w \in Refreshers |-> IF rotate[w] = out THEN "bad" ELSE rotate[w]]
  /\ UNCHANGED <<account, registered, store, gate, boot, req, syncs, form, caller,
                 change, leaving, page, next, missed, expiries>>

SignOutAnswered ==
  /\ out = "answered"
  /\ out' = "none" /\ jar' = "none"
  /\ UNCHANGED <<account, registered, store, gate, boot, rotate, req, syncs, form,
                 caller, change, leaving, page, next, missed, expiries>>

SignOutLost ==
  /\ out # "none"
  /\ out' = "none" /\ ~missed /\ missed' = TRUE
  /\ UNCHANGED <<server, store, gate, boot, rotate, req, syncs, form, caller, change,
                 leaving, page, next, expiries>>

-----------------------------------------------------------------------------
(* Changing the own profile                                                *)

(* what the profile in the store lets the visitor start: the second factor *)
(* on /account/security, a supplier's application on /sell                  *)
OffersTotp(kind) ==
  page = "account" /\ (kind = IF store.user.totp THEN "disable" ELSE "enable")
OffersSelling(kind) == page = "sell" /\ store.user.role = "BUYER" /\ kind = "register"

(* bound: one change at a time *)
StartChange(kind) ==
  /\ change.st = "idle" /\ store.user # None
  /\ OffersTotp(kind) \/ OffersSelling(kind)
  /\ Calm => form \in {"idle", "totp"}
  /\ change' = [kind |-> kind, st |-> "sent"]
  /\ UNCHANGED <<server, store, gate, boot, rotate, req, syncs, form, caller, out,
                 leaving, page, next, missed, expiries>>

(* the service has made the change; getMe() follows *)
Changed ==
  CASE change.kind = "enable" -> [account EXCEPT !.totp = TRUE]
    [] change.kind = "disable" -> [account EXCEPT !.totp = FALSE]
    [] change.kind = "register" -> [account EXCEPT !.role = "SUPPLIER"]

ChangeMade ==
  /\ change.st = "sent" /\ store.token = "live"
  /\ account' = Changed
  /\ change' = [change EXCEPT !.st = "me"]
  /\ UNCHANGED <<registered, jar, store, gate, boot, rotate, req, syncs, form, caller,
                 out, leaving, page, next, missed, expiries>>

(* onError of the change, or of the getMe() after it: the store keeps the  *)
(* old profile; registration shows its last panel all the same             *)
ChangeFails ==
  /\ change.st \in {"sent", "me"}
  /\ change' = IF change = [kind |-> "register", st |-> "me"]
               THEN [change EXCEPT !.st = "done"] ELSE NoChange
  /\ missed' = (missed \/ change.st = "me")
  /\ UNCHANGED <<server, store, gate, boot, rotate, req, syncs, form, caller, out,
                 leaving, page, next, expiries>>

(* the wrong way: the store only *)
UserSetOnly ==
  /\ change.st = "me"
  /\ store' = [store EXCEPT !.user = account]
  /\ UNCHANGED <<server, gate, boot, rotate, req, syncs, form, caller, out, leaving,
                 page, next, missed, expiries>>

(* setUser(): without a token the gate is left alone *)
UserSet ==
  /\ change.st = "me"
  /\ store' = [store EXCEPT !.user = account]
  /\ IF store.token = "none" THEN UNCHANGED syncs
     ELSE Posted(IF change.kind = "register" THEN "seller" ELSE "profile", store.token)
  /\ UNCHANGED <<server, gate, boot, rotate, req, form, caller, out, leaving, page, next,
                 missed, expiries>>

(* getMe() has answered.  The second factor waits for the gate; the        *)
(* supplier's application does not, and shows its last panel at once       *)
TotpChanged ==
  /\ change.kind \in {"enable", "disable"} /\ UserSet
  /\ change' = IF store.token = "none" THEN NoChange ELSE [change EXCEPT !.st = "save"]
SellerRegistered ==
  change.kind = "register" /\ UserSet /\ change' = [change EXCEPT !.st = "done"]

(* "Go to your dashboard" on that panel *)
GoToDashboard ==
  /\ page = "sell" /\ change = [kind |-> "register", st |-> "done"]
  /\ Go(gate, "supplier") /\ change' = NoChange
  /\ UNCHANGED <<server, store, gate, boot, rotate, req, syncs, form, caller, out,
                 leaving, missed, expiries>>

-----------------------------------------------------------------------------

(* a page load, of the page shown or of another: memory is gone with the   *)
(* calls of the page, which may have reached the service all the same; the *)
(* request for the page is gated, then initialise() runs                   *)
CutOff ==
  /\ \/ jar' = jar
     \/ jar = "good" /\ "good" \in {out, rotate["boot"], rotate["api"]} /\ jar' = "spent"
  /\ \/ registered' = registered
     \/ form = "register" /\ registered' = TRUE
  /\ \/ account' = account
     \/ change.st = "sent" /\ store.token = "live" /\ account' = Changed

Reload(p) ==
  /\ Calm => Quiet
  /\ CutOff
  /\ store' = [user |-> None, token |-> "none", ready |-> FALSE]
  /\ boot' = "refresh"
  /\ rotate' = [w \in Refreshers |-> IF w = "boot" THEN CookieIn(jar') ELSE "idle"]
  /\ req' = [r \in Requests |-> IdleReq]
  /\ syncs' = <<>> /\ form' = "idle" /\ caller' = NoCaller /\ change' = NoChange
  /\ out' = "none" /\ leaving' = FALSE /\ missed' = FALSE
  /\ IF p = page /\ Middleware(gate, p) = page THEN UNCHANGED <<page, next>> ELSE Go(gate, p)
  /\ UNCHANGED <<gate, expiries>>

Init ==
  /\ account \in Accounts /\ registered \in BOOLEAN
  /\ jar \in {"none", "good"}
  /\ ~registered => jar = "none" /\ account = [role |-> "BUYER", totp |-> FALSE]
  /\ gate = None
  /\ store = [user |-> None, token |-> "none", ready |-> FALSE]
  /\ boot = "refresh"
  /\ rotate = [w \in Refreshers |-> IF w = "boot" THEN Cookie ELSE "idle"]
  /\ req = [r \in Requests |-> IdleReq]
  /\ syncs = <<>> /\ form = "idle" /\ caller = NoCaller /\ change = NoChange
  /\ out = "none" /\ leaving = FALSE /\ missed = FALSE
  /\ page = "catalogue" /\ next = None /\ expiries = 0

Next ==
  \/ \E p \in Links[page] : Visit(p)
  \/ Guard
  \/ \E i \in DOMAIN syncs : SyncHandled(i) \/ SyncAnswered(i) \/ SyncLost(i)
  \/ \E w \in Refreshers : RefreshHandled(w)
  \/ BootRefreshed \/ BootMe \/ BootFails
  \/ \E r \in Requests : Send(r) \/ Answered(r) \/ Unauthorised(r)
  \/ ApiRefreshed \/ ApiRefreshFails \/ Expire
  \/ SubmitLogin \/ SubmitRegistration \/ SubmitCode \/ BackToLogin \/ SignInFails
  \/ LoginAnswered \/ CodeAnswered \/ RegisterAnswered \/ StoreLogin
  \/ SignOut \/ SignOutHandled \/ SignOutAnswered \/ SignOutLost
  \/ \E k \in Kinds : StartChange(k)
  \/ ChangeMade \/ ChangeFails \/ TotpChanged \/ SellerRegistered
  \/ GoToDashboard
  \/ \E p \in Links[page] \cup {page} : Reload(p)

Spec == Init /\ [][Next]_sessionVars

(* every call out is answered or fails: browsers give up on a connection.   *)
(* Only the bound MaxSyncs makes the end of a failed refresh wait, for a     *)
(* /session-sync call that ends: hence the strong fairness                  *)
FairSpec ==
  /\ Spec
  /\ \A r \in Requests : WF_sessionVars(Answered(r) \/ Unauthorised(r))
  /\ \A w \in Refreshers : WF_sessionVars(RefreshHandled(w))
  /\ SF_sessionVars(ApiRefreshed \/ ApiRefreshFails)
  /\ WF_sessionVars(BootRefreshed \/ BootMe \/ BootFails)
  /\ WF_sessionVars(\E i \in DOMAIN syncs : SyncHandled(i) \/ SyncAnswered(i) \/ SyncLost(i))

-----------------------------------------------------------------------------
(* Properties                                                              *)

(* client.ts: calls wait in _queue, or own the refresh, only while the API *)
(* client's refresh is under way, and then exactly one owns it: nothing is *)
(* queued after the last drainQueue, where nobody would ever resolve it.   *)
QueueServed ==
  /\ rotate["api"] = "idle" => \A r \in Requests : ~Waiting(r)
  /\ rotate["api"] # "idle" => \E r \in Requests : req[r].st = "owner"
  /\ \A r1, r2 \in Requests : req[r1].st = "owner" /\ req[r2].st = "owner" => r1 = r2

(* Once everything has been answered and nothing failed, the store knows a *)
(* user exactly if the refresh cookie is good: nobody is signed out who    *)
(* has a session, nobody who signed out has one left for the next page     *)
(* load (handleLogout, initialise, the interceptor).  The code keeps this  *)
(* under Calm, BootAlone and InOrder only.                                 *)
StoreMatchesJar == Quiet /\ ~missed => (store.user # None <=> jar = "good")

(* ... and the cookies the middleware gates by are those of the user in    *)
(* the store: a role or second factor just gained opens its area, and the  *)
(* guard and the middleware do not send a visitor to and fro               *)
(* (session-sync, setUser, login, logout), under the same assumptions.     *)
GateMatchesStore == Quiet /\ ~missed => gate = store.user

(* The page after a sign-in is not the sign-in page again, and the one     *)
(* after a sign-out is: both wait for the gate before router.push.         *)
LandsWhereSent ==
  [][ /\ form = "save" /\ form' = "idle" /\ boot' # "refresh" /\ ~missed'
        => page' \notin {"login", "register"}
      /\ leaving /\ ~leaving' /\ boot' # "refresh" /\ ~missed'
        => page' = "login" ]_sessionVars

(* Every call of a page ends, queued behind a refresh or not. *)
RequestsSettle == \A r \in Requests : (req[r].st # "idle") ~> (req[r].st = "idle")
=============================================================================
