------------------------------ MODULE Session ------------------------------
(***************************************************************************)
(* The browser's two sessions: fru-lab's login (LoginPage.tsx, RequireAuth *)
(* in App.tsx, apiClient.ts, handleLogout in AppLayout.tsx), found expired *)
(* by the poll every page runs (useActiveRuns.ts); and the one with the    *)
(* free5GC webconsole behind it (webconsoleApiClient.ts), which logs in by *)
(* itself and once more when a request is refused.  Logging out and in are *)
(* navigations inside the page: requests under way live on.  A 401 of      *)
(* fru-lab's loads the login page anew, and so drops them.                 *)
(***************************************************************************)
EXTENDS Naturals, FiniteSets

CONSTANTS
    Requests,       \* bound: webconsole requests at a time
    Logins,         \* bound: logins, so tokens are 1 .. Logins
    SessionEvents,  \* bound: what the user, the clock and the network do
    None

VARIABLES
    path,           \* "/login" or another page
    token, expired, \* localStorage's token, 0 for none; the tokens expired
    issued,         \* how many tokens fru-lab has issued
    signing,        \* handleSubmit's request
    hidden,         \* document.hidden
    polls,          \* useActiveRuns' reads under way, by the token they carry
    live,           \* whether the API answered the last one
    epoch,          \* the webconsole's restarts; a token is good for its epoch
    cached, pendingLogin,   \* cachedToken; the login under way
    requests,       \* request -> how far it is
    outcome,        \* the last one's result
    sessionEvents

fruLab == <<path, token, expired, issued, signing, hidden, polls, live>>
webconsole == <<epoch, cached, pendingLogin, requests, outcome>>
sessionVars == <<fruLab, webconsole, sessionEvents>>

Tokens == 0 .. Logins
Reads == [tok : Tokens, st : {"sent", "ok", "denied", "lost"}]
Epochs == 0 .. SessionEvents \cup {None}
Idle == [pc |-> "idle", tok |-> None]
NoLogin == [st |-> "none", tok |-> None]

SessionTypeOK ==
    /\ path \in {"login", "page"} /\ token \in Tokens /\ expired \subseteq Tokens /\ issued \in Tokens
    /\ signing \in {"no", "sent"} /\ hidden \in BOOLEAN /\ live \in BOOLEAN
    /\ polls \subseteq Reads
    /\ epoch \in 0 .. SessionEvents /\ cached \in Epochs
    /\ pendingLogin \in [st : {"none", "sent", "done", "failed"}, tok : Epochs]
    /\ requests \in [Requests -> [pc : {"idle", "wait", "sent", "denied", "rewait", "resent", "ok", "refused"},
                                  tok : Epochs]]
    /\ outcome \in {"ok", "refused"} /\ sessionEvents \in 0 .. SessionEvents

Happens == sessionEvents < SessionEvents /\ sessionEvents' = sessionEvents + 1

Init ==
    /\ path = "login" /\ token = 0 /\ expired = {} /\ issued = 0
    /\ signing = "no" /\ hidden = FALSE /\ polls = {} /\ live = TRUE
    /\ epoch = 0 /\ cached = None /\ pendingLogin = NoLogin
    /\ requests = [r \in Requests |-> Idle] /\ outcome = "ok"
    /\ sessionEvents = 0

Good(t) == t # 0 /\ t \notin expired

\* The page is loaded anew: what the scripts knew and asked for is gone.
Loaded ==
    /\ polls' = {} /\ live' = TRUE /\ signing' = "no"
    /\ cached' = None /\ pendingLogin' = NoLogin /\ requests' = [r \in Requests |-> Idle]
    /\ UNCHANGED <<epoch, outcome>>

-----------------------------------------------------------------------------
(* fru-lab's session. *)

Expires ==
    /\ Good(token) /\ Happens /\ expired' = expired \cup {token}
    /\ UNCHANGED <<path, token, issued, signing, hidden, polls, live, webconsole>>

HandleSubmit ==
    /\ path = "login" /\ signing = "no" /\ issued < Logins
    /\ signing' = "sent"
    /\ UNCHANGED <<path, token, expired, issued, hidden, polls, live, webconsole, sessionEvents>>

\* The token is stored and the page navigated to; a wrong password is a 401
\* on the login page, which drops a token but does not lead anywhere.
SubmitAnswered ==
    /\ signing = "sent" /\ signing' = "no"
    /\ \/ /\ issued' = issued + 1 /\ token' = issued + 1 /\ path' = "page"
          /\ UNCHANGED sessionEvents
       \/ /\ Happens /\ token' = 0 /\ UNCHANGED <<issued, path>>
    /\ UNCHANGED <<expired, hidden, polls, live, webconsole>>

HandleLogout ==
    /\ path = "page" /\ Happens
    /\ token' = 0 /\ path' = "login"
    /\ UNCHANGED <<expired, issued, signing, hidden, polls, live, webconsole>>

\* The browser loads a page: RequireAuth leads to the login without a token.
Visit ==
    /\ Happens
    /\ path' = IF token = 0 THEN "login" ELSE "page"
    /\ Loaded
    /\ UNCHANGED <<token, expired, issued, hidden>>

Hide ==
    /\ Happens /\ hidden' = ~hidden
    /\ UNCHANGED <<path, token, expired, issued, signing, polls, live, webconsole>>

\* useActiveRuns' timer.
Poll ==
    /\ path = "page" /\ ~hidden
    /\ polls' = polls \cup {[tok |-> token, st |-> "sent"]} /\ polls' # polls
    /\ UNCHANGED <<path, token, expired, issued, signing, hidden, live, webconsole, sessionEvents>>

PollHandled(p) ==
    /\ p.st = "sent"
    /\ \/ /\ polls' = (polls \ {p}) \cup {[p EXCEPT !.st = IF Good(p.tok) THEN "ok" ELSE "denied"]}
          /\ UNCHANGED sessionEvents
       \/ Happens /\ polls' = (polls \ {p}) \cup {[p EXCEPT !.st = "lost"]}
    /\ UNCHANGED <<path, token, expired, issued, signing, hidden, live, webconsole>>

PollAnswered(p) ==
    /\ p.st \in {"ok", "lost"} /\ polls' = polls \ {p}
    /\ live' = IF path = "page" THEN p.st = "ok" ELSE live
    /\ UNCHANGED <<path, token, expired, issued, signing, hidden, webconsole, sessionEvents>>

\* Mutant of Denied: the token is dropped, and the user left where he is.
DeniedInPlace(p) ==
    /\ p.st = "denied" /\ token' = 0 /\ polls' = polls \ {p}
    /\ UNCHANGED <<path, expired, issued, signing, hidden, live, webconsole, sessionEvents>>

\* The interceptor of a 401.
Denied(p) ==
    /\ p.st = "denied" /\ token' = 0 /\ path' = "login"
    /\ IF path = "login" THEN polls' = polls \ {p} /\ UNCHANGED <<signing, live, webconsole>> ELSE Loaded
    /\ UNCHANGED <<expired, issued, hidden, sessionEvents>>

-----------------------------------------------------------------------------
(* The webconsole's session; its proxy asks for fru-lab's token as well. *)

Restart ==
    /\ Happens /\ epoch' = epoch + 1
    /\ UNCHANGED <<fruLab, cached, pendingLogin, requests, outcome>>

\* One login at a time, joined by whoever needs its token.
LogIn == pendingLogin' = IF pendingLogin = NoLogin THEN [NoLogin EXCEPT !.st = "sent"] ELSE pendingLogin

\* The request interceptor.
Ask(r) ==
    /\ path = "page" /\ requests[r].pc = "idle"
    /\ IF cached = None
       THEN requests' = [requests EXCEPT ![r].pc = "wait"] /\ LogIn
       ELSE requests' = [requests EXCEPT ![r] = [pc |-> "sent", tok |-> cached]] /\ UNCHANGED pendingLogin
    /\ UNCHANGED <<fruLab, epoch, cached, outcome, sessionEvents>>

LoginHandled ==
    /\ pendingLogin.st = "sent"
    /\ pendingLogin' = IF Good(token) THEN [st |-> "done", tok |-> epoch] ELSE [NoLogin EXCEPT !.st = "failed"]
    /\ UNCHANGED <<fruLab, epoch, cached, requests, outcome, sessionEvents>>

LoginAnswered ==
    /\ pendingLogin.st \in {"done", "failed"} /\ pendingLogin' = NoLogin
    /\ cached' = IF pendingLogin.st = "failed" THEN cached ELSE pendingLogin.tok
    /\ requests' = [r \in Requests |->
         IF requests[r].pc \notin {"wait", "rewait"} THEN requests[r]
         ELSE IF pendingLogin.st = "failed" THEN [pc |-> "refused", tok |-> None]
         ELSE [pc |-> IF requests[r].pc = "wait" THEN "sent" ELSE "resent", tok |-> pendingLogin.tok]]
    /\ UNCHANGED <<fruLab, epoch, outcome, sessionEvents>>

RequestHandled(r) ==
    /\ requests[r].pc \in {"sent", "resent"}
    /\ requests' = [requests EXCEPT ![r].pc =
         IF Good(token) /\ requests[r].tok = epoch THEN "ok" ELSE IF @ = "sent" THEN "denied" ELSE "refused"]
    /\ UNCHANGED <<fruLab, epoch, cached, pendingLogin, outcome, sessionEvents>>

\* The response interceptor: a first 401 forces a login and a second try.
Relogin(r) ==
    /\ requests[r].pc = "denied"
    /\ requests' = [requests EXCEPT ![r].pc = "rewait"] /\ LogIn
    /\ UNCHANGED <<fruLab, epoch, cached, outcome, sessionEvents>>

RequestEnds(r) ==
    /\ requests[r].pc \in {"ok", "refused"}
    /\ outcome' = requests[r].pc /\ requests' = [requests EXCEPT ![r] = Idle]
    /\ UNCHANGED <<fruLab, epoch, cached, pendingLogin, sessionEvents>>

-----------------------------------------------------------------------------
Polled(p) == PollHandled(p) \/ PollAnswered(p) \/ Denied(p)
Asked(r)  == Ask(r) \/ RequestHandled(r) \/ Relogin(r) \/ RequestEnds(r)

Next ==
    \/ Expires \/ HandleSubmit \/ SubmitAnswered \/ HandleLogout \/ Visit \/ Hide \/ Poll
    \/ \E p \in polls : Polled(p)
    \/ Restart \/ LoginHandled \/ LoginAnswered \/ \E r \in Requests : Asked(r)

-----------------------------------------------------------------------------
(* What must come true again and again. *)

\* A session that has expired is over: a page that is looked at does not stay open with
\* a token that has expired, or none (apiClient.ts:14-19).
SessionOver == path = "login" \/ hidden \/ Good(token)

\* A webconsole that restarts and forgets its tokens does not lock the page out:
\* requests go through again (webconsoleApiClient.ts:12-15, 58-69).
RequestsPass == path = "login" \/ ~Good(token) \/ outcome = "ok"

=============================================================================
