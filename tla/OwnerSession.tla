---------------------------- MODULE OwnerSession ----------------------------
(***************************************************************************)
(* The owner's login: how a terminal command obtains it, how the server    *)
(* renews it, how another command removes it.                              *)
(*                                                                         *)
(* A session is an access token and a refresh token. The authorization     *)
(* server rotates: a refresh token is good once, and its use yields the    *)
(* next of the same login. Both tokens of a pair are written <<f, n>>, the *)
(* n-th of login f. The file holds the last pair somebody saved there; it  *)
(* is shared by every process of the machine and guarded by nobody.        *)
(***************************************************************************)
EXTENDS Credentials, Sequences

VARIABLES
  file,        \* the stored session; NoSession when there is none
  ownerToken,  \* the access token in the server's memory
  live,        \* for each login, the refresh token the authorization server takes
  accepted,    \* the access tokens the API takes
  renewable,   \* logins that came with a refresh token
  flight,      \* the renewal in flight, and the requests awaiting it
  answer,      \* what the renewal a request awaited came to
  port,        \* the login command holding the loopback port
  redirects,   \* login commands whose browser has yet to be sent back
  reply,       \* whose sign-in answered the listener of a login command
  got,         \* the tokens a login command has yet to save
  lost,        \* refresh tokens spent while their successor was not kept
  twice        \* refresh tokens presented after they were spent

sessionVars == <<file, ownerToken, live, accepted, renewable, flight, answer>>
loginVars == <<port, redirects, reply, got>>
historyVars == <<lost, twice>>
ownerVars == <<sessionVars, loginVars, historyVars>>

NoSession == <<>>
Tokens == (1..Len(live)) \X (Nat \ {0})
Sessions == Tokens \cup {NoSession}

NoFlight == [phase |-> "none", loaded |-> NoSession, fresh |-> NoSession, waiters |-> {}]

Spent(t) == t[2] < live[t[1]]
CanRenew(t) == t # NoSession /\ t[1] \in renewable

OwnerTypeOK ==
  /\ file \in Sessions /\ ownerToken \in Sessions
  /\ live \in Seq(Nat \ {0})
  /\ accepted \subseteq Tokens
  /\ renewable \subseteq 1..Len(live)
  /\ flight \in [phase: {"none", "load", "post", "save"}, loaded: Sessions,
                 fresh: Sessions, waiters: SUBSET Calls]
  /\ answer \in [Calls -> {"none", "renewed", "expired"}]
  /\ port \in Calls \cup {None} /\ redirects \subseteq Calls
  /\ reply \in [Calls -> Calls \cup {None}]
  /\ got \in [Calls -> Sessions]
  /\ lost \subseteq Tokens /\ twice \subseteq Tokens

\* A machine nobody signed in on, or one whose last login is still good.
OwnerInit(w) ==
  /\ file = IF w.signedIn THEN <<1, 1>> ELSE NoSession
  /\ live = IF w.signedIn THEN <<1>> ELSE <<>>
  /\ accepted = IF w.signedIn THEN {<<1, 1>>} ELSE {}
  /\ renewable = IF w.signedIn THEN {1} ELSE {}
  /\ ownerToken = file
  /\ flight = NoFlight
  /\ answer = [c \in Calls |-> "none"]
  /\ port = None /\ redirects = {}
  /\ reply = [c \in Calls |-> None]
  /\ got = [c \in Calls |-> NoSession]
  /\ lost = {} /\ twice = {}

----------------------------------------------------------------------------
\* The renewal. One at a time: a request that needs one joins the one in flight.

\* Mutant: every 401 starts a renewal of its own.
JoinRenewalAfresh(c) ==
  flight' = [NoFlight EXCEPT !.phase = "load", !.waiters = flight.waiters \cup {c}]

JoinRenewal(c) ==
  flight' = IF flight.phase = "none"
            THEN [NoFlight EXCEPT !.phase = "load", !.waiters = {c}]
            ELSE [flight EXCEPT !.waiters = @ \cup {c}]

\* Mutant: only one of the requests that wait is told.
SettleForOne(outcome) ==
  LET first == CHOOSE c \in Calls : c \in flight.waiters IN
  /\ flight' = NoFlight
  /\ answer' = [c \in Calls |-> IF c = first THEN outcome ELSE answer[c]]

\* The gate clears as the promise settles; everybody awaiting it is told.
Settle(outcome) ==
  /\ flight' = NoFlight
  /\ answer' = [c \in Calls |-> IF c \in flight.waiters THEN outcome ELSE answer[c]]

\* loadSession: no session, one that cannot be renewed, or a store that does not
\* open, is an expired session.
LoadSession ==
  /\ flight.phase = "load"
  /\ \/ /\ CanRenew(file)
        /\ flight' = [flight EXCEPT !.phase = "post", !.loaded = file]
        /\ UNCHANGED <<answer, faults>>
     \/ /\ ~CanRenew(file)
        /\ Settle("expired")
        /\ UNCHANGED faults
     \/ faults < MaxFaults /\ faults' = faults + 1 /\ Settle("expired")
  /\ UNCHANGED <<kind, pc, up, envKey, selection, selected, file, ownerToken, live,
                 accepted, renewable, loginVars, historyVars>>

\* The token endpoint is discovered and the refresh token presented. The server
\* takes it and answers with the next pair; or its answer is lost, or it does not
\* take it, or it is never reached.
PostRefresh ==
  LET t == flight.loaded
      next == <<t[1], t[2] + 1>>
      rotates == live' = [live EXCEPT ![t[1]] = t[2] + 1] /\ accepted' = accepted \cup {next}
  IN
  /\ flight.phase = "post"
  /\ \/ /\ ~Spent(t) /\ rotates
        /\ flight' = [flight EXCEPT !.phase = "save", !.fresh = next]
        /\ UNCHANGED <<answer, faults, lost, twice>>
     \/ /\ ~Spent(t) /\ rotates
        /\ faults < MaxFaults /\ faults' = faults + 1
        /\ lost' = lost \cup {t}
        /\ Settle("expired") /\ UNCHANGED twice
     \/ /\ Spent(t)
        /\ twice' = twice \cup {t}
        /\ Settle("expired")
        /\ UNCHANGED <<live, accepted, lost, faults>>
     \/ /\ faults < MaxFaults /\ faults' = faults + 1
        /\ Settle("expired")
        /\ UNCHANGED <<live, accepted, lost, twice>>
  /\ UNCHANGED <<kind, pc, up, envKey, selection, selected, file, ownerToken, renewable,
                 loginVars>>

\* saveSession, then setToken. A write that fails leaves the file and the memory
\* with a pair whose refresh token is spent.
SaveSession ==
  /\ flight.phase = "save"
  /\ \/ /\ file' = flight.fresh /\ ownerToken' = flight.fresh
        /\ Settle("renewed")
        /\ UNCHANGED <<lost, faults>>
     \/ /\ faults < MaxFaults /\ faults' = faults + 1
        /\ lost' = lost \cup {flight.loaded}
        /\ Settle("expired")
        /\ UNCHANGED <<file, ownerToken>>
  /\ UNCHANGED <<kind, pc, up, envKey, selection, selected, live, accepted, renewable,
                 loginVars, twice>>

\* Access tokens are short-lived.
ExpireAccess(t) ==
  /\ accepted' = accepted \ {t}
  /\ UNCHANGED <<processVars, file, ownerToken, live, renewable, flight, answer,
                 loginVars, historyVars>>

----------------------------------------------------------------------------
\* depix-mcp login: find the server, bind the port, and only then open a browser.

Release(c) == port' = IF port = c THEN None ELSE port

BindListener(c) ==
  /\ kind[c] = "login" /\ pc[c] = "idle"
  /\ \/ port = None /\ port' = c /\ Goto(c, "bound")
     \/ port # None /\ Goto(c, "failed") /\ UNCHANGED port
  /\ UNCHANGED <<kind, up, envKey, faults, selection, selected, sessionVars, redirects,
                 reply, got, historyVars>>

\* A headless machine, or an authorization server that cannot be found.
CannotLogIn(c) ==
  /\ kind[c] = "login" /\ pc[c] = "idle"
  /\ Goto(c, "failed")
  /\ UNCHANGED <<kind, up, envKey, faults, selection, selected, ownerVars>>

OpenBrowser(c) ==
  /\ kind[c] = "login" /\ pc[c] = "bound"
  /\ redirects' = redirects \cup {c}
  /\ Goto(c, "browsing")
  /\ UNCHANGED <<kind, up, envKey, faults, selection, selected, sessionVars, port, reply,
                 got, historyVars>>

\* The browser comes back to the fixed port, whoever holds it now. The first
\* request on the path is the one; later ones find nothing there.
Redirect(c) ==
  /\ c \in redirects
  /\ redirects' = redirects \ {c}
  /\ reply' = IF port # None /\ reply[port] = None
              THEN [reply EXCEPT ![port] = c] ELSE reply
  /\ UNCHANGED <<processVars, sessionVars, port, got, historyVars>>

\* readCallbackParams: a provider error, or the state of another login, ends it.
ReadCallback(c) ==
  /\ kind[c] = "login" /\ pc[c] = "browsing"
  /\ reply[c] # None
  /\ \/ reply[c] = c /\ Goto(c, "code") /\ UNCHANGED port
     \/ Goto(c, "failed") /\ Release(c)
  /\ UNCHANGED <<kind, up, envKey, faults, selection, selected, sessionVars, redirects,
                 reply, got, historyVars>>

\* exchangeCode, and the answer to the browser, which closes the listener.
ExchangeCode(c) ==
  /\ kind[c] = "login" /\ pc[c] = "code"
  /\ Release(c)
  /\ \/ \E r \in BOOLEAN :
          LET f == Len(live) + 1 IN
          /\ live' = Append(live, 1)
          /\ accepted' = accepted \cup {<<f, 1>>}
          /\ renewable' = IF r THEN renewable \cup {f} ELSE renewable
          /\ got' = [got EXCEPT ![c] = <<f, 1>>]
          /\ Goto(c, "saving")
     \/ Goto(c, "failed") /\ UNCHANGED <<live, accepted, renewable, got>>
  /\ UNCHANGED <<kind, up, envKey, faults, selection, selected, file, ownerToken, flight,
                 answer, redirects, reply, historyVars>>

SaveLogin(c) ==
  /\ kind[c] = "login" /\ pc[c] = "saving"
  /\ \/ file' = got[c] /\ Goto(c, "done") /\ UNCHANGED faults
     \/ /\ faults < MaxFaults /\ faults' = faults + 1
        /\ Goto(c, "failed") /\ UNCHANGED file
  /\ got' = [got EXCEPT ![c] = NoSession]
  /\ UNCHANGED <<kind, up, envKey, selection, selected, ownerToken, live, accepted,
                 renewable, flight, answer, port, redirects, reply, lost, twice>>

\* No reply in time, or the operator stops the command: the port goes with it.
AbandonLogin(c) ==
  /\ kind[c] = "login" /\ Running(c)
  /\ Goto(c, "failed") /\ Release(c)
  /\ got' = [got EXCEPT ![c] = NoSession]
  /\ UNCHANGED <<kind, up, envKey, faults, selection, selected, sessionVars, redirects,
                 reply, historyVars>>

\* depix-mcp logout: the file goes, and the selection with it if it named the
\* owner when the file was removed.
ClearSession(c) ==
  /\ kind[c] = "logout" /\ pc[c] = "idle"
  /\ file' = NoSession
  /\ Goto(c, IF file # NoSession /\ selection = "owner" THEN "dropping" ELSE "done")
  /\ UNCHANGED <<kind, up, envKey, faults, selection, selected, ownerToken, live, accepted,
                 renewable, flight, answer, loginVars, lost, twice>>

ClearPreference(c) ==
  /\ kind[c] = "logout" /\ pc[c] = "dropping"
  /\ selection' = "none"
  /\ Goto(c, "done")
  /\ UNCHANGED <<kind, up, envKey, faults, selected, ownerVars>>

\* The server dies with the renewal it was making.
LoseFlight ==
  /\ flight' = NoFlight
  /\ lost' = IF flight.phase = "save" THEN lost \cup {flight.loaded} ELSE lost
  /\ ownerToken' = NoSession

\* seedOwnerSession. A store that does not open leaves the owner out.
SeedOwner(opens) == ownerToken' = IF opens THEN file ELSE NoSession

OwnerNext ==
  \/ LoadSession \/ PostRefresh \/ SaveSession
  \/ \E t \in accepted : ExpireAccess(t)
  \/ \E c \in Calls :
       \/ BindListener(c) \/ CannotLogIn(c) \/ OpenBrowser(c) \/ Redirect(c)
       \/ ReadCallback(c) \/ ExchangeCode(c) \/ SaveLogin(c) \/ AbandonLogin(c)
       \/ ClearSession(c) \/ ClearPreference(c)

----------------------------------------------------------------------------
\* "Presents a token that is already spent ... and a session that is perfectly
\* alive is declared dead" (owner-refresh.ts): however many requests meet a 401
\* together, and whatever logins and logouts happen meanwhile, a spent refresh
\* token is presented only when the answer, the write or the process that should
\* have kept its successor was lost.
OnlyALostRotationIsSpentTwice == twice \subseteq lost

=============================================================================
