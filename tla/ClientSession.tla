---------------------------- MODULE ClientSession ----------------------------
(***************************************************************************)
(* One user's signed-in sessions in one browser: the auth store of every   *)
(* tab, the storage the tabs share, the response interceptor that          *)
(* refreshes on a 401, the callers of initialize, the forms that store an  *)
(* access token of their own, logout and login; and the server that        *)
(* rotates the refresh tokens.  Both web applications have this code; they *)
(* differ in the two constants below.                                      *)
(*                                                                         *)
(* Of the store the refresh token is kept: setAuth and clearAuth write     *)
(* user and accessToken with it.  An access token may have expired at any  *)
(* time it is looked at, which is a choice at each look.                   *)
(***************************************************************************)
EXTENDS Naturals, Sequences, FiniteSets, Functions

CONSTANTS
    Tab,          \* tabs of the browser
    Call,         \* the authenticated requests of the tabs: <<tab, n>>
    Stray,        \* refreshes of closed pages the server may still work on
    Initializers, \* callers of initialize on a page
    Gates,        \* those of them that show nothing before it returns
    Kinds,        \* what a request's caller does with the answer
    PasswordSignsOut, \* whether the password page clears the store
    MaxTokens     \* bound on the refresh tokens issued

ASSUME SessionAssumption ==
    /\ Call \subseteq Tab \X Nat
    /\ "interceptor" \notin Initializers
    /\ Stray \cap (Tab \X (Initializers \cup {"interceptor"})) = {}
    /\ Gates \subseteq Initializers
    /\ Kinds \subseteq {"plain", "save", "save_captured"}
    /\ PasswordSignsOut \in BOOLEAN
    /\ MaxTokens \in Nat

VARIABLES
    issued,  \* refresh tokens in the order of their issue: the login of each
    live,    \* refresh tokens with is_active
    disk,    \* the refresh token in localStorage
    open,    \* the tabs with a page
    mem,     \* the refresh token in the auth store of each tab
    ready,   \* isInitialized
    toInit,  \* the callers of initialize whose effects have not run yet
    flight,  \* the refresh requests, by tab and origin
    call,    \* the authenticated requests
    exit     \* the logout or the change of password of each tab

server == <<issued, live>>
tabs == <<disk, open, mem, ready, toInit>>
vars == <<server, tabs, flight, call, exit>>

NoToken == 0
Origin == Initializers \cup {"interceptor"}
Slot == (Tab \X Origin) \cup Stray
Token == 1 .. Len(issued)

NoFlight == [pc |-> "idle", token |-> NoToken]
NoCall == [pc |-> "idle", kind |-> "none", again |-> FALSE, kept |-> NoToken]
NoExit == [pc |-> "idle", token |-> NoToken]

\* A refresh the server has not answered yet, with the token it was sent, and
\* one whose answer travels, with the token it is granted.
Unanswered == {"sent", "verified", "revoked"}
Answered == {"granted", "refused", "broken"}
Flight(pc, token) == [pc |-> pc, token |-> token]
Refused == Flight("refused", NoToken)

TypeOK ==
    /\ issued \in Seq(1 .. MaxTokens) /\ Len(issued) <= MaxTokens
    /\ live \subseteq Token
    /\ disk \in 0 .. MaxTokens
    /\ open \subseteq Tab
    /\ mem \in [Tab -> 0 .. MaxTokens]
    /\ ready \in [Tab -> BOOLEAN]
    /\ toInit \in [Tab -> SUBSET Initializers]
    /\ flight \in [Slot -> [pc : {"idle"} \cup Unanswered \cup Answered,
                            token : 0 .. MaxTokens]]
    /\ call \in [Call -> [pc : {"idle", "sent", "waiting"}, kind : Kinds \cup {"none"},
                          again : BOOLEAN, kept : 0 .. MaxTokens]]
    /\ exit \in [Tab -> [pc : {"idle", "logout", "done"},
                         token : 0 .. MaxTokens]]

Init ==
    /\ issued = <<>>
    /\ live = {}
    /\ disk = NoToken
    /\ open = {}
    /\ mem = [t \in Tab |-> NoToken]
    /\ ready = [t \in Tab |-> FALSE]
    /\ toInit = [t \in Tab |-> {}]
    /\ flight = [w \in Slot |-> NoFlight]
    /\ call = [c \in Call |-> NoCall]
    /\ exit = [t \in Tab |-> NoExit]

-----------------------------------------------------------------------------
\* The store.  Every set writes the three persisted fields of this tab to
\* localStorage, whatever another tab has written there.
setAuth(t, refresh) ==
    /\ mem' = [mem EXCEPT ![t] = refresh]
    /\ disk' = refresh

clearAuth(t) == setAuth(t, NoToken)

\* tryRefresh up to its await, with the refresh token of this moment.
StartRefresh(w, refresh) ==
    flight' = [flight EXCEPT ![w] = Flight("sent", refresh)]

\* A page is loaded: the store is rehydrated from localStorage.
OpenPage(t) ==
    /\ t \notin open
    /\ open' = open \cup {t}
    /\ mem' = [mem EXCEPT ![t] = disk]
    /\ toInit' = [toInit EXCEPT ![t] = Initializers]
    /\ UNCHANGED <<server, disk, ready, flight, call, exit>>

\* A page is closed or reloaded.  Nobody is left to read its answers, but the
\* server goes on with the refreshes it has received.
ClosePage(t) ==
    LET own  == {t} \X Origin
        busy == {w \in own : flight[w].pc \in Unanswered}
        free == {w \in Stray : flight[w].pc = "idle"}
    IN  /\ t \in open
        /\ open' = open \ {t}
        /\ mem' = [mem EXCEPT ![t] = NoToken]
        /\ ready' = [ready EXCEPT ![t] = FALSE]
        /\ toInit' = [toInit EXCEPT ![t] = {}]
        /\ \E m \in Injection(busy, free) :
              flight' = [w \in Slot |->
                 IF w \in own THEN NoFlight
                 ELSE IF w \in Range(m) THEN flight[Inverse(m, busy, free)[w]]
                 ELSE flight[w]]
        /\ call' = [c \in Call |-> IF c[1] = t THEN NoCall ELSE call[c]]
        /\ exit' = [exit EXCEPT ![t] = NoExit]
        /\ UNCHANGED <<server, disk>>

\* initialize, called by one of the effects of the page: nothing is left to do,
\* the stored access token has not expired (the set persists the store again),
\* or it has.
initialize(t, o) ==
    /\ o \in toInit[t]
    /\ toInit' = [toInit EXCEPT ![t] = @ \ {o}]
    /\ \/ /\ ready[t]
          /\ UNCHANGED <<disk, mem, ready, flight>>
       \/ /\ ~ready[t]
          /\ setAuth(t, mem[t])
          /\ ready' = [ready EXCEPT ![t] = TRUE]
          /\ UNCHANGED flight
       \/ /\ ~ready[t]
          /\ mem[t] # NoToken
          /\ StartRefresh(<<t, o>>, mem[t])
          /\ UNCHANGED <<disk, mem, ready>>
    /\ UNCHANGED <<server, open, call, exit>>

\* What the user does, the page being there and its first effects run.
Usable(t) ==
    /\ t \in open
    /\ toInit[t] = {}
    /\ \A g \in Gates : flight[<<t, g>>].pc = "idle"

\* login_verify, verify_email: a new login, whose answer the page stores.
Login(t) ==
    /\ Usable(t)
    /\ mem[t] = NoToken
    /\ Len(issued) < MaxTokens
    /\ issued' = Append(issued, Len(issued) + 1)
    /\ live' = live \cup {Len(issued) + 1}
    /\ setAuth(t, Len(issued) + 1)
    /\ UNCHANGED <<open, ready, toInit, flight, call, exit>>

-----------------------------------------------------------------------------
\* The server's refresh.  Each step is a transaction of its own.

\* verify_refresh_token reads the token's row.
VerifyToken(w) ==
    /\ flight[w].pc = "sent"
    /\ flight' = [flight EXCEPT ![w] =
                     IF @.token \in live THEN Flight("verified", @.token) ELSE Refused]
    /\ UNCHANGED <<server, tabs, call, exit>>

\* Mutant: the UPDATE does not ask for is_active.
RevokeToken_Blind(w) ==
    /\ flight[w].pc = "verified"
    /\ live' = live \ {flight[w].token}
    /\ flight' = [flight EXCEPT ![w] = Flight("revoked", @.token)]
    /\ UNCHANGED <<issued, tabs, call, exit>>

\* Mutant: the revocation is not committed.
RevokeToken_Uncommitted(w) ==
    /\ flight[w].pc = "verified"
    /\ flight' = [flight EXCEPT ![w] =
                     IF @.token \in live THEN Flight("revoked", @.token) ELSE Refused]
    /\ UNCHANGED <<server, tabs, call, exit>>

\* RefreshTokenRepository.revoke: UPDATE ... WHERE is_active, committed.
RevokeToken(w) ==
    /\ flight[w].pc = "verified"
    /\ live' = live \ {flight[w].token}
    /\ flight' = [flight EXCEPT ![w] =
                     IF @.token \in live THEN Flight("revoked", @.token) ELSE Refused]
    /\ UNCHANGED <<issued, tabs, call, exit>>

\* Mutant: the new row carries no login.
IssueToken_NoLogin(w) ==
    /\ flight[w].pc = "revoked"
    /\ Len(issued) < MaxTokens
    /\ live' = live \cup {Len(issued) + 1}
    /\ flight' = [flight EXCEPT ![w] = Flight("granted", Len(issued) + 1)]
    /\ UNCHANGED <<issued, tabs, call, exit>>

\* create_refresh_token, committed.
IssueToken(w) ==
    /\ flight[w].pc = "revoked"
    /\ Len(issued) < MaxTokens
    /\ issued' = Append(issued, issued[flight[w].token])
    /\ live' = live \cup {Len(issued) + 1}
    /\ flight' = [flight EXCEPT ![w] = Flight("granted", Len(issued) + 1)]
    /\ UNCHANGED <<tabs, call, exit>>

\* The request or its answer is lost, the server dies between two commits, or
\* the account may no longer sign in.
BreakRefresh(w) ==
    /\ flight[w].pc \in Unanswered \cup {"granted"}
    /\ flight' = [flight EXCEPT ![w] = Flight("broken", NoToken)]
    /\ UNCHANGED <<server, tabs, call, exit>>

\* The answer comes to a page that is gone.
DropAnswer(w) ==
    /\ w \in Stray
    /\ flight[w].pc \in Answered
    /\ flight' = [flight EXCEPT ![w] = NoFlight]
    /\ UNCHANGED <<server, tabs, call, exit>>

-----------------------------------------------------------------------------
\* Authenticated requests and the response interceptor.
Waiting(t) == {c \in Call : c[1] = t /\ call[c].pc = "waiting"}

\* A request with the access token of the store.  (One without, or one that
\* carries none, is rejected by the interceptor and changes nothing here.)  A
\* form may keep the refresh token of the render it is submitted from.
SendCall(c, k) ==
    /\ Usable(c[1])
    /\ call[c].pc = "idle"
    /\ mem[c[1]] # NoToken
    /\ call' = [call EXCEPT ![c] =
          [pc |-> "sent", kind |-> k, again |-> FALSE,
           kept |-> IF k = "save_captured" THEN mem[c[1]] ELSE NoToken]]
    /\ UNCHANGED <<server, tabs, flight, exit>>

\* Mutant: a form takes the refresh token from localStorage.
KeptRefresh_Persisted(c) == disk

\* The refresh token a form stores with the access token it is answered with.
KeptRefresh(c) ==
    IF call[c].kind = "save_captured" THEN call[c].kept ELSE mem[c[1]]

\* The request succeeds; a form stores the new access token.
Succeed(c) ==
    /\ call[c].pc = "sent"
    /\ IF call[c].kind # "plain" /\ KeptRefresh(c) # NoToken
       THEN setAuth(c[1], KeptRefresh(c))
       ELSE UNCHANGED <<disk, mem>>
    /\ call' = [call EXCEPT ![c] = NoCall]
    /\ UNCHANGED <<server, open, ready, toInit, flight, exit>>

\* The request fails for any other reason than a 401, or its answer is lost.
Fail(c) ==
    /\ call[c].pc = "sent"
    /\ call' = [call EXCEPT ![c] = NoCall]
    /\ UNCHANGED <<server, tabs, flight, exit>>

\* _retry marks a request that was sent again.
MayRetry(c) == ~call[c].again

\* A 401: the token has expired, at the latest on its way.  The interceptor
\* starts a refresh, or waits for the one it has started.
Unauthorized(c) ==
    LET w == <<c[1], "interceptor">>
        refresh == mem[c[1]]
    IN  /\ call[c].pc = "sent"
        /\ \/ /\ ~MayRetry(c)
              /\ call' = [call EXCEPT ![c] = NoCall]
              /\ UNCHANGED flight
           \/ /\ MayRetry(c)
              /\ flight[w].pc # "idle"
              /\ call' = [call EXCEPT ![c].pc = "waiting", ![c].again = TRUE]
              /\ UNCHANGED flight
           \/ /\ MayRetry(c)
              /\ flight[w].pc = "idle"
              /\ refresh # NoToken
              /\ call' = [call EXCEPT ![c].pc = "waiting", ![c].again = TRUE]
              /\ StartRefresh(w, refresh)
           \/ /\ MayRetry(c)  \* tryRefresh returns at once
              /\ flight[w].pc = "idle"
              /\ refresh = NoToken
              /\ call' = [call EXCEPT ![c] = NoCall]
              /\ UNCHANGED flight
        /\ UNCHANGED <<server, tabs, exit>>

\* Mutant: only the request that started the refresh is woken by its end.
Woken_One(t) == {c \in Waiting(t) : \A d \in Waiting(t) : c[2] <= d[2]}

\* The requests that await refreshPromise.
Woken(t) == Waiting(t)

\* The refresh is answered: tryRefresh stores the pair or clears the store,
\* and whoever awaited it goes on.
EndRefresh(t, o) ==
    LET f == flight[<<t, o>>]
    IN  /\ f.pc \in Answered
        /\ IF f.pc = "granted" THEN setAuth(t, f.token) ELSE clearAuth(t)
        /\ ready' = [ready EXCEPT ![t] = @ \/ o \in Initializers]
        /\ call' = IF o \in Initializers THEN call
                   ELSE [c \in Call |->
                           IF c \notin Woken(t) THEN call[c]
                           ELSE IF f.pc = "granted"
                           THEN [call[c] EXCEPT !.pc = "sent"]
                           ELSE NoCall]
        /\ flight' = [flight EXCEPT ![<<t, o>>] = NoFlight]
        /\ UNCHANGED <<server, open, toInit, exit>>

-----------------------------------------------------------------------------
\* Logout: the refresh token of the last render is revoked, and whatever comes
\* of that the store is cleared.  A change of password is confirmed by the
\* server, and an application may then clear the store.
StartLogout(t) ==
    /\ Usable(t)
    /\ exit[t].pc = "idle"
    /\ mem[t] # NoToken
    /\ exit' = [exit EXCEPT ![t] = [pc |-> "logout", token |-> mem[t]]]
    /\ UNCHANGED <<server, tabs, flight, call>>

\* logout, at the server.
RevokeLogin(t) ==
    /\ exit[t].pc = "logout"
    /\ live' = live \ {exit[t].token}
    /\ exit' = [exit EXCEPT ![t] = [pc |-> "done", token |-> NoToken]]
    /\ UNCHANGED <<issued, tabs, flight, call>>

\* change_password revokes every refresh token of the user.  (Its request takes
\* nothing of the store along that the answer would use.)
RevokeAll(t) ==
    /\ Usable(t)
    /\ exit[t].pc = "idle"
    /\ mem[t] # NoToken
    /\ live' = {}
    /\ exit' = [exit EXCEPT ![t].pc = IF PasswordSignsOut THEN "done" ELSE "idle"]
    /\ UNCHANGED <<issued, tabs, flight, call>>

SignOut(t) ==
    /\ exit[t].pc \in {"logout", "done"}
    /\ clearAuth(t)
    /\ exit' = [exit EXCEPT ![t] = NoExit]
    /\ UNCHANGED <<server, open, ready, toInit, flight, call>>

-----------------------------------------------------------------------------
TabNext(t) ==
    \/ OpenPage(t) \/ ClosePage(t) \/ Login(t)
    \/ \E o \in Initializers : initialize(t, o)
    \/ \E o \in Origin : EndRefresh(t, o)
    \/ StartLogout(t) \/ RevokeLogin(t) \/ RevokeAll(t) \/ SignOut(t)

RefreshNext(w) ==
    VerifyToken(w) \/ RevokeToken(w) \/ IssueToken(w) \/ BreakRefresh(w) \/ DropAnswer(w)

CallNext(c) ==
    \/ \E k \in Kinds : SendCall(c, k)
    \/ Succeed(c) \/ Fail(c) \/ Unauthorized(c)

Next ==
    \/ \E t \in Tab : TabNext(t)
    \/ \E w \in Slot : RefreshNext(w)
    \/ \E c \in Call : CallNext(c)

Spec == Init /\ [][Next]_vars

\* Requests are answered or time out, and continuations run.
Fairness ==
    /\ \A w \in Slot : WF_vars(RefreshNext(w))
    /\ \A t \in Tab, o \in Origin : WF_vars(EndRefresh(t, o))
    /\ \A c \in Call : WF_vars(Succeed(c) \/ Fail(c) \/ Unauthorized(c))

LiveSpec == Spec /\ Fairness

-----------------------------------------------------------------------------
\* However refreshes, logins, logouts and page loads of all tabs interleave,
\* the tokens form chains of logins of which the last one at most is active
\* (auth_usecase.py, refresh: "only one will see rowcount = 1").
Renewing == {issued[flight[w].token] : w \in {v \in Slot : flight[v].pc = "revoked"}}

Chain == INSTANCE LoginChain WITH issued <- issued, live <- live, renewing <- Renewing
ImplementsLoginChain == Chain!Spec

\* Of the tokens of a login at most one can be used.
OneTokenPerLogin ==
    \A r, s \in live : issued[r] = issued[s] => r = s

\* While a page stays, its store goes from a refresh token of a login to a
\* later one of that login only: a token that was rotated away is never
\* stored again (refresh: "Clients must store the new refresh token and
\* discard the old one").
OldTokenDiscarded ==
    [][\A t \in open \cap open' :
          LET r == mem[t]
              s == mem'[t]
          IN  r # NoToken /\ s # NoToken /\ issued'[r] = issued'[s] => r <= s]_vars

\* A login that has no usable token and whose next one is not being made has
\* none ever again: logout, a change of password and a refresh that broke off
\* are final, whatever refreshes have already read the token (auth_usecase.py:
\* "logout revokes a single refresh token, ending the associated session").
Ended(l) ==
    /\ l \in Range(issued) \ Renewing
    /\ \A r \in live : issued[r] # l
LoginsEndForGood == [][\A l \in 1 .. MaxTokens : Ended(l) => Ended(l)']_vars

\* No request waits for a refresh that is over: whoever awaits refreshPromise is
\* woken by its end or goes with its page.
WaitersHaveRefresh ==
    \A c \in Call :
        call[c].pc = "waiting" => flight[<<c[1], "interceptor">>].pc # "idle"

\* Every authenticated request of a page that stays comes to an end: no request
\* waits for a refresh nobody finishes, and none is retried for ever.
RequestsSettle ==
    \A c \in Call : call[c].pc # "idle" ~> call[c].pc = "idle"
=============================================================================
