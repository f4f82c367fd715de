------------------------ MODULE ClientSession_proofs ------------------------
(***************************************************************************)
(* What ClientSession guarantees for every number of tabs, requests, page  *)
(* loads and tokens.                                                       *)
(***************************************************************************)
EXTENDS ClientSession, TLAPS

\* No effect, refresh or request of a page is left behind when it is closed,
\* and no refresh has begun for an effect that has not run.
EffectsPending ==
    /\ \A t \in Tab :
          /\ t \notin open =>
                toInit[t] = {} /\ \A o \in Origin : flight[<<t, o>>].pc = "idle"
          /\ \A o \in toInit[t] : flight[<<t, o>>].pc = "idle"
    /\ \A c \in Call : c[1] \notin open => call[c].pc = "idle"

\* Whatever is held anywhere was issued, and a login is named by a token.
Known(r) == r <= Len(issued)
AllKnown ==
    /\ \A r \in Token : Known(issued[r])
    /\ Known(disk)
    /\ \A t \in Tab : Known(mem[t])
    /\ \A w \in Slot : Known(flight[w].token)
    /\ \A c \in Call : Known(call[c].kept)

SameLogin(r, s) == issued[r] = issued[s]
Newest(r) == \A s \in Token : SameLogin(s, r) => s <= r

\* Only the newest token of a login is active, and none while a refresh has
\* revoked one and not issued the next.
Revoked(w) == flight[w].pc = "revoked"
Chains ==
    /\ \A r \in live : Newest(r)
    /\ \A w \in Slot : Revoked(w) =>
          /\ flight[w].token \in Token
          /\ \A r \in live : ~SameLogin(r, flight[w].token)
          /\ \A v \in Slot \ {w} :
                Revoked(v) => ~SameLogin(flight[v].token, flight[w].token)

\* A token whose answer still travels is the newest of its login, its login is
\* not being renewed, and nobody else has the token.
Fresh(w, g) ==
    /\ g \in Token
    /\ Newest(g)
    /\ disk # g
    /\ \A t \in Tab : mem[t] # g
    /\ \A c \in Call : call[c].kept # g
    /\ \A v \in Slot \ {w} :
          /\ flight[v].token # g
          /\ Revoked(v) => ~SameLogin(flight[v].token, g)
Undelivered ==
    \A w \in Slot : flight[w].pc = "granted" => Fresh(w, flight[w].token)

SessionInv == TypeOK /\ EffectsPending /\ AllKnown /\ Chains /\ Undelivered

-----------------------------------------------------------------------------
Flights == [pc : {"idle"} \cup Unanswered \cup Answered, token : 0 .. MaxTokens]
Calls == [pc : {"idle", "sent", "waiting"}, kind : Kinds \cup {"none"},
          again : BOOLEAN, kept : 0 .. MaxTokens]
Exits == [pc : {"idle", "logout", "done"}, token : 0 .. MaxTokens]

\* The constant records of the model have their types.
LEMMA ConstantRecords ==
    /\ NoFlight \in Flights /\ Refused \in Flights
    /\ NoCall \in Calls /\ NoExit \in Exits
    /\ NoFlight.pc = "idle" /\ NoFlight.token = NoToken
    /\ Refused.pc = "refused" /\ Refused.token = NoToken
    /\ NoCall.kept = NoToken
  BY SessionAssumption DEF NoFlight, Refused, NoCall, NoExit, Flights, Calls, Exits,
     Flight, Unanswered, Answered, NoToken

\* A page that is closed leaves its unanswered refreshes to stray slots, each to
\* one of its own: no refresh is copied, and none that has revoked a token is
\* forgotten.
LEMMA ClosedPage ==
    ASSUME NEW t \in Tab, ClosePage(t)
    PROVE  \E from \in [Slot -> Slot] :
             /\ flight' = [w \in Slot |-> flight'[w]]
             /\ \A w \in Slot : \/ flight'[w] = NoFlight
                                \/ flight'[w] = flight[from[w]]
             /\ \A v, w \in Slot : from[v] = from[w] =>
                   v = w \/ flight'[v] = NoFlight \/ flight'[w] = NoFlight
             /\ \A w \in Slot : Revoked(w) => \E v \in Slot : flight'[v] = flight[w]
             /\ \A o \in Origin : flight'[<<t, o>>] = NoFlight
             /\ \A u \in Tab \ {t}, o \in Origin : flight'[<<u, o>>] = flight[<<u, o>>]
<1> DEFINE own == {t} \X Origin
           busy == {w \in own : flight[w].pc \in Unanswered}
           free == {w \in Stray : flight[w].pc = "idle"}
<1>1. PICK m \in Injection(busy, free) :
         flight' = [w \in Slot |->
            IF w \in own THEN NoFlight
            ELSE IF w \in Range(m) THEN flight[Inverse(m, busy, free)[w]]
            ELSE flight[w]]
  BY DEF ClosePage
<1>2. m \in [busy -> free] /\ \A v, w \in busy : m[v] = m[w] => v = w
  BY DEF Injection, IsInjective
<1> DEFINE back == Inverse(m, busy, free)
<1>3. ASSUME NEW w \in Range(m) PROVE back[w] \in busy /\ m[back[w]] = w
  <2>1. PICK v \in busy : m[v] = w
    BY <1>2 DEF Range
  <2>2. w \in free
    BY <2>1, <1>2
  <2>3. back[w] = CHOOSE s \in busy : w \in Range(m) => m[s] = w
    BY <2>2 DEF Inverse
  <2> QED BY <2>1, <2>3
<1>4. own \subseteq Slot /\ free \subseteq Slot /\ own \cap Stray = {} /\ Range(m) \subseteq Stray
  <2>1. Range(m) \subseteq free
    BY <1>2 DEF Range
  <2> QED BY <2>1, SessionAssumption DEF Slot, Origin
<1> DEFINE from == [w \in Slot |-> IF w \in Range(m) THEN back[w] ELSE w]
<1>5. from \in [Slot -> Slot]
  BY <1>3, <1>4
<1>6. \A w \in Slot : flight'[w] = NoFlight \/ flight'[w] = flight[from[w]]
  BY <1>1
<1>7. ASSUME NEW v \in Slot, NEW w \in Slot, from[v] = from[w],
             flight'[v] # NoFlight, flight'[w] # NoFlight
      PROVE  v = w
  <2>1. v \notin own /\ w \notin own
    BY <1>7, <1>1
  <2>2. busy \subseteq own
    OBVIOUS
  <2> QED BY <2>1, <2>2, <1>3, <1>7
<1>8. ASSUME NEW w \in Slot, Revoked(w) PROVE \E v \in Slot : flight'[v] = flight[w]
  <2>1. CASE w \in own
    <3>1. w \in busy
      BY <2>1, <1>8 DEF Revoked, Unanswered
    <3>2. m[w] \in Range(m) /\ m[w] \in free
      BY <3>1, <1>2 DEF Range
    <3>3. back[m[w]] = w
      BY <3>1, <3>2, <1>3, <1>2
    <3> QED BY <3>2, <3>3, <1>1, <1>4
  <2>2. CASE w \notin own
    <3>1. w \notin Range(m)
      BY <1>2, <1>8 DEF Range, Revoked
    <3> QED BY <2>2, <3>1, <1>1
  <2> QED BY <2>1, <2>2
<1>9. \A o \in Origin : flight'[<<t, o>>] = NoFlight
  BY <1>1, <1>4
<1>10. ASSUME NEW u \in Tab \ {t}, NEW o \in Origin
       PROVE  flight'[<<u, o>>] = flight[<<u, o>>]
  <2>1. <<u, o>> \in Slot /\ <<u, o>> \notin Stray /\ <<u, o>> \notin own
    BY SessionAssumption DEF Slot, Origin
  <2> QED BY <2>1, <1>1, <1>4
<1>11. flight' = [w \in Slot |-> flight'[w]]
  <2> DEFINE next(w) == IF w \in own THEN NoFlight
                        ELSE IF w \in Range(m) THEN flight[Inverse(m, busy, free)[w]]
                        ELSE flight[w]
  <2>1. flight' = [w \in Slot |-> next(w)]
    BY <1>1
  <2> HIDE DEF next
  <2> QED BY <2>1
<1> HIDE DEF from
<1> QED BY <1>5, <1>6, <1>7, <1>8, <1>9, <1>10, <1>11

-----------------------------------------------------------------------------
\* The steps that write a single slot keep its type.
LEMMA SlotTyped ==
    ASSUME TypeOK, NEW w \in Slot, NEW f \in Flights,
           flight' = [flight EXCEPT ![w] = f]
    PROVE  flight' \in [Slot -> Flights]
  BY DEF TypeOK, Flights

\* The store's set keeps the types of what it writes.
LEMMA StoreTyped ==
    ASSUME TypeOK, NEW t \in Tab, NEW r \in 0 .. MaxTokens, setAuth(t, r)
    PROVE  mem' \in [Tab -> 0 .. MaxTokens] /\ disk' \in 0 .. MaxTokens
  BY DEF TypeOK, setAuth

\* Issuing a token keeps the list of tokens within the model's bound.
LEMMA IssueTyped ==
    ASSUME TypeOK, NEW l \in 1 .. MaxTokens, Len(issued) < MaxTokens,
           issued' = Append(issued, l)
    PROVE  /\ issued' \in Seq(1 .. MaxTokens) /\ Len(issued') = Len(issued) + 1
           /\ Len(issued') <= MaxTokens /\ Len(issued) \in Nat
           /\ Token' = Token \cup {Len(issued) + 1}
           /\ \A r \in Token : issued'[r] = issued[r]
           /\ issued'[Len(issued) + 1] = l
  BY SessionAssumption DEF TypeOK, Token

LEMMA TypeInTab ==
    ASSUME TypeOK, NEW t \in Tab, TabNext(t)
    PROVE  TypeOK'
<1> USE SessionAssumption DEF NoToken
<1>1. CASE OpenPage(t)
  BY <1>1 DEF TypeOK, OpenPage, server, Token
<1>2. CASE ClosePage(t)
  <2>1. flight' \in [Slot -> Flights]
    <3>1. /\ flight' = [w \in Slot |-> flight'[w]]
          /\ \A w \in Slot : \/ flight'[w] = NoFlight
                             \/ \E v \in Slot : flight'[w] = flight[v]
      BY <1>2, ClosedPage
    <3>2. ASSUME NEW w \in Slot PROVE flight'[w] \in Flights
      <4>1. \A v \in Slot : flight[v] \in Flights
        BY DEF TypeOK, Flights
      <4> QED BY <3>1, <4>1, ConstantRecords
    <3> QED BY <3>1, <3>2
  <2>2. call' \in [Call -> Calls] /\ exit' \in [Tab -> Exits]
    BY <1>2, ConstantRecords DEF TypeOK, ClosePage, Calls, Exits
  <2>3. /\ UNCHANGED <<issued, live, disk>>
        /\ open' \subseteq Tab
        /\ mem' \in [Tab -> 0 .. MaxTokens]
        /\ ready' \in [Tab -> BOOLEAN]
        /\ toInit' \in [Tab -> SUBSET Initializers]
    BY <1>2 DEF TypeOK, ClosePage, server
  <2> QED BY <2>1, <2>2, <2>3 DEF TypeOK, Flights, Calls, Exits, Token
<1>3. CASE Login(t)
  <2>1. Len(issued) + 1 \in 1 .. MaxTokens
    BY <1>3 DEF TypeOK, Login
  <2> QED BY <1>3, <2>1, IssueTyped, StoreTyped DEF TypeOK, Login
<1>4. ASSUME NEW o \in Initializers, initialize(t, o) PROVE TypeOK'
  <2>1. Flight("sent", mem[t]) \in Flights /\ <<t, o>> \in Slot
    BY DEF TypeOK, Flights, Flight, Unanswered, Slot, Origin
  <2>2. flight' \in [Slot -> Flights]
    BY <1>4, <2>1, SlotTyped DEF initialize, StartRefresh, TypeOK, Flights
  <2>3. mem' \in [Tab -> 0 .. MaxTokens] /\ disk' \in 0 .. MaxTokens
    BY <1>4, StoreTyped DEF initialize, TypeOK
  <2>4. /\ toInit' \in [Tab -> SUBSET Initializers]
        /\ ready' \in [Tab -> BOOLEAN]
        /\ UNCHANGED <<issued, live, open, call, exit>>
    BY <1>4 DEF TypeOK, initialize, server
  <2> QED BY <2>2, <2>3, <2>4 DEF TypeOK, Token, Flights
<1>5. ASSUME NEW o \in Origin, EndRefresh(t, o) PROVE TypeOK'
  <2>1. <<t, o>> \in Slot
    BY DEF Slot
  <2>2. flight' \in [Slot -> Flights]
    BY <1>5, <2>1, SlotTyped, ConstantRecords DEF EndRefresh
  <2>3. mem' \in [Tab -> 0 .. MaxTokens] /\ disk' \in 0 .. MaxTokens
    <3>1. NoToken \in 0 .. MaxTokens /\ flight[<<t, o>>].token \in 0 .. MaxTokens
      BY <2>1 DEF TypeOK
    <3>2. \E r \in 0 .. MaxTokens : setAuth(t, r)
      BY <1>5, <3>1 DEF EndRefresh, clearAuth
    <3> QED BY <3>2, StoreTyped
  <2>4. call' \in [Call -> Calls]
    <3>1. call \in [Call -> Calls]
      BY DEF TypeOK, Calls
    <3>2. ASSUME NEW c \in Call PROVE [call[c] EXCEPT !.pc = "sent"] \in Calls
      BY <3>1 DEF Calls
    <3>3. \/ call' = call
          \/ call' = [c \in Call |->
                IF c \notin Woken(t) THEN call[c]
                ELSE IF flight[<<t, o>>].pc = "granted"
                THEN [call[c] EXCEPT !.pc = "sent"]
                ELSE NoCall]
      BY <1>5 DEF EndRefresh
    <3> QED BY <3>1, <3>2, <3>3, ConstantRecords
  <2>5. ready' \in [Tab -> BOOLEAN]
    BY <1>5 DEF TypeOK, EndRefresh
  <2>6. UNCHANGED <<issued, live, open, toInit, exit>>
    BY <1>5 DEF EndRefresh, server
  <2> QED BY <2>2, <2>3, <2>4, <2>5, <2>6 DEF TypeOK, Token, Flights, Calls
<1>6. CASE StartLogout(t)
  BY <1>6 DEF TypeOK, StartLogout, server, tabs, Token
<1>7. CASE RevokeLogin(t)
  <2>1. [pc |-> "done", token |-> NoToken] \in Exits
    BY DEF Exits
  <2>2. exit' \in [Tab -> Exits] /\ live' \subseteq Token
    BY <1>7, <2>1 DEF TypeOK, RevokeLogin, Exits
  <2> QED BY <1>7, <2>2 DEF TypeOK, RevokeLogin, tabs, Token, Exits
<1>8. CASE RevokeAll(t)
  <2>1. [exit[t] EXCEPT !.pc = IF PasswordSignsOut THEN "done" ELSE "idle"] \in Exits
    <3>1. exit[t] \in Exits
      BY DEF TypeOK, Exits
    <3> QED BY <3>1 DEF Exits
  <2> QED BY <1>8, <2>1 DEF TypeOK, RevokeAll, tabs, Token, Exits
<1>9. CASE SignOut(t)
  <2>1. mem' \in [Tab -> 0 .. MaxTokens] /\ disk' \in 0 .. MaxTokens
    BY <1>9, StoreTyped DEF SignOut, clearAuth
  <2> QED BY <1>9, <2>1, ConstantRecords DEF TypeOK, SignOut, server, Token, Exits
<1> QED BY <1>1, <1>2, <1>3, <1>4, <1>5, <1>6, <1>7, <1>8, <1>9 DEF TabNext

LEMMA TypeInRefresh ==
    ASSUME TypeOK, NEW w \in Slot, RefreshNext(w),
           Revoked(w) => flight[w].token \in Token
    PROVE  TypeOK'
<1> USE SessionAssumption DEF NoToken
<1>1. CASE VerifyToken(w)
  <2>1. Flight("verified", flight[w].token) \in Flights
    BY DEF TypeOK, Flights, Flight, Unanswered
  <2> QED BY <1>1, <2>1, SlotTyped, ConstantRecords
          DEF VerifyToken, TypeOK, server, tabs, Token, Flights
<1>2. CASE RevokeToken(w)
  <2>1. Flight("revoked", flight[w].token) \in Flights
    BY DEF TypeOK, Flights, Flight, Unanswered
  <2> QED BY <1>2, <2>1, SlotTyped, ConstantRecords
          DEF RevokeToken, TypeOK, tabs, Token, Flights
<1>3. CASE IssueToken(w)
  <2>1. Flight("granted", Len(issued) + 1) \in Flights
    BY <1>3 DEF IssueToken, TypeOK, Flights, Flight, Answered
  <2>2. flight' \in [Slot -> Flights]
    BY <1>3, <2>1, SlotTyped DEF IssueToken
  <2>3. issued[flight[w].token] \in 1 .. MaxTokens
    BY <1>3 DEF IssueToken, TypeOK, Revoked, Token
  <2> QED BY <1>3, <2>2, <2>3, IssueTyped DEF IssueToken, TypeOK, tabs, Flights
<1>4. CASE BreakRefresh(w) \/ DropAnswer(w)
  <2>1. Flight("broken", NoToken) \in Flights
    BY DEF Flights, Flight, Answered
  <2> QED BY <1>4, <2>1, SlotTyped, ConstantRecords
          DEF BreakRefresh, DropAnswer, TypeOK, server, tabs, Token, Flights
<1> QED BY <1>1, <1>2, <1>3, <1>4 DEF RefreshNext

LEMMA TypeInCall ==
    ASSUME TypeOK, NEW c \in Call, CallNext(c)
    PROVE  TypeOK'
<1> USE SessionAssumption DEF NoToken
<1>0. c[1] \in Tab /\ call \in [Call -> Calls]
  BY DEF TypeOK, Calls
<1>1. ASSUME NEW k \in Kinds, SendCall(c, k) PROVE TypeOK'
  <2>1. [pc |-> "sent", kind |-> k, again |-> FALSE,
         kept |-> IF k = "save_captured" THEN mem[c[1]] ELSE NoToken] \in Calls
    BY <1>0 DEF TypeOK, Calls
  <2> QED BY <1>0, <1>1, <2>1 DEF SendCall, TypeOK, server, tabs, Token, Calls
<1>2. CASE Succeed(c)
  <2>1. KeptRefresh(c) \in 0 .. MaxTokens
    BY <1>0 DEF KeptRefresh, TypeOK
  <2> QED BY <1>0, <1>2, <2>1, StoreTyped, ConstantRecords
          DEF Succeed, TypeOK, server, Token, Calls
<1>3. CASE Fail(c)
  BY <1>0, <1>3, ConstantRecords DEF Fail, TypeOK, server, tabs, Token, Calls
<1>4. CASE Unauthorized(c)
  <2>1. [call[c] EXCEPT !.pc = "waiting", !.again = TRUE] \in Calls
    <3>1. call[c] \in Calls
      BY <1>0
    <3> QED BY <3>1 DEF Calls
  <2>2. call' \in [Call -> Calls]
    BY <1>0, <1>4, <2>1, ConstantRecords DEF Unauthorized
  <2>3. Flight("sent", mem[c[1]]) \in Flights /\ <<c[1], "interceptor">> \in Slot
    BY <1>0 DEF TypeOK, Flights, Flight, Unanswered, Slot, Origin
  <2>4. flight' \in [Slot -> Flights]
    BY <1>4, <2>3, SlotTyped DEF Unauthorized, StartRefresh, TypeOK, Flights
  <2> QED BY <1>4, <2>2, <2>4 DEF Unauthorized, TypeOK, server, tabs, Token, Calls, Flights
<1> QED BY <1>1, <1>2, <1>3, <1>4 DEF CallNext

-----------------------------------------------------------------------------
\* What the store, the disk and the forms hold.
Held == {NoToken, disk} \cup {mem[t] : t \in Tab} \cup {call[c].kept : c \in Call}

\* A step that issues nothing, activates nothing and moves only tokens that are
\* held.
QuietStep ==
    /\ issued' = issued
    /\ live' \subseteq live
    /\ disk' \in Held
    /\ \A t \in Tab : mem'[t] \in Held
    /\ \A c \in Call : call'[c].kept \in Held
    /\ \A w \in Slot : \/ flight'[w] = flight[w]
                       \/ /\ flight'[w].pc \notin {"revoked", "granted"}
                          /\ flight'[w].token \in Held \cup {flight[w].token}

\* What is held is known, and is no token whose answer still travels.
LEMMA HeldIsKnown ==
    ASSUME TypeOK, AllKnown, Undelivered, NEW r \in Held
    PROVE  /\ r \in Nat /\ Known(r)
           /\ \A w \in Slot : flight[w].pc = "granted" => r # flight[w].token
  BY SessionAssumption DEF TypeOK, AllKnown, Undelivered, Fresh, Held, Known, NoToken, Token

LEMMA QuietStepKeeps ==
    ASSUME TypeOK, AllKnown, Chains, Undelivered, QuietStep
    PROVE  AllKnown' /\ Chains' /\ Undelivered'
<1>1. Len(issued) \in Nat /\ Token' = Token /\ \A r : Known(r)' <=> Known(r)
  BY DEF TypeOK, QuietStep, Token, Known
<1>2. AllKnown'
  BY <1>1, HeldIsKnown DEF AllKnown, QuietStep, Known, Token
<1>3. \A r, s : SameLogin(r, s)' <=> SameLogin(r, s)
  BY DEF SameLogin, QuietStep
<1>4. \A r : Newest(r)' <=> Newest(r)
  BY <1>1, <1>3 DEF Newest, QuietStep, SameLogin, Token
<1>5. ASSUME NEW w \in Slot, flight'[w].pc \in {"revoked", "granted"}
      PROVE  flight'[w] = flight[w]
  BY <1>5 DEF QuietStep
<1>6. Chains'
  BY <1>1, <1>3, <1>4, <1>5 DEF Chains, Revoked, QuietStep, SameLogin, Newest, Token
<1>7. ASSUME NEW w \in Slot, flight'[w].pc = "granted"
      PROVE  Fresh(w, flight[w].token)'
  <2> DEFINE g == flight[w].token
  <2>1. flight'[w] = flight[w] /\ Fresh(w, g)
    BY <1>5, <1>7 DEF Undelivered
  <2>2. \A r \in Held : r # g
    BY <2>1, <1>7, HeldIsKnown
  <2>3. ASSUME NEW v \in Slot \ {w} PROVE flight'[v].token # g
    BY <2>1, <2>2 DEF Fresh, QuietStep
  <2>4. ASSUME NEW v \in Slot \ {w}, Revoked(v)'
        PROVE  ~SameLogin(flight[v].token, g)'
    BY <2>1, <2>4, <1>3, <1>5 DEF Fresh, Revoked, SameLogin, QuietStep
  <2> QED BY <1>1, <1>4, <2>1, <2>2, <2>3, <2>4
          DEF Fresh, QuietStep, Newest, Token, SameLogin
<1> QED BY <1>2, <1>6, <1>7 DEF Undelivered

LEMMA StartedRefresh ==
    ASSUME TypeOK, NEW u, NEW r, StartRefresh(u, r)
    PROVE  \A w \in Slot : \/ flight'[w] = flight[w]
                           \/ /\ w = u
                              /\ flight'[w].pc = "sent" /\ flight'[w].token = r
  BY DEF StartRefresh, Flight, TypeOK

\* Pages that open, begin and end, as far as nothing is granted to them, and
\* the logins they end are quiet.
LEMMA QuietInTab ==
    ASSUME TypeOK, NEW t \in Tab,
           \/ OpenPage(t)
           \/ \E o \in Initializers : initialize(t, o)
           \/ \E o \in Origin : EndRefresh(t, o) /\ flight[<<t, o>>].pc # "granted"
           \/ StartLogout(t) \/ RevokeLogin(t) \/ RevokeAll(t) \/ SignOut(t)
    PROVE  QuietStep
<1> USE DEF QuietStep
<1>1. /\ NoToken \in Held /\ disk \in Held
      /\ \A u \in Tab : mem[u] \in Held
      /\ \A c \in Call : call[c].kept \in Held
  BY DEF Held
<1>2. ASSUME NEW r \in Held, setAuth(t, r)
      PROVE  disk' \in Held /\ \A u \in Tab : mem'[u] \in Held
  BY <1>1, <1>2 DEF setAuth, TypeOK
<1>3. CASE OpenPage(t)
  BY <1>1, <1>3 DEF OpenPage, server, TypeOK
<1>4. ASSUME NEW o \in Initializers, initialize(t, o) PROVE QuietStep
  <2>1. disk' \in Held /\ \A u \in Tab : mem'[u] \in Held
    BY <1>1, <1>2, <1>4 DEF initialize
  <2>2. ASSUME NEW w \in Slot, flight'[w] # flight[w]
        PROVE  flight'[w].pc \notin {"revoked", "granted"} /\ flight'[w].token \in Held
    BY <1>1, <1>4, <2>2, StartedRefresh DEF initialize
  <2> QED BY <1>1, <1>4, <2>1, <2>2 DEF initialize, server
<1>5. ASSUME NEW o \in Origin, EndRefresh(t, o), flight[<<t, o>>].pc # "granted"
      PROVE  QuietStep
  <2>1. disk' \in Held /\ \A u \in Tab : mem'[u] \in Held
    BY <1>1, <1>2, <1>5 DEF EndRefresh, clearAuth
  <2>2. ASSUME NEW w \in Slot, flight'[w] # flight[w]
        PROVE  flight'[w].pc \notin {"revoked", "granted"} /\ flight'[w].token \in Held
    BY <1>1, <1>5, <2>2, ConstantRecords DEF EndRefresh, TypeOK
  <2>3. ASSUME NEW c \in Call PROVE call'[c].kept \in Held
    <3>1. call'[c] \in {call[c], NoCall}
      BY <1>5 DEF EndRefresh
    <3> QED BY <3>1, <1>1, ConstantRecords
  <2> QED BY <1>5, <2>1, <2>2, <2>3 DEF EndRefresh, server
<1>6. CASE StartLogout(t) \/ RevokeLogin(t) \/ RevokeAll(t)
  BY <1>1, <1>6 DEF StartLogout, RevokeLogin, RevokeAll, server, tabs
<1>7. CASE SignOut(t)
  BY <1>1, <1>2, <1>7 DEF SignOut, clearAuth, server
<1> QED BY <1>3, <1>4, <1>5, <1>6, <1>7

LEMMA QuietInRefresh ==
    ASSUME TypeOK, NEW w \in Slot, VerifyToken(w) \/ BreakRefresh(w) \/ DropAnswer(w)
    PROVE  QuietStep
<1>1. \A v \in Slot : \/ flight'[v] = flight[v]
                      \/ /\ flight'[v].pc \notin {"revoked", "granted"}
                         /\ flight'[v].token \in {NoToken, flight[v].token}
  BY ConstantRecords DEF VerifyToken, BreakRefresh, DropAnswer, Flight, TypeOK
<1> QED BY <1>1 DEF QuietStep, Held, VerifyToken, BreakRefresh, DropAnswer, server, tabs

LEMMA QuietInCall ==
    ASSUME TypeOK, NEW c \in Call, CallNext(c)
    PROVE  QuietStep
<1> USE DEF QuietStep
<1>1. /\ NoToken \in Held /\ disk \in Held
      /\ \A u \in Tab : mem[u] \in Held
      /\ \A d \in Call : call[d].kept \in Held
  BY DEF Held
<1>2. c[1] \in Tab
  BY SessionAssumption
<1>3. ASSUME NEW k \in Kinds, SendCall(c, k) PROVE QuietStep
  BY <1>1, <1>2, <1>3 DEF SendCall, server, tabs, TypeOK
<1>4. CASE Succeed(c)
  <2>1. KeptRefresh(c) \in Held
    BY <1>1, <1>2 DEF KeptRefresh
  <2>2. disk' \in Held /\ \A u \in Tab : mem'[u] \in Held
    BY <1>1, <1>2, <1>4, <2>1 DEF Succeed, setAuth, TypeOK
  <2> QED BY <1>1, <1>4, <2>2, ConstantRecords DEF Succeed, server, TypeOK
<1>5. CASE Fail(c)
  BY <1>1, <1>5, ConstantRecords DEF Fail, server, tabs, TypeOK
<1>6. CASE Unauthorized(c)
  <2>1. \A d \in Call : call'[d].kept \in {NoToken, call[d].kept}
    <3>1. call \in [Call -> Calls]
      BY DEF TypeOK, Calls
    <3>2. \A d \in Call : [call[d] EXCEPT !.pc = "waiting", !.again = TRUE].kept = call[d].kept
      BY <3>1 DEF Calls
    <3>3. \/ call' = [call EXCEPT ![c] = NoCall]
          \/ call' = [call EXCEPT ![c] = [call[c] EXCEPT !.pc = "waiting", !.again = TRUE]]
      BY <1>6 DEF Unauthorized
    <3> QED BY <3>1, <3>2, <3>3, ConstantRecords
  <2>2. ASSUME NEW w \in Slot, flight'[w] # flight[w]
        PROVE  flight'[w].pc \notin {"revoked", "granted"} /\ flight'[w].token \in Held
    BY <1>1, <1>2, <1>6, <2>2, StartedRefresh DEF Unauthorized
  <2> QED BY <1>1, <1>6, <2>1, <2>2 DEF Unauthorized, server, tabs
<1> QED BY <1>3, <1>4, <1>5, <1>6 DEF CallNext

-----------------------------------------------------------------------------
\* The remaining steps, each with what it does to the tokens.
LEMMA Issued ==
    ASSUME TypeOK, AllKnown, Len(issued) < MaxTokens,
           NEW l, l \in Token \/ l = Len(issued) + 1, issued' = Append(issued, l),
           NEW n, n = Len(issued) + 1
    PROVE  /\ n \in 1 .. MaxTokens /\ n \notin Token /\ Token' = Token \cup {n}
           /\ Len(issued) \in Nat /\ Len(issued') = n
           /\ \A r \in Token : issued'[r] = issued[r] /\ r < n
           /\ issued'[n] = l /\ l <= n
           /\ \A r \in Nat : Known(r) => Known(r)' /\ r # n
           /\ \A r \in Token' : Known(issued[r])'
           /\ \A p, q \in Token : SameLogin(p, q)' <=> SameLogin(p, q)
           /\ \A r \in Token : SameLogin(r, n)' <=> issued[r] = l
           /\ \A r \in Token : Newest(r) /\ issued[r] # l => Newest(r)'
           /\ Newest(n)'
<1>1. Len(issued) \in Nat /\ l \in 1 .. MaxTokens
  BY SessionAssumption DEF TypeOK, Token
<1>2. /\ n \in 1 .. MaxTokens /\ n \notin Token /\ Token' = Token \cup {n}
      /\ Len(issued') = n /\ issued'[n] = l /\ l <= n
      /\ \A r \in Token : issued'[r] = issued[r] /\ r < n
  BY <1>1, IssueTyped, SessionAssumption DEF Token
<1>3. \A r \in Token : issued[r] \in Nat /\ issued[r] <= Len(issued)
  BY SessionAssumption DEF TypeOK, AllKnown, Known, Token
<1>4. /\ \A r \in Nat : Known(r) => Known(r)' /\ r # n
      /\ \A r \in Token' : Known(issued[r])'
  <2>1. ASSUME NEW r \in Nat, r <= Len(issued) PROVE r <= n /\ r # n
    BY <1>1, <2>1
  <2>2. ASSUME NEW r \in Token PROVE issued'[r] <= Len(issued')
    <3>1. issued'[r] = issued[r] /\ issued[r] \in Nat /\ issued[r] <= Len(issued)
      BY <1>2, <1>3
    <3>2. Len(issued') = Len(issued) + 1
      BY <1>2
    <3> QED BY <1>1, <3>1, <3>2
  <2>3. \A r \in Token' : issued'[r] <= Len(issued')
    BY <1>2, <2>2
  <2>4. \A r \in Nat : Known(r) => Known(r)' /\ r # n
    BY <1>2, <2>1 DEF Known
  <2>5. \A r \in Token' : Known(issued[r])'
    BY <2>3 DEF Known
  <2> QED BY <2>4, <2>5
<1>5. /\ \A p, q \in Token : SameLogin(p, q)' <=> SameLogin(p, q)
      /\ \A r \in Token : SameLogin(r, n)' <=> issued[r] = l
  BY <1>2 DEF SameLogin
<1>6. ASSUME NEW r \in Token, Newest(r), issued[r] # l PROVE Newest(r)'
  BY <1>2, <1>5, <1>6 DEF Newest, SameLogin
<1>7. Newest(n)'
  BY <1>2 DEF Newest, Token
<1> QED BY <1>1, <1>2, <1>4, <1>5, <1>6, <1>7

LEMMA LoginKeeps ==
    ASSUME TypeOK, AllKnown, Chains, Undelivered, NEW t \in Tab, Login(t)
    PROVE  AllKnown' /\ Chains' /\ Undelivered'
<1>1. PICK n :
         /\ n = Len(issued) + 1 /\ Len(issued) < MaxTokens
         /\ issued' = Append(issued, n) /\ live' = live \cup {n}
         /\ disk' = n /\ mem' = [mem EXCEPT ![t] = n]
         /\ flight' = flight /\ call' = call
  BY DEF Login, setAuth
<1>2. /\ n \in 1 .. MaxTokens /\ n \notin Token /\ Token' = Token \cup {n}
      /\ \A r \in Nat : Known(r) => Known(r)' /\ r # n
      /\ \A r \in Token' : Known(issued[r])'
      /\ \A p, q \in Token : SameLogin(p, q)' <=> SameLogin(p, q)
      /\ \A r \in Token : SameLogin(r, n)' <=> issued[r] = n
      /\ \A r \in Token : Newest(r) /\ issued[r] # n => Newest(r)'
      /\ Newest(n)' /\ Len(issued') = n
  BY <1>1, Issued
<1>3. \A r \in Token : issued[r] # n
  BY <1>2, SessionAssumption DEF TypeOK, AllKnown, Token
<1>4. \A r \in Token : ~SameLogin(r, n)' /\ ~SameLogin(n, r)' /\ (Newest(r) => Newest(r)')
  BY <1>2, <1>3 DEF SameLogin
<1>5. AllKnown'
  <2>1. Known(n)'
    BY <1>2 DEF Known
  <2>2. /\ \A u \in Tab : mem[u] \in Nat /\ Known(mem[u])
        /\ \A w \in Slot : flight[w].token \in Nat /\ Known(flight[w].token)
        /\ \A c \in Call : call[c].kept \in Nat /\ Known(call[c].kept)
    BY SessionAssumption DEF TypeOK, AllKnown
  <2>3. \A u \in Tab : mem'[u] \in {n, mem[u]}
    BY <1>1 DEF TypeOK
  <2> QED BY <1>1, <1>2, <2>1, <2>2, <2>3 DEF AllKnown, Known
<1>6. Chains'
  <2>1. \A r \in live' : Newest(r)'
    BY <1>1, <1>2, <1>4 DEF Chains, TypeOK
  <2>2. ASSUME NEW w \in Slot, Revoked(w)
        PROVE  /\ flight[w].token \in Token
               /\ \A r \in live' : issued'[r] # issued'[flight[w].token]
               /\ \A v \in Slot \ {w} :
                     Revoked(v) => issued'[flight[v].token] # issued'[flight[w].token]
    <3>1. /\ flight[w].token \in Token
          /\ \A r \in live : r \in Token /\ ~SameLogin(r, flight[w].token)
          /\ \A v \in Slot \ {w} : Revoked(v) =>
                flight[v].token \in Token /\ ~SameLogin(flight[v].token, flight[w].token)
      BY <2>2 DEF Chains, TypeOK
    <3>2. PICK r0 \in Token : r0 = flight[w].token
      BY <3>1
    <3>3. /\ \A r \in live : issued'[r] # issued'[r0]
          /\ issued'[n] # issued'[r0]
          /\ \A v \in Slot \ {w} : Revoked(v) => issued'[flight[v].token] # issued'[r0]
      BY <1>2, <1>4, <3>1, <3>2 DEF SameLogin
    <3> QED BY <1>1, <3>1, <3>2, <3>3
  <2> QED BY <1>1, <1>2, <2>1, <2>2 DEF Chains, Revoked, SameLogin
<1>7. ASSUME NEW w \in Slot, flight[w].pc = "granted"
      PROVE  Fresh(w, flight[w].token)'
  <2>1. PICK g \in Token : g = flight[w].token /\ Fresh(w, g) /\ g # n
    BY <1>2, <1>7 DEF Undelivered, Fresh
  <2>2. Newest(g)'
    BY <1>4, <2>1 DEF Fresh
  <2>3. \A v \in Slot \ {w} : Revoked(v) => issued'[flight[v].token] # issued'[g]
    BY <1>2, <2>1 DEF Fresh, Chains, SameLogin
  <2>4. flight'[w].token = g /\ disk' # g /\ \A u \in Tab : mem'[u] # g
    BY <1>1, <2>1 DEF Fresh, TypeOK
  <2>5. /\ \A v \in Slot \ {w} : flight'[v].token # g
        /\ \A c \in Call : call'[c].kept # g
        /\ g \in Token'
    BY <1>1, <1>2, <2>1 DEF Fresh
  <2>6. Newest(flight[w].token)'
    BY <2>2, <2>4 DEF Newest, SameLogin
  <2> QED BY <1>1, <2>3, <2>4, <2>5, <2>6 DEF Fresh, Revoked, SameLogin
<1> QED BY <1>1, <1>5, <1>6, <1>7 DEF Undelivered

LEMMA RevokeTokenKeeps ==
    ASSUME TypeOK, AllKnown, Chains, Undelivered, NEW w \in Slot, RevokeToken(w)
    PROVE  AllKnown' /\ Chains' /\ Undelivered'
<1> DEFINE r == flight[w].token
<1>1. CASE r \notin live
  <2>1. \A v \in Slot : \/ flight'[v] = flight[v]
                        \/ flight'[v].pc = "refused" /\ flight'[v].token = NoToken
    BY <1>1, ConstantRecords DEF RevokeToken, TypeOK
  <2>2. QuietStep
    BY <1>1, <2>1 DEF RevokeToken, QuietStep, Held, tabs
  <2> QED BY <2>2, QuietStepKeeps
<1>2. CASE r \in live
  <2>1. /\ flight[w].pc = "verified"
        /\ flight' = [flight EXCEPT ![w] = Flight("revoked", r)]
        /\ live' = live \ {r}
        /\ UNCHANGED <<issued, disk, mem, call>>
    BY <1>2 DEF RevokeToken, tabs
  <2>2. /\ r \in Token /\ Newest(r) /\ Token' = Token
        /\ \A s : Newest(s)' <=> Newest(s)
        /\ \A p, q : SameLogin(p, q)' <=> SameLogin(p, q)
    BY <1>2, <2>1 DEF TypeOK, Chains, Newest, SameLogin, Token
  <2>3. /\ flight'[w].pc = "revoked" /\ flight'[w].token = r
        /\ \A v \in Slot \ {w} : flight'[v] = flight[v]
    BY <2>1 DEF TypeOK, Flight
  <2>4. \A s \in Token : Newest(s) /\ SameLogin(s, r) => s = r
    BY <2>2 DEF Newest, SameLogin, Token
  <2>5. AllKnown'
    <3>1. \A v \in Slot : flight'[v].token = flight[v].token
      BY <2>3
    <3> QED BY <2>1, <3>1 DEF AllKnown, Known, Token
  <2>6. Chains'
    <3>1. ASSUME NEW v \in Slot \ {w}, Revoked(v)
          PROVE  /\ flight[v].token \in Token
                 /\ ~SameLogin(r, flight[v].token) /\ ~SameLogin(flight[v].token, r)
                 /\ \A s \in live : ~SameLogin(s, flight[v].token)
                 /\ \A u \in Slot \ {v} :
                       Revoked(u) => ~SameLogin(flight[u].token, flight[v].token)
      BY <1>2, <3>1 DEF Chains, SameLogin
    <3>2. \A s \in live' : Newest(s)' /\ ~SameLogin(s, r)
      BY <2>1, <2>2, <2>4 DEF Chains, TypeOK
    <3> QED BY <2>1, <2>2, <2>3, <3>1, <3>2 DEF Chains, Revoked, SameLogin
  <2>7. ASSUME NEW v \in Slot, flight'[v].pc = "granted"
        PROVE  Fresh(v, flight[v].token)'
    <3>1. v # w /\ flight'[v] = flight[v]
      BY <2>3, <2>7
    <3>2. Fresh(v, flight[v].token)
      BY <3>1, <2>7 DEF Undelivered
    <3>3. ~SameLogin(r, flight[v].token)
      <4>1. r # flight[v].token /\ Newest(flight[v].token) /\ flight[v].token \in Token
        BY <3>1, <3>2 DEF Fresh
      <4> QED BY <4>1, <2>4 DEF SameLogin
    <3> QED BY <2>1, <2>2, <2>3, <3>1, <3>2, <3>3 DEF Fresh, Revoked, SameLogin
  <2> QED BY <2>5, <2>6, <2>7 DEF Undelivered
<1> QED BY <1>1, <1>2

LEMMA IssueTokenKeeps ==
    ASSUME TypeOK, AllKnown, Chains, Undelivered, NEW w \in Slot, IssueToken(w)
    PROVE  AllKnown' /\ Chains' /\ Undelivered'
<1>1. PICK n \in Nat, t \in Token :
         /\ n = Len(issued) + 1 /\ Len(issued) < MaxTokens
         /\ t = flight[w].token /\ Revoked(w)
         /\ issued' = Append(issued, issued[t]) /\ live' = live \cup {n}
         /\ flight' = [flight EXCEPT ![w] = Flight("granted", n)]
         /\ UNCHANGED <<disk, mem, call>>
  <2>1. Len(issued) + 1 \in Nat /\ Revoked(w) /\ flight[w].token \in Token
    BY DEF IssueToken, Chains, Revoked, TypeOK
  <2> QED BY <2>1 DEF IssueToken, tabs
<1> DEFINE l == issued[t]
<1>2. /\ n \in 1 .. MaxTokens /\ n \notin Token /\ Token' = Token \cup {n}
      /\ \A r \in Token : issued'[r] = issued[r]
      /\ \A r \in Nat : Known(r) => Known(r)' /\ r # n
      /\ \A r \in Token' : Known(issued[r])'
      /\ \A p, q \in Token : SameLogin(p, q)' <=> SameLogin(p, q)
      /\ \A r \in Token : SameLogin(r, n)' <=> issued[r] = l
      /\ \A r \in Token : Newest(r) /\ issued[r] # l => Newest(r)'
      /\ Newest(n)' /\ Len(issued') = n /\ issued'[n] = l
  <2>1. l \in Token
    BY SessionAssumption DEF AllKnown, Known, TypeOK, Token
  <2> HIDE DEF l
  <2> QED BY <1>1, <2>1, Issued DEF l
<1>3. /\ flight'[w].pc = "granted" /\ flight'[w].token = n
      /\ \A v \in Slot \ {w} : flight'[v] = flight[v]
  BY <1>1 DEF TypeOK, Flight
<1>4. /\ \A u \in Tab : mem[u] \in Nat /\ Known(mem[u])
      /\ \A v \in Slot : flight[v].token \in Nat /\ Known(flight[v].token)
      /\ \A c \in Call : call[c].kept \in Nat /\ Known(call[c].kept)
      /\ disk \in Nat /\ Known(disk)
  BY SessionAssumption DEF TypeOK, AllKnown
<1>5. AllKnown'
  <2>1. n \in Nat /\ Known(n)'
    BY <1>2 DEF Known
  <2>2. \A v \in Slot : Known(flight[v].token)'
    <3>1. \A v \in Slot : flight'[v].token \in {n, flight[v].token}
      BY <1>3
    <3> QED BY <3>1, <2>1, <1>2, <1>4 DEF Known
  <2> QED BY <1>1, <1>2, <1>4, <2>2 DEF AllKnown, Known
<1>6. /\ \A r \in live : r \in Token /\ issued[r] # l
      /\ \A v \in Slot \ {w} : Revoked(v) =>
            flight[v].token \in Token /\ issued[flight[v].token] # l
  BY <1>1 DEF Chains, SameLogin, TypeOK
<1>7. Chains'
  <2>1. \A r \in live' : Newest(r)'
    BY <1>1, <1>2, <1>6 DEF Chains
  <2>2. ASSUME NEW v \in Slot \ {w}, Revoked(v)
        PROVE  /\ flight[v].token \in Token
               /\ \A r \in live' : issued'[r] # issued'[flight[v].token]
               /\ \A u \in Slot \ {v, w} :
                     Revoked(u) => issued'[flight[u].token] # issued'[flight[v].token]
    <3>1. PICK r0 \in Token :
             /\ r0 = flight[v].token /\ issued[r0] # l /\ issued'[r0] = issued[r0]
             /\ \A r \in live : ~SameLogin(r, r0)
             /\ \A u \in Slot \ {v} :
                   Revoked(u) => flight[u].token \in Token /\ ~SameLogin(flight[u].token, r0)
      BY <1>2, <1>6, <2>2 DEF Chains
    <3>2. \A r \in live : issued'[r] # issued'[r0]
      BY <1>2, <1>6, <3>1 DEF SameLogin
    <3>3. ASSUME NEW u \in Slot \ {v, w}, Revoked(u)
          PROVE  issued'[flight[u].token] # issued'[r0]
      BY <1>2, <3>1, <3>3 DEF SameLogin
    <3> QED BY <1>1, <1>2, <3>1, <3>2, <3>3
  <2>3. ASSUME NEW v \in Slot PROVE Revoked(v)' <=> Revoked(v) /\ v # w
    BY <1>3 DEF Revoked
  <2> QED BY <1>2, <1>3, <2>1, <2>2, <2>3 DEF Chains, SameLogin
<1>8. ASSUME NEW v \in Slot \ {w}, flight[v].pc = "granted"
      PROVE  Fresh(v, flight[v].token)'
  <2>1. PICK g \in Token : g = flight[v].token /\ Fresh(v, g) /\ g # n /\ issued[g] # l
    BY <1>1, <1>2, <1>8 DEF Undelivered, Fresh, SameLogin
  <2>2. Newest(g)'
    BY <1>2, <2>1 DEF Fresh
  <2>3. ASSUME NEW u \in Slot \ {v}
        PROVE  flight'[u].token # g /\ (Revoked(u)' => issued'[flight'[u].token] # issued'[g])
    <3>1. CASE u = w
      BY <1>3, <2>1, <3>1 DEF Revoked
    <3>2. CASE u # w
      BY <1>2, <1>3, <1>6, <2>1, <3>2 DEF Fresh, Revoked, SameLogin
    <3> QED BY <3>1, <3>2
  <2>4. flight'[v].token = g
    BY <1>3, <2>1
  <2>5. Newest(flight[v].token)'
    BY <2>2, <2>4 DEF Newest, SameLogin
  <2>6. /\ g \in Token' /\ disk' # g
        /\ \A u \in Tab : mem'[u] # g
        /\ \A c \in Call : call'[c].kept # g
    BY <1>1, <1>2, <2>1 DEF Fresh
  <2> QED BY <2>3, <2>4, <2>5, <2>6 DEF Fresh, SameLogin
<1>9. Fresh(w, flight[w].token)'
  <2>1. Newest(flight[w].token)'
    BY <1>2, <1>3 DEF Newest, SameLogin
  <2>2. ASSUME NEW v \in Slot \ {w}
        PROVE  flight'[v].token # n /\ (Revoked(v)' => issued'[flight'[v].token] # issued'[n])
    BY <1>2, <1>3, <1>4, <1>6 DEF Revoked
  <2>3. /\ n \in Token' /\ disk' # n
        /\ \A u \in Tab : mem'[u] # n
        /\ \A c \in Call : call'[c].kept # n
    BY <1>1, <1>2, <1>4
  <2>4. flight'[w].token = n
    BY <1>3
  <2> QED BY <2>1, <2>2, <2>3, <2>4 DEF Fresh, SameLogin
<1>10. \A v \in Slot : flight'[v].pc = "granted" => v = w \/ flight[v].pc = "granted"
  BY <1>3
<1> QED BY <1>5, <1>7, <1>8, <1>9, <1>10 DEF Undelivered

LEMMA GrantKeeps ==
    ASSUME TypeOK, AllKnown, Chains, Undelivered, NEW t \in Tab, NEW o \in Origin,
           EndRefresh(t, o), flight[<<t, o>>].pc = "granted"
    PROVE  AllKnown' /\ Chains' /\ Undelivered'
<1> DEFINE w == <<t, o>>
<1>1. PICK g \in Token : /\ w \in Slot /\ g = flight[w].token /\ Fresh(w, g)
                         /\ disk' = g /\ mem' = [mem EXCEPT ![t] = g]
                         /\ flight' = [flight EXCEPT ![w] = NoFlight]
                         /\ UNCHANGED <<issued, live>>
  BY DEF EndRefresh, setAuth, server, Slot, Undelivered, Fresh
<1>2. \A c \in Call : call'[c].kept \in {NoToken, call[c].kept}
  <2>1. \A c \in Call : call'[c] \in {call[c], NoCall, [call[c] EXCEPT !.pc = "sent"]}
    BY DEF EndRefresh, TypeOK
  <2>2. ASSUME NEW c \in Call PROVE [call[c] EXCEPT !.pc = "sent"].kept = call[c].kept
    <3>1. call[c] \in Calls
      BY DEF TypeOK, Calls
    <3> QED BY <3>1 DEF Calls
  <2> QED BY <2>1, <2>2, ConstantRecords
<1>3. /\ flight'[w] = NoFlight
      /\ \A v \in Slot \ {w} : flight'[v] = flight[v]
      /\ \A u \in Tab : mem'[u] \in {g, mem[u]}
  BY <1>1 DEF TypeOK
<1>4. /\ Token' = Token /\ Len(issued') = Len(issued) /\ Len(issued) \in Nat
      /\ \A p, q : SameLogin(p, q)' <=> SameLogin(p, q)
      /\ \A r : Newest(r)' <=> Newest(r)
  BY <1>1 DEF TypeOK, Token, SameLogin, Newest
<1>5. AllKnown'
  BY <1>1, <1>2, <1>3, <1>4, ConstantRecords DEF AllKnown, Known, NoToken, Token
<1>6. \A v \in Slot : Revoked(v)' <=> Revoked(v) /\ v # w
  BY <1>3, ConstantRecords DEF Revoked
<1>7. Chains'
  BY <1>1, <1>3, <1>4, <1>6 DEF Chains, SameLogin
<1>8. ASSUME NEW v \in Slot, flight'[v].pc = "granted"
      PROVE  Fresh(v, flight[v].token)'
  <2>1. v # w /\ flight'[v] = flight[v]
    BY <1>3, <1>8, ConstantRecords
  <2>2. PICK h \in Token : h = flight[v].token /\ Fresh(v, h)
    BY <1>8, <2>1 DEF Undelivered, Fresh
  <2>3. h # g /\ h # NoToken
    BY <1>1, <2>1, <2>2 DEF Fresh, Token, NoToken
  <2>4. /\ disk' # h
        /\ \A u \in Tab : mem'[u] # h
        /\ \A c \in Call : call'[c].kept # h
    BY <1>1, <1>2, <1>3, <2>2, <2>3 DEF Fresh
  <2>5. ASSUME NEW u \in Slot \ {v}
        PROVE  flight'[u].token # h /\ (Revoked(u)' => ~SameLogin(flight[u].token, h)')
    <3>1. CASE u = w
      BY <1>3, <1>6, <2>3, <3>1, ConstantRecords
    <3>2. CASE u # w
      BY <1>1, <1>3, <1>6, <2>2, <3>2 DEF Fresh, SameLogin
    <3> QED BY <3>1, <3>2
  <2>6. Newest(flight[v].token)'
    BY <1>4, <2>1, <2>2 DEF Fresh, Newest, SameLogin
  <2> QED BY <1>4, <2>1, <2>2, <2>4, <2>5, <2>6 DEF Fresh, SameLogin
<1> QED BY <1>5, <1>7, <1>8 DEF Undelivered

LEMMA ClosePageKeeps ==
    ASSUME TypeOK, AllKnown, Chains, Undelivered, NEW t \in Tab, ClosePage(t)
    PROVE  AllKnown' /\ Chains' /\ Undelivered'
<1>1. /\ UNCHANGED <<issued, live, disk>>
      /\ \A u \in Tab : mem'[u] \in {NoToken, mem[u]}
      /\ \A c \in Call : call'[c].kept \in {NoToken, call[c].kept}
  BY ConstantRecords DEF ClosePage, server, TypeOK
<1>2. PICK from \in [Slot -> Slot] :
         /\ \A v \in Slot : flight'[v] = NoFlight \/ flight'[v] = flight[from[v]]
         /\ \A u, v \in Slot : from[u] = from[v] =>
               u = v \/ flight'[u] = NoFlight \/ flight'[v] = NoFlight
  BY ClosedPage
<1>3. /\ Token' = Token /\ Len(issued') = Len(issued) /\ Len(issued) \in Nat
      /\ \A p, q : SameLogin(p, q)' <=> SameLogin(p, q)
      /\ \A r : Newest(r)' <=> Newest(r)
  BY <1>1 DEF TypeOK, Token, SameLogin, Newest
<1>4. AllKnown'
  BY <1>1, <1>2, <1>3, ConstantRecords DEF AllKnown, Known, NoToken, Token
<1>5. \A v \in Slot : flight'[v].pc \in {"revoked", "granted"} =>
         flight'[v] = flight[from[v]] /\ flight'[v] # NoFlight
  BY <1>2, ConstantRecords
<1>6. Chains'
  <2>1. \A r \in live' : Newest(r)'
    BY <1>1, <1>3 DEF Chains
  <2>2. ASSUME NEW v \in Slot, Revoked(v)'
        PROVE  /\ Revoked(from[v]) /\ flight'[v].token = flight[from[v]].token
               /\ flight'[v] # NoFlight
    BY <1>5, <2>2 DEF Revoked
  <2>3. ASSUME NEW v \in Slot, Revoked(v)', NEW u \in Slot \ {v}, Revoked(u)'
        PROVE  ~SameLogin(flight[u].token, flight[v].token)'
    <3>1. from[u] # from[v] /\ from[u] \in Slot /\ from[v] \in Slot
      BY <1>2, <2>2, <2>3
    <3> QED BY <1>1, <2>2, <2>3, <3>1 DEF Chains, SameLogin
  <2> QED BY <1>1, <1>3, <2>1, <2>2, <2>3 DEF Chains, SameLogin
<1>7. ASSUME NEW v \in Slot, flight'[v].pc = "granted"
      PROVE  Fresh(v, flight[v].token)'
  <2>1. PICK h \in Token : /\ h = flight'[v].token /\ flight'[v] # NoFlight
                           /\ h = flight[from[v]].token /\ Fresh(from[v], h)
    BY <1>2, <1>5, <1>7 DEF Undelivered, Fresh
  <2>2. h # NoToken
    BY DEF Token, NoToken
  <2>3. ASSUME NEW u \in Slot \ {v}
        PROVE  flight'[u].token # h /\ (Revoked(u)' => ~SameLogin(flight[u].token, h)')
    <3>1. CASE flight'[u] = NoFlight
      BY <2>2, <3>1, ConstantRecords DEF Revoked
    <3>2. CASE flight'[u] # NoFlight
      <4>1. from[u] \in Slot \ {from[v]} /\ flight'[u] = flight[from[u]]
        BY <1>2, <2>1, <3>2
      <4> QED BY <1>1, <2>1, <4>1 DEF Fresh, Revoked, SameLogin
    <3> QED BY <3>1, <3>2
  <2>4. Newest(flight[v].token)'
    BY <1>3, <2>1 DEF Fresh, Newest, SameLogin
  <2> QED BY <1>1, <1>3, <2>1, <2>2, <2>3, <2>4 DEF Fresh, SameLogin
<1> QED BY <1>4, <1>6, <1>7 DEF Undelivered

-----------------------------------------------------------------------------
LEMMA EffectsInTab ==
    ASSUME TypeOK, EffectsPending, NEW t \in Tab, TabNext(t)
    PROVE  EffectsPending'
<1>0. /\ \A u \in Tab, o \in Origin : <<u, o>> \in Slot
      /\ \A u \in Tab : toInit[u] \subseteq Initializers
      /\ Initializers \subseteq Origin /\ Call \subseteq Tab \X Nat
  BY SessionAssumption DEF Slot, Origin, TypeOK
<1>1. CASE OpenPage(t)
  BY <1>0, <1>1 DEF OpenPage, EffectsPending, TypeOK
<1>2. CASE ClosePage(t)
  <2>1. /\ \A o \in Origin : flight'[<<t, o>>].pc = "idle"
        /\ \A u \in Tab \ {t}, o \in Origin : flight'[<<u, o>>] = flight[<<u, o>>]
    BY <1>2, ClosedPage, ConstantRecords
  <2>2. /\ open' = open \ {t} /\ toInit' = [toInit EXCEPT ![t] = {}]
        /\ \A c \in Call : \/ c[1] = t /\ call'[c].pc = "idle"
                           \/ c[1] # t /\ call'[c] = call[c]
    BY <1>2 DEF ClosePage, NoCall
  <2> QED BY <1>0, <2>1, <2>2 DEF EffectsPending, TypeOK
<1>3. ASSUME NEW o \in Initializers, initialize(t, o) PROVE EffectsPending'
  <2>1. \A v \in Slot \ {<<t, o>>} : flight'[v] = flight[v]
    BY <1>3 DEF initialize, StartRefresh, TypeOK, setAuth
  <2>2. t \in open /\ toInit' = [toInit EXCEPT ![t] = @ \ {o}] /\ UNCHANGED <<open, call>>
    BY <1>3 DEF initialize, EffectsPending
  <2>3. ASSUME NEW u \in Tab, NEW p \in Origin, <<u, p>> # <<t, o>>
        PROVE  flight'[<<u, p>>] = flight[<<u, p>>]
    BY <1>0, <2>1, <2>3
  <2>4. ASSUME NEW u \in Tab, NEW p \in toInit'[u]
        PROVE  p \in toInit[u] /\ <<u, p>> # <<t, o>> /\ p \in Origin
    BY <1>0, <2>2, <2>4 DEF TypeOK
  <2>5. ASSUME NEW u \in Tab, u \notin open
        PROVE  toInit'[u] = {} /\ \A p \in Origin : flight'[<<u, p>>].pc = "idle"
    <3>1. u # t /\ toInit[u] = {} /\ \A p \in Origin : flight[<<u, p>>].pc = "idle"
      BY <2>2, <2>5 DEF EffectsPending
    <3> QED BY <2>2, <2>3, <3>1 DEF TypeOK
  <2> QED BY <2>2, <2>3, <2>4, <2>5 DEF EffectsPending
<1>4. ASSUME NEW o \in Origin, EndRefresh(t, o) PROVE EffectsPending'
  <2>1. \A v \in Slot : flight'[v].pc \in {"idle", flight[v].pc}
    BY <1>4, ConstantRecords DEF EndRefresh, TypeOK
  <2>2. ASSUME NEW c \in Call PROVE call[c].pc = "idle" => call'[c].pc = "idle"
    BY <1>4 DEF EndRefresh, Woken, Waiting
  <2> QED BY <1>0, <1>4, <2>1, <2>2 DEF EndRefresh, EffectsPending
<1>5. CASE Login(t) \/ StartLogout(t) \/ RevokeLogin(t) \/ RevokeAll(t) \/ SignOut(t)
  BY <1>5 DEF Login, StartLogout, RevokeLogin, RevokeAll, SignOut, tabs, EffectsPending
<1> QED BY <1>1, <1>2, <1>3, <1>4, <1>5 DEF TabNext

LEMMA EffectsInRefresh ==
    ASSUME TypeOK, EffectsPending, NEW w \in Slot, RefreshNext(w)
    PROVE  EffectsPending'
<1>1. \A t \in Tab, o \in Origin : <<t, o>> \in Slot /\ <<t, o>> \notin Stray
  BY SessionAssumption DEF Slot, Origin
<1>2. \A v \in Slot : flight[v].pc = "idle" => flight'[v].pc = "idle"
  BY DEF RefreshNext, VerifyToken, RevokeToken, IssueToken, BreakRefresh, DropAnswer,
         TypeOK, Unanswered, Answered
<1>3. UNCHANGED <<open, toInit, call>>
  BY DEF RefreshNext, VerifyToken, RevokeToken, IssueToken, BreakRefresh, DropAnswer, tabs
<1>4. \A t \in Tab : toInit[t] \subseteq Origin
  BY DEF TypeOK, Origin
<1> QED BY <1>1, <1>2, <1>3, <1>4 DEF EffectsPending

LEMMA EffectsInCall ==
    ASSUME TypeOK, EffectsPending, NEW c \in Call, CallNext(c)
    PROVE  EffectsPending'
<1>1. c[1] \in Tab /\ c[1] \in open
  <2>1. call[c].pc = "idle" => Usable(c[1])
    BY DEF CallNext, SendCall, Succeed, Fail, Unauthorized
  <2> QED BY <2>1, SessionAssumption DEF EffectsPending, Usable
<1>2. UNCHANGED <<open, toInit>> /\ \A d \in Call \ {c} : call'[d] = call[d]
  BY DEF CallNext, SendCall, Succeed, Fail, Unauthorized, tabs, TypeOK
<1>3. \A v \in Slot \ {<<c[1], "interceptor">>} : flight'[v] = flight[v]
  BY DEF CallNext, SendCall, Succeed, Fail, Unauthorized, StartRefresh, TypeOK
<1>4. ASSUME NEW t \in Tab, NEW o \in Origin, t \notin open \/ o \in toInit[t]
      PROVE  flight'[<<t, o>>] = flight[<<t, o>>]
  <2>1. <<t, o>> # <<c[1], "interceptor">> /\ <<t, o>> \in Slot
    BY <1>1, <1>4, SessionAssumption DEF TypeOK, Slot
  <2> QED BY <2>1, <1>3
<1>5. \A t \in Tab : toInit[t] \subseteq Origin
  BY DEF TypeOK, Origin
<1> QED BY <1>1, <1>2, <1>4, <1>5 DEF EffectsPending

-----------------------------------------------------------------------------
\* The inductive invariant: one step of any kind keeps it.
LEMMA SessionStep ==
    ASSUME SessionInv, [Next]_vars
    PROVE  SessionInv'
<1> USE DEF SessionInv
<1>1. CASE UNCHANGED vars
  BY <1>1 DEF vars, server, tabs, TypeOK, Token, EffectsPending, AllKnown, Known, Chains,
              Undelivered, Fresh, Revoked, SameLogin, Newest
<1>2. ASSUME NEW t \in Tab, TabNext(t) PROVE SessionInv'
  <2>1. TypeOK' /\ EffectsPending'
    BY <1>2, TypeInTab, EffectsInTab
  <2>2. CASE ClosePage(t)
    BY <2>1, <2>2, ClosePageKeeps
  <2>3. CASE Login(t)
    BY <2>1, <2>3, LoginKeeps
  <2>4. ASSUME NEW o \in Origin, EndRefresh(t, o), flight[<<t, o>>].pc = "granted"
        PROVE  SessionInv'
    BY <2>1, <2>4, GrantKeeps
  <2>5. CASE \/ OpenPage(t)
             \/ \E o \in Initializers : initialize(t, o)
             \/ \E o \in Origin : EndRefresh(t, o) /\ flight[<<t, o>>].pc # "granted"
             \/ StartLogout(t) \/ RevokeLogin(t) \/ RevokeAll(t) \/ SignOut(t)
    <3>1. QuietStep
      BY <2>5, QuietInTab
    <3> QED BY <3>1, <2>1, QuietStepKeeps
  <2> QED BY <1>2, <2>2, <2>3, <2>4, <2>5 DEF TabNext
<1>3. ASSUME NEW w \in Slot, RefreshNext(w) PROVE SessionInv'
  <2>1. TypeOK' /\ EffectsPending'
    BY <1>3, TypeInRefresh, EffectsInRefresh DEF Chains
  <2>2. CASE RevokeToken(w)
    BY <2>1, <2>2, RevokeTokenKeeps
  <2>3. CASE IssueToken(w)
    BY <2>1, <2>3, IssueTokenKeeps
  <2>4. CASE VerifyToken(w) \/ BreakRefresh(w) \/ DropAnswer(w)
    BY <2>1, <2>4, QuietInRefresh, QuietStepKeeps
  <2> QED BY <1>3, <2>2, <2>3, <2>4 DEF RefreshNext
<1>4. ASSUME NEW c \in Call, CallNext(c) PROVE SessionInv'
  BY <1>4, TypeInCall, EffectsInCall, QuietInCall, QuietStepKeeps
<1> QED BY <1>1, <1>2, <1>3, <1>4 DEF Next

LEMMA SessionInit == Init => SessionInv
<1> SUFFICES ASSUME Init PROVE SessionInv
  OBVIOUS
<1>1. Token = {}
  BY DEF Init, Token
<1>2. TypeOK
  BY SessionAssumption, ConstantRecords
     DEF Init, TypeOK, NoToken, Token, Flights, Calls, Exits
<1>3. EffectsPending /\ AllKnown
  BY <1>1, SessionAssumption, ConstantRecords
     DEF Init, EffectsPending, AllKnown, Known, NoToken, Slot, Origin, NoCall
<1>4. Chains /\ Undelivered
  BY ConstantRecords DEF Init, Chains, Undelivered, Revoked
<1> QED BY <1>2, <1>3, <1>4 DEF SessionInv

\* SessionInv holds for every number of tabs, requests and lost answers: the
\* tokens of a login are a chain of which only the newest can be used, and a
\* granted token is nobody's but the page's that waits for it.
THEOREM SessionInvariant == Spec => []SessionInv
<1> QED BY SessionInit, SessionStep, PTL DEF Spec

\* The variables keep their types, so that no more tokens are issued than the
\* bound allows and every active token is an issued one (auth-store.ts).
THEOREM SessionTypeCorrect == Spec => []TypeOK
<1>1. SessionInv => TypeOK
  BY DEF SessionInv
<1> QED BY <1>1, SessionInvariant, PTL

\* Of a login's tokens at most one can be used, whatever the tabs do at the
\* same time (refresh in auth_usecase.py).
THEOREM OneUsableToken == Spec => []OneTokenPerLogin
<1>1. SessionInv => OneTokenPerLogin
  BY SessionAssumption
     DEF SessionInv, TypeOK, Chains, Newest, SameLogin, OneTokenPerLogin, Token
<1> QED BY <1>1, SessionInvariant, PTL

\* Where the refresh token of a store comes from in one step.
LEMMA StoreChanges ==
    ASSUME SessionInv, [Next]_vars, NEW t \in open \cap open', "save_captured" \notin Kinds
    PROVE  \/ mem'[t] \in {NoToken, mem[t]}
           \/ mem[t] = NoToken
           \/ /\ issued' = issued /\ mem'[t] \in Token /\ Newest(mem'[t])
<1> USE DEF SessionInv
<1>0. t \in Tab /\ open \subseteq Tab
  BY DEF TypeOK
<1>1. CASE UNCHANGED vars
  BY <1>1 DEF vars, tabs
<1>2. ASSUME NEW u \in Tab, TabNext(u), mem'[t] # mem[t], mem'[t] # NoToken, mem[t] # NoToken
      PROVE  issued' = issued /\ mem'[t] \in Token /\ Newest(mem'[t])
  <2>1. ASSUME NEW r, setAuth(u, r) PROVE u = t /\ mem'[t] = r
    BY <1>0, <1>2, <2>1 DEF setAuth, TypeOK
  <2>2. ~OpenPage(u) /\ ~ClosePage(u)
    BY <1>0, <1>2 DEF OpenPage, ClosePage, TypeOK
  <2>3. ~Login(u) /\ ~SignOut(u) /\ \A o \in Initializers : ~initialize(u, o)
    BY <1>2, <2>1 DEF Login, SignOut, clearAuth, initialize
  <2>4. ~StartLogout(u) /\ ~RevokeLogin(u) /\ ~RevokeAll(u)
    BY <1>2 DEF StartLogout, RevokeLogin, RevokeAll, tabs
  <2>5. PICK o \in Origin : EndRefresh(u, o)
    BY <1>2, <2>2, <2>3, <2>4 DEF TabNext
  <2>6. /\ flight[<<u, o>>].pc = "granted" /\ mem'[t] = flight[<<u, o>>].token
        /\ issued' = issued /\ <<u, o>> \in Slot
    BY <1>2, <2>1, <2>5 DEF EndRefresh, clearAuth, server, Slot
  <2> QED BY <2>6 DEF Undelivered, Fresh
<1>3. ASSUME NEW w \in Slot, RefreshNext(w) PROVE mem' = mem
  BY <1>3 DEF RefreshNext, VerifyToken, RevokeToken, IssueToken, BreakRefresh, DropAnswer, tabs
<1>4. ASSUME NEW c \in Call, CallNext(c) PROVE mem' = mem
  <2>1. ASSUME Succeed(c) PROVE mem' = mem
    <3>1. call[c].kind \in Kinds \cup {"none"} /\ c[1] \in Tab
      BY SessionAssumption DEF TypeOK
    <3>2. KeptRefresh(c) = mem[c[1]]
      BY <3>1 DEF KeptRefresh
    <3> QED BY <2>1, <3>1, <3>2 DEF Succeed, setAuth, TypeOK
  <2> QED BY <1>4, <2>1 DEF CallNext, SendCall, Fail, Unauthorized, tabs
<1> QED BY <1>1, <1>2, <1>3, <1>4 DEF Next

\* No page stores a refresh token again once it has stored a later one of the
\* same login, provided no form keeps the refresh token it was rendered with
\* (tryRefresh in auth-store.ts; the forms of the participants' application).
THEOREM OldTokensStayDiscarded ==
    ASSUME "save_captured" \notin Kinds
    PROVE  Spec => OldTokenDiscarded
<1>1. SessionInv /\ [Next]_vars =>
        [\A t \in open \cap open' :
            LET r == mem[t]
                s == mem'[t]
            IN  r # NoToken /\ s # NoToken /\ issued'[r] = issued'[s] => r <= s]_vars
  <2> SUFFICES ASSUME SessionInv, [Next]_vars, NEW t \in open \cap open',
                      mem[t] # NoToken, mem'[t] # NoToken,
                      issued'[mem[t]] = issued'[mem'[t]]
               PROVE  mem[t] <= mem'[t]
    OBVIOUS
  <2>1. mem[t] \in Token
    BY SessionAssumption DEF SessionInv, TypeOK, AllKnown, Known, Token, NoToken
  <2>2. CASE mem'[t] = mem[t]
    BY <2>1, <2>2 DEF Token
  <2>3. CASE issued' = issued /\ Newest(mem'[t])
    BY <2>1, <2>3 DEF Newest, SameLogin
  <2> QED BY <2>2, <2>3, StoreChanges
<1> QED BY <1>1, SessionInvariant, PTL DEF Spec, OldTokenDiscarded

-----------------------------------------------------------------------------
\* Steps that revoke nothing and forget no revocation renew the same logins.
LEMMA SameRenewing ==
    ASSUME issued' = issued,
           \A w \in Slot : Revoked(w)' => \E v \in Slot : Revoked(v) /\ flight'[w] = flight[v],
           \A w \in Slot : Revoked(w) => \E v \in Slot : flight'[v] = flight[w]
    PROVE  Renewing' = Renewing
  BY DEF Renewing, Revoked

LEMMA ChainInTab ==
    ASSUME SessionInv, NEW t \in Tab, TabNext(t)
    PROVE  Chain!Next \/ UNCHANGED Chain!chainVars
<1> USE DEF SessionInv
<1>1. CASE ClosePage(t)
  <2>1. PICK from \in [Slot -> Slot] :
           /\ \A w \in Slot : flight'[w] = NoFlight \/ flight'[w] = flight[from[w]]
           /\ \A w \in Slot : Revoked(w) => \E v \in Slot : flight'[v] = flight[w]
    BY <1>1, ClosedPage
  <2>2. ASSUME NEW w \in Slot, Revoked(w)'
        PROVE  Revoked(from[w]) /\ flight'[w] = flight[from[w]]
    BY <2>1, <2>2, ConstantRecords DEF Revoked
  <2> QED BY <1>1, <2>1, <2>2, SameRenewing DEF ClosePage, server, Chain!chainVars
<1>2. CASE Login(t)
  <2>1. \A w \in Slot : Revoked(w) => issued'[flight[w].token] = issued[flight[w].token]
    BY <1>2, IssueTyped DEF Login, Chains, Revoked, TypeOK, Token
  <2>2. Renewing' = Renewing
    BY <1>2, <2>1 DEF Login, Renewing, Revoked
  <2> QED BY <1>2, <2>2 DEF Login, Chain!Next, Chain!Start
<1>3. ASSUME NEW o \in Initializers, initialize(t, o) PROVE UNCHANGED Chain!chainVars
  <2>1. <<t, o>> \in Slot /\ flight[<<t, o>>].pc = "idle"
    BY <1>3 DEF initialize, EffectsPending, Slot, Origin
  <2>2. \A w \in Slot : \/ flight'[w] = flight[w]
                        \/ w = <<t, o>> /\ flight'[w].pc = "sent"
    BY <1>3, StartedRefresh DEF initialize
  <2>3. Renewing' = Renewing
    BY <1>3, <2>1, <2>2, SameRenewing DEF initialize, server, Revoked
  <2> QED BY <1>3, <2>3 DEF initialize, server, Chain!chainVars
<1>4. ASSUME NEW o \in Origin, EndRefresh(t, o) PROVE UNCHANGED Chain!chainVars
  <2>1. <<t, o>> \in Slot /\ flight[<<t, o>>].pc \notin {"revoked"}
    BY <1>4 DEF EndRefresh, Slot, Answered
  <2>2. \A w \in Slot : \/ flight'[w] = flight[w]
                        \/ w = <<t, o>> /\ flight'[w].pc = "idle"
    BY <1>4, ConstantRecords DEF EndRefresh, TypeOK
  <2>3. Renewing' = Renewing
    BY <1>4, <2>1, <2>2, SameRenewing DEF EndRefresh, server, Revoked
  <2> QED BY <1>4, <2>3 DEF EndRefresh, server, Chain!chainVars
<1>5. CASE OpenPage(t) \/ StartLogout(t) \/ SignOut(t)
  BY <1>5 DEF OpenPage, StartLogout, SignOut, server, Chain!chainVars, Renewing
<1>6. CASE RevokeLogin(t)
  <2>1. Renewing' = Renewing
    BY <1>6 DEF RevokeLogin, Renewing
  <2>2. CASE exit[t].token \in live
    BY <1>6, <2>1, <2>2 DEF RevokeLogin, Chain!Next, Chain!End
  <2>3. CASE exit[t].token \notin live
    BY <1>6, <2>1, <2>3 DEF RevokeLogin, Chain!chainVars
  <2> QED BY <2>2, <2>3
<1>7. CASE RevokeAll(t)
  <2>1. Renewing' = Renewing /\ issued' = issued /\ live' = live \ live
    BY <1>7 DEF RevokeAll, Renewing
  <2> QED BY <2>1 DEF Chain!Next, Chain!End
<1> QED BY <1>1, <1>2, <1>3, <1>4, <1>5, <1>6, <1>7 DEF TabNext

LEMMA ChainInRefresh ==
    ASSUME SessionInv, NEW w \in Slot, RefreshNext(w)
    PROVE  Chain!Next \/ UNCHANGED Chain!chainVars
<1> USE DEF SessionInv
<1>1. CASE RevokeToken(w) /\ flight[w].token \in live
  <2>1. PICK r \in live : /\ r = flight[w].token /\ flight[w].pc = "verified"
                          /\ issued' = issued /\ live' = live \ {r}
                          /\ flight' = [flight EXCEPT ![w] = Flight("revoked", r)]
    BY <1>1 DEF RevokeToken
  <2>2. /\ flight'[w].pc = "revoked" /\ flight'[w].token = r
        /\ \A v \in Slot \ {w} : flight'[v] = flight[v]
    BY <2>1 DEF TypeOK, Flight
  <2>3. Renewing' = Renewing \cup {issued[r]}
    BY <2>1, <2>2 DEF Renewing
  <2>4. Chain!Take(r)
    BY <2>1, <2>3 DEF Chain!Take
  <2> QED BY <2>1, <2>4 DEF Chain!Next
<1>2. CASE IssueToken(w)
  <2>1. PICK r \in Token : /\ r = flight[w].token /\ Revoked(w)
                           /\ issued' = Append(issued, issued[r])
                           /\ Len(issued) < MaxTokens
                           /\ live' = live \cup {Len(issued) + 1}
    BY <1>2 DEF IssueToken, Chains, Revoked
  <2>2. /\ flight'[w].pc = "granted"
        /\ \A v \in Slot \ {w} : flight'[v] = flight[v]
    BY <1>2 DEF IssueToken, TypeOK, Flight
  <2>3. \A s \in Token : issued'[s] = issued[s]
    <3>1. issued \in Seq(1 .. MaxTokens) /\ r \in 1 .. Len(issued) /\ Len(issued) \in Nat
      BY DEF TypeOK, Token
    <3>2. issued[r] \in 1 .. MaxTokens
      BY <3>1, SessionAssumption
    <3> QED BY <2>1, <3>1, <3>2, IssueTyped
  <2>4. \A v \in Slot \ {w} : Revoked(v) =>
           flight[v].token \in Token /\ issued[flight[v].token] # issued[r]
    BY <2>1 DEF Chains, SameLogin
  <2>5. Renewing' = Renewing \ {issued[r]}
    <3>1. \A v \in Slot : Revoked(v)' <=> Revoked(v) /\ v # w
      BY <2>2 DEF Revoked
    <3>2. Renewing = {issued[flight[v].token] : v \in {u \in Slot : Revoked(u)}}
      BY DEF Renewing, Revoked
    <3>3. Renewing' = {issued[flight[v].token] : v \in {u \in Slot : Revoked(u) /\ u # w}}
      <4>1. Renewing' = {issued'[flight'[v].token] : v \in {u \in Slot : Revoked(u)'}}
        BY DEF Renewing, Revoked
      <4>2. \A v \in Slot \ {w} : Revoked(v) =>
               issued'[flight'[v].token] = issued[flight[v].token]
        BY <2>2, <2>3, <2>4
      <4> QED BY <4>1, <4>2, <3>1
    <3> QED BY <2>1, <2>4, <3>2, <3>3
  <2>6. issued[r] \in Renewing
    BY <2>1 DEF Renewing, Revoked
  <2>7. Chain!Renew(issued[r])
    BY <2>1, <2>5 DEF Chain!Renew
  <2> QED BY <2>6, <2>7 DEF Chain!Next
<1>3. CASE BreakRefresh(w) /\ Revoked(w)
  <2>1. PICK r \in Token : r = flight[w].token
    BY <1>3 DEF Chains
  <2>2. /\ flight'[w].pc = "broken" /\ issued' = issued /\ live' = live
        /\ \A v \in Slot \ {w} : flight'[v] = flight[v]
    BY <1>3 DEF BreakRefresh, server, TypeOK, Flight
  <2>3. \A v \in Slot \ {w} : Revoked(v) => issued[flight[v].token] # issued[r]
    BY <1>3, <2>1 DEF Chains, SameLogin
  <2>4. issued[r] \in Renewing /\ Renewing' = Renewing \ {issued[r]}
    BY <1>3, <2>1, <2>2, <2>3 DEF Renewing, Revoked
  <2> QED BY <2>2, <2>4 DEF Chain!Next, Chain!Lose
<1>4. CASE \/ VerifyToken(w) \/ DropAnswer(w)
           \/ RevokeToken(w) /\ flight[w].token \notin live
           \/ BreakRefresh(w) /\ ~Revoked(w)
  <2>1. /\ issued' = issued /\ live' = live /\ ~Revoked(w)
        /\ flight'[w].pc # "revoked"
        /\ \A v \in Slot \ {w} : flight'[v] = flight[v]
    <3>1. \E f : /\ flight' = [flight EXCEPT ![w] = f] /\ f.pc # "revoked"
                 /\ ~Revoked(w) /\ issued' = issued /\ live' = live
      <4>1. CASE VerifyToken(w)
        <5>1. /\ Flight("verified", flight[w].token).pc # "revoked"
              /\ Refused.pc # "revoked"
          BY ConstantRecords DEF Flight
        <5> QED BY <4>1, <5>1 DEF VerifyToken, server, Revoked
      <4>2. CASE DropAnswer(w)
        BY <4>2, ConstantRecords DEF DropAnswer, server, Revoked, Answered
      <4>3. CASE RevokeToken(w) /\ flight[w].token \notin live
        <5>1. flight' = [flight EXCEPT ![w] = Refused] /\ live' = live
          BY <4>3 DEF RevokeToken
        <5> QED BY <4>3, <5>1, ConstantRecords DEF RevokeToken, Revoked
      <4>4. CASE BreakRefresh(w) /\ ~Revoked(w)
        BY <4>4, Flight("broken", NoToken).pc # "revoked" DEF BreakRefresh, server, Flight
      <4> QED BY <1>4, <4>1, <4>2, <4>3, <4>4
    <3> QED BY <3>1 DEF TypeOK
  <2>2. Renewing' = Renewing
    BY <2>1, SameRenewing DEF Revoked
  <2> QED BY <2>1, <2>2 DEF Chain!chainVars
<1> QED BY <1>1, <1>2, <1>3, <1>4 DEF RefreshNext

LEMMA ChainInCall ==
    ASSUME SessionInv, NEW c \in Call, CallNext(c)
    PROVE  UNCHANGED Chain!chainVars
<1>1. issued' = issued /\ live' = live
  BY DEF CallNext, SendCall, Succeed, Fail, Unauthorized, server
<1>2. ASSUME NEW w \in Slot, flight'[w] # flight[w]
      PROVE  flight[w].pc = "idle" /\ flight'[w].pc = "sent"
  <2>1. Unauthorized(c)
    BY <1>2 DEF CallNext, SendCall, Succeed, Fail, tabs
  <2> QED BY <1>2, <2>1, StartedRefresh DEF Unauthorized, SessionInv
<1>3. Renewing' = Renewing
  BY <1>1, <1>2, SameRenewing DEF Revoked
<1> QED BY <1>1, <1>3 DEF Chain!chainVars

\* Every step is a step of the chains, or none for them.
LEMMA ChainStep ==
    ASSUME SessionInv, [Next]_vars
    PROVE  Chain!Next \/ UNCHANGED Chain!chainVars
<1>1. UNCHANGED vars => UNCHANGED Chain!chainVars
  BY DEF vars, server, Chain!chainVars, Renewing
<1> QED BY <1>1, ChainInTab, ChainInRefresh, ChainInCall DEF Next

\* The tabs, the server and its answers implement LoginChain: in whatever order
\* refreshes, logins and logouts meet, each login is one chain of tokens, of
\* which the last at most can be used (auth_usecase.py, refresh).
THEOREM SessionImplementsChain == Spec => ImplementsLoginChain
<1>1. Init => Chain!Init
  BY ConstantRecords DEF Init, Chain!Init, Renewing
<1>2. SessionInv /\ [Next]_vars => [Chain!Next]_(Chain!chainVars)
  BY ChainStep
<1> QED BY <1>1, <1>2, SessionInvariant, PTL DEF Spec, ImplementsLoginChain, Chain!Spec

\* What a step of the chains can do to a login.
LEMMA ChainEndsForGood ==
    ASSUME SessionInv, SessionInv', Chain!Next, NEW l \in 1 .. MaxTokens, Ended(l)
    PROVE  Ended(l)'
<1>1. PICK s \in Token : issued[s] = l
  BY DEF Ended, Range, SessionInv, TypeOK, Token
<1>2. /\ l \in Range(issued)
      /\ l \notin Renewing
      /\ \A r \in live : issued[r] # l
  BY DEF Ended
<1>3. /\ issued \in Seq(1 .. MaxTokens) /\ issued' \in Seq(1 .. MaxTokens)
      /\ live \subseteq Token /\ l <= Len(issued)
      /\ Len(issued) \in Nat /\ MaxTokens \in Nat
  BY <1>1, SessionAssumption DEF SessionInv, TypeOK, AllKnown, Known
<1>4. /\ issued' = issued \/ \E x \in Nat \ {l} : issued' = Append(issued, x)
      /\ \A r \in live' \ live : r = Len(issued) + 1 /\ issued' # issued
      /\ l \notin Renewing'
  <2>1. ASSUME NEW x \in Nat, issued' = Append(issued, x) PROVE issued' # issued
    BY <2>1, <1>3
  <2>2. CASE Chain!Start
    BY <2>1, <2>2, <1>2, <1>3 DEF Chain!Start
  <2>3. CASE \E r \in live : Chain!Take(r)
    BY <2>3, <1>2 DEF Chain!Take
  <2>4. CASE (\E r \in live : Chain!End({r})) \/ Chain!End(live)
    BY <2>4, <1>2 DEF Chain!End
  <2>5. ASSUME NEW k \in Renewing, Chain!Renew(k)
        PROVE  \E x \in Nat \ {l} : /\ issued' = Append(issued, x)
                                    /\ live' = live \cup {Len(issued) + 1}
                                    /\ Renewing' = Renewing \ {x}
    <3>1. k \in Nat
      BY <1>3 DEF Renewing, SessionInv, Chains, Revoked, Token
    <3> QED BY <2>5, <3>1, <1>2 DEF Chain!Renew
  <2>6. CASE \E k \in Renewing : Chain!Lose(k)
    BY <2>6, <1>2 DEF Chain!Lose
  <2>7. CASE \E k \in Renewing : Chain!Renew(k)
    BY <2>1, <2>5, <2>7, <1>2
  <2> QED BY <2>2, <2>3, <2>4, <2>6, <2>7 DEF Chain!Next
<1>5. \A r \in Token : r \in Token' /\ issued'[r] = issued[r]
  <2>1. issued \in Seq(Nat)
    BY <1>3
  <2>2. \A x \in Nat : /\ Len(Append(issued, x)) = Len(issued) + 1
                      /\ \A r \in 1 .. Len(issued) : Append(issued, x)[r] = issued[r]
    BY <2>1
  <2>3. CASE issued' = issued
    BY <2>3 DEF Token
  <2>4. CASE \E x \in Nat \ {l} : issued' = Append(issued, x)
    BY <1>3, <2>2, <2>4 DEF Token
  <2> QED BY <1>4, <2>3, <2>4
<1>6. ASSUME issued' # issued PROVE issued'[Len(issued) + 1] # l
  <2>1. PICK x \in Nat \ {l} : issued' = Append(issued, x)
    BY <1>4, <1>6
  <2>2. issued \in Seq(Nat)
    BY <1>3
  <2> QED BY <2>1, <2>2
<1>7. \A r \in live' : issued'[r] # l
  BY <1>2, <1>3, <1>4, <1>5, <1>6
<1>8. l \in Range(issued)'
  BY <1>1, <1>3, <1>5 DEF Range, Token
<1> QED BY <1>4, <1>7, <1>8 DEF Ended

\* Logout, a change of password and a refresh that broke off are final: a refresh
\* that has read the token before does not bring its login back (auth_usecase.py,
\* logout and refresh; account_settings_usecase.py, change_password).
THEOREM LoginsStayEnded == Spec => LoginsEndForGood
<1>1. SessionInv /\ SessionInv' /\ [Next]_vars =>
        [\A l \in 1 .. MaxTokens : Ended(l) => Ended(l)']_vars
  <2> SUFFICES ASSUME SessionInv, SessionInv', [Next]_vars,
                      NEW l \in 1 .. MaxTokens, Ended(l)
               PROVE  Ended(l)'
    OBVIOUS
  <2>1. Chain!Next \/ UNCHANGED Chain!chainVars
    BY ChainStep
  <2> QED BY <2>1, ChainEndsForGood DEF Chain!chainVars, Ended
<1> QED BY <1>1, SessionInvariant, PTL DEF Spec, LoginsEndForGood

-----------------------------------------------------------------------------
\* A refresh the interceptor has begun ends in EndRefresh, which wakes every
\* request that awaits it, or with its page.
LEMMA WaitersKeepRefresh ==
    ASSUME SessionInv, WaitersHaveRefresh, [Next]_vars
    PROVE  WaitersHaveRefresh'
<1> SUFFICES ASSUME NEW c \in Call, call'[c].pc = "waiting"
             PROVE  flight'[<<c[1], "interceptor">>].pc # "idle"
  BY DEF WaitersHaveRefresh
<1> DEFINE t == c[1]
           w == <<t, "interceptor">>
<1>1. /\ t \in Tab /\ w \in Slot /\ w \notin Stray /\ "interceptor" \notin Initializers
      /\ \A u \in Tab, o \in Initializers : w # <<u, o>>
  BY SessionAssumption DEF Slot, Origin
<1>2. call[c].pc = "waiting" => flight[w].pc # "idle"
  BY DEF WaitersHaveRefresh
<1>3. TypeOK
  BY DEF SessionInv
<1> HIDE DEF t, w
<1>4. ASSUME NEW u \in Tab, TabNext(u) PROVE flight'[w].pc # "idle"
  <2>1. CASE ClosePage(u)
    <3>1. u # t
      BY <2>1 DEF ClosePage, NoCall, t
    <3>2. flight'[w] = flight[w]
      BY <2>1, <3>1, <1>1, ClosedPage DEF Origin, w
    <3> QED BY <2>1, <3>1, <3>2, <1>2 DEF ClosePage, t
  <2>2. ASSUME NEW o \in Initializers, initialize(u, o) PROVE flight'[w].pc # "idle"
    BY <2>2, <1>1, <1>2, <1>3, StartedRefresh DEF initialize
  <2>3. ASSUME NEW o \in Initializers, EndRefresh(u, o) PROVE flight'[w].pc # "idle"
    BY <2>3, <1>1, <1>2, <1>3 DEF EndRefresh, TypeOK
  <2>4. ASSUME EndRefresh(u, "interceptor") PROVE flight'[w].pc # "idle"
    <3>1. call'[c] = IF c \notin Woken(u) THEN call[c]
                     ELSE IF flight[<<u, "interceptor">>].pc = "granted"
                     THEN [call[c] EXCEPT !.pc = "sent"] ELSE NoCall
      BY <2>4, <1>1 DEF EndRefresh
    <3>2. c \notin Woken(u)
      BY <3>1, <1>3 DEF TypeOK, NoCall
    <3>3. u # t /\ call[c].pc = "waiting"
      BY <3>1, <3>2 DEF Woken, Waiting, t
    <3>4. w # <<u, "interceptor">>
      BY <3>3 DEF w
    <3> QED BY <2>4, <3>3, <3>4, <1>1, <1>2, <1>3 DEF EndRefresh, TypeOK
  <2>5. CASE \/ OpenPage(u) \/ Login(u) \/ StartLogout(u)
             \/ RevokeLogin(u) \/ RevokeAll(u) \/ SignOut(u)
    BY <2>5, <1>2 DEF OpenPage, Login, StartLogout, RevokeLogin, RevokeAll, SignOut
  <2> QED BY <1>4, <2>1, <2>2, <2>3, <2>4, <2>5 DEF TabNext, Origin
<1>5. ASSUME NEW v \in Slot, RefreshNext(v) PROVE flight'[w].pc # "idle"
  <2>1. call' = call
    BY <1>5 DEF RefreshNext, VerifyToken, RevokeToken, IssueToken, BreakRefresh, DropAnswer
  <2>2. CASE DropAnswer(v)
    BY <2>1, <2>2, <1>1, <1>2, <1>3 DEF DropAnswer, TypeOK
  <2>3. CASE VerifyToken(v) \/ RevokeToken(v) \/ IssueToken(v) \/ BreakRefresh(v)
    <3>1. \E f : flight' = [flight EXCEPT ![v] = f] /\ f.pc # "idle"
      BY <2>3, ConstantRecords DEF VerifyToken, RevokeToken, IssueToken, BreakRefresh, Flight
    <3> QED BY <2>1, <3>1, <1>1, <1>2, <1>3 DEF TypeOK
  <2> QED BY <1>5, <2>2, <2>3 DEF RefreshNext
<1>6. ASSUME NEW d \in Call, CallNext(d) PROVE flight'[w].pc # "idle"
  <2>1. CASE d = c
    <3>1. Unauthorized(c)
      BY <1>6, <2>1, <1>3 DEF CallNext, Succeed, Fail, SendCall, NoCall, TypeOK
    <3>2. CASE flight[w].pc # "idle"
      BY <3>1, <3>2, <1>3, StartedRefresh DEF Unauthorized, w, t
    <3>3. CASE flight[w].pc = "idle" /\ StartRefresh(w, mem[t])
      BY <3>3, <1>1, <1>3 DEF StartRefresh, Flight, TypeOK
    <3> QED BY <3>1, <3>2, <3>3, <1>3 DEF Unauthorized, NoCall, TypeOK, w, t
  <2>2. CASE d # c
    <3>1. call'[c] = call[c]
      BY <1>6, <2>2, <1>3 DEF CallNext, Succeed, Fail, SendCall, Unauthorized, TypeOK
    <3>2. CASE Unauthorized(d)
      BY <3>1, <3>2, <1>1, <1>2, <1>3, StartedRefresh DEF Unauthorized
    <3>3. CASE ~Unauthorized(d)
      BY <1>6, <3>1, <3>3, <1>2 DEF CallNext, Succeed, Fail, SendCall, tabs
    <3> QED BY <3>2, <3>3
  <2> QED BY <2>1, <2>2
<1>7. ASSUME UNCHANGED vars PROVE flight'[w].pc # "idle"
  BY <1>7, <1>2 DEF vars
<1> QED BY <1>4, <1>5, <1>6, <1>7 DEF Next, w, t

\* No request waits for a refresh that is over: the wait of the interceptor has
\* an end whenever its refresh has one (components/auth/auth-provider.tsx).
THEOREM NoWaitForNothing == Spec => []WaitersHaveRefresh
<1>1. Init => WaitersHaveRefresh
  BY DEF Init, WaitersHaveRefresh, NoCall
<1> QED BY <1>1, WaitersKeepRefresh, SessionInvariant, PTL DEF Spec
=============================================================================
