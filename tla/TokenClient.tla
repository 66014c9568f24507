---------------------------- MODULE TokenClient ----------------------------
(***************************************************************************)
(* Browser tabs on top of the refresh-token table.  The tabs share the     *)
(* cookies; each has its own client.js, which answers a 401 by one refresh *)
(* that all its waiting calls share, and its own useAuth, which on page    *)
(* load refreshes once more by itself, and logs in and out.  The password  *)
(* may be reset here too, and the account's sessions may be ended from     *)
(* another device: neither touches the cookie.                             *)
(*                                                                         *)
(* A refresh is sent with the cookie of that moment and its answer may be  *)
(* lost; the server goes on with it all the same.                          *)
(***************************************************************************)
EXTENDS RefreshTokens

CONSTANTS
    NoProc,
    MaxTabs,    \* browser tabs
    MaxCalls,   \* API calls they make
    MaxEvents   \* bound on logins, logouts, resets, what other devices do,
                \* lost answers and dying handlers

ASSUME SomeTokenAssumption == Tokens # {}
ASSUME NoProcAssumption == NoProc \notin Procs
ASSUME ClientBoundsAssumption == {MaxTabs, MaxCalls, MaxEvents} \subseteq Nat

VARIABLES
    jar,     \* the refresh_token cookie, NoToken when there is none
    access,  \* is there an access_token cookie, unexpired?
    tab,     \* tab[c]: the tab that makes call c
    load,    \* load[c]: c is the getCurrentUser of a page load, not yet retried
    call,    \* call[c]: how far call c has come
    flight,  \* flight[g]: the session request of group g under way
    events,  \* how many of these so far
    mishap   \* history: an answer was lost, or requests of two groups overlapped

client == <<jar, access, tab, load, call, flight, events, mishap>>
allVars == <<active, issued, stored, revoked, owner, family, expires, req, now, client>>

Tabs == 1 .. MaxTabs
Calls == 1 .. MaxCalls

\* Requests of one group exclude each other: the shared refresh of client.js
\* (_refreshPromise), the refresh of useAuth's page load, and what the user
\* clicks, one thing after the other in whatever tab.
User == <<0, "user">>
Groups == (Tabs \X {"auto", "load"}) \cup {User}

Kinds == {"refresh", "login", "logout", "logoutAll", "reset"}

Flight == [kind : Kinds, slot : Procs \cup {NoProc},
           answer : {"pending", "failed", "ok"}, token : Tokens \cup {NoToken}]

NoFlight == [kind |-> "none", slot |-> NoProc, answer |-> "pending", token |-> NoToken]

Phases == {"new", "denied", "waiting", "retry", "reload", "reloading", "ok", "failed"}

ClientTypeOK ==
    /\ TypeOK
    /\ jar \in issued \cup {NoToken}
    /\ access \in BOOLEAN
    /\ tab \in [Calls -> Tabs]
    /\ load \in [Calls -> BOOLEAN]
    /\ call \in [Calls -> Phases]
    /\ flight \in [Groups -> Flight \cup {NoFlight}]
    /\ events \in 0 .. MaxEvents
    /\ mishap \in BOOLEAN
    /\ \A c \in Calls : call[c] = "waiting" => flight[<<tab[c], "auto">>].kind = "refresh"
    /\ \A g, h \in Groups : flight[g].slot = flight[h].slot /\ g # h => flight[g].slot = NoProc

\* Slots and token values are interchangeable: the next free one is taken.
Free(p) == At(p, "idle") /\ p = CHOOSE q \in Procs : At(q, "idle")
NextToken == CHOOSE t \in Tokens : t \notin issued
FirstToken == CHOOSE t \in Tokens : TRUE

\* The page opens in a browser that is logged out, or that logged in earlier;
\* the access token has expired since.
ClientInit ==
    /\ \/ Init /\ jar = NoToken
       \/ \E u \in Users :
             /\ jar = FirstToken
             /\ issued = {jar} /\ stored = {jar} /\ revoked = {}
             /\ owner = [t \in Tokens |-> IF t = jar THEN u ELSE NoUser]
             /\ family = [t \in Tokens |-> IF t = jar THEN jar ELSE NoToken]
             /\ expires = [t \in Tokens |-> IF t = jar THEN Lifetime ELSE 0]
             /\ active = [v \in Users |-> TRUE]
             /\ req = [p \in Procs |-> Idle]
             /\ now = 0
    /\ access = FALSE
    /\ tab \in {f \in [Calls -> Tabs] : \A c \in Calls :     \* numbered as they occur
                   f[c] = 1 \/ \E b \in Calls : b < c /\ f[c] <= f[b] + 1}
    /\ load \in {l \in [Calls -> BOOLEAN] :
                   \A b, c \in Calls : l[b] /\ l[c] /\ tab[b] = tab[c] => b = c}
    /\ call = [c \in Calls |-> "new"]
    /\ flight = [g \in Groups |-> NoFlight]
    /\ events = 0
    /\ mishap = FALSE

server == <<active, issued, stored, revoked, owner, family, expires, req, now>>

-----------------------------------------------------------------------------
(* Session requests: sent, served, answered.                               *)

Busy(g) == flight[g].kind # "none"

Sent(g, kind, p, answer) ==
    /\ ~Busy(g)
    /\ flight' = [flight EXCEPT ![g] = [kind |-> kind, slot |-> p, answer |-> answer,
                                        token |-> NoToken]]
    /\ mishap' = (mishap \/ \E h \in Groups \ {g} : Busy(h))

Event == events < MaxEvents /\ events' = events + 1

\* POST /auth/refresh with the cookie, if there is one.
SendRefresh(g) ==
    \/ /\ jar = NoToken
       /\ Sent(g, "refresh", NoProc, "failed")
       /\ UNCHANGED server
    \/ \E p \in Procs :
          /\ jar # NoToken /\ Free(p)
          /\ RotateRead(p, jar)
          /\ IF req'[p] = Idle THEN Sent(g, "refresh", NoProc, "failed")
                               ELSE Sent(g, "refresh", p, "pending")

\* useAuth's login, logout and logoutAll, and AuthModal's password reset with
\* the emailed token of any account.
UserAction ==
    /\ Event
    /\ LET g == User IN
       \/ \E p \in Procs, u \in Users :
             Free(p) /\ LoginByCredential(p, u) /\ Sent(g, "login", p, "pending")
       \/ \E p \in Procs :
             /\ jar \in stored \ revoked /\ Free(p)
             /\ LogoutRead(p, jar)
             /\ Sent(g, "logout", p, "pending")
       \/ /\ jar \notin stored \ revoked
          /\ Sent(g, "logout", NoProc, "ok")
          /\ UNCHANGED server
       \/ \E p \in Procs :
             /\ access /\ jar # NoToken /\ Free(p)
             /\ RevokeAllBegin(p, owner[jar], "revokeAll")
             /\ Sent(g, "logoutAll", p, "pending")
       \/ \E p \in Procs, u \in Users :
             Free(p) /\ RevokeAllBegin(p, u, "revokeAll") /\ Sent(g, "reset", p, "pending")
    /\ UNCHANGED <<jar, access, tab, load, call>>

\* The password reset, the logout of all sessions or the erasure of an account,
\* asked for on another device.
Elsewhere ==
    /\ Event
    /\ \E p \in Procs, u \in Users, step \in {"revokeAll", "erase"} :
         Free(p) /\ RevokeAllBegin(p, u, step)
    /\ UNCHANGED <<jar, access, tab, load, call, flight, mishap>>

\* Requests that end well although no token is issued.
Endings == {"logout", "logoutAll", "reset"}

\* The handler of p takes a step; when it ends the answer is on its way.
Serve(p) ==
    /\ Step(p)
    /\ \A t \in issued' \ issued : t = NextToken
    /\ flight' = [g \in Groups |->
         IF flight[g].slot # p \/ req'[p] # Idle THEN flight[g]
         ELSE [flight[g] EXCEPT
                 !.slot = NoProc,
                 !.answer = IF issued' # issued \/ flight[g].kind \in Endings
                            THEN "ok" ELSE "failed",
                 !.token = IF issued' # issued THEN NextToken
                           ELSE NoToken]]
    /\ UNCHANGED <<jar, access, tab, load, call, events, mishap>>

\* The handler dies before its commit.
Crash(p) ==
    /\ Abort(p)
    /\ Event
    /\ flight' = [g \in Groups |->
         IF flight[g].slot = p THEN [flight[g] EXCEPT !.slot = NoProc, !.answer = "failed"]
         ELSE flight[g]]
    /\ UNCHANGED <<jar, access, tab, load, call, mishap>>

\* The calls that waited for group g go on, with success or not.
Resume(g, ok) ==
    call' = [c \in Calls |->
        IF g = <<tab[c], "auto">> /\ call[c] = "waiting"
        THEN IF ok THEN "retry" ELSE IF load[c] THEN "reload" ELSE "failed"
        ELSE IF g = <<tab[c], "load">> /\ call[c] = "reloading"
        THEN IF ok THEN "new" ELSE "failed"
        ELSE call[c]]

\* The answer arrives, with its cookies; that of a reset sets and clears none.
Receive(g) ==
    /\ Busy(g) /\ flight[g].answer # "pending"
    /\ LET ok == flight[g].answer = "ok"
           out == ok /\ flight[g].kind \in {"logout", "logoutAll"}
           in == ok /\ flight[g].kind \in {"login", "refresh"} IN
       /\ jar' = IF out THEN NoToken ELSE IF in THEN flight[g].token ELSE jar
       /\ access' = IF out THEN FALSE ELSE (access \/ in)
       /\ Resume(g, ok)
    /\ flight' = [flight EXCEPT ![g] = NoFlight]
    /\ UNCHANGED <<server, tab, load, events, mishap>>

\* Variant: a rejected fetch is not turned into a failed refresh.
LoseUnresumed(g) ==
    /\ Busy(g)
    /\ Event
    /\ mishap' = TRUE
    /\ flight' = [flight EXCEPT ![g] = NoFlight]
    /\ UNCHANGED <<server, jar, access, tab, load, call>>

\* The connection is lost (or the call gives up) first.
Lose(g) ==
    /\ Busy(g)
    /\ Event
    /\ mishap' = TRUE
    /\ Resume(g, FALSE)
    /\ flight' = [flight EXCEPT ![g] = NoFlight]
    /\ UNCHANGED <<server, jar, access, tab, load>>

-----------------------------------------------------------------------------
(* Calls: request() and streamRequest() up to their answer.                *)

Go(c, phase) == call' = [call EXCEPT ![c] = phase]

\* The call is authorised when it arrives, or answered with 401.
Request_(c) ==
    /\ call[c] = "new"
    /\ Go(c, IF access THEN "ok" ELSE "denied")
    /\ UNCHANGED <<server, jar, access, tab, load, flight, events, mishap>>

\* Variant: _refreshPromise is not kept, every call sends a refresh of its own.
JoinAlone(c) ==
    /\ call[c] = "denied"
    /\ LET g == <<tab[c], "auto">> IN
       IF Busy(g)
       THEN \E p \in Procs :
              /\ jar # NoToken /\ Free(p) /\ RotateRead(p, jar) /\ req'[p] # Idle
              /\ flight' = [flight EXCEPT ![g].slot = p, ![g].answer = "pending"]
              /\ UNCHANGED mishap
       ELSE SendRefresh(g)
    /\ Go(c, "waiting")
    /\ UNCHANGED <<jar, access, tab, load, events>>

\* _attemptTokenRefresh: join the refresh under way or send one.
Join(c) ==
    /\ call[c] = "denied"
    /\ LET g == <<tab[c], "auto">> IN
       IF Busy(g) THEN UNCHANGED <<server, flight, mishap>> ELSE SendRefresh(g)
    /\ Go(c, "waiting")
    /\ UNCHANGED <<jar, access, tab, load, events>>

\* The call is sent a second time, and not a third.
Retry(c) ==
    /\ call[c] = "retry"
    /\ Go(c, IF access THEN "ok" ELSE IF load[c] THEN "reload" ELSE "failed")
    /\ UNCHANGED <<server, jar, access, tab, load, flight, events, mishap>>

\* useAuth's page load: getCurrentUser has failed, a refresh of its own follows
\* and then getCurrentUser again.
Reload(c) ==
    /\ call[c] = "reload"
    /\ SendRefresh(<<tab[c], "load">>)
    /\ Go(c, "reloading")
    /\ load' = [load EXCEPT ![c] = FALSE]
    /\ UNCHANGED <<jar, access, tab, events>>

\* The access token lives for minutes only.
ExpireAccess ==
    /\ access
    /\ access' = FALSE
    /\ UNCHANGED <<server, jar, tab, load, call, flight, events, mishap>>

Handle(c) == Join(c) \/ Retry(c) \/ Reload(c)

ClientNext ==
    \/ UserAction
    \/ Elsewhere
    \/ \E p \in Procs : Serve(p) \/ Crash(p)
    \/ \E g \in Groups : Receive(g) \/ Lose(g)
    \/ \E c \in Calls : Request_(c) \/ Handle(c)
    \/ ExpireAccess
    \/ (CleanupTokens \/ Tick) /\ UNCHANGED client

ClientSpec == ClientInit /\ [][ClientNext]_allVars

Progress ==
    \/ \E p \in Procs : Serve(p)
    \/ \E g \in Groups : Receive(g)
    \/ \E c \in Calls : Handle(c)

\* Neither the server, the network nor the page stop for good while one of them
\* can go on; the GC as in FairSpec.
FairClientSpec ==
    /\ ClientSpec
    /\ WF_allVars(Progress)
    /\ WF_allVars(CleanupTokens /\ UNCHANGED client)

-----------------------------------------------------------------------------
(* Properties.                                                             *)

\* Reuse detection (rotate_refresh_token) revokes a whole family.  The browser
\* does present revoked tokens: its cookie outlives a password reset here and
\* whatever ended the sessions on another device, and the next denied call
\* sends it.  But a family with a token that still works is struck only after
\* an answer was lost or when two tabs, or a tab's page load and its calls,
\* refreshed at the same time; without that no session is lost to reuse
\* detection.  Within one tab _refreshPromise is enough, however many calls are
\* denied at once.
NoSessionLostToReuse ==
    \A p \in Procs :
        At(p, "kill") => mishap \/ FamilyOf(family[req[p].token]) \cap stored \subseteq revoked

\* A denied call ends: the refresh it waits for is answered or given up for all
\* who share it, and it is repeated once (unless the modelled tokens run out).
CallsSettle ==
    \A c \in Calls : (call[c] \in Phases \ {"new", "ok", "failed"})
                        ~> (call[c] \in {"new", "ok", "failed"} \/ issued = Tokens)
=============================================================================
