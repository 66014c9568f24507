-------------------------------- MODULE Csrf --------------------------------
(***************************************************************************)
(* CSRFMiddleware of app/middleware.py and the calls of the frontend       *)
(* (services/client.js) it has to let through.  A page reads the           *)
(* csrf_token cookie when a call begins and sends it back in a header; the *)
(* browser attaches whatever the jar holds when the request leaves, and    *)
(* answers may set the jar in any order.  A call that is answered with 401 *)
(* is sent once more, with the header it had.                              *)
(***************************************************************************)
EXTENDS Naturals, FiniteSets

CONSTANT MaxCalls  \* bound on the calls of the pages

ASSUME CsrfAssumption == MaxCalls \in Nat

VARIABLES
    origin,  \* the Origin header of this deployment's pages: "none",
             \* "allowed" (in cors_origins) or "other"
    jar,     \* the csrf_token cookie, 0 if there is none
    issued,  \* how many tokens have been made
    call,    \* call[c]: the c-th call
    raced    \* history: two requests without a cookie were in flight at once

csrfVars == <<origin, jar, issued, call, raced>>

Calls == 1 .. MaxCalls
Tokens == 0 .. 2 * MaxCalls

CallStages == {"idle", "sent", "answered", "unauthorized", "done"}
Refusals == {"missing", "mismatch", "origin"}

\* safe: GET, or a path of _CSRF_EXEMPT_PREFIXES; header: what the call read when
\* it began; cookie: what left with the request; set: the cookie of the answer; 0
\* if there is none; again: this is the second try.
Call == [stage : CallStages, safe : BOOLEAN, header : Tokens, cookie : Tokens, set : Tokens,
         again : BOOLEAN, status : Refusals \cup {"none", "ok", "unauthorized"}]

CsrfTypeOK ==
    /\ origin \in {"none", "allowed", "other"}
    /\ jar \in Tokens /\ issued \in Tokens
    /\ call \in [Calls -> Call]
    /\ raced \in BOOLEAN
    /\ \A c \in Calls : {call[c].header, call[c].cookie, call[c].set, jar} \subseteq 0 .. issued

Blank(stage) == [stage |-> stage, safe |-> TRUE, header |-> 0, cookie |-> 0, set |-> 0,
                 again |-> FALSE, status |-> "none"]

CsrfInit ==
    /\ origin \in {"none", "allowed", "other"}
    /\ jar = 0 /\ issued = 0
    /\ call = [c \in Calls |-> Blank("idle")]
    /\ raced = FALSE

CallAt(c, stage) == call[c].stage = stage
InFlight == {c \in Calls : call[c].stage \in {"sent", "answered"}}

-----------------------------------------------------------------------------
(* The browser.                                                            *)

\* fetch attaches the cookie of the jar.
Leave(c, header, safe, again) ==
    /\ call' = [call EXCEPT ![c].stage = "sent", ![c].header = header, ![c].safe = safe,
                            ![c].cookie = jar, ![c].again = again]
    /\ raced' = (raced \/ (jar = 0 /\ \E d \in InFlight : call[d].cookie = 0))
    /\ UNCHANGED <<origin, jar, issued>>

\* request() and its like; calls are numbered as they begin.
Start(c) ==
    /\ CallAt(c, "idle") /\ \A d \in Calls : d < c => ~CallAt(d, "idle")
    /\ \E safe \in BOOLEAN : Leave(c, jar, safe, FALSE)

\* The refresh that comes first is a call of its own.
Retry(c) ==
    /\ CallAt(c, "unauthorized")
    /\ Leave(c, call[c].header, call[c].safe, TRUE)

\* An answer sets the cookie; a 401 is followed by a refresh and one more try.
Receive(c) ==
    /\ CallAt(c, "answered")
    /\ jar' = IF call[c].set = 0 THEN jar ELSE call[c].set
    /\ call' = IF call[c].status = "unauthorized" /\ ~call[c].again
               THEN [call EXCEPT ![c].stage = "unauthorized"]
               ELSE [call EXCEPT ![c] = Blank("done")]
    /\ UNCHANGED <<origin, issued, raced>>

\* The refresh fails: the call ends with its 401.
GiveUp(c) ==
    /\ CallAt(c, "unauthorized")
    /\ call' = [call EXCEPT ![c] = Blank("done")]
    /\ UNCHANGED <<origin, jar, issued, raced>>

\* No answer (a time-out, a failing network), or the 429 of the rate limiter,
\* which is in front of this middleware and sets no cookie.
Lose(c) ==
    /\ c \in InFlight
    /\ call' = [call EXCEPT ![c] = Blank("done")]
    /\ UNCHANGED <<origin, jar, issued, raced>>

\* A day without an answer (max_age): every answer starts it anew, and calls
\* time out long before.
CookieExpires ==
    /\ jar # 0 /\ InFlight = {}
    /\ \A c \in Calls : ~CallAt(c, "unauthorized")
    /\ jar' = 0
    /\ UNCHANGED <<origin, issued, call, raced>>

-----------------------------------------------------------------------------
(* The middleware.                                                         *)

\* Why a request is refused, or "none".
Refusal(c) ==
    CASE call[c].safe                          -> "none"
      [] ~call[c].safe /\ origin = "allowed"   -> "none"
      [] ~call[c].safe /\ origin = "other"     -> "origin"
      [] ~call[c].safe /\ origin = "none"      ->
            IF 0 \in {call[c].cookie, call[c].header} THEN "missing"
            ELSE IF call[c].cookie # call[c].header THEN "mismatch" ELSE "none"

\* Variant: a new token with every answer.
FreshToken(c) == issued + 1

\* The token the answer sets: the request's, or a new one.
_ensure_csrf_cookie(c) == IF call[c].cookie # 0 THEN call[c].cookie ELSE issued + 1

\* A request that gets through is answered by its handler, which may say 401.
\* A refused origin is the only answer without a cookie.
Dispatch(c) ==
    /\ CallAt(c, "sent")
    /\ issued < 2 * MaxCalls
    /\ \E status \in IF Refusal(c) = "none" THEN {"ok", "unauthorized"} ELSE {Refusal(c)} :
          LET token == IF status = "origin" THEN 0 ELSE _ensure_csrf_cookie(c) IN
          /\ call' = [call EXCEPT ![c].stage = "answered", ![c].status = status,
                                  ![c].set = token]
          /\ issued' = IF token > issued THEN token ELSE issued
    /\ UNCHANGED <<origin, jar, raced>>

CsrfNext ==
    \/ \E c \in Calls : 
          Start(c) \/ Retry(c) \/ Receive(c) \/ GiveUp(c) \/ Lose(c) \/ Dispatch(c)
    \/ CookieExpires

CsrfSpec == CsrfInit /\ [][CsrfNext]_csrfVars

-----------------------------------------------------------------------------
(* Properties.                                                             *)

\* A page whose origin is allowed, or whose browser sends none, is refused only
\* when a call began with an empty jar, or when a call is sent again after two
\* first visits raced for the cookie: its header is then the token that lost.
\* What was refused for a missing token has a token afterwards.
OwnPagesPass ==
    \A c \in Calls : CallAt(c, "answered") /\ call[c].status \in Refusals /\ origin # "other" =>
        /\ origin = "none" /\ ~call[c].safe
        /\ call[c].set # 0
        /\ call[c].header = 0 \/ (call[c].again /\ raced)
=============================================================================
