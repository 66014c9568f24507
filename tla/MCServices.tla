----------------------------- MODULE MCServices -----------------------------
(***************************************************************************)
(* The stages of POST /summarize behind the CORS layer for TLC: the rate   *)
(* limiter, the CSRF check, the daily quota, the summarizer with its cache *)
(* and the extractive selection that stands in for the provider; and the   *)
(* API keys with the process they live in.  They hand a request on and     *)
(* share no variable, so each behaviour is about one of them, part, and    *)
(* the others rest in their initial states: their product has no           *)
(* behaviours these do not have.                                           *)
(***************************************************************************)
EXTENDS UsageQuota, RateLimiter, Csrf, Summarizer, Extractive, ApiKeys, TLC

VARIABLE part

\* Too short, one call, too long, and a text in three chunks: one below the
\* limit, two that a long sentence takes beyond it.
TheTexts == {<<1, 1>>, <<2, 2>>, <<7, 7>>, <<1, 1, 1, 1, 1, 6, 1>>}

TheEvents == {"created", "revoked"} \X Secrets

Symmetry == Permutations(Handlers) \cup Permutations(Secrets)

allVars == <<part, vars, rateVars, csrfVars, coreVars, selectVars, keysVars>>

Stages == {"limiter", "csrf", "quota", "summarizer", "extractive", "keys"}

\* Only one initial state of the parts that rest; Redis treats the tiers alike.
ServicesInit ==
    /\ part \in Stages
    /\ part = "limiter" \/ (backend = "memory" /\ tier = "llm")
    /\ backend = "memory" \/ (backend = "redis" /\ tier = "llm")
    /\ part = "csrf" \/ origin = "none"
    /\ part = "summarizer" \/ provider = TRUE
    /\ part = "extractive" \/ text = CHOOSE input \in Input : TRUE
    /\ Init /\ RateInit /\ CsrfInit /\ CoreInit /\ SelectInit /\ KeysInit

ServicesNext ==
    /\ UNCHANGED part
    /\ \/ /\ part = "limiter" /\ RateNext
          /\ UNCHANGED <<vars, csrfVars, coreVars, selectVars, keysVars>>
       \/ /\ part = "csrf" /\ CsrfNext
          /\ UNCHANGED <<vars, rateVars, coreVars, selectVars, keysVars>>
       \/ /\ part = "quota" /\ Next
          /\ UNCHANGED <<rateVars, csrfVars, coreVars, selectVars, keysVars>>
       \/ /\ part = "summarizer" /\ CoreNext
          /\ UNCHANGED <<vars, rateVars, csrfVars, selectVars, keysVars>>
       \/ /\ part = "extractive" /\ SelectNext
          /\ UNCHANGED <<vars, rateVars, csrfVars, coreVars, keysVars>>
       \/ /\ part = "keys" /\ KeysNext
          /\ UNCHANGED <<vars, rateVars, csrfVars, coreVars, selectVars>>

ServicesSpec == ServicesInit /\ [][ServicesNext]_allVars
=============================================================================
