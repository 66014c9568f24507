----------------------------- MODULE MagicLinks -----------------------------
(***************************************************************************)
(* Passwordless login and registration: a signed link that expires, a row  *)
(* in used_token that spends it, accounts created just in time, and the GC *)
(* that deletes the rows of expired links.  POST /auth/register shares the *)
(* account creation and, for a known address, mails a link too.  The login *)
(* through Google or GitHub writes the same accounts: it links an identity *)
(* of the provider to the account of an address, or creates the account.   *)
(*                                                                         *)
(* Handlers interleave at each await: the signature and expiry of a link   *)
(* are checked first, the row that spends it is committed later.  Accounts *)
(* are not erased here (RefreshTokens models erasure).                     *)
(***************************************************************************)
EXTENDS Naturals

CONSTANTS
    Emails,        \* mail addresses
    Links,         \* jti values (uuid4: never reissued)
    Providers,     \* google, github
    Subjects,      \* the ids a provider gives to its users
    Procs,         \* requests in flight at the same time
    NoEmail, NoLink, NoIdentity,
    LinkLifetime,  \* 15 minutes, in ticks
    MaxTime        \* bound on the modelled clock

Identities == Providers \X Subjects

ASSUME LinkAssumption ==
    /\ LinkLifetime \in Nat /\ MaxTime \in Nat
    /\ NoEmail \notin Emails /\ NoLink \notin Links /\ NoIdentity \notin Identities

VARIABLES
    accounts,     \* addresses with an account (User.email is unique)
    verified,     \* accounts with is_verified
    verifyMailed, \* addresses a verification token was mailed to
    holder,       \* holder[i]: address of the account whose google_id or
                  \* github_id is identity i, NoEmail before
    to,           \* to[l]: address link l was made for, NoEmail before
    exp,          \* exp[l]: the exp claim
    used,         \* jti values in used_token now
    req,          \* req[p]: what the handler in slot p carries and does next
    now,
    spent,        \* history: spent[l], how often l was spent at or before exp
    late,         \* history: links spent after their exp
    sessions,     \* history: links that produced a session
    vouched       \* history: <<i, e>> if a provider named e the address of i

vars == <<accounts, verified, verifyMailed, holder, to, exp, used, req, now,
          spent, late, sessions, vouched>>
links == <<to, exp>>
people == <<accounts, verified, verifyMailed, holder>>
history == <<spent, late, sessions, vouched>>

Steps == {"idle", "mark", "find", "provision", "insert", "stamp", "mail", "issue",
          "bySocialId", "byEmail", "link", "create"}

Request == [step : Steps, email : Emails \cup {NoEmail}, link : Links \cup {NoLink},
            who : Identities \cup {NoIdentity}]

Idle == [step |-> "idle", email |-> NoEmail, link |-> NoLink, who |-> NoIdentity]

TypeOK ==
    /\ accounts \in SUBSET Emails
    /\ verified \in SUBSET accounts
    /\ verifyMailed \in SUBSET accounts
    /\ holder \in [Identities -> accounts \cup {NoEmail}]
    /\ to \in [Links -> Emails \cup {NoEmail}]
    /\ exp \in [Links -> Nat]
    /\ used \in SUBSET Links
    /\ req \in [Procs -> Request]
    /\ now \in Nat
    /\ spent \in [Links -> Nat]
    /\ late \in SUBSET Links
    /\ sessions \in SUBSET Links
    /\ vouched \in SUBSET (Identities \X Emails)

Init ==
    /\ accounts = {}
    /\ verified = {}
    /\ verifyMailed = {}
    /\ holder = [i \in Identities |-> NoEmail]
    /\ to = [l \in Links |-> NoEmail]
    /\ exp = [l \in Links |-> 0]
    /\ used = {}
    /\ req = [p \in Procs |-> Idle]
    /\ now = 0
    /\ spent = [l \in Links |-> 0]
    /\ late = {}
    /\ sessions = {}
    /\ vouched = {}

At(p, step) == req[p].step = step
Resume(p, step, e) ==
    req' = [req EXCEPT ![p] = [step |-> step, email |-> e,
                               link |-> req[p].link, who |-> req[p].who]]
GoTo(p, step) == Resume(p, step, req[p].email)
Finish(p) == req' = [req EXCEPT ![p] = Idle]
Begin(p, step, e, l, i) ==
    /\ At(p, "idle")
    /\ req' = [req EXCEPT ![p] = [step |-> step, email |-> e, link |-> l, who |-> i]]

-----------------------------------------------------------------------------
(* Links and registrations.                                                *)

\* POST /magic-link, and the "account exists" mail of POST /register: a fresh
\* jti for the address, whether or not it has an account.  When the mail
\* cannot be sent the link is never presented.
create_magic_link_token(l, e) ==
    /\ to[l] = NoEmail
    /\ to' = [to EXCEPT ![l] = e]
    /\ exp' = [exp EXCEPT ![l] = now + LinkLifetime]
    /\ UNCHANGED <<people, used, req, now, history>>

\* POST /register for an address without an account.
RegisterNew(p, e) ==
    /\ e \notin accounts
    /\ Begin(p, "provision", e, NoLink, NoIdentity)
    /\ UNCHANGED <<people, links, used, now, history>>

\* Variant: the link is checked and logs in without being spent.
DecodeUnspent(p, l) ==
    /\ to[l] # NoEmail
    /\ exp[l] > now
    /\ Begin(p, "find", to[l], l, NoIdentity)
    /\ UNCHANGED <<people, links, used, now, history>>

\* jwt.decode rejects the link from its exp on.
DecodeLink(p, l) ==
    /\ to[l] # NoEmail
    /\ exp[l] > now
    /\ Begin(p, "mark", to[l], l, NoIdentity)
    /\ UNCHANGED <<people, links, used, now, history>>

\* INSERT of the jti; its unique index turns a second one into a 401.
_mark_token_used(p) ==
    /\ At(p, "mark")
    /\ LET l == req[p].link IN
       IF l \in used
       THEN Finish(p) /\ UNCHANGED <<used, spent, late>>
       ELSE /\ used' = used \cup {l}
            /\ spent' = IF now <= exp[l] THEN [spent EXCEPT ![l] = spent[l] + 1] ELSE spent
            /\ late' = IF now > exp[l] THEN late \cup {l} ELSE late
            /\ GoTo(p, "find")
    /\ UNCHANGED <<people, links, now, sessions, vouched>>

get_user_by_email(p) ==
    /\ At(p, "find")
    /\ GoTo(p, IF req[p].email \in accounts THEN "stamp" ELSE "provision")
    /\ UNCHANGED <<people, links, used, now, history>>

\* register_user looks the address up again (DuplicateEmailError) ...
ProvisionCheck(p) ==
    /\ At(p, "provision")
    /\ IF req[p].email \in accounts THEN Finish(p) ELSE GoTo(p, "insert")
    /\ UNCHANGED <<people, links, used, now, history>>

\* Variant: a new account counts as verified from the start.
ProvisionVerified(p) ==
    /\ At(p, "insert")
    /\ accounts' = accounts \cup {req[p].email}
    /\ verified' = verified \cup {req[p].email}
    /\ GoTo(p, IF req[p].link = NoLink THEN "mail" ELSE "stamp")
    /\ UNCHANGED <<verifyMailed, holder, links, used, now, history>>

\* Variant: the new account is never committed.
ProvisionUncommitted(p) ==
    /\ At(p, "insert")
    /\ GoTo(p, IF req[p].link = NoLink THEN "mail" ELSE "stamp")
    /\ UNCHANGED <<people, links, used, now, history>>

\* ... and inserts; the unique index on email ends the slower of two creations.
ProvisionInsert(p) ==
    /\ At(p, "insert")
    /\ IF req[p].email \in accounts
       THEN Finish(p) /\ UNCHANGED accounts
       ELSE /\ accounts' = accounts \cup {req[p].email}
            /\ GoTo(p, IF req[p].link = NoLink THEN "mail" ELSE "stamp")
    /\ UNCHANGED <<verified, verifyMailed, holder, links, used, now, history>>

\* Registration mails a verification token; a failed mail is only logged.
MailVerification(p, sent) ==
    /\ At(p, "mail")
    /\ verifyMailed' = IF sent THEN verifyMailed \cup {req[p].email} ELSE verifyMailed
    /\ GoTo(p, "issue")
    /\ UNCHANGED <<accounts, verified, holder, links, used, now, history>>

\* last_login_at and is_verified of the account the link logs in.
StampLogin(p) ==
    /\ At(p, "stamp")
    /\ verified' = verified \cup {req[p].email}
    /\ GoTo(p, "issue")
    /\ UNCHANGED <<accounts, verifyMailed, holder, links, used, now, history>>

IssueSession(p) ==
    /\ At(p, "issue")
    /\ sessions' = sessions \cup ({req[p].link} \ {NoLink})
    /\ Finish(p)
    /\ UNCHANGED <<people, links, used, now, spent, late, vouched>>

\* POST /resend-verification for an account that is not verified.
ResendVerification(e) ==
    /\ e \in accounts \ verified
    /\ verifyMailed' = verifyMailed \cup {e}
    /\ UNCHANGED <<accounts, verified, holder, links, used, req, now, history>>

\* GET /verify-email with the token mailed to it; it may come back
\* any number of times.
verify_email_token(e) ==
    /\ e \in verifyMailed
    /\ verified' = verified \cup {e}
    /\ UNCHANGED <<accounts, verifyMailed, holder, links, used, req, now, history>>

-----------------------------------------------------------------------------
(* Login through a provider.                                               *)

\* POST /google/callback and /github/callback: the provider answers the code
\* with the identity and its address of the day.
SocialLogin(p, i, e) ==
    /\ Begin(p, "bySocialId", e, NoLink, i)
    /\ vouched' = vouched \cup {<<i, e>>}
    /\ UNCHANGED <<people, links, used, now, spent, late, sessions>>

\* A known identity logs in the account it is linked to, whatever address the
\* provider names now.
FindBySocialId(p) ==
    /\ At(p, "bySocialId")
    /\ LET e == holder[req[p].who] IN
       IF e = NoEmail THEN GoTo(p, "byEmail") ELSE Resume(p, "issue", e)
    /\ UNCHANGED <<people, links, used, now, history>>

\* Variant: the account of the address is logged in without being linked.
FindByEmailUnlinked(p) ==
    /\ At(p, "byEmail")
    /\ GoTo(p, IF req[p].email \in accounts THEN "issue" ELSE "create")
    /\ UNCHANGED <<people, links, used, now, history>>

FindByEmail(p) ==
    /\ At(p, "byEmail")
    /\ GoTo(p, IF req[p].email \in accounts THEN "link" ELSE "create")
    /\ UNCHANGED <<people, links, used, now, history>>

\* The account's column of this provider is overwritten; its unique index
\* refuses an identity another account has got meanwhile.
LinkAccount(p) ==
    /\ At(p, "link")
    /\ LET i == req[p].who
           e == req[p].email
       IN  IF holder[i] \notin {NoEmail, e}
           THEN Finish(p) /\ UNCHANGED <<holder, verified>>
           ELSE /\ holder' = [j \in Identities |->
                               IF j = i THEN e
                               ELSE IF j[1] = i[1] /\ holder[j] = e THEN NoEmail
                               ELSE holder[j]]
                /\ verified' = verified \cup {e}
                /\ GoTo(p, "issue")
    /\ UNCHANGED <<accounts, verifyMailed, links, used, now, history>>

\* The unique indexes on the address and on the identity end the slower of two
\* creations.
CreateLinked(p) ==
    /\ At(p, "create")
    /\ LET i == req[p].who
           e == req[p].email
       IN  IF e \in accounts \/ holder[i] # NoEmail
           THEN Finish(p) /\ UNCHANGED <<accounts, holder, verified>>
           ELSE /\ accounts' = accounts \cup {e}
                /\ verified' = verified \cup {e}
                /\ holder' = [holder EXCEPT ![i] = e]
                /\ GoTo(p, "issue")
    /\ UNCHANGED <<verifyMailed, links, used, now, history>>

-----------------------------------------------------------------------------
(* The surroundings.                                                       *)

\* Variant: a row is deleted at the very instant its link expires.
CleanupEarly ==
    /\ used' = {l \in used : exp[l] > now}
    /\ UNCHANGED <<people, links, req, now, history>>

\* _cleanup_tokens: rows whose expires_at has passed.
CleanupUsed ==
    /\ used' = {l \in used : exp[l] >= now}
    /\ UNCHANGED <<people, links, req, now, history>>

Abort(p) ==
    /\ ~At(p, "idle")
    /\ Finish(p)
    /\ UNCHANGED <<people, links, used, now, history>>

Tick ==
    /\ now < MaxTime
    /\ now' = now + 1
    /\ UNCHANGED <<people, links, used, req, history>>

Step(p) ==
    \/ _mark_token_used(p)
    \/ get_user_by_email(p)
    \/ ProvisionCheck(p)
    \/ ProvisionInsert(p)
    \/ \E sent \in BOOLEAN : MailVerification(p, sent)
    \/ StampLogin(p)
    \/ FindBySocialId(p)
    \/ FindByEmail(p)
    \/ LinkAccount(p)
    \/ CreateLinked(p)
    \/ IssueSession(p)

Next ==
    \/ \E l \in Links, e \in Emails : create_magic_link_token(l, e)
    \/ \E p \in Procs, e \in Emails : RegisterNew(p, e)
    \/ \E p \in Procs, l \in Links : DecodeLink(p, l)
    \/ \E p \in Procs, i \in Identities, e \in Emails : SocialLogin(p, i, e)
    \/ \E p \in Procs : Step(p) \/ Abort(p)
    \/ \E e \in Emails : ResendVerification(e) \/ verify_email_token(e)
    \/ CleanupUsed
    \/ Tick

Spec == Init /\ [][Next]_vars

-----------------------------------------------------------------------------
(* Properties.                                                             *)

Spent(l) == spent[l] > 0 \/ l \in late

\* A link is spent at most once up to its expiry, however many requests
\* present it at the same time and whenever the GC runs: the unique index
\* decides, and the row outlives the link.
SpentOnceInTime == \A l \in Links : spent[l] <= 1

\* A session obtained through a link belongs to an account that exists and is
\* verified, and was paid for with the link, even when registrations and
\* other links for the same address race with it.
SessionsAreEarned ==
    \A l \in sessions : to[l] \in accounts \cap verified /\ Spent(l)

\* Somebody vouched for address e: a link made for it was spent, a verification
\* token was mailed to it, or a provider named it the address of an identity.
Vouched(e) ==
    \/ e \in verifyMailed
    \/ \E l \in Links : to[l] = e /\ Spent(l)
    \/ \E i \in Identities : <<i, e>> \in vouched

\* An account is verified only if its mailbox or a provider vouched for its
\* address, and an identity opens only verified accounts of addresses for which
\* the provider named that very identity: not the account of another address
\* when links, registrations and logins through two identities race for one
\* account, or when an identity comes back with a new address.
VerifiedIsVouched ==
    /\ \A e \in verified : Vouched(e)
    /\ \A i \in Identities : holder[i] # NoEmail =>
           holder[i] \in verified /\ <<i, holder[i]>> \in vouched
    /\ \A p \in Procs : At(p, "issue") /\ req[p].who # NoIdentity =>
           req[p].email \in verified /\ <<req[p].who, req[p].email>> \in vouched
=============================================================================
