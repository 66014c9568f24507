-------------------------- MODULE MagicLinks_proofs --------------------------
(***************************************************************************)
(* Proofs about magic links, for every set of addresses, links and         *)
(* concurrent requests, every set of providers and of their identities,    *)
(* every link lifetime and every clock bound.                              *)
(***************************************************************************)
EXTENDS MagicLinks, TLAPS

\* A link that was never made was never spent, and the row of a spent link is
\* there as long as the link could be presented again.
LinksOK ==
    /\ \A l \in Links : to[l] = NoEmail => spent[l] = 0 /\ l \notin late
    /\ \A l \in Links : spent[l] > 0 => exp[l] < now \/ l \in used
    /\ SpentOnceInTime

SocialSteps == {"bySocialId", "byEmail", "link", "create"}

\* What a handler carries across an await still agrees with the tables.
RequestsOK ==
    \A p \in Procs :
        /\ req[p].step # "idle" => req[p].email \in Emails
        /\ req[p].link # NoLink => /\ req[p].step # "idle"
                                   /\ to[req[p].link] = req[p].email
                                   /\ req[p].step = "mark" \/ Spent(req[p].link)
        /\ req[p].step \in {"mark", "find", "stamp"} => req[p].link # NoLink
        /\ req[p].step \in {"stamp", "mail"} => req[p].email \in accounts
        /\ req[p].step = "mail" => req[p].link = NoLink
        /\ req[p].step = "issue" /\ req[p].link # NoLink => req[p].email \in verified
        /\ req[p].who # NoIdentity => /\ req[p].step \in SocialSteps \cup {"issue"}
                                      /\ req[p].link = NoLink
        /\ req[p].step \in SocialSteps => /\ req[p].who # NoIdentity
                                         /\ <<req[p].who, req[p].email>> \in vouched
        /\ req[p].step = "link" => req[p].email \in accounts

IInv == TypeOK /\ LinksOK /\ RequestsOK /\ SessionsAreEarned /\ VerifiedIsVouched

-----------------------------------------------------------------------------

\* No link, no account and no request to begin with.
LEMMA InitIInv == Init => IInv
  BY LinkAssumption
  DEF Init, IInv, TypeOK, LinksOK, SpentOnceInTime, RequestsOK, SessionsAreEarned,
      VerifiedIsVouched, Request, Steps, Idle, SocialSteps, At

\* A step that changes nothing but the slot of one request.
LEMMA SlotIInv ==
  ASSUME IInv, NEW p \in Procs, NEW r \in Request,
         req' = [req EXCEPT ![p] = r],
         UNCHANGED <<people, links, used, now, history>>,
         r.step # "idle" => r.email \in Emails,
         r.link # NoLink => /\ r.step # "idle"
                            /\ to[r.link] = r.email
                            /\ r.step = "mark" \/ Spent(r.link),
         r.step \in {"mark", "find", "stamp"} => r.link # NoLink,
         r.step \in {"stamp", "mail"} => r.email \in accounts,
         r.step = "mail" => r.link = NoLink,
         r.step = "issue" /\ r.link # NoLink => r.email \in verified,
         r.who # NoIdentity => r.step \in SocialSteps \cup {"issue"} /\ r.link = NoLink,
         r.step \in SocialSteps => r.who # NoIdentity /\ <<r.who, r.email>> \in vouched,
         r.step = "link" => r.email \in accounts,
         r.step = "issue" /\ r.who # NoIdentity =>
             r.email \in verified /\ <<r.who, r.email>> \in vouched
  PROVE  IInv'
<1>1. UNCHANGED <<accounts, verified, verifyMailed, holder, to, exp, used, now, spent,
                  late, sessions, vouched>>
  BY DEF people, links, history
<1>2. TypeOK'
  BY <1>1 DEF IInv, TypeOK
<1>3. LinksOK' /\ SessionsAreEarned'
  BY <1>1 DEF IInv, LinksOK, SpentOnceInTime, SessionsAreEarned, Spent
<1>4. RequestsOK'
  BY <1>1 DEF IInv, TypeOK, RequestsOK, Spent
<1>5. VerifiedIsVouched'
  BY <1>1 DEF IInv, TypeOK, VerifiedIsVouched, Vouched, Spent, At
<1>6. QED
  BY <1>2, <1>3, <1>4, <1>5 DEF IInv

\* The slot of a request that is over.
LEMMA FinishIInv ==
  ASSUME IInv, NEW p \in Procs, Finish(p),
         UNCHANGED <<people, links, used, now, history>>
  PROVE  IInv'
<1>1. Idle \in Request
  BY DEF Idle, Request, Steps
<1>2. QED
  BY <1>1, SlotIInv DEF Finish, Idle, SocialSteps

\* Making a link touches no link that was ever spent or presented.
LEMMA MakeIInv ==
  ASSUME IInv, NEW l \in Links, NEW e \in Emails, create_magic_link_token(l, e)
  PROVE  IInv'
<1>1. /\ to[l] = NoEmail /\ to' = [to EXCEPT ![l] = e]
      /\ exp' = [exp EXCEPT ![l] = now + LinkLifetime]
      /\ UNCHANGED <<accounts, verified, verifyMailed, holder, used, req, now, spent,
                     late, sessions, vouched>>
  BY DEF create_magic_link_token, people, history
<1>2. TypeOK'
  BY <1>1, LinkAssumption DEF IInv, TypeOK
<1>3. LinksOK'
  BY <1>1 DEF IInv, TypeOK, LinksOK, SpentOnceInTime
<1>4. RequestsOK'
  BY <1>1, LinkAssumption DEF IInv, TypeOK, RequestsOK, SocialSteps, Request, Spent
<1>5. SessionsAreEarned'
  BY <1>1, LinkAssumption DEF IInv, TypeOK, LinksOK, SessionsAreEarned, Spent
<1>6. VerifiedIsVouched'
  <2>1. \A x \in Links : Spent(x) => x # l
    BY <1>1 DEF IInv, TypeOK, LinksOK, Spent
  <2>2. \A x \in Emails : Vouched(x) => Vouched(x)'
    BY <1>1, <2>1 DEF IInv, TypeOK, Vouched, Spent
  <2>3. QED
    BY <1>1, <2>2 DEF IInv, TypeOK, VerifiedIsVouched, At
<1>7. QED
  BY <1>2, <1>3, <1>4, <1>5, <1>6 DEF IInv

\* Spending a link: the row was absent, so at or before its expiry the link
\* had not been spent.
LEMMA MarkIInv ==
  ASSUME IInv, NEW p \in Procs, _mark_token_used(p)
  PROVE  IInv'
<1> DEFINE l == req[p].link
<1>1. l \in Links /\ to[l] = req[p].email /\ req[p].email \in Emails
  BY DEF _mark_token_used, At, IInv, TypeOK, RequestsOK, SocialSteps, Request
<1>2. CASE l \in used
  BY <1>2, FinishIInv DEF _mark_token_used, history
<1>3. CASE l \notin used
  <2>1. /\ used' = used \cup {l}
        /\ spent' = IF now <= exp[l] THEN [spent EXCEPT ![l] = spent[l] + 1] ELSE spent
        /\ late' = IF now > exp[l] THEN late \cup {l} ELSE late
        /\ req' = [req EXCEPT ![p] = [step |-> "find", email |-> req[p].email, link |-> l,
                                      who |-> req[p].who]]
        /\ UNCHANGED <<accounts, verified, verifyMailed, holder, to, exp, now, sessions,
                       vouched>>
    BY <1>3 DEF _mark_token_used, GoTo, Resume, people, links
  <2>2. TypeOK'
    BY <1>1, <2>1 DEF IInv, TypeOK, Request, Steps
  <2>3. \A x \in Links : Spent(x) => Spent(x)'
    BY <1>1, <2>1 DEF IInv, TypeOK, Spent
  <2>4. Spent(l)'
    BY <1>1, <2>1 DEF IInv, TypeOK, Spent
  <2>5. LinksOK'
    BY <1>1, <1>3, <2>1, LinkAssumption DEF IInv, TypeOK, LinksOK, SpentOnceInTime
  <2>6. RequestsOK'
    <3>1. req \in [Procs -> Request] /\ l # NoLink
      BY <1>1, LinkAssumption DEF IInv, TypeOK
    <3>2. req[p].who = NoIdentity
      BY <2>1, <1>3 DEF _mark_token_used, At, IInv, RequestsOK, SocialSteps
    <3>3. ASSUME NEW q \in Procs, q # p PROVE req'[q] = req[q] /\ req[q] \in Request
      BY <2>1, <3>1, <3>3
    <3>4. req'[p] = [step |-> "find", email |-> req[p].email, link |-> l, who |-> NoIdentity]
      BY <2>1, <3>1, <3>2
    <3>5. QED
      BY <1>1, <2>1, <2>3, <2>4, <3>1, <3>3, <3>4 DEF IInv, RequestsOK, SocialSteps, Request
  <2>7. SessionsAreEarned' /\ VerifiedIsVouched'
    BY <2>1, <2>3 DEF IInv, TypeOK, SessionsAreEarned, VerifiedIsVouched, Vouched, At
  <2>8. QED
    BY <2>2, <2>5, <2>6, <2>7 DEF IInv
<1>4. QED
  BY <1>2, <1>3

\* A step that only adds accounts, verified accounts for which the mailbox has
\* answered, verification mails or sessions, and moves at most one request.
LEMMA PeopleIInv ==
  ASSUME IInv, TypeOK', RequestsOK', SessionsAreEarned', VerifiedIsVouched',
         UNCHANGED <<to, exp, used, now, spent, late>>
  PROVE  IInv'
  BY DEF IInv, LinksOK, SpentOnceInTime

LEMMA InsertIInv ==
  ASSUME IInv, NEW p \in Procs, ProvisionInsert(p)
  PROVE  IInv'
<1>1. CASE req[p].email \in accounts
  BY <1>1, FinishIInv DEF ProvisionInsert, people
<1>2. CASE req[p].email \notin accounts
  <2> DEFINE next == IF req[p].link = NoLink THEN "mail" ELSE "stamp"
  <2>1. /\ accounts' = accounts \cup {req[p].email}
        /\ req' = [req EXCEPT ![p] = [step |-> next, email |-> req[p].email,
                                      link |-> req[p].link, who |-> req[p].who]]
        /\ UNCHANGED <<verified, verifyMailed, holder, to, exp, used, now, spent, late,
                       sessions, vouched>>
        /\ req[p].step = "insert"
    BY <1>2 DEF ProvisionInsert, GoTo, Resume, At, links, history
  <2>2. req[p].email \in Emails
    BY <2>1 DEF IInv, RequestsOK
  <2>3. TypeOK'
    BY <2>1, <2>2 DEF IInv, TypeOK, Request, Steps
  <2>4. RequestsOK'
    BY <2>1, <2>2 DEF IInv, TypeOK, RequestsOK, SocialSteps, Spent
  <2>5. SessionsAreEarned' /\ VerifiedIsVouched'
    BY <2>1 DEF IInv, SessionsAreEarned, VerifiedIsVouched, Vouched, Spent, At
  <2>6. QED
    BY <2>1, <2>3, <2>4, <2>5, PeopleIInv
<1>3. QED
  BY <1>1, <1>2

LEMMA MailIInv ==
  ASSUME IInv, NEW p \in Procs, NEW sent \in BOOLEAN, MailVerification(p, sent)
  PROVE  IInv'
<1>1. /\ req[p].step = "mail"
      /\ verifyMailed \subseteq verifyMailed'
      /\ verifyMailed' \subseteq verifyMailed \cup {req[p].email}
      /\ req' = [req EXCEPT ![p] = [step |-> "issue", email |-> req[p].email,
                                    link |-> req[p].link, who |-> req[p].who]]
      /\ UNCHANGED <<accounts, verified, holder, to, exp, used, now, spent, late,
                     sessions, vouched>>
  BY DEF MailVerification, GoTo, Resume, At, links, history
<1>2. req[p].email \in accounts
  BY <1>1 DEF IInv, RequestsOK
<1>3. TypeOK'
  BY <1>1, <1>2 DEF IInv, TypeOK, Request, Steps
<1>4. RequestsOK'
  BY <1>1, <1>2 DEF IInv, TypeOK, RequestsOK, SocialSteps, Spent
<1>5. SessionsAreEarned' /\ VerifiedIsVouched'
  BY <1>1 DEF IInv, TypeOK, RequestsOK, SocialSteps, SessionsAreEarned,
              VerifiedIsVouched, Vouched, Spent, At
<1>6. QED
  BY <1>1, <1>3, <1>4, <1>5, PeopleIInv

LEMMA StampIInv ==
  ASSUME IInv, NEW p \in Procs, StampLogin(p)
  PROVE  IInv'
<1>1. /\ req[p].step = "stamp"
      /\ verified' = verified \cup {req[p].email}
      /\ req' = [req EXCEPT ![p] = [step |-> "issue", email |-> req[p].email,
                                    link |-> req[p].link, who |-> req[p].who]]
      /\ UNCHANGED <<accounts, verifyMailed, holder, to, exp, used, now, spent, late,
                     sessions, vouched>>
  BY DEF StampLogin, GoTo, Resume, At, links, history
<1>2. /\ req[p].email \in accounts
      /\ req[p].link \in Links /\ to[req[p].link] = req[p].email /\ Spent(req[p].link)
  BY <1>1 DEF IInv, TypeOK, RequestsOK, SocialSteps, Request
<1>3. TypeOK'
  BY <1>1, <1>2 DEF IInv, TypeOK, Request, Steps
<1>4. RequestsOK'
  BY <1>1, <1>2 DEF IInv, TypeOK, RequestsOK, SocialSteps, Spent
<1>5. SessionsAreEarned' /\ VerifiedIsVouched'
  BY <1>1, <1>2 DEF IInv, TypeOK, RequestsOK, SocialSteps, SessionsAreEarned,
                   VerifiedIsVouched, Vouched, Spent, At
<1>6. QED
  BY <1>1, <1>3, <1>4, <1>5, PeopleIInv

LEMMA IssueIInv ==
  ASSUME IInv, NEW p \in Procs, IssueSession(p)
  PROVE  IInv'
<1>1. /\ req[p].step = "issue"
      /\ sessions' = sessions \cup ({req[p].link} \ {NoLink})
      /\ req' = [req EXCEPT ![p] = [step |-> "idle", email |-> NoEmail, link |-> NoLink,
                                    who |-> NoIdentity]]
      /\ UNCHANGED <<accounts, verified, verifyMailed, holder, to, exp, used, now, spent,
                     late, vouched>>
  BY DEF IssueSession, Finish, Idle, At, people, links
<1>2. req[p].link # NoLink => /\ req[p].link \in Links
                              /\ to[req[p].link] \in accounts \cap verified
                              /\ Spent(req[p].link)
  BY <1>1 DEF IInv, TypeOK, RequestsOK, SocialSteps, Request
<1>3. TypeOK'
  BY <1>1, <1>2 DEF IInv, TypeOK, Request, Steps
<1>4. RequestsOK'
  BY <1>1 DEF IInv, TypeOK, RequestsOK, SocialSteps, Spent
<1>5. SessionsAreEarned' /\ VerifiedIsVouched'
  BY <1>1, <1>2 DEF IInv, TypeOK, RequestsOK, SocialSteps, SessionsAreEarned,
                   VerifiedIsVouched, Vouched, Spent, At
<1>6. QED
  BY <1>1, <1>3, <1>4, <1>5, PeopleIInv

\* The remaining steps of a request only move it on.
LEMMA MoveIInv ==
  ASSUME IInv, NEW p \in Procs,
         get_user_by_email(p) \/ ProvisionCheck(p) \/ Abort(p)
  PROVE  IInv'
<1>1. CASE get_user_by_email(p)
  <2> DEFINE next == IF req[p].email \in accounts THEN "stamp" ELSE "provision"
             r == [step |-> next, email |-> req[p].email, link |-> req[p].link,
                   who |-> req[p].who]
  <2>1. /\ req[p].step = "find" /\ req' = [req EXCEPT ![p] = r]
        /\ UNCHANGED <<people, links, used, now, history>>
    BY <1>1 DEF get_user_by_email, GoTo, Resume, At
  <2>2. r \in Request
    BY DEF IInv, TypeOK, Request, Steps
  <2>3. /\ req[p].email \in Emails /\ req[p].link # NoLink
        /\ to[req[p].link] = req[p].email /\ Spent(req[p].link)
    BY <2>1 DEF IInv, RequestsOK
  <2> HIDE DEF next
  <2>4. /\ next \in {"stamp", "provision"}
        /\ next = "stamp" => req[p].email \in accounts
        /\ next \notin SocialSteps /\ req[p].who = NoIdentity
    BY <2>1 DEF next, IInv, RequestsOK, SocialSteps
  <2>5. QED
    BY <2>1, <2>2, <2>3, <2>4, SlotIInv
<1>2. CASE ProvisionCheck(p)
  <2> DEFINE r == [step |-> "insert", email |-> req[p].email, link |-> req[p].link,
                   who |-> req[p].who]
  <2>1. /\ req[p].step = "provision"
        /\ UNCHANGED <<people, links, used, now, history>>
        /\ Finish(p) \/ req' = [req EXCEPT ![p] = r]
    BY <1>2 DEF ProvisionCheck, GoTo, Resume, At
  <2>2. r \in Request
    BY DEF IInv, TypeOK, Request, Steps
  <2>3. /\ req[p].email \in Emails
        /\ req[p].link # NoLink => to[req[p].link] = req[p].email /\ Spent(req[p].link)
        /\ req[p].who = NoIdentity
    BY <2>1 DEF IInv, RequestsOK, SocialSteps
  <2>4. QED
    BY <2>1, <2>2, <2>3, SlotIInv, FinishIInv DEF SocialSteps
<1>3. CASE Abort(p)
  BY <1>3, FinishIInv DEF Abort
<1>4. QED
  BY <1>1, <1>2, <1>3

LEMMA StartIInv ==
  ASSUME IInv, NEW p \in Procs,
         \/ \E e \in Emails : RegisterNew(p, e)
         \/ \E l \in Links : DecodeLink(p, l)
  PROVE  IInv'
<1>1. ASSUME NEW e \in Emails, RegisterNew(p, e) PROVE IInv'
  <2> DEFINE r == [step |-> "provision", email |-> e, link |-> NoLink, who |-> NoIdentity]
  <2>1. r \in Request
    BY DEF Request, Steps
  <2>2. QED
    BY <1>1, <2>1, SlotIInv DEF RegisterNew, Begin, SocialSteps
<1>2. ASSUME NEW l \in Links, DecodeLink(p, l) PROVE IInv'
  <2> DEFINE r == [step |-> "mark", email |-> to[l], link |-> l, who |-> NoIdentity]
  <2>1. to[l] \in Emails
    BY <1>2 DEF DecodeLink, IInv, TypeOK
  <2>2. r \in Request
    BY <2>1 DEF Request, Steps
  <2>3. QED
    BY <1>2, <2>1, <2>2, SlotIInv, LinkAssumption
    DEF DecodeLink, Begin, SocialSteps
<1>3. QED
  BY <1>1, <1>2

\* A provider named an address for an identity; nothing else has happened yet.
LEMMA SocialLoginIInv ==
  ASSUME IInv, NEW p \in Procs, NEW i \in Identities, NEW e \in Emails, SocialLogin(p, i, e)
  PROVE  IInv'
<1>1. /\ req' = [req EXCEPT ![p] = [step |-> "bySocialId", email |-> e, link |-> NoLink,
                                    who |-> i]]
      /\ vouched' = vouched \cup {<<i, e>>}
      /\ UNCHANGED <<accounts, verified, verifyMailed, holder, to, exp, used, now,
                     spent, late, sessions>>
  BY DEF SocialLogin, Begin, people, links
<1>2. TypeOK'
  BY <1>1 DEF IInv, TypeOK, Request, Steps
<1>3. RequestsOK'
  BY <1>1, LinkAssumption DEF IInv, TypeOK, RequestsOK, SocialSteps, Spent
<1>4. SessionsAreEarned' /\ VerifiedIsVouched'
  BY <1>1 DEF IInv, TypeOK, SessionsAreEarned, VerifiedIsVouched, Vouched, Spent, At
<1>5. QED
  BY <1>1, <1>2, <1>3, <1>4, PeopleIInv

\* What a social login carries between its steps.
LEMMA SocialSlot ==
  ASSUME IInv, NEW p \in Procs, req[p].step \in SocialSteps
  PROVE  /\ req[p].who # NoIdentity /\ req[p].who \in Identities
         /\ req[p].email \in Emails /\ req[p].link = NoLink
         /\ <<req[p].who, req[p].email>> \in vouched
<1>1. req[p] \in Request
  BY DEF IInv, TypeOK
<1>2. QED
  BY <1>1 DEF IInv, RequestsOK, Request, SocialSteps

\* The two lookups: the account an identity holds is one it was vouched for.
LEMMA FindSocialIInv ==
  ASSUME IInv, NEW p \in Procs, FindBySocialId(p) \/ FindByEmail(p)
  PROVE  IInv'
<1> DEFINE i == req[p].who
<1>1. /\ req[p].step \in SocialSteps /\ i # NoIdentity /\ req[p].email \in Emails
      /\ req[p].link = NoLink /\ i \in Identities /\ <<i, req[p].email>> \in vouched
  BY SocialSlot DEF FindBySocialId, FindByEmail, At, SocialSteps
<1> DEFINE Goes(step, e) == [step |-> step, email |-> e, link |-> req[p].link, who |-> i]
<1>2. ASSUME NEW step \in Steps, NEW e \in Emails,
             req' = [req EXCEPT ![p] = Goes(step, e)],
             UNCHANGED <<people, links, used, now, history>>,
             step \in SocialSteps \cup {"issue"}, <<i, e>> \in vouched,
             step = "link" => e \in accounts,
             step = "issue" => e \in verified
      PROVE  IInv'
  <2>1. Goes(step, e) \in Request
    BY <1>1, <1>2 DEF IInv, TypeOK, Request
  <2>2. QED
    BY <1>1, <1>2, <2>1, SlotIInv DEF SocialSteps
<1>3. CASE FindBySocialId(p)
  <2>1. CASE holder[i] = NoEmail
    <3>1. /\ req' = [req EXCEPT ![p] = Goes("byEmail", req[p].email)]
          /\ UNCHANGED <<people, links, used, now, history>>
      BY <1>3, <2>1 DEF FindBySocialId, GoTo, Resume
    <3>2. QED
      BY <1>1, <1>2, <3>1 DEF Steps, SocialSteps
  <2>2. CASE holder[i] # NoEmail
    <3>1. /\ req' = [req EXCEPT ![p] = Goes("issue", holder[i])]
          /\ UNCHANGED <<people, links, used, now, history>>
      BY <1>3, <2>2 DEF FindBySocialId, Resume
    <3>2. holder[i] \in verified /\ <<i, holder[i]>> \in vouched /\ holder[i] \in Emails
      BY <1>1, <2>2 DEF IInv, TypeOK, VerifiedIsVouched
    <3>3. QED
      BY <1>2, <3>1, <3>2 DEF Steps
  <2>3. QED
    BY <2>1, <2>2
<1>4. CASE FindByEmail(p)
  <2>1. UNCHANGED <<people, links, used, now, history>>
    BY <1>4 DEF FindByEmail
  <2>2. CASE req[p].email \in accounts
    <3>1. req' = [req EXCEPT ![p] = Goes("link", req[p].email)]
      BY <1>4, <2>2 DEF FindByEmail, GoTo, Resume
    <3>2. QED
      BY <1>1, <1>2, <2>1, <2>2, <3>1 DEF Steps, SocialSteps
  <2>3. CASE req[p].email \notin accounts
    <3>1. req' = [req EXCEPT ![p] = Goes("create", req[p].email)]
      BY <1>4, <2>3 DEF FindByEmail, GoTo, Resume
    <3>2. QED
      BY <1>1, <1>2, <2>1, <3>1 DEF Steps, SocialSteps
  <2>4. QED
    BY <2>2, <2>3
<1>5. QED
  BY <1>3, <1>4

\* Writing the identity into an account, an old one or a new one: the account
\* becomes verified in the same commit, for the address the provider named.
LEMMA HoldIInv ==
  ASSUME IInv, NEW p \in Procs, LinkAccount(p) \/ CreateLinked(p)
  PROVE  IInv'
<1> DEFINE i == req[p].who
           e == req[p].email
<1>1. /\ req[p].step \in {"link", "create"} /\ i # NoIdentity /\ e \in Emails
      /\ req[p].link = NoLink /\ i \in Identities /\ <<i, e>> \in vouched
      /\ req[p].step = "link" => e \in accounts
  BY SocialSlot DEF LinkAccount, CreateLinked, At, IInv, RequestsOK, SocialSteps
<1>2. CASE Finish(p) /\ UNCHANGED <<people, links, used, now, history>>
  BY <1>2, FinishIInv
<1>3. CASE /\ accounts' = accounts \cup {e} /\ verified' = verified \cup {e}
           /\ holder' \in [Identities -> Emails \cup {NoEmail}]
           /\ \A j \in Identities : holder'[j] \in {holder[j], NoEmail} \/ (j = i /\ holder'[j] = e)
           /\ GoTo(p, "issue")
           /\ UNCHANGED <<verifyMailed, links, used, now, history>>
  <2>1. /\ req' = [req EXCEPT ![p] = [step |-> "issue", email |-> e, link |-> NoLink,
                                      who |-> i]]
        /\ UNCHANGED <<verifyMailed, to, exp, used, now, spent, late, sessions, vouched>>
    BY <1>1, <1>3 DEF GoTo, Resume, links, history
  <2>2. \A j \in Identities : holder'[j] \in accounts' \cup {NoEmail}
    BY <1>3 DEF IInv, TypeOK
  <2>3. TypeOK'
    <3>1. holder' \in [Identities -> accounts' \cup {NoEmail}]
      BY <1>3, <2>2
    <3>2. req' \in [Procs -> Request]
      BY <1>1, <2>1 DEF IInv, TypeOK, Request, Steps
    <3>3. QED
      BY <1>1, <1>3, <2>1, <3>1, <3>2 DEF IInv, TypeOK
  <2>4. RequestsOK'
    BY <1>1, <1>3, <2>1 DEF IInv, TypeOK, RequestsOK, SocialSteps, Spent
  <2>5. SessionsAreEarned'
    BY <1>3, <2>1 DEF IInv, SessionsAreEarned, Spent
  <2>6. VerifiedIsVouched'
    <3>1. \A x \in verified' : Vouched(x)'
      BY <1>1, <1>3, <2>1 DEF IInv, VerifiedIsVouched, Vouched, Spent
    <3>2. \A j \in Identities : holder'[j] # NoEmail =>
              holder'[j] \in verified' /\ <<j, holder'[j]>> \in vouched'
      BY <1>1, <1>3, <2>1 DEF IInv, VerifiedIsVouched
    <3>3. \A q \in Procs : At(q, "issue")' /\ req'[q].who # NoIdentity =>
              req'[q].email \in verified' /\ <<req'[q].who, req'[q].email>> \in vouched'
      BY <1>1, <1>3, <2>1 DEF IInv, TypeOK, VerifiedIsVouched, At
    <3>4. QED
      BY <3>1, <3>2, <3>3 DEF VerifiedIsVouched
  <2>7. QED
    BY <2>1, <2>3, <2>4, <2>5, <2>6, PeopleIInv
<1>4. CASE LinkAccount(p) /\ ~Finish(p)
  <2>1. /\ req[p].step = "link" /\ UNCHANGED <<accounts, verifyMailed, links, used, now,
                                               history>>
        /\ verified' = verified \cup {e} /\ GoTo(p, "issue")
        /\ holder' = [j \in Identities |-> IF j = i THEN e
                        ELSE IF j[1] = i[1] /\ holder[j] = e THEN NoEmail ELSE holder[j]]
    BY <1>4 DEF LinkAccount, At
  <2>2. accounts' = accounts \cup {e}
    BY <1>1, <2>1
  <2>3. \A j \in Identities : holder[j] \in Emails \cup {NoEmail}
    BY DEF IInv, TypeOK
  <2>4. QED
    BY <1>1, <1>3, <2>1, <2>2, <2>3
<1>5. CASE CreateLinked(p) /\ ~Finish(p)
  <2>1. /\ UNCHANGED <<verifyMailed, links, used, now, history>>
        /\ accounts' = accounts \cup {e} /\ verified' = verified \cup {e}
        /\ GoTo(p, "issue") /\ holder' = [holder EXCEPT ![i] = e]
    BY <1>5 DEF CreateLinked
  <2>2. holder \in [Identities -> Emails \cup {NoEmail}]
    BY DEF IInv, TypeOK
  <2>3. QED
    BY <1>1, <1>3, <2>1, <2>2
<1>6. Finish(p) => UNCHANGED <<people, links, used, now, history>>
  <2>1. Finish(p) => ~GoTo(p, "issue")
    BY <1>1 DEF Finish, GoTo, Resume, Idle, IInv, TypeOK
  <2>2. QED
    BY <2>1 DEF LinkAccount, CreateLinked, people
<1>7. QED
  BY <1>2, <1>4, <1>5, <1>6

\* The GC deletes the rows of expired links only, and a spent link has its row
\* or has expired.
LEMMA CleanupIInv ==
  ASSUME IInv, CleanupUsed
  PROVE  IInv'
<1>1. /\ used' = {l \in used : exp[l] >= now}
      /\ UNCHANGED <<accounts, verified, verifyMailed, holder, to, exp, req, now, spent,
                     late, sessions, vouched>>
  BY DEF CleanupUsed, people, links, history
<1>2. TypeOK' /\ LinksOK'
  BY <1>1 DEF IInv, TypeOK, LinksOK, SpentOnceInTime
<1>3. RequestsOK' /\ SessionsAreEarned' /\ VerifiedIsVouched'
  BY <1>1 DEF IInv, RequestsOK, SessionsAreEarned, VerifiedIsVouched, Vouched, Spent, At
<1>4. QED
  BY <1>2, <1>3 DEF IInv

LEMMA TickIInv ==
  ASSUME IInv, Tick
  PROVE  IInv'
<1>1. /\ now' = now + 1
      /\ UNCHANGED <<accounts, verified, verifyMailed, holder, to, exp, used, req, spent,
                     late, sessions, vouched>>
  BY DEF Tick, people, links, history
<1>2. TypeOK' /\ LinksOK'
  BY <1>1 DEF IInv, TypeOK, LinksOK, SpentOnceInTime
<1>3. RequestsOK' /\ SessionsAreEarned' /\ VerifiedIsVouched'
  BY <1>1 DEF IInv, RequestsOK, SessionsAreEarned, VerifiedIsVouched, Vouched, Spent, At
<1>4. QED
  BY <1>2, <1>3 DEF IInv

\* Verification mails: a new one is for an existing account, a returned one
\* verifies an account it was mailed to.
LEMMA VerifyIInv ==
  ASSUME IInv, NEW e \in Emails, ResendVerification(e) \/ verify_email_token(e)
  PROVE  IInv'
<1>1. /\ UNCHANGED <<accounts, holder, to, exp, used, req, now, spent, late, sessions,
                     vouched>>
      /\ \/ /\ e \in accounts /\ UNCHANGED verified
            /\ verifyMailed' = verifyMailed \cup {e}
         \/ /\ e \in verifyMailed /\ UNCHANGED verifyMailed
            /\ verified' = verified \cup {e}
  BY DEF ResendVerification, verify_email_token, links, history
<1>2. TypeOK'
  BY <1>1 DEF IInv, TypeOK
<1>3. RequestsOK'
  BY <1>1 DEF IInv, RequestsOK, SocialSteps, Spent
<1>4. SessionsAreEarned' /\ VerifiedIsVouched'
  BY <1>1 DEF IInv, TypeOK, RequestsOK, SocialSteps, SessionsAreEarned,
              VerifiedIsVouched, Vouched, Spent, At
<1>5. QED
  BY <1>1, <1>2, <1>3, <1>4, PeopleIInv

\* The inductive step.
LEMMA NextIInv == IInv /\ [Next]_vars => IInv'
<1> SUFFICES ASSUME IInv, [Next]_vars PROVE IInv'
  OBVIOUS
<1>1. ASSUME NEW p \in Procs, Step(p) PROVE IInv'
  BY <1>1, MarkIInv, MoveIInv, InsertIInv, MailIInv, StampIInv, IssueIInv,
     FindSocialIInv, HoldIInv DEF Step
<1>2. CASE UNCHANGED vars
  BY <1>2 DEF vars, IInv, TypeOK, LinksOK, SpentOnceInTime, RequestsOK,
              SessionsAreEarned, VerifiedIsVouched, Vouched, Spent, At
<1>3. QED
  BY <1>1, <1>2, MakeIInv, StartIInv, SocialLoginIInv, MoveIInv, VerifyIInv, CleanupIInv,
     TickIInv DEF Next

\* Every reachable state satisfies the strengthened invariant.
THEOREM Inductive == Spec => []IInv
  BY InitIInv, NextIInv, PTL DEF Spec

\* The tables and the requests have their types.
THEOREM TypeCorrect == Spec => []TypeOK
<1>1. IInv => TypeOK
  BY DEF IInv
<1>2. QED
  BY <1>1, Inductive, PTL

\* A link is spent at most once up to its expiry, however many requests present
\* it and whenever the GC runs.
THEOREM SpentOnce == Spec => []SpentOnceInTime
<1>1. IInv => SpentOnceInTime
  BY DEF IInv, LinksOK
<1>2. QED
  BY <1>1, Inductive, PTL

\* Every session obtained through a link was paid for with it and belongs to a
\* verified account.
THEOREM Earned == Spec => []SessionsAreEarned
<1>1. IInv => SessionsAreEarned
  BY DEF IInv
<1>2. QED
  BY <1>1, Inductive, PTL

\* A verified account was vouched for by its mailbox or by a provider, and an
\* identity opens only verified accounts of addresses its provider named.
THEOREM VouchedFor == Spec => []VerifiedIsVouched
<1>1. IInv => VerifiedIsVouched
  BY DEF IInv
<1>2. QED
  BY <1>1, Inductive, PTL
=============================================================================
