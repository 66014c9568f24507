------------------------------ MODULE ApiKeys ------------------------------
(***************************************************************************)
(* API keys: made, used and revoked by requests that authenticate with a   *)
(* key or with a session, erasure of their owners, and the audit events of *)
(* what was done.  Each request has its own transaction: last_used_at is   *)
(* set on the loaded row and written only if the endpoint commits, as the  *)
(* one column that changed.                                                *)
(*                                                                         *)
(* The table is the one made from models/api_key.py, on a database that    *)
(* takes a prefix of 16 characters for its 8; where it does not, every     *)
(* creation ends as in Abort_.                                             *)
(***************************************************************************)
EXTENDS Background

CONSTANTS
    Owners,   \* accounts, verified (the endpoints refuse others)
    Secrets,  \* raw keys (random: never made twice); their rows
    NoOwner, NoSecret

ASSUME KeyAssumption ==
    /\ NoOwner \notin Owners /\ NoSecret \notin Secrets
    /\ AuditEvents = {"created", "revoked"} \X Secrets

VARIABLES
    keyOwner,  \* keyOwner[k]: APIKey.user_id, NoOwner before k is made
    disabled,  \* keys with is_active = false
    lastUsed,  \* keys with a last_used_at
    erased,    \* owners with is_active = false
    work,      \* work[p]: the request in slot p
    gone,      \* history: keys that were revoked, ever
    answered   \* history: events of requests that were answered

keyVars == <<keyOwner, disabled, lastUsed, erased, work, gone, answered>>
keysVars == <<backgroundVars, keyVars>>

WorkSteps == {"idle", "owner", "endpoint", "revoke", "record"}

\* The key the request came with, if it did, and what was dead when it came;
\* the account it works for; the event it has committed or is about to.
Work == [step : WorkSteps, key : Secrets \cup {NoSecret}, dead : SUBSET Secrets,
         owner : Owners \cup {NoOwner}, event : AuditEvents \cup {NoEvent}]

NoWork == [step |-> "idle", key |-> NoSecret, dead |-> {}, owner |-> NoOwner,
           event |-> NoEvent]

KeysTypeOK ==
    /\ BackgroundTypeOK
    /\ keyOwner \in [Secrets -> Owners \cup {NoOwner}]
    /\ disabled \in SUBSET Secrets
    /\ lastUsed \in SUBSET Secrets
    /\ erased \in SUBSET Owners
    /\ work \in [Handlers -> Work]
    /\ gone \in SUBSET Secrets
    /\ answered \in SUBSET AuditEvents

KeysInit ==
    /\ BackgroundInit
    /\ keyOwner = [k \in Secrets |-> NoOwner]
    /\ disabled = {} /\ lastUsed = {} /\ erased = {}
    /\ work = [p \in Handlers |-> NoWork]
    /\ gone = {} /\ answered = {}

WorkAt(p, step) == work[p].step = step
Done(p) == work' = [work EXCEPT ![p] = NoWork]

Made == {k \in Secrets : keyOwner[k] # NoOwner}
Dead == gone \cup {k \in Made : keyOwner[k] \in erased}

-----------------------------------------------------------------------------
(* get_current_user.                                                       *)

\* A slot is taken when its last request and that one's task are over.
Admit(p, step, k, u) ==
    /\ process = "up"
    /\ WorkAt(p, "idle") /\ Quiet(p)
    /\ work' = [work EXCEPT ![p] = [step |-> step, key |-> k, dead |-> Dead, owner |-> u,
                                    event |-> NoEvent]]
    /\ UNCHANGED <<backgroundVars, keyOwner, disabled, lastUsed, erased, gone, answered>>

\* A token that is no API key names an account that is active.
get_current_user(p, u) == u \notin erased /\ Admit(p, "endpoint", NoSecret, u)

\* Variant: the row is found by its hash alone.
AuthenticateAnyRow(p, k) == k \in Made /\ Admit(p, "owner", k, keyOwner[k])

\* The row is found by hash and is_active ...
_authenticate_api_key(p, k) ==
    k \in Made \ disabled /\ Admit(p, "owner", k, keyOwner[k])

\* ... and then its owner, who must be active.
LoadOwner(p) ==
    /\ WorkAt(p, "owner")
    /\ IF work[p].owner \in erased THEN Done(p)
       ELSE work' = [work EXCEPT ![p].step = "endpoint"]
    /\ UNCHANGED <<backgroundVars, keyOwner, disabled, lastUsed, erased, gone, answered>>

-----------------------------------------------------------------------------
(* The endpoints.                                                          *)

\* Only reads, as every endpoint that does not commit.
list_api_keys(p) ==
    /\ WorkAt(p, "endpoint")
    /\ Done(p)
    /\ UNCHANGED <<backgroundVars, keyOwner, disabled, lastUsed, erased, gone, answered>>

\* The commit takes along what authentication has written to the row of the key.
Stamp(p) == lastUsed' = lastUsed \cup ({work[p].key} \ {NoSecret})

create_api_key(p, k) ==
    /\ WorkAt(p, "endpoint")
    /\ k \notin Made
    /\ keyOwner' = [keyOwner EXCEPT ![k] = work[p].owner]
    /\ Stamp(p)
    /\ work' = [work EXCEPT ![p].step = "record", ![p].event = <<"created", k>>]
    /\ UNCHANGED <<backgroundVars, disabled, erased, gone, answered>>

\* Variant: the event is recorded before the commit.
RevokeReadRecords(p, k) ==
    /\ WorkAt(p, "endpoint")
    /\ IF keyOwner[k] = work[p].owner
       THEN /\ work' = [work EXCEPT ![p].step = "revoke", ![p].event = <<"revoked", k>>]
            /\ record_audit_event(p, <<"revoked", k>>)
       ELSE Done(p) /\ UNCHANGED writing
    /\ UNCHANGED <<process, starts, auditLog, lost>>
    /\ UNCHANGED <<keyOwner, disabled, lastUsed, erased, gone, answered>>

\* The row is read, and must be the account's own (404 otherwise) ...
RevokeRead(p, k) ==
    /\ WorkAt(p, "endpoint")
    /\ IF keyOwner[k] = work[p].owner
       THEN work' = [work EXCEPT ![p].step = "revoke", ![p].event = <<"revoked", k>>]
       ELSE Done(p)
    /\ UNCHANGED <<backgroundVars, keyOwner, disabled, lastUsed, erased, gone, answered>>

\* ... then is_active is written, whatever it is by now.
revoke_api_key(p) ==
    /\ WorkAt(p, "revoke")
    /\ disabled' = disabled \cup {work[p].event[2]}
    /\ gone' = gone \cup {work[p].event[2]}
    /\ Stamp(p)
    /\ work' = [work EXCEPT ![p].step = "record"]
    /\ UNCHANGED <<backgroundVars, keyOwner, erased, answered>>

\* What is committed is recorded, and answered.
Record(p) ==
    /\ WorkAt(p, "record")
    /\ record_audit_event(p, work[p].event)
    /\ answered' = answered \cup {work[p].event}
    /\ Done(p)
    /\ UNCHANGED <<process, starts, auditLog, lost>>
    /\ UNCHANGED <<keyOwner, disabled, lastUsed, erased, gone>>

-----------------------------------------------------------------------------
(* The surroundings.                                                       *)

\* DELETE /account deactivates the owner; the rows of the keys stay.
Erase(u) ==
    /\ u \notin erased
    /\ erased' = erased \cup {u}
    /\ UNCHANGED <<backgroundVars, keyOwner, disabled, lastUsed, work, gone, answered>>

\* A request dies at an await; what it has committed stays, unrecorded.
Abort_(p) ==
    /\ ~WorkAt(p, "idle")
    /\ Done(p)
    /\ UNCHANGED <<backgroundVars, keyOwner, disabled, lastUsed, erased, gone, answered>>

\* Requests are over before lifespan goes on, unless the process is killed.
StopServing == /\ \A p \in Handlers : WorkAt(p, "idle")
               /\ ShutDown /\ UNCHANGED keyVars

EndProcess ==
    /\ Exit
    /\ work' = [p \in Handlers |-> NoWork]
    /\ UNCHANGED <<keyOwner, disabled, lastUsed, erased, gone, answered>>

KeysNext ==
    \/ \E p \in Handlers :
          \/ \E u \in Owners : get_current_user(p, u)
          \/ \E k \in Secrets :
                _authenticate_api_key(p, k) \/ create_api_key(p, k) \/ RevokeRead(p, k)
          \/ LoadOwner(p) \/ list_api_keys(p) \/ revoke_api_key(p) \/ Record(p) \/ Abort_(p)
          \/ WriteAudit(p) /\ UNCHANGED keyVars
    \/ \E u \in Owners : Erase(u)
    \/ StartUp /\ UNCHANGED keyVars
    \/ StopServing
    \/ EndProcess

KeysSpec == KeysInit /\ [][KeysNext]_keysVars

-----------------------------------------------------------------------------
(* Properties.                                                             *)

\* A key that was revoked, or whose owner was erased, before a request came
\* with it never gets that request to its endpoint (_authenticate_api_key),
\* however the request's two reads and its late UPDATE of last_used_at
\* interleave with revocations and erasures, and after every restart.
DeadKeysOpenNothing ==
    \A p \in Handlers : WorkAt(p, "endpoint") \/ WorkAt(p, "revoke") \/ WorkAt(p, "record")
        => work[p].key \notin work[p].dead

\* What happened to the keys, as far as an event can be about it.
Happened(e) == IF e[1] = "created" THEN e[2] \in Made ELSE e[2] \in disabled

\* The audit trail tells the truth and, of requests that were answered, the
\* whole truth: an event is recorded after the commit it is about, and its task
\* leaves it in the log unless the write fails or the process ends first.
AuditTrail ==
    /\ \A e \in auditLog : Happened(e)
    /\ \A e \in answered : e \in auditLog \cup lost \/ \E p \in Handlers : writing[p] = e
=============================================================================
