----------------------------- MODULE Background -----------------------------
(***************************************************************************)
(* One worker process, from start to exit, and what it does behind the     *)
(* back of its requests: record_audit_event hands an event to a task that  *)
(* nobody awaits.  The database outlives the process, the tasks do not.    *)
(***************************************************************************)
EXTENDS Naturals

CONSTANTS
    Handlers,     \* requests in flight at the same time, each with its task
    AuditEvents,  \* what may be recorded
    NoEvent,
    MaxStarts     \* bound on the starts of the process

ASSUME BackgroundAssumption == NoEvent \notin AuditEvents /\ MaxStarts \in Nat

VARIABLES
    process,   \* "down", "up", "leaving" (behind the yield of lifespan)
    starts,
    writing,   \* writing[p]: the event the task of slot p is to write, or NoEvent
    auditLog,  \* rows of audit_log
    lost       \* history: events whose task failed or was cancelled

backgroundVars == <<process, starts, writing, auditLog, lost>>

BackgroundTypeOK ==
    /\ process \in {"down", "up", "leaving"}
    /\ starts \in Nat
    /\ writing \in [Handlers -> AuditEvents \cup {NoEvent}]
    /\ auditLog \in SUBSET AuditEvents
    /\ lost \in SUBSET AuditEvents

BackgroundInit ==
    /\ process = "down"
    /\ starts = 0
    /\ writing = [p \in Handlers |-> NoEvent]
    /\ auditLog = {}
    /\ lost = {}

Quiet(p) == writing[p] = NoEvent

\* record_audit_event: the task is created, and kept in _active_tasks until it
\* is done.
record_audit_event(p, e) == writing' = [writing EXCEPT ![p] = e]

\* Variant: without _active_tasks nothing but the event loop's weak reference
\* holds a task: it may vanish.
WriteUnheld(p) ==
    /\ ~Quiet(p)
    /\ auditLog' \in {auditLog, auditLog \cup {writing[p]}}
    /\ writing' = [writing EXCEPT ![p] = NoEvent]
    /\ UNCHANGED <<process, starts, lost>>

\* The task writes its row in a session of its own, or logs that it could not.
WriteAudit(p) ==
    /\ ~Quiet(p)
    /\ \/ auditLog' = auditLog \cup {writing[p]} /\ UNCHANGED lost
       \/ lost' = lost \cup {writing[p]} /\ UNCHANGED auditLog
    /\ writing' = [writing EXCEPT ![p] = NoEvent]
    /\ UNCHANGED <<process, starts>>

\* lifespan up to its yield.  A failed check leaves the process down; whether
\* Redis answers is the choice of the initial states of RateLimiter and Lockout.
StartUp ==
    /\ process = "down" /\ starts < MaxStarts
    /\ process' = "up"
    /\ starts' = starts + 1
    /\ UNCHANGED <<writing, auditLog, lost>>

\* The requests are answered, lifespan goes on behind its yield: engine, Redis
\* and HTTP client are closed one after the other, the GC is cancelled.  Tasks
\* run on: a disposed engine opens a new connection.
ShutDown ==
    /\ process = "up"
    /\ process' = "leaving"
    /\ UNCHANGED <<starts, writing, auditLog, lost>>

\* The event loop ends, or the process is killed: tasks are cancelled.
Exit ==
    /\ process # "down"
    /\ process' = "down"
    /\ writing' = [p \in Handlers |-> NoEvent]
    /\ lost' = lost \cup ({writing[p] : p \in Handlers} \ {NoEvent})
    /\ UNCHANGED <<starts, auditLog>>
=============================================================================
