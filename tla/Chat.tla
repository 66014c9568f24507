-------------------------------- MODULE Chat --------------------------------
(***************************************************************************)
(* A conversation about one document: the chat view of the browser, the    *)
(* streamed POST /chat/stream it tries first, the POST /chat/ it falls     *)
(* back to, and the chat tables.                                           *)
(*                                                                         *)
(* Each click on Send is an ask.  Its handler streams, and when the stream *)
(* does not end with a done event - an error, a lost connection, or the    *)
(* user pressing Stop - it posts the same message again without streaming. *)
(* A request goes on at the server whatever becomes of its client.  Ids    *)
(* are given out in order, so tables are sequences.                        *)
(***************************************************************************)
EXTENDS Integers, Sequences

CONSTANTS
    MaxAsks,       \* bound on the clicks on Send
    HistoryLimit,  \* messages read back into a prompt (10 in the code)
    MaxRetries,    \* of generate_full (2 in the code)
    MaxFaults      \* bound on failures, stops, lost connections, time-outs

ASSUME MaxAsksAssumption == MaxAsks \in Nat
ASSUME HistoryLimitAssumption == HistoryLimit \in Nat \ {0}
ASSUME MaxRetriesAssumption == MaxRetries \in Nat
ASSUME MaxFaultsAssumption == MaxFaults \in Nat

VARIABLES
    log,    \* log[s]: the messages of chat session s, oldest first
    req,    \* req[r]: what the handler of request r knows and does next
    view,   \* the chat view: its session (0: none), flags, and abortRef
    run,    \* run[a]: how far the click handler of ask a has come
    faults  \* how many things went wrong, at most MaxFaults

vars == <<log, req, view, run, faults>>

Asks == 1 .. MaxAsks
Requests == Asks \X {"stream", "full"}

Steps == {"unsent", "open", "history", "model", "store", "over"}

Message == [role : {"user", "assistant", "partial"}, by : Requests]

Sessions == 0 .. 2 * MaxAsks

TypeOK ==
    /\ log \in Seq(Seq(Message)) /\ Len(log) \in Sessions
    /\ req \in [Requests ->
         [step : Steps, session : Sessions, seen : Nat, attempt : 0 .. MaxRetries,
          answer : {"none", "ok", "error"}]]
    /\ view \in [session : 0 .. Len(log), loading : BOOLEAN, streaming : BOOLEAN,
                 ref : 0 .. MaxAsks]
    /\ run \in [Asks ->
         [phase : {"none", "stream", "fallback", "done"}, session : Sessions,
          stopped : BOOLEAN, shown : {"none", "stream", "full"}]]
    /\ faults \in 0 .. MaxFaults
    /\ view.streaming => view.ref # 0

Init ==
    /\ log = <<>>
    /\ req = [r \in Requests |-> [step |-> "unsent", session |-> 0, seen |-> 0,
                                  attempt |-> 0, answer |-> "none"]]
    /\ view = [session |-> 0, loading |-> FALSE, streaming |-> FALSE, ref |-> 0]
    /\ run = [a \in Asks |-> [phase |-> "none", session |-> 0, stopped |-> FALSE,
                              shown |-> "none"]]
    /\ faults = 0

At(r, step) == req[r].step = step
GoTo(r, step) == req' = [req EXCEPT ![r].step = step]

\* The handler is over, its locals are gone.
EndWith(r, answer) ==
    req' = [req EXCEPT ![r] = [step |-> "over", session |-> @.session, seen |-> 0,
                               attempt |-> 0, answer |-> answer]]

Fault == faults < MaxFaults /\ faults' = faults + 1

\* INSERT of messages into a session, and COMMIT.
Store(s, entries) == log' = [log EXCEPT ![s] = @ \o entries]

Full(r) == <<[role |-> "assistant", by |-> r]>>
Partial(r) == <<[role |-> "partial", by |-> r]>>

-----------------------------------------------------------------------------
(* The server, both kinds of request.                                      *)

\* A request without a session creates one, by a commit of its own.
OpenSession(r) ==
    /\ At(r, "open") /\ req[r].session = 0
    /\ log' = Append(log, <<>>)
    /\ req' = [req EXCEPT ![r].session = Len(log) + 1]
    /\ UNCHANGED <<view, run, faults>>

InsertQuestion(r) ==
    /\ At(r, "open") /\ req[r].session # 0
    /\ Store(req[r].session, <<[role |-> "user", by |-> r]>>)
    /\ GoTo(r, "history")
    /\ UNCHANGED <<view, run, faults>>

\* The last messages of session s as of its n-th, oldest first.
Window(s, n) ==
    SubSeq(log[s], IF n > HistoryLimit THEN n - HistoryLimit + 1 ELSE 1, n)

Prompt(r) == Window(req[r].session, req[r].seen)

ReadHistory(r) ==
    /\ At(r, "history")
    /\ req' = [req EXCEPT ![r].step = "model", ![r].seen = Len(log[req[r].session])]
    /\ UNCHANGED <<log, view, run, faults>>

\* Variant: done is announced first, the reply is committed behind it.
StoreReplyLate(r) ==
    /\ At(r, "store")
    /\ \/ req[r].answer = "none" /\ req' = [req EXCEPT ![r].answer = "ok"] /\ UNCHANGED log
       \/ req[r].answer = "ok" /\ Store(req[r].session, Full(r)) /\ GoTo(r, "over")
    /\ UNCHANGED <<view, run, faults>>

\* The reply is committed, and answered with the id of its session.
StoreReply(r) ==
    /\ At(r, "store")
    /\ Store(req[r].session, Full(r))
    /\ EndWith(r, "ok")
    /\ UNCHANGED <<view, run, faults>>

\* What a failing handler may leave in the table: the reply, if its commit went
\* through ...
LateReply(r) == IF At(r, "store") THEN {<<>>, Full(r)} ELSE {<<>>}

\* ... and the part that was streamed, if the generator was cancelled (client
\* gone, shutdown), something had arrived and its commit was not cancelled too.
Interrupted(r) ==
    IF r[2] = "stream" /\ req[r].step \in {"model", "store"} THEN {<<>>, Partial(r)} ELSE {<<>>}

\* A refusal (document deleted, session of someone else), a failed model call
\* or commit, a cancellation: what has been committed stays.
Fail(r) ==
    /\ req[r].step \notin {"unsent", "over"}
    /\ IF req[r].session = 0 THEN UNCHANGED log
       ELSE \E full \in LateReply(r), partial \in Interrupted(r) :
                Store(req[r].session, full \o partial)
    /\ EndWith(r, "error")
    /\ Fault
    /\ UNCHANGED <<view, run>>

-----------------------------------------------------------------------------
(* The model.                                                              *)

\* Variant: a transport error starts the count again.
CallModelAfresh(r) ==
    /\ r[2] = "full" /\ At(r, "model")
    /\ \/ GoTo(r, "store")
       \/ req' = [req EXCEPT ![r].attempt = IF @ < MaxRetries THEN @ + 1 ELSE 0]
    /\ UNCHANGED <<log, view, run, faults>>

\* generate_full: an overload or transport error is retried after a pause; the
\* last attempt's failure, and any other, is raised (Fail).
CallModel(r) ==
    /\ r[2] = "full" /\ At(r, "model")
    /\ \/ GoTo(r, "store")
       \/ /\ req[r].attempt < MaxRetries
          /\ req' = [req EXCEPT ![r].attempt = @ + 1]
    /\ UNCHANGED <<log, view, run, faults>>

\* The client no longer reads the stream of its ask.
Gone(a) == run[a].stopped \/ run[a].phase # "stream"

\* After a delta the client is found gone: nothing is stored.
NoticeGone(r) ==
    /\ r[2] = "stream" /\ At(r, "model") /\ Gone(r[1])
    /\ EndWith(r, "error")
    /\ UNCHANGED <<log, view, run, faults>>

\* generate_stream is through, with [DONE] or at the end of the connection.
StreamEnds(r) ==
    /\ r[2] = "stream" /\ At(r, "model")
    /\ GoTo(r, "store")
    /\ UNCHANGED <<log, view, run, faults>>

-----------------------------------------------------------------------------
(* The chat view.                                                          *)

Underway(a) == run[a].phase \in {"stream", "fallback"}

\* Variant: the input is not disabled while a stream is read.
SendAnyTime(a) ==
    /\ run[a].phase = "none" /\ \A b \in Asks : b < a => run[b].phase # "none"
    /\ ~view.loading
    /\ run' = [run EXCEPT ![a].phase = "stream", ![a].session = view.session]
    /\ view' = [view EXCEPT !.streaming = TRUE, !.ref = a]
    /\ req' = [req EXCEPT ![<<a, "stream">>].step = "open",
                          ![<<a, "stream">>].session = view.session]
    /\ UNCHANGED <<log, faults>>

\* handleSend up to its first await; asks are numbered by their clicks.
Send(a) ==
    /\ run[a].phase = "none" /\ \A b \in Asks : b < a => run[b].phase # "none"
    /\ ~view.loading /\ ~view.streaming
    /\ run' = [run EXCEPT ![a].phase = "stream", ![a].session = view.session]
    /\ view' = [view EXCEPT !.streaming = TRUE, !.ref = a]
    /\ req' = [req EXCEPT ![<<a, "stream">>].step = "open",
                          ![<<a, "stream">>].session = view.session]
    /\ UNCHANGED <<log, faults>>

\* Variant: the streaming flag stays set.
StopKeepsStreaming ==
    /\ view.streaming
    /\ run' = [run EXCEPT ![view.ref].stopped = TRUE]
    /\ view' = [view EXCEPT !.loading = FALSE, !.ref = 0]
    /\ Fault
    /\ UNCHANGED <<log, req>>

\* cancelChatStream: the handler notices the abort later.
Stop ==
    /\ view.streaming
    /\ run' = [run EXCEPT ![view.ref].stopped = TRUE]
    /\ view' = [view EXCEPT !.streaming = FALSE, !.loading = FALSE, !.ref = 0]
    /\ Fault
    /\ UNCHANGED <<log, req>>

\* Variant: the session's id is not taken over.
StreamDoneForgets(a) ==
    /\ run[a].phase = "stream" /\ ~run[a].stopped /\ req[<<a, "stream">>].answer = "ok"
    /\ run' = [run EXCEPT ![a].phase = "done", ![a].shown = "stream"]
    /\ view' = [view EXCEPT !.streaming = FALSE, !.ref = 0]
    /\ UNCHANGED <<log, req, faults>>

\* The done event.
StreamDone(a) ==
    /\ run[a].phase = "stream" /\ ~run[a].stopped /\ req[<<a, "stream">>].answer = "ok"
    /\ run' = [run EXCEPT ![a].phase = "done", ![a].shown = "stream"]
    /\ view' = [view EXCEPT !.session = req[<<a, "stream">>].session,
                            !.streaming = FALSE, !.ref = 0]
    /\ UNCHANGED <<log, req, faults>>

\* The message is posted again, with the session known at the click.
FallBack(a) ==
    /\ run[a].phase = "stream"
    /\ run' = [run EXCEPT ![a].phase = "fallback"]
    /\ view' = [view EXCEPT !.streaming = FALSE, !.loading = TRUE, !.ref = 0]
    /\ req' = [req EXCEPT ![<<a, "full">>].step = "open",
                          ![<<a, "full">>].session = run[a].session]
    /\ UNCHANGED log

StreamFailed(a) ==
    /\ run[a].stopped \/ req[<<a, "stream">>].answer = "error"
    /\ FallBack(a)
    /\ UNCHANGED faults

\* The connection breaks before the done event, whatever the server has done.
StreamBroken(a) == req[<<a, "stream">>].step # "unsent" /\ FallBack(a) /\ Fault

FallbackDone(a) ==
    /\ run[a].phase = "fallback" /\ req[<<a, "full">>].answer = "ok"
    /\ run' = [run EXCEPT ![a].phase = "done", ![a].shown = "full"]
    /\ view' = [view EXCEPT !.session = req[<<a, "full">>].session, !.loading = FALSE]
    /\ UNCHANGED <<log, req, faults>>

\* An error is shown: the request failed or (timedOut) took more than two
\* minutes and was given up by the client alone.
FallbackFailed(a, timedOut) ==
    /\ run[a].phase = "fallback"
    /\ IF timedOut THEN Fault ELSE req[<<a, "full">>].answer = "error" /\ UNCHANGED faults
    /\ run' = [run EXCEPT ![a].phase = "done"]
    /\ view' = [view EXCEPT !.loading = FALSE]
    /\ UNCHANGED <<log, req>>

Serve(r) ==
    \/ OpenSession(r) \/ InsertQuestion(r) \/ ReadHistory(r)
    \/ CallModel(r) \/ StreamEnds(r) \/ NoticeGone(r)
    \/ StoreReply(r)

Receive(a) == StreamDone(a) \/ StreamFailed(a) \/ FallbackDone(a) \/ FallbackFailed(a, FALSE)

Next ==
    \/ \E r \in Requests : Serve(r) \/ Fail(r)
    \/ \E a \in Asks : Send(a) \/ Receive(a) \/ StreamBroken(a) \/ FallbackFailed(a, TRUE)
    \/ Stop

Spec == Init /\ [][Next]_vars

\* Handlers run on (the calls to the model have timeouts) and the browser
\* handles what arrives.  Nobody has to press Send or Stop, and nothing has to
\* fail.
FairSpec ==
    /\ Spec
    /\ \A r \in Requests : WF_vars(Serve(r))
    /\ \A a \in Asks : WF_vars(Receive(a))

-----------------------------------------------------------------------------
(* Properties.                                                             *)

\* No stream has been stopped, has failed or was given up so far.
Calm == \A a \in Asks : ~run[a].stopped /\ req[<<a, "full">>].step = "unsent"

\* A prompt alternates between the roles and ends with the question asked.
WellFormed(r) ==
    LET p == Prompt(r) IN
    /\ p[Len(p)] = [role |-> "user", by |-> r]
    /\ \A i \in 1 .. Len(p) - 1 : (p[i].role = "user") # (p[i + 1].role = "user")

\* As long as streams end well, the conversation is what the user sees: one
\* ask at a time (handleSend's guard on loading and streaming), all in one
\* session (the id of the done event), and each prompt the alternating window
\* of HISTORY_LIMIT messages that ends with its question - so a reply is in
\* the table before the view lets the next question out.
CalmConversation ==
    Calm => /\ \A a, b \in Asks : Underway(a) /\ Underway(b) => a = b
            /\ (view.loading \/ view.streaming) <=> \E a \in Asks : Underway(a)
            /\ Len(log) <= 1
            /\ \A r \in Requests : At(r, "model") => WellFormed(r)

\* Stored by whom, in which role, how often.
Stored(s, r, role) == {i \in 1 .. Len(log[s]) : log[s][i] = [role |-> role, by |-> r]}

\* Whatever is stopped, cancelled, retried or lost: every stored reply follows
\* the question of its own request in the same session, and a reply the view
\* shows as complete is stored there exactly once, never also as interrupted.
RepliesAnswer ==
    \A s \in 1 .. Len(log), r \in Requests :
        LET asked == Stored(s, r, "user")
            full == Stored(s, r, "assistant")
            partial == Stored(s, r, "partial") IN
        /\ \A i \in full \cup partial : \E j \in asked : j < i
        /\ run[r[1]].shown = r[2] /\ req[r].session = s
              => partial = {} /\ \E i \in full : full = {i}

\* Refinement mapping: how many questions were put, and how far the last one is.
Clicked == CHOOSE n \in 0 .. MaxAsks : \A a \in Asks : run[a].phase # "none" <=> a <= n

Disturbed ==
    \/ ~Calm
    \/ \E a \in Asks : run[a].phase = "stream" /\ req[<<a, "stream">>].answer = "error"

dialogueStage ==
    IF Disturbed THEN "disturbed"
    ELSE IF \A a \in Asks : ~Underway(a) THEN "idle"
    ELSE LET step == req[<<Clicked, "stream">>].step IN
         CASE step = "open" -> "asking"
           [] step = "over" -> "answered"
           [] OTHER -> "waiting"

Dialogue == INSTANCE Conversation
              WITH asked <- Clicked, stage <- dialogueStage,
                   record <- IF log = <<>> THEN <<>> ELSE log[1],
                   Question <- [a \in Asks |-> [role |-> "user", by |-> <<a, "stream">>]],
                   Answer <- [a \in Asks |-> [role |-> "assistant", by |-> <<a, "stream">>]]

\* The view, the handlers and the tables together implement the conversation:
\* a question is committed before the model is called, its reply before it is
\* announced (process_chat_message), and the next click waits for the
\* announcement (handleSend); whatever fails or is stopped, no message of the
\* conversation's session is lost or changed.
ImplementsConversation == Dialogue!Spec

\* Every click ends, with a reply or an error: a failed stream leads to one
\* fallback and the retries of the model call are bounded.
SendEnds == \A a \in Asks : Underway(a) ~> ~Underway(a)
=============================================================================
