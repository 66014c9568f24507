---------------------------- MODULE SummaryView ----------------------------
(***************************************************************************)
(* The summarizer page: useSummarizer with its streaming state, the two    *)
(* instances of useSummaryHistory that share one localStorage key, and     *)
(* what they hear from POST /summarize/stream and POST /summarize.         *)
(*                                                                         *)
(* Each click is a run of handleSummarize.  It saves the document, streams *)
(* and, when the stream ends in any way but with a done event, asks again  *)
(* without streaming.  Nothing stops a run for good: Stop aborts the       *)
(* stream, and the run goes on to its fallback.                            *)
(***************************************************************************)
EXTENDS Naturals, Sequences, FiniteSets

CONSTANTS
    MaxRuns,     \* bound on the clicks on Summarize
    MaxEntries,  \* of a history (20 in the code)
    MaxEvents    \* bound on broken connections and on what the user does besides

ASSUME ViewBounds == MaxRuns \in Nat /\ MaxEntries \in Nat \ {0} /\ MaxEvents \in Nat

VARIABLES
    ui,     \* the state of the page; 0 stands for none where a run is named
    run,    \* run[r]: how far the handler of the r-th click has come
    server, \* server[r]: the generator of the stream of run r
    chan,   \* chan[r]: its events on the way to the page
    hook,   \* history of the instance inside useSummarizer, newest first
    app,    \* history of the instance in AppContext (sidebar, App)
    saved,  \* localStorage["probexr_history"]
    events, \* how many broken connections and interventions so far
    calm    \* history: nobody intervened and no model answered with nothing

histories == <<hook, app, saved>>
vars == <<ui, run, server, chan, histories, events, calm>>

Runs == 1 .. MaxRuns
\* A silent error event has an empty message: str() of a timeout of httpx is "".
Event == {"token", "takeaways", "done", "error", "silent"}

TypeOK ==
    /\ ui \in [loading : BOOLEAN, streaming : BOOLEAN, ref : 0 .. MaxRuns,
               partial : 0 .. MaxRuns, summary : 0 .. MaxRuns, takeaways : 0 .. MaxRuns,
               document : 0 .. MaxRuns, success : BOOLEAN, timers : 0 .. MaxRuns]
    /\ run \in [Runs -> [phase : {"none", "ingest", "stream", "fallback", "failed",
                                  "streamed", "posted"},
                         aborted : BOOLEAN, some : BOOLEAN]]
    /\ server \in [Runs -> {"off", "prepare", "model", "more", "after", "error", "silent",
                            "over", "overError", "overSilent"}]
    /\ chan \in [Runs -> Seq(Event)]
    /\ {hook, app, saved} \subseteq UNION {[1 .. n -> Runs] : n \in 0 .. MaxEntries}
    /\ events \in 0 .. MaxEvents
    /\ calm \in BOOLEAN

Init ==
    /\ ui = [loading |-> FALSE, streaming |-> FALSE, ref |-> 0, partial |-> 0,
             summary |-> 0, takeaways |-> 0, document |-> 0, success |-> FALSE, timers |-> 0]
    /\ run = [r \in Runs |-> [phase |-> "none", aborted |-> FALSE, some |-> FALSE]]
    /\ server = [r \in Runs |-> "off"]
    /\ chan = [r \in Runs |-> <<>>]
    /\ hook = <<>> /\ app = <<>> /\ saved = <<>>
    /\ events = 0
    /\ calm = TRUE

Busy == ui.loading \/ ui.streaming
In(r, phase) == run[r].phase = phase
Underway(r) == run[r].phase \in {"ingest", "stream", "fallback"}
Intervene == events < MaxEvents /\ events' = events + 1

\* Variant: the list is not cut.
WithEntryUncut(list, r) == <<r>> \o list

\* saveHistory's list with one more entry.
WithEntry(list, r) ==
    LET longer == <<r>> \o list IN
    SubSeq(longer, 1, IF Len(longer) > MaxEntries THEN MaxEntries ELSE Len(longer))

-----------------------------------------------------------------------------
(* The generator of POST /summarize/stream.                                *)

\* An event reaches the page only while the run reads its stream.
Emit(r, list) ==
    chan' = [chan EXCEPT ![r] = IF In(r, "stream") THEN @ \o list ELSE @]

\* Too short a text, or no provider: the extractive summary comes as one token.
Prepare(r) ==
    /\ server[r] = "prepare"
    /\ \/ server' = [server EXCEPT ![r] = "model"] /\ UNCHANGED chan
       \/ /\ server' = [server EXCEPT ![r] = "over"]
          /\ Emit(r, <<"token", "takeaways", "done">>)
       \/ /\ server' = [server EXCEPT ![r] = "overError"]
          /\ Emit(r, <<"error", "done">>)
    /\ UNCHANGED <<ui, run, histories, events, calm>>

\* Tokens (one stands for all), then the end of the stream, or an error event,
\* which does not end the generator.
StreamLLM(r) ==
    /\ \/ /\ server[r] = "model"
          /\ server' = [server EXCEPT ![r] = "more"]
          /\ Emit(r, <<"token">>)
       \/ /\ server[r] \in {"model", "more"}
          /\ server' = [server EXCEPT ![r] = "after"]
          /\ UNCHANGED chan
       \/ /\ server[r] \in {"model", "more"}
          /\ \E error \in {"error", "silent"} :
                server' = [server EXCEPT ![r] = error] /\ Emit(r, <<error>>)
    /\ UNCHANGED <<ui, run, histories, events, calm>>

\* Metadata, the second model call for takeaways, and done: after an error too.
Finish(r) ==
    /\ server[r] \in {"after", "error", "silent"}
    /\ server' = [server EXCEPT ![r] = CASE @ = "after" -> "over"
                                         [] @ = "error" -> "overError"
                                         [] @ = "silent" -> "overSilent"]
    /\ Emit(r, <<"takeaways", "done">>)
    /\ UNCHANGED <<ui, run, histories, events, calm>>

Generate(r) == Prepare(r) \/ StreamLLM(r) \/ Finish(r)

-----------------------------------------------------------------------------
(* handleSummarize.                                                        *)

\* Variant: the status of the last run stays until its timer.
ClickKeepsStatus(r) ==
    /\ In(r, "none") /\ \A q \in Runs : q < r => ~In(q, "none")
    /\ ~Busy
    /\ ui' = [ui EXCEPT !.loading = TRUE, !.document = 0, !.summary = 0, !.partial = 0,
                        !.takeaways = 0]
    /\ run' = [run EXCEPT ![r].phase = "ingest"]
    /\ UNCHANGED <<server, chan, histories, events, calm>>

\* Up to the first await; runs are numbered by their clicks.
Click(r) ==
    /\ In(r, "none") /\ \A q \in Runs : q < r => ~In(q, "none")
    /\ ~Busy
    /\ ui' = [ui EXCEPT !.loading = TRUE, !.document = 0, !.summary = 0, !.partial = 0,
                        !.takeaways = 0, !.success = FALSE]
    /\ run' = [run EXCEPT ![r].phase = "ingest"]
    /\ UNCHANGED <<server, chan, histories, events, calm>>

\* catch and finally; this status too is cleared by a timer.
GiveUp(r) ==
    /\ run' = [run EXCEPT ![r].phase = "failed"]
    /\ ui' = [ui EXCEPT !.streaming = FALSE, !.partial = 0, !.success = FALSE, !.timers = @ + 1,
                        !.loading = FALSE, !.ref = 0]
    /\ UNCHANGED <<histories, calm>>

\* The document is saved (saved = TRUE), or, for pasted text, could not be; a
\* page that cannot be fetched ends the run.
Ingested(r) ==
    /\ In(r, "ingest")
    /\ \/ /\ \E document \in {r, ui.document} :
                ui' = [ui EXCEPT !.document = document, !.ref = r, !.streaming = TRUE,
                                 !.loading = FALSE]
          /\ run' = [run EXCEPT ![r].phase = "stream"]
          /\ server' = [server EXCEPT ![r] = "prepare"]
          /\ UNCHANGED <<histories, calm>>
       \/ GiveUp(r) /\ UNCHANGED server
    /\ UNCHANGED <<chan, events>>

\* A success: both histories learn of it, that of App by its effect on the
\* status, which runs only if the status was not "success" already and there is
\* a text.  The timer that clears the status is set.
Succeed(r, phase, some, next) ==
    /\ run' = [run EXCEPT ![r].phase = phase]
    /\ ui' = [next EXCEPT !.summary = IF some THEN r ELSE 0, !.success = TRUE, !.timers = @ + 1,
                          !.loading = FALSE, !.ref = 0]
    /\ hook' = WithEntry(hook, r)
    /\ IF some /\ ~ui.success
       THEN app' = WithEntry(app, r) /\ saved' = app'
       ELSE saved' = hook' /\ UNCHANGED app
    /\ calm' = (calm /\ some)

\* Variant: the failed stream is opened again.
FallBackStreams(r) ==
    /\ In(r, "stream")
    /\ ui' = [ui EXCEPT !.partial = 0]
    /\ server' = [server EXCEPT ![r] = "prepare"]
    /\ chan' = [chan EXCEPT ![r] = <<>>]
    /\ UNCHANGED <<run, histories, calm>>

\* Variant: the streaming flag stays set.
FallBackStreaming(r) ==
    /\ In(r, "stream")
    /\ run' = [run EXCEPT ![r].phase = "fallback"]
    /\ ui' = [ui EXCEPT !.partial = 0, !.summary = 0, !.loading = TRUE, !.ref = 0]
    /\ chan' = [chan EXCEPT ![r] = <<>>]
    /\ UNCHANGED <<server, histories, calm>>

\* The stream is over without done: POST /summarize.
FallBack(r) ==
    /\ In(r, "stream")
    /\ run' = [run EXCEPT ![r].phase = "fallback"]
    /\ ui' = [ui EXCEPT !.streaming = FALSE, !.partial = 0, !.loading = TRUE, !.ref = 0]
    /\ chan' = [chan EXCEPT ![r] = <<>>]
    /\ UNCHANGED <<server, histories, calm>>

Pop(r) == chan' = [chan EXCEPT ![r] = Tail(@)]

Streamed(r) ==
    /\ Succeed(r, "streamed", run[r].some, [ui EXCEPT !.partial = 0, !.streaming = FALSE])
    /\ chan' = [chan EXCEPT ![r] = <<>>]
    /\ UNCHANGED server

\* Variant: an error event does not end the reading.
ReadPastError(r) ==
    /\ In(r, "stream") /\ ~run[r].aborted /\ chan[r] # <<>>
    /\ IF Head(chan[r]) = "done" THEN Streamed(r)
       ELSE Pop(r) /\ UNCHANGED <<ui, run, server, histories, calm>>
    /\ UNCHANGED events

\* streamRequest's loop takes the next event; a silent error is passed over.
Read(r) ==
    /\ In(r, "stream") /\ ~run[r].aborted /\ chan[r] # <<>>
    /\ LET event == Head(chan[r]) IN
       \/ /\ event = "token"
          /\ ui' = [ui EXCEPT !.partial = r]
          /\ run' = [run EXCEPT ![r].some = TRUE]
          /\ Pop(r)
          /\ UNCHANGED <<server, histories, calm>>
       \/ /\ event = "takeaways"
          /\ ui' = [ui EXCEPT !.takeaways = r]
          /\ Pop(r)
          /\ UNCHANGED <<run, server, histories, calm>>
       \/ event = "done" /\ Streamed(r)
       \/ event = "error" /\ FallBack(r)
       \/ event = "silent" /\ Pop(r) /\ UNCHANGED <<ui, run, server, histories, calm>>
    /\ UNCHANGED events

\* The aborted fetch rejects; streamRequest returns without an error.
NoticeAbort(r) == run[r].aborted /\ FallBack(r) /\ UNCHANGED events

Broken(r) == FallBack(r) /\ Intervene

\* The answer of POST /summarize, or its failure or time-out.
FallbackAnswered(r) ==
    /\ In(r, "fallback")
    /\ \/ Succeed(r, "posted", TRUE, [ui EXCEPT !.takeaways = r])
       \/ GiveUp(r)
    /\ UNCHANGED <<server, chan, events>>

Handle(r) == Ingested(r) \/ Read(r) \/ NoticeAbort(r) \/ FallbackAnswered(r)

\* setTimeout(() => setSummarizeStatus("idle")).
TimerFires ==
    /\ ui.timers > 0
    /\ ui' = [ui EXCEPT !.timers = @ - 1, !.success = FALSE]
    /\ UNCHANGED <<run, server, chan, histories, events, calm>>

-----------------------------------------------------------------------------
(* What the user may do meanwhile.                                         *)

\* useStreaming.cancelStreaming: abort the run abortControllerRef names, if any.
Abort == run' = [r \in Runs |-> IF r = ui.ref THEN [run[r] EXCEPT !.aborted = TRUE] ELSE run[r]]

\* The Stop button: what has been streamed becomes the summary.
Stop ==
    /\ ui.streaming
    /\ Abort
    /\ ui' = [ui EXCEPT !.ref = 0, !.streaming = FALSE, !.loading = FALSE,
                        !.summary = IF ui.partial # 0 THEN ui.partial ELSE @]
    /\ calm' = FALSE
    /\ Intervene
    /\ UNCHANGED <<server, chan, histories>>

\* New summary (ctrl-K, the sidebar), at any time.
Reset ==
    /\ Abort
    /\ ui' = [ui EXCEPT !.ref = 0, !.streaming = FALSE, !.loading = FALSE, !.summary = 0,
                        !.partial = 0, !.document = 0, !.takeaways = 0, !.success = FALSE]
    /\ calm' = (calm /\ ~Busy)
    /\ Intervene
    /\ UNCHANGED <<server, chan, histories>>

\* A summary of the history is shown again; the document stays as it is.
Restore ==
    /\ \E i \in 1 .. Len(app) : ui' = [ui EXCEPT !.summary = app[i], !.takeaways = 0]
    /\ calm' = FALSE
    /\ Intervene
    /\ UNCHANGED <<run, server, chan, histories>>

\* removeEntry takes one entry out, clearAll all of them (its button is there when
\* there is one): only the instance of AppContext is told.
Remove ==
    /\ \/ \E i \in 1 .. Len(app) : app' = SubSeq(app, 1, i - 1) \o SubSeq(app, i + 1, Len(app))
       \/ app # <<>> /\ app' = <<>>
    /\ saved' = app'
    /\ calm' = FALSE
    /\ Intervene
    /\ UNCHANGED <<ui, run, server, chan, hook>>

Next ==
    \/ \E r \in Runs : Click(r) \/ Handle(r) \/ Generate(r) \/ Broken(r)
    \/ TimerFires \/ Stop \/ Reset \/ Restore \/ Remove

Spec == Init /\ [][Next]_vars

\* Requests are answered or time out, generators run on, the page reads.
FairSpec ==
    /\ Spec
    /\ \A r \in Runs : WF_vars(Handle(r)) /\ WF_vars(Generate(r))

-----------------------------------------------------------------------------
(* Properties.                                                             *)

Shown == {r \in Runs : run[r].phase \in {"streamed", "posted"}}

\* The list holds the runs that succeeded, newest first, up to its limit.
Keeps(list) ==
    /\ Len(list) = (IF Cardinality(Shown) > MaxEntries THEN MaxEntries ELSE Cardinality(Shown))
    /\ \A i \in 1 .. Len(list) : list[i] \in Shown /\ \A j \in 1 .. i - 1 : list[j] > list[i]
    /\ \A r \in Shown : \/ \E k \in 1 .. Len(list) : list[k] = r
                        \/ \A k \in 1 .. Len(list) : list[k] > r

\* As long as nobody intervenes (streams may fail, connections may break), the
\* page is consistent: it is busy exactly while its one run is under way, shows
\* the summary with its own document and takeaways, and the two instances of
\* the history, which never read each other's state, and the storage they both
\* overwrite hold the same complete list.
CalmPage ==
    calm => /\ \A q, r \in Runs : Underway(q) /\ Underway(r) => q = r
            /\ Busy <=> \E r \in Runs : Underway(r)
            /\ ~Busy /\ ui.summary # 0 => /\ ui.document \in {0, ui.summary}
                                          /\ ui.takeaways = ui.summary
            /\ hook = app /\ saved = app /\ Keeps(app)

\* Whatever is stopped, reset and overlaps: when no run is under way the page
\* is not busy, so the button works again.
NothingStuck == (\A r \in Runs : ~Underway(r)) => ~Busy

\* The generator sends its takeaways and a done event with quality "full" even
\* after an error event; a run takes a stream for a success only if no error
\* with a message was in it.
StreamedWithoutError ==
    \A r \in Runs : In(r, "streamed") => server[r] # "overError"

\* What the page promises: a failed stream falls back ("Streaming failed,
\* falling back"; "automatic fallback").  Violated: streamRequest looks at
\* parsed.error, which is falsy when the exception had no message, and the
\* truncated text is shown and kept as a full summary.
FailedStreamsFallBack ==
    \A r \in Runs : In(r, "streamed") => server[r] = "over"

\* Every run ends, with at most one stream and one fallback.
RunsEnd == \A r \in Runs : Underway(r) ~> ~Underway(r)
=============================================================================
