-------------------------- MODULE SummaryView_proofs --------------------------
(***************************************************************************)
(* Proofs about the summarizer page, for any number of runs and any bound  *)
(* on interventions and on the history: it is never stuck, takes no stream *)
(* for a success that reported its failure, and is consistent as long as   *)
(* nobody intervenes.                                                      *)
(***************************************************************************)
EXTENDS SummaryView, FiniteSetTheorems, SequenceTheorems, TLAPS

Phase == {"none", "ingest", "stream", "fallback", "failed", "streamed", "posted"}
Over == {"over", "overError", "overSilent"}
Stage == {"off", "prepare", "model", "more", "after", "error", "silent"} \cup Over

\* The part of the types the arguments need.
StateOK ==
    /\ DOMAIN ui = {"loading", "streaming", "ref", "partial", "summary", "takeaways", "document",
                    "success", "timers"}
    /\ run \in [Runs -> [phase : Phase, aborted : BOOLEAN, some : BOOLEAN]]
    /\ server \in [Runs -> Stage]
    /\ chan \in [Runs -> Seq(Event)]

\* Each flag belongs to a run in a phase of its own.
FlagsOK ==
    /\ ui.loading => \E r \in Runs : In(r, "ingest") \/ In(r, "fallback")
    /\ ui.streaming => \E r \in Runs : In(r, "stream")

\* Is there a done event, and an error that comes before it?
Done(s) == \E i \in 1 .. Len(s) : s[i] = "done"
Fails(s) == \E i \in 1 .. Len(s) : s[i] = "error" /\ \A j \in 1 .. i - 1 : s[j] # "done"

\* While a run reads, its channel has a done event only when the generator is
\* over, and a reported error that has not been read is before that event.
ChannelsOK ==
    \A r \in Runs :
        /\ run[r].phase \in {"none", "ingest"} => chan[r] = << >>
        /\ In(r, "stream") => /\ Done(chan[r]) => server[r] \in Over
                              /\ server[r] \in {"error", "overError"} => Fails(chan[r])
        /\ In(r, "streamed") => server[r] \in {"over", "overSilent"}

IInv == StateOK /\ FlagsOK /\ ChannelsOK

-----------------------------------------------------------------------------
(* Channels.                                                               *)

LEMMA EmptyChannel == << >> \in Seq(Event) /\ ~Done(<< >>)
  BY DEF Done

\* What an append adds.
LEMMA Appended ==
  ASSUME NEW s \in Seq(Event), NEW t \in Seq(Event)
  PROVE  /\ Done(s \o t) => Done(s) \/ Done(t)
         /\ Fails(s) => Fails(s \o t)
         /\ ~Done(s) /\ Fails(t) => Fails(s \o t)
<1> DEFINE u == s \o t
<1>1. /\ Len(s) \in Nat /\ Len(t) \in Nat /\ Len(u) = Len(s) + Len(t)
      /\ \A i \in 1 .. Len(s) : u[i] = s[i]
      /\ \A i \in 1 .. Len(t) : u[Len(s) + i] = t[i]
  BY ConcatProperties, LenProperties
<1>2. \A i \in 1 .. Len(u) : i \in 1 .. Len(s) \/ \E k \in 1 .. Len(t) : i = Len(s) + k
  <2> SUFFICES ASSUME NEW i \in 1 .. Len(u), i \notin 1 .. Len(s)
               PROVE  \E k \in 1 .. Len(t) : i = Len(s) + k
    OBVIOUS
  <2>1. i - Len(s) \in 1 .. Len(t) /\ i = Len(s) + (i - Len(s))
    BY <1>1
  <2>2. QED
    BY <2>1
<1> HIDE DEF u
<1>3. Done(u) => Done(s) \/ Done(t)
  BY <1>1, <1>2 DEF Done
<1>4. ASSUME Fails(s) PROVE Fails(u)
  <2>1. PICK i \in 1 .. Len(s) : s[i] = "error" /\ \A j \in 1 .. i - 1 : s[j] # "done"
    BY <1>4 DEF Fails
  <2>2. i \in 1 .. Len(u) /\ u[i] = "error"
    BY <1>1, <2>1
  <2>3. ASSUME NEW j \in 1 .. i - 1 PROVE u[j] # "done"
    <3>1. j \in 1 .. Len(s)
      BY <1>1
    <3>2. QED
      BY <1>1, <2>1, <3>1
  <2>4. QED
    BY <2>2, <2>3 DEF Fails
<1>5. ASSUME ~Done(s), Fails(t) PROVE Fails(u)
  <2>1. PICK k \in 1 .. Len(t) : t[k] = "error" /\ \A j \in 1 .. k - 1 : t[j] # "done"
    BY <1>5 DEF Fails
  <2>2. Len(s) + k \in 1 .. Len(u) /\ u[Len(s) + k] = "error"
    BY <1>1, <2>1
  <2>3. ASSUME NEW j \in 1 .. (Len(s) + k) - 1 PROVE u[j] # "done"
    <3>1. CASE j \in 1 .. Len(s)
      BY <1>1, <1>5, <3>1 DEF Done
    <3>2. CASE j \notin 1 .. Len(s)
      <4>1. j - Len(s) \in 1 .. k - 1 /\ j = Len(s) + (j - Len(s)) /\ j - Len(s) \in 1 .. Len(t)
        BY <1>1, <2>1, <3>2
      <4>2. QED
        BY <1>1, <2>1, <4>1
    <3>3. QED
      BY <3>1, <3>2
  <2>4. QED
    BY <2>2, <2>3 DEF Fails
<1>6. QED
  BY <1>3, <1>4, <1>5 DEF u

\* What reading one event leaves.
LEMMA Popped ==
  ASSUME NEW s \in Seq(Event), s # << >>
  PROVE  /\ Head(s) \in Event /\ Tail(s) \in Seq(Event)
         /\ Head(s) = "done" => Done(s)
         /\ Done(Tail(s)) => Done(s)
         /\ Fails(s) => Head(s) # "done"
         /\ Fails(s) /\ Head(s) # "error" => Fails(Tail(s))
<1> DEFINE t == Tail(s)
<1>1. /\ Head(s) \in Event /\ t \in Seq(Event) /\ Len(s) \in Nat \ {0} /\ Len(t) = Len(s) - 1
      /\ Head(s) = s[1] /\ \A i \in 1 .. Len(t) : t[i] = s[i + 1]
  BY HeadTailProperties, EmptySeq
<1> HIDE DEF t
<1>2. Head(s) = "done" => Done(s)
  BY <1>1 DEF Done
<1>3. Done(t) => Done(s)
  BY <1>1 DEF Done
<1>4. ASSUME Fails(s) PROVE Head(s) # "done" /\ (Head(s) # "error" => Fails(t))
  <2>1. PICK i \in 1 .. Len(s) : s[i] = "error" /\ \A j \in 1 .. i - 1 : s[j] # "done"
    BY <1>4 DEF Fails
  <2>2. CASE i = 1
    BY <1>1, <2>1, <2>2
  <2>3. CASE i # 1
    <3>1. i - 1 \in 1 .. Len(t) /\ t[i - 1] = "error" /\ 1 \in 1 .. i - 1
      BY <1>1, <2>1, <2>3
    <3>2. \A j \in 1 .. (i - 1) - 1 : t[j] # "done"
      <4> SUFFICES ASSUME NEW j \in 1 .. (i - 1) - 1 PROVE t[j] # "done"
        OBVIOUS
      <4>1. j + 1 \in 1 .. i - 1 /\ j \in 1 .. Len(t)
        BY <1>1, <2>1
      <4>2. QED
        BY <1>1, <2>1, <4>1
    <3>3. QED
      BY <1>1, <2>1, <3>1, <3>2 DEF Fails
  <2>4. QED
    BY <2>2, <2>3
<1>5. QED
  BY <1>1, <1>2, <1>3, <1>4 DEF t

-----------------------------------------------------------------------------
(* Steps that concern one run.                                             *)

\* What a run's channel and generator must satisfy in each phase.
ChannelOK(phase, stage, s) ==
    /\ phase \in {"none", "ingest"} => s = << >>
    /\ phase = "stream" => /\ Done(s) => stage \in Over
                           /\ stage \in {"error", "overError"} => Fails(s)
    /\ phase = "streamed" => stage \in {"over", "overSilent"}

LEMMA ChannelwiseOK == ChannelsOK <=> \A r \in Runs : ChannelOK(run[r].phase, server[r], chan[r])
  BY DEF ChannelsOK, ChannelOK, In

\* Only run r's phase, generator and channel change.
LEMMA OneChannel ==
  ASSUME ChannelsOK, NEW r \in Runs,
         \A q \in Runs \ {r} : /\ run'[q].phase = run[q].phase
                               /\ server'[q] = server[q] /\ chan'[q] = chan[q],
         ChannelOK(run'[r].phase, server'[r], chan'[r])
  PROVE  ChannelsOK'
<1>1. ChannelsOK' <=> \A q \in Runs : ChannelOK(run'[q].phase, server'[q], chan'[q])
  BY DEF ChannelsOK, ChannelOK, In, Runs
<1>2. \A q \in Runs : ChannelOK(run[q].phase, server[q], chan[q])
  BY ChannelwiseOK
<1>3. QED
  BY <1>1, <1>2

LEMMA InitIInv == Init => IInv
<1> SUFFICES ASSUME Init PROVE IInv
  OBVIOUS
<1>1. StateOK
  BY DEF Init, StateOK, Phase, Stage
<1>2. FlagsOK
  BY DEF Init, FlagsOK
<1>3. ChannelsOK
  <2> SUFFICES ASSUME NEW r \in Runs PROVE ChannelOK(run[r].phase, server[r], chan[r])
    BY ChannelwiseOK
  <2>1. run[r].phase = "none" /\ chan[r] = << >>
    BY DEF Init
  <2>2. QED
    BY <2>1 DEF ChannelOK
<1>4. QED
  BY <1>1, <1>2, <1>3 DEF IInv

LEMMA ClickStep ==
  ASSUME IInv, NEW r \in Runs, Click(r)
  PROVE  IInv'
<1> USE DEF IInv
<1>1. /\ run[r].phase = "none" /\ run' = [run EXCEPT ![r].phase = "ingest"]
      /\ ~ui.streaming /\ ui'.streaming = ui.streaming
      /\ DOMAIN ui' = DOMAIN ui /\ UNCHANGED <<server, chan>>
  BY DEF Click, In, Busy, StateOK
<1>2. /\ run'[r].phase = "ingest" /\ \A q \in Runs \ {r} : run'[q] = run[q]
      /\ StateOK'
  BY <1>1 DEF StateOK, Phase
<1>3. FlagsOK'
  BY <1>1, <1>2 DEF FlagsOK, In
<1>4. ChannelOK(run'[r].phase, server'[r], chan'[r])
  BY <1>1, <1>2 DEF ChannelOK, ChannelsOK
<1>5. QED
  BY <1>1, <1>2, <1>3, <1>4, OneChannel

\* The run ends without a stream: nothing is busy any more.
LEMMA GiveUpStep ==
  ASSUME IInv, NEW r \in Runs, GiveUp(r), UNCHANGED <<server, chan>>
  PROVE  IInv'
<1> USE DEF IInv
<1>1. /\ run' = [run EXCEPT ![r].phase = "failed"]
      /\ ~ui'.streaming /\ ~ui'.loading /\ DOMAIN ui' = DOMAIN ui
  BY DEF GiveUp, StateOK
<1>2. /\ run'[r].phase = "failed" /\ \A q \in Runs \ {r} : run'[q] = run[q]
      /\ StateOK'
  BY <1>1 DEF StateOK, Phase
<1>3. FlagsOK'
  BY <1>1 DEF FlagsOK
<1>4. ChannelOK(run'[r].phase, server'[r], chan'[r])
  BY <1>2 DEF ChannelOK
<1>5. QED
  BY <1>2, <1>3, <1>4, OneChannel

LEMMA IngestedStep ==
  ASSUME IInv, NEW r \in Runs, Ingested(r)
  PROVE  IInv'
<1> USE DEF IInv
<1>1. CASE GiveUp(r) /\ UNCHANGED server
  BY <1>1, GiveUpStep DEF Ingested
<1>2. CASE ~(GiveUp(r) /\ UNCHANGED server)
  <2>1. /\ run[r].phase = "ingest" /\ run' = [run EXCEPT ![r].phase = "stream"]
        /\ server' = [server EXCEPT ![r] = "prepare"]
        /\ ~ui'.loading /\ DOMAIN ui' = DOMAIN ui /\ UNCHANGED chan
    BY <1>2 DEF Ingested, In, StateOK
  <2>2. /\ run'[r].phase = "stream" /\ server'[r] = "prepare" /\ chan'[r] = << >>
        /\ \A q \in Runs \ {r} : run'[q] = run[q] /\ server'[q] = server[q]
        /\ StateOK'
    BY <2>1 DEF StateOK, Phase, Stage, ChannelsOK
  <2>3. FlagsOK'
    BY <2>1, <2>2 DEF FlagsOK, In
  <2>4. ChannelOK(run'[r].phase, server'[r], chan'[r])
    BY <2>2, EmptyChannel DEF ChannelOK
  <2>5. QED
    BY <2>1, <2>2, <2>3, <2>4, OneChannel
<1>3. QED
  BY <1>1, <1>2

LEMMA FallBackStep ==
  ASSUME IInv, NEW r \in Runs, FallBack(r)
  PROVE  IInv'
<1> USE DEF IInv
<1>1. /\ run' = [run EXCEPT ![r].phase = "fallback"]
      /\ chan' = [chan EXCEPT ![r] = << >>]
      /\ ~ui'.streaming /\ DOMAIN ui' = DOMAIN ui /\ UNCHANGED server
  BY DEF FallBack, StateOK
<1>2. /\ run'[r].phase = "fallback"
      /\ \A q \in Runs \ {r} : run'[q] = run[q] /\ chan'[q] = chan[q]
      /\ StateOK'
  BY <1>1, EmptyChannel DEF StateOK, Phase
<1>3. FlagsOK'
  BY <1>1, <1>2 DEF FlagsOK, In
<1>4. ChannelOK(run'[r].phase, server'[r], chan'[r])
  BY <1>2 DEF ChannelOK
<1>5. QED
  BY <1>1, <1>2, <1>3, <1>4, OneChannel

\* A stream read to its done event had no reported error before it.
LEMMA StreamedStep ==
  ASSUME IInv, NEW r \in Runs, In(r, "stream"), chan[r] # << >>, Head(chan[r]) = "done",
         Streamed(r)
  PROVE  IInv'
<1> USE DEF IInv
<1>1. /\ run' = [run EXCEPT ![r].phase = "streamed"]
      /\ chan' = [chan EXCEPT ![r] = << >>]
      /\ ~ui'.streaming /\ ~ui'.loading /\ DOMAIN ui' = DOMAIN ui /\ UNCHANGED server
  BY DEF Streamed, Succeed, StateOK
<1>2. /\ run'[r].phase = "streamed"
      /\ \A q \in Runs \ {r} : run'[q] = run[q] /\ chan'[q] = chan[q]
      /\ StateOK'
  BY <1>1, EmptyChannel DEF StateOK, Phase
<1>3. FlagsOK'
  BY <1>1 DEF FlagsOK
<1>4. Done(chan[r]) /\ ~Fails(chan[r])
  BY Popped DEF StateOK
<1>5. server[r] \in {"over", "overSilent"}
  BY <1>4 DEF ChannelsOK, In, Over
<1>6. ChannelOK(run'[r].phase, server'[r], chan'[r])
  BY <1>1, <1>2, <1>5 DEF ChannelOK
<1>7. QED
  BY <1>1, <1>2, <1>3, <1>6, OneChannel

\* An event that is neither done nor a reported error is taken.
LEMMA PopStep ==
  ASSUME IInv, NEW r \in Runs, In(r, "stream"), chan[r] # << >>, Head(chan[r]) # "error",
         Pop(r), UNCHANGED server,
         run' = run \/ run' = [run EXCEPT ![r].some = TRUE],
         DOMAIN ui' = DOMAIN ui, ui'.loading = ui.loading, ui'.streaming = ui.streaming
  PROVE  IInv'
<1> USE DEF IInv
<1>1. \A q \in Runs : run'[q].phase = run[q].phase
  BY DEF StateOK
<1>2. /\ chan'[r] = Tail(chan[r]) /\ \A q \in Runs \ {r} : chan'[q] = chan[q]
      /\ Tail(chan[r]) \in Seq(Event)
  BY Popped DEF Pop, StateOK
<1>3. StateOK'
  BY <1>2 DEF StateOK, Pop
<1>4. FlagsOK'
  BY <1>1 DEF FlagsOK, In
<1>5. /\ Done(Tail(chan[r])) => Done(chan[r])
      /\ Fails(chan[r]) => Fails(Tail(chan[r]))
  BY Popped DEF StateOK
<1>6. ChannelOK(run'[r].phase, server'[r], chan'[r])
  BY <1>1, <1>2, <1>5 DEF ChannelOK, ChannelsOK, In
<1>7. QED
  BY <1>1, <1>2, <1>3, <1>4, <1>6, OneChannel

LEMMA ReadStep ==
  ASSUME IInv, NEW r \in Runs, Read(r)
  PROVE  IInv'
<1> DEFINE event == Head(chan[r])
<1>1. In(r, "stream") /\ chan[r] # << >>
  BY DEF Read
<1>2. CASE event = "done"
  BY <1>1, <1>2, StreamedStep DEF Read
<1>3. CASE event = "error"
  BY <1>3, FallBackStep DEF Read
<1>4. CASE event \notin {"done", "error"}
  <2>1. /\ Pop(r) /\ UNCHANGED server
        /\ run' = run \/ run' = [run EXCEPT ![r].some = TRUE]
        /\ DOMAIN ui' = DOMAIN ui /\ ui'.loading = ui.loading /\ ui'.streaming = ui.streaming
    BY <1>4 DEF Read, IInv, StateOK
  <2>2. QED
    BY <1>1, <1>4, <2>1, PopStep
<1>5. QED
  BY <1>2, <1>3, <1>4

\* The answer of the fallback ends the run either way.
LEMMA FallbackAnsweredStep ==
  ASSUME IInv, NEW r \in Runs, FallbackAnswered(r)
  PROVE  IInv'
<1> USE DEF IInv
<1>1. CASE GiveUp(r)
  BY <1>1, GiveUpStep DEF FallbackAnswered
<1>2. CASE Succeed(r, "posted", TRUE, [ui EXCEPT !.takeaways = r])
  <2>1. /\ run' = [run EXCEPT ![r].phase = "posted"]
        /\ ~ui'.loading /\ ui'.streaming = ui.streaming /\ DOMAIN ui' = DOMAIN ui
        /\ UNCHANGED <<server, chan>> /\ run[r].phase = "fallback"
    BY <1>2 DEF FallbackAnswered, Succeed, StateOK, In
  <2>2. /\ run'[r].phase = "posted" /\ \A q \in Runs \ {r} : run'[q] = run[q]
        /\ StateOK'
    BY <2>1 DEF StateOK, Phase
  <2>3. FlagsOK'
    BY <2>1, <2>2 DEF FlagsOK, In
  <2>4. ChannelOK(run'[r].phase, server'[r], chan'[r])
    BY <2>2 DEF ChannelOK
  <2>5. QED
    BY <2>1, <2>2, <2>3, <2>4, OneChannel
<1>3. QED
  BY <1>1, <1>2 DEF FallbackAnswered

-----------------------------------------------------------------------------
(* The generator.                                                          *)

\* The generator moves to another stage and emits list.
LEMMA EmitStep ==
  ASSUME IInv, NEW r \in Runs, NEW stage \in Stage, NEW list \in Seq(Event),
         server' = [server EXCEPT ![r] = stage], Emit(r, list), UNCHANGED <<ui, run>>,
         server[r] \notin Over,
         Done(list) => stage \in Over,
         stage \in {"error", "overError"} => Fails(list) \/ server[r] = "error"
  PROVE  IInv'
<1> USE DEF IInv
<1>1. /\ server'[r] = stage /\ \A q \in Runs \ {r} : server'[q] = server[q]
      /\ server' \in [Runs -> Stage]
  BY DEF StateOK
<1>2. /\ chan[r] \in Seq(Event) /\ chan[r] \o list \in Seq(Event)
      /\ chan'[r] = IF In(r, "stream") THEN chan[r] \o list ELSE chan[r]
      /\ \A q \in Runs \ {r} : chan'[q] = chan[q]
      /\ chan' \in [Runs -> Seq(Event)]
  BY ConcatProperties DEF StateOK, Emit
<1>3. StateOK' /\ FlagsOK'
  BY <1>1, <1>2 DEF StateOK, FlagsOK, In
<1>4. ChannelOK(run[r].phase, server[r], chan[r])
  BY ChannelwiseOK
<1>5. ChannelOK(run'[r].phase, server'[r], chan'[r])
  <2>1. CASE In(r, "stream")
    <3>1. ~Done(chan[r])
      BY <1>4, <2>1 DEF ChannelOK, In
    <3>2. Done(chan[r] \o list) => Done(list)
      BY <1>2, <3>1, Appended
    <3>3. Fails(chan[r]) \/ Fails(list) => Fails(chan[r] \o list)
      BY <1>2, <3>1, Appended
    <3>4. server[r] = "error" => Fails(chan[r])
      BY <1>4, <2>1 DEF ChannelOK, In
    <3>5. QED
      BY <1>1, <1>2, <2>1, <3>2, <3>3, <3>4 DEF ChannelOK, In
  <2>2. CASE ~In(r, "stream")
    BY <1>1, <1>2, <1>4, <2>2 DEF ChannelOK, In, Over
  <2>3. QED
    BY <2>1, <2>2
<1>6. QED
  BY <1>1, <1>2, <1>3, <1>5, OneChannel

\* The lists of events the generator emits.
LEMMA Emissions ==
  /\ <<"token">> \in Seq(Event) /\ ~Done(<<"token">>)
  /\ <<"error">> \in Seq(Event) /\ ~Done(<<"error">>) /\ Fails(<<"error">>)
  /\ <<"silent">> \in Seq(Event) /\ ~Done(<<"silent">>)
  /\ <<"takeaways", "done">> \in Seq(Event)
  /\ <<"token", "takeaways", "done">> \in Seq(Event)
  /\ <<"error", "done">> \in Seq(Event) /\ Fails(<<"error", "done">>)
  BY DEF Done, Fails, Event

\* An unchanged channel has had nothing emitted to it.
LEMMA EmitNothing ==
  ASSUME StateOK, NEW r \in Runs, UNCHANGED chan
  PROVE  Emit(r, << >>)
<1>1. chan[r] \in Seq(Event) /\ chan[r] \o << >> = chan[r]
  BY ConcatEmptySeq DEF StateOK
<1>2. QED
  BY <1>1 DEF Emit, StateOK

LEMMA GenerateStep ==
  ASSUME IInv, NEW r \in Runs, Generate(r)
  PROVE  IInv'
<1> USE DEF IInv
<1>1. CASE Prepare(r)
  <2>1. server[r] = "prepare" /\ UNCHANGED <<ui, run>>
    BY <1>1 DEF Prepare
  <2>2. CASE server' = [server EXCEPT ![r] = "model"] /\ UNCHANGED chan
    BY <2>1, <2>2, EmitStep, EmptyChannel, EmitNothing DEF Stage, Over
  <2>3. CASE /\ server' = [server EXCEPT ![r] = "over"]
             /\ Emit(r, <<"token", "takeaways", "done">>)
    BY <2>1, <2>3, EmitStep, Emissions DEF Stage, Over
  <2>4. CASE server' = [server EXCEPT ![r] = "overError"] /\ Emit(r, <<"error", "done">>)
    BY <2>1, <2>4, EmitStep, Emissions DEF Stage, Over
  <2>5. QED
    BY <1>1, <2>2, <2>3, <2>4 DEF Prepare
<1>2. CASE StreamLLM(r)
  <2>1. server[r] \in {"model", "more"} /\ UNCHANGED <<ui, run>>
    BY <1>2 DEF StreamLLM
  <2>2. CASE server' = [server EXCEPT ![r] = "more"] /\ Emit(r, <<"token">>)
    BY <2>1, <2>2, EmitStep, Emissions DEF Stage, Over
  <2>3. CASE server' = [server EXCEPT ![r] = "after"] /\ UNCHANGED chan
    BY <2>1, <2>3, EmitStep, EmptyChannel, EmitNothing DEF Stage, Over
  <2>4. CASE server' = [server EXCEPT ![r] = "error"] /\ Emit(r, <<"error">>)
    BY <2>1, <2>4, EmitStep, Emissions DEF Stage, Over
  <2>5. CASE server' = [server EXCEPT ![r] = "silent"] /\ Emit(r, <<"silent">>)
    BY <2>1, <2>5, EmitStep, Emissions DEF Stage, Over
  <2>6. QED
    BY <1>2, <2>2, <2>3, <2>4, <2>5 DEF StreamLLM
<1>3. CASE Finish(r)
  <2>1. /\ server[r] \in {"after", "error", "silent"} /\ UNCHANGED <<ui, run>>
        /\ Emit(r, <<"takeaways", "done">>)
    BY <1>3 DEF Finish
  <2>2. PICK stage \in Over : /\ server' = [server EXCEPT ![r] = stage]
                              /\ stage = "overError" => server[r] = "error"
    BY <1>3, <2>1 DEF Finish, Over, StateOK
  <2>3. stage \in Stage /\ server[r] \notin Over /\ stage # "error"
    BY <2>1, <2>2 DEF Stage, Over
  <2>4. QED
    BY <2>1, <2>2, <2>3, EmitStep, Emissions
<1>4. QED
  BY <1>1, <1>2, <1>3 DEF Generate

-----------------------------------------------------------------------------
(* Steps that leave phases, generators and channels alone.                 *)

LEMMA QuietStep ==
  ASSUME IInv, UNCHANGED <<server, chan>>,
         run' \in [Runs -> [phase : Phase, aborted : BOOLEAN, some : BOOLEAN]],
         \A r \in Runs : run'[r].phase = run[r].phase,
         DOMAIN ui' = DOMAIN ui,
         ui'.loading => ui.loading, ui'.streaming => ui.streaming
  PROVE  IInv'
<1>1. StateOK' /\ FlagsOK'
  BY DEF IInv, StateOK, FlagsOK, In
<1>2. \A r \in Runs : ChannelOK(run'[r].phase, server'[r], chan'[r])
  BY ChannelwiseOK DEF IInv
<1>3. ChannelsOK'
  BY <1>2 DEF ChannelsOK, ChannelOK, In, Runs
<1>4. QED
  BY <1>1, <1>3 DEF IInv

\* Aborting a run leaves it where it is.
LEMMA AbortKeepsPhases ==
  ASSUME StateOK, Abort
  PROVE  /\ run' \in [Runs -> [phase : Phase, aborted : BOOLEAN, some : BOOLEAN]]
         /\ \A r \in Runs : run'[r].phase = run[r].phase
  BY DEF StateOK, Abort

LEMMA NextIInv == IInv /\ [Next]_vars => IInv'
<1> SUFFICES ASSUME IInv, [Next]_vars PROVE IInv'
  OBVIOUS
<1>1. ASSUME NEW r \in Runs, Click(r) PROVE IInv'
  BY <1>1, ClickStep
<1>2. ASSUME NEW r \in Runs, Handle(r) PROVE IInv'
  BY <1>2, IngestedStep, ReadStep, FallBackStep, FallbackAnsweredStep DEF Handle, NoticeAbort
<1>3. ASSUME NEW r \in Runs, Generate(r) PROVE IInv'
  BY <1>3, GenerateStep
<1>4. ASSUME NEW r \in Runs, Broken(r) PROVE IInv'
  BY <1>4, FallBackStep DEF Broken
<1>5. CASE TimerFires
  BY <1>5, QuietStep DEF TimerFires, IInv, StateOK
<1>6. CASE Stop
  <2>1. Abort /\ UNCHANGED <<server, chan>> /\ DOMAIN ui' = DOMAIN ui
        /\ ~ui'.loading /\ ~ui'.streaming
    BY <1>6 DEF Stop, IInv, StateOK
  <2>2. QED
    BY <2>1, QuietStep, AbortKeepsPhases DEF IInv
<1>7. CASE Reset
  <2>1. Abort /\ UNCHANGED <<server, chan>> /\ DOMAIN ui' = DOMAIN ui
        /\ ~ui'.loading /\ ~ui'.streaming
    BY <1>7 DEF Reset, IInv, StateOK
  <2>2. QED
    BY <2>1, QuietStep, AbortKeepsPhases DEF IInv
<1>8. CASE Restore
  BY <1>8, QuietStep DEF Restore, IInv, StateOK
<1>9. CASE Remove
  BY <1>9, QuietStep DEF Remove, IInv, StateOK
<1>10. CASE UNCHANGED vars
  BY <1>10, QuietStep DEF vars, IInv, StateOK
<1>11. QED
  BY <1>1, <1>2, <1>3, <1>4, <1>5, <1>6, <1>7, <1>8, <1>9, <1>10 DEF Next

\* The invariant the two theorems rest on.
THEOREM Inductive == Spec => []IInv
<1>1. QED
  BY InitIInv, NextIInv, PTL DEF Spec

\* However runs are stopped, reset and overlap, a page without a run under way
\* is not busy: each flag belongs to a run in a phase of its own.
THEOREM NeverStuck == Spec => []NothingStuck
<1>1. IInv => NothingStuck
  BY DEF IInv, FlagsOK, NothingStuck, Underway, Busy, In
<1>2. QED
  BY Inductive, <1>1, PTL

\* useStreaming takes no stream for a success in which an error was reported,
\* although the generator sends done with quality "full" after the error.
THEOREM NoReportedError == Spec => []StreamedWithoutError
<1>1. IInv => StreamedWithoutError
  BY DEF IInv, ChannelsOK, StreamedWithoutError
<1>2. QED
  BY Inductive, <1>1, PTL

-----------------------------------------------------------------------------
(* The page as long as nobody intervenes.                                  *)

\* Before each done event come takeaways, or an error that ends the reading.
Led(s) ==
    \A i \in 1 .. Len(s) : s[i] = "done" => \E j \in 1 .. i - 1 : s[j] \in {"takeaways", "error"}

\* What the page shows of the run under way, and of the last one that ended.
RunPage(r) ==
    /\ Busy
    /\ ui.document \in {0, r} /\ ui.summary = 0 /\ ui.success = FALSE
    /\ In(r, "stream") => ui.takeaways = r \/ Led(chan[r])
IdlePage == ui.summary # 0 => ui.document \in {0, ui.summary} /\ ui.takeaways = ui.summary

\* Runs are taken up in their order, one after the other.
RunsOK ==
    /\ \A q, r \in Runs : Underway(q) /\ Underway(r) => q = r
    /\ \A q, r \in Runs : q < r /\ (In(q, "none") \/ Underway(q)) => In(r, "none")

HistoriesOK == app \in Seq(Runs) /\ hook = app /\ saved = app /\ Keeps(app)

PageOK ==
    /\ RunsOK
    /\ \A r \in Runs : Underway(r) => RunPage(r)
    /\ (\A r \in Runs : ~Underway(r)) => IdlePage
    /\ HistoriesOK

CInv == IInv /\ (calm => PageOK)

LEMMA LedEmpty == Led(<< >>)
  BY DEF Led

LEMMA LedAppended ==
  ASSUME NEW s \in Seq(Event), NEW t \in Seq(Event), Led(s), Led(t)
  PROVE  Led(s \o t)
<1> DEFINE u == s \o t
<1>1. /\ Len(s) \in Nat /\ Len(t) \in Nat /\ Len(u) = Len(s) + Len(t)
      /\ \A i \in 1 .. Len(s) : u[i] = s[i]
      /\ \A i \in 1 .. Len(t) : u[Len(s) + i] = t[i]
  BY ConcatProperties, LenProperties
<1> HIDE DEF u
<1>2. ASSUME NEW i \in 1 .. Len(u), u[i] = "done"
      PROVE  \E j \in 1 .. i - 1 : u[j] \in {"takeaways", "error"}
  <2>1. CASE i \in 1 .. Len(s)
    <3>1. PICK j \in 1 .. i - 1 : s[j] \in {"takeaways", "error"}
      BY <1>1, <1>2, <2>1 DEF Led
    <3>2. j \in 1 .. Len(s)
      BY <1>1, <2>1
    <3>3. QED
      BY <1>1, <3>1, <3>2
  <2>2. CASE i \notin 1 .. Len(s)
    <3> DEFINE k == i - Len(s)
    <3>1. k \in 1 .. Len(t) /\ i = Len(s) + k
      BY <1>1, <2>2
    <3>2. t[k] = "done"
      BY <1>1, <1>2, <3>1
    <3>3. PICK j \in 1 .. k - 1 : t[j] \in {"takeaways", "error"}
      BY <3>1, <3>2 DEF Led
    <3>4. j \in 1 .. Len(t) /\ Len(s) + j \in 1 .. i - 1
      BY <1>1, <3>1
    <3>5. QED
      BY <1>1, <3>3, <3>4
  <2>3. QED
    BY <2>1, <2>2
<1>3. QED
  BY <1>2 DEF Led, u

LEMMA LedPopped ==
  ASSUME NEW s \in Seq(Event), s # << >>, Led(s)
  PROVE  /\ Head(s) # "done"
         /\ Head(s) \notin {"takeaways", "error"} => Led(Tail(s))
<1> DEFINE u == Tail(s)
<1>1. /\ Len(s) \in Nat \ {0} /\ Head(s) = s[1] /\ Len(u) = Len(s) - 1
      /\ \A i \in 1 .. Len(u) : u[i] = s[i + 1]
  BY EmptySeq, LenProperties, HeadTailProperties
<1> HIDE DEF u
<1>2. Head(s) # "done"
  BY <1>1 DEF Led
<1>3. ASSUME s[1] \notin {"takeaways", "error"}, NEW i \in 1 .. Len(u), u[i] = "done"
      PROVE  \E j \in 1 .. i - 1 : u[j] \in {"takeaways", "error"}
  <2>1. i + 1 \in 1 .. Len(s) /\ s[i + 1] = "done"
    BY <1>1, <1>3
  <2>2. PICK j \in 1 .. i + 1 - 1 : s[j] \in {"takeaways", "error"}
    BY <2>1 DEF Led
  <2>3. j # 1
    BY <1>3, <2>2
  <2>4. j - 1 \in 1 .. i - 1 /\ j - 1 \in 1 .. Len(u) /\ (j - 1) + 1 = j
    BY <1>1, <2>2, <2>3
  <2>5. u[j - 1] = s[j]
    BY <1>1, <2>4
  <2>6. QED
    BY <2>2, <2>4, <2>5
<1>4. QED
  BY <1>1, <1>2, <1>3 DEF Led, u

-----------------------------------------------------------------------------
(* The history.                                                            *)

\* The list holds the members of a set, greatest first, up to the limit.
Holds(list, S) ==
    /\ Len(list) = (IF Cardinality(S) > MaxEntries THEN MaxEntries ELSE Cardinality(S))
    /\ \A i \in 1 .. Len(list) : list[i] \in S /\ \A j \in 1 .. i - 1 : list[j] > list[i]
    /\ \A r \in S : \/ \E k \in 1 .. Len(list) : list[k] = r
                    \/ \A k \in 1 .. Len(list) : list[k] > r

\* A greater member is put in front.
LEMMA EntryAdded ==
  ASSUME NEW S \in SUBSET Runs, NEW r \in Runs, \A q \in S : q < r,
         NEW list \in Seq(Runs), Holds(list, S)
  PROVE  WithEntry(list, r) \in Seq(Runs) /\ Holds(WithEntry(list, r), S \cup {r})
<1> DEFINE longer == <<r>> \o list
           n == Len(list)
           m == IF Len(longer) > MaxEntries THEN MaxEntries ELSE Len(longer)
           u == WithEntry(list, r)
           c == Cardinality(S)
<1>1. Runs \subseteq Nat /\ IsFiniteSet(Runs)
  BY FS_Interval, ViewBounds DEF Runs
<1>2. c \in Nat /\ Cardinality(S \cup {r}) = c + 1
  <2>1. IsFiniteSet(S)
    BY <1>1, FS_Subset
  <2>2. r \notin S
    <3>1. ~(r < r)
      BY <1>1
    <3>2. QED
      BY <3>1
  <2>3. QED
    BY <2>1, <2>2, FS_AddElement, FS_CardinalityType
<1>3. n = (IF c > MaxEntries THEN MaxEntries ELSE c) /\ n \in Nat
  BY <1>2, ViewBounds DEF Holds
<1>4. /\ longer \in Seq(Runs) /\ Len(longer) = n + 1 /\ longer[1] = r
      /\ \A i \in 1 .. n : longer[i + 1] = list[i]
  BY <1>3
<1> HIDE DEF longer, n, c
<1>5. /\ m \in 1 .. n + 1 /\ (m = n + 1 \/ (m = MaxEntries /\ m = n))
      /\ m = (IF c + 1 > MaxEntries THEN MaxEntries ELSE c + 1)
  BY <1>2, <1>3, <1>4, ViewBounds
<1>6. u = SubSeq(longer, 1, m)
  BY DEF WithEntry, longer
<1> HIDE DEF m, u
<1>0. n \in Nat /\ m \in Nat /\ 1 <= m /\ m <= n + 1 /\ (m = n + 1 \/ m = n)
  BY <1>3, <1>5
<1>7. /\ u \in Seq(Runs) /\ Len(u) = m /\ \A i \in 1 .. m : u[i] = longer[i]
  <2>1. 1 \in 1 .. Len(longer) + 1 /\ m \in 1 - 1 .. Len(longer)
    BY <1>0, <1>4
  <2>2. /\ u \in Seq(Runs) /\ Len(u) = m - 1 + 1
        /\ \A i \in 1 .. m - 1 + 1 : u[i] = longer[1 + i - 1]
    BY <1>0, <1>4, <1>6, <2>1, SubSeqProperties
  <2>3. QED
    BY <1>0, <2>2
<1>8. /\ u[1] = r /\ \A i \in 2 .. m : i - 1 \in 1 .. n /\ u[i] = list[i - 1]
  <2>1. u[1] = r
    BY <1>0, <1>4, <1>7
  <2>2. ASSUME NEW i \in 2 .. m PROVE i - 1 \in 1 .. n /\ u[i] = list[i - 1]
    <3>1. i - 1 \in 1 .. n /\ i \in 1 .. m /\ (i - 1) + 1 = i
      BY <1>0
    <3>2. QED
      BY <1>4, <1>7, <3>1
  <2>3. QED
    BY <2>1, <2>2
<1>9. \A i \in 1 .. m : i = 1 \/ i \in 2 .. m
  BY <1>0
<1>10. /\ \A i \in 1 .. n : list[i] \in S /\ \A j \in 1 .. i - 1 : list[j] > list[i]
       /\ \A q \in S : \/ \E k \in 1 .. n : list[k] = q
                       \/ \A k \in 1 .. n : list[k] > q
  BY DEF Holds, n
<1>11. ASSUME NEW i \in 1 .. m
       PROVE  u[i] \in S \cup {r} /\ \A j \in 1 .. i - 1 : u[j] > u[i]
  <2>1. CASE i = 1
    BY <1>8, <2>1
  <2>2. CASE i \in 2 .. m
    <3>1. i - 1 \in 1 .. n /\ u[i] = list[i - 1] /\ u[i] \in S
      BY <1>8, <1>10, <2>2
    <3>2. ASSUME NEW j \in 1 .. i - 1 PROVE u[j] > u[i]
      <4>1. CASE j = 1
        BY <1>1, <1>8, <3>1, <4>1
      <4>2. CASE j # 1
        <5>1. j \in 2 .. m /\ j - 1 \in 1 .. (i - 1) - 1
          BY <1>3, <1>5, <4>2
        <5>2. u[j] = list[j - 1]
          BY <1>8, <5>1
        <5>3. QED
          BY <1>10, <3>1, <5>1, <5>2
      <4>3. QED
        BY <4>1, <4>2
    <3>3. QED
      BY <3>1, <3>2
  <2>3. QED
    BY <1>9, <2>1, <2>2
<1>12. ASSUME NEW q \in S \cup {r}
       PROVE  (\E k \in 1 .. m : u[k] = q) \/ (\A k \in 1 .. m : u[k] > q)
  <2>1. CASE q = r
    BY <1>0, <1>8, <2>1
  <2>2. CASE q \in S /\ \A k \in 1 .. n : list[k] > q
    <3>1. u[1] > q
      BY <1>1, <1>8, <2>2
    <3>2. \A k \in 2 .. m : u[k] > q
      BY <1>8, <2>2
    <3>3. QED
      BY <1>9, <3>1, <3>2
  <2>3. CASE q \in S /\ \E k \in 1 .. n : list[k] = q
    <3>1. PICK k \in 1 .. n : list[k] = q
      BY <2>3
    <3>2. CASE k + 1 \in 2 .. m
      <4>1. k + 1 \in 1 .. m /\ (k + 1) - 1 = k
        BY <3>2
      <4>2. u[k + 1] = q
        BY <1>8, <3>1, <3>2, <4>1
      <4>3. QED
        BY <4>1, <4>2
    <3>3. CASE k + 1 \notin 2 .. m
      <4>1. k = n /\ m = n
        BY <1>0, <3>3
      <4>2. u[1] > q
        BY <1>1, <1>8, <2>3
      <4>3. ASSUME NEW i \in 2 .. m PROVE u[i] > q
        <5>1. i - 1 \in 1 .. k - 1 /\ u[i] = list[i - 1]
          BY <1>0, <1>8, <4>1
        <5>2. QED
          BY <1>10, <3>1, <5>1
      <4>4. QED
        BY <1>9, <4>2, <4>3
    <3>4. QED
      BY <3>2, <3>3
  <2>4. QED
    BY <1>10, <2>1, <2>2, <2>3
<1>13. Holds(u, S \cup {r})
  BY <1>2, <1>5, <1>7, <1>11, <1>12 DEF Holds
<1>14. QED
  BY <1>7, <1>13 DEF u


-----------------------------------------------------------------------------
(* Steps of the one run under way.                                         *)

LEMMA KeepsIsHolds == \A list : Keeps(list) <=> Holds(list, Shown)
  BY DEF Keeps, Holds

\* A step that shows no new run leaves the histories as they are.
LEMMA HistoriesKept ==
  ASSUME HistoriesOK, UNCHANGED histories, Shown' = Shown
  PROVE  HistoriesOK'
<1>1. app' = app /\ hook' = hook /\ saved' = saved
  BY DEF histories
<1>2. Keeps(app) = (Keeps(app))'
  BY <1>1 DEF Keeps
<1>3. QED
  BY <1>1, <1>2 DEF HistoriesOK, Runs

\* Only the run under way moves.
LEMMA Turn ==
  ASSUME PageOK, NEW r \in Runs, Underway(r),
         \A q \in Runs \ {r} : run'[q].phase = run[q].phase,
         run'[r].phase # "none",
         Underway(r)' => RunPage(r)', ~Underway(r)' => IdlePage', HistoriesOK'
  PROVE  PageOK'
<1>1. \A q \in Runs : Underway(q)' => q = r
  BY DEF PageOK, RunsOK, Underway
<1>2. \A q \in Runs : (In(q, "none") \/ Underway(q))' => In(q, "none") \/ Underway(q)
  BY DEF In, Underway
<1>3. \A q \in Runs : q # r /\ In(q, "none") => In(q, "none")'
  BY DEF In
<1>4. ~In(r, "none")
  BY DEF In, Underway
<1>5. RunsOK'
  <2>1. ASSUME NEW p \in Runs, NEW q \in Runs, p < q, (In(p, "none") \/ Underway(p))'
        PROVE  In(q, "none")'
    BY <1>2, <1>3, <1>4, <2>1 DEF PageOK, RunsOK
  <2>2. QED
    BY <1>1, <2>1 DEF RunsOK, Runs
<1>6. \A q \in Runs : Underway(q)' => RunPage(q)'
  BY <1>1
<1>7. (\A q \in Runs : ~Underway(q)') => IdlePage'
  OBVIOUS
<1>8. QED
  BY <1>5, <1>6, <1>7 DEF PageOK, Runs

\* The run stays under way, or fails: no run is shown that was not.
LEMMA QuietTurn ==
  ASSUME PageOK, StateOK, NEW r \in Runs, Underway(r),
         \A q \in Runs \ {r} : run'[q].phase = run[q].phase,
         run'[r].phase \in {"ingest", "stream", "fallback", "failed"},
         Underway(r)' => RunPage(r)', ~Underway(r)' => IdlePage', UNCHANGED histories
  PROVE  PageOK'
<1>1. Shown' = Shown
  BY DEF Shown, Underway, Runs
<1>2. HistoriesOK'
  BY <1>1, HistoriesKept DEF PageOK
<1>3. QED
  BY <1>2, Turn

\* The run succeeds: it is the newest entry of the three histories.
LEMMA SucceedStep ==
  ASSUME PageOK, StateOK, NEW r \in Runs, Underway(r), NEW next, NEW phase \in {"streamed", "posted"},
         Succeed(r, phase, TRUE, next), DOMAIN next = DOMAIN ui,
         next.document = ui.document, next.takeaways = r
  PROVE  PageOK'
<1>1. /\ run'[r].phase = phase /\ \A q \in Runs \ {r} : run'[q].phase = run[q].phase
      /\ ui'.summary = r /\ ui'.document = ui.document /\ ui'.takeaways = r
  BY DEF Succeed, StateOK
<1>2. ~Underway(r)' /\ IdlePage'
  BY <1>1 DEF Underway, IdlePage, PageOK, RunPage
<1>3. Shown' = Shown \cup {r}
  BY <1>1 DEF Shown, Runs
<1>4. \A q \in Shown : q < r
  <2> SUFFICES ASSUME NEW q \in Runs, q \in Shown PROVE q < r
    BY DEF Shown
  <2>1. q # r /\ ~In(q, "none")
    BY DEF Shown, Underway, In
  <2>2. ~(r < q)
    BY <2>1 DEF PageOK, RunsOK
  <2>3. q \in Nat /\ r \in Nat
    BY ViewBounds DEF Runs
  <2>4. QED
    BY <2>1, <2>2, <2>3
<1>5. ~ui.success /\ hook = app /\ app \in Seq(Runs) /\ Holds(app, Shown)
  BY KeepsIsHolds DEF PageOK, RunPage, HistoriesOK
<1>6. /\ WithEntry(app, r) \in Seq(Runs) /\ Holds(WithEntry(app, r), Shown \cup {r})
  <2>1. Shown \in SUBSET Runs
    BY DEF Shown
  <2>2. QED
    BY <1>4, <1>5, <2>1, EntryAdded
<1>7. app' = WithEntry(app, r) /\ hook' = app' /\ saved' = app'
  BY <1>5 DEF Succeed
<1>8. Holds(app', Shown') <=> (Keeps(app))'
  BY DEF Keeps, Holds
<1>9. HistoriesOK'
  BY <1>3, <1>6, <1>7, <1>8 DEF HistoriesOK, Runs
<1>10. QED
  BY <1>1, <1>2, <1>9, Turn

\* The run gives up: no summary is shown.
LEMMA GiveUpTurn ==
  ASSUME PageOK, StateOK, NEW r \in Runs, Underway(r), GiveUp(r)
  PROVE  PageOK'
<1>1. /\ run'[r].phase = "failed" /\ \A q \in Runs \ {r} : run'[q].phase = run[q].phase
      /\ ui'.summary = ui.summary /\ UNCHANGED histories
  BY DEF GiveUp, StateOK
<1>2. ~Underway(r)' /\ IdlePage'
  BY <1>1 DEF Underway, IdlePage, PageOK, RunPage
<1>3. QED
  BY <1>1, <1>2, QuietTurn

LEMMA InitPage == Init => PageOK
<1> SUFFICES ASSUME Init PROVE PageOK
  OBVIOUS
<1>1. \A r \in Runs : In(r, "none") /\ ~Underway(r)
  BY DEF Init, In, Underway
<1>2. Shown = {}
  BY DEF Init, Shown
<1>3. Keeps(<< >>)
  BY <1>2, FS_EmptySet, ViewBounds DEF Keeps
<1>4. HistoriesOK
  BY <1>3 DEF Init, HistoriesOK
<1>5. IdlePage
  BY DEF Init, IdlePage
<1>6. QED
  BY <1>1, <1>4, <1>5 DEF PageOK, RunsOK

\* A click finds no run under way, and takes up the next one.
LEMMA ClickTurn ==
  ASSUME PageOK, StateOK, NEW r \in Runs, Click(r)
  PROVE  PageOK'
<1>1. /\ \A q \in Runs : ~Underway(q)
      /\ In(r, "none") /\ \A q \in Runs : q < r => ~In(q, "none")
  BY DEF Click, PageOK, RunPage
<1>2. /\ run'[r].phase = "ingest" /\ \A q \in Runs \ {r} : run'[q].phase = run[q].phase
  BY DEF Click, StateOK
<1>3. UNCHANGED histories
  BY DEF Click, histories
<1>4. /\ ui'.loading /\ ui'.document = 0 /\ ui'.summary = 0 /\ ui'.success = FALSE
  BY DEF Click, StateOK
<1>5. Underway(r)' /\ \A q \in Runs : Underway(q)' => q = r
  BY <1>1, <1>2 DEF Underway
<1>6. RunsOK'
  <2>1. ASSUME NEW p \in Runs, NEW q \in Runs, p < q, (In(p, "none") \/ Underway(p))'
        PROVE  In(q, "none")'
    <3>0. p \in Nat /\ q \in Nat /\ r \in Nat
      BY ViewBounds DEF Runs
    <3>1. CASE p = r
      <4>1. In(q, "none") /\ q # r
        BY <1>1, <2>1, <3>0, <3>1 DEF PageOK, RunsOK
      <4>2. QED
        BY <1>2, <4>1 DEF In
    <3>2. CASE p # r
      <4>1. In(p, "none")
        BY <1>2, <1>5, <2>1, <3>2 DEF In
      <4>2. ~(p < r)
        BY <1>1, <4>1
      <4>3. q # r /\ In(q, "none")
        BY <2>1, <3>0, <4>1, <4>2 DEF PageOK, RunsOK
      <4>4. QED
        BY <1>2, <4>3 DEF In
    <3>3. QED
      BY <3>1, <3>2
  <2>2. QED
    BY <1>5, <2>1 DEF RunsOK, Runs
<1>7. RunPage(r)'
  BY <1>2, <1>4 DEF RunPage, Busy, In
<1>8. Shown' = Shown
  BY <1>1, <1>2 DEF Shown, Runs, In
<1>9. HistoriesOK'
  BY <1>3, <1>8, HistoriesKept DEF PageOK
<1>10. QED
  BY <1>5, <1>6, <1>7, <1>9 DEF PageOK, Runs

LEMMA IngestedTurn ==
  ASSUME PageOK, StateOK, ChannelsOK, NEW r \in Runs, Ingested(r)
  PROVE  PageOK'
<1>1. Underway(r) /\ In(r, "ingest")
  BY DEF Ingested, In, Underway
<1>2. CASE GiveUp(r)
  BY <1>1, <1>2, GiveUpTurn
<1>3. CASE ~GiveUp(r)
  <2>1. /\ run'[r].phase = "stream" /\ \A q \in Runs \ {r} : run'[q].phase = run[q].phase
        /\ UNCHANGED <<histories, chan>>
    BY <1>3 DEF Ingested, StateOK
  <2>2. /\ ui'.streaming /\ ui'.document \in {r, ui.document}
        /\ ui'.summary = ui.summary /\ ui'.success = ui.success
    BY <1>3 DEF Ingested, StateOK
  <2>3. ui.document \in {0, r} /\ ui.summary = 0 /\ ui.success = FALSE
    BY <1>1 DEF PageOK, RunPage
  <2>4. chan'[r] = << >>
    BY <1>1, <2>1 DEF ChannelsOK, In
  <2>5. Led(chan[r])'
    BY <2>4, LedEmpty DEF Led
  <2>6. RunPage(r)' /\ Underway(r)'
    BY <2>1, <2>2, <2>3, <2>5 DEF RunPage, Busy, Underway
  <2>7. QED
    BY <1>1, <2>1, <2>6, QuietTurn
<1>4. QED
  BY <1>2, <1>3

LEMMA FallBackTurn ==
  ASSUME PageOK, StateOK, NEW r \in Runs, FallBack(r)
  PROVE  PageOK'
<1>1. Underway(r)
  BY DEF FallBack, In, Underway
<1>2. /\ run'[r].phase = "fallback" /\ \A q \in Runs \ {r} : run'[q].phase = run[q].phase
      /\ UNCHANGED histories
  BY DEF FallBack, StateOK
<1>3. /\ ui'.loading /\ ui'.document = ui.document
      /\ ui'.summary = ui.summary /\ ui'.success = ui.success
  BY DEF FallBack, StateOK
<1>4. RunPage(r)' /\ Underway(r)'
  BY <1>1, <1>2, <1>3 DEF PageOK, RunPage, Busy, Underway, In
<1>5. QED
  BY <1>1, <1>2, <1>4, QuietTurn

\* A done event comes after takeaways: the page has those of this run.
LEMMA ReadTurn ==
  ASSUME PageOK, StateOK, NEW r \in Runs, Read(r), calm'
  PROVE  PageOK'
<1> DEFINE event == Head(chan[r])
<1>1. /\ Underway(r) /\ In(r, "stream") /\ chan[r] # << >> /\ chan[r] \in Seq(Event)
      /\ event \in Event
  BY Popped DEF Read, Underway, In, StateOK
<1>2. /\ Busy /\ ui.document \in {0, r} /\ ui.summary = 0 /\ ui.success = FALSE
      /\ ui.takeaways = r \/ Led(chan[r])
  BY <1>1 DEF PageOK, RunPage
<1>3. CASE event = "error"
  BY <1>3, FallBackTurn DEF Read
<1>4. CASE event = "done"
  <2>1. Streamed(r)
    BY <1>4 DEF Read
  <2>2. ui.takeaways = r
    BY <1>1, <1>2, <1>4, LedPopped
  <2>3. run[r].some \in BOOLEAN /\ run[r].some
    BY <2>1 DEF Streamed, Succeed, StateOK
  <2>4. run[r].some = TRUE
    BY <2>3
  <2>5. Succeed(r, "streamed", TRUE, [ui EXCEPT !.partial = 0, !.streaming = FALSE])
    BY <2>1, <2>4 DEF Streamed
  <2> DEFINE next == [ui EXCEPT !.partial = 0, !.streaming = FALSE]
  <2>6. /\ DOMAIN next = DOMAIN ui /\ next.document = ui.document
        /\ next.takeaways = ui.takeaways
    BY DEF StateOK
  <2> HIDE DEF next
  <2>7. Succeed(r, "streamed", TRUE, next)
    BY <2>5 DEF next
  <2>8. QED
    BY <1>1, <2>2, <2>6, <2>7, SucceedStep
<1>5. CASE event \in {"token", "takeaways", "silent"}
  <2>0. /\ run' = run \/ run' = [run EXCEPT ![r].some = TRUE]
        /\ Pop(r) /\ UNCHANGED histories
    BY <1>5 DEF Read
  <2>1. /\ \A q \in Runs : run'[q].phase = run[q].phase
        /\ chan'[r] = Tail(chan[r]) /\ UNCHANGED histories
    <3>1. run \in [Runs -> [phase : Phase, aborted : BOOLEAN, some : BOOLEAN]]
      BY DEF StateOK
    <3>2. \A q \in Runs : run'[q].phase = run[q].phase
      BY <2>0, <3>1
    <3>3. chan'[r] = Tail(chan[r])
      BY <2>0 DEF Pop, StateOK
    <3>4. QED
      BY <2>0, <3>2, <3>3
  <2>2. /\ ui'.loading = ui.loading /\ ui'.streaming = ui.streaming
        /\ ui'.document = ui.document /\ ui'.summary = ui.summary /\ ui'.success = ui.success
        /\ ui'.takeaways = IF event = "takeaways" THEN r ELSE ui.takeaways
    BY <1>5 DEF Read, StateOK
  <2>3. ui'.takeaways = r \/ Led(chan'[r])
    BY <1>1, <1>2, <1>5, <2>1, <2>2, LedPopped
  <2>4. Led(chan'[r]) <=> Led(chan[r])'
    BY DEF Led
  <2>5. RunPage(r)' /\ Underway(r)' /\ run'[r].phase = "stream"
    BY <1>1, <1>2, <2>1, <2>2, <2>3, <2>4 DEF RunPage, Busy, Underway, In
  <2>6. QED
    BY <1>1, <2>1, <2>5, QuietTurn
<1>6. QED
  BY <1>1, <1>3, <1>4, <1>5 DEF Event

LEMMA FallbackAnsweredTurn ==
  ASSUME PageOK, StateOK, NEW r \in Runs, FallbackAnswered(r)
  PROVE  PageOK'
<1> DEFINE next == [ui EXCEPT !.takeaways = r]
<1>1. Underway(r)
  BY DEF FallbackAnswered, In, Underway
<1>2. CASE GiveUp(r)
  BY <1>1, <1>2, GiveUpTurn
<1>3. CASE Succeed(r, "posted", TRUE, next)
  <2>1. DOMAIN next = DOMAIN ui /\ next.document = ui.document /\ next.takeaways = r
    BY DEF StateOK
  <2> HIDE DEF next
  <2>2. QED
    BY <1>1, <1>3, <2>1, SucceedStep
<1>4. QED
  BY <1>2, <1>3 DEF FallbackAnswered

-----------------------------------------------------------------------------
(* Steps that leave every run in its phase.                                *)

LEMMA PageKept ==
  ASSUME PageOK, StateOK, \A q \in Runs : run'[q].phase = run[q].phase, UNCHANGED histories,
         \A r \in Runs : Underway(r) => RunPage(r)',
         (\A r \in Runs : ~Underway(r)) => IdlePage'
  PROVE  PageOK'
<1>1. \A q \in Runs : (Underway(q)' <=> Underway(q)) /\ (In(q, "none")' <=> In(q, "none"))
  BY DEF Underway, In
<1>2. RunsOK'
  BY <1>1 DEF PageOK, RunsOK, Runs
<1>3. Shown' = Shown
  BY DEF Shown, Runs
<1>4. HistoriesOK'
  BY <1>3, HistoriesKept DEF PageOK
<1>5. QED
  BY <1>1, <1>2, <1>4 DEF PageOK, Runs

\* What the generator emits keeps takeaways before done.
LEMMA EmitTurn ==
  ASSUME PageOK, StateOK, NEW r \in Runs, NEW list \in Seq(Event), Led(list),
         Emit(r, list), UNCHANGED <<ui, run, histories>>
  PROVE  PageOK'
<1>1. ASSUME NEW q \in Runs, Underway(q) PROVE RunPage(q)'
  <2>1. /\ Busy /\ ui.document \in {0, q} /\ ui.summary = 0 /\ ui.success = FALSE
        /\ In(q, "stream") => ui.takeaways = q \/ Led(chan[q])
    BY <1>1 DEF PageOK, RunPage
  <2>2. Led(chan[q]) => Led(chan'[q])
    <3>1. chan[q] \in Seq(Event)
      BY DEF StateOK
    <3>2. chan'[q] = chan[q] \/ chan'[q] = chan[q] \o list
      BY DEF Emit, StateOK
    <3>3. QED
      BY <3>1, <3>2, LedAppended
  <2>3. Led(chan'[q]) <=> Led(chan[q])'
    BY DEF Led
  <2>4. ui' = ui /\ run' = run
    OBVIOUS
  <2>5. QED
    BY <2>1, <2>2, <2>3, <2>4 DEF RunPage, Busy, In
<1>2. (\A q \in Runs : ~Underway(q)) => IdlePage'
  BY DEF PageOK, IdlePage
<1>3. QED
  BY <1>1, <1>2, PageKept

\* The lists of events the generator emits.
LEMMA LedEmissions ==
  /\ Led(<<"token">>) /\ Led(<<"error">>) /\ Led(<<"silent">>)
  /\ Led(<<"takeaways", "done">>) /\ Led(<<"token", "takeaways", "done">>)
  /\ Led(<<"error", "done">>)
<1>1. Led(<<"token">>) /\ Led(<<"error">>) /\ Led(<<"silent">>)
  BY DEF Led
<1>2. Led(<<"takeaways", "done">>)
  BY DEF Led
<1>3. Led(<<"token", "takeaways", "done">>)
  BY DEF Led
<1>4. Led(<<"error", "done">>)
  BY DEF Led
<1>5. QED
  BY <1>1, <1>2, <1>3, <1>4

LEMMA GenerateTurn ==
  ASSUME PageOK, StateOK, NEW r \in Runs, Generate(r)
  PROVE  PageOK'
<1>1. UNCHANGED <<ui, run, histories>>
  BY DEF Generate, Prepare, StreamLLM, Finish
<1>2. /\ << >> \in Seq(Event) /\ Led(<< >>)
      /\ UNCHANGED chan => Emit(r, << >>)
  BY EmptyChannel, LedEmpty, EmitNothing
<1>3. PICK list \in {<< >>, <<"token">>, <<"error">>, <<"silent">>, <<"takeaways", "done">>,
                     <<"token", "takeaways", "done">>, <<"error", "done">>} : Emit(r, list)
  <2>1. CASE Prepare(r)
    BY <1>2, <2>1 DEF Prepare
  <2>2. CASE StreamLLM(r)
    BY <1>2, <2>2 DEF StreamLLM
  <2>3. CASE Finish(r)
    BY <2>3 DEF Finish
  <2>4. QED
    BY <2>1, <2>2, <2>3 DEF Generate
<1>4. list \in Seq(Event) /\ Led(list)
  BY <1>2, <1>3, Emissions, LedEmissions
<1>5. QED
  BY <1>1, <1>3, <1>4, EmitTurn

LEMMA TimerTurn ==
  ASSUME PageOK, StateOK, TimerFires
  PROVE  PageOK'
<1>1. UNCHANGED <<run, chan, histories>>
  BY DEF TimerFires
<1>2. /\ ui'.loading = ui.loading /\ ui'.streaming = ui.streaming /\ ui'.document = ui.document
      /\ ui'.summary = ui.summary /\ ui'.takeaways = ui.takeaways /\ ui'.success = FALSE
  BY DEF TimerFires, StateOK
<1>3. ASSUME NEW r \in Runs, Underway(r) PROVE RunPage(r)'
  <2>1. Led(chan[r])' <=> Led(chan[r])
    BY <1>1 DEF Led
  <2>2. RunPage(r)
    BY <1>3 DEF PageOK
  <2>3. QED
    BY <1>1, <1>2, <2>1, <2>2 DEF RunPage, Busy, In
<1>4. (\A q \in Runs : ~Underway(q)) => IdlePage'
  BY <1>2 DEF PageOK, IdlePage
<1>5. QED
  BY <1>1, <1>3, <1>4, PageKept

\* While calm, New summary finds the page idle.
LEMMA ResetTurn ==
  ASSUME PageOK, StateOK, Reset, calm'
  PROVE  PageOK'
<1>1. \A q \in Runs : run'[q].phase = run[q].phase
  BY AbortKeepsPhases DEF Reset
<1>2. \A r \in Runs : ~Underway(r)
  BY DEF Reset, PageOK, RunPage
<1>3. UNCHANGED histories
  BY DEF Reset
<1>4. ui'.summary = 0
  BY DEF Reset, StateOK
<1>5. IdlePage'
  BY <1>4 DEF IdlePage
<1>6. QED
  BY <1>1, <1>2, <1>3, <1>5, PageKept

LEMMA StutterTurn ==
  ASSUME PageOK, StateOK, UNCHANGED vars
  PROVE  PageOK'
<1>1. UNCHANGED <<ui, run, histories>> /\ UNCHANGED chan
  BY DEF vars
<1>2. ASSUME NEW r \in Runs, Underway(r) PROVE RunPage(r)'
  <2>1. Led(chan[r])' <=> Led(chan[r])
    BY <1>1 DEF Led
  <2>2. RunPage(r)
    BY <1>2 DEF PageOK
  <2>3. QED
    BY <1>1, <2>1, <2>2 DEF RunPage, Busy, In
<1>3. (\A q \in Runs : ~Underway(q)) => IdlePage'
  BY <1>1 DEF PageOK, IdlePage
<1>4. QED
  BY <1>1, <1>2, <1>3, PageKept

LEMMA NextCInv == CInv /\ [Next]_vars => CInv'
<1> SUFFICES ASSUME CInv, [Next]_vars, calm' PROVE PageOK'
  BY NextIInv DEF CInv
<1>0. StateOK /\ ChannelsOK /\ (calm => PageOK)
  BY DEF CInv, IInv
<1>1. ASSUME NEW r \in Runs, Click(r) PROVE PageOK'
  BY <1>0, <1>1, ClickTurn DEF Click
<1>2. ASSUME NEW r \in Runs, Handle(r) PROVE PageOK'
  <2>1. CASE Ingested(r)
    <3>1. calm
      BY <2>1 DEF Ingested, GiveUp
    <3>2. QED
      BY <1>0, <2>1, <3>1, IngestedTurn
  <2>2. CASE Read(r)
    <3>1. calm
      BY <2>2 DEF Read, FallBack, Streamed, Succeed
    <3>2. QED
      BY <1>0, <2>2, <3>1, ReadTurn
  <2>3. CASE NoticeAbort(r)
    BY <1>0, <2>3, FallBackTurn DEF NoticeAbort, FallBack
  <2>4. CASE FallbackAnswered(r)
    <3>1. calm
      BY <2>4 DEF FallbackAnswered, GiveUp, Succeed
    <3>2. QED
      BY <1>0, <2>4, <3>1, FallbackAnsweredTurn
  <2>5. QED
    BY <1>2, <2>1, <2>2, <2>3, <2>4 DEF Handle
<1>3. ASSUME NEW r \in Runs, Generate(r) PROVE PageOK'
  <2>1. calm
    BY <1>3 DEF Generate, Prepare, StreamLLM, Finish
  <2>2. QED
    BY <1>0, <1>3, <2>1, GenerateTurn
<1>4. ASSUME NEW r \in Runs, Broken(r) PROVE PageOK'
  BY <1>0, <1>4, FallBackTurn DEF Broken, FallBack
<1>5. CASE TimerFires
  BY <1>0, <1>5, TimerTurn DEF TimerFires
<1>6. ~Stop /\ ~Restore /\ ~Remove
  BY DEF Stop, Restore, Remove
<1>7. CASE Reset
  BY <1>0, <1>7, ResetTurn DEF Reset
<1>8. CASE UNCHANGED vars
  BY <1>0, <1>8, StutterTurn DEF vars
<1>9. QED
  BY <1>1, <1>2, <1>3, <1>4, <1>5, <1>6, <1>7, <1>8 DEF Next

\* As long as nobody intervenes, whatever fails on the way: one run at a time,
\* the page busy exactly while it is under way, each summary beside its own
\* document and takeaways, and the histories of the two instances and of the
\* storage the same complete list, newest first, cut to MaxEntries.
THEOREM CalmHolds == Spec => []CalmPage
<1>1. Init => CInv
  BY InitIInv, InitPage DEF CInv
<1>2. CInv => CalmPage
  <2> SUFFICES ASSUME IInv, PageOK PROVE CalmPage
    BY DEF CInv, CalmPage
  <2>1. Busy <=> \E r \in Runs : Underway(r)
    BY DEF IInv, FlagsOK, PageOK, RunPage, Busy, Underway, In
  <2>2. ~Busy => IdlePage
    BY <2>1 DEF PageOK
  <2>3. QED
    BY <2>1, <2>2 DEF CalmPage, PageOK, RunsOK, HistoriesOK, IdlePage
<1>3. QED
  BY <1>1, <1>2, NextCInv, PTL DEF Spec
-----------------------------------------------------------------------------
(* Types: each run that ends sets one timer, so there are never more timers *)
(* than runs, and a list is cut before it is kept.                         *)

Lists == UNION {[1 .. n -> Runs] : n \in 0 .. MaxEntries}

Ended(phase) == phase \in {"failed", "streamed", "posted"}
EndedRuns == {r \in Runs : Ended(run[r].phase)}

UiOK == ui \in [loading : BOOLEAN, streaming : BOOLEAN, ref : 0 .. MaxRuns,
                   partial : 0 .. MaxRuns, summary : 0 .. MaxRuns, takeaways : 0 .. MaxRuns,
                   document : 0 .. MaxRuns, success : BOOLEAN, timers : Nat]
TimersOK == ui.timers <= Cardinality(EndedRuns)
ListsOK == hook \in Lists /\ app \in Lists /\ saved \in Lists
RestOK == events \in 0 .. MaxEvents /\ calm \in BOOLEAN

TInv == IInv /\ UiOK /\ TimersOK /\ ListsOK /\ RestOK

\* The lists are the sequences of runs up to the limit.
LEMMA ListsAreShort ==
  \A list : list \in Lists <=> list \in Seq(Runs) /\ Len(list) <= MaxEntries
<1>1. ASSUME NEW list \in Lists PROVE list \in Seq(Runs) /\ Len(list) <= MaxEntries
  <2>1. PICK n \in 0 .. MaxEntries : list \in [1 .. n -> Runs]
    BY DEF Lists
  <2>2. n \in Nat /\ n <= MaxEntries
    BY ViewBounds
  <2>3. QED
    BY <2>1, <2>2
<1>2. ASSUME NEW list \in Seq(Runs), Len(list) <= MaxEntries PROVE list \in Lists
  <2>1. Len(list) \in 0 .. MaxEntries /\ list \in [1 .. Len(list) -> Runs]
    BY <1>2, ViewBounds, LenProperties
  <2>2. QED
    BY <2>1 DEF Lists
<1>3. QED
  BY <1>1, <1>2

LEMMA EntryList ==
  ASSUME NEW list \in Lists, NEW r \in Runs
  PROVE  WithEntry(list, r) \in Lists
<1> DEFINE longer == <<r>> \o list
           m == IF Len(longer) > MaxEntries THEN MaxEntries ELSE Len(longer)
<1>1. list \in Seq(Runs) /\ Len(list) \in Nat
  BY ListsAreShort
<1>2. longer \in Seq(Runs) /\ Len(longer) = Len(list) + 1
  BY <1>1
<1> HIDE DEF longer
<1>3. m \in Nat /\ m >= 1 /\ m <= Len(longer) /\ m <= MaxEntries
  BY <1>1, <1>2, ViewBounds
<1>4. WithEntry(list, r) = SubSeq(longer, 1, m)
  BY DEF WithEntry, longer
<1> HIDE DEF m
<1>5. 1 \in 1 .. Len(longer) + 1 /\ m \in 1 - 1 .. Len(longer)
  BY <1>1, <1>2, <1>3
<1>6. SubSeq(longer, 1, m) \in Seq(Runs) /\ Len(SubSeq(longer, 1, m)) = m - 1 + 1
  BY <1>2, <1>5, SubSeqProperties
<1>7. Len(SubSeq(longer, 1, m)) <= MaxEntries
  BY <1>3, <1>6, ViewBounds
<1>8. QED
  BY <1>4, <1>6, <1>7, ListsAreShort

LEMMA ShorterList ==
  ASSUME NEW list \in Lists, NEW i \in 1 .. Len(list)
  PROVE  SubSeq(list, 1, i - 1) \o SubSeq(list, i + 1, Len(list)) \in Lists
<1> DEFINE u == SubSeq(list, 1, i - 1)
           v == SubSeq(list, i + 1, Len(list))
<1>1. list \in Seq(Runs) /\ Len(list) \in Nat /\ Len(list) <= MaxEntries
  BY ListsAreShort
<1>2. u \in Seq(Runs) /\ Len(u) = i - 1
  <2>1. 1 \in 1 .. Len(list) + 1 /\ i - 1 \in 1 - 1 .. Len(list)
    BY <1>1
  <2>2. u \in Seq(Runs) /\ Len(u) = (i - 1) - 1 + 1
    BY <1>1, <2>1, SubSeqProperties
  <2>3. QED
    BY <1>1, <2>2
<1>3. v \in Seq(Runs) /\ Len(v) = Len(list) - i
  <2>1. i + 1 \in 1 .. Len(list) + 1 /\ Len(list) \in (i + 1) - 1 .. Len(list)
    BY <1>1
  <2>2. v \in Seq(Runs) /\ Len(v) = Len(list) - (i + 1) + 1
    BY <1>1, <2>1, SubSeqProperties
  <2>3. QED
    BY <1>1, <2>2
<1> HIDE DEF u, v
<1>4. u \o v \in Seq(Runs) /\ Len(u \o v) = Len(u) + Len(v)
  BY <1>2, <1>3, ConcatProperties
<1>5. Len(u \o v) <= MaxEntries
  BY <1>1, <1>2, <1>3, <1>4, ViewBounds
<1>6. QED
  BY <1>4, <1>5, ListsAreShort DEF u, v

LEMMA RunsFinite == IsFiniteSet(Runs) /\ Cardinality(Runs) = MaxRuns
  BY FS_Interval, ViewBounds DEF Runs

LEMMA EndedFinite ==
  /\ IsFiniteSet(EndedRuns) /\ Cardinality(EndedRuns) \in Nat
  /\ Cardinality(EndedRuns) <= MaxRuns
  BY RunsFinite, FS_Subset, FS_CardinalityType DEF EndedRuns

\* A run ends.
LEMMA OneEnds ==
  ASSUME StateOK, NEW r \in Runs, Underway(r), NEW phase \in Phase, Ended(phase),
         run' = [run EXCEPT ![r].phase = phase]
  PROVE  Cardinality(EndedRuns)' = Cardinality(EndedRuns) + 1
<1>1. r \notin EndedRuns
  BY DEF EndedRuns, Ended, Underway
<1>2. /\ run'[r].phase = phase
      /\ \A q \in Runs : q # r => run'[q].phase = run[q].phase
  BY DEF StateOK
<1>3. EndedRuns' = EndedRuns \cup {r}
  BY <1>2 DEF EndedRuns
<1>4. Cardinality(EndedRuns \cup {r}) = Cardinality(EndedRuns) + 1
  BY <1>1, EndedFinite, FS_AddElement
<1>5. QED
  BY <1>3, <1>4

\* Nothing ends.
LEMMA NoneEnds ==
  ASSUME \A q \in Runs : Ended(run'[q].phase) <=> Ended(run[q].phase)
  PROVE  Cardinality(EndedRuns)' = Cardinality(EndedRuns)
<1>1. EndedRuns' = EndedRuns
  BY DEF EndedRuns
<1>2. QED
  BY <1>1

\* A step in which no run ends and no timer is set.
LEMMA TimersKept ==
  ASSUME UiOK, TimersOK, UiOK', ui'.timers <= ui.timers,
         \A q \in Runs : Ended(run'[q].phase) <=> Ended(run[q].phase)
  PROVE  TimersOK'
<1>1. ui.timers \in Nat /\ ui'.timers \in Nat
  BY DEF UiOK
<1>2. QED
  BY <1>1, NoneEnds, EndedFinite DEF TimersOK

LEMMA SamePhases ==
  ASSUME StateOK, NEW r \in Runs, ~Ended(run[r].phase), NEW phase \in Phase, ~Ended(phase),
         run' = [run EXCEPT ![r].phase = phase]
  PROVE  \A q \in Runs : Ended(run'[q].phase) <=> Ended(run[q].phase)
<1>1. /\ run'[r].phase = phase
      /\ \A q \in Runs : q # r => run'[q].phase = run[q].phase
  BY DEF StateOK
<1>2. QED
  BY <1>1

LEMMA RunNumbers == 0 \in 0 .. MaxRuns /\ \A r \in Runs : r \in 0 .. MaxRuns
  BY ViewBounds DEF Runs

\* What is left to prove of a step.
TypesOK == UiOK /\ TimersOK /\ ListsOK /\ RestOK

LEMMA InitTypes == Init => TypesOK
<1> SUFFICES ASSUME Init PROVE TypesOK
  OBVIOUS
<1>1. UiOK
  BY RunNumbers DEF Init, UiOK
<1>2. TimersOK
  BY EndedFinite DEF Init, TimersOK
<1>3. << >> \in Seq(Runs) /\ Len(<< >>) <= MaxEntries
  BY ViewBounds
<1>4. ListsOK
  BY <1>3, ListsAreShort DEF Init, ListsOK
<1>5. RestOK
  BY ViewBounds DEF Init, RestOK
<1>6. QED
  BY <1>1, <1>2, <1>4, <1>5 DEF TypesOK

LEMMA ClickTypes ==
  ASSUME TInv, NEW r \in Runs, Click(r)
  PROVE  TypesOK'
<1>1. UiOK' /\ ui'.timers = ui.timers
  BY RunNumbers DEF TInv, UiOK, Click
<1>2. TimersOK'
  <2>1. run' = [run EXCEPT ![r].phase = "ingest"] /\ ~Ended(run[r].phase)
    BY DEF Click, In, Ended
  <2>2. "ingest" \in Phase /\ ~Ended("ingest")
    BY DEF Phase, Ended
  <2>3. \A q \in Runs : Ended(run'[q].phase) <=> Ended(run[q].phase)
    BY <2>1, <2>2, SamePhases DEF TInv, IInv
  <2>4. ui'.timers <= ui.timers
    BY <1>1 DEF UiOK
  <2>5. QED
    BY <1>1, <2>3, <2>4, TimersKept DEF TInv
<1>3. ListsOK' /\ RestOK'
  BY DEF TInv, ListsOK, RestOK, Click, histories
<1>4. QED
  BY <1>1, <1>2, <1>3 DEF TypesOK

\* The end of a run, by giving up or with a summary.
LEMMA EndTypes ==
  ASSUME TInv, NEW r \in Runs, Underway(r), NEW phase \in Phase, Ended(phase),
         run' = [run EXCEPT ![r].phase = phase], UiOK', ui'.timers = ui.timers + 1
  PROVE  TimersOK'
<1>1. Cardinality(EndedRuns)' = Cardinality(EndedRuns) + 1
  BY OneEnds DEF TInv, IInv
<1>2. ui.timers \in Nat /\ ui.timers <= Cardinality(EndedRuns) /\ Cardinality(EndedRuns) \in Nat
  BY EndedFinite DEF TInv, UiOK, TimersOK
<1>3. QED
  BY <1>1, <1>2 DEF TimersOK

LEMMA GiveUpTypes ==
  ASSUME TInv, NEW r \in Runs, Underway(r), GiveUp(r)
  PROVE  UiOK' /\ TimersOK' /\ ListsOK' /\ calm' \in BOOLEAN
<1>1. UiOK' /\ ui'.timers = ui.timers + 1
  <2>1. ui'.timers = ui.timers + 1 /\ ui.timers + 1 \in Nat
    BY DEF TInv, UiOK, GiveUp
  <2>2. PICK n \in Nat :
           ui' = [ui EXCEPT !.streaming = FALSE, !.partial = 0, !.success = FALSE,
                            !.timers = n, !.loading = FALSE, !.ref = 0]
    BY <2>1 DEF GiveUp
  <2>3. UiOK'
    BY <2>2, RunNumbers DEF TInv, UiOK
  <2>4. QED
    BY <2>1, <2>3
<1>2. "failed" \in Phase /\ Ended("failed") /\ run' = [run EXCEPT ![r].phase = "failed"]
  BY DEF Phase, Ended, GiveUp
<1>3. TimersOK'
  BY <1>1, <1>2, EndTypes
<1>4. ListsOK' /\ calm' \in BOOLEAN
  BY DEF TInv, ListsOK, RestOK, GiveUp, histories
<1>5. QED
  BY <1>1, <1>3, <1>4

LEMMA SucceedTypes ==
  ASSUME TInv, NEW r \in Runs, Underway(r), NEW phase \in Phase, Ended(phase),
         NEW some \in BOOLEAN, NEW next, next.timers = ui.timers,
         next \in [loading : BOOLEAN, streaming : BOOLEAN, ref : 0 .. MaxRuns,
                   partial : 0 .. MaxRuns, summary : 0 .. MaxRuns, takeaways : 0 .. MaxRuns,
                   document : 0 .. MaxRuns, success : BOOLEAN, timers : Nat],
         Succeed(r, phase, some, next)
  PROVE  UiOK' /\ TimersOK' /\ ListsOK' /\ calm' \in BOOLEAN
<1>1. UiOK' /\ ui'.timers = ui.timers + 1
  <2>1. PICK shown \in 0 .. MaxRuns :
           ui' = [next EXCEPT !.summary = shown, !.success = TRUE, !.timers = @ + 1,
                              !.loading = FALSE, !.ref = 0]
    <3>1. CASE some
      BY <3>1, RunNumbers DEF Succeed
    <3>2. CASE ~some
      BY <3>2, RunNumbers DEF Succeed
    <3>3. QED
      BY <3>1, <3>2
  <2>2. ui'.timers = next.timers + 1 /\ next.timers + 1 \in Nat
    BY <2>1
  <2>3. PICK n \in Nat :
           ui' = [next EXCEPT !.summary = shown, !.success = TRUE, !.timers = n,
                              !.loading = FALSE, !.ref = 0]
    BY <2>1, <2>2
  <2>4. UiOK'
    BY <2>3, RunNumbers DEF UiOK
  <2>5. QED
    BY <2>2, <2>4
<1>2. TimersOK'
  BY <1>1, EndTypes DEF Succeed
<1>3. ListsOK'
  <2>1. WithEntry(hook, r) \in Lists /\ WithEntry(app, r) \in Lists
    BY EntryList DEF TInv, ListsOK
  <2>2. hook' \in Lists /\ app' \in Lists /\ saved' \in Lists
    BY <2>1 DEF Succeed, TInv, ListsOK
  <2>3. QED
    BY <2>2 DEF ListsOK
<1>4. calm' \in BOOLEAN
  BY Zenon DEF Succeed
<1>5. QED
  BY <1>1, <1>2, <1>3, <1>4

LEMMA IngestedTypes ==
  ASSUME TInv, NEW r \in Runs, Ingested(r)
  PROVE  TypesOK'
<1>1. In(r, "ingest") /\ Underway(r) /\ ~Ended(run[r].phase)
  BY DEF Ingested, In, Underway, Ended
<1>2. RestOK' \/ calm' \notin BOOLEAN
  BY DEF TInv, RestOK, Ingested
<1>3. CASE GiveUp(r)
  BY <1>1, <1>2, <1>3, GiveUpTypes DEF TypesOK
<1>4. CASE ~GiveUp(r)
  <2>1. PICK document \in {r, ui.document} :
           ui' = [ui EXCEPT !.document = document, !.ref = r, !.streaming = TRUE,
                            !.loading = FALSE]
    BY <1>4 DEF Ingested
  <2>2. document \in 0 .. MaxRuns
    BY RunNumbers DEF TInv, UiOK
  <2>3. UiOK' /\ ui'.timers = ui.timers
    BY <2>1, <2>2, RunNumbers DEF TInv, UiOK
  <2>4. run' = [run EXCEPT ![r].phase = "stream"] /\ "stream" \in Phase /\ ~Ended("stream")
    BY <1>4 DEF Ingested, Phase, Ended
  <2>5. \A q \in Runs : Ended(run'[q].phase) <=> Ended(run[q].phase)
    BY <1>1, <2>4, SamePhases DEF TInv, IInv
  <2>6. ui'.timers <= ui.timers
    BY <2>3 DEF UiOK
  <2>7. TimersOK'
    BY <2>3, <2>5, <2>6, TimersKept DEF TInv
  <2>8. ListsOK' /\ RestOK'
    BY <1>4 DEF Ingested, TInv, ListsOK, RestOK, histories
  <2>9. QED
    BY <2>3, <2>7, <2>8 DEF TypesOK
<1>5. QED
  BY <1>3, <1>4

LEMMA FallBackTypes ==
  ASSUME TInv, NEW r \in Runs, FallBack(r), events' \in 0 .. MaxEvents
  PROVE  TypesOK'
<1>1. UiOK' /\ ui'.timers = ui.timers
  BY RunNumbers DEF TInv, UiOK, FallBack
<1>2. /\ run' = [run EXCEPT ![r].phase = "fallback"] /\ ~Ended(run[r].phase)
      /\ "fallback" \in Phase /\ ~Ended("fallback")
  BY DEF FallBack, In, Ended, Phase
<1>3. \A q \in Runs : Ended(run'[q].phase) <=> Ended(run[q].phase)
  BY <1>2, SamePhases DEF TInv, IInv
<1>4. ui'.timers <= ui.timers
  BY <1>1 DEF UiOK
<1>5. TimersOK'
  BY <1>1, <1>3, <1>4, TimersKept DEF TInv
<1>6. ListsOK' /\ RestOK'
  BY DEF FallBack, TInv, ListsOK, RestOK, histories
<1>7. QED
  BY <1>1, <1>5, <1>6 DEF TypesOK

LEMMA StreamedTypes ==
  ASSUME TInv, NEW r \in Runs, In(r, "stream"), Streamed(r), UNCHANGED events
  PROVE  TypesOK'
<1> DEFINE next == [ui EXCEPT !.partial = 0, !.streaming = FALSE]
<1>1. /\ next \in [loading : BOOLEAN, streaming : BOOLEAN, ref : 0 .. MaxRuns,
                   partial : 0 .. MaxRuns, summary : 0 .. MaxRuns, takeaways : 0 .. MaxRuns,
                   document : 0 .. MaxRuns, success : BOOLEAN, timers : Nat]
      /\ next.timers = ui.timers
  BY RunNumbers DEF TInv, UiOK
<1>2. Succeed(r, "streamed", run[r].some, next)
  BY DEF Streamed
<1> HIDE DEF next
<1>3. run[r].some \in BOOLEAN
  BY DEF TInv, IInv, StateOK
<1>4. Underway(r) /\ "streamed" \in Phase /\ Ended("streamed")
  BY DEF In, Underway, Phase, Ended
<1>5. UiOK' /\ TimersOK' /\ ListsOK' /\ calm' \in BOOLEAN
  BY <1>1, <1>2, <1>3, <1>4, SucceedTypes
<1>6. RestOK'
  BY <1>5 DEF TInv, RestOK
<1>7. QED
  BY <1>5, <1>6 DEF TypesOK

\* A step that changes no phase, no history and sets no timer.
LEMMA SmallStepTypes ==
  ASSUME TInv, UiOK', ui'.timers <= ui.timers, UNCHANGED histories, RestOK',
         \A q \in Runs : run'[q].phase = run[q].phase
  PROVE  TypesOK'
<1>1. \A q \in Runs : Ended(run'[q].phase) <=> Ended(run[q].phase)
  OBVIOUS
<1>2. TimersOK'
  BY <1>1, TimersKept DEF TInv
<1>3. ListsOK'
  BY DEF TInv, ListsOK, histories
<1>4. QED
  BY <1>2, <1>3 DEF TypesOK

LEMMA ReadTypes ==
  ASSUME TInv, NEW r \in Runs, Read(r)
  PROVE  TypesOK'
<1>1. In(r, "stream") /\ UNCHANGED events
  BY DEF Read
<1>2. ASSUME Pop(r), UNCHANGED <<histories, calm>>, UiOK', ui'.timers = ui.timers,
             \A q \in Runs : run'[q].phase = run[q].phase
      PROVE  TypesOK'
  <2>1. RestOK' /\ ui'.timers <= ui.timers
    BY <1>1, <1>2 DEF TInv, RestOK, UiOK
  <2>2. QED
    BY <1>2, <2>1, SmallStepTypes
<1>3. CASE ui' = [ui EXCEPT !.partial = r] /\ run' = [run EXCEPT ![r].some = TRUE]
           /\ Pop(r) /\ UNCHANGED <<server, histories, calm>>
  <2>1. UiOK' /\ ui'.timers = ui.timers
    BY <1>3, RunNumbers DEF TInv, UiOK
  <2>2. \A q \in Runs : run'[q].phase = run[q].phase
    BY <1>3 DEF TInv, IInv, StateOK
  <2>3. QED
    BY <1>2, <1>3, <2>1, <2>2
<1>4. CASE ui' = [ui EXCEPT !.takeaways = r] /\ Pop(r) /\ UNCHANGED <<run, server, histories, calm>>
  <2>1. UiOK' /\ ui'.timers = ui.timers
    BY <1>4, RunNumbers DEF TInv, UiOK
  <2>2. QED
    BY <1>2, <1>4, <2>1
<1>5. CASE Streamed(r)
  BY <1>1, <1>5, StreamedTypes
<1>6. CASE FallBack(r)
  BY <1>1, <1>6, FallBackTypes DEF TInv, RestOK
<1>7. CASE Pop(r) /\ UNCHANGED <<ui, run, server, histories, calm>>
  BY <1>2, <1>7 DEF TInv, UiOK
<1>8. QED
  BY <1>3, <1>4, <1>5, <1>6, <1>7 DEF Read

LEMMA FallbackAnsweredTypes ==
  ASSUME TInv, NEW r \in Runs, FallbackAnswered(r)
  PROVE  TypesOK'
<1> DEFINE next == [ui EXCEPT !.takeaways = r]
<1>1. Underway(r) /\ "posted" \in Phase /\ Ended("posted") /\ UNCHANGED events
  BY DEF FallbackAnswered, In, Underway, Phase, Ended
<1>2. /\ next \in [loading : BOOLEAN, streaming : BOOLEAN, ref : 0 .. MaxRuns,
                   partial : 0 .. MaxRuns, summary : 0 .. MaxRuns, takeaways : 0 .. MaxRuns,
                   document : 0 .. MaxRuns, success : BOOLEAN, timers : Nat]
      /\ next.timers = ui.timers
  BY RunNumbers DEF TInv, UiOK
<1>3. Succeed(r, "posted", TRUE, next) \/ GiveUp(r)
  BY DEF FallbackAnswered
<1> HIDE DEF next
<1>4. UiOK' /\ TimersOK' /\ ListsOK' /\ calm' \in BOOLEAN
  BY <1>1, <1>2, <1>3, SucceedTypes, GiveUpTypes
<1>5. RestOK'
  BY <1>1, <1>4 DEF TInv, RestOK
<1>6. QED
  BY <1>4, <1>5 DEF TypesOK

LEMMA GenerateTypes ==
  ASSUME TInv, NEW r \in Runs, Generate(r)
  PROVE  TypesOK'
<1>1. UNCHANGED <<ui, run, histories, events, calm>>
  BY DEF Generate, Prepare, StreamLLM, Finish
<1>2. UiOK' /\ ui'.timers <= ui.timers
  BY <1>1 DEF TInv, UiOK
<1>3. RestOK'
  BY <1>1 DEF TInv, RestOK
<1>4. QED
  BY <1>1, <1>2, <1>3, SmallStepTypes

LEMMA TimerTypes ==
  ASSUME TInv, TimerFires
  PROVE  TypesOK'
<1>1. UiOK' /\ ui'.timers <= ui.timers
  <2>1. ui.timers \in Nat /\ ui.timers > 0
    BY DEF TimerFires, TInv, UiOK
  <2>2. ui'.timers = ui.timers - 1 /\ ui.timers - 1 \in Nat
    BY <2>1 DEF TimerFires, TInv, UiOK
  <2>3. PICK n \in Nat : ui' = [ui EXCEPT !.timers = n, !.success = FALSE]
    BY <2>2 DEF TimerFires
  <2>4. UiOK'
    BY <2>3 DEF TInv, UiOK
  <2>5. QED
    BY <2>1, <2>2, <2>4
<1>2. RestOK' /\ UNCHANGED histories /\ \A q \in Runs : run'[q].phase = run[q].phase
  BY DEF TimerFires, TInv, RestOK
<1>3. QED
  BY <1>1, <1>2, SmallStepTypes

LEMMA InterveneCounts == ASSUME RestOK, Intervene PROVE events' \in 0 .. MaxEvents
  BY ViewBounds DEF RestOK, Intervene

LEMMA StopTypes ==
  ASSUME TInv, Stop
  PROVE  TypesOK'
<1>1. PICK shown \in 0 .. MaxRuns :
         ui' = [ui EXCEPT !.ref = 0, !.streaming = FALSE, !.loading = FALSE, !.summary = shown]
  <2>1. ui.partial \in 0 .. MaxRuns /\ ui.summary \in 0 .. MaxRuns
    BY DEF TInv, UiOK
  <2>2. CASE ui.partial # 0
    BY <2>1, <2>2 DEF Stop
  <2>3. CASE ui.partial = 0
    BY <2>1, <2>3 DEF Stop
  <2>4. QED
    BY <2>2, <2>3
<1>2. UiOK' /\ ui'.timers <= ui.timers
  <2>1. UiOK' /\ ui'.timers = ui.timers
    BY <1>1, RunNumbers DEF TInv, UiOK
  <2>2. QED
    BY <2>1 DEF UiOK
<1>3. RestOK' /\ UNCHANGED histories
  BY InterveneCounts DEF Stop, TInv, RestOK
<1>4. \A q \in Runs : run'[q].phase = run[q].phase
  BY AbortKeepsPhases DEF Stop, TInv, IInv
<1>5. QED
  BY <1>2, <1>3, <1>4, SmallStepTypes

LEMMA ResetTypes ==
  ASSUME TInv, Reset
  PROVE  TypesOK'
<1>1. UiOK' /\ ui'.timers <= ui.timers
  <2>1. UiOK' /\ ui'.timers = ui.timers
    BY RunNumbers DEF Reset, TInv, UiOK
  <2>2. QED
    BY <2>1 DEF UiOK
<1>2. events' \in 0 .. MaxEvents /\ UNCHANGED histories
  BY InterveneCounts DEF Reset, TInv
<1>3. calm' \in BOOLEAN
  BY Zenon DEF Reset
<1>4. RestOK'
  BY <1>2, <1>3 DEF RestOK
<1>5. \A q \in Runs : run'[q].phase = run[q].phase
  BY AbortKeepsPhases DEF Reset, TInv, IInv
<1>6. QED
  BY <1>1, <1>2, <1>4, <1>5, SmallStepTypes

LEMMA RestoreTypes ==
  ASSUME TInv, Restore
  PROVE  TypesOK'
<1>1. PICK i \in 1 .. Len(app) : ui' = [ui EXCEPT !.summary = app[i], !.takeaways = 0]
  BY DEF Restore
<1>2. app \in Seq(Runs)
  BY ListsAreShort DEF TInv, ListsOK
<1>3. app[i] \in 0 .. MaxRuns
  BY <1>2, RunNumbers, ElementOfSeq
<1>4. UiOK' /\ ui'.timers <= ui.timers
  <2>1. UiOK' /\ ui'.timers = ui.timers
    BY <1>1, <1>3, RunNumbers DEF TInv, UiOK
  <2>2. QED
    BY <2>1 DEF UiOK
<1>5. RestOK' /\ UNCHANGED histories /\ \A q \in Runs : run'[q].phase = run[q].phase
  BY InterveneCounts DEF Restore, TInv, RestOK
<1>6. QED
  BY <1>4, <1>5, SmallStepTypes

LEMMA RemoveTypes ==
  ASSUME TInv, Remove
  PROVE  TypesOK'
<1>1. << >> \in Lists
  <2>1. << >> \in Seq(Runs) /\ Len(<< >>) <= MaxEntries
    BY ViewBounds
  <2>2. QED
    BY <2>1, ListsAreShort
<1>2. app' \in Lists
  BY <1>1, ShorterList DEF Remove, TInv, ListsOK
<1>3. ListsOK'
  BY <1>2 DEF Remove, TInv, ListsOK
<1>4. UiOK' /\ ui'.timers <= ui.timers /\ \A q \in Runs : run'[q].phase = run[q].phase
  BY DEF Remove, TInv, UiOK
<1>5. TimersOK'
  BY <1>4, TimersKept DEF TInv
<1>6. RestOK'
  BY InterveneCounts DEF Remove, TInv, RestOK
<1>7. QED
  BY <1>3, <1>4, <1>5, <1>6 DEF TypesOK

LEMMA NextTypes == TInv /\ [Next]_vars => TypesOK'
<1> SUFFICES ASSUME TInv, [Next]_vars PROVE TypesOK'
  OBVIOUS
<1>1. ASSUME NEW r \in Runs, Handle(r) PROVE TypesOK'
  <2>1. CASE NoticeAbort(r)
    <3>1. FallBack(r) /\ events' \in 0 .. MaxEvents
      BY <2>1 DEF NoticeAbort, TInv, RestOK
    <3>2. QED
      BY <3>1, FallBackTypes
  <2>2. QED
    BY <1>1, <2>1, IngestedTypes, ReadTypes, FallbackAnsweredTypes DEF Handle
<1>2. ASSUME NEW r \in Runs, Broken(r) PROVE TypesOK'
  BY <1>2, FallBackTypes, InterveneCounts DEF Broken, TInv
<1>3. CASE UNCHANGED vars
  <2>1. UiOK' /\ ui'.timers <= ui.timers
    BY <1>3 DEF vars, TInv, UiOK
  <2>2. UNCHANGED histories /\ RestOK' /\ \A q \in Runs : run'[q].phase = run[q].phase
    BY <1>3 DEF vars, TInv, RestOK
  <2>3. QED
    BY <2>1, <2>2, SmallStepTypes
<1>4. QED
  BY <1>1, <1>2, <1>3, ClickTypes, GenerateTypes, TimerTypes, StopTypes, ResetTypes, RestoreTypes,
     RemoveTypes DEF Next

LEMMA TInvIsTyped == TInv => TypeOK
<1> SUFFICES ASSUME TInv PROVE TypeOK
  OBVIOUS
<1>1. ui \in [loading : BOOLEAN, streaming : BOOLEAN, ref : 0 .. MaxRuns,
              partial : 0 .. MaxRuns, summary : 0 .. MaxRuns, takeaways : 0 .. MaxRuns,
              document : 0 .. MaxRuns, success : BOOLEAN, timers : 0 .. MaxRuns]
  <2>1. ui.timers \in 0 .. MaxRuns
    <3>1. ui.timers \in Nat /\ ui.timers <= Cardinality(EndedRuns)
      BY DEF TInv, UiOK, TimersOK
    <3>2. QED
      BY <3>1, EndedFinite, ViewBounds
  <2>2. QED
    BY <2>1 DEF TInv, UiOK
<1>2. {hook, app, saved} \subseteq Lists
  BY DEF TInv, ListsOK
<1>3. QED
  BY <1>1, <1>2 DEF TypeOK, TInv, IInv, StateOK, RestOK, Lists, Phase, Stage, Over

\* Every variable keeps its type; in particular no history grows past its limit,
\* whatever is removed from it and added to it, and no more timers are pending
\* than runs have ended.
THEOREM TypeCorrect == Spec => []TypeOK
<1>1. Init => TInv
  BY InitIInv, InitTypes DEF TInv, TypesOK
<1>2. TInv /\ [Next]_vars => TInv'
  <2>1. TInv /\ [Next]_vars => IInv'
    BY NextIInv DEF TInv
  <2>2. QED
    BY <2>1, NextTypes DEF TInv, TypesOK
<1>3. QED
  BY <1>1, <1>2, TInvIsTyped, PTL DEF Spec

=============================================================================
