----------------------------- MODULE Summarizer -----------------------------
(***************************************************************************)
(* app/services/summarizer/core.py and the cache in front of it            *)
(* (services/cache.py): look the text up, cut it into chunks, have them    *)
(* summarized at the same time, merge the answers, ask for takeaways and   *)
(* store the result.  Any call of the provider and any command of Redis    *)
(* may fail.  A text is the sequence of the lengths of its sentences; a    *)
(* summary is known by what it was made from: the chunks, each a sequence  *)
(* of sentence numbers.                                                    *)
(***************************************************************************)
EXTENDS Naturals, SequencesExt

CONSTANTS
    Texts,       \* the texts that are summarized: sequences of sentence lengths
    Modes,       \* the modes that are asked for; the other options are alike
    Tasks,       \* requests in flight at the same time
    MinWords,    \* min_words
    MaxWords,    \* summarize_max_words
    ChunkLimit   \* _CHUNK_WORD_LIMIT

ASSUME CoreAssumption ==
    /\ Texts \subseteq Seq(Nat)
    /\ MinWords \in Nat \ {0} /\ MaxWords \in Nat /\ ChunkLimit \in Nat

VARIABLES
    provider,  \* whether an LLM provider is configured
    cache,     \* cache[k]: the result Redis holds for key k, or Nothing
    task       \* task[p]: the request in slot p

coreVars == <<provider, cache, task>>

\* The cache key: a hash of the cleaned text and all options.
Keys == Texts \X Modes

\* A result dictionary: what the summary was made from, its quality, whether it
\* has takeaways.
Nothing == [parts |-> << >>, quality |-> "none", takeaways |-> FALSE]
Result == [parts : Seq(Seq(Nat)), quality : {"none", "full", "extractive"},
           takeaways : BOOLEAN]

TaskStages == {"lookup", "model", "merge", "takeaways", "store", "stream", "answered"}

\* got: the numbers of the chunks in the order in which their summaries came.
Task == [stage : TaskStages, key : Keys, got : Seq(Nat), result : Result]
NoTask == [stage |-> "idle"]

CoreTypeOK ==
    /\ provider \in BOOLEAN
    /\ cache \in [Keys -> Result]
    /\ \A p \in Tasks : task[p] = NoTask \/ task[p] \in Task

CoreInit ==
    /\ provider \in BOOLEAN
    /\ cache = [k \in Keys |-> Nothing]
    /\ task = [p \in Tasks |-> NoTask]

TaskAt(p, stage) == task[p].stage = stage
Text(p) == task[p].key[1]
Words(s) == LET upTo[i \in 0 .. Len(s)] == IF i = 0 THEN 0 ELSE upTo[i - 1] + s[i]
            IN upTo[Len(s)]

TaskTo(p, stage) == task' = [task EXCEPT ![p].stage = stage]

\* An exception: the caller gets a ValueError, nothing else remains.
Fail(p) == task' = [task EXCEPT ![p] = NoTask]

-----------------------------------------------------------------------------
(* _chunk_text                                                             *)

LastThree(s) == SubSeq(s, IF Len(s) > 3 THEN Len(s) - 2 ELSE 1, Len(s))

LengthsOf(text, chunk) == [i \in DOMAIN chunk |-> text[chunk[i]]]

\* A sentence that does not fit closes the chunk; the next one begins with the
\* last three sentences of the one before, however long they are.
AddSentence(text, acc, s) ==
    IF Words(LengthsOf(text, acc.curr)) + text[s] > ChunkLimit /\ acc.curr # << >>
    THEN [chunks |-> Append(acc.chunks, acc.curr), curr |-> Append(LastThree(acc.curr), s)]
    ELSE [chunks |-> acc.chunks, curr |-> Append(acc.curr, s)]

_chunk_text(text) ==
    LET upTo[s \in 0 .. Len(text)] ==
            IF s = 0 THEN [chunks |-> << >>, curr |-> << >>]
            ELSE AddSentence(text, upTo[s - 1], s)
        all == upTo[Len(text)]
    IN Append(all.chunks, all.curr)

\* One call for a text that fits, one per chunk otherwise.
Chunks == [text \in Texts |->
    IF Words(text) > ChunkLimit THEN _chunk_text(text) ELSE <<[i \in DOMAIN text |-> i]>>]

-----------------------------------------------------------------------------
(* process_summarize, summarize                                            *)

\* The checks; without a provider the extractive summary, which is not cached.
Summarize(p) ==
    /\ TaskAt(p, "idle")
    /\ \E k \in Keys :
          /\ Words(k[1]) \in MinWords .. MaxWords
          /\ task' = [task EXCEPT ![p] =
                IF provider
                THEN [stage |-> "lookup", key |-> k, got |-> << >>, result |-> Nothing]
                ELSE [stage |-> "answered", key |-> k, got |-> << >>,
                      result |-> [Nothing EXCEPT !.quality = "extractive"]]]
    /\ UNCHANGED <<provider, cache>>

\* Too short or too long a text.
RefuseText(p) ==
    /\ TaskAt(p, "idle")
    /\ \E k \in Keys : Words(k[1]) \notin MinWords .. MaxWords
    /\ UNCHANGED coreVars

\* prepare_summarize_messages for the streams: no upper limit, no chunks, no cache.
Prepare(p) ==
    /\ TaskAt(p, "idle")
    /\ \E k \in Keys :
          /\ Words(k[1]) >= MinWords
          /\ task' = [task EXCEPT ![p] =
                [stage |-> IF provider THEN "stream" ELSE "answered", key |-> k, got |-> << >>,
                 result |-> [Nothing EXCEPT !.quality =
                                IF provider THEN "none" ELSE "extractive"]]]
    /\ UNCHANGED <<provider, cache>>

\* get_cached_summary: a hit, a miss, or Redis cannot be asked.
Lookup(p) ==
    /\ TaskAt(p, "lookup")
    /\ \/ TaskTo(p, "model")
       \/ /\ cache[task[p].key] # Nothing
          /\ task' = [task EXCEPT ![p].stage = "answered", ![p].result = cache[task[p].key]]
    /\ UNCHANGED <<provider, cache>>

\* _map_chunk: the provider answers for one of the chunks.
_map_chunk(p) ==
    /\ TaskAt(p, "model")
    /\ \E c \in DOMAIN Chunks[Text(p)] :
          /\ c \notin ToSet(task[p].got)
          /\ task' = [task EXCEPT ![p].got = Append(@, c),
                        ![p].stage = IF Len(task[p].got) + 1 = Len(Chunks[Text(p)])
                                     THEN "merge" ELSE "model"]
    /\ UNCHANGED <<provider, cache>>

\* Variant: the summaries in the order in which they came.
GatherAsCompleted(p) == task[p].got

\* asyncio.gather: in the order of the chunks.
Gather(p) == [i \in DOMAIN task[p].got |-> i]

Parts(p) == [i \in DOMAIN task[p].got |-> Chunks[Text(p)][Gather(p)[i]]]

\* The answer of the reduce call (of the only call, for a text that fits).  No
\* takeaways are asked for in tldr mode or if the summary is short.
Merge(p) ==
    /\ TaskAt(p, "merge")
    /\ \E ask \in BOOLEAN :
          /\ task[p].key[2] = "tldr" => ~ask
          /\ task' = [task EXCEPT
                ![p].result = [Nothing EXCEPT !.parts = Parts(p), !.quality = "full"],
                ![p].got = << >>,
                ![p].stage = IF ask THEN "takeaways" ELSE "store"]
    /\ UNCHANGED <<provider, cache>>

\* The second call; its failure only leaves the list empty.
Takeaways(p) ==
    /\ TaskAt(p, "takeaways")
    /\ \E found \in BOOLEAN :
          task' = [task EXCEPT ![p].stage = "store", ![p].result.takeaways = found]
    /\ UNCHANGED <<provider, cache>>

\* set_cached_summary: over what another request stored since, or not at all if
\* Redis fails.
Store(p) ==
    /\ TaskAt(p, "store")
    /\ cache' \in {cache, [cache EXCEPT ![task[p].key] = task[p].result]}
    /\ TaskTo(p, "answered")
    /\ UNCHANGED provider

\* A call for a summary fails for good, or its stream is over.
ModelFails(p) ==
    /\ TaskAt(p, "model") \/ TaskAt(p, "merge") \/ TaskAt(p, "stream")
    /\ Fail(p)
    /\ UNCHANGED <<provider, cache>>

Answer(p) ==
    /\ TaskAt(p, "answered")
    /\ task' = [task EXCEPT ![p] = NoTask]
    /\ UNCHANGED <<provider, cache>>

\* The TTL of a key is over.
CacheExpires ==
    /\ \E k \in Keys : cache[k] # Nothing /\ cache' = [cache EXCEPT ![k] = Nothing]
    /\ UNCHANGED <<provider, task>>

CoreNext ==
    \/ \E p \in Tasks :
          Summarize(p) \/ RefuseText(p) \/ Prepare(p) \/ Lookup(p) \/ _map_chunk(p) \/ Merge(p)
            \/ Takeaways(p) \/ Store(p) \/ ModelFails(p) \/ Answer(p)
    \/ CacheExpires

CoreSpec == CoreInit /\ [][CoreNext]_coreVars

-----------------------------------------------------------------------------
(* Properties.                                                             *)

\* The parts are runs of consecutive sentences; together, in their order, they
\* go through the text from its first sentence to its last one, each adding
\* something, and one that exceeds the limit has at most the three sentences of
\* the overlap and one more.
Covers(parts, text) ==
    /\ parts # << >> /\ Head(parts)[1] = 1 /\ Last(Last(parts)) = Len(text)
    /\ \A i \in DOMAIN parts : \A j \in 2 .. Len(parts[i]) : parts[i][j] = parts[i][j - 1] + 1
    /\ \A i \in 2 .. Len(parts) :
          parts[i][1] <= Last(parts[i - 1]) + 1 /\ Last(parts[i]) > Last(parts[i - 1])
    /\ \A i \in DOMAIN parts :
          Words(LengthsOf(text, parts[i])) > ChunkLimit => Len(parts[i]) <= 4

\* Whatever requests compute the same key at the same time, in whatever order
\* the provider answers and whatever fails: what is cached, and what is answered
\* as full, was made from the whole of the text it is filed under, in order, and
\* is nothing the extractive fallback wrote.
FullIsWhole ==
    /\ \A k \in Keys : cache[k] # Nothing =>
          cache[k].quality = "full" /\ Covers(cache[k].parts, k[1])
    /\ \A p \in Tasks : TaskAt(p, "answered") /\ provider =>
          task[p].result.quality = "full" /\ Covers(task[p].result.parts, Text(p))
=============================================================================
