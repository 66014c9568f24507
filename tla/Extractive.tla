----------------------------- MODULE Extractive -----------------------------
(***************************************************************************)
(* What app/services/extractive.py selects once its sentences have scores: *)
(* the clusters, the sentences of the summary and the takeaways.  Scores   *)
(* and cosine similarities are small integers, Scale standing for 1.0.     *)
(* Sentences are counted from 1.                                           *)
(***************************************************************************)
EXTENDS Naturals, Integers, SequencesExt, FiniteSetsExt

CONSTANTS
    Sentences,    \* number of sentences of a text
    Lengths,      \* their lengths in words
    Scale,        \* what 1.0 is in scores and similarities
    Clusters,     \* n_clusters (3 to 6 in the code)
    Targets,      \* target_words
    Counts,       \* takeaway_count
    SentenceLimit, \* _SENTENCE_LIMIT
    MaxSentences  \* bound on the sentences before trimming

ASSUME SentencesAssumption == Sentences \in Nat
ASSUME LengthsAssumption == Lengths \subseteq Nat
ASSUME ScaleAssumption == Scale \in Nat
ASSUME ClustersAssumption == Clusters \in Nat \ {0}
ASSUME TargetsAssumption == Targets \subseteq Nat
ASSUME CountsAssumption == Counts \subseteq Nat
ASSUME SentenceLimitAssumption == SentenceLimit \in Nat \ {0}
ASSUME MaxSentencesAssumption == MaxSentences \in Nat

VARIABLES
    text,      \* the input: length and score of each sentence, their similarities
    stage,     \* "clusters", "cover", "fill", "takeaways", "done"
    cluster,   \* _cluster_sentences' result
    queue,     \* the best sentences of the clusters that are still to come
    picked,    \* selected, in the order of selection
    takeaways  \* the indices of the takeaways in document order

selectVars == <<text, stage, cluster, queue, picked, takeaways>>

Index == 1 .. Sentences
Pairs == {pair \in Index \X Index : pair[1] < pair[2]}

Sim(i, j) == IF i = j THEN Scale
             ELSE IF i < j THEN text.sim[<<i, j>>] ELSE text.sim[<<j, i>>]

Input == [length : [Index -> Lengths], score : [Index -> 0 .. Scale],
          sim : [Pairs -> 0 .. Scale], target : Targets, count : Counts]

SelectTypeOK ==
    /\ text \in Input
    /\ stage \in {"clusters", "cover", "fill", "takeaways", "done"}
    /\ cluster \in [Index -> 1 .. Sentences]
    /\ \A s \in {queue, picked, takeaways} : s \in Seq(Index) /\ IsInjective(s)

SelectInit ==
    /\ text \in Input
    /\ stage = "clusters"
    /\ cluster = [i \in Index |-> i]
    /\ queue = << >> /\ picked = << >> /\ takeaways = << >>

\* max over a list: the first index with the greatest value.
FirstMax(value) ==
    CHOOSE i \in DOMAIN value :
        \A j \in DOMAIN value : value[j] < value[i] \/ (value[j] = value[i] /\ i <= j)

\* The members of a set in their order, a set of pairs: the k-th has k - 1 before it.
Sorted(S, before) ==
    [k \in 1 .. Cardinality(S) |->
        CHOOSE x \in S : Cardinality({y \in S : <<y, x>> \in before}) = k - 1]

\* sort(reverse=True) of tuples that end in an index.
Descending(value) ==
    LET D == DOMAIN value
        first(i, j) == value[i] > value[j] \/ (value[i] = value[j] /\ i > j)
    IN Sorted(D, {pair \in D \X D : first(pair[1], pair[2])})

\* sort() of indices.
Ascending(S) == Sorted(S, {pair \in S \X S : pair[1] < pair[2]})

WordsOf(s) == LET upTo[i \in 0 .. Len(s)] == IF i = 0 THEN 0 ELSE upTo[i - 1] + text.length[s[i]]
              IN upTo[Len(s)]

-----------------------------------------------------------------------------
(* summarize_extractive: at most SentenceLimit sentences take part.        *)

\* The numbers (from 0) of the sentences that stay of n: the first third of the
\* limit, the last sixth, and of those between every mid_step-th.
Trim(n) ==
    LET keep_head == SentenceLimit \div 3
        keep_tail == SentenceLimit \div 6
        keep_mid == SentenceLimit - keep_head - keep_tail
        mid_end == n - keep_tail
        mid_step == Max({1, (mid_end - keep_head) \div keep_mid})
        mid(k) == keep_head + (k - 1) * mid_step
    IN IF n <= SentenceLimit THEN [k \in 1 .. n |-> k - 1]
       ELSE [k \in 1 .. keep_head |-> k - 1]
            \o [k \in {k \in 1 .. keep_mid : mid(k) < mid_end} |-> mid(k)]
            \o [k \in 1 .. keep_tail |-> mid_end + k - 1]

-----------------------------------------------------------------------------
(* _cluster_sentences                                                      *)

\* The next centroid: the sentence with the least similarity to one of them.
Furthest(centroids) ==
    FirstMax([i \in Index \ ToSet(centroids) |->
                 Scale - Min({Sim(i, c) : c \in ToSet(centroids)})])

Centroids ==
    LET first[k \in 1 .. Clusters] ==
            IF k = 1 THEN <<1>> ELSE Append(first[k - 1], Furthest(first[k - 1]))
    IN first[Clusters]

\* Each sentence goes to the first of its most similar centroids.
_cluster_sentences ==
    IF Sentences <= Clusters THEN [i \in Index |-> i]
    ELSE LET centroids == Centroids IN
         [i \in Index |-> FirstMax([c \in 1 .. Clusters |-> Sim(i, centroids[c])])]

-----------------------------------------------------------------------------
(* _select_sentences_with_coverage                                         *)

Members(c, of) == {i \in Index : of[i] = c}

\* The best sentence of each cluster, best clusters first; a cluster that got no
\* sentence has none.
ClusterBest(of) ==
    LET used == {of[i] : i \in Index}
        best(c) == FirstMax([i \in Members(c, of) |-> text.score[i]])
        order == Descending([c \in used |-> text.score[best(c)]])
    IN [k \in DOMAIN order |-> best(order[k])]

Cluster ==
    /\ stage = "clusters" /\ stage' = "cover"
    /\ cluster' = _cluster_sentences
    /\ queue' = ClusterBest(cluster')
    /\ UNCHANGED <<text, picked, takeaways>>

\* Variant: the budget is not looked at.
ExhaustedOnly == queue = << >>

\* Phase 1 is over when every cluster is covered or the budget is used up.
CoverOver == queue = << >> \/ WordsOf(picked) >= text.target

Cover ==
    /\ stage = "cover"
    /\ IF CoverOver
       THEN stage' = "fill" /\ UNCHANGED <<queue, picked>>
       ELSE /\ picked' = Append(picked, Head(queue)) /\ queue' = Tail(queue)
            /\ UNCHANGED stage
    /\ UNCHANGED <<text, cluster, takeaways>>

Remaining == Index \ ToSet(picked)

\* Relevance against similarity to what is selected, 0.6 to 0.4 (in tenths of 0.2).
MMR(i) == 3 * text.score[i] - 2 * Max({0} \cup {Sim(i, s) : s \in ToSet(picked)})

\* Phase 2 fills the budget.
Fill ==
    /\ stage = "fill"
    /\ IF Remaining # {} /\ WordsOf(picked) < text.target
       THEN picked' = Append(picked, FirstMax([i \in Remaining |-> MMR(i)])) /\ UNCHANGED stage
       ELSE stage' = "takeaways" /\ UNCHANGED picked
    /\ UNCHANGED <<text, cluster, queue, takeaways>>

-----------------------------------------------------------------------------
(* extract_takeaways, with the score for the bonuses and penalties.        *)

\* max_sim > 0.6 with one that was taken before.
TooSimilar(i, taken) == \E t \in taken : 10 * Sim(i, t) > 6 * Scale

Take(taken, i) ==
    IF Len(taken) >= text.count \/ TooSimilar(i, ToSet(taken)) THEN taken ELSE Append(taken, i)

TakenFrom(order) ==
    LET taken[k \in 0 .. Len(order)] == IF k = 0 THEN << >> ELSE Take(taken[k - 1], order[k])
    IN taken[Len(order)]

extract_takeaways ==
    /\ stage = "takeaways" /\ stage' = "done"
    /\ takeaways' = Ascending(ToSet(TakenFrom(Descending(text.score))))
    /\ UNCHANGED <<text, cluster, queue, picked>>

SelectNext == Cluster \/ Cover \/ Fill \/ extract_takeaways

SelectSpec == SelectInit /\ [][SelectNext]_selectVars

-----------------------------------------------------------------------------
(* Properties.                                                             *)

\* The summary reaches its length if the text does, and not by a sentence too
\* many; a topic is left out only when the budget went to topics whose best
\* sentence is as good ("ensure all clusters represented").
SummaryIsSound ==
    /\ WordsOf(picked) >= text.target \/ Remaining = {}
    /\ picked # << >> => WordsOf(Front(picked)) < text.target
    /\ \A i \in Index : (\A j \in ToSet(picked) : cluster[j] # cluster[i]) =>
          \A j \in ToSet(picked) :
             /\ text.score[j] >= text.score[i]
             /\ \A k \in ToSet(picked) : cluster[j] = cluster[k] => j = k

\* Takeaways are as many as were asked for and no two alike, and a sentence is
\* missing only for its score or for one that says the same.
TakeawaysAreSound ==
    /\ Len(takeaways) <= text.count
    /\ \A i, j \in ToSet(takeaways) : i # j => ~TooSimilar(i, {j})
    /\ \A i \in Index \ ToSet(takeaways) :
          \/ TooSimilar(i, {t \in ToSet(takeaways) : text.score[t] >= text.score[i]})
          \/ /\ Len(takeaways) = text.count
             /\ \A t \in ToSet(takeaways) : text.score[t] >= text.score[i]

\* A long text loses sentences of its middle only, exactly as many as it has to,
\* and no sentence is taken twice.
TrimIsSound ==
    \A n \in 0 .. MaxSentences :
        LET kept == Trim(n) IN
        /\ Len(kept) = Min({n, SentenceLimit})
        /\ \A k \in 2 .. Len(kept) : kept[k - 1] < kept[k]
        /\ \A i \in 0 .. n - 1 : i < SentenceLimit \div 3 \/ i >= n - SentenceLimit \div 6
               => i \in ToSet(kept)

\* What is selected is sound, for every input.
SelectionIsSound == TrimIsSound /\ (stage = "done" => SummaryIsSound /\ TakeawaysAreSound)
=============================================================================
