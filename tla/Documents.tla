------------------------------ MODULE Documents ------------------------------
(***************************************************************************)
(* A user's documents and what is made of them.  Ingestion looks for a     *)
(* live document with the same key (URL, or hash of a pasted text), fetches*)
(* and inserts when there is none; deletion is soft; flashcards, syntheses *)
(* and audio read their documents, ask a model and store the result.       *)
(*                                                                         *)
(* UniqueConstraint("user_id", "url") is in the model, so it exists where  *)
(* the tables are created from the model (SQLite, tests), but in no        *)
(* migration: constrained says which of the two the deployment has.        *)
(***************************************************************************)
EXTENDS Naturals, FiniteSets

CONSTANTS
    Users,
    Keys,         \* values of Document.url
    Docs,         \* document ids
    Items,        \* ids of flashcard sets, syntheses and audio summaries
    Procs,        \* requests in flight at the same time
    NoUser, NoKey

ASSUME DocumentsAssumption == NoUser \notin Users /\ NoKey \notin Keys
ASSUME ProcsAssumption == IsFiniteSet(Procs) /\ Procs # {}

VARIABLES
    constrained, \* is uq_document_user_url in the database?
    owner,    \* Document.user_id, NoUser while the id is unused
    key,      \* Document.url
    deleted,  \* documents with deleted_at
    item,     \* item[i]: what was made, for whom, of which documents
    req,      \* req[p]: what the handler in slot p has read and does next
    late,     \* history: <<item, document>> made when the document was deleted
    failed,   \* history: items whose request was answered with an error
    valid     \* history: items for which the model's reply had content (of the
              \* reply for a flashcard set: an entry with front and back)

documents == <<constrained, owner, key, deleted>>
items == <<item, late, failed, valid>>
vars == <<documents, items, req>>

Kinds == {"flashcards", "synthesis", "audio"}

NoItem == [kind |-> "none", user |-> NoUser, docs |-> {}, filled |-> FALSE]

Item == [kind : Kinds, user : Users, docs : SUBSET Docs, filled : BOOLEAN] \cup {NoItem}

\* insert: ingestion after its SELECT; delete, make: after the ownership check;
\* cards: between the commit of a flashcard set and that of its cards.
Request ==
    [step : {"insert", "delete", "make", "cards"}, user : Users, key : Keys \cup {NoKey},
     docs : SUBSET Docs, kind : Kinds \cup {"none"}, item : SUBSET Items]

Idle == [step |-> "idle", user |-> NoUser, key |-> NoKey, docs |-> {}, kind |-> "none",
         item |-> {}]

Rows == {d \in Docs : owner[d] # NoUser}
Live == Rows \ deleted
Made == {i \in Items : item[i] # NoItem}

TypeOK ==
    /\ constrained \in BOOLEAN
    /\ owner \in [Docs -> Users \cup {NoUser}]
    /\ key \in [Docs -> Keys \cup {NoKey}]
    /\ deleted \in SUBSET Rows
    /\ item \in [Items -> Item]
    /\ req \in [Procs -> Request \cup {Idle}]
    /\ late \in SUBSET (Made \X deleted)
    /\ failed \in SUBSET Made
    /\ valid \in SUBSET Made

Init ==
    /\ constrained \in BOOLEAN
    /\ owner = [d \in Docs |-> NoUser]
    /\ key = [d \in Docs |-> NoKey]
    /\ deleted = {}
    /\ item = [i \in Items |-> NoItem]
    /\ req = [p \in Procs |-> Idle]
    /\ late = {}
    /\ failed = {}
    /\ valid = {}

At(p, step) == req[p].step = step
Finish(p) == req' = [req EXCEPT ![p] = Idle]
Begin(p, r) == At(p, "idle") /\ req' = [req EXCEPT ![p] = r]

With(u, k) == {d \in Rows : owner[d] = u /\ key[d] = k}

-----------------------------------------------------------------------------
(* Ingestion.                                                              *)

\* Variant: the fetch begins without a look at what is there.
IngestAlways(p, u, k) ==
    /\ Begin(p, [step |-> "insert", user |-> u, key |-> k, docs |-> {},
                 kind |-> "none", item |-> {}])
    /\ UNCHANGED <<documents, items>>

\* The SELECT: a live document with the key is returned as it is.
IngestLookup(p, u, k) ==
    /\ IF With(u, k) \cap Live # {}
       THEN At(p, "idle") /\ UNCHANGED req
       ELSE Begin(p, [step |-> "insert", user |-> u, key |-> k, docs |-> {},
                      kind |-> "none", item |-> {}])
    /\ UNCHANGED <<documents, items>>

\* Variant: the table has no unique index.
IngestUnindexed(p, d) ==
    /\ At(p, "insert")
    /\ d \notin Rows
    /\ owner' = [owner EXCEPT ![d] = req[p].user]
    /\ key' = [key EXCEPT ![d] = req[p].key]
    /\ Finish(p)
    /\ UNCHANGED <<constrained, deleted, items>>

\* The INSERT, after the page was fetched; the unique index, where it exists,
\* knows nothing of deleted_at, and the request is answered "try again".
IngestCommit(p, d) ==
    /\ At(p, "insert")
    /\ d \notin Rows
    /\ LET u == req[p].user
           k == req[p].key IN
       IF constrained /\ With(u, k) # {}
       THEN UNCHANGED <<owner, key>>
       ELSE /\ owner' = [owner EXCEPT ![d] = u]
            /\ key' = [key EXCEPT ![d] = k]
    /\ Finish(p)
    /\ UNCHANGED <<constrained, deleted, items>>

-----------------------------------------------------------------------------
(* Deletion and derived items: documents are checked when they are read,   *)
(* results are stored by a later commit.                                   *)

\* Variant: the owner is not compared.
MayUseAny(u, D) == D \subseteq Live

\* Variant: deleted_at is not looked at.
MayUseDeleted(u, D) == \A d \in D : owner[d] = u

MayUse(u, D) == \A d \in D : d \in Live /\ owner[d] = u

\* DELETE /documents/{id}.
DeleteLookup(p, u, d) ==
    /\ MayUse(u, {d})
    /\ Begin(p, [step |-> "delete", user |-> u, key |-> NoKey, docs |-> {d},
                 kind |-> "none", item |-> {}])
    /\ UNCHANGED <<documents, items>>

\* Variant: the row is removed as well.
DeleteHard(p) ==
    /\ At(p, "delete")
    /\ deleted' = deleted \cup req[p].docs
    /\ owner' = [d \in Docs |-> IF d \in req[p].docs THEN NoUser ELSE owner[d]]
    /\ Finish(p)
    /\ UNCHANGED <<constrained, key, items>>

DeleteCommit(p) ==
    /\ At(p, "delete")
    /\ deleted' = deleted \cup req[p].docs
    /\ Finish(p)
    /\ UNCHANGED <<constrained, owner, key, items>>

\* Synthesis wants two documents or more, the others exactly one.
MakeLookup(p, u, kind, D) ==
    /\ IF kind = "synthesis" THEN Cardinality(D) >= 2 ELSE Cardinality(D) = 1
    /\ MayUse(u, D)
    /\ Begin(p, [step |-> "make", user |-> u, key |-> NoKey, docs |-> D,
                 kind |-> kind, item |-> {}])
    /\ UNCHANGED <<documents, items>>

\* The model has answered: the result is committed.  A flashcard set is
\* committed without its cards first, whatever entries the reply has.
MakeCommit(p, i) ==
    /\ At(p, "make")
    /\ i \notin Made
    /\ LET cards == req[p].kind = "flashcards" IN
       /\ item' = [item EXCEPT ![i] = [kind |-> req[p].kind, user |-> req[p].user,
                                       docs |-> req[p].docs, filled |-> ~cards]]
       /\ \E content \in BOOLEAN :
             /\ cards \/ content
             /\ valid' = IF content THEN valid \cup {i} ELSE valid
       /\ IF cards
          THEN req' = [req EXCEPT ![p] = [step |-> "cards", user |-> req[p].user,
                         key |-> NoKey, docs |-> req[p].docs, kind |-> req[p].kind,
                         item |-> {i}]]
          ELSE Finish(p)
    /\ late' = late \cup ({i} \X (req[p].docs \cap deleted))
    /\ UNCHANGED <<documents, failed>>

\* Variant: the second commit is forgotten.
CardsUncommitted(p) ==
    /\ At(p, "cards")
    /\ Finish(p)
    /\ UNCHANGED <<documents, items>>

\* Entries without front or back are skipped: a reply of [] is answered with
\* success and adds no card.
CardsCommit(p) ==
    /\ At(p, "cards")
    /\ item' = [i \in Items |-> IF i \in req[p].item
                                THEN [item[i] EXCEPT !.filled = i \in valid] ELSE item[i]]
    /\ Finish(p)
    /\ UNCHANGED <<documents, late, failed, valid>>

\* A failed fetch or model call, a reply that is no JSON or no list, a database
\* error or a disconnect: what is not committed is rolled back.
Abort(p) ==
    /\ ~At(p, "idle")
    /\ Finish(p)
    /\ failed' = failed \cup req[p].item
    /\ UNCHANGED <<documents, item, late, valid>>

Next ==
    \/ \E p \in Procs, u \in Users, k \in Keys : IngestLookup(p, u, k)
    \/ \E p \in Procs, d \in Docs : IngestCommit(p, d)
    \/ \E p \in Procs, u \in Users, d \in Docs : DeleteLookup(p, u, d)
    \/ \E p \in Procs, u \in Users, kind \in Kinds, D \in SUBSET Docs :
          MakeLookup(p, u, kind, D)
    \/ \E p \in Procs, i \in Items : MakeCommit(p, i)
    \/ \E p \in Procs : DeleteCommit(p) \/ CardsCommit(p) \/ Abort(p)

Spec == Init /\ [][Next]_vars

-----------------------------------------------------------------------------
(* Properties.                                                             *)

\* A result belongs to the owner of every document it was made of, however
\* requests of several users interleave (services/*: the ownership checks).
ItemsOfOwnDocuments ==
    \A i \in Made : \A d \in item[i].docs : owner[d] = item[i].user

\* A deletion does not wait for the requests that have read the document, but
\* no request begins with it afterwards: beside the one that deletes, at most
\* every other slot still stores one result.
FewLateItems ==
    \A d \in Docs :
        Cardinality({i \in Items : <<i, d>> \in late}) < Cardinality(Procs)

\* The SELECT before the fetch keeps a user from a second record of a key he
\* has, as long as he ingests one at a time.  Without the unique index only
\* ingestions that overlap get past each other, contrary to services/ingest.py:10
\* "one record per (user_id, url)", and they do not add up: however long the user
\* goes on, deletes and ingests again, a key has at most as many live records as
\* there are requests in flight.
FewDuplicates ==
    \A u \in Users, k \in Keys :
        Cardinality(With(u, k) \cap Live) <= Cardinality(Procs)

\* The price of the index: the lookup skips deleted documents and the index
\* does not, so a key once deleted is never ingested again, however often the
\* user follows routers/ingest.py:51 "Please try again.".
DeletedForGood ==
    [][constrained =>
         \A u \in Users, k \in Keys :
            With(u, k) # {} /\ With(u, k) \cap Live = {}
                => With(u, k)' \cap Live' = {}]_vars

\* The set and its cards are two commits with a model's reply to sort out in
\* between: a set is without cards only while its request runs, after it failed,
\* or because no entry of the reply was a card, and it has none then.  An answer
\* of success alone does not tell an empty set from one with cards.
CardsOfReply ==
    \A i \in Made :
        IF i \in valid
        THEN \/ item[i].filled
             \/ i \in failed
             \/ \E p \in Procs : At(p, "cards") /\ i \in req[p].item
        ELSE ~item[i].filled
=============================================================================
