-------------------------- MODULE Documents_proofs --------------------------
(***************************************************************************)
(* Proofs about documents and their results, for every set of users, keys, *)
(* documents, results and concurrent requests, with and without the unique *)
(* index.                                                                  *)
(***************************************************************************)
EXTENDS Documents, FiniteSetTheorems, TLAPS

\* The unique index, which knows nothing of deleted_at.
KeysUnique ==
    constrained => \A d1, d2 \in Rows : owner[d1] = owner[d2] /\ key[d1] = key[d2] => d1 = d2

\* What a handler carries across an await: documents whose owner it compared,
\* and the set it has committed without its cards.
RequestsOK ==
    \A p \in Procs :
        /\ req[p].step \in {"make", "cards"} => \A d \in req[p].docs : owner[d] = req[p].user
        /\ req[p].step = "make" => req[p].kind \in Kinds
        /\ req[p].step = "delete" => req[p].docs \subseteq Rows
        /\ req[p].item \subseteq Made

IInv == TypeOK /\ KeysUnique /\ RequestsOK /\ ItemsOfOwnDocuments

-----------------------------------------------------------------------------

\* Nothing is stored and no request is in flight at first.
LEMMA InitIInv == Init => IInv
  BY DocumentsAssumption
  DEF Init, IInv, TypeOK, KeysUnique, RequestsOK, ItemsOfOwnDocuments, Rows, Made, Item,
      NoItem, Idle, Request

\* A record in a slot that satisfies what RequestsOK asks of it disturbs nothing
\* when the tables stay as they are.
LEMMA SlotOnly ==
  ASSUME IInv, NEW p \in Procs, NEW r \in Request \cup {Idle},
         UNCHANGED <<constrained, owner, key, deleted, item, late, failed, valid>>,
         req' = [req EXCEPT ![p] = r],
         r.step \in {"make", "cards"} => \A d \in r.docs : owner[d] = r.user,
         r.step = "make" => r.kind \in Kinds,
         r.step = "delete" => r.docs \subseteq Rows,
         r.item \subseteq Made
  PROVE  IInv'
<1>1. Rows' = Rows /\ Made' = Made
  BY DEF Rows, Made
<1>2. TypeOK'
  BY <1>1 DEF IInv, TypeOK
<1>3. KeysUnique' /\ ItemsOfOwnDocuments'
  BY <1>1 DEF IInv, KeysUnique, ItemsOfOwnDocuments
<1>4. RequestsOK'
  BY <1>1 DEF IInv, TypeOK, RequestsOK
<1>5. QED
  BY <1>2, <1>3, <1>4 DEF IInv

\* A slot that is freed asks for nothing.
LEMMA IdleOK ==
  /\ Idle.step = "idle" /\ Idle.item = {}
  BY DEF Idle

\* The SELECT of an ingestion writes nothing.
LEMMA IngestLookupIInv ==
  ASSUME IInv, NEW p \in Procs, NEW u \in Users, NEW k \in Keys, IngestLookup(p, u, k)
  PROVE  IInv'
<1> DEFINE r == [step |-> "insert", user |-> u, key |-> k, docs |-> {},
                 kind |-> "none", item |-> {}]
<1>1. UNCHANGED <<constrained, owner, key, deleted, item, late, failed, valid>>
  BY DEF IngestLookup, documents, items
<1>2. CASE UNCHANGED req
  BY <1>1, <1>2 DEF IInv, TypeOK, KeysUnique, RequestsOK, ItemsOfOwnDocuments, Rows, Made
<1>3. CASE req' = [req EXCEPT ![p] = r]
  <2>1. r \in Request /\ r.step = "insert" /\ r.item = {}
    BY DEF Request
  <2> HIDE DEF r
  <2>2. QED
    BY <1>1, <1>3, <2>1, SlotOnly
<1>4. QED
  BY <1>2, <1>3 DEF IngestLookup, Begin

\* The INSERT of an ingestion: a new row, or none when the index refuses it.
LEMMA IngestCommitIInv ==
  ASSUME IInv, NEW p \in Procs, NEW d \in Docs, IngestCommit(p, d)
  PROVE  IInv'
<1> DEFINE u == req[p].user
           k == req[p].key
<1>1. /\ UNCHANGED <<constrained, deleted, item, late, failed, valid>>
      /\ req' = [req EXCEPT ![p] = Idle]
      /\ d \notin Rows
      /\ req[p].step = "insert"
  BY DEF IngestCommit, Finish, At, items
<1>2. CASE UNCHANGED <<owner, key>>
  BY <1>1, <1>2, IdleOK, SlotOnly
<1>3. CASE /\ ~(constrained /\ With(u, k) # {})
           /\ owner' = [owner EXCEPT ![d] = u]
           /\ key' = [key EXCEPT ![d] = k]
  <2>1. u \in Users /\ k \in Keys \cup {NoKey}
    BY <1>1 DEF IInv, TypeOK, Request, Idle
  <2>2. Rows' = Rows \cup {d} /\ Made' = Made
    BY <1>1, <1>3, <2>1, DocumentsAssumption DEF IInv, TypeOK, Rows, Made
  <2>3. \A x \in Rows : owner'[x] = owner[x] /\ key'[x] = key[x]
    BY <1>1, <1>3 DEF IInv, TypeOK, Rows
  <2>4. TypeOK'
    BY <1>1, <1>3, <2>1, <2>2 DEF IInv, TypeOK
  <2>5. KeysUnique'
    <3>1. SUFFICES ASSUME constrained', NEW d1 \in Rows', NEW d2 \in Rows',
                          owner'[d1] = owner'[d2], key'[d1] = key'[d2]
                   PROVE  d1 = d2
      BY DEF KeysUnique
    <3>2. \A x \in Rows : ~(owner[x] = u /\ key[x] = k)
      BY <1>1, <1>3, <3>1 DEF With
    <3>3. owner'[d] = u /\ key'[d] = k
      BY <1>3 DEF IInv, TypeOK
    <3>4. QED
      BY <1>1, <2>2, <2>3, <3>1, <3>2, <3>3 DEF IInv, KeysUnique
  <2>6. ItemsOfOwnDocuments'
    <3>1. \A i \in Made : item[i].docs \subseteq Rows
      BY DocumentsAssumption DEF IInv, TypeOK, ItemsOfOwnDocuments, Made, Item, Rows
    <3>2. QED
      BY <1>1, <2>2, <2>3, <3>1 DEF IInv, ItemsOfOwnDocuments
  <2>7. RequestsOK'
    <3>1. \A q \in Procs : req[q].step \in {"make", "cards"} => req[q].docs \subseteq Rows
      BY DocumentsAssumption DEF IInv, TypeOK, RequestsOK, Request, Idle, Rows
    <3>2. QED
      BY <1>1, <2>2, <2>3, <3>1, IdleOK DEF IInv, TypeOK, RequestsOK
  <2>8. QED
    BY <2>4, <2>5, <2>6, <2>7 DEF IInv
<1>4. QED
  BY <1>2, <1>3 DEF IngestCommit

\* The two lookups read documents of the user and write nothing.
LEMMA LookupIInv ==
  ASSUME IInv, NEW p \in Procs, NEW u \in Users, NEW D \in SUBSET Docs,
         NEW kind \in Kinds \cup {"none"}, NEW step \in {"delete", "make"},
         MayUse(u, D), step = "make" => kind \in Kinds,
         req' = [req EXCEPT ![p] = [step |-> step, user |-> u, key |-> NoKey, docs |-> D,
                                    kind |-> kind, item |-> {}]],
         UNCHANGED <<constrained, owner, key, deleted, item, late, failed, valid>>
  PROVE  IInv'
<1> DEFINE r == [step |-> step, user |-> u, key |-> NoKey, docs |-> D,
                 kind |-> kind, item |-> {}]
<1>1. /\ r \in Request /\ r.step = step /\ r.user = u
      /\ r.docs = D /\ r.kind = kind /\ r.item = {}
  BY DEF Request
<1>2. D \subseteq Rows /\ \A d \in D : owner[d] = u
  BY DEF MayUse, Live
<1>3. req' = [req EXCEPT ![p] = r]
  OBVIOUS
<1> HIDE DEF r
<1>4. QED
  BY <1>1, <1>2, <1>3, SlotOnly

\* Deletion marks rows that were found.
LEMMA DeleteCommitIInv ==
  ASSUME IInv, NEW p \in Procs, DeleteCommit(p)
  PROVE  IInv'
<1>1. /\ UNCHANGED <<constrained, owner, key, item, late, failed, valid>>
      /\ deleted' = deleted \cup req[p].docs
      /\ req' = [req EXCEPT ![p] = Idle]
      /\ req[p].docs \subseteq Rows
  BY DEF DeleteCommit, Finish, At, items, IInv, RequestsOK
<1>2. Rows' = Rows /\ Made' = Made
  BY <1>1 DEF Rows, Made
<1>3. TypeOK'
  BY <1>1, <1>2 DEF IInv, TypeOK
<1>4. KeysUnique' /\ ItemsOfOwnDocuments'
  BY <1>1, <1>2 DEF IInv, KeysUnique, ItemsOfOwnDocuments
<1>5. RequestsOK'
  BY <1>1, <1>2, IdleOK DEF IInv, TypeOK, RequestsOK
<1>6. QED
  BY <1>3, <1>4, <1>5 DEF IInv

\* The result carries the user and the documents that were compared.
LEMMA MakeCommitIInv ==
  ASSUME IInv, NEW p \in Procs, NEW i \in Items, MakeCommit(p, i)
  PROVE  IInv'
<1> DEFINE made == [kind |-> req[p].kind, user |-> req[p].user,
                    docs |-> req[p].docs, filled |-> req[p].kind # "flashcards"]
           cards == [step |-> "cards", user |-> req[p].user, key |-> NoKey,
                     docs |-> req[p].docs, kind |-> req[p].kind, item |-> {i}]
<1>1. /\ UNCHANGED <<constrained, owner, key, deleted, failed>>
      /\ valid' \in {valid, valid \cup {i}}
      /\ item' = [item EXCEPT ![i] = made]
      /\ late' = late \cup ({i} \X (req[p].docs \cap deleted))
      /\ req' = [req EXCEPT ![p] = cards] \/ req' = [req EXCEPT ![p] = Idle]
      /\ req[p].step = "make"
      /\ i \notin Made
  BY DEF MakeCommit, Finish, At, documents
<1>2. req[p] \in Request /\ \A d \in req[p].docs : owner[d] = req[p].user
  BY <1>1 DEF IInv, TypeOK, RequestsOK, Idle
<1>3. made \in [kind : Kinds, user : Users, docs : SUBSET Docs, filled : BOOLEAN]
  BY <1>1, <1>2 DEF IInv, RequestsOK, Request
<1>4. made # NoItem /\ made \in Item
  BY <1>3 DEF NoItem, Item, Kinds
<1>5. Rows' = Rows
  BY <1>1 DEF Rows
<1>6. /\ Made' = Made \cup {i}
      /\ item'[i] = made
      /\ \A j \in Made : item'[j] = item[j]
  BY <1>1, <1>4 DEF IInv, TypeOK, Made
<1>7. cards \in Request
  BY <1>2 DEF Request
<1>8. TypeOK'
  BY <1>1, <1>4, <1>5, <1>6, <1>7 DEF IInv, TypeOK
<1>9. KeysUnique'
  BY <1>1, <1>5 DEF IInv, KeysUnique
<1>10. ItemsOfOwnDocuments'
  BY <1>1, <1>2, <1>6 DEF IInv, ItemsOfOwnDocuments
<1>11. RequestsOK'
  <2>1. CASE req' = [req EXCEPT ![p] = cards]
    BY <1>1, <1>2, <1>5, <1>6, <2>1 DEF IInv, TypeOK, RequestsOK
  <2>2. CASE req' = [req EXCEPT ![p] = Idle]
    BY <1>1, <1>5, <1>6, <2>2, IdleOK DEF IInv, TypeOK, RequestsOK
  <2>3. QED
    BY <1>1, <2>1, <2>2
<1>12. QED
  BY <1>8, <1>9, <1>10, <1>11 DEF IInv

\* The cards complete a set that was committed before.
LEMMA CardsCommitIInv ==
  ASSUME IInv, NEW p \in Procs, CardsCommit(p)
  PROVE  IInv'
<1>1. /\ UNCHANGED <<constrained, owner, key, deleted, late, failed, valid>>
      /\ item' = [i \in Items |-> IF i \in req[p].item
                                 THEN [item[i] EXCEPT !.filled = i \in valid] ELSE item[i]]
      /\ req' = [req EXCEPT ![p] = Idle]
  BY DEF CardsCommit, Finish, documents
<1>2. req[p].item \subseteq Made
  BY DEF IInv, RequestsOK
<1>3. Rows' = Rows
  BY <1>1 DEF Rows
<1>4. ASSUME NEW i \in Items
      PROVE  /\ item'[i] \in Item
             /\ item[i] = NoItem <=> item'[i] = NoItem
             /\ i \in Made => item'[i].docs = item[i].docs /\ item'[i].user = item[i].user
  <2>1. CASE i \in req[p].item
    <3>1. item[i] \in [kind : Kinds, user : Users, docs : SUBSET Docs, filled : BOOLEAN]
      BY <1>2, <2>1 DEF Made, IInv, TypeOK, Item
    <3>2. item'[i] = [item[i] EXCEPT !.filled = i \in valid]
      BY <1>1, <2>1
    <3>3. /\ item'[i] \in [kind : Kinds, user : Users, docs : SUBSET Docs, filled : BOOLEAN]
          /\ item'[i].docs = item[i].docs /\ item'[i].user = item[i].user
      <4>1. ASSUME NEW b \in BOOLEAN, item'[i] = [item[i] EXCEPT !.filled = b]
            PROVE  /\ item'[i] \in [kind : Kinds, user : Users, docs : SUBSET Docs,
                                    filled : BOOLEAN]
                   /\ item'[i].docs = item[i].docs /\ item'[i].user = item[i].user
        BY <3>1, <4>1
      <4>2. CASE i \in valid
        BY <3>2, <4>1, <4>2
      <4>3. CASE i \notin valid
        <5>1. (i \in valid) = FALSE
          BY <4>3
        <5>2. item'[i] = [item[i] EXCEPT !.filled = FALSE]
          BY <3>2, <5>1
        <5>3. QED
          BY <4>1, <5>2
      <4>4. QED
        BY <4>2, <4>3
    <3>4. NoItem \notin [kind : Kinds, user : Users, docs : SUBSET Docs, filled : BOOLEAN]
      BY DEF NoItem, Kinds
    <3>5. QED
      BY <3>1, <3>3, <3>4 DEF Item
  <2>2. CASE i \notin req[p].item
    BY <1>1, <2>2 DEF IInv, TypeOK
  <2>3. QED
    BY <2>1, <2>2
<1>5. Made' = Made
  BY <1>4 DEF Made
<1>6. TypeOK'
  <2>1. item' \in [Items -> Item]
    BY <1>1, <1>4
  <2>2. QED
    BY <1>1, <1>3, <1>5, <2>1 DEF IInv, TypeOK
<1>7. KeysUnique'
  BY <1>1, <1>3 DEF IInv, KeysUnique
<1>8. ItemsOfOwnDocuments'
  BY <1>1, <1>4, <1>5 DEF IInv, ItemsOfOwnDocuments, Made
<1>9. RequestsOK'
  BY <1>1, <1>3, <1>5, IdleOK DEF IInv, TypeOK, RequestsOK
<1>10. QED
  BY <1>6, <1>7, <1>8, <1>9 DEF IInv

\* A request that dies leaves what it committed.
LEMMA AbortIInv ==
  ASSUME IInv, NEW p \in Procs, Abort(p)
  PROVE  IInv'
<1>1. /\ UNCHANGED <<constrained, owner, key, deleted, item, late, valid>>
      /\ req' = [req EXCEPT ![p] = Idle]
      /\ failed' = failed \cup req[p].item
      /\ req[p].item \subseteq Made
  BY DEF Abort, Finish, documents, IInv, RequestsOK
<1>2. Rows' = Rows /\ Made' = Made
  BY <1>1 DEF Rows, Made
<1>3. TypeOK'
  BY <1>1, <1>2 DEF IInv, TypeOK
<1>4. KeysUnique' /\ ItemsOfOwnDocuments'
  BY <1>1, <1>2 DEF IInv, KeysUnique, ItemsOfOwnDocuments
<1>5. RequestsOK'
  BY <1>1, <1>2, IdleOK DEF IInv, TypeOK, RequestsOK
<1>6. QED
  BY <1>3, <1>4, <1>5 DEF IInv

-----------------------------------------------------------------------------

\* Every step preserves the invariant.
LEMMA NextIInv == IInv /\ [Next]_vars => IInv'
<1> SUFFICES ASSUME IInv, [Next]_vars PROVE IInv'
  OBVIOUS
<1>1. ASSUME NEW p \in Procs, NEW u \in Users, NEW d \in Docs, DeleteLookup(p, u, d)
      PROVE  IInv'
  <2>1. /\ UNCHANGED <<constrained, owner, key, deleted, item, late, failed, valid>>
        /\ MayUse(u, {d})
        /\ req' = [req EXCEPT ![p] = [step |-> "delete", user |-> u, key |-> NoKey,
                                      docs |-> {d}, kind |-> "none", item |-> {}]]
    BY <1>1 DEF DeleteLookup, Begin, documents, items
  <2>2. QED
    BY <2>1, LookupIInv
<1>2. ASSUME NEW p \in Procs, NEW u \in Users, NEW kind \in Kinds, NEW D \in SUBSET Docs,
             MakeLookup(p, u, kind, D)
      PROVE  IInv'
  <2>1. /\ UNCHANGED <<constrained, owner, key, deleted, item, late, failed, valid>>
        /\ MayUse(u, D)
        /\ req' = [req EXCEPT ![p] = [step |-> "make", user |-> u, key |-> NoKey,
                                      docs |-> D, kind |-> kind, item |-> {}]]
    BY <1>2 DEF MakeLookup, Begin, documents, items
  <2>2. QED
    BY <2>1, LookupIInv
<1>3. CASE UNCHANGED vars
  BY <1>3 DEF vars, documents, items, IInv, TypeOK, KeysUnique, RequestsOK,
              ItemsOfOwnDocuments, Rows, Made
<1>4. QED
  BY <1>1, <1>2, <1>3, IngestLookupIInv, IngestCommitIInv, DeleteCommitIInv,
     MakeCommitIInv, CardsCommitIInv, AbortIInv DEF Next

\* Every reachable state satisfies the strengthened invariant.
THEOREM Inductive == Spec => []IInv
  BY InitIInv, NextIInv, PTL DEF Spec

\* The tables and the requests in flight keep their types.
THEOREM TypeCorrect == Spec => []TypeOK
<1>1. IInv => TypeOK
  BY DEF IInv
<1>2. QED
  BY <1>1, Inductive, PTL

\* Flashcards, syntheses and audio belong to the owner of their documents: the
\* owner a handler has compared does not change while it waits for the model.
THEOREM OwnItems == Spec => []ItemsOfOwnDocuments
<1>1. IInv => ItemsOfOwnDocuments
  BY DEF IInv
<1>2. QED
  BY <1>1, Inductive, PTL

\* With the unique index a key whose document was deleted is lost for good.
THEOREM Lost == Spec => DeletedForGood
<1>1. IInv /\ [Next]_vars =>
        [constrained =>
           \A u \in Users, k \in Keys :
              With(u, k) # {} /\ With(u, k) \cap Live = {}
                  => With(u, k)' \cap Live' = {}]_vars
  <2> SUFFICES ASSUME IInv, [Next]_vars, constrained, NEW u \in Users, NEW k \in Keys,
                      With(u, k) # {}, With(u, k) \cap Live = {}
               PROVE  With(u, k)' \cap Live' = {}
    OBVIOUS
  <2>1. ASSUME NEW p \in Procs, NEW d \in Docs, IngestCommit(p, d)
        PROVE  With(u, k)' \cap Live' = {}
    <3>1. UNCHANGED deleted /\ d \notin Rows
      BY <2>1 DEF IngestCommit
    <3>2. CASE UNCHANGED <<owner, key>>
      BY <3>1, <3>2 DEF With, Live, Rows
    <3>3. CASE /\ With(req[p].user, req[p].key) = {}
               /\ owner' = [owner EXCEPT ![d] = req[p].user]
               /\ key' = [key EXCEPT ![d] = req[p].key]
      BY <3>1, <3>3 DEF With, Live, Rows, IInv, TypeOK
    <3>4. QED
      BY <2>1, <3>2, <3>3 DEF IngestCommit
  <2>2. ASSUME UNCHANGED <<owner, key>>, deleted \subseteq deleted'
        PROVE  With(u, k)' \cap Live' = {}
    BY <2>2 DEF With, Live, Rows
  <2>3. ASSUME ~\E p \in Procs, d \in Docs : IngestCommit(p, d)
        PROVE  UNCHANGED <<owner, key>> /\ deleted \subseteq deleted'
    BY <2>3 DEF Next, vars, documents, items, IngestLookup, DeleteLookup, MakeLookup,
                MakeCommit, DeleteCommit, CardsCommit, Abort
  <2>4. QED
    BY <2>1, <2>2, <2>3
<1>2. QED
  BY <1>1, Inductive, PTL DEF Spec, DeletedForGood

-----------------------------------------------------------------------------
(* What two commits of one request leave behind.                           *)

\* Content that a reply did not have is not stored.
FilledOK == \A i \in Made : item[i].filled => i \in valid

LEMMA FilledStep ==
  ASSUME IInv, FilledOK, [Next]_vars
  PROVE  FilledOK'
<1> SUFFICES ASSUME NEW j \in Items, item'[j] # NoItem, item'[j].filled
             PROVE  j \in valid'
  BY DEF FilledOK, Made
<1>1. ASSUME UNCHANGED items PROVE j \in valid'
  BY <1>1 DEF items, FilledOK, Made
<1>2. ASSUME NEW p \in Procs, NEW i \in Items, MakeCommit(p, i)
      PROVE  j \in valid'
  <2>1. CASE j # i
    BY <1>2, <2>1 DEF MakeCommit, FilledOK, Made, IInv, TypeOK
  <2>2. CASE j = i
    <3>1. item'[i].filled = (req[p].kind # "flashcards")
      BY <1>2 DEF MakeCommit, IInv, TypeOK
    <3>2. req[p].kind # "flashcards" => valid' = valid \cup {i}
      BY <1>2 DEF MakeCommit
    <3>3. QED
      BY <2>2, <3>1, <3>2
  <2>3. QED
    BY <2>1, <2>2
<1>3. ASSUME NEW p \in Procs, CardsCommit(p)
      PROVE  j \in valid'
  <2>1. valid' = valid
    BY <1>3 DEF CardsCommit
  <2>2. CASE j \in req[p].item
    <3>1. item[j] \in [kind : Kinds, user : Users, docs : SUBSET Docs, filled : BOOLEAN]
      BY <2>2 DEF IInv, TypeOK, RequestsOK, Made, Item
    <3>2. item'[j] = [item[j] EXCEPT !.filled = j \in valid]
      BY <1>3, <2>2 DEF CardsCommit
    <3>3. QED
      BY <2>1, <3>1, <3>2
  <2>3. CASE j \notin req[p].item
    BY <1>3, <2>1, <2>3 DEF CardsCommit, FilledOK, Made
  <2>4. QED
    BY <2>2, <2>3
<1>4. ASSUME NEW p \in Procs, Abort(p)
      PROVE  j \in valid'
  BY <1>4 DEF Abort, FilledOK, Made
<1>5. QED
  BY <1>1, <1>2, <1>3, <1>4
  DEF Next, vars, IngestLookup, IngestCommit, DeleteLookup, DeleteCommit, MakeLookup

\* Content that a reply had is stored, or its request is under way or has failed.
ValidOK ==
    \A i \in valid : \/ item[i].filled
                     \/ i \in failed
                     \/ \E p \in Procs : At(p, "cards") /\ i \in req[p].item

LEMMA ValidStep ==
  ASSUME IInv, ValidOK, [Next]_vars
  PROVE  ValidOK'
<1> SUFFICES ASSUME NEW j \in Items, j \in valid'
             PROVE  \/ item'[j].filled
                    \/ j \in failed'
                    \/ \E p \in Procs : At(p, "cards")' /\ j \in req'[p].item
  <2>1. valid' \subseteq Items
    BY NextIInv DEF IInv, TypeOK, Made
  <2>2. QED
    BY <2>1 DEF ValidOK
<1> DEFINE Cards(p) == At(p, "cards") /\ j \in req[p].item
<1>0. j \in valid => item[j].filled \/ j \in failed \/ \E p \in Procs : Cards(p)
  BY DEF ValidOK
<1>1. ASSUME UNCHANGED <<item, failed, valid>>, \A p \in Procs : Cards(p) => Cards(p)'
      PROVE  item'[j].filled \/ j \in failed' \/ \E p \in Procs : Cards(p)'
  BY <1>0, <1>1
<1>2. ASSUME NEW p \in Procs, ~At(p, "cards"), UNCHANGED items,
             \E r : req' = [req EXCEPT ![p] = r]
      PROVE  item'[j].filled \/ j \in failed' \/ \E q \in Procs : Cards(q)'
  BY <1>1, <1>2 DEF items, At, IInv, TypeOK
<1>3. ASSUME NEW p \in Procs, NEW i \in Items, MakeCommit(p, i)
      PROVE  item'[j].filled \/ j \in failed' \/ \E q \in Procs : Cards(q)'
  <2>1. CASE j # i
    <3>1. item'[j] = item[j] /\ failed' = failed /\ j \in valid
      BY <1>3, <2>1 DEF MakeCommit, IInv, TypeOK
    <3>2. \A q \in Procs : Cards(q) => Cards(q)'
      BY <1>3 DEF MakeCommit, Finish, At, IInv, TypeOK
    <3>3. QED
      BY <1>0, <3>1, <3>2
  <2>2. CASE j = i /\ req[p].kind = "flashcards"
    <3>1. req'[p].step = "cards" /\ i \in req'[p].item
      BY <1>3, <2>2 DEF MakeCommit, IInv, TypeOK
    <3>2. QED
      BY <2>2, <3>1 DEF At
  <2>3. CASE j = i /\ req[p].kind # "flashcards"
    BY <1>3, <2>3 DEF MakeCommit, IInv, TypeOK
  <2>4. QED
    BY <2>1, <2>2, <2>3
<1>4. ASSUME NEW p \in Procs, CardsCommit(p)
      PROVE  item'[j].filled \/ j \in failed' \/ \E q \in Procs : Cards(q)'
  <2>1. CASE j \in req[p].item
    <3>1. item[j] \in [kind : Kinds, user : Users, docs : SUBSET Docs, filled : BOOLEAN]
      BY <2>1 DEF IInv, TypeOK, RequestsOK, Made, Item
    <3>2. item'[j] = [item[j] EXCEPT !.filled = j \in valid] /\ j \in valid
      BY <1>4, <2>1 DEF CardsCommit
    <3>3. QED
      BY <3>1, <3>2
  <2>2. CASE j \notin req[p].item
    <3>1. item'[j] = item[j] /\ failed' = failed /\ valid' = valid
      BY <1>4, <2>2 DEF CardsCommit
    <3>2. \A q \in Procs : Cards(q) => Cards(q)'
      BY <1>4, <2>2 DEF CardsCommit, Finish, At, IInv, TypeOK
    <3>3. QED
      BY <1>0, <3>1, <3>2
  <2>3. QED
    BY <2>1, <2>2
<1>5. ASSUME NEW p \in Procs, Abort(p)
      PROVE  item'[j].filled \/ j \in failed' \/ \E q \in Procs : Cards(q)'
  <2>1. item' = item /\ failed' = failed \cup req[p].item /\ valid' = valid
    BY <1>5 DEF Abort
  <2>2. \A q \in Procs : Cards(q) => Cards(q)' \/ j \in failed'
    BY <1>5, <2>1 DEF Abort, Finish, At, IInv, TypeOK
  <2>3. QED
    BY <1>0, <2>1, <2>2
<1>6. ASSUME NEW p \in Procs, NEW u \in Users, NEW k \in Keys, IngestLookup(p, u, k)
      PROVE  item'[j].filled \/ j \in failed' \/ \E q \in Procs : Cards(q)'
  <2>1. UNCHANGED items /\ At(p, "idle") /\ \E r : req' = [req EXCEPT ![p] = r]
    BY <1>6 DEF IngestLookup, Begin, IInv, TypeOK
  <2>2. QED
    BY <1>2, <2>1 DEF At
<1>7. ASSUME NEW p \in Procs, NEW d \in Docs, IngestCommit(p, d)
      PROVE  item'[j].filled \/ j \in failed' \/ \E q \in Procs : Cards(q)'
  <2>1. UNCHANGED items /\ At(p, "insert") /\ \E r : req' = [req EXCEPT ![p] = r]
    BY <1>7 DEF IngestCommit, Finish
  <2>2. QED
    BY <1>2, <2>1 DEF At
<1>8. ASSUME NEW p \in Procs, NEW u \in Users, NEW d \in Docs, DeleteLookup(p, u, d)
      PROVE  item'[j].filled \/ j \in failed' \/ \E q \in Procs : Cards(q)'
  <2>1. UNCHANGED items /\ At(p, "idle") /\ \E r : req' = [req EXCEPT ![p] = r]
    BY <1>8 DEF DeleteLookup, Begin
  <2>2. QED
    BY <1>2, <2>1 DEF At
<1>9. ASSUME NEW p \in Procs, NEW u \in Users, NEW kind \in Kinds, NEW D \in SUBSET Docs,
             MakeLookup(p, u, kind, D)
      PROVE  item'[j].filled \/ j \in failed' \/ \E q \in Procs : Cards(q)'
  <2>1. UNCHANGED items /\ At(p, "idle") /\ \E r : req' = [req EXCEPT ![p] = r]
    BY <1>9 DEF MakeLookup, Begin
  <2>2. QED
    BY <1>2, <2>1 DEF At
<1>10. ASSUME NEW p \in Procs, DeleteCommit(p)
      PROVE  item'[j].filled \/ j \in failed' \/ \E q \in Procs : Cards(q)'
  <2>1. UNCHANGED items /\ At(p, "delete") /\ \E r : req' = [req EXCEPT ![p] = r]
    BY <1>10 DEF DeleteCommit, Finish
  <2>2. QED
    BY <1>2, <2>1 DEF At
<1>11. CASE UNCHANGED vars
  BY <1>1, <1>11 DEF vars, items, At
<1>12. QED
  BY <1>3, <1>4, <1>5, <1>6, <1>7, <1>8, <1>9, <1>10, <1>11 DEF Next, At

\* A set has cards if and only if the reply had some, unless its request is under
\* way or has failed.
THEOREM Cards == Spec => []CardsOfReply
<1>1. Init => FilledOK /\ ValidOK
  BY DEF Init, FilledOK, ValidOK, Made
<1>2. IInv /\ FilledOK /\ ValidOK => CardsOfReply
  BY DEF FilledOK, ValidOK, CardsOfReply
<1>3. QED
  BY <1>1, <1>2, FilledStep, ValidStep, Inductive, PTL DEF Spec

-----------------------------------------------------------------------------
(* Results made of documents that were deleted meanwhile.                  *)

LateItems(d) == {i \in Items : <<i, d>> \in late}

\* The requests that have read d and wait for the model.
Makers(d) == {p \in Procs : req[p].step = "make" /\ d \in req[p].docs}

\* Once d is deleted every late result was one of these requests, and the slot
\* that deleted d is not among them.
LateOK ==
    \A d \in deleted :
        /\ IsFiniteSet(LateItems(d))
        /\ Cardinality(LateItems(d)) + Cardinality(Makers(d)) < Cardinality(Procs)

\* Fewer makers do no harm.
LEMMA FewerMakers ==
  ASSUME LateOK, NEW d \in deleted, LateItems(d)' = LateItems(d), Makers(d)' \subseteq Makers(d)
  PROVE  /\ IsFiniteSet(LateItems(d)')
         /\ Cardinality(LateItems(d)') + Cardinality(Makers(d)') < Cardinality(Procs)
<1>1. IsFiniteSet(Makers(d)) /\ IsFiniteSet(LateItems(d))
  BY ProcsAssumption, FS_Subset DEF Makers, LateOK
<1>2. Cardinality(Makers(d)') <= Cardinality(Makers(d)) /\ IsFiniteSet(Makers(d)')
  BY <1>1, FS_Subset
<1>3. /\ Cardinality(Makers(d)) \in Nat /\ Cardinality(Makers(d)') \in Nat
      /\ Cardinality(LateItems(d)) \in Nat /\ Cardinality(Procs) \in Nat
  BY <1>1, <1>2, ProcsAssumption, FS_CardinalityType
<1>4. Cardinality(LateItems(d)) + Cardinality(Makers(d)) < Cardinality(Procs)
  BY DEF LateOK
<1>5. QED
  BY <1>1, <1>2, <1>3, <1>4

\* Steps that make nothing and delete nothing: makers may only begin with live
\* documents.
LEMMA LateFrame ==
  ASSUME IInv, LateOK, UNCHANGED <<deleted, late>>,
         \A d \in deleted : Makers(d)' \subseteq Makers(d)
  PROVE  LateOK'
<1> SUFFICES ASSUME NEW d \in deleted
             PROVE  /\ IsFiniteSet(LateItems(d)')
                    /\ Cardinality(LateItems(d)') + Cardinality(Makers(d)') < Cardinality(Procs)
  BY DEF LateOK, LateItems, Makers
<1>1. LateItems(d)' = LateItems(d)
  BY DEF LateItems
<1>2. QED
  BY <1>1, FewerMakers

\* Storing a result turns a maker into a late item, if its document is gone.
LEMMA LateMake ==
  ASSUME IInv, LateOK, NEW p \in Procs, NEW i \in Items, MakeCommit(p, i)
  PROVE  LateOK'
<1>1. /\ deleted' = deleted
      /\ late' = late \cup ({i} \X (req[p].docs \cap deleted))
      /\ req[p].step = "make" /\ req'[p].step # "make"
      /\ \A q \in Procs \ {p} : req'[q] = req[q]
      /\ i \notin Made
  BY DEF MakeCommit, documents, Finish, At, Idle, IInv, TypeOK
<1> SUFFICES ASSUME NEW d \in deleted
             PROVE  /\ IsFiniteSet(LateItems(d)')
                    /\ Cardinality(LateItems(d)') + Cardinality(Makers(d)') < Cardinality(Procs)
  BY <1>1 DEF LateOK, LateItems, Makers
<1>2. Makers(d)' = Makers(d) \ {p}
  BY <1>1 DEF Makers
<1>3. CASE d \in req[p].docs
  <2>1. LateItems(d)' = LateItems(d) \cup {i}
    BY <1>1, <1>3 DEF LateItems
  <2>2. i \notin LateItems(d)
    BY <1>1 DEF LateItems, IInv, TypeOK
  <2>3. p \in Makers(d)
    BY <1>1, <1>3 DEF Makers
  <2>4. IsFiniteSet(Makers(d)) /\ IsFiniteSet(LateItems(d))
    BY ProcsAssumption, FS_Subset DEF Makers, LateOK
  <2>5. /\ IsFiniteSet(LateItems(d)')
        /\ Cardinality(LateItems(d)') = Cardinality(LateItems(d)) + 1
    BY <2>1, <2>2, <2>4, FS_AddElement
  <2>6. Cardinality(Makers(d)') = Cardinality(Makers(d)) - 1
    BY <1>2, <2>3, <2>4, FS_RemoveElement
  <2>7. Cardinality(Makers(d)) \in Nat /\ Cardinality(LateItems(d)) \in Nat
    BY <2>4, FS_CardinalityType
  <2>8. Cardinality(LateItems(d)) + Cardinality(Makers(d)) < Cardinality(Procs)
    BY DEF LateOK
  <2>9. QED
    BY <2>5, <2>6, <2>7, <2>8
<1>4. CASE d \notin req[p].docs
  <2>1. LateItems(d)' = LateItems(d)
    BY <1>1, <1>4 DEF LateItems
  <2>2. QED
    BY <1>2, <2>1, FewerMakers
<1>5. QED
  BY <1>3, <1>4

\* When a document goes, the slot that deletes it is not one of its makers.
LEMMA LateDelete ==
  ASSUME IInv, LateOK, NEW p \in Procs, DeleteCommit(p)
  PROVE  LateOK'
<1>1. /\ deleted' = deleted \cup req[p].docs /\ late' = late
      /\ req[p].step = "delete" /\ req'[p].step # "make"
      /\ \A q \in Procs \ {p} : req'[q] = req[q]
  BY DEF DeleteCommit, items, Finish, At, Idle, IInv, TypeOK
<1> SUFFICES ASSUME NEW d \in deleted'
             PROVE  /\ IsFiniteSet(LateItems(d)')
                    /\ Cardinality(LateItems(d)') + Cardinality(Makers(d)') < Cardinality(Procs)
  BY DEF LateOK, LateItems, Makers
<1>2. LateItems(d)' = LateItems(d) /\ Makers(d)' \subseteq Makers(d)
  BY <1>1 DEF LateItems, Makers
<1>3. CASE d \in deleted
  BY <1>2, <1>3, FewerMakers
<1>4. CASE d \notin deleted
  <2>1. LateItems(d)' = {}
    BY <1>2, <1>4 DEF LateItems, IInv, TypeOK
  <2>2. Makers(d)' \subseteq Procs \ {p}
    BY <1>1 DEF Makers
  <2>3. IsFiniteSet(Procs \ {p}) /\ Cardinality(Procs \ {p}) = Cardinality(Procs) - 1
    BY ProcsAssumption, FS_RemoveElement
  <2>4. IsFiniteSet(Makers(d)') /\ Cardinality(Makers(d)') <= Cardinality(Procs) - 1
    BY <2>2, <2>3, FS_Subset
  <2>5. Cardinality(Makers(d)') \in Nat /\ Cardinality(Procs) \in Nat
    BY <2>4, ProcsAssumption, FS_CardinalityType
  <2>6. QED
    BY <2>1, <2>4, <2>5, FS_EmptySet
<1>5. QED
  BY <1>3, <1>4

LEMMA LateStep ==
  ASSUME IInv, LateOK, [Next]_vars
  PROVE  LateOK'
<1>1. ASSUME NEW p \in Procs, UNCHANGED <<deleted, late>>,
             \/ UNCHANGED req
             \/ \E r : /\ req' = [req EXCEPT ![p] = r]
                      /\ (r.step # "make" \/ r.docs \cap deleted = {})
      PROVE  LateOK'
  <2>1. ASSUME NEW d \in deleted, NEW q \in Makers(d)' PROVE q \in Makers(d)
    <3>1. q \in Procs /\ req'[q].step = "make" /\ d \in req'[q].docs
      BY DEF Makers
    <3>2. CASE req'[q] = req[q]
      BY <3>1, <3>2 DEF Makers
    <3>3. CASE req'[q] # req[q]
      <4>1. PICK r : /\ req' = [req EXCEPT ![p] = r]
                     /\ (r.step # "make" \/ r.docs \cap deleted = {})
        BY <1>1, <3>3
      <4>2. q = p /\ req'[p] = r
        BY <3>1, <3>3, <4>1 DEF IInv, TypeOK
      <4>3. QED
        BY <3>1, <4>1, <4>2
    <3>4. QED
      BY <3>2, <3>3
  <2>2. QED
    BY <1>1, <2>1, LateFrame
<1>2. ASSUME NEW p \in Procs, \E u \in Users, k \in Keys : IngestLookup(p, u, k)
      PROVE  LateOK'
  <2>1. /\ UNCHANGED <<deleted, late>>
        /\ \/ UNCHANGED req
           \/ \E r : r.step = "insert" /\ req' = [req EXCEPT ![p] = r]
    BY <1>2 DEF IngestLookup, Begin, documents, items
  <2>2. QED
    BY <1>1, <2>1
<1>3. ASSUME NEW p \in Procs, \E u \in Users, d \in Docs : DeleteLookup(p, u, d)
      PROVE  LateOK'
  <2>1. /\ UNCHANGED <<deleted, late>>
        /\ \E r : r.step = "delete" /\ req' = [req EXCEPT ![p] = r]
    BY <1>3 DEF DeleteLookup, Begin, documents, items
  <2>2. QED
    BY <1>1, <2>1
<1>4. ASSUME NEW p \in Procs, NEW u \in Users, NEW kind \in Kinds, NEW D \in SUBSET Docs,
             MakeLookup(p, u, kind, D)
      PROVE  LateOK'
  <2>1. /\ UNCHANGED <<deleted, late>> /\ D \cap deleted = {}
        /\ \E r : r.docs = D /\ req' = [req EXCEPT ![p] = r]
    BY <1>4 DEF MakeLookup, MayUse, Live, Begin, documents, items
  <2>2. QED
    BY <1>1, <2>1
<1>5. ASSUME NEW p \in Procs, \/ \E d \in Docs : IngestCommit(p, d)
                              \/ CardsCommit(p) \/ Abort(p)
      PROVE  LateOK'
  <2>1. UNCHANGED <<deleted, late>> /\ req' = [req EXCEPT ![p] = Idle]
    BY <1>5 DEF IngestCommit, CardsCommit, Abort, Finish, documents, items
  <2>2. Idle.step # "make"
    BY DEF Idle
  <2>3. QED
    BY <1>1, <2>1, <2>2
<1>6. CASE UNCHANGED vars
  BY <1>6, LateFrame DEF vars, documents, items, Makers
<1>7. QED
  BY <1>2, <1>3, <1>4, <1>5, <1>6, LateMake, LateDelete DEF Next

\* Of a deleted document at most every other slot still makes one result.
THEOREM FewLate == Spec => []FewLateItems
<1>1. Init => LateOK
  BY DEF Init, LateOK
<1>2. IInv /\ LateOK => FewLateItems
  <2> SUFFICES ASSUME IInv, LateOK, NEW d \in Docs
               PROVE  Cardinality(LateItems(d)) < Cardinality(Procs)
    BY DEF FewLateItems, LateItems
  <2>1. CASE d \in deleted
    <3>1. IsFiniteSet(LateItems(d)) /\ IsFiniteSet(Makers(d))
      BY <2>1, ProcsAssumption, FS_Subset DEF LateOK, Makers
    <3>2. Cardinality(LateItems(d)) \in Nat /\ Cardinality(Makers(d)) \in Nat
          /\ Cardinality(Procs) \in Nat
      BY <3>1, ProcsAssumption, FS_CardinalityType
    <3>3. Cardinality(LateItems(d)) + Cardinality(Makers(d)) < Cardinality(Procs)
      BY <2>1 DEF LateOK
    <3>4. QED
      BY <3>2, <3>3
  <2>2. CASE d \notin deleted
    <3>1. LateItems(d) = {}
      BY <2>2 DEF LateItems, IInv, TypeOK
    <3>2. Cardinality(Procs) \in Nat /\ Cardinality(Procs) # 0
      BY ProcsAssumption, FS_CardinalityType, FS_EmptySet
    <3>3. QED
      BY <3>1, <3>2, FS_EmptySet
  <2>3. QED
    BY <2>1, <2>2
<1>3. QED
  BY <1>1, <1>2, LateStep, Inductive, PTL DEF Spec

-----------------------------------------------------------------------------
(* Records of one key.                                                     *)

Records(u, k) == With(u, k) \cap Live

\* The ingestions that have found no record and wait for their page.
Pending(u, k) == {p \in Procs : At(p, "insert") /\ req[p].user = u /\ req[p].key = k}

\* A record was one of these requests, and a request begins to wait only where
\* there is no record.
DupOK ==
    \A u \in Users, k \in Keys :
        /\ IsFiniteSet(Records(u, k))
        /\ Cardinality(Records(u, k)) + Cardinality(Pending(u, k)) <= Cardinality(Procs)

\* Fewer records and fewer requests do no harm.
LEMMA FewerRecords ==
  ASSUME DupOK, NEW u \in Users, NEW k \in Keys,
         Records(u, k)' \subseteq Records(u, k), Pending(u, k)' \subseteq Pending(u, k)
  PROVE  /\ IsFiniteSet(Records(u, k)')
         /\ Cardinality(Records(u, k)') + Cardinality(Pending(u, k)') <= Cardinality(Procs)
<1>1. IsFiniteSet(Records(u, k)) /\ IsFiniteSet(Pending(u, k))
  BY ProcsAssumption, FS_Subset DEF Pending, DupOK
<1>2. /\ IsFiniteSet(Records(u, k)') /\ IsFiniteSet(Pending(u, k)')
      /\ Cardinality(Records(u, k)') <= Cardinality(Records(u, k))
      /\ Cardinality(Pending(u, k)') <= Cardinality(Pending(u, k))
  BY <1>1, FS_Subset
<1>3. /\ Cardinality(Records(u, k)) \in Nat /\ Cardinality(Records(u, k)') \in Nat
      /\ Cardinality(Pending(u, k)) \in Nat /\ Cardinality(Pending(u, k)') \in Nat
      /\ Cardinality(Procs) \in Nat
  BY <1>1, <1>2, ProcsAssumption, FS_CardinalityType
<1>4. Cardinality(Records(u, k)) + Cardinality(Pending(u, k)) <= Cardinality(Procs)
  BY DEF DupOK
<1>5. QED
  BY <1>2, <1>3, <1>4

\* A SELECT that finds nothing: all requests may wait, but there is no record.
LEMMA DupLookup ==
  ASSUME IInv, DupOK, NEW p \in Procs, NEW u0 \in Users, NEW k0 \in Keys,
         IngestLookup(p, u0, k0)
  PROVE  DupOK'
<1>1. UNCHANGED <<owner, key, deleted>>
  BY DEF IngestLookup, documents
<1> SUFFICES ASSUME NEW u \in Users, NEW k \in Keys
             PROVE  /\ IsFiniteSet(Records(u, k)')
                    /\ Cardinality(Records(u, k)') + Cardinality(Pending(u, k)')
                            <= Cardinality(Procs)
  BY DEF DupOK
<1>2. Records(u, k)' = Records(u, k)
  BY <1>1 DEF Records, With, Live, Rows
<1>3. CASE UNCHANGED req
  <2>1. Pending(u, k)' = Pending(u, k)
    BY <1>3 DEF Pending, At
  <2>2. QED
    BY <1>2, <2>1, FewerRecords
<1>4. CASE /\ With(u0, k0) \cap Live = {}
           /\ req' = [req EXCEPT ![p] = [step |-> "insert", user |-> u0, key |-> k0,
                                         docs |-> {}, kind |-> "none", item |-> {}]]
  <2>1. CASE u = u0 /\ k = k0
    <3>1. Records(u, k)' = {}
      BY <1>2, <1>4, <2>1 DEF Records
    <3>2. Pending(u, k)' \subseteq Procs
      BY DEF Pending
    <3>3. /\ IsFiniteSet(Pending(u, k)')
          /\ Cardinality(Pending(u, k)') <= Cardinality(Procs)
      BY <3>2, ProcsAssumption, FS_Subset
    <3>4. Cardinality(Pending(u, k)') \in Nat
      BY <3>3, FS_CardinalityType
    <3>5. QED
      BY <3>1, <3>3, <3>4, FS_EmptySet
  <2>2. CASE ~(u = u0 /\ k = k0)
    <3>1. Pending(u, k)' \subseteq Pending(u, k)
      BY <1>4, <2>2 DEF Pending, At, IInv, TypeOK
    <3>2. QED
      BY <1>2, <3>1, FewerRecords
  <2>3. QED
    BY <2>1, <2>2
<1>5. QED
  BY <1>3, <1>4 DEF IngestLookup, Begin

\* An INSERT turns a waiting request into a record, or ends it.
LEMMA DupCommit ==
  ASSUME IInv, DupOK, NEW p \in Procs, NEW d \in Docs, IngestCommit(p, d)
  PROVE  DupOK'
<1>1. /\ deleted' = deleted /\ d \notin Rows /\ At(p, "insert")
      /\ req'[p] = Idle /\ \A q \in Procs \ {p} : req'[q] = req[q]
  BY DEF IngestCommit, Finish, IInv, TypeOK
<1> SUFFICES ASSUME NEW u \in Users, NEW k \in Keys
             PROVE  /\ IsFiniteSet(Records(u, k)')
                    /\ Cardinality(Records(u, k)') + Cardinality(Pending(u, k)')
                            <= Cardinality(Procs)
  BY DEF DupOK
<1>2. Pending(u, k)' = Pending(u, k) \ {p}
  BY <1>1 DEF Pending, At, Idle
<1>3. CASE UNCHANGED <<owner, key>>
  <2>1. Records(u, k)' = Records(u, k)
    BY <1>1, <1>3 DEF Records, With, Live, Rows
  <2>2. QED
    BY <1>2, <2>1, FewerRecords
<1>4. CASE /\ owner' = [owner EXCEPT ![d] = req[p].user]
           /\ key' = [key EXCEPT ![d] = req[p].key]
  <2>1. /\ owner'[d] = req[p].user /\ key'[d] = req[p].key
        /\ \A x \in Docs \ {d} : owner'[x] = owner[x] /\ key'[x] = key[x]
    BY <1>4 DEF IInv, TypeOK
  <2>2. d \notin deleted /\ d \notin Records(u, k)
    BY <1>1 DEF IInv, TypeOK, Records, With
  <2>3. CASE req[p].user = u /\ req[p].key = k
    <3>1. Records(u, k)' = Records(u, k) \cup {d}
      BY <1>1, <2>1, <2>2, <2>3, DocumentsAssumption DEF Records, With, Live, Rows
    <3>2. p \in Pending(u, k)
      BY <1>1, <2>3 DEF Pending
    <3>3. IsFiniteSet(Pending(u, k)) /\ IsFiniteSet(Records(u, k))
      BY ProcsAssumption, FS_Subset DEF Pending, DupOK
    <3>4. /\ IsFiniteSet(Records(u, k)')
          /\ Cardinality(Records(u, k)') = Cardinality(Records(u, k)) + 1
      BY <2>2, <3>1, <3>3, FS_AddElement
    <3>5. Cardinality(Pending(u, k)') = Cardinality(Pending(u, k)) - 1
      BY <1>2, <3>2, <3>3, FS_RemoveElement
    <3>6. Cardinality(Pending(u, k)) \in Nat /\ Cardinality(Records(u, k)) \in Nat
      BY <3>3, FS_CardinalityType
    <3>7. Cardinality(Records(u, k)) + Cardinality(Pending(u, k)) <= Cardinality(Procs)
      BY DEF DupOK
    <3>8. QED
      BY <3>4, <3>5, <3>6, <3>7
  <2>4. CASE ~(req[p].user = u /\ req[p].key = k)
    <3>1. Records(u, k)' \subseteq Records(u, k)
      BY <1>1, <2>1, <2>4 DEF Records, With, Live, Rows
    <3>2. QED
      BY <1>2, <3>1, FewerRecords
  <2>5. QED
    BY <2>3, <2>4
<1>5. QED
  BY <1>3, <1>4 DEF IngestCommit

LEMMA DupStep ==
  ASSUME IInv, DupOK, [Next]_vars
  PROVE  DupOK'
<1>1. ASSUME UNCHANGED <<owner, key>>, deleted \subseteq deleted',
             \A q \in Procs : req'[q] = req[q] \/ req'[q].step # "insert"
      PROVE  DupOK'
  <2>1. ASSUME NEW u \in Users, NEW k \in Keys
        PROVE  /\ Records(u, k)' \subseteq Records(u, k)
               /\ Pending(u, k)' \subseteq Pending(u, k)
    BY <1>1 DEF Records, With, Live, Rows, Pending, At
  <2>2. QED
    BY <2>1, FewerRecords DEF DupOK
<1>2. ASSUME NEW p \in Procs, UNCHANGED <<owner, key>>, deleted \subseteq deleted',
             \E r : req' = [req EXCEPT ![p] = r] /\ r.step # "insert"
      PROVE  DupOK'
  BY <1>1, <1>2 DEF IInv, TypeOK
<1>3. ASSUME NEW p \in Procs, \E u \in Users, d \in Docs : DeleteLookup(p, u, d)
      PROVE  DupOK'
  <2>1. /\ UNCHANGED <<owner, key, deleted>>
        /\ \E r : r.step = "delete" /\ req' = [req EXCEPT ![p] = r]
    BY <1>3 DEF DeleteLookup, Begin, documents
  <2>2. QED
    BY <1>2, <2>1
<1>4. ASSUME NEW p \in Procs,
             \E u \in Users, kind \in Kinds, D \in SUBSET Docs : MakeLookup(p, u, kind, D)
      PROVE  DupOK'
  <2>1. /\ UNCHANGED <<owner, key, deleted>>
        /\ \E r : r.step = "make" /\ req' = [req EXCEPT ![p] = r]
    BY <1>4 DEF MakeLookup, Begin, documents
  <2>2. QED
    BY <1>2, <2>1
<1>5. Idle.step # "insert"
  BY DEF Idle
<1>6. ASSUME NEW p \in Procs, NEW i \in Items, MakeCommit(p, i)
      PROVE  DupOK'
  <2>1. /\ UNCHANGED <<owner, key, deleted>>
        /\ \/ req' = [req EXCEPT ![p] = Idle]
           \/ \E r : r.step = "cards" /\ req' = [req EXCEPT ![p] = r]
    BY <1>6 DEF MakeCommit, Finish, documents
  <2>2. QED
    BY <1>2, <1>5, <2>1
<1>7. ASSUME NEW p \in Procs, DeleteCommit(p) \/ CardsCommit(p) \/ Abort(p)
      PROVE  DupOK'
  <2>1. /\ UNCHANGED <<owner, key>> /\ deleted \subseteq deleted'
        /\ req' = [req EXCEPT ![p] = Idle]
    BY <1>7 DEF DeleteCommit, CardsCommit, Abort, Finish, documents
  <2>2. QED
    BY <1>2, <1>5, <2>1
<1>8. CASE UNCHANGED vars
  BY <1>1, <1>8 DEF vars, documents
<1>9. QED
  BY <1>3, <1>4, <1>6, <1>7, <1>8, DupLookup, DupCommit DEF Next

\* A key has at most as many live records as requests are in flight, whether the
\* database has the unique index or not.
THEOREM FewRecords == Spec => []FewDuplicates
<1>1. Init => DupOK
  <2> SUFFICES ASSUME Init, NEW u \in Users, NEW k \in Keys
               PROVE  /\ IsFiniteSet(Records(u, k))
                      /\ Cardinality(Records(u, k)) + Cardinality(Pending(u, k))
                              <= Cardinality(Procs)
    BY DEF DupOK
  <2>1. Records(u, k) = {} /\ Pending(u, k) = {}
    BY DEF Init, Records, With, Rows, Pending, At, Idle
  <2>2. Cardinality(Procs) \in Nat
    BY ProcsAssumption, FS_CardinalityType
  <2>3. QED
    BY <2>1, <2>2, FS_EmptySet
<1>2. DupOK => FewDuplicates
  <2> SUFFICES ASSUME DupOK, NEW u \in Users, NEW k \in Keys
               PROVE  Cardinality(Records(u, k)) <= Cardinality(Procs)
    BY DEF FewDuplicates, Records
  <2>1. IsFiniteSet(Records(u, k)) /\ IsFiniteSet(Pending(u, k))
    BY ProcsAssumption, FS_Subset DEF Pending, DupOK
  <2>2. /\ Cardinality(Records(u, k)) \in Nat /\ Cardinality(Pending(u, k)) \in Nat
        /\ Cardinality(Procs) \in Nat
    BY <2>1, ProcsAssumption, FS_CardinalityType
  <2>3. Cardinality(Records(u, k)) + Cardinality(Pending(u, k)) <= Cardinality(Procs)
    BY DEF DupOK
  <2>4. QED
    BY <2>2, <2>3
<1>3. QED
  BY <1>1, <1>2, DupStep, Inductive, PTL DEF Spec
=============================================================================
