----------------------------- MODULE Chat_proofs -----------------------------
(***************************************************************************)
(* Proofs about the chat tables, for any number of asks, retries and       *)
(* faults: whatever is stopped, cancelled, retried or lost, replies follow *)
(* their question, and what the view shows as complete is stored once; as  *)
(* long as streams end well, the conversation alternates in one session.   *)
(***************************************************************************)
EXTENDS Chat, SequenceTheorems, FiniteSetTheorems, TLAPS

Question(r) == [role |-> "user", by |-> r]
Reply(r) == [role |-> "assistant", by |-> r]

\* In a list of messages: r has asked; r has asked at most; what answers r
\* follows its question; r has one full reply and no other.
Asked(q, r) == \E i \in 1 .. Len(q) : q[i] = Question(r)
Silent(q, r) == \A i \in 1 .. Len(q) : q[i].by = r => q[i].role = "user"
Answered(q, r) ==
    \A i \in 1 .. Len(q) :
        q[i].by = r /\ q[i].role # "user" => \E j \in 1 .. i - 1 : q[j] = Question(r)
Once(q, r) ==
    \E i \in 1 .. Len(q) :
        /\ q[i] = Reply(r)
        /\ \A j \in 1 .. Len(q) : q[j].by = r /\ q[j].role # "user" => j = i

Request == [step : Steps, session : Nat, seen : Nat, attempt : Nat,
            answer : {"none", "ok", "error"}]
Run == [phase : {"none", "stream", "fallback", "done"}, session : Nat,
        stopped : BOOLEAN, shown : {"none", "stream", "full"}]

TypesOK ==
    /\ log \in Seq(Seq(Message))
    /\ req \in [Requests -> Request]
    /\ run \in [Asks -> Run]
    /\ view.session \in 0 .. Len(log)
    /\ DOMAIN view = {"session", "loading", "streaming", "ref"}

\* What request r may have left in the session s.
LogOK(s, r) ==
    /\ Answered(log[s], r)
    /\ req[r].step # "over" => Silent(log[s], r)

\* Request r against the log of its session.
RequestOK(r) ==
    /\ req[r].session \in 0 .. Len(log)
    /\ req[r].step \in {"history", "model", "store"} =>
         req[r].session # 0 /\ Asked(log[req[r].session], r)
    /\ req[r].answer = "ok" =>
         req[r].step = "over" /\ req[r].session # 0 /\ Once(log[req[r].session], r)

\* A request is sent once, and what the view shows was answered.
RunOK(a) ==
    /\ run[a].session \in 0 .. Len(log)
    /\ run[a].phase = "none" => req[<<a, "stream">>].step = "unsent"
    /\ run[a].phase \in {"none", "stream"} => req[<<a, "full">>].step = "unsent"
    /\ run[a].shown # "none" => req[<<a, run[a].shown>>].answer = "ok"

IInv ==
    /\ TypesOK
    /\ \A s \in 1 .. Len(log), r \in Requests : LogOK(s, r)
    /\ \A r \in Requests : RequestOK(r)
    /\ \A a \in Asks : RunOK(a)

-----------------------------------------------------------------------------
(* Lists.                                                                  *)

\* What an append keeps and adds.
LEMMA Appended ==
  ASSUME NEW q \in Seq(Message), NEW t \in Seq(Message), NEW r
  PROVE  /\ q \o t \in Seq(Message)
         /\ Asked(q, r) \/ Asked(t, r) => Asked(q \o t, r)
         /\ Silent(q, r) /\ Silent(t, r) => Silent(q \o t, r)
         /\ Answered(q, r) /\ (Silent(t, r) \/ Asked(q, r)) => Answered(q \o t, r)
         /\ Once(q, r) /\ Silent(t, r) => Once(q \o t, r)
         /\ Silent(q, r) /\ Once(t, r) => Once(q \o t, r)
<1> DEFINE u == q \o t
<1>1. /\ u \in Seq(Message) /\ Len(q) \in Nat /\ Len(t) \in Nat /\ Len(u) = Len(q) + Len(t)
      /\ \A i \in 1 .. Len(q) : u[i] = q[i]
      /\ \A i \in 1 .. Len(t) : u[Len(q) + i] = t[i]
  BY ConcatProperties, LenProperties
<1>2. ASSUME NEW i \in 1 .. Len(u), i \notin 1 .. Len(q)
      PROVE  /\ i - Len(q) \in 1 .. Len(t) /\ i = Len(q) + (i - Len(q))
             /\ u[i] = t[i - Len(q)]
  <2>1. i - Len(q) \in 1 .. Len(t) /\ i = Len(q) + (i - Len(q))
    BY <1>1, <1>2
  <2>2. QED
    BY <1>1, <2>1
<1> HIDE DEF u
<1>3. Asked(q, r) \/ Asked(t, r) => Asked(u, r)
  <2>1. ASSUME Asked(t, r) PROVE Asked(u, r)
    <3>1. PICK i \in 1 .. Len(t) : t[i] = Question(r)
      BY <2>1 DEF Asked
    <3>2. Len(q) + i \in 1 .. Len(u)
      BY <1>1
    <3>3. QED
      BY <1>1, <3>1, <3>2 DEF Asked
  <2>2. QED
    BY <1>1, <2>1 DEF Asked
<1>4. Silent(q, r) /\ Silent(t, r) => Silent(u, r)
  <2> SUFFICES ASSUME Silent(q, r), Silent(t, r), NEW i \in 1 .. Len(u), u[i].by = r
               PROVE  u[i].role = "user"
    BY DEF Silent
  <2>1. CASE i \in 1 .. Len(q)
    BY <1>1, <2>1 DEF Silent
  <2>2. CASE i \notin 1 .. Len(q)
    BY <1>2, <2>2 DEF Silent
  <2>3. QED
    BY <2>1, <2>2
<1>5. Answered(q, r) /\ (Silent(t, r) \/ Asked(q, r)) => Answered(u, r)
  <2> SUFFICES ASSUME Answered(q, r), Silent(t, r) \/ Asked(q, r),
                      NEW i \in 1 .. Len(u), u[i].by = r, u[i].role # "user"
               PROVE  \E j \in 1 .. i - 1 : u[j] = Question(r)
    BY DEF Answered
  <2>1. CASE i \in 1 .. Len(q)
    <3>1. PICK j \in 1 .. i - 1 : q[j] = Question(r)
      BY <1>1, <2>1 DEF Answered
    <3>2. j \in 1 .. Len(q)
      BY <1>1, <2>1
    <3>3. QED
      BY <1>1, <3>1, <3>2
  <2>2. CASE i \notin 1 .. Len(q)
    <3>1. Asked(q, r)
      BY <1>2, <2>2 DEF Silent
    <3>2. PICK j \in 1 .. Len(q) : q[j] = Question(r)
      BY <3>1 DEF Asked
    <3>3. j \in 1 .. i - 1 /\ u[j] = Question(r)
      BY <1>1, <2>2, <3>2
    <3>4. QED
      BY <3>3
  <2>3. QED
    BY <2>1, <2>2
<1>6. ASSUME Once(q, r), Silent(t, r) PROVE Once(u, r)
  <2>1. PICK i \in 1 .. Len(q) : /\ q[i] = Reply(r)
                                 /\ \A j \in 1 .. Len(q) : q[j].by = r /\ q[j].role # "user" => j = i
    BY <1>6 DEF Once
  <2>2. i \in 1 .. Len(u) /\ u[i] = Reply(r)
    BY <1>1, <2>1
  <2>3. ASSUME NEW j \in 1 .. Len(u), u[j].by = r, u[j].role # "user" PROVE j = i
    <3>1. CASE j \in 1 .. Len(q)
      BY <1>1, <2>1, <2>3, <3>1
    <3>2. CASE j \notin 1 .. Len(q)
      BY <1>2, <1>6, <2>3, <3>2 DEF Silent
    <3>3. QED
      BY <3>1, <3>2
  <2>4. QED
    BY <2>2, <2>3 DEF Once
<1>7. ASSUME Silent(q, r), Once(t, r) PROVE Once(u, r)
  <2>1. PICK i \in 1 .. Len(t) : /\ t[i] = Reply(r)
                                 /\ \A j \in 1 .. Len(t) : t[j].by = r /\ t[j].role # "user" => j = i
    BY <1>7 DEF Once
  <2>2. Len(q) + i \in 1 .. Len(u) /\ u[Len(q) + i] = Reply(r)
    BY <1>1, <2>1
  <2>3. ASSUME NEW j \in 1 .. Len(u), u[j].by = r, u[j].role # "user" PROVE j = Len(q) + i
    <3>1. CASE j \in 1 .. Len(q)
      BY <1>1, <1>7, <2>3, <3>1 DEF Silent
    <3>2. CASE j \notin 1 .. Len(q)
      BY <1>1, <1>2, <2>1, <2>3, <3>2
    <3>3. QED
      BY <3>1, <3>2
  <2>4. QED
    BY <2>2, <2>3 DEF Once
<1>8. QED
  BY <1>1, <1>3, <1>4, <1>5, <1>6, <1>7 DEF u

\* The lists a handler stores.
LEMMA Entries ==
  ASSUME NEW r \in Requests
  PROVE  /\ << >> \in Seq(Message) /\ Silent(<< >>, r)
         /\ <<Question(r)>> \in Seq(Message)
         /\ Silent(<<Question(r)>>, r) /\ Asked(<<Question(r)>>, r)
         /\ Full(r) \in Seq(Message) /\ Once(Full(r), r)
<1>1. Question(r) \in Message /\ Reply(r) \in Message
  BY DEF Question, Reply, Message
<1>2. Once(Full(r), r)
  BY DEF Once, Full, Reply
<1>3. QED
  BY <1>1, <1>2 DEF Silent, Asked, Question, Full, Reply

-----------------------------------------------------------------------------
(* The tables.                                                             *)

\* Nothing that concerns other requests than p is lost or added.
Kept(p) ==
    /\ log' \in Seq(Seq(Message)) /\ Len(log) <= Len(log')
    /\ \A s \in 1 .. Len(log'), r \in Requests \ {p} :
         IF s \in 1 .. Len(log)
         THEN /\ Answered(log[s], r) => Answered(log'[s], r)
              /\ Silent(log[s], r) => Silent(log'[s], r)
              /\ Asked(log[s], r) => Asked(log'[s], r)
              /\ Once(log[s], r) => Once(log'[s], r)
         ELSE Answered(log'[s], r) /\ Silent(log'[s], r)

LEMMA NothingStored ==
  ASSUME TypesOK, NEW p, UNCHANGED log
  PROVE  Kept(p)
<1>1. log \in Seq(Seq(Message)) /\ Len(log) \in Nat
  BY DEF TypesOK
<1>2. QED
  BY <1>1 DEF Kept

LEMMA Stored_ ==
  ASSUME TypesOK, NEW p, NEW s \in 1 .. Len(log), NEW entries \in Seq(Message),
         \A r \in Requests \ {p} : Silent(entries, r), Store(s, entries)
  PROVE  /\ Kept(p) /\ Len(log') = Len(log)
         /\ log[s] \in Seq(Message) /\ log'[s] = log[s] \o entries
         /\ \A t \in 1 .. Len(log) \ {s} : log'[t] = log[t]
<1>1. /\ log \in Seq(Seq(Message)) /\ Len(log) \in Nat
      /\ \A t \in 1 .. Len(log) : log[t] \in Seq(Message)
  BY ElementOfSeq DEF TypesOK
<1>2. log[s] \o entries \in Seq(Message)
  BY <1>1, Appended
<1>3. /\ log' \in Seq(Seq(Message)) /\ Len(log') = Len(log)
      /\ log'[s] = log[s] \o entries
      /\ \A t \in 1 .. Len(log) \ {s} : log'[t] = log[t]
  BY <1>1, <1>2, ExceptSeq DEF Store
<1>4. ASSUME NEW r \in Requests \ {p}
      PROVE  /\ Answered(log[s], r) => Answered(log'[s], r)
             /\ Silent(log[s], r) => Silent(log'[s], r)
             /\ Asked(log[s], r) => Asked(log'[s], r)
             /\ Once(log[s], r) => Once(log'[s], r)
  BY <1>1, <1>3, Appended
<1>5. Kept(p)
  <2>1. ASSUME NEW t \in 1 .. Len(log'), NEW r \in Requests \ {p}
        PROVE  /\ t \in 1 .. Len(log)
               /\ Answered(log[t], r) => Answered(log'[t], r)
               /\ Silent(log[t], r) => Silent(log'[t], r)
               /\ Asked(log[t], r) => Asked(log'[t], r)
               /\ Once(log[t], r) => Once(log'[t], r)
    BY <1>3, <1>4
  <2>2. QED
    BY <1>1, <1>3, <2>1 DEF Kept
<1>6. QED
  BY <1>1, <1>3, <1>5

\* A step of p's handler: what must be shown of p itself.
LEMMA HandlerStep ==
  ASSUME IInv, NEW p \in Requests, NEW x \in Request, Kept(p),
         req' = [req EXCEPT ![p] = x], UNCHANGED <<view, run>>,
         req[p].step \notin {"unsent", "over"},
         RequestOK(p)', \A s \in 1 .. Len(log') : LogOK(s, p)'
  PROVE  IInv'
<1> USE DEF IInv
<1>1. /\ req'[p] = x /\ \A r \in Requests \ {p} : req'[r] = req[r]
      /\ req' \in [Requests -> Request]
      /\ Len(log) \in Nat /\ Len(log') \in Nat /\ Len(log) <= Len(log')
      /\ log' \in Seq(Seq(Message))
  BY DEF TypesOK, Kept
<1>2. TypesOK'
  BY <1>1 DEF TypesOK
<1>3. ASSUME NEW s \in 1 .. Len(log'), NEW r \in Requests \ {p} PROVE LogOK(s, r)'
  <2>1. req'[r] = req[r]
    BY <1>1
  <2>2. CASE s \in 1 .. Len(log)
    BY <2>1, <2>2 DEF LogOK, Kept
  <2>3. CASE s \notin 1 .. Len(log)
    BY <2>3 DEF LogOK, Kept
  <2>4. QED
    BY <2>2, <2>3
<1>4. ASSUME NEW r \in Requests \ {p} PROVE RequestOK(r)'
  <2>1. req'[r] = req[r] /\ RequestOK(r)
    BY <1>1
  <2>2. CASE req[r].session = 0
    BY <1>1, <2>1, <2>2 DEF RequestOK
  <2>3. CASE req[r].session # 0
    <3>1. req[r].session \in 1 .. Len(log) /\ req[r].session \in 1 .. Len(log')
      BY <1>1, <2>1, <2>3 DEF RequestOK
    <3>2. /\ Asked(log[req[r].session], r) => Asked(log'[req[r].session], r)
          /\ Once(log[req[r].session], r) => Once(log'[req[r].session], r)
      BY <3>1 DEF Kept
    <3>3. QED
      BY <1>1, <2>1, <3>1, <3>2 DEF RequestOK
  <2>4. QED
    BY <2>2, <2>3
<1>5. ASSUME NEW a \in Asks PROVE RunOK(a)'
  <2>1. <<a, "stream">> \in Requests /\ <<a, "full">> \in Requests
    BY DEF Requests
  <2>2. RunOK(a) /\ run[a].session \in Nat /\ run[a].shown \in {"none", "stream", "full"}
    BY DEF TypesOK, Run
  <2>3. req[p].answer # "ok"
    BY DEF RequestOK
  <2>4. run[a].shown # "none" => <<a, run[a].shown>> # p /\ <<a, run[a].shown>> \in Requests
    BY <2>1, <2>2, <2>3 DEF RunOK
  <2>5. \A k \in {"stream", "full"} : req[<<a, k>>].step = "unsent" => <<a, k>> # p
    OBVIOUS
  <2>6. QED
    BY <1>1, <2>1, <2>2, <2>4, <2>5 DEF RunOK
<1>6. QED
  BY <1>2, <1>3, <1>4, <1>5

LEMMA InitIInv == Init => IInv
<1> SUFFICES ASSUME Init PROVE IInv
  OBVIOUS
<1>1. log = << >> /\ Len(log) = 0
  BY DEF Init
<1>2. TypesOK
  BY <1>1 DEF Init, TypesOK, Request, Run, Steps
<1>3. \A r \in Requests : RequestOK(r)
  BY <1>1 DEF Init, RequestOK
<1>4. \A a \in Asks : RunOK(a)
  BY <1>1 DEF Init, RunOK, Requests
<1>5. QED
  BY <1>1, <1>2, <1>3, <1>4 DEF IInv

-----------------------------------------------------------------------------
(* The handlers.                                                           *)

LEMMA OpenSessionStep ==
  ASSUME IInv, NEW p \in Requests, OpenSession(p)
  PROVE  IInv'
<1> USE DEF IInv
<1> DEFINE x == [req[p] EXCEPT !.session = Len(log) + 1]
<1>1. /\ req[p].step = "open" /\ log' = Append(log, << >>)
      /\ req' = [req EXCEPT ![p] = x] /\ UNCHANGED <<view, run>>
  BY DEF OpenSession, At
<1>2. /\ req[p] \in Request /\ log \in Seq(Seq(Message)) /\ Len(log) \in Nat
      /\ << >> \in Seq(Message)
  BY DEF TypesOK
<1>3. /\ x \in Request /\ x.step = "open" /\ x.session = Len(log) + 1 /\ x.answer = req[p].answer
  <2>1. Len(log) + 1 \in Nat
    BY <1>2
  <2> DEFINE n == Len(log) + 1
  <2> HIDE DEF n
  <2>2. [req[p] EXCEPT !.session = n] \in Request
    BY <1>2, <2>1 DEF Request, n
  <2>3. /\ [req[p] EXCEPT !.session = n].step = req[p].step
        /\ [req[p] EXCEPT !.session = n].session = n
        /\ [req[p] EXCEPT !.session = n].answer = req[p].answer
    BY <1>2 DEF Request
  <2>4. QED
    BY <1>1, <2>2, <2>3 DEF n
<1> HIDE DEF x
<1>4. /\ log' \in Seq(Seq(Message)) /\ Len(log') = Len(log) + 1
      /\ log'[Len(log) + 1] = << >>
      /\ \A s \in 1 .. Len(log) : log'[s] = log[s]
  BY <1>1, <1>2, AppendProperties
<1>5. \A s \in 1 .. Len(log') : s \in 1 .. Len(log) \/ s = Len(log) + 1
  BY <1>2, <1>4
<1>6. \A r : Answered(<< >>, r) /\ Silent(<< >>, r)
  BY DEF Answered, Silent
<1>7. Kept(p)
  <2>1. ASSUME NEW s \in 1 .. Len(log'), s \in 1 .. Len(log) PROVE log'[s] = log[s]
    BY <1>4, <2>1
  <2>2. ASSUME NEW s \in 1 .. Len(log'), s \notin 1 .. Len(log) PROVE log'[s] = << >>
    BY <1>4, <1>5, <2>2
  <2>3. Len(log) <= Len(log')
    BY <1>2, <1>4
  <2>4. QED
    BY <1>4, <1>6, <2>1, <2>2, <2>3 DEF Kept
<1>8. req'[p] = x
  BY <1>1 DEF TypesOK
<1>9. RequestOK(p)'
  <2>1. x.answer # "ok"
    BY <1>1, <1>3 DEF RequestOK
  <2>2. QED
    BY <1>2, <1>3, <1>4, <1>8, <2>1 DEF RequestOK
<1>10. ASSUME NEW s \in 1 .. Len(log') PROVE LogOK(s, p)'
  <2>1. CASE s \in 1 .. Len(log)
    BY <1>1, <1>3, <1>4, <1>8, <2>1 DEF LogOK
  <2>2. CASE s = Len(log) + 1
    BY <1>4, <1>6, <1>8, <2>2 DEF LogOK
  <2>3. QED
    BY <1>5, <2>1, <2>2
<1>11. QED
  BY <1>1, <1>3, <1>7, <1>9, <1>10, HandlerStep

\* A step that stores nothing.
LEMMA StepsOn ==
  ASSUME IInv, NEW p \in Requests, NEW x \in Request,
         req' = [req EXCEPT ![p] = x], UNCHANGED <<log, view, run>>,
         req[p].step \notin {"unsent", "over"},
         x.session = req[p].session, x.step # "unsent",
         x.step \in {"history", "model", "store"} => req[p].step \in {"history", "model", "store"},
         x.answer # "ok"
  PROVE  IInv'
<1> USE DEF IInv
<1>1. Kept(p)
  BY NothingStored
<1>2. req'[p] = x
  BY DEF TypesOK
<1>3. RequestOK(p)'
  BY <1>2 DEF RequestOK
<1>4. \A s \in 1 .. Len(log') : LogOK(s, p)'
  BY <1>2 DEF LogOK
<1>5. QED
  BY <1>1, <1>3, <1>4, HandlerStep

\* A step that stores entries of p in its session.
LEMMA StoreStep ==
  ASSUME IInv, NEW p \in Requests, NEW x \in Request, NEW entries \in Seq(Message),
         req' = [req EXCEPT ![p] = x], Store(req[p].session, entries), UNCHANGED <<view, run>>,
         req[p].step \notin {"unsent", "over"}, req[p].session # 0,
         x.session = req[p].session,
         \A r \in Requests \ {p} : Silent(entries, r),
         Silent(entries, p) \/ (x.step = "over" /\ req[p].step \in {"model", "store"}),
         x.step \in {"history", "model", "store"} =>
             Asked(entries, p) \/ req[p].step \in {"history", "model", "store"},
         x.answer = "ok" => x.step = "over" /\ Once(entries, p)
  PROVE  IInv'
<1> USE DEF IInv
<1> DEFINE s == req[p].session
<1>1. req'[p] = x /\ s \in 1 .. Len(log) /\ TypesOK
  BY DEF TypesOK, RequestOK, Request
<1> HIDE DEF s
<1>2. /\ Kept(p) /\ Len(log') = Len(log)
      /\ log[s] \in Seq(Message) /\ log'[s] = log[s] \o entries
      /\ \A t \in 1 .. Len(log) \ {s} : log'[t] = log[t]
  <2>1. Store(s, entries)
    BY DEF s
  <2>2. QED
    BY <1>1, <2>1, Stored_
<1>3. /\ Asked(log[s], p) \/ Asked(entries, p) => Asked(log'[s], p)
      /\ Silent(log[s], p) /\ Silent(entries, p) => Silent(log'[s], p)
      /\ Answered(log[s], p) /\ (Silent(entries, p) \/ Asked(log[s], p)) => Answered(log'[s], p)
      /\ Silent(log[s], p) /\ Once(entries, p) => Once(log'[s], p)
  BY <1>2, Appended
<1>4. Silent(log[s], p) /\ Answered(log[s], p)
  BY <1>1 DEF LogOK
<1>5. req[p].step \in {"history", "model", "store"} => Asked(log[s], p)
  BY DEF RequestOK, s
<1>6. RequestOK(p)'
  <2>1. req'[p].session = s /\ s # 0 /\ s \in 0 .. Len(log')
    BY <1>1, <1>2 DEF s
  <2>2. QED
    BY <1>1, <1>3, <1>4, <1>5, <2>1 DEF RequestOK
<1>7. ASSUME NEW t \in 1 .. Len(log') PROVE LogOK(t, p)'
  <2>1. CASE t = s
    BY <1>1, <1>3, <1>4, <1>5, <2>1 DEF LogOK
  <2>2. CASE t # s
    BY <1>1, <1>2, <2>2 DEF LogOK
  <2>3. QED
    BY <2>1, <2>2
<1>8. QED
  BY <1>2, <1>6, <1>7, HandlerStep

LEMMA InsertQuestionStep ==
  ASSUME IInv, NEW p \in Requests, InsertQuestion(p)
  PROVE  IInv'
<1> DEFINE x == [req[p] EXCEPT !.step = "history"]
           entries == <<Question(p)>>
<1>1. /\ req[p].step = "open" /\ req[p].session # 0 /\ Store(req[p].session, entries)
      /\ req' = [req EXCEPT ![p] = x] /\ UNCHANGED <<view, run>>
  BY DEF InsertQuestion, At, GoTo, Question
<1>2. x \in Request /\ x.session = req[p].session /\ x.step = "history" /\ x.answer = req[p].answer
  BY DEF IInv, TypesOK, Request, Steps
<1>3. x.answer # "ok"
  BY <1>1, <1>2 DEF IInv, RequestOK
<1>4. /\ entries \in Seq(Message) /\ Silent(entries, p) /\ Asked(entries, p)
      /\ \A r \in Requests \ {p} : Silent(entries, r)
  BY Entries DEF Silent, Question
<1> HIDE DEF x, entries
<1>5. QED
  BY <1>1, <1>2, <1>3, <1>4, StoreStep

LEMMA ReadHistoryStep ==
  ASSUME IInv, NEW p \in Requests, ReadHistory(p)
  PROVE  IInv'
<1> DEFINE x == [req[p] EXCEPT !.step = "model", !.seen = Len(log[req[p].session])]
<1>1. /\ req[p].step = "history" /\ UNCHANGED <<log, view, run>>
      /\ req' = [req EXCEPT ![p] = x]
  BY DEF ReadHistory, At
<1>2. req[p] \in Request /\ RequestOK(p) /\ log \in Seq(Seq(Message))
  BY DEF IInv, TypesOK
<1>3. Len(log[req[p].session]) \in Nat
  <2>1. req[p].session \in 1 .. Len(log)
    BY <1>1, <1>2 DEF RequestOK
  <2>2. log[req[p].session] \in Seq(Message)
    BY <1>2, <2>1, ElementOfSeq
  <2>3. QED
    BY <2>2
<1>4. /\ x \in Request /\ x.session = req[p].session /\ x.step = "model"
      /\ x.answer = req[p].answer
  BY <1>2, <1>3 DEF Request, Steps
<1>5. x.answer # "ok"
  BY <1>1, <1>2, <1>4 DEF RequestOK
<1> HIDE DEF x
<1>6. QED
  BY <1>1, <1>4, <1>5, StepsOn

\* The model is called again, or its answer is about to be stored.
LEMMA ModelStep ==
  ASSUME IInv, NEW p \in Requests, CallModel(p) \/ StreamEnds(p)
  PROVE  IInv'
<1>1. req[p].step = "model" /\ UNCHANGED <<log, view, run>>
  BY DEF CallModel, StreamEnds, At
<1>2. req[p] \in Request /\ req[p].answer # "ok"
  BY <1>1 DEF IInv, TypesOK, RequestOK
<1>3. CASE GoTo(p, "store")
  <2> DEFINE x == [req[p] EXCEPT !.step = "store"]
  <2>1. /\ x \in Request /\ x.session = req[p].session /\ x.step = "store" /\ x.answer = req[p].answer
        /\ req' = [req EXCEPT ![p] = x]
    BY <1>2, <1>3 DEF Request, Steps, GoTo
  <2> HIDE DEF x
  <2>2. QED
    BY <1>1, <1>2, <2>1, StepsOn
<1>4. CASE req' = [req EXCEPT ![p].attempt = @ + 1]
  <2> DEFINE x == [req[p] EXCEPT !.attempt = @ + 1]
  <2>1. /\ x \in Request /\ x.session = req[p].session /\ x.step = "model" /\ x.answer = req[p].answer
        /\ req' = [req EXCEPT ![p] = x]
    BY <1>1, <1>2, <1>4 DEF Request, Steps
  <2> HIDE DEF x
  <2>2. QED
    BY <1>1, <1>2, <2>1, StepsOn
<1>5. QED
  BY <1>3, <1>4 DEF CallModel, StreamEnds

\* What is left of a request that is over.
LEMMA Ended ==
  ASSUME IInv, NEW p \in Requests, NEW answer \in {"ok", "error"}, EndWith(p, answer)
  PROVE  \E x \in Request : /\ req' = [req EXCEPT ![p] = x] /\ x.session = req[p].session
                            /\ x.step = "over" /\ x.answer = answer
<1> DEFINE x == [step |-> "over", session |-> req[p].session, seen |-> 0, attempt |-> 0,
                 answer |-> answer]
<1>1. req' = [req EXCEPT ![p] = x] /\ x \in Request
  BY DEF EndWith, IInv, TypesOK, Request, Steps
<1>2. QED
  BY <1>1

LEMMA StoreReplyStep ==
  ASSUME IInv, NEW p \in Requests, StoreReply(p)
  PROVE  IInv'
<1>1. PICK x \in Request : /\ req' = [req EXCEPT ![p] = x] /\ x.session = req[p].session
                           /\ x.step = "over" /\ x.answer = "ok"
  BY Ended DEF StoreReply
<1>2. /\ req[p].step = "store" /\ Store(req[p].session, Full(p)) /\ UNCHANGED <<view, run>>
  BY DEF StoreReply, At
<1>3. req[p].session # 0
  BY <1>2 DEF IInv, RequestOK
<1>4. /\ Full(p) \in Seq(Message) /\ Once(Full(p), p)
      /\ \A r \in Requests \ {p} : Silent(Full(p), r)
  <2>1. \A r \in Requests \ {p} : Silent(Full(p), r)
    BY DEF Silent, Full
  <2>2. QED
    BY <2>1, Entries
<1>5. QED
  BY <1>1, <1>2, <1>3, <1>4, StoreStep

\* Whatever a failing handler leaves is its own, and nothing before the model.
LEMMA LeftoversOK ==
  ASSUME NEW p \in Requests, NEW full \in LateReply(p), NEW partial \in Interrupted(p)
  PROVE  /\ full \o partial \in Seq(Message)
         /\ \A r \in Requests \ {p} : Silent(full \o partial, r)
         /\ req[p].step \notin {"model", "store"} => Silent(full \o partial, p)
<1> DEFINE early == req[p].step \notin {"model", "store"}
<1>1. /\ full \in {<< >>, Full(p)} /\ partial \in {<< >>, Partial(p)}
      /\ early => full = << >> /\ partial = << >>
  BY DEF LateReply, Interrupted, At
<1>2. /\ << >> \in Seq(Message) /\ Full(p) \in Seq(Message) /\ Partial(p) \in Seq(Message)
  BY DEF Full, Partial, Message
<1>3. ASSUME NEW r PROVE Silent(<< >>, r)
  BY DEF Silent
<1>4. ASSUME NEW r \in Requests \ {p} PROVE Silent(Full(p), r) /\ Silent(Partial(p), r)
  BY DEF Full, Partial, Silent
<1> HIDE DEF early
<1>5. full \in Seq(Message) /\ partial \in Seq(Message)
  BY <1>1, <1>2
<1>6. \A r \in Requests \ {p} : Silent(full, r) /\ Silent(partial, r)
  BY <1>1, <1>3, <1>4
<1>7. early => Silent(full, p) /\ Silent(partial, p)
  BY <1>1, <1>3
<1>8. QED
  BY <1>5, <1>6, <1>7, Appended DEF early

LEMMA FailStep ==
  ASSUME IInv, NEW p \in Requests, Fail(p)
  PROVE  IInv'
<1>1. PICK x \in Request : /\ req' = [req EXCEPT ![p] = x] /\ x.session = req[p].session
                           /\ x.step = "over" /\ x.answer = "error"
  BY Ended DEF Fail
<1>2. req[p].step \notin {"unsent", "over"} /\ UNCHANGED <<view, run>>
  BY DEF Fail
<1>3. CASE req[p].session = 0
  BY <1>1, <1>2, <1>3, StepsOn DEF Fail
<1>4. CASE req[p].session # 0
  <2>1. PICK full \in LateReply(p), partial \in Interrupted(p) :
           Store(req[p].session, full \o partial)
    BY <1>4 DEF Fail
  <2> DEFINE entries == full \o partial
  <2>2. /\ entries \in Seq(Message)
        /\ \A r \in Requests \ {p} : Silent(entries, r)
        /\ req[p].step \notin {"model", "store"} => Silent(entries, p)
    BY LeftoversOK
  <2> HIDE DEF entries
  <2>3. Store(req[p].session, entries)
    BY <2>1 DEF entries
  <2>4. QED
    BY <1>1, <1>2, <1>4, <2>2, <2>3, StoreStep
<1>5. QED
  BY <1>3, <1>4

LEMMA ServeStep ==
  ASSUME IInv, NEW p \in Requests, Serve(p)
  PROVE  IInv'
<1>1. CASE NoticeGone(p)
  <2>1. PICK x \in Request : /\ req' = [req EXCEPT ![p] = x] /\ x.session = req[p].session
                             /\ x.step = "over" /\ x.answer = "error"
    BY <1>1, Ended DEF NoticeGone
  <2>2. req[p].step = "model" /\ UNCHANGED <<log, view, run>>
    BY <1>1 DEF NoticeGone, At
  <2>3. QED
    BY <2>1, <2>2, StepsOn
<1>2. QED
  BY <1>1, OpenSessionStep, InsertQuestionStep, ReadHistoryStep, ModelStep, StoreReplyStep
  DEF Serve

-----------------------------------------------------------------------------
(* The view.                                                               *)

\* A request that has not been sent is sent, for a session of the view's.
LEMMA SendStep ==
  ASSUME IInv, NEW a \in Asks, NEW k \in {"stream", "full"}, NEW n \in 0 .. Len(log),
         req[<<a, k>>].step = "unsent", UNCHANGED log,
         req' = [req EXCEPT ![<<a, k>>].step = "open", ![<<a, k>>].session = n]
  PROVE  /\ req' \in [Requests -> Request]
         /\ \A r \in Requests \ {<<a, k>>} : req'[r] = req[r]
         /\ \A s \in 1 .. Len(log'), r \in Requests : LogOK(s, r)'
         /\ \A r \in Requests : RequestOK(r)'
         /\ \A r \in Requests : req[r].answer = "ok" => req'[r] = req[r]
<1> USE DEF IInv
<1> DEFINE p == <<a, k>>
<1>1. p \in Requests /\ n \in Nat
  BY DEF Requests, TypesOK
<1> HIDE DEF p
<1>2. /\ req' \in [Requests -> Request] /\ \A r \in Requests \ {p} : req'[r] = req[r]
      /\ req'[p].step = "open" /\ req'[p].session = n /\ req'[p].answer = req[p].answer
  <2>1. req[p] \in Request /\ req \in [Requests -> Request]
    BY <1>1 DEF TypesOK
  <2>2. req' = [req EXCEPT ![p] = [req[p] EXCEPT !.step = "open", !.session = n]]
    BY <1>1, <2>1 DEF p
  <2> DEFINE x == [req[p] EXCEPT !.step = "open", !.session = n]
  <2>3. x \in Request /\ x.step = "open" /\ x.session = n /\ x.answer = req[p].answer
    BY <1>1, <2>1 DEF Request, Steps
  <2>4. req' = [req EXCEPT ![p] = x]
    BY <2>2
  <2> HIDE DEF x
  <2>5. QED
    BY <1>1, <2>1, <2>3, <2>4
<1>3. req[p].step = "unsent" /\ req[p].answer # "ok"
  BY <1>1 DEF RequestOK, p
<1>4. \A s \in 1 .. Len(log'), r \in Requests : LogOK(s, r)'
  BY <1>2, <1>3 DEF LogOK
<1>5. \A r \in Requests : RequestOK(r)'
  BY <1>2, <1>3 DEF RequestOK
<1>6. QED
  BY <1>2, <1>3, <1>4, <1>5 DEF p

\* A run goes on, with what the view shows answered.
LEMMA RunStep ==
  ASSUME IInv, NEW a \in Asks, NEW x \in Run, run' = [run EXCEPT ![a] = x],
         UNCHANGED <<log, req>>,
         view'.session \in 0 .. Len(log), DOMAIN view' = DOMAIN view,
         x.session = run[a].session, x.phase \notin {"none", "stream"} \/ x.phase = run[a].phase,
         x.shown \in {run[a].shown, "none"} \/ req[<<a, x.shown>>].answer = "ok"
  PROVE  IInv'
<1> USE DEF IInv
<1>1. run'[a] = x /\ \A b \in Asks \ {a} : run'[b] = run[b]
  BY DEF TypesOK
<1>2. TypesOK'
  BY <1>1 DEF TypesOK
<1>3. (\A s \in 1 .. Len(log), r \in Requests : LogOK(s, r))'
  BY DEF LogOK
<1>4. \A r \in Requests : RequestOK(r)'
  BY DEF RequestOK
<1>5. ASSUME NEW b \in Asks PROVE RunOK(b)'
  <2>1. RunOK(b)
    OBVIOUS
  <2>2. CASE b = a
    <3>1. RunOK(a)
      OBVIOUS
    <3>2. /\ x.session \in 0 .. Len(log)
          /\ x.phase = "none" => req[<<a, "stream">>].step = "unsent"
          /\ x.phase \in {"none", "stream"} => req[<<a, "full">>].step = "unsent"
      BY <3>1 DEF RunOK
    <3>3. x.shown # "none" => req[<<a, x.shown>>].answer = "ok"
      BY <3>1 DEF RunOK
    <3>4. QED
      BY <1>1, <2>2, <3>2, <3>3 DEF RunOK
  <2>3. CASE b # a
    BY <1>1, <2>1, <2>3 DEF RunOK
  <2>4. QED
    BY <2>2, <2>3
<1>6. QED
  BY <1>2, <1>3, <1>4, <1>5

\* A click and a fallback each send a request; RunOK is what is left to show.
LEMMA ClickStep ==
  ASSUME IInv, NEW a \in Asks, Send(a)
  PROVE  IInv'
<1> USE DEF IInv
<1>1. /\ run[a].phase = "none" /\ UNCHANGED log
      /\ run' = [run EXCEPT ![a].phase = "stream", ![a].session = view.session]
      /\ req' = [req EXCEPT ![<<a, "stream">>].step = "open",
                            ![<<a, "stream">>].session = view.session]
      /\ view.session \in 0 .. Len(log) /\ view.session \in Nat
      /\ view'.session = view.session /\ DOMAIN view' = DOMAIN view
  BY DEF Send, TypesOK
<1>2. req[<<a, "stream">>].step = "unsent" /\ req[<<a, "full">>].step = "unsent"
  BY <1>1 DEF RunOK
<1>3. /\ req' \in [Requests -> Request]
      /\ \A r \in Requests \ {<<a, "stream">>} : req'[r] = req[r]
      /\ \A s \in 1 .. Len(log'), r \in Requests : LogOK(s, r)'
      /\ \A r \in Requests : RequestOK(r)'
      /\ \A r \in Requests : req[r].answer = "ok" => req'[r] = req[r]
  BY <1>1, <1>2, SendStep
<1>4. /\ run' \in [Asks -> Run] /\ \A b \in Asks \ {a} : run'[b] = run[b]
      /\ run'[a].phase = "stream" /\ run'[a].session = view.session
      /\ run'[a].shown = run[a].shown
  BY <1>1 DEF TypesOK, Run
<1>5. TypesOK'
  BY <1>1, <1>3, <1>4 DEF TypesOK
<1>6. ASSUME NEW b \in Asks PROVE RunOK(b)'
  <2>1. /\ <<b, "stream">> \in Requests /\ <<b, "full">> \in Requests
        /\ run[b].shown \in {"none", "stream", "full"}
    BY DEF Requests, TypesOK, Run
  <2>2. CASE b = a
    <3>1. run[a].shown # "none" => req'[<<a, run[a].shown>>].answer = "ok"
      BY <1>3, <2>1, <2>2 DEF RunOK
    <3>2. req'[<<a, "full">>] = req[<<a, "full">>]
      BY <1>3, <2>1, <2>2
    <3>3. QED
      BY <1>1, <1>2, <1>4, <2>2, <3>1, <3>2 DEF RunOK
  <2>3. CASE b # a
    BY <1>1, <1>3, <1>4, <2>1, <2>3 DEF RunOK
  <2>4. QED
    BY <2>2, <2>3
<1>7. QED
  BY <1>3, <1>5, <1>6

LEMMA FallBackStep ==
  ASSUME IInv, NEW a \in Asks, FallBack(a)
  PROVE  IInv'
<1> USE DEF IInv
<1>1. /\ run[a].phase = "stream" /\ UNCHANGED log
      /\ run' = [run EXCEPT ![a].phase = "fallback"]
      /\ req' = [req EXCEPT ![<<a, "full">>].step = "open",
                            ![<<a, "full">>].session = run[a].session]
      /\ view'.session = view.session /\ DOMAIN view' = DOMAIN view
  BY DEF FallBack, TypesOK
<1>2. req[<<a, "full">>].step = "unsent" /\ run[a].session \in 0 .. Len(log)
  BY <1>1 DEF RunOK
<1>3. /\ req' \in [Requests -> Request]
      /\ \A r \in Requests \ {<<a, "full">>} : req'[r] = req[r]
      /\ \A s \in 1 .. Len(log'), r \in Requests : LogOK(s, r)'
      /\ \A r \in Requests : RequestOK(r)'
      /\ \A r \in Requests : req[r].answer = "ok" => req'[r] = req[r]
  BY <1>1, <1>2, SendStep
<1>4. /\ run' \in [Asks -> Run] /\ \A b \in Asks \ {a} : run'[b] = run[b]
      /\ run'[a].phase = "fallback" /\ run'[a].session = run[a].session
      /\ run'[a].shown = run[a].shown
  BY <1>1 DEF TypesOK, Run
<1>5. TypesOK'
  BY <1>1, <1>3, <1>4 DEF TypesOK
<1>6. ASSUME NEW b \in Asks PROVE RunOK(b)'
  <2>1. /\ <<b, "stream">> \in Requests /\ <<b, "full">> \in Requests
        /\ run[b].shown \in {"none", "stream", "full"}
    BY DEF Requests, TypesOK, Run
  <2>2. CASE b = a
    BY <1>1, <1>2, <1>3, <1>4, <2>1, <2>2 DEF RunOK
  <2>3. CASE b # a
    BY <1>1, <1>3, <1>4, <2>1, <2>3 DEF RunOK
  <2>4. QED
    BY <2>2, <2>3
<1>7. QED
  BY <1>3, <1>5, <1>6

\* The session of an answer is one of the log.
LEMMA AnsweredSession ==
  ASSUME IInv, NEW a \in Asks, NEW k \in {"stream", "full"}
  PROVE  req[<<a, k>>].session \in 0 .. Len(log)
<1>1. <<a, k>> \in Requests
  BY DEF Requests
<1>2. QED
  BY <1>1 DEF IInv, RequestOK

LEMMA ReceiveStep ==
  ASSUME IInv, NEW a \in Asks,
         StreamDone(a) \/ FallbackDone(a) \/ (\E late \in BOOLEAN : FallbackFailed(a, late))
  PROVE  IInv'
<1>1. run[a] \in Run /\ view.session \in 0 .. Len(log)
  BY DEF IInv, TypesOK
<1>2. CASE StreamDone(a)
  <2> DEFINE x == [run[a] EXCEPT !.phase = "done", !.shown = "stream"]
  <2>1. /\ x \in Run /\ x.phase = "done" /\ x.shown = "stream" /\ x.session = run[a].session
    BY <1>1 DEF Run
  <2>2. /\ run' = [run EXCEPT ![a] = x] /\ UNCHANGED <<log, req>>
        /\ req[<<a, "stream">>].answer = "ok"
        /\ view'.session = req[<<a, "stream">>].session /\ DOMAIN view' = DOMAIN view
    BY <1>2 DEF StreamDone, IInv, TypesOK
  <2> HIDE DEF x
  <2>3. QED
    BY <2>1, <2>2, AnsweredSession, RunStep
<1>3. CASE FallbackDone(a)
  <2> DEFINE x == [run[a] EXCEPT !.phase = "done", !.shown = "full"]
  <2>1. /\ x \in Run /\ x.phase = "done" /\ x.shown = "full" /\ x.session = run[a].session
    BY <1>1 DEF Run
  <2>2. /\ run' = [run EXCEPT ![a] = x] /\ UNCHANGED <<log, req>>
        /\ req[<<a, "full">>].answer = "ok"
        /\ view'.session = req[<<a, "full">>].session /\ DOMAIN view' = DOMAIN view
    BY <1>3 DEF FallbackDone, IInv, TypesOK
  <2> HIDE DEF x
  <2>3. QED
    BY <2>1, <2>2, AnsweredSession, RunStep
<1>4. CASE \E late \in BOOLEAN : FallbackFailed(a, late)
  <2> DEFINE x == [run[a] EXCEPT !.phase = "done"]
  <2>1. /\ x \in Run /\ x.phase = "done" /\ x.shown = run[a].shown /\ x.session = run[a].session
    BY <1>1 DEF Run
  <2>2. /\ run' = [run EXCEPT ![a] = x] /\ UNCHANGED <<log, req>>
        /\ view'.session = view.session /\ DOMAIN view' = DOMAIN view
    BY <1>4 DEF FallbackFailed, IInv, TypesOK
  <2> HIDE DEF x
  <2>3. QED
    BY <1>1, <2>1, <2>2, RunStep
<1>5. QED
  BY <1>2, <1>3, <1>4

LEMMA StopStep ==
  ASSUME IInv, Stop
  PROVE  IInv'
<1> USE DEF IInv
<1>1. /\ run' = [run EXCEPT ![view.ref].stopped = TRUE] /\ UNCHANGED <<log, req>>
      /\ view'.session = view.session /\ DOMAIN view' = DOMAIN view
  BY DEF Stop, TypesOK
<1>2. /\ run' \in [Asks -> Run]
      /\ \A a \in Asks : /\ run'[a].phase = run[a].phase /\ run'[a].session = run[a].session
                         /\ run'[a].shown = run[a].shown
  <2> DEFINE x == view.ref
             y == [run[x] EXCEPT !.stopped = TRUE]
  <2>1. run' = [run EXCEPT ![x] = y] /\ run \in [Asks -> Run]
    BY <1>1 DEF TypesOK
  <2>2. x \in Asks => /\ y \in Run /\ y.phase = run[x].phase /\ y.session = run[x].session
                      /\ y.shown = run[x].shown
    BY <2>1 DEF Run
  <2> HIDE DEF x, y
  <2>3. QED
    BY <2>1, <2>2
<1>3. TypesOK'
  BY <1>1, <1>2 DEF TypesOK
<1>4. (\A s \in 1 .. Len(log), r \in Requests : LogOK(s, r))'
  BY <1>1 DEF LogOK
<1>5. \A r \in Requests : RequestOK(r)'
  BY <1>1 DEF RequestOK
<1>6. \A a \in Asks : RunOK(a)'
  BY <1>1, <1>2 DEF RunOK
<1>7. QED
  BY <1>3, <1>4, <1>5, <1>6

LEMMA NextIInv == IInv /\ [Next]_vars => IInv'
<1> SUFFICES ASSUME IInv, [Next]_vars PROVE IInv'
  OBVIOUS
<1>1. ASSUME NEW r \in Requests, Serve(r) \/ Fail(r) PROVE IInv'
  BY <1>1, ServeStep, FailStep
<1>2. ASSUME NEW a \in Asks,
             Send(a) \/ Receive(a) \/ StreamBroken(a) \/ FallbackFailed(a, TRUE)
      PROVE  IInv'
  BY <1>2, ClickStep, FallBackStep, ReceiveStep DEF Receive, StreamFailed, StreamBroken
<1>3. CASE Stop
  BY <1>3, StopStep
<1>4. CASE UNCHANGED vars
  BY <1>4 DEF vars, IInv, TypesOK, LogOK, RequestOK, RunOK
<1>5. QED
  BY <1>1, <1>2, <1>3, <1>4 DEF Next

\* The invariant the theorem rests on.
THEOREM Inductive == Spec => []IInv
<1>1. QED
  BY InitIInv, NextIInv, PTL DEF Spec

\* Every stored reply, full or interrupted, follows the question of its own
\* request in the same session; a reply the view shows as complete is stored
\* there once, and no interrupted copy of it.
THEOREM RepliesFollow == Spec => []RepliesAnswer
<1>1. IInv => RepliesAnswer
  <2> SUFFICES ASSUME IInv, NEW s \in 1 .. Len(log), NEW r \in Requests
               PROVE
        /\ \A i \in Stored(s, r, "assistant") \cup Stored(s, r, "partial") :
              \E j \in Stored(s, r, "user") : j < i
        /\ run[r[1]].shown = r[2] /\ req[r].session = s
              => /\ Stored(s, r, "partial") = {}
                 /\ \E i \in Stored(s, r, "assistant") : Stored(s, r, "assistant") = {i}
    BY DEF RepliesAnswer
  <2>1. ASSUME NEW i \in Stored(s, r, "assistant") \cup Stored(s, r, "partial")
        PROVE  \E j \in Stored(s, r, "user") : j < i
    <3>1. i \in 1 .. Len(log[s]) /\ log[s][i].by = r /\ log[s][i].role # "user"
      BY DEF Stored
    <3>2. PICK j \in 1 .. i - 1 : log[s][j] = Question(r)
      BY <3>1 DEF IInv, LogOK, Answered
    <3>3. Len(log[s]) \in Nat
      BY ElementOfSeq DEF IInv, TypesOK
    <3>4. j \in 1 .. Len(log[s]) /\ j < i
      BY <3>1, <3>2, <3>3
    <3>5. QED
      BY <3>2, <3>4 DEF Stored, Question
  <2>2. ASSUME run[r[1]].shown = r[2], req[r].session = s
        PROVE  /\ Stored(s, r, "partial") = {}
               /\ \E i \in Stored(s, r, "assistant") : Stored(s, r, "assistant") = {i}
    <3>1. r[1] \in Asks /\ r[2] \in {"stream", "full"} /\ r = <<r[1], r[2]>>
      BY DEF Requests
    <3>2. req[r].answer = "ok"
      BY <2>2, <3>1 DEF IInv, RunOK
    <3>3. PICK i \in 1 .. Len(log[s]) :
            /\ log[s][i] = Reply(r)
            /\ \A j \in 1 .. Len(log[s]) : log[s][j].by = r /\ log[s][j].role # "user" => j = i
      BY <2>2, <3>2 DEF IInv, RequestOK, Once
    <3>4. \A role \in {"assistant", "partial"} : \A j \in Stored(s, r, role) : j = i
      BY <3>3 DEF Stored
    <3>5. i \in Stored(s, r, "assistant") /\ i \notin Stored(s, r, "partial")
      BY <3>3 DEF Stored, Reply
    <3>6. QED
      BY <3>4, <3>5
  <2>3. QED
    BY <2>1, <2>2
<1>2. QED
  BY Inductive, <1>1, PTL

-----------------------------------------------------------------------------
(* The conversation while streams end well.                                *)

\* A list whose roles alternate; one that has been answered; one that waits for
\* the answer to r.
Alternates(q) == \A i \in 1 .. Len(q) - 1 : (q[i].role = "user") # (q[i + 1].role = "user")
Settled(q) == Alternates(q) /\ (Len(q) # 0 => q[Len(q)].role # "user")
Waiting(q, r) == Alternates(q) /\ Len(q) # 0 /\ q[Len(q)] = Question(r)

\* The conversation as request r found it, with its question, and answered.
SettledTable == Len(log) <= 1 /\ \A s \in 1 .. Len(log) : Settled(log[s])
StageOK(r) ==
    /\ At(r, "open") \/ req[r].answer = "ok" => req[r].session = Len(log) /\ SettledTable
    /\ req[r].step \in {"history", "model", "store"} =>
         req[r].session = 1 /\ Waiting(log[1], r)
    /\ At(r, "model") => req[r].seen = Len(log[1])

Streaming(a) == run[a].phase = "stream"

\* At most one ask is under way, and the view and the table know how far it is.
CalmOK ==
    /\ \A a \in Asks : run[a].phase # "fallback"
    /\ \A a \in Asks : run[a].phase = "done" => req[<<a, "stream">>].step = "over"
    /\ \A a, b \in Asks : Streaming(a) /\ Streaming(b) => a = b
    /\ view.loading = FALSE /\ view.streaming \in BOOLEAN
    /\ view.streaming <=> \E a \in Asks : Streaming(a)
    /\ view.streaming => view.ref \in Asks
    /\ Len(log) <= 1
    /\ ~view.streaming => view.session = Len(log) /\ SettledTable
    /\ \A a \in Asks : Streaming(a) => StageOK(<<a, "stream">>)

CInv == IInv /\ (Calm => CalmOK)

\* One message more, and the window of a prompt.
LEMMA AskedNext ==
  ASSUME NEW q \in Seq(Message), NEW r \in Requests, Settled(q)
  PROVE  Waiting(q \o <<Question(r)>>, r)
<1> DEFINE u == q \o <<Question(r)>>
<1>1. /\ Len(q) \in Nat /\ Len(u) = Len(q) + 1 /\ u[Len(q) + 1] = Question(r)
      /\ \A i \in 1 .. Len(q) : u[i] = q[i]
  OBVIOUS
<1> HIDE DEF u
<1>2. ASSUME NEW i \in 1 .. Len(u) - 1
      PROVE  (u[i].role = "user") # (u[i + 1].role = "user")
  <2>1. CASE i = Len(q)
    BY <1>1, <2>1 DEF Settled, Question
  <2>2. CASE i # Len(q)
    <3>1. i \in 1 .. Len(q) - 1 /\ u[i] = q[i] /\ u[i + 1] = q[i + 1]
      BY <1>1, <2>2
    <3>2. QED
      BY <3>1 DEF Settled, Alternates
  <2>3. QED
    BY <2>1, <2>2
<1>3. Waiting(u, r)
  BY <1>1, <1>2 DEF Waiting, Alternates
<1>4. QED
  BY <1>3 DEF u

LEMMA AnsweredNext ==
  ASSUME NEW q \in Seq(Message), NEW r \in Requests, Waiting(q, r)
  PROVE  Settled(q \o Full(r))
<1> DEFINE u == q \o Full(r)
<1>1. /\ Len(q) \in Nat /\ Len(u) = Len(q) + 1 /\ u[Len(q) + 1] = Reply(r)
      /\ \A i \in 1 .. Len(q) : u[i] = q[i]
  BY DEF Full, Reply
<1> HIDE DEF u
<1>2. ASSUME NEW i \in 1 .. Len(u) - 1
      PROVE  (u[i].role = "user") # (u[i + 1].role = "user")
  <2>1. CASE i = Len(q)
    BY <1>1, <2>1 DEF Waiting, Question, Reply
  <2>2. CASE i # Len(q)
    <3>1. i \in 1 .. Len(q) - 1 /\ u[i] = q[i] /\ u[i + 1] = q[i + 1]
      BY <1>1, <2>2
    <3>2. QED
      BY <3>1 DEF Waiting, Alternates
  <2>3. QED
    BY <2>1, <2>2
<1>3. Settled(u)
  BY <1>1, <1>2 DEF Settled, Alternates, Reply
<1>4. QED
  BY <1>3 DEF u

LEMMA WindowWellFormed ==
  ASSUME NEW r \in Requests, NEW q \in Seq(Message), Waiting(q, r),
         NEW k \in 1 .. Len(q)
  PROVE  LET p == SubSeq(q, k, Len(q)) IN
         /\ p[Len(p)] = Question(r)
         /\ \A i \in 1 .. Len(p) - 1 : (p[i].role = "user") # (p[i + 1].role = "user")
<1> DEFINE p == SubSeq(q, k, Len(q))
<1>1. /\ Len(q) \in Nat /\ k \in Nat /\ Len(p) = Len(q) - k + 1
      /\ \A i \in 1 .. Len(p) : p[i] = q[k + i - 1]
  OBVIOUS
<1> HIDE DEF p
<1>2. p[Len(p)] = Question(r)
  BY <1>1 DEF Waiting
<1>3. ASSUME NEW i \in 1 .. Len(p) - 1
      PROVE  (p[i].role = "user") # (p[i + 1].role = "user")
  <2>1. p[i] = q[k + i - 1] /\ p[i + 1] = q[(k + i - 1) + 1] /\ k + i - 1 \in 1 .. Len(q) - 1
    BY <1>1
  <2>2. QED
    BY <2>1 DEF Waiting, Alternates
<1>4. QED
  BY <1>2, <1>3 DEF p

LEMMA InitCInv == Init => CInv
<1> SUFFICES ASSUME Init PROVE CInv
  OBVIOUS
<1>1. log = << >> /\ Len(log) = 0
  BY DEF Init
<1>2. CalmOK
  BY <1>1 DEF Init, CalmOK, SettledTable, Streaming
<1>3. QED
  BY <1>2, InitIInv DEF CInv

\* Only the stream of the ask under way is being handled.
LEMMA OneHandler ==
  ASSUME CInv, Calm, NEW p \in Requests, req[p].step \notin {"unsent", "over"}
  PROVE  /\ p[1] \in Asks /\ p[2] = "stream" /\ p = <<p[1], "stream">>
         /\ Streaming(p[1]) /\ StageOK(p) /\ Len(log) <= 1
<1>1. p[1] \in Asks /\ p[2] \in {"stream", "full"} /\ p = <<p[1], p[2]>>
  BY DEF Requests
<1>2. p[2] = "stream"
  BY <1>1 DEF Calm
<1>3. RunOK(p[1]) /\ run[p[1]] \in Run /\ CalmOK
  BY <1>1 DEF CInv, IInv, TypesOK
<1>4. Streaming(p[1])
  BY <1>1, <1>2, <1>3 DEF RunOK, Run, CalmOK, Streaming
<1>5. QED
  BY <1>1, <1>2, <1>3, <1>4 DEF CalmOK

\* A step of p's handler: what must be shown of p and its session.
LEMMA HandlerCalm ==
  ASSUME CInv, NEW p \in Requests, NEW x,
         req' = [req EXCEPT ![p] = x], UNCHANGED <<view, run>>,
         x.step # "unsent", req[p].step \notin {"unsent", "over"},
         Calm => Len(log') <= 1 /\ StageOK(p)'
  PROVE  Calm' => CalmOK'
<1> SUFFICES ASSUME Calm' PROVE CalmOK'
  OBVIOUS
<1>1. req'[p] = x /\ \A r \in Requests \ {p} : req'[r] = req[r]
  BY DEF CInv, IInv, TypesOK
<1>2. \A a \in Asks : <<a, "stream">> \in Requests /\ <<a, "full">> \in Requests
  BY DEF Requests
<1>3. Calm
  BY <1>1, <1>2 DEF Calm
<1>4. CalmOK /\ Len(log') <= 1 /\ StageOK(p)'
  BY <1>3 DEF CInv
<1>5. p[1] \in Asks /\ p = <<p[1], "stream">> /\ Streaming(p[1])
  BY <1>3, OneHandler
<1>6. \A a \in Asks : Streaming(a) => a = p[1]
  BY <1>4, <1>5 DEF CalmOK
<1>7. \A a \in Asks : Streaming(a)' <=> Streaming(a)
  BY DEF Streaming
<1>8. view.streaming = TRUE
  BY <1>4, <1>5 DEF CalmOK
<1>9. \A a \in Asks : Streaming(a)' => StageOK(<<a, "stream">>)'
  BY <1>4, <1>5, <1>6, <1>7
<1>10. ASSUME NEW a \in Asks, run'[a].phase = "done" PROVE req'[<<a, "stream">>].step = "over"
  <2>1. a # p[1]
    BY <1>5, <1>10 DEF Streaming
  <2>2. <<a, "stream">> # p
    BY <1>5, <2>1
  <2>3. QED
    BY <1>1, <1>2, <1>4, <1>10, <2>2 DEF CalmOK
<1>11. QED
  BY <1>4, <1>7, <1>8, <1>9, <1>10 DEF CalmOK

\* A table of one settled conversation.
LEMMA OneSettled ==
  ASSUME Len(log') = 1, Settled(log'[1])
  PROVE  SettledTable'
<1>1. Len(log') <= 1 /\ \A s \in 1 .. Len(log') : s = 1
  OBVIOUS
<1>2. QED
  BY <1>1 DEF SettledTable

LEMMA OpenSessionCalm ==
  ASSUME CInv, NEW p \in Requests, OpenSession(p)
  PROVE  Calm' => CalmOK'
<1> DEFINE x == [req[p] EXCEPT !.session = Len(log) + 1]
<1>1. /\ req[p].step = "open" /\ req[p].session = 0 /\ log' = Append(log, << >>)
      /\ req' = [req EXCEPT ![p] = x] /\ UNCHANGED <<view, run>>
  BY DEF OpenSession, At
<1>2. req[p] \in Request /\ log \in Seq(Seq(Message)) /\ RequestOK(p)
  BY DEF CInv, IInv, TypesOK
<1>3. x.step = "open" /\ x.session = Len(log) + 1 /\ x.answer = req[p].answer
  BY <1>1, <1>2 DEF Request
<1>4. req'[p] = x
  BY <1>1 DEF CInv, IInv, TypesOK
<1>5. Calm => Len(log') <= 1 /\ StageOK(p)'
  <2> SUFFICES ASSUME Calm PROVE Len(log') <= 1 /\ StageOK(p)'
    OBVIOUS
  <2>1. StageOK(p)
    BY <1>1, OneHandler
  <2>2. Len(log) = 0
    BY <1>1, <2>1 DEF StageOK, At
  <2>3. Len(log') = 1 /\ log'[1] = << >>
    BY <1>1, <1>2, <2>2, AppendProperties
  <2>4. Settled(log'[1])
    BY <2>3 DEF Settled, Alternates
  <2>5. SettledTable'
    BY <2>3, <2>4, OneSettled
  <2>6. x.session = Len(log')
    BY <1>3, <2>2, <2>3
  <2>7. QED
    BY <1>3, <1>4, <2>3, <2>5, <2>6 DEF StageOK, At
<1> HIDE DEF x
<1>6. QED
  BY <1>1, <1>3, <1>5, HandlerCalm

\* In a calm conversation there is one session.
LEMMA OnlySession ==
  ASSUME CInv, NEW p \in Requests, Len(log) <= 1, req[p].session # 0
  PROVE  req[p].session = 1 /\ Len(log) = 1 /\ log[1] \in Seq(Message)
<1>1. req[p].session \in 0 .. Len(log) /\ log \in Seq(Seq(Message))
  BY DEF CInv, IInv, RequestOK, TypesOK
<1>2. Len(log) \in Nat
  BY <1>1, LenProperties
<1> DEFINE s == req[p].session
           n == Len(log)
<1>3. req[p].session = 1 /\ Len(log) = 1
  <2>1. n \in Nat /\ s \in 0 .. n /\ n <= 1 /\ s # 0
    BY <1>1, <1>2
  <2> HIDE DEF s, n
  <2>2. s = 1 /\ n = 1
    BY <2>1
  <2>3. QED
    BY <2>2 DEF s, n
<1>4. 1 \in 1 .. Len(log)
  BY <1>3
<1>5. QED
  BY <1>1, <1>3, <1>4, ElementOfSeq

\* An INSERT into it.
LEMMA StoredHere ==
  ASSUME CInv, Len(log) = 1, NEW entries \in Seq(Message), Store(1, entries)
  PROVE  Len(log') = 1 /\ log'[1] = log[1] \o entries
<1>1. log \in Seq(Seq(Message)) /\ 1 \in 1 .. Len(log)
  BY DEF CInv, IInv, TypesOK
<1>2. log[1] \o entries \in Seq(Message)
  BY <1>1, ElementOfSeq, ConcatProperties
<1>3. QED
  BY <1>1, <1>2, ExceptSeq DEF Store

LEMMA InsertQuestionCalm ==
  ASSUME CInv, NEW p \in Requests, InsertQuestion(p)
  PROVE  Calm' => CalmOK'
<1> DEFINE x == [req[p] EXCEPT !.step = "history"]
<1>1. /\ req[p].step = "open" /\ req[p].session # 0 /\ Store(req[p].session, <<Question(p)>>)
      /\ req' = [req EXCEPT ![p] = x] /\ UNCHANGED <<view, run>>
  BY DEF InsertQuestion, At, GoTo, Question
<1>2. req[p] \in Request /\ RequestOK(p)
  BY DEF CInv, IInv, TypesOK
<1>3. x.step = "history" /\ x.session = req[p].session /\ x.answer = req[p].answer
  BY <1>2 DEF Request
<1>4. req'[p] = x
  BY <1>1 DEF CInv, IInv, TypesOK
<1>5. Calm => Len(log') <= 1 /\ StageOK(p)'
  <2> SUFFICES ASSUME Calm PROVE Len(log') <= 1 /\ StageOK(p)'
    OBVIOUS
  <2>1. StageOK(p) /\ Len(log) <= 1
    BY <1>1, OneHandler
  <2>2. req[p].session = 1 /\ Len(log) = 1 /\ log[1] \in Seq(Message)
    BY <1>1, <2>1, OnlySession
  <2>3. Settled(log[1])
    BY <1>1, <2>1, <2>2 DEF StageOK, At, SettledTable
  <2>4. Len(log') = 1 /\ log'[1] = log[1] \o <<Question(p)>>
    BY <1>1, <2>2, Entries, StoredHere
  <2>5. Waiting(log'[1], p)
    BY <2>2, <2>3, <2>4, AskedNext
  <2>6. req[p].answer # "ok"
    BY <1>1, <1>2 DEF RequestOK
  <2>7. QED
    BY <1>3, <1>4, <2>2, <2>4, <2>5, <2>6 DEF StageOK, At
<1> HIDE DEF x
<1>6. QED
  BY <1>1, <1>3, <1>5, HandlerCalm

\* A step that stores nothing and goes from step to step with a question asked.
LEMMA WaitingCalm ==
  ASSUME CInv, NEW p \in Requests, NEW x \in Request,
         req' = [req EXCEPT ![p] = x], UNCHANGED <<log, view, run>>,
         req[p].step \in {"history", "model"}, x.step \in {"model", "store"},
         x.session = req[p].session, x.answer # "ok",
         x.step = "model" => x.seen = (IF req[p].step = "history" THEN Len(log[req[p].session])
                                       ELSE req[p].seen)
  PROVE  Calm' => CalmOK'
<1>1. req'[p] = x
  BY DEF CInv, IInv, TypesOK
<1>2. Calm => Len(log') <= 1 /\ StageOK(p)'
  <2> SUFFICES ASSUME Calm PROVE Len(log') <= 1 /\ StageOK(p)'
    OBVIOUS
  <2>1. StageOK(p) /\ Len(log) <= 1
    BY OneHandler
  <2>2. QED
    BY <1>1, <2>1 DEF StageOK, At
<1>3. QED
  BY <1>2, HandlerCalm

LEMMA ReadHistoryCalm ==
  ASSUME CInv, NEW p \in Requests, ReadHistory(p)
  PROVE  Calm' => CalmOK'
<1> DEFINE x == [req[p] EXCEPT !.step = "model", !.seen = Len(log[req[p].session])]
<1>1. /\ req[p].step = "history" /\ UNCHANGED <<log, view, run>>
      /\ req' = [req EXCEPT ![p] = x]
  BY DEF ReadHistory, At
<1>2. req[p] \in Request /\ RequestOK(p) /\ log \in Seq(Seq(Message))
  BY DEF CInv, IInv, TypesOK
<1>3. Len(log[req[p].session]) \in Nat
  <2>1. req[p].session \in 1 .. Len(log)
    BY <1>1, <1>2 DEF RequestOK
  <2>2. log[req[p].session] \in Seq(Message)
    BY <1>2, <2>1, ElementOfSeq
  <2>3. QED
    BY <2>2
<1>4. /\ x \in Request /\ x.session = req[p].session /\ x.step = "model"
      /\ x.answer = req[p].answer /\ x.seen = Len(log[req[p].session])
  BY <1>2, <1>3 DEF Request, Steps
<1>5. x.answer # "ok"
  BY <1>1, <1>2, <1>4 DEF RequestOK
<1> HIDE DEF x
<1>6. QED
  BY <1>1, <1>4, <1>5, WaitingCalm

LEMMA ModelCalm ==
  ASSUME CInv, NEW p \in Requests, CallModel(p) \/ StreamEnds(p)
  PROVE  Calm' => CalmOK'
<1>1. req[p].step = "model" /\ UNCHANGED <<log, view, run>>
  BY DEF CallModel, StreamEnds, At
<1>2. req[p] \in Request /\ req[p].answer # "ok"
  BY <1>1 DEF CInv, IInv, TypesOK, RequestOK
<1>3. CASE GoTo(p, "store")
  <2> DEFINE x == [req[p] EXCEPT !.step = "store"]
  <2>1. /\ x \in Request /\ x.session = req[p].session /\ x.step = "store" /\ x.answer = req[p].answer
        /\ req' = [req EXCEPT ![p] = x]
    BY <1>2, <1>3 DEF Request, Steps, GoTo
  <2> HIDE DEF x
  <2>2. QED
    BY <1>1, <1>2, <2>1, WaitingCalm
<1>4. CASE req' = [req EXCEPT ![p].attempt = @ + 1]
  <2> DEFINE x == [req[p] EXCEPT !.attempt = @ + 1]
  <2>1. /\ x \in Request /\ x.session = req[p].session /\ x.step = "model" /\ x.answer = req[p].answer
        /\ x.seen = req[p].seen /\ req' = [req EXCEPT ![p] = x]
    BY <1>1, <1>2, <1>4 DEF Request, Steps
  <2> HIDE DEF x
  <2>2. QED
    BY <1>1, <1>2, <2>1, WaitingCalm
<1>5. QED
  BY <1>3, <1>4 DEF CallModel, StreamEnds

LEMMA StoreReplyCalm ==
  ASSUME CInv, NEW p \in Requests, StoreReply(p)
  PROVE  Calm' => CalmOK'
<1>1. IInv
  BY DEF CInv
<1>2. PICK x \in Request : /\ req' = [req EXCEPT ![p] = x] /\ x.session = req[p].session
                           /\ x.step = "over" /\ x.answer = "ok"
  BY <1>1, Ended DEF StoreReply
<1>3. /\ req[p].step = "store" /\ Store(req[p].session, Full(p)) /\ UNCHANGED <<view, run>>
  BY DEF StoreReply, At
<1>4. req'[p] = x
  BY <1>1, <1>2 DEF IInv, TypesOK
<1>5. Calm => Len(log') <= 1 /\ StageOK(p)'
  <2> SUFFICES ASSUME Calm PROVE Len(log') <= 1 /\ StageOK(p)'
    OBVIOUS
  <2>1. Waiting(log[1], p) /\ req[p].session = 1 /\ Len(log) <= 1
    BY <1>3, OneHandler DEF StageOK
  <2>2. Len(log) = 1 /\ log[1] \in Seq(Message)
    BY <2>1, OnlySession
  <2>3. Len(log') = 1 /\ log'[1] = log[1] \o Full(p)
    BY <1>3, <2>1, <2>2, Entries, StoredHere
  <2>4. Settled(log'[1])
    BY <2>1, <2>2, <2>3, AnsweredNext
  <2>5. SettledTable'
    BY <2>3, <2>4, OneSettled
  <2>6. QED
    BY <1>2, <1>4, <2>1, <2>3, <2>5 DEF StageOK, At
<1>6. QED
  BY <1>2, <1>3, <1>5, HandlerCalm

\* A handler that fails leaves the ask to its fallback, which ends the calm.
LEMMA FailCalm ==
  ASSUME CInv, NEW p \in Requests, Fail(p) \/ NoticeGone(p)
  PROVE  Calm' => CalmOK'
<1>1. IInv
  BY DEF CInv
<1>2. PICK x \in Request : /\ req' = [req EXCEPT ![p] = x] /\ x.session = req[p].session
                           /\ x.step = "over" /\ x.answer = "error"
  BY <1>1, Ended DEF Fail, NoticeGone
<1>3. req[p].step \notin {"unsent", "over"} /\ UNCHANGED <<view, run>>
  BY DEF Fail, NoticeGone, At
<1>4. req'[p] = x
  BY <1>1, <1>2 DEF IInv, TypesOK
<1>5. StageOK(p)'
  BY <1>2, <1>4 DEF StageOK, At
<1>6. Len(log') = Len(log)
  <2>1. log \in Seq(Seq(Message))
    BY <1>1 DEF IInv, TypesOK
  <2>2. CASE UNCHANGED log
    BY <2>2
  <2>3. CASE ~ UNCHANGED log
    <3>1. PICK full \in LateReply(p), partial \in Interrupted(p) :
             req[p].session # 0 /\ Store(req[p].session, full \o partial)
      BY <2>3 DEF Fail, NoticeGone
    <3>2. full \o partial \in Seq(Message) /\ \A r \in Requests \ {p} : Silent(full \o partial, r)
      BY LeftoversOK
    <3>3. req[p].session \in 1 .. Len(log) /\ TypesOK
      BY <1>1, <3>1 DEF IInv, RequestOK
    <3>4. QED
      BY <3>1, <3>2, <3>3, Stored_
  <2>4. QED
    BY <2>2, <2>3
<1>7. Calm => Len(log') <= 1
  BY <1>3, <1>6, OneHandler
<1>8. QED
  BY <1>2, <1>3, <1>5, <1>7, HandlerCalm

-----------------------------------------------------------------------------
(* The view of a calm conversation.                                        *)

LEMMA SendCalm ==
  ASSUME CInv, NEW a \in Asks, Send(a)
  PROVE  Calm' => CalmOK'
<1> SUFFICES ASSUME Calm' PROVE CalmOK'
  OBVIOUS
<1> DEFINE p == <<a, "stream">>
<1>1. /\ run[a].phase = "none" /\ ~view.loading /\ ~view.streaming /\ UNCHANGED log
      /\ run' = [run EXCEPT ![a].phase = "stream", ![a].session = view.session]
      /\ view' = [view EXCEPT !.streaming = TRUE, !.ref = a]
      /\ req' = [req EXCEPT ![p].step = "open", ![p].session = view.session]
  BY DEF Send
<1>2. TypesOK /\ \A b \in Asks, k \in {"stream", "full"} : <<b, k>> \in Requests
  BY DEF CInv, IInv, Requests
<1>3. /\ view'.streaming = TRUE /\ view'.ref = a /\ view'.loading = view.loading
      /\ view'.session = view.session
  BY <1>1, <1>2 DEF TypesOK
<1>4. /\ \A b \in Asks \ {a} : run'[b] = run[b]
      /\ run'[a].phase = "stream" /\ run'[a].stopped = run[a].stopped
  BY <1>1, <1>2 DEF TypesOK, Run
<1> HIDE DEF p
<1>5. /\ \A r \in Requests \ {p} : req'[r] = req[r]
      /\ p \in Requests /\ req'[p].step = "open" /\ req'[p].session = view.session
  BY <1>1, <1>2 DEF TypesOK, Request, p
<1>6. Calm
  BY <1>2, <1>4, <1>5 DEF Calm, p
<1>7. CalmOK
  BY <1>6 DEF CInv
<1>8. /\ view.session = Len(log) /\ SettledTable /\ Len(log) <= 1
      /\ \A b \in Asks : ~Streaming(b)
  BY <1>1, <1>7 DEF CalmOK
<1>9. StageOK(p)'
  BY <1>1, <1>5, <1>8 DEF StageOK, At, SettledTable
<1>10. \A b \in Asks : Streaming(b)' <=> b = a
  BY <1>4, <1>8 DEF Streaming
<1>11. ASSUME NEW b \in Asks, run'[b].phase = "done" PROVE req'[<<b, "stream">>].step = "over"
  <2>1. b # a /\ <<b, "stream">> # p /\ run[b].phase = "done"
    BY <1>4, <1>11 DEF p
  <2>2. QED
    BY <1>2, <1>5, <1>7, <2>1 DEF CalmOK
<1>12. \A b \in Asks : run'[b].phase # "fallback"
  BY <1>4, <1>7 DEF CalmOK
<1>13. QED
  BY <1>1, <1>3, <1>7, <1>8, <1>9, <1>10, <1>11, <1>12 DEF CalmOK, p

LEMMA StreamDoneCalm ==
  ASSUME CInv, NEW a \in Asks, StreamDone(a)
  PROVE  Calm' => CalmOK'
<1> SUFFICES ASSUME Calm' PROVE CalmOK'
  OBVIOUS
<1> DEFINE p == <<a, "stream">>
<1>1. /\ run[a].phase = "stream" /\ req[p].answer = "ok" /\ UNCHANGED <<log, req>>
      /\ run' = [run EXCEPT ![a].phase = "done", ![a].shown = "stream"]
      /\ view' = [view EXCEPT !.session = req[p].session, !.streaming = FALSE, !.ref = 0]
  BY DEF StreamDone
<1>2. TypesOK /\ p \in Requests /\ RequestOK(p)
  BY DEF CInv, IInv, Requests
<1>3. /\ view'.streaming = FALSE /\ view'.loading = view.loading
      /\ view'.session = req[p].session
  BY <1>1, <1>2 DEF TypesOK
<1>4. /\ \A b \in Asks \ {a} : run'[b] = run[b]
      /\ run'[a].phase = "done" /\ run'[a].stopped = run[a].stopped
  BY <1>1, <1>2 DEF TypesOK, Run
<1>5. Calm
  BY <1>1, <1>4 DEF Calm
<1>6. CalmOK
  BY <1>5 DEF CInv
<1>7. StageOK(p) /\ req[p].step = "over"
  BY <1>1, <1>2, <1>6 DEF CalmOK, Streaming, RequestOK
<1>8. req[p].session = Len(log) /\ SettledTable
  BY <1>1, <1>7 DEF StageOK
<1>9. \A b \in Asks : ~Streaming(b)'
  BY <1>1, <1>4, <1>6 DEF CalmOK, Streaming
<1>10. \A b \in Asks : /\ run'[b].phase = "done" => req'[<<b, "stream">>].step = "over"
                       /\ run'[b].phase # "fallback"
  BY <1>1, <1>4, <1>6, <1>7 DEF CalmOK
<1>11. SettledTable' /\ Len(log') <= 1
  BY <1>1, <1>8 DEF SettledTable
<1> HIDE DEF p
<1>12. QED
  BY <1>1, <1>3, <1>6, <1>8, <1>9, <1>10, <1>11 DEF CalmOK

\* The steps that end the calm, or are not taken in it.
LEMMA CalmEnds ==
  ASSUME CInv, NEW a \in Asks,
         FallBack(a) \/ Stop \/ FallbackDone(a) \/ \E late \in BOOLEAN : FallbackFailed(a, late)
  PROVE  ~Calm'
<1> SUFFICES ASSUME Calm' PROVE FALSE
  OBVIOUS
<1>1. /\ req \in [Requests -> Request] /\ run \in [Asks -> Run]
      /\ <<a, "full">> \in Requests
  BY DEF CInv, IInv, TypesOK, Requests
<1>2. CASE FallBack(a)
  <2>1. req'[<<a, "full">>].step = "open"
    BY <1>1, <1>2 DEF FallBack, Request
  <2>2. QED
    BY <2>1 DEF Calm
<1>3. CASE Stop
  <2>1. view.streaming /\ UNCHANGED req /\ run' = [run EXCEPT ![view.ref].stopped = TRUE]
    BY <1>3 DEF Stop
  <2>2. \A b \in Asks : run'[b].stopped = (IF b = view.ref THEN TRUE ELSE run[b].stopped)
    BY <1>1, <2>1 DEF Run
  <2>3. Calm
    BY <2>1, <2>2 DEF Calm
  <2>4. view.ref \in Asks
    BY <2>1, <2>3 DEF CInv, CalmOK
  <2>5. QED
    BY <2>2, <2>4 DEF Calm
<1>4. CASE FallbackDone(a) \/ \E late \in BOOLEAN : FallbackFailed(a, late)
  <2>1. /\ run[a].phase = "fallback" /\ UNCHANGED req
        /\ \A b \in Asks : run'[b].stopped = run[b].stopped
    BY <1>1, <1>4 DEF FallbackDone, FallbackFailed, Run
  <2>2. Calm
    BY <2>1 DEF Calm
  <2>3. QED
    BY <2>1, <2>2 DEF CInv, CalmOK
<1>5. QED
  BY <1>2, <1>3, <1>4

LEMMA NextCInv == CInv /\ [Next]_vars => CInv'
<1> SUFFICES ASSUME CInv, [Next]_vars PROVE CInv'
  OBVIOUS
<1>1. IInv'
  BY NextIInv DEF CInv
<1>2. ASSUME NEW r \in Requests, Serve(r) \/ Fail(r) PROVE Calm' => CalmOK'
  BY <1>2, OpenSessionCalm, InsertQuestionCalm, ReadHistoryCalm, ModelCalm, StoreReplyCalm, FailCalm
  DEF Serve
<1>3. ASSUME NEW a \in Asks,
             Send(a) \/ Receive(a) \/ StreamBroken(a) \/ FallbackFailed(a, TRUE)
      PROVE  Calm' => CalmOK'
  BY <1>3, SendCalm, StreamDoneCalm, CalmEnds DEF Receive, StreamFailed, StreamBroken
<1>4. CASE Stop
  <2>1. CASE Asks = {}
    BY <1>4, <2>1 DEF CInv, CalmOK, Calm, Stop
  <2>2. CASE Asks # {}
    BY <1>1, <1>4, <2>2, CalmEnds DEF CInv
  <2>3. QED
    BY <2>1, <2>2
<1>5. CASE UNCHANGED vars
  <2>1. SettledTable' <=> SettledTable
    BY <1>5 DEF vars, SettledTable
  <2>2. \A r : StageOK(r)' <=> StageOK(r)
    BY <1>5, <2>1 DEF vars, StageOK, At
  <2>3. CalmOK' <=> CalmOK
    BY <1>5, <2>1, <2>2 DEF vars, CalmOK, Streaming
  <2>4. QED
    BY <1>1, <1>5, <2>3 DEF vars, CInv, Calm
<1>6. QED
  BY <1>1, <1>2, <1>3, <1>4, <1>5 DEF Next, CInv

\* As long as no stream was stopped, failed or given up, there is one ask at a
\* time and one session, and each prompt is the alternating window of the
\* conversation that ends with its question.
THEOREM CalmHolds == Spec => []CalmConversation
<1>1. CInv => CalmConversation
  <2> SUFFICES ASSUME CInv, Calm
               PROVE  /\ \A a, b \in Asks : Underway(a) /\ Underway(b) => a = b
                      /\ (view.loading \/ view.streaming) <=> \E a \in Asks : Underway(a)
                      /\ Len(log) <= 1
                      /\ \A r \in Requests : At(r, "model") => WellFormed(r)
    BY DEF CalmConversation
  <2>1. CalmOK
    BY DEF CInv
  <2>2. \A a \in Asks : Underway(a) <=> Streaming(a)
    BY <2>1 DEF CalmOK, Underway, Streaming
  <2>3. ASSUME NEW r \in Requests, At(r, "model") PROVE WellFormed(r)
    <3>1. StageOK(r) /\ Len(log) <= 1
      BY <2>3, OneHandler DEF At
    <3> DEFINE q == log[1]
               k == IF Len(q) > HistoryLimit THEN Len(q) - HistoryLimit + 1 ELSE 1
    <3>2. /\ req[r].session = 1 /\ req[r].seen = Len(q) /\ Waiting(q, r)
      BY <2>3, <3>1 DEF StageOK, At
    <3>3. q \in Seq(Message)
      BY <3>1, <3>2, OnlySession
    <3>4. Prompt(r) = SubSeq(q, k, Len(q))
      BY <3>2 DEF Prompt, Window
    <3> HIDE DEF q
    <3>5. k \in 1 .. Len(q)
      BY <3>2, <3>3, HistoryLimitAssumption DEF Waiting
    <3> HIDE DEF k
    <3>6. QED
      BY <3>2, <3>3, <3>4, <3>5, WindowWellFormed DEF WellFormed, Question
  <2>4. QED
    BY <2>1, <2>2, <2>3 DEF CalmOK
<1>2. QED
  BY InitCInv, NextCInv, <1>1, PTL DEF Spec

-----------------------------------------------------------------------------
(* Types: each request opens at most one session, so there are at most as  *)
(* many sessions as requests that have come past that point.               *)

HasOpened(r) == req[r].step # "unsent" /\ (req[r].step = "open" => req[r].session # 0)
Opened == {r \in Requests : HasOpened(r)}

ViewOK ==
    /\ view \in [session : Nat, loading : BOOLEAN, streaming : BOOLEAN, ref : 0 .. MaxAsks]
    /\ view.streaming => view.ref # 0

BoundsOK ==
    /\ ViewOK
    /\ \A r \in Requests : req[r].attempt \in 0 .. MaxRetries
    /\ faults \in 0 .. MaxFaults
    /\ Len(log) <= Cardinality(Opened)

LEMMA RequestsFinite ==
  IsFiniteSet(Requests) /\ Cardinality(Requests) = 2 * MaxAsks
<1>1. IsFiniteSet(Asks) /\ Cardinality(Asks) = MaxAsks
  BY MaxAsksAssumption, FS_Interval DEF Asks
<1>2. /\ IsFiniteSet({"stream"}) /\ Cardinality({"stream"}) = 1
      /\ {"stream", "full"} = {"stream"} \cup {"full"} /\ "full" \notin {"stream"}
  BY FS_Singleton
<1>3. IsFiniteSet({"stream", "full"}) /\ Cardinality({"stream", "full"}) = 2
  BY <1>2, FS_AddElement
<1>4. IsFiniteSet(Requests) /\ Cardinality(Requests) = Cardinality(Asks) * Cardinality({"stream", "full"})
  BY <1>1, <1>3, FS_Product DEF Requests
<1>5. QED
  BY <1>1, <1>3, <1>4, MaxAsksAssumption

\* A session more is one request more that has opened its own.
LEMMA LogGrows ==
  ASSUME TypesOK, Len(log) <= Cardinality(Opened), Opened \subseteq Opened',
         \/ Len(log') = Len(log)
         \/ Len(log') = Len(log) + 1 /\ \E p \in Opened' : p \notin Opened
  PROVE  Len(log') <= Cardinality(Opened')
<1>1. IsFiniteSet(Opened) /\ IsFiniteSet(Opened')
  BY RequestsFinite, FS_Subset DEF Opened
<1>2. Cardinality(Opened) <= Cardinality(Opened')
  BY <1>1, FS_Subset
<1>3. /\ Cardinality(Opened) \in Nat /\ Cardinality(Opened') \in Nat
      /\ Len(log) \in Nat
  BY <1>1, FS_CardinalityType DEF TypesOK
<1>4. CASE Len(log') = Len(log)
  BY <1>2, <1>3, <1>4
<1>5. ASSUME NEW p \in Opened', p \notin Opened, Len(log') = Len(log) + 1
      PROVE  Len(log') <= Cardinality(Opened')
  <2>1. Opened \cup {p} \subseteq Opened'
    BY <1>5
  <2>2. Cardinality(Opened \cup {p}) = Cardinality(Opened) + 1 /\ IsFiniteSet(Opened \cup {p})
    BY <1>1, <1>5, FS_AddElement
  <2>3. Cardinality(Opened \cup {p}) <= Cardinality(Opened')
    BY <1>1, <2>1, FS_Subset
  <2>4. QED
    BY <1>3, <1>5, <2>2, <2>3
<1>6. QED
  BY <1>4, <1>5

\* One request goes on; what it has opened it keeps.
LEMMA RequestGoesOn ==
  ASSUME TypesOK, BoundsOK, NEW p \in Requests, NEW x \in Request,
         req' = [req EXCEPT ![p] = x],
         x.attempt \in 0 .. MaxRetries,
         x.step # "unsent", x.step = "open" => x.session # 0 \/ req[p].step = "unsent",
         UNCHANGED view, faults' \in 0 .. MaxFaults,
         \/ Len(log') = Len(log)
         \/ /\ Len(log') = Len(log) + 1
            /\ req[p].step = "open" /\ req[p].session = 0 /\ x.session # 0
  PROVE  BoundsOK'
<1>1. req'[p] = x /\ \A r \in Requests \ {p} : req'[r] = req[r]
  BY DEF TypesOK
<1>2. Opened \subseteq Opened'
  BY <1>1 DEF Opened, HasOpened
<1>3. \/ Len(log') = Len(log)
      \/ Len(log') = Len(log) + 1 /\ \E q \in Opened' : q \notin Opened
  BY <1>1 DEF Opened, HasOpened
<1>4. Len(log') <= Cardinality(Opened')
  BY <1>2, <1>3, LogGrows DEF BoundsOK
<1>5. \A r \in Requests : req'[r].attempt \in 0 .. MaxRetries
  BY <1>1 DEF BoundsOK
<1>6. ViewOK'
  BY DEF BoundsOK, ViewOK
<1>7. QED
  BY <1>4, <1>5, <1>6 DEF BoundsOK

\* A request is sent.
LEMMA RequestSent ==
  ASSUME TypesOK, BoundsOK, NEW p \in Requests, NEW n \in Nat,
         req' = [req EXCEPT ![p].step = "open", ![p].session = n],
         req[p].step = "unsent", UNCHANGED log, ViewOK', faults' \in 0 .. MaxFaults
  PROVE  BoundsOK'
<1>1. /\ \A r \in Requests \ {p} : req'[r] = req[r]
      /\ req'[p].attempt = req[p].attempt
  BY DEF TypesOK, Request
<1>2. Opened \subseteq Opened'
  BY <1>1 DEF Opened, HasOpened
<1>3. Len(log') <= Cardinality(Opened')
  BY <1>2, LogGrows DEF BoundsOK
<1>4. \A r \in Requests : req'[r].attempt \in 0 .. MaxRetries
  BY <1>1 DEF BoundsOK
<1>5. QED
  BY <1>3, <1>4 DEF BoundsOK

\* The requests and the log stay as they are.
LEMMA ViewGoesOn ==
  ASSUME TypesOK, BoundsOK, UNCHANGED <<req, log>>, ViewOK', faults' \in 0 .. MaxFaults
  PROVE  BoundsOK'
<1>1. Opened' = Opened
  BY DEF Opened, HasOpened
<1>2. QED
  BY <1>1 DEF BoundsOK

LEMMA ServeBounds ==
  ASSUME IInv, BoundsOK, NEW p \in Requests, Serve(p) \/ Fail(p)
  PROVE  BoundsOK'
<1>1. /\ req[p] \in Request /\ TypesOK /\ log \in Seq(Seq(Message)) /\ Len(log) \in Nat
      /\ req[p].attempt \in 0 .. MaxRetries
  BY DEF IInv, TypesOK, BoundsOK
<1>2. faults' \in 0 .. MaxFaults /\ UNCHANGED view
  BY MaxFaultsAssumption
  DEF Serve, OpenSession, InsertQuestion, ReadHistory, CallModel, StreamEnds, NoticeGone,
      StoreReply, Fail, Fault, BoundsOK
<1>3. ASSUME NEW s, NEW entries, Store(s, entries) PROVE Len(log') = Len(log)
  BY <1>1, <1>3 DEF Store
<1>4. ASSUME NEW answer \in {"ok", "error"}, EndWith(p, answer)
      PROVE  \E x \in Request : /\ req' = [req EXCEPT ![p] = x]
                                /\ x.attempt \in 0 .. MaxRetries /\ x.step = "over"
  <2> DEFINE x == [step |-> "over", session |-> req[p].session, seen |-> 0, attempt |-> 0,
                   answer |-> answer]
  <2>1. req' = [req EXCEPT ![p] = x] /\ x \in Request
    BY <1>1, <1>4 DEF EndWith, TypesOK, Request, Steps
  <2>2. 0 \in 0 .. MaxRetries
    BY MaxRetriesAssumption
  <2>3. QED
    BY <2>1, <2>2
<1>5. CASE OpenSession(p)
  <2> DEFINE n == Len(log) + 1
  <2>1. n \in Nat /\ n # 0
    BY <1>1
  <2>2. /\ req[p].step = "open" /\ req[p].session = 0
        /\ req' = [req EXCEPT ![p].session = n] /\ log' = Append(log, << >>)
    BY <1>5 DEF OpenSession, At
  <2> HIDE DEF n
  <2>3. PICK x \in Request : /\ req' = [req EXCEPT ![p] = x] /\ x.session = n
                             /\ x.step = "open" /\ x.attempt = req[p].attempt
    <3> DEFINE x == [req[p] EXCEPT !.session = n]
    <3>1. /\ x \in Request /\ x.session = n /\ x.step = "open" /\ x.attempt = req[p].attempt
          /\ req' = [req EXCEPT ![p] = x]
      BY <1>1, <2>1, <2>2 DEF Request
    <3>2. QED
      BY <3>1
  <2>4. Len(log') = Len(log) + 1
    BY <1>1, <2>2
  <2>5. QED
    BY <1>1, <1>2, <2>1, <2>2, <2>3, <2>4, RequestGoesOn
<1>6. CASE InsertQuestion(p) \/ (GoTo(p, "store") /\ UNCHANGED log /\ At(p, "model"))
  <2>1. PICK step \in {"history", "store"} : GoTo(p, step)
    BY <1>6 DEF InsertQuestion
  <2>2. PICK x \in Request : /\ req' = [req EXCEPT ![p] = x] /\ x.step = step
                             /\ x.attempt = req[p].attempt
    <3> DEFINE x == [req[p] EXCEPT !.step = step]
    <3>1. /\ x \in Request /\ x.step = step /\ x.attempt = req[p].attempt
          /\ req' = [req EXCEPT ![p] = x]
      BY <1>1, <2>1 DEF Request, Steps, GoTo
    <3>2. QED
      BY <3>1
  <2>3. Len(log') = Len(log)
    BY <1>3, <1>6 DEF InsertQuestion
  <2>4. QED
    BY <1>1, <1>2, <2>2, <2>3, RequestGoesOn
<1>7. CASE ReadHistory(p)
  <2>1. req[p].session \in 1 .. Len(log)
    BY <1>7 DEF ReadHistory, At, IInv, RequestOK
  <2>2. PICK n \in Nat : n = Len(log[req[p].session])
    BY <1>1, <2>1, ElementOfSeq
  <2>3. req' = [req EXCEPT ![p].step = "model", ![p].seen = n] /\ UNCHANGED log
    BY <1>7, <2>2 DEF ReadHistory
  <2>4. PICK x \in Request : /\ req' = [req EXCEPT ![p] = x] /\ x.step = "model"
                             /\ x.attempt = req[p].attempt
    <3> DEFINE x == [req[p] EXCEPT !.step = "model", !.seen = n]
    <3>1. /\ x \in Request /\ x.step = "model" /\ x.attempt = req[p].attempt
          /\ req' = [req EXCEPT ![p] = x]
      BY <1>1, <2>3 DEF Request, Steps
    <3>2. QED
      BY <3>1
  <2>5. QED
    BY <1>1, <1>2, <2>3, <2>4, RequestGoesOn
<1>8. CASE /\ At(p, "model") /\ UNCHANGED log /\ req[p].attempt < MaxRetries
           /\ req' = [req EXCEPT ![p].attempt = @ + 1]
  <2>1. PICK n \in 0 .. MaxRetries : n = req[p].attempt + 1
    BY <1>1, <1>8, MaxRetriesAssumption
  <2>2. PICK x \in Request : /\ req' = [req EXCEPT ![p] = x] /\ x.step = "model" /\ x.attempt = n
    <3> DEFINE x == [req[p] EXCEPT !.attempt = @ + 1]
    <3>1. /\ x \in Request /\ x.step = "model" /\ x.attempt = n
          /\ req' = [req EXCEPT ![p] = x]
      <4>0. req[p].step = "model" /\ req[p] \in Request
        BY <1>1, <1>8 DEF At
      <4>1. x \in Request /\ x.step = "model" /\ x.attempt = req[p].attempt + 1
        BY <4>0 DEF Request, Steps
      <4>2. req' = [req EXCEPT ![p] = x] /\ n = req[p].attempt + 1
        BY <1>8, <2>1
      <4>3. QED
        BY <4>1, <4>2
    <3>2. QED
      BY <3>1
  <2>3. QED
    BY <1>1, <1>2, <1>8, <2>1, <2>2, RequestGoesOn
<1>9. CASE NoticeGone(p) \/ StoreReply(p) \/ Fail(p)
  <2>1. PICK x \in Request : /\ req' = [req EXCEPT ![p] = x]
                             /\ x.attempt \in 0 .. MaxRetries /\ x.step = "over"
    BY <1>4, <1>9 DEF NoticeGone, StoreReply, Fail
  <2>2. Len(log') = Len(log)
    BY <1>3, <1>9 DEF NoticeGone, StoreReply, Fail
  <2>3. QED
    BY <1>1, <1>2, <2>1, <2>2, RequestGoesOn
<1>10. QED
  BY <1>5, <1>6, <1>7, <1>8, <1>9 DEF Serve, CallModel, StreamEnds

LEMMA BrowserBounds ==
  ASSUME IInv, BoundsOK,
         \/ \E a \in Asks : Send(a) \/ Receive(a) \/ StreamBroken(a) \/ FallbackFailed(a, TRUE)
         \/ Stop
  PROVE  BoundsOK'
<1>1. /\ TypesOK /\ ViewOK /\ view.session \in 0 .. Len(log) /\ Len(log) \in Nat
      /\ 0 \in 0 .. MaxAsks
  BY MaxAsksAssumption DEF IInv, TypesOK, BoundsOK
<1>2. faults' \in 0 .. MaxFaults
  <2>1. UNCHANGED faults \/ Fault
    <3>1. ASSUME NEW a \in Asks, Send(a) \/ StreamDone(a) \/ FallbackDone(a) PROVE UNCHANGED faults
      BY <3>1 DEF Send, StreamDone, FallbackDone
    <3>2. ASSUME NEW a \in Asks, StreamFailed(a) \/ StreamBroken(a) PROVE UNCHANGED faults \/ Fault
      BY <3>2 DEF StreamFailed, StreamBroken
    <3>3. ASSUME NEW a \in Asks, FallbackFailed(a, TRUE) \/ FallbackFailed(a, FALSE)
          PROVE  UNCHANGED faults \/ Fault
      BY <3>3 DEF FallbackFailed
    <3>4. CASE Stop
      BY <3>4 DEF Stop
    <3>5. QED
      BY <3>1, <3>2, <3>3, <3>4 DEF Receive
  <2>2. QED
    BY <2>1, MaxFaultsAssumption DEF Fault, BoundsOK
<1>3. ASSUME NEW a \in Asks, Send(a) PROVE BoundsOK'
  <2>1. /\ req' = [req EXCEPT ![<<a, "stream">>].step = "open",
                              ![<<a, "stream">>].session = view.session]
        /\ view' = [view EXCEPT !.streaming = TRUE, !.ref = a]
        /\ run[a].phase = "none" /\ UNCHANGED log
    BY <1>3 DEF Send
  <2>2. /\ req[<<a, "stream">>].step = "unsent" /\ <<a, "stream">> \in Requests
        /\ a \in 0 .. MaxAsks /\ a # 0 /\ view.session \in Nat
    <3>1. <<a, "stream">> \in Requests /\ RunOK(a)
      BY DEF IInv, Requests
    <3>2. a \in 0 .. MaxAsks /\ a # 0 /\ view.session \in Nat
      BY <1>1, MaxAsksAssumption DEF Asks
    <3>3. QED
      BY <2>1, <3>1, <3>2 DEF RunOK
  <2>3. ViewOK'
    BY <1>1, <2>1, <2>2 DEF ViewOK
  <2>4. QED
    BY <1>1, <1>2, <2>1, <2>2, <2>3, RequestSent
<1>4. ASSUME NEW a \in Asks, FallBack(a) PROVE BoundsOK'
  <2>1. /\ req' = [req EXCEPT ![<<a, "full">>].step = "open",
                              ![<<a, "full">>].session = run[a].session]
        /\ view' = [view EXCEPT !.streaming = FALSE, !.loading = TRUE, !.ref = 0]
        /\ run[a].phase = "stream" /\ UNCHANGED log
    BY <1>4 DEF FallBack
  <2>2. /\ req[<<a, "full">>].step = "unsent" /\ <<a, "full">> \in Requests
        /\ run[a].session \in Nat
    BY <1>1, <2>1 DEF IInv, TypesOK, Run, RunOK, Requests
  <2>3. ViewOK'
    BY <1>1, <2>1 DEF ViewOK
  <2>4. QED
    BY <1>1, <1>2, <2>1, <2>2, <2>3, RequestSent
<1>5. ASSUME NEW a \in Asks, NEW k \in {"stream", "full"} PROVE req[<<a, k>>].session \in Nat
  BY <1>1 DEF TypesOK, Request, Requests
<1>6. ASSUME NEW a \in Asks, StreamDone(a) PROVE BoundsOK'
  <2>1. PICK n \in Nat : view' = [view EXCEPT !.session = n, !.streaming = FALSE, !.ref = 0]
    BY <1>5, <1>6 DEF StreamDone
  <2>2. ViewOK'
    BY <1>1, <2>1 DEF ViewOK
  <2>3. QED
    BY <1>1, <1>2, <1>6, <2>2, ViewGoesOn DEF StreamDone
<1>7. ASSUME NEW a \in Asks, FallbackDone(a) PROVE BoundsOK'
  <2>1. PICK n \in Nat : view' = [view EXCEPT !.session = n, !.loading = FALSE]
    BY <1>5, <1>7 DEF FallbackDone
  <2>2. ViewOK'
    BY <1>1, <2>1 DEF ViewOK
  <2>3. QED
    BY <1>1, <1>2, <1>7, <2>2, ViewGoesOn DEF FallbackDone
<1>8. ASSUME NEW a \in Asks, NEW b \in BOOLEAN, FallbackFailed(a, b) PROVE BoundsOK'
  <2>1. ViewOK' /\ UNCHANGED <<log, req>>
    BY <1>1, <1>8 DEF ViewOK, FallbackFailed
  <2>2. QED
    BY <1>1, <1>2, <2>1, ViewGoesOn
<1>9. ASSUME Stop PROVE BoundsOK'
  <2>1. ViewOK' /\ UNCHANGED <<log, req>>
    BY <1>1, <1>9 DEF ViewOK, Stop
  <2>2. QED
    BY <1>1, <1>2, <2>1, ViewGoesOn
<1>10. QED
  BY <1>3, <1>4, <1>6, <1>7, <1>8, <1>9 DEF Receive, StreamFailed, StreamBroken

\* Types of the log, the requests, the view and the clicks: among others there
\* are never more sessions than requests, and no call of the model is repeated
\* more than MaxRetries times.
THEOREM TypeCorrect == Spec => []TypeOK
<1>1. Init => BoundsOK
  <2> SUFFICES ASSUME Init PROVE BoundsOK
    OBVIOUS
  <2>1. log = << >> /\ Len(log) = 0
    BY DEF Init
  <2>2. IsFiniteSet(Opened) /\ Cardinality(Opened) \in Nat
    BY RequestsFinite, FS_Subset, FS_CardinalityType DEF Opened
  <2>3. ViewOK
    BY MaxAsksAssumption DEF Init, ViewOK
  <2>4. QED
    BY <2>1, <2>2, <2>3, MaxRetriesAssumption, MaxFaultsAssumption DEF Init, BoundsOK
<1>2. IInv /\ BoundsOK /\ [Next]_vars => BoundsOK'
  <2> SUFFICES ASSUME IInv, BoundsOK, [Next]_vars PROVE BoundsOK'
    OBVIOUS
  <2>1. CASE UNCHANGED vars
    BY <2>1 DEF vars, BoundsOK, ViewOK, Opened, HasOpened
  <2>2. QED
    BY <2>1, ServeBounds, BrowserBounds DEF Next
<1>3. IInv /\ BoundsOK => TypeOK
  <2> SUFFICES ASSUME IInv, BoundsOK PROVE TypeOK
    OBVIOUS
  <2>1. log \in Seq(Seq(Message)) /\ Len(log) \in Nat
    BY DEF IInv, TypesOK
  <2>2. Len(log) \in Sessions
    <3>1. IsFiniteSet(Opened) /\ Cardinality(Opened) <= Cardinality(Requests)
      BY RequestsFinite, FS_Subset DEF Opened
    <3>2. Cardinality(Opened) \in Nat
      BY <3>1, FS_CardinalityType
    <3>3. QED
      BY <2>1, <3>1, <3>2, RequestsFinite, MaxAsksAssumption DEF Sessions, BoundsOK
  <2>3. \A n \in 0 .. Len(log) : n \in Sessions
    BY <2>1, <2>2, MaxAsksAssumption DEF Sessions
  <2>4. req \in [Requests -> [step : Steps, session : Sessions, seen : Nat,
                              attempt : 0 .. MaxRetries, answer : {"none", "ok", "error"}]]
    <3>1. ASSUME NEW r \in Requests
          PROVE  req[r] \in [step : Steps, session : Sessions, seen : Nat,
                             attempt : 0 .. MaxRetries, answer : {"none", "ok", "error"}]
      <4>1. req[r] \in Request /\ req[r].session \in Sessions /\ req[r].attempt \in 0 .. MaxRetries
        BY <2>3 DEF IInv, TypesOK, RequestOK, BoundsOK
      <4>2. QED
        BY <4>1 DEF Request
    <3>2. QED
      BY <3>1 DEF IInv, TypesOK
  <2>5. run \in [Asks -> [phase : {"none", "stream", "fallback", "done"}, session : Sessions,
                          stopped : BOOLEAN, shown : {"none", "stream", "full"}]]
    <3>1. ASSUME NEW a \in Asks
          PROVE  run[a] \in [phase : {"none", "stream", "fallback", "done"}, session : Sessions,
                             stopped : BOOLEAN, shown : {"none", "stream", "full"}]
      <4>1. run[a] \in Run /\ run[a].session \in Sessions
        BY <2>3 DEF IInv, TypesOK, RunOK
      <4>2. QED
        BY <4>1 DEF Run
    <3>2. QED
      BY <3>1 DEF IInv, TypesOK
  <2>6. view \in [session : 0 .. Len(log), loading : BOOLEAN, streaming : BOOLEAN,
                  ref : 0 .. MaxAsks]
    <3>1. view.session \in 0 .. Len(log)
      BY DEF IInv, TypesOK
    <3>2. QED
      BY <3>1 DEF BoundsOK, ViewOK
  <2>7. QED
    BY <2>1, <2>2, <2>4, <2>5, <2>6 DEF TypeOK, BoundsOK, ViewOK
<1>4. QED
  BY <1>1, <1>2, <1>3, Inductive, PTL DEF Spec
-----------------------------------------------------------------------------
(* Refinement of Conversation.                                             *)

\* Asks are put in their order, each with its stream; a handler that is over has
\* answered; and in a calm conversation the ask under way is the last one.
TurnsOK ==
    /\ \E n \in 0 .. MaxAsks : \A a \in Asks : run[a].phase # "none" <=> a <= n
    /\ \A a \in Asks : run[a].phase # "none" => req[<<a, "stream">>].step # "unsent"
    /\ \A r \in Requests : req[r].step = "over" <=> req[r].answer # "none"
    /\ Calm => \A a, b \in Asks : Streaming(a) /\ run[b].phase # "none" => b <= a

DInv == CInv /\ TurnsOK

\* A step of a handler, as far as its request shows it.
LEMMA HandlerMoves ==
  ASSUME IInv, NEW p \in Requests, Serve(p) \/ Fail(p)
  PROVE  /\ UNCHANGED <<view, run>> /\ req[p].step \notin {"unsent", "over"}
         /\ \E x \in Request :
               /\ req' = [req EXCEPT ![p] = x] /\ x.step # "unsent"
               /\ \/ x.step = "over" /\ x.answer \in {"ok", "error"}
                  \/ x.step # "over" /\ x.answer = req[p].answer
               /\ Fail(p) \/ NoticeGone(p) => x.answer = "error"
               /\ StoreReply(p) => x.step = "over" /\ x.answer = "ok"
<1>1. /\ req[p] \in Request /\ log \in Seq(Seq(Message)) /\ Len(log) \in Nat /\ req \in [Requests -> Request]
      /\ req[p].session \in 0 .. Len(log)
  BY DEF IInv, TypesOK, RequestOK
<1>2. CASE Fail(p) \/ NoticeGone(p) \/ StoreReply(p)
  <2>1. /\ UNCHANGED <<view, run>> /\ req[p].step \notin {"unsent", "over"}
    BY <1>2 DEF Fail, NoticeGone, StoreReply, At
  <2>2. ASSUME Fail(p) \/ NoticeGone(p), StoreReply(p) PROVE FALSE
    <3>1. "ok" # "error"
      OBVIOUS
    <3>2. EndWith(p, "error") /\ EndWith(p, "ok")
      BY <2>2 DEF Fail, NoticeGone, StoreReply
    <3>3. req'[p].answer = "error" /\ req'[p].answer = "ok"
      BY <1>1, <3>2 DEF EndWith
    <3>4. QED
      BY <3>1, <3>3
  <2>3. CASE Fail(p) \/ NoticeGone(p)
    <3>1. EndWith(p, "error")
      BY <2>3 DEF Fail, NoticeGone
    <3>2. PICK x \in Request : /\ req' = [req EXCEPT ![p] = x] /\ x.session = req[p].session
                               /\ x.step = "over" /\ x.answer = "error"
      BY <3>1, Ended
    <3>3. QED
      BY <2>1, <2>2, <2>3, <3>2
  <2>4. CASE StoreReply(p)
    <3>1. EndWith(p, "ok")
      BY <2>4 DEF StoreReply
    <3>2. PICK x \in Request : /\ req' = [req EXCEPT ![p] = x] /\ x.session = req[p].session
                               /\ x.step = "over" /\ x.answer = "ok"
      BY <3>1, Ended
    <3>3. QED
      BY <2>1, <2>2, <2>4, <3>2
  <2>5. QED
    BY <1>2, <2>3, <2>4
<1>3. CASE OpenSession(p) \/ InsertQuestion(p) \/ ReadHistory(p) \/ CallModel(p) \/ StreamEnds(p)
  <2>1. /\ UNCHANGED <<view, run>> /\ req[p].step \in {"open", "history", "model"}
    BY <1>3 DEF OpenSession, InsertQuestion, ReadHistory, CallModel, StreamEnds, At
  <2>3. \E x \in Request : /\ req' = [req EXCEPT ![p] = x] /\ x.step \notin {"unsent", "over"}
                           /\ x.answer = req[p].answer
    <3>1. CASE OpenSession(p)
      <4> DEFINE n == Len(log) + 1
                 x == [req[p] EXCEPT !.session = n]
      <4>1. n \in Nat /\ req' = [req EXCEPT ![p] = x]
        BY <1>1, <3>1 DEF OpenSession
      <4> HIDE DEF n
      <4>2. x \in Request /\ x.step = req[p].step /\ x.answer = req[p].answer
        BY <1>1, <4>1 DEF Request
      <4>3. QED
        BY <2>1, <4>1, <4>2
    <3>2. CASE InsertQuestion(p)
      <4> DEFINE x == [req[p] EXCEPT !.step = "history"]
      <4>1. /\ req' = [req EXCEPT ![p] = x] /\ x \in Request /\ x.step = "history"
            /\ x.answer = req[p].answer
        BY <1>1, <3>2 DEF InsertQuestion, GoTo, Request, Steps
      <4>2. QED
        BY <4>1
    <3>3. CASE ReadHistory(p)
      <4> DEFINE n == Len(log[req[p].session])
                 x == [req[p] EXCEPT !.step = "model", !.seen = n]
      <4>1. req' = [req EXCEPT ![p] = x] /\ At(p, "history")
        BY <3>3 DEF ReadHistory
      <4>2. n \in Nat
        <5>1. req[p].session \in 1 .. Len(log)
          BY <1>1, <4>1 DEF IInv, RequestOK, At
        <5>2. log[req[p].session] \in Seq(Message)
          BY <1>1, <5>1, ElementOfSeq
        <5>3. QED
          BY <5>2
      <4> HIDE DEF n
      <4>3. x \in Request /\ x.step = "model" /\ x.answer = req[p].answer
        BY <1>1, <4>2 DEF Request, Steps
      <4>4. QED
        BY <4>1, <4>3
    <3>4. CASE (CallModel(p) \/ StreamEnds(p)) /\ GoTo(p, "store")
      <4> DEFINE x == [req[p] EXCEPT !.step = "store"]
      <4>1. /\ req' = [req EXCEPT ![p] = x] /\ x \in Request /\ x.step = "store"
            /\ x.answer = req[p].answer
        BY <1>1, <3>4 DEF GoTo, Request, Steps
      <4>2. QED
        BY <4>1
    <3>5. CASE CallModel(p) /\ ~GoTo(p, "store")
      <4> DEFINE n == req[p].attempt + 1
                 x == [req[p] EXCEPT !.attempt = n]
      <4>1. req' = [req EXCEPT ![p].attempt = @ + 1]
        BY <3>5 DEF CallModel
      <4>2. req' = [req EXCEPT ![p] = x]
        BY <4>1
      <4>3. n \in Nat
        BY <1>1 DEF Request
      <4> HIDE DEF n
      <4>4. x \in Request /\ x.step = req[p].step /\ x.answer = req[p].answer
        BY <1>1, <4>3 DEF Request
      <4>5. QED
        BY <2>1, <4>2, <4>4
    <3>6. QED
      BY <1>3, <3>1, <3>2, <3>3, <3>4, <3>5 DEF StreamEnds
  <2>4. PICK x \in Request : /\ req' = [req EXCEPT ![p] = x] /\ x.step \notin {"unsent", "over"}
                             /\ x.answer = req[p].answer
    BY <2>3
  <2>5. req'[p].step # "over"
    BY <1>1, <2>4
  <2>6. ~Fail(p) /\ ~NoticeGone(p) /\ ~StoreReply(p)
    <3>1. ASSUME NEW answer, EndWith(p, answer) PROVE FALSE
      BY <1>1, <2>5, <3>1 DEF EndWith
    <3>2. QED
      BY <3>1 DEF Fail, NoticeGone, StoreReply
  <2>7. QED
    BY <2>1, <2>4, <2>6
<1>4. QED
  BY <1>2, <1>3 DEF Serve

\* The handlers keep the order of the asks.
LEMMA HandlerTurns ==
  ASSUME DInv, NEW p \in Requests, Serve(p) \/ Fail(p)
  PROVE  TurnsOK'
<1>1. PICK x \in Request :
        /\ req' = [req EXCEPT ![p] = x] /\ x.step # "unsent"
        /\ \/ x.step = "over" /\ x.answer \in {"ok", "error"}
           \/ x.step # "over" /\ x.answer = req[p].answer
  BY HandlerMoves DEF DInv, CInv
<1>2. UNCHANGED run /\ req[p].step \notin {"unsent", "over"}
  BY HandlerMoves DEF DInv, CInv
<1>3. req'[p] = x /\ \A r \in Requests \ {p} : req'[r] = req[r]
  BY <1>1 DEF DInv, CInv, IInv, TypesOK
<1>4. \A r \in Requests : req'[r].step = "over" <=> req'[r].answer # "none"
  BY <1>1, <1>2, <1>3 DEF DInv, TurnsOK
<1>5. \A a \in Asks : run'[a].phase # "none" => req'[<<a, "stream">>].step # "unsent"
  BY <1>1, <1>2, <1>3 DEF DInv, TurnsOK, Requests
<1>6. Calm' => Calm
  <2>1. \A a \in Asks : <<a, "full">> \in Requests
    BY DEF Requests
  <2>2. QED
    BY <1>1, <1>2, <1>3, <2>1 DEF Calm
<1>7. QED
  BY <1>2, <1>4, <1>5, <1>6 DEF DInv, TurnsOK, Streaming

\* The view goes on, without a new ask.
LEMMA ViewTurns ==
  ASSUME DInv,
         \A r \in Requests : req'[r].step = "over" <=> req'[r].answer # "none",
         \A r \in Requests : req[r].step # "unsent" => req'[r].step # "unsent",
         \A a \in Asks : /\ run'[a].phase = "none" <=> run[a].phase = "none"
                         /\ Streaming(a)' => Streaming(a)
                         /\ run[a].stopped => run'[a].stopped
  PROVE  TurnsOK'
<1>1. \A a \in Asks : <<a, "full">> \in Requests /\ <<a, "stream">> \in Requests
  BY DEF Requests
<1>2. Calm' => Calm
  BY <1>1 DEF Calm
<1>3. \A a \in Asks : run'[a].phase # "none" => req'[<<a, "stream">>].step # "unsent"
  BY <1>1 DEF DInv, TurnsOK
<1>4. Calm' => \A a, b \in Asks : Streaming(a)' /\ run'[b].phase # "none" => b <= a
  BY <1>2 DEF DInv, TurnsOK
<1>5. \E n \in 0 .. MaxAsks : \A a \in Asks : run'[a].phase # "none" <=> a <= n
  BY DEF DInv, TurnsOK
<1>6. QED
  BY <1>3, <1>4, <1>5 DEF TurnsOK

LEMMA SendTurns ==
  ASSUME DInv, NEW a \in Asks, Send(a)
  PROVE  /\ TurnsOK'
         /\ \E n \in 0 .. MaxAsks - 1 :
              /\ a = n + 1
              /\ \A b \in Asks : run[b].phase # "none" <=> b <= n
              /\ \A b \in Asks : run'[b].phase # "none" <=> b <= n + 1
<1> DEFINE p == <<a, "stream">>
<1>1. /\ run[a].phase = "none" /\ \A b \in Asks : b < a => run[b].phase # "none"
      /\ run' = [run EXCEPT ![a].phase = "stream", ![a].session = view.session]
      /\ req' = [req EXCEPT ![p].step = "open", ![p].session = view.session]
  BY DEF Send
<1>2. /\ TypesOK /\ p \in Requests
      /\ \A b \in Asks : <<b, "stream">> \in Requests /\ <<b, "full">> \in Requests
  BY DEF DInv, CInv, IInv, Requests
<1>3. /\ \A b \in Asks \ {a} : run'[b] = run[b]
      /\ run'[a].phase = "stream" /\ run'[a].stopped = run[a].stopped
  BY <1>1, <1>2 DEF TypesOK, Run
<1>4. /\ \A r \in Requests \ {p} : req'[r] = req[r]
      /\ req'[p].step = "open" /\ req'[p].answer = req[p].answer
  BY <1>1, <1>2 DEF TypesOK, Request
<1>5. req[p].step = "unsent"
  BY <1>1 DEF DInv, CInv, IInv, RunOK
<1>6. PICK n \in 0 .. MaxAsks : \A b \in Asks : run[b].phase # "none" <=> b <= n
  BY DEF DInv, TurnsOK
<1>7. a \in 1 .. MaxAsks /\ MaxAsks \in Nat /\ n \in Nat
  BY <1>6, MaxAsksAssumption DEF Asks
<1>8. a = n + 1
  <2>1. a > n
    BY <1>1, <1>6, <1>7
  <2>2. CASE a > n + 1
    <3>1. n + 1 \in Asks /\ n + 1 < a
      BY <1>7, <2>2 DEF Asks
    <3>2. n + 1 <= n
      BY <1>1, <1>6, <3>1
    <3>3. QED
      BY <1>7, <3>2
  <2>3. QED
    BY <1>7, <2>1, <2>2
<1>9. ASSUME NEW b \in Asks PROVE run'[b].phase # "none" <=> b <= n + 1
  <2>1. b \in Nat
    BY MaxAsksAssumption DEF Asks
  <2>2. CASE b = a
    BY <1>3, <1>8, <2>2, <1>7
  <2>3. CASE b # a
    <3>1. run'[b].phase # "none" <=> b <= n
      BY <1>3, <1>6, <2>3
    <3>2. QED
      BY <1>7, <1>8, <2>1, <2>3, <3>1
  <2>4. QED
    BY <2>2, <2>3
<1>10. \A r \in Requests : req'[r].step = "over" <=> req'[r].answer # "none"
  BY <1>4, <1>5 DEF DInv, TurnsOK
<1> HIDE DEF p
<1>11. ASSUME NEW b \in Asks, run'[b].phase # "none" PROVE req'[<<b, "stream">>].step # "unsent"
  <2>1. CASE <<b, "stream">> = p
    BY <1>4, <2>1
  <2>2. CASE <<b, "stream">> # p
    <3>1. b # a
      BY <2>2 DEF p
    <3>2. QED
      BY <1>2, <1>3, <1>4, <1>11, <2>2, <3>1 DEF DInv, TurnsOK
  <2>3. QED
    BY <2>1, <2>2
<1>12. ASSUME Calm', NEW b \in Asks, NEW c \in Asks, Streaming(b)', run'[c].phase # "none"
       PROVE  c <= b
  <2>1. Calm
    BY <1>2, <1>3, <1>4, <1>12 DEF Calm, p
  <2>2. ~view.streaming /\ CalmOK
    BY <2>1 DEF Send, DInv, CInv
  <2>3. b = a
    BY <1>3, <1>12, <2>2 DEF CalmOK, Streaming
  <2>4. QED
    BY <1>8, <1>9, <1>12, <2>3
<1>13. n + 1 \in 0 .. MaxAsks /\ n \in 0 .. MaxAsks - 1
  BY <1>7, <1>8
<1>14. TurnsOK'
  BY <1>9, <1>10, <1>11, <1>12, <1>13 DEF TurnsOK
<1>15. QED
  BY <1>6, <1>8, <1>9, <1>13, <1>14

\* A fallback is opened where none was sent.
LEMMA FallBackTurns ==
  ASSUME DInv, NEW a \in Asks, FallBack(a)
  PROVE  TurnsOK'
<1> DEFINE p == <<a, "full">>
<1>1. /\ run[a].phase = "stream" /\ run' = [run EXCEPT ![a].phase = "fallback"]
      /\ req' = [req EXCEPT ![p].step = "open", ![p].session = run[a].session]
  BY DEF FallBack
<1>2. TypesOK /\ p \in Requests /\ RunOK(a)
  BY DEF DInv, CInv, IInv, Requests
<1>3. /\ \A b \in Asks \ {a} : run'[b] = run[b]
      /\ run'[a].phase = "fallback" /\ run'[a].stopped = run[a].stopped
  BY <1>1, <1>2 DEF TypesOK, Run
<1>4. /\ \A r \in Requests \ {p} : req'[r] = req[r]
      /\ req'[p].step = "open" /\ req'[p].answer = req[p].answer
  BY <1>1, <1>2 DEF TypesOK, Request
<1>5. req[p].step = "unsent"
  BY <1>1, <1>2 DEF RunOK
<1> HIDE DEF p
<1>6. \A r \in Requests : /\ req'[r].step = "over" <=> req'[r].answer # "none"
                          /\ req[r].step # "unsent" => req'[r].step # "unsent"
  BY <1>4, <1>5 DEF DInv, TurnsOK
<1>7. \A b \in Asks : /\ run'[b].phase = "none" <=> run[b].phase = "none"
                      /\ Streaming(b)' => Streaming(b)
                      /\ run[b].stopped => run'[b].stopped
  BY <1>1, <1>3 DEF Streaming
<1>8. QED
  BY <1>6, <1>7, ViewTurns

LEMMA StopTurns ==
  ASSUME DInv, Stop
  PROVE  TurnsOK'
<1>1. UNCHANGED req /\ run' = [run EXCEPT ![view.ref].stopped = TRUE] /\ run \in [Asks -> Run]
  BY DEF Stop, DInv, CInv, IInv, TypesOK
<1>2. ASSUME NEW b \in Asks
      PROVE  run'[b].phase = run[b].phase /\ (run[b].stopped => run'[b].stopped)
  BY <1>1 DEF Run
<1>3. \A b \in Asks : Streaming(b)' => Streaming(b)
  BY <1>2 DEF Streaming
<1>4. QED
  BY <1>1, <1>2, <1>3, ViewTurns DEF DInv, TurnsOK

\* An answer arrives, or none.
LEMMA ReceiveTurns ==
  ASSUME DInv, NEW a \in Asks,
         StreamDone(a) \/ FallbackDone(a) \/ (\E late \in BOOLEAN : FallbackFailed(a, late))
  PROVE  TurnsOK'
<1>1. UNCHANGED req /\ run \in [Asks -> Run] /\ run[a].phase # "none"
  BY DEF StreamDone, FallbackDone, FallbackFailed, DInv, CInv, IInv, TypesOK
<1>2. /\ \A b \in Asks \ {a} : run'[b] = run[b]
      /\ run'[a].phase = "done" /\ run'[a].stopped = run[a].stopped
  BY <1>1 DEF StreamDone, FallbackDone, FallbackFailed, Run
<1>3. \A b \in Asks : /\ run'[b].phase = "none" <=> run[b].phase = "none"
                      /\ Streaming(b)' => Streaming(b)
                      /\ run[b].stopped => run'[b].stopped
  BY <1>1, <1>2 DEF Streaming
<1>4. QED
  BY <1>1, <1>3, ViewTurns DEF DInv, TurnsOK

LEMMA NextDInv == DInv /\ [Next]_vars => DInv'
<1> SUFFICES ASSUME DInv, [Next]_vars PROVE DInv'
  OBVIOUS
<1>1. CInv'
  BY NextCInv DEF DInv
<1>2. CASE UNCHANGED vars
  BY <1>1, <1>2 DEF vars, DInv, TurnsOK, Calm, Streaming
<1>3. ASSUME NEW a \in Asks,
             Send(a) \/ Receive(a) \/ StreamBroken(a) \/ FallbackFailed(a, TRUE)
      PROVE  TurnsOK'
  BY <1>3, SendTurns, FallBackTurns, ReceiveTurns DEF Receive, StreamFailed, StreamBroken
<1>4. QED
  BY <1>1, <1>2, <1>3, HandlerTurns, StopTurns DEF Next, DInv

LEMMA InitDInv == Init => DInv
<1> SUFFICES ASSUME Init PROVE DInv
  OBVIOUS
<1>1. 0 \in 0 .. MaxAsks /\ \A a \in Asks : run[a].phase = "none" /\ ~(a <= 0)
  BY MaxAsksAssumption DEF Init, Asks
<1>2. TurnsOK
  BY <1>1 DEF Init, TurnsOK, Streaming
<1>3. QED
  BY <1>2, InitCInv DEF DInv

\* What the mapping makes of the tables and of the clicks.
RecordOf(tables) == IF tables = << >> THEN << >> ELSE tables[1]
ClickedIn(runs) ==
    CHOOSE n \in 0 .. MaxAsks : \A a \in Asks : runs[a].phase # "none" <=> a <= n
StageOf(step) == CASE step = "open" -> "asking"
                   [] step = "over" -> "answered"
                   [] OTHER -> "waiting"

LEMMA ClickedIs ==
  ASSUME NEW runs, NEW n \in 0 .. MaxAsks, \A a \in Asks : runs[a].phase # "none" <=> a <= n
  PROVE  ClickedIn(runs) = n
<1>1. PICK m \in 0 .. MaxAsks : /\ m = ClickedIn(runs)
                               /\ \A a \in Asks : runs[a].phase # "none" <=> a <= m
  BY DEF ClickedIn
<1>2. MaxAsks \in Nat
  BY MaxAsksAssumption
<1>3. CASE m < n
  <2>1. n \in Asks /\ n <= n
    BY <1>1, <1>2, <1>3 DEF Asks
  <2>2. n <= m
    BY <1>1, <2>1
  <2>3. QED
    BY <1>1, <1>2, <1>3, <2>2
<1>4. CASE n < m
  <2>1. m \in Asks /\ m <= m
    BY <1>1, <1>2, <1>4 DEF Asks
  <2>2. m <= n
    BY <1>1, <2>1
  <2>3. QED
    BY <1>1, <1>2, <1>4, <2>2
<1>5. m \in Nat /\ n \in Nat
  BY <1>1, <1>2
<1>6. CASE m = n
  BY <1>1, <1>6
<1>7. QED
  BY <1>3, <1>4, <1>5, <1>6

\* Where the abstract conversation stands.
StageKnown ==
    ~Disturbed =>
       /\ (\A a \in Asks : ~Streaming(a)) => dialogueStage = "idle"
       /\ \A a \in Asks : Streaming(a) =>
             /\ Clicked = a /\ dialogueStage = StageOf(req[<<a, "stream">>].step)
             /\ req[<<a, "stream">>].step # "unsent" /\ req[<<a, "stream">>].answer # "error"

LEMMA StageNow == DInv => StageKnown
<1> SUFFICES ASSUME DInv, ~Disturbed
             PROVE  /\ (\A a \in Asks : ~Streaming(a)) => dialogueStage = "idle"
                    /\ \A a \in Asks : Streaming(a) =>
                         /\ Clicked = a /\ dialogueStage = StageOf(req[<<a, "stream">>].step)
                         /\ req[<<a, "stream">>].step # "unsent"
                         /\ req[<<a, "stream">>].answer # "error"
  BY DEF StageKnown
<1>1. CalmOK /\ Calm /\ TurnsOK
  BY DEF Disturbed, DInv, CInv
<1>2. \A a \in Asks : Underway(a) <=> Streaming(a)
  BY <1>1 DEF CalmOK, Underway, Streaming
<1>3. ASSUME NEW a \in Asks, Streaming(a)
      PROVE  /\ Clicked = a /\ dialogueStage = StageOf(req[<<a, "stream">>].step)
             /\ req[<<a, "stream">>].step # "unsent" /\ req[<<a, "stream">>].answer # "error"
  <2>1. PICK n \in 0 .. MaxAsks : \A b \in Asks : run[b].phase # "none" <=> b <= n
    BY <1>1 DEF TurnsOK
  <2>2. a \in 1 .. MaxAsks /\ MaxAsks \in Nat
    BY MaxAsksAssumption DEF Asks
  <2>3. a <= n
    BY <1>3, <2>1 DEF Streaming
  <2>4. n <= a
    <3>1. n \in Asks /\ run[n].phase # "none"
      BY <2>1, <2>2, <2>3 DEF Asks
    <3>2. QED
      BY <1>1, <1>3, <3>1 DEF TurnsOK
  <2>5. n = a
    BY <2>1, <2>2, <2>3, <2>4
  <2>6. Clicked = a
    BY <2>1, <2>5, ClickedIs DEF ClickedIn, Clicked
  <2>7. dialogueStage = StageOf(req[<<a, "stream">>].step)
    BY <1>2, <1>3, <2>6 DEF dialogueStage, StageOf
  <2>8. req[<<a, "stream">>].step # "unsent"
    BY <1>1, <1>3 DEF TurnsOK, Streaming
  <2>9. req[<<a, "stream">>].answer # "error"
    BY <1>3 DEF Disturbed, Streaming
  <2>10. QED
    BY <2>6, <2>7, <2>8, <2>9
<1>4. (\A a \in Asks : ~Streaming(a)) => dialogueStage = "idle"
  BY <1>2 DEF dialogueStage
<1>5. QED
  BY <1>3, <1>4

LEMMA StageThen == DInv' => StageKnown'
<1>1. QED
  BY StageNow, PTL

\* The number of clicks does not go down.
LEMMA ClickedGrows ==
  ASSUME DInv, [Next]_vars
  PROVE  /\ Clicked \in 0 .. MaxAsks /\ Clicked' \in Clicked .. MaxAsks
         /\ UNCHANGED run => Clicked' = Clicked
<1>1. PICK n \in 0 .. MaxAsks : \A a \in Asks : run[a].phase # "none" <=> a <= n
  BY DEF DInv, TurnsOK
<1>2. PICK m \in 0 .. MaxAsks : \A a \in Asks : run'[a].phase # "none" <=> a <= m
  BY NextDInv DEF DInv, TurnsOK
<1>3. Clicked = n /\ Clicked' = m
  BY <1>1, <1>2, ClickedIs DEF Clicked, ClickedIn
<1>4. ASSUME NEW a \in Asks, run[a].phase # "none" PROVE run'[a].phase # "none"
  <2>1. run \in [Asks -> Run] /\ req \in [Requests -> Request]
    BY DEF DInv, CInv, IInv, TypesOK
  <2>2. CASE UNCHANGED run
    BY <1>4, <2>2
  <2>3. ASSUME NEW b \in Asks,
               Send(b) \/ Receive(b) \/ StreamBroken(b) \/ FallbackFailed(b, TRUE)
        PROVE  run'[a].phase # "none"
    <3>1. CASE Send(b)
      BY <1>4, <2>1, <3>1 DEF Send
    <3>2. CASE StreamDone(b)
      BY <1>4, <2>1, <3>2 DEF StreamDone, Run
    <3>3. CASE FallBack(b)
      BY <1>4, <2>1, <3>3 DEF FallBack, Run
    <3>4. CASE FallbackDone(b)
      BY <1>4, <2>1, <3>4 DEF FallbackDone, Run
    <3>5. CASE \E late \in BOOLEAN : FallbackFailed(b, late)
      BY <1>4, <2>1, <3>5 DEF FallbackFailed, Run
    <3>6. QED
      BY <2>3, <3>1, <3>2, <3>3, <3>4, <3>5 DEF Receive, StreamFailed, StreamBroken
  <2>4. CASE Stop
    BY <1>4, <2>1, <2>4 DEF Stop, Run
  <2>5. CASE \E r \in Requests : Serve(r) \/ Fail(r)
    BY <2>2, <2>5, HandlerMoves DEF DInv, CInv
  <2>6. QED
    BY <2>2, <2>3, <2>4, <2>5 DEF Next, vars
<1>5. n <= m
  <2>1. MaxAsks \in Nat
    BY MaxAsksAssumption
  <2>2. CASE n = 0
    BY <1>2, <2>1, <2>2
  <2>3. CASE n # 0
    <3>1. n \in Asks
      BY <1>1, <2>1, <2>3 DEF Asks
    <3>2. n <= n
      BY <1>1, <2>1
    <3>3. QED
      BY <1>1, <1>2, <1>4, <3>1, <3>2
  <2>4. QED
    BY <2>2, <2>3
<1>6. UNCHANGED run => Clicked' = Clicked
  BY DEF Clicked
<1>7. QED
  BY <1>1, <1>2, <1>3, <1>5, <1>6, MaxAsksAssumption

\* Nothing is lost from the first session, and nothing in it is changed.
LEMMA RecordKept ==
  ASSUME IInv, [Next]_vars
  PROVE  /\ Len(RecordOf(log)) <= Len(RecordOf(log'))
         /\ \A i \in 1 .. Len(RecordOf(log)) : RecordOf(log')[i] = RecordOf(log)[i]
<1>1. log \in Seq(Seq(Message)) /\ TypesOK
  BY DEF IInv, TypesOK
<1>2. /\ RecordOf(log) \in Seq(Message) /\ Len(RecordOf(log)) \in Nat
      /\ log # << >> => 1 \in 1 .. Len(log)
  <2>1. CASE log = << >>
    BY <2>1 DEF RecordOf
  <2>2. CASE log # << >>
    <3>1. 1 \in 1 .. Len(log)
      BY <1>1, <2>2
    <3>2. log[1] \in Seq(Message)
      BY <1>1, <3>1, ElementOfSeq
    <3>3. QED
      BY <2>2, <3>1, <3>2 DEF RecordOf
  <2>3. QED
    BY <2>1, <2>2
<1>3. CASE UNCHANGED log
  BY <1>2, <1>3
<1>4. CASE log' = Append(log, << >>)
  <2>1. CASE log = << >>
    <3>1. RecordOf(log) = << >> /\ RecordOf(log') = << >>
      BY <1>4, <2>1 DEF RecordOf
    <3>2. QED
      BY <3>1
  <2>2. CASE log # << >>
    <3>1. log' # << >> /\ log'[1] = log[1]
      BY <1>1, <1>2, <1>4, <2>2
    <3>2. RecordOf(log') = RecordOf(log)
      BY <2>2, <3>1 DEF RecordOf
    <3>3. QED
      BY <1>2, <3>2
  <2>3. QED
    BY <2>1, <2>2
<1>5. ASSUME NEW s \in 1 .. Len(log), NEW entries \in Seq(Message), Store(s, entries)
      PROVE  /\ Len(RecordOf(log)) <= Len(RecordOf(log'))
             /\ \A i \in 1 .. Len(RecordOf(log)) : RecordOf(log')[i] = RecordOf(log)[i]
  <2>1. log[s] \in Seq(Message) /\ log[s] \o entries \in Seq(Message)
    BY <1>1, ElementOfSeq, ConcatProperties
  <2>2. /\ log' \in Seq(Seq(Message)) /\ Len(log') = Len(log)
        /\ log'[s] = log[s] \o entries
        /\ \A t \in 1 .. Len(log) \ {s} : log'[t] = log[t]
    BY <1>1, <1>5, <2>1, ExceptSeq DEF Store
  <2>3. log # << >> /\ log' # << >>
    BY <1>1, <1>5, <2>2
  <2>4. CASE s = 1
    <3>1. RecordOf(log') = RecordOf(log) \o entries
      BY <2>2, <2>3, <2>4 DEF RecordOf
    <3>2. QED
      BY <1>2, <3>1, ConcatProperties
  <2>5. CASE s # 1
    <3>1. RecordOf(log') = RecordOf(log)
      BY <1>2, <2>2, <2>3, <2>5 DEF RecordOf
    <3>2. QED
      BY <1>2, <3>1
  <2>6. QED
    BY <2>4, <2>5
<1>6. ASSUME NEW p \in Requests, Serve(p) \/ Fail(p)
      PROVE  \/ UNCHANGED log \/ log' = Append(log, << >>)
             \/ \E s \in 1 .. Len(log), entries \in Seq(Message) : Store(s, entries)
  <2>1. RequestOK(p) /\ req[p].session \in 0 .. Len(log)
    BY DEF IInv, RequestOK
  <2>2. ASSUME req[p].session # 0 PROVE req[p].session \in 1 .. Len(log)
    BY <1>1, <2>1, <2>2
  <2>3. CASE InsertQuestion(p)
    <3>1. Store(req[p].session, <<Question(p)>>) /\ req[p].session # 0
      BY <2>3 DEF InsertQuestion, Question
    <3>2. QED
      BY <2>2, <3>1, Entries
  <2>4. CASE StoreReply(p)
    <3>1. Store(req[p].session, Full(p)) /\ req[p].session # 0
      BY <2>1, <2>4 DEF StoreReply, At, RequestOK
    <3>2. QED
      BY <2>2, <3>1, Entries
  <2>5. CASE Fail(p) /\ req[p].session # 0
    <3>1. PICK full \in LateReply(p), partial \in Interrupted(p) :
             Store(req[p].session, full \o partial)
      BY <2>5 DEF Fail
    <3>2. full \o partial \in Seq(Message)
      BY LeftoversOK
    <3>3. QED
      BY <2>2, <2>5, <3>1, <3>2
  <2>6. QED
    BY <1>6, <2>3, <2>4, <2>5
    DEF Serve, OpenSession, ReadHistory, CallModel, StreamEnds, NoticeGone, Fail
<1>7. ASSUME ~UNCHANGED log PROVE \E p \in Requests : Serve(p) \/ Fail(p)
  BY <1>7 DEF Next, vars, Send, Receive, StreamDone, StreamFailed, FallBack, StreamBroken,
              FallbackDone, FallbackFailed, Stop
<1>8. QED
  BY <1>3, <1>4, <1>5, <1>6, <1>7

\* Calm does not come back.
LEMMA CalmBefore ==
  ASSUME DInv, [Next]_vars, Calm'
  PROVE  Calm
<1>1. /\ run \in [Asks -> Run] /\ req \in [Requests -> Request]
      /\ \A a \in Asks : <<a, "full">> \in Requests /\ <<a, "stream">> \in Requests
  BY DEF DInv, CInv, IInv, TypesOK, Requests
<1>2. CASE UNCHANGED vars
  BY <1>2 DEF vars, Calm
<1>3. ASSUME NEW p \in Requests, Serve(p) \/ Fail(p) PROVE Calm
  <2>1. PICK x \in Request : req' = [req EXCEPT ![p] = x] /\ x.step # "unsent"
    BY <1>3, HandlerMoves DEF DInv, CInv
  <2>2. UNCHANGED run
    BY <1>3, HandlerMoves DEF DInv, CInv
  <2>3. QED
    BY <1>1, <2>1, <2>2 DEF Calm
<1>4. ASSUME NEW a \in Asks, Send(a) PROVE Calm
  BY <1>1, <1>4 DEF Calm, Send, Run, Request
<1>5. ASSUME NEW a \in Asks, Receive(a) \/ StreamBroken(a) \/ FallbackFailed(a, TRUE) PROVE Calm
  <2>1. StreamDone(a)
    BY <1>5, CalmEnds DEF DInv, Receive, StreamFailed, StreamBroken
  <2>2. QED
    BY <1>1, <2>1 DEF Calm, StreamDone, Run
<1>6. CASE Stop
  <2>1. UNCHANGED req /\ run' = [run EXCEPT ![view.ref].stopped = TRUE]
    BY <1>6 DEF Stop
  <2>2. QED
    BY <1>1, <2>1 DEF Calm, Run
<1>7. QED
  BY <1>2, <1>3, <1>4, <1>5, <1>6 DEF Next

\* Nor does what was undisturbed.
LEMMA StaysDisturbed ==
  ASSUME DInv, [Next]_vars, Disturbed
  PROVE  Disturbed'
<1> SUFFICES ASSUME Calm' PROVE Disturbed'
  BY DEF Disturbed
<1>1. Calm
  BY CalmBefore
<1>2. PICK a \in Asks : run[a].phase = "stream" /\ req[<<a, "stream">>].answer = "error"
  BY <1>1 DEF Disturbed
<1> DEFINE r == <<a, "stream">>
<1>3. /\ r \in Requests /\ req[r].step = "over" /\ req \in [Requests -> Request]
      /\ run \in [Asks -> Run]
  BY <1>2 DEF DInv, TurnsOK, CInv, IInv, TypesOK, Requests
<1> HIDE DEF r
<1>4. run'[a].phase = "stream" /\ req'[r].answer = "error"
  <2>1. CASE UNCHANGED vars
    BY <1>2, <2>1 DEF vars, r
  <2>2. ASSUME NEW p \in Requests, Serve(p) \/ Fail(p) PROVE UNCHANGED run /\ req'[r] = req[r]
    BY <1>3, <2>2, HandlerMoves DEF DInv, CInv
  <2>3. ASSUME NEW b \in Asks, Send(b) PROVE run'[a] = run[a] /\ req'[r] = req[r]
    <3>1. b # a /\ <<b, "stream">> # r
      BY <1>2, <2>3 DEF Send, r
    <3>2. QED
      BY <1>3, <2>3, <3>1 DEF Send
  <2>4. ASSUME NEW b \in Asks, Receive(b) \/ StreamBroken(b) \/ FallbackFailed(b, TRUE)
        PROVE  run'[a] = run[a] /\ UNCHANGED req
    <3>1. StreamDone(b)
      BY <2>4, CalmEnds DEF DInv, Receive, StreamFailed, StreamBroken
    <3>2. b # a
      BY <1>2, <3>1 DEF StreamDone
    <3>3. QED
      BY <1>3, <3>1, <3>2 DEF StreamDone
  <2>5. ~Stop
    BY <1>2, CalmEnds DEF DInv
  <2>6. QED
    BY <1>2, <2>1, <2>2, <2>3, <2>4, <2>5 DEF Next, r
<1>5. QED
  BY <1>4 DEF Disturbed, r

\* A handler at work in a calm conversation, as the abstract conversation sees it.
LEMMA CalmHandler ==
  ASSUME DInv, ~Disturbed, NEW p \in Requests, Serve(p) \/ Fail(p)
  PROVE  /\ p[1] \in Asks /\ p = <<p[1], "stream">> /\ StageOK(p) /\ Len(log) <= 1
         /\ Clicked = p[1] /\ dialogueStage = StageOf(req[p].step) /\ Clicked' = p[1]
         /\ ~Fail(p) /\ ~NoticeGone(p) => dialogueStage' = StageOf(req'[p].step)
         /\ Fail(p) \/ NoticeGone(p) => dialogueStage' = "disturbed"
<1> DEFINE a == p[1]
<1>1. /\ UNCHANGED run /\ req[p].step \notin {"unsent", "over"}
      /\ \E x \in Request :
               /\ req' = [req EXCEPT ![p] = x] /\ x.step # "unsent"
               /\ \/ x.step = "over" /\ x.answer \in {"ok", "error"}
                  \/ x.step # "over" /\ x.answer = req[p].answer
               /\ Fail(p) \/ NoticeGone(p) => x.answer = "error"
               /\ StoreReply(p) => x.step = "over" /\ x.answer = "ok"
  BY HandlerMoves DEF DInv, CInv
<1>2. Calm
  BY DEF Disturbed
<1>3. /\ a \in Asks /\ p = <<a, "stream">> /\ Streaming(a) /\ StageOK(p) /\ Len(log) <= 1
  BY <1>1, <1>2, OneHandler DEF DInv
<1>4. /\ Clicked = a /\ dialogueStage = StageOf(req[p].step)
      /\ req[p].answer # "error"
  BY <1>3, StageNow DEF StageKnown
<1>5. DInv' /\ StageKnown'
  BY NextDInv, StageThen DEF Next
<1>6. Clicked' = a
  BY <1>1, <1>4 DEF Clicked
<1>7. /\ req \in [Requests -> Request] /\ run \in [Asks -> Run]
      /\ \A b \in Asks : <<b, "full">> \in Requests /\ <<b, "stream">> \in Requests
  BY DEF DInv, CInv, IInv, TypesOK, Requests
<1>8. /\ \A q \in Requests \ {p} : req'[q] = req[q]
      /\ Fail(p) \/ NoticeGone(p) => req'[p].answer = "error"
      /\ StoreReply(p) => req'[p].answer = "ok"
  BY <1>1, <1>7
<1>9. ASSUME Fail(p) \/ NoticeGone(p) PROVE dialogueStage' = "disturbed"
  <2>1. run'[a].phase = "stream" /\ req'[<<a, "stream">>].answer = "error"
    BY <1>1, <1>3, <1>8, <1>9 DEF Streaming
  <2>2. Disturbed'
    BY <1>3, <2>1 DEF Disturbed
  <2>3. QED
    BY <2>2 DEF dialogueStage
<1>10. ASSUME ~Fail(p), ~NoticeGone(p) PROVE dialogueStage' = StageOf(req'[p].step)
  <2>1. req'[p].answer # "error"
    <3>1. CASE StoreReply(p)
      BY <1>8, <3>1
    <3>2. CASE ~StoreReply(p)
      <4>1. EndWith(p, "error") \/ req'[p].answer = req[p].answer
        BY <1>7, <1>10, <3>2 DEF Serve, OpenSession, InsertQuestion, ReadHistory, CallModel,
                                 StreamEnds, GoTo, Request
      <4>2. ~EndWith(p, "error")
        BY <1>10, <3>2, <1>7 DEF Serve, OpenSession, InsertQuestion, ReadHistory, CallModel,
                                 StreamEnds, GoTo, Request, EndWith, At
      <4>3. QED
        BY <1>4, <4>1, <4>2
    <3>3. QED
      BY <3>1, <3>2
  <2>2. Calm'
    BY <1>1, <1>2, <1>3, <1>7, <1>8 DEF Calm
  <2>3. ASSUME NEW b \in Asks, run'[b].phase = "stream" PROVE req'[<<b, "stream">>].answer # "error"
    <3>1. CASE b = a
      BY <1>3, <2>1, <3>1
    <3>2. CASE b # a
      <4>1. <<b, "stream">> \in Requests \ {p}
        <5>1. <<b, "stream">>[1] = b /\ p[1] # b
          BY <3>2
        <5>2. QED
          BY <1>7, <5>1
      <4>2. req'[<<b, "stream">>] = req[<<b, "stream">>] /\ run[b].phase = "stream"
        BY <1>1, <1>8, <2>3, <4>1
      <4>3. QED
        BY <4>2 DEF Disturbed
    <3>3. QED
      BY <3>1, <3>2
  <2>4. ~Disturbed'
    BY <2>2, <2>3 DEF Disturbed
  <2>5. QED
    BY <1>1, <1>3, <1>5, <2>4 DEF StageKnown, Streaming
<1>11. QED
  BY <1>3, <1>4, <1>6, <1>9, <1>10

\* A step of the conversation, or none.
Step == Dialogue!Next \/ UNCHANGED <<Clicked, RecordOf(log), dialogueStage>>

LEMMA EnterFirst ==
  ASSUME log \in Seq(Seq(Message)), Len(log) # 0, NEW m \in Message, Store(1, <<m>>)
  PROVE  RecordOf(log') = Append(RecordOf(log), m)
<1>1. 1 \in 1 .. Len(log) /\ log # << >>
  OBVIOUS
<1>2. log[1] \in Seq(Message)
  BY <1>1, ElementOfSeq
<1>3. log[1] \o <<m>> \in Seq(Message) /\ log[1] \o <<m>> = Append(log[1], m)
  BY <1>2
<1>4. Len(log') = Len(log) /\ log'[1] = log[1] \o <<m>>
  BY <1>1, <1>3, ExceptSeq DEF Store
<1>5. log' # << >>
  BY <1>1, <1>4
<1>6. QED
  BY <1>1, <1>3, <1>4, <1>5 DEF RecordOf

LEMMA HandlerImplements ==
  ASSUME DInv, ~Disturbed, NEW p \in Requests, Serve(p) \/ Fail(p)
  PROVE  Step
<1> DEFINE a == p[1]
<1>1. /\ a \in Asks /\ p = <<a, "stream">> /\ StageOK(p) /\ Len(log) <= 1
      /\ Clicked = a /\ dialogueStage = StageOf(req[p].step) /\ Clicked' = a
      /\ ~Fail(p) /\ ~NoticeGone(p) => dialogueStage' = StageOf(req'[p].step)
      /\ Fail(p) \/ NoticeGone(p) => dialogueStage' = "disturbed"
  BY CalmHandler
<1>2. /\ TypesOK /\ req \in [Requests -> Request] /\ log \in Seq(Seq(Message)) /\ IInv
      /\ p[2] = "stream"
  BY <1>1 DEF DInv, CInv, IInv, TypesOK
<1>3. req[p].step \notin {"unsent", "over"}
  BY HandlerMoves DEF DInv, CInv
<1>4. CASE Fail(p) \/ NoticeGone(p)
  <2>1. dialogueStage \in {"asking", "waiting", "answered"} /\ dialogueStage' = "disturbed"
    BY <1>1, <1>4 DEF StageOf
  <2>2. Next
    BY <1>4 DEF Next, Serve
  <2>3. Clicked' \in Clicked .. MaxAsks
    BY <2>2, ClickedGrows
  <2>4. /\ Len(RecordOf(log)) <= Len(RecordOf(log'))
        /\ \A i \in 1 .. Len(RecordOf(log)) : RecordOf(log')[i] = RecordOf(log)[i]
    BY <1>2, <2>2, RecordKept
  <2>5. Dialogue!Extended
    BY <2>3, <2>4 DEF Dialogue!Extended, RecordOf
  <2>6. Dialogue!Disturb
    BY <2>1, <2>5 DEF Dialogue!Disturb
  <2>7. QED
    BY <2>6 DEF Step, Dialogue!Next
<1>5. CASE InsertQuestion(p)
  <2>1. /\ At(p, "open") /\ Store(req[p].session, <<Question(p)>>) /\ req'[p].step = "history"
        /\ req[p].session # 0
    BY <1>2, <1>5 DEF InsertQuestion, GoTo, Question, Request
  <2>2. req[p].session = 1 /\ Len(log) # 0
    BY <1>1, <1>2, <2>1 DEF StageOK, IInv, RequestOK
  <2>3. Question(p) \in Message
    BY DEF Question, Message
  <2>4. RecordOf(log') = Append(RecordOf(log), Question(p))
    BY <1>2, <2>1, <2>2, <2>3, EnterFirst
  <2>5. dialogueStage = "asking" /\ dialogueStage' = "waiting"
    <3>1. ~Fail(p) /\ ~NoticeGone(p)
      <4>1. ~EndWith(p, "error")
        BY <1>2, <2>1 DEF EndWith
      <4>2. QED
        BY <4>1 DEF Fail, NoticeGone
    <3>2. QED
      BY <1>1, <2>1, <3>1 DEF StageOf, At
  <2>6. [b \in Asks |-> [role |-> "user", by |-> <<b, "stream">>]][Clicked] = Question(p)
    BY <1>1 DEF Question
  <2>7. Dialogue!EnterQuestion
    BY <1>1, <2>4, <2>5, <2>6 DEF Dialogue!EnterQuestion, Dialogue!Goes, RecordOf
  <2>8. QED
    BY <2>7 DEF Step, Dialogue!Next
<1>6. CASE StoreReply(p)
  <2>1. At(p, "store") /\ Store(req[p].session, <<Reply(p)>>) /\ EndWith(p, "ok")
    BY <1>6 DEF StoreReply, Full, Reply
  <2>2. req[p].session = 1
    BY <1>1, <2>1 DEF StageOK, At
  <2>3. Len(log) # 0 /\ Reply(p) \in Message
    BY <1>2, <2>2 DEF IInv, RequestOK, Reply, Message
  <2>4. RecordOf(log') = Append(RecordOf(log), Reply(p))
    BY <1>2, <2>1, <2>2, <2>3, EnterFirst
  <2>5. req'[p].step = "over" /\ req'[p].answer = "ok"
    BY <1>2, <2>1 DEF EndWith
  <2>6. dialogueStage = "waiting" /\ dialogueStage' = "answered"
    <3>1. ~Fail(p) /\ ~NoticeGone(p)
      <4>1. ~EndWith(p, "error")
        BY <1>2, <2>5 DEF EndWith
      <4>2. QED
        BY <4>1 DEF Fail, NoticeGone
    <3>2. QED
      BY <1>1, <2>1, <2>5, <3>1 DEF StageOf, At
  <2>7. [b \in Asks |-> [role |-> "assistant", by |-> <<b, "stream">>]][Clicked] = Reply(p)
    BY <1>1 DEF Reply
  <2>8. Dialogue!EnterAnswer
    BY <1>1, <2>4, <2>6, <2>7 DEF Dialogue!EnterAnswer, Dialogue!Goes, RecordOf
  <2>9. QED
    BY <2>8 DEF Step, Dialogue!Next
<1>7. CASE OpenSession(p) \/ ReadHistory(p) \/ CallModel(p) \/ StreamEnds(p)
  <2>1. /\ StageOf(req'[p].step) = StageOf(req[p].step) /\ req'[p].answer = req[p].answer
        /\ req'[p].step # "over"
    <3>1. CASE OpenSession(p)
      <4>1. req'[p].step = req[p].step /\ req'[p].answer = req[p].answer
        BY <1>2, <3>1 DEF OpenSession, Request
      <4>2. QED
        BY <1>3, <4>1
    <3>2. CASE ReadHistory(p) \/ StreamEnds(p)
      <4>1. /\ req[p].step \in {"history", "model"} /\ req'[p].step \in {"model", "store"}
            /\ req'[p].answer = req[p].answer
        BY <1>2, <3>2 DEF ReadHistory, StreamEnds, GoTo, At, Request
      <4>2. QED
        BY <4>1 DEF StageOf
    <3>3. ~CallModel(p)
      BY <1>2 DEF CallModel
    <3>4. QED
      BY <1>7, <3>1, <3>2, <3>3
  <2>2. ~Fail(p) /\ ~NoticeGone(p)
    <3>1. ~EndWith(p, "error")
      BY <1>2, <2>1 DEF EndWith
    <3>2. QED
      BY <3>1 DEF Fail, NoticeGone
  <2>3. RecordOf(log') = RecordOf(log)
    <3>1. CASE OpenSession(p)
      <4>1. Len(log) = 0 /\ log' = Append(log, << >>)
        BY <1>1, <3>1 DEF OpenSession, StageOK
      <4>2. log = << >> /\ log' = << << >> >>
        BY <1>2, <4>1
      <4>3. QED
        BY <4>2 DEF RecordOf
    <3>2. CASE UNCHANGED log
      BY <3>2
    <3>3. QED
      BY <1>7, <3>1, <3>2 DEF ReadHistory, CallModel, StreamEnds
  <2>4. QED
    BY <1>1, <2>1, <2>2, <2>3 DEF Step
<1>8. QED
  BY <1>4, <1>5, <1>6, <1>7 DEF Serve

LEMMA SendImplements ==
  ASSUME DInv, ~Disturbed, NEW a \in Asks, Send(a)
  PROVE  Step
<1> DEFINE p == <<a, "stream">>
<1>1. /\ run' = [run EXCEPT ![a].phase = "stream", ![a].session = view.session]
      /\ req' = [req EXCEPT ![p].step = "open", ![p].session = view.session]
      /\ ~view.streaming /\ UNCHANGED log /\ run[a].phase = "none"
  BY DEF Send
<1>2. /\ CalmOK /\ req \in [Requests -> Request] /\ run \in [Asks -> Run] /\ RunOK(a)
      /\ \A b \in Asks : <<b, "full">> \in Requests /\ <<b, "stream">> \in Requests
  BY DEF DInv, CInv, IInv, TypesOK, Disturbed, Requests
<1>3. dialogueStage = "idle"
  BY <1>1, <1>2, StageNow DEF StageKnown, CalmOK
<1>4. PICK n \in 0 .. MaxAsks - 1 :
              /\ a = n + 1
              /\ \A b \in Asks : run[b].phase # "none" <=> b <= n
              /\ \A b \in Asks : run'[b].phase # "none" <=> b <= n + 1
  BY SendTurns
<1>5. n \in 0 .. MaxAsks /\ n + 1 \in 0 .. MaxAsks /\ n < MaxAsks
  BY <1>4, MaxAsksAssumption
<1>6. Clicked = n /\ Clicked' = n + 1
  BY <1>4, <1>5, ClickedIs DEF Clicked, ClickedIn
<1>7. dialogueStage' = "asking"
  <2>1. /\ \A b \in Asks \ {a} : run'[b] = run[b]
        /\ run'[a].phase = "stream" /\ run'[a].stopped = run[a].stopped
    BY <1>1, <1>2 DEF Run
  <2>2. /\ \A r \in Requests \ {p} : req'[r] = req[r]
        /\ req'[p].step = "open" /\ req'[p].answer = req[p].answer
    BY <1>1, <1>2 DEF Request
  <2>3. req[p].step = "unsent"
    BY <1>1, <1>2 DEF RunOK
  <2>4. req[p].answer # "error"
    BY <1>2, <2>3 DEF DInv, TurnsOK
  <2>5. Calm'
    BY <1>2, <2>1, <2>2 DEF Disturbed, Calm, p
  <2>6. ASSUME NEW b \in Asks, run'[b].phase = "stream" PROVE req'[<<b, "stream">>].answer # "error"
    <3>1. CASE b = a
      BY <2>2, <2>4, <3>1
    <3>2. CASE b # a
      <4>1. <<b, "stream">> \in Requests \ {p}
        BY <1>2, <3>2
      <4>2. req'[<<b, "stream">>] = req[<<b, "stream">>] /\ run[b].phase = "stream"
        BY <2>1, <2>2, <2>6, <3>2, <4>1
      <4>3. QED
        BY <4>2 DEF Disturbed
    <3>3. QED
      BY <3>1, <3>2
  <2>7. ~Disturbed'
    BY <2>5, <2>6 DEF Disturbed
  <2>8. StageKnown'
    BY NextDInv, StageThen DEF Next
  <2>9. dialogueStage' = StageOf(req'[p].step)
    BY <2>1, <2>7, <2>8 DEF StageKnown, Streaming
  <2>10. QED
    BY <2>2, <2>9 DEF StageOf
<1>8. Dialogue!Ask
  BY <1>1, <1>3, <1>5, <1>6, <1>7 DEF Dialogue!Ask, Dialogue!Goes
<1>9. QED
  BY <1>8 DEF Step, Dialogue!Next

LEMMA StreamDoneImplements ==
  ASSUME DInv, ~Disturbed, NEW a \in Asks, StreamDone(a)
  PROVE  Step
<1> DEFINE p == <<a, "stream">>
<1>1. /\ Streaming(a) /\ req[p].answer = "ok" /\ UNCHANGED <<log, req>>
      /\ run' = [run EXCEPT ![a].phase = "done", ![a].shown = "stream"]
  BY DEF StreamDone, Streaming
<1>2. /\ CalmOK /\ req \in [Requests -> Request] /\ run \in [Asks -> Run]
      /\ \A b \in Asks : <<b, "full">> \in Requests /\ <<b, "stream">> \in Requests
  BY DEF DInv, CInv, IInv, TypesOK, Disturbed, Requests
<1>3. dialogueStage = "answered"
  <2>1. req[p].step = "over"
    BY <1>1, <1>2 DEF DInv, TurnsOK
  <2>2. dialogueStage = StageOf(req[p].step)
    BY <1>1, StageNow DEF StageKnown
  <2>3. QED
    BY <2>1, <2>2 DEF StageOf
<1>4. /\ \A b \in Asks \ {a} : run'[b] = run[b]
      /\ run'[a].phase = "done" /\ run'[a].stopped = run[a].stopped
  BY <1>1, <1>2 DEF Run
<1>5. \A b \in Asks : ~Streaming(b)'
  BY <1>1, <1>2, <1>4 DEF CalmOK, Streaming
<1>6. ~Disturbed'
  BY <1>1, <1>4, <1>5 DEF Disturbed, Calm, Streaming
<1>7. StageKnown'
  BY NextDInv, StageThen DEF Next, Receive
<1>8. dialogueStage' = "idle"
  BY <1>5, <1>6, <1>7 DEF StageKnown
<1>9. Clicked' = Clicked
  <2>1. \A b \in Asks : run'[b].phase # "none" <=> run[b].phase # "none"
    BY <1>1, <1>4 DEF Streaming
  <2>2. PICK n \in 0 .. MaxAsks : \A b \in Asks : run[b].phase # "none" <=> b <= n
    BY DEF DInv, TurnsOK
  <2>3. \A b \in Asks : run'[b].phase # "none" <=> b <= n
    BY <2>1, <2>2
  <2>4. QED
    BY <2>2, <2>3, ClickedIs DEF Clicked, ClickedIn
<1>10. Dialogue!Show
  BY <1>1, <1>3, <1>8, <1>9 DEF Dialogue!Show, Dialogue!Goes
<1>11. QED
  BY <1>10 DEF Step, Dialogue!Next

\* Whatever disturbs the conversation finds a stream under way.
LEMMA DisturbanceImplements ==
  ASSUME DInv, ~Disturbed, Next,
         Stop \/ \E a \in Asks : FallBack(a) \/ FallbackDone(a)
                                 \/ \E late \in BOOLEAN : FallbackFailed(a, late)
  PROVE  Step
<1>1. CalmOK
  BY DEF DInv, CInv, Disturbed
<1>2. PICK a \in Asks : Streaming(a)
  BY <1>1 DEF CalmOK, Stop, FallBack, FallbackDone, FallbackFailed, Streaming
<1>3. dialogueStage \in {"asking", "waiting", "answered"}
  BY <1>2, StageNow DEF StageKnown, StageOf
<1>4. dialogueStage' = "disturbed"
  <2>1. ~Calm'
    BY <1>2, CalmEnds DEF DInv
  <2>2. Disturbed'
    BY <2>1 DEF Disturbed
  <2>3. QED
    BY <2>2 DEF dialogueStage
<1>5. Clicked' \in Clicked .. MaxAsks
  BY ClickedGrows
<1>6. /\ Len(RecordOf(log)) <= Len(RecordOf(log'))
      /\ \A i \in 1 .. Len(RecordOf(log)) : RecordOf(log')[i] = RecordOf(log)[i]
  BY RecordKept DEF DInv, CInv
<1>7. Dialogue!Disturb
  BY <1>3, <1>4, <1>5, <1>6 DEF Dialogue!Disturb, Dialogue!Extended, RecordOf
<1>8. QED
  BY <1>7 DEF Step, Dialogue!Next

LEMMA DisturbedImplements ==
  ASSUME DInv, Disturbed, Next
  PROVE  Step
<1>1. Disturbed'
  BY StaysDisturbed
<1>2. dialogueStage = "disturbed" /\ dialogueStage' = "disturbed"
  BY <1>1 DEF dialogueStage
<1>3. Clicked' \in Clicked .. MaxAsks
  BY ClickedGrows
<1>4. /\ Len(RecordOf(log)) <= Len(RecordOf(log'))
      /\ \A i \in 1 .. Len(RecordOf(log)) : RecordOf(log')[i] = RecordOf(log)[i]
  BY RecordKept DEF DInv, CInv
<1>5. Dialogue!GoOn
  BY <1>2, <1>3, <1>4 DEF Dialogue!GoOn, Dialogue!Goes, Dialogue!Extended, RecordOf
<1>6. QED
  BY <1>5 DEF Step, Dialogue!Next

LEMMA InitImplements ==
  ASSUME Init
  PROVE  Dialogue!Init
<1>1. 0 \in 0 .. MaxAsks /\ \A a \in Asks : run[a].phase # "none" <=> a <= 0
  BY MaxAsksAssumption DEF Init, Asks
<1>2. Clicked = 0
  BY <1>1, ClickedIs DEF Clicked, ClickedIn
<1>3. ~Disturbed /\ \A a \in Asks : ~Underway(a)
  BY DEF Init, Disturbed, Calm, Underway, Requests
<1>4. dialogueStage = "idle" /\ log = << >>
  BY <1>3 DEF dialogueStage, Init
<1>5. QED
  BY <1>2, <1>4 DEF Dialogue!Init

LEMMA StepImplements ==
  ASSUME DInv, [Next]_vars
  PROVE  [Dialogue!Next]_(Dialogue!vars)
<1>1. CASE UNCHANGED vars
  <2>1. UNCHANGED Dialogue!vars
    BY <1>1 DEF vars, Dialogue!vars, Clicked, dialogueStage, Disturbed, Calm, Underway
  <2>2. QED
    BY <2>1
<1>2. CASE Next
  <2>1. Step
    BY <1>2, HandlerImplements, SendImplements, StreamDoneImplements, DisturbanceImplements,
       DisturbedImplements
    DEF Next, Receive, StreamFailed, StreamBroken
  <2>2. QED
    BY <2>1 DEF Step, Dialogue!vars, RecordOf
<1>3. QED
  BY <1>1, <1>2

\* The chat implements the conversation that Conversation describes, step by
\* step: process_chat_message commits the question before it calls the model and
\* the reply before it announces done, handleSend waits for that announcement,
\* and no failure, stop or retry loses or changes a message of the session.
THEOREM ConversationRefined == Spec => ImplementsConversation
<1>1. Init => Dialogue!Init
  BY InitImplements
<1>2. DInv /\ [Next]_vars => [Dialogue!Next]_(Dialogue!vars)
  BY StepImplements
<1>3. QED
  BY <1>1, <1>2, InitDInv, NextDInv, PTL DEF Spec, ImplementsConversation, Dialogue!Spec

\* The record q of n questions, the last of them at stage st.
OrderedAt(st, n, q) ==
    /\ Len(q) = CASE st = "asking" -> 2 * n - 2 [] st = "waiting" -> 2 * n - 1 [] OTHER -> 2 * n
    /\ \A i \in 1 .. n :
          /\ 2 * i - 1 <= Len(q) => q[2 * i - 1] = Question(<<i, "stream">>)
          /\ 2 * i <= Len(q) => q[2 * i] = Reply(<<i, "stream">>)

LEMMA OrderedOn ==
  ASSUME NEW q \in Seq(Message), NEW n \in Nat
  PROVE  /\ OrderedAt("idle", n, q) => OrderedAt("asking", n + 1, q)
         /\ OrderedAt("asking", n, q) =>
               OrderedAt("waiting", n, Append(q, Question(<<n, "stream">>)))
         /\ OrderedAt("waiting", n, q) =>
               OrderedAt("answered", n, Append(q, Reply(<<n, "stream">>)))
         /\ OrderedAt("answered", n, q) => OrderedAt("idle", n, q)
<1>1. Len(q) \in Nat
  OBVIOUS
<1>2. ASSUME NEW m
      PROVE  /\ Len(Append(q, m)) = Len(q) + 1 /\ Append(q, m)[Len(q) + 1] = m
             /\ \A i \in 1 .. Len(q) : Append(q, m)[i] = q[i]
  OBVIOUS
<1>3. OrderedAt("idle", n, q) => OrderedAt("asking", n + 1, q)
  BY <1>1 DEF OrderedAt
<1>4. ASSUME OrderedAt("asking", n, q)
      PROVE  OrderedAt("waiting", n, Append(q, Question(<<n, "stream">>)))
  <2> DEFINE m == Question(<<n, "stream">>)
             u == Append(q, m)
  <2>1. /\ Len(u) = Len(q) + 1 /\ u[Len(q) + 1] = m /\ \A i \in 1 .. Len(q) : u[i] = q[i]
    BY <1>2
  <2>2. Len(q) = 2 * n - 2 /\ m = Question(<<n, "stream">>)
    BY <1>4 DEF OrderedAt
  <2> HIDE DEF u, m
  <2>3. ASSUME NEW i \in 1 .. n
        PROVE  /\ 2 * i - 1 <= Len(u) => u[2 * i - 1] = Question(<<i, "stream">>)
               /\ 2 * i <= Len(u) => u[2 * i] = Reply(<<i, "stream">>)
    <3>1. CASE i = n
      BY <1>1, <2>1, <2>2, <3>1
    <3>2. CASE i < n
      <4>1. 2 * i - 1 \in 1 .. Len(q) /\ 2 * i \in 1 .. Len(q) /\ 2 * i - 1 <= Len(q) /\ 2 * i <= Len(q)
        BY <1>1, <2>2, <3>2
      <4>2. q[2 * i - 1] = Question(<<i, "stream">>) /\ q[2 * i] = Reply(<<i, "stream">>)
        BY <1>4, <4>1 DEF OrderedAt
      <4>3. QED
        BY <2>1, <4>1, <4>2
    <3>3. QED
      BY <3>1, <3>2
  <2>4. Len(u) = 2 * n - 1
    BY <1>1, <2>1, <2>2
  <2>5. OrderedAt("waiting", n, u)
    BY <2>3, <2>4 DEF OrderedAt
  <2>6. QED
    BY <2>5 DEF u, m
<1>5. ASSUME OrderedAt("waiting", n, q)
      PROVE  OrderedAt("answered", n, Append(q, Reply(<<n, "stream">>)))
  <2> DEFINE m == Reply(<<n, "stream">>)
             u == Append(q, m)
  <2>1. /\ Len(u) = Len(q) + 1 /\ u[Len(q) + 1] = m /\ \A i \in 1 .. Len(q) : u[i] = q[i]
    BY <1>2
  <2>2. Len(q) = 2 * n - 1 /\ m = Reply(<<n, "stream">>)
    BY <1>5 DEF OrderedAt
  <2> HIDE DEF u, m
  <2>3. ASSUME NEW i \in 1 .. n
        PROVE  /\ 2 * i - 1 <= Len(u) => u[2 * i - 1] = Question(<<i, "stream">>)
               /\ 2 * i <= Len(u) => u[2 * i] = Reply(<<i, "stream">>)
    <3>1. 2 * i - 1 \in 1 .. Len(q) /\ 2 * i - 1 <= Len(q)
      BY <1>1, <2>2
    <3>2. u[2 * i - 1] = Question(<<i, "stream">>)
      BY <1>5, <2>1, <3>1 DEF OrderedAt
    <3>3. CASE i = n
      BY <1>1, <2>1, <2>2, <3>2, <3>3
    <3>4. CASE i < n
      <4>1. 2 * i \in 1 .. Len(q) /\ 2 * i <= Len(q)
        BY <1>1, <2>2, <3>4
      <4>2. q[2 * i] = Reply(<<i, "stream">>)
        BY <1>5, <4>1 DEF OrderedAt
      <4>3. QED
        BY <2>1, <3>2, <4>1, <4>2
    <3>5. QED
      BY <3>3, <3>4
  <2>4. Len(u) = 2 * n
    BY <1>1, <2>1, <2>2
  <2>5. OrderedAt("answered", n, u)
    BY <2>3, <2>4 DEF OrderedAt
  <2>6. QED
    BY <2>5 DEF u, m
<1>6. OrderedAt("answered", n, q) => OrderedAt("idle", n, q)
  BY DEF OrderedAt
<1>7. QED
  BY <1>3, <1>4, <1>5, <1>6

LEMMA RecordTyped ==
  ASSUME IInv
  PROVE  RecordOf(log) \in Seq(Message)
<1>1. log \in Seq(Seq(Message))
  BY DEF IInv, TypesOK
<1>2. CASE log = << >>
  BY <1>2 DEF RecordOf
<1>3. CASE log # << >>
  <2>1. 1 \in 1 .. Len(log)
    BY <1>1, <1>3
  <2>2. log[1] \in Seq(Message)
    BY <1>1, <2>1, ElementOfSeq
  <2>3. QED
    BY <1>3, <2>2 DEF RecordOf
<1>4. QED
  BY <1>2, <1>3

\* In between clicks: a question is being asked or answered.
LEMMA AskedOnce ==
  ASSUME DInv, dialogueStage \in {"asking", "waiting"}
  PROVE  Clicked \in Asks
<1>1. ~Disturbed /\ StageKnown
  BY StageNow DEF dialogueStage
<1>2. PICK a \in Asks : Streaming(a)
  BY <1>1 DEF StageKnown
<1>3. QED
  BY <1>1, <1>2 DEF StageKnown

\* What the abstract conversation promises about the table: until something goes
\* wrong it holds the first question, its reply, the second question, and so on,
\* up to where the handler of the last click has come.
THEOREM RecordInOrder == Spec => []Dialogue!InOrder
<1> DEFINE Ordered == dialogueStage # "disturbed" => OrderedAt(dialogueStage, Clicked, RecordOf(log))
<1>1. ASSUME DInv PROVE Ordered => Dialogue!InOrder
  <2> SUFFICES ASSUME Ordered, dialogueStage # "disturbed" PROVE Dialogue!InOrder
    BY DEF Dialogue!InOrder
  <2>1. PICK n \in 0 .. MaxAsks : n = Clicked
    BY <1>1, ClickedIs DEF DInv, TurnsOK, Clicked, ClickedIn
  <2>2. \A i \in 1 .. Clicked : i \in Asks
    BY <2>1, MaxAsksAssumption DEF Asks
  <2>3. \A i \in Asks :
          /\ [a \in Asks |-> [role |-> "user", by |-> <<a, "stream">>]][i] = Question(<<i, "stream">>)
          /\ [a \in Asks |-> [role |-> "assistant", by |-> <<a, "stream">>]][i] = Reply(<<i, "stream">>)
    BY DEF Question, Reply
  <2>4. OrderedAt(dialogueStage, Clicked, RecordOf(log))
    OBVIOUS
  <2>5. QED
    BY <2>2, <2>3, <2>4 DEF Dialogue!InOrder, OrderedAt, RecordOf
<1>2. Init /\ DInv => Ordered
  <2> SUFFICES ASSUME Init PROVE Ordered
    OBVIOUS
  <2>1. Dialogue!Init
    BY InitImplements
  <2>2. Clicked = 0 /\ RecordOf(log) = << >> /\ dialogueStage = "idle"
    BY <2>1 DEF Dialogue!Init, RecordOf
  <2>3. OrderedAt("idle", 0, << >>)
    BY DEF OrderedAt
  <2>4. QED
    BY <2>2, <2>3
<1>3. Ordered /\ DInv /\ [Next]_vars => Ordered'
  <2> SUFFICES ASSUME Ordered, DInv, [Next]_vars PROVE Ordered'
    OBVIOUS
  <2>1. RecordOf(log) \in Seq(Message) /\ Clicked \in Nat
    <3>1. Clicked \in 0 .. MaxAsks
      BY ClickedGrows
    <3>2. QED
      BY <3>1, RecordTyped, MaxAsksAssumption DEF DInv, CInv
  <2>2. Dialogue!Next \/ UNCHANGED <<Clicked, RecordOf(log), dialogueStage>>
    BY StepImplements DEF Dialogue!vars, RecordOf
  <2> HIDE DEF Ordered
  <2>3. CASE UNCHANGED <<Clicked, RecordOf(log), dialogueStage>>
    BY <2>3 DEF Ordered
  <2>4. CASE Dialogue!Ask
    <3>1. /\ dialogueStage = "idle" /\ dialogueStage' = "asking" /\ Clicked' = Clicked + 1
          /\ RecordOf(log') = RecordOf(log)
      BY <2>4 DEF Dialogue!Ask, Dialogue!Goes, RecordOf
    <3>2. QED
      BY <2>1, <3>1, OrderedOn DEF Ordered
  <2>5. CASE Dialogue!EnterQuestion
    <3>1. /\ dialogueStage = "asking" /\ dialogueStage' = "waiting" /\ Clicked' = Clicked
          /\ RecordOf(log') = Append(RecordOf(log), [a \in Asks |-> [role |-> "user", by |-> <<a, "stream">>]][Clicked])
      BY <2>5 DEF Dialogue!EnterQuestion, Dialogue!Goes, RecordOf
    <3>2. Clicked \in Asks
      BY <2>1, <3>1, AskedOnce DEF Ordered
    <3>3. RecordOf(log') = Append(RecordOf(log), Question(<<Clicked, "stream">>))
      BY <3>1, <3>2 DEF Question
    <3>4. QED
      BY <2>1, <3>1, <3>3, OrderedOn DEF Ordered
  <2>6. CASE Dialogue!EnterAnswer
    <3>1. /\ dialogueStage = "waiting" /\ dialogueStage' = "answered" /\ Clicked' = Clicked
          /\ RecordOf(log') = Append(RecordOf(log), [a \in Asks |-> [role |-> "assistant", by |-> <<a, "stream">>]][Clicked])
      BY <2>6 DEF Dialogue!EnterAnswer, Dialogue!Goes, RecordOf
    <3>2. Clicked \in Asks
      BY <2>1, <3>1, AskedOnce DEF Ordered
    <3>3. RecordOf(log') = Append(RecordOf(log), Reply(<<Clicked, "stream">>))
      BY <3>1, <3>2 DEF Reply
    <3>4. QED
      BY <2>1, <3>1, <3>3, OrderedOn DEF Ordered
  <2>7. CASE Dialogue!Show
    <3>1. /\ dialogueStage = "answered" /\ dialogueStage' = "idle" /\ Clicked' = Clicked
          /\ RecordOf(log') = RecordOf(log)
      BY <2>7 DEF Dialogue!Show, Dialogue!Goes, RecordOf
    <3>2. QED
      BY <2>1, <3>1, OrderedOn DEF Ordered
  <2>8. CASE Dialogue!Disturb \/ Dialogue!GoOn
    BY <2>8 DEF Ordered, Dialogue!Disturb, Dialogue!GoOn, Dialogue!Goes
  <2>9. QED
    BY <2>2, <2>3, <2>4, <2>5, <2>6, <2>7, <2>8 DEF Dialogue!Next
<1>4. QED
  BY <1>1, <1>2, <1>3, InitDInv, NextDInv, PTL DEF Spec
=============================================================================
