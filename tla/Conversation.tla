---------------------------- MODULE Conversation ----------------------------
(***************************************************************************)
(* What the chat promises about the record of a conversation, without      *)
(* saying how.  Questions are put one at a time and in the order of the    *)
(* clicks; each is entered in the record, then its answer, and only then   *)
(* is the answer shown and the next question taken.  When something goes   *)
(* wrong the order of what follows is open, but nothing that was entered   *)
(* is lost or changed.                                                     *)
(***************************************************************************)
EXTENDS Integers, Sequences

CONSTANTS
    MaxAsks,  \* bound on the questions
    Question, \* Question[n], Answer[n]: the entries of the n-th question and
    Answer    \* of its answer

VARIABLES
    asked,    \* how many questions have been put
    record,   \* the entries, oldest first
    stage     \* of the last question, or "disturbed"

vars == <<asked, record, stage>>

Init == asked = 0 /\ record = << >> /\ stage = "idle"

Goes(from, to) == stage = from /\ stage' = to

Ask == Goes("idle", "asking") /\ asked < MaxAsks /\ asked' = asked + 1 /\ UNCHANGED record

EnterQuestion ==
    Goes("asking", "waiting") /\ record' = Append(record, Question[asked]) /\ UNCHANGED asked

EnterAnswer ==
    Goes("waiting", "answered") /\ record' = Append(record, Answer[asked]) /\ UNCHANGED asked

Show == Goes("answered", "idle") /\ UNCHANGED <<asked, record>>

\* The entries stay; there may be more of them, and more questions.
Extended ==
    /\ asked' \in asked .. MaxAsks
    /\ Len(record) <= Len(record') /\ \A i \in 1 .. Len(record) : record'[i] = record[i]

Disturb == stage \in {"asking", "waiting", "answered"} /\ stage' = "disturbed" /\ Extended

GoOn == Goes("disturbed", "disturbed") /\ Extended

Next == Ask \/ EnterQuestion \/ EnterAnswer \/ Show \/ Disturb \/ GoOn

Spec == Init /\ [][Next]_vars

\* Until something goes wrong the record is the first question, its answer, the
\* second question, and so on, up to where the last question has come.
InOrder ==
    stage # "disturbed" =>
        /\ Len(record) = CASE stage = "asking" -> 2 * asked - 2
                           [] stage = "waiting" -> 2 * asked - 1
                           [] OTHER -> 2 * asked
        /\ \A n \in 1 .. asked :
              /\ 2 * n - 1 <= Len(record) => record[2 * n - 1] = Question[n]
              /\ 2 * n <= Len(record) => record[2 * n] = Answer[n]
=============================================================================
