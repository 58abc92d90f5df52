------------------------------ MODULE Transcript ------------------------------
(***************************************************************************)
(* What asking promises about the stored transcripts, without handlers,    *)
(* pieces, streams or connections.  A question that is under way may be    *)
(* kept, once and for good: it and its whole answer enter a session of the *)
(* asker together, the question before the answer.  Other messages may     *)
(* come between the two, but no two have one place.  When the question is  *)
(* over nothing of it is kept any more, and what was kept stays as it is.  *)
(***************************************************************************)
EXTENDS Naturals

CONSTANTS Questions, Owners, NoOwner, Sessions

VARIABLES
  stage,   \* of each question
  asker,   \* who asks it
  owner,   \* of each session
  kept     \* the messages

Init ==
  /\ stage = [q \in Questions |-> "none"]
  /\ asker = [q \in Questions |-> NoOwner]
  /\ owner = [s \in Sessions |-> NoOwner]
  /\ kept = {}

Ask(q) ==
  /\ stage[q] = "none"
  /\ stage' = [stage EXCEPT ![q] = "asked"]
  /\ \E o \in Owners : asker' = [asker EXCEPT ![q] = o]
  /\ UNCHANGED <<owner, kept>>

\* A session is opened for somebody who asks, and stays theirs.
Open(s) ==
  /\ owner[s] = NoOwner
  /\ \E q \in Questions : stage[q] = "asked" /\ owner' = [owner EXCEPT ![s] = asker[q]]
  /\ UNCHANGED <<stage, asker, kept>>

\* The pair of q is what is added.
Pair(q) ==
  /\ stage[q] = "asked"
  /\ \A x \in kept : x.of # q
  /\ \E x, y \in kept' :
       /\ kept' = kept \cup {x, y}
       /\ x.of = q /\ x.role = "user" /\ x.whole
       /\ y.of = q /\ y.role = "assistant" /\ y.whole
       /\ x.session = y.session /\ x.session \in Sessions /\ owner[x.session] = asker[q]
       /\ {x.seq, y.seq} \subseteq Nat /\ x.seq < y.seq
       /\ \A z \in kept : z.seq \notin {x.seq, y.seq}
  /\ UNCHANGED <<asker, owner>>

Keep(q) == Pair(q) /\ UNCHANGED stage

\* The question is answered or refused; if its pair is kept by the last step
\* the asker may not know.
End(q) ==
  /\ stage[q] = "asked"
  /\ stage' = [stage EXCEPT ![q] = "over"]
  /\ Pair(q) \/ UNCHANGED <<asker, owner, kept>>

Next ==
  \/ \E q \in Questions : Ask(q) \/ Keep(q) \/ End(q)
  \/ \E s \in Sessions : Open(s)

Spec == Init /\ [][Next]_<<stage, asker, owner, kept>>
------------------------------------------------------------------------------
TypeOK ==
  /\ stage \in [Questions -> {"none", "asked", "over"}]
  /\ asker \in [Questions -> Owners \cup {NoOwner}]
  /\ owner \in [Sessions -> Owners \cup {NoOwner}]

KeptOf(q) == {m \in kept : m.of = q}

\* Nothing is kept of a question that nobody has asked.
AskedBefore ==
  \A q \in Questions : IF stage[q] = "none" THEN KeptOf(q) = {} ELSE asker[q] \in Owners

\* Whoever reads a session finds whole pairs of its owner: of every question nothing,
\* or it and its answer after it, and nothing else at their places (the seq that
\* sessions.Transcript orders by).
Paired ==
  /\ \A q \in Questions :
       \/ KeptOf(q) = {}
       \/ \E x, y \in kept :
            /\ KeptOf(q) = {x, y} /\ x.whole /\ y.whole
            /\ x.role = "user" /\ y.role = "assistant" /\ x.seq < y.seq
            /\ x.session = y.session /\ x.session \in Sessions /\ owner[x.session] = asker[q]
  /\ \A x, y \in kept : x.seq = y.seq => x = y
==============================================================================
