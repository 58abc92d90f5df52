---------------------------- MODULE JobLifecycle -----------------------------
(***************************************************************************)
(* What the ingest queue promises about one uploaded document, without     *)
(* workers, leases, attempts or rows.  An accepted document waits, is      *)
(* worked on, and ends up indexed or given up.  Work may be handed back    *)
(* any number of times; an indexed document is never worked on again; a    *)
(* document that was given up waits again only if somebody asks for it;    *)
(* and a removed document never comes back.                                *)
(***************************************************************************)
CONSTANT Docs

VARIABLE stage

Stages == {"absent", "queued", "working", "indexed", "givenUp", "removed"}

TypeOK == stage \in [Docs -> Stages]

Init == stage = [d \in Docs |-> "absent"]

Move(d, from, to) == stage[d] \in from /\ stage' = [stage EXCEPT ![d] = to]

Accept(d) == Move(d, {"absent"}, "queued")

Take(d) == Move(d, {"queued"}, "working")

HandBack(d) == Move(d, {"working"}, "queued")

Finish(d) == Move(d, {"working"}, "indexed")

GiveUp(d) == Move(d, {"working"}, "givenUp")

Revive(d) == Move(d, {"givenUp"}, "queued")

Remove(d) == Move(d, {"queued", "working", "indexed", "givenUp"}, "removed")

Next ==
  \E d \in Docs :
    \/ Accept(d) \/ Take(d) \/ HandBack(d) \/ Finish(d)
    \/ GiveUp(d) \/ Revive(d) \/ Remove(d)

Spec == Init /\ [][Next]_stage
==============================================================================
