-------------------------- MODULE EventReplication --------------------------
(***************************************************************************)
(* What the sync layer of memorize promises, with no watermark, no         *)
(* process and no transport: every replica owns a set of events, the       *)
(* relay holds the events somebody published, an event reaches a replica   *)
(* only through the relay, and no event is ever taken away.                *)
(***************************************************************************)
CONSTANTS Replicas, Events

VARIABLES
  have,      \* have[r]: the events in r's log
  shared     \* the events the relay holds

vars == <<have, shared>>

Init ==
  /\ have = [r \in Replicas |-> {}]
  /\ shared = {}

\* A local command of r appends an event nobody has yet.
Create(r, e) ==
  /\ \A q \in Replicas : e \notin have[q]
  /\ have' = [have EXCEPT ![r] = @ \cup {e}]
  /\ UNCHANGED shared

\* r publishes one of its events.
Publish(r, e) ==
  /\ e \in have[r]
  /\ shared' = shared \cup {e}
  /\ UNCHANGED have

\* r learns a batch of published events at once.
Learn(r, batch) ==
  /\ batch \subseteq shared
  /\ have' = [have EXCEPT ![r] = @ \cup batch]
  /\ UNCHANGED shared

Next ==
  \E r \in Replicas :
    \/ \E e \in Events : Create(r, e) \/ Publish(r, e)
    \/ \E batch \in SUBSET Events : Learn(r, batch)

Spec == Init /\ [][Next]_vars
=============================================================================
