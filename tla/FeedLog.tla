------------------------------ MODULE FeedLog ------------------------------
(***************************************************************************)
(* What the media feed promises its consumers: an append-only log ordered  *)
(* by cursor, of which every consumer always holds a prefix.  A batch of   *)
(* events is published atomically and lies entirely after what was         *)
(* published before, so a consumer that remembers only the last cursor it  *)
(* was given never misses an event.                                        *)
(***************************************************************************)
EXTENDS Naturals

CONSTANT Readers   \* the downstream consumers

VARIABLES published,   \* the events visible to a read
          delivered    \* the events each reader has been given

logVars == <<published, delivered>>

Init ==
  /\ published = {}
  /\ delivered = [r \in Readers |-> {}]

\* A transaction makes its events visible, all later than the visible ones.
Publish ==
  /\ published \subseteq published'
  /\ \A e \in published' \ published, p \in published : p.cursor < e.cursor
  /\ UNCHANGED delivered

\* A reader is given the next visible events: none before them is left out.
Deliver(r) ==
  /\ delivered' = [delivered EXCEPT ![r] = delivered'[r]]
  /\ delivered[r] \subseteq delivered'[r]
  /\ delivered'[r] \subseteq published
  /\ \A e \in delivered'[r], f \in published : f.cursor < e.cursor => f \in delivered'[r]
  /\ UNCHANGED published

Next ==
  \/ Publish
  \/ \E r \in Readers : Deliver(r)

Spec == Init /\ [][Next]_logVars
=============================================================================
