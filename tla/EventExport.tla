---------------------------- MODULE EventExport ----------------------------
(***************************************************************************)
(* What an error reporter promises about captured events, without threads, *)
(* timers, attempts or a circuit: an event is accepted into a bounded      *)
(* queue or discarded because the queue is full; the accepted events leave *)
(* together, as one export; an export is settled as a whole, once, as      *)
(* delivered or discarded.  Nothing is exported twice, nothing disappears  *)
(* from the queue, nothing comes back.                                     *)
(***************************************************************************)
EXTENDS Naturals, FiniteSets

CONSTANTS Event,     \* the events that may be captured
          Capacity   \* the most events the queue holds

VARIABLES waiting,   \* the accepted events
          exports,   \* the sets of events being exported
          delivered, \* the events the destination has acknowledged
          discarded  \* the events that were given up

vars == << waiting, exports, delivered, discarded >>

Captured == waiting \cup (UNION exports) \cup delivered \cup discarded

Init ==
  /\ waiting = {}
  /\ exports = {}
  /\ delivered = {}
  /\ discarded = {}

Accept(e) ==
  /\ e \notin Captured
  /\ Cardinality(waiting) < Capacity
  /\ waiting' = waiting \cup {e}
  /\ UNCHANGED << exports, delivered, discarded >>

Discard(e) ==
  /\ e \notin Captured
  /\ Cardinality(waiting) >= Capacity
  /\ discarded' = discarded \cup {e}
  /\ UNCHANGED << waiting, exports, delivered >>

Export ==
  /\ waiting # {}
  /\ waiting' = {}
  /\ exports' = exports \cup {waiting}
  /\ UNCHANGED << delivered, discarded >>

Settle(S) ==
  /\ exports' = exports \ {S}
  /\ \/ delivered' = delivered \cup S /\ UNCHANGED discarded
     \/ discarded' = discarded \cup S /\ UNCHANGED delivered
  /\ UNCHANGED waiting

Next ==
  \/ \E e \in Event : Accept(e) \/ Discard(e)
  \/ Export
  \/ \E S \in exports : Settle(S)

Spec == Init /\ [][Next]_vars
=============================================================================
