------------------------- MODULE AbstractSemaphore --------------------------
(***************************************************************************)
(* What the counting semaphore promises its callers: P takes an available  *)
(* unit, V makes one available, and nothing else changes who holds what.   *)
(***************************************************************************)
EXTENDS Integers

CONSTANTS Tasks, InitCount

VARIABLES
  avail,  \* units nobody holds
  held    \* tasks that hold a unit

avars == <<avail, held>>

AInit == avail = InitCount /\ held = {}

P(t) ==
  /\ avail > 0
  /\ t \notin held
  /\ avail' = avail - 1
  /\ held' = held \cup {t}

\* up() by a holder, or by a context that never called down().
V(t) == t \in held /\ avail' = avail + 1 /\ held' = held \ {t}
VElsewhere == avail' = avail + 1 /\ UNCHANGED held

ANext == (\E t \in Tasks : P(t) \/ V(t)) \/ VElsewhere

ASpec == AInit /\ [][ANext]_avars
=============================================================================
