--------------------------- MODULE BatchDelivery ----------------------------
(***************************************************************************)
(* What the Silver write path promises, without exceptions, files, threads *)
(* or crashes: the batches of a query are committed one by one, and a      *)
(* batch with rows only after its rows have landed in the table or have    *)
(* been put aside in a complete dead letter.  Rows may land more than      *)
(* once, and after the commit, but never before their turn.                *)
(***************************************************************************)
EXTENDS Integers

CONSTANTS Queries, MaxBatch,
          Hollow    \* <<q, b>> whose output has no rows

VARIABLES
  done,     \* done[q]: number of committed batches
  landed,   \* landed[q]: batches whose rows are in the table
  aside     \* aside[q]: batches with a complete dead letter

dvars == <<done, landed, aside>>

Init ==
  /\ done = [q \in Queries |-> 0]
  /\ landed = [q \in Queries |-> {}]
  /\ aside = [q \in Queries |-> {}]

Land(q, b) ==
  /\ b \in 1..(done[q] + 1)
  /\ landed' = [landed EXCEPT ![q] = @ \cup {b}]
  /\ UNCHANGED <<done, aside>>

PutAside(q) ==
  /\ aside' = [aside EXCEPT ![q] = @ \cup {done[q] + 1}]
  /\ UNCHANGED <<done, landed>>

Advance(q) ==
  /\ \/ <<q, done[q] + 1>> \in Hollow
     \/ done[q] + 1 \in landed[q] \cup aside[q]
  /\ done' = [done EXCEPT ![q] = @ + 1]
  /\ UNCHANGED <<landed, aside>>

Next ==
  \E q \in Queries :
    \/ \E b \in 1..MaxBatch : Land(q, b)
    \/ PutAside(q)
    \/ Advance(q)

Spec == Init /\ [][Next]_dvars
=============================================================================
