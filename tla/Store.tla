------------------------------- MODULE Store --------------------------------
(***************************************************************************)
(* What a node's storage promises, whatever it keeps in memory, in files   *)
(* and in logs: a durable map from keys to values, numbered by the writes  *)
(* it has taken.  One write changes the keys of one table in one step and  *)
(* advances the number by as many.  Nothing else, a crash, a recovery, a   *)
(* checkpoint or a flush included, changes either.                         *)
(***************************************************************************)
EXTENDS Naturals, FiniteSets

CONSTANTS Table, Key, Value, None

VARIABLES
    val,    \* what the node would hold if it were started now
    number  \* of the last write

vars == <<val, number>>

Init ==
    /\ val = [t \in Table |-> [k \in Key |-> None]]
    /\ number = 0

\* A set, a delete, or as much of a bulk request as reached the log.
Write(t, ks) ==
    /\ ks # {}
    /\ number' = number + Cardinality(ks)
    /\ \E items \in [ks -> Value \cup {None}] :
          val' = [val EXCEPT ![t] =
                     [k \in Key |-> IF k \in ks THEN items[k] ELSE @[k]]]

Next == \E t \in Table, ks \in SUBSET Key : Write(t, ks)

Spec == Init /\ [][Next]_vars
=============================================================================
