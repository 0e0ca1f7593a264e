--------------------------- MODULE ImmutableStore ---------------------------
(***************************************************************************)
(* What an evidence-store backend promises its callers, whatever the       *)
(* backend: a key is absent, or it holds exactly the bytes it was derived  *)
(* from, and a key that holds bytes holds them for ever.                   *)
(***************************************************************************)
CONSTANTS Keys,      \* storage keys
          PayloadOf, \* the payload a key is derived from
          Absent     \* marks a key that nothing is stored under

VARIABLE contents    \* contents[k]: the bytes a reader of key k is given

TypeOK == contents \in [Keys -> {PayloadOf[k] : k \in Keys} \cup {Absent}]

Init == contents = [k \in Keys |-> Absent]

\* A payload appears under its own key, whole, in one step.
Store(k) ==
    /\ contents[k] = Absent
    /\ contents' = [contents EXCEPT ![k] = PayloadOf[k]]

Next == \E k \in Keys : Store(k)

Spec == Init /\ [][Next]_contents
=============================================================================
