--------------------------- MODULE EvidenceLedger ---------------------------
(***************************************************************************)
(* What ingestion promises the rest of the system, whatever happens inside *)
(* a run: each document has a history of versions numbered 1, 2, ... of    *)
(* distinct contents, evidence cites one of those versions, and the only   *)
(* thing that ever happens is that new versions are added after the old    *)
(* ones, together with evidence that cites the new versions.               *)
(***************************************************************************)
EXTENDS Naturals

CONSTANT Documents

VARIABLES versions,  \* [document, number, content, run]
          evidence   \* [document, number, position, run]

\* The numbers given to the versions of a document.
Numbers(rows, d) == {v.number : v \in {u \in rows : u.document = d}}

\* One history per document: numbers without a gap, no two rows with one
\* number, no two with one content.
IsHistory(rows) ==
    /\ \A d \in Documents : \E n \in {0} \cup Numbers(rows, d) : Numbers(rows, d) = 1..n
    /\ \A u, v \in rows :
         u.document = v.document /\ (u.number = v.number \/ u.content = v.content) => u = v

Cites(e, v) == e.document = v.document /\ e.number = v.number

Init == versions = {} /\ evidence = {}

Append ==
    /\ versions \subseteq versions'
    /\ IsHistory(versions')
    /\ evidence \subseteq evidence'
    /\ \A e \in evidence' \ evidence :
         \E v \in versions' \ versions : Cites(e, v) /\ e.run = v.run

Spec == Init /\ [][Append]_<<versions, evidence>>
=============================================================================
