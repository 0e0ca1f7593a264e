---------------------------- MODULE MCSiteScoring ----------------------------
(* Instances of SiteScoring for TLC. *)
EXTENDS SiteScoring, TLC

\* A land deal, a construction permit of the day after, a cancellation.
MCKinds == {"land", "permit", "cancellation"}
MCStageWeight == [land |-> 18, permit |-> 20, cancellation |-> -20]
MCImpliesStage == [land |-> 1, permit |-> 4, cancellation |-> 0]

MCObservedAt == [deal |-> 0, works |-> 1, stop |-> 1]
MCKindOf == [deal |-> "land", works |-> "permit", stop |-> "cancellation"]

On(f, S) == [x \in S |-> f[x]]
TwoObservedAt == On(MCObservedAt, {"deal", "works"})
TwoKindOf == On(MCKindOf, {"deal", "works"})
OneObservedAt == On(MCObservedAt, {"deal"})
OneKindOf == On(MCKindOf, {"deal"})

Symmetry == Permutations(Scorers)
=============================================================================
