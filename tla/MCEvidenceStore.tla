-------------------------- MODULE MCEvidenceStore --------------------------
(* Instances of EvidenceStore for TLC. *)
EXTENDS EvidenceStore, TLC

CONSTANTS json, jsonUtf8, html

\* The parameters of a MIME type are cut before the table is consulted, so two
\* spellings of one type share an extension.
MCExtensionOf == [m \in Mimes |-> IF m = html THEN ".html" ELSE ".json"]

Symmetry == Permutations(Inodes)
=============================================================================
