------------------------------ MODULE MCWorker ------------------------------
(***************************************************************************)
(* The bootstrap beside a client that sends admin requests of each kind.    *)
(***************************************************************************)
EXTENDS Worker

CONSTANTS bootstrap, client, assessor, echo, mesa, lots, yards, old, new, newer, lot, yard, llc

MCPrograms == {bootstrap, client}
MCSlugs == {assessor, echo, mesa}
MCRegistered == {assessor, mesa}
MCDocumentIds == {lots, yards}
MCDigests == {old, new, newer}
MCParcelIds == {lot, yard}
MCNames == {llc}

Bootstrap == << [kind |-> "sync", slug |-> assessor, tolerates |-> "nothing"],
                [kind |-> "ingest", slug |-> assessor, tolerates |-> "nothing"],
                [kind |-> "ingest", slug |-> echo, tolerates |-> "exit"],
                [kind |-> "build", slug |-> assessor, tolerates |-> "nothing"],
                [kind |-> "score", slug |-> assessor, tolerates |-> "nothing"] >>

Request(kind, slug) == [kind |-> kind, slug |-> slug, tolerates |-> "anything"]

\* The bootstrap beside a few requests; and two clients that run one connector.
MCPlans ==
    {bootstrap :> Bootstrap @@ client :> requests :
        requests \in {<<Request("sync", assessor), Request("ingest", assessor)>>,
                      <<Request("build", assessor)>>, <<Request("score", assessor)>>}}
    \cup {bootstrap :> <<Request("sync", mesa), Request("ingest", mesa), Request("ingest", mesa)>>
             @@ client :> <<Request("ingest", mesa)>>}

\* Two pages, the first of which changes, and with it the class of its parcel; ECHO has
\* nothing.
Lots(digest) == [document |-> lots, digest |-> digest, parcel |-> lot, owner |-> llc,
                 candidate |-> digest # new]
Yards == [document |-> yards, digest |-> new, parcel |-> yard, owner |-> llc,
          candidate |-> TRUE]

MCDiscovered ==
    assessor :> {<<Lots(old)>>, <<Yards, Lots(new)>>}
    @@ echo :> {<<>>}
    @@ mesa :> {<<Lots(old)>>, <<Lots(new)>>, <<Lots(newer)>>}

MCMortal == {client}
=============================================================================
