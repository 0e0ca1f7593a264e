----------------------------- MODULE SiteBuilder -----------------------------
(***************************************************************************)
(* build_sites of helios_geospatial/site_builder.py, pass after pass, over *)
(* parcels, permits and evidence that ingestion keeps loading: clustering  *)
(* by union-find, the upsert of a site per cluster, its parcel links, the  *)
(* evidence it claims, its infrastructure and the rollups.                 *)
(*                                                                         *)
(* A pass is one transaction that its caller commits (the build-sites      *)
(* command, the rebuild endpoint); it sees what ingestion commits while it *)
(* runs.  Passes do not overlap here.  Geometry is constant: every parcel  *)
(* has its polygon, every permit a point of its own or none.               *)
(***************************************************************************)
EXTENDS Naturals, Sequences, FiniteSets

CONSTANTS Parcels, Permits,
          Items,            \* evidence records that can be created
          Substations, Lines,
          Owners,           \* organizations
          NoOwner,          \* a natural person, who gets no organization
          NoRow,            \* not loaded yet
          NoParcel,         \* about no parcel
          ParcelRows,       \* the rows that the assessor may publish
          InitialParcels,   \* the parcel tables the first pass may meet
          Adjacent,         \* pairs of parcels within the adjacency tolerance
          Nearby,           \* permit and parcel within PERMIT_PROXIMITY_METERS
          AddressOf,        \* the parcel at a permit's address, or NoParcel
          SubjectOf,        \* the parcel or the permit an item is created for
          Distance,         \* metres from a parcel to a substation or a line
          CandidateAcres,   \* CANDIDATE_MIN_ACRES
          Radius,           \* how far a substation or a line is searched
          BlockingDistance, \* BLOCKING_SUBSTATION_DISTANCE_METERS
          MaxDependencies,  \* MAX_DEPENDENCIES_PER_KIND
          MaxPasses,        \* bound: passes of a behaviour
          MaxLoads          \* bound: records loaded after the start

Targets == Substations \cup Lines

\* A parcel as the assessor describes it.
ParcelRow == [owner : Owners \cup {NoOwner}, classified : BOOLEAN, acres : Nat]

ASSUME SiteBuilderAssumption ==
    /\ IsFiniteSet(Items)
    /\ NoOwner \notin Owners
    /\ NoRow \notin Parcels \cup ParcelRow
    /\ NoParcel \notin Parcels \cup {NoRow}
    /\ Parcels \cap Permits = {}
    /\ ParcelRows \subseteq ParcelRow
    /\ InitialParcels \subseteq [Parcels -> ParcelRows \cup {NoRow}]
    /\ Adjacent \subseteq SUBSET Parcels
    /\ Nearby \subseteq Permits \X Parcels
    /\ AddressOf \in [Permits -> Parcels \cup {NoParcel}]
    /\ SubjectOf \in [Items -> Parcels \cup Permits]
    /\ Distance \in [Parcels -> [Targets -> Nat]]
    /\ {CandidateAcres, Radius, BlockingDistance, MaxDependencies, MaxPasses,
        MaxLoads} \subseteq Nat

VARIABLES parcels,    \* the parcel rows
          permits,    \* the parcel_id of each permit row
          evidence,   \* the parcel_id of each evidence row
          db,         \* what passes have committed
          tx,         \* the same as the running pass sees it
          pc,         \* where the pass is
          rows,       \* the candidate parcels, as it read them
          parent,     \* the union-find forest over them
          pairs,      \* adjacent pairs not yet looked at
          clusters,   \* clusters that have no site yet in this pass
          cluster,    \* the cluster being built
          site,       \* its site
          passes, loads,
          quiet,      \* nothing was loaded since the pass began
          settled,    \* nothing was loaded since the last committed pass began
          repeated,   \* the pass began in a settled state
          together    \* pairs of parcels that some pass put in one cluster

ingestion == <<parcels, permits, evidence, loads>>
work == <<rows, parent, pairs, clusters, cluster, site>>
history == <<quiet, settled, repeated>>

vars == <<ingestion, db, tx, pc, work, passes, history, together>>

\* A row of sites; the anchor parcel is the one its summary describes.
Site == [anchor : Parcels, evidence_count : Nat]

NoSite == 0

\* The columns and tables that passes write.
Analysis == [sites        : Seq(Site),
             links        : SUBSET ((Nat \ {0}) \X Parcels),
             itemSite     : [Items -> Nat],
             permitSite   : [Permits -> Nat],
             dependencies : SUBSET ((Nat \ {0}) \X Targets),
             proximity    : SUBSET (Nat \ {0}),  \* sites with such evidence
             built        : SUBSET (Nat \ {0})]  \* by this pass; not a column

TypeOK ==
    /\ parcels \in [Parcels -> ParcelRow \cup {NoRow}]
    /\ permits \in [Permits -> Parcels \cup {NoParcel, NoRow}]
    /\ evidence \in [Items -> Parcels \cup {NoParcel, NoRow}]
    /\ db \in Analysis
    /\ tx \in Analysis
    /\ \A a \in {db, tx} :
          LET ids == DOMAIN a.sites
          IN  /\ a.links \subseteq ids \X Parcels
              /\ \A i \in Items : a.itemSite[i] \in ids \cup {NoSite}
              /\ \A q \in Permits : a.permitSite[q] \in ids \cup {NoSite}
              /\ a.dependencies \subseteq ids \X Targets
              /\ a.proximity \cup a.built \subseteq ids
    /\ pc \in {"idle", "unite", "build", "attach", "link", "rollup", "commit"}
    /\ DOMAIN rows \subseteq Parcels
    /\ pc = "unite" => parent \in [DOMAIN rows -> DOMAIN rows]
    /\ pairs \subseteq Adjacent
    /\ clusters \subseteq SUBSET DOMAIN rows
    /\ cluster \subseteq DOMAIN rows
    /\ pc \in {"attach", "link"} => site \in DOMAIN tx.sites
    /\ passes \in 0..MaxPasses
    /\ loads \in 0..MaxLoads
    /\ {quiet, settled, repeated} \subseteq BOOLEAN
    /\ together \subseteq Parcels \X Parcels

NoAnalysis == [sites |-> <<>>, links |-> {}, itemSite |-> [i \in Items |-> NoSite],
               permitSite |-> [q \in Permits |-> NoSite], dependencies |-> {},
               proximity |-> {}, built |-> {}]

\* The address of a permit is looked up until it is found.
Located(q, known) ==
    CASE known \in Parcels -> known
      [] AddressOf[q] \in Parcels /\ parcels[AddressOf[q]] # NoRow -> AddressOf[q]
      [] OTHER -> NoParcel

\* Ingestion comes first: parcels with their evidence, permits with or without.
Init ==
    /\ parcels \in InitialParcels
    /\ \E known \in SUBSET Permits, cited \in SUBSET Items :
          /\ permits = [q \in Permits |-> IF q \in known THEN Located(q, NoRow) ELSE NoRow]
          /\ evidence = [i \in Items |->
                CASE SubjectOf[i] \in Parcels -> IF parcels[SubjectOf[i]] = NoRow
                                                THEN NoRow ELSE SubjectOf[i]
                  [] OTHER -> IF i \in cited THEN permits[SubjectOf[i]] ELSE NoRow]
    /\ db = NoAnalysis
    /\ tx = NoAnalysis
    /\ pc = "idle"
    /\ rows = <<>> /\ parent = <<>> /\ pairs = {}
    /\ clusters = {} /\ cluster = {} /\ site = NoSite
    /\ passes = 0 /\ loads = 0
    /\ quiet = FALSE /\ settled = FALSE /\ repeated = FALSE
    /\ together = {}

-----------------------------------------------------------------------------
(* Ingestion, between the steps of a pass too.  A record of a new version  *)
(* creates evidence about its subject, a record of a known one does not.   *)

\* New evidence about x, if any, cites parcel p and the site s.
Cites(x, p, s) ==
    \/ UNCHANGED <<evidence, db, tx>>
    \/ \E i \in Items :
          /\ SubjectOf[i] = x
          /\ evidence[i] = NoRow
          /\ evidence' = [evidence EXCEPT ![i] = p]
          /\ db' = [db EXCEPT !.itemSite[i] = s]
          /\ tx' = [tx EXCEPT !.itemSite[i] = s]

Loads ==
    /\ loads < MaxLoads
    /\ loads' = loads + 1
    /\ quiet' = FALSE
    /\ settled' = FALSE
    /\ UNCHANGED <<pc, work, passes, repeated, together>>

LoadParcel(p, row) ==
    /\ Loads
    /\ parcels' = [parcels EXCEPT ![p] = row]
    /\ Cites(p, p, NoSite)
    /\ UNCHANGED permits

\* New evidence goes to the site that the last committed pass gave the permit.
LoadPermit(q) ==
    /\ Loads
    /\ LET at == Located(q, permits[q])
       IN  /\ permits' = [permits EXCEPT ![q] = at]
           /\ Cites(q, at, db.permitSite[q])
    /\ UNCHANGED parcels

-----------------------------------------------------------------------------
(* The clusters of a pass.                                                 *)

find_candidate_parcels ==
    {p \in Parcels : /\ parcels[p] # NoRow
                     /\ \/ parcels[p].classified
                        \/ /\ parcels[p].acres >= CandidateAcres
                           /\ parcels[p].owner # NoOwner}

Candidates == [p \in find_candidate_parcels |-> parcels[p]]

BeginPass ==
    /\ pc = "idle"
    /\ passes < MaxPasses
    /\ passes' = passes + 1
    /\ rows' = Candidates
    /\ parent' = [p \in find_candidate_parcels |-> p]
    /\ pairs' = Adjacent \cap SUBSET find_candidate_parcels
    /\ clusters' = {} /\ cluster' = {} /\ site' = NoSite
    /\ tx' = [db EXCEPT !.built = {}]
    /\ pc' = "unite"
    /\ quiet' = TRUE
    /\ repeated' = settled
    /\ UNCHANGED <<ingestion, db, settled, together>>

_owners_related(a, b) == rows[a].owner # NoOwner /\ rows[a].owner = rows[b].owner

\* What find(n) returns in the forest f.
Root(f, n) ==
    LET up[m \in DOMAIN f] == IF f[m] = m THEN m ELSE up[f[m]]
    IN  up[n]

\* The forest after find(n): the nodes it visits, every other one of the path,
\* now point to their grandparent.
Halved(f, n) ==
    LET visited[m \in DOMAIN f] == IF f[m] = m THEN {} ELSE {m} \cup visited[f[f[m]]]
    IN  [m \in DOMAIN f |-> IF m \in visited[n] THEN f[f[m]] ELSE f[m]]

\* Mutant: the nodes are linked, not their roots.
unionNodes(f, a, b) == [Halved(Halved(f, a), b) EXCEPT ![b] = a]

union(f, a, b) ==
    LET g == Halved(f, a)
        h == Halved(g, b)
    IN  [h EXCEPT ![Root(h, b)] = Root(h, a)]

\* One row of the adjacency query, in any order; ids are random, so either
\* parcel may be the left one.
UniteRow ==
    /\ pc = "unite"
    /\ \E a, b \in DOMAIN rows :
          /\ a # b
          /\ {a, b} \in pairs
          /\ pairs' = pairs \ {{a, b}}
          /\ parent' = IF _owners_related(a, b) THEN union(parent, a, b) ELSE parent
    /\ UNCHANGED <<ingestion, db, tx, pc, rows, clusters, cluster, site, passes, history, together>>

_cluster_candidates ==
    {{q \in DOMAIN rows : Root(parent, q) = Root(parent, p)} : p \in DOMAIN rows}

Cluster ==
    /\ pc = "unite"
    /\ pairs = {}
    /\ clusters' = _cluster_candidates
    /\ together' = together \cup UNION {c \X c : c \in clusters'}
    /\ parent' = <<>>
    /\ pc' = IF clusters' = {} THEN "rollup" ELSE "build"
    /\ UNCHANGED <<ingestion, db, tx, rows, pairs, cluster, site, passes, history>>

-----------------------------------------------------------------------------
(* One cluster of the loop.                                                *)

\* The largest parcels of a set: the first one of them in the query's order.
Largest(c) == {p \in c : \A q \in c : rows[q].acres <= rows[p].acres}

LinksOf(a, s) == {p \in Parcels : <<s, p>> \in a.links}

\* Mutant: a site that this pass has built already is not taken again.
SitesOfUnbuilt(c) ==
    {s \in DOMAIN tx.sites : s \notin tx.built /\ LinksOf(tx, s) \cap c # {}}

\* The sites that have a parcel of the cluster; LIMIT 1 takes any of them.
SitesOf(c) == {s \in DOMAIN tx.sites : LinksOf(tx, s) \cap c # {}}

\* Mutant: links to parcels that left the cluster are removed.
LinkParcelsReplacing(a, s, c) ==
    [a EXCEPT !.links = {l \in @ : l[1] # s} \cup ({s} \X c), !.built = @ \cup {s}]

_link_parcels(a, s, c) == [a EXCEPT !.links = @ \cup ({s} \X c), !.built = @ \cup {s}]

\* Clusters come in the order of their largest parcel.
TakeCluster(c) ==
    /\ pc = "build"
    /\ c \in clusters
    /\ Largest(UNION clusters) \cap c # {}
    /\ clusters' = clusters \ {c}
    /\ cluster' = c
    /\ pc' = "attach"
    /\ UNCHANGED <<ingestion, db, rows, parent, pairs, passes, history, together>>

UpdateSite(c) ==
    /\ TakeCluster(c)
    /\ \E s \in SitesOf(c) :
          /\ site' = s
          /\ tx' = _link_parcels(tx, s, c)

CreateSite(c) ==
    /\ TakeCluster(c)
    /\ SitesOf(c) = {}
    /\ \E anchor \in Largest(c) :
          LET new == Len(tx.sites) + 1
              row == [anchor |-> anchor, evidence_count |-> 0]
          IN  /\ site' = new
              /\ tx' = _link_parcels([tx EXCEPT !.sites = Append(@, row)], new, c)

\* The site's boundary is the union of the polygons of all its parcels.
find_nearby_permits(a, s) ==
    {q \in Permits : permits[q] # NoRow /\ \E p \in LinksOf(a, s) : <<q, p>> \in Nearby}

\* Mutant: the evidence of every candidate.
AttachEveryCandidate(a, s, c) ==
    [a EXCEPT !.itemSite = [i \in Items |-> IF evidence[i] \in DOMAIN rows THEN s ELSE @[i]]]

_attach_parcel_evidence(a, s, c) ==
    [a EXCEPT !.itemSite = [i \in Items |-> IF evidence[i] \in c THEN s ELSE @[i]]]

\* Mutant: a permit that has a site keeps it.
AttachFreePermits(a, s) ==
    LET near == {q \in find_nearby_permits(a, s) : a.permitSite[q] = NoSite}
    IN  [a EXCEPT !.permitSite = [q \in Permits |-> IF q \in near THEN s ELSE @[q]],
                  !.itemSite   = [i \in Items |->
                      IF SubjectOf[i] \in near /\ evidence[i] # NoRow THEN s ELSE @[i]]]

_attach_nearby_permit_evidence(a, s) ==
    LET near == find_nearby_permits(a, s)
    IN  [a EXCEPT !.permitSite = [q \in Permits |-> IF q \in near THEN s ELSE @[q]],
                  !.itemSite   = [i \in Items |->
                      IF SubjectOf[i] \in near /\ evidence[i] # NoRow THEN s ELSE @[i]]]

AttachEvidence ==
    /\ pc = "attach"
    /\ tx' = _attach_nearby_permit_evidence(_attach_parcel_evidence(tx, site, cluster), site)
    /\ pc' = "link"
    /\ UNCHANGED <<ingestion, db, work, passes, history, together>>

\* From the site's boundary to t.
Away(a, s, t) ==
    CHOOSE d \in {Distance[p][t] : p \in LinksOf(a, s)} :
        \A p \in LinksOf(a, s) : d <= Distance[p][t]

\* near is what a search for the nearest targets of one kind can return.
NearestOf(a, s, kind, near) ==
    LET inside == {t \in kind : Away(a, s, t) <= Radius}
    IN  /\ near \subseteq inside
        /\ Cardinality(near) <= MaxDependencies
        /\ near # inside => Cardinality(near) = MaxDependencies
        /\ \A t \in near, u \in inside \ near : Away(a, s, t) <= Away(a, s, u)

Dependencies(a, s) == {t \in Targets : <<s, t>> \in a.dependencies}

\* The site, or nothing, by the substation that comes first in the list: only
\* that one, if it is new to the site and blocking, earns evidence.
ProximityEvidence(nearest) ==
    LET firsts == {t \in nearest : \A u \in nearest : Away(tx, site, t) <= Away(tx, site, u)}
    IN  IF nearest = {} THEN {{}}
        ELSE {IF t \notin Dependencies(tx, site) /\ Away(tx, site, t) <= BlockingDistance
              THEN {site} ELSE {} : t \in firsts}

link_infrastructure ==
    /\ pc = "link"
    /\ \E nearest \in SUBSET Substations, lines \in SUBSET Lines :
          /\ NearestOf(tx, site, Substations, nearest)
          /\ NearestOf(tx, site, Lines, lines)
          /\ \E earned \in ProximityEvidence(nearest) :
                tx' = [tx EXCEPT !.dependencies = @ \cup ({site} \X (nearest \cup lines)),
                                 !.proximity = @ \cup earned]
    /\ pc' = IF clusters = {} THEN "rollup" ELSE "build"
    /\ UNCHANGED <<ingestion, db, work, passes, history, together>>

-----------------------------------------------------------------------------
(* The end of a pass.                                                      *)

CountOf(a, s) == Cardinality({i \in Items : a.itemSite[i] = s})
                     + IF s \in a.proximity THEN 1 ELSE 0

\* Mutant: the session has not been flushed, so the query sees the old rows.
RollupUnflushed(a) ==
    [a EXCEPT !.sites = [s \in DOMAIN @ |->
        IF s \in a.built /\ CountOf(db, s) > 0
        THEN [@[s] EXCEPT !.evidence_count = CountOf(db, s)]
        ELSE @[s]]]

\* A site without evidence keeps the rollup it had.
_refresh_evidence_rollups(a) ==
    [a EXCEPT !.sites = [s \in DOMAIN @ |->
        IF s \in a.built /\ CountOf(a, s) > 0
        THEN [@[s] EXCEPT !.evidence_count = CountOf(a, s)]
        ELSE @[s]]]

Rollup ==
    /\ pc = "rollup"
    /\ tx' = _refresh_evidence_rollups(tx)
    /\ pc' = "commit"
    /\ UNCHANGED <<ingestion, db, work, passes, history, together>>

Ends ==
    /\ pc' = "idle"
    /\ rows' = <<>> /\ parent' = <<>> /\ pairs' = {}
    /\ clusters' = {} /\ cluster' = {} /\ site' = NoSite
    /\ quiet' = FALSE /\ repeated' = FALSE

Commit ==
    /\ pc = "commit"
    /\ Ends
    /\ db' = tx
    /\ settled' = quiet
    /\ UNCHANGED <<ingestion, tx, passes, together>>

\* The pass raises or is killed: the transaction is rolled back.
Abort ==
    /\ pc # "idle"
    /\ Ends
    /\ tx' = db
    /\ UNCHANGED <<ingestion, db, passes, settled, together>>

Next ==
    \/ \E p \in Parcels, row \in ParcelRows : LoadParcel(p, row)
    \/ \E q \in Permits : LoadPermit(q)
    \/ BeginPass \/ UniteRow \/ Cluster
    \/ \E c \in clusters : UpdateSite(c) \/ CreateSite(c)
    \/ AttachEvidence \/ link_infrastructure \/ Rollup \/ Commit \/ Abort

Spec == Init /\ [][Next]_vars

-----------------------------------------------------------------------------
(* What a component promises, without union-find.                          *)

\* Adjacent parcels of a table held by one organization.
Related(table, a, b) ==
    /\ {a, b} \in Adjacent
    /\ table[a].owner # NoOwner
    /\ table[a].owner = table[b].owner

Closed(table, c) ==
    \A a \in c, b \in DOMAIN table \ c : ~ Related(table, a, b)

Components(table) ==
    {c \in (SUBSET DOMAIN table) \ {{}} :
        Closed(table, c) /\ \A d \in (SUBSET c) \ {{}} : Closed(table, d) => d = c}

\* Clustering finds the connected components of adjacency with shared ownership,
\* whatever the order of the rows and the shape of the forest
\* (_cluster_candidates).
ClustersAreComponents ==
    pc = "build" /\ cluster = {} => clusters = Components(rows)

\* No two sites are founded on one parcel, so there are never more sites than
\* parcels: once linked, a parcel leads every later pass to a site that exists
\* (_upsert_site_for_cluster), across merged and split clusters and lost passes.
OneSitePerAnchor ==
    \A a \in {db, tx} : \A s \in DOMAIN a.sites :
        /\ <<s, a.sites[s].anchor>> \in a.links
        /\ \A t \in DOMAIN a.sites : a.sites[s].anchor = a.sites[t].anchor => s = t

\* Evidence that was created for a parcel is attached to no site, or to one
\* that the parcel is linked to (_attach_parcel_evidence).
ParcelEvidenceStaysWithItsParcel ==
    \A a \in {db, tx} : \A i \in Items :
        a.itemSite[i] # NoSite /\ SubjectOf[i] \in Parcels =>
            <<a.itemSite[i], SubjectOf[i]>> \in a.links

\* A pass over what the pass before it saw creates no site, also when that one
\* merged or split clusters (test_is_idempotent of the integration tests).
RepeatedPassCreatesNothing ==
    pc # "idle" /\ repeated /\ quiet => Len(tx.sites) = Len(db.sites)

\* A pass that nothing disturbed has just ended.
Undisturbed == pc = "idle" /\ settled

\* After such a pass a rollup differs from the evidence a site holds only if the
\* pass did not build the site or the site holds none: the sites built later have
\* claimed theirs before anything is counted (build_sites, _refresh_evidence_rollups).
StaleRollupIsExplained ==
    Undisturbed => \A s \in DOMAIN db.sites :
        db.sites[s].evidence_count # CountOf(db, s) => s \notin db.built \/ CountOf(db, s) = 0

\* After such a pass no evidence of a candidate parcel is left without a site; a
\* permit in range of a site it built belongs to a site it built and is in range
\* of, never to one that an earlier pass left behind; and the nearest substations
\* and lines of every site it built are among its dependencies, measured from its
\* boundary as it is now, however many older ones there are
\* (test_attaches_parcel_evidence_to_sites, _attach_nearby_permit_evidence,
\* link_infrastructure).
BuiltSitesAreLinked ==
    Undisturbed =>
        /\ \A i \in Items : evidence[i] \in find_candidate_parcels => db.itemSite[i] # NoSite
        /\ \A q \in Permits :
             (\E s \in db.built : q \in find_nearby_permits(db, s)) =>
                 /\ db.permitSite[q] \in db.built
                 /\ q \in find_nearby_permits(db, db.permitSite[q])
        /\ \A s \in db.built : \A kind \in {Substations, Lines} :
             \E near \in SUBSET Dependencies(db, s) : NearestOf(db, s, kind, near)

=============================================================================
