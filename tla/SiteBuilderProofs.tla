-------------------------- MODULE SiteBuilderProofs --------------------------
(***************************************************************************)
(* Theorems about SiteBuilder, for any parcels, evidence, geometry and     *)
(* number of passes.                                                       *)
(***************************************************************************)
EXTENDS SiteBuilder, FiniteSetTheorems, NaturalsInduction, TLAPS

-----------------------------------------------------------------------------
(* What each operation does to the rows that the theorems speak of.        *)

\* The two properties, for the committed rows or for those of the pass.
Anchored(a) ==
    \A s \in DOMAIN a.sites :
        /\ <<s, a.sites[s].anchor>> \in a.links
        /\ \A t \in DOMAIN a.sites : a.sites[s].anchor = a.sites[t].anchor => s = t

Attached(a) ==
    \A i \in Items :
        a.itemSite[i] # NoSite /\ SubjectOf[i] \in Parcels =>
            <<a.itemSite[i], SubjectOf[i]>> \in a.links

Good(a) == a \in Analysis /\ Anchored(a) /\ Attached(a)

\* The columns that an operation replaces, and those it leaves alone.
LEMMA WithSites ==
    ASSUME NEW a \in Analysis, NEW sites \in Seq(Site)
    PROVE  LET b == [a EXCEPT !.sites = sites]
           IN  b \in Analysis /\ b.sites = sites /\ b.links = a.links /\ b.itemSite = a.itemSite
BY DEF Analysis

LEMMA WithEvidence ==
    ASSUME NEW a \in Analysis, NEW permitSite \in [Permits -> Nat], NEW itemSite \in [Items -> Nat]
    PROVE  LET b == [a EXCEPT !.permitSite = permitSite, !.itemSite = itemSite]
           IN  b \in Analysis /\ b.sites = a.sites /\ b.links = a.links /\ b.itemSite = itemSite
BY DEF Analysis

\* One more site.
LEMMA AppendSite ==
    ASSUME NEW sites \in Seq(Site), NEW row \in Site
    PROVE  LET more == Append(sites, row)
               new == Len(sites) + 1
           IN  /\ more \in Seq(Site)
               /\ new \in Nat \ {0}
               /\ new \notin DOMAIN sites
               /\ DOMAIN more = DOMAIN sites \cup {new}
               /\ \A s \in DOMAIN sites : more[s] = sites[s]
               /\ more[new] = row
<1>1. Len(sites) \in Nat /\ DOMAIN sites = 1..Len(sites)
  OBVIOUS
<1>2. /\ Append(sites, row) \in Seq(Site)
      /\ DOMAIN Append(sites, row) = 1..(Len(sites) + 1)
      /\ Append(sites, row)[Len(sites) + 1] = row
      /\ \A s \in 1..Len(sites) : Append(sites, row)[s] = sites[s]
  BY <1>1
<1>3. 1..(Len(sites) + 1) = 1..Len(sites) \cup {Len(sites) + 1}
  BY <1>1
<1> QED
  BY <1>1, <1>2, <1>3

LEMMA SiteAnchor ==
    ASSUME NEW sites \in Seq(Site), NEW s \in DOMAIN sites
    PROVE  sites[s] \in Site /\ sites[s].anchor \in Parcels
<1>1. sites[s] \in Site
  OBVIOUS
<1> QED
  BY <1>1 DEF Site

\* Linking a cluster to a site adds links and changes nothing else that counts.
LEMMA LinkParcels ==
    ASSUME NEW a \in Analysis, NEW s \in Nat \ {0}, NEW c \in SUBSET Parcels
    PROVE  LET b == _link_parcels(a, s, c)
           IN  /\ b \in Analysis
               /\ b.sites = a.sites
               /\ b.itemSite = a.itemSite
               /\ b.links = a.links \cup ({s} \X c)
<1>1. {s} \X c \subseteq (Nat \ {0}) \X Parcels
  OBVIOUS
<1>2. /\ a.links \cup ({s} \X c) \in SUBSET ((Nat \ {0}) \X Parcels)
      /\ a.built \cup {s} \in SUBSET (Nat \ {0})
  BY <1>1 DEF Analysis
<1> DEFINE links == a.links \cup ({s} \X c)
           built == a.built \cup {s}
<1>3. _link_parcels(a, s, c) = [a EXCEPT !.links = links, !.built = built]
  BY DEF _link_parcels
<1> HIDE DEF links, built
<1>4. links \in SUBSET ((Nat \ {0}) \X Parcels) /\ built \in SUBSET (Nat \ {0})
  BY <1>2 DEF links, built
<1>5. LET b == [a EXCEPT !.links = links, !.built = built]
      IN  b \in Analysis /\ b.sites = a.sites /\ b.itemSite = a.itemSite /\ b.links = links
  BY <1>4 DEF Analysis
<1> QED
  BY <1>3, <1>5 DEF links

\* So it keeps what is good.
LEMMA LinkParcelsKeeps ==
    ASSUME NEW a, Good(a), NEW s \in Nat \ {0}, NEW c \in SUBSET Parcels
    PROVE  Good(_link_parcels(a, s, c))
<1> DEFINE b == _link_parcels(a, s, c)
<1>1. /\ a \in Analysis
      /\ b \in Analysis
      /\ b.sites = a.sites
      /\ b.itemSite = a.itemSite
      /\ b.links = a.links \cup ({s} \X c)
  BY LinkParcels DEF Good
<1> HIDE DEF b
<1>2. Anchored(b)
  BY <1>1 DEF Good, Anchored
<1>3. Attached(b)
  BY <1>1 DEF Good, Attached
<1>4. b \in Analysis /\ Anchored(b) /\ Attached(b)
  BY <1>1, <1>2, <1>3
<1> QED
  BY <1>4 DEF Good, b

\* A new site whose anchor is linked to no site so far, linked to its cluster.
LEMMA NewSiteKeeps ==
    ASSUME NEW a, Good(a), NEW c \in SUBSET Parcels, NEW anchor \in c,
           \A s \in DOMAIN a.sites : LinksOf(a, s) \cap c = {}
    PROVE  LET new == Len(a.sites) + 1
               row == [anchor |-> anchor, evidence_count |-> 0]
           IN  Good(_link_parcels([a EXCEPT !.sites = Append(@, row)], new, c))
<1> DEFINE new == Len(a.sites) + 1
           row == [anchor |-> anchor, evidence_count |-> 0]
           e == [a EXCEPT !.sites = Append(@, row)]
           b == _link_parcels(e, new, c)
<1>1. a \in Analysis /\ a.sites \in Seq(Site) /\ row \in Site
  BY DEF Good, Analysis, Site
<1>7. row.anchor = anchor
  OBVIOUS
<1>2. /\ new \in Nat \ {0} /\ new \notin DOMAIN a.sites
      /\ Append(a.sites, row) \in Seq(Site)
      /\ DOMAIN Append(a.sites, row) = DOMAIN a.sites \cup {new}
      /\ \A s \in DOMAIN a.sites : Append(a.sites, row)[s] = a.sites[s]
      /\ Append(a.sites, row)[new] = row
  <2> HIDE DEF row
  <2> QED
    BY <1>1, AppendSite
<1> HIDE DEF row, new
<1>3. /\ e \in Analysis /\ e.sites = Append(a.sites, row)
      /\ e.links = a.links /\ e.itemSite = a.itemSite
  BY <1>1, <1>2, WithSites
<1> HIDE DEF e
<1>4. /\ b \in Analysis /\ b.sites = e.sites /\ b.itemSite = e.itemSite
      /\ b.links = e.links \cup ({new} \X c)
  BY <1>2, <1>3, LinkParcels
<1> HIDE DEF b
<1>5. /\ DOMAIN b.sites = DOMAIN a.sites \cup {new}
      /\ \A s \in DOMAIN a.sites : b.sites[s] = a.sites[s]
      /\ b.sites[new] = row
  BY <1>2, <1>3, <1>4
<1>6. \A s \in DOMAIN a.sites : a.sites[s].anchor # anchor
  <2> SUFFICES ASSUME NEW s \in DOMAIN a.sites
               PROVE  a.sites[s].anchor # anchor
    OBVIOUS
  <2>1. a.sites[s].anchor \in Parcels
    BY <1>1, SiteAnchor
  <2>2. a.sites[s].anchor \in LinksOf(a, s)
    BY <2>1 DEF LinksOf, Good, Anchored
  <2> QED
    BY <2>2
<1>8. Anchored(b)
  BY <1>3, <1>4, <1>5, <1>6, <1>7 DEF Good, Anchored
<1>9. Attached(b)
  BY <1>3, <1>4 DEF Good, Attached
<1> QED
  BY <1>4, <1>8, <1>9 DEF Good, row, new, b, e

\* Evidence that is new to the table belongs to no site, or is a permit's.
LEMMA CitesKeeps ==
    ASSUME NEW x, NEW p, NEW s \in Nat, Good(db), Good(tx), Cites(x, p, s),
           s # NoSite => x \notin Parcels
    PROVE  /\ Good(db') /\ Good(tx')
           /\ tx'.sites = tx.sites /\ tx'.links = tx.links
           /\ \A i \in Items : evidence'[i] = evidence[i] \/ (SubjectOf[i] = x /\ evidence'[i] = p)
<1>1. CASE UNCHANGED <<evidence, db, tx>>
  BY <1>1
<1>2. CASE ~ UNCHANGED <<evidence, db, tx>>
  <2> PICK i \in Items :
        /\ SubjectOf[i] = x
        /\ evidence[i] = NoRow
        /\ evidence' = [evidence EXCEPT ![i] = p]
        /\ db' = [db EXCEPT !.itemSite[i] = s]
        /\ tx' = [tx EXCEPT !.itemSite[i] = s]
    BY <1>2 DEF Cites
  <2>1. ASSUME NEW a, NEW b, Good(a), b = [a EXCEPT !.itemSite[i] = s]
        PROVE  Good(b) /\ b.sites = a.sites /\ b.links = a.links
    <3>1. /\ b \in Analysis
          /\ b.sites = a.sites /\ b.links = a.links
          /\ b.itemSite = [a.itemSite EXCEPT ![i] = s]
          /\ a.itemSite \in [Items -> Nat]
      BY <2>1 DEF Good, Analysis
    <3>2. Anchored(b)
      BY <2>1, <3>1 DEF Good, Anchored
    <3>3. Attached(b)
      BY <2>1, <3>1 DEF Good, Attached
    <3> QED
      BY <3>1, <3>2, <3>3 DEF Good
  <2>2. Good(db') /\ Good(tx') /\ tx'.sites = tx.sites /\ tx'.links = tx.links
    BY <2>1
  <2>3. \A j \in Items : evidence'[j] = evidence[j] \/ (SubjectOf[j] = x /\ evidence'[j] = p)
    OBVIOUS
  <2> QED
    BY <2>2, <2>3
<1> QED
  BY <1>1, <1>2

-----------------------------------------------------------------------------
(* The inductive invariant.                                                *)

\* The pass works on clusters of parcels and, once it has taken one, on a site.
Shape ==
    /\ DOMAIN rows \subseteq Parcels
    /\ clusters \subseteq SUBSET Parcels
    /\ cluster \subseteq Parcels
    /\ pc \in {"attach", "link"} => site \in Nat \ {0}

\* Evidence created for a parcel is about that parcel.
Subjects ==
    \A i \in Items : SubjectOf[i] \in Parcels => evidence[i] \in {NoRow, SubjectOf[i]}

\* The cluster is linked before its evidence is claimed.
Linked == pc = "attach" => {site} \X cluster \subseteq tx.links

IInv == Good(db) /\ Good(tx) /\ Shape /\ Subjects /\ Linked

LEMMA InitIInv == Init => IInv
<1> SUFFICES ASSUME Init
             PROVE  IInv
  OBVIOUS
<1>1. NoAnalysis \in Analysis
  BY DEF NoAnalysis, Analysis, Site, NoSite
<1>2. Anchored(NoAnalysis)
  BY DEF NoAnalysis, Anchored
<1>3. Attached(NoAnalysis)
  BY DEF NoAnalysis, Attached
<1>4. Good(db) /\ Good(tx)
  BY <1>1, <1>2, <1>3 DEF Good, Init
<1>5. Shape /\ Linked
  BY DEF Init, Shape, Linked
<1>6. Subjects
  <2> SUFFICES ASSUME NEW i \in Items, SubjectOf[i] \in Parcels
               PROVE  evidence[i] \in {NoRow, SubjectOf[i]}
    BY DEF Subjects
  <2>1. evidence[i] = IF parcels[SubjectOf[i]] = NoRow THEN NoRow ELSE SubjectOf[i]
    BY DEF Init
  <2> QED
    BY <2>1
<1> QED
  BY <1>4, <1>5, <1>6 DEF IInv

-----------------------------------------------------------------------------
(* The steps.                                                              *)

LEMMA LoadsKeep ==
    ASSUME IInv
    PROVE  /\ \A p \in Parcels, row \in ParcelRows : LoadParcel(p, row) => IInv'
           /\ \A q \in Permits : LoadPermit(q) => IInv'
<1>1. ASSUME NEW p \in Parcels, NEW row \in ParcelRows, LoadParcel(p, row)
      PROVE  IInv'
  <2>1. Cites(p, p, 0) /\ UNCHANGED <<pc, work>>
    BY <1>1 DEF LoadParcel, Loads, NoSite
  <2>2. /\ Good(db)' /\ Good(tx)'
        /\ tx'.links = tx.links
        /\ \A i \in Items : evidence'[i] = evidence[i] \/ (SubjectOf[i] = p /\ evidence'[i] = p)
    BY <2>1, CitesKeeps DEF IInv, NoSite, Good, Anchored, Attached
  <2> QED
    BY <2>1, <2>2 DEF IInv, Shape, Subjects, Linked, work
<1>2. ASSUME NEW q \in Permits, LoadPermit(q)
      PROVE  IInv'
  <2> DEFINE at == Located(q, permits[q])
  <2>1. Cites(q, at, db.permitSite[q]) /\ UNCHANGED <<pc, work>>
    BY <1>2 DEF LoadPermit, Loads
  <2>2. db.permitSite[q] \in Nat /\ q \notin Parcels
    BY SiteBuilderAssumption DEF IInv, Good, Analysis
  <2> HIDE DEF at
  <2>3. /\ Good(db)' /\ Good(tx)'
        /\ tx'.links = tx.links
        /\ \A i \in Items : evidence'[i] = evidence[i] \/ SubjectOf[i] = q
    BY <2>1, <2>2, CitesKeeps DEF IInv, Good, Anchored, Attached
  <2> QED
    BY <2>1, <2>2, <2>3 DEF IInv, Shape, Subjects, Linked, work
<1> QED
  BY <1>1, <1>2

LEMMA BuildKeeps ==
    ASSUME IInv, NEW c \in clusters
    PROVE  (UpdateSite(c) \/ CreateSite(c)) => IInv'
<1>1. ASSUME TakeCluster(c), NEW b, tx' = b, NEW s \in Nat \ {0}, site' = s,
             Good(b), {s} \X c \subseteq b.links
      PROVE  IInv'
  <2>1. Good(db)' /\ Good(tx)'
    BY <1>1 DEF IInv, TakeCluster, Good, Anchored, Attached
  <2>2. Shape' /\ Subjects' /\ Linked'
    BY <1>1 DEF IInv, TakeCluster, Shape, Subjects, Linked, ingestion
  <2> QED
    BY <2>1, <2>2 DEF IInv
<1>2. /\ Good(tx) /\ tx \in Analysis /\ tx.sites \in Seq(Site)
      /\ c \in SUBSET Parcels
  BY DEF IInv, Good, Shape, Analysis
<1>3. ASSUME UpdateSite(c)
      PROVE  IInv'
  <2>1. PICK s \in SitesOf(c) : site' = s /\ tx' = _link_parcels(tx, s, c)
    BY <1>3 DEF UpdateSite
  <2>2. s \in Nat \ {0}
    BY <1>2 DEF SitesOf
  <2>3. Good(_link_parcels(tx, s, c))
    BY <1>2, <2>2, LinkParcelsKeeps
  <2>4. {s} \X c \subseteq _link_parcels(tx, s, c).links
    BY <1>2, <2>2, LinkParcels
  <2> QED
    BY <1>1, <1>3, <2>1, <2>2, <2>3, <2>4 DEF UpdateSite
<1>4. ASSUME CreateSite(c)
      PROVE  IInv'
  <2> DEFINE new == Len(tx.sites) + 1
             with(anchor) == [tx EXCEPT !.sites =
                                Append(@, [anchor |-> anchor, evidence_count |-> 0])]
  <2>1. PICK anchor \in Largest(c) : site' = new /\ tx' = _link_parcels(with(anchor), new, c)
    BY <1>4 DEF CreateSite
  <2>2. anchor \in c /\ \A s \in DOMAIN tx.sites : LinksOf(tx, s) \cap c = {}
    BY <1>4 DEF CreateSite, SitesOf, Largest
  <2>3. Good(_link_parcels(with(anchor), new, c))
    BY <1>2, <2>2, NewSiteKeeps
  <2>4. new \in Nat \ {0} /\ with(anchor) \in Analysis
    <3> DEFINE row == [anchor |-> anchor, evidence_count |-> 0]
    <3>1. row \in Site
      BY <1>2, <2>2 DEF Site
    <3> HIDE DEF row
    <3>2. new \in Nat \ {0} /\ Append(tx.sites, row) \in Seq(Site)
      BY <1>2, <3>1, AppendSite
    <3>3. [tx EXCEPT !.sites = Append(tx.sites, row)] \in Analysis
      BY <1>2, <3>2, WithSites
    <3> QED
      BY <3>2, <3>3 DEF row
  <2>5. {new} \X c \subseteq _link_parcels(with(anchor), new, c).links
    <3> HIDE DEF new, with
    <3> QED
      BY <1>2, <2>4, LinkParcels
  <2> HIDE DEF new, with
  <2> QED
    BY <1>1, <1>4, <2>1, <2>3, <2>4, <2>5 DEF CreateSite
<1> QED
  BY <1>3, <1>4

LEMMA AttachKeeps ==
    ASSUME IInv, AttachEvidence
    PROVE  IInv'
<1> DEFINE a == _attach_parcel_evidence(tx, site, cluster)
           b == _attach_nearby_permit_evidence(a, site)
<1>1. /\ tx' = b /\ pc' = "link" /\ site \in Nat \ {0} /\ cluster \subseteq Parcels
      /\ {site} \X cluster \subseteq tx.links
      /\ tx \in Analysis
  BY DEF AttachEvidence, IInv, Shape, Linked, Good
<1>2. /\ a \in Analysis /\ a.sites = tx.sites /\ a.links = tx.links
      /\ \A i \in Items : a.itemSite[i] = IF evidence[i] \in cluster THEN site ELSE tx.itemSite[i]
  BY <1>1 DEF _attach_parcel_evidence, Analysis
<1>3. find_nearby_permits(a, site) \subseteq Permits
  BY DEF find_nearby_permits
<1> HIDE DEF a
<1>4. /\ b \in Analysis /\ b.sites = tx.sites /\ b.links = tx.links
      /\ \A i \in Items : SubjectOf[i] \in Parcels => b.itemSite[i] = a.itemSite[i]
  <2> DEFINE near == find_nearby_permits(a, site)
             permitSite == [q \in Permits |-> IF q \in near THEN site ELSE a.permitSite[q]]
             itemSite == [i \in Items |-> IF SubjectOf[i] \in near /\ evidence[i] # NoRow
                                          THEN site ELSE a.itemSite[i]]
  <2>1. b = [a EXCEPT !.permitSite = permitSite, !.itemSite = itemSite]
    BY DEF _attach_nearby_permit_evidence
  <2>2. a.permitSite \in [Permits -> Nat] /\ a.itemSite \in [Items -> Nat]
    BY <1>2 DEF Analysis
  <2>3. permitSite \in [Permits -> Nat] /\ itemSite \in [Items -> Nat]
    BY <1>1, <2>2
  <2>4. \A i \in Items : SubjectOf[i] \in Parcels => itemSite[i] = a.itemSite[i]
    BY <1>3, SiteBuilderAssumption
  <2> HIDE DEF permitSite, itemSite
  <2>5. LET with == [a EXCEPT !.permitSite = permitSite, !.itemSite = itemSite]
        IN  /\ with \in Analysis /\ with.sites = a.sites /\ with.links = a.links
            /\ with.itemSite = itemSite
    BY <1>2, <2>3, WithEvidence
  <2> HIDE DEF b
  <2> QED
    BY <1>2, <2>1, <2>4, <2>5
<1> HIDE DEF b
<1>5. Anchored(b)
  BY <1>4 DEF IInv, Good, Anchored
<1>6. Attached(b)
  <2> SUFFICES ASSUME NEW i \in Items, b.itemSite[i] # NoSite, SubjectOf[i] \in Parcels
               PROVE  <<b.itemSite[i], SubjectOf[i]>> \in b.links
    BY DEF Attached
  <2>1. CASE evidence[i] \in cluster
    <3>1. evidence[i] = SubjectOf[i]
      BY <1>1, <2>1, SiteBuilderAssumption DEF IInv, Subjects
    <3>2. b.itemSite[i] = site
      BY <1>2, <1>4, <2>1
    <3> QED
      BY <1>1, <1>4, <2>1, <3>1, <3>2
  <2>2. CASE evidence[i] \notin cluster
    BY <1>2, <1>4, <2>2 DEF IInv, Good, Attached
  <2> QED
    BY <2>1, <2>2
<1>7. Good(db)' /\ Good(tx)'
  BY <1>1, <1>4, <1>5, <1>6 DEF IInv, AttachEvidence, Good, Anchored, Attached
<1>8. Shape' /\ Subjects' /\ Linked'
  BY <1>1 DEF IInv, AttachEvidence, Shape, Subjects, Linked, ingestion, work
<1> QED
  BY <1>7, <1>8 DEF IInv

LEMMA LinkKeeps ==
    ASSUME IInv, link_infrastructure
    PROVE  IInv'
<1>1. PICK nearest \in SUBSET Substations, lines \in SUBSET Lines :
        \E earned \in ProximityEvidence(nearest) :
            tx' = [tx EXCEPT !.dependencies = @ \cup ({site} \X (nearest \cup lines)),
                             !.proximity = @ \cup earned]
  BY DEF link_infrastructure
<1>2. PICK earned \in ProximityEvidence(nearest) :
            tx' = [tx EXCEPT !.dependencies = @ \cup ({site} \X (nearest \cup lines)),
                             !.proximity = @ \cup earned]
  BY <1>1
<1>3. site \in Nat \ {0} /\ tx \in Analysis
  BY DEF IInv, link_infrastructure, Shape, Good
<1>4. earned \subseteq {site}
  BY <1>2 DEF ProximityEvidence
<1>5. /\ tx' \in Analysis
      /\ tx'.sites = tx.sites /\ tx'.links = tx.links /\ tx'.itemSite = tx.itemSite
  <2> DEFINE dependencies == tx.dependencies \cup ({site} \X (nearest \cup lines))
             proximity == tx.proximity \cup earned
  <2>1. tx.dependencies \in SUBSET ((Nat \ {0}) \X Targets) /\ tx.proximity \in SUBSET (Nat \ {0})
    BY <1>3 DEF Analysis
  <2>2. /\ dependencies \in SUBSET ((Nat \ {0}) \X Targets)
        /\ proximity \in SUBSET (Nat \ {0})
    BY <1>3, <1>4, <2>1 DEF Targets
  <2>3. tx' = [tx EXCEPT !.dependencies = dependencies, !.proximity = proximity]
    BY <1>2
  <2> HIDE DEF dependencies, proximity
  <2>4. LET with == [tx EXCEPT !.dependencies = dependencies, !.proximity = proximity]
        IN  /\ with \in Analysis /\ with.sites = tx.sites /\ with.links = tx.links
            /\ with.itemSite = tx.itemSite
    BY <1>3, <2>2 DEF Analysis
  <2> QED
    BY <2>3, <2>4
<1>6. Good(tx)'
  BY <1>5 DEF IInv, Good, Anchored, Attached
<1>7. Good(db)'
  BY DEF IInv, link_infrastructure, Good, Anchored, Attached
<1>8. Shape' /\ Subjects' /\ Linked'
  BY DEF IInv, link_infrastructure, Shape, Subjects, Linked, ingestion, work
<1> QED
  BY <1>6, <1>7, <1>8 DEF IInv

LEMMA CountType ==
    ASSUME NEW a, NEW s
    PROVE  CountOf(a, s) \in Nat
<1>1. Cardinality({i \in Items : a.itemSite[i] = s}) \in Nat
  BY SiteBuilderAssumption, FS_Subset, FS_CardinalityType
<1> QED
  BY <1>1 DEF CountOf

LEMMA RollupKeeps ==
    ASSUME IInv, Rollup
    PROVE  IInv'
<1> DEFINE new == [s \in DOMAIN tx.sites |->
                     IF s \in tx.built /\ CountOf(tx, s) > 0
                     THEN [tx.sites[s] EXCEPT !.evidence_count = CountOf(tx, s)]
                     ELSE tx.sites[s]]
<1>1. tx \in Analysis /\ tx.sites \in Seq(Site)
  BY DEF IInv, Good, Analysis
<1>2. \A s : CountOf(tx, s) \in Nat
  BY CountType
<1>3. /\ new \in Seq(Site) /\ DOMAIN new = DOMAIN tx.sites
      /\ \A s \in DOMAIN tx.sites : new[s].anchor = tx.sites[s].anchor
  <2>1. DOMAIN tx.sites = 1..Len(tx.sites) /\ Len(tx.sites) \in Nat
    BY <1>1
  <2>2. ASSUME NEW s \in DOMAIN tx.sites
        PROVE  new[s] \in Site /\ new[s].anchor = tx.sites[s].anchor
    <3> DEFINE n == CountOf(tx, s)
    <3>1. n \in Nat /\ tx.sites[s] \in Site
      BY <1>1, <1>2, SiteAnchor
    <3> HIDE DEF n
    <3>2. [tx.sites[s] EXCEPT !.evidence_count = n] \in Site
      BY <3>1 DEF Site
    <3>3. [tx.sites[s] EXCEPT !.evidence_count = n].anchor = tx.sites[s].anchor
      BY <3>1 DEF Site
    <3>4. new[s] = [tx.sites[s] EXCEPT !.evidence_count = n] \/ new[s] = tx.sites[s]
      BY DEF n
    <3> QED
      BY <3>1, <3>2, <3>3, <3>4
  <2>3. DOMAIN new = DOMAIN tx.sites
    OBVIOUS
  <2> HIDE DEF new
  <2>4. new \in [1..Len(tx.sites) -> Site]
    <3>1. new = [s \in DOMAIN new |-> new[s]]
      BY DEF new
    <3> QED
      BY <2>1, <2>2, <2>3, <3>1
  <2> QED
    BY <2>1, <2>2, <2>3, <2>4
<1> HIDE DEF new
<1>4. tx' = [tx EXCEPT !.sites = new]
  BY DEF Rollup, _refresh_evidence_rollups, new
<1>5. /\ tx' \in Analysis /\ tx'.sites = new
      /\ tx'.links = tx.links /\ tx'.itemSite = tx.itemSite
  BY <1>1, <1>3, <1>4, WithSites
<1>6. Anchored(tx)'
  BY <1>3, <1>5 DEF IInv, Good, Anchored
<1>7. Attached(tx)'
  BY <1>5 DEF IInv, Good, Attached
<1>8. Good(db)' /\ Shape' /\ Subjects' /\ Linked'
  BY DEF IInv, Rollup, Shape, Subjects, Linked, ingestion, work, Good, Anchored, Attached
<1> QED
  BY <1>5, <1>6, <1>7, <1>8 DEF IInv, Good

LEMMA NextKeeps == IInv /\ [Next]_vars => IInv'
<1> SUFFICES ASSUME IInv, [Next]_vars
             PROVE  IInv'
  OBVIOUS
<1>1. CASE \E p \in Parcels, row \in ParcelRows : LoadParcel(p, row)
  BY <1>1, LoadsKeep
<1>2. CASE \E q \in Permits : LoadPermit(q)
  BY <1>2, LoadsKeep
<1>3. CASE BeginPass
  <2>1. /\ tx' \in Analysis
        /\ tx'.sites = db.sites /\ tx'.links = db.links /\ tx'.itemSite = db.itemSite
    BY <1>3 DEF BeginPass, IInv, Good, Analysis
  <2>2. Good(tx)' /\ Good(db)'
    BY <1>3, <2>1 DEF BeginPass, IInv, Good, Anchored, Attached
  <2>3. Shape' /\ Subjects' /\ Linked'
    BY <1>3 DEF BeginPass, IInv, Shape, Subjects, Linked, ingestion, Candidates,
                find_candidate_parcels
  <2> QED
    BY <2>2, <2>3 DEF IInv
<1>4. CASE UniteRow
  BY <1>4 DEF UniteRow, IInv, Shape, Subjects, Linked, ingestion, Good, Anchored, Attached
<1>5. CASE Cluster
  <2>1. _cluster_candidates \subseteq SUBSET DOMAIN rows
    BY DEF _cluster_candidates
  <2> QED
    BY <1>5, <2>1 DEF Cluster, IInv, Shape, Subjects, Linked, ingestion, Good, Anchored, Attached
<1>6. CASE \E c \in clusters : UpdateSite(c) \/ CreateSite(c)
  BY <1>6, BuildKeeps
<1>7. CASE AttachEvidence
  BY <1>7, AttachKeeps
<1>8. CASE link_infrastructure
  BY <1>8, LinkKeeps
<1>9. CASE Rollup
  BY <1>9, RollupKeeps
<1>10. CASE Commit
  BY <1>10 DEF Commit, Ends, IInv, Shape, Subjects, Linked, ingestion, Good, Anchored, Attached
<1>11. CASE Abort
  BY <1>11 DEF Abort, Ends, IInv, Shape, Subjects, Linked, ingestion, Good, Anchored, Attached
<1>12. CASE UNCHANGED vars
  BY <1>12 DEF vars, IInv, Shape, Subjects, Linked, ingestion, work, Good, Anchored, Attached
<1> QED
  BY <1>1, <1>2, <1>3, <1>4, <1>5, <1>6, <1>7, <1>8, <1>9, <1>10, <1>11, <1>12 DEF Next

LEMMA AlwaysIInv == Spec => []IInv
BY InitIInv, NextKeeps, PTL DEF Spec

\* No two sites are founded on one parcel (_upsert_site_for_cluster), however
\* clusters merge and split, and whichever passes are lost.
THEOREM SitesHaveTheirOwnAnchor == Spec => []OneSitePerAnchor
<1>1. IInv => OneSitePerAnchor
  BY DEF IInv, Good, Anchored, OneSitePerAnchor
<1> QED
  BY <1>1, AlwaysIInv, PTL

\* Evidence created for a parcel is only ever attached to a site that has that
\* parcel (_attach_parcel_evidence), whoever loads what during the pass.
THEOREM EvidenceFollowsLinks == Spec => []ParcelEvidenceStaysWithItsParcel
<1>1. IInv => ParcelEvidenceStaysWithItsParcel
  BY DEF IInv, Good, Attached, ParcelEvidenceStaysWithItsParcel
<1> QED
  BY <1>1, AlwaysIInv, PTL

-----------------------------------------------------------------------------
(* What a pass that nothing disturbs leaves behind.                        *)

\* Each parcel of a set is linked to a site, and its evidence belongs to one.
HasSite(a, set) == \A p \in set : \E s \in DOMAIN a.sites : <<s, p>> \in a.links

EvidenceClaimed(a, set) == \A i \in Items : evidence[i] \in set => a.itemSite[i] # NoSite

\* The permits around some sites belong to built sites that are near them.
PermitsClaimed(a, some) ==
    \A q \in Permits :
        (\E s \in some : q \in find_nearby_permits(a, s)) =>
            a.permitSite[q] \in a.built /\ q \in find_nearby_permits(a, a.permitSite[q])

\* The dependencies of some sites include the nearest targets of each kind.
Served(a, some) ==
    \A s \in some : \A kind \in {Substations, Lines} :
        \E near \in SUBSET Dependencies(a, s) : NearestOf(a, s, kind, near)

RolledUp(a) ==
    \A s \in DOMAIN a.sites :
        s \in a.built /\ CountOf(a, s) # 0 => a.sites[s].evidence_count = CountOf(a, s)

Complete(a) ==
    /\ HasSite(a, find_candidate_parcels) /\ EvidenceClaimed(a, find_candidate_parcels)
    /\ PermitsClaimed(a, a.built) /\ Served(a, a.built) /\ RolledUp(a)

\* The site that is being built is served last, its evidence is claimed just before.
Claiming == IF pc = "attach" THEN {site} ELSE {}
Serving == IF pc \in {"attach", "link"} THEN {site} ELSE {}
Unclaimed == (UNION clusters) \cup (IF pc = "attach" THEN cluster ELSE {})

\* A pass that repeats one has found every candidate in a site that is there.
RepeatInv ==
    repeated =>
        /\ settled
        /\ db.links \subseteq tx.links
        /\ Len(tx.sites) = Len(db.sites)

QuietInv ==
    pc # "idle" /\ quiet =>
        /\ DOMAIN rows = find_candidate_parcels
        /\ clusters \subseteq SUBSET DOMAIN rows
        /\ RepeatInv
        /\ pc = "unite" => tx.built = {}
        /\ pc = "attach" => site \in tx.built
        /\ pc # "unite" => /\ HasSite(tx, DOMAIN rows \ UNION clusters)
                           /\ EvidenceClaimed(tx, DOMAIN rows \ Unclaimed)
        /\ PermitsClaimed(tx, tx.built \ Claiming)
        /\ Served(tx, tx.built \ Serving)
        /\ pc \in {"rollup", "commit"} => clusters = {}
        /\ pc = "commit" => RolledUp(tx)

PassInv ==
    /\ settled => Complete(db)
    /\ QuietInv

\* The pass only ever adds links.
LEMMA MoreLinks ==
    ASSUME NEW a, NEW b, a.links \subseteq b.links, NEW s
    PROVE  find_nearby_permits(a, s) \subseteq find_nearby_permits(b, s)
BY DEF find_nearby_permits, LinksOf

LEMMA SameLinks ==
    ASSUME NEW a, NEW b, NEW s, LinksOf(a, s) = LinksOf(b, s)
    PROVE  /\ find_nearby_permits(a, s) = find_nearby_permits(b, s)
           /\ \A kind, near : NearestOf(a, s, kind, near) <=> NearestOf(b, s, kind, near)
<1>1. find_nearby_permits(a, s) = find_nearby_permits(b, s)
  BY DEF find_nearby_permits
<1>2. \A t : Away(a, s, t) = Away(b, s, t)
  BY DEF Away
<1>3. \A kind, near : NearestOf(a, s, kind, near) <=> NearestOf(b, s, kind, near)
  BY <1>2 DEF NearestOf
<1> QED
  BY <1>1, <1>3

\* The columns that each operation writes.
LEMMA LinkColumns ==
    ASSUME NEW a \in Analysis, NEW s, NEW c
    PROVE  LET b == _link_parcels(a, s, c)
           IN  /\ b.sites = a.sites /\ b.itemSite = a.itemSite /\ b.permitSite = a.permitSite
               /\ b.dependencies = a.dependencies /\ b.proximity = a.proximity
               /\ b.links = a.links \cup ({s} \X c) /\ b.built = a.built \cup {s}
BY DEF _link_parcels, Analysis

LEMMA SiteColumns ==
    ASSUME NEW a \in Analysis, NEW sites
    PROVE  LET b == [a EXCEPT !.sites = sites]
           IN  /\ b.sites = sites /\ b.itemSite = a.itemSite /\ b.permitSite = a.permitSite
               /\ b.dependencies = a.dependencies /\ b.proximity = a.proximity
               /\ b.links = a.links /\ b.built = a.built
BY DEF Analysis

\* Whether a pass is complete is settled by what it reads and what it wrote.
LEMMA SettledKept ==
    ASSUME PassInv, UNCHANGED <<ingestion, db>>, settled' => settled, QuietInv'
    PROVE  PassInv'
<1>1. settled' => Complete(db)
  BY DEF PassInv
<1>2. settled' => Complete(db)'
  BY <1>1 DEF ingestion, Complete, find_candidate_parcels, HasSite, EvidenceClaimed,
              PermitsClaimed, find_nearby_permits, Served, RolledUp
<1> QED
  BY <1>2 DEF PassInv

LEMMA InitPassInv == Init => PassInv
BY DEF Init, PassInv, QuietInv

LEMMA LoadsPass ==
    ASSUME Loads
    PROVE  PassInv'
BY DEF Loads, PassInv, QuietInv

LEMMA BeginPassPass ==
    ASSUME IInv, PassInv, BeginPass
    PROVE  PassInv'
<1>1. /\ tx'.links = db.links /\ tx'.sites = db.sites /\ tx'.built = {}
  BY DEF IInv, Good, BeginPass, Analysis
<1>2. /\ pc' = "unite" /\ clusters' = {} /\ repeated' = settled /\ settled' = settled
      /\ UNCHANGED <<ingestion, db>>
      /\ DOMAIN rows' = find_candidate_parcels
  BY DEF BeginPass, Candidates
<1>3. find_candidate_parcels' = find_candidate_parcels
  BY <1>2 DEF ingestion, find_candidate_parcels
<1>4. RepeatInv'
  BY <1>1, <1>2 DEF RepeatInv
<1>5. PermitsClaimed(tx, tx.built \ Claiming)' /\ Served(tx, tx.built \ Serving)'
  BY <1>1 DEF PermitsClaimed, Served
<1>6. QuietInv'
  BY <1>1, <1>2, <1>3, <1>4, <1>5 DEF QuietInv
<1> QED
  BY <1>2, <1>6, SettledKept

LEMMA UniteRowPass ==
    ASSUME PassInv, UniteRow
    PROVE  PassInv'
<1>1. /\ pc = "unite" /\ pc' = "unite"
      /\ UNCHANGED <<ingestion, db, tx, rows, clusters, cluster, site, quiet, settled, repeated>>
  BY DEF UniteRow, history
<1>2. QuietInv'
  BY <1>1 DEF PassInv, QuietInv, RepeatInv, ingestion, find_candidate_parcels, PermitsClaimed,
              find_nearby_permits, Served, Claiming, Serving
<1> QED
  BY <1>1, <1>2, SettledKept

LEMMA ClusterPass ==
    ASSUME PassInv, Cluster
    PROVE  PassInv'
<1>1. /\ pc = "unite" /\ pc' \in {"rollup", "build"}
      /\ clusters' = _cluster_candidates
      /\ pc' = "rollup" => clusters' = {}
      /\ UNCHANGED <<ingestion, db, tx, rows, cluster, site, quiet, settled, repeated>>
  BY DEF Cluster, history
<1>2. clusters' \subseteq SUBSET DOMAIN rows /\ UNION clusters' = DOMAIN rows
  <2> DEFINE C(p) == {q \in DOMAIN rows : Root(parent, q) = Root(parent, p)}
  <2>1. clusters' = {C(p) : p \in DOMAIN rows}
    BY <1>1 DEF _cluster_candidates
  <2>2. \A p \in DOMAIN rows : p \in C(p) /\ C(p) \subseteq DOMAIN rows
    OBVIOUS
  <2> HIDE DEF C
  <2> QED
    BY <2>1, <2>2
<1>3. SUFFICES ASSUME quiet
               PROVE  QuietInv'
  BY <1>1, SettledKept DEF QuietInv
<1>4. /\ DOMAIN rows = find_candidate_parcels /\ RepeatInv /\ tx.built = {}
  BY <1>1, <1>3 DEF PassInv, QuietInv
<1>5. find_candidate_parcels' = find_candidate_parcels /\ RepeatInv'
  BY <1>1, <1>4 DEF RepeatInv, ingestion, find_candidate_parcels
<1>6. HasSite(tx, DOMAIN rows \ UNION clusters)' /\ EvidenceClaimed(tx, DOMAIN rows \ Unclaimed)'
  <2>1. UNION clusters' \subseteq Unclaimed'
    BY DEF Unclaimed
  <2> QED
    BY <1>1, <1>2, <2>1 DEF HasSite, EvidenceClaimed
<1>7. PermitsClaimed(tx, tx.built \ Claiming)' /\ Served(tx, tx.built \ Serving)'
  BY <1>1, <1>4 DEF PermitsClaimed, Served
<1> QED
  BY <1>1, <1>2, <1>4, <1>5, <1>6, <1>7 DEF QuietInv

\* A cluster is linked to a site s, which may be new: b are the rows then, and more
\* the sites with the new one.
LEMMA TakePass ==
    ASSUME IInv, PassInv, NEW c \in clusters, TakeCluster(c),
           NEW s, NEW sites, tx' = _link_parcels([tx EXCEPT !.sites = sites], s, c),
           site' = s, s \in DOMAIN sites, DOMAIN tx.sites \subseteq DOMAIN sites,
           quiet /\ repeated => Len(sites) = Len(tx.sites)
    PROVE  PassInv'
<1> DEFINE b == tx'
<1>1. tx \in Analysis
  BY DEF IInv, Good
<1>2. /\ b.sites = sites /\ b.itemSite = tx.itemSite /\ b.permitSite = tx.permitSite
      /\ b.dependencies = tx.dependencies
      /\ b.links = tx.links \cup ({s} \X c) /\ b.built = tx.built \cup {s}
  BY <1>1 DEF _link_parcels, Analysis
<1>3. /\ pc = "build" /\ pc' = "attach"
      /\ clusters' = clusters \ {c} /\ cluster' = c
      /\ UNCHANGED <<ingestion, db, rows, quiet, settled, repeated>>
  BY DEF TakeCluster, history
<1>4. SUFFICES ASSUME quiet
               PROVE  QuietInv'
  BY <1>3, SettledKept DEF QuietInv
<1>5. /\ DOMAIN rows = find_candidate_parcels
      /\ clusters \subseteq SUBSET DOMAIN rows
      /\ RepeatInv
      /\ HasSite(tx, DOMAIN rows \ UNION clusters)
      /\ EvidenceClaimed(tx, DOMAIN rows \ UNION clusters)
      /\ PermitsClaimed(tx, tx.built)
      /\ Served(tx, tx.built)
  <2>1. Unclaimed = UNION clusters /\ Claiming = {} /\ Serving = {}
    BY <1>3 DEF Unclaimed, Claiming, Serving
  <2>2. tx.built \ {} = tx.built
    OBVIOUS
  <2> QED
    BY <1>3, <1>4, <2>1, <2>2 DEF PassInv, QuietInv
<1>6. Unclaimed' = UNION clusters /\ Claiming' = {s} /\ Serving' = {s}
  BY <1>3 DEF Unclaimed, Claiming, Serving
<1> HIDE DEF b
<1>7. /\ find_candidate_parcels' = find_candidate_parcels
      /\ clusters' \subseteq SUBSET DOMAIN rows
      /\ RepeatInv'
  BY <1>2, <1>3, <1>4, <1>5 DEF RepeatInv, ingestion, find_candidate_parcels, b
<1>8. HasSite(tx', DOMAIN rows \ UNION clusters')
  <2> SUFFICES ASSUME NEW p \in DOMAIN rows \ UNION clusters'
               PROVE  \E t \in DOMAIN b.sites : <<t, p>> \in b.links
    BY DEF HasSite, b
  <2>1. CASE p \in c
    BY <1>2, <2>1
  <2>2. CASE p \notin c
    <3>1. p \in DOMAIN rows \ UNION clusters
      BY <1>3, <2>2
    <3>2. PICK t \in DOMAIN tx.sites : <<t, p>> \in tx.links
      BY <1>5, <3>1 DEF HasSite
    <3> QED
      BY <1>2, <3>2
  <2> QED
    BY <2>1, <2>2
<1>9. EvidenceClaimed(tx', DOMAIN rows \ UNION clusters)
  BY <1>2, <1>5 DEF EvidenceClaimed, b
<1>10. \A t \in tx.built \ {s} : LinksOf(tx, t) = LinksOf(b, t)
  BY <1>2 DEF LinksOf
<1>11. b.built \ {s} = tx.built \ {s}
  BY <1>2
<1>12. PermitsClaimed(b, b.built \ {s})
  <2> SUFFICES ASSUME NEW q \in Permits, NEW t \in tx.built \ {s}, q \in find_nearby_permits(b, t)
               PROVE  b.permitSite[q] \in b.built /\ q \in find_nearby_permits(b, b.permitSite[q])
    BY <1>11 DEF PermitsClaimed
  <2>1. q \in find_nearby_permits(tx, t)
    BY <1>10, SameLinks
  <2>2. tx.permitSite[q] \in tx.built /\ q \in find_nearby_permits(tx, tx.permitSite[q])
    BY <1>5, <2>1 DEF PermitsClaimed
  <2> QED
    BY <1>2, <2>2, MoreLinks
<1>13. Served(b, b.built \ {s})
  <2> SUFFICES ASSUME NEW t \in tx.built \ {s}, NEW kind \in {Substations, Lines}
               PROVE  \E near \in SUBSET Dependencies(b, t) : NearestOf(b, t, kind, near)
    BY <1>11 DEF Served
  <2>1. PICK near \in SUBSET Dependencies(tx, t) : NearestOf(tx, t, kind, near)
    BY <1>5 DEF Served
  <2>2. Dependencies(b, t) = Dependencies(tx, t)
    BY <1>2 DEF Dependencies
  <2>3. NearestOf(b, t, kind, near)
    BY <1>10, <2>1, SameLinks
  <2> QED
    BY <2>1, <2>2, <2>3
<1>14. /\ PermitsClaimed(tx, tx.built \ Claiming)'
       /\ Served(tx, tx.built \ Serving)'
       /\ HasSite(tx, DOMAIN rows \ UNION clusters)'
       /\ EvidenceClaimed(tx, DOMAIN rows \ Unclaimed)'
  <2>1. HasSite(tx, DOMAIN rows \ UNION clusters)' /\ EvidenceClaimed(tx, DOMAIN rows \ Unclaimed)'
    BY <1>3, <1>6, <1>8, <1>9 DEF HasSite, EvidenceClaimed, ingestion
  <2>2. PermitsClaimed(tx, tx.built \ Claiming)'
    BY <1>3, <1>6, <1>12 DEF PermitsClaimed, find_nearby_permits, ingestion, b
  <2>3. Served(tx, tx.built \ Serving)'
    BY <1>6, <1>13 DEF Served, b
  <2> QED
    BY <2>1, <2>2, <2>3
<1>15. site' \in tx'.built
  BY <1>2 DEF b
<1> QED
  BY <1>3, <1>5, <1>7, <1>14, <1>15 DEF QuietInv

LEMMA BuildPass ==
    ASSUME IInv, PassInv, NEW c \in clusters
    PROVE  (UpdateSite(c) \/ CreateSite(c)) => PassInv'
<1>1. tx \in Analysis /\ tx.sites \in Seq(Site) /\ c \in SUBSET Parcels
  BY DEF IInv, Good, Shape, Analysis
<1>2. ASSUME UpdateSite(c)
      PROVE  PassInv'
  <2>1. PICK s \in SitesOf(c) : site' = s /\ tx' = _link_parcels(tx, s, c)
    BY <1>2 DEF UpdateSite
  <2>2. [tx EXCEPT !.sites = tx.sites] = tx
    BY <1>1 DEF Analysis
  <2>3. s \in DOMAIN tx.sites /\ TakeCluster(c)
    BY <1>2, <2>1 DEF SitesOf, UpdateSite
  <2> QED
    BY <2>1, <2>2, <2>3, TakePass
<1>3. ASSUME CreateSite(c)
      PROVE  PassInv'
  <2> DEFINE new == Len(tx.sites) + 1
             row(anchor) == [anchor |-> anchor, evidence_count |-> 0]
             sites(anchor) == Append(tx.sites, row(anchor))
  <2>1. PICK anchor \in Largest(c) :
          site' = new /\ tx' = _link_parcels([tx EXCEPT !.sites = sites(anchor)], new, c)
    BY <1>3 DEF CreateSite
  <2>2. anchor \in c /\ SitesOf(c) = {} /\ TakeCluster(c) /\ pc = "build"
    BY <1>3 DEF CreateSite, Largest, TakeCluster
  <2>3. row(anchor) \in Site
    BY <1>1, <2>2 DEF Site
  <2> HIDE DEF row
  <2>4. DOMAIN sites(anchor) = DOMAIN tx.sites \cup {new}
    BY <1>1, <2>3, AppendSite
  <2>5. ~ (quiet /\ repeated)
    <3> SUFFICES ASSUME quiet, repeated
                 PROVE  FALSE
      OBVIOUS
    <3>1. /\ HasSite(db, find_candidate_parcels) /\ db.links \subseteq tx.links
          /\ Len(tx.sites) = Len(db.sites)
          /\ c \subseteq find_candidate_parcels
      BY <2>2 DEF PassInv, QuietInv, RepeatInv, Complete
    <3>2. PICK t \in DOMAIN db.sites : <<t, anchor>> \in db.links
      BY <2>2, <3>1 DEF HasSite
    <3>3. db.sites \in Seq(Site)
      BY DEF IInv, Good, Analysis
    <3>4. t \in DOMAIN tx.sites
      BY <1>1, <3>1, <3>3
    <3>5. anchor \in LinksOf(tx, t)
      BY <1>1, <2>2, <3>1, <3>2 DEF LinksOf
    <3> QED
      BY <2>2, <3>4, <3>5 DEF SitesOf
  <2> HIDE DEF new, sites
  <2> QED
    BY <2>1, <2>2, <2>4, <2>5, TakePass
<1> QED
  BY <1>2, <1>3

LEMMA AttachPass ==
    ASSUME IInv, PassInv, AttachEvidence
    PROVE  PassInv'
<1> DEFINE a == _attach_parcel_evidence(tx, site, cluster)
           b == tx'
           near == find_nearby_permits(tx, site)
<1>1. /\ pc = "attach" /\ pc' = "link" /\ b = _attach_nearby_permit_evidence(a, site)
      /\ UNCHANGED <<ingestion, db, rows, clusters, cluster, site, quiet, settled, repeated>>
  BY DEF AttachEvidence, work, history
<1>2. SUFFICES ASSUME quiet
               PROVE  QuietInv'
  BY <1>1, SettledKept DEF QuietInv
<1>3. tx \in Analysis /\ site \in Nat \ {0}
  BY <1>1 DEF IInv, Good, Shape
<1>4. /\ a.sites = tx.sites /\ a.links = tx.links /\ a.built = tx.built
      /\ a.dependencies = tx.dependencies /\ a.permitSite = tx.permitSite
      /\ \A i \in Items : a.itemSite[i] = IF evidence[i] \in cluster THEN site ELSE tx.itemSite[i]
      /\ a \in Analysis
  BY <1>3 DEF _attach_parcel_evidence, Analysis
<1>5. find_nearby_permits(a, site) = near
  BY <1>4 DEF find_nearby_permits, LinksOf
<1> HIDE DEF a, near
<1>6. /\ b.sites = a.sites /\ b.links = a.links /\ b.built = a.built
      /\ b.dependencies = a.dependencies
      /\ b.permitSite = [q \in Permits |-> IF q \in near THEN site ELSE a.permitSite[q]]
      /\ b.itemSite = [i \in Items |-> IF SubjectOf[i] \in near /\ evidence[i] # NoRow
                                       THEN site ELSE a.itemSite[i]]
  BY <1>1, <1>4, <1>5 DEF _attach_nearby_permit_evidence, Analysis
<1>7. /\ DOMAIN rows = find_candidate_parcels
      /\ clusters \subseteq SUBSET DOMAIN rows
      /\ RepeatInv
      /\ site \in tx.built
      /\ HasSite(tx, DOMAIN rows \ UNION clusters)
      /\ EvidenceClaimed(tx, DOMAIN rows \ Unclaimed)
      /\ PermitsClaimed(tx, tx.built \ Claiming)
      /\ Served(tx, tx.built \ Serving)
  BY <1>1, <1>2 DEF PassInv, QuietInv
<1>8. /\ Unclaimed = (UNION clusters) \cup cluster /\ Unclaimed' = UNION clusters
      /\ Claiming = {site} /\ Claiming' = {} /\ Serving = {site} /\ Serving' = {site}
  BY <1>1 DEF Unclaimed, Claiming, Serving
<1> HIDE DEF b
<1>9. find_candidate_parcels' = find_candidate_parcels /\ RepeatInv'
  BY <1>1, <1>4, <1>6, <1>7 DEF RepeatInv, ingestion, find_candidate_parcels, b
<1>10. HasSite(tx, DOMAIN rows \ UNION clusters)'
  BY <1>1, <1>4, <1>6, <1>7 DEF HasSite, b
<1>11. EvidenceClaimed(b, DOMAIN rows \ UNION clusters)
  <2> SUFFICES ASSUME NEW i \in Items, evidence[i] \in DOMAIN rows \ UNION clusters
               PROVE  b.itemSite[i] # NoSite
    BY DEF EvidenceClaimed
  <2>1. a.itemSite[i] # NoSite
    <3>1. CASE evidence[i] \in cluster
      BY <1>3, <1>4, <3>1 DEF NoSite
    <3>2. CASE evidence[i] \notin cluster
      BY <1>4, <1>7, <1>8, <3>2 DEF EvidenceClaimed
    <3> QED
      BY <3>1, <3>2
  <2> QED
    BY <1>3, <1>6, <2>1 DEF NoSite
<1>12. \A t : LinksOf(b, t) = LinksOf(tx, t)
  BY <1>4, <1>6 DEF LinksOf
<1>13. \A t : find_nearby_permits(b, t) = find_nearby_permits(tx, t)
  BY <1>12, SameLinks
<1>14. PermitsClaimed(b, b.built)
  <2> SUFFICES ASSUME NEW q \in Permits, NEW t \in b.built, q \in find_nearby_permits(b, t)
               PROVE  b.permitSite[q] \in b.built /\ q \in find_nearby_permits(b, b.permitSite[q])
    BY DEF PermitsClaimed
  <2>1. CASE q \in near
    BY <1>4, <1>6, <1>7, <1>13, <2>1 DEF near
  <2>2. CASE q \notin near
    <3>1. t \in tx.built \ {site} /\ q \in find_nearby_permits(tx, t)
      BY <1>4, <1>6, <1>13, <2>2 DEF near
    <3>2. tx.permitSite[q] \in tx.built /\ q \in find_nearby_permits(tx, tx.permitSite[q])
      BY <1>7, <1>8, <3>1 DEF PermitsClaimed
    <3>3. b.permitSite[q] = tx.permitSite[q]
      BY <1>4, <1>6, <2>2
    <3> QED
      BY <1>4, <1>6, <1>13, <3>2, <3>3
  <2> QED
    BY <2>1, <2>2
<1>15. Served(b, b.built \ {site})
  <2> SUFFICES ASSUME NEW t \in b.built \ {site}, NEW kind \in {Substations, Lines}
               PROVE  \E some \in SUBSET Dependencies(b, t) : NearestOf(b, t, kind, some)
    BY DEF Served
  <2>1. PICK some \in SUBSET Dependencies(tx, t) : NearestOf(tx, t, kind, some)
    BY <1>4, <1>6, <1>7, <1>8 DEF Served
  <2>2. Dependencies(b, t) = Dependencies(tx, t)
    BY <1>4, <1>6 DEF Dependencies
  <2>3. NearestOf(b, t, kind, some)
    BY <1>12, <2>1, SameLinks
  <2> QED
    BY <2>1, <2>2, <2>3
<1>16. /\ EvidenceClaimed(tx, DOMAIN rows \ Unclaimed)'
       /\ PermitsClaimed(tx, tx.built \ Claiming)'
       /\ Served(tx, tx.built \ Serving)'
  <2>1. EvidenceClaimed(tx, DOMAIN rows \ Unclaimed)'
    BY <1>1, <1>8, <1>11 DEF EvidenceClaimed, ingestion, b
  <2>2. PermitsClaimed(tx, tx.built \ Claiming)'
    BY <1>1, <1>8, <1>14 DEF PermitsClaimed, find_nearby_permits, ingestion, b
  <2>3. Served(tx, tx.built \ Serving)'
    BY <1>8, <1>15 DEF Served, b
  <2> QED
    BY <2>1, <2>2, <2>3
<1> QED
  BY <1>1, <1>7, <1>9, <1>10, <1>16 DEF QuietInv

LEMMA LinkPass ==
    ASSUME IInv, PassInv, link_infrastructure
    PROVE  PassInv'
<1>1. PICK nearest \in SUBSET Substations, lines \in SUBSET Lines :
        /\ NearestOf(tx, site, Substations, nearest)
        /\ NearestOf(tx, site, Lines, lines)
        /\ \E earned \in ProximityEvidence(nearest) :
            tx' = [tx EXCEPT !.dependencies = @ \cup ({site} \X (nearest \cup lines)),
                             !.proximity = @ \cup earned]
  BY DEF link_infrastructure
<1> DEFINE b == tx'
<1>2. /\ pc = "link" /\ pc' \in {"rollup", "build"} /\ (pc' = "rollup" => clusters = {})
      /\ UNCHANGED <<ingestion, db, rows, clusters, cluster, site, quiet, settled, repeated>>
  BY DEF link_infrastructure, work, history
<1>3. SUFFICES ASSUME quiet
               PROVE  QuietInv'
  BY <1>2, SettledKept DEF QuietInv
<1>4. /\ b.sites = tx.sites /\ b.links = tx.links /\ b.built = tx.built
      /\ b.itemSite = tx.itemSite /\ b.permitSite = tx.permitSite
      /\ b.dependencies = tx.dependencies \cup ({site} \X (nearest \cup lines))
  <2>1. tx \in Analysis
    BY DEF IInv, Good
  <2>2. PICK earned : tx' = [tx EXCEPT !.dependencies = @ \cup ({site} \X (nearest \cup lines)),
                                       !.proximity = @ \cup earned]
    BY <1>1
  <2> DEFINE dependencies == tx.dependencies \cup ({site} \X (nearest \cup lines))
             proximity == tx.proximity \cup earned
  <2>3. tx' = [tx EXCEPT !.dependencies = dependencies, !.proximity = proximity]
    BY <2>2
  <2> HIDE DEF dependencies, proximity
  <2>4. LET with == [tx EXCEPT !.dependencies = dependencies, !.proximity = proximity]
        IN  /\ with.sites = tx.sites /\ with.links = tx.links /\ with.built = tx.built
            /\ with.itemSite = tx.itemSite /\ with.permitSite = tx.permitSite
            /\ with.dependencies = dependencies
    BY <2>1 DEF Analysis
  <2> QED
    BY <2>3, <2>4 DEF dependencies
<1>5. /\ DOMAIN rows = find_candidate_parcels
      /\ clusters \subseteq SUBSET DOMAIN rows
      /\ RepeatInv
      /\ HasSite(tx, DOMAIN rows \ UNION clusters)
      /\ EvidenceClaimed(tx, DOMAIN rows \ Unclaimed)
      /\ PermitsClaimed(tx, tx.built \ Claiming)
      /\ Served(tx, tx.built \ Serving)
  BY <1>2, <1>3 DEF PassInv, QuietInv
<1>6. /\ Unclaimed = UNION clusters /\ Unclaimed' = UNION clusters
      /\ Claiming = {} /\ Claiming' = {} /\ Serving = {site} /\ Serving' = {}
  BY <1>2 DEF Unclaimed, Claiming, Serving
<1> HIDE DEF b
<1>7. find_candidate_parcels' = find_candidate_parcels /\ RepeatInv'
  BY <1>2, <1>4, <1>5 DEF RepeatInv, ingestion, find_candidate_parcels, b
<1>8. \A t : LinksOf(b, t) = LinksOf(tx, t)
  BY <1>4 DEF LinksOf
<1>9. \A t : find_nearby_permits(b, t) = find_nearby_permits(tx, t)
  BY <1>8, SameLinks
<1>10. Served(b, b.built)
  <2> SUFFICES ASSUME NEW t \in tx.built, NEW kind \in {Substations, Lines}
               PROVE  \E some \in SUBSET Dependencies(b, t) : NearestOf(b, t, kind, some)
    BY <1>4 DEF Served
  <2>1. CASE t = site
    <3>1. nearest \in SUBSET Dependencies(b, t) /\ lines \in SUBSET Dependencies(b, t)
      BY <1>4, <2>1 DEF Dependencies, Targets
    <3>2. NearestOf(b, t, Substations, nearest) /\ NearestOf(b, t, Lines, lines)
      BY <1>1, <1>8, <2>1, SameLinks
    <3>3. CASE kind = Substations
      BY <3>1, <3>2, <3>3
    <3>4. CASE kind = Lines
      BY <3>1, <3>2, <3>4
    <3> QED
      BY <3>3, <3>4
  <2>2. CASE t # site
    <3>1. PICK some \in SUBSET Dependencies(tx, t) : NearestOf(tx, t, kind, some)
      BY <1>5, <1>6, <2>2 DEF Served
    <3>2. Dependencies(tx, t) \subseteq Dependencies(b, t)
      BY <1>4 DEF Dependencies
    <3>3. NearestOf(b, t, kind, some)
      BY <1>8, <3>1, SameLinks
    <3> QED
      BY <3>1, <3>2, <3>3
  <2> QED
    BY <2>1, <2>2
<1>11. PermitsClaimed(b, b.built)
  <2>1. PermitsClaimed(tx, tx.built)
    BY <1>5, <1>6 DEF PermitsClaimed
  <2> QED
    BY <1>4, <1>9, <2>1 DEF PermitsClaimed
<1>12. /\ HasSite(tx, DOMAIN rows \ UNION clusters)'
       /\ EvidenceClaimed(tx, DOMAIN rows \ Unclaimed)'
       /\ PermitsClaimed(tx, tx.built \ Claiming)'
       /\ Served(tx, tx.built \ Serving)'
  <2>1. HasSite(tx, DOMAIN rows \ UNION clusters)'
    BY <1>2, <1>4, <1>5 DEF HasSite, b
  <2>2. EvidenceClaimed(tx, DOMAIN rows \ Unclaimed)'
    BY <1>2, <1>4, <1>5, <1>6 DEF EvidenceClaimed, ingestion, b
  <2>3. PermitsClaimed(tx, tx.built \ Claiming)'
    BY <1>2, <1>6, <1>11 DEF PermitsClaimed, find_nearby_permits, ingestion, b
  <2>4. Served(tx, tx.built \ Serving)'
    BY <1>6, <1>10 DEF Served, b
  <2> QED
    BY <2>1, <2>2, <2>3, <2>4
<1> QED
  BY <1>2, <1>5, <1>7, <1>12 DEF QuietInv

LEMMA RollupPass ==
    ASSUME IInv, PassInv, Rollup
    PROVE  PassInv'
<1> DEFINE b == tx'
           new == [s \in DOMAIN tx.sites |->
                     IF s \in tx.built /\ CountOf(tx, s) > 0
                     THEN [tx.sites[s] EXCEPT !.evidence_count = CountOf(tx, s)]
                     ELSE tx.sites[s]]
<1>1. tx \in Analysis /\ tx.sites \in Seq(Site) /\ b = [tx EXCEPT !.sites = new]
  BY DEF IInv, Good, Analysis, Rollup, _refresh_evidence_rollups
<1>2. /\ pc = "rollup" /\ pc' = "commit"
      /\ UNCHANGED <<ingestion, db, rows, clusters, cluster, site, quiet, settled, repeated>>
  BY DEF Rollup, work, history
<1>3. SUFFICES ASSUME quiet
               PROVE  QuietInv'
  BY <1>2, SettledKept DEF QuietInv
<1>4. /\ b.sites = new /\ b.itemSite = tx.itemSite /\ b.permitSite = tx.permitSite
      /\ b.dependencies = tx.dependencies /\ b.proximity = tx.proximity
      /\ b.links = tx.links /\ b.built = tx.built
  <2> HIDE DEF new
  <2> QED
    BY <1>1, SiteColumns
<1>5. DOMAIN new = DOMAIN tx.sites
  OBVIOUS
<1>6. Len(b.sites) = Len(tx.sites)
  <2>1. b.sites \in Seq(Site)
    BY RollupKeeps DEF IInv, Good, Analysis
  <2>2. DOMAIN b.sites = DOMAIN tx.sites
    BY <1>4, <1>5
  <2> HIDE DEF b, new
  <2> QED
    BY <1>1, <2>1, <2>2
<1>7. \A s : CountOf(b, s) = CountOf(tx, s)
  BY <1>4 DEF CountOf
<1>8. RolledUp(b)
  <2> SUFFICES ASSUME NEW s \in DOMAIN tx.sites, s \in tx.built, CountOf(tx, s) # 0
               PROVE  new[s].evidence_count = CountOf(tx, s)
    BY <1>4, <1>5, <1>7 DEF RolledUp
  <2> DEFINE n == CountOf(tx, s)
  <2>1. n > 0
    <3>1. n \in Nat /\ n # 0
      BY CountType
    <3> HIDE DEF n
    <3> QED
      BY <3>1
  <2>2. tx.sites[s] \in Site
    BY <1>1, SiteAnchor
  <2>3. new[s] = [tx.sites[s] EXCEPT !.evidence_count = n]
    BY <2>1
  <2> HIDE DEF new, n
  <2>4. new[s].evidence_count = n
    BY <2>2, <2>3 DEF Site
  <2> QED
    BY <2>4 DEF n
<1> HIDE DEF new
<1>9. /\ DOMAIN rows = find_candidate_parcels
      /\ clusters = {}
      /\ RepeatInv
      /\ HasSite(tx, DOMAIN rows \ UNION clusters)
      /\ EvidenceClaimed(tx, DOMAIN rows \ Unclaimed)
      /\ PermitsClaimed(tx, tx.built \ Claiming)
      /\ Served(tx, tx.built \ Serving)
  BY <1>2, <1>3 DEF PassInv, QuietInv
<1>10. Unclaimed' = Unclaimed /\ Claiming' = Claiming /\ Serving' = Serving
  BY <1>2 DEF Unclaimed, Claiming, Serving
<1> HIDE DEF b
<1>11. find_candidate_parcels' = find_candidate_parcels /\ RepeatInv'
  BY <1>2, <1>4, <1>6, <1>9 DEF RepeatInv, ingestion, find_candidate_parcels, b
<1>12. \A t : LinksOf(b, t) = LinksOf(tx, t)
  BY <1>4 DEF LinksOf
<1>13. \A t : Dependencies(b, t) = Dependencies(tx, t)
  BY <1>4 DEF Dependencies
<1>14. Served(b, b.built \ Serving)
  BY <1>4, <1>9, <1>12, <1>13, SameLinks DEF Served
<1>15. PermitsClaimed(b, b.built \ Claiming)
  <2>1. \A t : find_nearby_permits(b, t) = find_nearby_permits(tx, t)
    BY <1>12, SameLinks
  <2> QED
    BY <1>4, <1>9, <2>1 DEF PermitsClaimed
<1>16. /\ HasSite(tx, DOMAIN rows \ UNION clusters)'
       /\ EvidenceClaimed(tx, DOMAIN rows \ Unclaimed)'
       /\ PermitsClaimed(tx, tx.built \ Claiming)'
       /\ Served(tx, tx.built \ Serving)'
  <2>1. HasSite(tx, DOMAIN rows \ UNION clusters)'
    BY <1>2, <1>4, <1>5, <1>9 DEF HasSite, b
  <2>2. EvidenceClaimed(tx, DOMAIN rows \ Unclaimed)'
    BY <1>2, <1>4, <1>9, <1>10 DEF EvidenceClaimed, ingestion, b
  <2>3. PermitsClaimed(tx, tx.built \ Claiming)'
    BY <1>2, <1>10, <1>15 DEF PermitsClaimed, find_nearby_permits, ingestion, b
  <2>4. Served(tx, tx.built \ Serving)'
    BY <1>10, <1>14 DEF Served, b
  <2> QED
    BY <2>1, <2>2, <2>3, <2>4
<1>17. clusters' \subseteq SUBSET DOMAIN rows' /\ DOMAIN rows' = find_candidate_parcels'
  BY <1>2, <1>9, <1>11
<1> QED
  BY <1>2, <1>8, <1>9, <1>11, <1>16, <1>17 DEF QuietInv, RolledUp, b

LEMMA CommitPass ==
    ASSUME PassInv, Commit
    PROVE  PassInv'
<1>1. /\ pc = "commit" /\ pc' = "idle" /\ db' = tx /\ settled' = quiet
      /\ UNCHANGED ingestion
  BY DEF Commit, Ends
<1>2. SUFFICES ASSUME quiet
               PROVE  Complete(db)'
  BY <1>1 DEF PassInv, QuietInv
<1>3. /\ DOMAIN rows = find_candidate_parcels /\ clusters = {}
      /\ HasSite(tx, DOMAIN rows \ UNION clusters)
      /\ EvidenceClaimed(tx, DOMAIN rows \ Unclaimed)
      /\ PermitsClaimed(tx, tx.built \ Claiming)
      /\ Served(tx, tx.built \ Serving)
      /\ RolledUp(tx)
  BY <1>1, <1>2 DEF PassInv, QuietInv
<1>4. Unclaimed = {} /\ Claiming = {} /\ Serving = {} /\ UNION clusters = {}
  BY <1>1, <1>3 DEF Unclaimed, Claiming, Serving
<1>5. Complete(tx)
  <2>1. \A set : set \ {} = set
    OBVIOUS
  <2> QED
    BY <1>3, <1>4, <2>1 DEF Complete
<1> QED
  BY <1>1, <1>5 DEF ingestion, Complete, find_candidate_parcels, HasSite, EvidenceClaimed,
                    PermitsClaimed, find_nearby_permits, Served, RolledUp

LEMMA PassStep == IInv /\ PassInv /\ [Next]_vars => PassInv'
<1> SUFFICES ASSUME IInv, PassInv, [Next]_vars
             PROVE  PassInv'
  OBVIOUS
<1>1. CASE \E p \in Parcels, row \in ParcelRows : LoadParcel(p, row)
  BY <1>1, LoadsPass DEF LoadParcel
<1>2. CASE \E q \in Permits : LoadPermit(q)
  BY <1>2, LoadsPass DEF LoadPermit
<1>3. CASE BeginPass
  BY <1>3, BeginPassPass
<1>4. CASE UniteRow
  BY <1>4, UniteRowPass
<1>5. CASE Cluster
  BY <1>5, ClusterPass
<1>6. CASE \E c \in clusters : UpdateSite(c) \/ CreateSite(c)
  BY <1>6, BuildPass
<1>7. CASE AttachEvidence
  BY <1>7, AttachPass
<1>8. CASE link_infrastructure
  BY <1>8, LinkPass
<1>9. CASE Rollup
  BY <1>9, RollupPass
<1>10. CASE Commit
  BY <1>10, CommitPass
<1>11. CASE Abort
  <2>1. UNCHANGED <<ingestion, db, settled>> /\ QuietInv'
    BY <1>11 DEF Abort, Ends, QuietInv
  <2> QED
    BY <2>1, SettledKept
<1>12. CASE UNCHANGED vars
  <2>1. UNCHANGED <<ingestion, db, tx, pc, rows, clusters, cluster, site, quiet, settled, repeated>>
    BY <1>12 DEF vars, work, history
  <2>2. QuietInv'
    BY <2>1 DEF PassInv, QuietInv, RepeatInv, ingestion, find_candidate_parcels, HasSite,
                EvidenceClaimed, PermitsClaimed, find_nearby_permits, Served, Claiming,
                Serving, Unclaimed, RolledUp
  <2> QED
    BY <2>1, <2>2, SettledKept
<1> QED
  BY <1>1, <1>2, <1>3, <1>4, <1>5, <1>6, <1>7, <1>8, <1>9, <1>10, <1>11, <1>12 DEF Next

LEMMA AlwaysPassInv == Spec => [](IInv /\ PassInv)
<1>1. Init => IInv /\ PassInv
  BY InitIInv, InitPassInv
<1>2. IInv /\ PassInv /\ [Next]_vars => IInv' /\ PassInv'
  BY NextKeeps, PassStep
<1> QED
  BY <1>1, <1>2, PTL DEF Spec

\* A pass over what the pass before it saw creates no site, whatever clusters that
\* one merged or split (_upsert_site_for_cluster, test_is_idempotent).
THEOREM RepeatedPassIsIdle == Spec => []RepeatedPassCreatesNothing
<1>1. PassInv => RepeatedPassCreatesNothing
  BY DEF PassInv, QuietInv, RepeatInv, RepeatedPassCreatesNothing
<1> QED
  BY <1>1, AlwaysPassInv, PTL

\* After an undisturbed pass the rollup of every site it built that holds evidence
\* is exact, whatever the order of the clusters (_refresh_evidence_rollups).
THEOREM RollupsAreExplained == Spec => []StaleRollupIsExplained
<1>1. PassInv => StaleRollupIsExplained
  BY DEF PassInv, Complete, RolledUp, Undisturbed, StaleRollupIsExplained
<1> QED
  BY <1>1, AlwaysPassInv, PTL

\* After an undisturbed pass the evidence, the permits and the infrastructure around
\* the sites it built are linked, whatever they were linked to before
\* (_attach_parcel_evidence, _attach_nearby_permit_evidence, link_infrastructure).
THEOREM SitesAreLinked == Spec => []BuiltSitesAreLinked
<1>1. PassInv => BuiltSitesAreLinked
  BY DEF PassInv, Complete, EvidenceClaimed, PermitsClaimed, Served, Undisturbed,
         BuiltSitesAreLinked
<1> QED
  BY <1>1, AlwaysPassInv, PTL
-----------------------------------------------------------------------------
(* Union-find.  A forest is ranked: the rank falls on the way to the root. *)

Ranked(f, r) ==
    \A m \in DOMAIN f : f[m] \in DOMAIN f /\ (f[m] # m => r[f[m]] < r[m])

Forest(f) == \E r \in [DOMAIN f -> Nat] : Ranked(f, r)

\* g takes every node to its root.
RootsOf(f, g) == g = [m \in DOMAIN f |-> IF f[m] = m THEN m ELSE g[f[m]]]

\* Rows that were looked at are united when they are related, and no tree joins what
\* no row relates.
United ==
    /\ Forest(parent)
    /\ DOMAIN parent = DOMAIN rows
    /\ pairs \subseteq Adjacent
    /\ \A a, b \in DOMAIN rows :
         Related(rows, a, b) /\ {a, b} \notin pairs => Root(parent, a) = Root(parent, b)
    /\ \A set \in SUBSET DOMAIN rows :
         Closed(rows, set) => \A m \in DOMAIN rows : m \in set <=> parent[m] \in set

FoundInv ==
    /\ pc = "unite" => United
    /\ pc \in {"attach", "link"} => cluster # {}
    /\ ClustersAreComponents

LEMMA LeastNatural ==
    ASSUME NEW S, S \subseteq Nat, S # {}
    PROVE  \E x \in S : \A y \in S : x <= y
<1>1. PICK x \in S : \A y \in S : ~ (<<y, x>> \in OpToRel(<, Nat))
  BY NatLessThanWellFounded, WFMin
<1>2. \A y \in S : ~ (y < x)
  BY <1>1 DEF OpToRel
<1> QED
  BY <1>2

\* What would have a counterexample of lower rank for each one has none.
LEMMA RankInduction ==
    ASSUME NEW S, NEW r \in [S -> Nat], NEW bad \in SUBSET S,
           \A m \in bad : \E n \in bad : r[n] < r[m]
    PROVE  bad = {}
<1> SUFFICES ASSUME bad # {}
             PROVE  FALSE
  OBVIOUS
<1> DEFINE ranks == {r[m] : m \in bad}
<1>1. ranks \subseteq Nat /\ ranks # {}
  OBVIOUS
<1> HIDE DEF ranks
<1>2. PICK x \in ranks : \A y \in ranks : x <= y
  BY <1>1, LeastNatural
<1>3. PICK m \in bad : x = r[m]
  BY DEF ranks
<1>4. PICK n \in bad : r[n] < r[m]
  OBVIOUS
<1>5. r[n] \in ranks /\ r[n] \in Nat /\ r[m] \in Nat
  BY DEF ranks
<1> QED
  BY <1>2, <1>3, <1>4, <1>5

\* A node leads to the fixed points that are in every set closed under f with it.
LEMMA RootsExist ==
    ASSUME NEW f, \A m \in DOMAIN f : f[m] \in DOMAIN f
    PROVE  \E g : RootsOf(f, g)
<1> DEFINE D == DOMAIN f
           closed(S) == \A x \in S : f[x] \in S
           ends(m) == {t \in D : f[t] = t /\ \A S \in SUBSET D : m \in S /\ closed(S) => t \in S}
           g == [m \in D |-> CHOOSE t : t \in ends(m)]
<1>1. ASSUME NEW m \in D, f[m] = m
      PROVE  g[m] = m
  <2>1. {m} \in SUBSET D /\ closed({m})
    BY <1>1
  <2>2. ends(m) = {m}
    <3>1. m \in ends(m)
      BY <1>1
    <3>2. \A t \in ends(m) : t \in {m}
      BY <2>1
    <3> QED
      BY <3>1, <3>2
  <2> HIDE DEF ends
  <2>3. (CHOOSE t : t \in {m}) = m
    OBVIOUS
  <2> QED
    BY <2>2, <2>3
<1>2. ASSUME NEW m \in D, f[m] # m
      PROVE  g[m] = g[f[m]]
  <2>1. ASSUME NEW t \in ends(f[m])
        PROVE  t \in ends(m)
    OBVIOUS
  <2>2. ASSUME NEW t \in ends(m)
        PROVE  t \in ends(f[m])
    <3> SUFFICES ASSUME NEW S \in SUBSET D, f[m] \in S, closed(S)
                 PROVE  t \in S
      OBVIOUS
    <3>1. S \cup {m} \in SUBSET D /\ closed(S \cup {m})
      OBVIOUS
    <3>2. t \in S \cup {m}
      BY <2>2, <3>1
    <3>3. f[t] = t
      BY <2>2
    <3> QED
      BY <1>2, <3>2, <3>3
  <2>3. ends(m) = ends(f[m])
    <3> HIDE DEF ends
    <3> QED
      BY <2>1, <2>2
  <2> HIDE DEF ends
  <2> QED
    BY <2>3
<1> HIDE DEF g
<1>3. g = [m \in D |-> g[m]]
  BY DEF g
<1>4. g = [m \in D |-> IF f[m] = m THEN m ELSE g[f[m]]]
  BY <1>1, <1>2, <1>3
<1> QED
  BY <1>4 DEF RootsOf

\* So Root is such a function.
LEMMA RootIsRoot ==
    ASSUME NEW f, Forest(f)
    PROVE  \E g : RootsOf(f, g) /\ \A n : Root(f, n) = g[n]
<1> DEFINE up == CHOOSE g : g = [m \in DOMAIN f |-> IF f[m] = m THEN m ELSE g[f[m]]]
<1>1. \E g : g = [m \in DOMAIN f |-> IF f[m] = m THEN m ELSE g[f[m]]]
  BY RootsExist DEF Forest, Ranked, RootsOf
<1>2. up = [m \in DOMAIN f |-> IF f[m] = m THEN m ELSE up[f[m]]]
  BY <1>1
<1>3. \A n : Root(f, n) = up[n]
  BY DEF Root
<1> QED
  BY <1>2, <1>3 DEF RootsOf

\* Roots are nodes without a parent, and in the sets that f keeps with their nodes.
LEMMA RootsAreRoots ==
    ASSUME NEW f, NEW g, Forest(f), RootsOf(f, g)
    PROVE  /\ \A m \in DOMAIN f : g[m] \in DOMAIN f /\ f[g[m]] = g[m] /\ g[f[m]] = g[m]
           /\ \A S : (\A m \in DOMAIN f : m \in S <=> f[m] \in S)
                         => \A m \in DOMAIN f : m \in S <=> g[m] \in S
<1> DEFINE D == DOMAIN f
<1>1. PICK r \in [D -> Nat] : Ranked(f, r)
  BY DEF Forest
<1>2. \A m \in D : f[m] \in D /\ (f[m] # m => r[f[m]] < r[m])
  BY <1>1 DEF Ranked
<1>3. \A m \in D : g[m] = IF f[m] = m THEN m ELSE g[f[m]]
  BY DEF RootsOf
<1> HIDE DEF D
<1>4. \A m \in D : g[m] \in D /\ f[g[m]] = g[m]
  <2> DEFINE bad == {m \in D : ~ (g[m] \in D /\ f[g[m]] = g[m])}
  <2>1. \A m \in bad : f[m] \in bad /\ r[f[m]] < r[m]
    BY <1>2, <1>3
  <2>2. bad = {}
    BY <2>1, RankInduction
  <2> QED
    BY <2>2
<1>5. \A m \in D : g[f[m]] = g[m]
  BY <1>3
<1>6. ASSUME NEW S, \A m \in D : m \in S <=> f[m] \in S
      PROVE  \A m \in D : m \in S <=> g[m] \in S
  <2> DEFINE bad == {m \in D : ~ (m \in S <=> g[m] \in S)}
  <2>1. \A m \in bad : f[m] \in bad /\ r[f[m]] < r[m]
    BY <1>2, <1>3, <1>6
  <2>2. bad = {}
    BY <2>1, RankInduction
  <2> QED
    BY <2>2
<1> QED
  BY <1>4, <1>5, <1>6 DEF D

\* A forest whose nodes point to a parent or a grandparent has the same roots.
LEMMA ShortcutsKeepRoots ==
    ASSUME NEW f, NEW h, NEW g, NEW k, Forest(f), RootsOf(f, g), RootsOf(h, k),
           DOMAIN h = DOMAIN f, \A m \in DOMAIN f : h[m] \in {f[m], f[f[m]]}
    PROVE  \A m \in DOMAIN f : k[m] = g[m]
<1> DEFINE D == DOMAIN f
<1>1. PICK r \in [D -> Nat] : Ranked(f, r)
  BY DEF Forest
<1>2. \A m \in D : f[m] \in D /\ (f[m] # m => r[f[m]] < r[m])
  BY <1>1 DEF Ranked
<1>3. \A m \in D : g[m] = IF f[m] = m THEN m ELSE g[f[m]]
  BY DEF RootsOf
<1>4. \A m \in D : k[m] = IF h[m] = m THEN m ELSE k[h[m]]
  BY DEF RootsOf
<1>5. \A m \in D : h[m] \in {f[m], f[f[m]]}
  OBVIOUS
<1> HIDE DEF D
<1>6. \A m \in D : h[m] \in D /\ (f[m] # m => r[h[m]] < r[m]) /\ (f[m] = m => h[m] = m)
  <2> SUFFICES ASSUME NEW m \in D
               PROVE  h[m] \in D /\ (f[m] # m => r[h[m]] < r[m]) /\ (f[m] = m => h[m] = m)
    OBVIOUS
  <2>1. f[m] \in D /\ f[f[m]] \in D /\ r[m] \in Nat /\ r[f[m]] \in Nat /\ r[f[f[m]]] \in Nat
    BY <1>2
  <2>2. f[m] # m => r[f[m]] < r[m]
    BY <1>2
  <2>3. f[f[m]] # f[m] => r[f[f[m]]] < r[f[m]]
    BY <1>2, <2>1
  <2> QED
    BY <1>5, <2>1, <2>2, <2>3
<1>7. \A m \in D : g[h[m]] = g[m]
  BY <1>2, <1>3, <1>5
<1>8. \A m \in D : f[m] # m => h[m] # m
  BY <1>6
<1> DEFINE bad == {m \in D : k[m] # g[m]}
<1>9. \A m \in bad : h[m] \in bad /\ r[h[m]] < r[m]
  BY <1>3, <1>4, <1>6, <1>7, <1>8
<1>10. bad = {}
  BY <1>9, RankInduction
<1> QED
  BY <1>10 DEF D

LEMMA ShortcutsKeepForest ==
    ASSUME NEW f, NEW h, Forest(f),
           DOMAIN h = DOMAIN f, \A m \in DOMAIN f : h[m] \in {f[m], f[f[m]]}
    PROVE  Forest(h)
<1> DEFINE D == DOMAIN f
<1>1. PICK r \in [D -> Nat] : Ranked(f, r)
  BY DEF Forest
<1> SUFFICES ASSUME NEW m \in D
             PROVE  h[m] \in D /\ (h[m] # m => r[h[m]] < r[m])
  BY DEF Forest, Ranked
<1>2. \A x \in D : f[x] \in D /\ (f[x] # x => r[f[x]] < r[x])
  BY <1>1 DEF Ranked
<1>3. f[m] \in D /\ f[f[m]] \in D /\ r[m] \in Nat /\ r[f[m]] \in Nat /\ r[f[f[m]]] \in Nat
  BY <1>2
<1>4. f[m] # m => r[f[m]] < r[m]
  BY <1>2
<1>5. f[f[m]] # f[m] => r[f[f[m]]] < r[f[m]]
  BY <1>2, <1>3
<1>6. h[m] = f[m] \/ h[m] = f[f[m]]
  OBVIOUS
<1> QED
  BY <1>3, <1>4, <1>5, <1>6

LEMMA HalvedShortcuts ==
    ASSUME NEW f, NEW n
    PROVE  /\ DOMAIN Halved(f, n) = DOMAIN f
           /\ \A m \in DOMAIN f : Halved(f, n)[m] \in {f[m], f[f[m]]}
BY DEF Halved

\* union joins the two trees, and leaves the others.
LEMMA UnionJoins ==
    ASSUME NEW f, Forest(f), NEW a \in DOMAIN f, NEW b \in DOMAIN f
    PROVE  LET u == union(f, a, b)
           IN  /\ Forest(u) /\ DOMAIN u = DOMAIN f
               /\ \A m \in DOMAIN f :
                    Root(u, m) = IF Root(f, m) = Root(f, b) THEN Root(f, a) ELSE Root(f, m)
               /\ \A S : (\A m \in DOMAIN f : m \in S <=> f[m] \in S) /\ (a \in S <=> b \in S)
                            => \A m \in DOMAIN f : m \in S <=> u[m] \in S
<1> DEFINE D == DOMAIN f
           i == Halved(f, a)
           h == Halved(i, b)
           u == union(f, a, b)
<1>1. Forest(i) /\ Forest(h) /\ DOMAIN i = D /\ DOMAIN h = D
  BY HalvedShortcuts, ShortcutsKeepForest
<1>2. PICK g : RootsOf(f, g) /\ \A n : Root(f, n) = g[n]
  BY RootIsRoot
<1>3. PICK gi : RootsOf(i, gi) /\ \A n : Root(i, n) = gi[n]
  BY <1>1, RootIsRoot
<1>4. PICK gh : RootsOf(h, gh) /\ \A n : Root(h, n) = gh[n]
  BY <1>1, RootIsRoot
<1>5. \A m \in D : gi[m] = g[m]
  BY <1>1, <1>2, <1>3, HalvedShortcuts, ShortcutsKeepRoots
<1>6. \A m \in D : gh[m] = gi[m]
  BY <1>1, <1>3, <1>4, HalvedShortcuts, ShortcutsKeepRoots
<1>7. \A m \in D : Root(h, m) = g[m]
  BY <1>4, <1>5, <1>6
<1>8. u = [h EXCEPT ![g[b]] = g[a]]
  BY <1>7 DEF union
<1>9. /\ \A m \in D : g[m] \in D /\ h[g[m]] = g[m] /\ g[h[m]] = g[m]
      /\ \A m \in D : h[m] = m => g[m] = m
  <2>1. \A m \in D : gh[m] \in D /\ h[gh[m]] = gh[m] /\ gh[h[m]] = gh[m]
    BY <1>1, <1>4, RootsAreRoots
  <2>2. \A m \in D : h[m] \in D
    BY <1>1 DEF Forest, Ranked
  <2>3. \A m \in D : gh[m] = IF h[m] = m THEN m ELSE gh[h[m]]
    BY <1>1, <1>4 DEF RootsOf
  <2>4. \A m \in D : gh[m] = g[m]
    BY <1>5, <1>6
  <2> HIDE DEF h, i, u
  <2>5. ASSUME NEW m \in D
        PROVE  /\ g[m] \in D /\ h[g[m]] = g[m] /\ g[h[m]] = g[m]
               /\ h[m] = m => g[m] = m
    <3>1. gh[m] = g[m] /\ gh[h[m]] = g[h[m]]
      BY <2>2, <2>4
    <3>2. gh[m] \in D /\ h[gh[m]] = gh[m] /\ gh[h[m]] = gh[m]
      BY <2>1
    <3>3. h[m] = m => gh[m] = m
      BY <2>3
    <3> QED
      BY <3>1, <3>2, <3>3
  <2> QED
    BY <2>5
<1>10. DOMAIN u = D /\ \A m \in D : u[m] = IF m = g[b] THEN g[a] ELSE h[m]
  BY <1>1, <1>8, <1>9
<1>11. ASSUME NEW S, \A m \in D : m \in S <=> f[m] \in S, a \in S <=> b \in S
       PROVE  \A m \in D : m \in S <=> u[m] \in S
  <2>1. \A m \in D : m \in S <=> g[m] \in S
    BY <1>2, <1>11, RootsAreRoots
  <2>2. \A m \in D : h[m] \in D
    BY <1>1 DEF Forest, Ranked
  <2>3. \A m \in D : m \in S <=> h[m] \in S
    BY <1>9, <2>1, <2>2
  <2>4. g[b] \in S <=> g[a] \in S
    BY <1>11, <2>1
  <2> HIDE DEF u, h
  <2> QED
    BY <1>10, <2>3, <2>4
<1> HIDE DEF h, i, u
<1>12. Forest(u)
  <2>1. PICK r \in [D -> Nat] : Ranked(h, r)
    BY <1>1 DEF Forest
  <2>2. \A m \in D : h[m] \in D /\ (h[m] # m => r[h[m]] < r[m])
    BY <1>1, <2>1 DEF Ranked
  <2>3. CASE g[a] = g[b]
    <3>1. Ranked(u, r)
      BY <1>9, <1>10, <2>2, <2>3 DEF Ranked
    <3> QED
      BY <1>10, <3>1 DEF Forest
  <2>4. CASE g[a] # g[b]
    <3> DEFINE top == r[g[a]] + 1
               higher == [m \in D |-> IF g[m] = g[b] THEN r[m] + top ELSE r[m]]
    <3>1. top \in Nat /\ higher \in [D -> Nat] /\ r[g[a]] < top
      BY <1>9
    <3>2. ASSUME NEW m \in D
          PROVE  u[m] \in D /\ (u[m] # m => higher[u[m]] < higher[m])
      <4>1. r[m] \in Nat /\ h[m] \in D /\ r[h[m]] \in Nat /\ r[g[a]] \in Nat
        BY <1>9, <2>2
      <4>2. CASE m = g[b]
        <5>1. u[m] = g[a] /\ g[g[a]] = g[a] /\ g[m] = g[b]
          BY <1>9, <1>10, <4>2
        <5>2. higher[u[m]] = r[g[a]] /\ higher[m] = r[m] + top
          BY <1>9, <2>4, <5>1
        <5> HIDE DEF higher, top
        <5> QED
          BY <1>9, <3>1, <4>1, <5>1, <5>2
      <4>3. CASE m # g[b]
        <5>1. u[m] = h[m] /\ g[h[m]] = g[m]
          BY <1>9, <1>10, <4>3
        <5>2. h[m] # m => r[h[m]] < r[m]
          BY <2>2
        <5>3. CASE g[m] = g[b]
          <6>1. higher[m] = r[m] + top /\ higher[u[m]] = r[h[m]] + top
            BY <4>1, <5>1, <5>3
          <6> HIDE DEF higher, top
          <6> QED
            BY <3>1, <4>1, <5>1, <5>2, <6>1
        <5>4. CASE g[m] # g[b]
          <6>1. higher[m] = r[m] /\ higher[u[m]] = r[h[m]]
            BY <4>1, <5>1, <5>4
          <6> HIDE DEF higher, top
          <6> QED
            BY <3>1, <4>1, <5>1, <5>2, <6>1
        <5> QED
          BY <5>3, <5>4
      <4> QED
        BY <4>2, <4>3
    <3> HIDE DEF higher
    <3>3. Ranked(u, higher)
      BY <1>10, <3>2 DEF Ranked
    <3> QED
      BY <1>10, <3>1, <3>3 DEF Forest
  <2> QED
    BY <2>3, <2>4
<1> DEFINE joined == [m \in D |-> IF g[m] = g[b] THEN g[a] ELSE g[m]]
<1>13. RootsOf(u, joined)
  <2>1. ASSUME NEW m \in D
        PROVE  joined[m] = IF u[m] = m THEN m ELSE joined[u[m]]
    <3>1. h[m] \in D /\ g[h[m]] = g[m] /\ (h[m] = m => g[m] = m)
      BY <1>1, <1>9 DEF Forest, Ranked
    <3>2. g[a] \in D /\ g[b] \in D /\ g[g[a]] = g[a] /\ g[g[b]] = g[b]
      BY <1>9
    <3>3. CASE m = g[b]
      BY <1>10, <3>2, <3>3
    <3>4. CASE m # g[b]
      BY <1>10, <3>1, <3>2, <3>4
    <3> QED
      BY <3>3, <3>4
  <2>2. joined = [m \in D |-> joined[m]]
    OBVIOUS
  <2> HIDE DEF joined
  <2> QED
    BY <1>10, <2>1, <2>2 DEF RootsOf
<1>14. \A m \in D : Root(u, m) = joined[m]
  <2>1. PICK gu : RootsOf(u, gu) /\ \A n : Root(u, n) = gu[n]
    BY <1>12, RootIsRoot
  <2>2. \A m \in D : u[m] \in {u[m], u[u[m]]}
    OBVIOUS
  <2> HIDE DEF joined
  <2> QED
    BY <1>10, <1>12, <1>13, <2>1, <2>2, ShortcutsKeepRoots
<1>15. \A m \in D : Root(u, m) = IF Root(f, m) = Root(f, b) THEN Root(f, a) ELSE Root(f, m)
  BY <1>2, <1>14
<1> QED
  BY <1>10, <1>11, <1>12, <1>15 DEF u

\* The trees of such a forest are the components of the rows.
LEMMA TreesAreComponents ==
    ASSUME United, pairs = {}
    PROVE  _cluster_candidates = Components(rows)
<1> DEFINE D == DOMAIN rows
           C(p) == {q \in D : Root(parent, q) = Root(parent, p)}
<1>1. PICK g : RootsOf(parent, g) /\ \A n : Root(parent, n) = g[n]
  BY RootIsRoot DEF United
<1>2. \A set \in SUBSET D : Closed(rows, set) => \A m \in D : m \in set <=> g[m] \in set
  BY <1>1, RootsAreRoots DEF United
<1>3. _cluster_candidates = {C(p) : p \in D}
  BY DEF _cluster_candidates
<1>4. \A p \in D : C(p) = {q \in D : g[q] = g[p]}
  BY <1>1
<1>5. ASSUME NEW p \in D
      PROVE  p \in C(p) /\ C(p) \in SUBSET D /\ Closed(rows, C(p))
  <2>1. p \in C(p) /\ C(p) \in SUBSET D
    OBVIOUS
  <2>2. ASSUME NEW x \in C(p), NEW y \in D \ C(p)
        PROVE  ~ Related(rows, x, y)
    BY <2>2 DEF United
  <2> QED
    BY <2>1, <2>2 DEF Closed
<1> HIDE DEF C
<1>6. ASSUME NEW p \in D, NEW d \in SUBSET D, Closed(rows, d), NEW q \in d, q \in C(p)
      PROVE  C(p) \subseteq d
  <2> SUFFICES ASSUME NEW x \in C(p)
               PROVE  x \in d
    OBVIOUS
  <2>1. x \in D /\ q \in D /\ g[x] = g[q]
    BY <1>4, <1>6
  <2> QED
    BY <1>2, <1>6, <2>1
<1>7. ASSUME NEW p \in D
      PROVE  C(p) \in Components(rows)
  <2>1. C(p) \in (SUBSET D) \ {{}} /\ Closed(rows, C(p))
    BY <1>5
  <2>2. ASSUME NEW d \in (SUBSET C(p)) \ {{}}, Closed(rows, d)
        PROVE  d = C(p)
    <3>1. PICK q : q \in d
      BY <2>2
    <3>2. d \in SUBSET D /\ q \in C(p)
      BY <2>1, <3>1
    <3>3. C(p) \subseteq d
      BY <1>6, <2>2, <3>1, <3>2
    <3> QED
      BY <3>3
  <2> QED
    BY <2>1, <2>2 DEF Components
<1>8. ASSUME NEW c \in Components(rows)
      PROVE  \E p \in D : c = C(p)
  <2>1. /\ c \in SUBSET D /\ c # {} /\ Closed(rows, c)
        /\ \A d \in (SUBSET c) \ {{}} : Closed(rows, d) => d = c
    BY DEF Components
  <2>2. PICK p : p \in c
    BY <2>1
  <2>3. p \in D
    BY <2>1, <2>2
  <2>4. p \in C(p) /\ Closed(rows, C(p))
    BY <1>5, <2>3
  <2>5. C(p) \subseteq c
    BY <1>6, <2>1, <2>2, <2>3, <2>4
  <2>6. C(p) = c
    BY <2>1, <2>4, <2>5
  <2> QED
    BY <2>3, <2>6
<1> QED
  BY <1>3, <1>7, <1>8

LEMMA InitFoundInv == Init => FoundInv
BY DEF Init, FoundInv, ClustersAreComponents

LEMMA BeginPassFound ==
    ASSUME FoundInv, BeginPass
    PROVE  FoundInv'
<1>1. /\ pc' = "unite" /\ DOMAIN rows' = find_candidate_parcels
      /\ parent' = [p \in find_candidate_parcels |-> p]
      /\ pairs' = Adjacent \cap SUBSET find_candidate_parcels
  BY DEF BeginPass, Candidates
<1> DEFINE D == find_candidate_parcels
           r == [m \in D |-> 0]
<1> HIDE DEF D
<1>2. r \in [D -> Nat]
  OBVIOUS
<1>3. \A m \in D : parent'[m] = m
  BY <1>1 DEF D
<1>4. DOMAIN parent' = D
  BY <1>1 DEF D
<1>5. Forest(parent')
  BY <1>2, <1>3, <1>4 DEF Forest, Ranked
<1>6. Forest(parent)'
  BY <1>5
<1>7. ASSUME NEW a \in D, NEW b \in D, {a, b} \in Adjacent
      PROVE  {a, b} \in pairs'
  BY <1>1, <1>7 DEF D
<1>8. DOMAIN rows' = D
  BY <1>1 DEF D
<1>9. United'
  BY <1>1, <1>3, <1>4, <1>6, <1>7, <1>8 DEF United, Related
<1> QED
  BY <1>1, <1>9 DEF FoundInv, ClustersAreComponents

LEMMA UniteRowFound ==
    ASSUME FoundInv, UniteRow
    PROVE  FoundInv'
<1>1. PICK a, b \in DOMAIN rows :
        /\ a # b /\ {a, b} \in pairs
        /\ pairs' = pairs \ {{a, b}}
        /\ parent' = IF _owners_related(a, b) THEN union(parent, a, b) ELSE parent
  BY DEF UniteRow
<1>2. pc = "unite" /\ pc' = "unite" /\ rows' = rows /\ United
  BY DEF UniteRow, FoundInv
<1>3. /\ Forest(parent) /\ DOMAIN parent = DOMAIN rows /\ pairs \subseteq Adjacent
      /\ \A x, y \in DOMAIN rows :
           Related(rows, x, y) /\ {x, y} \notin pairs => Root(parent, x) = Root(parent, y)
      /\ \A set \in SUBSET DOMAIN rows :
           Closed(rows, set) => \A m \in DOMAIN rows : m \in set <=> parent[m] \in set
  BY <1>2 DEF United
<1>4. \A x, y \in DOMAIN rows : {x, y} \notin pairs' =>
          {x, y} \notin pairs \/ (x = a /\ y = b) \/ (x = b /\ y = a)
  BY <1>1
<1> DEFINE u == parent'
<1>5. CASE _owners_related(a, b)
  <2>1. u = union(parent, a, b) /\ a \in DOMAIN parent /\ b \in DOMAIN parent
    BY <1>1, <1>3, <1>5
  <2>2. /\ Forest(u) /\ DOMAIN u = DOMAIN rows
        /\ \A m \in DOMAIN rows : Root(u, m) =
              IF Root(parent, m) = Root(parent, b) THEN Root(parent, a) ELSE Root(parent, m)
        /\ \A S : (\A m \in DOMAIN rows : m \in S <=> parent[m] \in S) /\ (a \in S <=> b \in S)
                            => \A m \in DOMAIN rows : m \in S <=> u[m] \in S
    <3> DEFINE w == union(parent, a, b)
    <3>1. /\ Forest(w) /\ DOMAIN w = DOMAIN parent
          /\ \A m \in DOMAIN parent : Root(w, m) =
                IF Root(parent, m) = Root(parent, b) THEN Root(parent, a) ELSE Root(parent, m)
          /\ \A S : (\A m \in DOMAIN parent : m \in S <=> parent[m] \in S) /\ (a \in S <=> b \in S)
                              => \A m \in DOMAIN parent : m \in S <=> w[m] \in S
      BY <1>3, <2>1, UnionJoins
    <3>2. DOMAIN parent = DOMAIN rows /\ u = w
      BY <1>3, <2>1
    <3> HIDE DEF w, u
    <3> QED
      BY <3>1, <3>2
  <2> HIDE DEF u
  <2>3. ASSUME NEW x \in DOMAIN rows, NEW y \in DOMAIN rows, Related(rows, x, y),
               {x, y} \notin pairs'
        PROVE  Root(u, x) = Root(u, y)
    <3>1. CASE {x, y} \notin pairs
      <4>1. Root(parent, x) = Root(parent, y)
        BY <1>3, <2>3, <3>1
      <4> QED
        BY <2>2, <4>1
    <3>2. CASE (x = a /\ y = b) \/ (x = b /\ y = a)
      BY <2>2, <3>2
    <3> QED
      BY <1>4, <2>3, <3>1, <3>2
  <2>4. ASSUME NEW set \in SUBSET DOMAIN rows, Closed(rows, set)
        PROVE  \A m \in DOMAIN rows : m \in set <=> u[m] \in set
    <3>1. {a, b} \in Adjacent => Related(rows, a, b) /\ Related(rows, b, a)
      <4>1. {a, b} = {b, a}
        OBVIOUS
      <4> QED
        BY <1>5, <4>1 DEF Related, _owners_related
    <3>2. {a, b} \in Adjacent => (a \in set <=> b \in set)
      BY <2>4, <3>1 DEF Closed
    <3>3. a \in set <=> b \in set
      BY <1>1, <1>3, <3>2
    <3>4. \A m \in DOMAIN rows : m \in set <=> parent[m] \in set
      BY <1>3, <2>4
    <3> QED
      BY <2>2, <3>3, <3>4
  <2>5. Forest(parent)'
    BY <2>2 DEF u
  <2>6. United'
    <3>1. pairs' \subseteq Adjacent
      BY <1>1, <1>3
    <3>2. \A x, y \in DOMAIN rows' :
            Related(rows', x, y) /\ {x, y} \notin pairs' => Root(parent', x) = Root(parent', y)
      BY <1>2, <2>3 DEF u
    <3>3. \A set \in SUBSET DOMAIN rows' :
            Closed(rows', set) => \A m \in DOMAIN rows' : m \in set <=> parent'[m] \in set
      BY <1>2, <2>4 DEF u
    <3>4. DOMAIN parent' = DOMAIN rows'
      BY <1>2, <2>2 DEF u
    <3> QED
      BY <2>5, <3>1, <3>2, <3>3, <3>4 DEF United
  <2> QED
    BY <1>2, <2>6 DEF FoundInv, ClustersAreComponents
<1>6. CASE ~ _owners_related(a, b)
  <2>1. parent' = parent
    BY <1>1, <1>6
  <2>2. ~ Related(rows, a, b) /\ ~ Related(rows, b, a)
    BY <1>6 DEF Related, _owners_related
  <2>3. United'
    <3>1. pairs' \subseteq Adjacent
      BY <1>1, <1>3
    <3>2. \A x, y \in DOMAIN rows' :
            Related(rows', x, y) /\ {x, y} \notin pairs' => Root(parent', x) = Root(parent', y)
      BY <1>2, <1>3, <1>4, <2>1, <2>2
    <3> QED
      BY <1>2, <1>3, <2>1, <3>1, <3>2 DEF United
  <2> QED
    BY <1>2, <2>3 DEF FoundInv, ClustersAreComponents
<1> QED
  BY <1>5, <1>6

LEMMA FoundStep == FoundInv /\ [Next]_vars => FoundInv'
<1> SUFFICES ASSUME FoundInv, [Next]_vars
             PROVE  FoundInv'
  OBVIOUS
<1>1. ASSUME UNCHANGED <<pc, work>>
      PROVE  FoundInv'
  BY <1>1 DEF FoundInv, United, ClustersAreComponents, work
<1>2. CASE \E p \in Parcels, row \in ParcelRows : LoadParcel(p, row)
  BY <1>1, <1>2 DEF LoadParcel, Loads
<1>3. CASE \E q \in Permits : LoadPermit(q)
  BY <1>1, <1>3 DEF LoadPermit, Loads
<1>4. CASE BeginPass
  BY <1>4, BeginPassFound
<1>5. CASE UniteRow
  BY <1>5, UniteRowFound
<1>6. CASE Cluster
  <2>1. /\ pc = "unite" /\ pc' \in {"build", "rollup"} /\ pairs = {}
        /\ clusters' = _cluster_candidates /\ rows' = rows
    BY <1>6 DEF Cluster
  <2>2. clusters' = Components(rows)
    BY <2>1, TreesAreComponents DEF FoundInv
  <2> QED
    BY <2>1, <2>2 DEF FoundInv, ClustersAreComponents
<1>7. CASE \E c \in clusters : UpdateSite(c) \/ CreateSite(c)
  <2>1. PICK c \in clusters : TakeCluster(c)
    BY <1>7 DEF UpdateSite, CreateSite
  <2>2. pc' = "attach" /\ cluster' = c /\ c # {}
    BY <2>1 DEF TakeCluster
  <2> QED
    BY <2>2 DEF FoundInv, ClustersAreComponents
<1>8. CASE AttachEvidence
  BY <1>8 DEF AttachEvidence, work, FoundInv, ClustersAreComponents
<1>9. CASE link_infrastructure
  BY <1>9 DEF link_infrastructure, work, FoundInv, ClustersAreComponents
<1>10. CASE Rollup \/ Commit \/ Abort
  BY <1>10 DEF Rollup, Commit, Abort, Ends, FoundInv, ClustersAreComponents
<1>11. CASE UNCHANGED vars
  BY <1>1, <1>11 DEF vars
<1> QED
  BY <1>2, <1>3, <1>4, <1>5, <1>6, <1>7, <1>8, <1>9, <1>10, <1>11 DEF Next

\* Clustering finds the connected components of adjacency with shared ownership
\* (_cluster_candidates), in whatever order the rows of the adjacency query come and
\* whatever paths find halves.
THEOREM ClusteringIsExact == Spec => []ClustersAreComponents
<1>1. FoundInv => ClustersAreComponents
  BY DEF FoundInv
<1> QED
  BY <1>1, InitFoundInv, FoundStep, PTL DEF Spec
=============================================================================
