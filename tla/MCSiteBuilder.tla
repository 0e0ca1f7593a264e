---------------------------- MODULE MCSiteBuilder ----------------------------
(* Instances of SiteBuilder for TLC. *)
EXTENDS SiteBuilder, TLC

CONSTANTS west, middle, east, north,  \* parcels
          air,                 \* a permit
          notice, filing,      \* evidence of a parcel and of the permit
          west_substation, east_substation, line,  \* substations and a transmission line
          x, y                 \* organizations

Holding(owner, acres) == [owner |-> owner, classified |-> FALSE, acres |-> acres]

DataCentre == [owner |-> NoOwner, classified |-> TRUE, acres |-> 20]

\* Two owners, a parcel that is too small, and one the assessor classifies.
MCParcelRows == {Holding(x, 20), Holding(y, 20), Holding(x, 5), DataCentre}

\* The northern parcel is the first owner's at the start.
Table(w, m, e) == west :> w @@ middle :> m @@ east :> e @@ north :> Holding(x, 20)

\* A cluster of three parcels and one of another owner; a parcel in the middle
\* that is no candidate or is not loaded yet.
MCInitialParcels ==
    {Table(Holding(x, 20), Holding(x, 20), Holding(y, 20)),
     Table(Holding(x, 20), Holding(x, 5), Holding(x, 20)),
     Table(Holding(y, 20), NoRow, Holding(x, 20))}

\* The middle is everybody's only neighbour.
MCAdjacent == {{west, middle}, {middle, east}, {middle, north}}

\* The permit stands between middle and east; its address is on west.
MCNearby == {<<air, middle>>, <<air, east>>}

MCAddressOf == (air :> west)

MCSubjectOf == notice :> middle @@ filing :> air

\* West and east have a substation of their own each; the middle is as far from both.
MCDistance ==
    west :> (west_substation :> 1000 @@ east_substation :> 2500 @@ line :> 1500) @@
    middle :> (west_substation :> 1800 @@ east_substation :> 1800 @@ line :> 2500) @@
    east :> (west_substation :> 2500 @@ east_substation :> 1000 @@ line :> 4000) @@
    north :> (west_substation :> 2600 @@ east_substation :> 1900 @@ line :> 4000)
=============================================================================
