---------------------------- MODULE WorkerProofs ----------------------------
(***************************************************************************)
(* Theorems about Worker, for any programs, plans, documents and parcels,  *)
(* and whoever is killed.                                                  *)
(***************************************************************************)
EXTENDS Worker, FiniteSetTheorems, TLAPS

-----------------------------------------------------------------------------
(* Sequences of writes                                                     *)

Elements(s) == {s[i] : i \in DOMAIN s}

IsSequence(s) == s \in Seq(Elements(s))

\* The shapes of short sequences.
LEMMA EmptyIsSequence == IsSequence(<<>>) /\ Elements(<<>>) = {} /\ Len(<<>>) = 0
BY DEF IsSequence, Elements

\* A sequence of one.
LEMMA OneIsSequence ==
    ASSUME NEW a PROVE IsSequence(<<a>>) /\ Len(<<a>>) = 1 /\ <<a>>[1] = a /\ Elements(<<a>>) = {a}
BY DEF IsSequence, Elements

\* A sequence of two.
LEMMA TwoAreSequence ==
    ASSUME NEW a, NEW b
    PROVE  /\ IsSequence(<<a, b>>) /\ Len(<<a, b>>) = 2 /\ Elements(<<a, b>>) = {a, b}
           /\ <<a, b>>[1] = a /\ <<a, b>>[2] = b
BY DEF IsSequence, Elements

\* A sequence over some set is one over its elements.
LEMMA SequenceOf ==
    ASSUME NEW S, NEW s \in Seq(S)
    PROVE  IsSequence(s) /\ Elements(s) \subseteq S
<1>1. s \in [1..Len(s) -> S] /\ Len(s) \in Nat /\ DOMAIN s = 1..Len(s)
  OBVIOUS
<1>2. Elements(s) \subseteq S
  BY <1>1 DEF Elements
<1>3. s \in [1..Len(s) -> Elements(s)]
  BY <1>1 DEF Elements
<1> QED
  BY <1>1, <1>2, <1>3 DEF IsSequence

\* One sequence after another.
LEMMA Appended ==
    ASSUME NEW s, NEW t, IsSequence(s), IsSequence(t)
    PROVE  /\ IsSequence(s \o t)
           /\ Elements(s \o t) = Elements(s) \cup Elements(t)
           /\ Len(s) \in Nat /\ Len(t) \in Nat
           /\ Len(s \o t) = Len(s) + Len(t)
           /\ \A i \in 1..Len(s) : (s \o t)[i] = s[i]
           /\ \A i \in 1..Len(t) : (s \o t)[Len(s) + i] = t[i]
<1> DEFINE S == Elements(s) \cup Elements(t)
<1>1. s \in Seq(S) /\ t \in Seq(S)
  BY DEF IsSequence
<1> HIDE DEF S
<1>2. /\ s \o t \in Seq(S) /\ Len(s) \in Nat /\ Len(t) \in Nat
      /\ Len(s \o t) = Len(s) + Len(t)
      /\ DOMAIN s = 1..Len(s) /\ DOMAIN t = 1..Len(t) /\ DOMAIN (s \o t) = 1..(Len(s) + Len(t))
      /\ \A i \in 1..Len(s) : (s \o t)[i] = s[i]
      /\ \A i \in 1..Len(t) : (s \o t)[Len(s) + i] = t[i]
  BY <1>1
<1>3. Elements(s \o t) \subseteq S
  BY <1>2, SequenceOf
<1>4. Elements(s) \subseteq Elements(s \o t)
  BY <1>2 DEF Elements
<1>5. Elements(t) \subseteq Elements(s \o t)
  <2> SUFFICES ASSUME NEW i \in 1..Len(t) PROVE t[i] \in Elements(s \o t)
    BY <1>2 DEF Elements
  <2>1. Len(s) + i \in DOMAIN (s \o t) /\ (s \o t)[Len(s) + i] = t[i]
    BY <1>2
  <2> QED
    BY <2>1 DEF Elements
<1>6. Elements(s \o t) = Elements(s) \cup Elements(t)
  BY <1>3, <1>4, <1>5 DEF S
<1>7. IsSequence(s \o t)
  BY <1>2, SequenceOf
<1> QED
  BY <1>2, <1>6, <1>7

\* The first element and the others.
LEMMA HeadAndTail ==
    ASSUME NEW s, IsSequence(s), s # <<>>
    PROVE  /\ Len(s) \in Nat \ {0} /\ DOMAIN s = 1..Len(s)
           /\ Head(s) = s[1] /\ Head(s) \in Elements(s)
           /\ IsSequence(Tail(s)) /\ Elements(Tail(s)) \subseteq Elements(s)
           /\ Len(Tail(s)) = Len(s) - 1
           /\ DOMAIN Tail(s) = 1..(Len(s) - 1)
           /\ \A i \in 1..(Len(s) - 1) : Tail(s)[i] = s[i + 1]
<1> DEFINE S == Elements(s)
<1>1. s \in Seq(S)
  BY DEF IsSequence
<1> HIDE DEF S
<1>2. /\ Len(s) \in Nat \ {0} /\ DOMAIN s = 1..Len(s) /\ Head(s) = s[1] /\ s[1] \in S
      /\ Tail(s) \in Seq(S) /\ Len(Tail(s)) = Len(s) - 1 /\ DOMAIN Tail(s) = 1..(Len(s) - 1)
      /\ \A i \in 1..(Len(s) - 1) : Tail(s)[i] = s[i + 1]
  BY <1>1
<1>3. IsSequence(Tail(s)) /\ Elements(Tail(s)) \subseteq S
  BY <1>2, SequenceOf
<1> QED
  BY <1>2, <1>3 DEF S

\* The elements of a finite set, one after the other.
LEMMA SetIsSequence ==
    ASSUME NEW S, IsFiniteSet(S)
    PROVE  IsSequence(SetToSeq(S)) /\ Elements(SetToSeq(S)) \subseteq S
<1>1. Cardinality(S) \in Nat /\ ExistsBijection(1..Cardinality(S), S)
  BY FS_CardinalityType
<1>2. \E f \in [1..Cardinality(S) -> S] : IsInjective(f)
  BY <1>1 DEF ExistsBijection, Bijection, Injection
<1>3. SetToSeq(S) \in [1..Cardinality(S) -> S]
  BY <1>2 DEF SetToSeq
<1>4. SetToSeq(S) \in Seq(S)
  BY <1>1, <1>3
<1> QED
  BY <1>4, SequenceOf

\* A flush of a finite set of rows.
LEMMA UpdatesAreFinite ==
    ASSUME NEW D, IsFiniteSet(D)
    PROVE  IsFiniteSet({Update(r) : r \in D})
<1> DEFINE f == [r \in D |-> Update(r)]
           T == {Update(r) : r \in D}
<1>1. f \in Surjection(D, T)
  BY DEF Surjection
<1> QED
  BY <1>1, FS_Surjection

\* What a sync writes is finite.
LEMMA UpsertsAreFinite ==
    ASSUME NEW p, NEW R, IsFiniteSet(R)
    PROVE  IsFiniteSet({Upsert(p, r) : r \in R})
<1> DEFINE f == [r \in R |-> Upsert(p, r)]
           T == {Upsert(p, r) : r \in R}
<1>1. f \in Surjection(R, T)
  BY DEF Surjection
<1> QED
  BY <1>1, FS_Surjection

LEMMA RegistryIsFinite ==
    IsFiniteSet({Source(s) : s \in Slugs}) /\ IsFiniteSet({Connector(s) : s \in Registered})
<1> DEFINE S == {Source(s) : s \in Slugs}
           C == {Connector(s) : s \in Registered}
           f == [s \in Slugs |-> Source(s)]
           g == [s \in Registered |-> Connector(s)]
<1>1. f \in Surjection(Slugs, S) /\ g \in Surjection(Registered, C)
  BY DEF Surjection
<1>2. IsFiniteSet(Slugs) /\ IsFiniteSet(Registered)
  BY WorkerAssumption, FS_Subset
<1>3. IsFiniteSet(S)
  BY <1>1, <1>2, FS_Surjection
<1>4. IsFiniteSet(C)
  BY <1>1, <1>2, FS_Surjection
<1> QED
  BY <1>3, <1>4

-----------------------------------------------------------------------------
(* Sessions                                                                *)

Resting == Over \cup {"ready"}

\* A program between two commands has written nothing and waits for nothing; what
\* a session has still to write is a sequence.
SessionInv ==
    /\ DOMAIN tx = Programs /\ DOMAIN writes = Programs /\ DOMAIN dirty = Programs
    /\ DOMAIN began = Programs /\ DOMAIN pc = Programs /\ DOMAIN todo = Programs
    /\ commits \in Nat
    /\ \A p \in Programs :
         /\ began[p] \in Nat /\ began[p] <= commits
         /\ IsFiniteSet(dirty[p])
         /\ IsSequence(writes[p])
         /\ pc[p] \in Resting => tx[p] = {} /\ writes[p] = <<>>

\* The rows whose doubles and whose numbers are at stake.
Watched == {"organizations", "sites", "versions"}

\* The rows that p creates when it began at b.
OrganizationOf(n, p, b) ==
    [table |-> "organizations", key |-> n, by |-> p, from |-> b, to |-> 0]

SiteOf(n, x, p, b) ==
    [table |-> "sites", key |-> n, parcel |-> x, by |-> p, from |-> b, to |-> 0]

\* What a flush may hand over: updates, rows that are not watched, an owner that is
\* not found, and at the end a site for the parcel at hand, or a version that
\* follows the highest and comes right after its document.
Pending(p) ==
    \A i \in DOMAIN writes'[p] : writes'[p][i].new =>
        LET r == writes'[p][i].row IN
        \/ r.table \notin Watched
        \/ r = OrganizationOf(r.key, p, began'[p]) /\ OrganizationsFound(p, r.key) = {}
        \/ i = Len(writes'[p]) /\ pc[p] = "code" /\ r = SiteOf(r.key, Thing(p), p, began'[p])
        \/ /\ i = Len(writes'[p]) /\ i - 1 \in DOMAIN writes'[p]
           /\ r = Version(Thing(p), Highest({v.number : v \in VersionsOf(p, Thing(p).document)}) + 1)
           /\ writes'[p][i - 1] = Update(Document(Thing(p).document))

\* A step of p's command that writes nothing yet.
FlushStep(p) ==
    /\ UNCHANGED <<db, current, commits, tx>>
    /\ DOMAIN writes' = Programs /\ DOMAIN dirty' = Programs /\ DOMAIN began' = Programs
    /\ DOMAIN pc' = Programs /\ DOMAIN todo' = Programs
    /\ \A q \in Programs \ {p} :
         /\ writes'[q] = writes[q] /\ dirty'[q] = dirty[q] /\ began'[q] = began[q]
         /\ pc'[q] = pc[q] /\ todo'[q] = todo[q]
    /\ writes[p] = <<>>
    /\ IsSequence(writes'[p]) /\ IsFiniteSet(dirty'[p])
    /\ began'[p] = began[p] \/ (pc[p] = "ready" /\ began'[p] = commits)
    /\ pc'[p] \in Resting => tx[p] = {} /\ writes'[p] = <<>>
    /\ pc'[p] = "code" => /\ SitesOf(p, Thing(p)) = {} /\ todo'[p] = todo[p]
                          /\ began'[p] = began[p] /\ writes'[p] = <<>>
    /\ Pending(p)

\* A flush is the updates of the rows that have changed, then the given rows.
LEMMA FlushShape ==
    ASSUME SessionInv, NEW p \in Programs, NEW s, IsSequence(s), Flush(p, s)
    PROVE  /\ DOMAIN writes' = Programs /\ DOMAIN dirty' = Programs
           /\ \A q \in Programs \ {p} : writes'[q] = writes[q] /\ dirty'[q] = dirty[q]
           /\ IsFiniteSet(dirty'[p])
           /\ IsSequence(writes'[p])
           /\ \E k \in Nat :
                /\ Len(s) \in Nat /\ DOMAIN s = 1..Len(s)
                /\ Len(writes'[p]) = k + Len(s) /\ DOMAIN writes'[p] = 1..(k + Len(s))
                /\ \A i \in 1..k : ~ writes'[p][i].new
                /\ \A i \in 1..Len(s) : writes'[p][k + i] = s[i]
<1> DEFINE U == {Update(r) : r \in dirty[p]}
           u == SetToSeq(U)
<1>1. IsFiniteSet(U)
  BY UpdatesAreFinite DEF SessionInv
<1>2. IsSequence(u) /\ Elements(u) \subseteq U
  BY <1>1, SetIsSequence
<1>3. \A w \in U : ~ w.new
  BY DEF Update
<1> HIDE DEF U, u
<1>4. writes'[p] = u \o s /\ dirty'[p] = {}
  BY DEF Flush, SessionInv, u, U
<1>5. /\ DOMAIN writes' = Programs /\ DOMAIN dirty' = Programs
      /\ \A q \in Programs \ {p} : writes'[q] = writes[q] /\ dirty'[q] = dirty[q]
  BY DEF Flush, SessionInv
<1>6. IsFiniteSet(dirty'[p])
  BY <1>4, FS_EmptySet
<1>7. /\ IsSequence(u \o s) /\ Len(u) \in Nat /\ Len(s) \in Nat
      /\ Len(u \o s) = Len(u) + Len(s)
      /\ \A i \in 1..Len(u) : (u \o s)[i] = u[i]
      /\ \A i \in 1..Len(s) : (u \o s)[Len(u) + i] = s[i]
  BY <1>2, Appended
<1>8. DOMAIN s = 1..Len(s) /\ DOMAIN u = 1..Len(u) /\ DOMAIN (u \o s) = 1..Len(u \o s)
  BY <1>2, <1>7 DEF IsSequence
<1>9. \A i \in 1..Len(u) : ~ u[i].new
  BY <1>2, <1>3, <1>8 DEF Elements
<1> QED
  BY <1>4, <1>5, <1>6, <1>7, <1>8, <1>9

\* A flush of updates and of rows that are not watched.
LEMMA PlainFlush ==
    ASSUME SessionInv, NEW p \in Programs, NEW s, IsSequence(s), Flush(p, s),
           \A i \in DOMAIN s : s[i].new => s[i].row.table \notin Watched
    PROVE  /\ DOMAIN writes' = Programs /\ DOMAIN dirty' = Programs
           /\ \A q \in Programs \ {p} : writes'[q] = writes[q] /\ dirty'[q] = dirty[q]
           /\ IsFiniteSet(dirty'[p]) /\ IsSequence(writes'[p])
           /\ Pending(p)
<1>1. PICK k \in Nat :
                /\ Len(s) \in Nat /\ DOMAIN s = 1..Len(s)
                /\ DOMAIN writes'[p] = 1..(k + Len(s))
                /\ \A i \in 1..k : ~ writes'[p][i].new
                /\ \A i \in 1..Len(s) : writes'[p][k + i] = s[i]
  BY FlushShape
<1>2. ASSUME NEW i \in DOMAIN writes'[p], writes'[p][i].new
      PROVE  writes'[p][i].row.table \notin Watched
  <2>1. i \in Nat /\ i > k /\ i - k \in 1..Len(s)
    BY <1>1, <1>2
  <2>2. writes'[p][i] = s[i - k]
    BY <1>1, <2>1
  <2> QED
    BY <1>1, <1>2, <2>1, <2>2
<1>3. Pending(p)
  BY <1>2 DEF Pending
<1> QED
  BY <1>3, FlushShape

\* What a sync makes of sources or connectors is finite, and not watched.
LEMMA SyncMakes ==
    ASSUME NEW p, NEW R, NEW D, IsFiniteSet(R), \A r \in R : r.table \in {"sources", "connectors"},
           NEW R2 \in SUBSET R, D = {Upsert(p, r) : r \in R2}
    PROVE  /\ IsSequence(SetToSeq(D))
           /\ \A w \in Elements(SetToSeq(D)) : w.row.table \in {"sources", "connectors"}
<1>1. IsFiniteSet(R2)
  BY FS_Subset
<1>2. IsFiniteSet(D)
  BY <1>1, UpsertsAreFinite
<1>3. \A w \in D : w.row.table \in {"sources", "connectors"}
  BY DEF Upsert, Update, Insert
<1>4. IsSequence(SetToSeq(D)) /\ Elements(SetToSeq(D)) \subseteq D
  BY <1>2, SetIsSequence
<1> QED
  BY <1>3, <1>4

\* The flush of sync_registry.
LEMMA SyncGives ==
    ASSUME NEW p \in Programs, SyncRegistry(p)
    PROVE  \E s : /\ Flush(p, s) /\ IsSequence(s)
                  /\ \A i \in DOMAIN s : s[i].row.table \in {"sources", "connectors"}
<1>1. PICK revised \in BOOLEAN :
         LET due(rows) == {Upsert(p, r) : r \in {x \in rows : revised \/ x \notin Visible(p)}}
         IN  Flush(p, SetToSeq(due({Source(s) : s \in Slugs}))
                      \o SetToSeq(due({Connector(s) : s \in Registered})))
  BY DEF SyncRegistry
<1> DEFINE S == {Source(s) : s \in Slugs}
           C == {Connector(s) : s \in Registered}
           S2 == {x \in S : revised \/ x \notin Visible(p)}
           C2 == {x \in C : revised \/ x \notin Visible(p)}
           A == {Upsert(p, r) : r \in S2}
           B == {Upsert(p, r) : r \in C2}
           a == SetToSeq(A)
           b == SetToSeq(B)
<1>2. Flush(p, a \o b)
  BY <1>1
<1>3. /\ \A r \in S : r.table \in {"sources", "connectors"}
      /\ \A r \in C : r.table \in {"sources", "connectors"}
      /\ IsFiniteSet(S) /\ IsFiniteSet(C)
  BY RegistryIsFinite DEF Source, Connector
<1>4. S2 \in SUBSET S /\ C2 \in SUBSET C
  OBVIOUS
<1> HIDE DEF S, C, S2, C2
<1>5. A = {Upsert(p, r) : r \in S2} /\ B = {Upsert(p, r) : r \in C2}
  OBVIOUS
<1> HIDE DEF A, B
<1>6. IsSequence(a) /\ \A w \in Elements(a) : w.row.table \in {"sources", "connectors"}
  BY <1>3, <1>4, <1>5, SyncMakes
<1>7. IsSequence(b) /\ \A w \in Elements(b) : w.row.table \in {"sources", "connectors"}
  BY <1>3, <1>4, <1>5, SyncMakes
<1> HIDE DEF a, b
<1>8. IsSequence(a \o b) /\ Elements(a \o b) \subseteq Elements(a) \cup Elements(b)
  BY <1>6, <1>7, Appended
<1>9. \A i \in DOMAIN (a \o b) : (a \o b)[i].row.table \in {"sources", "connectors"}
  BY <1>8, <1>6, <1>7 DEF Elements
<1> QED
  BY <1>2, <1>8, <1>9

\* sync_registry adds and updates sources and connectors.
LEMMA SyncFlushes ==
    ASSUME SessionInv, NEW p \in Programs, SyncRegistry(p) PROVE FlushStep(p)
<1>1. PICK s : /\ Flush(p, s) /\ IsSequence(s)
               /\ \A i \in DOMAIN s : s[i].row.table \in {"sources", "connectors"}
  BY SyncGives
<1>2. \A i \in DOMAIN s : s[i].row.table \notin Watched
  BY <1>1 DEF Watched
<1>3. /\ DOMAIN writes' = Programs /\ DOMAIN dirty' = Programs
      /\ \A q \in Programs \ {p} : writes'[q] = writes[q] /\ dirty'[q] = dirty[q]
      /\ IsFiniteSet(dirty'[p]) /\ IsSequence(writes'[p])
      /\ Pending(p)
  BY <1>1, <1>2, PlainFlush
<1> QED
  BY <1>3 DEF SyncRegistry, Begins, Due, Goto, FlushStep, SessionInv, Resting, Over

\* A run adds its connector.
LEMMA StartRunFlushes ==
    ASSUME SessionInv, NEW p \in Programs, StartRun(p) PROVE FlushStep(p)
<1> DEFINE c == Connector(Now(p).slug)
           s == IF c \in Visible(p) THEN <<>> ELSE <<Insert(c)>>
<1>1. IsSequence(s) /\ \A i \in DOMAIN s : s[i].row.table \notin Watched
  BY EmptyIsSequence, OneIsSequence DEF Insert, Connector, Watched
<1>2. Flush(p, s)
  BY DEF StartRun
<1> HIDE DEF s
<1>3. /\ DOMAIN writes' = Programs /\ DOMAIN dirty' = Programs
      /\ \A q \in Programs \ {p} : writes'[q] = writes[q] /\ dirty'[q] = dirty[q]
      /\ IsFiniteSet(dirty'[p]) /\ IsSequence(writes'[p])
      /\ Pending(p)
  BY <1>1, <1>2, PlainFlush
<1> QED
  BY <1>3 DEF StartRun, Begins, Due, Goto, FlushStep, SessionInv, Resting, Over

\* A document is added, which is not watched.
LEMMA FindDocumentFlushes ==
    ASSUME SessionInv, NEW p \in Programs, FindDocument(p) PROVE FlushStep(p)
<1> DEFINE d == Document(Thing(p).document)
<1>1. CASE d \in Visible(p)
  BY <1>1 DEF FindDocument, Running, NoFlush, Goto, FlushStep, Pending, SessionInv, Resting, Over
<1>2. CASE d \notin Visible(p)
  <2>1. IsSequence(<<Insert(d)>>)
        /\ \A i \in DOMAIN <<Insert(d)>> : <<Insert(d)>>[i].row.table \notin Watched
    BY OneIsSequence DEF Insert, Document, Watched
  <2>2. Flush(p, <<Insert(d)>>)
    BY <1>2 DEF FindDocument
  <2>3. /\ DOMAIN writes' = Programs /\ DOMAIN dirty' = Programs
        /\ \A q \in Programs \ {p} : writes'[q] = writes[q] /\ dirty'[q] = dirty[q]
        /\ IsFiniteSet(dirty'[p]) /\ IsSequence(writes'[p])
        /\ Pending(p)
    BY <2>1, <2>2, PlainFlush
  <2> QED
    BY <2>3 DEF FindDocument, Running, Goto, FlushStep, SessionInv, Resting, Over
<1> QED
  BY <1>1, <1>2

\* A document that is the same, one whose bytes were not archived, and a connector
\* whose signature has changed wait for the next flush.
LEMMA MarksFlush ==
    ASSUME SessionInv, NEW p \in Programs,
           KeepVersion(p) \/ PutRaises(p) \/ SignatureChanges(p)
    PROVE  FlushStep(p)
<1>1. PICK r : dirty' = [dirty EXCEPT ![p] = @ \cup {r}]
  BY DEF KeepVersion, PutRaises, SignatureChanges
<1>2. IsFiniteSet(dirty'[p])
  BY <1>1, FS_AddElement DEF SessionInv
<1>3. writes[p] = <<>> /\ UNCHANGED writes
  BY DEF KeepVersion, PutRaises, SignatureChanges, Running
<1>4. Pending(p)
  BY <1>3 DEF Pending
<1>5. CASE KeepVersion(p)
  BY <1>2, <1>4, <1>5 DEF KeepVersion, Running, Goto, FlushStep, SessionInv, Resting, Over
<1>6. CASE PutRaises(p)
  BY <1>2, <1>4, <1>6 DEF PutRaises, FailRun, Running, Goto, FlushStep, SessionInv, Resting, Over
<1>7. CASE SignatureChanges(p)
  BY <1>2, <1>4, <1>7 DEF SignatureChanges, Running, FlushStep, SessionInv, Resting, Over
<1> QED
  BY <1>5, <1>6, <1>7

\* A version comes last, right after its document.
LEMMA AddVersionFlushes ==
    ASSUME SessionInv, NEW p \in Programs, AddVersion(p) PROVE FlushStep(p)
<1> DEFINE d == Thing(p).document
           n == Highest({v.number : v \in VersionsOf(p, d)}) + 1
           a == Update(Document(d))
           b == Insert(Version(Thing(p), n))
<1>1. Flush(p, <<a, b>>)
  BY DEF AddVersion
<1>2. /\ ~ a.new /\ b.row = Version(Thing(p), n)
      /\ IsSequence(<<a, b>>) /\ Len(<<a, b>>) = 2 /\ <<a, b>>[1] = a /\ <<a, b>>[2] = b
  BY TwoAreSequence DEF Update, Insert
<1> HIDE DEF a, b, n
<1>3. /\ DOMAIN writes' = Programs /\ DOMAIN dirty' = Programs
      /\ \A q \in Programs \ {p} : writes'[q] = writes[q] /\ dirty'[q] = dirty[q]
      /\ IsFiniteSet(dirty'[p]) /\ IsSequence(writes'[p])
  BY <1>1, <1>2, FlushShape
<1>4. PICK k \in Nat :
                /\ Len(writes'[p]) = k + 2 /\ DOMAIN writes'[p] = 1..(k + 2)
                /\ \A i \in 1..k : ~ writes'[p][i].new
                /\ \A i \in 1..2 : writes'[p][k + i] = <<a, b>>[i]
  BY <1>1, <1>2, FlushShape
<1>5. writes'[p][k + 1] = a /\ writes'[p][k + 2] = b
  BY <1>2, <1>4
<1>6. \A i \in DOMAIN writes'[p] : writes'[p][i].new => i = k + 2
  BY <1>2, <1>4, <1>5
<1>7. k + 2 - 1 = k + 1 /\ k + 1 \in DOMAIN writes'[p]
  BY <1>4
<1>8. Pending(p)
  BY <1>2, <1>4, <1>5, <1>6, <1>7 DEF Pending, a, n
<1> QED
  BY <1>3, <1>8 DEF AddVersion, Running, Goto, FlushStep, SessionInv, Resting, Over

\* An owner is added when none is found.
LEMMA LoadParcelFlushes ==
    ASSUME SessionInv, NEW p \in Programs, LoadParcel(p) PROVE FlushStep(p)
<1> DEFINE parcel == Parcel(Thing(p).parcel, p)
           known == \E r \in Found(p, "parcels") : r.key = parcel.key
           owner == Organization(Thing(p).owner, p)
           a == Insert(owner)
           b == IF known THEN Update(parcel) ELSE Insert(parcel)
           none == OrganizationsFound(p, owner.key) = {}
           s == (IF none THEN <<a>> ELSE <<>>) \o <<b>>
<1>1. Flush(p, s)
  BY DEF LoadParcel
<1>2. a.row = OrganizationOf(owner.key, p, began[p]) /\ b.row.table \notin Watched
  BY DEF Insert, Update, Organization, OrganizationOf, Parcel, Watched
<1>3. owner.key = a.row.key
  BY DEF Insert
<1> HIDE DEF a, b, owner
<1>4. /\ IsSequence(s) /\ Elements(s) \subseteq {a, b} /\ (~ none => Elements(s) \subseteq {b})
  BY EmptyIsSequence, OneIsSequence, Appended
<1> HIDE DEF s
<1>5. /\ DOMAIN writes' = Programs /\ DOMAIN dirty' = Programs
      /\ \A q \in Programs \ {p} : writes'[q] = writes[q] /\ dirty'[q] = dirty[q]
      /\ IsFiniteSet(dirty'[p]) /\ IsSequence(writes'[p])
  BY <1>1, <1>4, FlushShape
<1>6. PICK k \in Nat :
                /\ Len(s) \in Nat /\ DOMAIN s = 1..Len(s)
                /\ DOMAIN writes'[p] = 1..(k + Len(s))
                /\ \A i \in 1..k : ~ writes'[p][i].new
                /\ \A i \in 1..Len(s) : writes'[p][k + i] = s[i]
  BY <1>1, <1>4, FlushShape
<1>7. ASSUME NEW i \in DOMAIN writes'[p], writes'[p][i].new
      PROVE  writes'[p][i] \in Elements(s)
  <2>1. i \in Nat /\ i > k /\ i - k \in 1..Len(s) /\ k + (i - k) = i
    BY <1>6, <1>7
  <2>2. writes'[p][i] = s[i - k]
    BY <1>6, <2>1
  <2> QED
    BY <1>6, <2>1, <2>2 DEF Elements
<1>8. began' = began
  BY DEF LoadParcel
<1>9. Pending(p)
  BY <1>2, <1>3, <1>4, <1>7, <1>8 DEF Pending
<1> QED
  BY <1>5, <1>9 DEF LoadParcel, Running, Goto, DropThing, FlushStep, SessionInv, Resting, Over

\* The row of a run is not watched.
LEMMA FinishRunFlushes ==
    ASSUME SessionInv, NEW p \in Programs, FinishRun(p) PROVE FlushStep(p)
<1> DEFINE a == Update(Connector(Now(p).slug))
           b == Insert(Run(Now(p).slug, IF failed[p] THEN "failed" ELSE "success", p))
<1>1. Flush(p, <<a, b>>)
  BY DEF FinishRun
<1>2. ~ a.new /\ b.row.table \notin Watched
  BY DEF Update, Insert, Run, Watched
<1> HIDE DEF a, b
<1>3. IsSequence(<<a, b>>) /\ \A i \in DOMAIN <<a, b>> : <<a, b>>[i] \in {a, b}
  BY TwoAreSequence DEF Elements
<1>4. \A i \in DOMAIN <<a, b>> : <<a, b>>[i].new => <<a, b>>[i].row.table \notin Watched
  BY <1>2, <1>3
<1>5. /\ DOMAIN writes' = Programs /\ DOMAIN dirty' = Programs
      /\ \A q \in Programs \ {p} : writes'[q] = writes[q] /\ dirty'[q] = dirty[q]
      /\ IsFiniteSet(dirty'[p]) /\ IsSequence(writes'[p])
      /\ Pending(p)
  BY <1>1, <1>3, <1>4, PlainFlush
<1> QED
  BY <1>5 DEF FinishRun, Running, Goto, FlushStep, SessionInv, Resting, Over

\* A site that is found is updated.
LEMMA FindSiteFlushes ==
    ASSUME SessionInv, NEW p \in Programs, FindSite(p) PROVE FlushStep(p)
<1>1. PICK r : Flush(p, <<Update(r)>>)
  BY DEF FindSite
<1>2. IsSequence(<<Update(r)>>) /\ \A i \in DOMAIN <<Update(r)>> : ~ <<Update(r)>>[i].new
  BY OneIsSequence DEF Update
<1>3. /\ DOMAIN writes' = Programs /\ DOMAIN dirty' = Programs
      /\ \A q \in Programs \ {p} : writes'[q] = writes[q] /\ dirty'[q] = dirty[q]
      /\ IsFiniteSet(dirty'[p]) /\ IsSequence(writes'[p])
      /\ Pending(p)
  BY <1>1, <1>2, PlainFlush
<1> QED
  BY <1>3 DEF FindSite, Running, DropThing, FlushStep, SessionInv, Resting, Over

\* A prediction is not watched.
LEMMA ScoreSiteFlushes ==
    ASSUME SessionInv, NEW p \in Programs, ScoreSite(p) PROVE FlushStep(p)
<1> DEFINE a == Update(Thing(p))
           b == Insert(Prediction(Thing(p).key, p))
<1>1. Flush(p, <<a, b>>)
  BY DEF ScoreSite
<1>2. ~ a.new /\ b.row.table \notin Watched
  BY DEF Update, Insert, Prediction, Watched
<1> HIDE DEF a, b
<1>3. IsSequence(<<a, b>>) /\ \A i \in DOMAIN <<a, b>> : <<a, b>>[i] \in {a, b}
  BY TwoAreSequence DEF Elements
<1>4. \A i \in DOMAIN <<a, b>> : <<a, b>>[i].new => <<a, b>>[i].row.table \notin Watched
  BY <1>2, <1>3
<1>5. /\ DOMAIN writes' = Programs /\ DOMAIN dirty' = Programs
      /\ \A q \in Programs \ {p} : writes'[q] = writes[q] /\ dirty'[q] = dirty[q]
      /\ IsFiniteSet(dirty'[p]) /\ IsSequence(writes'[p])
      /\ Pending(p)
  BY <1>1, <1>3, <1>4, PlainFlush
<1> QED
  BY <1>5 DEF ScoreSite, Running, DropThing, FlushStep, SessionInv, Resting, Over

\* A site is added for the parcel at hand.
LEMMA MintSiteFlushes ==
    ASSUME SessionInv, NEW p \in Programs, MintSite(p) PROVE FlushStep(p)
<1> DEFINE n == Highest({r.key : r \in Found(p, "sites")}) + 1
           a == Insert(Site(n, Thing(p), p))
<1>1. Flush(p, <<a>>)
  BY DEF MintSite
<1>2. a.row = SiteOf(a.row.key, Thing(p), p, began[p])
  BY DEF Insert, Site, SiteOf
<1> HIDE DEF a, n
<1>3. IsSequence(<<a>>) /\ Len(<<a>>) = 1 /\ <<a>>[1] = a
  BY OneIsSequence
<1>4. /\ DOMAIN writes' = Programs /\ DOMAIN dirty' = Programs
      /\ \A q \in Programs \ {p} : writes'[q] = writes[q] /\ dirty'[q] = dirty[q]
      /\ IsFiniteSet(dirty'[p]) /\ IsSequence(writes'[p])
  BY <1>1, <1>3, FlushShape
<1>5. PICK k \in Nat :
                /\ Len(writes'[p]) = k + 1 /\ DOMAIN writes'[p] = 1..(k + 1)
                /\ \A i \in 1..k : ~ writes'[p][i].new
                /\ \A i \in 1..1 : writes'[p][k + i] = <<a>>[i]
  BY <1>1, <1>3, FlushShape
<1>6. writes'[p][k + 1] = a
  BY <1>3, <1>5
<1>7. \A i \in DOMAIN writes'[p] : writes'[p][i].new => i = k + 1
  BY <1>5
<1>8. pc[p] = "code" /\ began' = began
  BY DEF MintSite, Running
<1>9. Pending(p)
  BY <1>2, <1>5, <1>6, <1>7, <1>8 DEF Pending
<1> QED
  BY <1>4, <1>9 DEF MintSite, Running, Goto, DropThing, FlushStep, SessionInv, Resting, Over

\* These write nothing.
LEMMA ReadsFlush ==
    ASSUME SessionInv, NEW p \in Programs,
           StartPass(p) \/ NeedSite(p) \/ StartScoring(p) \/ ExecuteRaises(p) \/ Done(p)
    PROVE  FlushStep(p)
<1>1. writes[p] = <<>> /\ UNCHANGED <<writes, dirty>>
  BY DEF StartPass, NeedSite, StartScoring, ExecuteRaises, Done, Begins, Due, Running, NoFlush,
         SessionInv, Resting
<1>2. Pending(p)
  BY <1>1 DEF Pending
<1>3. CASE StartPass(p)
  BY <1>1, <1>2, <1>3 DEF StartPass, Begins, Due, Goto, FlushStep, SessionInv, Resting, Over
<1>4. CASE NeedSite(p)
  BY <1>1, <1>2, <1>4 DEF NeedSite, Running, Goto, FlushStep, SessionInv, Resting, Over
<1>5. CASE StartScoring(p)
  BY <1>1, <1>2, <1>5 DEF StartScoring, Begins, Due, Goto, FlushStep, SessionInv, Resting, Over
<1>6. CASE ExecuteRaises(p)
  BY <1>1, <1>2, <1>6 DEF ExecuteRaises, FailRun, Goto, FlushStep, SessionInv, Resting, Over
<1>7. CASE Done(p)
  BY <1>1, <1>2, <1>7 DEF Done, Goto, FlushStep, SessionInv, Resting, Over
<1> QED
  BY <1>3, <1>4, <1>5, <1>6, <1>7

\* p's transaction is over, and p rests.
Rests(p) ==
    /\ DOMAIN tx' = Programs /\ DOMAIN writes' = Programs /\ DOMAIN dirty' = Programs
    /\ DOMAIN began' = Programs /\ DOMAIN pc' = Programs /\ DOMAIN todo' = Programs
    /\ \A q \in Programs \ {p} :
         /\ tx'[q] = tx[q] /\ writes'[q] = writes[q] /\ dirty'[q] = dirty[q]
         /\ began'[q] = began[q] /\ pc'[q] = pc[q] /\ todo'[q] = todo[q]
    /\ tx'[p] = {} /\ writes'[p] = <<>> /\ dirty'[p] = {} /\ began'[p] = 0
    /\ pc'[p] \in Resting

UndoStep(p) == Rests(p) /\ UNCHANGED <<db, current, commits>>

\* Leaving a command after its transaction.
LEMMA LeavesAtRest ==
    ASSUME SessionInv, NEW p \in Programs, RolledBack(p), NEW next, NEW step \in Resting,
           Leave(p, next, step)
    PROVE  Rests(p)
BY DEF SessionInv, RolledBack, Leave, Goto, Rests

\* An exception undoes the transaction.
LEMMA RaiseUndoes ==
    ASSUME SessionInv, NEW p \in Programs, Raise(p) PROVE UndoStep(p)
<1>1. CASE Now(p).tolerates = "anything"
  <2>1. Leave(p, command[p] + 1, "ready") /\ RolledBack(p)
    BY <1>1 DEF Raise
  <2>2. Rests(p)
    BY <2>1, LeavesAtRest DEF Resting
  <2> QED
    BY <2>2 DEF Raise, UndoStep
<1>2. CASE Now(p).tolerates # "anything"
  <2>1. Leave(p, command[p], "raised") /\ RolledBack(p)
    BY <1>2 DEF Raise
  <2>2. Rests(p)
    BY <2>1, LeavesAtRest DEF Resting, Over
  <2> QED
    BY <2>2 DEF Raise, UndoStep
<1> QED
  BY <1>1, <1>2

\* A kill undoes the transaction.
LEMMA KillUndoes ==
    ASSUME SessionInv, NEW p \in Programs, Kill(p) PROVE UndoStep(p)
<1>1. Leave(p, command[p], "killed") /\ RolledBack(p)
  BY DEF Kill
<1>2. Rests(p)
  BY <1>1, LeavesAtRest DEF Resting, Over
<1> QED
  BY <1>2 DEF Kill, UndoStep

\* A commit ends the transaction.
LEMMA CommitRests ==
    ASSUME SessionInv, NEW p \in Programs, Commit(p) PROVE Rests(p)
<1>1. CASE GoesOn(p)
  BY <1>1, LeavesAtRest DEF Commit, Resting
<1>2. CASE ~ GoesOn(p)
  BY <1>2, LeavesAtRest DEF Commit, Resting, Over
<1> QED
  BY <1>1, <1>2

\* What a step is, as far as rows are concerned.
LEMMA StepsOfPrograms ==
    ASSUME SessionInv, [Next]_vars, ~ UNCHANGED vars
    PROVE  \E p \in Programs : Write(p) \/ UndoStep(p) \/ Commit(p) \/ FlushStep(p)
<1>1. CASE \E p \in Mortal : Kill(p)
  BY <1>1, KillUndoes, WorkerAssumption
<1>2. ASSUME NEW p \in Programs, Step(p)
      PROVE  Write(p) \/ UndoStep(p) \/ Commit(p) \/ FlushStep(p)
  <2>1. CASE WriteFails(p) \/ DeadlockDetected(p) \/ SourceIsMissing(p) \/ LoadRaises(p)
    BY <2>1, RaiseUndoes DEF WriteFails, DeadlockDetected, SourceIsMissing, LoadRaises
  <2>2. CASE Done(p) \/ StartPass(p) \/ NeedSite(p) \/ StartScoring(p) \/ ExecuteRaises(p)
    BY <2>2, ReadsFlush
  <2>3. CASE SyncRegistry(p) \/ StartRun(p) \/ FindDocument(p) \/ AddVersion(p)
    BY <2>3, SyncFlushes, StartRunFlushes, FindDocumentFlushes, AddVersionFlushes
  <2>5. CASE KeepVersion(p) \/ PutRaises(p) \/ SignatureChanges(p)
    BY <2>5, MarksFlush
  <2>4. CASE LoadParcel(p) \/ FinishRun(p) \/ FindSite(p) \/ MintSite(p) \/ ScoreSite(p)
    BY <2>4, LoadParcelFlushes, FinishRunFlushes, FindSiteFlushes, MintSiteFlushes, ScoreSiteFlushes
  <2> QED
    BY <1>2, <2>1, <2>2, <2>3, <2>4, <2>5 DEF Step
<1> QED
  BY <1>1, <1>2 DEF Next

\* The invariant of sessions.
LEMMA SessionStep ==
    ASSUME SessionInv, [Next]_vars PROVE SessionInv'
<1>1. CASE UNCHANGED vars
  BY <1>1 DEF vars, SessionInv
<1>2. ASSUME NEW p \in Programs, Write(p) PROVE SessionInv'
  <2>1. IsSequence(Tail(writes[p]))
    BY <1>2, HeadAndTail DEF SessionInv, Write
  <2>2. pc[p] \notin Resting
    BY <1>2 DEF SessionInv, Write
  <2> QED
    BY <1>2, <2>1, <2>2 DEF SessionInv, Write
<1>3. ASSUME NEW p \in Programs, Rests(p), commits' \in Nat, commits <= commits' PROVE SessionInv'
  <2>1. IsFiniteSet(dirty'[p]) /\ IsSequence(writes'[p])
    BY <1>3, EmptyIsSequence, FS_EmptySet DEF Rests
  <2>2. began'[p] \in Nat /\ began'[p] <= commits' /\ tx'[p] = {} /\ writes'[p] = <<>>
    BY <1>3 DEF Rests
  <2>3. ASSUME NEW q \in Programs \ {p}
        PROVE  /\ began'[q] \in Nat /\ began'[q] <= commits'
               /\ IsFiniteSet(dirty'[q]) /\ IsSequence(writes'[q])
               /\ pc'[q] \in Resting => tx'[q] = {} /\ writes'[q] = <<>>
    BY <1>3, <2>3 DEF Rests, SessionInv
  <2> QED
    BY <1>3, <2>1, <2>2, <2>3 DEF SessionInv, Rests
<1>4. ASSUME NEW p \in Programs, UndoStep(p) \/ Commit(p) PROVE SessionInv'
  <2>1. Rests(p)
    BY <1>4, CommitRests DEF UndoStep
  <2>2. commits' = commits \/ commits' = commits + 1
    BY <1>4 DEF Commit, UndoStep
  <2>3. commits' \in Nat /\ commits <= commits'
    BY <2>2 DEF SessionInv
  <2> QED
    BY <1>3, <2>1, <2>3
<1>5. ASSUME NEW p \in Programs, FlushStep(p) PROVE SessionInv'
  BY <1>5 DEF SessionInv, FlushStep
<1> QED
  BY <1>1, <1>2, <1>4, <1>5, StepsOfPrograms

\* Nothing runs at first.
LEMMA InitSession == Init => SessionInv
<1> SUFFICES ASSUME Init PROVE SessionInv
  OBVIOUS
<1>1. IsFiniteSet({}) /\ IsSequence(<<>>)
  BY EmptyIsSequence, FS_EmptySet
<1> QED
  BY <1>1 DEF Init, SessionInv

-----------------------------------------------------------------------------
(* Doubles                                                                 *)

\* The rows that know when they were made.
Dated(rows) == Table(rows, "organizations") \cup Table(rows, "sites")

Doubled(a, b) ==
    \/ a.table = "organizations" /\ b.table = "organizations" /\ a.key = b.key
    \/ a.table = "sites" /\ b.table = "sites" /\ a.parcel = b.parcel

\* The rows that these writes make.
New(W) == {w.row : w \in {v \in W : v.new}}

\* What a program that began at b makes.
Ours(r, p, b) ==
    \/ r = OrganizationOf(r.key, p, b)
    \/ r = SiteOf(r.key, r.parcel, p, b)

\* The rows D that p makes, or is about to: none doubles another of them, and what
\* it doubles in the database was committed after p began.
Distinct(D, rows, p, b) ==
    /\ \A r \in Dated(D) : Ours(r, p, b)
    /\ \A r \in Dated(D) : \A a \in Dated(rows) : Doubled(a, r) => b < a.to
    /\ \A r, s \in Dated(D) : Doubled(r, s) => r = s

\* A program that is to make a site has not made one for the parcel, and one that
\* is committed was committed after the program began.
Wanting(W, rows, x, b) ==
    /\ \A s \in Table(rows, "sites") : s.parcel = x => b < s.to
    /\ \A s \in Table(New(W), "sites") : s.parcel # x

OverlapInv ==
    /\ \A a \in Dated(db) : a.from \in Nat /\ a.to \in Nat /\ a.from < a.to /\ a.to <= commits
    /\ \A a, b \in Dated(db) : a # b /\ Doubled(a, b) => a.from < b.to /\ b.from < a.to
    /\ \A p \in Programs :
         /\ Distinct(New(tx[p] \cup Elements(writes[p])), db, p, began[p])
         /\ pc[p] = "code" => writes[p] = <<>> /\ Wanting(tx[p], db, Head(todo[p]), began[p])

\* Fewer writes are no less distinct.
LEMMA FewerAreDistinct ==
    ASSUME NEW V, NEW W, V \subseteq W, NEW rows, NEW p, NEW b, Distinct(New(W), rows, p, b)
    PROVE  Distinct(New(V), rows, p, b)
<1>1. Dated(New(V)) \subseteq Dated(New(W))
  BY DEF Dated, Table, New
<1> QED
  BY <1>1 DEF Distinct

\* No rows, no doubles.
LEMMA NoneAreDistinct ==
    ASSUME NEW rows, NEW p, NEW b PROVE Distinct(New({}), rows, p, b)
BY DEF Distinct, New, Dated, Table

\* A step that commits nothing and makes no new row.
LEMMA OverlapKept ==
    ASSUME OverlapInv, UNCHANGED <<db, commits>>,
           \A q \in Programs :
              \/ tx'[q] = {} /\ writes'[q] = <<>> /\ pc'[q] # "code"
              \/ /\ began'[q] = began[q]
                 /\ tx'[q] \cup Elements(writes'[q]) \subseteq tx[q] \cup Elements(writes[q])
                 /\ pc'[q] = "code" => /\ pc[q] = "code" /\ todo'[q] = todo[q]
                                       /\ tx'[q] = tx[q] /\ writes'[q] = writes[q]
    PROVE  OverlapInv'
<1>1. ASSUME NEW q \in Programs
      PROVE  /\ Distinct(New(tx'[q] \cup Elements(writes'[q])), db, q, began'[q])
             /\ pc'[q] = "code" => /\ writes'[q] = <<>>
                                   /\ Wanting(tx'[q], db, Head(todo'[q]), began'[q])
  <2>1. CASE tx'[q] = {} /\ writes'[q] = <<>> /\ pc'[q] # "code"
    <3>1. tx'[q] \cup Elements(writes'[q]) = {}
      BY <2>1, EmptyIsSequence
    <3> QED
      BY <2>1, <3>1, NoneAreDistinct
  <2>2. CASE /\ began'[q] = began[q]
             /\ tx'[q] \cup Elements(writes'[q]) \subseteq tx[q] \cup Elements(writes[q])
             /\ pc'[q] = "code" => /\ pc[q] = "code" /\ todo'[q] = todo[q]
                                   /\ tx'[q] = tx[q] /\ writes'[q] = writes[q]
    <3>1. Distinct(New(tx[q] \cup Elements(writes[q])), db, q, began[q])
      BY DEF OverlapInv
    <3>2. Distinct(New(tx'[q] \cup Elements(writes'[q])), db, q, began[q])
      BY <2>2, <3>1, FewerAreDistinct
    <3> QED
      BY <2>2, <3>2 DEF OverlapInv
  <2> QED
    BY <2>1, <2>2
<1> QED
  BY <1>1 DEF OverlapInv

\* The dated rows of a flush: an owner that is not found, or a site.
LEMMA PendingRows ==
    ASSUME NEW p \in Programs, FlushStep(p), NEW r \in Dated(New(Elements(writes'[p])))
    PROVE  \/ r = OrganizationOf(r.key, p, began'[p]) /\ OrganizationsFound(p, r.key) = {}
           \/ /\ pc[p] = "code" /\ r = SiteOf(r.key, Thing(p), p, began'[p])
              /\ r = writes'[p][Len(writes'[p])].row
<1>1. PICK i \in DOMAIN writes'[p] : writes'[p][i].new /\ r = writes'[p][i].row
  BY DEF Dated, Table, New, Elements
<1>2. r.table \in Watched /\ r.table # "versions"
  BY DEF Dated, Table, Watched
<1>3. \A n : Version(Thing(p), n).table = "versions"
  BY DEF Version
<1>4. Pending(p)
  BY DEF FlushStep
<1>5. \/ r.table \notin Watched
      \/ r = OrganizationOf(r.key, p, began'[p]) /\ OrganizationsFound(p, r.key) = {}
      \/ i = Len(writes'[p]) /\ pc[p] = "code" /\ r = SiteOf(r.key, Thing(p), p, began'[p])
      \/ r = Version(Thing(p), Highest({v.number : v \in VersionsOf(p, Thing(p).document)}) + 1)
  BY <1>1, <1>4, Zenon DEF Pending
<1>6. r # Version(Thing(p), Highest({v.number : v \in VersionsOf(p, Thing(p).document)}) + 1)
  BY <1>2, <1>3
<1> QED
  BY <1>1, <1>2, <1>5, <1>6

\* What a flush finds missing is missing among the rows in sight.
LEMMA MissingRows ==
    ASSUME NEW p \in Programs, NEW a \in db \cup New(tx[p])
    PROVE  /\ a.table = "organizations" => OrganizationsFound(p, a.key) # {}
           /\ a.table = "sites" => SitesOf(p, a.parcel) # {}
BY DEF New, OrganizationsFound, SitesOf, Found, Table, Visible

\* A flush hands over nothing that doubles what is in sight.
LEMMA FlushOverlap ==
    ASSUME SessionInv, OverlapInv, NEW p \in Programs, FlushStep(p) PROVE OverlapInv'
<1> DEFINE b  == began'[p]
           D  == New(tx[p])
           P  == New(Elements(writes'[p]))
           D2 == New(tx'[p] \cup Elements(writes'[p]))
<1>1. tx' = tx /\ db' = db /\ commits' = commits /\ writes[p] = <<>>
  BY DEF FlushStep
<1>2. Dated(D2) = Dated(D) \cup Dated(P)
  BY <1>1 DEF New, Dated, Table
<1>3. Distinct(D, db, p, began[p])
  <2>1. tx[p] \cup Elements(writes[p]) = tx[p]
    BY <1>1, EmptyIsSequence
  <2>2. Distinct(New(tx[p] \cup Elements(writes[p])), db, p, began[p])
    BY DEF OverlapInv
  <2> QED
    BY <2>1, <2>2
<1>4. Distinct(D, db, p, b)
  <2>1. CASE b = began[p]
    BY <1>3, <2>1
  <2>2. CASE pc[p] = "ready"
    <3>1. tx[p] = {}
      BY <2>2 DEF SessionInv, Resting
    <3> QED
      BY <3>1, NoneAreDistinct
  <2> QED
    BY <2>1, <2>2 DEF FlushStep
<1>5. ASSUME NEW r \in Dated(P)
      PROVE  \/ /\ r.table = "organizations" /\ r = OrganizationOf(r.key, p, b)
                /\ \A a \in Dated(db \cup D) : ~ Doubled(a, r)
             \/ /\ r.table = "sites" /\ r = SiteOf(r.key, r.parcel, p, b)
                /\ r = writes'[p][Len(writes'[p])].row
                /\ \A a \in Table(db, "sites") : a.parcel = r.parcel => b < a.to
                /\ \A a \in Table(D, "sites") : a.parcel # r.parcel
  <2>1. CASE r = OrganizationOf(r.key, p, b) /\ OrganizationsFound(p, r.key) = {}
    <3>1. r.table = "organizations"
      BY <2>1 DEF OrganizationOf
    <3>2. ASSUME NEW a \in Dated(db \cup D) PROVE ~ Doubled(a, r)
      <4>1. a \in db \cup D
        BY DEF Dated, Table
      <4> QED
        BY <2>1, <3>1, <4>1, MissingRows DEF Doubled
    <3> QED
      BY <2>1, <3>1, <3>2
  <2>2. CASE /\ pc[p] = "code" /\ r = SiteOf(r.key, Thing(p), p, b)
             /\ r = writes'[p][Len(writes'[p])].row
    <3>1. r.table = "sites" /\ r.parcel = Thing(p)
      BY <2>2 DEF SiteOf
    <3>2. b = began[p]
      BY <2>2 DEF FlushStep
    <3>3. Wanting(tx[p], db, Thing(p), b)
      BY <2>2, <3>2 DEF OverlapInv, Thing
    <3> QED
      BY <2>2, <3>1, <3>3 DEF Wanting
  <2> QED
    BY <2>1, <2>2, PendingRows
<1> HIDE DEF b, D, P, D2
<1>6. \A r \in Dated(P) : Ours(r, p, b)
  BY <1>5 DEF Ours
<1>7. ASSUME NEW r \in Dated(P), NEW a \in Dated(db), Doubled(a, r) PROVE b < a.to
  <2>1. a \in Dated(db \cup D) /\ (a.table = "sites" => a \in Table(db, "sites"))
    BY DEF Dated, Table
  <2> QED
    BY <1>5, <1>7, <2>1 DEF Doubled
<1>8. ASSUME NEW r \in Dated(P), NEW a \in Dated(D) PROVE ~ Doubled(a, r) /\ ~ Doubled(r, a)
  <2>1. a \in Dated(db \cup D) /\ (a.table = "sites" => a \in Table(D, "sites"))
    BY DEF Dated, Table
  <2>2. ~ Doubled(a, r)
    BY <1>5, <2>1 DEF Doubled
  <2> QED
    BY <2>2 DEF Doubled
<1>9. ASSUME NEW r \in Dated(P), NEW s \in Dated(P), Doubled(r, s) PROVE r = s
  BY <1>5, <1>9 DEF Doubled
<1>10. Distinct(D2, db, p, b)
  BY <1>2, <1>4, <1>6, <1>7, <1>8, <1>9 DEF Distinct
<1>11. pc'[p] = "code" => writes'[p] = <<>> /\ Wanting(tx'[p], db, Head(todo'[p]), b)
  <2> SUFFICES ASSUME pc'[p] = "code"
               PROVE  writes'[p] = <<>> /\ Wanting(tx[p], db, Thing(p), b)
    BY <1>1 DEF FlushStep, Thing
  <2>1. writes'[p] = <<>> /\ SitesOf(p, Thing(p)) = {}
    BY DEF FlushStep
  <2>2. ASSUME NEW s \in db \cup New(tx[p]), s.table = "sites" PROVE s.parcel # Thing(p)
    BY <2>1, <2>2, MissingRows
  <2> QED
    BY <2>1, <2>2 DEF Wanting, Table
<1>12. ASSUME NEW q \in Programs \ {p}
       PROVE  /\ Distinct(New(tx'[q] \cup Elements(writes'[q])), db, q, began'[q])
              /\ pc'[q] = "code" => writes'[q] = <<>> /\ Wanting(tx'[q], db, Head(todo'[q]), began'[q])
  <2>1. /\ writes'[q] = writes[q] /\ tx'[q] = tx[q] /\ began'[q] = began[q]
        /\ pc'[q] = pc[q] /\ todo'[q] = todo[q]
    BY DEF FlushStep
  <2> QED
    BY <2>1 DEF OverlapInv
<1>13. /\ Distinct(New(tx'[p] \cup Elements(writes'[p])), db, p, began'[p])
       /\ pc'[p] = "code" => writes'[p] = <<>> /\ Wanting(tx'[p], db, Head(todo'[p]), began'[p])
  BY <1>10, <1>11 DEF D2, b
<1> QED
  BY <1>1, <1>12, <1>13 DEF OverlapInv

\* What a commit makes of a row.
Stamp(r, n) == IF r.table \in {"organizations", "sites"} THEN [r EXCEPT !.to = n] ELSE r

\* What a commit adds to the database.
LEMMA CommitStamps ==
    ASSUME NEW p \in Programs, Commit(p)
    PROVE  /\ db' = db \cup {Stamp(r, commits + 1) : r \in New(tx[p])}
           /\ commits' = commits + 1 /\ writes[p] = <<>>
BY DEF Commit, Stamp, New

\* A commit brings rows that its program made while it ran.
LEMMA CommitOverlap ==
    ASSUME SessionInv, OverlapInv, NEW p \in Programs, Commit(p) PROVE OverlapInv'
<1> DEFINE D == New(tx[p])
           n == commits + 1
           S == {Stamp(r, n) : r \in D}
<1>1. db' = db \cup S /\ commits' = n /\ Rests(p)
  BY CommitStamps, CommitRests
<1>2. Distinct(D, db, p, began[p])
  <2>1. tx[p] \cup Elements(writes[p]) = tx[p]
    BY CommitStamps, EmptyIsSequence
  <2>2. Distinct(New(tx[p] \cup Elements(writes[p])), db, p, began[p])
    BY DEF OverlapInv
  <2> QED
    BY <2>1, <2>2
<1>3. commits \in Nat /\ n \in Nat /\ commits < n /\ began[p] \in Nat /\ began[p] < n
  BY DEF SessionInv
<1>4. \A a \in Dated(db) : a.from \in Nat /\ a.to \in Nat /\ a.from < a.to /\ a.to <= commits
  BY DEF OverlapInv
<1>5. Dated(db') = Dated(db) \cup Dated(S)
  BY <1>1 DEF Dated, Table
<1>6. ASSUME NEW a \in Dated(S)
      PROVE  \E r \in Dated(D) :
                /\ a = Stamp(r, n) /\ Ours(r, p, began[p])
                /\ a.table = r.table /\ a.key = r.key
                /\ r.table = "sites" => a.parcel = r.parcel
                /\ a.from = began[p] /\ a.to = n
  <2>1. PICK r \in D : a = Stamp(r, n)
    BY DEF Dated, Table
  <2>2. r.table \in {"organizations", "sites"}
    BY <2>1 DEF Stamp, Dated, Table
  <2>3. r \in Dated(D)
    BY <2>2 DEF Dated, Table
  <2>4. Ours(r, p, began[p])
    BY <1>2, <2>3 DEF Distinct
  <2> HIDE DEF D, n, S
  <2>5. /\ Stamp(r, n).table = r.table /\ Stamp(r, n).key = r.key
        /\ r.table = "sites" => Stamp(r, n).parcel = r.parcel
        /\ Stamp(r, n).from = began[p] /\ Stamp(r, n).to = n
    BY <2>4 DEF Ours, OrganizationOf, SiteOf, Stamp
  <2> QED
    BY <2>1, <2>3, <2>4, <2>5
<1> HIDE DEF D, n, S
<1>7. \A a \in Dated(S) : a.from = began[p] /\ a.to = n
  BY <1>6
<1>8. \A a \in Dated(db') : a.from \in Nat /\ a.to \in Nat /\ a.from < a.to /\ a.to <= commits'
  BY <1>1, <1>3, <1>4, <1>5, <1>7
<1>9. ASSUME NEW a \in Dated(db'), NEW b \in Dated(db'), a # b, Doubled(a, b)
      PROVE  a.from < b.to /\ b.from < a.to
  <2>1. CASE a \in Dated(db) /\ b \in Dated(db)
    BY <1>9, <2>1 DEF OverlapInv
  <2>2. ASSUME NEW x \in Dated(db), NEW y \in Dated(S), Doubled(x, y)
        PROVE  x.from < y.to /\ y.from < x.to
    <3>1. PICK r \in Dated(D) : /\ y.table = r.table /\ y.key = r.key
                                /\ r.table = "sites" => y.parcel = r.parcel
                                /\ y.from = began[p] /\ y.to = n
      BY <1>6
    <3>2. Doubled(x, r)
      BY <2>2, <3>1 DEF Doubled
    <3>3. began[p] < x.to
      BY <1>2, <3>2 DEF Distinct
    <3> QED
      BY <1>3, <1>4, <3>1, <3>3
  <2>3. CASE a \in Dated(S) /\ b \in Dated(S)
    <3>1. PICK r \in Dated(D) : /\ a = Stamp(r, n) /\ a.table = r.table /\ a.key = r.key
                                /\ r.table = "sites" => a.parcel = r.parcel
      BY <1>6, <2>3
    <3>2. PICK s \in Dated(D) : /\ b = Stamp(s, n) /\ b.table = s.table /\ b.key = s.key
                                /\ s.table = "sites" => b.parcel = s.parcel
      BY <1>6, <2>3
    <3>3. Doubled(r, s)
      BY <1>9, <3>1, <3>2 DEF Doubled
    <3>4. r = s
      BY <1>2, <3>3 DEF Distinct
    <3> QED
      BY <1>9, <3>1, <3>2, <3>4
  <2>4. Doubled(b, a)
    BY <1>9 DEF Doubled
  <2> QED
    BY <1>5, <1>9, <2>1, <2>2, <2>3, <2>4
<1>10. ASSUME NEW q \in Programs \ {p}
       PROVE  /\ Distinct(New(tx[q] \cup Elements(writes[q])), db', q, began[q])
              /\ pc[q] = "code" => writes[q] = <<>> /\ Wanting(tx[q], db', Head(todo[q]), began[q])
  <2>1. began[q] \in Nat /\ began[q] <= commits
    BY DEF SessionInv
  <2>2. \A a \in Dated(S) : began[q] < a.to
    BY <1>1, <1>3, <1>7, <2>1
  <2>3. Distinct(New(tx[q] \cup Elements(writes[q])), db, q, began[q])
    BY DEF OverlapInv
  <2>4. Distinct(New(tx[q] \cup Elements(writes[q])), db', q, began[q])
    BY <1>5, <2>2, <2>3 DEF Distinct
  <2>5. ASSUME pc[q] = "code"
        PROVE  writes[q] = <<>> /\ Wanting(tx[q], db', Head(todo[q]), began[q])
    <3>1. writes[q] = <<>> /\ Wanting(tx[q], db, Head(todo[q]), began[q])
      BY <2>5 DEF OverlapInv
    <3>2. \A a \in Table(db', "sites") : a \in Table(db, "sites") \/ a \in Dated(S)
      BY <1>1 DEF Dated, Table
    <3> QED
      BY <2>2, <3>1, <3>2 DEF Wanting
  <2> QED
    BY <2>4, <2>5
<1>11. ASSUME NEW q \in Programs
       PROVE  /\ Distinct(New(tx'[q] \cup Elements(writes'[q])), db', q, began'[q])
              /\ pc'[q] = "code" => /\ writes'[q] = <<>>
                                    /\ Wanting(tx'[q], db', Head(todo'[q]), began'[q])
  <2>1. CASE q = p
    <3>1. tx'[q] \cup Elements(writes'[q]) = {} /\ pc'[q] # "code"
      BY <1>1, <2>1, EmptyIsSequence DEF Rests, Resting, Over
    <3> QED
      BY <3>1, NoneAreDistinct
  <2>2. CASE q # p
    <3>1. /\ tx'[q] = tx[q] /\ writes'[q] = writes[q] /\ began'[q] = began[q]
          /\ pc'[q] = pc[q] /\ todo'[q] = todo[q]
      BY <1>1, <2>2 DEF Rests
    <3> QED
      BY <1>10, <2>2, <3>1
  <2> QED
    BY <2>1, <2>2
<1> QED
  BY <1>8, <1>9, <1>11 DEF OverlapInv

\* Every step keeps the invariant of doubles.
LEMMA OverlapStep ==
    ASSUME SessionInv, OverlapInv, [Next]_vars PROVE OverlapInv'
<1>1. CASE UNCHANGED vars
  BY <1>1 DEF vars, OverlapInv
<1>2. ASSUME NEW p \in Programs, Write(p) PROVE OverlapInv'
  <2>1. /\ Head(writes[p]) \in Elements(writes[p])
        /\ Elements(Tail(writes[p])) \subseteq Elements(writes[p])
    BY <1>2, HeadAndTail DEF SessionInv, Write
  <2>2. /\ tx'[p] = tx[p] \cup {Head(writes[p])} /\ writes'[p] = Tail(writes[p])
        /\ \A q \in Programs \ {p} : tx'[q] = tx[q] /\ writes'[q] = writes[q]
        /\ UNCHANGED <<db, commits, pc, todo, began>>
    BY <1>2 DEF SessionInv, Write
  <2>3. pc[p] # "code"
    BY <1>2 DEF OverlapInv, Write
  <2>4. tx'[p] \cup Elements(writes'[p]) \subseteq tx[p] \cup Elements(writes[p])
    BY <2>1, <2>2
  <2> QED
    BY <2>2, <2>3, <2>4, OverlapKept
<1>3. ASSUME NEW p \in Programs, UndoStep(p) PROVE OverlapInv'
  <2>1. tx'[p] = {} /\ writes'[p] = <<>> /\ pc'[p] # "code"
    BY <1>3 DEF UndoStep, Rests, Resting, Over
  <2>2. \A q \in Programs \ {p} :
           /\ tx'[q] = tx[q] /\ writes'[q] = writes[q] /\ began'[q] = began[q]
           /\ pc'[q] = pc[q] /\ todo'[q] = todo[q]
    BY <1>3 DEF UndoStep, Rests
  <2>3. UNCHANGED <<db, commits>>
    BY <1>3 DEF UndoStep
  <2> QED
    BY <2>1, <2>2, <2>3, OverlapKept
<1> QED
  BY <1>1, <1>2, <1>3, CommitOverlap, FlushOverlap, StepsOfPrograms

\* At first there are no rows.
LEMMA InitOverlap == Init => OverlapInv
<1> SUFFICES ASSUME Init PROVE OverlapInv
  OBVIOUS
<1>1. Dated(db) = {}
  BY DEF Init, Dated, Table
<1>2. \A p \in Programs : tx[p] \cup Elements(writes[p]) = {} /\ pc[p] # "code"
  BY EmptyIsSequence DEF Init
<1>3. \A p \in Programs : Distinct(New(tx[p] \cup Elements(writes[p])), db, p, began[p])
  BY <1>2, NoneAreDistinct
<1> QED
  BY <1>1, <1>2, <1>3 DEF OverlapInv

\* DoublesOverlapped, for any number of programs and any plans: two organizations
\* of one normalized name, or two sites of one parcel, are the work of two
\* transactions that overlapped (get_or_create_organization,
\* _upsert_site_for_cluster).
THEOREM DoublesNeedOverlap == Spec => []DoublesOverlapped
<1>1. Init => SessionInv /\ OverlapInv
  BY InitSession, InitOverlap
<1>2. SessionInv /\ OverlapInv /\ [Next]_vars => (SessionInv /\ OverlapInv)'
  BY SessionStep, OverlapStep
<1>3. SessionInv /\ OverlapInv => DoublesOverlapped
  BY DEF OverlapInv, DoublesOverlapped, Dated, Doubled
<1> QED
  BY <1>1, <1>2, <1>3, PTL DEF Spec

-----------------------------------------------------------------------------
(* Version numbers                                                         *)

VersionsIn(rows, d) == {v \in Table(rows, "versions") : v.document = d}

Numbers(V) == {v.number : v \in V}

\* The versions V are numbered from k + 1 to m, each once.
Counted(V, k, m) ==
    /\ Numbers(V) = (k + 1) .. m
    /\ \A v, w \in V : v.number = w.number => v = w

KeysOf(W) == UNION {Keys(w.row) : w \in W}

\* n follows the versions that transaction W saw, and is none of its own.
Follows(n, rows, W, d) ==
    /\ n \in Nat \ {0}
    /\ 1 .. (n - 1) \subseteq Numbers(VersionsIn(rows \cup New(W), d))
    /\ n \notin Numbers(VersionsIn(New(W), d))

\* s[i] makes the version that follows those in sight.  It comes last, and its
\* document has been written before it.
NextVersion(s, i, rows, W, d) ==
    /\ i = Len(s)
    /\ Follows(s[i].row.number, rows, W, d)
    /\ \/ <<"documents", d>> \in KeysOf(W)
       \/ i - 1 \in DOMAIN s /\ s[i - 1] = Update(Document(d))

\* Transaction W, which has s to write: its versions of a document follow those
\* of the database, and it holds the document when it has any.
CountedIn(rows, cur, W, s) ==
    \A d \in DocumentIds :
      /\ \E m \in Nat : cur[d] <= m /\ Counted(VersionsIn(New(W), d), cur[d], m)
      /\ VersionsIn(New(W), d) # {} => <<"documents", d>> \in KeysOf(W)
      /\ \A i \in DOMAIN s :
            s[i].new /\ s[i].row.table = "versions" /\ s[i].row.document = d
               => NextVersion(s, i, rows, W, d)

CountInv ==
    /\ current \in [DocumentIds -> Nat]
    /\ \A d \in DocumentIds : Counted(VersionsIn(db, d), 0, current[d])
    /\ \A p \in Programs : CountedIn(db, current, tx[p], writes[p])
    /\ \A p, q \in Programs : p # q => KeysOf(tx[p]) \cap KeysOf(tx[q]) = {}

\* Nothing is counted from anything to itself.
LEMMA NoneCounted ==
    ASSUME NEW k \in Nat PROVE Counted({}, k, k)
BY DEF Counted, Numbers

\* A transaction that has written nothing, and has nothing to write.
LEMMA RestingCounted ==
    ASSUME NEW rows, NEW cur \in [DocumentIds -> Nat] PROVE CountedIn(rows, cur, {}, <<>>)
<1>1. \A d : VersionsIn(New({}), d) = {}
  BY DEF New, VersionsIn, Table
<1>2. \A d \in DocumentIds : cur[d] \in Nat /\ cur[d] <= cur[d] /\ Counted({}, cur[d], cur[d])
  BY NoneCounted
<1>3. DOMAIN <<>> = {}
  OBVIOUS
<1> QED
  BY <1>1, <1>2, <1>3 DEF CountedIn

\* The highest of a run of numbers is the last of them.
LEMMA HighestIsLast ==
    ASSUME NEW k \in Nat, NEW m \in Nat, k < m \/ (k = 0 /\ m = 0)
    PROVE  Highest((k + 1) .. m) = m
<1> DEFINE N == (k + 1) .. m
           P(n) == \A x \in N : x <= n
<1>1. m \in {0} \cup N /\ P(m)
  OBVIOUS
<1>2. \A n \in {0} \cup N : P(n) => n = m
  BY <1>1
<1>3. (CHOOSE n \in {0} \cup N : P(n)) \in {0} \cup N /\ P(CHOOSE n \in {0} \cup N : P(n))
  BY <1>1
<1>4. (CHOOSE n \in {0} \cup N : P(n)) = m
  BY <1>2, <1>3
<1> QED
  BY <1>4 DEF Highest

\* The next number.
LEMMA OneMoreCounted ==
    ASSUME NEW V, NEW k \in Nat, NEW m \in Nat, k <= m, Counted(V, k, m), NEW v, v.number = m + 1
    PROVE  Counted(V \cup {v}, k, m + 1)
<1>1. Numbers(V \cup {v}) = (k + 1) .. (m + 1)
  <2>1. Numbers(V \cup {v}) = Numbers(V) \cup {m + 1}
    BY DEF Numbers
  <2>2. ((k + 1) .. m) \cup {m + 1} = (k + 1) .. (m + 1)
    OBVIOUS
  <2> QED
    BY <2>1, <2>2 DEF Counted
<1>2. \A w \in V : w.number \in (k + 1) .. m
  BY DEF Counted, Numbers
<1>3. \A w \in V : w.number # m + 1
  BY <1>2
<1> QED
  BY <1>1, <1>3 DEF Counted

\* Versions that follow others.
LEMMA JoinedCounted ==
    ASSUME NEW V, NEW W, NEW k \in Nat, NEW m \in Nat, k <= m, Counted(V, 0, k), Counted(W, k, m)
    PROVE  Counted(V \cup W, 0, m)
<1>1. Numbers(V \cup W) = 1 .. m
  <2>1. Numbers(V) = 1 .. k /\ Numbers(W) = (k + 1) .. m
    BY DEF Counted
  <2>2. (1 .. k) \cup ((k + 1) .. m) = 1 .. m
    OBVIOUS
  <2>3. Numbers(V \cup W) = Numbers(V) \cup Numbers(W)
    BY DEF Numbers
  <2> QED
    BY <2>1, <2>2, <2>3
<1>2. \A v \in V : v.number \in 1 .. k
  BY DEF Counted, Numbers
<1>3. \A w \in W : w.number \in (k + 1) .. m
  BY DEF Counted, Numbers
<1>4. \A v \in V, w \in W : v.number # w.number
  BY <1>2, <1>3
<1> QED
  BY <1>1, <1>4 DEF Counted

\* As many versions as the last number says.
LEMMA CountedCardinality ==
    ASSUME NEW V, NEW m \in Nat, Counted(V, 0, m)
    PROVE  Cardinality(V) = m
<1> DEFINE f == [v \in V |-> v.number]
           g == [i \in 1..m |-> CHOOSE v \in V : v.number = i]
<1>1. \A i \in 1..m : \E v \in V : v.number = i
  BY DEF Counted, Numbers
<1>2. \A i \in 1..m : g[i] \in V /\ g[i].number = i
  BY <1>1
<1>3. \A v \in V : v.number \in 1..m /\ g[v.number] = v
  <2>1. \A v \in V : v.number \in 1..m
    BY DEF Counted, Numbers
  <2> QED
    BY <1>2, <2>1 DEF Counted
<1>4. g \in Surjection(1..m, V)
  BY <1>2, <1>3 DEF Surjection
<1>5. g \in Injection(1..m, V)
  BY <1>2 DEF Injection, IsInjective
<1>6. ExistsBijection(1..m, V)
  BY <1>4, <1>5 DEF ExistsBijection, Bijection
<1>7. IsFiniteSet(1..m) /\ Cardinality(1..m) = m
  BY FS_Interval
<1> QED
  BY <1>6, <1>7, FS_Bijection

\* The keys that matter here.
LEMMA KeysOfVersions ==
    ASSUME NEW r, r.table = "versions" PROVE <<"number", r.document, r.number>> \in Keys(r)
BY DEF Keys

\* Who writes a document has its key.
LEMMA KeysOfDocuments ==
    ASSUME NEW d PROVE <<"documents", d>> \in KeysOf({Update(Document(d))})
<1>1. Keys(Document(d)) = {<<"documents", d>>}
  BY DEF Keys, Document
<1> QED
  BY <1>1 DEF KeysOf, Update

\* All the versions that p sees of a document are counted together.
LEMMA SightCounted ==
    ASSUME CountInv, NEW p \in Programs, NEW d \in DocumentIds
    PROVE  \E m \in Nat : /\ current[d] \in Nat /\ current[d] <= m
                          /\ Counted(VersionsIn(New(tx[p]), d), current[d], m)
                          /\ Counted(VersionsIn(db \cup New(tx[p]), d), 0, m)
<1>1. PICK m \in Nat : current[d] <= m /\ Counted(VersionsIn(New(tx[p]), d), current[d], m)
  BY DEF CountInv, CountedIn
<1>2. current[d] \in Nat /\ Counted(VersionsIn(db, d), 0, current[d])
  BY DEF CountInv
<1>3. Counted(VersionsIn(db, d) \cup VersionsIn(New(tx[p]), d), 0, m)
  BY <1>1, <1>2, JoinedCounted
<1>4. VersionsIn(db \cup New(tx[p]), d) = VersionsIn(db, d) \cup VersionsIn(New(tx[p]), d)
  BY DEF VersionsIn, Table
<1> QED
  BY <1>1, <1>2, <1>3, <1>4

\* A flush numbers its version after those in sight.
LEMMA FlushCount ==
    ASSUME CountInv, NEW p \in Programs, FlushStep(p) PROVE CountInv'
<1>1. tx' = tx /\ db' = db /\ current' = current
  BY DEF FlushStep
<1>2. ASSUME NEW d \in DocumentIds, NEW i \in DOMAIN writes'[p], writes'[p][i].new,
             writes'[p][i].row.table = "versions", writes'[p][i].row.document = d
      PROVE  NextVersion(writes'[p], i, db, tx[p], d)
  <2> DEFINE r == writes'[p][i].row
             N == Numbers(VersionsIn(db \cup New(tx[p]), d))
             x == Thing(p).document
             h == Highest({v.number : v \in VersionsOf(p, x)})
  <2>1. "versions" \in Watched
    BY DEF Watched
  <2>2. Pending(p)
    BY DEF FlushStep
  <2>3. /\ i = Len(writes'[p]) /\ i - 1 \in DOMAIN writes'[p]
        /\ r = Version(Thing(p), h + 1)
        /\ writes'[p][i - 1] = Update(Document(x))
    <3>1. \/ r.table \notin Watched
          \/ r = OrganizationOf(r.key, p, began'[p]) /\ OrganizationsFound(p, r.key) = {}
          \/ i = Len(writes'[p]) /\ pc[p] = "code" /\ r = SiteOf(r.key, Thing(p), p, began'[p])
          \/ /\ i = Len(writes'[p]) /\ i - 1 \in DOMAIN writes'[p]
             /\ r = Version(Thing(p), h + 1)
             /\ writes'[p][i - 1] = Update(Document(x))
      BY <1>2, <2>2, Zenon DEF Pending
    <3>2. r # OrganizationOf(r.key, p, began'[p]) /\ r # SiteOf(r.key, Thing(p), p, began'[p])
      BY <1>2 DEF OrganizationOf, SiteOf
    <3> QED
      BY <1>2, <2>1, <3>1, <3>2
  <2>4. r.document = x /\ r.number = h + 1
    BY <2>3 DEF Version
  <2>5. x = d
    BY <1>2, <2>4
  <2>6. {v.number : v \in VersionsOf(p, x)} = N
    BY <2>5 DEF VersionsOf, Found, Visible, VersionsIn, Numbers, New
  <2>7. PICK m \in Nat : /\ current[d] \in Nat /\ current[d] <= m
                         /\ Counted(VersionsIn(New(tx[p]), d), current[d], m)
                         /\ Counted(VersionsIn(db \cup New(tx[p]), d), 0, m)
    BY SightCounted
  <2>8. N = 1 .. m /\ N = (0 + 1) .. m
    BY <2>7 DEF Counted
  <2>9. Highest((0 + 1) .. m) = m
    BY HighestIsLast
  <2>10. h = m
    BY <2>6, <2>8, <2>9
  <2>11. Numbers(VersionsIn(New(tx[p]), d)) = (current[d] + 1) .. m
    BY <2>7 DEF Counted
  <2> HIDE DEF r, N, x, h
  <2>12. r.number \in Nat \ {0} /\ 1 .. (r.number - 1) \subseteq N
    BY <2>4, <2>8, <2>10
  <2>13. r.number \notin Numbers(VersionsIn(New(tx[p]), d))
    BY <2>4, <2>7, <2>10, <2>11
  <2> QED
    BY <2>3, <2>5, <2>12, <2>13 DEF NextVersion, Follows, r, N
<1>3. CountedIn(db, current, tx[p], writes'[p])
  <2>1. CountedIn(db, current, tx[p], writes[p])
    BY DEF CountInv
  <2> QED
    BY <1>2, <2>1 DEF CountedIn
<1>4. \A q \in Programs \ {p} : writes'[q] = writes[q]
  BY DEF FlushStep
<1> QED
  BY <1>1, <1>3, <1>4 DEF CountInv

\* A transaction that is undone leaves nothing to count.
LEMMA UndoCount ==
    ASSUME CountInv, NEW p \in Programs, UndoStep(p) PROVE CountInv'
<1>1. /\ db' = db /\ current' = current /\ tx'[p] = {} /\ writes'[p] = <<>>
      /\ \A q \in Programs \ {p} : tx'[q] = tx[q] /\ writes'[q] = writes[q]
  BY DEF UndoStep, Rests
<1>2. CountedIn(db, current, {}, <<>>)
  BY RestingCounted DEF CountInv
<1>3. \A q \in Programs : CountedIn(db, current, tx'[q], writes'[q])
  BY <1>1, <1>2 DEF CountInv
<1>4. KeysOf({}) = {}
  BY DEF KeysOf
<1>5. ASSUME NEW q \in Programs, NEW r \in Programs, q # r
      PROVE  KeysOf(tx'[q]) \cap KeysOf(tx'[r]) = {}
  <2>1. KeysOf(tx'[q]) = {} \/ tx'[q] = tx[q]
    BY <1>1, <1>4
  <2>2. KeysOf(tx'[r]) = {} \/ tx'[r] = tx[r]
    BY <1>1, <1>4
  <2>3. KeysOf(tx[q]) \cap KeysOf(tx[r]) = {}
    BY <1>5 DEF CountInv
  <2> QED
    BY <2>1, <2>2, <2>3
<1> QED
  BY <1>1, <1>3, <1>5 DEF CountInv

\* A version that is written is the next one: a number in the database violates
\* its key, and there is none between.
LEMMA WriteFollows ==
    ASSUME CountInv, NEW p \in Programs, NEW w, ~ Violates(w), w.new, w.row.table = "versions",
           NEW d \in DocumentIds, w.row.document = d,
           Follows(w.row.number, db, tx[p], d)
    PROVE  \E m \in Nat : /\ current[d] \in Nat /\ current[d] <= m
                          /\ Counted(VersionsIn(New(tx[p]), d), current[d], m)
                          /\ w.row.number = m + 1
<1> DEFINE n == w.row.number
<1>1. PICK m \in Nat : /\ current[d] \in Nat /\ current[d] <= m
                       /\ Counted(VersionsIn(New(tx[p]), d), current[d], m)
                       /\ Counted(VersionsIn(db \cup New(tx[p]), d), 0, m)
  BY SightCounted
<1>2. n \notin 1 .. current[d]
  <2> SUFFICES ASSUME n \in 1 .. current[d] PROVE FALSE
    OBVIOUS
  <2>1. Numbers(VersionsIn(db, d)) = 1 .. current[d]
    BY DEF CountInv, Counted
  <2>2. PICK v \in VersionsIn(db, d) : v.number = n
    BY <2>1 DEF Numbers
  <2>3. v \in db /\ v.table = "versions" /\ v.document = d
    BY DEF VersionsIn, Table
  <2>4. <<"number", d, n>> \in Keys(v) /\ <<"number", d, n>> \in Keys(w.row)
    BY <2>2, <2>3, KeysOfVersions
  <2>5. <<"number", d, n>> \in Keys(w.row) \cap UNION {Keys(r) : r \in db}
    BY <2>3, <2>4
  <2> QED
    BY <2>5 DEF Violates
<1>3. n \notin (current[d] + 1) .. m
  BY <1>1 DEF Counted, Follows
<1>4. 1 .. (n - 1) \subseteq 1 .. m
  <2>1. Numbers(VersionsIn(db \cup New(tx[p]), d)) = 1 .. m
    BY <1>1 DEF Counted
  <2> QED
    BY <2>1 DEF Follows
<1>5. n \in Nat /\ n > 0
  BY DEF Follows
<1> HIDE DEF n
<1>6. n > m
  BY <1>1, <1>2, <1>3, <1>5
<1>7. n - 1 <= m
  <2>1. CASE n = 1
    BY <2>1
  <2>2. CASE n > 1
    <3>1. n - 1 \in 1 .. (n - 1)
      BY <1>5, <2>2
    <3> QED
      BY <1>4, <3>1
  <2> QED
    BY <1>5, <2>1, <2>2
<1> QED
  BY <1>1, <1>5, <1>6, <1>7 DEF n

\* A write of a row that nobody else has touched.
LEMMA WriteCount ==
    ASSUME SessionInv, CountInv, NEW p \in Programs, Write(p) PROVE CountInv'
<1> DEFINE s == writes[p]
           t == Tail(s)
           w == Head(s)
<1>1. /\ Len(s) \in Nat \ {0} /\ DOMAIN s = 1 .. Len(s) /\ w = s[1]
      /\ Len(t) = Len(s) - 1 /\ DOMAIN t = 1 .. (Len(s) - 1)
      /\ \A i \in 1 .. (Len(s) - 1) : t[i] = s[i + 1]
  BY HeadAndTail DEF SessionInv, Write
<1>2. /\ tx'[p] = tx[p] \cup {w} /\ writes'[p] = t
      /\ \A q \in Programs \ {p} : tx'[q] = tx[q] /\ writes'[q] = writes[q]
      /\ db' = db /\ current' = current /\ ~ Violates(w)
  BY DEF SessionInv, Write
<1>3. \A q \in Programs \ {p} : Keys(w.row) \cap KeysOf(tx[q]) = {}
  BY DEF Write, Free, Awaits, Written, KeysOf
<1> HIDE DEF s, t, w
<1>4. KeysOf(tx'[p]) = KeysOf(tx[p]) \cup Keys(w.row)
  BY <1>2 DEF KeysOf
<1>5. ASSUME NEW q \in Programs, NEW r \in Programs, q # r
      PROVE  KeysOf(tx'[q]) \cap KeysOf(tx'[r]) = {}
  <2>1. KeysOf(tx[q]) \cap KeysOf(tx[r]) = {}
    BY <1>5 DEF CountInv
  <2>2. KeysOf(tx'[q]) = KeysOf(tx[q]) \/ (q = p /\ KeysOf(tx'[q]) = KeysOf(tx[q]) \cup Keys(w.row))
    BY <1>2, <1>4
  <2>3. KeysOf(tx'[r]) = KeysOf(tx[r]) \/ (r = p /\ KeysOf(tx'[r]) = KeysOf(tx[r]) \cup Keys(w.row))
    BY <1>2, <1>4
  <2>4. q = p => Keys(w.row) \cap KeysOf(tx[r]) = {}
    BY <1>3, <1>5
  <2>5. r = p => Keys(w.row) \cap KeysOf(tx[q]) = {}
    BY <1>3, <1>5
  <2> QED
    BY <1>5, <2>1, <2>2, <2>3, <2>4, <2>5
<1>6. CountedIn(db, current, tx'[p], t)
  <2> SUFFICES ASSUME NEW d \in DocumentIds
               PROVE  /\ \E m \in Nat : /\ current[d] <= m
                                        /\ Counted(VersionsIn(New(tx'[p]), d), current[d], m)
                      /\ VersionsIn(New(tx'[p]), d) # {} => <<"documents", d>> \in KeysOf(tx'[p])
                      /\ \A i \in DOMAIN t :
                            t[i].new /\ t[i].row.table = "versions" /\ t[i].row.document = d
                               => NextVersion(t, i, db, tx'[p], d)
    BY DEF CountedIn
  <2> DEFINE V  == VersionsIn(New(tx[p]), d)
             V2 == VersionsIn(New(tx'[p]), d)
  <2>1. /\ \E m \in Nat : current[d] <= m /\ Counted(V, current[d], m)
        /\ V # {} => <<"documents", d>> \in KeysOf(tx[p])
        /\ \A i \in DOMAIN s :
              s[i].new /\ s[i].row.table = "versions" /\ s[i].row.document = d
                 => NextVersion(s, i, db, tx[p], d)
    BY DEF CountInv, CountedIn, s
  <2>2. CASE w.new /\ w.row.table = "versions" /\ w.row.document = d
    <3>1. NextVersion(s, 1, db, tx[p], d)
      BY <1>1, <2>1, <2>2
    <3>2. /\ 1 = Len(s) /\ Follows(w.row.number, db, tx[p], d)
          /\ <<"documents", d>> \in KeysOf(tx[p]) \/ 1 - 1 \in DOMAIN s
      BY <1>1, <3>1 DEF NextVersion
    <3>3. PICK m \in Nat : /\ current[d] \in Nat /\ current[d] <= m
                           /\ Counted(V, current[d], m) /\ w.row.number = m + 1
      BY <1>2, <2>2, <3>2, WriteFollows
    <3>4. V2 = V \cup {w.row}
      BY <1>2, <2>2 DEF VersionsIn, Table, New
    <3>5. Counted(V2, current[d], m + 1)
      BY <3>3, <3>4, OneMoreCounted
    <3>6. <<"documents", d>> \in KeysOf(tx'[p])
      BY <1>1, <1>4, <3>2
    <3>7. \A i \in DOMAIN t : FALSE
      <4>1. Len(s) - 1 = 0
        BY <3>2
      <4>2. DOMAIN t = 1 .. 0
        BY <1>1, <4>1
      <4> QED
        BY <4>2
    <3>8. m + 1 \in Nat /\ current[d] <= m + 1
      BY <3>3
    <3> QED
      BY <3>5, <3>6, <3>7, <3>8
  <2>3. CASE ~ (w.new /\ w.row.table = "versions" /\ w.row.document = d)
    <3>1. V2 = V
      BY <1>2, <2>3 DEF VersionsIn, Table, New
    <3>2. VersionsIn(db \cup New(tx[p]), d) = VersionsIn(db \cup New(tx'[p]), d)
      BY <1>2, <2>3 DEF VersionsIn, Table, New
    <3>3. ASSUME NEW i \in DOMAIN t,
                 t[i].new, t[i].row.table = "versions", t[i].row.document = d
          PROVE  NextVersion(t, i, db, tx'[p], d)
      <4>1. i \in Nat \ {0} /\ i + 1 \in DOMAIN s /\ t[i] = s[i + 1]
        BY <1>1
      <4>2. NextVersion(s, i + 1, db, tx[p], d)
        BY <2>1, <3>3, <4>1
      <4>3. /\ i + 1 = Len(s) /\ Follows(t[i].row.number, db, tx'[p], d)
            /\ \/ <<"documents", d>> \in KeysOf(tx[p])
               \/ s[i] = Update(Document(d))
        <5>1. (i + 1) - 1 = i
          BY <4>1
        <5>2. Follows(t[i].row.number, db, tx[p], d)
          BY <4>1, <4>2 DEF NextVersion
        <5>3. Follows(t[i].row.number, db, tx'[p], d)
          BY <3>1, <3>2, <5>2 DEF Follows
        <5> QED
          BY <4>2, <5>1, <5>3 DEF NextVersion
      <4>4. i = Len(t)
        BY <1>1, <4>1, <4>3
      <4>5. CASE <<"documents", d>> \in KeysOf(tx[p])
        BY <1>4, <4>3, <4>4, <4>5 DEF NextVersion
      <4>6. CASE s[i] = Update(Document(d)) /\ i = 1
        <5>1. <<"documents", d>> \in KeysOf({w})
          BY <1>1, <4>6, KeysOfDocuments
        <5>2. <<"documents", d>> \in KeysOf(tx'[p])
          BY <1>4, <5>1 DEF KeysOf
        <5> QED
          BY <4>3, <4>4, <5>2 DEF NextVersion
      <4>7. CASE s[i] = Update(Document(d)) /\ i > 1
        <5>1. i - 1 \in DOMAIN t /\ t[i - 1] = s[i]
          BY <1>1, <4>1, <4>7
        <5> QED
          BY <4>3, <4>4, <4>7, <5>1 DEF NextVersion
      <4> QED
        BY <4>1, <4>3, <4>5, <4>6, <4>7
    <3> QED
      BY <1>4, <2>1, <3>1, <3>3
  <2> QED
    BY <2>2, <2>3
<1> QED
  BY <1>2, <1>5, <1>6 DEF CountInv

\* A commit moves the versions of its transaction as they are.
LEMMA StampedVersions ==
    ASSUME OverlapInv, NEW p \in Programs, writes[p] = <<>>, NEW n, NEW d
    PROVE  VersionsIn({Stamp(r, n) : r \in New(tx[p])}, d) = VersionsIn(New(tx[p]), d)
<1>1. Distinct(New(tx[p]), db, p, began[p])
  <2>1. tx[p] \cup Elements(writes[p]) = tx[p]
    BY EmptyIsSequence
  <2>2. Distinct(New(tx[p] \cup Elements(writes[p])), db, p, began[p])
    BY DEF OverlapInv
  <2> QED
    BY <2>1, <2>2
<1>2. ASSUME NEW r \in New(tx[p])
      PROVE  \/ Stamp(r, n) = r
             \/ Stamp(r, n).table # "versions" /\ r.table # "versions"
  <2>1. CASE r \in Dated(New(tx[p]))
    <3>1. Ours(r, p, began[p])
      BY <1>1, <2>1 DEF Distinct
    <3> QED
      BY <3>1 DEF Ours, OrganizationOf, SiteOf, Stamp
  <2>2. CASE r \notin Dated(New(tx[p]))
    BY <2>2 DEF Dated, Table, Stamp
  <2> QED
    BY <2>1, <2>2
<1> QED
  BY <1>2 DEF VersionsIn, Table

\* A commit makes the last version of its transaction the current one.
LEMMA CommitCount ==
    ASSUME SessionInv, OverlapInv, CountInv, NEW p \in Programs, Commit(p) PROVE CountInv'
<1> DEFINE S == {Stamp(r, commits + 1) : r \in New(tx[p])}
           V(q, d) == VersionsIn(New(tx[q]), d)
<1>1. /\ db' = db \cup S /\ writes[p] = <<>>
      /\ tx'[p] = {} /\ writes'[p] = <<>>
      /\ \A q \in Programs \ {p} : tx'[q] = tx[q] /\ writes'[q] = writes[q]
  BY CommitStamps, CommitRests DEF Rests
<1>2. current' = [d \in DocumentIds |->
                    IF Numbers(VersionsIn(S, d)) = {} THEN current[d]
                    ELSE Highest(Numbers(VersionsIn(S, d)))]
  BY DEF Commit, Numbers, VersionsIn, Table, Stamp, New
<1>3. \A d : VersionsIn(S, d) = V(p, d)
  BY <1>1, StampedVersions
<1>4. \A d : VersionsIn(db', d) = VersionsIn(db, d) \cup V(p, d)
  <2>1. \A d : VersionsIn(db \cup S, d) = VersionsIn(db, d) \cup VersionsIn(S, d)
    BY DEF VersionsIn, Table
  <2> QED
    BY <1>1, <1>3, <2>1
<1> HIDE DEF S, V
<1>5. ASSUME NEW d \in DocumentIds
      PROVE  /\ current'[d] \in Nat
             /\ Counted(VersionsIn(db', d), 0, current'[d])
             /\ V(p, d) = {} => current'[d] = current[d]
  <2>1. PICK m \in Nat : current[d] <= m /\ Counted(V(p, d), current[d], m)
    BY DEF CountInv, CountedIn, V
  <2>2. current[d] \in Nat /\ Counted(VersionsIn(db, d), 0, current[d])
    BY DEF CountInv
  <2>3. Counted(VersionsIn(db', d), 0, m)
    BY <1>4, <2>1, <2>2, JoinedCounted
  <2>4. Numbers(V(p, d)) = (current[d] + 1) .. m
    BY <2>1 DEF Counted
  <2>5. current'[d] = IF Numbers(V(p, d)) = {} THEN current[d] ELSE Highest(Numbers(V(p, d)))
    BY <1>2, <1>3
  <2>6. current'[d] = m
    <3>1. CASE current[d] < m
      <4>1. m \in Numbers(V(p, d))
        BY <2>2, <2>4, <3>1
      <4>2. Highest((current[d] + 1) .. m) = m
        BY <2>2, <3>1, HighestIsLast
      <4> QED
        BY <2>4, <2>5, <4>1, <4>2
    <3>2. CASE current[d] = m
      <4>1. \A n \in Numbers(V(p, d)) : FALSE
        BY <2>2, <2>4, <3>2
      <4> QED
        BY <2>5, <3>2, <4>1
    <3> QED
      BY <2>1, <2>2, <3>1, <3>2
  <2>7. V(p, d) = {} => current'[d] = current[d]
    BY <2>5 DEF Numbers
  <2> QED
    BY <2>3, <2>6, <2>7
<1>6. current' \in [DocumentIds -> Nat]
  BY <1>2, <1>5
<1>7. ASSUME NEW q \in Programs \ {p} PROVE CountedIn(db', current', tx[q], writes[q])
  <2> SUFFICES ASSUME NEW d \in DocumentIds
               PROVE  /\ \E m \in Nat : current'[d] <= m /\ Counted(V(q, d), current'[d], m)
                      /\ V(q, d) # {} => <<"documents", d>> \in KeysOf(tx[q])
                      /\ \A i \in DOMAIN writes[q] :
                            /\ writes[q][i].new /\ writes[q][i].row.table = "versions"
                            /\ writes[q][i].row.document = d
                            => NextVersion(writes[q], i, db', tx[q], d)
    BY DEF CountedIn, V
  <2>1. /\ \E m \in Nat : current[d] <= m /\ Counted(V(q, d), current[d], m)
        /\ V(q, d) # {} => <<"documents", d>> \in KeysOf(tx[q])
        /\ V(p, d) # {} => <<"documents", d>> \in KeysOf(tx[p])
        /\ \A i \in DOMAIN writes[q] :
              /\ writes[q][i].new /\ writes[q][i].row.table = "versions"
              /\ writes[q][i].row.document = d
              => NextVersion(writes[q], i, db, tx[q], d)
    BY DEF CountInv, CountedIn, V
  <2>2. V(p, d) = {} \/ V(q, d) = {}
    <3>1. KeysOf(tx[p]) \cap KeysOf(tx[q]) = {}
      BY DEF CountInv
    <3> QED
      BY <2>1, <3>1
  <2>3. \E m \in Nat : current'[d] <= m /\ Counted(V(q, d), current'[d], m)
    <3>1. CASE V(p, d) = {}
      BY <1>5, <2>1, <3>1
    <3>2. CASE V(q, d) = {}
      <4>1. current'[d] \in Nat /\ current'[d] <= current'[d]
        BY <1>5
      <4>2. Counted(V(q, d), current'[d], current'[d])
        BY <3>2, <4>1, NoneCounted
      <4> QED
        BY <4>1, <4>2
    <3> QED
      BY <2>2, <3>1, <3>2
  <2>4. \A n : Follows(n, db, tx[q], d) => Follows(n, db', tx[q], d)
    <3>1. VersionsIn(db \cup New(tx[q]), d) \subseteq VersionsIn(db' \cup New(tx[q]), d)
      BY <1>1 DEF VersionsIn, Table
    <3>2. Numbers(VersionsIn(db \cup New(tx[q]), d)) \subseteq Numbers(VersionsIn(db' \cup New(tx[q]), d))
      BY <3>1 DEF Numbers
    <3> QED
      BY <3>2 DEF Follows
  <2>5. \A i : NextVersion(writes[q], i, db, tx[q], d) => NextVersion(writes[q], i, db', tx[q], d)
    BY <2>4 DEF NextVersion
  <2> QED
    BY <2>1, <2>3, <2>5
<1>8. \A q \in Programs : CountedIn(db', current', tx'[q], writes'[q])
  BY <1>1, <1>6, <1>7, RestingCounted
<1>9. ASSUME NEW q \in Programs, NEW r \in Programs, q # r
      PROVE  KeysOf(tx'[q]) \cap KeysOf(tx'[r]) = {}
  <2>1. KeysOf({}) = {}
    BY DEF KeysOf
  <2>2. KeysOf(tx'[q]) = {} \/ tx'[q] = tx[q]
    BY <1>1, <2>1
  <2>3. KeysOf(tx'[r]) = {} \/ tx'[r] = tx[r]
    BY <1>1, <2>1
  <2>4. KeysOf(tx[q]) \cap KeysOf(tx[r]) = {}
    BY <1>9 DEF CountInv
  <2> QED
    BY <2>2, <2>3, <2>4
<1> QED
  BY <1>5, <1>6, <1>8, <1>9 DEF CountInv

\* At first there are no versions.
LEMMA InitCount == Init => CountInv
<1> SUFFICES ASSUME Init PROVE CountInv
  OBVIOUS
<1>1. current \in [DocumentIds -> Nat] /\ \A d \in DocumentIds : current[d] = 0
  BY DEF Init
<1>2. \A d \in DocumentIds : Counted(VersionsIn(db, d), 0, current[d])
  <2>1. \A d : VersionsIn(db, d) = {}
    BY DEF Init, VersionsIn, Table
  <2> QED
    BY <1>1, <2>1, NoneCounted
<1>3. \A p \in Programs : tx[p] = {} /\ writes[p] = <<>>
  BY DEF Init
<1>4. \A p \in Programs : CountedIn(db, current, tx[p], writes[p])
  BY <1>1, <1>3, RestingCounted
<1>5. \A p \in Programs : KeysOf(tx[p]) = {}
  BY <1>3 DEF KeysOf
<1> QED
  BY <1>1, <1>2, <1>4, <1>5 DEF CountInv

\* Every step keeps the invariant of versions.
LEMMA CountStep ==
    ASSUME SessionInv, OverlapInv, CountInv, [Next]_vars PROVE CountInv'
<1>1. CASE UNCHANGED vars
  BY <1>1 DEF vars, CountInv
<1> QED
  BY <1>1, WriteCount, UndoCount, CommitCount, FlushCount, StepsOfPrograms

\* VersionsAreCounted, for any number of programs: whoever stores versions of a
\* document beside whom, they are numbered from 1 on without a gap or a double and
\* the current one is the last (_store_document).  The document's row, written
\* before the version, keeps the others out; a number read too early violates
\* its key.
THEOREM VersionsStayCounted == Spec => []VersionsAreCounted
<1>1. Init => SessionInv /\ OverlapInv /\ CountInv
  BY InitSession, InitOverlap, InitCount
<1>2. SessionInv /\ OverlapInv /\ CountInv /\ [Next]_vars => (SessionInv /\ OverlapInv /\ CountInv)'
  BY SessionStep, OverlapStep, CountStep
<1>3. CountInv => VersionsAreCounted
  <2> SUFFICES ASSUME CountInv, NEW d \in DocumentIds
               PROVE  LET versions == {v \in Table(db, "versions") : v.document = d}
                      IN  /\ {v.number : v \in versions} = 1 .. Cardinality(versions)
                          /\ current[d] = Cardinality(versions)
    BY DEF VersionsAreCounted
  <2>1. current[d] \in Nat /\ Counted(VersionsIn(db, d), 0, current[d])
    BY DEF CountInv
  <2>2. Cardinality(VersionsIn(db, d)) = current[d]
    BY <2>1, CountedCardinality
  <2>3. Numbers(VersionsIn(db, d)) = 1 .. current[d]
    BY <2>1 DEF Counted
  <2> QED
    BY <2>2, <2>3 DEF VersionsIn, Numbers
<1> QED
  BY <1>1, <1>2, <1>3, PTL DEF Spec

-----------------------------------------------------------------------------
(* What the bootstrap leaves behind                                        *)

\* The rows that p has made and not committed.
Made(p) == New(tx[p] \cup Elements(writes[p]))

\* The parcels that p has loaded as candidates and that nobody has classified otherwise
\* since, and those that its transaction has loaded.
Owed(p)  == {x \in ParcelIds : class[x].candidate /\ p \in class[x].by}
Loads(p) == {x \in ParcelIds : loading[p][x].loaded}

Sited(rows, x) == \E s \in Table(rows, "sites") : s.parcel = x

Scored(rows, x, p) ==
    \E s \in Table(rows, "sites") : s.parcel = x /\ Prediction(s.key, p) \in rows

\* A site of x is scored, or on the list t.
Scoring(rows, x, p, t, D) ==
    \E s \in Table(rows, "sites") :
        s.parcel = x /\ (s \in Elements(t) \/ Prediction(s.key, p) \in D)

\* Where the program of commands P is, at the n-th of them.
Placed(P, n, c, t) ==
    /\ n \in 1 .. (Len(P) + 1)
    /\ c \in Resting \cup {"items", "stored", "load", "commit", "build", "code", "score"}
    /\ c \notin Resting => n <= Len(P)
    /\ c = "done" => n = Len(P) + 1
    /\ c \in {"items", "stored", "load"} => P[n].kind = "ingest"
    /\ c = "commit" => P[n].kind \in {"sync", "ingest"}
    /\ c \in {"build", "code"} => P[n].kind = "build"
    /\ c = "score" => P[n].kind = "score"
    /\ c \in {"stored", "load", "code"} => t # <<>>
    /\ IsSequence(t)

\* A connector that the program depends on has succeeded if it went on.
Recorded(P, p, rows, n, c, f, D) ==
    /\ \A i \in 1 .. (n - 1) : P[i].kind = "ingest" /\ P[i].tolerates = "nothing"
          => Run(P[i].slug, "success", p) \in rows
    /\ c = "commit" /\ P[n].kind = "ingest"
          => Run(P[n].slug, IF f THEN "failed" ELSE "success", p) \in D

\* A parcel that the i-th command loaded has a site once sites have been built, and
\* one that is scored once they have been scored after that.
Followed(P, p, rows, n, c, t, D, x, i) ==
    /\ P[i].kind = "ingest"
    /\ \A j \in (i + 1) .. (n - 1) : P[j].kind = "build" =>
          Sited(rows, x) /\ (c = "score" => Scoring(rows, x, p, t, D))
    /\ \A j, k \in (i + 1) .. (n - 1) :
          j < k /\ P[j].kind = "build" /\ P[k].kind = "score" => Scored(rows, x, p)

Untolerant(P) == \A i \in DOMAIN P : P[i].tolerates # "anything"

\* Only a run loads parcels, and what it has loaded as a candidate is followed.
Carried(P, p, rows, n, c, t, D, O, L) ==
    /\ L # {} => P[n].kind = "ingest"
    /\ Untolerant(P) /\ c # "exited" =>
         /\ \A x \in O : \E i \in 1 .. (n - 1) : Followed(P, p, rows, n, c, t, D, x, i)
         /\ c \in {"build", "code"} => \A x \in O : x \in Elements(t) \/ Sited(rows \cup D, x)

Whole(P, p, rows, n, c, f, t, D, O, L) ==
    /\ Placed(P, n, c, t)
    /\ Recorded(P, p, rows, n, c, f, D)
    /\ Carried(P, p, rows, n, c, t, D, O, L)

WholeInv ==
    /\ plan \in Plans /\ command \in [Programs -> Nat] /\ DOMAIN failed = Programs
    /\ DOMAIN loading = Programs
    /\ IsFiniteSet(db)
    /\ \A p \in Programs :
         /\ IsFiniteSet(tx[p])
         /\ Whole(plan[p], p, db, command[p], pc[p], failed[p], todo[p], Made(p),
                  Owed(p), Loads(p))

\* Nothing written, nothing made.
LEMMA NothingMade ==
    ASSUME NEW p, tx[p] = {}, writes[p] = <<>> PROVE Made(p) = {}
BY EmptyIsSequence DEF Made, New

\* The same after a step.
LEMMA NothingMadeThen ==
    ASSUME NEW p, tx'[p] = {}, writes'[p] = <<>> PROVE Made(p)' = {}
BY EmptyIsSequence DEF Made, New

\* A sequence is its head and its tail.
LEMMA HeadOrTail ==
    ASSUME NEW s, IsSequence(s), s # <<>>
    PROVE  Elements(s) = {Head(s)} \cup Elements(Tail(s))
<1>1. /\ Len(s) \in Nat \ {0} /\ DOMAIN s = 1..Len(s)
      /\ Head(s) = s[1] /\ Head(s) \in Elements(s)
      /\ Elements(Tail(s)) \subseteq Elements(s)
      /\ DOMAIN Tail(s) = 1..(Len(s) - 1)
      /\ \A i \in 1..(Len(s) - 1) : Tail(s)[i] = s[i + 1]
  BY HeadAndTail
<1>2. ASSUME NEW i \in DOMAIN s, i # 1 PROVE s[i] \in Elements(Tail(s))
  <2>1. i - 1 \in 1..(Len(s) - 1) /\ (i - 1) + 1 = i
    BY <1>1, <1>2
  <2>2. Tail(s)[i - 1] = s[i]
    BY <1>1, <2>1
  <2> QED
    BY <1>1, <2>1, <2>2 DEF Elements
<1>3. Elements(s) \subseteq {Head(s)} \cup Elements(Tail(s))
  BY <1>1, <1>2 DEF Elements
<1> QED
  BY <1>1, <1>3

\* An order of a finite set has all of it.
LEMMA OrderIsWhole ==
    ASSUME NEW S, IsFiniteSet(S), NEW order \in SetToSeqs(S)
    PROVE  IsSequence(order) /\ Elements(order) = S
<1> DEFINE n == Cardinality(S)
           D == 1..n
<1>1. n \in Nat
  BY FS_CardinalityType
<1>2. order \in [D -> S] /\ \A i, j \in D : i # j => order[i] # order[j]
  BY DEF SetToSeqs
<1>3. IsFiniteSet(D) /\ Cardinality(D) = n
  <2>1. IsFiniteSet(1..n) /\ Cardinality(1..n) = IF 1 > n THEN 0 ELSE n - 1 + 1
    BY <1>1, FS_Interval
  <2> QED
    BY <1>1, <2>1
<1> HIDE DEF D
<1>4. order \in Injection(D, S)
  BY <1>2 DEF Injection, IsInjective
<1>5. order \in Surjection(D, S)
  BY <1>3, <1>4, FS_Injection
<1>6. Elements(order) = S
  BY <1>2, <1>5 DEF Surjection, Elements
<1>7. order \in Seq(S)
  BY <1>1, <1>2 DEF D
<1> QED
  BY <1>6, <1>7, SequenceOf

\* What a flush makes of rows that are not updates of documents.
LEMMA FlushMakes ==
    ASSUME SessionInv, NEW p \in Programs, writes[p] = <<>>, tx' = tx,
           NEW s, IsSequence(s), Flush(p, s)
    PROVE  Made(p)' = Made(p) \cup New(Elements(s))
<1>1. PICK k \in Nat :
                /\ Len(s) \in Nat /\ DOMAIN s = 1..Len(s)
                /\ DOMAIN writes'[p] = 1..(k + Len(s))
                /\ \A i \in 1..k : ~ writes'[p][i].new
                /\ \A i \in 1..Len(s) : writes'[p][k + i] = s[i]
  BY FlushShape
<1>2. ASSUME NEW i \in DOMAIN writes'[p], writes'[p][i].new PROVE writes'[p][i] \in Elements(s)
  <2>3. i \in 1..(k + Len(s)) /\ i \notin 1..k
    BY <1>1, <1>2
  <2>4. Len(s) \in Nat
    BY <1>1
  <2>1. i - k \in 1..Len(s) /\ k + (i - k) = i
    BY <2>3, <2>4
  <2>2. writes'[p][i] = s[i - k]
    BY <1>1, <2>1
  <2> QED
    BY <1>1, <2>1, <2>2 DEF Elements
<1>3. ASSUME NEW i \in DOMAIN s PROVE s[i] \in Elements(writes'[p])
  <2>1. k + i \in DOMAIN writes'[p] /\ writes'[p][k + i] = s[i]
    BY <1>1
  <2> QED
    BY <2>1 DEF Elements
<1>4. New(Elements(writes'[p])) = New(Elements(s))
  BY <1>2, <1>3 DEF New, Elements
<1>5. Elements(writes[p]) = {}
  BY EmptyIsSequence
<1>6. \A V, W : New(V \cup W) = New(V) \cup New(W)
  BY DEF New
<1>7. Made(p)' = New(tx[p]) \cup New(Elements(writes'[p]))
  BY <1>6 DEF Made
<1>8. Made(p) = New(tx[p]) \cup New({})
  BY <1>5, <1>6 DEF Made
<1>9. New({}) = {}
  BY DEF New
<1> QED
  BY <1>4, <1>7, <1>8, <1>9

\* What a flush leaves to the others.
LEMMA FlushOthers ==
    ASSUME SessionInv, NEW p \in Programs, NEW s, Flush(p, s)
    PROVE  \A q \in Programs \ {p} : writes'[q] = writes[q]
BY DEF Flush, SessionInv

\* What a program has done stays done when others commit.
LEMMA WholeGrows ==
    ASSUME NEW P, NEW p, NEW rows, NEW more, rows \subseteq more,
           NEW O, NEW O2, O2 \subseteq O, NEW L,
           NEW n, NEW c, NEW f, NEW t, NEW D, Whole(P, p, rows, n, c, f, t, D, O, L)
    PROVE  Whole(P, p, more, n, c, f, t, D, O2, L)
<1>1. Table(rows, "sites") \subseteq Table(more, "sites")
  BY DEF Table
<1>2. \A x : /\ Sited(rows, x) => Sited(more, x)
             /\ Scored(rows, x, p) => Scored(more, x, p)
             /\ Scoring(rows, x, p, t, D) => Scoring(more, x, p, t, D)
  BY <1>1 DEF Sited, Scored, Scoring
<1>3. \A x : Sited(rows \cup D, x) => Sited(more \cup D, x)
  BY DEF Sited, Table
<1>4. \A x, i : Followed(P, p, rows, n, c, t, D, x, i) => Followed(P, p, more, n, c, t, D, x, i)
  BY <1>2 DEF Followed
<1>5. Carried(P, p, more, n, c, t, D, O2, L)
  BY <1>3, <1>4 DEF Whole, Carried
<1>6. Recorded(P, p, more, n, c, f, D)
  BY DEF Whole, Recorded
<1> QED
  BY <1>5, <1>6 DEF Whole

\* A step of one program, after which the others are owed no more than before.
LEMMA OneStepWhole ==
    ASSUME SessionInv, WholeInv, NEW p \in Programs,
           plan' = plan, command' \in [Programs -> Nat], DOMAIN failed' = Programs,
           DOMAIN loading' = Programs,
           db \subseteq db', IsFiniteSet(db'), IsFiniteSet(tx'[p]),
           \A q \in Programs \ {p} :
              /\ command'[q] = command[q] /\ pc'[q] = pc[q] /\ failed'[q] = failed[q]
              /\ todo'[q] = todo[q] /\ tx'[q] = tx[q] /\ writes'[q] = writes[q]
              /\ loading'[q] = loading[q] /\ Owed(q)' \subseteq Owed(q),
           Whole(plan[p], p, db', command'[p], pc'[p], failed'[p], todo'[p], Made(p)',
                 Owed(p)', Loads(p)')
    PROVE  WholeInv'
<1>1. ASSUME NEW q \in Programs \ {p}
      PROVE  /\ IsFiniteSet(tx'[q])
             /\ Whole(plan'[q], q, db', command'[q], pc'[q], failed'[q], todo'[q], Made(q)',
                      Owed(q)', Loads(q)')
  <2>1. Made(q)' = Made(q) /\ Loads(q)' = Loads(q)
    BY DEF Made, Loads
  <2>2. Whole(plan[q], q, db, command[q], pc[q], failed[q], todo[q], Made(q), Owed(q), Loads(q))
    BY DEF WholeInv
  <2>3. Whole(plan[q], q, db', command[q], pc[q], failed[q], todo[q], Made(q), Owed(q)', Loads(q))
    BY <2>2, WholeGrows
  <2>4. IsFiniteSet(tx'[q])
    BY DEF WholeInv
  <2> QED
    BY <2>1, <2>3, <2>4
<1>2. plan' \in Plans
  BY DEF WholeInv
<1> QED
  BY <1>1, <1>2 DEF WholeInv

\* Steps that neither build nor score keep what is carried.
LEMMA CarriedOn ==
    ASSUME NEW P, NEW p, NEW rows, NEW n, NEW c, NEW t, NEW D, NEW O, NEW L,
           Carried(P, p, rows, n, c, t, D, O, L), c # "exited",
           NEW c2, c2 \notin {"build", "code", "score"}, NEW t2, NEW D2,
           NEW L2, L2 = L \/ L2 = {} \/ P[n].kind = "ingest"
    PROVE  Carried(P, p, rows, n, c2, t2, D2, O, L2)
<1>1. \A x, i : Followed(P, p, rows, n, c, t, D, x, i) => Followed(P, p, rows, n, c2, t2, D2, x, i)
  BY DEF Followed
<1> QED
  BY <1>1 DEF Carried

\* What such a step keeps, when it commits nothing.
LEMMA QuietStep ==
    ASSUME SessionInv, WholeInv, NEW p \in Programs, UNCHANGED <<plan, db, class, tx, command>>,
           DOMAIN failed' = Programs, DOMAIN pc' = Programs, DOMAIN todo' = Programs,
           DOMAIN loading' = Programs,
           \A q \in Programs \ {p} :
              /\ pc'[q] = pc[q] /\ failed'[q] = failed[q] /\ todo'[q] = todo[q]
              /\ writes'[q] = writes[q] /\ loading'[q] = loading[q],
           loading'[p] = loading[p] \/ Now(p).kind = "ingest",
           pc[p] # "exited", pc'[p] \notin {"build", "code", "score"},
           Placed(plan[p], command[p], pc'[p], todo'[p]),
           Recorded(plan[p], p, db, command[p], pc'[p], failed'[p], Made(p)')
    PROVE  WholeInv'
<1>1. Carried(plan[p], p, db, command[p], pc[p], todo[p], Made(p), Owed(p), Loads(p))
  BY DEF WholeInv, Whole
<1>2. Loads(p)' = Loads(p) \/ plan[p][command[p]].kind = "ingest"
  BY DEF Loads, Now
<1>3. Owed(p)' = Owed(p) /\ \A q \in Programs \ {p} : Owed(q)' = Owed(q)
  BY DEF Owed
<1> DEFINE D == Made(p)
           D2 == Made(p)'
           O == Owed(p)
           L == Loads(p)
           L2 == Loads(p)'
<1> HIDE DEF D, D2, O, L, L2
<1>4. Carried(plan[p], p, db, command[p], pc'[p], todo'[p], D2, O, L2)
  <2>1. Carried(plan[p], p, db, command[p], pc[p], todo[p], D, O, L)
    BY <1>1 DEF D, O, L
  <2>2. L2 = L \/ plan[p][command[p]].kind = "ingest"
    BY <1>2 DEF L, L2
  <2> QED
    BY <2>1, <2>2, CarriedOn
<1>5. Whole(plan[p], p, db, command[p], pc'[p], failed'[p], todo'[p], Made(p)', Owed(p)', Loads(p)')
  BY <1>3, <1>4 DEF Whole, D2, O, L2
<1>6. IsFiniteSet(db) /\ IsFiniteSet(tx[p]) /\ command \in [Programs -> Nat]
  BY DEF WholeInv
<1>7. \A q \in Programs \ {p} :
         tx'[q] = tx[q] /\ command'[q] = command[q] /\ Owed(q)' \subseteq Owed(q)
  BY <1>3
<1> QED
  BY <1>5, <1>6, <1>7, OneStepWhole

\* What the invariant says of one program.
LEMMA WholeOf ==
    ASSUME WholeInv, NEW p \in Programs
    PROVE  /\ plan[p] \in Seq(Command) /\ Len(plan[p]) \in Nat /\ DOMAIN plan[p] = 1 .. Len(plan[p])
           /\ command[p] \in Nat
           /\ Placed(plan[p], command[p], pc[p], todo[p])
           /\ Recorded(plan[p], p, db, command[p], pc[p], failed[p], Made(p))
           /\ Carried(plan[p], p, db, command[p], pc[p], todo[p], Made(p), Owed(p), Loads(p))
<1>1. plan[p] \in Seq(Command)
  BY WorkerAssumption DEF WholeInv
<1> QED
  BY <1>1 DEF WholeInv, Whole

\* What succeeded stays recorded.
LEMMA RecordedOn ==
    ASSUME NEW P, NEW p, NEW rows, NEW n, NEW c, NEW f, NEW D, Recorded(P, p, rows, n, c, f, D),
           NEW c2, c2 # "commit", NEW f2, NEW D2
    PROVE  Recorded(P, p, rows, n, c2, f2, D2)
BY DEF Recorded

\* sync_registry neither loads nor records.
LEMMA SyncWhole ==
    ASSUME SessionInv, WholeInv, NEW p \in Programs, SyncRegistry(p) PROVE WholeInv'
<1>1. /\ pc[p] = "ready" /\ Now(p).kind = "sync" /\ command[p] <= Len(plan[p])
      /\ pc'[p] = "commit" /\ todo' = todo /\ failed' = failed
      /\ UNCHANGED <<plan, db, class, tx, command, loading>>
      /\ DOMAIN pc' = Programs /\ \A q \in Programs \ {p} : pc'[q] = pc[q]
  BY DEF SyncRegistry, Begins, Due, Goto, SessionInv, Resting
<1>2. Placed(plan[p], command[p], pc'[p], todo'[p])
  BY <1>1, WholeOf DEF Placed, Now, Resting, Over
<1>3. Recorded(plan[p], p, db, command[p], pc'[p], failed'[p], Made(p)')
  <2> DEFINE D2 == Made(p)'
  <2> HIDE DEF D2
  <2>1. Recorded(plan[p], p, db, command[p], pc'[p], failed'[p], D2)
    BY <1>1, WholeOf DEF Recorded, Now
  <2> QED
    BY <2>1 DEF D2
<1>4. DOMAIN todo' = Programs /\ DOMAIN failed' = Programs /\ DOMAIN loading' = Programs
  BY <1>1 DEF SessionInv, WholeInv
<1>5. \A q \in Programs \ {p} : writes'[q] = writes[q]
  BY SyncGives, FlushOthers
<1> QED
  BY <1>1, <1>2, <1>3, <1>4, <1>5, QuietStep

\* A run starts on its list of items.
LEMMA StartRunWhole ==
    ASSUME SessionInv, WholeInv, NEW p \in Programs, StartRun(p) PROVE WholeInv'
<1>1. /\ pc[p] = "ready" /\ Now(p).kind = "ingest" /\ command[p] <= Len(plan[p])
      /\ pc'[p] = "items" /\ failed' = failed
      /\ UNCHANGED <<plan, db, class, tx, command, loading>>
      /\ DOMAIN pc' = Programs /\ \A q \in Programs \ {p} : pc'[q] = pc[q]
      /\ DOMAIN todo' = Programs /\ \A q \in Programs \ {p} : todo'[q] = todo[q]
  BY DEF StartRun, Begins, Due, Goto, SessionInv, Resting
<1>2. IsSequence(todo'[p])
  <2>1. PICK items \in Discovered[Now(p).slug] : todo' = [todo EXCEPT ![p] = items]
    BY DEF StartRun
  <2>2. Now(p) \in Command
    BY <1>1, WholeOf DEF Now, Placed
  <2>3. items \in Seq(Item)
    BY <2>2, WorkerAssumption DEF Command
  <2>4. todo'[p] = items
    BY <2>1 DEF SessionInv
  <2> QED
    BY <2>3, <2>4, SequenceOf
<1>3. Placed(plan[p], command[p], pc'[p], todo'[p])
  BY <1>1, <1>2, WholeOf DEF Placed, Now, Resting, Over
<1>4. Recorded(plan[p], p, db, command[p], pc'[p], failed'[p], Made(p)')
  BY <1>1, WholeOf, RecordedOn
<1>5. DOMAIN failed' = Programs /\ DOMAIN loading' = Programs
  BY <1>1 DEF WholeInv
<1>6. \A q \in Programs \ {p} : writes'[q] = writes[q]
  BY FlushOthers DEF StartRun
<1> QED
  BY <1>1, <1>3, <1>4, <1>5, <1>6, QuietStep

\* Inside a run the program stays at its command.
LEMMA PlacedInRun ==
    ASSUME NEW P, NEW n, NEW c, NEW t, Placed(P, n, c, t), c \in {"items", "stored", "load"},
           NEW c2 \in {"items", "stored", "load", "commit"}, NEW t2, IsSequence(t2),
           c2 \in {"stored", "load"} => t2 # <<>>
    PROVE  Placed(P, n, c2, t2)
BY DEF Placed, Resting, Over

\* Looking up a document, keeping or adding a version, noting a signature.
LEMMA StoringWhole ==
    ASSUME SessionInv, WholeInv, NEW p \in Programs,
           FindDocument(p) \/ KeepVersion(p) \/ AddVersion(p) \/ SignatureChanges(p)
    PROVE  WholeInv'
<1>1. /\ pc[p] \in {"items", "stored", "load"} /\ pc'[p] \in {"stored", "load"}
      /\ todo' = todo /\ failed' = failed /\ todo[p] # <<>>
      /\ UNCHANGED <<plan, db, class, tx, command, loading>>
      /\ DOMAIN pc' = Programs /\ \A q \in Programs \ {p} : pc'[q] = pc[q]
  <2>1. CASE FindDocument(p)
    BY <2>1 DEF FindDocument, Running, Goto, SessionInv
  <2>2. CASE KeepVersion(p)
    BY <2>2, WholeOf DEF KeepVersion, Running, Goto, SessionInv, Placed
  <2>3. CASE AddVersion(p)
    BY <2>3, WholeOf DEF AddVersion, Running, Goto, SessionInv, Placed
  <2>4. CASE SignatureChanges(p)
    BY <2>4, WholeOf DEF SignatureChanges, Running, SessionInv, Placed
  <2> QED
    BY <2>1, <2>2, <2>3, <2>4
<1>2. Placed(plan[p], command[p], pc'[p], todo'[p])
  <2>1. IsSequence(todo[p])
    BY WholeOf DEF Placed
  <2> QED
    BY <1>1, <2>1, WholeOf, PlacedInRun
<1>3. Recorded(plan[p], p, db, command[p], pc'[p], failed'[p], Made(p)')
  BY <1>1, WholeOf, RecordedOn
<1>4. DOMAIN todo' = Programs /\ DOMAIN failed' = Programs /\ DOMAIN loading' = Programs
  BY <1>1 DEF SessionInv, WholeInv
<1>5. \A q \in Programs \ {p} : writes'[q] = writes[q]
  <2>1. CASE FindDocument(p)
    <3>1. UNCHANGED writes \/ \E s : Flush(p, s)
      BY <2>1 DEF FindDocument, NoFlush
    <3> QED
      BY <3>1, FlushOthers
  <2>2. CASE AddVersion(p)
    BY <2>2, FlushOthers DEF AddVersion
  <2>3. CASE KeepVersion(p) \/ SignatureChanges(p)
    BY <2>3 DEF KeepVersion, SignatureChanges
  <2> QED
    BY <2>1, <2>2, <2>3
<1> QED
  BY <1>1, <1>2, <1>3, <1>4, <1>5, QuietStep

\* A loader loads parcels, in a run.
LEMMA LoadParcelWhole ==
    ASSUME SessionInv, WholeInv, NEW p \in Programs, LoadParcel(p) PROVE WholeInv'
<1>1. /\ pc[p] = "load" /\ pc'[p] = "items" /\ todo'[p] = Tail(todo[p])
      /\ failed' = failed /\ UNCHANGED <<plan, db, class, tx, command>>
      /\ DOMAIN pc' = Programs /\ \A q \in Programs \ {p} : pc'[q] = pc[q]
      /\ DOMAIN todo' = Programs /\ \A q \in Programs \ {p} : todo'[q] = todo[q]
  BY DEF LoadParcel, Running, Goto, DropThing, SessionInv
<1>2. Now(p).kind = "ingest" /\ todo[p] # <<>> /\ IsSequence(todo[p])
  BY <1>1, WholeOf DEF Placed, Now
<1>3. IsSequence(Tail(todo[p]))
  BY <1>2, HeadAndTail
<1>4. Placed(plan[p], command[p], pc'[p], todo'[p])
  BY <1>1, <1>3, WholeOf, PlacedInRun
<1>5. Recorded(plan[p], p, db, command[p], pc'[p], failed'[p], Made(p)')
  BY <1>1, WholeOf, RecordedOn
<1>6. DOMAIN failed' = Programs
  BY <1>1 DEF WholeInv
<1>7. DOMAIN loading' = Programs /\ \A q \in Programs \ {p} : loading'[q] = loading[q]
  <2>1. PICK x, made : loading' = [loading EXCEPT ![p] = [@ EXCEPT ![x] = made]]
    BY DEF LoadParcel
  <2> QED
    BY <2>1 DEF WholeInv
<1>8. \A q \in Programs \ {p} : writes'[q] = writes[q]
  BY FlushOthers DEF LoadParcel
<1> QED
  BY <1>1, <1>2, <1>4, <1>5, <1>6, <1>7, <1>8, QuietStep

\* A run that has failed says so.
LEMMA FailingWhole ==
    ASSUME SessionInv, WholeInv, NEW p \in Programs, ExecuteRaises(p) \/ PutRaises(p)
    PROVE  WholeInv'
<1>1. /\ pc[p] \in {"items", "stored", "load"} /\ pc'[p] = "items" /\ todo'[p] = <<>>
      /\ writes' = writes /\ UNCHANGED <<plan, db, class, tx, command, loading>>
      /\ DOMAIN pc' = Programs /\ DOMAIN failed' = Programs /\ DOMAIN todo' = Programs
      /\ \A q \in Programs \ {p} : pc'[q] = pc[q] /\ failed'[q] = failed[q] /\ todo'[q] = todo[q]
  <2>1. FailRun(p) /\ writes' = writes /\ UNCHANGED <<plan, db, class, tx, command, loading>>
        /\ pc[p] \in {"items", "stored", "load"}
    BY DEF ExecuteRaises, PutRaises, Running, NoFlush
  <2> QED
    BY <2>1 DEF FailRun, Goto, SessionInv, WholeInv
<1>2. Placed(plan[p], command[p], pc'[p], todo'[p])
  BY <1>1, EmptyIsSequence, WholeOf, PlacedInRun
<1>3. Recorded(plan[p], p, db, command[p], pc'[p], failed'[p], Made(p)')
  BY <1>1, WholeOf, RecordedOn
<1>4. DOMAIN loading' = Programs /\ pc[p] # "exited"
  BY <1>1 DEF WholeInv
<1> QED
  BY <1>1, <1>2, <1>3, <1>4, QuietStep

\* The run's row says how it ended.
LEMMA FinishRunWhole ==
    ASSUME SessionInv, WholeInv, NEW p \in Programs, FinishRun(p) PROVE WholeInv'
<1> DEFINE r == Run(Now(p).slug, IF failed[p] THEN "failed" ELSE "success", p)
           a == Update(Connector(Now(p).slug))
           b == Insert(r)
<1>1. Flush(p, <<a, b>>)
  BY DEF FinishRun
<1>2. b.new /\ b.row = r
  BY DEF Insert
<1> HIDE DEF a, b, r
<1>3. IsSequence(<<a, b>>) /\ Elements(<<a, b>>) = {a, b}
  BY TwoAreSequence
<1>4. /\ pc[p] = "items" /\ pc'[p] = "commit" /\ todo' = todo
      /\ failed' = failed /\ writes[p] = <<>>
      /\ UNCHANGED <<plan, db, class, tx, command, loading>>
      /\ DOMAIN pc' = Programs /\ \A q \in Programs \ {p} : pc'[q] = pc[q]
  BY DEF FinishRun, Running, Goto, SessionInv
<1>5. r \in Made(p)'
  <2>1. Made(p)' = Made(p) \cup New(Elements(<<a, b>>))
    BY <1>1, <1>3, <1>4, FlushMakes
  <2>2. r \in New({a, b})
    BY <1>2 DEF New
  <2> QED
    BY <1>3, <2>1, <2>2
<1>6. Placed(plan[p], command[p], pc'[p], todo'[p])
  <2>1. IsSequence(todo[p])
    BY WholeOf DEF Placed
  <2> QED
    BY <1>4, <2>1, WholeOf, PlacedInRun
<1>7. Recorded(plan[p], p, db, command[p], pc'[p], failed'[p], Made(p)')
  <2> DEFINE D2 == Made(p)'
  <2>1. r \in D2
    BY <1>5
  <2> HIDE DEF D2
  <2>2. Recorded(plan[p], p, db, command[p], pc'[p], failed'[p], D2)
    BY <1>4, <2>1, WholeOf DEF Recorded, Now, r
  <2> QED
    BY <2>2 DEF D2
<1>8. DOMAIN todo' = Programs /\ DOMAIN failed' = Programs /\ DOMAIN loading' = Programs
  BY <1>4 DEF SessionInv, WholeInv
<1>9. \A q \in Programs \ {p} : writes'[q] = writes[q]
  BY <1>1, FlushOthers
<1> QED
  BY <1>4, <1>6, <1>7, <1>8, <1>9, QuietStep

\* A program that has no more commands.
LEMMA DoneWhole ==
    ASSUME SessionInv, WholeInv, NEW p \in Programs, Done(p) PROVE WholeInv'
<1>1. /\ pc[p] = "ready" /\ pc'[p] = "done" /\ command[p] > Len(plan[p])
      /\ todo' = todo /\ failed' = failed /\ writes' = writes
      /\ UNCHANGED <<plan, db, class, tx, command, loading>>
      /\ DOMAIN pc' = Programs /\ \A q \in Programs \ {p} : pc'[q] = pc[q]
      /\ DOMAIN todo' = Programs /\ DOMAIN failed' = Programs /\ DOMAIN loading' = Programs
  BY DEF Done, Goto, SessionInv, WholeInv
<1>2. Placed(plan[p], command[p], pc'[p], todo'[p])
  <2>1. command[p] = Len(plan[p]) + 1
    BY <1>1, WholeOf DEF Placed
  <2> QED
    BY <1>1, <2>1, WholeOf DEF Placed, Resting, Over
<1>3. Recorded(plan[p], p, db, command[p], pc'[p], failed'[p], Made(p)')
  BY <1>1, WholeOf, RecordedOn
<1> QED
  BY <1>1, <1>2, <1>3, QuietStep

\* A step of a command that commits nothing, and stays at its place.
LEMMA StepInCommand ==
    ASSUME SessionInv, WholeInv, NEW p \in Programs,
           UNCHANGED <<plan, db, class, tx, command, failed, loading>>,
           DOMAIN pc' = Programs, DOMAIN todo' = Programs,
           \A q \in Programs \ {p} :
              pc'[q] = pc[q] /\ todo'[q] = todo[q] /\ writes'[q] = writes[q],
           pc'[p] # "commit",
           Placed(plan[p], command[p], pc'[p], todo'[p]),
           Carried(plan[p], p, db, command[p], pc'[p], todo'[p], Made(p)', Owed(p), Loads(p))
    PROVE  WholeInv'
<1>1. Recorded(plan[p], p, db, command[p], pc'[p], failed'[p], Made(p)')
  BY WholeOf, RecordedOn
<1>2. Loads(p)' = Loads(p) /\ Owed(p)' = Owed(p) /\ \A q \in Programs : Owed(q)' = Owed(q)
  BY DEF Loads, Owed
<1>3. Whole(plan[p], p, db, command[p], pc'[p], failed'[p], todo'[p], Made(p)', Owed(p)', Loads(p)')
  BY <1>1, <1>2 DEF Whole
<1>4. /\ IsFiniteSet(db) /\ IsFiniteSet(tx[p]) /\ command \in [Programs -> Nat]
      /\ DOMAIN failed = Programs /\ DOMAIN loading = Programs
  BY DEF WholeInv
<1>5. \A q \in Programs \ {p} :
         /\ tx'[q] = tx[q] /\ command'[q] = command[q] /\ failed'[q] = failed[q]
         /\ loading'[q] = loading[q] /\ Owed(q)' \subseteq Owed(q)
  BY <1>2
<1> QED
  BY <1>3, <1>4, <1>5, OneStepWhole

\* A step of a pass: a parcel that leaves the list has a site.
LEMMA BuildStep ==
    ASSUME SessionInv, WholeInv, NEW p \in Programs,
           UNCHANGED <<plan, db, class, tx, command, failed, loading>>,
           DOMAIN pc' = Programs, DOMAIN todo' = Programs,
           \A q \in Programs \ {p} :
              pc'[q] = pc[q] /\ todo'[q] = todo[q] /\ writes'[q] = writes[q],
           pc[p] \in {"build", "code"}, pc'[p] \in {"build", "code"},
           IsSequence(todo'[p]), pc'[p] = "code" => todo'[p] # <<>>,
           Made(p) \subseteq Made(p)',
           \A y \in Elements(todo[p]) :
              y \in Elements(todo'[p]) \/ \E s \in Table(db \cup Made(p)', "sites") : s.parcel = y
    PROVE  WholeInv'
<1> DEFINE P == plan[p]
           n == command[p]
           c == pc[p]
           c2 == pc'[p]
           t == todo[p]
           t2 == todo'[p]
           D == Made(p)
           D2 == Made(p)'
           O == Owed(p)
           L == Loads(p)
<1>1. Placed(P, n, c2, t2)
  BY WholeOf DEF Placed, Resting, Over
<1>2. Carried(P, p, db, n, c, t, D, O, L)
  BY WholeOf
<1>3. /\ D \subseteq D2
      /\ \A y \in Elements(t) :
            y \in Elements(t2) \/ \E s \in Table(db \cup D2, "sites") : s.parcel = y
  OBVIOUS
<1> HIDE DEF P, n, D, D2, t, t2, O, L
<1>4. \A x, i : Followed(P, p, db, n, c, t, D, x, i) => Followed(P, p, db, n, c2, t2, D2, x, i)
  BY DEF Followed
<1>5. \A x : Sited(db \cup D, x) => Sited(db \cup D2, x)
  BY <1>3 DEF Sited, Table
<1>6. \A x : x \in Elements(t) => x \in Elements(t2) \/ Sited(db \cup D2, x)
  BY <1>3 DEF Sited
<1>7. Carried(P, p, db, n, c2, t2, D2, O, L)
  BY <1>2, <1>4, <1>5, <1>6 DEF Carried
<1> QED
  BY <1>1, <1>7, StepInCommand DEF P, n, D2, t2, O, L

\* A program at rest has made nothing, and its next command is in its plan.
LEMMA ReadyToStart ==
    ASSUME SessionInv, WholeInv, NEW p \in Programs, pc[p] = "ready"
    PROVE  tx[p] = {} /\ writes[p] = <<>> /\ Made(p) = {} /\ Visible(p) = db
BY NothingMade DEF SessionInv, Resting, Visible

\* A table of a finite database.
LEMMA TableIsFinite ==
    ASSUME NEW rows, IsFiniteSet(rows), NEW name PROVE IsFiniteSet(Table(rows, name))
BY FS_Subset DEF Table

\* A pass begins with all candidates on its list.
LEMMA StartPassWhole ==
    ASSUME SessionInv, WholeInv, NEW p \in Programs, StartPass(p) PROVE WholeInv'
<1>1. /\ pc[p] = "ready" /\ pc'[p] = "build" /\ Now(p).kind = "build" /\ command[p] <= Len(plan[p])
      /\ UNCHANGED <<plan, db, class, tx, command, failed, loading, writes>>
      /\ DOMAIN pc' = Programs /\ \A q \in Programs \ {p} : pc'[q] = pc[q]
      /\ DOMAIN todo' = Programs /\ \A q \in Programs \ {p} : todo'[q] = todo[q]
  BY DEF StartPass, Begins, Due, Goto, NoFlush, SessionInv
<1>2. Made(p) = {} /\ Visible(p) = db /\ Made(p)' = {}
  <2>1. tx[p] = {} /\ writes[p] = <<>> /\ Made(p) = {} /\ Visible(p) = db
    BY <1>1, ReadyToStart
  <2> QED
    BY <1>1, <2>1, NothingMadeThen
<1>3. PICK order \in SetToSeqs({x \in ParcelIds : class[x].candidate}) : todo'[p] = order
  BY DEF StartPass, SessionInv
<1>4. IsSequence(todo'[p]) /\ Elements(todo'[p]) = {x \in ParcelIds : class[x].candidate}
  <2>1. IsFiniteSet({x \in ParcelIds : class[x].candidate})
    BY WorkerAssumption, FS_Subset
  <2> QED
    BY <1>3, <2>1, OrderIsWhole
<1>5. Placed(plan[p], command[p], pc'[p], todo'[p])
  BY <1>1, <1>4, WholeOf DEF Placed, Now, Resting, Over
<1>6. Carried(plan[p], p, db, command[p], pc'[p], todo'[p], {}, Owed(p), Loads(p))
  <2>1. Carried(plan[p], p, db, command[p], pc[p], todo[p], {}, Owed(p), Loads(p))
    BY <1>2, WholeOf
  <2>2. \A x, i : Followed(plan[p], p, db, command[p], pc[p], todo[p], {}, x, i)
                     => Followed(plan[p], p, db, command[p], pc'[p], todo'[p], {}, x, i)
    BY <1>1 DEF Followed
  <2>3. \A x \in Owed(p) : x \in Elements(todo'[p])
    BY <1>4 DEF Owed
  <2> QED
    BY <1>1, <2>1, <2>2, <2>3 DEF Carried
<1>7. \A q \in Programs \ {p} : writes'[q] = writes[q]
  BY <1>1
<1> QED
  BY <1>1, <1>2, <1>5, <1>6, <1>7, StepInCommand

\* A parcel is found to need a site.
LEMMA NeedSiteWhole ==
    ASSUME SessionInv, WholeInv, NEW p \in Programs, NeedSite(p) PROVE WholeInv'
<1>1. /\ pc[p] = "build" /\ pc'[p] = "code" /\ todo[p] # <<>>
      /\ UNCHANGED <<plan, db, class, tx, command, failed, loading, writes, todo>>
      /\ DOMAIN pc' = Programs /\ \A q \in Programs \ {p} : pc'[q] = pc[q]
      /\ DOMAIN todo' = Programs
  BY DEF NeedSite, Running, Goto, NoFlush, SessionInv
<1>2. Made(p)' = Made(p)
  BY <1>1 DEF Made
<1>3. IsSequence(todo'[p])
  BY <1>1, WholeOf DEF Placed
<1> QED
  BY <1>1, <1>2, <1>3, BuildStep

\* What one write makes.
LEMMA OneMakes ==
    ASSUME NEW r PROVE New({Insert(r)}) = {r} /\ New({Update(r)}) = {}
<1>1. Insert(r).new /\ Insert(r).row = r /\ ~ Update(r).new
  BY DEF Insert, Update
<1> QED
  BY <1>1 DEF New

\* A parcel whose site is found leaves the list.
LEMMA FindSiteWhole ==
    ASSUME SessionInv, WholeInv, NEW p \in Programs, FindSite(p) PROVE WholeInv'
<1>1. /\ pc[p] = "build" /\ pc' = pc /\ todo[p] # <<>> /\ writes[p] = <<>>
      /\ UNCHANGED <<plan, db, class, tx, command, failed, loading>>
      /\ DOMAIN pc' = Programs /\ todo'[p] = Tail(todo[p])
      /\ DOMAIN todo' = Programs /\ \A q \in Programs \ {p} : todo'[q] = todo[q]
  BY DEF FindSite, Running, DropThing, SessionInv
<1>2. PICK r \in SitesOf(p, Thing(p)) : Flush(p, <<Update(r)>>)
  BY DEF FindSite
<1> DEFINE s == <<Update(r)>>
           N == New(Elements(s))
<1>3. IsSequence(s) /\ Elements(s) = {Update(r)}
  BY OneIsSequence
<1>5. Made(p)' = Made(p) \cup N /\ \A q \in Programs \ {p} : writes'[q] = writes[q]
  BY <1>1, <1>2, <1>3, FlushMakes, FlushShape
<1> HIDE DEF N, s
<1>6. IsSequence(todo[p])
  BY WholeOf DEF Placed
<1>7. IsSequence(todo'[p]) /\ Elements(todo[p]) = {Thing(p)} \cup Elements(todo'[p])
  BY <1>1, <1>6, HeadAndTail, HeadOrTail DEF Thing
<1>8. \E w \in Table(db \cup Made(p)', "sites") : w.parcel = Thing(p)
  <2>1. r \in Table(db \cup New(tx[p]), "sites") /\ r.parcel = Thing(p)
    BY <1>2 DEF SitesOf, Found, Visible, New
  <2>2. New(tx[p]) \subseteq Made(p)
    BY DEF Made, New
  <2>3. r \in Table(db \cup Made(p)', "sites")
    BY <1>5, <2>1, <2>2 DEF Table
  <2> QED
    BY <2>1, <2>3
<1>9. \A y \in Elements(todo[p]) :
         y \in Elements(todo'[p]) \/ \E w \in Table(db \cup Made(p)', "sites") : w.parcel = y
  BY <1>7, <1>8
<1> QED
  BY <1>1, <1>5, <1>7, <1>9, BuildStep

\* A parcel for which a site is made leaves the list.
LEMMA MintSiteWhole ==
    ASSUME SessionInv, WholeInv, NEW p \in Programs, MintSite(p) PROVE WholeInv'
<1>1. /\ pc[p] = "code" /\ pc'[p] = "build" /\ writes[p] = <<>>
      /\ UNCHANGED <<plan, db, class, tx, command, failed, loading>>
      /\ DOMAIN pc' = Programs /\ \A q \in Programs \ {p} : pc'[q] = pc[q]
      /\ todo'[p] = Tail(todo[p])
      /\ DOMAIN todo' = Programs /\ \A q \in Programs \ {p} : todo'[q] = todo[q]
  BY DEF MintSite, Running, Goto, DropThing, SessionInv
<1> DEFINE r == Site(Highest({s.key : s \in Found(p, "sites")}) + 1, Thing(p), p)
           s == <<Insert(r)>>
           N == New(Elements(s))
<1>2. Flush(p, s)
  BY DEF MintSite
<1>3. IsSequence(s) /\ Elements(s) = {Insert(r)}
  BY OneIsSequence
<1>4. r.table = "sites" /\ r.parcel = Thing(p)
  BY DEF Site
<1> HIDE DEF r
<1>5. N = {r}
  BY <1>3, OneMakes
<1>6. Made(p)' = Made(p) \cup N /\ \A q \in Programs \ {p} : writes'[q] = writes[q]
  BY <1>1, <1>2, <1>3, FlushMakes, FlushShape
<1> HIDE DEF N, s
<1>7. IsSequence(todo[p]) /\ todo[p] # <<>>
  BY <1>1, WholeOf DEF Placed
<1>8. IsSequence(todo'[p]) /\ Elements(todo[p]) = {Thing(p)} \cup Elements(todo'[p])
  BY <1>1, <1>7, HeadAndTail, HeadOrTail DEF Thing
<1>9. r \in Table(db \cup Made(p)', "sites")
  BY <1>4, <1>5, <1>6 DEF Table
<1>10. \A y \in Elements(todo[p]) :
         y \in Elements(todo'[p]) \/ \E w \in Table(db \cup Made(p)', "sites") : w.parcel = y
  BY <1>4, <1>8, <1>9
<1> QED
  BY <1>1, <1>6, <1>8, <1>10, BuildStep

\* Scoring begins with all sites on its list.
LEMMA StartScoringWhole ==
    ASSUME SessionInv, WholeInv, NEW p \in Programs, StartScoring(p) PROVE WholeInv'
<1>1. /\ pc[p] = "ready" /\ pc'[p] = "score" /\ Now(p).kind = "score" /\ command[p] <= Len(plan[p])
      /\ UNCHANGED <<plan, db, class, tx, command, failed, loading, writes>>
      /\ DOMAIN pc' = Programs /\ \A q \in Programs \ {p} : pc'[q] = pc[q]
      /\ DOMAIN todo' = Programs /\ \A q \in Programs \ {p} : todo'[q] = todo[q]
  BY DEF StartScoring, Begins, Due, Goto, NoFlush, SessionInv
<1>2. Made(p) = {} /\ Visible(p) = db /\ Made(p)' = {}
  <2>1. tx[p] = {} /\ writes[p] = <<>> /\ Made(p) = {} /\ Visible(p) = db
    BY <1>1, ReadyToStart
  <2> QED
    BY <1>1, <2>1, NothingMadeThen
<1>3. PICK order \in SetToSeqs(Found(p, "sites")) : todo'[p] = order
  BY DEF StartScoring, SessionInv
<1>4. IsSequence(todo'[p]) /\ Elements(todo'[p]) = Table(db, "sites")
  <2>1. Found(p, "sites") = Table(db, "sites")
    BY <1>2 DEF Found
  <2>2. IsFiniteSet(db)
    BY DEF WholeInv
  <2>3. IsFiniteSet(Table(db, "sites"))
    BY <2>2, TableIsFinite
  <2> QED
    BY <1>3, <2>1, <2>3, OrderIsWhole
<1>5. Placed(plan[p], command[p], pc'[p], todo'[p])
  BY <1>1, <1>4, WholeOf DEF Placed, Now, Resting, Over
<1>6. Carried(plan[p], p, db, command[p], pc'[p], todo'[p], {}, Owed(p), Loads(p))
  <2>1. Carried(plan[p], p, db, command[p], pc[p], todo[p], {}, Owed(p), Loads(p))
    BY <1>2, WholeOf
  <2>2. \A x : Sited(db, x) => Scoring(db, x, p, todo'[p], {})
    BY <1>4 DEF Sited, Scoring
  <2>3. \A x, i : Followed(plan[p], p, db, command[p], pc[p], todo[p], {}, x, i)
                     => Followed(plan[p], p, db, command[p], pc'[p], todo'[p], {}, x, i)
    BY <2>2 DEF Followed
  <2> QED
    BY <1>1, <2>1, <2>3 DEF Carried
<1>7. \A q \in Programs \ {p} : writes'[q] = writes[q]
  BY <1>1
<1> QED
  BY <1>1, <1>2, <1>5, <1>6, <1>7, StepInCommand

\* A site that leaves the list is scored.
LEMMA ScoreSiteWhole ==
    ASSUME SessionInv, WholeInv, NEW p \in Programs, ScoreSite(p) PROVE WholeInv'
<1>1. /\ pc[p] = "score" /\ pc' = pc /\ todo[p] # <<>> /\ writes[p] = <<>>
      /\ UNCHANGED <<plan, db, class, tx, command, failed, loading>>
      /\ DOMAIN pc' = Programs /\ todo'[p] = Tail(todo[p])
      /\ DOMAIN todo' = Programs /\ \A q \in Programs \ {p} : todo'[q] = todo[q]
  BY DEF ScoreSite, Running, DropThing, SessionInv
<1> DEFINE r == Prediction(Thing(p).key, p)
           a == Update(Thing(p))
           b == Insert(r)
           s == <<a, b>>
<1>2. Flush(p, s)
  BY DEF ScoreSite
<1>3. ~ a.new /\ b.new /\ b.row = r
  BY DEF Update, Insert
<1> HIDE DEF a, b, r
<1>4. IsSequence(s) /\ Elements(s) = {a, b}
  BY TwoAreSequence
<1>5. Made(p)' = Made(p) \cup New({a, b}) /\ \A q \in Programs \ {p} : writes'[q] = writes[q]
  BY <1>1, <1>2, <1>4, FlushMakes, FlushShape
<1>6. New({a, b}) = {r}
  BY <1>3 DEF New
<1>7. IsSequence(todo[p])
  BY WholeOf DEF Placed
<1> DEFINE t == todo[p]
           t2 == todo'[p]
           D == Made(p)
           D2 == Made(p)'
<1>8. IsSequence(t2) /\ Elements(t) = {Thing(p)} \cup Elements(t2)
  BY <1>1, <1>7, HeadAndTail, HeadOrTail DEF Thing
<1>9. D2 = D \cup {r}
  BY <1>5, <1>6
<1> DEFINE O == Owed(p)
           L == Loads(p)
<1>10. Carried(plan[p], p, db, command[p], pc[p], t, D, O, L)
  BY WholeOf
<1>11. Placed(plan[p], command[p], pc'[p], todo'[p])
  BY <1>1, <1>8, WholeOf DEF Placed
<1> HIDE DEF s, t, t2, D, D2, O, L
<1>12. \A x : Scoring(db, x, p, t, D) => Scoring(db, x, p, t2, D2)
  BY <1>8, <1>9 DEF Scoring, r
<1>13. \A x, i : Followed(plan[p], p, db, command[p], pc[p], t, D, x, i)
                   => Followed(plan[p], p, db, command[p], pc[p], t2, D2, x, i)
  BY <1>12 DEF Followed
<1>14. Carried(plan[p], p, db, command[p], pc'[p], t2, D2, O, L)
  BY <1>1, <1>10, <1>13 DEF Carried
<1> QED
  BY <1>1, <1>5, <1>11, <1>14, StepInCommand DEF t2, D2, O, L

\* A write makes what it was to make.
LEMMA WriteWhole ==
    ASSUME SessionInv, WholeInv, NEW p \in Programs, Write(p) PROVE WholeInv'
<1>1. /\ writes[p] # <<>> /\ IsSequence(writes[p])
      /\ tx'[p] = tx[p] \cup {Head(writes[p])} /\ writes'[p] = Tail(writes[p])
      /\ \A q \in Programs \ {p} : tx'[q] = tx[q] /\ writes'[q] = writes[q]
      /\ UNCHANGED <<plan, db, class, pc, command, failed, todo, loading>>
  BY DEF SessionInv, Write
<1>2. Elements(writes[p]) = {Head(writes[p])} \cup Elements(Tail(writes[p]))
  BY <1>1, HeadOrTail
<1>3. tx'[p] \cup Elements(writes'[p]) = tx[p] \cup Elements(writes[p])
  BY <1>1, <1>2
<1>4. Made(p)' = Made(p)
  BY <1>3 DEF Made
<1>5. IsFiniteSet(tx'[p])
  <2>1. IsFiniteSet(tx[p])
    BY DEF WholeInv
  <2>2. IsFiniteSet(tx[p] \cup {Head(writes[p])})
    BY <2>1, FS_AddElement
  <2> QED
    BY <1>1, <2>2
<1>6. Loads(p)' = Loads(p) /\ \A q \in Programs : Owed(q)' = Owed(q)
  BY <1>1 DEF Loads, Owed
<1>7. Whole(plan[p], p, db, command[p], pc[p], failed[p], todo[p], Made(p), Owed(p), Loads(p))
  BY DEF WholeInv
<1>8. Whole(plan[p], p, db', command'[p], pc'[p], failed'[p], todo'[p], Made(p)', Owed(p)', Loads(p)')
  BY <1>1, <1>4, <1>6, <1>7
<1>9. /\ command \in [Programs -> Nat] /\ DOMAIN failed = Programs /\ DOMAIN loading = Programs
      /\ IsFiniteSet(db)
  BY DEF WholeInv
<1> QED
  BY <1>1, <1>5, <1>6, <1>8, <1>9, OneStepWhole

\* What leaving a command changes.
LEMMA LeaveChanges ==
    ASSUME SessionInv, WholeInv, NEW p \in Programs, NEW next \in Nat, NEW step,
           Leave(p, next, step), RolledBack(p)
    PROVE  /\ pc'[p] = step /\ command'[p] = next /\ failed'[p] = FALSE /\ todo'[p] = <<>>
           /\ writes'[p] = <<>> /\ tx'[p] = {} /\ Loads(p)' = {}
           /\ command' \in [Programs -> Nat] /\ DOMAIN failed' = Programs
           /\ DOMAIN loading' = Programs
           /\ \A q \in Programs \ {p} :
                /\ command'[q] = command[q] /\ pc'[q] = pc[q] /\ failed'[q] = failed[q]
                /\ todo'[q] = todo[q] /\ tx'[q] = tx[q] /\ writes'[q] = writes[q]
                /\ loading'[q] = loading[q]
<1>1. /\ DOMAIN loading' = Programs /\ loading'[p] = [x \in ParcelIds |-> NotLoaded]
      /\ \A q \in Programs \ {p} : loading'[q] = loading[q]
  BY DEF RolledBack, WholeInv
<1>2. Loads(p)' = {}
  BY <1>1 DEF Loads, NotLoaded
<1> QED
  BY <1>1, <1>2 DEF Leave, Goto, RolledBack, SessionInv, WholeInv

\* A command that is undone leaves what was done before.
LEMMA UndoneWhole ==
    ASSUME SessionInv, WholeInv, NEW p \in Programs, UNCHANGED <<plan, db, class>>,
           NEW step \in {"ready", "raised", "killed"}, NEW next \in Nat,
           Leave(p, next, step), RolledBack(p),
           pc[p] # "exited",
           \/ next = command[p]
           \/ /\ next = command[p] + 1 /\ Now(p).tolerates = "anything"
              /\ command[p] <= Len(plan[p])
    PROVE  WholeInv'
<1> DEFINE P == plan[p]
           n == command[p]
           D == Made(p)
           O == Owed(p)
           L == Loads(p)
<1>1. /\ pc'[p] = step /\ command'[p] = next /\ failed'[p] = FALSE /\ todo'[p] = <<>>
      /\ writes'[p] = <<>> /\ tx'[p] = {} /\ Loads(p)' = {}
      /\ command' \in [Programs -> Nat] /\ DOMAIN failed' = Programs
      /\ DOMAIN loading' = Programs
      /\ \A q \in Programs \ {p} :
           /\ command'[q] = command[q] /\ pc'[q] = pc[q] /\ failed'[q] = failed[q]
           /\ todo'[q] = todo[q] /\ tx'[q] = tx[q] /\ writes'[q] = writes[q]
           /\ loading'[q] = loading[q]
  BY LeaveChanges
<1>2. Made(p)' = {}
  BY <1>1, NothingMadeThen
<1>3. /\ n \in Nat /\ Len(P) \in Nat /\ DOMAIN P = 1 .. Len(P) /\ Placed(P, n, pc[p], todo[p])
      /\ Recorded(P, p, db, n, pc[p], failed[p], D)
      /\ Carried(P, p, db, n, pc[p], todo[p], D, O, L)
  BY WholeOf
<1>4. \/ next = n
      \/ next = n + 1 /\ n \in DOMAIN P /\ P[n].tolerates = "anything"
  BY <1>3 DEF Now, Placed
<1>5. \A q \in Programs : Owed(q)' = Owed(q)
  BY DEF Owed
<1> HIDE DEF P, n, D, O, L
<1>6. Placed(P, next, step, <<>>)
  <2>1. n \in 1 .. (Len(P) + 1) /\ next \in 1 .. (Len(P) + 1)
    BY <1>3, <1>4 DEF Placed
  <2> QED
    BY <2>1, EmptyIsSequence DEF Placed, Resting, Over
<1>7. Recorded(P, p, db, next, step, FALSE, {})
  <2>1. \A i \in 1 .. (next - 1) : i \in 1 .. (n - 1) \/ P[i].tolerates # "nothing"
    BY <1>3, <1>4
  <2> QED
    BY <1>3, <2>1 DEF Recorded
<1>8. Carried(P, p, db, next, step, <<>>, {}, O, {})
  <2>1. CASE next = n
    BY <1>3, <2>1, CarriedOn
  <2>2. CASE next # n
    BY <1>4, <2>2 DEF Carried, Untolerant
  <2> QED
    BY <2>1, <2>2
<1>9. Whole(P, p, db', command'[p], pc'[p], failed'[p], todo'[p], Made(p)', Owed(p)', Loads(p)')
  <2>1. Owed(p)' = O
    BY <1>5 DEF O
  <2> QED
    BY <1>1, <1>2, <1>6, <1>7, <1>8, <2>1 DEF Whole
<1>10. IsFiniteSet(db') /\ IsFiniteSet(tx'[p])
  BY <1>1, FS_EmptySet DEF WholeInv
<1> QED
  BY <1>1, <1>9, <1>10, <1>5, OneStepWhole DEF P

\* An exception.
LEMMA RaiseWhole ==
    ASSUME SessionInv, WholeInv, NEW p \in Programs, Raise(p),
           pc[p] # "exited", command[p] <= Len(plan[p])
    PROVE  WholeInv'
<1>1. command[p] \in Nat /\ command[p] + 1 \in Nat
  BY WholeOf
<1>2. CASE Now(p).tolerates = "anything"
  <2>1. Leave(p, command[p] + 1, "ready") /\ RolledBack(p) /\ UNCHANGED <<plan, db, class>>
    BY <1>2 DEF Raise
  <2> QED
    BY <1>1, <1>2, <2>1, UndoneWhole
<1>3. CASE Now(p).tolerates # "anything"
  <2>1. Leave(p, command[p], "raised") /\ RolledBack(p) /\ UNCHANGED <<plan, db, class>>
    BY <1>3 DEF Raise
  <2> QED
    BY <1>1, <2>1, UndoneWhole
<1> QED
  BY <1>2, <1>3

\* The steps that raise.
LEMMA RaisingWhole ==
    ASSUME SessionInv, WholeInv, NEW p \in Programs,
           WriteFails(p) \/ DeadlockDetected(p) \/ SourceIsMissing(p) \/ LoadRaises(p)
    PROVE  WholeInv'
<1>1. Raise(p)
  BY DEF WriteFails, DeadlockDetected, SourceIsMissing, LoadRaises
<1>2. pc[p] # "exited" /\ command[p] <= Len(plan[p])
  <2>1. CASE writes[p] # <<>>
    <3>1. pc[p] \notin Resting
      BY <2>1 DEF SessionInv
    <3> QED
      BY <3>1, WholeOf DEF Placed, Resting, Over
  <2>2. CASE SourceIsMissing(p)
    BY <2>2 DEF SourceIsMissing, Due
  <2>3. CASE LoadRaises(p)
    BY <2>3, WholeOf DEF LoadRaises, Running, Placed, Resting, Over
  <2> QED
    BY <2>1, <2>2, <2>3 DEF WriteFails, DeadlockDetected
<1> QED
  BY <1>1, <1>2, RaiseWhole

\* A kill.
LEMMA KillWhole ==
    ASSUME SessionInv, WholeInv, NEW p \in Programs, Kill(p) PROVE WholeInv'
<1>1. /\ Leave(p, command[p], "killed") /\ RolledBack(p) /\ UNCHANGED <<plan, db, class>>
      /\ pc[p] # "exited" /\ command[p] \in Nat
  BY WholeOf DEF Kill, Over
<1> QED
  BY <1>1, UndoneWhole

\* What a commit adds to the database, as far as sites, runs and predictions go.
LEMMA CommitAdds ==
    ASSUME SessionInv, OverlapInv, WholeInv, NEW p \in Programs, Commit(p)
    PROVE  \E S : /\ db' = db \cup S /\ IsFiniteSet(S)
                  /\ \A r \in Made(p) : r.table \notin {"organizations", "sites"} => r \in S
                  /\ \A s \in Table(Made(p), "sites") :
                        \E u \in Table(S, "sites") : u.parcel = s.parcel
<1> DEFINE D == New(tx[p])
           n == commits + 1
           S == {Stamp(r, n) : r \in D}
<1>1. db' = db \cup S /\ writes[p] = <<>>
  BY CommitStamps
<1>2. Made(p) = D
  <2>1. tx[p] \cup Elements(writes[p]) = tx[p]
    BY <1>1, EmptyIsSequence
  <2> QED
    BY <2>1 DEF Made
<1>3. IsFiniteSet(S)
  <2> DEFINE W == {w \in tx[p] : w.new}
             f == [w \in W |-> w.row]
             g == [r \in D |-> Stamp(r, n)]
  <2>1. IsFiniteSet(tx[p])
    BY DEF WholeInv
  <2>2. IsFiniteSet(W)
    BY <2>1, FS_Subset
  <2>3. f \in Surjection(W, D)
    BY DEF Surjection, New
  <2>4. g \in Surjection(D, S)
    BY DEF Surjection
  <2> HIDE DEF D, S, W, f, g
  <2>5. IsFiniteSet(D)
    BY <2>2, <2>3, FS_Surjection
  <2> QED
    BY <2>4, <2>5, FS_Surjection
<1>4. \A r \in Dated(D) : Ours(r, p, began[p])
  BY <1>2 DEF OverlapInv, Distinct, Made
<1> HIDE DEF D, n
<1>5. \A r \in D : r.table \notin {"organizations", "sites"} => Stamp(r, n) = r
  BY DEF Stamp
<1>6. ASSUME NEW r \in D, r.table \in {"organizations", "sites"}
      PROVE  Stamp(r, n).table = r.table /\ (r.table = "sites" => Stamp(r, n).parcel = r.parcel)
  <2>1. Ours(r, p, began[p])
    BY <1>4, <1>6 DEF Dated, Table
  <2> QED
    BY <1>6, <2>1 DEF Ours, OrganizationOf, SiteOf, Stamp
<1>7. \A r \in D : r.table \notin {"organizations", "sites"} => r \in S
  BY <1>5
<1>8. \A s \in Table(D, "sites") : \E u \in Table(S, "sites") : u.parcel = s.parcel
  BY <1>6 DEF Table
<1> QED
  BY <1>1, <1>2, <1>3, <1>7, <1>8

\* What a commit makes of the classes: it can owe its own program what it has loaded,
\* and the others nothing new.
LEMMA CommitOwes ==
    ASSUME NEW p \in Programs, Commit(p)
    PROVE  /\ Owed(p)' \subseteq Owed(p) \cup Loads(p)
           /\ \A q \in Programs \ {p} : Owed(q)' \subseteq Owed(q)
<1> DEFINE classed(x) == IF loading[p][x].changed THEN loading[p][x].candidate ELSE class[x].candidate
           loaders(x) == {q \in {p} : loading[p][x].loaded /\ loading[p][x].candidate = classed(x)}
<1>1. class' = [x \in ParcelIds |->
                   [candidate |-> classed(x),
                    by |-> loaders(x) \cup
                           IF classed(x) = class[x].candidate THEN class[x].by ELSE {}]]
  BY DEF Commit
<1>2. ASSUME NEW q, NEW x \in Owed(q)' PROVE (q = p /\ x \in Loads(p)) \/ x \in Owed(q)
  <2>1. x \in ParcelIds /\ class'[x].candidate /\ q \in class'[x].by
    BY <1>2 DEF Owed
  <2>2. /\ class'[x].candidate = classed(x)
        /\ class'[x].by = loaders(x) \cup
                          IF classed(x) = class[x].candidate THEN class[x].by ELSE {}
    BY <1>1, <2>1
  <2>3. CASE q \in loaders(x)
    BY <2>1, <2>3 DEF Loads
  <2> HIDE DEF classed, loaders
  <2>4. CASE q \notin loaders(x)
    BY <2>1, <2>2, <2>4 DEF Owed
  <2> QED
    BY <2>3, <2>4
<1> QED
  BY <1>2

\* A parcel that an earlier command has loaded, after the n-th is committed.
LEMMA FollowedOn ==
    ASSUME NEW P, NEW p, NEW rows, NEW S, NEW n \in Nat, NEW c, NEW D, NEW x, NEW i \in 1 .. (n - 1),
           Followed(P, p, rows, n, c, <<>>, D, x, i),
           c = "build" \/ c = "score" \/ P[n].kind \notin {"build", "score"},
           c = "build" => P[n].kind = "build" /\ Sited(rows \cup D, x),
           c = "score" => P[n].kind = "score",
           \A r \in D : r.table \notin {"organizations", "sites"} => r \in S,
           \A s \in Table(D, "sites") : \E u \in Table(S, "sites") : u.parcel = s.parcel
    PROVE  Followed(P, p, rows \cup S, n + 1, "ready", <<>>, {}, x, i)
<1> DEFINE more == rows \cup S
<1>1. Table(more, "sites") = Table(rows, "sites") \cup Table(S, "sites")
  BY DEF Table
<1>2. Sited(rows, x) => Sited(more, x)
  BY <1>1 DEF Sited
<1>3. Scored(rows, x, p) => Scored(more, x, p)
  BY <1>1 DEF Scored
<1>4. Sited(rows \cup D, x) => Sited(more, x)
  <2>1. Table(rows \cup D, "sites") = Table(rows, "sites") \cup Table(D, "sites")
    BY DEF Table
  <2> QED
    BY <1>1, <2>1 DEF Sited
<1>5. Scoring(rows, x, p, <<>>, D) => Scored(more, x, p)
  <2>1. \A k : Prediction(k, p).table = "predictions"
    BY DEF Prediction
  <2>2. \A k : Prediction(k, p) \in D => Prediction(k, p) \in more
    BY <2>1
  <2>3. Elements(<<>>) = {}
    BY EmptyIsSequence
  <2> QED
    BY <1>1, <2>2, <2>3 DEF Scoring, Scored
<1> HIDE DEF more
<1>6. ASSUME NEW j \in (i + 1) .. ((n + 1) - 1), P[j].kind = "build" PROVE Sited(more, x)
  <2>1. CASE j = n
    BY <1>4, <1>6, <2>1
  <2>2. CASE j # n
    <3>1. j \in (i + 1) .. (n - 1)
      BY <2>2
    <3> QED
      BY <1>2, <1>6, <3>1 DEF Followed
  <2> QED
    BY <2>1, <2>2
<1>7. ASSUME NEW j \in (i + 1) .. ((n + 1) - 1), NEW k \in (i + 1) .. ((n + 1) - 1),
             j < k, P[j].kind = "build", P[k].kind = "score"
      PROVE  Scored(more, x, p)
  <2>1. j \in (i + 1) .. (n - 1)
    BY <1>7
  <2>2. CASE k = n
    <3>1. c = "score"
      BY <1>7, <2>2
    <3>2. Scoring(rows, x, p, <<>>, D)
      BY <1>7, <2>1, <3>1 DEF Followed
    <3> QED
      BY <1>5, <3>2
  <2>3. CASE k # n
    <3>1. k \in (i + 1) .. (n - 1)
      BY <2>3
    <3> QED
      BY <1>3, <1>7, <2>1, <3>1 DEF Followed
  <2> QED
    BY <2>2, <2>3
<1>8. P[i].kind = "ingest"
  BY DEF Followed
<1> QED
  BY <1>6, <1>7, <1>8 DEF Followed, more

\* A commit brings the program further, or ends it.
LEMMA CommitWhole ==
    ASSUME SessionInv, OverlapInv, WholeInv, NEW p \in Programs, Commit(p) PROVE WholeInv'
<1> DEFINE P == plan[p]
           n == command[p]
           c == pc[p]
           f == failed[p]
           D == Made(p)
           O == Owed(p)
           L == Loads(p)
<1>1. PICK S : /\ db' = db \cup S /\ IsFiniteSet(S)
               /\ \A r \in D : r.table \notin {"organizations", "sites"} => r \in S
               /\ \A s \in Table(D, "sites") : \E u \in Table(S, "sites") : u.parcel = s.parcel
  BY CommitAdds
<1>2. /\ n \in Nat /\ Len(P) \in Nat /\ DOMAIN P = 1 .. Len(P)
      /\ Placed(P, n, c, <<>>) /\ Recorded(P, p, db, n, c, f, D)
      /\ Carried(P, p, db, n, c, <<>>, D, O, L)
  BY WholeOf DEF Commit
<1>3. /\ c \in {"commit", "build", "score"} /\ plan' = plan /\ RolledBack(p)
      /\ \/ (f => P[n].tolerates # "nothing") /\ Leave(p, n + 1, "ready")
         \/ Leave(p, n, "exited")
  BY DEF Commit, GoesOn, Now
<1>4. Owed(p)' \subseteq O \cup L /\ \A q \in Programs \ {p} : Owed(q)' \subseteq Owed(q)
  BY CommitOwes
<1> HIDE DEF P, n, c, f, D, O, L
<1>5. n \in 1 .. Len(P)
  BY <1>2, <1>3 DEF Placed, Resting, Over
<1>6. ASSUME NEW next \in Nat, NEW step, Leave(p, next, step),
             Whole(P, p, db', next, step, FALSE, <<>>, {}, Owed(p)', {})
      PROVE  WholeInv'
  <2>1. /\ pc'[p] = step /\ command'[p] = next /\ failed'[p] = FALSE /\ todo'[p] = <<>>
        /\ writes'[p] = <<>> /\ tx'[p] = {} /\ Loads(p)' = {}
        /\ command' \in [Programs -> Nat] /\ DOMAIN failed' = Programs
        /\ DOMAIN loading' = Programs
        /\ \A q \in Programs \ {p} :
             /\ command'[q] = command[q] /\ pc'[q] = pc[q] /\ failed'[q] = failed[q]
             /\ todo'[q] = todo[q] /\ tx'[q] = tx[q] /\ writes'[q] = writes[q]
             /\ loading'[q] = loading[q]
    BY <1>3, <1>6, LeaveChanges
  <2>2. Made(p)' = {}
    BY <2>1, NothingMadeThen
  <2>3. IsFiniteSet(db') /\ db \subseteq db'
    BY <1>1, FS_Union DEF WholeInv
  <2>4. IsFiniteSet(tx'[p])
    BY <2>1, FS_EmptySet
  <2>5. Whole(P, p, db', command'[p], pc'[p], failed'[p], todo'[p], Made(p)', Owed(p)', Loads(p)')
    BY <1>6, <2>1, <2>2
  <2> QED
    BY <1>3, <1>4, <2>1, <2>3, <2>4, <2>5, OneStepWhole DEF P
<1>7. \A i \in 1 .. (n - 1) : P[i].kind = "ingest" /\ P[i].tolerates = "nothing"
         => Run(P[i].slug, "success", p) \in db'
  BY <1>1, <1>2 DEF Recorded
<1>8. CASE Leave(p, n, "exited")
  <2>1. Placed(P, n, "exited", <<>>)
    BY <1>2, EmptyIsSequence DEF Placed, Resting, Over
  <2>2. Recorded(P, p, db', n, "exited", FALSE, {})
    BY <1>7 DEF Recorded
  <2>3. Carried(P, p, db', n, "exited", <<>>, {}, Owed(p)', {})
    BY DEF Carried
  <2> QED
    BY <1>2, <1>6, <1>8, <2>1, <2>2, <2>3 DEF Whole
<1>9. CASE (f => P[n].tolerates # "nothing") /\ Leave(p, n + 1, "ready")
  <2>1. Placed(P, n + 1, "ready", <<>>)
    <3>1. n + 1 \in 1 .. (Len(P) + 1)
      BY <1>2, <1>5
    <3> QED
      BY <3>1, EmptyIsSequence DEF Placed, Resting, Over
  <2>2. Recorded(P, p, db', n + 1, "ready", FALSE, {})
    <3>1. ASSUME P[n].kind = "ingest", P[n].tolerates = "nothing"
          PROVE  Run(P[n].slug, "success", p) \in db'
      <4>1. c = "commit"
        BY <1>2, <1>3, <3>1 DEF Placed
      <4>2. ~ f
        BY <1>9, <3>1
      <4>3. Run(P[n].slug, "success", p) \in D
        BY <1>2, <3>1, <4>1, <4>2 DEF Recorded
      <4>4. Run(P[n].slug, "success", p).table = "runs"
        BY DEF Run
      <4> QED
        BY <1>1, <4>3, <4>4
    <3>2. \A i \in 1 .. ((n + 1) - 1) : i \in 1 .. (n - 1) \/ i = n
      BY <1>5
    <3> QED
      BY <1>7, <3>1, <3>2 DEF Recorded
  <2>3. Carried(P, p, db', n + 1, "ready", <<>>, {}, Owed(p)', {})
    <3> SUFFICES ASSUME Untolerant(P), NEW x \in Owed(p)'
                 PROVE  \E i \in 1 .. ((n + 1) - 1) :
                           Followed(P, p, db', n + 1, "ready", <<>>, {}, x, i)
      BY DEF Carried
    <3>1. CASE x \in L
      <4>1. P[n].kind = "ingest"
        BY <1>2, <3>1 DEF Carried
      <4>2. \A j \in (n + 1) .. ((n + 1) - 1) : FALSE
        BY <1>5
      <4>3. n \in 1 .. ((n + 1) - 1)
        BY <1>5
      <4> QED
        BY <4>1, <4>2, <4>3 DEF Followed
    <3>2. CASE x \in O
      <4>1. x \in O
        BY <3>2
      <4>2. c # "exited"
        BY <1>3
      <4>3. PICK i \in 1 .. (n - 1) : Followed(P, p, db, n, c, <<>>, D, x, i)
        BY <1>2, <4>1, <4>2 DEF Carried
      <4>4. c = "build" \/ c = "score" \/ P[n].kind \notin {"build", "score"}
        BY <1>2, <1>3 DEF Placed
      <4>5. c = "build" => P[n].kind = "build" /\ Sited(db \cup D, x)
        BY <1>2, <4>1, EmptyIsSequence DEF Placed, Carried
      <4>6. c = "score" => P[n].kind = "score"
        BY <1>2 DEF Placed
      <4>7. /\ \A r \in D : r.table \notin {"organizations", "sites"} => r \in S
            /\ \A s \in Table(D, "sites") : \E u \in Table(S, "sites") : u.parcel = s.parcel
        BY <1>1
      <4>8. Followed(P, p, db \cup S, n + 1, "ready", <<>>, {}, x, i)
        BY <1>2, <4>3, <4>4, <4>5, <4>6, <4>7, FollowedOn
      <4>9. i \in 1 .. ((n + 1) - 1)
        BY <1>5
      <4> QED
        BY <1>1, <4>8, <4>9
    <3> QED
      BY <1>4, <3>1, <3>2
  <2>4. n + 1 \in Nat
    BY <1>2
  <2> QED
    BY <1>6, <1>9, <2>1, <2>2, <2>3, <2>4 DEF Whole
<1> QED
  BY <1>3, <1>8, <1>9

\* Every step keeps the invariant.
LEMMA WholeStep ==
    ASSUME SessionInv, OverlapInv, WholeInv, [Next]_vars PROVE WholeInv'
<1>1. CASE UNCHANGED vars
  BY <1>1 DEF vars, WholeInv, Made, Owed, Loads
<1>2. CASE \E p \in Mortal : Kill(p)
  BY <1>2, KillWhole, WorkerAssumption
<1>3. ASSUME NEW p \in Programs, Step(p) PROVE WholeInv'
  <2>1. CASE Write(p) \/ Commit(p) \/ Done(p) \/ SyncRegistry(p) \/ StartRun(p)
    BY <2>1, WriteWhole, CommitWhole, DoneWhole, SyncWhole, StartRunWhole
  <2>2. CASE WriteFails(p) \/ DeadlockDetected(p) \/ SourceIsMissing(p) \/ LoadRaises(p)
    BY <2>2, RaisingWhole
  <2>3. CASE \/ FindDocument(p) \/ KeepVersion(p) \/ AddVersion(p) \/ LoadParcel(p)
             \/ ExecuteRaises(p) \/ FinishRun(p) \/ PutRaises(p) \/ SignatureChanges(p)
    BY <2>3, StoringWhole, LoadParcelWhole, FailingWhole, FinishRunWhole
  <2>4. CASE \/ StartPass(p) \/ FindSite(p) \/ NeedSite(p) \/ MintSite(p)
             \/ StartScoring(p) \/ ScoreSite(p)
    BY <2>4, StartPassWhole, FindSiteWhole, NeedSiteWhole, MintSiteWhole, StartScoringWhole,
       ScoreSiteWhole
  <2> QED
    BY <1>3, <2>1, <2>2, <2>3, <2>4 DEF Step
<1> QED
  BY <1>1, <1>2, <1>3 DEF Next

\* At first nothing is done and nothing is missing.
LEMMA InitWhole == Init => WholeInv
<1> SUFFICES ASSUME Init PROVE WholeInv
  OBVIOUS
<1>1. /\ plan \in Plans /\ command \in [Programs -> Nat] /\ DOMAIN failed = Programs
      /\ DOMAIN loading = Programs /\ IsFiniteSet(db)
  BY FS_EmptySet DEF Init
<1>2. ASSUME NEW p \in Programs
      PROVE  /\ IsFiniteSet(tx[p])
             /\ Whole(plan[p], p, db, command[p], pc[p], failed[p], todo[p], Made(p),
                      Owed(p), Loads(p))
  <2>1. /\ tx[p] = {} /\ writes[p] = <<>> /\ db = {} /\ command[p] = 1 /\ pc[p] = "ready"
        /\ todo[p] = <<>>
    BY DEF Init
  <2>2. Made(p) = {} /\ IsFiniteSet(tx[p])
    BY <2>1, NothingMade, FS_EmptySet
  <2>3. Len(plan[p]) \in Nat
    <3>1. plan[p] \in Seq(Command)
      BY <1>1, WorkerAssumption
    <3> QED
      BY <3>1
  <2>4. Placed(plan[p], 1, "ready", <<>>)
    BY <2>3, EmptyIsSequence DEF Placed, Resting
  <2>5. Recorded(plan[p], p, {}, 1, "ready", failed[p], {})
    BY DEF Recorded
  <2>6. Carried(plan[p], p, {}, 1, "ready", <<>>, {}, {}, {})
    BY DEF Carried
  <2>7. Owed(p) = {} /\ Loads(p) = {}
    BY DEF Init, Owed, Loads, NotLoaded
  <2> QED
    BY <2>1, <2>2, <2>4, <2>5, <2>6, <2>7 DEF Whole
<1> QED
  BY <1>1, <1>2 DEF WholeInv

\* DoneIsWhole, for any number of programs, plans and kills: when a program says
\* Done, the connectors it depends on have succeeded, and if it is the bootstrap
\* every parcel it has loaded as a candidate, and that nobody has classified otherwise
\* since, has a site that it has scored (bootstrap, find_candidate_parcels).
THEOREM BootstrapIsWhole == Spec => []DoneIsWhole
<1>1. Init => SessionInv /\ OverlapInv /\ WholeInv
  BY InitSession, InitOverlap, InitWhole
<1>2. SessionInv /\ OverlapInv /\ WholeInv /\ [Next]_vars => (SessionInv /\ OverlapInv /\ WholeInv)'
  BY SessionStep, OverlapStep, WholeStep
<1>3. WholeInv => DoneIsWhole
  <2> SUFFICES ASSUME WholeInv, NEW p \in Programs, pc[p] = "done"
               PROVE  /\ \A i \in DOMAIN plan[p] :
                            plan[p][i].kind = "ingest" /\ plan[p][i].tolerates = "nothing"
                               => Run(plan[p][i].slug, "success", p) \in db
                      /\ (\A i \in DOMAIN plan[p] : plan[p][i].tolerates # "anything") =>
                            \A x \in ParcelIds : class[x].candidate /\ p \in class[x].by =>
                               \E s \in Table(db, "sites") :
                                  s.parcel = x /\ Prediction(s.key, p) \in db
    BY DEF DoneIsWhole
  <2> DEFINE P == plan[p]
             n == command[p]
  <2>1. /\ Len(P) \in Nat /\ DOMAIN P = 1 .. Len(P)
        /\ Placed(P, n, "done", todo[p]) /\ Recorded(P, p, db, n, "done", failed[p], Made(p))
        /\ Carried(P, p, db, n, "done", todo[p], Made(p), Owed(p), Loads(p))
    BY WholeOf
  <2>2. P \in UNION {{plans[q] : q \in Programs} : plans \in Plans}
    BY DEF WholeInv
  <2> HIDE DEF P, n
  <2>3. 1 .. (n - 1) = DOMAIN P
    BY <2>1 DEF Placed
  <2>4. \A i \in DOMAIN P : P[i].kind = "ingest" /\ P[i].tolerates = "nothing"
                               => Run(P[i].slug, "success", p) \in db
    BY <2>1, <2>3 DEF Recorded
  <2>5. ASSUME \A i \in DOMAIN P : P[i].tolerates # "anything", NEW x \in Owed(p)
        PROVE  Scored(db, x, p)
    <3>1. PICK i \in 1 .. (n - 1) : Followed(P, p, db, n, "done", todo[p], Made(p), x, i)
      BY <2>1, <2>5 DEF Carried, Untolerant
    <3>2. P[i].kind = "ingest" /\ i \in DOMAIN P
      BY <2>3, <3>1 DEF Followed
    <3>3. PICK j \in DOMAIN P, k \in DOMAIN P :
             i < j /\ j < k /\ P[j].kind = "build" /\ P[k].kind = "score"
      BY <2>2, <2>5, <3>2, BootstrapIsOrdered
    <3>4. j \in (i + 1) .. (n - 1) /\ k \in (i + 1) .. (n - 1)
      <4>1. n = Len(P) + 1
        BY <2>1 DEF Placed
      <4>2. i \in 1 .. Len(P) /\ j \in 1 .. Len(P) /\ k \in 1 .. Len(P) /\ Len(P) \in Nat
        BY <2>1, <3>2, <3>3
      <4> QED
        BY <3>3, <4>1, <4>2
    <3> QED
      BY <3>1, <3>3, <3>4 DEF Followed
  <2> QED
    BY <2>4, <2>5 DEF P, Owed, Scored
<1> QED
  BY <1>1, <1>2, <1>3, PTL DEF Spec

=============================================================================
