------------------------- MODULE EvidenceStoreProofs -------------------------
(***************************************************************************)
(* Theorems about EvidenceStore, for any number of writers, payloads and   *)
(* inodes.                                                                 *)
(***************************************************************************)
EXTENDS EvidenceStore, TLAPS

USE EvidenceStoreAssumption

\* A key is made of the payload it is derived from.
LEMMA KeyOfPayload ==
    ASSUME NEW payload \in Payloads, NEW mime \in Mimes
    PROVE  /\ build_key(payload, mime) \in Keys
           /\ PayloadOf[build_key(payload, mime)] = payload
BY DEF build_key, Keys, PayloadOf

LEMMA PayloadOfKey ==
    ASSUME NEW k \in Keys
    PROVE  PayloadOf[k] \in Payloads /\ PayloadOf[k] # Truncated
BY DEF Keys, PayloadOf

-----------------------------------------------------------------------------
(* Type correctness                                                        *)

LEMMA TypeInit == Init => TypeOK
BY DEF Init, TypeOK, Steps, Results

LEMMA TypeStep == TypeOK /\ [Next]_vars => TypeOK'
<1> SUFFICES ASSUME TypeOK, [Next]_vars
             PROVE  TypeOK'
  OBVIOUS
<1>0. CASE UNCHANGED vars
  BY <1>0 DEF TypeOK, vars
<1> SUFFICES ASSUME NEW w \in Writers,
                    PutExisting(w) \/ PutAbsent(w) \/ PutStep(w) \/ Crash(w)
             PROVE  TypeOK'
  BY <1>0 DEF Next
<1> USE DEF TypeOK, Steps, Results
<1>1. CASE PutExisting(w)
  BY <1>1, KeyOfPayload DEF PutExisting
<1>2. CASE PutAbsent(w)
  BY <1>2, KeyOfPayload DEF PutAbsent
<1>3. CASE OpenPartial(w)
  BY <1>3 DEF OpenPartial
<1>4. CASE WritePartial(w)
  BY <1>4, PayloadOfKey DEF WritePartial
<1>5. CASE Publish(w)
  BY <1>5 DEF Publish
<1>6. CASE PublishMissing(w)
  BY <1>6 DEF PublishMissing, Return
<1>7. CASE WriteSidecar(w)
  BY <1>7 DEF WriteSidecar, Return
<1>8. CASE Crash(w)
  BY <1>8 DEF Crash, Return
<1> QED
  BY <1>1, <1>2, <1>3, <1>4, <1>5, <1>6, <1>7, <1>8 DEF PutStep

\* Every variable keeps its type.
THEOREM TypeCorrect == Spec => []TypeOK
BY TypeInit, TypeStep, PTL DEF Spec

-----------------------------------------------------------------------------
(* Files and names                                                         *)

Named(k, i) == i # NoInode /\ (path[k] = i \/ partial[k] = i)

\* An open file is that of a writer in the middle of write_bytes.
OpenFiles ==
    \A w \in Writers : (put[w].step = "opened") <=> (put[w].fd # NoInode)

\* A file belongs to one key: no two names share it, and a writer that has it
\* open is writing the content of the key that names it.
OneKeyPerFile ==
    /\ \A k \in Keys : path[k] = NoInode \/ path[k] # partial[k]
    /\ \A k, l \in Keys : \A i \in Inodes : Named(k, i) /\ Named(l, i) => k = l
    /\ \A k \in Keys : \A w \in Writers : Named(k, put[w].fd) => put[w].key = k
    /\ \A v, w \in Writers : put[v].fd = put[w].fd /\ put[v].fd # NoInode =>
         put[v].key = put[w].key

\* A file holds the content of the key that names it, or nothing yet.
OwnContent ==
    \A k \in Keys : \A i \in Inodes :
        Named(k, i) => bytes[i] \in {PayloadOf[k], Truncated}

FilesInv == TypeOK /\ OpenFiles /\ OneKeyPerFile /\ OwnContent

\* A writer that only changes what it knows, and has no file open afterwards.
LEMMA QuietStep ==
    ASSUME FilesInv, NEW w \in Writers,
           UNCHANGED <<path, partial, bytes>>,
           put'[w].step # "opened", put'[w].fd = NoInode,
           \A v \in Writers : v # w => put'[v] = put[v]
    PROVE  OpenFiles' /\ OneKeyPerFile' /\ OwnContent'
<1>1. OpenFiles'
  BY DEF FilesInv, OpenFiles
<1>2. \A k \in Keys : \A i : Named(k, i)' <=> Named(k, i)
  BY DEF Named
<1>3. OwnContent'
  BY <1>2 DEF FilesInv, OwnContent
<1>4. (\A k \in Keys : \A v \in Writers : Named(k, put[v].fd) => put[v].key = k)'
  BY DEF FilesInv, OneKeyPerFile, Named
<1>5. (\A v, u \in Writers : put[v].fd = put[u].fd /\ put[v].fd # NoInode =>
         put[v].key = put[u].key)'
  BY DEF FilesInv, OneKeyPerFile
<1>6. (/\ \A k \in Keys : path[k] = NoInode \/ path[k] # partial[k]
       /\ \A k, l \in Keys : \A i \in Inodes : Named(k, i) /\ Named(l, i) => k = l)'
  BY <1>2 DEF FilesInv, OneKeyPerFile
<1> QED
  BY <1>1, <1>3, <1>4, <1>5, <1>6 DEF OneKeyPerFile

LEMMA FilesStep == FilesInv /\ [Next]_vars => FilesInv'
<1> SUFFICES ASSUME FilesInv, [Next]_vars
             PROVE  FilesInv'
  OBVIOUS
<1>t. TypeOK /\ TypeOK'
  BY TypeStep DEF FilesInv
<1>0. CASE UNCHANGED vars
  BY <1>0, <1>t DEF FilesInv, OpenFiles, OneKeyPerFile, OwnContent, Named, vars
<1> SUFFICES ASSUME NEW w \in Writers,
                    PutExisting(w) \/ PutAbsent(w) \/ PutStep(w) \/ Crash(w)
             PROVE  OpenFiles' /\ OneKeyPerFile' /\ OwnContent'
  BY <1>0, <1>t DEF Next, FilesInv
<1>k. put[w].key \in Keys /\ put \in [Writers -> [step : Steps, key : Keys, fd : Inodes \cup {NoInode}]]
  BY <1>t DEF TypeOK
<1>1. CASE PutExisting(w)
  <2>1. put[w].step = "idle" /\ UNCHANGED <<path, partial, bytes>>
    BY <1>1 DEF PutExisting
  <2>2. PICK key : put' = [put EXCEPT ![w].key = key]
    BY <1>1 DEF PutExisting
  <2>3. put'[w].fd = put[w].fd /\ put'[w].step = put[w].step
    BY <2>2, <1>k
  <2>4. \A v \in Writers : v # w => put'[v] = put[v]
    BY <2>2, <1>k
  <2> QED
    BY <2>1, <2>3, <2>4, QuietStep DEF FilesInv, OpenFiles
<1>2. CASE PutAbsent(w)
  <2>1. PICK key : put' = [put EXCEPT ![w] = [step |-> "absent", key |-> key, fd |-> NoInode]]
    BY <1>2 DEF PutAbsent
  <2>2. /\ UNCHANGED <<path, partial, bytes>>
        /\ put'[w].step = "absent" /\ put'[w].fd = NoInode
        /\ \A v \in Writers : v # w => put'[v] = put[v]
    BY <1>2, <2>1, <1>k DEF PutAbsent
  <2> QED
    BY <2>2, QuietStep
<1>3. CASE OpenPartial(w)
  <2> DEFINE key == put[w].key
  <2>1. PICK i \in Inodes :
          /\ IF partial[key] = NoInode THEN Free(i) ELSE i = partial[key]
          /\ partial' = [partial EXCEPT ![key] = i]
          /\ bytes' = [bytes EXCEPT ![i] = Truncated]
          /\ put' = [put EXCEPT ![w] = [step |-> "opened", key |-> key, fd |-> i]]
    BY <1>3 DEF OpenPartial
  <2>2. /\ UNCHANGED path
        /\ put'[w].step = "opened" /\ put'[w].fd = i /\ put'[w].key = key
        /\ \A v \in Writers : v # w => put'[v] = put[v]
        /\ partial'[key] = i
        /\ \A k \in Keys : k # key => partial'[k] = partial[k]
        /\ bytes'[i] = Truncated
        /\ \A j \in Inodes : j # i => bytes'[j] = bytes[j]
        /\ key \in Keys
    BY <1>3, <2>1, <1>k, <1>t DEF OpenPartial, TypeOK
  <2>3. /\ \A k \in Keys : path[k] # i
        /\ \A k \in Keys : partial[k] = i => k = key
        /\ \A v \in Writers : put[v].fd = i => put[v].key = key
    BY <2>1, <2>2 DEF Free, FilesInv, OneKeyPerFile, Named
  <2> HIDE DEF key
  <2>4. OpenFiles'
    BY <2>2 DEF OpenFiles, FilesInv
  <2>5. \A k \in Keys : \A j : Named(k, j)' => (Named(k, j) /\ j # i) \/ (k = key /\ j = i)
    BY <2>2, <2>3 DEF Named
  <2>6. (/\ \A k \in Keys : path[k] = NoInode \/ path[k] # partial[k]
         /\ \A k, l \in Keys : \A j \in Inodes : Named(k, j) /\ Named(l, j) => k = l)'
    BY <2>2, <2>3, <2>5 DEF FilesInv, OneKeyPerFile
  <2>7. (\A k \in Keys : \A v \in Writers : Named(k, put[v].fd) => put[v].key = k)'
    <3> SUFFICES ASSUME NEW k \in Keys, NEW v \in Writers, Named(k, put[v].fd)'
                 PROVE  put'[v].key = k
      OBVIOUS
    <3>1. (Named(k, put'[v].fd) /\ put'[v].fd # i) \/ (k = key /\ put'[v].fd = i)
      BY <2>5 DEF Named
    <3> QED
      BY <3>1, <2>2, <2>3 DEF FilesInv, OneKeyPerFile
  <2>8. (\A v, u \in Writers : put[v].fd = put[u].fd /\ put[v].fd # NoInode =>
           put[v].key = put[u].key)'
    BY <2>2, <2>3 DEF FilesInv, OneKeyPerFile
  <2>9. OwnContent'
    BY <2>2, <2>5 DEF FilesInv, OwnContent
  <2> QED
    BY <2>4, <2>6, <2>7, <2>8, <2>9 DEF OneKeyPerFile
<1>4. CASE WritePartial(w)
  <2> DEFINE i == put[w].fd
  <2>1. /\ UNCHANGED <<path, partial>>
        /\ i \in Inodes
        /\ put'[w].step = "written" /\ put'[w].fd = NoInode
        /\ \A v \in Writers : v # w => put'[v] = put[v]
        /\ bytes'[i] = PayloadOf[put[w].key]
        /\ \A j \in Inodes : j # i => bytes'[j] = bytes[j]
    BY <1>4, <1>k, <1>t DEF WritePartial, FilesInv, OpenFiles, TypeOK
  <2>2. OpenFiles'
    BY <2>1 DEF FilesInv, OpenFiles
  <2>3. \A k \in Keys : \A j : Named(k, j)' <=> Named(k, j)
    BY <2>1 DEF Named
  <2>4. OwnContent'
    BY <2>1, <2>3 DEF FilesInv, OwnContent, OneKeyPerFile
  <2>5. (/\ \A k \in Keys : path[k] = NoInode \/ path[k] # partial[k]
         /\ \A k, l \in Keys : \A j \in Inodes : Named(k, j) /\ Named(l, j) => k = l)'
    BY <2>1, <2>3 DEF FilesInv, OneKeyPerFile
  <2>6. (\A k \in Keys : \A v \in Writers : Named(k, put[v].fd) => put[v].key = k)'
    BY <2>1 DEF FilesInv, OneKeyPerFile, Named
  <2>7. (\A v, u \in Writers : put[v].fd = put[u].fd /\ put[v].fd # NoInode =>
           put[v].key = put[u].key)'
    BY <2>1 DEF FilesInv, OneKeyPerFile
  <2> QED
    BY <2>2, <2>4, <2>5, <2>6, <2>7 DEF OneKeyPerFile
<1>5. CASE Publish(w)
  <2> DEFINE key == put[w].key
  <2>1. /\ UNCHANGED bytes
        /\ \A v \in Writers : put'[v].fd = put[v].fd /\ put'[v].key = put[v].key
        /\ put'[w].step = "published" /\ put[w].step = "written"
        /\ \A v \in Writers : v # w => put'[v] = put[v]
        /\ partial[key] # NoInode /\ path'[key] = partial[key] /\ partial'[key] = NoInode
        /\ \A k \in Keys : k # key => path'[k] = path[k] /\ partial'[k] = partial[k]
        /\ key \in Keys
    BY <1>5, <1>k, <1>t DEF Publish, TypeOK
  <2> HIDE DEF key
  <2>2. \A k \in Keys : \A j : Named(k, j)' => Named(k, j)
    BY <2>1 DEF Named
  <2>3. OpenFiles'
    BY <2>1 DEF FilesInv, OpenFiles
  <2>4. OwnContent'
    BY <2>1, <2>2 DEF FilesInv, OwnContent
  <2>5. (/\ \A k \in Keys : path[k] = NoInode \/ path[k] # partial[k]
         /\ \A k, l \in Keys : \A j \in Inodes : Named(k, j) /\ Named(l, j) => k = l)'
    BY <2>1, <2>2 DEF FilesInv, OneKeyPerFile
  <2>6. (\A k \in Keys : \A v \in Writers : Named(k, put[v].fd) => put[v].key = k)'
    BY <2>1 DEF FilesInv, OneKeyPerFile, Named
  <2>7. (\A v, u \in Writers : put[v].fd = put[u].fd /\ put[v].fd # NoInode =>
           put[v].key = put[u].key)'
    BY <2>1 DEF FilesInv, OneKeyPerFile
  <2> QED
    BY <2>3, <2>4, <2>5, <2>6, <2>7 DEF OneKeyPerFile
<1>6. CASE PublishMissing(w) \/ WriteSidecar(w) \/ Crash(w)
  <2>1. /\ UNCHANGED <<path, partial, bytes>>
        /\ put'[w].step = "idle" /\ put'[w].fd = NoInode
        /\ \A v \in Writers : v # w => put'[v] = put[v]
    BY <1>6, <1>k DEF PublishMissing, WriteSidecar, Crash, Return
  <2> QED
    BY <2>1, QuietStep
<1> QED
  BY <1>1, <1>2, <1>3, <1>4, <1>5, <1>6 DEF PutStep

\* The file invariant holds of every execution, whatever the number of writers
\* and of crashes.
THEOREM FilesInvariant == Spec => []FilesInv
<1>1. Init => FilesInv
  BY TypeInit DEF Init, FilesInv, OpenFiles, OneKeyPerFile, OwnContent, Named
<1> QED
  BY <1>1, FilesStep, PTL DEF Spec

-----------------------------------------------------------------------------
(* Without crashes, however many writers race                              *)

\* A named file without its content is open: its writer has yet to write.
EmptyIsOpen ==
    \A k \in Keys : \A i \in Inodes :
        Named(k, i) /\ bytes[i] = Truncated => \E w \in Writers : put[w].fd = i

RaceInv == FilesInv /\ EmptyIsOpen

LEMMA RaceStep ==
    ASSUME MaxCrashes = 0, RaceInv, [Next]_vars
    PROVE  RaceInv'
<1>t. FilesInv /\ FilesInv' /\ TypeOK /\ TypeOK'
  BY FilesStep DEF RaceInv, FilesInv
<1>0. CASE UNCHANGED vars
  BY <1>0, <1>t DEF RaceInv, EmptyIsOpen, Named, vars
<1> SUFFICES ASSUME NEW w \in Writers,
                    PutExisting(w) \/ PutAbsent(w) \/ PutStep(w) \/ Crash(w)
             PROVE  EmptyIsOpen'
  BY <1>0, <1>t DEF Next, RaceInv
<1>k. put[w].key \in Keys /\ put \in [Writers -> [step : Steps, key : Keys, fd : Inodes \cup {NoInode}]]
  BY <1>t DEF TypeOK
<1> SUFFICES ASSUME NEW k \in Keys, NEW i \in Inodes, Named(k, i)', bytes'[i] = Truncated
             PROVE  \E v \in Writers : put'[v].fd = i
  BY DEF EmptyIsOpen
<1>q. ASSUME UNCHANGED <<path, partial, bytes>>,
             \A v \in Writers : v # w => put'[v] = put[v], put[w].fd = NoInode
      PROVE  \E v \in Writers : put'[v].fd = i
  <2>1. Named(k, i) /\ bytes[i] = Truncated
    BY <1>q DEF Named
  <2>2. PICK v \in Writers : put[v].fd = i
    BY <2>1 DEF RaceInv, EmptyIsOpen
  <2>3. v # w
    BY <2>1, <2>2, <1>q DEF Named
  <2> QED
    BY <2>2, <2>3, <1>q
<1>1. CASE PutExisting(w) \/ PutAbsent(w) \/ PublishMissing(w) \/ WriteSidecar(w)
  <2>1. UNCHANGED <<path, partial, bytes>> /\ put[w].step # "opened"
    BY <1>1 DEF PutExisting, PutAbsent, PublishMissing, WriteSidecar
  <2>2. \A v \in Writers : v # w => put'[v] = put[v]
    BY <1>1, <1>k DEF PutExisting, PutAbsent, PublishMissing, WriteSidecar, Return
  <2> QED
    BY <2>1, <2>2, <1>q, <1>t DEF FilesInv, OpenFiles
<1>2. CASE OpenPartial(w)
  <2> DEFINE key == put[w].key
  <2>1. PICK j \in Inodes :
          /\ partial' = [partial EXCEPT ![key] = j]
          /\ bytes' = [bytes EXCEPT ![j] = Truncated]
          /\ put' = [put EXCEPT ![w] = [step |-> "opened", key |-> key, fd |-> j]]
    BY <1>2 DEF OpenPartial
  <2>2. put[w].step = "absent" /\ UNCHANGED path
    BY <1>2 DEF OpenPartial
  <2>3. put'[w].fd = j
    BY <2>1, <1>k
  <2>4. CASE i = j
    BY <2>3, <2>4
  <2>5. CASE i # j
    <3>1. Named(k, i) /\ bytes[i] = Truncated
      BY <2>1, <2>2, <2>5, <1>k, <1>t DEF Named, TypeOK
    <3>2. PICK v \in Writers : put[v].fd = i
      BY <3>1 DEF RaceInv, EmptyIsOpen
    <3>3. v # w
      BY <3>1, <3>2, <2>2, <1>t DEF FilesInv, OpenFiles, Named
    <3> QED
      BY <3>2, <3>3, <2>1, <1>k
  <2> QED
    BY <2>4, <2>5
<1>3. CASE WritePartial(w)
  <2>1. /\ UNCHANGED <<path, partial>>
        /\ put[w].fd \in Inodes
        /\ \A v \in Writers : v # w => put'[v] = put[v]
        /\ bytes'[put[w].fd] = PayloadOf[put[w].key]
        /\ \A j \in Inodes : j # put[w].fd => bytes'[j] = bytes[j]
    BY <1>3, <1>k, <1>t DEF WritePartial, FilesInv, OpenFiles, TypeOK
  <2>2. i # put[w].fd
    BY <2>1, <1>k, PayloadOfKey
  <2>3. Named(k, i) /\ bytes[i] = Truncated
    BY <2>1, <2>2 DEF Named
  <2> QED
    BY <2>1, <2>2, <2>3 DEF RaceInv, EmptyIsOpen
<1>4. CASE Publish(w)
  <2>1. /\ UNCHANGED bytes
        /\ \A v \in Writers : put'[v].fd = put[v].fd
        /\ partial[put[w].key] # NoInode
        /\ path'[put[w].key] = partial[put[w].key] /\ partial'[put[w].key] = NoInode
        /\ \A l \in Keys : l # put[w].key => path'[l] = path[l] /\ partial'[l] = partial[l]
    BY <1>4, <1>k, <1>t DEF Publish, TypeOK
  <2>2. Named(k, i)
    BY <2>1 DEF Named
  <2> QED
    BY <2>1, <2>2 DEF RaceInv, EmptyIsOpen
<1>5. ~Crash(w)
  BY <1>t DEF Crash, TypeOK
<1> QED
  BY <1>1, <1>2, <1>3, <1>4, <1>5 DEF PutStep

\* If no writer is killed, a published file that does not verify is being
\* written at that moment, however many writers race for one key.
THEOREM UnverifiedBeingWritten ==
    ASSUME MaxCrashes = 0
    PROVE  Spec => []UnverifiedIsBeingWritten
<1>1. Init => RaceInv
  BY TypeInit
  DEF Init, RaceInv, EmptyIsOpen, FilesInv, OpenFiles, OneKeyPerFile, OwnContent, Named
<1>2. RaceInv /\ [Next]_vars => RaceInv'
  BY RaceStep
<1>3. RaceInv => UnverifiedIsBeingWritten
  BY DEF RaceInv, FilesInv, EmptyIsOpen, OwnContent, OpenFiles, Named, TypeOK,
         UnverifiedIsBeingWritten, verify, get
<1> QED
  BY <1>1, <1>2, <1>3, PTL DEF Spec

-----------------------------------------------------------------------------
(* A rename that finds no sibling                                          *)

\* Once write_bytes has opened a sibling its key has one, or is published.
SiblingOrPublished ==
    \A w \in Writers : put[w].step \in {"opened", "written"} =>
        path[put[w].key] # NoInode \/ partial[put[w].key] # NoInode

RenameInv == TypeOK /\ SiblingOrPublished /\ FailedRenameWasPublished

\* A writer that loses the race for the sibling (FileNotFoundError) leaves a
\* key that is published, whoever else was killed meanwhile.
THEOREM FailedRenamePublished == Spec => []FailedRenameWasPublished
<1>1. Init => RenameInv
  BY TypeInit DEF Init, RenameInv, SiblingOrPublished, FailedRenameWasPublished
<1>2. RenameInv /\ [Next]_vars => RenameInv'
  <2> SUFFICES ASSUME RenameInv, [Next]_vars
               PROVE  RenameInv'
    OBVIOUS
  <2>t. TypeOK /\ TypeOK'
    BY TypeStep DEF RenameInv
  <2>0. CASE UNCHANGED vars
    BY <2>0, <2>t DEF RenameInv, SiblingOrPublished, FailedRenameWasPublished, vars
  <2> SUFFICES ASSUME NEW w \in Writers,
                      PutExisting(w) \/ PutAbsent(w) \/ PutStep(w) \/ Crash(w)
               PROVE  SiblingOrPublished' /\ FailedRenameWasPublished'
    BY <2>0, <2>t DEF Next, RenameInv
  <2> DEFINE Bound(k) == path[k] # NoInode \/ partial[k] # NoInode
             Good(v) == /\ put[v].step \in {"opened", "written"} => Bound(put[v].key)
                        /\ result[v] = "FileNotFoundError" /\ put[v].step = "idle" =>
                             path[put[v].key] # NoInode
  <2>k. /\ put[w].key \in Keys
        /\ put \in [Writers -> [step : Steps, key : Keys, fd : Inodes \cup {NoInode}]]
        /\ result \in [Writers -> Results]
    BY <2>t DEF TypeOK
  <2>g. \A v \in Writers : Good(v)
    BY DEF RenameInv, SiblingOrPublished, FailedRenameWasPublished
  <2>s. SUFFICES /\ \A k \in Keys : Bound(k) => Bound(k)'
                 /\ \A k \in Keys : path[k] # NoInode => path'[k] # NoInode
                 /\ \A v \in Writers : v # w => put'[v] = put[v] /\ result'[v] = result[v]
                 /\ Good(w)'
    <3>1. \A v \in Writers : v # w => Good(v)'
      BY <2>s, <2>g, <2>k
    <3> QED
      BY <2>s, <3>1 DEF SiblingOrPublished, FailedRenameWasPublished
  <2>1. CASE PutExisting(w)
    BY <2>1, <2>k DEF PutExisting
  <2>2. CASE PutAbsent(w)
    BY <2>2, <2>k DEF PutAbsent
  <2>3. CASE OpenPartial(w)
    BY <2>3, <2>k, <2>t DEF OpenPartial, TypeOK
  <2>4. CASE WritePartial(w)
    BY <2>4, <2>g, <2>k DEF WritePartial
  <2>5. CASE Publish(w)
    BY <2>5, <2>k, <2>t DEF Publish, TypeOK
  <2>6. CASE PublishMissing(w)
    BY <2>6, <2>g, <2>k DEF PublishMissing, Return
  <2>7. CASE WriteSidecar(w)
    BY <2>7, <2>k DEF WriteSidecar, Return
  <2>8. CASE Crash(w)
    BY <2>8, <2>k DEF Crash, Return
  <2> QED
    BY <2>1, <2>2, <2>3, <2>4, <2>5, <2>6, <2>7, <2>8 DEF PutStep
<1>3. RenameInv => FailedRenameWasPublished
  BY DEF RenameInv
<1> QED
  BY <1>1, <1>2, <1>3, PTL DEF Spec

-----------------------------------------------------------------------------
(* One writer at a time, crashes included                                  *)

\* What the one writer knows: it is storing a key that is still absent, has
\* its sibling open, and has written it whole.
SoloWriter ==
    \A w \in Writers : LET key == put[w].key IN
        /\ put[w].step \in {"absent", "opened", "written"} => path[key] = NoInode
        /\ put[w].step = "opened" => partial[key] = put[w].fd
        /\ put[w].step = "written" => /\ partial[key] # NoInode
                                      /\ bytes[partial[key]] = PayloadOf[key]

SoloInv == FilesInv /\ SoloWriter /\ PublishedVerifies

\* One step of the one writer: the invariant, and what readers see of it.
LEMMA SoloStep ==
    ASSUME \A v, w \in Writers : v = w, SoloInv, [Next]_vars
    PROVE  /\ SoloInv'
           /\ \/ \A k \in Keys : get(k)' = get(k)
              \/ \E k \in Keys :
                   /\ get(k) = NoInode /\ get(k)' = PayloadOf[k]
                   /\ \A l \in Keys : l # k => get(l)' = get(l)
<1>t. FilesInv /\ FilesInv' /\ TypeOK /\ TypeOK'
  BY FilesStep DEF SoloInv, FilesInv
<1>0. CASE UNCHANGED vars
  BY <1>0, <1>t DEF SoloInv, SoloWriter, PublishedVerifies, verify, get, vars
<1> SUFFICES ASSUME NEW w \in Writers,
                    PutExisting(w) \/ PutAbsent(w) \/ PutStep(w) \/ Crash(w)
             PROVE  /\ SoloWriter' /\ PublishedVerifies'
                    /\ \/ \A k \in Keys : get(k)' = get(k)
                       \/ \E k \in Keys :
                            /\ get(k) = NoInode /\ get(k)' = PayloadOf[k]
                            /\ \A l \in Keys : l # k => get(l)' = get(l)
  BY <1>0, <1>t DEF Next, SoloInv
<1>k. put[w].key \in Keys /\ put \in [Writers -> [step : Steps, key : Keys, fd : Inodes \cup {NoInode}]]
  BY <1>t DEF TypeOK
<1>w. \A v \in Writers : v = w
  OBVIOUS
<1>q. ASSUME UNCHANGED <<path, partial, bytes>>, put'[w].step \notin {"opened", "written"},
             put'[w].step = "absent" => path[put'[w].key] = NoInode
      PROVE  /\ SoloWriter' /\ PublishedVerifies'
             /\ \A k \in Keys : get(k)' = get(k)
  BY <1>q, <1>w DEF SoloInv, SoloWriter, PublishedVerifies, verify, get
<1>1. CASE PutExisting(w) \/ PublishMissing(w) \/ WriteSidecar(w) \/ Crash(w)
  <2>1. UNCHANGED <<path, partial, bytes>>
    BY <1>1 DEF PutExisting, PublishMissing, WriteSidecar, Crash
  <2>2. put'[w].step = "idle"
    BY <1>1, <1>k DEF PutExisting, PublishMissing, WriteSidecar, Crash, Return
  <2> QED
    BY <2>1, <2>2, <1>q
<1>2. CASE PutAbsent(w)
  <2>1. PICK key : /\ path[key] = NoInode
                   /\ put' = [put EXCEPT ![w] = [step |-> "absent", key |-> key, fd |-> NoInode]]
    BY <1>2 DEF PutAbsent
  <2> QED
    BY <1>2, <2>1, <1>k, <1>q DEF PutAbsent
<1>3. CASE OpenPartial(w)
  <2> DEFINE key == put[w].key
  <2>1. PICK i \in Inodes :
          /\ IF partial[key] = NoInode THEN Free(i) ELSE i = partial[key]
          /\ partial' = [partial EXCEPT ![key] = i]
          /\ bytes' = [bytes EXCEPT ![i] = Truncated]
          /\ put' = [put EXCEPT ![w] = [step |-> "opened", key |-> key, fd |-> i]]
    BY <1>3 DEF OpenPartial
  <2>2. /\ UNCHANGED path
        /\ put[w].step = "absent"
        /\ put'[w] = [step |-> "opened", key |-> key, fd |-> i]
        /\ partial'[key] = i
        /\ \A j \in Inodes : j # i => bytes'[j] = bytes[j]
    BY <1>3, <2>1, <1>k, <1>t DEF OpenPartial, TypeOK
  <2>3. \A k \in Keys : path[k] # i
    BY <2>1, <1>k, <1>t DEF Free, FilesInv, OneKeyPerFile, Named
  <2>4. \A k \in Keys : get(k)' = get(k)
    BY <2>2, <2>3, <1>t DEF get, TypeOK
  <2>5. SoloWriter'
    BY <2>2, <1>w, <1>k DEF SoloInv, SoloWriter
  <2> QED
    BY <2>2, <2>4, <2>5 DEF SoloInv, PublishedVerifies, verify
<1>4. CASE WritePartial(w)
  <2> DEFINE key == put[w].key
  <2>1. /\ UNCHANGED <<path, partial>>
        /\ put[w].step = "opened" /\ put[w].fd \in Inodes
        /\ put'[w] = [step |-> "written", key |-> key, fd |-> NoInode]
        /\ bytes'[put[w].fd] = PayloadOf[key]
        /\ \A j \in Inodes : j # put[w].fd => bytes'[j] = bytes[j]
    BY <1>4, <1>k, <1>t DEF WritePartial, FilesInv, OpenFiles, TypeOK
  <2>2. partial[key] = put[w].fd /\ path[key] = NoInode
    BY <2>1 DEF SoloInv, SoloWriter
  <2>3. \A k \in Keys : path[k] # put[w].fd
    BY <2>1, <2>2, <1>k, <1>t DEF FilesInv, OneKeyPerFile, Named
  <2>4. \A k \in Keys : get(k)' = get(k)
    BY <2>1, <2>3, <1>t DEF get, TypeOK
  <2>5. SoloWriter'
    BY <2>1, <2>2, <1>w, <1>k DEF SoloWriter
  <2> QED
    BY <2>1, <2>4, <2>5 DEF SoloInv, PublishedVerifies, verify
<1>5. CASE Publish(w)
  <2>0. PICK key \in Keys : key = put[w].key
    BY <1>k
  <2>1. /\ UNCHANGED bytes
        /\ put[w].step = "written" /\ put'[w].step = "published"
        /\ path'[key] = partial[key]
        /\ \A l \in Keys : l # key => path'[l] = path[l]
    BY <1>5, <2>0, <1>k, <1>t DEF Publish, TypeOK
  <2>2. /\ path[key] = NoInode /\ partial[key] # NoInode
        /\ bytes[partial[key]] = PayloadOf[key]
    BY <2>0, <2>1 DEF SoloInv, SoloWriter
  <2>3. /\ get(key) = NoInode /\ get(key)' = PayloadOf[key]
        /\ \A l \in Keys : l # key => get(l)' = get(l)
    BY <2>1, <2>2 DEF get
  <2>4. SoloWriter'
    BY <2>1, <1>w DEF SoloWriter
  <2>5. PublishedVerifies'
    BY <2>1, <2>2 DEF SoloInv, PublishedVerifies, verify, get
  <2> QED
    BY <2>3, <2>4, <2>5, <1>k
<1> QED
  BY <1>1, <1>2, <1>3, <1>4, <1>5, <1>q DEF PutStep

LEMMA SoloInit == Init => SoloInv
BY TypeInit
DEF Init, SoloInv, SoloWriter, PublishedVerifies, FilesInv, OpenFiles, OneKeyPerFile,
    OwnContent, Named

\* With one writer at a time, whatever is published verifies, and no crash at
\* any point of put() changes that.
THEOREM SoloPublishedVerifies ==
    ASSUME \A v, w \in Writers : v = w
    PROVE  Spec => []PublishedVerifies
<1>1. SoloInv /\ [Next]_vars => SoloInv'
  BY SoloStep
<1>2. SoloInv => PublishedVerifies
  BY DEF SoloInv
<1> QED
  BY <1>1, <1>2, SoloInit, PTL DEF Spec

\* With one writer at a time the archive is an immutable store: the only thing
\* readers ever see happen is that an absent key gets its own payload.
THEOREM SoloRefinement ==
    ASSUME \A v, w \in Writers : v = w
    PROVE  Spec => ImplementsImmutableStore
<1>1. Init => Immutable!Init
  BY DEF Init, Immutable!Init, get
<1>2. SoloInv /\ [Next]_vars => [Immutable!Next]_([k \in Keys |-> get(k)])
  <2> SUFFICES ASSUME SoloInv, [Next]_vars
               PROVE  [Immutable!Next]_([k \in Keys |-> get(k)])
    OBVIOUS
  <2>1. CASE \A k \in Keys : get(k)' = get(k)
    BY <2>1
  <2>2. CASE \E k \in Keys :
               /\ get(k) = NoInode /\ get(k)' = PayloadOf[k]
               /\ \A l \in Keys : l # k => get(l)' = get(l)
    BY <2>2 DEF Immutable!Next, Immutable!Store
  <2> QED
    BY <2>1, <2>2, SoloStep
<1>3. SoloInv /\ [Next]_vars => SoloInv'
  BY SoloStep
<1> QED
  BY <1>1, <1>2, <1>3, SoloInit, PTL DEF Spec, ImplementsImmutableStore, Immutable!Spec
=============================================================================
