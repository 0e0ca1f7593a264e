---------------------------- MODULE EvidenceStore ----------------------------
(***************************************************************************)
(* FilesystemEvidenceStore of helios_common/evidence_store.py, used by     *)
(* several processes at once: the helios CLI and the thread pool of the    *)
(* API both run the ingestion pipeline over one archive directory.         *)
(*                                                                         *)
(* put() is modelled at the grain of its file-system calls.  A file name   *)
(* is bound to an inode and an open file keeps its inode when the name is  *)
(* moved, because that is what decides which bytes a rename publishes.     *)
(***************************************************************************)
EXTENDS Naturals, FiniteSets

CONSTANTS Writers,      \* processes (or threads) that call put()
          Payloads,     \* byte strings; a payload stands for its digest too
          Mimes,        \* MIME types as the sources report them
          ExtensionOf,  \* the extension the MIME table gives each of them
          Inodes,       \* identities of files on disk
          NoInode,      \* a name bound to no file
          Truncated,    \* the bytes of a file opened for writing, not written yet
          MaxCrashes    \* bound: how many writers may be killed in a behaviour

ASSUME EvidenceStoreAssumption ==
    /\ NoInode \notin Inodes
    /\ Truncated \notin Payloads
    /\ MaxCrashes \in Nat

\* The digest of the payload and the extension of its MIME type make the key.
Keys == Payloads \X {ExtensionOf[m] : m \in Mimes}

build_key(payload, mime) == <<payload, ExtensionOf[mime]>>

PayloadOf == [k \in Keys |-> k[1]]

VARIABLES path,     \* path[k]: the inode the key's own name is bound to
          partial,  \* partial[k]: the inode its ".partial" sibling is bound to
          sidecar,  \* keys whose .meta.json has been written
          bytes,    \* bytes[i]: the contents of an inode
          put,      \* put[w]: the call writer w is in
          result,   \* result[w]: how w's last call ended
          crashes   \* writers killed so far

vars == <<path, partial, sidecar, bytes, put, result, crashes>>

Steps == {"idle", "absent", "opened", "written", "published"}

Results == {"none", "stored", "deduplicated", "ImmutabilityViolationError",
            "FileNotFoundError", "killed"}

TypeOK ==
    /\ path \in [Keys -> Inodes \cup {NoInode}]
    /\ partial \in [Keys -> Inodes \cup {NoInode}]
    /\ sidecar \subseteq Keys
    /\ bytes \in [Inodes -> Payloads \cup {Truncated}]
    /\ put \in [Writers -> [step : Steps, key : Keys, fd : Inodes \cup {NoInode}]]
    /\ result \in [Writers -> Results]
    /\ crashes \in 0..MaxCrashes

Init ==
    /\ path = [k \in Keys |-> NoInode]
    /\ partial = [k \in Keys |-> NoInode]
    /\ sidecar = {}
    /\ bytes = [i \in Inodes |-> Truncated]
    /\ put \in [Writers -> [step : {"idle"}, key : Keys, fd : {NoInode}]]
    /\ \A v, w \in Writers : put[v] = put[w]
    /\ result = [w \in Writers |-> "none"]
    /\ crashes = 0

\* An inode that no name and no open file refers to.
Free(i) ==
    /\ \A k \in Keys : path[k] # i /\ partial[k] # i
    /\ \A w \in Writers : put[w].fd # i

\* The call of w ends: its file handle is gone with it.
Return(w, outcome) ==
    /\ put' = [put EXCEPT ![w] = [step |-> "idle", key |-> @.key, fd |-> NoInode]]
    /\ result' = [result EXCEPT ![w] = outcome]

-----------------------------------------------------------------------------
(* put(), one action per file-system call                                  *)

\* path.exists() is true: re-hash what is there, write nothing.
PutExisting(w) ==
    /\ put[w].step = "idle"
    /\ \E payload \in Payloads, mime \in Mimes :
         LET key == build_key(payload, mime) IN
         /\ path[key] # NoInode
         /\ result' = [result EXCEPT ![w] =
                         IF bytes[path[key]] = payload
                         THEN "deduplicated" ELSE "ImmutabilityViolationError"]
         /\ put' = [put EXCEPT ![w].key = key]
    /\ UNCHANGED <<path, partial, sidecar, bytes, crashes>>

\* path.exists() is false: go on to write the file.
PutAbsent(w) ==
    /\ put[w].step = "idle"
    /\ \E payload \in Payloads, mime \in Mimes :
         LET key == build_key(payload, mime) IN
         /\ path[key] = NoInode
         /\ put' = [put EXCEPT ![w] = [step |-> "absent", key |-> key, fd |-> NoInode]]
    /\ UNCHANGED <<path, partial, sidecar, bytes, result, crashes>>

\* write_bytes opens the sibling for writing: a new file, or the one another
\* writer (alive or killed) has left under that name, emptied.
OpenPartial(w) ==
    LET key == put[w].key IN
    /\ put[w].step = "absent"
    /\ \E i \in Inodes :
         /\ IF partial[key] = NoInode THEN Free(i) ELSE i = partial[key]
         /\ partial' = [partial EXCEPT ![key] = i]
         /\ bytes' = [bytes EXCEPT ![i] = Truncated]
         /\ put' = [put EXCEPT ![w] = [step |-> "opened", key |-> key, fd |-> i]]
    /\ UNCHANGED <<path, sidecar, result, crashes>>

\* Mutant: writes by name, to whatever the sibling's name is bound to by now.
WritePartialByName(w) ==
    /\ put[w].step = "opened"
    /\ bytes' = [i \in Inodes |-> IF i = partial[put[w].key]
                                  THEN PayloadOf[put[w].key] ELSE bytes[i]]
    /\ put' = [put EXCEPT ![w] = [step |-> "written", key |-> @.key, fd |-> NoInode]]
    /\ UNCHANGED <<path, partial, sidecar, result, crashes>>

\* Mutant: does not write when the key has been published meanwhile.
WriteUnlessPublished(w) ==
    /\ put[w].step = "opened"
    /\ bytes' = IF path[put[w].key] # NoInode THEN bytes
                ELSE [bytes EXCEPT ![put[w].fd] = PayloadOf[put[w].key]]
    /\ put' = [put EXCEPT ![w] = [step |-> "written", key |-> @.key, fd |-> NoInode]]
    /\ UNCHANGED <<path, partial, sidecar, result, crashes>>

\* write_bytes writes and closes: to the inode it opened, whatever name that
\* inode has by now.
WritePartial(w) ==
    /\ put[w].step = "opened"
    /\ bytes' = [bytes EXCEPT ![put[w].fd] = PayloadOf[put[w].key]]
    /\ put' = [put EXCEPT ![w] = [step |-> "written", key |-> @.key, fd |-> NoInode]]
    /\ UNCHANGED <<path, partial, sidecar, result, crashes>>

\* Mutant: renames before the bytes are written.
PublishEarly(w) ==
    LET key == put[w].key IN
    /\ put[w].step \in {"opened", "written"}
    /\ partial[key] # NoInode
    /\ path' = [path EXCEPT ![key] = partial[key]]
    /\ partial' = [partial EXCEPT ![key] = NoInode]
    /\ put' = [put EXCEPT ![w].step = "published"]
    /\ UNCHANGED <<sidecar, bytes, result, crashes>>

\* Mutant: the sibling is moved to a name that is not the key's.
PublishElsewhere(w) ==
    LET key == put[w].key IN
    /\ put[w].step = "written"
    /\ partial[key] # NoInode
    /\ partial' = [partial EXCEPT ![key] = NoInode]
    /\ put' = [put EXCEPT ![w].step = "published"]
    /\ UNCHANGED <<path, sidecar, bytes, result, crashes>>

\* tmp_path.replace(path) publishes the inode the sibling's name is bound to.
Publish(w) ==
    LET key == put[w].key IN
    /\ put[w].step = "written"
    /\ partial[key] # NoInode
    /\ path' = [path EXCEPT ![key] = partial[key]]
    /\ partial' = [partial EXCEPT ![key] = NoInode]
    /\ put' = [put EXCEPT ![w].step = "published"]
    /\ UNCHANGED <<sidecar, bytes, result, crashes>>

\* Another writer's replace() has already taken the sibling away.
PublishMissing(w) ==
    /\ put[w].step = "written"
    /\ partial[put[w].key] = NoInode
    /\ Return(w, "FileNotFoundError")
    /\ UNCHANGED <<path, partial, sidecar, bytes, crashes>>

\* The .meta.json sidecar, and the StoredObject is returned.
WriteSidecar(w) ==
    /\ put[w].step = "published"
    /\ sidecar' = sidecar \cup {put[w].key}
    /\ Return(w, "stored")
    /\ UNCHANGED <<path, partial, bytes, crashes>>

\* The process dies inside put(); what it did to the disk stays.
Crash(w) ==
    /\ put[w].step # "idle"
    /\ crashes < MaxCrashes
    /\ crashes' = crashes + 1
    /\ Return(w, "killed")
    /\ UNCHANGED <<path, partial, sidecar, bytes>>

PutStep(w) ==
    \/ OpenPartial(w) \/ WritePartial(w)
    \/ Publish(w) \/ PublishMissing(w) \/ WriteSidecar(w)

Next ==
    \E w \in Writers : PutExisting(w) \/ PutAbsent(w) \/ PutStep(w) \/ Crash(w)

Spec == Init /\ [][Next]_vars

\* A call that has begun goes on: nothing in put() waits for anyone.
FairSpec == Spec /\ \A w \in Writers : WF_vars(PutStep(w))

-----------------------------------------------------------------------------
(* Properties                                                              *)

\* get(key): the bytes a reader of the archive is given.
get(key) == IF path[key] = NoInode THEN NoInode ELSE bytes[path[key]]

\* verify(key): the stored bytes hash to the digest in the key.
verify(key) == path[key] # NoInode /\ get(key) = PayloadOf[key]

\* Whatever is published verifies.  With one writer this holds through every
\* crash, which is what the write-then-rename of put() is for.
PublishedVerifies == \A k \in Keys : path[k] # NoInode => verify(k)

\* A published file that does not verify is being written at this moment: some
\* writer holds that very inode open.  (Writers of the same content share one
\* ".partial" name, so a rename can publish a file another writer has just
\* emptied.)
UnverifiedIsBeingWritten ==
    \A k \in Keys : path[k] # NoInode /\ ~verify(k) =>
        \E w \in Writers : put[w].step = "opened" /\ put[w].fd = path[k]

\* A lost race is not a lost document: a writer whose rename found no sibling
\* (FileNotFoundError) leaves a key that somebody has published.
FailedRenameWasPublished ==
    \A w \in Writers : result[w] = "FileNotFoundError" /\ put[w].step = "idle" =>
        path[put[w].key] # NoInode

\* Once published, a document is in the end readable and stays so.
PublishedIsEventuallyReadable ==
    \A k \in Keys : (path[k] # NoInode) ~> [](verify(k))

\* The comment above the rename: a crashed process cannot leave a truncated
\* file that would later fail hash verification.
CrashLeavesNoTruncatedFile ==
    (\A w \in Writers : put[w].step = "idle") => PublishedVerifies

\* One writer at a time is an immutable store, crashes included.
Immutable == INSTANCE ImmutableStore
    WITH Absent <- NoInode, contents <- [k \in Keys |-> get(k)]

ImplementsImmutableStore == Immutable!Spec
=============================================================================
