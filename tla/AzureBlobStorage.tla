--------------------------- MODULE AzureBlobStorage ---------------------------
(***************************************************************************)
(* The storage provider "BlobStore": the state of one grain, kept as one   *)
(* blob, read and written by the activations of that grain.  There should  *)
(* be one activation at a time; while a silo is wrongly taken for dead     *)
(* there are two, and the ETag of the blob is what keeps them apart.       *)
(*                                                                         *)
(* Every operation swallows its exceptions, so its caller goes on with the *)
(* state it has.  A write that fails leaves the activation with no ETag,   *)
(* and a write with no ETag has no condition.  The operations are          *)
(* conjuncts of the actions of the grain that awaits them: no other code   *)
(* of the same activation runs meanwhile.                                  *)
(***************************************************************************)
EXTENDS Naturals

CONSTANTS
    Activations,    \* where activations of the grain can be
    EmptyState,     \* the State of a new activation
    MaxVersions,    \* bound: versions of the blob
    MaxFailures     \* bound: everything that goes wrong

ASSUME StorageAssumption ==
    /\ MaxVersions \in Nat
    /\ MaxFailures \in Nat

VARIABLES
    container,      \* does the container exist?
    blob,           \* the content of the blob, with its ETag
    versions,       \* number of versions written so far; ETags are numbers
    state,          \* activation -> its State
    etag,           \* activation -> State.Etag
    failures        \* failures that happened so far

storageVars == <<container, blob, versions, state, etag>>

NoEtag == 0    \* State.Etag = null

NoBlob == [etag |-> NoEtag, data |-> EmptyState]

Fail ==
    /\ failures < MaxFailures
    /\ failures' = failures + 1

\* Init of the provider creates the container.
StorageInit ==
    /\ container = TRUE
    /\ blob = NoBlob
    /\ versions = 0
    /\ state = [a \in Activations |-> EmptyState]
    /\ etag = [a \in Activations |-> NoEtag]
    /\ failures = 0

\* Somebody deletes the container.
ContainerDeleted ==
    /\ Fail
    /\ container' = FALSE
    /\ blob' = NoBlob
    /\ UNCHANGED <<versions, state, etag>>

\* Without a blob, and after an error, the activation keeps what it has.
ReadStateAsync(a) ==
    /\ \/ /\ blob.etag # NoEtag
          /\ state' = [state EXCEPT ![a] = blob.data]
          /\ etag' = [etag EXCEPT ![a] = blob.etag]
          /\ UNCHANGED failures
       \/ /\ UNCHANGED <<state, etag>>
          /\ IF blob.etag = NoEtag THEN UNCHANGED failures ELSE Fail
    /\ UNCHANGED <<container, blob, versions>>

\* The service accepts a write without condition, or one that matches.
Matches(a) == etag[a] \in {NoEtag, blob.etag}

Uploaded(data) ==
    /\ versions < MaxVersions
    /\ versions' = versions + 1
    /\ blob' = [etag |-> versions + 1, data |-> data]

\* Mutant: a refused write takes the ETag of the version that refused it.
WriteStateAdopts(a, data) ==
    /\ state' = [state EXCEPT ![a] = data]
    /\ \/ Matches(a) /\ Uploaded(data)
       \/ ~Matches(a) /\ UNCHANGED <<blob, versions>>
    /\ etag' = [etag EXCEPT ![a] = blob'.etag]
    /\ UNCHANGED <<container, failures>>

\* Activation a writes "data".  The catch around the first upload looks only for
\* a missing container: after any other error the ETag of a blob reference that
\* was never written is copied, and that is null.  When that error has no details,
\* or the second upload fails, the outer catch keeps the ETag.
WriteStateAsync(a, data) ==
    /\ state' = [state EXCEPT ![a] = data]
    /\ \/ /\ Matches(a)                       \* written
          /\ Uploaded(data)
          /\ container' = TRUE
          /\ etag' = [etag EXCEPT ![a] = versions + 1]
          /\ UNCHANGED failures
       \/ /\ ~Matches(a)                      \* refused, maybe by a new container
          /\ container' = TRUE
          /\ etag' = [etag EXCEPT ![a] = IF container THEN NoEtag ELSE @]
          /\ UNCHANGED <<blob, versions, failures>>
       \/ /\ Fail                             \* failed, maybe after it was done
          /\ \/ UNCHANGED <<blob, versions>> /\ container' \in {container, TRUE}
             \/ Matches(a) /\ Uploaded(data) /\ container' = TRUE
          /\ \/ UNCHANGED etag
             \/ container' = container /\ etag' = [etag EXCEPT ![a] = NoEtag]

===============================================================================
