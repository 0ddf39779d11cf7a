------------------------- MODULE StorageCoordinator -------------------------
(***************************************************************************)
(* The dual-layout storage coordinator of spec sections 4.4 and 5 (its     *)
(* code is not in this snapshot).  A push under a layout root writes the   *)
(* manifest blob to the blob store shared by both roots, then atomically   *)
(* re-points the tag link stored at that root's tag path.  A pusher may    *)
(* crash between the two steps.  A read of a tag path resolves it to       *)
(* repo:tag with the router and the pather, reads the link, and fetches    *)
(* the blob through the sharded blob path of either root, each path given  *)
(* in any of the router's three surface forms.                             *)
(***************************************************************************)
EXTENDS PathRouter

CONSTANTS
    Pushers, Readers,   \* concurrent push and pull handlers
    Repos,              \* repository names, as sequences of segments
    TagNames,           \* tag segments
    Hexes,              \* sha256 hex digests, as sequences of characters
    MaxPushes,          \* pushes each pusher makes
    MaxReads            \* reads each reader makes

Keys == [root: LayoutRoots, repo: Repos, tag: TagNames]
KeyPath(k) == TagPath(k.root, k.repo, k.tag)
TagPaths == {KeyPath(k) : k \in Keys}

NoDigest  == <<>>
NoKey     == [root |-> <<>>, repo |-> <<>>, tag |-> <<>>]
NoRequest == [key |-> NoKey, digest |-> NoDigest]

VARIABLES
    links,    \* links[path]: the digest in the tag link file, or NoDigest
    blobs,    \* digests whose blob is durably stored (content-addressed)
    ppc,      \* ppc[p] \in {"idle", "blob", "link"}
    preq,     \* preq[p]: the [key, digest] being pushed, or NoRequest
    pushes,   \* pushes[p]: pushes started
    rpc,      \* rpc[r] \in {"idle", "fetch", "done"}
    rdigest,  \* rdigest[r]: the digest the reader's link named
    rfound,   \* rfound[r]: the reader got the blob
    reads     \* reads[r]: reads started

vars == <<links, blobs, ppc, preq, pushes, rpc, rdigest, rfound, reads>>

TypeOK ==
    /\ links \in [TagPaths -> Hexes \cup {NoDigest}]
    /\ blobs \subseteq Hexes
    /\ ppc \in [Pushers -> {"idle", "blob", "link"}]
    /\ preq \in [Pushers -> [key: Keys, digest: Hexes] \cup {NoRequest}]
    /\ pushes \in [Pushers -> 0..MaxPushes]
    /\ rpc \in [Readers -> {"idle", "fetch", "done"}]
    /\ rdigest \in [Readers -> Hexes \cup {NoDigest}]
    /\ rfound \in [Readers -> BOOLEAN]
    /\ reads \in [Readers -> 0..MaxReads]

Init ==
    /\ links = [path \in TagPaths |-> NoDigest]
    /\ blobs = {}
    /\ ppc = [p \in Pushers |-> "idle"]
    /\ preq = [p \in Pushers |-> NoRequest]
    /\ pushes = [p \in Pushers |-> 0]
    /\ rpc = [r \in Readers |-> "idle"]
    /\ rdigest = [r \in Readers |-> NoDigest]
    /\ rfound = [r \in Readers |-> FALSE]
    /\ reads = [r \in Readers |-> 0]

ReaderVars == <<rpc, rdigest, rfound, reads>>

(* A push of digest d to tag k arrives (the manifest was resolved).        *)
StartPush(p, k, d) ==
    /\ ppc[p] = "idle"
    /\ pushes[p] < MaxPushes
    /\ ppc' = [ppc EXCEPT ![p] = "blob"]
    /\ preq' = [preq EXCEPT ![p] = [key |-> k, digest |-> d]]
    /\ pushes' = [pushes EXCEPT ![p] = @ + 1]
    /\ UNCHANGED <<links, blobs>> /\ UNCHANGED ReaderVars

(* Mutant: the blob is recorded under its shard key instead of its digest. *)
WriteBlobShardKey(p) ==
    /\ ppc[p] = "blob"
    /\ blobs' = blobs \cup {Shard(preq[p].digest)}
    /\ ppc' = [ppc EXCEPT ![p] = "link"]
    /\ UNCHANGED <<links, preq, pushes>> /\ UNCHANGED ReaderVars

(* Write the blob once, at its digest, shared by both roots (idempotent).  *)
WriteBlob(p) ==
    /\ ppc[p] = "blob"
    /\ blobs' = blobs \cup {preq[p].digest}
    /\ ppc' = [ppc EXCEPT ![p] = "link"]
    /\ UNCHANGED <<links, preq, pushes>> /\ UNCHANGED ReaderVars

(* Mutant: the link may be written before the blob.                        *)
SwapLinkEarly(p) ==
    /\ ppc[p] \in {"blob", "link"}
    /\ links' = [links EXCEPT ![KeyPath(preq[p].key)] = preq[p].digest]
    /\ ppc' = [ppc EXCEPT ![p] = "idle"]
    /\ preq' = [preq EXCEPT ![p] = NoRequest]
    /\ UNCHANGED <<blobs, pushes>> /\ UNCHANGED ReaderVars

(* Atomically swap the tag link under the requested root to the digest.   *)
SwapLink(p) ==
    /\ ppc[p] = "link"
    /\ links' = [links EXCEPT ![KeyPath(preq[p].key)] = preq[p].digest]
    /\ ppc' = [ppc EXCEPT ![p] = "idle"]
    /\ preq' = [preq EXCEPT ![p] = NoRequest]
    /\ UNCHANGED <<blobs, pushes>> /\ UNCHANGED ReaderVars

(* The push handler dies mid-push: a stored blob stays, unreferenced.     *)
CrashPusher(p) ==
    /\ ppc[p] \in {"blob", "link"}
    /\ ppc' = [ppc EXCEPT ![p] = "idle"]
    /\ preq' = [preq EXCEPT ![p] = NoRequest]
    /\ UNCHANGED <<links, blobs, pushes>> /\ UNCHANGED ReaderVars

(* The link a tag route names: the pather of the routed root parses the  *)
(* canonical path to repo:tag, whose link file is read.                    *)
LinkAt(m) ==
    LET name == TagPathToName(m.root, m.canon)
        norm == TagPath(m.root, name.repo, name.tag)
    IN  IF name.ok /\ norm \in DOMAIN links THEN links[norm] ELSE NoDigest

TagRoutes(path) == {m \in Route(path) : m.kind = "tag"}

(* Paths a pull may present: every surface form of every tag path.        *)
ReadPaths == UNION {SurfaceForms(k.root, KeyPath(k)) : k \in Keys}

(* A pull of a tag path, routed to a tag link that points at a digest.    *)
ReadTag(r, path, m) ==
    /\ rpc[r] = "idle"
    /\ reads[r] < MaxReads
    /\ LinkAt(m) # NoDigest
    /\ rdigest' = [rdigest EXCEPT ![r] = LinkAt(m)]
    /\ rpc' = [rpc EXCEPT ![r] = "fetch"]
    /\ reads' = [reads EXCEPT ![r] = @ + 1]
    /\ UNCHANGED <<links, blobs, ppc, preq, pushes, rfound>>

(* A pull of a tag path that no pattern routes to a tag, or whose link is *)
(* not (yet) written: not found.                                           *)
ReadTagMissing(r, path) ==
    /\ rpc[r] = "idle"
    /\ reads[r] < MaxReads
    /\ TagRoutes(path) = {} \/ \E m \in TagRoutes(path) : LinkAt(m) = NoDigest
    /\ rdigest' = [rdigest EXCEPT ![r] = NoDigest]
    /\ rfound' = [rfound EXCEPT ![r] = FALSE]
    /\ rpc' = [rpc EXCEPT ![r] = "done"]
    /\ reads' = [reads EXCEPT ![r] = @ + 1]
    /\ UNCHANGED <<links, blobs, ppc, preq, pushes>>

(* Blob paths of a digest: each surface form of its path under each root. *)
BlobPaths(d) == UNION {SurfaceForms(root, BlobPath(root, d)) : root \in LayoutRoots}

FetchPaths(r) == IF rdigest[r] = NoDigest THEN {} ELSE BlobPaths(rdigest[r])

(* The router sends a blob path to a root's blob pather, which parses the *)
(* canonical path back to the digest, looked up in the shared store.      *)
BlobFound(path) ==
    \E m \in Route(path) :
        LET parsed == BlobPathToDigest(m.root, m.canon)
        IN  m.kind = "blob" /\ parsed.ok /\ parsed.hex \in blobs

(* Fetch the blob named by the link through a blob path of either root,   *)
(* whichever root the tag was read under.                                  *)
FetchBlob(r, path) ==
    /\ rpc[r] = "fetch"
    /\ rfound' = [rfound EXCEPT ![r] = BlobFound(path)]
    /\ rpc' = [rpc EXCEPT ![r] = "done"]
    /\ UNCHANGED <<links, blobs, ppc, preq, pushes, rdigest, reads>>

ReaderReturns(r) ==
    /\ rpc[r] = "done"
    /\ rpc' = [rpc EXCEPT ![r] = "idle"]
    /\ UNCHANGED <<links, blobs, ppc, preq, pushes, rdigest, rfound, reads>>

Next ==
    \/ \E p \in Pushers :
          \/ \E k \in Keys, d \in Hexes : StartPush(p, k, d)
          \/ WriteBlob(p) \/ SwapLink(p) \/ CrashPusher(p)
    \/ \E r \in Readers :
          \/ \E path \in ReadPaths :
                \/ \E m \in TagRoutes(path) : ReadTag(r, path, m)
                \/ ReadTagMissing(r, path)
          \/ \E path \in FetchPaths(r) : FetchBlob(r, path)
          \/ ReaderReturns(r)

Spec == Init /\ [][Next]_vars

-----------------------------------------------------------------------------
(* Properties *)

(* Every surface form (absolute, root-relative, short) of the tag path of *)
(* an existing tag routes to that tag's own link under its own root, and  *)
(* to nothing else, so a pull of it reads that link (spec section 4.3).   *)
RoutedReadsAgree ==
    \A k \in Keys :
        links[KeyPath(k)] # NoDigest =>
            \A f \in SurfaceForms(k.root, KeyPath(k)) :
                LET m == [root |-> k.root, kind |-> "tag", canon |-> KeyPath(k)]
                IN  Route(f) = {m} /\ LinkAt(m) = links[KeyPath(k)]

(* A pull that read a digest from a tag link under one root finds its blob *)
(* through the blob path of either root, while pushers re-point the tag    *)
(* and crash mid-push: blobs are written before the link that names them,  *)
(* and both roots address one content-addressed store.                     *)
FetchFindsBlob ==
    \A r \in Readers : (rpc[r] = "done" /\ rdigest[r] # NoDigest) => rfound[r]

(* The coordinator implements the abstract tag store: each tag moves only *)
(* at a push's link swap, to the digest of that push, after its blob.     *)
TS == INSTANCE TagStore
        WITH Clients <- Pushers, Digests <- Hexes,
             tags <- [k \in Keys |-> links[KeyPath(k)]],
             request <- preq

ImplementsTagStore == TS!Spec
=============================================================================
