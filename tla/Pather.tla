------------------------------- MODULE Pather -------------------------------
(***************************************************************************)
(* The namepath pathers of the two layout roots (docker/registry/v2 and   *)
(* oci/v1): tag path <-> repo:tag and sharded blob path <-> digest.  Their *)
(* code (lib/backend/namepath) is not in this snapshot; the operators      *)
(* follow the layouts of the OCI design document (src/unnamed/part_000)    *)
(* and spec section 4.2.                                                   *)
(*                                                                         *)
(* TLA+ strings cannot be split, so a path is a sequence of segments and a *)
(* segment a sequence of characters; a word such as "repositories" is the  *)
(* one-token segment W("repositories").  A sha256 hex digest is a segment  *)
(* of hex characters, and its shard is its first two characters.          *)
(* The two roots share one generic layout, parameterised by the root       *)
(* prefix (spec section 9).                                                *)
(***************************************************************************)
EXTENDS Naturals, Sequences

W(word) == <<word>>

DockerV2 == <<W("docker"), W("registry"), W("v2")>>
OCIv1    == <<W("oci"), W("v1")>>
LayoutRoots == {DockerV2, OCIv1}

NoMatch == [ok |-> FALSE]

HasPrefix(path, pre) ==
    Len(path) >= Len(pre) /\ SubSeq(path, 1, Len(pre)) = pre

(* nameToTagPath: <root>/repositories/<repo>/_manifests/tags/<tag>/current/link *)
TagPath(root, repo, tag) ==
    root \o <<W("repositories")>> \o repo
         \o <<W("_manifests"), W("tags"), tag, W("current"), W("link")>>

(* tagPathToName: the match ^<root>/repositories/(.+)/_manifests/tags/     *)
(* ([^/]+)/current/link$: the repository is everything between the prefix  *)
(* and the five fixed trailing segments.                                   *)
TagPathToName(root, path) ==
    LET pre == root \o <<W("repositories")>>
        n   == Len(path)
    IN  IF /\ HasPrefix(path, pre)
           /\ n >= Len(pre) + 6
           /\ path[n - 4] = W("_manifests") /\ path[n - 3] = W("tags")
           /\ path[n - 1] = W("current")    /\ path[n] = W("link")
        THEN [ok |-> TRUE, repo |-> SubSeq(path, Len(pre) + 1, n - 5),
              tag |-> path[n - 2]]
        ELSE NoMatch

Shard(hex) == SubSeq(hex, 1, 2)

(* Mutant: a three-character shard directory.                              *)
BlobPathWideShard(root, hex) ==
    root \o <<W("blobs"), W("sha256"), SubSeq(hex, 1, 3), hex, W("data")>>

(* blobPath: <root>/blobs/sha256/<first two hex>/<hex>/data                 *)
BlobPath(root, hex) ==
    root \o <<W("blobs"), W("sha256"), Shard(hex), hex, W("data")>>

(* blobPathToDigest: the match ^<root>/blobs/sha256/(..)/([0-9a-f]+)/data$ *)
(* that also rejects a shard which is not the digest's first two chars.    *)
BlobPathToDigest(root, path) ==
    LET pre == root \o <<W("blobs"), W("sha256")>>
        n   == Len(path)
    IN  IF /\ HasPrefix(path, pre)
           /\ n = Len(pre) + 3
           /\ path[n] = W("data")
           /\ Len(path[n - 2]) = 2
           /\ Len(path[n - 1]) >= 2
           /\ path[n - 2] = Shard(path[n - 1])
        THEN [ok |-> TRUE, hex |-> path[n - 1]]
        ELSE NoMatch
=============================================================================
