----------------------------- MODULE PathRouter -----------------------------
(***************************************************************************)
(* The path router (lib/dockerregistry/paths.go, not in this snapshot) as  *)
(* described by part_000 lines 93-101 and spec section 4.3: one pattern   *)
(* per (layout root, path kind), each accepting a full absolute path, a    *)
(* root-relative path (docker/registry/v2/..., oci/v1/...) and a short     *)
(* form starting at the version segment (v2/..., v1/...).  A pattern is   *)
(* "the version segment first, or the full root prefix after any absolute  *)
(* prefix, then the kind's shape"; Route(path) is every (root, kind) whose *)
(* pattern matches, with the canonical root-relative path the match       *)
(* denotes, for every way the prefix can be split off (how the regex       *)
(* resolves a choice is left open).  The pathers parse the canonical path. *)
(***************************************************************************)
EXTENDS Pather, FiniteSets

(* The version segment each root's short form starts at.                  *)
VersionSegment(root) == root[Len(root)]

Kinds == {"tag", "revision", "layer", "uploadData", "uploadHashstate", "blob"}
RepoKinds == Kinds \ {"blob"}

(* A capture group matching one segment ([^/]+); no segment is empty.     *)
Any == <<>>

(* What follows <repo> (for RepoKinds) or the version segment (blob).      *)
KindTail(kind) ==
    CASE kind = "tag"             -> <<W("_manifests"), W("tags"), Any, W("current"), W("link")>>
      [] kind = "revision"        -> <<W("_manifests"), W("revisions"), W("sha256"), Any, W("link")>>
      [] kind = "layer"           -> <<W("_layers"), W("sha256"), Any, W("link")>>
      [] kind = "uploadData"      -> <<W("_uploads"), Any, W("data")>>
      [] kind = "uploadHashstate" -> <<W("_uploads"), Any, W("hashstates"), Any, Any>>
      [] kind = "blob"            -> <<W("blobs"), W("sha256"), Any, Any, W("data")>>

SegmentsMatch(pattern, segs) ==
    /\ Len(pattern) = Len(segs)
    /\ \A j \in 1..Len(segs) : pattern[j] = Any \/ pattern[j] = segs[j]

(* The part after the version segment has the shape of the kind: for a    *)
(* repository kind, repositories/(.+)/<tail> with a non-empty repository. *)
RestMatches(kind, rest) ==
    LET t == KindTail(kind)
    IN  IF kind \in RepoKinds
        THEN /\ Len(rest) >= Len(t) + 2
             /\ rest[1] = W("repositories")
             /\ SegmentsMatch(t, SubSeq(rest, Len(rest) - Len(t) + 1, Len(rest)))
        ELSE SegmentsMatch(t, rest)

(* Mutant: any prefix may come before the version segment (a pattern     *)
(* such as .*v2/repositories/...).                                         *)
MatchAtAnyPrefix(root, kind, path, i) ==
    /\ path[i] = VersionSegment(root)
    /\ RestMatches(kind, SubSeq(path, i + 1, Len(path)))

(* Mutant: the pattern is anchored at the full root prefix, so the short  *)
(* form is not accepted.                                                   *)
MatchAtRootAnchored(root, kind, path, i) ==
    /\ i >= Len(root)
    /\ SubSeq(path, i - Len(root) + 1, i) = root
    /\ RestMatches(kind, SubSeq(path, i + 1, Len(path)))

(* The pattern of (root, kind) matches with the version segment at i:     *)
(* either the path starts there (short form), or the full root prefix ends *)
(* there, after nothing (root-relative) or any absolute prefix.            *)
MatchAt(root, kind, path, i) ==
    /\ path[i] = VersionSegment(root)
    /\ \/ i = 1
       \/ i >= Len(root) /\ SubSeq(path, i - Len(root) + 1, i) = root
    /\ RestMatches(kind, SubSeq(path, i + 1, Len(path)))

(* Every (root, kind) whose pattern matches the path, with the canonical  *)
(* path <root>/<rest> the match stands for, one per possible split.       *)
Route(path) ==
    LET splits == {s \in LayoutRoots \X Kinds \X (1..Len(path)) :
                        MatchAt(s[1], s[2], path, s[3])}
    IN  {[root |-> s[1], kind |-> s[2],
          canon |-> s[1] \o SubSeq(path, s[3] + 1, Len(path))] : s \in splits}

(* The three surface forms of a canonical path under root: absolute (below *)
(* an installation directory), root-relative, and short.                  *)
InstallDir == <<W("var"), W("lib"), W("registry")>>
SurfaceForms(root, canon) ==
    LET rest == SubSeq(canon, Len(root) + 1, Len(canon))
    IN  {InstallDir \o canon, canon, <<VersionSegment(root)>> \o rest}
=============================================================================
