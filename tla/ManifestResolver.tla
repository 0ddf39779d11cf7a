-------------------------- MODULE ManifestResolver --------------------------
(***************************************************************************)
(* dockerutil.ParseManifest followed by dockerutil.GetManifestReferences   *)
(* (src/utils/dockerutil/dockerutil.go).                                   *)
(*                                                                         *)
(* ParseManifest reads the body and tries four parsers in a fixed order,   *)
(* returning the first success or, when all fail, the error of the last   *)
(* one.  Each step of that chain is one action here, so the order of the   *)
(* attempts, every early return and every error path is a transition.     *)
(* The caller then flattens the references of the parsed manifest with    *)
(* GetManifestReferences, one loop iteration per action.                   *)
(*                                                                         *)
(* A manifest body is abstracted to the fields the parsers look at: the    *)
(* declared mediaType, schemaVersion, whether a config/layers block or a   *)
(* manifests block is present, and the digests of the descriptors in      *)
(* them.  distribution.UnmarshalManifest is an external library; it is     *)
(* modelled by UnmarshalManifest below from its documented behaviour.     *)
(***************************************************************************)
EXTENDS Naturals, Sequences, SequencesExt

CONSTANTS
    Versions,        \* schemaVersion values a body may declare
    GoodDigests,     \* well-formed "sha256:<64 hex>" digest strings
    BadDigests,      \* digests core.ParseSHA256Digest rejects (other algo, empty)
    MaxRefs,         \* bound on the length of layers / manifests arrays
    LibChecksShape   \* distribution >= 2.8: validateManifest / validateIndex

ASSUME /\ 2 \in Versions
       /\ GoodDigests \cap BadDigests = {}
       /\ MaxRefs \in Nat
       /\ LibChecksShape \in BOOLEAN

(* The four media types (dockerutil.go constants).                         *)
V2ManifestType     == "application/vnd.docker.distribution.manifest.v2+json"
V2ManifestListType == "application/vnd.docker.distribution.manifest.list.v2+json"
OciManifestType    == "application/vnd.oci.image.manifest.v1+json"
OciIndexType       == "application/vnd.oci.image.index.v1+json"

(* GetSupportedManifestTypes: the Accept list, in the order it is joined.  *)
SupportedManifestTypes ==
    <<V2ManifestType, V2ManifestListType, OciManifestType, OciIndexType>>

(* mediaType values a body may declare: the four, none, or something else. *)
NoMediaType    == ""
OtherMediaType == "application/json"
DeclaredTypes  == ToSet(SupportedManifestTypes) \cup {NoMediaType, OtherMediaType}

Digests == GoodDigests \cup BadDigests
DescLists == BoundedSeq(Digests, MaxRefs)

(* A body io.ReadAll returns: either unreadable, not JSON, or a document.   *)
(* 'blobs' is config followed by layers (<<>>: no config/layers fields);  *)
(* 'manifests' the index entries, present or not (an empty array is        *)
(* present).                                                               *)
Documents ==
    [readable: {TRUE}, json: {TRUE}, mediaType: DeclaredTypes,
     version: Versions, blobs: DescLists, hasManifests: BOOLEAN,
     manifests: DescLists]
    \ {d \in [readable: {TRUE}, json: {TRUE}, mediaType: DeclaredTypes,
              version: Versions, blobs: DescLists, hasManifests: {FALSE},
              manifests: DescLists] : d.manifests # <<>>}
Unreadable == [readable |-> FALSE, json |-> FALSE, mediaType |-> NoMediaType,
               version |-> 2, blobs |-> <<>>, hasManifests |-> FALSE,
               manifests |-> <<>>]
NotJson    == [Unreadable EXCEPT !.readable = TRUE]
Payloads   == Documents \cup {Unreadable, NotJson}

(***************************************************************************)
(* Environment: distribution.UnmarshalManifest(mediaType, bytes).  It      *)
(* looks up the unmarshal function registered for the media type:          *)
(*  schema2: the body's mediaType must be exactly the v2 type;             *)
(*  ocischema: mediaType empty or the OCI manifest type, and (>= 2.8) no   *)
(*    "manifests" field;                                                   *)
(*  manifestlist (list type): mediaType exactly the list type (2.8 only   *)
(*    validates the index type's shape);                                   *)
(*  manifestlist (OCI index type): mediaType empty or the OCI index type,  *)
(*    and (>= 2.8) no config/layers.                                       *)
(* Its descriptor digest is digest.FromBytes(bytes): always sha256.        *)
(***************************************************************************)
UnmarshalManifest(mt, p) ==
    /\ p.json
    /\ CASE mt = V2ManifestType ->
                p.mediaType = V2ManifestType
         [] mt = OciManifestType ->
                /\ p.mediaType \in {NoMediaType, OciManifestType}
                /\ LibChecksShape => ~p.hasManifests
         [] mt = V2ManifestListType ->
                /\ p.mediaType = V2ManifestListType
         [] mt = OciIndexType ->
                /\ p.mediaType \in {NoMediaType, OciIndexType}
                /\ LibChecksShape => p.blobs = <<>>
DescriptorDigestIsSHA256 == TRUE

(* Manifest.References(): config then layers for image manifests (an      *)
(* absent config is the zero descriptor, digest ""), entries for lists.   *)
EmptyDigest == CHOOSE d \in BadDigests : TRUE
References(kind, p) ==
    IF kind \in {V2ManifestType, OciManifestType}
    THEN IF p.blobs = <<>> THEN <<EmptyDigest>> ELSE p.blobs
    ELSE p.manifests

(***************************************************************************)
(* The four parsers.  Each returns [ok, err]: err is the error kind the    *)
(* parser reports ("unmarshal", "version", "digest").  The type assertion  *)
(* (manifest.(T) in Go) always holds for the function registered for the  *)
(* media type asked for, so its error path is not reachable.               *)
(***************************************************************************)
Accept     == [ok |-> TRUE, err |-> "none"]
Reject(k)  == [ok |-> FALSE, err |-> k]

(* ParseManifestV2, ParseManifestV2List and ParseOCIManifest share one     *)
(* shape: unmarshal under their media type, gate on schemaVersion 2, parse *)
(* the descriptor digest.                                                   *)
ParseVersioned(mt, p) ==
    IF ~UnmarshalManifest(mt, p) THEN Reject("unmarshal")
    ELSE IF p.version # 2 THEN Reject("version")
    ELSE IF ~DescriptorDigestIsSHA256 THEN Reject("digest")
    ELSE Accept

(* Variant: the list parser unmarshals with the OCI index media type.     *)
ParseManifestV2ListAsIndex(p) == ParseVersioned(OciIndexType, p)

ParseManifestV2(p)     == ParseVersioned(V2ManifestType, p)
ParseManifestV2List(p) == ParseVersioned(V2ManifestListType, p)
ParseOCIManifest(p)    == ParseVersioned(OciManifestType, p)

(* Variant: the index parsed with the manifest list media type, which the *)
(* code's comment ("similar structure") invites.                           *)
ParseOCIIndexAsList(p) ==
    IF ~UnmarshalManifest(V2ManifestListType, p) THEN Reject("unmarshal")
    ELSE IF ~DescriptorDigestIsSHA256 THEN Reject("digest")
    ELSE Accept

(* ParseOCIIndex has no type assertion and no schemaVersion check.         *)
ParseOCIIndex(p) ==
    IF ~UnmarshalManifest(OciIndexType, p) THEN Reject("unmarshal")
    ELSE IF ~DescriptorDigestIsSHA256 THEN Reject("digest")
    ELSE Accept

(* The fallback chain of ParseManifest: each stage names the media type of *)
(* the manifest its parser produces.                                       *)
ParseOrder == <<V2ManifestType, OciManifestType, V2ManifestListType, OciIndexType>>
Parser(stage, p) ==
    CASE stage = V2ManifestType     -> ParseManifestV2(p)
      [] stage = OciManifestType    -> ParseOCIManifest(p)
      [] stage = V2ManifestListType -> ParseManifestV2List(p)
      [] stage = OciIndexType       -> ParseOCIIndex(p)
(***************************************************************************)
(* State of one ParseManifest call and the GetManifestReferences call on   *)
(* its result.                                                             *)
(***************************************************************************)
VARIABLES
    payload,   \* the body the reader yields
    pc,        \* "read", "parse", "refs", "done"
    stage,     \* index in ParseOrder of the parser being tried
    manifest,  \* media type of the returned manifest, or None
    err,       \* error ParseManifest returns: [stage, kind], or NoError
    i,         \* loop index of GetManifestReferences
    refs,      \* the []core.Digest being built
    refsErr    \* GetManifestReferences returned an error

vars == <<payload, pc, stage, manifest, err, i, refs, refsErr>>

None == "none"
NoError == [stage |-> None, kind |-> None]
Stages == 1..Len(ParseOrder)
Errors == [stage: ToSet(ParseOrder) \cup {"read"},
           kind: {"read", "unmarshal", "version", "digest"}]

TypeOK ==
    /\ payload \in Payloads
    /\ pc \in {"read", "parse", "refs", "done"}
    /\ stage \in Stages
    /\ manifest \in ToSet(ParseOrder) \cup {None}
    /\ err \in Errors \cup {NoError}
    /\ i \in 1..(MaxRefs + 1)
    /\ refs \in BoundedSeq(GoodDigests, MaxRefs)
    /\ refsErr \in BOOLEAN

Init ==
    /\ payload \in Payloads
    /\ pc = "read"
    /\ stage = 1
    /\ manifest = None
    /\ err = NoError
    /\ i = 1
    /\ refs = <<>>
    /\ refsErr = FALSE

(* io.ReadAll(r) succeeds: go on to the parsers.                          *)
ReadBody ==
    /\ pc = "read"
    /\ payload.readable
    /\ pc' = "parse"
    /\ UNCHANGED <<payload, stage, manifest, err, i, refs, refsErr>>

(* io.ReadAll(r) fails: return fmt.Errorf("read: %s", err).                *)
ReadFails ==
    /\ pc = "read"
    /\ ~payload.readable
    /\ err' = [stage |-> "read", kind |-> "read"]
    /\ pc' = "done"
    /\ UNCHANGED <<payload, stage, manifest, i, refs, refsErr>>

CurrentParse == Parser(ParseOrder[stage], payload)

(* The parser of this stage succeeds: return its manifest, err = nil.      *)
ParseSucceeds ==
    /\ pc = "parse"
    /\ CurrentParse.ok
    /\ manifest' = ParseOrder[stage]
    /\ err' = NoError
    /\ pc' = "refs"
    /\ UNCHANGED <<payload, stage, i, refs, refsErr>>

(* Variant: return on the first error instead of falling through.         *)
ParseStopsAtFirstError ==
    /\ pc = "parse"
    /\ ~CurrentParse.ok
    /\ stage < Len(ParseOrder)
    /\ err' = [stage |-> ParseOrder[stage], kind |-> CurrentParse.err]
    /\ pc' = "done"
    /\ UNCHANGED <<payload, stage, manifest, i, refs, refsErr>>

(* A parser other than the last fails: err is overwritten, try the next.   *)
ParseFallsThrough ==
    /\ pc = "parse"
    /\ ~CurrentParse.ok
    /\ stage < Len(ParseOrder)
    /\ err' = [stage |-> ParseOrder[stage], kind |-> CurrentParse.err]
    /\ stage' = stage + 1
    /\ UNCHANGED <<payload, pc, manifest, i, refs, refsErr>>

(* return ParseOCIIndex(b): its error is the one the caller sees.          *)
ParseFails ==
    /\ pc = "parse"
    /\ ~CurrentParse.ok
    /\ stage = Len(ParseOrder)
    /\ err' = [stage |-> ParseOrder[stage], kind |-> CurrentParse.err]
    /\ pc' = "done"
    /\ UNCHANGED <<payload, stage, manifest, i, refs, refsErr>>

RefList == References(manifest, payload)

(* Variant: the result of core.ParseSHA256Digest is not checked.          *)
RefAppendUnchecked ==
    /\ pc = "refs"
    /\ i <= Len(RefList)
    /\ refs' = Append(refs, RefList[i])
    /\ i' = i + 1
    /\ UNCHANGED <<payload, pc, stage, manifest, err, refsErr>>

(* One iteration over manifest.References(): the digest parses, append.   *)
RefAppend ==
    /\ pc = "refs"
    /\ i <= Len(RefList)
    /\ RefList[i] \in GoodDigests
    /\ refs' = Append(refs, RefList[i])
    /\ i' = i + 1
    /\ UNCHANGED <<payload, pc, stage, manifest, err, refsErr>>

(* Variant: a malformed digest is skipped and the loop goes on.           *)
RefSkipsBad ==
    /\ pc = "refs"
    /\ i <= Len(RefList)
    /\ RefList[i] \notin GoodDigests
    /\ i' = i + 1
    /\ UNCHANGED <<payload, pc, stage, manifest, err, refs, refsErr>>

(* The digest does not parse: return nil, fmt.Errorf("parse digest: %w").  *)
RefFails ==
    /\ pc = "refs"
    /\ i <= Len(RefList)
    /\ RefList[i] \notin GoodDigests
    /\ refs' = <<>>
    /\ refsErr' = TRUE
    /\ pc' = "done"
    /\ UNCHANGED <<payload, stage, manifest, err, i>>

(* Loop over: return refs, nil.                                            *)
RefsReturn ==
    /\ pc = "refs"
    /\ i > Len(RefList)
    /\ pc' = "done"
    /\ UNCHANGED <<payload, stage, manifest, err, i, refs, refsErr>>

Next ==
    \/ ReadBody \/ ReadFails
    \/ ParseSucceeds \/ ParseFallsThrough \/ ParseFails
    \/ RefAppend \/ RefFails \/ RefsReturn

Spec == Init /\ [][Next]_vars

(***************************************************************************)
(* Properties.  ValidVariants is the spec's contract for one variant       *)
(* (section 4.1): the body deserialises under that variant's grammar and   *)
(* its schemaVersion is 2.                                                 *)
(***************************************************************************)
ParseReturned == pc \in {"refs", "done"}
ValidVariants(p) ==
    {mt \in ToSet(ParseOrder) : UnmarshalManifest(mt, p) /\ p.version = 2}

(* A body valid under exactly one variant resolves to that variant,        *)
(* whatever earlier parsers in ParseManifest's fallback chain reject it.   *)
UniqueVariantResolved ==
    (ParseReturned /\ Cardinality(ValidVariants(payload)) = 1)
        => manifest \in ValidVariants(payload)

(* The variant ParseManifest returns is the one the body declares: its     *)
(* mediaType, or, for OCI bodies that omit mediaType, the one whose shape  *)
(* (config/layers vs manifests) the body has.  Never a silent coercion of  *)
(* one variant into another by a later parser of the chain.               *)
DeclaresVariant(p, kind) ==
    \/ p.mediaType = kind
    \/ /\ p.mediaType = NoMediaType
       /\ \/ kind = OciManifestType /\ ~p.hasManifests
          \/ kind = OciIndexType /\ p.blobs = <<>>
ResolvedVariantMatchesDeclaredType ==
    manifest # None => DeclaresVariant(payload, manifest)

(* GetManifestReferences returns every reference digest, in References()  *)
(* order, when all of them parse, and an error with no digests as soon as  *)
(* one does not: never a partial or reordered list.                        *)
ReferencesFlattened ==
    (pc = "done" /\ manifest # None) =>
        IF ToSet(RefList) \subseteq GoodDigests
        THEN ~refsErr /\ refs = RefList
        ELSE refsErr /\ refs = <<>>

(* Spec section 8, resolver priority: a body valid under none of the four  *)
(* variants is rejected by ParseManifest.                                  *)
NoneValidIsRejected ==
    (ParseReturned /\ ValidVariants(payload) = {}) => manifest = None

(* Spec section 7: a body of a recognised media type whose schemaVersion  *)
(* is not 2 is rejected as a schema version mismatch, not reported as the  *)
(* error of a later, unrelated parser of the chain.                        *)
VersionMismatchReported ==
    (/\ pc = "done" /\ manifest = None /\ payload.json
     /\ payload.mediaType \in ToSet(ParseOrder) /\ payload.version # 2)
        => err.kind = "version"

=============================================================================
