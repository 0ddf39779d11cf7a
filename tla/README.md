# TLA+ models of Kraken's manifest resolution and OCI layout support

This directory holds TLA+ models of the OCI/Docker dual-format support in
Kraken (`Bryce-Soghigian/kraken`), the TLC configurations that check them, and
`PROJECT.json`, which maps every modelled definition to the source lines it
translates and lists the runs, mutants, findings and hazards.

## 1. Inventory

The repository snapshot in `src/` holds:

| file | contents |
|---|---|
| `src/utils/dockerutil/dockerutil.go` lines 1-156 | `dockerutil`: `ParseManifest`, the four parsers, `GetManifestReferences`, `GetSupportedManifestTypes` |
| same file, lines 157-424 | `dockerutil_test.go`: four byte fixtures and the table tests |
| same file, lines 425-456 | `closers.Close`, the deferred-release helper |
| `src/unnamed/part_000` | the OCI design document (layouts, pathers, routing, limitations) |
| `src/test/python/README_OCI.md` | how to run the OCI integration tests |

### Components

**Manifest Format Resolver** (`dockerutil.go` 28-156). State: none between
calls; within one call, the body read from the `io.Reader`, the parser being
tried and the last error. Operations:
- `ParseManifest(r)` reads the body (`io.ReadAll`, error path "read"), then
  tries `ParseManifestV2`, `ParseOCIManifest`, `ParseManifestV2List`,
  `ParseOCIIndex` in this order, returning the first success. When all four
  fail it returns the error of the last one.
- Each parser calls `distribution.UnmarshalManifest` with its media type. The
  library picks the unmarshal function registered for that type, which checks
  the body's declared `mediaType` and, since distribution 2.8, its shape: no
  `manifests` in an image manifest, no `config`/`layers` in an index. The parser
  then checks the Go type, checks `schemaVersion == 2`, and parses the
  descriptor digest. `ParseOCIIndex` does neither the type check nor the version
  check.
- `GetManifestReferences(m)` loops over `m.References()` (config then layers,
  or the index entries). It parses each digest with `core.ParseSHA256Digest` and
  returns `nil` and an error at the first one that fails.
- `GetSupportedManifestTypes()` joins the four media types for an `Accept`
  header.

Correctness: a body valid under exactly one variant resolves to it; a body
valid under none is rejected (spec section 8); the returned variant is the one
the body declares, never a coercion (section 3); a version mismatch is reported
as such (section 7); references come back complete and in order, or not at all.

**Scoped-resource closer** (`closers.Close`, 434-456). State: the resource's
open/closed status, owned by the resource itself. It closes; on error it logs
at Debug when the text is "file already closed" or "close: file already
closed", and at Error with a stack otherwise. It never returns the error.
Correctness: double release is harmless and quiet (its own comment, spec
section 5). Spec section 6 makes the helper log-only, so a failed close is
logged and dropped by design; the model records that and checks nothing
about it.

**Namepath Pather**, **Path Router**, **Dual-Layout Storage Coordinator**.
These are described in `part_000` and the spec (sections 4.2-4.4), but
their code (`lib/backend/namepath`, `lib/dockerregistry`) is not in `src/`.
- The Pather maps `repo:tag` to `<root>/repositories/<repo>/_manifests/tags/<tag>/current/link`
  and a digest to `<root>/blobs/sha256/<first two hex>/<digest>/data`, for the
  roots `docker/registry/v2` and `oci/v1`.
- The Router classifies absolute, prefixed and short paths.
- The Coordinator writes a blob and then a tag link under one root, over one
  blob store shared by both roots.

State lives only in the Coordinator: tag links (mutable) and blobs (written
once). Concurrent pushes to one tag, readers, and pushes of the same content
under both roots interleave there.

**Out of scope**: the HTTP layer, upstream registry backend, auth, catalog
listing (spec section 1), and the integration-test devcluster (`README_OCI.md`).

### Interactions

`ParseManifest` output (variant, digest) → the Coordinator. The Coordinator
uses the Pather of the requested root to write the tag link. Reads go path →
Router → Pather → digest → shared blob store. `closers.Close` is called on
every exit path of whoever opened a reader or file.

### What is hard

This code is single-threaded and pure except for the Coordinator. The hazards
(`PROJECT.json` "hazards") are these:
- the order of the fallback chain, and bodies that more than one parser accepts;
- error paths and which error survives;
- a validation step missing from one parser of four;
- the dependence on the library version;
- early return inside a loop;
- string matching of error texts;
- errors swallowed at close.

In the Coordinator, the hazards are interleavings of tag mutation and
readers, blob-before-link ordering, a push handler dying between its two
writes, and shard directories that disagree with their digest. In the Router,
a prefix-tolerant pattern can match at a version segment embedded in a
repository name.

## 2. Plan

1. **ManifestResolver** (done): the fallback chain and the references loop, the
   most-used logic in `src/`.
2. **Closers** (done): the release helper.
3. **Pather** (done): both layout roots as one operator parameterised by
   the root; tag path ↔ name and blob path ↔ digest with sharding, used by
   the coordinator's reads, so a pather that loses a repository segment or
   shards differently from its parser breaks `RoutedReadsAgree` or
   `FetchFindsBlob`. Mapped to `part_000` lines 32-121.
4. **PathRouter** (done): the three surface forms; surface-form equivalence
   and unambiguous classification, checked through the coordinator's reads.
5. **TagStore** (abstract) and **StorageCoordinator** (done): pushers (write blob, then
   swap link) and readers over two roots and one blob store.
   `StorageCoordinator` refines `TagStore` (INSTANCE ... WITH, the abstract spec
   as a PROPERTY). Invariants: every surface form of a tag path routes to its
   own link, and a digest read from a link has its blob under either root
   (both roots share one blob set by construction, so that part is given, not
   checked). No liveness property: see section 4.
6. **Registry** (not done; see section 5): ManifestResolver → StorageCoordinator.

## 3. Modules and runs

### ManifestResolver.tla / MCManifestResolver.tla

Variables:
- `payload`: the body, abstracted to its readability, JSON validity, declared
  `mediaType` (the four, `""`, or another type) and `schemaVersion`. It also
  keeps the digests of its config+layers (`blobs`) and of its `manifests` array
  (present or absent).
- `pc`: `read` → `parse` → `refs` → `done`.
- `stage`: the index in `ParseOrder`.
- `manifest`: the resolved media type.
- `err`: the last error, as stage and kind.
- `i`, `refs`, `refsErr`: the references loop.

Actions:
- `ReadBody`/`ReadFails`: lines 36-39.
- `ParseSucceeds`: the `if err == nil { return }` of each stage.
- `ParseFallsThrough`: the error is overwritten and the next parser is tried.
- `ParseFails`: the final `return ParseOCIIndex(b)`.
- `RefAppend`/`RefFails`/`RefsReturn`: lines 143-151.

The parsers are operators (`ParseVersioned` for the three gated ones,
`ParseOCIIndex`). `UnmarshalManifest` models the external library (distribution
2.8 when `LibChecksShape`). `References` models `Manifest.References()`.

Bounds (`MCManifestResolver`):
- the three digests of the test fixtures plus the empty digest;
- arrays of up to two descriptors;
- `schemaVersion` in {1, 2, 3}.

This covers every media type with every version, with and without either
array. It includes the empty-array and zero-config cases, malformed digests in
first and last position, and the four fixture bodies themselves. That is
49,813 states. A single call terminates, so the final state has no successor,
and the configs say `CHECK_DEADLOCK FALSE`.

| run | expect | what it shows |
|---|---|---|
| `resolver_safety` | pass | `UniqueVariantResolved`: a body valid under exactly one variant resolves to it. `ResolvedVariantMatchesDeclaredType`: the result is the declared variant (or, without `mediaType`, the one the body's shape fits). `ReferencesFlattened`: `GetManifestReferences` matches its closed form (all digests in order, or error and none). |
| `resolver_version_gate` | violation | `NoneValidIsRejected`: an OCI index with `schemaVersion: 1` is accepted (no version check in `ParseOCIIndex`). |
| `resolver_error_kind` | violation | `VersionMismatchReported`: a Docker v2 manifest or manifest list with a `schemaVersion` other than 2 (TLC's trace: a v2 manifest with `schemaVersion: 3`) is rejected with the OCI index parser's unmarshal error. |

### Pather.tla, PathRouter.tla, TagStore.tla, StorageCoordinator.tla / MCStorageCoordinator.tla

These four are modelled from `part_000` and spec sections 3-5, because their
code is not in `src/`.

`Pather` holds operators only. TLA+ strings cannot be split, so a path is a
sequence of segments and a segment is a sequence of characters. A fixed word
is the one-token segment `W("tags")`, and a digest is its hex characters.
- `TagPath` and `TagPathToName` are the tag pather. The repository is
  everything between `<root>/repositories` and the five fixed trailing
  segments, so it may span several segments.
- `BlobPath` and `BlobPathToDigest` are the sharded blob pather. The parser
  rejects a shard that is not the digest's first two characters (spec 4.2).

`PathRouter` holds operators only (`part_000` lines 93-101, spec 4.3).
- There is one pattern per layout root and path kind. The kinds are tag link,
  revision link, layer link, upload data, upload hashstate and blob data.
- A pattern (`MatchAt`) matches at the root's version segment (`v2` or `v1`)
  when that segment starts the path (the short form, `v2/...`, spec 4.3) or
  ends the full root prefix (`docker/registry/v2`), whether the root starts
  the path (root-relative) or follows an absolute prefix (`part_000` line 97).
  The rest must have the kind's shape.
- `Route(path)` is every match of every pattern, for every place the prefix
  could be split off. Each match carries its root, its kind and the canonical
  path `<root>/<rest>`.
- The regex code is not in `src/`, so its pattern order and greediness are
  unknown. The router may therefore pick any of these matches.
- `SurfaceForms(root, canon)` builds the three forms of a canonical path. The
  absolute form sits below `/var/lib/registry`.

`TagStore` is the abstract contract:
- a tag map, a set of stored blobs, and one pending request per client;
- `Invoke`, `StoreBlob` and `Commit`, where `Commit` moves the tag only if its
  blob is stored, at one instant;
- `Abandon`.

`StorageCoordinator` is the detailed design. Its state:
- `links`, per tag path;
- `blobs`, the one store shared by both roots;
- per pusher: `ppc` (`idle` → `blob` → `link`), `preq` and `pushes`;
- per reader: `rpc`, `rdigest`, `rfound` and `reads`.

Its actions:
- `StartPush`;
- `WriteBlob`, which is idempotent;
- `SwapLink`, the atomic link write that spec 4.4 delegates to the storage
  layer;
- `CrashPusher`, the fault model, in which a handler dies after either step;
- `ReadTag`/`ReadTagMissing`: a pull presents any surface form of a tag path.
  The router routes it, and the pather of the routed root parses the
  canonical path (`LinkAt`).
- `FetchBlob`: any surface form of the digest's blob path under either root,
  routed, then parsed by the blob pather (`BlobFound`);
- `ReaderReturns`.

The refinement mapping is
`tags <- [k |-> links[KeyPath(k)]]`, `request <- preq`, `Clients <- Pushers`.
`WriteBlob` is `StoreBlob`, `SwapLink` is `Commit`, `CrashPusher` is `Abandon`,
and reader steps are stutters.

Bounds:
- two pushers and one reader, each taking two requests;
- one two-segment repository (`helm/mychart`) and one tag, under both roots;
- three digests, two of which share the shard `ab`.

This gives two pushers racing on one tag and a push under one root being read
under the other, with every path in each of its three surface forms. It
reaches 137,706 states. The handlers take a bounded number of requests, so the
model stops, hence `CHECK_DEADLOCK FALSE`. No symmetry is used: the pushers
are symmetric, but the refinement property is checked on behaviours.

The second run (`MCStorageCoordinator_Embedded.cfg`) adds the repository
`library/v2/repositories/app`, a legal Docker name whose segments contain a
version segment and `repositories`, beside `helm/mychart`, with one pusher,
one reader and two digests (2,572 states).

| run | expect | what it shows |
|---|---|---|
| `coordinator` | pass | `RoutedReadsAgree`: every surface form of an existing tag's path routes to that tag's own link under its own root, and to nothing else; the pull reads that link. `FetchFindsBlob`: a reader that got a digest from a link finds the blob through either root, despite racing pushers and crashes. `ImplementsTagStore`: the coordinator refines `TagStore`. |
| `router_embedded_name` | pass | `RoutedReadsAgree` with `library/v2/repositories/app`: the embedded `v2` is neither at the start of the path nor after the full root prefix, so no pattern matches there and every form still routes to one root and one repository. A pattern that looks for the version segment after any prefix (mutant `MatchAtAnyPrefix`) routes the OCI tag path to the Docker root. A name embedding the whole `docker/registry/v2/repositories` is outside the bounds: whether the absolute form takes any prefix or only the installation directory is not settled by `part_000`. |

### Closers.tla / MCClosers.tla

Variables:
- `isOpen`: per resource.
- `closes`: the calls made, bounded by `MaxCloses`. The violation runs use 2
  (defer plus error path). The passing run uses 3 (an explicit close, an
  error-path close and a deferred close).
- `log`: the records logged, with cause and level. Nothing is returned to the
  caller, so the model has no result variable.

Actions:
- `CloseOpen`, `CloseOpenFails` and `CloseClosed`, one per outcome of
  `closer.Close()`;
- `CloseNil`, for a nil closer (the `closer != nil` guard, line 437).
  Nothing is called, released or logged.

The error text of a repeated close is built the way Go's `*PathError` builds it
(`"close " + name + ": file already closed"`), because the property is about
that text.

Resources: one `*os.File` named `data`, and one closer that returns the bare
`os.ErrClosed`. The passing run adds a nil closer. It reaches 240 states.

| run | expect | what it shows |
|---|---|---|
| `closers_calls` | pass | `TypeOK` only: it fires every outcome of `closer.Close()` (success, failure, already closed, nil) in every interleaving over the three resources, which the violation run needs as its baseline, and its mutant (`LogLevelWarn`) shows the log holds only the two levels the helper uses. |
| `closers_double_close` | violation | `AlreadyClosedLoggedAsDebug`: a second close of an `*os.File` is logged at Error level with a stack, contrary to the helper's own comment. |

Every property of a passing run has a mutant in `PROJECT.json`: a plausible bug
in the mapped definition that TLC catches. The mutants are:
- appending a digest without checking its parse;
- returning at the first parser error;
- parsing the OCI index with the manifest-list type;
- skipping a malformed reference;
- the manifest-list parser using the index type;
- a blob recorded under its shard key instead of its digest;
- a router pattern anchored at the full root prefix, which drops the short form;
- a router pattern that matches the version segment after any prefix;
- a three-character shard;
- a link written before its blob;
- the harmless double close logged at Warn level.

## 4. Fairness

No fairness is assumed and no liveness property is checked.
`StorageCoordinator`'s code is not in `src/`, so no scheduler or retry loop
justifies a fairness condition. With weak fairness of a push's two steps,
"a started push completes" would follow from fairness alone, since no step
of the model blocks another. It would say nothing about the code. The
coordinator's properties are safety: invariants and the refinement of
`TagStore`, whose `Spec` has no fairness either.

The resolver is one synchronous call whose termination is immediate from its
bounded chain and loop.

## 5. Not modelled, and why

- HTTP handling, Accept negotiation, auth, backends: out of scope (spec section
  1), and I/O.
- Digest computation (`digest.FromBytes`) is abstracted: the descriptor digest
  is always a well-formed sha256. The `parse digest` error path after a
  successful unmarshal is kept as a conjunct and is unreachable.
- The Go type assertions always hold for the registered unmarshal functions, so
  their error paths are unreachable and not modelled as transitions.
- Composing ManifestResolver into the coordinator (the Registry) is not modelled.
  The layout root of a push is chosen by the caller from content negotiation,
  an external collaborator (spec 4.4). The digest is `digest.FromBytes` of
  the body, which the resolver model abstracts. A composed model would
  therefore only restate that a pushed digest is the digest that is stored.
- The router's six kinds are all routed. Only tag and blob paths are read,
  because nothing here writes revision, layer or upload files.
- The Pather's revision, layer and upload paths are not modelled. Spec 4.2
  gives the pather only the four tag and blob operations, all of which are
  modelled, and no component here writes those files.
- The link-write primitive's atomicity is assumed (spec 4.4 delegates it), so
  `SwapLink` is one step.
