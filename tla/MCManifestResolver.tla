------------------------- MODULE MCManifestResolver -------------------------
(* Model-checking instance of ManifestResolver.  The well-formed digests   *)
(* are the three of dockerutil_test.go's fixtures; "" is the digest of a   *)
(* zero descriptor, which core.ParseSHA256Digest rejects.  Up to two       *)
(* descriptors per array, schemaVersion 1, 2 or 3.                          *)
EXTENDS ManifestResolver

MCGoodDigests == {"sha256:1a9e", "sha256:62d8", "sha256:6346"}
MCBadDigests  == {""}
MCVersions    == {1, 2, 3}

(* The four byte fixtures of dockerutil_test.go, as bodies.                *)
Doc(mt, blobs, hasManifests, manifests) ==
    [readable |-> TRUE, json |-> TRUE, mediaType |-> mt, version |-> 2,
     blobs |-> blobs, hasManifests |-> hasManifests, manifests |-> manifests]
TestManifestListBytes ==
    Doc(V2ManifestListType, <<>>, TRUE, <<"sha256:1a9e", "sha256:6346">>)
TestManifestBytes ==
    Doc(V2ManifestType, <<"sha256:1a9e", "sha256:62d8">>, FALSE, <<>>)
TestOciManifestBytes ==
    Doc(OciManifestType, <<"sha256:1a9e", "sha256:62d8">>, FALSE, <<>>)
TestOciIndexBytes ==
    Doc(OciIndexType, <<>>, TRUE, <<"sha256:1a9e", "sha256:6346">>)

(* TestParseManifestV2List, TestParseOCIManifest, TestParseOCIIndex: each *)
(* parser, called alone, accepts its own fixture and rejects the "wrong     *)
(* manifest type" one: <<parser, bytes, hasError>>.                        *)
TestParseManifestV2ListCases ==
    {<<V2ManifestListType, TestManifestListBytes, FALSE>>,
     <<V2ManifestListType, TestManifestBytes, TRUE>>}
TestParseOCIManifestCases ==
    {<<OciManifestType, TestOciManifestBytes, FALSE>>,
     <<OciManifestType, TestManifestListBytes, TRUE>>}
TestParseOCIIndexCases ==
    {<<OciIndexType, TestOciIndexBytes, FALSE>>,
     <<OciIndexType, TestManifestBytes, TRUE>>}

(* Every stage of the chain, in the state where ParseManifest calls it,    *)
(* agrees with the repository's per-parser unit tests on their fixtures:   *)
(* the parser a stage runs accepts exactly the fixtures its test expects.  *)
ParserTestCasesHold ==
    (pc = "parse") =>
        \A c \in TestParseManifestV2ListCases \cup TestParseOCIManifestCases
                  \cup TestParseOCIIndexCases :
            c[1] = ParseOrder[stage] => (Parser(c[1], c[2]).ok = ~c[3])
=============================================================================
