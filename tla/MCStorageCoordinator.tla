------------------------ MODULE MCStorageCoordinator ------------------------
(***************************************************************************)
(* Two pushers and one reader over both layout roots.  The repository is   *)
(* the two-segment helm/mychart of the design document's examples, so the  *)
(* repository match has to span segments.  Of the three digests, two share *)
(* their shard directory "ab" and one does not.                            *)
(***************************************************************************)
EXTENDS StorageCoordinator

MCRepos    == {<<W("helm"), W("mychart")>>}
MCTagNames == {W("1.0.0")}
MCHexes    == {<<"a", "b", "c">>, <<"a", "b", "d">>, <<"c", "d", "a">>}

(* Repositories side by side with one whose name has the segments        *)
(* v2/repositories in it, legal under the Docker name grammar ([a-z0-9]+   *)
(* components), e.g. a mirror path library/v2/repositories/app.            *)
MCEmbeddedRepos == {<<W("helm"), W("mychart")>>,
                    <<W("library"), W("v2"), W("repositories"), W("app")>>}
MCTwoHexes      == {<<"a", "b", "c">>, <<"c", "d", "a">>}

=============================================================================
