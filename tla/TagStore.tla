------------------------------ MODULE TagStore ------------------------------
(***************************************************************************)
(* What the storage layer promises (spec sections 3, 4.4 and 5): blobs are *)
(* written once and never change; each tag, under one layout root, points  *)
(* at a stored blob and is re-pointed atomically; a push request of a      *)
(* client takes effect at one instant (or not at all, if the client goes   *)
(* away), and sets exactly the tag it names.                               *)
(***************************************************************************)
CONSTANTS Clients, Keys, Digests, NoDigest, NoRequest

VARIABLES tags,     \* tags[k]: the digest tag k points at, or NoDigest
          blobs,    \* the digests whose blob is stored
          request   \* request[c]: [key, digest] client c is pushing, or NoRequest

Requests == [key: Keys, digest: Digests]

Init ==
    /\ tags = [k \in Keys |-> NoDigest]
    /\ blobs = {}
    /\ request = [c \in Clients |-> NoRequest]

Invoke(c, r) ==
    /\ request[c] = NoRequest
    /\ request' = [request EXCEPT ![c] = r]
    /\ UNCHANGED <<tags, blobs>>

StoreBlob(d) ==
    /\ blobs' = blobs \cup {d}
    /\ UNCHANGED <<tags, request>>

(* The linearisation point of a push: its blob is stored, its tag moves.   *)
Commit(c) ==
    /\ request[c] # NoRequest
    /\ request[c].digest \in blobs
    /\ tags' = [tags EXCEPT ![request[c].key] = request[c].digest]
    /\ request' = [request EXCEPT ![c] = NoRequest]
    /\ UNCHANGED blobs

Abandon(c) ==
    /\ request[c] # NoRequest
    /\ request' = [request EXCEPT ![c] = NoRequest]
    /\ UNCHANGED <<tags, blobs>>

Next ==
    \/ \E c \in Clients, r \in Requests : Invoke(c, r)
    \/ \E d \in Digests : StoreBlob(d)
    \/ \E c \in Clients : Commit(c) \/ Abandon(c)

Spec == Init /\ [][Next]_<<tags, blobs, request>>
=============================================================================
