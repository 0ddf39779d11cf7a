------------------------------ MODULE MCClosers ------------------------------
(* One *os.File opened as "data" and one closer returning os.ErrClosed,    *)
(* each closed up to twice (defer plus an error-path close).                *)
EXTENDS Closers

MCResources == {"file", "wrapper"}
MCKind      == [r \in MCResources |-> IF r = "file" THEN "file" ELSE "bare"]
MCName      == [r \in MCResources |-> "data"]

(* The same two resources and a nil closer (an optional reader never set). *)
MCResourcesNil == MCResources \cup {"none"}
MCKindNil      == [r \in MCResourcesNil |-> IF r = "none" THEN "nil" ELSE MCKind[r]]
MCNameNil      == [r \in MCResourcesNil |-> "data"]
=============================================================================
