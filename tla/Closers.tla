------------------------------ MODULE Closers ------------------------------
(***************************************************************************)
(* closers.Close(closer io.Closer): the deferred-release helper.  It       *)
(* calls closer.Close(); an error is logged at Debug level when its text   *)
(* is one of two "already closed" messages and at Error level (with a      *)
(* stack) otherwise.  Nothing is returned to the caller.                   *)
(*                                                                         *)
(* A "nil" resource is a nil io.Closer handed to the helper.             *)
(* Callers release a resource on every exit path and may release it twice  *)
(* (defer plus an explicit close on an error path), so each resource may   *)
(* be closed up to MaxCloses times, in any interleaving with the others.   *)
(* What Close() of the resource itself returns is the environment:        *)
(*  - an *os.File: first close releases it, and may fail (the data was     *)
(*    not flushed); a later close returns &PathError{"close", name,        *)
(*    ErrClosed}, whose Error() is "close " + name + ": " + ErrClosed;      *)
(*  - a closer returning os.ErrClosed itself (a wrapper): its text is      *)
(*    "file already closed".                                               *)
(***************************************************************************)
EXTENDS Naturals, Sequences

CONSTANTS
    Resources,   \* the closers a request opens
    Kind,        \* Kind[r] \in {"file", "bare", "nil"}
    Name,        \* Name[r]: the name the *os.File was opened with
    MaxCloses    \* bound on the Close calls on one resource

ASSUME /\ Kind \in [Resources -> {"file", "bare", "nil"}]
       /\ MaxCloses \in Nat \ {0}

ErrClosedText == "file already closed"

(* err.Error() of the error a repeated Close returns.                      *)
ClosedErrorText(r) ==
    IF Kind[r] = "file" THEN "close " \o Name[r] \o ": " \o ErrClosedText
    ELSE ErrClosedText

(* The two texts closers.Close treats as a harmless double close.          *)
AlreadyClosedMessages == {"file already closed", "close: file already closed"}

(* Mutant: the harmless case is logged at Warn level.                     *)
LogLevelWarn(msg) == IF msg \in AlreadyClosedMessages THEN "warn" ELSE "error"

LogLevel(msg) == IF msg \in AlreadyClosedMessages THEN "debug" ELSE "error"

VARIABLES
    isOpen,    \* isOpen[r]: the resource has not been released yet
    closes,    \* closes[r]: Close calls made on r
    log        \* records [res, cause, level] the helper logged, in order

vars == <<isOpen, closes, log>>

Causes == {"flush", "closed"}

TypeOK ==
    /\ isOpen \in [Resources -> BOOLEAN]
    /\ closes \in [Resources -> 0..MaxCloses]
    /\ log \in Seq([res: Resources, cause: Causes, level: {"debug", "error"}])

Init ==
    /\ isOpen = [r \in Resources |-> Kind[r] # "nil"]
    /\ closes = [r \in Resources |-> 0]
    /\ log = <<>>

(* closers.Close(r) on an open resource whose Close() returns nil.        *)
CloseOpen(r) ==
    /\ closes[r] < MaxCloses
    /\ Kind[r] # "nil"
    /\ isOpen[r]
    /\ isOpen' = [isOpen EXCEPT ![r] = FALSE]
    /\ closes' = [closes EXCEPT ![r] = @ + 1]
    /\ UNCHANGED log

(* closers.Close(r) on an open *os.File whose Close() fails: the file is  *)
(* released, the error text is not an "already closed" one, it is logged  *)
(* at Error level and dropped (the helper returns nothing).                                           *)
CloseOpenFails(r) ==
    /\ closes[r] < MaxCloses
    /\ isOpen[r]
    /\ Kind[r] = "file"
    /\ isOpen' = [isOpen EXCEPT ![r] = FALSE]
    /\ closes' = [closes EXCEPT ![r] = @ + 1]
    /\ log' = Append(log, [res |-> r, cause |-> "flush",
                           level |-> LogLevel("input/output error")])

(* closers.Close(r) on a released resource: Close() returns the "already  *)
(* closed" error, logged at the level its text selects, and dropped.       *)
CloseClosed(r) ==
    /\ closes[r] < MaxCloses
    /\ Kind[r] # "nil"
    /\ ~isOpen[r]
    /\ closes' = [closes EXCEPT ![r] = @ + 1]
    /\ log' = Append(log, [res |-> r, cause |-> "closed",
                           level |-> LogLevel(ClosedErrorText(r))])
    /\ UNCHANGED isOpen

(* closers.Close(nil): the closer != nil guard fails; nothing is called,  *)
(* released or logged.                                                     *)
CloseNil(r) ==
    /\ closes[r] < MaxCloses
    /\ Kind[r] = "nil"
    /\ closes' = [closes EXCEPT ![r] = @ + 1]
    /\ UNCHANGED <<isOpen, log>>

Next == \E r \in Resources :
            \/ CloseOpen(r) \/ CloseOpenFails(r) \/ CloseClosed(r) \/ CloseNil(r)

Spec == Init /\ [][Next]_vars

(* The helper's own comment: a close of an already closed file "is usually *)
(* harmless" and is logged at Debug level, never as an Error with a stack.  *)
AlreadyClosedLoggedAsDebug ==
    \A k \in 1..Len(log) : log[k].cause = "closed" => log[k].level = "debug"

=============================================================================
