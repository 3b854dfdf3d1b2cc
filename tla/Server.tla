------------------------------- MODULE Server -------------------------------
(***************************************************************************)
(* What an actor promises the code that talks to it, with the mailbox, the *)
(* hooks, the timeouts and the restarts hidden.  Requests are processed    *)
(* one at a time in the order in which they were accepted, each at most    *)
(* once; processing one either applies it or gives it up.  A caller is     *)
(* told "ok" only of a request that was applied, and "canceled" only of    *)
(* one that was not and never will be.                                     *)
(***************************************************************************)
EXTENDS Integers, Sequences

CONSTANT Messages

VARIABLES log,        \* requests accepted, in order
          at,         \* how many of them have been processed
          applied,    \* those that took effect
          serving,    \* the actor may still process requests
          accepting,  \* the mailbox still takes requests
          ok,         \* callers that were given an answer
          canceled    \* callers that were told there will be none

serverVars == <<log, at, applied, serving, accepting, ok, canceled>>

Processed(r) == \E i \in 1 .. at : log[i] = r

ServerInit ==
    /\ log = <<>> /\ at = 0 /\ applied = {}
    /\ serving = TRUE /\ accepting = TRUE
    /\ ok = {} /\ canceled = {}

Submit(r) ==
    /\ accepting
    /\ \A i \in 1 .. Len(log) : log[i] # r
    /\ log' = Append(log, r)
    /\ UNCHANGED <<at, applied, serving, accepting, ok, canceled>>

Process ==
    /\ serving
    /\ at < Len(log)
    /\ at' = at + 1
    /\ applied' \in {applied, applied \cup {log[at + 1]}}
    /\ UNCHANGED <<log, accepting, ok, canceled>>

\* A request may be the last one: giving it up, or a request to stop, ends
\* the service in the same step.
Serve == Process /\ serving' \in BOOLEAN

Retire ==
    /\ serving
    /\ serving' = FALSE
    /\ UNCHANGED <<log, at, applied, accepting, ok, canceled>>

CloseDoors ==
    /\ ~ serving /\ accepting
    /\ accepting' = FALSE
    /\ UNCHANGED <<log, at, applied, serving, ok, canceled>>

ReplyOk(r) ==
    /\ r \in applied \ (ok \cup canceled)
    /\ ok' = ok \cup {r}
    /\ UNCHANGED <<log, at, applied, serving, accepting, canceled>>

ReplyCanceled(r) ==
    /\ r \notin applied \cup ok \cup canceled
    /\ Processed(r) \/ ~ accepting
    /\ canceled' = canceled \cup {r}
    /\ UNCHANGED <<log, at, applied, serving, accepting, ok>>

ServerNext ==
    \/ Serve
    \/ Retire
    \/ CloseDoors
    \/ \E r \in Messages : Submit(r) \/ ReplyOk(r) \/ ReplyCanceled(r)

ServerSpec == ServerInit /\ [][ServerNext]_serverVars

=============================================================================
