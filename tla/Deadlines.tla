------------------------------ MODULE Deadlines ------------------------------
(***************************************************************************)
(* The progress-aware deadlines of one connection                          *)
(* (src/internal/web/deadline.go): every read of a request body and every  *)
(* write of a response gets an idle window of its own, and a body must     *)
(* sustain a minimum rate once it has been open longer than one window.    *)
(* The connection is kept alive and carries one request after another.     *)
(*                                                                         *)
(* Time advances in steps.  A blocked call returns no later than its       *)
(* deadline, so time does not pass an expired deadline of a blocked call.  *)
(***************************************************************************)
EXTENDS Integers, FiniteSetsExt

CONSTANTS
    ReadStall, WriteStall, MinRate, \* the deadlinePolicy
    MaxBody,     \* the byte ceiling of a request body
    MaxRequests, \* bound: requests on the connection
    MaxBusy,     \* bound: steps that the handler itself takes in one request
    MaxIdle,     \* bound: steps that the connection rests between requests
    MaxTime      \* bound: steps from one request to the next

ASSUME PolicyAssumption ==
    /\ ReadStall \in Nat \ {0} /\ WriteStall \in Nat \ {0} /\ MinRate \in Nat
    /\ MaxBody \in Nat /\ MaxRequests \in Nat /\ MaxBusy \in Nat /\ MaxIdle \in Nat
    /\ MaxTime \in Nat

VARIABLES
    now,           \* time since the request was accepted, in steps
    pc,            \* what the request is doing
    supported,     \* whether the transport takes deadlines
    readDeadline,  \* the read deadline of the connection
    writeDeadline, \* its write deadline, counted like now, or Never
    read,          \* bytes of the body so far
    since,         \* when the blocked call began
    busy,          \* steps that the handler itself has taken
    stalled,       \* the stall report
    requests       \* requests so far

vars == <<now, pc, supported, readDeadline, writeDeadline, read, since, busy, stalled, requests>>

Never == -1000

Expired(deadline) == deadline # Never /\ now >= deadline

\* The deadline one idle window from now, where the transport takes it.
Armed(old, window) == IF supported THEN now + window ELSE old

-----------------------------------------------------------------------------
(* The request body *)

\* A variant that keeps the deadline of the earlier response.
WriteDeadlineAtStartBug == IF writeDeadline = Never THEN Never ELSE writeDeadline - now

\* wrap: a deadline that an earlier response left behind is cleared.  The body
\* is open from here on, at time 0.
WriteDeadlineAtStart == IF supported THEN Never ELSE writeDeadline

Accept ==
    /\ pc = "idle" /\ requests < MaxRequests
    /\ pc' = "handling"
    /\ now' = 0
    /\ writeDeadline' = WriteDeadlineAtStart
    /\ readDeadline' = Never
    /\ read' = 0 /\ since' = 0 /\ busy' = 0 /\ stalled' = FALSE
    /\ requests' = requests + 1
    /\ UNCHANGED supported

\* net/http asks for the body with an interim response of its own, which no
\* wrapper sees.
Continue ==
    /\ pc = "handling" /\ read = 0
    /\ pc' = IF Expired(writeDeadline) THEN "interimCut" ELSE "handling"
    /\ UNCHANGED <<now, supported, readDeadline, writeDeadline, read, since, busy, stalled, requests>>

\* A variant that lets the first window run on.
ReadBug ==
    /\ pc = "handling"
    /\ pc' = "reading"
    /\ readDeadline' = IF readDeadline = Never THEN Armed(readDeadline, ReadStall) ELSE readDeadline
    /\ since' = now
    /\ UNCHANGED <<now, supported, writeDeadline, read, busy, stalled, requests>>

\* deadlineBody.Read: touch, then block.
Read ==
    /\ pc = "handling"
    /\ pc' = "reading"
    /\ readDeadline' = Armed(readDeadline, ReadStall)
    /\ since' = now
    /\ UNCHANGED <<now, supported, writeDeadline, read, busy, stalled, requests>>

\* A variant that never looks at the rate.
TooSlowBug(bytes) == FALSE

\* checkRate, with a body of that many bytes.
TooSlow(bytes) == MinRate > 0 /\ now > ReadStall /\ bytes < now * MinRate

\* Bytes arrive in time; the rate is judged with them.
Deliver(count) ==
    /\ pc = "reading" /\ read + count <= MaxBody
    /\ read' = read + count
    /\ stalled' = TooSlow(read')
    /\ pc' = IF stalled' THEN "rejected" ELSE "handling"
    /\ UNCHANGED <<now, supported, readDeadline, writeDeadline, since, busy, requests>>

EndOfBody ==
    /\ pc = "reading"
    /\ pc' = "done"
    /\ UNCHANGED <<now, supported, readDeadline, writeDeadline, read, since, busy, stalled, requests>>

ReadTimeout ==
    /\ pc = "reading" /\ Expired(readDeadline)
    /\ stalled' = TRUE
    /\ pc' = "rejected"
    /\ UNCHANGED <<now, supported, readDeadline, writeDeadline, read, since, busy, requests>>

-----------------------------------------------------------------------------
(* The response *)

\* WriteHeader and Write: touch, then block.
Write ==
    /\ pc \in {"done", "rejected", "responding"}
    /\ pc' = "writing"
    /\ writeDeadline' = Armed(writeDeadline, WriteStall)
    /\ since' = now
    /\ UNCHANGED <<now, supported, readDeadline, read, busy, stalled, requests>>

Written ==
    /\ pc = "writing"
    /\ pc' = "responding"
    /\ UNCHANGED <<now, supported, readDeadline, writeDeadline, read, since, busy, stalled, requests>>

\* finish: the buffered rest gets a window too.
Finish ==
    /\ pc = "responding"
    /\ pc' = "flushing"
    /\ writeDeadline' = Armed(writeDeadline, WriteStall)
    /\ since' = now
    /\ UNCHANGED <<now, supported, readDeadline, read, busy, stalled, requests>>

\* The connection rests until the next request; its deadlines stay armed.
Flushed ==
    /\ pc = "flushing"
    /\ pc' = "idle"
    /\ busy' = 0
    /\ UNCHANGED <<now, supported, readDeadline, writeDeadline, read, since, stalled, requests>>

WriteTimeout ==
    /\ pc \in {"writing", "flushing"} /\ Expired(writeDeadline)
    /\ pc' = "cut"
    /\ UNCHANGED <<now, supported, readDeadline, writeDeadline, read, since, busy, stalled, requests>>

-----------------------------------------------------------------------------
(* Time *)

Blocked == pc \in {"reading", "writing", "flushing"}

\* While a call blocks.
Wait ==
    /\ Blocked
    /\ pc = "reading" => ~Expired(readDeadline)
    /\ pc \in {"writing", "flushing"} => ~Expired(writeDeadline)
    /\ now < MaxTime
    /\ now' = now + 1
    /\ UNCHANGED <<pc, supported, readDeadline, writeDeadline, read, since, busy, stalled, requests>>

\* While the handler works, or the connection rests.
Work ==
    /\ ~Blocked /\ pc \notin {"cut", "interimCut"}
    /\ busy < IF pc = "idle" THEN MaxIdle ELSE MaxBusy
    /\ requests > 0 /\ now < MaxTime
    /\ busy' = busy + 1
    /\ now' = now + 1
    /\ UNCHANGED <<pc, supported, readDeadline, writeDeadline, read, since, stalled, requests>>

Init ==
    /\ now = 0 /\ pc = "idle"
    /\ supported \in BOOLEAN
    /\ readDeadline = Never /\ writeDeadline = Never
    /\ read = 0 /\ since = 0 /\ busy = 0 /\ stalled = FALSE
    /\ requests = 0

Next ==
    \/ Accept \/ Continue \/ Read
    \/ \E count \in 1 .. MaxBody : Deliver(count)
    \/ EndOfBody \/ ReadTimeout
    \/ Write \/ Written \/ Finish \/ Flushed \/ WriteTimeout
    \/ Wait \/ Work

Spec == Init /\ [][Next]_vars

-----------------------------------------------------------------------------
(* Properties *)

(* A body is cut for lack of progress only when one read waited a whole    *)
(* window without a byte, or the body is below the rate floor after its    *)
(* first window: time that the handler spends between two reads never      *)
(* expires a window (deadline.go:17-19, 153-156).                          *)
StallIsJustified ==
    pc = "rejected" => \/ now - since >= ReadStall
                       \/ read < now * MinRate /\ now > ReadStall

(* A client cannot hold a request open by dripping bytes: where the        *)
(* transport takes deadlines, a body is open no longer than its size at    *)
(* the minimum rate takes, or one window if that is longer, plus one       *)
(* window, apart from the time that the handler itself takes               *)
(* (deadline.go:169-172).                                                  *)
HoldIsBounded ==
    pc = "reading" /\ supported /\ MinRate > 0
        => now <= Max({ReadStall, MaxBody \div MinRate}) + ReadStall + busy

(* No write of the response, buffered or interim, is cut before it waited  *)
(* a whole window, however long intake probing took and whatever an        *)
(* earlier response on the connection left behind (deadline.go:89-92,      *)
(* 225-227).                                                               *)
ResponseGetsItsWindow ==
    /\ pc = "cut" => now - since >= WriteStall
    /\ pc # "interimCut"

=============================================================================
