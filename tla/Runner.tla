------------------------------- MODULE Runner -------------------------------
(***************************************************************************)
(* How one external command is run (src/internal/runner): Run starts a     *)
(* child in its own process group and waits for its exit, for the timeout  *)
(* of the command or for the end of the caller's context, whichever comes  *)
(* first.  A goroutine reaps the child; the kernel, the clock and the      *)
(* caller's context move on their own.                                     *)
(*                                                                         *)
(* Every conversion runs one command at a time, so a run is named after    *)
(* its conversion.                                                         *)
(***************************************************************************)
CONSTANT Conversion

VARIABLES
    ctx,  \* the contexts of the conversions: "live", or why they ended
    run   \* the command that each conversion runs

runnerVars == <<ctx, run>>

\* The command ended by itself (ok, exit, wait), was never started (start), or
\* was stopped (canceled, timeout).
Outcomes == {"ok", "exit", "wait", "start", "canceled", "timeout"}

\* cause is runCtx.Err(); waitCh what the reaping goroutine has sent.
RunRecord ==
    [pc : {"idle", "check", "select", "recheck", "await", "returned"},
     child : {"none", "running", "ok", "exit", "wait", "killed"},
     cause : {"none", "canceled", "timeout"},
     waitCh : {"none", "ok", "exit", "wait"},
     outcome : Outcomes \cup {"none"}]

NoRun == [pc |-> "idle", child |-> "none", cause |-> "none", waitCh |-> "none",
          outcome |-> "none"]

\* A call of Run: runCtx is derived from the caller's context.
Called(c) == [NoRun EXCEPT !.pc = "check", !.cause = IF ctx[c] = "live" THEN "none" ELSE ctx[c]]

Active(c) == run[c].pc \notin {"idle", "returned"}

ReturnOutcome(c, outcome) ==
    run' = [run EXCEPT ![c].pc = "returned", ![c].outcome = outcome]

-----------------------------------------------------------------------------
(* Run *)

\* A context that has ended keeps the child from being started.
RefuseStart(c) ==
    /\ run[c].pc = "check" /\ run[c].cause # "none"
    /\ ReturnOutcome(c, run[c].cause)
    /\ UNCHANGED ctx

StartChild(c) ==
    /\ run[c].pc = "check" /\ run[c].cause = "none"
    /\ \/ run' = [run EXCEPT ![c].pc = "select", ![c].child = "running"]
       \/ ReturnOutcome(c, "start")
    /\ UNCHANGED ctx

\* The exit is seen first; select may prefer it to a context that has ended.
SelectExit(c) ==
    /\ run[c].pc = "select" /\ run[c].waitCh # "none"
    /\ ReturnOutcome(c, run[c].waitCh)
    /\ UNCHANGED ctx

SelectDone(c) ==
    /\ run[c].pc = "select" /\ run[c].cause # "none"
    /\ run' = [run EXCEPT ![c].pc = "recheck"]
    /\ UNCHANGED ctx

RecheckExit(c) ==
    /\ run[c].pc = "recheck" /\ run[c].waitCh # "none"
    /\ ReturnOutcome(c, run[c].waitCh)
    /\ UNCHANGED ctx

\* A variant that forgets to terminate the group.
TerminateBug(c) ==
    /\ run[c].pc = "recheck" /\ run[c].waitCh = "none"
    /\ run' = [run EXCEPT ![c].pc = "await"]
    /\ UNCHANGED ctx

\* SIGKILL to the group; a child that has just exited makes it a no-op.
Terminate(c) ==
    /\ run[c].pc = "recheck" /\ run[c].waitCh = "none"
    /\ run' = [run EXCEPT ![c].pc = "await",
                          ![c].child = IF @ = "running" THEN "killed" ELSE @]
    /\ UNCHANGED ctx

\* A variant that does not wait for the child it has terminated.
AwaitBug(c) ==
    /\ run[c].pc = "await"
    /\ ReturnOutcome(c, run[c].cause)
    /\ UNCHANGED ctx

Await(c) ==
    /\ run[c].pc = "await" /\ run[c].waitCh # "none"
    /\ ReturnOutcome(c, run[c].cause)
    /\ UNCHANGED ctx

\* The goroutine around cmd.Wait.
Reap(c) ==
    /\ run[c].child \in {"ok", "exit", "wait", "killed"} /\ run[c].waitCh = "none"
    /\ run' = [run EXCEPT ![c].waitCh = IF run[c].child = "killed" THEN "exit" ELSE run[c].child]
    /\ UNCHANGED ctx

-----------------------------------------------------------------------------
(* What happens to it *)

ChildExit(c) ==
    /\ run[c].child = "running"
    /\ \E how \in {"ok", "exit", "wait"} : run' = [run EXCEPT ![c].child = how]
    /\ UNCHANGED ctx

Timeout(c) ==
    /\ Active(c) /\ run[c].cause = "none"
    /\ run' = [run EXCEPT ![c].cause = "timeout"]
    /\ UNCHANGED ctx

\* The caller's context ends, and with it the context of a command under way.
EndContext(c, why) ==
    /\ ctx[c] = "live"
    /\ ctx' = [ctx EXCEPT ![c] = why]
    /\ run' = IF Active(c) /\ run[c].cause = "none"
              THEN [run EXCEPT ![c].cause = why] ELSE run

RunInit ==
    /\ ctx = [c \in Conversion |-> "live"]
    /\ run = [c \in Conversion |-> NoRun]

\* What Run does by itself, once called.
RunStep(c) ==
    \/ RefuseStart(c) \/ StartChild(c)
    \/ SelectExit(c) \/ SelectDone(c) \/ RecheckExit(c)
    \/ Terminate(c) \/ Await(c) \/ Reap(c)

RunTypes ==
    /\ ctx \in [Conversion -> {"live", "canceled", "timeout"}]
    /\ run \in [Conversion -> RunRecord]

=============================================================================
