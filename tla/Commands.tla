------------------------------- MODULE Commands -------------------------------
(***************************************************************************)
(* Commands the agent starts and waits for: the steps of a runbook, the    *)
(* verification of a run, the test-and-fix loop, the Bash and Git tools,   *)
(* command hooks and providers that are command-line programs.             *)
(*                                                                         *)
(* Each of them spawns a child, arms a timer and listens to a signal, and  *)
(* goes on when the child has exited and its pipes are closed, which a     *)
(* process the child left behind may delay.  A child may exit just before  *)
(* a timer fires or a signal arrives, and need not die of SIGTERM.  They   *)
(* differ in what they look at, and in which order.                        *)
(* CmdVerdictByCode is a version of the definition after it with a         *)
(* plausible fault.                                                        *)
(***************************************************************************)
EXTENDS Integers, Sequences

CONSTANTS
  CmdMaxCommands,   \* bound: commands of a runbook or a verification
  CmdMaxAttempts    \* maxAttempts of the test loop

ASSUME CmdAssumption == CmdMaxCommands \in Nat /\ CmdMaxAttempts \in Nat \ {0}

VARIABLES
  cmdOp,       \* the operation that is going on
  cmdChild,    \* its current child process
  cmdAborted,  \* the signal of the operation's caller
  cmdTrail     \* what really became of every command so far

cmdVars == <<cmdOp, cmdChild, cmdAborted, cmdTrail>>

CmdKinds == {"runbook", "verify", "tests", "bash", "git", "hook", "cli"}
CmdSeveral == {"runbook", "verify", "tests"}

CmdNone == [exit |-> "none", held |-> FALSE, sent |-> "none", late |-> FALSE,
            stopped |-> FALSE]

CmdInit ==
  /\ cmdOp = [phase |-> "idle"]
  /\ cmdChild = CmdNone
  /\ cmdAborted = FALSE
  /\ cmdTrail = <<>>

-----------------------------------------------------------------------------
(* What the callers look at *)

CmdLooksFirst(kind) == kind = "verify"
CmdHears(kind) == kind # "runbook"
CmdHearsThePast(kind) == kind \in {"bash", "git", "hook", "cli"}
CmdTimed(kind) == kind # "git"
CmdForces(kind) == kind \in {"bash", "hook"}
\* The signal is Node's to hear: it answers an abort with an error event, long before
\* the child is gone, and ignores one that comes when the child has exited.
CmdLeaves(kind) == kind \in {"bash", "git"}

\* As if the exit code were looked at first.
CmdVerdictByCode(kind, child) ==
  IF child.exit = "zero" THEN "passed" ELSE "failed"

\* What a caller makes of a child whose pipes are closed.
CmdVerdict(kind, child) ==
  IF kind \in {"verify", "hook", "cli", "tests"} /\ child.stopped THEN "aborted"
  ELSE IF kind \in {"verify", "hook", "cli", "tests", "runbook"} /\ child.late THEN "timeout"
  ELSE IF child.exit = "zero" THEN "passed"
  ELSE "failed"

-----------------------------------------------------------------------------
(* One command *)

CmdJudged(verdict) ==
  /\ cmdOp' = [cmdOp EXCEPT !.phase = "judged", !.verdict = verdict,
                            !.late = cmdChild.late]
  /\ cmdTrail' = Append(cmdTrail, cmdChild)
  /\ cmdChild' = CmdNone

CmdFinished(ok) == [cmdOp EXCEPT !.phase = "done", !.ok = ok]

\* A runbook without a sandbox: steps are only listed, as simulated or to be done by hand.
CmdStart ==
  /\ cmdOp.phase = "idle"
  /\ \E kind \in CmdKinds, count \in 1 .. CmdMaxCommands, failFast \in BOOLEAN,
       real \in BOOLEAN :
       /\ kind \in {"bash", "git", "hook", "cli"} => count = 1
       /\ kind # "verify" => failFast
       /\ kind # "runbook" => real
       /\ cmdOp' = [kind |-> kind, phase |-> IF real THEN "next" ELSE "done",
                    at |-> 1, count |-> IF kind = "tests" THEN CmdMaxAttempts ELSE count,
                    failFast |-> failFast, real |-> real, ok |-> TRUE,
                    verdict |-> "none", late |-> FALSE]
  /\ UNCHANGED <<cmdChild, cmdAborted, cmdTrail>>

\* Not started: the gate of the sandbox says no, the signal was already given, or there
\* is no such program.  The test loop looks at the signal before each attempt.
CmdNotStarted ==
  /\ cmdOp.phase = "next"
  /\ \/ cmdOp.kind = "runbook" /\ CmdJudged("denied")
     \/ CmdLooksFirst(cmdOp.kind) /\ cmdAborted /\ CmdJudged("aborted")
     \/ ~ (CmdLooksFirst(cmdOp.kind) /\ cmdAborted) /\ CmdJudged("failed")
     \/ /\ cmdOp.kind = "tests" /\ cmdAborted
        /\ cmdOp' = CmdFinished(FALSE)
        /\ UNCHANGED <<cmdChild, cmdTrail>>
  /\ UNCHANGED cmdAborted

CmdSpawn ==
  /\ cmdOp.phase = "next"
  /\ ~ (cmdAborted /\ cmdOp.kind \in {"verify", "tests"})
  /\ LET past == cmdAborted /\ CmdHearsThePast(cmdOp.kind) IN
     cmdChild' = [CmdNone EXCEPT !.exit = "runs", !.stopped = past,
                                 !.sent = IF past THEN "term" ELSE "none"]
  /\ cmdOp' = [cmdOp EXCEPT !.phase = "waits"]
  /\ UNCHANGED <<cmdAborted, cmdTrail>>

\* A child that handles SIGTERM ends as it likes.
CmdExits ==
  /\ cmdChild.exit = "runs"
  /\ \E exit \in {"zero", "other"}, held \in BOOLEAN :
       /\ cmdChild.sent = "kill" => exit = "other"
       /\ cmdChild' = [cmdChild EXCEPT !.exit = exit, !.held = held]
  /\ UNCHANGED <<cmdOp, cmdAborted, cmdTrail>>

\* What the child left behind closes the pipes.
CmdLetsGo ==
  /\ cmdChild.held
  /\ cmdChild' = [cmdChild EXCEPT !.held = FALSE]
  /\ UNCHANGED <<cmdOp, cmdAborted, cmdTrail>>

CmdTimer ==
  /\ cmdOp.phase = "waits"
  /\ CmdTimed(cmdOp.kind) /\ ~ cmdChild.late
  /\ cmdChild' = [cmdChild EXCEPT !.late = TRUE,
                                  !.sent = IF @ = "none" THEN "term" ELSE @]
  /\ UNCHANGED <<cmdOp, cmdAborted, cmdTrail>>

CmdForce ==
  /\ cmdOp.phase = "waits"
  /\ CmdForces(cmdOp.kind) /\ cmdChild.sent = "term"
  /\ cmdChild' = [cmdChild EXCEPT !.sent = "kill"]
  /\ UNCHANGED <<cmdOp, cmdAborted, cmdTrail>>

\* The caller aborts, at any time.
CmdAbort ==
  /\ ~ cmdAborted
  /\ cmdAborted' = TRUE
  /\ IF /\ cmdOp.phase = "waits" /\ CmdHears(cmdOp.kind)
        /\ CmdLeaves(cmdOp.kind) => cmdChild.exit = "runs"
     THEN cmdChild' = [cmdChild EXCEPT !.stopped = TRUE,
                                       !.sent = IF @ = "none" THEN "term" ELSE @]
     ELSE UNCHANGED cmdChild
  /\ UNCHANGED <<cmdOp, cmdTrail>>

\* The error event of an abort comes before any close event.
CmdClosed ==
  /\ cmdOp.phase = "waits"
  /\ \/ /\ cmdChild.exit \in {"zero", "other"} /\ ~ cmdChild.held
        /\ ~ (CmdLeaves(cmdOp.kind) /\ cmdChild.stopped)
        /\ CmdJudged(CmdVerdict(cmdOp.kind, cmdChild))
     \/ CmdLeaves(cmdOp.kind) /\ cmdChild.stopped /\ CmdJudged("failed")
  /\ UNCHANGED cmdAborted

-----------------------------------------------------------------------------
(* The commands after it *)

\* runbookApply stops at the first step that fails; the verification is one more step.
\* runVerification stops when aborted and, if asked to, when a command failed.
CmdGoesOn ==
  CASE cmdOp.kind = "runbook" -> cmdOp.verdict = "passed"
    [] cmdOp.kind = "verify" ->
         cmdOp.verdict # "aborted" /\ (cmdOp.verdict = "passed" \/ ~ cmdOp.failFast)
    [] cmdOp.kind = "tests" -> cmdOp.verdict # "passed"
    [] OTHER -> FALSE

CmdNextCommand ==
  /\ cmdOp.phase = "judged"
  /\ CmdGoesOn /\ cmdOp.at < cmdOp.count
  /\ cmdOp' = [cmdOp EXCEPT !.at = @ + 1,
                            !.phase = IF cmdOp.kind = "tests" THEN "fixing" ELSE "next",
                            !.ok = @ /\ (cmdOp.verdict = "passed" \/ cmdOp.kind = "tests")]
  /\ UNCHANGED <<cmdChild, cmdAborted, cmdTrail>>

CmdEnds ==
  /\ cmdOp.phase = "judged"
  /\ ~ (CmdGoesOn /\ cmdOp.at < cmdOp.count)
  /\ cmdOp' = CmdFinished(cmdOp.ok /\ cmdOp.verdict = "passed")
  /\ UNCHANGED <<cmdChild, cmdAborted, cmdTrail>>

\* The fixer of the test loop; there may be none, and it may give up.
CmdFix ==
  /\ cmdOp.phase = "fixing"
  /\ \/ cmdOp' = [cmdOp EXCEPT !.phase = "next"]
     \/ cmdOp' = CmdFinished(FALSE)
  /\ UNCHANGED <<cmdChild, cmdAborted, cmdTrail>>

CmdNext ==
  \/ CmdStart \/ CmdNotStarted \/ CmdSpawn
  \/ CmdExits \/ CmdLetsGo \/ CmdTimer \/ CmdForce \/ CmdAbort \/ CmdClosed
  \/ CmdNextCommand \/ CmdEnds \/ CmdFix

CmdSpec == CmdInit /\ [][CmdNext]_cmdVars

-----------------------------------------------------------------------------
(* Properties *)

\* By itself: neither the timer nor the signal had a part in it.
CmdSucceeded(child) ==
  child.exit = "zero" /\ ~ child.late /\ ~ child.stopped

\* An operation that reports success and tells of no time-out ran commands that succeeded
\* by themselves: all of them, or the last attempt of the test loop (sandbox-executor.ts:171,
\* fork-verifier.ts:198, test-runner.ts:112, bash-tool.ts:62, hooks/executors/command.ts:112,
\* cli-shared.ts:153).  A child killed in vain or aborted just before it exited with zero
\* does not count.
CmdSuccessIsReal ==
  cmdOp.phase = "done" /\ cmdOp.ok /\ cmdOp.real /\ ~ cmdOp.late =>
    /\ cmdTrail # <<>>
    /\ IF cmdOp.kind = "tests"
       THEN CmdSucceeded(cmdTrail[Len(cmdTrail)])
       ELSE /\ Len(cmdTrail) = cmdOp.count
            /\ \A i \in DOMAIN cmdTrail : CmdSucceeded(cmdTrail[i])
=============================================================================
