------------------------------ MODULE Supervision ------------------------------
(***************************************************************************)
(* The process around the agent loop: the lifecycle whose destroy() runs   *)
(* the cleanups and tells the end of the session, the status file other    *)
(* programs read, the watchdog of a run and the account of its costs, as   *)
(* main() (src/index.ts) and the terminal (src/tui/repl.tsx) use them.     *)
(*                                                                         *)
(* A signal starts destroy(); a one-shot main goes on, and itself ends by  *)
(* awaiting the same destroy(), while the terminal (src/tui/app.tsx) exits *)
(* in the tick of the signal.  A model is the set of the price tables that *)
(* know it.  Time is counted in timeouts' units.                           *)
(* SupScheduleAgain, SupDestroysAnew are versions of the definitions after *)
(* them with a plausible fault.                                            *)
(***************************************************************************)
EXTENDS Integers, FiniteSets, SequencesExt

CONSTANTS
  SupTimeout,     \* timeoutSeconds of the watchdog
  SupMaxNow,      \* bound: the clock
  SupMaxEvents,   \* bound: events of the agent loop
  SupMaxSignals,  \* bound: signals
  SupBudget       \* the budget, in the unit of the prices

ASSUME SupAssumption == SupTimeout \in Nat

VARIABLES
  supMain,      \* where main is, and in which mode
  supLife,      \* the lifecycle: phase, reason, entries left, entries run
  supTold,      \* listeners of the session's end that were called
  supFile,      \* status in the status file
  supWatch,     \* the watchdog: state, lastTouchAt, when it fired, timers set
  supCost,      \* tokens and costs of each model
  supNow,
  supUses       \* what was used, in its order, the signals that came, and how it ended

supVars == <<supMain, supLife, supTold, supFile, supWatch, supCost, supNow, supUses>>

SupModes == {"one-shot", "terminal"}
SupCleanups == <<"mcp.close", "proxy.stop", "parallel-agent.stop">>
SupLastFirst == Reverse(SupCleanups)
SupListeners == <<"status", "digest", "finalize">>
\* SIGTERM is handled as SIGINT.
SupReasons == {"SIGINT", "uncaughtException"}

\* resolveModelPricingInfo: the first table that knows the model.
SupTables == <<"override-exact", "override-partial", "default-exact", "default-rule">>
SupModelList == <<{}, {"default-rule"}, {"override-partial", "default-rule"}>>
SupModels == {SupModelList[i] : i \in DOMAIN SupModelList}
SupSource(model) ==
  IF model = {} THEN "unknown"
  ELSE SupTables[CHOOSE i \in DOMAIN SupTables :
                   SupTables[i] \in model /\ \A j \in 1 .. i - 1 : SupTables[j] \notin model]
SupPrice(model) ==
  CASE SupSource(model) = "unknown" -> 0
    [] SupSource(model) = "default-rule" -> 1
    [] OTHER -> 2

SupNoWatch == [state |-> "none", last |-> 0, fired |-> 0, timers |-> {}]
SupNoLife == [phase |-> "live", reason |-> "none", left |-> <<>>, ran |-> <<>>]

\* main up to its first wait: the cleanups and listeners are registered, the
\* handlers of the signals installed, the session begun and the terminal up.
SupInit ==
  /\ supMain \in [at : {"prompt"}, mode : SupModes]
  /\ supLife = SupNoLife
  /\ supTold = <<>> /\ supFile = "idle"
  /\ supWatch = SupNoWatch
  /\ supCost = [m \in SupModels |-> [tokens |-> 0, cost |-> 0]]
  /\ supNow = 0
  /\ supUses = [list |-> <<>>, signals |-> 0, fatal |-> FALSE, killed |-> FALSE]

-----------------------------------------------------------------------------
(* The watchdog *)

SupWatching == supWatch.state = "active"

\* As if the timer before were left set.
SupScheduleAgain(watch, now) == [watch EXCEPT !.timers = @ \cup {now + SupTimeout}]
\* scheduleTimer clears the timer before.
SupSchedule(watch, now) == [watch EXCEPT !.timers = {now + SupTimeout}]

SupStarted ==
  SupSchedule([state |-> "active", last |-> supNow, fired |-> 0, timers |-> {}], supNow)

\* touch does nothing any more after stop or a timeout.
SupTouched == IF SupWatching THEN SupSchedule([supWatch EXCEPT !.last = supNow], supNow) ELSE supWatch

SupStopped ==
  IF supWatch.state = "none" THEN supWatch
  ELSE [supWatch EXCEPT !.state = IF @ = "timedOut" THEN @ ELSE "stopped", !.timers = {}]

\* The timer fires: the status is aborted and so is the run, which goes on
\* until the loop comes to look.
SupFires ==
  /\ \E t \in supWatch.timers : t <= supNow
  /\ supMain.at # "exited"
  /\ IF SupWatching
     THEN /\ supWatch' = [supWatch EXCEPT !.state = "timedOut", !.fired = supNow, !.timers = {}]
          /\ supFile' = "aborted"
     ELSE supWatch' = [supWatch EXCEPT !.timers = {}] /\ UNCHANGED supFile
  /\ UNCHANGED <<supMain, supLife, supTold, supCost, supNow, supUses>>

\* The clock, which nothing but a timer that is set can tell.
SupTick ==
  /\ supNow < SupMaxNow /\ supMain.at # "exited" /\ supWatch.timers # {}
  /\ supNow' = supNow + 1
  /\ UNCHANGED <<supMain, supLife, supTold, supFile, supWatch, supCost, supUses>>

-----------------------------------------------------------------------------
(* The run *)

\* A prompt, watched or not
SupRun ==
  /\ supMain.at = "prompt"
  /\ supMain' = [supMain EXCEPT !.at = "running"]
  /\ supFile' = "running"
  /\ supWatch' \in {SupNoWatch, SupStarted}
  /\ UNCHANGED <<supLife, supTold, supCost, supNow, supUses>>

\* addUsage
SupAdded(model, tokens) ==
  [supCost EXCEPT ![model] = [tokens |-> @.tokens + tokens, cost |-> @.cost + tokens * SupPrice(model)]]

\* An event of the loop; some tell what a model used.
SupEvent ==
  /\ supMain.at = "running" /\ Len(supUses.list) < SupMaxEvents
  /\ supWatch' = SupTouched
  /\ \E use \in ({{}} \X {0}) \cup (SupModels \X {1}) :
       /\ supCost' = SupAdded(use[1], use[2])
       /\ supUses' = [supUses EXCEPT !.list = Append(@, use)]
  /\ UNCHANGED <<supMain, supLife, supTold, supFile, supNow>>

\* As if each caller of destroy had a run of its own.
SupDestroysAnew(reason) ==
  [phase |-> "cleanups", reason |-> reason, left |-> Tail(SupLastFirst),
   ran |-> Append(supLife.ran, Head(SupLastFirst))]
\* destroy: the first call starts it and, without a wait, the first cleanup;
\* every other call gets its promise.
SupDestroys(reason) ==
  IF supLife.phase # "live" THEN supLife
  ELSE [phase |-> "cleanups", reason |-> reason, left |-> Tail(SupLastFirst),
        ran |-> <<Head(SupLastFirst)>>]

\* A one-shot run is over: stop the watchdog, set the status, destroy, exit.
SupRunDone ==
  /\ supMain = [at |-> "running", mode |-> "one-shot"]
  /\ supMain' = [supMain EXCEPT !.at = "exiting"]
  /\ supFile' = IF supWatch.state = "timedOut" THEN "aborted" ELSE "completed"
  /\ supWatch' = SupStopped
  /\ supLife' = SupDestroys("manual")
  /\ UNCHANGED <<supTold, supCost, supNow, supUses>>

\* A turn of the terminal is over, by itself or because it was aborted.
SupTurnDone ==
  /\ supMain = [at |-> "running", mode |-> "terminal"]
  /\ supMain' = [supMain EXCEPT !.at = "prompt"]
  /\ supFile' \in {"idle", "aborted"} \cup (IF supWatch.state = "timedOut" THEN {} ELSE {"failed"})
  /\ supWatch' = SupStopped
  /\ UNCHANGED <<supLife, supTold, supCost, supNow, supUses>>

\* main rejects: the watchdog is left as it is.
SupFatal ==
  /\ supMain = [at |-> "running", mode |-> "one-shot"]
  /\ supMain' = [supMain EXCEPT !.at = "exiting"]
  /\ supLife' = SupDestroys("uncaughtException")
  /\ supUses' = [supUses EXCEPT !.fatal = TRUE]
  /\ UNCHANGED <<supTold, supFile, supWatch, supCost, supNow>>

\* The user leaves the terminal and nothing is left to wait for: beforeExit.
SupQuit ==
  /\ supMain = [at |-> "prompt", mode |-> "terminal"]
  /\ supMain' = [supMain EXCEPT !.at = "exiting"]
  /\ supLife' = SupDestroys("beforeExit")
  /\ UNCHANGED <<supTold, supFile, supWatch, supCost, supNow, supUses>>

\* process.exit after the await; the terminal's process ends of itself.
SupExit ==
  /\ supMain.at = "exiting" /\ supLife.phase = "destroyed"
  /\ supMain' = [supMain EXCEPT !.at = "exited"]
  /\ UNCHANGED <<supLife, supTold, supFile, supWatch, supCost, supNow, supUses>>

\* A handler of index.ts alone, as no terminal's is there or an exception is
\* uncaught: destroy, without waiting and without an exit.
SupSignal(reason) ==
  /\ supMain.at # "exited" /\ supUses.signals < SupMaxSignals
  /\ supMain.mode = "terminal" => reason = "uncaughtException"
  /\ supLife' = SupDestroys(reason)
  /\ supUses' = [supUses EXCEPT !.signals = @ + 1]
  /\ UNCHANGED <<supMain, supTold, supFile, supWatch, supCost, supNow>>

\* A signal in the terminal: after the handler of index.ts its own aborts the
\* turn and exits, before anything that waits can go on, and also while the
\* process is about to end.
SupKilled ==
  /\ supMain.mode = "terminal" /\ supMain.at # "exited" /\ supUses.signals < SupMaxSignals
  /\ supLife' = SupDestroys("SIGINT")
  /\ supMain' = [supMain EXCEPT !.at = "exited"]
  /\ supUses' = [supUses EXCEPT !.signals = @ + 1, !.killed = TRUE]
  /\ UNCHANGED <<supTold, supFile, supWatch, supCost, supNow>>

-----------------------------------------------------------------------------
(* destroy *)

\* The last cleanup first, each awaited; a rejection is noted and passed over.
SupCleanup ==
  /\ supLife.phase = "cleanups" /\ supMain.at # "exited"
  /\ supLife' = IF supLife.left = <<>>
                THEN [supLife EXCEPT !.phase = "listeners", !.left = SupListeners]
                ELSE [supLife EXCEPT !.left = Tail(@), !.ran = Append(@, Head(supLife.left))]
  /\ UNCHANGED <<supMain, supTold, supFile, supWatch, supCost, supNow, supUses>>

\* emitSessionEnd: the status is exited, the digest is written after a normal
\* end only, the sessions' evidence always.
SupTell ==
  /\ supLife.phase = "listeners" /\ supMain.at # "exited"
  /\ IF supLife.left = <<>>
     THEN /\ supLife' = [supLife EXCEPT !.phase = "destroyed"]
          /\ UNCHANGED <<supTold, supFile>>
     ELSE LET who == Head(supLife.left) IN
          /\ supLife' = [supLife EXCEPT !.left = Tail(@)]
          /\ supFile' = IF who = "status" THEN "exited" ELSE supFile
          /\ supTold' = IF who = "digest" /\ supLife.reason \notin {"manual", "beforeExit"}
                        THEN supTold ELSE Append(supTold, who)
  /\ UNCHANGED <<supMain, supWatch, supCost, supNow, supUses>>

SupNext ==
  \/ SupRun \/ SupEvent \/ SupRunDone \/ SupTurnDone \/ SupFatal \/ SupQuit \/ SupExit
  \/ SupKilled \/ \E reason \in SupReasons : SupSignal(reason)
  \/ SupFires \/ SupTick \/ SupCleanup \/ SupTell

SupSpec == SupInit /\ [][SupNext]_supVars

-----------------------------------------------------------------------------
(* What the others see *)

\* readStatusSnapshot, by a program that may know the words of an older file.
SupRead == IF supFile \in {"idle", "running", "aborted", "completed", "failed", "exited"}
           THEN supFile ELSE "none"

\* getCost
SupTotal ==
  LET sum[i \in 0 .. Len(SupModelList)] ==
        IF i = 0 THEN 0 ELSE sum[i - 1] + supCost[SupModelList[i]].cost
  IN  sum[Len(SupModelList)]
SupOver == SupTotal > SupBudget
SupUnknown == {m \in SupModels : supCost[m].tokens > 0 /\ SupSource(m) = "unknown"}

-----------------------------------------------------------------------------
(* Properties *)

\* However many signals come and wherever main is, the cleanups run once each,
\* the last registered first, and all of them before any listener of the
\* session's end, told once each.  The process never exits without having
\* stopped the parallel agents, and unless the terminal exited on a signal,
\* every cleanup has run by then and every listener was told.
SupEndsOnce ==
  /\ IsPrefix(supLife.ran, SupLastFirst)
  /\ \A i, j \in DOMAIN supTold : supTold[i] = supTold[j] => i = j
  /\ supTold # <<>> => supLife.ran = SupLastFirst
  /\ supMain.at = "exited" =>
       /\ Head(SupLastFirst) \in ToSet(supLife.ran)
       /\ ~ supUses.killed =>
            /\ supLife.ran = SupLastFirst
            /\ {"status", "finalize"} \subseteq ToSet(supTold)
            /\ "digest" \in ToSet(supTold) <=> supLife.reason \in {"manual", "beforeExit"}

\* The watchdog fires only after a whole timeout without an event, and never
\* for a run that is over.
SupWatchHonest ==
  supWatch.state = "timedOut" => supWatch.fired >= supWatch.last + SupTimeout

\* What is left in the status file by a process that is gone, unless the
\* terminal exited on a signal, which may leave anything.  Without a signal it
\* is "exited"; an error that no one caught may leave the watchdog's "aborted"
\* instead.  After a signal main may write after the listeners, but a run that
\* came to its end never leaves "running".
SupStatusLast ==
  supMain.at = "exited" /\ ~ supUses.killed =>
    /\ supUses.signals = 0 /\ ~ supUses.fatal => SupRead = "exited"
    /\ supUses.signals = 0 => SupRead \in {"exited", "aborted"}
    /\ ~ supUses.fatal => SupRead # "running"

\* The account: the total is what was used at the price of the most specific
\* table, and what no table knows is reported, not just free.
SupCostsTrue ==
  LET used == supUses.list
      known == {i \in DOMAIN used : used[i][1] # {} /\ used[i][2] > 0}
      dear == {i \in known : "override-partial" \in used[i][1]}
  IN /\ SupTotal = Cardinality(known) + Cardinality(dear)
     /\ SupUnknown # {} <=> \E i \in DOMAIN used : used[i][1] = {} /\ used[i][2] > 0
     /\ SupOver <=> Cardinality(known) + Cardinality(dear) > SupBudget

\* The end of a process and what it tells of itself.
SupervisionSound == SupEndsOnce /\ SupWatchHonest /\ SupStatusLast /\ SupCostsTrue
================================================================================
