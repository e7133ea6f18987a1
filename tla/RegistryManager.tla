--------------------------- MODULE RegistryManager ---------------------------
(***************************************************************************)
(* internal/registry/manager.go: main starts the registry (Zot) as a child *)
(* process, one goroutine per child waits for it, the watch goroutine      *)
(* starts another child when one ends, and the shutdown goroutine stops    *)
(* the last one.  They share m.cmd and m.done under m.mu; no critical      *)
(* section blocks, so each is one step here.                               *)
(*                                                                         *)
(* Children are numbered in the order in which they are started, and m.cmd *)
(* and m.done by the child they belong to.                                 *)
(***************************************************************************)
EXTENDS Naturals, FiniteSets

CONSTANTS MaxStarts,      \* bound on the children; the last one does not crash
          Faults          \* "crash": a child ends by itself; "fork": it cannot be
                          \* started; "deaf": it may ignore SIGTERM

ASSUME RegistryAssumption ==
  /\ MaxStarts \in Nat \ {0}
  /\ Faults \subseteq {"crash", "fork", "deaf"}

VARIABLES life,       \* each child: "none", "booting", "serving", "dead"
          waiter,     \* its Wait goroutine: "none", "wait", "clear", "close", "end"
          closedDone, \* the children whose done channel is closed
          started,    \* how many children there have been
          cmd,        \* m.cmd: a child, 0 when nil
          done,       \* m.done: the child whose channel it is
          main,       \* Manager.Start: "fork", "publish", "wait"; then "serving", "fatal"
          watch,      \* "none", "select", "recheck", "backoff", "fork", "publish", "gone"
          crashes,    \* consecutiveCrashes
          stop,       \* "idle", "signal", "wait", "await", "returned"
          target,     \* the child Stop has read from m.cmd
          cancelled,  \* ctx: SIGTERM has been received
          streak      \* history: children started since one last served

childVars  == <<life, started, streak>>
sharedVars == <<waiter, closedDone, cmd, done>>
stopVars   == <<stop, target>>
vars == <<childVars, sharedVars, main, watch, crashes, stopVars, cancelled>>

Children == 1..MaxStarts

Backoffs == 3   \* len(restartBackoffs)

Alive == {c \in Children : life[c] \in {"booting", "serving"}}

Init ==
  /\ life = [c \in Children |-> "none"]
  /\ waiter = [c \in Children |-> "none"]
  /\ closedDone = {}
  /\ started = 0
  /\ cmd = 0
  /\ done = 0
  /\ main = "fork"
  /\ watch = "none"
  /\ crashes = 0
  /\ stop = "idle"
  /\ target = 0
  /\ cancelled = FALSE
  /\ streak = 0

\* log.Fatal ends every goroutine.
Up == main # "fatal"

-----------------------------------------------------------------------------
\* startProcess: cmd.Start, then m.cmd and m.done are set and Wait begins.

Fork ==
  /\ started < MaxStarts
  /\ started' = started + 1
  /\ life' = [life EXCEPT ![started + 1] = "booting"]
  /\ streak' = streak + 1

ForkFails == "fork" \in Faults /\ UNCHANGED childVars

Publish ==
  /\ cmd' = started
  /\ done' = started
  /\ waiter' = [waiter EXCEPT ![started] = "wait"]
  /\ UNCHANGED closedDone

-----------------------------------------------------------------------------
\* The goroutine that owns cmd.Wait.

\* Mistake: done is closed before m.cmd is cleared.
WaitReturnsClosing(c) ==
  /\ Up /\ waiter[c] = "wait" /\ life[c] = "dead"
  /\ waiter' = [waiter EXCEPT ![c] = "clear"]
  /\ closedDone' = closedDone \cup {c}
  /\ UNCHANGED <<childVars, cmd, done, main, watch, crashes, stopVars, cancelled>>

\* Mistake: the goroutine does not wait for the child's end.
WaitReturnsAtOnce(c) ==
  /\ Up /\ waiter[c] = "wait"
  /\ waiter' = [waiter EXCEPT ![c] = "clear"]
  /\ UNCHANGED <<childVars, closedDone, cmd, done, main, watch, crashes, stopVars, cancelled>>

WaitReturns(c) ==
  /\ Up /\ waiter[c] = "wait" /\ life[c] = "dead"
  /\ waiter' = [waiter EXCEPT ![c] = "clear"]
  /\ UNCHANGED <<childVars, closedDone, cmd, done, main, watch, crashes, stopVars, cancelled>>

\* m.cmd = nil, whatever it is by now.
ClearCmd(c) ==
  /\ Up /\ waiter[c] = "clear"
  /\ cmd' = 0
  /\ waiter' = [waiter EXCEPT ![c] = "close"]
  /\ UNCHANGED <<childVars, closedDone, done, main, watch, crashes, stopVars, cancelled>>

\* The deferred close.
CloseDone(c) ==
  /\ Up /\ waiter[c] = "close"
  /\ closedDone' = closedDone \cup {c}
  /\ waiter' = [waiter EXCEPT ![c] = "end"]
  /\ UNCHANGED <<childVars, cmd, done, main, watch, crashes, stopVars, cancelled>>

-----------------------------------------------------------------------------
\* Manager.Start, called by main; its error is fatal.

StartFork ==
  /\ main = "fork"
  /\ \/ Fork /\ main' = "publish"
     \/ ForkFails /\ main' = "fatal"
  /\ UNCHANGED <<sharedVars, watch, crashes, stopVars, cancelled>>

StartPublish ==
  /\ main = "publish"
  /\ Publish
  /\ main' = "wait"
  /\ watch' = "select"
  /\ UNCHANGED <<childVars, crashes, stopVars, cancelled>>

\* waitUntilReady: an answer, the deadline, or the cancelled context.
StartReady ==
  /\ main = "wait"
  /\ \/ main' = "serving" /\ \E c \in Children : life[c] = "serving"
     \/ main' = "fatal"
  /\ UNCHANGED <<childVars, sharedVars, watch, crashes, stopVars, cancelled>>

-----------------------------------------------------------------------------
\* watch

WatchGoto(p) ==
  /\ watch' = p
  /\ UNCHANGED <<main, stopVars, cancelled>>

WatchSelect ==
  /\ Up /\ watch = "select"
  /\ \/ cancelled /\ WatchGoto("gone")
     \/ done \in closedDone /\ WatchGoto("recheck")
  /\ UNCHANGED <<childVars, sharedVars, crashes>>

\* Mistake: one backoff more than the table has.
TooManyOffByOne == crashes > Backoffs

TooMany == crashes + 1 > Backoffs

\* The second look at ctx, then the crash is counted.
WatchRecheck ==
  /\ Up /\ watch = "recheck"
  /\ \/ cancelled /\ WatchGoto("gone") /\ UNCHANGED crashes
     \/ /\ ~cancelled
        /\ crashes' = crashes + 1
        /\ WatchGoto(IF TooMany THEN "gone" ELSE "backoff")
  /\ UNCHANGED <<childVars, sharedVars>>

\* When ctx and the timer are both ready Go picks either.
WatchBackoff ==
  /\ Up /\ watch = "backoff"
  /\ WatchGoto("fork") \/ (cancelled /\ WatchGoto("gone"))
  /\ UNCHANGED <<childVars, sharedVars, crashes>>

\* Mistake: an error ends the goroutine.
WatchForkOnce ==
  /\ Up /\ watch = "fork"
  /\ \/ Fork /\ WatchGoto("publish")
     \/ ForkFails /\ WatchGoto("gone")
  /\ UNCHANGED <<sharedVars, crashes>>

\* After an error m.done is still the closed channel of the last child.
WatchFork ==
  /\ Up /\ watch = "fork"
  /\ \/ Fork /\ WatchGoto("publish")
     \/ ForkFails /\ WatchGoto("select")
  /\ UNCHANGED <<sharedVars, crashes>>

\* The child is trusted: the count starts again.
WatchPublish ==
  /\ Up /\ watch = "publish"
  /\ Publish
  /\ crashes' = 0
  /\ WatchGoto("select")
  /\ UNCHANGED childVars

-----------------------------------------------------------------------------
\* SIGTERM and Stop

Sigterm ==
  /\ ~cancelled
  /\ cancelled' = TRUE
  /\ UNCHANGED <<childVars, sharedVars, main, watch, crashes, stopVars>>

StopGoto(p) ==
  /\ stop' = p
  /\ UNCHANGED <<main, watch, crashes, cancelled>>

\* The shutdown goroutine calls Stop, three seconds or more after SIGTERM.
StopCall ==
  /\ main = "serving" /\ cancelled /\ stop = "idle"
  /\ target' = cmd
  /\ StopGoto(IF cmd = 0 THEN "returned" ELSE "signal")
  /\ UNCHANGED <<childVars, sharedVars>>

\* SIGTERM to the child; to one that Wait has reaped it is an error.  What the
\* child does with the signal is ChildEnds.
StopSignal ==
  /\ stop = "signal"
  /\ StopGoto(IF waiter[target] = "wait" THEN "wait" ELSE "returned")
  /\ UNCHANGED <<childVars, sharedVars, target>>

\* Mistake: Stop gives up on a child that does not end in time.
StopTimeoutNoKill ==
  /\ stop = "wait"
  /\ StopGoto("returned")
  /\ UNCHANGED <<childVars, sharedVars, target>>

\* Mistake: no timeout.
StopTimeoutNever == FALSE

\* Five seconds have passed: Kill.
StopTimeout ==
  /\ stop = "wait"
  /\ StopGoto("await")
  /\ UNCHANGED <<childVars, sharedVars, target>>

StopReturn ==
  /\ stop \in {"wait", "await"}
  /\ target \in closedDone
  /\ StopGoto("returned")
  /\ UNCHANGED <<childVars, sharedVars, target>>

-----------------------------------------------------------------------------
\* The child processes

ChildServes(c) ==
  /\ life[c] = "booting"
  /\ life' = [life EXCEPT ![c] = "serving"]
  /\ streak' = 0
  /\ UNCHANGED <<started, sharedVars, main, watch, crashes, stopVars, cancelled>>

Killed(c)   == c = target /\ stop = "await"
Signalled(c) == c = target /\ stop = "wait" /\ "deaf" \notin Faults

\* By itself, by SIGTERM, or by SIGKILL.
ChildEnds(c) ==
  /\ c \in Alive
  /\ \/ "crash" \in Faults /\ c < MaxStarts
     \/ c = target /\ stop \in {"wait", "await"}
  /\ life' = [life EXCEPT ![c] = "dead"]
  /\ UNCHANGED <<started, streak, sharedVars, main, watch, crashes, stopVars, cancelled>>

-----------------------------------------------------------------------------

Waiter(c) == WaitReturns(c) \/ ClearCmd(c) \/ CloseDone(c)
Start     == StartFork \/ StartPublish \/ StartReady
Watch     == WatchSelect \/ WatchRecheck \/ WatchBackoff \/ WatchFork \/ WatchPublish
Stop      == StopSignal \/ StopTimeout \/ StopReturn

Next ==
  \/ \E c \in Children : Waiter(c) \/ ChildServes(c) \/ ChildEnds(c)
  \/ Start
  \/ Watch
  \/ Sigterm
  \/ StopCall
  \/ Stop

Spec == Init /\ [][Next]_vars

(* Goroutines run, timers fire, and a child that was killed ends, as does  *)
(* one that was told to unless it is deaf.  That fork succeeds, that a     *)
(* child serves, and SIGTERM itself are nobody's obligation.               *)
FairSpec ==
  /\ Spec
  /\ \A c \in Children : /\ WF_vars(Waiter(c))
                         /\ WF_vars((Killed(c) \/ Signalled(c)) /\ ChildEnds(c))
  /\ WF_vars(Start)
  /\ WF_vars(Watch)
  /\ WF_vars(Stop)

-----------------------------------------------------------------------------
\* Properties

\* Every variable stays in its domain, and restartBackoffs is never indexed
\* beyond its end (manager.go:179-185).
TypeOK ==
  /\ life \in [Children -> {"none", "booting", "serving", "dead"}]
  /\ waiter \in [Children -> {"none", "wait", "clear", "close", "end"}]
  /\ closedDone \subseteq Children
  /\ started \in 0..MaxStarts
  /\ cmd \in 0..started
  /\ done \in 0..started
  /\ main \in {"fork", "publish", "wait", "serving", "fatal"}
  /\ watch \in {"none", "select", "recheck", "backoff", "fork", "publish", "gone"}
  /\ crashes \in 0..(Backoffs + 1)
  /\ watch \in {"backoff", "fork", "publish"} => crashes \in 1..Backoffs
  /\ stop \in {"idle", "signal", "wait", "await", "returned"}
  /\ target \in 0..started
  /\ cancelled \in BOOLEAN
  /\ streak \in 0..MaxStarts

\* There is one registry on port 5000: a new child is started only when the
\* one before has ended, whatever crashes and however Stop and the restart
\* fall together (manager.go:139-148, 160-169).
OneChildAtATime == Cardinality(Alive) <= 1

\* The manager never loses sight of a child: one that runs is m.cmd, which is
\* what Stop will signal, or startProcess is just about to say so.  The
\* goroutine of an earlier child does not wipe out a later one's entry
\* (manager.go:121-124, 145-147).
RunningChildIsKnown ==
  Up => \A c \in Alive : c = cmd \/ "publish" \in {main, watch}

\* After Stop has returned no child runs, nor is one started any more, if Stop
\* is called when the watch goroutine has gone, which the comment at
\* manager.go:234 relies on and the three seconds before the call (main.go:223)
\* usually see to (manager.go:233-259, main.go:229-230).
NothingOutlivesStop ==
  [](stop # "idle" => watch = "gone") => [](stop = "returned" => Alive = {})

\* Stop returns, even from a child that ignores SIGTERM (manager.go:251-256).
StopReturns == stop = "signal" ~> stop = "returned"

\* While the service runs a registry that has ended is started again, until
\* starting it has failed for every backoff in a row (manager.go:179-197).
ChildIsReplaced ==
  main = "serving" /\ Alive = {} ~> Alive # {} \/ cancelled \/ crashes > Backoffs

\* "After len(restartBackoffs) consecutive crashes without recovery, Zot is not
\* restarted" (manager.go:26): beside the first child no more than three are
\* started without one of them serving.
GivesUpOnCrashLoop == streak <= Backoffs + 1

=============================================================================
