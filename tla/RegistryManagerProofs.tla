------------------------- MODULE RegistryManagerProofs -------------------------
(***************************************************************************)
(* Proofs about RegistryManager for every number of children and every     *)
(* set of faults: its invariants, and what Stop leaves behind.             *)
(*                                                                         *)
(* The argument.  Only one goroutine at a time is in a position to fork:   *)
(* main before watch exists, watch afterwards.  It forks when the channel  *)
(* of the last child it published is closed, the last thing that child's   *)
(* Wait goroutine does; so every earlier child is dead and its goroutine   *)
(* has ended, and can no longer touch m.cmd.                               *)
(***************************************************************************)
EXTENDS RegistryManager, TLAPS, FiniteSetTheorems

\* A child is started, then published: at most the last one is not yet.
Forking == "publish" \in {main, watch}

Numbering ==
  /\ started = done + (IF Forking THEN 1 ELSE 0)
  /\ \A c \in Children : life[c] = "none" <=> c > started
  /\ \A c \in Children : waiter[c] = "none" <=> c > done
  /\ streak <= started
  /\ target <= done

\* The goroutine of a child follows its life, and closes its channel at the end.
WaiterFollowsLife ==
  \A c \in Children :
     /\ waiter[c] \in {"clear", "close", "end"} => life[c] = "dead"
     /\ c \in closedDone <=> waiter[c] = "end"

\* Whoever is about to start a child, or just has, has seen the end of all
\* those before.
EarlierEnded == \A c \in Children : c < started => waiter[c] = "end"

CmdFollowsWaiter ==
  /\ cmd \in {0, done}
  /\ done \in Children => (cmd = done <=> waiter[done] \in {"wait", "clear"})

\* Where main and watch can be together, and what watch has seen there.
Positions ==
  /\ main \in {"fork", "publish"} => watch = "none"
  /\ main = "fork" => started = 0
  /\ main = "serving" => watch # "none"
  /\ watch = "none" => done = 0
  /\ watch # "none" => done \in Children
  /\ watch \in {"recheck", "backoff", "fork", "publish"} => done \in closedDone
  /\ watch # "gone" => crashes <= Backoffs
  /\ stop \in {"signal", "wait", "await"} => target \in Children

IInv ==
  /\ TypeOK
  /\ Numbering
  /\ WaiterFollowsLife
  /\ EarlierEnded
  /\ CmdFollowsWaiter
  /\ Positions

\* While Stop works, when the goroutine that restarts children has gone.
Stopping ==
  /\ stop # "idle" => main = "serving"
  /\ stop \in {"signal", "wait", "await"} => target = started
  /\ stop = "returned" => Alive = {}

-----------------------------------------------------------------------------

LEMMA InitIInv == Init => IInv
<1> SUFFICES ASSUME Init PROVE IInv
  OBVIOUS
<1> USE DEF Init, Children
<1>1. TypeOK
  <2>1. cancelled \in BOOLEAN
    OBVIOUS
  <2>2. /\ life \in [Children -> {"none", "booting", "serving", "dead"}]
        /\ waiter \in [Children -> {"none", "wait", "clear", "close", "end"}]
    OBVIOUS
  <2> QED
    BY <2>1, <2>2, RegistryAssumption DEF TypeOK, Backoffs
<1>2. Numbering
  BY RegistryAssumption DEF Numbering, Forking
<1>3. WaiterFollowsLife /\ EarlierEnded /\ CmdFollowsWaiter
  BY RegistryAssumption DEF WaiterFollowsLife, EarlierEnded, CmdFollowsWaiter
<1>4. Positions
  BY RegistryAssumption DEF Positions, Backoffs
<1> QED
  BY <1>1, <1>2, <1>3, <1>4 DEF IInv

LEMMA NextIInv == IInv /\ [Next]_vars => IInv'
<1> SUFFICES ASSUME IInv, [Next]_vars PROVE IInv'
  OBVIOUS
<1> USE RegistryAssumption DEF IInv, Children, childVars, sharedVars, stopVars
<1>1. ASSUME NEW c \in Children, WaitReturns(c) PROVE IInv'
  <2> USE <1>1 DEF WaitReturns
  <2>1. TypeOK' /\ Numbering' /\ EarlierEnded' /\ Positions'
    BY DEF TypeOK, Numbering, EarlierEnded, Positions, Forking
  <2>2. WaiterFollowsLife'
    BY DEF WaiterFollowsLife
  <2>3. CmdFollowsWaiter'
    BY DEF CmdFollowsWaiter
  <2> QED
    BY <2>1, <2>2, <2>3
<1>2. ASSUME NEW c \in Children, ClearCmd(c) PROVE IInv'
  <2> USE <1>2 DEF ClearCmd
  <2>1. TypeOK' /\ Numbering' /\ Positions'
    BY DEF TypeOK, Numbering, Positions, Forking
  <2>2. WaiterFollowsLife'
    BY DEF WaiterFollowsLife
  <2>3. EarlierEnded'
    BY DEF EarlierEnded
  <2>4. CmdFollowsWaiter'
    BY DEF TypeOK, Numbering, EarlierEnded, CmdFollowsWaiter
  <2> QED
    BY <2>1, <2>2, <2>3, <2>4
<1>3. ASSUME NEW c \in Children, CloseDone(c) PROVE IInv'
  <2> USE <1>3 DEF CloseDone
  <2>1. TypeOK' /\ Numbering'
    BY DEF TypeOK, Numbering, Forking
  <2>2. WaiterFollowsLife'
    BY DEF TypeOK, WaiterFollowsLife
  <2>3. EarlierEnded'
    BY DEF EarlierEnded
  <2>4. CmdFollowsWaiter'
    BY DEF CmdFollowsWaiter
  <2>5. Positions'
    BY DEF Positions
  <2> QED
    BY <2>1, <2>2, <2>3, <2>4, <2>5
<1>4. ASSUME NEW c \in Children, ChildServes(c) PROVE IInv'
  <2> USE <1>4 DEF ChildServes
  <2>1. TypeOK' /\ EarlierEnded' /\ CmdFollowsWaiter' /\ Positions'
    BY DEF TypeOK, EarlierEnded, CmdFollowsWaiter, Positions
  <2>2. Numbering'
    BY DEF Numbering, Forking
  <2>3. WaiterFollowsLife'
    BY DEF WaiterFollowsLife
  <2> QED
    BY <2>1, <2>2, <2>3
<1>5. ASSUME NEW c \in Children, ChildEnds(c) PROVE IInv'
  <2> USE <1>5 DEF ChildEnds, Alive
  <2>1. TypeOK' /\ EarlierEnded' /\ CmdFollowsWaiter' /\ Positions'
    BY DEF TypeOK, EarlierEnded, CmdFollowsWaiter, Positions
  <2>2. Numbering'
    BY DEF Numbering, Forking
  <2>3. WaiterFollowsLife'
    BY DEF WaiterFollowsLife
  <2> QED
    BY <2>1, <2>2, <2>3
<1>6. ASSUME StartFork PROVE IInv'
  <2> USE <1>6 DEF StartFork, Fork, ForkFails
  <2>1. TypeOK' /\ CmdFollowsWaiter'
    BY DEF TypeOK, Numbering, CmdFollowsWaiter
  <2>2. Numbering'
    BY DEF TypeOK, Numbering, Positions, Forking
  <2>3. WaiterFollowsLife'
    BY DEF TypeOK, Numbering, WaiterFollowsLife
  <2>4. EarlierEnded'
    BY DEF EarlierEnded, Positions
  <2>5. Positions'
    BY DEF Positions
  <2> QED
    BY <2>1, <2>2, <2>3, <2>4, <2>5
<1>7. ASSUME StartPublish PROVE IInv'
  <2> USE <1>7 DEF StartPublish, Publish
  <2>1. TypeOK'
    BY DEF TypeOK, Numbering, Forking
  <2>2. Numbering'
    BY DEF TypeOK, Numbering, Forking
  <2>3. WaiterFollowsLife'
    BY DEF TypeOK, Numbering, WaiterFollowsLife, Forking
  <2>4. EarlierEnded'
    BY DEF EarlierEnded
  <2>5. CmdFollowsWaiter'
    BY DEF TypeOK, CmdFollowsWaiter
  <2>6. Positions'
    BY DEF Numbering, Positions, Forking
  <2> QED
    BY <2>1, <2>2, <2>3, <2>4, <2>5, <2>6
<1>8. ASSUME StartReady PROVE IInv'
  <2> USE <1>8 DEF StartReady
  <2>1. TypeOK' /\ Numbering' /\ WaiterFollowsLife' /\ EarlierEnded' /\ CmdFollowsWaiter'
    BY DEF TypeOK, Numbering, WaiterFollowsLife, EarlierEnded, CmdFollowsWaiter, Forking
  <2>2. Positions'
    BY DEF Numbering, Positions, Forking
  <2> QED
    BY <2>1, <2>2
<1>9. ASSUME WatchSelect PROVE IInv'
  <2> USE <1>9 DEF WatchSelect, WatchGoto
  <2>1. TypeOK' /\ Numbering' /\ WaiterFollowsLife' /\ EarlierEnded' /\ CmdFollowsWaiter'
    BY DEF TypeOK, Numbering, WaiterFollowsLife, EarlierEnded, CmdFollowsWaiter, Forking
  <2>2. Positions'
    BY DEF Positions
  <2> QED
    BY <2>1, <2>2
<1>10. ASSUME WatchRecheck PROVE IInv'
  <2> USE <1>10 DEF WatchRecheck, WatchGoto, TooMany, Backoffs
  <2>1. Numbering' /\ WaiterFollowsLife' /\ EarlierEnded' /\ CmdFollowsWaiter'
    BY DEF Numbering, WaiterFollowsLife, EarlierEnded, CmdFollowsWaiter, Forking
  <2>2. TypeOK'
    BY DEF TypeOK, Positions
  <2>3. Positions'
    BY DEF TypeOK, Positions
  <2> QED
    BY <2>1, <2>2, <2>3
<1>11. ASSUME WatchBackoff PROVE IInv'
  <2> USE <1>11 DEF WatchBackoff, WatchGoto
  <2>1. TypeOK' /\ Numbering' /\ WaiterFollowsLife' /\ EarlierEnded' /\ CmdFollowsWaiter'
    BY DEF TypeOK, Numbering, WaiterFollowsLife, EarlierEnded, CmdFollowsWaiter, Forking
  <2>2. Positions'
    BY DEF Positions
  <2> QED
    BY <2>1, <2>2
<1>12. ASSUME WatchFork PROVE IInv'
  <2> USE <1>12 DEF WatchFork, WatchGoto, Fork, ForkFails
  <2>1. TypeOK' /\ CmdFollowsWaiter'
    BY DEF TypeOK, Numbering, CmdFollowsWaiter
  <2>2. Numbering'
    BY DEF TypeOK, Numbering, Positions, Forking
  <2>3. WaiterFollowsLife'
    BY DEF TypeOK, Numbering, WaiterFollowsLife
  <2>4. EarlierEnded'
    BY DEF Numbering, WaiterFollowsLife, EarlierEnded, Positions, Forking
  <2>5. Positions'
    BY DEF Positions
  <2> QED
    BY <2>1, <2>2, <2>3, <2>4, <2>5
<1>13. ASSUME WatchPublish PROVE IInv'
  <2> USE <1>13 DEF WatchPublish, WatchGoto, Publish, Backoffs
  <2>1. TypeOK'
    BY DEF TypeOK, Numbering, Forking
  <2>2. Numbering'
    BY DEF TypeOK, Numbering, Positions, Forking
  <2>3. WaiterFollowsLife'
    BY DEF TypeOK, Numbering, WaiterFollowsLife, Forking
  <2>4. EarlierEnded'
    BY DEF EarlierEnded
  <2>5. CmdFollowsWaiter'
    BY DEF TypeOK, CmdFollowsWaiter
  <2>6. Positions'
    BY DEF TypeOK, Positions
  <2> QED
    BY <2>1, <2>2, <2>3, <2>4, <2>5, <2>6
<1>14. ASSUME Sigterm PROVE IInv'
  BY <1>14 DEF Sigterm, TypeOK, Numbering, WaiterFollowsLife, EarlierEnded,
               CmdFollowsWaiter, Positions, Forking
<1>15. ASSUME StopCall PROVE IInv'
  <2> USE <1>15 DEF StopCall, StopGoto
  <2>1. WaiterFollowsLife' /\ EarlierEnded' /\ CmdFollowsWaiter'
    BY DEF WaiterFollowsLife, EarlierEnded, CmdFollowsWaiter
  <2>2. TypeOK'
    BY DEF TypeOK
  <2>3. Numbering'
    BY DEF Numbering, CmdFollowsWaiter, Positions, Forking
  <2>4. Positions'
    BY DEF CmdFollowsWaiter, Positions
  <2> QED
    BY <2>1, <2>2, <2>3, <2>4
<1>16. ASSUME StopSignal PROVE IInv'
  <2> USE <1>16 DEF StopSignal, StopGoto
  <2>1. TypeOK' /\ Numbering' /\ WaiterFollowsLife' /\ EarlierEnded' /\ CmdFollowsWaiter'
    BY DEF TypeOK, Numbering, WaiterFollowsLife, EarlierEnded, CmdFollowsWaiter, Forking
  <2>2. Positions'
    BY DEF Positions
  <2> QED
    BY <2>1, <2>2
<1>17. ASSUME StopTimeout PROVE IInv'
  BY <1>17 DEF StopTimeout, StopGoto, TypeOK, Numbering, WaiterFollowsLife, EarlierEnded,
               CmdFollowsWaiter, Positions, Forking
<1>18. ASSUME StopReturn PROVE IInv'
  BY <1>18 DEF StopReturn, StopGoto, TypeOK, Numbering, WaiterFollowsLife, EarlierEnded,
               CmdFollowsWaiter, Positions, Forking
<1>19. CASE UNCHANGED vars
  BY <1>19 DEF vars, TypeOK, Numbering, WaiterFollowsLife, EarlierEnded, CmdFollowsWaiter,
               Positions, Forking
<1> QED
  BY <1>1, <1>2, <1>3, <1>4, <1>5, <1>6, <1>7, <1>8, <1>9, <1>10,
     <1>11, <1>12, <1>13, <1>14, <1>15, <1>16, <1>17, <1>18, <1>19
  DEF Next, Waiter, Start, Watch, Stop

\* IInv holds in every behaviour of the specification.
LEMMA Inductive == Spec => []IInv
  BY InitIInv, NextIInv, PTL DEF Spec

-----------------------------------------------------------------------------
\* The invariants that the runs check

\* Every variable stays in its domain for every number of children, and
\* restartBackoffs is never indexed beyond its end (manager.go:179-185).
THEOREM TypeCorrect == Spec => []TypeOK
<1>1. IInv => TypeOK
  BY DEF IInv
<1> QED
  BY Inductive, <1>1, PTL

\* Only the child that was started last may still run.
LEMMA OnlyTheLastRuns ==
  ASSUME IInv, NEW c \in Alive
  PROVE  c \in Children /\ c = started /\ life[c] # "dead"
  BY DEF IInv, Numbering, WaiterFollowsLife, EarlierEnded, Alive, Children

\* At no time do two registries run, however crashes, restarts and Stop fall
\* together (manager.go:139-148, 160-169).
THEOREM OneAtATime == Spec => []OneChildAtATime
<1>1. IInv => OneChildAtATime
  <2> SUFFICES ASSUME IInv PROVE Cardinality(Alive) <= 1
    BY DEF OneChildAtATime
  <2>1. Alive \subseteq {started}
    BY OnlyTheLastRuns
  <2>2. IsFiniteSet({started}) /\ Cardinality({started}) = 1
    BY FS_Singleton
  <2>3. Cardinality(Alive) <= Cardinality({started})
    BY <2>1, <2>2, FS_Subset
  <2> QED
    BY <2>2, <2>3
<1> QED
  BY Inductive, <1>1, PTL

\* A child that runs is m.cmd, or is about to become it: no goroutine of an
\* earlier child wipes it out (manager.go:121-124, 145-147).
THEOREM RunningIsKnown == Spec => []RunningChildIsKnown
<1>1. IInv => RunningChildIsKnown
  <2> SUFFICES ASSUME IInv, NEW c \in Alive, ~Forking PROVE c = cmd
    BY DEF RunningChildIsKnown, Forking
  <2>1. c \in Children /\ c = done /\ life[c] # "dead"
    BY OnlyTheLastRuns DEF IInv, TypeOK, Numbering
  <2>2. waiter[c] = "wait"
    BY <2>1 DEF IInv, TypeOK, Numbering, WaiterFollowsLife
  <2> QED
    BY <2>1, <2>2 DEF IInv, CmdFollowsWaiter
<1> QED
  BY Inductive, <1>1, PTL

-----------------------------------------------------------------------------
\* What Stop leaves behind

WatchGoneForStop == stop # "idle" => watch = "gone"

LEMMA NextStopping ==
  IInv /\ Stopping /\ WatchGoneForStop' /\ WatchGoneForStop /\ [Next]_vars => Stopping'
<1> SUFFICES ASSUME IInv, Stopping, WatchGoneForStop, WatchGoneForStop', [Next]_vars
             PROVE  Stopping'
  OBVIOUS
<1> USE DEF IInv, Stopping, WatchGoneForStop, childVars, sharedVars, stopVars, Alive, TypeOK
<1>1. CASE StopCall
  <2>1. main = "serving" /\ watch = "gone" /\ ~Forking /\ started = done /\ done \in Children
    BY <1>1 DEF StopCall, StopGoto, Forking, Numbering, Positions
  <2>2. CASE cmd = 0
    <3>1. waiter[done] \in {"close", "end"} /\ life[done] = "dead"
      BY <2>1, <2>2 DEF CmdFollowsWaiter, WaiterFollowsLife, Numbering, Children
    <3>2. Alive = {}
      BY <2>1, <3>1, OnlyTheLastRuns
    <3> QED
      BY <1>1, <2>1, <2>2, <3>2 DEF StopCall, StopGoto
  <2>3. CASE cmd # 0
    BY <1>1, <2>1, <2>3 DEF StopCall, StopGoto, CmdFollowsWaiter
  <2> QED
    BY <2>2, <2>3
<1>2. CASE StopSignal
  <2>1. waiter[started] # "wait" => Alive = {}
    BY <1>2, OnlyTheLastRuns DEF StopSignal, WaiterFollowsLife, Numbering
  <2> QED
    BY <1>2, <2>1 DEF StopSignal, StopGoto
<1>3. CASE StopReturn
  <2>1. Alive = {}
    BY <1>3, OnlyTheLastRuns DEF StopReturn, WaiterFollowsLife
  <2> QED
    BY <1>3, <2>1 DEF StopReturn, StopGoto
<1>4. CASE StopTimeout
  BY <1>4 DEF StopTimeout, StopGoto
<1>5. CASE Sigterm
  BY <1>5 DEF Sigterm
<1>6. ASSUME NEW c \in Children, Waiter(c) \/ ChildServes(c) \/ ChildEnds(c) PROVE Stopping'
  BY <1>6 DEF Waiter, WaitReturns, ClearCmd, CloseDone, ChildServes, ChildEnds
<1>7. CASE Start
  BY <1>7 DEF Start, StartFork, StartPublish, StartReady
<1>8. CASE Watch
  BY <1>8 DEF Watch, WatchSelect, WatchRecheck, WatchBackoff, WatchFork, WatchPublish,
              WatchGoto
<1>9. CASE UNCHANGED vars
  BY <1>9 DEF vars
<1> QED
  BY <1>1, <1>2, <1>3, <1>4, <1>5, <1>6, <1>7, <1>8, <1>9 DEF Next, Stop

\* Once Stop has returned no child runs or is started any more, for every number
\* of children, if watch has gone whenever Stop works (manager.go:233-259,
\* main.go:229-230).
THEOREM StopLeavesNone == Spec => NothingOutlivesStop
<1>1. Init => Stopping
  BY DEF Init, Stopping
<1>2. Stopping => (stop = "returned" => Alive = {})
  BY DEF Stopping
<1>3. Spec /\ []WatchGoneForStop => []Stopping
  BY Inductive, NextStopping, <1>1, PTL DEF Spec
<1>4. Spec /\ []WatchGoneForStop => [](stop = "returned" => Alive = {})
  BY <1>2, <1>3, PTL
<1> QED
  BY <1>4, PTL DEF NothingOutlivesStop, WatchGoneForStop

=============================================================================
