--------------------------- MODULE ExecutingService ---------------------------
(***************************************************************************)
(* ArsBaseExecutingService: a service that StartAsync gives a timer, whose *)
(* callbacks execute one at a time under a SemaphoreSlim, and StopAsync    *)
(* cancels.  A manually scheduled service is a singleton that HTTP         *)
(* requests start and stop, several at once if they like.                  *)
(*                                                                         *)
(* Calls of StartAsync are numbered; a number also names the               *)
(* CancellationTokenSource and the Timer the call makes.                   *)
(***************************************************************************)
EXTENDS Naturals

CONSTANTS
  MaxStarts,  \* bound: calls of StartAsync
  Callbacks,  \* bound: callbacks running at the same time
  Nobody,     \* no callback
  Throwing      \* "execute": ExecutingAsync may throw; "failed": FailedExecutingAsync may

ASSUME MaxStartsAssumption == MaxStarts \in Nat
ASSUME NobodyAssumption == Nobody \notin Callbacks
ASSUME ThrowingAssumption == Throwing \subseteq {"execute", "failed"}

Starts == 1 .. MaxStarts
NoStart == 0
StartOrNone == 0 .. MaxStarts
CallbackStage == {"none", "entering", "waiting", "executing", "failing"}

VARIABLES
  begun,      \* how many calls of StartAsync began
  source,     \* _cancellationTokenSource
  timer,      \* _timer
  linked,     \* the source each started timer is linked to
  timers,     \* the timers that fire
  cancelled,  \* the sources StopAsync cancelled
  disposed,   \* the service is disposed
  at,         \* where each callback is
  of,         \* the timer it belongs to
  turn,     \* the callback that holds the semaphore
  up          \* the process runs

startVars == <<begun, source, timer, linked>>
stopVars == <<timers, cancelled, disposed>>
callbackVars == <<at, of, turn>>
serviceVars == <<begun, source, timer, linked, timers, cancelled, disposed, at, of, turn, up>>

ServiceInit ==
  /\ begun = 0 /\ source = NoStart /\ timer = NoStart
  /\ linked = [s \in Starts |-> NoStart]
  /\ timers = {} /\ cancelled = {} /\ disposed = FALSE
  /\ at = [i \in Callbacks |-> "none"]
  /\ of = [i \in Callbacks |-> NoStart]
  /\ turn = Nobody
  /\ up = TRUE

Stopped(s) == linked[s] \in cancelled

-----------------------------------------------------------------------------
(* StartAsync, StopAsync, Dispose                                           *)

StartAsync ==
  /\ begun < MaxStarts /\ ~disposed
  /\ begun' = begun + 1 /\ source' = begun + 1
  /\ UNCHANGED <<timer, linked, stopVars, callbackVars, up>>

\* The call reads the field again: another call may have replaced the source.
StartTimer(s) ==
  /\ s <= begun /\ linked[s] = NoStart
  /\ linked' = [linked EXCEPT ![s] = source]
  /\ timer' = s /\ timers' = timers \cup {s}
  /\ UNCHANGED <<begun, source, cancelled, disposed, callbackVars, up>>

StopAsync ==
  /\ source # NoStart /\ source \notin cancelled /\ ~disposed
  /\ cancelled' = cancelled \cup {source}
  /\ UNCHANGED <<startVars, timers, disposed, callbackVars, up>>

Dispose ==
  /\ ~disposed
  /\ disposed' = TRUE /\ timers' = timers \ {timer}
  /\ UNCHANGED <<startVars, cancelled, callbackVars, up>>

\* A timer that a later StartAsync replaced is garbage, its finalizer ends it.
Collect(s) ==
  /\ s \in timers /\ s # timer
  /\ timers' = timers \ {s}
  /\ UNCHANGED <<startVars, cancelled, disposed, callbackVars, up>>

-----------------------------------------------------------------------------
(* CallBack, an async void method                                           *)

MoveTo(i, stage) == at' = [at EXCEPT ![i] = stage]

FireAlways(s, i) ==   \* mutant: neither the check of the token nor the token for WaitAsync
  /\ s \in timers /\ at[i] = "none"
  /\ IF turn = Nobody
     THEN MoveTo(i, "executing") /\ turn' = i
     ELSE MoveTo(i, "waiting") /\ UNCHANGED turn
  /\ of' = [of EXCEPT ![i] = s]
  /\ UNCHANGED <<startVars, stopVars, up>>

\* The timer fires, whether or not earlier callbacks have ended.
Fire(s, i) ==
  /\ s \in timers /\ ~Stopped(s) /\ at[i] = "none"
  /\ MoveTo(i, "entering")
  /\ of' = [of EXCEPT ![i] = s]
  /\ UNCHANGED <<startVars, stopVars, turn, up>>

\* WaitAsync throws on a cancelled token, takes a free semaphore or queues.
Enter(i) ==
  /\ at[i] = "entering"
  /\ IF Stopped(of[i])
     THEN MoveTo(i, "failing") /\ UNCHANGED turn
     ELSE IF turn = Nobody
     THEN MoveTo(i, "executing") /\ turn' = i
     ELSE MoveTo(i, "waiting") /\ UNCHANGED turn
  /\ UNCHANGED <<of, startVars, stopVars, up>>

ExecuteAnyway(i) ==   \* mutant: the result of WaitAsync is ignored
  /\ at[i] = "waiting"
  /\ MoveTo(i, "executing")
  /\ UNCHANGED <<of, turn, startVars, stopVars, up>>

\* WaitTime is over: WaitAsync returns false and this execution is skipped.
TimeOut(i) ==
  /\ at[i] = "waiting"
  /\ MoveTo(i, "none")
  /\ of' = [of EXCEPT ![i] = NoStart]
  /\ UNCHANGED <<turn, startVars, stopVars, up>>

CancelWait(i) ==
  /\ at[i] = "waiting" /\ Stopped(of[i])
  /\ MoveTo(i, "failing")
  /\ UNCHANGED <<of, turn, startVars, stopVars, up>>

\* Release hands the semaphore to a waiting callback, which then executes even if
\* it is cancelled before it runs.
Release(i, stage) ==
  LET queue == {j \in Callbacks : at[j] = "waiting"} IN
  IF queue = {}
  THEN turn' = Nobody /\ MoveTo(i, stage)
  ELSE \E j \in queue :
         turn' = j /\ at' = [at EXCEPT ![i] = stage, ![j] = "executing"]

ExecuteEnds(i) ==
  /\ at[i] = "executing"
  /\ Release(i, "none")
  /\ of' = [of EXCEPT ![i] = NoStart]
  /\ UNCHANGED <<startVars, stopVars, up>>

ThrowHolding(i) ==   \* mutant: an exception leaves the semaphore taken
  /\ "execute" \in Throwing /\ at[i] = "executing"
  /\ MoveTo(i, "failing")
  /\ UNCHANGED <<turn, of, startVars, stopVars, up>>

ExecuteThrows(i) ==
  /\ "execute" \in Throwing /\ at[i] = "executing"
  /\ Release(i, "failing")
  /\ UNCHANGED <<of, startVars, stopVars, up>>

\* FailedExecutingAsync returned; when it throws in an async void method, the
\* process ends.
Failed(i) ==
  /\ at[i] = "failing"
  /\ MoveTo(i, "none")
  /\ of' = [of EXCEPT ![i] = NoStart]
  /\ UNCHANGED <<turn, startVars, stopVars, up>>

FailedThrows(i) ==
  /\ "failed" \in Throwing /\ at[i] = "failing"
  /\ up' = FALSE
  /\ UNCHANGED <<startVars, stopVars, callbackVars>>

-----------------------------------------------------------------------------
Advance(i) ==
  \/ Enter(i) \/ TimeOut(i) \/ CancelWait(i)
  \/ ExecuteEnds(i) \/ ExecuteThrows(i) \/ Failed(i) \/ FailedThrows(i)

ServiceNext ==
  /\ up
  /\ \/ StartAsync \/ StopAsync \/ Dispose
     \/ \E s \in Starts : StartTimer(s) \/ Collect(s) \/ \E i \in Callbacks : Fire(s, i)
     \/ \E i \in Callbacks : Advance(i)

ServiceSpec == ServiceInit /\ [][ServiceNext]_serviceVars

\* Timers fire, and ExecutingAsync and FailedExecutingAsync return.
ServiceFairness ==
  /\ \A i \in Callbacks : WF_serviceVars(up /\ Advance(i))
  /\ \A s \in Starts : WF_serviceVars(up /\ \E i \in Callbacks : Fire(s, i))

-----------------------------------------------------------------------------
(* Properties                                                              *)

ServiceTypeOK ==
  /\ begun \in StartOrNone /\ source \in StartOrNone /\ timer \in StartOrNone
  /\ linked \in [Starts -> StartOrNone]
  /\ timers \subseteq Starts /\ cancelled \subseteq Starts
  /\ disposed \in BOOLEAN /\ up \in BOOLEAN
  /\ at \in [Callbacks -> CallbackStage]
  /\ of \in [Callbacks -> StartOrNone]
  /\ turn \in Callbacks \cup {Nobody}

\* ExecutingAsync never overlaps with itself: not when a callback outlasts the
\* period, when waiting callbacks time out or are cancelled, when it throws, or when
\* the service is stopped and started again while an execution still runs.
NoOverlap == \A i, j \in Callbacks : at[i] = "executing" /\ at[j] = "executing" => i = j

\* Whatever its callbacks were doing, a stopped timer executes nothing in the end.
StoppedFallsQuiet ==
  \A s \in Starts :
    Stopped(s) ~> [](~up \/ \A i \in Callbacks : of[i] = s => at[i] # "executing")

\* A started service executes again and again until it is stopped: no exception,
\* timeout or cancellation loses the semaphore.
KeepsExecuting ==
  \A s \in Starts :
    s \in timers ~>
      \/ \E i \in Callbacks : at[i] = "executing"
      \/ Stopped(s) \/ s \notin timers \/ ~up

=============================================================================
