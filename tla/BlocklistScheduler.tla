------------------------- MODULE BlocklistScheduler -------------------------
(***************************************************************************)
(* The periodic refresh of the blocklist (blocklist/scheduler.rs): a task  *)
(* that waits for the stop signal or the timer, then runs tick_once, and   *)
(* the handle that stops it.  Notify::notify_waiters stores no permit: it  *)
(* reaches only a Notified future that exists, which is while the task is  *)
(* in its select!.                                                         *)
(***************************************************************************)
EXTENDS Blocklist

VARIABLES
  task,       \* where the loop of the task is
  signalled,  \* its Notified future has been notified
  seen,       \* tick_once: the content version it read
  handle,     \* the SchedulerHandle
  warnings    \* the codes the WarningSink was given

schedulerVars == <<live, task, signalled, seen, handle, warnings>>

\* For Published, in the runs of the refresh: what the versions hold does not matter.
NothingBlocked == [v \in 1..MaxVersion |-> EmptyManifest]

\* blocklist/loader.rs: what a load may end in.  Content is newer than the version that
\* was asked about, or it is no content.
LoaderError ==
  {"ModuleNotReady", "Transport", "Signature", "InvalidManifest", "NoNewContent"}
NewContent(current) == {v \in Version : v > current}

\* The errors that warn, and the code they warn with; the others are benign.
WarningCode ==
  ("Transport" :> "blocklist.transport_failure") @@
  ("Signature" :> "blocklist.signature_failure") @@
  ("InvalidManifest" :> "blocklist.invalid_manifest")

Task == {"starting", "waiting", "loading", "exited"}
Handle == {"held", "stopping", "stopped", "dropped"}

SchedulerInit ==
  /\ BlocklistInit
  /\ task = "starting"
  /\ signalled = FALSE
  /\ seen = 0
  /\ handle = "held"
  /\ warnings = {}

-----------------------------------------------------------------------------
(* The task.                                                               *)

\* The select! is entered: a new Notified future and a new sleep.
Wait ==
  /\ task = "starting"
  /\ task' = "waiting"
  /\ signalled' = FALSE
  /\ UNCHANGED <<live, seen, handle, warnings>>

ObserveStop ==
  /\ task = "waiting"
  /\ signalled
  /\ task' = "exited"
  /\ UNCHANGED <<live, signalled, seen, handle, warnings>>

\* The sleep is over, and select! takes its branch: also when both are ready, and
\* then the signal goes with the dropped future.  tick_once reads the version.
TickFromZero ==
  /\ task = "waiting"
  /\ task' = "loading"
  /\ signalled' = FALSE
  /\ seen' = 0
  /\ UNCHANGED <<live, handle, warnings>>

TimerFires ==
  /\ task = "waiting"
  /\ task' = "loading"
  /\ signalled' = FALSE
  /\ seen' = live
  /\ UNCHANGED <<live, handle, warnings>>

\* loader.load(seen).await answers with a manifest.
LoadSucceeds ==
  /\ task = "loading"
  /\ \E v \in NewContent(seen) : Swap(v)
  /\ task' = "starting"
  /\ UNCHANGED <<signalled, seen, handle, warnings>>

ExitOnError ==
  /\ task = "loading"
  /\ \E e \in LoaderError :
       warnings' = warnings \cup {WarningCode[x] : x \in {e} \cap DOMAIN WarningCode}
  /\ task' = "exited"
  /\ UNCHANGED <<live, signalled, seen, handle>>

\* It answers with an error: nothing is swapped, and the loop goes on.
LoadFails ==
  /\ task = "loading"
  /\ \E e \in LoaderError :
       warnings' = warnings \cup {WarningCode[x] : x \in {e} \cap DOMAIN WarningCode}
  /\ task' = "starting"
  /\ UNCHANGED <<live, signalled, seen, handle>>

-----------------------------------------------------------------------------
(* The handle.                                                             *)

Notify == signalled' = (signalled \/ task = "waiting")

\* stop(): signal, then await the task.
StopCalled ==
  /\ handle = "held"
  /\ handle' = "stopping"
  /\ Notify
  /\ UNCHANGED <<live, task, seen, warnings>>

StopReturns ==
  /\ handle = "stopping"
  /\ task = "exited"
  /\ handle' = "stopped"
  /\ UNCHANGED <<live, task, signalled, seen, warnings>>

DropHandle ==
  /\ handle = "held"
  /\ handle' = "dropped"
  /\ Notify
  /\ UNCHANGED <<live, task, seen, warnings>>

SchedulerNext ==
  \/ Wait \/ ObserveStop \/ TimerFires \/ LoadSucceeds \/ LoadFails
  \/ StopCalled \/ StopReturns \/ DropHandle

\* The runtime polls the task and the stopper, the sleep is finite, and the loader
\* answers; which of its answers is not constrained.
SchedulerSpec ==
  /\ SchedulerInit
  /\ [][SchedulerNext]_schedulerVars
  /\ WF_schedulerVars(Wait)
  /\ WF_schedulerVars(ObserveStop \/ TimerFires)
  /\ WF_schedulerVars(LoadSucceeds \/ LoadFails)
  /\ WF_schedulerVars(StopReturns)

-----------------------------------------------------------------------------
\* The live manifest is never replaced by one that is not newer.  tick_once reads the
\* version, awaits the loader, and swaps whatever it got without looking at what is live
\* by then: it rests on one task doing all the swaps and on a fresh read for every load.
VersionNeverRollsBack == [][live' > live]_live

\* A failed refresh never ends the refreshing: while the handle is held the loader is
\* asked again and again ("The scheduler keeps trying on the next tick").
RefreshGoesOn == (handle = "held") ~> (task = "loading" \/ handle # "held")

\* "stop().await blocks until the task observes the signal and returns."
StopEnds == (handle = "stopping") ~> (handle = "stopped")

=============================================================================
