---------------------------- MODULE LeaseWatcher ----------------------------
(***************************************************************************)
(* The DHCPv6 lease watcher of internal/services/ipv6.go: the goroutine     *)
(* that turns file events into debounced dispatches, the dispatches that    *)
(* re-render the router-advertisement drop-in and call the firewall hook,   *)
(* and the start and stop of the watcher.                                   *)
(*                                                                          *)
(* A dispatch is run by the watcher goroutine itself (the initial one) or   *)
(* by a debounce timer, so several can be under way at once.                *)
(***************************************************************************)
EXTENDS Integers

CONSTANTS
  Leases,     \* the leases the dhcp6c hook may write, up to leaseHash: positive numbers
  MaxWrites,  \* bound: lease files written
  MaxFaults,  \* bound: operations that fail
  MaxStops,   \* bound: calls of StopLeaseWatcher
  Envs        \* the surroundings a behaviour may have: orderly, returning, busy

Contents == Leases \cup {0}                 \* 0: no state file, or an empty one
Nothing == -1                               \* not yet read, dispatched or rendered
Seen == Contents \cup {Nothing}
Dispatches == 1 .. MaxWrites + 1            \* 1 is the initial one

VARIABLES
  env,       \* what this behaviour is exposed to, see below
  lease,     \* the state file
  event,     \* is there an event for it that the loop has not taken yet?
  writes, faults, stops,
  marked,    \* s.watcherStop # nil
  chan,      \* the channel of the current start: "none", "open" or "closed"
  starter,   \* StartLeaseWatcher: "idle" or "add"
  loop,      \* the goroutine: "none", "initial", "select" or "exited"
  stopper,   \* StopLeaseWatcher: "idle", "cancel", "wait" or "returned"
  taken,     \* the timer StopLeaseWatcher took from the service, or 0
  debounce,  \* s.watcherDebounce, or 0
  pc,        \* the next step of each dispatch
  got,       \* the state a dispatch has read, and later the RDNSS it rendered
  last,      \* s.lastLeaseHash
  ra         \* the lease the drop-in on disk was rendered from

vars == <<env, lease, event, writes, faults, stops, marked, chan, starter, loop, stopper,
          taken, debounce, pc, got, last, ra>>
dispatch == <<debounce, pc, got, last, ra>>
lifecycle == <<stops, marked, chan, starter, loop, stopper, taken>>
input == <<env, lease, event, writes>>

Running == {"read", "compare", "render", "write", "callback"}
DispatchSteps == {"none", "armed", "stopped", "done"} \cup Running

\* orderly: dispatches are faster than the 150 ms debounce and leases do not come
\* back.  returning: an earlier lease may come back.  busy: dispatches overlap,
\* operations fail, and the watcher may be stopped.
Overlap == env = "busy"
Revisit == env # "orderly"

TypeOK ==
  /\ env \in Envs
  /\ lease \in Contents
  /\ event \in BOOLEAN
  /\ writes \in 0 .. MaxWrites
  /\ faults \in 0 .. MaxFaults
  /\ stops \in 0 .. MaxStops
  /\ marked \in BOOLEAN
  /\ chan \in {"none", "open", "closed"}
  /\ starter \in {"idle", "add"}
  /\ loop \in {"none", "initial", "select", "exited"}
  /\ stopper \in {"idle", "cancel", "wait", "returned"}
  /\ {taken, debounce} \subseteq Dispatches \cup {0}
  /\ pc \in [Dispatches -> DispatchSteps]
  /\ got \in [Dispatches -> Seen]
  /\ {last, ra} \subseteq Seen

Init ==
  /\ env \in Envs
  /\ lease \in Contents
  /\ event = FALSE
  /\ writes = 0 /\ faults = 0 /\ stops = 0
  /\ marked = FALSE
  /\ chan = "none"
  /\ starter = "idle"
  /\ loop = "none"
  /\ stopper = "idle"
  /\ taken = 0
  /\ debounce = 0
  /\ pc = [d \in Dispatches |-> "none"]
  /\ got = [d \in Dispatches |-> Nothing]
  /\ last = Nothing
  /\ ra = Nothing

Ok == UNCHANGED faults
Fault == env = "busy" /\ faults < MaxFaults /\ faults' = faults + 1

-----------------------------------------------------------------------------
(* dhcp6c's hook script moves a new state file in; several events of one     *)
(* file coalesce, as the debounce makes them.                                *)
LeaseWritten ==
  /\ writes < MaxWrites
  /\ writes' = writes + 1
  /\ lease' \in Contents
  /\ Revisit \/ lease' >= lease
  /\ event' = (loop \in {"initial", "select"})
  /\ UNCHANGED <<env, faults, lifecycle, dispatch>>

-----------------------------------------------------------------------------
(* StartLeaseWatcher.                                                        *)

StartMarks ==
  /\ ~marked /\ starter = "idle" /\ loop = "none"
  /\ stopper \in {"idle", "returned"}
  /\ marked' = TRUE
  /\ chan' = "open"
  /\ starter' = "add"
  /\ UNCHANGED <<input, faults, stops, loop, stopper, taken, dispatch>>

\* MkdirAll, NewWatcher, Add; then the goroutine begins with its own dispatch.
StartAdds ==
  /\ starter = "add"
  /\ starter' = "idle"
  /\ \/ loop' = "initial" /\ pc' = [pc EXCEPT ![1] = "read"] /\ Ok
     \/ UNCHANGED <<loop, pc>> /\ Fault
  /\ UNCHANGED <<input, stops, marked, chan, stopper, taken, debounce, got, last, ra>>

-----------------------------------------------------------------------------
(* runLeaseWatcher.                                                          *)

\* Mutant: events that arrived during the initial dispatch are discarded.
InitialDispatchedDrops ==
  /\ loop = "initial" /\ pc[1] = "done"
  /\ loop' = "select"
  /\ event' = FALSE
  /\ UNCHANGED <<env, lease, writes, faults, stops, marked, chan, starter, stopper, taken, dispatch>>

InitialDispatched ==
  /\ loop = "initial" /\ pc[1] = "done"
  /\ loop' = "select"
  /\ UNCHANGED <<input, faults, stops, marked, chan, starter, stopper, taken, dispatch>>

Cancelled(t) == IF t # 0 /\ pc[t] = "armed" THEN [pc EXCEPT ![t] = "stopped"] ELSE pc

Fresh == CHOOSE d \in Dispatches \ {1} :
           pc[d] = "none" /\ \A e \in 2 .. d - 1 : pc[e] # "none"

TakeEvent ==
  /\ loop = "select" /\ event
  /\ event' = FALSE
  /\ debounce' = Fresh
  /\ pc' = [Cancelled(debounce) EXCEPT ![Fresh] = "armed"]
  /\ UNCHANGED <<env, lease, writes, faults, lifecycle, got, last, ra>>

LoopExits ==
  /\ loop = "select" /\ chan = "closed"
  /\ loop' = "exited"
  /\ UNCHANGED <<input, faults, stops, marked, chan, starter, stopper, taken, dispatch>>

-----------------------------------------------------------------------------
(* dispatchLeaseLocked and refreshRADropIn.                                  *)

Goto(d, step) == pc' = [pc EXCEPT ![d] = step]

TimerFires(d) ==
  /\ pc[d] = "armed"
  /\ Overlap \/ \A e \in Dispatches : pc[e] \notin Running
  /\ Goto(d, "read")
  /\ UNCHANGED <<input, faults, lifecycle, debounce, got, last, ra>>

\* Status, without the lock; an unreadable file ends the dispatch.
ReadStatus(d) ==
  /\ pc[d] = "read"
  /\ \/ Goto(d, "compare") /\ got' = [got EXCEPT ![d] = lease] /\ Ok
     \/ Goto(d, "done") /\ UNCHANGED got /\ Fault
  /\ UNCHANGED <<input, lifecycle, debounce, last, ra>>

\* Mutant: the hash is remembered the first time only.
CompareHashOnce(d) ==
  /\ pc[d] = "compare"
  /\ last' = IF last = Nothing THEN got[d] ELSE last
  /\ Goto(d, IF got[d] = last THEN "done" ELSE "render")
  /\ UNCHANGED <<input, faults, lifecycle, debounce, got, ra>>

\* Under s.mu: drop a lease that was the last one dispatched.
CompareHash(d) ==
  /\ pc[d] = "compare"
  /\ last' = got[d]
  /\ Goto(d, IF got[d] = last THEN "done" ELSE "render")
  /\ UNCHANGED <<input, faults, lifecycle, debounce, got, ra>>

\* RenderRAConfig reads the state file again, for the RDNSS list.
RenderRA(d) ==
  /\ pc[d] = "render"
  /\ got' = [got EXCEPT ![d] = lease]
  /\ Goto(d, "write")
  /\ UNCHANGED <<input, faults, lifecycle, debounce, last, ra>>

\* The file is written through the agent; an error is logged and the callback
\* runs all the same.
WriteRA(d) ==
  /\ pc[d] = "write"
  /\ (ra' = got[d] /\ Ok) \/ (UNCHANGED ra /\ Fault)
  /\ Goto(d, "callback")
  /\ UNCHANGED <<input, lifecycle, debounce, got, last>>

Callback(d) ==
  /\ pc[d] = "callback"
  /\ Goto(d, "done")
  /\ UNCHANGED <<input, faults, lifecycle, debounce, got, last, ra>>

DispatchStep(d) ==
  \/ TimerFires(d)
  \/ ReadStatus(d)
  \/ CompareHash(d)
  \/ RenderRA(d)
  \/ WriteRA(d)
  \/ Callback(d)

-----------------------------------------------------------------------------
(* StopLeaseWatcher.                                                         *)

StopTakes ==
  /\ stopper \in {"idle", "returned"} /\ env = "busy" /\ stops < MaxStops
  /\ stops' = stops + 1
  /\ marked' = FALSE
  /\ taken' = debounce
  /\ debounce' = 0
  /\ stopper' = "cancel"
  /\ UNCHANGED <<input, faults, chan, starter, loop, pc, got, last, ra>>

\* Mutant: the channel is not closed.
StopCancelsNoClose ==
  /\ stopper = "cancel"
  /\ pc' = Cancelled(taken)
  /\ stopper' = IF chan = "open" THEN "wait" ELSE "returned"
  /\ UNCHANGED <<input, faults, stops, marked, chan, starter, loop, taken, debounce, got, last, ra>>

\* debounce.Stop(), then close(stopCh) when the watcher had been started.
StopCancels ==
  /\ stopper = "cancel"
  /\ pc' = Cancelled(taken)
  /\ chan' = IF chan = "open" THEN "closed" ELSE chan
  /\ stopper' = IF chan = "open" THEN "wait" ELSE "returned"
  /\ UNCHANGED <<input, faults, stops, marked, starter, loop, taken, debounce, got, last, ra>>

\* watcherWG.Wait()
StopReturns ==
  /\ stopper = "wait" /\ loop \in {"none", "exited"}
  /\ stopper' = "returned"
  /\ UNCHANGED <<input, faults, stops, marked, chan, starter, loop, taken, dispatch>>

-----------------------------------------------------------------------------
Loop == StartAdds \/ InitialDispatched \/ TakeEvent
Stopping == LoopExits \/ StopCancels \/ StopReturns

Next ==
  \/ LeaseWritten
  \/ StartMarks
  \/ Loop
  \/ \E d \in Dispatches : DispatchStep(d)
  \/ StopTakes
  \/ Stopping

Spec == Init /\ [][Next]_vars

\* Goroutines run and timers fire; the server starts the watcher once at boot.
Fairness ==
  /\ WF_vars(StartMarks)
  /\ WF_vars(Loop)
  /\ WF_vars(Stopping)
  /\ \A d \in Dispatches : WF_vars(DispatchStep(d))

FairSpec == Spec /\ Fairness

-----------------------------------------------------------------------------
(* Properties.                                                               *)

\* "RDNSS / DNSSL track the upstream lease" (dispatchLeaseLocked): once the hook
\* stops writing, the drop-in ends up rendered from the lease that is on disk.
RATracksLease == <>[](ra = lease)

\* So it does when dispatches do not overlap and leases do not come back.
RATracksOrderlyLease == env = "orderly" => <>[](ra = lease)

\* The hash that suppresses duplicates never hides a change: when nothing is
\* left to handle, the lease dispatched last is the lease on disk.
NoChangeSwallowed ==
  /\ ~Overlap
  /\ loop = "select" /\ ~event
  /\ \A d \in Dispatches : pc[d] \notin Running \cup {"armed"}
  => last = lease

\* StopLeaseWatcher returns, and the goroutine and its dispatches then end, also
\* when it was called while StartLeaseWatcher was still adding the watch.
StopDrains ==
  stopper = "cancel" ~>
    /\ stopper = "returned"
    /\ marked \/ (loop \in {"none", "exited"}
                   /\ \A d \in Dispatches : pc[d] \notin Running \cup {"armed"})
=============================================================================
