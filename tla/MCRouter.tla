------------------------------ MODULE MCRouter ------------------------------
(***************************************************************************)
(* Update and LeaseWatcher for TLC, in one run.  They share no state, so a  *)
(* behaviour is one of one of them: `which` is awake, and the other stays   *)
(* in an initial state.                                                     *)
(***************************************************************************)
EXTENDS Update

VARIABLES
  which,
  around, lease, event, writes, lost, stops, marked, chan, starter, loop, stopper,
  taken, debounce, pc, got, last, ra

\* v1.9.0, v1.10-rc1 and v1.10.1
MCTag == <<<<1, 9, 0>>, <<1, 10>>, <<1, 10, 1>>>>

L == INSTANCE LeaseWatcher WITH
  Leases <- {1, 2}, MaxWrites <- 2, MaxFaults <- 1, MaxStops <- 1,
  Envs <- {"orderly", "returning", "busy"}, env <- around, faults <- lost

leaseVars == <<around, lease, event, writes, lost, stops, marked, chan, starter, loop, stopper,
               taken, debounce, pc, got, last, ra>>
all == <<which, vars, leaseVars>>

MCInit ==
  /\ which \in {"update", "lease"}
  /\ Init /\ L!Init
  /\ which # "update" => env = "calm"
  /\ which # "lease" => around = "busy" /\ lease = 0

Updating(A) == which = "update" /\ A /\ UNCHANGED <<which, leaseVars>>
Leasing(A) == which = "lease" /\ A /\ UNCHANGED <<which, vars>>

MCNext == Updating(Next) \/ Leasing(L!Next)

\* The fairness of both, as in Update and LeaseWatcher.
MCFairness ==
  /\ WF_all(Updating(Progress)) /\ WF_all(Updating(Boot))
  /\ \A w \in Watchdogs : SF_all(Updating(Watchdog(w)))
  /\ WF_all(Leasing(L!StartMarks)) /\ WF_all(Leasing(L!Loop)) /\ WF_all(Leasing(L!Stopping))
  /\ \A d \in L!Dispatches : WF_all(Leasing(L!DispatchStep(d)))

MCSpec == MCInit /\ [][MCNext]_all /\ MCFairness

-----------------------------------------------------------------------------
\* The hash that suppresses duplicates never hides a change of the lease.
NoChangeSwallowed == L!NoChangeSwallowed

\* The router advertisements follow a lease that does not come back.
RATracksOrderlyLease == L!RATracksOrderlyLease

\* StopLeaseWatcher returns, and the goroutine and its dispatches end.
StopDrains == L!StopDrains
=============================================================================
