------------------------- MODULE InstanceManagerFair ------------------------
(***************************************************************************)
(* InstanceManager with clients that make finitely many calls, scheduled   *)
(* fairly.                                                                 *)
(*                                                                         *)
(* A thread that can take a step of its call is eventually scheduled; that *)
(* is weak fairness of Step(t).  std::mutex hands the lock to any waiting  *)
(* thread, so nothing stronger is assumed: a thread may lose every race    *)
(* for a mutex as long as other threads keep making calls, and the bound   *)
(* on the calls is what ends such races.  No client is forced to make a    *)
(* call.  func and the destructors return: Return and KillDone are steps   *)
(* of the call.                                                            *)
(***************************************************************************)
EXTENDS InstanceManager

CONSTANT MaxCalls   \* the number of calls each thread may make

ASSUME MaxCallsAssumption == MaxCalls \in Nat

VARIABLE budget     \* the calls each thread may still make

fairVars == <<vars, budget>>

FairInit == Init /\ budget = [t \in Threads |-> MaxCalls]

StartOne(t) ==
    /\ budget[t] > 0
    /\ budget' = [budget EXCEPT ![t] = @ - 1]
    /\ Start(t)

StepOne(t) == Step(t) /\ UNCHANGED budget

\* Every call has returned and no thread may make another one.
Quiescent ==
    /\ \A t \in Threads : pc[t] = "idle" /\ budget[t] = 0
    /\ UNCHANGED fairVars

FairNext == (\E t \in Threads : StartOne(t) \/ StepOne(t)) \/ Quiescent

FairSpec ==
    /\ FairInit
    /\ [][FairNext]_fairVars
    /\ \A t \in Threads : WF_fairVars(StepOne(t))

\* Every call returns, whatever the other threads call meanwhile: no cycle of
\* waiting threads, no mutex left locked by an early return or an exception.
EveryCallReturns == \A t \in Threads : pc[t] # "idle" ~> pc[t] = "idle"

=============================================================================
