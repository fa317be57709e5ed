--------------------------- MODULE NativeLifetimes --------------------------
(***************************************************************************)
(* The order of the native calls ToxCoreImpl and ToxAvImpl promise, with   *)
(* no callbacks, references or finalizers: a ToxAV is made on a living Tox *)
(* and killed before it, every instance is killed before its number is     *)
(* freed, and no step goes back.  ToxLifecycle is shown to implement it.   *)
(***************************************************************************)
CONSTANT Avs   \* the ToxAV objects of one Tox

VARIABLES core, \* the native instance of the Tox
          av    \* the native instance of each av

lifetimes == <<core, av>>

Init ==
    /\ core = "none"
    /\ av = [a \in Avs |-> "none"]

\* An instance is made, or its constructor fails and it never exists.
MakeCore ==
    /\ core = "none"
    /\ core' \in {"live", "null"}
    /\ UNCHANGED av

MakeAv(a) ==
    /\ av[a] = "none"
    /\ \/ core = "live" /\ av' = [av EXCEPT ![a] = "live"]
       \/ av' = [av EXCEPT ![a] = "null"]
    /\ UNCHANGED core

KillAv(a) ==
    /\ av[a] = "live" /\ core = "live"
    /\ av' = [av EXCEPT ![a] = "killed"]
    /\ UNCHANGED core

\* The Tox goes away once no av works on it.
KillCore ==
    /\ core = "live"
    /\ \A a \in Avs : av[a] # "live"
    /\ core' = "killed"
    /\ UNCHANGED av

\* The number of a killed instance may be given to somebody else.
FreeAv(a) ==
    /\ av[a] = "killed"
    /\ av' = [av EXCEPT ![a] = "freed"]
    /\ UNCHANGED core

FreeCore ==
    /\ core = "killed"
    /\ core' = "freed"
    /\ UNCHANGED av

Next ==
    \/ MakeCore \/ KillCore \/ FreeCore
    \/ \E a \in Avs : MakeAv(a) \/ KillAv(a) \/ FreeAv(a)

Spec == Init /\ [][Next]_lifetimes

=============================================================================
