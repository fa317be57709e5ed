---------------------------- MODULE MCNativeCalls ---------------------------
(***************************************************************************)
(* NativeCalls for TLC.                                                    *)
(***************************************************************************)
EXTENDS NativeCalls, TLC

\* The kinds of logged functions; no filter.
MCNames == {"tox_new", "toxav_new", "tox_call", "tox_crypto"}
MCFilterSets == {{}}

\* The number the objects can get; the other ones are MCInstanceManager's.
MCNumbers == {1}

\* The client turns the log on and off.
OnAndOff == {0, 2}

\* What a step or an invariant reads: without the operation and the exception of a
\* call that is over, and without the log's histories.
Current(ops, pcs) == [t \in Threads |-> IF pcs[t] = "idle" THEN "none" ELSE ops[t]]
View == <<instances, locks, freelist, mutex, alive, created, pc, Current(op, pc), num, obj,
          avInstances, avLocks, avFreelist, avMutex, avAlive, avCreated,
          avPc, Current(avOp, avPc), avNum, avObj,
          max_size, owner, count, entries, Len(name), lpc, stack, job>>

Symmetry == Permutations(Threads)

=============================================================================
