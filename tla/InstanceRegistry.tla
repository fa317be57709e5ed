-------------------------- MODULE InstanceRegistry --------------------------
(***************************************************************************)
(* What instance_manager promises to the JNI functions, with no locks, no  *)
(* freelist order and no intermediate steps (the class comment,            *)
(* src/main/cpp/util/instance_manager.h:14-29, and the comments of its     *)
(* four operations).                                                       *)
(*                                                                         *)
(* An instance number names at most one native object.  Once its object    *)
(* has been killed the number stays unusable until it is finalised, and    *)
(* only a finalised number may name another object.  An object is used by  *)
(* at most one thread at a time and is never destroyed under a user.       *)
(* InstanceManager is shown to implement this specification.               *)
(***************************************************************************)
EXTENDS Naturals, Sequences

CONSTANTS Threads,   \* the JVM threads that make native calls
          Objects,   \* the identities of the native objects (Tox or ToxAV)
          NoObject   \* the null pointer

VARIABLES bound,     \* bound[n] is the object number n names, or NoObject
          retired,   \* the finalised numbers, free to be given out again
          gone,      \* the objects that were killed
          using      \* using[t] is the object thread t works on, or NoObject

vars == <<bound, retired, gone, using>>

Init ==
    /\ bound = <<>>
    /\ retired = {}
    /\ gone = {}
    /\ using = [t \in Threads |-> NoObject]

(***************************************************************************)
(* A new object, never seen before, gets a number: any retired one, or the *)
(* next fresh one when there is none.                                      *)
(***************************************************************************)
Register(o) ==
    /\ o \notin gone
    /\ \A n \in DOMAIN bound : bound[n] # o
    /\ \/ \E n \in retired :
              /\ bound' = [bound EXCEPT ![n] = o]
              /\ retired' = retired \ {n}
       \/ /\ retired = {}
          /\ bound' = Append(bound, o)
          /\ retired' = retired
    /\ UNCHANGED <<gone, using>>

(***************************************************************************)
(* The object of number n is destroyed.  Nobody is using it, and the       *)
(* number names nothing from now on.                                       *)
(***************************************************************************)
Kill(n) ==
    /\ bound[n] # NoObject
    /\ \A t \in Threads : using[t] # bound[n]
    /\ gone' = gone \cup {bound[n]}
    /\ bound' = [bound EXCEPT ![n] = NoObject]
    /\ UNCHANGED <<retired, using>>

(***************************************************************************)
(* A killed number is handed back.                                         *)
(***************************************************************************)
Retire(n) ==
    /\ n \notin retired
    /\ bound[n] = NoObject
    /\ retired' = retired \cup {n}
    /\ UNCHANGED <<bound, gone, using>>

(***************************************************************************)
(* A thread starts and stops working on the object of number n.            *)
(***************************************************************************)
Begin(t, n) ==
    /\ using[t] = NoObject
    /\ bound[n] # NoObject
    /\ \A u \in Threads : using[u] # bound[n]
    /\ using' = [using EXCEPT ![t] = bound[n]]
    /\ UNCHANGED <<bound, retired, gone>>

End(t) ==
    /\ using[t] # NoObject
    /\ using' = [using EXCEPT ![t] = NoObject]
    /\ UNCHANGED <<bound, retired, gone>>

Next ==
    \/ \E o \in Objects : Register(o)
    \/ \E n \in DOMAIN bound : Kill(n) \/ Retire(n)
    \/ \E t \in Threads : \E n \in DOMAIN bound : Begin(t, n)
    \/ \E t \in Threads : End(t)

Spec == Init /\ [][Next]_vars

=============================================================================
