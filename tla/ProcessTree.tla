----------------------------- MODULE ProcessTree -----------------------------
(***************************************************************************)
(* What the process system calls promise to programs, whatever the kernel  *)
(* does inside: a tree of processes that grows by fork, in which the       *)
(* children of a dying process go to init, and from which a dead process   *)
(* disappears when its parent, and nobody else, reaps it.  One process has *)
(* the CPU; it acts, and a dead process never has the CPU again.           *)
(***************************************************************************)
EXTENDS Integers

CONSTANT MaxPid

Pid  == 0 .. MaxPid
ROOT == 0      \* the process the machine booted
INIT == 1

VARIABLES
    life,    \* is the pid not used yet, alive, dead but not reaped, or gone?
    parent,  \* who may reap it
    actor    \* who has the CPU

vars == <<life, parent, actor>>

Exists(p) == life[p] \in {"alive", "zombie"}

Init ==
    /\ life = [p \in Pid |-> IF p = ROOT THEN "alive" ELSE "unborn"]
    /\ parent = [p \in Pid |-> ROOT]
    /\ actor = ROOT

\* The first process forked is init; the root forks no other.
Fork(c) ==
    /\ life[c] = "unborn"
    /\ actor = ROOT <=> c = INIT
    /\ life' = [life EXCEPT ![c] = "alive"]
    /\ parent' = [parent EXCEPT ![c] = actor]
    /\ UNCHANGED actor

\* A fork that fails may use up a pid.
Waste(c) ==
    /\ life[c] = "unborn"
    /\ life' = [life EXCEPT ![c] = "gone"]
    /\ UNCHANGED <<parent, actor>>

\* Another process that is alive gets the CPU.
Scheduled == actor' \in Pid /\ life'[actor'] = "alive"

\* Init goes last.
Exit ==
    /\ actor # ROOT
    /\ actor = INIT => \A q \in Pid \ {ROOT, INIT} : ~Exists(q)
    /\ life' = [life EXCEPT ![actor] = "zombie"]
    /\ parent' = [q \in Pid |-> IF Exists(q) /\ parent[q] = actor THEN INIT
                                ELSE parent[q]]
    /\ Scheduled

Reap(z) ==
    /\ life[z] = "zombie" /\ parent[z] = actor
    /\ life' = [life EXCEPT ![z] = "gone"]
    /\ parent' = [parent EXCEPT ![z] = ROOT]
    /\ UNCHANGED actor

Switch == Scheduled /\ UNCHANGED <<life, parent>>

Next == (\E p \in Pid : Fork(p) \/ Waste(p) \/ Reap(p)) \/ Exit \/ Switch

Spec == Init /\ [][Next]_vars
=============================================================================
