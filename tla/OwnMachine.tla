------------------------------ MODULE OwnMachine ------------------------------
(***************************************************************************)
(* What interrupts, system calls and process switches promise together:    *)
(* every process has a machine of its own.  Its register and its stack     *)
(* change by what its own program does and by the results of its own       *)
(* system calls, and by nothing else; being switched out and in again is   *)
(* not visible to it.  A fork makes a second machine that differs from the *)
(* first in the result of the fork alone.                                  *)
(***************************************************************************)
EXTENDS Integers, Sequences

CONSTANTS Process,   \* the processes there may ever be, by number
          Idle,      \* the process of main()
          Word       \* what a program computes with

VARIABLE machine     \* the machine of each process

Machine(at, a, stack) == [at |-> at, a |-> a, stack |-> stack]
None     == Machine("none", 0, <<>>)
At(code) == Machine(code, 0, <<>>)

Init == machine = [p \in Process |-> IF p = Idle THEN At("boot") ELSE None]

-----------------------------------------------------------------------------
(* What becomes of a machine m.                                             *)

\* The program computes, in its register or in its memory.
Computed(m) == {[m EXCEPT !.a = w] : w \in Word}
                  \cup {[m EXCEPT !.stack[1].val = w] : w \in Word}

\* It calls the system, and its register holds the argument.
Called(m) == Machine("call", 0, Append(m.stack, [ret |-> "user", val |-> m.a]))

Argument(m) == m.stack[Len(m.stack)].val

\* It is back from the call, its stack as it was before, with a result.
Back(m, result) == Machine("user", result, SubSeq(m.stack, 1, Len(m.stack) - 1))

\* It is a program that starts from the argument w.
Started(w) == Machine("user", 0, <<[ret |-> "none", val |-> w]>>)

\* It meets an opcode that is not defined, which ends it.
Faulted(m) == Machine("fault", 0, m.stack)

\* A call returns what its argument was, or starts a program, or ends this one.
Outcomes(m) ==
    CASE m.at = "user"  -> Computed(m) \cup {Called(m), Faulted(m)}
      [] m.at = "call"  -> {Back(m, Argument(m)), Started(Argument(m)), None}
      [] m.at = "init"  -> {Started(w) : w \in Word}
      [] m.at = "fault" -> {None}
      [] OTHER          -> {}

-----------------------------------------------------------------------------
Program(p) ==
    /\ machine'[p] \in Outcomes(machine[p])
    /\ machine' = [machine EXCEPT ![p] = machine'[p]]

\* Two machines where there was one.
Fork(p, child) ==
    /\ machine[p].at = "call" /\ machine[child] = None
    /\ machine' = [machine EXCEPT ![p]     = Back(machine[p], child),
                                  ![child] = Back(machine[p], 0)]

\* The boot code forks init and goes on as the idle loop.
Boot(p, child) ==
    /\ machine[p].at = "boot" /\ machine[child] = None
    /\ machine' = [machine EXCEPT ![p] = At("main"), ![child] = At("init")]

Next == \E p \in Process :
    \/ Program(p)
    \/ \E child \in Process : Fork(p, child) \/ Boot(p, child)

Spec == Init /\ [][Next]_machine
=============================================================================
