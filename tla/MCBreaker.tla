-------------------------------- MODULE MCBreaker --------------------------------
(***************************************************************************)
(* Three calls of one route in flight, a circuit that opens on two         *)
(* failures, lifetimes of two seconds, and counts that can go past the     *)
(* threshold by two, as three calls and one repeated report can make them. *)
(***************************************************************************)
EXTENDS CircuitBreaker, TLC

CONSTANTS c1, c2, c3

Symmetry == Permutations({c1, c2, c3})

\* Every command is executed and answered, and no process dies.
FaultlessNext ==
  \/ \E c \in Calls : Admit(c) \/ Succeeds(c) \/ Command(c)
  \/ \E c \in Calls, mode \in {"response", "exception"} : Fails(c, mode)
  \/ Tick

FaultlessSpec == Init /\ [][FaultlessNext]_vars
=============================================================================
