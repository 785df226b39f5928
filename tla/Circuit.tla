-------------------------------- MODULE Circuit --------------------------------
(***************************************************************************)
(* What the breaker of a route promises the calls of all gateways: an open *)
(* circuit lets no call through and closes by time alone, and only a call  *)
(* that was let through opens it, once, or twice where the report of its   *)
(* failure is repeated.  When failures suffice to open it is left open,    *)
(* and so is all that Redis keeps of them.                                 *)
(***************************************************************************)
EXTENDS Naturals

CONSTANTS Calls, Recovery

VARIABLES
  open,     \* seconds until the circuit closes, 0 when it is closed
  chances   \* how often each call under way may still open it

circuitVars == <<open, chances>>

CircuitInit == open = 0 /\ chances = [c \in Calls |-> 0]

LetThrough(c) ==
  /\ open = 0 /\ chances[c] = 0
  /\ chances' = [chances EXCEPT ![c] = 2]
  /\ UNCHANGED open

\* The circuit opens, or stays open anew, and takes one chance of the call.
Opened(c) ==
  /\ chances[c] > 0 /\ Recovery > 0
  /\ open' = Recovery
  /\ chances' = [chances EXCEPT ![c] = @ - 1]

\* The call has less to report: it went well, came to its end, or lost a report.
GaveUp(c) ==
  /\ \E n \in 0..(chances[c] - 1) : chances' = [chances EXCEPT ![c] = n]
  /\ UNCHANGED open

Elapsed ==
  /\ open > 0
  /\ open' = open - 1
  /\ UNCHANGED chances

CircuitNext == Elapsed \/ \E c \in Calls : LetThrough(c) \/ Opened(c) \/ GaveUp(c)

CircuitSpec == CircuitInit /\ [][CircuitNext]_circuitVars
=============================================================================
