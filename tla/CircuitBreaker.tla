----------------------------- MODULE CircuitBreaker -----------------------------
(***************************************************************************)
(* The circuit breaker of one route                                        *)
(* (apigw/gateway/plugins/circuitbreaker/breaker_plugin.py): two Redis     *)
(* keys with lifetimes, shared by the calls of all gateway processes.      *)
(* Every Redis command is one step; anything may run between two of them.  *)
(***************************************************************************)
EXTENDS Naturals

CONSTANTS
  Calls,      \* calls that can be in flight at once
  Threshold,  \* failure_threshold
  Window,     \* window_seconds
  Recovery,   \* int(recovery_timeout)
  MaxFails    \* bound: failures one count can reach

ASSUME ThresholdAssumption == Threshold \in Nat \ {0}
ASSUME WindowAssumption == Window \in Nat \ {0}
ASSUME RecoveryAssumption == Recovery \in Nat
ASSUME MaxFailsAssumption == MaxFails \in Nat

VARIABLES
  call,    \* the calls: where they are and what they learned
  open,    \* cb:open: seconds to live, 0 when absent
  fails,   \* cb:fails: the count, 0 when absent
  life,    \* cb:fails: seconds to live, 0 when it has no expiry or is absent
  lost,    \* history: a command on the present count was lost
  streak   \* history: calls that failed since one last succeeded, up to Threshold

redis == <<open, fails, life>>
vars == <<call, open, fails, life, lost, streak>>

Commands == {"incr", "expire", "open", "clear"}
Idle == [pc |-> "idle", mode |-> "none", cnt |-> 0]

TypeOK ==
  /\ call \in [Calls -> [pc : {"idle", "calling"} \cup Commands,
                         mode : {"none", "response", "exception"}, cnt : 0..MaxFails]]
  /\ \A c \in Calls : call[c].pc \in Commands => call[c].mode # "none"
  /\ open \in 0..Recovery
  /\ fails \in 0..MaxFails
  /\ life \in 0..Window
  /\ life > 0 => fails > 0
  /\ lost \in BOOLEAN
  /\ streak \in 0..Threshold

----------------------------------------------------------------------------
(* What Redis does on one command. *)
Incr ==
  /\ fails < MaxFails
  /\ fails' = fails + 1
  /\ UNCHANGED <<open, life>>

\* EXPIRE of a key that is absent does nothing.
Expire ==
  /\ life' = IF fails > 0 THEN Window ELSE 0
  /\ UNCHANGED <<open, fails>>

\* SET with EX 0 is refused.
SetOpen ==
  /\ Recovery > 0
  /\ open' = Recovery
  /\ UNCHANGED <<fails, life>>

\* Mutant: the count is set to zero and the key is kept.
ZeroFails ==
  /\ fails' = 0
  /\ UNCHANGED <<open, life>>

DelFails ==
  /\ fails' = 0
  /\ life' = 0
  /\ UNCHANGED open

Effect(pc) ==
  CASE pc = "incr" -> Incr
    [] pc = "expire" -> Expire
    [] pc = "open" -> SetOpen
    [] pc = "clear" -> DelFails

----------------------------------------------------------------------------
(* What the call does with the answer. *)

\* Mutant: the circuit opens on more than the threshold.
TripsAbove(n) == n > Threshold

Trips(n) == n >= Threshold

\* Mutant: the expiry is set when the threshold is met, not at the first failure.
LateExpiry(n) == n = Threshold

FirstFailure(n) == n = 1

AfterCount(n) == IF Trips(n) THEN "open" ELSE "idle"

Answer(cl) ==
  CASE cl.pc = "incr" -> [cl EXCEPT !.pc = IF FirstFailure(fails + 1) THEN "expire"
                                           ELSE AfterCount(fails + 1),
                                    !.cnt = fails + 1]
    [] cl.pc = "expire" -> [cl EXCEPT !.pc = AfterCount(cl.cnt)]
    [] cl.pc = "open" -> [cl EXCEPT !.pc = "clear"]
    [] cl.pc = "clear" -> Idle

\* Mutant: an error while recording always begins the report again.
ErrorAgain(cl) == [cl EXCEPT !.pc = "incr", !.cnt = 0]

\* An error while a 5xx response is recorded falls into the same try: the failure
\* is recorded once more.  Everywhere else it goes to the caller.
Error(cl) ==
  IF cl.mode = "response"
  THEN [pc |-> "incr", mode |-> "exception", cnt |-> 0]
  ELSE Idle

Settle(cl) == IF cl.pc = "idle" THEN Idle ELSE cl

----------------------------------------------------------------------------
Init ==
  /\ call = [c \in Calls |-> Idle]
  /\ open = 0
  /\ fails = 0
  /\ life = 0
  /\ lost = FALSE
  /\ streak = 0

\* Mutant: the call goes through whatever the open key says.
AdmitAlways(c) ==
  /\ call[c].pc = "idle"
  /\ call' = [call EXCEPT ![c] = [Idle EXCEPT !.pc = "calling"]]
  /\ UNCHANGED <<redis, lost, streak>>

\* EXISTS cb:open.  While the key is there the answer is 503 and nothing changes.
Admit(c) ==
  /\ call[c].pc = "idle"
  /\ open = 0
  /\ call' = [call EXCEPT ![c] = [Idle EXCEPT !.pc = "calling"]]
  /\ UNCHANGED <<redis, lost, streak>>

\* The rest of the pipeline answers below 500: nothing is recorded or reset.
Succeeds(c) ==
  /\ call[c].pc = "calling"
  /\ call' = [call EXCEPT ![c] = Idle]
  /\ streak' = 0
  /\ UNCHANGED <<redis, lost>>

\* It answers 500 or above, or raises.
Fails(c, mode) ==
  /\ call[c].pc = "calling"
  /\ call' = [call EXCEPT ![c] = [pc |-> "incr", mode |-> mode, cnt |-> 0]]
  /\ streak' = IF streak < Threshold THEN streak + 1 ELSE streak
  /\ UNCHANGED <<redis, lost>>

\* A command of _record_failure is executed and answered.
Command(c) ==
  /\ call[c].pc \in Commands
  /\ Effect(call[c].pc)
  /\ call' = [call EXCEPT ![c] = Settle(Answer(@))]
  /\ lost' = (lost /\ fails' > 0)
  /\ UNCHANGED streak

\* It is not executed: the connection fails, or the server refuses it.
CommandFails(c) ==
  /\ call[c].pc \in Commands
  /\ call' = [call EXCEPT ![c] = Error(@)]
  /\ lost' = (fails > 0 /\ (lost \/ call[c].pc # "incr"))
  /\ UNCHANGED <<redis, streak>>

\* It is executed and the answer does not arrive in socket_timeout.
AnswerLost(c) ==
  /\ call[c].pc \in Commands
  /\ Effect(call[c].pc)
  /\ call' = [call EXCEPT ![c] = Error(@)]
  /\ lost' = (fails' > 0)
  /\ UNCHANGED streak

\* The process dies, or the task is cancelled (CancelledError is no Exception).
Die(c) ==
  /\ call[c].pc # "idle"
  /\ call' = [call EXCEPT ![c] = Idle]
  /\ lost' = (fails > 0 /\ (lost \/ call[c].pc \in Commands \ {"incr"}))
  /\ UNCHANGED <<redis, streak>>

\* One second passes: Redis counts both lifetimes down and drops what has ended.
Tick ==
  /\ open > 0 \/ life > 0
  /\ open' = IF open > 0 THEN open - 1 ELSE 0
  /\ life' = IF life > 0 THEN life - 1 ELSE 0
  /\ fails' = IF life = 1 THEN 0 ELSE fails
  /\ lost' = (lost /\ fails' > 0)
  /\ UNCHANGED <<call, streak>>

Next ==
  \/ \E c \in Calls : Admit(c)
  \/ \E c \in Calls : Succeeds(c)
  \/ \E c \in Calls, mode \in {"response", "exception"} : Fails(c, mode)
  \/ \E c \in Calls : Command(c)
  \/ \E c \in Calls : CommandFails(c)
  \/ \E c \in Calls : AnswerLost(c)
  \/ \E c \in Calls : Die(c)
  \/ Tick

Spec == Init /\ [][Next]_vars

\* Time passes, and a command that was sent is answered, refused or given up.
Fairness ==
  /\ WF_vars(Tick)
  /\ \A c \in Calls : WF_vars(Command(c) \/ CommandFails(c) \/ AnswerLost(c) \/ Die(c))

FairSpec == Spec /\ Fairness

----------------------------------------------------------------------------
(* Between the commands of _record_failure the count is never abandoned: unless one
   of them was lost, a count without an expiry has a call about to set it, and a
   count at the threshold has a call about to open the circuit and clear it,
   whatever calls interleave, trip and clear between them (breaker_plugin.py:92
   to 102, five commands of several processes and no transaction). *)
CountIsTended ==
  fails > 0 /\ ~lost =>
    /\ life = 0 => \E c \in Calls : call[c].pc = "expire"
    /\ fails >= Threshold =>
         \E c \in Calls : \/ call[c].pc \in {"open", "clear"}
                          \/ call[c].pc = "expire" /\ call[c].cnt >= Threshold

(* An open circuit closes: late failures of calls admitted earlier may set the key
   again (breaker_plugin.py:100), and only finitely many such calls are left while
   nothing is admitted. *)
Recovers == open > 0 ~> open = 0

(* No count is for ever: unless a command on it was lost, it ends by expiry or
   because the circuit opened (breaker_plugin.py:94), so failures of different
   windows do not add up. *)
FailuresExpire == fails > 0 ~> fails = 0 \/ lost

\* How often a call may still execute the SET of the open key: a 5xx response once in the
\* report and once in the report of the report's error, an exception once.
Chances(cl) ==
  CASE cl.pc = "idle"    -> 0
    [] cl.pc = "calling" -> 2
    [] cl.pc = "clear"   -> IF cl.mode = "response" THEN 1 ELSE 0
    [] OTHER             -> IF cl.mode = "response" THEN 2 ELSE 1

Promised == INSTANCE Circuit WITH chances <- [c \in Calls |-> Chances(call[c])]

(* The commands of all calls, executed, refused, unanswered or cut short in any order, are a
   circuit as its callers know it: late and repeated reports (breaker_plugin.py:79-105) open
   it again, and as the calls that were let through use up their chances while it lets
   none through, they end. *)
BreakerRefines == Promised!CircuitSpec

(* What docs/api_spec.md says: the circuit opens when failure_threshold calls
   in a row have failed.  The code leaves the count alone on success
   (breaker_plugin.py:74). *)
OpensOnConsecutiveFailures ==
  [][open = 0 /\ open' > 0 => streak >= Threshold]_vars
=============================================================================
