-------------------------------- MODULE Sessions --------------------------------
(***************************************************************************)
(* The sessions and the second factor of one user of the backend           *)
(* (api/v1/auth.py, core/security.py, dependencies.py).                    *)
(*                                                                         *)
(* A token is good through the second its exp names, and a logout puts it  *)
(* on a blacklist in Redis for a whole number of seconds.  Each handler    *)
(* has a database session of its own: it reads the user's row, awaits, and *)
(* writes the columns whose value it has changed.                          *)
(***************************************************************************)
EXTENDS Integers

CONSTANTS
  Tokens,
  Handlers,   \* requests on the second factor that may be under way at once
  Secrets,    \* 1..n: TOTP secrets, drawn in this order
  Sec,        \* units of time in a second
  Life,       \* ACCESS_TOKEN_EXPIRE_MINUTES, in seconds
  MaxClock    \* bound: units of time

ASSUME SecAssumption == Sec \in Nat \ {0} /\ Life \in Nat
ASSUME ClockAssumption == MaxClock \in Nat

VARIABLES
  time,       \* now
  expiry,     \* of each token, in seconds; Unissued if it was not issued
  blacklist,  \* when Redis forgets each token, 0 if it does not know it
  rows,       \* tokens in the table jwt_blacklist, which nobody reads
  leaving,    \* where a logout of each token is: "no", "admitted", "listed"
  user,       \* the row: the TOTP secret, 0 for none, and totp_enabled
  handler,    \* each handler: its operation, and the row as it read it
  drawn,      \* secrets drawn so far
  loggedOut,  \* history: tokens on the blacklist at any time
  wiped,      \* history: Redis lost the blacklist
  shown,      \* history: secrets for which a right code was shown
  crossed     \* history: a setup and another handler were under way together

sessionVars == <<time, expiry, blacklist, rows, leaving, loggedOut, wiped>>
factorVars == <<user, handler, drawn, shown, crossed>>

Unissued == -1
Free == [op |-> "none", secret |-> 0, enabled |-> FALSE]

SessionsTypeOK ==
  /\ time \in 0..MaxClock
  /\ expiry \in [Tokens -> {Unissued} \cup Nat]
  /\ blacklist \in [Tokens -> Nat]
  /\ rows \cup loggedOut \subseteq Tokens
  /\ leaving \in [Tokens -> {"no", "admitted", "listed"}]
  /\ user \in [secret : {0} \cup Secrets, enabled : BOOLEAN]
  /\ handler \in [Handlers -> [op : {"none", "setup", "verify", "disable"},
                               secret : {0} \cup Secrets, enabled : BOOLEAN]]
  /\ drawn \in {0} \cup Secrets /\ shown \subseteq Secrets
  /\ wiped \in BOOLEAN /\ crossed \in BOOLEAN

SessionsInit ==
  /\ time = 0
  /\ expiry = [t \in Tokens |-> Unissued] /\ blacklist = [t \in Tokens |-> 0]
  /\ rows = {} /\ leaving = [t \in Tokens |-> "no"]
  /\ user = [secret |-> 0, enabled |-> FALSE]
  /\ handler = [h \in Handlers |-> Free] /\ drawn = 0
  /\ loggedOut = {} /\ wiped = FALSE /\ shown = {} /\ crossed = FALSE

----------------------------------------------------------------------------
(* Tokens. *)

\* decode_token: the second named by exp has not passed.
Decodes(t) == expiry[t] # Unissued /\ expiry[t] >= time \div Sec

\* get_current_user; without Redis it raises, and the request fails.
Admitted(t) == Decodes(t) /\ blacklist[t] <= time

\* login: exp is cut to a whole second.
Login(t) ==
  /\ expiry[t] = Unissued
  /\ expiry' = [expiry EXCEPT ![t] = (time + Life * Sec) \div Sec]
  /\ UNCHANGED <<time, blacklist, rows, leaving, loggedOut, wiped>>

\* logout, up to its first await after the token was checked.
BeginLogout(t) ==
  /\ leaving[t] = "no" /\ Admitted(t)
  /\ leaving' = [leaving EXCEPT ![t] = "admitted"]
  /\ UNCHANGED <<time, expiry, blacklist, rows, loggedOut, wiped>>

\* Mutant: the time that is left is rounded to the minute below, of two seconds here.
WholeMinutes(t) ==
  LET left == (expiry[t] * Sec - time) \div (2 * Sec) IN IF left > 0 THEN left * 2 * Sec ELSE Sec

\* max(int(expires_at - now), 1), in units
BlacklistTtl(t) ==
  LET left == (expiry[t] * Sec - time) \div Sec IN IF left > 1 THEN left * Sec ELSE Sec

\* decode_token again, then SETEX.
ListToken(t) ==
  /\ leaving[t] = "admitted" /\ Decodes(t)
  /\ blacklist' = [blacklist EXCEPT ![t] = time + BlacklistTtl(t)]
  /\ loggedOut' = loggedOut \cup {t}
  /\ leaving' = [leaving EXCEPT ![t] = "listed"]
  /\ UNCHANGED <<time, expiry, rows, wiped>>

\* The token has expired meanwhile, or Redis cannot be reached: the logout is an error.
FailLogout(t) ==
  /\ leaving[t] = "admitted"
  /\ leaving' = [leaving EXCEPT ![t] = "no"]
  /\ UNCHANGED <<time, expiry, blacklist, rows, loggedOut, wiped>>

\* The row is committed, or the database refuses it; Redis knows the token in any case.
EndLogout(t) ==
  /\ leaving[t] = "listed"
  /\ leaving' = [leaving EXCEPT ![t] = "no"]
  /\ rows' \in {rows, rows \cup {t}}
  /\ UNCHANGED <<time, expiry, blacklist, loggedOut, wiped>>

\* cleanup_expired_tokens
CleanUp ==
  /\ rows # {}
  /\ rows' = {t \in rows : expiry[t] * Sec >= time}
  /\ UNCHANGED <<time, expiry, blacklist, leaving, loggedOut, wiped>>

LoseBlacklist ==
  /\ ~wiped /\ loggedOut # {}
  /\ wiped' = TRUE
  /\ blacklist' = [t \in Tokens |-> 0]
  /\ UNCHANGED <<time, expiry, rows, leaving, loggedOut>>

Clock ==
  /\ time < MaxClock
  /\ time' = time + 1
  /\ UNCHANGED <<expiry, blacklist, rows, leaving, loggedOut, wiped>>

TokenStep ==
  \/ \E t \in Tokens : Login(t) \/ BeginLogout(t) \/ ListToken(t) \/ FailLogout(t) \/ EndLogout(t)
  \/ CleanUp \/ LoseBlacklist \/ Clock

----------------------------------------------------------------------------
(* The second factor. *)

Others(h) == {g \in Handlers \ {h} : handler[g].op # "none"}

\* get_current_user reads the row, and the code that came with the request is compared
\* with the secret read.  To set up, no code is asked for and a secret is drawn.
BeginFactor(h, op) ==
  /\ handler[h].op = "none"
  /\ op = "setup"   => drawn + 1 \in Secrets
  /\ op = "verify"  => user.secret # 0
  /\ op = "disable" => user.secret # 0 /\ user.enabled
  /\ drawn' = IF op = "setup" THEN drawn + 1 ELSE drawn
  /\ shown' = IF op = "setup" THEN shown ELSE shown \cup {user.secret}
  /\ handler' = [handler EXCEPT ![h] = [op |-> op, enabled |-> user.enabled,
                                        secret |-> IF op = "setup" THEN drawn'
                                                                   ELSE user.secret]]
  /\ crossed' = (crossed \/ \E g \in Others(h) : "setup" \in {op, handler[g].op})
  /\ UNCHANGED user

\* Mutant: the flag is left as it was.
LeftEnabled(q) == [user EXCEPT !.secret = q.secret]

\* setup_2fa; a column is written only where its value differs from the one read.
SetUp(q) == [secret |-> q.secret, enabled |-> IF q.enabled THEN FALSE ELSE user.enabled]

\* What a handler's commit leaves in the row.
Commit(q) ==
  CASE q.op = "setup"   -> SetUp(q)
    [] q.op = "verify"  -> [user EXCEPT !.enabled = q.enabled => @]
    [] q.op = "disable" -> [secret |-> 0, enabled |-> FALSE]

EndFactor(h) ==
  /\ handler[h].op # "none"
  /\ user' = Commit(handler[h])
  /\ handler' = [handler EXCEPT ![h] = Free]
  /\ UNCHANGED <<drawn, shown, crossed>>

FactorStep ==
  \E h \in Handlers :
    (\E op \in {"setup", "verify", "disable"} : BeginFactor(h, op)) \/ EndFactor(h)

SessionsNext ==
  \/ TokenStep /\ UNCHANGED factorVars
  \/ FactorStep /\ UNCHANGED sessionVars

SessionsSpec == SessionsInit /\ [][SessionsNext]_<<sessionVars, factorVars>>

----------------------------------------------------------------------------
(* A token that was logged out, whenever and however often, is refused until it is about
   to end: only in its last two seconds, which begin a second before the one exp names,
   may it be taken again, unless Redis lost the blacklist, of which the table kept for that
   case is never asked (security.py:82-90, auth.py:101-119). *)
RevokedUntilEdge ==
  \A t \in loggedOut : ~wiped /\ Admitted(t) => time > (expiry[t] - 1) * Sec

(* The second factor that login asks for is one the user has shown a code of: enabled with
   a secret nobody has confirmed, and the user locked out, it can only be when a setup and
   another handler worked on the row at the same time (auth.py:124-196). *)
SecondFactorIsConfirmed ==
  ~crossed /\ user.enabled /\ user.secret # 0 => user.secret \in shown

(* A secret is asked for at login only after a code of it was verified, whatever handlers
   run meanwhile: "verify, then active" (auth.py:132-133).  It does not hold: a
   verification of the secret before overlaps a setup, each writes its own column, and the
   new secret is enabled (auth.py:147-150, 172-173). *)
OnlyVerifiedSecrets == user.enabled /\ user.secret # 0 => user.secret \in shown
=============================================================================
