-------------------------------- MODULE Panel --------------------------------
(***************************************************************************)
(* app/auth.py behind the routes of app/main.py: the login limiter, which  *)
(* lives in memory under a lock, and the sessions, which are rows of the   *)
(* database.  The routes are plain functions, so Starlette runs each       *)
(* request in a thread; one statement of SQL or one body of the limiter's  *)
(* lock is one step, and everything else interleaves.                      *)
(***************************************************************************)
EXTENDS Integers, Sequences, FiniteSets

CONSTANTS
  Thread,        \* worker threads
  Client,        \* client keys the limiter counts by
  Token,         \* random session tokens
  MaxAttempts, Window, Lockout,   \* LOGIN_MAX_ATTEMPTS, _WINDOW_, _LOCKOUT_SECONDS
  MaxClients,    \* the 4096 clients the limiter remembers
  Ttl,           \* ADMIN_SESSION_TTL_HOURS
  Ephemeral,     \* ADMIN_SESSION_SECRET is not set
  MaxTime,       \* bound: clock readings
  MaxRequests,   \* bound: requests in one behaviour
  MaxVisits,     \* bound: those of them that carry a cookie
  MaxFaults      \* bound: statements that fail and restarts

ASSUME PanelConstants ==
  /\ IsFiniteSet(Thread)
  /\ "none" \notin Client /\ "none" \notin Token
  /\ MaxAttempts \in Nat \ {0} /\ Window \in Nat \ {0} /\ Lockout \in Nat \ {0}
  /\ MaxClients \in Nat /\ Ttl \in Nat \ {0} /\ Ephemeral \in BOOLEAN
  /\ MaxTime \in Nat /\ MaxRequests \in Nat /\ MaxVisits \in Nat /\ MaxFaults \in Nat

VARIABLES
  now,           \* the clock, monotonic or not
  attempts,      \* RateLimiter._attempts: a client without an entry has << >>
  lockedUntil,   \* RateLimiter._locked_until: a client without an entry has 0
  secret,        \* which session secret the process hashes with
  sessions,      \* rows of the table: [token, secret, expires]
  pc, req,       \* each thread and its request
  validTo,       \* when a token expires, 0 while it is unused; the properties' record
  issued,        \* tokens a browser was answered with; the properties' record
  ended,         \* tokens signed out or revoked; the properties' record
  requests, visits, faults   \* counters for the bounds

limiter == <<attempts, lockedUntil>>
store == <<secret, sessions>>
record == <<validTo, issued, ended>>
bounds == <<requests, visits, faults>>
vars == <<now, limiter, store, pc, req, record, bounds>>

Label == {"idle", "check", "verify", "hit", "miss", "insert", "purge",
          "lookup", "judge", "drop", "delete", "wipe", "answer"}

\* seen is the local `now` and expires the local `expires`; as is what get_session
\* answered; dead is whether the session was over when the request arrived; done is
\* whether create_session came to its end.
Request ==
  [op : {"login", "page", "logout", "revoke"}, client : Client \union {"none"},
   token : Token \union {"none"}, csrf : BOOLEAN, seen : Nat, expires : Nat,
   as : {"nobody", "admin"}, dead : BOOLEAN, done : BOOLEAN]

Blank ==
  [op |-> "page", client |-> "none", token |-> "none", csrf |-> FALSE, seen |-> 0,
   expires |-> 0, as |-> "nobody", dead |-> FALSE, done |-> FALSE]

Row == [token : Token, secret : Nat, expires : Nat]

TypeOK ==
  /\ now \in Nat
  /\ DOMAIN attempts = Client /\ lockedUntil \in [Client -> Nat]
  /\ secret \in Nat /\ sessions \subseteq Row
  /\ pc \in [Thread -> Label] /\ req \in [Thread -> Request]
  /\ validTo \in [Token -> Nat]
  /\ issued \subseteq Token /\ ended \subseteq Token
  /\ requests \in 0..MaxRequests /\ visits \in 0..MaxVisits /\ faults \in 0..MaxFaults

\* Apart from TypeOK, for the provers: few steps of the proofs need it.
TimesOK == \A c \in Client : attempts[c] \in Seq(Nat)

Init ==
  /\ now = 1
  /\ attempts = [c \in Client |-> << >>]
  /\ lockedUntil = [c \in Client |-> 0]
  /\ secret = 0 /\ sessions = {}
  /\ pc = [th \in Thread |-> "idle"] /\ req = [th \in Thread |-> Blank]
  /\ validTo = [t \in Token |-> 0] /\ issued = {} /\ ended = {}
  /\ requests = 0 /\ visits = 0 /\ faults = 0

\* The failures that are still in the window, in their order.  (SelectSeq, written as the
\* recursive function it stands for: the proofs look inside.)
Recent(times, at) ==
  LET kept[n \in 0..Len(times)] ==
        IF n = 0 THEN << >>
        ELSE IF at - times[n] < Window THEN Append(kept[n - 1], times[n]) ELSE kept[n - 1]
  IN kept[Len(times)]

Go(th, label) == pc' = [pc EXCEPT ![th] = label]

Fault == faults < MaxFaults /\ faults' = faults + 1

------------------------------------------------------------------------------
(* Signing in *)

Arrive(th, r, label) ==
  /\ pc[th] = "idle" /\ requests < MaxRequests
  /\ requests' = requests + 1
  /\ req' = [req EXCEPT ![th] = r]
  /\ Go(th, label)
  /\ UNCHANGED <<now, limiter, store, record, faults>>

\* The clock is read before the lock is taken.
LoginSubmit(th, c) ==
  /\ UNCHANGED visits
  /\ Arrive(th, [Blank EXCEPT !.op = "login", !.client = c, !.seen = now], "check")

\* Mutant: the failures that led to the lockout are kept.
LiftLockOnly(c) ==
  IF lockedUntil[c] # 0
  THEN lockedUntil' = [lockedUntil EXCEPT ![c] = 0] /\ UNCHANGED attempts
  ELSE UNCHANGED <<attempts, lockedUntil>>

\* What check forgets when no lockout forbids the attempt.
LiftServed(c) ==
  IF lockedUntil[c] # 0
  THEN /\ lockedUntil' = [lockedUntil EXCEPT ![c] = 0]
       /\ attempts' = [attempts EXCEPT ![c] = << >>]
  ELSE UNCHANGED <<attempts, lockedUntil>>

\* Mutant: the last reading before the deadline counts as after it.
LockedLess(c, seen) == lockedUntil[c] > seen + 1

Locked(c, seen) == lockedUntil[c] > seen

\* RateLimiter.check once it has the lock.
Check(th) ==
  LET c == req[th].client IN
  /\ pc[th] = "check"
  /\ IF Locked(c, req[th].seen)
     THEN Go(th, "answer") /\ UNCHANGED <<attempts, lockedUntil>>
     ELSE Go(th, "verify") /\ LiftServed(c)
  /\ req' = [req EXCEPT ![th].seen = 0]
  /\ UNCHANGED <<now, store, record, bounds>>

\* Argon2 takes its time, outside the lock.
Verify(th) ==
  /\ pc[th] = "verify"
  /\ \/ Go(th, "hit") /\ UNCHANGED req
     \/ Go(th, "miss") /\ req' = [req EXCEPT ![th].seen = now]
  /\ UNCHANGED <<now, limiter, store, record, bounds>>

\* Mutant: one failure more than the limit goes without a lockout.
LockOneLate(c, seen, times) ==
  lockedUntil' = IF Len(times) > MaxAttempts
                 THEN [lockedUntil EXCEPT ![c] = seen + Lockout] ELSE lockedUntil

LockWhenFull(c, seen, times) ==
  lockedUntil' = IF Len(times) >= MaxAttempts
                 THEN [lockedUntil EXCEPT ![c] = seen + Lockout] ELSE lockedUntil

\* RateLimiter.register_failure once it has the lock; the memory guard comes last.
RegisterFailure(th) ==
  LET c == req[th].client
      seen == req[th].seen
      times == Append(Recent(attempts[c], seen), seen)
      kept == [attempts EXCEPT ![c] = times] IN
  /\ pc[th] = "miss"
  /\ LockWhenFull(c, seen, times)
  /\ attempts' = IF Cardinality({d \in Client : kept[d] # << >>}) > MaxClients
                  THEN [d \in Client |-> << >>] ELSE kept
  /\ Go(th, "answer")
  /\ UNCHANGED <<now, store, req, record, bounds>>

\* register_success, then the values create_session starts from: a token nobody has.
RegisterSuccess(th, t) ==
  LET c == req[th].client IN
  /\ pc[th] = "hit" /\ validTo[t] = 0
  /\ attempts' = [attempts EXCEPT ![c] = << >>]
  /\ lockedUntil' = [lockedUntil EXCEPT ![c] = 0]
  /\ validTo' = [validTo EXCEPT ![t] = now + Ttl]
  /\ req' = [req EXCEPT ![th].token = t, ![th].expires = now + Ttl]
  /\ Go(th, "insert")
  /\ UNCHANGED <<now, store, issued, ended, bounds>>

\* The INSERT of create_session; when it raises, the request ends in an error page.
Insert(th) ==
  /\ pc[th] = "insert"
  /\ \/ /\ sessions' = sessions \union
             {[token |-> req[th].token, secret |-> secret, expires |-> req[th].expires]}
        /\ Go(th, "purge") /\ UNCHANGED faults
     \/ Fault /\ Go(th, "answer") /\ UNCHANGED sessions
  /\ UNCHANGED <<now, limiter, secret, req, record, requests, visits>>

\* Mutant: a session counts as over one reading early.
OverSoon(expires) == expires <= now + 1

\* The comparison of get_session and of purge_expired.
Over(expires) == expires <= now

\* purge_expired: an error is swallowed.
Purge(th) ==
  /\ pc[th] = "purge"
  /\ \/ sessions' = {r \in sessions : ~Over(r.expires)} /\ UNCHANGED faults
     \/ Fault /\ UNCHANGED sessions
  /\ req' = [req EXCEPT ![th].done = TRUE]
  /\ Go(th, "answer")
  /\ UNCHANGED <<now, limiter, secret, record, requests, visits>>

------------------------------------------------------------------------------
(* Requests that carry a cookie *)

Dead(t) == t \in Token => (t \in ended \/ Over(validTo[t]))

\* page stands for every route that reads, revoke for DELETE /api/sessions; csrf is
\* whether the request brings the token of its session.
Visit(th, op, t, csrf) ==
  /\ t \in issued \union {"none"} /\ (csrf => op # "page")
  /\ visits < MaxVisits /\ visits' = visits + 1
  /\ Arrive(th, [Blank EXCEPT !.op = op, !.token = t, !.csrf = csrf, !.dead = Dead(t)],
            "lookup")

\* Where a request goes on that has no session: only logout does more than refuse.
WithoutSession(th) == Go(th, IF req[th].op = "logout" THEN "delete" ELSE "answer")

\* Mutant: the cookie is looked up whatever secret it was hashed with.
SameToken(r, t) == r.token = t

Matches(r, t) == r.token = t /\ r.secret = secret

\* get_session: the SELECT.  No cookie, no row and an error are the same answer.
Lookup(th) ==
  /\ pc[th] = "lookup"
  /\ \/ \E r \in sessions :
          /\ Matches(r, req[th].token)
          /\ req' = [req EXCEPT ![th].expires = r.expires]
          /\ Go(th, "judge") /\ UNCHANGED faults
     \/ /\ \A r \in sessions : ~Matches(r, req[th].token)
        /\ WithoutSession(th) /\ UNCHANGED <<req, faults>>
     \/ Fault /\ req[th].token # "none" /\ WithoutSession(th) /\ UNCHANGED req
  /\ UNCHANGED <<now, limiter, store, record, requests, visits>>

\* get_session: the date of the row it read, and what the route does with the session.
Judge(th) ==
  /\ pc[th] = "judge"
  /\ IF Over(req[th].expires)
     THEN Go(th, "drop") /\ UNCHANGED req
     ELSE /\ req' = [req EXCEPT ![th].as = "admin"]
          /\ Go(th, IF ~req[th].csrf THEN "answer"
                    ELSE CASE req[th].op = "logout" -> "delete"
                           [] req[th].op = "revoke" -> "wipe"
                           [] OTHER -> "answer")
  /\ UNCHANGED <<now, limiter, store, record, bounds>>

Unmatched(t) == {r \in sessions : ~Matches(r, t)}

\* get_session drops a session that is over; an error is swallowed.
Drop(th) ==
  /\ pc[th] = "drop"
  /\ \/ sessions' = Unmatched(req[th].token) /\ UNCHANGED faults
     \/ Fault /\ UNCHANGED sessions
  /\ WithoutSession(th)
  /\ UNCHANGED <<now, limiter, secret, req, record, requests, visits>>

\* destroy_session for logout, which also comes here without a session.
Delete(th) ==
  /\ pc[th] = "delete"
  /\ \/ /\ sessions' = Unmatched(req[th].token)
        /\ ended' = ended \union ({req[th].token} \ {"none"})
        /\ UNCHANGED faults
     \/ Fault /\ UNCHANGED <<sessions, ended>>
  /\ Go(th, "answer")
  /\ UNCHANGED <<now, limiter, secret, req, validTo, issued, requests, visits>>

\* destroy_all_sessions: an error counts as no session.
Wipe(th) ==
  /\ pc[th] = "wipe"
  /\ \/ /\ sessions' = {}
        /\ ended' = ended \union issued \union {r.token : r \in sessions}
        /\ UNCHANGED faults
     \/ Fault /\ UNCHANGED <<sessions, ended>>
  /\ Go(th, "answer")
  /\ UNCHANGED <<now, limiter, secret, req, validTo, issued, requests, visits>>

\* The answer; the cookie of a sign-in comes with it.
Answer(th) ==
  /\ pc[th] = "answer"
  /\ issued' = IF req[th].done THEN issued \union {req[th].token} ELSE issued
  /\ Go(th, "idle") /\ req' = [req EXCEPT ![th] = Blank]
  /\ UNCHANGED <<now, limiter, store, validTo, ended, bounds>>

------------------------------------------------------------------------------
(* The world around *)

Tick ==
  /\ now < MaxTime /\ now' = now + 1
  /\ UNCHANGED <<limiter, store, pc, req, record, bounds>>

\* The process is replaced: its memory is new, the table stays.
Restart ==
  /\ Fault
  /\ attempts' = [c \in Client |-> << >>] /\ lockedUntil' = [c \in Client |-> 0]
  /\ pc' = [th \in Thread |-> "idle"] /\ req' = [th \in Thread |-> Blank]
  /\ IF Ephemeral
     THEN secret' = secret + 1 /\ ended' = ended \union {t \in Token : validTo[t] # 0}
     ELSE UNCHANGED <<secret, ended>>
  /\ UNCHANGED <<now, sessions, validTo, issued, requests, visits>>

Login(th) ==
  \/ \E c \in Client : LoginSubmit(th, c)
  \/ Check(th) \/ Verify(th) \/ RegisterFailure(th)
  \/ \E t \in Token : RegisterSuccess(th, t)
  \/ Insert(th) \/ Purge(th)

Session(th) ==
  \/ \E op \in {"page", "logout", "revoke"}, t \in Token \union {"none"}, csrf \in BOOLEAN :
       Visit(th, op, t, csrf)
  \/ Lookup(th) \/ Judge(th) \/ Drop(th) \/ Delete(th) \/ Wipe(th) \/ Answer(th)

Next == Tick \/ Restart \/ \E th \in Thread : Login(th) \/ Session(th)

Spec == Init /\ [][Next]_vars

------------------------------------------------------------------------------
(* Properties *)

\* A client whose failures fill the window has a lockout, running or served: check
\* drops both together (auth.py:69-71), and no interleaving of the threads that were
\* past check when the lockout began leaves one without the other.
FullIsLocked ==
  \A c \in Client : Len(attempts[c]) >= MaxAttempts => lockedUntil[c] # 0

PanelInv == TypeOK /\ TimesOK /\ FullIsLocked

\* A request that arrives after its session was signed out, revoked or over is never
\* taken for the administrator's, whatever logins, purges, sign-outs, failing
\* statements and restarts run beside it.
SignedOutStaysOut ==
  \A th \in Thread : req[th].as = "admin" => ~req[th].dead

\* A session a browser was given is in the table, under the secret the process hashes
\* with, until it is signed out, revoked or over: the purges and drops of other
\* requests take only what is over, and with a set secret restarts keep it.
SessionsLast ==
  \A t \in issued \ ended :
    validTo[t] > now =>
      [token |-> t, secret |-> secret, expires |-> validTo[t]] \in sessions

\* The failures that count against a client: the limit less one without a lockout, and
\* one for every thread that can be past check when the last of them locks it out.
\* Lockouts end, threads come late and the clock readings are stale, but the sum stays.
FailuresBounded ==
  \A c \in Client : Len(attempts[c]) <= MaxAttempts - 1 + Cardinality(Thread)

SignsIn(th, c) == req[th].client = c /\ pc[th] = "hit" /\ pc'[th] = "insert"

\* A failure that waited for the lock for a whole lockout since it read the clock.
ComesLate(th, c) ==
  req[th].client = c /\ pc[th] = "miss" /\ pc'[th] = "answer" /\ req[th].seen + Lockout <= now

\* A lockout that runs is lifted, dropped or replaced by one that is over, by a sign-in
\* of the same client or a restart only, or by a failure of the same client whose
\* reading of the clock is a whole lockout old: register_failure overwrites the
\* deadline without a look at it (auth.py:79).
LockHolds ==
  [][\A c \in Client :
       lockedUntil[c] > now /\ lockedUntil'[c] <= now =>
         \/ \E th \in Thread : SignsIn(th, c) \/ ComesLate(th, c)
         \/ Restart]_vars
==============================================================================
