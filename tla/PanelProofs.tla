---------------------------- MODULE PanelProofs ----------------------------
(***************************************************************************)
(* Proofs about the panel's sign-in, for any number of threads, clients,   *)
(* tokens, faults and restarts and for any limits: a session that is over  *)
(* stays out, one that is not is kept, a lockout that runs holds, and the  *)
(* failures that count against a client are bounded.                       *)
(***************************************************************************)
EXTENDS Panel, Induction

LoginLabel == {"check", "verify", "hit", "miss", "insert", "purge"}
VisitLabel == {"lookup", "judge", "drop", "delete", "wipe"}

\* The thread holds a token that no browser has been answered with.
Bears(th) == pc[th] \in {"insert", "purge"} \/ (pc[th] = "answer" /\ req[th].done)

Kept(t) == [token |-> t, secret |-> secret, expires |-> validTo[t]] \in sessions

------------------------------------------------------------------------------
(* The strengthening *)

\* Rows: the secret they are hashed with is at most the current one, and under the
\* current one no row is left of a session that was ended.
RowsInv ==
  \A r \in sessions :
    /\ validTo[r.token] # 0 /\ r.expires = validTo[r.token]
    /\ r.secret <= secret
    /\ r.secret = secret => r.token \notin ended

\* Tokens in use have a date.
UsedInv == \A t \in issued \union ended : validTo[t] # 0

\* Signing in: what the token of a request not yet answered is worth.
LoginFacts(th) ==
  /\ pc[th] = "idle" => req[th] = Blank
  /\ pc[th] \in {"check", "verify", "hit", "miss"} => req[th].client \in Client
  /\ pc[th] \in LoginLabel => ~req[th].dead /\ req[th].as = "nobody"
  /\ req[th].done => pc[th] = "answer"
  /\ req[th].seen <= now
  /\ req[th].token # "none" => validTo[req[th].token] # 0
  /\ Bears(th) =>
       /\ req[th].token \in Token \ issued
       /\ req[th].expires = validTo[req[th].token]
  /\ pc[th] = "insert" =>
       /\ req[th].token \notin ended
       /\ \A r \in sessions : r.token # req[th].token
  /\ Bears(th) /\ pc[th] # "insert" =>
       Kept(req[th].token) \/ req[th].token \in ended \/ Over(req[th].expires)

LoginInv == \A th \in Thread : LoginFacts(th)

\* No two threads bear one token.
BearsInv ==
  \A th, ot \in Thread :
    Bears(th) /\ Bears(ot) /\ req[th].token = req[ot].token => th = ot

\* Requests with a cookie: what the verdict of get_session will rest on.
VisitInv ==
  \A th \in Thread :
    /\ pc[th] \in VisitLabel => req[th].token \in issued \union {"none"}
    /\ req[th].dead /\ req[th].token # "none" =>
         req[th].token \in ended \/ Over(validTo[req[th].token])
    /\ pc[th] \in {"judge", "drop"} =>
         req[th].token \in Token /\ req[th].expires = validTo[req[th].token]
    /\ pc[th] = "judge" /\ req[th].dead => Over(req[th].expires)
    /\ pc[th] = "drop" => Over(req[th].expires)

SessionInv ==
  /\ RowsInv /\ UsedInv /\ LoginInv /\ BearsInv /\ VisitInv
  /\ SignedOutStaysOut /\ SessionsLast

------------------------------------------------------------------------------
(* What Recent returns *)

\* What the recursive function of Recent is at each length.
Keeps(f, times, at, n) ==
  f = [i \in 0..n |->
         IF i = 0 THEN << >>
         ELSE IF at - times[i] < Window THEN Append(f[i - 1], times[i]) ELSE f[i - 1]]

\* There is such a function for every sequence of times: from each length to the next.
LEMMA KeptExists ==
  ASSUME NEW times \in Seq(Nat), NEW at \in Nat
  PROVE  \E f : Keeps(f, times, at, Len(times))
<1> DEFINE S == {n \in 0..Len(times) : \E f : Keeps(f, times, at, n)}
<1>1. 0 \in S
  <2>1. Keeps([i \in 0..0 |-> << >>], times, at, 0)
    BY DEF Keeps
  <2> QED
    BY <2>1
<1>2. ASSUME NEW n \in 1..Len(times), n - 1 \in S
      PROVE  n \in S
  <2>1. PICK f : Keeps(f, times, at, n - 1)
    BY <1>2
  <2> DEFINE g == [i \in 0..n |->
                     IF i < n THEN f[i]
                     ELSE IF at - times[n] < Window THEN Append(f[n - 1], times[n]) ELSE f[n - 1]]
  <2>2. \A i \in 0..(n - 1) :
          f[i] = IF i = 0 THEN << >>
                 ELSE IF at - times[i] < Window THEN Append(f[i - 1], times[i]) ELSE f[i - 1]
    BY <2>1, Zenon DEF Keeps
  <2>3. \A i \in 0..n :
          g[i] = IF i = 0 THEN << >>
                 ELSE IF at - times[i] < Window THEN Append(g[i - 1], times[i]) ELSE g[i - 1]
    <3> TAKE i \in 0..n
    <3>1. CASE i = 0
      BY <2>2, <3>1
    <3>2. CASE i # 0 /\ i < n
      BY <2>2, <3>2
    <3>3. CASE i = n
      BY <3>3
    <3> QED
      BY <3>1, <3>2, <3>3
  <2>4. Keeps(g, times, at, n)
    <3> DEFINE h == [i \in 0..n |->
                 IF i = 0 THEN << >>
                 ELSE IF at - times[i] < Window THEN Append(g[i - 1], times[i]) ELSE g[i - 1]]
    <3>1. g = [i \in 0..n |-> g[i]]
      OBVIOUS
    <3>2. g = h
      <4> HIDE DEF g
      <4> QED BY <2>3, <3>1
    <3> HIDE DEF g
    <3> QED
      BY <3>2, Zenon DEF Keeps
  <2> QED
    BY <2>4
<1> HIDE DEF S
<1>3. Len(times) \in Nat
  OBVIOUS
<1>4. Len(times) \in S
  BY <1>1, <1>2, <1>3, UpTo
<1> QED
  BY <1>4 DEF S

\* The times that are still in the window are a sequence no longer than the times.
LEMMA RecentShrinks ==
  ASSUME NEW times \in Seq(Nat), NEW at \in Nat
  PROVE  Recent(times, at) \in Seq(Nat) /\ Len(Recent(times, at)) <= Len(times)
<1>1. PICK f : f = CHOOSE g : Keeps(g, times, at, Len(times))
  OBVIOUS
<1>2. Keeps(f, times, at, Len(times))
  BY <1>1, KeptExists
<1>3. Recent(times, at) = f[Len(times)]
  BY <1>1 DEF Recent, Keeps
<1> DEFINE n == Len(times)
           S == {i \in 0..n : f[i] \in Seq(Nat) /\ Len(f[i]) <= i}
<1>4. \A i \in 0..n :
        f[i] = IF i = 0 THEN << >>
               ELSE IF at - times[i] < Window THEN Append(f[i - 1], times[i]) ELSE f[i - 1]
  BY <1>2, Zenon DEF Keeps
<1>5. n \in Nat /\ 0 \in 0..n /\ n \in 0..n
  OBVIOUS
<1>6. 0 \in S
  <2>1. f[0] = << >>
    BY <1>4, <1>5
  <2>2. << >> \in Seq(Nat) /\ Len(<< >>) <= 0
    OBVIOUS
  <2> QED
    BY <1>5, <2>1, <2>2
<1>7. ASSUME NEW i \in 1..n, i - 1 \in S
      PROVE  i \in S
  <2>1. i \in 0..n /\ i # 0 /\ times[i] \in Nat
    OBVIOUS
  <2>2. \/ f[i] = Append(f[i - 1], times[i])
        \/ f[i] = f[i - 1]
    BY <1>4, <2>1
  <2>3. f[i - 1] \in Seq(Nat) /\ Len(f[i - 1]) <= i - 1
    BY <1>7
  <2> DEFINE e == f[i - 1]
  <2>4. /\ e \in Seq(Nat) /\ Len(e) \in Nat
        /\ Append(e, times[i]) \in Seq(Nat) /\ Len(Append(e, times[i])) = Len(e) + 1
    <3>1. e \in Seq(Nat)
      BY <2>3
    <3> HIDE DEF e
    <3> QED
      BY <2>1, <3>1
  <2>5. f[i] \in Seq(Nat) /\ Len(f[i]) <= i
    <3>1. Len(e) <= i - 1 /\ (f[i] = e \/ f[i] = Append(e, times[i]))
      BY <2>2, <2>3
    <3> HIDE DEF e
    <3>2. CASE f[i] = e
      BY <2>4, <3>1, <3>2
    <3>3. CASE f[i] = Append(e, times[i])
      BY <2>4, <3>1, <3>3
    <3> QED
      BY <3>1, <3>2, <3>3
  <2> QED
    BY <2>1, <2>5
<1> HIDE DEF S
<1>8. n \in S
  <2> HIDE DEF n
  <2> QED
    BY <1>5, <1>6, <1>7, UpTo
<1> QED
  BY <1>3, <1>8 DEF S

------------------------------------------------------------------------------
(* Types *)

LEMMA BlankTyped == Blank \in Request
BY DEF Blank, Request

LEMMA InitTyped == Init => TypeOK
BY PanelConstants, BlankTyped DEF Init, TypeOK, Label, Row

\* Each step keeps the types.
LEMMA StepTyped ==
  ASSUME TypeOK, [Next]_vars, LoginInv, VisitInv
  PROVE  TypeOK'
<1> USE PanelConstants
<1>1. ASSUME NEW th \in Thread, NEW c \in Client, LoginSubmit(th, c)
      PROVE  TypeOK'
  <2>1. [Blank EXCEPT !.op = "login", !.client = c, !.seen = now] \in Request
    BY DEF Blank, Request, TypeOK
  <2>2. req' \in [Thread -> Request]
    BY <1>1, <2>1 DEF LoginSubmit, Arrive, TypeOK
  <2>3. pc' \in [Thread -> Label] /\ requests' \in 0..MaxRequests
    BY <1>1 DEF LoginSubmit, Arrive, TypeOK, Go, Label
  <2> QED
    BY <1>1, <2>2, <2>3 DEF LoginSubmit, Arrive, TypeOK, limiter, store, record
<1>2. ASSUME NEW th \in Thread, Check(th)
      PROVE  TypeOK'
  <2>1. req[th].client \in Client
    BY <1>2 DEF Check, LoginInv, LoginFacts
  <2>2. DOMAIN attempts' = Client /\ lockedUntil' \in [Client -> Nat]
    <3>1. \/ UNCHANGED <<attempts, lockedUntil>>
          \/ /\ lockedUntil' = [lockedUntil EXCEPT ![req[th].client] = 0]
             /\ attempts' = [attempts EXCEPT ![req[th].client] = << >>]
      BY <1>2 DEF Check, LiftServed
    <3> QED
      BY <2>1, <3>1 DEF TypeOK
  <2>3. req' \in [Thread -> Request]
    BY <1>2 DEF Check, TypeOK, Request
  <2>4. pc' \in [Thread -> Label]
    BY <1>2 DEF Check, TypeOK, Go, Label
  <2> QED
    BY <1>2, <2>2, <2>3, <2>4 DEF Check, TypeOK, store, record, bounds
<1>3. ASSUME NEW th \in Thread, Verify(th)
      PROVE  TypeOK'
  BY <1>3 DEF Verify, TypeOK, Go, Label, Request, limiter, store, record, bounds
<1>4. ASSUME NEW th \in Thread, RegisterFailure(th)
      PROVE  TypeOK'
  <2>1. req[th].client \in Client /\ req[th].seen \in Nat
    BY <1>4 DEF RegisterFailure, LoginInv, LoginFacts, TypeOK, Request
  <2>2. lockedUntil' \in [Client -> Nat]
    BY <1>4, <2>1 DEF RegisterFailure, LockWhenFull, TypeOK
  <2>3. DOMAIN attempts' = Client
    BY <1>4, <2>1 DEF RegisterFailure, TypeOK
  <2>4. pc' \in [Thread -> Label]
    BY <1>4 DEF RegisterFailure, TypeOK, Go, Label
  <2> QED
    BY <1>4, <2>2, <2>3, <2>4 DEF RegisterFailure, TypeOK, store, record, bounds
<1>5. ASSUME NEW th \in Thread, NEW t \in Token, RegisterSuccess(th, t)
      PROVE  TypeOK'
  <2>1. req[th].client \in Client /\ now + Ttl \in Nat
    BY <1>5 DEF RegisterSuccess, LoginInv, LoginFacts, TypeOK
  <2>2. req' \in [Thread -> Request]
    <3>1. req[th] \in Request
      BY DEF TypeOK
    <3>2. [req[th] EXCEPT !.token = t, !.expires = now + Ttl] \in Request
      BY <2>1, <3>1 DEF Request
    <3>3. req' = [req EXCEPT ![th] = [req[th] EXCEPT !.token = t, !.expires = now + Ttl]]
      BY <1>5 DEF RegisterSuccess, TypeOK, Request
    <3> QED
      BY <3>2, <3>3 DEF TypeOK
  <2>3. DOMAIN attempts' = Client /\ lockedUntil' \in [Client -> Nat]
    BY <1>5, <2>1 DEF RegisterSuccess, TypeOK
  <2>4. pc' \in [Thread -> Label] /\ validTo' \in [Token -> Nat]
    BY <1>5, <2>1 DEF RegisterSuccess, TypeOK, Go, Label
  <2> QED
    BY <1>5, <2>2, <2>3, <2>4 DEF RegisterSuccess, TypeOK, store, bounds
<1>6. ASSUME NEW th \in Thread, Insert(th)
      PROVE  TypeOK'
  <2>1. req[th].token \in Token /\ req[th].expires \in Nat
    BY <1>6 DEF Insert, LoginInv, LoginFacts, Bears, TypeOK, Request
  <2>2. sessions' \subseteq Row
    BY <1>6, <2>1 DEF Insert, TypeOK, Row
  <2>3. pc' \in [Thread -> Label] /\ faults' \in 0..MaxFaults
    BY <1>6 DEF Insert, TypeOK, Go, Label, Fault
  <2> QED
    BY <1>6, <2>2, <2>3 DEF Insert, TypeOK, limiter, record
<1>7. ASSUME NEW th \in Thread, Purge(th)
      PROVE  TypeOK'
  <2>1. pc' \in [Thread -> Label] /\ faults' \in 0..MaxFaults
    BY <1>7 DEF Purge, TypeOK, Go, Label, Fault
  <2>2. req' \in [Thread -> Request]
    <3>1. req[th] \in Request
      BY DEF TypeOK
    <3>2. [req[th] EXCEPT !.done = TRUE] \in Request
      BY <3>1 DEF Request
    <3> QED
      BY <1>7, <3>2 DEF Purge, TypeOK
  <2>3. sessions' \subseteq Row
    BY <1>7 DEF Purge, TypeOK
  <2> QED
    BY <1>7, <2>1, <2>2, <2>3 DEF Purge, TypeOK, limiter, record
<1>8. ASSUME NEW th \in Thread, NEW op \in {"page", "logout", "revoke"},
             NEW t \in Token \union {"none"}, NEW csrf \in BOOLEAN, Visit(th, op, t, csrf)
      PROVE  TypeOK'
  <2>1. Dead(t) \in BOOLEAN
    BY DEF Dead
  <2>2. [Blank EXCEPT !.op = op, !.token = t, !.csrf = csrf, !.dead = Dead(t)] \in Request
    BY <2>1 DEF Blank, Request
  <2>3. req' \in [Thread -> Request]
    BY <1>8, <2>2 DEF Visit, Arrive, TypeOK
  <2>4. pc' \in [Thread -> Label] /\ requests' \in 0..MaxRequests /\ visits' \in 0..MaxVisits
    BY <1>8 DEF Visit, Arrive, TypeOK, Go, Label
  <2> QED
    BY <1>8, <2>3, <2>4 DEF Visit, Arrive, TypeOK, limiter, store, record
<1>9. ASSUME NEW th \in Thread, Lookup(th)
      PROVE  TypeOK'
  <2>1. pc' \in [Thread -> Label] /\ faults' \in 0..MaxFaults
    BY <1>9 DEF Lookup, WithoutSession, TypeOK, Go, Label, Fault
  <2>2. req' \in [Thread -> Request]
    BY <1>9 DEF Lookup, TypeOK, Request, Row
  <2> QED
    BY <1>9, <2>1, <2>2 DEF Lookup, TypeOK, limiter, store, record
<1>10. ASSUME NEW th \in Thread, Judge(th)
       PROVE  TypeOK'
  <2>1. pc' \in [Thread -> Label]
    BY <1>10 DEF Judge, TypeOK, Go, Label
  <2>2. req' \in [Thread -> Request]
    BY <1>10 DEF Judge, TypeOK, Request
  <2> QED
    BY <1>10, <2>1, <2>2 DEF Judge, TypeOK, limiter, store, record, bounds
<1>11. ASSUME NEW th \in Thread, Drop(th)
       PROVE  TypeOK'
  BY <1>11 DEF Drop, Unmatched, WithoutSession, TypeOK, Go, Label, Fault, limiter, record
<1>12. ASSUME NEW th \in Thread, Delete(th)
       PROVE  TypeOK'
  <2>1. req[th].token \in Token \union {"none"}
    BY DEF TypeOK, Request
  <2> QED
    BY <1>12, <2>1 DEF Delete, Unmatched, TypeOK, Go, Label, Fault, limiter
<1>13. ASSUME NEW th \in Thread, Wipe(th)
       PROVE  TypeOK'
  BY <1>13 DEF Wipe, TypeOK, Row, Go, Label, Fault, limiter
<1>14. ASSUME NEW th \in Thread, Answer(th)
       PROVE  TypeOK'
  <2>1. issued' \subseteq Token
    BY <1>14 DEF Answer, TypeOK, LoginInv, LoginFacts, Bears
  <2>2. pc' \in [Thread -> Label] /\ req' \in [Thread -> Request]
    BY <1>14, BlankTyped DEF Answer, TypeOK, Go, Label
  <2> QED
    BY <1>14, <2>1, <2>2 DEF Answer, TypeOK, limiter, store, bounds
<1>15. CASE Tick
  BY <1>15 DEF Tick, TypeOK, limiter, store, record, bounds
<1>16. CASE Restart
  BY <1>16, BlankTyped DEF Restart, TypeOK, Label, Fault
<1>17. CASE UNCHANGED vars
  BY <1>17 DEF TypeOK, vars, limiter, store, record, bounds
<1> QED
  BY <1>1, <1>2, <1>3, <1>4, <1>5, <1>6, <1>7, <1>8, <1>9, <1>10, <1>11, <1>12, <1>13,
     <1>14, <1>15, <1>16, <1>17 DEF Next, Login, Session

------------------------------------------------------------------------------
(* The sessions *)

LEMMA InitSession == Init => SessionInv
BY DEF Init, SessionInv, RowsInv, UsedInv, LoginInv, LoginFacts, LoginLabel, BearsInv, Bears, VisitInv, VisitLabel,
       SignedOutStaysOut, SessionsLast, Blank

LEMMA StepSession ==
  ASSUME TypeOK, SessionInv, [Next]_vars
  PROVE  SessionInv'
<1> USE PanelConstants DEF SessionInv
<1>1. ASSUME NEW th \in Thread, NEW c \in Client, LoginSubmit(th, c)
      PROVE  SessionInv'
  <2>1. RowsInv'
    BY <1>1 DEF LoginSubmit, Arrive, RowsInv, store, record
  <2>2. UsedInv'
    BY <1>1 DEF LoginSubmit, Arrive, UsedInv, record
  <2>3. LoginInv'
    BY <1>1 DEF LoginSubmit, Arrive, Blank, LoginInv, LoginFacts, LoginLabel, Bears, Kept,
       UsedInv, RowsInv, BearsInv, VisitInv, VisitLabel, TypeOK, Request, Row, Go, Over,
       limiter, store, record
  <2>4. BearsInv'
    BY <1>1 DEF LoginSubmit, Arrive, Blank, BearsInv, Bears, LoginInv, LoginFacts, TypeOK,
       Request, Row, Go, Over, limiter, store, record
  <2>5. VisitInv'
    BY <1>1 DEF LoginSubmit, Arrive, Blank, VisitInv, VisitLabel, UsedInv, RowsInv, LoginInv,
       LoginFacts, LoginLabel, TypeOK, Request, Row, Go, Over, limiter, store, record
  <2>6. SignedOutStaysOut'
    BY <1>1 DEF LoginSubmit, Arrive, Blank, SignedOutStaysOut, VisitInv, LoginInv, LoginFacts,
       LoginLabel, TypeOK, Request, Row, Go, Over, limiter, store, record
  <2>7. SessionsLast'
    BY <1>1 DEF LoginSubmit, Arrive, SessionsLast, store, record
  <2> QED
    BY <2>1, <2>2, <2>3, <2>4, <2>5, <2>6, <2>7
<1>2. ASSUME NEW th \in Thread, Check(th)
      PROVE  SessionInv'
  <2>1. RowsInv'
    BY <1>2 DEF Check, RowsInv, store, record
  <2>2. UsedInv'
    BY <1>2 DEF Check, UsedInv, record
  <2>3. LoginInv'
    BY <1>2 DEF Check, LoginInv, LoginFacts, LoginLabel, Bears, Kept, UsedInv, RowsInv,
       BearsInv, VisitInv, VisitLabel, TypeOK, Request, Row, Go, Over, store, record, bounds
  <2>4. BearsInv'
    BY <1>2 DEF Check, BearsInv, Bears, LoginInv, LoginFacts, TypeOK, Request, Row, Go, Over,
       store, record, bounds
  <2>5. VisitInv'
    BY <1>2 DEF Check, VisitInv, VisitLabel, UsedInv, RowsInv, LoginInv, LoginFacts, LoginLabel,
       TypeOK, Request, Row, Go, Over, store, record, bounds
  <2>6. SignedOutStaysOut'
    BY <1>2 DEF Check, SignedOutStaysOut, VisitInv, LoginInv, LoginFacts, LoginLabel, TypeOK,
       Request, Row, Go, Over, store, record, bounds
  <2>7. SessionsLast'
    BY <1>2 DEF Check, SessionsLast, store, record
  <2> QED
    BY <2>1, <2>2, <2>3, <2>4, <2>5, <2>6, <2>7
<1>3. ASSUME NEW th \in Thread, Verify(th)
      PROVE  SessionInv'
  <2>1. /\ \A f \in {"token", "expires", "dead", "as", "done", "client"} : req'[th][f] = req[th][f]
       /\ req'[th].seen <= now
       /\ \A ot \in Thread : ot # th => req'[ot] = req[ot]
    BY <1>3 DEF Verify, LoginInv, LoginFacts, TypeOK, Request
  <2>2. /\ pc[th] = "verify" /\ pc' = [pc EXCEPT ![th] = pc'[th]] /\ pc'[th] \in {"hit", "miss"}
       /\ UNCHANGED <<now, secret, sessions, validTo, issued, ended>>
    BY <1>3 DEF Verify, Go, store, record, TypeOK
  <2>3. RowsInv'
    BY <2>1, <2>2 DEF RowsInv
  <2>4. UsedInv'
    BY <2>1, <2>2 DEF UsedInv
  <2>5. LoginInv'
    BY <2>1, <2>2 DEF LoginInv, LoginFacts, LoginLabel, Bears, Kept, UsedInv, RowsInv, BearsInv,
       VisitInv, VisitLabel, TypeOK, Request, Over
  <2>6. BearsInv'
    BY <2>1, <2>2 DEF BearsInv, Bears, LoginInv, LoginFacts, TypeOK, Request, Over
  <2>7. VisitInv'
    BY <2>1, <2>2 DEF VisitInv, VisitLabel, UsedInv, RowsInv, LoginInv, LoginFacts, LoginLabel,
       TypeOK, Request, Over
  <2>8. SignedOutStaysOut'
    BY <2>1, <2>2 DEF SignedOutStaysOut, VisitInv, LoginInv, LoginFacts, LoginLabel, TypeOK,
       Request, Over
  <2>9. SessionsLast'
    BY <2>1, <2>2 DEF SessionsLast
  <2> QED
    BY <2>3, <2>4, <2>5, <2>6, <2>7, <2>8, <2>9
<1>4. ASSUME NEW th \in Thread, RegisterFailure(th)
      PROVE  SessionInv'
  <2>1. RowsInv'
    BY <1>4 DEF RegisterFailure, RowsInv, store, record
  <2>2. UsedInv'
    BY <1>4 DEF RegisterFailure, UsedInv, record
  <2>3. LoginInv'
    BY <1>4 DEF RegisterFailure, LoginInv, LoginFacts, LoginLabel, Bears, Kept, UsedInv,
       RowsInv, BearsInv, VisitInv, VisitLabel, TypeOK, Request, Row, Go, Over, store, record,
       bounds
  <2>4. BearsInv'
    BY <1>4 DEF RegisterFailure, BearsInv, Bears, LoginInv, LoginFacts, TypeOK, Request, Row,
       Go, Over, store, record, bounds
  <2>5. VisitInv'
    BY <1>4 DEF RegisterFailure, VisitInv, VisitLabel, UsedInv, RowsInv, LoginInv, LoginFacts,
       LoginLabel, TypeOK, Request, Row, Go, Over, store, record, bounds
  <2>6. SignedOutStaysOut'
    BY <1>4 DEF RegisterFailure, SignedOutStaysOut
  <2>7. SessionsLast'
    BY <1>4 DEF RegisterFailure, SessionsLast, store, record
  <2> QED
    BY <2>1, <2>2, <2>3, <2>4, <2>5, <2>6, <2>7
<1>5. ASSUME NEW th \in Thread, NEW t \in Token, RegisterSuccess(th, t)
      PROVE  SessionInv'
  <2>1. /\ req'[th].token = t /\ req'[th].expires = now + Ttl /\ now + Ttl # 0
       /\ req'[th].dead = req[th].dead /\ req'[th].as = req[th].as
       /\ req'[th].done = req[th].done /\ req'[th].seen = req[th].seen
       /\ \A ot \in Thread : ot # th => req'[ot] = req[ot]
    <3>1. req' = [req EXCEPT ![th].token = t, ![th].expires = now + Ttl]
      BY <1>5 DEF RegisterSuccess
    <3>2. req \in [Thread -> Request]
      BY DEF TypeOK
    <3>3. now + Ttl # 0
      BY DEF TypeOK
    <3>4. \A ot \in Thread : ot # th => req'[ot] = req[ot]
      BY <3>1, <3>2
    <3>5. req[th] \in Request /\ req'[th] = [req[th] EXCEPT !.token = t, !.expires = now + Ttl]
      BY <3>1, <3>2
    <3> QED
      BY <3>3, <3>4, <3>5 DEF Request
  <2>2. /\ pc[th] = "hit" /\ pc' = [pc EXCEPT ![th] = "insert"]
       /\ validTo[t] = 0 /\ validTo' = [validTo EXCEPT ![t] = now + Ttl]
       /\ UNCHANGED <<now, secret, sessions, issued, ended>>
    BY <1>5 DEF RegisterSuccess, Go, store
  <2>3. RowsInv'
    BY <2>1, <2>2 DEF RowsInv, UsedInv, LoginInv, LoginFacts, Bears, TypeOK, Request, Over
  <2>4. UsedInv'
    BY <2>1, <2>2 DEF UsedInv, LoginInv, LoginFacts, Bears, RowsInv, VisitInv, VisitLabel,
       TypeOK, Request, Over
  <2>5. LoginInv'
    <3>1. ASSUME NEW u \in Thread, u # th
          PROVE  LoginFacts(u)'
      <4>1. req[u].token # "none" => req[u].token # t
        BY <2>2 DEF LoginInv, LoginFacts
      <4>2. \A r \in sessions : r.token # t
        BY <2>2 DEF RowsInv
      <4> QED
        BY <2>1, <2>2, <3>1, <4>1, <4>2
           DEF LoginInv, LoginFacts, LoginLabel, Bears, Kept, TypeOK, Request, Over
    <3>2. LoginFacts(th)'
      <4>1. t \notin issued /\ t \notin ended /\ \A r \in sessions : r.token # t
        BY <2>2 DEF UsedInv, RowsInv
      <4> QED
        BY <2>1, <2>2, <4>1 DEF LoginInv, LoginFacts, LoginLabel, Bears, TypeOK
    <3> QED
      BY <3>1, <3>2 DEF LoginInv
  <2>6. BearsInv'
    BY <2>1, <2>2 DEF BearsInv, Bears, LoginInv, LoginFacts, TypeOK, Request, Over
  <2>7. VisitInv'
    BY <2>1, <2>2 DEF VisitInv, VisitLabel, UsedInv, RowsInv, LoginInv, LoginFacts, LoginLabel,
       TypeOK, Request, Over
  <2>8. SignedOutStaysOut'
    BY <2>1, <2>2 DEF SignedOutStaysOut, VisitInv, LoginInv, LoginFacts, LoginLabel, TypeOK,
       Request, Over
  <2>9. SessionsLast'
    BY <2>1, <2>2 DEF SessionsLast, Kept, Bears, LoginInv, LoginFacts, VisitInv, RowsInv,
       UsedInv, TypeOK, Request, Over
  <2> QED
    BY <2>3, <2>4, <2>5, <2>6, <2>7, <2>8, <2>9
<1>6. ASSUME NEW th \in Thread, Insert(th)
      PROVE  SessionInv'
  <2>1. RowsInv'
    BY <1>6 DEF Insert, RowsInv, UsedInv, LoginInv, LoginFacts, Bears, TypeOK, Request, Row, Go,
       Over, limiter, record
  <2>2. UsedInv'
    BY <1>6 DEF Insert, UsedInv, record
  <2>3. LoginInv'
    BY <1>6 DEF Insert, LoginInv, LoginFacts, LoginLabel, Bears, Kept, UsedInv, RowsInv,
       BearsInv, VisitInv, VisitLabel, TypeOK, Request, Row, Go, Over, limiter, record
  <2>4. BearsInv'
    BY <1>6 DEF Insert, BearsInv, Bears, LoginInv, LoginFacts, TypeOK, Request, Row, Go, Over,
       limiter, record
  <2>5. VisitInv'
    BY <1>6 DEF Insert, VisitInv, VisitLabel, UsedInv, RowsInv, LoginInv, LoginFacts,
       LoginLabel, TypeOK, Request, Row, Go, Over, limiter, record
  <2>6. SignedOutStaysOut'
    BY <1>6 DEF Insert, SignedOutStaysOut
  <2>7. SessionsLast'
    BY <1>6 DEF Insert, SessionsLast, Kept, Bears, LoginInv, LoginFacts, VisitInv, RowsInv,
       UsedInv, TypeOK, Request, Row, Go, Over, limiter, record
  <2> QED
    BY <2>1, <2>2, <2>3, <2>4, <2>5, <2>6, <2>7
<1>7. ASSUME NEW th \in Thread, Purge(th)
      PROVE  SessionInv'
  <2>1. RowsInv'
    BY <1>7 DEF Purge, RowsInv, UsedInv, LoginInv, LoginFacts, Bears, TypeOK, Request, Row, Go,
       Over, limiter, record
  <2>2. UsedInv'
    BY <1>7 DEF Purge, UsedInv, record
  <2>3. LoginInv'
    BY <1>7 DEF Purge, LoginInv, LoginFacts, LoginLabel, Bears, Kept, UsedInv, RowsInv,
       BearsInv, VisitInv, VisitLabel, TypeOK, Request, Row, Go, Over, limiter, record
  <2>4. BearsInv'
    BY <1>7 DEF Purge, BearsInv, Bears, LoginInv, LoginFacts, TypeOK, Request, Row, Go, Over,
       limiter, record
  <2>5. VisitInv'
    BY <1>7 DEF Purge, VisitInv, VisitLabel, UsedInv, RowsInv, LoginInv, LoginFacts, LoginLabel,
       TypeOK, Request, Row, Go, Over, limiter, record
  <2>6. SignedOutStaysOut'
    BY <1>7 DEF Purge, SignedOutStaysOut, VisitInv, LoginInv, LoginFacts, LoginLabel, TypeOK,
       Request, Row, Go, Over, limiter, record
  <2>7. SessionsLast'
    BY <1>7 DEF Purge, SessionsLast, Kept, Bears, LoginInv, LoginFacts, VisitInv, RowsInv,
       UsedInv, TypeOK, Request, Row, Go, Over, limiter, record
  <2> QED
    BY <2>1, <2>2, <2>3, <2>4, <2>5, <2>6, <2>7
<1>8. ASSUME NEW th \in Thread, NEW op \in {"page", "logout", "revoke"},
             NEW t \in Token \union {"none"}, NEW csrf \in BOOLEAN, Visit(th, op, t, csrf)
      PROVE  SessionInv'
  <2>1. RowsInv'
    BY <1>8 DEF Visit, Arrive, RowsInv, store, record
  <2>2. UsedInv'
    BY <1>8 DEF Visit, Arrive, UsedInv, record
  <2>3. LoginInv'
    BY <1>8 DEF Visit, Arrive, Blank, Dead, LoginInv, LoginFacts, LoginLabel, Bears, Kept,
       UsedInv, RowsInv, BearsInv, VisitInv, VisitLabel, TypeOK, Request, Row, Go, Over,
       limiter, store, record
  <2>4. BearsInv'
    BY <1>8 DEF Visit, Arrive, Blank, Dead, BearsInv, Bears, LoginInv, LoginFacts, TypeOK,
       Request, Row, Go, Over, limiter, store, record
  <2>5. VisitInv'
    BY <1>8 DEF Visit, Arrive, Blank, Dead, VisitInv, VisitLabel, UsedInv, RowsInv, LoginInv,
       LoginFacts, LoginLabel, TypeOK, Request, Row, Go, Over, limiter, store, record
  <2>6. SignedOutStaysOut'
    BY <1>8 DEF Visit, Arrive, Blank, Dead, SignedOutStaysOut, VisitInv, LoginInv, LoginFacts,
       LoginLabel, TypeOK, Request, Row, Go, Over, limiter, store, record
  <2>7. SessionsLast'
    BY <1>8 DEF Visit, Arrive, SessionsLast, store, record
  <2> QED
    BY <2>1, <2>2, <2>3, <2>4, <2>5, <2>6, <2>7
<1>9. ASSUME NEW th \in Thread, Lookup(th)
      PROVE  SessionInv'
  <2>1. pc' = [pc EXCEPT ![th] = pc'[th]] /\ pc'[th] \in {"judge", "answer", "delete"}
    BY <1>9 DEF Lookup, WithoutSession, Go, TypeOK
  <2>2. /\ pc[th] = "lookup" /\ \A f \in {"token", "seen", "done", "dead", "as"} : req'[th][f] = req[th][f]
       /\ \A ot \in Thread : ot # th => req'[ot] = req[ot]
       /\ UNCHANGED <<now, secret, sessions, validTo, issued, ended>>
    BY <1>9 DEF Lookup, store, record, TypeOK, Request
  <2>3. RowsInv'
    BY <1>9, <2>1, <2>2 DEF Lookup, RowsInv, store, record
  <2>4. UsedInv'
    BY <1>9, <2>1, <2>2 DEF Lookup, UsedInv, record
  <2>5. LoginInv'
    <3>1. ASSUME NEW u \in Thread, u # th
          PROVE  LoginFacts(u)'
      BY <2>1, <2>2, <3>1 DEF LoginInv, LoginFacts, Bears, Kept, TypeOK, Over
    <3>2. LoginFacts(th)'
      <4>1. req'[th].done = FALSE
        BY <1>9 DEF Lookup, LoginInv, LoginFacts, TypeOK, Request
      <4>2. req'[th].token = req[th].token /\ req'[th].seen = req[th].seen
        BY <2>2
      <4>3. ~Bears(th)'
        BY <2>1, <4>1 DEF Bears
      <4>4. pc'[th] \notin LoginLabel \union {"idle"}
        BY <2>1 DEF LoginLabel
      <4>5. LoginFacts(th) /\ now' = now /\ validTo' = validTo
        BY <1>9 DEF LoginInv, Lookup, record
      <4>6. req'[th].seen <= now'
        BY <4>2, <4>5 DEF LoginFacts
      <4>7. req'[th].token # "none" => validTo'[req'[th].token] # 0
        BY <4>2, <4>5 DEF LoginFacts
      <4> QED
        BY <4>1, <4>3, <4>4, <4>6, <4>7 DEF LoginFacts, LoginLabel, Bears
    <3> QED
      BY <3>1, <3>2 DEF LoginInv
  <2>6. BearsInv'
    BY <1>9, <2>1, <2>2 DEF Lookup, WithoutSession, Matches, BearsInv, Bears, LoginInv,
       LoginFacts, TypeOK, Request, Row, Go, Over, limiter, store, record
  <2>7. VisitInv'
    BY <1>9, <2>1, <2>2 DEF Lookup, WithoutSession, Matches, VisitInv, VisitLabel, UsedInv,
       RowsInv, LoginInv, LoginFacts, LoginLabel, TypeOK, Request, Row, Go, Over, limiter,
       store, record
  <2>8. SignedOutStaysOut'
    BY <1>9, <2>1, <2>2 DEF Lookup, WithoutSession, Matches, SignedOutStaysOut, VisitInv,
       LoginInv, LoginFacts, LoginLabel, TypeOK, Request, Row, Go, Over, limiter, store, record
  <2>9. SessionsLast'
    BY <1>9, <2>1, <2>2 DEF Lookup, SessionsLast, store, record
  <2> QED
    BY <2>3, <2>4, <2>5, <2>6, <2>7, <2>8, <2>9
<1>10. ASSUME NEW th \in Thread, Judge(th)
       PROVE  SessionInv'
  <2>1. pc' = [pc EXCEPT ![th] = pc'[th]] /\ pc'[th] \in {"drop", "answer", "delete", "wipe"}
    BY <1>10 DEF Judge, Go, TypeOK
  <2>2. RowsInv'
    BY <1>10, <2>1 DEF Judge, RowsInv, store, record
  <2>3. UsedInv'
    BY <1>10, <2>1 DEF Judge, UsedInv, record
  <2>4. LoginInv'
    BY <1>10, <2>1 DEF Judge, LoginInv, LoginFacts, LoginLabel, Bears, Kept, UsedInv, RowsInv,
       BearsInv, VisitInv, VisitLabel, TypeOK, Request, Row, Go, Over, limiter, store, record,
       bounds
  <2>5. BearsInv'
    <3>1. ~Bears(th)'
      BY <1>10, <2>1 DEF Judge, Bears, LoginInv, LoginFacts, TypeOK, Request
    <3>2. \A ot \in Thread \ {th} : pc'[ot] = pc[ot] /\ req'[ot] = req[ot]
      BY <1>10, <2>1 DEF Judge, TypeOK
    <3> QED
      BY <3>1, <3>2 DEF BearsInv, Bears
  <2>6. VisitInv'
    BY <1>10, <2>1 DEF Judge, VisitInv, VisitLabel, UsedInv, RowsInv, LoginInv, LoginFacts,
       LoginLabel, TypeOK, Request, Row, Go, Over, limiter, store, record, bounds
  <2>7. SignedOutStaysOut'
    BY <1>10, <2>1 DEF Judge, SignedOutStaysOut, VisitInv, LoginInv, LoginFacts, LoginLabel,
       TypeOK, Request, Row, Go, Over, limiter, store, record, bounds
  <2>8. SessionsLast'
    BY <1>10, <2>1 DEF Judge, SessionsLast, store, record
  <2> QED
    BY <2>2, <2>3, <2>4, <2>5, <2>6, <2>7, <2>8
<1>11. ASSUME NEW th \in Thread, Drop(th)
       PROVE  SessionInv'
  <2>1. RowsInv'
    BY <1>11 DEF Drop, WithoutSession, Unmatched, Matches, RowsInv, UsedInv, LoginInv,
       LoginFacts, Bears, TypeOK, Request, Row, Go, Over, limiter, record
  <2>2. UsedInv'
    BY <1>11 DEF Drop, UsedInv, record
  <2>3. LoginInv'
    BY <1>11 DEF Drop, WithoutSession, Unmatched, Matches, LoginInv, LoginFacts, LoginLabel,
       Bears, Kept, UsedInv, RowsInv, BearsInv, VisitInv, VisitLabel, TypeOK, Request, Row, Go,
       Over, limiter, record
  <2>4. BearsInv'
    BY <1>11 DEF Drop, WithoutSession, Unmatched, Matches, BearsInv, Bears, LoginInv,
       LoginFacts, TypeOK, Request, Row, Go, Over, limiter, record
  <2>5. VisitInv'
    BY <1>11 DEF Drop, WithoutSession, Unmatched, Matches, VisitInv, VisitLabel, UsedInv,
       RowsInv, LoginInv, LoginFacts, LoginLabel, TypeOK, Request, Row, Go, Over, limiter,
       record
  <2>6. SignedOutStaysOut'
    BY <1>11 DEF Drop, SignedOutStaysOut
  <2>7. SessionsLast'
    BY <1>11 DEF Drop, WithoutSession, Unmatched, Matches, SessionsLast, Kept, Bears, LoginInv,
       LoginFacts, VisitInv, RowsInv, UsedInv, TypeOK, Request, Row, Go, Over, limiter, record
  <2> QED
    BY <2>1, <2>2, <2>3, <2>4, <2>5, <2>6, <2>7
<1>12. ASSUME NEW th \in Thread, Delete(th)
       PROVE  SessionInv'
  <2>1. RowsInv'
    BY <1>12 DEF Delete, Unmatched, Matches, RowsInv, UsedInv, LoginInv, LoginFacts, Bears,
       TypeOK, Request, Row, Go, Over, limiter
  <2>2. UsedInv'
    BY <1>12 DEF Delete, Unmatched, Matches, UsedInv, LoginInv, LoginFacts, Bears, RowsInv,
       VisitInv, VisitLabel, TypeOK, Request, Row, Go, Over, limiter
  <2>3. LoginInv'
    BY <1>12 DEF Delete, Unmatched, Matches, LoginInv, LoginFacts, LoginLabel, Bears, Kept,
       UsedInv, RowsInv, BearsInv, VisitInv, VisitLabel, TypeOK, Request, Row, Go, Over, limiter
  <2>4. BearsInv'
    BY <1>12 DEF Delete, Unmatched, Matches, BearsInv, Bears, LoginInv, LoginFacts, TypeOK,
       Request, Row, Go, Over, limiter
  <2>5. VisitInv'
    BY <1>12 DEF Delete, Unmatched, Matches, VisitInv, VisitLabel, UsedInv, RowsInv, LoginInv,
       LoginFacts, LoginLabel, TypeOK, Request, Row, Go, Over, limiter
  <2>6. SignedOutStaysOut'
    BY <1>12 DEF Delete, SignedOutStaysOut
  <2>7. SessionsLast'
    BY <1>12 DEF Delete, Unmatched, Matches, SessionsLast, Kept, Bears, LoginInv, LoginFacts,
       VisitInv, RowsInv, UsedInv, TypeOK, Request, Row, Go, Over, limiter
  <2> QED
    BY <2>1, <2>2, <2>3, <2>4, <2>5, <2>6, <2>7
<1>13. ASSUME NEW th \in Thread, Wipe(th)
       PROVE  SessionInv'
  <2>1. RowsInv'
    BY <1>13 DEF Wipe, RowsInv, UsedInv, LoginInv, LoginFacts, Bears, TypeOK, Request, Row, Go,
       Over, limiter
  <2>2. UsedInv'
    BY <1>13 DEF Wipe, UsedInv, LoginInv, LoginFacts, Bears, RowsInv, VisitInv, VisitLabel,
       TypeOK, Request, Row, Go, Over, limiter
  <2>3. LoginInv'
    BY <1>13 DEF Wipe, LoginInv, LoginFacts, LoginLabel, Bears, Kept, UsedInv, RowsInv,
       BearsInv, VisitInv, VisitLabel, TypeOK, Request, Row, Go, Over, limiter
  <2>4. BearsInv'
    BY <1>13 DEF Wipe, BearsInv, Bears, LoginInv, LoginFacts, TypeOK, Request, Row, Go, Over,
       limiter
  <2>5. VisitInv'
    BY <1>13 DEF Wipe, VisitInv, VisitLabel, UsedInv, RowsInv, LoginInv, LoginFacts, LoginLabel,
       TypeOK, Request, Row, Go, Over, limiter
  <2>6. SignedOutStaysOut'
    BY <1>13 DEF Wipe, SignedOutStaysOut
  <2>7. SessionsLast'
    BY <1>13 DEF Wipe, SessionsLast, Kept, Bears, LoginInv, LoginFacts, VisitInv, RowsInv,
       UsedInv, TypeOK, Request, Row, Go, Over, limiter
  <2> QED
    BY <2>1, <2>2, <2>3, <2>4, <2>5, <2>6, <2>7
<1>14. ASSUME NEW th \in Thread, Answer(th)
       PROVE  SessionInv'
  <2>1. RowsInv'
    BY <1>14 DEF Answer, RowsInv, store
  <2>2. UsedInv'
    BY <1>14 DEF Answer, Blank, UsedInv, LoginInv, LoginFacts, Bears, RowsInv, VisitInv,
       VisitLabel, TypeOK, Request, Row, Go, Over, limiter, store, bounds
  <2>3. LoginInv'
    BY <1>14 DEF Answer, Blank, LoginInv, LoginFacts, LoginLabel, Bears, Kept, UsedInv, RowsInv,
       BearsInv, VisitInv, VisitLabel, TypeOK, Request, Row, Go, Over, limiter, store, bounds
  <2>4. BearsInv'
    BY <1>14 DEF Answer, Blank, BearsInv, Bears, LoginInv, LoginFacts, TypeOK, Request, Row, Go,
       Over, limiter, store, bounds
  <2>5. VisitInv'
    BY <1>14 DEF Answer, Blank, VisitInv, VisitLabel, UsedInv, RowsInv, LoginInv, LoginFacts,
       LoginLabel, TypeOK, Request, Row, Go, Over, limiter, store, bounds
  <2>6. SignedOutStaysOut'
    BY <1>14 DEF Answer, Blank, SignedOutStaysOut, VisitInv, LoginInv, LoginFacts, LoginLabel,
       TypeOK, Request, Row, Go, Over, limiter, store, bounds
  <2>7. SessionsLast'
    BY <1>14 DEF Answer, Blank, SessionsLast, Kept, Bears, LoginInv, LoginFacts, VisitInv,
       RowsInv, UsedInv, TypeOK, Request, Row, Go, Over, limiter, store, bounds
  <2> QED
    BY <2>1, <2>2, <2>3, <2>4, <2>5, <2>6, <2>7
<1>15. CASE Tick
  <2>1. RowsInv'
    BY <1>15 DEF Tick, RowsInv, store, record
  <2>2. UsedInv'
    BY <1>15 DEF Tick, UsedInv, record
  <2>3. LoginInv'
    BY <1>15 DEF Tick, LoginInv, LoginFacts, LoginLabel, Bears, Kept, UsedInv, RowsInv,
       BearsInv, VisitInv, VisitLabel, TypeOK, Request, Row, Over, limiter, store, record,
       bounds
  <2>4. BearsInv'
    BY <1>15 DEF Tick, BearsInv, Bears
  <2>5. VisitInv'
    BY <1>15 DEF Tick, VisitInv, VisitLabel, UsedInv, RowsInv, LoginInv, LoginFacts, LoginLabel,
       TypeOK, Request, Row, Over, limiter, store, record, bounds
  <2>6. SignedOutStaysOut'
    BY <1>15 DEF Tick, SignedOutStaysOut
  <2>7. SessionsLast'
    BY <1>15 DEF Tick, SessionsLast, Kept, Bears, LoginInv, LoginFacts, VisitInv, RowsInv,
       UsedInv, TypeOK, Request, Row, Over, limiter, store, record, bounds
  <2> QED
    BY <2>1, <2>2, <2>3, <2>4, <2>5, <2>6, <2>7
<1>16. CASE Restart
  <2>1. RowsInv'
    BY <1>16 DEF Restart, Blank, RowsInv, UsedInv, LoginInv, LoginFacts, Bears, TypeOK, Request,
       Row, Over
  <2>2. UsedInv'
    BY <1>16 DEF Restart, Blank, UsedInv, LoginInv, LoginFacts, Bears, RowsInv, VisitInv,
       VisitLabel, TypeOK, Request, Row, Over
  <2>3. LoginInv'
    BY <1>16 DEF Restart, Blank, LoginInv, LoginFacts, LoginLabel, Bears, Kept, UsedInv,
       RowsInv, BearsInv, VisitInv, VisitLabel, TypeOK, Request, Row, Over
  <2>4. BearsInv'
    BY <1>16 DEF Restart, Blank, BearsInv, Bears, LoginInv, LoginFacts, TypeOK, Request, Row,
       Over
  <2>5. VisitInv'
    BY <1>16 DEF Restart, Blank, VisitInv, VisitLabel, UsedInv, RowsInv, LoginInv, LoginFacts,
       LoginLabel, TypeOK, Request, Row, Over
  <2>6. SignedOutStaysOut'
    BY <1>16 DEF Restart, Blank, SignedOutStaysOut, VisitInv, LoginInv, LoginFacts, LoginLabel,
       TypeOK, Request, Row, Over
  <2>7. SessionsLast'
    BY <1>16 DEF Restart, Blank, SessionsLast, Kept, Bears, LoginInv, LoginFacts, VisitInv,
       RowsInv, UsedInv, TypeOK, Request, Row, Over
  <2> QED
    BY <2>1, <2>2, <2>3, <2>4, <2>5, <2>6, <2>7
<1>17. CASE UNCHANGED vars
  <2>1. RowsInv'
    BY <1>17 DEF vars, RowsInv, store, record
  <2>2. UsedInv'
    BY <1>17 DEF vars, UsedInv, record
  <2>3. LoginInv'
    BY <1>17 DEF vars, LoginInv, LoginFacts, LoginLabel, Bears, Kept, Over, store, record
  <2>4. BearsInv'
    BY <1>17 DEF vars, BearsInv, Bears
  <2>5. VisitInv'
    BY <1>17 DEF vars, VisitInv, VisitLabel, Over, record
  <2>6. SignedOutStaysOut'
    BY <1>17 DEF vars, SignedOutStaysOut
  <2>7. SessionsLast'
    BY <1>17 DEF vars, SessionsLast, store, record
  <2> QED
    BY <2>1, <2>2, <2>3, <2>4, <2>5, <2>6, <2>7
<1> QED
  BY <1>1, <1>2, <1>3, <1>4, <1>5, <1>6, <1>7, <1>8, <1>9, <1>10, <1>11, <1>12, <1>13,
     <1>14, <1>15, <1>16, <1>17 DEF Next, Login, Session

------------------------------------------------------------------------------
(* The limiter *)

LEMMA InitFull == Init => TimesOK /\ FullIsLocked
BY PanelConstants DEF Init, TimesOK, FullIsLocked

\* Only check, the two registrations and a restart touch the limiter.
LEMMA StepFull ==
  ASSUME TypeOK, LoginInv, FullIsLocked, [Next]_vars
  PROVE  FullIsLocked'
<1> USE PanelConstants
<1>1. ASSUME NEW th \in Thread, Check(th)
      PROVE  FullIsLocked'
  <2>1. req[th].client \in Client
    BY <1>1 DEF Check, LoginInv, LoginFacts
  <2> DEFINE d == req[th].client
  <2>2. \/ UNCHANGED <<attempts, lockedUntil>>
        \/ /\ lockedUntil' = [lockedUntil EXCEPT ![d] = 0]
           /\ attempts' = [attempts EXCEPT ![d] = << >>]
    BY <1>1 DEF Check, LiftServed
  <2>3. Len(<< >>) < MaxAttempts
    OBVIOUS
  <2> QED
    BY <2>1, <2>2, <2>3 DEF FullIsLocked, TypeOK
<1>2. ASSUME NEW th \in Thread, RegisterFailure(th)
      PROVE  FullIsLocked'
  <2>1. req[th].client \in Client /\ req[th].seen + Lockout # 0
    BY <1>2 DEF RegisterFailure, LoginInv, LoginFacts, TypeOK, Request
  <2> SUFFICES ASSUME NEW d \in Client, Len(attempts'[d]) >= MaxAttempts
               PROVE  lockedUntil'[d] # 0
    BY DEF FullIsLocked
  <2> DEFINE e == req[th].client
             times == Append(Recent(attempts[e], req[th].seen), req[th].seen)
  <2>2. \/ attempts' = [k \in Client |-> << >>]
        \/ attempts' = [attempts EXCEPT ![e] = times]
    BY <1>2 DEF RegisterFailure
  <2>3. LockWhenFull(e, req[th].seen, times)
    BY <1>2 DEF RegisterFailure
  <2>4. DOMAIN attempts = Client /\ lockedUntil \in [Client -> Nat]
    BY DEF TypeOK
  <2> HIDE DEF times
  <2>5. attempts'[d] = IF d = e THEN times ELSE attempts[d]
    BY <2>2, <2>4
  <2>6. CASE d = e
    BY <2>1, <2>3, <2>4, <2>5, <2>6 DEF LockWhenFull
  <2>7. CASE d # e
    <3>1. lockedUntil'[d] = lockedUntil[d]
      BY <2>3, <2>4, <2>7 DEF LockWhenFull
    <3> QED
      BY <2>5, <2>7, <3>1 DEF FullIsLocked
  <2> QED
    BY <2>6, <2>7
<1>3. ASSUME NEW th \in Thread, NEW t \in Token, RegisterSuccess(th, t)
      PROVE  FullIsLocked'
  BY <1>3 DEF RegisterSuccess, FullIsLocked, TypeOK
<1>4. CASE Restart
  BY <1>4 DEF Restart, FullIsLocked
<1>5. CASE UNCHANGED limiter
  BY <1>5 DEF limiter, FullIsLocked
<1> QED
  BY <1>1, <1>2, <1>3, <1>4, <1>5
     DEF Next, Login, Session, LoginSubmit, Arrive, Verify, Insert, Purge, Visit, Lookup, Judge,
         Drop, Delete, Wipe, Answer, Tick, vars

\* The limiter's lists are sequences of clock readings: two actions write other than << >>.
LEMMA StepTimes ==
  ASSUME TypeOK, LoginInv, TimesOK, [Next]_vars
  PROVE  TimesOK'
<1> SUFFICES ASSUME NEW c \in Client
             PROVE  attempts'[c] \in Seq(Nat)
  BY DEF TimesOK
<1>0. attempts[c] \in Seq(Nat) /\ << >> \in Seq(Nat)
  BY DEF TimesOK
<1>1. ASSUME NEW th \in Thread, RegisterFailure(th)
      PROVE  attempts'[c] \in Seq(Nat)
  <2> DEFINE kept == Recent(attempts[c], req[th].seen)
  <2>1. req[th].client \in Client /\ req[th].seen \in Nat
    BY <1>1 DEF RegisterFailure, LoginInv, LoginFacts, TypeOK, Request
  <2>2. kept \in Seq(Nat)
    BY <1>0, <2>1, RecentShrinks
  <2>3. Append(kept, req[th].seen) \in Seq(Nat)
    <3> HIDE DEF kept
    <3> QED
      BY <2>1, <2>2
  <2>4. attempts'[c] \in {attempts[c], << >>, Append(kept, req[th].seen)}
    BY <1>1, <2>1 DEF RegisterFailure, TypeOK
  <2> QED
    BY <1>0, <2>3, <2>4
<1>2. ASSUME \/ UNCHANGED limiter
             \/ \E d \in Client : attempts' = [attempts EXCEPT ![d] = << >>]
             \/ attempts' = [d \in Client |-> << >>]
      PROVE  attempts'[c] \in {attempts[c], << >>}
  BY <1>2 DEF limiter, TypeOK
<1>3. ASSUME NEW th \in Thread, Check(th)
      PROVE  \/ UNCHANGED limiter
             \/ \E d \in Client : attempts' = [attempts EXCEPT ![d] = << >>]
  <2>1. req[th].client \in Client
    BY <1>3 DEF Check, LoginInv, LoginFacts
  <2> QED
    BY <1>3, <2>1 DEF Check, LiftServed, limiter
<1>4. ASSUME NEW th \in Thread, NEW t \in Token, RegisterSuccess(th, t)
      PROVE  \E d \in Client : attempts' = [attempts EXCEPT ![d] = << >>]
  <2>1. req[th].client \in Client
    BY <1>4 DEF RegisterSuccess, LoginInv, LoginFacts
  <2> QED
    BY <1>4, <2>1 DEF RegisterSuccess
<1>5. CASE UNCHANGED limiter
  BY <1>0, <1>2, <1>5
<1>6. CASE ~UNCHANGED limiter
  BY <1>0, <1>1, <1>2, <1>3, <1>4, <1>6
     DEF Next, Login, Session, LoginSubmit, Arrive, Verify, Insert, Purge, Visit, Lookup, Judge,
         Drop, Delete, Wipe, Answer, Tick, Restart, vars
<1> QED
  BY <1>5, <1>6

\* Three steps write a lockout; check drops one only once it is over.
LEMMA StepHolds ==
  ASSUME TypeOK, LoginInv, [Next]_vars, NEW c \in Client,
         lockedUntil[c] > now, lockedUntil'[c] <= now
  PROVE  \/ \E th \in Thread : SignsIn(th, c) \/ ComesLate(th, c)
         \/ Restart
<1> USE PanelConstants
<1>1. now \in Nat /\ lockedUntil[c] \in Nat /\ lockedUntil'[c] # lockedUntil[c]
  BY DEF TypeOK
<1>2. ~UNCHANGED limiter
  BY <1>1 DEF limiter
<1>3. ASSUME NEW th \in Thread, Check(th)
      PROVE  FALSE
  <2>1. req[th].seen <= now /\ req[th].seen \in Nat
    BY DEF LoginInv, LoginFacts, TypeOK, Request
  <2>2. lockedUntil \in [Client -> Nat]
    BY DEF TypeOK
  <2>3. ~Locked(req[th].client, req[th].seen) /\ LiftServed(req[th].client)
    BY <1>1, <1>3 DEF Check
  <2>4. req[th].client = c
    BY <1>1, <2>2, <2>3 DEF LiftServed
  <2> QED
    BY <1>1, <2>1, <2>3, <2>4 DEF Locked
<1>4. ASSUME NEW th \in Thread, RegisterFailure(th)
      PROVE  ComesLate(th, c)
  <2>1. /\ pc[th] = "miss" /\ pc'[th] = "answer"
        /\ req[th].client = c /\ lockedUntil'[c] = req[th].seen + Lockout
    BY <1>1, <1>4 DEF RegisterFailure, LockWhenFull, Go, TypeOK
  <2> QED
    BY <2>1 DEF ComesLate
<1>5. ASSUME NEW th \in Thread, NEW t \in Token, RegisterSuccess(th, t)
      PROVE  SignsIn(th, c)
  BY <1>1, <1>5 DEF RegisterSuccess, Go, TypeOK, SignsIn
<1> QED
  BY <1>2, <1>3, <1>4, <1>5
     DEF Next, Login, Session, LoginSubmit, Arrive, Verify, Insert, Purge, Visit, Lookup, Judge,
         Drop, Delete, Wipe, Answer, Tick, vars

------------------------------------------------------------------------------
(* How many failures count *)

\* The threads that are past check for a client and can still add a failure.
Late(c) == {th \in Thread : pc[th] \in {"verify", "hit", "miss"} /\ req[th].client = c}

\* FailuresBounded with what those threads can add.  A thread joins them while fewer than
\* MaxAttempts failures count, and leaves them with the failure it adds.
CountedInv ==
  \A c \in Client :
    Len(attempts[c]) + Cardinality(Late(c)) <= MaxAttempts - 1 + Cardinality(Thread)

LEMMA LateCounts ==
  ASSUME NEW S, S \subseteq Thread
  PROVE  /\ IsFiniteSet(S) /\ Cardinality(S) \in Nat /\ Cardinality(Thread) \in Nat
         /\ Cardinality(S) <= Cardinality(Thread)
<1>1. IsFiniteSet(Thread) /\ S \in SUBSET Thread
  BY PanelConstants
<1> QED
  BY <1>1, FS_Subset, FS_CardinalityType

LEMMA InitCounted == Init => CountedInv
<1> SUFFICES ASSUME Init, NEW c \in Client
             PROVE  Len(attempts[c]) + Cardinality(Late(c)) <= MaxAttempts - 1 + Cardinality(Thread)
  BY DEF CountedInv
<1>1. Len(attempts[c]) = 0
  BY DEF Init
<1>2. Late(c) \subseteq Thread
  BY DEF Late
<1> QED
  BY <1>1, <1>2, LateCounts, PanelConstants

\* A client with fewer failures than the limit is within the bound whoever is late.
LEMMA FewAreCounted ==
  ASSUME NEW c \in Client, Len(attempts'[c]) \in Nat, Len(attempts'[c]) <= MaxAttempts - 1
  PROVE  Len(attempts'[c]) + Cardinality(Late(c)') <= MaxAttempts - 1 + Cardinality(Thread)
<1>1. Late(c)' \subseteq Thread
  BY DEF Late
<1> QED
  BY <1>1, LateCounts, PanelConstants

\* No failure more and nobody late who was not.
LEMMA FewerAreCounted ==
  ASSUME CountedInv, NEW c \in Client, attempts[c] \in Seq(Nat), attempts'[c] \in Seq(Nat),
         Len(attempts'[c]) <= Len(attempts[c]), Late(c)' \subseteq Late(c)
  PROVE  Len(attempts'[c]) + Cardinality(Late(c)') <= MaxAttempts - 1 + Cardinality(Thread)
<1>1. Late(c) \subseteq Thread
  BY DEF Late
<1>2. IsFiniteSet(Late(c)) /\ Cardinality(Late(c)) \in Nat /\ Cardinality(Thread) \in Nat
  BY <1>1, LateCounts
<1>3. Cardinality(Late(c)') <= Cardinality(Late(c)) /\ Cardinality(Late(c)') \in Nat
  BY <1>2, FS_Subset, FS_CardinalityType
<1>4. Len(attempts[c]) + Cardinality(Late(c)) <= MaxAttempts - 1 + Cardinality(Thread)
  BY DEF CountedInv
<1>5. Len(attempts[c]) \in Nat /\ Len(attempts'[c]) \in Nat
  OBVIOUS
<1> QED
  BY <1>2, <1>3, <1>4, <1>5, PanelConstants

LEMMA StepCounted ==
  ASSUME TypeOK, TimesOK, TimesOK', LoginInv, FullIsLocked, CountedInv, [Next]_vars
  PROVE  CountedInv'
<1> USE PanelConstants
<1> DEFINE Bounded(c) ==
             Len(attempts'[c]) + Cardinality(Late(c)') <= MaxAttempts - 1 + Cardinality(Thread)
<1> SUFFICES ASSUME NEW c \in Client
             PROVE  Bounded(c)
  BY DEF CountedInv
<1>0. attempts[c] \in Seq(Nat) /\ attempts'[c] \in Seq(Nat)
  BY DEF TimesOK
<1>a. /\ Len(attempts[c]) \in Nat /\ Len(attempts'[c]) \in Nat
      /\ Len(<< >>) = 0 /\ 0 <= MaxAttempts - 1
  BY <1>0
<1>1. ASSUME NEW th \in Thread, Check(th)
      PROVE  Bounded(c)
  <2>1. CASE req[th].client = c /\ ~Locked(c, req[th].seen)
    <3>1. CASE lockedUntil[c] # 0
      <4>1. attempts'[c] = << >>
        BY <1>1, <2>1, <3>1 DEF Check, LiftServed, TypeOK
      <4> QED
        BY <1>a, <4>1, FewAreCounted
    <3>2. CASE lockedUntil[c] = 0
      <4>1. attempts' = attempts
        BY <1>1, <2>1, <3>2 DEF Check, LiftServed
      <4>2. ~(Len(attempts[c]) >= MaxAttempts)
        BY <3>2 DEF FullIsLocked
      <4> QED
        BY <1>a, <4>1, <4>2, FewAreCounted
    <3> QED
      BY <3>1, <3>2
  <2>2. CASE req[th].client # c \/ Locked(c, req[th].seen)
    <3>1. attempts'[c] = attempts[c]
      BY <1>1, <2>2 DEF Check, LiftServed, TypeOK
    <3>2. Late(c)' \subseteq Late(c)
      BY <1>1, <2>2 DEF Check, Late, Go, TypeOK, Request
    <3> QED
      BY <1>0, <1>a, <3>1, <3>2, FewerAreCounted
  <2> QED
    BY <2>1, <2>2
<1>2. ASSUME NEW th \in Thread, RegisterFailure(th)
      PROVE  Bounded(c)
  <2>1. Late(c)' = Late(c) \ {th}
    BY <1>2 DEF RegisterFailure, Late, Go, TypeOK
  <2>2. CASE attempts' = [d \in Client |-> << >>]
    <3>1. attempts'[c] = << >>
      BY <2>2
    <3> QED
      BY <1>a, <3>1, FewAreCounted
  <2>3. CASE req[th].client = c /\ attempts' # [d \in Client |-> << >>]
    <3> DEFINE seen == req[th].seen
               kept == Recent(attempts[c], seen)
    <3>1. kept \in Seq(Nat) /\ Len(kept) <= Len(attempts[c]) /\ seen \in Nat
      BY <1>0, RecentShrinks DEF TypeOK, Request
    <3>2. attempts'[c] = Append(kept, seen)
      BY <1>2, <2>3 DEF RegisterFailure, TypeOK
    <3>3. Len(attempts'[c]) <= Len(attempts[c]) + 1
      <4> HIDE DEF kept, seen
      <4> QED
        BY <1>a, <3>1, <3>2
    <3>4. th \in Late(c)
      BY <1>2, <2>3 DEF RegisterFailure, Late
    <3>5. Late(c) \subseteq Thread
      BY DEF Late
    <3>6. /\ IsFiniteSet(Late(c)) /\ Cardinality(Late(c)) \in Nat
          /\ Cardinality(Thread) \in Nat
      BY <3>5, LateCounts
    <3>7. Cardinality(Late(c)') = Cardinality(Late(c)) - 1
      BY <2>1, <3>4, <3>6, FS_RemoveElement
    <3>8. Len(attempts[c]) + Cardinality(Late(c)) <= MaxAttempts - 1 + Cardinality(Thread)
      BY DEF CountedInv
    <3> QED
      BY <1>a, <3>3, <3>6, <3>7, <3>8
  <2>4. CASE req[th].client # c /\ attempts' # [d \in Client |-> << >>]
    <3>1. attempts'[c] = attempts[c]
      BY <1>2, <2>4 DEF RegisterFailure, TypeOK
    <3>2. Late(c)' \subseteq Late(c)
      BY <2>1
    <3>3. Len(attempts'[c]) <= Len(attempts[c])
      BY <1>a, <3>1
    <3> QED
      BY <1>0, <3>2, <3>3, FewerAreCounted
  <2> QED
    BY <2>2, <2>3, <2>4
<1>3. ASSUME NEW th \in Thread, NEW t \in Token, RegisterSuccess(th, t)
      PROVE  Bounded(c)
  <2>1. Late(c)' \subseteq Late(c)
    BY <1>3 DEF RegisterSuccess, Late, Go, TypeOK, Request
  <2>2. attempts'[c] \in {attempts[c], << >>}
    BY <1>3 DEF RegisterSuccess, TypeOK
  <2> QED
    BY <1>0, <1>a, <2>1, <2>2, FewerAreCounted
<1>4. CASE Restart
  <2>1. attempts'[c] = << >>
    BY <1>4 DEF Restart
  <2> QED
    BY <1>a, <2>1, FewAreCounted
<1>5. ASSUME NEW th \in Thread, UNCHANGED limiter,
             pc' = [pc EXCEPT ![th] = pc'[th]],
             pc'[th] \notin {"verify", "hit", "miss"} \/ pc[th] = "verify",
             req' = [req EXCEPT ![th] = req'[th]],
             req'[th].client = req[th].client \/ pc'[th] \notin {"verify", "hit", "miss"}
      PROVE  Bounded(c)
  <2>1. Late(c)' \subseteq Late(c)
    BY <1>5 DEF Late, TypeOK
  <2> QED
    BY <1>0, <1>a, <1>5, <2>1, FewerAreCounted DEF limiter
<1>6. ASSUME UNCHANGED <<limiter, pc, req>>
      PROVE  Bounded(c)
  <2>1. Late(c)' \subseteq Late(c)
    BY <1>6 DEF Late
  <2> QED
    BY <1>0, <1>a, <1>6, <2>1, FewerAreCounted DEF limiter
<1> HIDE DEF Bounded
<1>7. ASSUME NEW th \in Thread, Login(th)
      PROVE  Bounded(c)
  <2>1. CASE \E d \in Client : LoginSubmit(th, d)
    BY <1>5, <2>1 DEF LoginSubmit, Arrive, Go, TypeOK
  <2>2. CASE Verify(th)
    BY <1>5, <2>2 DEF Verify, Go, TypeOK, Request
  <2>3. CASE Insert(th)
    BY <1>5, <2>3 DEF Insert, Go, TypeOK
  <2>4. CASE Purge(th)
    BY <1>5, <2>4 DEF Purge, Go, TypeOK
  <2> QED
    BY <1>1, <1>2, <1>3, <1>7, <2>1, <2>2, <2>3, <2>4 DEF Login
<1>8. ASSUME NEW th \in Thread, Session(th)
      PROVE  Bounded(c)
  <2>1. CASE \E op \in {"page", "logout", "revoke"}, t \in Token \union {"none"},
                csrf \in BOOLEAN : Visit(th, op, t, csrf)
    BY <1>5, <2>1 DEF Visit, Arrive, Go, TypeOK
  <2>2. CASE Lookup(th)
    BY <1>5, <2>2 DEF Lookup, WithoutSession, Go, TypeOK
  <2>3. CASE Judge(th)
    BY <1>5, <2>3 DEF Judge, Go, TypeOK
  <2>4. CASE Drop(th)
    BY <1>5, <2>4 DEF Drop, WithoutSession, Go, TypeOK
  <2>5. CASE Delete(th)
    BY <1>5, <2>5 DEF Delete, Go, TypeOK
  <2>6. CASE Wipe(th)
    BY <1>5, <2>6 DEF Wipe, Go, TypeOK
  <2>7. CASE Answer(th)
    BY <1>5, <2>7 DEF Answer, Go, TypeOK
  <2> QED
    BY <1>8, <2>1, <2>2, <2>3, <2>4, <2>5, <2>6, <2>7 DEF Session
<1> QED
  BY <1>4, <1>6, <1>7, <1>8 DEF Next, Tick, vars

------------------------------------------------------------------------------
(* Theorems *)

\* The invariant: types, sessions and limiter together.
THEOREM PanelSafe == Spec => [](PanelInv /\ SessionInv)
<1>1. Init => PanelInv /\ SessionInv
  BY InitTyped, InitSession, InitFull DEF PanelInv
<1>2. PanelInv /\ SessionInv /\ [Next]_vars => (PanelInv /\ SessionInv)'
  <2> SUFFICES ASSUME PanelInv, SessionInv, [Next]_vars
               PROVE  PanelInv' /\ SessionInv'
    OBVIOUS
  <2>1. TypeOK /\ TimesOK /\ FullIsLocked /\ LoginInv /\ VisitInv
    BY DEF PanelInv, SessionInv
  <2>2. TypeOK' /\ TimesOK' /\ FullIsLocked'
    BY <2>1, StepTyped, StepTimes, StepFull
  <2>3. SessionInv'
    BY <2>1, StepSession
  <2> QED
    BY <2>2, <2>3 DEF PanelInv
<1> QED
  BY <1>1, <1>2, PTL DEF Spec

\* No request that arrives after its session was over is the administrator's.
THEOREM OverStaysOut == Spec => []SignedOutStaysOut
<1>1. SessionInv => SignedOutStaysOut
  BY DEF SessionInv
<1> QED
  BY <1>1, PanelSafe, PTL

\* A session a browser was given is found until it is ended or over.
THEOREM SessionsStay == Spec => []SessionsLast
<1>1. SessionInv => SessionsLast
  BY DEF SessionInv
<1> QED
  BY <1>1, PanelSafe, PTL

\* auth.py:57-87: a lockout that runs is lifted by a sign-in of its client or a restart
\* only, or by a failure that waited a whole lockout for the limiter's lock.
THEOREM LockoutsHold == Spec => LockHolds
<1>1. PanelInv /\ SessionInv /\ [Next]_vars =>
        [\A c \in Client :
           lockedUntil[c] > now /\ lockedUntil'[c] <= now =>
             \/ \E th \in Thread : SignsIn(th, c) \/ ComesLate(th, c)
             \/ Restart]_vars
  BY StepHolds DEF PanelInv, SessionInv
<1> QED
  BY <1>1, PanelSafe, PTL DEF Spec, LockHolds

\* However many threads guess at once, and however lockouts end and clock readings are
\* stale, no more failures count against a client than the limit less one and one for
\* each thread.
THEOREM FewFailures == Spec => []FailuresBounded
<1>1. Init => CountedInv
  BY InitCounted
<1>2. (PanelInv /\ SessionInv) /\ (PanelInv /\ SessionInv)' /\ CountedInv /\ [Next]_vars => CountedInv'
  BY StepCounted DEF PanelInv, SessionInv
<1>3. PanelInv /\ CountedInv => FailuresBounded
  <2> SUFFICES ASSUME PanelInv, CountedInv, NEW c \in Client
               PROVE  Len(attempts[c]) <= MaxAttempts - 1 + Cardinality(Thread)
    BY DEF FailuresBounded
  <2>1. Len(attempts[c]) \in Nat
    BY DEF PanelInv, TimesOK
  <2>2. Late(c) \subseteq Thread
    BY DEF Late
  <2>3. Len(attempts[c]) + Cardinality(Late(c)) <= MaxAttempts - 1 + Cardinality(Thread)
    BY DEF CountedInv
  <2> QED
    BY <2>1, <2>2, <2>3, LateCounts, PanelConstants
<1> QED
  BY <1>1, <1>2, <1>3, PanelSafe, PTL DEF Spec
==============================================================================
