----------------------------- MODULE LinksProofs ----------------------------
(***************************************************************************)
(* That links which were promised connect when what they depend on is      *)
(* settled, that a stored path stays, and that plain paths survive, for    *)
(* any clients, plain environments and numbers of deployments, operations  *)
(* and failures.                                                           *)
(***************************************************************************)
EXTENDS Links, Induction

-----------------------------------------------------------------------------
(* Paths, from WS_FALLBACK_PATH to the gateway *)

LEMMA OneOrMore ==
  ASSUME NEW n \in Nat, n >= 1
  PROVE  n = 1 \/ n >= 2
OBVIOUS

\* Trim of a sequence is a sequence; if its ends are solid it is the sequence itself.
LEMMA TrimTyped ==
  ASSUME NEW s \in Seq(Nat)
  PROVE  Trim(s) \in Seq(Nat)
<1> DEFINE solid == {i \in DOMAIN s : s[i] # Blank}
<1>1. CASE solid = {}
  BY <1>1 DEF Trim, NoPath
<1>2. CASE solid # {}
  <2>1. DOMAIN s = 1..Len(s) /\ Len(s) \in Nat
    OBVIOUS
  <2>2. solid \in SUBSET Nat /\ solid \in SUBSET (0..Len(s)) /\ solid \in SUBSET (1..Len(s))
    BY <2>1
  <2> HIDE DEF solid
  <2>3. Min(solid) \in solid
    BY <1>2, <2>2, Least DEF Min
  <2>4. Max(solid) \in solid
    <3>1. \E x \in solid : \A y \in solid : x >= y
      BY <1>2, <2>1, <2>2, Greatest
    <3> QED
      BY <3>1 DEF Max
  <2>5. Min(solid) \in 1..Len(s) /\ Max(solid) \in 1..Len(s)
    BY <2>2, <2>3, <2>4
  <2>6. SubSeq(s, Min(solid), Max(solid)) \in Seq(Nat)
    BY <2>1, <2>5
  <2> QED
    BY <1>2, <2>6 DEF Trim, solid
<1> QED
  BY <1>1, <1>2

LEMMA TrimKeeps ==
  ASSUME NEW s \in Seq(Nat), s # << >>, s[1] # Blank, s[Len(s)] # Blank
  PROVE  Trim(s) = s
<1> DEFINE solid == {i \in DOMAIN s : s[i] # Blank}
<1>1. DOMAIN s = 1..Len(s) /\ Len(s) \in Nat /\ Len(s) >= 1
  OBVIOUS
<1>2. 1 \in solid /\ Len(s) \in solid
  BY <1>1
<1>3. \A i \in solid : i \in Nat /\ 1 <= i /\ i <= Len(s)
  BY <1>1
<1>4. Min(solid) = 1
  <2> HIDE DEF solid
  <2> QED
    BY <1>2, <1>3 DEF Min
<1>5. Max(solid) = Len(s)
  <2> HIDE DEF solid
  <2> QED
    BY <1>1, <1>2, <1>3 DEF Max
<1>6. Trim(s) = SubSeq(s, 1, Len(s))
  BY <1>2, <1>4, <1>5 DEF Trim
<1> QED
  BY <1>1, <1>6

\* One leading slash, and not two.
OneSlash(p) ==
  /\ p \in Seq(Nat) /\ Len(p) >= 1 /\ p[1] = Slash
  /\ Len(p) >= 2 => p[2] # Slash

\* Nothing in a plain path has a meaning in a URL.
LEMMA PlainInUrl ==
  ASSUME NEW p \in Seq(Nat), Plain(p)
  PROVE  Decoded(Cut(p)) = p
<1>1. {i \in 1..Len(p) : p[i] = Query} = {}
  BY DEF Plain
<1>2. SelectInSeq(p, LAMBDA c : c = Query) = 0
  BY <1>1 DEF SelectInSeq
<1>3. Cut(p) = p
  <2> DEFINE end == SelectInSeq(p, LAMBDA c : c = Query)
  <2>1. Cut(p) = IF end = 0 THEN p ELSE SubSeq(p, 1, end - 1)
    BY Zenon DEF Cut
  <2>2. end = 0
    BY <1>2
  <2> HIDE DEF end
  <2> QED
    BY <2>1, <2>2
<1>4. Decoded(p) = [i \in DOMAIN p |-> p[i]]
  BY DEF Decoded, Plain
<1>5. p = [i \in DOMAIN p |-> p[i]]
  OBVIOUS
<1> QED
  BY <1>3, <1>4, <1>5

\* A plain path with one leading slash is the same in a link, and the same again when the
\* router has taken its leading slashes and the gateway put one back.
LEMMA PathComesBack ==
  ASSUME NEW p, OneSlash(p), Plain(p)
  PROVE  LinkPath(p) = p /\ Requested(p) = p
<1>1. p \in Seq(Nat) /\ Len(p) \in Nat /\ Len(p) >= 1 /\ p[1] = Slash /\ p # << >>
  BY DEF OneSlash
<1>2. Trim(p) = p
  BY <1>1, TrimKeeps DEF Plain, Last, Slash, Blank
<1>3. LinkPath(p) = p
  BY <1>1, <1>2 DEF LinkPath, NoPath
<1> DEFINE rest == {i \in 1..Len(p) : p[i] # Slash}
           at == SelectInSeq(p, LAMBDA c : c # Slash)
<1>4. at = IF rest # {} THEN Min(rest) ELSE 0
  BY DEF SelectInSeq
<1>r. Requested(p) = <<Slash>> \o (IF at = 0 THEN NoPath ELSE SubSeq(p, at, Len(p)))
  <2> DEFINE route == Decoded(Cut(p))
             solid == SelectInSeq(route, LAMBDA c : c # Slash)
  <2>1. Requested(p) = IF Mounted(route) THEN NoPath
                       ELSE <<Slash>> \o (IF solid = 0 THEN NoPath ELSE SubSeq(route, solid, Len(route)))
    BY Zenon DEF Requested
  <2>2. route = p /\ ~Mounted(p)
    BY <1>1, PlainInUrl DEF Plain
  <2>3. solid = at
    BY <2>2, Zenon
  <2> HIDE DEF route, solid, at
  <2> QED
    BY <2>1, <2>2, <2>3
<1>5. CASE rest = {}
  <2>1. Len(p) = 1
    <3>1. \A i \in 1..Len(p) : p[i] = Slash
      BY <1>5
    <3>2. ~(Len(p) >= 2)
      <4> SUFFICES ASSUME Len(p) >= 2
                   PROVE  FALSE
        OBVIOUS
      <4>1. p[2] # Slash /\ 2 \in 1..Len(p)
        BY <1>1 DEF OneSlash
      <4> QED
        BY <3>1, <4>1
    <3> QED
      BY <1>1, <3>2, OneOrMore
  <2>2. p = <<Slash>>
    BY <1>1, <2>1
  <2>3. Requested(p) = <<Slash>> \o << >>
    <3>1. at = 0
      BY <1>4, <1>5
    <3> HIDE DEF at
    <3> QED
      BY <1>r, <3>1 DEF NoPath
  <2> QED
    BY <1>3, <2>2, <2>3
<1>6. CASE rest # {}
  <2>1. Len(p) >= 2 /\ p[2] # Slash
    BY <1>1, <1>6 DEF OneSlash
  <2>2. 2 \in rest /\ \A i \in rest : i \in Nat /\ 2 <= i
    BY <1>1, <2>1
  <2>3. Min(rest) = 2
    <3> HIDE DEF rest
    <3> QED
      BY <2>2 DEF Min
  <2>4. Requested(p) = <<Slash>> \o SubSeq(p, 2, Len(p))
    <3>1. at = 2
      <4> HIDE DEF at, rest
      <4> QED
        BY <1>4, <1>6, <2>3
    <3> HIDE DEF at
    <3> QED
      BY <1>r, <3>1
  <2>5. <<Slash>> \o SubSeq(p, 2, Len(p)) = p
    BY <1>1, <2>1
  <2> QED
    BY <1>3, <2>4, <2>5
<1> QED
  BY <1>5, <1>6

\* Such a function exists: Slashed up to each length, from one to the next.
SlashedUpTo(f, given, n) ==
  f = [i \in 0..n |->
         IF i = 0 THEN <<Slash>>
         ELSE IF given[i] = Slash /\ Last(f[i - 1]) = Slash THEN f[i - 1]
         ELSE Append(f[i - 1], given[i])]

LEMMA SlashedExists ==
  ASSUME NEW given \in Seq(Nat)
  PROVE  \E f : SlashedUpTo(f, given, Len(given))
<1> DEFINE S == {n \in 0..Len(given) : \E f : SlashedUpTo(f, given, n)}
           Rule(f, i) == IF i = 0 THEN <<Slash>>
                         ELSE IF given[i] = Slash /\ Last(f[i - 1]) = Slash THEN f[i - 1]
                         ELSE Append(f[i - 1], given[i])
<1>1. 0 \in S
  <2>1. SlashedUpTo([i \in 0..0 |-> <<Slash>>], given, 0)
    BY DEF SlashedUpTo
  <2> QED
    BY <2>1
<1>2. ASSUME NEW n \in 1..Len(given), n - 1 \in S
      PROVE  n \in S
  <2>1. PICK f : SlashedUpTo(f, given, n - 1)
    BY <1>2
  <2> DEFINE g == [i \in 0..n |-> IF i < n THEN f[i] ELSE Rule(f, n)]
  <2>2. \A i \in 0..(n - 1) : f[i] = Rule(f, i)
    BY <2>1, Zenon DEF SlashedUpTo
  <2>3. \A i \in 0..n : g[i] = Rule(g, i)
    <3> TAKE i \in 0..n
    <3>1. CASE i = 0
      BY <2>2, <3>1
    <3>2. CASE i # 0 /\ i < n
      BY <2>2, <3>2
    <3>3. CASE i = n
      BY <3>3
    <3> QED
      BY <3>1, <3>2, <3>3
  <2>4. g = [i \in 0..n |-> Rule(g, i)]
    <3>1. g = [i \in 0..n |-> g[i]]
      OBVIOUS
    <3> HIDE DEF g, Rule
    <3> QED
      BY <2>3, <3>1
  <2>5. SlashedUpTo(g, given, n)
    <3> HIDE DEF g
    <3> QED
      BY <2>4, Zenon DEF SlashedUpTo
  <2> QED
    BY <2>5
<1> HIDE DEF S
<1>3. Len(given) \in Nat
  OBVIOUS
<1>4. Len(given) \in S
  BY <1>1, <1>2, <1>3, UpTo
<1> QED
  BY <1>4 DEF S

LEMMA SlashedHasOne ==
  ASSUME NEW given \in Seq(Nat), NEW f, SlashedUpTo(f, given, Len(given))
  PROVE  OneSlash(f[Len(given)])
<1> DEFINE n == Len(given)
           S == {i \in 0..n : OneSlash(f[i])}
<1>1. \A i \in 0..n :
        f[i] = IF i = 0 THEN <<Slash>>
               ELSE IF given[i] = Slash /\ Last(f[i - 1]) = Slash THEN f[i - 1]
               ELSE Append(f[i - 1], given[i])
  BY Zenon DEF SlashedUpTo
<1>2. n \in Nat /\ 0 \in 0..n
  OBVIOUS
<1>3. 0 \in S
  <2>1. f[0] = <<Slash>>
    BY <1>1, <1>2
  <2>2. OneSlash(<<Slash>>)
    BY DEF OneSlash, Slash
  <2> QED
    BY <1>2, <2>1, <2>2
<1>4. ASSUME NEW i \in 1..n, i - 1 \in S
      PROVE  i \in S
  <2> DEFINE d == f[i - 1]
             c == given[i]
  <2>1. i \in 0..n /\ i # 0 /\ c \in Nat
    OBVIOUS
  <2>2. \/ f[i] = d
        \/ f[i] = Append(d, c) /\ ~(c = Slash /\ Last(d) = Slash)
    BY <1>1, <2>1
  <2>3. OneSlash(d)
    BY <1>4
  <2>4. ~(c = Slash /\ Last(d) = Slash) => OneSlash(Append(d, c))
    <3> HIDE DEF d, c
    <3> SUFFICES ASSUME ~(c = Slash /\ Last(d) = Slash)
                 PROVE  OneSlash(Append(d, c))
      OBVIOUS
    <3> DEFINE e == Append(d, c)
    <3>1. d \in Seq(Nat) /\ Len(d) \in Nat /\ Len(d) >= 1 /\ d[1] = Slash
      BY <2>3 DEF OneSlash
    <3>2. e \in Seq(Nat) /\ Len(e) = Len(d) + 1
      BY <2>1, <3>1
    <3>3. e[1] = Slash
      BY <2>1, <3>1
    <3>4. CASE Len(d) = 1
      <4>1. e[Len(d) + 1] = c
        BY <2>1, <3>1
      <4>2. e[2] = c
        <5>1. Len(d) + 1 = 2
          BY <3>4
        <5> HIDE DEF e
        <5> QED
          BY <4>1, <5>1
      <4>3. c # Slash
        BY <3>1, <3>4 DEF Last
      <4> QED
        BY <3>1, <3>2, <3>3, <3>4, <4>2, <4>3 DEF OneSlash
    <3>5. CASE Len(d) >= 2
      <4>1. e[2] = d[2] /\ d[2] # Slash
        BY <2>1, <2>3, <3>1, <3>5 DEF OneSlash
      <4> QED
        BY <3>1, <3>2, <3>3, <4>1 DEF OneSlash
    <3>6. Len(d) = 1 \/ Len(d) >= 2
      BY <3>1, OneOrMore
    <3> QED
      BY <3>4, <3>5, <3>6
  <2> QED
    BY <2>1, <2>2, <2>3, <2>4
<1> HIDE DEF S
<1>5. n \in S
  <2> HIDE DEF n
  <2> QED
    BY <1>2, <1>3, <1>4, UpTo
<1> QED
  BY <1>5 DEF S

\* What _normalise_ws_path does with the result of its loop.
Cleaned(given, p) ==
  IF given = NoPath THEN NoPath
  ELSE IF Len(p) > 1 /\ Last(p) = Slash THEN Front(p) ELSE p

LEMMA NormalisedHasOne ==
  ASSUME NEW raw \in Seq(Nat), NormalisePath(raw) # NoPath
  PROVE  OneSlash(NormalisePath(raw))
<1> DEFINE given == Trim(raw)
<1>1. given \in Seq(Nat)
  BY TrimTyped
<1>2. PICK f : f = CHOOSE g : SlashedUpTo(g, given, Len(given))
  OBVIOUS
<1>3. SlashedUpTo(f, given, Len(given))
  BY <1>1, <1>2, SlashedExists
<1> DEFINE whole == f[Len(given)]
<1>4. NormalisePath(raw) = IF Len(whole) > 1 /\ Last(whole) = Slash THEN Front(whole) ELSE whole
  <2>1. given # NoPath
    BY DEF NormalisePath
  <2> DEFINE loop == CHOOSE done : SlashedUpTo(done, given, Len(given))
  <2>2. NormalisePath(raw) = Cleaned(given, loop[Len(given)])
    BY Zenon DEF NormalisePath, Cleaned, SlashedUpTo
  <2> HIDE DEF given, loop
  <2>3. NormalisePath(raw) = Cleaned(given, whole)
    BY <1>2, <2>2 DEF loop
  <2> QED
    BY <2>1, <2>3 DEF Cleaned
<1>5. OneSlash(whole)
  BY <1>1, <1>3, SlashedHasOne
<1> HIDE DEF whole
<1>6. Len(whole) > 1 => OneSlash(Front(whole))
  <2> SUFFICES ASSUME Len(whole) > 1
               PROVE  OneSlash(Front(whole))
    OBVIOUS
  <2>1. whole \in Seq(Nat) /\ Len(whole) \in Nat /\ whole[1] = Slash /\ whole[2] # Slash
    BY <1>5 DEF OneSlash
  <2>2. /\ Front(whole) \in Seq(Nat) /\ Len(Front(whole)) = Len(whole) - 1
        /\ \A i \in 1..(Len(whole) - 1) : Front(whole)[i] = whole[i]
    BY <2>1 DEF Front
  <2>3. Front(whole)[1] = Slash
    <3>1. 1 \in 1..(Len(whole) - 1)
      BY <2>1
    <3> QED
      BY <2>1, <2>2, <3>1
  <2>4. ASSUME Len(Front(whole)) >= 2
        PROVE  Front(whole)[2] # Slash
    <3>1. 2 \in 1..(Len(whole) - 1)
      BY <2>1, <2>2, <2>4
    <3> QED
      BY <2>1, <2>2, <3>1
  <2> QED
    BY <2>1, <2>2, <2>3, <2>4 DEF OneSlash
<1> QED
  BY <1>4, <1>5, <1>6

\* A path the configuration has normalised goes into a link as it is and comes back from
\* the server's router as it was, if it is plain: if it has no white space at its end, no
\* percent escape, question mark or hash, and is not under /static. config.py,
\* credential_generator.py and the gateway of main.py each trim and prefix it in a way of
\* their own; in between a URL is made of it and taken apart.
THEOREM PathsSurvive ==
  ASSUME NEW raw \in Seq(Nat), NormalisePath(raw) # NoPath, Plain(NormalisePath(raw))
  PROVE  /\ LinkPath(NormalisePath(raw)) = NormalisePath(raw)
         /\ Requested(LinkPath(NormalisePath(raw))) = NormalisePath(raw)
BY NormalisedHasOne, PathComesBack

LEMMA GeneratedSurvive ==
  ASSUME NEW n \in Nat
  PROVE  LinkPath(Generated(n)) = Generated(n) /\ Requested(Generated(n)) = Generated(n)
<1>1. OneSlash(Generated(n)) /\ Last(Generated(n)) # Blank
  BY DEF OneSlash, Generated, Last, Slash, Blank
<1>2. Plain(Generated(n))
  <2>1. \A i \in DOMAIN Generated(n) : Generated(n)[i] \in {0, 100 + n}
    BY DEF Generated, Slash
  <2>2. ~Mounted(Generated(n))
    BY DEF Mounted, Generated
  <2> QED
    BY <1>1, <2>1, <2>2 DEF Plain, Query, Escape
<1> QED
  BY <1>1, <1>2, PathComesBack

-----------------------------------------------------------------------------
(* The invariant *)

Overrides == {Settings(e).override : e \in Environments}
Paths == {NoPath} \cup Overrides \cup {Generated(n) : n \in 1..MaxPath}

\* The path in force.
PathInForce == IF Now.override # NoPath THEN Now.override ELSE path

TypesInv ==
  /\ env \in Environments
  /\ keys \in Nat /\ newest \in Nat /\ keys <= newest
  /\ made \in 0..MaxPath /\ path \in Paths
  /\ proxy \in 0..MaxProxy
  /\ phase \in {"off", "boot", "on"}
  /\ task \in [Proc -> [job : {"none", "start", "show"} \cup Applies,
                       at : {"none", "look", "store", "do"}, got : Paths, keys : Nat]]
  /\ \A p \in Proc : task[p].keys <= newest
  /\ mishaps \subseteq Mishaps

ArchiveInv ==
  \A copy \in archive : copy.keys \in 1..newest /\ copy.path \in Paths

\* What runs in which phase. The bootstrap is alone, so nobody else finds no path, unless
\* a restore has taken it away.
PhaseInv ==
  /\ phase = "off" => \A p \in Proc : task[p] = Idle
  /\ phase = "boot" => /\ task["container"].job \in {"boot", "configure"}
                       /\ \A c \in Client : task[c] = Idle
  /\ phase = "on" => /\ task["container"].job \in {"none", "start"}
                     /\ \A c \in Client : task[c].job \notin {"boot", "configure", "start"}
                     /\ \/ "lost" \in mishaps
                        \/ PathInForce # NoPath /\ \A p \in Proc : task[p].at # "store"
  /\ phase # "off" => keys > 0 /\ rail.domain = env.domain
  /\ panel \/ "lost" \in mishaps => phase = "on"

\* A path in hand is the one in force, and one that will be stored the first, but for
\* mishaps.
TaskInv ==
  \A p \in Proc :
    /\ task[p].at = "do" /\ task[p].got # NoPath =>
         PathInForce # NoPath /\ (task[p].got = PathInForce \/ "raced" \in mishaps)
    /\ task[p].at = "store" => /\ Now.override = NoPath /\ task[p].got # NoPath
                              /\ (path = NoPath \/ "lost" \in mishaps)
    /\ task[p].job = "none" => task[p] = Idle

\* Configurations that are written and started are of this environment; only their keys may
\* be older.
Current(config) == config.keys > 0 /\ config.sni = Now.sni /\ config.ws = Now.fallback
ServedInv ==
  phase = "on" =>
    /\ Current(xr) /\ Current(file)
    /\ ~unapplied => file = Served
    /\ "torn" \notin mishaps => xr = file

GateInv ==
  panel /\ ~behind /\ "raced" \notin mishaps => gate = PathInForce /\ gate # NoPath

\* What the links that are promised say.
PromisedReality(l) ==
  /\ l.kind = "reality" /\ l.keys = keys /\ l.keys > 0
  /\ l.sni = Now.sni /\ l.port = proxy
PromisedWebSocket(l) ==
  /\ l.kind = "ws" /\ env.fallback /\ l.host = env.domain
  /\ l.path # NoPath /\ ~Contains(l.path, Blank)
  /\ "raced" \notin mishaps => PathInForce # NoPath /\ l.path = LinkPath(PathInForce)
PromiseInv == \A l \in promised : PromisedReality(l) \/ PromisedWebSocket(l)

LinksInv == TypesInv /\ ArchiveInv /\ PhaseInv /\ TaskInv /\ ServedInv /\ GateInv /\ PromiseInv

\* The path in force is an override or one that was generated.
LEMMA InForceSurvives ==
  ASSUME NEW p \in Overrides \cup {Generated(n) : n \in 1..MaxPath}, p # NoPath
  PROVE  LinkPath(p) = p /\ Requested(p) = p
<1>1. CASE p \in Overrides
  <2>1. PICK e \in Environments : p = Settings(e).override
    BY <1>1 DEF Overrides
  <2>2. p = NormalisePath(e.override)
    BY <2>1 DEF Settings
  <2>3. e.override \in Seq(Nat) /\ Plain(p)
    BY <2>1, PlainOverrides
  <2> QED
    BY <2>2, <2>3, PathsSurvive
<1>2. CASE p \in {Generated(n) : n \in 1..MaxPath}
  BY <1>2, GeneratedSurvive
<1> QED
  BY <1>1, <1>2

LEMMA SettingsFields ==
  ASSUME NEW e
  PROVE  Settings(e).fallback = e.fallback /\ Settings(e).sni = e.sni
  BY DEF Settings

\* What the flags say when they are down.
LEMMA RestoreSays ==
  ASSUME NEW c, NEW copy, RestoreOf(c, copy)
  PROVE  /\ ~unapplied' => ~unapplied /\ keys' = keys
         /\ ~behind' => ~behind /\ (Now.override # NoPath \/ path' = path)
<1>1. /\ unapplied' = (unapplied \/ copy.keys # keys) /\ keys' = copy.keys
      /\ behind' = (behind \/ (Now.override = NoPath /\ copy.path # path)) /\ path' = copy.path
  BY Zenon DEF RestoreOf
<1> QED
  BY <1>1, Zenon

LEMMA RestoreMishaps ==
  ASSUME NEW c, NEW copy, RestoreOf(c, copy)
  PROVE  /\ "torn" \in mishaps' <=> "torn" \in mishaps
         /\ "raced" \in mishaps' <=> "raced" \in mishaps
         /\ "lost" \in mishaps' <=> Now.override = NoPath /\ copy.path = NoPath
         /\ mishaps \subseteq Mishaps => mishaps' \subseteq Mishaps
<1>1. mishaps' = (mishaps \ {"lost"})
                  \cup (IF Now.override = NoPath /\ copy.path = NoPath THEN {"lost"} ELSE {})
  BY Zenon DEF RestoreOf
<1> QED
  BY <1>1 DEF Mishaps

LEMMA PanelStartSays ==
  ASSUME PanelStart
  PROVE  ~behind' => task["container"].got # NoPath
<1>1. behind' = (task["container"].got = NoPath)
  BY Zenon DEF PanelStart
<1> QED
  BY <1>1, Zenon

LEMMA DeployKeeps ==
  ASSUME LinksInv, NEW e \in Environments, Deploy(e)
  PROVE  LinksInv'
<1> USE LinksConstants DEF LinksInv, disk, world, xray, record, gateway, Deploy
<1>1. TypesInv'
  BY DEF TypesInv, Paths, Idle, Job, Applies, Proc
<1>2. ArchiveInv'
  BY DEF TypesInv, ArchiveInv, PhaseInv
<1>3. PhaseInv'
  <2>1. CASE Refused(e)
    <3>1. phase' = "off" /\ ~panel' /\ task' = [p \in Proc |-> Idle]
      BY <2>1
    <3> QED
      BY <3>1 DEF PhaseInv
  <2>2. CASE ~Refused(e)
    <3>1. /\ phase' = "boot" /\ ~panel' /\ keys' > 0
          /\ rail'.domain = e.domain /\ env' = e
      BY <2>2 DEF RailwayInfo, TypesInv
    <3>2. task' = [[p \in Proc |-> Idle] EXCEPT !["container"] = Job("boot", "look")]
      BY <2>2
    <3>3. task'["container"].job = "boot" /\ \A c \in Client : task'[c] = Idle
      BY <3>2 DEF Job, Proc
    <3> QED
      BY <3>1, <3>3 DEF PhaseInv
  <2> QED
    BY <2>1, <2>2
<1>4. TaskInv'
  BY DEF TypesInv, PhaseInv, TaskInv, Idle, Job, Applies, Proc, PathInForce, Now
<1>5. ServedInv'
  BY DEF TypesInv, PhaseInv, ServedInv, Current, Served, Now, Applies, Proc
<1>6. GateInv'
  BY DEF TypesInv, PhaseInv, TaskInv, GateInv, PathInForce, Now, Proc
<1>7. PromiseInv'
  <2> SUFFICES ASSUME NEW l \in promised, Unhurt(l, e)
               PROVE  PromisedReality(l)' \/ PromisedWebSocket(l)'
    BY DEF PromiseInv
  <2>1. env' = e /\ path' = path /\ proxy' = proxy /\ (keys' = keys \/ keys = 0)
    OBVIOUS
  <2>2. CASE PromisedReality(l)
    <3>1. l.sni = Settings(e).sni /\ l.keys > 0
      BY <2>2 DEF PromisedReality, Unhurt
    <3> QED
      BY <2>1, <2>2, <3>1 DEF PromisedReality, Now
  <2>3. CASE PromisedWebSocket(l)
    <3>1. e.fallback /\ l.host = e.domain /\ Settings(e).override = Now.override
      BY <2>3 DEF PromisedWebSocket, Unhurt
    <3>2. PathInForce' = PathInForce
      BY <2>1, <3>1 DEF PathInForce, Now
    <3> QED
      BY <2>1, <2>3, <3>1, <3>2 DEF PromisedWebSocket
  <2> QED
    BY <2>2, <2>3 DEF PromiseInv
<1> QED
  BY <1>1, <1>2, <1>3, <1>4, <1>5, <1>6, <1>7

LEMMA LookKeeps ==
  ASSUME LinksInv, NEW p \in Proc, Look(p)
  PROVE  LinksInv'
<1> USE LinksConstants DEF LinksInv, disk, world, xray, record, gateway, Look
<1>1. TypesInv'
  BY DEF TypesInv, Paths, Idle, Applies, Proc
<1>2. ArchiveInv'
  BY DEF TypesInv, ArchiveInv, PhaseInv
<1>3. PhaseInv'
  BY DEF TypesInv, PhaseInv, TaskInv, Idle, Applies, Proc, PathInForce, Now
<1>4. TaskInv'
  <2>1. PICK found : \/ /\ task' = [task EXCEPT ![p].at = "do", ![p].got = found]
                       /\ Now.override # NoPath /\ found = Now.override
                    \/ /\ task' = [task EXCEPT ![p].at = "do", ![p].got = found]
                       /\ Now.override = NoPath /\ found = path
                    \/ /\ task' = [task EXCEPT ![p].at = "store", ![p].got = found]
                       /\ Now.override = NoPath /\ path = NoPath /\ found = Generated(made + 1)
    OBVIOUS
  <2>2. Generated(made + 1) # NoPath
    BY DEF Generated, NoPath
  <2>3. PathInForce' = PathInForce /\ Now' = Now /\ path' = path
    BY DEF PathInForce, Now
  <2>4. task[p].job # "none"
    BY DEF TypesInv, TaskInv, Idle
  <2> QED
    BY <2>1, <2>2, <2>3, <2>4 DEF TypesInv, TaskInv, PathInForce
<1>5. ServedInv'
  BY DEF TypesInv, PhaseInv, ServedInv, Current, Served, Now, Applies, Proc
<1>6. GateInv'
  BY DEF TypesInv, PhaseInv, TaskInv, GateInv, PathInForce, Now, Proc
<1>7. PromiseInv'
  BY DEF TypesInv, PromiseInv, PromisedReality, PromisedWebSocket, PathInForce, Now
<1> QED
  BY <1>1, <1>2, <1>3, <1>4, <1>5, <1>6, <1>7

LEMMA StoreMishaps ==
  ASSUME NEW p, Store(p)
  PROVE  /\ "raced" \in mishaps' <=> "raced" \in mishaps \/ path # NoPath
         /\ "lost" \in mishaps' <=> "lost" \in mishaps
         /\ "torn" \in mishaps' <=> "torn" \in mishaps
         /\ mishaps \subseteq Mishaps => mishaps' \subseteq Mishaps
<1>1. mishaps' = mishaps \cup (IF path # NoPath THEN {"raced"} ELSE {})
  BY Zenon DEF Store
<1> QED
  BY <1>1 DEF Mishaps

LEMMA StoreKeeps ==
  ASSUME LinksInv, NEW p \in Proc, Store(p)
  PROVE  LinksInv'
<1> USE LinksConstants DEF LinksInv, disk, world, xray, record, gateway
<1>0. /\ task[p].at = "store" /\ path' = task[p].got
      /\ task' = [task EXCEPT ![p].at = "do"]
      /\ UNCHANGED <<keys, newest, made, world, xray, gateway, archive, promised, unapplied, behind>>
  BY DEF Store
<1>m. /\ "raced" \in mishaps' <=> "raced" \in mishaps \/ path # NoPath
      /\ "lost" \in mishaps' <=> "lost" \in mishaps
      /\ "torn" \in mishaps' <=> "torn" \in mishaps
      /\ mishaps \subseteq Mishaps => mishaps' \subseteq Mishaps
  BY StoreMishaps
<1>n. Now' = Now /\ Now.override = NoPath /\ path' # NoPath /\ PathInForce' = path'
  BY <1>0 DEF Now, TaskInv, PathInForce
<1>1. TypesInv'
  BY <1>0, <1>m DEF TypesInv, Paths, Idle, Applies, Proc
<1>2. ArchiveInv'
  BY <1>0 DEF TypesInv, ArchiveInv, PhaseInv
<1>3. PhaseInv'
  BY <1>0, <1>m, <1>n DEF TypesInv, PhaseInv, TaskInv, Idle, Applies, Proc
<1>4. TaskInv'
  <2>1. \A q \in Proc : q # p => task'[q] = task[q]
    BY <1>0 DEF TypesInv
  <2>2. task'[p].at = "do" /\ task'[p].got = path' /\ task'[p].job # "none"
    BY <1>0 DEF TypesInv, TaskInv, Idle
  <2>3. ASSUME NEW q \in Proc, q # p, task[q].at = "do"
        PROVE  task[q].got = NoPath \/ "raced" \in mishaps'
    BY <1>m, <1>n, <2>3 DEF TaskInv, PathInForce
  <2>4. ASSUME NEW q \in Proc, q # p, task[q].at = "store"
        PROVE  "lost" \in mishaps'
    <3>1. phase # "off" /\ phase # "boot"
      BY <1>0, <2>4 DEF PhaseInv, Idle, Proc
    <3> QED
      BY <1>0, <1>m, <3>1 DEF PhaseInv, TypesInv
  <2> QED
    BY <1>n, <2>1, <2>2, <2>3, <2>4 DEF TaskInv
<1>5. ServedInv'
  BY <1>0, <1>m, <1>n DEF ServedInv, Current, Served
<1>6. GateInv'
  BY <1>0, <1>m, <1>n DEF GateInv, PathInForce
<1>7. PromiseInv'
  BY <1>0, <1>m, <1>n DEF PromiseInv, PromisedReality, PromisedWebSocket, PathInForce
<1> QED
  BY <1>1, <1>2, <1>3, <1>4, <1>5, <1>6, <1>7

LEMMA StoreFailsKeeps ==
  ASSUME LinksInv, NEW p \in Proc, StoreFails(p)
  PROVE  LinksInv'
<1> USE LinksConstants DEF LinksInv, disk, world, xray, record, gateway, StoreFails
<1>1. TypesInv'
  BY DEF TypesInv, Paths, Idle, Applies, Proc
<1>2. ArchiveInv'
  BY DEF TypesInv, ArchiveInv, PhaseInv
<1>3. PhaseInv'
  BY DEF TypesInv, PhaseInv, TaskInv, Idle, Applies, Proc, PathInForce, Now
<1>4. TaskInv'
  BY DEF TypesInv, PhaseInv, TaskInv, Idle, Applies, Proc, PathInForce, Now
<1>5. ServedInv'
  BY DEF TypesInv, PhaseInv, ServedInv, Current, Served, Now, Applies, Proc
<1>6. GateInv'
  BY DEF TypesInv, PhaseInv, TaskInv, GateInv, PathInForce, Now, Proc
<1>7. PromiseInv'
  BY DEF TypesInv, PromiseInv, PromisedReality, PromisedWebSocket, PathInForce, Now
<1> QED
  BY <1>1, <1>2, <1>3, <1>4, <1>5, <1>6, <1>7

LEMMA BootPathKeeps ==
  ASSUME LinksInv, BootPath
  PROVE  LinksInv'
<1> USE LinksConstants DEF LinksInv, disk, world, xray, record, gateway, BootPath
<1>1. TypesInv'
  BY DEF TypesInv, Paths, Idle, Job, Applies, Proc, Ready
<1>2. ArchiveInv'
  BY DEF TypesInv, ArchiveInv, PhaseInv
<1>3. PhaseInv'
  BY DEF TypesInv, PhaseInv, TaskInv, Idle, Job, Applies, Proc, PathInForce, Now, Ready
<1>4. TaskInv'
  BY DEF TypesInv, PhaseInv, TaskInv, Idle, Job, Applies, Proc, PathInForce, Now, Ready
<1>5. ServedInv'
  BY DEF TypesInv, PhaseInv, ServedInv, Current, Served, Now, Applies, Proc
<1>6. GateInv'
  BY DEF TypesInv, PhaseInv, TaskInv, GateInv, PathInForce, Now, Proc, Ready
<1>7. PromiseInv'
  BY DEF TypesInv, PromiseInv, PromisedReality, PromisedWebSocket, PathInForce, Now
<1> QED
  BY <1>1, <1>2, <1>3, <1>4, <1>5, <1>6, <1>7

\* What an apply or a restart of Xray does to the mishaps.
LEMMA AppliesMishaps ==
  ASSUME mishaps' = mishaps \/ mishaps' = mishaps \ {"torn"}
  PROVE  /\ "raced" \in mishaps' <=> "raced" \in mishaps
         /\ "lost" \in mishaps' <=> "lost" \in mishaps
         /\ mishaps \subseteq Mishaps => mishaps' \subseteq Mishaps
OBVIOUS

LEMMA AppliedKeeps ==
  ASSUME LinksInv, NEW p \in Proc, Applied(p)
  PROVE  LinksInv'
<1> USE LinksConstants DEF LinksInv, disk, world, xray, record, gateway, Applied
<1>m. /\ "raced" \in mishaps' <=> "raced" \in mishaps
      /\ "lost" \in mishaps' <=> "lost" \in mishaps
      /\ mishaps \subseteq Mishaps => mishaps' \subseteq Mishaps
  BY AppliesMishaps DEF Restarted, Synchronised
<1>1. TypesInv'
  BY <1>m DEF TypesInv, Paths, Idle, Job, Applies, Proc
<1>2. ArchiveInv'
  BY DEF TypesInv, ArchiveInv, PhaseInv
<1>3. PhaseInv'
  <2>1. p = "container" => phase = "boot"
    BY DEF TypesInv, PhaseInv, Applies, Idle
  <2>2. p # "container" => phase = "on"
    BY DEF TypesInv, PhaseInv, Applies, Idle, Proc
  <2>3. PathInForce' = PathInForce /\ PathInForce # NoPath
    BY DEF TaskInv, PathInForce, Now
  <2>4. \A q \in Proc : q # p => task'[q] = task[q]
    BY DEF TypesInv
  <2>5. CASE p = "container"
    <3>1. /\ phase' = "on" /\ task'[p].job = "start" /\ task'[p].at = "look"
          /\ \A c \in Client : task'[c] = Idle
      BY <2>1, <2>4, <2>5 DEF TypesInv, PhaseInv, Job, Proc
    <3> QED
      BY <1>m, <2>1, <2>3, <2>4, <2>5, <3>1 DEF PhaseInv, Idle, Proc
  <2>6. CASE p # "container"
    <3>1. phase' = "on" /\ task'[p] = Idle
      BY <2>2, <2>6 DEF TypesInv
    <3> QED
      BY <1>m, <2>2, <2>3, <2>4, <2>6, <3>1 DEF PhaseInv, Idle, Proc
  <2> QED
    BY <2>5, <2>6
<1>4. TaskInv'
  BY <1>m DEF TypesInv, PhaseInv, TaskInv, Idle, Job, Applies, Proc, PathInForce, Now
<1>5. ServedInv'
  <2>1. phase # "off"
    BY DEF TypesInv, PhaseInv, Applies, Idle
  <2>2. keys > 0 /\ Served' = Served /\ Now' = Now
    BY <2>1 DEF PhaseInv, Served, Now
  <2>3. Current(Served)
    BY <2>2 DEF Current, Served
  <2>4. file' = Served /\ (xr' = Served \/ (phase = "on" /\ file = Served /\ xr' = xr /\ mishaps' = mishaps))
    <3>1. p # "container" => phase = "on"
      BY DEF TypesInv, PhaseInv, Applies, Idle, Proc
    <3> QED
      BY <3>1 DEF Restarted, Synchronised, Structural
  <2> QED
    BY <2>2, <2>3, <2>4 DEF ServedInv, Current
<1>6. GateInv'
  BY <1>m DEF TypesInv, PhaseInv, TaskInv, GateInv, PathInForce, Now, Proc
<1>7. PromiseInv'
  BY <1>m DEF TypesInv, PromiseInv, PromisedReality, PromisedWebSocket, PathInForce, Now
<1> QED
  BY <1>1, <1>2, <1>3, <1>4, <1>5, <1>6, <1>7

LEMMA ApplyFailsKeeps ==
  ASSUME LinksInv, NEW p \in Proc, ApplyFails(p)
  PROVE  LinksInv'
<1> USE LinksConstants DEF LinksInv, disk, world, xray, record, gateway
<1>0. /\ task[p].at = "do" /\ task[p].job \in Applies \ {"boot"}
      /\ phase' = IF p = "container" THEN "off" ELSE phase
      /\ task' = [task EXCEPT ![p] = Idle]
      /\ UNCHANGED <<disk, env, rail, proxy, file, gateway, archive, promised, unapplied, behind>>
      /\ (xr' = xr /\ mishaps' = mishaps) \/ Restarted(file)
  BY DEF ApplyFails, Synchronised
<1>m. /\ "raced" \in mishaps' <=> "raced" \in mishaps
      /\ "lost" \in mishaps' <=> "lost" \in mishaps
      /\ mishaps \subseteq Mishaps => mishaps' \subseteq Mishaps
  BY <1>0, AppliesMishaps DEF Restarted
<1>n. Now' = Now /\ PathInForce' = PathInForce
  BY <1>0 DEF Now, PathInForce
<1>1. TypesInv'
  BY <1>0, <1>m DEF TypesInv, Paths, Idle, Applies, Proc
<1>2. ArchiveInv'
  BY <1>0 DEF ArchiveInv
<1>3. PhaseInv'
  BY <1>0, <1>m, <1>n DEF TypesInv, PhaseInv, Idle, Applies, Proc
<1>4. TaskInv'
  BY <1>0, <1>m, <1>n DEF TypesInv, TaskInv, Idle, Proc
<1>5. ServedInv'
  <2>1. phase' = "on" => phase = "on"
    BY <1>0 DEF TypesInv, PhaseInv, Applies, Idle, Proc
  <2> QED
    BY <1>0, <1>n, <2>1 DEF ServedInv, Current, Served, Restarted
<1>6. GateInv'
  BY <1>0, <1>m, <1>n DEF GateInv
<1>7. PromiseInv'
  BY <1>0, <1>m, <1>n DEF PromiseInv, PromisedReality, PromisedWebSocket
<1> QED
  BY <1>1, <1>2, <1>3, <1>4, <1>5, <1>6, <1>7

LEMMA ApplyKilledKeeps ==
  ASSUME LinksInv, NEW c \in Client, ApplyKilled(c)
  PROVE  LinksInv'
<1> USE LinksConstants DEF LinksInv, disk, world, xray, record, gateway
<1>0. /\ task[c].at # "none" /\ task[c].job \in Applies
      /\ task' = [task EXCEPT ![c] = Idle]
      /\ UNCHANGED <<disk, world, xr, gateway, archive, promised, unapplied, behind>>
      /\ \/ UNCHANGED <<file, mishaps>>
         \/ file' = Served /\ mishaps' = mishaps \cup (IF xr # Served THEN {"torn"} ELSE {})
  BY DEF ApplyKilled
<1>m. /\ "raced" \in mishaps' <=> "raced" \in mishaps
      /\ "lost" \in mishaps' <=> "lost" \in mishaps
      /\ mishaps \subseteq Mishaps => mishaps' \subseteq Mishaps
      /\ "torn" \notin mishaps' =>
           "torn" \notin mishaps /\ (file' = file \/ (file' = Served /\ xr = Served))
  <2>1. CASE UNCHANGED <<file, mishaps>>
    BY <2>1
  <2>2. CASE file' = Served /\ mishaps' = mishaps \cup (IF xr # Served THEN {"torn"} ELSE {})
    BY <2>2 DEF Mishaps
  <2> QED
    BY <1>0, <2>1, <2>2
<1>n. Now' = Now /\ PathInForce' = PathInForce
  BY <1>0 DEF Now, PathInForce
<1>1. TypesInv'
  BY <1>0, <1>m DEF TypesInv, Paths, Idle, Applies, Proc
<1>2. ArchiveInv'
  BY <1>0 DEF ArchiveInv
<1>3. PhaseInv'
  BY <1>0, <1>m, <1>n DEF TypesInv, PhaseInv, Idle, Applies, Proc
<1>4. TaskInv'
  BY <1>0, <1>m, <1>n DEF TypesInv, TaskInv, Idle, Proc
<1>5. ServedInv'
  <2>1. phase = "on" => Current(Served)
    BY DEF PhaseInv, TypesInv, Current, Served
  <2>2. Served' = Served /\ (file' = file \/ file' = Served)
    BY <1>0, <1>n DEF Served
  <2> QED
    BY <1>0, <1>m, <1>n, <2>1, <2>2 DEF ServedInv, Current
<1>6. GateInv'
  BY <1>0, <1>m, <1>n DEF GateInv
<1>7. PromiseInv'
  BY <1>0, <1>m, <1>n DEF PromiseInv, PromisedReality, PromisedWebSocket
<1> QED
  BY <1>1, <1>2, <1>3, <1>4, <1>5, <1>6, <1>7

LEMMA XrayRestartKeeps ==
  ASSUME LinksInv, XrayRestart
  PROVE  LinksInv'
<1> USE LinksConstants DEF LinksInv, disk, world, xray, record, gateway
<1>0. /\ phase = "on" /\ Restarted(file)
      /\ UNCHANGED <<disk, world, file, gateway, archive, task, promised, unapplied, behind>>
  BY DEF XrayRestart
<1>m. /\ "raced" \in mishaps' <=> "raced" \in mishaps
      /\ "lost" \in mishaps' <=> "lost" \in mishaps
      /\ mishaps \subseteq Mishaps => mishaps' \subseteq Mishaps
  BY <1>0, AppliesMishaps DEF Restarted
<1>n. Now' = Now /\ PathInForce' = PathInForce
  BY <1>0 DEF Now, PathInForce
<1>1. TypesInv'
  BY <1>0, <1>m DEF TypesInv, Paths, Idle, Applies, Proc
<1>2. ArchiveInv'
  BY <1>0 DEF ArchiveInv
<1>3. PhaseInv'
  BY <1>0, <1>m, <1>n DEF TypesInv, PhaseInv, Idle, Applies, Proc
<1>4. TaskInv'
  BY <1>0, <1>m, <1>n DEF TypesInv, TaskInv, Idle, Proc
<1>5. ServedInv'
  BY <1>0, <1>n DEF ServedInv, Current, Served, Restarted
<1>6. GateInv'
  BY <1>0, <1>m, <1>n DEF GateInv
<1>7. PromiseInv'
  BY <1>0, <1>m, <1>n DEF PromiseInv, PromisedReality, PromisedWebSocket
<1> QED
  BY <1>1, <1>2, <1>3, <1>4, <1>5, <1>6, <1>7

LEMMA PanelStartKeeps ==
  ASSUME LinksInv, PanelStart
  PROVE  LinksInv'
<1> USE LinksConstants DEF LinksInv, disk, world, xray, record, gateway, PanelStart
<1>1. TypesInv'
  BY DEF TypesInv, Paths, Idle, Applies, Proc, Ready
<1>2. ArchiveInv'
  BY DEF TypesInv, ArchiveInv, PhaseInv
<1>3. PhaseInv'
  BY DEF TypesInv, PhaseInv, TaskInv, Idle, Applies, Proc, PathInForce, Now, Ready
<1>4. TaskInv'
  BY DEF TypesInv, PhaseInv, TaskInv, Idle, Applies, Proc, PathInForce, Now, Ready
<1>5. ServedInv'
  BY DEF TypesInv, PhaseInv, ServedInv, Current, Served, Now, Applies, Proc
<1>6. GateInv'
  <2>1. task["container"].got \in {NoPath, PathInForce} \/ "raced" \in mishaps
    BY DEF TaskInv, Ready, Proc
  <2>2. PathInForce' = PathInForce /\ mishaps' = mishaps /\ gate' = task["container"].got
    BY DEF PathInForce, Now
  <2>3. ~behind' => task["container"].got # NoPath
    BY PanelStartSays
  <2> QED
    BY <2>1, <2>2, <2>3 DEF GateInv
<1>7. PromiseInv'
  BY DEF TypesInv, PromiseInv, PromisedReality, PromisedWebSocket, PathInForce, Now
<1> QED
  BY <1>1, <1>2, <1>3, <1>4, <1>5, <1>6, <1>7

LEMMA PanelCrashKeeps ==
  ASSUME LinksInv, PanelCrash
  PROVE  LinksInv'
<1> USE LinksConstants DEF LinksInv, disk, world, xray, record, gateway, PanelCrash
<1>1. TypesInv'
  BY DEF TypesInv, Paths, Idle, Job, Applies, Proc
<1>2. ArchiveInv'
  BY DEF TypesInv, ArchiveInv, PhaseInv
<1>3. PhaseInv'
  BY DEF TypesInv, PhaseInv, TaskInv, Idle, Job, Applies, Proc, PathInForce, Now
<1>4. TaskInv'
  BY DEF TypesInv, PhaseInv, TaskInv, Idle, Job, Applies, Proc, PathInForce, Now
<1>5. ServedInv'
  BY DEF TypesInv, PhaseInv, ServedInv, Current, Served, Now, Applies, Proc
<1>6. GateInv'
  BY DEF TypesInv, PhaseInv, TaskInv, GateInv, PathInForce, Now, Proc
<1>7. PromiseInv'
  BY DEF TypesInv, PromiseInv, PromisedReality, PromisedWebSocket, PathInForce, Now
<1> QED
  BY <1>1, <1>2, <1>3, <1>4, <1>5, <1>6, <1>7

LEMMA BeginShowKeeps ==
  ASSUME LinksInv, NEW c \in Client, BeginShow(c)
  PROVE  LinksInv'
<1> USE LinksConstants DEF LinksInv, disk, world, xray, record, gateway, BeginShow
<1>1. TypesInv'
  BY DEF TypesInv, Paths, Idle, Job, Applies, Proc, Begin
<1>2. ArchiveInv'
  BY DEF TypesInv, ArchiveInv, PhaseInv, Begin
<1>3. PhaseInv'
  BY DEF TypesInv, PhaseInv, TaskInv, Idle, Job, Applies, Proc, PathInForce, Now, Begin
<1>4. TaskInv'
  BY DEF TypesInv, PhaseInv, TaskInv, Idle, Job, Applies, Proc, PathInForce, Now, Begin
<1>5. ServedInv'
  BY DEF TypesInv, PhaseInv, ServedInv, Current, Served, Now, Applies, Proc, Begin
<1>6. GateInv'
  BY DEF TypesInv, PhaseInv, TaskInv, GateInv, PathInForce, Now, Proc, Begin
<1>7. PromiseInv'
  BY DEF TypesInv, PromiseInv, PromisedReality, PromisedWebSocket, PathInForce, Now, Begin
<1> QED
  BY <1>1, <1>2, <1>3, <1>4, <1>5, <1>6, <1>7

LEMMA ShowKeeps ==
  ASSUME LinksInv, NEW c \in Client, Show(c)
  PROVE  LinksInv'
<1> USE LinksConstants DEF LinksInv, disk, world, xray, record, gateway, Show
<1>1. TypesInv'
  BY DEF TypesInv, Paths, Idle, Applies, Proc, Ready
<1>2. ArchiveInv'
  BY DEF TypesInv, ArchiveInv, PhaseInv
<1>3. PhaseInv'
  BY DEF TypesInv, PhaseInv, TaskInv, Idle, Applies, Proc, PathInForce, Now, Ready
<1>4. TaskInv'
  BY DEF TypesInv, PhaseInv, TaskInv, Idle, Applies, Proc, PathInForce, Now, Ready
<1>5. ServedInv'
  BY DEF TypesInv, PhaseInv, ServedInv, Current, Served, Now, Applies, Proc
<1>6. GateInv'
  BY DEF TypesInv, PhaseInv, TaskInv, GateInv, PathInForce, Now, Proc, Ready
<1>7. PromiseInv'
  <2>1. phase = "on"
    BY DEF TypesInv, PhaseInv, Ready, Idle, Proc
  <2>2. PathInForce' = PathInForce /\ Now' = Now /\ keys' = keys /\ proxy' = proxy /\ env' = env
    BY DEF PathInForce, Now
  <2>3. ASSUME NEW l \in RealityLink(Now, rail, task[c].keys), UpToDate(l)
        PROVE  PromisedReality(l)
    <3>1. l.kind = "reality" /\ l.sni = Now.sni
      BY DEF RealityLink
    <3>2. l.keys = keys /\ l.port = proxy
      BY <2>3, <3>1 DEF UpToDate
    <3>3. keys > 0
      BY <2>1 DEF PhaseInv
    <3> QED
      BY <3>1, <3>2, <3>3 DEF PromisedReality
  <2>4. ASSUME NEW l \in WebSocketLink(Now, rail, task[c].got)
        PROVE  PromisedWebSocket(l)
    <3>1. /\ FallbackAvailable(Now, rail) /\ ~PathRefused(task[c].got) /\ l.kind = "ws"
          /\ l.host = rail.domain /\ l.path = LinkPath(task[c].got)
      BY DEF WebSocketLink
    <3>2. task[c].got = PathInForce \/ "raced" \in mishaps
      BY <3>1 DEF TaskInv, Ready, Proc, PathRefused
    <3>3. env.fallback /\ rail.domain = env.domain
      BY <2>1, <3>1, SettingsFields DEF PhaseInv, Now, FallbackAvailable
    <3>4. LinkPath(task[c].got) = task[c].got /\ task[c].got # NoPath
      <4>1. task[c].got \in Paths /\ task[c].got # NoPath
        BY <3>1 DEF TypesInv, Proc, PathRefused
      <4> QED
        BY <4>1, InForceSurvives DEF Paths
    <3> QED
      BY <3>1, <3>2, <3>3, <3>4 DEF PromisedWebSocket, PathRefused
  <2>5. \A l \in promised' : PromisedReality(l) \/ PromisedWebSocket(l)
    BY <2>3, <2>4 DEF PromiseInv, Shown
  <2> QED
    BY <2>2, <2>5 DEF PromiseInv, PromisedReality, PromisedWebSocket
<1> QED
  BY <1>1, <1>2, <1>3, <1>4, <1>5, <1>6, <1>7

LEMMA BeginApplyKeeps ==
  ASSUME LinksInv, NEW c \in Client, BeginApply(c)
  PROVE  LinksInv'
<1> USE LinksConstants DEF LinksInv, disk, world, xray, record, gateway, BeginApply
<1>1. TypesInv'
  BY DEF TypesInv, Paths, Idle, Job, Applies, Proc, Begin
<1>2. ArchiveInv'
  BY DEF TypesInv, ArchiveInv, PhaseInv, Begin
<1>3. PhaseInv'
  BY DEF TypesInv, PhaseInv, TaskInv, Idle, Job, Applies, Proc, PathInForce, Now, Begin
<1>4. TaskInv'
  BY DEF TypesInv, PhaseInv, TaskInv, Idle, Job, Applies, Proc, PathInForce, Now, Begin
<1>5. ServedInv'
  BY DEF TypesInv, PhaseInv, ServedInv, Current, Served, Now, Applies, Proc, Begin
<1>6. GateInv'
  BY DEF TypesInv, PhaseInv, TaskInv, GateInv, PathInForce, Now, Proc, Begin
<1>7. PromiseInv'
  BY DEF TypesInv, PromiseInv, PromisedReality, PromisedWebSocket, PathInForce, Now, Begin
<1> QED
  BY <1>1, <1>2, <1>3, <1>4, <1>5, <1>6, <1>7

LEMMA BackupKeeps ==
  ASSUME LinksInv, NEW c \in Client, Backup(c)
  PROVE  LinksInv'
<1> USE LinksConstants DEF LinksInv, disk, world, xray, record, gateway, Backup
<1>1. TypesInv'
  BY DEF TypesInv, Paths, Idle, Applies, Proc, Begin
<1>2. ArchiveInv'
  BY DEF TypesInv, ArchiveInv, PhaseInv, Begin
<1>3. PhaseInv'
  BY DEF TypesInv, PhaseInv, TaskInv, Idle, Applies, Proc, PathInForce, Now, Begin
<1>4. TaskInv'
  BY DEF TypesInv, PhaseInv, TaskInv, Idle, Applies, Proc, PathInForce, Now, Begin
<1>5. ServedInv'
  BY DEF TypesInv, PhaseInv, ServedInv, Current, Served, Now, Applies, Proc, Begin
<1>6. GateInv'
  BY DEF TypesInv, PhaseInv, TaskInv, GateInv, PathInForce, Now, Proc, Begin
<1>7. PromiseInv'
  BY DEF TypesInv, PromiseInv, PromisedReality, PromisedWebSocket, PathInForce, Now, Begin
<1> QED
  BY <1>1, <1>2, <1>3, <1>4, <1>5, <1>6, <1>7

LEMMA RestoreKeeps ==
  ASSUME LinksInv, NEW c \in Client, Restore(c)
  PROVE  LinksInv'
<1> USE LinksConstants DEF LinksInv, disk, world, xray, record, gateway, Restore
<1>1. TypesInv'
  <2>1. PICK copy \in archive : RestoreOf(c, copy)
    OBVIOUS
  <2>2. mishaps' \subseteq Mishaps
    BY <2>1, RestoreMishaps DEF TypesInv
  <2> QED
    BY <2>1, <2>2 DEF RestoreOf, TypesInv, ArchiveInv, Idle, Job, Applies, Proc, Paths, Begin
<1>2. ArchiveInv'
  <2>1. PICK copy \in archive : RestoreOf(c, copy)
    OBVIOUS
  <2> USE <2>1 DEF RestoreOf
  <2> QED
    BY DEF TypesInv, ArchiveInv, Begin
<1>3. PhaseInv'
  <2>1. PICK copy \in archive : RestoreOf(c, copy)
    OBVIOUS
  <2> USE <2>1 DEF RestoreOf
  <2>2. phase = "on" /\ phase' = "on" /\ rail' = rail /\ env' = env /\ keys' > 0
    BY DEF Begin, ArchiveInv, TypesInv
  <2>3. "lost" \in mishaps' \/ PathInForce' # NoPath
    <3>1. CASE Now.override = NoPath
      <4>1. PathInForce' = copy.path
        BY <2>2, <3>1 DEF PathInForce, Now
      <4> QED
        BY <2>1, <3>1, <4>1, RestoreMishaps
    <3>2. CASE Now.override # NoPath
      BY <2>2, <3>2 DEF PathInForce, Now
    <3> QED
      BY <3>1, <3>2
  <2>4. \A q \in Proc : q # c => task'[q] = Idle
    BY DEF TypesInv
  <2>5. task'[c].job = "restore" /\ task'[c].at = "look" /\ c # "container"
    BY DEF TypesInv, Job, Proc
  <2> QED
    BY <2>2, <2>3, <2>4, <2>5 DEF PhaseInv, Idle, Proc
<1>4. TaskInv'
  <2>1. PICK copy \in archive : RestoreOf(c, copy)
    OBVIOUS
  <2> USE <2>1 DEF RestoreOf
  <2>2. \A q \in Proc : q # c => task'[q] = Idle
    BY DEF TypesInv
  <2>3. task'[c].job = "restore" /\ task'[c].at = "look"
    BY DEF TypesInv, Job, Proc
  <2> QED
    BY <2>2, <2>3 DEF TaskInv, Idle
<1>5. ServedInv'
  <2>1. PICK copy \in archive : RestoreOf(c, copy)
    OBVIOUS
  <2>2. phase' = phase /\ xr' = xr /\ file' = file /\ Now' = Now
    BY <2>1 DEF RestoreOf, Now
  <2>3. ~unapplied' => ~unapplied /\ keys' = keys
    BY <2>1, RestoreSays
  <2>4. "torn" \in mishaps' <=> "torn" \in mishaps
    BY <2>1, RestoreMishaps
  <2> QED
    BY <2>2, <2>3, <2>4 DEF ServedInv, Served, Current
<1>6. GateInv'
  <2>1. PICK copy \in archive : RestoreOf(c, copy)
    OBVIOUS
  <2>2. panel' = panel /\ gate' = gate /\ Now' = Now
    BY <2>1 DEF RestoreOf, Now
  <2>3. ~behind' => ~behind /\ (Now.override # NoPath \/ path' = path)
    BY <2>1, RestoreSays
  <2>4. "raced" \in mishaps' <=> "raced" \in mishaps
    BY <2>1, RestoreMishaps
  <2> QED
    BY <2>2, <2>3, <2>4 DEF GateInv, PathInForce
<1>7. PromiseInv'
  <2>1. PICK copy \in archive : RestoreOf(c, copy)
    OBVIOUS
  <2> USE <2>1 DEF RestoreOf
  <2>2. /\ env' = env /\ proxy' = proxy /\ Now' = Now
        /\ "raced" \in mishaps' <=> "raced" \in mishaps
    BY RestoreMishaps DEF Now
  <2> SUFFICES ASSUME NEW l \in promised,
                      CASE l.kind = "reality" -> l.keys = copy.keys
                        [] OTHER -> Now.override # NoPath \/ l.path = copy.path
               PROVE  PromisedReality(l)' \/ PromisedWebSocket(l)'
    BY DEF PromiseInv
  <2>3. CASE PromisedReality(l)
    BY <2>2, <2>3 DEF PromisedReality
  <2>4. CASE PromisedWebSocket(l)
    <3>1. CASE Now.override # NoPath
      <4>1. PathInForce' = PathInForce
        BY <2>2, <3>1 DEF PathInForce
      <4> QED
        BY <2>2, <2>4, <4>1 DEF PromisedWebSocket
    <3>2. CASE Now.override = NoPath
      <4>1. PathInForce' = copy.path
        BY <2>2, <3>2 DEF PathInForce
      <4>2. l.path = copy.path /\ copy.path # NoPath
        BY <2>4, <3>2 DEF PromisedWebSocket
      <4>3. LinkPath(copy.path) = copy.path
        BY <4>2, InForceSurvives DEF ArchiveInv, Paths
      <4> QED
        BY <2>2, <2>4, <4>1, <4>2, <4>3 DEF PromisedWebSocket
    <3> QED
      BY <3>1, <3>2
  <2> QED
    BY <2>3, <2>4 DEF PromiseInv
<1> QED
  BY <1>1, <1>2, <1>3, <1>4, <1>5, <1>6, <1>7

LEMMA RotateKeeps ==
  ASSUME LinksInv, NEW c \in Client, Rotate(c)
  PROVE  LinksInv'
<1> USE LinksConstants DEF LinksInv, disk, world, xray, record, gateway, Rotate
<1>1. TypesInv'
  BY DEF TypesInv, Paths, Idle, Applies, Proc, Begin
<1>2. ArchiveInv'
  BY DEF TypesInv, ArchiveInv, PhaseInv, Begin
<1>3. PhaseInv'
  BY DEF TypesInv, PhaseInv, TaskInv, Idle, Applies, Proc, PathInForce, Now, Begin
<1>4. TaskInv'
  BY DEF TypesInv, PhaseInv, TaskInv, Idle, Applies, Proc, PathInForce, Now, Begin
<1>5. ServedInv'
  BY DEF TypesInv, PhaseInv, ServedInv, Current, Served, Now, Applies, Proc, Begin
<1>6. GateInv'
  BY DEF TypesInv, PhaseInv, TaskInv, GateInv, PathInForce, Now, Proc, Begin
<1>7. PromiseInv'
  BY DEF TypesInv, PromiseInv, PromisedReality, PromisedWebSocket, PathInForce, Now, Begin
<1> QED
  BY <1>1, <1>2, <1>3, <1>4, <1>5, <1>6, <1>7

LEMMA NewProxyKeeps ==
  ASSUME LinksInv, NewProxy
  PROVE  LinksInv'
<1> USE LinksConstants DEF LinksInv, disk, world, xray, record, gateway, NewProxy
<1>1. TypesInv'
  BY DEF TypesInv, Paths, Idle, Applies, Proc
<1>2. ArchiveInv'
  BY DEF TypesInv, ArchiveInv, PhaseInv
<1>3. PhaseInv'
  BY DEF TypesInv, PhaseInv, TaskInv, Idle, Applies, Proc, PathInForce, Now
<1>4. TaskInv'
  BY DEF TypesInv, PhaseInv, TaskInv, Idle, Applies, Proc, PathInForce, Now
<1>5. ServedInv'
  BY DEF TypesInv, PhaseInv, ServedInv, Current, Served, Now, Applies, Proc
<1>6. GateInv'
  BY DEF TypesInv, PhaseInv, TaskInv, GateInv, PathInForce, Now, Proc
<1>7. PromiseInv'
  BY DEF TypesInv, PromiseInv, PromisedReality, PromisedWebSocket, PathInForce, Now
<1> QED
  BY <1>1, <1>2, <1>3, <1>4, <1>5, <1>6, <1>7

LEMMA InitKeeps ==
  ASSUME Init
  PROVE  LinksInv
<1> USE LinksConstants DEF Init
<1>1. NoPath \in Paths /\ Generated(1) \in Paths
  BY DEF Paths
<1>2. TypesInv
  <2>1. task \in [Proc -> [job : {"none", "start", "show"} \cup Applies,
                       at : {"none", "look", "store", "do"}, got : Paths, keys : Nat]]
    BY <1>1 DEF Idle, Applies
  <2>2. \A p \in Proc : task[p].keys = 0
    BY DEF Idle
  <2> QED
    BY <1>1, <2>1, <2>2 DEF TypesInv
<1>3. ArchiveInv
  BY <1>1 DEF ArchiveInv
<1>4. PhaseInv /\ ServedInv /\ GateInv /\ PromiseInv
  BY DEF PhaseInv, ServedInv, GateInv, PromiseInv
<1>5. TaskInv
  BY DEF TaskInv, Idle
<1> QED
  BY <1>2, <1>3, <1>4, <1>5 DEF LinksInv

LEMMA StutterKeeps ==
  ASSUME LinksInv, UNCHANGED vars
  PROVE  LinksInv'
<1> USE DEF LinksInv, vars, disk, world, xray, record, gateway
<1>1. TypesInv' /\ ArchiveInv' /\ Now' = Now /\ PathInForce' = PathInForce
  BY DEF TypesInv, ArchiveInv, Now, PathInForce
<1>2. PhaseInv' /\ TaskInv'
  BY <1>1 DEF PhaseInv, TaskInv
<1>3. ServedInv' /\ GateInv'
  BY <1>1 DEF ServedInv, GateInv, Served, Current
<1>4. PromiseInv'
  BY <1>1 DEF PromiseInv, PromisedReality, PromisedWebSocket
<1> QED
  BY <1>1, <1>2, <1>3, <1>4

LEMMA StepKeeps ==
  ASSUME LinksInv, [Next]_vars
  PROVE  LinksInv'
<1>1. CASE Container
  BY <1>1, DeployKeeps, BootPathKeeps, PanelStartKeeps, PanelCrashKeeps, XrayRestartKeeps
     DEF Container
<1>2. CASE Ensure
  BY <1>2, LookKeeps, StoreKeeps, StoreFailsKeeps, AppliedKeeps, ApplyFailsKeeps DEF Ensure
<1>3. CASE Operation
  BY <1>3, BeginShowKeeps, ShowKeeps, BeginApplyKeeps, ApplyKilledKeeps, BackupKeeps, RestoreKeeps,
     RotateKeeps DEF Operation
<1>4. CASE NewProxy
  BY <1>4, NewProxyKeeps
<1>5. CASE UNCHANGED vars
  BY <1>5, StutterKeeps
<1> QED
  BY <1>1, <1>2, <1>3, <1>4, <1>5 DEF Next

LEMMA LinksInvariant == Spec => []LinksInv
<1>1. Init => LinksInv
  BY InitKeeps
<1>2. LinksInv /\ [Next]_vars => LinksInv'
  BY StepKeeps
<1> QED
  BY <1>1, <1>2, PTL DEF Spec

LEMMA PromisesConnect ==
  ASSUME LinksInv
  PROVE  IssuedLinksLast
<1> SUFFICES ASSUME phase = "on", NEW l \in promised, Settled(l)
             PROVE  Connects(l)
  BY DEF IssuedLinksLast
<1>1. Current(xr) /\ xr # Nothing /\ rail.domain = env.domain
  BY DEF LinksInv, PhaseInv, ServedInv, Current, Nothing
<1>2. CASE PromisedReality(l)
  <2>1. ~unapplied /\ "torn" \notin mishaps
    BY <1>2 DEF Settled, PromisedReality
  <2>2. xr = Served
    BY <2>1 DEF LinksInv, ServedInv
  <2> QED
    BY <1>1, <1>2, <2>2 DEF PromisedReality, Connects, Served
<1>3. CASE PromisedWebSocket(l)
  <2>1. panel /\ ~behind /\ "raced" \notin mishaps
    BY <1>3 DEF Settled, PromisedWebSocket
  <2>2. gate = PathInForce /\ gate # NoPath
    BY <2>1 DEF LinksInv, GateInv
  <2>3. l.kind = "ws" /\ l.host = rail.domain /\ Now.fallback /\ l.path = LinkPath(PathInForce)
    BY <1>1, <1>3, <2>1, SettingsFields DEF PromisedWebSocket, Now
  <2>4. PathInForce \in Overrides \cup {Generated(n) : n \in 1..MaxPath}
    BY <2>2 DEF LinksInv, TypesInv, Paths, Overrides, PathInForce, Now
  <2>5. Requested(l.path) = gate
    BY <2>2, <2>3, <2>4, InForceSurvives
  <2> QED
    BY <1>1, <2>1, <2>2, <2>3, <2>5 DEF Connects, Admitted, Current
<1> QED
  BY <1>2, <1>3 DEF LinksInv, PromiseInv

\* Whatever the environments of the deployments (with plain overrides), however many they
\* are and however many clients, failures, crashes and killed applies there are, every
\* link that was handed out connects while the container is up and what the link depends
\* on is settled. A REALITY link is not settled from a killed apply to the next restart
\* of Xray, a WebSocket link not after two processes have stored a path.
THEOREM LinksLast == Spec => []IssuedLinksLast
  BY LinksInvariant, PromisesConnect, PTL

LEMMA StepKeepsPath ==
  ASSUME LinksInv, [Next]_vars, path # NoPath, path' # path
  PROVE  "lost" \in mishaps \/ \E c \in Client : task'[c].job = "restore"
<1> USE DEF vars, disk, world, xray, record, gateway
<1>1. path' = path \/ (\E p \in Proc : Store(p)) \/ (\E c \in Client : Restore(c))
  <2>1. CASE Container
    BY <2>1 DEF Container, BootPath, PanelStart, PanelCrash, XrayRestart, Deploy
  <2>2. CASE Ensure
    BY <2>2 DEF Ensure, Look, StoreFails, Applied, ApplyFails
  <2>3. CASE Operation
    BY <2>3 DEF Operation, BeginShow, Show, BeginApply, ApplyKilled, Backup, Rotate
  <2>4. CASE NewProxy
    BY <2>4 DEF NewProxy
  <2> QED
    BY <2>1, <2>2, <2>3, <2>4 DEF Next
<1>2. ASSUME NEW p \in Proc, Store(p)
      PROVE  "lost" \in mishaps
  BY <1>2 DEF LinksInv, TaskInv, Store
<1>3. ASSUME NEW c \in Client, Restore(c)
      PROVE  task'[c].job = "restore"
  BY <1>3 DEF LinksInv, TypesInv, Restore, RestoreOf, Job, Proc
<1> QED
  BY <1>1, <1>2, <1>3

\* Nothing but a restore ever replaces a stored path, however many processes are between
\* looking and storing; after a restore of an archive without a path, and until the next
\* deployment, they may replace each other's.
THEOREM StoredPathStays == Spec => PathKept
<1>1. LinksInv /\ [Next]_vars =>
        [path # NoPath /\ path' # path =>
           "lost" \in mishaps \/ \E c \in Client : task'[c].job = "restore"]_vars
  BY StepKeepsPath
<1> QED
  BY <1>1, LinksInvariant, PTL DEF Spec, PathKept

-----------------------------------------------------------------------------
(* NewLinksAdmitted, where it holds *)

LEMMA OnlyShowPromises ==
  ASSUME [Next]_vars, NEW l \in promised' \ promised
  PROVE  \E c \in Client : Show(c)
<1> USE DEF vars, disk, world, xray, record, gateway
<1>1. promised' \subseteq promised \/ \E c \in Client : Show(c)
  <2>1. CASE Container
    BY <2>1 DEF Container, BootPath, PanelStart, PanelCrash, XrayRestart, Deploy
  <2>2. CASE Ensure
    BY <2>2 DEF Ensure, Look, Store, StoreFails, Applied, ApplyFails
  <2>3. CASE Operation
    BY <2>3 DEF Operation, BeginShow, BeginApply, ApplyKilled, Backup, Restore, RestoreOf, Rotate
  <2>4. CASE NewProxy
    BY <2>4 DEF NewProxy
  <2> QED
    BY <2>1, <2>2, <2>3, <2>4 DEF Next
<1> QED
  BY <1>1

\* NewLinksAdmitted, unless a restore has changed the path, or the panel has failed to
\* read it, since the panel started (LinksRestore shows that it fails then), or a path has
\* been stored over another.
UsualLinksAdmitted ==
  [][panel /\ ~behind /\ "raced" \notin mishaps =>
       \A l \in promised' \ promised : l.kind = "ws" => Admitted(l.path)]_vars

LEMMA ShownAdmitted ==
  ASSUME LinksInv, panel, ~behind, "raced" \notin mishaps, NEW c \in Client, Show(c),
         NEW l \in promised' \ promised, l.kind = "ws"
  PROVE  Admitted(l.path)
<1>1. promised' = promised \cup {k \in Shown(c) : UpToDate(k)} /\ Ready(c, "show")
  BY DEF Show
<1>2. l \in WebSocketLink(Now, rail, task[c].got)
  BY <1>1 DEF Shown, RealityLink
<1>3. /\ FallbackAvailable(Now, rail) /\ ~PathRefused(task[c].got)
      /\ l.path = LinkPath(task[c].got)
  BY <1>2 DEF WebSocketLink
<1>4. task[c].got = PathInForce /\ PathInForce # NoPath
  BY <1>1, <1>3 DEF LinksInv, TaskInv, Ready, Proc, PathRefused
<1>5. PathInForce \in Overrides \cup {Generated(n) : n \in 1..MaxPath}
  BY <1>4 DEF LinksInv, TypesInv, Paths, Overrides, PathInForce, Now
<1>6. Requested(l.path) = PathInForce
  BY <1>3, <1>4, <1>5, InForceSurvives
<1>7. gate = PathInForce /\ Now.fallback
  BY <1>3 DEF LinksInv, GateInv, FallbackAvailable
<1> QED
  BY <1>4, <1>6, <1>7 DEF Admitted

\* A WebSocket link that is handed out while the panel is up is admitted by its gateway,
\* through deployments, crashes, rotations and failures of the database, as long as the
\* gateway's path is not one that has been replaced or that could not be read.
THEOREM NewLinksUsuallyAdmitted == Spec => UsualLinksAdmitted
<1>1. LinksInv /\ [Next]_vars =>
        [panel /\ ~behind /\ "raced" \notin mishaps =>
           \A l \in promised' \ promised : l.kind = "ws" => Admitted(l.path)]_vars
  BY OnlyShowPromises, ShownAdmitted
<1> QED
  BY <1>1, LinksInvariant, PTL DEF Spec, UsualLinksAdmitted

-----------------------------------------------------------------------------
(* The ranges of LinksTyped *)

Made == {NoPath} \cup {Generated(n) : n \in 1..made}

\* Keys are made before the first boot and by rotations. What is stored was generated, or
\* is about to be stored, or lies in an archive.
RangeInv ==
  /\ newest <= MaxKeys + 2 /\ (keys = 0 => newest <= 1)
  /\ xr.keys \in 0..newest /\ file.keys \in 0..newest
  /\ path \in Made
  /\ \A p \in Proc : task[p].at = "store" => task[p].got \in Made
  /\ \A copy \in archive : copy.path \in Made
  /\ gate # NoPath => panel
  /\ \A l \in promised : l.kind = "reality" => l.port # 0

LEMMA InitRanges == Init => RangeInv
BY LinksConstants DEF Init, RangeInv, Made, Nothing, Idle

\* Each part with the actions that write what it speaks of.
LEMMA StepRanges ==
  ASSUME LinksInv, LinksInv', RangeInv, [Next]_vars
  PROVE  RangeInv'
<1> USE LinksConstants DEF disk, world, xray, record, gateway
<1>0. /\ TypesInv /\ ArchiveInv /\ PhaseInv /\ TaskInv /\ TypesInv'
      /\ MaxKeys \in Nat /\ MaxPath \in Nat
  BY DEF LinksInv
<1>1. newest' <= MaxKeys + 2 /\ (keys' = 0 => newest' <= 1)
  <2> USE <1>0 DEF RangeInv
  <2>1. ASSUME NEW e \in Environments, Deploy(e)
        PROVE  newest' <= MaxKeys + 2 /\ (keys' = 0 => newest' <= 1)
    <3>1. \/ keys' = keys /\ newest' = newest
          \/ keys = 0 /\ keys' = newest + 1 /\ newest' = newest + 1
      BY <2>1 DEF Deploy
    <3> QED
      BY <3>1 DEF TypesInv
  <2>2. ASSUME NEW c \in Client, Restore(c)
        PROVE  newest' <= MaxKeys + 2 /\ (keys' = 0 => newest' <= 1)
    BY <2>2 DEF Restore, RestoreOf, ArchiveInv, TypesInv
  <2>3. ASSUME NEW c \in Client, Rotate(c)
        PROVE  newest' <= MaxKeys + 2 /\ (keys' = 0 => newest' <= 1)
    BY <2>3 DEF Rotate, TypesInv
  <2>4. CASE UNCHANGED <<keys, newest>>
    BY <2>4
  <2>5. CASE Container
    BY <2>1, <2>4, <2>5 DEF Container, BootPath, PanelStart, PanelCrash, XrayRestart
  <2>6. CASE Ensure
    BY <2>4, <2>6 DEF Ensure, Look, Store, StoreFails, Applied, ApplyFails
  <2>7. CASE Operation
    BY <2>2, <2>3, <2>4, <2>7 DEF Operation, BeginShow, Show, BeginApply, ApplyKilled, Backup
  <2> QED
    BY <2>4, <2>5, <2>6, <2>7 DEF Next, NewProxy, vars
<1>s. xr'.keys \in 0..newest' /\ file'.keys \in 0..newest'
  <2>1. \A config \in {xr', file'} : config \in {xr, file, Served, Nothing}
    <3>1. CASE Container
      BY <3>1 DEF Container, BootPath, PanelStart, PanelCrash, XrayRestart, Restarted, Deploy
    <3>2. CASE Ensure
      BY <3>2 DEF Ensure, Look, Store, StoreFails, Applied, ApplyFails, Restarted, Synchronised
    <3>3. CASE Operation
      BY <3>3 DEF Operation, BeginShow, Show, BeginApply, ApplyKilled, Backup, Restore, RestoreOf,
         Rotate
    <3> QED
      BY <3>1, <3>2, <3>3 DEF Next, NewProxy, vars
  <2>2. newest <= newest'
    <3>1. newest' = newest \/ newest' = newest + 1
      <4>1. CASE Container
        BY <4>1 DEF Container, BootPath, PanelStart, PanelCrash, XrayRestart, Deploy
      <4>2. CASE Ensure
        BY <4>2 DEF Ensure, Look, Store, StoreFails, Applied, ApplyFails
      <4>3. CASE Operation
        BY <4>3 DEF Operation, BeginShow, Show, BeginApply, ApplyKilled, Backup, Restore,
           RestoreOf, Rotate
      <4> QED
        BY <4>1, <4>2, <4>3 DEF Next, NewProxy, vars
    <3> QED
      BY <1>0, <3>1 DEF TypesInv
  <2>3. \A config \in {xr, file, Served, Nothing} : config.keys \in 0..newest
    BY <1>0 DEF RangeInv, TypesInv, Served, Nothing
  <2>4. newest \in Nat /\ newest' \in Nat
    BY <1>0 DEF TypesInv
  <2> QED
    BY <2>1, <2>2, <2>3, <2>4
<1>2. Made \subseteq Made'
  <2>1. made' = made \/ made' = made + 1
    <3>1. CASE Container
      BY <3>1 DEF Container, BootPath, PanelStart, PanelCrash, XrayRestart, Deploy
    <3>2. CASE Ensure
      BY <3>2 DEF Ensure, Look, Store, StoreFails, Applied, ApplyFails
    <3>3. CASE Operation
      BY <3>3 DEF Operation, BeginShow, Show, BeginApply, ApplyKilled, Backup, Restore, RestoreOf, Rotate
    <3> QED
      BY <3>1, <3>2, <3>3 DEF Next, NewProxy, vars
  <2>2. made \in Nat /\ made' \in Nat /\ made <= made'
    BY <1>0, <2>1 DEF TypesInv
  <2>3. 1..made \subseteq 1..made'
    BY <2>2
  <2> QED
    BY <2>3 DEF Made
<1>3. path' \in Made'
  <2>1. path' \in Made
    <3> USE DEF RangeInv
    <3>1. CASE Container
      BY <3>1 DEF Container, BootPath, PanelStart, PanelCrash, XrayRestart, Deploy
    <3>2. CASE Ensure
      BY <3>2 DEF Ensure, Look, Store, StoreFails, Applied, ApplyFails
    <3>3. CASE Operation
      BY <3>3 DEF Operation, BeginShow, Show, BeginApply, ApplyKilled, Backup, Restore, RestoreOf, Rotate
    <3> QED
      BY <3>1, <3>2, <3>3 DEF Next, NewProxy, vars
  <2> QED
    BY <1>2, <2>1
<1>4. ASSUME NEW q \in Proc, task'[q].at = "store"
      PROVE  task'[q].got \in Made'
  <2>1. (task[q].at = "store" /\ task'[q].got = task[q].got) \/ Look(q)
    <3> USE <1>0, <1>4
    <3>1. CASE Container
      BY <3>1 DEF Container, BootPath, PanelStart, PanelCrash, XrayRestart, Deploy, Idle, Job, TypesInv
    <3>2. CASE Ensure
      BY <3>2 DEF Ensure, Look, Store, StoreFails, Applied, ApplyFails, Idle, Job, TypesInv
    <3>3. CASE Operation
      BY <3>3 DEF Operation, BeginShow, Show, BeginApply, ApplyKilled, Backup, Restore, RestoreOf, Rotate,
         Idle, Job, TypesInv
    <3> QED
      BY <3>1, <3>2, <3>3 DEF Next, NewProxy, vars
  <2>2. CASE task[q].at = "store" /\ task'[q].got = task[q].got
    BY <1>2, <2>2 DEF RangeInv
  <2>3. CASE Look(q)
    <3>1. made' = made + 1 /\ task'[q].got = Generated(made + 1)
      BY <1>0, <1>4, <2>3 DEF Look, TypesInv
    <3>2. made' \in 1..made'
      BY <1>0, <3>1 DEF TypesInv
    <3> QED
      BY <3>1, <3>2 DEF Made
  <2> QED
    BY <2>1, <2>2, <2>3
<1>5. ASSUME NEW copy \in archive'
      PROVE  copy.path \in Made'
  <2>1. copy \in archive \/ copy.path = path
    <3> USE <1>5
    <3>1. CASE Container
      BY <3>1 DEF Container, BootPath, PanelStart, PanelCrash, XrayRestart, Deploy
    <3>2. CASE Ensure
      BY <3>2 DEF Ensure, Look, Store, StoreFails, Applied, ApplyFails
    <3>3. CASE Operation
      BY <3>3 DEF Operation, BeginShow, Show, BeginApply, ApplyKilled, Backup, Restore, RestoreOf, Rotate
    <3> QED
      BY <3>1, <3>2, <3>3 DEF Next, NewProxy, vars
  <2> QED
    BY <1>2, <2>1 DEF RangeInv
<1>6. gate' # NoPath => panel'
  <2> USE DEF RangeInv
  <2>1. CASE Container
    BY <2>1 DEF Container, BootPath, PanelStart, PanelCrash, XrayRestart, Deploy
  <2>2. CASE Ensure
    BY <2>2 DEF Ensure, Look, Store, StoreFails, Applied, ApplyFails
  <2>3. CASE Operation
    BY <2>3 DEF Operation, BeginShow, Show, BeginApply, ApplyKilled, Backup, Restore, RestoreOf, Rotate
  <2> QED
    BY <2>1, <2>2, <2>3 DEF Next, NewProxy, vars
<1>7. ASSUME NEW l \in promised', l.kind = "reality"
      PROVE  l.port # 0
  <2>1. l \in promised \/ \E c \in Client : l \in Shown(c)
    <3> USE <1>7
    <3>1. CASE Container
      BY <3>1 DEF Container, BootPath, PanelStart, PanelCrash, XrayRestart, Deploy
    <3>2. CASE Ensure
      BY <3>2 DEF Ensure, Look, Store, StoreFails, Applied, ApplyFails
    <3>3. CASE Operation
      BY <3>3 DEF Operation, BeginShow, Show, BeginApply, ApplyKilled, Backup, Restore, RestoreOf, Rotate
    <3> QED
      BY <3>1, <3>2, <3>3 DEF Next, NewProxy, vars
  <2>2. ASSUME NEW c \in Client, l \in Shown(c)
        PROVE  l.port # 0
    <3>1. l \in RealityLink(Now, rail, task[c].keys)
      BY <1>7, <2>2 DEF Shown, WebSocketLink
    <3>2. l.port \in PortRange
      BY <3>1 DEF RealityLink, Reachable
    <3>3. 0 \notin PortRange
      BY DEF PortRange
    <3> QED
      BY <3>2, <3>3
  <2> QED
    BY <1>7, <2>1, <2>2 DEF RangeInv
<1> QED
  BY <1>1, <1>s, <1>3, <1>4, <1>5, <1>6, <1>7 DEF RangeInv

LEMMA RangesTyped ==
  ASSUME LinksInv, RangeInv
  PROVE  LinksTyped
<1>1. TypesInv /\ MaxKeys \in Nat
  BY LinksConstants DEF LinksInv
<1>2. \A p \in Proc : /\ task[p].job \in {"none", "start", "show"} \cup Applies
                      /\ task[p].at \in {"none", "look", "store", "do"}
  BY <1>1 DEF TypesInv
<1>3. ASSUME NEW l \in promised
      PROVE  \/ l.kind = "reality" /\ l.keys \in 1..newest /\ l.port \in 1..MaxProxy
             \/ l.kind = "ws" /\ l.path # NoPath
  <2>1. CASE PromisedReality(l)
    BY <1>1, <2>1, LinksConstants DEF PromisedReality, RangeInv, TypesInv
  <2>2. CASE PromisedWebSocket(l)
    BY <2>2 DEF PromisedWebSocket
  <2> QED
    BY <2>1, <2>2 DEF LinksInv, PromiseInv
<1>4. path \in {NoPath} \cup {Generated(n) : n \in 1..made}
  BY DEF RangeInv, Made
<1>5. newest \in 0..(MaxKeys + 2) /\ keys \in 0..newest /\ {xr.keys, file.keys} \subseteq 0..newest
  BY <1>1 DEF TypesInv, RangeInv
<1> QED
  BY <1>1, <1>2, <1>3, <1>4, <1>5 DEF LinksTyped, TypesInv, RangeInv

\* What is stored was generated, what is served was made, and what is promised has keys, a
\* port of the proxy and a path.
THEOREM LinksAreTyped == Spec => []LinksTyped
<1>1. Init => RangeInv
  BY InitRanges
<1>2. LinksInv /\ LinksInv' /\ RangeInv /\ [Next]_vars => RangeInv'
  BY StepRanges
<1>3. LinksInv /\ RangeInv => LinksTyped
  BY RangesTyped
<1> QED
  BY <1>1, <1>2, <1>3, LinksInvariant, PTL DEF Spec
=============================================================================
