----------------------------- MODULE SignInProofs -----------------------------
(***************************************************************************)
(* Machine-checked proofs about SignIn, for any number of sessions, codes, *)
(* challenges, passkeys and concurrent requests, and for any ladder of     *)
(* lockout thresholds.                                                     *)
(***************************************************************************)
EXTENDS SignIn, FiniteSetTheorems, TLAPS

-----------------------------------------------------------------------------
\* The inductive invariant.  What a request carries, by the call it is about to
\* make: the session it acts on exists, the lock it sets lasts.
Fits(x) ==
  /\ x.pc \in {"issue", "promote", "code", "mark", "revive", "elevate"} =>
       x.s \in Session /\ session[x.s].made
  /\ x.pc = "consume" => /\ x.ch \in Challenge
                         /\ x.op \in Ceremony \/ (x.s \in Session /\ session[x.s].made)
  /\ x.pc = "ttl" => x.n >= Threshold[1]
  /\ x.pc = "lock" => x.n \in 1..LockTtl[Len(LockTtl)]

Typed == TypeOK /\ \A r \in Req : Fits(req[r])

\* The lockout.  Requests that have verified a wrong password: those the counter
\* has not met yet, and those that will find a lock or set one; and requests
\* that have passed checkLockout and may still verify one.
AtIncr(x) == x.pc = "incr"
Locking(x) == x.pc \in {"incr", "ttl", "lock"} \/ (x.pc = "expire" /\ x.n >= Threshold[1])
Passed(x) == x.pc = "password"

Uncounted == {q \in Req : AtIncr(req[q])}
Lockers == {q \in Req : Locking(req[q])}
Passers == {q \in Req : Passed(req[q])}

Guessed ==
  /\ guesses <= fails + Cardinality(Uncounted) + errors
  /\ lockTtl = 0 => guesses <= Threshold[1] - 1 + Cardinality(Lockers) + errors
  /\ guesses + Cardinality(Passers) <= Threshold[1] - 1 + Cardinality(Req) + errors

\* Recovery codes: who holds one has found it, and who is past the mark has
\* marked it; a code that was not raced is out of reach once it has signed in.
Holds(x) ==
  /\ x.c # None => x.pc \in {"mark", "revive"}
  /\ x.pc \in {"mark", "revive"} => x.c \in Code /\ code[x.c] # "free"
  /\ x.pc = "revive" => code[x.c] = "used"

Coded ==
  /\ \A r \in Req : Holds(req[r])
  /\ \A r, q \in Req : r # q /\ req[r].c # None /\ req[r].c = req[q].c => req[r].c \in raced
  /\ \A c \in Code \ raced :
       /\ used[c] <= 1
       /\ used[c] = 1 => code[c] = "used" /\ \A r \in Req : req[r].c # c

\* Challenges: a stored one was issued, is stored for one ceremony, and was not
\* accepted before.
Challenged ==
  /\ \A m \in Ceremony : stored[m] # None => stored[m] \in issued /\ spent[stored[m]] = 0
  /\ stored["registration"] = stored["authentication"] => stored["registration"] = None
  /\ \A h \in Challenge : spent[h] <= 1 /\ (h \notin issued => spent[h] = 0)

\* Passkeys: unless two deletions overlap, there is one deletion at a time, and it
\* leaves a way in.
Kept ==
  ~collided =>
    /\ \A r, q \in Req : req[r].pc = "delete" /\ req[q].pc = "delete" => r = q
    /\ \A r \in Req : req[r].pc = "delete" => password \/ passkeys \ {req[r].k} # {}

IndInv == Typed /\ Guessed /\ Coded /\ Challenged /\ EndedStaysEnded /\ Kept

-----------------------------------------------------------------------------
\* Lemmas about the operators.

\* The ladder of lockouts: whoever meets the first threshold locks for a while,
\* and for no longer than the last step says.
LEMMA Ladder ==
  /\ Threshold[1] \in Nat \ {0} /\ Len(LockTtl) \in Nat \ {0} /\ LockTtl[Len(LockTtl)] \in Nat
  /\ \A n \in Nat : n >= Threshold[1] => TtlOf(n) \in 1..LockTtl[Len(LockTtl)]
<1>1. /\ Len(Threshold) \in Nat \ {0} /\ Len(LockTtl) = Len(Threshold)
      /\ DOMAIN Threshold = 1..Len(Threshold)
      /\ \A i \in 1..Len(Threshold) : Threshold[i] \in Nat \ {0} /\ LockTtl[i] \in Nat \ {0}
      /\ \A i, j \in 1..Len(Threshold) : i < j => LockTtl[i] < LockTtl[j]
  BY SignInAssumption
<1>2. ASSUME NEW n \in Nat, n >= Threshold[1]
      PROVE  TtlOf(n) \in 1..LockTtl[Len(LockTtl)]
  <2> DEFINE met == {i \in DOMAIN Threshold : n >= Threshold[i]}
  <2>1. met \subseteq 1..Len(Threshold) /\ 1 \in met
    BY <1>1, <1>2
  <2>2. IsFiniteSet(1..Len(Threshold)) /\ Cardinality(1..Len(Threshold)) = Len(Threshold)
    <3>1. Len(Threshold) \in Int /\ 1 \in Int /\ 1 <= Len(Threshold)
      BY <1>1
    <3> QED
      BY <3>1, FS_Interval
  <2>3. /\ IsFiniteSet(met) /\ Cardinality(met) \in Nat /\ Cardinality(met) <= Len(Threshold)
        /\ Cardinality(met) # 0
    BY <2>1, <2>2, FS_Subset, FS_CardinalityType, FS_EmptySet
  <2>4. TtlOf(n) = LockTtl[Cardinality(met)]
    BY DEF TtlOf
  <2> HIDE DEF met
  <2> QED
    BY <1>1, <2>3, <2>4
<1> QED
  BY <1>1, <1>2

LEMMA IdleFits ==
  /\ Idle \in Request /\ Fits(Idle) /\ Fits(Idle)' /\ Holds(Idle) /\ Holds(Idle)'
  /\ Idle.pc = "idle" /\ Idle.c = None
  /\ ~AtIncr(Idle) /\ ~Locking(Idle) /\ ~Passed(Idle)
<1>1. /\ Idle \in Request /\ Idle.pc = "idle" /\ Idle.c = None
  BY DEF Idle, Request, Pc, Op
<1> QED
  BY <1>1 DEF Fits, Holds, AtIncr, Locking, Passed

\* Putting x in the slot of r, unfolded once.
LEMMA PutReq ==
  ASSUME req \in [Req -> Request], NEW r \in Req, NEW x \in Request, Put(r, x)
  PROVE  /\ req' \in [Req -> Request] /\ req'[r] = x
         /\ \A q \in Req : q # r => req'[q] = req[q]
  BY DEF Put

\* The records requests become.
LEMMA MoveTo ==
  ASSUME NEW y \in Request, NEW p \in Pc, NEW x, x = [y EXCEPT !.pc = p]
  PROVE  /\ x \in Request /\ x.pc = p /\ x.op = y.op /\ x.s = y.s /\ x.c = y.c /\ x.k = y.k
         /\ x.ch = y.ch /\ x.n = y.n /\ x.mfa = y.mfa /\ x.scan = y.scan
  BY DEF Request

LEMMA StartAt ==
  ASSUME NEW p \in Pc, NEW o \in Op, NEW x, x = [Idle EXCEPT !.pc = p, !.op = o]
  PROVE  /\ x \in Request /\ x.pc = p /\ x.op = o /\ x.c = None
  BY DEF Request, Idle

\* Two sets of requests that differ at most in r.
LEMMA CardMove ==
  ASSUME NEW S \in SUBSET Req, NEW T \in SUBSET Req, NEW r \in Req,
         \A q \in Req : q # r => (q \in S <=> q \in T)
  PROVE  /\ IsFiniteSet(S) /\ IsFiniteSet(T)
         /\ Cardinality(S) \in Nat /\ Cardinality(T) \in Nat
         /\ (r \in S <=> r \in T) => Cardinality(T) = Cardinality(S)
         /\ (r \in S /\ r \notin T) => Cardinality(T) = Cardinality(S) - 1
         /\ (r \notin S /\ r \in T) => Cardinality(T) = Cardinality(S) + 1
<1>1. /\ IsFiniteSet(S) /\ IsFiniteSet(T)
      /\ Cardinality(S) \in Nat /\ Cardinality(T) \in Nat
  BY FS_Subset, FS_CardinalityType, SignInAssumption
<1>2. (r \in S <=> r \in T) => S = T
  OBVIOUS
<1>3. (r \in S /\ r \notin T) => T = S \ {r}
  OBVIOUS
<1>4. (r \notin S /\ r \in T) => T = S \cup {r}
  OBVIOUS
<1> QED
  BY <1>1, <1>2, <1>3, <1>4, FS_AddElement, FS_RemoveElement

-----------------------------------------------------------------------------
\* The lockout.

LEMMA GuessTypes ==
  ASSUME Typed
  PROVE  /\ fails \in Nat /\ lockTtl \in Nat /\ guesses \in Nat /\ errors \in Nat
         /\ req \in [Req -> Request] /\ Threshold[1] \in Nat \ {0} /\ Cardinality(Req) \in Nat
         /\ Cardinality(Uncounted) \in Nat /\ Cardinality(Lockers) \in Nat
         /\ Cardinality(Passers) \in Nat
<1>1. Uncounted \subseteq Req /\ Lockers \subseteq Req /\ Passers \subseteq Req
  BY DEF Uncounted, Lockers, Passers
<1>2. /\ Cardinality(Req) \in Nat /\ Cardinality(Uncounted) \in Nat
      /\ Cardinality(Lockers) \in Nat /\ Cardinality(Passers) \in Nat
  BY <1>1, FS_Subset, FS_CardinalityType, SignInAssumption
<1>3. /\ fails \in Nat /\ guesses \in Nat /\ errors \in Nat
      /\ req \in [Req -> Request] /\ lockTtl \in 0..LockTtl[Len(LockTtl)]
  BY DEF Typed, TypeOK
<1> QED
  BY <1>2, <1>3, Ladder

\* How a move of request r changes what is counted.
LEMMA GuessSets ==
  ASSUME Typed, NEW r \in Req, NEW x \in Request, Put(r, x)
  PROVE  /\ Cardinality(Uncounted') \in Nat /\ Cardinality(Lockers') \in Nat
         /\ Cardinality(Passers') \in Nat
         /\ Cardinality(Uncounted') <= Cardinality(Lockers')
         /\ (AtIncr(req[r]) <=> AtIncr(x)) => Cardinality(Uncounted') = Cardinality(Uncounted)
         /\ (AtIncr(req[r]) /\ ~AtIncr(x)) => Cardinality(Uncounted') = Cardinality(Uncounted) - 1
         /\ (~AtIncr(req[r]) /\ AtIncr(x)) => Cardinality(Uncounted') = Cardinality(Uncounted) + 1
         /\ (Locking(req[r]) <=> Locking(x)) => Cardinality(Lockers') = Cardinality(Lockers)
         /\ (Locking(req[r]) /\ ~Locking(x)) => Cardinality(Lockers') = Cardinality(Lockers) - 1
         /\ (~Locking(req[r]) /\ Locking(x)) => Cardinality(Lockers') = Cardinality(Lockers) + 1
         /\ (Passed(req[r]) <=> Passed(x)) => Cardinality(Passers') = Cardinality(Passers)
         /\ (Passed(req[r]) /\ ~Passed(x)) => Cardinality(Passers') = Cardinality(Passers) - 1
         /\ (~Passed(req[r]) /\ Passed(x)) => Cardinality(Passers') = Cardinality(Passers) + 1
<1>1. /\ req'[r] = x /\ \A q \in Req : q # r => req'[q] = req[q]
  BY PutReq DEF Typed, TypeOK
<1>2. /\ Uncounted' = {q \in Req : AtIncr(req'[q])} /\ Lockers' = {q \in Req : Locking(req'[q])}
      /\ Passers' = {q \in Req : Passed(req'[q])}
  BY DEF Uncounted, Lockers, Passers, AtIncr, Locking, Passed
<1>3. /\ Uncounted' \in SUBSET Req /\ \A q \in Req : q # r => (q \in Uncounted <=> q \in Uncounted')
      /\ r \in Uncounted <=> AtIncr(req[r])
      /\ r \in Uncounted' <=> AtIncr(x)
  BY <1>1, <1>2 DEF Uncounted
<1>4. /\ Lockers' \in SUBSET Req /\ \A q \in Req : q # r => (q \in Lockers <=> q \in Lockers')
      /\ r \in Lockers <=> Locking(req[r])
      /\ r \in Lockers' <=> Locking(x)
  BY <1>1, <1>2 DEF Lockers
<1>5. /\ Passers' \in SUBSET Req /\ \A q \in Req : q # r => (q \in Passers <=> q \in Passers')
      /\ r \in Passers <=> Passed(req[r])
      /\ r \in Passers' <=> Passed(x)
  BY <1>1, <1>2 DEF Passers
<1>6. Uncounted \in SUBSET Req /\ Lockers \in SUBSET Req /\ Passers \in SUBSET Req
  BY DEF Uncounted, Lockers, Passers
<1>7. Cardinality(Uncounted') <= Cardinality(Lockers')
  <2>1. Uncounted' \subseteq Lockers' /\ IsFiniteSet(Lockers')
    BY <1>2, <1>4, FS_Subset, SignInAssumption DEF AtIncr, Locking
  <2> QED
    BY <2>1, FS_Subset
<1>8. /\ Cardinality(Uncounted') \in Nat
      /\ (AtIncr(req[r]) <=> AtIncr(x)) => Cardinality(Uncounted') = Cardinality(Uncounted)
      /\ (AtIncr(req[r]) /\ ~AtIncr(x)) => Cardinality(Uncounted') = Cardinality(Uncounted) - 1
      /\ (~AtIncr(req[r]) /\ AtIncr(x)) => Cardinality(Uncounted') = Cardinality(Uncounted) + 1
  <2> PICK S \in SUBSET Req, T \in SUBSET Req : S = Uncounted /\ T = Uncounted'
    BY <1>3, <1>6
  <2> QED
    BY <1>3, CardMove
<1>9. /\ Cardinality(Lockers') \in Nat
      /\ (Locking(req[r]) <=> Locking(x)) => Cardinality(Lockers') = Cardinality(Lockers)
      /\ (Locking(req[r]) /\ ~Locking(x)) => Cardinality(Lockers') = Cardinality(Lockers) - 1
      /\ (~Locking(req[r]) /\ Locking(x)) => Cardinality(Lockers') = Cardinality(Lockers) + 1
  <2> PICK S \in SUBSET Req, T \in SUBSET Req : S = Lockers /\ T = Lockers'
    BY <1>4, <1>6
  <2> QED
    BY <1>4, CardMove
<1>10. /\ Cardinality(Passers') \in Nat
       /\ (Passed(req[r]) <=> Passed(x)) => Cardinality(Passers') = Cardinality(Passers)
       /\ (Passed(req[r]) /\ ~Passed(x)) => Cardinality(Passers') = Cardinality(Passers) - 1
       /\ (~Passed(req[r]) /\ Passed(x)) => Cardinality(Passers') = Cardinality(Passers) + 1
  <2> PICK S \in SUBSET Req, T \in SUBSET Req : S = Passers /\ T = Passers'
    BY <1>5, <1>6
  <2> QED
    BY <1>5, CardMove
<1> QED
  BY <1>7, <1>8, <1>9, <1>10

\* An idle slot is in neither count.
LEMMA GuessRoom ==
  ASSUME Typed, NEW r \in Req, ~Locking(req[r]), ~Passed(req[r])
  PROVE  Cardinality(Lockers) + Cardinality(Passers) + 1 <= Cardinality(Req)
<1>1. /\ Lockers \subseteq Req \ {r} /\ Passers \subseteq Req \ {r} /\ Lockers \cap Passers = {}
  BY DEF Lockers, Passers, Locking, Passed
<1>2. IsFiniteSet(Lockers) /\ IsFiniteSet(Passers) /\ IsFiniteSet(Req \ {r})
  BY <1>1, FS_Subset, SignInAssumption
<1>3. /\ Cardinality(Lockers \cup Passers) = Cardinality(Lockers) + Cardinality(Passers)
  <2>1. /\ Cardinality(Lockers \cup Passers)
             = Cardinality(Lockers) + Cardinality(Passers) - Cardinality(Lockers \cap Passers)
        /\ Cardinality(Lockers \cap Passers) = 0
    BY <1>1, <1>2, FS_Union, FS_EmptySet
  <2> QED
    BY <2>1, GuessTypes
<1>4. Cardinality(Lockers \cup Passers) <= Cardinality(Req \ {r})
  BY <1>1, <1>2, FS_Subset
<1>5. Cardinality(Req \ {r}) = Cardinality(Req) - 1
  BY FS_RemoveElement, SignInAssumption
<1> QED
  BY <1>3, <1>4, <1>5, GuessTypes

\* Every move but those of the failing login.
LEMMA GuessedAlone ==
  ASSUME Typed, Guessed, NEW r \in Req, NEW x \in Request, Put(r, x),
         fails' = fails, lockTtl' = lockTtl, guesses' = guesses,
         AtIncr(x) => AtIncr(req[r]), Locking(x) => Locking(req[r]), Passed(x) => Passed(req[r]),
         \/ errors' = errors + 1
         \/ /\ errors' = errors
            /\ AtIncr(req[r]) => AtIncr(x)
            /\ Locking(req[r]) => Locking(x)
  PROVE  Guessed'
<1>1. /\ Cardinality(Uncounted') \in Nat /\ Cardinality(Lockers') \in Nat
      /\ Cardinality(Passers') \in Nat
      /\ Cardinality(Passers') <= Cardinality(Passers)
      /\ \/ Cardinality(Uncounted') = Cardinality(Uncounted)
         \/ Cardinality(Uncounted') = Cardinality(Uncounted) - 1 /\ errors' = errors + 1
      /\ \/ Cardinality(Lockers') = Cardinality(Lockers)
         \/ Cardinality(Lockers') = Cardinality(Lockers) - 1 /\ errors' = errors + 1
  BY GuessSets, GuessTypes
<1> QED
  BY <1>1, GuessTypes DEF Guessed

\* The lockout's own steps.
LEMMA GuessedCheck ==
  ASSUME Typed, Guessed, NEW r \in Req, NEW x \in Request, Put(r, x),
         fails' = fails, lockTtl' = lockTtl, guesses' = guesses,
         req[r].pc = "idle", x.pc = "password",
         (errors' = errors /\ lockTtl = 0) \/ errors' = errors + 1
  PROVE  Guessed'
<1>1. /\ ~AtIncr(req[r]) /\ ~Locking(req[r]) /\ ~Passed(req[r])
      /\ ~AtIncr(x) /\ ~Locking(x) /\ Passed(x)
  BY DEF AtIncr, Locking, Passed
<1>2. /\ Cardinality(Uncounted') = Cardinality(Uncounted)
      /\ Cardinality(Lockers') = Cardinality(Lockers)
      /\ Cardinality(Passers') = Cardinality(Passers) + 1
      /\ Cardinality(Lockers) + Cardinality(Passers) + 1 <= Cardinality(Req)
  BY <1>1, GuessSets, GuessRoom
<1> QED
  BY <1>2, GuessTypes DEF Guessed

LEMMA GuessedWrong ==
  ASSUME Typed, Guessed, NEW r \in Req, NEW x \in Request, Put(r, x),
         fails' = fails, lockTtl' = lockTtl, guesses' = guesses + 1, errors' = errors,
         req[r].pc = "password", x.pc = "incr"
  PROVE  Guessed'
<1>1. /\ ~AtIncr(req[r]) /\ ~Locking(req[r]) /\ Passed(req[r])
      /\ AtIncr(x) /\ Locking(x) /\ ~Passed(x)
  BY DEF AtIncr, Locking, Passed
<1>2. /\ Cardinality(Uncounted') = Cardinality(Uncounted) + 1
      /\ Cardinality(Lockers') = Cardinality(Lockers) + 1
      /\ Cardinality(Passers') = Cardinality(Passers) - 1
  BY <1>1, GuessSets
<1> QED
  BY <1>2, GuessTypes DEF Guessed

LEMMA GuessedIncr ==
  ASSUME Typed, Guessed, NEW r \in Req, NEW x \in Request, Put(r, x),
         fails' = fails + 1, lockTtl' = lockTtl, guesses' = guesses, errors' = errors,
         req[r].pc = "incr", x.pc = "expire", x.n = fails + 1
  PROVE  Guessed'
<1>1. /\ AtIncr(req[r]) /\ Locking(req[r]) /\ ~Passed(req[r])
      /\ ~AtIncr(x) /\ ~Passed(x) /\ (Locking(x) <=> fails' >= Threshold[1])
  BY DEF AtIncr, Locking, Passed
<1>2. /\ Cardinality(Uncounted') = Cardinality(Uncounted) - 1
      /\ Cardinality(Passers') = Cardinality(Passers)
      /\ Cardinality(Uncounted') <= Cardinality(Lockers')
      /\ fails' >= Threshold[1] => Cardinality(Lockers') = Cardinality(Lockers)
      /\ Cardinality(Uncounted') \in Nat /\ Cardinality(Lockers') \in Nat
  BY <1>1, GuessSets
<1> QED
  BY <1>2, GuessTypes DEF Guessed

\* A request that meets the first threshold ends under a lock.
LEMMA GuessedLocked ==
  ASSUME Typed, Guessed, NEW r \in Req, NEW x \in Request, Put(r, x),
         fails' = fails, guesses' = guesses, errors' = errors, lockTtl' # 0,
         req[r].pc \in {"ttl", "lock"}, x.pc = "idle"
  PROVE  Guessed'
<1>1. ~AtIncr(req[r]) /\ ~Passed(req[r]) /\ ~AtIncr(x) /\ ~Passed(x)
  BY DEF AtIncr, Passed
<1>2. /\ Cardinality(Uncounted') = Cardinality(Uncounted)
      /\ Cardinality(Passers') = Cardinality(Passers)
  BY <1>1, GuessSets
<1> QED
  BY <1>2, GuessTypes DEF Guessed

\* A key expires or is deleted.
LEMMA GuessedReset ==
  ASSUME Typed, Guessed, req' = req, errors' = errors, lockTtl' \in Nat,
         \/ guesses' = 0 /\ fails' \in Nat
         \/ guesses' = guesses /\ fails' = fails /\ (lockTtl' = 0 => lockTtl = 0)
  PROVE  Guessed'
<1>1. Uncounted' = Uncounted /\ Lockers' = Lockers /\ Passers' = Passers
  BY DEF Uncounted, Lockers, Passers, AtIncr, Locking, Passed
<1>2. Cardinality(Passers) <= Cardinality(Req)
  BY FS_Subset, SignInAssumption DEF Passers
<1>3. Cardinality(Uncounted') = Cardinality(Uncounted) /\ Cardinality(Lockers') = Cardinality(Lockers)
      /\ Cardinality(Passers') = Cardinality(Passers)
  BY <1>1
<1>4. CASE guesses' = 0 /\ fails' \in Nat
  <2>1. guesses' <= fails' + Cardinality(Uncounted') + errors'
    BY <1>3, <1>4, GuessTypes
  <2>2. lockTtl' = 0 => guesses' <= Threshold[1] - 1 + Cardinality(Lockers') + errors'
    BY <1>3, <1>4, GuessTypes
  <2>3. guesses' + Cardinality(Passers') <= Threshold[1] - 1 + Cardinality(Req) + errors'
    BY <1>2, <1>3, <1>4, GuessTypes
  <2> QED
    BY <2>1, <2>2, <2>3 DEF Guessed
<1>5. CASE guesses' = guesses /\ fails' = fails /\ (lockTtl' = 0 => lockTtl = 0)
  BY <1>3, <1>5, GuessTypes DEF Guessed
<1> QED
  BY <1>4, <1>5

-----------------------------------------------------------------------------
\* What a move leaves alone of the other parts.

LEMMA FitsAlone ==
  ASSUME Typed, NEW r \in Req, NEW x \in Request, Put(r, x), Fits(x)', TypeOK',
         \A s \in Session : session[s].made => session'[s].made
  PROVE  Typed'
<1>1. /\ req'[r] = x /\ (\A q \in Req : q # r => req'[q] = req[q])
      /\ \A q \in Req : Fits(req[q])
  BY PutReq DEF Typed, TypeOK
<1>2. Fits(req[r])'
  BY <1>1 DEF Fits
<1>3. ASSUME NEW q \in Req, q # r PROVE Fits(req[q])'
  BY <1>1, <1>3 DEF Fits
<1> QED
  BY <1>2, <1>3 DEF Typed

LEMMA CodedAlone ==
  ASSUME Typed, Coded, NEW r \in Req, NEW x \in Request, Put(r, x),
         code' = code, used' = used, raced' = raced,
         x.c = None, x.pc \notin {"mark", "revive"}
  PROVE  Coded'
<1>1. /\ req'[r] = x /\ (\A q \in Req : q # r => req'[q] = req[q])
      /\ \A q \in Req : Holds(req[q])
  BY PutReq DEF Typed, TypeOK, Coded
<1>2. Holds(req[r])'
  BY <1>1 DEF Holds
<1>3. ASSUME NEW q \in Req, q # r PROVE Holds(req[q])'
  BY <1>1, <1>3 DEF Holds
<1>4. \A p, q \in Req : p # q /\ req'[p].c # None /\ req'[p].c = req'[q].c => req'[p].c \in raced'
  BY <1>1 DEF Coded
<1>5. \A c \in Code \ raced' : /\ used'[c] <= 1
                             /\ used'[c] = 1 => code'[c] = "used" /\ \A q \in Req : req'[q].c # c
  BY <1>1, SignInAssumption DEF Coded
<1> QED
  BY <1>2, <1>3, <1>4, <1>5 DEF Coded

LEMMA KeptAlone ==
  ASSUME Typed, Kept, NEW r \in Req, NEW x \in Request, Put(r, x), x.pc # "delete",
         passkeys \subseteq passkeys', password' = password, collided' = collided
  PROVE  Kept'
<1>1. /\ req'[r] = x /\ (\A q \in Req : q # r => req'[q] = req[q])
  BY PutReq DEF Typed, TypeOK
<1> QED
  BY <1>1 DEF Kept

\* A move of a request that is not part of a failing login, and ends up neither
\* with a recovery code nor with a passkey to delete.
LEMMA Carry ==
  ASSUME IndInv, NEW r \in Req, NEW x \in Request, Put(r, x), Fits(x)', TypeOK', EndedStaysEnded',
         \A s \in Session : session[s].made => session'[s].made,
         UNCHANGED <<fails, lockTtl, guesses, errors, code, used, raced, stored, issued, spent,
                     password, collided>>,
         passkeys \subseteq passkeys',
         x.pc \notin {"password", "incr", "expire", "ttl", "lock", "mark", "revive", "delete"},
         x.c = None, ~Locking(req[r])
  PROVE  IndInv'
<1>1. Typed /\ Guessed /\ Coded /\ Challenged /\ Kept
  BY DEF IndInv
<1>2. /\ fails' = fails /\ lockTtl' = lockTtl /\ guesses' = guesses /\ errors' = errors
      /\ code' = code /\ used' = used /\ raced' = raced /\ stored' = stored
      /\ issued' = issued /\ spent' = spent /\ password' = password /\ collided' = collided
  OBVIOUS
<1>3. ~AtIncr(x) /\ ~AtIncr(req[r]) /\ ~Locking(x) /\ ~Passed(x)
  BY DEF AtIncr, Locking, Passed
<1>4. Typed'
  BY <1>1, FitsAlone
<1>5. Guessed'
  BY <1>1, <1>2, <1>3, GuessedAlone
<1>6. Coded'
  <2>1. x.c = None /\ x.pc \notin {"mark", "revive"}
    OBVIOUS
  <2> QED
    BY <1>1, <1>2, <2>1, CodedAlone
<1>7. Challenged'
  BY <1>1, <1>2 DEF Challenged
<1>8. Kept'
  BY <1>1, <1>2, KeptAlone
<1> QED
  BY <1>4, <1>5, <1>6, <1>7, <1>8 DEF IndInv

LEMMA QuietMove ==
  ASSUME IndInv, NEW r \in Req, NEW x \in Request, Put(r, x), Fits(x),
         UNCHANGED <<theme, lockout, factors, session, errors, history>>,
         x.pc \notin {"password", "incr", "expire", "ttl", "lock", "mark", "revive", "delete"},
         x.c = None, ~Locking(req[r])
  PROVE  IndInv'
<1>1. /\ UNCHANGED <<theme, fails, failTtl, lockTtl, clearing, guesses, password, status, totp, code,
                     passkeys, stored, issued, session, errors, used, raced, spent, collided, refused>>
  BY DEF lockout, factors, history
<1>2. TypeOK'
  BY <1>1, PutReq DEF IndInv, Typed, TypeOK
<1>3. Fits(x)'
  BY <1>1 DEF Fits
<1>4. EndedStaysEnded'
  BY <1>1 DEF IndInv, EndedStaysEnded
<1> QED
  BY <1>1, <1>2, <1>3, <1>4, Carry

\* What is known of every request.
LEMMA Facts ==
  ASSUME IndInv, NEW r \in Req
  PROVE  /\ req[r] \in Request /\ Fits(req[r]) /\ Holds(req[r]) /\ TypeOK
         /\ Typed /\ Guessed /\ Coded /\ Challenged /\ EndedStaysEnded /\ Kept
  BY DEF IndInv, Typed, TypeOK, Coded

-----------------------------------------------------------------------------
\* Steps that only read.

LEMMA ReadSteps ==
  ASSUME IndInv, NEW r \in Req,
         \/ LoginRefused(r) \/ ConfirmTotp(r) \/ GenerateCodes(r) \/ DisableMfa(r)
         \/ \E s \in Session : Recovery(r, s)
         \/ \E h \in Challenge : PasskeyRegister(r, h)
         \/ \E h \in Challenge, k \in Passkey : PasskeyAuthenticate(r, k, h)
         \/ VerifyAssertion(r)
         \/ \E s \in Session, m \in {"password", "totp"} : StepUp(r, s, m)
         \/ \E h \in Challenge, s \in Session : StepUpPasskey(r, s, h)
  PROVE  IndInv'
<1>0. req[r] \in Request /\ Fits(req[r]) /\ Holds(req[r]) /\ TypeOK
  BY Facts
<1> DEFINE Reads == UNCHANGED <<theme, lockout, factors, session, errors, history>>
<1>1. ASSUME Finish(r), Reads, ~Locking(req[r]) PROVE IndInv'
  BY <1>1, IdleFits, QuietMove DEF Finish
<1>2. ASSUME NEW p \in {"supersede", "disable"}, Start(r, "mfa", p), Reads PROVE IndInv'
  <2>1. ASSUME NEW x, x = [Idle EXCEPT !.pc = p, !.op = "mfa"] PROVE IndInv'
    <3>1. x \in Request /\ x.pc = p /\ x.c = None
      BY <1>2, <2>1 DEF Idle, Request, Pc, Op
    <3>2. Put(r, x) /\ req[r].pc = "idle"
      BY <1>2, <2>1 DEF Start
    <3> QED
      BY <1>2, <3>1, <3>2, QuietMove DEF Fits, Locking
  <2> QED
    BY <2>1
<1>3. LoginRefused(r) => IndInv'
  BY <1>1 DEF LoginRefused, Locking
<1>4. ConfirmTotp(r) => IndInv'
  BY <1>2 DEF ConfirmTotp
<1>5. DisableMfa(r) => IndInv'
  BY <1>2 DEF DisableMfa
<1>6. ASSUME GenerateCodes(r) PROVE IndInv'
  <2>1. ASSUME NEW x,
               x = [req[r] EXCEPT !.pc = "confirm", !.scan = {c \in Code : code[c] = "unused"}]
        PROVE  IndInv'
    <3>1. x \in Request /\ x.pc = "confirm" /\ x.c = req[r].c
      BY <1>0, <2>1 DEF Request, Pc
    <3>2. Put(r, x) /\ req[r].pc = "supersede" /\ Reads
      BY <1>6, <2>1 DEF GenerateCodes
    <3>3. x.c = None /\ Fits(x)
      BY <1>0, <3>1, <3>2 DEF Holds, Fits
    <3> QED
      BY <3>1, <3>2, <3>3, QuietMove DEF Locking
  <2> QED
    BY <2>1
<1>7. ASSUME NEW s \in Session, Recovery(r, s) PROVE IndInv'
  <2>1. ASSUME NEW x, x = [Idle EXCEPT !.pc = "code", !.op = "mfa", !.s = s] PROVE IndInv'
    <3>1. x \in Request /\ x.pc = "code" /\ x.c = None /\ x.s = s
      BY <2>1 DEF Idle, Request, Pc, Op
    <3>2. Put(r, x) /\ req[r].pc = "idle" /\ Reads /\ session[s].made
      BY <1>0, <1>7, <2>1 DEF Recovery, TypeOK
    <3> QED
      BY <3>1, <3>2, QuietMove DEF Locking, Fits
  <2> QED
    BY <2>1
<1>8. ASSUME NEW h \in Challenge, PasskeyRegister(r, h) PROVE IndInv'
  <2>1. ASSUME NEW x, x = [Idle EXCEPT !.pc = "consume", !.op = "registration", !.ch = h]
        PROVE  IndInv'
    <3>1. x \in Request /\ x.pc = "consume" /\ x.c = None /\ x.ch = h /\ x.op \in Ceremony
      BY <2>1 DEF Idle, Request, Pc, Op, Ceremony
    <3>2. Put(r, x) /\ req[r].pc = "idle" /\ Reads
      BY <1>8, <2>1 DEF PasskeyRegister
    <3> QED
      BY <3>1, <3>2, QuietMove DEF Locking, Fits
  <2> QED
    BY <2>1
<1>9. ASSUME NEW h \in Challenge, NEW k \in Passkey, PasskeyAuthenticate(r, k, h) PROVE IndInv'
  <2>1. ASSUME NEW x,
               x = [Idle EXCEPT !.pc = "consume", !.op = "authentication", !.k = k, !.ch = h]
        PROVE  IndInv'
    <3>1. x \in Request /\ x.pc = "consume" /\ x.c = None /\ x.ch = h /\ x.op \in Ceremony
      BY <2>1 DEF Idle, Request, Pc, Op, Ceremony
    <3>2. Put(r, x) /\ req[r].pc = "idle" /\ Reads
      BY <1>9, <2>1 DEF PasskeyAuthenticate
    <3> QED
      BY <3>1, <3>2, QuietMove DEF Locking, Fits
  <2> QED
    BY <2>1
<1>10. ASSUME VerifyAssertion(r) PROVE IndInv'
  <2>1. ASSUME NEW x, x = [req[r] EXCEPT !.pc = "enter"], Put(r, x) PROVE IndInv'
    <3>1. x \in Request /\ x.pc = "enter" /\ x.c = req[r].c
      BY <1>0, <2>1, MoveTo DEF Pc
    <3>2. req[r].pc = "assert" /\ Reads /\ x.c = None
      BY <1>0, <1>10, <3>1 DEF VerifyAssertion, Holds
    <3> QED
      BY <2>1, <3>1, <3>2, QuietMove DEF Locking, Fits
  <2> QED
    BY <1>1, <1>10, <2>1 DEF VerifyAssertion, Goto, Locking
<1>11. ASSUME NEW s \in Session, NEW m \in {"password", "totp"}, StepUp(r, s, m) PROVE IndInv'
  <2>1. ASSUME NEW x, x = [Idle EXCEPT !.pc = "elevate", !.op = "stepUp", !.s = s] PROVE IndInv'
    <3>1. x \in Request /\ x.pc = "elevate" /\ x.c = None /\ x.s = s
      BY <2>1 DEF Idle, Request, Pc, Op
    <3>2. Put(r, x) /\ req[r].pc = "idle" /\ Reads /\ session[s].made
      BY <1>0, <1>11, <2>1 DEF StepUp, TypeOK
    <3> QED
      BY <3>1, <3>2, QuietMove DEF Locking, Fits
  <2> QED
    BY <2>1
<1>12. ASSUME NEW h \in Challenge, NEW s \in Session, StepUpPasskey(r, s, h) PROVE IndInv'
  <2>1. ASSUME NEW x, x = [Idle EXCEPT !.pc = "consume", !.op = "stepUp", !.s = s, !.ch = h]
        PROVE  IndInv'
    <3>1. x \in Request /\ x.pc = "consume" /\ x.c = None /\ x.s = s /\ x.ch = h
      BY <2>1 DEF Idle, Request, Pc, Op
    <3>2. Put(r, x) /\ req[r].pc = "idle" /\ Reads /\ session[s].made
      BY <1>0, <1>12, <2>1 DEF StepUpPasskey, TypeOK
    <3> QED
      BY <3>1, <3>2, QuietMove DEF Locking, Fits
  <2> QED
    BY <2>1
<1> QED
  BY <1>3, <1>4, <1>5, <1>6, <1>7, <1>8, <1>9, <1>10, <1>11, <1>12

-----------------------------------------------------------------------------
\* Steps that write a session.

\* One row is written.
LEMMA RowPut ==
  ASSUME TypeOK, EndedStaysEnded, NEW s \in Session, NEW row \in Row,
         session' = [session EXCEPT ![s] = row], session[s].made => row.made,
         row.valid \/ row.known => row.made, row.revoked /\ row.valid => row.via = "recovery"
  PROVE  /\ session' \in [Session -> Row] /\ EndedStaysEnded'
         /\ \A t \in Session : session[t].made => session'[t].made
         /\ \A t \in Session : session'[t].valid \/ session'[t].known => session'[t].made
<1>1. /\ session \in [Session -> Row]
      /\ \A t \in Session : session[t].valid \/ session[t].known => session[t].made
  BY DEF TypeOK
<1>2. session' \in [Session -> Row] /\ \A t \in Session : session'[t] = IF t = s THEN row ELSE session[t]
  BY <1>1
<1> QED
  BY <1>1, <1>2 DEF EndedStaysEnded

LEMMA SessionMove ==
  ASSUME IndInv, NEW r \in Req, NEW x \in Request, Put(r, x), Fits(x)',
         NEW s \in Session, NEW row \in Row,
         session' = [session EXCEPT ![s] = row], session[s].made => row.made,
         row.valid \/ row.known => row.made, row.revoked /\ row.valid => row.via = "recovery",
         UNCHANGED <<theme, lockout, factors, errors, history>>,
         x.pc \notin {"password", "incr", "expire", "ttl", "lock", "mark", "revive", "delete"},
         x.c = None, ~Locking(req[r])
  PROVE  IndInv'
<1>1. UNCHANGED <<theme, fails, failTtl, lockTtl, clearing, guesses, password, status, totp, code,
                  passkeys, stored, issued, errors, used, raced, spent, collided, refused>>
  BY DEF lockout, factors, history
<1>2. TypeOK /\ EndedStaysEnded
  BY DEF IndInv, Typed
<1>3. /\ session' \in [Session -> Row] /\ EndedStaysEnded'
      /\ \A t \in Session : session[t].made => session'[t].made
      /\ \A t \in Session : session'[t].valid \/ session'[t].known => session'[t].made
  BY <1>2, RowPut
<1>4. TypeOK'
  BY <1>1, <1>2, <1>3, PutReq DEF TypeOK
<1> QED
  BY <1>1, <1>3, <1>4, Carry

LEMMA SessionSteps ==
  ASSUME IndInv, NEW r \in Req,
         LoginSession(r) \/ LoginIssue(r) \/ MfaPromote(r) \/ PasskeyEnter(r) \/ Elevate(r)
  PROVE  IndInv'
<1>0. req[r] \in Request /\ Fits(req[r]) /\ Holds(req[r]) /\ TypeOK /\ EndedStaysEnded
  BY Facts
<1> DEFINE Rest == UNCHANGED <<theme, lockout, factors, errors, history>>
<1>1. ASSUME NEW s \in Session, NEW row \in Row, session' = [session EXCEPT ![s] = row],
             session[s].made => row.made, row.valid \/ row.known => row.made,
             row.revoked /\ row.valid => row.via = "recovery",
             Finish(r), Rest, ~Locking(req[r])
      PROVE  IndInv'
  <2> DEFINE x == Idle
  <2>1. x \in Request /\ Fits(x)' /\ Put(r, x) /\ x.c = None /\ x.pc = "idle"
    BY <1>1, IdleFits DEF Finish
  <2> HIDE DEF x
  <2> QED
    BY <1>1, <2>1, SessionMove
<1>2. ASSUME LoginSession(r) PROVE IndInv'
  <2>1. PICK s \in Session :
          /\ ~session[s].made
          /\ session' = [session EXCEPT ![s] = [NoRow EXCEPT !.made = TRUE, !.valid = TRUE,
                                                           !.via = "password"]]
          /\ Put(r, [req[r] EXCEPT !.pc = "issue", !.s = s])
    BY <1>2 DEF LoginSession
  <2>2. ASSUME NEW x, x = [req[r] EXCEPT !.pc = "issue", !.s = s],
               NEW row, row = [NoRow EXCEPT !.made = TRUE, !.valid = TRUE, !.via = "password"]
        PROVE  IndInv'
    <3>1. x \in Request /\ x.pc = "issue" /\ x.s = s /\ x.c = req[r].c
      BY <1>0, <2>2 DEF Request, Pc
    <3>2. row \in Row /\ row.made /\ ~row.revoked
      BY <2>2 DEF Row, NoRow
    <3>3. Put(r, x) /\ session' = [session EXCEPT ![s] = row] /\ req[r].pc = "session" /\ Rest
      BY <1>2, <2>1, <2>2 DEF LoginSession
    <3>4. x.c = None /\ ~Locking(req[r])
      BY <1>0, <3>1, <3>3 DEF Holds, Locking
    <3>5. session'[s] = row
      BY <1>0, <3>3 DEF TypeOK
    <3>6. Fits(x)'
      BY <3>1, <3>2, <3>5 DEF Fits
    <3> QED
      BY <3>1, <3>2, <3>3, <3>4, <3>6, SessionMove
  <2> QED
    BY <2>2
<1>3. ASSUME LoginIssue(r) PROVE IndInv'
  <2> DEFINE s == req[r].s
  <2>1. s \in Session /\ session[s].made /\ session[s] \in Row /\ ~Locking(req[r]) /\ Finish(r) /\ Rest
    BY <1>0, <1>3 DEF LoginIssue, Fits, TypeOK, Locking
  <2>2. ASSUME NEW row,
               row = IF req[r].mfa
                       THEN [session[s] EXCEPT !.valid = FALSE, !.known = TRUE, !.pending = TRUE]
                       ELSE [session[s] EXCEPT !.known = TRUE, !.bearer = TRUE]
        PROVE  IndInv'
    <3>1. row \in Row /\ row.made /\ row.revoked = session[s].revoked /\ row.via = session[s].via
          /\ (row.valid => session[s].valid)
      BY <2>1, <2>2 DEF Row
    <3>2. session' = [session EXCEPT ![s] = row]
      BY <1>0, <1>3, <2>2 DEF LoginIssue, TypeOK
    <3> QED
      BY <1>0, <1>1, <2>1, <3>1, <3>2 DEF EndedStaysEnded
  <2> QED
    BY <2>2
<1>4. ASSUME MfaPromote(r) PROVE IndInv'
  <2> DEFINE s == req[r].s
  <2>1. s \in Session /\ session[s].made /\ session[s] \in Row /\ ~Locking(req[r]) /\ Finish(r) /\ Rest
    BY <1>0, <1>4 DEF MfaPromote, Fits, TypeOK, Locking
  <2>2. ASSUME NEW row, row = [session[s] EXCEPT !.aal2 = TRUE, !.bearer = TRUE] PROVE IndInv'
    <3>1. row \in Row /\ row.made /\ row.revoked = session[s].revoked /\ row.via = session[s].via
          /\ row.valid = session[s].valid
      BY <2>1, <2>2 DEF Row
    <3>2. session' = [session EXCEPT ![s] = row]
      BY <1>0, <1>4, <2>1, <2>2 DEF MfaPromote, PromoteToAal2, TypeOK, Row
    <3> QED
      BY <1>0, <1>1, <2>1, <3>1, <3>2 DEF EndedStaysEnded
  <2> QED
    BY <2>2
<1>5. ASSUME PasskeyEnter(r) PROVE IndInv'
  <2>1. PICK s \in Session :
          /\ ~session[s].made
          /\ session' = [session EXCEPT ![s] = [NoRow EXCEPT !.made = TRUE, !.valid = TRUE,
                            !.known = TRUE, !.bearer = TRUE, !.aal2 = TRUE, !.via = "passkey"]]
    BY <1>5 DEF PasskeyEnter
  <2>2. ASSUME NEW row,
               row = [NoRow EXCEPT !.made = TRUE, !.valid = TRUE, !.known = TRUE, !.bearer = TRUE,
                                   !.aal2 = TRUE, !.via = "passkey"]
        PROVE  IndInv'
    <3>1. row \in Row /\ row.made /\ ~row.revoked
      BY <2>2 DEF Row, NoRow
    <3>2. session' = [session EXCEPT ![s] = row]
      BY <2>1, <2>2
    <3>3. ~Locking(req[r]) /\ Finish(r) /\ Rest
      BY <1>5 DEF PasskeyEnter, Locking
    <3> QED
      BY <1>1, <3>1, <3>2, <3>3
  <2> QED
    BY <2>2
<1>6. ASSUME Elevate(r) PROVE IndInv'
  <2> DEFINE s == req[r].s
  <2>1. s \in Session /\ session[s].made /\ session[s] \in Row /\ ~Locking(req[r]) /\ Finish(r) /\ Rest
    BY <1>0, <1>6 DEF Elevate, Fits, TypeOK, Locking
  <2>2. ASSUME NEW row,
               row = IF Live(s) THEN [session[s] EXCEPT !.aal2 = TRUE, !.elevated = TRUE]
                                ELSE session[s]
        PROVE  IndInv'
    <3>1. row \in Row /\ row.made /\ row.revoked = session[s].revoked /\ row.via = session[s].via
          /\ row.valid = session[s].valid
      BY <2>1, <2>2 DEF Row
    <3>2. session' = [session EXCEPT ![s] = row]
      BY <1>0, <1>6, <2>1, <2>2 DEF Elevate, TypeOK, Row
    <3> QED
      BY <1>0, <1>1, <2>1, <3>1, <3>2 DEF EndedStaysEnded
  <2> QED
    BY <2>2
<1> QED
  BY <1>2, <1>3, <1>4, <1>5, <1>6

-----------------------------------------------------------------------------
\* The login and its failures.

\* A move of a request of the failing login: the counts are shown apart.
LEMMA CountMove ==
  ASSUME IndInv, NEW r \in Req, NEW x \in Request, Put(r, x), Fits(x), TypeOK', Guessed',
         UNCHANGED <<factors, session, history>>,
         x.pc \notin {"mark", "revive", "delete"}, x.c = None
  PROVE  IndInv'
<1>1. Typed /\ Guessed /\ Coded /\ Challenged /\ EndedStaysEnded /\ Kept
  BY DEF IndInv
<1>2. /\ code' = code /\ used' = used /\ raced' = raced /\ stored' = stored /\ passkeys' = passkeys
      /\ issued' = issued /\ spent' = spent /\ password' = password /\ collided' = collided
      /\ session' = session
  BY DEF factors, history
<1>3. Fits(x)' /\ \A s \in Session : session[s].made => session'[s].made
  BY <1>2 DEF Fits
<1>4. Typed'
  BY <1>1, <1>3, FitsAlone
<1>5. Coded'
  <2>1. x.c = None /\ x.pc \notin {"mark", "revive"}
    OBVIOUS
  <2> QED
    BY <1>1, <1>2, <2>1, CodedAlone
<1>6. Challenged' /\ EndedStaysEnded'
  BY <1>1, <1>2 DEF Challenged, EndedStaysEnded
<1>7. Kept'
  BY <1>1, <1>2, KeptAlone
<1> QED
  BY <1>4, <1>5, <1>6, <1>7 DEF IndInv

LEMMA LoginSteps ==
  ASSUME IndInv, NEW r \in Req, LoginCheck(r) \/ LoginWrong(r) \/ LoginRight(r)
  PROVE  IndInv'
<1>0. req[r] \in Request /\ Holds(req[r]) /\ TypeOK /\ Typed /\ Guessed
  BY Facts
<1>1. ASSUME LoginCheck(r) PROVE IndInv'
  <2>1. ASSUME NEW x, x = [Idle EXCEPT !.pc = "password", !.op = "login"] PROVE IndInv'
    <3>1. x \in Request /\ x.pc = "password" /\ x.c = None
      BY <2>1 DEF Idle, Request, Pc, Op
    <3>2. /\ Put(r, x) /\ req[r].pc = "idle"
          /\ UNCHANGED <<theme, lockout, factors, session, history>>
          /\ (errors' = errors /\ lockTtl = 0) \/ errors' = errors + 1
      BY <1>1, <2>1 DEF LoginCheck, Start
    <3>3. Guessed'
      BY <1>0, <3>1, <3>2, GuessedCheck DEF lockout
    <3>4. TypeOK'
      BY <1>0, <3>1, <3>2, PutReq DEF TypeOK, lockout, factors, history
    <3>5. Fits(x)
      BY <3>1 DEF Fits
    <3> QED
      BY <3>1, <3>2, <3>3, <3>4, <3>5, CountMove
  <2> QED
    BY <2>1
<1>2. ASSUME LoginWrong(r) PROVE IndInv'
  <2>1. ASSUME NEW x, x = [req[r] EXCEPT !.pc = "incr"] PROVE IndInv'
    <3>1. x \in Request /\ x.pc = "incr" /\ x.c = req[r].c
      BY <1>0, <2>1, MoveTo DEF Pc
    <3>2. /\ Put(r, x) /\ req[r].pc = "password" /\ guesses' = guesses + 1
          /\ UNCHANGED <<theme, fails, failTtl, lockTtl, clearing, factors, session, errors, history>>
      BY <1>2, <2>1 DEF LoginWrong, Goto
    <3>3. Guessed'
      BY <1>0, <3>1, <3>2, GuessedWrong
    <3>4. TypeOK'
      BY <1>0, <3>1, <3>2, PutReq DEF TypeOK, factors, history
    <3>5. Fits(x) /\ x.c = None
      BY <1>0, <3>1, <3>2 DEF Fits, Holds
    <3> QED
      BY <3>1, <3>2, <3>3, <3>4, <3>5, CountMove
  <2> QED
    BY <2>1
<1>3. ASSUME LoginRight(r) PROVE IndInv'
  <2>1. ASSUME NEW x, x = [req[r] EXCEPT !.pc = "session", !.mfa = RequireMfa \/ totp = "on"]
        PROVE  IndInv'
    <3>1. x \in Request /\ x.pc = "session" /\ x.c = req[r].c
      BY <1>0, <2>1, SignInAssumption DEF Request, Pc
    <3>2. /\ Put(r, x) /\ req[r].pc = "password" /\ clearing' = Clear
          /\ UNCHANGED <<theme, fails, failTtl, lockTtl, guesses, factors, session, errors, history>>
      BY <1>3, <2>1 DEF LoginRight
    <3>3. Guessed'
      BY <1>0, <3>1, <3>2, GuessedAlone DEF AtIncr, Locking, Passed
    <3>4. clearing' \in [{"fail", "lock"} -> Nat]
      BY <1>0, <3>2 DEF TypeOK, Clear
    <3>5. TypeOK'
      BY <1>0, <3>1, <3>2, <3>4, PutReq DEF TypeOK, factors, history
    <3>6. Fits(x) /\ x.c = None
      BY <1>0, <3>1, <3>2 DEF Fits, Holds
    <3> QED
      BY <3>1, <3>2, <3>3, <3>5, <3>6, CountMove
  <2> QED
    BY <2>1
<1> QED
  BY <1>1, <1>2, <1>3

LEMMA RecordSteps ==
  ASSUME IndInv, NEW r \in Req,
         RecordIncr(r) \/ RecordExpire(r) \/ RecordTtl(r) \/ RecordLock(r)
  PROVE  IndInv'
<1>0. req[r] \in Request /\ Fits(req[r]) /\ Holds(req[r]) /\ TypeOK /\ Typed /\ Guessed
  BY Facts
<1>1. ASSUME RecordIncr(r) PROVE IndInv'
  <2>1. ASSUME NEW x, x = [req[r] EXCEPT !.pc = "expire", !.n = fails + 1] PROVE IndInv'
    <3>0. fails + 1 \in Nat
      BY <1>0 DEF TypeOK
    <3>1. x \in Request /\ x.pc = "expire" /\ x.c = req[r].c /\ x.n = fails + 1
      BY <1>0, <2>1, <3>0 DEF Request, Pc
    <3>2. /\ Put(r, x) /\ req[r].pc = "incr" /\ fails' = fails + 1
          /\ UNCHANGED <<theme, failTtl, lockTtl, clearing, guesses, factors, session, errors, history>>
      BY <1>1, <2>1 DEF RecordIncr
    <3>3. Guessed'
      BY <1>0, <3>1, <3>2, GuessedIncr
    <3>4. TypeOK'
      BY <1>0, <3>1, <3>2, PutReq DEF TypeOK, factors, history
    <3>5. Fits(x) /\ x.c = None
      BY <1>0, <3>1, <3>2 DEF Fits, Holds
    <3> QED
      BY <3>1, <3>2, <3>3, <3>4, <3>5, CountMove
  <2> QED
    BY <2>1
<1>2. ASSUME RecordExpire(r) PROVE IndInv'
  <2>1. ASSUME NEW x \in Request, Put(r, x), x.pc \in {"idle", "ttl"}, x.c = None, Fits(x),
               x.pc = "ttl" <=> req[r].n >= Threshold[1]
        PROVE  IndInv'
    <3>1. /\ req[r].pc = "expire" /\ failTtl' = IF fails > 0 THEN Window ELSE 0
          /\ UNCHANGED <<theme, fails, lockTtl, clearing, guesses, factors, session, errors, history>>
      BY <1>2 DEF RecordExpire
    <3>2. Guessed'
      BY <1>0, <2>1, <3>1, GuessedAlone DEF AtIncr, Locking, Passed
    <3>3. failTtl' \in 0..Window /\ (fails' = 0 => failTtl' = 0)
      BY <1>0, <3>1, SignInAssumption DEF TypeOK
    <3>4. TypeOK'
      BY <1>0, <2>1, <3>1, <3>3, PutReq DEF TypeOK, factors, history
    <3> QED
      BY <2>1, <3>1, <3>2, <3>4, CountMove
  <2>2. ASSUME NEW x, x = [req[r] EXCEPT !.pc = "ttl"], req[r].n >= Threshold[1], Put(r, x)
        PROVE  IndInv'
    <3>1. x \in Request /\ x.pc = "ttl" /\ x.c = req[r].c /\ x.n = req[r].n
      BY <1>0, <2>2, MoveTo DEF Pc
    <3>2. x.c = None /\ Fits(x)
      BY <1>0, <1>2, <2>2, <3>1 DEF Holds, Fits, RecordExpire
    <3> QED
      BY <2>1, <2>2, <3>1, <3>2
  <2>3. ASSUME Finish(r), ~(req[r].n >= Threshold[1]) PROVE IndInv'
    BY <2>1, <2>3, IdleFits DEF Finish
  <2> QED
    BY <1>2, <2>2, <2>3 DEF RecordExpire, Goto
<1>3. ASSUME RecordTtl(r) PROVE IndInv'
  <2> DEFINE n == TtlOf(req[r].n)
  <2>1. /\ req[r].pc = "ttl" /\ UNCHANGED <<theme, lockout, factors, session, errors, history>>
    BY <1>3 DEF RecordTtl
  <2>2. n \in 1..LockTtl[Len(LockTtl)] /\ n \in Nat \ {0}
    BY <1>0, <2>1, Ladder DEF Fits, Request
  <2>3. ASSUME NEW x, x = [req[r] EXCEPT !.pc = "lock", !.n = n], Put(r, x) PROVE IndInv'
    <3>1. x \in Request /\ x.pc = "lock" /\ x.c = req[r].c /\ x.n = n
      BY <1>0, <2>2, <2>3 DEF Request, Pc
    <3>2. Guessed'
      BY <1>0, <2>1, <2>3, <3>1, GuessedAlone DEF AtIncr, Locking, Passed, lockout
    <3>3. TypeOK'
      BY <1>0, <2>1, <2>3, <3>1, PutReq DEF TypeOK, lockout, factors, history
    <3>4. Fits(x) /\ x.c = None
      BY <1>0, <2>1, <2>2, <3>1 DEF Fits, Holds
    <3> QED
      BY <2>1, <2>3, <3>1, <3>2, <3>3, <3>4, CountMove
  <2>4. ASSUME Finish(r), ~(lockTtl < n) PROVE IndInv'
    <3>1. Put(r, Idle) /\ lockTtl' # 0
      BY <1>0, <2>1, <2>2, <2>4 DEF Finish, lockout, TypeOK
    <3>2. Guessed'
      BY <1>0, <2>1, <3>1, IdleFits, GuessedLocked DEF lockout
    <3>3. TypeOK'
      BY <1>0, <2>1, <3>1, IdleFits, PutReq DEF TypeOK, lockout, factors, history
    <3> QED
      BY <2>1, <3>1, <3>2, <3>3, IdleFits, CountMove
  <2> QED
    BY <1>3, <2>3, <2>4 DEF RecordTtl
<1>4. ASSUME RecordLock(r) PROVE IndInv'
  <2>1. /\ req[r].pc = "lock" /\ lockTtl' = req[r].n /\ Put(r, Idle)
        /\ UNCHANGED <<theme, fails, failTtl, clearing, guesses, factors, session, errors, history>>
    BY <1>4 DEF RecordLock, Finish
  <2>2. lockTtl' \in 0..LockTtl[Len(LockTtl)] /\ lockTtl' # 0
    BY <1>0, <2>1, Ladder DEF Fits
  <2>3. Guessed'
    BY <1>0, <2>1, <2>2, IdleFits, GuessedLocked
  <2>4. TypeOK'
    BY <1>0, <2>1, <2>2, IdleFits, PutReq DEF TypeOK, factors, history
  <2> QED
    BY <2>1, <2>3, <2>4, IdleFits, CountMove
<1> QED
  BY <1>1, <1>2, <1>3, <1>4

\* A request dies, at the price of an error.
LEMMA AbortStep ==
  ASSUME IndInv, NEW r \in Req, Abort(r)
  PROVE  IndInv'
<1>0. TypeOK /\ Typed /\ Guessed
  BY Facts
<1>1. Put(r, Idle) /\ errors' = errors + 1 /\ UNCHANGED <<theme, lockout, factors, session, history>>
  BY DEF Abort, Finish
<1>2. Guessed'
  BY <1>0, <1>1, IdleFits, GuessedAlone DEF lockout
<1>3. TypeOK'
  BY <1>0, <1>1, IdleFits, PutReq DEF TypeOK, lockout, factors, history
<1> QED
  BY <1>1, <1>2, <1>3, IdleFits, CountMove

-----------------------------------------------------------------------------
\* Recovery codes.

\* A move of a request that has to do with recovery codes or passkeys.
LEMMA CodeMove ==
  ASSUME IndInv, NEW r \in Req, NEW x \in Request, Put(r, x), Fits(x)', TypeOK', EndedStaysEnded',
         Coded', \A s \in Session : session[s].made => session'[s].made,
         UNCHANGED <<fails, lockTtl, guesses, errors, stored, issued, spent, passkeys, password,
                     collided>>,
         x.pc \notin {"password", "incr", "expire", "ttl", "lock", "delete"}, ~Locking(req[r])
  PROVE  IndInv'
<1>1. Typed /\ Guessed /\ Challenged /\ Kept
  BY DEF IndInv
<1>2. ~AtIncr(x) /\ ~AtIncr(req[r]) /\ ~Locking(x) /\ ~Passed(x)
  BY DEF AtIncr, Locking, Passed
<1>3. Typed'
  BY <1>1, FitsAlone
<1>4. Guessed'
  BY <1>1, <1>2, GuessedAlone
<1>5. Challenged'
  BY <1>1 DEF Challenged
<1>6. Kept'
  BY <1>1, KeptAlone
<1> QED
  BY <1>3, <1>4, <1>5, <1>6 DEF IndInv

LEMMA FindStep ==
  ASSUME IndInv, NEW r \in Req, NEW c \in Code, FindCode(r, c)
  PROVE  IndInv'
<1>0. /\ req[r] \in Request /\ Fits(req[r]) /\ Holds(req[r]) /\ TypeOK /\ EndedStaysEnded
      /\ Typed /\ Coded
  BY Facts
<1>1. /\ req[r].pc = "code" /\ raced' = raced \cup {y \in {c} : \E q \in Req \ {r} : req[q].c = y}
      /\ UNCHANGED <<theme, lockout, factors, session, errors, used, spent, collided, refused>>
  BY DEF FindCode
<1>2. UNCHANGED <<fails, failTtl, lockTtl, clearing, guesses, password, status, totp, code, passkeys,
                  stored, issued>>
  BY <1>1 DEF lockout, factors
<1>3. EndedStaysEnded' /\ (\A s \in Session : session[s].made => session'[s].made) /\ ~Locking(req[r])
  BY <1>0, <1>1 DEF EndedStaysEnded, Locking
<1>4. ASSUME NEW x, x = [req[r] EXCEPT !.pc = "mark", !.c = c], code[c] = "unused", Put(r, x)
      PROVE  IndInv'
  <2>1. x \in Request /\ x.pc = "mark" /\ x.c = c /\ x.s = req[r].s
    BY <1>0, <1>4 DEF Request, Pc
  <2>2. /\ req'[r] = x /\ (\A q \in Req : q # r => req'[q] = req[q])
    BY <1>0, <1>4, <2>1, PutReq DEF TypeOK
  <2>3. TypeOK'
    BY <1>0, <1>1, <1>2, <1>4, <2>1, PutReq DEF TypeOK
  <2>4. Fits(x)'
    BY <1>0, <1>1, <2>1 DEF Fits
  <2>5. ASSUME NEW q \in Req PROVE Holds(req[q])'
    <3>1. code' = code /\ Holds(req[q])
      BY <1>0, <1>2 DEF Coded
    <3>2. CASE q = r
      BY <1>4, <2>1, <2>2, <3>1, <3>2 DEF Holds
    <3>3. CASE q # r
      BY <2>2, <3>1, <3>3 DEF Holds
    <3> QED
      BY <3>2, <3>3
  <2>6. ASSUME NEW p \in Req, NEW q \in Req, p # q, req'[p].c # None, req'[p].c = req'[q].c
        PROVE  req'[p].c \in raced'
    <3>1. CASE p # r /\ q # r
      BY <1>0, <1>1, <2>2, <2>6, <3>1 DEF Coded
    <3>2. CASE p = r
      BY <1>1, <2>1, <2>2, <2>6, <3>2
    <3>3. CASE q = r
      BY <1>1, <2>1, <2>2, <2>6, <3>3
    <3> QED
      BY <3>1, <3>2, <3>3
  <2>7. ASSUME NEW d \in Code \ raced'
        PROVE  /\ used'[d] <= 1
               /\ used'[d] = 1 => code'[d] = "used" /\ \A q \in Req : req'[q].c # d
    <3>1. /\ d \in Code \ raced /\ used' = used /\ code' = code
      BY <1>1, <1>2, <2>7
    <3>2. used[d] <= 1 /\ (used[d] = 1 => code[d] = "used" /\ \A q \in Req : req[q].c # d)
      BY <1>0, <3>1 DEF Coded
    <3>3. CASE d = c
      BY <1>4, <3>1, <3>2, <3>3
    <3>4. CASE d # c
      BY <2>1, <2>2, <3>1, <3>2, <3>4
    <3> QED
      BY <3>3, <3>4
  <2>8. Coded'
    BY <2>5, <2>6, <2>7 DEF Coded
  <2> QED
    BY <1>1, <1>2, <1>3, <1>4, <2>1, <2>3, <2>4, <2>8, CodeMove
<1>5. ASSUME Finish(r) PROVE IndInv'
  <2>1. Put(r, Idle) /\ Idle \in Request /\ Fits(Idle)' /\ Idle.c = None /\ Idle.pc = "idle"
        /\ Holds(Idle)'
    BY <1>5, IdleFits DEF Finish
  <2>2. /\ req'[r] = Idle /\ (\A q \in Req : q # r => req'[q] = req[q])
    BY <1>0, <2>1, PutReq DEF TypeOK
  <2>3. TypeOK'
    BY <1>0, <1>1, <1>2, <2>1, PutReq DEF TypeOK
  <2>4. \A q \in Req : Holds(req[q])'
    BY <1>0, <1>2, <2>1, <2>2 DEF Holds, Coded
  <2>5. ASSUME NEW p \in Req, NEW q \in Req, p # q, req'[p].c # None, req'[p].c = req'[q].c
        PROVE  req'[p].c \in raced'
    BY <1>0, <1>1, <2>1, <2>2, <2>5 DEF Coded
  <2>6. ASSUME NEW d \in Code \ raced'
        PROVE  /\ used'[d] <= 1
               /\ used'[d] = 1 => code'[d] = "used" /\ \A q \in Req : req'[q].c # d
    BY <1>0, <1>1, <1>2, <2>1, <2>2, <2>6, SignInAssumption DEF Coded
  <2>7. Coded'
    BY <2>4, <2>5, <2>6 DEF Coded
  <2> QED
    BY <1>1, <1>2, <1>3, <2>1, <2>3, <2>7, CodeMove
<1> QED
  BY <1>4, <1>5 DEF FindCode

\* The mark is made by id, the sign-in is counted when the session is revived.
LEMMA MarkStep ==
  ASSUME IndInv, NEW r \in Req, MarkCode(r)
  PROVE  IndInv'
<1>0. /\ req[r] \in Request /\ Fits(req[r]) /\ Holds(req[r]) /\ TypeOK /\ EndedStaysEnded
      /\ Typed /\ Coded
  BY Facts
<1>1. /\ req[r].pc = "mark" /\ code' = [code EXCEPT ![req[r].c] = "used"]
      /\ UNCHANGED <<theme, lockout, password, status, totp, passkeys, stored, issued, session, errors,
                     history>>
  BY DEF MarkCode
<1>2. UNCHANGED <<fails, failTtl, lockTtl, clearing, guesses, used, raced, spent, collided, refused>>
  BY <1>1 DEF lockout, history
<1>3. EndedStaysEnded' /\ (\A s \in Session : session[s].made => session'[s].made) /\ ~Locking(req[r])
  BY <1>0, <1>1 DEF EndedStaysEnded, Locking
<1>4. /\ code' \in [Code -> {"free", "unused", "used"}]
      /\ \A d \in Code : code'[d] = IF d = req[r].c THEN "used" ELSE code[d]
  BY <1>0, <1>1 DEF TypeOK
<1>5. ASSUME NEW x, x = [req[r] EXCEPT !.pc = "revive"], Put(r, x) PROVE IndInv'
  <2>1. x \in Request /\ x.pc = "revive" /\ x.c = req[r].c /\ x.s = req[r].s
    BY <1>0, <1>5, MoveTo DEF Pc
  <2>2. /\ req'[r] = x /\ (\A q \in Req : q # r => req'[q] = req[q])
    BY <1>0, <1>5, <2>1, PutReq DEF TypeOK
  <2>3. TypeOK'
    BY <1>0, <1>1, <1>2, <1>4, <1>5, <2>1, PutReq DEF TypeOK
  <2>4. Fits(x)'
    BY <1>0, <1>1, <2>1 DEF Fits
  <2>5. ASSUME NEW q \in Req PROVE Holds(req[q])'
    <3>1. Holds(req[q])
      BY <1>0 DEF Coded
    <3>2. CASE q = r
      BY <1>0, <1>1, <1>4, <2>1, <2>2, <3>2 DEF Holds
    <3>3. CASE q # r
      BY <1>4, <2>2, <3>1, <3>3 DEF Holds
    <3> QED
      BY <3>2, <3>3
  <2>6. \A q \in Req : req'[q].c = req[q].c
    BY <2>1, <2>2
  <2>7. Coded'
    BY <1>0, <1>2, <1>4, <2>5, <2>6 DEF Coded
  <2> QED
    BY <1>1, <1>2, <1>3, <1>5, <2>1, <2>3, <2>4, <2>7, CodeMove
<1> QED
  BY <1>1, <1>5 DEF MarkCode, Goto

LEMMA ReviveStep ==
  ASSUME IndInv, NEW r \in Req, Revive(r)
  PROVE  IndInv'
<1> DEFINE s == req[r].s
           c == req[r].c
<1>0. /\ req[r] \in Request /\ Fits(req[r]) /\ Holds(req[r]) /\ TypeOK /\ EndedStaysEnded
      /\ Typed /\ Coded
  BY Facts
<1>1. /\ req[r].pc = "revive" /\ used' = [used EXCEPT ![c] = @ + 1] /\ Put(r, Idle)
      /\ session' = [session EXCEPT ![s] =
           [@ EXCEPT !.valid = TRUE, !.aal2 = TRUE, !.bearer = TRUE, !.via = "recovery"]]
      /\ UNCHANGED <<theme, lockout, factors, errors, raced, spent, collided, refused>>
  BY DEF Revive, Finish
<1>2. UNCHANGED <<fails, failTtl, lockTtl, clearing, guesses, password, status, totp, code, passkeys,
                  stored, issued>>
  BY <1>1 DEF lockout, factors
<1>3. /\ s \in Session /\ session[s].made /\ session[s] \in Row /\ session \in [Session -> Row]
      /\ c \in Code /\ code[c] = "used" /\ ~Locking(req[r])
  BY <1>0, <1>1 DEF Fits, Holds, Locking, TypeOK
<1>4. ASSUME NEW row,
             row = [session[s] EXCEPT !.valid = TRUE, !.aal2 = TRUE, !.bearer = TRUE, !.via = "recovery"]
      PROVE  /\ session' \in [Session -> Row] /\ EndedStaysEnded'
             /\ \A t \in Session : session[t].made => session'[t].made
             /\ \A t \in Session : session'[t].valid \/ session'[t].known => session'[t].made
  <2>1. row \in Row /\ row.made /\ row.via = "recovery"
    BY <1>3, <1>4 DEF Row
  <2>2. session' = [session EXCEPT ![s] = row]
    BY <1>1, <1>3, <1>4
  <2> QED
    BY <1>0, <1>3, <2>1, <2>2, RowPut
<1>5. /\ used' \in [Code -> Nat]
      /\ \A d \in Code : used'[d] = IF d = c THEN used[d] + 1 ELSE used[d]
  BY <1>0, <1>1, <1>3 DEF TypeOK
<1>6. /\ req'[r] = Idle /\ (\A q \in Req : q # r => req'[q] = req[q])
  BY <1>0, <1>1, IdleFits, PutReq DEF TypeOK
<1>7. TypeOK'
  BY <1>0, <1>1, <1>2, <1>4, <1>5, IdleFits, PutReq DEF TypeOK
<1>8. Coded'
  <2>1. ASSUME NEW q \in Req PROVE Holds(req[q])'
    <3>1. Holds(req[q]) /\ code' = code
      BY <1>0, <1>2 DEF Coded
    <3> QED
      BY <1>6, <3>1, IdleFits DEF Holds
  <2>2. \A q \in Req : req'[q].c = IF q = r THEN None ELSE req[q].c
    BY <1>6, IdleFits
  <2>3. \A p, q \in Req : p # q /\ req'[p].c # None /\ req'[p].c = req'[q].c => req'[p].c \in raced'
    BY <1>0, <1>1, <2>2 DEF Coded
  <2>4. ASSUME NEW d \in Code \ raced'
        PROVE  used'[d] <= 1 /\ (used'[d] = 1 => code'[d] = "used" /\ \A q \in Req : req'[q].c # d)
    <3>1. /\ d \in Code \ raced /\ code' = code /\ d # None
      BY <1>1, <1>2, <2>4, SignInAssumption
    <3>2. /\ used[d] <= 1 /\ used[d] \in Nat
          /\ (used[d] = 1 => code[d] = "used" /\ \A q \in Req : req[q].c # d)
      BY <1>0, <3>1 DEF Coded, TypeOK
    <3>3. CASE d = c
      <4>1. used[d] = 0 /\ used'[d] = 1
        BY <1>5, <3>2, <3>3
      <4>2. \A q \in Req : q # r => req[q].c # d
        BY <1>0, <1>3, <3>1, <3>3 DEF Coded
      <4> QED
        BY <1>3, <2>2, <3>1, <3>3, <4>1, <4>2
    <3>4. CASE d # c
      BY <1>5, <2>2, <3>1, <3>2, <3>4
    <3> QED
      BY <3>3, <3>4
  <2> QED
    BY <2>1, <2>3, <2>4 DEF Coded
<1> QED
  BY <1>1, <1>2, <1>3, <1>4, <1>7, <1>8, IdleFits, CodeMove

\* A new set of codes: the codes the scan saw are used up.
LEMMA ConfirmedStep ==
  ASSUME IndInv, NEW r \in Req, MfaConfirmed(r)
  PROVE  IndInv'
<1>0. /\ req[r] \in Request /\ TypeOK /\ EndedStaysEnded /\ Typed /\ Coded
  BY Facts
<1>1. PICK new \in Code :
        /\ code[new] = "free"
        /\ code' = [c \in Code |-> IF c = new THEN "unused"
                                   ELSE IF c \in req[r].scan THEN "used" ELSE code[c]]
  BY DEF MfaConfirmed
<1>2. /\ req[r].pc = "confirm" /\ totp' = "on" /\ Put(r, Idle)
      /\ UNCHANGED <<theme, lockout, password, status, passkeys, stored, issued, session, errors,
                     history>>
  BY DEF MfaConfirmed, Finish
<1>3. UNCHANGED <<fails, failTtl, lockTtl, clearing, guesses, used, raced, spent, collided, refused>>
  BY <1>2 DEF lockout, history
<1>4. /\ code' \in [Code -> {"free", "unused", "used"}]
      /\ \A d \in Code : code[d] # "free" => code'[d] # "free"
      /\ \A d \in Code : code[d] = "used" => code'[d] = "used"
  BY <1>0, <1>1 DEF TypeOK
<1>5. /\ req'[r] = Idle /\ (\A q \in Req : q # r => req'[q] = req[q])
  BY <1>0, <1>2, IdleFits, PutReq DEF TypeOK
<1>6. TypeOK'
  BY <1>0, <1>2, <1>3, <1>4, IdleFits, PutReq DEF TypeOK
<1>7. Coded'
  <2>1. ASSUME NEW q \in Req PROVE Holds(req[q])'
    <3>1. Holds(req[q])
      BY <1>0 DEF Coded
    <3>2. CASE q = r
      BY <1>5, <3>2, IdleFits DEF Holds
    <3>3. CASE q # r
      BY <1>4, <1>5, <3>1, <3>3 DEF Holds
    <3> QED
      BY <3>2, <3>3
  <2>2. \A q \in Req : req'[q].c = IF q = r THEN None ELSE req[q].c
    BY <1>5, IdleFits
  <2>3. \A p, q \in Req : p # q /\ req'[p].c # None /\ req'[p].c = req'[q].c => req'[p].c \in raced'
    BY <1>0, <1>3, <2>2 DEF Coded
  <2>4. ASSUME NEW d \in Code \ raced'
        PROVE  used'[d] <= 1 /\ (used'[d] = 1 => code'[d] = "used" /\ \A q \in Req : req'[q].c # d)
    <3>1. d \in Code \ raced /\ used' = used /\ d # None
      BY <1>3, <2>4, SignInAssumption
    <3>2. used[d] <= 1 /\ (used[d] = 1 => code[d] = "used" /\ \A q \in Req : req[q].c # d)
      BY <1>0, <3>1 DEF Coded
    <3> QED
      BY <1>4, <2>2, <3>1, <3>2
  <2> QED
    BY <2>1, <2>3, <2>4 DEF Coded
<1>8. EndedStaysEnded' /\ (\A s \in Session : session[s].made => session'[s].made) /\ ~Locking(req[r])
  BY <1>0, <1>2 DEF EndedStaysEnded, Locking
<1> QED
  BY <1>2, <1>3, <1>6, <1>7, <1>8, IdleFits, CodeMove

-----------------------------------------------------------------------------
\* Factors, challenges and passkeys.

LEMMA FactorSteps ==
  ASSUME IndInv, NEW r \in Req, DisableAll(r) \/ \E k \in Passkey : StorePasskey(r, k)
  PROVE  IndInv'
<1>0. TypeOK /\ EndedStaysEnded
  BY Facts
<1>1. Put(r, Idle) /\ ~Locking(req[r])
  BY DEF DisableAll, StorePasskey, Finish, Locking
<1>2. CASE DisableAll(r)
  <2>1. /\ totp' = IF totp = "on" THEN "off" ELSE totp
        /\ UNCHANGED <<theme, lockout, password, status, code, passkeys, stored, issued, session,
                       errors, history>>
    BY <1>2 DEF DisableAll
  <2>2. TypeOK'
    BY <1>0, <1>1, <2>1, IdleFits, PutReq DEF TypeOK, lockout, history
  <2>3. EndedStaysEnded'
    BY <1>0, <2>1 DEF EndedStaysEnded
  <2> QED
    BY <1>1, <2>1, <2>2, <2>3, IdleFits, Carry DEF lockout, history
<1>3. ASSUME NEW k \in Passkey, StorePasskey(r, k) PROVE IndInv'
  <2>1. /\ passkeys' = passkeys \cup {k}
        /\ UNCHANGED <<theme, lockout, password, status, totp, code, stored, issued, session,
                       errors, history>>
    BY <1>3 DEF StorePasskey, VerifyRegistration
  <2>2. TypeOK'
    BY <1>0, <1>1, <2>1, IdleFits, PutReq DEF TypeOK, lockout, history
  <2>3. EndedStaysEnded'
    BY <1>0, <2>1 DEF EndedStaysEnded
  <2> QED
    BY <1>1, <2>1, <2>2, <2>3, IdleFits, Carry DEF lockout, history
<1> QED
  BY <1>2, <1>3

\* A move of a request that changes challenges or passkeys.
LEMMA KeyMove ==
  ASSUME IndInv, NEW r \in Req, NEW x \in Request, Put(r, x), Fits(x), TypeOK',
         Challenged', Kept', UNCHANGED <<lockout, code, session, used, raced, errors>>,
         x.pc \notin {"password", "incr", "expire", "ttl", "lock", "mark", "revive"},
         x.c = None, ~Locking(req[r])
  PROVE  IndInv'
<1>1. Typed /\ Guessed /\ Coded /\ EndedStaysEnded
  BY DEF IndInv
<1>2. UNCHANGED <<fails, lockTtl, guesses, code, session, used, raced, errors>>
  BY DEF lockout
<1>3. Typed'
  BY <1>1, <1>2, FitsAlone DEF Fits
<1>4. Guessed'
  BY <1>1, <1>2, GuessedAlone DEF AtIncr, Locking, Passed
<1>5. Coded'
  <2>1. x.c = None /\ x.pc \notin {"mark", "revive"}
    OBVIOUS
  <2> QED
    BY <1>1, <1>2, <2>1, CodedAlone
<1>6. EndedStaysEnded'
  BY <1>1, <1>2 DEF EndedStaysEnded
<1> QED
  BY <1>3, <1>4, <1>5, <1>6 DEF IndInv

\* GETDEL: whoever gets the challenge is alone with it.
LEMMA ConsumeStep ==
  ASSUME IndInv, NEW r \in Req, ConsumeChallenge(r)
  PROVE  IndInv'
<1> DEFINE m == IF req[r].op = "registration" THEN "registration" ELSE "authentication"
           h == req[r].ch
           p == CASE req[r].op = "registration" -> "register"
                  [] req[r].op = "authentication" -> "assert"
                  [] OTHER -> "elevate"
<1>0. /\ req[r] \in Request /\ Fits(req[r]) /\ Holds(req[r]) /\ TypeOK /\ Typed
      /\ Challenged /\ Kept
  BY Facts
<1>1. /\ req[r].pc = "consume" /\ stored' = [stored EXCEPT ![m] = None]
      /\ UNCHANGED <<theme, lockout, password, status, totp, code, passkeys, issued, session, errors,
                     used, raced, collided, refused>>
  BY DEF ConsumeChallenge
<1>2. \/ stored[m] = h /\ Goto(r, p) /\ spent' = [spent EXCEPT ![h] = @ + 1]
      \/ stored[m] # h /\ Finish(r) /\ spent' = spent
  BY DEF ConsumeChallenge
<1>3. h \in Challenge /\ h # None /\ req[r].c = None /\ ~Locking(req[r]) /\ m \in Ceremony
      /\ stored \in [Ceremony -> Challenge \cup {None}] /\ spent \in [Challenge -> Nat]
  BY <1>0, <1>1, SignInAssumption DEF Fits, Holds, Locking, Ceremony, TypeOK
<1>4. /\ stored' \in [Ceremony -> Challenge \cup {None}]
      /\ \A n \in Ceremony : stored'[n] = IF n = m THEN None ELSE stored[n]
  BY <1>1, <1>3
<1>5. ASSUME NEW x \in Request, Put(r, x), Fits(x), x.c = None,
             x.pc \in {"idle", "register", "assert", "elevate"},
             spent' \in [Challenge -> Nat], Challenged'
      PROVE  IndInv'
  <2>1. TypeOK'
    BY <1>0, <1>1, <1>4, <1>5, PutReq DEF TypeOK, lockout
  <2>2. Kept'
    BY <1>0, <1>1, <1>5, KeptAlone
  <2> QED
    BY <1>1, <1>3, <1>5, <2>1, <2>2, KeyMove
<1>6. CASE stored[m] = h /\ Goto(r, p) /\ spent' = [spent EXCEPT ![h] = @ + 1]
  <2>1. spent[h] = 0 /\ h \in issued
    BY <1>0, <1>3, <1>6 DEF Challenged
  <2>2. spent' \in [Challenge -> Nat] /\ \A g \in Challenge : spent'[g] = IF g = h THEN 1 ELSE spent[g]
    BY <1>3, <1>6, <2>1
  <2>3. \A n \in Ceremony : n # m => stored[n] # h
    BY <1>0, <1>3, <1>6 DEF Challenged, Ceremony
  <2>4. Challenged'
    <3>1. ASSUME NEW n \in Ceremony, stored'[n] # None
          PROVE  stored'[n] \in issued' /\ spent'[stored'[n]] = 0
      <4>1. n # m /\ stored'[n] = stored[n] /\ stored[n] # h /\ stored[n] \in Challenge
        BY <1>3, <1>4, <2>3, <3>1
      <4> QED
        BY <1>0, <1>1, <2>2, <3>1, <4>1 DEF Challenged
    <3>2. stored'["registration"] = stored'["authentication"] => stored'["registration"] = None
      BY <1>0, <1>3, <1>4 DEF Challenged, Ceremony
    <3>3. \A g \in Challenge : spent'[g] <= 1 /\ (g \notin issued' => spent'[g] = 0)
      BY <1>0, <1>1, <2>1, <2>2 DEF Challenged
    <3> QED
      BY <3>1, <3>2, <3>3 DEF Challenged
  <2>5. p \in {"register", "assert", "elevate"} /\ (p = "elevate" => req[r].op \notin Ceremony)
    BY DEF Ceremony
  <2>6. ASSUME NEW x, x = [req[r] EXCEPT !.pc = p] PROVE IndInv'
    <3>1. x \in Request /\ x.pc = p /\ x.c = None /\ x.s = req[r].s
      <4> HIDE DEF p
      <4> QED
        BY <1>0, <1>3, <2>5, <2>6, MoveTo DEF Pc
    <3>2. Put(r, x)
      BY <1>6, <2>6 DEF Goto
    <3>3. Fits(x)
      BY <1>0, <1>1, <2>5, <3>1 DEF Fits
    <3> HIDE DEF p
    <3> QED
      BY <1>5, <2>2, <2>4, <2>5, <3>1, <3>2, <3>3
  <2> QED
    BY <2>6
<1>7. CASE stored[m] # h /\ Finish(r) /\ spent' = spent
  <2>1. Challenged'
    BY <1>0, <1>1, <1>3, <1>4, <1>7 DEF Challenged, Ceremony
  <2> QED
    BY <1>3, <1>5, <1>7, <2>1, IdleFits DEF Finish
<1> QED
  BY <1>2, <1>6, <1>7

\* The counts are right when the deletion is alone.
LEMMA DeleteSteps ==
  ASSUME IndInv, NEW r \in Req, DeleteById(r) \/ \E k \in Passkey : DeletePasskey(r, k)
  PROVE  IndInv'
<1>0. /\ req[r] \in Request /\ Holds(req[r]) /\ TypeOK /\ Typed /\ Challenged /\ Kept
  BY Facts
<1>1. CASE DeleteById(r)
  <2>1. /\ req[r].pc = "delete" /\ passkeys' = passkeys \ {req[r].k} /\ Put(r, Idle)
        /\ UNCHANGED <<theme, lockout, password, status, totp, code, stored, issued, session, errors,
                       history>>
    BY <1>1 DEF DeleteById, Finish
  <2>2. /\ req'[r] = Idle /\ (\A q \in Req : q # r => req'[q] = req[q])
    BY <1>0, <2>1, IdleFits, PutReq DEF TypeOK
  <2>3. Kept'
    BY <1>0, <2>1, <2>2, IdleFits DEF Kept, history
  <2>4. Challenged'
    BY <1>0, <2>1 DEF Challenged, history
  <2>5. TypeOK'
    BY <1>0, <2>1, IdleFits, PutReq DEF TypeOK, lockout, history
  <2> QED
    BY <2>1, <2>3, <2>4, <2>5, IdleFits, KeyMove DEF history, Locking
<1>2. ASSUME NEW k \in Passkey, DeletePasskey(r, k) PROVE IndInv'
  <2>1. /\ req[r].pc = "idle" /\ k \in passkeys /\ (Cardinality(passkeys) > 1 \/ password)
        /\ collided' = (collided \/ \E q \in Req \ {r} : req[q].pc = "delete")
        /\ UNCHANGED <<theme, lockout, factors, session, errors, used, raced, spent, refused>>
    BY <1>2 DEF DeletePasskey
  <2>2. UNCHANGED <<password, status, totp, code, passkeys, stored, issued>>
    BY <2>1 DEF factors
  <2>3. password \/ passkeys \ {k} # {}
    <3>1. passkeys \ {k} = {} => passkeys = {k}
      BY <2>1
    <3>2. Cardinality({k}) = 1
      BY FS_Singleton
    <3> QED
      BY <2>1, <3>1, <3>2
  <2>4. ASSUME NEW x, x = [Idle EXCEPT !.pc = "delete", !.op = "passkey", !.k = k] PROVE IndInv'
    <3>1. x \in Request /\ x.pc = "delete" /\ x.c = None /\ x.k = k
      BY <2>4 DEF Idle, Request, Pc, Op
    <3>2. Put(r, x)
      BY <1>2, <2>4 DEF DeletePasskey
    <3>3. /\ req'[r] = x /\ (\A q \in Req : q # r => req'[q] = req[q])
      BY <1>0, <3>1, <3>2, PutReq DEF TypeOK
    <3>4. Kept'
      <4>1. CASE collided \/ \E q \in Req \ {r} : req[q].pc = "delete"
        BY <2>1, <4>1 DEF Kept
      <4>2. CASE ~(collided \/ \E q \in Req \ {r} : req[q].pc = "delete")
        <5>1. \A q \in Req : req'[q].pc = "delete" => q = r
          BY <3>3, <4>2
        <5> QED
          BY <2>2, <2>3, <3>1, <3>3, <5>1 DEF Kept
      <4> QED
        BY <4>1, <4>2
    <3>5. Challenged'
      BY <1>0, <2>1, <2>2 DEF Challenged
    <3>6. TypeOK'
      BY <1>0, <2>1, <2>2, <3>1, <3>2, PutReq DEF TypeOK, lockout
    <3>7. Fits(x)
      BY <3>1 DEF Fits
    <3> QED
      BY <2>1, <2>2, <3>1, <3>2, <3>4, <3>5, <3>6, <3>7, KeyMove DEF Locking
  <2> QED
    BY <2>4
<1> QED
  BY <1>1, <1>2

-----------------------------------------------------------------------------
\* Steps of nobody's request.

LEMMA Aside ==
  ASSUME IndInv, TypeOK', Guessed', Challenged', EndedStaysEnded',
         \A s \in Session : session[s].made => session'[s].made,
         UNCHANGED <<code, used, raced, password, collided, passkeys, req>>
  PROVE  IndInv'
<1>1. \A r \in Req : Fits(req[r]) /\ Holds(req[r])
  BY DEF IndInv, Typed, Coded
<1>2. ASSUME NEW r \in Req PROVE Fits(req[r])' /\ Holds(req[r])'
  BY <1>1 DEF Fits, Holds
<1>3. Typed'
  BY <1>2 DEF Typed
<1>4. Coded'
  BY <1>2 DEF IndInv, Coded
<1>5. Kept'
  BY DEF IndInv, Kept
<1> QED
  BY <1>3, <1>4, <1>5 DEF IndInv

\* Redis: a deletion arrives, time passes.
LEMMA RedisSteps ==
  ASSUME IndInv, Tick \/ \E k \in {"fail", "lock"} : ClearAttempts(k)
  PROVE  IndInv'
<1>0. TypeOK /\ Typed /\ Guessed /\ Challenged /\ EndedStaysEnded
  BY DEF IndInv, Typed
<1>1. UNCHANGED <<theme, factors, session, req, errors, history>>
  BY DEF Tick, ClearAttempts
<1>2. ASSUME fails' \in Nat, failTtl' \in 0..Window, fails' = 0 => failTtl' = 0,
             lockTtl' \in 0..LockTtl[Len(LockTtl)], clearing' \in [{"fail", "lock"} -> Nat],
             guesses' = 0 \/ (guesses' = guesses /\ fails' = fails /\ (lockTtl' = 0 => lockTtl = 0))
      PROVE  IndInv'
  <2>1. guesses' \in Nat /\ lockTtl' \in Nat
    BY <1>0, <1>2, Ladder DEF TypeOK
  <2>2. Guessed'
    BY <1>0, <1>1, <1>2, <2>1, GuessedReset
  <2>3. TypeOK'
    BY <1>0, <1>1, <1>2, <2>1 DEF TypeOK, factors, history
  <2>4. Challenged' /\ EndedStaysEnded'
    BY <1>0, <1>1 DEF Challenged, EndedStaysEnded, factors, history
  <2> QED
    BY <1>1, <2>2, <2>3, <2>4, Aside DEF factors, history
<1>3. CASE Tick
  <2>1. /\ failTtl' = IF failTtl > 0 THEN failTtl - 1 ELSE 0
        /\ lockTtl' = IF lockTtl > 0 THEN lockTtl - 1 ELSE 0
        /\ fails' = IF failTtl = 1 THEN 0 ELSE fails
        /\ guesses' = IF failTtl = 1 \/ lockTtl = 1 THEN 0 ELSE guesses
        /\ clearing' = clearing
    BY <1>3 DEF Tick
  <2>2. /\ fails \in Nat /\ failTtl \in 0..Window /\ (fails = 0 => failTtl = 0) /\ Window \in Nat
        /\ lockTtl \in 0..LockTtl[Len(LockTtl)] /\ LockTtl[Len(LockTtl)] \in Nat
        /\ clearing' \in [{"fail", "lock"} -> Nat]
    BY <1>0, <2>1, Ladder, SignInAssumption DEF TypeOK
  <2>3. /\ fails' \in Nat /\ failTtl' \in 0..Window /\ (fails' = 0 => failTtl' = 0)
        /\ lockTtl' \in 0..LockTtl[Len(LockTtl)]
        /\ guesses' = 0 \/ (guesses' = guesses /\ fails' = fails /\ (lockTtl' = 0 => lockTtl = 0))
    BY <2>1, <2>2
  <2> QED
    BY <1>2, <2>2, <2>3
<1>4. ASSUME NEW k \in {"fail", "lock"}, ClearAttempts(k) PROVE IndInv'
  <2>1. /\ clearing[k] > 0 /\ clearing' = [clearing EXCEPT ![k] = @ - 1]
        /\ \/ fails' = 0 /\ failTtl' = 0 /\ guesses' = 0 /\ lockTtl' = lockTtl
           \/ lockTtl' = 0 /\ guesses' = 0 /\ fails' = fails /\ failTtl' = failTtl
           \/ fails' = fails /\ failTtl' = failTtl /\ lockTtl' = lockTtl /\ guesses' = guesses
    BY <1>4 DEF ClearAttempts
  <2>2. clearing' \in [{"fail", "lock"} -> Nat]
    BY <1>0, <1>4, <2>1 DEF TypeOK
  <2>3. /\ fails \in Nat /\ failTtl \in 0..Window /\ (fails = 0 => failTtl = 0) /\ Window \in Nat
        /\ lockTtl \in 0..LockTtl[Len(LockTtl)] /\ LockTtl[Len(LockTtl)] \in Nat
    BY <1>0, Ladder, SignInAssumption DEF TypeOK
  <2>4. /\ fails' \in Nat /\ failTtl' \in 0..Window /\ (fails' = 0 => failTtl' = 0)
        /\ lockTtl' \in 0..LockTtl[Len(LockTtl)]
        /\ guesses' = 0 \/ (guesses' = guesses /\ fails' = fails /\ (lockTtl' = 0 => lockTtl = 0))
    BY <2>1, <2>3
  <2> QED
    BY <1>2, <2>2, <2>4
<1> QED
  BY <1>3, <1>4

\* The counts of the lockout do not change with anything else.
LEMMA GuessedStill ==
  ASSUME Guessed, UNCHANGED <<fails, lockTtl, guesses, errors, req>>
  PROVE  Guessed'
<1>1. Uncounted' = Uncounted /\ Lockers' = Lockers /\ Passers' = Passers
  BY DEF Uncounted, Lockers, Passers, AtIncr, Locking, Passed
<1> QED
  BY <1>1 DEF Guessed

LEMMA FactorAside ==
  ASSUME IndInv,
         \/ MfaSetup \/ Reinstate
         \/ \E r \in Req, s \in Session : MfaVerify(r, s) /\ req' = req
         \/ \E m \in Ceremony, h \in Challenge : PasskeyOptions(m, h)
         \/ \E m \in Ceremony : ChallengeExpires(m)
  PROVE  IndInv'
<1>0. TypeOK /\ Guessed /\ Challenged /\ EndedStaysEnded
  BY DEF IndInv, Typed
<1>1. ASSUME UNCHANGED <<theme, lockout, password, code, passkeys, session, req, errors, used, raced,
                         spent, collided>>,
             TypeOK', Challenged'
      PROVE  IndInv'
  <2>1. Guessed'
    BY <1>0, <1>1, GuessedStill DEF lockout
  <2>2. EndedStaysEnded'
    BY <1>0, <1>1 DEF EndedStaysEnded
  <2> QED
    BY <1>1, <2>1, <2>2, Aside
<1>2. CASE MfaSetup
  <2>1. TypeOK' /\ Challenged'
    BY <1>0, <1>2 DEF MfaSetup, SetupTotp, TypeOK, Challenged, lockout, history
  <2> QED
    BY <1>1, <1>2, <2>1 DEF MfaSetup, history
<1>3. CASE Reinstate
  <2>1. TypeOK' /\ Challenged'
    BY <1>0, <1>3 DEF Reinstate, TypeOK, Challenged, lockout, history
  <2> QED
    BY <1>1, <1>3, <2>1 DEF Reinstate, history
<1>4. ASSUME NEW r \in Req, NEW s \in Session, MfaVerify(r, s), req' = req PROVE IndInv'
  <2>1. UNCHANGED <<theme, lockout, factors, session, errors, used, raced, spent, collided>>
    BY <1>4 DEF MfaVerify
  <2>2. refused' \in BOOLEAN
    <3>1. session[s] \in Row
      BY <1>0 DEF TypeOK
    <3>2. refused \in BOOLEAN
      BY <1>0 DEF TypeOK
    <3>3. \/ refused' = refused
          \/ refused' = (refused \/ (session[s].pending /\ ~session[s].revoked
                                         /\ ~session[s].expired /\ ~session[s].bearer))
      BY <1>4 DEF MfaVerify
    <3> QED
      BY <3>1, <3>2, <3>3 DEF Row
  <2>3. TypeOK' /\ Challenged'
    BY <1>0, <1>4, <2>1, <2>2 DEF TypeOK, Challenged, lockout, factors
  <2> QED
    BY <1>1, <1>4, <2>1, <2>3 DEF factors
<1>5. ASSUME NEW m \in Ceremony, NEW h \in Challenge, PasskeyOptions(m, h) PROVE IndInv'
  <2>1. /\ h \notin issued /\ issued' = issued \cup {h} /\ stored' = [stored EXCEPT ![m] = h]
        /\ UNCHANGED <<theme, lockout, password, status, totp, code, passkeys, session, req, errors,
                       history>>
    BY <1>5 DEF PasskeyOptions, StoreChallenge
  <2>2. /\ stored' \in [Ceremony -> Challenge \cup {None}]
        /\ \A n \in Ceremony : stored'[n] = IF n = m THEN h ELSE stored[n]
    BY <1>0, <1>5, <2>1 DEF TypeOK
  <2>3. TypeOK'
    BY <1>0, <1>5, <2>1, <2>2 DEF TypeOK, lockout, history
  <2>4. Challenged'
    <3>1. spent[h] = 0 /\ h # None /\ spent' = spent
      BY <1>0, <1>5, <2>1, SignInAssumption DEF Challenged, history
    <3>2. \A n \in Ceremony : stored'[n] # None => stored'[n] \in issued' /\ spent'[stored'[n]] = 0
      BY <1>0, <2>1, <2>2, <3>1 DEF Challenged
    <3>3. \A n \in Ceremony : stored[n] # h
      BY <1>0, <2>1, <3>1 DEF Challenged
    <3>4. stored'["registration"] = stored'["authentication"] => stored'["registration"] = None
      BY <1>0, <1>5, <2>2, <3>3 DEF Challenged, Ceremony
    <3>5. \A g \in Challenge : spent'[g] <= 1 /\ (g \notin issued' => spent'[g] = 0)
      BY <1>0, <2>1, <3>1 DEF Challenged
    <3> QED
      BY <3>2, <3>4, <3>5 DEF Challenged
  <2> QED
    BY <1>1, <2>1, <2>3, <2>4 DEF history
<1>6. ASSUME NEW m \in Ceremony, ChallengeExpires(m) PROVE IndInv'
  <2>1. /\ stored' = [stored EXCEPT ![m] = None]
        /\ UNCHANGED <<theme, lockout, password, status, totp, code, passkeys, issued, session, req,
                       errors, history>>
    BY <1>6 DEF ChallengeExpires
  <2>2. /\ stored' \in [Ceremony -> Challenge \cup {None}]
        /\ \A n \in Ceremony : stored'[n] = IF n = m THEN None ELSE stored[n]
    BY <1>0, <1>6, <2>1 DEF TypeOK
  <2>3. TypeOK'
    BY <1>0, <2>1, <2>2 DEF TypeOK, lockout, history
  <2>4. Challenged'
    BY <1>0, <1>6, <2>1, <2>2 DEF Challenged, Ceremony, history
  <2> QED
    BY <1>1, <2>1, <2>3, <2>4 DEF history
<1> QED
  BY <1>2, <1>3, <1>4, <1>5, <1>6

LEMMA SessionAside ==
  ASSUME IndInv,
         \/ Suspend
         \/ \E s \in Session : WindowPasses(s) \/ ExpireSession(s) \/ RevokeSession(s)
  PROVE  IndInv'
<1>0. TypeOK /\ Guessed /\ Challenged /\ EndedStaysEnded
  BY DEF IndInv, Typed
<1>1. ASSUME session' \in [Session -> Row], EndedStaysEnded',
             \A t \in Session : session[t].made => session'[t].made,
             \A t \in Session : session'[t].valid \/ session'[t].known => session'[t].made,
             status' \in {"ACTIVE", "SUSPENDED"},
             UNCHANGED <<theme, lockout, password, totp, code, passkeys, stored, issued, req, errors,
                         history>>
      PROVE  IndInv'
  <2>1. TypeOK'
    BY <1>0, <1>1 DEF TypeOK, lockout, history
  <2>2. Guessed'
    BY <1>0, <1>1, GuessedStill DEF lockout
  <2>3. Challenged'
    BY <1>0, <1>1 DEF Challenged, history
  <2> QED
    BY <1>1, <2>1, <2>2, <2>3, Aside DEF history
<1>2. ASSUME NEW s \in Session, NEW row \in Row, session' = [session EXCEPT ![s] = row],
             session[s].made => row.made, row.valid \/ row.known => row.made,
             row.revoked /\ row.valid => row.via = "recovery",
             UNCHANGED <<theme, lockout, factors, req, errors, history>>
      PROVE  IndInv'
  <2>1. /\ session' \in [Session -> Row] /\ EndedStaysEnded'
        /\ \A t \in Session : session[t].made => session'[t].made
        /\ \A t \in Session : session'[t].valid \/ session'[t].known => session'[t].made
    BY <1>0, <1>2, RowPut
  <2>2. status' \in {"ACTIVE", "SUSPENDED"}
    BY <1>0, <1>2 DEF TypeOK, factors
  <2> QED
    BY <1>1, <1>2, <2>1, <2>2 DEF factors
<1>3. ASSUME NEW s \in Session, WindowPasses(s) PROVE IndInv'
  <2>1. ASSUME NEW row, row = [session[s] EXCEPT !.elevated = FALSE] PROVE IndInv'
    <3>1. /\ row \in Row /\ row.made = session[s].made /\ row.revoked = session[s].revoked
          /\ row.via = session[s].via /\ row.valid = session[s].valid /\ row.known = session[s].known
      BY <1>0, <2>1 DEF TypeOK, Row
    <3>2. session' = [session EXCEPT ![s] = row]
          /\ UNCHANGED <<theme, lockout, factors, req, errors, history>>
      BY <1>0, <1>3, <2>1 DEF WindowPasses, TypeOK
    <3> QED
      BY <1>0, <1>2, <3>1, <3>2 DEF EndedStaysEnded, TypeOK
  <2> QED
    BY <2>1
<1>4. ASSUME NEW s \in Session, ExpireSession(s) PROVE IndInv'
  <2>1. ASSUME NEW row, row = [session[s] EXCEPT !.expired = TRUE] PROVE IndInv'
    <3>1. /\ row \in Row /\ row.made = session[s].made /\ row.revoked = session[s].revoked
          /\ row.via = session[s].via /\ row.valid = session[s].valid /\ row.known = session[s].known
      BY <1>0, <2>1 DEF TypeOK, Row
    <3>2. session' = [session EXCEPT ![s] = row]
          /\ UNCHANGED <<theme, lockout, factors, req, errors, history>>
      BY <1>0, <1>4, <2>1 DEF ExpireSession, TypeOK
    <3> QED
      BY <1>0, <1>2, <3>1, <3>2 DEF EndedStaysEnded, TypeOK
  <2> QED
    BY <2>1
<1>5. ASSUME NEW s \in Session, RevokeSession(s) PROVE IndInv'
  <2>1. ASSUME NEW row, row = [session[s] EXCEPT !.valid = FALSE, !.revoked = TRUE] PROVE IndInv'
    <3>1. /\ row \in Row /\ row.made = session[s].made /\ ~row.valid /\ row.known = session[s].known
      BY <1>0, <2>1 DEF TypeOK, Row
    <3>2. session' = [session EXCEPT ![s] = row]
          /\ UNCHANGED <<theme, lockout, factors, req, errors, history>>
      BY <1>0, <1>5, <2>1 DEF RevokeSession, TypeOK, Row
    <3> QED
      BY <1>0, <1>2, <3>1, <3>2 DEF TypeOK
  <2> QED
    BY <2>1
<1>6. CASE Suspend
  <2>1. /\ status' = "SUSPENDED"
        /\ session' = [s \in Session |->
             IF session[s].valid THEN [session[s] EXCEPT !.valid = FALSE, !.revoked = TRUE] ELSE session[s]]
        /\ UNCHANGED <<theme, lockout, password, totp, code, passkeys, stored, issued, req, errors,
                       history>>
    BY <1>6 DEF Suspend
  <2>2. ASSUME NEW s \in Session
        PROVE  /\ session'[s] \in Row /\ session'[s].made = session[s].made
               /\ ~session'[s].valid /\ session'[s].known = session[s].known
    BY <1>0, <2>1, <2>2 DEF TypeOK, Row
  <2>3. session' \in [Session -> Row]
    BY <2>1, <2>2
  <2> QED
    BY <1>0, <1>1, <2>1, <2>2, <2>3 DEF TypeOK, EndedStaysEnded
<1> QED
  BY <1>3, <1>4, <1>5, <1>6

\* A right TOTP code, accepted or refused.
LEMMA VerifyStep ==
  ASSUME IndInv, NEW r \in Req, NEW s \in Session, MfaVerify(r, s)
  PROVE  IndInv'
<1>0. req[r] \in Request /\ TypeOK
  BY Facts
<1>1. CASE req' = req
  BY <1>1, FactorAside
<1>2. ASSUME NEW x, x = [Idle EXCEPT !.pc = "promote", !.op = "mfa", !.s = s], Put(r, x),
             session[s].valid, refused' = refused
      PROVE  IndInv'
  <2>1. x \in Request /\ x.pc = "promote" /\ x.c = None /\ x.s = s
    BY <1>2 DEF Idle, Request, Pc, Op
  <2>2. /\ req[r].pc = "idle" /\ session[s].made
        /\ UNCHANGED <<theme, lockout, factors, session, errors, history>>
    BY <1>0, <1>2 DEF MfaVerify, TypeOK, history
  <2> QED
    BY <1>2, <2>1, <2>2, QuietMove DEF Locking, Fits
<1> QED
  BY <1>1, <1>2 DEF MfaVerify

-----------------------------------------------------------------------------
\* The inductive invariant.

LEMMA InitInv == Init => IndInv
<1> SUFFICES ASSUME Init PROVE IndInv
  OBVIOUS
<1>1. /\ \A r \in Req : req[r] = Idle
      /\ fails = 0 /\ lockTtl = 0 /\ guesses = 0 /\ errors = 0
  BY DEF Init
<1>2. /\ session \in [Session -> Row]
      /\ \A s \in Session : (session[s].valid \/ session[s].known => session[s].made) /\ ~session[s].revoked
  <2>1. PICK f \in Session :
          session = [s \in Session |-> IF s = f /\ "login" \notin theme
                             THEN [NoRow EXCEPT !.made = TRUE, !.valid = TRUE, !.known = TRUE,
                                                !.bearer = TRUE, !.via = "password"]
                             ELSE NoRow]
    BY DEF Init
  <2>2. ASSUME NEW row, row = [NoRow EXCEPT !.made = TRUE, !.valid = TRUE, !.known = TRUE,
                                            !.bearer = TRUE, !.via = "password"]
        PROVE  /\ session \in [Session -> Row]
               /\ \A s \in Session : session[s].valid \/ session[s].known => session[s].made
               /\ \A s \in Session : ~session[s].revoked
    <3>1. row \in Row /\ row.made /\ ~row.revoked
      BY <2>2 DEF Row, NoRow
    <3>2. NoRow \in Row /\ ~NoRow.valid /\ ~NoRow.known /\ ~NoRow.revoked
      BY DEF Row, NoRow
    <3>3. session = [s \in Session |-> IF s = f /\ "login" \notin theme THEN row ELSE NoRow]
      BY <2>1, <2>2
    <3>4. \A s \in Session : session[s] = row \/ session[s] = NoRow
      BY <3>3
    <3>5. session \in [Session -> Row]
      BY <3>1, <3>2, <3>3
    <3>6. ASSUME NEW s \in Session
          PROVE  (session[s].valid \/ session[s].known => session[s].made) /\ ~session[s].revoked
      <4>1. CASE session[s] = row
        BY <3>1, <4>1
      <4>2. CASE session[s] = NoRow
        BY <3>2, <4>2
      <4> QED
        BY <3>4, <4>1, <4>2
    <3> QED
      BY <3>5, <3>6
  <2> QED
    BY <2>2
<1>3. req \in [Req -> Request]
  BY IdleFits DEF Init
<1>4. 0 \in 0..Window /\ 0 \in 0..LockTtl[Len(LockTtl)]
  BY Ladder, SignInAssumption
<1>5. TypeOK
  BY <1>2, <1>3, <1>4 DEF Init, TypeOK, Ceremony
<1>6. Typed
  BY <1>1, <1>5, IdleFits DEF Typed
<1>7. Guessed
  <2>1. Passers = {} /\ Cardinality(Passers) = 0
    BY <1>1, IdleFits, FS_EmptySet DEF Passers
  <2> QED
    BY <1>1, <1>6, <2>1, GuessTypes DEF Guessed
<1>8. Coded
  BY <1>1, IdleFits DEF Init, Coded
<1>9. Challenged
  BY DEF Init, Challenged, Ceremony
<1>10. EndedStaysEnded /\ Kept
  BY <1>1, <1>2, IdleFits DEF EndedStaysEnded, Kept
<1> QED
  BY <1>6, <1>7, <1>8, <1>9, <1>10 DEF IndInv

LEMMA NextInv == IndInv /\ [Next]_vars => IndInv'
<1> SUFFICES ASSUME IndInv, [Next]_vars PROVE IndInv'
  OBVIOUS
<1>1. CASE UNCHANGED vars
  BY <1>1 DEF vars, lockout, factors, history, IndInv, Typed, TypeOK, Fits, Guessed, Uncounted,
              Lockers, Passers, AtIncr, Locking, Passed, Coded, Holds, Challenged,
              EndedStaysEnded, Kept
<1>2. ASSUME NEW r \in Req, RequestStep(r) PROVE IndInv'
  <2>1. CASE Login(r)
    BY <2>1, LoginSteps, ReadSteps, SessionSteps DEF Login
  <2>2. CASE RecordIncr(r) \/ RecordExpire(r) \/ RecordTtl(r) \/ RecordLock(r)
    BY <2>2, RecordSteps
  <2>3. CASE MfaConfirm(r)
    BY <2>3, ReadSteps, ConfirmedStep DEF MfaConfirm
  <2>4. CASE MfaVerification(r)
    BY <2>4, SessionSteps, VerifyStep DEF MfaVerification
  <2>5. CASE \/ \E s \in Session : Recovery(r, s)
             \/ DisableMfa(r)
             \/ \E h \in Challenge, s \in Session : StepUpPasskey(r, s, h)
             \/ \E s \in Session, m \in {"password", "totp"} : StepUp(r, s, m)
    BY <2>5, ReadSteps
  <2>6. CASE \E c \in Code : FindCode(r, c)
    BY <2>6, FindStep
  <2>7. CASE MarkCode(r) \/ Revive(r)
    BY <2>7, MarkStep, ReviveStep
  <2>8. CASE DisableAll(r)
    BY <2>8, FactorSteps
  <2>9. CASE PasskeyRegistration(r) \/ PasskeyAuthentication(r)
    BY <2>9, FactorSteps, ReadSteps, SessionSteps DEF PasskeyRegistration, PasskeyAuthentication
  <2>10. CASE ConsumeChallenge(r)
    BY <2>10, ConsumeStep
  <2>11. CASE DeleteById(r) \/ \E k \in Passkey : DeletePasskey(r, k)
    BY <2>11, DeleteSteps
  <2>12. CASE Elevate(r)
    BY <2>12, SessionSteps
  <2>13. CASE Abort(r)
    BY <2>13, AbortStep
  <2> QED
    BY <1>2, <2>1, <2>2, <2>3, <2>4, <2>5, <2>6, <2>7, <2>8, <2>9, <2>10, <2>11, <2>12, <2>13
       DEF RequestStep
<1>3. CASE Tick \/ \E k \in {"fail", "lock"} : ClearAttempts(k)
  BY <1>3, RedisSteps
<1>4. CASE \/ MfaSetup \/ Reinstate
           \/ \E m \in Ceremony, h \in Challenge : PasskeyOptions(m, h)
           \/ \E m \in Ceremony : ChallengeExpires(m)
  BY <1>4, FactorAside
<1>5. CASE Suspend \/ \E s \in Session : WindowPasses(s) \/ ExpireSession(s) \/ RevokeSession(s)
  BY <1>5, SessionAside
<1> QED
  BY <1>1, <1>2, <1>3, <1>4, <1>5 DEF Next

LEMMA Invariance == Spec => []IndInv
BY InitInv, NextInv, PTL DEF Spec

-----------------------------------------------------------------------------
\* Type correctness: no operation leaves an ill-formed counter, session, code or
\* challenge behind.
THEOREM TypeCorrect == Spec => []TypeOK
<1>1. IndInv => TypeOK
  BY DEF IndInv, Typed
<1> QED
  BY Invariance, <1>1, PTL

\* The lockout (login-attempt.ts) holds against concurrent requests: at most
\* the first threshold of wrong passwords are verified, plus one for each further
\* request at a time and each Redis error, before the counter or the lock is gone.
THEOREM GuessesAreBounded == Spec => []GuessesBounded
<1>1. IndInv => GuessesBounded
  <2> SUFFICES ASSUME IndInv PROVE GuessesBounded
    OBVIOUS
  <2>1. Typed /\ Guessed
    BY DEF IndInv
  <2>2. guesses + Cardinality(Passers) <= Threshold[1] - 1 + Cardinality(Req) + errors
    BY <2>1 DEF Guessed
  <2> QED
    BY <2>1, <2>2, GuessTypes DEF GuessesBounded
<1> QED
  BY Invariance, <1>1, PTL

\* A recovery code (mfa.service.ts consumeRecoveryCode) signs in twice
\* only when two requests found it unused before either marked it.
THEOREM CodesWorkOnce == Spec => []CodeOnce
<1>1. IndInv => CodeOnce
  BY DEF IndInv, Coded, CodeOnce
<1> QED
  BY Invariance, <1>1, PTL

\* A passkey challenge (challenge-store.ts consumeChallenge) is accepted once,
\* by whatever ceremony or step-up answers it.
THEOREM ChallengesWorkOnce == Spec => []ChallengeOnce
<1>1. IndInv => ChallengeOnce
  BY DEF IndInv, Challenged, ChallengeOnce
<1> QED
  BY Invariance, <1>1, PTL

\* A session that a logout or a suspension ended is valid again only after a
\* recovery code, never through MFA verification, step-up or a login under way.
THEOREM EndedStayEnded == Spec => []EndedStaysEnded
<1>1. IndInv => EndedStaysEnded
  BY DEF IndInv
<1> QED
  BY Invariance, <1>1, PTL

\* The conditional update of step-up.service.ts: what becomes elevated is live.
THEOREM ElevationNeedsLive == Spec => ElevationOnLive
<1> DEFINE Needs == \A s \in Session : session'[s].elevated /\ ~session[s].elevated => Live(s)
<1>1. IndInv /\ [Next]_vars => [Needs]_vars
  <2> SUFFICES ASSUME IndInv, Next PROVE Needs
    OBVIOUS
  <2>1. session \in [Session -> Row]
    BY DEF IndInv, Typed, TypeOK
  <2>2. CASE session' = session
    BY <2>2
  <2>3. ASSUME NEW r \in Req,
               LoginSession(r) \/ LoginIssue(r) \/ MfaPromote(r) \/ Revive(r) \/ PasskeyEnter(r)
        PROVE  Needs
    <3>1. req[r].pc \in {"issue", "promote", "revive"} => req[r].s \in Session
      BY Facts DEF Fits
    <3>2. CASE LoginSession(r)
      BY <2>1, <3>2 DEF LoginSession, NoRow
    <3>3. CASE LoginIssue(r)
      BY <2>1, <3>1, <3>3 DEF LoginIssue, Row
    <3>4. CASE MfaPromote(r)
      BY <2>1, <3>1, <3>4 DEF MfaPromote, PromoteToAal2, Row
    <3>5. CASE Revive(r)
      BY <2>1, <3>1, <3>5 DEF Revive, Row
    <3>6. CASE PasskeyEnter(r)
      BY <2>1, <3>6 DEF PasskeyEnter, NoRow
    <3> QED
      BY <2>3, <3>2, <3>3, <3>4, <3>5, <3>6
  <2>4. ASSUME NEW r \in Req, Elevate(r) PROVE Needs
    <3>1. req[r].s \in Session
      BY <2>4, Facts DEF Elevate, Fits
    <3> QED
      BY <2>1, <2>4, <3>1 DEF Elevate, Row
  <2>5. ASSUME NEW s \in Session, WindowPasses(s) \/ ExpireSession(s) \/ RevokeSession(s)
        PROVE  Needs
    BY <2>1, <2>5 DEF WindowPasses, ExpireSession, RevokeSession, Row
  <2>6. CASE Suspend
    BY <2>1, <2>6 DEF Suspend, Row
  <2>7. ASSUME NEW r \in Req, RequestStep(r) PROVE Needs
    <3>1. \/ session' = session
          \/ LoginSession(r) \/ LoginIssue(r) \/ MfaPromote(r) \/ Revive(r) \/ PasskeyEnter(r)
          \/ Elevate(r)
      BY <2>7 DEF RequestStep, Login, LoginCheck, LoginWrong, LoginRight, LoginRefused,
           RecordIncr, RecordExpire, RecordTtl, RecordLock, MfaConfirm, ConfirmTotp, GenerateCodes,
           MfaConfirmed, MfaVerification, MfaVerify, Recovery, FindCode, MarkCode, DisableMfa,
           DisableAll, PasskeyRegistration, PasskeyRegister, StorePasskey, PasskeyAuthentication,
           PasskeyAuthenticate, VerifyAssertion, ConsumeChallenge, StepUpPasskey, DeletePasskey,
           DeleteById, StepUp, Abort
    <3> QED
      BY <2>2, <2>3, <2>4, <3>1
  <2>8. CASE \/ Tick \/ MfaSetup \/ Reinstate
             \/ \E k \in {"fail", "lock"} : ClearAttempts(k)
             \/ \E m \in Ceremony, h \in Challenge : PasskeyOptions(m, h)
             \/ \E m \in Ceremony : ChallengeExpires(m)
    BY <2>2, <2>8 DEF Tick, MfaSetup, Reinstate, ClearAttempts, PasskeyOptions, ChallengeExpires
  <2> QED
    BY <2>5, <2>6, <2>7, <2>8 DEF Next
<1> QED
  BY <1>1, Invariance, PTL DEF Spec, ElevationOnLive

\* The counts of passkey.route.ts keep the last way in: the last passkey of an
\* account without a password goes only when two deletions overlapped.
THEOREM AWayInIsKept == Spec => KeepsAWayIn
<1> DEFINE Keeps == passkeys # {} /\ passkeys' = {} => password \/ collided
<1>1. IndInv /\ [Next]_vars => [Keeps]_vars
  <2> SUFFICES ASSUME IndInv, Next PROVE Keeps
    OBVIOUS
  <2>1. CASE passkeys' = passkeys
    BY <2>1
  <2>2. ASSUME NEW r \in Req, RequestStep(r) PROVE Keeps
    <3>1. CASE DeleteById(r)
      BY <3>1 DEF DeleteById, IndInv, Kept
    <3>2. ASSUME NEW k \in Passkey, StorePasskey(r, k) PROVE Keeps
      BY <3>2 DEF StorePasskey, VerifyRegistration
    <3>3. \/ passkeys' = passkeys \/ DeleteById(r)
          \/ \E k \in Passkey : StorePasskey(r, k)
      BY <2>2 DEF factors, RequestStep, Login, LoginCheck, LoginWrong, LoginRight, LoginRefused,
           LoginSession, LoginIssue, RecordIncr, RecordExpire, RecordTtl, RecordLock, MfaConfirm,
           ConfirmTotp, GenerateCodes, MfaConfirmed, MfaVerification, MfaVerify, MfaPromote,
           Recovery, FindCode, MarkCode, Revive, DisableMfa, DisableAll, PasskeyRegistration,
           PasskeyRegister, PasskeyAuthentication, PasskeyAuthenticate, VerifyAssertion,
           PasskeyEnter, ConsumeChallenge, StepUpPasskey, DeletePasskey, StepUp, Elevate, Abort
    <3> QED
      BY <2>1, <3>1, <3>2, <3>3
  <2>3. CASE ~\E r \in Req : RequestStep(r)
    BY <2>1, <2>3 DEF Next, factors, Tick, MfaSetup, Reinstate, Suspend, ClearAttempts, PasskeyOptions,
         ChallengeExpires, WindowPasses, ExpireSession, RevokeSession
  <2> QED
    BY <2>2, <2>3
<1> QED
  BY <1>1, Invariance, PTL DEF Spec, KeepsAWayIn
=============================================================================
