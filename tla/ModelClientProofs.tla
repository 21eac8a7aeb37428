-------------------------- MODULE ModelClientProofs --------------------------
(***************************************************************************)
(* Proofs about the model client, for any number of callers and any time   *)
(* limits that meet TimeAssumption and MarginAssumption.                   *)
(***************************************************************************)
EXTENDS ModelClient, FiniteSetTheorems, TLAPS

\* A fetch started at most Timeout ago, and what waits is not overdue.
OnTime ==
  \A c \in Caller :
    /\ at[c] \in {"fetch", "minted", "call"} => now <= due[c]
    /\ at[c] \in {"fetch", "minted"} => due[c] <= now + Timeout

\* What a caller knows of its token: one under way was made no earlier than the
\* fetch began and lasts longer than a fetch and a call; one in use outlives the
\* call that carries it.  A blind caller knows nothing.
TokensLast ==
  \A c \in Caller \ blind :
    /\ at[c] = "minted" => /\ ttl \in TTLs \cup {0}
                          /\ due[c] - Timeout + Believed(ttl) <= bearer[c]
                          /\ due[c] + Timeout < bearer[c]
    /\ at[c] = "call" => due[c] < bearer[c]

\* Who is blind holds a token.
BlindHold == \A c \in blind : at[c] \notin {"idle", "lock", "fetch"}

\* The kept token is accepted for Timeout longer than the client uses it.
MarginKept == have /\ ~keptBlind => expires + Timeout <= validTo

IInv == TypeOK /\ OneFetcher /\ OnTime /\ TokensLast /\ BlindHold /\ MarginKept

-----------------------------------------------------------------------------
LEMMA Numbers ==
  /\ Timeout \in Nat \ {0} /\ Margin \in Nat /\ Delay \in Nat /\ MaxTime \in Nat
  /\ TTLs \subseteq Nat \ {0} /\ None \notin Caller /\ DefaultTTL \in Nat \ {0} /\ Overtakes \in Nat
  /\ 2 * Timeout <= Margin /\ \A t \in TTLs : t > 2 * Timeout
  BY TimeAssumption, MarginAssumption

LEMMA IInvInit == Init => IInv
  <1> SUFFICES ASSUME Init PROVE IInv
    OBVIOUS
  <1>1. \A c \in Caller : at[c] = "idle"
    BY DEF Init
  <1>2. TypeOK
    <2>1. at \in [Caller -> Places]
      BY DEF Init, Places
    <2>2. due \in [Caller -> Nat] /\ bearer \in [Caller -> Nat] /\ begun \in [Caller -> Nat]
      BY DEF Init
    <2>5. overtaken \in [Caller -> 0..Overtakes]
      BY Numbers DEF Init
    <2>6. blind \subseteq Caller /\ keptBlind \in BOOLEAN
      BY DEF Init
    <2>3. /\ now \in Nat /\ expires \in Int /\ validTo \in Nat /\ ttl \in Nat
          /\ lock \in Caller \cup {None} /\ gone \subseteq Caller
      BY DEF Init
    <2>4. have \in BOOLEAN /\ degraded \in BOOLEAN
      BY DEF Init
    <2> QED
      BY <2>1, <2>2, <2>3, <2>4, <2>5, <2>6 DEF TypeOK
  <1> QED
    BY <1>1, <1>2, Numbers DEF Init, IInv, OneFetcher, OnTime, TokensLast, BlindHold, MarginKept

LEMMA TypeStep == TypeOK /\ [Next]_vars => TypeOK'
  <1> SUFFICES ASSUME TypeOK, [Next]_vars PROVE TypeOK'
    OBVIOUS
  <1> USE Numbers DEF TypeOK, Places, Goto, Return, TimeLimit, tokenVars, callerVars
  <1>1. CASE Tick
    BY <1>1 DEF Tick
  <1>2. ASSUME NEW c \in Caller, Ask(c) PROVE TypeOK'
    BY <1>2 DEF Ask
  <1>3. ASSUME NEW c \in Caller, Reuse(c) PROVE TypeOK'
    BY <1>3 DEF Reuse
  <1>4. ASSUME NEW c \in Caller, Fetch(c) PROVE TypeOK'
    <2>1. overtaken' \in [Caller -> 0..Overtakes]
      BY <1>4 DEF Fetch, MayOvertake
    <2> QED
      BY <1>4, <2>1 DEF Fetch
  <1>5. ASSUME NEW c \in Caller, Mint(c) PROVE TypeOK'
    BY <1>5 DEF Mint
  <1>6. ASSUME NEW c \in Caller, TokenArrives(c) PROVE TypeOK'
    <2>1. now + (Believed(ttl) - Margin) \in Int /\ now + Timeout \in Nat
      BY DEF Believed
    <2>2. expires' \in Int /\ validTo' \in Nat /\ ttl' \in Nat
      BY <1>6, <2>1 DEF TokenArrives, UseUntil
    <2>3. due' \in [Caller -> Nat] /\ at' \in [Caller -> Places]
      BY <1>6, <2>1 DEF TokenArrives
    <2> QED
      BY <1>6, <2>2, <2>3 DEF TokenArrives
  <1>7. ASSUME NEW c \in Caller, FetchFails(c) PROVE TypeOK'
    BY <1>7 DEF FetchFails, Unlocked
  <1>8. ASSUME NEW c \in Caller, CallEnds(c) PROVE TypeOK'
    BY <1>8 DEF CallEnds
  <1>9. ASSUME NEW c \in Caller, Answered(c) \/ GiveUp(c) \/ StubEnds(c) PROVE TypeOK'
    <2>1. Return(c) /\ degraded' \in BOOLEAN
      BY <1>9 DEF Answered, GiveUp, StubEnds
    <2>2. due' \in [Caller -> Nat] /\ bearer' \in [Caller -> Nat] /\ begun' \in [Caller -> Nat]
      BY <2>1
    <2>3. at' \in [Caller -> Places] /\ gone' \subseteq Caller /\ blind' \subseteq Caller
      BY <2>1
    <2> QED
      BY <2>1, <2>2, <2>3
  <1>10. ASSUME NEW c \in Caller, FallBack(c) PROVE TypeOK'
    BY <1>10 DEF FallBack
  <1>11. ASSUME NEW c \in Caller, Disconnect(c) PROVE TypeOK'
    BY <1>11 DEF Disconnect
  <1>12. CASE UNCHANGED vars
    BY <1>12 DEF vars
  <1> QED
    BY <1>1, <1>2, <1>3, <1>4, <1>5, <1>6, <1>7, <1>8, <1>9, <1>10, <1>11, <1>12
    DEF Next, Step

LEMMA FetcherStep == TypeOK /\ OneFetcher /\ [Next]_vars => OneFetcher'
  <1> SUFFICES ASSUME TypeOK, OneFetcher, [Next]_vars PROVE OneFetcher'
    OBVIOUS
  <1>1. None \notin Caller
    BY Numbers
  <1> QED
    BY <1>1 DEF TypeOK, OneFetcher, Next, Step, Tick, Ask, Reuse, Fetch, Mint, TokenArrives,
                FetchFails, CallEnds, Answered, GiveUp, FallBack, StubEnds, Disconnect,
                Acquires, Unlocked, Goto, Return, tokenVars, callerVars, vars

\* The steps that matter are the clock's, those that begin to wait, and the
\* token's way to the call; the others leave a caller with less to keep.
LEMMA TimeStep ==
  ASSUME IInv, [Next]_vars
  PROVE  OnTime' /\ TokensLast' /\ BlindHold' /\ MarginKept'
  <1> USE DEF IInv, TypeOK, OnTime, TokensLast, BlindHold, MarginKept, Goto, TimeLimit, tokenVars, callerVars
  <1>0. \A c \in Caller : due[c] \in Nat /\ bearer[c] \in Nat
    OBVIOUS
  <1>1. CASE Tick
    BY <1>0, <1>1, Numbers DEF Tick, Waiting
  <1>2. ASSUME NEW c \in Caller, Reuse(c) PROVE OnTime' /\ TokensLast' /\ BlindHold' /\ MarginKept'
    <2>1. ~keptBlind => now + Timeout < validTo
      BY <1>2, Numbers DEF Reuse, Usable
    <2> QED
      BY <1>0, <1>2, <2>1, Numbers DEF Reuse
  <1>3. ASSUME NEW c \in Caller, Fetch(c) PROVE OnTime' /\ TokensLast' /\ BlindHold' /\ MarginKept'
    <2>1. /\ at' = [at EXCEPT ![c] = "fetch"] /\ due' = [due EXCEPT ![c] = now + Timeout]
          /\ UNCHANGED <<now, ttl, bearer, blind, have, expires, validTo, keptBlind>>
          /\ c \notin blind
      BY <1>3 DEF Fetch, Acquires
    <2> QED
      BY <1>0, <2>1, Numbers
  <1>4. ASSUME NEW c \in Caller, Mint(c) PROVE OnTime' /\ TokensLast' /\ BlindHold' /\ MarginKept'
    <2>1. \A d \in Caller \ {c} : at[d] \notin {"fetch", "minted"}
      BY <1>4 DEF Mint, OneFetcher
    <2>2. at[c] = "fetch" /\ c \notin blind /\ due[c] <= now + Timeout /\ due[c] \in Nat
      BY <1>4 DEF Mint
    <2>3. PICK t \in TTLs : \E reported \in {t, 0} :
            /\ ttl' = reported /\ bearer' = [bearer EXCEPT ![c] = now + t]
            /\ blind' = IF reported = 0 /\ t < DefaultTTL THEN blind \cup {c} ELSE blind
      BY <1>4 DEF Mint
    <2>4. PICK reported \in {t, 0} :
            /\ ttl' = reported /\ bearer' = [bearer EXCEPT ![c] = now + t]
            /\ blind' = IF reported = 0 /\ t < DefaultTTL THEN blind \cup {c} ELSE blind
      BY <2>3
    <2>5. bearer'[c] = now + t /\ t \in Nat /\ t > 2 * Timeout /\ due[c] + Timeout < now + t
      BY <2>2, <2>4, Numbers
    <2>6. c \notin blind' => /\ reported \in TTLs \cup {0}
                            /\ due[c] - Timeout + Believed(reported) <= now + t
      BY <2>2, <2>4, <2>5, Numbers DEF Believed
    <2>7. UNCHANGED <<now, due, have, expires, validTo, keptBlind>> /\ at' = [at EXCEPT ![c] = "minted"]
      BY <1>4 DEF Mint
    <2> QED
      BY <1>0, <2>1, <2>2, <2>4, <2>5, <2>6, <2>7
  <1>5. ASSUME NEW c \in Caller, TokenArrives(c) PROVE OnTime' /\ TokensLast' /\ BlindHold' /\ MarginKept'
    <2>1. \A d \in Caller \ {c} : at[d] \notin {"fetch", "minted"}
      BY <1>5 DEF TokenArrives, OneFetcher
    <2>2. /\ now <= due[c] /\ due[c] <= now + Timeout
          /\ Believed(ttl) \in Nat
          /\ c \notin blind => /\ due[c] - Timeout + Believed(ttl) <= bearer[c]
                             /\ due[c] + Timeout < bearer[c]
      BY <1>5, Numbers DEF TokenArrives, Believed
    <2>3. c \notin blind => /\ now + Timeout < bearer[c]
                          /\ now + (Believed(ttl) - Margin) + Timeout <= bearer[c]
      BY <1>0, <2>2, Numbers
    <2>4. /\ at' = [at EXCEPT ![c] = "call"] /\ due' = [due EXCEPT ![c] = now + Timeout]
          /\ validTo' = bearer[c] /\ expires' = now + (Believed(ttl) - Margin)
          /\ keptBlind' = (c \in blind)
          /\ UNCHANGED <<now, bearer, blind>>
      BY <1>5 DEF TokenArrives, UseUntil
    <2>5. OnTime' /\ BlindHold'
      BY <1>0, <2>1, <2>4, Numbers
    <2>6. TokensLast'
      BY <1>0, <2>1, <2>3, <2>4, Numbers
    <2>7. MarginKept'
      BY <2>3, <2>4
    <2> QED
      BY <2>5, <2>6, <2>7
  <1>6. ASSUME NEW c \in Caller, FetchFails(c) PROVE OnTime' /\ TokensLast' /\ BlindHold' /\ MarginKept'
    <2>1. \A d \in Caller \ {c} : at[d] \notin {"fetch", "minted"}
      BY <1>6 DEF FetchFails, OneFetcher
    <2> QED
      BY <1>0, <1>6, <2>1, Numbers DEF FetchFails
  <1>7. ASSUME NEW c \in Caller, Ask(c) \/ CallEnds(c) \/ Answered(c) \/ GiveUp(c) \/ FallBack(c)
                                   \/ StubEnds(c) \/ Disconnect(c)
        PROVE OnTime' /\ TokensLast' /\ BlindHold' /\ MarginKept'
    BY <1>0, <1>7 DEF Ask, CallEnds, Answered, GiveUp, FallBack, StubEnds, Disconnect, Return
  <1>8. CASE UNCHANGED vars
    BY <1>8 DEF vars
  <1> QED
    BY <1>1, <1>2, <1>3, <1>4, <1>5, <1>6, <1>7, <1>8 DEF Next, Step

LEMMA IInvStep == IInv /\ [Next]_vars => IInv'
  BY TypeStep, FetcherStep, TimeStep DEF IInv

LEMMA Inductive == Spec => []IInv
  BY IInvInit, IInvStep, PTL DEF Spec

-----------------------------------------------------------------------------
\* No call is ever under way with a token the provider has stopped accepting:
\* for every time limit up to half the margin and every lifetime longer than a
\* fetch and a call, reported or no shorter than the hour that the client takes
\* for granted, a minute's margin is enough.
THEOREM NoneExpiresInFlight == Spec => []NoTokenExpiresInFlight
  <1>1. IInv => NoTokenExpiresInFlight
    BY DEF IInv, TypeOK, OnTime, TokensLast, NoTokenExpiresInFlight
  <1> QED
    BY <1>1, Inductive, PTL

\* Of any number of callers one at a time fetches a token, and the mutex is free
\* when none does.
THEOREM OneFetches == Spec => []OneFetcher
  <1>1. IInv => OneFetcher
    BY DEF IInv
  <1> QED
    BY <1>1, Inductive, PTL

\* Every variable of the client keeps its type.
THEOREM ClientTypeCorrect == Spec => []TypeOK
  <1>1. IInv => TypeOK
    BY DEF IInv
  <1> QED
    BY <1>1, Inductive, PTL

-----------------------------------------------------------------------------
(* How long a caller waits.                                                *)

\* Callers that may get the mutex before c does.
Ahead(c) == {d \in Caller \ {c} : at[d] = "lock" /\ begun[d] <= begun[c]}

Share(S) == Timeout * Cardinality(S)

\* When the mutex is free at the latest.
Free == IF lock = None THEN now ELSE due[lock]

\* What later comers that overtook c have cost it, and may cost it at most.
Late(c) == Timeout * overtaken[c]
Most == Timeout * Overtakes

\* Each of those ahead of c takes at most a fetch, and c its own.
Turn(c) == at[c] = "lock" => Free + Share(Ahead(c)) + Timeout <= begun[c] + Share(Caller) + Late(c)

Span == Share(Caller) + Most

Progress(c) ==
  /\ at[c] # "idle" => begun[c] <= now
  /\ at[c] \in {"fetch", "minted"} => due[c] <= begun[c] + Span
  /\ at[c] = "call" => due[c] <= begun[c] + Span + Timeout
  /\ at[c] \in {"answered", "failed"} => now <= begun[c] + Span + Timeout
  /\ at[c] = "stub" => now <= due[c] /\ due[c] <= begun[c] + Span + Timeout + Delay

Timely == \A c \in Caller : Turn(c) /\ Progress(c)

LEMMA ShareIsNat == ASSUME NEW S \in SUBSET Caller PROVE Share(S) \in Nat /\ IsFiniteSet(S)
  <1>1. IsFiniteSet(S)
    BY TimeAssumption, FS_Subset
  <1>2. Cardinality(S) \in Nat
    BY <1>1, FS_CardinalityType
  <1> QED
    BY <1>1, <1>2, Numbers DEF Share

LEMMA TimesMore ==
  ASSUME NEW k \in Nat, NEW n \in Nat, k <= n
  PROVE  /\ Timeout * k \in Nat /\ Timeout * k <= Timeout * n
         /\ Timeout * (k + 1) = Timeout * k + Timeout
  <1>1. n - k \in Nat /\ n = k + (n - k)
    OBVIOUS
  <1>2. Timeout * n = Timeout * k + Timeout * (n - k)
    BY <1>1, Numbers
  <1>3. Timeout * (n - k) \in Nat /\ Timeout * k \in Nat
    BY <1>1, Numbers
  <1>4. Timeout * (k + 1) = Timeout * k + Timeout
    BY Numbers
  <1> QED
    BY <1>2, <1>3, <1>4

LEMMA ShareMore ==
  ASSUME NEW S \in SUBSET Caller, NEW d \in Caller, d \notin S
  PROVE  Share(S \cup {d}) = Share(S) + Timeout
  <1>1. IsFiniteSet(S)
    BY ShareIsNat
  <1>2. Cardinality(S) \in Nat
    BY <1>1, FS_CardinalityType
  <1>3. Cardinality(S \cup {d}) = Cardinality(S) + 1
    BY <1>1, FS_AddElement
  <1> QED
    BY <1>2, <1>3, TimesMore DEF Share

LEMMA ShareGrows ==
  ASSUME NEW R \in SUBSET Caller, NEW S \in SUBSET R
  PROVE  Share(S) <= Share(R)
  <1>1. IsFiniteSet(R) /\ IsFiniteSet(S)
    BY ShareIsNat
  <1>2. Cardinality(R) \in Nat /\ Cardinality(S) \in Nat
    BY <1>1, FS_CardinalityType
  <1>3. Cardinality(S) <= Cardinality(R)
    BY <1>1, FS_Subset
  <1> QED
    BY <1>2, <1>3, TimesMore DEF Share

LEMMA LateIsSome ==
  ASSUME TypeOK
  PROVE  Most \in Nat /\ \A c \in Caller : Late(c) \in Nat /\ Late(c) <= Most
  <1>1. \A c \in Caller : overtaken[c] \in Nat /\ overtaken[c] <= Overtakes
    BY Numbers DEF TypeOK
  <1> QED
    BY <1>1, TimesMore, Numbers DEF Late, Most

\* A caller that has only just begun has time enough, whoever is ahead.
LEMMA FreshTurn ==
  ASSUME NEW S \in SUBSET Caller, NEW c \in Caller, c \notin S
  PROVE  /\ Share(S) + Timeout <= Share(Caller)
         /\ \A h \in Caller : h # c /\ h \notin S => Share(S) + Timeout + Timeout <= Share(Caller)
  <1>1. Share(S \cup {c}) = Share(S) + Timeout
    BY ShareMore
  <1>2. Share(S \cup {c}) <= Share(Caller)
    BY ShareGrows
  <1>3. ASSUME NEW h \in Caller, h # c, h \notin S
        PROVE  Share(S) + Timeout + Timeout <= Share(Caller)
    <2>1. Share((S \cup {c}) \cup {h}) = Share(S \cup {c}) + Timeout
      BY <1>3, ShareMore
    <2>2. Share((S \cup {c}) \cup {h}) <= Share(Caller)
      BY ShareGrows
    <2> QED
      BY <1>1, <2>1, <2>2
  <1> QED
    BY <1>1, <1>2, <1>3

LEMMA AheadIsSome == ASSUME NEW c \in Caller PROVE Ahead(c) \in SUBSET Caller /\ c \notin Ahead(c)
  BY DEF Ahead

LEMMA FreeIsSoon ==
  ASSUME IInv
  PROVE  /\ Free \in Nat /\ now <= Free /\ Free <= now + Timeout
         /\ lock # None => lock \in Caller /\ at[lock] \in {"fetch", "minted"}
  BY Numbers DEF Free, IInv, TypeOK, OneFetcher, OnTime

LEMMA TimelyInit == Init => Timely
  BY DEF Init, Timely, Turn, Progress

LEMMA TimelyStep ==
  ASSUME IInv, Timely, [Next]_vars
  PROVE  Timely'
  <1> USE DEF Timely, Goto, tokenVars, callerVars
  <1>0. IInv'
    BY IInvStep
  <1> DEFINE L == Share(Caller)
  <1>1. /\ L \in Nat /\ Timeout \in Nat /\ Delay \in Nat /\ now \in Nat /\ lock \in Caller \cup {None}
        /\ \A c \in Caller : due[c] \in Nat /\ begun[c] \in Nat
        /\ at \in [Caller -> Places] /\ due \in [Caller -> Nat] /\ begun \in [Caller -> Nat]
        /\ Most \in Nat /\ \A c \in Caller : Late(c) \in Nat /\ Late(c) <= Most
    BY ShareIsNat, LateIsSome, Numbers DEF IInv, TypeOK
  <1>2. \A c \in Caller : Share(Ahead(c)) \in Nat
    BY AheadIsSome, ShareIsNat
  <1>3. /\ Free \in Nat /\ now <= Free /\ Free <= now + Timeout
        /\ lock # None => lock \in Caller /\ at[lock] \in {"fetch", "minted"}
    BY FreeIsSoon
  \* A step of d that neither begins nor ends waiting for the mutex.
  <1>4. ASSUME NEW d \in Caller, at[d] # "lock", at'[d] # "lock", now' = now, Free' \in Nat, Free' <= Free,
               \A e \in Caller \ {d} : /\ at'[e] = at[e] /\ begun'[e] = begun[e]
                                       /\ due'[e] = due[e] /\ overtaken'[e] = overtaken[e],
               NEW c \in Caller, c # d
        PROVE  Turn(c)' /\ Progress(c)'
    <2>1. Ahead(c)' = Ahead(c)
      BY <1>4 DEF Ahead
    <2>2. Share(Ahead(c))' = Share(Ahead(c))
      BY <2>1 DEF Share
    <2>3. Turn(c)'
      BY <1>1, <1>2, <1>3, <1>4, <2>2 DEF Turn, Share, Late
    <2> QED
      BY <1>4, <2>3 DEF Progress, Share
  \* A step by which d gets the mutex, which was free: if it keeps it for a time,
  \* those who came before d have been overtaken.
  <1>5. ASSUME NEW d \in Caller, Acquires(d), at'[d] # "lock", now' = now, Free' \in Nat,
               Free' <= now + Timeout,
               \A e \in Caller \ {d} : /\ at'[e] = at[e] /\ begun'[e] = begun[e] /\ due'[e] = due[e]
                                       /\ overtaken'[e] \in {overtaken[e], overtaken[e] + 1}
                                       /\ (e \in Earlier(d) /\ Free' # now) => overtaken'[e] = overtaken[e] + 1,
               NEW c \in Caller, c # d
        PROVE  Turn(c)' /\ Progress(c)'
    <2>0. /\ at'[c] = at[c] /\ begun'[c] = begun[c] /\ due'[c] = due[c]
          /\ overtaken'[c] \in {overtaken[c], overtaken[c] + 1}
          /\ c \in Earlier(d) /\ Free' # now => overtaken'[c] = overtaken[c] + 1
      BY <1>5
    <2>1. Late(c)' \in {Late(c), Late(c) + Timeout}
      <3>1. overtaken[c] \in Nat
        BY Numbers DEF IInv, TypeOK
      <3> QED
        BY <2>0, <3>1, TimesMore DEF Late
    <2>2. Free = now
      BY <1>5 DEF Acquires, Free
    <2>3. Progress(c)'
      BY <1>5, <2>0 DEF Progress, Span, Share, Most
    <2>4. ASSUME at[c] = "lock", d \in Ahead(c) PROVE Turn(c)'
      <3>1. Ahead(c)' = Ahead(c) \ {d}
        BY <1>5, <2>0 DEF Ahead
      <3>2. Share(Ahead(c)) = Share(Ahead(c))' + Timeout
        <4> DEFINE A == Ahead(c) \ {d}
        <4>1. A \in SUBSET Caller /\ d \notin A /\ A \cup {d} = Ahead(c)
          BY <2>4, AheadIsSome
        <4> HIDE DEF A
        <4>2. Share(A \cup {d}) = Share(A) + Timeout
          BY <4>1, ShareMore
        <4> QED
          BY <3>1, <4>1, <4>2 DEF A, Share
      <3>3. Share(Ahead(c))' \in Nat
        BY <1>2, <3>1, AheadIsSome, ShareIsNat DEF Share
      <3> QED
        BY <1>1, <1>2, <1>5, <2>0, <2>1, <2>2, <2>4, <3>2, <3>3 DEF Turn, Share
    <2>5. ASSUME at[c] = "lock", d \notin Ahead(c) PROVE Turn(c)'
      <3>1. c \in Earlier(d)
        BY <1>1, <1>5, <2>5 DEF Acquires, Ahead, Earlier
      <3>2. Ahead(c)' = Ahead(c)
        BY <1>5, <2>0, <2>5 DEF Ahead
      <3>3. Free' = now \/ Late(c)' = Late(c) + Timeout
        <4>1. overtaken[c] \in Nat
          BY Numbers DEF IInv, TypeOK
        <4> QED
          BY <2>0, <3>1, <4>1, TimesMore DEF Late
      <3> QED
        BY <1>1, <1>2, <1>5, <2>0, <2>1, <2>2, <2>5, <3>2, <3>3 DEF Turn, Share
    <2>6. at[c] # "lock" => Turn(c)'
      BY <2>0 DEF Turn
    <2> QED
      BY <2>3, <2>4, <2>5, <2>6
  <1>6. ASSUME NEW d \in Caller, Acquires(d) PROVE now + Timeout <= begun[d] + Span
    BY <1>1, <1>2, <1>6 DEF Acquires, Turn, Free, Span
  <1>7. CASE Tick
    <2>1. lock # None => now' <= due[lock]
      BY <1>1, <1>3, <1>7 DEF Tick, Waiting
    <2>2. ASSUME NEW c \in Caller PROVE Turn(c)'
      <3>1. CASE at[c] = "lock"
        <4>1. lock # None /\ Free' = Free
          BY <1>7, <3>1 DEF Tick, Urgent, Free
        <4>2. Ahead(c)' = Ahead(c)
          BY <1>7 DEF Tick, Ahead
        <4> QED
          BY <1>7, <4>1, <4>2 DEF Tick, Turn, Share, Late
      <3> QED
        BY <1>7, <3>1 DEF Tick, Turn
    <2>3. ASSUME NEW c \in Caller PROVE Progress(c)'
      BY <1>1, <1>7 DEF Tick, Urgent, Waiting, Progress, Span, Share, Most
    <2> QED
      BY <2>2, <2>3
  <1>8. ASSUME NEW d \in Caller, Ask(d) PROVE Timely'
    <2>1. /\ at' = [at EXCEPT ![d] = "lock"] /\ begun' = [begun EXCEPT ![d] = now] /\ at[d] = "idle"
          /\ UNCHANGED <<now, lock, due, overtaken>> /\ Free' = Free
      BY <1>8 DEF Ask, Free
    <2>2. ASSUME NEW c \in Caller, at'[c] = "lock", begun'[c] = now PROVE Turn(c)'
      <3> DEFINE A == Ahead(c)'
      <3>1. A \in SUBSET Caller /\ c \notin A
        BY DEF Ahead
      <3>2. lock # None => lock # c /\ lock \notin A
        BY <1>1, <1>3, <2>1, <2>2 DEF Ahead
      <3> HIDE DEF A
      <3>3. /\ Share(A) \in Nat /\ Share(A) + Timeout <= L
            /\ lock # None => Share(A) + Timeout + Timeout <= L
        BY <1>3, <3>1, <3>2, FreshTurn, ShareIsNat
      <3>4. Free + Share(A) + Timeout <= now + L
        BY <1>1, <1>3, <3>3 DEF Free
      <3>5. Late(c)' = Late(c) /\ Late(c) \in Nat /\ Share(Caller)' = L /\ Share(Ahead(c))' = Share(A)
        BY <1>1, <2>1 DEF Late, Share, A
      <3> QED
        BY <1>1, <1>3, <2>1, <2>2, <3>3, <3>4, <3>5 DEF Turn
    <2>3. ASSUME NEW c \in Caller, at'[c] = "lock", begun'[c] # now PROVE Turn(c)'
      <3>1. c # d /\ at[c] = "lock" /\ begun'[c] = begun[c] /\ begun[c] < now
        BY <1>1, <2>1, <2>3 DEF Progress
      <3>2. Ahead(c)' = Ahead(c)
        BY <1>1, <2>1, <3>1 DEF Ahead
      <3> QED
        BY <2>1, <3>1, <3>2 DEF Turn, Share, Late
    <2>4. ASSUME NEW c \in Caller PROVE Progress(c)'
      BY <1>1, <2>1 DEF Progress, Span, Share, Most
    <2> QED
      BY <2>2, <2>3, <2>4 DEF Turn
  <1>9. ASSUME NEW d \in Caller, Reuse(d) PROVE Timely'
    <2>1. /\ at' = [at EXCEPT ![d] = "call"] /\ due' = [due EXCEPT ![d] = now + Timeout]
          /\ UNCHANGED <<now, lock, begun>> /\ Acquires(d) /\ Free' = now
          /\ overtaken' = [overtaken EXCEPT ![d] = 0] /\ overtaken \in [Caller -> 0..Overtakes]
      BY <1>9 DEF Reuse, TimeLimit, Acquires, Free, IInv, TypeOK
    <2>2. ASSUME NEW c \in Caller, c # d PROVE Turn(c)' /\ Progress(c)'
      BY <1>1, <1>5, <2>1, <2>2
    <2>3. Turn(d)' /\ Progress(d)'
      BY <1>1, <1>6, <2>1 DEF Turn, Progress, Span, Share, Most, Acquires
    <2> QED
      BY <2>2, <2>3
  <1>10. ASSUME NEW d \in Caller, Fetch(d) PROVE Timely'
    <2>1. /\ at' = [at EXCEPT ![d] = "fetch"] /\ due' = [due EXCEPT ![d] = now + Timeout]
          /\ UNCHANGED <<now, begun>> /\ Acquires(d) /\ Free' = now + Timeout
          /\ \A e \in Caller \ {d} :
               /\ overtaken'[e] \in {overtaken[e], overtaken[e] + 1}
               /\ e \in Earlier(d) => overtaken'[e] = overtaken[e] + 1
      BY <1>1, <1>10, Numbers DEF Fetch, TimeLimit, Acquires, Free
    <2>2. ASSUME NEW c \in Caller, c # d PROVE Turn(c)' /\ Progress(c)'
      BY <1>1, <1>5, <2>1, <2>2
    <2>3. Turn(d)' /\ Progress(d)'
      BY <1>1, <1>6, <2>1 DEF Turn, Progress, Span, Share, Most, Acquires
    <2> QED
      BY <2>2, <2>3
  <1>11. ASSUME NEW d \in Caller, TokenArrives(d) \/ FetchFails(d) PROVE Timely'
    <2>1. /\ at[d] \in {"fetch", "minted"} /\ at'[d] \in {"call", "failed"}
          /\ at' = [at EXCEPT ![d] = at'[d]] /\ lock' = None /\ UNCHANGED <<now, begun, overtaken>> /\ Free' = now
          /\ \A e \in Caller \ {d} : due'[e] = due[e]
          /\ at'[d] = "call" => due'[d] = now + Timeout
      BY <1>1, <1>11 DEF TokenArrives, FetchFails, TimeLimit, Unlocked, Free
    <2>2. now <= due[d]
      BY <2>1 DEF IInv, OnTime
    <2>3. ASSUME NEW c \in Caller, c # d PROVE Turn(c)' /\ Progress(c)'
      BY <1>1, <1>3, <1>4, <2>1, <2>3
    <2>4. Turn(d)' /\ Progress(d)'
      BY <1>1, <2>1, <2>2 DEF Turn, Progress, Span, Share, Most
    <2> QED
      BY <2>3, <2>4
  <1>12. ASSUME NEW d \in Caller, Mint(d) \/ CallEnds(d) \/ Answered(d) \/ GiveUp(d) \/ FallBack(d) \/ StubEnds(d)
         PROVE  Timely'
    <2>1. /\ at[d] \in {"fetch", "call", "answered", "failed", "stub"}
          /\ at' = [at EXCEPT ![d] = at'[d]] /\ at'[d] \in Places \ {"lock", "fetch"}
          /\ UNCHANGED <<now, lock, overtaken>>
          /\ \A e \in Caller \ {d} : due'[e] = due[e] /\ begun'[e] = begun[e]
      BY <1>1, <1>12 DEF Mint, CallEnds, Answered, GiveUp, FallBack, StubEnds, Return, Places
    <2>2. Free' = Free
      BY <1>1, <1>3, <1>12, <2>1 DEF Free, Mint, CallEnds, Answered, GiveUp, FallBack, StubEnds, Return
    <2>3. ASSUME NEW c \in Caller, c # d PROVE Turn(c)' /\ Progress(c)'
      BY <1>1, <1>3, <1>4, <2>1, <2>2, <2>3
    <2>4. Turn(d)'
      BY <2>1 DEF Turn
    <2>5. now <= due[d] \/ at[d] # "call"
      BY DEF IInv, OnTime
    <2>6. Progress(d)'
      BY <1>1, <1>12, <2>1, <2>5
      DEF Progress, Span, Share, Most, Mint, CallEnds, Answered, GiveUp, FallBack, StubEnds, Return
    <2> QED
      BY <2>3, <2>4, <2>6
  <1>13. CASE (\E d \in Caller : Disconnect(d)) \/ UNCHANGED vars
    <2>1. UNCHANGED <<now, lock, at, due, begun, overtaken>>
      BY <1>13 DEF Disconnect, vars
    <2>2. Free' = Free /\ \A c \in Caller : Ahead(c)' = Ahead(c)
      BY <2>1 DEF Free, Ahead
    <2> QED
      BY <2>1, <2>2 DEF Turn, Progress, Span, Share, Most, Late
  <1> QED
    BY <1>7, <1>8, <1>9, <1>10, <1>11, <1>12, <1>13 DEF Next, Step

\* A call returns within the time that a fetch by every caller may take, one
\* after the other, those of later comers that overtook it, its own call and the
\* stub: for any number of callers, though waiting for the mutex has no time limit
\* of its own and the mutex keeps no order.
THEOREM AllReturnInTime == Spec => []ReturnsInTime
  <1>1. IInv /\ Timely => ReturnsInTime
    <2> SUFFICES ASSUME IInv, Timely, NEW c \in Caller, at[c] # "idle"
                 PROVE  now - begun[c] <= (Cardinality(Caller) + 1 + Overtakes) * Timeout + Delay
      BY DEF ReturnsInTime
    <2>1. /\ Share(Caller) \in Nat /\ Share(Ahead(c)) \in Nat /\ now \in Nat /\ begun[c] \in Nat
          /\ due[c] \in Nat /\ Most \in Nat /\ Late(c) \in Nat /\ Late(c) <= Most
      BY AheadIsSome, ShareIsNat, LateIsSome DEF IInv, TypeOK
    <2>2. now <= Free /\ Free \in Nat
      BY FreeIsSoon
    <2>3. now <= begun[c] + Share(Caller) + Most + Timeout + Delay
      BY <2>1, <2>2, Numbers DEF Timely, Turn, Progress, Span, IInv, TypeOK, Places, OnTime
    <2> DEFINE n == Cardinality(Caller)
    <2>4. n \in Nat /\ Share(Caller) = Timeout * n
      BY ShareIsNat, FS_CardinalityType DEF Share
    <2> HIDE DEF n
    <2>5. (n + 1 + Overtakes) * Timeout = Timeout * n + Timeout + Most
      BY <2>4, Numbers DEF Most
    <2> QED
      BY <2>1, <2>3, <2>4, <2>5, Numbers DEF n
  <1>2. Init => IInv /\ Timely
    BY IInvInit, TimelyInit
  <1>3. IInv /\ Timely /\ [Next]_vars => IInv' /\ Timely'
    BY IInvStep, TimelyStep
  <1> QED
    BY <1>1, <1>2, <1>3, PTL DEF Spec
=============================================================================
