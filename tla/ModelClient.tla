---------------------------- MODULE ModelClient ----------------------------
(***************************************************************************)
(* The model client of an API pod: Gloo behind StubFallback                *)
(* (controlplane/model).  Concurrent callers share one bearer token behind *)
(* a mutex that is held while the token is fetched; a call that fails, its *)
(* client still there, is answered by the local stub.                      *)
(*                                                                         *)
(* Time is explicit: Tick advances the clock unless a deadline would pass  *)
(* or a step that takes no time is due.                                    *)
(***************************************************************************)
EXTENDS Integers, FiniteSets

CONSTANTS
  Caller,  \* goroutines in Fallback.Ask, reused from call to call
  Timeout, \* http.Client.Timeout, of the token fetch and of the call each
  Margin,  \* how long before its end a token is no longer used: one minute
  TTLs,    \* lifetimes the provider may give a token
  DefaultTTL, \* the lifetime taken for granted when none is reported: an hour
  Overtakes,  \* fetches by later comers that may go ahead of one who waits
  Delay,   \* longest delay of the stub
  MaxTime, \* bound on the clock
  None     \* no caller

ASSUME TimeAssumption ==
  /\ Timeout \in Nat \ {0} /\ Margin \in Nat /\ Delay \in Nat /\ MaxTime \in Nat
  /\ DefaultTTL \in Nat \ {0} /\ Overtakes \in Nat
  /\ TTLs \subseteq Nat \ {0} /\ None \notin Caller /\ IsFiniteSet(Caller)

\* MODEL_TIMEOUT is at most half of the margin, and tokens outlive a fetch and
\* a call: 30 s, one minute and an hour.
ASSUME MarginAssumption == 2 * Timeout <= Margin /\ \A ttl \in TTLs : ttl > 2 * Timeout

VARIABLES
  now,      \* the clock
  lock,     \* the caller that holds g.mu, or None
  have,     \* there is a token
  expires,  \* g.expires: the client uses the token before this time
  validTo,  \* the time until which the provider accepts the token
  at,       \* at[c]: where caller c is
  due,      \* due[c]: when what c waits for ends at the latest
  ttl,      \* the lifetime reported with the token under way, 0 for none
  bearer,   \* bearer[c]: the time until which c's token is accepted
  gone,     \* callers whose context is cancelled
  degraded, \* the latch of Fallback
  begun,    \* history: begun[c] is when c's call began
  overtaken, \* history: overtaken[c] fetches of later comers went ahead of c
  blind,     \* history: callers whose token lasts less than they take for granted
  keptBlind  \* history: so does the kept token

tokenVars  == <<lock, have, expires, validTo, ttl, keptBlind>>
callerVars == <<at, due, bearer, gone, begun, overtaken, blind>>
vars == <<now, tokenVars, callerVars, degraded>>

Places == {"idle", "lock", "fetch", "minted", "call", "answered", "failed", "stub"}
Waiting == {"fetch", "minted", "call", "stub"}

Init ==
  /\ now = 0 /\ lock = None /\ have = FALSE /\ expires = 0 /\ validTo = 0 /\ ttl = 0
  /\ at = [c \in Caller |-> "idle"]
  /\ due = [c \in Caller |-> 0] /\ bearer = [c \in Caller |-> 0]
  /\ gone = {} /\ degraded = FALSE
  /\ begun = [c \in Caller |-> 0] /\ overtaken = [c \in Caller |-> 0]
  /\ blind = {} /\ keptBlind = FALSE

Goto(c, place) == at' = [at EXCEPT ![c] = place]

Ask(c) ==
  /\ at[c] = "idle" /\ Goto(c, "lock")
  /\ begun' = [begun EXCEPT ![c] = now]
  /\ UNCHANGED <<now, tokenVars, due, bearer, gone, overtaken, blind, degraded>>

\* The call returns; what it knew is forgotten.
Return(c) ==
  /\ Goto(c, "idle") /\ gone' = gone \ {c}
  /\ due' = [due EXCEPT ![c] = 0] /\ bearer' = [bearer EXCEPT ![c] = 0]
  /\ begun' = [begun EXCEPT ![c] = 0] /\ blind' = blind \ {c}
  /\ UNCHANGED <<now, tokenVars, overtaken>>

-----------------------------------------------------------------------------
(* accessToken.                                                            *)

Usable == have /\ now < expires

\* Any caller that waits may find the mutex free and take it.
Acquires(c) == at[c] = "lock" /\ lock = None

\* Those that wait and came before c.
Earlier(c) == {d \in Caller : at[d] = "lock" /\ begun[d] < begun[c]}

\* sync.Mutex lets a later comer take it before the waiter that an unlock has
\* woken; that waiter, who has waited for longer than a millisecond, then turns
\* on the starvation mode, and the next unlock hands the mutex to him.  More
\* than one such fetch takes comers that spin at the very moment of the unlock.
MayOvertake(c) == \A d \in Earlier(c) : overtaken[d] < Overtakes

\* Variants: a call without a time limit; a limit that is already past.
NoLimit == MaxTime
PastLimit == now - Timeout

TimeLimit == now + Timeout

Reuse(c) ==
  /\ Acquires(c) /\ Usable
  /\ bearer' = [bearer EXCEPT ![c] = validTo]
  /\ due' = [due EXCEPT ![c] = TimeLimit]
  /\ blind' = IF keptBlind THEN blind \cup {c} ELSE blind
  /\ overtaken' = [overtaken EXCEPT ![c] = 0]
  /\ Goto(c, "call")
  /\ UNCHANGED <<now, tokenVars, gone, begun, degraded>>

Fetch(c) ==
  /\ Acquires(c) /\ ~Usable /\ MayOvertake(c)
  /\ lock' = c
  /\ overtaken' = [d \in Caller |-> IF d = c THEN 0
                                  ELSE IF d \in Earlier(c) THEN overtaken[d] + 1
                                  ELSE overtaken[d]]
  /\ due' = [due EXCEPT ![c] = TimeLimit]
  /\ Goto(c, "fetch")
  /\ UNCHANGED <<now, have, expires, validTo, ttl, keptBlind, bearer, gone, begun, blind, degraded>>

\* The provider makes the token, whose lifetime runs from now, and reports the
\* lifetime or leaves expires_in out.
Mint(c) ==
  /\ at[c] = "fetch"
  /\ \E t \in TTLs : \E reported \in {t, 0} :
       /\ ttl' = reported /\ bearer' = [bearer EXCEPT ![c] = now + t]
       /\ blind' = IF reported = 0 /\ t < DefaultTTL THEN blind \cup {c} ELSE blind
  /\ Goto(c, "minted")
  /\ UNCHANGED <<now, lock, have, expires, validTo, keptBlind, due, gone, begun, overtaken, degraded>>

\* The lifetime the client goes by: if ttl <= 0 { ttl = time.Hour }
Believed(t) == IF t = 0 THEN DefaultTTL ELSE t

\* Variant: the token is used to its end.
ToTheEnd(t) == now + Believed(t)

UseUntil(t) == now + (Believed(t) - Margin)

TokenArrives(c) ==
  /\ at[c] = "minted"
  /\ lock' = None /\ have' = TRUE
  /\ expires' = UseUntil(ttl) /\ validTo' = bearer[c] /\ ttl' = 0
  /\ keptBlind' = (c \in blind)
  /\ due' = [due EXCEPT ![c] = TimeLimit]
  /\ Goto(c, "call")
  /\ UNCHANGED <<now, bearer, gone, begun, overtaken, blind, degraded>>

\* Variant: the mutex stays locked on the error path.
StayLocked == lock

Unlocked == None

FetchFails(c) ==
  /\ at[c] \in {"fetch", "minted"}
  /\ lock' = Unlocked /\ ttl' = 0
  /\ Goto(c, "failed")
  /\ UNCHANGED <<now, have, expires, validTo, keptBlind, due, bearer, gone, begun, overtaken, blind, degraded>>

-----------------------------------------------------------------------------
(* The model call, and Fallback.                                           *)

CallEnds(c) ==
  /\ at[c] = "call"
  /\ Goto(c, "answered") \/ Goto(c, "failed")
  /\ UNCHANGED <<now, tokenVars, due, bearer, gone, begun, overtaken, blind, degraded>>

\* degraded.CompareAndSwap(true, false)
Answered(c) == at[c] = "answered" /\ Return(c) /\ degraded' = FALSE

\* The caller gave up: no fallback, and the provider is not to blame.
GiveUp(c) == at[c] = "failed" /\ c \in gone /\ Return(c) /\ UNCHANGED degraded

FallBack(c) ==
  /\ at[c] = "failed" /\ c \notin gone
  /\ degraded' = TRUE
  /\ due' = [due EXCEPT ![c] = now + Delay]
  /\ Goto(c, "stub")
  /\ UNCHANGED <<now, tokenVars, bearer, gone, begun, overtaken, blind>>

\* The stub answers after its delay, or fails because the client has gone.
StubEnds(c) == at[c] = "stub" /\ Return(c) /\ UNCHANGED degraded

-----------------------------------------------------------------------------
Disconnect(c) ==
  /\ at[c] # "idle" /\ c \notin gone /\ gone' = gone \cup {c}
  /\ UNCHANGED <<now, tokenVars, at, due, bearer, begun, overtaken, blind, degraded>>

Urgent(c) == at[c] \in {"answered", "failed"} \/ (at[c] = "lock" /\ lock = None)

Tick ==
  /\ now < MaxTime /\ now' = now + 1
  /\ \A c \in Caller : ~Urgent(c) /\ (at[c] \in Waiting => now < due[c])
  /\ UNCHANGED <<tokenVars, callerVars, degraded>>

Step(c) ==
  \/ Ask(c) \/ Reuse(c) \/ Fetch(c) \/ Mint(c) \/ TokenArrives(c) \/ FetchFails(c)
  \/ CallEnds(c) \/ Answered(c) \/ GiveUp(c) \/ FallBack(c) \/ StubEnds(c)
  \/ Disconnect(c)

Next == Tick \/ \E c \in Caller : Step(c)

Spec == Init /\ [][Next]_vars

-----------------------------------------------------------------------------
TypeOK ==
  /\ now \in Nat /\ expires \in Int /\ validTo \in Nat
  /\ lock \in Caller \cup {None} /\ have \in BOOLEAN /\ degraded \in BOOLEAN
  /\ at \in [Caller -> Places]
  /\ due \in [Caller -> Nat] /\ ttl \in Nat
  /\ bearer \in [Caller -> Nat] /\ begun \in [Caller -> Nat]
  /\ gone \subseteq Caller /\ blind \subseteq Caller /\ keptBlind \in BOOLEAN
  /\ overtaken \in [Caller -> 0..Overtakes]

\* A token is accepted by the provider for as long as a call that carries it
\* can be under way (accessToken: "a token that expires mid-flight fails the
\* call it was fetched for"), through every reuse by other callers, and though
\* the margin is counted from the token's arrival and its life from its making.
\* The one exception is a token that lasts less than an hour and came without
\* expires_in: the client goes by an hour, and a call may carry it when dead.
NoTokenExpiresInFlight == \A c \in Caller : at[c] = "call" /\ c \notin blind => now < bearer[c]

\* The mutex is held exactly by the caller that fetches, so of any number of
\* callers one asks for a token at a time; no error leaves it locked.
OneFetcher == \A c \in Caller : lock = c <=> at[c] \in {"fetch", "minted"}

\* A call returns within the time that a fetch of every caller may take one
\* after the other, those of later comers that overtook it, its own call and
\* the stub: nobody waits for the mutex longer.
ReturnsInTime ==
  \A c \in Caller : at[c] # "idle" =>
    now - begun[c] <= (Cardinality(Caller) + 1 + Overtakes) * Timeout + Delay
=============================================================================
