-------------------------------- MODULE Chain --------------------------------
(***************************************************************************)
(* The embedding providers (embedding/chain.py): a call tries them in      *)
(* order, skips those known to be unhealthy, and marks one that is over    *)
(* its quota, broken or silent for a while.  The marks are the process's,  *)
(* shared by every call, and a call reads the clock once, at its start.    *)
(*                                                                         *)
(* cool holds _unhealthy_until relative to now: positive when the mark     *)
(* still holds, and told apart below zero only as far as the start of the  *)
(* oldest call.                                                            *)
(*                                                                         *)
(* A mark is keyed by (provider, model).  Every entry of the chain is      *)
(* taken to name a provider of its own, as those of the default chain do:  *)
(* two entries of one provider at two base_urls would share a mark.        *)
(***************************************************************************)
EXTENDS Integers, FiniteSets

CONSTANTS
  Last,     \* the providers are 1 .. Last
  Callers,  \* who may be embedding at a time
  Ttl,      \* unhealthy_ttl_seconds
  Timeout   \* timeout_seconds, of each request

ASSUME ChainAssumption == Last \in Nat \ {0} /\ Ttl \in Nat \ {0} /\ Timeout \in Nat \ {0}

VARIABLES
  up,   \* external: the providers that answer
  cool, \* _unhealthy_until, less now
  call  \* each caller's: the provider asked, time since its start and since it asked

chainVars == <<up, cool, call>>

Providers == 1 .. Last
MaxAge == Last * Timeout
NoCall == [asks |-> 0, age |-> 0, waits |-> 0, failed |-> FALSE]

ChainInit ==
  /\ up = Providers /\ cool = [p \in Providers |-> -MaxAge] /\ call = [c \in Callers |-> NoCall]

\* A provider goes down, or comes back.
Flips(p) == up' = (up \ {p}) \cup ({p} \ up) /\ UNCHANGED <<cool, call>>

\* The mark outlasts the start of a call of this age.
Unhealthy(p, age) == cool[p] + age > 0

\* The providers a call of this age has left, and the one it asks next.
Left(from, age) == {p \in from .. Last : ~Unhealthy(p, age)}
NextOne(from, age) == CHOOSE p \in Left(from, age) : \A q \in Left(from, age) : p <= q

\* The call goes on with the providers from one on, or has failed.
GoesOn(c, from, age) ==
  call' = [call EXCEPT ![c] =
             IF Left(from, age) = {} THEN [NoCall EXCEPT !.failed = TRUE]
             ELSE [asks |-> NextOne(from, age), age |-> age, waits |-> 0, failed |-> FALSE]]

\* embed: skipping a provider leaves its mark as it is.
Embed(c) ==
  /\ call[c] = NoCall
  /\ GoesOn(c, 1, 0)
  /\ UNCHANGED <<up, cool>>

Asked(c) == call[c].asks

\* The provider answers: its mark is cleared.
Succeeds(c) ==
  /\ Asked(c) \in up
  /\ cool' = [cool EXCEPT ![Asked(c)] = -MaxAge]
  /\ call' = [call EXCEPT ![c] = NoCall]
  /\ UNCHANGED up

\* HTTP 402, 429 or 5xx, or nothing in time: marked from the start of the call on;
\* any other error leaves the mark.  The call moves to the next provider.
Fails(c, marks) ==
  /\ Asked(c) \in Providers \ up
  /\ cool' = IF marks THEN [cool EXCEPT ![Asked(c)] = Ttl - call[c].age] ELSE cool
  /\ GoesOn(c, Asked(c) + 1, call[c].age)
  /\ UNCHANGED up

\* The caller logs AllProvidersFailed, and does without vectors.
GivesUp(c) ==
  /\ call[c].failed
  /\ call' = [call EXCEPT ![c] = NoCall] /\ UNCHANGED <<up, cool>>

\* Time passes; no request outlasts its timeout.
Older(st) == IF st.asks = 0 THEN st ELSE [st EXCEPT !.age = @ + 1, !.waits = @ + 1]

Tick ==
  /\ \A c \in Callers : call[c].waits < Timeout
  /\ cool' = [p \in Providers |-> IF cool[p] > -MaxAge THEN cool[p] - 1 ELSE cool[p]]
  /\ call' = [c \in Callers |-> Older(call[c])]
  /\ UNCHANGED up

CallStep(c) == Succeeds(c) \/ (\E marks \in BOOLEAN : Fails(c, marks)) \/ GivesUp(c)

ChainNext ==
  \/ \E p \in Providers : Flips(p)
  \/ \E c \in Callers : Embed(c) \/ CallStep(c)
  \/ Tick

\* Time passes, and every request ends, at its timeout at the latest.
ChainFairness == WF_chainVars(Tick) /\ \A c \in Callers : WF_chainVars(CallStep(c))

-----------------------------------------------------------------------------
ChainTypeOK ==
  /\ up \subseteq Providers /\ cool \in [Providers -> -MaxAge .. Ttl]
  /\ call \in [Callers -> [asks : 0 .. Last, age : 0 .. MaxAge, waits : 0 .. Timeout,
                           failed : BOOLEAN]]

\* When some provider answers from a time on, there is a time from which every
\* embedding succeeds, however many callers asked meanwhile.
EmbeddingsComeBack ==
  (\E p \in Providers : <>[](p \in up)) => <>[](\A c \in Callers : ~call[c].failed)

ChainSpec == ChainInit /\ [][ChainNext]_chainVars /\ ChainFairness
=============================================================================
