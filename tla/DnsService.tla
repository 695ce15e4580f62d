----------------------------- MODULE DnsService -----------------------------
(***************************************************************************)
(* Concurrent queries to one DNS service, crates/dns/src/service.rs.  The  *)
(* service keeps one upstream connection per protocol behind an async      *)
(* mutex, which a query holds while it connects.  A failing query evicts   *)
(* the connection it used, and retries once when a pooled TCP connection   *)
(* turned out closed.  A truncated UDP answer is repeated over TCP.  All   *)
(* of it shares one deadline.                                              *)
(***************************************************************************)
EXTENDS Naturals, FiniteSets

CONSTANTS Query,
          Upstreams,       \* the protocols that may be configured
          TcpFallback,     \* truncated answers are repeated over TCP
          Timeout,         \* total upstream deadline of a query
          MaxTime,         \* bound of the clock; queries start early enough to end by then
          MaxGeneration    \* bound of the connections made

ASSUME DnsAssumption ==
  /\ Upstreams \subseteq {"tcp", "udp"} /\ TcpFallback \in BOOLEAN
  /\ Timeout \in Nat \ {0} /\ MaxTime \in Nat /\ MaxGeneration \in Nat

Protocol   == {"tcp", "udp"}
Generation == 1 .. MaxGeneration
None       == 0

VARIABLES
  clock,
  cached,       \* the connection kept for a protocol
  lock,         \* who holds the mutex of a protocol while connecting
  generation,   \* connections made
  finished,     \* connections whose background task ended
  at,           \* progress of a query
  protocol,     \* what its current exchange uses
  deadline,
  used,         \* the connection its request was sent on
  reused,       \* ... which was pooled
  reconnected,  \* the exchange has retried
  failure       \* why the request failed

shared == <<cached, lock, generation, finished>>
sending == <<used, reused>>
dvars == <<clock, shared, at, protocol, deadline, sending, reconnected, failure>>

\* Types of queries and their connections; no more connections are made than the bound.
DnsTypeOK ==
  /\ clock \in 0 .. MaxTime
  /\ cached \in [Protocol -> 0 .. MaxGeneration] /\ lock \in [Protocol -> Query \cup {None}]
  /\ generation \in 0 .. MaxGeneration /\ finished \subseteq 1 .. generation
  /\ at \in [Query -> {"out", "lock", "connect", "send", "evict", "answered", "failed"}]
  /\ protocol \in [Query -> Protocol] /\ deadline \in [Query -> 0 .. MaxTime]
  /\ used \in [Query -> 0 .. MaxGeneration] /\ reused \in [Query -> BOOLEAN]
  /\ reconnected \in [Query -> BOOLEAN]
  /\ failure \in [Query -> {"none", "closed", "error", "timeout"}]

DnsInit ==
  /\ clock = 0
  /\ cached = [p \in Protocol |-> None] /\ lock = [p \in Protocol |-> None]
  /\ generation = 0 /\ finished = {}
  /\ at = [q \in Query |-> "out"]
  /\ \E upstream \in Upstreams : protocol = [q \in Query |-> upstream]
  /\ deadline = [q \in Query |-> 0] /\ used = [q \in Query |-> None]
  /\ reused = [q \in Query |-> FALSE] /\ reconnected = [q \in Query |-> FALSE]
  /\ failure = [q \in Query |-> "none"]

To(q, state) == at' = [at EXCEPT ![q] = state]
Late(q) == clock >= deadline[q]

-----------------------------------------------------------------------------
\* A query that the cache does not answer.
Ask(q) ==
  /\ at[q] = "out" /\ clock + Timeout <= MaxTime
  /\ deadline' = [deadline EXCEPT ![q] = clock + Timeout]
  /\ To(q, "lock")
  /\ UNCHANGED <<clock, shared, protocol, sending, reconnected, failure>>

Send(q, g, pooled) ==
  /\ used' = [used EXCEPT ![q] = g] /\ reused' = [reused EXCEPT ![q] = pooled]
  /\ To(q, "send")

\* The mutex is free: take the connection that is kept, unless its task ended ...
Reuse(q) ==
  LET p == protocol[q] IN
  /\ at[q] = "lock" /\ lock[p] = None
  /\ cached[p] # None /\ cached[p] \notin finished
  /\ Send(q, cached[p], TRUE)
  /\ UNCHANGED <<clock, shared, protocol, deadline, reconnected, failure>>

\* Mistake: the mutex is not held while connecting.
ConnectUnlocked(q) ==
  LET p == protocol[q] IN
  /\ at[q] = "lock" /\ lock[p] = None
  /\ cached[p] = None \/ cached[p] \in finished
  /\ cached' = [cached EXCEPT ![p] = None]
  /\ To(q, "connect")
  /\ UNCHANGED <<clock, lock, generation, finished, protocol, deadline, sending, reconnected, failure>>

\* ... or start one, holding the mutex.
Connect(q) ==
  LET p == protocol[q] IN
  /\ at[q] = "lock" /\ lock[p] = None
  /\ cached[p] = None \/ cached[p] \in finished
  /\ cached' = [cached EXCEPT ![p] = None]
  /\ lock' = [lock EXCEPT ![p] = q]
  /\ To(q, "connect")
  /\ UNCHANGED <<clock, generation, finished, protocol, deadline, sending, reconnected, failure>>

Connected(q) ==
  LET p == protocol[q] IN
  /\ at[q] = "connect" /\ generation < MaxGeneration
  /\ generation' = generation + 1
  /\ cached' = [cached EXCEPT ![p] = generation']
  /\ lock' = [lock EXCEPT ![p] = None]
  /\ Send(q, generation', FALSE)
  /\ UNCHANGED <<clock, finished, protocol, deadline, reconnected, failure>>

\* Mistake: waiting for the mutex has a deadline, connecting has none.
GiveUpUntimed(q) ==
  /\ at[q] = "lock" /\ Late(q)
  /\ To(q, "failed")
  /\ UNCHANGED <<clock, shared, protocol, deadline, sending, reconnected, failure>>

\* The deadline passes while waiting for the mutex or connecting, or the dialer fails.
GiveUp(q) ==
  /\ (at[q] = "lock" /\ Late(q)) \/ at[q] = "connect"
  /\ lock' = [p \in Protocol |-> IF lock[p] = q THEN None ELSE lock[p]]
  /\ To(q, "failed")
  /\ UNCHANGED <<clock, cached, generation, finished, protocol, deadline, sending, reconnected, failure>>

\* The caller is cancelled; its future releases the mutex.
Cancel(q) ==
  /\ at[q] \in {"lock", "connect", "send", "evict"}
  /\ lock' = [p \in Protocol |-> IF lock[p] = q THEN None ELSE lock[p]]
  /\ To(q, "failed")
  /\ UNCHANGED <<clock, cached, generation, finished, protocol, deadline, sending, reconnected, failure>>

\* The answer arrives; a truncated one starts a second exchange.
Answer(q) ==
  /\ at[q] = "send" /\ used[q] \notin finished
  /\ To(q, "answered")
  /\ UNCHANGED <<clock, shared, protocol, deadline, sending, reconnected, failure>>

AnswerTruncated(q) ==
  /\ at[q] = "send" /\ used[q] \notin finished
  /\ TcpFallback /\ protocol[q] = "udp"
  /\ protocol' = [protocol EXCEPT ![q] = "tcp"]
  /\ reconnected' = [reconnected EXCEPT ![q] = FALSE]
  /\ To(q, "lock")
  /\ UNCHANGED <<clock, shared, deadline, used, reused, failure>>

\* The request fails: its connection closed, another error, or the deadline.
SendFails(q) ==
  /\ at[q] = "send"
  /\ \E f \in {"closed", "error", "timeout"} :
       /\ f = "closed" => used[q] \in finished
       /\ f = "timeout" => Late(q)
       /\ failure' = [failure EXCEPT ![q] = f]
  /\ To(q, "evict")
  /\ UNCHANGED <<clock, shared, protocol, deadline, sending, reconnected>>

Retries(q) ==
  /\ reused[q] /\ ~reconnected[q] /\ protocol[q] = "tcp"
  /\ failure[q] = "closed" \/ used[q] \in finished

\* Mistake: a failing query evicts whatever connection is kept.
EvictAny(q) ==
  LET p == protocol[q] IN
  /\ at[q] = "evict" /\ lock[p] = None
  /\ cached' = [cached EXCEPT ![p] = None]
  /\ reconnected' = [reconnected EXCEPT ![q] = @ \/ Retries(q)]
  /\ To(q, IF Retries(q) THEN "lock" ELSE "failed")
  /\ UNCHANGED <<clock, lock, generation, finished, protocol, deadline, sending, failure>>

\* Take the mutex, without a deadline, evict the connection that failed, and retry at most once.
Evict(q) ==
  LET p == protocol[q] IN
  /\ at[q] = "evict" /\ lock[p] = None
  /\ cached' = [cached EXCEPT ![p] = IF @ = used[q] THEN None ELSE @]
  /\ reconnected' = [reconnected EXCEPT ![q] = @ \/ Retries(q)]
  /\ To(q, IF Retries(q) THEN "lock" ELSE "failed")
  /\ UNCHANGED <<clock, lock, generation, finished, protocol, deadline, sending, failure>>

\* The background task of a connection ends.
Finish(g) ==
  /\ g \in 1 .. generation \ finished
  /\ finished' = finished \cup {g}
  /\ UNCHANGED <<clock, cached, lock, generation, at, protocol, deadline, sending, reconnected, failure>>

\* What a query can do at once is done before time passes; a deadline fires when it is reached.
Urgent(q) ==
  \/ at[q] \in {"lock", "evict"} /\ lock[protocol[q]] = None
  \/ at[q] \in {"lock", "connect", "send"} /\ Late(q)

Tick ==
  /\ clock < MaxTime /\ \A q \in Query : ~Urgent(q)
  /\ clock' = clock + 1
  /\ UNCHANGED <<shared, at, protocol, deadline, sending, reconnected, failure>>

QueryStep(q) ==
  \/ Reuse(q) \/ Connect(q) \/ Connected(q) \/ GiveUp(q) \/ Answer(q) \/ AnswerTruncated(q)
  \/ SendFails(q) \/ Evict(q)

DnsNext ==
  \/ Tick
  \/ \E q \in Query : Ask(q) \/ QueryStep(q) \/ Cancel(q)
  \/ \E g \in Generation : Finish(g)

DnsSpec == DnsInit /\ [][DnsNext]_dvars

\* Time passes and tasks that are ready run; connecting and answering are up to the network.
DnsFairness ==
  /\ WF_dvars(Tick)
  /\ \A q \in Query : /\ WF_dvars(Reuse(q) \/ Connect(q) \/ Evict(q))
                      /\ WF_dvars(Late(q) /\ (GiveUp(q) \/ SendFails(q)))

-----------------------------------------------------------------------------
(* Properties.                                                              *)

\* A connection leaves the pool only because its task ended or a request on it failed: a slow
\* failure on an old connection never evicts the one that replaced it.
NoStaleEviction ==
  [][\A p \in Protocol : cached[p] # None /\ cached'[p] # cached[p] =>
       cached[p] \in finished \/ \E q \in Query : at[q] = "evict" /\ used[q] = cached[p]
    ]_dvars

\* The mutex is held by a query that is connecting, and no pooled connection is replaced while it
\* is alive: two queries never connect for the same protocol at the same time.
OneConnecting ==
  \A p \in Protocol :
    /\ {q \in Query : at[q] = "connect" /\ protocol[q] = p} = {lock[p]} \ {None}
    /\ lock[p] # None => cached[p] = None

\* Every query ends, also if the network never answers.
QueryEnds == \A q \in Query : at[q] = "lock" ~> at[q] \in {"answered", "failed"}

\* docs/dns.md: "The service's total upstream deadline defaults to 5000 milliseconds": no query is
\* still at work when its deadline has passed.
DeadlineHolds == \A q \in Query : at[q] \in {"lock", "connect", "send", "evict"} => clock <= deadline[q]

\* docs/dns.md: "Timeouts and DNS error responses do not trigger that retry."
TimeoutsAreFinal ==
  [][\A q \in Query : at[q] = "evict" /\ failure[q] = "timeout" => at'[q] # "lock"]_dvars
=============================================================================
