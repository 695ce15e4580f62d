------------------------------ MODULE DnsCache ------------------------------
(***************************************************************************)
(* The response cache of a DNS service, crates/dns/src/cache.rs, used by   *)
(* the queries of service.rs.  Keys are questions with their flags; values *)
(* are responses with the time they arrived and a time to live computed    *)
(* from their records.  Time is counted in ticks, several to a second, as  *)
(* ages are rounded down to seconds.                                       *)
(***************************************************************************)
EXTENDS Integers, FiniteSetsExt

CONSTANTS Key,            \* questions that differ in name, type, flags or EDNS settings
          MaxTtl,         \* bound of record TTLs, in seconds
          TicksPerSecond,
          MaxAge          \* bound of the clock, in ticks

ASSUME CacheAssumption ==
  MaxTtl \in Nat /\ TicksPerSecond \in Nat \ {0} /\ MaxAge \in Nat

Ttl == 0 .. MaxTtl
NoTtl == -1

\* An upstream response: its code, flags that matter to caching, the answer that decides whether it
\* is positive, some other record, and the SOA with the minimum it carries.
Response ==
  [code : {"NoError", "NXDomain", "ServFail"}, plain : BOOLEAN,
   answer : Ttl \cup {NoTtl}, other : Ttl \cup {NoTtl}, soa : Ttl \cup {NoTtl}, minimum : Ttl]

VARIABLES tick,       \* the clock
          entries,    \* what is stored for a key, or nothing
          served      \* the last answer from the cache: response, TTLs it showed, and its age

cvars == <<tick, entries, served>>

Nothing == [stored |-> FALSE]
Entry(r, now, ttl) == [stored |-> TRUE, response |-> r, inserted |-> now, ttl |-> ttl]

-----------------------------------------------------------------------------
(* The rules of caching.                                                    *)

Fields == {"answer", "other", "soa"}
Present(r) == {f \in Fields : r[f] # NoTtl}

\* Truncated or signed responses, error codes and client-specific options are not cached.
Cacheable(r) == r.plain /\ r.code \in {"NoError", "NXDomain"}

Positive(r) == r.code = "NoError" /\ r.answer # NoTtl

RecordsTtl(r) == IF Present(r) = {} THEN NoTtl ELSE Min({r[f] : f \in Present(r)})

\* Message::negative_ttl of the DNS library: the SOA's TTL, bounded by the minimum it carries.
NegativeTtl(r) == IF r.soa = NoTtl THEN NoTtl ELSE Min({r.soa, r.minimum})


EntryTtl(r) ==
  IF Positive(r) THEN RecordsTtl(r)
  ELSE IF NegativeTtl(r) = NoTtl THEN NoTtl ELSE Min({NegativeTtl(r), RecordsTtl(r)})

\* What is stored of a negative response: its SOA shows the time it is kept.
Stored(r) ==
  IF Positive(r) \/ r.soa = NoTtl THEN r ELSE [r EXCEPT !.soa = Min({r.soa, EntryTtl(r)})]

Seconds(ticks) == ticks \div TicksPerSecond
Aged(ttl, ticks) == IF ttl = NoTtl THEN NoTtl ELSE Max({ttl - Seconds(ticks), 0})

-----------------------------------------------------------------------------
\* Types of the stored and served answers.
CacheTypeOK ==
  /\ tick \in 0 .. MaxAge
  /\ \A k \in Key : entries[k].stored =>
       /\ entries[k].response \in Response
       /\ entries[k].inserted \in 0 .. tick /\ entries[k].ttl \in Ttl \ {0}
  /\ served.hit \in BOOLEAN

Miss == [hit |-> FALSE]

CacheInit ==
  /\ tick = 0
  /\ entries = [k \in Key |-> Nothing]
  /\ served = Miss

\* ResponseCache::insert, of an answer that came from upstream.
Insert(k, r) ==
  /\ entries' = IF Cacheable(r) /\ EntryTtl(r) > 0
                THEN [entries EXCEPT ![k] = Entry(Stored(r), tick, EntryTtl(r))] ELSE entries
  /\ served' = Miss /\ UNCHANGED tick

Expired(e) == tick - e.inserted >= e.ttl * TicksPerSecond

\* ResponseCache::get
Get(k) ==
  /\ entries[k].stored
  /\ LET e == entries[k]
         age == tick - e.inserted
     IN IF Expired(e)
        THEN served' = Miss /\ entries' = [entries EXCEPT ![k] = Nothing]
        ELSE /\ served' = [hit |-> TRUE, of |-> e.response, age |-> age,
                           shown |-> [f \in Fields |-> Aged(e.response[f], age)]]
             /\ UNCHANGED entries
  /\ UNCHANGED tick

\* The cache is bounded and may evict any entry; it evicts an expired one by itself.
EvictEntry(k) ==
  /\ entries[k].stored
  /\ entries' = [entries EXCEPT ![k] = Nothing]
  /\ served' = Miss /\ UNCHANGED tick

Age == tick < MaxAge /\ tick' = tick + 1 /\ served' = Miss /\ UNCHANGED entries

CacheNext ==
  \/ Age
  \/ \E k \in Key : Get(k) \/ EvictEntry(k) \/ \E r \in Response : Insert(k, r)

CacheSpec == CacheInit /\ [][CacheNext]_cvars

-----------------------------------------------------------------------------
(* Properties.                                                              *)

=============================================================================
