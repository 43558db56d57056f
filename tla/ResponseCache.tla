----------------------------- MODULE ResponseCache -----------------------------
(***************************************************************************)
(* The hub's response caches (internal/api/server.go): the evolution       *)
(* summary and the dashboard overview are computed by several queries,     *)
(* kept for a minute, computed by one request at a time, and invalidated   *)
(* by the ingest handler once its batch is stored.                         *)
(*                                                                         *)
(* The handlers run in parallel. Each mutex section of the code is one     *)
(* action, and each query of the database one action: the ingest of        *)
(* another handler may commit between any two of them. The content of the  *)
(* database is its version, the number of committed batches; a response is *)
(* the versions its first and its last query read. An entry past its time  *)
(* to live is as good as none, so expiry removes it.                       *)
(***************************************************************************)
EXTENDS Integers

CONSTANTS
  Requests,   \* the read requests, each one handler
  Ingests,    \* the ingest requests, each one handler
  Endpoints,  \* the caches the requests read
  NoOne,      \* no channel
  Nothing,    \* no entry, no response
  Failed      \* an error

Caches == {"evolution", "overview"}

ASSUME NamesAssumption ==
  /\ Endpoints \subseteq Caches
  /\ Requests \cap Ingests = {}
  /\ NoOne \notin Requests
  /\ Nothing \notin [from: Nat, to: Nat] /\ Failed \notin [from: Nat, to: Nat]
  /\ Nothing # Failed

VARIABLES
  db,          \* version of the committed data
  entry,       \* evolutionCache, overviewCache
  ready,       \* evolutionReady, overviewReady: the request that made the channel
  generation,  \* evolutionGeneration, overviewGeneration
  doing, asked, \* of a request: its next step, the cache it reads
  gen,         \*   the generation it remembered
  chan,        \*   the channel it waits on, or is about to close
  got,         \*   what it computed or returns
  preceding,   \*   (history) requests and ingests answered before it arrived
  stage,       \* of an ingest: its next step
  ver          \*   the version its commit made, 0 before

cacheVars == <<db, entry, ready, generation, doing, asked, gen, chan, got, preceding, stage, ver>>

shared    == <<db, entry, ready, generation>>
ingesting == <<stage, ver>>

Answered == {r \in Requests : doing[r] = "done"}
Acked    == {i \in Ingests : stage[i] = "acked"}
Ok(x)    == x # Nothing /\ x # Failed

(***************************************************************************)
(* Read requests: cachedEvolution and cachedOverview                       *)
(***************************************************************************)

Arrive(r, c) ==
  /\ doing[r] = "new"
  /\ doing' = [doing EXCEPT ![r] = "check"]
  /\ asked' = [asked EXCEPT ![r] = c]
  /\ preceding' = [preceding EXCEPT ![r] = Answered \cup Acked]
  /\ UNCHANGED <<shared, gen, chan, got, ingesting>>

\* The first mutex section, with its three outcomes.
HitEntry(r) ==
  /\ doing[r] = "check"
  /\ entry[asked[r]] # Nothing
  /\ got' = [got EXCEPT ![r] = entry[asked[r]]]
  /\ doing' = [doing EXCEPT ![r] = "done"]
  /\ UNCHANGED <<shared, asked, gen, chan, preceding, ingesting>>

Wait(r) ==
  /\ doing[r] = "check"
  /\ entry[asked[r]] = Nothing /\ ready[asked[r]] # NoOne
  /\ chan' = [chan EXCEPT ![r] = ready[asked[r]]]
  /\ doing' = [doing EXCEPT ![r] = "wait"]
  /\ UNCHANGED <<shared, asked, gen, got, preceding, ingesting>>

\* Faulty variant: a running compute is not looked for.
StartAnyway(r) ==
  /\ doing[r] = "check"
  /\ entry[asked[r]] = Nothing
  /\ gen' = [gen EXCEPT ![r] = generation[asked[r]]]
  /\ ready' = [ready EXCEPT ![asked[r]] = r]
  /\ doing' = [doing EXCEPT ![r] = "first"]
  /\ UNCHANGED <<db, entry, generation, asked, chan, got, preceding, ingesting>>

Start(r) ==
  /\ doing[r] = "check"
  /\ entry[asked[r]] = Nothing /\ ready[asked[r]] = NoOne
  /\ gen' = [gen EXCEPT ![r] = generation[asked[r]]]
  /\ ready' = [ready EXCEPT ![asked[r]] = r]
  /\ doing' = [doing EXCEPT ![r] = "first"]
  /\ UNCHANGED <<db, entry, generation, asked, chan, got, preceding, ingesting>>

\* A waiter whose client goes away, and one whose channel is closed, which
\* is CloseChannel below.
GiveUp(r) ==
  /\ doing[r] = "wait"
  /\ got' = [got EXCEPT ![r] = Failed]
  /\ chan' = [chan EXCEPT ![r] = NoOne]
  /\ doing' = [doing EXCEPT ![r] = "done"]
  /\ UNCHANGED <<shared, asked, gen, preceding, ingesting>>

\* The first query, and the last. The queries between read versions between.
FirstQuery(r) ==
  /\ doing[r] = "first"
  /\ got' = [got EXCEPT ![r] = [from |-> db, to |-> db]]
  /\ doing' = [doing EXCEPT ![r] = "last"]
  /\ UNCHANGED <<shared, asked, gen, chan, preceding, ingesting>>

LastQuery(r) ==
  /\ doing[r] = "last"
  /\ got' = [got EXCEPT ![r].to = db]
  /\ doing' = [doing EXCEPT ![r] = "install"]
  /\ UNCHANGED <<shared, asked, gen, chan, preceding, ingesting>>

\* A query fails, or the client of the computing request goes away.
QueryFails(r) ==
  /\ doing[r] \in {"first", "last"}
  /\ got' = [got EXCEPT ![r] = Failed]
  /\ doing' = [doing EXCEPT ![r] = "install"]
  /\ UNCHANGED <<shared, asked, gen, chan, preceding, ingesting>>

\* Faulty variant: the generation is not compared.
InstallAlways(r) ==
  /\ doing[r] = "install"
  /\ chan' = [chan EXCEPT ![r] = ready[asked[r]]]
  /\ ready' = [ready EXCEPT ![asked[r]] = NoOne]
  /\ entry' = [entry EXCEPT ![asked[r]] = got[r]]
  /\ doing' = [doing EXCEPT ![r] = "close"]
  /\ gen' = [gen EXCEPT ![r] = 0]
  /\ UNCHANGED <<db, generation, asked, got, preceding, ingesting>>

\* Faulty variant: a compute that lost its race leaves the channel in place.
InstallOrLeave(r) ==
  /\ doing[r] = "install"
  /\ chan' = [chan EXCEPT ![r] = ready[asked[r]]]
  /\ IF generation[asked[r]] = gen[r]
       THEN /\ entry' = [entry EXCEPT ![asked[r]] = got[r]]
            /\ ready' = [ready EXCEPT ![asked[r]] = NoOne]
       ELSE UNCHANGED <<entry, ready>>
  /\ doing' = [doing EXCEPT ![r] = "close"]
  /\ gen' = [gen EXCEPT ![r] = 0]
  /\ UNCHANGED <<db, generation, asked, got, preceding, ingesting>>

\* The second mutex section; an error is installed like a result. The local
\* variable generation is not used again.
Install(r) ==
  /\ doing[r] = "install"
  /\ chan' = [chan EXCEPT ![r] = ready[asked[r]]]
  /\ ready' = [ready EXCEPT ![asked[r]] = NoOne]
  /\ entry' = IF generation[asked[r]] = gen[r]
                THEN [entry EXCEPT ![asked[r]] = got[r]] ELSE entry
  /\ doing' = [doing EXCEPT ![r] = "close"]
  /\ gen' = [gen EXCEPT ![r] = 0]
  /\ UNCHANGED <<db, generation, asked, got, preceding, ingesting>>

\* close(ready) wakes the requests that wait on this channel; they start over.
CloseChannel(r) ==
  LET Woken == {q \in Requests : doing[q] = "wait" /\ chan[q] = chan[r]}
  IN  /\ doing[r] = "close"
      /\ doing' = [q \in Requests |-> IF q = r THEN "done"
                                      ELSE IF q \in Woken THEN "check" ELSE doing[q]]
      /\ chan' = [q \in Requests |-> IF q = r \/ q \in Woken THEN NoOne ELSE chan[q]]
      /\ UNCHANGED <<shared, asked, gen, got, preceding, ingesting>>

\* evolutionCacheTTL, overviewCacheTTL.
Expire(c) ==
  /\ entry[c] # Nothing
  /\ entry' = [entry EXCEPT ![c] = Nothing]
  /\ UNCHANGED <<db, ready, generation, doing, asked, gen, chan, got, preceding, ingesting>>

(***************************************************************************)
(* The ingest handler and Store.Ingest                                     *)
(***************************************************************************)

requesting == <<ready, doing, asked, gen, chan, got, preceding>>

\* Rejected, or an error before or in the transaction.
IngestFails(i) ==
  /\ stage[i] = "new"
  /\ stage' = [stage EXCEPT ![i] = "failed"]
  /\ UNCHANGED <<db, entry, generation, ver, requesting>>

StoreBatch(i) ==
  /\ stage[i] = "new"
  /\ db' = db + 1
  /\ ver' = [ver EXCEPT ![i] = db + 1]
  /\ stage' = [stage EXCEPT ![i] = "written"]
  /\ UNCHANGED <<entry, generation, requesting>>

\* LifetimeTokens after the commit.
ReadTotal(i) ==
  /\ stage[i] = "written"
  /\ stage' = [stage EXCEPT ![i] = "evolution"]
  /\ UNCHANGED <<db, entry, generation, ver, requesting>>

\* That query fails: 500, although the batch is stored.
ReadTotalFails(i) ==
  /\ stage[i] = "written"
  /\ stage' = [stage EXCEPT ![i] = "failed"]
  /\ UNCHANGED <<db, entry, generation, ver, requesting>>

\* Faulty variant: the entry is dropped, the generation stays.
InvalidateEntryOnly(i, c) ==
  /\ stage[i] = c
  /\ entry' = [entry EXCEPT ![c] = Nothing]
  /\ stage' = [stage EXCEPT ![i] = IF c = "evolution" THEN "overview" ELSE "acked"]
  /\ UNCHANGED <<db, generation, ver, requesting>>

\* invalidateEvolutionCache, then invalidateOverviewCache, then the answer.
Invalidate(i, c) ==
  /\ stage[i] = c
  /\ generation' = [generation EXCEPT ![c] = @ + 1]
  /\ entry' = [entry EXCEPT ![c] = Nothing]
  /\ stage' = [stage EXCEPT ![i] = IF c = "evolution" THEN "overview" ELSE "acked"]
  /\ UNCHANGED <<db, ver, requesting>>

-----------------------------------------------------------------------------

CacheInit ==
  /\ db = 0
  /\ entry = [c \in Caches |-> Nothing]
  /\ ready = [c \in Caches |-> NoOne]
  /\ generation = [c \in Caches |-> 0]
  /\ doing = [r \in Requests |-> "new"]
  /\ asked = [r \in Requests |-> "evolution"]
  /\ gen = [r \in Requests |-> 0]
  /\ chan = [r \in Requests |-> NoOne]
  /\ got = [r \in Requests |-> Nothing]
  /\ preceding = [r \in Requests |-> {}]
  /\ stage = [i \in Ingests |-> "new"]
  /\ ver = [i \in Ingests |-> 0]

\* What the handler of an arrived request does unless it waits.
Serve(r) ==
  \/ HitEntry(r) \/ Wait(r) \/ Start(r) \/ FirstQuery(r) \/ LastQuery(r)
  \/ Install(r) \/ CloseChannel(r)

Reader(r) == Serve(r) \/ (\E c \in Endpoints : Arrive(r, c)) \/ GiveUp(r) \/ QueryFails(r)

Writer(i) ==
  \/ IngestFails(i) \/ StoreBatch(i) \/ ReadTotal(i) \/ ReadTotalFails(i)
  \/ \E c \in Caches : Invalidate(i, c)

CacheNext ==
  \/ \E r \in Requests : Reader(r)
  \/ \E i \in Ingests : Writer(i)
  \/ \E c \in Caches : Expire(c)

CacheSpec == CacheInit /\ [][CacheNext]_cacheVars

\* The Go scheduler runs every goroutine that can run, queries return, and
\* sync.Mutex lets no caller starve.
CacheFairSpec == CacheSpec /\ \A r \in Requests : WF_cacheVars(Serve(r))

-----------------------------------------------------------------------------

Result == [from: Nat, to: Nat]

Types ==
  /\ db \in Nat
  /\ entry \in [Caches -> Result \cup {Nothing, Failed}]
  /\ ready \in [Caches -> Requests \cup {NoOne}]
  /\ generation \in [Caches -> Nat]
  /\ doing \in [Requests -> {"new", "check", "wait", "first", "last", "install", "close", "done"}]
  /\ asked \in [Requests -> Caches]
  /\ gen \in [Requests -> Nat]
  /\ chan \in [Requests -> Requests \cup {NoOne}]
  /\ got \in [Requests -> Result \cup {Nothing, Failed}]
  /\ preceding \in [Requests -> SUBSET (Requests \cup Ingests)]
  /\ stage \in [Ingests -> {"new", "written", "evolution", "overview", "acked", "failed"}]
  /\ ver \in [Ingests -> Nat]
  /\ \A r \in Requests : doing[r] = "last" => got[r] \in Result

\* Who waits, waits on a channel that is still to be closed.
OpenChannels ==
  \A r \in Requests : doing[r] = "wait" =>
    chan[r] # NoOne /\ doing[chan[r]] \in {"first", "last", "install", "close"}

CacheTypeOK == Types /\ OpenChannels

\* r computes the response of cache c.
Computes(r, c) == asked[r] = c /\ doing[r] \in {"first", "last", "install"}

(***************************************************************************)
(* "collapsing concurrent [...] loads into one recompute" (CHANGELOG.md,   *)
(* 35): the queries of one cache never run twice at the same time, and the *)
(* channel in place is that of the request that runs them. So a request    *)
(* closes the channel it made: never none, never one closed before, either *)
(* of which would panic.                                                   *)
(***************************************************************************)
SingleFlight ==
  /\ \A r \in Requests, c \in Caches : Computes(r, c) => ready[c] = r
  /\ \A r \in Requests : doing[r] = "close" => chan[r] = r

(***************************************************************************)
(* A request that arrives after an ingest was acknowledged is answered     *)
(* with that ingest's events, whether from the cache, after waiting for a  *)
(* compute that began earlier, or from its own queries.                    *)
(***************************************************************************)
FreshAnswers ==
  \A r \in Answered : Ok(got[r]) =>
    \A i \in preceding[r] \cap Ingests : ver[i] <= got[r].from

(***************************************************************************)
(* Totals never run backwards for a client that polls one endpoint: a      *)
(* request that arrives after another was answered reads no older version, *)
(* in any of its queries.                                                  *)
(***************************************************************************)
MonotoneReads ==
  \A r \in Answered : \A q \in preceding[r] \cap Requests :
    asked[q] = asked[r] /\ Ok(got[q]) /\ Ok(got[r]) =>
      got[q].from <= got[r].from /\ got[q].to <= got[r].to

(***************************************************************************)
(* "a compute that started before an ingest cannot install its stale       *)
(* result after the ingest completed" (server.go, 1779-1780): when every   *)
(* ingest that wrote has been acknowledged, what is cached is the state of *)
(* the database, read whole.                                               *)
(***************************************************************************)
QuietCacheIsCurrent ==
  (\A i \in Ingests : ver[i] # 0 => stage[i] = "acked") =>
    \A c \in Caches : Ok(entry[c]) => entry[c] = [from |-> db, to |-> db]

(***************************************************************************)
(* "cached evolution data may be served without any ingest writing to the  *)
(* store; the ingest path still invalidates immediately" (server.go,       *)
(* 1758-1759): the same for every ingest that wrote and was answered.      *)
(***************************************************************************)
WrittenIsInvalidated ==
  (\A i \in Ingests : stage[i] \in {"new", "acked", "failed"}) =>
    \A c \in Caches : Ok(entry[c]) => entry[c].to = db

(***************************************************************************)
(* Every request is answered: no waiter is left behind on a channel that   *)
(* nobody closes, whatever invalidations and failures happen meanwhile.    *)
(***************************************************************************)
EveryRequestAnswered == \A r \in Requests : doing[r] = "check" ~> doing[r] = "done"

=============================================================================
