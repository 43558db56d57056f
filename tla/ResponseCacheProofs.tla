------------------------- MODULE ResponseCacheProofs -------------------------
(***************************************************************************)
(* Proofs about ResponseCache for any number of requests and ingests: one  *)
(* compute at a time, no answer older than the ingests acknowledged before *)
(* the request arrived, and none older than an answer given before.        *)
(***************************************************************************)
EXTENDS ResponseCache, TLAPS

-----------------------------------------------------------------------------

\* The channel in place belongs to a request that is going to remove it.
Owned == \A c \in Caches : ready[c] # NoOne => Computes(ready[c], c)

FlightInv == Types /\ OpenChannels /\ SingleFlight /\ Owned

(***************************************************************************)
(* Every variable keeps its type.                                          *)
(***************************************************************************)
LEMMA TypesStep == Types /\ [CacheNext]_cacheVars => Types'
<1> SUFFICES ASSUME Types, [CacheNext]_cacheVars PROVE Types'
  OBVIOUS
<1> USE DEF Types, Result, Caches, shared, ingesting, requesting
<1>1. ASSUME NEW r \in Requests, NEW c \in Endpoints, Arrive(r, c) PROVE Types'
  <2>1. c \in Caches
    BY NamesAssumption
  <2> QED BY <1>1, <2>1 DEF Arrive, Answered, Acked
<1>2. ASSUME NEW r \in Requests, HitEntry(r) PROVE Types'
  BY <1>2 DEF HitEntry
<1>3. ASSUME NEW r \in Requests, Wait(r) PROVE Types'
  BY <1>3 DEF Wait
<1>4. ASSUME NEW r \in Requests, Start(r) PROVE Types'
  BY <1>4 DEF Start
<1>5. ASSUME NEW r \in Requests, GiveUp(r) PROVE Types'
  BY <1>5 DEF GiveUp
<1>6. ASSUME NEW r \in Requests, FirstQuery(r) PROVE Types'
  BY <1>6 DEF FirstQuery
<1>7. ASSUME NEW r \in Requests, LastQuery(r) PROVE Types'
  BY <1>7 DEF LastQuery
<1>8. ASSUME NEW r \in Requests, QueryFails(r) PROVE Types'
  BY <1>8 DEF QueryFails
<1>9. ASSUME NEW r \in Requests, Install(r) PROVE Types'
  BY <1>9 DEF Install
<1>10. ASSUME NEW r \in Requests, CloseChannel(r) PROVE Types'
  BY <1>10 DEF CloseChannel
<1>11. ASSUME NEW c \in Caches, Expire(c) PROVE Types'
  BY <1>11 DEF Expire
<1>12. ASSUME NEW i \in Ingests, Writer(i) PROVE Types'
  BY <1>12 DEF Writer, IngestFails, StoreBatch, ReadTotal, ReadTotalFails, Invalidate
<1>13. CASE UNCHANGED cacheVars
  BY <1>13 DEF cacheVars
<1> QED
  BY <1>1, <1>2, <1>3, <1>4, <1>5, <1>6, <1>7, <1>8, <1>9, <1>10, <1>11, <1>12, <1>13
     DEF CacheNext, Reader, Serve

(***************************************************************************)
(* What a step does to the channels follows from who computes.             *)
(***************************************************************************)
LEMMA FlightInit == CacheInit => FlightInv
  BY NamesAssumption
     DEF CacheInit, FlightInv, Types, OpenChannels, SingleFlight, Owned, Computes, Caches, Result

LEMMA FlightStep == FlightInv /\ [CacheNext]_cacheVars => FlightInv'
<1> SUFFICES ASSUME FlightInv, [CacheNext]_cacheVars PROVE FlightInv'
  OBVIOUS
<1> DEFINE Flight == OpenChannels /\ SingleFlight /\ Owned
<1>0. Types /\ Types'
  BY TypesStep DEF FlightInv
<1>f. Flight
  BY DEF FlightInv
<1> USE <1>0, <1>f, NamesAssumption DEF Types, OpenChannels, SingleFlight, Owned, Computes,
        shared, ingesting, requesting
<1>1. ASSUME NEW r \in Requests, NEW c \in Endpoints, Arrive(r, c) PROVE Flight'
  BY <1>1 DEF Arrive
<1>2. ASSUME NEW r \in Requests, HitEntry(r) PROVE Flight'
  BY <1>2 DEF HitEntry
<1>3. ASSUME NEW r \in Requests, Wait(r) PROVE Flight'
  BY <1>3 DEF Wait
<1>4. ASSUME NEW r \in Requests, Start(r) PROVE Flight'
  BY <1>4 DEF Start
<1>5. ASSUME NEW r \in Requests, GiveUp(r) PROVE Flight'
  BY <1>5 DEF GiveUp
<1>6. ASSUME NEW r \in Requests, FirstQuery(r) \/ LastQuery(r) \/ QueryFails(r) PROVE Flight'
  BY <1>6 DEF FirstQuery, LastQuery, QueryFails
<1>7. ASSUME NEW r \in Requests, Install(r) PROVE Flight'
  BY <1>7 DEF Install
<1>8. ASSUME NEW r \in Requests, CloseChannel(r) PROVE Flight'
  BY <1>8 DEF CloseChannel
<1>9. ASSUME NEW c \in Caches, Expire(c) PROVE Flight'
  BY <1>9 DEF Expire
<1>10. ASSUME NEW i \in Ingests, Writer(i) PROVE Flight'
  BY <1>10 DEF Writer, IngestFails, StoreBatch, ReadTotal, ReadTotalFails, Invalidate
<1>11. ASSUME UNCHANGED cacheVars PROVE Flight'
  <2>1. doing' = doing /\ asked' = asked /\ chan' = chan /\ ready' = ready
    BY <1>11 DEF cacheVars
  <2> QED
    BY <2>1
<1> HIDE <1>f, NamesAssumption DEF OpenChannels, SingleFlight, Owned, Types
<1>12. Flight'
  BY <1>1, <1>2, <1>3, <1>4, <1>5, <1>6, <1>7, <1>8, <1>9, <1>10, <1>11
     DEF CacheNext, Reader, Serve
<1> QED
  BY <1>0, <1>12 DEF FlightInv

(***************************************************************************)
(* Types are kept, and no request waits on a channel that is closed.       *)
(***************************************************************************)
THEOREM CacheTypeCorrect == CacheSpec => []CacheTypeOK
<1>1. FlightInv => CacheTypeOK
  BY DEF FlightInv, CacheTypeOK
<1> QED
  BY <1>1, FlightInit, FlightStep, PTL DEF CacheSpec

(***************************************************************************)
(* At most one request computes the response of a cache, and each closes   *)
(* the channel it made.                                                    *)
(***************************************************************************)
THEOREM OneFlight == CacheSpec => []SingleFlight
<1>1. FlightInv => SingleFlight
  BY DEF FlightInv
<1> QED
  BY <1>1, FlightInit, FlightStep, PTL DEF CacheSpec

-----------------------------------------------------------------------------

\* Ingest i has invalidated cache c.
Passed(i, c) == stage[i] = "acked" \/ (stage[i] = "overview" /\ c = "evolution")

\* A version exists before anything can report it.
Bounded == \A i \in Ingests : ver[i] <= db

Remembered ==
  \A r \in Requests : doing[r] \in {"first", "last", "install"} =>
    gen[r] <= generation[asked[r]]

\* A compute that may be installed read what every ingest wrote that has
\* invalidated the cache: such an ingest invalidated before the compute began.
ComputeCovers ==
  \A r \in Requests, i \in Ingests :
    /\ doing[r] \in {"last", "install"} /\ Ok(got[r])
    /\ gen[r] = generation[asked[r]]
    /\ Passed(i, asked[r])
    => ver[i] <= got[r].from

EntryCovers ==
  \A c \in Caches, i \in Ingests :
    Ok(entry[c]) /\ Passed(i, c) => ver[i] <= entry[c].from

BeforeAcked == \A r \in Requests : \A i \in preceding[r] \cap Ingests : stage[i] = "acked"

AnswerCovers ==
  \A r \in Requests : doing[r] \in {"last", "install", "close", "done"} /\ Ok(got[r]) =>
    \A i \in preceding[r] \cap Ingests : ver[i] <= got[r].from

FreshInv ==
  Bounded /\ Remembered /\ ComputeCovers /\ EntryCovers /\ BeforeAcked /\ AnswerCovers

\* A response that is not an error has versions.
LEMMA OkResult ==
  ASSUME NEW x \in Result \cup {Nothing, Failed}, Ok(x)
  PROVE  x.from \in Nat /\ x.to \in Nat
BY DEF Ok, Result

LEMMA FreshInit == CacheInit => FreshInv
BY NamesAssumption
   DEF CacheInit, FreshInv, Bounded, Remembered, ComputeCovers, EntryCovers, BeforeAcked,
       AnswerCovers, Ok

LEMMA FreshStep == Types /\ FreshInv /\ [CacheNext]_cacheVars => FreshInv'
<1> SUFFICES ASSUME Types, FreshInv, [CacheNext]_cacheVars PROVE FreshInv'
  OBVIOUS
<1>0. Types'
  BY TypesStep
<1> USE <1>0, NamesAssumption DEF Types, Result, FreshInv, Bounded, Remembered, ComputeCovers,
        EntryCovers, BeforeAcked, AnswerCovers, Passed, Ok, shared, ingesting, requesting
<1>1. ASSUME NEW r \in Requests, NEW c \in Endpoints, Arrive(r, c) PROVE FreshInv'
  BY <1>1 DEF Arrive, Acked, Answered
<1>2. ASSUME NEW r \in Requests, HitEntry(r) PROVE FreshInv'
  BY <1>2 DEF HitEntry
<1>3. ASSUME NEW r \in Requests, Wait(r) PROVE FreshInv'
  BY <1>3 DEF Wait
<1>4. ASSUME NEW r \in Requests, Start(r) PROVE FreshInv'
  BY <1>4 DEF Start
<1>5. ASSUME NEW r \in Requests, GiveUp(r) PROVE FreshInv'
  BY <1>5 DEF GiveUp
<1>6. ASSUME NEW r \in Requests, FirstQuery(r) PROVE FreshInv'
  BY <1>6 DEF FirstQuery
<1>7. ASSUME NEW r \in Requests, LastQuery(r) PROVE FreshInv'
  BY <1>7 DEF LastQuery
<1>8. ASSUME NEW r \in Requests, QueryFails(r) PROVE FreshInv'
  BY <1>8 DEF QueryFails
<1>9. ASSUME NEW r \in Requests, Install(r) PROVE FreshInv'
  BY <1>9 DEF Install
<1>10. ASSUME NEW r \in Requests, CloseChannel(r) PROVE FreshInv'
  BY <1>10 DEF CloseChannel
<1>11. ASSUME NEW c \in Caches, Expire(c) PROVE FreshInv'
  BY <1>11 DEF Expire
<1>12. ASSUME NEW i \in Ingests, IngestFails(i) \/ ReadTotal(i) \/ ReadTotalFails(i)
       PROVE  FreshInv'
  BY <1>12 DEF IngestFails, ReadTotal, ReadTotalFails
<1>13. ASSUME NEW i \in Ingests, StoreBatch(i) PROVE FreshInv'
  BY <1>13 DEF StoreBatch
<1>14. ASSUME NEW i \in Ingests, NEW c \in Caches, Invalidate(i, c) PROVE FreshInv'
  BY <1>14 DEF Invalidate, Caches
<1>15. ASSUME UNCHANGED cacheVars PROVE FreshInv'
  BY <1>15 DEF cacheVars
<1> HIDE NamesAssumption DEF Types, FreshInv
<1> QED
  BY <1>1, <1>2, <1>3, <1>4, <1>5, <1>6, <1>7, <1>8, <1>9, <1>10, <1>11, <1>12, <1>13,
     <1>14, <1>15
     DEF CacheNext, Reader, Serve, Writer

(***************************************************************************)
(* No answer is older than an ingest that was acknowledged before the      *)
(* request arrived: the cache, the wait for another's compute and the      *)
(* generation check never hide stored events from a client.                *)
(***************************************************************************)
THEOREM Freshness == CacheSpec => []FreshAnswers
<1>1. FlightInv => Types
  BY DEF FlightInv
<1>2. FreshInv => FreshAnswers
  BY DEF FreshInv, AnswerCovers, FreshAnswers, Answered
<1> QED
  BY <1>1, <1>2, FlightInit, FlightStep, FreshInit, FreshStep, PTL DEF CacheSpec

-----------------------------------------------------------------------------

\* Queries run in order and read what is committed.
InOrder(x) == Ok(x) => x.from <= x.to /\ x.to <= db

\* The newest version is that of an ingest.
Latest == db = 0 \/ \E i \in Ingests : ver[i] = db

VersionInv ==
  /\ \A c \in Caches : InOrder(entry[c])
  /\ \A r \in Requests : InOrder(got[r])
  /\ Latest

LEMMA VersionInit == CacheInit => VersionInv
BY DEF CacheInit, VersionInv, InOrder, Latest, Ok

LEMMA VersionStep == Types /\ [CacheNext]_cacheVars /\ Bounded /\ VersionInv => VersionInv'
<1> SUFFICES ASSUME Types, [CacheNext]_cacheVars, Bounded, VersionInv PROVE VersionInv'
  OBVIOUS
<1> USE NamesAssumption DEF Types, Result, VersionInv, InOrder, Latest, Bounded, Ok,
        shared, ingesting, requesting
<1>1. ASSUME NEW r \in Requests, FirstQuery(r) \/ LastQuery(r) \/ QueryFails(r)
      PROVE  VersionInv'
  <2>1. CASE FirstQuery(r)
    BY <2>1 DEF FirstQuery
  <2>2. CASE LastQuery(r)
    <3>1. got[r] \in Result /\ got' = [got EXCEPT ![r] = [got[r] EXCEPT !.to = db]]
      BY <2>2 DEF LastQuery
    <3>2. got'[r].from = got[r].from /\ got'[r].to = db /\ Ok(got[r])
      BY <3>1
    <3> QED
      BY <2>2, <3>1, <3>2 DEF LastQuery
  <2>3. CASE QueryFails(r)
    BY <2>3 DEF QueryFails
  <2> QED
    BY <1>1, <2>1, <2>2, <2>3
<1>2. ASSUME NEW r \in Requests, HitEntry(r) PROVE VersionInv'
  BY <1>2 DEF HitEntry
<1>3. ASSUME NEW r \in Requests, GiveUp(r) PROVE VersionInv'
  BY <1>3 DEF GiveUp
<1>4. ASSUME NEW r \in Requests, Install(r) PROVE VersionInv'
  BY <1>4 DEF Install
<1>5. ASSUME NEW r \in Requests,
             Wait(r) \/ Start(r) \/ CloseChannel(r) \/ \E c \in Endpoints : Arrive(r, c)
      PROVE  VersionInv'
  BY <1>5 DEF Wait, Start, CloseChannel, Arrive
<1>6. ASSUME NEW c \in Caches, Expire(c) PROVE VersionInv'
  BY <1>6 DEF Expire
<1>7. ASSUME NEW i \in Ingests, StoreBatch(i) PROVE VersionInv'
  BY <1>7 DEF StoreBatch
<1>8. ASSUME NEW i \in Ingests,
             \/ IngestFails(i) \/ ReadTotal(i) \/ ReadTotalFails(i)
             \/ \E c \in Caches : Invalidate(i, c)
      PROVE  VersionInv'
  BY <1>8 DEF IngestFails, ReadTotal, ReadTotalFails, Invalidate
<1>9. ASSUME UNCHANGED cacheVars PROVE VersionInv'
  BY <1>9 DEF cacheVars
<1> HIDE NamesAssumption DEF Types, VersionInv, Bounded
<1> QED
  BY <1>1, <1>2, <1>3, <1>4, <1>5, <1>6, <1>7, <1>8, <1>9 DEF CacheNext, Reader, Serve, Writer

(***************************************************************************)
(* While no ingest is between its commit and its acknowledgement, and none *)
(* failed after its commit, a cached response is the database as it is.    *)
(***************************************************************************)
THEOREM QuietCache == CacheSpec => []QuietCacheIsCurrent
<1>1. FlightInv => Types
  BY DEF FlightInv
<1>2. FreshInv => Bounded
  BY DEF FreshInv
<1>3. Types /\ FreshInv /\ VersionInv => QuietCacheIsCurrent
  <2> SUFFICES ASSUME Types, FreshInv, VersionInv,
                      \A i \in Ingests : ver[i] # 0 => stage[i] = "acked",
                      NEW c \in Caches, Ok(entry[c])
               PROVE  entry[c] = [from |-> db, to |-> db]
    BY DEF QuietCacheIsCurrent
  <2>1. entry[c] \in Result /\ entry[c].from <= entry[c].to /\ entry[c].to <= db
    BY DEF Types, Ok, VersionInv, InOrder
  <2>2. db <= entry[c].from
    BY <2>1 DEF VersionInv, Latest, FreshInv, EntryCovers, Passed, Types, Result
  <2>3. db \in Nat /\ entry[c].from \in Nat /\ entry[c].to \in Nat
    BY <2>1 DEF Types, Result
  <2>4. entry[c].from = db /\ entry[c].to = db
    BY <2>1, <2>2, <2>3
  <2>5. \A x \in Result : x = [from |-> x.from, to |-> x.to]
    BY DEF Result
  <2> QED
    BY <2>1, <2>5, <2>4
<1> QED
  BY <1>1, <1>2, <1>3, FlightInit, FlightStep, FreshInit, FreshStep, VersionInit, VersionStep,
     PTL DEF CacheSpec


-----------------------------------------------------------------------------

AtMost(x, y) == x.from <= y.from /\ x.to <= y.to

\* The entry is empty while its successor is computed.
EmptyWhileComputing == \A r \in Requests, c \in Caches : Computes(r, c) => entry[c] = Nothing

\* What was reported for a cache is no newer than its entry, nor than a
\* compute that runs.
ReportedFirst ==
  \A q \in Requests : doing[q] \in {"close", "done"} /\ Ok(got[q]) =>
    /\ Ok(entry[asked[q]]) => AtMost(got[q], entry[asked[q]])
    /\ \A r \in Requests : doing[r] \in {"last", "install"} /\ asked[r] = asked[q] /\ Ok(got[r]) =>
         AtMost(got[q], got[r])

BeforeAnswered == \A r \in Requests : \A q \in preceding[r] \cap Requests : doing[q] = "done"

AnswersGrow ==
  \A r \in Requests : doing[r] \in {"last", "install", "close", "done"} /\ Ok(got[r]) =>
    \A q \in preceding[r] \cap Requests :
      asked[q] = asked[r] /\ Ok(got[q]) => AtMost(got[q], got[r])

MonotoneInv == EmptyWhileComputing /\ ReportedFirst /\ BeforeAnswered /\ AnswersGrow

LEMMA MonotoneInit == CacheInit => MonotoneInv
BY DEF CacheInit, MonotoneInv, EmptyWhileComputing, ReportedFirst, BeforeAnswered, AnswersGrow, Computes

LEMMA MonotoneStep == FlightInv /\ VersionInv /\ MonotoneInv /\ [CacheNext]_cacheVars => MonotoneInv'
<1> SUFFICES ASSUME FlightInv, VersionInv, MonotoneInv, [CacheNext]_cacheVars PROVE MonotoneInv'
  OBVIOUS
<1>0. Types /\ Types' /\ SingleFlight /\ Owned
  BY TypesStep DEF FlightInv
<1>a. \A q \in Requests : Ok(got[q]) =>
        got[q].from \in Nat /\ got[q].to \in Nat /\ got[q].from <= got[q].to /\ got[q].to <= db
  BY <1>0 DEF VersionInv, InOrder, Types, Result, Ok
<1> USE <1>0, NamesAssumption DEF Types, MonotoneInv, EmptyWhileComputing, ReportedFirst,
        BeforeAnswered, AnswersGrow, Computes, shared, ingesting, requesting
<1>1. ASSUME NEW r \in Requests, NEW c \in Endpoints, Arrive(r, c) PROVE MonotoneInv'
  BY <1>1 DEF Arrive, Answered, Acked
<1>2. ASSUME NEW r \in Requests, HitEntry(r) PROVE MonotoneInv'
  <2>1. /\ doing[r] = "check" /\ entry[asked[r]] # Nothing
        /\ got' = [got EXCEPT ![r] = entry[asked[r]]] /\ doing' = [doing EXCEPT ![r] = "done"]
        /\ UNCHANGED <<entry, asked, preceding>>
    BY <1>2 DEF HitEntry
  <2>2. Ok(entry[asked[r]]) => AtMost(entry[asked[r]], entry[asked[r]])
    BY DEF AtMost, Ok, Result
  <2>3. \A q \in Requests : ~(asked[q] = asked[r] /\ doing[q] \in {"first", "last", "install"})
    BY <2>1
  <2> QED
    BY <2>1, <2>2, <2>3
<1>3. ASSUME NEW r \in Requests, Wait(r) PROVE MonotoneInv'
  BY <1>3 DEF Wait
<1>4. ASSUME NEW r \in Requests, Start(r) PROVE MonotoneInv'
  BY <1>4 DEF Start
<1>5. ASSUME NEW r \in Requests, GiveUp(r) PROVE MonotoneInv'
  BY <1>5 DEF GiveUp, Ok
<1>6. ASSUME NEW r \in Requests, FirstQuery(r) PROVE MonotoneInv'
  <2>1. /\ doing[r] = "first" /\ got' = [got EXCEPT ![r] = [from |-> db, to |-> db]]
        /\ doing' = [doing EXCEPT ![r] = "last"] /\ UNCHANGED <<entry, asked, preceding>>
    BY <1>6 DEF FirstQuery
  <2>2. \A q \in Requests : Ok(got[q]) => AtMost(got[q], [from |-> db, to |-> db])
    BY <1>a DEF AtMost
  <2> QED
    BY <2>1, <2>2
<1>7. ASSUME NEW r \in Requests, LastQuery(r) PROVE MonotoneInv'
  <2>1. /\ doing[r] = "last" /\ got[r] \in Result /\ got' = [got EXCEPT ![r] = [got[r] EXCEPT !.to = db]]
        /\ doing' = [doing EXCEPT ![r] = "install"] /\ UNCHANGED <<entry, asked, preceding>>
    BY <1>7 DEF LastQuery
  <2>2. got'[r].from = got[r].from /\ got'[r].to = db /\ Ok(got[r])
    BY <2>1 DEF Result, Ok
  <2>3. \A q \in Requests : Ok(got[q]) /\ AtMost(got[q], got[r]) => AtMost(got[q], got'[r])
    BY <1>a, <2>2 DEF AtMost
  <2>4. \A q \in Requests : q # r => doing'[q] = doing[q] /\ got'[q] = got[q]
    BY <2>1
  <2>5. EmptyWhileComputing' /\ BeforeAnswered'
    BY <2>1, <2>4
  <2>6. ReportedFirst'
    <3>1. \A q \in Requests : doing'[q] \in {"close", "done"} => q # r
      BY <2>1
    <3>2. \A q \in Requests : doing[q] \in {"close", "done"} /\ Ok(got[q]) /\ asked[r] = asked[q] => AtMost(got[q], got'[r])
      BY <2>1, <2>2, <2>3
    <3> QED
      BY <2>1, <2>4, <3>1, <3>2
  <2>7. AnswersGrow'
    <3>1. \A p \in Requests : \A q \in preceding[p] \cap Requests : q # r
      BY <2>1
    <3> QED
      BY ZenonT(60), <2>1, <2>2, <2>3, <2>4, <3>1
  <2> QED
    BY <2>5, <2>6, <2>7
<1>8. ASSUME NEW r \in Requests, QueryFails(r) PROVE MonotoneInv'
  BY <1>8 DEF QueryFails, Ok
<1>9. ASSUME NEW r \in Requests, Install(r) PROVE MonotoneInv'
  <2>1. /\ doing[r] = "install" /\ doing' = [doing EXCEPT ![r] = "close"] /\ UNCHANGED <<got, asked, preceding>>
        /\ entry' = [entry EXCEPT ![asked[r]] = got[r]] \/ entry' = entry
    BY <1>9 DEF Install
  <2>2. \A q \in Requests, c \in Caches : Computes(q, c)' => Computes(q, c) /\ c # asked[r]
    BY <2>1 DEF SingleFlight
  <2>3. entry[asked[r]] = Nothing
    BY <2>1
  <2>4. EmptyWhileComputing'
    BY <2>1, <2>2
  <2>5. ReportedFirst'
    <3>1. Ok(got[r]) => AtMost(got[r], got[r])
      BY DEF AtMost, Ok, Result
    <3>2. \A q \in Requests : doing'[q] \in {"last", "install"} => asked[q] # asked[r]
      BY <2>2, <2>1
    <3> QED
      BY <2>1, <2>3, <3>1, <3>2 DEF Ok
  <2> QED
    BY <2>1, <2>4, <2>5
<1>10. ASSUME NEW r \in Requests, CloseChannel(r) PROVE MonotoneInv'
  <2>1. /\ UNCHANGED <<got, asked, preceding, entry>>
        /\ doing[r] = "close" /\ doing'[r] = "done"
        /\ \A q \in Requests \ {r} : doing'[q] = doing[q] \/ (doing[q] = "wait" /\ doing'[q] = "check")
    BY <1>10 DEF CloseChannel
  <2> QED
    BY SMTT(40), <2>1
<1>11. ASSUME NEW c \in Caches, Expire(c) PROVE MonotoneInv'
  BY <1>11 DEF Expire, Ok
<1>12. ASSUME NEW i \in Ingests, Writer(i) PROVE MonotoneInv'
  BY <1>12 DEF Writer, IngestFails, StoreBatch, ReadTotal, ReadTotalFails, Invalidate, Ok
<1>13. ASSUME UNCHANGED cacheVars PROVE MonotoneInv'
  BY <1>13 DEF cacheVars
<1> HIDE NamesAssumption DEF Types, MonotoneInv
<1> QED
  BY <1>1, <1>2, <1>3, <1>4, <1>5, <1>6, <1>7, <1>8, <1>9, <1>10, <1>11, <1>12, <1>13
     DEF CacheNext, Reader, Serve

(***************************************************************************)
(* A client that polls one endpoint never sees totals run backwards: no    *)
(* expiry, invalidation or compute that another request began makes a      *)
(* later request read an older version.                                    *)
(***************************************************************************)
THEOREM ReadsAreMonotone == CacheSpec => []MonotoneReads
<1>1. FlightInv => Types
  BY DEF FlightInv
<1>2. FreshInv => Bounded
  BY DEF FreshInv
<1>3. MonotoneInv => MonotoneReads
  BY DEF MonotoneInv, AnswersGrow, AtMost, MonotoneReads, Answered
<1> QED
  BY <1>1, <1>2, <1>3, FlightInit, FlightStep, FreshInit, FreshStep, VersionInit, VersionStep,
     MonotoneInit, MonotoneStep, PTL DEF CacheSpec

=============================================================================
