------------------------------ MODULE Analytics ------------------------------
(* The reports over the stored events: the windows and buckets of an          *)
(* analytics, insights or overview page, whose queries are not in one         *)
(* transaction, and the purge.  Time is counted in halves of a second, a      *)
(* day's length is scaled down, the reporting zone is UTC.  A stored stamp is *)
(* text with the fraction of its second; a bound is text without one.         *)
EXTENDS Integers, FiniteSets, FiniteSetsExt

CONSTANTS
    Hour, Day, Month, Week,  \* lengths of the buckets, in half seconds
    PeriodDays,     \* days of the period counted in days
    ActivityWeeks,  \* activityWeeks
    VisibleSeries,  \* visibleSeries of the share timeline
    Ahead,          \* how far in the future a stamp may be
    Moments,        \* bound: stamps of events
    Clocks,         \* bound: moments at which the clock is read
    Names,          \* values of the dimension a report is broken down by
    Shapes,         \* bound: totals and reported components of events
    MaxEvents,      \* bound: events stored
    Races,          \* bound: steps of a report before which a row may arrive
    NoTotal,        \* a NULL total_tokens
    NoStart         \* the zero start of the period "all"

ASSUME AnalyticsAssumption ==
    /\ {Hour, Day, Month, Week} \subseteq {n \in Nat : n > 0 /\ n % 2 = 0}
    /\ Day % Hour = 0 /\ Month % Day = 0 /\ Week % Day = 0
    /\ PeriodDays \in Nat \ {0} /\ ActivityWeeks \in Nat \ {0}
    /\ VisibleSeries \in Nat \ {0} /\ Ahead \in Nat /\ MaxEvents \in Nat
    /\ Moments \subseteq Nat /\ Clocks \subseteq Nat /\ Clocks # {}
    /\ Names \subseteq Nat \ {0} /\ NoTotal \notin Nat /\ NoStart \notin Int
    /\ \A s \in Shapes : /\ s.total \in Nat \cup {NoTotal} /\ s.parts \in Nat
                         /\ s.total = NoTotal \/ s.parts <= s.total

VARIABLES
    ledger,    \* usage_events
    clock,     \* time.Now() of the hub
    step,      \* what the report in progress does next; "none", "shown"
    page,      \* the report, as far as its queries have been answered
    steady     \* history: no row has come since it began

analytics == <<ledger, clock, step, page, steady>>

Periods == {"24h", "days", "all"}
Down(t, size) == t - (t % size)
Midnight(t) == Down(t, Day)

(* Text order of a stamp and a bound: "…:00.5Z" sorts before "…:00Z".         *)
TextBefore(stamp, bound) ==
    LET second == Down(bound, 2) IN stamp < second \/ stamp = second + 1

Within(rows, from, to) ==
    {r \in rows : (from = NoStart \/ ~TextBefore(r.at, from)) /\ TextBefore(r.at, to)}

Known(rows) == {r \in rows : r.total # NoTotal}
TokensOf(rows) == MapThenSumSet(LAMBDA r : r.total, Known(rows))
PartsOf(rows) == MapThenSumSet(LAMBDA r : r.parts, Known(rows))
TotalsOf(rows) == [tokens |-> TokensOf(rows), events |-> Cardinality(rows),
                 unknown |-> Cardinality(rows \ Known(rows))]
NoTotals == TotalsOf({})

(* normalizeAnalyticsQuery                                                    *)
StartOf(period, t) == CASE period = "24h" -> t - Day
                        [] period = "days" -> Midnight(t) - (PeriodDays - 1) * Day
                        [] period = "all" -> NoStart
EndOf(period, t) == IF period = "24h" THEN t ELSE Midnight(t) + Day

(* analyticsBucketKey                                                         *)
Size(period) == CASE period = "24h" -> Hour
                  [] period = "days" -> Day
                  [] period = "all" -> Month
Bucketed(rows, period) ==
    [b \in {Down(r.at, Size(period)) : r \in rows} |->
        {r \in rows : Down(r.at, Size(period)) = b}]

(* a faulty variant: the axis of the last 24 hours ends with the last full hour*)
AxisShort(found, period, from, to) ==
    LET size == Size(period)
        first == IF period = "all" THEN Min(found) ELSE Down(from, size)
        last == IF period = "all" THEN Down(to - 1, size) + size ELSE Down(to, size)
    IN {b \in first .. last : b < last /\ (b - first) % size = 0}

(* The buckets fillAnalyticsPoints walks through; those outside are left out. *)
Axis(found, period, from, to) ==
    LET size == Size(period)
        first == IF period = "all" THEN Min(found) ELSE Down(from, size)
        last == CASE period = "24h" -> Down(to, size) + size
                  [] period = "days" -> to
                  [] period = "all" -> Down(to - 1, size) + size
    IN {b \in first .. last : b < last /\ (b - first) % size = 0}

(* analyticsPoints and analyticsShareTimeline, filled: for every bucket of *)
(* the axis, the value of its rows.                                           *)
Filled(rows, period, from, to, Value(_)) ==
    LET found == Bucketed(rows, period)
        axis == IF rows = {} THEN {} ELSE Axis(DOMAIN found, period, from, to)
    IN [b \in axis |-> Value(IF b \in DOMAIN found THEN found[b] ELSE {})]

(* ORDER BY tokens DESC, name: the place of a name among those with rows.     *)
Named(rows, n) == {r \in rows : r.name = n}
Place(rows, n) ==
    Cardinality({o \in {r.name : r \in rows} :
        LET t == TokensOf(Named(rows, o)) u == TokensOf(Named(rows, n))
        IN t > u \/ (t = u /\ o < n)})
Breakdown(rows) == [n \in {r.name : r \in rows} |->
                        [tokens |-> TokensOf(Named(rows, n)), place |-> Place(rows, n)]]

(* The index of the series a name counts for; VisibleSeries is "Other".       *)
Series(breakdown, n) ==
    IF breakdown[n].place < VisibleSeries THEN breakdown[n].place ELSE VisibleSeries
SeriesOf(breakdown) == {Series(breakdown, n) : n \in DOMAIN breakdown}
SeriesTokens(breakdown) ==
    [i \in SeriesOf(breakdown) |->
        MapThenSumSet(LAMBDA n : breakdown[n].tokens,
                      {n \in DOMAIN breakdown : Series(breakdown, n) = i})]

(* The series a row of the timeline counts for: "Other", if there is one,     *)
(* also takes names the breakdown has not.                                    *)
Plotted(breakdown, n) ==
    IF n \in DOMAIN breakdown THEN Series(breakdown, n) ELSE VisibleSeries

(* insightQuality: of the summary's events and the unknown ones counted later.*)
KnownEvents(summary, unknown) ==
    IF unknown > summary.events THEN 0 ELSE summary.events - unknown

(* The cards of an insights page, each with what it rests on.                 *)
Momentum(p) == /\ p.period # "all" /\ p.known > 0 /\ p.summary.tokens > 0
               /\ p.previous.tokens > 0
Rhythm(p) == p.aggregate.tokens > 0
Concentration(p) == /\ p.summary.tokens > 0
                    /\ \E n \in DOMAIN p.breakdown : p.breakdown[n].tokens > 0
Composition(p) == p.aggregate.tokens > 0 /\ p.aggregate.parts > 0
Confidence(p) == p.summary.events > 0
Cards(p) == {c \in {"momentum", "rhythm", "concentration", "composition",
                    "confidence"} :
                CASE c = "momentum" -> Momentum(p)
                  [] c = "rhythm" -> Rhythm(p)
                  [] c = "concentration" -> Concentration(p)
                  [] c = "composition" -> Composition(p)
                  [] c = "confidence" -> Confidence(p)}

Blank == [kind |-> "none"]

AnalyticsInit ==
    /\ ledger = {} /\ clock = Min(Clocks)
    /\ step = "none" /\ page = Blank /\ steady = TRUE

EventArrives ==
    /\ Cardinality(ledger) < MaxEvents /\ step \in Races
    /\ \E at \in Moments, shape \in Shapes, name \in Names :
        /\ at <= clock + Ahead
        /\ ledger' = ledger \cup
               {[id |-> Min((1 .. MaxEvents) \ {r.id : r \in ledger}), at |-> at,
                 total |-> shape.total, parts |-> shape.parts, name |-> name]}
    /\ steady' = (step = "none")
    /\ UNCHANGED <<clock, step, page>>

ClockMoves ==
    /\ \E c \in Clocks : c > clock /\ clock' = c
    /\ UNCHANGED <<ledger, step, page, steady>>

(* PurgeBefore: a command of its own, which opens the database, so that no    *)
(* report is in progress.                                                     *)
Purge ==
    /\ step = "none"
    /\ \E date \in {Midnight(m) : m \in Moments} :
          ledger' = {r \in ledger : ~TextBefore(r.at, date)}
    /\ UNCHANGED <<clock, step, page, steady>>

(* A page with the fields of one more query.                                  *)
With(fields, p) ==
    [f \in DOMAIN fields \cup DOMAIN p |-> IF f \in DOMAIN fields THEN fields[f] ELSE p[f]]

(* One query of the report in progress has been answered.                     *)
Answered(now, next, fields) ==
    /\ step = now /\ step' = next
    /\ page' = With(fields, page)
    /\ UNCHANGED <<ledger, clock, steady>>

BeginReport ==
    \E period \in Periods :
        Answered("none", "summary",
            [kind |-> "report", period |-> period, from |-> StartOf(period, clock),
             to |-> EndOf(period, clock), lifetime |-> TokensOf(ledger)])

(* analyticsWhere, without filters                                            *)
Selected(rows) == Within(rows, page.from, page.to)

ReadSummary ==
    Answered("summary", "previous", [summary |-> TotalsOf(Selected(ledger))])

ReadPrevious ==
    Answered("previous", "points",
        [previous |-> IF page.from = NoStart THEN NoTotals
                      ELSE TotalsOf(Within(ledger, 2 * page.from - page.to, page.from))])

ReadPoints ==
    Answered("points", "breakdown",
        [points |-> Filled(Selected(ledger), page.period, page.from, page.to, TotalsOf)])

ReadBreakdown ==
    Answered("breakdown", "share", [breakdown |-> Breakdown(Selected(ledger))])

(* The rows of a name that counts for no series are in the point's total only.*)
ReadShare ==
    LET series == SeriesTokens(page.breakdown)
        Values(rows) == [i \in DOMAIN series |->
                            TokensOf({r \in rows : Plotted(page.breakdown, r.name) = i})]
        PointOf(rows) == [tokens |-> TokensOf(rows), values |-> Values(rows)]
        rows == IF series = <<>> THEN {} ELSE Selected(ledger)
    IN Answered("share", "aggregate",
           [series |-> series,
            share |-> Filled(rows, page.period, page.from, page.to, PointOf)])

(* insightsAggregate and the cards made from everything read.                 *)
ReadAggregate ==
    LET rows == Selected(ledger)
        sums(size, cycle) == [b \in {(Down(r.at, size) % cycle) : r \in Known(rows)} |->
                                TokensOf({r \in rows : Down(r.at, size) % cycle = b})]
        hours == sums(Hour, Day)
        days == sums(Day, Week)
        read == [aggregate |-> [tokens |-> TokensOf(rows), parts |-> PartsOf(rows),
                                hours |-> hours, days |-> days],
                 known |-> KnownEvents(page.summary, Cardinality(rows \ Known(rows)))]
    IN Answered("aggregate", "shown", With(read, [cards |-> Cards(With(read, page))]))

BeginOverview ==
    Answered("none", "today", [kind |-> "overview", lifetime |-> TokensOf(ledger)])

(* PeriodSummary of the day the clock now shows, and of its week.             *)
ReadToday ==
    LET today == Midnight(clock)
    IN Answered("today", "week",
           [date |-> today, today |-> TotalsOf(Within(ledger, today, today + Day))])

ReadWeek ==
    Answered("week", "activity",
        [week |-> TotalsOf(Within(ledger, Down(page.date, Week), page.date + Day))])

(* Activity reads the clock again; DailyUsage files a row under its own date. *)
ReadActivity ==
    LET first == Down(clock, Week) - (ActivityWeeks - 1) * Week
        last == Down(clock, Week) + ActivityWeeks * Week
        rows == Within(ledger, first, last)
    IN Answered("activity", "shown",
           [heatmap |-> Midnight(clock),
            daily |-> [d \in {Midnight(r.at) : r \in rows} |->
                          TotalsOf({r \in rows : Midnight(r.at) = d})]])

Leave ==
    /\ step = "shown" /\ step' = "none"
    /\ page' = Blank /\ steady' = TRUE
    /\ UNCHANGED <<ledger, clock>>

AnalyticsNext ==
    \/ EventArrives \/ ClockMoves \/ Purge
    \/ BeginReport \/ ReadSummary \/ ReadPrevious \/ ReadPoints
    \/ ReadBreakdown \/ ReadShare \/ ReadAggregate
    \/ BeginOverview \/ ReadToday \/ ReadWeek \/ ReadActivity \/ Leave

AnalyticsSpec == AnalyticsInit /\ [][AnalyticsNext]_analytics

-----------------------------------------------------------------------------
(* The rows, the clock and the report in progress have the shape the code     *)
(* gives them.                                                                *)
AnalyticsTypeOK ==
    /\ Cardinality(ledger) <= MaxEvents
    /\ \A r \in ledger : r.id \in 1 .. MaxEvents /\ r.at \in Moments /\ r.name \in Names
    /\ \A r, o \in ledger : r.id = o.id => r = o
    /\ clock \in Clocks /\ steady \in BOOLEAN
    /\ step \in {"none", "summary", "previous", "points", "breakdown", "share",
                 "aggregate", "today", "week", "activity", "shown"}
    /\ (step = "none") = (page.kind = "none")

SumOf(f, Part(_)) == MapThenSumSet(LAMBDA b : Part(f[b]), DOMAIN f)
TokensIn(v) == v.tokens
EventsIn(v) == v.events
Itself(v) == v

Shown(kind) == step = "shown" /\ page.kind = kind
EarlyIn(b) == \E r \in ledger : r.at = b + 1

(* The figures of one report are of one set of rows: its points, breakdown,   *)
(* share series and share points, and the hours and weekdays of the insights, *)
(* add up to its summary, whatever the period, as long as no row arrives      *)
(* while it is read (fillAnalyticsPoints loses a row in the first second      *)
(* after the window, which the text order takes into it).                     *)
ReportAdds ==
    Shown("report") /\ steady /\ (page.period = "24h" \/ ~EarlyIn(page.to)) =>
        /\ SumOf(page.points, TokensIn) = page.summary.tokens
        /\ SumOf(page.points, EventsIn) = page.summary.events
        /\ SumOf(page.breakdown, TokensIn) = page.summary.tokens
        /\ SumOf(page.series, Itself) = page.summary.tokens
        /\ \A i \in DOMAIN page.series :
               MapThenSumSet(LAMBDA b : page.share[b].values[i], DOMAIN page.share)
                   = page.series[i]
        /\ \A b \in DOMAIN page.share :
               SumOf(page.share[b].values, Itself) = page.share[b].tokens
        /\ SumOf(page.aggregate.hours, Itself) = page.summary.tokens
        /\ SumOf(page.aggregate.days, Itself) = page.summary.tokens
        /\ page.known + page.summary.unknown = page.summary.events

(* Two figures of an insights page never contradict its rows even when rows   *)
(* arrive between its queries: coverage stays between none and all of them.   *)
CoverageSane ==
    Shown("report") => page.known \in 0 .. page.summary.events

(* The overview's day, week and lifetime are one count: the heatmap's cells   *)
(* give the day and the week, and neither exceeds the lifetime, unless a row  *)
(* arrives, midnight passes between the queries, or a row lies in the first   *)
(* second of a day, which the text order gives to the day before while        *)
(* DailyUsage files it under its own.                                         *)
OverviewAgrees ==
    Shown("overview") /\ steady /\ page.date = page.heatmap
        /\ (\A r \in ledger : ~EarlyIn(Midnight(r.at))) =>
        LET Cells(from) == MapThenSumSet(LAMBDA d : page.daily[d].tokens,
                               {d \in DOMAIN page.daily : from <= d /\ d <= page.date})
        IN /\ page.today.tokens = Cells(page.date)
           /\ page.week.tokens = Cells(Down(page.date, Week))
           /\ page.today.tokens <= page.week.tokens
           /\ page.week.tokens <= page.lifetime

AnalyticsAdds == ReportAdds /\ CoverageSane /\ OverviewAgrees
=============================================================================
