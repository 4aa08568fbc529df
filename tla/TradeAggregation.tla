-------------------------- MODULE TradeAggregation --------------------------
(***************************************************************************)
(* From the log of public trades to the bars of the research programs:     *)
(* aggregate_1s.py reads the log in chunks while the trading program may   *)
(* still append to it, and writes one bar per second; data_loader.py reads *)
(* the bars back and pfd_indicator.py joins them into intervals.           *)
(*                                                                         *)
(* Time is counted in seconds, a row of the log is a record, and the log   *)
(* is known from the start; `flushed' says how much of it is on the disk.  *)
(* The program flushes its buffer when it is full, so the file may end     *)
(* anywhere in a row, and a power loss leaves zero bytes behind that.      *)
(***************************************************************************)
EXTENDS Integers, SequencesExt, FiniteSetsExt

CONSTANTS
    Rows,           \* rows of the log: records [sec, price, vol, S, L]; S is "" for all that
                    \* is neither of the sides
    MaxRows,        \* bound on the length of the log
    ChunkSizes,     \* values of --chunk-size
    FlushLines,     \* FLUSH_LINES
    IntervalSecs    \* values of interval_sec

ASSUME AggregationAssumption ==
    /\ MaxRows \in Nat /\ FlushLines \in Nat \ {0}
    /\ ChunkSizes \subseteq Nat \ {0} /\ IntervalSecs \subseteq Nat \ {0}
    /\ Rows \subseteq [sec : Nat, price : Nat, vol : Int, S : {"buy", "sell", ""}, L : Nat]

\* Where the last row on the disk ends: between two rows, before its price, in the
\* middle of its price, before its side.
Cuts == {"none", "time", "price", "side"}

VARIABLES
    log,            \* the rows the trading program writes, in order
    flushed,        \* [rows, cut]: what of them is on the disk
    zeros,          \* do zero bytes follow
    phase,
    chunkSize, intervalSec,
    limit,          \* what is read at most: an end like flushed, or NoLimit
    atOpen,         \* the rows on the disk when reading began
    lines,          \* the rows as read_csv() has returned them
    rows, skipped,  \* stats["rows"] and stats["skipped"]
    parts,          \* the aggregates of the chunks
    total,          \* the bars by second
    out,            \* the lines of aggregated_1s.csv
    bars            \* what the loader has made of them

disk  == <<log, flushed, zeros>>
args  == <<chunkSize, intervalSec>>
input == <<limit, atOpen, lines, rows, skipped, parts>>
vars  == <<disk, phase, args, input, total, out, bars>>

NoLimit == [rows |-> MaxRows + 1, cut |-> "none"]

-----------------------------------------------------------------------------
(* Aggregation of a chunk, and of the chunks.                              *)

\* The side S, whatever its case and blanks, else the direction of the tick L.
SideOf(r) ==
    IF r.S \in {"buy", "sell"} THEN r.S
    ELSE IF r.L \in {1, 3} THEN "buy" ELSE IF r.L \in {2, 4} THEN "sell" ELSE "unknown"

\* A missing price is 0.
Valid(r) == r.price > 0 /\ r.vol >= 0

\* Mutant: the rows are numbered from the start of their chunk.
NumberInChunk(offset, i) == i

RowNumber(offset, i) == offset + i

Total(f) == SumFunction(f)

\* The volume of the rows I of a side.
VolumeOf(ls, I, side) == Total([i \in {j \in I : SideOf(ls[j]) = side} |-> ls[i].vol])

\* V are the valid rows of the chunk, as the index of the data frame has them: it goes on
\* from chunk to chunk and is kept when rows are dropped.
AggregateChunk(ls, V, offset) ==
    [s \in {ls[i].sec : i \in V} |->
        LET I == {i \in V : ls[i].sec = s}
            Prices == {ls[i].price : i \in I}
            Number(i) == RowNumber(offset, Cardinality({j \in V : j <= i}))
        IN  [open |-> ls[Min(I)].price, close |-> ls[Max(I)].price,
             high |-> Max(Prices), low |-> Min(Prices),
             buy  |-> VolumeOf(ls, I, "buy"), sell |-> VolumeOf(ls, I, "sell"),
             vol  |-> Total([i \in I |-> ls[i].vol]),
             pv   |-> Total([i \in I |-> ls[i].price * ls[i].vol]),
             cnt  |-> Cardinality(I),
             first |-> Number(Min(I)), last |-> Number(Max(I))]]

\* open is that of the part with the first row of the second, close of the last.
Combine(ps) ==
    [s \in UNION {DOMAIN ps[k] : k \in DOMAIN ps} |->
        LET K == {k \in DOMAIN ps : s \in DOMAIN ps[k]}
            earliest == CHOOSE k \in K : \A j \in K : ps[k][s].first <= ps[j][s].first
            latest   == CHOOSE k \in K : \A j \in K : ps[k][s].last >= ps[j][s].last
            Sum(field) == Total([k \in K |-> ps[k][s][field]])
        IN  [open |-> ps[earliest][s].open, close |-> ps[latest][s].close,
             high |-> Max({ps[k][s].high : k \in K}), low |-> Min({ps[k][s].low : k \in K}),
             buy  |-> Sum("buy"), sell |-> Sum("sell"), cnt |-> Sum("cnt"),
             vwap |-> IF Sum("vol") > 0 THEN Sum("pv") \div Sum("vol") ELSE 0]]

\* The elements of a set in order.
InOrder(S) ==
    [i \in 1 .. Cardinality(S) |-> CHOOSE s \in S : Cardinality({k \in S : k <= s}) = i]

\* A line of the csv file per second, in order.
Line(s) ==
    LET b == total[s] IN
    [sec |-> s, open |-> b.open, high |-> b.high, low |-> b.low, close |-> b.close,
     buy |-> b.buy, sell |-> b.sell, cnt |-> b.cnt, vwap |-> b.vwap]

CsvLines == LET order == InOrder(DOMAIN total) IN [i \in DOMAIN order |-> Line(order[i])]

-----------------------------------------------------------------------------
(* Loading, and joining the bars into intervals.                           *)

\* Sorted by time; of lines for the same second the last one stays.
Loaded(csv) ==
    LET order == InOrder({csv[i].sec : i \in DOMAIN csv})
    IN  [n \in DOMAIN order |-> csv[Max({i \in DOMAIN csv : csv[i].sec = order[n]})]]

\* Mutant: rounded to the nearest start.
NearestStart(sec, n) == ((sec + n \div 2) \div n) * n

StartOf(sec, n) == (sec \div n) * n

\* Seconds without a bar are not filled in.
AggregateIntervals(bs, n) ==
    [b \in {StartOf(bs[i].sec, n) : i \in DOMAIN bs} |->
        LET I == {i \in DOMAIN bs : StartOf(bs[i].sec, n) = b} IN
        [open |-> bs[Min(I)].open, close |-> bs[Max(I)].close,
         high |-> Max({bs[i].high : i \in I}), low |-> Min({bs[i].low : i \in I}),
         buy  |-> Total([i \in I |-> bs[i].buy]), sell |-> Total([i \in I |-> bs[i].sell]),
         closeTs |-> bs[Max(I)].sec]]

-----------------------------------------------------------------------------
(* The trading program.                                                    *)

\* Its buffer goes to the disk and ends anywhere in a row; nothing is written after
\* a power loss, and nobody looks at what is written after the reading.
Flush ==
    /\ ~zeros /\ phase \in {"start", "limited", "reading"}
    /\ \E n \in flushed.rows .. Len(log), cut \in Cuts :
          /\ cut # "none" => n < Len(log)
          /\ flushed' = [rows |-> n, cut |-> cut]
          /\ n > flushed.rows \/ (flushed.cut = "none" /\ cut # "none")
    /\ UNCHANGED <<log, zeros, phase, args, input, total, out, bars>>

-----------------------------------------------------------------------------
(* aggregate_1s.py.                                                        *)

\* The size of the file, or the place of the first zero byte.
DataLimit ==
    /\ phase = "start"
    /\ limit' = flushed /\ atOpen' = flushed.rows
    /\ phase' = "limited"
    /\ UNCHANGED <<disk, args, lines, rows, skipped, parts, total, out, bars>>

\* The limit is kept when the file is now longer than that.
OpenInput ==
    /\ phase = "limited"
    /\ limit' = IF zeros \/ flushed # limit THEN limit ELSE NoLimit
    /\ phase' = "reading"
    /\ UNCHANGED <<disk, args, atOpen, lines, rows, skipped, parts, total, out, bars>>

End == IF limit = NoLimit THEN flushed ELSE limit

\* What read_csv() makes of the piece of a row at the end of the file.
TornRow(r, cut) ==
    CASE cut = "time"  -> {[r EXCEPT !.price = 0, !.S = "", !.L = 0]}
      [] cut = "price" -> {[r EXCEPT !.price = p, !.S = "", !.L = 0] : p \in 1 .. r.price}
      [] cut = "side"  -> {[r EXCEPT !.S = "", !.L = l] : l \in {0, r.L}}

TakeChunk(chunk) ==
    /\ lines' = lines \o chunk
    /\ rows' = rows + Len(chunk)
    /\ LET V == {i \in Len(lines) + 1 .. Len(lines') : Valid(lines'[i])} IN
       /\ skipped' = skipped + Len(chunk) - Cardinality(V)
       /\ parts' = IF V = {} THEN parts
                   ELSE Append(parts, AggregateChunk(lines', V, rows' - Cardinality(V)))
    /\ UNCHANGED <<disk, args, limit, atOpen, total, out, bars>>

ReadChunk ==
    /\ phase = "reading"
    /\ End.rows - Len(lines) >= chunkSize
    /\ TakeChunk(SubSeq(log, Len(lines) + 1, Len(lines) + chunkSize))
    /\ UNCHANGED phase

\* Mutant: a chunk that is not full is not looked at.
ReadFullChunksOnly ==
    /\ phase = "reading"
    /\ End.rows - Len(lines) < chunkSize
    /\ TakeChunk(<<>>)
    /\ phase' = "read"

\* The end of the input, with the piece of a row that stands there.
ReadLastChunk ==
    /\ phase = "reading"
    /\ End.rows - Len(lines) < chunkSize
    /\ LET whole == SubSeq(log, Len(lines) + 1, End.rows) IN
       IF End.cut = "none" THEN TakeChunk(whole)
       ELSE \E r \in TornRow(log[End.rows + 1], End.cut) : TakeChunk(Append(whole, r))
    /\ phase' = "read"

NoTrades ==
    /\ phase = "read" /\ parts = <<>>
    /\ phase' = "failed"
    /\ UNCHANGED <<disk, args, input, total, out, bars>>

CombineParts ==
    /\ phase = "read" /\ parts # <<>>
    /\ total' = Combine(parts)
    /\ phase' = "writing"
    /\ UNCHANGED <<disk, args, input, out, bars>>

WriteLines ==
    /\ phase = "writing"
    /\ out' = SubSeq(CsvLines, 1, Min({Len(out) + FlushLines, Cardinality(DOMAIN total)}))
    /\ phase' = IF Len(out') = Cardinality(DOMAIN total) THEN "written" ELSE "writing"
    /\ UNCHANGED <<disk, args, input, total, bars>>

\* The program is stopped while it writes.  A line without all its columns is
\* dropped by the loader, so the file counts up to the last line that has the
\* beginning of a vwap.
Interrupt ==
    /\ phase = "writing" /\ out # <<>>
    /\ \E n \in DOMAIN out : \E vwap \in 0 .. out[n].vwap :
          out' = [SubSeq(out, 1, n) EXCEPT ![n].vwap = vwap]
    /\ phase' = "written"
    /\ UNCHANGED <<disk, args, input, total, bars>>

Load ==
    /\ phase = "written"
    /\ bars' = Loaded(out)
    /\ phase' = "loaded"
    /\ UNCHANGED <<disk, args, input, total, out>>

-----------------------------------------------------------------------------
Init ==
    /\ log \in BoundedSeq(Rows, MaxRows)
    /\ zeros \in BOOLEAN
    /\ flushed \in [rows : 0 .. Len(log), cut : Cuts]
    /\ flushed.cut # "none" => flushed.rows < Len(log)
    /\ phase = "start"
    /\ chunkSize \in ChunkSizes /\ intervalSec \in IntervalSecs
    /\ limit = NoLimit /\ atOpen = 0
    /\ lines = <<>> /\ rows = 0 /\ skipped = 0 /\ parts = <<>>
    /\ total = <<>> /\ out = <<>> /\ bars = <<>>

Next ==
    \/ Flush
    \/ DataLimit \/ OpenInput
    \/ ReadChunk \/ ReadLastChunk
    \/ NoTrades \/ CombineParts
    \/ WriteLines \/ Interrupt
    \/ Load

Spec == Init /\ [][Next]_vars

-----------------------------------------------------------------------------
(* Properties.                                                             *)

\* The valid rows of the seconds from..to, and the prices of such rows.
TradesOf(from, to) == {i \in DOMAIN lines : Valid(lines[i]) /\ lines[i].sec \in from .. to}

PricesOf(I) == {lines[i].price : i \in I}

\* The division into chunks leaves no trace, whatever its size, the rows dropped on
\* the way and the seconds it cuts in two: each bar is that of all the trades of its
\* second in the order of the log (aggregate_1s.py:70-125, 218-247).
BarsOfLog ==
    phase \in {"writing", "written", "loaded"} =>
        /\ DOMAIN total = {lines[i].sec : i \in {j \in DOMAIN lines : Valid(lines[j])}}
        /\ \A s \in DOMAIN total :
              LET I == TradesOf(s, s) IN
              /\ total[s].open = lines[Min(I)].price /\ total[s].close = lines[Max(I)].price
              /\ total[s].high = Max(PricesOf(I)) /\ total[s].low = Min(PricesOf(I))
              /\ total[s].buy = VolumeOf(lines, I, "buy")
              /\ total[s].sell = VolumeOf(lines, I, "sell")
              /\ total[s].cnt = Cardinality(I)

\* Joining the bars of the seconds gives what the trades of the interval give, in
\* all intervals but the last; the last one may miss seconds, when the writing of
\* the bars was interrupted (aggregate_1s.py:268-279, data_loader.py:64-77,
\* pfd_indicator.py:40-62).
IntervalsOfLog ==
    phase = "loaded" =>
        LET intervals == AggregateIntervals(bars, intervalSec) IN
        \A b \in DOMAIN intervals :
            LET I == TradesOf(b, b + intervalSec - 1)
                Secs == {lines[i].sec : i \in I}
            IN  (b # Max(DOMAIN intervals) \/ Len(out) = Cardinality(DOMAIN total)) =>
                  /\ I # {}
                  /\ intervals[b].open = lines[Min(TradesOf(Min(Secs), Min(Secs)))].price
                  /\ intervals[b].close = lines[Max(TradesOf(Max(Secs), Max(Secs)))].price
                  /\ intervals[b].high = Max(PricesOf(I)) /\ intervals[b].low = Min(PricesOf(I))
                  /\ intervals[b].buy = VolumeOf(lines, I, "buy")
                  /\ intervals[b].sell = VolumeOf(lines, I, "sell")
                  /\ intervals[b].closeTs = Max(Secs)

\* Every row that was whole on the disk when the aggregation began is read once and
\* in order, however much is appended meanwhile (aggregate_1s.py:128-184).
NothingLeftOut ==
    phase \notin {"start", "limited", "reading"} =>
        /\ Len(lines) >= atOpen
        /\ \A i \in DOMAIN lines : i <= atOpen \/ i < Len(lines) => lines[i] = log[i]
=============================================================================
