---------------------------- MODULE HistoryStore ----------------------------
(***************************************************************************)
(* data/parquet_store.py and its users: the daily partitions of a symbol,  *)
(* the imports that write them (`data import-ticks`, data/csv_import.py,   *)
(* and `data download`) and the replay that reads them in chunks           *)
(* (FileBacktester._replay_ticks(), data/historical.py).                   *)
(*                                                                         *)
(* An import is a process of its own; it appends to a partition by reading *)
(* the file, merging and replacing it, and nothing locks the file between. *)
(***************************************************************************)
EXTENDS Naturals, Sequences, FiniteSets, SequencesExt

CONSTANTS
  Imports,       \* the imports
  Source,        \* Source[w]: [kind, form, rows] of the file or the download
  Values,        \* what a row may hold besides its time
  Offset,        \* hours the time zone of a file is ahead of UTC
  DayLength,     \* bound: hours of a day
  Days,          \* bound: days of the store are 0..Days - 1
  BatchSize,     \* rows of a CSV handled at once
  Ranges,        \* bound: the ranges replayed, from and until
  MaxRuns        \* bound: how often imports are run, together

Kinds == {"ticks", "bars"}
StoredRow == [time : Nat, value : Values]
Day(row) == row.time \div DayLength

(* A time without a zone is a local time of the file's zone; a time with   *)
(* one and an epoch are instants.                                          *)
Utc(form, t) == IF form = "local" THEN t - Offset ELSE t

Rows(w) ==
  [i \in DOMAIN Source[w].rows |->
     [time |-> Utc(Source[w].form, Source[w].rows[i].time), value |-> Source[w].rows[i].value]]

(* Days is a bound: what is imported lies within.                          *)
ASSUME HistoryAssumption ==
  /\ DayLength \in Nat \ {0} /\ BatchSize \in Nat \ {0} /\ Days \in Nat
  /\ \A w \in Imports : /\ Source[w].kind \in Kinds
                         /\ Rows(w) \in Seq(StoredRow)
                         /\ \A i \in DOMAIN Rows(w) : Day(Rows(w)[i]) < Days
  /\ \A range \in Ranges : /\ {range[1], range[2]} \subseteq 0..(Days * DayLength)
                            /\ range[1] <= range[2]

VARIABLES
  store,         \* store[k][d]: the rows of a partition
  job,           \* job[w]: an import: where it is, rows to come, rows held
  replay,        \* the replay: its cursor, end and kind
  emitted,       \* the rows the replay has published
  log,           \* history: log[k]: rows in the order they were stored
  lost,          \* history: lost[k]: a partition changed under an import
  before         \* history: the rows in the range when the replay began

historyVars == <<store, job, replay, emitted, log, lost, before>>

HistoryTypeOK ==
  /\ \A k \in Kinds, d \in 0..(Days - 1) : \A i \in DOMAIN store[k][d] : Day(store[k][d][i]) = d
  /\ \A w \in Imports : /\ job[w].at \in {"idle", "busy", "reading", "done", "failed"}
                        /\ job[w].next \in 1..(Len(Rows(w)) + 1)
                        /\ job[w].runs \in Nat
  /\ replay.cursor \in 0..(Days * DayLength)
  /\ lost \in [Kinds -> BOOLEAN]

Off == [at |-> "idle", cursor |-> 0, end |-> 0, kind |-> "ticks", raced |-> FALSE]

HistoryInit ==
  /\ store = [k \in Kinds |-> [d \in 0..(Days - 1) |-> <<>>]]
  /\ job = [w \in Imports |-> [at |-> "idle", next |-> 1, batch |-> <<>>, held |-> <<>>, runs |-> 0]]
  /\ replay = Off /\ emitted = <<>> /\ before = {}
  /\ log = [k \in Kinds |-> <<>>] /\ lost = [k \in Kinds |-> FALSE]
-----------------------------------------------------------------------------
(* What makes two rows one: everything for ticks, the time for bars.       *)
Key(k, row) == IF k = "ticks" THEN row ELSE row.time

DuplicateCount(k, d) ==
  Len(store[k][d]) - Cardinality({Key(k, store[k][d][i]) : i \in DOMAIN store[k][d]})

Precedes(rows, i, j) ==
  \/ rows[i].time < rows[j].time
  \/ rows[i].time = rows[j].time /\ i < j

(* The members of S in the order of the pairs in earlier.                  *)
Arranged(S, earlier) ==
  CHOOSE s \in [1..Cardinality(S) -> S] :
    /\ \A i, j \in DOMAIN s : i < j => <<s[i], s[j]>> \in earlier
    /\ \A x \in S : \E i \in DOMAIN s : s[i] = x

(* (mutant) The first of the duplicates is the one kept.                   *)
SortDedupeFirst(k, rows) ==
  LET kept == {i \in DOMAIN rows : \A j \in 1..(i - 1) : Key(k, rows[j]) # Key(k, rows[i])}
      order == Arranged(kept, {p \in kept \X kept : Precedes(rows, p[1], p[2])})
  IN  [n \in DOMAIN order |-> rows[order[n]]]

(* _sort_and_dedupe(): the last of the duplicates, by time, stable.        *)
SortDedupe(k, rows) ==
  LET kept == {i \in DOMAIN rows : \A j \in (i + 1)..Len(rows) : Key(k, rows[j]) # Key(k, rows[i])}
      order == Arranged(kept, {p \in kept \X kept : Precedes(rows, p[1], p[2])})
  IN  [n \in DOMAIN order |-> rows[order[n]]]

(* The rows at the positions S, in their order.                            *)
RowsAt(rows, S) ==
  LET order == Arranged(S, {p \in S \X S : p[1] < p[2]})
  IN  [n \in DOMAIN order |-> rows[order[n]]]
-----------------------------------------------------------------------------
(* import_ticks_csv() and data_download(): a file that cannot be read, or  *)
(* a column that cannot be converted, ends the import with nothing stored. *)
ImportsBegun == FoldFunction(LAMBDA j, n : j.runs + n, 0, job)

BeginImport(w) ==
  /\ job[w].at # "busy" /\ job[w].at # "reading" /\ ImportsBegun < MaxRuns
  /\ \E at \in {"busy", "failed"} :
       job' = [job EXCEPT ![w] = [at |-> at, next |-> 1, batch |-> <<>>, held |-> <<>>, runs |-> @.runs + 1]]
  /\ UNCHANGED <<store, replay, emitted, log, lost, before>>

(* The next rows; a download is one batch.                                 *)
NextBatch(w) ==
  /\ job[w].at = "busy" /\ job[w].batch = <<>> /\ job[w].next <= Len(Rows(w))
  /\ LET size == IF Source[w].kind = "ticks" THEN BatchSize ELSE Len(Rows(w))
         last == IF job[w].next + size - 1 < Len(Rows(w)) THEN job[w].next + size - 1 ELSE Len(Rows(w))
     IN  job' = [job EXCEPT ![w].batch = SubSeq(Rows(w), job[w].next, last), ![w].next = last + 1]
  /\ UNCHANGED <<store, replay, emitted, log, lost, before>>

(* _append_day(): the partition of the first row left is read, ...         *)
ReadDay(w) ==
  /\ job[w].at = "busy" /\ job[w].batch # <<>>
  /\ job' = [job EXCEPT ![w].at = "reading", ![w].held = store[Source[w].kind][Day(Head(job[w].batch))]]
  /\ UNCHANGED <<store, replay, emitted, log, lost, before>>

(* ... and replaced, by a rename, with what was read and the day's rows.   *)
ReplaceDay(w) ==
  LET k == Source[w].kind
      d == Day(Head(job[w].batch))
      ofDay == {i \in DOMAIN job[w].batch : Day(job[w].batch[i]) = d}
      new == RowsAt(job[w].batch, ofDay)
      rest == RowsAt(job[w].batch, DOMAIN job[w].batch \ ofDay)
  IN
  /\ job[w].at = "reading"
  /\ store' = [store EXCEPT ![k][d] = SortDedupe(k, job[w].held \o new)]
  /\ job' = [job EXCEPT ![w] = [@ EXCEPT !.at = "busy", !.held = <<>>, !.batch = rest]]
  /\ log' = [log EXCEPT ![k] = @ \o new]
  /\ lost' = [lost EXCEPT ![k] = @ \/ store[k][d] # job[w].held]
  /\ replay' = [replay EXCEPT !.raced = @ \/ store[k][d] # job[w].held]
  /\ UNCHANGED <<emitted, before>>

FinishImport(w) ==
  /\ job[w].at = "busy" /\ job[w].batch = <<>> /\ job[w].next > Len(Rows(w))
  /\ job' = [job EXCEPT ![w].at = "done"]
  /\ UNCHANGED <<store, replay, emitted, log, lost, before>>

(* An import is killed; a file it was writing is never seen.               *)
KillImport(w) ==
  /\ job[w].at \in {"busy", "reading"}
  /\ job' = [job EXCEPT ![w] = [@ EXCEPT !.at = "failed", !.batch = <<>>, !.held = <<>>]]
  /\ UNCHANGED <<store, replay, emitted, log, lost, before>>
-----------------------------------------------------------------------------
(* The rows of a kind in the order of the files: by day, then by position. *)
Places(k) == UNION {{<<d, i>> : i \in DOMAIN store[k][d]} : d \in 0..(Days - 1)}

InFiles(places) ==
  {p \in places \X places : \/ p[1][1] < p[2][1]
                            \/ p[1][1] = p[2][1] /\ p[1][2] < p[2][2]}

RowsOf(k, places) ==
  LET order == Arranged(places, InFiles(places))
  IN  [n \in DOMAIN order |-> store[k][order[n][1]][order[n][2]]]

(* (mutant) The rows at the end of a range belong to it.                   *)
ReadRangeInclusive(k, from, until) ==
  RowsOf(k, {p \in Places(k) : from <= store[k][p[1]][p[2]].time /\ store[k][p[1]][p[2]].time <= until})

(* read_ticks(), read_bars()                                               *)
ReadRange(k, from, until) ==
  RowsOf(k, {p \in Places(k) : from <= store[k][p[1]][p[2]].time /\ store[k][p[1]][p[2]].time < until})

BeginReplay ==
  /\ replay.at = "idle"
  /\ \E k \in Kinds, range \in Ranges :
       /\ replay' = [at |-> "reading", cursor |-> range[1], end |-> range[2], kind |-> k, raced |-> FALSE]
       /\ before' = ToSet(ReadRange(k, range[1], range[2]))
  /\ emitted' = <<>>
  /\ UNCHANGED <<store, job, log, lost>>

(* Bars are read at once, ticks up to the next midnight; the rows of a     *)
(* chunk are published while the files may change again.                   *)
ReplayChunk ==
  LET midnight == (replay.cursor \div DayLength + 1) * DayLength
      chunkEnd == IF replay.kind = "ticks" /\ midnight < replay.end THEN midnight ELSE replay.end
  IN
  /\ replay.at = "reading" /\ replay.cursor < replay.end
  /\ emitted' = emitted \o ReadRange(replay.kind, replay.cursor, chunkEnd)
  /\ replay' = [replay EXCEPT !.cursor = chunkEnd]
  /\ UNCHANGED <<store, job, log, lost, before>>

EndReplay ==
  /\ replay.at = "reading" /\ replay.cursor = replay.end
  /\ replay' = Off /\ emitted' = <<>> /\ before' = {}
  /\ UNCHANGED <<store, job, log, lost>>

HistoryNext ==
  \/ \E w \in Imports : \/ BeginImport(w) \/ NextBatch(w) \/ ReadDay(w) \/ ReplaceDay(w)
                        \/ FinishImport(w) \/ KillImport(w)
  \/ BeginReplay \/ ReplayChunk \/ EndReplay
-----------------------------------------------------------------------------
(* A row is in its partition exactly if no later row of an import took its *)
(* place, and rows are in order of time, then of arrival.                  *)
Stands(k, i) == \A j \in (i + 1)..Len(log[k]) : Key(k, log[k][j]) # Key(k, log[k][i])

(* However imports are batched, killed and run again, as long as no two of *)
(* them replace one partition at once (_append_day() reads, merges and     *)
(* replaces without a lock): nothing is doubled or forgotten, the last row *)
(* of a key wins, and an import that ended has all its rows in.            *)
ImportKept ==
  \A k \in Kinds : ~lost[k] =>
    /\ \A d \in 0..(Days - 1) :
         LET kept == {i \in 1..Len(log[k]) : Day(log[k][i]) = d /\ Stands(k, i)}
             at(n) == CHOOSE i \in kept : log[k][i] = store[k][d][n]
         IN  /\ DuplicateCount(k, d) = 0
             /\ {log[k][i] : i \in kept} = ToSet(store[k][d])
             /\ \A m, n \in DOMAIN store[k][d] : m < n => Precedes(log[k], at(m), at(n))
    /\ \A w \in Imports : job[w].at = "done" /\ Source[w].kind = k =>
         \A i \in DOMAIN Rows(w) :
           \E row \in ToSet(store[k][Day(Rows(w)[i])]) : Key(k, row) = Key(k, Rows(w)[i])

(* A replay publishes rows in order of time, each once, and every row that *)
(* was stored when it began; rows imported meanwhile may join.             *)
ReplaySound ==
  /\ \A m, n \in DOMAIN emitted : m < n =>
       emitted[m].time <= emitted[n].time /\ Key(replay.kind, emitted[m]) # Key(replay.kind, emitted[n])
  /\ ~replay.raced => \A row \in before :
       row.time < replay.cursor => \E n \in DOMAIN emitted : Key(replay.kind, emitted[n]) = Key(replay.kind, row)

FilesSound == HistoryTypeOK /\ ImportKept
=============================================================================
