------------------------------ MODULE UsageLog ------------------------------
(***************************************************************************)
(* The desktop gateway's usage log, internal/usage/service.go: records and *)
(* prices in memory, and usage_records.json, to which a request's record   *)
(* is appended and which pricing changes and compaction rewrite. All       *)
(* operations hold Service.mu; what interleaves with them is the end of    *)
(* the process and a write that fails or stops half way, whose errors the  *)
(* code ignores.                                                           *)
(***************************************************************************)
EXTENDS Naturals, Sequences, FiniteSets

CONSTANTS
    MaxRecords,     \* maxRecords: how many records are kept
    InitialFiles,   \* what an installation may find on disk
    WriteOutcomes,  \* how the write of an appended line may end
    LastMonth,      \* bound: months that pass
    MaxSerial       \* bound: requests recorded

Outcomes == {"whole", "nothing", "cut", "unterminated"}

Record == [serial : 0 .. MaxSerial, month : 0 .. LastMonth]

(***************************************************************************)
(* form: "log" is one JSON object per line, "legacy" the pretty-printed    *)
(* snapshot of older builds, "garbled" what neither parser accepts;        *)
(* terminated: the last line ends with a newline.                          *)
(***************************************************************************)
File == [form : {"absent", "log", "legacy", "garbled"}, recs : Seq(Record),
         priced : BOOLEAN, terminated : BOOLEAN]

NoFile == [form |-> "absent", recs |-> <<>>, priced |-> FALSE, terminated |-> TRUE]

ConstantsOK ==
    /\ MaxRecords \in Nat \ {0} /\ LastMonth \in Nat /\ MaxSerial \in Nat
    /\ WriteOutcomes \subseteq Outcomes
    /\ InitialFiles \subseteq File

VARIABLES
    up,         \* the process runs
    records,    \* Service.records; of a process that has ended, its last ones
    priced,     \* Service.pricing is not empty
    file,       \* usage_records.json
    month,      \* the calendar month
    serial,     \* number of requests recorded so far
    whole,      \* history: no write has failed since the file was last rewritten
    recorded    \* history: requests of this month that the disk had a chance to keep

vars == <<up, records, priced, file, month, serial, whole, recorded>>

-----------------------------------------------------------------------------
(* What load and parseJSONL make of a file: a single bad line rejects all. *)
Loaded(f) ==
    IF f.form \in {"log", "legacy"} THEN [recs |-> f.recs, priced |-> f.priced]
    ELSE [recs |-> <<>>, priced |-> FALSE]

(* persist: the whole log, written beside the file and renamed over it. *)
Persisted(recs, prices) ==
    [form |-> "log", recs |-> recs, priced |-> prices, terminated |-> TRUE]

(* appendRecordLocked, with how its write ended. A line put after one that *)
(* has no newline, or after a snapshot, makes the whole file unreadable.   *)
Appended(f, r, outcome) ==
    CASE outcome = "nothing" -> f
      [] outcome # "nothing" /\ f.form \in {"absent", "log"} /\ f.terminated
                             /\ outcome # "cut" ->
            [f EXCEPT !.form = "log", !.recs = Append(@, r),
                      !.terminated = (outcome = "whole")]
      [] OTHER -> [form |-> "garbled", recs |-> <<>>, priced |-> FALSE, terminated |-> FALSE]

(* GetUsageSummary: the requests of this month, each of cost one. *)
MonthCost == Cardinality({i \in DOMAIN records : records[i].month = month})

(* Mutant of Newest: compaction keeps the oldest. *)
Oldest(s, n) == SubSeq(s, 1, n)

(* Mutant of Newest: one too many. *)
NewestAndOne(s, n) == SubSeq(s, Len(s) - n, Len(s))

(* The last n of a sequence. *)
Newest(s, n) == SubSeq(s, Len(s) - n + 1, Len(s))

-----------------------------------------------------------------------------
Init ==
    /\ up = FALSE
    /\ file \in InitialFiles
    /\ records = Loaded(file).recs
    /\ priced = FALSE
    /\ month = 0
    /\ serial = Len(records)
    /\ whole = TRUE
    /\ recorded = MonthCost

(* Rewrite the file, or fail to, which persist ignores; the old file is    *)
(* then still there.                                                       *)
Persist(recs, prices) ==
    \/ file' = Persisted(recs, prices) /\ whole' = TRUE
    \/ "nothing" \in WriteOutcomes /\ file' = file /\ whole' = FALSE

(* NewService: load, and if there are no prices install the default ones,  *)
(* which rewrites the file with the records that were loaded.              *)
Boot ==
    /\ ~up
    /\ up' = TRUE
    /\ priced' = TRUE
    /\ records' = Loaded(file).recs
    /\ IF Loaded(file).priced THEN UNCHANGED <<file, whole>>
       ELSE Persist(Loaded(file).recs, TRUE)
    /\ recorded' = IF whole THEN recorded
                   ELSE Cardinality({i \in DOMAIN records' : records'[i].month = month})
    /\ UNCHANGED <<month, serial>>

(* RecordUsageV2: append in memory; when there are too many drop the       *)
(* oldest and rewrite the file, otherwise append one line.                 *)
RecordUsage ==
    /\ up
    /\ serial < MaxSerial
    /\ LET r == [serial |-> serial + 1, month |-> month]
           all == Append(records, r)
       IN IF Len(all) > MaxRecords
          THEN /\ records' = Newest(all, MaxRecords)
               /\ Persist(records', priced)
          ELSE /\ records' = all
               /\ \E outcome \in WriteOutcomes :
                     /\ file' = Appended(file, r, outcome)
                     /\ whole' = (whole /\ outcome = "whole")
    /\ serial' = serial + 1
    /\ recorded' = recorded + 1
    /\ UNCHANGED <<up, priced, month>>

(* SavePricing: rewrite the file. An empty list of prices is written too,  *)
(* and the next boot installs the default ones.                            *)
SavePricing ==
    /\ up
    /\ \E prices \in BOOLEAN : priced' = prices /\ Persist(records, prices)
    /\ UNCHANGED <<up, records, month, serial, recorded>>

(* The process ends, by a quit or a crash: nothing is saved on the way out. *)
ProcessEnds ==
    /\ up
    /\ up' = FALSE
    /\ UNCHANGED <<records, priced, file, month, serial, whole, recorded>>

MonthEnds ==
    /\ month < LastMonth
    /\ month' = month + 1
    /\ recorded' = 0
    /\ UNCHANGED <<up, records, priced, file, serial, whole>>

Next == Boot \/ RecordUsage \/ SavePricing \/ ProcessEnds \/ MonthEnds

Spec == Init /\ [][Next]_vars

-----------------------------------------------------------------------------
TypeOK ==
    /\ up \in BOOLEAN /\ priced \in BOOLEAN /\ whole \in BOOLEAN
    /\ records \in Seq(Record) /\ Len(records) <= MaxRecords
    /\ file \in File
    /\ month \in 0 .. LastMonth /\ serial \in 0 .. MaxSerial /\ recorded \in 0 .. MaxSerial

(* The month's cost, against which admission checks the cost limit, counts *)
(* every request of the month as long as the log need not be compacted     *)
(* within it: neither restarts, failed writes, new prices nor a change of  *)
(* month lose or count twice one that was in memory or whole on disk.      *)
MonthCostExact == up /\ recorded <= MaxRecords => MonthCost = recorded

(* The files that this build leaves behind, before the first month ends. *)
OwnFiles ==
    \A f \in InitialFiles :
        /\ f.form \in {"absent", "log"} /\ f.terminated /\ (f.form = "absent" => f.recs = <<>>)
        /\ Len(f.recs) <= MaxRecords /\ Len(f.recs) <= MaxSerial
        /\ \A i \in 1 .. Len(f.recs) : f.recs[i].month = 0

(* Why it holds: records are in the order of their months, none of a month *)
(* to come, in memory and on disk; ...                                     *)
InOrder(s) ==
    \A i \in 1 .. Len(s) : s[i].month <= month /\ \A j \in 1 .. i : s[j].month <= s[i].month
Ordered == InOrder(records) /\ InOrder(file.recs)

(* ... this month's are the newest, and missing ones were compacted; ... *)
MonthIsNewest ==
    /\ \A i \in 1 .. Len(records) : (records[i].month = month) <=> (i + recorded > Len(records))
    /\ recorded <= Len(records) \/ Len(records) = MaxRecords

(* ... and the file never has more than memory, and as long as no write    *)
(* has failed it has the same, in a form that a line can be put after.     *)
FileFollows ==
    /\ Len(file.recs) <= Len(records) /\ Len(records) <= serial /\ recorded <= serial
    /\ file.form \in {"absent", "log", "garbled"} /\ (file.form # "log" => file.recs = <<>>)
    /\ whole => file.recs = records /\ file.form # "garbled" /\ file.terminated

LogInv == TypeOK /\ Ordered /\ MonthIsNewest /\ FileFollows

(* A restart brings back exactly the records the last process had, unless  *)
(* a write of its own failed. It is stated of files this build has         *)
(* written: after a legacy snapshot the first appended line loses all.     *)
KeepsRecords == ~up /\ up' /\ whole => records' = records
RestartKeepsRecords == [][KeepsRecords]_vars

=============================================================================
