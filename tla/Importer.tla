------------------------------ MODULE Importer -------------------------------
(***************************************************************************)
(* services/archiver/src/dma.rs: the archiver's other mode, which polls a  *)
(* listing of daily dumps and loads each new one into ClickHouse.          *)
(*                                                                         *)
(* A file is the day it covers.  Importing one is a DELETE of the day's    *)
(* imported rows, an INSERT per batch of positions, an INSERT of the       *)
(* statics (one row per vessel whatever is repeated: ReplacingMergeTree)   *)
(* and an INSERT of the file's record.  Any error ends the whole poll; the *)
(* next one starts from the records.  The process may stop between any two *)
(* requests and during one.                                                *)
(*                                                                         *)
(* A request that failed for the importer (no answer within 30 s, or the   *)
(* process gone) is adrift: ClickHouse may still carry it out, or not.     *)
(* Every row of a dump is of its day.                                      *)
(***************************************************************************)
EXTENDS Integers, FiniteSets

CONSTANTS
  BackfillDays,   \* OSF_DMA_BACKFILL_DAYS
  MaxFiles,       \* OSF_DMA_MAX_FILES: per poll, 0 for no limit
  Batches,        \* bound of the model: batches of positions in a dump
  LastDay,        \* bound of the model: days
  MaxFaults       \* bound of the model: failed requests and crashes

VARIABLES
  today,
  listed,     \* the days whose dump is in the listing
  broken,     \* the days whose dump cannot be read: no CSV, other columns
  phase,      \* what the importer does next
  plan,       \* the files this poll has yet to import, newest first
  sent,       \* the batches of the newest of them that are stored
  loaded,     \* positions: how often each batch of each day is stored
  recorded,   \* dma_imports
  adrift,     \* requests given up that may still be carried out
  late,       \* history: the files for which one was, after another poll began
  faults

clickhouse == <<loaded, recorded>>
importVars == <<today, listed, broken, phase, plan, sent, loaded, recorded,
                adrift, late, faults>>

Day == 1..LastDay
Batch == 1..Batches
Request == [what : {"delete", "rows", "record"}, file : Day, batch : 0..Batches,
            stale : BOOLEAN]
Busy == {"delete", "download", "rows", "statics", "record"}

Init ==
  /\ today = 1
  /\ listed = {}
  /\ broken \in SUBSET Day
  /\ phase = "migrate"
  /\ plan = {} /\ sent = 0
  /\ loaded = [d \in Day |-> [b \in Batch |-> 0]]
  /\ recorded = {}
  /\ adrift = {} /\ late = {}
  /\ faults = 0

-----------------------------------------------------------------------------
\* The world: days pass, and a day's dump appears some time after it.

NextDay ==
  /\ today <= LastDay
  /\ today' = today + 1
  /\ UNCHANGED <<listed, broken, phase, plan, sent, clickhouse, adrift, late,
                 faults>>

Publish(d) ==
  /\ d < today /\ d \notin listed
  /\ listed' = listed \cup {d}
  /\ UNCHANGED <<today, broken, phase, plan, sent, clickhouse, adrift, late,
                 faults>>

-----------------------------------------------------------------------------
\* A poll.

\* main: the schema migrations are repeated until ClickHouse answers; then the
\* first poll is due at once.
Migrate ==
  /\ phase = "migrate"
  /\ phase' = "poll"
  /\ UNCHANGED <<today, listed, broken, plan, sent, clickhouse, adrift, late,
                 faults>>

\* plan_imports: in the window, not done, the newest MaxFiles of them.
PlanImports(files, cutoff, done) ==
  LET wanted == {d \in files : d >= cutoff /\ d \notin done}
  IN  {d \in wanted :
         MaxFiles = 0 \/ Cardinality({e \in wanted : e > d}) < MaxFiles}

\* Mutation: sorted, and not reversed.
Oldest(files) == CHOOSE d \in files : \A e \in files : d <= e

\* The order of the plan.
Newest(files) == CHOOSE d \in files : \A e \in files : e <= d
File == Newest(plan)

\* The poll ends; the next one is due after the interval.
EndPoll == phase' = "poll" /\ plan' = {} /\ sent' = 0

\* Nothing that is adrift was sent by the poll that begins.
Poll ==
  /\ phase = "poll"
  /\ plan' = PlanImports(listed, today - BackfillDays, recorded)
  /\ phase' = IF plan' = {} THEN "poll" ELSE "delete"
  /\ adrift' = {[r EXCEPT !.stale = TRUE] : r \in adrift}
  /\ UNCHANGED <<today, listed, broken, sent, clickhouse, late, faults>>

-----------------------------------------------------------------------------
\* Importing the newest file of the plan.

\* What ClickHouse does with a request.
CarryOut(what, file, batch) ==
  CASE what = "delete" -> /\ loaded' = [loaded EXCEPT ![file] = [b \in Batch |-> 0]]
                          /\ UNCHANGED recorded
    [] what = "rows"   -> /\ loaded' = [loaded EXCEPT ![file][batch] = @ + 1]
                          /\ UNCHANGED recorded
    [] what = "record" -> /\ recorded' = recorded \cup {file}
                          /\ UNCHANGED loaded

GiveUp(what, file, batch) ==
  \/ UNCHANGED adrift
  \/ adrift' = adrift \cup
                 {[what |-> what, file |-> file, batch |-> batch, stale |-> FALSE]}

Fault == faults < MaxFaults /\ faults' = faults + 1
NoFault == UNCHANGED faults

\* A request that is answered, and one that is not.
Answered(what, batch) ==
  /\ CarryOut(what, File, batch)
  /\ NoFault
  /\ UNCHANGED adrift

Failed(what, batch) ==
  /\ Fault
  /\ GiveUp(what, File, batch)
  /\ EndPoll
  /\ UNCHANGED clickhouse

\* Mutation: a day that is not recorded needs no clearing.
SkipDelete ==
  /\ phase = "delete"
  /\ phase' = "download"
  /\ UNCHANGED <<today, listed, broken, plan, sent, clickhouse, adrift, late,
                 faults>>

Delete ==
  /\ phase = "delete"
  /\ \/ /\ Answered("delete", 0)
        /\ phase' = "download"
        /\ UNCHANGED <<plan, sent>>
     \/ Failed("delete", 0)
  /\ UNCHANGED <<today, listed, broken, late>>

\* import_file up to the first row: the download, the archive, the header.
Download ==
  /\ phase = "download"
  /\ \/ /\ File \notin broken
        /\ phase' = "rows"
        /\ UNCHANGED <<plan, sent, faults>>
     \/ /\ File \in broken
        /\ EndPoll
        /\ NoFault
     \/ Fault /\ EndPoll
  /\ UNCHANGED <<today, listed, broken, clickhouse, adrift, late>>

\* The next batch of positions.
InsertRows ==
  /\ phase = "rows"
  /\ \/ /\ Answered("rows", sent + 1)
        /\ sent' = sent + 1
        /\ phase' = IF sent' = Batches THEN "statics" ELSE "rows"
        /\ UNCHANGED plan
     \/ Failed("rows", sent + 1)
  /\ UNCHANGED <<today, listed, broken, late>>

InsertStatics ==
  /\ phase = "statics"
  /\ \/ phase' = "record" /\ NoFault /\ UNCHANGED <<plan, sent>>
     \/ Fault /\ EndPoll
  /\ UNCHANGED <<today, listed, broken, clickhouse, adrift, late>>

\* The record, and on to the next file.
Record ==
  /\ phase = "record"
  /\ \/ /\ Answered("record", 0)
        /\ IF plan = {File}
             THEN EndPoll
             ELSE phase' = "delete" /\ plan' = plan \ {File} /\ sent' = 0
     \/ Failed("record", 0)
  /\ UNCHANGED <<today, listed, broken, late>>

-----------------------------------------------------------------------------
\* Faults.

\* The process stops, possibly with its request sent.
Crash ==
  /\ phase # "down"
  /\ Fault
  /\ phase' = "down" /\ plan' = {} /\ sent' = 0
  /\ CASE phase \in {"delete", "record"} -> GiveUp(phase, File, 0)
       [] phase = "rows"                 -> GiveUp("rows", File, sent + 1)
       [] OTHER                          -> UNCHANGED adrift
  /\ UNCHANGED <<today, listed, broken, clickhouse, late>>

\* It is started again.
Restart ==
  /\ phase = "down"
  /\ phase' = "migrate"
  /\ UNCHANGED <<today, listed, broken, plan, sent, clickhouse, adrift, late,
                 faults>>

Land(r) ==
  /\ CarryOut(r.what, r.file, r.batch)
  /\ adrift' = adrift \ {r}
  /\ late' = IF r.stale THEN late \cup {r.file} ELSE late
  /\ UNCHANGED <<today, listed, broken, phase, plan, sent, faults>>

Work ==
  Migrate \/ Poll \/ Delete \/ Download \/ InsertRows \/ InsertStatics \/ Record

Next ==
  \/ NextDay \/ \E d \in Day : Publish(d)
  \/ Work
  \/ Crash \/ Restart \/ \E r \in adrift : Land(r)

Spec == Init /\ [][Next]_importVars

\* The loop polls for ever, the process is restarted when it stops, and faults
\* are bounded.
FairSpec == Spec /\ WF_importVars(Work) /\ WF_importVars(Restart)

-----------------------------------------------------------------------------
\* Properties.

ImportTypeOK ==
  /\ today \in 1..(LastDay + 1)
  /\ listed \subseteq Day /\ broken \subseteq Day /\ recorded \subseteq Day
  /\ phase \in Busy \cup {"migrate", "poll", "down"}
  /\ plan \subseteq Day /\ (phase \in Busy <=> plan # {})
  /\ sent \in 0..Batches
  /\ loaded \in [Day -> [Batch -> Nat]]
  /\ adrift \subseteq Request /\ late \subseteq Day
  /\ faults \in 0..MaxFaults

\* "Processed files are tracked in dma_imports, so restarts and re-polls are
\* idempotent": a recorded day is in the archive once, every batch of it, in
\* whatever order requests failed and the process stopped; except where
\* ClickHouse carried out a request so late that another poll had begun.
ImportedOnce ==
  \A d \in recorded \ late : \A b \in Batch : loaded[d][b] = 1

\* Every dump that can be read gets in, or leaves the window, as long as no
\* newer one is unreadable: that one would end every poll before its turn.
BacklogDrains ==
  \A d \in Day :
    d \in listed /\ d \notin broken /\ (\A e \in broken : e < d)
      ~> d \in recorded \/ d < today - BackfillDays
=============================================================================
