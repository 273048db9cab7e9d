--------------------------- MODULE ArchiverService ---------------------------
(***************************************************************************)
(* services/archiver/src/main.rs, main: one binary, two jobs.  Its first   *)
(* argument decides whether a process archives the live stream (Archiver)  *)
(* or imports daily dumps (Importer).  The two share only ClickHouse,      *)
(* where an import never touches a row of the live stream: a behaviour is  *)
(* about one process.                                                      *)
(***************************************************************************)
EXTENDS Archiver

CONSTANTS BackfillDays, MaxFiles, Batches, LastDay, MaxFaults

ASSUME ImporterAssumption == BackfillDays \in Nat /\ MaxFiles \in Nat
ASSUME ImporterBounds ==
  Batches \in Nat \ {0} /\ LastDay \in Nat /\ MaxFaults \in Nat

VARIABLES today, listed, broken, phase, plan, sent, loaded, recorded, adrift,
          late, faults

VARIABLE job   \* "archive" or "import", from the command line

Import == INSTANCE Importer
importVars == <<today, listed, broken, phase, plan, sent, loaded, recorded,
                adrift, late, faults>>
serviceVars == <<vars, importVars, job>>

ServiceInit ==
  /\ job \in {"archive", "import"}
  /\ Init
  /\ Import!Init
  /\ job = "archive" => broken = {}

Archive == job = "archive" /\ Next /\ UNCHANGED <<importVars, job>>
ImportDumps == job = "import" /\ Import!Next /\ UNCHANGED <<vars, job>>

ServiceNext == Archive \/ ImportDumps

ServiceSpec == ServiceInit /\ [][ServiceNext]_serviceVars

\* The process runs, and is restarted when it stops.  For either job exactly
\* one kind of step is enabled at a time, so one condition stands for the
\* fairness of both modules.
Progress ==
  \/ job = "archive" /\ (Flush \/ FlushTick) /\ UNCHANGED <<importVars, job>>
  \/ job = "import" /\ (Import!Work \/ Import!Restart) /\ UNCHANGED <<vars, job>>

FairServiceSpec == ServiceSpec /\ WF_serviceVars(Progress)

-----------------------------------------------------------------------------
\* Properties.

\* Importer.ImportedOnce: "restarts and re-polls are idempotent" (dma.rs).
ImportedOnce == Import!ImportedOnce

\* Importer.BacklogDrains: "older backlog files follow" (dma.rs), unless a
\* newer file is unreadable.
BacklogDrains == Import!BacklogDrains
=============================================================================
