------------------------ MODULE EnvironmentInventory ------------------------
(***************************************************************************)
(* The host inventory (environment_runtime.py, environment_contracts.py):   *)
(* processes scan the machine, and each records its scan under a lock of    *)
(* the database.  The records of a scan are independent durable writes; the *)
(* transition that is staged before them lets whoever comes next finish     *)
(* what a dead recorder began.                                              *)
(*                                                                          *)
(* Scans are numbered by observed_at.  There is one provider, whose report  *)
(* is complete or partial; a scan carries no sensor readings, so that its   *)
(* percept is about changes.  The provider's own percept intake is one      *)
(* durable step here (SituationIntake has its inside).                      *)
(***************************************************************************)
EXTENDS Naturals, Sequences

CONSTANTS
    Scanners,       \* processes that scan and record
    Resources,      \* resources a scan may find
    LastScan,       \* scans are 1 .. LastScan
    MaxScanDeaths,  \* bound on the deaths of recorders
    NoRecorder

Scans == 1 .. LastScan
Reports == [complete : BOOLEAN, found : SUBSET Resources]

ASSUME InventoryAssumption == LastScan \in Nat /\ MaxScanDeaths \in Nat /\ NoRecorder \notin Scanners

VARIABLES
    reports,    \* the reports of the scans taken so far
    hand,       \* [Scanners -> the scan it records and how far it is]
    envLock,    \* record_lock of the host
    envMap,     \* head of environment_map
    staged,     \* head of environment_transition: the scan, or 0
    newMap,     \* the map the staged transition carries
    news,       \* whether the staged transition carries changes
    latest,     \* head of environment_latest: the scan, or 0
    scanned,    \* scans with an environment_receipt
    told,       \* scans whose percept was taken in
    transitions,\* history of environment_transition: each scan staged, and its map
    scanDeaths

inventoryVars ==
    <<reports, hand, envLock, envMap, staged, newMap, news, latest, scanned, told, transitions, scanDeaths>>

NoMap == [presence |-> [x \in Resources |-> "NONE"], complete |-> TRUE]
AtEase == [at |-> "idle", scan |-> 0, step |-> 0]

InventoryInit ==
    /\ reports = <<>>
    /\ hand = [p \in Scanners |-> AtEase]
    /\ envLock = NoRecorder
    /\ envMap = NoMap /\ newMap = NoMap
    /\ staged = 0 /\ latest = 0
    /\ news = FALSE
    /\ scanned = {} /\ told = {}
    /\ transitions = <<>>
    /\ scanDeaths = 0
-----------------------------------------------------------------------------
(* reconcile_environment: only a complete report establishes that something  *)
(* is gone, and a failed one does not bring it back.                         *)
Presence(old, x, report) ==
    IF x \in report.found THEN "PRESENT"
    ELSE IF old = "NONE" \/ old = "ABSENT" THEN old
    ELSE IF report.complete THEN "ABSENT" ELSE "UNKNOWN"

Reconcile(map, report) ==
    [presence |-> [x \in Resources |-> Presence(map.presence[x], x, report)],
     complete |-> report.complete]
-----------------------------------------------------------------------------
Kept == UNCHANGED <<reports, envMap, staged, newMap, news, latest, scanned, told, transitions, scanDeaths>>

(* scan_environment; the recorder then waits for the lock. *)
TakeScan(p, report) ==
    /\ hand[p].at = "idle"
    /\ Len(reports) < LastScan
    /\ reports' = Append(reports, report)
    /\ hand' = [hand EXCEPT ![p] = [AtEase EXCEPT !.at = "locking", !.scan = Len(reports) + 1]]
    /\ UNCHANGED <<envLock, envMap, staged, newMap, news, latest, scanned, told, transitions, scanDeaths>>

(* The exact scan is recorded again. *)
RetryScan(p, s) ==
    /\ hand[p].at = "idle"
    /\ hand' = [hand EXCEPT ![p] = [AtEase EXCEPT !.at = "locking", !.scan = s]]
    /\ UNCHANGED envLock /\ Kept

LockHost(p) ==
    /\ hand[p].at = "locking"
    /\ envLock = NoRecorder
    /\ envLock' = p
    /\ hand' = [hand EXCEPT ![p] = [@ EXCEPT !.at = "begin"]]
    /\ Kept

Leave(p) ==
    /\ hand' = [hand EXCEPT ![p] = AtEase]
    /\ envLock' = NoRecorder
    /\ Kept

(* A mutant of BeginRecord: what is pending is not looked at. *)
BeginWithoutPending(p) ==
    /\ hand[p].at = "begin"
    /\ \/ hand[p].scan \in scanned /\ Leave(p)
       \/ hand[p].scan \notin scanned
          /\ hand' = [hand EXCEPT ![p] = [@ EXCEPT !.at = "judge"]] /\ UNCHANGED envLock /\ Kept

(* record_environment_scan: done already, or an unfinished transition is     *)
(* completed first.                                                          *)
BeginRecord(p) ==
    LET pending == staged # 0 /\ staged \notin scanned IN
    /\ hand[p].at = "begin"
    /\ \/ hand[p].scan \in scanned /\ Leave(p)
       \/ hand[p].scan \notin scanned /\ pending
          /\ hand' = [hand EXCEPT ![p] = [@ EXCEPT !.at = "write", !.step = 1]] /\ UNCHANGED envLock /\ Kept
       \/ hand[p].scan \notin scanned /\ ~pending
          /\ hand' = [hand EXCEPT ![p] = [@ EXCEPT !.at = "judge"]] /\ UNCHANGED envLock /\ Kept

StageScan(p) ==
    LET s == hand[p].scan
        map == Reconcile(envMap, reports[s])
    IN  /\ staged' = s
        /\ newMap' = map
        /\ news' = (map.presence # envMap.presence)
        /\ transitions' = Append(transitions, [scan |-> s, map |-> map])
        /\ hand' = [hand EXCEPT ![p] = [@ EXCEPT !.at = "write", !.step = 1]]
        /\ UNCHANGED <<reports, envLock, envMap, latest, scanned, told, scanDeaths>>

(* A mutant of JudgeScan: a late scan is recorded like any other. *)
JudgeAnyScan(p) == hand[p].at = "judge" /\ StageScan(p)

(* A scan that is not newer than the latest is refused; else the transition  *)
(* is staged.                                                                *)
JudgeScan(p) ==
    /\ hand[p].at = "judge"
    /\ \/ hand[p].scan <= latest /\ Leave(p)
       \/ hand[p].scan > latest /\ StageScan(p)

(* A mutant of Writes: the receipt is given before the percept. *)
WritesReceiptEarly == <<"map", "posture", "latest", "receipt", "percept">>

(* The writes of _complete_transition, in their order. *)
Writes == <<"map", "posture", "percept", "latest", "receipt">>

WriteNext(p) ==
    LET write == Writes[hand[p].step] IN
    /\ hand[p].at = "write"
    /\ envMap' = IF write = "map" THEN newMap ELSE envMap
    /\ told' = IF write = "percept" /\ news THEN told \cup {staged} ELSE told
    /\ latest' = IF write = "latest" THEN staged ELSE latest
    /\ scanned' = IF write = "receipt" THEN scanned \cup {staged} ELSE scanned
    /\ hand' = [hand EXCEPT ![p] =
                   IF hand[p].step < Len(Writes) THEN [@ EXCEPT !.step = hand[p].step + 1]
                   ELSE IF hand[p].scan = staged THEN [@ EXCEPT !.at = "leave"]
                   ELSE [@ EXCEPT !.at = "judge"]]
    /\ UNCHANGED <<reports, envLock, staged, newMap, news, transitions, scanDeaths>>

EndRecord(p) == hand[p].at = "leave" /\ Leave(p)

(* A dead recorder's session lock is released. *)
RecorderDies(p) ==
    /\ scanDeaths < MaxScanDeaths
    /\ hand[p].at # "idle"
    /\ hand' = [hand EXCEPT ![p] = AtEase]
    /\ envLock' = IF envLock = p THEN NoRecorder ELSE envLock
    /\ scanDeaths' = scanDeaths + 1
    /\ UNCHANGED <<reports, envMap, staged, newMap, news, latest, scanned, told, transitions>>

InventoryNext ==
    \E p \in Scanners :
        \/ \E report \in Reports : TakeScan(p, report)
        \/ \E s \in 1 .. Len(reports) : RetryScan(p, s)
        \/ LockHost(p) \/ BeginRecord(p) \/ JudgeScan(p) \/ WriteNext(p) \/ EndRecord(p)
        \/ RecorderDies(p)
-----------------------------------------------------------------------------
InventorySpec == InventoryInit /\ [][InventoryNext]_inventoryVars

Unfinished == staged # 0 /\ staged \notin scanned

(* The map after the first n transitions. *)
MapAfter(n) == IF n = 0 THEN NoMap ELSE transitions[n].map

(* Whatever recorders die and whoever completes what they began, every map   *)
(* is made of the one before and its own scan, none left out, and the        *)
(* current one is the last of them or, while that is being completed, the    *)
(* one before.                                                               *)
MapFoldsHistory ==
    /\ \A i \in 1 .. Len(transitions) :
          transitions[i].map = Reconcile(MapAfter(i - 1), reports[transitions[i].scan])
    /\ \/ envMap = MapAfter(Len(transitions))
       \/ Unfinished /\ envMap = MapAfter(Len(transitions) - 1)

(* "Late scans cannot roll the topology back, and exact retries cannot       *)
(* duplicate": scans enter the map once each and in the order of their       *)
(* observation, however long they waited for the lock.                       *)
ScansEnterInOrder ==
    \A i, j \in 1 .. Len(transitions) : i < j => transitions[i].scan < transitions[j].scan

(* A receipt is the last thing written: a scan that has one had its changes  *)
(* told as a percept, and the latest receipt is at least as new.             *)
ReceiptIsLast ==
    \A i \in 1 .. Len(transitions) :
        LET s == transitions[i].scan IN
        s \in scanned =>
            /\ latest >= s
            /\ MapAfter(i).presence # MapAfter(i - 1).presence => s \in told

(* The inventory is what the recorded scans add up to, each once and in      *)
(* order, and a receipt means that all of a scan is recorded.                *)
InventoryFollowsScans == MapFoldsHistory /\ ScansEnterInOrder /\ ReceiptIsLast
=============================================================================
