---------------------------- MODULE EventJournal ----------------------------
(***************************************************************************)
(* Canonical events and their mirror on disk: event_store.record_event,     *)
(* the append-only files of event_artifact_store.py and percept_journal.py, *)
(* the artifact chain of an interaction, and restore-events after the       *)
(* database is lost.                                                        *)
(*                                                                          *)
(* An event belongs to one conversation; its record is written before the   *)
(* database commits and its commit entry after.  A file is a sequence of    *)
(* whole lines and at most one torn line at its end.  The events of a       *)
(* percept share one file with the artifacts of its interaction.            *)
(***************************************************************************)
EXTENDS Naturals, Sequences, FiniteSets, FiniteSetsExt

CONSTANTS
    Events,         \* events with deterministic identities, one conversation
    Scoped,         \* those that go to the file of the percept
    Keys,           \* artifact keys of the interaction
    Recorders,      \* processes that record events
    NoEvent,
    MaxFaults       \* bound: deaths, torn lines and lost databases

ASSUME JournalAssumption ==
    /\ IsFiniteSet(Events)
    /\ Scoped \subseteq Events
    /\ NoEvent \notin Events
    /\ MaxFaults \in Nat

VARIABLES
    db,         \* the events table: conversation_seq and global_seq, 0 without a row
    nextSeq,    \* conversations.next_event_seq
    nextGlobal, \* the sequence behind global_seq
    files,      \* the lines of each file and its torn tail
    recorder,   \* what each process is doing
    faults

journalVars == <<db, nextSeq, nextGlobal, files, recorder, faults>>

Percept == "percept"
Names == {Percept} \cup (Events \ Scoped)
HomeOf(e) == IF e \in Scoped THEN Percept ELSE e

NoRow == [cseq |-> 0, gseq |-> 0]

RecordLine(e, cseq) == [kind |-> "record", of |-> e, cseq |-> cseq, gseq |-> 0]
CommitLine(e, row) == [kind |-> "commit", of |-> e, cseq |-> row.cseq, gseq |-> row.gseq]
ArtifactLine(key) == [kind |-> "artifact", of |-> key, cseq |-> 0, gseq |-> 0]
NoLine == [kind |-> "none", of |-> NoEvent, cseq |-> 0, gseq |-> 0]

LinesOf(f) == {files[f].lines[i] : i \in DOMAIN files[f].lines}
Recorded(e) == {l \in LinesOf(HomeOf(e)) : l.kind = "record" /\ l.of = e}
Receipts(e) == {l \in LinesOf(HomeOf(e)) : l.kind = "commit" /\ l.of = e}
Torn(f) == files[f].tail # NoLine
HasRow(e) == db[e] # NoRow

IdleRecorder == [at |-> "idle", event |-> NoEvent, row |-> NoRow]

JournalInit ==
    /\ db = [e \in Events |-> NoRow]
    /\ nextSeq = 1
    /\ nextGlobal = 1
    /\ files = [f \in Names |-> [lines |-> <<>>, tail |-> NoLine]]
    /\ recorder = [r \in Recorders |-> IdleRecorder]
    /\ faults = 0

JournalTypeOK ==
    /\ \A e \in Events : db[e].cseq \in 0 .. nextSeq - 1 /\ db[e].gseq \in 0 .. nextGlobal - 1
    /\ nextSeq \in Nat \ {0} /\ nextGlobal \in Nat \ {0}
    /\ DOMAIN files = Names
    /\ \A r \in Recorders :
          /\ recorder[r].at \in {"idle", "checked", "allocated", "journaled", "mirroring", "committed"}
          /\ recorder[r].event \in Events \cup {NoEvent}
    /\ faults \in 0 .. MaxFaults
-----------------------------------------------------------------------------
(* record_event. *)

Turns(r, at, e, row) ==
    recorder' = [recorder EXCEPT ![r] = [at |-> at, event |-> e, row |-> row]]

Fails(r) == recorder' = [recorder EXCEPT ![r] = IdleRecorder]

(* The row lock on the conversation is held from the allocation of the      *)
(* sequence number to the end of the transaction.                           *)
ConversationLocked == \E r \in Recorders : recorder[r].at \in {"allocated", "journaled"}

(* An event that has a row goes on to repair its mirror. *)
LookUp(r, e) ==
    /\ recorder[r].at = "idle"
    /\ IF HasRow(e) THEN Turns(r, "mirroring", e, db[e]) ELSE Turns(r, "checked", e, NoRow)
    /\ UNCHANGED <<db, nextSeq, nextGlobal, files, faults>>

Allocate(r) ==
    /\ recorder[r].at = "checked"
    /\ ~ConversationLocked
    /\ Turns(r, "allocated", recorder[r].event, [cseq |-> nextSeq, gseq |-> 0])
    /\ UNCHANGED <<db, nextSeq, nextGlobal, files, faults>>

Appended(f, line) == [files EXCEPT ![f].lines = Append(@, line)]

(* write_event_record: a record with the same content is a retry, another   *)
(* one, in its sequence number too, is a conflict; a torn line stops a new  *)
(* entry of the shared file.                                                *)
RecordAccepted(e, cseq) ==
    IF Recorded(e) # {} THEN Recorded(e) = {RecordLine(e, cseq)} ELSE ~Torn(HomeOf(e))

WithRecord(e, cseq) ==
    IF Recorded(e) # {} THEN files ELSE Appended(HomeOf(e), RecordLine(e, cseq))

WriteRecord(r) ==
    LET e == recorder[r].event
        row == recorder[r].row
    IN  /\ recorder[r].at \in {"allocated", "mirroring"}
        /\ IF RecordAccepted(e, row.cseq)
           THEN /\ files' = WithRecord(e, row.cseq)
                /\ Turns(r, IF recorder[r].at = "allocated" THEN "journaled" ELSE "committed",
                         e, row)
           ELSE Fails(r) /\ UNCHANGED files
        /\ UNCHANGED <<db, nextSeq, nextGlobal, faults>>

CommitWithoutRecord(r) ==
    LET e == recorder[r].event
        row == [cseq |-> recorder[r].row.cseq, gseq |-> nextGlobal]
    IN  /\ recorder[r].at \in {"allocated", "journaled"}
        /\ ~HasRow(e)
        /\ db' = [db EXCEPT ![e] = row]
        /\ nextSeq' = nextSeq + 1
        /\ nextGlobal' = nextGlobal + 1
        /\ Turns(r, "committed", e, row)
        /\ UNCHANGED <<files, faults>>

(* The row and the advanced sequence become visible together. *)
CommitRow(r) ==
    LET e == recorder[r].event
        row == [cseq |-> recorder[r].row.cseq, gseq |-> nextGlobal]
    IN  /\ recorder[r].at = "journaled"
        /\ ~HasRow(e)
        /\ db' = [db EXCEPT ![e] = row]
        /\ nextSeq' = nextSeq + 1
        /\ nextGlobal' = nextGlobal + 1
        /\ Turns(r, "committed", e, row)
        /\ UNCHANGED <<files, faults>>

(* The primary key refuses a row that restore-events has put there. *)
CommitCollides(r) ==
    /\ recorder[r].at = "journaled"
    /\ HasRow(recorder[r].event)
    /\ Fails(r)
    /\ UNCHANGED <<db, nextSeq, nextGlobal, files, faults>>

AppendReceiptAgain(r) ==
    LET e == recorder[r].event
    IN  /\ recorder[r].at = "committed"
        /\ files' = [files EXCEPT ![HomeOf(e)] =
                        [lines |-> Append(@.lines, CommitLine(e, recorder[r].row)), tail |-> NoLine]]
        /\ Fails(r)
        /\ UNCHANGED <<db, nextSeq, nextGlobal, faults>>

RefuseTornReceipt(r) ==
    LET e == recorder[r].event
        f == HomeOf(e)
        line == CommitLine(e, recorder[r].row)
    IN  /\ recorder[r].at = "committed"
        /\ IF /\ Recorded(e) = {RecordLine(e, line.cseq)}
              /\ Receipts(e) = {}
              /\ ~Torn(f)
           THEN files' = Appended(f, line)
           ELSE UNCHANGED files
        /\ Fails(r)
        /\ UNCHANGED <<db, nextSeq, nextGlobal, faults>>

(* write_event_commit under the lock of the file: the entry that is there   *)
(* must be the same, and a torn line is completed only when it is the       *)
(* beginning of this entry.                                                 *)
WriteReceipt(r) ==
    LET e == recorder[r].event
        f == HomeOf(e)
        line == CommitLine(e, recorder[r].row)
    IN  /\ recorder[r].at = "committed"
        /\ IF /\ Recorded(e) = {RecordLine(e, line.cseq)}
              /\ Receipts(e) = {}
              /\ files[f].tail \in {NoLine, line}
           THEN files' = [files EXCEPT ![f] = [lines |-> Append(@.lines, line), tail |-> NoLine]]
           ELSE UNCHANGED files
        /\ Fails(r)
        /\ UNCHANGED <<db, nextSeq, nextGlobal, faults>>
-----------------------------------------------------------------------------
(* write_interaction_artifact under the lock of the percept's file: the     *)
(* same key again adds nothing, and nothing is added behind a torn line.    *)
WriteInteractionArtifact(key) ==
    /\ ~Torn(Percept)
    /\ ~\E l \in LinesOf(Percept) : l.kind = "artifact" /\ l.of = key
    /\ files' = Appended(Percept, ArtifactLine(key))
    /\ UNCHANGED <<db, nextSeq, nextGlobal, recorder, faults>>

(* A process dies in the middle of an append.  The first line of an event's *)
(* own file is written to a temporary file and renamed, so it cannot tear.  *)
Tear(f, line) ==
    /\ ~Torn(f)
    /\ files' = [files EXCEPT ![f].tail = line]

TearArtifact(key) ==
    /\ ~\E l \in LinesOf(Percept) : l.kind = "artifact" /\ l.of = key
    /\ Tear(Percept, ArtifactLine(key))
    /\ UNCHANGED <<db, nextSeq, nextGlobal, recorder>>

TearRecord(r) ==
    LET e == recorder[r].event
    IN  /\ recorder[r].at = "allocated"
        /\ e \in Scoped /\ Recorded(e) = {}
        /\ Tear(Percept, RecordLine(e, recorder[r].row.cseq))
        /\ Fails(r)
        /\ UNCHANGED <<db, nextSeq, nextGlobal>>

TearReceipt(r) ==
    LET e == recorder[r].event
    IN  /\ recorder[r].at = "committed"
        /\ Receipts(e) = {} /\ Recorded(e) # {}
        /\ Tear(HomeOf(e), CommitLine(e, recorder[r].row))
        /\ Fails(r)
        /\ UNCHANGED <<db, nextSeq, nextGlobal>>

(* A transaction that has not committed is rolled back; the sequence behind *)
(* global_seq does not give back a number an insert has drawn.              *)
RecorderDies(r) ==
    /\ recorder[r].at # "idle"
    /\ Fails(r)
    /\ nextGlobal' \in IF recorder[r].at = "journaled"
                       THEN {nextGlobal, nextGlobal + 1} ELSE {nextGlobal}
    /\ UNCHANGED <<db, nextSeq, files>>
-----------------------------------------------------------------------------
LoseDatabase ==
    /\ db' = [e \in Events |-> NoRow]
    /\ nextSeq' = 1
    /\ nextGlobal' = 1
    /\ recorder' = [r \in Recorders |-> IdleRecorder]
    /\ UNCHANGED files

(* restore_event_store_from_artifacts: one transaction.  Every file must be *)
(* whole, a row that is there must agree with its record, and a sequence    *)
(* number of a commit entry must be free.                                   *)
Missing == {e \in Events : Recorded(e) # {} /\ ~HasRow(e)}

CanRestore ==
    /\ \A f \in Names : ~Torn(f)
    /\ \A e \in Events : HasRow(e) => \A l \in Recorded(e) : l.cseq = db[e].cseq
    /\ \A e \in Missing : \A l \in Receipts(e) :
          /\ \A o \in Events : db[o].gseq # l.gseq
          /\ \A o \in Missing \ {e} : \A k \in Receipts(o) : k.gseq # l.gseq

GlobalOf(receipts) == (CHOOSE l \in receipts : TRUE).gseq

TopReceipt == Max({0} \cup UNION {{l.gseq : l \in Receipts(e)} : e \in Events})
TopRow == Max({0} \cup {db[e].gseq : e \in Events})

(* Events without a commit entry get free numbers above every commit entry. *)
NewNumbers(unknown) ==
    LET top == Max({TopReceipt, TopRow}) + Cardinality(unknown)
        free == (TopReceipt + 1 .. top) \ {db[e].gseq : e \in Events}
    IN  {n \in [unknown -> free] : \A e, o \in unknown : e # o => n[e] # n[o]}

RestoreWithoutSequence ==
    /\ CanRestore
    /\ ~ConversationLocked
    /\ \E n \in NewNumbers({e \in Missing : Receipts(e) = {}}) :
          db' = [e \in Events |->
                    IF e \notin Missing THEN db[e]
                    ELSE [cseq |-> (CHOOSE l \in Recorded(e) : TRUE).cseq,
                          gseq |-> IF e \in DOMAIN n THEN n[e] ELSE GlobalOf(Receipts(e))]]
    /\ nextSeq' = Max({0} \cup {db'[e].cseq : e \in Events}) + 1
    /\ UNCHANGED <<nextGlobal, files, recorder, faults>>

(* The counters of the conversation and of the table move behind the rows.  *)
RestoreEvents ==
    /\ CanRestore
    /\ ~ConversationLocked
    /\ Missing # {}
    /\ \E n \in NewNumbers({e \in Missing : Receipts(e) = {}}) :
          db' = [e \in Events |->
                    IF e \notin Missing THEN db[e]
                    ELSE [cseq |-> (CHOOSE l \in Recorded(e) : TRUE).cseq,
                          gseq |-> IF e \in DOMAIN n THEN n[e] ELSE GlobalOf(Receipts(e))]]
    /\ nextSeq' = Max({0} \cup {db'[e].cseq : e \in Events}) + 1
    /\ nextGlobal' = Max({0} \cup {db'[e].gseq : e \in Events}) + 1
    /\ UNCHANGED <<files, recorder, faults>>

Record(r) ==
    \/ \E e \in Events : LookUp(r, e)
    \/ Allocate(r) \/ WriteRecord(r) \/ CommitRow(r) \/ CommitCollides(r) \/ WriteReceipt(r)

JournalFault ==
    /\ faults < MaxFaults
    /\ faults' = faults + 1
    /\ \/ \E r \in Recorders : TearRecord(r) \/ TearReceipt(r) \/ RecorderDies(r)
       \/ \E key \in Keys : TearArtifact(key)
       \/ LoseDatabase

JournalNext ==
    \/ \E r \in Recorders : Record(r)
    \/ \E key \in Keys : WriteInteractionArtifact(key)
    \/ RestoreEvents
    \/ JournalFault

(* A call that has begun runs to its end; nobody has to begin one. *)
JournalFairness ==
    \A r \in Recorders :
        WF_journalVars(Allocate(r) \/ WriteRecord(r) \/ CommitRow(r) \/ CommitCollides(r)
                       \/ WriteReceipt(r))

JournalSpec == JournalInit /\ [][JournalNext]_journalVars /\ JournalFairness
-----------------------------------------------------------------------------
(* "It cannot leave a committed new database event with no semantic         *)
(* artifact" (event_store.py, record_event): also after crashes, torn       *)
(* lines, retries by two processes and restored databases.                  *)
CommittedEventHasRecord ==
    \A e \in Events : HasRow(e) => Recorded(e) = {RecordLine(e, db[e].cseq)}

(* No file holds two entries of one identity, which would make every later  *)
(* read of it fail (iter_event_artifacts, inspect).                         *)
EntriesAreUnique ==
    \A f \in Names : \A i, j \in DOMAIN files[f].lines :
        (/\ files[f].lines[i].kind = files[f].lines[j].kind
         /\ files[f].lines[i].of = files[f].lines[j].of) => i = j

(* The table does not enforce it, and retrieval is fenced by it: no two     *)
(* events share a global_seq.                                               *)
GlobalSeqIsUnique ==
    \A e, o \in Events : HasRow(e) /\ db[e].gseq = db[o].gseq => e = o

(* "Retrying the same deterministic event repairs a missing commit artifact *)
(* without duplicating history" (event_store.py, record_event): the torn     *)
(* commit entry of an event in a file of its own is completed if the event   *)
(* is recorded again and again, unless the database is lost first.  Whether  *)
(* it is recorded again is up to the caller; behind a torn line in the file  *)
(* of a percept the callers do not get that far (percept_journal.py,         *)
(* parse_unlocked; percept_response_worker.py; artifact_recovery.py).        *)
RecordedAgain(e) == \E r \in Recorders : recorder[r].at = "mirroring" /\ recorder[r].event = e

TornReceiptIsCompleted ==
    \A e \in Events \ Scoped :
        []<>RecordedAgain(e) =>
            ((HasRow(e) /\ files[e].tail = CommitLine(e, db[e])) ~> (~Torn(e) \/ ~HasRow(e)))

(* The files and the table tell one story of every event: a committed event  *)
(* has its record, no entry is there twice, and no two events share a place  *)
(* in the global order (record_event, restore_events).                       *)
EventsAreOnRecord ==
    JournalTypeOK /\ CommittedEventHasRecord /\ EntriesAreUnique /\ GlobalSeqIsUnique
=============================================================================
