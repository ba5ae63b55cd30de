----------------------------- MODULE MCRecords ------------------------------
(* The two stores of record that must catch up after a fault, canonical      *)
(* events and semantic facts, each checked on its own: a behaviour runs the  *)
(* one that part names and leaves the variables of the other as they are.    *)
EXTENDS EventJournal, SemanticMemory

CONSTANTS a1, a2, b1,               \* assertions: two of one value, one of another
          o1, o2, o3, o4, o5,       \* observations
          c1, c2, d1                \* consolidations and a direct caller

TheValueOf == [a \in {a1, a2, b1} |-> IF a = b1 THEN 2 ELSE 1]
Always == [a \in {a1, a2, b1} |-> 0]
TheAssertionOf == [o \in {o1, o2, o3, o4, o5} |->
                      IF o \in {o3, o4} THEN b1 ELSE IF o = o2 THEN a2 ELSE a1]
TheRelation == [o \in {o1, o2, o3, o4, o5} |-> IF o = o5 THEN "OPPOSES" ELSE "SUPPORTS"]
TheObservedAt == [o \in {o1, o2, o3, o4, o5} |-> IF o = o3 THEN 1 ELSE 2]
TheStatesIn == <<{o1, o3}, {o2, o4}>>
TheAfterKey == [c \in {c1, c2} |-> IF c = c1 THEN 0 ELSE 1]
TheReports == [c \in {d1} |-> o5]
TheResolvedAt == [c \in {c1, c2, d1} |-> IF c = c1 THEN 3 ELSE 4]

VARIABLE part

RecordsInit == part \in {"journal", "semantic"} /\ JournalInit /\ SemanticInit

RecordsNext ==
    /\ UNCHANGED part
    /\ \/ part = "journal" /\ JournalNext /\ UNCHANGED semanticVars
       \/ part = "semantic" /\ SemanticNext /\ UNCHANGED journalVars

recordsVars == <<part, journalVars, semanticVars>>

RecordsFairness ==
    /\ \A r \in Recorders :
          WF_journalVars(part = "journal" /\ (Allocate(r) \/ WriteRecord(r) \/ CommitRow(r)
                                               \/ CommitCollides(r) \/ WriteReceipt(r)))
    /\ \A w \in Derivers : WF_semanticVars(part = "semantic" /\ DeriverStep(w))

RecordsSpec == RecordsInit /\ [][RecordsNext]_recordsVars /\ RecordsFairness
=============================================================================
