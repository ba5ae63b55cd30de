------------------------------ MODULE FileProofs ------------------------------
(* What has to survive on disk, and in the tables beside it.  First the       *)
(* journal: the events table and the files tell one story, for any number of  *)
(* events, processes, deaths, torn lines and lost databases.  Then the local   *)
(* app: its jobs stay owned, and its files and trash stay accounted for across *)
(* deaths of the server, for any number of jobs, paths, operations and deaths. *)
EXTENDS EventJournal, GuiJobs, GuiFiles, FiniteSetTheorems, WellFoundedInduction, TLAPS

Row == [cseq : Nat, gseq : Nat]
Line == [kind : {"record", "commit", "artifact", "none"}, of : Events \cup Keys \cup {NoEvent},
         cseq : Nat, gseq : Nat]
Recorder == [at : {"idle", "checked", "allocated", "journaled", "mirroring", "committed"},
             event : Events \cup {NoEvent}, row : Row]

LinesTyped == files \in [Names -> [lines : Seq(Line), tail : Line]]

TableTyped ==
    /\ db \in [Events -> Row]
    /\ nextSeq \in Nat \ {0} /\ nextGlobal \in Nat \ {0}
    /\ recorder \in [Recorders -> Recorder]
    /\ faults \in 0 .. MaxFaults

(* Rows are numbered below the counters, and from 1: 0 means that there is   *)
(* no row.                                                                   *)
RowsAreNumbered ==
    \A e \in Events :
        /\ db[e].cseq < nextSeq /\ db[e].gseq < nextGlobal
        /\ HasRow(e) => db[e].gseq > 0

(* Commit entries carry a number of the global order, records none.          *)
Numbered(l) == (l.kind = "record" => l.gseq = 0) /\ (l.kind = "commit" => l.gseq > 0)
LinesAreNumbered == \A f \in Names : \A l \in LinesOf(f) : Numbered(l)

(* One process at a time is between the allocation of a sequence number and  *)
(* the end of its transaction, and the number it has is still the next one.  *)
OneAllocates ==
    \A r, s \in Recorders :
        recorder[r].at \in {"allocated", "journaled"} =>
            /\ recorder[r].row.cseq = nextSeq
            /\ recorder[s].at \in {"allocated", "journaled"} => r = s

(* What a process knows of its event holds until it is done: its record is   *)
(* on disk before it commits, and the row it mirrors is the one of the table. *)
Knows(p) ==
    /\ p.at # "idle" => p.event \in Events
    /\ p.at = "journaled" => Recorded(p.event) = {RecordLine(p.event, p.row.cseq)}
    /\ p.at \in {"mirroring", "committed"} => HasRow(p.event) /\ p.row = db[p.event]

RecordersKnow == \A r \in Recorders : Knows(recorder[r])

JournalIInv ==
    /\ LinesTyped /\ TableTyped /\ RowsAreNumbered /\ LinesAreNumbered
    /\ OneAllocates /\ RecordersKnow
    /\ CommittedEventHasRecord /\ EntriesAreUnique /\ GlobalSeqIsUnique
-----------------------------------------------------------------------------
(* Finite sets of numbers. *)

(* A finite set of numbers that is not empty has a greatest element: a       *)
(* smallest set without one would be left with one when it loses an element. *)
LEMMA GreatestExists ==
    ASSUME NEW S \in SUBSET Nat, IsFiniteSet(S), S # {}
    PROVE  \E x \in S : \A y \in S : x >= y
<1> DEFINE Greatest(A) == \E x \in A : \A y \in A : x >= y
           Bad == {A \in SUBSET S : A # {} /\ ~Greatest(A)}
<1> SUFFICES ASSUME Bad # {} PROVE FALSE
    OBVIOUS
<1>1. IsWellFoundedOn(StrictSubsetOrdering(S), SUBSET S)
    BY FS_StrictSubsetOrderingWellFounded, FS_FiniteSubsetsOfFinite
<1>2. PICK A \in Bad : \A B \in Bad : ~(<<B, A>> \in StrictSubsetOrdering(S))
  <2>1. Bad \subseteq SUBSET S
      OBVIOUS
  <2> HIDE DEF Bad
  <2> QED
      BY <1>1, <2>1, WFMin
<1>3. PICK x \in A : TRUE
    OBVIOUS
<1>4. A \ {x} \in SUBSET S /\ A \ {x} \subseteq A /\ A \ {x} # A
    BY <1>3
<1>5. A \ {x} \notin Bad
    BY <1>2, <1>4 DEF StrictSubsetOrdering
<1>6. CASE A \ {x} = {}
    BY <1>3, <1>6
<1>7. CASE Greatest(A \ {x})
  <2>1. PICK m \in A \ {x} : \A y \in A \ {x} : m >= y
      BY <1>7
  <2>2. \A y \in A : y \in Nat
      OBVIOUS
  <2>3. Greatest(A)
    <3>1. CASE m >= x
        BY <2>1, <2>2, <3>1
    <3>2. CASE ~(m >= x)
        BY <1>3, <2>1, <2>2, <3>2
    <3> QED
        BY <3>1, <3>2
  <2> QED
      BY <2>3
<1> QED
    BY <1>4, <1>5, <1>6, <1>7

LEMMA MaxFacts ==
    ASSUME NEW S \in SUBSET Nat, IsFiniteSet(S), S # {}
    PROVE  Max(S) \in S /\ \A y \in S : Max(S) >= y
BY GreatestExists DEF Max

(* The maximum that is 0 where there is nothing to compare. *)
LEMMA MaxWithZero ==
    ASSUME NEW S \in SUBSET Nat, IsFiniteSet(S)
    PROVE  Max({0} \cup S) \in Nat /\ \A y \in S : y <= Max({0} \cup S)
<1>1. PICK T : T = {0} \cup S
    OBVIOUS
<1>2. T \in SUBSET Nat /\ IsFiniteSet(T) /\ T # {}
  <2>1. IsFiniteSet({0})
      BY FS_Singleton
  <2>2. IsFiniteSet({0} \cup S)
      BY <2>1, FS_Union
  <2> QED
      BY <1>1, <2>2
<1>3. Max(T) \in T /\ \A y \in T : Max(T) >= y
    BY <1>2, MaxFacts
<1>4. Max(T) \in Nat /\ \A y \in S : y <= Max(T)
    BY <1>1, <1>2, <1>3
<1> QED
    BY <1>1, <1>4

(* The values of a function on a finite set. *)
LEMMA ValuesFinite ==
    ASSUME NEW D, IsFiniteSet(D), NEW g, DOMAIN g = D
    PROVE  IsFiniteSet({g[d] : d \in D})
<1> DEFINE T == {g[d] : d \in D}
           f == [d \in D |-> g[d]]
<1>1. f \in Surjection(D, T)
    BY DEF Surjection
<1> QED
    BY <1>1, FS_Surjection
-----------------------------------------------------------------------------
(* Files. *)

LEMMA HomesAreNames == \A e \in Events : HomeOf(e) \in Names
BY JournalAssumption DEF HomeOf, Names, Percept

LEMMA LinesAreTyped ==
    ASSUME NEW e \in Events, NEW row \in Row, NEW key \in Keys
    PROVE  /\ RecordLine(e, row.cseq) \in Line /\ CommitLine(e, row) \in Line
           /\ ArtifactLine(key) \in Line
BY DEF RecordLine, CommitLine, ArtifactLine, Line, Row

LEMMA NoLineIsTyped == NoLine \in Line /\ NoRow \in Row /\ IdleRecorder \in Recorder
BY DEF NoLine, NoRow, IdleRecorder, Line, Row, Recorder

LEMMA LineTypes ==
    ASSUME LinesTyped, NEW f \in Names
    PROVE  /\ files[f].lines \in Seq(Line) /\ files[f].tail \in Line
           /\ LinesOf(f) \subseteq Line
<1>1. files[f].lines \in Seq(Line) /\ files[f].tail \in Line
    BY DEF LinesTyped
<1> QED
    BY <1>1 DEF LinesOf

(* A line goes to the end of a file that has no entry of its identity. *)
LEMMA AppendKeeps ==
    ASSUME LinesTyped, EntriesAreUnique, LinesAreNumbered, NEW f \in Names,
           NEW line \in Line, NEW tail \in Line, Numbered(line),
           \A l \in LinesOf(f) : ~(l.kind = line.kind /\ l.of = line.of),
           files' = [files EXCEPT ![f] =
                        [lines |-> Append(files[f].lines, line), tail |-> tail]]
    PROVE  /\ LinesTyped' /\ EntriesAreUnique' /\ LinesAreNumbered'
           /\ \A g \in Names :
                 LinesOf(g)' = IF g = f THEN LinesOf(f) \cup {line} ELSE LinesOf(g)
<1> DEFINE old == files[f].lines
           new == Append(old, line)
<1>1. old \in Seq(Line) /\ Len(old) \in Nat /\ DOMAIN old = 1 .. Len(old)
    BY LineTypes
<1>2. /\ new \in Seq(Line) /\ DOMAIN new = 1 .. Len(old) + 1
      /\ \A i \in 1 .. Len(old) : new[i] = old[i]
      /\ new[Len(old) + 1] = line
    BY <1>1
<1>3. \A g \in Names : files'[g] = IF g = f THEN [lines |-> new, tail |-> tail] ELSE files[g]
    BY DEF LinesTyped
<1>4. LinesTyped'
    BY <1>2 DEF LinesTyped
<1>9. \A i, j \in 1 .. Len(old) : old[i].kind = old[j].kind /\ old[i].of = old[j].of => i = j
    BY <1>1 DEF EntriesAreUnique
<1> HIDE DEF old, new
<1>5. /\ \A g \in Names \ {f} : files'[g] = files[g]
      /\ files'[f].lines = new
    BY <1>3
<1>6. \A g \in Names :
          LinesOf(g)' = IF g = f THEN LinesOf(f) \cup {line} ELSE LinesOf(g)
  <2>1. ASSUME NEW g \in Names \ {f} PROVE LinesOf(g)' = LinesOf(g)
      BY <1>5, <2>1 DEF LinesOf
  <2>2. LinesOf(f)' = {new[i] : i \in 1 .. Len(old) + 1}
    <3>1. LinesOf(f)' = {files'[f].lines[i] : i \in DOMAIN files'[f].lines}
        BY DEF LinesOf
    <3>2. files'[f].lines = new /\ DOMAIN new = 1 .. Len(old) + 1
        BY <1>2, <1>5
    <3> QED
        BY ONLY <3>1, <3>2
  <2>3. LinesOf(f) = {old[i] : i \in 1 .. Len(old)}
      BY <1>1 DEF LinesOf, old
  <2>4. LinesOf(f)' = LinesOf(f) \cup {line}
    <3>1. \A l \in LinesOf(f)' : l \in LinesOf(f) \cup {line}
        BY <1>1, <1>2, <2>2, <2>3
    <3>2. \A l \in LinesOf(f) \cup {line} : l \in LinesOf(f)'
        BY <1>1, <1>2, <2>2, <2>3
    <3> QED
        BY <3>1, <3>2
  <2> QED
      BY <2>1, <2>4
<1>7. LinesAreNumbered'
    BY <1>6 DEF LinesAreNumbered
<1>8. EntriesAreUnique'
  <2>1. ASSUME NEW g \in Names, NEW i \in DOMAIN files'[g].lines, NEW j \in DOMAIN files'[g].lines,
               files'[g].lines[i].kind = files'[g].lines[j].kind,
               files'[g].lines[i].of = files'[g].lines[j].of
        PROVE  i = j
    <3>1. CASE g # f
        BY <1>5, <2>1, <3>1 DEF EntriesAreUnique
    <3>2. CASE g = f
      <4>1. i \in 1 .. Len(old) + 1 /\ j \in 1 .. Len(old) + 1
            /\ new[i].kind = new[j].kind /\ new[i].of = new[j].of
          BY <1>2, <1>5, <2>1, <3>2
      <4>2. \A n \in 1 .. Len(old) : ~(new[n].kind = line.kind /\ new[n].of = line.of)
          BY <1>1, <1>2 DEF LinesOf, old
      <4>3. CASE i \in 1 .. Len(old) /\ j \in 1 .. Len(old)
          BY <1>2, <1>9, <4>1, <4>3
      <4>4. CASE i = Len(old) + 1 \/ j = Len(old) + 1
          BY <1>1, <1>2, <4>1, <4>2, <4>4
      <4> QED
          BY <1>1, <4>1, <4>3, <4>4
    <3> QED
        BY <3>1, <3>2
  <2> QED
      BY <2>1 DEF EntriesAreUnique
<1> QED
    BY <1>4, <1>6, <1>7, <1>8

(* A torn line leaves the whole ones alone. *)
LEMMA TearKeeps ==
    ASSUME LinesTyped, EntriesAreUnique, LinesAreNumbered, NEW f \in Names,
           NEW line \in Line, files' = [files EXCEPT ![f].tail = line]
    PROVE  /\ LinesTyped' /\ EntriesAreUnique' /\ LinesAreNumbered'
           /\ \A g \in Names : LinesOf(g)' = LinesOf(g)
<1>7a. \A x, y : [[lines |-> x, tail |-> y] EXCEPT !.tail = line] = [lines |-> x, tail |-> line]
    OBVIOUS
<1>1. files' = [files EXCEPT ![f] = [lines |-> files[f].lines, tail |-> line]]
  <2>1. files[f] = [lines |-> files[f].lines, tail |-> files[f].tail]
      BY DEF LinesTyped
  <2>2. [files[f] EXCEPT !.tail = line] = [lines |-> files[f].lines, tail |-> line]
      BY <2>1, <1>7a, Zenon
  <2>3. files' = [files EXCEPT ![f] = [files[f] EXCEPT !.tail = line]]
      OBVIOUS
  <2> QED
      BY <2>2, <2>3
<1>2. LinesTyped' /\ \A g \in Names : files'[g].lines = files[g].lines
    BY <1>1, LineTypes DEF LinesTyped
<1>3. \A g \in Names : LinesOf(g)' = LinesOf(g)
    BY <1>2 DEF LinesOf
<1>4. EntriesAreUnique'
    BY <1>2 DEF EntriesAreUnique
<1>5. LinesAreNumbered'
    BY <1>3 DEF LinesAreNumbered
<1> QED
    BY <1>2, <1>3, <1>4, <1>5
-----------------------------------------------------------------------------
(* Steps. *)

RecordsStay == \A e \in Events : Recorded(e) # {} => Recorded(e)' = Recorded(e)

Locks(p) == p.at \in {"allocated", "journaled"}

(* One process moves on, and the files keep the records they have. *)
LEMMA OneRecorderMoves ==
    ASSUME JournalIInv, LinesTyped', EntriesAreUnique', LinesAreNumbered', RecordsStay,
           UNCHANGED <<db, nextSeq>>, nextGlobal' \in {nextGlobal, nextGlobal + 1},
           faults' \in 0 .. MaxFaults, NEW r \in Recorders, NEW p \in Recorder,
           recorder' = [recorder EXCEPT ![r] = p],
           p.at # "idle" => p.event \in Events,
           p.at = "journaled" => Recorded(p.event)' = {RecordLine(p.event, p.row.cseq)},
           p.at \in {"mirroring", "committed"} => HasRow(p.event) /\ p.row = db[p.event],
           Locks(p) => /\ p.row.cseq = nextSeq
                       /\ \A s \in Recorders \ {r} : ~Locks(recorder[s])
    PROVE  JournalIInv'
<1> USE DEF Locks
<1>1. \A s \in Recorders : recorder'[s] = IF s = r THEN p ELSE recorder[s]
    BY DEF JournalIInv, TableTyped
<1>2. TableTyped'
    BY DEF JournalIInv, TableTyped
<1>3. RowsAreNumbered' /\ GlobalSeqIsUnique'
    BY DEF JournalIInv, TableTyped, Row, RowsAreNumbered, GlobalSeqIsUnique, HasRow
<1>4. OneAllocates'
    BY <1>1 DEF JournalIInv, OneAllocates
<1>5. RecordersKnow'
  <2> SUFFICES ASSUME NEW s \in Recorders PROVE Knows(recorder[s])'
      BY DEF RecordersKnow
  <2>1. CASE s = r
      BY <1>1, <2>1 DEF Knows, HasRow
  <2>2. CASE s # r
    <3>1. recorder'[s] = recorder[s] /\ Knows(recorder[s])
        BY <1>1, <2>2 DEF JournalIInv, RecordersKnow
    <3>2. recorder[s].at = "journaled" =>
              Recorded(recorder[s].event)' = {RecordLine(recorder[s].event, recorder[s].row.cseq)}
      <4> SUFFICES ASSUME recorder[s].at = "journaled"
                   PROVE  Recorded(recorder[s].event)' =
                              {RecordLine(recorder[s].event, recorder[s].row.cseq)}
          OBVIOUS
      <4>1. recorder[s].event \in Events
            /\ Recorded(recorder[s].event) =
                  {RecordLine(recorder[s].event, recorder[s].row.cseq)}
          BY <3>1 DEF Knows
      <4>2. ASSUME NEW e \in Events, e = recorder[s].event
            PROVE  Recorded(e)' = Recorded(e)
          BY <4>1, <4>2 DEF RecordsStay
      <4> QED
          BY <3>1, <4>1, <4>2
    <3> QED
        BY <3>1, <3>2 DEF Knows, HasRow
  <2> QED
      BY <2>1, <2>2
<1>6. CommittedEventHasRecord'
  <2> SUFFICES ASSUME NEW e \in Events, HasRow(e)
               PROVE  Recorded(e)' = {RecordLine(e, db[e].cseq)}
      BY DEF CommittedEventHasRecord, HasRow
  <2> QED
      BY DEF JournalIInv, CommittedEventHasRecord, RecordsStay
<1> QED
    BY <1>2, <1>3, <1>4, <1>5, <1>6 DEF JournalIInv

(* The files are left alone. *)
LEMMA FilesStay ==
    ASSUME JournalIInv, UNCHANGED files
    PROVE  /\ LinesTyped' /\ EntriesAreUnique' /\ LinesAreNumbered'
           /\ \A e : Recorded(e)' = Recorded(e)
<1>1. LinesTyped' /\ EntriesAreUnique'
    BY DEF JournalIInv, LinesTyped, EntriesAreUnique
<1>2. \A f : LinesOf(f)' = LinesOf(f)
    BY DEF LinesOf
<1> QED
    BY <1>1, <1>2 DEF JournalIInv, LinesAreNumbered, Recorded, HomeOf

(* A process gives up or is done: it knows nothing more. *)
LEMMA FailsKeeps ==
    ASSUME JournalIInv, LinesTyped', EntriesAreUnique', LinesAreNumbered', RecordsStay,
           UNCHANGED <<db, nextSeq>>, nextGlobal' \in {nextGlobal, nextGlobal + 1},
           faults' \in 0 .. MaxFaults, NEW r \in Recorders, Fails(r)
    PROVE  JournalIInv'
<1>1. IdleRecorder \in Recorder /\ IdleRecorder.at = "idle"
    BY NoLineIsTyped DEF IdleRecorder
<1> QED
    BY <1>1, OneRecorderMoves DEF Fails, Locks

LEMMA LookUpKeeps ==
    ASSUME JournalIInv, NEW r \in Recorders, NEW e \in Events, LookUp(r, e)
    PROVE  JournalIInv'
<1>1. /\ UNCHANGED <<db, nextSeq, files>> /\ nextGlobal' \in {nextGlobal, nextGlobal + 1}
      /\ faults' \in 0 .. MaxFaults /\ db[e] \in Row
    BY DEF LookUp, JournalIInv, TableTyped
<1>2. /\ LinesTyped' /\ EntriesAreUnique' /\ LinesAreNumbered' /\ RecordsStay
    BY <1>1, FilesStay DEF RecordsStay
<1>3. CASE HasRow(e)
  <2>1. PICK p : p = [at |-> "mirroring", event |-> e, row |-> db[e]]
      OBVIOUS
  <2>2. p \in Recorder /\ recorder' = [recorder EXCEPT ![r] = p]
      BY <1>1, <1>3, <2>1 DEF LookUp, Turns, Recorder
  <2> QED
      BY <1>1, <1>2, <1>3, <2>1, <2>2, OneRecorderMoves DEF Locks
<1>4. CASE ~HasRow(e)
  <2>1. PICK p : p = [at |-> "checked", event |-> e, row |-> NoRow]
      OBVIOUS
  <2>2. p \in Recorder /\ recorder' = [recorder EXCEPT ![r] = p]
      BY <1>4, <2>1, NoLineIsTyped DEF LookUp, Turns, Recorder
  <2> QED
      BY <1>1, <1>2, <1>4, <2>1, <2>2, OneRecorderMoves DEF Locks
<1> QED
    BY <1>3, <1>4

LEMMA AllocateKeeps ==
    ASSUME JournalIInv, NEW r \in Recorders, Allocate(r)
    PROVE  JournalIInv'
<1>1. /\ UNCHANGED <<db, nextSeq, files>> /\ nextGlobal' \in {nextGlobal, nextGlobal + 1}
      /\ faults' \in 0 .. MaxFaults /\ recorder[r].event \in Events
      /\ \A s \in Recorders : ~Locks(recorder[s])
    BY DEF Allocate, JournalIInv, TableTyped, RecordersKnow, Knows, ConversationLocked, Locks
<1>2. /\ LinesTyped' /\ EntriesAreUnique' /\ LinesAreNumbered' /\ RecordsStay
    BY <1>1, FilesStay DEF RecordsStay
<1>3. PICK p : p = [at |-> "allocated", event |-> recorder[r].event,
                    row |-> [cseq |-> nextSeq, gseq |-> 0]]
    OBVIOUS
<1>4. p \in Recorder /\ recorder' = [recorder EXCEPT ![r] = p]
    BY <1>1, <1>3 DEF Allocate, Turns, Recorder, Row, JournalIInv, TableTyped
<1> QED
    BY <1>1, <1>2, <1>3, <1>4, OneRecorderMoves

(* What a process that is at work has. *)
LEMMA AtWork ==
    ASSUME JournalIInv, NEW r \in Recorders, recorder[r].at # "idle"
    PROVE  /\ recorder[r] \in Recorder /\ recorder[r].row \in Row
           /\ recorder[r].event \in Events /\ HomeOf(recorder[r].event) \in Names
           /\ Knows(recorder[r])
           /\ Locks(recorder[r]) =>
                 /\ recorder[r].row.cseq = nextSeq
                 /\ \A s \in Recorders \ {r} : ~Locks(recorder[s])
BY HomesAreNames
DEF JournalIInv, TableTyped, Recorder, RecordersKnow, Knows, OneAllocates, Locks

(* Records stay when a line is appended to a file that has none of its       *)
(* identity.                                                                 *)
LEMMA RecordsStayBehindAppend ==
    ASSUME NEW f \in Names, NEW line \in Line,
           \A l \in LinesOf(f) : ~(l.kind = line.kind /\ l.of = line.of),
           \A g \in Names :
              LinesOf(g)' = IF g = f THEN LinesOf(f) \cup {line} ELSE LinesOf(g)
    PROVE  RecordsStay
<1> SUFFICES ASSUME NEW e \in Events, Recorded(e) # {} PROVE Recorded(e)' = Recorded(e)
    BY DEF RecordsStay
<1>1. HomeOf(e) \in Names /\ HomeOf(e)' = HomeOf(e)
    BY HomesAreNames DEF HomeOf
<1>2. Recorded(e)' = {l \in LinesOf(HomeOf(e))' : l.kind = "record" /\ l.of = e}
    BY DEF Recorded
<1>3. Recorded(e) = {l \in LinesOf(HomeOf(e)) : l.kind = "record" /\ l.of = e}
    BY DEF Recorded
<1>4. CASE HomeOf(e) # f
    BY <1>1, <1>2, <1>3, <1>4 DEF HomeOf
<1>5. CASE HomeOf(e) = f
  <2>1. ~(line.kind = "record" /\ line.of = e)
      BY <1>3, <1>5
  <2>2. LinesOf(f)' = LinesOf(f) \cup {line}
      OBVIOUS
  <2>3. LinesOf(HomeOf(e))' = LinesOf(f)'
      BY <1>5 DEF HomeOf, LinesOf
  <2> QED
      BY <1>2, <1>3, <1>5, <2>1, <2>2, <2>3
<1> QED
    BY <1>4, <1>5

LEMMA AppendedIs ==
    ASSUME LinesTyped, NEW f \in Names, NEW line
    PROVE  Appended(f, line) =
               [files EXCEPT ![f] = [lines |-> Append(files[f].lines, line),
                                     tail |-> files[f].tail]]
<1>1. \A x, y, z : [[lines |-> x, tail |-> y] EXCEPT !.lines = z] = [lines |-> z, tail |-> y]
    OBVIOUS
<1>2. PICK x, y : files[f] = [lines |-> x, tail |-> y]
  <2>1. files[f] = [lines |-> files[f].lines, tail |-> files[f].tail]
      BY DEF LinesTyped
  <2> QED
      BY <2>1
<1>3. [files[f] EXCEPT !.lines = Append(files[f].lines, line)] =
          [lines |-> Append(files[f].lines, line), tail |-> files[f].tail]
  <2>1. files[f].lines = x /\ files[f].tail = y
      BY <1>2
  <2> QED
      BY <1>1, <1>2, <2>1
<1>4. Appended(f, line) = [files EXCEPT ![f] =
                              [files[f] EXCEPT !.lines = Append(files[f].lines, line)]]
    BY DEF Appended
<1> QED
    BY <1>3, <1>4

(* The record of an event that has none. *)
LEMMA NewRecord ==
    ASSUME JournalIInv, NEW e \in Events, NEW cseq \in Nat, Recorded(e) = {},
           files' = Appended(HomeOf(e), RecordLine(e, cseq))
    PROVE  /\ LinesTyped' /\ EntriesAreUnique' /\ LinesAreNumbered' /\ RecordsStay
           /\ Recorded(e)' = {RecordLine(e, cseq)}
<1>1. PICK f \in Names : f = HomeOf(e)
    BY HomesAreNames
<1>2. PICK line \in Line : /\ line = RecordLine(e, cseq) /\ Numbered(line)
                           /\ line.kind = "record" /\ line.of = e
    BY DEF RecordLine, Line, Numbered
<1>3. \A l \in LinesOf(f) : ~(l.kind = line.kind /\ l.of = line.of)
    BY <1>1, <1>2 DEF Recorded
<1>4. LinesTyped /\ EntriesAreUnique /\ LinesAreNumbered /\ files[f].tail \in Line
    BY LineTypes DEF JournalIInv
<1>5. files' = [files EXCEPT ![f] = [lines |-> Append(files[f].lines, line),
                                     tail |-> files[f].tail]]
    BY <1>1, <1>2, <1>4, AppendedIs
<1>6. /\ LinesTyped' /\ EntriesAreUnique' /\ LinesAreNumbered'
      /\ \A g \in Names :
            LinesOf(g)' = IF g = f THEN LinesOf(f) \cup {line} ELSE LinesOf(g)
    BY <1>2, <1>3, <1>4, <1>5, AppendKeeps
<1>7. RecordsStay
    BY <1>3, <1>6, RecordsStayBehindAppend
<1>8. Recorded(e)' = {RecordLine(e, cseq)}
  <2>1. Recorded(e)' = {l \in LinesOf(f)' : l.kind = "record" /\ l.of = e}
      BY <1>1 DEF Recorded, HomeOf
  <2>2. LinesOf(f)' = LinesOf(f) \cup {line}
      BY <1>6
  <2> QED
      BY <1>2, <1>3, <2>1, <2>2
<1> QED
    BY <1>6, <1>7, <1>8

LEMMA WriteRecordKeeps ==
    ASSUME JournalIInv, NEW r \in Recorders, WriteRecord(r)
    PROVE  JournalIInv'
<1>1. PICK e : e = recorder[r].event
    OBVIOUS
<1>2. PICK row : row = recorder[r].row
    OBVIOUS
<1>3. /\ recorder[r].at \in {"allocated", "mirroring"}
      /\ UNCHANGED <<db, nextSeq>> /\ nextGlobal' \in {nextGlobal, nextGlobal + 1}
      /\ faults' \in 0 .. MaxFaults
      /\ row \in Row /\ e \in Events /\ Knows(recorder[r])
      /\ Locks(recorder[r]) => /\ row.cseq = nextSeq
                               /\ \A s \in Recorders \ {r} : ~Locks(recorder[s])
    BY <1>1, <1>2, AtWork DEF WriteRecord, JournalIInv, TableTyped
<1>4. CASE ~RecordAccepted(e, row.cseq)
  <2>1. Fails(r) /\ UNCHANGED files
      BY <1>1, <1>2, <1>4 DEF WriteRecord
  <2>2. /\ LinesTyped' /\ EntriesAreUnique' /\ LinesAreNumbered' /\ RecordsStay
      BY <2>1, FilesStay DEF RecordsStay
  <2> QED
      BY <1>3, <2>1, <2>2, FailsKeeps
<1>5. CASE RecordAccepted(e, row.cseq)
  <2>1. PICK p : p = [at |-> IF recorder[r].at = "allocated" THEN "journaled" ELSE "committed",
                      event |-> e, row |-> row]
      OBVIOUS
  <2>2. p \in Recorder /\ p.event = e /\ p.row = row
        /\ p.at = IF recorder[r].at = "allocated" THEN "journaled" ELSE "committed"
      BY <1>3, <2>1 DEF Recorder
  <2>3. recorder' = [recorder EXCEPT ![r] = p] /\ files' = WithRecord(e, row.cseq)
      BY <1>1, <1>2, <1>5, <2>1 DEF WriteRecord, Turns
  <2>4. /\ LinesTyped' /\ EntriesAreUnique' /\ LinesAreNumbered' /\ RecordsStay
        /\ Recorded(e)' = {RecordLine(e, row.cseq)}
    <3>1. CASE Recorded(e) # {}
      <4>1. UNCHANGED files /\ Recorded(e) = {RecordLine(e, row.cseq)}
          BY <1>5, <2>3, <3>1 DEF WithRecord, RecordAccepted
      <4> QED
          BY <4>1, FilesStay DEF RecordsStay
    <3>2. CASE Recorded(e) = {}
      <4>1. files' = Appended(HomeOf(e), RecordLine(e, row.cseq)) /\ row.cseq \in Nat
          BY <1>3, <2>3, <3>2 DEF WithRecord, Row
      <4> QED
          BY <1>3, <3>2, <4>1, NewRecord
    <3> QED
        BY <3>1, <3>2
  <2>5. p.at = "committed" => HasRow(p.event) /\ p.row = db[p.event]
      BY <1>1, <1>2, <1>3, <2>2 DEF Knows
  <2>6. Locks(p) => Locks(recorder[r])
      BY <1>3, <2>2 DEF Locks
  <2> QED
      BY <1>3, <2>2, <2>3, <2>4, <2>5, <2>6, OneRecorderMoves
<1> QED
    BY <1>4, <1>5

LEMMA CommitCollidesKeeps ==
    ASSUME JournalIInv, NEW r \in Recorders, CommitCollides(r)
    PROVE  JournalIInv'
<1>1. /\ LinesTyped' /\ EntriesAreUnique' /\ LinesAreNumbered' /\ RecordsStay
    BY FilesStay DEF CommitCollides, RecordsStay
<1> QED
    BY <1>1, FailsKeeps DEF CommitCollides, JournalIInv, TableTyped

(* The commit entry of an event that has none. *)
LEMMA WriteReceiptKeeps ==
    ASSUME JournalIInv, NEW r \in Recorders, WriteReceipt(r)
    PROVE  JournalIInv'
<1>1. PICK e : e = recorder[r].event
    OBVIOUS
<1>2. PICK row : row = recorder[r].row
    OBVIOUS
<1>3. /\ recorder[r].at = "committed" /\ Fails(r)
      /\ UNCHANGED <<db, nextSeq>> /\ nextGlobal' \in {nextGlobal, nextGlobal + 1}
      /\ faults' \in 0 .. MaxFaults
      /\ row \in Row /\ e \in Events /\ HasRow(e) /\ row = db[e]
    BY <1>1, <1>2, AtWork DEF WriteReceipt, JournalIInv, TableTyped, Knows
<1>4. PICK line \in Line : /\ line = CommitLine(e, row) /\ Numbered(line)
                           /\ line.kind = "commit" /\ line.of = e
  <2>1. row.gseq > 0
      BY <1>3 DEF JournalIInv, RowsAreNumbered
  <2>2. CommitLine(e, row) \in Line
      BY <1>3 DEF CommitLine, Line, Row
  <2> QED
      BY <2>1, <2>2 DEF CommitLine, Numbered
<1>5. PICK f \in Names : f = HomeOf(e)
    BY <1>3, HomesAreNames
<1>6. CASE /\ Receipts(e) = {}
           /\ files' = [files EXCEPT ![f] =
                           [lines |-> Append(files[f].lines, line), tail |-> NoLine]]
  <2>1. \A l \in LinesOf(f) : ~(l.kind = line.kind /\ l.of = line.of)
      BY <1>4, <1>5, <1>6 DEF Receipts
  <2>2. /\ LinesTyped' /\ EntriesAreUnique' /\ LinesAreNumbered'
        /\ \A g \in Names :
              LinesOf(g)' = IF g = f THEN LinesOf(f) \cup {line} ELSE LinesOf(g)
      BY <1>4, <1>6, <2>1, NoLineIsTyped, AppendKeeps DEF JournalIInv
  <2>3. RecordsStay
      BY <2>1, <2>2, RecordsStayBehindAppend
  <2> QED
      BY <1>3, <2>2, <2>3, FailsKeeps
<1>7. CASE UNCHANGED files
  <2>1. /\ LinesTyped' /\ EntriesAreUnique' /\ LinesAreNumbered' /\ RecordsStay
      BY <1>7, FilesStay DEF RecordsStay
  <2> QED
      BY <1>3, <2>1, FailsKeeps
<1> QED
    BY <1>1, <1>2, <1>4, <1>5, <1>6, <1>7 DEF WriteReceipt

LEMMA CommitRowKeeps ==
    ASSUME JournalIInv, NEW r \in Recorders, CommitRow(r)
    PROVE  JournalIInv'
<1>1. PICK e : e = recorder[r].event
    OBVIOUS
<1>2. PICK row : row = [cseq |-> recorder[r].row.cseq, gseq |-> nextGlobal]
    OBVIOUS
<1>3. PICK p : p = [at |-> "committed", event |-> e, row |-> row]
    OBVIOUS
<1>4. /\ recorder[r].at = "journaled" /\ ~HasRow(e)
      /\ db' = [db EXCEPT ![e] = row]
      /\ nextSeq' = nextSeq + 1 /\ nextGlobal' = nextGlobal + 1
      /\ recorder' = [recorder EXCEPT ![r] = p]
      /\ UNCHANGED <<files, faults>>
    BY <1>1, <1>2, <1>3 DEF CommitRow, Turns
<1>5. /\ e \in Events /\ Knows(recorder[r]) /\ recorder[r].row \in Row
      /\ recorder[r].row.cseq = nextSeq
      /\ \A s \in Recorders \ {r} : ~Locks(recorder[s])
    BY <1>1, <1>4, AtWork DEF Locks
<1>6. nextSeq \in Nat \ {0} /\ nextGlobal \in Nat \ {0}
    BY DEF JournalIInv, TableTyped
<1>7. row \in Row /\ row.cseq = nextSeq /\ row.gseq = nextGlobal /\ row # NoRow
    BY <1>2, <1>5, <1>6 DEF Row, NoRow
<1>8. \A o \in Events : db'[o] = IF o = e THEN row ELSE db[o]
    BY <1>4 DEF JournalIInv, TableTyped
<1>9. \A s \in Recorders : recorder'[s] = IF s = r THEN p ELSE recorder[s]
    BY <1>4 DEF JournalIInv, TableTyped
<1>10. p.at = "committed" /\ p.event = e /\ p.row = row /\ p \in Recorder
    BY <1>3, <1>5, <1>7 DEF Recorder
<1>11. TableTyped'
  <2>1. db' \in [Events -> Row] /\ recorder' \in [Recorders -> Recorder]
      BY <1>4, <1>7, <1>10 DEF JournalIInv, TableTyped
  <2>2. nextSeq' \in Nat \ {0} /\ nextGlobal' \in Nat \ {0}
      BY <1>4, <1>6
  <2> QED
      BY <1>4, <2>1, <2>2 DEF JournalIInv, TableTyped
<1>12. \A o \in Events : /\ db[o].cseq \in Nat /\ db[o].gseq \in Nat
                         /\ db[o].cseq < nextSeq /\ db[o].gseq < nextGlobal
    BY DEF JournalIInv, TableTyped, Row, RowsAreNumbered
<1>13. RowsAreNumbered'
    BY <1>4, <1>6, <1>7, <1>8, <1>12 DEF RowsAreNumbered, HasRow, JournalIInv
<1>14. OneAllocates'
    BY <1>5, <1>9, <1>10 DEF OneAllocates, Locks
<1>15. /\ LinesTyped' /\ EntriesAreUnique' /\ LinesAreNumbered'
       /\ \A o : Recorded(o)' = Recorded(o)
    BY <1>4, FilesStay
<1>16. RecordersKnow'
  <2> SUFFICES ASSUME NEW s \in Recorders PROVE Knows(recorder[s])'
      BY DEF RecordersKnow
  <2>1. CASE s = r
      BY <1>5, <1>7, <1>8, <1>9, <1>10, <2>1 DEF Knows, HasRow
  <2>2. CASE s # r
    <3>1. recorder'[s] = recorder[s] /\ Knows(recorder[s]) /\ ~Locks(recorder[s])
        BY <1>5, <1>9, <2>2 DEF JournalIInv, RecordersKnow
    <3>2. recorder[s].at \in {"mirroring", "committed"} =>
              recorder[s].event \in Events /\ recorder[s].event # e
        BY <1>4, <3>1 DEF Knows
    <3> QED
        BY <1>8, <3>1, <3>2 DEF Knows, HasRow, Locks
  <2> QED
      BY <2>1, <2>2
<1>17. CommittedEventHasRecord'
  <2> SUFFICES ASSUME NEW o \in Events, db'[o] # NoRow
               PROVE  Recorded(o) = {RecordLine(o, db'[o].cseq)}
      BY <1>15 DEF CommittedEventHasRecord, HasRow, RecordLine
  <2>1. CASE o = e
      BY <1>1, <1>4, <1>5, <1>7, <1>8, <2>1 DEF Knows
  <2>2. CASE o # e
      BY <1>8, <2>2 DEF JournalIInv, CommittedEventHasRecord, HasRow
  <2> QED
      BY <2>1, <2>2
<1>18. GlobalSeqIsUnique'
    BY <1>6, <1>7, <1>8, <1>12 DEF GlobalSeqIsUnique, HasRow, JournalIInv
<1> QED
    BY <1>11, <1>13, <1>14, <1>15, <1>16, <1>17, <1>18 DEF JournalIInv

(* Steps that leave the table and the processes alone. *)
LEMMA OnlyFilesMove ==
    ASSUME JournalIInv, LinesTyped', EntriesAreUnique', LinesAreNumbered', RecordsStay,
           UNCHANGED <<db, nextSeq, nextGlobal, recorder>>, faults' \in 0 .. MaxFaults
    PROVE  JournalIInv'
<1>1. TableTyped' /\ RowsAreNumbered' /\ OneAllocates' /\ GlobalSeqIsUnique'
    BY DEF JournalIInv, TableTyped, RowsAreNumbered, OneAllocates, GlobalSeqIsUnique, HasRow
<1>2. RecordersKnow'
  <2> SUFFICES ASSUME NEW s \in Recorders PROVE Knows(recorder[s])'
      BY DEF RecordersKnow
  <2>1. Knows(recorder[s])
      BY DEF JournalIInv, RecordersKnow
  <2>2. PICK e : e = recorder[s].event
      OBVIOUS
  <2>3. recorder[s].at = "journaled" => Recorded(e)' = {RecordLine(e, recorder[s].row.cseq)}
      BY <2>1, <2>2 DEF Knows, RecordsStay
  <2> QED
      BY <2>1, <2>2, <2>3 DEF Knows, HasRow
<1>3. CommittedEventHasRecord'
  <2> SUFFICES ASSUME NEW e \in Events, HasRow(e)
               PROVE  Recorded(e)' = {RecordLine(e, db[e].cseq)}
      BY DEF CommittedEventHasRecord, HasRow
  <2> QED
      BY DEF JournalIInv, CommittedEventHasRecord, RecordsStay
<1> QED
    BY <1>1, <1>2, <1>3 DEF JournalIInv

LEMMA WriteInteractionArtifactKeeps ==
    ASSUME JournalIInv, NEW key \in Keys, WriteInteractionArtifact(key)
    PROVE  JournalIInv'
<1>1. PICK f \in Names : f = Percept
    BY DEF Names
<1>2. PICK line \in Line : /\ line = ArtifactLine(key) /\ Numbered(line)
                           /\ line.kind = "artifact" /\ line.of = key
  <2>1. ArtifactLine(key) \in Line
      BY DEF ArtifactLine, Line
  <2> QED
      BY <2>1 DEF ArtifactLine, Numbered
<1>3. \A l \in LinesOf(f) : ~(l.kind = line.kind /\ l.of = line.of)
    BY <1>1, <1>2 DEF WriteInteractionArtifact
<1>4. LinesTyped /\ EntriesAreUnique /\ LinesAreNumbered /\ files[f].tail \in Line
    BY LineTypes DEF JournalIInv
<1>5. files' = [files EXCEPT ![f] = [lines |-> Append(files[f].lines, line),
                                     tail |-> files[f].tail]]
    BY <1>1, <1>2, <1>4, AppendedIs DEF WriteInteractionArtifact
<1>6. /\ LinesTyped' /\ EntriesAreUnique' /\ LinesAreNumbered'
      /\ \A g \in Names :
            LinesOf(g)' = IF g = f THEN LinesOf(f) \cup {line} ELSE LinesOf(g)
    BY <1>2, <1>3, <1>4, <1>5, AppendKeeps
<1>7. RecordsStay
    BY <1>3, <1>6, RecordsStayBehindAppend
<1> QED
    BY <1>6, <1>7, OnlyFilesMove DEF WriteInteractionArtifact, JournalIInv, TableTyped

(* A line torn off loses nothing of the file. *)
LEMMA TearStays ==
    ASSUME JournalIInv, NEW f \in Names, NEW line \in Line, Tear(f, line)
    PROVE  LinesTyped' /\ EntriesAreUnique' /\ LinesAreNumbered' /\ RecordsStay
<1>1. /\ LinesTyped' /\ EntriesAreUnique' /\ LinesAreNumbered'
      /\ \A g \in Names : LinesOf(g)' = LinesOf(g)
    BY TearKeeps DEF Tear, JournalIInv
<1>2. \A e \in Events : Recorded(e)' = Recorded(e)
  <2> SUFFICES ASSUME NEW e \in Events PROVE Recorded(e)' = Recorded(e)
      OBVIOUS
  <2>1. PICK g \in Names : g = HomeOf(e)
      BY HomesAreNames
  <2>2. Recorded(e) = {l \in LinesOf(g) : l.kind = "record" /\ l.of = e}
      BY <2>1 DEF Recorded
  <2>3. Recorded(e)' = {l \in LinesOf(g)' : l.kind = "record" /\ l.of = e}
      BY <2>1 DEF Recorded, HomeOf
  <2> QED
      BY <1>1, <2>2, <2>3
<1> QED
    BY <1>1, <1>2 DEF RecordsStay

LEMMA TearsKeep ==
    ASSUME JournalIInv, faults' \in 0 .. MaxFaults
    PROVE  /\ \A key \in Keys : TearArtifact(key) => JournalIInv'
           /\ \A r \in Recorders : TearRecord(r) \/ TearReceipt(r) \/ RecorderDies(r)
                                     => JournalIInv'
<1>1. ASSUME NEW key \in Keys, TearArtifact(key) PROVE JournalIInv'
  <2>1. Percept \in Names /\ ArtifactLine(key) \in Line
      BY DEF Names, ArtifactLine, Line
  <2> QED
      BY <1>1, <2>1, TearStays, OnlyFilesMove DEF TearArtifact
<1>2. ASSUME NEW r \in Recorders, TearRecord(r) PROVE JournalIInv'
  <2>1. recorder[r].event \in Events /\ recorder[r].row \in Row
      BY <1>2, AtWork DEF TearRecord
  <2>2. Percept \in Names /\ RecordLine(recorder[r].event, recorder[r].row.cseq) \in Line
      BY <2>1 DEF Names, RecordLine, Line, Row
  <2>3. LinesTyped' /\ EntriesAreUnique' /\ LinesAreNumbered' /\ RecordsStay
      BY <1>2, <2>2, TearStays DEF TearRecord
  <2> QED
      BY <1>2, <2>3, FailsKeeps DEF TearRecord
<1>3. ASSUME NEW r \in Recorders, TearReceipt(r) PROVE JournalIInv'
  <2>1. /\ recorder[r].event \in Events /\ recorder[r].row \in Row
        /\ HomeOf(recorder[r].event) \in Names
      BY <1>3, AtWork DEF TearReceipt
  <2>2. CommitLine(recorder[r].event, recorder[r].row) \in Line
      BY <2>1 DEF CommitLine, Line, Row
  <2>3. LinesTyped' /\ EntriesAreUnique' /\ LinesAreNumbered' /\ RecordsStay
      BY <1>3, <2>1, <2>2, TearStays DEF TearReceipt
  <2> QED
      BY <1>3, <2>3, FailsKeeps DEF TearReceipt
<1>4. ASSUME NEW r \in Recorders, RecorderDies(r) PROVE JournalIInv'
  <2>1. LinesTyped' /\ EntriesAreUnique' /\ LinesAreNumbered' /\ RecordsStay
      BY <1>4, FilesStay DEF RecorderDies, RecordsStay
  <2>2. nextGlobal' \in {nextGlobal, nextGlobal + 1}
      BY <1>4 DEF RecorderDies
  <2> QED
      BY <1>4, <2>1, <2>2, FailsKeeps DEF RecorderDies
<1> QED
    BY <1>1, <1>2, <1>3, <1>4

(* The table is empty again, and nobody is at work on it. *)
LEMMA EmptyTable ==
    ASSUME LinesTyped', EntriesAreUnique', LinesAreNumbered', faults' \in 0 .. MaxFaults,
           db' = [e \in Events |-> NoRow], nextSeq' = 1, nextGlobal' = 1,
           recorder' = [r \in Recorders |-> IdleRecorder]
    PROVE  JournalIInv'
<1>1. TableTyped'
    BY NoLineIsTyped DEF TableTyped
<1>2. RowsAreNumbered' /\ GlobalSeqIsUnique' /\ CommittedEventHasRecord'
    BY DEF RowsAreNumbered, GlobalSeqIsUnique, CommittedEventHasRecord, HasRow, NoRow
<1>3. OneAllocates' /\ RecordersKnow'
    BY DEF OneAllocates, RecordersKnow, Knows, IdleRecorder
<1> QED
    BY <1>1, <1>2, <1>3 DEF JournalIInv
-----------------------------------------------------------------------------
(* restore-events. *)

(* The record an event has is its only one. *)
LEMMA OneRecord ==
    ASSUME JournalIInv, NEW e \in Events, NEW l \in Recorded(e)
    PROVE  l.cseq \in Nat /\ Recorded(e) = {RecordLine(e, l.cseq)}
<1>1. PICK f \in Names : f = HomeOf(e)
    BY HomesAreNames
<1>2. Recorded(e) = {m \in LinesOf(f) : m.kind = "record" /\ m.of = e}
    BY <1>1 DEF Recorded
<1>3. LinesOf(f) \subseteq Line /\ \A m \in LinesOf(f) : Numbered(m)
    BY LineTypes DEF JournalIInv, LinesAreNumbered
<1>4. \A m \in Recorded(e) : m = l
    BY <1>2 DEF JournalIInv, EntriesAreUnique, LinesOf
<1>5. l = RecordLine(e, l.cseq)
  <2>1. l \in Line /\ l.kind = "record" /\ l.of = e /\ l.gseq = 0
      BY <1>2, <1>3 DEF Numbered
  <2> QED
      BY <2>1 DEF Line, RecordLine
<1>6. l.cseq \in Nat
    BY <1>2, <1>3 DEF Line
<1>7. Recorded(e) = {l}
    BY <1>4
<1> QED
    BY <1>5, <1>6, <1>7

(* The numbers of the commit entries of an event are positive and finitely   *)
(* many.                                                                     *)
LEMMA ReceiptNumbers ==
    ASSUME JournalIInv, NEW e \in Events
    PROVE  /\ \A l \in Receipts(e) : l.gseq \in Nat /\ l.gseq > 0
           /\ IsFiniteSet({l.gseq : l \in Receipts(e)})
<1>1. PICK f \in Names : f = HomeOf(e)
    BY HomesAreNames
<1>2. Receipts(e) = {m \in LinesOf(f) : m.kind = "commit" /\ m.of = e}
    BY <1>1 DEF Receipts
<1>3. LinesOf(f) \subseteq Line /\ \A m \in LinesOf(f) : Numbered(m)
    BY LineTypes DEF JournalIInv, LinesAreNumbered
<1>4. \A l \in Receipts(e) : l.gseq \in Nat /\ l.gseq > 0
    BY <1>2, <1>3 DEF Line, Numbered
<1>5. IsFiniteSet(LinesOf(f))
  <2>1. files[f].lines \in Seq(Line)
      BY LineTypes DEF JournalIInv
  <2>2. Len(files[f].lines) \in Nat /\ DOMAIN files[f].lines = 1 .. Len(files[f].lines)
      BY <2>1
  <2>3. IsFiniteSet(DOMAIN files[f].lines)
      BY <2>2, FS_Interval
  <2> QED
      BY <2>3, ValuesFinite DEF LinesOf
<1>6. IsFiniteSet(Receipts(e))
    BY <1>2, <1>5, FS_Subset
<1>7. IsFiniteSet({l.gseq : l \in Receipts(e)})
  <2>1. PICK g : g = [l \in Receipts(e) |-> l.gseq]
      OBVIOUS
  <2>2. IsFiniteSet({g[l] : l \in Receipts(e)})
      BY <1>6, <2>1, ValuesFinite
  <2> QED
      BY <2>1, <2>2
<1> QED
    BY <1>4, <1>7

LEMMA TopReceiptIsTop ==
    ASSUME JournalIInv
    PROVE  /\ TopReceipt \in Nat
           /\ \A e \in Events : \A l \in Receipts(e) : l.gseq <= TopReceipt
<1> DEFINE N(e) == {l.gseq : l \in Receipts(e)}
           U == UNION {N(e) : e \in Events}
<1>1. IsFiniteSet(U)
  <2>1. PICK g : g = [e \in Events |-> N(e)]
      OBVIOUS
  <2>2. IsFiniteSet({g[e] : e \in Events})
      BY <2>1, JournalAssumption, ValuesFinite
  <2>3. {g[e] : e \in Events} = {N(e) : e \in Events}
      BY <2>1
  <2>4. \A T \in {N(e) : e \in Events} : IsFiniteSet(T)
      BY ReceiptNumbers
  <2> HIDE DEF N
  <2> QED
      BY <2>2, <2>3, <2>4, FS_UNION
<1>2. U \subseteq Nat
  <2> SUFFICES ASSUME NEW e \in Events, NEW x \in N(e) PROVE x \in Nat
      OBVIOUS
  <2> QED
      BY ReceiptNumbers
<1>3. \A e \in Events : \A l \in Receipts(e) : l.gseq \in U
    OBVIOUS
<1>4. TopReceipt = Max({0} \cup U)
    BY DEF TopReceipt
<1> HIDE DEF U
<1>5. TopReceipt \in Nat /\ \A y \in U : y <= TopReceipt
    BY <1>1, <1>2, <1>4, MaxWithZero
<1> QED
    BY <1>3, <1>5

(* The greatest value of a column. *)
LEMMA ColumnMax ==
    ASSUME NEW column \in [Events -> Nat]
    PROVE  /\ Max({0} \cup {column[e] : e \in Events}) \in Nat
           /\ \A e \in Events : column[e] <= Max({0} \cup {column[o] : o \in Events})
<1> DEFINE U == {column[e] : e \in Events}
<1>1. IsFiniteSet(U)
    BY JournalAssumption, ValuesFinite
<1>2. U \subseteq Nat /\ \A e \in Events : column[e] \in U
    OBVIOUS
<1> HIDE DEF U
<1>3. Max({0} \cup U) \in Nat /\ \A y \in U : y <= Max({0} \cup U)
    BY <1>1, <1>2, MaxWithZero
<1>4. \A e \in Events : column[e] <= Max({0} \cup U)
    BY <1>2, <1>3
<1> QED
    BY <1>3, <1>4 DEF U

(* The numbers events get without a commit entry: free, one each, and above  *)
(* every commit entry.                                                       *)
LEMMA NewNumbersAreNew ==
    ASSUME JournalIInv, NEW unknown \in SUBSET Events, NEW n \in NewNumbers(unknown)
    PROVE  /\ DOMAIN n = unknown
           /\ \A e \in unknown : /\ n[e] \in Nat /\ n[e] > TopReceipt
                                 /\ \A o \in Events : db[o].gseq # n[e]
                                 /\ \A o \in unknown : e # o => n[e] # n[o]
<1>1. PICK top : top = Max({TopReceipt, TopRow}) + Cardinality(unknown)
    OBVIOUS
<1>2. PICK free : free = (TopReceipt + 1 .. top) \ {db[e].gseq : e \in Events}
    OBVIOUS
<1>3. n \in [unknown -> free] /\ \A e, o \in unknown : e # o => n[e] # n[o]
    BY <1>1, <1>2 DEF NewNumbers
<1>4. TopReceipt \in Nat
    BY TopReceiptIsTop
<1>5. top \in Nat
  <2>1. TopRow \in Nat
    <3>1. PICK column : column = [e \in Events |-> db[e].gseq]
        OBVIOUS
    <3>2. column \in [Events -> Nat]
        BY <3>1 DEF JournalIInv, TableTyped, Row
    <3>3. {column[e] : e \in Events} = {db[e].gseq : e \in Events}
        BY <3>1
    <3> QED
        BY <3>2, <3>3, ColumnMax DEF TopRow
  <2>2. PICK T : T = {TopReceipt, TopRow}
      OBVIOUS
  <2>3. T \in SUBSET Nat /\ T # {}
      BY <1>4, <2>1, <2>2
  <2>4. IsFiniteSet(T)
    <3>1. IsFiniteSet({TopReceipt}) /\ IsFiniteSet({TopRow})
        BY FS_Singleton
    <3>2. IsFiniteSet({TopReceipt} \cup {TopRow})
        BY <3>1, FS_Union
    <3>3. T = {TopReceipt} \cup {TopRow}
        BY <2>2
    <3> QED
        BY <3>2, <3>3
  <2>5. Max(T) \in Nat
      BY <2>3, <2>4, MaxFacts
  <2>6. Cardinality(unknown) \in Nat
    <3>1. IsFiniteSet(unknown)
        BY JournalAssumption, FS_Subset
    <3> QED
        BY <3>1, FS_CardinalityType
  <2> QED
      BY <1>1, <2>2, <2>5, <2>6
<1>6. \A x \in free : x \in Nat /\ x > TopReceipt /\ \A o \in Events : db[o].gseq # x
    BY <1>2, <1>4, <1>5
<1> QED
    BY <1>3, <1>6

LEMMA RestoreEventsKeeps ==
    ASSUME JournalIInv, RestoreEvents
    PROVE  JournalIInv'
<1>1. PICK lost : lost = Missing
    OBVIOUS
<1>2. PICK unknown : unknown = {e \in lost : Receipts(e) = {}}
    OBVIOUS
<1>3. lost \in SUBSET Events /\ unknown \in SUBSET Events /\ unknown \subseteq lost
    BY <1>1, <1>2 DEF Missing
<1>4. PICK n \in NewNumbers(unknown) :
          db' = [e \in Events |->
                    IF e \notin lost THEN db[e]
                    ELSE [cseq |-> (CHOOSE l \in Recorded(e) : TRUE).cseq,
                          gseq |-> IF e \in DOMAIN n THEN n[e] ELSE GlobalOf(Receipts(e))]]
    BY <1>1, <1>2 DEF RestoreEvents
<1>5. /\ DOMAIN n = unknown
      /\ \A e \in unknown : /\ n[e] \in Nat /\ n[e] > TopReceipt
                            /\ \A o \in Events : db[o].gseq # n[e]
                            /\ \A o \in unknown : e # o => n[e] # n[o]
    BY <1>3, NewNumbersAreNew
<1>6. /\ CanRestore /\ ~ConversationLocked /\ UNCHANGED <<files, recorder, faults>>
      /\ nextSeq' = Max({0} \cup {db'[e].cseq : e \in Events}) + 1
      /\ nextGlobal' = Max({0} \cup {db'[e].gseq : e \in Events}) + 1
    BY DEF RestoreEvents
<1>7. /\ TopReceipt \in Nat
      /\ \A e \in Events : \A l \in Receipts(e) : l.gseq <= TopReceipt
    BY TopReceiptIsTop
\* The global number of a restored event.
<1>7a. PICK g : g = [e \in lost |-> IF e \in unknown THEN n[e] ELSE GlobalOf(Receipts(e))]
    OBVIOUS
<1>8. /\ \A e \in unknown : g[e] = n[e]
      /\ \A e \in lost \ unknown : \E l \in Receipts(e) : g[e] = l.gseq
    BY <1>7a, <1>2, <1>3 DEF GlobalOf
<1>9. ASSUME NEW e \in lost
      PROVE  g[e] \in Nat /\ g[e] > 0 /\ \A o \in Events : db[o].gseq # g[e]
  <2>1. CASE e \in unknown
      BY <1>5, <1>7, <1>8, <2>1
  <2>2. CASE e \notin unknown
    <3>1. PICK l \in Receipts(e) : g[e] = l.gseq
        BY <1>8, <2>2
    <3>2. l.gseq \in Nat /\ l.gseq > 0
        BY <1>3, ReceiptNumbers
    <3>3. \A o \in Events : db[o].gseq # l.gseq
        BY <1>1, <1>6 DEF CanRestore
    <3> QED
        BY <3>1, <3>2, <3>3
  <2> QED
      BY <2>1, <2>2
<1>10. ASSUME NEW e \in lost, NEW o \in lost, e # o PROVE g[e] # g[o]
  <2>1. CASE e \in unknown /\ o \in unknown
    <3>1. \A i, j \in unknown : i # j => n[i] # n[j]
        BY <1>4 DEF NewNumbers
    <3>2. n[e] # n[o]
        BY <1>10, <2>1, <3>1
    <3>3. g[e] = n[e] /\ g[o] = n[o]
        BY <1>8, <2>1
    <3> QED
        BY <3>2, <3>3
  <2>2. CASE e \in unknown /\ o \notin unknown
    <3>1. PICK k \in Receipts(o) : g[o] = k.gseq
        BY <1>8, <2>2
    <3>2. k.gseq <= TopReceipt /\ k.gseq \in Nat
        BY <1>3, <1>7, ReceiptNumbers
    <3> QED
        BY <1>5, <1>7, <1>8, <2>2, <3>1, <3>2
  <2>3. CASE e \notin unknown /\ o \in unknown
    <3>1. PICK k \in Receipts(e) : g[e] = k.gseq
        BY <1>8, <2>3
    <3>2. k.gseq <= TopReceipt /\ k.gseq \in Nat
        BY <1>3, <1>7, ReceiptNumbers
    <3> QED
        BY <1>5, <1>7, <1>8, <2>3, <3>1, <3>2
  <2>4. CASE e \notin unknown /\ o \notin unknown
    <3>1. PICK k \in Receipts(e) : g[e] = k.gseq
        BY <1>8, <2>4
    <3>2. PICK l \in Receipts(o) : g[o] = l.gseq
        BY <1>8, <2>4
    <3>3. l.gseq # k.gseq
        BY <1>1, <1>6, <1>10 DEF CanRestore
    <3> QED
        BY <3>1, <3>2, <3>3
  <2> QED
      BY <2>1, <2>2, <2>3, <2>4
<1>11. \A e \in lost : /\ db'[e] \in Row /\ db'[e].gseq = g[e]
                       /\ Recorded(e) = {RecordLine(e, db'[e].cseq)}
  <2> SUFFICES ASSUME NEW e \in lost
               PROVE  /\ db'[e] \in Row /\ db'[e].gseq = g[e]
                      /\ Recorded(e) = {RecordLine(e, db'[e].cseq)}
      OBVIOUS
  <2>1. PICK l : l = CHOOSE k \in Recorded(e) : TRUE
      OBVIOUS
  <2>2. l \in Recorded(e) /\ e \in Events
      BY <1>1, <1>3, <2>1 DEF Missing
  <2>3. l.cseq \in Nat /\ Recorded(e) = {RecordLine(e, l.cseq)}
      BY <2>2, OneRecord
  <2>4. db'[e] = [cseq |-> l.cseq, gseq |-> g[e]]
      BY <1>7a, <1>4, <1>5, <2>1, <2>2
  <2>5. db'[e].cseq = l.cseq /\ db'[e].gseq = g[e]
      BY <2>4
  <2>6. g[e] \in Nat
      BY <1>9
  <2>7. db'[e] \in Row
      BY <2>3, <2>4, <2>6 DEF Row
  <2> QED
      BY <2>3, <2>5, <2>7
<1>12. \A e \in Events \ lost : db'[e] = db[e]
    BY <1>4
<1>13. db' \in [Events -> Row]
  <2>1. DOMAIN db' = Events /\ db' = [e \in Events |-> db'[e]]
      BY <1>4
  <2>2. \A e \in Events : db'[e] \in Row
    <3>1. \A e \in lost : db'[e] \in Row
        BY <1>11
    <3>2. \A e \in Events : db[e] \in Row
        BY DEF JournalIInv, TableTyped
    <3> QED
        BY <1>12, <3>1, <3>2
  <2> QED
      BY <2>1, <2>2
<1>14. /\ nextSeq' \in Nat \ {0} /\ nextGlobal' \in Nat \ {0}
       /\ \A e \in Events : db'[e].cseq < nextSeq' /\ db'[e].gseq < nextGlobal'
  <2>1. PICK c : c = [e \in Events |-> db'[e].cseq]
      OBVIOUS
  <2>2. PICK h : h = [e \in Events |-> db'[e].gseq]
      OBVIOUS
  <2>3. c \in [Events -> Nat] /\ h \in [Events -> Nat]
      BY <1>13, <2>1, <2>2 DEF Row
  <2>4. {c[e] : e \in Events} = {db'[e].cseq : e \in Events}
      BY <2>1
  <2>5. {h[e] : e \in Events} = {db'[e].gseq : e \in Events}
      BY <2>2
  <2>6. PICK x : x = Max({0} \cup {c[e] : e \in Events})
      OBVIOUS
  <2>7. PICK y : y = Max({0} \cup {h[e] : e \in Events})
      OBVIOUS
  <2>8. x \in Nat /\ \A e \in Events : c[e] <= x
      BY <2>3, <2>6, ColumnMax
  <2>9. y \in Nat /\ \A e \in Events : h[e] <= y
      BY <2>3, <2>7, ColumnMax
  <2>10. nextSeq' = x + 1
      BY <1>6, <2>4, <2>6
  <2>11. nextGlobal' = y + 1
      BY <1>6, <2>5, <2>7
  <2>12. \A e \in Events : c[e] = db'[e].cseq /\ h[e] = db'[e].gseq
      BY <2>1, <2>2
  <2>13. \A e \in Events : db'[e].cseq < nextSeq' /\ db'[e].gseq < nextGlobal'
    <3> SUFFICES ASSUME NEW e \in Events
                 PROVE  db'[e].cseq < nextSeq' /\ db'[e].gseq < nextGlobal'
        OBVIOUS
    <3>1. c[e] \in Nat /\ h[e] \in Nat /\ c[e] <= x /\ h[e] <= y
        BY <2>3, <2>8, <2>9
    <3>2. c[e] < x + 1 /\ h[e] < y + 1
        BY <2>8, <2>9, <3>1
    <3> QED
        BY <2>10, <2>11, <2>12, <3>2
  <2> QED
      BY <2>8, <2>9, <2>10, <2>11, <2>13
<1>15. \A e \in Events : db'[e] # NoRow => db'[e].gseq > 0
  <2> SUFFICES ASSUME NEW e \in Events, db'[e] # NoRow PROVE db'[e].gseq > 0
      OBVIOUS
  <2>1. CASE e \in lost
      BY <1>9, <1>11, <2>1
  <2>2. CASE e \notin lost
      BY <1>12, <2>2 DEF JournalIInv, RowsAreNumbered, HasRow
  <2> QED
      BY <2>1, <2>2
<1>16. TableTyped' /\ RowsAreNumbered'
    BY <1>6, <1>13, <1>14, <1>15 DEF JournalIInv, TableTyped, RowsAreNumbered, HasRow
<1>17. GlobalSeqIsUnique'
  <2> SUFFICES ASSUME NEW e \in Events, NEW o \in Events, db'[e] # NoRow, e # o
               PROVE  db'[e].gseq # db'[o].gseq
      BY DEF GlobalSeqIsUnique, HasRow
  <2>1. \A k \in lost : db'[k].gseq = g[k]
      BY <1>11
  <2>2. CASE e \in lost /\ o \in lost
      BY <1>10, <2>1, <2>2
  <2>3. CASE e \in lost /\ o \notin lost
      BY <1>9, <1>12, <2>1, <2>3
  <2>4. CASE e \notin lost /\ o \in lost
      BY <1>9, <1>12, <2>1, <2>4
  <2>5. CASE e \notin lost /\ o \notin lost
      BY <1>12, <2>5 DEF JournalIInv, GlobalSeqIsUnique, HasRow
  <2> QED
      BY <2>2, <2>3, <2>4, <2>5
<1>18. /\ LinesTyped' /\ EntriesAreUnique' /\ LinesAreNumbered'
       /\ \A e : Recorded(e)' = Recorded(e)
    BY <1>6, FilesStay
<1>19. CommittedEventHasRecord'
  <2> SUFFICES ASSUME NEW e \in Events, db'[e] # NoRow
               PROVE  Recorded(e) = {RecordLine(e, db'[e].cseq)}
      BY <1>18 DEF CommittedEventHasRecord, HasRow, RecordLine
  <2>1. CASE e \in lost
      BY <1>11, <2>1
  <2>2. CASE e \notin lost
      BY <1>12, <2>2 DEF JournalIInv, CommittedEventHasRecord, HasRow
  <2> QED
      BY <2>1, <2>2
<1>20. \A s \in Recorders : recorder'[s] = recorder[s] /\ ~Locks(recorder[s])
    BY <1>6 DEF ConversationLocked, Locks
<1>21. OneAllocates'
    BY <1>20 DEF OneAllocates, Locks
<1>22. RecordersKnow'
  <2> SUFFICES ASSUME NEW s \in Recorders PROVE Knows(recorder[s])'
      BY DEF RecordersKnow
  <2>1. recorder'[s] = recorder[s] /\ ~Locks(recorder[s]) /\ Knows(recorder[s])
      BY <1>20 DEF JournalIInv, RecordersKnow
  <2>2. recorder[s].at \in {"mirroring", "committed"} => recorder[s].event \in Events \ lost
      BY <1>1, <2>1 DEF Knows, Missing
  <2> QED
      BY <1>12, <2>1, <2>2 DEF Knows, HasRow, Locks
<1> QED
    BY <1>16, <1>17, <1>18, <1>19, <1>21, <1>22 DEF JournalIInv
-----------------------------------------------------------------------------
LEMMA JournalStarts == JournalInit => JournalIInv
<1> SUFFICES ASSUME JournalInit PROVE JournalIInv
    OBVIOUS
<1>1. TableTyped
    BY NoLineIsTyped, JournalAssumption DEF JournalInit, TableTyped
<1>2. \A f \in Names : files[f].lines = <<>> /\ files[f].tail = NoLine
    BY DEF JournalInit
<1>3. LinesTyped
    BY NoLineIsTyped DEF JournalInit, LinesTyped
<1>4. EntriesAreUnique /\ LinesAreNumbered
    BY <1>2 DEF EntriesAreUnique, LinesAreNumbered, LinesOf
<1>5. RowsAreNumbered /\ GlobalSeqIsUnique /\ CommittedEventHasRecord
    BY DEF JournalInit, RowsAreNumbered, GlobalSeqIsUnique, CommittedEventHasRecord, HasRow, NoRow
<1>6. OneAllocates /\ RecordersKnow
    BY DEF JournalInit, OneAllocates, RecordersKnow, Knows, IdleRecorder
<1> QED
    BY <1>1, <1>3, <1>4, <1>5, <1>6 DEF JournalIInv

LEMMA JournalStep == JournalIInv /\ [JournalNext]_journalVars => JournalIInv'
<1> SUFFICES ASSUME JournalIInv, [JournalNext]_journalVars PROVE JournalIInv'
    OBVIOUS
<1>1. ASSUME NEW r \in Recorders, Record(r) PROVE JournalIInv'
    BY <1>1, LookUpKeeps, AllocateKeeps, WriteRecordKeeps, CommitRowKeeps, CommitCollidesKeeps,
       WriteReceiptKeeps DEF Record
<1>2. ASSUME NEW key \in Keys, WriteInteractionArtifact(key) PROVE JournalIInv'
    BY <1>2, WriteInteractionArtifactKeeps
<1>3. CASE RestoreEvents
    BY <1>3, RestoreEventsKeeps
<1>4. CASE JournalFault
  <2>1. faults' \in 0 .. MaxFaults
      BY <1>4, JournalAssumption DEF JournalFault, JournalIInv, TableTyped
  <2>2. CASE LoseDatabase
    <3>1. LinesTyped' /\ EntriesAreUnique' /\ LinesAreNumbered'
        BY <2>2, FilesStay DEF LoseDatabase
    <3> QED
        BY <2>1, <2>2, <3>1, EmptyTable DEF LoseDatabase
  <2> QED
      BY <1>4, <2>1, <2>2, TearsKeep DEF JournalFault
<1>5. CASE UNCHANGED journalVars
  <2>1. UNCHANGED <<db, nextSeq, nextGlobal, files, recorder, faults>>
      BY <1>5 DEF journalVars
  <2>2. faults' \in 0 .. MaxFaults
      BY <2>1 DEF JournalIInv, TableTyped
  <2>3. LinesTyped' /\ EntriesAreUnique' /\ LinesAreNumbered' /\ RecordsStay
      BY <2>1, FilesStay DEF RecordsStay
  <2> QED
      BY <2>1, <2>2, <2>3, OnlyFilesMove
<1> QED
    BY <1>1, <1>2, <1>3, <1>4, <1>5 DEF JournalNext

(* For any number of events, processes and faults: a committed event has its *)
(* record on disk, no file holds an entry twice, and no two events share a   *)
(* number of the global order (record_event, write_event_record,             *)
(* write_event_commit, restore_event_store_from_artifacts).                  *)
THEOREM EventsStayOnRecord == JournalSpec => []EventsAreOnRecord
<1>1. JournalIInv => EventsAreOnRecord
  <2> SUFFICES ASSUME JournalIInv PROVE JournalTypeOK
      BY DEF EventsAreOnRecord, JournalIInv
  <2>1. \A e \in Events : db[e].cseq \in 0 .. nextSeq - 1 /\ db[e].gseq \in 0 .. nextGlobal - 1
      BY DEF JournalIInv, TableTyped, Row, RowsAreNumbered
  <2>2. DOMAIN files = Names
      BY DEF JournalIInv, LinesTyped
  <2>3. \A r \in Recorders :
          /\ recorder[r].at \in {"idle", "checked", "allocated", "journaled", "mirroring", "committed"}
          /\ recorder[r].event \in Events \cup {NoEvent}
      BY DEF JournalIInv, TableTyped, Recorder
  <2> QED
      BY <2>1, <2>2, <2>3 DEF JournalTypeOK, JournalIInv, TableTyped
<1> QED
    BY <1>1, JournalStarts, JournalStep, PTL DEF JournalSpec
-----------------------------------------------------------------------------
(* The jobs of the local app. *)
Receipt == [status : {"none"} \cup ActiveStates \cup FinalStates, pid : BOOLEAN]
WorkerStates == {"none", "running", "succeeded", "failed", "killed"}
Server == [up : BOOLEAN, active : JobIds \cup {NoJob}, adopted : BOOLEAN,
           at : {"idle", "launch", "pid", "kill"}, job : JobIds \cup {NoJob}]

JobTypes ==
    /\ receipt \in [JobIds -> Receipt]
    /\ worker \in [JobIds -> WorkerStates]
    /\ outcome \subseteq JobIds
    /\ server \in Server
    /\ crashes \in 0 .. MaxCrashes

Named(j) == receipt[j].pid /\ worker[j] = "running"

(* A server that is down has nothing at hand; one that launches a job has no *)
(* active one, and one that kills a job kills its active one.                *)
ServerIsAtOneJob ==
    /\ server.at = "idle" <=> server.job = NoJob
    /\ ~server.up => server.at = "idle" /\ server.active = NoJob
    /\ server.at \in {"launch", "pid"} => server.active = NoJob
    /\ server.at = "kill" => server.active = server.job
    /\ server.active # NoJob => receipt[server.active].status \in ActiveStates

(* The receipt of the job that is being launched is there, without a process *)
(* id until the last step.                                                   *)
LaunchIsRecorded ==
    server.at \in {"launch", "pid"} =>
        receipt[server.job].status = "running" /\ ~receipt[server.job].pid

(* A job has a process only after it has a receipt, and a process that       *)
(* succeeded has left a result.                                              *)
ProcessesFollowReceipts ==
    \A j \in JobIds :
        /\ receipt[j].status = "none" => worker[j] = "none"
        /\ server.at = "launch" /\ server.job = j => worker[j] = "none"
        /\ server.at = "pid" /\ server.job = j => worker[j] # "none"
        /\ receipt[j].pid => worker[j] # "none"
        /\ worker[j] = "succeeded" => j \in outcome

(* Of the processes that receipts name one runs at most; its receipt is      *)
(* still active, and a server that is up has it as its active job.           *)
NamedIsActive ==
    /\ \A j \in JobIds : Named(j) =>
          /\ receipt[j].status \in ActiveStates
          /\ server.up => server.active = j
    /\ \A i, j \in JobIds : Named(i) /\ Named(j) => i = j

JobsIInv ==
    /\ JobTypes /\ ServerIsAtOneJob /\ LaunchIsRecorded /\ ProcessesFollowReceipts
    /\ NamedIsActive /\ CompletedHasResult
-----------------------------------------------------------------------------
LEMMA IdleServerIsAServer == IdleServer \in Server
BY DEF IdleServer, Server

(* The process id goes into a receipt and leaves its status alone. *)
LEMMA RecordedPid ==
    \A r \in Receipt : [r EXCEPT !.pid = TRUE] = [status |-> r.status, pid |-> TRUE]
<1> SUFFICES ASSUME NEW r \in Receipt
             PROVE  [r EXCEPT !.pid = TRUE] = [status |-> r.status, pid |-> TRUE]
    OBVIOUS
<1>1. r = [status |-> r.status, pid |-> r.pid]
    BY DEF Receipt
<1>2. ASSUME NEW s, NEW p, NEW q
      PROVE  [[status |-> s, pid |-> p] EXCEPT !.pid = q] = [status |-> s, pid |-> q]
    OBVIOUS
<1>3. [r EXCEPT !.pid = TRUE] =
          [[status |-> r.status, pid |-> r.pid] EXCEPT !.pid = TRUE]
    BY <1>1, Zenon
<1>4. [[status |-> r.status, pid |-> r.pid] EXCEPT !.pid = TRUE] =
          [status |-> r.status, pid |-> TRUE]
    BY <1>2, Zenon
<1> QED
    BY <1>3, <1>4, Zenon

(* Before the first job nothing has a receipt. *)
LEMMA JobsInitEstablishes == JobsInit => JobsIInv
<1> SUFFICES ASSUME JobsInit PROVE JobsIInv
    OBVIOUS
<1> USE DEF JobsInit, NoReceipt, IdleServer
<1>1. JobTypes
    BY JobsAssumption, IdleServerIsAServer DEF JobTypes, Receipt, WorkerStates
<1>2. ServerIsAtOneJob /\ LaunchIsRecorded
    BY DEF ServerIsAtOneJob, LaunchIsRecorded
<1>3. ProcessesFollowReceipts /\ NamedIsActive /\ CompletedHasResult
    BY DEF ProcessesFollowReceipts, NamedIsActive, CompletedHasResult, Named
<1> QED
    BY <1>1, <1>2, <1>3 DEF JobsIInv

LEMMA JobsStepPreserves == JobsIInv /\ [JobsNext]_jobVars => JobsIInv'
<1> SUFFICES ASSUME JobsIInv, [JobsNext]_jobVars PROVE JobsIInv'
    OBVIOUS
<1> USE JobsAssumption
<1> USE DEF JobsIInv, JobTypes, ServerIsAtOneJob, LaunchIsRecorded, ProcessesFollowReceipts,
            NamedIsActive, CompletedHasResult, Named, Receipt, Server, WorkerStates,
            ActiveStates, FinalStates, ServerFree, Writes, IdleServer, NoReceipt
<1>1. CASE UNCHANGED jobVars
    BY <1>1 DEF jobVars
<1>2. ASSUME NEW j \in JobIds, Submit(j) PROVE JobsIInv'
  <2>1. /\ server.up /\ server.active = NoJob /\ receipt[j] = NoReceipt
        /\ server' = [server EXCEPT !.at = "launch", !.job = j]
        /\ UNCHANGED <<worker, outcome, crashes>>
      BY <1>2 DEF Submit
  <2>2. /\ receipt' \in [JobIds -> Receipt]
        /\ \A i \in JobIds : /\ receipt'[i].pid = receipt[i].pid
                             /\ receipt'[i].status = IF i = j THEN "running" ELSE receipt[i].status
      BY <1>2 DEF Submit
  <2>3. JobTypes'
      BY <2>1, <2>2
  <2>4. ServerIsAtOneJob' /\ LaunchIsRecorded'
      BY <2>1, <2>2
  <2>5. ProcessesFollowReceipts'
      BY <2>1, <2>2
  <2>6. NamedIsActive' /\ CompletedHasResult'
      BY <2>1, <2>2
  <2> QED
      BY <2>3, <2>4, <2>5, <2>6
<1>3. CASE Launch
    BY <1>3 DEF Launch
<1>4. CASE LaunchFails
    BY <1>4 DEF LaunchFails
<1>5. CASE RecordPid
  <2> DEFINE k == server.job
  <2>1. /\ k \in JobIds /\ server.active = NoJob /\ server.up
        /\ receipt[k].status = "running" /\ ~receipt[k].pid
        /\ server' = [up |-> TRUE, active |-> k, adopted |-> FALSE, at |-> "idle", job |-> NoJob]
        /\ UNCHANGED <<worker, outcome, crashes>>
      BY <1>5 DEF RecordPid
  <2>2. /\ receipt' \in [JobIds -> Receipt]
        /\ \A i \in JobIds \ {k} : receipt'[i] = receipt[i]
        /\ receipt'[k] = [status |-> "running", pid |-> TRUE]
    <3>1. receipt' = [receipt EXCEPT ![k] = [receipt[k] EXCEPT !.pid = TRUE]]
        BY <1>5 DEF RecordPid
    <3>2. receipt[k] \in Receipt /\ receipt[k].status = "running"
        BY <2>1
    <3>3. [receipt[k] EXCEPT !.pid = TRUE] = [status |-> "running", pid |-> TRUE]
        BY <3>2, RecordedPid
    <3>4. receipt' = [receipt EXCEPT ![k] = [status |-> "running", pid |-> TRUE]]
        BY <3>1, <3>3
    <3>5. [status |-> "running", pid |-> TRUE] \in Receipt
        OBVIOUS
    <3> HIDE DEF Receipt, k, Named
    <3> QED
        BY <3>4, <3>5, <2>1
  <2>7. worker[k] # "none"
      BY <1>5 DEF RecordPid
  <2>3. JobTypes'
      BY <2>1, <2>2, <2>7
  <2>4. ServerIsAtOneJob' /\ LaunchIsRecorded'
      BY <2>1, <2>2, <2>7
  <2>5. ProcessesFollowReceipts'
      BY <2>1, <2>2, <2>7
  <2>8. \A i \in JobIds : Named(i)' => i = k
      BY <2>1, <2>2
  <2>6. NamedIsActive' /\ CompletedHasResult'
      BY <2>1, <2>2, <2>8
  <2> QED
      BY <2>3, <2>4, <2>5, <2>6
<1>6. ASSUME NEW j \in JobIds, WorkerWrites(j) PROVE JobsIInv'
    BY <1>6 DEF WorkerWrites
<1>7. ASSUME NEW j \in JobIds, WorkerExits(j) PROVE JobsIInv'
    BY <1>7 DEF WorkerExits
<1>8. ASSUME NEW j \in JobIds, Settle(j) PROVE JobsIInv'
    BY <1>8 DEF Settle
<1>9. ASSUME NEW j \in JobIds, Cancel(j) PROVE JobsIInv'
  <2>1. /\ server.up /\ server.active = j /\ server.at = "idle"
        /\ server' = [server EXCEPT !.at = "kill", !.job = j]
        /\ UNCHANGED <<worker, outcome, crashes>>
      BY <1>9 DEF Cancel
  <2>2. /\ receipt' \in [JobIds -> Receipt]
        /\ \A i \in JobIds : /\ receipt'[i].pid = receipt[i].pid
                             /\ receipt'[i].status = IF i = j THEN "cancelling" ELSE receipt[i].status
      BY <1>9 DEF Cancel
  <2>3. JobTypes'
      BY <2>1, <2>2
  <2>4. ServerIsAtOneJob' /\ LaunchIsRecorded'
      BY <2>1, <2>2
  <2>5. ProcessesFollowReceipts'
      BY <2>1, <2>2
  <2>6. NamedIsActive' /\ CompletedHasResult'
      BY <2>1, <2>2
  <2> QED
      BY <2>3, <2>4, <2>5, <2>6
<1>10. CASE Kill
  <2> DEFINE k == server.job
  <2>1. /\ k \in JobIds /\ server.active = k /\ server.up
        /\ server' = [server EXCEPT !.at = "idle", !.job = NoJob]
        /\ UNCHANGED <<receipt, outcome, crashes>>
      BY <1>10 DEF Kill
  <2>2. /\ worker' \in [JobIds -> WorkerStates]
        /\ \A i \in JobIds : worker'[i] = IF i = k /\ worker[i] = "running" THEN "killed" ELSE worker[i]
      BY <1>10 DEF Kill
  <2>3. JobTypes'
      BY <2>1, <2>2
  <2>4. ServerIsAtOneJob' /\ LaunchIsRecorded'
      BY <2>1, <2>2
  <2>5. ProcessesFollowReceipts'
      BY <2>1, <2>2
  <2>6. NamedIsActive' /\ CompletedHasResult'
      BY <2>1, <2>2
  <2> QED
      BY <2>3, <2>4, <2>5, <2>6
<1>11. CASE ServerDies
  <2>1. /\ server' = [up |-> FALSE, active |-> NoJob, adopted |-> FALSE, at |-> "idle", job |-> NoJob]
        /\ UNCHANGED <<receipt, worker, outcome>>
      BY <1>11 DEF ServerDies
  <2>2. crashes' \in 0 .. MaxCrashes
      BY <1>11 DEF ServerDies
  <2>3. JobTypes'
      BY <2>1, <2>2
  <2>4. ServerIsAtOneJob' /\ LaunchIsRecorded'
      BY <2>1, <2>2
  <2>5. ProcessesFollowReceipts'
      BY <2>1, <2>2
  <2>6. NamedIsActive' /\ CompletedHasResult'
      BY <2>1, <2>2
  <2> QED
      BY <2>3, <2>4, <2>5, <2>6
<1>12. CASE Restart
  <2>1. PICK adopted \in IF Owned = {} THEN {NoJob} ELSE Owned :
            /\ receipt' = [j \in JobIds |->
                              IF receipt[j].status \in ActiveStates /\ j # adopted
                              THEN [receipt[j] EXCEPT !.status = "interrupted"] ELSE receipt[j]]
            /\ server' = [up |-> TRUE, active |-> adopted, adopted |-> adopted # NoJob,
                          at |-> "idle", job |-> NoJob]
      BY ONLY <1>12 DEF Restart
  <2>2. /\ receipt' \in [JobIds -> Receipt]
        /\ \A j \in JobIds : /\ receipt'[j].pid = receipt[j].pid
                             /\ receipt'[j].status =
                                   IF receipt[j].status \in ActiveStates /\ j # adopted
                                   THEN "interrupted" ELSE receipt[j].status
    <3>1. ASSUME NEW r \in Receipt
          PROVE  /\ [r EXCEPT !.status = "interrupted"] \in Receipt
                 /\ [r EXCEPT !.status = "interrupted"].pid = r.pid
                 /\ [r EXCEPT !.status = "interrupted"].status = "interrupted"
        BY DEF Receipt
    <3>2. receipt \in [JobIds -> Receipt]
        OBVIOUS
    <3> QED
        BY ONLY <2>1, <3>1, <3>2
  <2>7. /\ UNCHANGED <<worker, outcome, crashes>>
        /\ adopted \in JobIds \cup {NoJob}
        /\ adopted # NoJob => receipt[adopted].status \in ActiveStates
      BY <1>12 DEF Restart, Owned
  <2>8. \A j \in JobIds : Named(j) => j = adopted
    <3> SUFFICES ASSUME NEW j \in JobIds, Named(j) PROVE j = adopted
        OBVIOUS
    <3>1. j \in Owned
        BY DEF Owned
    <3>2. adopted \in Owned
        BY <3>1
    <3> QED
        BY <3>1, <3>2 DEF Owned
  <2>3. JobTypes'
      BY <2>1, <2>2, <2>7, <2>8
  <2>4. ServerIsAtOneJob' /\ LaunchIsRecorded'
      BY <2>1, <2>2, <2>7, <2>8
  <2>5. ProcessesFollowReceipts'
      BY <2>1, <2>2, <2>7, <2>8
  <2>6. NamedIsActive' /\ CompletedHasResult'
      BY <2>1, <2>2, <2>7, <2>8
  <2> QED
      BY <2>3, <2>4, <2>5, <2>6
<1> QED
    BY <1>1, <1>2, <1>3, <1>4, <1>5, <1>6, <1>7, <1>8, <1>9, <1>10, <1>11, <1>12
    DEF JobsNext, ServerStep

(* Jobs and their processes agree for ever: a receipt that says "completed"  *)
(* has a result behind it, and no second named worker runs beside the active *)
(* job, however often the server dies between two writes (gui_jobs.py).      *)
THEOREM JobsStayOwned == JobsSpec => []JobsAreOwned
<1>1. JobsIInv => JobsAreOwned
  <2> SUFFICES ASSUME JobsIInv PROVE JobsAreOwned
      OBVIOUS
  <2>1. JobsTypeOK
      BY DEF JobsIInv, JobTypes, ServerIsAtOneJob, ProcessesFollowReceipts, JobsTypeOK, Receipt
  <2> DEFINE named == {j \in JobIds : receipt[j].pid /\ worker[j] = "running"}
  <2>2. ServerFree => named \subseteq {server.active}
      BY DEF JobsIInv, NamedIsActive, Named, ServerFree
  <2>3. Cardinality(named) <= 1
    <3>1. CASE named = {}
        BY <3>1, FS_EmptySet
    <3>2. CASE named # {}
      <4>1. PICK j \in named : TRUE
          BY <3>2
      <4>2. \A i \in named : i = j
          BY <4>1 DEF JobsIInv, NamedIsActive, Named
      <4> HIDE DEF named
      <4>3. named = {j}
          BY <4>1, <4>2
      <4>4. Cardinality({j}) = 1
          BY FS_Singleton
      <4> QED
          BY <4>3, <4>4
    <3> QED
        BY <3>1, <3>2
  <2> QED
      BY <2>1, <2>2, <2>3 DEF JobsAreOwned, OneOwnedWorker, JobsIInv
<1> QED
    BY <1>1, JobsInitEstablishes, JobsStepPreserves, PTL DEF JobsSpec
-----------------------------------------------------------------------------
(* Managed files. *)

FileStates == {"backup", "recheck", "replace", "link", "unlink", "finish", "move", "trash",
               "record", "vacant", "restore", "manifest", "publish", "clear"}
Request == [at : FileStates \cup {"rest"}, path : Paths \cup {NoPath}, dest : Paths \cup {NoPath},
            op : Nat, content : Nat, original : Nat, item : Nat]
Upload == [open : BOOLEAN, path : Paths \cup {NoPath}, temporary : Seq(Nat), known : BOOLEAN,
           placed : Seq(Nat)]

FilesTyped ==
    /\ disk \in [Paths -> Nat] /\ bin \in [Ops -> Nat]
    /\ receipts \in [Ops -> Paths \cup {NoPath}]
    /\ versions \in Nat /\ operations \in Nat
    /\ fresh \subseteq Paths /\ twice \subseteq Paths /\ kept \subseteq Nat /\ managed \subseteq Nat
    /\ restored \subseteq Ops
    /\ desk \in Request /\ upload \in Upload
    /\ fileDeaths \in 0 .. MaxFileDeaths

(* Contents are numbered in the order they come into being. *)
ContentsAreNumbered ==
    /\ \A p \in Paths : disk[p] <= versions
    /\ \A o \in Ops : bin[o] <= versions
    /\ kept \cup managed \subseteq 1 .. versions
    /\ desk.content <= versions /\ desk.original <= versions

(* A request has what its next step needs: a path, another one to move to,   *)
(* a new content, the number of its operation, a trash item.                 *)
RequestIsComplete ==
    /\ desk.at \notin {"rest", "manifest"} => desk.path \in Paths
    /\ desk.at = "move" => desk.dest \in Paths /\ desk.dest # desk.path
    /\ desk.at \in {"backup", "recheck", "replace", "link", "publish"} => desk.content > 0
    /\ desk.at \in {"trash", "record"} => desk.op \in Ops
    /\ desk.at \in {"vacant", "restore"} => desk.item \in Ops /\ receipts[desk.item] # NoPath
    /\ desk.at = "publish" => Len(upload.temporary) = Chunks
    /\ desk.at = "replace" => Replacing
    /\ upload.open => upload.path \in Paths

RevisionsAreOfFiles == fresh \cup twice \subseteq {p \in Paths : Exists(p)}

(* An operation is numbered once, and only a completed receipt is restored. *)
OperationsAreNumbered ==
    /\ desk.op <= operations
    /\ \A o \in Ops :
          /\ bin[o] # Absent \/ receipts[o] # NoPath => o <= operations
          /\ o \in restored => receipts[o] # NoPath
    /\ desk.at = "trash" => bin[desk.op] = Absent
    /\ desk.at = "record" => bin[desk.op] # Absent
    /\ desk.at \in {"trash", "record"} => receipts[desk.op] = NoPath

(* What is about to be overwritten is no managed content, or it is kept. *)
OverwritesNothing ==
    /\ desk.at = "recheck" /\ Replacing /\ disk[desk.path] = desk.original => desk.original \in kept
    /\ desk.at = "replace" => disk[desk.path] \notin managed \/ disk[desk.path] \in kept
    /\ desk.at = "restore" => disk[desk.path] \notin managed
    /\ desk.at = "move" => disk[desk.dest] \notin managed

(* The chunks that are there are the first ones, in order. *)
ChunksAreInOrder ==
    /\ upload.temporary = [i \in 1 .. Len(upload.temporary) |-> i]
    /\ UploadIsWhole

FilesIInv ==
    /\ FilesTyped /\ ContentsAreNumbered /\ RequestIsComplete /\ RevisionsAreOfFiles
    /\ OperationsAreNumbered /\ TrashReceiptIsTrue /\ OverwritesNothing /\ ChunksAreInOrder
-----------------------------------------------------------------------------
LEMMA AtRestIsARequest == AtRest \in Request
BY DEF AtRest, Request, Absent

(* The fields of a request that goes on. *)
LEMMA RequestGoesOn ==
    ASSUME desk \in Request, NEW next \in FileStates, GoesTo(next)
    PROVE  /\ desk' \in Request /\ desk'.at = next /\ desk'.path = desk.path
           /\ desk'.dest = desk.dest /\ desk'.op = desk.op /\ desk'.content = desk.content
           /\ desk'.original = desk.original /\ desk'.item = desk.item
BY DEF GoesTo, Request

LEMMA RequestBegins ==
    ASSUME NEW request \in Request, operations \in Nat, NEW next \in FileStates,
           NEW p \in Paths, Begin(next, p, request)
    PROVE  /\ desk = AtRest /\ operations < MaxOperations /\ operations' = operations + 1
           /\ operations + 1 \in Ops
           /\ desk' \in Request /\ desk'.at = next /\ desk'.path = p /\ desk'.op = operations + 1
           /\ desk'.dest = request.dest /\ desk'.content = request.content
           /\ desk'.original = request.original /\ desk'.item = request.item
<1>1. /\ desk = AtRest /\ operations < MaxOperations /\ operations' = operations + 1
      /\ desk' = [request EXCEPT !.at = next, !.path = p, !.op = operations + 1]
    BY DEF Begin
<1>2. MaxOperations \in Nat
    BY FilesAssumption
<1>3. operations + 1 \in Ops
    BY <1>1, <1>2 DEF Ops
<1>4. PICK n \in Nat : n = operations + 1
    OBVIOUS
<1>5. desk' = [at |-> next, path |-> p, dest |-> request.dest, op |-> n,
               content |-> request.content, original |-> request.original, item |-> request.item]
    BY <1>1, <1>4 DEF Request
<1>6. desk' \in Request
    BY <1>4, <1>5 DEF Request
<1> QED
    BY <1>1, <1>3, <1>4, <1>5, <1>6

(* The invariant when the request at work is over, or the server dies. *)
LEMMA RequestEnds ==
    ASSUME FilesIInv, desk' = AtRest, fileDeaths' \in 0 .. MaxFileDeaths,
           UNCHANGED <<store, ledger, upload, managed, versions, operations>>
    PROVE  FilesIInv'
<1> USE DEF store, ledger
<1>1. FilesTyped'
    BY AtRestIsARequest DEF FilesIInv, FilesTyped
<1>2. ContentsAreNumbered' /\ OperationsAreNumbered'
    BY DEF FilesIInv, ContentsAreNumbered, OperationsAreNumbered, FilesTyped, AtRest, Absent
<1>3. RequestIsComplete' /\ OverwritesNothing'
    BY DEF FilesIInv, RequestIsComplete, OverwritesNothing, AtRest
<1>4. RevisionsAreOfFiles' /\ TrashReceiptIsTrue' /\ ChunksAreInOrder'
    BY DEF FilesIInv, RevisionsAreOfFiles, TrashReceiptIsTrue, ChunksAreInOrder, UploadIsWhole,
           Exists
<1> QED
    BY <1>1, <1>2, <1>3, <1>4 DEF FilesIInv

(* The invariant when the request only goes on. *)
LEMMA RequestAdvances ==
    ASSUME FilesIInv, NEW next \in {"recheck", "replace", "link", "restore", "finish"},
           GoesTo(next), desk.at \notin {"rest", "manifest"},
           UNCHANGED <<store, bin, receipts, restored, upload, managed, bounds>>,
           kept' \in {kept} \cup {kept \cup {disk[desk.path]}}, kept' \subseteq 1 .. versions,
           next \in {"recheck", "replace", "link"} => desk.content > 0,
           next = "replace" => Replacing,
           next = "restore" => desk.item \in Ops /\ receipts[desk.item] # NoPath,
           OverwritesNothing'
    PROVE  FilesIInv'
<1> USE DEF store, bounds
<1>1. /\ desk' \in Request /\ desk'.at = next /\ desk'.path = desk.path
      /\ desk'.dest = desk.dest /\ desk'.op = desk.op /\ desk'.content = desk.content
      /\ desk'.original = desk.original /\ desk'.item = desk.item
    BY RequestGoesOn DEF FilesIInv, FilesTyped, FileStates
<1>2. FilesTyped'
    BY <1>1 DEF FilesIInv, FilesTyped
<1>3. ContentsAreNumbered' /\ OperationsAreNumbered'
    BY <1>1 DEF FilesIInv, ContentsAreNumbered, OperationsAreNumbered
<1>4. RequestIsComplete'
    BY <1>1 DEF FilesIInv, RequestIsComplete, Replacing
<1>5. RevisionsAreOfFiles' /\ TrashReceiptIsTrue' /\ ChunksAreInOrder'
    BY DEF FilesIInv, RevisionsAreOfFiles, TrashReceiptIsTrue, ChunksAreInOrder, UploadIsWhole,
           Exists
<1> QED
    BY <1>2, <1>3, <1>4, <1>5 DEF FilesIInv

(* The world besides the app. *)
LEMMA LookKeeps ==
    ASSUME FilesIInv, NEW p \in Paths, Look(p)
    PROVE  FilesIInv'
<1> USE DEF Look, ledger
<1>1. FilesTyped' /\ ContentsAreNumbered'
    BY DEF FilesIInv, FilesTyped, ContentsAreNumbered
<1>2. RequestIsComplete' /\ OperationsAreNumbered' /\ OverwritesNothing'
    BY DEF FilesIInv, RequestIsComplete, OperationsAreNumbered, OverwritesNothing, Replacing
<1>3. RevisionsAreOfFiles' /\ TrashReceiptIsTrue' /\ ChunksAreInOrder'
    BY DEF FilesIInv, RevisionsAreOfFiles, TrashReceiptIsTrue, ChunksAreInOrder, UploadIsWhole,
           Exists
<1> QED
    BY <1>1, <1>2, <1>3 DEF FilesIInv

LEMMA ExternalWriteKeeps ==
    ASSUME FilesIInv, NEW p \in Paths, ExternalWrite(p)
    PROVE  FilesIInv'
<1> USE DEF ExternalWrite, ledger, Put
<1>1. versions \in Nat /\ versions' = versions + 1
    BY DEF FilesIInv, FilesTyped
<1>2. \A q \in Paths : disk'[q] = IF q = p THEN versions + 1 ELSE disk[q]
    BY DEF FilesIInv, FilesTyped
<1>3. FilesTyped'
    BY <1>1 DEF FilesIInv, FilesTyped
<1>4. ContentsAreNumbered'
    BY <1>1, <1>2 DEF FilesIInv, ContentsAreNumbered, FilesTyped, Request
<1>5. RequestIsComplete' /\ OperationsAreNumbered'
    BY DEF FilesIInv, RequestIsComplete, OperationsAreNumbered, Replacing
<1>6. OverwritesNothing'
  <2>1. versions + 1 \notin managed /\ versions + 1 # desk.original
      BY <1>1 DEF FilesIInv, ContentsAreNumbered, FilesTyped, Request
  <2> QED
      BY <1>2, <2>1 DEF FilesIInv, OverwritesNothing, Replacing, RequestIsComplete
<1>7. RevisionsAreOfFiles'
    BY <1>1, <1>2 DEF FilesIInv, RevisionsAreOfFiles, Exists, Absent
<1>8. TrashReceiptIsTrue' /\ ChunksAreInOrder'
    BY DEF FilesIInv, TrashReceiptIsTrue, ChunksAreInOrder, UploadIsWhole
<1> QED
    BY <1>3, <1>4, <1>5, <1>6, <1>7, <1>8 DEF FilesIInv

LEMMA ExternalDeleteKeeps ==
    ASSUME FilesIInv, NEW p \in Paths, ExternalDelete(p)
    PROVE  FilesIInv'
<1> USE DEF ExternalDelete, ledger, Put
<1>1. \A q \in Paths : disk'[q] = IF q = p THEN Absent ELSE disk[q]
    BY DEF FilesIInv, FilesTyped
<1>2. FilesTyped'
    BY DEF FilesIInv, FilesTyped, Absent
<1>3. ContentsAreNumbered'
    BY <1>1 DEF FilesIInv, ContentsAreNumbered, FilesTyped, Absent
<1>4. RequestIsComplete' /\ OperationsAreNumbered'
    BY DEF FilesIInv, RequestIsComplete, OperationsAreNumbered, Replacing
<1>5. OverwritesNothing'
  <2>1. Absent \notin managed
      BY DEF FilesIInv, ContentsAreNumbered, Absent
  <2> QED
      BY <1>1, <2>1 DEF FilesIInv, OverwritesNothing, Replacing, RequestIsComplete
<1>6. RevisionsAreOfFiles'
    BY <1>1 DEF FilesIInv, RevisionsAreOfFiles, Exists
<1>7. TrashReceiptIsTrue' /\ ChunksAreInOrder'
    BY DEF FilesIInv, TrashReceiptIsTrue, ChunksAreInOrder, UploadIsWhole
<1> QED
    BY <1>2, <1>3, <1>4, <1>5, <1>6, <1>7 DEF FilesIInv

(* A request begins: its operation is new, and nothing is done yet.  (The    *)
(* upload asks for nothing to be kept, the others for what they change.)     *)
LEMMA BeginKeeps ==
    ASSUME FilesIInv, NEW request \in Request, NEW p \in Paths,
           NEW next \in {"backup", "move", "trash", "vacant", "publish"}, Begin(next, p, request),
           UNCHANGED <<store, ledger, upload, fileDeaths>>,
           versions' \in {versions, versions + 1}, request.content <= versions',
           request.original <= versions',
           managed' \in {managed, managed \cup {disk[p]}},
           managed' # managed => Exists(p),
           next \in {"backup", "publish"} => request.content > 0,
           next = "move" => request.dest \in Paths /\ ~Exists(request.dest) /\ Exists(p),
           next = "vacant" => request.item \in Ops /\ receipts[request.item] # NoPath,
           next = "publish" => Len(upload.temporary) = Chunks
    PROVE  FilesIInv'
<1> USE DEF store, ledger
<1>1. /\ operations' = operations + 1 /\ operations + 1 \in Ops /\ operations \in Nat
      /\ desk' \in Request /\ desk'.at = next /\ desk'.path = p /\ desk'.op = operations + 1
      /\ desk'.dest = request.dest /\ desk'.content = request.content
      /\ desk'.original = request.original /\ desk'.item = request.item
    BY RequestBegins DEF FilesIInv, FilesTyped, FileStates
<1>2. versions \in Nat /\ versions' \in Nat /\ versions <= versions' /\ disk[p] \in Nat
      /\ disk[p] <= versions
    BY DEF FilesIInv, FilesTyped, ContentsAreNumbered
<1>3. FilesTyped'
    BY <1>1, <1>2 DEF FilesIInv, FilesTyped
<1>4. ContentsAreNumbered'
  <2>1. managed' \subseteq 1 .. versions'
      BY <1>2 DEF FilesIInv, ContentsAreNumbered, Exists, Absent
  <2>2. kept' \subseteq 1 .. versions'
      BY <1>2 DEF FilesIInv, ContentsAreNumbered
  <2>3. \A q \in Paths : disk'[q] <= versions'
      BY <1>2 DEF FilesIInv, ContentsAreNumbered, FilesTyped
  <2>4. \A o \in Ops : bin'[o] <= versions'
      BY <1>2 DEF FilesIInv, ContentsAreNumbered, FilesTyped
  <2> QED
      BY <1>1, <2>1, <2>2, <2>3, <2>4 DEF ContentsAreNumbered
<1>5. RequestIsComplete'
    BY <1>1 DEF FilesIInv, RequestIsComplete, Exists
<1>6. OperationsAreNumbered'
    BY <1>1 DEF FilesIInv, OperationsAreNumbered, Ops
<1>7. OverwritesNothing'
  <2>1. Absent \notin managed /\ (managed' # managed => Absent # disk[p])
      BY DEF FilesIInv, ContentsAreNumbered, Absent, Exists
  <2> QED
      BY <1>1, <2>1 DEF OverwritesNothing, Exists
<1>8. RevisionsAreOfFiles' /\ TrashReceiptIsTrue' /\ ChunksAreInOrder'
    BY DEF FilesIInv, RevisionsAreOfFiles, TrashReceiptIsTrue, ChunksAreInOrder, UploadIsWhole,
           Exists
<1> QED
    BY <1>3, <1>4, <1>5, <1>6, <1>7, <1>8 DEF FilesIInv

LEMMA RequestsBegin ==
    ASSUME FilesIInv
    PROVE  /\ \A p \in Paths : SaveBegins(p) \/ TrashBegins(p) => FilesIInv'
           /\ \A p, q \in Paths : MoveBegins(p, q) => FilesIInv'
           /\ \A o \in Ops : RestoreBegins(o) => FilesIInv'
           /\ UploadEnds => FilesIInv'
<1>1. versions \in Nat
    BY DEF FilesIInv, FilesTyped
<1>2. ASSUME NEW p \in Paths, SaveBegins(p) PROVE FilesIInv'
  <2>1. PICK request : request = [AtRest EXCEPT !.content = versions + 1, !.original = disk[p]]
      OBVIOUS
  <2>2. request \in Request /\ request.content = versions + 1 /\ request.original = disk[p]
    <3>1. PICK c \in Nat : c = versions + 1
        BY <1>1
    <3>2. PICK d \in Nat : d = disk[p]
        BY DEF FilesIInv, FilesTyped
    <3>3. request = [AtRest EXCEPT !.content = c, !.original = d]
        BY <2>1, <3>1, <3>2
    <3>4. request \in Request /\ request.content = c /\ request.original = d
        BY <3>3 DEF AtRest, Request, Absent
    <3> QED
        BY <3>1, <3>2, <3>4
  <2>3. disk[p] \in Nat /\ disk[p] <= versions
      BY DEF FilesIInv, FilesTyped, ContentsAreNumbered
  <2>4. Begin("backup", p, request)
      BY <1>2, <2>1 DEF SaveBegins
  <2> QED
      BY <1>1, <1>2, <2>2, <2>3, <2>4, BeginKeeps DEF SaveBegins
<1>3. ASSUME NEW p \in Paths, TrashBegins(p) PROVE FilesIInv'
  <2>1. AtRest.content = 0 /\ AtRest.original = 0
      BY DEF AtRest, Absent
  <2> QED
      BY <1>1, <1>3, <2>1, AtRestIsARequest, BeginKeeps DEF TrashBegins
<1>4. ASSUME NEW p \in Paths, NEW q \in Paths, MoveBegins(p, q) PROVE FilesIInv'
  <2>1. PICK request : request = [AtRest EXCEPT !.dest = q]
      OBVIOUS
  <2>2. request \in Request /\ request.dest = q /\ request.content = 0 /\ request.original = 0
      BY <2>1 DEF AtRest, Request, Absent
  <2>3. Begin("move", p, request)
      BY <1>4, <2>1 DEF MoveBegins
  <2> QED
      BY <1>1, <1>4, <2>2, <2>3, BeginKeeps DEF MoveBegins
<1>5. ASSUME NEW o \in Ops, RestoreBegins(o) PROVE FilesIInv'
  <2>1. PICK request : request = [AtRest EXCEPT !.item = o]
      OBVIOUS
  <2>2. request \in Request /\ request.item = o /\ request.content = 0 /\ request.original = 0
      BY <2>1 DEF AtRest, Request, Absent, Ops
  <2>3. PICK p \in Paths : p = receipts[o]
      BY <1>5 DEF RestoreBegins, FilesIInv, FilesTyped
  <2>4. Begin("vacant", p, request)
      BY <1>5, <2>1, <2>3 DEF RestoreBegins
  <2> QED
      BY <1>1, <1>5, <2>2, <2>3, <2>4, BeginKeeps DEF RestoreBegins
<1>6. ASSUME UploadEnds PROVE FilesIInv'
  <2>1. PICK request : request = [AtRest EXCEPT !.content = versions + 1]
      OBVIOUS
  <2>2. request \in Request /\ request.content = versions + 1 /\ request.original = 0
      BY <1>1, <2>1 DEF AtRest, Request, Absent
  <2>3. PICK p \in Paths : p = upload.path
      BY <1>6 DEF UploadEnds, UploadReady, FilesIInv, RequestIsComplete
  <2>4. Begin("publish", p, request)
      BY <1>6, <2>1, <2>3 DEF UploadEnds
  <2> QED
      BY <1>1, <1>6, <2>2, <2>3, <2>4, BeginKeeps DEF UploadEnds
<1> QED
    BY <1>2, <1>3, <1>4, <1>5, <1>6

(* Checks on the way. *)
LEMMA ChecksKeep ==
    ASSUME FilesIInv, Backup \/ Recheck \/ Vacant \/ Finish
    PROVE  FilesIInv'
<1> USE DEF store, bounds
<1>1. fileDeaths \in 0 .. MaxFileDeaths /\ Absent \notin managed
    BY DEF FilesIInv, FilesTyped, ContentsAreNumbered, Absent
<1>2. CASE Backup
  <2>1. desk.path \in Paths /\ desk.at = "backup" /\ desk.content > 0
      BY <1>2 DEF Backup, FilesIInv, RequestIsComplete
  <2>2. kept' \in {kept} \cup {kept \cup {disk[desk.path]}} /\ kept' \subseteq 1 .. versions
    <3>1. disk[desk.path] \in Nat /\ disk[desk.path] <= versions /\ versions \in Nat
          /\ kept \subseteq 1 .. versions
        BY <2>1 DEF FilesIInv, FilesTyped, ContentsAreNumbered
    <3>2. CASE Exists(desk.path)
      <4>1. kept' = kept \cup {disk[desk.path]}
          BY <1>2, <3>2 DEF Backup
      <4>2. disk[desk.path] \in 1 .. versions
          BY <3>1, <3>2 DEF Exists, Absent
      <4> QED
          BY <3>1, <4>1, <4>2
    <3>3. CASE ~Exists(desk.path)
        BY <1>2, <3>1, <3>3 DEF Backup
    <3> QED
        BY <3>2, <3>3
  <2>3. desk'.at = "recheck" /\ desk'.path = desk.path /\ desk'.original = desk.original
      BY <1>2, RequestGoesOn DEF Backup, FilesIInv, FilesTyped, FileStates
  <2>4. OverwritesNothing'
      BY <1>2, <2>3 DEF Backup, OverwritesNothing, Replacing, Exists
  <2> QED
      BY <1>2, <2>1, <2>2, <2>4, RequestAdvances DEF Backup
<1>3. CASE Recheck
  <2>1. /\ desk.at = "recheck" /\ kept \subseteq 1 .. versions /\ desk.content > 0
        /\ UNCHANGED <<store, ledger, upload, managed, bounds>>
      BY <1>3 DEF Recheck, FilesIInv, ContentsAreNumbered, RequestIsComplete
  <2>2. CASE GoesTo("replace") /\ Replacing /\ disk[desk.path] = desk.original
    <3>1. desk'.at = "replace" /\ desk'.path = desk.path
        BY <2>2, RequestGoesOn DEF FilesIInv, FilesTyped, FileStates
    <3>2. OverwritesNothing'
        BY <2>1, <2>2, <3>1 DEF ledger, FilesIInv, OverwritesNothing
    <3> QED
        BY <2>1, <2>2, <3>2, RequestAdvances DEF ledger
  <2>3. CASE GoesTo("link")
    <3>1. desk'.at = "link"
        BY <2>3, RequestGoesOn DEF FilesIInv, FilesTyped, FileStates
    <3>2. OverwritesNothing'
        BY <3>1 DEF OverwritesNothing
    <3> QED
        BY <2>1, <2>3, <3>2, RequestAdvances DEF ledger
  <2>4. CASE Ends
      BY <1>1, <2>1, <2>4, RequestEnds DEF Ends
  <2> QED
      BY <1>3, <2>2, <2>3, <2>4 DEF Recheck
<1>4. CASE Vacant
  <2>1. /\ desk.at = "vacant" /\ kept \subseteq 1 .. versions
        /\ desk.item \in Ops /\ receipts[desk.item] # NoPath
        /\ UNCHANGED <<store, ledger, upload, managed, bounds>>
      BY <1>4 DEF Vacant, FilesIInv, ContentsAreNumbered, RequestIsComplete
  <2>2. CASE GoesTo("restore") /\ ~Exists(desk.path)
    <3>1. desk'.at = "restore" /\ desk'.path = desk.path
        BY <2>2, RequestGoesOn DEF FilesIInv, FilesTyped, FileStates
    <3>2. OverwritesNothing'
        BY <1>1, <2>1, <2>2, <3>1 DEF OverwritesNothing, Exists
    <3> QED
        BY <2>1, <2>2, <3>2, RequestAdvances DEF ledger
  <2>3. CASE Ends
      BY <1>1, <2>1, <2>3, RequestEnds DEF Ends
  <2> QED
      BY <1>4, <2>2, <2>3 DEF Vacant
<1>5. CASE Finish
    BY <1>1, <1>5, RequestEnds DEF Finish, Ends
<1> QED
    BY <1>2, <1>3, <1>4, <1>5

(* The steps that change files. *)

LEMMA DiskSteps ==
    ASSUME FilesIInv, NEW next \in {"finish", "unlink", "clear", "record"}, GoesTo(next),
           desk.at \in {"replace", "link", "publish", "move", "trash", "restore"},
           disk' \in [Paths -> 0 .. versions], bin' \in [Ops -> 0 .. versions],
           fresh' \cup twice' \subseteq {p \in Paths : disk'[p] # Absent},
           managed' \subseteq 1 .. versions,
           restored' \subseteq Ops, \A o \in restored' : receipts[o] # NoPath,
           \A o \in Ops : bin'[o] # Absent => o <= operations,
           next = "record" => /\ desk.at = "trash" /\ bin'[desk.op] # Absent
                              /\ receipts[desk.op] = NoPath,
           \A o \in Ops : receipts[o] # NoPath => (bin'[o] # Absent) # (o \in restored'),
           upload' \in Upload, upload'.temporary = upload.temporary,
           upload'.open => upload.open /\ upload'.path = upload.path,
           upload'.placed \in {upload.placed, upload.temporary},
           upload'.placed # upload.placed => Len(upload.temporary) = Chunks,
           UNCHANGED <<kept, receipts, bounds>>
    PROVE  FilesIInv'
<1> USE DEF bounds
<1>1. /\ desk' \in Request /\ desk'.at = next /\ desk'.path = desk.path
      /\ desk'.dest = desk.dest /\ desk'.op = desk.op /\ desk'.content = desk.content
      /\ desk'.original = desk.original /\ desk'.item = desk.item
    BY RequestGoesOn DEF FilesIInv, FilesTyped, FileStates
<1>2. versions \in Nat
    BY DEF FilesIInv, FilesTyped
<1>3. FilesTyped'
  <2>1. disk' \in [Paths -> Nat] /\ bin' \in [Ops -> Nat] /\ managed' \subseteq Nat
      BY <1>2
  <2> QED
      BY <1>1, <2>1 DEF FilesIInv, FilesTyped
<1>4. ContentsAreNumbered'
  <2>1. \A p \in Paths : disk'[p] <= versions
      BY <1>2
  <2>2. \A o \in Ops : bin'[o] <= versions
      BY <1>2
  <2>3. kept' \cup managed' \subseteq 1 .. versions
      BY DEF FilesIInv, ContentsAreNumbered
  <2> QED
      BY <1>1, <2>1, <2>2, <2>3 DEF FilesIInv, ContentsAreNumbered
<1>5. RequestIsComplete'
    BY <1>1 DEF FilesIInv, RequestIsComplete
<1>6. RevisionsAreOfFiles' /\ TrashReceiptIsTrue'
    BY DEF RevisionsAreOfFiles, TrashReceiptIsTrue, Exists
<1>7. OperationsAreNumbered'
    BY <1>1 DEF FilesIInv, OperationsAreNumbered
<1>8. OverwritesNothing'
    BY <1>1 DEF OverwritesNothing
<1>9. ChunksAreInOrder'
    BY DEF FilesIInv, ChunksAreInOrder, UploadIsWhole
<1> QED
    BY <1>3, <1>4, <1>5, <1>6, <1>7, <1>8, <1>9 DEF FilesIInv

(* What the steps that change files start from. *)
LEMMA FileFacts ==
    ASSUME FilesIInv
    PROVE  /\ versions \in Nat /\ desk.content \in 0 .. versions /\ fileDeaths \in 0 .. MaxFileDeaths
           /\ disk \in [Paths -> 0 .. versions] /\ bin \in [Ops -> 0 .. versions]
           /\ fresh \cup twice \subseteq {p \in Paths : disk[p] # Absent}
           /\ managed \subseteq 1 .. versions /\ restored \subseteq Ops
           /\ \A o \in restored : receipts[o] # NoPath
           /\ \A o \in Ops : bin[o] # Absent => o <= operations
           /\ \A o \in Ops : receipts[o] # NoPath => (bin[o] # Absent) # (o \in restored)
           /\ desk.at \in {"replace", "link", "unlink", "publish", "move", "trash", "restore", "clear"} =>
                 desk.path \in Paths
           /\ desk.at \in {"link", "publish", "replace"} => desk.content \in 1 .. versions
           /\ upload \in Upload
<1>1. /\ versions \in Nat /\ disk \in [Paths -> Nat] /\ bin \in [Ops -> Nat] /\ desk.content \in Nat
      /\ \A p \in Paths : disk[p] <= versions
      /\ \A o \in Ops : bin[o] <= versions
      /\ desk.content <= versions
    BY DEF FilesIInv, FilesTyped, ContentsAreNumbered, Request
<1>2. disk \in [Paths -> 0 .. versions] /\ bin \in [Ops -> 0 .. versions]
    BY <1>1
<1>3. desk.content \in 0 .. versions /\ (desk.content > 0 => desk.content \in 1 .. versions)
    BY <1>1
<1>4. fresh \cup twice \subseteq {p \in Paths : disk[p] # Absent}
    BY DEF FilesIInv, RevisionsAreOfFiles, Exists
<1> QED
    BY <1>1, <1>2, <1>3, <1>4 DEF FilesIInv, FilesTyped, ContentsAreNumbered,
       OperationsAreNumbered, TrashReceiptIsTrue, RequestIsComplete

LEMMA ReplaceKeeps == FilesIInv /\ (Replace \/ LinkNew) => FilesIInv'
<1> SUFFICES ASSUME FilesIInv, Replace \/ LinkNew PROVE FilesIInv'
    OBVIOUS
<1> USE FileFacts DEF store, ledger, bounds
<1>1. CASE Ends /\ UNCHANGED <<store, ledger, upload, managed, bounds>>
    BY <1>1, RequestEnds DEF Ends
<1>2. CASE ~Ends \/ ~UNCHANGED <<store, ledger, upload, managed, bounds>>
  <2>1. /\ \E next \in {"finish", "unlink"} : GoesTo(next)
        /\ desk.at \in {"replace", "link"} /\ Put(desk.path, desk.content)
        /\ twice' \in {twice \ {desk.path}, twice \cup {desk.path}}
        /\ managed' = managed \cup {desk.content}
        /\ UNCHANGED <<ledger, upload, bounds>>
      BY <1>2 DEF Replace, LinkNew
  <2>2. desk.path \in Paths /\ desk.content \in 1 .. versions
      BY <2>1
  <2>3. disk' = [disk EXCEPT ![desk.path] = desk.content] /\ fresh' = fresh \ {desk.path}
      BY <2>1 DEF Put
  <2>4. disk' \in [Paths -> 0 .. versions]
      BY <2>2, <2>3
  <2>5. fresh' \cup twice' \subseteq {p \in Paths : disk'[p] # Absent}
      BY <2>1, <2>2, <2>3 DEF Absent
  <2> QED
      BY <2>1, <2>2, <2>4, <2>5, DiskSteps
<1> QED
    BY <1>1, <1>2

LEMMA MoveKeeps == FilesIInv /\ Move => FilesIInv'
<1> SUFFICES ASSUME FilesIInv, Move PROVE FilesIInv'
    OBVIOUS
<1> USE FileFacts DEF store, ledger, bounds
<1>1. CASE ~Exists(desk.path)
    BY <1>1, RequestEnds DEF Ends, Move
<1>2. CASE Exists(desk.path)
  <2>1. /\ GoesTo("finish") /\ desk.at = "move"
        /\ disk' = [disk EXCEPT ![desk.dest] = disk[desk.path], ![desk.path] = Absent]
        /\ fresh' = fresh \ {desk.path, desk.dest}
        /\ twice' = twice \ {desk.path, desk.dest}
        /\ UNCHANGED <<ledger, upload, managed, bounds>>
      BY <1>2 DEF Move
  <2>2. desk.path \in Paths /\ desk.dest \in Paths /\ desk.dest # desk.path
      BY <2>1 DEF FilesIInv, RequestIsComplete
  <2>3. disk[desk.path] \in 0 .. versions /\ Absent \in 0 .. versions
      BY <2>2 DEF Absent
  <2>4. disk' \in [Paths -> 0 .. versions]
      BY <2>1, <2>2, <2>3
  <2>5. fresh' \cup twice' \subseteq {p \in Paths : disk'[p] # Absent}
      BY <2>1, <2>2
  <2> QED
      BY <2>1, <2>4, <2>5, DiskSteps
<1> QED
    BY <1>1, <1>2

LEMMA TrashItemKeeps == FilesIInv /\ TrashItem => FilesIInv'
<1> SUFFICES ASSUME FilesIInv, TrashItem PROVE FilesIInv'
    OBVIOUS
<1> USE FileFacts DEF store, ledger, bounds
<1>1. CASE ~Exists(desk.path)
    BY <1>1, RequestEnds DEF Ends, TrashItem
<1>2. CASE Exists(desk.path)
  <2>1. /\ GoesTo("record") /\ desk.at = "trash"
        /\ bin' = [bin EXCEPT ![desk.op] = disk[desk.path]]
        /\ disk' = [disk EXCEPT ![desk.path] = Absent] /\ fresh' = fresh \ {desk.path}
        /\ twice' = twice \ {desk.path}
        /\ UNCHANGED <<kept, receipts, restored, upload, managed, bounds>>
      BY <1>2 DEF TrashItem, Put
  <2>2. /\ desk.path \in Paths /\ desk.op \in Ops /\ receipts[desk.op] = NoPath
        /\ desk.op <= operations
      BY <2>1 DEF FilesIInv, RequestIsComplete, OperationsAreNumbered
  <2>3. disk[desk.path] \in 0 .. versions /\ disk[desk.path] # Absent /\ Absent \in 0 .. versions
      BY <1>2, <2>2 DEF Absent, Exists
  <2>4. disk' \in [Paths -> 0 .. versions] /\ bin' \in [Ops -> 0 .. versions]
      BY <2>1, <2>2, <2>3
  <2>5. fresh' \cup twice' \subseteq {p \in Paths : disk'[p] # Absent}
      BY <2>1, <2>2
  <2>6. \A o \in Ops : bin'[o] = IF o = desk.op THEN disk[desk.path] ELSE bin[o]
      BY <2>1
  <2> QED
      BY <2>1, <2>2, <2>3, <2>4, <2>5, <2>6, DiskSteps
<1> QED
    BY <1>1, <1>2

LEMMA RestoreKeeps == FilesIInv /\ Restore => FilesIInv'
<1> SUFFICES ASSUME FilesIInv, Restore PROVE FilesIInv'
    OBVIOUS
<1> USE FileFacts DEF store, ledger, bounds
<1>1. CASE bin[desk.item] = Absent
    BY <1>1, RequestEnds DEF Ends, Restore
<1>2. CASE bin[desk.item] # Absent
  <2>1. /\ GoesTo("finish") /\ desk.at = "restore"
        /\ disk' = [disk EXCEPT ![desk.path] = bin[desk.item]] /\ fresh' = fresh \ {desk.path}
        /\ bin' = [bin EXCEPT ![desk.item] = Absent]
        /\ restored' = restored \cup {desk.item}
        /\ UNCHANGED <<twice, kept, receipts, upload, managed, bounds>>
      BY <1>2 DEF Restore, Put
  <2>2. desk.path \in Paths /\ desk.item \in Ops /\ receipts[desk.item] # NoPath
      BY <2>1 DEF FilesIInv, RequestIsComplete
  <2>3. bin[desk.item] \in 0 .. versions /\ Absent \in 0 .. versions /\ desk.item \notin restored
      BY <1>2, <2>2 DEF Absent
  <2>4. disk' \in [Paths -> 0 .. versions] /\ bin' \in [Ops -> 0 .. versions]
      BY <2>1, <2>2, <2>3
  <2>5. fresh' \cup twice' \subseteq {p \in Paths : disk'[p] # Absent}
      BY <1>2, <2>1, <2>2
  <2>6. \A o \in Ops : bin'[o] = IF o = desk.item THEN Absent ELSE bin[o]
      BY <2>1
  <2> QED
      BY <2>1, <2>2, <2>3, <2>4, <2>5, <2>6, DiskSteps
<1> QED
    BY <1>1, <1>2

LEMMA UnlinkStagedKeeps == FilesIInv /\ UnlinkStaged => FilesIInv'
<1> SUFFICES ASSUME FilesIInv, UnlinkStaged PROVE FilesIInv'
    OBVIOUS
<1> USE DEF UnlinkStaged, ledger, bounds
<1>1. /\ desk' \in Request /\ desk'.at = "finish" /\ desk'.path = desk.path
      /\ desk'.dest = desk.dest /\ desk'.op = desk.op /\ desk'.content = desk.content
      /\ desk'.original = desk.original /\ desk'.item = desk.item
    BY RequestGoesOn DEF FilesIInv, FilesTyped, FileStates
<1>2. FilesTyped'
    BY <1>1 DEF FilesIInv, FilesTyped
<1>3. ContentsAreNumbered' /\ OperationsAreNumbered' /\ RequestIsComplete' /\ OverwritesNothing'
    BY <1>1 DEF FilesIInv, ContentsAreNumbered, OperationsAreNumbered, RequestIsComplete,
       OverwritesNothing
<1>4. RevisionsAreOfFiles' /\ TrashReceiptIsTrue' /\ ChunksAreInOrder'
    BY DEF FilesIInv, RevisionsAreOfFiles, TrashReceiptIsTrue, ChunksAreInOrder, UploadIsWhole,
           Exists
<1> QED
    BY <1>2, <1>3, <1>4 DEF FilesIInv

LEMMA RecordTrashKeeps == FilesIInv /\ RecordTrash => FilesIInv'
<1> SUFFICES ASSUME FilesIInv, RecordTrash PROVE FilesIInv'
    OBVIOUS
<1> USE DEF RecordTrash, Ends, store, bounds
<1>1. /\ desk.op \in Ops /\ desk.path \in Paths /\ desk.path # NoPath /\ bin[desk.op] # Absent
      /\ desk.op \notin restored /\ desk.op <= operations
    BY FilesAssumption DEF FilesIInv, RequestIsComplete, OperationsAreNumbered
<1>2. \A o \in Ops : receipts'[o] = IF o = desk.op THEN desk.path ELSE receipts[o]
    BY DEF FilesIInv, FilesTyped
<1>3. FilesTyped'
    BY <1>1, AtRestIsARequest DEF FilesIInv, FilesTyped
<1>4. ContentsAreNumbered'
    BY DEF FilesIInv, ContentsAreNumbered, FilesTyped, AtRest, Absent
<1>5. RequestIsComplete' /\ OverwritesNothing'
    BY DEF FilesIInv, RequestIsComplete, OverwritesNothing, AtRest
<1>6. OperationsAreNumbered'
    BY <1>1, <1>2 DEF FilesIInv, OperationsAreNumbered, FilesTyped, AtRest
<1>7. TrashReceiptIsTrue'
    BY <1>1, <1>2 DEF FilesIInv, TrashReceiptIsTrue
<1>8. RevisionsAreOfFiles' /\ ChunksAreInOrder'
    BY DEF FilesIInv, RevisionsAreOfFiles, ChunksAreInOrder, UploadIsWhole, Exists
<1> QED
    BY <1>3, <1>4, <1>5, <1>6, <1>7, <1>8 DEF FilesIInv

(* Uploads. *)

LEMMA NoUploadIsAnUpload ==
    /\ NoUpload \in Upload /\ NoUpload.temporary = <<>> /\ NoUpload.placed = <<>>
    /\ ~NoUpload.open
BY DEF NoUpload, Upload

(* The invariant when only the upload and the request change. *)
LEMMA UploadSteps ==
    ASSUME FilesIInv, desk' \in {AtRest, [AtRest EXCEPT !.at = "manifest"]},
           upload' \in Upload, upload'.open => upload'.path \in Paths,
           upload'.temporary = [i \in 1 .. Len(upload'.temporary) |-> i],
           upload'.placed \in {upload.placed, <<>>},
           UNCHANGED <<store, ledger, managed, bounds>>
    PROVE  FilesIInv'
<1> USE DEF store, ledger, bounds
<1>1. /\ desk' \in Request /\ desk'.at \in {"rest", "manifest"} /\ desk'.op = 0
      /\ desk'.content = 0 /\ desk'.original = 0
    BY DEF Request, AtRest, Absent, FileStates
<1>2. FilesTyped'
    BY <1>1 DEF FilesIInv, FilesTyped
<1>3. ContentsAreNumbered' /\ OperationsAreNumbered'
    BY <1>1 DEF FilesIInv, ContentsAreNumbered, OperationsAreNumbered, FilesTyped
<1>4. RequestIsComplete' /\ OverwritesNothing'
    BY <1>1 DEF RequestIsComplete, OverwritesNothing
<1>5. RevisionsAreOfFiles' /\ TrashReceiptIsTrue' /\ ChunksAreInOrder'
    BY DEF FilesIInv, RevisionsAreOfFiles, TrashReceiptIsTrue, ChunksAreInOrder, UploadIsWhole,
           Exists
<1> QED
    BY <1>2, <1>3, <1>4, <1>5 DEF FilesIInv

LEMMA UploadKeeps ==
    ASSUME FilesIInv
    PROVE  /\ \A p \in Paths : UploadStarts(p) => FilesIInv'
           /\ \A offset \in 0 .. Chunks : AppendChunk(offset) => FilesIInv'
           /\ NoteChunk \/ AbortUpload => FilesIInv'
<1>1. /\ upload \in Upload /\ upload.open \in BOOLEAN /\ upload.temporary \in Seq(Nat)
      /\ upload.temporary = [i \in 1 .. Len(upload.temporary) |-> i]
      /\ upload.open => upload.path \in Paths
    BY DEF FilesIInv, FilesTyped, ChunksAreInOrder, RequestIsComplete, Upload
<1>2. ASSUME NEW p \in Paths, UploadStarts(p) PROVE FilesIInv'
  <2>1. upload' = [open |-> TRUE, path |-> p, temporary |-> <<>>, known |-> TRUE, placed |-> <<>>]
      BY <1>2 DEF UploadStarts, NoUpload
  <2>2. /\ upload' \in Upload /\ upload'.path = p /\ upload'.temporary = <<>>
        /\ upload'.placed = <<>>
      BY <2>1 DEF Upload
  <2>3. upload'.temporary = [i \in 1 .. Len(upload'.temporary) |-> i]
      BY <2>2
  <2> QED
      BY <1>2, <2>2, <2>3, UploadSteps DEF UploadStarts
<1>3. ASSUME NEW offset \in 0 .. Chunks, AppendChunk(offset) PROVE FilesIInv'
  <2>1. PICK s \in Seq(Nat) : s = Append(upload.temporary, offset + 1)
    <3>1. offset + 1 \in Nat
      <4>1. Chunks \in Nat
          BY FilesAssumption
      <4> QED
          BY <4>1
    <3>2. Append(upload.temporary, offset + 1) \in Seq(Nat)
        BY <1>1, <3>1
    <3> QED
        BY <3>2
  <2>2. /\ upload' = [upload EXCEPT !.temporary = s, !.known = FALSE]
        /\ upload.open /\ offset = Len(upload.temporary)
      BY <1>3, <2>1 DEF AppendChunk, UploadReady
  <2>3. /\ upload' \in Upload /\ upload'.temporary = s /\ upload'.placed = upload.placed
        /\ upload'.path = upload.path
    <3>1. PICK u \in Upload : u = upload
        BY <1>1
    <3>2. PICK v : v = upload'
        OBVIOUS
    <3>3. v = [u EXCEPT !.temporary = s, !.known = FALSE]
        BY <2>2, <3>1, <3>2
    <3>4. v \in Upload /\ v.temporary = s /\ v.placed = u.placed /\ v.path = u.path
        BY <2>1, <3>1, <3>3 DEF Upload
    <3> QED
        BY <3>1, <3>2, <3>4
  <2>4. s = [i \in 1 .. Len(s) |-> i]
    <3>1. PICK t \in Seq(Nat) : t = upload.temporary
        BY <1>1
    <3>2. s = Append(t, Len(t) + 1) /\ \A i \in 1 .. Len(t) : t[i] = i
        BY <1>1, <2>1, <2>2, <3>1
    <3>3. Len(s) = Len(t) + 1 /\ \A i \in 1 .. Len(s) : s[i] = i
        BY <3>1, <3>2
    <3> QED
        BY <2>1, <3>3
  <2> QED
      BY <1>1, <1>3, <2>2, <2>3, <2>4, UploadSteps DEF AppendChunk
<1>4. ASSUME NoteChunk PROVE FilesIInv'
  <2>1. /\ upload' \in Upload /\ upload'.temporary = upload.temporary
        /\ upload'.placed = upload.placed /\ upload'.path = upload.path
        /\ upload'.open = upload.open
    <3>1. PICK u \in Upload : u = upload
        BY <1>1
    <3>2. PICK v : v = upload'
        OBVIOUS
    <3>3. v = [u EXCEPT !.known = TRUE]
        BY <1>4, <3>1, <3>2 DEF NoteChunk
    <3>4. /\ v \in Upload /\ v.temporary = u.temporary /\ v.placed = u.placed
          /\ v.path = u.path /\ v.open = u.open
        BY <3>1, <3>3 DEF Upload
    <3> QED
        BY <3>1, <3>2, <3>4
  <2> QED
      BY <1>1, <1>4, <2>1, UploadSteps DEF NoteChunk, Ends
<1>5. ASSUME AbortUpload PROVE FilesIInv'
  <2>1. desk = AtRest
      BY <1>5 DEF AbortUpload, UploadReady
  <2>2. NoUpload.temporary = [i \in 1 .. Len(NoUpload.temporary) |-> i]
      BY NoUploadIsAnUpload
  <2> QED
      BY <1>5, <2>1, <2>2, NoUploadIsAnUpload, UploadSteps DEF AbortUpload
<1> QED
    BY <1>2, <1>3, <1>4, <1>5

LEMMA PublishUploadKeeps == FilesIInv /\ PublishUpload => FilesIInv'
<1> SUFFICES ASSUME FilesIInv, PublishUpload PROVE FilesIInv'
    OBVIOUS
<1> USE FileFacts DEF store, ledger, bounds
<1>1. CASE Exists(desk.path)
    BY <1>1, RequestEnds DEF Ends, PublishUpload
<1>2. CASE ~Exists(desk.path)
  <2>1. /\ GoesTo("clear") /\ desk.at = "publish"
        /\ disk' = [disk EXCEPT ![desk.path] = desk.content] /\ fresh' = fresh \ {desk.path}
        /\ twice' = twice \cup {desk.path}
        /\ upload' = [upload EXCEPT !.known = FALSE, !.placed = upload.temporary]
        /\ managed' = managed \cup {desk.content}
        /\ UNCHANGED <<ledger, bounds>>
      BY <1>2 DEF PublishUpload, Put
  <2>2. desk.path \in Paths /\ desk.content \in 1 .. versions
      BY <2>1
  <2>3. disk' \in [Paths -> 0 .. versions]
      BY <2>1, <2>2
  <2>4. fresh' \cup twice' \subseteq {p \in Paths : disk'[p] # Absent}
      BY <2>1, <2>2 DEF Absent
  <2>5. upload \in Upload /\ upload.temporary \in Seq(Nat) /\ Len(upload.temporary) = Chunks
      BY <2>1 DEF FilesIInv, FilesTyped, RequestIsComplete, Upload
  <2>6. /\ upload' \in Upload /\ upload'.temporary = upload.temporary
        /\ upload'.placed = upload.temporary /\ upload'.path = upload.path
        /\ upload'.open = upload.open
    <3>1. PICK u \in Upload : u = upload
        BY <2>5
    <3>2. PICK s \in Seq(Nat) : s = upload.temporary
        BY <2>5
    <3>3. PICK v : v = upload'
        OBVIOUS
    <3>4. v = [u EXCEPT !.known = FALSE, !.placed = s]
        BY <2>1, <3>1, <3>2, <3>3
    <3>5. /\ v \in Upload /\ v.temporary = u.temporary /\ v.placed = s
          /\ v.open = u.open /\ v.path = u.path
        BY <3>1, <3>2, <3>4 DEF Upload
    <3> QED
        BY <3>1, <3>2, <3>3, <3>5
  <2> QED
      BY <2>1, <2>2, <2>3, <2>4, <2>5, <2>6, DiskSteps
<1> QED
    BY <1>1, <1>2

LEMMA ClearUploadKeeps == FilesIInv /\ ClearUpload => FilesIInv'
<1> SUFFICES ASSUME FilesIInv, ClearUpload PROVE FilesIInv'
    OBVIOUS
<1> USE DEF ClearUpload, ledger, bounds
<1>1. /\ desk' \in Request /\ desk'.at = "finish" /\ desk'.path = desk.path
      /\ desk'.dest = desk.dest /\ desk'.op = desk.op /\ desk'.content = desk.content
      /\ desk'.original = desk.original /\ desk'.item = desk.item
    BY RequestGoesOn DEF FilesIInv, FilesTyped, FileStates
<1>2. upload \in Upload /\ upload.temporary \in Seq(Nat)
    BY DEF FilesIInv, FilesTyped, Upload
<1>3. /\ upload' \in Upload /\ upload'.temporary = upload.temporary
      /\ upload'.placed = upload.placed /\ upload'.open = FALSE
  <2>1. PICK u \in Upload : u = upload
      BY <1>2
  <2>2. PICK v : v = upload'
      OBVIOUS
  <2>3. v = [u EXCEPT !.open = FALSE]
      BY <2>1, <2>2
  <2>4. /\ v \in Upload /\ v.temporary = u.temporary /\ v.placed = u.placed
        /\ v.open = FALSE
      BY <2>1, <2>3 DEF Upload
  <2> QED
      BY <2>1, <2>2, <2>4
<1>4. FilesTyped'
    BY <1>1, <1>3 DEF FilesIInv, FilesTyped
<1>5. ContentsAreNumbered' /\ OperationsAreNumbered' /\ RequestIsComplete' /\ OverwritesNothing'
    BY <1>1, <1>3 DEF FilesIInv, ContentsAreNumbered, OperationsAreNumbered, RequestIsComplete,
       OverwritesNothing
<1>6. RevisionsAreOfFiles' /\ TrashReceiptIsTrue' /\ ChunksAreInOrder'
    BY <1>3 DEF FilesIInv, RevisionsAreOfFiles, TrashReceiptIsTrue, ChunksAreInOrder,
       UploadIsWhole, Exists
<1> QED
    BY <1>4, <1>5, <1>6 DEF FilesIInv
-----------------------------------------------------------------------------
LEMMA FilesStart == FilesInit => FilesIInv
<1> SUFFICES ASSUME FilesInit PROVE FilesIInv
    OBVIOUS
<1> USE DEF FilesInit
<1>1. FilesTyped
  <2>1. MaxFileDeaths \in Nat
      BY FilesAssumption
  <2> QED
      BY <2>1, AtRestIsARequest, NoUploadIsAnUpload DEF FilesTyped, Absent
<1>2. ContentsAreNumbered /\ OperationsAreNumbered
    BY DEF ContentsAreNumbered, OperationsAreNumbered, AtRest, Absent
<1>3. RequestIsComplete /\ OverwritesNothing
    BY NoUploadIsAnUpload DEF RequestIsComplete, OverwritesNothing, AtRest
<1>4. RevisionsAreOfFiles /\ TrashReceiptIsTrue
    BY DEF RevisionsAreOfFiles, TrashReceiptIsTrue
<1>5. ChunksAreInOrder
    BY NoUploadIsAnUpload DEF ChunksAreInOrder, UploadIsWhole
<1> QED
    BY <1>1, <1>2, <1>3, <1>4, <1>5 DEF FilesIInv

LEMMA FilesStep == FilesIInv /\ [FilesNext]_fileVars => FilesIInv'
<1> SUFFICES ASSUME FilesIInv, [FilesNext]_fileVars PROVE FilesIInv'
    OBVIOUS
<1>1. ASSUME NEW p \in Paths, Look(p) \/ ExternalWrite(p) \/ ExternalDelete(p) PROVE FilesIInv'
    BY <1>1, LookKeeps, ExternalWriteKeeps, ExternalDeleteKeeps
<1>2. CASE ManagerStep
    BY <1>2, RequestsBegin, ChecksKeep, ReplaceKeeps, UnlinkStagedKeeps, MoveKeeps, TrashItemKeeps,
       RecordTrashKeeps, RestoreKeeps, UploadKeeps, PublishUploadKeeps, ClearUploadKeeps
       DEF ManagerStep
<1>3. CASE ServerStops
  <2>1. fileDeaths' \in 0 .. MaxFileDeaths
      BY <1>3, FilesAssumption DEF ServerStops, FilesIInv, FilesTyped
  <2> QED
      BY <1>3, <2>1, RequestEnds DEF ServerStops
<1>4. CASE UNCHANGED fileVars
  <2> USE DEF fileVars
  <2>1. FilesTyped' /\ ContentsAreNumbered' /\ OperationsAreNumbered' /\ RequestIsComplete'
      BY <1>4 DEF FilesIInv, FilesTyped, ContentsAreNumbered, OperationsAreNumbered,
         RequestIsComplete, Replacing
  <2>2. OverwritesNothing' /\ RevisionsAreOfFiles' /\ TrashReceiptIsTrue' /\ ChunksAreInOrder'
      BY <1>4 DEF FilesIInv, OverwritesNothing, RevisionsAreOfFiles, TrashReceiptIsTrue,
         ChunksAreInOrder, UploadIsWhole, Replacing, Exists
  <2> QED
      BY <2>1, <2>2 DEF FilesIInv
<1> QED
    BY <1>1, <1>2, <1>3, <1>4 DEF FilesNext

(* For any number of paths, chunks, operations and deaths of the server: a   *)
(* completed trash receipt tells the truth, and a file that was uploaded has *)
(* every chunk once and in order (trash, restore, upload_chunk).             *)
THEOREM FilesStayAccounted == FilesSpec => []FilesAreAccounted
<1>1. FilesIInv => FilesAreAccounted
  <2> SUFFICES ASSUME FilesIInv PROVE FilesTypeOK
      BY DEF FilesAreAccounted, FilesIInv, ChunksAreInOrder
  <2>1. \A p \in Paths : disk[p] \in 0 .. versions
      BY FileFacts
  <2>2. desk.op \in 0 .. operations
      BY DEF FilesIInv, FilesTyped, OperationsAreNumbered, Request
  <2> QED
      BY <2>1, <2>2 DEF FilesTypeOK, FilesIInv, FilesTyped, RevisionsAreOfFiles,
         ContentsAreNumbered, OperationsAreNumbered
<1> QED
    BY <1>1, FilesStart, FilesStep, PTL DEF FilesSpec

(* A step of the manager that moves, replaces, discards or restores a file   *)
(* leaves every content it answers for in a file, a kept version or the      *)
(* trash: what it overwrites is kept or was never its own.                   *)
LEMMA ManagerLosesNothing ==
    ASSUME FilesIInv, FilesNext, desk' # desk
    PROVE  (managed \cap Surviving) \subseteq Surviving'
<1> SUFFICES ASSUME NEW c \in managed, c \in Surviving PROVE c \in Surviving'
    OBVIOUS
<1> USE FileFacts DEF Surviving
<1>1. c # Absent
    BY DEF Absent
<1>2. CASE disk' = disk /\ kept \subseteq kept' /\ bin' = bin
    BY <1>2
<1>3. CASE Replace \/ LinkNew
  <2>1. /\ desk.path \in Paths /\ UNCHANGED <<kept, bin>>
        /\ disk' \in {disk, [disk EXCEPT ![desk.path] = desk.content]}
        /\ disk[desk.path] \in kept \/ disk[desk.path] \notin managed
             \/ disk[desk.path] = Absent \/ disk' = disk
      BY <1>3 DEF Replace, LinkNew, Put, ledger, store, FilesIInv, OverwritesNothing, Exists
  <2>2. \A p \in Paths : p # desk.path => disk'[p] = disk[p]
      BY <2>1
  <2> QED
      BY <1>1, <2>1, <2>2
<1>4. CASE PublishUpload
  <2>1. /\ desk.path \in Paths /\ UNCHANGED <<kept, bin>>
        /\ disk[desk.path] = Absent \/ disk' = disk
        /\ disk' \in {disk, [disk EXCEPT ![desk.path] = desk.content]}
      BY <1>4 DEF PublishUpload, Put, ledger, store, Exists
  <2>2. \A p \in Paths : p # desk.path => disk'[p] = disk[p]
      BY <2>1
  <2> QED
      BY <1>1, <2>1, <2>2
<1>5. CASE Move
  <2>1. CASE disk' = disk
      BY <1>5, <2>1 DEF Move, ledger
  <2>2. CASE disk' # disk
    <3>1. /\ desk.path \in Paths /\ desk.dest \in Paths /\ desk.dest # desk.path
          /\ disk[desk.dest] \notin managed /\ UNCHANGED <<kept, bin>>
          /\ disk' = [disk EXCEPT ![desk.dest] = disk[desk.path], ![desk.path] = Absent]
        BY <1>5, <2>2 DEF Move, ledger, store, FilesIInv, OverwritesNothing, RequestIsComplete
    <3>2. /\ disk'[desk.dest] = disk[desk.path]
          /\ \A p \in Paths \ {desk.dest, desk.path} : disk'[p] = disk[p]
        BY <3>1
    <3> QED
        BY <3>1, <3>2
  <2> QED
      BY <2>1, <2>2
<1>6. CASE TrashItem
  <2>1. CASE UNCHANGED <<disk, bin>>
      BY <1>6, <2>1 DEF TrashItem
  <2>2. CASE ~UNCHANGED <<disk, bin>>
    <3>1. /\ desk.path \in Paths /\ desk.op \in Ops /\ bin[desk.op] = Absent /\ UNCHANGED kept
          /\ bin' = [bin EXCEPT ![desk.op] = disk[desk.path]]
          /\ disk' = [disk EXCEPT ![desk.path] = Absent]
        BY <1>6, <2>2 DEF TrashItem, Put, store, FilesIInv, OperationsAreNumbered,
           RequestIsComplete
    <3>2. /\ bin'[desk.op] = disk[desk.path]
          /\ \A p \in Paths \ {desk.path} : disk'[p] = disk[p]
          /\ \A o \in Ops \ {desk.op} : bin'[o] = bin[o]
        BY <3>1
    <3> QED
        BY <1>1, <3>1, <3>2
  <2> QED
      BY <2>1, <2>2
<1>7. CASE Restore
  <2>1. CASE UNCHANGED <<disk, bin>>
      BY <1>7, <2>1 DEF Restore
  <2>2. CASE ~UNCHANGED <<disk, bin>>
    <3>1. /\ desk.path \in Paths /\ desk.item \in Ops /\ disk[desk.path] \notin managed
          /\ bin' = [bin EXCEPT ![desk.item] = Absent] /\ UNCHANGED kept
          /\ disk' = [disk EXCEPT ![desk.path] = bin[desk.item]]
        BY <1>7, <2>2 DEF Restore, Put, FilesIInv, OverwritesNothing, RequestIsComplete
    <3>2. /\ disk'[desk.path] = bin[desk.item]
          /\ \A p \in Paths \ {desk.path} : disk'[p] = disk[p]
          /\ \A o \in Ops \ {desk.item} : bin'[o] = bin[o]
        BY <3>1
    <3> QED
        BY <3>1, <3>2
  <2> QED
      BY <2>1, <2>2
<1>8. \/ Replace \/ LinkNew \/ PublishUpload \/ Move \/ TrashItem \/ Restore
      \/ disk' = disk /\ kept \subseteq kept' /\ bin' = bin
  <2>1. ASSUME NEW p \in Paths, Look(p) \/ ExternalWrite(p) \/ ExternalDelete(p) PROVE FALSE
      BY <2>1 DEF Look, ExternalWrite, ExternalDelete
  <2>2. CASE ServerStops
      BY <2>2 DEF ServerStops, store, ledger
  <2>3. ASSUME NEW p \in Paths, SaveBegins(p) \/ TrashBegins(p) \/ UploadStarts(p)
        PROVE  UNCHANGED <<disk, kept, bin>>
      BY <2>3 DEF SaveBegins, TrashBegins, UploadStarts, store, ledger
  <2>4. ASSUME NEW p \in Paths, NEW q \in Paths, MoveBegins(p, q)
        PROVE  UNCHANGED <<disk, kept, bin>>
      BY <2>4 DEF MoveBegins, store, ledger
  <2>5. ASSUME NEW o \in Ops, RestoreBegins(o) PROVE UNCHANGED <<disk, kept, bin>>
      BY <2>5 DEF RestoreBegins, store, ledger
  <2>6. ASSUME NEW offset \in 0 .. Chunks, AppendChunk(offset)
        PROVE  UNCHANGED <<disk, kept, bin>>
      BY <2>6 DEF AppendChunk, store, ledger
  <2>7. CASE NoteChunk \/ UploadEnds \/ ClearUpload \/ AbortUpload
      BY <2>7 DEF NoteChunk, UploadEnds, ClearUpload, AbortUpload, store, ledger
  <2>8. CASE Backup \/ Recheck \/ UnlinkStaged \/ Finish \/ RecordTrash \/ Vacant
      BY <2>8 DEF Backup, Recheck, UnlinkStaged, Finish, RecordTrash, Vacant, store, ledger
  <2> QED
      BY <2>1, <2>2, <2>3, <2>4, <2>5, <2>6, <2>7, <2>8 DEF FilesNext, ManagerStep
<1> QED
    BY <1>2, <1>3, <1>4, <1>5, <1>6, <1>7, <1>8

(* With other programs writing the same folder between any two steps, and    *)
(* the server dying at any of them, no step of the manager loses a content   *)
(* it placed or was asked to change (write_text, relocate, trash, restore,   *)
(* upload_chunk).                                                            *)
THEOREM ManagerKeepsContents == FilesSpec => ManagedContentSurvives
<1>1. FilesIInv /\ [FilesNext]_fileVars =>
          [desk' # desk => (managed \cap Surviving) \subseteq Surviving']_fileVars
    BY ManagerLosesNothing
<1> QED
    BY <1>1, FilesStart, FilesStep, PTL DEF FilesSpec, ManagedContentSurvives
=============================================================================
