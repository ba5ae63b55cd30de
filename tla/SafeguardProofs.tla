-------------------------- MODULE SafeguardProofs --------------------------
(***************************************************************************)
(* Proofs about state that is kept beside the pipelines.                   *)
(*                                                                         *)
(* OperatorConsent: policy edits are serialised, so what the policy files  *)
(* permit is what the operator last said.                                  *)
(*                                                                         *)
(* EnvironmentInventory: only the holder of the host's lock stages or      *)
(* completes a transition, the last one is completed before a newer one is *)
(* staged, and its writes come in order; so the inventory is what the      *)
(* scans add up to wherever recorders die.                                 *)
(*                                                                         *)
(* DependencyOrder: each item taken came before whatever else could have   *)
(* been taken in its place, so no legal order is less.                     *)
(***************************************************************************)
EXTENDS OperatorConsent, EnvironmentInventory, DependencyOrder,
        FiniteSetTheorems, WellFoundedInduction, NaturalsInduction, TLAPS

(* Operator consent. *)

Edits == [at : {"none", "shown", "locking", "reading", "writing", "unlocking"},
          scope : Scopes, terms : Nat, seen : [Scopes -> Nat]]

ConsentTypes ==
    /\ program \in [Processes -> Versions]
    /\ policy \in [Scopes -> Nat]
    /\ agreed \in [Scopes -> Nat]
    /\ holder \in [PolicyFiles -> Processes \cup {NoProcess}]
    /\ edit \in [Processes -> Edits]

(* A process between policy_lock's acquisition and its release is the holder *)
(* of the file's lock.                                                       *)
EditorHoldsLock ==
    \A p \in Processes :
        edit[p].at \in {"reading", "writing", "unlocking"} => holder[FileFor(p)] = p

(* What a process is about to write back of the other scopes of its file is  *)
(* what the file says.                                                       *)
SeenIsCurrent ==
    \A p \in Processes : edit[p].at = "writing" =>
        \A s \in Scopes : KeptIn[s] = FileFor(p) => edit[p].seen[s] = policy[s]

IInv == ConsentTypes /\ EditorHoldsLock /\ SeenIsCurrent /\ RevocationSticks

-----------------------------------------------------------------------------
(* The terms that consent_proposal discloses are a number, those of a folder *)
(* included.                                                                 *)
LEMMA TermsAreNumbers == \A s \in Scopes, v \in Versions : TermsOf(s, v) \in Nat
BY DEF TermsOf, Versions

(* A process that has no edit under way has a record of the right shape.     *)
LEMMA NoEditIsAnEdit == NoEdit \in Edits /\ NoEdit.at = "none"
<1>1. (CHOOSE s \in Scopes : TRUE) \in Scopes
    BY ConsentAssumption
<1>2. Unread \in [Scopes -> Nat]
    BY DEF Unread, NoTerms
<1> QED
    BY <1>1, <1>2 DEF NoEdit, Edits, NoTerms

(* Initially nothing is permitted and nobody edits.                          *)
LEMMA InitEstablishes == ConsentInit => IInv
<1> SUFFICES ASSUME ConsentInit PROVE IInv
    OBVIOUS
<1>1. ConsentTypes
    BY ConsentAssumption, NoEditIsAnEdit DEF ConsentInit, ConsentTypes, Versions, NoTerms
<1>2. EditorHoldsLock /\ SeenIsCurrent
    BY NoEditIsAnEdit DEF ConsentInit, EditorHoldsLock, SeenIsCurrent
<1> QED
    BY <1>1, <1>2 DEF ConsentInit, IInv, RevocationSticks

(* A step that changes only the edit of one process, and leaves it without   *)
(* the lock or as the holder with what it needs, keeps the invariant.        *)
LEMMA OneEditChanges ==
    ASSUME IInv, NEW p \in Processes, NEW e \in Edits,
           edit' = [edit EXCEPT ![p] = e],
           UNCHANGED <<program, policy, holder, agreed>>,
           e.at \in {"reading", "writing", "unlocking"} => holder[KeptIn[e.scope]] = p,
           e.at = "writing" =>
               \A s \in Scopes : KeptIn[s] = KeptIn[e.scope] => e.seen[s] = policy[s]
    PROVE  IInv'
<1>1. ConsentTypes'
    BY DEF IInv, ConsentTypes
<1>2. \A q \in Processes : edit'[q] = IF q = p THEN e ELSE edit[q]
    BY DEF IInv, ConsentTypes
<1>3. EditorHoldsLock'
    BY <1>2 DEF IInv, EditorHoldsLock, FileFor
<1>4. SeenIsCurrent'
    BY <1>2 DEF IInv, SeenIsCurrent, FileFor
<1> QED
    BY <1>1, <1>3, <1>4 DEF IInv, RevocationSticks

(* Every action of every process keeps the invariant: only the holder of a   *)
(* file's lock replaces the file, and it writes back what it read under it.  *)
LEMMA StepPreserves == IInv /\ [ConsentNext]_consentVars => IInv'
<1> SUFFICES ASSUME IInv, [ConsentNext]_consentVars PROVE IInv'
    OBVIOUS
<1> USE DEF FileFor
<1>0. /\ program \in [Processes -> Versions] /\ policy \in [Scopes -> Nat]
      /\ agreed \in [Scopes -> Nat] /\ holder \in [PolicyFiles -> Processes \cup {NoProcess}]
      /\ edit \in [Processes -> Edits]
    BY DEF IInv, ConsentTypes
<1>1. CASE UNCHANGED consentVars
    BY <1>1 DEF consentVars, IInv, ConsentTypes, EditorHoldsLock, SeenIsCurrent, RevocationSticks
<1>2. ASSUME NEW p \in Processes, NEW s \in Scopes, Review(p, s) PROVE IInv'
  <2> DEFINE e == [NoEdit EXCEPT !.at = "shown", !.scope = s, !.terms = TermsOf(s, program[p])]
  <2>1. e \in Edits /\ e.at = "shown"
      BY <1>0, TermsAreNumbers, NoEditIsAnEdit DEF Edits
  <2>2. edit' = [edit EXCEPT ![p] = e] /\ UNCHANGED <<program, policy, holder, agreed>>
      BY <1>2 DEF Review
  <2> HIDE DEF e
  <2> QED
      BY <2>1, <2>2, OneEditChanges
<1>3. ASSUME NEW p \in Processes, NEW s \in Scopes, Revoke(p, s) PROVE IInv'
  <2> DEFINE e == [NoEdit EXCEPT !.at = "locking", !.scope = s]
  <2>1. e \in Edits /\ e.at = "locking"
      BY NoEditIsAnEdit DEF Edits
  <2>2. edit' = [edit EXCEPT ![p] = e] /\ UNCHANGED <<program, policy, holder, agreed>>
      BY <1>3 DEF Revoke
  <2> HIDE DEF e
  <2> QED
      BY <2>1, <2>2, OneEditChanges
<1>4. ASSUME NEW p \in Processes, Accept(p) PROVE IInv'
  <2> DEFINE e == IF edit[p].terms = TermsOf(edit[p].scope, program[p])
                  THEN [edit[p] EXCEPT !.at = "locking"] ELSE NoEdit
  <2>1. e \in Edits /\ e.at \in {"locking", "none"}
      BY <1>0, NoEditIsAnEdit DEF Edits
  <2>2. edit' = [edit EXCEPT ![p] = e] /\ UNCHANGED <<program, policy, holder, agreed>>
      BY <1>4, <1>0 DEF Accept
  <2> HIDE DEF e
  <2> QED
      BY <2>1, <2>2, OneEditChanges
<1>5. ASSUME NEW p \in Processes, LockPolicy(p) PROVE IInv'
  <2> DEFINE f == KeptIn[edit[p].scope]
  <2>1. f \in PolicyFiles /\ holder[f] = NoProcess
      BY <1>5, <1>0, ConsentAssumption DEF LockPolicy, Edits
  <2>2. /\ holder' = [holder EXCEPT ![f] = p]
        /\ edit' = [edit EXCEPT ![p].at = "reading"]
        /\ UNCHANGED <<program, policy, agreed>>
      BY <1>5 DEF LockPolicy
  <2>3. edit' \in [Processes -> Edits]
      BY <1>0, <2>2 DEF Edits
  <2>4. ConsentTypes'
      BY <1>0, <2>1, <2>2, <2>3 DEF ConsentTypes
  <2>5. \A q \in Processes : /\ edit'[q].scope = edit[q].scope /\ edit'[q].seen = edit[q].seen
                             /\ edit'[q].at = IF q = p THEN "reading" ELSE edit[q].at
      BY <1>0, <2>2 DEF Edits
  <2>6. EditorHoldsLock'
    <3> SUFFICES ASSUME NEW q \in Processes,
                        edit'[q].at \in {"reading", "writing", "unlocking"}
                 PROVE  holder'[KeptIn[edit'[q].scope]] = q
        BY DEF EditorHoldsLock
    <3>1. CASE q = p
        BY <3>1, <1>0, <2>1, <2>2, <2>5
    <3>2. CASE q # p
      <4>1. holder[KeptIn[edit[q].scope]] = q
          BY <3>2, <2>5 DEF IInv, EditorHoldsLock
      <4>2. KeptIn[edit[q].scope] # f /\ KeptIn[edit[q].scope] \in PolicyFiles
          BY <4>1, <2>1, <1>0, ConsentAssumption DEF Edits
      <4> QED
          BY <4>1, <4>2, <2>2, <2>5, <1>0
    <3> QED
        BY <3>1, <3>2
  <2>7. SeenIsCurrent'
      BY <2>2, <2>5 DEF IInv, SeenIsCurrent
  <2> QED
      BY <2>2, <2>4, <2>6, <2>7 DEF IInv, RevocationSticks
<1>6. ASSUME NEW p \in Processes, ReadPolicy(p) PROVE IInv'
  <2> PICK to \in {"unlocking", "writing"} :
          edit' = [edit EXCEPT ![p].seen = policy, ![p].at = to]
      BY <1>6 DEF ReadPolicy
  <2> DEFINE e == [edit[p] EXCEPT !.seen = policy, !.at = to]
  <2>1. e \in Edits /\ e.seen = policy /\ e.scope = edit[p].scope
      BY <1>0 DEF Edits
  <2>2. edit' = [edit EXCEPT ![p] = e] /\ UNCHANGED <<program, policy, holder, agreed>>
      BY <1>6, <1>0 DEF ReadPolicy, Edits
  <2>3. holder[KeptIn[e.scope]] = p
      BY <1>6, <2>1 DEF ReadPolicy, IInv, EditorHoldsLock
  <2> HIDE DEF e
  <2> QED
      BY <2>1, <2>2, <2>3, OneEditChanges
<1>7. ASSUME NEW p \in Processes, WritePolicy(p) PROVE IInv'
  <2> DEFINE e == edit[p]
             f == KeptIn[e.scope]
  <2>1. /\ e.at = "writing" /\ holder[f] = p
        /\ \A s \in Scopes : KeptIn[s] = f => e.seen[s] = policy[s]
        /\ e.scope \in Scopes /\ e.terms \in Nat
      BY <1>7, <1>0 DEF WritePolicy, IInv, EditorHoldsLock, SeenIsCurrent, Edits
  <2>2. policy' = [s \in Scopes |-> IF KeptIn[s] # f THEN policy[s]
                                    ELSE IF s = e.scope THEN e.terms ELSE e.seen[s]]
      BY <1>7 DEF WritePolicy
  <2>3. /\ agreed' = [agreed EXCEPT ![e.scope] = e.terms]
        /\ edit' = [edit EXCEPT ![p].at = "unlocking", ![p].seen = Unread]
        /\ UNCHANGED <<program, holder>>
      BY <1>7 DEF WritePolicy
  <2>4. policy' = [policy EXCEPT ![e.scope] = e.terms]
      BY <1>0, <2>1, <2>2
  <2>5. \A q \in Processes : /\ edit'[q].scope = edit[q].scope
                             /\ edit'[q].at = IF q = p THEN "unlocking" ELSE edit[q].at
                             /\ q # p => edit'[q].seen = edit[q].seen
      BY <1>0, <2>3 DEF Edits
  <2>6. edit' \in [Processes -> Edits]
    <3> DEFINE after == [edit[p] EXCEPT !.at = "unlocking", !.seen = Unread]
    <3>1. edit[p] \in Edits
        BY <1>0
    <3>2. Unread \in [Scopes -> Nat]
        BY DEF Unread, NoTerms
    <3>3. after \in Edits
        BY ONLY <3>1, <3>2 DEF Edits
    <3>4. edit' = [edit EXCEPT ![p] = after]
        BY <1>0, <2>3
    <3> HIDE DEF after
    <3> QED
        BY <1>0, <3>3, <3>4
  <2>7. ConsentTypes'
      BY <1>0, <2>1, <2>3, <2>4, <2>6 DEF ConsentTypes
  <2>8. EditorHoldsLock'
      BY <2>1, <2>3, <2>5 DEF IInv, EditorHoldsLock
  <2>9. SeenIsCurrent'
    <3> SUFFICES ASSUME NEW q \in Processes, edit'[q].at = "writing",
                        NEW s \in Scopes, KeptIn[s] = KeptIn[edit'[q].scope]
                 PROVE  edit'[q].seen[s] = policy'[s]
        BY DEF SeenIsCurrent
    <3>1. /\ q # p /\ edit[q].at = "writing" /\ KeptIn[s] = KeptIn[edit[q].scope]
          /\ edit'[q].seen = edit[q].seen
        BY <2>5
    <3>2. holder[KeptIn[s]] = q /\ edit[q].seen[s] = policy[s]
        BY <3>1 DEF IInv, EditorHoldsLock, SeenIsCurrent
    <3>3. s # e.scope
        BY <3>1, <3>2, <2>1
    <3> QED
        BY <3>1, <3>2, <3>3, <2>4, <1>0
  <2>10. RevocationSticks'
      BY <2>3, <2>4 DEF IInv, RevocationSticks
  <2> QED
      BY <2>7, <2>8, <2>9, <2>10 DEF IInv
<1>8. ASSUME NEW p \in Processes, UnlockPolicy(p) PROVE IInv'
  <2> DEFINE f == KeptIn[edit[p].scope]
  <2>1. /\ holder' = [holder EXCEPT ![f] = NoProcess] /\ holder[f] = p
        /\ edit' = [edit EXCEPT ![p] = NoEdit]
        /\ UNCHANGED <<program, policy, agreed>>
      BY <1>8 DEF UnlockPolicy, IInv, EditorHoldsLock
  <2>2. ConsentTypes'
      BY <1>0, <2>1, NoEditIsAnEdit DEF ConsentTypes
  <2>3. \A q \in Processes : edit'[q] = IF q = p THEN NoEdit ELSE edit[q]
      BY <1>0, <2>1
  <2>4. EditorHoldsLock'
    <3> SUFFICES ASSUME NEW q \in Processes,
                        edit'[q].at \in {"reading", "writing", "unlocking"}
                 PROVE  holder'[KeptIn[edit'[q].scope]] = q
        BY DEF EditorHoldsLock
    <3>1. q # p /\ edit'[q] = edit[q]
        BY <2>3, NoEditIsAnEdit
    <3>2. holder[KeptIn[edit[q].scope]] = q
        BY <3>1 DEF IInv, EditorHoldsLock
    <3>3. KeptIn[edit[q].scope] # f /\ KeptIn[edit[q].scope] \in PolicyFiles
        BY <3>1, <3>2, <2>1, <1>0, ConsentAssumption DEF Edits
    <3> QED
        BY <3>1, <3>2, <3>3, <2>1, <1>0
  <2>5. SeenIsCurrent'
      BY <2>1, <2>3, NoEditIsAnEdit DEF IInv, SeenIsCurrent
  <2> QED
      BY <2>1, <2>2, <2>4, <2>5 DEF IInv, RevocationSticks
<1>9. ASSUME NEW p \in Processes, NEW version \in Versions, Replaced(p, version) PROVE IInv'
  <2>1. /\ program' = [program EXCEPT ![p] = version]
        /\ holder' = [g \in PolicyFiles |-> IF holder[g] = p THEN NoProcess ELSE holder[g]]
        /\ UNCHANGED <<policy, agreed>>
        /\ edit' = [edit EXCEPT ![p] = IF edit[p].at = "shown" THEN edit[p] ELSE NoEdit]
      BY <1>9, <1>0 DEF Replaced
  <2>2. ConsentTypes'
      BY <1>0, <2>1, NoEditIsAnEdit DEF ConsentTypes
  <2>3. /\ \A q \in Processes \ {p} : edit'[q] = edit[q]
        /\ edit'[p].at \in {"shown", "none"}
      BY <1>0, <2>1, NoEditIsAnEdit
  <2>4. EditorHoldsLock'
    <3> SUFFICES ASSUME NEW q \in Processes,
                        edit'[q].at \in {"reading", "writing", "unlocking"}
                 PROVE  holder'[KeptIn[edit'[q].scope]] = q
        BY DEF EditorHoldsLock
    <3>1. q # p /\ edit'[q] = edit[q]
        BY <2>3
    <3>2. holder[KeptIn[edit[q].scope]] = q /\ KeptIn[edit[q].scope] \in PolicyFiles
        BY <3>1, <1>0, ConsentAssumption DEF IInv, EditorHoldsLock, Edits
    <3> QED
        BY <3>1, <3>2, <2>1
  <2>5. SeenIsCurrent'
      BY <2>1, <2>3 DEF IInv, SeenIsCurrent
  <2> QED
      BY <2>1, <2>2, <2>4, <2>5 DEF IInv, RevocationSticks
<1> QED
    BY <1>1, <1>2, <1>3, <1>4, <1>5, <1>6, <1>7, <1>8, <1>9 DEF ConsentNext

(* No edit of the operator is undone by another (policy_lock: "granting one  *)
(* scope cannot undo revocation"), for any number of processes.              *)
THEOREM NoEditIsLost == ConsentSpec => []RevocationSticks
<1>1. IInv => RevocationSticks
    BY DEF IInv
<1> QED
    BY <1>1, InitEstablishes, StepPreserves, PTL DEF ConsentSpec

(* A process acts only under the terms the operator accepted                 *)
(* (require_destination compares the disclosure), whatever version it runs.  *)
THEOREM ActsUnderAcceptedTerms == ConsentSpec => []PermitsWhatWasAccepted
<1>1. IInv => PermitsWhatWasAccepted
    BY DEF IInv, RevocationSticks, PermitsWhatWasAccepted, Permits
<1> QED
    BY <1>1, InitEstablishes, StepPreserves, PTL DEF ConsentSpec
-----------------------------------------------------------------------------
(* The inventory. *)

Maps == [presence : [Resources -> {"NONE", "PRESENT", "ABSENT", "UNKNOWN"}], complete : BOOLEAN]
Transition == [scan : Nat, map : Maps]
Hand == [at : {"idle", "locking", "begin", "judge", "write", "leave"}, scan : Nat, step : 0 .. 5]

InventoryTyped ==
    /\ reports \in Seq(Reports)
    /\ hand \in [Scanners -> Hand]
    /\ envLock \in Scanners \cup {NoRecorder}
    /\ envMap \in Maps /\ newMap \in Maps
    /\ staged \in Nat /\ latest \in Nat
    /\ transitions \in Seq(Transition)

(* The staged transition is the last of the history. *)
StagedIsLast ==
    LET n == Len(transitions)
    IN  /\ n = 0 => staged = 0 /\ latest = 0
        /\ n > 0 => /\ staged = transitions[n].scan
                    /\ newMap = transitions[n].map
                    /\ news = (MapAfter(n).presence # MapAfter(n - 1).presence)
        /\ \A i \in 1 .. n : transitions[i].scan \in 1 .. Len(reports)

(* Every earlier transition is complete, and nothing else is; the current    *)
(* map and the latest scan are those of the last complete transition, or     *)
(* already those of the one under way.                                       *)
OneIsUnderWay ==
    LET n == Len(transitions)
    IN  /\ \A i \in 1 .. n : i < n => transitions[i].scan \in scanned
        /\ \A s \in scanned : \E i \in 1 .. n : transitions[i].scan = s
        /\ latest <= staged
        /\ ~Unfinished => envMap = MapAfter(n) /\ latest = staged

(* A recorder past the lock holds it; one that writes has done the writes    *)
(* before its step, and one that judges a scan finds nothing pending.        *)
AtHand(p, h) ==
    /\ h.at # "idle" => h.scan \in 1 .. Len(reports)
    /\ h.at \in {"begin", "judge", "write", "leave"} => envLock = p
    /\ h.at = "judge" => ~Unfinished
    /\ h.at = "write" =>
          /\ Unfinished
          /\ h.step \in 1 .. 5
          /\ h.step > 1 => envMap = newMap
          /\ h.step > 3 => (news => staged \in told)
          /\ h.step > 4 => latest = staged

HandsAreAtWork == \A p \in Scanners : AtHand(p, hand[p])

HistoryStands == StagedIsLast /\ OneIsUnderWay /\ InventoryFollowsScans

InventoryIInv == InventoryTyped /\ HistoryStands /\ HandsAreAtWork
-----------------------------------------------------------------------------
LEMMA ReconcileIsAMap ==
    ASSUME NEW map \in Maps, NEW report \in Reports
    PROVE  Reconcile(map, report) \in Maps
<1>1. \A x \in Resources : Presence(map.presence[x], x, report) \in {"NONE", "PRESENT", "ABSENT", "UNKNOWN"}
    BY DEF Maps, Reports, Presence
<1>2. report.complete \in BOOLEAN
    BY DEF Reports
<1> QED
    BY <1>1, <1>2 DEF Maps, Reconcile

LEMMA Appended ==
    ASSUME NEW S, NEW u \in Seq(S), NEW x \in S
    PROVE  /\ Append(u, x) \in Seq(S) /\ Len(u) \in Nat /\ Len(Append(u, x)) = Len(u) + 1
           /\ \A i \in 1 .. Len(u) : Append(u, x)[i] = u[i]
           /\ Append(u, x)[Len(u) + 1] = x
OBVIOUS

LEMMA AtEaseIsAHand == AtEase \in Hand /\ AtEase.at = "idle" /\ AtEase.scan = 0 /\ AtEase.step = 0
BY DEF AtEase, Hand

LEMMA InventoryInitEstablishes == InventoryInit => InventoryIInv
<1> SUFFICES ASSUME InventoryInit PROVE InventoryIInv
    OBVIOUS
<1> USE DEF InventoryInit
<1>1. NoMap \in Maps
    BY DEF NoMap, Maps
<1>2. Len(transitions) = 0 /\ Len(reports) = 0
    OBVIOUS
<1>3. InventoryTyped
    BY <1>1, AtEaseIsAHand DEF InventoryTyped
<1>4. ~Unfinished /\ MapAfter(0) = NoMap
    BY DEF Unfinished, MapAfter
<1>5. StagedIsLast /\ OneIsUnderWay
    BY <1>2, <1>4 DEF StagedIsLast, OneIsUnderWay
<1>6. InventoryFollowsScans
    BY <1>2, <1>4 DEF InventoryFollowsScans, MapFoldsHistory, ScansEnterInOrder, ReceiptIsLast
<1>7. HandsAreAtWork
    BY AtEaseIsAHand DEF HandsAreAtWork, AtHand
<1> QED
    BY <1>3, <1>5, <1>6, <1>7 DEF InventoryIInv, HistoryStands

(* A step that moves one recorder and leaves the records alone; a new report *)
(* may come in.                                                              *)
LEMMA RecorderMoves ==
    ASSUME InventoryIInv, NEW p \in Scanners, NEW h \in Hand,
           hand' = [hand EXCEPT ![p] = h],
           UNCHANGED <<envMap, staged, newMap, news, latest, scanned, told, transitions>>,
           reports' \in Seq(Reports), Len(reports) <= Len(reports'),
           \A i \in 1 .. Len(reports) : reports'[i] = reports[i],
           envLock' \in Scanners \cup {NoRecorder},
           \A q \in Scanners \ {p} : envLock = q => envLock' = q,
           AtHand(p, h)'
    PROVE  InventoryIInv'
<1>1. InventoryTyped /\ StagedIsLast /\ OneIsUnderWay /\ InventoryFollowsScans /\ HandsAreAtWork
    BY DEF InventoryIInv, HistoryStands
<1>2. InventoryTyped'
    BY <1>1 DEF InventoryTyped
<1>3. Len(reports) \in Nat /\ Len(reports') \in Nat /\ Len(transitions) \in Nat
    BY <1>1 DEF InventoryTyped
<1>4. /\ \A i : MapAfter(i)' = MapAfter(i)
      /\ Unfinished' <=> Unfinished
    BY DEF MapAfter, Unfinished
<1>5. StagedIsLast'
  <2>1. \A i \in 1 .. Len(transitions) : transitions[i].scan \in 1 .. Len(reports')
      BY <1>1, <1>3 DEF StagedIsLast
  <2> QED
      BY <1>1, <1>4, <2>1 DEF StagedIsLast
<1>6. OneIsUnderWay'
    BY <1>1, <1>4 DEF OneIsUnderWay
<1>7. MapFoldsHistory'
  <2>1. \A i \in 1 .. Len(transitions) : reports'[transitions[i].scan] = reports[transitions[i].scan]
      BY <1>1 DEF StagedIsLast
  <2>2. \A i \in 1 .. Len(transitions) :
           transitions[i].map = Reconcile(MapAfter(i - 1), reports[transitions[i].scan])
      BY <1>1 DEF InventoryFollowsScans, MapFoldsHistory
  <2>3. \A i \in 1 .. Len(transitions) :
           transitions'[i].map = Reconcile(MapAfter(i - 1), reports[transitions[i].scan])'
      BY <1>4, <2>1, <2>2 DEF Reconcile, Presence
  <2> QED
      BY <1>1, <1>4, <2>3 DEF InventoryFollowsScans, MapFoldsHistory
<1>8. ScansEnterInOrder' /\ ReceiptIsLast'
    BY <1>1, <1>4 DEF InventoryFollowsScans, ScansEnterInOrder, ReceiptIsLast
<1>9. HandsAreAtWork'
  <2> SUFFICES ASSUME NEW q \in Scanners PROVE AtHand(q, hand[q])'
      BY DEF HandsAreAtWork
  <2>1. CASE q = p
    <3>1. hand'[q] = h
        BY <1>1, <2>1 DEF InventoryTyped
    <3> QED
        BY <2>1, <3>1 DEF AtHand
  <2>2. CASE q # p
    <3>1. hand'[q] = hand[q] /\ AtHand(q, hand[q]) /\ (envLock = q => envLock' = q)
        BY <1>1, <2>2 DEF InventoryTyped, HandsAreAtWork
    <3>2. hand[q].scan \in 1 .. Len(reports) => hand[q].scan \in 1 .. Len(reports')
        BY <1>3
    <3> QED
        BY <1>4, <3>1, <3>2 DEF AtHand
  <2> QED
      BY <2>1, <2>2
<1> QED
    BY <1>2, <1>5, <1>6, <1>7, <1>8, <1>9 DEF InventoryIInv, HistoryStands, InventoryFollowsScans

(* A recorder that is past the lock keeps all others out. *)
LEMMA OthersWait ==
    ASSUME InventoryIInv, NEW p \in Scanners, hand[p].at \in {"begin", "judge", "write", "leave"}
    PROVE  /\ envLock = p
           /\ \A q \in Scanners \ {p} : hand[q].at \in {"idle", "locking"}
<1>1. envLock = p
    BY DEF InventoryIInv, HandsAreAtWork, AtHand
<1> QED
    BY <1>1 DEF InventoryIInv, InventoryTyped, Hand, HandsAreAtWork, AtHand

LEMMA LeavePreserves ==
    ASSUME InventoryIInv, NEW p \in Scanners, hand[p].at \in {"begin", "judge", "leave"}, Leave(p)
    PROVE  InventoryIInv'
<1>1. PICK h \in Hand : h = AtEase /\ h.at = "idle"
    BY AtEaseIsAHand
<1>2. /\ hand' = [hand EXCEPT ![p] = h] /\ envLock' = NoRecorder
      /\ UNCHANGED <<reports, envMap, staged, newMap, news, latest, scanned, told, transitions>>
    BY <1>1 DEF Leave, Kept
<1>3. AtHand(p, h)'
    BY <1>1 DEF AtHand
<1>4. reports' \in Seq(Reports) /\ Len(reports) <= Len(reports')
    BY <1>2 DEF InventoryIInv, InventoryTyped
<1>5. \A q \in Scanners \ {p} : envLock = q => envLock' = q
    BY OthersWait
<1> QED
    BY <1>2, <1>3, <1>4, <1>5, RecorderMoves

(* A scan enters the history: it is newer than all before it, and they are   *)
(* complete.                                                                 *)
LEMMA StagePreserves ==
    ASSUME InventoryIInv, NEW p \in Scanners, hand[p].at = "judge", hand[p].scan > latest, StageScan(p)
    PROVE  InventoryIInv'
<1>1. InventoryTyped /\ StagedIsLast /\ OneIsUnderWay /\ InventoryFollowsScans /\ HandsAreAtWork
    BY DEF InventoryIInv, HistoryStands
<1>2. AtHand(p, hand[p]) /\ hand[p] \in Hand
    BY <1>1 DEF HandsAreAtWork, InventoryTyped
<1>a. PICK n \in Nat : n = Len(transitions)
    BY <1>1 DEF InventoryTyped
<1>b. PICK s \in Nat : s = hand[p].scan
    BY <1>2 DEF Hand
<1>3. /\ s \in 1 .. Len(reports) /\ s \in Nat /\ ~Unfinished /\ n \in Nat /\ Len(reports) \in Nat
      /\ envMap = MapAfter(n) /\ latest = staged
    BY <1>1, <1>2, <1>a, <1>b DEF AtHand, OneIsUnderWay, InventoryTyped, Hand
<1>4. PICK map : map = Reconcile(envMap, reports[s])
    OBVIOUS
<1>5. map \in Maps
  <2>1. reports[s] \in Reports /\ envMap \in Maps
      BY <1>1, <1>3 DEF InventoryTyped
  <2> QED
      BY <1>4, <2>1, ReconcileIsAMap
<1>c. PICK t : t = [scan |-> s, map |-> map]
    OBVIOUS
<1>6. t \in Transition /\ t = [scan |-> s, map |-> map] /\ t.scan = s /\ t.map = map
    BY <1>5, <1>c DEF Transition
<1>7. PICK h : h = [hand[p] EXCEPT !.at = "write", !.step = 1]
    OBVIOUS
<1>d. PICK g \in Hand : g = hand[p] /\ g.scan = s
    BY <1>2, <1>b
<1>e. h = [at |-> "write", scan |-> s, step |-> 1]
    BY <1>7, <1>d DEF Hand
<1>8. h \in Hand /\ h.at = "write" /\ h.step = 1 /\ h.scan = s
    BY <1>e DEF Hand
<1>9. /\ staged' = s /\ newMap' = map /\ news' = (map.presence # envMap.presence)
      /\ transitions' = Append(transitions, t)
      /\ hand' = [hand EXCEPT ![p] = h]
      /\ UNCHANGED <<reports, envLock, envMap, latest, scanned, told>>
    BY <1>4, <1>6, <1>7, <1>b DEF StageScan
<1>10. /\ transitions' \in Seq(Transition) /\ Len(transitions') = n + 1
       /\ \A i \in 1 .. n : transitions'[i] = transitions[i]
       /\ transitions'[n + 1] = t
  <2>1. transitions \in Seq(Transition)
      BY <1>1 DEF InventoryTyped
  <2> QED
      BY <1>6, <1>9, <1>a, <2>1, Appended
<1>11. InventoryTyped'
    BY <1>1, <1>3, <1>5, <1>8, <1>9, <1>10 DEF InventoryTyped
<1>12. /\ \A i \in 0 .. n : MapAfter(i)' = MapAfter(i)
       /\ MapAfter(n + 1)' = map
    BY <1>3, <1>6, <1>10 DEF MapAfter
<1>13. \A i \in 1 .. n : transitions[i].scan \in Nat /\ transitions[i].scan <= staged
  <2>1. \A i \in 1 .. n : transitions[i] \in Transition
      BY <1>1, <1>a DEF InventoryTyped
  <2>2. n > 0 => staged = transitions[n].scan
      BY <1>1, <1>a DEF StagedIsLast
  <2>3. \A i \in 1 .. n : i < n => transitions[i].scan < transitions[n].scan
      BY <1>1, <1>3, <1>a DEF InventoryFollowsScans, ScansEnterInOrder
  <2> QED
      BY <1>3, <2>1, <2>2, <2>3 DEF Transition
<1>14. \A i \in 1 .. n : transitions[i].scan < s
    BY <1>1, <1>3, <1>13, <1>b DEF InventoryTyped
<1>15. s \notin scanned /\ s > 0
  <2>1. ASSUME s \in scanned PROVE FALSE
    <3>1. PICK i \in 1 .. n : transitions[i].scan = s
        BY <1>1, <2>1, <1>a DEF OneIsUnderWay
    <3> QED
        BY <1>3, <1>14, <3>1
  <2> QED
      BY <1>3, <2>1
<1>16. Unfinished'
    BY <1>3, <1>9, <1>15 DEF Unfinished
<1>17. StagedIsLast'
  <2>1. \A i \in 1 .. n + 1 : transitions'[i].scan \in 1 .. Len(reports')
    <3>1. \A i \in 1 .. n : transitions[i].scan \in 1 .. Len(reports)
        BY <1>1, <1>a DEF StagedIsLast
    <3> QED
        BY <1>3, <1>6, <1>9, <1>10, <3>1
  <2>2. news' = (MapAfter(n + 1)'.presence # MapAfter(n)'.presence)
      BY <1>3, <1>9, <1>12
  <2>3. n + 1 > 0 /\ n + 1 # 0 /\ (n + 1) - 1 = n
      BY <1>3
  <2> QED
      BY <1>3, <1>6, <1>9, <1>10, <2>1, <2>2, <2>3 DEF StagedIsLast
<1>18. OneIsUnderWay'
  <2>1. \A i \in 1 .. n : transitions[i].scan \in scanned
    <3>1. \A i \in 1 .. n : i < n => transitions[i].scan \in scanned
        BY <1>1, <1>a DEF OneIsUnderWay
    <3>2. n > 0 => staged = transitions[n].scan /\ staged # 0
        BY <1>1, <1>3, <1>a DEF StagedIsLast
    <3>3. n > 0 => transitions[n].scan \in scanned
        BY <1>3, <3>2 DEF Unfinished
    <3> QED
        BY <1>3, <3>1, <3>3
  <2>2. \A i \in 1 .. n + 1 : i < n + 1 => transitions'[i].scan \in scanned'
      BY <1>3, <1>9, <1>10, <2>1
  <2>3. \A x \in scanned' : \E i \in 1 .. n + 1 : transitions'[i].scan = x
    <3> SUFFICES ASSUME NEW x \in scanned PROVE \E i \in 1 .. n + 1 : transitions'[i].scan = x
        BY <1>9
    <3>1. PICK i \in 1 .. n : transitions[i].scan = x
        BY <1>1, <1>a DEF OneIsUnderWay
    <3> QED
        BY <1>3, <1>10, <3>1
  <2>4. latest' <= staged'
      BY <1>1, <1>3, <1>9, <1>b DEF InventoryTyped
  <2> QED
      BY <1>10, <1>16, <2>2, <2>3, <2>4 DEF OneIsUnderWay
<1>19. MapFoldsHistory'
  <2>1. \A i \in 1 .. n : transitions[i].map = Reconcile(MapAfter(i - 1), reports[transitions[i].scan])
      BY <1>1, <1>a DEF InventoryFollowsScans, MapFoldsHistory
  <2>2. ASSUME NEW i \in 1 .. n + 1
        PROVE  transitions'[i].map = Reconcile(MapAfter(i - 1)', reports'[transitions'[i].scan])
    <3>1. CASE i \in 1 .. n
      <4>1. i - 1 \in 0 .. n
          BY <1>3, <3>1
      <4> QED
          BY <1>9, <1>10, <1>12, <2>1, <3>1, <4>1
    <3>2. CASE i = n + 1
      <4>1. i - 1 = n /\ n \in 0 .. n
          BY <1>3, <3>2
      <4>2. MapAfter(i - 1)' = envMap
          BY <1>3, <1>12, <4>1
      <4>3. transitions'[i].map = map /\ transitions'[i].scan = s
          BY <1>6, <1>10, <3>2
      <4> QED
          BY <1>4, <1>9, <4>2, <4>3
    <3> QED
        BY <1>3, <3>1, <3>2
  <2>3. envMap' = MapAfter((n + 1) - 1)'
    <3>1. (n + 1) - 1 = n /\ n \in 0 .. n
        BY <1>3
    <3> QED
        BY <1>3, <1>9, <1>12, <3>1
  <2> QED
      BY <1>10, <1>16, <2>2, <2>3 DEF MapFoldsHistory
<1>20. ScansEnterInOrder'
  <2>1. \A i, j \in 1 .. n : i < j => transitions[i].scan < transitions[j].scan
      BY <1>1, <1>a DEF InventoryFollowsScans, ScansEnterInOrder
  <2>2. \A i, j \in 1 .. n + 1 : i < j => transitions'[i].scan < transitions'[j].scan
    <3> SUFFICES ASSUME NEW i \in 1 .. n + 1, NEW j \in 1 .. n + 1, i < j
                 PROVE  transitions'[i].scan < transitions'[j].scan
        OBVIOUS
    <3>1. i \in 1 .. n
        BY <1>3
    <3>2. CASE j \in 1 .. n
        BY <1>10, <2>1, <3>1, <3>2
    <3>3. CASE j = n + 1
        BY <1>6, <1>10, <1>14, <3>1, <3>3
    <3> QED
        BY <1>3, <3>2, <3>3
  <2> QED
      BY <1>10, <2>2 DEF ScansEnterInOrder
<1>21. ReceiptIsLast'
  <2> SUFFICES ASSUME NEW i \in 1 .. n + 1, transitions'[i].scan \in scanned
               PROVE  /\ latest' >= transitions'[i].scan
                      /\ MapAfter(i)'.presence # MapAfter(i - 1)'.presence => transitions'[i].scan \in told'
      BY <1>9, <1>10 DEF ReceiptIsLast
  <2>1. i # n + 1
      BY <1>6, <1>10, <1>15
  <2>2. i \in 1 .. n /\ i \in 0 .. n /\ i - 1 \in 0 .. n
      BY <1>3, <2>1
  <2>3. transitions'[i] = transitions[i] /\ MapAfter(i)' = MapAfter(i) /\ MapAfter(i - 1)' = MapAfter(i - 1)
      BY <1>10, <1>12, <2>2
  <2> QED
      BY <1>1, <1>9, <2>2, <2>3, <1>a DEF InventoryFollowsScans, ReceiptIsLast
<1>22. HandsAreAtWork'
  <2> SUFFICES ASSUME NEW q \in Scanners PROVE AtHand(q, hand[q])'
      BY DEF HandsAreAtWork
  <2>1. CASE q = p
    <3>1. hand'[q] = h /\ envLock' = q
        BY <1>1, <1>2, <1>9, <2>1 DEF InventoryTyped, AtHand
    <3> QED
        BY <1>3, <1>8, <1>9, <1>16, <3>1 DEF AtHand
  <2>2. CASE q # p
    <3>1. hand'[q] = hand[q] /\ AtHand(q, hand[q]) /\ hand[q].at \in {"idle", "locking"}
        BY <1>1, <1>9, <2>2, OthersWait DEF InventoryTyped, HandsAreAtWork
    <3> QED
        BY <1>9, <3>1 DEF AtHand
  <2> QED
      BY <2>1, <2>2
<1> QED
    BY <1>11, <1>17, <1>18, <1>19, <1>20, <1>21, <1>22
       DEF InventoryIInv, HistoryStands, InventoryFollowsScans
(* The writes of a transition, one at a time: the map first, the receipt     *)
(* last, when all the others are there.                                      *)
LEMMA WritePreserves ==
    ASSUME InventoryIInv, NEW p \in Scanners, WriteNext(p)
    PROVE  InventoryIInv'
<1>1. InventoryTyped /\ StagedIsLast /\ OneIsUnderWay /\ InventoryFollowsScans /\ HandsAreAtWork
    BY DEF InventoryIInv, HistoryStands
<1>2. AtHand(p, hand[p]) /\ hand[p] \in Hand /\ hand[p].at = "write"
    BY <1>1 DEF HandsAreAtWork, InventoryTyped, WriteNext
<1>3. PICK n \in Nat : n = Len(transitions)
    BY <1>1 DEF InventoryTyped
<1>4. PICK g \in Hand : g = hand[p]
    BY <1>2
<1>5. PICK k \in 1 .. 5 : k = g.step
    BY <1>2, <1>4 DEF AtHand
<1>6. /\ Unfinished /\ envLock = p /\ g.at = "write" /\ g.scan \in 1 .. Len(reports)
      /\ k > 1 => envMap = newMap
      /\ k > 3 => (news => staged \in told)
      /\ k > 4 => latest = staged
    BY <1>2, <1>4, <1>5 DEF AtHand
<1>7. /\ n > 0 /\ staged \in Nat /\ latest \in Nat /\ latest <= staged
      /\ staged = transitions[n].scan /\ newMap = transitions[n].map
      /\ news = (MapAfter(n).presence # MapAfter(n - 1).presence)
    BY <1>1, <1>3, <1>6 DEF StagedIsLast, Unfinished, OneIsUnderWay, InventoryTyped
<1>8. /\ Len(Writes) = 5
      /\ Writes[k] = "map" <=> k = 1
      /\ Writes[k] = "percept" <=> k = 3
      /\ Writes[k] = "latest" <=> k = 4
      /\ Writes[k] = "receipt" <=> k = 5
  <2>1. Writes[1] = "map" /\ Writes[2] = "posture" /\ Writes[3] = "percept" /\ Writes[4] = "latest"
        /\ Writes[5] = "receipt" /\ Len(Writes) = 5
      BY DEF Writes
  <2>2. k = 1 \/ k = 2 \/ k = 3 \/ k = 4 \/ k = 5
      OBVIOUS
  <2> QED
      BY <2>1, <2>2
<1>9. /\ envMap' = newMap
      /\ told \subseteq told' /\ (k >= 3 => (news => staged \in told'))
      /\ latest' = IF k >= 4 THEN staged ELSE latest
      /\ scanned' = IF k = 5 THEN scanned \cup {staged} ELSE scanned
      /\ UNCHANGED <<reports, envLock, staged, newMap, news, transitions>>
  <2>1. /\ envMap' = (IF k = 1 THEN newMap ELSE envMap)
        /\ told' = (IF k = 3 /\ news THEN told \cup {staged} ELSE told)
        /\ latest' = (IF k = 4 THEN staged ELSE latest)
        /\ scanned' = (IF k = 5 THEN scanned \cup {staged} ELSE scanned)
        /\ UNCHANGED <<reports, envLock, staged, newMap, news, transitions>>
      BY <1>4, <1>5, <1>8 DEF WriteNext
  <2> QED
      BY <1>6, <2>1
<1>10. PICK h \in Hand : /\ hand' = [hand EXCEPT ![p] = h]
                         /\ h.scan = g.scan
                         /\ \/ k < 5 /\ h.at = "write" /\ h.step = k + 1
                            \/ k = 5 /\ h.at \in {"judge", "leave"}
  <2>1. hand' = [hand EXCEPT ![p] = IF k < 5 THEN [g EXCEPT !.step = k + 1]
                                   ELSE IF g.scan = staged THEN [g EXCEPT !.at = "leave"]
                                   ELSE [g EXCEPT !.at = "judge"]]
      BY <1>1, <1>4, <1>5, <1>8 DEF WriteNext, InventoryTyped
  <2>2. CASE k < 5
    <3>1. k + 1 \in 0 .. 5
        BY <2>2
    <3>2. PICK h : h = [at |-> "write", scan |-> g.scan, step |-> k + 1]
        OBVIOUS
    <3>3. h \in Hand /\ h.at = "write" /\ h.scan = g.scan /\ h.step = k + 1
        BY <3>1, <3>2 DEF Hand
    <3>4. h = [g EXCEPT !.step = k + 1]
        BY <1>6, <3>2 DEF Hand
    <3> QED
        BY <2>1, <2>2, <3>3, <3>4
  <2>3. CASE k = 5
    <3>1. PICK a \in {"judge", "leave"} : hand' = [hand EXCEPT ![p] = [g EXCEPT !.at = a]]
      <4>1. CASE g.scan = staged
        <5>1. hand' = [hand EXCEPT ![p] = [g EXCEPT !.at = "leave"]]
            BY <2>1, <2>3, <4>1
        <5> QED
            BY <5>1
      <4>2. CASE g.scan # staged
        <5>1. hand' = [hand EXCEPT ![p] = [g EXCEPT !.at = "judge"]]
            BY <2>1, <2>3, <4>2
        <5> QED
            BY <5>1
      <4> QED
          BY <4>1, <4>2
    <3>2. hand' = [hand EXCEPT ![p] = [g EXCEPT !.at = a]]
        BY <3>1
    <3>3. PICK h : h = [at |-> a, scan |-> g.scan, step |-> g.step]
        OBVIOUS
    <3>4. h \in Hand /\ h.at = a /\ h.scan = g.scan
        BY <3>1, <3>3 DEF Hand
    <3>5. h = [g EXCEPT !.at = a]
        BY <3>3 DEF Hand
    <3> QED
        BY <2>3, <3>1, <3>2, <3>4, <3>5
  <2> QED
      BY <2>2, <2>3
<1>11. InventoryTyped'
    BY <1>1, <1>7, <1>9, <1>10 DEF InventoryTyped
<1>12. /\ \A i : MapAfter(i)' = MapAfter(i)
       /\ Unfinished' <=> k < 5
       /\ MapAfter(n) = newMap
    BY <1>6, <1>7, <1>9 DEF MapAfter, Unfinished
<1>13. StagedIsLast'
    BY <1>1, <1>3, <1>7, <1>9, <1>12 DEF StagedIsLast
<1>14. OneIsUnderWay'
  <2>1. \A i \in 1 .. n : i < n => transitions[i].scan \in scanned
      BY <1>1, <1>3 DEF OneIsUnderWay
  <2>2. \A s \in scanned' : \E i \in 1 .. n : transitions[i].scan = s
    <3>1. \A s \in scanned : \E i \in 1 .. n : transitions[i].scan = s
        BY <1>1, <1>3 DEF OneIsUnderWay
    <3>2. n \in 1 .. n
        BY <1>7
    <3> QED
        BY <1>7, <1>9, <3>1, <3>2
  <2>3. latest' <= staged' /\ (k = 5 => latest' = staged')
      BY <1>7, <1>9
  <2>4. k < 5 \/ k = 5
      OBVIOUS
  <2> QED
      BY <1>3, <1>9, <1>12, <2>1, <2>2, <2>3, <2>4 DEF OneIsUnderWay
<1>15. MapFoldsHistory'
  <2>1. \A i \in 1 .. n : transitions[i].map = Reconcile(MapAfter(i - 1), reports[transitions[i].scan])
      BY <1>1, <1>3 DEF InventoryFollowsScans, MapFoldsHistory
  <2>2. \A i \in 1 .. n : transitions'[i].map = Reconcile(MapAfter(i - 1)', reports'[transitions'[i].scan])
      BY <1>9, <1>12, <2>1
  <2> QED
      BY <1>3, <1>9, <1>12, <2>2 DEF MapFoldsHistory
<1>16. ScansEnterInOrder'
    BY <1>1, <1>9 DEF InventoryFollowsScans, ScansEnterInOrder
<1>17. ReceiptIsLast'
  <2> SUFFICES ASSUME NEW i \in 1 .. n, transitions[i].scan \in scanned'
               PROVE  /\ latest' >= transitions[i].scan
                      /\ MapAfter(i).presence # MapAfter(i - 1).presence => transitions[i].scan \in told'
      BY <1>3, <1>9, <1>12 DEF ReceiptIsLast
  <2>1. CASE transitions[i].scan \in scanned
    <3>1. /\ latest >= transitions[i].scan
          /\ MapAfter(i).presence # MapAfter(i - 1).presence => transitions[i].scan \in told
        BY <1>1, <1>3, <2>1 DEF InventoryFollowsScans, ReceiptIsLast
    <3>2. transitions[i] \in Transition
        BY <1>1, <1>3 DEF InventoryTyped
    <3>3. transitions[i].scan \in Nat
        BY <3>2 DEF Transition
    <3> QED
        BY <1>7, <1>9, <3>1, <3>3
  <2>2. CASE transitions[i].scan \notin scanned
    <3>1. k = 5 /\ transitions[i].scan = staged
        BY <1>9, <2>2
    <3>2. i = n
        BY <1>1, <1>3, <2>2 DEF OneIsUnderWay
    <3>3. latest' = staged /\ (news => staged \in told')
        BY <1>9, <3>1
    <3>4. MapAfter(i).presence # MapAfter(i - 1).presence => news
        BY <1>7, <3>2
    <3> QED
        BY <1>7, <3>1, <3>3, <3>4
  <2> QED
      BY <2>1, <2>2
<1>18. HandsAreAtWork'
  <2> SUFFICES ASSUME NEW q \in Scanners PROVE AtHand(q, hand[q])'
      BY DEF HandsAreAtWork
  <2>1. CASE q = p
    <3>1. hand'[q] = h
        BY <1>1, <1>10, <2>1 DEF InventoryTyped
    <3>2. CASE k < 5
      <4>1. h.at = "write" /\ h.step = k + 1 /\ k + 1 \in 1 .. 5 /\ Unfinished'
          BY <1>10, <1>12, <3>2
      <4>2. (k + 1 > 3 => (news' => staged' \in told')) /\ (k + 1 > 4 => latest' = staged')
          BY <1>9
      <4> QED
          BY <1>6, <1>9, <1>10, <2>1, <3>1, <4>1, <4>2 DEF AtHand
    <3>3. CASE k = 5
      <4>1. h.at \in {"judge", "leave"} /\ ~Unfinished'
          BY <1>10, <1>12, <3>3
      <4> QED
          BY <1>6, <1>9, <1>10, <2>1, <3>1, <4>1 DEF AtHand
    <3> QED
        BY <3>2, <3>3
  <2>2. CASE q # p
    <3>1. hand'[q] = hand[q] /\ AtHand(q, hand[q]) /\ hand[q].at \in {"idle", "locking"}
        BY <1>1, <1>2, <1>10, <2>2, OthersWait DEF InventoryTyped, HandsAreAtWork
    <3> QED
        BY <1>9, <3>1 DEF AtHand
  <2> QED
      BY <2>1, <2>2
<1> QED
    BY <1>11, <1>13, <1>14, <1>15, <1>16, <1>17, <1>18
       DEF InventoryIInv, HistoryStands, InventoryFollowsScans

(* The step a recorder with the lock takes before it writes. *)
LEMMA BeginPreserves ==
    ASSUME InventoryIInv, NEW p \in Scanners, BeginRecord(p)
    PROVE  InventoryIInv'
<1>1. hand[p] \in Hand /\ AtHand(p, hand[p]) /\ hand[p].at = "begin" /\ reports \in Seq(Reports)
      /\ envLock \in Scanners \cup {NoRecorder}
    BY DEF InventoryIInv, InventoryTyped, HandsAreAtWork, BeginRecord
<1>2. PICK g \in Hand : g = hand[p]
    BY <1>1
<1>3. envLock = p /\ g.scan \in 1 .. Len(reports)
    BY <1>1, <1>2 DEF AtHand
<1>4. CASE Leave(p)
    BY <1>1, <1>4, LeavePreserves
<1>5. CASE Unfinished /\ UNCHANGED envLock /\ Kept
           /\ hand' = [hand EXCEPT ![p] = [g EXCEPT !.at = "write", !.step = 1]]
  <2>1. PICK h : h = [g EXCEPT !.at = "write", !.step = 1]
      OBVIOUS
  <2>2. h = [at |-> "write", scan |-> g.scan, step |-> 1]
      BY <2>1 DEF Hand
  <2>3. h \in Hand /\ h.at = "write" /\ h.scan = g.scan /\ h.step = 1
      BY <2>2 DEF Hand
  <2>4. /\ hand' = [hand EXCEPT ![p] = h]
        /\ UNCHANGED <<reports, envLock, envMap, staged, newMap, news, latest, scanned, told, transitions>>
      BY <1>5, <2>1 DEF Kept
  <2>5. AtHand(p, h)'
      BY <1>3, <1>5, <2>3, <2>4 DEF AtHand, Unfinished
  <2>6. /\ reports' \in Seq(Reports) /\ Len(reports) <= Len(reports')
        /\ envLock' \in Scanners \cup {NoRecorder}
      BY <1>1, <2>4
  <2> QED
      BY <2>3, <2>4, <2>5, <2>6, RecorderMoves
<1>6. CASE ~Unfinished /\ UNCHANGED envLock /\ Kept
           /\ hand' = [hand EXCEPT ![p] = [g EXCEPT !.at = "judge"]]
  <2>1. PICK h : h = [at |-> "judge", scan |-> g.scan, step |-> g.step]
      OBVIOUS
  <2>2. h \in Hand /\ h.at = "judge" /\ h.scan = g.scan
      BY <2>1 DEF Hand
  <2>3. h = [g EXCEPT !.at = "judge"]
      BY <2>1 DEF Hand
  <2>4. /\ hand' = [hand EXCEPT ![p] = h]
        /\ UNCHANGED <<reports, envLock, envMap, staged, newMap, news, latest, scanned, told, transitions>>
      BY <1>6, <2>3 DEF Kept
  <2>5. AtHand(p, h)'
      BY <1>3, <1>6, <2>2, <2>4 DEF AtHand, Unfinished
  <2>6. /\ reports' \in Seq(Reports) /\ Len(reports) <= Len(reports')
        /\ envLock' \in Scanners \cup {NoRecorder}
      BY <1>1, <2>4
  <2> QED
      BY <2>2, <2>4, <2>5, <2>6, RecorderMoves
<1>7. \/ Leave(p)
      \/ Unfinished /\ UNCHANGED envLock /\ Kept
         /\ hand' = [hand EXCEPT ![p] = [g EXCEPT !.at = "write", !.step = 1]]
      \/ ~Unfinished /\ UNCHANGED envLock /\ Kept
         /\ hand' = [hand EXCEPT ![p] = [g EXCEPT !.at = "judge"]]
    BY <1>2 DEF BeginRecord, Unfinished
<1> QED
    BY <1>4, <1>5, <1>6, <1>7

LEMMA InventoryStepPreserves == InventoryIInv /\ [InventoryNext]_inventoryVars => InventoryIInv'
<1> SUFFICES ASSUME InventoryIInv, [InventoryNext]_inventoryVars PROVE InventoryIInv'
    OBVIOUS
<1>1. InventoryTyped /\ HandsAreAtWork /\ Len(reports) \in Nat /\ reports \in Seq(Reports)
    BY DEF InventoryIInv, InventoryTyped
<1>2. ASSUME UNCHANGED inventoryVars PROVE InventoryIInv'
  <2>1. \A i : MapAfter(i)' = MapAfter(i)
      BY <1>2 DEF inventoryVars, MapAfter
  <2>2. Unfinished' <=> Unfinished
      BY <1>2 DEF inventoryVars, Unfinished
  <2>3. InventoryTyped' /\ HandsAreAtWork'
      BY <1>1, <1>2, <2>2 DEF inventoryVars, InventoryTyped, HandsAreAtWork, AtHand
  <2>4. StagedIsLast' /\ OneIsUnderWay'
      BY <1>2, <2>1, <2>2 DEF inventoryVars, InventoryIInv, HistoryStands, StagedIsLast, OneIsUnderWay
  <2>5. InventoryFollowsScans'
      BY <1>2, <2>1, <2>2 DEF inventoryVars, InventoryIInv, HistoryStands, InventoryFollowsScans,
         MapFoldsHistory, ScansEnterInOrder, ReceiptIsLast
  <2> QED
      BY <2>3, <2>4, <2>5 DEF InventoryIInv, HistoryStands
<1>3. ASSUME NEW p \in Scanners, NEW report \in Reports, TakeScan(p, report) PROVE InventoryIInv'
  <2>0. PICK e \in Hand : e = AtEase
      BY AtEaseIsAHand
  <2>1. PICK h : h = [e EXCEPT !.at = "locking", !.scan = Len(reports) + 1]
      OBVIOUS
  <2>2. h \in Hand /\ h.at = "locking" /\ h.scan = Len(reports) + 1
    <3>1. h = [at |-> "locking", scan |-> Len(reports) + 1, step |-> e.step]
        BY <2>1 DEF Hand
    <3> QED
        BY <1>1, <3>1 DEF Hand
  <2>3. hand' = [hand EXCEPT ![p] = h]
      BY <1>3, <2>0, <2>1 DEF TakeScan
  <2>4. /\ reports' = Append(reports, report)
        /\ UNCHANGED <<envLock, envMap, staged, newMap, news, latest, scanned, told, transitions>>
      BY <1>3 DEF TakeScan
  <2>5. /\ reports' \in Seq(Reports) /\ Len(reports') = Len(reports) + 1
        /\ \A i \in 1 .. Len(reports) : reports'[i] = reports[i]
      BY <1>1, <2>4, Appended
  <2>6. AtHand(p, h)'
      BY <1>1, <2>2, <2>5 DEF AtHand
  <2>7. Len(reports) <= Len(reports') /\ envLock' \in Scanners \cup {NoRecorder}
      BY <1>1, <2>4, <2>5 DEF InventoryTyped
  <2> QED
      BY <2>2, <2>3, <2>4, <2>5, <2>6, <2>7, RecorderMoves
<1>4. ASSUME NEW p \in Scanners, NEW s \in 1 .. Len(reports), RetryScan(p, s) PROVE InventoryIInv'
  <2>0. PICK e \in Hand : e = AtEase
      BY AtEaseIsAHand
  <2>1. PICK h : h = [e EXCEPT !.at = "locking", !.scan = s]
      OBVIOUS
  <2>2. h \in Hand /\ h.at = "locking" /\ h.scan = s
    <3>1. h = [at |-> "locking", scan |-> s, step |-> e.step]
        BY <2>1 DEF Hand
    <3> QED
        BY <1>1, <3>1 DEF Hand
  <2>3. hand' = [hand EXCEPT ![p] = h]
      BY <1>4, <2>0, <2>1 DEF RetryScan
  <2>4. UNCHANGED <<reports, envLock, envMap, staged, newMap, news, latest, scanned, told, transitions>>
      BY <1>4 DEF RetryScan, Kept
  <2>5. AtHand(p, h)'
      BY <1>4, <2>2, <2>4 DEF AtHand
  <2>6. /\ reports' \in Seq(Reports) /\ Len(reports) <= Len(reports')
        /\ envLock' \in Scanners \cup {NoRecorder}
      BY <1>1, <2>4 DEF InventoryTyped
  <2> QED
      BY <2>2, <2>3, <2>4, <2>5, <2>6, RecorderMoves
<1>5. ASSUME NEW p \in Scanners, LockHost(p) PROVE InventoryIInv'
  <2>1. PICK g \in Hand : g = hand[p] /\ AtHand(p, g) /\ g.at = "locking"
      BY <1>1, <1>5 DEF InventoryTyped, HandsAreAtWork, LockHost
  <2>2. PICK h : h = [at |-> "begin", scan |-> g.scan, step |-> g.step]
      OBVIOUS
  <2>3. h \in Hand /\ h.at = "begin" /\ h.scan = g.scan
      BY <2>2 DEF Hand
  <2>4. h = [g EXCEPT !.at = "begin"]
      BY <2>2 DEF Hand
  <2>5. /\ hand' = [hand EXCEPT ![p] = h] /\ envLock = NoRecorder /\ envLock' = p
        /\ UNCHANGED <<reports, envMap, staged, newMap, news, latest, scanned, told, transitions>>
      BY <1>5, <2>1, <2>4 DEF LockHost, Kept
  <2>6. AtHand(p, h)'
      BY <2>1, <2>3, <2>5 DEF AtHand
  <2>7. /\ reports' \in Seq(Reports) /\ Len(reports) <= Len(reports')
        /\ \A q \in Scanners \ {p} : envLock = q => envLock' = q
      BY <1>1, <2>5, InventoryAssumption
  <2> QED
      BY <2>3, <2>5, <2>6, <2>7, RecorderMoves
<1>6. ASSUME NEW p \in Scanners, JudgeScan(p) PROVE InventoryIInv'
    BY <1>6, LeavePreserves, StagePreserves DEF JudgeScan
<1>7. ASSUME NEW p \in Scanners, EndRecord(p) PROVE InventoryIInv'
    BY <1>7, LeavePreserves DEF EndRecord
<1>8. ASSUME NEW p \in Scanners, RecorderDies(p) PROVE InventoryIInv'
  <2>1. PICK h \in Hand : h = AtEase /\ h.at = "idle"
      BY AtEaseIsAHand
  <2>2. /\ hand' = [hand EXCEPT ![p] = h]
        /\ envLock' = (IF envLock = p THEN NoRecorder ELSE envLock)
        /\ UNCHANGED <<reports, envMap, staged, newMap, news, latest, scanned, told, transitions>>
      BY <1>8, <2>1 DEF RecorderDies
  <2>3. AtHand(p, h)'
      BY <2>1 DEF AtHand
  <2>4. /\ reports' \in Seq(Reports) /\ Len(reports) <= Len(reports')
        /\ envLock' \in Scanners \cup {NoRecorder}
        /\ \A q \in Scanners \ {p} : envLock = q => envLock' = q
      BY <1>1, <2>2 DEF InventoryTyped
  <2> QED
      BY <2>2, <2>3, <2>4, RecorderMoves
<1> QED
    BY <1>2, <1>3, <1>4, <1>5, <1>6, <1>7, <1>8, BeginPreserves, WritePreserves DEF InventoryNext

(* However many processes scan, record, retry and die (record_environment_   *)
(* scan completes the pending transition before its own), the inventory is   *)
(* what the recorded scans add up to, each once and in the order of their    *)
(* observation, and a receipt means that all of a scan is recorded.          *)
THEOREM InventoryStands == InventorySpec => []InventoryFollowsScans
<1>1. InventoryIInv => InventoryFollowsScans
    BY DEF InventoryIInv, HistoryStands
<1> QED
    BY <1>1, InventoryInitEstablishes, InventoryStepPreserves, PTL DEF InventorySpec
-----------------------------------------------------------------------------
(* The order of work items. *)

OrderTyped ==
    /\ priority \in [Items -> Nat]
    /\ needs \in WorkSets
    /\ remaining \subseteq Items
    /\ ordered \in Seq(Items)
    /\ verdict \in {"ordering", "ordered", "missing", "cycle"}

NoStranger == \A i \in Items : Stranger \notin needs[i]

(* The order so far has each item that is no longer remaining once, and      *)
(* dependencies first; nothing that has been taken waits for one that        *)
(* remains.                                                                  *)
TakenOnce ==
    LET n == Len(ordered)
    IN  /\ n + Cardinality(remaining) = LastItem
        /\ \A i \in 1 .. n : ordered[i] \notin remaining /\ needs[ordered[i]] \cap remaining = {}
        /\ \A x \in Items \ remaining : \E i \in 1 .. n : ordered[i] = x
        /\ \A i, j \in 1 .. n : ordered[i] = ordered[j] => i = j
        /\ \A i, j \in 1 .. n : ordered[i] \in needs[ordered[j]] => i < j

(* Whatever else could have been taken in its place comes after it. *)
CouldFollow(x, k) ==
    /\ \A i \in 1 .. k : ordered[i] # x
    /\ \A d \in needs[x] : \E i \in 1 .. k - 1 : ordered[i] = d

EachWasForemost ==
    \A k \in 1 .. Len(ordered) : \A x \in Items : CouldFollow(x, k) => GoesBefore(ordered[k], x)

VerdictIsJust ==
    /\ verdict = "ordered" => remaining = {} /\ NoStranger
    /\ verdict = "cycle" => remaining # {} /\ Ready = {} /\ NoStranger
    /\ verdict = "missing" => ~NoStranger

OrderIInv == OrderTyped /\ TakenOnce /\ EachWasForemost /\ VerdictIsJust
-----------------------------------------------------------------------------
LEMMA LeastNumber ==
    ASSUME NEW S \in SUBSET Nat, S # {}
    PROVE  \E n \in S : \A m \in S : n <= m
<1>1. PICK n \in S : \A m \in S : ~(<<m, n>> \in OpToRel(<, Nat))
    BY NatLessThanWellFounded, WFMin
<1>2. ASSUME NEW m \in S, ~(n <= m) PROVE FALSE
  <2>1. <<m, n>> \in Nat \X Nat /\ <<m, n>>[1] < <<m, n>>[2]
      BY <1>2
  <2>2. <<m, n>> \in {z \in Nat \X Nat : z[1] < z[2]}
      BY <2>1
  <2> QED
      BY <1>1, <1>2, <2>2, Zenon DEF OpToRel
<1> QED
    BY <1>1, <1>2

(* Priority and then the item's id: a set of items has a foremost one. *)
LEMMA ForemostIsFirst ==
    ASSUME priority \in [Items -> Nat], NEW S \in SUBSET Items, S # {}
    PROVE  Foremost(S) \in S /\ \A j \in S \ {Foremost(S)} : GoesBefore(Foremost(S), j)
<1> DEFINE ranks == {priority[i] : i \in S}
<1>1. ranks \in SUBSET Nat /\ ranks # {} /\ \A i \in S : i \in Nat /\ priority[i] \in Nat
    BY DEF Items
<1>2. PICK m \in ranks : \A n \in ranks : m <= n
    BY <1>1, LeastNumber
<1>3. PICK T : T = {i \in S : priority[i] = m}
    OBVIOUS
<1>4. T \in SUBSET Nat /\ T # {} /\ T \subseteq S
    BY <1>1, <1>3
<1>5. PICK i \in T : \A j \in T : i <= j
    BY <1>4, LeastNumber
<1>6. ASSUME NEW j \in S \ {i} PROVE GoesBefore(i, j)
  <2>1. i \in S /\ priority[i] = m /\ m <= priority[j]
      BY <1>2, <1>3, <1>5
  <2>2. CASE priority[j] = m
    <3>1. i <= j /\ i # j
        BY <1>3, <1>5, <2>2
    <3> QED
        BY <1>1, <2>1, <2>2, <3>1 DEF GoesBefore
  <2>3. CASE priority[j] # m
      BY <1>1, <2>1, <2>3 DEF GoesBefore
  <2> QED
      BY <2>2, <2>3
<1>7. \E x \in S : \A j \in S \ {x} : GoesBefore(x, j)
    BY <1>4, <1>6
<1> QED
    BY <1>7 DEF Foremost

LEMMA ItemsAreFinite == IsFiniteSet(Items) /\ Cardinality(Items) = LastItem /\ LastItem \in Nat
BY OrderAssumption, FS_Interval DEF Items

(* An order of all items has each of them. *)
LEMMA LegalOrderIsOnto ==
    ASSUME NEW o \in LegalOrders, NEW x \in Items
    PROVE  \E i \in Items : o[i] = x
<1>1. o \in [Items -> Items] /\ \A i, j \in Items : o[i] = o[j] => i = j
    BY DEF LegalOrders
<1>2. o \in Injection(Items, Items)
    BY <1>1 DEF Injection, IsInjective
<1>3. o \in Surjection(Items, Items)
    BY <1>2, ItemsAreFinite, FS_Injection
<1> QED
    BY <1>3 DEF Surjection

LEMMA OrderInitEstablishes == OrderInit => OrderIInv
<1> SUFFICES ASSUME OrderInit PROVE OrderIInv
    OBVIOUS
<1>1. Len(ordered) = 0 /\ ordered \in Seq(Items) /\ remaining = Items /\ verdict = "ordering"
    BY DEF OrderInit
<1>2. OrderTyped
    BY <1>1, OrderAssumption DEF OrderInit, OrderTyped
<1>3. TakenOnce
    BY <1>1, ItemsAreFinite DEF TakenOnce
<1> QED
    BY <1>1, <1>2, <1>3 DEF OrderIInv, EachWasForemost, VerdictIsJust

LEMMA TakePreserves ==
    ASSUME OrderIInv, TakeNext
    PROVE  OrderIInv'
<1>1. OrderTyped /\ TakenOnce /\ EachWasForemost /\ NoStranger
    BY DEF OrderIInv, TakeNext, NoStranger
<1>2. Ready \in SUBSET Items /\ Ready # {} /\ Ready \subseteq remaining
    BY <1>1 DEF Ready, OrderTyped, TakeNext
<1>3. PICK y : y = Foremost(Ready)
    OBVIOUS
<1>4. /\ y \in Items /\ y \in remaining /\ needs[y] \cap remaining = {}
      /\ \A x \in Ready \ {y} : GoesBefore(y, x)
  <2>1. y \in Ready /\ \A x \in Ready \ {y} : GoesBefore(y, x)
      BY <1>1, <1>2, <1>3, ForemostIsFirst DEF OrderTyped
  <2> QED
      BY <1>2, <2>1 DEF Ready
<1>5. /\ ordered' = Append(ordered, y) /\ remaining' = remaining \ {y}
      /\ UNCHANGED <<priority, needs>>
      /\ verdict' = IF remaining' = {} THEN "ordered" ELSE "ordering"
    BY <1>3 DEF TakeNext
<1>6. PICK n \in Nat : n = Len(ordered)
    BY <1>1 DEF OrderTyped
<1>7. /\ ordered' \in Seq(Items) /\ Len(ordered') = n + 1
      /\ \A i \in 1 .. n : ordered'[i] = ordered[i]
      /\ ordered'[n + 1] = y
  <2>1. ordered \in Seq(Items)
      BY <1>1 DEF OrderTyped
  <2> QED
      BY <1>4, <1>5, <1>6, <2>1, Appended
<1>8. OrderTyped'
    BY <1>1, <1>5, <1>7 DEF OrderTyped
<1>9. /\ n + Cardinality(remaining) = LastItem
      /\ \A i \in 1 .. n : ordered[i] \notin remaining /\ needs[ordered[i]] \cap remaining = {}
      /\ \A x \in Items \ remaining : \E i \in 1 .. n : ordered[i] = x
      /\ \A i, j \in 1 .. n : ordered[i] = ordered[j] => i = j
      /\ \A i, j \in 1 .. n : ordered[i] \in needs[ordered[j]] => i < j
    BY <1>1, <1>6 DEF TakenOnce
<1>10. (n + 1) + Cardinality(remaining') = LastItem
  <2>1. IsFiniteSet(remaining)
      BY <1>1, ItemsAreFinite, FS_Subset DEF OrderTyped
  <2>2. Cardinality(remaining') = Cardinality(remaining) - 1 /\ Cardinality(remaining) \in Nat
      BY <1>4, <1>5, <2>1, FS_RemoveElement, FS_CardinalityType
  <2> QED
      BY <1>9, <2>2, ItemsAreFinite
<1>11. \A i \in 1 .. n + 1 : i \in 1 .. n \/ i = n + 1
    OBVIOUS
<1>12. y \notin needs[y]
    BY <1>1, <1>4 DEF OrderTyped, WorkSets
<1>13. TakenOnce'
  <2>1. \A i \in 1 .. n + 1 : ordered'[i] \notin remaining' /\ needs[ordered'[i]] \cap remaining' = {}
      BY <1>4, <1>5, <1>7, <1>9, <1>11
  <2>2. \A x \in Items \ remaining' : \E i \in 1 .. n + 1 : ordered'[i] = x
    <3> SUFFICES ASSUME NEW x \in Items \ remaining' PROVE \E i \in 1 .. n + 1 : ordered'[i] = x
        OBVIOUS
    <3>1. CASE x = y
        BY <1>7, <3>1
    <3>2. CASE x # y
      <4>1. PICK i \in 1 .. n : ordered[i] = x
          BY <1>5, <1>9, <3>2
      <4> QED
          BY <1>7, <4>1
    <3> QED
        BY <3>1, <3>2
  <2>3. \A i, j \in 1 .. n + 1 : ordered'[i] = ordered'[j] => i = j
    <3> SUFFICES ASSUME NEW i \in 1 .. n + 1, NEW j \in 1 .. n + 1, ordered'[i] = ordered'[j] PROVE i = j
        OBVIOUS
    <3>1. \A k \in 1 .. n : ordered'[k] # y
        BY <1>4, <1>7, <1>9
    <3> QED
        BY <1>7, <1>9, <1>11, <3>1
  <2>4. \A i, j \in 1 .. n + 1 : ordered'[i] \in needs[ordered'[j]] => i < j
    <3> SUFFICES ASSUME NEW i \in 1 .. n + 1, NEW j \in 1 .. n + 1, ordered'[i] \in needs[ordered'[j]]
                 PROVE  i < j
        OBVIOUS
    <3>1. CASE i \in 1 .. n /\ j \in 1 .. n
        BY <1>7, <1>9, <3>1
    <3>2. CASE i \in 1 .. n /\ j = n + 1
        BY <3>2
    <3>3. CASE i = n + 1 /\ j \in 1 .. n
      <4>1. y \in needs[ordered[j]] /\ y \in remaining
          BY <1>4, <1>7, <3>3
      <4> QED
          BY <1>9, <3>3, <4>1
    <3>4. CASE i = n + 1 /\ j = n + 1
        BY <1>7, <1>12, <3>4
    <3> QED
        BY <1>11, <3>1, <3>2, <3>3, <3>4
  <2> QED
      BY <1>5, <1>7, <1>10, <2>1, <2>2, <2>3, <2>4 DEF TakenOnce
<1>14. EachWasForemost'
  <2> SUFFICES ASSUME NEW k \in 1 .. n + 1, NEW x \in Items, CouldFollow(x, k)'
               PROVE  GoesBefore(ordered[k], x)'
      BY <1>7 DEF EachWasForemost
  <2>1. /\ \A i \in 1 .. k : ordered'[i] # x
        /\ \A d \in needs[x] : \E i \in 1 .. k - 1 : ordered'[i] = d
      BY <1>5 DEF CouldFollow
  <2>2. \A i \in 1 .. k - 1 : i \in 1 .. n
      OBVIOUS
  <2>3. CASE k \in 1 .. n
    <3>1. CouldFollow(x, k)
        BY <1>7, <2>1, <2>2, <2>3 DEF CouldFollow
    <3>2. GoesBefore(ordered[k], x)
        BY <1>1, <1>6, <2>3, <3>1 DEF EachWasForemost
    <3> QED
        BY <1>5, <1>7, <2>3, <3>2 DEF GoesBefore
  <2>4. CASE k = n + 1
    <3>1. x # y /\ x \in remaining
        BY <1>7, <1>9, <2>1, <2>4
    <3>2. needs[x] \cap remaining = {}
        BY <1>7, <1>9, <2>1, <2>2
    <3>3. GoesBefore(y, x)
        BY <1>4, <3>1, <3>2 DEF Ready
    <3> QED
        BY <1>5, <1>7, <2>4, <3>3 DEF GoesBefore
  <2> QED
      BY <1>11, <2>3, <2>4
<1>15. VerdictIsJust'
    BY <1>1, <1>5 DEF VerdictIsJust, NoStranger
<1> QED
    BY <1>8, <1>13, <1>14, <1>15 DEF OrderIInv

LEMMA OrderStepPreserves == OrderIInv /\ [OrderNext]_orderVars => OrderIInv'
<1> SUFFICES ASSUME OrderIInv, [OrderNext]_orderVars PROVE OrderIInv'
    OBVIOUS
<1>1. ASSUME UNCHANGED <<priority, needs, remaining, ordered>>,
             verdict' \in {"ordering", "ordered", "missing", "cycle"}, VerdictIsJust'
      PROVE  OrderIInv'
  <2>1. TakenOnce'
      BY <1>1 DEF OrderIInv, TakenOnce
  <2>2. EachWasForemost'
      BY <1>1 DEF OrderIInv, EachWasForemost, CouldFollow, GoesBefore
  <2> QED
      BY <1>1, <2>1, <2>2 DEF OrderIInv, OrderTyped
<1>2. CASE UNCHANGED orderVars
  <2>1. VerdictIsJust'
      BY <1>2 DEF OrderIInv, VerdictIsJust, NoStranger, Ready, orderVars
  <2> QED
      BY <1>1, <1>2, <2>1 DEF OrderIInv, OrderTyped, orderVars
<1>3. CASE RefuseStranger
  <2>1. VerdictIsJust'
      BY <1>3 DEF RefuseStranger, VerdictIsJust, NoStranger
  <2> QED
      BY <1>1, <1>3, <2>1 DEF RefuseStranger
<1>4. CASE RefuseCycle
  <2>1. VerdictIsJust'
      BY <1>4 DEF RefuseCycle, VerdictIsJust, NoStranger, Ready
  <2> QED
      BY <1>1, <1>4, <2>1 DEF RefuseCycle
<1> QED
    BY <1>2, <1>3, <1>4, TakePreserves DEF OrderNext

(* deterministic_dependency_order, for any set of work items: the order puts *)
(* dependencies first and is the least of all that do, by priority and then  *)
(* by id; a set is refused as cyclic only when no such order exists, and as  *)
(* incomplete only when an item names one that is not in it.                 *)
THEOREM TheOrderIsTheLeast == OrderSpec => []OrderIsLeast
<1>1. ASSUME OrderIInv PROVE OrderIsLeast
  <2>1. OrderTyped /\ TakenOnce /\ EachWasForemost /\ VerdictIsJust
      BY <1>1 DEF OrderIInv
  <2>2. ASSUME verdict = "ordered"
        PROVE  /\ ordered \in LegalOrders
               /\ \A o \in LegalOrders : o = ordered \/
                      \E k \in Items : GoesBefore(ordered[k], o[k]) /\ \A i \in 1 .. k - 1 : o[i] = ordered[i]
    <3>1. remaining = {} /\ NoStranger
        BY <2>1, <2>2 DEF VerdictIsJust
    <3>2. Len(ordered) = LastItem /\ ordered \in Seq(Items)
        BY <2>1, <3>1, FS_EmptySet, ItemsAreFinite DEF OrderTyped, TakenOnce
    <3>3. ordered \in [Items -> Items]
        BY <3>2 DEF Items
    <3>4. ordered \in LegalOrders
        BY <2>1, <3>2, <3>3 DEF LegalOrders, TakenOnce, Items
    <3>5. ASSUME NEW o \in LegalOrders, o # ordered
          PROVE  \E k \in Items : GoesBefore(ordered[k], o[k]) /\ \A i \in 1 .. k - 1 : o[i] = ordered[i]
      <4>1. /\ o \in [Items -> Items]
            /\ \A i, j \in Items : o[i] = o[j] => i = j
            /\ \A i, j \in Items : o[i] \in needs[o[j]] => i < j
          BY DEF LegalOrders
      <4>2. PICK D : D = {i \in Items : o[i] # ordered[i]}
          OBVIOUS
      <4>3. D \in SUBSET Nat /\ D # {} /\ D \subseteq Items
        <5>1. \E i \in Items : o[i] # ordered[i]
            BY <3>3, <3>5, <4>1
        <5>2. Items \subseteq Nat
            BY DEF Items
        <5> QED
            BY <4>2, <5>1, <5>2
      <4>4. PICK k \in D : \A m \in D : k <= m
          BY <4>3, LeastNumber
      <4>5. k \in Items /\ k \in 1 .. LastItem /\ o[k] # ordered[k] /\ o[k] \in Items
          BY <4>1, <4>2, <4>3 DEF Items
      <4>6. \A i \in 1 .. k - 1 : i \in Items /\ i < k /\ o[i] = ordered[i]
          BY <4>2, <4>4, <4>5, ItemsAreFinite DEF Items
      <4>7. \A i \in 1 .. k : ordered[i] # o[k]
        <5> SUFFICES ASSUME NEW i \in 1 .. k, ordered[i] = o[k] PROVE FALSE
            OBVIOUS
        <5>1. i # k /\ i \in 1 .. k - 1
            BY <4>5, ItemsAreFinite
        <5>2. o[i] = o[k] /\ i \in Items /\ i < k
            BY <4>6, <5>1
        <5> QED
            BY <4>1, <4>5, <5>1, <5>2
      <4>8. \A d \in needs[o[k]] : \E i \in 1 .. k - 1 : ordered[i] = d
        <5> SUFFICES ASSUME NEW d \in needs[o[k]] PROVE \E i \in 1 .. k - 1 : ordered[i] = d
            OBVIOUS
        <5>1. d \in Items
          <6>1. needs \in [Items -> SUBSET (Items \cup {Stranger})]
              BY <2>1 DEF OrderTyped, WorkSets
          <6>2. Stranger \notin needs[o[k]]
              BY <3>1, <4>5 DEF NoStranger
          <6> QED
              BY <4>5, <6>1, <6>2
        <5>2. PICK i \in Items : o[i] = d
            BY <5>1, LegalOrderIsOnto
        <5>3. i < k
            BY <4>1, <4>5, <5>2
        <5>4. i \in 1 .. k - 1
            BY <4>5, <5>3, ItemsAreFinite DEF Items
        <5> QED
            BY <4>6, <5>2, <5>4
      <4>9. GoesBefore(ordered[k], o[k])
          BY <2>1, <3>2, <4>5, <4>7, <4>8 DEF EachWasForemost, CouldFollow
      <4> QED
          BY <4>5, <4>6, <4>9
    <3> QED
        BY <3>4, <3>5
  <2>3. ASSUME verdict = "cycle" PROVE LegalOrders = {}
    <3> SUFFICES ASSUME NEW o \in LegalOrders PROVE FALSE
        OBVIOUS
    <3>1. remaining # {} /\ Ready = {} /\ NoStranger /\ remaining \subseteq Items
        BY <2>1, <2>3 DEF VerdictIsJust, OrderTyped
    <3>2. PICK R : R = {i \in Items : o[i] \in remaining}
        OBVIOUS
    <3>3. R \in SUBSET Nat /\ R # {}
      <4>1. PICK x \in remaining : x \in Items
          BY <3>1
      <4>2. PICK i \in Items : o[i] = x
          BY <4>1, LegalOrderIsOnto
      <4> QED
          BY <3>2, <4>2 DEF Items
    <3>4. PICK k \in R : \A m \in R : k <= m
        BY <3>3, LeastNumber
    <3>5. k \in Items /\ o[k] \in remaining
        BY <3>2
    <3>6. PICK d \in remaining : d \in needs[o[k]]
        BY <3>1, <3>5 DEF Ready
    <3>7. PICK i \in Items : o[i] = d
        BY <3>1, LegalOrderIsOnto
    <3>8. i < k /\ i \in R
        BY <3>2, <3>5, <3>6, <3>7 DEF LegalOrders
    <3> QED
        BY <3>3, <3>4, <3>8
  <2>4. ASSUME verdict = "missing" PROVE (UNION {needs[i] : i \in Items}) \ Items # {}
    <3>1. PICK i \in Items : Stranger \in needs[i]
        BY <2>1, <2>4 DEF VerdictIsJust, NoStranger
    <3>2. Stranger \notin Items
        BY ItemsAreFinite DEF Stranger, Items
    <3>3. Stranger \in UNION {needs[j] : j \in Items}
        BY <3>1
    <3> QED
        BY <3>2, <3>3
  <2> QED
      BY <2>2, <2>3, <2>4 DEF OrderIsLeast
<1> QED
    BY <1>1, OrderInitEstablishes, OrderStepPreserves, PTL DEF OrderSpec
=============================================================================
