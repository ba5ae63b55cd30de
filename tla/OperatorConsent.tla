-------------------------- MODULE OperatorConsent --------------------------
(***************************************************************************)
(* The operator's standing permissions (operator_state.py): outbound        *)
(* destinations (network_consent.py), the security enrolment                *)
(* (security_posture.py) and the folders of the file manager                *)
(* (gui_files.py).  Each kind has its own policy file, which several        *)
(* processes read, change and replace under an advisory lock.               *)
(*                                                                          *)
(* A process runs some version of the program, and the disclosure the       *)
(* operator is shown is that version's; the terms of a scope are therefore  *)
(* a version.  A folder's terms do not depend on it.                        *)
(***************************************************************************)
EXTENDS Naturals

CONSTANTS
    Processes,      \* the app's server and command lines
    Scopes,         \* what can be permitted
    PolicyFiles,    \* the files the permissions are kept in
    KeptIn,         \* [Scopes -> PolicyFiles]
    Folders,        \* the scopes that are folders
    LastVersion,    \* program versions are 1 .. LastVersion
    NoProcess

Versions == 1 .. LastVersion
NoTerms == 0

ASSUME ConsentAssumption ==
    /\ KeptIn \in [Scopes -> PolicyFiles] /\ Folders \subseteq Scopes
    /\ Scopes # {} /\ LastVersion \in Nat \ {0} /\ NoProcess \notin Processes

VARIABLES
    program,    \* version each process runs
    policy,     \* [Scopes -> accepted terms], as on disk
    holder,     \* [PolicyFiles -> process that holds the lock]
    edit,       \* [Processes -> the edit it is making]
    agreed      \* what the operator last said of each scope, in the order the edits took effect

consentVars == <<program, policy, holder, edit, agreed>>

Unread == [s \in Scopes |-> NoTerms]
NoEdit == [at |-> "none", scope |-> CHOOSE s \in Scopes : TRUE, terms |-> NoTerms, seen |-> Unread]

ConsentInit ==
    /\ program = [p \in Processes |-> 1]
    /\ policy = [s \in Scopes |-> NoTerms]
    /\ holder = [f \in PolicyFiles |-> NoProcess]
    /\ edit = [p \in Processes |-> NoEdit]
    /\ agreed = [s \in Scopes |-> NoTerms]
-----------------------------------------------------------------------------
TermsOf(s, version) == IF s \in Folders THEN 1 ELSE version

(* consent_proposal, enrollment_proposal, scope_proposal: the operator reads *)
(* the terms and accepts their digest.                                       *)
Review(p, s) ==
    /\ edit[p].at = "none"
    /\ edit' = [edit EXCEPT ![p] = [NoEdit EXCEPT !.at = "shown", !.scope = s,
                                                  !.terms = TermsOf(s, program[p])]]
    /\ UNCHANGED <<program, policy, holder, agreed>>

(* grant_consent, enroll_security, add_root: the digest must be that of the  *)
(* terms this process would propose now.                                     *)
Accept(p) ==
    /\ edit[p].at = "shown"
    /\ edit' = [edit EXCEPT ![p] =
                   IF edit[p].terms = TermsOf(edit[p].scope, program[p])
                   THEN [@ EXCEPT !.at = "locking"] ELSE NoEdit]
    /\ UNCHANGED <<program, policy, holder, agreed>>

(* revoke_consent, revoke_security, remove_root. *)
Revoke(p, s) ==
    /\ edit[p].at = "none"
    /\ edit' = [edit EXCEPT ![p] = [NoEdit EXCEPT !.at = "locking", !.scope = s]]
    /\ UNCHANGED <<program, policy, holder, agreed>>

FileFor(p) == KeptIn[edit[p].scope]

(* A mutant of LockPolicy: the policy is read before the lock is awaited. *)
LockAfterReading(p) ==
    \/ /\ edit[p].at = "locking"
       /\ edit' = [edit EXCEPT ![p].at = "waiting", ![p].seen = policy]
       /\ UNCHANGED <<program, policy, holder, agreed>>
    \/ /\ edit[p].at = "waiting"
       /\ holder[FileFor(p)] = NoProcess
       /\ holder' = [holder EXCEPT ![FileFor(p)] = p]
       /\ edit' = [edit EXCEPT ![p].at = "writing"]
       /\ UNCHANGED <<program, policy, agreed>>

(* policy_lock *)
LockPolicy(p) ==
    /\ edit[p].at = "locking"
    /\ holder[FileFor(p)] = NoProcess
    /\ holder' = [holder EXCEPT ![FileFor(p)] = p]
    /\ edit' = [edit EXCEPT ![p].at = "reading"]
    /\ UNCHANGED <<program, policy, agreed>>

(* load_consent, configured_roots: a folder that is there already is refused. *)
ReadPolicy(p) ==
    /\ edit[p].at = "reading"
    /\ edit' = [edit EXCEPT ![p].seen = policy,
                            ![p].at = IF edit[p].scope \in Folders /\ edit[p].terms # NoTerms
                                           /\ policy[edit[p].scope] # NoTerms
                                      THEN "unlocking" ELSE "writing"]
    /\ UNCHANGED <<program, policy, holder, agreed>>

(* write_private_policy: the whole file is replaced at once. *)
WritePolicy(p) ==
    LET e == edit[p] IN
    /\ e.at = "writing"
    /\ policy' = [s \in Scopes |-> IF KeptIn[s] # FileFor(p) THEN policy[s]
                                   ELSE IF s = e.scope THEN e.terms ELSE e.seen[s]]
    /\ agreed' = [agreed EXCEPT ![e.scope] = e.terms]
    /\ edit' = [edit EXCEPT ![p].at = "unlocking", ![p].seen = Unread]
    /\ UNCHANGED <<program, holder>>

UnlockPolicy(p) ==
    /\ edit[p].at = "unlocking"
    /\ holder' = [holder EXCEPT ![FileFor(p)] = NoProcess]
    /\ edit' = [edit EXCEPT ![p] = NoEdit]
    /\ UNCHANGED <<program, policy, agreed>>

(* A process is replaced by one of another version.  The lock of a dead      *)
(* process is released; a review that is still on the operator's screen may  *)
(* be accepted in the new one.                                               *)
Replaced(p, version) ==
    /\ program' = [program EXCEPT ![p] = version]
    /\ holder' = [f \in PolicyFiles |-> IF holder[f] = p THEN NoProcess ELSE holder[f]]
    /\ edit' = [edit EXCEPT ![p] = IF @.at = "shown" THEN @ ELSE NoEdit]
    /\ UNCHANGED <<policy, agreed>>

ConsentNext ==
    \E p \in Processes :
        \/ \E s \in Scopes : Review(p, s) \/ Revoke(p, s)
        \/ Accept(p) \/ LockPolicy(p) \/ ReadPolicy(p) \/ WritePolicy(p) \/ UnlockPolicy(p)
        \/ \E version \in Versions : Replaced(p, version)

ConsentSpec == ConsentInit /\ [][ConsentNext]_consentVars
-----------------------------------------------------------------------------
(* A mutant of Permits: any grant of the destination will do. *)
PermitsAnyGrant(p, s) == policy[s] # NoTerms

(* require_destination, require_security_capability, resolve. *)
Permits(p, s) == policy[s] # NoTerms /\ policy[s] = TermsOf(s, program[p])

(* No edit is undone by another: what the file permits is what the operator  *)
(* last said of each scope ("Serialize operator policy edits so granting one *)
(* scope cannot undo revocation"), whoever dies holding the lock.            *)
RevocationSticks == policy = agreed

(* A process acts on a permission only under the very terms the operator     *)
(* accepted, also after it was replaced by a version with other terms.       *)
PermitsWhatWasAccepted ==
    \A p \in Processes, s \in Scopes : Permits(p, s) => agreed[s] = TermsOf(s, program[p])
=============================================================================
