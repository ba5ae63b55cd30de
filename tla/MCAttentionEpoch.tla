-------------------------- MODULE MCAttentionEpoch --------------------------
(* Small workloads for the epoch planner.  Priorities are those of          *)
(* PriorityClass, service guarantees those of a shortened MAINTENANCE.      *)
EXTENDS AttentionEpoch

CONSTANTS t1, t2, t3, t4, t5

LLM == "LLM_INFERENCE"
RAM == "MEMORY_RAM"
OnlyLLM == {LLM}
LLMandRAM == {LLM, RAM}
OnlyRAM == {RAM}

TwoTasks == {t1, t2}
ThreeTasks == {t1, t2, t3}
FourTasks == {t1, t2, t3, t4}
FiveTasks == {t1, t2, t3, t4, t5}
OneOfEach == [c \in Classes |-> 1]
TwoOfEach == [c \in Classes |-> 2]
ThreeOfEach == [c \in Classes |-> 3]
NeedOne == [t \in Tasks |-> [c \in Classes |-> 1]]
PromotedToP2 == [t \in Tasks |-> 2]
TwoCycles == [t \in Tasks |-> 2]
NoDeadline == [t \in Tasks |-> 0]
NoDeps == [t \in Tasks |-> {}]
Nothing == {}
AllCheckpointOnly == [t \in Tasks |-> "CHECKPOINT_ONLY"]

(* Three low tasks, an urgent one that needs two units, and an atomic one    *)
(* that depends on the first; the first and the urgent one share the memory. *)
ThreeLLMOneRAM == (LLM :> 3) @@ (RAM :> 1)
UrgentNeedsMore ==
    [t \in Tasks |-> (LLM :> IF t = t3 THEN 2 ELSE 1)
                     @@ (RAM :> IF t \in {t1, t3} THEN 1 ELSE 0)]
MixedPriority == (t1 :> 4) @@ (t2 :> 3) @@ (t3 :> 1) @@ (t4 :> 2) @@ (t5 :> 4)
MixedPolicy == (t1 :> "CHECKPOINT_ONLY") @@ (t2 :> "PREEMPTIBLE")
               @@ (t3 :> "CHECKPOINT_ONLY") @@ (t4 :> "ATOMIC")
               @@ (t5 :> "CHECKPOINT_ONLY")
AtomicDepends == [t \in Tasks |-> IF t = t4 THEN {t1} ELSE {}]

(* Two running tasks; an urgent one that needs two units and a less urgent   *)
(* one that needs one.                                                       *)
UrgentNeedsTwo == [t \in Tasks |-> [c \in Classes |-> IF t = t3 THEN 2 ELSE 1]]
ThreeTiers == (t1 :> 4) @@ (t2 :> 4) @@ (t3 :> 1) @@ (t4 :> 2)

(* A percept and background situations, as production submits them.         *)
PerceptAndSituations == (t1 :> 4) @@ (t2 :> 3) @@ (t3 :> 1)

(* A maintenance task among an endless supply of user-requested work.       *)
UserWorkKeepsComing == (t1 :> 4) @@ (t2 :> 2) @@ (t3 :> 2)
UserWork == {t2, t3}
MaintenanceNeedsTwo ==
    [t \in Tasks |-> [c \in Classes |-> IF t = t1 THEN 2 ELSE 1]]

(* Two equal maintenance tasks that may be interrupted at any time.         *)
SamePriority == [t \in Tasks |-> 4]
AllPreemptible == [t \in Tasks |-> "PREEMPTIBLE"]
=============================================================================
