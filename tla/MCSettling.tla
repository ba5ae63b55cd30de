----------------------------- MODULE MCSettling -----------------------------
(* Queues that must be served to the end: the epochs of the attention        *)
(* scheduler, its single-focus mode, and the jobs of the local app.  Each is *)
(* checked on its own: a behaviour runs the one that part names and leaves   *)
(* the variables of the others as they are, and fairness is that of the      *)
(* component that runs.                                                      *)
EXTENDS MCAttentionEpoch, FocusMode, GuiJobs

(* Single focus.  1: work that keeps coming; 2: postponed work that asks for *)
(* much; 3: one urgent task; 4: background work that waits for 2.            *)
TheBase == <<2, 3, 1, 4>>
ThePromotedTo == <<2, 2, 1, 3>>
TheWaitLimit == <<2, 3, 1, 3>>
TheInterruption == <<"PREEMPTIBLE", "CHECKPOINT_ONLY", "PREEMPTIBLE", "ATOMIC">>
TheAfter == <<{}, {}, {}, {2}>>
TheAsks == <<1, 2, 2, 1>>

VARIABLE part
Parts == {"epochs", "focus", "jobs"}

SettlingInit ==
    /\ part \in Parts
    /\ Init /\ JobsInit
    /\ FocusInit /\ (part # "focus" => capacity = CHOOSE units \in Capacities : TRUE)

SettlingNext ==
    /\ UNCHANGED part
    /\ \/ part = "epochs" /\ ProductionNext /\ UNCHANGED <<focusVars, jobVars>>
       \/ part = "focus" /\ FocusNext /\ UNCHANGED <<vars, jobVars>>
       \/ part = "jobs" /\ JobsNext /\ UNCHANGED <<vars, focusVars>>

(* ProductionSpec, FocusFairness and JobsFairness, each of its own part. *)
SettlingFairness ==
    /\ WF_vars(part = "epochs" /\ SubmitAndPlan(<<>>, IdleHost))
    /\ \A t \in Tasks : WF_vars(part = "epochs" /\ FinishTask(t, IdleHost))
    /\ WF_focusVars(part = "focus" /\ ReconcileFocus)
    /\ WF_focusVars(part = "focus" /\ EndActive("COMPLETED"))
    /\ WF_jobVars(part = "jobs" /\ ServerStep)
    /\ \A j \in JobIds : /\ WF_jobVars(part = "jobs" /\ WorkerExits(j))
                         /\ SF_jobVars(part = "jobs" /\ Settle(j))

SettlingSpec ==
    SettlingInit /\ [][SettlingNext]_<<part, vars, focusVars, jobVars>> /\ SettlingFairness
=============================================================================
