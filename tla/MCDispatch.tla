----------------------------- MODULE MCDispatch -----------------------------
(* The instances of Dispatch, Push and Rollup that TLC checks: what the       *)
(* backend does besides answering.  Of events there is one for each of two    *)
(* messages and one whose handler raises.  The three share no table, so one   *)
(* behaviour looks at one of them, the others being idle; which one is chosen *)
(* at the start.                                                              *)
EXTENDS Dispatch, Push, Rollup, TLC

CONSTANTS p1, p2, p3, bill, ready

VARIABLE focus  \* the module this behaviour is about

MCContent == (p1 :> bill) @@ (p2 :> ready) @@ (p3 :> Poisoned)

backgroundVars == <<focus, vars, pushVars, rollupVars>>

BackgroundInit ==
    /\ focus \in {"dispatch", "push", "rollup"}
    /\ Init /\ PushInit /\ RollupInit

BackgroundNext ==
    /\ UNCHANGED focus
    /\ \/ focus = "dispatch" /\ Next /\ UNCHANGED <<pushVars, rollupVars>>
       \/ focus = "push" /\ PushNext /\ UNCHANGED <<vars, rollupVars>>
       \/ focus = "rollup" /\ RollupNext /\ UNCHANGED <<vars, pushVars>>

BackgroundSpec == BackgroundInit /\ [][BackgroundNext]_backgroundVars

\* The fairness of Dispatch, where it is looked at.
FairBackgroundSpec ==
    /\ BackgroundSpec
    /\ WF_vars(focus = "dispatch" /\ Dispatch)
    /\ \A a \in Senders : WF_vars(focus = "dispatch" /\ Serve(a))
=============================================================================
