------------------------------- MODULE MCServer -------------------------------
(***************************************************************************)
(* Lifecycle and Registration, checked in one run: they share nothing that  *)
(* matters to either, so each initial state chooses one of them and the     *)
(* other stands still.                                                      *)
(***************************************************************************)
EXTENDS Lifecycle, Registration

VARIABLE which

svars == <<which, lvars, rvars>>

(* The one that stands still has no need of all its initial states.         *)
IdleLifecycle == LInit /\ proto = "juicity"
IdleRegistration == RInit /\ up = TRUE

ServerInit ==
    \/ which = "lifecycle" /\ LInit /\ IdleRegistration
    \/ which = "registration" /\ IdleLifecycle /\ RInit

ServerNext ==
    \/ which = "lifecycle" /\ LNext /\ UNCHANGED <<which, rvars>>
    \/ which = "registration" /\ RNext /\ UNCHANGED <<which, lvars>>

ServerSpec ==
    /\ ServerInit /\ [][ServerNext]_svars
    /\ which = "lifecycle" => LFairness
    /\ which = "registration" => RFairness
==============================================================================
