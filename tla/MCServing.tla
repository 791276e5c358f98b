------------------------------ MODULE MCServing ------------------------------
(***************************************************************************)
(* Serving for TLC.  The instance leaves out the initial states that only   *)
(* repeat the relay of others: no relay looks at what precedes it, nor      *)
(* anything before it at the ends of the relay.                             *)
(***************************************************************************)
EXTENDS Serving

MCInit ==
    /\ SInit
    /\ request = "msg" => ends["target"] = "plain"
    /\ proto = "juicity" => request # "udp" /\ ends["target"] = "plain"

MCSpec == MCInit /\ [][SNext]_svars /\ SFairness
==============================================================================
