--------------------------- MODULE MCAnyTLSSession ---------------------------
(* Instances of AnyTLSSession.                                              *)
EXTENDS AnyTLSSession, TLC

(* Announced versions: the first, the current one, and one whose low byte is 1. *)
MCVersion == {1, 2, 257}

(* States that differ only in channels nobody looks at any more behave      *)
(* alike: synackCh after waitStreamReady, readCh of a closed stream whose   *)
(* caller has stopped reading.                                              *)
Done(d) == pc[d] \in {"ready", "eof", "close", "forget", "fin", "closed"}
Unread(d) == d \in streamClosed /\ Done(d) /\ pc[d] # "ready"
Observable ==
    <<sessionVars, streams, versionVars, streamClosed, recvVars, callerVars,
      [d \in Stream |-> IF Done(d) THEN "none" ELSE synack[d]],
      [d \in Stream |-> IF Unread(d) THEN 0 ELSE buffered[d]]>>
===============================================================================
