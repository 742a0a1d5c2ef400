---------------------------- MODULE WorkerCalls ----------------------------
(***************************************************************************)
(* What one worker and its conductor promise each other: the calls of the  *)
(* protocol (sharedproto.proto), in the order in which a worker makes      *)
(* them, with every way they may fail.  The worker's main program and the  *)
(* handlers with their registry both implement it, so that neither side    *)
(* meets a call it is not written for.                                     *)
(***************************************************************************)

VARIABLES
    stage,              \* how far the worker has come
    delivered,          \* the conductor has stored its results
    told                \* the end that the conductor has recorded

vars == <<stage, delivered, told>>

Stages == {"booting", "shaken", "working", "uploaded", "ended", "dead"}
Ends == {"safelyEnded", "codexError"}

Init == stage = "booting" /\ delivered = FALSE /\ told = "nothing"

(* WorkerStartsHandshake and WorkerRequestsWorkFiles, each once.           *)
HandshakeSucceeds ==
    stage = "booting" /\ stage' = "shaken" /\ UNCHANGED <<delivered, told>>

WorkFilesArrive ==
    stage = "shaken" /\ stage' = "working" /\ UNCHANGED <<delivered, told>>

(* WorkerUploadsFiles.  The worker may die of an error that its call       *)
(* returns although the results are stored, and does not try again.        *)
ResultsStored ==
    /\ stage = "working" /\ told = "nothing"
    /\ delivered' = TRUE
    /\ stage' \in {"uploaded", "dead"}
    /\ UNCHANGED told

(* WorkerStartsShutdown after the upload, or WorkerSendsCodexError instead *)
(* of it.  The end is recorded before the call returns, if it returns.     *)
TellEnd(from, end) ==
    /\ stage = from /\ told = "nothing"
    /\ told' = end
    /\ stage' \in {from, "ended", "dead"}
    /\ UNCHANGED delivered

Answered ==
    /\ stage \in {"working", "uploaded"} /\ told # "nothing"
    /\ stage' = "ended"
    /\ UNCHANGED <<delivered, told>>

(* A call is rejected or breaks, or the program fails by itself.           *)
Dies ==
    /\ stage \notin {"ended", "dead"}
    /\ stage' = "dead"
    /\ UNCHANGED <<delivered, told>>

Next ==
    \/ HandshakeSucceeds \/ WorkFilesArrive \/ ResultsStored
    \/ TellEnd("uploaded", "safelyEnded") \/ TellEnd("working", "codexError")
    \/ Answered \/ Dies

Spec == Init /\ [][Next]_vars

=============================================================================
