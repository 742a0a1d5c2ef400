------------------------------ MODULE WorkerRun ------------------------------
(***************************************************************************)
(* One worker: the entry point of its container (entrypoint.sh,            *)
(* get-secrets.go), then its main program (worker.go, worker-runtime.go,   *)
(* worker-files-github.go): from the Codex client through the agent's      *)
(* turns, the validation of what the agent left in /worker/work, and the   *)
(* publication on GitHub, to the upload and the last call to the           *)
(* conductor.                                                              *)
(*                                                                         *)
(* The agent is free: a turn leaves any combination of the files and the   *)
(* repository that the program looks at.  Every call may fail.             *)
(***************************************************************************)
EXTENDS Integers

CONSTANT wrkMaxValidationAttemps

ASSUME WorkerRunAssumption == wrkMaxValidationAttemps \in Nat \ {0}

VARIABLES
    pc,                 \* where the program is
    artifacts,          \* what the agent has left in /worker/work
    numAttempts,        \* validations so far, the current one included
    prRequested,        \* ShouldCreatePullRequest of the last validation
    github,             \* what exists on GitHub
    link,               \* agent-meta/GHLINK has been written
    uploaded,           \* the conductor has stored the results
    told,               \* how the worker has reported its end
    failed              \* history: some call has returned an error

vars == <<pc, artifacts, numAttempts, prRequested, github, link, uploaded, told, failed>>

(* marker: agent-meta/WAS_JOB_SUCCESSFUL, "other" when it does not parse.  *)
(* repo: the Git repositories under repo/, "none" also when there are      *)
(* several; "unready" fails validateSuccessfulWorkerGitRepo (main branch,  *)
(* no named branch, uncommitted changes, no delta from main).              *)
(* report: agent-meta/ending-report.md.  title: line 1 of meta-info.txt is *)
(* there and not blank.                                                    *)
Artifacts ==
    [marker : {"none", "true", "false", "other"},
     repo   : {"none", "unready", "ready"},
     report : {"none", "blank", "written"},
     title  : BOOLEAN]

Steps == {"openaiKey", "codexLogin", "githubToken", "githubLogin", "start",
          "handshake", "files", "prompt", "report", "validate", "correct",
          "transcript", "body", "publish", "createPR", "link", "upload", "shutdown",
          "error", "ended", "failed", "died"}

Over == pc \in {"ended", "failed", "died"}

-----------------------------------------------------------------------------

Init ==
    /\ pc = "openaiKey"
    /\ artifacts = [marker |-> "none", repo |-> "none", report |-> "none", title |-> FALSE]
    /\ numAttempts = 0
    /\ prRequested = FALSE
    /\ github = {}
    /\ link = FALSE /\ uploaded = FALSE
    /\ told = "nothing"
    /\ failed = FALSE

(* A call that changes nothing but the program counter: it succeeds, or    *)
(* its error takes the program elsewhere.                                  *)
Call(from, onSuccess, onError) ==
    /\ pc = from
    /\ \/ pc' = onSuccess /\ UNCHANGED failed
       \/ pc' = onError /\ failed' = TRUE

Untouched == UNCHANGED <<artifacts, numAttempts, prRequested, github, link, uploaded, told>>

(* Under set -e the first command that fails ends the container.           *)
FetchSecret(from, to) == Call(from, to, "died") /\ Untouched
FetchOpenAIKey == FetchSecret("openaiKey", "codexLogin")
FetchGitHubToken == FetchSecret("githubToken", "githubLogin")
LogInToCodex == Call("codexLogin", "githubToken", "died") /\ Untouched
LogInToGitHub == Call("githubLogin", "start", "died") /\ Untouched

(* codex.New and StartThread panic; the calls to the conductor before the  *)
(* agent's work end in log.Fatalf, and so does ensureDirsExist, a failure  *)
(* of which is the failure of RequestWorkFiles here: nothing is between    *)
(* the two, and the program ends in the same way.                          *)
StartCodex == Call("start", "handshake", "died") /\ Untouched
Handshake == Call("handshake", "files", "died") /\ Untouched
RequestWorkFiles == Call("files", "prompt", "died") /\ Untouched

(* One turn of the agent.  A turn that fails may have got anywhere.        *)
Turn(from, onSuccess) ==
    /\ Call(from, onSuccess, "error")
    /\ artifacts' \in Artifacts
    /\ UNCHANGED <<prRequested, github, link, uploaded, told>>

InitialPrompt == Turn("prompt", "report") /\ UNCHANGED numAttempts

EndingReportPrompt == Turn("report", "validate") /\ numAttempts' = 1

(* Wrong: the attempt is not counted.                                      *)
CorrectionPrompt_uncounted == Turn("correct", "validate") /\ UNCHANGED numAttempts

CorrectionPrompt == Turn("correct", "validate") /\ numAttempts' = numAttempts + 1

validateSuccessfulWorkerArtifacts ==
    artifacts.repo = "ready" /\ artifacts.report = "written"

(* Wrong: only the marker is looked at.                                    *)
ArtifactsValid_markerOnly == artifacts.marker \in {"true", "false"}

ArtifactsValid ==
    \/ artifacts.marker = "false"
    \/ artifacts.marker = "true" /\ validateSuccessfulWorkerArtifacts

(* Wrong: one attempt too many.                                            *)
Validate_offByOne ==
    /\ pc = "validate"
    /\ IF ArtifactsValid
       THEN pc' = "transcript" /\ prRequested' = (artifacts.marker = "true")
       ELSE /\ pc' = IF numAttempts > wrkMaxValidationAttemps THEN "error" ELSE "correct"
            /\ prRequested' = FALSE
    /\ UNCHANGED <<artifacts, numAttempts, github, link, uploaded, told, failed>>

Validate ==
    /\ pc = "validate"
    /\ IF ArtifactsValid
       THEN pc' = "transcript" /\ prRequested' = (artifacts.marker = "true")
       ELSE /\ pc' = IF numAttempts = wrkMaxValidationAttemps THEN "error" ELSE "correct"
            /\ prRequested' = FALSE
    /\ UNCHANGED <<artifacts, numAttempts, github, link, uploaded, told, failed>>

ReadTranscript == Call("transcript", "body", "error") /\ Untouched

(* The body needs a report, which may be blank, and a title.               *)
writeGitHubReportMarkdown ==
    /\ IF artifacts.report # "none" /\ artifacts.title
       THEN Call("body", "publish", "error")
       ELSE pc = "body" /\ pc' = "error" /\ UNCHANGED failed
    /\ Untouched

PushBranch ==
    /\ prRequested
    /\ Call("publish", "createPR", "error")
    /\ github' = IF failed' THEN github ELSE github \cup {"branch"}
    /\ UNCHANGED <<artifacts, numAttempts, prRequested, link, uploaded, told>>

(* gh may fail after it has created the pull request or issue, and its     *)
(* output may lack the URL.                                                *)
CreatePullRequest ==
    /\ Call("createPR", "link", "error")
    /\ \/ github' = github \cup {"pullRequest"}
       \/ failed' /\ UNCHANGED github
    /\ UNCHANGED <<artifacts, numAttempts, prRequested, link, uploaded, told>>

(* Wrong: the link of an issue is not kept.                                *)
CreateIssue_noLink ==
    /\ ~ prRequested /\ artifacts.repo # "none"
    /\ Call("publish", "upload", "error")
    /\ \/ github' = github \cup {"issue"}
       \/ failed' /\ UNCHANGED github
    /\ UNCHANGED <<artifacts, numAttempts, prRequested, link, uploaded, told>>

CreateIssue ==
    /\ ~ prRequested /\ artifacts.repo # "none"
    /\ Call("publish", "link", "error")
    /\ \/ github' = github \cup {"issue"}
       \/ failed' /\ UNCHANGED github
    /\ UNCHANGED <<artifacts, numAttempts, prRequested, link, uploaded, told>>

(* No repository can be chosen: there is none, there are several, or the   *)
(* directory cannot be read.  findOptionalWorkerGitRepo swallows the error *)
(* of each of the three alike, so one value of repo stands for them all.   *)
SkipPublication ==
    /\ pc = "publish" /\ ~ prRequested /\ artifacts.repo = "none"
    /\ pc' = "upload"
    /\ Untouched /\ UNCHANGED failed

writeGitHubLinkFile ==
    /\ Call("link", "upload", "error")
    /\ link' = ~ failed'
    /\ UNCHANGED <<artifacts, numAttempts, prRequested, github, uploaded, told>>

(* Wrong: a failed upload is reported like a failed turn.                  *)
uploadFiles_reported ==
    /\ Call("upload", "shutdown", "error")
    /\ uploaded' \in (IF failed' THEN BOOLEAN ELSE {TRUE})
    /\ UNCHANGED <<artifacts, numAttempts, prRequested, github, link, told>>

(* The results may be stored although the call returns an error.           *)
uploadFiles ==
    /\ Call("upload", "shutdown", "died")
    /\ uploaded' \in (IF failed' THEN BOOLEAN ELSE {TRUE})
    /\ UNCHANGED <<artifacts, numAttempts, prRequested, github, link, told>>

StartShutdown ==
    /\ Call("shutdown", "ended", "died")
    /\ told' \in (IF failed' THEN {told, "safelyEnded"} ELSE {"safelyEnded"})
    /\ UNCHANGED <<artifacts, numAttempts, prRequested, github, link, uploaded>>

(* reportCodexErrorAndExit.                                                *)
ReportError ==
    /\ pc = "error"
    /\ \/ pc' = "failed" /\ told' = "codexError" /\ UNCHANGED failed
       \/ pc' = "died" /\ told' \in {told, "codexError"} /\ failed' = TRUE
    /\ UNCHANGED <<artifacts, numAttempts, prRequested, github, link, uploaded>>

-----------------------------------------------------------------------------

Next ==
    \/ FetchOpenAIKey \/ LogInToCodex \/ FetchGitHubToken \/ LogInToGitHub
    \/ StartCodex \/ Handshake \/ RequestWorkFiles
    \/ InitialPrompt \/ EndingReportPrompt
    \/ Validate \/ CorrectionPrompt
    \/ ReadTranscript \/ writeGitHubReportMarkdown
    \/ PushBranch \/ CreatePullRequest \/ CreateIssue \/ SkipPublication
    \/ writeGitHubLinkFile \/ uploadFiles \/ StartShutdown
    \/ ReportError

Spec == Init /\ [][Next]_vars

(* The calls return; nothing bounds the time an agent's turn takes.        *)
FairSpec == Spec /\ WF_vars(Next)

-----------------------------------------------------------------------------

TypeOK ==
    /\ pc \in Steps
    /\ artifacts \in Artifacts
    /\ numAttempts \in 0 .. wrkMaxValidationAttemps
    /\ prRequested \in BOOLEAN
    /\ github \subseteq {"branch", "pullRequest", "issue"}
    /\ link \in BOOLEAN /\ uploaded \in BOOLEAN
    /\ told \in {"nothing", "codexError", "safelyEnded"}
    /\ failed \in BOOLEAN

(***************************************************************************)
(* What reaches GitHub fits what the agent left behind: a branch or pull   *)
(* request only for work the agent called successful and the validation    *)
(* accepted, with a report; a failure issue only for work it called        *)
(* unsuccessful; never both.                                               *)
(***************************************************************************)
PublicationFitsOutcome ==
    /\ {"branch", "pullRequest"} \cap github # {} =>
          artifacts.marker = "true" /\ validateSuccessfulWorkerArtifacts
    /\ "issue" \in github => artifacts.marker = "false"

(***************************************************************************)
(* A worker reports its safe end only when everything it owes is there:    *)
(* the results are with the conductor, with the link in them whenever      *)
(* something was published, and nothing is published only when there was   *)
(* no repository to publish to.                                            *)
(***************************************************************************)
SafeEndIsComplete ==
    told = "safelyEnded" =>
        /\ uploaded
        /\ github \cap {"pullRequest", "issue"} # {} <=> link
        /\ link \/ (artifacts.marker = "false" /\ artifacts.repo = "none")

(***************************************************************************)
(* The inductive invariant.  From the validation on the artifacts stay as  *)
(* they are, and what has been published so far shows in pc.               *)
(***************************************************************************)
AttemptsInv == pc = "correct" => numAttempts < wrkMaxValidationAttemps

FailureInv == failed => pc \in {"error", "failed", "died"}

AcceptedInv ==
    pc \in {"transcript", "body", "publish", "createPR", "link", "upload", "shutdown"} =>
        IF prRequested
        THEN artifacts.marker = "true" /\ validateSuccessfulWorkerArtifacts
        ELSE artifacts.marker = "false"

Published == github \cap {"pullRequest", "issue"} # {}

GitHubInv ==
    /\ pc \in {"prompt", "report", "validate", "correct", "transcript", "body", "publish"}
          \cup {"openaiKey", "codexLogin", "githubToken", "githubLogin", "start",
                "handshake", "files"} => github = {}
    /\ pc = "createPR" => prRequested
    /\ pc = "link" => Published

LinkInv ==
    /\ link => pc \in {"upload", "shutdown", "ended", "died"}
    /\ pc \in {"upload", "shutdown"} =>
          /\ Published <=> link
          /\ link \/ (artifacts.marker = "false" /\ artifacts.repo = "none")
    /\ pc = "shutdown" => uploaded
    /\ uploaded => pc \in {"shutdown", "ended", "died"}
    /\ told # "nothing" => Over

IInv ==
    /\ TypeOK /\ AttemptsInv /\ FailureInv /\ AcceptedInv
    /\ GitHubInv /\ LinkInv
    /\ PublicationFitsOutcome /\ SafeEndIsComplete

(***************************************************************************)
(* The program comes to an end, however often the artifacts are invalid;   *)
(* and unless a call fails, the conductor is told how it ended.            *)
(***************************************************************************)
WorkerEnds == <>[](Over /\ (failed \/ told # "nothing"))

-----------------------------------------------------------------------------

(* How far the program has come with its calls to the conductor.           *)
Stage ==
    IF pc \in {"openaiKey", "codexLogin", "githubToken", "githubLogin", "start", "handshake"}
    THEN "booting"
    ELSE IF pc = "files" THEN "shaken"
    ELSE IF pc = "shutdown" THEN "uploaded"
    ELSE IF pc \in {"ended", "failed"} THEN "ended"
    ELSE IF pc = "died" THEN "dead" ELSE "working"

Contract == INSTANCE WorkerCalls WITH stage <- Stage, delivered <- uploaded

(***************************************************************************)
(* Seen from the conductor the program keeps to the protocol: one          *)
(* handshake, one download, at most one upload, and one report of an end,  *)
(* a safe one only after the upload and an error only in its place, on     *)
(* every path through turns, validations, publication and failing calls.   *)
(***************************************************************************)
KeepsProtocol == Contract!Spec

(***************************************************************************)
(* worker-plan-1.md, 34: "`false` is a valid agent outcome, not an         *)
(* infrastructure error."  A worker whose agent wrote false, and none of   *)
(* whose calls failed, does not report an error to the conductor.          *)
(***************************************************************************)
FalseIsNotAnError ==
    told = "codexError" /\ ~ failed => artifacts.marker # "false"

=============================================================================
