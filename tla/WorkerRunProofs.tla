---------------------------- MODULE WorkerRunProofs ----------------------------
(***************************************************************************)
(* Whatever the agent leaves behind, whichever calls fail, and however     *)
(* many attempts it is given: what a worker publishes and reports fits.    *)
(*                                                                         *)
(* Each lemma keeps one conjunct of the inductive invariant, action by     *)
(* action.                                                                 *)
(***************************************************************************)
EXTENDS WorkerRun, TLAPS

(***************************************************************************)
(* The program starts with nothing published and nothing reported.         *)
(***************************************************************************)
LEMMA IInvInitially == Init => IInv
<1> SUFFICES ASSUME Init PROVE IInv
  OBVIOUS
<1> USE DEF Init
<1>1. artifacts \in Artifacts
  BY DEF Artifacts
<1>2. numAttempts \in 0 .. wrkMaxValidationAttemps
  BY WorkerRunAssumption
<1>3. TypeOK
  BY <1>1, <1>2 DEF TypeOK, Steps
<1>4. AttemptsInv /\ FailureInv /\ AcceptedInv
  BY DEF AttemptsInv, FailureInv, AcceptedInv
<1>5. GitHubInv /\ LinkInv
  BY DEF GitHubInv, LinkInv, Published
<1>6. PublicationFitsOutcome /\ SafeEndIsComplete
  BY DEF PublicationFitsOutcome, SafeEndIsComplete
<1> QED
  BY <1>3, <1>4, <1>5, <1>6 DEF IInv

(***************************************************************************)
(* Every action keeps the types.                                           *)
(***************************************************************************)
LEMMA TypeStep ==
    ASSUME TypeOK, AttemptsInv, [Next]_vars PROVE TypeOK'
<1> USE WorkerRunAssumption
    DEF TypeOK, Steps, AttemptsInv, Call
<1>1. ASSUME FetchOpenAIKey \/ FetchGitHubToken PROVE TypeOK'
  BY <1>1 DEF FetchOpenAIKey, FetchGitHubToken, FetchSecret, Untouched
<1>2. ASSUME LogInToCodex \/ LogInToGitHub PROVE TypeOK'
  BY <1>2 DEF LogInToCodex, LogInToGitHub, Untouched
<1>3. ASSUME StartCodex \/ Handshake \/ RequestWorkFiles PROVE TypeOK'
  BY <1>3 DEF StartCodex, Handshake, RequestWorkFiles, Untouched
<1>4. ASSUME InitialPrompt PROVE TypeOK'
  BY <1>4 DEF InitialPrompt, Turn
<1>5. ASSUME EndingReportPrompt PROVE TypeOK'
  <2>1. numAttempts' \in 0 .. wrkMaxValidationAttemps
    BY <1>5 DEF EndingReportPrompt, Turn
  <2> QED
    BY <1>5, <2>1 DEF EndingReportPrompt, Turn
<1>6. ASSUME CorrectionPrompt PROVE TypeOK'
  <2>1. numAttempts' \in 0 .. wrkMaxValidationAttemps
    BY <1>6 DEF CorrectionPrompt, Turn
  <2> QED
    BY <1>6, <2>1 DEF CorrectionPrompt, Turn
<1>7. ASSUME Validate PROVE TypeOK'
  BY <1>7 DEF Validate, ArtifactsValid
<1>8. ASSUME ReadTranscript \/ writeGitHubReportMarkdown PROVE TypeOK'
  BY <1>8 DEF ReadTranscript, writeGitHubReportMarkdown, Untouched
<1>9. ASSUME PushBranch PROVE TypeOK'
  BY <1>9 DEF PushBranch
<1>10. ASSUME CreatePullRequest PROVE TypeOK'
  BY <1>10 DEF CreatePullRequest
<1>11. ASSUME CreateIssue PROVE TypeOK'
  BY <1>11 DEF CreateIssue
<1>12. ASSUME SkipPublication PROVE TypeOK'
  BY <1>12 DEF SkipPublication, Untouched
<1>13. ASSUME writeGitHubLinkFile PROVE TypeOK'
  BY <1>13 DEF writeGitHubLinkFile
<1>14. ASSUME uploadFiles PROVE TypeOK'
  BY <1>14 DEF uploadFiles
<1>15. ASSUME StartShutdown PROVE TypeOK'
  BY <1>15 DEF StartShutdown
<1>16. ASSUME ReportError PROVE TypeOK'
  BY <1>16 DEF ReportError
<1>17. ASSUME UNCHANGED vars PROVE TypeOK'
  BY <1>17 DEF vars
<1> QED
  BY <1>1, <1>2, <1>3, <1>4, <1>5, <1>6, <1>7, <1>8, <1>9,
     <1>10, <1>11, <1>12, <1>13, <1>14, <1>15, <1>16, <1>17 DEF Next

(***************************************************************************)
(* The program corrects only while attempts are left.                      *)
(***************************************************************************)
LEMMA AttemptsStep ==
    ASSUME TypeOK, AttemptsInv, [Next]_vars PROVE AttemptsInv'
<1> USE WorkerRunAssumption
    DEF TypeOK, AttemptsInv, Call
<1>1. ASSUME FetchOpenAIKey \/ FetchGitHubToken PROVE AttemptsInv'
  BY <1>1 DEF FetchOpenAIKey, FetchGitHubToken, FetchSecret, Untouched
<1>2. ASSUME LogInToCodex \/ LogInToGitHub PROVE AttemptsInv'
  BY <1>2 DEF LogInToCodex, LogInToGitHub, Untouched
<1>3. ASSUME StartCodex \/ Handshake \/ RequestWorkFiles PROVE AttemptsInv'
  BY <1>3 DEF StartCodex, Handshake, RequestWorkFiles, Untouched
<1>4. ASSUME InitialPrompt PROVE AttemptsInv'
  BY <1>4 DEF InitialPrompt, Turn
<1>5. ASSUME EndingReportPrompt PROVE AttemptsInv'
  BY <1>5 DEF EndingReportPrompt, Turn
<1>6. ASSUME CorrectionPrompt PROVE AttemptsInv'
  BY <1>6 DEF CorrectionPrompt, Turn
<1>7. ASSUME Validate PROVE AttemptsInv'
  BY <1>7 DEF Validate, ArtifactsValid
<1>8. ASSUME ReadTranscript \/ writeGitHubReportMarkdown PROVE AttemptsInv'
  BY <1>8 DEF ReadTranscript, writeGitHubReportMarkdown, Untouched
<1>9. ASSUME PushBranch PROVE AttemptsInv'
  BY <1>9 DEF PushBranch
<1>10. ASSUME CreatePullRequest PROVE AttemptsInv'
  BY <1>10 DEF CreatePullRequest
<1>11. ASSUME CreateIssue PROVE AttemptsInv'
  BY <1>11 DEF CreateIssue
<1>12. ASSUME SkipPublication PROVE AttemptsInv'
  BY <1>12 DEF SkipPublication, Untouched
<1>13. ASSUME writeGitHubLinkFile PROVE AttemptsInv'
  BY <1>13 DEF writeGitHubLinkFile
<1>14. ASSUME uploadFiles PROVE AttemptsInv'
  BY <1>14 DEF uploadFiles
<1>15. ASSUME StartShutdown PROVE AttemptsInv'
  BY <1>15 DEF StartShutdown
<1>16. ASSUME ReportError PROVE AttemptsInv'
  BY <1>16 DEF ReportError
<1>17. ASSUME UNCHANGED vars PROVE AttemptsInv'
  BY <1>17 DEF vars
<1> QED
  BY <1>1, <1>2, <1>3, <1>4, <1>5, <1>6, <1>7, <1>8, <1>9,
     <1>10, <1>11, <1>12, <1>13, <1>14, <1>15, <1>16, <1>17 DEF Next

(***************************************************************************)
(* A call that fails leads straight to the end.                            *)
(***************************************************************************)
LEMMA FailureStep ==
    ASSUME TypeOK, FailureInv, [Next]_vars PROVE FailureInv'
<1> USE DEF TypeOK, FailureInv, Call
<1>1. ASSUME FetchOpenAIKey \/ FetchGitHubToken PROVE FailureInv'
  BY <1>1 DEF FetchOpenAIKey, FetchGitHubToken, FetchSecret, Untouched
<1>2. ASSUME LogInToCodex \/ LogInToGitHub PROVE FailureInv'
  BY <1>2 DEF LogInToCodex, LogInToGitHub, Untouched
<1>3. ASSUME StartCodex \/ Handshake \/ RequestWorkFiles PROVE FailureInv'
  BY <1>3 DEF StartCodex, Handshake, RequestWorkFiles, Untouched
<1>4. ASSUME InitialPrompt PROVE FailureInv'
  BY <1>4 DEF InitialPrompt, Turn
<1>5. ASSUME EndingReportPrompt PROVE FailureInv'
  BY <1>5 DEF EndingReportPrompt, Turn
<1>6. ASSUME CorrectionPrompt PROVE FailureInv'
  BY <1>6 DEF CorrectionPrompt, Turn
<1>7. ASSUME Validate PROVE FailureInv'
  BY <1>7 DEF Validate, ArtifactsValid
<1>8. ASSUME ReadTranscript \/ writeGitHubReportMarkdown PROVE FailureInv'
  BY <1>8 DEF ReadTranscript, writeGitHubReportMarkdown, Untouched
<1>9. ASSUME PushBranch PROVE FailureInv'
  BY <1>9 DEF PushBranch
<1>10. ASSUME CreatePullRequest PROVE FailureInv'
  BY <1>10 DEF CreatePullRequest
<1>11. ASSUME CreateIssue PROVE FailureInv'
  BY <1>11 DEF CreateIssue
<1>12. ASSUME SkipPublication PROVE FailureInv'
  BY <1>12 DEF SkipPublication, Untouched
<1>13. ASSUME writeGitHubLinkFile PROVE FailureInv'
  BY <1>13 DEF writeGitHubLinkFile
<1>14. ASSUME uploadFiles PROVE FailureInv'
  BY <1>14 DEF uploadFiles
<1>15. ASSUME StartShutdown PROVE FailureInv'
  BY <1>15 DEF StartShutdown
<1>16. ASSUME ReportError PROVE FailureInv'
  BY <1>16 DEF ReportError
<1>17. ASSUME UNCHANGED vars PROVE FailureInv'
  BY <1>17 DEF vars
<1> QED
  BY <1>1, <1>2, <1>3, <1>4, <1>5, <1>6, <1>7, <1>8, <1>9,
     <1>10, <1>11, <1>12, <1>13, <1>14, <1>15, <1>16, <1>17 DEF Next

(***************************************************************************)
(* Nothing touches the artifacts after the validation.                     *)
(***************************************************************************)
LEMMA AcceptedStep ==
    ASSUME TypeOK, AcceptedInv, [Next]_vars PROVE AcceptedInv'
<1> USE DEF AcceptedInv, validateSuccessfulWorkerArtifacts, Call
<1>1. ASSUME FetchOpenAIKey \/ FetchGitHubToken PROVE AcceptedInv'
  BY <1>1 DEF FetchOpenAIKey, FetchGitHubToken, FetchSecret, Untouched
<1>2. ASSUME LogInToCodex \/ LogInToGitHub PROVE AcceptedInv'
  BY <1>2 DEF LogInToCodex, LogInToGitHub, Untouched
<1>3. ASSUME StartCodex \/ Handshake \/ RequestWorkFiles PROVE AcceptedInv'
  BY <1>3 DEF StartCodex, Handshake, RequestWorkFiles, Untouched
<1>4. ASSUME InitialPrompt PROVE AcceptedInv'
  BY <1>4 DEF InitialPrompt, Turn
<1>5. ASSUME EndingReportPrompt PROVE AcceptedInv'
  BY <1>5 DEF EndingReportPrompt, Turn
<1>6. ASSUME CorrectionPrompt PROVE AcceptedInv'
  BY <1>6 DEF CorrectionPrompt, Turn
<1>7. ASSUME Validate PROVE AcceptedInv'
  BY <1>7 DEF Validate, ArtifactsValid
<1>8. ASSUME ReadTranscript \/ writeGitHubReportMarkdown PROVE AcceptedInv'
  BY <1>8 DEF ReadTranscript, writeGitHubReportMarkdown, Untouched
<1>9. ASSUME PushBranch PROVE AcceptedInv'
  BY <1>9 DEF PushBranch
<1>10. ASSUME CreatePullRequest PROVE AcceptedInv'
  BY <1>10 DEF CreatePullRequest
<1>11. ASSUME CreateIssue PROVE AcceptedInv'
  BY <1>11 DEF CreateIssue
<1>12. ASSUME SkipPublication PROVE AcceptedInv'
  BY <1>12 DEF SkipPublication, Untouched
<1>13. ASSUME writeGitHubLinkFile PROVE AcceptedInv'
  BY <1>13 DEF writeGitHubLinkFile
<1>14. ASSUME uploadFiles PROVE AcceptedInv'
  BY <1>14 DEF uploadFiles
<1>15. ASSUME StartShutdown PROVE AcceptedInv'
  BY <1>15 DEF StartShutdown
<1>16. ASSUME ReportError PROVE AcceptedInv'
  BY <1>16 DEF ReportError
<1>17. ASSUME UNCHANGED vars PROVE AcceptedInv'
  BY <1>17 DEF vars
<1> QED
  BY <1>1, <1>2, <1>3, <1>4, <1>5, <1>6, <1>7, <1>8, <1>9,
     <1>10, <1>11, <1>12, <1>13, <1>14, <1>15, <1>16, <1>17 DEF Next

(***************************************************************************)
(* Nothing is published before the publication's steps.                    *)
(***************************************************************************)
LEMMA GitHubStep ==
    ASSUME TypeOK, FailureInv, GitHubInv, [Next]_vars PROVE GitHubInv'
<1> USE DEF TypeOK, FailureInv, GitHubInv, Published, Call
<1>1. ASSUME FetchOpenAIKey \/ FetchGitHubToken PROVE GitHubInv'
  BY <1>1 DEF FetchOpenAIKey, FetchGitHubToken, FetchSecret, Untouched
<1>2. ASSUME LogInToCodex \/ LogInToGitHub PROVE GitHubInv'
  BY <1>2 DEF LogInToCodex, LogInToGitHub, Untouched
<1>3. ASSUME StartCodex \/ Handshake \/ RequestWorkFiles PROVE GitHubInv'
  BY <1>3 DEF StartCodex, Handshake, RequestWorkFiles, Untouched
<1>4. ASSUME InitialPrompt PROVE GitHubInv'
  BY <1>4 DEF InitialPrompt, Turn
<1>5. ASSUME EndingReportPrompt PROVE GitHubInv'
  BY <1>5 DEF EndingReportPrompt, Turn
<1>6. ASSUME CorrectionPrompt PROVE GitHubInv'
  BY <1>6 DEF CorrectionPrompt, Turn
<1>7. ASSUME Validate PROVE GitHubInv'
  BY <1>7 DEF Validate, ArtifactsValid
<1>8. ASSUME ReadTranscript \/ writeGitHubReportMarkdown PROVE GitHubInv'
  BY <1>8 DEF ReadTranscript, writeGitHubReportMarkdown, Untouched
<1>9. ASSUME PushBranch PROVE GitHubInv'
  BY <1>9 DEF PushBranch
<1>10. ASSUME CreatePullRequest PROVE GitHubInv'
  BY <1>10 DEF CreatePullRequest
<1>11. ASSUME CreateIssue PROVE GitHubInv'
  BY <1>11 DEF CreateIssue
<1>12. ASSUME SkipPublication PROVE GitHubInv'
  BY <1>12 DEF SkipPublication, Untouched
<1>13. ASSUME writeGitHubLinkFile PROVE GitHubInv'
  BY <1>13 DEF writeGitHubLinkFile
<1>14. ASSUME uploadFiles PROVE GitHubInv'
  BY <1>14 DEF uploadFiles
<1>15. ASSUME StartShutdown PROVE GitHubInv'
  BY <1>15 DEF StartShutdown
<1>16. ASSUME ReportError PROVE GitHubInv'
  BY <1>16 DEF ReportError
<1>17. ASSUME UNCHANGED vars PROVE GitHubInv'
  BY <1>17 DEF vars
<1> QED
  BY <1>1, <1>2, <1>3, <1>4, <1>5, <1>6, <1>7, <1>8, <1>9,
     <1>10, <1>11, <1>12, <1>13, <1>14, <1>15, <1>16, <1>17 DEF Next

(***************************************************************************)
(* The link is written exactly when something was published.               *)
(***************************************************************************)
LEMMA LinkStep ==
    ASSUME TypeOK, FailureInv, AcceptedInv, GitHubInv, LinkInv, [Next]_vars PROVE LinkInv'
<1> USE DEF TypeOK, FailureInv, AcceptedInv, GitHubInv, LinkInv, Published, Over, Call
<1>1. ASSUME FetchOpenAIKey \/ FetchGitHubToken PROVE LinkInv'
  BY <1>1 DEF FetchOpenAIKey, FetchGitHubToken, FetchSecret, Untouched
<1>2. ASSUME LogInToCodex \/ LogInToGitHub PROVE LinkInv'
  BY <1>2 DEF LogInToCodex, LogInToGitHub, Untouched
<1>3. ASSUME StartCodex \/ Handshake \/ RequestWorkFiles PROVE LinkInv'
  BY <1>3 DEF StartCodex, Handshake, RequestWorkFiles, Untouched
<1>4. ASSUME InitialPrompt PROVE LinkInv'
  BY <1>4 DEF InitialPrompt, Turn
<1>5. ASSUME EndingReportPrompt PROVE LinkInv'
  BY <1>5 DEF EndingReportPrompt, Turn
<1>6. ASSUME CorrectionPrompt PROVE LinkInv'
  BY <1>6 DEF CorrectionPrompt, Turn
<1>7. ASSUME Validate PROVE LinkInv'
  BY <1>7 DEF Validate, ArtifactsValid
<1>8. ASSUME ReadTranscript \/ writeGitHubReportMarkdown PROVE LinkInv'
  BY <1>8 DEF ReadTranscript, writeGitHubReportMarkdown, Untouched
<1>9. ASSUME PushBranch PROVE LinkInv'
  BY <1>9 DEF PushBranch
<1>10. ASSUME CreatePullRequest PROVE LinkInv'
  BY <1>10 DEF CreatePullRequest
<1>11. ASSUME CreateIssue PROVE LinkInv'
  BY <1>11 DEF CreateIssue
<1>12. ASSUME SkipPublication PROVE LinkInv'
  BY <1>12 DEF SkipPublication, Untouched
<1>13. ASSUME writeGitHubLinkFile PROVE LinkInv'
  <2>1. CASE ~ failed'
    BY <1>13, <2>1 DEF writeGitHubLinkFile
  <2>2. CASE failed'
    BY <1>13, <2>2 DEF writeGitHubLinkFile
  <2> QED
    BY <2>1, <2>2
<1>14. ASSUME uploadFiles PROVE LinkInv'
  <2>1. CASE ~ failed'
    BY <1>14, <2>1 DEF uploadFiles
  <2>2. CASE failed'
    BY <1>14, <2>2 DEF uploadFiles
  <2> QED
    BY <2>1, <2>2
<1>15. ASSUME StartShutdown PROVE LinkInv'
  BY <1>15 DEF StartShutdown
<1>16. ASSUME ReportError PROVE LinkInv'
  BY <1>16 DEF ReportError
<1>17. ASSUME UNCHANGED vars PROVE LinkInv'
  BY <1>17 DEF vars
<1> QED
  BY <1>1, <1>2, <1>3, <1>4, <1>5, <1>6, <1>7, <1>8, <1>9,
     <1>10, <1>11, <1>12, <1>13, <1>14, <1>15, <1>16, <1>17 DEF Next

(***************************************************************************)
(* What is published fits the artifacts the validation accepted.           *)
(***************************************************************************)
LEMMA PublicationStep ==
    ASSUME TypeOK, AcceptedInv, GitHubInv, PublicationFitsOutcome,
           [Next]_vars
    PROVE  PublicationFitsOutcome'
<1> USE DEF AcceptedInv, GitHubInv, PublicationFitsOutcome, validateSuccessfulWorkerArtifacts, Call
<1>1. ASSUME FetchOpenAIKey \/ FetchGitHubToken PROVE PublicationFitsOutcome'
  BY <1>1 DEF FetchOpenAIKey, FetchGitHubToken, FetchSecret, Untouched
<1>2. ASSUME LogInToCodex \/ LogInToGitHub PROVE PublicationFitsOutcome'
  BY <1>2 DEF LogInToCodex, LogInToGitHub, Untouched
<1>3. ASSUME StartCodex \/ Handshake \/ RequestWorkFiles PROVE PublicationFitsOutcome'
  BY <1>3 DEF StartCodex, Handshake, RequestWorkFiles, Untouched
<1>4. ASSUME InitialPrompt PROVE PublicationFitsOutcome'
  BY <1>4 DEF InitialPrompt, Turn
<1>5. ASSUME EndingReportPrompt PROVE PublicationFitsOutcome'
  BY <1>5 DEF EndingReportPrompt, Turn
<1>6. ASSUME CorrectionPrompt PROVE PublicationFitsOutcome'
  BY <1>6 DEF CorrectionPrompt, Turn
<1>7. ASSUME Validate PROVE PublicationFitsOutcome'
  BY <1>7 DEF Validate, ArtifactsValid
<1>8. ASSUME ReadTranscript \/ writeGitHubReportMarkdown PROVE PublicationFitsOutcome'
  BY <1>8 DEF ReadTranscript, writeGitHubReportMarkdown, Untouched
<1>9. ASSUME PushBranch PROVE PublicationFitsOutcome'
  BY <1>9 DEF PushBranch
<1>10. ASSUME CreatePullRequest PROVE PublicationFitsOutcome'
  BY <1>10 DEF CreatePullRequest
<1>11. ASSUME CreateIssue PROVE PublicationFitsOutcome'
  BY <1>11 DEF CreateIssue
<1>12. ASSUME SkipPublication PROVE PublicationFitsOutcome'
  BY <1>12 DEF SkipPublication, Untouched
<1>13. ASSUME writeGitHubLinkFile PROVE PublicationFitsOutcome'
  BY <1>13 DEF writeGitHubLinkFile
<1>14. ASSUME uploadFiles PROVE PublicationFitsOutcome'
  BY <1>14 DEF uploadFiles
<1>15. ASSUME StartShutdown PROVE PublicationFitsOutcome'
  BY <1>15 DEF StartShutdown
<1>16. ASSUME ReportError PROVE PublicationFitsOutcome'
  BY <1>16 DEF ReportError
<1>17. ASSUME UNCHANGED vars PROVE PublicationFitsOutcome'
  BY <1>17 DEF vars
<1> QED
  BY <1>1, <1>2, <1>3, <1>4, <1>5, <1>6, <1>7, <1>8, <1>9,
     <1>10, <1>11, <1>12, <1>13, <1>14, <1>15, <1>16, <1>17 DEF Next

(***************************************************************************)
(* A safe end is reported from the last step only.                         *)
(***************************************************************************)
LEMMA SafeEndStep ==
    ASSUME TypeOK, FailureInv, GitHubInv, LinkInv, SafeEndIsComplete,
           [Next]_vars
    PROVE  SafeEndIsComplete'
<1> USE DEF TypeOK, LinkInv, SafeEndIsComplete, Published, Over, Call
<1>1. ASSUME FetchOpenAIKey \/ FetchGitHubToken PROVE SafeEndIsComplete'
  BY <1>1 DEF FetchOpenAIKey, FetchGitHubToken, FetchSecret, Untouched
<1>2. ASSUME LogInToCodex \/ LogInToGitHub PROVE SafeEndIsComplete'
  BY <1>2 DEF LogInToCodex, LogInToGitHub, Untouched
<1>3. ASSUME StartCodex \/ Handshake \/ RequestWorkFiles PROVE SafeEndIsComplete'
  BY <1>3 DEF StartCodex, Handshake, RequestWorkFiles, Untouched
<1>4. ASSUME InitialPrompt PROVE SafeEndIsComplete'
  BY <1>4 DEF InitialPrompt, Turn
<1>5. ASSUME EndingReportPrompt PROVE SafeEndIsComplete'
  BY <1>5 DEF EndingReportPrompt, Turn
<1>6. ASSUME CorrectionPrompt PROVE SafeEndIsComplete'
  BY <1>6 DEF CorrectionPrompt, Turn
<1>7. ASSUME Validate PROVE SafeEndIsComplete'
  BY <1>7 DEF Validate, ArtifactsValid
<1>8. ASSUME ReadTranscript \/ writeGitHubReportMarkdown PROVE SafeEndIsComplete'
  BY <1>8 DEF ReadTranscript, writeGitHubReportMarkdown, Untouched
<1>9. ASSUME PushBranch PROVE SafeEndIsComplete'
  BY <1>9 DEF PushBranch
<1>10. ASSUME CreatePullRequest PROVE SafeEndIsComplete'
  BY <1>10 DEF CreatePullRequest
<1>11. ASSUME CreateIssue PROVE SafeEndIsComplete'
  BY <1>11 DEF CreateIssue
<1>12. ASSUME SkipPublication PROVE SafeEndIsComplete'
  BY <1>12 DEF SkipPublication, Untouched
<1>13. ASSUME writeGitHubLinkFile PROVE SafeEndIsComplete'
  BY <1>13 DEF writeGitHubLinkFile
<1>14. ASSUME uploadFiles PROVE SafeEndIsComplete'
  BY <1>14 DEF uploadFiles
<1>15. ASSUME StartShutdown PROVE SafeEndIsComplete'
  BY <1>15 DEF StartShutdown
<1>16. ASSUME ReportError PROVE SafeEndIsComplete'
  BY <1>16 DEF ReportError
<1>17. ASSUME UNCHANGED vars PROVE SafeEndIsComplete'
  BY <1>17 DEF vars
<1> QED
  BY <1>1, <1>2, <1>3, <1>4, <1>5, <1>6, <1>7, <1>8, <1>9,
     <1>10, <1>11, <1>12, <1>13, <1>14, <1>15, <1>16, <1>17 DEF Next

(***************************************************************************)
(* Every step keeps the invariant.                                         *)
(***************************************************************************)
LEMMA IInvStep == IInv /\ [Next]_vars => IInv'
  BY TypeStep, AttemptsStep, FailureStep, AcceptedStep, GitHubStep, LinkStep,
     PublicationStep, SafeEndStep DEF IInv

(***************************************************************************)
(* WorkerRun keeps its invariant in every behaviour.                       *)
(***************************************************************************)
THEOREM Invariance == Spec => []IInv
  BY IInvInitially, IInvStep, PTL DEF Spec

(***************************************************************************)
(* The number of validations never exceeds wrkMaxValidationAttemps, and    *)
(* the other variables keep their types.                                   *)
(***************************************************************************)
THEOREM TypeCorrect == Spec => []TypeOK
<1>1. IInv => TypeOK
  BY DEF IInv
<1> QED
  BY <1>1, Invariance, PTL

(***************************************************************************)
(* main, 274-292: a pull request is only for validated success, an issue   *)
(* only for work the agent called unsuccessful.                            *)
(***************************************************************************)
THEOREM PublicationFits == Spec => []PublicationFitsOutcome
<1>1. IInv => PublicationFitsOutcome
  BY DEF IInv
<1> QED
  BY <1>1, Invariance, PTL

(***************************************************************************)
(* main, 294-319: a safe end is reported only with the results delivered   *)
(* and the link of what was published among them.                          *)
(***************************************************************************)
THEOREM SafeEnd == Spec => []SafeEndIsComplete
<1>1. IInv => SafeEndIsComplete
  BY DEF IInv
<1> QED
  BY <1>1, Invariance, PTL

(***************************************************************************)
(* Each step of the program is one step of the protocol or none.  That     *)
(* nothing is told before the last step (LinkInv) is what makes the upload *)
(* and the report single.                                                  *)
(***************************************************************************)
LEMMA StepKeepsProtocol ==
    ASSUME IInv, [Next]_vars PROVE [Contract!Next]_(Contract!vars)
<1> DEFINE Step == [Contract!Next]_(Contract!vars)
<1>1. pc \notin {"ended", "failed", "died"} => told = "nothing"
  BY DEF IInv, LinkInv, Over
<1> USE DEF Contract!Next, Contract!vars, Contract!Dies, Stage, Call
<1>2. ASSUME FetchOpenAIKey \/ FetchGitHubToken \/ LogInToCodex \/ LogInToGitHub \/ StartCodex
      PROVE  Step
  BY <1>2 DEF FetchOpenAIKey, FetchGitHubToken, FetchSecret, LogInToCodex, LogInToGitHub,
     StartCodex, Untouched
<1>3. ASSUME Handshake PROVE Step
  BY <1>3 DEF Handshake, Untouched, Contract!HandshakeSucceeds
<1>4. ASSUME RequestWorkFiles PROVE Step
  BY <1>4 DEF RequestWorkFiles, Untouched, Contract!WorkFilesArrive
<1>5. ASSUME InitialPrompt \/ EndingReportPrompt \/ CorrectionPrompt \/ Validate PROVE Step
  BY <1>5 DEF InitialPrompt, EndingReportPrompt, CorrectionPrompt, Turn, Validate
<1>6. ASSUME ReadTranscript \/ writeGitHubReportMarkdown PROVE Step
  BY <1>6 DEF ReadTranscript, writeGitHubReportMarkdown, Untouched
<1>7. ASSUME PushBranch \/ CreatePullRequest \/ CreateIssue \/ SkipPublication
             \/ writeGitHubLinkFile
      PROVE  Step
  BY <1>7 DEF PushBranch, CreatePullRequest, CreateIssue, SkipPublication,
     writeGitHubLinkFile, Untouched
<1>8. ASSUME uploadFiles PROVE Step
  <2>1. Stage = "working" /\ told = "nothing" /\ uploaded = FALSE /\ UNCHANGED told
    BY <1>1, <1>8 DEF uploadFiles, IInv, TypeOK, LinkInv
  <2>2. \/ Stage' \in {"uploaded", "dead"} /\ uploaded' = TRUE
        \/ Stage' = "dead" /\ uploaded' = FALSE
    <3>1. CASE failed'
      BY <1>8, <3>1 DEF uploadFiles, IInv, FailureInv
    <3>2. CASE ~ failed'
      BY <1>8, <3>2 DEF uploadFiles
    <3> QED
      BY <3>1, <3>2
  <2> QED
    BY <2>1, <2>2 DEF Contract!ResultsStored
<1>9. ASSUME StartShutdown PROVE Step
  <2>1. /\ Stage = "uploaded" /\ told = "nothing" /\ UNCHANGED uploaded
        /\ \/ Stage' = "ended" /\ told' = "safelyEnded"
           \/ Stage' = "dead" /\ told' \in {told, "safelyEnded"}
    <3>1. CASE failed'
      BY <1>1, <1>9, <3>1 DEF StartShutdown, IInv, FailureInv
    <3>2. CASE ~ failed'
      BY <1>1, <1>9, <3>2 DEF StartShutdown
    <3> QED
      BY <3>1, <3>2
  <2> QED
    BY <2>1 DEF Contract!TellEnd
<1>10. ASSUME ReportError PROVE Step
  <2>1. /\ Stage = "working" /\ told = "nothing" /\ UNCHANGED uploaded
        /\ \/ Stage' = "ended" /\ told' = "codexError"
           \/ Stage' = "dead" /\ told' \in {told, "codexError"}
    BY <1>1, <1>10 DEF ReportError
  <2> QED
    BY <2>1 DEF Contract!TellEnd
<1>11. ASSUME UNCHANGED vars PROVE Step
  BY <1>11 DEF vars
<1> QED
  BY <1>2, <1>3, <1>4, <1>5, <1>6, <1>7, <1>8, <1>9, <1>10, <1>11 DEF Next

(***************************************************************************)
(* The program keeps to the protocol on every path, so that a conductor    *)
(* that does, too, never meets a call it has no answer to.                 *)
(***************************************************************************)
THEOREM ProtocolKept == Spec => KeepsProtocol
<1>1. Init => Contract!Init
  BY DEF Init, Contract!Init, Stage
<1> QED
  BY <1>1, Invariance, StepKeepsProtocol, PTL DEF Spec, KeepsProtocol, Contract!Spec

=============================================================================
