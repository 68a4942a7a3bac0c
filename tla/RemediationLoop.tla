---------------------------- MODULE RemediationLoop ----------------------------
(***************************************************************************)
(* One run of the remediation loop: DefaultEngineerService drafts a patch  *)
(* with the help of the language models, the critic judges it, and a       *)
(* rejected patch is drafted again with the critic's feedback.  The model  *)
(* providers are asked one after the other, each with its retries.  The    *)
(* critic is here what module PatchReview makes of one call.               *)
(***************************************************************************)
EXTENDS Naturals

CONSTANTS Repairable,           \* confirmed vulnerabilities of the scan
          Files,                \* source files of the repository
          Scores,               \* what scoreCandidateFile() may give a file
          Providers,            \* length of the chain of providers
          MaxRetries,           \* LLM_MAX_RETRIES
          LLMCodes,             \* the failures a request may have
          MaxEngineerAttempts   \* 1 + CRITIC_MAX_ENGINEER_RETRIES

Retryable == {"RATE_LIMIT", "UNAVAILABLE", "TIMEOUT"}
FallbackEligible == Retryable \cup {"MODEL_UNAVAILABLE"}
NotEligible == {"CONFIG", "AUTH", "MALFORMED_REQUEST", "POLICY", "RESPONSE", "UNEXPECTED"}

ASSUME LoopAssumption ==
  /\ Scores \subseteq Nat /\ Providers \in Nat \ {0} /\ MaxRetries \in Nat
  /\ LLMCodes \subseteq FallbackEligible \cup NotEligible
  /\ MaxEngineerAttempts \in Nat \ {0}
  /\ "none" \notin Repairable \cup Files

Chain == 1..Providers
Rounds == 1..MaxEngineerAttempts

VARIABLES loopPc,     \* what the loop, or the engineer it called, awaits
          round,      \* attempt
          aim,        \* vulnerabilityId
          direct,     \* filePath of the finding, or none
          score,      \* what the files score for the finding
          misread,    \* a candidate file could not be read in some round
          source,     \* the file whose source the engineer holds, or none
          asked,      \* the provider that is being asked
          tries,      \* per provider: requests sent for this draft
          failure,    \* per provider: what its last request failed with
          feedback,   \* the round the feedback at hand is about, 0: none
          draft,      \* per round: Patch.status of its row, or none
          draftOf,    \* per round: vulnerability and file of its row
          basis,      \* per round: the feedback its prompt had
          loopResult  \* finalStatus, once there is one

llm == <<asked, tries, failure>>
patchRows == <<draft, draftOf, basis>>
loopVars == <<loopPc, round, aim, direct, score, misread, source, llm, feedback, patchRows, loopResult>>

LoopPC == {"idle", "find", "sandbox", "source", "ask", "draft", "record", "review", "judge",
           "failing", "done"}
NoDraft == [vuln |-> "none", file |-> "none"]
NotAsked == [p \in Chain |-> 0]
NoFailure == [p \in Chain |-> "none"]

(* scoreCandidateFile: how well a file fits the finding.                   *)
Scorings == [Files -> Scores]

LoopInit ==
  /\ loopPc = "idle" /\ round = 1 /\ aim \in Repairable \cup {"none"}
  /\ direct \in Files \cup {"none"} /\ score \in Scorings /\ misread = FALSE
  /\ source = "none" /\ asked = 1 /\ tries = NotAsked /\ failure = NoFailure /\ feedback = 0
  /\ draft = [r \in Rounds |-> "none"] /\ draftOf = [r \in Rounds |-> NoDraft]
  /\ basis = [r \in Rounds |-> 0] /\ loopResult = "none"

At(l, m) == loopPc = l /\ loopPc' = m
Ends(l, res) == At(l, "done") /\ loopResult' = res

-----------------------------------------------------------------------------
(* engineer.run(): what the draft needs *)

StartLoop ==
  /\ At("idle", "find")
  /\ UNCHANGED <<round, aim, direct, score, misread, source, llm, feedback, patchRows, loopResult>>

(* An error of any call of the engineer: ENGINEER_FAILED is emitted and    *)
(* recorded before it is thrown to the loop.                               *)
Throws ==
  /\ \E l \in {"find", "sandbox", "source", "draft", "record"} : At(l, "failing")
  /\ UNCHANGED <<round, aim, direct, score, misread, source, llm, feedback, patchRows, loopResult>>

(* resolveFinding: the vulnerability asked for, or the best confirmed one, *)
(* which the loop keeps to once the engineer has answered.                 *)
ResolveFinding ==
  /\ At("find", "sandbox")
  /\ \E v \in Repairable : (aim # "none" => v = aim) /\ aim' = v
  /\ UNCHANGED <<round, direct, score, misread, source, llm, feedback, patchRows, loopResult>>

(* resolveSandboxContext: a READY sandbox with an id.                      *)
ResolveContext ==
  /\ At("sandbox", "source")
  /\ UNCHANGED <<round, aim, direct, score, misread, source, llm, feedback, patchRows, loopResult>>

(* SourceResolver: of the files that can be read, the one that scores 50   *)
(* or more and over 10 more than any other.                                *)
Resolved(readable) ==
  {f \in readable : score[f] >= 50 /\ \A g \in readable \ {f} : score[f] > score[g] + 10}

(* readSource: the finding's own file or the resolved one; no source if    *)
(* there is none or reading it fails.  The knowledge base is asked next,   *)
(* and its failure is not one of the engineer.                             *)
ReadSource ==
  /\ \/ \E f \in {direct} \ {"none"} : At("source", "ask") /\ source' = f /\ UNCHANGED misread
     \/ /\ direct = "none"
        /\ \E readable \in SUBSET Files :
             /\ misread' = (misread \/ readable # Files)
             /\ \E f \in Resolved(readable) : At("source", "ask") /\ source' = f
     \/ /\ direct = "none" /\ misread' = TRUE
        /\ At("source", "draft") /\ source' = "none"
     \/ /\ direct = "none" /\ Resolved(Files) = {} /\ UNCHANGED misread
        /\ At("source", "draft") /\ source' = "none"
     \/ direct # "none" /\ At("source", "draft") /\ source' = "none" /\ UNCHANGED misread
  /\ asked' = 1 /\ tries' = NotAsked /\ failure' = NoFailure
  /\ UNCHANGED <<round, aim, direct, score, feedback, patchRows, loopResult>>

-----------------------------------------------------------------------------
(* llm.generate() *)

(* withRetries: the same provider again, while it has retries left.        *)
RetriesOnce(p, c) ==  \* slip: the first request is not counted
  c \in Retryable /\ tries[p] <= MaxRetries + 1
Retries(p, c) == c \in Retryable /\ tries[p] < MaxRetries

(* FallbackLLMProvider: the next provider, unless this was the last one or *)
(* the failure would repeat elsewhere.                                     *)
EscalatesAny(p, c) == p < Providers  \* slip: every error goes on to the next provider
Escalates(p, c) == p < Providers /\ c \in FallbackEligible

Request ==
  /\ loopPc = "ask" /\ tries' = [tries EXCEPT ![asked] = @ + 1]
  /\ \/ At("ask", "draft") /\ UNCHANGED <<asked, failure>>
     \/ \E c \in LLMCodes :
          /\ failure' = [failure EXCEPT ![asked] = c]
          /\ \/ Retries(asked, c) /\ At("ask", "ask") /\ UNCHANGED asked
             \/ ~Retries(asked, c) /\ Escalates(asked, c) /\ At("ask", "ask") /\ asked' = asked + 1
             \/ ~Retries(asked, c) /\ ~Escalates(asked, c) /\ At("ask", "failing") /\ UNCHANGED asked
  /\ UNCHANGED <<round, aim, direct, score, misread, source, feedback, patchRows, loopResult>>

-----------------------------------------------------------------------------
(* engineer.run(): the row of the patch *)

(* What a draft may be: REJECTED if there was no source, the model declined *)
(* or the security review found fault with it.                             *)
DraftVerdicts(file) == IF file = "none" THEN {"REJECTED"} ELSE {"REJECTED", "GENERATED"}

(* persistEngineerOutcome: a row of its own for every draft, of the file   *)
(* that was read if it is GENERATED.  An answer that is not valid throws   *)
(* and leaves none.                                                        *)
SaveDraft ==
  /\ At("draft", "record")
  /\ \E s \in DraftVerdicts(source) :
       /\ draft' = [draft EXCEPT ![round] = s]
       /\ draftOf' = [draftOf EXCEPT ![round] =
                        [vuln |-> aim, file |-> IF s = "GENERATED" THEN source ELSE "none"]]
  /\ basis' = [basis EXCEPT ![round] = feedback]
  /\ UNCHANGED <<round, aim, direct, score, misread, source, llm, feedback, loopResult>>

(* executions.record(); a draft the engineer rejected ends the loop.       *)
RecordExecution ==
  /\ \/ At("record", "review") /\ draft[round] = "GENERATED" /\ UNCHANGED loopResult
     \/ Ends("record", "REJECTED") /\ draft[round] = "REJECTED"
  /\ UNCHANGED <<round, aim, direct, score, misread, source, llm, feedback, patchRows>>

(* recordEngineerFailure(), which may fail as well: the loop FAILED.       *)
EngineerFailed ==
  /\ Ends("failing", "FAILED")
  /\ UNCHANGED <<round, aim, direct, score, misread, source, llm, feedback, patchRows>>

-----------------------------------------------------------------------------
(* critic.run() and what the loop makes of it *)

(* The critic takes the patch, or throws: another caller may have it.      *)
TakeUpPatch ==
  /\ \/ At("review", "judge") /\ draft' = [draft EXCEPT ![round] = "UNDER_REVIEW"] /\ UNCHANGED loopResult
     \/ Ends("review", "FAILED") /\ UNCHANGED draft
  /\ UNCHANGED <<round, aim, direct, score, misread, source, llm, feedback, draftOf, basis>>

(* What the critic answers to and what it then left the row as: a verdict  *)
(* that was written, no verdict, or an error, whatever was written.        *)
Judgements ==
  {<<"APPROVED", "APPROVED">>, <<"REJECTED", "REJECTED">>, <<"FAILED", "UNDER_REVIEW">>,
   <<"threw", "UNDER_REVIEW">>, <<"threw", "APPROVED">>, <<"threw", "REJECTED">>}

(* Only a rejected patch is drafted again, while there are attempts left,  *)
(* with the feedback the critic gave, if it gave any.                      *)
DraftAgain(answer) == answer = "REJECTED"
KeptFeedback(given) == IF given THEN round ELSE feedback  \* slip: no feedback leaves the old one
NextFeedback(given) == IF given THEN round ELSE 0

Judge ==
  /\ loopPc = "judge"
  /\ \E j \in Judgements :
       /\ draft' = [draft EXCEPT ![round] = j[2]]
       /\ \/ /\ DraftAgain(j[1]) /\ round < MaxEngineerAttempts
             /\ At("judge", "find") /\ round' = round + 1 /\ UNCHANGED loopResult
             /\ \E given \in BOOLEAN : feedback' = NextFeedback(given)
          \/ /\ DraftAgain(j[1]) => round = MaxEngineerAttempts
             /\ Ends("judge", IF j[1] = "threw" THEN "FAILED" ELSE j[1])
             /\ UNCHANGED <<round, feedback>>
  /\ UNCHANGED <<aim, direct, score, misread, source, llm, draftOf, basis>>

-----------------------------------------------------------------------------
EngineerStep ==
  \/ Throws \/ ResolveFinding \/ ResolveContext \/ ReadSource \/ Request \/ SaveDraft
  \/ RecordExecution \/ EngineerFailed
LoopNext == StartLoop \/ EngineerStep \/ TakeUpPatch \/ Judge

LoopSpec == LoopInit /\ [][LoopNext]_loopVars
LoopFair == WF_loopVars(EngineerStep \/ TakeUpPatch \/ Judge)
FairLoopSpec == LoopSpec /\ LoopFair

-----------------------------------------------------------------------------
(* Types of the variables.                                                 *)
LoopTypeOK ==
  /\ loopPc \in LoopPC /\ round \in Rounds /\ aim \in Repairable \cup {"none"}
  /\ direct \in Files \cup {"none"} /\ score \in [Files -> Scores] /\ misread \in BOOLEAN
  /\ source \in Files \cup {"none"} /\ asked \in Chain
  /\ tries \in [Chain -> 0..MaxRetries + 1] /\ failure \in [Chain -> LLMCodes \cup {"none"}]
  /\ feedback \in 0..MaxEngineerAttempts
  /\ draft \in [Rounds -> {"none", "GENERATED", "UNDER_REVIEW", "APPROVED", "REJECTED"}]
  /\ draftOf \in [Rounds -> [vuln : Repairable \cup {"none"}, file : Files \cup {"none"}]]
  /\ basis \in [Rounds -> 0..MaxEngineerAttempts]
  /\ loopResult \in {"none", "APPROVED", "REJECTED", "FAILED"}

(* A provider is asked at most MaxRetries + 1 times for a draft, and only  *)
(* after every one before it has been given up: by a failure another       *)
(* provider may not have, with no retry left that could have helped.  A    *)
(* failure that would repeat everywhere is the last thing that happens.    *)
GivenUp(p) ==
  failure[p] \in FallbackEligible /\ (failure[p] \in Retryable => tries[p] = MaxRetries + 1)
AskedInTurn ==
  /\ \A p \in Chain : tries[p] <= MaxRetries + 1
  /\ \A p, q \in Chain : p < q /\ tries[q] > 0 => GivenUp(p)
  /\ loopPc = "ask" => failure[asked] \in Retryable \cup {"none"}

(* A loop leaves one patch to be decided on at most: while it drafts the   *)
(* next, and when it is over, every earlier draft is REJECTED; APPROVED    *)
(* means its last draft is, REJECTED that they all are.  All the drafts    *)
(* are about one vulnerability - and one file, unless a candidate could    *)
(* not be read - and each had the feedback on the one before it, or none.  *)
EveryDraftIsSettled ==
  /\ \A r \in Rounds : r < round => draft[r] = "REJECTED"
  /\ loopResult = "APPROVED" => draft[round] = "APPROVED"
  /\ loopResult = "REJECTED" => draft[round] = "REJECTED"
  /\ \A r, s \in Rounds : draft[r] # "none" /\ draft[s] # "none" =>
       /\ draftOf[r].vuln = draftOf[s].vuln
       /\ \/ draftOf[r].file = draftOf[s].file \/ misread
          \/ "none" \in {draftOf[r].file, draftOf[s].file}
  /\ \A r \in Rounds : draft[r] # "none" => basis[r] \in {0, r - 1}

(* A loop that was started and has no result yet; it comes to one.         *)
LoopUnderWay == loopPc \notin {"idle", "done"}
LoopEnds == LoopUnderWay ~> ~LoopUnderWay
=============================================================================
