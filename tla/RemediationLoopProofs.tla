------------------------- MODULE RemediationLoopProofs -------------------------
(***************************************************************************)
(* Proofs about RemediationLoop for every set of vulnerabilities, files,   *)
(* scores and failures, any number of providers, of retries and attempts;  *)
(* and about the knowledge base its prompts are grounded in, for every     *)
(* list, every shelf and every ingestion of them, whatever fails.          *)
(***************************************************************************)
EXTENDS RemediationLoop, Knowledge, FiniteSetTheorems, SequenceTheorems, TLAPS

USE LoopAssumption

(* Who was asked before the provider at hand was given up, who comes after *)
(* it was not asked, and one that is asked again has a retry left.         *)
Turn ==
  /\ \A q \in Chain : q > asked => tries[q] = 0 /\ failure[q] = "none"
  /\ \A p \in Chain : p < asked => GivenUp(p)
  /\ loopPc = "ask" => /\ tries[asked] <= MaxRetries
                       /\ failure[asked] \in Retryable \cup {"none"}

TurnInv == LoopTypeOK /\ Turn

LEMMA StartTypes == LoopInit => LoopTypeOK
<1> SUFFICES ASSUME LoopInit PROVE LoopTypeOK
  OBVIOUS
<1>1. 1 \in Rounds /\ 1 \in Chain /\ 0 \in 0..MaxRetries + 1 /\ 0 \in 0..MaxEngineerAttempts
  BY DEF Rounds, Chain
<1>2. tries \in [Chain -> 0..MaxRetries + 1] /\ failure \in [Chain -> LLMCodes \cup {"none"}]
  BY <1>1 DEF LoopInit, NotAsked, NoFailure
<1>3. /\ draft \in [Rounds -> {"none", "GENERATED", "UNDER_REVIEW", "APPROVED", "REJECTED"}]
      /\ draftOf \in [Rounds -> [vuln : Repairable \cup {"none"}, file : Files \cup {"none"}]]
      /\ basis \in [Rounds -> 0..MaxEngineerAttempts]
  BY <1>1 DEF LoopInit, NoDraft
<1> QED BY <1>1, <1>2, <1>3 DEF LoopInit, LoopTypeOK, LoopPC, Scorings

LEMMA StartTurn == LoopInit => TurnInv
<1> SUFFICES ASSUME LoopInit PROVE Turn
  BY StartTypes DEF TurnInv
<1>1. \A p \in Chain : p >= 1 /\ tries[p] = 0 /\ failure[p] = "none"
  BY DEF LoopInit, Chain, NotAsked, NoFailure
<1> QED BY <1>1 DEF LoopInit, Turn, Chain

(* A request: the one step that counts and moves on.                       *)
LEMMA RequestTurn ==
  ASSUME TurnInv, Request
  PROVE  TurnInv'
<1> DEFINE n == tries[asked]
<1>1. /\ asked \in Chain /\ asked \in 1..Providers /\ n \in Nat /\ n <= MaxRetries
      /\ failure[asked] \in Retryable \cup {"none"}
  BY DEF TurnInv, LoopTypeOK, Turn, Request, Chain
<1>2. /\ tries' = [tries EXCEPT ![asked] = n + 1] /\ tries \in [Chain -> 0..MaxRetries + 1]
      /\ n + 1 \in 0..MaxRetries + 1
  BY <1>1 DEF TurnInv, LoopTypeOK, Request
<1>3. tries' \in [Chain -> 0..MaxRetries + 1] /\ tries'[asked] = n + 1
      /\ \A p \in Chain \ {asked} : tries'[p] = tries[p]
  BY <1>1, <1>2
<1>4. /\ round' = round /\ aim' = aim /\ direct' = direct /\ score' = score /\ misread' = misread
      /\ source' = source /\ feedback' = feedback /\ draft' = draft /\ draftOf' = draftOf
      /\ basis' = basis /\ loopResult' = loopResult
  BY DEF Request, patchRows
<1>5. ASSUME asked' \in Chain, failure' \in [Chain -> LLMCodes \cup {"none"}], loopPc' \in LoopPC
      PROVE  LoopTypeOK'
  BY <1>3, <1>4, <1>5 DEF TurnInv, LoopTypeOK
<1>6. CASE At("ask", "draft") /\ UNCHANGED <<asked, failure>>
  <2>1. LoopTypeOK'
    BY <1>1, <1>5, <1>6 DEF TurnInv, LoopTypeOK, At, LoopPC
  <2>2. \A p \in Chain : p < asked => GivenUp(p)'
    BY <1>1, <1>3, <1>6 DEF TurnInv, Turn, GivenUp, Chain
  <2>3. \A q \in Chain : q > asked => tries'[q] = 0 /\ failure'[q] = "none"
    BY <1>1, <1>3, <1>6 DEF TurnInv, Turn, Chain
  <2> QED BY <1>6, <2>1, <2>2, <2>3 DEF TurnInv, Turn, At
<1>7. ASSUME NEW c \in LLMCodes, failure' = [failure EXCEPT ![asked] = c],
             \/ Retries(asked, c) /\ At("ask", "ask") /\ UNCHANGED asked
             \/ ~Retries(asked, c) /\ Escalates(asked, c) /\ At("ask", "ask") /\ asked' = asked + 1
             \/ ~Retries(asked, c) /\ ~Escalates(asked, c) /\ At("ask", "failing") /\ UNCHANGED asked
      PROVE  TurnInv'
  <2>1. failure' \in [Chain -> LLMCodes \cup {"none"}] /\ failure'[asked] = c
        /\ \A p \in Chain \ {asked} : failure'[p] = failure[p]
    BY <1>1, <1>7 DEF TurnInv, LoopTypeOK
  <2>2. \A p \in Chain : p < asked => GivenUp(p)'
    BY <1>1, <1>3, <2>1 DEF TurnInv, Turn, GivenUp, Chain
  <2>3. \A q \in Chain : q > asked => tries'[q] = 0 /\ failure'[q] = "none"
    <3>1. \A q \in Chain : q > asked => q # asked /\ tries[q] = 0 /\ failure[q] = "none"
      BY <1>1 DEF TurnInv, Turn, Chain
    <3> QED BY <1>3, <2>1, <3>1
  <2>4. CASE Retries(asked, c) /\ At("ask", "ask") /\ UNCHANGED asked
    <3>1. LoopTypeOK'
      BY <1>1, <1>5, <2>1, <2>4 DEF At, LoopPC
    <3>2. tries'[asked] <= MaxRetries /\ failure'[asked] \in Retryable
      BY <1>1, <1>3, <2>1, <2>4 DEF Retries
    <3> QED BY <2>2, <2>3, <2>4, <3>1, <3>2 DEF TurnInv, Turn
  <2>5. CASE ~Retries(asked, c) /\ Escalates(asked, c) /\ At("ask", "ask") /\ asked' = asked + 1
    <3>1. asked' \in Chain
      BY <1>1, <2>5 DEF Escalates, Chain
    <3>2. LoopTypeOK'
      BY <1>5, <2>1, <2>5, <3>1 DEF At, LoopPC
    <3>3. /\ c \in FallbackEligible /\ (c \in Retryable => n + 1 = MaxRetries + 1)
          /\ failure'[asked] = c /\ tries'[asked] = n + 1
      BY <1>1, <1>3, <2>1, <2>5 DEF Escalates, Retries
    <3>4. \A p \in Chain : p = asked => GivenUp(p)'
      BY <3>3 DEF GivenUp
    <3>5. \A p \in Chain : p < asked' => p < asked \/ p = asked
      BY <1>1, <2>5 DEF Chain
    <3>6. \A q \in Chain : q > asked' => tries'[q] = 0 /\ failure'[q] = "none"
      BY <1>1, <2>3, <2>5 DEF Chain
    <3>7. tries'[asked'] = 0 /\ failure'[asked'] \in Retryable \cup {"none"}
      <4>1. asked' \in Chain /\ asked' > asked /\ asked' # asked
        BY <1>1, <2>5, <3>1
      <4>2. tries[asked'] = 0 /\ failure[asked'] = "none"
        BY <4>1 DEF TurnInv, Turn
      <4> QED BY <1>3, <2>1, <2>3, <4>1, <4>2
    <3> QED BY <2>2, <3>2, <3>4, <3>5, <3>6, <3>7 DEF TurnInv, Turn
  <2>6. CASE ~Retries(asked, c) /\ ~Escalates(asked, c) /\ At("ask", "failing") /\ UNCHANGED asked
    <3>1. LoopTypeOK'
      BY <1>1, <1>5, <2>1, <2>6 DEF At, LoopPC
    <3> QED BY <2>2, <2>3, <2>6, <3>1 DEF TurnInv, Turn, At
  <2> QED BY <1>7, <2>4, <2>5, <2>6
<1> QED BY <1>6, <1>7 DEF Request

(* Reading the source begins a draft: nobody was asked for it yet.         *)
LEMMA ReadSourceTurn ==
  ASSUME TurnInv, ReadSource
  PROVE  TurnInv'
<1>1. asked' = 1 /\ tries' = NotAsked /\ failure' = NoFailure
  BY DEF ReadSource
<1>2. 1 \in Chain /\ \A p \in Chain : p >= 1 /\ tries'[p] = 0 /\ failure'[p] = "none"
  BY <1>1 DEF Chain, NotAsked, NoFailure
<1>3. tries' \in [Chain -> 0..MaxRetries + 1] /\ failure' \in [Chain -> LLMCodes \cup {"none"}]
  BY <1>1 DEF NotAsked, NoFailure
<1>4. /\ round' = round /\ aim' = aim /\ direct' = direct /\ score' = score
      /\ feedback' = feedback /\ draft' = draft /\ draftOf' = draftOf
      /\ basis' = basis /\ loopResult' = loopResult
  BY DEF ReadSource, patchRows
<1>5. source' \in Files \cup {"none"} /\ misread' \in BOOLEAN /\ loopPc' \in LoopPC
  BY DEF ReadSource, Resolved, At, LoopPC, TurnInv, LoopTypeOK
<1>6. LoopTypeOK'
  BY <1>1, <1>2, <1>3, <1>4, <1>5 DEF TurnInv, LoopTypeOK
<1>7. Turn'
  BY <1>1, <1>2 DEF Turn, Chain
<1> QED BY <1>6, <1>7 DEF TurnInv

(* The other steps ask nobody.                                             *)
LEMMA QuietTurn ==
  ASSUME TurnInv, UNCHANGED llm, loopPc' # "ask", LoopTypeOK'
  PROVE  TurnInv'
BY DEF TurnInv, Turn, llm, GivenUp

LEMMA EngineerTurn ==
  ASSUME TurnInv, \/ StartLoop \/ Throws \/ ResolveFinding \/ ResolveContext \/ SaveDraft
                  \/ RecordExecution \/ EngineerFailed
  PROVE  TurnInv'
<1>1. LoopTypeOK'
  <2> USE DEF TurnInv, LoopTypeOK, At, Ends, LoopPC, llm, patchRows
  <2>1. CASE StartLoop
    BY <2>1 DEF StartLoop
  <2>2. CASE Throws
    BY <2>2 DEF Throws
  <2>3. CASE ResolveFinding
    BY <2>3 DEF ResolveFinding
  <2>4. CASE ResolveContext
    BY <2>4 DEF ResolveContext
  <2>5. CASE SaveDraft
    <3>1. PICK s \in DraftVerdicts(source) :
            /\ draft' = [draft EXCEPT ![round] = s]
            /\ draftOf' = [draftOf EXCEPT ![round] =
                             [vuln |-> aim, file |-> IF s = "GENERATED" THEN source ELSE "none"]]
      BY <2>5 DEF SaveDraft
    <3>2. s \in {"REJECTED", "GENERATED"}
      BY DEF DraftVerdicts
    <3>3. draft' \in [Rounds -> {"none", "GENERATED", "UNDER_REVIEW", "APPROVED", "REJECTED"}]
      BY <3>1, <3>2
    <3>4. [vuln |-> aim, file |-> IF s = "GENERATED" THEN source ELSE "none"]
            \in [vuln : Repairable \cup {"none"}, file : Files \cup {"none"}]
      OBVIOUS
    <3>5. draftOf' \in [Rounds -> [vuln : Repairable \cup {"none"}, file : Files \cup {"none"}]]
      BY <3>1, <3>4
    <3>6. basis' \in [Rounds -> 0..MaxEngineerAttempts]
      BY <2>5 DEF SaveDraft
    <3> QED BY <2>5, <3>3, <3>5, <3>6 DEF SaveDraft
  <2>6. CASE RecordExecution
    BY <2>6 DEF RecordExecution
  <2>7. CASE EngineerFailed
    BY <2>7 DEF EngineerFailed
  <2> QED BY <2>1, <2>2, <2>3, <2>4, <2>5, <2>6, <2>7
<1>2. UNCHANGED llm /\ loopPc' # "ask"
  BY DEF StartLoop, Throws, ResolveFinding, ResolveContext, SaveDraft, RecordExecution,
         EngineerFailed, At, Ends
<1> QED BY <1>1, <1>2, QuietTurn

LEMMA CriticTurn ==
  ASSUME TurnInv, TakeUpPatch \/ Judge
  PROVE  TurnInv'
<1> USE DEF TurnInv, LoopTypeOK, At, Ends, LoopPC, llm, patchRows
<1>1. CASE TakeUpPatch
  <2>1. LoopTypeOK' /\ UNCHANGED llm /\ loopPc' # "ask"
    BY <1>1 DEF TakeUpPatch
  <2> QED BY <2>1, QuietTurn DEF Turn
<1>2. CASE Judge
  <2>1. PICK j \in Judgements :
          /\ draft' = [draft EXCEPT ![round] = j[2]]
          /\ \/ /\ DraftAgain(j[1]) /\ round < MaxEngineerAttempts
                /\ At("judge", "find") /\ round' = round + 1 /\ UNCHANGED loopResult
                /\ \E given \in BOOLEAN : feedback' = NextFeedback(given)
             \/ /\ DraftAgain(j[1]) => round = MaxEngineerAttempts
                /\ Ends("judge", IF j[1] = "threw" THEN "FAILED" ELSE j[1])
                /\ UNCHANGED <<round, feedback>>
    BY <1>2 DEF Judge
  <2>2. /\ j[1] \in {"APPROVED", "REJECTED", "FAILED", "threw"}
        /\ j[2] \in {"APPROVED", "REJECTED", "UNDER_REVIEW"}
    BY DEF Judgements
  <2>3. draft' \in [Rounds -> {"none", "GENERATED", "UNDER_REVIEW", "APPROVED", "REJECTED"}]
    BY <2>1, <2>2
  <2>4. round' \in Rounds /\ feedback' \in 0..MaxEngineerAttempts
    BY <2>1 DEF Rounds, NextFeedback
  <2>5. loopResult' \in {"none", "APPROVED", "REJECTED", "FAILED"} /\ loopPc' \in LoopPC /\ loopPc' # "ask"
    BY <2>1, <2>2
  <2>6. LoopTypeOK' /\ UNCHANGED llm
    BY <1>2, <2>3, <2>4, <2>5 DEF Judge
  <2> QED BY <2>5, <2>6, QuietTurn DEF Turn
<1> QED BY <1>1, <1>2

LEMMA StepTurn == TurnInv /\ [LoopNext]_loopVars => TurnInv'
<1> SUFFICES ASSUME TurnInv, [LoopNext]_loopVars PROVE TurnInv'
  OBVIOUS
<1>1. CASE UNCHANGED loopVars
  BY <1>1 DEF TurnInv, LoopTypeOK, Turn, GivenUp, loopVars, llm, patchRows
<1> QED BY <1>1, RequestTurn, ReadSourceTurn, EngineerTurn, CriticTurn DEF LoopNext, EngineerStep

(* The loop's variables have their types in every state.                   *)
THEOREM LoopTypes == LoopSpec => []LoopTypeOK
<1>1. TurnInv => LoopTypeOK
  BY DEF TurnInv
<1> QED BY <1>1, StartTurn, StepTurn, PTL DEF LoopSpec

(* The chain of providers: each is asked at most MaxRetries + 1 times, and *)
(* only after all before it were given up for a failure another might not  *)
(* have (OpenAICompatibleClient.withRetries, FallbackLLMProvider).         *)
THEOREM ChainIsAskedInTurn == LoopSpec => []AskedInTurn
<1>1. TurnInv => AskedInTurn
  <2> SUFFICES ASSUME TurnInv PROVE AskedInTurn
    OBVIOUS
  <2>1. asked \in Chain /\ \A p \in Chain : tries[p] \in 0..MaxRetries + 1
    BY DEF TurnInv, LoopTypeOK
  <2>2. \A p, q \in Chain : p < q /\ tries[q] > 0 => p < asked
    BY <2>1 DEF TurnInv, Turn, Chain
  <2> QED BY <2>1, <2>2 DEF TurnInv, Turn, AskedInTurn
<1> QED BY <1>1, StartTurn, StepTurn, PTL DEF LoopSpec

-----------------------------------------------------------------------------
(* What holds of the drafts besides: the ones before this round's are      *)
(* rejected and there are none after it; the vulnerability does not change *)
(* once there is a draft; and the file is the one an undisturbed           *)
(* resolution gives, of which there is only one.                           *)
Held(f) ==
  \/ f = "none" \/ misread \/ f = direct
  \/ direct = "none" /\ f \in Resolved(Files)

Rows ==
  /\ \A r \in Rounds : (r < round => draft[r] = "REJECTED") /\ (r > round => draft[r] = "none")
  /\ loopPc \in {"idle", "find", "sandbox", "source", "ask", "draft"} => draft[round] = "none"
  /\ loopPc \in {"record", "review", "judge"} => draft[round] # "none"
  /\ loopPc = "done" \/ loopResult = "none"
  /\ loopResult = "APPROVED" => draft[round] = "APPROVED"
  /\ loopResult = "REJECTED" => draft[round] = "REJECTED"

Topic ==
  /\ loopPc \in {"sandbox", "source", "ask", "draft"} => aim # "none"
  /\ loopPc \in {"ask", "draft"} => Held(source)
  /\ feedback \in {0, round - 1}
  /\ \A r \in Rounds : draft[r] # "none" =>
       /\ aim # "none" /\ draftOf[r].vuln = aim
       /\ Held(draftOf[r].file) /\ basis[r] \in {0, r - 1}

SettledInv == LoopTypeOK /\ Rows /\ Topic

(* Of the files of the repository one at most is resolved.                 *)
LEMMA OneResolved ==
  ASSUME LoopTypeOK
  PROVE  \A f, g \in Resolved(Files) : f = g
<1> SUFFICES ASSUME NEW f \in Resolved(Files), NEW g \in Resolved(Files), f # g PROVE FALSE
  OBVIOUS
<1>1. score[f] \in Nat /\ score[g] \in Nat
  BY DEF LoopTypeOK, Resolved
<1>2. score[f] > score[g] + 10 /\ score[g] > score[f] + 10
  BY DEF Resolved
<1> QED BY <1>1, <1>2

LEMMA SettledIsSettled == SettledInv => EveryDraftIsSettled
<1> SUFFICES ASSUME SettledInv PROVE EveryDraftIsSettled
  OBVIOUS
<1>1. ASSUME NEW r \in Rounds, NEW s \in Rounds, draft[r] # "none", draft[s] # "none"
      PROVE  /\ draftOf[r].vuln = draftOf[s].vuln
             /\ \/ draftOf[r].file = draftOf[s].file \/ misread
                \/ "none" \in {draftOf[r].file, draftOf[s].file}
  BY <1>1, OneResolved DEF SettledInv, Topic, Held
<1> QED BY <1>1 DEF SettledInv, Rows, Topic, EveryDraftIsSettled

LEMMA StartSettled == LoopInit => SettledInv
<1> SUFFICES ASSUME LoopInit PROVE Rows /\ Topic
  BY StartTypes DEF SettledInv
<1>1. round = 1 /\ \A r \in Rounds : draft[r] = "none" /\ ~(r < round)
  BY DEF LoopInit, Rounds
<1>2. 1 \in Rounds
  BY DEF Rounds
<1> QED BY <1>1, <1>2 DEF LoopInit, Rows, Topic

(* A step that writes no draft and stays in its round.                     *)
LEMMA NoRowSettled ==
  ASSUME SettledInv, LoopTypeOK', UNCHANGED <<round, direct, score, feedback, patchRows>>,
         misread => misread', aim # "none" => aim' = aim,
         loopPc' \in {"idle", "find", "sandbox", "source", "ask", "draft"} => draft[round] = "none",
         loopPc' \in {"record", "review", "judge"} => draft[round] # "none",
         loopPc' = "done" \/ loopResult' = "none",
         loopResult' = "APPROVED" => draft[round] = "APPROVED",
         loopResult' = "REJECTED" => draft[round] = "REJECTED",
         loopPc' \in {"sandbox", "source", "ask", "draft"} => aim' # "none",
         loopPc' \in {"ask", "draft"} => Held(source)'
  PROVE  SettledInv'
<1>1. Rows'
  BY DEF SettledInv, Rows, patchRows
<1>2. \A r \in Rounds : Held(draftOf[r].file) => Held(draftOf[r].file)'
  BY DEF Held, Resolved, patchRows
<1>3. Topic'
  <2>1. \A r \in Rounds : draft'[r] # "none" =>
          /\ aim' # "none" /\ draftOf'[r].vuln = aim'
          /\ Held(draftOf[r].file)' /\ basis'[r] \in {0, r - 1}
    BY <1>2 DEF SettledInv, Topic, patchRows
  <2> QED BY <2>1 DEF SettledInv, Topic
<1> QED BY <1>1, <1>3 DEF SettledInv

LEMMA EngineerSettled ==
  ASSUME SettledInv, LoopTypeOK', \/ StartLoop \/ Throws \/ ResolveFinding \/ ResolveContext
                                  \/ ReadSource \/ Request \/ RecordExecution \/ EngineerFailed
  PROVE  SettledInv'
<1> USE DEF SettledInv, Rows, Topic, At, Ends
<1>1. CASE StartLoop
  BY <1>1, NoRowSettled DEF StartLoop
<1>2. CASE Throws
  BY <1>2, NoRowSettled DEF Throws
<1>3. CASE ResolveFinding
  <2>1. aim' # "none" /\ (aim # "none" => aim' = aim)
    BY <1>3 DEF ResolveFinding
  <2> QED BY <1>3, <2>1, NoRowSettled DEF ResolveFinding
<1>4. CASE ResolveContext
  BY <1>4, NoRowSettled DEF ResolveContext
<1>5. CASE ReadSource
  <2>1. UNCHANGED <<round, aim, direct, score, feedback, patchRows, loopResult>>
    BY <1>5 DEF ReadSource
  <2>2. (misread => misread') /\ Held(source)' /\ loopPc = "source" /\ loopPc' \in {"ask", "draft"}
    BY <1>5, <2>1 DEF ReadSource, Held, Resolved, LoopTypeOK
  <2> QED BY <2>1, <2>2, NoRowSettled
<1>6. CASE Request
  <2>1. UNCHANGED <<round, aim, direct, score, misread, source, feedback, patchRows, loopResult>>
    BY <1>6 DEF Request
  <2>2. loopPc = "ask" /\ loopPc' \in {"ask", "draft", "failing"}
    BY <1>6 DEF Request
  <2>3. Held(source)'
    <3>1. Held(source)
      BY <2>2
    <3> QED BY <2>1, <3>1 DEF Held, Resolved
  <2> QED BY <2>1, <2>2, <2>3, NoRowSettled
<1>7. CASE RecordExecution
  BY <1>7, NoRowSettled DEF RecordExecution
<1>8. CASE EngineerFailed
  BY <1>8, NoRowSettled DEF EngineerFailed
<1> QED BY <1>1, <1>2, <1>3, <1>4, <1>5, <1>6, <1>7, <1>8

(* The row of a draft.                                                     *)
LEMMA SaveDraftSettled ==
  ASSUME SettledInv, LoopTypeOK', SaveDraft
  PROVE  SettledInv'
<1>1. PICK s \in DraftVerdicts(source) :
        /\ draft' = [draft EXCEPT ![round] = s]
        /\ draftOf' = [draftOf EXCEPT ![round] =
                         [vuln |-> aim, file |-> IF s = "GENERATED" THEN source ELSE "none"]]
  BY DEF SaveDraft
<1>2. /\ UNCHANGED <<round, aim, direct, score, misread, source, feedback, loopResult>>
      /\ basis' = [basis EXCEPT ![round] = feedback]
      /\ loopPc = "draft" /\ loopPc' = "record"
  BY DEF SaveDraft, At
<1>3. s \in {"REJECTED", "GENERATED"} /\ round \in Rounds /\ aim # "none" /\ loopResult = "none"
  BY <1>2 DEF DraftVerdicts, SettledInv, LoopTypeOK, Topic, Rows
<1>4. draft'[round] = s /\ \A r \in Rounds \ {round} : draft'[r] = draft[r]
  BY <1>1, <1>3 DEF SettledInv, LoopTypeOK
<1>5. Rows'
  <2>1. round \in Nat /\ \A r \in Rounds : r \in Nat /\ (r < round \/ r > round => r # round)
    BY <1>3 DEF Rounds
  <2> QED BY <1>2, <1>3, <1>4, <2>1 DEF SettledInv, Rows
<1>6. direct' = direct /\ score' = score /\ misread' = misread
  BY <1>2
<1>7. \A r \in Rounds : draft'[r] # "none" =>
        /\ draftOf'[r].vuln = aim /\ Held(draftOf[r].file)' /\ basis'[r] \in {0, r - 1}
  <2> SUFFICES ASSUME NEW r \in Rounds, draft'[r] # "none"
               PROVE  /\ draftOf'[r].vuln = aim /\ Held(draftOf[r].file)' /\ basis'[r] \in {0, r - 1}
    OBVIOUS
  <2>1. CASE r = round
    <3>1. /\ draftOf'[r].vuln = aim /\ draftOf'[r].file \in {"none", source}
          /\ basis'[r] = feedback
      BY <1>1, <1>2, <1>3, <2>1 DEF SettledInv, LoopTypeOK
    <3>2. Held(source) /\ feedback \in {0, r - 1}
      BY <1>2, <2>1 DEF SettledInv, Topic
    <3> QED BY <1>6, <3>1, <3>2 DEF Held, Resolved
  <2>2. CASE r # round
    <3>1. draft[r] # "none" /\ draftOf'[r] = draftOf[r] /\ basis'[r] = basis[r]
      BY <1>1, <1>2, <1>3, <1>4, <2>2 DEF SettledInv, LoopTypeOK
    <3>2. draftOf[r].vuln = aim /\ Held(draftOf[r].file) /\ basis[r] \in {0, r - 1}
      BY <3>1 DEF SettledInv, Topic
    <3> QED BY <1>6, <3>1, <3>2 DEF Held, Resolved
  <2> QED BY <2>1, <2>2
<1>8. Topic'
  BY <1>2, <1>3, <1>7 DEF SettledInv, Topic
<1> QED BY <1>5, <1>8 DEF SettledInv

(* The critic's answer, and the next round.                                *)
LEMMA CriticSettled ==
  ASSUME SettledInv, LoopTypeOK', TakeUpPatch \/ Judge
  PROVE  SettledInv'
<1>1. /\ UNCHANGED <<aim, direct, score, misread, source, draftOf, basis>>
      /\ loopPc \in {"review", "judge"} /\ loopResult = "none" /\ round \in Rounds
      /\ loopPc' \in {"judge", "done", "find"}
  BY DEF TakeUpPatch, Judge, At, Ends, SettledInv, Rows, LoopTypeOK
<1>2. \A r \in Rounds : r \in Nat /\ (r # round => r < round \/ r > round)
  BY <1>1 DEF Rounds
<1>3. \A r \in Rounds : Held(draftOf[r].file) => Held(draftOf[r].file)'
  BY <1>1 DEF Held, Resolved
<1>4. ASSUME \A r \in Rounds : draft'[r] # "none" => draft[r] # "none", feedback' \in {0, round' - 1}
      PROVE  Topic'
  <2>1. ASSUME NEW r \in Rounds, draft'[r] # "none"
        PROVE  /\ aim' # "none" /\ draftOf'[r].vuln = aim'
               /\ Held(draftOf[r].file)' /\ basis'[r] \in {0, r - 1}
    BY <1>1, <1>3, <1>4, <2>1 DEF SettledInv, Topic
  <2> QED BY <1>1, <1>4, <2>1 DEF Topic
<1>5. CASE TakeUpPatch
  <2>1. /\ UNCHANGED <<round, feedback>> /\ loopPc' \in {"judge", "done"}
        /\ draft[round] # "none" /\ loopResult' \in {"none", "FAILED"}
        /\ loopPc' = "done" \/ loopResult' = "none"
        /\ draft'[round] # "none"
    BY <1>1, <1>5 DEF TakeUpPatch, At, Ends, SettledInv, Rows, LoopTypeOK
  <2>2. \A r \in Rounds : r # round => draft'[r] = draft[r]
    BY <1>1, <1>5 DEF TakeUpPatch, SettledInv, LoopTypeOK
  <2>3. Rows'
    BY <1>1, <1>2, <2>1, <2>2 DEF SettledInv, Rows
  <2>4. Topic'
    BY <1>1, <1>4, <2>1, <2>2 DEF SettledInv, Topic
  <2> QED BY <2>3, <2>4 DEF SettledInv
<1>6. CASE Judge
  <2>1. PICK j \in Judgements :
          /\ draft' = [draft EXCEPT ![round] = j[2]]
          /\ \/ /\ DraftAgain(j[1]) /\ round < MaxEngineerAttempts
                /\ At("judge", "find") /\ round' = round + 1 /\ UNCHANGED loopResult
                /\ \E given \in BOOLEAN : feedback' = NextFeedback(given)
             \/ /\ DraftAgain(j[1]) => round = MaxEngineerAttempts
                /\ Ends("judge", IF j[1] = "threw" THEN "FAILED" ELSE j[1])
                /\ UNCHANGED <<round, feedback>>
    BY <1>6 DEF Judge
  <2>2. draft'[round] = j[2] /\ \A r \in Rounds : r # round => draft'[r] = draft[r]
    BY <1>1, <2>1 DEF SettledInv, LoopTypeOK
  <2>3. j[2] # "none" /\ (j[1] = "APPROVED" => j[2] = "APPROVED") /\ (j[1] = "REJECTED" => j[2] = "REJECTED")
    BY DEF Judgements
  <2>4. CASE DraftAgain(j[1]) /\ round' = round + 1 /\ loopPc' = "find" /\ UNCHANGED loopResult
    <3>1. round' \in Rounds /\ round' # round /\ draft'[round] = "REJECTED" /\ loopPc = "judge"
      BY <1>1, <2>1, <2>2, <2>3, <2>4 DEF DraftAgain, LoopTypeOK, Rounds, At, Ends
    <3>2. \A r \in Rounds : /\ r < round' => r = round \/ r < round
                            /\ r >= round' => r > round /\ r # round
      BY <1>1, <1>2, <2>4 DEF Rounds
    <3>3. Rows'
      BY <1>1, <2>2, <2>4, <3>1, <3>2 DEF SettledInv, Rows, Rounds
    <3>4. \A r \in Rounds : draft'[r] # "none" => draft[r] # "none"
      BY <2>2, <3>1 DEF SettledInv, Rows
    <3>5. feedback' \in {0, round' - 1}
      <4>1. \E given \in BOOLEAN : feedback' = NextFeedback(given)
        BY <1>2, <2>1, <2>4
      <4> QED BY <1>1, <1>2, <2>4, <4>1 DEF NextFeedback
    <3> QED BY <1>4, <3>3, <3>4, <3>5 DEF SettledInv
  <2>5. CASE /\ loopPc = "judge" /\ loopPc' = "done" /\ UNCHANGED <<round, feedback>>
             /\ loopResult' = IF j[1] = "threw" THEN "FAILED" ELSE j[1]
    <3>1. Rows'
      BY <1>1, <1>2, <2>2, <2>3, <2>5 DEF SettledInv, Rows
    <3>2. \A r \in Rounds : draft'[r] # "none" => draft[r] # "none"
      BY <2>2, <2>5 DEF SettledInv, Rows
    <3>3. feedback' \in {0, round' - 1}
      BY <2>5 DEF SettledInv, Topic
    <3> QED BY <1>4, <3>1, <3>2, <3>3 DEF SettledInv
  <2> QED BY <2>1, <2>4, <2>5 DEF At, Ends
<1> QED BY <1>5, <1>6

LEMMA StepSettled == TurnInv /\ SettledInv /\ [LoopNext]_loopVars => SettledInv'
<1> SUFFICES ASSUME TurnInv, SettledInv, [LoopNext]_loopVars PROVE SettledInv'
  OBVIOUS
<1>1. LoopTypeOK'
  BY StepTurn DEF TurnInv
<1>2. CASE UNCHANGED loopVars
  BY <1>1, <1>2, NoRowSettled DEF loopVars, llm, patchRows, SettledInv, Rows, Topic, Held, Resolved
<1> QED BY <1>1, <1>2, EngineerSettled, SaveDraftSettled, CriticSettled DEF LoopNext, EngineerStep

(* A loop leaves one patch to be decided on at most, and all of its drafts *)
(* are about one vulnerability and one file, each with the feedback on the *)
(* one before it (RemediationLoopService.run, persistEngineerOutcome).     *)
THEOREM DraftsAreSettled == LoopSpec => []EveryDraftIsSettled
BY StartTurn, StepTurn, StartSettled, StepSettled, SettledIsSettled, PTL DEF LoopSpec

-----------------------------------------------------------------------------
(* The knowledge base.                                                     *)
HIDE LoopAssumption

(* Natural numbers are well ordered: what an induction over the places of  *)
(* a sequence rests on, as a set of counterexamples without a least one is *)
(* empty.                                                                  *)
Descends == {p \in Nat \X Nat : p[1] < p[2]}
LEMMA DescentEnds == IsWellFoundedOn(Descends, Nat)
<1>1. Descends = OpToRel(<, Nat)
  BY DEF Descends, OpToRel
<1> QED BY <1>1, NatLessThanWellFounded DEF OpToRel, Descends

LEMMA LeastOf ==
  ASSUME NEW T, T \subseteq Nat, T # {}
  PROVE \E m \in T : \A k \in T : m <= k
<1>1. PICK m \in T : \A k \in T : ~(<<k, m>> \in Descends)
  BY DescentEnds, WFMin
<1>2. ASSUME NEW k \in T, ~(m <= k) PROVE FALSE
  <2>1. k \in Nat /\ m \in Nat /\ k < m
    BY <1>2
  <2>2. <<k, m>> \in Nat \X Nat
    BY <2>1
  <2>3. <<k, m>>[1] < <<k, m>>[2]
    BY <2>1
  <2> QED BY <1>1, <1>2, <2>2, <2>3 DEF Descends
<1> QED BY <1>2

LEMMA GreatestOf ==
  ASSUME NEW n \in Nat, NEW T, T \subseteq 1..n, T # {}
  PROVE \E m \in T : \A k \in T : k <= m
<1> DEFINE U == {j \in 0..n : n - j \in T}
<1>1. PICK t \in T : TRUE
  OBVIOUS
<1>2. n - t \in U
  <2> t \in 1..n /\ n - t \in 0..n /\ n - (n - t) = t
    BY <1>1
  <2> QED BY <1>1
<1>3. U \subseteq Nat
  OBVIOUS
<1>4. PICK u \in U : \A j \in U : u <= j
  BY <1>2, <1>3, LeastOf
<1>5. n - u \in T
  BY <1>4
<1>6. ASSUME NEW k \in T PROVE k <= n - u
  <2>1. k \in 1..n /\ n - k \in 0..n /\ n - (n - k) = k
    OBVIOUS
  <2>2. n - k \in U
    BY <2>1
  <2>3. u <= n - k /\ u \in 0..n
    BY <1>4, <2>2
  <2> QED BY <2>1, <2>3
<1> QED BY <1>5, <1>6

-----------------------------------------------------------------------------
(* What is read of a list, place by place.                                 *)
ReadsTo(read, entries, n) ==
  /\ read = [k \in 0..n |-> read[k]]
  /\ read[0] = <<>>
  /\ \A k \in 1..n : read[k] = IF entries[k].usable THEN Append(read[k-1], entries[k].document) ELSE read[k-1]
Readable(entries, n) == \E read : ReadsTo(read, entries, n)

LEMMA ReadingGoes ==
  ASSUME NEW entries, NEW L \in Nat
  PROVE  Readable(entries, L)
<1> DEFINE T == {n \in 0..L : ~Readable(entries, n)}
<1>1. CASE T = {}
  BY <1>1
<1>2. CASE T # {}
  <2>1. PICK m \in T : \A k \in T : m <= k
    <3> T \subseteq Nat
      OBVIOUS
    <3> HIDE DEF T
    <3> QED BY <1>2, LeastOf
  <2>2. CASE m = 0
    <3> DEFINE read == [k \in 0..0 |-> <<>>]
    <3>1. ReadsTo(read, entries, 0)
      BY DEF ReadsTo
    <3> QED BY <2>1, <2>2, <3>1 DEF Readable
  <2>3. CASE m # 0
    <3>1. m \in 1..L /\ m - 1 \in 0..L /\ m - 1 \notin T
      BY <2>1, <2>3
    <3>2. PICK r : ReadsTo(r, entries, m - 1)
      BY <3>1 DEF Readable
    <3> DEFINE top == IF entries[m].usable THEN Append(r[m-1], entries[m].document) ELSE r[m-1]
               read == [k \in 0..m |-> IF k = m THEN top ELSE r[k]]
    <3>3. ReadsTo(read, entries, m)
      <4>1. read = [k \in 0..m |-> read[k]] /\ read[m] = top /\ \A k \in 0..m-1 : read[k] = r[k]
        BY <3>1
      <4>2. read[0] = <<>>
        BY <3>1, <3>2, <4>1 DEF ReadsTo
      <4>3. ASSUME NEW k \in 1..m
            PROVE  read[k] = IF entries[k].usable THEN Append(read[k-1], entries[k].document) ELSE read[k-1]
        <5>1. CASE k = m
          <6> read[k-1] = r[m-1]
            BY <3>1, <4>1, <5>1
          <6> QED BY <4>1, <5>1
        <5>2. CASE k # m
          <6>1. k \in 1..m-1 /\ k \in 0..m-1 /\ k - 1 \in 0..m-1
            BY <3>1, <5>2
          <6>2. r[k] = IF entries[k].usable THEN Append(r[k-1], entries[k].document) ELSE r[k-1]
            BY <3>2, <6>1 DEF ReadsTo
          <6> HIDE DEF read
          <6> QED BY <4>1, <6>1, <6>2
        <5> QED BY <5>1, <5>2
      <4> HIDE DEF read
      <4> QED BY <4>1, <4>2, <4>3 DEF ReadsTo
    <3> HIDE DEF read
    <3> QED BY <2>1, <3>3 DEF Readable
  <2> QED BY <2>2, <2>3
<1> QED BY <1>1, <1>2

LEMMA DocumentsReads ==
  ASSUME NEW entries, Len(entries) \in Nat
  PROVE  \E read : ReadsTo(read, entries, Len(entries)) /\ Documents(entries) = read[Len(entries)]
<1> DEFINE L == Len(entries)
           Step(f) == [n \in 0..L |-> IF n = 0 THEN <<>>
                         ELSE IF entries[n].usable THEN Append(f[n-1], entries[n].document) ELSE f[n-1]]
           read == CHOOSE f : f = Step(f)
<1>1. PICK g : ReadsTo(g, entries, L)
  BY ReadingGoes DEF Readable
<1>2. g = Step(g)
  BY <1>1 DEF ReadsTo
<1>3. read = Step(read)
  BY <1>2
<1>4. Documents(entries) = read[L]
  BY DEF Documents
<1>5. ReadsTo(read, entries, L)
  <2> HIDE DEF read
  <2>1. read = [n \in 0..L |-> read[n]]
    BY <1>3
  <2>2. \A n \in 0..L : read[n] = IF n = 0 THEN <<>>
          ELSE IF entries[n].usable THEN Append(read[n-1], entries[n].document) ELSE read[n-1]
    BY <1>3
  <2>3. read[0] = <<>>
    BY <2>2
  <2>4. \A k \in 1..L : read[k] = IF entries[k].usable THEN Append(read[k-1], entries[k].document) ELSE read[k-1]
    BY <2>2
  <2> QED BY <2>1, <2>3, <2>4 DEF ReadsTo
<1> QED BY <1>4, <1>5

(* A source gives the documents of its usable entries, all of them and no  *)
(* others, at most one for each.                                           *)
Gives(docs, entries, n) ==
  /\ Len(docs) <= n
  /\ \A j \in 1..Len(docs) : \E k \in 1..n : entries[k].usable /\ docs[j] = entries[k].document
  /\ \A k \in 1..n : entries[k].usable => \E j \in 1..Len(docs) : docs[j] = entries[k].document

LEMMA DocumentsAre ==
  ASSUME NEW D, NEW entries, Len(entries) \in Nat,
         \A n \in 1..Len(entries) : entries[n].usable \in BOOLEAN /\ (entries[n].usable => entries[n].document \in D)
  PROVE  Documents(entries) \in Seq(D) /\ Gives(Documents(entries), entries, Len(entries))
<1> DEFINE L == Len(entries)
<1>1. PICK read : ReadsTo(read, entries, L) /\ Documents(entries) = read[L]
  BY DocumentsReads
<1> DEFINE Told(n) == read[n] \in Seq(D) /\ Gives(read[n], entries, n)
           T == {n \in 0..L : ~Told(n)}
<1>2. Told(0)
  <2>1. read[0] = <<>>
    BY <1>1 DEF ReadsTo
  <2> HIDE DEF L
  <2>2. read[0] \in Seq(D) /\ Len(read[0]) = 0 /\ 1..0 = {}
    BY <2>1
  <2> QED BY <2>2 DEF Gives
<1>3. ASSUME NEW n \in 1..L, Told(n-1) PROVE Told(n)
  <2> DEFINE r == read[n-1]
             e == entries[n].document
  <2>1. n - 1 \in 0..L /\ r \in Seq(D) /\ Len(r) <= n - 1 /\ Len(r) \in Nat
    BY <1>3 DEF Gives
  <2>2. /\ \A j \in 1..Len(r) : \E k \in 1..n-1 : entries[k].usable /\ r[j] = entries[k].document
        /\ \A k \in 1..n-1 : entries[k].usable => \E j \in 1..Len(r) : r[j] = entries[k].document
    BY <1>3 DEF Gives
  <2>3. entries[n].usable \in BOOLEAN
    OBVIOUS
  <2>6. 1..n = 1..n-1 \cup {n}
    <3> HIDE DEF L
    <3> L \in Nat
      BY DEF L
    <3> QED OBVIOUS
  <2>4. CASE entries[n].usable = TRUE
    <3>1. read[n] = Append(r, e) /\ e \in D
      BY <1>1, <2>4 DEF ReadsTo
    <3> HIDE DEF r, e
    <3>2. /\ read[n] \in Seq(D) /\ Len(read[n]) = Len(r) + 1 /\ read[n][Len(r) + 1] = e
          /\ \A j \in 1..Len(r) : read[n][j] = r[j]
      BY <2>1, <3>1
    <3>3. 1..Len(read[n]) = 1..Len(r) \cup {Len(r) + 1}
      BY <2>1, <3>2
    <3>4. Len(read[n]) <= n
      BY <2>1, <3>2
    <3>5. ASSUME NEW j \in 1..Len(read[n]) PROVE \E k \in 1..n : entries[k].usable /\ read[n][j] = entries[k].document
      <4>1. CASE j = Len(r) + 1
        BY <2>4, <3>2, <4>1 DEF e
      <4>2. CASE j # Len(r) + 1
        BY <2>2, <2>6, <3>2, <3>3, <4>2
      <4> QED BY <4>1, <4>2
    <3>6. ASSUME NEW k \in 1..n, entries[k].usable PROVE \E j \in 1..Len(read[n]) : read[n][j] = entries[k].document
      <4>1. CASE k = n
        BY <3>2, <3>3, <4>1 DEF e
      <4>2. CASE k # n
        <5>1. PICK j \in 1..Len(r) : r[j] = entries[k].document
          BY <2>2, <2>6, <3>6, <4>2
        <5> QED BY <3>2, <3>3, <5>1
      <4> QED BY <4>1, <4>2
    <3> QED BY <3>2, <3>4, <3>5, <3>6 DEF Gives
  <2>5. CASE entries[n].usable = FALSE
    <3>1. read[n] = r
      BY <1>1, <2>5 DEF ReadsTo
    <3> HIDE DEF r, e
    <3>2. \A k \in 1..n : entries[k].usable => k \in 1..n-1
      BY <2>5, <2>6
    <3> QED BY <2>1, <2>2, <2>6, <3>1, <3>2 DEF Gives
  <2> QED BY <2>3, <2>4, <2>5
<1>4. T = {}
  <2> SUFFICES ASSUME T # {} PROVE FALSE
    OBVIOUS
  <2>1. T \subseteq Nat
    OBVIOUS
  <2> HIDE DEF Told
  <2>2. PICK m \in T : \A k \in T : m <= k
    <3> HIDE DEF T
    <3> QED BY <2>1, LeastOf
  <2>3. m # 0 /\ m \in 1..L /\ m - 1 \in 0..L
    BY <1>2, <2>2
  <2>4. Told(m - 1)
    BY <2>2, <2>3
  <2> QED BY <1>3, <2>2, <2>3, <2>4
<1>5. Told(L)
  <2> HIDE DEF Told
  <2> QED BY <1>4
<1> QED BY <1>1, <1>5

-----------------------------------------------------------------------------
(* The documents of the two sources.                                       *)
NvdDocs == UNION {Listed(f) : f \in Feeds}

LEMMA NvdDoc ==
  ASSUME NEW e \in NvdDocs
  PROVE  /\ e.source = "nvd" /\ e.id = <<"cve:", e.external>> /\ CveIdOf(e) = e.external
         /\ \E f \in Feeds : \E raw \in ToSet(f) : WellFormed(raw) /\ e.external = raw.id
<1>1. PICK f \in Feeds : e \in Listed(f)
  BY DEF NvdDocs
<1>2. PICK raw \in ToSet(f) : WellFormed(raw) /\ e = NormalizeNvdItem(raw)
  BY <1>1 DEF Listed
<1>3. e.source = "nvd" /\ e.id = <<"cve:", raw.id>> /\ e.external = raw.id
  BY <1>2 DEF NormalizeNvdItem
<1> QED BY <1>2, <1>3 DEF CveIdOf

LEMMA ShelfDoc ==
  ASSUME NEW e \in OnShelf
  PROVE  /\ e.source = "amass-kb" /\ e.id = <<"", e.id[2]>> /\ CveIdOf(e) = e.id[2]
         /\ \E file \in ToSet(Shelf) : Shelved(file) /\ e.id[2] = file.id
<1>1. PICK file \in ToSet(Shelf) : Shelved(file) /\ e = ReadShelf(file)
  BY DEF OnShelf
<1>2. e.source = "amass-kb" /\ e.id = <<"", file.id>>
  BY <1>1 DEF ReadShelf
<1>3. e.id[2] = file.id
  <2>1. \A x, y : <<x, y>>[2] = y
    OBVIOUS
  <2> QED BY <1>2, <2>1
<1> QED BY <1>1, <1>2, <1>3 DEF CveIdOf

LEMMA DocsAre == AllDocs = NvdDocs \cup OnShelf
BY DEF AllDocs, NvdDocs

(* A page is a stretch of the list, and short only at its end.             *)
LEMMA PageIs ==
  ASSUME KnowledgeAssumption, feed \in Feeds, NEW start \in Nat, NEW size \in Nat
  PROVE  /\ Len(PageAt(start, size)) \in 0..size
         /\ \A k \in 1..Len(PageAt(start, size)) : start + k \in 1..Len(feed) /\ PageAt(start, size)[k] = feed[start + k]
         /\ start <= Len(feed) => /\ start + Len(PageAt(start, size)) <= Len(feed)
                                  /\ Len(PageAt(start, size)) < size => start + Len(PageAt(start, size)) = Len(feed)
<1> DEFINE top == IF start + size < Len(feed) THEN start + size ELSE Len(feed)
<1>1. feed \in Seq(ToSet(feed))
  BY DEF KnowledgeAssumption
<1>2. Len(feed) \in Nat
  BY <1>1
<1>3. top \in Nat /\ top <= Len(feed) /\ top <= start + size /\ (top < start + size => top = Len(feed))
  BY <1>2
<1>4. \A k \in start + 1 .. top : feed[k] \in ToSet(feed)
  <2> HIDE DEF top
  <2>1. \A k \in start + 1 .. top : k \in 1..Len(feed)
    BY <1>2, <1>3
  <2> QED BY <1>1, <2>1
<1>5. PageAt(start, size) = SubSeq(feed, start + 1, top)
  BY DEF PageAt
<1> HIDE DEF top
<1>6. /\ Len(PageAt(start, size)) = IF start + 1 <= top THEN top - (start + 1) + 1 ELSE 0
      /\ \A k \in 1..top - (start + 1) + 1 : PageAt(start, size)[k] = feed[start + 1 + k - 1]
  <2>1. start + 1 \in Int /\ top \in Int
    BY <1>3
  <2> QED BY <1>4, <1>5, <2>1, SubSeqProperties
<1>7. Len(PageAt(start, size)) = IF start < top THEN top - start ELSE 0
  BY <1>3, <1>6
<1>8. ASSUME NEW k \in 1..Len(PageAt(start, size))
      PROVE  start + k \in 1..Len(feed) /\ PageAt(start, size)[k] = feed[start + k]
  <2>1. start < top /\ k \in 1..top - start
    BY <1>3, <1>7
  <2>2. k \in 1..top - (start + 1) + 1 /\ start + 1 + k - 1 = start + k
    BY <1>3, <2>1
  <2> QED BY <1>2, <1>3, <1>6, <2>1, <2>2
<1> QED BY <1>2, <1>3, <1>7, <1>8

(* What is read of a page.                                                 *)
LEMMA PageRead ==
  ASSUME KnowledgeAssumption, feed \in Feeds, NEW start \in Nat, NEW size \in Nat
  PROVE  /\ Documents(Items(PageAt(start, size))) \in Seq(NvdDocs)
         /\ Len(Documents(Items(PageAt(start, size)))) <= Len(PageAt(start, size))
         /\ \A k \in start + 1 .. start + Len(PageAt(start, size)) : WellFormed(feed[k]) =>
              \E n \in 1..Len(Documents(Items(PageAt(start, size)))) :
                Documents(Items(PageAt(start, size)))[n] = NormalizeNvdItem(feed[k])
<1> DEFINE items == PageAt(start, size)
           entries == Items(items)
<1>1. /\ Len(items) \in Nat
      /\ \A k \in 1..Len(items) : start + k \in 1..Len(feed) /\ items[k] = feed[start + k]
  <2>1. /\ Len(PageAt(start, size)) \in 0..size
        /\ \A k \in 1..Len(PageAt(start, size)) : start + k \in 1..Len(feed) /\ PageAt(start, size)[k] = feed[start + k]
    BY PageIs
  <2> QED BY <2>1
<1> HIDE DEF items
<1>2. Len(entries) = Len(items) /\ \A k \in 1..Len(items) : /\ entries[k].usable = WellFormed(items[k])
                                                             /\ entries[k].document = NormalizeNvdItem(items[k])
  BY <1>1 DEF Items
<1>3. ASSUME NEW k \in 1..Len(items)
      PROVE  entries[k].usable \in BOOLEAN /\ (entries[k].usable => entries[k].document \in NvdDocs)
  <2>1. WellFormed(items[k]) \in BOOLEAN
    BY DEF WellFormed
  <2>2. items[k] \in ToSet(feed)
    BY <1>1 DEF KnowledgeAssumption, ToSet
  <2> QED BY <1>2, <2>1, <2>2 DEF NvdDocs, Listed
<1> HIDE DEF entries
<1>4. Documents(entries) \in Seq(NvdDocs) /\ Gives(Documents(entries), entries, Len(entries))
  BY <1>1, <1>2, <1>3, DocumentsAre
<1>5. ASSUME NEW k \in start + 1 .. start + Len(items), WellFormed(feed[k])
      PROVE  \E n \in 1..Len(Documents(entries)) : Documents(entries)[n] = NormalizeNvdItem(feed[k])
  <2>1. k - start \in 1..Len(items) /\ start + (k - start) = k
    BY <1>1
  <2>2. items[k - start] = feed[k]
    BY <1>1, <2>1
  <2>3. entries[k - start].usable /\ entries[k - start].document = NormalizeNvdItem(feed[k])
    BY <1>2, <1>5, <2>1, <2>2
  <2> QED BY <1>2, <1>4, <2>1, <2>3 DEF Gives
<1> QED BY <1>2, <1>4, <1>5 DEF Gives, items, entries

(* What is read of the local files.                                        *)
LEMMA ShelfRead ==
  ASSUME KnowledgeAssumption
  PROVE  /\ Documents(ShelfItems) \in Seq(OnShelf) /\ Len(Documents(ShelfItems)) <= Len(Shelf) /\ Len(Shelf) \in Nat
         /\ \A d \in OnShelf : \E n \in 1..Len(Documents(ShelfItems)) : Documents(ShelfItems)[n] = d
<1>1. Shelf \in Seq(ToSet(Shelf)) /\ Len(Shelf) \in Nat /\ DOMAIN Shelf = 1..Len(Shelf)
  BY DEF KnowledgeAssumption
<1>2. Len(ShelfItems) = Len(Shelf) /\ \A k \in 1..Len(Shelf) : /\ ShelfItems[k].usable = Shelved(Shelf[k])
                                                           /\ ShelfItems[k].document = ReadShelf(Shelf[k])
  BY <1>1 DEF ShelfItems
<1>3. ASSUME NEW k \in 1..Len(Shelf)
      PROVE  ShelfItems[k].usable \in BOOLEAN /\ (ShelfItems[k].usable => ShelfItems[k].document \in OnShelf)
  <2>1. Shelved(Shelf[k]) \in BOOLEAN
    BY DEF Shelved
  <2> QED BY <1>1, <1>2, <2>1 DEF OnShelf, ToSet
<1>4. Documents(ShelfItems) \in Seq(OnShelf) /\ Gives(Documents(ShelfItems), ShelfItems, Len(ShelfItems))
  BY <1>1, <1>2, <1>3, DocumentsAre
<1>5. ASSUME NEW d \in OnShelf PROVE \E n \in 1..Len(Documents(ShelfItems)) : Documents(ShelfItems)[n] = d
  <2>1. PICK k \in 1..Len(Shelf) : Shelved(Shelf[k]) /\ d = ReadShelf(Shelf[k])
    BY <1>1 DEF OnShelf, ToSet
  <2> QED BY <1>2, <1>4, <2>1 DEF Gives
<1> QED BY <1>1, <1>2, <1>4, <1>5 DEF Gives

-----------------------------------------------------------------------------
(* The bookkeeping of one ingestion: where it stands in its list, what it  *)
(* has read of it, and how its counters relate to its documents.           *)
Stages == {"idle", "fetching", "finding", "writing", "embedding", "pushing", "done", "failed"}
Jobs == [stage : Stages, cap : Nat, start : Nat, page : Nat, tries : Nat, docs : Seq(AllDocs), malformed : Int,
         hasMore : BOOLEAN, next : Nat, found : BOOLEAN, inserted : Nat, updated : Nat, embedded : Nat,
         vectors : Seq({d.text : d \in AllDocs}), alone : BOOLEAN, calm : BOOLEAN, listed : SUBSET AllDocs]
Has(docs, d) == \E n \in 1..Len(docs) : docs[n] = d
AllIn(docs, D) == \A n \in 1..Len(docs) : docs[n] \in D

Walks(ing, list) ==
  /\ Len(ing.docs) <= ing.cap
  /\ AllIn(ing.docs, NvdDocs) \/ AllIn(ing.docs, OnShelf)
  /\ ing.stage = "fetching" =>
       /\ AllIn(ing.docs, NvdDocs) /\ Len(ing.docs) < ing.cap
       /\ ing.calm => /\ ing.listed = Listed(list) /\ ing.start <= Len(list)
                      /\ \A k \in 1..ing.start : WellFormed(list[k]) => Has(ing.docs, NormalizeNvdItem(list[k]))
  /\ ing.stage \notin {"idle", "fetching", "failed"} /\ ing.calm /\ ~ing.hasMore =>
       \A d \in ing.listed : Has(ing.docs, d)

Counts(ing) ==
  /\ ing.next \in 1..Len(ing.docs) + 1 /\ ing.inserted + ing.updated = ing.next - 1
  /\ ing.stage \in {"idle", "fetching"} => ing.next = 1 /\ ing.inserted = 0 /\ ing.updated = 0 /\ ing.embedded = 0
  /\ ing.stage \in {"finding", "writing"} => ing.next <= Len(ing.docs)
  /\ ing.stage \in {"embedding", "pushing", "done"} => ing.next = Len(ing.docs) + 1
  /\ ing.stage = "pushing" => /\ Len(ing.vectors) <= Len(ing.docs)
                              /\ \A k \in 1..Len(ing.vectors) : ing.vectors[k] = ing.docs[k].text
  /\ ing.stage = "done" => ing.embedded = Len(ing.docs)

(* What it has written is there; and as it was written, if no other has    *)
(* run since it began.                                                     *)
LastOfId(docs, n, top) == \A k \in 1..top : k > n => docs[k].id # docs[n].id
HasRows(ing, rows) ==
  /\ \A n \in 1..ing.next - 1 : CveIdOf(ing.docs[n]) \in DOMAIN rows
  /\ ing.alone => \A n \in 1..ing.next - 1 : LastOfId(ing.docs, n, ing.next - 1) =>
       rows[CveIdOf(ing.docs[n])] = RowOf(ing.docs[n])
HasPoints(ing, stored) ==
  ing.alone /\ ing.stage = "done" => \A n \in 1..Len(ing.docs) : LastOfId(ing.docs, n, Len(ing.docs)) =>
    /\ ing.docs[n].id \in DOMAIN stored
    /\ stored[ing.docs[n].id] = PointOf(ing.docs[n], ing.docs[n].text)

JobInv == \A i \in Ingestions :
  /\ Walks(ingestion[i], feed) /\ Counts(ingestion[i])
  /\ HasRows(ingestion[i], cveRows) /\ HasPoints(ingestion[i], points)
SoloInv == \A i \in Ingestions, j \in Ingestions :
  i # j /\ ingestion[i].alone /\ ingestion[i].stage # "idle" => ~Running(j)

(* A row is of a document with its key, a point of one with its id, whose  *)
(* row there is.                                                           *)
RowsInv == \A c \in DOMAIN cveRows : \E e \in AllDocs : CveIdOf(e) = c /\ cveRows[c] = RowOf(e)
PointsInv == \A d \in DOMAIN points : \E e \in AllDocs :
  e.id = d /\ points[d].payload = PayloadOf(e) /\ CveIdOf(e) \in DOMAIN cveRows
BaseTypes ==
  /\ feed \in Feeds /\ collection \in BOOLEAN /\ revisions \in 0..MaxRevisions
  /\ knowledgeFaults \in 0..MaxKnowledgeFaults /\ ingestion \in [Ingestions -> Jobs]
KnowledgeInv == BaseTypes /\ JobInv /\ SoloInv /\ RowsInv /\ PointsInv

(* The invariant is what was meant.                                        *)
LEMMA InvTypes == KnowledgeAssumption /\ KnowledgeInv => KnowledgeTypeOK
<1> SUFFICES ASSUME KnowledgeAssumption, KnowledgeInv PROVE KnowledgeTypeOK
  OBVIOUS
<1>1. \A c \in DOMAIN cveRows : cveRows[c] \in {RowOf(d) : d \in {e \in AllDocs : CveIdOf(e) = c}}
  BY DEF KnowledgeInv, RowsInv
<1>2. \A d \in DOMAIN points : points[d].payload \in {PayloadOf(e) : e \in {f \in AllDocs : f.id = d}}
  BY DEF KnowledgeInv, PointsInv
<1>3. ASSUME NEW i \in Ingestions
      PROVE  ingestion[i].stage \in Stages /\ ToSet(ingestion[i].docs) \subseteq AllDocs
  <2>1. ingestion[i] \in Jobs
    BY DEF KnowledgeInv, BaseTypes
  <2>2. ingestion[i].stage \in Stages /\ ingestion[i].docs \in Seq(AllDocs)
    BY <2>1 DEF Jobs
  <2> QED BY <2>2 DEF ToSet
<1> QED BY <1>1, <1>2, <1>3 DEF KnowledgeTypeOK, KnowledgeInv, BaseTypes, Stages

LEMMA OneKey ==
  ASSUME NEW e \in AllDocs, NEW f \in AllDocs, CveIdOf(e) = CveIdOf(f),
         (e \in NvdDocs /\ f \in NvdDocs) \/ (e \in OnShelf /\ f \in OnShelf)
  PROVE  e.id = f.id
<1>1. CASE e \in NvdDocs /\ f \in NvdDocs
  BY <1>1, NvdDoc
<1>2. CASE e \in OnShelf /\ f \in OnShelf
  BY <1>2, ShelfDoc
<1> QED BY <1>1, <1>2

(* A text that is found under a CVE was stored with that CVE.              *)
LEMMA FoundText ==
  ASSUME KnowledgeAssumption, KnowledgeInv, NEW r \in Search([type |-> Unset]), r.payload.source = "nvd"
  PROVE  \E d \in AllDocs : d.source = "nvd" /\ d.external = r.payload.cveId /\ d.text = r.content
<1>1. PICK d \in DOMAIN points : r = ToDocument(PayloadOfHit(points[d]))
  BY DEF Search, SearchPoints
<1>2. PICK e \in AllDocs : e.id = d /\ points[d].payload = PayloadOf(e) /\ CveIdOf(e) \in DOMAIN cveRows
  BY DEF KnowledgeInv, PointsInv
<1> DEFINE p == PayloadOf(e)
<1>3. p.source = e.source /\ p.cveId = e.external
  BY DEF PayloadOf
<1>4. PayloadOfHit(points[d]) = [p EXCEPT !.source = IF @ = "amass-kb" THEN @ ELSE "nvd"]
  BY <1>2 DEF PayloadOfHit
<1>5. PayloadOfHit(points[d]).cveId = e.external
      /\ PayloadOfHit(points[d]).source = IF e.source = "amass-kb" THEN e.source ELSE "nvd"
  BY <1>3, <1>4 DEF PayloadOf
<1> HIDE DEF p
<1>6. r.payload.cveId = e.external /\ r.payload.source = IF e.source = "amass-kb" THEN e.source ELSE "nvd"
  BY <1>1, <1>5 DEF ToDocument
<1>7. e \in NvdDocs
  <2>1. e.source # "amass-kb"
    BY <1>6
  <2> QED BY <2>1, ShelfDoc, DocsAre
<1>8. CveIdOf(e) = e.external
  BY <1>7, NvdDoc
<1>9. r.content = cveRows[e.external].text
  BY <1>1, <1>2, <1>5, <1>8 DEF ToDocument
<1>10. PICK f \in AllDocs : CveIdOf(f) = e.external /\ cveRows[e.external] = RowOf(f)
  BY <1>2, <1>8 DEF KnowledgeInv, RowsInv
<1>11. f \notin OnShelf
  <2> SUFFICES ASSUME f \in OnShelf PROVE FALSE
    OBVIOUS
  <2>1. PICK file \in ToSet(Shelf) : Shelved(file) /\ f.id[2] = file.id
    BY ShelfDoc
  <2>2. PICK g \in Feeds : \E raw \in ToSet(g) : WellFormed(raw) /\ e.external = raw.id
    BY <1>7, NvdDoc
  <2>3. PICK raw \in ToSet(g) : WellFormed(raw) /\ e.external = raw.id
    BY <2>2
  <2>4. file.id = raw.id
    BY <1>10, <2>1, <2>3, ShelfDoc
  <2> QED BY <2>1, <2>3, <2>4 DEF KnowledgeAssumption
<1>12. f \in NvdDocs
  BY <1>11, DocsAre
<1>13. f.source = "nvd" /\ f.external = e.external /\ f.text = RowOf(f).text
  BY <1>10, <1>12, NvdDoc DEF RowOf
<1> QED BY <1>6, <1>9, <1>10, <1>13

-----------------------------------------------------------------------------
(* The invariant says what the property does.                              *)
LEMMA DoneIsWhole ==
  ASSUME KnowledgeInv, NEW i \in Ingestions, ingestion[i].stage = "done", NEW ing, ing = ingestion[i]
  PROVE  /\ Len(ing.docs) <= ing.cap /\ ing.embedded = Len(ing.docs) /\ ing.inserted + ing.updated = Len(ing.docs)
         /\ ing.alone => \A n \in 1..Len(ing.docs) : (\A k \in 1..Len(ing.docs) : k > n => ing.docs[k].id # ing.docs[n].id) =>
               /\ cveRows[CveIdOf(ing.docs[n])] = RowOf(ing.docs[n])
               /\ points[ing.docs[n].id] = PointOf(ing.docs[n], ing.docs[n].text)
               /\ ing.docs[n].source = "nvd" =>
                    \E r \in Search([type |-> ing.docs[n].type, severity |-> ing.docs[n].severity]) :
                      r = [payload |-> PayloadOf(ing.docs[n]), content |-> ing.docs[n].text]
         /\ ing.calm /\ ~ing.hasMore => ing.listed \subseteq ToSet(ing.docs)
<1>1. /\ ing \in Jobs /\ Walks(ing, feed) /\ Counts(ing) /\ HasRows(ing, cveRows) /\ HasPoints(ing, points)
      /\ ing.stage = "done"
  BY DEF KnowledgeInv, BaseTypes, JobInv
<1>2. ing.docs \in Seq(AllDocs) /\ Len(ing.docs) \in Nat /\ DOMAIN ing.docs = 1..Len(ing.docs)
      /\ ing.next \in Nat /\ ing.inserted \in Nat /\ ing.updated \in Nat
  BY <1>1 DEF Jobs
<1>3. ing.next - 1 = Len(ing.docs)
  BY <1>1, <1>2 DEF Counts
<1>4. ASSUME ing.alone, NEW n \in 1..Len(ing.docs), LastOfId(ing.docs, n, Len(ing.docs))
      PROVE  /\ cveRows[CveIdOf(ing.docs[n])] = RowOf(ing.docs[n])
             /\ CveIdOf(ing.docs[n]) \in DOMAIN cveRows
             /\ ing.docs[n].id \in DOMAIN points
             /\ points[ing.docs[n].id] = PointOf(ing.docs[n], ing.docs[n].text)
  BY <1>1, <1>3, <1>4 DEF HasRows, HasPoints
<1>5. ASSUME ing.alone, NEW n \in 1..Len(ing.docs), LastOfId(ing.docs, n, Len(ing.docs)), ing.docs[n].source = "nvd"
      PROVE  \E r \in Search([type |-> ing.docs[n].type, severity |-> ing.docs[n].severity]) :
                      r = [payload |-> PayloadOf(ing.docs[n]), content |-> ing.docs[n].text]
  <2> DEFINE e == ing.docs[n]
             filter == [type |-> e.type, severity |-> e.severity]
             hit == points[e.id]
             p == PayloadOf(e)
  <2>1. e \in NvdDocs
    <3>1. e \in AllDocs /\ e.source = "nvd"
      BY <1>2, <1>5
    <3> HIDE DEF e
    <3>2. e \notin OnShelf
      BY <3>1, ShelfDoc
    <3> QED BY <3>1, <3>2, DocsAre
  <2>2. CveIdOf(e) = e.external
    BY <2>1, NvdDoc
  <2>3. e.id \in DOMAIN points /\ hit = PointOf(e, e.text)
        /\ cveRows[e.external] = RowOf(e) /\ e.external \in DOMAIN cveRows
    BY <1>4, <1>5, <2>2
  <2>4. /\ p.source = "nvd" /\ p.cveId = e.external /\ p.type = e.type /\ p.severity = e.severity
        /\ p = [source |-> "nvd", cveId |-> e.external, type |-> e.type, severity |-> e.severity]
    BY <1>5 DEF PayloadOf
  <2> HIDE DEF e, p
  <2>5. hit.payload = p
    BY <2>3 DEF PointOf, p
  <2>6. Matches(p, filter)
    BY <2>4 DEF Matches
  <2>7. hit \in SearchPoints(filter)
    BY <2>3, <2>5, <2>6 DEF SearchPoints
  <2>8. PayloadOfHit(hit) = p
    BY <2>4, <2>5 DEF PayloadOfHit
  <2>9. ToDocument(PayloadOfHit(hit)) = [payload |-> p, content |-> e.text]
    BY <2>3, <2>4, <2>8 DEF ToDocument, RowOf
  <2> QED BY <2>7, <2>9 DEF Search, e, p
<1>6. ing.calm /\ ~ing.hasMore => ing.listed \subseteq ToSet(ing.docs)
  BY <1>1, <1>2 DEF Walks, Has, ToSet
<1>7. Len(ing.docs) <= ing.cap /\ ing.embedded = Len(ing.docs) /\ ing.inserted + ing.updated = Len(ing.docs)
  BY <1>1, <1>2, <1>3 DEF Walks, Counts
<1> QED BY <1>4, <1>5, <1>6, <1>7 DEF LastOfId

LEMMA InvIsWhole == KnowledgeAssumption /\ KnowledgeInv => KnowledgeIsWhole
<1> SUFFICES ASSUME KnowledgeAssumption, KnowledgeInv PROVE KnowledgeIsWhole
  OBVIOUS
<1>1. ASSUME NEW d \in DOMAIN points
      PROVE  (IF points[d].payload.source = "nvd" THEN points[d].payload.cveId ELSE d[2]) \in DOMAIN cveRows
  <2>1. PICK e \in AllDocs : e.id = d /\ points[d].payload = PayloadOf(e) /\ CveIdOf(e) \in DOMAIN cveRows
    BY DEF KnowledgeInv, PointsInv
  <2>2. points[d].payload.source = e.source /\ points[d].payload.cveId = e.external
    BY <2>1 DEF PayloadOf
  <2> QED BY <2>1, <2>2 DEF CveIdOf
<1>2. \A r \in Search([type |-> Unset]) : r.payload.source = "nvd" =>
       \E d \in AllDocs : d.source = "nvd" /\ d.external = r.payload.cveId /\ d.text = r.content
  BY FoundText
<1> QED BY <1>1, <1>2, DoneIsWhole DEF KnowledgeIsWhole

-----------------------------------------------------------------------------
(* One ingestion moves, the others keep what they have.                    *)
LEMMA OneMoves ==
  ASSUME KnowledgeInv, NEW i \in Ingestions, NEW new \in Jobs, Running(i),
         ingestion' = [ingestion EXCEPT ![i] = new], feed' = feed, collection' = collection, revisions' = revisions,
         knowledgeFaults' \in 0..MaxKnowledgeFaults,
         new.alone = ingestion[i].alone, new.stage # "idle",
         Walks(new, feed), Counts(new), HasRows(new, cveRows'), HasPoints(new, points'),
         \A j \in Ingestions \ {i} : HasRows(ingestion[j], cveRows') /\ HasPoints(ingestion[j], points'),
         RowsInv', PointsInv'
  PROVE  KnowledgeInv'
<1>1. ingestion \in [Ingestions -> Jobs]
  BY DEF KnowledgeInv, BaseTypes
<1>2. ingestion'[i] = new /\ \A j \in Ingestions \ {i} : ingestion'[j] = ingestion[j]
  BY <1>1
<1>3. BaseTypes'
  BY <1>1 DEF KnowledgeInv, BaseTypes
<1>4. ASSUME NEW j \in Ingestions
      PROVE  /\ Walks(ingestion'[j], feed') /\ Counts(ingestion'[j])
             /\ HasRows(ingestion'[j], cveRows') /\ HasPoints(ingestion'[j], points')
  <2>1. CASE j = i
    BY <1>2, <2>1
  <2>2. CASE j # i
    BY <1>2, <2>2 DEF KnowledgeInv, JobInv
  <2> QED BY <2>1, <2>2
<1>5. SoloInv'
  <2> SUFFICES ASSUME NEW a \in Ingestions, NEW b \in Ingestions, a # b, ingestion'[a].alone, ingestion'[a].stage # "idle",
                      Running(b)'
               PROVE  FALSE
    BY DEF SoloInv
  <2>1. ingestion[a].alone /\ ingestion[a].stage # "idle"
    BY <1>2 DEF Running
  <2>2. Running(b)
    BY <1>2 DEF Running
  <2> QED BY <2>1, <2>2 DEF KnowledgeInv, SoloInv
<1> QED BY <1>3, <1>4, <1>5 DEF KnowledgeInv, JobInv

LEMMA QuietlyMoves ==
  ASSUME KnowledgeInv, NEW i \in Ingestions, NEW new \in Jobs, Running(i),
         ingestion' = [ingestion EXCEPT ![i] = new], feed' = feed, collection' = collection, revisions' = revisions,
         cveRows' = cveRows, points' = points, knowledgeFaults' \in 0..MaxKnowledgeFaults,
         new.alone = ingestion[i].alone, new.stage # "idle",
         Walks(new, feed), Counts(new), HasRows(new, cveRows), HasPoints(new, points)
  PROVE  KnowledgeInv'
<1>1. \A j \in Ingestions \ {i} : HasRows(ingestion[j], cveRows') /\ HasPoints(ingestion[j], points')
  BY DEF KnowledgeInv, JobInv
<1>2. RowsInv' /\ PointsInv'
  BY DEF KnowledgeInv, RowsInv, PointsInv
<1> QED BY <1>1, <1>2, OneMoves

(* Giving up, and trying again, take nothing back.                         *)
LEMMA GivesUp ==
  ASSUME KnowledgeInv, NEW i \in Ingestions, NEW new, Running(i),
         \/ new = [ingestion[i] EXCEPT !.stage = "failed"]
         \/ new = [ingestion[i] EXCEPT !.tries = @ + 1]
  PROVE  /\ new \in Jobs /\ new.alone = ingestion[i].alone /\ new.stage # "idle"
         /\ Walks(new, feed) /\ Counts(new) /\ HasRows(new, cveRows) /\ HasPoints(new, points)
         /\ new.stage = "failed" => \A stored : HasPoints(new, stored)
<1> DEFINE ing == ingestion[i]
<1>1. ing \in Jobs /\ Walks(ing, feed) /\ Counts(ing) /\ HasRows(ing, cveRows) /\ HasPoints(ing, points)
      /\ ing.stage \notin {"idle", "done", "failed"}
  BY DEF KnowledgeInv, BaseTypes, JobInv, Running
<1> HIDE DEF ing
<1>2. /\ new \in Jobs /\ new.docs = ing.docs /\ new.cap = ing.cap /\ new.calm = ing.calm /\ new.listed = ing.listed
      /\ new.start = ing.start /\ new.hasMore = ing.hasMore /\ new.next = ing.next /\ new.inserted = ing.inserted
      /\ new.updated = ing.updated /\ new.vectors = ing.vectors /\ new.alone = ing.alone /\ new.embedded = ing.embedded
      /\ new.stage \in {ing.stage, "failed"}
  <2>1. CASE new = [ingestion[i] EXCEPT !.stage = "failed"]
    <3>1. new = [ing EXCEPT !.stage = "failed"]
      BY <2>1 DEF ing
    <3>2. new \in Jobs
      BY <1>1, <3>1 DEF Jobs, Stages
    <3> QED BY <1>1, <3>1, <3>2 DEF Jobs
  <2>2. CASE new = [ingestion[i] EXCEPT !.tries = @ + 1]
    <3> DEFINE more == ing.tries + 1
    <3>0. more \in Nat
      BY <1>1 DEF Jobs
    <3>1. new = [ing EXCEPT !.tries = more]
      BY <2>2 DEF ing
    <3> HIDE DEF more
    <3>2. new \in Jobs
      BY <1>1, <3>0, <3>1 DEF Jobs
    <3> QED BY <1>1, <3>1, <3>2 DEF Jobs
  <2> QED BY <2>1, <2>2
<1> HIDE DEF ing
<1>3. Walks(new, feed)
  BY <1>1, <1>2 DEF Walks
<1>4. Counts(new)
  BY <1>1, <1>2 DEF Counts
<1>5. HasRows(new, cveRows) /\ HasPoints(new, points) /\ (new.stage = "failed" => \A stored : HasPoints(new, stored))
  BY <1>1, <1>2 DEF HasRows, HasPoints
<1> QED BY <1>1, <1>2, <1>3, <1>4, <1>5 DEF ing

-----------------------------------------------------------------------------
(* The steps, one action after the other.                                  *)
LEMMA FaultCounts ==
  ASSUME KnowledgeAssumption, KnowledgeInv
  PROVE  /\ Fault => knowledgeFaults' \in 0..MaxKnowledgeFaults
         /\ knowledgeFaults' = knowledgeFaults => knowledgeFaults' \in 0..MaxKnowledgeFaults
BY DEF KnowledgeAssumption, KnowledgeInv, BaseTypes, Fault

LEMMA TroubleKeeps ==
  ASSUME KnowledgeAssumption, KnowledgeInv, NEW i \in Ingestions, PageFails(i) \/ RowFails(i) \/ EmbedFails(i)
  PROVE  KnowledgeInv'
<1>1. Running(i)
  BY DEF PageFails, RowFails, EmbedFails, Running
<1>2. /\ feed' = feed /\ collection' = collection /\ revisions' = revisions /\ cveRows' = cveRows /\ points' = points
      /\ Fault
  BY DEF PageFails, RowFails, EmbedFails, IngestFails, BaseUntouched
<1>3. \/ ingestion' = [ingestion EXCEPT ![i] = [ingestion[i] EXCEPT !.stage = "failed"]]
      \/ ingestion' = [ingestion EXCEPT ![i] = [ingestion[i] EXCEPT !.tries = @ + 1]]
  BY DEF PageFails, RowFails, EmbedFails, IngestFails, Settle
<1>4. PICK new : /\ \/ new = [ingestion[i] EXCEPT !.stage = "failed"]
                    \/ new = [ingestion[i] EXCEPT !.tries = @ + 1]
                 /\ ingestion' = [ingestion EXCEPT ![i] = new]
  BY <1>3
<1>5. /\ new \in Jobs /\ new.alone = ingestion[i].alone /\ new.stage # "idle"
      /\ Walks(new, feed) /\ Counts(new) /\ HasRows(new, cveRows) /\ HasPoints(new, points)
  BY <1>1, <1>4, GivesUp
<1> QED BY <1>1, <1>2, <1>4, <1>5, FaultCounts, QuietlyMoves

(* A page read.                                                            *)
LEMMA FetchKeeps ==
  ASSUME KnowledgeAssumption, KnowledgeInv, NEW i \in Ingestions, FetchPage(i)
  PROVE  KnowledgeInv'
<1> DEFINE ing == ingestion[i]
           remaining == ing.cap - Len(ing.docs)
           size == IF remaining < PageSize THEN remaining ELSE PageSize
           items == PageAt(ing.start, size)
           good == Documents(Items(items))
           docs == ing.docs \o good
           short == EndsWalk(items, size)
           full == Len(docs) >= ing.cap
           last == ing.page = MaxPages - 1
           more == ~short /\ (full \/ last)
           over == short \/ full \/ last
           bad == ing.malformed + Len(items) - Len(good)
           read == [ing EXCEPT !.docs = docs, !.malformed = bad, !.start = ing.start + Len(items),
                               !.page = ing.page + 1, !.tries = 0, !.hasMore = more]
           new == IF over THEN [read EXCEPT !.stage = IF docs = <<>> THEN "done" ELSE "finding"] ELSE read
<1>1. ing.stage = "fetching" /\ Running(i)
  BY DEF FetchPage, Running
<1>2. ing \in Jobs /\ Walks(ing, feed) /\ Counts(ing)
  BY DEF KnowledgeInv, BaseTypes, JobInv
<1>3. /\ ing.cap \in Nat /\ ing.start \in Nat /\ ing.page \in Nat /\ ing.docs \in Seq(AllDocs) /\ Len(ing.docs) \in Nat
      /\ ing.malformed \in Int /\ ing.calm \in BOOLEAN /\ ing.alone \in BOOLEAN
  <2> HIDE DEF ing
  <2>1. ing.cap \in Nat /\ ing.start \in Nat /\ ing.page \in Nat /\ ing.docs \in Seq(AllDocs)
    BY <1>2 DEF Jobs
  <2>2. ing.malformed \in Int /\ ing.calm \in BOOLEAN /\ ing.alone \in BOOLEAN
    BY <1>2 DEF Jobs
  <2> QED BY <2>1, <2>2
<1>4. /\ AllIn(ing.docs, NvdDocs) /\ Len(ing.docs) < ing.cap
      /\ ing.calm => /\ ing.listed = Listed(feed) /\ ing.start <= Len(feed)
                     /\ \A k \in 1..ing.start : WellFormed(feed[k]) => Has(ing.docs, NormalizeNvdItem(feed[k]))
  BY <1>1, <1>2 DEF Walks
<1>5. size \in Nat /\ size <= remaining /\ remaining \in Nat
  BY <1>3, <1>4 DEF KnowledgeAssumption
<1>6. feed \in Feeds
  BY DEF KnowledgeInv, BaseTypes
<1>0. ingestion' = [ingestion EXCEPT ![i] = new]
  <2>1. read = [ing EXCEPT !.docs = docs, !.malformed = @ + Len(items) - Len(good), !.start = @ + Len(items),
                           !.page = @ + 1, !.tries = 0, !.hasMore = ~short /\ (full \/ last)]
    BY <1>2 DEF Jobs
  <2>2. read.docs = docs
    BY <1>2 DEF Jobs
  <2>3. ingestion' = [ingestion EXCEPT ![i] =
           IF over THEN [read EXCEPT !.stage = Fetched(read)] ELSE read]
    BY <2>1 DEF FetchPage, Settle
  <2> HIDE DEF read
  <2> QED BY <2>2, <2>3 DEF Fetched
<1>7. /\ Len(items) \in 0..size
      /\ ing.start <= Len(feed) => /\ ing.start + Len(items) <= Len(feed)
                                   /\ Len(items) < size => ing.start + Len(items) = Len(feed)
  <2> HIDE DEF ing, size
  <2>1. ing.start \in Nat /\ size \in Nat
    BY <1>3, <1>5
  <2> QED BY <1>6, <2>1, PageIs
<1>8. /\ good \in Seq(NvdDocs) /\ Len(good) <= Len(items)
      /\ \A k \in ing.start + 1 .. ing.start + Len(items) : WellFormed(feed[k]) => Has(good, NormalizeNvdItem(feed[k]))
  <2> HIDE DEF ing, size
  <2>1. ing.start \in Nat /\ size \in Nat
    BY <1>3, <1>5
  <2> QED BY <1>6, <2>1, PageRead DEF Has
<1>9. short = (Len(items) < size)
  BY DEF EndsWalk
<1> HIDE DEF ing, size, items, good, short
<1>10. /\ docs \in Seq(AllDocs) /\ Len(docs) = Len(ing.docs) + Len(good) /\ Len(good) \in Nat
       /\ \A n \in 1..Len(ing.docs) : docs[n] = ing.docs[n]
       /\ \A n \in 1..Len(good) : docs[Len(ing.docs) + n] = good[n]
       /\ \A n \in 1..Len(docs) : n \in 1..Len(ing.docs) \/ (n - Len(ing.docs) \in 1..Len(good)
                                                              /\ Len(ing.docs) + (n - Len(ing.docs)) = n)
  <2>1. good \in Seq(AllDocs) /\ Len(good) \in Nat
    BY <1>8, DocsAre, SeqMonotonic
  <2>2. /\ docs \in Seq(AllDocs) /\ Len(docs) = Len(ing.docs) + Len(good)
        /\ \A n \in 1..Len(ing.docs) + Len(good) : docs[n] = IF n <= Len(ing.docs) THEN ing.docs[n] ELSE good[n - Len(ing.docs)]
    BY <1>3, <2>1, ConcatProperties
  <2> HIDE DEF docs
  <2>3. \A n \in 1..Len(ing.docs) : docs[n] = ing.docs[n]
    BY <1>3, <2>1, <2>2
  <2>4. ASSUME NEW n \in 1..Len(good) PROVE docs[Len(ing.docs) + n] = good[n]
    <3>1. Len(ing.docs) + n \in 1..Len(ing.docs) + Len(good) /\ ~(Len(ing.docs) + n <= Len(ing.docs))
          /\ Len(ing.docs) + n - Len(ing.docs) = n
      BY <1>3, <2>1
    <3> QED BY <2>2, <3>1
  <2>5. \A n \in 1..Len(docs) : n \in 1..Len(ing.docs) \/ (n - Len(ing.docs) \in 1..Len(good)
                                                              /\ Len(ing.docs) + (n - Len(ing.docs)) = n)
    BY <1>3, <2>1, <2>2
  <2> QED BY <2>1, <2>2, <2>3, <2>4, <2>5
<1> HIDE DEF docs
<1>11. AllIn(docs, NvdDocs)
  <2> SUFFICES ASSUME NEW n \in 1..Len(docs) PROVE docs[n] \in NvdDocs
    BY DEF AllIn
  <2>1. CASE n \in 1..Len(ing.docs)
    BY <1>4, <1>10, <2>1 DEF AllIn
  <2>2. CASE n \notin 1..Len(ing.docs)
    <3>1. n - Len(ing.docs) \in 1..Len(good) /\ docs[n] = good[n - Len(ing.docs)]
      BY <1>10, <2>2
    <3> QED BY <1>8, <3>1
  <2> QED BY <2>1, <2>2
<1>12. \A d : Has(ing.docs, d) \/ Has(good, d) => Has(docs, d)
  <2> SUFFICES ASSUME NEW d, Has(ing.docs, d) \/ Has(good, d) PROVE Has(docs, d)
    OBVIOUS
  <2>1. CASE Has(ing.docs, d)
    <3>1. PICK n \in 1..Len(ing.docs) : ing.docs[n] = d
      BY <2>1 DEF Has
    <3>2. n \in 1..Len(docs)
      BY <1>3, <1>10
    <3> QED BY <1>10, <3>1, <3>2 DEF Has
  <2>2. CASE Has(good, d)
    <3>1. PICK n \in 1..Len(good) : good[n] = d
      BY <2>2 DEF Has
    <3>2. Len(ing.docs) + n \in 1..Len(docs)
      BY <1>3, <1>10
    <3> QED BY <1>10, <3>1, <3>2 DEF Has
  <2> QED BY <2>1, <2>2
<1>13. Len(docs) <= ing.cap /\ Len(docs) \in Nat
  BY <1>3, <1>5, <1>7, <1>8, <1>10
<1>14. ing.calm => /\ ing.start + Len(items) <= Len(feed)
                   /\ \A k \in 1..ing.start + Len(items) : WellFormed(feed[k]) => Has(docs, NormalizeNvdItem(feed[k]))
  <2> SUFFICES ASSUME ing.calm PROVE /\ ing.start + Len(items) <= Len(feed)
                   /\ \A k \in 1..ing.start + Len(items) : WellFormed(feed[k]) => Has(docs, NormalizeNvdItem(feed[k]))
    OBVIOUS
  <2>1. ing.start + Len(items) <= Len(feed)
    BY <1>4, <1>7
  <2>2. ASSUME NEW k \in 1..ing.start + Len(items), WellFormed(feed[k]) PROVE Has(docs, NormalizeNvdItem(feed[k]))
    <3>1. CASE k <= ing.start
      <4> k \in 1..ing.start
        BY <1>3, <3>1
      <4> QED BY <1>4, <1>12, <2>2
    <3>2. CASE ~(k <= ing.start)
      <4> k \in ing.start + 1 .. ing.start + Len(items)
        BY <1>3, <1>7, <3>2
      <4> QED BY <1>8, <1>12, <2>2
    <3> QED BY <3>1, <3>2
  <2> QED BY <2>1, <2>2
<1>15. ing.calm /\ short => \A d \in ing.listed : Has(docs, d)
  <2> SUFFICES ASSUME ing.calm, short, NEW d \in ing.listed PROVE Has(docs, d)
    OBVIOUS
  <2>1. ing.start + Len(items) = Len(feed)
    BY <1>4, <1>7, <1>9
  <2>2. PICK k \in 1..Len(feed) : WellFormed(feed[k]) /\ d = NormalizeNvdItem(feed[k])
    <3>1. d \in Listed(feed) /\ feed \in Seq(ToSet(feed))
      BY <1>4, <1>6 DEF KnowledgeAssumption
    <3> QED BY <3>1 DEF Listed, ToSet
  <2> QED BY <1>14, <2>1, <2>2
<1>16. short \in BOOLEAN /\ full \in BOOLEAN /\ last \in BOOLEAN /\ more \in BOOLEAN /\ (over => (~more => short))
  BY <1>9
<1>17. ~over => Len(docs) < ing.cap
  BY <1>3, <1>13
<1> DEFINE start == ing.start + Len(items)
           page == ing.page + 1
           stage == IF over THEN (IF docs = <<>> THEN "done" ELSE "finding") ELSE "fetching"
<1>18. start \in Nat /\ page \in Nat /\ bad \in Int
  <2>1. Len(items) \in Nat
    BY <1>5, <1>7
  <2> QED BY <1>3, <1>10, <2>1
<1> HIDE DEF more, over, start, page, bad, full, last
<1>19. new = [ing EXCEPT !.docs = docs, !.malformed = bad, !.start = start, !.page = page, !.tries = 0, !.hasMore = more,
                         !.stage = stage]
  <2>1. read = [ing EXCEPT !.docs = docs, !.malformed = bad, !.start = start, !.page = page, !.tries = 0, !.hasMore = more]
    BY DEF start, page
  <2> HIDE DEF read
  <2> QED BY <1>1, <1>2, <2>1 DEF Jobs
<1>20. stage \in Stages /\ (stage = "fetching" <=> ~over) /\ stage \in {"fetching", "finding", "done"}
       /\ (stage = "done" => docs = <<>>) /\ (stage = "finding" => docs # <<>>)
  BY DEF Stages
<1> HIDE DEF new, stage, read
<1>24. /\ new.docs = docs /\ new.start = start /\ new.hasMore = more /\ new.stage = stage
       /\ new.cap = ing.cap /\ new.calm = ing.calm /\ new.alone = ing.alone /\ new.listed = ing.listed
       /\ new.next = ing.next /\ new.inserted = ing.inserted /\ new.updated = ing.updated /\ new.embedded = ing.embedded
  BY <1>2, <1>19 DEF Jobs
<1>25. new \in Jobs
  BY <1>2, <1>10, <1>16, <1>18, <1>19, <1>20 DEF Jobs
<1>21. /\ new \in Jobs /\ new.docs = docs /\ new.start = start /\ new.hasMore = more /\ new.stage = stage
       /\ new.cap = ing.cap /\ new.calm = ing.calm /\ new.alone = ing.alone /\ new.listed = ing.listed
       /\ new.next = ing.next /\ new.inserted = ing.inserted /\ new.updated = ing.updated /\ new.embedded = ing.embedded
  BY <1>24, <1>25
<1>22. Walks(new, feed)
  <2>1. new.stage = "fetching" /\ new.calm =>
          /\ new.listed = Listed(feed) /\ new.start <= Len(feed)
          /\ \A k \in 1..new.start : WellFormed(feed[k]) => Has(new.docs, NormalizeNvdItem(feed[k]))
    BY <1>4, <1>14, <1>21 DEF start
  <2>2. new.stage \notin {"idle", "fetching", "failed"} /\ new.calm /\ ~new.hasMore => \A d \in new.listed : Has(new.docs, d)
    BY <1>15, <1>16, <1>20, <1>21
  <2>3. new.stage = "fetching" => Len(new.docs) < new.cap
    BY <1>17, <1>20, <1>21
  <2> QED BY <1>11, <1>13, <1>21, <2>1, <2>2, <2>3 DEF Walks
<1>23. Counts(new) /\ HasRows(new, cveRows) /\ HasPoints(new, points)
  <2>1. new.next = 1 /\ new.inserted = 0 /\ new.updated = 0 /\ new.embedded = 0
    BY <1>1, <1>2, <1>21 DEF Counts
  <2>2. new.stage = "done" => Len(new.docs) = 0
    BY <1>20, <1>21
  <2>3. new.stage = "finding" => Len(new.docs) # 0
    BY <1>10, <1>20, <1>21
  <2>4. Len(new.docs) \in Nat /\ new.stage \in {"fetching", "finding", "done"}
    BY <1>13, <1>20, <1>21
  <2>5. Counts(new)
    BY <2>1, <2>2, <2>3, <2>4 DEF Counts
  <2>6. HasRows(new, cveRows)
    BY <2>1 DEF HasRows
  <2>7. HasPoints(new, points)
    BY <2>2, <2>4 DEF HasPoints
  <2> QED BY <2>5, <2>6, <2>7
<1>26. /\ feed' = feed /\ collection' = collection /\ revisions' = revisions /\ cveRows' = cveRows /\ points' = points
       /\ knowledgeFaults' = knowledgeFaults
  BY DEF FetchPage, BaseUntouched
<1>27. Running(i) /\ new.alone = ingestion[i].alone /\ new.stage # "idle"
  BY <1>1, <1>20, <1>21 DEF ing
<1>28. ingestion' = [ingestion EXCEPT ![i] = new]
  BY <1>0
<1>29. knowledgeFaults' \in 0..MaxKnowledgeFaults
  BY <1>26, FaultCounts
<1> QED BY <1>21, <1>22, <1>23, <1>26, <1>27, <1>28, <1>29, QuietlyMoves

(* What is taken of the local files.                                       *)
LEMMA TakenIs ==
  ASSUME NEW D, NEW docs \in Seq(D), NEW cap \in Nat
  PROVE  /\ Taken(docs, cap) \in Seq(D) /\ Len(Taken(docs, cap)) <= cap
         /\ ~(Len(docs) > cap) => Taken(docs, cap) = docs
<1> DEFINE top == IF Len(docs) < cap THEN Len(docs) ELSE cap
<1>1. Len(docs) \in Nat /\ top \in Nat /\ top <= Len(docs) /\ top <= cap /\ (~(Len(docs) > cap) => top = Len(docs))
  OBVIOUS
<1>2. Taken(docs, cap) = SubSeq(docs, 1, top)
  BY DEF Taken
<1> HIDE DEF top
<1>3. \A k \in 1..top : docs[k] \in D
  BY <1>1
<1>4. /\ SubSeq(docs, 1, top) \in Seq(D)
      /\ Len(SubSeq(docs, 1, top)) = IF 1 <= top THEN top - 1 + 1 ELSE 0
      /\ \A k \in 1..top - 1 + 1 : SubSeq(docs, 1, top)[k] = docs[1 + k - 1]
  BY <1>1, <1>3, SubSeqProperties
<1>5. Len(SubSeq(docs, 1, top)) = top
  BY <1>1, <1>4
<1>6. ASSUME top = Len(docs) PROVE SubSeq(docs, 1, top) = docs
  <2> DEFINE part == SubSeq(docs, 1, top)
  <2>1. part \in Seq(D) /\ Len(part) = Len(docs)
    BY <1>4, <1>5, <1>6
  <2>2. \A k \in 1..Len(docs) : part[k] = docs[k]
    <3> SUFFICES ASSUME NEW k \in 1..Len(docs) PROVE part[k] = docs[k]
      OBVIOUS
    <3>1. k \in 1..top - 1 + 1 /\ 1 + k - 1 = k
      BY <1>1, <1>6
    <3> QED BY <1>4, <3>1
  <2> HIDE DEF part
  <2> QED BY <2>1, <2>2, SeqEqual DEF part
<1> QED BY <1>1, <1>2, <1>4, <1>5, <1>6

(* An ingestion begins: no other is alone from now on, and it is itself    *)
(* only when none runs.                                                    *)
LEMMA JoinsIn ==
  ASSUME KnowledgeAssumption, KnowledgeInv, NEW i \in Ingestions, ingestion[i].stage = "idle", NEW new \in Jobs,
         ingestion' = [j \in Ingestions |-> IF j = i THEN new ELSE [ingestion[j] EXCEPT !.alone = FALSE]],
         feed' = feed, collection' = collection, revisions' = revisions, cveRows' = cveRows, points' = points,
         knowledgeFaults' = knowledgeFaults,
         new.alone => \A j \in Ingestions : ~Running(j), new.stage # "idle", new.next = 1,
         new.stage = "done" => Len(new.docs) = 0, Walks(new, feed), Counts(new)
  PROVE  KnowledgeInv'
<1>1. ASSUME NEW j \in Ingestions, j # i
      PROVE  /\ ingestion'[j] \in Jobs /\ ingestion'[j].alone = FALSE /\ ingestion'[j].stage = ingestion[j].stage
             /\ Walks(ingestion'[j], feed) /\ Counts(ingestion'[j])
             /\ HasRows(ingestion'[j], cveRows) /\ HasPoints(ingestion'[j], points)
  <2> DEFINE ing == ingestion[j]
             other == [ing EXCEPT !.alone = FALSE]
  <2>1. ing \in Jobs /\ Walks(ing, feed) /\ Counts(ing) /\ HasRows(ing, cveRows)
    BY DEF KnowledgeInv, BaseTypes, JobInv
  <2>2. ingestion'[j] = other
    BY <1>1
  <2> HIDE DEF ing
  <2>3. other \in Jobs
    BY <2>1 DEF Jobs
  <2>4. /\ other.docs = ing.docs /\ other.cap = ing.cap /\ other.calm = ing.calm /\ other.listed = ing.listed
        /\ other.start = ing.start /\ other.hasMore = ing.hasMore /\ other.next = ing.next /\ other.inserted = ing.inserted
        /\ other.updated = ing.updated /\ other.vectors = ing.vectors /\ other.embedded = ing.embedded
        /\ other.stage = ing.stage /\ other.alone = FALSE
    BY <2>1 DEF Jobs
  <2> HIDE DEF other
  <2>5. Walks(other, feed)
    BY <2>1, <2>4 DEF Walks
  <2>6. Counts(other)
    BY <2>1, <2>4 DEF Counts
  <2>7. HasRows(other, cveRows) /\ HasPoints(other, points)
    BY <2>1, <2>4 DEF HasRows, HasPoints
  <2>8. other.stage = ingestion[j].stage
    BY <2>4 DEF ing
  <2> QED BY <2>2, <2>3, <2>4, <2>5, <2>6, <2>7, <2>8
<1>2. ingestion'[i] = new
  OBVIOUS
<1>3. HasRows(new, cveRows) /\ HasPoints(new, points)
  BY DEF HasRows, HasPoints
<1>4. BaseTypes'
  <2>1. ingestion' \in [Ingestions -> Jobs]
    BY <1>1, <1>2
  <2> QED BY <2>1 DEF KnowledgeInv, BaseTypes
<1>5. JobInv'
  <2> SUFFICES ASSUME NEW j \in Ingestions
               PROVE  /\ Walks(ingestion'[j], feed) /\ Counts(ingestion'[j])
                      /\ HasRows(ingestion'[j], cveRows) /\ HasPoints(ingestion'[j], points)
    BY DEF JobInv
  <2>1. CASE j = i
    BY <1>2, <1>3, <2>1
  <2>2. CASE j # i
    BY <1>1, <2>2
  <2> QED BY <2>1, <2>2
<1>6. SoloInv'
  <2> SUFFICES ASSUME NEW a \in Ingestions, NEW b \in Ingestions, a # b, ingestion'[a].alone, Running(b)'
               PROVE  FALSE
    BY DEF SoloInv
  <2>1. a = i
    BY <1>1
  <2>2. ingestion'[b].stage = ingestion[b].stage
    BY <1>1, <2>1
  <2>3. Running(b)
    BY <2>2 DEF Running
  <2> QED BY <1>2, <2>1, <2>3
<1>7. RowsInv' /\ PointsInv'
  BY DEF KnowledgeInv, RowsInv, PointsInv
<1> QED BY <1>4, <1>5, <1>6, <1>7 DEF KnowledgeInv

LEMMA UnbegunIs ==
  /\ Unbegun \in Jobs /\ Unbegun.stage = "idle" /\ Unbegun.cap = Uncapped /\ Unbegun.start = 0 /\ Unbegun.docs = <<>>
  /\ Unbegun.hasMore = FALSE /\ Unbegun.next = 1 /\ Unbegun.inserted = 0 /\ Unbegun.updated = 0 /\ Unbegun.embedded = 0
  /\ Unbegun.calm = TRUE
BY DEF Unbegun, Jobs, Stages, Uncapped

LEMMA BeginKeeps ==
  ASSUME KnowledgeAssumption, KnowledgeInv, NEW i \in Ingestions, BeginIngestion(i)
  PROVE  KnowledgeInv'
<1>4. PICK free \in BOOLEAN : free = \A j \in Ingestions : ~Running(j)
  OBVIOUS
<1> DEFINE all == Documents(ShelfItems)
           Fresh(cap) == [Unbegun EXCEPT !.cap = cap, !.alone = free, !.listed = Listed(feed)]
           Local(cap) == [Fresh(cap) EXCEPT !.docs = Taken(all, cap), !.listed = OnShelf,
                                            !.malformed = Len(Shelf) - Len(all), !.hasMore = Len(all) > cap]
           Begun(cap, shelf) == IF shelf THEN [Local(cap) EXCEPT !.stage = Fetched(Local(cap))]
                                ELSE [Fresh(cap) EXCEPT !.stage = "fetching"]
<1>1. PICK cap \in Caps, shelf \in {FALSE, (i \in Shelving)} :
        ingestion' = [j \in Ingestions |-> IF j = i THEN Begun(cap, shelf) ELSE [ingestion[j] EXCEPT !.alone = FALSE]]
  <2>1. CASE \A j \in Ingestions : ~Running(j)
    <3> free = TRUE
      BY <1>4, <2>1
    <3> QED BY <1>4, <2>1 DEF BeginIngestion
  <2>2. CASE ~\A j \in Ingestions : ~Running(j)
    <3> free = FALSE
      BY <1>4, <2>2
    <3> QED BY <1>4, <2>2 DEF BeginIngestion
  <2> QED BY <2>1, <2>2
<1>2. /\ ingestion[i].stage = "idle" /\ feed' = feed /\ collection' = collection /\ revisions' = revisions
      /\ cveRows' = cveRows /\ points' = points /\ knowledgeFaults' = knowledgeFaults
  BY DEF BeginIngestion, BaseUntouched
<1>3. cap \in Nat /\ cap > 0
  BY DEF KnowledgeAssumption
<1>5. feed \in Feeds
  BY DEF KnowledgeInv, BaseTypes
<1>6. Listed(feed) \subseteq AllDocs /\ OnShelf \subseteq AllDocs
  BY <1>5 DEF AllDocs
<1>7. /\ all \in Seq(OnShelf) /\ Len(all) <= Len(Shelf) /\ Len(Shelf) \in Nat
      /\ \A d \in OnShelf : \E n \in 1..Len(all) : all[n] = d
  BY ShelfRead
<1> HIDE DEF all
<1>11. ASSUME NEW fresh, fresh = [Unbegun EXCEPT !.cap = cap, !.alone = free, !.listed = Listed(feed)]
       PROVE  /\ fresh \in Jobs /\ fresh.next = 1 /\ fresh.inserted = 0 /\ fresh.updated = 0 /\ fresh.embedded = 0
              /\ fresh.alone = free /\ fresh.cap = cap /\ fresh.calm = TRUE /\ fresh.start = 0 /\ fresh.docs = <<>>
              /\ fresh.hasMore = FALSE /\ fresh.listed = Listed(feed)
  BY <1>3, <1>4, <1>6, <1>11, UnbegunIs DEF Jobs
<1>8. CASE shelf = FALSE
  <2> DEFINE new == [Fresh(cap) EXCEPT !.stage = "fetching"]
  <2>2. ingestion' = [j \in Ingestions |-> IF j = i THEN new ELSE [ingestion[j] EXCEPT !.alone = FALSE]]
    BY <1>1, <1>8
  <2>4. /\ new.stage = "fetching" /\ new.cap = cap /\ new.start = 0 /\ new.docs = <<>> /\ new.hasMore = FALSE
        /\ new.next = 1 /\ new.inserted = 0 /\ new.updated = 0 /\ new.embedded = 0 /\ new.alone = free
        /\ new.listed = Listed(feed) /\ new \in Jobs
    <3> DEFINE fresh == Fresh(cap)
    <3>1. "fetching" \in Stages
      BY DEF Stages
    <3>3. new = [fresh EXCEPT !.stage = "fetching"]
      OBVIOUS
    <3>2. /\ fresh \in Jobs /\ fresh.next = 1 /\ fresh.inserted = 0 /\ fresh.updated = 0 /\ fresh.embedded = 0
          /\ fresh.alone = free /\ fresh.cap = cap /\ fresh.calm = TRUE /\ fresh.start = 0 /\ fresh.docs = <<>>
          /\ fresh.hasMore = FALSE /\ fresh.listed = Listed(feed)
      BY <1>11
    <3> HIDE DEF fresh, new
    <3>4. new \in Jobs
      BY <3>1, <3>2, <3>3 DEF Jobs
    <3> QED BY <3>2, <3>3, <3>4 DEF Jobs
  <2> HIDE DEF new
  <2>3. new \in Jobs /\ Len(new.docs) = 0
    BY <2>4
  <2>5. Walks(new, feed)
    <3>1. Len(feed) \in Nat
      BY <1>5 DEF KnowledgeAssumption
    <3> QED BY <1>3, <2>4, <3>1 DEF Walks, AllIn
  <2>6. Counts(new)
    BY <2>4 DEF Counts
  <2>7. new.alone => \A j \in Ingestions : ~Running(j)
    BY <1>4, <2>4
  <2> QED BY <1>2, <2>2, <2>3, <2>4, <2>5, <2>6, <2>7, JoinsIn
<1>9. CASE shelf = TRUE
  <2> DEFINE docs == Taken(all, cap)
             bad == Len(Shelf) - Len(all)
             more == Len(all) > cap
             stage == IF docs = <<>> THEN "done" ELSE "finding"
             new == [Local(cap) EXCEPT !.stage = Fetched(Local(cap))]
  <2>1. /\ docs \in Seq(OnShelf) /\ Len(docs) <= cap /\ (~more => docs = all)
    BY <1>3, <1>7, TakenIs
  <2>2. docs \in Seq(AllDocs) /\ Len(docs) \in Nat /\ bad \in Int /\ more \in BOOLEAN
    <3>1. docs \in Seq(AllDocs)
      BY <1>6, <2>1, SeqMonotonic
    <3>2. Len(all) \in Nat
      BY <1>7
    <3> HIDE DEF docs
    <3> QED BY <1>7, <3>1, <3>2
  <2> HIDE DEF docs, bad, more
  <2>3. Fresh(cap) \in Jobs /\ Fresh(cap).next = 1 /\ Fresh(cap).inserted = 0 /\ Fresh(cap).updated = 0
        /\ Fresh(cap).embedded = 0 /\ Fresh(cap).alone = free /\ Fresh(cap).calm = TRUE /\ Fresh(cap).cap = cap
    BY <1>11
  <2>5. ingestion' = [j \in Ingestions |-> IF j = i THEN new ELSE [ingestion[j] EXCEPT !.alone = FALSE]]
    BY <1>1, <1>9
  <2>6. stage \in {"done", "finding"} /\ (stage = "done" => Len(docs) = 0) /\ (stage = "finding" => Len(docs) # 0)
    BY <2>2
  <2> DEFINE local == Local(cap)
  <2>13. local = [Fresh(cap) EXCEPT !.docs = docs, !.listed = OnShelf, !.malformed = bad, !.hasMore = more]
    BY DEF docs, bad, more
  <2> HIDE DEF Fresh, Local, stage
  <2>14. local \in Jobs /\ local.docs = docs
    <3> HIDE DEF local
    <3> QED BY <1>6, <2>2, <2>3, <2>13 DEF Jobs
  <2>15. new = [local EXCEPT !.stage = stage]
    BY <2>14 DEF Fetched, stage
  <2>16. /\ local.cap = cap /\ local.docs = docs /\ local.hasMore = more /\ local.calm = TRUE
         /\ local.next = 1 /\ local.inserted = 0 /\ local.updated = 0 /\ local.embedded = 0 /\ local.alone = free
         /\ local.listed = OnShelf
    <3> HIDE DEF local
    <3> QED BY <2>3, <2>13 DEF Jobs
  <2> HIDE DEF new, local
  <2>7. new \in Jobs
    <3>1. stage \in Stages
      BY <2>6 DEF Stages
    <3> QED BY <2>14, <2>15, <3>1 DEF Jobs
  <2>8. /\ new.stage = stage /\ new.cap = cap /\ new.docs = docs /\ new.hasMore = more /\ new.calm = TRUE
        /\ new.next = 1 /\ new.inserted = 0 /\ new.updated = 0 /\ new.embedded = 0 /\ new.alone = free
        /\ new.listed = OnShelf
    BY <2>14, <2>15, <2>16 DEF Jobs
  <2>9. Walks(new, feed)
    <3>1. AllIn(docs, OnShelf)
      BY <2>1 DEF AllIn
    <3>2. ~more => \A d \in OnShelf : Has(docs, d)
      BY <1>7, <2>1 DEF Has
    <3> QED BY <2>1, <2>6, <2>8, <3>1, <3>2 DEF Walks
  <2>10. Counts(new)
    BY <2>2, <2>6, <2>8 DEF Counts
  <2>11. new.alone => \A j \in Ingestions : ~Running(j)
    BY <1>4, <2>8
  <2>12. new.stage # "idle" /\ new.next = 1 /\ (new.stage = "done" => Len(new.docs) = 0)
    BY <2>6, <2>8
  <2> QED BY <1>2, <2>5, <2>7, <2>9, <2>10, <2>11, <2>12, JoinsIn
<1>10. shelf = TRUE \/ shelf = FALSE
  <2>1. CASE i \in Shelving
    <3> shelf \in {FALSE, TRUE}
      BY <1>1, <2>1
    <3> QED OBVIOUS
  <2>2. CASE ~(i \in Shelving)
    <3>1. (i \in Shelving) = FALSE
      BY <2>2
    <3> QED BY <1>1, <3>1
  <2> QED BY <2>1, <2>2
<1> QED BY <1>8, <1>9, <1>10

(* A row looked for.                                                       *)
LEMMA FindKeeps ==
  ASSUME KnowledgeAssumption, KnowledgeInv, NEW i \in Ingestions, FindRow(i)
  PROVE  KnowledgeInv'
<1> DEFINE ing == ingestion[i]
<1>1. PICK found \in BOOLEAN : ingestion' = [ingestion EXCEPT ![i] = [ing EXCEPT !.found = found, !.stage = "writing"]]
  <2> DEFINE known == CveIdOf(ing.docs[ing.next]) \in DOMAIN cveRows
  <2>1. ingestion' = [ingestion EXCEPT ![i] = [ing EXCEPT !.found = known, !.stage = "writing"]]
    BY DEF FindRow, Settle
  <2>2. CASE known
    <3> known = TRUE
      BY <2>2
    <3> QED BY <2>1
  <2>3. CASE ~known
    <3> known = FALSE
      BY <2>3
    <3> QED BY <2>1
  <2> QED BY <2>2, <2>3
<1> DEFINE new == [ing EXCEPT !.found = found, !.stage = "writing"]
<1>2. /\ ing \in Jobs /\ Walks(ing, feed) /\ Counts(ing) /\ HasRows(ing, cveRows) /\ ing.stage = "finding" /\ Running(i)
  BY DEF KnowledgeInv, BaseTypes, JobInv, FindRow, Running
<1>3. /\ feed' = feed /\ collection' = collection /\ revisions' = revisions /\ cveRows' = cveRows /\ points' = points
      /\ knowledgeFaults' = knowledgeFaults
  BY DEF FindRow, BaseUntouched
<1>4. ingestion' = [ingestion EXCEPT ![i] = new]
  BY <1>1
<1> HIDE DEF ing
<1>5. new \in Jobs
  BY <1>2 DEF Jobs, Stages
<1>6. /\ new.docs = ing.docs /\ new.cap = ing.cap /\ new.calm = ing.calm /\ new.listed = ing.listed
      /\ new.start = ing.start /\ new.hasMore = ing.hasMore /\ new.next = ing.next /\ new.inserted = ing.inserted
      /\ new.updated = ing.updated /\ new.alone = ing.alone /\ new.stage = "writing"
  BY <1>2 DEF Jobs
<1> HIDE DEF new
<1>7. Walks(new, feed)
  BY <1>2, <1>6 DEF Walks
<1>8. Counts(new)
  BY <1>2, <1>6 DEF Counts
<1>9. HasRows(new, cveRows) /\ HasPoints(new, points)
  BY <1>2, <1>6 DEF HasRows, HasPoints
<1>10. new.alone = ingestion[i].alone /\ new.stage # "idle"
  BY <1>6 DEF ing
<1>11. knowledgeFaults' \in 0..MaxKnowledgeFaults
  BY <1>3, FaultCounts
<1> QED BY <1>2, <1>3, <1>4, <1>5, <1>7, <1>8, <1>9, <1>10, <1>11, QuietlyMoves

(* What the others have stays, when nothing is taken away: they are not    *)
(* alone.                                                                  *)
LEMMA OthersKeep ==
  ASSUME KnowledgeInv, NEW i \in Ingestions, NEW j \in Ingestions \ {i}, Running(i), NEW rows, NEW stored,
         DOMAIN cveRows \subseteq DOMAIN rows
  PROVE  HasRows(ingestion[j], rows) /\ HasPoints(ingestion[j], stored)
<1>1. HasRows(ingestion[j], cveRows) /\ Counts(ingestion[j])
  BY DEF KnowledgeInv, JobInv
<1>2. ~ingestion[j].alone \/ ingestion[j].stage = "idle"
  BY DEF KnowledgeInv, SoloInv
<1>3. CASE ingestion[j].stage = "idle"
  <2>1. ingestion[j].next = 1
    BY <1>1, <1>3 DEF Counts
  <2> QED BY <1>3, <2>1 DEF HasRows, HasPoints
<1>4. CASE ~ingestion[j].alone
  BY <1>1, <1>4 DEF HasRows, HasPoints
<1> QED BY <1>2, <1>3, <1>4

(* A row written: the rows before it stay, but for an earlier one of the   *)
(* same key, whose document has the same id.                               *)
LEMMA WriteKeeps ==
  ASSUME KnowledgeAssumption, KnowledgeInv, NEW i \in Ingestions, WriteRow(i)
  PROVE  KnowledgeInv'
<1> DEFINE ing == ingestion[i]
           doc == ing.docs[ing.next]
           key == CveIdOf(doc)
           stage == IF ing.next = Len(ing.docs) THEN "embedding" ELSE "finding"
           next == ing.next + 1
           inserted == ing.inserted + IF ing.found THEN 0 ELSE 1
           updated == ing.updated + IF ing.found THEN 1 ELSE 0
           rows == [c \in DOMAIN cveRows \cup {key} |-> IF c = key THEN RowOf(doc) ELSE cveRows[c]]
           new == [ing EXCEPT !.next = next, !.stage = stage, !.tries = 0, !.inserted = inserted, !.updated = updated]
<1>1. /\ ing \in Jobs /\ Walks(ing, feed) /\ Counts(ing) /\ HasRows(ing, cveRows) /\ ing.stage = "writing" /\ Running(i)
  BY DEF KnowledgeInv, BaseTypes, JobInv, WriteRow, Running
<1>2. /\ feed' = feed /\ collection' = collection /\ revisions' = revisions /\ points' = points
      /\ knowledgeFaults' = knowledgeFaults
  BY DEF WriteRow
<1>3. knowledgeFaults' \in 0..MaxKnowledgeFaults
  BY <1>2, FaultCounts
<1>4. \/ ingestion' = [ingestion EXCEPT ![i] = [ing EXCEPT !.stage = "failed"]] /\ cveRows' = cveRows
      \/ ingestion' = [ingestion EXCEPT ![i] = new] /\ cveRows' = rows
  <2>1. new = [ing EXCEPT !.next = @ + 1, !.stage = stage, !.tries = 0, !.inserted = @ + IF ing.found THEN 0 ELSE 1,
                          !.updated = @ + IF ing.found THEN 1 ELSE 0]
    BY <1>1 DEF Jobs
  <2> HIDE DEF new
  <2> QED BY <2>1 DEF WriteRow, Settle
<1>5. CASE ingestion' = [ingestion EXCEPT ![i] = [ing EXCEPT !.stage = "failed"]] /\ cveRows' = cveRows
  <2>1. PICK other : other = [ingestion[i] EXCEPT !.stage = "failed"]
    OBVIOUS
  <2>2. ingestion' = [ingestion EXCEPT ![i] = other]
    BY <1>5, <2>1
  <2>3. /\ other \in Jobs /\ other.alone = ingestion[i].alone /\ other.stage # "idle"
        /\ Walks(other, feed) /\ Counts(other) /\ HasRows(other, cveRows) /\ HasPoints(other, points)
    BY <1>1, <2>1, GivesUp
  <2> QED BY <1>1, <1>2, <1>3, <1>5, <2>2, <2>3, QuietlyMoves
<1>6. CASE ingestion' = [ingestion EXCEPT ![i] = new] /\ cveRows' = rows
  <2>1. /\ ing.docs \in Seq(AllDocs) /\ Len(ing.docs) \in Nat /\ ing.next \in 1..Len(ing.docs)
        /\ ing.inserted \in Nat /\ ing.updated \in Nat /\ ing.found \in BOOLEAN /\ ing.alone \in BOOLEAN
    <3>1. ing.docs \in Seq(AllDocs) /\ ing.next \in Nat
      BY <1>1 DEF Jobs
    <3>2. ing.next \in 1..Len(ing.docs) + 1 /\ ing.next <= Len(ing.docs)
      BY <1>1 DEF Counts
    <3> QED BY <1>1, <3>1, <3>2 DEF Jobs
  <2>2. ing.inserted + ing.updated = ing.next - 1
    BY <1>1 DEF Counts
  <2>3. inserted \in Nat /\ updated \in Nat /\ inserted + updated = ing.next /\ next \in Nat /\ next - 1 = ing.next
    <3>1. CASE ing.found = TRUE
      BY <2>1, <2>2, <3>1
    <3>2. CASE ing.found = FALSE
      BY <2>1, <2>2, <3>2
    <3> QED BY <2>1, <3>1, <3>2
  <2>4. stage \in {"embedding", "finding"} /\ (stage = "embedding" => next = Len(ing.docs) + 1)
        /\ (stage = "finding" => next <= Len(ing.docs)) /\ next \in 1..Len(ing.docs) + 1
    BY <2>1
  <2> HIDE DEF ing, inserted, updated, stage
  <2>5. new \in Jobs
    <3> HIDE DEF next
    <3> QED BY <1>1, <2>3, <2>4 DEF Jobs, Stages
  <2>6. /\ new.docs = ing.docs /\ new.cap = ing.cap /\ new.calm = ing.calm /\ new.listed = ing.listed
        /\ new.start = ing.start /\ new.hasMore = ing.hasMore /\ new.next = next /\ new.inserted = inserted
        /\ new.updated = updated /\ new.alone = ing.alone /\ new.stage = stage
    BY <1>1 DEF Jobs
  <2> HIDE DEF new
  <2>7. Walks(new, feed)
    BY <1>1, <2>4, <2>6 DEF Walks
  <2>8. Counts(new)
    <3> HIDE DEF next
    <3> QED BY <2>1, <2>3, <2>4, <2>6 DEF Counts
  <2>9. doc \in AllDocs
    BY <2>1
  <2> HIDE DEF doc
  <2>10. DOMAIN rows = DOMAIN cveRows \cup {key} /\ rows[key] = RowOf(doc)
         /\ \A c \in DOMAIN cveRows : c # key => rows[c] = cveRows[c]
    OBVIOUS
  <2>11. HasRows(new, rows)
    <3>1. 1..next - 1 = 1..ing.next - 1 \cup {ing.next}
      BY <2>1
    <3>2. ASSUME NEW n \in 1..next - 1 PROVE CveIdOf(ing.docs[n]) \in DOMAIN rows
      <4>1. CASE n = ing.next
        BY <2>10, <4>1 DEF doc
      <4>2. CASE n # ing.next
        <5> n \in 1..ing.next - 1
          BY <3>1, <4>2
        <5> QED BY <1>1, <2>10 DEF HasRows
      <4> QED BY <4>1, <4>2
    <3>3. ASSUME ing.alone, NEW n \in 1..next - 1, LastOfId(ing.docs, n, next - 1)
          PROVE  rows[CveIdOf(ing.docs[n])] = RowOf(ing.docs[n])
      <4>1. CASE n = ing.next
        BY <2>10, <4>1 DEF doc
      <4>2. CASE n # ing.next
        <5>1. n \in 1..ing.next - 1 /\ n \in 1..Len(ing.docs) /\ ing.next \in 1..next - 1 /\ ing.next > n
          BY <2>1, <3>1, <4>2
        <5>2. doc.id # ing.docs[n].id
          BY <3>3, <5>1 DEF LastOfId, doc
        <5>3. ing.docs[n] \in AllDocs
          BY <2>1, <5>1
        <5>4. (ing.docs[n] \in NvdDocs /\ doc \in NvdDocs) \/ (ing.docs[n] \in OnShelf /\ doc \in OnShelf)
          BY <1>1, <2>1, <5>1 DEF Walks, AllIn, doc
        <5>5. CveIdOf(ing.docs[n]) # key
          BY <2>9, <5>2, <5>3, <5>4, OneKey
        <5>6. LastOfId(ing.docs, n, ing.next - 1)
          BY <3>1, <3>3 DEF LastOfId
        <5>7. /\ CveIdOf(ing.docs[n]) \in DOMAIN cveRows
              /\ cveRows[CveIdOf(ing.docs[n])] = RowOf(ing.docs[n])
          BY <1>1, <3>3, <5>1, <5>6 DEF HasRows
        <5> QED BY <2>10, <5>5, <5>7
      <4> QED BY <4>1, <4>2
    <3> HIDE DEF next, rows
    <3> QED BY <2>6, <3>2, <3>3 DEF HasRows
  <2>12. HasPoints(new, points)
    BY <2>4, <2>6 DEF HasPoints
  <2>13. \A j \in Ingestions \ {i} : HasRows(ingestion[j], rows) /\ HasPoints(ingestion[j], points)
    <3> HIDE DEF rows
    <3> QED BY <1>1, <2>10, OthersKeep
  <2>14. RowsInv'
    <3> SUFFICES ASSUME NEW c \in DOMAIN rows PROVE \E e \in AllDocs : CveIdOf(e) = c /\ rows[c] = RowOf(e)
      BY <1>6 DEF RowsInv
    <3>1. CASE c = key
      BY <2>9, <2>10, <3>1
    <3>2. CASE c # key
      <4>1. c \in DOMAIN cveRows /\ rows[c] = cveRows[c]
        BY <2>10, <3>2
      <4> QED BY <4>1 DEF KnowledgeInv, RowsInv
    <3> QED BY <3>1, <3>2
  <2>15. PointsInv'
    <3>1. DOMAIN cveRows \subseteq DOMAIN cveRows'
      BY <1>6
    <3> QED BY <1>2, <3>1 DEF KnowledgeInv, PointsInv
  <2>16. new.alone = ingestion[i].alone /\ new.stage # "idle"
    BY <2>4, <2>6 DEF ing
  <2>17. HasRows(new, cveRows') /\ HasPoints(new, points')
         /\ \A j \in Ingestions \ {i} : HasRows(ingestion[j], cveRows') /\ HasPoints(ingestion[j], points')
    BY <1>2, <1>6, <2>11, <2>12, <2>13
  <2>18. ingestion' = [ingestion EXCEPT ![i] = new]
    BY <1>6
  <2> HIDE DEF rows, next
  <2> QED BY <1>1, <1>2, <1>3, <2>5, <2>7, <2>8, <2>14, <2>15, <2>16, <2>17, <2>18, OneMoves
<1> QED BY <1>4, <1>5, <1>6

(* The vectors of the whole batch, or of fewer of its documents.           *)
LEMMA EmbedKeeps ==
  ASSUME KnowledgeAssumption, KnowledgeInv, NEW i \in Ingestions, EmbedAll(i)
  PROVE  KnowledgeInv'
<1> DEFINE ing == ingestion[i]
<1>1. /\ ing \in Jobs /\ Walks(ing, feed) /\ Counts(ing) /\ HasRows(ing, cveRows) /\ ing.stage = "embedding" /\ Running(i)
  BY DEF KnowledgeInv, BaseTypes, JobInv, EmbedAll, Running
<1>2. ing.docs \in Seq(AllDocs) /\ Len(ing.docs) \in Nat
  BY <1>1 DEF Jobs
<1>3. PICK n \in 1..Len(ing.docs) :
        /\ n < Len(ing.docs) => Fault
        /\ n = Len(ing.docs) => knowledgeFaults' = knowledgeFaults
        /\ ingestion' = [ingestion EXCEPT ![i] = [ing EXCEPT !.vectors = Vectors(ing.docs, n), !.stage = "pushing"]]
  BY DEF EmbedAll, Settle
<1>4. /\ feed' = feed /\ collection' = collection /\ revisions' = revisions /\ cveRows' = cveRows /\ points' = points
  BY DEF EmbedAll, BaseUntouched
<1>5. knowledgeFaults' \in 0..MaxKnowledgeFaults
  <2>1. n < Len(ing.docs) \/ n = Len(ing.docs)
    BY <1>2
  <2> QED BY <1>3, <2>1, FaultCounts
<1> DEFINE vectors == Vectors(ing.docs, n)
           new == [ing EXCEPT !.vectors = vectors, !.stage = "pushing"]
<1>6. ingestion' = [ingestion EXCEPT ![i] = new]
  BY <1>3
<1> HIDE DEF ing
<1>7. Len(vectors) = n /\ vectors \in Seq({d.text : d \in AllDocs}) /\ \A k \in 1..n : vectors[k] = ing.docs[k].text
  <2>1. \A k \in 1..n : ing.docs[k] \in AllDocs
    BY <1>2
  <2> QED BY <1>2, <2>1 DEF Vectors
<1> HIDE DEF vectors
<1>8. new \in Jobs
  BY <1>1, <1>7 DEF Jobs, Stages
<1>9. /\ new.docs = ing.docs /\ new.cap = ing.cap /\ new.calm = ing.calm /\ new.listed = ing.listed
      /\ new.start = ing.start /\ new.hasMore = ing.hasMore /\ new.next = ing.next /\ new.inserted = ing.inserted
      /\ new.updated = ing.updated /\ new.alone = ing.alone /\ new.stage = "pushing" /\ new.vectors = vectors
  BY <1>1 DEF Jobs
<1> HIDE DEF new
<1>10. Walks(new, feed)
  BY <1>1, <1>9 DEF Walks
<1>11. Counts(new)
  <2>1. n <= Len(ing.docs)
    BY <1>2
  <2> QED BY <1>1, <1>7, <1>9, <2>1 DEF Counts
<1>12. HasRows(new, cveRows) /\ HasPoints(new, points)
  BY <1>1, <1>9 DEF HasRows, HasPoints
<1>13. new.alone = ingestion[i].alone /\ new.stage # "idle"
  BY <1>9 DEF ing
<1> QED BY <1>1, <1>4, <1>5, <1>6, <1>8, <1>10, <1>11, <1>12, <1>13, QuietlyMoves

(* What a push leaves: of documents with one id the last.                  *)
LEMMA PushedIs ==
  ASSUME KnowledgeInv, NEW docs \in Seq(AllDocs), NEW vectors, \A n \in 1..Len(docs) : vectors[n] = docs[n].text,
         \A n \in 1..Len(docs) : CveIdOf(docs[n]) \in DOMAIN cveRows
  PROVE  /\ \A d \in DOMAIN Pushed(docs, vectors) : \E e \in AllDocs :
              e.id = d /\ Pushed(docs, vectors)[d].payload = PayloadOf(e) /\ CveIdOf(e) \in DOMAIN cveRows
         /\ \A n \in 1..Len(docs) : LastOfId(docs, n, Len(docs)) =>
              /\ docs[n].id \in DOMAIN Pushed(docs, vectors)
              /\ Pushed(docs, vectors)[docs[n].id] = PointOf(docs[n], docs[n].text)
<1> DEFINE Named(d) == {n \in 1..Len(docs) : docs[n].id = d}
           Final(d) == CHOOSE n \in Named(d) : \A k \in Named(d) : k <= n
           pushed == Pushed(docs, vectors)
<1>1. Len(docs) \in Nat /\ \A n \in 1..Len(docs) : docs[n] \in AllDocs
  OBVIOUS
<1>2. DOMAIN pushed = DOMAIN points \cup {docs[n].id : n \in 1..Len(docs)}
      /\ \A d \in DOMAIN pushed : pushed[d] = IF Named(d) = {} THEN points[d] ELSE PointOf(docs[Final(d)], vectors[Final(d)])
  BY DEF Pushed
<1>3. ASSUME NEW d, Named(d) # {}
      PROVE  Final(d) \in 1..Len(docs) /\ docs[Final(d)].id = d /\ \A k \in 1..Len(docs) : docs[k].id = d => k <= Final(d)
  <2>1. Named(d) \subseteq 1..Len(docs) /\ \A k \in 1..Len(docs) : docs[k].id = d => k \in Named(d)
    OBVIOUS
  <2>2. \A k \in Named(d) : docs[k].id = d
    OBVIOUS
  <2> HIDE DEF Named
  <2>3. \E n \in Named(d) : \A k \in Named(d) : k <= n
    BY <1>1, <1>3, <2>1, GreatestOf
  <2>4. Final(d) \in Named(d) /\ \A k \in Named(d) : k <= Final(d)
    BY <2>3
  <2> HIDE DEF Last
  <2> QED BY <2>1, <2>2, <2>4
<1> HIDE DEF pushed, Final
<1>4. ASSUME NEW d \in DOMAIN pushed
      PROVE  \E e \in AllDocs : e.id = d /\ pushed[d].payload = PayloadOf(e) /\ CveIdOf(e) \in DOMAIN cveRows
  <2>1. CASE Named(d) = {}
    <3>1. \A n \in 1..Len(docs) : docs[n].id # d
      BY <2>1
    <3>2. d \in DOMAIN points
      BY <1>2, <3>1
    <3>3. pushed[d] = points[d]
      BY <1>2, <2>1
    <3> QED BY <3>2, <3>3 DEF KnowledgeInv, PointsInv
  <2>2. CASE Named(d) # {}
    <3> DEFINE e == docs[Final(d)]
    <3>1. Final(d) \in 1..Len(docs) /\ e.id = d
      BY <1>3, <2>2
    <3>2. e \in AllDocs /\ CveIdOf(e) \in DOMAIN cveRows
      BY <1>1, <3>1
    <3>3. pushed[d] = PointOf(e, vectors[Final(d)])
      BY <1>2, <2>2
    <3> HIDE DEF e
    <3>4. pushed[d].payload = PayloadOf(e)
      BY <3>3 DEF PointOf
    <3> QED BY <3>1, <3>2, <3>4
  <2> QED BY <2>1, <2>2
<1>5. ASSUME NEW n \in 1..Len(docs), LastOfId(docs, n, Len(docs))
      PROVE  docs[n].id \in DOMAIN pushed /\ pushed[docs[n].id] = PointOf(docs[n], docs[n].text)
  <2> DEFINE d == docs[n].id
  <2>1. d \in DOMAIN pushed
    BY <1>2
  <2>2. n \in Named(d)
    OBVIOUS
  <2>3. Named(d) # {}
    BY <2>2
  <2>4. Final(d) \in 1..Len(docs) /\ docs[Final(d)].id = d /\ n <= Final(d)
    <3> HIDE DEF Named
    <3> QED BY <1>3, <2>3
  <2>5. ~(Final(d) > n)
    BY <1>5, <2>4 DEF LastOfId
  <2>6. Final(d) = n
    BY <1>1, <2>4, <2>5
  <2>7. pushed[d] = PointOf(docs[n], vectors[n])
    BY <1>2, <2>1, <2>3, <2>6
  <2> QED BY <2>1, <2>7
<1> QED BY <1>4, <1>5 DEF pushed

LEMMA PushReady ==
  ASSUME KnowledgeInv, NEW i \in Ingestions, ingestion[i].stage = "pushing"
  PROVE  /\ ingestion[i].docs \in Seq(AllDocs) /\ Len(ingestion[i].vectors) <= Len(ingestion[i].docs)
         /\ Len(ingestion[i].vectors) \in Nat /\ Len(ingestion[i].docs) \in Nat
         /\ Len(ingestion[i].vectors) = Len(ingestion[i].docs) =>
              \A n \in 1..Len(ingestion[i].docs) : ingestion[i].vectors[n] = ingestion[i].docs[n].text
         /\ \A n \in 1..Len(ingestion[i].docs) : CveIdOf(ingestion[i].docs[n]) \in DOMAIN cveRows
<1> DEFINE ing == ingestion[i]
<1>1. ing \in Jobs /\ Counts(ing) /\ HasRows(ing, cveRows) /\ ing.stage = "pushing"
  BY DEF KnowledgeInv, BaseTypes, JobInv
<1> HIDE DEF ing
<1>2. ing.docs \in Seq(AllDocs) /\ Len(ing.docs) \in Nat /\ Len(ing.vectors) \in Nat
  BY <1>1 DEF Jobs
<1>3. ing.next = Len(ing.docs) + 1 /\ ing.next - 1 = Len(ing.docs)
  BY <1>1, <1>2 DEF Counts
<1>4. \A n \in 1..Len(ing.docs) : CveIdOf(ing.docs[n]) \in DOMAIN cveRows
  BY <1>1, <1>3 DEF HasRows
<1>5. /\ Len(ing.vectors) <= Len(ing.docs)
      /\ \A k \in 1..Len(ing.vectors) : ing.vectors[k] = ing.docs[k].text
  BY <1>1 DEF Counts
<1> QED BY <1>2, <1>4, <1>5 DEF ing

LEMMA UpsertKeeps ==
  ASSUME KnowledgeAssumption, KnowledgeInv, NEW i \in Ingestions, UpsertPoints(i)
  PROVE  KnowledgeInv'
<1> DEFINE ing == ingestion[i]
           embedded == Len(ing.vectors)
           new == [ing EXCEPT !.stage = "done", !.embedded = embedded]
<1>1. /\ ing \in Jobs /\ Walks(ing, feed) /\ Counts(ing) /\ HasRows(ing, cveRows) /\ ing.stage = "pushing" /\ Running(i)
  BY DEF KnowledgeInv, BaseTypes, JobInv, UpsertPoints, Running
<1>2. /\ feed' = feed /\ collection' = collection /\ revisions' = revisions /\ cveRows' = cveRows
      /\ knowledgeFaults' = knowledgeFaults
  BY DEF UpsertPoints
<1>3. knowledgeFaults' \in 0..MaxKnowledgeFaults
  BY <1>2, FaultCounts
<1>4. \/ ingestion' = [ingestion EXCEPT ![i] = [ing EXCEPT !.stage = "failed"]] /\ points' = points
      \/ /\ ~(Len(ing.vectors) < Len(ing.docs))
         /\ ingestion' = [ingestion EXCEPT ![i] = new] /\ points' = Pushed(ing.docs, ing.vectors)
  BY DEF UpsertPoints, Settle
<1>5. CASE ingestion' = [ingestion EXCEPT ![i] = [ing EXCEPT !.stage = "failed"]] /\ points' = points
  <2>1. PICK other : other = [ingestion[i] EXCEPT !.stage = "failed"]
    OBVIOUS
  <2>2. ingestion' = [ingestion EXCEPT ![i] = other]
    BY <1>5, <2>1
  <2>3. /\ other \in Jobs /\ other.alone = ingestion[i].alone /\ other.stage # "idle"
        /\ Walks(other, feed) /\ Counts(other) /\ HasRows(other, cveRows) /\ HasPoints(other, points)
    BY <1>1, <2>1, GivesUp
  <2> QED BY <1>1, <1>2, <1>3, <1>5, <2>2, <2>3, QuietlyMoves
<1>6. CASE /\ ~(Len(ing.vectors) < Len(ing.docs))
           /\ ingestion' = [ingestion EXCEPT ![i] = new] /\ points' = Pushed(ing.docs, ing.vectors)
  <2>1. /\ ing.docs \in Seq(AllDocs) /\ embedded = Len(ing.docs) /\ embedded \in Nat
        /\ \A n \in 1..Len(ing.docs) : ing.vectors[n] = ing.docs[n].text
        /\ \A n \in 1..Len(ing.docs) : CveIdOf(ing.docs[n]) \in DOMAIN cveRows
    BY <1>1, <1>6, PushReady
  <2>2. ingestion' = [ingestion EXCEPT ![i] = new]
    BY <1>6
  <2> HIDE DEF ing, embedded
  <2>3. new \in Jobs
    BY <1>1, <2>1 DEF Jobs, Stages
  <2>4. /\ new.docs = ing.docs /\ new.cap = ing.cap /\ new.calm = ing.calm /\ new.listed = ing.listed
        /\ new.start = ing.start /\ new.hasMore = ing.hasMore /\ new.next = ing.next /\ new.inserted = ing.inserted
        /\ new.updated = ing.updated /\ new.alone = ing.alone /\ new.stage = "done" /\ new.embedded = embedded
    BY <1>1 DEF Jobs
  <2> HIDE DEF new
  <2>5. Walks(new, feed)
    BY <1>1, <2>4 DEF Walks
  <2>6. Counts(new)
    BY <1>1, <2>1, <2>4 DEF Counts
  <2>7. HasRows(new, cveRows)
    BY <1>1, <2>4 DEF HasRows
  <2> DEFINE pushed == Pushed(ing.docs, ing.vectors)
  <2>8. /\ \A d \in DOMAIN pushed : \E e \in AllDocs :
             e.id = d /\ pushed[d].payload = PayloadOf(e) /\ CveIdOf(e) \in DOMAIN cveRows
        /\ \A n \in 1..Len(ing.docs) : LastOfId(ing.docs, n, Len(ing.docs)) =>
             ing.docs[n].id \in DOMAIN pushed /\ pushed[ing.docs[n].id] = PointOf(ing.docs[n], ing.docs[n].text)
    BY <2>1, PushedIs
  <2>9. points' = pushed
    BY <1>6
  <2> HIDE DEF pushed
  <2>10. HasPoints(new, points')
    BY <2>4, <2>8, <2>9 DEF HasPoints
  <2>11. PointsInv'
    BY <1>2, <2>8, <2>9 DEF PointsInv
  <2>12. RowsInv'
    BY <1>2 DEF KnowledgeInv, RowsInv
  <2>13. \A j \in Ingestions \ {i} : HasRows(ingestion[j], cveRows') /\ HasPoints(ingestion[j], points')
    BY <1>1, <1>2, OthersKeep
  <2>14. new.alone = ingestion[i].alone /\ new.stage # "idle"
    BY <2>4 DEF ing
  <2>15. HasRows(new, cveRows')
    BY <1>2, <2>7
  <2> QED BY <1>1, <1>2, <1>3, <2>2, <2>3, <2>5, <2>6, <2>10, <2>11, <2>12, <2>13, <2>14, <2>15, OneMoves
<1> QED BY <1>4, <1>5, <1>6

(* A push that is answered by an error may have been done.                 *)
LEMMA RefusalKeeps ==
  ASSUME KnowledgeAssumption, KnowledgeInv, NEW i \in Ingestions, UpsertFails(i)
  PROVE  KnowledgeInv'
<1> DEFINE ing == ingestion[i]
           pushed == Pushed(ing.docs, ing.vectors)
<1>1. ing.stage = "pushing" /\ Running(i)
  BY DEF UpsertFails, Running
<1>2. /\ feed' = feed /\ collection' = collection /\ revisions' = revisions /\ cveRows' = cveRows
      /\ Fault /\ points' \in {points, pushed} /\ Len(ing.vectors) = Len(ing.docs)
      /\ ingestion' = [ingestion EXCEPT ![i] = [ing EXCEPT !.stage = "failed"]]
  BY DEF UpsertFails, IngestFails, Settle
<1>3. knowledgeFaults' \in 0..MaxKnowledgeFaults
  BY <1>2, FaultCounts
<1>4. PICK new : new = [ingestion[i] EXCEPT !.stage = "failed"]
  OBVIOUS
<1>5. ingestion' = [ingestion EXCEPT ![i] = new]
  BY <1>2, <1>4
<1>6. new.stage = "failed"
  <2>1. ing \in Jobs
    BY DEF KnowledgeInv, BaseTypes
  <2> QED BY <1>4, <2>1 DEF Jobs
<1>7. /\ new \in Jobs /\ new.alone = ingestion[i].alone /\ new.stage # "idle"
      /\ Walks(new, feed) /\ Counts(new) /\ HasRows(new, cveRows)
  BY <1>1, <1>4, GivesUp
<1>8. HasPoints(new, points')
  BY <1>6 DEF HasPoints
<1>9. PointsInv'
  <2>1. CASE points' = points
    BY <1>2, <2>1 DEF KnowledgeInv, PointsInv
  <2>2. CASE points' = pushed
    <3>1. /\ ing.docs \in Seq(AllDocs)
          /\ \A n \in 1..Len(ing.docs) : ing.vectors[n] = ing.docs[n].text
          /\ \A n \in 1..Len(ing.docs) : CveIdOf(ing.docs[n]) \in DOMAIN cveRows
      BY <1>1, <1>2, PushReady
    <3> HIDE DEF ing
    <3>2. \A d \in DOMAIN pushed : \E e \in AllDocs :
             e.id = d /\ pushed[d].payload = PayloadOf(e) /\ CveIdOf(e) \in DOMAIN cveRows
      BY <3>1, PushedIs
    <3> HIDE DEF pushed
    <3> QED BY <1>2, <2>2, <3>2 DEF PointsInv
  <2> QED BY <1>2, <2>1, <2>2
<1>10. RowsInv' /\ HasRows(new, cveRows')
  BY <1>2, <1>7 DEF KnowledgeInv, RowsInv
<1>11. \A j \in Ingestions \ {i} : HasRows(ingestion[j], cveRows') /\ HasPoints(ingestion[j], points')
  BY <1>1, <1>2, OthersKeep
<1> QED BY <1>1, <1>2, <1>3, <1>5, <1>7, <1>8, <1>9, <1>10, <1>11, OneMoves

LEMMA CollectionKeeps ==
  ASSUME KnowledgeInv, EnsureCollection
  PROVE  KnowledgeInv'
BY DEF EnsureCollection, KnowledgeInv, BaseTypes, JobInv, SoloInv, RowsInv, PointsInv, Running

(* The list moves on: who walks it is calm no longer.                      *)
LEMMA ReviseKeeps ==
  ASSUME KnowledgeAssumption, KnowledgeInv, ReviseFeed
  PROVE  KnowledgeInv'
<1>1. /\ collection' = collection /\ cveRows' = cveRows /\ points' = points /\ knowledgeFaults' = knowledgeFaults
      /\ feed' \in Feeds /\ revisions < MaxRevisions /\ revisions' = revisions + 1
  BY DEF ReviseFeed, BaseUntouched
<1>2. ASSUME NEW i \in Ingestions
      PROVE  /\ ingestion'[i] \in Jobs /\ ingestion'[i].alone = ingestion[i].alone
             /\ ingestion'[i].stage = ingestion[i].stage
             /\ Walks(ingestion'[i], feed') /\ Counts(ingestion'[i])
             /\ HasRows(ingestion'[i], cveRows) /\ HasPoints(ingestion'[i], points)
  <2> DEFINE ing == ingestion[i]
             new == [ing EXCEPT !.calm = FALSE]
  <2>1. ing \in Jobs /\ Walks(ing, feed) /\ Counts(ing) /\ HasRows(ing, cveRows) /\ HasPoints(ing, points)
    BY DEF KnowledgeInv, BaseTypes, JobInv
  <2>2. ingestion'[i] = IF ing.stage = "fetching" THEN new ELSE ing
    BY DEF ReviseFeed
  <2>3. CASE ing.stage # "fetching"
    <3>1. Walks(ing, feed')
      BY <2>1, <2>3 DEF Walks
    <3>2. ingestion'[i] = ing
      BY <2>2, <2>3
    <3> QED BY <2>1, <3>1, <3>2
  <2>4. CASE ing.stage = "fetching"
    <3>1. ingestion'[i] = new
      BY <2>2, <2>4
    <3>2. ing.stage = ingestion[i].stage /\ ing.alone = ingestion[i].alone
      OBVIOUS
    <3> HIDE DEF ing
    <3>3. new \in Jobs
      BY <2>1 DEF Jobs
    <3>4. /\ new.docs = ing.docs /\ new.cap = ing.cap /\ new.calm = FALSE /\ new.listed = ing.listed
          /\ new.start = ing.start /\ new.hasMore = ing.hasMore /\ new.next = ing.next /\ new.inserted = ing.inserted
          /\ new.updated = ing.updated /\ new.alone = ing.alone /\ new.stage = ing.stage /\ new.embedded = ing.embedded
      BY <2>1 DEF Jobs
    <3> HIDE DEF new
    <3>5. Walks(new, feed')
      BY <2>1, <3>4 DEF Walks
    <3>6. Counts(new)
      BY <2>1, <2>4, <3>4 DEF Counts
    <3>7. HasRows(new, cveRows) /\ HasPoints(new, points)
      BY <2>1, <3>4 DEF HasRows, HasPoints
    <3> QED BY <3>1, <3>2, <3>3, <3>4, <3>5, <3>6, <3>7
  <2> QED BY <2>3, <2>4
<1>3. BaseTypes'
  <2>1. ingestion' = [i \in Ingestions |-> ingestion'[i]]
    BY DEF ReviseFeed
  <2>2. ingestion' \in [Ingestions -> Jobs]
    BY <1>2, <2>1
  <2>3. revisions' \in 0..MaxRevisions
    BY <1>1 DEF KnowledgeAssumption, KnowledgeInv, BaseTypes
  <2> QED BY <1>1, <2>2, <2>3 DEF KnowledgeInv, BaseTypes
<1>4. JobInv'
  BY <1>1, <1>2 DEF JobInv
<1>5. SoloInv'
  <2> SUFFICES ASSUME NEW a \in Ingestions, NEW b \in Ingestions, a # b, ingestion'[a].alone, ingestion'[a].stage # "idle",
                      Running(b)'
               PROVE  FALSE
    BY DEF SoloInv
  <2>1. ingestion[a].alone /\ ingestion[a].stage # "idle"
    BY <1>2
  <2>2. Running(b)
    BY <1>2 DEF Running
  <2> QED BY <2>1, <2>2 DEF KnowledgeInv, SoloInv
<1>6. RowsInv' /\ PointsInv'
  BY <1>1 DEF KnowledgeInv, RowsInv, PointsInv
<1> QED BY <1>3, <1>4, <1>5, <1>6 DEF KnowledgeInv

LEMMA KnowledgeBegins == KnowledgeAssumption /\ KnowledgeInit => KnowledgeInv
<1> SUFFICES ASSUME KnowledgeAssumption, KnowledgeInit PROVE KnowledgeInv
  OBVIOUS
<1>1. /\ feed \in Feeds /\ collection \in BOOLEAN /\ cveRows = <<>> /\ points = <<>> /\ revisions = 0 /\ knowledgeFaults = 0
      /\ ingestion = [i \in Ingestions |-> Unbegun]
  BY DEF KnowledgeInit
<1>2. DOMAIN cveRows = {} /\ DOMAIN points = {}
  BY <1>1
<1>3. Walks(Unbegun, feed) /\ Counts(Unbegun) /\ HasRows(Unbegun, cveRows) /\ HasPoints(Unbegun, points)
  <2>1. Uncapped \in Nat /\ Len(Unbegun.docs) = 0
    BY UnbegunIs DEF Uncapped
  <2>2. Walks(Unbegun, feed)
    BY UnbegunIs, <2>1 DEF Walks, AllIn
  <2>3. Counts(Unbegun)
    BY UnbegunIs, <2>1 DEF Counts
  <2>4. HasRows(Unbegun, cveRows) /\ HasPoints(Unbegun, points)
    BY UnbegunIs DEF HasRows, HasPoints
  <2> QED BY <2>2, <2>3, <2>4
<1>4. BaseTypes
  BY <1>1, UnbegunIs DEF BaseTypes, KnowledgeAssumption
<1>5. JobInv
  BY <1>1, <1>3 DEF JobInv
<1>6. SoloInv
  BY <1>1, UnbegunIs DEF SoloInv
<1> QED BY <1>2, <1>4, <1>5, <1>6 DEF KnowledgeInv, RowsInv, PointsInv

LEMMA KnowledgeKeeps == KnowledgeAssumption /\ KnowledgeInv /\ [KnowledgeNext]_knowledgeVars => KnowledgeInv'
<1> SUFFICES ASSUME KnowledgeAssumption, KnowledgeInv, [KnowledgeNext]_knowledgeVars PROVE KnowledgeInv'
  OBVIOUS
<1>1. ASSUME NEW i \in Ingestions, BeginIngestion(i) PROVE KnowledgeInv'
  BY <1>1, BeginKeeps
<1>2. ASSUME NEW i \in Ingestions, FetchPage(i) PROVE KnowledgeInv'
  BY <1>2, FetchKeeps
<1>3. ASSUME NEW i \in Ingestions, PageFails(i) \/ RowFails(i) \/ EmbedFails(i) PROVE KnowledgeInv'
  BY <1>3, TroubleKeeps
<1>4. ASSUME NEW i \in Ingestions, FindRow(i) PROVE KnowledgeInv'
  BY <1>4, FindKeeps
<1>5. ASSUME NEW i \in Ingestions, WriteRow(i) PROVE KnowledgeInv'
  BY <1>5, WriteKeeps
<1>6. ASSUME NEW i \in Ingestions, EmbedAll(i) PROVE KnowledgeInv'
  BY <1>6, EmbedKeeps
<1>7. ASSUME NEW i \in Ingestions, UpsertPoints(i) PROVE KnowledgeInv'
  BY <1>7, UpsertKeeps
<1>8. ASSUME NEW i \in Ingestions, UpsertFails(i) PROVE KnowledgeInv'
  BY <1>8, RefusalKeeps
<1>9. CASE EnsureCollection
  BY <1>9, CollectionKeeps
<1>10. CASE ReviseFeed
  BY <1>10, ReviseKeeps
<1>11. CASE UNCHANGED knowledgeVars
  BY <1>11 DEF knowledgeVars, KnowledgeInv, BaseTypes, JobInv, SoloInv, RowsInv, PointsInv, Running
<1> QED BY <1>1, <1>2, <1>3, <1>4, <1>5, <1>6, <1>7, <1>8, <1>9, <1>10, <1>11 DEF KnowledgeNext

(* The types of the knowledge base hold whatever is ingested, in whatever  *)
(* pages, under whatever faults.                                           *)
THEOREM KnowledgeTypes == KnowledgeSpec => []KnowledgeTypeOK
<1>1. KnowledgeInit => KnowledgeInv
  BY KnowledgeBegins, KnowledgeAssumption
<1>2. KnowledgeInv /\ [KnowledgeNext]_knowledgeVars => KnowledgeInv'
  BY KnowledgeKeeps, KnowledgeAssumption
<1>3. KnowledgeInv => KnowledgeTypeOK
  BY InvTypes, KnowledgeAssumption
<1> QED BY <1>1, <1>2, <1>3, PTL DEF KnowledgeSpec

(* Rows and points of ingestions that run beside each other, fail half way *)
(* and are started again stay fit for one another.                         *)
THEOREM KnowledgeHolds == KnowledgeSpec => []KnowledgeIsWhole
<1>1. KnowledgeInit => KnowledgeInv
  BY KnowledgeBegins, KnowledgeAssumption
<1>2. KnowledgeInv /\ [KnowledgeNext]_knowledgeVars => KnowledgeInv'
  BY KnowledgeKeeps, KnowledgeAssumption
<1>3. KnowledgeInv => KnowledgeIsWhole
  BY InvIsWhole, KnowledgeAssumption
<1> QED BY <1>1, <1>2, <1>3, PTL DEF KnowledgeSpec
=============================================================================
