---------------------- MODULE DecisionGenerationProofs ----------------------
(***************************************************************************)
(* Proofs about DecisionGeneration for any number of requests, snapshots,  *)
(* retries and attempts.                                                   *)
(***************************************************************************)
EXTENDS DecisionGeneration, FiniteSetTheorems, TLAPS

\* A request that was given a lease and has not ended, whether or not the
\* lease is still its own.
Leased(m) == step[m] \in {"analyzing", "persisting", "releasing"}

\* A fence token is given out once, and every takeover counts as an attempt.
FencesStand ==
  /\ \A i \in Inputs : fence[i] = attempts[i]
  /\ \A m \in Requests : Leased(m) => token[m] <= fence[input[m]]
  /\ \A m, n \in Requests :
       Leased(m) /\ Leased(n) /\ input[m] = input[n] /\ token[m] = token[n] => m = n

\* A request that is about to write has something to write.
AnalysisIsDone == \A m \in Requests : step[m] = "persisting" => analysis[m] # "none"

\* The retries a request skipped had fallen back, and still have.
SkippedFellBack ==
  \A m \in Requests : \A k \in 0 .. MaxRetries :
    k < input[m][2] => brief[<<input[m][1], k>>] = "fallback"

\* The inductive invariant.
Inv ==
  /\ TypeOK
  /\ FencesStand
  /\ AnalysisIsDone
  /\ CompletedHasBrief
  /\ OneAcceptedBrief
  /\ SkippedFellBack

-----------------------------------------------------------------------------

USE MaxSnapshotAssumption, MaxRetriesAssumption, MaxAttemptsAssumption DEF Analyses, Leased

\* An input is a snapshot and a retry number.
LEMMA InputParts ==
  /\ <<1, 0>> \in Inputs /\ <<1, 0>>[1] = 1 /\ <<1, 0>>[2] = 0
  /\ 1 \in Snapshots
  /\ \A i \in Inputs : i[1] \in Snapshots /\ i[2] \in 0 .. MaxRetries /\ i = <<i[1], i[2]>>
  /\ \A s \in Snapshots, n \in 0 .. MaxRetries :
       <<s, n>> \in Inputs /\ <<s, n>>[1] = s /\ <<s, n>>[2] = n
BY DEF Inputs, Snapshots

\* No request and no row is there before the first generation.
LEMMA InitInv == Init => Inv
<1>. SUFFICES ASSUME Init PROVE Inv
  OBVIOUS
<1>. USE InputParts
<1>1. TypeOK
  BY DEF Init, TypeOK
<1>2. FencesStand /\ AnalysisIsDone /\ CompletedHasBrief
  BY DEF Init, FencesStand, AnalysisIsDone, CompletedHasBrief
<1>3. OneAcceptedBrief
  BY DEF Init, OneAcceptedBrief
<1>4. SkippedFellBack
  BY DEF Init, SkippedFellBack
<1>. QED
  BY <1>1, <1>2, <1>3, <1>4 DEF Inv

\* Nothing is asked of a request's lease and analysis once it has left.
LEMMA LeaveTypes ==
  ASSUME TypeOK, NEW m \in Requests, Leave(m)
  PROVE  /\ step' \in [Requests -> {"idle", "acquiring", "analyzing", "persisting", "releasing"}]
         /\ input' \in [Requests -> Inputs]
         /\ token' \in [Requests -> 0 .. MaxAttempts]
         /\ analysis' \in [Requests -> Analyses \union {"none"}]
<1>. 0 \in 0 .. MaxAttempts
  OBVIOUS
<1>1. step' \in [Requests -> {"idle", "acquiring", "analyzing", "persisting", "releasing"}]
  BY DEF TypeOK, Leave
<1>2. input' \in [Requests -> Inputs]
  BY InputParts DEF TypeOK, Leave
<1>3. token' \in [Requests -> 0 .. MaxAttempts]
  BY DEF TypeOK, Leave
<1>4. analysis' \in [Requests -> Analyses \union {"none"}]
  BY DEF TypeOK, Leave
<1>. QED
  BY <1>1, <1>2, <1>3, <1>4

\* Who has left holds no lease and has skipped no retry.
LEMMA LeaveKeeps ==
  ASSUME Inv, NEW m \in Requests, Leave(m), UNCHANGED <<fence, attempts>>,
         \A i \in Inputs : brief[i] # "none" => brief'[i] = brief[i]
  PROVE  FencesStand' /\ AnalysisIsDone' /\ SkippedFellBack'
<1>. USE DEF Inv, TypeOK, Leave
<1>1. FencesStand'
  BY DEF FencesStand
<1>2. AnalysisIsDone'
  BY DEF AnalysisIsDone
<1>3. SkippedFellBack'
  <2>. SUFFICES ASSUME NEW n \in Requests, NEW k \in 0 .. MaxRetries, k < input'[n][2]
                PROVE  brief'[<<input'[n][1], k>>] = "fallback"
    BY DEF SkippedFellBack
  <2>1. n # m /\ input'[n] = input[n]
    BY InputParts
  <2>2. brief[<<input[n][1], k>>] = "fallback"
    BY <2>1 DEF SkippedFellBack
  <2>3. <<input[n][1], k>> \in Inputs
    BY InputParts
  <2>. QED
    BY <2>1, <2>2, <2>3
<1>. QED
  BY <1>1, <1>2, <1>3

\* Steps in which a request ends or moves on and no row changes.
LEMMA QuietInv ==
  ASSUME Inv, NEW m \in Requests,
         AcquireRefused(m) \/ Analyze(m) \/ Fails(m) \/ PersistRefused(m) \/ Crash(m)
  PROVE  Inv'
<1>. UNCHANGED <<snapshot, covered, status, fence, attempts, expired, brief>>
  BY DEF AcquireRefused, Analyze, Fails, PersistRefused, Crash, row
<1>1. (CompletedHasBrief /\ OneAcceptedBrief)'
  BY DEF Inv, CompletedHasBrief, OneAcceptedBrief
<1>2. CASE Leave(m)
  <2>1. TypeOK'
    BY <1>2, LeaveTypes DEF Inv, TypeOK
  <2>. QED
    BY <1>1, <1>2, <2>1, LeaveKeeps DEF Inv
<1>3. CASE Analyze(m)
  <2>. USE <1>3 DEF Inv, Analyze
  <2>1. TypeOK'
    BY DEF TypeOK
  <2>2. FencesStand' /\ AnalysisIsDone'
    BY DEF TypeOK, FencesStand, AnalysisIsDone
  <2>3. SkippedFellBack'
    BY DEF SkippedFellBack
  <2>. QED
    BY <1>1, <2>1, <2>2, <2>3
<1>4. CASE Fails(m) \/ PersistRefused(m)
  <2>. USE <1>4 DEF Inv, Fails, PersistRefused
  <2>1. TypeOK'
    BY DEF TypeOK
  <2>2. FencesStand' /\ AnalysisIsDone'
    BY DEF TypeOK, FencesStand, AnalysisIsDone
  <2>3. SkippedFellBack'
    BY DEF SkippedFellBack
  <2>. QED
    BY <1>1, <2>1, <2>2, <2>3
<1>. QED
  BY <1>2, <1>3, <1>4 DEF AcquireRefused, Crash

\* The retries before the first open one hold briefs nobody reuses.
LEMMA LookupInv ==
  ASSUME Inv, NEW m \in Requests, Lookup(m)
  PROVE  Inv'
<1>. PICK r \in 0 .. MaxRetries :
       FirstOpen(snapshot, r) /\ input' = [input EXCEPT ![m] = <<snapshot, r>>]
  BY DEF Lookup
<1>. UNCHANGED <<snapshot, covered, status, fence, attempts, expired, brief, token, analysis>>
  BY DEF Lookup, row
<1>. step[m] = "idle" /\ step' = [step EXCEPT ![m] = "acquiring"]
  BY DEF Lookup
<1>0. snapshot \in Snapshots /\ <<snapshot, r>> \in Inputs
  BY InputParts DEF Inv, TypeOK
<1>1. TypeOK'
  BY <1>0 DEF Inv, TypeOK
<1>2. FencesStand' /\ AnalysisIsDone'
  BY DEF Inv, TypeOK, FencesStand, AnalysisIsDone
<1>3. (CompletedHasBrief /\ OneAcceptedBrief)'
  BY DEF Inv, CompletedHasBrief, OneAcceptedBrief
<1>4. SkippedFellBack'
  <2>. SUFFICES ASSUME NEW n \in Requests, NEW k \in 0 .. MaxRetries, k < input'[n][2]
                PROVE  brief[<<input'[n][1], k>>] = "fallback"
    BY DEF SkippedFellBack
  <2>1. CASE n = m
    <3>1. input'[n] = <<snapshot, r>>
      BY <2>1 DEF Inv, TypeOK
    <3>2. k \in 0 .. r - 1
      BY <3>1
    <3>3. brief[<<snapshot, k>>] # "none" /\ ~CanReuse(<<snapshot, k>>)
      BY <3>2 DEF FirstOpen
    <3>4. <<snapshot, k>> \in Inputs
      BY <1>0, InputParts
    <3>. QED
      BY <3>1, <3>3, <3>4 DEF Inv, TypeOK, CanReuse
  <2>2. CASE n # m
    BY <2>2 DEF Inv, TypeOK, SkippedFellBack
  <2>. QED
    BY <2>1, <2>2
<1>. QED
  BY <1>1, <1>2, <1>3, <1>4 DEF Inv

\* A lease is given out with a token above every token of its input.
LEMMA AcquireInv ==
  ASSUME Inv, NEW m \in Requests, Acquire(m)
  PROVE  Inv'
<1>. DEFINE i == input[m]
<1>0. i \in Inputs
  BY DEF Inv, TypeOK
<1>. step[m] = "acquiring" /\ step' = [step EXCEPT ![m] = "analyzing"]
  BY DEF Acquire
<1>. UNCHANGED <<snapshot, covered, brief, input, analysis>>
  BY DEF Acquire
<1>a. /\ status[i] # "completed"
      /\ status' = [status EXCEPT ![i] = "running"]
      /\ fence' = [fence EXCEPT ![i] = fence[i] + 1]
      /\ attempts' = [attempts EXCEPT ![i] = attempts[i] + 1]
      /\ expired' = [expired EXCEPT ![i] = FALSE]
      /\ token' = [token EXCEPT ![m] = fence[i] + 1]
  BY DEF Acquire, TakeOver
<1>b. fence[i] = attempts[i] /\ attempts[i] < MaxAttempts /\ attempts[i] \in 0 .. MaxAttempts
  BY <1>0 DEF Inv, TypeOK, FencesStand, Acquire, Exhausted
<1>c. fence[i] + 1 \in 0 .. MaxAttempts /\ attempts[i] + 1 \in 0 .. MaxAttempts
  BY <1>b
<1>. HIDE DEF i
<1>1. TypeOK'
  <2>1. status' \in [Inputs -> {"no_row", "running", "completed", "failed"}]
    BY <1>0, <1>a DEF Inv, TypeOK
  <2>2. fence' \in [Inputs -> 0 .. MaxAttempts] /\ attempts' \in [Inputs -> 0 .. MaxAttempts]
    BY <1>0, <1>a, <1>c DEF Inv, TypeOK
  <2>3. expired' \in [Inputs -> BOOLEAN]
    BY <1>0, <1>a DEF Inv, TypeOK
  <2>4. token' \in [Requests -> 0 .. MaxAttempts]
    BY <1>0, <1>a, <1>c DEF Inv, TypeOK
  <2>5. step' \in [Requests -> {"idle", "acquiring", "analyzing", "persisting", "releasing"}]
    BY DEF Inv, TypeOK
  <2>. QED
    BY <2>1, <2>2, <2>3, <2>4, <2>5 DEF Inv, TypeOK
<1>2. FencesStand'
  <2>1. ASSUME NEW j \in Inputs PROVE fence'[j] = attempts'[j] /\ fence[j] <= fence'[j]
    BY <1>0, <1>a, <1>b DEF Inv, TypeOK, FencesStand
  <2>2. ASSUME NEW n \in Requests, n # m, Leased(n)'
        PROVE  /\ Leased(n) /\ token'[n] = token[n] /\ input'[n] = input[n]
               /\ token[n] <= fence[input[n]] /\ input[n] \in Inputs
    BY <2>2, <1>a DEF Inv, TypeOK, FencesStand
  <2>3. token'[m] = fence[i] + 1 /\ input'[m] = i /\ fence'[i] = fence[i] + 1
    BY <1>0, <1>a DEF Inv, TypeOK, i
  <2>4. ASSUME NEW n \in Requests, Leased(n)' PROVE token'[n] <= fence'[input'[n]]
    <3>1. CASE n = m
      BY <3>1, <2>3, <1>c
    <3>2. CASE n # m
      <4>1. token[n] <= fence[input[n]] /\ input[n] \in Inputs /\ token'[n] = token[n] /\ input'[n] = input[n]
        BY <3>2, <2>2, <2>4
      <4>2. fence[input[n]] <= fence'[input[n]]
        BY <4>1, <2>1
      <4>3. token[n] \in Nat /\ fence[input[n]] \in Nat /\ fence'[input[n]] \in Nat
        BY <4>1, <1>1 DEF Inv, TypeOK
      <4>. QED
        BY <4>1, <4>2, <4>3
    <3>. QED
      BY <3>1, <3>2
  <2>5. ASSUME NEW n \in Requests, n # m, Leased(n)', input'[n] = i PROVE token'[n] # token'[m]
    <3>1. token'[n] = token[n] /\ token[n] <= fence[i]
      BY <2>5, <2>2
    <3>2. token[n] \in Nat /\ fence[i] \in Nat
      BY <1>0 DEF Inv, TypeOK
    <3>. QED
      BY <3>1, <3>2, <2>3
  <2>6. ASSUME NEW n \in Requests, NEW q \in Requests, Leased(n)', Leased(q)',
               input'[n] = input'[q], token'[n] = token'[q]
        PROVE  n = q
    <3>1. CASE n = m \/ q = m
      BY <3>1, <2>6, <2>5, <2>3
    <3>2. CASE n # m /\ q # m
      BY <3>2, <2>6, <2>2 DEF Inv, FencesStand
    <3>. QED
      BY <3>1, <3>2
  <2>. QED
    BY <2>1, <2>4, <2>6 DEF FencesStand
<1>3. AnalysisIsDone' /\ OneAcceptedBrief' /\ SkippedFellBack'
  BY DEF Inv, TypeOK, AnalysisIsDone, OneAcceptedBrief, SkippedFellBack
<1>4. CompletedHasBrief'
  BY <1>0, <1>a DEF Inv, TypeOK, CompletedHasBrief
<1>. QED
  BY <1>1, <1>2, <1>3, <1>4 DEF Inv

\* The holder writes the first brief of its input, after the retries before
\* it have fallen back.
LEMMA PersistInv ==
  ASSUME Inv, NEW m \in Requests, Persist(m)
  PROVE  Inv'
<1>. DEFINE i == input[m]
<1>0. i \in Inputs
  BY DEF Inv, TypeOK
<1>1. brief[i] = "none" /\ analysis[m] \in Analyses
  BY <1>0 DEF Inv, TypeOK, CompletedHasBrief, AnalysisIsDone, Persist, HoldsLease
<1>a. /\ Leave(m)
      /\ UNCHANGED <<snapshot, covered, fence, attempts>>
      /\ brief' = [brief EXCEPT ![i] = analysis[m]]
      /\ status' = [status EXCEPT ![i] = "completed"]
      /\ expired' = [expired EXCEPT ![i] = TRUE]
  BY <1>1 DEF Persist, WriteBrief
<1>b. \A k \in 0 .. MaxRetries : k < i[2] => brief[<<i[1], k>>] = "fallback"
  BY DEF Inv, SkippedFellBack
<1>. HIDE DEF i
<1>2. TypeOK'
  <2>1. brief' \in [Inputs -> Analyses \union {"none"}]
    BY <1>0, <1>1, <1>a DEF Inv, TypeOK
  <2>2. status' \in [Inputs -> {"no_row", "running", "completed", "failed"}]
    BY <1>0, <1>a DEF Inv, TypeOK
  <2>3. expired' \in [Inputs -> BOOLEAN]
    BY <1>0, <1>a DEF Inv, TypeOK
  <2>. QED
    BY <1>a, <2>1, <2>2, <2>3, LeaveTypes DEF Inv, TypeOK
<1>3. \A j \in Inputs : brief[j] # "none" => brief'[j] = brief[j]
  BY <1>0, <1>1, <1>a DEF Inv, TypeOK
<1>4. FencesStand' /\ AnalysisIsDone' /\ SkippedFellBack'
  BY <1>3, <1>a, LeaveKeeps
<1>5. CompletedHasBrief'
  BY <1>0, <1>1, <1>a DEF Inv, TypeOK, CompletedHasBrief
<1>6. OneAcceptedBrief'
  <2>. SUFFICES ASSUME NEW s \in Snapshots, NEW n \in 1 .. MaxRetries, brief'[<<s, n>>] # "none",
                       NEW k \in 0 .. n - 1
                PROVE  brief'[<<s, k>>] = "fallback"
    BY DEF OneAcceptedBrief
  <2>0. n \in 0 .. MaxRetries /\ k \in 0 .. MaxRetries /\ k < n
    OBVIOUS
  <2>1. <<s, n>> \in Inputs /\ <<s, k>> \in Inputs /\ <<s, n>>[1] = s /\ <<s, n>>[2] = n
    BY <2>0, InputParts
  <2>2. brief[<<s, k>>] = "fallback"
    <3>1. CASE i = <<s, n>>
      BY <3>1, <1>b, <2>0, <2>1
    <3>2. CASE i # <<s, n>>
      BY <3>2, <1>0, <1>a, <2>1 DEF Inv, TypeOK, OneAcceptedBrief
    <3>. QED
      BY <3>1, <3>2
  <2>. QED
    BY <1>3, <2>1, <2>2
<1>. QED
  BY <1>2, <1>4, <1>5, <1>6 DEF Inv

\* A lease that is given back is not one whose brief is written.
LEMMA ReleaseInv ==
  ASSUME Inv, NEW m \in Requests, Release(m)
  PROVE  Inv'
<1>. DEFINE i == input[m]
<1>0. i \in Inputs
  BY DEF Inv, TypeOK
<1>a. Leave(m) /\ UNCHANGED <<snapshot, covered, fence, attempts, brief>>
  BY DEF Release
<1>b. \/ /\ status[i] = "running"
         /\ status' = [status EXCEPT ![i] = "failed"]
         /\ expired' = [expired EXCEPT ![i] = TRUE]
      \/ UNCHANGED <<status, expired>>
  BY DEF Release, HoldsLease
<1>. HIDE DEF i
<1>1. status' \in [Inputs -> {"no_row", "running", "completed", "failed"}]
  BY <1>0, <1>b DEF Inv, TypeOK
<1>2. expired' \in [Inputs -> BOOLEAN]
  BY <1>0, <1>b DEF Inv, TypeOK
<1>3. TypeOK'
  BY <1>a, <1>1, <1>2, LeaveTypes DEF Inv, TypeOK
<1>4. FencesStand' /\ AnalysisIsDone' /\ SkippedFellBack'
  BY <1>a, LeaveKeeps
<1>5. CompletedHasBrief'
  BY <1>0, <1>a, <1>b DEF Inv, TypeOK, CompletedHasBrief
<1>6. OneAcceptedBrief'
  BY <1>a DEF Inv, OneAcceptedBrief
<1>. QED
  BY <1>3, <1>4, <1>5, <1>6 DEF Inv

\* Time passing and the case changing touch neither leases nor briefs.
LEMMA SurroundingsInv ==
  ASSUME Inv, (\E i \in Inputs : LeaseExpires(i)) \/ InputsChange
  PROVE  Inv'
<1>. UNCHANGED <<covered, status, fence, attempts, brief, step, input, token, analysis>>
  BY DEF LeaseExpires, InputsChange, row, plan
<1>1. expired' \in [Inputs -> BOOLEAN]
  BY DEF Inv, TypeOK, LeaseExpires, InputsChange, row
<1>2. snapshot' \in Snapshots
  BY DEF Inv, TypeOK, LeaseExpires, InputsChange, Snapshots
<1>3. TypeOK'
  BY <1>1, <1>2 DEF Inv, TypeOK
<1>4. FencesStand' /\ AnalysisIsDone'
  BY DEF Inv, FencesStand, AnalysisIsDone
<1>5. CompletedHasBrief' /\ OneAcceptedBrief' /\ SkippedFellBack'
  BY DEF Inv, CompletedHasBrief, OneAcceptedBrief, SkippedFellBack
<1>. QED
  BY <1>3, <1>4, <1>5 DEF Inv

-----------------------------------------------------------------------------
(* The theorems *)

\* Leases, tokens and briefs stay consistent however requests interleave,
\* fail, crash and outlive their leases.
THEOREM GenerationInvariance == Spec => []Inv
<1>1. Inv /\ [Next]_vars => Inv'
  <2>. SUFFICES ASSUME Inv, [Next]_vars PROVE Inv'
    OBVIOUS
  <2>1. ASSUME NEW m \in Requests, RequestStep(m) PROVE Inv'
    BY <2>1, QuietInv, LookupInv, AcquireInv, PersistInv, ReleaseInv DEF RequestStep
  <2>2. CASE UNCHANGED vars
    <3>. USE <2>2 DEF vars, row, plan, Inv
    <3>1. TypeOK'
      BY DEF TypeOK
    <3>2. FencesStand' /\ AnalysisIsDone'
      BY DEF FencesStand, AnalysisIsDone
    <3>3. CompletedHasBrief' /\ OneAcceptedBrief' /\ SkippedFellBack'
      BY DEF CompletedHasBrief, OneAcceptedBrief, SkippedFellBack
    <3>. QED
      BY <3>1, <3>2, <3>3
  <2>. QED
    BY <2>1, <2>2, SurroundingsInv DEF Next
<1>. QED
  BY <1>1, InitInv, PTL DEF Spec

\* Two requests never hold one lease: their tokens differ.
LEMMA AtMostOneWriter == Inv => OneWriter
<1>. SUFFICES ASSUME Inv, NEW i \in Inputs
              PROVE  Cardinality({m \in Requests : Acts(m, i)}) <= 1
  BY DEF OneWriter
<1>. DEFINE W == {m \in Requests : Acts(m, i)}
<1>1. \A m, n \in W : m = n
  BY DEF Acts, HoldsLease, Inv, FencesStand
<1>2. CASE W = {}
  BY <1>2, FS_EmptySet
<1>3. CASE W # {}
  <2>1. PICK m \in W : TRUE
    BY <1>3
  <2>2. W = {m}
    BY <1>1, <2>1
  <2>3. Cardinality({m}) = 1
    BY FS_Singleton
  <2>4. Cardinality(W) = 1
    BY <2>2, <2>3
  <2>. QED
    BY <2>4
<1>. QED
  BY <1>2, <1>3

\* One request at most can still write an input's brief, a generation is
\* completed exactly when its brief is written, and a snapshot never has two
\* reusable briefs.
THEOREM GenerationsAreSoundHolds == Spec => []GenerationsAreSound
<1>1. Inv => GenerationsAreSound
  BY AtMostOneWriter DEF Inv, GenerationsAreSound
<1>. QED
  BY <1>1, GenerationInvariance, PTL

\* A brief is written only by the holder of its input's lease, once, and
\* while the case is as the input describes it.
THEOREM WrittenForTheCurrentCaseHolds == Spec => WrittenForTheCurrentCase
<1>. DEFINE Written == \A i \in Inputs : brief'[i] # brief[i]
                         => /\ brief[i] = "none"
                            /\ i[1] = snapshot
                            /\ \E m \in Requests : Acts(m, i)
<1>1. Inv /\ [Next]_vars => [Written]_vars
  <2>. SUFFICES ASSUME Inv, Next, NEW i \in Inputs, brief'[i] # brief[i]
                PROVE  /\ brief[i] = "none"
                       /\ i[1] = snapshot
                       /\ \E m \in Requests : Acts(m, i)
    OBVIOUS
  <2>1. PICK m \in Requests : Persist(m)
    BY DEF Next, RequestStep, Lookup, Acquire, AcquireRefused, Analyze, Fails, PersistRefused,
           Release, Crash, LeaseExpires, InputsChange
  <2>2. brief' = [brief EXCEPT ![input[m]] = IF @ = "none" THEN analysis[m] ELSE @]
    BY <2>1 DEF Persist, WriteBrief
  <2>3. input[m] = i /\ brief[i] = "none"
    BY <2>2 DEF Inv, TypeOK
  <2>. QED
    BY <2>1, <2>3 DEF Persist, SnapshotStands, Acts
<1>. QED
  BY <1>1, GenerationInvariance, PTL DEF Spec, WrittenForTheCurrentCase
=============================================================================
