-------------------------- MODULE PolicyGovernance --------------------------
(***************************************************************************)
(* Governed policies and the evidence a case cites from them:              *)
(* services/policy_service.py over persistence/policies/.  A command is    *)
(* two steps: it reads the policy workspace (and, to activate, the other   *)
(* policies' active versions), then it writes under a compare-and-set of   *)
(* the policy's and the version's counters.  Every version here claims the *)
(* same decision scope and overlapping dimensions, the case in which two   *)
(* policies compete.                                                       *)
(***************************************************************************)
EXTENDS Integers, FiniteSets, FiniteSetsExt

CONSTANTS
  Policies,
  Editors,        \* policy managers with a command in flight
  MaxVersion,     \* bound: versions of each policy
  MaxTime,        \* bound: the clock
  DraftWindows    \* bound: <<effective_from, effective_to>> of the drafts

VARIABLES
  policyStatus,   \* PolicyModel.status, "none" before it exists
  current,        \* .current_version
  versionStatus,  \* GovernedPolicyVersionModel.status
  from, to,       \* .effective_from and .effective_to
  now,
  command,        \* what each editor's command is about to write
  on,             \* the policy it is for
  effective,      \* the effective date it resolved
  alone,          \* no other policy was activated since the candidates were read
  skewed,         \* history: an activation was written although one was
  found,          \* versions a search for a case's evidence has returned
  moved,          \* versions written since the search
  cited           \* versions recorded as the case's evidence

rows == <<policyStatus, current, versionStatus, from, to>>
commands == <<command, on, effective, alone>>
evidence == <<found, cited>>
vars == <<rows, now, commands, skewed, evidence, moved>>

Time == 1 .. MaxTime
Always == 0               \* no effective_from
Forever == MaxTime + 1    \* no effective_to

Numbers(p) == 1 .. MaxVersion[p]
Of(p) == {p} \X Numbers(p)
Versions == UNION {Of(p) : p \in Policies}

ASSUME PoliciesAssumption == IsFiniteSet(Policies) /\ Policies # {}
ASSUME MaxVersionAssumption == MaxVersion \in [Policies -> Nat \ {0}]
ASSUME MaxTimeAssumption == MaxTime \in Nat \ {0}
ASSUME DraftWindowsAssumption ==
  DraftWindows \subseteq {w \in ({Always} \union Time) \X (Time \union {Forever}) : w[1] < w[2]}

PolicyLifecycleStatus ==
  {"none", "parsing_failed", "draft", "in_review", "conflicting", "published", "scheduled", "retired"}

PolicyVersionStatus == {"none", "draft", "in_review", "published", "scheduled", "retired"}

Commands == {"none", "retry_source", "create_draft", "submit_review", "published", "scheduled",
             "mark_conflicting", "retire"}

TypeOK ==
  /\ policyStatus \in [Policies -> PolicyLifecycleStatus]
  /\ current \in [Policies -> Nat]
  /\ \A p \in Policies : current[p] <= MaxVersion[p]
  /\ versionStatus \in [Versions -> PolicyVersionStatus]
  /\ from \in [Versions -> {Always} \union Time]
  /\ to \in [Versions -> Time \union {Forever}]
  /\ \A x \in Versions : from[x] < to[x]
  /\ now \in Time
  /\ command \in [Editors -> Commands]
  /\ on \in [Editors -> Policies]
  /\ effective \in [Editors -> {Always} \union Time]
  /\ alone \in [Editors -> BOOLEAN]
  /\ skewed \in BOOLEAN
  /\ found \subseteq Versions /\ moved \subseteq Versions /\ cited \subseteq Versions

AnyPolicy == CHOOSE p \in Policies : TRUE

\* A policy may come from the legacy corpus, its version 1 in force already.
ImportLegacyPolicy(p) ==
  /\ policyStatus = [q \in Policies |-> IF q = p THEN "published" ELSE "none"]
  /\ current = [q \in Policies |-> IF q = p THEN 1 ELSE 0]
  /\ versionStatus = [x \in Versions |-> IF x = <<p, 1>> THEN "published" ELSE "none"]

NoPolicies ==
  /\ policyStatus = [p \in Policies |-> "none"]
  /\ current = [p \in Policies |-> 0]
  /\ versionStatus = [x \in Versions |-> "none"]

Init ==
  /\ NoPolicies \/ \E p \in Policies : ImportLegacyPolicy(p)
  /\ from = [x \in Versions |-> Always]
  /\ to = [x \in Versions |-> Forever]
  /\ now = 1
  /\ command = [e \in Editors |-> "none"]
  /\ on = [e \in Editors |-> AnyPolicy]
  /\ effective = [e \in Editors |-> Always]
  /\ alone = [e \in Editors |-> FALSE]
  /\ skewed = FALSE
  /\ found = {} /\ moved = {} /\ cited = {}

-----------------------------------------------------------------------------
(* Authority *)

\* The states list_candidates and the searches select.
Active(x) == versionStatus[x] \in {"published", "scheduled"}

InForce(x) == Active(x) /\ from[x] <= now /\ now < to[x]

TimeWindowsOverlap(lf, lt, rf, rt) == Max({lf, rf}) < Min({lt, rt})

\* Mutant of FindConflicts: scheduled versions are no candidates.
PublishedConflicts(p, f, t) ==
  {x \in Versions \ Of(p) : versionStatus[x] = "published" /\ TimeWindowsOverlap(f, t, from[x], to[x])}

\* Active versions of other policies whose window overlaps.
FindConflicts(p, f, t) ==
  {x \in Versions \ Of(p) : Active(x) /\ TimeWindowsOverlap(f, t, from[x], to[x])}

-----------------------------------------------------------------------------
(* Commands read the workspace *)

Begins(e, p, c) ==
  /\ command[e] = "none"
  /\ command' = [command EXCEPT ![e] = c]
  /\ on' = [on EXCEPT ![e] = p]
  /\ alone' = [alone EXCEPT ![e] = c \in {"published", "scheduled"}]
  /\ UNCHANGED <<rows, now, skewed, evidence, moved>>

\* Versions the policy has.
Written(p) == {v \in Numbers(p) : versionStatus[<<p, v>>] # "none"}

\* Mutant of NextVersion: one past the current version, which a cancelled
\* schedule has set back.
AfterCurrent(p) == current[p] + 1

NextVersion(p) == Max(Written(p) \union {0}) + 1

BeginDraft(e, p) ==
  /\ policyStatus[p] \notin {"none", "draft", "in_review", "parsing_failed"}
  /\ NextVersion(p) \in Numbers(p)
  /\ Begins(e, p, "create_draft")
  /\ UNCHANGED effective

BeginRetry(e, p) ==
  /\ policyStatus[p] = "parsing_failed" /\ current[p] = 0
  /\ Begins(e, p, "retry_source")
  /\ UNCHANGED effective

\* _required_current_version and its status.
CurrentIs(p, states) == current[p] # 0 /\ versionStatus[<<p, current[p]>>] \in states

BeginSubmit(e, p) ==
  /\ CurrentIs(p, {"draft"})
  /\ Begins(e, p, "submit_review")
  /\ UNCHANGED effective

BeginRetire(e, p) ==
  /\ CurrentIs(p, {"published", "scheduled"})
  /\ Begins(e, p, "retire")
  /\ UNCHANGED effective

\* The date asked for, else the draft's own or the present one: published
\* up to now, scheduled after it, before the window ends.
EffectiveFrom(p, f, target) ==
  /\ target = IF f <= now THEN "published" ELSE "scheduled"
  /\ f < to[<<p, current[p]>>]

BeginActivate(e, p) ==
  /\ CurrentIs(p, {"in_review"})
  /\ \E f \in Time, target \in {"published", "scheduled"} :
       /\ EffectiveFrom(p, f, target)
       /\ effective' = [effective EXCEPT ![e] = f]
       /\ IF FindConflicts(p, f, to[<<p, current[p]>>]) = {}
            THEN Begins(e, p, target)
            ELSE Begins(e, p, "mark_conflicting")

-----------------------------------------------------------------------------
(* Commands write *)

\* _update_policy and _update_version: once e has written its policy, a
\* command d that read it before finds other counters than it expects.
Overtaken(e, d) == on[d] = on[e]

\* The command has written the versions xs and ends; the ones it overtook
\* end with a concurrency conflict.
Ends(e, activated, xs) ==
  LET gone == {e} \union {d \in Editors : Overtaken(e, d)} IN
  /\ command' = [d \in Editors |-> IF d \in gone THEN "none" ELSE command[d]]
  /\ on' = [d \in Editors |-> IF d \in gone THEN AnyPolicy ELSE on[d]]
  /\ effective' = [d \in Editors |-> IF d \in gone THEN Always ELSE effective[d]]
  /\ alone' = [d \in Editors |-> alone[d] /\ d \notin gone /\ ~(activated /\ on[d] # on[e])]
  /\ moved' = (moved \union xs) \intersect found
  /\ UNCHANGED <<now, evidence>>

\* _add_version: a draft with the window of its content.
AddVersion(p, v) ==
  \E w \in DraftWindows :
    /\ versionStatus' = [versionStatus EXCEPT ![<<p, v>>] = "draft"]
    /\ from' = [from EXCEPT ![<<p, v>>] = w[1]]
    /\ to' = [to EXCEPT ![<<p, v>>] = w[2]]
    /\ policyStatus' = [policyStatus EXCEPT ![p] = "draft"]
    /\ current' = [current EXCEPT ![p] = v]

\* parse_policy_source raises: the policy stays without a version.
ParsingFails(p) ==
  /\ policyStatus' = [policyStatus EXCEPT ![p] = "parsing_failed"]
  /\ UNCHANGED <<current, versionStatus, from, to>>

CreatePolicy(p) ==
  /\ policyStatus[p] = "none"
  /\ AddVersion(p, 1) \/ ParsingFails(p)
  /\ UNCHANGED <<now, commands, skewed, evidence, moved>>

CreateDraft(e) ==
  /\ command[e] = "create_draft"
  /\ NextVersion(on[e]) \in Numbers(on[e])
  /\ AddVersion(on[e], NextVersion(on[e]))
  /\ Ends(e, FALSE, {<<on[e], NextVersion(on[e])>>})
  /\ UNCHANGED skewed

RetrySource(e) ==
  /\ command[e] = "retry_source"
  /\ AddVersion(on[e], 1)
  /\ Ends(e, FALSE, {<<on[e], 1>>})
  /\ UNCHANGED skewed

Becomes(p, x, s) ==
  /\ policyStatus' = [policyStatus EXCEPT ![p] = s]
  /\ versionStatus' = [versionStatus EXCEPT ![x] = s]

SubmitReview(e) ==
  LET x == <<on[e], current[on[e]]>> IN
  /\ command[e] = "submit_review"
  /\ Becomes(on[e], x, "in_review")
  /\ Ends(e, FALSE, {x})
  /\ UNCHANGED <<current, from, to, skewed>>

\* The version stays in review; only its counter moves.
MarkConflicting(e) ==
  /\ command[e] = "mark_conflicting"
  /\ policyStatus' = [policyStatus EXCEPT ![on[e]] = "conflicting"]
  /\ Ends(e, FALSE, {<<on[e], current[on[e]]>>})
  /\ UNCHANGED <<current, versionStatus, from, to, skewed>>

Previous(p, x) == {y \in Of(p) \ {x} : Active(y)}

Shortened(y, f) == Min({to[y], f})

\* ck_governed_policy_versions_effective_order of the versions a
\* publication retires: it fails when one of them starts no earlier.
EffectiveOrder(ys, f) == \A y \in ys : from[y] = Always \/ from[y] < Shortened(y, f)

\* Publishing retires the policy's other active versions; scheduling leaves
\* them in force, past the new version's date too.
ActivateVersion(e, target) ==
  LET p == on[e]
      x == <<p, current[p]>>
      f == effective[e]
      ys == IF target = "published" THEN Previous(p, x) ELSE {}
  IN
  /\ command[e] = target
  /\ f < to[x] /\ EffectiveOrder(ys, f)
  /\ policyStatus' = [policyStatus EXCEPT ![p] = target]
  /\ versionStatus' = [y \in Versions |-> IF y \in ys THEN "retired"
                                          ELSE IF y = x THEN target ELSE versionStatus[y]]
  /\ from' = [from EXCEPT ![x] = f]
  /\ to' = [y \in Versions |-> IF y \in ys THEN Shortened(y, f) ELSE to[y]]
  /\ skewed' = (skewed \/ ~alone[e])
  /\ Ends(e, TRUE, ys \union {x})
  /\ UNCHANGED current

Publish(e) == ActivateVersion(e, "published")
Schedule(e) == ActivateVersion(e, "scheduled")

\* The versions that cancelling a schedule may bring back.
Restorable(p, x) ==
  {y \in Of(p) \ {x} : versionStatus[y] = "published" /\ from[y] <= now /\ now < to[y]}

RetireVersion(e) ==
  LET p == on[e]
      x == <<p, current[p]>>
      back == IF versionStatus[x] = "scheduled" THEN Restorable(p, x) ELSE {}
  IN
  /\ command[e] = "retire"
  /\ policyStatus' = [policyStatus EXCEPT ![p] = IF back = {} THEN "retired" ELSE "published"]
  /\ current' = [current EXCEPT ![p] = IF back = {} THEN @ ELSE Max({y[2] : y \in back})]
  /\ versionStatus' = [versionStatus EXCEPT ![x] = "retired"]
  /\ to' = [to EXCEPT ![x] = IF from[x] < now /\ now < @ THEN now ELSE @]
  /\ Ends(e, FALSE, {x})
  /\ UNCHANGED <<from, skewed>>

\* A constraint of the table fails, or the request dies.
CommandFails(e) ==
  /\ command[e] # "none"
  /\ command' = [command EXCEPT ![e] = "none"]
  /\ on' = [on EXCEPT ![e] = AnyPolicy]
  /\ effective' = [effective EXCEPT ![e] = Always]
  /\ alone' = [alone EXCEPT ![e] = FALSE]
  /\ UNCHANGED <<rows, now, skewed, evidence, moved>>

Tick ==
  /\ now < MaxTime
  /\ now' = now + 1
  /\ UNCHANGED <<rows, commands, skewed, evidence, moved>>

-----------------------------------------------------------------------------
(* Evidence for a case *)

\* _guard_search: nothing when two policies claim the scope.
Guarded(hits) == IF Cardinality({x[1] : x \in hits}) = 1 THEN hits ELSE {}

\* search_retrieval_candidates, guarded
Resolve == Guarded({x \in Versions : InForce(x)})

\* Bound: evidence is recorded once.
Search ==
  /\ found = {} /\ cited = {}
  /\ found' = Resolve
  /\ found' # {}
  /\ UNCHANGED <<rows, now, commands, skewed, cited, moved>>

\* Mutant of Bindable: the version's counter and state are not checked again.
BindableAnyway(x) == TRUE

Bindable(x) == x \notin moved /\ Active(x)

\* One clause, so one version, of each policy found is bound.
BindEvidence ==
  /\ found # {}
  /\ \E x \in SUBSET found :
       /\ \A p \in {y[1] : y \in found} : Cardinality(x \intersect Of(p)) = 1
       /\ \A y \in x : Bindable(y)
       /\ cited' = x
  /\ found' = {} /\ moved' = {}
  /\ UNCHANGED <<rows, now, commands, skewed>>

\* PolicyVersionConcurrencyConflict, or the analysis that searched ended.
SearchEnds ==
  /\ found # {}
  /\ found' = {} /\ moved' = {}
  /\ UNCHANGED <<rows, now, commands, skewed, cited>>

-----------------------------------------------------------------------------
Begin(e) ==
  \E p \in Policies :
    BeginDraft(e, p) \/ BeginRetry(e, p) \/ BeginSubmit(e, p) \/ BeginActivate(e, p) \/ BeginRetire(e, p)

Write(e) ==
  \/ CreateDraft(e) \/ RetrySource(e) \/ SubmitReview(e) \/ MarkConflicting(e)
  \/ Publish(e) \/ Schedule(e) \/ RetireVersion(e) \/ CommandFails(e)

Next ==
  \/ \E p \in Policies : CreatePolicy(p)
  \/ \E e \in Editors : Begin(e) \/ Write(e)
  \/ Tick \/ Search \/ BindEvidence \/ SearchEnds

Spec == Init /\ [][Next]_vars

-----------------------------------------------------------------------------
(* Properties *)

\* Whatever commands interleave, a policy's status is that of its current
\* version, a conflict is of a version still in review, and only a policy
\* without a version failed to parse.
PolicyMatchesVersion ==
  \A p \in Policies :
    IF current[p] = 0
      THEN policyStatus[p] \in {"none", "parsing_failed"}
      ELSE \/ policyStatus[p] = versionStatus[<<p, current[p]>>]
           \/ policyStatus[p] = "conflicting" /\ versionStatus[<<p, current[p]>>] = "in_review"

\* An approved version is never reopened or rewritten: once published or
\* scheduled it can only be retired, its start stands, and retired is final.
ApprovedIsImmutable ==
  [][\A x \in Versions :
       /\ Active(x) => versionStatus'[x] \in {versionStatus[x], "retired"} /\ from'[x] = from[x]
       /\ versionStatus[x] = "retired" =>
            versionStatus'[x] = "retired" /\ from'[x] = from[x] /\ to'[x] = to[x]]_vars

\* No two policies have authority over the same decision at the same time,
\* unless two activations were checked against each other's past.
AuthorityIsSole ==
  skewed \/ \A x, y \in Versions :
              x[1] # y[1] /\ Active(x) /\ Active(y)
                => ~TimeWindowsOverlap(from[x], to[x], from[y], to[y])

\* A policy shows what its current version is, and authority is undivided.
AuthorityIsSound == TypeOK /\ PolicyMatchesVersion /\ AuthorityIsSole

\* A case's evidence names one policy for the decision, and a version that
\* still had its authority when the evidence was recorded.
CitationHadAuthority ==
  [][cited' # cited =>
       /\ \A x \in cited' : Active(x) /\ from[x] <= now
       /\ Cardinality({x[1] : x \in cited'}) = 1]_vars

=============================================================================
