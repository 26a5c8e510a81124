----------------------- MODULE PolicyGovernanceProofs -----------------------
(***************************************************************************)
(* Proofs about PolicyGovernance for any finite set of policies, any       *)
(* editors, versions and dates.                                            *)
(***************************************************************************)
EXTENDS PolicyGovernance, FiniteSetTheorems, TLAPS

\* The version a policy shows.
Shown(p) == <<p, current[p]>>

\* A policy's versions are numbered without gaps and it shows one of them.
NumbersStand ==
  \A p \in Policies : \E k \in 0 .. MaxVersion[p] :
    Written(p) = 1 .. k /\ current[p] <= k /\ (current[p] = 0 => k = 0)

\* Publishing retires the version published before.
OnePublished ==
  \A x, y \in Versions :
    x[1] = y[1] /\ versionStatus[x] = "published" /\ versionStatus[y] = "published" => x = y

\* What a command has read of its policy still holds: whoever writes the
\* policy ends the commands that read it.
CommandStands(e) ==
  LET p == on[e] IN
  /\ command[e] = "create_draft" => current[p] # 0
  /\ command[e] = "retry_source" => policyStatus[p] = "parsing_failed" /\ current[p] = 0
  /\ command[e] = "submit_review" => CurrentIs(p, {"draft"})
  /\ command[e] = "retire" => CurrentIs(p, {"published", "scheduled"})
  /\ command[e] \in {"published", "scheduled", "mark_conflicting"} =>
       CurrentIs(p, {"in_review"})
  /\ command[e] \in {"published", "scheduled"} =>
       /\ effective[e] \in Time
       /\ alone[e] => FindConflicts(p, effective[e], to[Shown(p)]) = {}

CommandsStand == \A e \in Editors : CommandStands(e)

\* The versions a search found belong to one policy, had been approved and
\* were in force.
FoundStands ==
  /\ \A x \in found : versionStatus[x] \in {"published", "scheduled", "retired"} /\ from[x] <= now
  /\ \A x, y \in found : x[1] = y[1]

\* The inductive invariant.
Inv ==
  /\ TypeOK
  /\ PolicyMatchesVersion
  /\ AuthorityIsSole
  /\ NumbersStand
  /\ OnePublished
  /\ CommandsStand
  /\ FoundStands

-----------------------------------------------------------------------------
(* The parts of the invariant that belong to one policy, and what the write  *)
(* of one policy leaves alone.                                               *)

RowTypes ==
  /\ policyStatus \in [Policies -> PolicyLifecycleStatus]
  /\ current \in [Policies -> Nat]
  /\ \A p \in Policies : current[p] <= MaxVersion[p]
  /\ versionStatus \in [Versions -> PolicyVersionStatus]
  /\ from \in [Versions -> {Always} \union Time]
  /\ to \in [Versions -> Time \union {Forever}]
  /\ \A x \in Versions : from[x] < to[x]

CommandTypes ==
  /\ command \in [Editors -> Commands]
  /\ on \in [Editors -> Policies]
  /\ effective \in [Editors -> {Always} \union Time]
  /\ alone \in [Editors -> BOOLEAN]

Matches(p) ==
  IF current[p] = 0
    THEN policyStatus[p] \in {"none", "parsing_failed"}
    ELSE \/ policyStatus[p] = versionStatus[<<p, current[p]>>]
         \/ policyStatus[p] = "conflicting" /\ versionStatus[<<p, current[p]>>] = "in_review"

Numbered(p) ==
  \E k \in 0 .. MaxVersion[p] :
    Written(p) = 1 .. k /\ current[p] <= k /\ (current[p] = 0 => k = 0)

Single(p) ==
  \A x, y \in Versions :
    x[1] = p /\ y[1] = p /\ versionStatus[x] = "published" /\ versionStatus[y] = "published" => x = y

\* A step writes no policy but p.
WritesOnly(p) ==
  /\ \A q \in Policies \ {p} : policyStatus'[q] = policyStatus[q] /\ current'[q] = current[q]
  /\ \A x \in Versions : x[1] # p =>
       versionStatus'[x] = versionStatus[x] /\ from'[x] = from[x] /\ to'[x] = to[x]

\* A step activates no version of p.
ActivatesNone(p) ==
  \A x \in Versions : x[1] = p /\ versionStatus'[x] \in {"published", "scheduled"} =>
    Active(x) /\ from'[x] = from[x] /\ to'[x] = to[x]

\* What ApprovedIsImmutable says of a step.
Immutable ==
  \A x \in Versions :
    /\ Active(x) => versionStatus'[x] \in {versionStatus[x], "retired"} /\ from'[x] = from[x]
    /\ versionStatus[x] = "retired" =>
         versionStatus'[x] = "retired" /\ from'[x] = from[x] /\ to'[x] = to[x]

\* No command that read p is left, and the others know of an activation.
CommandsAway(p) ==
  \A d \in Editors :
    \/ command'[d] = "none"
    \/ /\ command'[d] = command[d] /\ on'[d] = on[d] /\ effective'[d] = effective[d]
       /\ on[d] # p
       /\ alone'[d] => alone[d] /\ ActivatesNone(p)

-----------------------------------------------------------------------------
(* Versions and dates *)

LEMMA VersionParts ==
  /\ \A p \in Policies : \A v \in Numbers(p) : <<p, v>> \in Versions
  /\ \A x \in Versions : x[1] \in Policies /\ x[2] \in Numbers(x[1]) /\ x = <<x[1], x[2]>>
  /\ \A p \in Policies : \A x : x \in Of(p) <=> x \in Versions /\ x[1] = p
<1>1. \A p \in Policies : \A v \in Numbers(p) : <<p, v>> \in Of(p)
  BY DEF Of
<1>2. \A p \in Policies : \A x \in Of(p) : x[1] = p /\ x[2] \in Numbers(p) /\ x = <<x[1], x[2]>>
  BY DEF Of
<1>3. \A x : x \in Versions <=> \E p \in Policies : x \in Of(p)
  BY DEF Versions
<1>. QED
  BY <1>1, <1>2, <1>3

LEMMA NumbersParts ==
  ASSUME NEW p \in Policies
  PROVE  /\ MaxVersion[p] \in Nat \ {0}
         /\ Numbers(p) = 1 .. MaxVersion[p]
         /\ 1 \in Numbers(p)
BY MaxVersionAssumption DEF Numbers

LEMMA AnyPolicyIsOne == AnyPolicy \in Policies
BY PoliciesAssumption DEF AnyPolicy

\* Dates are naturals, and no draft ends before it starts.
LEMMA Dates ==
  /\ MaxTime \in Nat \ {0}
  /\ Time \subseteq Nat \ {0}
  /\ {Always} \union Time \subseteq Nat
  /\ Time \union {Forever} \subseteq Nat \ {0}
  /\ \A w \in DraftWindows :
       w[1] \in {Always} \union Time /\ w[2] \in Time \union {Forever} /\ w[1] < w[2]
<1>1. MaxTime \in Nat \ {0}
  BY MaxTimeAssumption
<1>2. Time \subseteq Nat \ {0}
  BY <1>1 DEF Time
<1>3. {Always} \union Time \subseteq Nat /\ Time \union {Forever} \subseteq Nat \ {0}
  BY <1>1, <1>2 DEF Always, Forever
<1>4. \A w \in DraftWindows :
        w[1] \in {Always} \union Time /\ w[2] \in Time \union {Forever} /\ w[1] < w[2]
  BY DraftWindowsAssumption
<1>. QED
  BY <1>1, <1>2, <1>3, <1>4

LEMMA MinOfTwo ==
  ASSUME NEW a \in Nat, NEW b \in Nat
  PROVE  Min({a, b}) \in {a, b} /\ Min({a, b}) <= a /\ Min({a, b}) <= b
<1>. DEFINE S == {a, b}
<1>1. \E x \in S : \A y \in S : x <= y
  <2>1. CASE a <= b
    BY <2>1
  <2>2. CASE b <= a
    BY <2>2
  <2>. QED
    BY <2>1, <2>2
<1>2. Min(S) = CHOOSE x \in S : \A y \in S : x <= y
  BY DEF Min
<1>3. Min(S) \in S /\ \A y \in S : Min(S) <= y
  BY <1>1, <1>2
<1>. QED
  BY <1>3

LEMMA MaxOfOne ==
  ASSUME NEW a \in Nat
  PROVE  Max({a}) = a
<1>1. a \in {a} /\ \A y \in {a} : a >= y
  OBVIOUS
<1>2. Max({a}) = CHOOSE x \in {a} : \A y \in {a} : x >= y
  BY DEF Max
<1>3. Max({a}) \in {a}
  BY <1>1, <1>2
<1>. QED
  BY <1>3

\* The next version is the one after the last.
LEMMA NextVersionIsNew ==
  ASSUME NEW p \in Policies, NEW k \in Nat, Written(p) = 1 .. k
  PROVE  NextVersion(p) = k + 1
<1>. DEFINE S == (1 .. k) \union {0}
<1>1. k \in S /\ \A y \in S : y \in Nat /\ k >= y
  OBVIOUS
<1>2. Max(S) = CHOOSE x \in S : \A y \in S : x >= y
  BY DEF Max
<1>3. Max(S) \in S /\ \A y \in S : Max(S) >= y
  BY <1>1, <1>2
<1>4. Max(S) = k
  <2>1. PICK m \in S : m = Max(S)
    BY <1>3
  <2>2. m \in Nat /\ k >= m /\ m >= k
    BY <1>1, <1>3, <2>1
  <2>. QED
    BY <2>1, <2>2
<1>5. NextVersion(p) = Max(S) + 1
  BY DEF NextVersion, S
<1>. QED
  BY <1>4, <1>5

LEMMA OverlapIsSymmetric ==
  ASSUME NEW a, NEW b, NEW c, NEW d
  PROVE  TimeWindowsOverlap(a, b, c, d) = TimeWindowsOverlap(c, d, a, b)
<1>1. {a, c} = {c, a} /\ {b, d} = {d, b}
  OBVIOUS
<1>. QED
  BY <1>1 DEF TimeWindowsOverlap

LEMMA InvParts ==
  /\ TypeOK <=> /\ RowTypes /\ CommandTypes
                /\ now \in Time /\ skewed \in BOOLEAN
                /\ found \subseteq Versions /\ moved \subseteq Versions /\ cited \subseteq Versions
  /\ PolicyMatchesVersion <=> \A p \in Policies : Matches(p)
  /\ NumbersStand <=> \A p \in Policies : Numbered(p)
  /\ OnePublished <=> \A p \in Policies : Single(p)
<1>1. OnePublished <=> \A p \in Policies : Single(p)
  BY VersionParts DEF OnePublished, Single
<1>. QED
  BY <1>1 DEF TypeOK, RowTypes, CommandTypes, PolicyMatchesVersion, Matches, NumbersStand, Numbered

\* The version a policy shows is one of its own, and written.
LEMMA ShownIsVersion ==
  ASSUME Inv, NEW q \in Policies
  PROVE  /\ current[q] \in Nat
         /\ Shown(q) = <<q, current[q]>> /\ Shown(q)[1] = q
         /\ current[q] # 0 => /\ current[q] \in Numbers(q)
                              /\ Shown(q) \in Versions
                              /\ versionStatus[Shown(q)] # "none"
<1>1. current[q] \in Nat /\ current[q] <= MaxVersion[q]
  BY DEF Inv, TypeOK
<1>2. current[q] # 0 => current[q] \in Numbers(q)
  BY <1>1, NumbersParts
<1>3. current[q] # 0 => Shown(q) \in Versions
  BY <1>2, VersionParts DEF Shown
<1>4. PICK k \in 0 .. MaxVersion[q] : Written(q) = 1 .. k /\ current[q] <= k
  BY InvParts DEF Inv, Numbered
<1>5. current[q] # 0 => current[q] \in Written(q)
  BY <1>1, <1>4, NumbersParts
<1>. QED
  BY <1>1, <1>2, <1>3, <1>5 DEF Shown, Written

-----------------------------------------------------------------------------
(* Writing one policy *)

\* The commands left have read other policies, which are as they were.
LEMMA CommandsLeftStand ==
  ASSUME Inv, NEW p \in Policies, WritesOnly(p), CommandsAway(p), RowTypes', CommandTypes'
  PROVE  CommandsStand'
<1>. SUFFICES ASSUME NEW d \in Editors, command'[d] # "none"
              PROVE  CommandStands(d)'
  BY DEF CommandsStand, CommandStands
<1>1. /\ command'[d] = command[d] /\ on'[d] = on[d] /\ effective'[d] = effective[d]
      /\ on[d] # p
      /\ alone'[d] => alone[d] /\ ActivatesNone(p)
  BY DEF CommandsAway
<1>2. PICK q \in Policies : q = on[d]
  BY DEF Inv, TypeOK
<1>3. q # p /\ policyStatus'[q] = policyStatus[q] /\ current'[q] = current[q]
  BY <1>1, <1>2 DEF WritesOnly
<1>4. CommandStands(d)
  BY DEF Inv, CommandsStand
<1>5. current[q] # 0 =>
        /\ Shown(q) \in Versions /\ Shown(q)[1] = q
        /\ versionStatus'[Shown(q)] = versionStatus[Shown(q)]
        /\ to'[Shown(q)] = to[Shown(q)]
  BY <1>3, ShownIsVersion DEF WritesOnly
<1>6. \A states : CurrentIs(q, states) => CurrentIs(q, states)'
  BY <1>3, <1>5 DEF CurrentIs, Shown
<1>7. ASSUME alone'[d], current[q] # 0, FindConflicts(q, effective[d], to[Shown(q)]) = {}
      PROVE  FindConflicts(q, effective[d], to[Shown(q)])' = {}
  <2>1. (to[Shown(q)])' = to[Shown(q)] /\ (effective[d])' = effective[d]
    BY <1>1, <1>3, <1>5, <1>7 DEF Shown
  <2>2. ASSUME NEW x \in Versions \ Of(q), Active(x)'
        PROVE  Active(x) /\ from'[x] = from[x] /\ to'[x] = to[x]
    <3>1. CASE x[1] = p
      BY <1>1, <1>7, <2>2, <3>1 DEF ActivatesNone, Active
    <3>2. CASE x[1] # p
      BY <2>2, <3>2 DEF WritesOnly, Active
    <3>. QED
      BY <3>1, <3>2
  <2>3. ASSUME NEW x \in Versions \ Of(q), Active(x)',
               TimeWindowsOverlap(effective[d], to[Shown(q)], from'[x], to'[x])
        PROVE  x \in FindConflicts(q, effective[d], to[Shown(q)])
    BY <2>2, <2>3 DEF FindConflicts
  <2>4. FindConflicts(q, effective[d], to[Shown(q)])' =
          {x \in Versions \ Of(q) : Active(x)' /\
             TimeWindowsOverlap(effective[d], to[Shown(q)], from'[x], to'[x])}
    BY <2>1 DEF FindConflicts, TimeWindowsOverlap
  <2>. QED
    BY <1>7, <2>3, <2>4
<1>8. command[d] \in {"published", "scheduled"} => CurrentIs(q, {"in_review"})
  BY <1>2, <1>4 DEF CommandStands
<1>9. command'[d] \in {"published", "scheduled"} =>
        /\ effective'[d] \in Time
        /\ alone'[d] => FindConflicts(q, effective[d], to[Shown(q)])' = {}
  BY <1>1, <1>2, <1>4, <1>7, <1>8 DEF CommandStands, CurrentIs
<1>. QED
  BY <1>1, <1>2, <1>3, <1>4, <1>6, <1>9 DEF CommandStands

\* A write that activates nothing leaves authority as it was.
LEMMA AuthorityStands ==
  ASSUME Inv, NEW p \in Policies, WritesOnly(p), ActivatesNone(p), skewed' = skewed
  PROVE  AuthorityIsSole'
<1>1. \A x \in Versions : Active(x)' => Active(x) /\ from'[x] = from[x] /\ to'[x] = to[x]
  BY DEF WritesOnly, ActivatesNone, Active
<1>2. \A x, y \in Versions : Active(x)' /\ Active(y)' =>
        TimeWindowsOverlap(from[x], to[x], from[y], to[y])' =
          TimeWindowsOverlap(from[x], to[x], from[y], to[y])
  BY <1>1 DEF TimeWindowsOverlap
<1>. QED
  BY <1>1, <1>2 DEF Inv, AuthorityIsSole

\* Found versions had been approved, and what is approved stands.
LEMMA FoundStays ==
  ASSUME Inv, Immutable, found' = found, now' = now
  PROVE  FoundStands'
<1>1. \A x \in found : /\ x \in Versions
                       /\ versionStatus[x] \in {"published", "scheduled", "retired"}
                       /\ from[x] <= now
  BY DEF Inv, TypeOK, FoundStands
<1>2. \A x \in found : versionStatus'[x] \in {"published", "scheduled", "retired"} /\ from'[x] = from[x]
  BY <1>1 DEF Immutable, Active
<1>. QED
  BY <1>1, <1>2 DEF Inv, FoundStands

\* A step that writes p alone keeps the invariant when it keeps p's part.
LEMMA WriteInv ==
  ASSUME Inv, NEW p \in Policies, WritesOnly(p), Immutable,
         RowTypes', Matches(p)', Numbered(p)', Single(p)', AuthorityIsSole',
         CommandTypes', CommandsAway(p), skewed' \in BOOLEAN,
         now' = now, found' = found, cited' = cited, moved' \subseteq Versions
  PROVE  Inv'
<1>1. \A q \in Policies : Matches(q) /\ Numbered(q) /\ Single(q)
  BY InvParts DEF Inv
<1>2. TypeOK'
  BY InvParts DEF Inv, TypeOK, RowTypes, CommandTypes
<1>3. ASSUME NEW q \in Policies, q # p
      PROVE  Matches(q)' /\ Numbered(q)' /\ Single(q)'
  <2>1. /\ policyStatus'[q] = policyStatus[q] /\ current'[q] = current[q]
        /\ \A x \in Versions : x[1] = q =>
             versionStatus'[x] = versionStatus[x] /\ from'[x] = from[x] /\ to'[x] = to[x]
    BY <1>3 DEF WritesOnly
  <2>2. \A v \in Numbers(q) : versionStatus'[<<q, v>>] = versionStatus[<<q, v>>]
    BY <2>1, VersionParts
  <2>3. current[q] # 0 => current[q] \in Numbers(q)
    BY ShownIsVersion
  <2>4. Matches(q)'
    BY <1>1, <2>1, <2>2, <2>3 DEF Matches
  <2>5. Written(q)' = Written(q)
    BY <2>2 DEF Written
  <2>6. Numbered(q)'
    BY <1>1, <2>1, <2>5 DEF Numbered
  <2>7. Single(q)'
    BY <1>1, <2>1 DEF Single
  <2>. QED
    BY <2>4, <2>6, <2>7
<1>4. \A q \in Policies : Matches(q)' /\ Numbered(q)' /\ Single(q)'
  BY <1>3
<1>5. PolicyMatchesVersion'
  BY <1>4 DEF PolicyMatchesVersion, Matches
<1>6. NumbersStand'
  BY <1>4 DEF NumbersStand, Numbered
<1>7. OnePublished'
  BY <1>4, VersionParts DEF OnePublished, Single
<1>8. CommandsStand'
  BY CommandsLeftStand
<1>9. FoundStands'
  BY FoundStays
<1>. QED
  BY <1>2, <1>5, <1>6, <1>7, <1>8, <1>9 DEF Inv

\* A command that has written its policy ends, and ends those it overtook.
LEMMA EndsAway ==
  ASSUME Inv, NEW e \in Editors, NEW p \in Policies, p = on[e],
         NEW activated \in BOOLEAN, NEW xs, Ends(e, activated, xs),
         activated \/ ActivatesNone(p)
  PROVE  /\ CommandTypes' /\ CommandsAway(p)
         /\ now' = now /\ found' = found /\ cited' = cited /\ moved' \subseteq Versions
<1>. DEFINE gone == {e} \union {d \in Editors : Overtaken(e, d)}
<1>1. \A d \in Editors : d \in gone <=> on[d] = p
  BY DEF Overtaken
<1>2. /\ command' = [d \in Editors |-> IF d \in gone THEN "none" ELSE command[d]]
      /\ on' = [d \in Editors |-> IF d \in gone THEN AnyPolicy ELSE on[d]]
      /\ effective' = [d \in Editors |-> IF d \in gone THEN Always ELSE effective[d]]
      /\ alone' = [d \in Editors |-> alone[d] /\ d \notin gone /\ ~(activated /\ on[d] # on[e])]
      /\ moved' = (moved \union xs) \intersect found
      /\ now' = now /\ found' = found /\ cited' = cited
  BY DEF Ends, evidence
<1>. HIDE DEF gone
<1>3. CommandTypes'
  <2>1. command' \in [Editors -> Commands]
    BY <1>2 DEF Inv, TypeOK, Commands
  <2>2. on' \in [Editors -> Policies]
    BY <1>2, AnyPolicyIsOne DEF Inv, TypeOK
  <2>3. effective' \in [Editors -> {Always} \union Time]
    BY <1>2 DEF Inv, TypeOK
  <2>4. alone' \in [Editors -> BOOLEAN]
    BY <1>2
  <2>. QED
    BY <2>1, <2>2, <2>3, <2>4 DEF CommandTypes
<1>4. CommandsAway(p)
  <2>. SUFFICES ASSUME NEW d \in Editors, command'[d] # "none"
                PROVE  /\ command'[d] = command[d] /\ on'[d] = on[d] /\ effective'[d] = effective[d]
                       /\ on[d] # p
                       /\ alone'[d] => alone[d] /\ ActivatesNone(p)
    BY DEF CommandsAway
  <2>1. d \notin gone /\ command'[d] = command[d]
    BY <1>2
  <2>2. on[d] # p /\ on'[d] = on[d] /\ effective'[d] = effective[d]
    BY <1>1, <1>2, <2>1
  <2>3. alone'[d] = (alone[d] /\ d \notin gone /\ ~(activated /\ on[d] # on[e]))
    BY <1>2
  <2>4. alone'[d] => alone[d] /\ ~activated
    BY <2>2, <2>3
  <2>. QED
    BY <2>1, <2>2, <2>4
<1>5. moved' \subseteq Versions
  BY <1>2 DEF Inv, TypeOK
<1>. QED
  BY <1>2, <1>3, <1>4, <1>5

-----------------------------------------------------------------------------
(* The commands *)

\* A version added after the last one is a draft.
LEMMA AddVersionKeeps ==
  ASSUME Inv, NEW p \in Policies, NEW k \in Nat, Written(p) = 1 .. k,
         k + 1 \in Numbers(p), AddVersion(p, k + 1)
  PROVE  /\ WritesOnly(p) /\ ActivatesNone(p) /\ Immutable
         /\ RowTypes' /\ Matches(p)' /\ Numbered(p)' /\ Single(p)'
<1>. DEFINE new == <<p, k + 1>>
<1>1. PICK w \in DraftWindows :
        /\ versionStatus' = [versionStatus EXCEPT ![new] = "draft"]
        /\ from' = [from EXCEPT ![new] = w[1]]
        /\ to' = [to EXCEPT ![new] = w[2]]
        /\ policyStatus' = [policyStatus EXCEPT ![p] = "draft"]
        /\ current' = [current EXCEPT ![p] = k + 1]
  BY DEF AddVersion
<1>2. new \in Versions /\ new[1] = p
  BY VersionParts
<1>3. versionStatus[new] = "none"
  BY DEF Written
<1>4. RowTypes
  BY InvParts DEF Inv
<1>5. k + 1 \in Nat /\ k + 1 <= MaxVersion[p] /\ k + 1 # 0 /\ k + 1 \in 0 .. MaxVersion[p]
  BY NumbersParts
<1>. HIDE DEF new
<1>6. \A x \in Versions : x # new => /\ versionStatus'[x] = versionStatus[x]
                                     /\ from'[x] = from[x] /\ to'[x] = to[x]
  BY <1>1, <1>4 DEF RowTypes
<1>7. versionStatus'[new] = "draft" /\ from'[new] = w[1] /\ to'[new] = w[2]
  BY <1>1, <1>2, <1>4 DEF RowTypes
<1>8. policyStatus'[p] = "draft" /\ current'[p] = k + 1
  BY <1>1, <1>4 DEF RowTypes
<1>9. WritesOnly(p)
  BY <1>1, <1>2, <1>4, <1>6 DEF WritesOnly, RowTypes
<1>10. ActivatesNone(p)
  BY <1>6, <1>7 DEF ActivatesNone, Active
<1>11. Immutable
  BY <1>3, <1>6 DEF Immutable, Active
<1>12. RowTypes'
  <2>1. policyStatus' \in [Policies -> PolicyLifecycleStatus]
    BY <1>1, <1>4 DEF RowTypes, PolicyLifecycleStatus
  <2>2. current' \in [Policies -> Nat]
    BY <1>1, <1>4, <1>5 DEF RowTypes
  <2>3. \A q \in Policies : current'[q] <= MaxVersion[q]
    BY <1>4, <1>5, <1>8, <1>9 DEF RowTypes, WritesOnly
  <2>4. versionStatus' \in [Versions -> PolicyVersionStatus]
    BY <1>1, <1>4 DEF RowTypes, PolicyVersionStatus
  <2>5. from' \in [Versions -> {Always} \union Time] /\ to' \in [Versions -> Time \union {Forever}]
    BY <1>1, <1>4, Dates DEF RowTypes
  <2>6. \A x \in Versions : from'[x] < to'[x]
    BY <1>4, <1>6, <1>7, Dates DEF RowTypes
  <2>. QED
    BY <2>1, <2>2, <2>3, <2>4, <2>5, <2>6 DEF RowTypes
<1>13. Matches(p)'
  BY <1>5, <1>7, <1>8 DEF Matches, new
<1>14. Numbered(p)'
  <2>1. \A v \in Numbers(p) : v # k + 1 => versionStatus'[<<p, v>>] = versionStatus[<<p, v>>]
    BY <1>6, VersionParts DEF new
  <2>2. \A v \in Numbers(p) : versionStatus'[<<p, v>>] # "none" <=> v \in 1 .. k \/ v = k + 1
    BY <1>7, <2>1 DEF Written, new
  <2>3. \A v \in 1 .. k + 1 : v \in Numbers(p)
    BY <1>5, NumbersParts
  <2>4. Written(p)' = {v \in Numbers(p) : versionStatus'[<<p, v>>] # "none"}
    BY DEF Written
  <2>5. \A v : v \in 1 .. k + 1 <=> v \in 1 .. k \/ v = k + 1
    OBVIOUS
  <2>6. Written(p)' = 1 .. k + 1
    BY <2>2, <2>3, <2>4, <2>5
  <2>. QED
    BY <1>5, <1>8, <2>6 DEF Numbered
<1>15. Single(p)'
  <2>1. Single(p)
    BY InvParts DEF Inv
  <2>. QED
    BY <1>6, <1>7, <2>1 DEF Single
<1>. QED
  BY <1>9, <1>10, <1>11, <1>12, <1>13, <1>14, <1>15

\* No command is on a policy that does not exist.
LEMMA CreatePolicyInv ==
  ASSUME Inv, NEW p \in Policies, CreatePolicy(p)
  PROVE  Inv' /\ Immutable
<1>1. /\ policyStatus[p] = "none"
      /\ now' = now /\ skewed' = skewed /\ found' = found /\ cited' = cited /\ moved' = moved
      /\ command' = command /\ on' = on /\ effective' = effective /\ alone' = alone
  BY DEF CreatePolicy, commands, evidence
<1>2. current[p] = 0
  BY <1>1, ShownIsVersion, InvParts DEF Inv, Matches
<1>3. Written(p) = 1 .. 0
  <2>1. PICK k \in 0 .. MaxVersion[p] : Written(p) = 1 .. k /\ (current[p] = 0 => k = 0)
    BY InvParts DEF Inv, Numbered
  <2>. QED
    BY <1>2, <2>1
<1>4. CommandTypes' /\ moved' \subseteq Versions /\ skewed' \in BOOLEAN
  BY <1>1 DEF Inv, TypeOK, CommandTypes
<1>5. \A d \in Editors : command[d] # "none" => on[d] # p
  <2>. SUFFICES ASSUME NEW d \in Editors, command[d] # "none", on[d] = p
                PROVE  FALSE
    OBVIOUS
  <2>1. CommandStands(d) /\ command[d] \in Commands
    BY DEF Inv, CommandsStand, TypeOK
  <2>. QED
    BY <1>1, <1>2, <2>1 DEF CommandStands, Commands, CurrentIs
<1>6. ASSUME ActivatesNone(p)
      PROVE  CommandsAway(p)
  BY <1>1, <1>5, <1>6 DEF CommandsAway
<1>7. CASE AddVersion(p, 1)
  <2>1. 0 + 1 = 1 /\ 0 \in Nat
    OBVIOUS
  <2>2. AddVersion(p, 0 + 1) /\ 0 + 1 \in Numbers(p)
    BY <1>7, <2>1, NumbersParts
  <2>3. /\ WritesOnly(p) /\ ActivatesNone(p) /\ Immutable
        /\ RowTypes' /\ Matches(p)' /\ Numbered(p)' /\ Single(p)'
    BY <1>3, <2>1, <2>2, AddVersionKeeps
  <2>4. AuthorityIsSole'
    BY <1>1, <2>3, AuthorityStands
  <2>. QED
    BY <1>1, <1>4, <1>6, <2>3, <2>4, WriteInv
<1>8. CASE ParsingFails(p)
  <2>1. /\ policyStatus' = [policyStatus EXCEPT ![p] = "parsing_failed"]
        /\ UNCHANGED <<current, versionStatus, from, to>>
    BY <1>8 DEF ParsingFails
  <2>2. RowTypes
    BY InvParts DEF Inv
  <2>3. WritesOnly(p) /\ ActivatesNone(p) /\ Immutable
    BY <2>1, <2>2 DEF WritesOnly, ActivatesNone, Immutable, RowTypes, Active
  <2>4. RowTypes'
    BY <2>1, <2>2 DEF RowTypes, PolicyLifecycleStatus
  <2>5. Matches(p)'
    BY <1>2, <2>1, <2>2 DEF RowTypes, Matches
  <2>6. Numbered(p)' /\ Single(p)'
    BY <2>1, InvParts DEF Inv, Numbered, Single, Written
  <2>7. AuthorityIsSole'
    BY <1>1, <2>3, AuthorityStands
  <2>. QED
    BY <1>1, <1>4, <1>6, <2>3, <2>4, <2>5, <2>6, <2>7, WriteInv
<1>. QED
  BY <1>7, <1>8 DEF CreatePolicy

\* A new draft of a policy, or its first version after a failure to parse.
LEMMA DraftInv ==
  ASSUME Inv, NEW e \in Editors, CreateDraft(e) \/ RetrySource(e)
  PROVE  Inv' /\ Immutable
<1>1. PICK p \in Policies : p = on[e]
  BY DEF Inv, TypeOK
<1>2. PICK k \in 0 .. MaxVersion[p] : Written(p) = 1 .. k /\ (current[p] = 0 => k = 0)
  BY InvParts DEF Inv, Numbered
<1>3. k \in Nat
  BY NumbersParts
<1>4. /\ AddVersion(p, k + 1) /\ k + 1 \in Numbers(p) /\ skewed' = skewed
      /\ \E xs : Ends(e, FALSE, xs)
  <2>1. CASE CreateDraft(e)
    BY <1>1, <1>2, <1>3, <2>1, NextVersionIsNew DEF CreateDraft
  <2>2. CASE RetrySource(e)
    <3>1. CommandStands(e)
      BY DEF Inv, CommandsStand
    <3>2. k = 0
      BY <1>1, <1>2, <2>2, <3>1 DEF RetrySource, CommandStands
    <3>3. k + 1 = 1
      BY <3>2
    <3>. QED
      BY <1>1, <2>2, <3>3, NumbersParts DEF RetrySource
  <2>. QED
    BY <2>1, <2>2
<1>5. PICK xs : Ends(e, FALSE, xs)
  BY <1>4
<1>6. /\ WritesOnly(p) /\ ActivatesNone(p) /\ Immutable
      /\ RowTypes' /\ Matches(p)' /\ Numbered(p)' /\ Single(p)'
  BY <1>2, <1>3, <1>4, AddVersionKeeps
<1>7. /\ CommandTypes' /\ CommandsAway(p)
      /\ now' = now /\ found' = found /\ cited' = cited /\ moved' \subseteq Versions
  BY <1>1, <1>5, <1>6, EndsAway
<1>8. AuthorityIsSole' /\ skewed' \in BOOLEAN
  BY <1>4, <1>6, AuthorityStands DEF Inv, TypeOK
<1>. QED
  BY <1>6, <1>7, <1>8, WriteInv

\* A step that adds no version and removes none keeps the numbering.
LEMMA NumberingStays ==
  ASSUME Inv, NEW p \in Policies,
         \A x \in Versions : x[1] = p => (versionStatus'[x] = "none" <=> versionStatus[x] = "none"),
         \/ current'[p] = current[p]
         \/ \E v \in Written(p) : current'[p] = v
  PROVE  Numbered(p)'
<1>1. PICK k \in 0 .. MaxVersion[p] :
        Written(p) = 1 .. k /\ current[p] <= k /\ (current[p] = 0 => k = 0)
  BY InvParts DEF Inv, Numbered
<1>2. Written(p)' = Written(p)
  <2>1. \A v \in Numbers(p) : versionStatus'[<<p, v>>] = "none" <=> versionStatus[<<p, v>>] = "none"
    BY VersionParts
  <2>. QED
    BY <2>1 DEF Written
<1>3. CASE current'[p] = current[p]
  BY <1>1, <1>2, <1>3 DEF Numbered
<1>4. CASE \E v \in Written(p) : current'[p] = v
  <2>1. PICK v \in 1 .. k : current'[p] = v
    BY <1>1, <1>4
  <2>2. v <= k /\ v # 0
    BY NumbersParts
  <2>. QED
    BY <1>1, <1>2, <2>1, <2>2 DEF Numbered
<1>. QED
  BY <1>3, <1>4

\* The draft goes into review, or its publication found a conflict.
LEMMA ReviewInv ==
  ASSUME Inv, NEW e \in Editors, SubmitReview(e) \/ MarkConflicting(e)
  PROVE  Inv' /\ Immutable
<1>1. PICK p \in Policies : p = on[e]
  BY DEF Inv, TypeOK
<1>2. PICK x : x = Shown(p)
  OBVIOUS
<1>3. CommandStands(e) /\ RowTypes /\ Single(p)
  BY InvParts DEF Inv, CommandsStand
<1>4. /\ current' = current /\ from' = from /\ to' = to /\ skewed' = skewed
      /\ Ends(e, FALSE, {x})
  BY <1>1, <1>2 DEF SubmitReview, MarkConflicting, Shown
<1>5. /\ current[p] # 0 /\ versionStatus[x] \in {"draft", "in_review"}
      /\ \/ /\ policyStatus' = [policyStatus EXCEPT ![p] = "in_review"]
            /\ versionStatus' = [versionStatus EXCEPT ![x] = "in_review"]
         \/ /\ policyStatus' = [policyStatus EXCEPT ![p] = "conflicting"]
            /\ versionStatus' = versionStatus
            /\ versionStatus[x] = "in_review"
  BY <1>1, <1>2, <1>3 DEF SubmitReview, MarkConflicting, Becomes, CommandStands, CurrentIs, Shown
<1>6. x \in Versions /\ x[1] = p /\ x = <<p, current[p]>>
  BY <1>2, <1>5, ShownIsVersion
<1>7. /\ versionStatus'[x] = "in_review"
      /\ \A y \in Versions : y # x => versionStatus'[y] = versionStatus[y]
      /\ policyStatus'[p] \in {"in_review", "conflicting"}
  BY <1>3, <1>5, <1>6 DEF RowTypes
<1>8. WritesOnly(p)
  BY <1>3, <1>4, <1>5, <1>6, <1>7 DEF WritesOnly, RowTypes
<1>9. ActivatesNone(p) /\ Immutable
  BY <1>4, <1>5, <1>7 DEF ActivatesNone, Immutable, Active
<1>10. RowTypes'
  BY <1>3, <1>4, <1>5 DEF RowTypes, PolicyLifecycleStatus, PolicyVersionStatus
<1>11. Matches(p)'
  BY <1>4, <1>5, <1>6, <1>7 DEF Matches
<1>12. Numbered(p)'
  BY <1>4, <1>5, <1>7, NumberingStays
<1>13. Single(p)'
  BY <1>3, <1>7 DEF Single
<1>14. /\ CommandTypes' /\ CommandsAway(p)
       /\ now' = now /\ found' = found /\ cited' = cited /\ moved' \subseteq Versions
  BY <1>1, <1>4, <1>9, EndsAway
<1>15. AuthorityIsSole' /\ skewed' \in BOOLEAN
  BY <1>4, <1>8, <1>9, AuthorityStands DEF Inv, TypeOK
<1>. QED
  BY <1>8, <1>9, <1>10, <1>11, <1>12, <1>13, <1>14, <1>15, WriteInv

\* Publishing or scheduling: nothing in force competes with the version
\* unless another policy was activated after the candidates were read.
LEMMA ActivateInv ==
  ASSUME Inv, NEW e \in Editors, NEW target \in {"published", "scheduled"},
         ActivateVersion(e, target)
  PROVE  Inv' /\ Immutable
<1>1. PICK p \in Policies : p = on[e]
  BY DEF Inv, TypeOK
<1>2. PICK x : x = Shown(p)
  OBVIOUS
<1>3. PICK f : f = effective[e]
  OBVIOUS
<1>4. PICK ys : ys = IF target = "published" THEN Previous(p, x) ELSE {}
  OBVIOUS
<1>5. CommandStands(e) /\ RowTypes /\ Single(p)
  BY InvParts DEF Inv, CommandsStand
<1>6. /\ command[e] = target
      /\ f < to[x] /\ EffectiveOrder(ys, f)
      /\ policyStatus' = [policyStatus EXCEPT ![p] = target]
      /\ versionStatus' = [y \in Versions |-> IF y \in ys THEN "retired"
                                              ELSE IF y = x THEN target ELSE versionStatus[y]]
      /\ from' = [from EXCEPT ![x] = f]
      /\ to' = [y \in Versions |-> IF y \in ys THEN Shortened(y, f) ELSE to[y]]
      /\ skewed' = (skewed \/ ~alone[e])
      /\ Ends(e, TRUE, ys \union {x})
      /\ current' = current
  BY <1>1, <1>2, <1>3, <1>4 DEF ActivateVersion, Shown
<1>7. /\ current[p] # 0 /\ versionStatus[x] = "in_review"
      /\ f \in Time
      /\ alone[e] => FindConflicts(p, f, to[x]) = {}
  BY <1>1, <1>2, <1>3, <1>5, <1>6 DEF CommandStands, CurrentIs, Shown
<1>8. x \in Versions /\ x[1] = p /\ x = <<p, current[p]>>
  BY <1>2, <1>7, ShownIsVersion
<1>9. /\ \A y \in ys : y \in Versions /\ y[1] = p /\ y # x /\ Active(y)
      /\ target = "published" => \A y \in Versions : y[1] = p /\ y # x /\ Active(y) => y \in ys
  BY <1>4, VersionParts DEF Previous
<1>10. /\ x \notin ys
       /\ versionStatus'[x] = target /\ from'[x] = f /\ to'[x] = to[x]
       /\ \A y \in ys : versionStatus'[y] = "retired" /\ from'[y] = from[y] /\ to'[y] = Shortened(y, f)
       /\ \A y \in Versions : y # x /\ y \notin ys =>
            versionStatus'[y] = versionStatus[y] /\ from'[y] = from[y] /\ to'[y] = to[y]
  BY <1>5, <1>6, <1>8, <1>9 DEF RowTypes
<1>11. WritesOnly(p)
  BY <1>5, <1>6, <1>8, <1>9, <1>10 DEF WritesOnly, RowTypes
<1>12. Immutable
  <2>. SUFFICES ASSUME NEW y \in Versions
                PROVE  /\ Active(y) => /\ versionStatus'[y] \in {versionStatus[y], "retired"}
                                       /\ from'[y] = from[y]
                       /\ versionStatus[y] = "retired" =>
                            versionStatus'[y] = "retired" /\ from'[y] = from[y] /\ to'[y] = to[y]
    BY DEF Immutable
  <2>1. CASE y = x
    BY <1>7, <2>1 DEF Active
  <2>2. CASE y \in ys
    BY <1>9, <1>10, <2>2 DEF Active
  <2>3. CASE y # x /\ y \notin ys
    BY <1>10, <2>3
  <2>. QED
    BY <2>1, <2>2, <2>3
<1>13. \A y \in ys : /\ Shortened(y, f) \in Time \union {Forever}
                     /\ from[y] < Shortened(y, f)
  <2>. SUFFICES ASSUME NEW y \in ys
                PROVE  /\ Shortened(y, f) \in Time \union {Forever}
                       /\ from[y] < Shortened(y, f)
    OBVIOUS
  <2>1. f \in Nat \ {0} /\ to[y] \in Nat \ {0} /\ to[y] \in Time \union {Forever}
    BY <1>5, <1>7, <1>9, Dates DEF RowTypes
  <2>2. Shortened(y, f) \in {to[y], f}
    BY <2>1, MinOfTwo DEF Shortened
  <2>3. Shortened(y, f) \in Nat \ {0} /\ Shortened(y, f) \in Time \union {Forever}
    BY <1>7, <2>1, <2>2
  <2>4. from[y] = 0 \/ from[y] < Shortened(y, f)
    BY <1>6 DEF EffectiveOrder, Always
  <2>. QED
    BY <2>3, <2>4
<1>14. RowTypes'
  <2>1. policyStatus' \in [Policies -> PolicyLifecycleStatus]
    BY <1>5, <1>6 DEF RowTypes, PolicyLifecycleStatus
  <2>2. versionStatus' \in [Versions -> PolicyVersionStatus]
    BY <1>5, <1>6 DEF RowTypes, PolicyVersionStatus
  <2>3. from' \in [Versions -> {Always} \union Time]
    BY <1>5, <1>6, <1>7 DEF RowTypes
  <2>4. to' \in [Versions -> Time \union {Forever}]
    BY <1>5, <1>6, <1>13 DEF RowTypes
  <2>5. \A y \in Versions : from'[y] < to'[y]
    BY <1>5, <1>6, <1>10, <1>13 DEF RowTypes
  <2>. QED
    BY <1>5, <1>6, <2>1, <2>2, <2>3, <2>4, <2>5 DEF RowTypes
<1>15. Matches(p)'
  BY <1>5, <1>6, <1>7, <1>8, <1>10 DEF Matches, RowTypes
<1>16. Numbered(p)'
  <2>1. \A y \in Versions : versionStatus'[y] = "none" <=> versionStatus[y] = "none"
    BY <1>7, <1>9, <1>10 DEF Active
  <2>. QED
    BY <1>6, <2>1, NumberingStays
<1>17. Single(p)'
  <2>1. \A y \in Versions : y[1] = p /\ versionStatus'[y] = "published" =>
          IF target = "published" THEN y = x ELSE versionStatus[y] = "published"
    BY <1>9, <1>10 DEF Active
  <2>. QED
    BY <1>5, <2>1 DEF Single
<1>18. /\ CommandTypes' /\ CommandsAway(p)
       /\ now' = now /\ found' = found /\ cited' = cited /\ moved' \subseteq Versions
  BY <1>1, <1>6, EndsAway
<1>19. AuthorityIsSole'
  <2>. SUFFICES ASSUME ~skewed',
                       NEW y \in Versions, NEW z \in Versions, y[1] # z[1], Active(y)', Active(z)'
                PROVE  ~TimeWindowsOverlap(from'[y], to'[y], from'[z], to'[z])
    BY DEF AuthorityIsSole, TimeWindowsOverlap
  <2>1. ~skewed /\ alone[e]
    BY <1>6
  <2>2. \A u \in Versions : u # x /\ Active(u)' =>
          Active(u) /\ from'[u] = from[u] /\ to'[u] = to[u]
    BY <1>10 DEF Active
  <2>3. \A u \in Versions : u[1] # p /\ Active(u) =>
          ~TimeWindowsOverlap(f, to[x], from[u], to[u])
    BY <1>7, <2>1, VersionParts DEF FindConflicts
  <2>4. CASE y = x
    <3>1. z # x /\ z[1] # p
      BY <1>8, <2>4
    <3>. QED
      BY <1>10, <2>2, <2>3, <2>4, <3>1
  <2>5. CASE z = x
    <3>1. y # x /\ y[1] # p
      BY <1>8, <2>5
    <3>2. ~TimeWindowsOverlap(f, to[x], from[y], to[y])
      BY <2>2, <2>3, <3>1
    <3>. QED
      BY <1>10, <2>2, <2>5, <3>1, <3>2, OverlapIsSymmetric
  <2>6. CASE y # x /\ z # x
    BY <2>1, <2>2, <2>6 DEF Inv, AuthorityIsSole
  <2>. QED
    BY <2>4, <2>5, <2>6
<1>20. skewed' \in BOOLEAN
  BY <1>6
<1>. QED
  BY <1>11, <1>12, <1>14, <1>15, <1>16, <1>17, <1>18, <1>19, <1>20, WriteInv

\* Retiring a version; cancelling a schedule shows the published one again.
LEMMA RetireInv ==
  ASSUME Inv, NEW e \in Editors, RetireVersion(e)
  PROVE  Inv' /\ Immutable
<1>1. PICK p \in Policies : p = on[e]
  BY DEF Inv, TypeOK
<1>2. PICK x : x = Shown(p)
  OBVIOUS
<1>3. PICK back : back = IF versionStatus[x] = "scheduled" THEN Restorable(p, x) ELSE {}
  OBVIOUS
<1>4. CommandStands(e) /\ RowTypes /\ Single(p)
  BY InvParts DEF Inv, CommandsStand
<1>5. /\ command[e] = "retire"
      /\ policyStatus' = [policyStatus EXCEPT ![p] = IF back = {} THEN "retired" ELSE "published"]
      /\ current' = [current EXCEPT ![p] = IF back = {} THEN @ ELSE Max({y[2] : y \in back})]
      /\ versionStatus' = [versionStatus EXCEPT ![x] = "retired"]
      /\ to' = [to EXCEPT ![x] = IF from[x] < now /\ now < @ THEN now ELSE @]
      /\ Ends(e, FALSE, {x})
      /\ from' = from /\ skewed' = skewed
  BY <1>1, <1>2, <1>3 DEF RetireVersion, Shown
<1>6. current[p] # 0 /\ Active(x)
  BY <1>1, <1>2, <1>4, <1>5 DEF CommandStands, CurrentIs, Shown, Active
<1>7. x \in Versions /\ x[1] = p /\ x = <<p, current[p]>>
  BY <1>2, <1>6, ShownIsVersion
<1>8. /\ versionStatus'[x] = "retired"
      /\ \A y \in Versions : y # x => versionStatus'[y] = versionStatus[y] /\ to'[y] = to[y]
  BY <1>4, <1>5, <1>7 DEF RowTypes
<1>9. \A y \in back : y \in Versions /\ y[1] = p /\ y # x /\ versionStatus[y] = "published"
  BY <1>3, VersionParts DEF Restorable
<1>10. /\ back = {} => current'[p] = current[p] /\ policyStatus'[p] = "retired"
       /\ back # {} => \E v \in Written(p) : /\ current'[p] = v /\ policyStatus'[p] = "published"
                                             /\ <<p, v>> \in back
  <2>1. CASE back = {}
    BY <1>4, <1>5, <2>1 DEF RowTypes
  <2>2. CASE back # {}
    <3>1. PICK y : y \in back
      BY <2>2
    <3>2. back = {y}
      BY <1>4, <1>9, <3>1 DEF Single
    <3>3. {z[2] : z \in back} = {y[2]}
      BY <3>2
    <3>4. y[2] \in Numbers(p) /\ y = <<p, y[2]>>
      BY <1>9, <3>1, VersionParts
    <3>5. y[2] \in Nat
      BY <3>4, NumbersParts
    <3>6. current'[p] = y[2] /\ policyStatus'[p] = "published"
      BY <1>4, <1>5, <2>2, <3>3, <3>5, MaxOfOne DEF RowTypes
    <3>7. y[2] \in Written(p)
      BY <1>9, <3>1, <3>4 DEF Written
    <3>. QED
      BY <2>2, <3>1, <3>4, <3>6, <3>7
  <2>. QED
    BY <2>1, <2>2
<1>11. WritesOnly(p)
  BY <1>4, <1>5, <1>7, <1>8 DEF WritesOnly, RowTypes
<1>12. ActivatesNone(p)
  BY <1>5, <1>8 DEF ActivatesNone, Active
<1>13. Immutable
  BY <1>5, <1>6, <1>8 DEF Immutable, Active
<1>14. Numbered(p)'
  <2>1. \A y \in Versions : versionStatus'[y] = "none" <=> versionStatus[y] = "none"
    BY <1>6, <1>8 DEF Active
  <2>. QED
    BY <1>10, <2>1, NumberingStays
<1>15. RowTypes'
  <2>1. policyStatus' \in [Policies -> PolicyLifecycleStatus]
    BY <1>4, <1>5 DEF RowTypes, PolicyLifecycleStatus
  <2>2. current'[p] \in Nat /\ current'[p] <= MaxVersion[p]
    <3>1. CASE back = {}
      BY <1>4, <1>10, <3>1 DEF RowTypes
    <3>2. CASE back # {}
      <4>1. PICK v \in Written(p) : current'[p] = v
        BY <1>10, <3>2
      <4>2. v \in Numbers(p)
        BY DEF Written
      <4>. QED
        BY <4>1, <4>2, NumbersParts
    <3>. QED
      BY <3>1, <3>2
  <2>3. current' = [current EXCEPT ![p] = current'[p]]
    BY <1>4, <1>5 DEF RowTypes
  <2>4. current' \in [Policies -> Nat]
    BY <1>4, <2>2, <2>3 DEF RowTypes
  <2>5. \A q \in Policies : current'[q] <= MaxVersion[q]
    BY <1>4, <1>11, <2>2 DEF RowTypes, WritesOnly
  <2>6. versionStatus' \in [Versions -> PolicyVersionStatus]
    BY <1>4, <1>5 DEF RowTypes, PolicyVersionStatus
  <2>7. from'[x] < to'[x] /\ to'[x] \in Time \union {Forever}
    <3>1. now \in Time /\ from[x] < to[x] /\ to[x] \in Time \union {Forever}
      BY <1>4, <1>7 DEF Inv, TypeOK, RowTypes
    <3>2. to'[x] = IF from[x] < now /\ now < to[x] THEN now ELSE to[x]
      BY <1>4, <1>5, <1>7 DEF RowTypes
    <3>. QED
      BY <1>5, <3>1, <3>2
  <2>8. to' = [to EXCEPT ![x] = to'[x]]
    BY <1>4, <1>5, <1>7 DEF RowTypes
  <2>9. to' \in [Versions -> Time \union {Forever}]
    BY <1>4, <2>7, <2>8 DEF RowTypes
  <2>10. \A y \in Versions : from'[y] < to'[y]
    BY <1>4, <1>5, <1>8, <2>7 DEF RowTypes
  <2>. QED
    BY <1>4, <1>5, <2>1, <2>4, <2>5, <2>6, <2>9, <2>10 DEF RowTypes
<1>16. Matches(p)'
  <2>1. CASE back = {}
    BY <1>6, <1>7, <1>8, <1>10, <2>1 DEF Matches
  <2>2. CASE back # {}
    <3>1. PICK v \in Written(p) : current'[p] = v /\ policyStatus'[p] = "published" /\ <<p, v>> \in back
      BY <1>10, <2>2
    <3>2. v # 0
      BY <3>1, NumbersParts DEF Written
    <3>3. versionStatus'[<<p, v>>] = "published"
      BY <1>8, <1>9, <3>1
    <3>. QED
      BY <3>1, <3>2, <3>3 DEF Matches
  <2>. QED
    BY <2>1, <2>2
<1>17. Single(p)'
  BY <1>4, <1>8 DEF Single
<1>18. /\ CommandTypes' /\ CommandsAway(p)
       /\ now' = now /\ found' = found /\ cited' = cited /\ moved' \subseteq Versions
  BY <1>1, <1>5, <1>12, EndsAway
<1>19. AuthorityIsSole' /\ skewed' \in BOOLEAN
  BY <1>5, <1>11, <1>12, AuthorityStands DEF Inv, TypeOK
<1>. QED
  BY <1>11, <1>13, <1>14, <1>15, <1>16, <1>17, <1>18, <1>19, WriteInv

\* Steps that write no policy.
LEMMA RowsStand ==
  ASSUME Inv, UNCHANGED <<rows, skewed>>
  PROVE  /\ RowTypes' /\ PolicyMatchesVersion' /\ AuthorityIsSole' /\ NumbersStand' /\ OnePublished'
         /\ skewed' \in BOOLEAN
         /\ Immutable
<1>1. UNCHANGED <<policyStatus, current, versionStatus, from, to, skewed>>
  BY DEF rows
<1>2. RowTypes' /\ skewed' \in BOOLEAN
  BY <1>1 DEF Inv, TypeOK, RowTypes
<1>3. PolicyMatchesVersion' /\ AuthorityIsSole'
  BY <1>1 DEF Inv, PolicyMatchesVersion, AuthorityIsSole, Active, TimeWindowsOverlap
<1>4. NumbersStand' /\ OnePublished'
  BY <1>1 DEF Inv, NumbersStand, OnePublished, Written
<1>5. Immutable
  BY <1>1 DEF Immutable, Active
<1>. QED
  BY <1>2, <1>3, <1>4, <1>5

\* What a command has read does not depend on the other commands.
LEMMA OtherCommandsStand ==
  ASSUME Inv, UNCHANGED rows, NEW d \in Editors,
         command'[d] = command[d], on'[d] = on[d], effective'[d] = effective[d], alone'[d] = alone[d]
  PROVE  CommandStands(d)'
<1>1. UNCHANGED <<policyStatus, current, versionStatus, from, to>>
  BY DEF rows
<1>2. CommandStands(d)
  BY DEF Inv, CommandsStand
<1>. QED
  BY <1>1, <1>2 DEF CommandStands, CurrentIs, FindConflicts, Active, TimeWindowsOverlap, Shown

\* A command that begins has just read what it relies on.
LEMMA BeginInv ==
  ASSUME Inv, NEW e \in Editors, Begin(e)
  PROVE  Inv' /\ Immutable
<1>1. PICK p \in Policies :
        BeginDraft(e, p) \/ BeginRetry(e, p) \/ BeginSubmit(e, p) \/ BeginActivate(e, p) \/ BeginRetire(e, p)
  BY DEF Begin
<1>2. PICK c \in Commands : Begins(e, p, c)
  BY <1>1 DEF BeginDraft, BeginRetry, BeginSubmit, BeginActivate, BeginRetire, Commands
<1>3. /\ UNCHANGED <<rows, now, skewed, found, cited, moved>>
      /\ command' = [command EXCEPT ![e] = c] /\ on' = [on EXCEPT ![e] = p]
      /\ alone' = [alone EXCEPT ![e] = c \in {"published", "scheduled"}]
  BY <1>2 DEF Begins, evidence
<1>4. PICK f \in {Always} \union Time : effective' = [effective EXCEPT ![e] = f]
  <2>1. CASE UNCHANGED effective
    BY <2>1 DEF Inv, TypeOK
  <2>2. CASE BeginActivate(e, p)
    BY <2>2 DEF BeginActivate
  <2>. QED
    BY <1>1, <2>1, <2>2 DEF BeginDraft, BeginRetry, BeginSubmit, BeginRetire
<1>5. CommandTypes'
  <2>1. command' \in [Editors -> Commands] /\ on' \in [Editors -> Policies]
    BY <1>3 DEF Inv, TypeOK
  <2>2. effective' \in [Editors -> {Always} \union Time]
    BY <1>4 DEF Inv, TypeOK
  <2>3. alone' \in [Editors -> BOOLEAN]
    BY <1>3 DEF Inv, TypeOK
  <2>. QED
    BY <2>1, <2>2, <2>3 DEF CommandTypes
<1>6. /\ RowTypes' /\ PolicyMatchesVersion' /\ AuthorityIsSole' /\ NumbersStand' /\ OnePublished'
      /\ skewed' \in BOOLEAN /\ Immutable
  BY <1>3, RowsStand
<1>7. command'[e] = c /\ on'[e] = p /\ effective'[e] = f
  BY <1>3, <1>4 DEF Inv, TypeOK
<1>8. /\ c = "create_draft" => current[p] # 0
      /\ c = "retry_source" => policyStatus[p] = "parsing_failed" /\ current[p] = 0
      /\ c = "submit_review" => CurrentIs(p, {"draft"})
      /\ c = "retire" => CurrentIs(p, {"published", "scheduled"})
      /\ c \in {"published", "scheduled", "mark_conflicting"} => CurrentIs(p, {"in_review"})
      /\ c \in {"published", "scheduled"} =>
           f \in Time /\ FindConflicts(p, f, to[Shown(p)]) = {}
      /\ c # "none"
  <2>1. CASE BeginDraft(e, p)
    <3>1. c = "create_draft"
      BY <1>7, <2>1 DEF BeginDraft, Begins, Inv, TypeOK
    <3>2. current[p] # 0
      BY <2>1, InvParts DEF BeginDraft, Inv, Matches
    <3>. QED
      BY <3>1, <3>2
  <2>2. CASE BeginRetry(e, p)
    <3>1. c = "retry_source"
      BY <1>7, <2>2 DEF BeginRetry, Begins, Inv, TypeOK
    <3>. QED
      BY <2>2, <3>1 DEF BeginRetry
  <2>3. CASE BeginSubmit(e, p)
    <3>1. c = "submit_review"
      BY <1>7, <2>3 DEF BeginSubmit, Begins, Inv, TypeOK
    <3>. QED
      BY <2>3, <3>1 DEF BeginSubmit
  <2>4. CASE BeginRetire(e, p)
    <3>1. c = "retire"
      BY <1>7, <2>4 DEF BeginRetire, Begins, Inv, TypeOK
    <3>. QED
      BY <2>4, <3>1 DEF BeginRetire
  <2>5. CASE BeginActivate(e, p)
    <3>1. PICK g \in Time, target \in {"published", "scheduled"} :
            /\ effective' = [effective EXCEPT ![e] = g]
            /\ IF FindConflicts(p, g, to[<<p, current[p]>>]) = {}
                 THEN Begins(e, p, target)
                 ELSE Begins(e, p, "mark_conflicting")
      BY <2>5 DEF BeginActivate
    <3>2. g = f
      BY <1>7, <3>1 DEF Inv, TypeOK
    <3>3. c = IF FindConflicts(p, g, to[Shown(p)]) = {} THEN target ELSE "mark_conflicting"
      BY <1>7, <3>1 DEF Begins, Inv, TypeOK, Shown
    <3>. QED
      BY <2>5, <3>2, <3>3 DEF BeginActivate
  <2>. QED
    BY <1>1, <2>1, <2>2, <2>3, <2>4, <2>5
<1>9. CommandStands(e)'
  <2>1. UNCHANGED <<policyStatus, current, versionStatus, from, to>>
    BY <1>3 DEF rows
  <2>2. \A states : CurrentIs(p, states)' <=> CurrentIs(p, states)
    BY <2>1 DEF CurrentIs
  <2>3. FindConflicts(p, f, to[Shown(p)])' = FindConflicts(p, f, to[Shown(p)])
    BY <2>1 DEF FindConflicts, Active, TimeWindowsOverlap, Shown
  <2>4. FindConflicts(p, effective[e], to[Shown(p)])' = FindConflicts(p, f, to[Shown(p)])'
    BY <1>7
  <2>. QED
    BY <1>7, <1>8, <2>1, <2>2, <2>3, <2>4 DEF CommandStands
<1>10. \A d \in Editors \ {e} : CommandStands(d)'
  <2>. TAKE d \in Editors \ {e}
  <2>1. /\ command'[d] = command[d] /\ on'[d] = on[d]
        /\ effective'[d] = effective[d] /\ alone'[d] = alone[d]
    BY <1>3, <1>4 DEF Inv, TypeOK
  <2>. QED
    BY <1>3, <2>1, OtherCommandsStand
<1>11. FoundStands'
  BY <1>3, <1>6, FoundStays
<1>12. TypeOK'
  BY <1>3, <1>5, <1>6 DEF Inv, TypeOK, RowTypes, CommandTypes
<1>. QED
  BY <1>6, <1>9, <1>10, <1>11, <1>12 DEF Inv, CommandsStand

LEMMA CommandFailsInv ==
  ASSUME Inv, NEW e \in Editors, CommandFails(e)
  PROVE  Inv' /\ Immutable
<1>1. /\ UNCHANGED <<rows, now, skewed, found, cited, moved>>
      /\ command' = [command EXCEPT ![e] = "none"] /\ on' = [on EXCEPT ![e] = AnyPolicy]
      /\ effective' = [effective EXCEPT ![e] = Always] /\ alone' = [alone EXCEPT ![e] = FALSE]
  BY DEF CommandFails, evidence
<1>2. CommandTypes'
  BY <1>1, AnyPolicyIsOne DEF Inv, TypeOK, CommandTypes, Commands
<1>3. /\ RowTypes' /\ PolicyMatchesVersion' /\ AuthorityIsSole' /\ NumbersStand' /\ OnePublished'
      /\ skewed' \in BOOLEAN /\ Immutable
  BY <1>1, RowsStand
<1>4. CommandsStand'
  <2>1. command'[e] = "none"
    BY <1>1 DEF Inv, TypeOK
  <2>2. CommandStands(e)'
    BY <2>1 DEF CommandStands
  <2>3. \A d \in Editors \ {e} : CommandStands(d)'
    <3>. TAKE d \in Editors \ {e}
    <3>1. /\ command'[d] = command[d] /\ on'[d] = on[d]
          /\ effective'[d] = effective[d] /\ alone'[d] = alone[d]
      BY <1>1 DEF Inv, TypeOK
    <3>. QED
      BY <1>1, <3>1, OtherCommandsStand
  <2>. QED
    BY <2>2, <2>3 DEF CommandsStand
<1>5. FoundStands'
  BY <1>1, <1>3, FoundStays
<1>6. TypeOK'
  BY <1>1, <1>2, <1>3 DEF Inv, TypeOK, RowTypes, CommandTypes
<1>. QED
  BY <1>3, <1>4, <1>5, <1>6 DEF Inv

LEMMA TickInv ==
  ASSUME Inv, Tick
  PROVE  Inv' /\ Immutable
<1>1. /\ now < MaxTime /\ now' = now + 1
      /\ UNCHANGED <<rows, command, on, effective, alone, skewed, found, cited, moved>>
  BY DEF Tick, commands, evidence
<1>2. now' \in Time /\ now \in Nat
  BY <1>1, Dates DEF Inv, TypeOK, Time
<1>3. /\ RowTypes' /\ PolicyMatchesVersion' /\ AuthorityIsSole' /\ NumbersStand' /\ OnePublished'
      /\ skewed' \in BOOLEAN /\ Immutable
  BY <1>1, RowsStand
<1>4. CommandsStand'
  BY <1>1, OtherCommandsStand DEF CommandsStand
<1>5. TypeOK'
  BY <1>1, <1>2, <1>3 DEF Inv, TypeOK, RowTypes
<1>6. FoundStands'
  <2>1. \A x \in found : from[x] \in Nat /\ from[x] <= now
    BY Dates DEF Inv, TypeOK, FoundStands
  <2>2. \A x \in found : from[x] <= now'
    BY <1>1, <1>2, <2>1
  <2>. QED
    BY <1>1, <2>2 DEF Inv, FoundStands, rows
<1>. QED
  BY <1>3, <1>4, <1>5, <1>6 DEF Inv

\* A guarded search answers with versions of one policy.
LEMMA GuardedIsOnePolicy ==
  ASSUME NEW hits \in SUBSET Versions
  PROVE  /\ Guarded(hits) \subseteq hits
         /\ \A x, y \in Guarded(hits) : x[1] = y[1]
<1>. DEFINE owners == {x[1] : x \in hits}
<1>1. IsFiniteSet(owners)
  <2>1. owners \in SUBSET Policies
    BY VersionParts
  <2>. QED
    BY <2>1, PoliciesAssumption, FS_Subset
<1>2. Cardinality(owners) = 1 => \A x, y \in hits : x[1] = y[1]
  <2>. SUFFICES ASSUME Cardinality(owners) = 1, NEW x \in hits, NEW y \in hits
                PROVE  x[1] = y[1]
    OBVIOUS
  <2>1. PICK o : owners = {o}
    BY <1>1, FS_Singleton
  <2>. QED
    BY <2>1
<1>. QED
  BY <1>2 DEF Guarded

\* A case's evidence is searched, recorded, or the search is given up.
LEMMA EvidenceInv ==
  ASSUME Inv, Search \/ BindEvidence \/ SearchEnds
  PROVE  Inv' /\ Immutable
<1>1. UNCHANGED <<rows, now, command, on, effective, alone, skewed>>
  BY DEF Search, BindEvidence, SearchEnds, commands
<1>2. /\ RowTypes' /\ PolicyMatchesVersion' /\ AuthorityIsSole' /\ NumbersStand' /\ OnePublished'
      /\ skewed' \in BOOLEAN /\ Immutable
  BY <1>1, RowsStand
<1>3. CommandsStand'
  BY <1>1, OtherCommandsStand DEF CommandsStand
<1>4. /\ found' \subseteq Versions /\ moved' \subseteq Versions /\ cited' \subseteq Versions
      /\ FoundStands'
  <2>1. CASE Search
    <3>. DEFINE hits == {x \in Versions : InForce(x)}
    <3>1. found' = Guarded(hits) /\ moved' = moved /\ cited' = cited
      BY <2>1 DEF Search, Resolve
    <3>2. hits \in SUBSET Versions
      OBVIOUS
    <3>3. found' \subseteq hits /\ \A x, y \in found' : x[1] = y[1]
      BY <3>1, <3>2, GuardedIsOnePolicy
    <3>4. \A x \in found' : Active(x) /\ from[x] <= now
      BY <3>3 DEF InForce
    <3>. QED
      BY <1>1, <3>1, <3>2, <3>3, <3>4 DEF Inv, TypeOK, FoundStands, Active, rows
  <2>2. CASE BindEvidence \/ SearchEnds
    <3>1. found' = {} /\ moved' = {} /\ (cited' = cited \/ cited' \subseteq found)
      BY <2>2 DEF BindEvidence, SearchEnds
    <3>. QED
      BY <3>1 DEF Inv, TypeOK, FoundStands
  <2>. QED
    BY <2>1, <2>2
<1>5. TypeOK'
  BY <1>1, <1>2, <1>4 DEF Inv, TypeOK, RowTypes
<1>. QED
  BY <1>2, <1>3, <1>4, <1>5 DEF Inv

LEMMA InitInv == Init => Inv
<1>. SUFFICES ASSUME Init
              PROVE  Inv
  OBVIOUS
<1>1. \A p \in Policies : /\ 1 \in Numbers(p) /\ <<p, 1>> \in Versions
                          /\ MaxVersion[p] \in Nat \ {0} /\ Numbers(p) = 1 .. MaxVersion[p]
  BY NumbersParts, VersionParts
<1>2. PICK legacy \in SUBSET Policies :
        /\ \A p, q \in legacy : p = q
        /\ policyStatus = [q \in Policies |-> IF q \in legacy THEN "published" ELSE "none"]
        /\ current = [q \in Policies |-> IF q \in legacy THEN 1 ELSE 0]
        /\ versionStatus = [x \in Versions |-> IF x[1] \in legacy /\ x[2] = 1
                                               THEN "published" ELSE "none"]
  <2>1. CASE NoPolicies
    <3>. WITNESS {} \in SUBSET Policies
    <3>. QED
      BY <2>1 DEF NoPolicies
  <2>2. CASE \E p \in Policies : ImportLegacyPolicy(p)
    <3>1. PICK p \in Policies : ImportLegacyPolicy(p)
      BY <2>2
    <3>2. \A x \in Versions : x = <<p, 1>> <=> x[1] \in {p} /\ x[2] = 1
      BY VersionParts
    <3>. WITNESS {p} \in SUBSET Policies
    <3>. QED
      BY <3>1, <3>2 DEF ImportLegacyPolicy
  <2>. QED
    BY <2>1, <2>2 DEF Init
<1>3. /\ from = [x \in Versions |-> Always] /\ to = [x \in Versions |-> Forever]
      /\ now = 1 /\ command = [e \in Editors |-> "none"] /\ on = [e \in Editors |-> AnyPolicy]
      /\ effective = [e \in Editors |-> Always] /\ alone = [e \in Editors |-> FALSE]
      /\ skewed = FALSE /\ found = {} /\ moved = {} /\ cited = {}
  BY DEF Init
<1>4. RowTypes
  <2>1. policyStatus \in [Policies -> PolicyLifecycleStatus]
    BY <1>2 DEF PolicyLifecycleStatus
  <2>2. versionStatus \in [Versions -> PolicyVersionStatus]
    BY <1>2 DEF PolicyVersionStatus
  <2>3. current \in [Policies -> Nat] /\ \A p \in Policies : current[p] <= MaxVersion[p]
    <3>1. \A p \in Policies : 0 <= MaxVersion[p] /\ 1 <= MaxVersion[p]
      BY MaxVersionAssumption
    <3>. QED
      BY <1>2, <3>1
  <2>4. from \in [Versions -> {Always} \union Time] /\ to \in [Versions -> Time \union {Forever}]
    BY <1>3
  <2>5. \A x \in Versions : from[x] < to[x]
    BY <1>3, MaxTimeAssumption DEF Always, Forever
  <2>. QED
    BY <2>1, <2>2, <2>3, <2>4, <2>5 DEF RowTypes
<1>5. CommandTypes /\ now \in Time /\ skewed \in BOOLEAN
  <2>1. CommandTypes
    BY <1>3, AnyPolicyIsOne DEF CommandTypes, Commands
  <2>2. now \in Time
    BY <1>3, MaxTimeAssumption DEF Time
  <2>3. skewed \in BOOLEAN
    BY <1>3
  <2>. QED
    BY <2>1, <2>2, <2>3
<1>6. TypeOK
  BY <1>3, <1>4, <1>5, InvParts
<1>7. PolicyMatchesVersion
  <2>. SUFFICES ASSUME NEW p \in Policies
                PROVE  Matches(p)
    BY InvParts
  <2>1. CASE p \in legacy
    BY <1>1, <1>2, <2>1 DEF Matches
  <2>2. CASE p \notin legacy
    BY <1>2, <2>2 DEF Matches
  <2>. QED
    BY <2>1, <2>2
<1>8. NumbersStand
  <2>. SUFFICES ASSUME NEW p \in Policies
                PROVE  Numbered(p)
    BY InvParts
  <2>1. \A v \in Numbers(p) : versionStatus[<<p, v>>] # "none" <=> p \in legacy /\ v = 1
    BY <1>2, VersionParts
  <2>2. CASE p \in legacy
    <3>1. Written(p) = 1 .. 1
      BY <1>1, <2>1, <2>2 DEF Written
    <3>2. 1 \in 0 .. MaxVersion[p] /\ 1 <= 1
      BY MaxVersionAssumption
    <3>3. current[p] = 1
      BY <1>2, <2>2
    <3>. QED
      BY <3>1, <3>2, <3>3 DEF Numbered
  <2>3. CASE p \notin legacy
    <3>1. Written(p) = 1 .. 0
      BY <2>1, <2>3 DEF Written
    <3>2. 0 \in 0 .. MaxVersion[p] /\ 0 <= 0
      BY MaxVersionAssumption
    <3>3. current[p] = 0
      BY <1>2, <2>3
    <3>. QED
      BY <3>1, <3>2, <3>3 DEF Numbered
  <2>. QED
    BY <2>2, <2>3
<1>9. OnePublished /\ AuthorityIsSole
  <2>1. \A x \in Versions : Active(x) => x[1] \in legacy /\ x[2] = 1
    BY <1>2 DEF Active
  <2>2. \A x, y \in Versions : Active(x) /\ Active(y) => x = y
    BY <1>2, <2>1, VersionParts
  <2>. QED
    BY <2>2 DEF OnePublished, AuthorityIsSole, Active
<1>10. CommandsStand /\ FoundStands
  BY <1>3 DEF CommandsStand, CommandStands, FoundStands
<1>. QED
  BY <1>6, <1>7, <1>8, <1>9, <1>10 DEF Inv

-----------------------------------------------------------------------------
(* Theorems *)

LEMMA StepInv ==
  ASSUME Inv, [Next]_vars
  PROVE  Inv' /\ Immutable
<1>1. CASE \E p \in Policies : CreatePolicy(p)
  BY <1>1, CreatePolicyInv
<1>2. CASE \E e \in Editors : Begin(e)
  BY <1>2, BeginInv
<1>3. ASSUME NEW e \in Editors, Write(e)
      PROVE  Inv' /\ Immutable
  <2>1. CASE CreateDraft(e) \/ RetrySource(e)
    BY <2>1, DraftInv
  <2>2. CASE SubmitReview(e) \/ MarkConflicting(e)
    BY <2>2, ReviewInv
  <2>3. CASE Publish(e) \/ Schedule(e)
    BY <2>3, ActivateInv DEF Publish, Schedule
  <2>4. CASE RetireVersion(e)
    BY <2>4, RetireInv
  <2>5. CASE CommandFails(e)
    BY <2>5, CommandFailsInv
  <2>. QED
    BY <1>3, <2>1, <2>2, <2>3, <2>4, <2>5 DEF Write
<1>4. CASE Tick
  BY <1>4, TickInv
<1>5. CASE Search \/ BindEvidence \/ SearchEnds
  BY <1>5, EvidenceInv
<1>6. CASE UNCHANGED vars
  <2>1. UNCHANGED <<rows, now, command, on, effective, alone, skewed, found, cited, moved>>
    BY <1>6 DEF vars, commands, evidence
  <2>2. /\ RowTypes' /\ PolicyMatchesVersion' /\ AuthorityIsSole' /\ NumbersStand' /\ OnePublished'
        /\ skewed' \in BOOLEAN /\ Immutable
    BY <2>1, RowsStand
  <2>3. CommandsStand'
    BY <2>1, OtherCommandsStand DEF CommandsStand
  <2>4. FoundStands'
    BY <2>1, <2>2, FoundStays
  <2>5. TypeOK'
    BY <2>1, <2>2 DEF Inv, TypeOK, RowTypes
  <2>. QED
    BY <2>2, <2>3, <2>4, <2>5 DEF Inv
<1>. QED
  BY <1>1, <1>2, <1>3, <1>4, <1>5, <1>6 DEF Next

\* The invariant holds throughout: numbering, one published version of a
\* policy, and what every command and search in flight has read.
THEOREM GovernanceInvariance == Spec => []Inv
<1>1. Inv /\ [Next]_vars => Inv'
  BY StepInv
<1>. QED
  BY InitInv, <1>1, PTL DEF Spec

\* A policy's status is that of the version it shows, and no two policies
\* have authority over a decision at one time unless two activations were
\* each checked against candidates read before the other was written.
THEOREM AuthorityIsSoundHolds == Spec => []AuthorityIsSound
<1>1. Inv => AuthorityIsSound
  BY DEF Inv, AuthorityIsSound
<1>. QED
  BY GovernanceInvariance, <1>1, PTL

\* A published or scheduled version can only be retired and keeps its start,
\* and a retired one never changes.
THEOREM ApprovedIsImmutableHolds == Spec => ApprovedIsImmutable
<1>1. Inv /\ [Next]_vars =>
        [\A x \in Versions :
           /\ Active(x) => versionStatus'[x] \in {versionStatus[x], "retired"} /\ from'[x] = from[x]
           /\ versionStatus[x] = "retired" =>
                versionStatus'[x] = "retired" /\ from'[x] = from[x] /\ to'[x] = to[x]]_vars
  BY StepInv DEF Immutable
<1>2. Spec =>
        [][\A x \in Versions :
             /\ Active(x) => versionStatus'[x] \in {versionStatus[x], "retired"} /\ from'[x] = from[x]
             /\ versionStatus[x] = "retired" =>
                  versionStatus'[x] = "retired" /\ from'[x] = from[x] /\ to'[x] = to[x]]_vars
  BY <1>1, GovernanceInvariance, PTL DEF Spec
<1>. QED
  BY <1>2 DEF ApprovedIsImmutable

\* Evidence is recorded of versions of one policy, each still published or
\* scheduled and already effective.
LEMMA BoundHasAuthority ==
  ASSUME Inv, BindEvidence
  PROVE  /\ \A x \in cited' : Active(x) /\ from[x] <= now
         /\ Cardinality({x[1] : x \in cited'}) = 1
<1>1. PICK bound \in SUBSET found :
        /\ \A p \in {y[1] : y \in found} : Cardinality(bound \intersect Of(p)) = 1
        /\ \A y \in bound : Bindable(y)
        /\ cited' = bound
  BY DEF BindEvidence
<1>2. \A x \in bound : Active(x) /\ from[x] <= now
  BY <1>1 DEF Bindable, Inv, FoundStands
<1>3. PICK z : z \in found
  BY DEF BindEvidence
<1>4. \A x \in bound : x[1] = z[1]
  BY <1>3 DEF Inv, FoundStands
<1>5. bound # {}
  <2>1. Cardinality(bound \intersect Of(z[1])) = 1
    BY <1>1, <1>3
  <2>2. Cardinality({}) = 0
    BY FS_EmptySet
  <2>3. bound \intersect Of(z[1]) # {}
    BY <2>1, <2>2
  <2>. QED
    BY <2>3
<1>6. {x[1] : x \in bound} = {z[1]}
  BY <1>4, <1>5
<1>7. Cardinality({z[1]}) = 1
  BY FS_Singleton
<1>. QED
  BY <1>1, <1>2, <1>6, <1>7

THEOREM CitationHadAuthorityHolds == Spec => CitationHadAuthority
<1>1. Inv /\ [Next]_vars =>
        [cited' # cited =>
           /\ \A x \in cited' : Active(x) /\ from[x] <= now
           /\ Cardinality({x[1] : x \in cited'}) = 1]_vars
  <2>. SUFFICES ASSUME Inv, [Next]_vars, cited' # cited
                PROVE  /\ \A x \in cited' : Active(x) /\ from[x] <= now
                       /\ Cardinality({x[1] : x \in cited'}) = 1
    OBVIOUS
  <2>1. BindEvidence
    <3>1. ASSUME NEW p \in Policies, CreatePolicy(p)
          PROVE  cited' = cited
      BY <3>1 DEF CreatePolicy, evidence
    <3>2. ASSUME NEW e \in Editors, Begin(e)
          PROVE  cited' = cited
      BY <3>2 DEF Begin, BeginDraft, BeginRetry, BeginSubmit, BeginActivate, BeginRetire, Begins, evidence
    <3>3. ASSUME NEW e \in Editors, Write(e)
          PROVE  cited' = cited
      BY <3>3 DEF Write, CreateDraft, RetrySource, SubmitReview, MarkConflicting, Publish, Schedule,
                  ActivateVersion, RetireVersion, CommandFails, Ends, evidence
    <3>4. Tick \/ Search \/ SearchEnds \/ UNCHANGED vars => cited' = cited
      BY DEF Tick, Search, SearchEnds, vars, evidence
    <3>. QED
      BY <3>1, <3>2, <3>3, <3>4 DEF Next
  <2>. QED
    BY <2>1, BoundHasAuthority
<1>2. Spec =>
        [][cited' # cited =>
             /\ \A x \in cited' : Active(x) /\ from[x] <= now
             /\ Cardinality({x[1] : x \in cited'}) = 1]_vars
  BY <1>1, GovernanceInvariance, PTL DEF Spec
<1>. QED
  BY <1>2, PTL DEF CitationHadAuthority

=============================================================================
