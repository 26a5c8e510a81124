---------------------------- MODULE DraftPromise ----------------------------
(***************************************************************************)
(* What connected-inbox draft delivery promises a specialist, whatever     *)
(* times out, crashes or runs twice: each authorized response version gets *)
(* at most one provider draft, "completed" is only said when a draft with  *)
(* the approved text exists, and "failed safe" is only said when none was  *)
(* made and none will be made without a new command.                       *)
(***************************************************************************)
EXTENDS Naturals

CONSTANTS Versions, Texts

VARIABLES
  told,        \* what the delivery of each version tells the specialist
  made,        \* provider drafts made for each version
  text,        \* the approved text of each version
  idempotent   \* fixed: the provider returns the same draft for the same key

promise == <<told, made, text, idempotent>>

Init ==
  /\ told = [k \in Versions |-> "nothing"]
  /\ made = [k \in Versions |-> 0]
  /\ text \in [Versions -> Texts]
  /\ idempotent \in BOOLEAN

\* A command starts, or restarts after a safe failure.
Begin(k) ==
  /\ told[k] \in {"nothing", "failed safe"}
  /\ told' = [told EXCEPT ![k] = "uncertain"]
  /\ UNCHANGED <<made, text, idempotent>>

\* The provider makes the one draft.  After a safe failure only a provider
\* that would return that same draft to a retry may still do so.
Create(k) ==
  /\ made[k] = 0
  /\ told[k] \in {"uncertain", "completed"} \/ idempotent
  /\ made' = [made EXCEPT ![k] = 1]
  /\ UNCHANGED <<told, text, idempotent>>

\* A draft with the approved text was seen: the receipt names it.
Confirm(k) ==
  /\ told[k] = "uncertain"
  /\ \E j \in Versions : made[j] = 1 /\ text[j] = text[k]
  /\ told' = [told EXCEPT ![k] = "completed"]
  /\ UNCHANGED <<made, text, idempotent>>

Deny(k) ==
  /\ told[k] = "uncertain"
  /\ made[k] = 0 \/ idempotent
  /\ told' = [told EXCEPT ![k] = "failed safe"]
  /\ UNCHANGED <<made, text, idempotent>>

Next == \E k \in Versions : Begin(k) \/ Create(k) \/ Confirm(k) \/ Deny(k)

Spec == Init /\ [][Next]_promise
=============================================================================
