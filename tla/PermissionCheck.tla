-------------------------- MODULE PermissionCheck --------------------------
(***************************************************************************)
(* What a permission check promises, without attempts, waits or deadlines: *)
(* a company that is told to be allowed, or denied, was so at some moment  *)
(* between the question and the answer; a check that cannot tell says so.  *)
(*                                                                         *)
(* ContractClient implements this specification.                           *)
(***************************************************************************)

VARIABLES
  permission,  \* what the Contract Service holds: "allowed" or "denied"
  held,        \* what it has held since the question was put
  verdict      \* the answer, or "none"

vars == <<permission, held, verdict>>

Init ==
  /\ permission \in {"allowed", "denied"}
  /\ held = {}
  /\ verdict = "none"

\* A contract is signed or ends.
Change ==
  /\ permission' \in {"allowed", "denied"} \ {permission}
  /\ held' = IF held = {} THEN {} ELSE held \cup {permission'}
  /\ UNCHANGED verdict

Ask ==
  /\ held' = {permission}
  /\ verdict' = "none"
  /\ UNCHANGED permission

Answer ==
  /\ held # {} /\ verdict = "none"
  /\ verdict' \in held \cup {"unavailable", "invalid"}
  /\ UNCHANGED <<permission, held>>

Next == Change \/ Ask \/ Answer

Spec == Init /\ [][Next]_vars
=============================================================================
