---------------------------- MODULE OneTimeGrant ----------------------------
(***************************************************************************)
(* What the intent registry promises its callers, without its tables, its  *)
(* clock and its callback bookkeeping: a signed intent is three grants,    *)
(* each of which one claim takes at most once and settles at most once.    *)
(* Apply comes first; browser evidence needs its success; a rollback needs *)
(* that success to be out of the question, for good.                       *)
(***************************************************************************)
CONSTANTS Requests, Claims, None

VARIABLES
  phase,   \* "Free", "Held", "Void" or the verdict the stage settled with
  holder   \* the claim that took the grant

grantVars == <<phase, holder>>

GrantStages == {"apply", "browser-evidence", "compensating-rollback"}

\* The verdicts a stage may settle with: undoing is what a rollback does.
VerdictsOf(s) ==
  {"Failed"} \cup IF s = "compensating-rollback" THEN {"RolledBack"}
                                                 ELSE {"Succeeded"}

GrantInit ==
  /\ phase = [r \in Requests |-> [s \in GrantStages |-> "Free"]]
  /\ holder = [r \in Requests |-> [s \in GrantStages |-> None]]

\* Apply may always start; the two follow-up stages exclude each other.
MayTake(r, s) ==
  /\ s = "browser-evidence" => phase[r]["apply"] = "Succeeded"
  /\ s = "compensating-rollback" => phase[r]["apply"] \in {"Held", "Failed"}

Take(r, s, c) ==
  /\ phase[r][s] = "Free"
  /\ MayTake(r, s)
  /\ \A q \in Requests, t \in GrantStages : holder[q][t] # c
  /\ phase' = [phase EXCEPT ![r][s] = "Held"]
  /\ holder' = [holder EXCEPT ![r][s] = c]

\* The holder's run ended with a verified verdict.
Settle(r, s, verdict) ==
  /\ phase[r][s] = "Held"
  /\ s = "apply" /\ verdict = "Succeeded" =>
       phase[r]["compensating-rollback"] = "Free"
  /\ phase' = [phase EXCEPT ![r][s] = verdict]
  /\ holder' = holder

\* The holder's run was turned away; nobody else may take the grant.
Void(r, s) ==
  /\ phase[r][s] = "Held"
  /\ phase' = [phase EXCEPT ![r][s] = "Void"]
  /\ holder' = holder

GrantNext ==
  \E r \in Requests, s \in GrantStages :
    \/ \E c \in Claims : Take(r, s, c)
    \/ \E verdict \in VerdictsOf(s) : Settle(r, s, verdict)
    \/ Void(r, s)

GrantSpec == GrantInit /\ [][GrantNext]_grantVars
=============================================================================
