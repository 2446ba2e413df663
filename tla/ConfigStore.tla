----------------------------- MODULE ConfigStore -----------------------------
(***************************************************************************)
(* What the apply pipeline promises about the active configuration: one    *)
(* proposal at a time; an accepted proposal replaces the committed         *)
(* configuration, a rejected one leaves it exactly as it was, and an       *)
(* interrupted one does one or the other.  Only configurations that the    *)
(* validator accepts are ever proposed.  ApplyPipeline implements this     *)
(* specification (ApplyPipeline!Store).                                    *)
(***************************************************************************)
CONSTANTS
  Valid,        \* the configurations `xray run -test` accepts
  NoConfig      \* no configuration file has been written yet; not one of Valid

VARIABLES
  committed,    \* the configuration Xray is meant to run
  pending,      \* the one being applied, or NoConfig
  outcome       \* what the last finished proposal reported

storeVars == <<committed, pending, outcome>>

Outcome == {"none", "ok", "failed", "interrupted"}

StoreTypeOK ==
  /\ committed \in Valid \union {NoConfig}
  /\ pending \in Valid \union {NoConfig}
  /\ outcome \in Outcome

StoreInit == committed = NoConfig /\ pending = NoConfig /\ outcome = "none"

Propose(c) ==
  /\ pending = NoConfig
  /\ pending' = c
  /\ UNCHANGED <<committed, outcome>>

Accept ==
  /\ pending # NoConfig
  /\ committed' = pending
  /\ pending' = NoConfig
  /\ outcome' = "ok"

\* A proposal that could not be brought up: the committed configuration is
\* restored.
Reject ==
  /\ pending # NoConfig
  /\ pending' = NoConfig
  /\ outcome' = "failed"
  /\ UNCHANGED committed

\* A candidate refused before it was ever proposed.
Refuse ==
  /\ pending = NoConfig
  /\ outcome' = "failed"
  /\ UNCHANGED <<committed, pending>>

\* The process applying a proposal dies, or the whole container does.
Interrupt ==
  /\ committed' \in {committed} \union ({pending} \ {NoConfig})
  /\ pending' = NoConfig
  /\ outcome' \in {"none", "interrupted"}

StoreNext ==
  \/ \E c \in Valid : Propose(c)
  \/ Accept
  \/ Reject
  \/ Refuse
  \/ Interrupt

StoreSpec == StoreInit /\ [][StoreNext]_storeVars
==============================================================================
