-------------------------- MODULE VerifiedRegistry --------------------------
(***************************************************************************)
(* What the service promises, without its tables, queue and workers: users *)
(* claim that some sources are those of a contract; a claim that is true   *)
(* may be published, the first one published for a contract stays for      *)
(* ever, and nothing else is ever published.                               *)
(***************************************************************************)
CONSTANTS ContractIds, SubmissionIds, None

VARIABLES
    claims,    \* what each accepted submission claims
    registry   \* the submission a contract's published sources come from

registryVars == <<claims, registry>>

Claim == [contractId : ContractIds, genuine : BOOLEAN]

Init ==
    /\ claims = [s \in SubmissionIds |-> None]
    /\ registry = [c \in ContractIds |-> None]

Submit(s) ==
    /\ claims[s] = None
    /\ \E claim \in Claim : claims' = [claims EXCEPT ![s] = claim]
    /\ UNCHANGED registry

Publish(s) ==
    /\ claims[s] # None
    /\ claims[s].genuine
    /\ registry[claims[s].contractId] = None
    /\ registry' = [registry EXCEPT ![claims[s].contractId] = s]
    /\ UNCHANGED claims

Next == \E s \in SubmissionIds : Submit(s) \/ Publish(s)

Spec == Init /\ [][Next]_registryVars
=============================================================================
