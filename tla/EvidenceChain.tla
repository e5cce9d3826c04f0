--------------------------- MODULE EvidenceChain ---------------------------
(***************************************************************************)
(* What attestation.py promises of the evidence, whoever keeps it: nothing *)
(* attested is edited, deleted or reordered, and only a service that is up *)
(* attests.  A service that ends takes nothing with it.  The one that      *)
(* comes up after it stands on the whole chain, with at most the decision  *)
(* that was being written when the other ended.                            *)
(***************************************************************************)
EXTENDS Sequences

CONSTANT Verdicts     \* what may be attested

VARIABLES
  chain,              \* the verdicts attested, of all services so far
  up                  \* a service is up

NothingAttested == chain = <<>> /\ up = TRUE

Longer == \E v \in Verdicts : chain' = Append(chain, v)

Attest == up /\ up' /\ Longer

End == up /\ ~up' /\ UNCHANGED chain

ComeUp == ~up /\ up' /\ (Longer \/ UNCHANGED chain)

Evidence == NothingAttested /\ [][Attest \/ End \/ ComeUp]_<<chain, up>>
=============================================================================
