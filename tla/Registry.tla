------------------------------ MODULE Registry ------------------------------
(***************************************************************************)
(* The model registry (council/registry.py): what a models.yaml entry is,  *)
(* and the two filters every selection starts from.  A registry is the     *)
(* sequence of its entries in file order; a model is named by its position *)
(* in it, so that "the first of the equally good ones" means something.    *)
(***************************************************************************)
EXTENDS Integers, Sequences

Tiers == {"free", "paid", "hybrid"}

\* The capabilities the classifier can ask for (classifier.py,
\* required_capabilities); an entry may be distrusted for any of them.
Caps == {"code_generation", "cross_file_architecture", "security_audit"}

\* How an entry stands with its key: api_key_env is "none" (or "" or "-"),
\* names a variable that is set, or names one that is not.
Auth == {"keyless", "set", "missing"}

\* quality_score.value of an entry nobody has scored: below every real score.
Unranked == -1

Entry == [tier     : Tiers,
          caps     : SUBSET Caps,
          distrust : SUBSET Caps,
          auth     : Auth,
          quality  : {Unranked} \cup Nat,
          cost     : Nat]

RegistryType == Seq(Entry)

NoModel == 0
Models(reg) == DOMAIN reg

HasApiKey(entry) == entry.auth # "missing"

AnyTier == "any"

\* A defect to be caught: not_trusted_for is ignored.
TrustedIfCapable(entry, caps) == caps \subseteq entry.caps

Trusted(entry, caps) == caps \subseteq entry.caps /\ caps \cap entry.distrust = {}

EligibleFor(reg, caps, tier) ==
    {m \in Models(reg) : /\ Trusted(reg[m], caps)
                         /\ tier \in {AnyTier, reg[m].tier}}

Available(reg, candidates) == {m \in candidates : HasApiKey(reg[m])}
=============================================================================
