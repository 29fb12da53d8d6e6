------------------------------- MODULE Scaffold -------------------------------
(***************************************************************************)
(* The manifests that `oskal scaffold' and the tool scaffold_compliance    *)
(* make for a compliance profile (internal/scaffold/scaffold.go): evidence *)
(* contracts, control bindings, CEL rules and an OSCAL component.          *)
(***************************************************************************)
EXTENDS Integers, Sequences, FiniteSets

\* NormalizeProfile of a name in lower case with hyphens; "" for an error.
NormalizeProfile(raw) ==
    CASE raw \in {"nist", "nist-sp-800-53", "800-53", "nist-800-53"} -> "nist-sp-800-53"
      [] raw \in {"pci", "pci-dss"} -> "pci-dss"
      [] raw \in {"soc2", "soc-2"} -> "soc-2"
      [] raw \in {"iso", "iso-27001", "iso27001"} -> "iso-27001"
      [] OTHER -> ""

Webhook == "spiffe://assurance.ckodex.io/ns/ckodex-system/sa/oskal-webhook"
Signer == "spiffe://assurance.ckodex.io/ns/ckodex-system/sa/oskal-signer"

\* A requirement of a contract; minutes is its freshness.
Requires(id, type, minutes, producers) ==
    [id |-> id, type |-> type, minutes |-> minutes, producers |-> producers]

\* A plan: the contract with its requirements, the controls and kinds of the
\* binding, the contracts it refers to, and the controls of the CEL rules.
buildNistScaffold ==
    [contract |-> "nist-admission-contract",
     requirements |-> {Requires("req-admission-valid", "k8s:admission:review", 15, {Webhook}),
                       Requires("req-sigstore-attestation", "sigstore:cosign:attestation",
                                1440, {Signer})},
     controls |-> {"AC-6", "CM-6", "SC-28"}, kinds |-> {"Deployment", "StatefulSet"},
     refersTo |-> {"nist-admission-contract"},
     rules |-> <<"AC-6", "AC-6", "SC-28">>]

buildPciDssScaffold ==
    [contract |-> "pci-contract",
     requirements |-> {Requires("pci-req-6-4", "k8s:admission:review", 10, {Webhook})},
     controls |-> {"Req-6.4", "Req-7.1"}, kinds |-> {"Deployment"},
     refersTo |-> {"pci-contract"},
     rules |-> <<"Req-6.4">>]

\* The bindings for SOC 2 and ISO 27001 do not refer to their contracts.
buildSoc2Scaffold ==
    [contract |-> "soc2-contract",
     requirements |-> {Requires("soc2-req-cc6-1", "k8s:admission:review", 30, {Webhook})},
     controls |-> {"CC6.1", "CC6.6"}, kinds |-> {"Deployment"},
     refersTo |-> {},
     rules |-> <<"CC6.6">>]

buildIsoScaffold ==
    [contract |-> "iso-contract",
     requirements |-> {Requires("iso-req-change-control", "k8s:admission:review", 60, {})},
     controls |-> {"A.12.1.2"}, kinds |-> {"Deployment"},
     refersTo |-> {},
     rules |-> <<>>]

\* GenerateScaffold: no plan for an unknown profile.  The component
\* definition names the workload and implements no control.
GenerateScaffold(profile) ==
    LET norm == NormalizeProfile(profile) IN
    CASE norm = "nist-sp-800-53" -> {buildNistScaffold}
      [] norm = "pci-dss" -> {buildPciDssScaffold}
      [] norm = "soc-2" -> {buildSoc2Scaffold}
      [] norm = "iso-27001" -> {buildIsoScaffold}
      [] OTHER -> {}
=============================================================================
