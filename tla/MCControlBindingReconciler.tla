---------------------- MODULE MCControlBindingReconciler ----------------------
(***************************************************************************)
(* Small instances of ControlBindingReconciler.                            *)
(***************************************************************************)
EXTENDS ControlBindingReconciler

Webhook == <<"k8s:admission-controller", "oskal-webhook">>
Stranger == <<"spiffe", "dev", "probe">>

AdmissionRequirement ==
    [type |-> <<"admission">>, required |-> TRUE, maxAge |-> 0,
     accepted |-> {[parts |-> Webhook, open |-> FALSE]}]

\* No EvidenceContract object, and one that names the accepted producer.
MCAbsent == [requirements |-> <<>>, onMissing |-> "Unknown"]
MCStrict == [requirements |-> <<AdmissionRequirement>>, onMissing |-> "Failed"]
MCContractSpecs == {MCAbsent, MCStrict}
MCNoContract == {MCAbsent}

\* Two controls under the contract, one control without it, no control.
MCReferring == [controls |-> 2, requirements |-> 1, contractRef |-> TRUE]
MCInline == [controls |-> 1, requirements |-> 1, contractRef |-> FALSE]
MCEmpty == [controls |-> 0, requirements |-> 1, contractRef |-> FALSE]
MCBindingSpecs == {MCReferring, MCInline, MCEmpty}
MCReferringOnly == {[MCReferring EXCEPT !.controls = 1]}
MCInlineOnly == {MCInline}

AdmissionBy(producer) ==
    [type |-> <<"kubernetes", "admission">>, producer |-> producer]
MCKinds == {AdmissionBy(Webhook), AdmissionBy(Stranger)}
MCWebhookKind == {AdmissionBy(Webhook)}

\* Evidence that arrives one tick late; evidence dated one tick ahead.
MCLate == {-1}
MCAhead == {0, 1}

MCTarget == [b \in Bindings |-> "web"]
=============================================================================
