----------------------------- MODULE MCA2ATasks -----------------------------
(* Instances of A2ATasks: two scopes of one org, one of them without a       *)
(* principal, and one of another org.                                        *)
EXTENDS A2ATasks

AnnOfAcme == <<"acme", "ann">>
AnyOfAcme == <<"acme", NoPrincipal>>
AnnOfBeta == <<"beta", "ann">>

ThreeOwners == {AnnOfAcme, AnyOfAcme, AnnOfBeta}
TwoOwners == {AnnOfAcme, AnyOfAcme}
=============================================================================
