------------------------ MODULE MCProviderFallback ------------------------
(***************************************************************************)
(* Small chains of providers for TLC.  Nothing in the repository wires a   *)
(* push transport to the service, so a provider that pushes is tried alone.*)
(***************************************************************************)
EXTENDS ProviderFallback

SmallChains ==
    {<<"direct">>, <<"pushed">>, <<"direct", "direct">>, <<"extension", "direct">>}

TwoDirect == {<<"direct", "direct">>}
=============================================================================
