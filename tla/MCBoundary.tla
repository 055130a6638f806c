----------------------------- MODULE MCBoundary -----------------------------
(* Every configuration, and callers by families: all credentials with a few    *)
(* origins, all origins with a few credentials.                                *)
EXTENDS Boundary

MCConfigs == ConfigType

KeyHeaders ==
    {<<>>, <<"secret">>, <<"wrong">>, <<"blank">>, <<"illegible">>, <<"wrong", "secret">>,
     <<"illegible", "secret">>}

Credentialed ==
    [browser : BOOLEAN, origin : {"absent", "foreign", "configured"},
     host : {"loopback_port", "named_port"},
     xkey : KeyHeaders, authorization : KeyHeaders,
     apikey : {<<>>, <<"secret">>, <<"wrong">>, <<"blank", "secret">>}]

Addressed ==
    [browser : BOOLEAN, origin : Origins, host : Hosts,
     xkey : {<<>>, <<"secret">>}, authorization : {<<>>, <<"wrong">>}, apikey : {<<>>}]

MCCallers == Credentialed \cup Addressed
=============================================================================
