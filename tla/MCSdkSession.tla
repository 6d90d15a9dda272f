---------------------------- MODULE MCSdkSession ----------------------------
(* Small instances of SdkSession for TLC.                                   *)
EXTENDS SdkSession

CONSTANTS main, test, bogus, s1, s2

MCNetworks == {main, test}
MCUnregistered == {bogus}
OneNetwork == {main}
NoUnregistered == {}
MCSettings == {s1, s2}
OneSetting == {s1}

\* s2 points mainnet at another quorum service, which changes the SDK mainnet
\* would build and leaves testnet's alone.
MCSessionOptions ==
    [p \in Networks \X Settings |->
        <<p[1], IF p[2] = s2 /\ p[1] = main THEN "other quorum" ELSE "default">>]

=============================================================================
