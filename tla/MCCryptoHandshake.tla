------------------------- MODULE MCCryptoHandshake --------------------------
EXTENDS CryptoHandshake

\* In half seconds.
Start(cert, scfg, client, server, talk) ==
    [stk |-> "stale", cert |-> cert, scfg |-> scfg,
     idle |-> [client |-> client, server |-> server], talk |-> talk]

\* Without a certificate and a configuration; with the certificate only, because
\* the client stopped between writing the files; with the configuration of the
\* present server, or of one that was replaced.
MCStarts ==
    {Start("cur", "cur", 5, 3, {<<"client", ForwardSecure>>, <<"server", ForwardSecure>>}),
     Start("none", "none", 3, 5, {<<"client", Secure>>}),
     Start("cur", "none", 60, 60, {}),
     Start("cur", "old", 60, 60, {})}
=============================================================================
