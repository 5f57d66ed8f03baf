---------------------------- MODULE MCInstallPath ----------------------------
\* Five versions, so that two starts can share a part of their ways, and ten
\* upgrades and downgrades, with cycles, of which any may be there.
EXTENDS InstallPath

MCScripts ==
    {<<1, 2>>, <<1, 4>>, <<2, 3>>, <<2, 4>>, <<2, 5>>,
     <<4, 1>>, <<4, 3>>, <<4, 5>>, <<5, 3>>, <<5, 4>>}
=============================================================================
