------------------------------- MODULE MCStartup -------------------------------
EXTENDS NcStartup

\* No pool, a pool without servers, one and two pools.
MCPools == {<<>>, <<0>>, <<2>>, <<1, 2>>}
==============================================================================
