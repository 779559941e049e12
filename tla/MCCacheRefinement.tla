------------------------- MODULE MCCacheRefinement -------------------------
EXTENDS CacheRefinement, MCCache
=============================================================================
