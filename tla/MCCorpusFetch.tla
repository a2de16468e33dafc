----------------------------- MODULE MCCorpusFetch -----------------------------
EXTENDS CorpusFetch
===============================================================================
