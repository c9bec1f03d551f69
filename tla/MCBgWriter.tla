----------------------------- MODULE MCBgWriter -----------------------------
EXTENDS BgWriter
=============================================================================
