----------------------------- MODULE MCClosures -----------------------------
EXTENDS Closures
=============================================================================
