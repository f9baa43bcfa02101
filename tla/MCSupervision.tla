---------------------------- MODULE MCSupervision ---------------------------
EXTENDS Supervision
=============================================================================
