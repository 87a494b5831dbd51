----------------------------- MODULE MCBackbone -----------------------------
EXTENDS Backbone
=============================================================================
