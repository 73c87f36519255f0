---------------------------- MODULE MCCascadeMerge ----------------------------
EXTENDS CascadeMerge

Sessions == 1..3
=============================================================================
