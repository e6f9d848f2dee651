---------------------------- MODULE MCOrchestrator ----------------------------
EXTENDS Orchestrator

Both == {"proof", "overwrite"}
=============================================================================
