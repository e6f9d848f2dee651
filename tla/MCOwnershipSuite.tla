-------------------------- MODULE MCOwnershipSuite --------------------------
EXTENDS OwnershipSuite

\* The savers the repository has.
References == {OwnedInMemorySaver, HostileInMemorySaver, SilentInMemorySaver, DeferredInMemorySaver,
               FenceRemoved}
=============================================================================
