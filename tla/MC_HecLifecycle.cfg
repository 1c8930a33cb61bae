CONSTANT MaxStarts <- MCMaxStarts
SPECIFICATION LifecycleSpec
INVARIANT OnlyCurrentServerAccepts
PROPERTY ListenerEventuallyReleased
