CONSTANT MaxStarts <- MCMaxStarts
SPECIFICATION LifecycleSpec
INVARIANT ShutdownReleasesListener
