SPECIFICATION FairSpec
CONSTANTS
  a = a
  b = b
  Calls <- TwoCalls
  Hooks <- FourHooks
  Event <- ThreePreOnePost
  Manifests <- SomeManifests
  Proxied <- OneProxied
  Cap = 2
INVARIANT WorkersBusy
INVARIANT ReasonIsFirstBlocker
INVARIANT RunsOnlyAllowed
PROPERTY ImplementsGate
PROPERTY EveryCallAnswered
