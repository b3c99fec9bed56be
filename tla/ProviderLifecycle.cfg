\* Two SDKs race to install, shut down and destroy while readers retain; every call returns
\* and every shutdown that has begun completes.
SPECIFICATION FairSpec
CONSTANTS
  Threads = {t1, t2}
  Sdks = {s1, s2}
  Contexts = {c1, c2, c3}
  NoThread = NoThread
  NoSdk = NoSdk
  NoContext = NoContext
INVARIANTS
  SingleOwner
  NoUseAfterFree
PROPERTIES
  OnlyOwnerClears
  ImplementsGlobalProvider
  ShutdownCompletes
  CallsReturn
\* The bound on contexts lets every thread run out of calls to make.
CHECK_DEADLOCK FALSE
