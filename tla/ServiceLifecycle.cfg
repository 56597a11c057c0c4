SPECIFICATION Spec
CONSTANTS
  here = here
  there = there
  dev = dev
  production = production
  Roots = {dev, production}
  Controllers = {here, there}
  RootOf <- MCRootOf
  Does <- MCDoes
  Enabling = {dev}
  Nonces = {1, 2}
  None = None
  Dirs = {d1, d2}
INVARIANT ServingReachable
INVARIANT JobRecorded
INVARIANT StoppedMeansStopped
CHECK_DEADLOCK FALSE
