--------------------------- MODULE MCSlickControl ---------------------------
(* Model values and application scripts for the runs of SlickControl.      *)
EXTENDS SlickControl, TLC

CONSTANTS m1, m2, strkey, dns, web, Logger, Drop

One(f, n) == [flow |-> f, names |-> <<n>>, params_ok |-> TRUE]

\* LoggerUnitTest.py and the like: one element on one flow space.
OneRequest == <<<<One(dns, Logger)>>>>
\* TwoLoggers.py: the same element on two flow spaces.
TwoRequests == <<<<One(dns, Logger), One(web, Logger)>>>>
\* An element on one flow space, then a chain on another.
MixedRequests ==
  <<<<One(dns, Logger),
      [flow |-> web, names |-> <<Logger, Drop>>, params_ok |-> TRUE]>>>>
NoTrigger == <<{}>>
\* BlockDomains.py: a trigger applies Drop to another flow space.
DropOnTrigger == <<{One(web, Drop)}>>
\* TwoLoggersChain.py: two names, one default controller_params.
ChainOnTrigger ==
  <<{[flow |-> web, names |-> <<Logger, Logger>>, params_ok |-> FALSE]}>>

Symmetry == Permutations({m1, m2})
=============================================================================
