---------------------------- MODULE MCLifecycle ----------------------------
EXTENDS Lifecycle

\* Two modules that fit, two that share a type, one with a type out of range,
\* three where two are allowed, one that leaves type 0 without a handler,
\* and no module at all.
MCModLists == {<<<<0>>, <<1>>>>, <<<<0, 1>>, <<1>>>>, <<<<0>>, <<1, 2>>>>, 
               <<<<0>>, <<1>>, <<>>>>, <<<<1>>>>, <<>>}
=============================================================================
