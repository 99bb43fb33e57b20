------------------------ MODULE MCReleaseLifecycle ------------------------
(* Small instances of ReleaseLifecycle for TLC.                            *)
EXTENDS ReleaseLifecycle

CONSTANTS h1, h2, idx

Setting(hs, ds, ks, t, f, s) ==
  [handlers |-> hs, deployments |-> ds, kinds |-> ks, height |-> t, faults |-> f, serial |-> s]

MCLanes ==
  { \* two deployments beside the indexer, while the chain changes,
    Setting({h1}, {1, 2}, {"availability", "deployment", "build"}, 2, 0, FALSE),
    \* and while it changes once more, of an active release or of one deployment,
    Setting({h1}, {1, 2}, {"deployment", "build"}, 3, 0, FALSE),
    Setting({h1}, {1}, {"availability", "deployment", "build"}, 3, 0, FALSE),
    \* any request beside the indexer,
    Setting({h1}, {1}, {"availability", "deployment", "build", "commitment"}, 2, 0, FALSE),
    \* two requests at once, the worker's sync among them, beside the indexer,
    Setting({h1, h2}, {1}, {"availability", "deployment", "build", "sync"}, 0, 0, FALSE),
    \* claims about two deployments, with passes that fail,
    Setting({h1}, {1, 2}, {"deployment", "build", "commitment"}, 2, 1, FALSE),
    \* one process at a time, with passes that fail.
    Setting({h1}, {1}, {"availability", "deployment", "build", "commitment", "sync"}, 2, 1, TRUE) }
=============================================================================
