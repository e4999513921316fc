----------------------------- MODULE MCNodeTasks -----------------------------
(* A small instance of NodeTasks for TLC.                                  *)
EXTENDS NodeTasks

\* Every task that nests guards, with the handlers of the receive loop that
\* nest most, and the LSA cleanup, which outlives a stuck session_db.
Nesting == {"handshake", "pong", "link_state", "ping_peers", "monitor_peers",
            "collect_metrics", "lsa_cleanup"}

=============================================================================
