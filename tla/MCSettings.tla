----------------------------- MODULE MCSettings -----------------------------
(* Two processes: a server_only one beside a default or a worker_only one.  *)
EXTENDS Settings, TLC

CONSTANTS p, q

MCModes == {(p :> "server_only") @@ (q :> "default"),
            (p :> "server_only") @@ (q :> "worker_only")}
=============================================================================
