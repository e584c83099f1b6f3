--------------------------- MODULE MCWriteRoutes ---------------------------
(* Instances of WriteRoutes for TLC: every route, with none of the options,*)
(* all that the route declares, and the ones that change what it does.     *)
EXTENDS WriteRoutes

SomeOptions == {{}, {"key"}, {"simulate"}, {"key", "simulate"}, {"gas"}, {"key", "gas", "value"},
                {"account", "simulate"}, {"key", "account", "factory", "gas", "value"}, Options}
=============================================================================
