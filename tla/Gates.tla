------------------------------- MODULE Gates -------------------------------
(***************************************************************************)
(* The live gates of the server (ops.Controller) as its callers see them:  *)
(* the acceptance mode and the reader and peer switches.                   *)
(***************************************************************************)

Running   == "running"
Paused    == "paused"
Throttled == "throttled"
AcceptanceModes == {Running, Paused, Throttled}

\* May an article be accepted, from a reader or from a peer?
AcceptArticles(mode) == mode \notin {Paused, Throttled}

\* May a peer transfer start?  A pause does not close this gate.
AcceptPeers(mode, peersOn) == peersOn /\ mode # Throttled

\* May a reader post?
AcceptReaders(readersOn) == readersOn
=============================================================================
