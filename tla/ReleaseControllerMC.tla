------------------------ MODULE ReleaseControllerMC ------------------------
(***************************************************************************)
(* Small instances of ReleaseController: three releases, the last of which *)
(* brings a migration.                                                     *)
(***************************************************************************)
EXTENDS ReleaseController

ThreeReleases == <<1, 1, 2>>

Staging(m)    == [env |-> "staging", release |-> m]
Production(m) == [env |-> "production", release |-> m]

\* A promotion, and a second request for one release.
Pairs == {<<Staging(3), Production(3)>>, <<Staging(3), Staging(3)>>}

\* A release without a migration before one that has one.
Plain == {<<Staging(2), Staging(3)>>}

=============================================================================
