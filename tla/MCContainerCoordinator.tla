----------------------- MODULE MCContainerCoordinator -----------------------
(* Two volumes that share a container, for TLC.                             *)
EXTENDS ContainerCoordinator
=============================================================================
