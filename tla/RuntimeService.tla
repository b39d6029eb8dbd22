--------------------------- MODULE RuntimeService ---------------------------
(***************************************************************************)
(* LiveRuntime as AppCatalog sees it.  AppCatalog knows of the runtime     *)
(* only what its commands can tell apart: the revision, the core the       *)
(* runtime owns between commands, and the view.  The window was checked    *)
(* against that; this module says that the runtime keeps to it.            *)
(*                                                                         *)
(* Profiles do not matter here: the catalog has one first hop, and every   *)
(* change of the configuration imports it again.                           *)
(***************************************************************************)
EXTENDS LiveRuntime

\* app_status_for and unconfigured_status
CatalogOfRevision ==
  [revision |-> current, mode |-> "single",
   firstHops |-> IF current = 0 THEN {} ELSE {1}, protons |-> {},
   firstHop |-> IF current = 0 THEN 0 ELSE 1, proton |-> 0]

\* The probe of a speed test is the test's own until it cannot be stopped.
CoreOfService ==
  IF handle = "none" \/ (handle = "probe" /\ cmd \in {"probing", "probed"}) THEN "none"
  ELSE IF running THEN "running" ELSE "gone"

\* RuntimeView.runtime: Starting is never reported, since connect holds the
\* command lock while it lasts, and a process that is gone reports nothing.
ShownByService ==
  CASE cmd = "down" \/ view \in {"Disconnected", "NoCore"} -> "disconnected"
    [] cmd # "down" /\ view = "Connected" -> "connected"
    [] cmd # "down" /\ view \notin {"Disconnected", "NoCore", "Connected"} -> "error"

Service ==
  INSTANCE AppCatalog WITH FirstHop <- {1}, Proton <- {}, catalog <- CatalogOfRevision,
                           core <- CoreOfService, shown <- ShownByService

\* Every step of the runtime, with the core exiting, driver calls failing and the
\* application dying anywhere, is a step of the service that AppController was
\* checked with: the configuration only changes while the runtime owns no core,
\* the view follows every change of it, and a lost core is never forgotten
\* silently.
ImplementsService == Service!Spec
=============================================================================
