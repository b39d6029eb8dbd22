----------------------------- MODULE AppCatalog -----------------------------
(***************************************************************************)
(* AppService of apps/hk-proton-desktop/src-tauri/src/service.rs as its    *)
(* clients see it: the profiles in the store's current state, which of     *)
(* them are selected, and what the runtime reports.                        *)
(*                                                                         *)
(* A profile is its identifier.  scan_selected_files computes it from the  *)
(* role and the contents of the file, so importing a file again is         *)
(* importing the same profile, and apply_import then changes no more than  *)
(* its name.  Every profile is enabled: apply_import says so and nothing   *)
(* says otherwise.  Identifiers are numbers because lists are sorted by    *)
(* them; 0 is Option::None.                                                *)
(*                                                                         *)
(* The runtime is reduced to what the commands can tell apart (LiveRuntime *)
(* has the rest): whether it owns a core, and the view it reports.         *)
(***************************************************************************)
EXTENDS Integers, FiniteSets

CONSTANTS
  FirstHop,    \* identifiers of first-hop profiles
  Proton,      \* identifiers of Proton profiles
  MaxRevision  \* bound: commits

ASSUME CatalogAssumption ==
  /\ FirstHop \subseteq Nat \ {0}
  /\ Proton \subseteq Nat \ {0}
  /\ MaxRevision \in Nat

VARIABLES
  catalog,  \* the AppState of the store's current revision
  core,     \* the core the runtime owns: none, running, or gone unnoticed
  shown     \* the RuntimeView the runtime reports

service == <<catalog, core, shown>>

Mode == {"single", "double"}
Role == {"first-hop", "proton"}
Core == {"none", "running", "gone"}
Shown == {"disconnected", "connected", "error"}

Settings ==
  [revision : 0 .. MaxRevision, mode : Mode,
   firstHops : SUBSET FirstHop, protons : SUBSET Proton,
   firstHop : FirstHop \cup {0}, proton : Proton \cup {0}]

\* No generation yet: what merge_imports starts from and unconfigured_status
\* reports.
Unconfigured ==
  [revision |-> 0, mode |-> "single", firstHops |-> {}, protons |-> {},
   firstHop |-> 0, proton |-> 0]

Configured(c) == c.revision # 0

\* AppState::validate, and the selection checks of generate_profile.
Validates(c) ==
  /\ c.firstHop \in c.firstHops
  /\ c.mode = "double" => c.proton \in c.protons

\* The first profile of a list, none of an empty one.
First(S) == IF S = {} THEN 0 ELSE CHOOSE i \in S : \A j \in S : i <= j

\* A selection that is kept while its profile is there.
Keep(selected, S) == IF selected \in S THEN selected ELSE First(S)

----------------------------------------------------------------------------
(* The commands that build a new state *)

Request ==
  [command : {"import"}, role : {"first-hop"}, files : (SUBSET FirstHop) \ {{}},
   last : FirstHop]
    \cup [command : {"import"}, role : {"proton"}, files : (SUBSET Proton) \ {{}}, last : {0}]
    \cup [command : {"delete"}, role : {"first-hop"}, id : FirstHop]
    \cup [command : {"delete"}, role : {"proton"}, id : Proton]
    \cup [command : {"select"}, mode : Mode, firstHop : FirstHop \cup {0},
          proton : Proton \cup {0}]

\* import_config_files: without a first hop there is nothing to select.  The
\* last file of the batch is the one merge_imports remembers.
CanImport(c, r) ==
  \/ r.role = "first-hop" /\ r.last \in r.files
  \/ r.role = "proton" /\ Configured(c)

\* The state merge_imports builds when it would select this first hop, if the
\* current one is not there.
Merged(c, r, firstHop) ==
  LET firstHops == IF r.role = "first-hop" THEN c.firstHops \cup r.files ELSE c.firstHops
      protons == IF r.role = "proton" THEN c.protons \cup r.files ELSE c.protons
      proton == Keep(c.proton, protons)
  IN  [revision |-> c.revision,
       mode |-> IF proton = 0 THEN "single" ELSE c.mode,
       firstHops |-> firstHops,
       protons |-> protons,
       firstHop |-> IF firstHop \in firstHops THEN firstHop ELSE First(firstHops),
       proton |-> proton]

\* Mutant of Imported: the profile imported last is selected.
ImportedIsSelected(c, r) ==
  Merged(c, r, IF r.role = "first-hop" THEN r.last ELSE c.firstHop)

\* Mutant of Imported: every file is taken for a first hop.
ImportedIgnoresRole(c, r) ==
  Merged(c, [r EXCEPT !.role = "first-hop"], c.firstHop)

\* merge_imports.  A batch has one role, so the first one brings no Proton node
\* and starts in single-hop mode.
Imported(c, r) ==
  Merged(c, r, IF c.firstHop \notin c.firstHops /\ r.role = "first-hop" THEN r.last
               ELSE c.firstHop)

\* delete_profile keeps the last first hop.
CanDelete(c, r) ==
  /\ Configured(c)
  /\ \/ r.role = "first-hop" /\ r.id \in c.firstHops /\ c.firstHops # {r.id}
     \/ r.role = "proton" /\ r.id \in c.protons

\* Mutant of Deleted: the mode stays when the last Proton node goes.
DeletedKeepsMode(c, r) ==
  IF r.role = "first-hop"
  THEN [c EXCEPT !.firstHops = @ \ {r.id}, !.firstHop = Keep(@, c.firstHops \ {r.id})]
  ELSE [c EXCEPT !.protons = @ \ {r.id}, !.proton = Keep(@, c.protons \ {r.id})]

Deleted(c, r) ==
  IF r.role = "first-hop"
  THEN [c EXCEPT !.firstHops = @ \ {r.id}, !.firstHop = Keep(@, c.firstHops \ {r.id})]
  ELSE LET proton == IF c.proton = r.id THEN First(c.protons \ {r.id}) ELSE c.proton
       IN  [c EXCEPT !.protons = @ \ {r.id}, !.proton = proton,
                     !.mode = IF proton = 0 THEN "single" ELSE @]

\* update_selection
CanSelect(c, r) ==
  /\ Configured(c)
  /\ r.firstHop \in c.firstHops
  /\ r.proton \in c.protons \cup {0}
  /\ r.mode = "double" => r.proton # 0

\* Mutant of Selected: no Proton node in the request deselects it.
SelectedAsRequested(c, r) ==
  [c EXCEPT !.mode = r.mode, !.firstHop = r.firstHop, !.proton = r.proton]

Selected(c, r) ==
  [c EXCEPT !.mode = r.mode, !.firstHop = r.firstHop,
            !.proton = IF r.proton = 0 THEN @ ELSE r.proton]

\* A request passes the command's own checks.
Accepted(c, r) ==
  \/ r.command = "import" /\ CanImport(c, r)
  \/ r.command = "delete" /\ CanDelete(c, r)
  \/ r.command = "select" /\ CanSelect(c, r)

\* The state the command then builds.
Result(c, r) ==
  CASE r.command = "import" -> Imported(c, r)
    [] r.command = "delete" -> Deleted(c, r)
    [] r.command = "select" -> Selected(c, r)

----------------------------------------------------------------------------
(* The commands *)

Init ==
  /\ catalog = Unconfigured
  /\ core = "none"
  /\ shown = "disconnected"

\* Nothing changes while the runtime is active.  The candidate is validated
\* again (GenerationCandidate::validated) before it is committed.
Change(r) ==
  /\ core = "none"
  /\ Accepted(catalog, r)
  /\ \/ /\ r.command = "select" /\ Selected(catalog, r) = catalog
        /\ UNCHANGED service
     \/ /\ ~ (r.command = "select" /\ Selected(catalog, r) = catalog)
        /\ Validates(Result(catalog, r))
        /\ catalog.revision < MaxRevision
        /\ catalog' = [Result(catalog, r) EXCEPT !.revision = catalog.revision + 1]
        /\ shown' = "disconnected"
        /\ UNCHANGED core

Connect ==
  /\ Configured(catalog)
  /\ \/ core' = (IF core = "none" THEN "running" ELSE core) /\ shown' = "connected"
     \/ core' \in {core, "none"} /\ shown' = "error"
     \/ core = "none" /\ core' \in {"running", "gone"} /\ shown' = "error"
  /\ UNCHANGED catalog

Disconnect ==
  /\ \/ core' = "none" /\ shown' \in {"disconnected", "error"}
     \/ core # "none" /\ core' \in {core, "gone"} /\ shown' = "error"
  /\ UNCHANGED catalog

\* poll_status, get_app_status and validate_current
Poll ==
  /\ \/ UNCHANGED <<core, shown>>
     \/ core = "gone" /\ core' = "none" /\ shown' = "error"
     \/ core # "none" /\ UNCHANGED core /\ shown' = "error"
  /\ UNCHANGED catalog

\* measure_node_delays; a probe that cannot be stopped stays the runtime's core.
Measure ==
  /\ Configured(catalog)
  /\ \/ UNCHANGED core
     \/ core = "none" /\ core' \in {"running", "gone"}
  /\ UNCHANGED <<catalog, shown>>

CoreExits ==
  /\ core = "running"
  /\ core' = "gone"
  /\ UNCHANGED <<catalog, shown>>

\* AppService::open, in a new process: no core outlives the old one.  A state
\* whose runtime profile is out of date is committed again.
Open ==
  /\ core' = "none"
  /\ shown' = "disconnected"
  /\ \/ UNCHANGED catalog
     \/ /\ Configured(catalog) /\ Validates(catalog)
        /\ catalog.revision < MaxRevision
        /\ catalog' = [catalog EXCEPT !.revision = @ + 1]

Next ==
  \/ \E r \in Request : Change(r)
  \/ Connect \/ Disconnect \/ Poll \/ Measure \/ CoreExits \/ Open

Spec == Init /\ [][Next]_service
----------------------------------------------------------------------------
(* Properties *)

CatalogTypeOK ==
  /\ catalog \in Settings
  /\ core \in Core
  /\ shown \in Shown

\* A configured state always has a selected first hop that exists, an exit when
\* it needs one, and never selects a Proton node that is gone, whatever was
\* imported, deleted and selected before.
SelectionsExist ==
  /\ Configured(catalog) => Validates(catalog)
  /\ catalog.proton \in catalog.protons \cup {0}
  /\ catalog.protons # {} => catalog.proton # 0

\* What the commands check themselves is enough: a request they accept never
\* builds a state that AppState::validate refuses before the commit, so a
\* selection never leaves the user with profiles that can be neither used nor
\* deleted.
ValidationNeverRefuses ==
  \A r \in Request : Accepted(catalog, r) => Validates(Result(catalog, r))

\* The hops traffic takes (expected_active_path).
Route(c) ==
  <<c.mode, c.firstHop, IF c.mode = "double" THEN c.proton ELSE 0>>

\* The profile of the request is on the route.
OnRoute(c, r) ==
  \/ r.role = "first-hop" /\ r.id = c.firstHop
  \/ r.role = "proton" /\ r.id = c.proton /\ c.mode = "double"

\* Traffic is not rerouted behind the user's back: importing profiles, and
\* deleting one that is not on the route, leaves the route as it is.
RouteIsStable ==
  \A r \in Request :
    (/\ Configured(catalog) /\ Accepted(catalog, r)
     /\ \/ r.command = "import"
        \/ r.command = "delete" /\ ~ OnRoute(catalog, r)) =>
      Route(Result(catalog, r)) = Route(catalog)
============================================================================
