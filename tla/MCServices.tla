----------------------------- MODULE MCServices -----------------------------
(***************************************************************************)
(* The safety of services of one host, each on a small instance: the       *)
(* settings, the attachments of a Project, a Swarm Job and an MCP server.  *)
(* They share no variable, so a behaviour moves one of them, the one       *)
(* "focus" names.  The sets they are instantiated with share their model   *)
(* values, which keeps the symmetry group small.                           *)
(***************************************************************************)
EXTENDS ConfigStore, Attachments, Swarm, McpManager, TLC

CONSTANT First

VARIABLE focus

\* The Providers are alike until the settings name one as the default, so it is First.
ServicesInit ==
  /\ Init /\ FilesInit /\ SwarmInit /\ McpInit
  /\ focus \in {"store", "files", "swarm", "mcp"}
  /\ config.main.p = First
  /\ focus # "store" => issued = 1

StoreStep == focus = "store" /\ Next /\ UNCHANGED <<fileVars, swarmVars, mcpVars, focus>>
FileStep == focus = "files" /\ FilesNext /\ UNCHANGED <<vars, swarmVars, mcpVars, focus>>
SwarmStep == focus = "swarm" /\ SwarmNext /\ UNCHANGED <<vars, fileVars, mcpVars, focus>>
McpStep == focus = "mcp" /\ McpNext /\ UNCHANGED <<vars, fileVars, swarmVars, focus>>
ServicesNext == StoreStep \/ FileStep \/ SwarmStep \/ McpStep

ServicesSpec == ServicesInit /\ [][ServicesNext]_<<vars, fileVars, swarmVars, mcpVars, focus>>

Symmetry == Permutations(Clients) \cup Permutations(Assets)
=============================================================================
