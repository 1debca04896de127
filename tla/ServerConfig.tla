------------------------------- MODULE ServerConfig -------------------------------
(***************************************************************************)
(* What the file server is configured with: its launch options             *)
(* (src/server/app.option.cpp), the directory they may name, and the       *)
(* config.json that is looked for there (src/network/net.cpp), both found  *)
(* once, when the first entry is read, and kept.                           *)
(***************************************************************************)
EXTENDS Naturals, Sequences, SequencesExt

CONSTANTS Arguments,    \* what the program may be launched with, see below
          WorksetPaths, \* the working directory, then the one built in
          Documents     \* the config.json of each path that is a directory

(* A launch: --help, --limit, and the path of --config, "none" without it. *)
(* A document: are the port and the root directory there and good, and the *)
(* entry Net.Bandwidth.Fluctuate, which may be missing.                    *)
ConfigAssumption ==
    /\ \A a \in Arguments : /\ a.help \in BOOLEAN /\ a.limit \in BOOLEAN
                            /\ a.config \in STRING
    /\ \A d \in DOMAIN Documents : /\ Documents[d].serves \in BOOLEAN
                                   /\ Documents[d].fluctuate \in {"true", "false", "missing"}
    /\ WorksetPaths \in Seq(STRING)
    /\ \E i \in 1..Len(WorksetPaths) : WorksetPaths[i] \in DOMAIN Documents
    /\ "none" \notin DOMAIN Documents

VARIABLES
    launch,     \* the arguments of main
    paths,      \* workset_paths
    located,    \* the directory of config_path, once it was looked for
    enabled     \* element_manual_enabler: was bandwidth_limit enabled

vars == <<launch, paths, located, enabled>>

IsDirectory(path) == path \in DOMAIN Documents

Init ==
    /\ launch \in Arguments
    /\ paths = WorksetPaths
    /\ located = "none"
    /\ enabled = FALSE

(* add_config_path.                                                        *)
AddConfigPath(path) == IF IsDirectory(path) THEN Append(paths, path) ELSE paths

(* parse_options: the notifier of --config runs before --help is seen.     *)
ParseOptions ==
    /\ paths' = IF launch.config = "none" THEN paths ELSE AddConfigPath(launch.config)
    /\ enabled' = (launch.limit /\ ~launch.help)
    /\ UNCHANGED <<launch, located>>

(* A plausible slip: the search begins at the wrong end.                   *)
MutantConfigPath ==
    IF located # "none" THEN located
    ELSE paths[CHOOSE i \in 1..Len(paths) :
                  /\ IsDirectory(paths[i])
                  /\ \A j \in 1..(i - 1) : ~IsDirectory(paths[j])]

(* config_path: looked for from the back.                                  *)
ConfigPath ==
    IF located # "none" THEN located
    ELSE paths[CHOOSE i \in 1..Len(paths) :
                  /\ IsDirectory(paths[i])
                  /\ \A j \in (i + 1)..Len(paths) : ~IsDirectory(paths[j])]

(* config_json_entry: the document is kept as well.                        *)
ConfigEntry(name) == Documents[ConfigPath][name]

Locate == located' = ConfigPath /\ UNCHANGED <<launch, paths, enabled>>

(* load_element(bandwidth_limit): the entry is not asked for unless the    *)
(* element was enabled; a missing entry is null and throws.                *)
LoadElement == IF enabled THEN ConfigEntry("fluctuate") ELSE "false"

---------------------------------------------------------------------------------
(* Properties.                                                             *)

(* The document is that of the directory given with --config if this is    *)
(* one, whatever else there is, and the bandwidth is limited only if both  *)
(* the option and this document ask for it (net.cpp:25, app.cpp:35).       *)
AsAsked(limited) ==
    /\ located # "none" =>
          /\ IsDirectory(launch.config) => located = launch.config
          /\ ~IsDirectory(launch.config) => located \in ToSet(WorksetPaths)
    /\ limited => launch.limit /\ Documents[located].fluctuate = "true"
===================================================================================
