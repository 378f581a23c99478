--------------------------- MODULE KubeconfigSources ---------------------------
(* The kubeconfig sources of commands/kubeconfig.rs: the settings file and    *)
(* its copy in memory, the files that a source reads, and its key.            *)
(*                                                                          *)
(* Settings are the selected environment variable and the paths that the user *)
(* added.  Commands that change them run on the main thread, one at a time;   *)
(* every other command may load them from a thread of its own.               *)
EXTENDS Integers, Sequences, SequencesExt

CONSTANTS
    Loaders,        \* commands that load the settings beside the main thread
    Paths,          \* kubeconfig files
    Edits,          \* what the user may ask for: see Edited
    Environments,   \* variable -> the paths it lists, or Unset
    Unset,          \* the value of a variable that is not set
    Files,          \* contents of the files: path -> contexts, or Unreadable
    Unreadable,
    DefaultPath,    \* $HOME/.kube/config
    MaxSettingsSteps \* bound on the edits and the restarts

ASSUME UnsetAssumption == Unset \notin Seq(Paths)
ASSUME DefaultPathAssumption == DefaultPath \in Paths

\* The variables that may be selected; a variable that is set lists paths.
VariableNames == {"KUBECONFIG"} \cup {e.variable : e \in {e \in Edits : e.op = "env"}}
ASSUME VariablesAssumption ==
    \A env \in Environments : \A v \in VariableNames : env[v] \in Seq(Paths) \cup {Unset}
ASSUME EditsAssumption ==
    \A e \in Edits : e.op \in {"env", "add", "remove", "reorder"} /\ e.paths \in Seq(Paths)

VARIABLES
    disk,          \* the settings file: settings, Missing or Torn
    settingsCache, \* SETTINGS_CACHE, or Missing
    loader,        \* loader -> where it is and what it has read
    edit,          \* the command on the main thread
    settingsSteps  \* edits and restarts so far

settingsVars == <<disk, settingsCache, loader, edit, settingsSteps>>

Missing == [variable |-> "-", paths |-> <<>>]
Torn == [variable |-> "torn", paths |-> <<>>]
DefaultSettings == [variable |-> "KUBECONFIG", paths |-> <<>>]
NoLoader == [at |-> "idle", read |-> Missing]
NoEdit == [at |-> "idle", settings |-> Missing]

-----------------------------------------------------------------------------
(* The settings commands, as functions of the settings.                     *)

\* The paths at some positions, in their order.
PathsAt(paths, positions) ==
    LET upTo[n \in 0..Len(paths)] ==
          IF n = 0 THEN <<>>
          ELSE IF n \in positions THEN Append(upTo[n - 1], paths[n]) ELSE upTo[n - 1]
    IN  upTo[Len(paths)]

\* append_unique_paths and normalize_paths: the first of equal paths stays.
Unique(paths) ==
    PathsAt(paths, {n \in DOMAIN paths : \A m \in 1..(n - 1) : paths[m] # paths[n]})
Without(paths, path) == PathsAt(paths, {n \in DOMAIN paths : paths[n] # path})
Known(paths, existing) == PathsAt(paths, {n \in DOMAIN paths : Contains(existing, paths[n])})

\* set_kubeconfig_env_var, add_kubeconfig_paths, remove_kubeconfig_path and
\* reorder_kubeconfig_paths; a path that a reordering leaves out goes last.
Edited(settings, e) ==
    CASE e.op = "env" -> [settings EXCEPT !.variable = e.variable]
      [] e.op = "add" -> [settings EXCEPT !.paths = Unique(@ \o e.paths)]
      [] e.op = "remove" -> [settings EXCEPT !.paths = Without(@, e.paths[1])]
      [] e.op = "reorder" ->
           [settings EXCEPT !.paths = Unique(Known(e.paths, settings.paths) \o @)]

-----------------------------------------------------------------------------
(* load_persisted_sources and save_persisted_sources.                       *)

SettingsInit ==
    /\ disk \in {Missing, DefaultSettings}
    /\ settingsCache = Missing
    /\ loader = [l \in Loaders |-> NoLoader]
    /\ edit = NoEdit
    /\ settingsSteps = 0

Parsed == IF disk = Missing THEN DefaultSettings ELSE disk

\* The copy is used if there is one; otherwise the file is read, without a lock.
LoadSettings(l) ==
    /\ loader[l].at = "idle"
    /\ IF settingsCache # Missing
       THEN loader' = [loader EXCEPT ![l] = [at |-> "loaded", read |-> settingsCache]]
       ELSE IF disk = Torn THEN loader' = [loader EXCEPT ![l] = [at |-> "failed", read |-> Missing]]
       ELSE loader' = [loader EXCEPT ![l] = [at |-> "reading", read |-> Parsed]]
    /\ UNCHANGED <<disk, settingsCache, edit, settingsSteps>>

KeepCopy(l) ==
    /\ loader[l].at = "reading"
    /\ settingsCache' = loader[l].read
    /\ loader' = [loader EXCEPT ![l].at = "loaded"]
    /\ UNCHANGED <<disk, edit, settingsSteps>>

\* A settings command loads the settings, as above, and changes what it got.
BeginEdit ==
    /\ edit.at = "idle" /\ settingsSteps < MaxSettingsSteps
    /\ settingsCache # Missing \/ disk # Torn
    /\ LET base == IF settingsCache # Missing THEN settingsCache ELSE Parsed
       IN  /\ settingsCache' = base
           /\ \E e \in Edits : edit' = [at |-> "save", settings |-> Edited(base, e)]
    /\ settingsSteps' = settingsSteps + 1
    /\ UNCHANGED <<disk, loader>>

\* fs::write empties the file before it writes it.
Truncate ==
    /\ edit.at = "save"
    /\ disk' = Torn
    /\ edit' = [edit EXCEPT !.at = "write"]
    /\ UNCHANGED <<settingsCache, loader, settingsSteps>>

WriteSettings ==
    /\ edit.at = "write"
    /\ disk' = edit.settings
    /\ edit' = [edit EXCEPT !.at = "keep"]
    /\ UNCHANGED <<settingsCache, loader, settingsSteps>>

\* The disk is full, or the file is not writable: the command fails.
WriteFails ==
    /\ edit.at \in {"save", "write"}
    /\ edit' = NoEdit
    /\ UNCHANGED <<disk, settingsCache, loader, settingsSteps>>

KeepSaved ==
    /\ edit.at = "keep"
    /\ settingsCache' = edit.settings
    /\ edit' = NoEdit
    /\ UNCHANGED <<disk, loader, settingsSteps>>

\* The application is closed, or dies, and starts again.
RestartSettings ==
    /\ settingsSteps < MaxSettingsSteps
    /\ settingsCache' = Missing
    /\ loader' = [l \in Loaders |-> NoLoader]
    /\ edit' = NoEdit
    /\ settingsSteps' = settingsSteps + 1
    /\ UNCHANGED disk

SettingsNext ==
    \/ \E l \in Loaders : LoadSettings(l) \/ KeepCopy(l)
    \/ BeginEdit \/ Truncate \/ WriteSettings \/ WriteFails \/ KeepSaved \/ RestartSettings

SettingsSpec == SettingsInit /\ [][SettingsNext]_settingsVars

-----------------------------------------------------------------------------
(* What a source reads, and its key.                                        *)

Listed(env, variable) == IF env[variable] = Unset THEN <<>> ELSE env[variable]

\* standard_kubeconfig_paths
StandardPaths(env) ==
    IF Listed(env, "KUBECONFIG") # <<>> THEN Listed(env, "KUBECONFIG") ELSE <<DefaultPath>>

\* configured_paths: none stands for kube's own discovery.
ConfiguredPaths(settings, env) ==
    LET selected == Listed(env, settings.variable)
    IN  IF selected # <<>> THEN selected \o settings.paths
        ELSE IF settings.paths # <<>> THEN StandardPaths(env) \o settings.paths ELSE <<>>

\* effective_kubeconfig_paths: the files whose changes rotate the cached clients.
EffectivePaths(settings, env) ==
    IF ConfiguredPaths(settings, env) # <<>> THEN ConfiguredPaths(settings, env)
    ELSE StandardPaths(env)

\* Mutant: the files that stand in for an empty variable are left out.
SourceKey_without_standard(settings, env) ==
    <<settings.variable, env[settings.variable], settings.paths>>

\* KubeconfigSource::key, as what is hashed, in order.
SourceKey(settings, env) ==
    <<settings.variable, env[settings.variable],
      (IF Listed(env, settings.variable) = <<>> THEN StandardPaths(env) ELSE <<>>)
      \o settings.paths>>

\* Kubeconfig::merge: what a context name means is settled by the first file that
\* has it.  Files that cannot be read are skipped; when none can, the default
\* file is read.
Readable(paths, files) == {n \in DOMAIN paths : files[paths[n]] # Unreadable}
Context(paths, files, name) ==
    LET having == {n \in Readable(paths, files) : name \in files[paths[n]]}
    IN  IF having = {} THEN Unset
        ELSE paths[CHOOSE n \in having : \A m \in having : n <= m]
ReadPaths(settings, env, files) ==
    LET configured == ConfiguredPaths(settings, env)
    IN  IF configured = <<>> THEN StandardPaths(env)
        ELSE IF Readable(configured, files) = {} THEN <<DefaultPath>> ELSE configured

-----------------------------------------------------------------------------
(* Properties.                                                              *)

\* Whatever the settings become: two of them with the same key read the same
\* files in the same order, so nothing cached or checked under the key of one is
\* another's; and as long as a configured file can be read, every context comes
\* from a file whose changes are watched for, the earliest that has it.
KeysNameSources ==
    LET reached == {settingsCache, edit.settings} \ {Missing}
    IN  \A s \in reached, env \in Environments :
          /\ \A t \in reached \cup {DefaultSettings}, other \in Environments :
                SourceKey(s, env) = SourceKey(t, other)
                => EffectivePaths(s, env) = EffectivePaths(t, other)
          /\ \A files \in Files, name \in {"a", "b"} :
                LET from == Context(ReadPaths(s, env, files), files, name)
                    effective == EffectivePaths(s, env)
                IN  /\ from # Unset /\ Readable(effective, files) # {}
                       => Contains(effective, from)
                    /\ from # Unset => \A i \in 1..Len(effective) :
                         files[effective[i]] # Unreadable /\ name \in files[effective[i]]
                         => \E j \in 1..i : effective[j] = from
=============================================================================
