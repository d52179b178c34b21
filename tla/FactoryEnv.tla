------------------------------ MODULE FactoryEnv ------------------------------
(***************************************************************************)
(* The U-Boot environment kept as a file of the factory store              *)
(* (env_factory.c, with env_import and set_default_env of env_common.c and *)
(* the boot sequence of board.c), composed with the store of FactoryStore. *)
(* The boot loader is one thread: a call of saveenv or delete_env runs to  *)
(* its end, unit of flash by unit of flash, before the console takes the   *)
(* next command, and only the power can cut in.                            *)
(***************************************************************************)
EXTENDS FactoryStore

CONSTANTS
    EnvFile,   \* "tmp/factory/env.txt"
    Default    \* default_environment

ASSUME EnvAssumption == EnvFile \in Path /\ Default \in Data

VARIABLES
    env,     \* env_htab, the environment in RAM
    task,    \* what the boot loader is doing, see Task
    ret,     \* what the last saveenv of this boot printed: "done" or "failed"
    maybe    \* history: what env.txt may be at the next boot, as far as the
             \* results of saveenv and delete_env tell

envvars == <<env, task, ret, maybe>>
allvars == <<vars, envvars>>

\* "boot" until factory_init, "relocate" until env_relocate_spec, "saveenv"
\* when saveenv is called; then, in factory_save or about to call it, the
\* caller's name; "idle" at the console.
Task == {"boot", "relocate", "saveenv", "write_env", "delete_env", "console",
         "idle"}
Saving == {"write_env", "delete_env", "console"}

stored == tar_read(factory_buffer, EnvFile)

-----------------------------------------------------------------------------

EnvInit ==
    /\ Init
    /\ env = Default
    /\ task = "boot"
    /\ ret = "none"
    /\ maybe = {NoFile}

\* board_init_r calls factory_init and then env_relocate.
Booted ==
    /\ factory_init
    /\ task' = "relocate"
    /\ UNCHANGED <<env, ret, maybe>>

\* Mutant of env_relocate_spec: the default environment is not saved.
env_relocate_spec_NoSave ==
    /\ task = "relocate"
    /\ env' = IF stored = NoFile THEN Default ELSE stored
    /\ task' = "idle"
    /\ maybe' = {stored}
    /\ UNCHANGED <<vars, ret>>

\* The environment is imported from env.txt; if there is none, the default is
\* used and, in the NAS build, saved at once.
env_relocate_spec ==
    /\ task = "relocate"
    /\ env' = IF stored = NoFile THEN Default ELSE stored
    /\ task' = IF stored = NoFile /\ NAS THEN "saveenv" ELSE "idle"
    /\ maybe' = {stored}
    /\ UNCHANGED <<vars, ret>>

\* A setenv command, and the saveenv command.
setenv(v) ==
    /\ task = "idle"
    /\ env' = v
    /\ UNCHANGED <<vars, task, ret, maybe>>

do_env_save ==
    /\ task = "idle"
    /\ task' = "saveenv"
    /\ UNCHANGED <<vars, env, ret, maybe>>

\* saveenv exports the environment and writes it into the archive ...
saveenv ==
    /\ task = "saveenv"
    /\ factory_write(EnvFile, env)
    /\ task' = "write_env"
    /\ maybe' = maybe \cup {env}
    /\ UNCHANGED <<env, ret>>

\* ... unless factory_write finds it too big.
saveenv_TooBig ==
    /\ task = "saveenv"
    /\ Blocks[env] + factory_tarsize + 1 + Padding > Half
    /\ task' = "idle"
    /\ ret' = "failed"
    /\ UNCHANGED <<vars, env, maybe>>

\* Mutant of delete_env: the file is not deleted.
delete_env_Kept ==
    /\ task = "idle"
    /\ task' = "delete_env"
    /\ maybe' = maybe \cup {NoFile}
    /\ UNCHANGED <<vars, env, ret>>

\* delete_env, called before a new boot code is started.
delete_env ==
    /\ task = "idle"
    /\ factory_delete(EnvFile)
    /\ task' = "delete_env"
    /\ maybe' = maybe \cup {NoFile}
    /\ UNCHANGED <<env, ret>>

\* The console's "factory write", "factory delete" and "factory save", on
\* other files than the environment.
factory_command ==
    /\ task = "idle"
    /\ \/ \E f \in Path, d \in Data :
             <<f, EnvFile>> \notin Prefix /\ factory_write(f, d) /\ task' = task
       \/ \E f \in Path :
             <<f, EnvFile>> \notin Prefix /\ factory_delete(f) /\ task' = task
       \/ factory_dirty /\ task' = "console" /\ UNCHANGED vars
    /\ UNCHANGED <<env, ret, maybe>>

\* factory_save of saveenv, of delete_env and of the console.
SaveBegins ==
    /\ task \in Saving
    /\ factory_save
    /\ UNCHANGED envvars

SaveStep ==
    /\ EraseUnit \/ WriteUnit
    /\ UNCHANGED envvars

SaveSucceeds ==
    /\ SaveDone
    /\ task' = "idle"
    /\ ret' = IF task = "write_env" THEN "done" ELSE ret
    /\ maybe' = IF task = "write_env" THEN {env}
                ELSE IF task = "delete_env" THEN {NoFile} ELSE maybe
    /\ UNCHANGED env

\* The save is refused or breaks off.  Only write_env looks at the result.
SaveFails ==
    /\ task \in Saving
    /\ factory_save_Rejected \/ EraseFails \/ WriteFails
    /\ task' = "idle"
    /\ ret' = IF task = "write_env" THEN "failed" ELSE ret
    /\ UNCHANGED <<env, maybe>>

PowerCut ==
    /\ PowerFails
    /\ task' = "boot"
    /\ env' = Default
    /\ ret' = "none"
    /\ UNCHANGED maybe

\* What the boot loader does by itself, and what others make it do.
Running == Booted \/ env_relocate_spec \/ saveenv \/ saveenv_TooBig
           \/ SaveBegins \/ SaveStep \/ SaveSucceeds \/ SaveFails
Command == \/ \E v \in Data : setenv(v)
           \/ do_env_save
           \/ delete_env
           \/ factory_command

EnvNext == Running \/ Command \/ PowerCut

EnvSpec == EnvInit /\ [][EnvNext]_allvars
FairEnvSpec == EnvSpec /\ WF_allvars(Running)

-----------------------------------------------------------------------------
(* Properties *)

\* What saveenv and delete_env report can be relied on across power failures,
\* failed saves and saves of other files: after "done" every boot finds that
\* environment until the next saveenv or delete_env, and after a failed call
\* the environment of before or of that call, never another one.
EnvOnFlash == Visible.files[EnvFile] \in maybe

\* Why: everything that a save in progress or a later one can bring to flash,
\* the archive of the current copy and the one in RAM, has an environment that
\* the results so far allow for; a boot starts from what is on flash; and
\* factory_save runs only for a caller that takes note of its result.
EnvInv ==
    /\ EnvOnFlash
    /\ env \in Data
    /\ pc = "off" <=> task = "boot"
    /\ task # "boot" => /\ Committed.files[EnvFile] \in maybe
                        /\ stored \in maybe
    /\ task = "relocate" => /\ factory_buffer = Visible
                            /\ Committed = Visible
    /\ pc \in {"erase", "write"} => task \in Saving
    /\ task = "write_env" => stored = env
    /\ task = "delete_env" => stored = NoFile

\* A boot that finds no environment ends with one stored, unless saveenv
\* reports a failure or the power fails: the save in env_relocate_spec always
\* comes to an end.
BootStoresEnv ==
    task = "relocate" ~> \/ task = "boot"
                         \/ ret = "failed"
                         \/ Visible.files[EnvFile] # NoFile
=============================================================================
