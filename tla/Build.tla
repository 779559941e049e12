------------------------------- MODULE Build -------------------------------
(***************************************************************************)
(* fastedge-build: from a command line to .wasm components.                *)
(*                                                                         *)
(* One process builds its config files one after the other, each in these  *)
(* steps, named after what a process is about to do:                       *)
(*                                                                         *)
(*   load -> manifest -> validate -> bundle -> stage -> wizer -> cleanup   *)
(*        -> component -> metadata -> report -> load ...                   *)
(*                                                                         *)
(* Builds share the files: the manifests, the temporary directory and the  *)
(* outputs, which are overwritten in place, three times each.              *)
(***************************************************************************)
EXTENDS Integers, SequencesExt

CONSTANTS
    Proc,          \* the invocations of fastedge-build
    Config,        \* config files, and Direct
    Direct,        \* stands for the pair of files of a direct build
    Kind,          \* Kind[c]: what type says; "absent" if there is no config
    Output,        \* Output[c]: wasmOutput
    Manifest,      \* Manifest[c]: the manifest the entry point of c imports,
                   \*   which a static build writes first; or Nil
    Command,       \* Command[p]: the command lines of p
    Nil,
    Overlap        \* builds that share a file may run at the same time

\* "valueless" is an option that lacks its argument: arg() throws.
Flag == {"help", "version", "input", "output", "tsconfig", "config", "valueless"}

ASSUME BuildAssumption ==
    /\ Direct \in Config
    /\ Nil \notin Config \cup Int
    /\ Kind \in [Config -> {"static", "http", "other", "absent", "direct"}]
    /\ \A c \in Config : Kind[c] = "direct" <=> c = Direct
    /\ DOMAIN Output = Config /\ DOMAIN Manifest = Config
    /\ \A c \in Config : Kind[c] = "static" => Manifest[c] # Nil
    /\ \A p \in Proc : \A cmd \in Command[p] :
          /\ cmd.flags \subseteq Flag /\ cmd.positional \in Nat
          /\ cmd.files \in Seq(Config \ {Direct})
    /\ Overlap \in BOOLEAN

Killed == -1

VARIABLES
    pc,        \* pc[p]: the next step of p
    todo,      \* todo[p]: the config files p has still to load
    job,       \* job[p]: what p is building
    bundle,    \* bundle[p]: the JavaScript p holds in memory
    code,      \* code[p]: exit code, or Nil
    reported,  \* reported[p]: the builds p has reported as successes
    manifest,  \* manifest[m]: the config whose files the manifest m lists
    tmp,       \* tmp[d]: the bundle in the temporary directory d
    out        \* out[o]: the file o

procVars == <<pc, todo, job, bundle, code, reported>>
vars == <<procVars, manifest, tmp, out>>

Outputs == {Output[c] : c \in Config}
Manifests == {Manifest[c] : c \in Config} \ {Nil}
Bundle == [of : Config, assets : Config \cup {Nil}]
Wasm == [stage : {"broken", "core", "component", "finished"},
         of : Config, assets : Config \cup {Nil}]
Steps == {"load", "manifest", "validate", "bundle", "stage", "wizer", "cleanup",
          "component", "metadata", "report"}

\* The types; an output is always the product of some build, with its assets.
TypeOK ==
    /\ pc \in [Proc -> Steps \cup {"start", "exited"}]
    /\ todo \in [Proc -> Seq(Config)]
    /\ job \in [Proc -> Config \cup {Nil}]
    /\ bundle \in [Proc -> Bundle \cup {Nil}]
    /\ code \in [Proc -> {0, 1, Killed, Nil}]
    /\ reported \in [Proc -> SUBSET Config]
    /\ manifest \in [Manifests -> Config \cup {Nil}]
    /\ tmp \in [Proc -> Bundle \cup {Nil}]
    /\ out \in [Outputs -> Wasm \cup {Nil}]

Init ==
    /\ pc = [p \in Proc |-> "start"]
    /\ todo = [p \in Proc |-> <<>>]
    /\ job = [p \in Proc |-> Nil]
    /\ bundle = [p \in Proc |-> Nil]
    /\ code = [p \in Proc |-> Nil]
    /\ reported = [p \in Proc |-> {}]
    /\ manifest = [m \in Manifests |-> Nil]
    /\ tmp = [p \in Proc |-> Nil]
    /\ out = [o \in Outputs |-> Nil]

Go(p, from, to) == pc[p] = from /\ pc' = [pc EXCEPT ![p] = to]
Exit(p, c) == pc' = [pc EXCEPT ![p] = "exited"] /\ code' = [code EXCEPT ![p] = c]

-----------------------------------------------------------------------------
(* build.ts: the command line *)

ValidInput(cmd) ==
    \/ cmd.flags = {} /\ cmd.positional \in 1 .. 2
    \/ cmd.flags # {} /\ cmd.positional = 0
PrintsOnly(cmd) ==
    ~ValidInput(cmd) \/ cmd.flags \cap {"help", "version", "valueless"} # {}
IsDirect(cmd) == {"input", "output"} \subseteq cmd.flags \/ cmd.positional = 2
HasConfigs(cmd) == ("config" \in cmd.flags \/ cmd.positional = 1) /\ cmd.files # <<>>

\* The files that builds of the configs C write or import.
FilesOf(C) == {Output[c] : c \in C} \cup ({Manifest[c] : c \in C} \ {Nil})
\* Those of a command line, and those of what p has still to build.
FilesOfLine(cmd) == FilesOf(IF IsDirect(cmd) THEN {Direct} ELSE ToSet(cmd.files))
Pending(p) == FilesOf((ToSet(todo[p]) \cup {job[p]}) \ {Nil})

Runs(p) == pc[p] \notin {"start", "exited"}

\* External: nothing in fastedge-build keeps builds apart; who calls it may.
MayStart(p, cmd) ==
    /\ pc[p] = "start"
    /\ Overlap \/ \A q \in Proc : Runs(q) => FilesOfLine(cmd) \cap Pending(q) = {}

PrintUsage(p, cmd) ==
    /\ MayStart(p, cmd)
    /\ PrintsOnly(cmd) \/ ~(IsDirect(cmd) \/ HasConfigs(cmd))
    /\ Exit(p, IF "valueless" \in cmd.flags \/ (PrintsOnly(cmd) /\ ValidInput(cmd))
               THEN 0 ELSE 1)
    /\ UNCHANGED <<todo, job, bundle, reported, manifest, tmp, out>>

StartDirect(p, cmd) ==
    /\ MayStart(p, cmd)
    /\ ~PrintsOnly(cmd) /\ IsDirect(cmd)
    /\ Go(p, "start", "validate")
    /\ job' = [job EXCEPT ![p] = Direct]
    /\ UNCHANGED <<todo, bundle, code, reported, manifest, tmp, out>>

StartConfigs(p, cmd) ==
    /\ MayStart(p, cmd)
    /\ ~PrintsOnly(cmd) /\ ~IsDirect(cmd) /\ HasConfigs(cmd)
    /\ Go(p, "start", "load")
    /\ todo' = [todo EXCEPT ![p] = cmd.files]
    /\ UNCHANGED <<job, bundle, code, reported, manifest, tmp, out>>

-----------------------------------------------------------------------------
(* buildFromConfigFiles, buildFromConfig *)

\* Mutant: the path of the manifest is bundled, not what is there.
PathOnly(c) == Manifest[c]
\* What the bundle of c takes from the manifest.
Imported(c) == IF Manifest[c] = Nil THEN Nil ELSE manifest[Manifest[c]]

\* Mutant: a manifest that is there is not written again.
ManifestOnce(c) ==
    IF Kind[c] = "static" /\ Imported(c) = Nil THEN "manifest" ELSE "validate"
FirstStep(c) == IF Kind[c] = "static" THEN "manifest" ELSE "validate"

LoadConfig(p) ==
    /\ todo[p] # <<>>
    /\ LET c == Head(todo[p])
       IN /\ Kind[c] \in {"static", "http"}
          /\ Go(p, "load", FirstStep(c))
          /\ job' = [job EXCEPT ![p] = c]
    /\ todo' = [todo EXCEPT ![p] = Tail(@)]
    /\ UNCHANGED <<bundle, code, reported, manifest, tmp, out>>

\* A file that is not there or exports no config, and a type that is neither
\* http nor static, are logged, and the loop goes on.
SkipConfig(p) ==
    /\ todo[p] # <<>>
    /\ Kind[Head(todo[p])] \in {"absent", "other"}
    /\ Go(p, "load", "load")
    /\ todo' = [todo EXCEPT ![p] = Tail(@)]
    /\ UNCHANGED <<job, bundle, code, reported, manifest, tmp, out>>

Done(p) ==
    /\ pc[p] = "load"
    /\ todo[p] = <<>>
    /\ Exit(p, 0)
    /\ UNCHANGED <<todo, job, bundle, reported, manifest, tmp, out>>

\* createStaticAssetsManifest
WriteManifest(p) ==
    /\ Go(p, "manifest", "validate")
    /\ manifest' = [manifest EXCEPT ![Manifest[job[p]]] = job[p]]
    /\ UNCHANGED <<todo, job, bundle, code, reported, tmp, out>>

\* buildWasm: validateFilePaths.  It makes the directory of the output.
Validate(p) ==
    /\ Go(p, "validate", "bundle")
    /\ UNCHANGED <<todo, job, bundle, code, reported, manifest, tmp, out>>

-----------------------------------------------------------------------------
(* componentize *)

\* getJsInputContents, precompile: an import that is not there ends the build.
ReadSources(p) ==
    /\ Go(p, "bundle", "stage")
    /\ Manifest[job[p]] = Nil \/ Imported(job[p]) # Nil
    /\ bundle' = [bundle EXCEPT ![p] = [of |-> job[p], assets |-> Imported(job[p])]]
    /\ UNCHANGED <<todo, job, code, reported, manifest, tmp, out>>

\* Mutant: one temporary directory for all.
OneTmpDir(p) == CHOOSE q \in Proc : TRUE
\* getTmpDir: mkdtemp returns a new directory, here named for its process.
TmpDir(p) == p

Stage(p) ==
    /\ Go(p, "stage", "wizer")
    /\ tmp' = [tmp EXCEPT ![TmpDir(p)] = bundle[p]]
    /\ UNCHANGED <<todo, job, bundle, code, reported, manifest, out>>

\* Wizer runs the staged bundle and writes the output.
Wizer(p) ==
    /\ Go(p, "wizer", "cleanup")
    /\ tmp[TmpDir(p)] # Nil
    /\ out' = [out EXCEPT ![Output[job[p]]] =
          [stage |-> "core", of |-> tmp[TmpDir(p)].of, assets |-> tmp[TmpDir(p)].assets]]
    /\ UNCHANGED <<todo, job, bundle, code, reported, manifest, tmp>>

\* Mutant: the directory is left behind.
KeepTmp(p) == tmp
\* What cleanup leaves.
AfterCleanup(p) == [tmp EXCEPT ![TmpDir(p)] = Nil]

Cleanup(p) ==
    /\ Go(p, "cleanup", "component")
    /\ tmp' = AfterCleanup(p)
    /\ UNCHANGED <<todo, job, bundle, code, reported, manifest, out>>

\* componentNew, of a core module alone
MakeComponent(p) ==
    /\ Go(p, "component", "metadata")
    /\ out[Output[job[p]]].stage = "core"
    /\ out' = [out EXCEPT ![Output[job[p]]].stage = "component"]
    /\ UNCHANGED <<todo, job, bundle, code, reported, manifest, tmp>>

\* Mutant: the metadata is not written.
NoMetadata(stage) == stage
\* metadataAdd: of a core module too
WithMetadata(stage) == IF stage = "component" THEN "finished" ELSE stage

AddWasmMetadata(p) ==
    /\ Go(p, "metadata", "report")
    /\ out[Output[job[p]]].stage # "broken"
    /\ out' = [out EXCEPT ![Output[job[p]]].stage = WithMetadata(@)]
    /\ UNCHANGED <<todo, job, bundle, code, reported, manifest, tmp>>

\* "Success: Built ...", or "Build success!!"; there is nothing more to load
\* after a direct build.
Report(p) ==
    /\ Go(p, "report", "load")
    /\ reported' = [reported EXCEPT ![p] = @ \cup {job[p]}]
    /\ UNCHANGED <<todo, job, bundle, code, manifest, tmp, out>>

-----------------------------------------------------------------------------
\* A step fails and ends the process with code 1, or the process is killed.
\* What it has written stays, half written perhaps; a failing Wizer calls
\* process.exit(1) in the catch block, so that cleanup in the finally block
\* does not run.
Stop(p, c) ==
    /\ pc[p] \in IF c = 1 THEN Steps \ {"cleanup", "report"} ELSE Steps
    /\ pc[p] = "load" => c = Killed \/ todo[p] # <<>>
    /\ Exit(p, c)
    /\ out' \in {out} \cup
          IF pc[p] \in {"wizer", "component", "metadata"}
          THEN {[out EXCEPT ![Output[job[p]]] =
                    [stage |-> "broken", of |-> job[p], assets |-> Nil]]}
          ELSE {}
    \* mkdtemp succeeded, writeFile did not
    /\ tmp' \in {tmp} \cup
          IF pc[p] = "stage" THEN {[tmp EXCEPT ![TmpDir(p)] = bundle[p]]} ELSE {}
    /\ UNCHANGED <<todo, job, bundle, reported, manifest>>

Start(p) ==
    \E cmd \in Command[p] : PrintUsage(p, cmd) \/ StartDirect(p, cmd) \/ StartConfigs(p, cmd)

Step(p) ==
    \/ LoadConfig(p) \/ SkipConfig(p) \/ Done(p)
    \/ WriteManifest(p) \/ Validate(p) \/ ReadSources(p) \/ Stage(p)
    \/ Wizer(p) \/ Cleanup(p) \/ MakeComponent(p) \/ AddWasmMetadata(p)
    \/ Report(p)
    \/ Stop(p, 1)

Next == \E p \in Proc : Start(p) \/ Step(p) \/ Stop(p, Killed)

Spec == Init /\ [][Next]_vars

-----------------------------------------------------------------------------
Finished(c) ==
    out[Output[c]] = [stage |-> "finished", of |-> c,
                      assets |-> IF Kind[c] = "static" THEN c ELSE out[Output[c]].assets]

\* When a success is reported, the output is a finished component made of this
\* very build: of its entry point and, for a static build, of its own files,
\* though other builds have written the same files before, or write now.
ReportedIsFinished ==
    [][\A p \in Proc : \A c \in reported'[p] \ reported[p] : Finished(c)]_vars

\* A file that is no finished component is the output of a build that is still
\* running, or that did not exit with 0.
UnfinishedHasCulprit ==
    \A o \in Outputs : out[o] # Nil /\ out[o].stage # "finished" =>
        \E p \in Proc : job[p] # Nil /\ Output[job[p]] = o /\ code[p] # 0

\* A directory that is there is Wizer's at this moment, or was left behind by a
\* process that failed or was killed: a process that goes on to its next config,
\* or exits with 0, has left none.
TmpHasCulprit ==
    \A p \in Proc : tmp[TmpDir(p)] # Nil =>
        pc[p] \in {"wizer", "cleanup"} \/ code[p] \in {1, Killed}

=============================================================================
