---------------------------- MODULE BuildProofs ----------------------------
(***************************************************************************)
(* Proofs about Build, for any number of processes, config files and       *)
(* command lines.  What a process has written is followed from its own     *)
(* position: the first part of the invariant holds for builds that overlap, *)
(* the second, about what is inside the files, for builds that are kept    *)
(* apart by whoever calls them.                                            *)
(***************************************************************************)
EXTENDS Build, TLAPS

\* Positions from which the output of the current build is a file it has written.
Written == {"cleanup", "component", "metadata", "report"}

\* Where a process is tells what it has in hand.
Position(p) ==
    /\ pc[p] = "start" => todo[p] = <<>> /\ job[p] = Nil
    /\ pc[p] \in Steps \ {"load"} => job[p] \in Config
    /\ pc[p] = "manifest" => Kind[job[p]] = "static"
    /\ pc[p] = "stage" => bundle[p] \in Bundle
    /\ pc[p] \in Written => out[Output[job[p]]] \in Wasm
    /\ code[p] # Nil <=> pc[p] = "exited"
    /\ tmp[p] # Nil => pc[p] \in {"wizer", "cleanup"} \/ code[p] \in {1, Killed}

\* p is the reason that the output o is at this stage.
Behind(p, o) ==
    /\ job[p] \in Config /\ Output[job[p]] = o
    /\ \/ code[p] \in {1, Killed}
       \/ out[o].stage = "core" /\ pc[p] \in {"cleanup", "component"}
       \/ out[o].stage = "component" /\ pc[p] = "metadata"

Explained ==
    \A o \in Outputs : out[o] # Nil /\ out[o].stage # "finished" =>
        \E p \in Proc : Behind(p, o)

Common == TypeOK /\ (\A p \in Proc : Position(p)) /\ Explained

\* Builds that run at the same time work on files of their own.
Apart ==
    \A p, q \in Proc : p # q /\ Runs(p) /\ Runs(q) => Pending(p) \cap Pending(q) = {}

MadeFor(b, c) == b.of = c /\ (Kind[c] = "static" => b.assets = c)

\* What a process has in hand comes from the config it is building.
Product(p) ==
    /\ pc[p] \in {"validate", "bundle"} /\ Kind[job[p]] = "static" =>
          manifest[Manifest[job[p]]] = job[p]
    /\ pc[p] = "stage" => MadeFor(bundle[p], job[p])
    /\ pc[p] = "wizer" => MadeFor(tmp[p], job[p])
    /\ pc[p] \in Written => MadeFor(out[Output[job[p]]], job[p])
    /\ pc[p] \in {"cleanup", "component"} => out[Output[job[p]]].stage = "core"
    /\ pc[p] = "metadata" => out[Output[job[p]]].stage = "component"
    /\ pc[p] = "report" => out[Output[job[p]]].stage = "finished"

Exclusive == Apart /\ \A p \in Proc : Product(p)

Moves(p) == Start(p) \/ Step(p) \/ Stop(p, Killed)

-----------------------------------------------------------------------------
LEMMA FilesOfConfig ==
    ASSUME NEW c \in Config
    PROVE  /\ Output[c] \in Outputs
           /\ Manifest[c] # Nil => Manifest[c] \in Manifests
           /\ Kind[c] = "static" => Manifest[c] # Nil
  BY BuildAssumption DEF Outputs, Manifests

LEMMA CommandFiles ==
    ASSUME NEW p \in Proc, NEW cmd \in Command[p]
    PROVE  cmd.files \in Seq(Config)
<1>1. cmd.files \in Seq(Config \ {Direct})
  BY BuildAssumption
<1> QED
  BY <1>1

\* A step of p changes nothing of another process, and one shared file at most.
Frame(p) ==
    /\ \A q \in Proc \ {p} :
          /\ pc'[q] = pc[q] /\ todo'[q] = todo[q] /\ job'[q] = job[q]
          /\ bundle'[q] = bundle[q] /\ code'[q] = code[q] /\ reported'[q] = reported[q]
          /\ tmp'[q] = tmp[q]
    /\ \/ UNCHANGED manifest
       \/ /\ pc[p] = "manifest"
          /\ manifest' = [manifest EXCEPT ![Manifest[job[p]]] = job[p]]
    /\ \/ UNCHANGED out
       \/ /\ pc[p] \in {"wizer", "component", "metadata"}
          /\ \E w \in Wasm : out' = [out EXCEPT ![Output[job[p]]] = w]

\* Types and positions: what p does with its own state.
LEMMA StartKeeps ==
    ASSUME Common, NEW p \in Proc, Start(p)
    PROVE  TypeOK' /\ Position(p)' /\ Frame(p) /\ UNCHANGED <<manifest, tmp, out>>
<1>1. PICK cmd \in Command[p] :
          PrintUsage(p, cmd) \/ StartDirect(p, cmd) \/ StartConfigs(p, cmd)
  BY DEF Start
<1>2. TypeOK /\ Position(p) /\ pc[p] = "start" /\ code[p] = Nil /\ tmp[p] = Nil
  <2>1. pc[p] = "start"
    BY <1>1 DEF PrintUsage, StartDirect, StartConfigs, MayStart
  <2> QED
    BY <2>1, BuildAssumption DEF Common, Position, Killed
<1>3. CASE PrintUsage(p, cmd)
  BY <1>2, <1>3, BuildAssumption DEF PrintUsage, Exit, TypeOK, Position, Frame, Steps, Written
<1>4. CASE StartDirect(p, cmd)
  BY <1>2, <1>4, BuildAssumption DEF StartDirect, Go, TypeOK, Position, Frame, Steps, Written
<1>5. CASE StartConfigs(p, cmd)
  BY <1>2, <1>5, CommandFiles, BuildAssumption
  DEF StartConfigs, Go, TypeOK, Position, Frame, Steps, Written
<1> QED
  BY <1>1, <1>3, <1>4, <1>5

LEMMA LoadKeeps ==
    ASSUME Common, NEW p \in Proc, LoadConfig(p) \/ SkipConfig(p) \/ Done(p)
    PROVE  TypeOK' /\ Position(p)' /\ Frame(p) /\ UNCHANGED <<manifest, tmp, out>>
<1>1. TypeOK /\ Position(p) /\ pc[p] = "load" /\ tmp[p] = Nil /\ code[p] = Nil
  BY BuildAssumption DEF Common, Position, LoadConfig, SkipConfig, Done, Go, Killed, Steps
<1>2. todo[p] \in Seq(Config)
  BY <1>1 DEF TypeOK
<1>3. todo[p] # <<>> => Head(todo[p]) \in Config /\ Tail(todo[p]) \in Seq(Config)
  BY <1>2
<1>4. CASE LoadConfig(p)
  BY <1>1, <1>3, <1>4
  DEF LoadConfig, FirstStep, Go, TypeOK, Position, Frame, Steps, Written
<1>5. CASE SkipConfig(p)
  BY <1>1, <1>3, <1>5 DEF SkipConfig, Go, TypeOK, Position, Frame, Steps, Written
<1>6. CASE Done(p)
  BY <1>1, <1>6, BuildAssumption DEF Done, Exit, TypeOK, Position, Frame, Steps, Written
<1> QED
  BY <1>4, <1>5, <1>6

LEMMA BundleKeeps ==
    ASSUME Common, NEW p \in Proc,
           WriteManifest(p) \/ Validate(p) \/ ReadSources(p) \/ Stage(p) \/ Cleanup(p) \/ Report(p)
    PROVE  TypeOK' /\ Position(p)' /\ Frame(p) /\ UNCHANGED out
<1>1. /\ TypeOK /\ Position(p) /\ job[p] \in Config /\ code[p] = Nil
      /\ pc[p] \in {"manifest", "validate", "bundle", "stage", "cleanup", "report"}
  BY DEF Common, Position, WriteManifest, Validate, ReadSources, Stage, Cleanup, Report, Go, Steps
<1>2. CASE WriteManifest(p)
  BY <1>1, <1>2, FilesOfConfig DEF WriteManifest, Go, TypeOK, Position, Frame, Steps, Written
<1>3. CASE Validate(p)
  BY <1>1, <1>3 DEF Validate, Go, TypeOK, Position, Frame, Steps, Written
<1>4. CASE ReadSources(p)
  <2>1. Imported(job[p]) \in Config \cup {Nil}
    BY <1>1, FilesOfConfig DEF Imported, TypeOK
  <2>2. [of |-> job[p], assets |-> Imported(job[p])] \in Bundle
    BY <1>1, <2>1 DEF Bundle
  <2> QED
    BY <1>1, <1>4, <2>2 DEF ReadSources, Go, TypeOK, Position, Frame, Steps, Written
<1>5. CASE Stage(p)
  BY <1>1, <1>5 DEF Stage, TmpDir, Go, TypeOK, Position, Frame, Steps, Written
<1>6. CASE Cleanup(p)
  BY <1>1, <1>6 DEF Cleanup, AfterCleanup, TmpDir, Go, TypeOK, Position, Frame, Steps, Written
<1>7. CASE Report(p)
  BY <1>1, <1>7 DEF Report, Go, TypeOK, Position, Frame, Steps, Written
<1> QED
  BY <1>2, <1>3, <1>4, <1>5, <1>6, <1>7

\* The three steps that overwrite the output.
LEMMA OutputKeeps ==
    ASSUME Common, NEW p \in Proc, Wizer(p) \/ MakeComponent(p) \/ AddWasmMetadata(p)
    PROVE  TypeOK' /\ Position(p)' /\ Frame(p)
<1> DEFINE o == Output[job[p]]
<1>1. /\ TypeOK /\ Position(p) /\ job[p] \in Config /\ o \in Outputs /\ code[p] = Nil
      /\ pc[p] \in {"wizer", "component", "metadata"}
      /\ pc[p] # "wizer" => out[o] \in Wasm
      /\ out \in [Outputs -> Wasm \cup {Nil}]
  BY FilesOfConfig
  DEF Common, Position, Wizer, MakeComponent, AddWasmMetadata, Go, Steps, Written, TypeOK
<1>2. PICK w \in Wasm : out' = [out EXCEPT ![o] = w]
  <2>1. CASE Wizer(p)
    <3>1. tmp[p] \in Bundle
      BY <1>1, <2>1 DEF Wizer, TmpDir, TypeOK
    <3>2. [stage |-> "core", of |-> tmp[p].of, assets |-> tmp[p].assets] \in Wasm
      BY <3>1 DEF Bundle, Wasm
    <3> QED
      BY <2>1, <3>2 DEF Wizer, TmpDir
  <2>2. CASE MakeComponent(p)
    <3>1. out[o] \in Wasm
      BY <1>1, <2>2 DEF MakeComponent, Go
    <3>2. [out[o] EXCEPT !.stage = "component"] \in Wasm
      BY <3>1 DEF Wasm
    <3>3. out' = [out EXCEPT ![o] = [out[o] EXCEPT !.stage = "component"]]
      BY <2>2 DEF MakeComponent
    <3> QED
      BY <3>2, <3>3
  <2>3. CASE AddWasmMetadata(p)
    <3>1. out[o] \in Wasm
      BY <1>1, <2>3 DEF AddWasmMetadata, Go
    <3>2. [out[o] EXCEPT !.stage = WithMetadata(@)] \in Wasm
      BY <3>1 DEF Wasm, WithMetadata
    <3>3. out' = [out EXCEPT ![o] = [out[o] EXCEPT !.stage = WithMetadata(@)]]
      BY <2>3 DEF AddWasmMetadata
    <3> QED
      BY <3>2, <3>3
  <2> QED
    BY <2>1, <2>2, <2>3
<1>3. out' \in [Outputs -> Wasm \cup {Nil}] /\ out'[o] = w
  BY <1>1, <1>2
<1>4. /\ UNCHANGED <<todo, job, bundle, code, reported, manifest, tmp>>
      /\ \E to \in {"cleanup", "metadata", "report"} :
             pc' = [pc EXCEPT ![p] = to] /\ (pc[p] # "wizer" => to # "cleanup")
      /\ tmp[p] # Nil => pc'[p] = "cleanup"
  BY <1>1, BuildAssumption
  DEF Wizer, MakeComponent, AddWasmMetadata, Go, Position, TypeOK, Killed
<1>5. TypeOK'
  BY <1>1, <1>3, <1>4 DEF TypeOK, Steps
<1>6. Position(p)'
  BY <1>1, <1>3, <1>4 DEF Position, TypeOK, Steps, Written
<1>7. Frame(p)
  BY <1>1, <1>2, <1>4 DEF Frame, TypeOK
<1> QED
  BY <1>5, <1>6, <1>7

\* A failure or a kill, at any step.
LEMMA StopKeeps ==
    ASSUME Common, NEW p \in Proc, NEW c \in {1, Killed}, Stop(p, c)
    PROVE  TypeOK' /\ Position(p)' /\ Frame(p) /\ code'[p] = c /\ UNCHANGED job
<1> DEFINE o == Output[job[p]]
           broken == [stage |-> "broken", of |-> job[p], assets |-> Nil]
<1>1. /\ TypeOK /\ Position(p) /\ pc[p] \in Steps
      /\ out \in [Outputs -> Wasm \cup {Nil}]
      /\ pc[p] \in {"wizer", "component", "metadata"} => o \in Outputs /\ broken \in Wasm
      /\ pc[p] = "stage" => bundle[p] \in Bundle
  BY FilesOfConfig DEF Common, Position, Stop, TypeOK, Steps, Wasm
<1>2. \/ UNCHANGED out
      \/ pc[p] \in {"wizer", "component", "metadata"} /\ out' = [out EXCEPT ![o] = broken]
  BY DEF Stop
<1>3. out' \in [Outputs -> Wasm \cup {Nil}]
  BY <1>1, <1>2
<1>4. tmp' \in [Proc -> Bundle \cup {Nil}] /\ \A q \in Proc \ {p} : tmp'[q] = tmp[q]
  <2>1. \/ UNCHANGED tmp
        \/ pc[p] = "stage" /\ tmp' = [tmp EXCEPT ![p] = bundle[p]]
    BY DEF Stop, TmpDir
  <2> QED
    BY <1>1, <2>1 DEF TypeOK
<1>5. /\ pc' = [pc EXCEPT ![p] = "exited"] /\ code' = [code EXCEPT ![p] = c]
      /\ UNCHANGED <<todo, job, bundle, reported, manifest>>
  BY DEF Stop, Exit
<1>6. TypeOK'
  BY <1>1, <1>3, <1>4, <1>5 DEF TypeOK
<1>7. Position(p)' /\ code'[p] = c
  BY <1>1, <1>5, BuildAssumption DEF Position, TypeOK, Steps, Written, Killed
<1>8. Frame(p)
  BY <1>1, <1>2, <1>4, <1>5 DEF Frame, TypeOK
<1> QED
  BY <1>5, <1>6, <1>7, <1>8

LEMMA MoveKeeps ==
    ASSUME Common, NEW p \in Proc, Moves(p)
    PROVE  TypeOK' /\ Position(p)' /\ Frame(p)
  BY StartKeeps, LoadKeeps, BundleKeeps, OutputKeeps, StopKeeps DEF Moves, Step

\* The others stay where they are; a file they have written stays a file.
LEMMA OthersKeep ==
    ASSUME Common, NEW p \in Proc, Frame(p), NEW q \in Proc, q # p
    PROVE  Position(q)'
<1>1. Position(q) /\ out \in [Outputs -> Wasm \cup {Nil}]
  BY DEF Common, TypeOK
<1>2. ASSUME pc[q] \in Written PROVE out'[Output[job[q]]] \in Wasm
  <2>1. Output[job[q]] \in Outputs /\ out[Output[job[q]]] \in Wasm
    BY <1>1, <1>2, FilesOfConfig DEF Position, Written, Steps
  <2> QED
    BY <1>1, <2>1 DEF Frame
<1>3. /\ pc'[q] = pc[q] /\ todo'[q] = todo[q] /\ job'[q] = job[q]
      /\ bundle'[q] = bundle[q] /\ code'[q] = code[q] /\ tmp'[q] = tmp[q]
  BY DEF Frame
<1> QED
  BY <1>1, <1>2, <1>3 DEF Position

-----------------------------------------------------------------------------
(* Unfinished outputs *)

\* Who is behind an output stays behind it until the output moves on.
LEMMA MoveExplains ==
    ASSUME Common, NEW p \in Proc, Moves(p)
    PROVE  Explained'
<1> SUFFICES ASSUME NEW o \in Outputs, out'[o] # Nil, out'[o].stage # "finished"
             PROVE  \E q \in Proc : Behind(q, o)'
  BY DEF Explained
<1>1. /\ TypeOK /\ Position(p) /\ TypeOK' /\ Position(p)' /\ Frame(p)
      /\ out \in [Outputs -> Wasm \cup {Nil}]
  BY MoveKeeps DEF Common, TypeOK
<1>2. ASSUME NEW q \in Proc, q # p, Behind(q, o), out'[o] = out[o] PROVE Behind(q, o)'
  BY <1>1, <1>2 DEF Frame, Behind
<1>3. ASSUME NEW c \in {1, Killed}, Stop(p, c) PROVE \E q \in Proc : Behind(q, o)'
  <2>1. code'[p] = c /\ UNCHANGED job
    BY <1>3, StopKeeps
  <2>2. CASE out'[o] = out[o]
    <3>1. PICK q \in Proc : Behind(q, o)
      BY <2>2 DEF Common, Explained
    <3>2. CASE q = p
      BY <2>1, <3>1, <3>2 DEF Behind
    <3> QED
      BY <1>2, <2>2, <3>1, <3>2
  <2>3. CASE out'[o] # out[o]
    <3>1. pc[p] \in {"wizer", "component", "metadata"} /\ o = Output[job[p]]
      BY <1>1, <2>3 DEF Frame
    <3>2. job[p] \in Config
      BY <1>1, <3>1 DEF Position, Steps
    <3> QED
      BY <2>1, <3>1, <3>2 DEF Behind
  <2> QED
    BY <2>2, <2>3
<1>4. ASSUME Wizer(p) \/ MakeComponent(p) \/ AddWasmMetadata(p)
      PROVE  \E q \in Proc : Behind(q, o)'
  <2>1. job[p] \in Config /\ Output[job[p]] \in Outputs /\ UNCHANGED job
    BY <1>1, <1>4, FilesOfConfig
    DEF Wizer, MakeComponent, AddWasmMetadata, Go, Position, Steps
  <2>2. CASE o # Output[job[p]]
    <3>1. out'[o] = out[o]
      BY <1>1, <2>2 DEF Frame
    <3>2. PICK q \in Proc : Behind(q, o)
      BY <3>1 DEF Common, Explained
    <3>3. q # p
      BY <2>2, <3>2 DEF Behind
    <3> QED
      BY <1>2, <3>1, <3>2, <3>3
  <2>3. CASE o = Output[job[p]] /\ Wizer(p)
    <3>1. pc'[p] = "cleanup" /\ out'[o].stage = "core"
      BY <1>1, <2>1, <2>3 DEF Wizer, Go, TypeOK
    <3> QED
      BY <2>1, <2>3, <3>1 DEF Behind
  <2>4. CASE o = Output[job[p]] /\ MakeComponent(p)
    <3>1. out[o] \in Wasm /\ pc'[p] = "metadata"
      BY <1>1, <2>4 DEF MakeComponent, Go, Position, Written, TypeOK
    <3>2. out'[o].stage = "component"
      BY <1>1, <2>4, <3>1 DEF MakeComponent, Wasm
    <3> QED
      BY <2>1, <2>4, <3>1, <3>2 DEF Behind
  <2>5. CASE o = Output[job[p]] /\ AddWasmMetadata(p)
    <3>1. out[o] \in Wasm /\ out[o].stage # "broken" /\ pc[p] = "metadata"
      BY <1>1, <2>5 DEF AddWasmMetadata, Go, Position, Written, TypeOK
    <3>2. out'[o] = [out[o] EXCEPT !.stage = WithMetadata(@)]
      BY <1>1, <2>5 DEF AddWasmMetadata
    <3>3. out'[o].stage = WithMetadata(out[o].stage)
      BY <3>1, <3>2 DEF Wasm
    <3>4. out[o].stage = "core" /\ out'[o] = out[o]
      <4>1. out[o].stage = "core"
        BY <3>1, <3>3 DEF WithMetadata, Wasm
      <4>2. [out[o] EXCEPT !.stage = "core"] = out[o]
        BY <3>1, <4>1 DEF Wasm
      <4> QED
        BY <3>2, <4>1, <4>2 DEF WithMetadata
    <3>5. PICK q \in Proc : Behind(q, o)
      BY <3>1, <3>4 DEF Common, Explained
    <3>6. q # p
      <4>1. code[p] = Nil
        BY <1>1, <3>1 DEF Position
      <4> QED
        BY <3>1, <3>4, <3>5, <4>1, BuildAssumption DEF Behind, Killed
    <3> QED
      BY <1>2, <3>4, <3>5, <3>6
  <2> QED
    BY <1>4, <2>2, <2>3, <2>4, <2>5
<1>5. ASSUME \/ Start(p) \/ LoadConfig(p) \/ SkipConfig(p) \/ Done(p)
             \/ WriteManifest(p) \/ Validate(p) \/ ReadSources(p) \/ Stage(p) \/ Cleanup(p)
             \/ Report(p)
      PROVE  \E q \in Proc : Behind(q, o)'
  <2>1. UNCHANGED out
    BY <1>5, StartKeeps, LoadKeeps, BundleKeeps
  <2>2. PICK q \in Proc : Behind(q, o)
    BY <2>1 DEF Common, Explained
  <2>3. CASE q = p
    <3>1. Cleanup(p)
      BY <1>1, <1>5, <2>2, <2>3, BuildAssumption
      DEF Behind, Start, PrintUsage, StartDirect, StartConfigs, MayStart, LoadConfig, SkipConfig,
          Done, WriteManifest, Validate, ReadSources, Stage, Cleanup, Report, Go, Position, Killed
    <3>2. pc[p] = "cleanup" /\ pc'[p] = "component" /\ UNCHANGED <<job, code>>
      BY <1>1, <3>1 DEF Cleanup, Go, TypeOK
    <3> QED
      BY <2>1, <2>2, <2>3, <3>2 DEF Behind
  <2> QED
    BY <1>2, <2>1, <2>2, <2>3
<1> QED
  BY <1>3, <1>4, <1>5 DEF Moves, Step

LEMMA NextCommon == Common /\ [Next]_vars => Common'
<1> SUFFICES ASSUME Common, [Next]_vars PROVE Common'
  OBVIOUS
<1>1. CASE UNCHANGED vars
  BY <1>1 DEF vars, procVars, Common, TypeOK, Position, Explained, Behind
<1>2. ASSUME NEW p \in Proc, Moves(p) PROVE Common'
  BY <1>2, MoveKeeps, OthersKeep, MoveExplains DEF Common
<1> QED
  BY <1>1, <1>2 DEF Next, Moves

LEMMA InitCommon == Init => Common
  BY BuildAssumption DEF Init, Common, TypeOK, Position, Explained, Written, Steps

-----------------------------------------------------------------------------
(* Builds that are kept apart *)

LEMMA JobIsPending ==
    ASSUME Common, NEW p \in Proc, pc[p] \in Steps \ {"load"}
    PROVE  /\ job[p] \in Config /\ Output[job[p]] \in Pending(p)
           /\ Manifest[job[p]] # Nil => Manifest[job[p]] \in Pending(p)
<1>1. job[p] \in Config
  BY DEF Common, Position
<1>2. job[p] \in (ToSet(todo[p]) \cup {job[p]}) \ {Nil}
  BY <1>1, BuildAssumption
<1> QED
  BY <1>1, <1>2 DEF Pending, FilesOf

LEMMA MoreConfigsMoreFiles ==
    ASSUME NEW C, NEW D, C \subseteq D
    PROVE  FilesOf(C) \subseteq FilesOf(D)
  BY DEF FilesOf

\* A build that has started takes no more files.
LEMMA PendingShrinks ==
    ASSUME Common, NEW p \in Proc, Runs(p), Moves(p), Runs(p)'
    PROVE  Pending(p)' \subseteq Pending(p)
<1> DEFINE C == (ToSet(todo[p]) \cup {job[p]}) \ {Nil}
<1>1. CASE UNCHANGED <<todo, job>>
  BY <1>1 DEF Pending
<1>2. CASE LoadConfig(p) \/ SkipConfig(p)
  <2>1. todo[p] \in Seq(Config) /\ todo[p] # <<>>
    BY <1>2 DEF Common, TypeOK, LoadConfig, SkipConfig
  <2>2. Head(todo[p]) \in ToSet(todo[p]) /\ ToSet(Tail(todo[p])) \subseteq ToSet(todo[p])
    BY <2>1 DEF ToSet
  <2>3. todo'[p] = Tail(todo[p]) /\ job'[p] \in {job[p], Head(todo[p])}
    BY <1>2 DEF Common, TypeOK, LoadConfig, SkipConfig
  <2>4. C' \subseteq C
    BY <2>2, <2>3
  <2> QED
    BY <2>4, MoreConfigsMoreFiles DEF Pending
<1> QED
  BY <1>1, <1>2
  DEF Moves, Step, Start, PrintUsage, StartDirect, StartConfigs, MayStart, Runs, Done,
      WriteManifest, Validate, ReadSources, Stage, Wizer, Cleanup, MakeComponent,
      AddWasmMetadata, Report, Stop

\* A build that starts takes files that no running build has to do with.
LEMMA StartIsApart ==
    ASSUME Overlap = FALSE, Common, NEW p \in Proc, Start(p), Runs(p)',
           NEW q \in Proc, q # p, Runs(q)
    PROVE  Pending(p)' \cap Pending(q) = {}
<1>1. PICK cmd \in Command[p] : StartDirect(p, cmd) \/ StartConfigs(p, cmd)
  BY DEF Start, PrintUsage, Exit, Runs, Common, TypeOK
<1>2. FilesOfLine(cmd) \cap Pending(q) = {}
  BY <1>1 DEF StartDirect, StartConfigs, MayStart
<1>3. todo[p] = <<>> /\ job[p] = Nil
  BY <1>1 DEF StartDirect, StartConfigs, MayStart, Common, Position
<1>4. Pending(p)' \subseteq FilesOfLine(cmd)
  <2> DEFINE C == (ToSet(todo[p]) \cup {job[p]}) \ {Nil}
  <2>1. CASE StartDirect(p, cmd)
    <3>1. C' \subseteq {Direct} /\ IsDirect(cmd)
      BY <1>3, <2>1 DEF StartDirect, Common, TypeOK, ToSet
    <3> QED
      BY <3>1, MoreConfigsMoreFiles DEF Pending, FilesOfLine
  <2>2. CASE StartConfigs(p, cmd)
    <3>1. C' \subseteq ToSet(cmd.files) /\ ~IsDirect(cmd)
      BY <1>3, <2>2 DEF StartConfigs, Common, TypeOK
    <3> QED
      BY <3>1, MoreConfigsMoreFiles DEF Pending, FilesOfLine
  <2> QED
    BY <1>1, <2>1, <2>2
<1> QED
  BY <1>2, <1>4

LEMMA MoveKeepsApart ==
    ASSUME Overlap = FALSE, Common, Apart, NEW p \in Proc, Moves(p)
    PROVE  Apart'
<1>1. Frame(p)
  BY MoveKeeps
<1>2. ASSUME NEW q \in Proc, q # p PROVE Pending(q)' = Pending(q) /\ (Runs(q)' <=> Runs(q))
  BY <1>1, <1>2 DEF Frame, Pending, Runs
<1>3. ASSUME NEW q \in Proc, q # p, Runs(p)', Runs(q)
      PROVE  Pending(p)' \cap Pending(q) = {}
  <2>1. CASE Runs(p)
    BY <1>3, <2>1, PendingShrinks DEF Apart
  <2>2. CASE ~Runs(p)
    <3>1. Start(p)
      BY <2>2 DEF Moves, Step, Runs, Stop, Steps, LoadConfig, SkipConfig, Done,
         WriteManifest, Validate, ReadSources, Stage, Wizer, Cleanup, MakeComponent,
         AddWasmMetadata, Report, Go
    <3> QED
      BY <1>3, <3>1, StartIsApart
  <2> QED
    BY <2>1, <2>2
<1> QED
  BY <1>2, <1>3 DEF Apart

\* What a process has made is left alone by the others.
LEMMA OthersKeepProduct ==
    ASSUME Common, Apart, NEW p \in Proc, Frame(p), Runs(p), NEW q \in Proc, q # p, Product(q)
    PROVE  Product(q)'
<1>1. /\ pc'[q] = pc[q] /\ job'[q] = job[q] /\ bundle'[q] = bundle[q] /\ tmp'[q] = tmp[q]
  BY DEF Frame
<1>2. CASE pc[q] \notin Steps \ {"load"}
  BY <1>1, <1>2 DEF Product, Steps, Written
<1>3. CASE pc[q] \in Steps \ {"load"}
  <2>1. job[q] \in Config /\ Pending(p) \cap Pending(q) = {}
    BY <1>3, JobIsPending DEF Apart, Runs, Steps
  <2>2. out'[Output[job[q]]] = out[Output[job[q]]]
    <3>1. CASE UNCHANGED out
      BY <3>1
    <3>2. ASSUME NEW w, out' = [out EXCEPT ![Output[job[p]]] = w],
                 pc[p] \in {"wizer", "component", "metadata"}
          PROVE  out'[Output[job[q]]] = out[Output[job[q]]]
      <4>1. Output[job[p]] # Output[job[q]]
        BY <1>3, <2>1, <3>2, JobIsPending DEF Steps
      <4>2. Output[job[q]] \in Outputs
        BY <2>1, FilesOfConfig
      <4> QED
        BY <3>2, <4>1, <4>2 DEF Common, TypeOK
    <3> QED
      BY <3>1, <3>2 DEF Frame
  <2>3. Kind[job[q]] = "static" => manifest'[Manifest[job[q]]] = manifest[Manifest[job[q]]]
    <3>1. SUFFICES ASSUME Kind[job[q]] = "static",
                          pc[p] = "manifest",
                          manifest' = [manifest EXCEPT ![Manifest[job[p]]] = job[p]]
                   PROVE  manifest'[Manifest[job[q]]] = manifest[Manifest[job[q]]]
      BY DEF Frame
    <3>2. job[p] \in Config /\ Kind[job[p]] = "static"
      BY <3>1 DEF Common, Position, Steps
    <3>3. Manifest[job[p]] # Nil /\ Manifest[job[q]] # Nil /\ Manifest[job[q]] \in Manifests
      BY <2>1, <3>1, <3>2, FilesOfConfig
    <3>4. Manifest[job[p]] # Manifest[job[q]]
      BY <1>3, <2>1, <3>1, <3>3, JobIsPending DEF Steps
    <3> QED
      BY <3>1, <3>3, <3>4 DEF Common, TypeOK
  <2> QED
    BY <1>1, <2>2, <2>3 DEF Product
<1> QED
  BY <1>2, <1>3

\* Each step of a build makes its product from that of the step before.
LEMMA StepKeepsProduct ==
    ASSUME Common, NEW p \in Proc, Product(p), Moves(p)
    PROVE  Product(p)'
<1> DEFINE o == Output[job[p]]
<1>1. TypeOK /\ Position(p) /\ (pc[p] \in Steps \ {"load"} => job[p] \in Config /\ o \in Outputs)
  BY FilesOfConfig DEF Common, Position
<1>2. CASE pc'[p] \in {"load", "manifest", "exited"}
  BY <1>2 DEF Product, Written
<1>3. CASE Start(p) \/ LoadConfig(p)
  <2>1. \/ pc'[p] \in {"exited", "load", "manifest"}
        \/ /\ pc'[p] = "validate"
           /\ Kind[job'[p]] # "static"
    BY <1>1, <1>3, BuildAssumption
    DEF Start, PrintUsage, StartDirect, StartConfigs, LoadConfig, FirstStep, Go, Exit, MayStart,
        TypeOK
  <2> QED
    BY <1>2, <2>1 DEF Product, Written
<1>4. CASE SkipConfig(p) \/ Done(p) \/ Report(p) \/ \E c \in {1, Killed} : Stop(p, c)
  BY <1>1, <1>2, <1>4 DEF SkipConfig, Done, Report, Stop, Go, Exit, TypeOK
<1>5. CASE WriteManifest(p)
  <2>1. pc'[p] = "validate" /\ job'[p] = job[p] /\ job[p] \in Config /\ Kind[job[p]] = "static"
        /\ manifest' = [manifest EXCEPT ![Manifest[job[p]]] = job[p]]
    BY <1>1, <1>5 DEF WriteManifest, Go, TypeOK, Position, Steps
  <2>2. manifest'[Manifest[job[p]]] = job[p]
    BY <1>1, <2>1, FilesOfConfig DEF TypeOK
  <2> QED
    BY <2>1, <2>2 DEF Product, Written
<1>6. CASE Validate(p)
  <2>1. pc[p] = "validate" /\ pc'[p] = "bundle" /\ UNCHANGED <<job, manifest>>
    BY <1>1, <1>6 DEF Validate, Go, TypeOK
  <2> QED
    BY <2>1 DEF Product, Written
<1>7. CASE ReadSources(p)
  <2>1. /\ pc[p] = "bundle" /\ pc'[p] = "stage" /\ UNCHANGED job /\ job[p] \in Config
        /\ bundle'[p] = [of |-> job[p], assets |-> Imported(job[p])]
    BY <1>1, <1>7 DEF ReadSources, Go, TypeOK, Steps
  <2>2. Kind[job[p]] = "static" => Imported(job[p]) = job[p]
    BY <2>1, FilesOfConfig DEF Product, Imported
  <2> QED
    BY <2>1, <2>2 DEF Product, MadeFor, Written
<1>8. CASE Stage(p)
  <2>1. pc[p] = "stage" /\ pc'[p] = "wizer" /\ UNCHANGED job /\ tmp'[p] = bundle[p]
    BY <1>1, <1>8 DEF Stage, TmpDir, Go, TypeOK
  <2> QED
    BY <2>1 DEF Product, Written
<1>9. CASE Wizer(p)
  <2>1. /\ pc[p] = "wizer" /\ pc'[p] = "cleanup" /\ UNCHANGED job /\ o \in Outputs
        /\ out' = [out EXCEPT ![o] =
              [stage |-> "core", of |-> tmp[p].of, assets |-> tmp[p].assets]]
    BY <1>1, <1>9 DEF Wizer, TmpDir, Go, TypeOK, Steps
  <2>2. out'[o] = [stage |-> "core", of |-> tmp[p].of, assets |-> tmp[p].assets]
    BY <1>1, <2>1 DEF TypeOK
  <2> QED
    BY <2>1, <2>2 DEF Product, MadeFor, Written
<1>10. CASE Cleanup(p)
  <2>1. pc[p] = "cleanup" /\ pc'[p] = "component" /\ UNCHANGED <<job, out>>
    BY <1>1, <1>10 DEF Cleanup, Go, TypeOK
  <2> QED
    BY <2>1 DEF Product, Written
<1>11. CASE MakeComponent(p)
  <2>1. /\ pc[p] = "component" /\ pc'[p] = "metadata" /\ UNCHANGED job
        /\ o \in Outputs /\ out[o] \in Wasm
        /\ out' = [out EXCEPT ![o] = [out[o] EXCEPT !.stage = "component"]]
    BY <1>1, <1>11 DEF MakeComponent, Go, TypeOK, Position, Written, Steps
  <2>2. out'[o].stage = "component" /\ out'[o].of = out[o].of /\ out'[o].assets = out[o].assets
    BY <1>1, <2>1 DEF TypeOK, Wasm
  <2> QED
    BY <2>1, <2>2 DEF Product, MadeFor, Written
<1>12. CASE AddWasmMetadata(p)
  <2>1. /\ pc[p] = "metadata" /\ pc'[p] = "report" /\ UNCHANGED job
        /\ o \in Outputs /\ out[o] \in Wasm /\ out[o].stage = "component"
        /\ out' = [out EXCEPT ![o] = [out[o] EXCEPT !.stage = WithMetadata(@)]]
    BY <1>1, <1>12 DEF AddWasmMetadata, Go, TypeOK, Position, Written, Steps, Product
  <2>2. out'[o].stage = "finished" /\ out'[o].of = out[o].of /\ out'[o].assets = out[o].assets
    BY <1>1, <2>1 DEF TypeOK, Wasm, WithMetadata
  <2> QED
    BY <2>1, <2>2 DEF Product, MadeFor, Written
<1> QED
  BY <1>3, <1>4, <1>5, <1>6, <1>7, <1>8, <1>9, <1>10, <1>11, <1>12 DEF Moves, Step

LEMMA NextExclusive ==
    ASSUME Overlap = FALSE, Common, Exclusive, [Next]_vars
    PROVE  Exclusive'
<1>1. CASE UNCHANGED vars
  BY <1>1 DEF vars, procVars, Exclusive, Apart, Product, Pending, Runs
<1>2. ASSUME NEW p \in Proc, Moves(p) PROVE Exclusive'
  <2>1. Apart' /\ Frame(p) /\ Product(p)'
    BY <1>2, MoveKeepsApart, MoveKeeps, StepKeepsProduct DEF Exclusive
  <2>2. ASSUME NEW q \in Proc, q # p PROVE Product(q)'
    <3>1. CASE Runs(p)
      BY <2>1, <2>2, <3>1, OthersKeepProduct DEF Exclusive
    <3>2. CASE ~Runs(p)
      <4>1. Start(p)
        BY <1>2, <3>2 DEF Moves, Step, Runs, Stop, Steps, LoadConfig, SkipConfig, Done,
           WriteManifest, Validate, ReadSources, Stage, Wizer, Cleanup, MakeComponent,
           AddWasmMetadata, Report, Go
      <4>2. UNCHANGED <<manifest, out>>
        BY <4>1, StartKeeps
      <4> QED
        BY <2>1, <2>2, <4>2 DEF Exclusive, Frame, Product
    <3> QED
      BY <3>1, <3>2
  <2> QED
    BY <2>1, <2>2 DEF Exclusive
<1> QED
  BY <1>1, <1>2 DEF Next, Moves

LEMMA ReportsAreFinished ==
    ASSUME Common, Exclusive, [Next]_vars, NEW p \in Proc, NEW c \in reported'[p] \ reported[p]
    PROVE  Finished(c)
<1>1. reported'[p] # reported[p]
  OBVIOUS
<1>2. PICK q \in Proc : Moves(q)
  BY <1>1 DEF Next, Moves, vars, procVars
<1>3. q = p
  BY <1>1, <1>2, MoveKeeps DEF Frame
<1>4. Report(p)
  BY <1>1, <1>2, <1>3
  DEF Moves, Step, Start, PrintUsage, StartDirect, StartConfigs, LoadConfig, SkipConfig, Done,
      WriteManifest, Validate, ReadSources, Stage, Wizer, Cleanup, MakeComponent,
      AddWasmMetadata, Stop
<1>5. c = job[p] /\ pc[p] = "report" /\ c \in Config
  BY <1>4 DEF Report, Go, Common, TypeOK, Position, Steps
<1>6. /\ out[Output[c]] \in Wasm /\ out[Output[c]].stage = "finished"
      /\ MadeFor(out[Output[c]], c)
  BY <1>5 DEF Common, Position, Exclusive, Product, Written
<1> QED
  BY <1>6 DEF Finished, MadeFor, Wasm

-----------------------------------------------------------------------------
\* Positions, files in hand and outputs agree, however builds overlap.
THEOREM BuildInvariant == Spec => []Common
  BY InitCommon, NextCommon, PTL DEF Spec

\* Every file and every position is one the program knows.
THEOREM BuildsAreTyped == Spec => []TypeOK
<1>1. Common => TypeOK
  BY DEF Common
<1> QED
  BY <1>1, BuildInvariant, PTL

\* A file that is no finished component has a build to blame that is running or
\* has failed, even when builds write the same file at the same time.
THEOREM UnfinishedOutputsAreExplained == Spec => []UnfinishedHasCulprit
<1>1. ASSUME Common, NEW o \in Outputs, out[o] # Nil, out[o].stage # "finished"
      PROVE  \E p \in Proc : job[p] # Nil /\ Output[job[p]] = o /\ code[p] # 0
  <2>1. PICK p \in Proc : Behind(p, o)
    BY <1>1 DEF Common, Explained
  <2>2. code[p] # 0
    BY <1>1, <2>1, BuildAssumption DEF Behind, Common, Position, Killed
  <2> QED
    BY <2>1, <2>2, BuildAssumption DEF Behind
<1>2. Common => UnfinishedHasCulprit
  BY <1>1 DEF UnfinishedHasCulprit
<1> QED
  BY <1>2, BuildInvariant, PTL

\* A temporary directory that is there is one that Wizer reads at this moment, or
\* its process failed, with process.exit(1) in the catch block, or was killed.
THEOREM TemporaryFilesGo == Spec => []TmpHasCulprit
<1>1. Common => TmpHasCulprit
  BY DEF Common, Position, TmpHasCulprit, TmpDir
<1> QED
  BY <1>1, BuildInvariant, PTL

\* A success is reported only of a finished component made of this very build,
\* as long as builds that share a file do not overlap.
THEOREM SuccessIsTrue ==
    ASSUME Overlap = FALSE
    PROVE  Spec => ReportedIsFinished
<1>1. Init => Exclusive
  BY DEF Init, Exclusive, Apart, Product, Runs, Written
<1>2. Common /\ Exclusive /\ [Next]_vars => Exclusive'
  BY NextExclusive
<1>3. Common /\ Exclusive /\ [Next]_vars =>
          [\A p \in Proc : \A c \in reported'[p] \ reported[p] : Finished(c)]_vars
  BY ReportsAreFinished
<1> QED
  BY <1>1, <1>2, <1>3, BuildInvariant, PTL DEF Spec, ReportedIsFinished
=============================================================================
