-------------------------- MODULE ContextGeneration --------------------------
(***************************************************************************)
(* GenerateProjectContext (src/artifact/projectContext): the modules of a  *)
(* code graph are split into chunks of about equal size, each chunk is     *)
(* written to a temporary file and analysed by an AI call of its own, side *)
(* by side, and a last call with all the files writes the overview.  The   *)
(* calls are those of AiRequest: 0 is the overview's, 1, 2, ... are the    *)
(* chunks'.                                                                *)
(***************************************************************************)
EXTENDS AiRequest

CONSTANTS
  NumModules,   \* a module is its place in the order by falling size
  Sizes,        \* numbers of nodes a module may have
  MaxChunks,
  Answers,      \* the arrays an answer that parses may hold
  Temporary,    \* the files generateOverview writes
  Artifacts     \* the files of the clone it passes on

Modules == 1..NumModules
Unnamed == 0     \* a detail without the name of a module
Overview == 0
ChunkFile(i) == <<"chunk", i>>

ASSUME GenerationAssumption ==
  /\ NumModules \in Nat \ {0} /\ Sizes \subseteq Nat
  /\ Answers \subseteq Seq(Modules \cup {Unnamed})
  /\ MaxChunks \in Nat \ {0} /\ Temporary \cap Artifacts = {}
  /\ Requests = 0..MaxChunks /\ DOMAIN FilesOf = Requests
  /\ \A r \in Requests :
       FilesOf[r] = IF r = Overview THEN Temporary \cup Artifacts ELSE {ChunkFile(r)}

VARIABLES
  gen,          \* where GenerateProjectContext stands
  chunks,       \* sequence of chunks, each a sequence of modules
  found,        \* per chunk: its goroutine's result, "none", "error" or "ok"
  told,         \* per chunk: the modules its result has details of, in order
  details,      \* the modules the overview is told about, in order
  astray        \* history: the chunks whose answer did not keep to its modules

genVars == <<gen, chunks, found, told, details, astray>>
vars == <<aiVars, genVars>>

Stages == {"split", "chunks", "overview", "asked", "save", "done", "failed"}
Ended == {"done", "failed"}

(***************************************************************************)
(* chunkModulesByNodeCount, on the numbers of nodes in falling order.      *)
(***************************************************************************)
\* The number of nodes of some modules.
Nodes(size, modules) ==
  LET sum[k \in 0..Len(modules)] == IF k = 0 THEN 0 ELSE sum[k - 1] + size[modules[k]]
  IN sum[Len(modules)]

\* A chunk's share of the nodes of all modules.
Share(size, most) ==
  LET total == Nodes(size, [m \in DOMAIN size |-> m])
  IN Max({1, (total + most - 1) \div most})

\* A chunk is closed before it grows too large, but never the last one.
ClosesMutant(state, n, limit, most) == Len(state.cur) > 0 /\ state.count + n > limit
Closes(state, n, limit, most) ==
  Len(state.cur) > 0 /\ state.count + n > limit /\ Len(state.chunks) < most - 1

NoChunk == [chunks |-> <<>>, cur |-> <<>>, count |-> 0]
Place(state, m, n, limit, most) ==
  IF Closes(state, n, limit, most)
  THEN [chunks |-> Append(state.chunks, state.cur), cur |-> <<m>>, count |-> n]
  ELSE [state EXCEPT !.cur = Append(@, m), !.count = @ + n]

Chunked(size, most) ==
  LET limit == Share(size, most)
      placed[m \in 0..Len(size)] ==
        IF m = 0 THEN NoChunk ELSE Place(placed[m - 1], m, size[m], limit, most)
      last == placed[Len(size)]
  IN Append(last.chunks, last.cur)

Falling(n) == {s \in [1..n -> Sizes] : \A i, j \in 1..n : i < j => s[i] >= s[j]}

Spawned == 1..Len(chunks)

\* A detail without a name takes the one at its place in the chunk.
Filled(list, chunk) ==
  [k \in DOMAIN list |-> IF list[k] = Unnamed /\ k <= Len(chunk) THEN chunk[k] ELSE list[k]]

\* What the prompt asks for: a detail of each module sent, in their order.
KeepsTo(list, chunk) ==
  /\ Len(list) = Len(chunk)
  /\ \A k \in DOMAIN list : list[k] \in {chunk[k], Unnamed}

(***************************************************************************)
(* Rules of the code, each after a plausible mistake in it (...Mutant).    *)
(***************************************************************************)
\* One chunk that failed fails the whole.
AnyFailedMutant == \A i \in Spawned : found[i] = "error"
AnyFailed == \E i \in Spawned : found[i] = "error"

\* defer os.Remove.
RemovedMutant(r) == IF answer[r] = "text" THEN FilesOf[r] \ Artifacts ELSE {}
Removed(r) == FilesOf[r] \ Artifacts

Init ==
  /\ AiInit /\ disk = Artifacts
  /\ gen = "split" /\ chunks = <<>> /\ details = <<>> /\ astray = {}
  /\ found = [i \in 1..MaxChunks |-> "none"] /\ told = [i \in 1..MaxChunks |-> <<>>]

Split ==
  /\ gen = "split" /\ gen' = "chunks"
  /\ \E size \in Falling(NumModules) : chunks' = Chunked(size, MaxChunks)
  /\ UNCHANGED <<aiVars, found, told, details, astray>>

\* analyzeModuleChunk writes the chunk's file and calls the AI.
AskChunk(i) ==
  /\ gen = "chunks" /\ i \in Spawned /\ found[i] = "none" /\ pc[i] = "off"
  /\ \/ /\ Call(i) /\ disk' = disk \cup {ChunkFile(i)} /\ UNCHANGED <<found, errors>>
     \/ Error /\ found' = [found EXCEPT ![i] = "error"] /\ UNCHANGED <<pc, disk>>
  /\ UNCHANGED <<ctx, results, deferred, polled, answer, run, created>>
  /\ UNCHANGED <<gen, chunks, told, details, astray>>

\* An answer that does not parse is taken as a summary of each module of the
\* chunk; of one that parses the code takes the list as it is.
ReadAnswer(i) ==
  \/ told' = [told EXCEPT ![i] = chunks[i]] /\ UNCHANGED astray
  \/ \E list \in Answers :
       /\ told' = [told EXCEPT ![i] = Filled(list, chunks[i])]
       /\ astray' = IF KeepsTo(list, chunks[i]) THEN astray ELSE astray \cup {i}

ReadChunk(i) ==
  /\ gen = "chunks" /\ i \in Spawned /\ found[i] = "none" /\ pc[i] = "returned"
  /\ disk' = disk \ Removed(i)
  /\ \/ /\ answer[i] = "error" /\ found' = [found EXCEPT ![i] = "error"]
        /\ UNCHANGED <<told, astray>>
     \/ /\ answer[i] # "error" /\ found' = [found EXCEPT ![i] = "ok"]
        /\ ReadAnswer(i)
  /\ UNCHANGED <<ctx, code, run, created, errors, gen, chunks, details>>

\* wg.Wait, then the results in the order of the chunks.
Join ==
  /\ gen = "chunks" /\ \A i \in Spawned : found[i] # "none"
  /\ IF AnyFailed
     THEN gen' = "failed" /\ UNCHANGED details
     ELSE /\ gen' = "overview"
          /\ details' = FlattenSeq([i \in Spawned |-> told[i]])
  /\ UNCHANGED <<aiVars, chunks, found, told, astray>>

\* A file that cannot be written ends it; those written before are removed.
AskOverview ==
  /\ gen = "overview"
  /\ \/ Call(Overview) /\ disk' = disk \cup Temporary /\ gen' = "asked" /\ UNCHANGED errors
     \/ Error /\ gen' = "failed" /\ UNCHANGED <<pc, disk>>
  /\ UNCHANGED <<ctx, results, deferred, polled, answer, run, created>>
  /\ UNCHANGED <<chunks, found, told, details, astray>>

\* An answer that does not parse becomes the text of the overview.
ReadOverview ==
  /\ gen = "asked" /\ pc[Overview] = "returned"
  /\ disk' = disk \ Removed(Overview)
  /\ gen' = IF answer[Overview] = "error" THEN "failed" ELSE "save"
  /\ UNCHANGED <<ctx, code, run, created, errors, chunks, found, told, details, astray>>

saveProjectContext ==
  /\ gen = "save"
  /\ \/ gen' = "done" /\ UNCHANGED errors
     \/ gen' = "failed" /\ Error
  /\ UNCHANGED <<ctx, code, disk, run, created, chunks, found, told, details, astray>>

GenStep ==
  \/ Split \/ Join \/ AskOverview \/ ReadOverview \/ saveProjectContext
  \/ \E i \in 1..MaxChunks : AskChunk(i) \/ ReadChunk(i)

Next ==
  \/ GenStep
  \/ \E r \in Requests : CallStep(r) /\ UNCHANGED genVars
  \/ \E r \in Requests : RunProgress(r) /\ UNCHANGED genVars
  \/ (Cancel \/ LoseFiles(Artifacts)) /\ UNCHANGED genVars

\* Goroutines are scheduled; the provider owes nothing, an error neither.
Fairness ==
  /\ WF_vars(GenStep /\ UNCHANGED errors)
  /\ \A r \in Requests : WF_vars(CallStep(r) /\ UNCHANGED <<errors, genVars>>)

Spec == Init /\ [][Next]_vars /\ Fairness

-----------------------------------------------------------------------------
(***************************************************************************)
(* Properties.                                                             *)
(***************************************************************************)
\* Every variable has its type.
TypeOK ==
  /\ ctx \in {"live", "cancelled"} /\ gen \in Stages
  /\ pc \in [Requests -> CallSteps]
  /\ answer \in [Requests -> {"none", "error", "text"}]
  /\ {polled, run} \subseteq [Requests -> RunStatus \cup {"none"}]
  /\ \A r \in Requests :
       /\ results[r] \in [FilesOf[r] -> {"none", "ok", "error"}]
       /\ \A i \in DOMAIN deferred[r] : deferred[r][i] \subseteq Objects(r)
  /\ created \subseteq UNION {Objects(r) : r \in Requests}
  /\ disk \subseteq UNION {FilesOf[r] : r \in Requests}
  /\ errors \in 0..MaxErrors
  /\ found \in [1..MaxChunks -> {"none", "error", "ok"}]
  /\ Len(chunks) <= MaxChunks /\ ToSet(chunks) \subseteq Seq(Modules)
  /\ told \in [1..MaxChunks -> Seq(Modules \cup {Unnamed})]
  /\ details \in Seq(Modules \cup {Unnamed}) /\ astray \subseteq 1..MaxChunks

\* Whatever the sizes, up to MaxChunks + 2 modules fall into at most as many
\* chunks as asked for, none empty, each module in one; and a chunk but the
\* last exceeds its share only if it is a single module.
ChunksPartition ==
  gen = "split" =>
    \A n \in 1..(MaxChunks + 2), most \in 1..(MaxChunks + 1) : \A size \in Falling(n) :
      LET made == Chunked(size, most)
      IN /\ Len(made) \in 1..most
         /\ FlattenSeq(made) = [m \in 1..n |-> m]
         /\ \A i \in DOMAIN made :
              /\ made[i] # <<>>
              /\ i < Len(made) =>
                   Len(made[i]) = 1 \/ Nodes(size, made[i]) <= Share(size, most)

\* The overview is asked for, and a context saved, with the results of all
\* chunks in the order of the chunks, whichever call ended first: of a chunk
\* whose answer kept to the modules sent, named or not, or did not parse, with
\* details of exactly its modules in their order.  A list that leaves modules
\* out, doubles or adds some is taken as it is (astray).
DetailsAreWhole ==
  gen \in {"overview", "asked", "save", "done"} =>
    details = FlattenSeq([i \in Spawned |-> IF i \in astray THEN told[i] ELSE chunks[i]])

\* Chunking loses, doubles and disorders no module whatever the sizes, and
\* the parallel analysis only where a chunk's own answer does: if none went
\* astray the overview is told of all modules in order.
ModulesKept ==
  /\ TypeOK /\ ChunksPartition /\ DetailsAreWhole
  /\ gen \in {"overview", "asked", "save", "done"} /\ astray = {} =>
       details = [m \in Modules |-> m]

\* A temporary file is there as long as an upload has to read it, and gone
\* when the generation is over.
TemporaryFiles ==
  /\ \A r \in Requests : \A f \in FilesOf[r] \ Artifacts :
       pc[r] # "off" /\ results[r][f] = "none" => f \in disk
  /\ gen \in Ended => disk \subseteq Artifacts

\* Once the context is cancelled the generation ends, even if the provider
\* leaves its runs in progress for ever.
CancelEndsGeneration == ctx = "cancelled" ~> gen \in Ended

\* It ends in any case if the provider leaves no run queued or in progress for
\* ever: a run that failed is noticed.
EndsIfProviderDoes ==
  (\A r \in Requests : []<>(pc[r] = "poll" => run[r] \in {"completed", "failed"}))
    => <>(gen \in Ended)
=============================================================================
