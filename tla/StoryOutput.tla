------------------------------ MODULE StoryOutput ------------------------------
(* The output directory of the Storybook tool.  "frames" runs                 *)
(* StoryFramePipeline.generate on it; "video" generates the frames into a     *)
(* directory of its own and runs StoryPublicationPipeline.publish             *)
(* (sim/storybook_cli.cpp, sim/tutorial/frame_pipeline.cpp,                   *)
(* sim/tutorial/publication_pipeline.cpp).                                    *)
(* A directory is the set of files in it, each with the run that wrote it, or *)
(* Absent. Every file operation may fail, the removal of a tree half-way, and *)
(* the process may be killed between two operations.                          *)
EXTENDS Integers

CONSTANTS
  Commands,  \* subset of {"frames", "video"}
  MaxRuns,   \* bound: runs of the tool
  Absent

VARIABLES
  command,   \* what the tool is asked for, on this output directory
  staging, output, previous,  \* <output>.staging, <output>, <output>.previous
  runs,      \* runs started
  step,      \* the next operation of the run, "idle" between runs
  had,       \* hadPrevious of publishStagingDirectory
  result,    \* what the last run reported: "none", "ok" or "failed"
  was,       \* history: the output directory when the run started
  failure    \* history: the operation of this run that failed, "" for none

\* What no directory is must not be one.
Files == (1..MaxRuns) \X {"media", "sidecars"}
Trees == (SUBSET Files) \cup {Absent}
OutputAssumption ==
  /\ Commands \subseteq {"frames", "video"} /\ MaxRuns \in Nat
  /\ \A tree \in SUBSET Files : tree # Absent

run == <<runs, had, was>>
vars == <<command, staging, output, previous, step, result, failure, run>>

Whole(r) == {r} \X {"media", "sidecars"}
\* Everything some run writes is there.
Complete(tree) == tree # Absent /\ \E r \in 1..runs : Whole(r) \subseteq tree
\* What an attempt to remove a tree may leave.
Remains(tree) == {Absent} \cup IF tree = Absent THEN {} ELSE SUBSET tree
Added(tree, part) == (IF tree = Absent THEN {} ELSE tree) \cup {<<runs, part>>}

-----------------------------------------------------------------------------
Init ==
  /\ command \in Commands
  /\ staging = Absent /\ output = Absent /\ previous = Absent
  /\ runs = 0 /\ step = "idle" /\ had = FALSE /\ result = "none"
  /\ was = Absent /\ failure = ""

Goto(s) == step' = s /\ UNCHANGED <<command, runs, had, was, result, failure>>
End(r) == step' = "idle" /\ result' = r
\* The catch block removes the staging directory, errors ignored, and reports.
Throw(op) ==
  /\ End("failed") /\ failure' = op
  /\ staging' \in Remains(staging)
  /\ UNCHANGED <<command, run>>

Start ==
  /\ step = "idle" /\ runs < MaxRuns
  /\ runs' = runs + 1 /\ step' = "clear" /\ result' = "none"
  /\ was' = output /\ failure' = "" /\ had' = FALSE
  /\ UNCHANGED <<command, staging, output, previous>>

\* remove_all(staging, ignored): what cannot be removed stays.
ClearStaging ==
  /\ step = "clear"
  /\ staging' \in Remains(staging)
  /\ Goto("media") /\ UNCHANGED <<output, previous>>

\* The frames or the encoded media, then the cue files and the manifest.
Write(part, next) ==
  /\ step = part /\ UNCHANGED <<output, previous>>
  /\ \/ staging' = Added(staging, part) /\ Goto(next)
     \/ Throw("write")

-----------------------------------------------------------------------------
(* generate: remove_all(output, ignored), then rename(staging, output).       *)
RemoveOutput ==
  /\ step = "replace"
  /\ output' \in Remains(output)
  /\ Goto("rename") /\ UNCHANGED <<staging, previous>>

\* A directory replaces an empty directory at most.
RenameStaging ==
  /\ step = "rename" /\ UNCHANGED previous
  /\ \/ /\ output \in {Absent, {}}
        /\ output' = staging /\ staging' = Absent
        /\ End("ok") /\ UNCHANGED <<command, run, failure>>
     \/ Throw("rename") /\ UNCHANGED output

-----------------------------------------------------------------------------
(* publishStagingDirectory                                                    *)
ClearPrevious ==
  /\ step = "previous" /\ UNCHANGED output
  /\ \/ previous' = Absent /\ Goto("aside") /\ UNCHANGED staging
     \/ previous' \in Remains(previous) \ {Absent} /\ Throw("previous")

SetAside ==
  /\ step = "aside"
  /\ \/ /\ output # Absent
        /\ previous' = output /\ output' = Absent
        /\ had' = TRUE /\ step' = "publish"
        /\ UNCHANGED <<command, staging, runs, was, result, failure>>
     \/ output = Absent /\ Goto("publish") /\ UNCHANGED <<staging, output, previous>>
     \/ output # Absent /\ Throw("aside") /\ UNCHANGED <<output, previous>>

\* Mutant: the backup is not renamed back.
PublishUnrestored ==
  /\ step = "publish"
  /\ \/ /\ output' = staging /\ staging' = Absent
        /\ Goto("cleanup") /\ UNCHANGED previous
     \/ Throw("publish") /\ UNCHANGED <<output, previous>>

Publish ==
  /\ step = "publish"
  /\ \/ /\ output' = staging /\ staging' = Absent
        /\ Goto("cleanup") /\ UNCHANGED previous
     \/ had /\ output' = previous /\ previous' = Absent /\ Throw("publish")
     \/ Throw(IF had THEN "restore" ELSE "publish") /\ UNCHANGED <<output, previous>>

CleanUp ==
  /\ step = "cleanup" /\ UNCHANGED output
  /\ \/ previous' = (IF had THEN Absent ELSE previous)
        /\ End("ok") /\ UNCHANGED <<command, staging, run, failure>>
     \/ had /\ previous' \in Remains(previous) \ {Absent} /\ Throw("cleanup")

\* The process is killed: the next run starts from what is on disk.
Kill ==
  /\ step # "idle" /\ End("none")
  /\ UNCHANGED <<command, staging, output, previous, run, failure>>

WriteMedia == Write("media", "sidecars")
WriteSidecars == Write("sidecars", IF command = "frames" THEN "replace" ELSE "previous")

Next ==
  \/ Start \/ ClearStaging \/ WriteMedia \/ WriteSidecars
  \/ RemoveOutput \/ RenameStaging
  \/ ClearPrevious \/ SetAside \/ Publish \/ CleanUp
  \/ Kill

Spec == Init /\ [][Next]_vars

-----------------------------------------------------------------------------
TypeOK ==
  /\ command \in Commands /\ runs \in 0..MaxRuns /\ had \in BOOLEAN
  /\ staging \in Trees /\ output \in Trees /\ previous \in Trees /\ was \in Trees
  /\ step \in {"idle", "clear", "media", "sidecars", "replace", "rename", "previous", "aside",
               "publish", "cleanup"}
  /\ result \in {"none", "ok", "failed"}
  /\ failure \in {"", "write", "rename", "previous", "aside", "publish", "restore", "cleanup"}

\* A failed publication leaves the one before it where it was, or, when even
\* the way back failed, under <output>.previous; a failure to delete the old
\* publication comes after the new one is in place (docs/tutorials/README.md:86).
FailedPublishKeepsOutput ==
  command = "video" /\ result = "failed" =>
    CASE failure = "cleanup" -> Whole(runs) \subseteq output
      [] failure = "restore" -> output = Absent /\ previous = was
      [] OTHER -> output = was

\* Whenever the process dies, a publication is there with all its files or not
\* at all, and a reported success is this run's.
PublishedWhole ==
  /\ command = "video" => output = Absent \/ Complete(output)
  /\ result = "ok" => Whole(runs) \subseteq output

\* "A parser, runner, renderer, subtitle, PNG, or filesystem failure removes that
\* staging output and does not replace a previously successful output directory"
\* (docs/tutorials/README.md:68): frame generation removes the old output first.
FailureKeepsFrames ==
  command = "frames" /\ result = "failed" /\ was # Absent => output = was

\* The strengthening behind FailedPublishKeepsOutput and PublishedWhole: what is
\* staged is complete before anything is moved, and until then the output is
\* the one the run met.
StagedInv ==
  /\ step = "sidecars" => staging # Absent /\ <<runs, "media">> \in staging
  /\ step \in {"replace", "rename", "previous", "aside", "publish"} =>
       staging # Absent /\ Whole(runs) \subseteq staging
  /\ step = "cleanup" => Whole(runs) \subseteq output
MovedInv ==
  /\ step # "idle" => result = "none" /\ runs > 0
  /\ step \in {"clear", "media", "sidecars", "replace", "previous", "aside"} => output = was /\ ~had
  /\ step = "publish" => IF had THEN output = Absent /\ previous = was /\ was # Absent
                         ELSE output = was
  /\ step \in {"replace", "rename"} => command = "frames"
  /\ step \in {"previous", "aside", "publish", "cleanup"} => command = "video"
  /\ command = "video" => was = Absent \/ Complete(was)
IInv == TypeOK /\ StagedInv /\ MovedInv /\ FailedPublishKeepsOutput /\ PublishedWhole

=============================================================================
