--------------------------- MODULE GraphStartup ---------------------------
(***************************************************************************)
(* How the worker processes get their road graph: lifespan() of app/main.py *)
(* and load_or_download_graph() of app/services/graph_service.py.          *)
(*                                                                         *)
(* The Dockerfile starts several workers on one directory, and they share  *)
(* the GraphML file without any lock: each looks whether it exists, loads  *)
(* it if so, downloads the graph and writes the file in place if not.  The *)
(* file is written from the beginning over some time; a worker may die or  *)
(* its disk fail meanwhile.  Whatever goes wrong, the worker comes up      *)
(* without a graph and keeps answering 503 until it is started again.      *)
(*                                                                         *)
(* Downloads of one area give the same bytes, so writers that overlap lay  *)
(* the same content down; only the writer that opened (and truncated) the  *)
(* file last still has to write all of it.                                 *)
(***************************************************************************)
EXTENDS Naturals

CONSTANTS
    Workers,
    Nobody,           \* no worker
    MaxInterruptions, \* bound on how often each worker dies or fails to write
    MaxOutages        \* bound on downloads and index builds that fail

ASSUME NobodyAssumption == Nobody \notin Workers

ASSUME BoundsAssumption == MaxInterruptions \in Nat /\ MaxOutages \in Nat

VARIABLES
    file,          \* settings.graph_path: absent, partial or complete
    last_writer,   \* who opened it for writing last
    step,          \* per worker: where its startup is
    graph_loaded,  \* per worker: app.state.graph_loaded
    snap_index,    \* per worker: app.state.snap_index is set
    interruptions, \* per worker: how often it was cut off during a startup
    outages        \* downloads and index builds that failed

vars == <<file, last_writer, step, graph_loaded, snap_index, interruptions, outages>>

Init ==
    /\ file \in {"absent", "complete"}
    /\ last_writer = Nobody
    /\ step = [w \in Workers |-> "down"]
    /\ graph_loaded = [w \in Workers |-> FALSE]
    /\ snap_index = [w \in Workers |-> FALSE]
    /\ interruptions = [w \in Workers |-> 0]
    /\ outages = 0

GoTo(w, s) == step' = [step EXCEPT ![w] = s]

FileKept == UNCHANGED <<file, last_writer>>

\* Mutant: graph_loaded is not set.
LoadedGraphUnflagged(w) == GoTo(w, "index") /\ UNCHANGED <<graph_loaded, snap_index>>

\* The result of load_or_download_graph(), kept for the life of the process.
LoadedGraph(w) ==
    /\ graph_loaded' = [graph_loaded EXCEPT ![w] = TRUE]
    /\ GoTo(w, "index")
    /\ UNCHANGED snap_index

\* Mutant: the exception is not caught and the worker never serves.
NoGraphRaises(w) == GoTo(w, "failed") /\ UNCHANGED <<graph_loaded, snap_index>>

NoGraph(w) ==
    /\ GoTo(w, "serving")
    /\ UNCHANGED <<graph_loaded, snap_index>>

Interrupt(w) ==
    /\ interruptions[w] < MaxInterruptions
    /\ interruptions' = [interruptions EXCEPT ![w] = @ + 1]

---------------------------------------------------------------------------
Start(w) ==
    /\ step[w] = "down"
    /\ GoTo(w, "check")
    /\ FileKept
    /\ UNCHANGED <<graph_loaded, snap_index, interruptions, outages>>

\* Mutant: the graph is downloaded again at every start.
CheckNothing(w) ==
    /\ step[w] = "check"
    /\ GoTo(w, "download")
    /\ FileKept
    /\ UNCHANGED <<graph_loaded, snap_index, interruptions, outages>>

\* settings.graph_path.exists(): a file somebody is still writing exists.
Check(w) ==
    /\ step[w] = "check"
    /\ GoTo(w, IF file = "absent" THEN "download" ELSE "load")
    /\ FileKept
    /\ UNCHANGED <<graph_loaded, snap_index, interruptions, outages>>

\* ox.load_graphml: a truncated XML document does not parse.
Load(w) ==
    /\ step[w] = "load"
    /\ \/ file = "complete" /\ LoadedGraph(w)
       \/ file # "complete" /\ NoGraph(w)
    /\ FileKept
    /\ UNCHANGED <<interruptions, outages>>

Download(w) ==
    /\ step[w] = "download"
    /\ \/ /\ GoTo(w, "save")
          /\ UNCHANGED <<graph_loaded, snap_index, outages>>
       \/ /\ outages < MaxOutages
          /\ outages' = outages + 1
          /\ NoGraph(w)
    /\ FileKept
    /\ UNCHANGED interruptions

\* ox.save_graphml opens the file for writing, which empties it.
OpenFile(w) ==
    /\ step[w] = "save"
    /\ GoTo(w, "writing")
    /\ file' = "partial"
    /\ last_writer' = w
    /\ UNCHANGED <<graph_loaded, snap_index, interruptions, outages>>

\* Mutant: the worker goes on before everything is written.
FinishFileUnflushed(w) ==
    /\ step[w] = "writing"
    /\ LoadedGraph(w)
    /\ FileKept
    /\ UNCHANGED <<interruptions, outages>>

\* The last byte.  Earlier writers lay nothing down that is not there already.
FinishFile(w) ==
    /\ step[w] = "writing"
    /\ LoadedGraph(w)
    /\ file' = IF w = last_writer THEN "complete" ELSE file
    /\ UNCHANGED <<last_writer, interruptions, outages>>

\* Opening or writing raises: the graph just downloaded is dropped as well.
SaveFails(w) ==
    /\ step[w] \in {"save", "writing"}
    /\ Interrupt(w)
    /\ NoGraph(w)
    /\ FileKept
    /\ UNCHANGED outages

BuildSnapIndex(w) ==
    /\ step[w] = "index"
    /\ GoTo(w, "serving")
    /\ \/ /\ snap_index' = [snap_index EXCEPT ![w] = TRUE]
          /\ UNCHANGED outages
       \/ /\ outages < MaxOutages
          /\ outages' = outages + 1
          /\ UNCHANGED snap_index
    /\ FileKept
    /\ UNCHANGED <<graph_loaded, interruptions>>

Startup(w) ==
    \/ Check(w) \/ Load(w) \/ Download(w) \/ OpenFile(w) \/ FinishFile(w)
    \/ SaveFails(w) \/ BuildSnapIndex(w)

---------------------------------------------------------------------------
\* Killed in the middle of its startup, or stopped while it was serving.
Die(w) ==
    /\ step[w] # "down"
    /\ \/ step[w] = "serving" /\ UNCHANGED interruptions
       \/ step[w] # "serving" /\ Interrupt(w)
    /\ GoTo(w, "down")
    /\ graph_loaded' = [graph_loaded EXCEPT ![w] = FALSE]
    /\ snap_index' = [snap_index EXCEPT ![w] = FALSE]
    /\ FileKept
    /\ UNCHANGED outages

Next == \E w \in Workers : Start(w) \/ Startup(w) \/ Die(w)

Spec == Init /\ [][Next]_vars

\* docker-compose: restart: unless-stopped; startup itself is one coroutine.
Fairness == \A w \in Workers : WF_vars(Start(w) \/ Startup(w))

FairSpec == Spec /\ Fairness

---------------------------------------------------------------------------
(* What the endpoints make of it.                                          *)

\* GET /health answers 200 as soon as the worker serves at all.
Healthy(w) == step[w] = "serving"

\* /matrix and /vrp answer 503 without these two.
Ready(w) == step[w] = "serving" /\ graph_loaded[w] /\ snap_index[w]

Saving(w) == step[w] \in {"download", "save", "writing"}

Quiet == file = "complete" /\ \A w \in Workers : ~Saving(w)

Truncated == file = "partial" /\ \A w \in Workers : ~Saving(w)

---------------------------------------------------------------------------
(* Properties.                                                             *)

TypeOK ==
    /\ file \in {"absent", "partial", "complete"}
    /\ last_writer \in Workers \cup {Nobody}
    /\ step \in [Workers -> {"down", "check", "load", "download", "save", "writing",
                             "index", "serving"}]
    /\ graph_loaded \in [Workers -> BOOLEAN]
    /\ snap_index \in [Workers -> BOOLEAN]
    /\ interruptions \in [Workers -> 0 .. MaxInterruptions]
    /\ outages \in 0 .. MaxOutages

\* However the workers race to create the file, it is left half-written only by
\* the worker that truncated it last, and only if that worker was interrupted;
\* whatever happens to all others does no harm.
PartialOnlyWhenInterrupted ==
    file = "partial" =>
        /\ last_writer \in Workers
        /\ step[last_writer] = "writing" \/ interruptions[last_writer] > 0

\* A file that exists and that nobody is on the way to writing is final, whatever
\* dies and restarts: graph_path.exists() (graph_service.py:113) keeps every start
\* away from the download.  So a complete file stays complete, and a half-written
\* one is there to stay: no restart repairs it, and no worker that comes up after
\* it was cut off gets a graph.
SettledFileKept ==
    [][/\ Quiet => Quiet'
       /\ Truncated => /\ Truncated'
                       /\ \A w \in Workers : graph_loaded'[w] => graph_loaded[w]]_vars

\* Once it is complete and final, every worker that starts gets its graph, unless it is killed.
QuietStartsLoad ==
    \A w \in Workers :
        Quiet /\ step[w] = "check" ~> graph_loaded[w] \/ step[w] = "down"

\* The writer whose bytes count was interrupted.
CutOff ==
    /\ file = "partial"
    /\ last_writer \in Workers
    /\ step[last_writer] # "writing"
    /\ interruptions[last_writer] > 0

\* w was interrupted after its download and before it opened the file.
DownloadDropped(w) ==
    /\ file = "absent"
    /\ step[w] # "save"
    /\ interruptions[w] > 0

\* One download that succeeds is enough for the file to be complete for good,
\* whatever other downloads and index builds fail and whoever else dies: only
\* if this worker is interrupted before it opens the file, or the worker that
\* opened it last before it wrote all of it, may the file be missing or cut off.
EventuallyQuiet ==
    \A w \in Workers :
        step[w] = "save" ~> Quiet \/ CutOff \/ DownloadDropped(w)

\* Dockerfile: "Liveness/readiness probe" on /health.  Two workers that start
\* together without a file are enough: one may load what the other is writing.
HealthyMeansReady == \A w \in Workers : Healthy(w) => Ready(w)

===========================================================================
