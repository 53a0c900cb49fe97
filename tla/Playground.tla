----------------------------- MODULE Playground ------------------------------
(***************************************************************************)
(* The website's playground: Playground/index.tsx, which loads a core, and  *)
(* Workspace/, which lists, changes and transcodes the files in it. Every     *)
(* async function runs on between the user's clicks, on the state of the      *)
(* render it was made in. The FFmpeg object is what the page uses of it:      *)
(* its calls are answered in turn, and terminate() rejects them.              *)
(***************************************************************************)
EXTENDS Integers, Sequences, FiniteSets

CONSTANTS
  MaxLoads,  \* bound: calls of load()
  MaxTasks,  \* bound: handlers of the workspace that are started
  Menu,      \* what this user does
  MayFail    \* whether downloads, loads and commands may fail

Things == {"upload", "delete", "rename", "dir", "refresh", "run", "folder"}

ASSUME PlaygroundAssumption ==
  MaxLoads \in Nat \ {0} /\ MaxTasks \in Nat \ {0} /\ Menu \subseteq Things /\ MayFail \in BOOLEAN

\* Paths, by their depth: "/", "/tmp", "/tmp/tmp" and so on. A new core has the
\* first two, where "tmp" stands for all the directories it has in "/".
Dirs == Nat
Exists(d) == d <= 1
Nowhere   == -1

\* The directories a list shows, of those there are: none before the first.
Folders(d) == IF d = 0 THEN {"..", "tmp"} ELSE IF d = 1 THEN {".."} ELSE {}

Names == {"sample", "own", "output", "renamed"}
None  == "none"

VARIABLES
  state, isCoreMT,  \* of Playground
  loads,            \* its calls of load() and where each is
  worker,           \* the load() whose worker the FFmpeg object has
  loaded,           \* ffmpeg.loaded
  trapped,          \* history: the load() whose core trapped last, if none came after
  calls,            \* its calls without an answer
  files,            \* <<directory, name>> in the file system of the core
  changer,          \* history: the mount whose handler changed them last
  mount,            \* how many times Workspace has been mounted
  path, shown,      \* of Workspace: path, and nodes with the directory it lists
  samplesLoading, dialog, logs,
  tasks,            \* the handlers that have been started
  listeners         \* the runs whose "log" listener is registered

page    == <<state, isCoreMT, loads, mount>>
object  == <<worker, loaded, trapped, calls, files, changer>>
view    == <<path, shown, samplesLoading, dialog, logs>>
vars    == <<page, object, view, tasks, listeners>>

Loads == DOMAIN loads
Tasks == DOMAIN tasks

LoadCall(mt) == [mt |-> mt, step |-> "js"]

\* A handler keeps the path of the render it was made in.
Task(kind, m, dir, todo, step) ==
  [kind |-> kind, mount |-> m, path |-> dir, todo |-> todo, step |-> step]

\* onLoadSamples(), which each mount calls.
Samples(m, dir) == Task("samples", m, dir, <<"sample">>, "fetch")

\* The page starts with state LOADED: Workspace mounts, its effect loads the
\* samples, and then the effect of Playground calls load().
Init ==
  /\ state = "LOADING" /\ isCoreMT = FALSE /\ loads = <<LoadCall(FALSE)>>
  /\ worker = 0 /\ loaded = FALSE /\ trapped = 0 /\ calls = << >> /\ files = {} /\ changer = 0
  /\ mount = 1 /\ path = 0 /\ shown = [dir |-> Nowhere, names |-> {}]
  /\ samplesLoading = TRUE /\ dialog = None /\ logs = << >>
  /\ tasks = <<Samples(1, 0)>> /\ listeners = {}

CallType == [task : 1 .. MaxTasks + MaxLoads + 1, op : {"write", "delete", "rename", "list", "run"},
             dir : Dirs, name : Names \cup {None}]
LoadType == [mt : BOOLEAN, step : {"js", "wasm", "create", "done", "failed", "terminated"}]
TaskType == [kind : Things \cup {"samples"}, mount : 1 .. mount, path : Dirs, todo : Seq(Names),
             step : {"fetch", "call", "list", "done", "rejected"}]

TypeOK ==
  /\ state \in {"LOADING", "LOADED"} /\ isCoreMT \in BOOLEAN
  /\ loads \in Seq(LoadType) /\ tasks \in Seq(TaskType)
  /\ {worker, trapped} \subseteq Loads \cup {0} /\ loaded \in BOOLEAN /\ calls \in Seq(CallType)
  /\ files \subseteq Dirs \X Names /\ changer \in 0 .. mount /\ mount \in 1 .. MaxLoads + 1
  /\ path \in Dirs /\ shown \in [dir : Dirs \cup {Nowhere}, names : SUBSET Names]
  /\ samplesLoading \in BOOLEAN /\ dialog \in Names \cup {None, "new"}
  /\ logs \in Seq([run : Tasks, what : {"line", "exit"}])
  /\ listeners \subseteq Tasks

Mounted(t)  == state = "LOADED" /\ tasks[t].mount = mount
Files(d)    == {f[2] : f \in {x \in files : x[1] = d}}

\* refreshDir() leaves out the name ".".
Listing(d) == Files(d)

-----------------------------------------------------------------------------
(* The FFmpeg object.                                                       *)

Call(t, op, dir, name) == [task |-> t, op |-> op, dir |-> dir, name |-> name]

Waiting == {calls[i].task : i \in DOMAIN calls}

\* Mutant: the sample button is enabled again only if all went well.
IfWell(t, step) == step # "rejected"

\* finally
Always(t, step) == TRUE

\* Handler t comes to a step; the samples' sets samplesLoading as it leaves.
Goes(t, step) ==
  /\ tasks' = [tasks EXCEPT ![t].step = step]
  /\ samplesLoading' = (samplesLoading /\ ~(/\ tasks[t].kind = "samples" /\ Mounted(t)
                                            /\ step \in {"list", "done", "rejected"} /\ Always(t, step)))

\* refreshDir(): what follows an answer, on the directory of the handler.
ThenRefresh(t, rest) ==
  IF loaded THEN calls' = Append(rest, Call(t, "list", tasks[t].path, None)) /\ Goes(t, "list")
  ELSE calls' = rest /\ Goes(t, "done")

AfterRun(t, code, rest) == ThenRefresh(t, rest)

\* An answer or an event of the worker: the step before is over in the core too.
Serve(t, op) == calls # << >> /\ Head(calls).task = t /\ Head(calls).op = op

AnswerWrite(t) ==
  LET c == Head(calls) IN
  /\ Serve(t, "write") /\ Exists(c.dir)
  /\ files' = files \cup {<<c.dir, c.name>>} /\ changer' = tasks[t].mount
  /\ tasks[t].todo = << >> /\ ThenRefresh(t, Tail(calls))
  /\ UNCHANGED <<page, worker, loaded, trapped, path, shown, dialog, logs, listeners>>

\* The next file of the loop.
AnswerWriteMore(t) ==
  LET c == Head(calls) IN
  /\ Serve(t, "write") /\ Exists(c.dir)
  /\ files' = files \cup {<<c.dir, c.name>>} /\ changer' = tasks[t].mount
  /\ tasks[t].todo # << >> /\ calls' = Tail(calls) /\ Goes(t, "fetch")
  /\ UNCHANGED <<page, worker, loaded, trapped, path, shown, dialog, logs, listeners>>

\* FS.unlink() and FS.rename() throw if there is no such file.
AnswerChange(t) ==
  LET c     == Head(calls)
      here  == <<c.dir, c.name>>
      added == IF c.op = "rename" THEN {<<c.dir, "renamed">>} ELSE {}
  IN
  /\ Serve(t, "delete") \/ Serve(t, "rename")
  /\ IF here \in files
     THEN /\ files' = (files \ {here}) \cup added /\ changer' = tasks[t].mount
          /\ ThenRefresh(t, Tail(calls))
          /\ dialog' = IF c.op = "rename" /\ Mounted(t) THEN None ELSE dialog
     ELSE calls' = Tail(calls) /\ Goes(t, "rejected") /\ UNCHANGED <<files, changer, dialog>>
  /\ UNCHANGED <<page, worker, loaded, trapped, path, shown, logs, listeners>>

AnswerList(t) ==
  LET c == Head(calls) IN
  /\ Serve(t, "list") /\ Exists(c.dir) /\ calls' = Tail(calls) /\ Goes(t, "done")
  /\ shown' = IF Mounted(t) THEN [dir |-> c.dir, names |-> Listing(c.dir)] ELSE shown
  /\ UNCHANGED <<page, worker, loaded, trapped, files, changer, path, dialog, logs, listeners>>

\* There is no such directory. Nobody awaits refreshDir().
AnswerMissing(t) ==
  /\ calls # << >> /\ ~Exists(Head(calls).dir)
  /\ \/ Serve(t, "list") /\ Goes(t, "done")
     \/ Serve(t, "write") /\ Goes(t, "rejected")
  /\ calls' = Tail(calls)
  /\ UNCHANGED <<page, worker, loaded, trapped, files, changer, path, shown, dialog, logs, listeners>>

\* A "log" event of the running command reaches every listener there is, each
\* of which sets the lines of its own mount.
Logged(run) ==
  LET heard == Cardinality({t \in listeners : Mounted(t)})
  IN logs \o [i \in 1 .. heard |-> [run |-> run, what |-> "line"]]

Line(t) ==
  /\ Serve(t, "run") /\ tasks[t].todo # << >>
  /\ tasks' = [tasks EXCEPT ![t].todo = Tail(@)] /\ logs' = Logged(t)
  /\ UNCHANGED <<page, object, path, shown, samplesLoading, dialog, listeners>>

\* Mutants: off() is forgotten; it removes all listeners of the event.
KeepsListening(t) == listeners
Unlistens(t) == listeners \ {t}

\* The command has come to an exit code: onExec() goes on.
AnswerRun(t) ==
  /\ Serve(t, "run") /\ tasks[t].todo = << >>
  /\ \E code \in IF MayFail THEN {0, 1} ELSE {0}, wrote \in BOOLEAN :
       /\ files' = IF wrote THEN files \cup {<<0, "output">>} ELSE files
       /\ changer' = IF wrote THEN tasks[t].mount ELSE changer
       /\ AfterRun(t, code, Tail(calls))
  /\ listeners' = Unlistens(t)
  /\ logs' = IF Mounted(t) THEN Append(logs, [run |-> t, what |-> "exit"]) ELSE logs
  /\ UNCHANGED <<page, worker, loaded, trapped, path, shown, dialog>>

\* #terminate(): every call that waits is rejected. Nobody awaits refreshDir().
RejectAll ==
  /\ loaded' = FALSE /\ calls' = << >>
  /\ tasks' = [t \in Tasks |->
       IF t \notin Waiting THEN tasks[t]
       ELSE [tasks[t] EXCEPT !.step = IF @ = "list" THEN "done" ELSE "rejected"]]
  /\ samplesLoading' = (samplesLoading /\ \A t \in Waiting :
       ~(tasks[t].kind = "samples" /\ tasks[t].step = "call" /\ Mounted(t)))

\* A trap of the core takes the worker down, and nobody loads another. The
\* listeners of onExec() stay, as it has no finally.
RunTraps(t) ==
  /\ MayFail /\ Serve(t, "run")
  /\ RejectAll /\ worker' = 0 /\ trapped' = worker
  /\ UNCHANGED <<page, files, changer, path, shown, dialog, logs, listeners>>

Answer(t) ==
  \/ AnswerWrite(t) \/ AnswerWriteMore(t) \/ AnswerChange(t) \/ AnswerList(t)
  \/ AnswerMissing(t) \/ Line(t) \/ AnswerRun(t) \/ RunTraps(t)

\* fetchFile() has the next file, or fails.
Fetched(t) ==
  /\ tasks[t].step = "fetch"
  /\ \/ /\ loaded
        /\ LET dir == IF tasks[t].kind = "samples" THEN 0 ELSE tasks[t].path
           IN calls' = Append(calls, Call(t, "write", dir, Head(tasks[t].todo)))
        /\ tasks' = [tasks EXCEPT ![t].step = "call", ![t].todo = Tail(@)]
        /\ UNCHANGED samplesLoading
     \/ (~loaded \/ MayFail) /\ Goes(t, "rejected") /\ UNCHANGED calls
  /\ UNCHANGED <<page, worker, loaded, trapped, files, changer, path, shown, dialog, logs, listeners>>

-----------------------------------------------------------------------------
(* load().                                                                  *)

\* A core that traps as it is created takes its worker down as well, which nothing
\* can tell from one that has not been loaded.
LoadFails(l) ==
  /\ MayFail /\ loads[l].step \in {"js", "wasm", "create"}
  /\ loads' = [loads EXCEPT ![l].step = "failed"]
  /\ UNCHANGED <<state, isCoreMT, mount, object, view, tasks, listeners>>

GotJS(l) ==
  /\ loads[l].step = "js" /\ loads' = [loads EXCEPT ![l].step = "wasm"]
  /\ UNCHANGED <<state, isCoreMT, mount, object, view, tasks, listeners>>

\* terminate() rejects the ffmpeg.load() of an earlier load() as well.
Superseded(l) ==
  [k \in Loads |->
     IF k = l THEN [loads[k] EXCEPT !.step = "create"]
     ELSE IF loads[k].step = "create" THEN [loads[k] EXCEPT !.step = "terminated"]
     ELSE loads[k]]

GotWasm(l) ==
  /\ loads[l].step = "wasm" /\ loads' = Superseded(l)
  /\ RejectAll /\ worker' = l /\ trapped' = 0
  /\ UNCHANGED <<state, isCoreMT, mount, files, changer, path, shown, dialog, logs, listeners>>

\* Mutant: only the latest load() changes the state.
IfLatest(l) == IF l = Len(loads) THEN "LOADED" ELSE state

Shows(l) == "LOADED"

\* A core with a file system of its own. If the page showed the download, the
\* workspace is mounted anew; if it has shown a workspace since, that one stays.
Loaded(l) ==
  /\ loads[l].step = "create"
  /\ loads' = [loads EXCEPT ![l].step = "done"]
  /\ loaded' = TRUE /\ files' = {} /\ changer' = 0 /\ state' = Shows(l)
  /\ IF state' = state THEN UNCHANGED <<mount, view, tasks>>
     ELSE /\ mount' = mount + 1 /\ path' = 0 /\ shown' = [dir |-> Nowhere, names |-> {}]
          /\ samplesLoading' = TRUE /\ dialog' = None /\ logs' = << >>
          /\ tasks' = Append(tasks, Samples(mount + 1, 0))
  /\ UNCHANGED <<isCoreMT, worker, trapped, calls, listeners>>

Loading(l) == GotJS(l) \/ GotWasm(l) \/ Loaded(l) \/ LoadFails(l)

\* The core switch, which is there in every state.
SwitchCore ==
  /\ Len(loads) < MaxLoads
  /\ isCoreMT' = ~isCoreMT /\ loads' = Append(loads, LoadCall(~isCoreMT))
  /\ state' = "LOADING"
  /\ UNCHANGED <<mount, object, view, tasks, listeners>>

-----------------------------------------------------------------------------
(* The user.                                                                *)

\* A dialog is modal.
MayClick(what) == what \in Menu /\ state = "LOADED" /\ dialog = None /\ Len(tasks) < MaxTasks

\* A handler starts with a call, which is rejected if there is no core for it.
Starts(kind, todo, op, dir, name) ==
  LET t == Len(tasks) + 1 IN
  /\ tasks' = Append(tasks, Task(kind, mount, dir, todo, IF loaded THEN "call" ELSE "rejected"))
  /\ calls' = IF loaded THEN Append(calls, Call(t, op, dir, name)) ELSE calls

\* refreshDir() of a handler that does nothing else.
StartsRefresh(kind, dir) ==
  /\ tasks' = Append(tasks, Task(kind, mount, dir, << >>, IF loaded THEN "list" ELSE "done"))
  /\ calls' = IF loaded THEN Append(calls, Call(Len(tasks) + 1, "list", dir, None)) ELSE calls

ObjectElse == UNCHANGED <<page, worker, loaded, trapped, files, changer, shown, logs>>

\* onFileUpload(): two files, one after the other.
Upload ==
  /\ MayClick("upload")
  /\ tasks' = Append(tasks, Task("upload", mount, path, <<"own", "sample">>, "fetch"))
  /\ ObjectElse /\ UNCHANGED <<calls, path, samplesLoading, dialog, listeners>>

\* onLoadSamples() again: its button is disabled as long as samplesLoading.
SamplesAgain ==
  /\ MayClick("upload") /\ ~samplesLoading
  /\ samplesLoading' = TRUE /\ tasks' = Append(tasks, Samples(mount, path))
  /\ ObjectElse /\ UNCHANGED <<calls, path, dialog, listeners>>

Delete(n) ==
  /\ MayClick("delete") /\ n \in shown.names
  /\ Starts("delete", << >>, "delete", path, n)
  /\ ObjectElse /\ UNCHANGED <<path, samplesLoading, dialog, listeners>>

OpenRename(n) ==
  /\ MayClick("rename") /\ n \in shown.names /\ dialog' = n
  /\ ObjectElse /\ UNCHANGED <<calls, path, samplesLoading, tasks, listeners>>

\* onRename(); the dialog is closed when the file has been renamed, and at once
\* if the new name is empty.
Rename ==
  /\ state = "LOADED" /\ dialog \in Names /\ Len(tasks) < MaxTasks
  /\ \/ Starts("rename", << >>, "rename", path, dialog) /\ UNCHANGED dialog
     \/ StartsRefresh("rename", path) /\ dialog' = None
  /\ ObjectElse /\ UNCHANGED <<path, samplesLoading, listeners>>

OpenFolder ==
  /\ MayClick("folder") /\ dialog' = "new"
  /\ ObjectElse /\ UNCHANGED <<calls, path, samplesLoading, tasks, listeners>>

\* "Create": onDirCreate(dirName) returns the handler, which nobody calls.
CreateFolder ==
  /\ state = "LOADED" /\ dialog = "new" /\ dialog' = None
  /\ ObjectElse /\ UNCHANGED <<calls, path, samplesLoading, tasks, listeners>>

\* "Cancel", of either dialog.
CloseDialog ==
  /\ state = "LOADED" /\ dialog # None /\ dialog' = None
  /\ ObjectElse /\ UNCHANGED <<calls, path, samplesLoading, tasks, listeners>>

\* Where a click on a name leads from path p.
NextPath(p, name) == IF name # ".." THEN p + 1 ELSE IF p = 0 THEN 0 ELSE p - 1

\* onDirClick(): the path changes now, the nodes when they have been listed, so
\* that the name may be of another directory than the path.
ClickDir(name) ==
  /\ MayClick("dir") /\ name \in Folders(shown.dir)
  /\ path' = NextPath(path, name) /\ StartsRefresh("dir", path')
  /\ ObjectElse /\ UNCHANGED <<samplesLoading, dialog, listeners>>

Refresh ==
  /\ MayClick("refresh") /\ StartsRefresh("refresh", path)
  /\ ObjectElse /\ UNCHANGED <<path, samplesLoading, dialog, listeners>>

\* onExec(): its listeners are registered before the command is sent.
Run ==
  /\ MayClick("run")
  /\ Starts("run", <<"output">>, "run", path, None)
  /\ listeners' = listeners \cup {Len(tasks) + 1}
  /\ ObjectElse /\ UNCHANGED <<path, samplesLoading, dialog>>

User ==
  \/ SwitchCore
  \/ Upload \/ SamplesAgain \/ Rename \/ OpenFolder \/ CreateFolder \/ CloseDialog
  \/ Refresh \/ Run
  \/ \E n \in Names : Delete(n) \/ OpenRename(n)
  \/ \E name \in {"..", "tmp"} : ClickDir(name)

Works ==
  \/ \E l \in Loads : Loading(l)
  \/ \E t \in Tasks : Fetched(t) \/ Answer(t)

Next == Works \/ User

Spec == Init /\ [][Next]_vars

\* Downloads end, well or not, and the object answers; nobody has to click. What
\* works comes to an end, so this is fair to each load() and each handler.
FairSpec == Spec /\ WF_vars(Works)

-----------------------------------------------------------------------------
(* Properties.                                                              *)

Unsettled(l) == loads[l].step \in {"js", "wasm", "create"}
Rest == /\ \A l \in Loads : ~Unsettled(l)
        /\ \A t \in Tasks : tasks[t].step \in {"done", "rejected"}

\* However many load() calls overlap, and in whatever order their downloads
\* end, the page comes to rest with a workspace on a core that is loaded, if
\* none of them failed: the one that terminates the others is not stopped. Only
\* a trap of that very core leaves the workspace without one.
UsableAtRest ==
  Rest /\ (\A l \in Loads : loads[l].step # "failed") =>
    /\ state = "LOADED"
    /\ \E l \in Loads : /\ loads[l].step = "done"
                        /\ \/ worker = l /\ loaded
                           \/ worker = 0 /\ ~loaded /\ trapped = l

\* When all is quiet the list agrees with the core's file system, after any
\* interleaving of handlers that all went well, if it lists the directory of
\* the path and no handler of an earlier mount has changed a file since.
FreshAtRest ==
  LET mine == {t \in Tasks : tasks[t].mount = mount} IN
  Rest /\ state = "LOADED" /\ loaded /\ changer = mount /\ shown.dir = path
       /\ (\A t \in mine : tasks[t].step = "done" /\ Exists(tasks[t].path))
    => shown.names = Listing(path)

\* When nothing is under way any more, the page shows what there is.
ShowsAtRest == UsableAtRest /\ FreshAtRest

At(i, t, what) == logs[i] = [run |-> t, what |-> what]

\* A run that came to an exit code says so once, below its log lines, which are
\* all there, also if another run ended in between.
LogsTell ==
  \A t \in Tasks :
    tasks[t].kind = "run" /\ Mounted(t) /\ tasks[t].step \in {"list", "done"} =>
      \E i, j \in DOMAIN logs :
        /\ i < j /\ At(i, t, "line") /\ At(j, t, "exit")
        /\ \A k \in DOMAIN logs : At(k, t, "exit") => k = j

\* A log line appears at most once for each run that has not reported its exit
\* code, the run that logs it included, and never for one that has.
NoEcho ==
  \A i \in DOMAIN logs : logs[i].what = "line" =>
    LET copies == {k \in DOMAIN logs : logs[k] = logs[i]}
        open   == {u \in Tasks : /\ tasks[u].kind = "run" /\ tasks[u].mount = mount
                                  /\ \A k \in 1 .. i : ~At(k, u, "exit")}
    IN Cardinality(copies) <= Cardinality(open)

\* The log is that of the commands that ran.
LogsAgree == TypeOK /\ LogsTell /\ NoEcho

\* The page leaves the download view, unless a load() fails.
WorkspaceShows == []<>(state = "LOADED") \/ <>(\E l \in Loads : loads[l].step = "failed")

\* "Load Sample Files" is not disabled for good, whatever fails.
SamplesComeBack == []<>(samplesLoading => state = "LOADING")

\* Neither the download view nor a button that is off is for good.
PageComesBack == WorkspaceShows /\ SamplesComeBack

-----------------------------------------------------------------------------
(* What the page says of itself.                                            *)

\* Workspace/index.tsx:172: `Load the sample files as soon as the workspace
\* mounts ... so the default command works on first Run.'
SamplesThere ==
  Rest /\ state = "LOADED" /\ loaded
       /\ (\A t \in Tasks : tasks[t].kind = "samples" /\ (tasks[t].mount = mount => tasks[t].step = "done"))
    => <<0, "sample">> \in files

\* CoreSwitcher.tsx:32: the switch says which core is used.
SwitchShowsCore ==
  Rest /\ loaded => loads[worker].mt = isCoreMT

\* FileSystemManager.tsx:152: the list is that of the path above it.
PathIsShown == Rest /\ state = "LOADED" /\ loaded => shown.dir = path

\* FileSystemManager.tsx:129: `Create a new folder'.
CreateCreates == [][CreateFolder => tasks' # tasks]_vars
=============================================================================
