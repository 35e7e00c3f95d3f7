-------------------------------- MODULE Window --------------------------------
(***************************************************************************)
(* The window of qnxprobe_gui.py: the Tk main thread, which runs one        *)
(* callback at a time; the command line tool as a child process with a pipe *)
(* for stdout and one for stderr; a pump thread per pipe, feeding q_out;    *)
(* and the worker thread of the Contents pane, answering through q_con.     *)
(*                                                                         *)
(* A password prompt is modal: it takes the clicks, and runs the event loop *)
(* itself, so after() callbacks fire while it is up.  A line of output is   *)
(* named by the run, the stream and its number; only the text it carries is *)
(* abstracted.                                                              *)
(***************************************************************************)
EXTENDS Naturals, Sequences, FiniteSets

CONSTANTS
    Streams,    \* the child's pipes, {"out", "err"} in the code
    Parsed,     \* those whose lines poll() reads as JSON, {"err"} in the code
    Images,     \* the images the examiner may load
    Nothing,    \* None
    MaxRuns,    \* bound: runs in a behaviour
    MaxLines,   \* [Runs -> [Streams -> bound: lines the run writes to the stream]]
    PipeCap     \* lines a pipe holds before the child blocks

Runs == 1..MaxRuns

ASSUME WindowAssumption ==
    /\ IsFiniteSet(Streams) /\ Parsed \subseteq Streams
    /\ Nothing \notin Images
    /\ MaxRuns \in Nat /\ MaxLines \in [Runs -> [Streams -> Nat]]
    /\ PipeCap \in Nat \ {0}

EOF == 0                \* what a pump puts after its last line (None)

VARIABLES
    run,        \* how many runs have been started
    child,      \* [Runs -> "none", "running", "ok", "failed", "killed"]
    signalled,  \* [Runs -> whether terminate() was called]
    wrote,      \* [Runs -> [Streams -> lines the child wrote]]
    pumped,     \* [Runs -> [Streams -> lines its pump took from the pipe]]
    pump,       \* [Runs -> [Streams -> "none", "reading", "ended"]]
    qOut,       \* q_out: <<run, stream, number or EOF>>
    openStreams,\* state["open_streams"]
    main,       \* what the main thread is in: "idle", "drain", "check", or
                \* "lost": idle, since poll() raised
    dialog,     \* the prompt that is up: "none", "start", "load"
    box,        \* whether the box saying an image could not be read is up
    pollDue,    \* whether a poll() callback is scheduled
    bRun,       \* whether b_report and b_extract are enabled
    bCancel,    \* whether b_cancel is enabled
    text,       \* the lines taken, for the Report pane or the progress bar
    status,     \* the status line
    bLoad,      \* whether b_load is enabled
    loading,    \* the path load_contents() captured, or Nothing
    worker,     \* the worker thread: "none", "reading"
    qCon,       \* q_con: <<kind, path>>
    conDue,     \* whether a poll_contents() callback is scheduled
    fh,         \* the image the Contents pane holds open, or Nothing
    tree,       \* the image whose volumes the Contents pane shows, or Nothing
    closed      \* whether the window is gone

reportVars == <<run, child, signalled, wrote, pumped, pump, qOut, openStreams, pollDue,
                bRun, bCancel, text>>
runVars == <<reportVars, status>>
conVars == <<bLoad, loading, worker, qCon, conDue, fh, tree>>
windowVars == <<runVars, conVars, main, dialog, box, closed>>

Alive(r) == child[r] = "running"

WindowInit ==
    /\ run = 0
    /\ child = [r \in Runs |-> "none"]
    /\ signalled = [r \in Runs |-> FALSE]
    /\ wrote = [r \in Runs |-> [s \in Streams |-> 0]]
    /\ pumped = [r \in Runs |-> [s \in Streams |-> 0]]
    /\ pump = [r \in Runs |-> [s \in Streams |-> "none"]]
    /\ qOut = << >>
    /\ openStreams = 0
    /\ main = "idle" /\ dialog = "none" /\ box = FALSE /\ closed = FALSE
    /\ pollDue = FALSE
    /\ bRun = TRUE /\ bCancel = FALSE
    /\ text = << >> /\ status = "ready"
    /\ bLoad = TRUE /\ loading = Nothing /\ worker = "none"
    /\ qCon = << >> /\ conDue = FALSE
    /\ fh = Nothing /\ tree = Nothing

(* A callback can be run; the prompt that is up can be answered, once the   *)
(* box above it is gone; and the examiner can click.                        *)
Callback == main \in {"idle", "lost"} /\ ~closed
Answerable(d) == Callback /\ dialog = d /\ ~box
Clickable == Answerable("none")

-----------------------------------------------------------------------------
(* The child, and the thread at the end of each of its pipes; the threads   *)
(* are daemons and stop with the window.                                    *)

Write(r, s) ==
    /\ Alive(r) /\ ~closed
    /\ wrote[r][s] < MaxLines[r][s]
    /\ wrote[r][s] - pumped[r][s] < PipeCap
    /\ wrote' = [wrote EXCEPT ![r][s] = @ + 1]
    /\ UNCHANGED <<run, child, signalled, pumped, pump, qOut, openStreams, pollDue,
                   bRun, bCancel, text, status, conVars, main, dialog, box, closed>>

Exit(r) ==
    /\ Alive(r)
    /\ \E how \in {"ok", "failed"} : child' = [child EXCEPT ![r] = how]
    /\ UNCHANGED <<run, signalled, wrote, pumped, pump, qOut, openStreams, pollDue,
                   bRun, bCancel, text, status, conVars, main, dialog, box, closed>>

(* SIGTERM reaches it.                                                      *)
Killed(r) ==
    /\ Alive(r) /\ signalled[r]
    /\ child' = [child EXCEPT ![r] = "killed"]
    /\ UNCHANGED <<run, signalled, wrote, pumped, pump, qOut, openStreams, pollDue,
                   bRun, bCancel, text, status, conVars, main, dialog, box, closed>>

PumpLine(r, s) ==
    /\ pump[r][s] = "reading" /\ ~closed
    /\ pumped[r][s] < wrote[r][s]
    /\ pumped' = [pumped EXCEPT ![r][s] = @ + 1]
    /\ qOut' = Append(qOut, <<r, s, pumped[r][s] + 1>>)
    /\ UNCHANGED <<run, child, signalled, wrote, pump, openStreams, pollDue,
                   bRun, bCancel, text, status, conVars, main, dialog, box, closed>>

(* The pipe is at its end once the child is gone and it is empty.           *)
PumpEnds(r, s) ==
    /\ pump[r][s] = "reading" /\ ~closed
    /\ pumped[r][s] = wrote[r][s] /\ ~Alive(r)
    /\ pump' = [pump EXCEPT ![r][s] = "ended"]
    /\ qOut' = Append(qOut, <<r, s, EOF>>)
    /\ UNCHANGED <<run, child, signalled, wrote, pumped, openStreams, pollDue,
                   bRun, bCancel, text, status, conVars, main, dialog, box, closed>>

-----------------------------------------------------------------------------
(* The Report pane                                                          *)

(* start(): build_args() asks for what the images need.                     *)
Start ==
    /\ Clickable /\ bRun /\ run < MaxRuns
    /\ dialog' = "start"
    /\ UNCHANGED <<runVars, conVars, main, box, closed>>

(* build_args() gave None: nothing has changed yet.                         *)
StartRefused ==
    /\ Answerable("start")
    /\ dialog' = "none"
    /\ UNCHANGED <<runVars, conVars, main, box, closed>>

(* Mutant: one pump, for the report's stream only.                          *)
LaunchOnePump ==
    /\ Answerable("start")
    /\ dialog' = "none"
    /\ run' = run + 1
    /\ text' = << >>
    /\ status' = "running"
    /\ bRun' = FALSE /\ bCancel' = TRUE
    /\ child' = [child EXCEPT ![run + 1] = "running"]
    /\ openStreams' = 1
    /\ pump' = [pump EXCEPT ![run + 1] =
                  [s \in Streams |-> IF s = CHOOSE x \in Streams : TRUE
                                     THEN "reading" ELSE "none"]]
    /\ pollDue' = TRUE
    /\ UNCHANGED <<signalled, wrote, pumped, qOut, conVars, main, box, closed>>

(* Mutant: the count of open streams is not set for the new run.            *)
LaunchUncounted ==
    /\ Answerable("start")
    /\ dialog' = "none"
    /\ run' = run + 1
    /\ text' = << >>
    /\ status' = "running"
    /\ bRun' = FALSE /\ bCancel' = TRUE
    /\ child' = [child EXCEPT ![run + 1] = "running"]
    /\ pump' = [pump EXCEPT ![run + 1] = [s \in Streams |-> "reading"]]
    /\ pollDue' = TRUE
    /\ UNCHANGED <<signalled, wrote, pumped, qOut, openStreams, conVars, main, box, closed>>

Launch ==
    /\ Answerable("start")
    /\ dialog' = "none"
    /\ run' = run + 1
    /\ text' = << >>
    /\ status' = "running"
    /\ bRun' = FALSE /\ bCancel' = TRUE
    /\ child' = [child EXCEPT ![run + 1] = "running"]
    /\ openStreams' = Cardinality(Streams)
    /\ pump' = [pump EXCEPT ![run + 1] = [s \in Streams |-> "reading"]]
    /\ pollDue' = TRUE
    /\ UNCHANGED <<signalled, wrote, pumped, qOut, conVars, main, box, closed>>

(* Popen raises OSError: finish() is called at once, with no code.          *)
LaunchFails ==
    /\ Answerable("start")
    /\ dialog' = "none"
    /\ text' = << >>
    /\ status' = "not started"
    /\ bRun' = TRUE /\ bCancel' = FALSE
    /\ UNCHANGED <<run, child, signalled, wrote, pumped, pump, qOut, openStreams,
                   pollDue, conVars, main, box, closed>>

(* poll() is called back and takes what is in q_out, item by item, while    *)
(* the pumps go on putting.                                                 *)
Poll ==
    /\ Callback /\ pollDue
    /\ pollDue' = FALSE
    /\ main' = "drain"
    /\ UNCHANGED <<run, child, signalled, wrote, pumped, pump, qOut, openStreams,
                   bRun, bCancel, text, status, conVars, dialog, box, closed>>

(* Mutant: the end of one stream is taken for the end of both.              *)
PollItemEndsAll ==
    /\ main = "drain" /\ qOut # << >>
    /\ qOut' = Tail(qOut)
    /\ IF Head(qOut)[3] = EOF
       THEN openStreams' = 0 /\ UNCHANGED text
       ELSE text' = Append(text, Head(qOut)) /\ UNCHANGED openStreams
    /\ UNCHANGED <<run, child, signalled, wrote, pumped, pump, pollDue, bRun, bCancel,
                   status, conVars, main, dialog, box, closed>>

(* Mutant: items are taken from the wrong end of the queue.                 *)
PollItemLast ==
    /\ main = "drain" /\ qOut # << >>
    /\ qOut' = SubSeq(qOut, 1, Len(qOut) - 1)
    /\ IF qOut[Len(qOut)][3] = EOF
       THEN openStreams' = openStreams - 1 /\ UNCHANGED text
       ELSE text' = Append(text, qOut[Len(qOut)]) /\ UNCHANGED openStreams
    /\ UNCHANGED <<run, child, signalled, wrote, pumped, pump, pollDue, bRun, bCancel,
                   status, conVars, main, dialog, box, closed>>

PollItem ==
    /\ main = "drain" /\ qOut # << >>
    /\ qOut' = Tail(qOut)
    /\ IF Head(qOut)[3] = EOF
       THEN openStreams' = openStreams - 1 /\ UNCHANGED text
       ELSE text' = Append(text, Head(qOut)) /\ UNCHANGED openStreams
    /\ UNCHANGED <<run, child, signalled, wrote, pumped, pump, pollDue, bRun, bCancel,
                   status, conVars, main, dialog, box, closed>>

(* A line that is JSON and not an object: j.get raises out of poll(), which *)
(* is not called again, and the run is never reported.                      *)
PollRaises ==
    /\ main = "drain" /\ qOut # << >>
    /\ Head(qOut)[2] \in Parsed /\ Head(qOut)[3] # EOF
    /\ qOut' = Tail(qOut)
    /\ main' = "lost"
    /\ UNCHANGED <<run, child, signalled, wrote, pumped, pump, openStreams, pollDue, bRun,
                   bCancel, text, status, conVars, dialog, box, closed>>

PollEmpty ==
    /\ main = "drain" /\ qOut = << >>
    /\ main' = "check"
    /\ UNCHANGED <<runVars, conVars, dialog, box, closed>>

Outcome ==
    CASE child[run] = "ok" -> "done"
      [] child[run] = "failed" -> "exited"
      [] child[run] = "killed" -> "cancelled"

(* Mutant: poll() is not called again once the child is gone.               *)
PollAgainWhileAlive ==
    /\ main = "check"
    /\ Alive(run) \/ openStreams > 0
    /\ pollDue' = Alive(run)
    /\ main' = "idle"
    /\ UNCHANGED <<run, child, signalled, wrote, pumped, pump, qOut, openStreams,
                   bRun, bCancel, text, status, conVars, dialog, box, closed>>

PollAgain ==
    /\ main = "check"
    /\ Alive(run) \/ openStreams > 0
    /\ pollDue' = TRUE
    /\ main' = "idle"
    /\ UNCHANGED <<run, child, signalled, wrote, pumped, pump, qOut, openStreams,
                   bRun, bCancel, text, status, conVars, dialog, box, closed>>

(* Mutant: the run is over when the child is, whatever is left in the pipes. *)
FinishAtExit ==
    /\ main = "check"
    /\ ~Alive(run)
    /\ bRun' = TRUE /\ bCancel' = FALSE
    /\ status' = Outcome
    /\ main' = "idle"
    /\ UNCHANGED <<run, child, signalled, wrote, pumped, pump, qOut, openStreams,
                   pollDue, text, conVars, dialog, box, closed>>

(* finish(rc)                                                               *)
Finish ==
    /\ main = "check"
    /\ ~Alive(run) /\ openStreams = 0
    /\ bRun' = TRUE /\ bCancel' = FALSE
    /\ status' = Outcome
    /\ main' = "idle"
    /\ UNCHANGED <<run, child, signalled, wrote, pumped, pump, qOut, openStreams,
                   pollDue, text, conVars, dialog, box, closed>>

(* cancel(), and again while the child has not yet died.                    *)
Cancel ==
    /\ Clickable /\ bCancel
    /\ Alive(run)
    /\ signalled' = [signalled EXCEPT ![run] = TRUE]
    /\ UNCHANGED <<run, child, wrote, pumped, pump, qOut, openStreams, pollDue,
                   bRun, bCancel, text, status, conVars, main, dialog, box, closed>>

-----------------------------------------------------------------------------
(* The Contents pane                                                        *)

(* load_contents() closes the image that is open before it asks for what    *)
(* the new one needs.                                                       *)
Load ==
    /\ Clickable /\ bLoad
    /\ \E path \in Images : loading' = path
    /\ fh' = Nothing /\ tree' = Nothing
    /\ bLoad' = FALSE /\ status' = "reading"
    /\ dialog' = "load"
    /\ UNCHANGED <<reportVars, worker, qCon, conDue, main, box, closed>>

DoneLoading == bLoad' = TRUE /\ loading' = Nothing /\ status' = "ready"

LoadRefused ==
    /\ Answerable("load")
    /\ dialog' = "none"
    /\ DoneLoading
    /\ UNCHANGED <<reportVars, worker, qCon, conDue, fh, tree, main, box, closed>>

(* Mutant: the button is given back when the worker starts.                 *)
LoadBeginsEnabled ==
    /\ Answerable("load")
    /\ dialog' = "none"
    /\ worker' = "reading"
    /\ conDue' = TRUE
    /\ bLoad' = TRUE
    /\ UNCHANGED <<runVars, loading, qCon, fh, tree, main, box, closed>>

(* Mutant: nobody is asked to look at q_con.                                *)
LoadBeginsUnpolled ==
    /\ Answerable("load")
    /\ dialog' = "none"
    /\ worker' = "reading"
    /\ UNCHANGED <<runVars, bLoad, loading, qCon, conDue, fh, tree, main, box, closed>>

LoadBegins ==
    /\ Answerable("load")
    /\ dialog' = "none"
    /\ worker' = "reading"
    /\ conDue' = TRUE
    /\ UNCHANGED <<runVars, bLoad, loading, qCon, fh, tree, main, box, closed>>

WorkerAnswers ==
    /\ worker = "reading" /\ ~closed
    /\ \E how \in {"ok", "err"} : qCon' = Append(qCon, <<how, loading>>)
    /\ worker' = "none"
    /\ UNCHANGED <<runVars, bLoad, loading, conDue, fh, tree, main, dialog, box, closed>>

(* poll_contents(): show_volumes() and done_loading() for an image that     *)
(* opened; for one that did not, a box, and done_loading() when it goes.    *)
PollContents ==
    /\ Callback /\ conDue /\ qCon # << >>
    /\ conDue' = FALSE
    /\ qCon' = Tail(qCon)
    /\ \/ /\ Head(qCon)[1] = "ok"
          /\ fh' = Head(qCon)[2] /\ tree' = Head(qCon)[2]
          /\ DoneLoading /\ UNCHANGED box
       \/ /\ Head(qCon)[1] = "err"
          /\ box' = TRUE
          /\ UNCHANGED <<fh, tree, bLoad, loading, status>>
    /\ UNCHANGED <<reportVars, worker, main, dialog, closed>>

Dismiss ==
    /\ Callback /\ box
    /\ box' = FALSE
    /\ DoneLoading
    /\ UNCHANGED <<reportVars, worker, qCon, conDue, fh, tree, main, dialog, closed>>

(* on_close(): cancel(), close_image(), destroy().                          *)
Close ==
    /\ Clickable
    /\ signalled' = IF run > 0 /\ ~bRun /\ Alive(run)
                    THEN [signalled EXCEPT ![run] = TRUE] ELSE signalled
    /\ fh' = Nothing /\ tree' = Nothing
    /\ closed' = TRUE
    /\ UNCHANGED <<run, child, wrote, pumped, pump, qOut, openStreams, pollDue,
                   bRun, bCancel, text, status, bLoad, loading, worker, qCon, conDue,
                   main, dialog, box>>

Child(r) == Exit(r) \/ Killed(r) \/ \E s \in Streams : Write(r, s)
Pump(r, s) == PumpLine(r, s) \/ PumpEnds(r, s)
Answer == StartRefused \/ Launch \/ LaunchFails \/ LoadRefused \/ LoadBegins \/ Dismiss
Polling == Poll \/ PollItem \/ PollRaises \/ PollEmpty \/ PollAgain \/ Finish
Click == Start \/ Cancel \/ Load \/ Close

WindowNext ==
    \/ \E r \in Runs : Child(r) \/ \E s \in Streams : Pump(r, s)
    \/ Click \/ Answer \/ Polling \/ WorkerAnswers \/ PollContents

WindowSpec == WindowInit /\ [][WindowNext]_windowVars

(* Threads run, callbacks that are due are called, a signal arrives.        *)
(* Nothing is assumed of the child or of the examiner.  poll_contents() is  *)
(* due along with poll(), each 50 ms after its last call, and Tk calls the  *)
(* one that was due first: poll() cannot keep it out for ever, which takes  *)
(* strong fairness, since it is not enabled while poll() runs.              *)
FairSpec ==
    /\ WindowSpec
    /\ WF_windowVars(Polling) /\ SF_windowVars(PollContents) /\ WF_windowVars(WorkerAnswers)
    /\ WF_windowVars(\E r \in Runs : Killed(r))
    /\ \A s \in Streams : WF_windowVars(\E r \in Runs : Pump(r, s))

-----------------------------------------------------------------------------
Items == Runs \X Streams \X Nat

(* The type of the state.                                                   *)
WindowTypeOK ==
    /\ run \in 0..MaxRuns
    /\ child \in [Runs -> {"none", "running", "ok", "failed", "killed"}]
    /\ signalled \in [Runs -> BOOLEAN]
    /\ wrote \in [Runs -> [Streams -> Nat]]
    /\ pumped \in [Runs -> [Streams -> Nat]]
    /\ pump \in [Runs -> [Streams -> {"none", "reading", "ended"}]]
    /\ qOut \in Seq(Items)
    /\ openStreams \in 0..Cardinality(Streams)
    /\ main \in {"idle", "drain", "check", "lost"}
    /\ dialog \in {"none", "start", "load"}
    /\ pollDue \in BOOLEAN /\ bRun \in BOOLEAN /\ bCancel \in BOOLEAN
    /\ text \in Seq(Items)
    /\ status \in {"ready", "running", "reading", "not started", "done", "exited",
                  "cancelled"}
    /\ bLoad \in BOOLEAN
    /\ loading \in Images \cup {Nothing}
    /\ worker \in {"none", "reading"}
    /\ qCon \in Seq({"ok", "err"} \X Images)
    /\ conDue \in BOOLEAN
    /\ fh \in Images \cup {Nothing} /\ tree \in Images \cup {Nothing}
    /\ box \in BOOLEAN /\ closed \in BOOLEAN

(* The Report pane never shows a line of an earlier run: a run can only be  *)
(* started once every line of the one before has left q_out (poll() goes    *)
(* on until both streams have ended, qnxprobe_gui.py 517).                  *)
NothingStale == \A i \in DOMAIN text : text[i][1] = run

(* The lines of a stream are taken in the order the child wrote them.       *)
InOrder ==
    \A i, j \in DOMAIN text :
        i < j /\ text[i][2] = text[j][2] => text[i][3] < text[j][3]

AllTaken ==
    \A s \in Streams : \A n \in 1..wrote[run][s] :
        \E i \in DOMAIN text : text[i] = <<run, s, n>>

(* "the report in the window is byte for byte the report the command line   *)
(* prints" (README 119-120): once the window says how a run ended, the      *)
(* child is gone and every line it wrote to either pipe has been taken,     *)
(* though the pumps go on putting lines while poll() empties q_out.         *)
CompleteWhenFinished ==
    status \in {"done", "exited", "cancelled"} => ~Alive(run) /\ AllTaken

(* While an image is being loaded the button stays disabled, so there is    *)
(* one worker, one answer to come and one callback to take it, and nothing  *)
(* of another image is shown.                                               *)
OneLoad ==
    LET underWay == (IF dialog = "load" THEN 1 ELSE 0)
                    + (IF worker = "reading" THEN 1 ELSE 0) + Len(qCon)
                    + (IF box THEN 1 ELSE 0)
    IN IF bLoad THEN underWay = 0 ELSE underWay = 1 /\ fh = Nothing /\ tree = Nothing

(* A run that has ended on its own, or was cancelled, is reported and gives *)
(* the buttons back, unless the window is closed first: though the child be *)
(* stuck on a full pipe, or a prompt be up.  It is not once poll() raised   *)
(* (main = "lost"), over a line that only looked like a progress message.   *)
RunEnds ==
    ~bRun /\ (signalled[run] \/ ~Alive(run)) ~> bRun \/ closed \/ main = "lost"

Stuck(s) == run > 0 /\ ~closed /\ wrote[run][s] - pumped[run][s] = PipeCap

(* A child that fills a pipe is not left waiting: both pipes are drained,   *)
(* whichever it writes to.                                                  *)
NeverStuckOnAPipe == \A s \in Streams : Stuck(s) ~> ~Stuck(s)

(* A load that was begun gives its button back, or waits for the examiner   *)
(* to dismiss the box that says it failed.                                  *)
LoadEnds == worker = "reading" ~> bLoad \/ box \/ closed
===============================================================================
