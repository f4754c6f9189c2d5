------------------------------- MODULE Terminal -------------------------------
(***************************************************************************)
(* The terminal of internal/ui: captions, logs and the pinned status line  *)
(* share one mutex (terminal.go, logging.go), while the statistics they    *)
(* show move on (Metrics).  Three goroutines meet here: the status ticker, *)
(* everyone who prints, and main, which ends with the summary              *)
(* (internal/cli/run.go).  /api/stats (web/server.go) takes its snapshot   *)
(* like the ticker and shows it elsewhere.                                 *)
(*                                                                         *)
(* A locked section is one step.  The screen is what the cursor's line     *)
(* holds; stdout and stderr are taken to be the same terminal.             *)
(***************************************************************************)
EXTENDS Metrics

VARIABLES
  mode,         \* [tty, quiet, json]: the options Setup resolves
  main,         \* run and shutdown
  ticker,       \* the status goroutine
  statusText,   \* is there a status text to show?
  statusShown,  \* does the terminal believe the line is on screen?
  stopped,      \* stopped, and t.done with it
  screen,       \* the cursor's line: "clean", "status"
  spoiled       \* history: something was printed onto a status line

termVars == <<statusText, statusShown, stopped, screen, spoiled>>
vars == <<metVars, mode, main, ticker, termVars>>

Formats == {"auto", "pretty", "json"}

\* Setup: pretty on a terminal unless a format is asked for; ANSI and the
\* status line need both.
Setup(isTTY, format, quiet) ==
  LET pretty == IF format = "auto" THEN isTTY ELSE format = "pretty"
  IN  [tty |-> isTTY /\ pretty, quiet |-> quiet, json |-> ~pretty]

Init ==
  /\ MetricsInit
  /\ \E isTTY, quiet \in BOOLEAN, format \in Formats : mode = Setup(isTTY, format, quiet)
  /\ main = "banner" /\ ticker = "off"
  /\ statusText = FALSE /\ statusShown = FALSE /\ stopped = FALSE
  /\ screen = "clean" /\ spoiled = FALSE

-----------------------------------------------------------------------------
(* What the locked sections do to the screen: they are composed of these.  *)

\* hideStatusLocked, from what the terminal believes and what is there.
Hidden == IF statusShown THEN "clean" ELSE screen

\* showStatusLocked, after which the line is on screen or not.
Shows(text) == mode.tty /\ ~mode.quiet /\ ~stopped /\ text

\* Print a line of its own onto a cursor line that holds `line`.
Spoils(line) == spoiled' = (spoiled \/ line = "status")

\* Faulty variant: the line is printed without hiding the status first.
PrintOver ==
  /\ Spoils(screen)
  /\ statusShown' = Shows(statusText)
  /\ screen' = IF Shows(statusText) THEN "status" ELSE "clean"
  /\ UNCHANGED <<statusText, stopped>>

\* hide, print, show: Caption and writeLog.
PrintAround ==
  /\ Spoils(Hidden)
  /\ statusShown' = Shows(statusText)
  /\ screen' = IF Shows(statusText) THEN "status" ELSE "clean"
  /\ UNCHANGED <<statusText, stopped>>

\* Print only: Banner, Ready, Summary and the JSON handler.
PrintPlainly ==
  /\ Spoils(screen) /\ screen' = "clean"
  /\ UNCHANGED <<statusText, statusShown, stopped>>

\* setStatus: ignored once stopped.
setStatus ==
  IF stopped THEN UNCHANGED termVars
  ELSE /\ statusText' = TRUE
       /\ statusShown' = Shows(TRUE)
       /\ Spoils(IF Shows(TRUE) THEN Hidden ELSE "clean")
       /\ screen' = IF Shows(TRUE) THEN "status" ELSE Hidden
       /\ UNCHANGED stopped

StopStatus ==
  IF stopped THEN UNCHANGED termVars
  ELSE /\ stopped' = TRUE
       /\ statusShown' = FALSE /\ screen' = Hidden
       /\ UNCHANGED <<statusText, spoiled>>

-----------------------------------------------------------------------------
(* Everyone who prints: the hub goroutine a caption, any goroutine a log.  *)

Caption ==
  /\ main \in {"running", "closing"} /\ ~mode.quiet
  /\ PrintAround
  /\ UNCHANGED <<metVars, mode, main, ticker>>

\* prettyHandler.Handle goes through writeLog, the JSON handler does not.
Log ==
  /\ main # "exited"
  /\ IF mode.json THEN PrintPlainly ELSE PrintAround
  /\ UNCHANGED <<metVars, mode, main, ticker>>

-----------------------------------------------------------------------------
(* The status goroutine: case <-tick.C, case <-t.done.                     *)

TickerSnapshots ==
  /\ ticker = "on" /\ SnapshotStep("status")
  /\ UNCHANGED <<mode, main, ticker, termVars>>

\* t.setStatus(renderStatus(t, snapshot()))
TickerDraws ==
  /\ ticker = "on" /\ snap["status"].pc = "done"
  /\ setStatus
  /\ snap' = [snap EXCEPT !["status"] = Unread]
  /\ UNCHANGED <<now, degVars, pauseVars, latVars, ops, paused, mode, main, ticker>>

TickerEnds ==
  /\ ticker = "on" /\ snap["status"].pc = "none" /\ stopped
  /\ ticker' = "done"
  /\ UNCHANGED <<metVars, mode, main, termVars>>

-----------------------------------------------------------------------------
(* run and shutdown, as the terminal meets them.                           *)

MainMoves(from, to) ==
  main = from /\ main' = to /\ UNCHANGED mode

\* Banner, unless quiet.  An address in use ends the run before anything
\* else is started.
Banner ==
  /\ MainMoves("banner", "ready") \/ MainMoves("banner", "closing")
  /\ IF mode.quiet THEN UNCHANGED termVars ELSE PrintPlainly
  /\ UNCHANGED <<metVars, ticker>>

\* Ready, then StartStatus.
Ready ==
  /\ MainMoves("ready", "running")
  /\ IF mode.quiet THEN UNCHANGED termVars ELSE PrintPlainly
  /\ ticker' = IF mode.tty /\ ~mode.quiet THEN "on" ELSE "off"
  /\ UNCHANGED metVars

\* The engine and the hub goroutine are joined; shutdown begins.
RunEnds ==
  /\ MainMoves("running", "closing")
  /\ engine \in {"ended", "endedPaused"}
  /\ UNCHANGED <<metVars, ticker, termVars>>

\* s.met.SetSTTState(metrics.StateClosed)
Closes ==
  /\ MainMoves("closing", "summing")
  /\ SetSTTState("closed")
  /\ UNCHANGED <<now, degVars, sttPauseStart, sttPausedTotal, engine, latVars,
                  snap, ops, paused, ticker, termVars>>

\* s.met.Snapshot(), the summary's argument.
MainSnapshots ==
  /\ main = "summing" /\ SnapshotStep("summary")
  /\ UNCHANGED <<mode, main, ticker, termVars>>

\* Summary: StopStatus first ...
SummaryStops ==
  /\ MainMoves("summing", "stopped") /\ snap["summary"].pc = "done"
  /\ StopStatus
  /\ UNCHANGED <<metVars, ticker>>

\* ... then the report, unless quiet.
SummaryPrints ==
  /\ MainMoves("stopped", "exited")
  /\ IF mode.quiet THEN UNCHANGED termVars ELSE PrintPlainly
  /\ UNCHANGED <<metVars, ticker>>

Exited == main = "exited" /\ UNCHANGED vars

-----------------------------------------------------------------------------
\* The stages run between the start of the pipeline and the end of main; the
\* engine and the hub goroutine only until run has joined them.
Stages ==
  /\ \/ main \in {"running", "closing"} /\ (Degrade \/ Tick)
     \/ main = "running" /\ (Engine \/ \E d \in Latencies : ObserveLatency(d))
  /\ UNCHANGED <<mode, main, ticker, termVars>>

Status == TickerSnapshots \/ TickerDraws \/ TickerEnds
Main   == \/ Banner \/ Ready \/ RunEnds \/ Closes \/ MainSnapshots
          \/ SummaryStops \/ SummaryPrints

Next == Stages \/ Caption \/ Log \/ Status \/ Main \/ Exited

Spec == Init /\ [][Next]_vars

-----------------------------------------------------------------------------
\* "without a single owner they interleave into garbage": whatever the order
\* of ticks, captions, logs and shutdown, no line is printed onto the status
\* line and the terminal knows what is on screen; from StopStatus on nothing
\* is drawn under the summary (hideStatusLocked, showStatusLocked, setStatus,
\* StopStatus; Ready before StartStatus, Summary after StopStatus).
LinesStandAlone ==
  /\ ~spoiled
  /\ (screen = "status") = statusShown
  /\ stopped => ~statusShown
=============================================================================
