------------------------------- MODULE Replay -------------------------------
(***************************************************************************)
(* The traffic replay engine of pkg/sqlreplay/replay/replay.go.            *)
(*                                                                         *)
(* One replay object is reused for every replay job.  Each Start is a new  *)
(* generation g: it gets its own context (canceled[g]), its own closeCh    *)
(* (closeCh[g]), a fresh conns map and two goroutines, the pacer           *)
(* readCommands (pacer[g]) and the close drain readCloseCh (drainer[g]).   *)
(* A connection worker conn.Run is started by executeCmd; it remembers the *)
(* context of the pacer that created it and the closeCh that r.closeCh     *)
(* pointed to at that moment, and writes its ConnID to that channel when   *)
(* it exits.  Time is abstracted: the pacing sleep is a step at which the  *)
(* pacer may be overtaken by anything else.                                *)
(***************************************************************************)
EXTENDS Integers, Sequences, FiniteSets

CONSTANTS
    ConnIDs,     \* the connection IDs of the captured traffic
    Inputs,      \* the captured traffic a job may replay: sequences of Commands
    MaxStarts,   \* bound on the number of Start calls on the replay object
    CloseChCap   \* capacity of closeCh (maxPendingExceptions in replay.go)

\* The command types the replay engine tells apart (pnet.ComChangeUser and
\* every other command).
CmdTypes == {"Query", "ChangeUser"}
Commands == [conn : ConnIDs, type : CmdTypes]

ASSUME ReplayAssumption ==
    /\ MaxStarts \in Nat \ {0}
    /\ CloseChCap \in Nat \ {0}
    /\ Inputs \subseteq Seq(Commands)
    /\ Inputs # {}

Gens == 1..MaxStarts
NoErr == "none"
\* The errors Stop may receive: a decoding error of the loader, the job
\* manager's cancel, and Close's "shutting down".
Errs == {"decode", "manual", "shutdown"}
\* r.progress as a fraction num/den.
Fraction == [num : Nat, den : Nat \ {0}]
Zero == [num |-> 0, den |-> 1]
One == [num |-> 1, den |-> 1]
PacerPCs == {"idle", "loop", "decode", "wait", "exec", "done"}
\* A running conn.Run goroutine: its ConnID, the generation of the closeCh
\* it reports to and the generation of the context it observes.
Workers == [conn : ConnIDs, ch : Gens, ctx : Gens]

VARIABLES
    gen,           \* number of Start calls so far; the current job
    running,       \* r.startTime is non-zero
    input,         \* input[g]: the commands the loader of job g yields
    metaCmds,      \* r.meta.Cmds
    canceled,      \* canceled[g]: the context of job g is canceled
    conns,         \* r.conns: "absent", "active" or "closed" (the nil tombstone)
    connCount,     \* r.connCount
    replayedCmds,  \* r.replayedCmds
    filteredCmds,  \* r.filteredCmds
    err,           \* r.err
    progress,      \* r.progress
    closeCh,       \* closeCh[g]: the buffered channel created by Start g
    pacer,         \* pacer[g]: pc and loader position of readCommands of job g
    drainer,       \* drainer[g]: state of readCloseCh of job g
    workers,       \* the running conn.Run goroutines
    closing,       \* state of a Close call: "no", "waiting" (in wg.Wait), "done"
    opened,        \* history: connections created per ConnID in the current map
    outcome        \* history: outcome[g] is the error that stopped job g

vars == <<gen, running, input, metaCmds, canceled, conns, connCount,
          replayedCmds, filteredCmds, err, progress, closeCh, pacer,
          drainer, workers, closing, opened, outcome>>

-----------------------------------------------------------------------------

Init ==
    /\ gen = 0
    /\ running = FALSE
    /\ input = [g \in Gens |-> <<>>]
    /\ metaCmds = 0
    /\ canceled = [g \in Gens |-> FALSE]
    /\ conns = [c \in ConnIDs |-> "absent"]
    /\ connCount = 0
    /\ replayedCmds = 0
    /\ filteredCmds = 0
    /\ err = NoErr
    /\ progress = Zero
    /\ closeCh = [g \in Gens |-> <<>>]
    /\ pacer = [g \in Gens |-> [pc |-> "idle", pos |-> 0]]
    /\ drainer = [g \in Gens |-> "idle"]
    /\ workers = {}
    /\ closing = "no"
    /\ opened = [c \in ConnIDs |-> 0]
    /\ outcome = [g \in Gens |-> "pending"]

\* (replayedCmds + filteredCmds) / meta.Cmds, as Progress and Stop compute it.
Ratio == [num |-> replayedCmds + filteredCmds, den |-> metaCmds]

\* The progress Stop records for a failed job: the ratio when meta.Cmds > 0.
FailedProgressNoCheck == Ratio
FailedProgress == IF metaCmds > 0 THEN Ratio ELSE progress

\* The body of Stop past its "already stopped" check: cancel the current
\* job's context and record the error, or progress 1 on success.  The
\* history variable outcome keeps the error of the job's first Stop.
StopJob(e) ==
    /\ running' = FALSE
    /\ canceled' = [canceled EXCEPT ![gen] = TRUE]
    /\ outcome' = [outcome EXCEPT ![gen] = IF @ = "pending" THEN e ELSE @]
    /\ \/ /\ e # NoErr
          /\ err' = e
          /\ progress' = FailedProgress
       \/ /\ e = NoErr
          /\ progress' = One
          /\ UNCHANGED err

\* Stop without its "already stopped" early return (fault injection).
StopNoGuard(e) == StopJob(e)

\* replay.Stop(err): a no-op once stopped.
Stop(e) ==
    \/ /\ ~running
       /\ UNCHANGED <<running, canceled, err, progress, outcome>>
    \/ /\ running
       /\ StopJob(e)

\* replay.Start: reads the meta (a failed read leaves Cmds = 0), installs a
\* fresh conns map and closeCh, and starts the pacer and the close drain
\* unless report.Start fails.  connCount, the command counters and err are
\* left as the previous job left them.  The job manager only starts a job
\* when none is running.
Start(in, metaOK, reportOK) ==
    /\ ~running
    /\ closing = "no"
    /\ gen < MaxStarts
    /\ LET g == gen + 1 IN
       /\ gen' = g
       /\ input' = [input EXCEPT ![g] = in]
       /\ pacer' = IF reportOK THEN [pacer EXCEPT ![g].pc = "loop"] ELSE pacer
       /\ drainer' = IF reportOK THEN [drainer EXCEPT ![g] = "run"] ELSE drainer
    /\ metaCmds' = IF metaOK THEN Len(in) ELSE 0
    /\ running' = TRUE
    /\ progress' = Zero
    /\ conns' = [c \in ConnIDs |-> "absent"]
    /\ opened' = [c \in ConnIDs |-> 0]
    /\ UNCHANGED <<canceled, connCount, replayedCmds, filteredCmds, err,
                   closeCh, workers, closing, outcome>>

-----------------------------------------------------------------------------
(* readCommands, the pacer of job g.                                       *)

\* The loop condition: stop once the job's context is canceled.
PacerCheck(g) ==
    /\ pacer[g].pc = "loop"
    /\ pacer' = [pacer EXCEPT ![g].pc = IF canceled[g] THEN "done" ELSE "decode"]
    /\ UNCHANGED <<gen, running, input, metaCmds, canceled, conns, connCount,
                   replayedCmds, filteredCmds, err, progress, closeCh,
                   drainer, workers, closing, opened, outcome>>

\* The outcomes of command.Decode for the pacer of job g.  Each fixes
\* pacer, filteredCmds and the variables Stop writes.
\* io.EOF breaks the loop without Stop (fault injection).
DecodeEOFNoStop(g) ==
    /\ pacer[g].pos = Len(input[g])
    /\ pacer' = [pacer EXCEPT ![g].pc = "done"]
    /\ UNCHANGED <<running, canceled, err, progress, outcome, filteredCmds>>

\* io.EOF: the job ends with no error.
DecodeEOF(g) ==
    /\ pacer[g].pos = Len(input[g])
    /\ Stop(NoErr)
    /\ pacer' = [pacer EXCEPT ![g].pc = "done"]
    /\ UNCHANGED filteredCmds

\* Any other decoding error (a corrupted or truncated chunk) ends the job
\* with that error.
DecodeError(g) ==
    /\ Stop("decode")
    /\ pacer' = [pacer EXCEPT ![g].pc = "done"]
    /\ UNCHANGED filteredCmds

\* ComChangeUser counted as filtered but not skipped (fault injection).
DecodeChangeUserNoContinue(g) ==
    /\ pacer[g].pos < Len(input[g])
    /\ input[g][pacer[g].pos + 1].type = "ChangeUser"
    /\ filteredCmds' = filteredCmds + 1
    /\ pacer' = [pacer EXCEPT ![g] = [pc |-> "wait", pos |-> @.pos + 1]]
    /\ UNCHANGED <<running, canceled, err, progress, outcome>>

\* ComChangeUser is counted as filtered and skipped.
DecodeChangeUser(g) ==
    /\ pacer[g].pos < Len(input[g])
    /\ input[g][pacer[g].pos + 1].type = "ChangeUser"
    /\ filteredCmds' = filteredCmds + 1
    /\ pacer' = [pacer EXCEPT ![g] = [pc |-> "loop", pos |-> @.pos + 1]]
    /\ UNCHANGED <<running, canceled, err, progress, outcome>>

\* Any other command goes on to the pacing sleep.
DecodeCommand(g) ==
    /\ pacer[g].pos < Len(input[g])
    /\ input[g][pacer[g].pos + 1].type # "ChangeUser"
    /\ pacer' = [pacer EXCEPT ![g] = [pc |-> "wait", pos |-> @.pos + 1]]
    /\ UNCHANGED <<running, canceled, err, progress, outcome, filteredCmds>>

PacerDecode(g) ==
    /\ pacer[g].pc = "decode"
    /\ \/ DecodeEOF(g)
       \/ DecodeError(g)
       \/ DecodeChangeUser(g)
       \/ DecodeCommand(g)
    /\ UNCHANGED <<gen, input, metaCmds, conns, connCount, replayedCmds,
                   closeCh, drainer, workers, closing, opened>>

\* The pacing sleep ends (timer or ctx.Done) and the context is checked.
PacerWake(g) ==
    /\ pacer[g].pc = "wait"
    /\ pacer' = [pacer EXCEPT ![g].pc = IF canceled[g] THEN "done" ELSE "exec"]
    /\ UNCHANGED <<gen, running, input, metaCmds, canceled, conns, connCount,
                   replayedCmds, filteredCmds, err, progress, closeCh,
                   drainer, workers, closing, opened, outcome>>

\* executeCmd, under the lock: the first command of a ConnID in the current
\* map creates a connection through r.connCreator, which captures the
\* current r.closeCh, and runs it with the pacer's context g.  An existing
\* connection gets the command; a tombstone drops it.
ExecuteCmd(c, g) ==
    \/ /\ conns[c] = "absent"
       /\ conns' = [conns EXCEPT ![c] = "active"]
       /\ connCount' = connCount + 1
       /\ workers' = workers \cup {[conn |-> c, ch |-> gen, ctx |-> g]}
       /\ opened' = [opened EXCEPT ![c] = @ + 1]
    \/ /\ conns[c] # "absent"
       /\ UNCHANGED <<conns, connCount, workers, opened>>

PacerExec(g) ==
    /\ pacer[g].pc = "exec"
    /\ replayedCmds' = replayedCmds + 1
    /\ ExecuteCmd(input[g][pacer[g].pos].conn, g)
    /\ pacer' = [pacer EXCEPT ![g].pc = "loop"]
    /\ UNCHANGED <<gen, running, input, metaCmds, canceled, filteredCmds, err,
                   progress, closeCh, drainer, closing, outcome>>

-----------------------------------------------------------------------------
(* readCloseCh, the close drain of job g.  It receives from r.closeCh,     *)
(* i.e. the channel of the current job, whichever job started it.          *)

\* After cancellation, return once no connection is counted.
DrainExit(g) ==
    /\ drainer[g] = "run"
    /\ canceled[g]
    /\ connCount <= 0
    /\ drainer' = [drainer EXCEPT ![g] = "done"]
    /\ UNCHANGED <<gen, running, input, metaCmds, canceled, conns, connCount,
                   replayedCmds, filteredCmds, err, progress, closeCh, pacer,
                   workers, closing, opened, outcome>>

\* The close event of ConnID c, under the lock.
\* Fault injection: the entry is deleted instead of left as a tombstone.
OnCloseDelete(c) ==
    \/ /\ conns[c] = "active"
       /\ conns' = [conns EXCEPT ![c] = "absent"]
       /\ connCount' = connCount - 1
    \/ /\ conns[c] # "active"
       /\ UNCHANGED <<conns, connCount>>

\* Fault injection: connCount is not decremented.
OnCloseNoDecrement(c) ==
    /\ conns' = [conns EXCEPT ![c] = IF @ = "active" THEN "closed" ELSE @]
    /\ UNCHANGED connCount

\* An active connection becomes a tombstone (nil) and is no longer counted.
OnClose(c) ==
    \/ /\ conns[c] = "active"
       /\ conns' = [conns EXCEPT ![c] = "closed"]
       /\ connCount' = connCount - 1
    \/ /\ conns[c] # "active"
       /\ UNCHANGED <<conns, connCount>>

DrainRecv(g) ==
    /\ drainer[g] = "run"
    /\ closeCh[gen] # <<>>
    /\ closeCh' = [closeCh EXCEPT ![gen] = Tail(@)]
    /\ OnClose(Head(closeCh[gen]))
    /\ UNCHANGED <<gen, running, input, metaCmds, canceled, replayedCmds,
                   filteredCmds, err, progress, pacer, drainer, workers,
                   closing, opened, outcome>>

-----------------------------------------------------------------------------
(* conn.Run: exits when the backend closes, fails, or its context is       *)
(* canceled, and then writes its ConnID to its closeCh (blocking when the  *)
(* channel is full).                                                       *)

WorkerClose(w) ==
    /\ w \in workers
    /\ Len(closeCh[w.ch]) < CloseChCap
    /\ closeCh' = [closeCh EXCEPT ![w.ch] = Append(@, w.conn)]
    /\ workers' = workers \ {w}
    /\ UNCHANGED <<gen, running, input, metaCmds, canceled, conns, connCount,
                   replayedCmds, filteredCmds, err, progress, pacer, drainer,
                   closing, opened, outcome>>

-----------------------------------------------------------------------------
(* The callers: the job manager (HTTP cancel, progress polling) and Close. *)

ManualStop ==
    /\ Stop("manual")
    /\ UNCHANGED <<gen, input, metaCmds, conns, connCount, replayedCmds,
                   filteredCmds, closeCh, pacer, drainer, workers, closing, opened>>

ProgressQuery ==
    /\ metaCmds > 0
    /\ progress' = Ratio
    /\ UNCHANGED <<gen, running, input, metaCmds, canceled, conns, connCount,
                   replayedCmds, filteredCmds, err, closeCh, pacer, drainer,
                   workers, closing, opened, outcome>>

\* Close: Stop("shutting down"), then wg.Wait for every goroutine.
Close ==
    /\ closing = "no"
    /\ Stop("shutdown")
    /\ closing' = "waiting"
    /\ UNCHANGED <<gen, input, metaCmds, conns, connCount, replayedCmds,
                   filteredCmds, closeCh, pacer, drainer, workers, opened>>

\* No goroutine of the replay's wait group is alive.
Quiescent ==
    /\ \A g \in Gens : pacer[g].pc \in {"idle", "done"} /\ drainer[g] \in {"idle", "done"}
    /\ workers = {}

CloseDone ==
    /\ closing = "waiting"
    /\ Quiescent
    /\ closing' = "done"
    /\ UNCHANGED <<gen, running, input, metaCmds, canceled, conns, connCount,
                   replayedCmds, filteredCmds, err, progress, closeCh, pacer,
                   drainer, workers, opened, outcome>>

-----------------------------------------------------------------------------

Next ==
    \/ \E in \in Inputs, metaOK, reportOK \in BOOLEAN : Start(in, metaOK, reportOK)
    \/ \E g \in Gens :
          \/ PacerCheck(g) \/ PacerDecode(g) \/ PacerWake(g) \/ PacerExec(g)
          \/ DrainExit(g) \/ DrainRecv(g)
    \/ \E w \in workers : WorkerClose(w)
    \/ ManualStop
    \/ ProgressQuery
    \/ Close
    \/ CloseDone

\* The goroutines of the replay are scheduled fairly; a worker is only
\* guaranteed to exit once its context is canceled.  Callers (Start, the
\* HTTP cancel, progress polling, Close) and backend disconnects are not.
Fairness ==
    /\ \A g \in Gens :
          /\ WF_vars(PacerCheck(g) \/ PacerDecode(g) \/ PacerWake(g) \/ PacerExec(g))
          /\ WF_vars(DrainExit(g) \/ DrainRecv(g))
    /\ \A w \in Workers : WF_vars(canceled[w.ctx] /\ WorkerClose(w))
    /\ WF_vars(CloseDone)

Spec == Init /\ [][Next]_vars /\ Fairness

-----------------------------------------------------------------------------
(* Properties.                                                             *)

TypeOK ==
    /\ gen \in 0..MaxStarts
    /\ running \in BOOLEAN
    /\ input \in [Gens -> Seq(Commands)]
    /\ metaCmds \in Nat
    /\ canceled \in [Gens -> BOOLEAN]
    /\ conns \in [ConnIDs -> {"absent", "active", "closed"}]
    /\ connCount \in Int
    /\ replayedCmds \in Nat
    /\ filteredCmds \in Nat
    /\ err \in {NoErr} \cup Errs
    /\ progress \in Fraction
    /\ closeCh \in [Gens -> Seq(ConnIDs)]
    /\ pacer \in [Gens -> [pc : PacerPCs, pos : Nat]]
    /\ drainer \in [Gens -> {"idle", "run", "done"}]
    /\ workers \subseteq Workers
    /\ closing \in {"no", "waiting", "done"}
    /\ opened \in [ConnIDs -> Nat]
    /\ outcome \in [Gens -> {"pending", NoErr} \cup Errs]

\* Progress() never reports more than 100%: replayedCmds + filteredCmds
\* never exceed meta.Cmds (spec: progress is clamped to [0, 1]).
ProgressAtMostOne == progress.num <= progress.den

\* A job reported successful (Stop(nil)) has replayed its whole input: only
\* the loader's EOF of that job's own pacer may end it without an error.
SuccessMeansComplete ==
    \A g \in Gens : outcome[g] = NoErr => pacer[g].pos = Len(input[g])

\* Once a job has stopped, Progress() returns the error that stopped it, and
\* no error when it finished successfully.
JobErrorFaithful ==
    (gen \in Gens /\ ~running) => err = outcome[gen]

\* The tombstone left by readCloseCh keeps a ConnID from getting a second
\* backend connection within one job.
AtMostOneSession == \A c \in ConnIDs : opened[c] <= 1

\* Close() returns: after Stop, every goroutine of the wait group ends
\* (readCloseCh drains all close events so that no connection blocks).
CloseReturns == (closing = "waiting") ~> (closing = "done")

\* A running job whose pacer was started ends by itself (EOF or error).
ReplayFinishes ==
    (gen \in Gens /\ running /\ pacer[gen].pc # "idle") ~> ~running

=============================================================================
