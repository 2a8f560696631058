--------------------------- MODULE ReplayJobProofs ---------------------------
(***************************************************************************)
(* Proofs about one replay job.  ProgressAtMostOne, SuccessMeansComplete   *)
(* and JobErrorFaithful fail once the replay object is reused (Start       *)
(* resets neither the command counters nor err, and a stale pacer may stop *)
(* the next job), so they are proved for the first job, gen <= 1, which is *)
(* every state when MaxStarts = 1.                                         *)
(***************************************************************************)
EXTENDS ReplayProofs

\* The command the pacer of job 1 has decoded and not yet counted:
\* replayedCmds++ runs after the pacing sleep, in PacerExec.
InFlight == IF pacer[1].pc \in {"wait", "exec"} THEN 1 ELSE 0

\* While only job 1 exists: the counters count what its pacer has decoded,
\* and meta.Cmds is the length of its input when the meta file was read.
CountInv == replayedCmds + filteredCmds + InFlight <= pacer[1].pos
MetaInv == metaCmds > 0 => metaCmds = Len(input[1])

\* err is the error of job 1's first Stop, and nothing before it.
ErrInv ==
    /\ gen = 0 => err = NoErr
    /\ running => err = NoErr /\ outcome[1] = "pending"
    /\ gen = 1 /\ ~running => err = outcome[1]

\* Only the EOF of job 1's own pacer reports success.
SuccessInv == outcome[1] = NoErr => pacer[1].pos = Len(input[1]) /\ pacer[1].pc = "done"

FirstJob == CountInv /\ MetaInv /\ ProgressAtMostOne /\ ErrInv /\ SuccessInv

\* The strengthening.  Only a running job can be stopped, so a job that has
\* not started keeps outcome "pending"; during the first job FirstJob holds.
JobInv ==
    /\ running => gen \in Gens
    /\ \A g \in Gens : g > gen => outcome[g] = "pending"
    /\ gen <= 1 => FirstJob

JInv == IInv /\ JobInv

LEMMA OneGen == 1 \in Gens
BY ReplayAssumption DEF Gens

\* While gen <= 1, a pacer that has left "idle" is the pacer of job 1.
LEMMA OnlyPacerOne ==
    ASSUME IInv, gen <= 1, NEW g \in Gens, pacer[g].pc # "idle"
    PROVE  g = 1 /\ gen = 1
BY StartedJob DEF Gens

\* What Stop(e) does to the variables the first job's invariant relates,
\* when it leaves the counters, meta.Cmds, the inputs and gen alone.
LEMMA StopKeeps ==
    ASSUME IInv, JobInv, NEW e \in {NoErr} \cup Errs, Stop(e),
           UNCHANGED <<gen, metaCmds, replayedCmds, filteredCmds, input>>
    PROVE  /\ running' => gen' \in Gens
           /\ \A g \in Gens : g > gen' => outcome'[g] = "pending"
           /\ gen' <= 1 =>
                 /\ ProgressAtMostOne' /\ ErrInv'
                 /\ outcome'[1] = NoErr => outcome[1] = NoErr \/ e = NoErr
<1>1. CASE ~running
    BY <1>1 DEF Stop, JobInv, FirstJob, ErrInv, ProgressAtMostOne
<1>2. CASE running
    <2>1. StopJob(e) /\ gen \in Gens
        BY <1>2 DEF Stop, JobInv
    <2>2. outcome' = [outcome EXCEPT ![gen] = IF @ = "pending" THEN e ELSE @]
          /\ ~running'
        BY <2>1 DEF StopJob
    <2>3. \A g \in Gens : g > gen' => outcome'[g] = "pending"
        BY <2>1, <2>2 DEF JobInv, IInv, TypeOK, Gens
    <2>4. ASSUME gen' <= 1 PROVE ProgressAtMostOne' /\ ErrInv'
                 /\ (outcome'[1] = NoErr => outcome[1] = NoErr \/ e = NoErr)
        <3>1. gen = 1 /\ err = NoErr /\ outcome[1] = "pending"
            BY <1>2, <2>1, <2>4 DEF JobInv, FirstJob, ErrInv, Gens
        <3>2. outcome'[1] = e
            BY <2>2, <3>1, OneGen DEF IInv, TypeOK
        <3>3. err' = e
            BY <2>1, <3>1 DEF StopJob
        <3>4. ErrInv'
            BY <2>2, <3>1, <3>2, <3>3 DEF ErrInv
        <3>5. ProgressAtMostOne'
            <4>1. /\ replayedCmds + filteredCmds <= pacer[1].pos
                  /\ pacer[1].pos <= Len(input[1])
                  /\ metaCmds > 0 => metaCmds = Len(input[1])
                  /\ progress.num <= progress.den
                BY <3>1, OneGen DEF JobInv, FirstJob, CountInv, MetaInv, InFlight,
                                     ProgressAtMostOne, IInv, PacerInv, TypeOK
            <4>2. FailedProgress.num <= FailedProgress.den
                BY <4>1, OneGen DEF FailedProgress, Ratio, IInv, TypeOK
            <4>3. QED
                BY <2>1, <4>2 DEF StopJob, ProgressAtMostOne, One
        <3>6. QED
            BY <3>2, <3>4, <3>5
    <2>5. QED
        BY <2>2, <2>3, <2>4
<1>3. QED
    BY <1>1, <1>2


LEMMA InitJobInv == Init => JobInv
<1> SUFFICES ASSUME Init PROVE JobInv
    OBVIOUS
<1>1. pacer[1] = [pc |-> "idle", pos |-> 0] /\ outcome[1] = "pending"
    BY OneGen DEF Init
<1>2. FirstJob
    <2>1. CountInv /\ MetaInv
        BY <1>1 DEF Init, CountInv, MetaInv, InFlight
    <2>2. ErrInv /\ SuccessInv
        BY <1>1 DEF Init, ErrInv, SuccessInv, NoErr
    <2>3. ProgressAtMostOne
        BY DEF Init, ProgressAtMostOne, Zero
    <2>4. QED
        BY <2>1, <2>2, <2>3 DEF FirstJob
<1>3. QED
    BY <1>2 DEF Init, JobInv

\* A step of the pacer of a started job that only moves the pacer and the
\* command counters keeps JobInv, provided it keeps the count of decoded
\* commands.
LEMMA PacerJobInv ==
    ASSUME IInv, JobInv, NEW g \in Gens, pacer[g].pc \notin {"idle", "done"},
           NEW p, NEW n,
           pacer' = [pacer EXCEPT ![g] = [pc |-> p, pos |-> n]],
           UNCHANGED <<gen, running, input, metaCmds, err, progress, outcome>>,
           gen <= 1 => CountInv'
    PROVE  JobInv'
<1>1. CASE gen <= 1
    <2>1. g = 1 /\ gen = 1
        BY <1>1, OnlyPacerOne
    <2>2. outcome[1] # NoErr
        BY <1>1, <2>1 DEF JobInv, FirstJob, SuccessInv
    <2>3. FirstJob'
        BY <1>1, <2>1, <2>2 DEF JobInv, FirstJob, MetaInv, ErrInv, SuccessInv,
                                ProgressAtMostOne
    <2>4. QED
        BY <2>3 DEF JobInv
<1>2. CASE ~(gen <= 1)
    BY <1>2 DEF JobInv
<1>3. QED
    BY <1>1, <1>2

\* Steps that leave every variable of JobInv alone.
LEMMA FrameJobInv ==
    ASSUME JobInv,
           UNCHANGED <<gen, running, input, metaCmds, replayedCmds, filteredCmds,
                       err, progress, pacer, outcome>>
    PROVE  JobInv'
BY DEF JobInv, FirstJob, CountInv, MetaInv, ErrInv, SuccessInv, InFlight,
       ProgressAtMostOne


\* A Stop from the HTTP cancel or from Close, which leaves the pacers alone.
LEMMA CallerStopJobInv ==
    ASSUME IInv, JobInv, NEW e \in Errs, Stop(e),
           UNCHANGED <<gen, metaCmds, replayedCmds, filteredCmds, input, pacer>>
    PROVE  JobInv'
<1>1. /\ running' => gen' \in Gens
      /\ \A g \in Gens : g > gen' => outcome'[g] = "pending"
      /\ gen' <= 1 =>
            /\ ProgressAtMostOne' /\ ErrInv'
            /\ outcome'[1] = NoErr => outcome[1] = NoErr \/ e = NoErr
    BY StopKeeps DEF Errs
<1>2. e # NoErr
    BY DEF Errs, NoErr
<1>3. gen' <= 1 => (CountInv /\ MetaInv /\ SuccessInv)'
    BY <1>1, <1>2 DEF JobInv, FirstJob, CountInv, MetaInv, SuccessInv, InFlight
<1>4. QED
    BY <1>1, <1>3 DEF JobInv, FirstJob

\* The end of a pacer at EOF or on a decoding error.
LEMMA DecodeStopJobInv ==
    ASSUME IInv, JobInv, NEW g \in Gens, pacer[g].pc = "decode",
           DecodeEOF(g) \/ DecodeError(g),
           UNCHANGED <<gen, input, metaCmds, replayedCmds>>
    PROVE  JobInv'
<1>1. PICK e \in {NoErr} \cup Errs :
          /\ Stop(e)
          /\ e = NoErr => pacer[g].pos = Len(input[g])
    BY DEF DecodeEOF, DecodeError, Errs, NoErr
<1>2. /\ pacer' = [pacer EXCEPT ![g] = [pc |-> "done", pos |-> pacer[g].pos]]
      /\ UNCHANGED filteredCmds
    BY PcOnly DEF DecodeEOF, DecodeError, IInv
<1>3. /\ running' => gen' \in Gens
      /\ \A h \in Gens : h > gen' => outcome'[h] = "pending"
      /\ gen' <= 1 =>
            /\ ProgressAtMostOne' /\ ErrInv'
            /\ outcome'[1] = NoErr => outcome[1] = NoErr \/ e = NoErr
    BY <1>1, <1>2, StopKeeps
<1>4. ASSUME gen' <= 1 PROVE (CountInv /\ MetaInv /\ SuccessInv)'
    <2>1. g = 1 /\ gen = 1
        BY <1>4, OnlyPacerOne
    <2>2. pacer'[1] = [pc |-> "done", pos |-> pacer[1].pos] /\ InFlight = 0
        BY <1>2, <2>1 DEF IInv, TypeOK, InFlight
    <2>3. outcome[1] # NoErr
        BY <1>4, <2>1 DEF JobInv, FirstJob, SuccessInv
    <2>4. CountInv' /\ MetaInv'
        BY <1>2, <1>4, <2>2 DEF JobInv, FirstJob, CountInv, MetaInv, InFlight
    <2>5. SuccessInv'
        BY <1>1, <1>3, <1>4, <2>1, <2>2, <2>3 DEF SuccessInv
    <2>6. QED
        BY <2>4, <2>5
<1>5. QED
    BY <1>3, <1>4 DEF JobInv, FirstJob

LEMMA NextJobInv == JInv /\ [Next]_vars => JobInv'
<1> SUFFICES ASSUME IInv, JobInv, [Next]_vars PROVE JobInv'
    BY DEF JInv
<1>1. ASSUME NEW in \in Inputs, NEW metaOK \in BOOLEAN, NEW reportOK \in BOOLEAN,
             Start(in, metaOK, reportOK)
      PROVE  JobInv'
    <2>1. /\ gen' = gen + 1 /\ gen + 1 \in Gens /\ running'
          /\ UNCHANGED <<outcome, err, replayedCmds, filteredCmds>>
        <3>1. gen' = gen + 1 /\ running' /\ UNCHANGED <<outcome, err, replayedCmds, filteredCmds>>
            BY <1>1 DEF Start
        <3>2. gen + 1 \in Gens
            BY <1>1, ReplayAssumption DEF Start, IInv, TypeOK, Gens
        <3>3. QED
            BY <3>1, <3>2
    <2>2. \A g \in Gens : g > gen' => outcome'[g] = "pending"
        BY <2>1 DEF JobInv, IInv, TypeOK, Gens
    <2>3. ASSUME gen' <= 1 PROVE FirstJob'
        <3>1. gen = 0 /\ gen' = 1
            BY <2>1, <2>3 DEF IInv, TypeOK
        <3>2. pacer[1] = [pc |-> "idle", pos |-> 0] /\ err = NoErr /\ outcome[1] = "pending"
            BY <3>1, OneGen DEF IInv, PacerInv, JobInv, FirstJob, ErrInv
        <3>3. replayedCmds = 0 /\ filteredCmds = 0
            BY <3>1, <3>2 DEF JobInv, FirstJob, CountInv, InFlight, IInv, TypeOK
        <3>4. /\ pacer'[1].pos = 0 /\ pacer'[1].pc \in {"idle", "loop"}
              /\ input'[1] = in /\ metaCmds' = IF metaOK THEN Len(in) ELSE 0
              /\ progress' = Zero
            BY <1>1, <3>1, <3>2, OneGen DEF Start, IInv, TypeOK
        <3>5. CountInv' /\ MetaInv' /\ ProgressAtMostOne'
            BY <2>1, <3>3, <3>4 DEF CountInv, MetaInv, InFlight, ProgressAtMostOne, Zero
        <3>6. ErrInv' /\ SuccessInv'
            BY <2>1, <3>1, <3>2 DEF ErrInv, SuccessInv, NoErr
        <3>7. QED
            BY <3>5, <3>6 DEF FirstJob
    <2>4. QED
        BY <2>1, <2>2, <2>3 DEF JobInv
<1>2. ASSUME NEW g \in Gens, PacerCheck(g) PROVE JobInv'
    <2> DEFINE p == IF canceled[g] THEN "done" ELSE "decode"
    <2>1. pacer' = [pacer EXCEPT ![g] = [pc |-> p, pos |-> pacer[g].pos]]
        BY <1>2, PcOnly DEF PacerCheck, IInv
    <2>2. gen <= 1 => CountInv'
        BY <1>2, <2>1, OnlyPacerOne DEF PacerCheck, JobInv, FirstJob, CountInv,
                                        InFlight, IInv, TypeOK
    <2>3. QED
        <3>1. /\ pacer[g].pc \notin {"idle", "done"}
              /\ UNCHANGED <<gen, running, input, metaCmds, err, progress, outcome>>
            BY <1>2 DEF PacerCheck
        <3>2. QED
            BY <2>1, <2>2, <3>1, PacerJobInv
<1>3. ASSUME NEW g \in Gens, PacerWake(g) PROVE JobInv'
    <2> DEFINE p == IF canceled[g] THEN "done" ELSE "exec"
    <2>1. pacer' = [pacer EXCEPT ![g] = [pc |-> p, pos |-> pacer[g].pos]]
        BY <1>3, PcOnly DEF PacerWake, IInv
    <2>2. gen <= 1 => CountInv'
        BY <1>3, <2>1, OnlyPacerOne DEF PacerWake, JobInv, FirstJob, CountInv,
                                        InFlight, IInv, TypeOK
    <2>3. QED
        <3>1. /\ pacer[g].pc \notin {"idle", "done"}
              /\ UNCHANGED <<gen, running, input, metaCmds, err, progress, outcome>>
            BY <1>3 DEF PacerWake
        <3>2. QED
            BY <2>1, <2>2, <3>1, PacerJobInv
<1>4. ASSUME NEW g \in Gens, PacerExec(g) PROVE JobInv'
    <2>1. pacer' = [pacer EXCEPT ![g] = [pc |-> "loop", pos |-> pacer[g].pos]]
        BY <1>4, PcOnly DEF PacerExec, IInv
    <2>2. ASSUME gen <= 1 PROVE CountInv'
        <3>1. g = 1
            BY <1>4, <2>2, OnlyPacerOne DEF PacerExec
        <3>2. /\ pacer'[1] = [pc |-> "loop", pos |-> pacer[1].pos] /\ InFlight = 1
              /\ replayedCmds' = replayedCmds + 1 /\ filteredCmds' = filteredCmds
            BY <1>4, <2>1, <3>1 DEF PacerExec, InFlight, IInv, TypeOK
        <3>3. InFlight' = 0
            BY <3>2 DEF InFlight
        <3>4. QED
            BY <2>2, <3>2, <3>3 DEF JobInv, FirstJob, CountInv, IInv, TypeOK
    <2>3. QED
        <3>1. /\ pacer[g].pc \notin {"idle", "done"}
              /\ UNCHANGED <<gen, running, input, metaCmds, err, progress, outcome>>
            BY <1>4 DEF PacerExec
        <3>2. QED
            BY <2>1, <2>2, <3>1, PacerJobInv
<1>5. ASSUME NEW g \in Gens, PacerDecode(g) PROVE JobInv'
    <2>1. /\ pacer[g].pc = "decode"
          /\ UNCHANGED <<gen, input, metaCmds, replayedCmds>>
        BY <1>5 DEF PacerDecode
    <2>2. CASE DecodeEOF(g) \/ DecodeError(g)
        BY <2>1, <2>2, DecodeStopJobInv
    <2>3. ASSUME NEW p \in {"loop", "wait"},
                 pacer' = [pacer EXCEPT ![g] = [pc |-> p, pos |-> pacer[g].pos + 1]],
                 filteredCmds' = filteredCmds + (IF p = "loop" THEN 1 ELSE 0),
                 UNCHANGED <<running, err, progress, outcome>>
          PROVE  JobInv'
        <3>1. ASSUME gen <= 1 PROVE CountInv'
            <4>1. g = 1
                BY <2>1, <3>1, OnlyPacerOne
            <4>2. pacer'[1] = [pc |-> p, pos |-> pacer[1].pos + 1] /\ InFlight = 0
                BY <2>1, <2>3, <4>1 DEF InFlight, IInv, TypeOK
            <4>3. InFlight' = IF p = "wait" THEN 1 ELSE 0
                BY <4>2 DEF InFlight
            <4>4. /\ replayedCmds + filteredCmds <= pacer[1].pos
                  /\ replayedCmds \in Nat /\ filteredCmds \in Nat /\ pacer[1].pos \in Nat
                BY <3>1, <4>2, OneGen DEF JobInv, FirstJob, CountInv, IInv, TypeOK
            <4>5. CASE p = "loop"
                BY <2>1, <2>3, <4>2, <4>3, <4>4, <4>5 DEF CountInv
            <4>6. CASE p = "wait"
                BY <2>1, <2>3, <4>2, <4>3, <4>4, <4>6 DEF CountInv
            <4>7. QED
                BY <4>5, <4>6
        <3>2. QED
            BY <2>1, <2>3, <3>1, PacerJobInv
    <2>4. CASE DecodeChangeUser(g)
        <3>1. /\ pacer' = [pacer EXCEPT ![g] = [pc |-> "loop", pos |-> pacer[g].pos + 1]]
              /\ filteredCmds' = filteredCmds + (IF "loop" = "loop" THEN 1 ELSE 0)
              /\ UNCHANGED <<running, err, progress, outcome>>
            BY <2>4 DEF DecodeChangeUser
        <3>2. QED
            BY <3>1, <2>3
    <2>5. CASE DecodeCommand(g)
        <3>1. /\ pacer' = [pacer EXCEPT ![g] = [pc |-> "wait", pos |-> pacer[g].pos + 1]]
              /\ filteredCmds' = filteredCmds + (IF "wait" = "loop" THEN 1 ELSE 0)
              /\ UNCHANGED <<running, err, progress, outcome>>
            BY <2>5, <2>1 DEF DecodeCommand, IInv, TypeOK
        <3>2. QED
            BY <3>1, <2>3
    <2>6. QED
        BY <1>5, <2>2, <2>4, <2>5 DEF PacerDecode
<1>6. CASE ManualStop
    BY <1>6, CallerStopJobInv DEF ManualStop, Errs
<1>7. CASE Close
    BY <1>7, CallerStopJobInv DEF Close, Errs
<1>8. CASE ProgressQuery
    <2>1. gen <= 1 => ProgressAtMostOne'
        BY <1>8, OneGen DEF ProgressQuery, Ratio, JobInv, FirstJob, CountInv, MetaInv,
                            InFlight, ProgressAtMostOne, IInv, PacerInv, TypeOK
    <2>2. QED
        BY <1>8, <2>1 DEF ProgressQuery, JobInv, FirstJob, CountInv, MetaInv,
                          ErrInv, SuccessInv, InFlight
<1>9. ASSUME NEW g \in Gens, DrainExit(g) \/ DrainRecv(g) PROVE JobInv'
    BY <1>9, FrameJobInv DEF DrainExit, DrainRecv
<1>10. ASSUME NEW w \in workers, WorkerClose(w) PROVE JobInv'
    BY <1>10, FrameJobInv DEF WorkerClose
<1>11. CASE CloseDone \/ UNCHANGED vars
    BY <1>11, FrameJobInv DEF CloseDone, vars
<1>12. QED
    BY <1>1, <1>2, <1>3, <1>4, <1>5, <1>6, <1>7, <1>8, <1>9, <1>10, <1>11 DEF Next


LEMMA JInvHolds == Spec => []JInv
<1>1. Init => JInv
    BY InitIInv, InitJobInv DEF JInv
<1>2. JInv /\ [Next]_vars => JInv'
    BY NextIInv, NextJobInv DEF JInv
<1>3. QED
    BY <1>1, <1>2, PTL DEF Spec

\* While the replay object serves its first job, Progress() never reports
\* more than 100%: the command counters only count what this job's pacer
\* decoded, and Stop and Progress divide by meta.Cmds only when it is the
\* length of the job's input.
THEOREM FirstJobProgress == Spec => [](gen <= 1 => ProgressAtMostOne)
<1>1. JInv => (gen <= 1 => ProgressAtMostOne)
    BY DEF JInv, JobInv, FirstJob
<1>2. QED
    BY <1>1, JInvHolds, PTL

\* While the replay object serves its first job, a job ends with no error
\* only at the EOF of its own pacer, after its whole input was decoded.
THEOREM FirstJobSuccess == Spec => [](gen <= 1 => SuccessMeansComplete)
<1>1. JInv => (gen <= 1 => SuccessMeansComplete)
    <2> SUFFICES ASSUME JInv, gen <= 1, NEW g \in Gens, outcome[g] = NoErr
                 PROVE  pacer[g].pos = Len(input[g])
        BY DEF SuccessMeansComplete
    <2>1. CASE g = 1
        BY <2>1 DEF JInv, JobInv, FirstJob, SuccessInv
    <2>2. CASE g # 1
        <3>1. g > gen
            BY <2>2 DEF JInv, IInv, TypeOK, Gens
        <3>2. FALSE
            BY <3>1 DEF JInv, JobInv, NoErr
        <3>3. QED
            BY <3>2
    <2>3. QED
        BY <2>1, <2>2
<1>2. QED
    BY <1>1, JInvHolds, PTL

\* While the replay object serves its first job, Progress() returns, once
\* the job has stopped, the error of the Stop that ended it, and no error
\* when it finished at EOF.
THEOREM FirstJobError == Spec => [](gen <= 1 => JobErrorFaithful)
<1>1. JInv => (gen <= 1 => JobErrorFaithful)
    BY DEF JInv, JobInv, FirstJob, ErrInv, JobErrorFaithful, Gens
<1>2. QED
    BY <1>1, JInvHolds, PTL

\* A replay object that runs a single job (the bound of replay_single_job)
\* satisfies all three properties in every state.
THEOREM SingleJobCorrect ==
    MaxStarts = 1 =>
        (Spec => [](ProgressAtMostOne /\ SuccessMeansComplete /\ JobErrorFaithful))
<1> SUFFICES ASSUME MaxStarts = 1
             PROVE  Spec => [](ProgressAtMostOne /\ SuccessMeansComplete /\ JobErrorFaithful)
    OBVIOUS
<1>1. JInv => gen <= 1
    BY DEF JInv, IInv, TypeOK
<1>2. QED
    BY <1>1, JInvHolds, FirstJobProgress, FirstJobSuccess, FirstJobError, PTL

=============================================================================
