---------------------------- MODULE ReplayProofs ----------------------------
(***************************************************************************)
(* Proofs about the replay engine (Replay.tla) for every value of the      *)
(* constants allowed by ReplayAssumption, any number of jobs included.     *)
(***************************************************************************)
EXTENDS Replay, TLAPS

\* TypeOK is not inductive by itself: PacerExec reads input[g][pos], so pos
\* must be a valid index when the pacer is about to execute, and Start
\* overwrites input[gen + 1], so the pacer of a job not yet started must
\* still be at position 0.  The drain of a started job reads closeCh[gen],
\* so a started drain implies gen >= 1.
PacerInv ==
    \A g \in Gens :
        /\ pacer[g].pos <= Len(input[g])
        /\ pacer[g].pc \in {"wait", "exec"} => pacer[g].pos >= 1
        /\ g > gen => pacer[g] = [pc |-> "idle", pos |-> 0] /\ drainer[g] = "idle"

IInv == TypeOK /\ PacerInv

LEMMA InitIInv == Init => IInv
<1> SUFFICES ASSUME Init PROVE IInv
    OBVIOUS
<1>1. TypeOK
    <2>1. input \in [Gens -> Seq(Commands)]
        BY DEF Init
    <2>2. progress \in Fraction
        BY DEF Init, Fraction, Zero
    <2>3. pacer \in [Gens -> [pc : PacerPCs, pos : Nat]]
        BY DEF Init, PacerPCs
    <2>4. gen \in 0..MaxStarts /\ metaCmds \in Nat /\ connCount \in Int
        BY ReplayAssumption DEF Init
    <2>5. canceled \in [Gens -> BOOLEAN] /\ conns \in [ConnIDs -> {"absent", "active", "closed"}]
        BY DEF Init
    <2>6. err \in {NoErr} \cup Errs /\ closeCh \in [Gens -> Seq(ConnIDs)]
        BY DEF Init, NoErr
    <2>7. drainer \in [Gens -> {"idle", "run", "done"}] /\ workers \subseteq Workers
        BY DEF Init
    <2>8. opened \in [ConnIDs -> Nat] /\ outcome \in [Gens -> {"pending", NoErr} \cup Errs]
        BY DEF Init
    <2>9. QED
        BY <2>1, <2>2, <2>3, <2>4, <2>5, <2>6, <2>7, <2>8 DEF Init, TypeOK
<1>2. PacerInv
    BY DEF Init, PacerInv, Gens
<1>3. QED
    BY <1>1, <1>2 DEF IInv

\* What Stop leaves in the variables it writes.
LEMMA StopTyped ==
    ASSUME TypeOK, NEW e \in {NoErr} \cup Errs, Stop(e)
    PROVE  /\ running' \in BOOLEAN
           /\ canceled' \in [Gens -> BOOLEAN]
           /\ err' \in {NoErr} \cup Errs
           /\ progress' \in Fraction
           /\ outcome' \in [Gens -> {"pending", NoErr} \cup Errs]
<1>1. CASE ~running
    BY <1>1 DEF Stop, TypeOK
<1>2. CASE running
    <2>1. StopJob(e)
        BY <1>2 DEF Stop
    <2>2. progress' \in Fraction
        <3>1. FailedProgress \in Fraction
            BY DEF TypeOK, FailedProgress, Ratio, Fraction
        <3>2. QED
            BY <2>1, <3>1 DEF StopJob, One, Fraction
    <2>3. QED
        BY <2>1, <2>2 DEF StopJob, TypeOK
<1>3. QED
    BY <1>1, <1>2

\* A step of the pacer of job g that moves it to pc p at position n keeps
\* the pacer part of the invariant.
LEMMA PacerStep ==
    ASSUME IInv, NEW g \in Gens, pacer[g].pc # "idle",
           NEW p \in PacerPCs \ {"idle"}, NEW n \in Nat,
           n <= Len(input[g]), p \in {"wait", "exec"} => n >= 1,
           pacer' = [pacer EXCEPT ![g] = [pc |-> p, pos |-> n]],
           UNCHANGED <<gen, input, drainer>>
    PROVE  /\ pacer' \in [Gens -> [pc : PacerPCs, pos : Nat]]
           /\ PacerInv'
<1>1. g <= gen
    BY DEF IInv, PacerInv, TypeOK, Gens
<1>2. pacer' \in [Gens -> [pc : PacerPCs, pos : Nat]]
    BY DEF IInv, TypeOK
<1>3. PacerInv'
    BY <1>1 DEF IInv, TypeOK, PacerInv, Gens
<1>4. QED
    BY <1>2, <1>3

\* Updating only the pc of a pacer record is a whole-record update.
LEMMA PcOnly ==
    ASSUME TypeOK, NEW g \in Gens, NEW p
    PROVE  [pacer EXCEPT ![g].pc = p] = [pacer EXCEPT ![g] = [pc |-> p, pos |-> pacer[g].pos]]
<1>1. pacer[g] \in [pc : PacerPCs, pos : Nat]
    BY DEF TypeOK
<1>2. [pacer[g] EXCEPT !.pc = p] = [pc |-> p, pos |-> pacer[g].pos]
    BY <1>1
<1>3. QED
    BY <1>2

\* A job whose pacer or drain has been started is not later than gen.
LEMMA StartedJob ==
    ASSUME IInv, NEW g \in Gens, pacer[g].pc # "idle" \/ drainer[g] # "idle"
    PROVE  g <= gen /\ gen \in Gens
BY DEF IInv, PacerInv, TypeOK, Gens

LEMMA NextIInv == IInv /\ [Next]_vars => IInv'
<1> SUFFICES ASSUME IInv, [Next]_vars PROVE IInv'
    OBVIOUS
<1>. USE DEF IInv
<1>1. ASSUME NEW in \in Inputs, NEW metaOK \in BOOLEAN, NEW reportOK \in BOOLEAN,
             Start(in, metaOK, reportOK)
      PROVE  IInv'
    <2> DEFINE g == gen + 1
    <2>1. in \in Seq(Commands) /\ g \in Gens /\ gen' = g
        BY <1>1, ReplayAssumption DEF Start, TypeOK, Gens
    <2>2. input' \in [Gens -> Seq(Commands)] /\ input'[g] = in
          /\ \A h \in Gens : h # g => input'[h] = input[h]
        BY <1>1, <2>1 DEF Start, TypeOK
    <2>3. /\ pacer' \in [Gens -> [pc : PacerPCs, pos : Nat]]
          /\ pacer'[g].pos = 0
          /\ pacer'[g].pc \in {"idle", "loop"}
          /\ \A h \in Gens : h # g => pacer'[h] = pacer[h]
        BY <1>1, <2>1 DEF Start, TypeOK, PacerInv, PacerPCs
    <2>4. /\ drainer' \in [Gens -> {"idle", "run", "done"}]
          /\ \A h \in Gens : h # g => drainer'[h] = drainer[h]
        BY <1>1, <2>1 DEF Start, TypeOK
    <2>5. metaCmds' \in Nat /\ progress' \in Fraction
        BY <1>1, <2>1 DEF Start, Zero, Fraction
    <2>6. TypeOK'
        BY <1>1, <2>1, <2>2, <2>3, <2>4, <2>5 DEF Start, TypeOK, Gens
    <2>7. PacerInv'
        <3> SUFFICES ASSUME NEW h \in Gens
                     PROVE  /\ pacer'[h].pos <= Len(input'[h])
                            /\ pacer'[h].pc \in {"wait", "exec"} => pacer'[h].pos >= 1
                            /\ h > gen' => pacer'[h] = [pc |-> "idle", pos |-> 0]
                                           /\ drainer'[h] = "idle"
            BY DEF PacerInv
        <3>1. CASE h = g
            <4>1. Len(input'[h]) \in Nat
                BY <2>1, <2>2, <3>1
            <4>2. QED
                BY <2>1, <2>3, <3>1, <4>1
        <3>2. CASE h # g
            <4>1. pacer'[h] = pacer[h] /\ drainer'[h] = drainer[h]
                  /\ input'[h] = input[h]
                BY <2>2, <2>3, <2>4, <3>2
            <4>2. h > gen' => h > gen
                BY <2>1 DEF TypeOK, Gens
            <4>3. QED
                BY <4>1, <4>2 DEF PacerInv
        <3>3. QED
            BY <3>1, <3>2
    <2>8. QED
        BY <2>6, <2>7
<1>2. ASSUME NEW g \in Gens, PacerCheck(g) PROVE IInv'
    <2> DEFINE p == IF canceled[g] THEN "done" ELSE "decode"
    <2>1. pacer' = [pacer EXCEPT ![g] = [pc |-> p, pos |-> pacer[g].pos]]
        BY <1>2, PcOnly DEF PacerCheck
    <2>2. /\ pacer' \in [Gens -> [pc : PacerPCs, pos : Nat]]
          /\ PacerInv'
        <3>1. p \in PacerPCs \ {"idle"} /\ p \notin {"wait", "exec"}
            BY DEF PacerPCs
        <3>2. pacer[g].pc # "idle" /\ pacer[g].pos \in Nat /\ pacer[g].pos <= Len(input[g])
            BY <1>2 DEF PacerCheck, TypeOK, PacerInv
        <3>3. UNCHANGED <<gen, input, drainer>>
            BY <1>2 DEF PacerCheck
        <3>4. QED
            BY <2>1, <3>1, <3>2, <3>3, PacerStep
    <2>3. QED
        BY <1>2, <2>2 DEF PacerCheck, TypeOK
<1>3. ASSUME NEW g \in Gens, PacerWake(g) PROVE IInv'
    <2> DEFINE p == IF canceled[g] THEN "done" ELSE "exec"
    <2>1. pacer' = [pacer EXCEPT ![g] = [pc |-> p, pos |-> pacer[g].pos]]
        BY <1>3, PcOnly DEF PacerWake
    <2>2. /\ pacer' \in [Gens -> [pc : PacerPCs, pos : Nat]]
          /\ PacerInv'
        <3>1. p \in PacerPCs \ {"idle"}
            BY DEF PacerPCs
        <3>2. /\ pacer[g].pc = "wait" /\ pacer[g].pos \in Nat
              /\ pacer[g].pos <= Len(input[g]) /\ pacer[g].pos >= 1
            BY <1>3 DEF PacerWake, TypeOK, PacerInv
        <3>3. UNCHANGED <<gen, input, drainer>>
            BY <1>3 DEF PacerWake
        <3>4. QED
            BY <2>1, <3>1, <3>2, <3>3, PacerStep
    <2>3. QED
        BY <1>3, <2>2 DEF PacerWake, TypeOK
<1>4. ASSUME NEW g \in Gens, PacerDecode(g) PROVE IInv'
    <2>1. /\ pacer[g].pc = "decode" /\ pacer[g].pos \in Nat
          /\ pacer[g].pos <= Len(input[g])
          /\ UNCHANGED <<gen, input, drainer>>
        BY <1>4 DEF PacerDecode, TypeOK, PacerInv
    <2>2. CASE DecodeEOF(g) \/ DecodeError(g)
        <3>1. PICK e \in {NoErr} \cup Errs : Stop(e)
            BY <2>2 DEF DecodeEOF, DecodeError, Errs, NoErr
        <3>2. /\ running' \in BOOLEAN
              /\ canceled' \in [Gens -> BOOLEAN]
              /\ err' \in {NoErr} \cup Errs
              /\ progress' \in Fraction
              /\ outcome' \in [Gens -> {"pending", NoErr} \cup Errs]
            BY <3>1, StopTyped
        <3>3. pacer' = [pacer EXCEPT ![g] = [pc |-> "done", pos |-> pacer[g].pos]]
            <4>1. pacer' = [pacer EXCEPT ![g].pc = "done"]
                BY <2>2 DEF DecodeEOF, DecodeError
            <4>2. QED
                BY <4>1, PcOnly
        <3>4. /\ pacer' \in [Gens -> [pc : PacerPCs, pos : Nat]]
              /\ PacerInv'
            BY <2>1, <3>3, PacerStep DEF PacerPCs
        <3>5. UNCHANGED filteredCmds
            BY <2>2 DEF DecodeEOF, DecodeError
        <3>6. QED
            BY <1>4, <3>2, <3>4, <3>5 DEF PacerDecode, TypeOK
    <2>3. CASE DecodeChangeUser(g) \/ DecodeCommand(g)
        <3>1. PICK p \in {"loop", "wait"} :
                 /\ pacer' = [pacer EXCEPT ![g] = [pc |-> p, pos |-> pacer[g].pos + 1]]
                 /\ filteredCmds' \in Nat
                 /\ pacer[g].pos < Len(input[g])
                 /\ UNCHANGED <<running, canceled, err, progress, outcome>>
            BY <2>1, <2>3 DEF DecodeChangeUser, DecodeCommand, TypeOK
        <3>2. /\ pacer' \in [Gens -> [pc : PacerPCs, pos : Nat]]
              /\ PacerInv'
            <4>1. p \in PacerPCs \ {"idle"} /\ pacer[g].pos + 1 \in Nat
                  /\ pacer[g].pos + 1 <= Len(input[g]) /\ pacer[g].pos + 1 >= 1
                BY <2>1, <3>1 DEF PacerPCs
            <4>2. QED
                BY <2>1, <3>1, <4>1, PacerStep
        <3>3. QED
            BY <1>4, <3>1, <3>2 DEF PacerDecode, TypeOK
    <2>4. QED
        BY <1>4, <2>2, <2>3 DEF PacerDecode
<1>5. ASSUME NEW g \in Gens, PacerExec(g) PROVE IInv'
    <2>1. /\ pacer[g].pc = "exec" /\ pacer[g].pos \in 1..Len(input[g])
          /\ UNCHANGED <<gen, input, drainer>>
        BY <1>5 DEF PacerExec, PacerInv, TypeOK
    <2>2. g <= gen /\ gen \in Gens
        BY <2>1, StartedJob
    <2>3. input[g][pacer[g].pos].conn \in ConnIDs
        <3>1. input[g] \in Seq(Commands)
            BY DEF TypeOK
        <3>2. input[g][pacer[g].pos] \in Commands
            BY <2>1, <3>1
        <3>3. QED
            BY <3>2 DEF Commands
    <2>4. pacer' = [pacer EXCEPT ![g] = [pc |-> "loop", pos |-> pacer[g].pos]]
        BY <1>5, PcOnly DEF PacerExec
    <2>5. /\ pacer' \in [Gens -> [pc : PacerPCs, pos : Nat]]
          /\ PacerInv'
        <3>1. "loop" \in PacerPCs \ {"idle"} /\ pacer[g].pos \in Nat
              /\ pacer[g].pos <= Len(input[g]) /\ pacer[g].pc # "idle"
            BY <2>1 DEF PacerPCs
        <3>2. QED
            BY <2>1, <2>4, <3>1, PacerStep
    <2>6. /\ conns' \in [ConnIDs -> {"absent", "active", "closed"}]
          /\ connCount' \in Int
          /\ workers' \subseteq Workers
          /\ opened' \in [ConnIDs -> Nat]
        <3> DEFINE c == input[g][pacer[g].pos].conn
        <3>1. ExecuteCmd(c, g)
            BY <1>5 DEF PacerExec
        <3>2. [conn |-> c, ch |-> gen, ctx |-> g] \in Workers
            BY <2>2, <2>3 DEF Workers
        <3>3. CASE conns[c] = "absent"
            <4>1. /\ conns' = [conns EXCEPT ![c] = "active"]
                  /\ connCount' = connCount + 1
                  /\ workers' = workers \cup {[conn |-> c, ch |-> gen, ctx |-> g]}
                  /\ opened' = [opened EXCEPT ![c] = @ + 1]
                BY <3>1, <3>3 DEF ExecuteCmd
            <4>2. QED
                BY <2>3, <3>2, <4>1 DEF TypeOK
        <3>4. CASE conns[c] # "absent"
            BY <3>1, <3>4 DEF ExecuteCmd, TypeOK
        <3>5. QED
            BY <3>3, <3>4
    <2>7. QED
        BY <1>5, <2>5, <2>6 DEF PacerExec, TypeOK
<1>6. ASSUME NEW g \in Gens, DrainExit(g) PROVE IInv'
    <2>1. g <= gen
        BY <1>6, StartedJob DEF DrainExit
    <2>2. QED
        BY <1>6, <2>1 DEF DrainExit, TypeOK, PacerInv
<1>7. ASSUME NEW g \in Gens, DrainRecv(g) PROVE IInv'
    <2>1. gen \in Gens
        BY <1>7, StartedJob DEF DrainRecv
    <2>2. Head(closeCh[gen]) \in ConnIDs /\ Tail(closeCh[gen]) \in Seq(ConnIDs)
        BY <1>7, <2>1 DEF DrainRecv, TypeOK
    <2>3. closeCh' \in [Gens -> Seq(ConnIDs)]
        BY <1>7, <2>1, <2>2 DEF DrainRecv, TypeOK
    <2>4. conns' \in [ConnIDs -> {"absent", "active", "closed"}] /\ connCount' \in Int
        <3> DEFINE c == Head(closeCh[gen])
        <3>1. OnClose(c)
            BY <1>7 DEF DrainRecv
        <3>2. CASE conns[c] = "active"
            <4>1. conns' = [conns EXCEPT ![c] = "closed"] /\ connCount' = connCount - 1
                BY <3>1, <3>2 DEF OnClose
            <4>2. QED
                BY <2>2, <4>1 DEF TypeOK
        <3>3. CASE conns[c] # "active"
            BY <3>1, <3>3 DEF OnClose, TypeOK
        <3>4. QED
            BY <3>2, <3>3
    <2>5. QED
        BY <1>7, <2>3, <2>4 DEF DrainRecv, TypeOK, PacerInv
<1>8. ASSUME NEW w \in workers, WorkerClose(w) PROVE IInv'
    BY <1>8 DEF WorkerClose, TypeOK, PacerInv, Workers
<1>9. CASE ManualStop
    BY <1>9, StopTyped DEF ManualStop, TypeOK, PacerInv, Errs
<1>10. CASE ProgressQuery
    BY <1>10 DEF ProgressQuery, Ratio, TypeOK, PacerInv, Fraction
<1>11. CASE Close
    BY <1>11, StopTyped DEF Close, TypeOK, PacerInv, Errs
<1>12. CASE CloseDone
    BY <1>12 DEF CloseDone, TypeOK, PacerInv
<1>13. CASE UNCHANGED vars
    BY <1>13 DEF vars, TypeOK, PacerInv
<1>14. QED
    BY <1>1, <1>2, <1>3, <1>4, <1>5, <1>6, <1>7, <1>8, <1>9, <1>10, <1>11,
       <1>12, <1>13 DEF Next

\* Every reachable state of the replay engine is well typed, for any number
\* of jobs, connection IDs and inputs.
THEOREM TypeCorrect == Spec => []TypeOK
<1>1. Init => IInv
    BY InitIInv
<1>2. IInv /\ [Next]_vars => IInv'
    BY NextIInv
<1>3. IInv => TypeOK
    BY DEF IInv
<1>4. QED
    BY <1>1, <1>2, <1>3, PTL DEF Spec

-----------------------------------------------------------------------------
(* One backend connection per ConnID and job.  AtMostOneSession is not     *)
(* inductive: a ConnID whose entry is a tombstone must be known to have    *)
(* been opened exactly once.  The strengthening ties the history variable  *)
(* opened to the conns map that executeCmd and readCloseCh keep.           *)

SessionInv == \A c \in ConnIDs : opened[c] = IF conns[c] = "absent" THEN 0 ELSE 1

SInv == TypeOK /\ SessionInv

LEMMA InitSInv == Init => SInv
<1> SUFFICES ASSUME Init PROVE SInv
    OBVIOUS
<1>1. TypeOK
    BY InitIInv DEF IInv
<1>2. SessionInv
    BY DEF Init, SessionInv
<1>3. QED
    BY <1>1, <1>2 DEF SInv

\* Only Start, executeCmd and the close event change conns or opened.
LEMMA NextSessionInv == IInv /\ SessionInv /\ [Next]_vars => SessionInv'
<1> SUFFICES ASSUME IInv, SessionInv, [Next]_vars PROVE SessionInv'
    OBVIOUS
<1>1. ASSUME NEW in \in Inputs, NEW metaOK \in BOOLEAN, NEW reportOK \in BOOLEAN,
             Start(in, metaOK, reportOK)
      PROVE  SessionInv'
    BY <1>1 DEF Start, SessionInv
<1>2. ASSUME NEW g \in Gens, PacerExec(g) PROVE SessionInv'
    <2> DEFINE c == input[g][pacer[g].pos].conn
    <2>1. c \in ConnIDs
        <3>1. pacer[g].pos \in 1..Len(input[g]) /\ input[g] \in Seq(Commands)
            BY <1>2 DEF PacerExec, IInv, PacerInv, TypeOK
        <3>2. input[g][pacer[g].pos] \in Commands
            BY <3>1
        <3>3. QED
            BY <3>2 DEF Commands
    <2>2. ExecuteCmd(c, g)
        BY <1>2 DEF PacerExec
    <2>3. CASE conns[c] = "absent"
        BY <2>1, <2>2, <2>3 DEF ExecuteCmd, SessionInv, IInv, TypeOK
    <2>4. CASE conns[c] # "absent"
        BY <2>2, <2>4 DEF ExecuteCmd, SessionInv
    <2>5. QED
        BY <2>3, <2>4
<1>3. ASSUME NEW g \in Gens, DrainRecv(g) PROVE SessionInv'
    <2> DEFINE c == Head(closeCh[gen])
    <2>1. OnClose(c) /\ UNCHANGED opened
        BY <1>3 DEF DrainRecv
    <2>2. CASE conns[c] = "active"
        BY <2>1, <2>2 DEF OnClose, SessionInv, IInv, TypeOK
    <2>3. CASE conns[c] # "active"
        BY <2>1, <2>3 DEF OnClose, SessionInv
    <2>4. QED
        BY <2>2, <2>3
<1>4. ASSUME NEW g \in Gens,
             PacerCheck(g) \/ PacerDecode(g) \/ PacerWake(g) \/ DrainExit(g)
      PROVE  SessionInv'
    BY <1>4 DEF PacerCheck, PacerDecode, PacerWake, DrainExit, SessionInv
<1>5. ASSUME NEW w \in workers, WorkerClose(w) PROVE SessionInv'
    BY <1>5 DEF WorkerClose, SessionInv
<1>6. CASE ManualStop \/ ProgressQuery \/ Close \/ CloseDone \/ UNCHANGED vars
    BY <1>6 DEF ManualStop, ProgressQuery, Close, CloseDone, vars, SessionInv
<1>7. QED
    BY <1>1, <1>2, <1>3, <1>4, <1>5, <1>6 DEF Next

\* Within a job, executeCmd never opens a second backend connection for a
\* ConnID: the nil tombstone that readCloseCh leaves in r.conns keeps a
\* closed ConnID from being reconnected (replay.go executeCmd, readCloseCh).
THEOREM OneSessionPerConn == Spec => []AtMostOneSession
<1>1. Init => IInv /\ SessionInv
    BY InitIInv, InitSInv DEF SInv
<1>2. IInv /\ SessionInv /\ [Next]_vars => IInv' /\ SessionInv'
    BY NextIInv, NextSessionInv
<1>3. SessionInv => AtMostOneSession
    BY DEF SessionInv, AtMostOneSession
<1>4. QED
    BY <1>1, <1>2, <1>3, PTL DEF Spec
=============================================================================
