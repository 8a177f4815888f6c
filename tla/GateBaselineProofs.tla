-------------------------- MODULE GateBaselineProofs --------------------------
(***************************************************************************)
(* Proofs about GateBaseline, for any translations, contents, number of    *)
(* workers, runs, changes and kills.                                       *)
(***************************************************************************)
EXTENDS GateBaseline, FiniteSetTheorems, TLAPS

\* Points of main() before a guest runs, and points at which the hashes of
\* the scope exist.
Unstarted == {"idle", "exited", "stages", "select", "seeded"}
Busy == {"select", "seeded", "running", "raising", "report"}

\* What the driver's locals hold at each point, as far as types need it.
Control ==
  /\ pc \in Unstarted => work = {} /\ active = {}
  /\ ~InRun => hashes = NoInputs
  /\ active \subseteq work /\ work \subseteq args.scope
  /\ pc \in Busy => \A n \in args.scope : hashes[n] \in Input
  /\ \A n \in active : hashes[n] \in Input /\ loaded[n] \in Input
  /\ nightly = NoRows \/ nightly \in [Names -> Row]
  /\ (InRun /\ args.reseed # "no") => nightly \in [Names -> Row]

TypeInv == TypeOK /\ Control

\* The verdicts, and which of them are good.
LEMMA Constants ==
  /\ "PASS" \in Verdict /\ "NO-ORACLE" \in Verdict /\ "FAIL" \in Verdict
  /\ Good \subseteq Verdict
  /\ \A v \in Verdict : v \in Good \/ v = "FAIL"
BY DEF Verdict, Good

\* No status is not a status.
LEMMA StatusFacts == NoStatus # 0 /\ NoStatus # 1 /\ NoStatus # 2 /\ 0 # 1 /\ 1 # 2 /\ 0 # 2
BY DEF NoStatus

\* The objects of now are an input.
LEMMA CurrentInput == TypeOK => \A n \in Names : current(n) \in Input
BY DEF TypeOK, current, Input

\* The initial states.
LEMMA TypeInit == Init => TypeInv
<1> SUFFICES ASSUME Init PROVE TypeInv
  OBVIOUS
<1>1. NoArgs \in Args
  BY Zenon DEF NoArgs, Args
<1>2. NoRows \in Rows /\ NoInputs \in [Names -> Input \cup {NoInput}]
  BY DEF NoRows, Rows, NoInputs
<1>3. NoArgs.scope = {}
  BY DEF NoArgs
<1>4. /\ status \in {0, 1} /\ ret \in {NoStatus, 0, 2} /\ exit \in {NoStatus, 0, 1, 2}
      /\ runs \in 0 .. MaxRuns /\ edits \in 0 .. MaxEdits /\ kills \in 0 .. MaxKills
  BY BaselineAssumption DEF Init
<1>5. TypeOK
  BY Zenon, <1>1, <1>2, <1>4 DEF Init, TypeOK, PCs
<1>6. Control
  BY <1>3 DEF Init, Control, InRun, Busy, Unstarted
<1> QED
  BY <1>5, <1>6 DEF TypeInv

\* Every action keeps the types.
LEMMA TypeStep ==
  ASSUME TypeInv, [Next]_vars
  PROVE  TypeInv'
<1> USE BaselineAssumption, Constants, CurrentInput
<1>1. CASE Edit
  <2>1. rust' \in [Names -> Rusts] /\ c' \in [Names -> Cs] /\ env' \in Envs
    BY <1>1 DEF Edit, TypeInv, TypeOK
  <2>2. edits' \in 0 .. MaxEdits /\ UNCHANGED kills
    BY <1>1 DEF Edit, TypeInv, TypeOK
  <2>3. pc' = pc \/ (pc = "exited" /\ pc' = "idle")
    BY <1>1 DEF Edit
  <2>4. UNCHANGED <<file, nightly, args, runVars, exit, runs, historyVars>>
    BY <1>1 DEF Edit
  <2>5. TypeOK'
    BY <2>1, <2>2, <2>3, <2>4 DEF TypeInv, TypeOK, PCs, runVars, historyVars
  <2>6. Control'
    BY <2>3, <2>4 DEF TypeInv, Control, InRun, Busy, Unstarted, runVars
  <2> QED
    BY <2>5, <2>6 DEF TypeInv
<1>2. CASE Nightly
  BY <1>2 DEF Nightly, TypeInv, TypeOK, Control, InRun, PCs, Busy, Unstarted, Rows,
     Row, inputVars, runVars
<1>3. CASE Start
  <2>3. args' \in Args /\ unclean' \in BOOLEAN /\ pc' \in PCs
    BY Zenon, <1>3 DEF Start, PCs
  <2>4. runs' \in 0 .. MaxRuns /\ exit' \in {NoStatus, 0, 1, 2}
    BY <1>3 DEF Start, TypeInv, TypeOK
  <2>5. learned' \in Rows /\ baseline' \in Rows
    BY <1>3 DEF Start, TypeInv, TypeOK, Rows, NoRows
  <2>1. TypeOK'
    BY Zenon, <1>3, <2>3, <2>4, <2>5 DEF Start, TypeInv, TypeOK, inputVars
  <2>2. args.reseed' # "no" => nightly \in [Names -> Row]
    BY <1>3 DEF Start, TypeInv, Control
  <2> QED
    BY <1>3, <2>1, <2>2 DEF Start, TypeInv, Control, InRun, Busy, Unstarted, inputVars
<1>4. CASE Interrupt
  BY <1>4 DEF Interrupt, TypeInv, TypeOK, Control, InRun, PCs, Busy, Unstarted,
     inputVars, historyVars
<1>5. CASE Kill
  BY <1>5 DEF Kill, LocalsDie, TypeInv, TypeOK, Control, PCs, Busy, Unstarted, Rows,
     Row, NoRows, NoInputs, historyVars
<1>6. CASE StageFails
  BY <1>6 DEF StageFails, TypeInv, TypeOK, Control, InRun, PCs, Busy, Unstarted,
     inputVars, historyVars
<1>7. CASE Hash
  BY <1>7 DEF Hash, TypeInv, TypeOK, Control, InRun, PCs, Busy, Unstarted, NoStatus,
     Args, inputVars, historyVars
<1>8. CASE Reseed
  BY <1>8 DEF Reseed, TypeInv, TypeOK, Control, InRun, PCs, Busy, Unstarted, Rows,
     Row, inputVars, historyVars
<1>9. CASE Seeded
  BY <1>9 DEF Seeded, TypeInv, TypeOK, Control, InRun, PCs, Busy, Unstarted,
     inputVars, historyVars
<1>10. CASE RefuseEnv
  BY <1>10 DEF RefuseEnv, TypeInv, TypeOK, Control, InRun, PCs, Busy, Unstarted,
     inputVars, historyVars
<1>11. CASE Select
  <2>1. work' \subseteq args.scope /\ alarms' \subseteq args.scope
    BY <1>11 DEF Select
  <2>2. args.scope \subseteq Names
    BY DEF TypeInv, TypeOK, Args
  <2>3. pc' \in {"report", "running"}
    BY <1>11 DEF Select
  <2>4. TypeOK'
    BY <1>11, <2>1, <2>2, <2>3 DEF Select, TypeInv, TypeOK, PCs, inputVars, historyVars
  <2>5. active = {}
    BY <1>11 DEF Select, TypeInv, Control, Unstarted
  <2> QED
    BY <1>11, <2>1, <2>3, <2>4, <2>5 DEF Select, TypeInv, Control, InRun, Busy,
       Unstarted, inputVars
<1>12. CASE AllRan
  BY <1>12 DEF AllRan, TypeInv, TypeOK, Control, InRun, PCs, Busy, inputVars,
     runVars, historyVars
<1>13. CASE RunRaises
  BY <1>13 DEF RunRaises, TypeInv, TypeOK, Control, InRun, PCs, Busy, Unstarted,
     inputVars, historyVars
<1>14. CASE WorkersEnd
  BY <1>14 DEF WorkersEnd, TypeInv, TypeOK, Control, InRun, PCs, Busy, Unstarted,
     inputVars, runVars, historyVars
<1>15. CASE Report
  BY <1>15 DEF Report, TypeInv, TypeOK, Control, InRun, PCs, Busy, Unstarted,
     inputVars, historyVars
<1>16. CASE Cleanup
  BY <1>16 DEF Cleanup, LocalsDie, TypeInv, TypeOK, Control, InRun, PCs, Busy,
     Unstarted, Rows, Row, NoRows, NoInputs, inputVars
<1>17. ASSUME NEW n \in Names, Take(n) PROVE TypeInv'
  BY <1>17 DEF Take, TypeInv, TypeOK, Control, InRun, PCs, Busy, inputVars, historyVars
<1>18. ASSUME NEW n \in Names, Finish(n) PROVE TypeInv'
  BY <1>18 DEF Finish, record, TypeInv, TypeOK, Control, InRun, PCs, Busy,
     Unstarted, Rows, Row, inputVars
<1>19. ASSUME NEW n \in Names, WorkerRaises(n) PROVE TypeInv'
  BY <1>19 DEF WorkerRaises, TypeInv, TypeOK, Control, InRun, PCs, Busy, Unstarted,
     inputVars, historyVars
<1>20. ASSUME NEW n \in Names, FinishKilled(n) PROVE TypeInv'
  BY <1>20 DEF FinishKilled, record, TypeInv, TypeOK, Control, InRun, PCs, Busy,
     Unstarted, Rows, Row, inputVars
<1>21. ASSUME NEW n \in Names, DropPrepared(n) PROVE TypeInv'
  BY <1>21 DEF DropPrepared, TypeInv, TypeOK, Control, InRun, PCs, Busy, inputVars,
     historyVars
<1>22. CASE UNCHANGED vars
  BY <1>22 DEF vars, TypeInv, TypeOK, Control, InRun, PCs, Busy, inputVars, runVars,
     historyVars
<1> QED
  BY <1>1, <1>2, <1>3, <1>4, <1>5, <1>6, <1>7, <1>8, <1>9, <1>10, <1>11, <1>12,
     <1>13, <1>14, <1>15, <1>16, <1>17, <1>18, <1>19, <1>20, <1>21, <1>22 DEF Next,
     RunNext

\* The type invariant of gate.py's rows, hashes and locals, for any
\* translations, workers, runs, changes and kills.
THEOREM BaselineTypes == Spec => []TypeOK
<1>1. TypeInv => TypeOK
  BY DEF TypeInv
<1> QED
  BY <1>1, TypeInit, TypeStep, PTL DEF Spec

\* Before anything ran nothing was learned, and the driver's copy of the
\* rows is what the file holds.
Copy ==
  /\ InRun => baseline = file
  /\ pc \in {"stages", "select"} => learned = NoRows
  /\ KeepsWhatItLearned

\* Only record() and reseed change the file, and they copy the driver's rows.
LEMMA CopyStep ==
  ASSUME TypeInv, Copy, [Next]_vars
  PROVE  Copy'
<1>1. CASE Edit
  BY <1>1 DEF Edit, TypeInv, Copy, InRun, KeepsWhatItLearned, runVars, historyVars
<1>2. CASE Nightly
  BY <1>2 DEF Nightly, TypeInv, Copy, InRun, KeepsWhatItLearned, inputVars, runVars
<1>3. CASE Start
  BY <1>3 DEF Start, TypeInv, NoRows, Copy, InRun, KeepsWhatItLearned, inputVars
<1>4. CASE Interrupt
  BY <1>4 DEF Interrupt, TypeInv, Copy, InRun, KeepsWhatItLearned, inputVars,
     historyVars
<1>5. CASE Kill
  BY <1>5 DEF Kill, TypeInv, Copy, InRun, KeepsWhatItLearned, historyVars
<1>6. CASE StageFails
  BY <1>6 DEF StageFails, TypeInv, Copy, InRun, KeepsWhatItLearned, inputVars,
     historyVars
<1>7. CASE Hash
  BY <1>7 DEF Hash, TypeInv, Copy, InRun, KeepsWhatItLearned, inputVars, historyVars
<1>8. CASE Reseed
  BY <1>8 DEF Reseed, TypeInv, NoRows, Copy, InRun, KeepsWhatItLearned, inputVars,
     historyVars
<1>9. CASE Seeded
  BY <1>9 DEF Seeded, TypeInv, Copy, InRun, KeepsWhatItLearned, inputVars, historyVars
<1>10. CASE RefuseEnv
  BY <1>10 DEF RefuseEnv, TypeInv, Copy, InRun, KeepsWhatItLearned, inputVars,
     historyVars
<1>11. CASE Select
  BY <1>11 DEF Select, TypeInv, Copy, InRun, KeepsWhatItLearned, inputVars, historyVars
<1>12. CASE AllRan
  BY <1>12 DEF AllRan, TypeInv, Copy, InRun, KeepsWhatItLearned, inputVars, runVars,
     historyVars
<1>13. CASE RunRaises
  BY <1>13 DEF RunRaises, TypeInv, Copy, InRun, KeepsWhatItLearned, inputVars,
     historyVars
<1>14. CASE WorkersEnd
  BY <1>14 DEF WorkersEnd, TypeInv, Copy, InRun, KeepsWhatItLearned, inputVars,
     runVars, historyVars
<1>15. CASE Report
  BY <1>15 DEF Report, TypeInv, Copy, InRun, KeepsWhatItLearned, inputVars, historyVars
<1>16. CASE Cleanup
  BY <1>16 DEF Cleanup, TypeInv, Copy, InRun, KeepsWhatItLearned, inputVars
<1>17. ASSUME NEW n \in Names, Take(n) PROVE Copy'
  BY <1>17 DEF Take, TypeInv, Copy, InRun, KeepsWhatItLearned, inputVars, historyVars
<1>18. ASSUME NEW n \in Names, Finish(n) PROVE Copy'
  <2>1. PICK v \in Verdict : record(n, v)
    BY <1>18 DEF Finish
  <2> QED
    BY <1>18, <2>1 DEF Finish, record, TypeInv, TypeOK, Rows, Copy, InRun,
       KeepsWhatItLearned, Control
<1>19. ASSUME NEW n \in Names, WorkerRaises(n) PROVE Copy'
  BY <1>19 DEF WorkerRaises, TypeInv, Copy, InRun, KeepsWhatItLearned, inputVars,
     historyVars
<1>20. ASSUME NEW n \in Names, FinishKilled(n) PROVE Copy'
  BY <1>20 DEF FinishKilled, record, TypeInv, TypeOK, Rows, Copy, InRun,
     KeepsWhatItLearned, inputVars
<1>21. ASSUME NEW n \in Names, DropPrepared(n) PROVE Copy'
  BY <1>21 DEF DropPrepared, TypeInv, Copy, InRun, KeepsWhatItLearned, inputVars,
     historyVars
<1>22. CASE UNCHANGED vars
  BY <1>22 DEF vars, TypeInv, Copy, InRun, KeepsWhatItLearned, inputVars, runVars,
     historyVars
<1> QED
  BY <1>1, <1>2, <1>3, <1>4, <1>5, <1>6, <1>7, <1>8, <1>9, <1>10, <1>11, <1>12,
     <1>13, <1>14, <1>15, <1>16, <1>17, <1>18, <1>19, <1>20, <1>21, <1>22 DEF Next,
     RunNext

\* "an interrupted run keeps what it learned": for any number of runs,
\* workers, interrupts and kills, a recorded row is in the file.
THEOREM RowsAreKept == Spec => []KeepsWhatItLearned
<1>1. Init => Copy
  BY DEF Init, Copy, InRun, NoRows, KeepsWhatItLearned
<1>2. TypeInv /\ Copy /\ [Next]_vars => (TypeInv /\ Copy)'
  BY TypeStep, CopyStep
<1>3. Copy => KeepsWhatItLearned
  BY DEF Copy
<1> QED
  BY <1>1, <1>2, <1>3, TypeInit, PTL DEF Spec

-----------------------------------------------------------------------------
(***************************************************************************)
(* What the rows of the baseline and exit 0 rest on, when objects are not  *)
(* rebuilt under a run and no summary.json is taken on trust.              *)
(***************************************************************************)

\* The hashes are about the objects of now, a nightly's record and the
\* rows rest on guest runs.
Evidence ==
  /\ \A n \in Names : hashes[n] = NoInput \/ hashes[n] = current(n)
  /\ pc \in Busy => \A n \in args.scope : hashes[n] = current(n)
  /\ \A n \in active : hashes[n] = current(n) /\ loaded[n] = current(n)
  /\ args.reseed # "json"
  /\ \A n \in Names : nightly[n].verdict \in Good =>
       <<n, nightly[n].in, nightly[n].verdict>> \in seen
  /\ GoodRowsSeen

\* What record() does to the rows while the objects stay as they are.
LEMMA RecordRow ==
  ASSUME TypeInv, Copy, Evidence, InRun, NEW n \in active, NEW v \in Verdict, record(n, v)
  PROVE  /\ file' = [file EXCEPT ![n] = [in |-> current(n), verdict |-> v]]
         /\ active' = active \ {n} /\ work' = work \ {n}
         /\ n \in Names
BY DEF record, TypeInv, TypeOK, Copy, Evidence, InRun

\* A row is written from a run of the hashed objects or from a nightly's row.
LEMMA EvidenceStep ==
  ASSUME ~EditsDuringRun, ~TrustSummary, TypeInv, Copy, Evidence, [Next]_vars
  PROVE  Evidence'
<1>1. CASE Edit
  BY <1>1 DEF Edit, TypeInv, Control, NoInputs, Copy, Evidence, InRun, GoodRowsSeen,
     current, Busy, Unstarted, runVars, historyVars
<1>2. CASE Nightly
  <2>1. PICK v \in [Names -> Verdict] :
           /\ nightly' = [n \in Names |-> [in |-> current(n), verdict |-> v[n]]]
           /\ seen' = seen \cup {<<n, current(n), v[n]>> : n \in {m \in Names : v[m] \in Good}}
    BY <1>2 DEF Nightly
  <2>2. /\ ~InRun /\ pc' = "idle"
        /\ UNCHANGED <<rust, c, env, file, args, hashes, active, loaded>>
    BY <1>2 DEF Nightly, inputVars, runVars
  <2>3. \A n \in Names : nightly'[n].verdict \in Good =>
          <<n, nightly'[n].in, nightly'[n].verdict>> \in seen'
    BY <2>1
  <2>4. GoodRowsSeen'
    BY <2>1, <2>2 DEF Evidence, GoodRowsSeen
  <2> QED
    BY <2>2, <2>3, <2>4 DEF Evidence, InRun, Busy, current
<1>3. CASE Start
  BY <1>3 DEF Start, TypeInv, Copy, Evidence, InRun, GoodRowsSeen, current, Busy,
     inputVars
<1>4. CASE Interrupt
  BY <1>4 DEF Interrupt, TypeInv, Copy, Evidence, InRun, GoodRowsSeen, current,
     Busy, inputVars, historyVars
<1>5. CASE Kill
  BY <1>5 DEF Kill, LocalsDie, TypeInv, Control, NoRows, NoInputs, Copy, Evidence,
     InRun, GoodRowsSeen, current, Busy, Unstarted, historyVars
<1>6. CASE StageFails
  BY <1>6 DEF StageFails, TypeInv, Copy, Evidence, InRun, GoodRowsSeen, current,
     Busy, inputVars, historyVars
<1>7. CASE Hash
  BY <1>7 DEF Hash, TypeInv, TypeOK, Control, Copy, Evidence, InRun, GoodRowsSeen,
     current, Args, Busy, Unstarted, inputVars, historyVars
<1>8. CASE Reseed
  BY <1>8 DEF Reseed, Accepted, TypeInv, TypeOK, Control, Copy, Evidence, InRun,
     GoodRowsSeen, current, Args, Busy, Unstarted, inputVars, historyVars
<1>9. CASE Seeded
  BY <1>9 DEF Seeded, TypeInv, Copy, Evidence, InRun, GoodRowsSeen, current, Busy,
     inputVars, historyVars
<1>10. CASE RefuseEnv
  BY <1>10 DEF RefuseEnv, TypeInv, Control, Copy, Evidence, InRun, GoodRowsSeen,
     current, Busy, inputVars, historyVars
<1>11. CASE Select
  BY <1>11 DEF Select, TypeInv, TypeOK, Control, Copy, Evidence, InRun,
     GoodRowsSeen, current, Busy, inputVars, historyVars
<1>12. CASE AllRan
  BY <1>12 DEF AllRan, TypeInv, Control, Copy, Evidence, InRun, GoodRowsSeen,
     current, Busy, inputVars, runVars, historyVars
<1>13. CASE RunRaises
  BY <1>13 DEF RunRaises, TypeInv, Control, Copy, Evidence, InRun, GoodRowsSeen,
     current, Busy, inputVars, historyVars
<1>14. CASE WorkersEnd
  BY <1>14 DEF WorkersEnd, TypeInv, Control, Copy, Evidence, InRun, GoodRowsSeen,
     current, Busy, inputVars, runVars, historyVars
<1>15. CASE Report
  BY <1>15 DEF Report, TypeInv, Control, Copy, Evidence, InRun, GoodRowsSeen,
     current, Busy, inputVars, historyVars
<1>16. CASE Cleanup
  BY <1>16 DEF Cleanup, LocalsDie, TypeInv, TypeOK, Control, NoRows, NoInputs, Copy,
     Evidence, InRun, GoodRowsSeen, current, Busy, Unstarted, inputVars
<1>17. ASSUME NEW n \in Names, Take(n) PROVE Evidence'
  BY <1>17 DEF Take, TypeInv, TypeOK, Control, Copy, Evidence, InRun, GoodRowsSeen,
     current, Busy, inputVars, historyVars
<1>18. ASSUME NEW n \in Names, Finish(n) PROVE Evidence'
  <2> DEFINE row(v) == [in |-> current(n), verdict |-> v]
  <2>1. InRun /\ n \in active
    BY <1>18 DEF Finish, InRun
  <2>2. PICK v \in Verdict : /\ record(n, v)
           /\ seen' = IF v \in Good THEN seen \cup {<<n, loaded[n], v>>} ELSE seen
    BY <1>18, Constants DEF Finish
  <2>3. file' = [file EXCEPT ![n] = row(v)] /\ active' = active \ {n}
    BY <2>1, <2>2, RecordRow
  <2>4. UNCHANGED <<rust, c, env, nightly, pc, args, hashes, loaded>>
    BY <1>18 DEF Finish, inputVars
  <2>5. \A m \in Names : current(m)' = current(m)
    BY <2>4 DEF current
  <2>6. seen \subseteq seen' /\ (v \in Good => <<n, current(n), v>> \in seen')
    BY <1>18, <2>1, <2>2, Constants DEF Finish, Evidence, Good
  <2>7. GoodRowsSeen'
    <3> SUFFICES ASSUME NEW m \in Names, file'[m].verdict \in Good
                 PROVE  <<m, file'[m].in, file'[m].verdict>> \in seen'
      BY DEF GoodRowsSeen
    <3>1. CASE m = n
      BY <2>3, <2>6, <3>1 DEF TypeInv, TypeOK, Rows
    <3>2. CASE m # n
      BY <2>3, <2>6, <3>2 DEF TypeInv, TypeOK, Rows, Evidence, GoodRowsSeen
    <3> QED
      BY <3>1, <3>2
  <2>8. /\ \A m \in Names : hashes'[m] = NoInput \/ hashes'[m] = current(m)'
        /\ pc' \in Busy => \A m \in args'.scope : hashes'[m] = current(m)'
        /\ \A m \in active' : hashes'[m] = current(m)' /\ loaded'[m] = current(m)'
    BY <2>3, <2>4, <2>5 DEF Evidence, TypeInv, TypeOK, Control, Args
  <2> QED
    BY <2>4, <2>6, <2>7, <2>8 DEF Evidence
<1>19. ASSUME NEW n \in Names, WorkerRaises(n) PROVE Evidence'
  BY <1>19 DEF WorkerRaises, TypeInv, Control, Copy, Evidence, InRun, GoodRowsSeen,
     current, Busy, inputVars, historyVars
<1>20. ASSUME NEW n \in Names, FinishKilled(n) PROVE Evidence'
  <2> DEFINE row(v) == [in |-> current(n), verdict |-> v]
  <2>1. InRun /\ n \in active
    BY <1>20 DEF FinishKilled, InRun
  <2>2. PICK v \in {"FAIL"} : record(n, v)
    BY <1>20, Constants DEF FinishKilled
  <2>3. file' = [file EXCEPT ![n] = row(v)] /\ active' = active \ {n}
    BY <2>1, <2>2, Constants, RecordRow
  <2>4. UNCHANGED <<rust, c, env, nightly, pc, args, hashes, loaded>>
    BY <1>20 DEF FinishKilled, inputVars
  <2>5. \A m \in Names : current(m)' = current(m)
    BY <2>4 DEF current
  <2>6. seen \subseteq seen' /\ (v \in Good => <<n, current(n), v>> \in seen')
    BY <1>20, <2>1, <2>2, Constants DEF FinishKilled, Evidence, Good
  <2>7. GoodRowsSeen'
    <3> SUFFICES ASSUME NEW m \in Names, file'[m].verdict \in Good
                 PROVE  <<m, file'[m].in, file'[m].verdict>> \in seen'
      BY DEF GoodRowsSeen
    <3>1. CASE m = n
      BY <2>3, <2>6, <3>1 DEF TypeInv, TypeOK, Rows
    <3>2. CASE m # n
      BY <2>3, <2>6, <3>2 DEF TypeInv, TypeOK, Rows, Evidence, GoodRowsSeen
    <3> QED
      BY <3>1, <3>2
  <2>8. /\ \A m \in Names : hashes'[m] = NoInput \/ hashes'[m] = current(m)'
        /\ pc' \in Busy => \A m \in args'.scope : hashes'[m] = current(m)'
        /\ \A m \in active' : hashes'[m] = current(m)' /\ loaded'[m] = current(m)'
    BY <2>3, <2>4, <2>5 DEF Evidence, TypeInv, TypeOK, Control, Args
  <2> QED
    BY <2>4, <2>6, <2>7, <2>8 DEF Evidence
<1>21. ASSUME NEW n \in Names, DropPrepared(n) PROVE Evidence'
  BY <1>21 DEF DropPrepared, TypeInv, Control, Copy, Evidence, InRun, GoodRowsSeen,
     current, Busy, inputVars, historyVars
<1>22. CASE UNCHANGED vars
  BY <1>22 DEF vars, TypeInv, Control, Copy, Evidence, InRun, GoodRowsSeen, current,
     Busy, inputVars, runVars, historyVars
<1> QED
  BY <1>1, <1>2, <1>3, <1>4, <1>5, <1>6, <1>7, <1>8, <1>9, <1>10, <1>11, <1>12,
     <1>13, <1>14, <1>15, <1>16, <1>17, <1>18, <1>19, <1>20, <1>21, <1>22 DEF Next,
     RunNext

\* How the exit status comes about: every name of the scope is still in
\* the queue or has a row about its objects of now, and a FAIL among those
\* rows is an alarm.
Answers(n) == file[n] # NoRow /\ file[n].in = current(n)

Exits ==
  /\ pc # "cleanup" => ret = NoStatus
  /\ pc \notin {"cancelled", "cleanup"} => status = 0
  /\ pc = "cancelled" => status = 1
  /\ pc \in {"running", "report"} =>
       \A n \in args.scope \ work :
          Answers(n) /\ (file[n].verdict = "FAIL" => n \in alarms)
  /\ pc = "report" => work = {}
  /\ (pc \in {"seeded", "cleanup"} /\ (pc = "seeded" \/ ret = 0)) => args.reseed # "no"
  /\ (pc = "cleanup" /\ ret = NoStatus /\ status = 0) =>
       \A n \in args.scope : Answers(n) /\ file[n].verdict # "FAIL"
  /\ ExitZeroMeans

\* A row is told from no row by its verdict.
LEMMA RowIsNotNoRow == \A x, v : v \in Verdict => [in |-> x, verdict |-> v] # NoRow
BY DEF NoRow, Verdict

\* Exit 0 is only reached through Report with no alarm.
LEMMA ExitsStep ==
  ASSUME ~EditsDuringRun, ~TrustSummary, TypeInv, Copy, Evidence, Exits, [Next]_vars
  PROVE  Exits'
<1> USE StatusFacts
<1>1. CASE Edit
  BY <1>1 DEF Edit, Exits, ExitZeroMeans, InRun, runVars, historyVars
<1>2. CASE Nightly
  BY <1>2 DEF Nightly, Exits, ExitZeroMeans, InRun, runVars
<1>3. CASE Start
  BY <1>3 DEF Start, Exits, ExitZeroMeans, InRun
<1>4. CASE Interrupt
  BY <1>4 DEF Interrupt, Exits, ExitZeroMeans
<1>5. CASE Kill
  BY <1>5 DEF Kill, LocalsDie, Exits, ExitZeroMeans
<1>6. CASE StageFails
  BY <1>6 DEF StageFails, Exits, ExitZeroMeans
<1>7. CASE Hash
  BY <1>7 DEF Hash, Exits, ExitZeroMeans
<1>8. CASE Reseed
  BY <1>8 DEF Reseed, Exits, ExitZeroMeans
<1>9. CASE Seeded
  BY <1>9 DEF Seeded, Exits, ExitZeroMeans
<1>10. CASE RefuseEnv
  BY <1>10 DEF RefuseEnv, Exits, ExitZeroMeans
<1>11. CASE Select
  <2>1. file = baseline /\ ret = NoStatus /\ status = 0
    BY <1>11 DEF Select, Copy, InRun, Exits
  <2>2. \A n \in args.scope : hashes[n] = current(n)
    BY <1>11 DEF Select, Evidence, Busy
  <2>3. UNCHANGED <<rust, c, env, file, args, ret, status>>
    BY <1>11 DEF Select, inputVars
  <2>4. pc' \in {"running", "report"} /\ (pc' = "report" => work' = {})
    BY <1>11 DEF Select
  <2>5. ASSUME NEW n \in args.scope \ work'
        PROVE  Answers(n) /\ (file[n].verdict = "FAIL" => n \in alarms')
    BY <1>11, <2>1, <2>2 DEF Select, cached, Answers
  <2>6. \A n \in args.scope : Answers(n)' <=> Answers(n)
    BY <2>3 DEF Answers, current
  <2> QED
    BY <2>1, <2>3, <2>4, <2>5, <2>6 DEF Exits, ExitZeroMeans
<1>12. CASE AllRan
  BY <1>12 DEF AllRan, Exits, ExitZeroMeans, Answers, current, inputVars, runVars
<1>13. CASE RunRaises
  <2>1. pc = "raising" /\ pc' = "cleanup" /\ status' = 1 /\ UNCHANGED <<args, ret>>
    BY <1>13 DEF RunRaises
  <2>2. ret' = NoStatus
    BY <2>1 DEF Exits
  <2> QED
    BY <2>1, <2>2 DEF Exits, ExitZeroMeans
<1>14. CASE WorkersEnd
  BY <1>14 DEF WorkersEnd, Exits, ExitZeroMeans, runVars
<1>15. CASE Report
  <2>1. work = {} /\ ret = NoStatus
    BY <1>15 DEF Report, Exits
  <2>2. ASSUME alarms = {}
        PROVE  \A n \in args.scope : Answers(n) /\ file[n].verdict # "FAIL"
    BY <1>15, <2>1, <2>2 DEF Report, Exits
  <2>3. status' = 0 => alarms = {}
    BY <1>15 DEF Report
  <2>4. UNCHANGED <<rust, c, env, file, args, ret>> /\ pc' = "cleanup"
    BY <1>15 DEF Report, inputVars
  <2>5. \A n \in args.scope : Answers(n)' <=> Answers(n)
    BY <2>4 DEF Answers, current
  <2> QED
    BY <2>1, <2>2, <2>3, <2>4, <2>5 DEF Exits, ExitZeroMeans
<1>16. CASE Cleanup
  <2>1. UNCHANGED <<rust, c, env, file, args>> /\ pc' = "exited"
    BY <1>16 DEF Cleanup, inputVars
  <2>2. ret' = NoStatus /\ status' = 0
    BY <1>16 DEF Cleanup, LocalsDie
  <2>3. ASSUME exit' = 0, args.reseed = "no"
        PROVE  \A n \in args.scope : Answers(n) /\ file[n].verdict # "FAIL"
    <3>1. pc = "cleanup" /\ ret # 0
      BY <1>16, <2>3 DEF Cleanup, Exits
    <3>2. ret = NoStatus /\ status = 0
      BY <1>16, <2>3, <3>1 DEF Cleanup
    <3> QED
      BY <3>1, <3>2 DEF Exits
  <2>4. ASSUME exit' = 0, args.reseed = "no"
        PROVE  ~unclean'
    <3>1. PICK ok \in BOOLEAN :
            /\ unclean' = ~ok
            /\ exit' = IF ret # NoStatus THEN ret ELSE IF ok THEN status ELSE 1
      BY <1>16 DEF Cleanup
    <3>2. ret # 0
      BY <1>16, <2>4 DEF Cleanup, Exits
    <3>3. ok
      BY <2>4, <3>1, <3>2
    <3> QED
      BY <3>1, <3>3, Zenon
  <2>5. ExitZeroMeans'
    BY <2>1, <2>3, <2>4 DEF ExitZeroMeans, Answers, current
  <2> QED
    BY <2>1, <2>2, <2>5 DEF Exits
<1>17. ASSUME NEW n \in Names, Take(n) PROVE Exits'
  BY <1>17 DEF Take, Exits, ExitZeroMeans, Answers, current, inputVars
<1>18. ASSUME NEW n \in Names, Finish(n) PROVE Exits'
  <2>1. InRun /\ n \in active
    BY <1>18 DEF Finish, InRun
  <2>2. PICK v \in Verdict : record(n, v)
    BY <1>18, Constants DEF Finish
  <2>3. /\ file' = [file EXCEPT ![n] = [in |-> current(n), verdict |-> v]]
        /\ work' = work \ {n}
    BY <2>1, <2>2, Constants, RecordRow
  <2>4. UNCHANGED <<rust, c, env, pc, args, status, ret, exit>>
    BY <1>18 DEF Finish, inputVars
  <2>5. \A m \in Names : current(m)' = current(m)
    BY <2>4 DEF current
  <2>6. alarms \subseteq alarms' /\ (v = "FAIL" => n \in alarms')
    BY <2>2 DEF record
  <2>7. ASSUME NEW m \in args.scope \ work', pc \in {"running", "report"}
        PROVE  Answers(m)' /\ (file'[m].verdict = "FAIL" => m \in alarms')
    <3>1. m \in Names
      BY DEF TypeInv, TypeOK, Args
    <3>2. CASE m = n
      BY <2>2, <2>3, <2>5, <2>6, <3>1, <3>2, Constants, RowIsNotNoRow
         DEF Answers, TypeInv, TypeOK, Rows
    <3>3. CASE m # n
      <4>1. Answers(m) /\ (file[m].verdict = "FAIL" => m \in alarms)
        BY <2>3, <2>7, <3>3 DEF Exits
      <4>2. file'[m] = file[m]
        BY <2>3, <3>1, <3>3 DEF TypeInv, TypeOK, Rows
      <4> QED
        BY <2>5, <2>6, <3>1, <4>1, <4>2 DEF Answers
    <3> QED
      BY <3>2, <3>3
  <2>8. pc \in {"running", "raising", "cancelled"}
    BY <1>18 DEF Finish
  <2> QED
    BY <2>3, <2>4, <2>7, <2>8 DEF Exits, ExitZeroMeans, InRun
<1>19. ASSUME NEW n \in Names, WorkerRaises(n) PROVE Exits'
  BY <1>19 DEF WorkerRaises, TypeInv, Control, Copy, Evidence, Exits, Answers,
     InRun, ExitZeroMeans, current, Busy, inputVars, historyVars
<1>20. ASSUME NEW n \in Names, FinishKilled(n) PROVE Exits'
  <2>1. InRun /\ n \in active
    BY <1>20 DEF FinishKilled, InRun
  <2>2. PICK v \in {"FAIL"} : record(n, v)
    BY <1>20, Constants DEF FinishKilled
  <2>3. /\ file' = [file EXCEPT ![n] = [in |-> current(n), verdict |-> v]]
        /\ work' = work \ {n}
    BY <2>1, <2>2, Constants, RecordRow
  <2>4. UNCHANGED <<rust, c, env, pc, args, status, ret, exit>>
    BY <1>20 DEF FinishKilled, inputVars
  <2>5. \A m \in Names : current(m)' = current(m)
    BY <2>4 DEF current
  <2>6. alarms \subseteq alarms' /\ (v = "FAIL" => n \in alarms')
    BY <2>2 DEF record
  <2>7. ASSUME NEW m \in args.scope \ work', pc \in {"running", "report"}
        PROVE  Answers(m)' /\ (file'[m].verdict = "FAIL" => m \in alarms')
    <3>1. m \in Names
      BY DEF TypeInv, TypeOK, Args
    <3>2. CASE m = n
      BY <2>2, <2>3, <2>5, <2>6, <3>1, <3>2, Constants, RowIsNotNoRow
         DEF Answers, TypeInv, TypeOK, Rows
    <3>3. CASE m # n
      <4>1. Answers(m) /\ (file[m].verdict = "FAIL" => m \in alarms)
        BY <2>3, <2>7, <3>3 DEF Exits
      <4>2. file'[m] = file[m]
        BY <2>3, <3>1, <3>3 DEF TypeInv, TypeOK, Rows
      <4> QED
        BY <2>5, <2>6, <3>1, <4>1, <4>2 DEF Answers
    <3> QED
      BY <3>2, <3>3
  <2>8. pc \in {"running", "raising", "cancelled"}
    BY <1>20 DEF FinishKilled
  <2> QED
    BY <2>3, <2>4, <2>7, <2>8 DEF Exits, ExitZeroMeans, InRun
<1>21. ASSUME NEW n \in Names, DropPrepared(n) PROVE Exits'
  BY <1>21 DEF DropPrepared, TypeInv, Control, Copy, Evidence, Exits, Answers,
     InRun, ExitZeroMeans, current, Busy, inputVars, historyVars
<1>22. CASE UNCHANGED vars
  BY <1>22 DEF vars, TypeInv, Control, Copy, Evidence, Exits, Answers, InRun,
     ExitZeroMeans, current, Busy, inputVars, runVars, historyVars
<1> QED
  BY <1>1, <1>2, <1>3, <1>4, <1>5, <1>6, <1>7, <1>8, <1>9, <1>10, <1>11, <1>12,
     <1>13, <1>14, <1>15, <1>16, <1>17, <1>18, <1>19, <1>20, <1>21, <1>22 DEF Next,
     RunNext

IInv == TypeInv /\ Copy /\ Evidence /\ Exits

\* The inductive invariant, when objects stay as they are during a run.
LEMMA InductiveInvariant ==
  ASSUME ~EditsDuringRun, ~TrustSummary
  PROVE  Spec => []IInv
<1>1. Init => IInv
  <2> SUFFICES ASSUME Init PROVE IInv
    OBVIOUS
  <2>1. Copy
    BY DEF Init, Copy, InRun, NoRows, KeepsWhatItLearned
  <2>2. Evidence
    BY DEF Init, Evidence, NoInputs, NoRows, NoRow, Good, GoodRowsSeen, Busy, NoArgs
  <2>3. Exits
    BY DEF Init, Exits, InRun, ExitZeroMeans
  <2> QED
    BY <2>1, <2>2, <2>3, TypeInit DEF IInv
<1>2. IInv /\ [Next]_vars => IInv'
  BY TypeStep, CopyStep, EvidenceStep, ExitsStep DEF IInv
<1> QED
  BY <1>1, <1>2, PTL DEF Spec

\* A cached good verdict is evidence: as long as objects are not rebuilt under
\* a run and no summary.json is taken on trust, a PASS or NO-ORACLE row that
\* record() or reseed() wrote is backed by a guest run of exactly its inputs.
THEOREM RowsRestOnRuns ==
  ASSUME ~EditsDuringRun, ~TrustSummary
  PROVE  Spec => []GoodRowsSeen
<1>1. IInv => GoodRowsSeen
  BY DEF IInv, Evidence
<1> QED
  BY <1>1, InductiveInvariant, PTL

\* Under the same assumptions exit 0 of main() is about every name of the
\* scope as it is now: each has a row, none of them FAIL, and the shared tree
\* was restored.
THEOREM ExitZeroIsAnAnswer ==
  ASSUME ~EditsDuringRun, ~TrustSummary
  PROVE  Spec => []ExitZeroMeans
<1>1. IInv => ExitZeroMeans
  BY DEF IInv, Exits
<1> QED
  BY <1>1, InductiveInvariant, PTL

-----------------------------------------------------------------------------
(* The ledger *)

\* Steps that change no input, see nothing and do not exit.
LEMMA QuietStep ==
  ASSUME UNCHANGED <<rust, c, env, seen>>, pc' # "exited" \/ UNCHANGED <<pc, exit, args>>
  PROVE  Ledger!Next \/ UNCHANGED Ledger!vars
<1>1. UNCHANGED [n \in Names |-> current(n)]
  BY DEF current
<1>2. CASE pc' # "exited"
  BY <1>1, <1>2 DEF Ledger!Next, Ledger!Answer
<1>3. CASE UNCHANGED <<pc, exit, args>>
  BY <1>1, <1>3 DEF Ledger!vars
<1> QED
  BY <1>2, <1>3

\* Steps that see verdicts about the objects of now.
LEMMA SeenStep ==
  ASSUME UNCHANGED <<rust, c, env>>, pc' # "exited",
         NEW facts, seen' = seen \cup facts,
         \A f \in facts : \E n \in Names, v \in Good : f = <<n, current(n), v>>
  PROVE  Ledger!Next
<1>1. UNCHANGED [n \in Names |-> current(n)]
  BY DEF current
<1>2. facts \in SUBSET {<<n, [m \in Names |-> current(m)][n], v>> : n \in Names, v \in Good}
  OBVIOUS
<1> QED
  BY <1>1, <1>2 DEF Ledger!Next, Ledger!Observe

\* Every step is a step of the ledger or leaves it alone.
LEMMA LedgerStep ==
  ASSUME ~EditsDuringRun, ~TrustSummary, IInv, IInv', [Next]_vars
  PROVE  Ledger!Next \/ UNCHANGED Ledger!vars
<1>0. TypeOK /\ TypeOK' /\ Evidence /\ Evidence' /\ Exits' /\ active \subseteq Names
  BY DEF IInv, TypeInv, TypeOK
<1>1. CASE Start
  BY <1>1, QuietStep DEF Start, inputVars, historyVars
<1>2. CASE Interrupt
  BY <1>2, QuietStep DEF Interrupt, inputVars, historyVars
<1>3. CASE Kill
  BY <1>3, QuietStep DEF Kill, inputVars, historyVars
<1>4. CASE StageFails
  BY <1>4, QuietStep DEF StageFails, inputVars, historyVars
<1>5. CASE Hash
  BY <1>5, QuietStep DEF Hash, inputVars, historyVars
<1>6. CASE Reseed
  BY <1>6, QuietStep DEF Reseed, inputVars, historyVars
<1>7. CASE Seeded
  BY <1>7, QuietStep DEF Seeded, inputVars, historyVars
<1>8. CASE RefuseEnv
  BY <1>8, QuietStep DEF RefuseEnv, inputVars, historyVars
<1>9. CASE Select
  BY <1>9, QuietStep DEF Select, inputVars, historyVars
<1>10. CASE AllRan
  BY <1>10, QuietStep DEF AllRan, inputVars, historyVars
<1>11. CASE RunRaises
  BY <1>11, QuietStep DEF RunRaises, inputVars, historyVars
<1>12. CASE WorkersEnd
  BY <1>12, QuietStep DEF WorkersEnd, inputVars, historyVars
<1>13. CASE Report
  BY <1>13, QuietStep DEF Report, inputVars, historyVars
<1>14. ASSUME NEW n \in Names, Take(n) PROVE Ledger!Next \/ UNCHANGED Ledger!vars
  BY <1>14, QuietStep DEF Take, inputVars, historyVars
<1>15. ASSUME NEW n \in Names, WorkerRaises(n) PROVE Ledger!Next \/ UNCHANGED Ledger!vars
  BY <1>15, QuietStep DEF WorkerRaises, inputVars, historyVars
<1>16. ASSUME NEW n \in Names, FinishKilled(n) PROVE Ledger!Next \/ UNCHANGED Ledger!vars
  BY <1>16, QuietStep DEF FinishKilled, inputVars, historyVars
<1>17. ASSUME NEW n \in Names, DropPrepared(n) PROVE Ledger!Next \/ UNCHANGED Ledger!vars
  BY <1>17, QuietStep DEF DropPrepared, inputVars, historyVars
<1>18. CASE Edit
  <2>1. pc' # "exited" /\ UNCHANGED seen
    BY <1>18 DEF Edit, historyVars
  <2>2. [n \in Names |-> current(n)]' \in [Names -> Input]
    BY <1>0 DEF TypeOK, current, Input
  <2> QED
    BY <2>1, <2>2 DEF Ledger!Next, Ledger!Change
<1>19. CASE Nightly
  <2>1. PICK v \in [Names -> Verdict] :
           seen' = seen \cup {<<n, current(n), v[n]>> : n \in {m \in Names : v[m] \in Good}}
    BY <1>19 DEF Nightly
  <2>2. UNCHANGED <<rust, c, env>> /\ pc' # "exited"
    BY <1>19 DEF Nightly, inputVars
  <2> DEFINE facts == {<<n, current(n), v[n]>> : n \in {m \in Names : v[m] \in Good}}
  <2>3. \A f \in facts : \E n \in Names, w \in Good : f = <<n, current(n), w>>
    OBVIOUS
  <2>4. seen' = seen \cup facts
    BY <2>1
  <2> HIDE DEF facts
  <2> QED
    BY SMTT(40), <2>2, <2>3, <2>4, SeenStep
<1>20. ASSUME NEW n \in Names, Finish(n) PROVE Ledger!Next \/ UNCHANGED Ledger!vars
  <2>1. PICK v \in Verdict : seen' = IF v \in Good THEN seen \cup {<<n, loaded[n], v>>} ELSE seen
    BY <1>20 DEF Finish
  <2>2. UNCHANGED <<rust, c, env>> /\ pc' # "exited"
    BY <1>20 DEF Finish, inputVars
  <2>3. loaded[n] = current(n)
    BY <1>0, <1>20 DEF Finish, Evidence
  <2>4. CASE v \in Good
    <3> DEFINE facts == {<<n, current(n), v>>}
    <3>1. \A f \in facts : \E m \in Names, w \in Good : f = <<m, current(m), w>>
      BY <2>4
    <3>2. seen' = seen \cup facts
      BY <2>1, <2>3, <2>4
    <3> HIDE DEF facts
    <3> QED
      BY SMTT(40), <2>2, <3>1, <3>2, SeenStep
  <2>5. CASE v \notin Good
    BY <2>1, <2>2, <2>5, QuietStep
  <2> QED
    BY <2>4, <2>5
<1>21. CASE Cleanup
  <2>1. UNCHANGED <<rust, c, env, seen>>
    BY <1>21 DEF Cleanup, inputVars
  <2>2. UNCHANGED [n \in Names |-> current(n)]
    BY <2>1 DEF current
  <2>3. CASE pc' = "exited" /\ exit' = 0 /\ args'.reseed = "no"
    <3>1. ASSUME NEW n \in args'.scope
          PROVE  n \in Names /\ \E v \in Good : <<n, current(n), v>> \in seen
      <4>1. n \in Names
        BY <1>0 DEF TypeOK, Args
      <4>2. file'[n] # NoRow /\ file'[n].in = current(n)' /\ file'[n].verdict # "FAIL"
        BY <1>0, <2>3 DEF Exits, ExitZeroMeans
      <4>3. file'[n].verdict \in Good
        BY <1>0, <4>1, <4>2, Constants DEF TypeOK, Rows, Row
      <4>4. <<n, file'[n].in, file'[n].verdict>> \in seen'
        BY <1>0, <4>1, <4>3 DEF Evidence, GoodRowsSeen
      <4>5. current(n)' = current(n)
        BY <2>1 DEF current
      <4> QED
        BY <2>1, <4>1, <4>2, <4>3, <4>4, <4>5
    <3> QED
      BY <2>1, <2>2, <2>3, <3>1 DEF Ledger!Next, Ledger!Answer
  <2>4. CASE ~(pc' = "exited" /\ exit' = 0 /\ args'.reseed = "no")
    BY <2>1, <2>2, <2>4 DEF Ledger!Next, Ledger!Answer
  <2> QED
    BY <2>3, <2>4
<1>22. CASE UNCHANGED vars
  BY <1>22, QuietStep DEF vars, inputVars, historyVars
<1> QED
  BY <1>1, <1>2, <1>3, <1>4, <1>5, <1>6, <1>7, <1>8, <1>9, <1>10, <1>11, <1>12,
     <1>13, <1>14, <1>15, <1>16, <1>17, <1>18, <1>19, <1>20, <1>21, <1>22 DEF Next,
     RunNext

\* The incremental gate implements the ledger: whatever it caches, keeps
\* across runs or takes over from a nightly, its "no alarm" is what guests
\* said of the objects and the environment of now.
THEOREM BaselineImplementsLedger ==
  ASSUME ~EditsDuringRun, ~TrustSummary
  PROVE  Spec => ImplementsLedger
<1>1. Init => Ledger!Init
  BY TypeInit, CurrentInput DEF Init, Ledger!Init, TypeInv
<1>2. IInv /\ IInv' /\ [Next]_vars => [Ledger!Next]_(Ledger!vars)
  BY LedgerStep
<1> QED
  BY <1>1, <1>2, InductiveInvariant, PTL DEF Spec, ImplementsLedger, Ledger!Spec

-----------------------------------------------------------------------------
(* The downgrades *)

\* What a run that was not killed knows of the verdicts when a run last came
\* to an end: a row still to be run is the row of then, and a PASS that became
\* NO-ORACLE is among the downgrades, which decide the status.
Downgrades ==
  /\ ~InRun \/ pc \in {"stages", "select"} => told = file /\ ret = NoStatus
  /\ (InRun /\ args.reseed = "no") =>
       \A n \in Names :
          \/ file[n] = told[n]
          \/ n \notin work /\ (file[n].verdict = "NO-ORACLE" /\ told[n].verdict = "PASS"
                               => n \in downgrades)
  /\ pc = "seeded" \/ ret = 0 => args.reseed # "no"
  /\ pc = "cancelled" => status = 1
  /\ pc = "cleanup" /\ ret = NoStatus /\ status = 0 => downgrades = {}

\* Recording a verdict notes the downgrade before it replaces the row.
LEMMA RecordDowngrade ==
  ASSUME TypeInv, Copy, Downgrades, InRun, NEW n \in active, NEW v \in Verdict, record(n, v),
         InRun', UNCHANGED <<pc, args, told, status, ret>>, pc \in {"running", "raising", "cancelled"}
  PROVE  Downgrades'
<1>1. n \in Names /\ n \in work /\ baseline = file /\ file \in Rows
  BY DEF TypeInv, TypeOK, Control, Copy
<1>2. /\ \A m \in Names : m # n => file'[m] = file[m]
      /\ file'[n].verdict = v
      /\ work' = work \ {n} /\ downgrades \subseteq downgrades'
      /\ v = "NO-ORACLE" /\ file[n].verdict = "PASS" => n \in downgrades'
  BY <1>1 DEF record, Rows
<1>3. ASSUME args.reseed = "no", NEW m \in Names
      PROVE  \/ file'[m] = told[m]
             \/ m \notin work' /\ (file'[m].verdict = "NO-ORACLE" /\ told[m].verdict = "PASS"
                                   => m \in downgrades')
  <2>1. \/ file[m] = told[m]
        \/ m \notin work /\ (file[m].verdict = "NO-ORACLE" /\ told[m].verdict = "PASS"
                             => m \in downgrades)
    BY <1>3 DEF Downgrades
  <2>2. CASE m = n
    BY <1>1, <1>2, <2>1, <2>2
  <2>3. CASE m # n
    BY <1>2, <2>1, <2>3
  <2> QED
    BY <2>2, <2>3
<1>4. ~(~InRun \/ pc \in {"stages", "select"}) /\ pc # "seeded" /\ pc # "cleanup"
  OBVIOUS
<1> QED
  BY <1>3, <1>4 DEF Downgrades

\* Every step that is not a kill keeps it.
LEMMA DowngradesStep ==
  ASSUME MaxKills = 0, TypeInv, Copy, Downgrades, [Next]_vars
  PROVE  Downgrades'
<1> USE StatusFacts
<1>1. CASE Edit
  BY <1>1 DEF Edit, Downgrades, InRun, runVars, historyVars
<1>2. CASE Nightly
  BY <1>2 DEF Nightly, Downgrades, InRun, runVars
<1>3. CASE Start
  <2>1. /\ ~InRun /\ pc' = "stages" /\ UNCHANGED <<file, told, ret>>
    BY <1>3 DEF Start
  <2> QED
    BY <2>1 DEF Downgrades, InRun
<1>4. CASE Interrupt
  BY <1>4 DEF Interrupt, Downgrades, InRun, historyVars
<1>5. CASE Kill
  BY <1>5 DEF Kill, TypeInv, TypeOK
<1>6. CASE StageFails
  <2>1. /\ pc \in {"stages", "select"} /\ pc' = "cleanup" /\ status' = 1
        /\ UNCHANGED <<file, told, args, work, downgrades, ret>>
    BY <1>6 DEF StageFails, historyVars
  <2> QED
    BY <2>1 DEF Downgrades, InRun
<1>7. CASE Hash
  BY <1>7 DEF Hash, Downgrades, InRun, historyVars
<1>8. CASE Reseed
  BY <1>8 DEF Reseed, Downgrades, InRun, historyVars
<1>9. CASE Seeded
  <2>1. /\ pc = "seeded" /\ pc' = "cleanup" /\ ret' = 0
        /\ UNCHANGED <<file, told, args, work, downgrades>>
    BY <1>9 DEF Seeded, historyVars
  <2> QED
    BY <2>1 DEF Downgrades, InRun
<1>10. CASE RefuseEnv
  BY <1>10 DEF RefuseEnv, Downgrades, InRun, historyVars
<1>11. CASE Select
  BY <1>11 DEF Select, Downgrades, InRun, historyVars
<1>12. CASE AllRan
  BY <1>12 DEF AllRan, Downgrades, InRun, runVars, historyVars
<1>13. CASE RunRaises
  BY <1>13 DEF RunRaises, Downgrades, InRun, historyVars
<1>14. CASE WorkersEnd
  BY <1>14 DEF WorkersEnd, Downgrades, InRun, runVars, historyVars
<1>15. CASE Report
  BY <1>15 DEF Report, Downgrades, InRun, historyVars
<1>16. CASE Cleanup
  BY <1>16 DEF Cleanup, LocalsDie, Downgrades, InRun
<1>17. ASSUME NEW n \in Names, Take(n) PROVE Downgrades'
  BY <1>17 DEF Take, Downgrades, InRun, historyVars
<1>18. ASSUME NEW n \in Names, Finish(n) PROVE Downgrades'
  <2>1. PICK v \in Verdict : record(n, v)
    BY <1>18 DEF Finish
  <2>2. /\ n \in active /\ pc \in {"running", "raising", "cancelled"} /\ InRun /\ InRun'
        /\ UNCHANGED <<pc, args, told, status, ret>>
    BY <1>18 DEF Finish, InRun
  <2> QED
    BY Zenon, <2>1, <2>2, RecordDowngrade
<1>19. ASSUME NEW n \in Names, WorkerRaises(n) PROVE Downgrades'
  BY <1>19 DEF WorkerRaises, Downgrades, InRun, historyVars
<1>20. ASSUME NEW n \in Names, FinishKilled(n) PROVE Downgrades'
  <2>1. /\ n \in active /\ pc \in {"running", "raising", "cancelled"} /\ InRun /\ InRun'
        /\ UNCHANGED <<pc, args, told, status, ret>> /\ record(n, "FAIL")
    BY <1>20 DEF FinishKilled, InRun
  <2> QED
    BY Zenon, <2>1, Constants, RecordDowngrade
<1>21. ASSUME NEW n \in Names, DropPrepared(n) PROVE Downgrades'
  BY <1>21 DEF DropPrepared, Downgrades, InRun, historyVars
<1>22. CASE UNCHANGED vars
  BY <1>22 DEF vars, Downgrades, InRun, runVars, historyVars
<1> QED
  BY <1>1, <1>2, <1>3, <1>4, <1>5, <1>6, <1>7, <1>8, <1>9, <1>10, <1>11, <1>12,
     <1>13, <1>14, <1>15, <1>16, <1>17, <1>18, <1>19, <1>20, <1>21, <1>22 DEF Next,
     RunNext

\* "ALARMS (exit 1) [...] on a PASS that became NO-ORACLE": while no driver is
\* killed, whatever is rebuilt and however runs are interrupted, a run that
\* exits with 0 leaves no such name in its scope.
THEOREM DowngradesAlarm ==
  ASSUME MaxKills = 0
  PROVE  Spec => DowngradeAlarms
<1> USE StatusFacts
<1>1. Init => TypeInv /\ Copy /\ Downgrades
  <2> SUFFICES ASSUME Init PROVE Copy /\ Downgrades
    BY TypeInit
  <2>1. Copy
    BY DEF Init, Copy, InRun, NoRows, KeepsWhatItLearned
  <2>2. Downgrades
    <3>1. pc = "idle" /\ told = file /\ ret = NoStatus
      BY DEF Init
    <3> QED
      BY <3>1 DEF Downgrades, InRun
  <2> QED
    BY <2>1, <2>2
<1>2. TypeInv /\ Copy /\ Downgrades /\ [Next]_vars => (TypeInv /\ Copy /\ Downgrades)'
  BY TypeStep, CopyStep, DowngradesStep
<1>3. TypeInv /\ Downgrades /\ [Next]_vars =>
        [(pc = "cleanup" /\ pc' = "exited" /\ exit' = 0 /\ args.reseed = "no") =>
           \A n \in args.scope : ~(told[n].verdict = "PASS"
                                   /\ file[n].verdict = "NO-ORACLE")]_vars
  <2> SUFFICES ASSUME TypeInv, Downgrades, Next,
                      pc = "cleanup", pc' = "exited", exit' = 0, args.reseed = "no",
                      NEW n \in args.scope, told[n].verdict = "PASS",
                      file[n].verdict = "NO-ORACLE"
               PROVE  FALSE
    OBVIOUS
  <2>1. Cleanup
    BY DEF Next, RunNext, Edit, Nightly, Start, Interrupt, Kill, InRun, StageFails, Hash,
       Reseed, Seeded, RefuseEnv, Select, AllRan, RunRaises, WorkersEnd, Report, Take,
       Finish, WorkerRaises, FinishKilled, DropPrepared
  <2>2. ret = NoStatus /\ status = 0
    <3>1. exit' = ret \/ (ret = NoStatus /\ exit' \in {status, 1})
      BY <2>1 DEF Cleanup
    <3>2. ret # 0
      BY DEF Downgrades
    <3> QED
      BY <3>1, <3>2
  <2>3. n \in Names /\ InRun
    BY DEF TypeInv, TypeOK, Args, InRun
  <2>4. n \in downgrades
    BY <2>3 DEF Downgrades
  <2> QED
    BY <2>2, <2>4 DEF Downgrades
<1> QED
  BY <1>1, <1>2, <1>3, PTL DEF Spec, DowngradeAlarms

-----------------------------------------------------------------------------
(***************************************************************************)
(* A run comes to an end.  RunEnds is a liveness property; what it rests   *)
(* on is not: every step of a run uses up some of what main(), a name of   *)
(* the scope or the changes around it have left, and until the run is over *)
(* its next step is not blocked.                                           *)
(***************************************************************************)
\* How far main() is from its end.
RunLeft ==
  CASE pc = "stages" -> 9 [] pc = "select" -> 8 [] pc = "seeded" -> 7
    [] pc = "running" -> 6 [] pc = "raising" -> 5 [] pc = "report" -> 4
    [] pc = "cancelled" -> 3 [] pc = "cleanup" -> 2 [] OTHER -> 0

\* A name may be selected, is queued, then in a worker's hands, then done.
NameLeft(n) ==
  CASE pc \in {"stages", "select"} -> 3
    [] pc \notin {"stages", "select"} /\ n \in active -> 1
    [] pc \in {"running", "raising"} /\ n \in work \ active -> 2
    [] OTHER -> 0

\* Every step of a run lowers one of these, and raises none.
RunStepCounts ==
  InRun => /\ RunLeft' <= RunLeft /\ edits' >= edits
           /\ \A n \in Names : NameLeft(n)' <= NameLeft(n)
           /\ \/ RunLeft' < RunLeft \/ edits' > edits
              \/ \E n \in Names : NameLeft(n)' < NameLeft(n)

LEMMA RunLeftNumbers ==
  /\ RunLeft \in Nat /\ RunLeft' \in Nat
  /\ \A n \in Names : NameLeft(n) \in Nat /\ NameLeft(n)' \in Nat
BY DEF RunLeft, NameLeft

\* main() moves on and takes no name up again.
LEMMA MainMoves ==
  ASSUME TypeOK, edits' = edits, RunLeft' < RunLeft,
         \A n \in Names : NameLeft(n)' <= NameLeft(n)
  PROVE  RunStepCounts
<1>1. RunLeft' <= RunLeft
  BY RunLeftNumbers
<1>2. edits' >= edits
  BY DEF TypeOK
<1> QED
  BY <1>1, <1>2 DEF RunStepCounts

\* A name moves on while main() stays where it is.
LEMMA NameMoves ==
  ASSUME TypeOK, edits' = edits, RunLeft' <= RunLeft, NEW m \in Names,
         NameLeft(m)' < NameLeft(m),
         \A n \in Names \ {m} : NameLeft(n)' <= NameLeft(n)
  PROVE  RunStepCounts
<1>1. edits' >= edits
  BY DEF TypeOK
<1>2. NameLeft(m)' <= NameLeft(m)
  BY RunLeftNumbers
<1> QED
  BY <1>1, <1>2 DEF RunStepCounts

LEMMA RunStep ==
  ASSUME TypeInv, [Next]_vars
  PROVE  [RunStepCounts]_vars
<1> SUFFICES ASSUME InRun, Next PROVE RunStepCounts
  BY DEF RunStepCounts
<1>0. edits \in Nat /\ TypeOK /\ pc \in PCs
  BY BaselineAssumption DEF TypeInv, TypeOK
<1>1. CASE StageFails \/ Hash \/ Reseed \/ Seeded \/ RefuseEnv \/ Select
  <2>1. /\ edits' = edits /\ active' = active
        /\ \/ pc \in {"stages", "select"} /\ pc' = "cleanup"
           \/ pc = "stages" /\ pc' = "select"
           \/ pc = "select" /\ pc' \in {"seeded", "report", "running"}
           \/ pc = "seeded" /\ pc' = "cleanup"
    BY <1>1 DEF StageFails, Hash, Reseed, Seeded, RefuseEnv, Select, inputVars
  <2>2. pc = "seeded" => active = {}
    BY DEF TypeInv, Control, Unstarted
  <2>3. RunLeft' < RunLeft
    BY <2>1 DEF RunLeft
  <2>4. \A n \in Names : NameLeft(n)' <= NameLeft(n)
    BY <2>1, <2>2 DEF NameLeft
  <2> QED
    BY <1>0, <2>1, <2>3, <2>4, MainMoves
<1>2. CASE AllRan \/ RunRaises \/ WorkersEnd \/ Report \/ Interrupt
  <2>1. /\ edits' = edits /\ active' = active /\ work' = work
        /\ \/ pc = "running" /\ pc' = "report"
           \/ pc \in {"raising", "cancelled", "report"} /\ pc' = "cleanup"
           \/ /\ pc \in {"stages", "select", "seeded", "running", "raising", "report"}
              /\ pc' = "cancelled"
    BY <1>2 DEF AllRan, RunRaises, WorkersEnd, Report, Interrupt, inputVars, runVars
  <2>2. RunLeft' < RunLeft
    BY <2>1 DEF RunLeft
  <2>3. \A n \in Names : NameLeft(n)' <= NameLeft(n)
    BY <2>1 DEF NameLeft
  <2> QED
    BY <1>0, <2>1, <2>2, <2>3, MainMoves
<1>3. CASE Cleanup \/ Kill
  <2>1. edits' = edits /\ active' = {} /\ work' = {} /\ pc' \in {"exited", "idle"}
    BY <1>3 DEF Cleanup, Kill, LocalsDie, inputVars
  <2>2. RunLeft' < RunLeft
    BY <1>0, <2>1 DEF RunLeft, InRun, PCs
  <2>3. \A n \in Names : NameLeft(n)' <= NameLeft(n)
    BY <2>1 DEF NameLeft
  <2> QED
    BY <1>0, <2>1, <2>2, <2>3, MainMoves
<1>4. CASE Edit
  <2>1. edits' = edits + 1 /\ UNCHANGED <<pc, active, work>>
    BY <1>4 DEF Edit, InRun, runVars
  <2>2. RunLeft' = RunLeft /\ \A n \in Names : NameLeft(n)' = NameLeft(n)
    BY <2>1 DEF RunLeft, NameLeft
  <2> QED
    BY <1>0, <2>1, <2>2, RunLeftNumbers DEF RunStepCounts
<1>5. ASSUME NEW m \in Names, Take(m) PROVE RunStepCounts
  <2>1. /\ edits' = edits /\ pc' = pc /\ pc \in {"running", "raising"} /\ work' = work
        /\ m \in work \ active /\ active' = active \cup {m}
    BY <1>5 DEF Take, inputVars
  <2>2. NameLeft(m)' < NameLeft(m) /\ \A n \in Names \ {m} : NameLeft(n)' <= NameLeft(n)
    BY <2>1 DEF NameLeft
  <2>3. RunLeft' <= RunLeft
    BY <2>1, RunLeftNumbers DEF RunLeft
  <2> QED
    BY <1>0, <2>1, <2>2, <2>3, NameMoves
<1>6. ASSUME NEW m \in Names,
             Finish(m) \/ FinishKilled(m) \/ DropPrepared(m) \/ WorkerRaises(m)
      PROVE  RunStepCounts
  <2>1. /\ edits' = edits /\ m \in active /\ active' = active \ {m}
        /\ pc \in {"running", "raising", "cancelled"}
        /\ work' = work \ {m} \/ (work' = work /\ pc = "cancelled")
        /\ pc' = pc \/ (pc \in {"running", "raising"} /\ pc' = "raising")
    BY <1>6 DEF Finish, FinishKilled, DropPrepared, WorkerRaises, record, inputVars
  <2>2. NameLeft(m)' < NameLeft(m) /\ \A n \in Names \ {m} : NameLeft(n)' <= NameLeft(n)
    BY <2>1 DEF NameLeft
  <2>3. RunLeft' <= RunLeft
    BY <2>1 DEF RunLeft
  <2> QED
    BY <1>0, <2>1, <2>2, <2>3, NameMoves
<1> QED
  BY <1>1, <1>2, <1>3, <1>4, <1>5, <1>6 DEF Next, RunNext, Nightly, Start

\* A run of gate.py is over after finitely many steps, for any scope, number
\* of workers and changes: the stages follow each other, each name is taken
\* and given up once, an interrupt or an exception only shortens the way.
THEOREM RunComesToAnEnd == Spec => [][RunStepCounts]_vars
<1>1. TypeInv /\ [Next]_vars => TypeInv' /\ [RunStepCounts]_vars
  BY TypeStep, RunStep
<1> QED
  BY <1>1, TypeInit, PTL DEF Spec

\* A step of the run can be taken, read off the guards of its actions.
CanRun ==
  \/ pc \in {"stages", "select", "seeded", "report", "cleanup"}
  \/ pc = "running" /\ work = {}
  \/ pc \in {"raising", "cancelled"} /\ active = {}
  \/ pc \in {"running", "raising", "cancelled"} /\ active # {}
  \/ pc = "running" /\ \E n \in work \ active : Cardinality(active) < Workers

\* No run is stuck: with names left and no worker busy a name can be taken,
\* and a run that is cancelled or raising waits for no name but those its
\* workers still hold.
RunNeverStuck == InRun => CanRun

\* What main() waits for, the workers and the pool, can always come.
THEOREM RunGoesOn == Spec => []RunNeverStuck
<1>1. TypeInv => RunNeverStuck
  <2> SUFFICES ASSUME TypeInv, InRun, pc = "running", work # {}, active = {}
               PROVE  \E n \in work \ active : Cardinality(active) < Workers
    BY DEF RunNeverStuck, CanRun, TypeInv, TypeOK, PCs, InRun
  <2>1. Cardinality(active) = 0
    BY FS_EmptySet
  <2>2. 0 < Workers
    BY BaselineAssumption
  <2> QED
    BY <2>1, <2>2
<1>2. TypeInv /\ [Next]_vars => TypeInv'
  BY TypeStep
<1> QED
  BY <1>1, <1>2, TypeInit, PTL DEF Spec

=============================================================================
