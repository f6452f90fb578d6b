---------------------------- MODULE SessionProofs ----------------------------
(***************************************************************************)
(* Session.tla for any handlers, limits and bounds: its type invariant, the *)
(* in-flight lock, the cost gate; then what a session holds: its listed     *)
(* checkpoints, its candidates, its account and the retries of a turn.      *)
(* All of that rests on the lock: the handler that works is alone.          *)
(***************************************************************************)
EXTENDS Session, SequenceTheorems, TLAPS

-----------------------------------------------------------------------------
(* What the invariants need beside themselves to be inductive.              *)

\* A fork names a checkpoint that exists.
FromOK == \A h \in Handlers : mem[h].from \in 0..Len(listed)

\* Only a handler that works holds anything.
IdleOK == \A h \in Handlers : pc[h] = "idle" => mem[h] = NoMem

\* Only a resume carries a decision, and only to a gate.
DecisionOK ==
  \A h \in Handlers : mem[h].decision # "none" =>
    pc[h] \in {"select", "confirm"} /\ next = "gate"


-----------------------------------------------------------------------------
(* Types.                                                                  *)

\* The spec lists an author or edit pass can leave are spec lists.
LEMMA SpecListsAreSpecs == SpecLists \subseteq Specs
<1> USE BoundsAssumption
<1> SUFFICES ASSUME NEW n \in 0..MaxSpecs, NEW s \in [1..n -> SpecKinds]
             PROVE  s \in Specs
  BY DEF SpecLists
<1>1. s \in Seq(SpecKinds)
  BY SeqDef
<1>2. Len(s) = n
  BY <1>1, LenProperties
<1> QED
  BY <1>1, <1>2 DEF Specs

\* A completed spec leaves a spec list.
LEMMA TailOfSpecs ==
  ASSUME NEW s \in Specs, s # <<>>
  PROVE  Tail(s) \in Specs
<1> USE BoundsAssumption
<1>1. s \in Seq(SpecKinds) /\ Len(s) <= MaxSpecs
  BY DEF Specs
<1>2. Tail(s) \in Seq(SpecKinds) /\ Len(Tail(s)) = Len(s) - 1 /\ Len(s) \in Nat
  BY <1>1, HeadTailProperties, LenProperties
<1> QED
  BY <1>1, <1>2 DEF Specs

\* What a checkpoint is saved with has the types of a checkpoint, and the
\* listing keeps what it has.
LEMMA SaveType ==
  ASSUME ThreadOK, FromOK, NEW v \in Values, NEW n \in Nodes, Save(v, n)
  PROVE  /\ ThreadOK'
         /\ Len(listed') \in Nat /\ Len(listed') >= Len(listed)
<1>1. listed \in Seq(Values) /\ Len(listed) \in Nat
  BY LenProperties DEF ThreadOK
<1>2. /\ Append(listed, v) \in Seq(Values)
      /\ Len(Append(listed, v)) = Len(listed) + 1
  BY <1>1, AppendProperties
<1>3. NoTask \in [asked : BOOLEAN, answer : Answers]
  BY DEF NoTask, Answers
<1> QED
  BY <1>1, <1>2, <1>3 DEF Save, Listed, ThreadOK

\* What a handler that holds nothing holds has its type.
LEMMA NoMemType == NoMem \in Memory /\ NoMem.from = 0 /\ NoMem.decision = "none"
BY DEF NoMem, Memory, NoCandidates, Candidates, Answers

\* Entering, leaving and using up a decision keep the types of the process.
Longer == Len(listed) \in Nat /\ Len(listed') \in Nat /\ Len(listed') >= Len(listed)

LEMMA EnterType ==
  ASSUME ProcessOK, FromOK, Longer, NEW h \in Handlers, NEW stage \in Stages,
         NEW m \in Memory, m.from \in 0..Len(listed),
         Enter(h, stage, m), fired' = fired
  PROVE  ProcessOK' /\ FromOK'
BY DEF ProcessOK, FromOK, Longer, Enter

LEMMA LeaveType ==
  ASSUME ProcessOK, FromOK, Longer, NEW h \in Handlers, Leave(h),
         fired' \in BOOLEAN
  PROVE  ProcessOK' /\ FromOK'
<1>1. NoMem \in Memory /\ NoMem.from = 0 /\ "idle" \in Stages
  BY NoMemType DEF Stages
<1>2. ProcessOK'
  BY <1>1 DEF ProcessOK, Leave
<1>3. ASSUME NEW g \in Handlers
      PROVE  mem'[g].from \in 0..Len(listed')
  <2>1. mem'[g] = IF g = h THEN NoMem ELSE mem[g]
    BY DEF ProcessOK, Leave
  <2> QED
    BY <1>1, <2>1 DEF FromOK, Longer
<1> QED
  BY <1>2, <1>3 DEF FromOK

LEMMA DecidedType ==
  ASSUME ProcessOK, FromOK, Longer, NEW h \in Handlers, Decided(h),
         inflight' = inflight, pc' = pc, fired' \in BOOLEAN
  PROVE  ProcessOK' /\ FromOK'
<1>1. mem[h] \in Memory
  BY DEF ProcessOK
<1> DEFINE m == [mem[h] EXCEPT !.decision = "none"]
<1>2. m \in Memory /\ m.from = mem[h].from
  BY <1>1 DEF Memory, Answers
<1>3. mem' = [mem EXCEPT ![h] = m]
  BY DEF Decided
<1> HIDE DEF m
<1>4. ProcessOK'
  BY <1>2, <1>3 DEF ProcessOK
<1>5. ASSUME NEW g \in Handlers
      PROVE  mem'[g].from \in 0..Len(listed')
  <2>1. mem'[g].from = mem[g].from
    BY <1>2, <1>3 DEF ProcessOK
  <2> QED
    BY <2>1 DEF FromOK, Longer
<1> QED
  BY <1>4, <1>5 DEF FromOK

LEMMA MoveType ==
  ASSUME ProcessOK, FromOK, Longer, NEW h \in Handlers, NEW stage \in Stages,
         pc' = [pc EXCEPT ![h] = stage], inflight' = inflight, mem' = mem,
         fired' \in BOOLEAN
  PROVE  ProcessOK' /\ FromOK'
BY DEF ProcessOK, FromOK, Longer

\* A turn starts from a state of the session.
LEMMA TurnBaseType ==
  ASSUME ThreadOK, NEW from \in 0..Len(listed), Len(listed) \in Nat,
         \A i \in 1..Len(listed) : listed[i] \in Values
  PROVE  TurnBase(from) \in Values
<1>1. CASE from = 0
  BY <1>1 DEF TurnBase, ThreadOK
<1>2. CASE from # 0
  <2>1. listed[from] \in Values /\ st \in Values
    BY <1>2 DEF ThreadOK
  <2> QED
    BY <1>2, <2>1 DEF TurnBase, Values
<1> QED
  BY <1>1, <1>2

\* The checkpoints keep their types.
LEMMA ThreadStep ==
  ASSUME TypeOK, FromOK, Next
  PROVE  ThreadOK' /\ Longer
<1> USE BoundsAssumption
<1>a. /\ Len(listed) \in Nat
      /\ \A i \in 1..Len(listed) : listed[i] \in Values
  BY ElementOfSeq, LenProperties DEF TypeOK, ThreadOK
<1>b. ASSUME listed' = listed
      PROVE  Longer
  BY <1>a, <1>b DEF Longer
<1>c. ASSUME NEW v \in Values, NEW n \in Nodes, Save(v, n)
      PROVE  ThreadOK' /\ Longer
  BY <1>a, <1>c, SaveType DEF TypeOK, Longer
<1>d. ASSUME UNCHANGED thread
      PROVE  ThreadOK' /\ Longer
  BY <1>b, <1>d DEF TypeOK, ThreadOK, thread
<1>e. ASSUME NEW v \in Values, UpdateState(v)
      PROVE  ThreadOK' /\ Longer
  BY <1>b, <1>e DEF TypeOK, ThreadOK, UpdateState, NoTask, Answers
<1>s. ASSUME st.specs # <<>>
      PROVE  Tail(st.specs) \in Specs
  BY <1>s, TailOfSpecs DEF TypeOK, ThreadOK, Values
<1>1. ASSUME NEW h \in Handlers, NEW from \in 0..Len(listed), AcceptTurn(h, from)
     PROVE  ThreadOK' /\ Longer
  BY <1>1, <1>d DEF AcceptTurn
<1>2. ASSUME NEW h \in Handlers, NEW sets \in BOOLEAN, InvokeTurn(h, sets)
     PROVE  ThreadOK' /\ Longer
  <2> DEFINE base == TurnBase(mem[h].from)
  <2>1. base \in Values
    BY <1>a, TurnBaseType DEF TypeOK, FromOK
  <2>2. [base EXCEPT !.side = IF sets THEN turn + 1 ELSE base.side] \in Values
    BY <2>1 DEF TypeOK, HistoryOK, Values
  <2> QED
    BY <1>2, <1>b, <2>2 DEF InvokeTurn, TypeOK, ThreadOK, Entry, Nodes, NoTask, Answers
<1>3. ASSUME NEW h \in Handlers, RefuseInput(h)
     PROVE  ThreadOK' /\ Longer
  BY <1>3, <1>d DEF RefuseInput
<1>4. ASSUME NEW h \in Handlers, NEW specs \in SpecLists, NEW sets \in BOOLEAN, AuthorIntent(h, specs, sets)
     PROVE  ThreadOK' /\ Longer
  <2>1. [st EXCEPT !.specs = specs,
                   !.side = IF sets THEN turn ELSE st.side,
                   !.errors = FALSE,
                   !.retried = FALSE] \in Values
    BY SpecListsAreSpecs DEF TypeOK, ThreadOK, HistoryOK, Values
  <2> QED
    BY <1>4, <1>c, <2>1 DEF AuthorIntent, Nodes
<1>5. ASSUME NEW h \in Handlers, NEW specs \in SpecLists, NEW sets \in BOOLEAN, EditIntent(h, specs, sets)
     PROVE  ThreadOK' /\ Longer
  <2>1. [st EXCEPT !.specs = specs,
                   !.side = IF sets THEN turn ELSE st.side,
                   !.errors = FALSE,
                   !.retried = st.errors] \in Values
    BY SpecListsAreSpecs DEF TypeOK, ThreadOK, HistoryOK, Values
  <2> QED
    BY <1>5, <1>c, <2>1 DEF EditIntent, Nodes, EditUpdates
<1>6. ASSUME NEW h \in Handlers, GatePass(h)
     PROVE  ThreadOK' /\ Longer
  BY <1>6, <1>c DEF GatePass, TypeOK, ThreadOK, Nodes
<1>7. ASSUME NEW h \in Handlers, GateAsk(h)
     PROVE  ThreadOK' /\ Longer
  BY <1>7, <1>b DEF GateAsk, TypeOK, ThreadOK, Answers
<1>8. ASSUME NEW h \in Handlers, GateSelected(h)
     PROVE  ThreadOK' /\ Longer
  <2> DEFINE v == [st EXCEPT !.specs = Tail(@)]
  <2>1. v \in Values
    BY <1>8, <1>s DEF GateSelected, TypeOK, ThreadOK, Values
  <2>2. Save(v, AfterGate(v))
    BY <1>8 DEF GateSelected
  <2> QED
    BY <1>c, <2>1, <2>2 DEF AfterGate, Nodes
<1>9. ASSUME NEW h \in Handlers, CallRecraft(h)
     PROVE  ThreadOK' /\ Longer
  BY <1>9, <1>d DEF CallRecraft
<1>10. ASSUME NEW h \in Handlers, GateGenerated(h)
     PROVE  ThreadOK' /\ Longer
  <2> DEFINE v == [st EXCEPT !.specs = Tail(@), !.recraft = @ + 1]
  <2>1. v \in Values
    <3>1. st.recraft + 1 \in Nat /\ Tail(st.specs) \in Specs /\ st \in Values
      BY <1>10, <1>s DEF GateGenerated, TypeOK, ThreadOK, Values
    <3> QED
      BY <3>1 DEF Values
  <2>2. Save(v, AfterGate(v))
    BY <1>10 DEF GateGenerated
  <2> QED
    BY <1>c, <2>1, <2>2 DEF AfterGate, Nodes
<1>11. ASSUME NEW h \in Handlers, GateRaises(h)
     PROVE  ThreadOK' /\ Longer
  BY <1>11, <1>b DEF GateRaises, TypeOK, ThreadOK, Answers
<1>12. ASSUME NEW h \in Handlers, ValidateOK(h)
     PROVE  ThreadOK' /\ Longer
  <2>1. [st EXCEPT !.errors = FALSE] \in Values
    BY DEF TypeOK, ThreadOK, Values
  <2> QED
    BY <1>12, <1>c, <2>1 DEF ValidateOK, Nodes
<1>13. ASSUME NEW h \in Handlers, ValidateRetry(h)
     PROVE  ThreadOK' /\ Longer
  <2>1. [st EXCEPT !.errors = TRUE] \in Values
    BY DEF TypeOK, ThreadOK, Values
  <2> QED
    BY <1>13, <1>c, <2>1 DEF ValidateRetry, Nodes
<1>14. ASSUME NEW h \in Handlers, ValidateGiveUp(h)
     PROVE  ThreadOK' /\ Longer
  <2>1. [st EXCEPT !.errors = TRUE] \in Values
    BY DEF TypeOK, ThreadOK, Values
  <2> QED
    BY <1>14, <1>c, <2>1 DEF ValidateGiveUp, Nodes
<1>15. ASSUME NEW h \in Handlers, Commit(h)
     PROVE  ThreadOK' /\ Longer
  <2> DEFINE id == commits + 1
             made == [of |-> id, side |-> st.side, png |-> FALSE]
             v == [st EXCEPT !.intent = id, !.cands = made, !.batch = id,
                             !.specs = <<>>, !.errors = FALSE, !.retried = FALSE]
  <2>1. id \in Nat /\ st \in Values /\ st.side \in Nat
    BY DEF TypeOK, ThreadOK, HistoryOK, Values
  <2>2. <<>> \in Specs /\ made \in Candidates
    BY <2>1, EmptySeq DEF Specs, Candidates
  <2>3. v \in Values
    BY <2>1, <2>2 DEF Values
  <2> QED
    BY <1>15, <1>c, <2>3 DEF Commit, Nodes
<1>16. ASSUME NEW h \in Handlers, NodeRaises(h)
     PROVE  ThreadOK' /\ Longer
  BY <1>16, <1>d DEF NodeRaises
<1>17. ASSUME NEW h \in Handlers, NEW png \in BOOLEAN, PreviewsDone(h, png)
     PROVE  ThreadOK' /\ Longer
  <2>1. [st EXCEPT !.cands = [mem[h].cands EXCEPT !.png = png], !.batch = 0] \in Values
    BY DEF TypeOK, ThreadOK, ProcessOK, Memory, Candidates, Values
  <2> QED
    BY <1>17, <1>e, <2>1 DEF PreviewsDone
<1>18. ASSUME NEW h \in Handlers, FabricRendered(h)
     PROVE  ThreadOK' /\ Longer
  BY <1>18, <1>d DEF FabricRendered
<1>19. ASSUME NEW h \in Handlers, FinalizeRaises(h)
     PROVE  ThreadOK' /\ Longer
  BY <1>19, <1>d DEF FinalizeRaises
<1>20. ASSUME NEW h \in Handlers, CountFinalize(h)
     PROVE  ThreadOK' /\ Longer
  <2>1. [st EXCEPT !.finalized = @ + 1] \in Values
    <3>1. st.finalized + 1 \in Nat /\ st \in Values
      BY DEF TypeOK, ThreadOK, Values
    <3> QED
      BY <3>1 DEF Values
  <2> QED
    BY <1>20, <1>e, <2>1 DEF CountFinalize
<1>21. ASSUME NEW h \in Handlers, SelectMotif(h)
     PROVE  ThreadOK' /\ Longer
  BY <1>21, <1>d DEF SelectMotif
<1>22. ASSUME NEW h \in Handlers, ConfirmGenerate(h)
     PROVE  ThreadOK' /\ Longer
  BY <1>22, <1>d DEF ConfirmGenerate
<1>23. ASSUME NEW h \in Handlers, AcceptFinalize(h)
     PROVE  ThreadOK' /\ Longer
  BY <1>23, <1>d DEF AcceptFinalize
<1>25. ASSUME NEW h \in Handlers, VectorizeImages(h)
      PROVE  ThreadOK' /\ Longer
  BY <1>25, <1>d DEF VectorizeImages
<1>24. CASE Crash
  BY <1>24, <1>d DEF Crash
<1> QED
  BY <1>1, <1>2, <1>3, <1>4, <1>5, <1>6, <1>7, <1>8, <1>9, <1>10, <1>11, <1>12, <1>13, <1>14, <1>15, <1>16, <1>17, <1>18, <1>19, <1>20, <1>21, <1>22, <1>23, <1>24, <1>25
     DEF Next, Request, Work, Gate

\* The process keeps its types.
LEMMA ProcessStep ==
  ASSUME TypeOK, FromOK, Longer, Next
  PROVE  ProcessOK' /\ FromOK'
<1>f. ProcessOK /\ FromOK /\ Longer /\ fired \in BOOLEAN
  BY DEF TypeOK, ProcessOK
<1>p. ASSUME UNCHANGED process
      PROVE  ProcessOK' /\ FromOK'
  BY <1>f, <1>p DEF process, ProcessOK, FromOK, Longer
<1>1. ASSUME NEW h \in Handlers, NEW from \in 0..Len(listed),
            AcceptTurn(h, from)
      PROVE  ProcessOK' /\ FromOK'
  <2> DEFINE m == [NoMem EXCEPT !.from = from]
  <2>0. from \in Nat
    BY <1>f DEF Longer
  <2>1. m \in Memory /\ m.from \in 0..Len(listed) /\ "accepted" \in Stages
    BY <2>0, NoMemType DEF Memory, Answers, Stages
  <2>2. Enter(h, "accepted", m) /\ fired' = fired
    BY <1>1 DEF AcceptTurn
  <2> QED
    BY <1>f, <2>1, <2>2, EnterType
<1>2. ASSUME NEW h \in Handlers, NEW sets \in BOOLEAN, InvokeTurn(h, sets)
      PROVE  ProcessOK' /\ FromOK'
  BY <1>2, <1>f, MoveType DEF InvokeTurn, Stages
<1>3. ASSUME NEW h \in Handlers, RefuseInput(h)
      PROVE  ProcessOK' /\ FromOK'
  BY <1>3, <1>f, LeaveType DEF RefuseInput
<1>4. ASSUME NEW h \in Handlers, NEW specs \in SpecLists, NEW sets \in BOOLEAN,
            AuthorIntent(h, specs, sets)
      PROVE  ProcessOK' /\ FromOK'
  <2>1. UNCHANGED <<inflight, pc, mem>> /\ fired' = FALSE
    BY <1>4 DEF AuthorIntent
  <2>2. ProcessOK'
    BY <1>f, <2>1 DEF ProcessOK
  <2> QED
    BY <1>f, <2>1, <2>2 DEF FromOK, Longer
<1>5. ASSUME NEW h \in Handlers, NEW specs \in SpecLists, NEW sets \in BOOLEAN,
            EditIntent(h, specs, sets)
      PROVE  ProcessOK' /\ FromOK'
  BY <1>5, <1>p DEF EditIntent
<1>6. ASSUME NEW h \in Handlers, GatePass(h)
      PROVE  ProcessOK' /\ FromOK'
  BY <1>6, <1>f, DecidedType DEF GatePass
<1>7. ASSUME NEW h \in Handlers, GateAsk(h)
      PROVE  ProcessOK' /\ FromOK'
  BY <1>7, <1>f, LeaveType DEF GateAsk
<1>8. ASSUME NEW h \in Handlers, GateSelected(h)
      PROVE  ProcessOK' /\ FromOK'
  BY <1>8, <1>f, DecidedType DEF GateSelected
<1>9. ASSUME NEW h \in Handlers, CallRecraft(h)
      PROVE  ProcessOK' /\ FromOK'
  BY <1>9, <1>f DEF CallRecraft, ProcessOK, FromOK, Longer
<1>10. ASSUME NEW h \in Handlers, GateGenerated(h)
      PROVE  ProcessOK' /\ FromOK'
  BY <1>10, <1>f, DecidedType DEF GateGenerated
<1>11. ASSUME NEW h \in Handlers, GateRaises(h)
      PROVE  ProcessOK' /\ FromOK'
  BY <1>11, <1>f, LeaveType DEF GateRaises
<1>12. ASSUME NEW h \in Handlers, ValidateOK(h)
      PROVE  ProcessOK' /\ FromOK'
  BY <1>12, <1>p DEF ValidateOK
<1>13. ASSUME NEW h \in Handlers, ValidateRetry(h)
      PROVE  ProcessOK' /\ FromOK'
  BY <1>13, <1>p DEF ValidateRetry
<1>14. ASSUME NEW h \in Handlers, ValidateGiveUp(h)
      PROVE  ProcessOK' /\ FromOK'
  BY <1>14, <1>f, LeaveType DEF ValidateGiveUp
<1>15. ASSUME NEW h \in Handlers, Commit(h)
      PROVE  ProcessOK' /\ FromOK'
  <2> DEFINE made == [of |-> commits + 1, side |-> st.side, png |-> FALSE]
  <2>1. made \in Candidates
    BY DEF Candidates, TypeOK, ThreadOK, HistoryOK, Values
  <2>2. /\ inflight' = inflight /\ fired' = fired
        /\ pc' = [pc EXCEPT ![h] = "preview"]
        /\ mem' = [mem EXCEPT ![h].cands = made]
    BY <1>15 DEF Commit
  <2>3. ProcessOK'
    BY <1>f, <2>1, <2>2 DEF ProcessOK, Memory, Stages
  <2>4. \A g \in Handlers : mem'[g].from = mem[g].from
    BY <1>f, <2>2 DEF ProcessOK, Memory
  <2> QED
    BY <1>f, <2>3, <2>4 DEF FromOK, Longer
<1>16. ASSUME NEW h \in Handlers, NodeRaises(h)
      PROVE  ProcessOK' /\ FromOK'
  BY <1>16, <1>f, LeaveType DEF NodeRaises
<1>17. ASSUME NEW h \in Handlers, NEW png \in BOOLEAN, PreviewsDone(h, png)
      PROVE  ProcessOK' /\ FromOK'
  BY <1>17, <1>f, LeaveType DEF PreviewsDone
<1>18. ASSUME NEW h \in Handlers, FabricRendered(h)
      PROVE  ProcessOK' /\ FromOK'
  BY <1>18, <1>f, MoveType DEF FabricRendered, Stages
<1>19. ASSUME NEW h \in Handlers, FinalizeRaises(h)
      PROVE  ProcessOK' /\ FromOK'
  BY <1>19, <1>f, LeaveType DEF FinalizeRaises
<1>20. ASSUME NEW h \in Handlers, CountFinalize(h)
      PROVE  ProcessOK' /\ FromOK'
  BY <1>20, <1>f, LeaveType DEF CountFinalize
<1>21. ASSUME NEW h \in Handlers, SelectMotif(h)
      PROVE  ProcessOK' /\ FromOK'
  <2> DEFINE m == [NoMem EXCEPT !.decision = "select"]
  <2>1. m \in Memory /\ m.from \in 0..Len(listed) /\ "select" \in Stages
    BY <1>f, NoMemType DEF Memory, Answers, Stages, Longer, TypeOK, ThreadOK, Values
  <2>2. Enter(h, "select", m) /\ fired' = fired
    BY <1>21 DEF SelectMotif, Resume
  <2> QED
    BY <1>f, <2>1, <2>2, EnterType
<1>22. ASSUME NEW h \in Handlers, ConfirmGenerate(h)
      PROVE  ProcessOK' /\ FromOK'
  <2> DEFINE m == [NoMem EXCEPT !.decision = "generate"]
  <2>1. m \in Memory /\ m.from \in 0..Len(listed) /\ "confirm" \in Stages
    BY <1>f, NoMemType DEF Memory, Answers, Stages, Longer, TypeOK, ThreadOK, Values
  <2>2. Enter(h, "confirm", m) /\ fired' = fired
    BY <1>22 DEF ConfirmGenerate, Resume
  <2> QED
    BY <1>f, <2>1, <2>2, EnterType
<1>23. ASSUME NEW h \in Handlers, AcceptFinalize(h)
      PROVE  ProcessOK' /\ FromOK'
  <2> DEFINE m == [NoMem EXCEPT !.cands = st.cands]
  <2>1. m \in Memory /\ m.from \in 0..Len(listed) /\ "render" \in Stages
    BY <1>f, NoMemType DEF Memory, Answers, Stages, Longer, TypeOK, ThreadOK, Values
  <2>2. Enter(h, "render", m) /\ fired' = fired
    BY <1>23 DEF AcceptFinalize
  <2> QED
    BY <1>f, <2>1, <2>2, EnterType
<1>25. ASSUME NEW h \in Handlers, VectorizeImages(h)
      PROVE  ProcessOK' /\ FromOK'
  BY <1>25, <1>f DEF VectorizeImages, ProcessOK, FromOK, Longer
<1>24. CASE Crash
  <2>1. ProcessOK'
    BY <1>24, NoMemType DEF Crash, ProcessOK, Stages
  <2>2. \A h \in Handlers : mem'[h].from = 0
    BY <1>24, NoMemType DEF Crash
  <2> QED
    BY <1>f, <2>1, <2>2 DEF FromOK, Longer
<1> QED
  BY <1>1, <1>2, <1>3, <1>4, <1>5, <1>6, <1>7, <1>8, <1>9, <1>10, <1>11,
     <1>12, <1>13, <1>14, <1>15, <1>16, <1>17, <1>18, <1>19, <1>20, <1>21,
     <1>22, <1>23, <1>24, <1>25
     DEF Next, Request, Work, Gate

\* The counters stay numbers.
LEMMA HistoryStep ==
  ASSUME TypeOK, Next
  PROVE  HistoryOK'
<1>u. ASSUME UNCHANGED history
      PROVE  HistoryOK'
  BY <1>u DEF history, TypeOK, HistoryOK
<1>1. ASSUME NEW h \in Handlers, NEW from \in 0..Len(listed),
            AcceptTurn(h, from)
      PROVE  HistoryOK'
  BY <1>1, <1>u DEF AcceptTurn
<1>2. ASSUME NEW h \in Handlers, NEW sets \in BOOLEAN, InvokeTurn(h, sets)
      PROVE  HistoryOK'
  BY <1>2 DEF InvokeTurn, TypeOK, HistoryOK
<1>3. ASSUME NEW h \in Handlers, RefuseInput(h)
      PROVE  HistoryOK'
  BY <1>3, <1>u DEF RefuseInput
<1>4. ASSUME NEW h \in Handlers, NEW specs \in SpecLists, NEW sets \in BOOLEAN,
            AuthorIntent(h, specs, sets)
      PROVE  HistoryOK'
  BY <1>4, <1>u DEF AuthorIntent
<1>5. ASSUME NEW h \in Handlers, NEW specs \in SpecLists, NEW sets \in BOOLEAN,
            EditIntent(h, specs, sets)
      PROVE  HistoryOK'
  BY <1>5 DEF EditIntent, TypeOK, HistoryOK
<1>6. ASSUME NEW h \in Handlers, GatePass(h)
      PROVE  HistoryOK'
  BY <1>6, <1>u DEF GatePass
<1>7. ASSUME NEW h \in Handlers, GateAsk(h)
      PROVE  HistoryOK'
  BY <1>7, <1>u DEF GateAsk
<1>8. ASSUME NEW h \in Handlers, GateSelected(h)
      PROVE  HistoryOK'
  BY <1>8, <1>u DEF GateSelected
<1>9. ASSUME NEW h \in Handlers, CallRecraft(h)
      PROVE  HistoryOK'
  BY <1>9 DEF CallRecraft, TypeOK, HistoryOK
<1>10. ASSUME NEW h \in Handlers, GateGenerated(h)
      PROVE  HistoryOK'
  BY <1>10 DEF GateGenerated, TypeOK, HistoryOK
<1>11. ASSUME NEW h \in Handlers, GateRaises(h)
      PROVE  HistoryOK'
  BY <1>11, <1>u DEF GateRaises
<1>12. ASSUME NEW h \in Handlers, ValidateOK(h)
      PROVE  HistoryOK'
  BY <1>12, <1>u DEF ValidateOK
<1>13. ASSUME NEW h \in Handlers, ValidateRetry(h)
      PROVE  HistoryOK'
  BY <1>13, <1>u DEF ValidateRetry
<1>14. ASSUME NEW h \in Handlers, ValidateGiveUp(h)
      PROVE  HistoryOK'
  BY <1>14, <1>u DEF ValidateGiveUp
<1>15. ASSUME NEW h \in Handlers, Commit(h)
      PROVE  HistoryOK'
  BY <1>15 DEF Commit, TypeOK, HistoryOK
<1>16. ASSUME NEW h \in Handlers, NodeRaises(h)
      PROVE  HistoryOK'
  BY <1>16, <1>u DEF NodeRaises
<1>17. ASSUME NEW h \in Handlers, NEW png \in BOOLEAN, PreviewsDone(h, png)
      PROVE  HistoryOK'
  BY <1>17, <1>u DEF PreviewsDone
<1>18. ASSUME NEW h \in Handlers, FabricRendered(h)
      PROVE  HistoryOK'
  BY <1>18 DEF FabricRendered, TypeOK, HistoryOK
<1>19. ASSUME NEW h \in Handlers, FinalizeRaises(h)
      PROVE  HistoryOK'
  BY <1>19, <1>u DEF FinalizeRaises
<1>20. ASSUME NEW h \in Handlers, CountFinalize(h)
      PROVE  HistoryOK'
  BY <1>20, <1>u DEF CountFinalize
<1>21. ASSUME NEW h \in Handlers, SelectMotif(h)
      PROVE  HistoryOK'
  BY <1>21, <1>u DEF SelectMotif
<1>22. ASSUME NEW h \in Handlers, ConfirmGenerate(h)
      PROVE  HistoryOK'
  BY <1>22, <1>u DEF ConfirmGenerate
<1>23. ASSUME NEW h \in Handlers, AcceptFinalize(h)
      PROVE  HistoryOK'
  BY <1>23, <1>u DEF AcceptFinalize
<1>25. ASSUME NEW h \in Handlers, VectorizeImages(h)
      PROVE  HistoryOK'
  BY <1>25 DEF VectorizeImages, TypeOK, HistoryOK
<1>24. CASE Crash
  BY <1>24 DEF Crash, TypeOK, HistoryOK
<1> QED
  BY <1>1, <1>2, <1>3, <1>4, <1>5, <1>6, <1>7, <1>8, <1>9, <1>10, <1>11,
     <1>12, <1>13, <1>14, <1>15, <1>16, <1>17, <1>18, <1>19, <1>20, <1>21,
     <1>22, <1>23, <1>24, <1>25
     DEF Next, Request, Work, Gate

LEMMA TypeInit == Init => TypeOK /\ FromOK
<1> SUFFICES ASSUME Init PROVE TypeOK /\ FromOK
  OBVIOUS
<1> USE BoundsAssumption
<1>1. <<>> \in Specs /\ <<>> \in Seq(Values) /\ Len(<<>>) = 0
  BY EmptySeq DEF Specs
<1>2. NoValues \in Values
  BY <1>1 DEF NoValues, Values, NoCandidates, Candidates
<1>3. ThreadOK
  BY <1>1, <1>2 DEF Init, ThreadOK, Nodes, NoTask, Answers
<1>4. ProcessOK
  BY NoMemType DEF Init, ProcessOK, Stages
<1>5. FromOK
  <2>1. Len(listed) = 0 /\ \A h \in Handlers : mem[h].from = 0
    BY <1>1, NoMemType DEF Init
  <2>2. 0 \in 0..0
    OBVIOUS
  <2> QED
    BY <2>1, <2>2 DEF FromOK
<1> QED
  BY <1>3, <1>4, <1>5 DEF Init, TypeOK, HistoryOK

\* A step, or a stutter, keeps the types.
LEMMA TypeStep == TypeOK /\ FromOK /\ [Next]_vars => TypeOK' /\ FromOK'
<1> SUFFICES ASSUME TypeOK, FromOK, [Next]_vars
             PROVE  TypeOK' /\ FromOK'
  OBVIOUS
<1>1. CASE Next
  BY <1>1, ThreadStep, ProcessStep, HistoryStep DEF TypeOK
<1>2. CASE UNCHANGED vars
  BY <1>2 DEF vars, thread, process, history, TypeOK, ThreadOK, ProcessOK,
              HistoryOK, FromOK
<1> QED
  BY <1>1, <1>2

\* Every variable of the session always has its type: the head and the listed
\* checkpoints are states of the session's schema, whatever is requested.
THEOREM TypeCorrect == Spec => []TypeOK
<1> QED
  BY TypeInit, TypeStep, PTL DEF Spec

-----------------------------------------------------------------------------
(* The in-flight lock.                                                     *)

\* Handler h goes on with its work.
Stay(h) ==
  /\ pc[h] # "idle"
  /\ inflight' = inflight
  /\ \E stage \in Stages \ {"idle"} : pc' = [pc EXCEPT ![h] = stage]
  /\ \A g \in Handlers \ {h} : mem'[g] = mem[g]

\* With respect to the lock, every step is of one of four kinds.
LEMMA StepShapes ==
  ASSUME TypeOK, Next
  PROVE  \/ \E h \in Handlers, stage \in Stages \ {"idle"}, m \in Memory :
              Enter(h, stage, m)
         \/ \E h \in Handlers : pc[h] # "idle" /\ Leave(h)
         \/ \E h \in Handlers : Stay(h)
         \/ Crash
<1> DEFINE Entered == \E h \in Handlers, stage \in Stages \ {"idle"}, m \in Memory :
                        Enter(h, stage, m)
           Left == \E h \in Handlers : pc[h] # "idle" /\ Leave(h)
           Stayed == \E h \in Handlers : Stay(h)
           Shaped == Entered \/ Left \/ Stayed \/ Crash
<1>t. pc \in [Handlers -> Stages] /\ mem \in [Handlers -> Memory]
  BY DEF TypeOK, ProcessOK
<1>s. ASSUME NEW h \in Handlers, pc[h] # "idle", UNCHANGED <<inflight, pc, mem>>
      PROVE  Shaped
  <2>1. pc' = [pc EXCEPT ![h] = pc[h]]
    BY <1>s, <1>t
  <2> QED
    BY <1>s, <1>t, <2>1 DEF Stay
<1>d. ASSUME NEW h \in Handlers, pc[h] # "idle", inflight' = inflight, pc' = pc,
             Decided(h)
      PROVE  Shaped
  <2>1. pc' = [pc EXCEPT ![h] = pc[h]]
    BY <1>d, <1>t
  <2>2. \A g \in Handlers \ {h} : mem'[g] = mem[g]
    BY <1>d, <1>t DEF Decided
  <2> QED
    BY <1>d, <1>t, <2>1, <2>2 DEF Stay
<1>1. ASSUME NEW h \in Handlers, NEW from \in 0..Len(listed),
            AcceptTurn(h, from)
      PROVE  Shaped
  <2>0. from \in Nat
    BY LenProperties DEF TypeOK, ThreadOK
  <2>1. [NoMem EXCEPT !.from = from] \in Memory /\ "accepted" \in Stages \ {"idle"}
    BY <2>0, NoMemType DEF Memory, Answers, Stages, TypeOK, ThreadOK, Values
  <2> QED
    BY <1>1, <2>1 DEF AcceptTurn
<1>2. ASSUME NEW h \in Handlers, NEW sets \in BOOLEAN, InvokeTurn(h, sets)
      PROVE  Shaped
  BY <1>2, <1>t DEF InvokeTurn, Stay, Stages
<1>3. ASSUME NEW h \in Handlers, RefuseInput(h)
      PROVE  Shaped
  BY <1>3 DEF RefuseInput
<1>4. ASSUME NEW h \in Handlers, NEW specs \in SpecLists, NEW sets \in BOOLEAN,
            AuthorIntent(h, specs, sets)
      PROVE  Shaped
  BY <1>4, <1>s DEF AuthorIntent, AtNode, Running
<1>5. ASSUME NEW h \in Handlers, NEW specs \in SpecLists, NEW sets \in BOOLEAN,
            EditIntent(h, specs, sets)
      PROVE  Shaped
  BY <1>5, <1>s DEF EditIntent, AtNode, Running, process
<1>6. ASSUME NEW h \in Handlers, GatePass(h)
      PROVE  Shaped
  BY <1>6, <1>d DEF GatePass, AtNode, Running
<1>7. ASSUME NEW h \in Handlers, GateAsk(h)
      PROVE  Shaped
  BY <1>7 DEF GateAsk, AtNode, Running
<1>8. ASSUME NEW h \in Handlers, GateSelected(h)
      PROVE  Shaped
  BY <1>8, <1>d DEF GateSelected, AtNode, Running
<1>9. ASSUME NEW h \in Handlers, CallRecraft(h)
      PROVE  Shaped
  BY <1>9, <1>s DEF CallRecraft, AtNode, Running, process
<1>10. ASSUME NEW h \in Handlers, GateGenerated(h)
      PROVE  Shaped
  BY <1>10, <1>d DEF GateGenerated, AtNode, Running
<1>11. ASSUME NEW h \in Handlers, GateRaises(h)
      PROVE  Shaped
  BY <1>11 DEF GateRaises, AtNode, Running
<1>12. ASSUME NEW h \in Handlers, ValidateOK(h)
      PROVE  Shaped
  BY <1>12, <1>s DEF ValidateOK, AtNode, Running, process
<1>13. ASSUME NEW h \in Handlers, ValidateRetry(h)
      PROVE  Shaped
  BY <1>13, <1>s DEF ValidateRetry, AtNode, Running, process
<1>14. ASSUME NEW h \in Handlers, ValidateGiveUp(h)
      PROVE  Shaped
  BY <1>14 DEF ValidateGiveUp, AtNode, Running
<1>15. ASSUME NEW h \in Handlers, Commit(h)
      PROVE  Shaped
  BY <1>15, <1>t DEF Commit, Stay, Stages, AtNode, Running
<1>16. ASSUME NEW h \in Handlers, NodeRaises(h)
      PROVE  Shaped
  BY <1>16 DEF NodeRaises, Running
<1>17. ASSUME NEW h \in Handlers, NEW png \in BOOLEAN, PreviewsDone(h, png)
      PROVE  Shaped
  BY <1>17 DEF PreviewsDone
<1>18. ASSUME NEW h \in Handlers, FabricRendered(h)
      PROVE  Shaped
  BY <1>18, <1>t DEF FabricRendered, Stay, Stages
<1>19. ASSUME NEW h \in Handlers, FinalizeRaises(h)
      PROVE  Shaped
  BY <1>19 DEF FinalizeRaises
<1>20. ASSUME NEW h \in Handlers, CountFinalize(h)
      PROVE  Shaped
  BY <1>20 DEF CountFinalize
<1>21. ASSUME NEW h \in Handlers, SelectMotif(h)
      PROVE  Shaped
  <2>1. [NoMem EXCEPT !.decision = "select"] \in Memory /\ "select" \in Stages \ {"idle"}
    BY NoMemType DEF Memory, Answers, Stages, TypeOK, ThreadOK, Values
  <2> QED
    BY <1>21, <2>1 DEF SelectMotif, Resume
<1>22. ASSUME NEW h \in Handlers, ConfirmGenerate(h)
      PROVE  Shaped
  <2>1. [NoMem EXCEPT !.decision = "generate"] \in Memory /\ "confirm" \in Stages \ {"idle"}
    BY NoMemType DEF Memory, Answers, Stages, TypeOK, ThreadOK, Values
  <2> QED
    BY <1>22, <2>1 DEF ConfirmGenerate, Resume
<1>23. ASSUME NEW h \in Handlers, AcceptFinalize(h)
      PROVE  Shaped
  <2>1. [NoMem EXCEPT !.cands = st.cands] \in Memory /\ "render" \in Stages \ {"idle"}
    BY NoMemType DEF Memory, Answers, Stages, TypeOK, ThreadOK, Values
  <2> QED
    BY <1>23, <2>1 DEF AcceptFinalize
<1>25. ASSUME NEW h \in Handlers, VectorizeImages(h)
      PROVE  Shaped
  BY <1>25, <1>s DEF VectorizeImages, AtNode, Running
<1>24. CASE Crash
  BY <1>24
<1> QED
  BY <1>1, <1>2, <1>3, <1>4, <1>5, <1>6, <1>7, <1>8, <1>9, <1>10, <1>11,
     <1>12, <1>13, <1>14, <1>15, <1>16, <1>17, <1>18, <1>19, <1>20, <1>21,
     <1>22, <1>23, <1>24, <1>25
     DEF Next, Request, Work, Gate

\* The handler that works is alone, the others hold nothing.
LEMMA Alone ==
  ASSUME OneOperation, IdleOK, NEW h \in Handlers, pc[h] # "idle"
  PROVE  \A g \in Handlers \ {h} : pc[g] = "idle" /\ mem[g] = NoMem
BY DEF OneOperation, IdleOK

\* A step keeps the lock: who enters found everybody idle, who leaves leaves
\* everybody idle.
LEMMA LockStep ==
  ASSUME TypeOK, OneOperation, IdleOK, [Next]_vars
  PROVE  OneOperation' /\ IdleOK'
<1>t. pc \in [Handlers -> Stages] /\ mem \in [Handlers -> Memory]
  BY DEF TypeOK, ProcessOK
<1>1. ASSUME NEW h \in Handlers, NEW stage \in Stages \ {"idle"}, NEW m \in Memory,
             Enter(h, stage, m)
      PROVE  OneOperation' /\ IdleOK'
  BY <1>1, <1>t DEF Enter, OneOperation, IdleOK
<1>2. ASSUME NEW h \in Handlers, pc[h] # "idle", Leave(h)
      PROVE  OneOperation' /\ IdleOK'
  BY <1>2, <1>t, Alone DEF Leave, OneOperation, IdleOK
<1>3. ASSUME NEW h \in Handlers, Stay(h)
      PROVE  OneOperation' /\ IdleOK'
  BY <1>3, <1>t, Alone DEF Stay, OneOperation, IdleOK
<1>4. CASE Crash
  BY <1>4 DEF Crash, OneOperation, IdleOK
<1>5. CASE UNCHANGED vars
  BY <1>5 DEF vars, process, OneOperation, IdleOK
<1> QED
  BY <1>1, <1>2, <1>3, <1>4, <1>5, StepShapes

LockInv == TypeOK /\ FromOK /\ OneOperation /\ IdleOK

LEMMA LockInit == Init => LockInv
BY TypeInit DEF Init, LockInv, OneOperation, IdleOK

LEMMA LockInvStep == LockInv /\ [Next]_vars => LockInv'
BY TypeStep, LockStep DEF LockInv

\* The in-flight lock serializes the operations of the session, for any number
\* of handlers and whatever crashes: it is held exactly while one works.
THEOREM OneOperationAlways == Spec => []OneOperation
<1>1. LockInv => OneOperation
  BY DEF LockInv
<1> QED
  BY LockInit, LockInvStep, <1>1, PTL DEF Spec

-----------------------------------------------------------------------------
(* The cost gate.                                                          *)

GateInv == DecisionOK /\ GateResumable

NoDecision == \A g \in Handlers : mem[g].decision = "none"

\* The steps that withdraw what was pending at the gate ...
Withdrawn ==
  /\ task' = NoTask
  /\ NoDecision'
  /\ st'.recraft = st.recraft
  /\ calls' = calls

\* ... and those that leave it alone.
LeftAlone ==
  /\ UNCHANGED thread
  /\ NoDecision'
  /\ calls' = calls

\* A decision is neither made nor kept outside the gate.
LEMMA DecisionGone ==
  ASSUME LockInv, NEW h \in Handlers, mem'[h].decision = "none",
         pc[h] # "idle" \/ ~inflight,
         \A g \in Handlers \ {h} : mem'[g] = mem[g]
  PROVE  NoDecision'
BY NoMemType DEF LockInv, OneOperation, IdleOK, NoDecision

\* A fork starts with what the head has spent.
LEMMA TurnBaseOK ==
  ASSUME TypeOK, FromOK, NEW h \in Handlers
  PROVE  /\ TurnBase(mem[h].from) \in Values
         /\ TurnBase(mem[h].from).recraft = st.recraft
         /\ TurnBase(mem[h].from).finalized = st.finalized
<1>1. /\ mem[h].from \in 0..Len(listed) /\ Len(listed) \in Nat
      /\ \A i \in 1..Len(listed) : listed[i] \in Values
      /\ st \in Values
  BY ElementOfSeq, LenProperties DEF TypeOK, ThreadOK, FromOK
<1>2. TurnBase(mem[h].from) \in Values
  BY <1>1, TurnBaseType DEF TypeOK
<1>3. CASE mem[h].from = 0
  BY <1>2, <1>3 DEF TurnBase
<1>4. CASE mem[h].from # 0
  <2>1. listed[mem[h].from] \in Values
    BY <1>1, <1>4
  <2> QED
    BY <1>2, <1>4, <2>1 DEF TurnBase, Values
<1> QED
  BY <1>3, <1>4, <1>2

\* What a step does to the gate.
LEMMA GateEffects ==
  ASSUME LockInv, GateInv, Next
  PROVE  \/ Withdrawn
         \/ LeftAlone
         \/ \E h \in Handlers :
              \/ GateAsk(h) \/ CallRecraft(h) \/ GateGenerated(h)
              \/ GateRaises(h) \/ SelectMotif(h) \/ ConfirmGenerate(h)
<1> DEFINE Special == \E h \in Handlers :
              \/ GateAsk(h) \/ CallRecraft(h) \/ GateGenerated(h)
              \/ GateRaises(h) \/ SelectMotif(h) \/ ConfirmGenerate(h)
           Goal == Withdrawn \/ LeftAlone \/ Special
<1>t. /\ mem \in [Handlers -> Memory] /\ pc \in [Handlers -> Stages]
      /\ st \in Values
      /\ NoMem \in Memory /\ NoMem.decision = "none"
  BY NoMemType DEF LockInv, TypeOK, ProcessOK, ThreadOK
<1>e. ASSUME NEW h \in Handlers, NEW stage, NEW m \in Memory, m.decision = "none",
             Enter(h, stage, m)
      PROVE  NoDecision'
  BY <1>t, <1>e, DecisionGone DEF Enter
<1>l. ASSUME NEW h \in Handlers, pc[h] # "idle", Leave(h)
      PROVE  NoDecision'
  BY <1>t, <1>l, DecisionGone DEF Leave
<1>d. ASSUME NEW h \in Handlers, pc[h] # "idle", Decided(h)
      PROVE  NoDecision'
  BY <1>t, <1>d, DecisionGone DEF Decided, Memory
<1>k. ASSUME NEW h \in Handlers, pc[h] # "idle", mem' = mem,
             pc[h] \notin {"select", "confirm"} \/ next # "gate"
      PROVE  NoDecision'
  BY <1>t, <1>k, DecisionGone DEF GateInv, DecisionOK
<1>1. ASSUME NEW h \in Handlers, NEW from \in 0..Len(listed),
            AcceptTurn(h, from)
      PROVE  Goal
  <2>1. from \in Nat
    BY LenProperties DEF LockInv, TypeOK, ThreadOK
  <2>2. [NoMem EXCEPT !.from = from] \in Memory
        /\ [NoMem EXCEPT !.from = from].decision = "none"
    BY <1>t, <2>1 DEF Memory
  <2> QED
    BY <1>1, <1>e, <2>2 DEF AcceptTurn, LeftAlone, history
<1>2. ASSUME NEW h \in Handlers, NEW sets \in BOOLEAN, InvokeTurn(h, sets)
      PROVE  Goal
  <2>1. TurnBase(mem[h].from) \in Values
        /\ TurnBase(mem[h].from).recraft = st.recraft
    BY <1>t, TurnBaseOK DEF LockInv
  <2>2. st'.recraft = st.recraft
    BY <1>2, <2>1 DEF InvokeTurn, Values
  <2> QED
    BY <1>2, <1>k, <2>2 DEF InvokeTurn, Withdrawn
<1>3. ASSUME NEW h \in Handlers, RefuseInput(h)
      PROVE  Goal
  BY <1>3, <1>l DEF RefuseInput, LeftAlone, history
<1>4. ASSUME NEW h \in Handlers, NEW specs \in SpecLists, NEW sets \in BOOLEAN,
            AuthorIntent(h, specs, sets)
      PROVE  Goal
  BY <1>4, <1>t, <1>k DEF AuthorIntent, Save, Withdrawn, history, Values, AtNode, Running
<1>5. ASSUME NEW h \in Handlers, NEW specs \in SpecLists, NEW sets \in BOOLEAN,
            EditIntent(h, specs, sets)
      PROVE  Goal
  BY <1>5, <1>t, <1>k DEF EditIntent, Save, Withdrawn, process, history, Values, AtNode, Running, EditUpdates
<1>6. ASSUME NEW h \in Handlers, GatePass(h)
      PROVE  Goal
  BY <1>6, <1>t, <1>d DEF GatePass, Save, Withdrawn, history, Values, AtNode, Running
<1>7. ASSUME NEW h \in Handlers, GateAsk(h)
      PROVE  Goal
  BY <1>7
<1>8. ASSUME NEW h \in Handlers, GateSelected(h)
      PROVE  Goal
  BY <1>8, <1>t, <1>d DEF GateSelected, Save, Withdrawn, history, Values, AtNode, Running
<1>9. ASSUME NEW h \in Handlers, CallRecraft(h)
      PROVE  Goal
  BY <1>9
<1>10. ASSUME NEW h \in Handlers, GateGenerated(h)
      PROVE  Goal
  BY <1>10
<1>11. ASSUME NEW h \in Handlers, GateRaises(h)
      PROVE  Goal
  BY <1>11
<1>12. ASSUME NEW h \in Handlers, ValidateOK(h)
      PROVE  Goal
  BY <1>12, <1>t, <1>k DEF ValidateOK, Save, Withdrawn, process, history, Values, AtNode, Running
<1>13. ASSUME NEW h \in Handlers, ValidateRetry(h)
      PROVE  Goal
  BY <1>13, <1>t, <1>k DEF ValidateRetry, Save, Withdrawn, process, history, Values, AtNode, Running
<1>14. ASSUME NEW h \in Handlers, ValidateGiveUp(h)
      PROVE  Goal
  BY <1>14, <1>t, <1>l DEF ValidateGiveUp, Save, Withdrawn, history, Values, AtNode, Running
<1>15. ASSUME NEW h \in Handlers, Commit(h)
      PROVE  Goal
  <2>1. NoDecision'
    BY <1>15, <1>t, DecisionGone DEF Commit, Memory, GateInv, DecisionOK, AtNode, Running
  <2>2. st'.recraft = st.recraft
    BY <1>15, <1>t DEF Commit, Save, Values
  <2> QED
    BY <1>15, <2>1, <2>2 DEF Commit, Save, Withdrawn
<1>16. ASSUME NEW h \in Handlers, NodeRaises(h)
      PROVE  Goal
  BY <1>16, <1>l DEF NodeRaises, LeftAlone, history, Running
<1>17. ASSUME NEW h \in Handlers, NEW png \in BOOLEAN, PreviewsDone(h, png)
      PROVE  Goal
  BY <1>17, <1>t, <1>l DEF PreviewsDone, UpdateState, Withdrawn, history, Values
<1>18. ASSUME NEW h \in Handlers, FabricRendered(h)
      PROVE  Goal
  BY <1>18, <1>k DEF FabricRendered, LeftAlone
<1>19. ASSUME NEW h \in Handlers, FinalizeRaises(h)
      PROVE  Goal
  BY <1>19, <1>l DEF FinalizeRaises, LeftAlone, history
<1>20. ASSUME NEW h \in Handlers, CountFinalize(h)
      PROVE  Goal
  BY <1>20, <1>t, <1>l DEF CountFinalize, UpdateState, Withdrawn, history, Values
<1>21. ASSUME NEW h \in Handlers, SelectMotif(h)
      PROVE  Goal
  BY <1>21
<1>22. ASSUME NEW h \in Handlers, ConfirmGenerate(h)
      PROVE  Goal
  BY <1>22
<1>23. ASSUME NEW h \in Handlers, AcceptFinalize(h)
      PROVE  Goal
  <2>1. [NoMem EXCEPT !.cands = st.cands] \in Memory
        /\ [NoMem EXCEPT !.cands = st.cands].decision = "none"
    BY <1>t DEF Memory, Values
  <2> QED
    BY <1>23, <1>e, <2>1 DEF AcceptFinalize, LeftAlone, history
<1>25. ASSUME NEW h \in Handlers, VectorizeImages(h)
      PROVE  Goal
  BY <1>25, <1>k DEF VectorizeImages, LeftAlone, AtNode, Running
<1>24. CASE Crash
  BY <1>24, <1>t DEF Crash, LeftAlone, NoDecision
<1> QED
  BY <1>1, <1>2, <1>3, <1>4, <1>5, <1>6, <1>7, <1>8, <1>9, <1>10, <1>11,
     <1>12, <1>13, <1>14, <1>15, <1>16, <1>17, <1>18, <1>19, <1>20, <1>21,
     <1>22, <1>23, <1>24, <1>25
     DEF Next, Request, Work, Gate

\* An approval is only given with room in the budget and at a gate, and goes
\* with the decision.
LEMMA GateInvStep ==
  ASSUME LockInv, GateInv, [Next]_vars
  PROVE  GateInv'
<1>t. /\ mem \in [Handlers -> Memory] /\ pc \in [Handlers -> Stages]
      /\ st \in Values /\ task \in [asked : BOOLEAN, answer : Answers]
      /\ NoMem \in Memory /\ NoMem.decision = "none"
  BY NoMemType DEF LockInv, TypeOK, ProcessOK, ThreadOK
<1>n. ASSUME NoDecision' PROVE DecisionOK'
  BY <1>n DEF NoDecision, DecisionOK
<1>1. CASE Withdrawn
  BY <1>1, <1>n DEF Withdrawn, GateInv, GateResumable, Approved, NoDecision, NoTask
<1>2. CASE LeftAlone
  BY <1>2, <1>n DEF LeftAlone, thread, GateInv, GateResumable, Approved, NoDecision
<1>3. ASSUME NEW h \in Handlers, GateAsk(h)
      PROVE  GateInv'
  <2>1. NoDecision'
    BY <1>3, <1>t, DecisionGone DEF GateAsk, AtNode, Running, Leave
  <2>2. Approved' => Approved
    BY <1>3, <1>t, <2>1 DEF GateAsk, Approved, NoDecision
  <2> QED
    BY <1>3, <1>n, <1>t, <2>1, <2>2 DEF GateAsk, AtNode, GateInv, GateResumable
<1>4. ASSUME NEW h \in Handlers, CallRecraft(h)
      PROVE  GateInv'
  BY <1>4 DEF CallRecraft, thread, GateInv, GateResumable, DecisionOK, Approved
<1>5. ASSUME NEW h \in Handlers, GateGenerated(h)
      PROVE  GateInv'
  <2>1. NoDecision' /\ task' = NoTask
    BY <1>5, <1>t, DecisionGone
       DEF GateGenerated, AtNode, Running, Decided, Save, Memory
  <2> QED
    BY <1>n, <2>1 DEF GateInv, GateResumable, Approved, NoDecision, NoTask
<1>6. ASSUME NEW h \in Handlers, GateRaises(h)
      PROVE  GateInv'
  <2>1. NoDecision'
    BY <1>6, <1>t, DecisionGone DEF GateRaises, AtNode, Running, Leave
  <2>2. Approved
    BY <1>6 DEF GateRaises, Decision, Approved
  <2> QED
    BY <1>6, <1>n, <1>t, <2>1, <2>2 DEF GateRaises, AtNode, GateInv, GateResumable
<1>7. ASSUME NEW h \in Handlers, SelectMotif(h)
      PROVE  GateInv'
  <2>1. mem' = [mem EXCEPT ![h] = [NoMem EXCEPT !.decision = "select"]]
        /\ pc' = [pc EXCEPT ![h] = "select"] /\ UNCHANGED thread /\ next = "gate"
    BY <1>7 DEF SelectMotif, Resume, Enter, GateInv, GateResumable
  <2>2. DecisionOK'
    BY <1>t, <2>1 DEF GateInv, DecisionOK, thread, Memory
  <2>3. Approved' => Approved
    BY <1>t, <2>1 DEF Approved, thread, Memory
  <2> QED
    BY <2>1, <2>2, <2>3 DEF GateInv, GateResumable, thread
<1>8. ASSUME NEW h \in Handlers, ConfirmGenerate(h)
      PROVE  GateInv'
  <2>1. mem' = [mem EXCEPT ![h] = [NoMem EXCEPT !.decision = "generate"]]
        /\ pc' = [pc EXCEPT ![h] = "confirm"] /\ UNCHANGED thread /\ next = "gate"
    BY <1>8 DEF ConfirmGenerate, Resume, Enter, AwaitingGate, GateInv, GateResumable
  <2>2. DecisionOK'
    BY <1>t, <2>1 DEF GateInv, DecisionOK, thread, Memory
  <2>3. st.recraft < RecraftLimit
    BY <1>8 DEF ConfirmGenerate, BudgetLeft
  <2> QED
    BY <2>1, <2>2, <2>3 DEF GateInv, GateResumable, thread
<1>9. CASE UNCHANGED vars
  BY <1>9 DEF vars, thread, process, GateInv, DecisionOK, GateResumable, Approved
<1> QED
  BY <1>1, <1>2, <1>3, <1>4, <1>5, <1>6, <1>7, <1>8, <1>9, GateEffects

LEMMA GateInit == Init => GateInv
BY NoMemType DEF Init, GateInv, DecisionOK, GateResumable, Approved, NoTask

\* A gate that has asked keeps its spec, and an approved generation keeps its
\* place in the budget until it is recorded, also when it fails and is tried
\* again in a later request, or when the process dies in between.
THEOREM GateResumableAlways == Spec => []GateResumable
<1>1. GateInv => GateResumable
  BY DEF GateInv
<1>2. LockInv /\ GateInv /\ [Next]_vars => LockInv' /\ GateInv'
  BY LockInvStep, GateInvStep
<1> QED
  BY LockInit, GateInit, <1>1, <1>2, PTL DEF Spec

-----------------------------------------------------------------------------
(* The session implements the cost gate.                                   *)

\* The author node belongs to sessions without a design, and a session that has
\* listed a checkpoint has a design, wherever it forks to.
IntentOK ==
  /\ next = "author" => st.intent = 0
  /\ listed # <<>> => st.intent # 0
  /\ \A i \in 1..Len(listed) : listed[i].intent # 0

LEMMA IntentInit == Init => IntentOK
BY EmptySeq DEF Init, IntentOK

\* What a saved checkpoint does to the listing.
LEMMA IntentSaved ==
  ASSUME ThreadOK, IntentOK, NEW v \in Values, NEW n, n # "author", Save(v, n),
         st.intent # 0 => v.intent # 0
  PROVE  IntentOK'
<1>1. /\ st' = v /\ next' = n
      /\ listed' = listed \/ (listed' = Append(listed, v) /\ v.intent # 0)
  BY DEF Save, Listed, TurnBoundary
<1>2. CASE listed' = listed
  BY <1>1, <1>2 DEF IntentOK
<1>3. CASE listed' = Append(listed, v) /\ v.intent # 0
  <2>1. listed \in Seq(Values)
    BY DEF ThreadOK
  <2>2. \A i \in 1..Len(listed') : listed'[i] = v \/ (i \in 1..Len(listed)
                                                       /\ listed'[i] = listed[i])
    BY <1>3, <2>1, AppendProperties, LenProperties
  <2> QED
    BY <1>1, <1>3, <2>2 DEF IntentOK
<1> QED
  BY <1>1, <1>2, <1>3

\* Only a commit gives the session a design, and only author_intent has images
\* vectorized.
LEMMA IntentStep ==
  ASSUME LockInv, IntentOK, [Next]_vars
  PROVE  /\ IntentOK'
         /\ \/ uploads' = uploads /\ (st'.intent # 0 <=> st.intent # 0)
            \/ \E h \in Handlers : VectorizeImages(h) \/ Commit(h)
<1> DEFINE Kept == uploads' = uploads /\ (st'.intent # 0 <=> st.intent # 0)
           Made == \E h \in Handlers : VectorizeImages(h) \/ Commit(h)
           Goal == IntentOK' /\ (Kept \/ Made)
<1>t. /\ ThreadOK /\ st \in Values /\ commits \in Nat
      /\ mem \in [Handlers -> Memory]
  BY DEF LockInv, TypeOK, ThreadOK, ProcessOK, HistoryOK
<1>u. ASSUME UNCHANGED <<next, listed>>, st'.intent = st.intent, uploads' = uploads
      PROVE  Goal
  BY <1>u DEF IntentOK
<1>k. ASSUME UNCHANGED thread, uploads' = uploads
      PROVE  Goal
  BY <1>k, <1>u DEF thread
<1>s. ASSUME NEW v \in Values, NEW n, n # "author", Save(v, n),
             v.intent = st.intent, uploads' = uploads
      PROVE  Goal
  <2>1. IntentOK'
    BY <1>s, <1>t, IntentSaved
  <2> QED
    BY <1>s, <2>1 DEF Save
<1>v. ASSUME NEW v \in Values, UpdateState(v), v.intent = st.intent, uploads' = uploads
      PROVE  Goal
  BY <1>v, <1>u DEF UpdateState
<1>1. ASSUME NEW h \in Handlers, Request(h)
      PROVE  Goal
  BY <1>1, <1>k DEF Request, AcceptTurn, SelectMotif, ConfirmGenerate, AcceptFinalize,
                    history
<1>2. ASSUME NEW h \in Handlers, NEW sets \in BOOLEAN, InvokeTurn(h, sets)
      PROVE  Goal
  <2> DEFINE base == TurnBase(mem[h].from)
  <2>1. base \in Values /\ mem[h].from \in 0..Len(listed) /\ Len(listed) \in Nat
    BY TurnBaseOK, LenProperties DEF LockInv, FromOK, TypeOK, ThreadOK
  <2>2. /\ st'.intent = base.intent /\ next' = Entry(base)
        /\ UNCHANGED <<listed, uploads>>
    BY <1>2, <2>1 DEF InvokeTurn, Values
  <2>3. base.intent # 0 <=> st.intent # 0
    <3>1. CASE mem[h].from = 0
      BY <3>1 DEF TurnBase
    <3>2. CASE mem[h].from # 0
      <4>1. mem[h].from \in 1..Len(listed) /\ listed # <<>>
        BY <2>1, <3>2, EmptySeq
      <4>2. listed[mem[h].from] \in Values
        BY <1>t, <4>1, ElementOfSeq DEF ThreadOK
      <4>3. base.intent = listed[mem[h].from].intent
        BY <3>2, <4>2 DEF TurnBase, Values
      <4> QED
        BY <4>1, <4>3 DEF IntentOK
    <3> QED
      BY <3>1, <3>2
  <2>4. next' = "author" => st'.intent = 0
    BY <2>2 DEF Entry
  <2> QED
    BY <2>2, <2>3, <2>4 DEF IntentOK
<1>3. ASSUME NEW h \in Handlers, VectorizeImages(h)
      PROVE  Goal
  BY <1>3 DEF VectorizeImages, thread, IntentOK
<1>4. ASSUME NEW h \in Handlers, NEW specs \in SpecLists, NEW sets \in BOOLEAN,
             AuthorIntent(h, specs, sets) \/ EditIntent(h, specs, sets)
      PROVE  Goal
  <2>1. specs \in Specs /\ turn \in Nat
    BY SpecListsAreSpecs DEF LockInv, TypeOK, HistoryOK
  <2>2. CASE AuthorIntent(h, specs, sets)
    <3> DEFINE v == [st EXCEPT !.specs = specs,
                               !.side = IF sets THEN turn ELSE st.side,
                               !.errors = FALSE, !.retried = FALSE]
    <3>1. v \in Values /\ v.intent = st.intent
      BY <1>t, <2>1 DEF Values
    <3>2. Save(v, "gate") /\ uploads' = uploads
      BY <2>2 DEF AuthorIntent, history
    <3> HIDE DEF v
    <3> QED
      BY <1>s, <3>1, <3>2
  <2>3. CASE EditIntent(h, specs, sets)
    <3>1. EditUpdates(specs, sets) \in Values
          /\ EditUpdates(specs, sets).intent = st.intent
      BY <1>t, <2>1 DEF Values, EditUpdates
    <3>2. Save(EditUpdates(specs, sets), "gate") /\ uploads' = uploads
      BY <2>3 DEF EditIntent
    <3> QED
      BY <1>s, <3>1, <3>2
  <2> QED
    BY <1>4, <2>2, <2>3
<1>5. ASSUME NEW h \in Handlers, Gate(h)
      PROVE  Goal
  <2>1. CASE GatePass(h)
    BY <1>s, <1>t, <2>1 DEF GatePass, history
  <2>2. CASE GateAsk(h) \/ CallRecraft(h) \/ GateRaises(h)
    BY <1>u, <2>2 DEF GateAsk, CallRecraft, GateRaises, thread, history
  <2>3. CASE GateSelected(h)
    <3> DEFINE v == [st EXCEPT !.specs = Tail(@)]
    <3>1. v \in Values /\ v.intent = st.intent
      BY <1>t, <2>3, TailOfSpecs DEF GateSelected, Values
    <3>2. Save(v, AfterGate(v)) /\ uploads' = uploads
      BY <2>3 DEF GateSelected, history
    <3>3. AfterGate(v) # "author"
      BY DEF AfterGate
    <3> HIDE DEF v
    <3> QED
      BY <1>s, <3>1, <3>2, <3>3
  <2>4. CASE GateGenerated(h)
    <3> DEFINE v == [st EXCEPT !.specs = Tail(@), !.recraft = @ + 1]
    <3>1. v \in Values /\ v.intent = st.intent
      <4>1. Tail(st.specs) \in Specs /\ st.recraft + 1 \in Nat
        BY <1>t, <2>4, TailOfSpecs DEF GateGenerated, Values
      <4> QED
        BY <1>t, <4>1 DEF Values
    <3>2. Save(v, AfterGate(v)) /\ uploads' = uploads
      BY <2>4 DEF GateGenerated
    <3>3. AfterGate(v) # "author"
      BY DEF AfterGate
    <3> HIDE DEF v
    <3> QED
      BY <1>s, <3>1, <3>2, <3>3
  <2> QED
    BY <1>5, <2>1, <2>2, <2>3, <2>4 DEF Gate
<1>6. ASSUME NEW h \in Handlers, ValidateOK(h) \/ ValidateRetry(h) \/ ValidateGiveUp(h)
      PROVE  Goal
  <2>1. \A e \in BOOLEAN : /\ [st EXCEPT !.errors = e] \in Values
                           /\ [st EXCEPT !.errors = e].intent = st.intent
    BY <1>t DEF Values
  <2>2. \E e \in BOOLEAN, n \in {"commit", "edit", "end"} : Save([st EXCEPT !.errors = e], n)
    BY <1>6 DEF ValidateOK, ValidateRetry, ValidateGiveUp
  <2> QED
    BY <1>6, <1>s, <2>1, <2>2 DEF ValidateOK, ValidateRetry, ValidateGiveUp, history
<1>7. ASSUME NEW h \in Handlers, Commit(h)
      PROVE  Goal
  <2> DEFINE id == commits + 1
             made == [of |-> id, side |-> st.side, png |-> FALSE]
             v == [st EXCEPT !.intent = id, !.cands = made, !.batch = id,
                             !.specs = <<>>, !.errors = FALSE, !.retried = FALSE]
  <2>1. id \in Nat /\ id # 0 /\ made \in Candidates /\ <<>> \in Specs
    BY <1>t, EmptySeq, BoundsAssumption DEF Candidates, Values, Specs
  <2>2. v \in Values /\ v.intent # 0
    BY <1>t, <2>1 DEF Values
  <2>3. Save(v, "end")
    BY <1>7 DEF Commit
  <2> HIDE DEF v
  <2>4. IntentOK'
    BY <1>t, <2>2, <2>3, IntentSaved
  <2> QED
    BY <1>7, <2>4
<1>8. ASSUME NEW h \in Handlers,
             \/ RefuseInput(h) \/ NodeRaises(h) \/ FabricRendered(h) \/ FinalizeRaises(h)
      PROVE  Goal
  BY <1>8, <1>k DEF RefuseInput, NodeRaises, FabricRendered, FinalizeRaises, history
<1>9. ASSUME NEW h \in Handlers, NEW png \in BOOLEAN, PreviewsDone(h, png)
      PROVE  Goal
  <2> DEFINE v == [st EXCEPT !.cands = [mem[h].cands EXCEPT !.png = png], !.batch = 0]
  <2>1. v \in Values /\ v.intent = st.intent
    BY <1>t DEF Memory, Candidates, Values
  <2>2. UpdateState(v) /\ uploads' = uploads
    BY <1>9 DEF PreviewsDone, history
  <2> HIDE DEF v
  <2> QED
    BY <1>v, <2>1, <2>2
<1>10. ASSUME NEW h \in Handlers, CountFinalize(h)
       PROVE  Goal
  <2> DEFINE v == [st EXCEPT !.finalized = @ + 1]
  <2>1. v \in Values /\ v.intent = st.intent
    <3>1. st.finalized + 1 \in Nat
      BY <1>t DEF Values
    <3> QED
      BY <1>t, <3>1 DEF Values
  <2>2. UpdateState(v) /\ uploads' = uploads
    BY <1>10 DEF CountFinalize, history
  <2> HIDE DEF v
  <2> QED
    BY <1>v, <2>1, <2>2
<1>11. CASE Crash
  BY <1>11, <1>k DEF Crash
<1>12. CASE UNCHANGED vars
  BY <1>12, <1>k DEF vars, history
<1> QED
  BY <1>1, <1>2, <1>3, <1>4, <1>5, <1>6, <1>7, <1>8, <1>9, <1>10, <1>11, <1>12
     DEF Next, Work

LEMMA CostGateInit == Init => CostGate!Init
BY NoMemType DEF Init, CostGate!Init, Approved, NoTask, NoValues

\* Every step of the session is a step of the gate, or none: a failed
\* generation withdraws nothing, a retry of it needs no new approval.
LEMMA CostGateStep ==
  ASSUME LockInv, GateInv, IntentOK, [Next]_vars
  PROVE  [CostGate!Next]_(CostGate!vars)
<1> USE DEF CostGate!Next, CostGate!vars
<1>t. /\ mem \in [Handlers -> Memory] /\ pc \in [Handlers -> Stages]
      /\ st \in Values /\ task \in [asked : BOOLEAN, answer : Answers]
      /\ NoMem \in Memory /\ NoMem.decision = "none"
  BY NoMemType DEF LockInv, TypeOK, ProcessOK, ThreadOK
<1> DEFINE Kept == uploads' = uploads /\ (st'.intent # 0) = (st.intent # 0)
<1>i. Kept \/ \E h \in Handlers : VectorizeImages(h) \/ Commit(h)
  BY IntentStep
<1>w. ASSUME Kept, st'.recraft = st.recraft, calls' = calls, Approved' => Approved
      PROVE  [CostGate!Next]_(CostGate!vars)
  <2>1. Approved \in BOOLEAN /\ Approved' \in BOOLEAN
    BY DEF Approved
  <2> QED
    BY <1>w, <2>1 DEF CostGate!Withdraw
<1>v. ASSUME NEW h \in Handlers, VectorizeImages(h)
      PROVE  [CostGate!Next]_(CostGate!vars)
  <2>1. st' = st /\ st.intent = 0 /\ calls' = calls /\ uploads' = uploads + 1
    BY <1>v DEF VectorizeImages, AtNode, IntentOK, thread
  <2>2. Approved' = Approved
    BY <1>v DEF VectorizeImages, Approved, thread
  <2> QED
    BY <2>1, <2>2 DEF CostGate!Upload
<1>c. ASSUME NEW h \in Handlers, Commit(h)
      PROVE  [CostGate!Next]_(CostGate!vars)
  <2>1. NoDecision' /\ task' = NoTask
    BY <1>c, <1>t, DecisionGone
       DEF Commit, Save, Memory, GateInv, DecisionOK, AtNode, Running
  <2>2. Approved' = FALSE
    BY <2>1 DEF Approved, NoDecision, NoTask
  <2>3. st'.intent # 0
    BY <1>c, <1>t DEF Commit, Save, Values, LockInv, TypeOK, HistoryOK
  <2>4. st'.recraft = st.recraft /\ calls' = calls /\ uploads' = uploads
    BY <1>c, <1>t DEF Commit, Save, Values
  <2> QED
    BY <2>2, <2>3, <2>4 DEF CostGate!Commit
<1>1. CASE Kept /\ Withdrawn
  BY <1>1, <1>w DEF Withdrawn, Approved, NoDecision, NoTask
<1>2. CASE Kept /\ LeftAlone
  BY <1>2, <1>w DEF LeftAlone, thread, Approved, NoDecision
<1>3. ASSUME Kept, NEW h \in Handlers, GateAsk(h)
      PROVE  [CostGate!Next]_(CostGate!vars)
  <2>1. NoDecision'
    BY <1>3, <1>t, DecisionGone DEF GateAsk, AtNode, Running, Leave
  <2> QED
    BY <1>3, <1>t, <1>w, <2>1 DEF GateAsk, Approved, NoDecision, history
<1>4. ASSUME Kept, NEW h \in Handlers, CallRecraft(h)
      PROVE  [CostGate!Next]_(CostGate!vars)
  <2>1. Approved /\ Approved' = Approved
    BY <1>4 DEF CallRecraft, Decision, Approved, thread
  <2>2. CostGate!Call
    BY <1>4, <2>1 DEF CallRecraft, CostGate!Call, thread
  <2> QED
    BY <2>2
<1>5. ASSUME Kept, NEW h \in Handlers, GateGenerated(h)
      PROVE  [CostGate!Next]_(CostGate!vars)
  <2>1. Approved
    BY <1>5 DEF GateGenerated, Decision, Approved
  <2>2. NoDecision' /\ task' = NoTask
    BY <1>5, <1>t, DecisionGone
       DEF GateGenerated, AtNode, Running, Decided, Save, Memory
  <2>3. Approved' = FALSE
    BY <2>2 DEF Approved, NoDecision, NoTask
  <2>4. st'.recraft = st.recraft + 1 /\ calls' = calls
    BY <1>5, <1>t DEF GateGenerated, Save, Values
  <2> QED
    BY <1>5, <2>1, <2>3, <2>4 DEF CostGate!Record
<1>6. ASSUME Kept, NEW h \in Handlers, GateRaises(h)
      PROVE  [CostGate!Next]_(CostGate!vars)
  <2>1. Approved
    BY <1>6 DEF GateRaises, Decision, Approved
  <2> QED
    BY <1>6, <1>w, <2>1 DEF GateRaises, history
<1>7. ASSUME Kept, NEW h \in Handlers, SelectMotif(h)
      PROVE  [CostGate!Next]_(CostGate!vars)
  <2>1. mem' = [mem EXCEPT ![h] = [NoMem EXCEPT !.decision = "select"]]
    BY <1>7 DEF SelectMotif, Resume, Enter
  <2>2. Approved' => Approved
    BY <1>7, <1>t, <2>1 DEF SelectMotif, Approved, thread, Memory
  <2> QED
    BY <1>7, <1>w, <2>2 DEF SelectMotif, thread, history
<1>8. ASSUME Kept, NEW h \in Handlers, ConfirmGenerate(h)
      PROVE  [CostGate!Next]_(CostGate!vars)
  <2>1. mem' = [mem EXCEPT ![h] = [NoMem EXCEPT !.decision = "generate"]]
    BY <1>8 DEF ConfirmGenerate, Resume, Enter
  <2>2. Approved'
    BY <1>t, <2>1 DEF Approved, Memory
  <2>3. st.recraft < RecraftLimit /\ st' = st /\ calls' = calls
    BY <1>8 DEF ConfirmGenerate, BudgetLeft, thread, history
  <2>4. CASE Approved
    BY <1>8, <1>w, <2>3, <2>4
  <2>5. CASE ~Approved
    BY <1>8, <2>2, <2>3, <2>5 DEF CostGate!Grant
  <2> QED
    BY <2>4, <2>5
<1>9. CASE UNCHANGED vars
  BY <1>9, <1>w DEF vars, thread, process, history, Approved
<1> QED
  BY <1>1, <1>2, <1>3, <1>4, <1>5, <1>6, <1>7, <1>8, <1>9, <1>c, <1>i, <1>v, GateEffects

\* The session implements the cost gate for any limit and any bounds: a
\* generation is asked for under an outstanding approval only, no approval
\* exceeds the ceiling, each pays for at most one recorded generation, no fork,
\* failure or crash gives a recorded one back, and from its first design on a
\* session has nothing vectorized: no fork brings it back to the author node.
THEOREM SessionImplementsCostGate == Spec => CostGateSpec
<1>1. LockInv /\ GateInv /\ IntentOK /\ [Next]_vars => LockInv' /\ GateInv' /\ IntentOK'
  BY LockInvStep, GateInvStep, IntentStep
<1>2. LockInv /\ GateInv /\ IntentOK /\ [Next]_vars => [CostGate!Next]_(CostGate!vars)
  BY CostGateStep
<1> QED
  BY LockInit, GateInit, IntentInit, CostGateInit, <1>1, <1>2, PTL
     DEF Spec, CostGateSpec, CostGate!Spec

\* The ceiling holds through the refinement, with the approval that is still
\* outstanding counted in: a confirm can always record what it pays for.
THEOREM SpendWithinLimit == Spec => []CostGate!WithinLimit
<1> USE LimitsAssumption
<1>1. CostGate!Init => CostGate!WithinLimit
  BY DEF CostGate!Init, CostGate!WithinLimit
<1>2. CostGate!WithinLimit /\ [CostGate!Next]_(CostGate!vars)
        => CostGate!WithinLimit'
  BY DEF CostGate!WithinLimit, CostGate!Next, CostGate!Grant, CostGate!Call,
         CostGate!Record, CostGate!Withdraw, CostGate!Upload, CostGate!Commit,
         CostGate!vars
<1>3. Spec => CostGate!Spec
  BY SessionImplementsCostGate DEF CostGateSpec
<1> QED
  BY <1>1, <1>2, <1>3, PTL DEF CostGate!Spec

-----------------------------------------------------------------------------
(* What a call to Recraft rests on.                                        *)

\* A confirm alone brings the decision to generate, and one that is kept
\* without its interrupt is never run.
ApprovalOK ==
  /\ \A h \in Handlers : mem[h].decision = "generate" => pc[h] = "confirm"
  /\ task.answer # "none" /\ ~task.asked => \A h \in Handlers : pc[h] \notin Running

\* A run of the graph starts with a turn, which withdraws what was pending, or
\* with a resume.
LEMMA RunsStart ==
  ASSUME LockInv, Next, NEW h \in Handlers, pc'[h] \in Running
  PROVE  pc[h] \in Running \/ task' = NoTask \/ SelectMotif(h) \/ ConfirmGenerate(h)
<1> DEFINE Started == pc[h] \in Running \/ task' = NoTask
                      \/ SelectMotif(h) \/ ConfirmGenerate(h)
<1>t. pc \in [Handlers -> Stages]
  BY DEF LockInv, TypeOK, ProcessOK
<1>k. ASSUME pc' = pc
      PROVE  Started
  BY <1>k
<1>m. ASSUME NEW g \in Handlers, NEW stage \in Stages \ Running,
             pc' = [pc EXCEPT ![g] = stage]
      PROVE  Started
  BY <1>m, <1>t
<1>l. ASSUME NEW g \in Handlers, Leave(g)
      PROVE  Started
  BY <1>l, <1>m DEF Leave, Stages, Running
<1>1. ASSUME NEW g \in Handlers, NEW from \in 0..Len(listed), AcceptTurn(g, from)
      PROVE  Started
  BY <1>1, <1>m DEF AcceptTurn, Enter, Stages, Running
<1>2. ASSUME NEW g \in Handlers, SelectMotif(g) \/ ConfirmGenerate(g)
      PROVE  Started
  BY <1>2, <1>t DEF SelectMotif, ConfirmGenerate, Resume, Enter
<1>3. ASSUME NEW g \in Handlers, AcceptFinalize(g)
      PROVE  Started
  BY <1>3, <1>m DEF AcceptFinalize, Enter, Stages, Running
<1>4. ASSUME NEW g \in Handlers, NEW sets \in BOOLEAN, InvokeTurn(g, sets)
      PROVE  Started
  BY <1>4 DEF InvokeTurn
<1>5. ASSUME NEW g \in Handlers,
             \/ RefuseInput(g) \/ GateAsk(g) \/ GateRaises(g) \/ ValidateGiveUp(g)
             \/ NodeRaises(g) \/ FinalizeRaises(g) \/ CountFinalize(g)
             \/ \E png \in BOOLEAN : PreviewsDone(g, png)
      PROVE  Started
  BY <1>5, <1>l DEF RefuseInput, GateAsk, GateRaises, ValidateGiveUp, NodeRaises,
                    FinalizeRaises, CountFinalize, PreviewsDone
<1>6. ASSUME NEW g \in Handlers,
             \/ \E specs \in SpecLists, sets \in BOOLEAN :
                  AuthorIntent(g, specs, sets) \/ EditIntent(g, specs, sets)
             \/ GatePass(g) \/ GateSelected(g) \/ CallRecraft(g) \/ GateGenerated(g)
             \/ ValidateOK(g) \/ ValidateRetry(g) \/ VectorizeImages(g)
      PROVE  Started
  BY <1>6, <1>k DEF AuthorIntent, VectorizeImages, EditIntent, GatePass, GateSelected, CallRecraft,
                    GateGenerated, ValidateOK, ValidateRetry, process
<1>7. ASSUME NEW g \in Handlers, Commit(g) \/ FabricRendered(g)
      PROVE  Started
  BY <1>7, <1>m DEF Commit, FabricRendered, Stages, Running
<1>8. CASE Crash
  BY <1>8 DEF Crash, Running
<1> QED
  BY <1>1, <1>2, <1>3, <1>4, <1>5, <1>6, <1>7, <1>8 DEF Next, Request, Work, Gate

LEMMA ApprovalStep ==
  ASSUME LockInv, GateInv, ApprovalOK, [Next]_vars
  PROVE  ApprovalOK'
<1>t. /\ mem \in [Handlers -> Memory] /\ pc \in [Handlers -> Stages]
      /\ NoMem \in Memory /\ NoMem.decision = "none" /\ OneOperation /\ IdleOK
      /\ task \in [asked : BOOLEAN, answer : Answers]
  BY NoMemType DEF LockInv, TypeOK, ProcessOK, ThreadOK
<1>n. ASSUME NoDecision', Next, task' \in {task, NoTask}
      PROVE  ApprovalOK'
  <2>1. \A h \in Handlers : mem'[h].decision # "generate"
    BY <1>n DEF NoDecision
  <2>2. ASSUME task'.answer # "none", ~task'.asked, NEW h \in Handlers,
               pc'[h] \in Running
        PROVE  FALSE
    <3>1. task' = task /\ task' # NoTask
      BY <1>n, <2>2 DEF NoTask
    <3>2. pc[h] \in Running \/ SelectMotif(h) \/ ConfirmGenerate(h)
      BY <1>n, <2>2, <3>1, RunsStart
    <3>3. CASE pc[h] \in Running
      BY <2>2, <3>1, <3>3 DEF ApprovalOK
    <3>4. CASE SelectMotif(h) \/ ConfirmGenerate(h)
      BY <2>2, <3>1, <3>4 DEF SelectMotif, ConfirmGenerate, AwaitingGate
    <3> QED
      BY <3>2, <3>3, <3>4
  <2> QED
    BY <2>1, <2>2 DEF ApprovalOK
<1>l. ASSUME NEW h \in Handlers, AtNode(h, "gate"), Leave(h)
      PROVE  ApprovalOK'
  <2>1. \A g \in Handlers : pc'[g] = "idle" /\ mem'[g] = NoMem
    BY <1>l, <1>t, Alone DEF AtNode, Running, Leave
  <2> QED
    BY <1>t, <2>1 DEF ApprovalOK, Running
<1>1. CASE Next /\ Withdrawn
  BY <1>1, <1>n DEF Withdrawn
<1>2. CASE Next /\ LeftAlone
  BY <1>2, <1>n DEF LeftAlone, thread
<1>3. ASSUME NEW h \in Handlers, GateAsk(h) \/ GateRaises(h)
      PROVE  ApprovalOK'
  BY <1>3, <1>l DEF GateAsk, GateRaises
<1>4. ASSUME NEW h \in Handlers, CallRecraft(h)
      PROVE  ApprovalOK'
  BY <1>4 DEF CallRecraft, thread, ApprovalOK
<1>5. ASSUME NEW h \in Handlers, GateGenerated(h), Next
      PROVE  ApprovalOK'
  <2>1. NoDecision' /\ task' = NoTask
    BY <1>5, <1>t, DecisionGone
       DEF GateGenerated, AtNode, Running, Decided, Save, Memory
  <2> QED
    BY <1>5, <1>n, <2>1
<1>6. ASSUME NEW h \in Handlers, NEW decision, NEW stage, decision \in Answers,
             Resume(h, stage, decision), AwaitingGate, UNCHANGED thread,
             decision = "generate" => stage = "confirm"
      PROVE  ApprovalOK'
  <2>1. task' = task /\ (task.answer # "none" => task.asked)
    BY <1>6 DEF AwaitingGate, thread
  <2> DEFINE m == [NoMem EXCEPT !.decision = decision]
  <2>2. mem' = [mem EXCEPT ![h] = m] /\ m.decision = decision
        /\ pc' = [pc EXCEPT ![h] = stage]
    BY <1>6, <1>t DEF Resume, Enter, Memory
  <2> HIDE DEF m
  <2>3. \A g \in Handlers : mem'[g].decision = "generate" => pc'[g] = "confirm"
    BY <1>6, <1>t, <2>2 DEF ApprovalOK
  <2> QED
    BY <2>1, <2>3 DEF ApprovalOK
<1>7. ASSUME NEW h \in Handlers, SelectMotif(h) \/ ConfirmGenerate(h)
      PROVE  ApprovalOK'
  BY <1>6, <1>7 DEF SelectMotif, ConfirmGenerate, Answers
<1>8. CASE UNCHANGED vars
  BY <1>8 DEF vars, thread, process, ApprovalOK
<1> QED
  BY <1>1, <1>2, <1>3, <1>4, <1>5, <1>7, <1>8, GateEffects

\* What the module docstring of sessions.py says of Recraft, as far as the code
\* keeps it: every generation answers a confirm, this one or an earlier one that
\* failed, and exceeds nothing; nothing else reaches Recraft but the images of a
\* session that has no design yet.
THEOREM CallsAreApproved == Spec => CallsApproved
<1> DEFINE Rested == /\ st.recraft < RecraftLimit
                     /\ \/ \E h \in Handlers : pc[h] = "confirm"
                        \/ task.asked /\ task.answer = "generate"
           Approval == /\ calls' > calls => Rested
                       /\ uploads' > uploads => st.intent = 0
           Inv == LockInv /\ GateInv /\ IntentOK /\ ApprovalOK
<1>1. Init => Inv
  BY LockInit, GateInit, IntentInit, NoMemType DEF Init, ApprovalOK, NoTask, Running
<1>2. Inv /\ [Next]_vars => Inv'
  BY LockInvStep, GateInvStep, IntentStep, ApprovalStep
<1>3. Inv /\ [Next]_vars => [Approval]_vars
  <2> SUFFICES ASSUME LockInv, GateInv, IntentOK, ApprovalOK, Next
               PROVE  Approval
    OBVIOUS
  <2>1. calls \in Nat /\ uploads \in Nat
    BY DEF LockInv, TypeOK, HistoryOK
  <2>2. ASSUME calls' > calls
        PROVE  Rested
    <3>1. calls' # calls
      BY <2>1, <2>2
    <3>2. PICK h \in Handlers : CallRecraft(h)
      <4>1. ASSUME NEW h \in Handlers,
                   \/ GateAsk(h) \/ GateGenerated(h) \/ GateRaises(h)
                   \/ SelectMotif(h) \/ ConfirmGenerate(h)
            PROVE  FALSE
        BY <3>1, <4>1 DEF GateAsk, GateGenerated, GateRaises, SelectMotif,
                          ConfirmGenerate, history
      <4>2. ~Withdrawn /\ ~LeftAlone
        BY <3>1 DEF Withdrawn, LeftAlone
      <4> QED
        BY <4>1, <4>2, GateEffects
    <3>3. pc[h] \in Running /\ Decision(h) = "generate"
      BY <3>2 DEF CallRecraft, AtNode
    <3>4. Approved /\ st.recraft < RecraftLimit
      BY <3>3 DEF Decision, Approved, GateInv, GateResumable
    <3>5. CASE task.answer # "none"
      BY <3>3, <3>4, <3>5 DEF Decision, ApprovalOK
    <3>6. CASE task.answer = "none"
      BY <3>3, <3>4, <3>6 DEF Decision, ApprovalOK
    <3> QED
      BY <3>5, <3>6
  <2>3. ASSUME uploads' > uploads
        PROVE  st.intent = 0
    <3>1. uploads' # uploads
      BY <2>1, <2>3
    <3>2. PICK h \in Handlers : VectorizeImages(h)
      BY <3>1, IntentStep DEF Commit
    <3> QED
      BY <3>2 DEF VectorizeImages, AtNode, IntentOK
  <2> QED
    BY <2>2, <2>3
<1> QED
  BY <1>1, <1>2, <1>3, PTL DEF Spec, CallsApproved

-----------------------------------------------------------------------------
(* No refunds.                                                             *)

\* What a session has spent stays spent: a turn that forks from an earlier
\* checkpoint goes on with the budget of the head (run_turn), and no failed
\* turn, resume or restart winds a counter back.
SpentKept ==
  [][st'.recraft >= st.recraft /\ st'.finalized >= st.finalized]_vars

LEMMA SpentStep ==
  ASSUME LockInv, Next
  PROVE  st'.recraft >= st.recraft /\ st'.finalized >= st.finalized
<1> DEFINE Kept == st'.recraft >= st.recraft /\ st'.finalized >= st.finalized
<1>t. /\ st \in Values /\ st.recraft \in Nat /\ st.finalized \in Nat /\ TypeOK /\ FromOK
  BY DEF LockInv, TypeOK, ThreadOK, Values
<1>s. ASSUME st'.recraft = st.recraft, st'.finalized = st.finalized
      PROVE  Kept
  BY <1>t, <1>s
<1>u. ASSUME UNCHANGED st
      PROVE  Kept
  BY <1>t, <1>u
<1>1. ASSUME NEW h \in Handlers, Request(h)
      PROVE  Kept
  BY <1>1, <1>u DEF Request, AcceptTurn, SelectMotif, ConfirmGenerate,
                    AcceptFinalize, thread
<1>2. ASSUME NEW h \in Handlers,
             \/ RefuseInput(h) \/ GateAsk(h) \/ CallRecraft(h) \/ GateRaises(h)
             \/ NodeRaises(h) \/ FabricRendered(h) \/ FinalizeRaises(h)
             \/ VectorizeImages(h)
      PROVE  Kept
  BY <1>2, <1>u DEF VectorizeImages, RefuseInput, GateAsk, CallRecraft, GateRaises, NodeRaises,
                    FabricRendered, FinalizeRaises, thread
<1>3. ASSUME NEW h \in Handlers, NEW sets \in BOOLEAN, InvokeTurn(h, sets)
      PROVE  Kept
  <2>1. /\ TurnBase(mem[h].from) \in Values
        /\ TurnBase(mem[h].from).recraft = st.recraft
        /\ TurnBase(mem[h].from).finalized = st.finalized
    BY <1>t, TurnBaseOK
  <2> QED
    BY <1>3, <1>s, <2>1 DEF InvokeTurn, Values
<1>4. ASSUME NEW h \in Handlers,
             \/ \E specs \in SpecLists, sets \in BOOLEAN :
                  AuthorIntent(h, specs, sets) \/ EditIntent(h, specs, sets)
             \/ GatePass(h) \/ GateSelected(h)
      PROVE  Kept
  BY <1>4, <1>t, <1>s DEF AuthorIntent, EditIntent, EditUpdates, GatePass,
                          GateSelected, Save, Values
<1>5. ASSUME NEW h \in Handlers,
             \/ ValidateOK(h) \/ ValidateRetry(h) \/ ValidateGiveUp(h) \/ Commit(h)
             \/ \E png \in BOOLEAN : PreviewsDone(h, png)
      PROVE  Kept
  BY <1>5, <1>t, <1>s DEF ValidateOK, ValidateRetry, ValidateGiveUp, Commit,
                          PreviewsDone, UpdateState, Save, Values
<1>6. ASSUME NEW h \in Handlers, GateGenerated(h)
      PROVE  Kept
  <2>1. st'.recraft = st.recraft + 1 /\ st'.finalized = st.finalized
    BY <1>6, <1>t DEF GateGenerated, Save, Values
  <2> QED
    BY <1>t, <2>1
<1>7. ASSUME NEW h \in Handlers, CountFinalize(h)
      PROVE  Kept
  <2>1. st'.recraft = st.recraft /\ st'.finalized = st.finalized + 1
    BY <1>7, <1>t DEF CountFinalize, UpdateState, Values
  <2> QED
    BY <1>t, <2>1
<1>8. CASE Crash
  BY <1>8, <1>u DEF Crash, thread
<1> QED
  BY <1>1, <1>2, <1>3, <1>4, <1>5, <1>6, <1>7, <1>8 DEF Next, Work, Gate

\* Forking refunds nothing, and neither does anything else.
THEOREM SpentIsKept == Spec => SpentKept
<1>1. LockInv /\ [Next]_vars
        => [st'.recraft >= st.recraft /\ st'.finalized >= st.finalized]_vars
  BY SpentStep
<1> QED
  BY LockInit, LockInvStep, <1>1, PTL DEF Spec, SpentKept

-----------------------------------------------------------------------------
(* Commits.                                                                *)

\* The committed intent, its candidates and the listed checkpoints agree.
ListingInv == st.cands.of = st.intent /\ ListedAreCommits

\* What a handler holds while it awaits a preview or a render is what the
\* session has.
HeldOK ==
  \A h \in Handlers :
    /\ pc[h] = "preview" => mem[h].cands = st.cands /\ st.batch = st.intent
    /\ pc[h] \in {"render", "rendered"} => mem[h].cands = st.cands /\ ~task.asked

LEMMA ListingInit == Init => ListingInv
BY EmptySeq DEF Init, ListingInv, ListedAreCommits, NoValues, NoCandidates

\* A session that only spends keeps its listing.
LEMMA ListingKept ==
  ASSUME TypeOK, TypeOK', ListingInv, UNCHANGED <<listed, commits>>,
         st'.intent = st.intent, st'.cands.of = st.cands.of,
         st'.recraft >= st.recraft, st'.finalized >= st.finalized
  PROVE  ListingInv'
<1>0. Len(listed) \in Nat /\ \A i \in 1..Len(listed) : listed[i] \in Values
  BY ElementOfSeq, LenProperties DEF TypeOK, ThreadOK
<1>1. /\ Len(listed) \in Nat
      /\ \A i \in 1..Len(listed) :
           listed[i].recraft \in Nat /\ listed[i].finalized \in Nat
  BY <1>0 DEF Values
<1>2. /\ st.recraft \in Nat /\ st'.recraft \in Nat
      /\ st.finalized \in Nat /\ st'.finalized \in Nat
  BY DEF TypeOK, ThreadOK, Values
<1>3. ASSUME NEW i \in 1..Len(listed)
      PROVE  listed[i].recraft <= st'.recraft /\ listed[i].finalized <= st'.finalized
  BY <1>1, <1>2 DEF ListingInv, ListedAreCommits
<1>4. \A i \in 1..Len(listed) : Reproducible(listed[i])
  BY DEF ListingInv, ListedAreCommits
<1> QED
  BY <1>3, <1>4 DEF ListingInv, ListedAreCommits

\* Every step keeps them in agreement: a commit is listed, nothing else is,
\* and a fork starts from a commit with what the head has spent.
LEMMA ListingStep ==
  ASSUME LockInv, ListingInv, HeldOK, [Next]_vars
  PROVE  ListingInv'
<1>t. /\ TypeOK /\ TypeOK' /\ FromOK
      /\ st \in Values /\ st.cands \in Candidates /\ st.recraft \in Nat
      /\ st.finalized \in Nat /\ commits \in Nat
      /\ listed \in Seq(Values) /\ Len(listed) \in Nat
  BY LockInvStep, LenProperties DEF LockInv, TypeOK, ThreadOK, HistoryOK, Values
<1>q. ASSUME UNCHANGED <<st, listed, commits>>
      PROVE  ListingInv'
  BY <1>t, <1>q, ListingKept
<1>k. ASSUME NEW v \in Values, NEW n, n # "end", Save(v, n), commits' = commits,
             v.intent = st.intent, v.cands = st.cands,
             v.recraft \in {st.recraft, st.recraft + 1}, v.finalized = st.finalized
      PROVE  ListingInv'
  <2>1. listed' = listed /\ st' = v
    BY <1>k DEF Save, Listed, TurnBoundary
  <2>2. v.recraft >= st.recraft /\ v.finalized >= st.finalized
    BY <1>t, <1>k
  <2> QED
    BY <1>t, <1>k, <2>1, <2>2, ListingKept
<1>1. ASSUME NEW h \in Handlers, Request(h)
      PROVE  ListingInv'
  BY <1>1, <1>q DEF Request, AcceptTurn, SelectMotif, ConfirmGenerate,
                    AcceptFinalize, thread, history
<1>2. ASSUME NEW h \in Handlers,
             \/ RefuseInput(h) \/ GateAsk(h) \/ CallRecraft(h) \/ GateRaises(h)
             \/ VectorizeImages(h)
             \/ NodeRaises(h) \/ FabricRendered(h) \/ FinalizeRaises(h)
      PROVE  ListingInv'
  BY <1>2, <1>q DEF VectorizeImages, RefuseInput, GateAsk, CallRecraft, GateRaises, NodeRaises,
                    FabricRendered, FinalizeRaises, thread, history
<1>3. ASSUME NEW h \in Handlers, NEW sets \in BOOLEAN, InvokeTurn(h, sets)
      PROVE  ListingInv'
  <2> DEFINE base == TurnBase(mem[h].from)
  <2>1. base \in Values /\ base.recraft = st.recraft /\ base.finalized = st.finalized
    BY <1>t, TurnBaseOK
  <2>2. base.cands.of = base.intent
    <3>1. CASE mem[h].from = 0
      BY <3>1 DEF TurnBase, ListingInv
    <3>2. CASE mem[h].from # 0
      <4>1. mem[h].from \in 1..Len(listed)
        BY <1>t, <3>2 DEF FromOK
      <4>2. listed[mem[h].from] \in Values
        BY <1>t, <4>1, ElementOfSeq
      <4>3. base.cands = listed[mem[h].from].cands
            /\ base.intent = listed[mem[h].from].intent
        BY <3>2, <4>2 DEF TurnBase, Values
      <4> QED
        BY <4>1, <4>3 DEF ListingInv, ListedAreCommits
    <3> QED
      BY <3>1, <3>2
  <2>3. /\ st'.cands = base.cands /\ st'.intent = base.intent
        /\ st'.recraft = base.recraft /\ st'.finalized = base.finalized
    BY <1>3, <2>1 DEF InvokeTurn, Values
  <2>4. UNCHANGED <<listed, commits>>
    BY <1>3 DEF InvokeTurn
  <2> QED
    BY <2>1, <2>2, <2>3, <2>4 DEF ListingInv, ListedAreCommits
<1>4. ASSUME NEW h \in Handlers, NEW specs \in SpecLists, NEW sets \in BOOLEAN,
             AuthorIntent(h, specs, sets)
      PROVE  ListingInv'
  <2> DEFINE v == [st EXCEPT !.specs = specs,
                             !.side = IF sets THEN turn ELSE st.side,
                             !.errors = FALSE, !.retried = FALSE]
  <2>1. v \in Values
    BY <1>t, SpecListsAreSpecs DEF TypeOK, HistoryOK, Values
  <2>2. Save(v, "gate") /\ commits' = commits
    BY <1>4 DEF AuthorIntent, history
  <2>3. v.intent = st.intent /\ v.cands = st.cands /\ v.recraft = st.recraft
        /\ v.finalized = st.finalized
    BY <1>t DEF Values
  <2> QED
    BY <1>k, <2>1, <2>2, <2>3
<1>5. ASSUME NEW h \in Handlers, NEW specs \in SpecLists, NEW sets \in BOOLEAN,
             EditIntent(h, specs, sets)
      PROVE  ListingInv'
  <2> DEFINE v == EditUpdates(specs, sets)
  <2>1. v \in Values
    BY <1>t, SpecListsAreSpecs DEF TypeOK, HistoryOK, Values, EditUpdates
  <2>2. Save(v, "gate") /\ commits' = commits
    BY <1>5 DEF EditIntent
  <2>3. v.intent = st.intent /\ v.cands = st.cands /\ v.recraft = st.recraft
        /\ v.finalized = st.finalized
    BY <1>t DEF Values, EditUpdates
  <2> QED
    BY <1>k, <2>1, <2>2, <2>3
<1>6. ASSUME NEW h \in Handlers, GatePass(h)
      PROVE  ListingInv'
  BY <1>6, <1>t, <1>k DEF GatePass, history
<1>7. ASSUME NEW h \in Handlers, GateSelected(h)
      PROVE  ListingInv'
  <2> DEFINE v == [st EXCEPT !.specs = Tail(@)]
  <2>1. v \in Values
    BY <1>7, <1>t, TailOfSpecs DEF GateSelected, Values
  <2>2. Save(v, AfterGate(v)) /\ AfterGate(v) # "end" /\ commits' = commits
    BY <1>7 DEF GateSelected, AfterGate, history
  <2>3. v.intent = st.intent /\ v.cands = st.cands /\ v.recraft = st.recraft
        /\ v.finalized = st.finalized
    BY <1>t DEF Values
  <2> QED
    BY <1>k, <2>1, <2>2, <2>3
<1>8. ASSUME NEW h \in Handlers, GateGenerated(h)
      PROVE  ListingInv'
  <2> DEFINE v == [st EXCEPT !.specs = Tail(@), !.recraft = @ + 1]
  <2>0. Tail(st.specs) \in Specs /\ st.recraft + 1 \in Nat
    BY <1>8, <1>t, TailOfSpecs DEF GateGenerated, Values
  <2>1. v \in Values
    BY <1>t, <2>0 DEF Values
  <2>2. Save(v, AfterGate(v)) /\ AfterGate(v) # "end" /\ commits' = commits
    BY <1>8 DEF GateGenerated, AfterGate
  <2>3. v.intent = st.intent /\ v.cands = st.cands /\ v.recraft = st.recraft + 1
        /\ v.finalized = st.finalized
    BY <1>t DEF Values
  <2> QED
    BY <1>k, <2>1, <2>2, <2>3
<1>9. ASSUME NEW h \in Handlers, NEW b \in BOOLEAN, NEW n, n # "end",
             Save([st EXCEPT !.errors = b], n), commits' = commits
      PROVE  ListingInv'
  <2> DEFINE v == [st EXCEPT !.errors = b]
  <2>1. v \in Values /\ v.intent = st.intent /\ v.cands = st.cands
        /\ v.recraft = st.recraft /\ v.finalized = st.finalized
    BY <1>t DEF Values
  <2> QED
    BY <1>k, <1>9, <2>1
<1>10. ASSUME NEW h \in Handlers, ValidateOK(h) \/ ValidateRetry(h)
       PROVE  ListingInv'
  BY <1>10, <1>9 DEF ValidateOK, ValidateRetry, history
<1>11. ASSUME NEW h \in Handlers, ValidateGiveUp(h)
       PROVE  ListingInv'
  <2> DEFINE v == [st EXCEPT !.errors = TRUE]
  <2>1. v.errors /\ v.intent = st.intent /\ v.cands = st.cands
        /\ v.recraft = st.recraft /\ v.finalized = st.finalized
    BY <1>t DEF Values
  <2>2. st' = v /\ listed' = listed /\ commits' = commits
    BY <1>11, <2>1 DEF ValidateGiveUp, Save, Listed, TurnBoundary, history
  <2> QED
    BY <1>t, <2>1, <2>2, ListingKept
<1>12. ASSUME NEW h \in Handlers, Commit(h)
       PROVE  ListingInv'
  <2> DEFINE id == commits + 1
             made == [of |-> id, side |-> st.side, png |-> FALSE]
             v == [st EXCEPT !.intent = id, !.cands = made, !.batch = id,
                             !.specs = <<>>, !.errors = FALSE, !.retried = FALSE]
  <2>1. /\ v.intent = id /\ v.cands = made /\ ~v.errors
        /\ v.recraft = st.recraft /\ v.finalized = st.finalized
        /\ v.side = st.side /\ v.specs = <<>> /\ ~v.retried
    BY <1>t DEF Values
  <2>r. Reproducible(v)
    BY <2>1 DEF Reproducible
  <2>2. st' = v /\ listed' = Append(listed, v) /\ commits' = id
    BY <1>12, <1>t, <2>1 DEF Commit, Save, Listed, TurnBoundary
  <2>3. Len(listed') = id
    BY <1>t, <2>2 DEF ListingInv, ListedAreCommits
  <2>4. ASSUME NEW i \in 1..id
        PROVE  /\ listed'[i].intent = i /\ listed'[i].cands.of = i
               /\ Reproducible(listed'[i])
               /\ listed'[i].recraft <= st.recraft
               /\ listed'[i].finalized <= st.finalized
    <3>1. CASE i = id
      BY <1>t, <2>1, <2>r, <2>2, <3>1 DEF ListingInv, ListedAreCommits
    <3>2. CASE i # id
      <4>1. i \in 1..Len(listed) /\ listed'[i] = listed[i]
        BY <1>t, <2>2, <3>2 DEF ListingInv, ListedAreCommits
      <4> QED
        BY <4>1 DEF ListingInv, ListedAreCommits
    <3> QED
      BY <3>1, <3>2
  <2>5. st'.cands.of = st'.intent /\ st'.recraft = st.recraft
        /\ st'.finalized = st.finalized
    BY <2>1, <2>2
  <2> QED
    BY <2>2, <2>3, <2>4, <2>5 DEF ListingInv, ListedAreCommits
<1>13. ASSUME NEW h \in Handlers, NEW png \in BOOLEAN, PreviewsDone(h, png)
       PROVE  ListingInv'
  <2>0. mem[h].cands = st.cands
    BY <1>13 DEF PreviewsDone, HeldOK
  <2>1. /\ st'.intent = st.intent /\ st'.cands.of = st.cands.of
        /\ st'.recraft = st.recraft /\ st'.finalized = st.finalized
    BY <1>13, <1>t, <2>0 DEF PreviewsDone, UpdateState, Values, Candidates
  <2> QED
    BY <1>13, <1>t, <2>1, ListingKept DEF PreviewsDone, UpdateState, history
<1>14. ASSUME NEW h \in Handlers, CountFinalize(h)
       PROVE  ListingInv'
  <2>1. /\ st'.intent = st.intent /\ st'.cands = st.cands
        /\ st'.recraft = st.recraft /\ st'.finalized = st.finalized + 1
    BY <1>14, <1>t DEF CountFinalize, UpdateState, Values
  <2>2. st'.finalized >= st.finalized
    BY <1>t, <2>1
  <2> QED
    BY <1>14, <1>t, <2>1, <2>2, ListingKept DEF CountFinalize, UpdateState, history
<1>15. CASE Crash
  BY <1>15, <1>q DEF Crash, thread
<1>16. CASE UNCHANGED vars
  BY <1>16, <1>q DEF vars, thread, history
<1> QED
  BY <1>1, <1>2, <1>3, <1>4, <1>5, <1>6, <1>7, <1>8, <1>10, <1>11, <1>12,
     <1>13, <1>14, <1>15, <1>16 DEF Next, Work, Gate

\* Nobody else acts between the await and its end.
LEMMA HeldStep ==
  ASSUME LockInv, HeldOK, [Next]_vars
  PROVE  HeldOK'
<1> DEFINE Waiting == {"preview", "render", "rendered"}
<1>t. /\ pc \in [Handlers -> Stages] /\ mem \in [Handlers -> Memory]
      /\ st \in Values /\ task \in [asked : BOOLEAN, answer : Answers]
      /\ OneOperation /\ IdleOK
  BY DEF LockInv, TypeOK, ProcessOK, ThreadOK
<1>n. ASSUME \A g \in Handlers : pc'[g] \notin Waiting
      PROVE  HeldOK'
  BY <1>n DEF HeldOK
<1>e. ASSUME NEW h \in Handlers, NEW stage \in Stages \ Waiting, NEW m,
             Enter(h, stage, m)
      PROVE  HeldOK'
  BY <1>e, <1>n, <1>t DEF Enter, OneOperation
<1>l. ASSUME NEW h \in Handlers, pc[h] # "idle", Leave(h)
      PROVE  HeldOK'
  BY <1>l, <1>n, <1>t, Alone DEF Leave
<1>r. ASSUME NEW h \in Handlers, pc[h] \in Running, pc' = pc
      PROVE  HeldOK'
  BY <1>r, <1>n, <1>t, Alone DEF Running
<1>1. ASSUME NEW h \in Handlers, NEW from \in 0..Len(listed), AcceptTurn(h, from)
      PROVE  HeldOK'
  BY <1>1, <1>e DEF AcceptTurn, Stages
<1>2. ASSUME NEW h \in Handlers, SelectMotif(h) \/ ConfirmGenerate(h)
      PROVE  HeldOK'
  BY <1>2, <1>e DEF SelectMotif, ConfirmGenerate, Resume, Stages
<1>3. ASSUME NEW h \in Handlers, AcceptFinalize(h)
      PROVE  HeldOK'
  <2>1. /\ pc' = [pc EXCEPT ![h] = "render"]
        /\ mem' = [mem EXCEPT ![h] = [NoMem EXCEPT !.cands = st.cands]]
        /\ st' = st /\ task' = task /\ ~task.asked
        /\ \A g \in Handlers : pc[g] = "idle"
    BY <1>3, <1>t DEF AcceptFinalize, Enter, AwaitingGate, thread, OneOperation
  <2>2. [NoMem EXCEPT !.cands = st.cands].cands = st.cands
    BY NoMemType DEF Memory
  <2> QED
    BY <1>t, <2>1, <2>2 DEF HeldOK
<1>4. ASSUME NEW h \in Handlers, NEW sets \in BOOLEAN, InvokeTurn(h, sets)
      PROVE  HeldOK'
  BY <1>4, <1>t, <1>n, Alone DEF InvokeTurn
<1>5. ASSUME NEW h \in Handlers,
             \/ RefuseInput(h) \/ GateAsk(h) \/ GateRaises(h) \/ ValidateGiveUp(h)
             \/ NodeRaises(h) \/ FinalizeRaises(h) \/ CountFinalize(h)
             \/ \E png \in BOOLEAN : PreviewsDone(h, png)
      PROVE  HeldOK'
  BY <1>5, <1>l DEF RefuseInput, GateAsk, GateRaises, ValidateGiveUp, NodeRaises,
                    FinalizeRaises, CountFinalize, PreviewsDone, AtNode, Running
<1>6. ASSUME NEW h \in Handlers, NEW specs \in SpecLists, NEW sets \in BOOLEAN,
             AuthorIntent(h, specs, sets) \/ EditIntent(h, specs, sets)
      PROVE  HeldOK'
  BY <1>6, <1>r DEF AuthorIntent, EditIntent, AtNode, process
<1>7. ASSUME NEW h \in Handlers,
             \/ GatePass(h) \/ GateSelected(h) \/ CallRecraft(h) \/ GateGenerated(h)
             \/ ValidateOK(h) \/ ValidateRetry(h) \/ VectorizeImages(h)
      PROVE  HeldOK'
  BY <1>7, <1>r DEF VectorizeImages, GatePass, GateSelected, CallRecraft, GateGenerated, ValidateOK,
                    ValidateRetry, AtNode, process
<1>8. ASSUME NEW h \in Handlers, Commit(h)
      PROVE  HeldOK'
  <2> DEFINE id == commits + 1
             made == [of |-> id, side |-> st.side, png |-> FALSE]
             v == [st EXCEPT !.intent = id, !.cands = made, !.batch = id,
                             !.specs = <<>>, !.errors = FALSE, !.retried = FALSE]
  <2>1. /\ pc' = [pc EXCEPT ![h] = "preview"] /\ st' = v
        /\ mem' = [mem EXCEPT ![h].cands = made]
        /\ pc[h] # "idle"
    BY <1>8 DEF Commit, Save, AtNode, Running
  <2>2. v.cands = made /\ v.batch = id /\ v.intent = id
    BY <1>t DEF Values
  <2>3. mem'[h].cands = made
    BY <1>t, <2>1 DEF Memory
  <2>4. \A g \in Handlers \ {h} : pc'[g] = "idle"
    BY <1>t, <2>1, Alone
  <2>5. pc'[h] = "preview"
    BY <1>t, <2>1
  <2> QED
    BY <2>1, <2>2, <2>3, <2>4, <2>5 DEF HeldOK
<1>9. ASSUME NEW h \in Handlers, FabricRendered(h)
      PROVE  HeldOK'
  BY <1>9, <1>t, Alone DEF FabricRendered, HeldOK, thread
<1>10. CASE Crash
  BY <1>10, <1>n DEF Crash
<1>11. CASE UNCHANGED vars
  BY <1>11 DEF vars, thread, process, HeldOK
<1> QED
  BY <1>1, <1>2, <1>3, <1>4, <1>5, <1>6, <1>7, <1>8, <1>9, <1>10, <1>11
     DEF Next, Request, Work, Gate

CommitInv == LockInv /\ ListingInv /\ HeldOK

LEMMA CommitInvInit == Init => CommitInv
BY LockInit, ListingInit DEF CommitInv, HeldOK, Init

LEMMA CommitInvStep == CommitInv /\ [Next]_vars => CommitInv'
BY LockInvStep, ListingStep, HeldStep DEF CommitInv

\* Undo, redo and fork find one checkpoint per commit, in order, on whatever
\* branch each was made; none of them has spent more than the head, and each
\* can be made again from its own settings, whatever edits failed in between.
THEOREM ListedAreCommitsAlways == Spec => []ListedAreCommits
<1>1. CommitInv => ListedAreCommits
  BY DEF CommitInv, ListingInv
<1> QED
  BY CommitInvInit, CommitInvStep, <1>1, PTL DEF Spec

\* The candidates of a session are those of its committed intent, also after
\* the previews were written back with a result taken before the await.
THEOREM CandidatesMatchIntentAlways == Spec => []CandidatesMatchIntent
<1>1. CommitInv => CandidatesMatchIntent
  BY DEF CommitInv, ListingInv, HeldOK, CandidatesMatchIntent
<1> QED
  BY CommitInvInit, CommitInvStep, <1>1, PTL DEF Spec

\* What finalize read before its await is still the session's candidate when
\* it is counted, and no decision has become pending meanwhile.
THEOREM FinalizeFreshAlways == Spec => []FinalizeFresh
<1>1. CommitInv => FinalizeFresh
  BY DEF CommitInv, HeldOK, FinalizeFresh
<1> QED
  BY CommitInvInit, CommitInvStep, <1>1, PTL DEF Spec

-----------------------------------------------------------------------------
(* The retry of an edit.                                                   *)

\* The edit passes of the turn that are behind each node.
PassesOK ==
  /\ next = "author" => passes = 0
  /\ next = "edit" => passes = 0 \/ (passes = 1 /\ st.errors)
  /\ next \in {"gate", "validate"} => passes <= 1 \/ (passes = 2 /\ st.retried)
  /\ passes <= 2

LEMMA PassesStep ==
  ASSUME LockInv, PassesOK, [Next]_vars
  PROVE  PassesOK'
<1>t. st \in Values /\ passes \in Nat /\ OneOperation /\ IdleOK
  BY DEF LockInv, TypeOK, ThreadOK, HistoryOK
<1>q. ASSUME UNCHANGED <<st, next, passes>>
      PROVE  PassesOK'
  BY <1>q DEF PassesOK
<1>1. ASSUME NEW h \in Handlers, Request(h)
      PROVE  PassesOK'
  BY <1>1, <1>q DEF Request, AcceptTurn, SelectMotif, ConfirmGenerate,
                    AcceptFinalize, thread, history
<1>2. ASSUME NEW h \in Handlers,
             \/ RefuseInput(h) \/ GateAsk(h) \/ CallRecraft(h) \/ GateRaises(h)
             \/ VectorizeImages(h)
             \/ NodeRaises(h) \/ FabricRendered(h) \/ FinalizeRaises(h)
      PROVE  PassesOK'
  BY <1>2, <1>q DEF VectorizeImages, RefuseInput, GateAsk, CallRecraft, GateRaises, NodeRaises,
                    FabricRendered, FinalizeRaises, thread, history
<1>3. ASSUME NEW h \in Handlers, NEW sets \in BOOLEAN, InvokeTurn(h, sets)
      PROVE  PassesOK'
  BY <1>3 DEF InvokeTurn, PassesOK, Entry
<1>4. ASSUME NEW h \in Handlers, NEW specs \in SpecLists, NEW sets \in BOOLEAN,
             AuthorIntent(h, specs, sets)
      PROVE  PassesOK'
  BY <1>4 DEF AuthorIntent, AtNode, Save, PassesOK, history
<1>5. ASSUME NEW h \in Handlers, NEW specs \in SpecLists, NEW sets \in BOOLEAN,
             EditIntent(h, specs, sets)
      PROVE  PassesOK'
  <2>1. next' = "gate" /\ st'.retried = st.errors
    BY <1>5, <1>t DEF EditIntent, EditUpdates, Save, Values
  <2>2. passes' = passes + 1 /\ (passes = 0 \/ (passes = 1 /\ st.errors))
    BY <1>5 DEF EditIntent, AtNode, PassesOK
  <2> QED
    BY <2>1, <2>2 DEF PassesOK
<1>6. ASSUME NEW h \in Handlers, GatePass(h) \/ GateSelected(h) \/ GateGenerated(h)
      PROVE  PassesOK'
  <2>1. next = "gate" /\ next' \in {"gate", "validate"} /\ passes' = passes
    BY <1>6 DEF GatePass, GateSelected, GateGenerated, AtNode, Save, AfterGate,
                history
  <2>2. st'.retried = st.retried
    BY <1>6, <1>t DEF GatePass, GateSelected, GateGenerated, Save, Values
  <2> QED
    BY <2>1, <2>2 DEF PassesOK
<1>7. ASSUME NEW h \in Handlers, ValidateOK(h) \/ ValidateGiveUp(h) \/ Commit(h)
      PROVE  PassesOK'
  BY <1>7 DEF ValidateOK, ValidateGiveUp, Commit, AtNode, Save, PassesOK, history
<1>8. ASSUME NEW h \in Handlers, ValidateRetry(h)
      PROVE  PassesOK'
  <2> DEFINE v == [st EXCEPT !.errors = TRUE]
  <2>1. v.errors /\ v.retried = st.retried
    BY <1>t DEF Values
  <2>2. ~st.retried /\ st' = v /\ next' = "edit" /\ next = "validate"
        /\ passes' = passes
    BY <1>8, <2>1 DEF ValidateRetry, Retries, Save, AtNode, history
  <2>3. passes = 0 \/ passes = 1
    BY <1>t, <2>2 DEF PassesOK
  <2> QED
    BY <2>1, <2>2, <2>3 DEF PassesOK
<1>9. ASSUME NEW h \in Handlers,
             CountFinalize(h) \/ \E png \in BOOLEAN : PreviewsDone(h, png)
      PROVE  PassesOK'
  <2>1. next' = next /\ passes' = passes
    BY <1>9 DEF CountFinalize, PreviewsDone, UpdateState, history
  <2>2. st'.errors = st.errors /\ st'.retried = st.retried
    BY <1>9, <1>t DEF CountFinalize, PreviewsDone, UpdateState, Values
  <2> QED
    BY <2>1, <2>2 DEF PassesOK
<1>10. CASE Crash
  BY <1>10, <1>q DEF Crash, thread
<1>11. CASE UNCHANGED vars
  BY <1>11, <1>q DEF vars, thread, history
<1> QED
  BY <1>1, <1>2, <1>3, <1>4, <1>5, <1>6, <1>7, <1>8, <1>9, <1>10, <1>11
     DEF Next, Work, Gate

\* A turn is edited at most twice, however often it pauses at the gate, fails
\* there and is taken up again by later requests.
THEOREM AtMostOneRetryAlways == Spec => []AtMostOneRetry
<1>1. Init => PassesOK
  BY DEF Init, PassesOK
<1>2. PassesOK => AtMostOneRetry
  BY DEF PassesOK, AtMostOneRetry
<1>3. LockInv /\ PassesOK /\ [Next]_vars => LockInv' /\ PassesOK'
  BY LockInvStep, PassesStep
<1> QED
  BY LockInit, <1>1, <1>2, <1>3, PTL DEF Spec

-----------------------------------------------------------------------------
(* How long an operation can take.                                         *)

\* The steps a working handler still has before it answers, at most: a pass
\* over the gated specs takes two steps for each (the call and its record),
\* an authoring pass one more for its images, and there is one retry.
PassSteps  == 2 * MaxSpecs + 7
RetrySteps == IF st.intent # 0 /\ ~st.retried THEN PassSteps ELSE 0
FiredSteps == IF fired THEN 4 ELSE 5

NodeSteps ==
  CASE next = "author"   -> IF fired THEN 2 * PassSteps - 1 ELSE 2 * PassSteps
    [] next = "edit"     -> PassSteps + (IF st.errors THEN 0 ELSE PassSteps)
    [] next = "gate"     -> 2 * Len(st.specs) + FiredSteps + RetrySteps
    [] next = "validate" -> 3 + RetrySteps
    [] next = "commit"   -> 2
    [] OTHER             -> 1

StepsLeft(h) ==
  CASE pc[h] = "idle"     -> 0
    [] pc[h] = "accepted" -> 2 * PassSteps + 1
    [] pc[h] \in Running  -> NodeSteps
    [] pc[h] = "render"   -> 2
    [] OTHER              -> 1

\* Whatever step is taken while a handler works, it brings that handler nearer
\* to its answer: no pass over the gate, no failure and no retry that
\* _after_validate grants begins anything anew.
OperationsShorten ==
  [][\A h \in Handlers : pc[h] # "idle" => StepsLeft(h)' < StepsLeft(h)]_vars

\* The answer is a bounded number of steps away, and it is none away only for a
\* handler that has answered.
OperationsBounded ==
  \A h \in Handlers : /\ StepsLeft(h) \in 0..(2 * PassSteps + 1)
                      /\ StepsLeft(h) = 0 => pc[h] = "idle"

LEMMA NodeStepsBounded ==
  TypeOK => /\ NodeSteps \in 1..(2 * PassSteps) /\ RetrySteps \in {0, PassSteps}
            /\ PassSteps \in Nat /\ PassSteps = 2 * MaxSpecs + 7
<1> SUFFICES ASSUME TypeOK
             PROVE  /\ NodeSteps \in 1..(2 * PassSteps) /\ RetrySteps \in {0, PassSteps}
                    /\ PassSteps \in Nat /\ PassSteps = 2 * MaxSpecs + 7
  OBVIOUS
<1>1. MaxSpecs \in Nat /\ PassSteps \in Nat /\ PassSteps = 2 * MaxSpecs + 7
  BY BoundsAssumption DEF PassSteps
<1>2. RetrySteps \in {0, PassSteps}
  BY DEF RetrySteps
<1>3. Len(st.specs) \in 0..MaxSpecs
  <2>1. st.specs \in Seq(SpecKinds) /\ Len(st.specs) <= MaxSpecs
    BY DEF TypeOK, ThreadOK, Values, Specs
  <2> QED
    BY <1>1, <2>1, LenProperties
<1>4. 2 * Len(st.specs) + FiredSteps + RetrySteps
        \in 1..(2 * PassSteps)
  <2>1. ASSUME NEW n \in 0..MaxSpecs, NEW f \in {4, 5}, NEW r \in {0, PassSteps}
        PROVE  2 * n + f + r \in 1..(2 * PassSteps)
    BY <1>1
  <2>2. FiredSteps \in {4, 5}
    BY DEF FiredSteps
  <2> QED
    BY <1>2, <1>3, <2>1, <2>2
<1>5. 3 + RetrySteps \in 1..(2 * PassSteps)
  BY <1>1, <1>2
<1>6. PassSteps + (IF st.errors THEN 0 ELSE PassSteps) \in 1..(2 * PassSteps)
  BY <1>1
<1>7. /\ (IF fired THEN 2 * PassSteps - 1 ELSE 2 * PassSteps) \in 1..(2 * PassSteps)
      /\ 2 \in 1..(2 * PassSteps) /\ 1 \in 1..(2 * PassSteps)
  BY <1>1
<1> QED
  BY <1>1, <1>2, <1>4, <1>5, <1>6, <1>7 DEF NodeSteps

LEMMA StepsLeftBounded == TypeOK => OperationsBounded
<1> SUFFICES ASSUME TypeOK, NEW h \in Handlers
             PROVE  /\ StepsLeft(h) \in 0..(2 * PassSteps + 1)
                    /\ StepsLeft(h) = 0 => pc[h] = "idle"
  BY DEF OperationsBounded
<1>1. NodeSteps \in 1..(2 * PassSteps) /\ PassSteps \in Nat /\ PassSteps >= 7
  BY NodeStepsBounded, BoundsAssumption
<1>2. /\ pc[h] = "idle" => StepsLeft(h) = 0
      /\ pc[h] # "idle" => StepsLeft(h) \in {2 * PassSteps + 1, NodeSteps, 2, 1}
  BY DEF StepsLeft, Running
<1> QED
  BY <1>1, <1>2

\* Only a handler that was let in works.
LEMMA WorksOnlyBusy ==
  ASSUME NEW g \in Handlers, Work(g)
  PROVE  pc[g] # "idle"
<1>1. CASE Gate(g) \/ VectorizeImages(g)
  BY <1>1 DEF VectorizeImages, Gate, GatePass, GateAsk, GateSelected, CallRecraft, GateGenerated,
              GateRaises, AtNode, Running
<1>2. CASE \/ \E specs \in SpecLists, sets \in BOOLEAN :
                AuthorIntent(g, specs, sets) \/ EditIntent(g, specs, sets)
           \/ ValidateOK(g) \/ ValidateRetry(g) \/ ValidateGiveUp(g)
           \/ Commit(g) \/ NodeRaises(g)
  BY <1>2 DEF AuthorIntent, EditIntent, ValidateOK, ValidateRetry, ValidateGiveUp,
              Commit, NodeRaises, AtNode, Running
<1>3. CASE \/ RefuseInput(g) \/ FabricRendered(g) \/ FinalizeRaises(g)
           \/ CountFinalize(g) \/ \E sets \in BOOLEAN : InvokeTurn(g, sets)
           \/ \E png \in BOOLEAN : PreviewsDone(g, png)
  BY <1>3 DEF RefuseInput, FabricRendered, FinalizeRaises, CountFinalize, InvokeTurn,
              PreviewsDone
<1> QED
  BY <1>1, <1>2, <1>3 DEF Work

\* The step of the one handler that works.
LEMMA StepShortens ==
  ASSUME LockInv, NEW h \in Handlers, pc[h] # "idle", Next
  PROVE  StepsLeft(h)' < StepsLeft(h)
<1>t. /\ TypeOK /\ TypeOK' /\ OneOperation /\ IdleOK
      /\ pc \in [Handlers -> Stages] /\ st \in Values /\ st.specs \in Seq(SpecKinds)
  BY LockInvStep DEF LockInv, TypeOK, ProcessOK, ThreadOK, Values, Specs
<1>b. /\ StepsLeft(h) \in Nat /\ StepsLeft(h) >= 1
      /\ StepsLeft(h)' \in Nat
      /\ NodeSteps \in Nat /\ NodeSteps >= 1 /\ NodeSteps <= 2 * PassSteps
      /\ NodeSteps' \in Nat /\ NodeSteps' >= 1 /\ NodeSteps' <= 2 * PassSteps
      /\ FiredSteps \in {4, 5} /\ FiredSteps' \in {4, 5}
      /\ MaxSpecs \in Nat /\ PassSteps \in Nat /\ PassSteps = 2 * MaxSpecs + 7
      /\ RetrySteps \in {0, PassSteps} /\ RetrySteps' \in {0, PassSteps}
      /\ Len(st.specs) \in Nat
      /\ Len(st'.specs) \in Nat /\ Len(st'.specs) <= MaxSpecs
  <2>1. OperationsBounded /\ OperationsBounded'
    BY <1>t, StepsLeftBounded, PTL
  <2>2. PassSteps' = PassSteps
    BY DEF PassSteps
  <2>3. /\ NodeSteps \in 1..(2 * PassSteps) /\ RetrySteps \in {0, PassSteps}
        /\ PassSteps \in Nat /\ PassSteps = 2 * MaxSpecs + 7
    BY <1>t, NodeStepsBounded
  <2>4. (/\ NodeSteps \in 1..(2 * PassSteps) /\ RetrySteps \in {0, PassSteps}
         /\ PassSteps \in Nat /\ PassSteps = 2 * MaxSpecs + 7)'
    BY <1>t, NodeStepsBounded, PTL
  <2>5. st'.specs \in Seq(SpecKinds) /\ Len(st'.specs) <= MaxSpecs
    BY <1>t DEF TypeOK, ThreadOK, Values, Specs
  <2>6. StepsLeft(h) \in Nat /\ StepsLeft(h) >= 1 /\ StepsLeft(h)' \in Nat
    BY <2>1, <2>3, <2>2 DEF OperationsBounded
  <2> QED
    BY <1>t, <2>2, <2>3, <2>4, <2>5, <2>6, LenProperties, BoundsAssumption
       DEF FiredSteps
<1>g. /\ 2 * Len(st'.specs) + FiredSteps' \in Nat
      /\ 2 * Len(st'.specs) + FiredSteps' < PassSteps - 1
  <2>1. ASSUME NEW m \in Nat, NEW k \in Nat, k <= m, NEW f \in {4, 5}
        PROVE  2 * k + f \in Nat /\ 2 * k + f < (2 * m + 7) - 1
    BY <2>1
  <2> QED
    BY <1>b, <2>1
<1>s. ASSUME NEW p \in Nat, NEW x \in Nat, x < p - 1, NEW q \in {0, p}
      PROVE  x + q < 2 * p /\ x + q < 2 * p - 1 /\ x + 0 < p
  BY <1>s
<1>o. \A g \in Handlers \ {h} : pc[g] = "idle"
  BY <1>t, Alone
<1>i. inflight
  BY <1>t DEF OneOperation
<1>l. ASSUME Leave(h)
      PROVE  StepsLeft(h)' < StepsLeft(h)
  <2>1. pc'[h] = "idle"
    BY <1>l, <1>t DEF Leave
  <2>2. StepsLeft(h)' = 0
    BY <2>1 DEF StepsLeft, Running
  <2> QED
    BY <1>b, <2>2
<1>n. ASSUME pc[h] \in Running, pc' = pc, NodeSteps' < NodeSteps
      PROVE  StepsLeft(h)' < StepsLeft(h)
  BY <1>n DEF StepsLeft, Running
<1>1. ASSUME NEW g \in Handlers, Request(g)
      PROVE  FALSE
  BY <1>1, <1>i DEF Request, AcceptTurn, SelectMotif, ConfirmGenerate, AcceptFinalize,
                    Resume, Enter
<1>2. ASSUME NEW sets \in BOOLEAN, InvokeTurn(h, sets)
      PROVE  StepsLeft(h)' < StepsLeft(h)
  <2>1. pc[h] = "accepted" /\ pc'[h] = "turn"
    BY <1>2, <1>t DEF InvokeTurn
  <2>2. StepsLeft(h) = 2 * PassSteps + 1
    BY <2>1 DEF StepsLeft, Running
  <2>3. StepsLeft(h)' = NodeSteps'
    BY <2>1 DEF StepsLeft, Running
  <2> QED
    BY <1>b, <2>2, <2>3
<1>3. ASSUME \/ RefuseInput(h) \/ GateAsk(h) \/ GateRaises(h) \/ ValidateGiveUp(h)
             \/ NodeRaises(h) \/ FinalizeRaises(h) \/ CountFinalize(h)
             \/ \E png \in BOOLEAN : PreviewsDone(h, png)
      PROVE  StepsLeft(h)' < StepsLeft(h)
  BY <1>3, <1>l DEF RefuseInput, GateAsk, GateRaises, ValidateGiveUp, NodeRaises,
                    FinalizeRaises, CountFinalize, PreviewsDone
<1>4. ASSUME NEW specs \in SpecLists, NEW sets \in BOOLEAN,
             AuthorIntent(h, specs, sets)
      PROVE  StepsLeft(h)' < StepsLeft(h)
  <2>1. pc[h] \in Running /\ pc' = pc /\ next = "author" /\ next' = "gate"
    BY <1>4 DEF AuthorIntent, AtNode, Save
  <2>2. NodeSteps = IF fired THEN 2 * PassSteps - 1 ELSE 2 * PassSteps
    BY <2>1 DEF NodeSteps
  <2>3. NodeSteps' = 2 * Len(st'.specs) + FiredSteps' + RetrySteps'
    BY <2>1 DEF NodeSteps
  <2>4. PassSteps \in Nat /\ RetrySteps' \in {0, PassSteps}
    BY <1>b
  <2>5. /\ 2 * Len(st'.specs) + FiredSteps' + RetrySteps' < 2 * PassSteps
        /\ 2 * Len(st'.specs) + FiredSteps' + RetrySteps' < 2 * PassSteps - 1
    BY <1>g, <1>s, <2>4
  <2>10. NodeSteps' < NodeSteps
    BY <2>2, <2>3, <2>5
  <2> QED
    BY <1>n, <2>1, <2>10
<1>5. ASSUME NEW specs \in SpecLists, NEW sets \in BOOLEAN,
             EditIntent(h, specs, sets)
      PROVE  StepsLeft(h)' < StepsLeft(h)
  <2>1. pc[h] \in Running /\ pc' = pc /\ next = "edit" /\ next' = "gate"
    BY <1>5 DEF EditIntent, AtNode, Save, process
  <2>2. NodeSteps = PassSteps + (IF st.errors THEN 0 ELSE PassSteps)
    BY <2>1 DEF NodeSteps
  <2>3. NodeSteps' = 2 * Len(st'.specs) + FiredSteps' + RetrySteps'
    BY <2>1 DEF NodeSteps
  <2>4. st'.retried = st.errors
    BY <1>5, <1>t DEF EditIntent, EditUpdates, Save, Values
  <2>5. st.errors => RetrySteps' = 0
    BY <2>4 DEF RetrySteps
  <2>6. PassSteps \in Nat /\ RetrySteps' \in {0, PassSteps}
    BY <1>b
  <2>10. NodeSteps' < NodeSteps
    <3>1. CASE st.errors
      <4>1. NodeSteps = PassSteps + 0
        BY <2>2, <3>1
      <4>2. RetrySteps' = 0
        BY <2>5, <3>1
      <4>3. NodeSteps = PassSteps
        BY <2>6, <4>1
      <4>4. 2 * Len(st'.specs) + FiredSteps' + 0 < PassSteps
        BY <1>g, <1>s, <2>6
      <4> QED
        BY <2>3, <4>2, <4>3, <4>4
    <3>2. CASE ~st.errors
      <4>1. NodeSteps = PassSteps + PassSteps
        BY <2>2, <3>2
      <4>2. NodeSteps = 2 * PassSteps
        BY <2>6, <4>1
      <4>3. 2 * Len(st'.specs) + FiredSteps' + RetrySteps' < 2 * PassSteps
        BY <1>g, <1>s, <2>6
      <4> QED
        BY <2>3, <4>2, <4>3
    <3> QED
      BY <3>1, <3>2
  <2> QED
    BY <1>n, <2>1, <2>10
<1>6. ASSUME GatePass(h) \/ GateSelected(h)
      PROVE  StepsLeft(h)' < StepsLeft(h)
  <2>1. pc[h] \in Running /\ pc' = pc /\ fired' = fired /\ next = "gate"
        /\ next' \in {"gate", "validate"}
    BY <1>6 DEF GatePass, GateSelected, AtNode, Save, AfterGate
  <2>2. RetrySteps' = RetrySteps /\ FiredSteps' = FiredSteps
    BY <1>6, <1>t, <2>1 DEF GatePass, GateSelected, Save, Values, RetrySteps, PassSteps,
                            FiredSteps
  <2>3. next' = "gate" => Len(st'.specs) = Len(st.specs) - 1
    BY <1>6, <1>t, HeadTailProperties
       DEF GatePass, GateSelected, Save, AfterGate, Values
  <2>4. NodeSteps = 2 * Len(st.specs) + FiredSteps + RetrySteps
    BY <2>1 DEF NodeSteps
  <2>5. CASE next' = "gate"
    <3>1. NodeSteps' = 2 * Len(st'.specs) + FiredSteps + RetrySteps
      BY <2>1, <2>2, <2>5 DEF NodeSteps
    <3>2. NodeSteps' < NodeSteps
      BY <1>b, <2>3, <2>4, <2>5, <3>1
    <3> QED
      BY <1>n, <2>1, <3>2
  <2>6. CASE next' = "validate"
    <3>1. NodeSteps' = 3 + RetrySteps
      BY <2>2, <2>6 DEF NodeSteps
    <3>2. NodeSteps' < NodeSteps
      BY <1>b, <2>4, <3>1
    <3> QED
      BY <1>n, <2>1, <3>2
  <2> QED
    BY <2>1, <2>5, <2>6
<1>7. ASSUME CallRecraft(h)
      PROVE  StepsLeft(h)' < StepsLeft(h)
  <2>1. /\ pc[h] \in Running /\ UNCHANGED <<pc, st, next>> /\ next = "gate"
        /\ ~fired /\ fired' = TRUE
    BY <1>7 DEF CallRecraft, AtNode, thread
  <2>2. RetrySteps' = RetrySteps /\ FiredSteps = 5 /\ FiredSteps' = 4
    BY <2>1 DEF RetrySteps, PassSteps, FiredSteps
  <2>3. /\ NodeSteps = 2 * Len(st.specs) + 5 + RetrySteps
        /\ NodeSteps' = 2 * Len(st.specs) + 4 + RetrySteps
    BY <2>1, <2>2 DEF NodeSteps
  <2>10. NodeSteps' < NodeSteps
    BY <1>b, <2>1, <2>3
  <2> QED
    BY <1>n, <2>1, <2>10
<1>8. ASSUME GateGenerated(h)
      PROVE  StepsLeft(h)' < StepsLeft(h)
  <2>1. pc[h] \in Running /\ pc' = pc /\ fired' = FALSE /\ next = "gate"
        /\ next' \in {"gate", "validate"}
    BY <1>8 DEF GateGenerated, AtNode, Save, AfterGate
  <2>2. RetrySteps' = RetrySteps /\ FiredSteps' = 5
    BY <1>8, <1>t, <2>1 DEF GateGenerated, Save, Values, RetrySteps, PassSteps, FiredSteps
  <2>3. Len(st'.specs) = Len(st.specs) - 1
    BY <1>8, <1>t, HeadTailProperties DEF GateGenerated, Save, Values
  <2>4. NodeSteps = 2 * Len(st.specs) + FiredSteps + RetrySteps
    BY <2>1 DEF NodeSteps
  <2>5. CASE next' = "gate"
    <3>1. NodeSteps' = 2 * Len(st'.specs) + 5 + RetrySteps
      BY <2>1, <2>2, <2>5 DEF NodeSteps
    <3>2. NodeSteps' < NodeSteps
      BY <1>b, <2>3, <2>4, <3>1
    <3> QED
      BY <1>n, <2>1, <3>2
  <2>6. CASE next' = "validate"
    <3>1. NodeSteps' = 3 + RetrySteps
      BY <2>2, <2>6 DEF NodeSteps
    <3>2. NodeSteps' < NodeSteps
      BY <1>b, <2>4, <3>1
    <3> QED
      BY <1>n, <2>1, <3>2
  <2> QED
    BY <2>1, <2>5, <2>6
<1>9. ASSUME ValidateOK(h)
      PROVE  StepsLeft(h)' < StepsLeft(h)
  <2>1. pc[h] \in Running /\ pc' = pc /\ next = "validate" /\ next' = "commit"
    BY <1>9 DEF ValidateOK, AtNode, Save, process
  <2>2. NodeSteps = 3 + RetrySteps /\ NodeSteps' = 2
    BY <2>1 DEF NodeSteps
  <2>10. NodeSteps' < NodeSteps
    BY <1>b, <2>1, <2>2
  <2> QED
    BY <1>n, <2>1, <2>10
<1>10. ASSUME ValidateRetry(h)
       PROVE  StepsLeft(h)' < StepsLeft(h)
  <2> DEFINE v == [st EXCEPT !.errors = TRUE]
  <2>1. v.intent = st.intent /\ v.retried = st.retried /\ v.errors
    BY <1>t DEF Values
  <2>2. /\ pc[h] \in Running /\ pc' = pc /\ next = "validate" /\ next' = "edit"
        /\ st' = v /\ st.intent # 0 /\ ~st.retried
    BY <1>10, <2>1 DEF ValidateRetry, Retries, AtNode, Save, process
  <2>3. NodeSteps = 3 + PassSteps
    BY <2>2 DEF NodeSteps, RetrySteps
  <2>4. NodeSteps' = PassSteps
    <3>1. st'.errors /\ PassSteps' = PassSteps
      BY <2>1, <2>2 DEF PassSteps
    <3> QED
      BY <1>b, <2>2, <3>1 DEF NodeSteps
  <2>10. NodeSteps' < NodeSteps
    BY <1>b, <2>2, <2>3, <2>4
  <2> QED
    BY <1>n, <2>2, <2>10
<1>11. ASSUME Commit(h)
       PROVE  StepsLeft(h)' < StepsLeft(h)
  <2>1. pc[h] \in Running /\ pc'[h] = "preview" /\ next = "commit"
    BY <1>11, <1>t DEF Commit, AtNode
  <2>2. StepsLeft(h) = 2
    BY <2>1 DEF StepsLeft, NodeSteps, Running
  <2>3. StepsLeft(h)' = 1
    BY <2>1 DEF StepsLeft, Running
  <2> QED
    BY <2>2, <2>3
<1>12. ASSUME FabricRendered(h)
       PROVE  StepsLeft(h)' < StepsLeft(h)
  <2>1. pc[h] = "render" /\ pc'[h] = "rendered"
    BY <1>12, <1>t DEF FabricRendered
  <2>2. StepsLeft(h) = 2 /\ StepsLeft(h)' = 1
    BY <2>1 DEF StepsLeft, Running
  <2> QED
    BY <2>2
<1>16. ASSUME VectorizeImages(h)
       PROVE  StepsLeft(h)' < StepsLeft(h)
  <2>1. /\ pc[h] \in Running /\ pc' = pc /\ next = "author" /\ next' = "author"
        /\ ~fired /\ fired'
    BY <1>16 DEF VectorizeImages, AtNode, thread
  <2>2. NodeSteps = 2 * PassSteps /\ NodeSteps' = 2 * PassSteps - 1
    BY <2>1 DEF NodeSteps, PassSteps
  <2>10. NodeSteps' < NodeSteps
    BY <1>b, <2>2
  <2> QED
    BY <1>n, <2>1, <2>10
<1>13. CASE Crash
  <2>1. pc'[h] = "idle"
    BY <1>13 DEF Crash
  <2>2. StepsLeft(h)' = 0
    BY <2>1 DEF StepsLeft, Running
  <2> QED
    BY <1>b, <2>2
<1>14. ASSUME NEW g \in Handlers, g # h, Work(g)
       PROVE  FALSE
  BY <1>14, <1>o, WorksOnlyBusy
<1>15. CASE Work(h)
  BY <1>15, <1>2, <1>3, <1>4, <1>5, <1>6, <1>7, <1>8, <1>9, <1>10, <1>11, <1>12,
     <1>16 DEF Work, Gate
<1> QED
  BY <1>1, <1>13, <1>14, <1>15 DEF Next

\* Every operation that is let in is a bounded number of steps from its answer,
\* and every step of the session is one of them: with any number of specs to
\* be decided at the gate, no handler can turn in a circle.  What keeps an
\* operation from finishing could only be a step that is never taken.
THEOREM OperationsAreShort == Spec => []OperationsBounded /\ OperationsShorten
<1>1. LockInv => OperationsBounded
  BY StepsLeftBounded DEF LockInv
<1>2. LockInv /\ [Next]_vars
        => [\A h \in Handlers : pc[h] # "idle" => StepsLeft(h)' < StepsLeft(h)]_vars
  BY StepShortens
<1> QED
  BY LockInit, LockInvStep, <1>1, <1>2, PTL DEF Spec, OperationsShorten

-----------------------------------------------------------------------------
(* The account.                                                            *)

\* A finalize keeps its place in the budget while it renders, and has rendered
\* what it is going to count.
RendersOK ==
  \A h \in Handlers :
    /\ pc[h] \in {"render", "rendered"} => st.finalized < FinalizeLimit
    /\ pc[h] = "rendered" => st.finalized < renders

SomeRendered == \E h \in Handlers : pc[h] = "rendered"

\* A step that neither spends nor renders, and leaves no render uncounted that
\* was not, keeps the account.
LEMMA AccountKept ==
  ASSUME TypeOK, AccountExact, st'.recraft = st.recraft,
         st'.finalized = st.finalized, UNCHANGED <<gens, renders, crashes>>,
         SomeRendered' = SomeRendered
  PROVE  AccountExact'
BY DEF AccountExact, SomeRendered

LEMMA AccountStep ==
  ASSUME LockInv, GateInv, AccountExact, RendersOK, [Next]_vars
  PROVE  AccountExact' /\ RendersOK'
<1> USE LimitsAssumption
<1> DEFINE Rendering == {"render", "rendered"}
<1>t. /\ pc \in [Handlers -> Stages] /\ mem \in [Handlers -> Memory]
      /\ st \in Values /\ st.recraft \in Nat /\ st.finalized \in Nat
      /\ gens \in Nat /\ renders \in Nat /\ crashes \in Nat
      /\ TypeOK /\ FromOK /\ OneOperation /\ IdleOK
  BY DEF LockInv, TypeOK, ProcessOK, ThreadOK, HistoryOK, Values
<1>n. ASSUME ~SomeRendered, \A g \in Handlers : pc'[g] \notin Rendering,
             st'.recraft = st.recraft, st'.finalized = st.finalized,
             UNCHANGED <<gens, renders, crashes>>
      PROVE  AccountExact' /\ RendersOK'
  BY <1>n, <1>t, AccountKept DEF SomeRendered, RendersOK
<1>e. ASSUME NEW h \in Handlers, NEW stage \in Stages \ Rendering, NEW m,
             Enter(h, stage, m), UNCHANGED <<thread, history>>
      PROVE  AccountExact' /\ RendersOK'
  <2>1. ~SomeRendered /\ \A g \in Handlers : pc'[g] \notin Rendering
    BY <1>e, <1>t DEF Enter, OneOperation, SomeRendered
  <2> QED
    BY <1>e, <1>n, <2>1 DEF thread, history
<1>o. ASSUME NEW h \in Handlers, pc[h] \notin {"idle", "rendered"},
             \/ Leave(h)
             \/ \E stage \in Stages \ Rendering : pc' = [pc EXCEPT ![h] = stage]
             \/ pc[h] # "render" /\ pc' = pc,
             st'.recraft = st.recraft, st'.finalized = st.finalized,
             UNCHANGED <<gens, renders, crashes>>
      PROVE  AccountExact' /\ RendersOK'
  <2>1. ~SomeRendered /\ \A g \in Handlers : pc'[g] \notin Rendering
    BY <1>o, <1>t, Alone DEF Leave, SomeRendered
  <2> QED
    BY <1>o, <1>n, <2>1
<1>1. ASSUME NEW h \in Handlers, NEW from \in 0..Len(listed), AcceptTurn(h, from)
      PROVE  AccountExact' /\ RendersOK'
  BY <1>1, <1>e DEF AcceptTurn, Stages
<1>2. ASSUME NEW h \in Handlers, SelectMotif(h) \/ ConfirmGenerate(h)
      PROVE  AccountExact' /\ RendersOK'
  BY <1>2, <1>e DEF SelectMotif, ConfirmGenerate, Resume, Stages
<1>3. ASSUME NEW h \in Handlers, AcceptFinalize(h)
      PROVE  AccountExact' /\ RendersOK'
  <2>1. /\ pc' = [pc EXCEPT ![h] = "render"]
        /\ st' = st /\ st.finalized < FinalizeLimit
        /\ UNCHANGED <<gens, renders, crashes>>
        /\ \A g \in Handlers : pc[g] = "idle"
    BY <1>3, <1>t DEF AcceptFinalize, Enter, BudgetLeft, thread, history, OneOperation
  <2>2. SomeRendered' = SomeRendered
    BY <1>t, <2>1 DEF SomeRendered
  <2>3. RendersOK'
    BY <1>t, <2>1 DEF RendersOK
  <2> QED
    BY <1>t, <2>1, <2>2, <2>3, AccountKept
<1>4. ASSUME NEW h \in Handlers, NEW sets \in BOOLEAN, InvokeTurn(h, sets)
      PROVE  AccountExact' /\ RendersOK'
  <2> DEFINE base == TurnBase(mem[h].from)
  <2>1. base \in Values /\ base.recraft = st.recraft /\ base.finalized = st.finalized
    BY <1>t, TurnBaseOK
  <2>2. st'.recraft = st.recraft /\ st'.finalized = st.finalized
    BY <1>4, <2>1 DEF InvokeTurn, Values
  <2> QED
    BY <1>4, <1>o, <2>2 DEF InvokeTurn, Stages
<1>5. ASSUME NEW h \in Handlers,
             RefuseInput(h) \/ GateAsk(h) \/ GateRaises(h) \/ NodeRaises(h)
             \/ FinalizeRaises(h)
      PROVE  AccountExact' /\ RendersOK'
  <2>1. pc[h] \notin {"idle", "rendered"} /\ Leave(h)
        /\ st' = st /\ UNCHANGED <<gens, renders, crashes>>
    BY <1>5 DEF RefuseInput, GateAsk, GateRaises, NodeRaises, FinalizeRaises,
                AtNode, Running, thread, history
  <2> QED
    BY <1>o, <2>1
<1>6. ASSUME NEW h \in Handlers, CallRecraft(h) \/ VectorizeImages(h)
      PROVE  AccountExact' /\ RendersOK'
  <2>1. pc[h] \notin {"idle", "rendered", "render"} /\ pc' = pc
        /\ st' = st /\ UNCHANGED <<gens, renders, crashes>>
    BY <1>6 DEF CallRecraft, VectorizeImages, AtNode, Running, thread
  <2> QED
    BY <1>o, <2>1
<1>7. ASSUME NEW h \in Handlers,
             \/ \E specs \in SpecLists, sets \in BOOLEAN :
                  AuthorIntent(h, specs, sets) \/ EditIntent(h, specs, sets)
             \/ GatePass(h) \/ GateSelected(h)
             \/ ValidateOK(h) \/ ValidateRetry(h)
      PROVE  AccountExact' /\ RendersOK'
  <2>1. pc[h] \notin {"idle", "rendered", "render"} /\ pc' = pc
        /\ UNCHANGED <<gens, renders, crashes>>
    BY <1>7 DEF AuthorIntent, EditIntent, GatePass, GateSelected, ValidateOK,
                ValidateRetry, AtNode, Running, process, history
  <2>2. st'.recraft = st.recraft /\ st'.finalized = st.finalized
    BY <1>7, <1>t DEF AuthorIntent, EditIntent, EditUpdates, GatePass, GateSelected,
                      ValidateOK, ValidateRetry, Save, Values
  <2> QED
    BY <1>o, <2>1, <2>2
<1>8. ASSUME NEW h \in Handlers,
             \/ ValidateGiveUp(h)
             \/ \E png \in BOOLEAN : PreviewsDone(h, png)
      PROVE  AccountExact' /\ RendersOK'
  <2>1. pc[h] \notin {"idle", "rendered"} /\ Leave(h)
        /\ UNCHANGED <<gens, renders, crashes>>
    BY <1>8 DEF ValidateGiveUp, PreviewsDone, AtNode, Running, history
  <2>2. st'.recraft = st.recraft /\ st'.finalized = st.finalized
    BY <1>8, <1>t DEF ValidateGiveUp, PreviewsDone, UpdateState, Save, Values
  <2> QED
    BY <1>o, <2>1, <2>2
<1>9. ASSUME NEW h \in Handlers, Commit(h)
      PROVE  AccountExact' /\ RendersOK'
  <2>1. pc[h] \notin {"idle", "rendered"} /\ pc' = [pc EXCEPT ![h] = "preview"]
        /\ "preview" \in Stages \ Rendering /\ UNCHANGED <<gens, renders, crashes>>
    BY <1>9 DEF Commit, AtNode, Running, Stages
  <2>2. st'.recraft = st.recraft /\ st'.finalized = st.finalized
    BY <1>9, <1>t DEF Commit, Save, Values
  <2> QED
    BY <1>o, <2>1, <2>2
<1>10. ASSUME NEW h \in Handlers, GateGenerated(h)
       PROVE  AccountExact' /\ RendersOK'
  <2>1. pc[h] \in Running /\ pc' = pc /\ gens' = gens + 1
        /\ UNCHANGED <<renders, crashes>>
    BY <1>10 DEF GateGenerated, AtNode
  <2>2. st'.recraft = st.recraft + 1 /\ st'.finalized = st.finalized
    BY <1>10, <1>t DEF GateGenerated, Save, Values
  <2>3. st.recraft < RecraftLimit
    BY <1>10 DEF GateGenerated, Decision, GateInv, GateResumable, Approved
  <2>4. \A g \in Handlers : pc[g] \notin Rendering
    BY <1>t, <2>1, Alone DEF Running
  <2>5. RendersOK'
    BY <2>1, <2>4 DEF RendersOK
  <2> QED
    BY <1>t, <2>1, <2>2, <2>3, <2>5 DEF AccountExact
<1>11. ASSUME NEW h \in Handlers, FabricRendered(h)
       PROVE  AccountExact' /\ RendersOK'
  <2>1. /\ pc[h] = "render" /\ pc' = [pc EXCEPT ![h] = "rendered"]
        /\ renders' = renders + 1 /\ st' = st /\ UNCHANGED <<gens, crashes>>
    BY <1>11 DEF FabricRendered, thread
  <2>2. \A g \in Handlers \ {h} : pc[g] = "idle" /\ pc'[g] = "idle"
    BY <1>t, <2>1, Alone
  <2>3. ~SomeRendered /\ SomeRendered'
    BY <1>t, <2>1, <2>2 DEF SomeRendered
  <2>4. AccountExact'
    BY <1>t, <2>1, <2>3 DEF AccountExact, SomeRendered
  <2>5. RendersOK'
    BY <1>t, <2>1, <2>2 DEF RendersOK, AccountExact
  <2> QED
    BY <2>4, <2>5
<1>12. ASSUME NEW h \in Handlers, CountFinalize(h)
       PROVE  AccountExact' /\ RendersOK'
  <2>1. pc[h] = "rendered" /\ Leave(h) /\ UNCHANGED <<gens, renders, crashes>>
    BY <1>12 DEF CountFinalize, history
  <2>2. st'.recraft = st.recraft /\ st'.finalized = st.finalized + 1
    BY <1>12, <1>t DEF CountFinalize, UpdateState, Values
  <2>3. SomeRendered /\ st.finalized < renders /\ st.finalized < FinalizeLimit
    BY <2>1 DEF SomeRendered, RendersOK
  <2>4. \A g \in Handlers : pc'[g] = "idle"
    BY <1>t, <2>1, Alone DEF Leave
  <2>5. RendersOK'
    BY <2>4 DEF RendersOK
  <2>6. AccountExact'
    BY <1>t, <2>1, <2>2, <2>3, <2>4 DEF AccountExact, SomeRendered
  <2> QED
    BY <2>5, <2>6
<1>13. CASE Crash
  <2>1. /\ \A g \in Handlers : pc'[g] = "idle"
        /\ crashes' = crashes + 1 /\ st' = st /\ UNCHANGED <<gens, renders>>
    BY <1>13 DEF Crash, thread
  <2>2. RendersOK'
    BY <2>1 DEF RendersOK
  <2>3. AccountExact'
    BY <1>t, <2>1 DEF AccountExact
  <2> QED
    BY <2>2, <2>3
<1>14. CASE UNCHANGED vars
  BY <1>14 DEF vars, thread, process, history, AccountExact, RendersOK
<1> QED
  BY <1>1, <1>2, <1>3, <1>4, <1>5, <1>6, <1>7, <1>8, <1>9, <1>10, <1>11,
     <1>12, <1>13, <1>14 DEF Next, Request, Work, Gate

\* The counters of a session are an exact account of its generations and a
\* ceiling on both budgets; of its renders, only those can escape the count
\* that a crash separated from increment_budget.
THEOREM AccountExactAlways == Spec => []AccountExact
<1> USE LimitsAssumption
<1>1. Init => AccountExact /\ RendersOK
  BY DEF Init, AccountExact, RendersOK, NoValues
<1>2. LockInv /\ GateInv /\ AccountExact /\ RendersOK /\ [Next]_vars
        => LockInv' /\ GateInv' /\ AccountExact' /\ RendersOK'
  BY LockInvStep, GateInvStep, AccountStep
<1> QED
  BY LockInit, GateInit, <1>1, <1>2, PTL DEF Spec

==============================================================================
