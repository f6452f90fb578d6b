------------------------------- MODULE Session -------------------------------
(***************************************************************************)
(* One design session: the LangGraph thread of app/sessions/graph.py, the  *)
(* routes that drive it (app/api/routes/generate.py and sessions.py) and   *)
(* the cost guard (app/sessions/budget.py).  Sessions share nothing that   *)
(* is modelled here, so one is enough.                                     *)
(*                                                                         *)
(* The requests of the session are handled by coroutines, the Handlers.    *)
(* A graph run is a sequence of node steps; every node ends in a           *)
(* checkpoint, a node that raises leaves the checkpoint it started from,   *)
(* and a process crash forgets the handlers and the in-flight lock but not *)
(* the checkpoints (the Postgres saver).                                   *)
(*                                                                         *)
(* An intent is known by the number of the commit that froze it, and the   *)
(* session-level settings (seed, colorway, material_map) by the number of  *)
(* the turn that last wrote one of them.  A pending motif spec is "reuse"  *)
(* when the gate can offer existing motifs for it, and "new" when it       *)
(* cannot (force_new, or nothing similar in the pool).                     *)
(***************************************************************************)
EXTENDS Naturals, Sequences

CONSTANTS
  Handlers,        \* coroutines that can be serving this session
  RecraftLimit,    \* session_recraft_limit
  FinalizeLimit,   \* session_finalize_limit
  MaxSpecs,        \* bound: motif specs one authoring or edit pass can leave
  MaxTurns,        \* bound: turns started
  MaxCalls,        \* bound: generation calls to Recraft
  MaxUploads,      \* bound: vectorization calls to Recraft
  MaxCrashes       \* bound: process crashes

ASSUME LimitsAssumption == RecraftLimit \in Nat /\ FinalizeLimit \in Nat
ASSUME BoundsAssumption ==
  /\ MaxSpecs \in Nat
  /\ MaxTurns \in Nat
  /\ MaxCalls \in Nat
  /\ MaxUploads \in Nat
  /\ MaxCrashes \in Nat

VARIABLES
  \* the LangGraph thread, all of it durable
  st,        \* values of the head checkpoint
  next,      \* the node the head checkpoint is about to run, or "end"
  task,      \* pending writes of the gate task: the interrupt, and the
             \* decision on which the node has raised
  listed,    \* the turn-boundary checkpoints, oldest first
  \* one server process
  inflight,  \* the session is in budget._INFLIGHT
  pc,        \* what each handler is doing
  mem,       \* what each handler holds across its awaits
  fired,     \* the running node has called Recraft
  \* what really happened
  turn,      \* turns started
  passes,    \* edit passes of the current turn
  commits,   \* commits made on any branch
  calls,     \* generations asked of Recraft
  uploads,   \* uploaded images that Recraft was asked to vectorize
  gens,      \* gates completed with a generated motif
  renders,   \* fabric renders completed
  crashes

thread  == <<st, next, task, listed>>
process == <<inflight, pc, mem, fired>>
history == <<turn, passes, commits, calls, uploads, gens, renders, crashes>>
vars    == <<thread, process, history>>

-----------------------------------------------------------------------------
(* Data.                                                                   *)

SpecKinds == {"reuse", "new"}
Specs     == {s \in Seq(SpecKinds) : Len(s) <= MaxSpecs}

\* current_candidates: the commit they were made by, the settings they were
\* made with, and whether their preview urls have been written back.
Candidates   == [of : Nat, side : Nat, png : BOOLEAN]
NoCandidates == [of |-> 0, side |-> 0, png |-> FALSE]

\* SessionState.  intent = 0: no current_intent; batch = 0: no render_batch.
Values == [intent : Nat, cands : Candidates, batch : Nat, side : Nat,
           specs : Specs, errors : BOOLEAN, retried : BOOLEAN,
           recraft : Nat, finalized : Nat]

NoValues == [intent |-> 0, cands |-> NoCandidates, batch |-> 0, side |-> 0,
             specs |-> <<>>, errors |-> FALSE, retried |-> FALSE,
             recraft |-> 0, finalized |-> 0]

Nodes   == {"author", "edit", "gate", "validate", "commit", "end"}
Answers == {"none", "select", "generate"}
NoTask  == [asked |-> FALSE, answer |-> "none"]

Stages  == {"idle", "accepted", "turn", "select", "confirm", "preview",
            "render", "rendered"}
Running == {"turn", "select", "confirm"}      \* inside graph.invoke
Memory  == [from : Nat, decision : Answers, cands : Candidates]
NoMem   == [from |-> 0, decision |-> "none", cands |-> NoCandidates]

\* A spec list of at most MaxSpecs entries, as the LLM may propose one.
\* (Written as a union over lengths so that it can be enumerated.)
SpecLists == UNION {[1..n -> SpecKinds] : n \in 0..MaxSpecs}

-----------------------------------------------------------------------------
Init ==
  /\ st = NoValues
  /\ next = "end"
  /\ task = NoTask
  /\ listed = <<>>
  /\ inflight = FALSE
  /\ pc = [h \in Handlers |-> "idle"]
  /\ mem = [h \in Handlers |-> NoMem]
  /\ fired = FALSE
  /\ turn = 0 /\ passes = 0 /\ commits = 0
  /\ calls = 0 /\ uploads = 0 /\ gens = 0 /\ renders = 0 /\ crashes = 0

-----------------------------------------------------------------------------
(* Cost guard and checkpoint queries.                                      *)

\* budget_exceeded: at the ceiling is already too much.
BudgetLeftOffByOne(used, limit) == used <= limit      \* fault

BudgetLeft(used, limit) == used < limit

EnterUnlocked(h, stage, m) ==                         \* fault
  /\ pc[h] = "idle"
  /\ inflight' = TRUE
  /\ pc' = [pc EXCEPT ![h] = stage]
  /\ mem' = [mem EXCEPT ![h] = m]

\* session_inflight: enter (the caller is refused with SessionBusy, and
\* nothing changes, when the session is already there) ...
Enter(h, stage, m) ==
  /\ pc[h] = "idle"
  /\ ~inflight
  /\ inflight' = TRUE
  /\ pc' = [pc EXCEPT ![h] = stage]
  /\ mem' = [mem EXCEPT ![h] = m]

\* ... and leave, on any exit of the handler.
Leave(h) ==
  /\ inflight' = FALSE
  /\ pc' = [pc EXCEPT ![h] = "idle"]
  /\ mem' = [mem EXCEPT ![h] = NoMem]

\* awaiting_gate: the head is about to run the gate node, or its gate task
\* still carries an interrupt.  (Once the node has raised on a decision,
\* LangGraph shows no next node any more, only the interrupt.)
AwaitingGateNextOnly == next = "gate" /\ task.answer = "none"        \* fault

AwaitingGate ==
  \/ next = "gate" /\ task.answer = "none"
  \/ task.asked

\* The checkpoints list_turn_checkpoints keeps: loop-end, committed, clean.
TurnBoundaryUnclean(v, n) == n = "end" /\ v.intent # 0             \* fault

TurnBoundary(v, n) == n = "end" /\ v.intent # 0 /\ ~v.errors

Listed(v, n) == IF TurnBoundary(v, n) THEN Append(listed, v) ELSE listed

\* The checkpoint LangGraph saves after a superstep: the new head, about to
\* run n, with no pending writes.
SaveKeepingTask(v, n) ==                                             \* fault
  /\ st' = v
  /\ next' = n
  /\ task' = [task EXCEPT !.asked = FALSE]
  /\ listed' = Listed(v, n)

Save(v, n) ==
  /\ st' = v
  /\ next' = n
  /\ task' = NoTask
  /\ listed' = Listed(v, n)

\* _classify
Entry(v) == IF v.intent = 0 THEN "author" ELSE "edit"

-----------------------------------------------------------------------------
(* POST /generate with a session_id.                                       *)

\* _session_generate up to the worker thread.  A fork (from > 0) names one of
\* the checkpoints the session has listed; an unknown one is a 404.
AcceptTurn(h, from) ==
  /\ turn < MaxTurns
  /\ from # 0 => listed[from].intent # 0
  /\ Enter(h, "accepted", [NoMem EXCEPT !.from = from])
  /\ UNCHANGED <<thread, fired, history>>

\* run_turn: merge the turn's input into the head, or into the checkpoint the
\* turn forks from with the budget of the head.  A new input discards an
\* interrupt that was still pending.  The request may carry a seed or a
\* colorway (sets).
TurnBaseRefunding(from) == IF from = 0 THEN st ELSE listed[from]    \* fault

TurnBase(from) ==
  IF from = 0 THEN st
  ELSE [listed[from] EXCEPT !.recraft = st.recraft, !.finalized = st.finalized]

InvokeTurn(h, sets) ==
  /\ pc[h] = "accepted"
  /\ LET base == TurnBase(mem[h].from)
     IN  /\ st' = [base EXCEPT !.side = IF sets THEN turn + 1 ELSE base.side]
         /\ next' = Entry(base)
  /\ task' = NoTask
  /\ pc' = [pc EXCEPT ![h] = "turn"]
  /\ turn' = turn + 1
  /\ passes' = 0
  /\ UNCHANGED <<listed, inflight, mem, fired, commits, calls, uploads, gens,
                 renders, crashes>>

\* _run_session_turn raises before invoking the graph: an image that cannot be
\* decoded.
RefuseInput(h) ==
  /\ pc[h] = "accepted"
  /\ Leave(h)
  /\ UNCHANGED <<thread, fired, history>>

-----------------------------------------------------------------------------
(* The graph's nodes, run by handler h.                                    *)

AtNode(h, n) == pc[h] \in Running /\ next = n

\* author_intent resolves its text and image motifs itself.  An image that
\* matches nothing is vectorized by Recraft, and no confirm is asked for that.
\* One step stands for the calls of one pass, which an answer of the image
\* cache or a match in the pool can spare.
VectorizeImages(h) ==
  /\ AtNode(h, "author")
  /\ ~fired
  /\ uploads < MaxUploads
  /\ fired' = TRUE
  /\ uploads' = uploads + 1
  /\ UNCHANGED <<thread, inflight, pc, mem, turn, passes, commits, calls, gens,
                 renders, crashes>>

\* author_intent returns.  specs are the gated ones.  It takes the seed from the
\* intent when the session has none (sets), and starts the budget.
AuthorIntent(h, specs, sets) ==
  /\ AtNode(h, "author")
  /\ st.side = 0 => sets
  /\ Save([st EXCEPT !.specs = specs,
                     !.side = IF sets THEN turn ELSE st.side,
                     !.errors = FALSE,
                     !.retried = FALSE], "gate")
  /\ fired' = FALSE
  /\ UNCHANGED <<inflight, pc, mem, history>>

EditUpdates(specs, sets) ==
  [st EXCEPT !.specs = specs,
             !.side = IF sets THEN turn ELSE st.side,
             !.errors = FALSE,
             !.retried = st.errors]

\* edit_intent.  The errors found in the state are fed to the LLM and make
\* this pass a retry; set_colorway, set_seed and set_material (sets) go to the
\* session at once.
EditIntent(h, specs, sets) ==
  /\ AtNode(h, "edit")
  /\ Save(EditUpdates(specs, sets), "gate")
  /\ passes' = IF passes < 3 THEN passes + 1 ELSE passes
  /\ UNCHANGED <<process, turn, commits, calls, uploads, gens, renders, crashes>>

\* What interrupt() returns to the gate node: LangGraph replays the decision it
\* has cached for the interrupt, else it takes the one the run was resumed
\* with, once; without either the node is interrupted.
Decision(h) == IF task.answer # "none" THEN task.answer ELSE mem[h].decision

Decided(h) == mem' = [mem EXCEPT ![h].decision = "none"]

\* resolve_gate with nothing pending.
GatePass(h) ==
  /\ AtNode(h, "gate")
  /\ st.specs = <<>>
  /\ Save(st, "validate")
  /\ Decided(h)
  /\ UNCHANGED <<inflight, pc, fired, history>>

\* resolve_gate up to its interrupt: the run ends and the route answers with
\* the pending payload.
GateAsk(h) ==
  /\ AtNode(h, "gate")
  /\ st.specs # <<>>
  /\ Decision(h) = "none"
  /\ task' = [task EXCEPT !.asked = TRUE]
  /\ Leave(h)
  /\ UNCHANGED <<st, next, listed, fired, history>>

\* resolve_gate after the interrupt: the motif is frozen, the spec is done and
\* _gate_more goes on to the next one or to validate.
AfterGate(v) == IF v.specs = <<>> THEN "validate" ELSE "gate"

GateSelected(h) ==
  /\ AtNode(h, "gate")
  /\ st.specs # <<>>
  /\ Decision(h) = "select"
  /\ LET v == [st EXCEPT !.specs = Tail(@)] IN Save(v, AfterGate(v))
  /\ Decided(h)
  /\ UNCHANGED <<inflight, pc, fired, history>>

\* generate_via_recraft reaches the API, once or, when the first answer is not
\* suitable, twice.
CallRecraft(h) ==
  /\ AtNode(h, "gate")
  /\ st.specs # <<>>
  /\ Decision(h) = "generate"
  /\ ~fired
  /\ fired' = TRUE
  /\ calls' = calls + 1
  /\ UNCHANGED <<thread, inflight, pc, mem, turn, passes, commits, uploads,
                 gens, renders, crashes>>

\* It returns a motif, from the API or from the spec cache (never fired).
GateGenerated(h) ==
  /\ AtNode(h, "gate")
  /\ st.specs # <<>>
  /\ Decision(h) = "generate"
  /\ LET v == [st EXCEPT !.specs = Tail(@), !.recraft = @ + 1]
     IN  Save(v, AfterGate(v))
  /\ Decided(h)
  /\ fired' = FALSE
  /\ gens' = gens + 1
  /\ UNCHANGED <<inflight, pc, turn, passes, commits, calls, uploads, renders,
                 crashes>>

\* validate_intent accepts the working intent, possibly after a repair.
ValidateOK(h) ==
  /\ AtNode(h, "validate")
  /\ Save([st EXCEPT !.errors = FALSE], "commit")
  /\ UNCHANGED <<process, history>>

\* _after_validate on errors: one retry of an edit, else the run ends and the
\* route answers 422.
RetriesForever(v) == v.intent # 0                                   \* fault

Retries(v) == v.intent # 0 /\ ~v.retried

ValidateRetry(h) ==
  /\ AtNode(h, "validate")
  /\ LET v == [st EXCEPT !.errors = TRUE]
     IN  Retries(v) /\ Save(v, "edit")
  /\ UNCHANGED <<process, history>>

ValidateGiveUp(h) ==
  /\ AtNode(h, "validate")
  /\ LET v == [st EXCEPT !.errors = TRUE]
     IN  ~Retries(v) /\ Save(v, "end")
  /\ Leave(h)
  /\ UNCHANGED <<fired, history>>

\* commit, and the run's result in the hands of respond_session_turn.
Commit(h) ==
  /\ AtNode(h, "commit")
  /\ LET id == commits + 1
         made == [of |-> id, side |-> st.side, png |-> FALSE]
     IN  /\ Save([st EXCEPT !.intent = id, !.cands = made, !.batch = id,
                            !.specs = <<>>, !.errors = FALSE,
                            !.retried = FALSE], "end")
         /\ mem' = [mem EXCEPT ![h].cands = made]
         /\ commits' = id
  /\ pc' = [pc EXCEPT ![h] = "preview"]
  /\ UNCHANGED <<inflight, fired, turn, passes, calls, uploads, gens, renders,
                 crashes>>

\* A node raises: the LLM is down or answers with nothing usable, nothing can
\* be composed.  The head stays where it was; the route answers with an error.
NodeRaises(h) ==
  /\ pc[h] \in Running
  /\ next \in {"author", "edit", "commit"}
  /\ fired' = FALSE
  /\ Leave(h)
  /\ UNCHANGED <<thread, history>>

\* The gate node raises on "generate": the embedding or Recraft is down, or the
\* motif is unsuitable.  The decision it raised on stays with the interrupt.
GateRaises(h) ==
  /\ AtNode(h, "gate")
  /\ st.specs # <<>>
  /\ Decision(h) = "generate"
  /\ task' = [task EXCEPT !.answer = "generate"]
  /\ fired' = FALSE
  /\ Leave(h)
  /\ UNCHANGED <<st, next, listed, history>>

\* update_state: a new head with no pending writes, which is never a turn
\* boundary.
UpdateState(v) ==
  /\ st' = v
  /\ task' = NoTask
  /\ UNCHANGED <<next, listed>>

\* respond_session_turn after render_previews: set_candidate_previews writes
\* the candidates of the run's result, with the urls that could be made.
PreviewsDone(h, png) ==
  /\ pc[h] = "preview"
  /\ UpdateState([st EXCEPT !.cands = [mem[h].cands EXCEPT !.png = png],
                            !.batch = 0])
  /\ Leave(h)
  /\ UNCHANGED <<fired, history>>

-----------------------------------------------------------------------------
(* POST /sessions/{id}/select-motif and /confirm.                          *)

\* resume_turn
Resume(h, stage, decision) ==
  Enter(h, stage, [NoMem EXCEPT !.decision = decision])

\* select_motif: a payload must be there, and the motif one of those offered.
SelectMotif(h) ==
  /\ AwaitingGate
  /\ task.asked
  /\ Head(st.specs) = "reuse"
  /\ task.answer = "generate" => calls < MaxCalls
  /\ Resume(h, "select", "select")
  /\ UNCHANGED <<thread, fired, history>>

\* confirm with generate_motif: the budget is checked before the resume.
ConfirmGenerate(h) ==
  /\ AwaitingGate
  /\ BudgetLeft(st.recraft, RecraftLimit)
  /\ calls < MaxCalls
  /\ Resume(h, "confirm", "generate")
  /\ UNCHANGED <<thread, fired, history>>

\* confirm with finalize: no gate pending, budget left, a candidate to render;
\* what is rendered is read here, before the await.
AcceptFinalize(h) ==
  /\ ~AwaitingGate
  /\ BudgetLeft(st.finalized, FinalizeLimit)
  /\ st.cands.of # 0
  /\ Enter(h, "render", [NoMem EXCEPT !.cands = st.cands])
  /\ UNCHANGED <<thread, fired, history>>

\* finalize_candidate returns from the render; the upload is best-effort.
FabricRendered(h) ==
  /\ pc[h] = "render"
  /\ pc' = [pc EXCEPT ![h] = "rendered"]
  /\ renders' = renders + 1
  /\ UNCHANGED <<thread, inflight, mem, fired, turn, passes, commits, calls,
                 uploads, gens, crashes>>

\* finalize_candidate raises: the intent, a knob or the renderer is no good.
FinalizeRaises(h) ==
  /\ pc[h] = "render"
  /\ Leave(h)
  /\ UNCHANGED <<thread, fired, history>>

\* increment_budget on the head as it is now.
CountFinalize(h) ==
  /\ pc[h] = "rendered"
  /\ UpdateState([st EXCEPT !.finalized = @ + 1])
  /\ Leave(h)
  /\ UNCHANGED <<fired, history>>

-----------------------------------------------------------------------------
\* The process dies while it works for the session and is started again.
Crash ==
  /\ crashes < MaxCrashes
  /\ \E h \in Handlers : pc[h] # "idle"
  /\ inflight' = FALSE
  /\ pc' = [h \in Handlers |-> "idle"]
  /\ mem' = [h \in Handlers |-> NoMem]
  /\ fired' = FALSE
  /\ crashes' = crashes + 1
  /\ UNCHANGED <<thread, turn, passes, commits, calls, uploads, gens, renders>>

-----------------------------------------------------------------------------
Request(h) ==
  \/ \E from \in 0..Len(listed) : AcceptTurn(h, from)
  \/ SelectMotif(h)
  \/ ConfirmGenerate(h)
  \/ AcceptFinalize(h)

Gate(h) ==
  \/ GatePass(h) \/ GateAsk(h) \/ GateSelected(h)
  \/ CallRecraft(h) \/ GateGenerated(h) \/ GateRaises(h)

Work(h) ==
  \/ \E sets \in BOOLEAN : InvokeTurn(h, sets)
  \/ RefuseInput(h)
  \/ VectorizeImages(h)
  \/ \E specs \in SpecLists, sets \in BOOLEAN :
       AuthorIntent(h, specs, sets) \/ EditIntent(h, specs, sets)
  \/ Gate(h)
  \/ ValidateOK(h) \/ ValidateRetry(h) \/ ValidateGiveUp(h)
  \/ Commit(h)
  \/ NodeRaises(h)
  \/ \E png \in BOOLEAN : PreviewsDone(h, png)
  \/ FabricRendered(h) \/ FinalizeRaises(h) \/ CountFinalize(h)

Next ==
  \/ \E h \in Handlers : Request(h) \/ Work(h)
  \/ Crash

Spec == Init /\ [][Next]_vars

\* A handler that has started goes on: the adapters' calls time out, so every
\* node returns or raises.  Nobody has to send a request.
FairSpec == Spec /\ \A h \in Handlers : WF_vars(Work(h))

-----------------------------------------------------------------------------
(* Correctness.                                                            *)

\* Every variable has its type.
ThreadOK ==
  /\ st \in Values
  /\ next \in Nodes
  /\ task \in [asked : BOOLEAN, answer : Answers]
  /\ listed \in Seq(Values)

ProcessOK ==
  /\ inflight \in BOOLEAN
  /\ pc \in [Handlers -> Stages]
  /\ mem \in [Handlers -> Memory]
  /\ fired \in BOOLEAN

HistoryOK ==
  /\ turn \in Nat /\ passes \in Nat /\ commits \in Nat
  /\ calls \in Nat /\ uploads \in Nat /\ gens \in Nat /\ renders \in Nat
  /\ crashes \in Nat

TypeOK == ThreadOK /\ ProcessOK /\ HistoryOK

\* The in-flight lock serializes the session's operations (budget.py,
\* session_inflight): it is held exactly while a handler works, and never by
\* two, so no graph run, preview write-back or finalize overlaps another.
OneOperation ==
  /\ \A g, h \in Handlers : pc[g] # "idle" /\ pc[h] # "idle" => g = h
  /\ inflight <=> \E h \in Handlers : pc[h] # "idle"

\* The session's counters are an exact account of the generations that were
\* completed and of the finalizes that were answered, on whatever branch they
\* were made: forking to an earlier turn refunds nothing (graph.py, run_turn),
\* and a fabric render can only escape the count when the process died
\* between the render and increment_budget.
AccountExact ==
  /\ st.recraft = gens
  /\ st.recraft <= RecraftLimit /\ st.finalized <= FinalizeLimit
  /\ st.finalized <= renders
  /\ renders <= st.finalized + crashes
                 + (IF \E h \in Handlers : pc[h] = "rendered" THEN 1 ELSE 0)

\* The candidates a session shows and finalizes are those of its committed
\* intent, also after the write-back of the previews, which uses a result it
\* took from the graph before awaiting the renders.
CandidatesMatchIntent ==
  /\ st.cands.of = st.intent
  /\ \A h \in Handlers :
       pc[h] = "preview" => /\ mem[h].cands = st.cands
                            /\ st.batch = st.intent

\* What finalize renders was read before its await, and is still the session's
\* committed candidate when the render is counted; nor has a motif decision
\* become pending meanwhile (sessions.py, confirm: "finalizing now would
\* render a stale candidate").
FinalizeFresh ==
  \A h \in Handlers : pc[h] \in {"render", "rendered"} =>
    /\ mem[h].cands = st.cands
    /\ ~task.asked

\* A checkpoint with the candidates that its own settings made, and nothing of a
\* pass that failed or was given up.
Reproducible(v) ==
  /\ v.cands.side = v.side
  /\ v.specs = <<>> /\ ~v.errors /\ ~v.retried

\* Undo, redo and fork see one checkpoint per committed turn, in the order of
\* the commits, whatever turns failed, paused or were abandoned in between
\* (list_turn_checkpoints), and none of them has spent more than the head.  The
\* settings that a failed edit leaves behind (edit_intent writes them before
\* validation) are the head's only: a fork starts from what can be made again.
ListedAreCommits ==
  /\ Len(listed) = commits
  /\ \A i \in 1..Len(listed) :
       /\ listed[i].intent = i
       /\ listed[i].cands.of = i
       /\ Reproducible(listed[i])
       /\ listed[i].recraft <= st.recraft
       /\ listed[i].finalized <= st.finalized

\* A turn is edited at most twice: _after_validate retries once.
AtMostOneRetry == passes <= 2

\* An approval of a generation is outstanding: a confirm is at work on it, or
\* it failed and its decision is kept for the gate.
Approved ==
  \/ task.answer = "generate"
  \/ \E h \in Handlers : mem[h].decision = "generate"

\* A gate that has shown its payload keeps the spec the payload is about, and an
\* approved generation has its place in the budget, also when it failed and is
\* tried again later, so that the retry exceeds nothing.
GateResumable ==
  /\ task.asked => next = "gate" /\ st.specs # <<>>
  /\ Approved => st.recraft < RecraftLimit

\* What a call to Recraft rests on.  A generation is only asked for while a
\* confirm is at work, or to try again what a confirm approved and the gate
\* failed at: then the interrupt that was shown for it still stands.  Either
\* way the budget has room for it when it is made, though select_motif checks
\* none.  What no confirm is asked for is the vectorization of uploaded images
\* (author_intent, resolve_motifs), and that ends with the first committed
\* design: a session that has one spends on approval only.
CallsApproved ==
  [][/\ calls' > calls =>
          /\ st.recraft < RecraftLimit
          /\ \/ \E h \in Handlers : pc[h] = "confirm"
             \/ task.asked /\ task.answer = "generate"
     /\ uploads' > uploads => st.intent = 0]_vars

\* The session implements the cost gate.
CostGate == INSTANCE SpendGate WITH
  Limit     <- RecraftLimit,
  spent     <- st.recraft,
  approved  <- Approved,
  committed <- st.intent # 0,
  calls     <- calls,
  uploads   <- uploads

CostGateSpec == CostGate!Spec

\* Every operation that is let in comes to an end: no edit is retried for
\* ever, and the in-flight lock is given back.
OperationsFinish ==
  \A h \in Handlers : (pc[h] # "idle") ~> (pc[h] = "idle")

-----------------------------------------------------------------------------
(* What the documents say and the code does not do.                        *)

\* Recraft only fires in an explicit generate_motif confirm; selecting an
\* existing motif is free (sessions.py, module docstring).  Of generations, that
\* is, which are what the gate is about (graph.py, author_intent).
RecraftOnlyOnConfirm ==
  [][calls' > calls => \E h \in Handlers : pc[h] = "confirm"]_vars
==============================================================================
