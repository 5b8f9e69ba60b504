----------------------------- MODULE PreToolUse -----------------------------
(***************************************************************************)
(* The process a host starts before it runs a shell command: it reads the  *)
(* proposed command, evaluates the packages it would add, and answers by   *)
(* denying or by saying nothing (codex-pretooluse.ts and its twin          *)
(* claude-pretooluse.ts, action-evaluation.ts).  One deadline covers it    *)
(* all.  The command is qualified as QualifyCommand says; the packages it  *)
(* adds are evaluated by a few workers that take them from a common cursor *)
(* and share an abort controller.                                          *)
(*                                                                         *)
(* JavaScript runs to completion between two awaits, so an action is what  *)
(* happens from one await to the next, and the deadline can strike only    *)
(* while something is awaited.                                             *)
(***************************************************************************)
EXTENDS QualifyCommand, FiniteSets

CONSTANTS
    Commands,     \* the commands a host may propose
    Concurrency,  \* actionConcurrency
    Causes,       \* what may abort the deadline's signal
    NoReport      \* an empty slot of the reports array

ASSUME PreToolUseAssumption ==
    /\ \A c \in Commands : IsCommand(c)
    /\ Concurrency \in Nat \ {0}
    /\ Causes \subseteq {"deadline", "cancelled"}

VARIABLES
    pc,           \* what the process awaits, or is about to run
    project,      \* it was started with the launch arguments of a project hook
    host,         \* who started it: "codex" or "claude"
    command,      \* the proposed command
    qualification,\* what it was qualified as
    signal,       \* why the deadline's signal is aborted, or "none"
    unique,       \* the operands without repetitions, once the pool has started
    failure,      \* the first failure of the pool, which aborts its controller
    cursor,       \* the next package nobody has claimed
    worker,       \* what each worker does
    reports,      \* the reports array
    decision,     \* the decision that was made
    denied,       \* the denial was written to the standard output
    exit          \* the exit code: "ok" is 0, "emergency" is 2

input == <<project, host, command, qualification>>
pool == <<unique, failure, cursor, worker, reports>>
answer == <<decision, denied, exit>>
vars == <<pc, input, signal, pool, answer>>

-----------------------------------------------------------------------------
(* Verdicts, approvals and reports.                                        *)

verdictRank == [allow |-> 0, warn |-> 1, review |-> 2, block |-> 3, error |-> 4]
Verdicts == DOMAIN verdictRank

CombineVerdicts(V) ==
    CHOOSE v \in V \cup {"allow"} : \A w \in V : verdictRank[w] <= verdictRank[v]

Findings == [verdict : {"warn", "review", "block"}, approvable : BOOLEAN]

\* applyApprovals: what is left of the findings when the repository has a
\* valid approval of exactly this version (matched).
ApplyApprovals(errors, findings, matched) ==
    LET original == IF errors THEN "error" ELSE CombineVerdicts({f.verdict : f \in findings})
        resolvable == {f \in findings : f.verdict = "review" /\ f.approvable}
        approval == matched /\ ~errors /\ resolvable # {}
    IN [original |-> original,
        verdict |-> IF approval THEN CombineVerdicts({f.verdict : f \in findings \ resolvable})
                                ELSE original,
        approval |-> approval]

Applications == {ApplyApprovals(e, F, m) : e \in BOOLEAN, F \in SUBSET Findings, m \in BOOLEAN}

\* What evaluatePreparedNpmPackage may report of a package.
ReportsOf(p) == {[target |-> p, original |-> a.original, verdict |-> a.verdict,
                  approval |-> a.approval] : a \in Applications}

\* An empty slot is not a report.
ASSUME NoReportAssumption == \A p \in Packages : NoReport \notin ReportsOf(p)

\* uniquePackages: the first occurrence of each coordinate, in order.
UniquePackages(s) == FoldLeft(LAMBDA u, p : IF Contains(u, p) THEN u ELSE Append(u, p), <<>>, s)

-----------------------------------------------------------------------------

Workers == 1..Concurrency
Idle == [state |-> "idle", index |-> 0]
Busy(i) == [state |-> "busy", index |-> i]
Stopped(s, w) == [worker[w] EXCEPT !.state = s]

category == qualification.category
request == qualification.packages   \* the operands, in order and with repetitions
NotQualified == [category |-> "none", reason |-> "none", packages |-> <<>>]
NotRead == [text |-> "none", dialect |-> "none", words |-> <<>>]

EvaluationReasons == [allow |-> "dependency_allowed", warn |-> "warning_requires_review",
                      review |-> "dependency_review", block |-> "dependency_blocked",
                      error |-> "evaluation_error"]
QualificationReasons == [unrelated |-> "unrelated", invalid |-> "invalid_action",
                         install_like_unsupported |-> "unsupported_dependency_action",
                         ephemeral_execution |-> "ephemeral_execution_denied"]
NeutralReasons == {"dependency_allowed", "unrelated"}
AuthorityReasons == {"configuration_error", "repository_identity_error", "internal_error"}
Reasons == {EvaluationReasons[v] : v \in Verdicts} \cup {"deadline_exceeded"} \cup AuthorityReasons
           \cup {QualificationReasons[k] : k \in DOMAIN QualificationReasons}

TypeOK ==
    /\ pc \in {"input", "launch", "verify", "evaluate", "authority", "pool",
               "output", "emergency", "exited"}
    /\ project \in BOOLEAN
    /\ host \in {"codex", "claude"} /\ command \in Commands \cup {NotRead}
    /\ qualification = NotQualified \/ (command # NotRead /\ qualification = QualifyCommand(command))
    /\ request \in Seq(Packages) /\ Len(request) <= MaxOperands
    /\ signal \in Causes \cup {"none"}
    /\ unique \in {<<>>, UniquePackages(request)}
    /\ failure \in Causes \cup {"none", "internal"}
    /\ cursor \in 1..(Len(unique) + 1)
    /\ worker \in [Workers -> [state : {"idle", "busy", "returned", "threw"}, index : 0..Len(unique)]]
    /\ \A i \in 1..MaxOperands : reports[i] = NoReport \/ \E p \in Packages : reports[i] \in ReportsOf(p)
    /\ decision \in Reasons \cup {"none"}
    /\ denied \in BOOLEAN
    /\ exit \in {"none", "ok", "emergency"}

Init ==
    /\ pc = "input"
    /\ project \in BOOLEAN /\ host \in {"codex", "claude"}
    /\ command = NotRead /\ qualification = NotQualified
    /\ signal = "none"
    /\ unique = <<>> /\ failure = "none" /\ cursor = 1
    /\ worker = [w \in Workers |-> Idle]
    /\ reports = [i \in 1..MaxOperands |-> NoReport]
    /\ decision = "none" /\ denied = FALSE /\ exit = "none"

-----------------------------------------------------------------------------
(* Answering.                                                              *)

\* The catch block of the hook: an emergency denial on the error output.
Emergency == pc' = "emergency" /\ UNCHANGED answer

\* A neutral decision is answered by silence, at once.
Decide(reason) ==
    /\ decision' = reason
    /\ IF reason \in NeutralReasons THEN pc' = "exited" /\ exit' = "ok"
                                    ELSE pc' = "output" /\ UNCHANGED exit
    /\ UNCHANGED denied

\* cancellationDecision
DecideCancellation == IF signal = "deadline" THEN Decide("deadline_exceeded") ELSE Emergency

WriteOutput ==
    /\ pc = "output"
    /\ \/ pc' = "exited" /\ denied' = TRUE /\ exit' = "ok" /\ UNCHANGED decision
       \/ Emergency
    /\ UNCHANGED <<input, signal, pool>>

\* The exit code is 2 whether or not the message could be written.
WriteError ==
    /\ pc = "emergency"
    /\ pc' = "exited" /\ exit' = "emergency"
    /\ UNCHANGED <<input, signal, pool, decision, denied>>

-----------------------------------------------------------------------------
(* From the input to the evaluation.                                       *)

\* translateCodexPreToolUse: the shell behind the host's "Bash" is unknown.
CodexAction(c) == c.dialect = "portable"

\* translateClaudePreToolUse: the host names the tool it is about to use.
ClaudeAction(c) == c.dialect \in {"posix", "powershell"}

\* What the input schemas let through; a command within the limit of length.
Accepted(c) == c.text # "limit" /\ IF host = "codex" THEN CodexAction(c) ELSE ClaudeAction(c)

\* An abort settles the read at once, with an error.
ReadInput ==
    /\ pc = "input"
    /\ \/ /\ signal = "none"
          /\ \E c \in Commands : Accepted(c) /\ command' = c
          /\ pc' = IF project THEN "launch" ELSE "evaluate"
          /\ UNCHANGED answer
       \/ Emergency /\ UNCHANGED command
    /\ UNCHANGED <<project, host, qualification, signal, pool>>

\* A project hook loads the authority first.
LaunchAuthority ==
    /\ pc = "launch"
    /\ \/ pc' = "verify" /\ UNCHANGED answer
       \/ Emergency
    /\ UNCHANGED <<input, signal, pool>>

\* Then it verifies its installation: DoubleRead has the details.
VerifyInvocation ==
    /\ pc = "verify"
    /\ \/ pc' = "evaluate" /\ UNCHANGED answer
       \/ Emergency
    /\ UNCHANGED <<input, signal, pool>>

\* Every worker claims a package before any of them is awaited.
StartPool(packages) ==
    /\ pc' = "pool"
    /\ unique' = UniquePackages(packages)
    /\ worker' = [w \in Workers |-> IF w <= Len(unique') THEN Busy(w) ELSE Idle]
    /\ cursor' = 1 + (IF Concurrency <= Len(unique') THEN Concurrency ELSE Len(unique'))
    /\ UNCHANGED <<failure, reports, answer>>

\* Faulty variant: no look at the signal before the command is qualified.
AbortedBeforeUnseen == FALSE

AbortedBefore == signal # "none"

\* A project hook has its authority already, and only compares its root.
OwnAuthority(packages) == StartPool(packages) \/ (Decide("internal_error") /\ UNCHANGED pool)

\* evaluateAgentAction, up to the first await.
Evaluate ==
    /\ pc = "evaluate"
    /\ \/ Emergency /\ UNCHANGED <<qualification, pool>>
       \/ AbortedBefore /\ DecideCancellation /\ UNCHANGED <<qualification, pool>>
       \/ /\ ~AbortedBefore
          /\ qualification' = QualifyCommand(command)
          /\ \/ /\ category' # "dependency_add"
                /\ Decide(QualificationReasons[category']) /\ UNCHANGED pool
             \/ /\ category' = "dependency_add" /\ ~project
                /\ pc' = "authority" /\ UNCHANGED <<answer, pool>>
             \/ /\ category' = "dependency_add" /\ project
                /\ OwnAuthority(request')
    /\ UNCHANGED <<project, host, command, signal>>

\* The authority may still arrive after the abort; the pool then never starts.
LoadAuthority ==
    /\ pc = "authority"
    /\ IF signal # "none" THEN DecideCancellation /\ UNCHANGED pool
       ELSE \/ StartPool(request)
            \/ \E reason \in AuthorityReasons : Decide(reason) /\ UNCHANGED pool
    /\ UNCHANGED <<input, signal>>

-----------------------------------------------------------------------------
(* The pool of workers.                                                    *)

\* failure ??= cause: the first one is kept, and aborts the controller.
FirstFailure(cause) == IF failure = "none" THEN cause ELSE failure

\* Faulty variant: reports.push(report).
SlotAtEnd(w) == 1 + Cardinality({i \in 1..MaxOperands : reports[i] # NoReport})

\* The slot a worker's report is stored in.
Slot(w) == worker[w].index

NextCursor == cursor + 1

\* Faulty variant: the worker loop ignores the controller.
MayContinueRegardless == TRUE

\* throwIfCancelled, after the await and before the next claim.
MayContinue == failure = "none"

\* Faulty variant: cursor > unique.length for cursor >= unique.length.
RemainingOffByOne == cursor <= Len(unique) + 1

Remaining == cursor <= Len(unique)

\* evaluatePackage resolves: the report is stored, even after an abort, and
\* the worker throws, claims the next package, or has nothing left to do.
Deliver(w) ==
    /\ pc = "pool" /\ worker[w].state = "busy"
    /\ \E r \in ReportsOf(unique[worker[w].index]) : reports' = [reports EXCEPT ![Slot(w)] = r]
    /\ \/ /\ ~MayContinue
          /\ worker' = [worker EXCEPT ![w] = Stopped("threw", w)]
          /\ UNCHANGED cursor
       \/ /\ MayContinue /\ ~Remaining
          /\ worker' = [worker EXCEPT ![w] = Stopped("returned", w)]
          /\ UNCHANGED cursor
       \/ /\ MayContinue /\ Remaining
          /\ worker' = [worker EXCEPT ![w] = Busy(cursor)]
          /\ cursor' = NextCursor
    /\ UNCHANGED <<pc, input, signal, unique, failure, answer>>

\* evaluatePackage rejects.  It rejects with a cancellation only when the
\* controller is aborted, and then the failure is known already.
Reject(w) ==
    /\ pc = "pool" /\ worker[w].state = "busy"
    /\ worker' = [worker EXCEPT ![w] = Stopped("threw", w)]
    /\ failure' = FirstFailure("internal")
    /\ UNCHANGED <<pc, input, signal, unique, cursor, reports, answer>>

\* Faulty variant: Promise.all instead of Promise.allSettled.
SettledOnFirstFailure == \/ \E w \in Workers : worker[w].state = "threw"
                         \/ \A w \in Workers : worker[w].state # "busy"

Settled == \A w \in Workers : worker[w].state # "busy"

\* The report of each operand, in the order of the command.
Expanded == [i \in DOMAIN request |->
                reports[CHOOSE k \in DOMAIN unique : unique[k] = request[i]]]

Combined(verdicts) == CombineVerdicts(ToSet(verdicts))
Verdict == Combined([i \in DOMAIN request |-> Expanded[i].verdict])
OriginalVerdict == Combined([i \in DOMAIN request |-> Expanded[i].original])
AnyApproval == \E i \in DOMAIN request : Expanded[i].approval

\* Faulty variant: an approval of any operand counts.
ApprovalAppliedToAny == AnyApproval

ApprovalApplied ==
    /\ AnyApproval
    /\ OriginalVerdict = "review" \/ (OriginalVerdict = "block" /\ Verdict = "block")

\* The refinement in agentDecisionSchema: what it rejects is thrown.
ValidApprovalTransition ==
    IF ApprovalApplied
      THEN \/ OriginalVerdict = "review" /\ Verdict \in {"allow", "warn", "review"}
           \/ OriginalVerdict = "block" /\ Verdict = "block"
      ELSE OriginalVerdict = Verdict

Complete == \A i \in DOMAIN unique : reports[i] # NoReport

\* All workers have settled: the pool's outcome becomes a decision.
Conclude ==
    /\ pc = "pool" /\ Settled
    /\ IF signal # "none" THEN DecideCancellation
       ELSE IF failure = "none" /\ Complete /\ ValidApprovalTransition
         THEN Decide(EvaluationReasons[Verdict])
         ELSE Decide("internal_error")
    /\ UNCHANGED <<input, signal, pool>>

-----------------------------------------------------------------------------
(* The deadline.                                                           *)

\* Between two awaits nothing else runs; the deadline is disposed at the end.
Awaiting == pc \in {"input", "launch", "verify", "authority", "output", "emergency"}
            \/ (pc = "pool" /\ ~Settled)

\* Faulty variant: the pool does not listen to the signal it was given.
PoolFailureDeaf(cause) == failure

\* abortFromParent, which is registered while the pool runs.
PoolFailure(cause) == IF pc = "pool" THEN FirstFailure(cause) ELSE failure

\* The timer fires, or the caller cancels: the first of them counts.
Abort(cause) ==
    /\ Awaiting /\ signal = "none"
    /\ signal' = cause
    /\ failure' = PoolFailure(cause)
    /\ UNCHANGED <<pc, input, unique, cursor, worker, reports, answer>>

Next ==
    \/ ReadInput \/ LaunchAuthority \/ VerifyInvocation \/ Evaluate \/ LoadAuthority
    \/ \E w \in Workers : Deliver(w) \/ Reject(w)
    \/ Conclude \/ WriteOutput \/ WriteError
    \/ \E cause \in Causes : Abort(cause)

\* What the process awaits settles once the signal is aborted: each awaited
\* call was given the signal.  A provider that never answers is allowed until
\* then, a host that never drains the output is not.  The timer fires.
Fairness ==
    /\ WF_vars(Abort("deadline"))
    /\ WF_vars(signal # "none" /\ (ReadInput \/ LaunchAuthority \/ VerifyInvocation \/ LoadAuthority))
    /\ \A w \in Workers : WF_vars(failure # "none" /\ (Deliver(w) \/ Reject(w)))
    /\ WF_vars(Evaluate \/ Conclude \/ WriteOutput \/ WriteError)

Spec == Init /\ [][Next]_vars
FairSpec == Spec /\ Fairness

-----------------------------------------------------------------------------
(* Safety.                                                                 *)

\* How the host reads the answer: exit code 0 and no denial lets it go on.
Proceeds == exit = "ok" /\ ~denied

\* The command adds packages and nothing else, and every one of them was
\* evaluated and allowed, by itself or by an approval of it.
AddedAndAllowed ==
    /\ Adds(command, request)
    /\ \A p \in ToSet(request) : \E r \in ToSet(reports) \ {NoReport} :
          /\ r.target = p /\ r.verdict = "allow"
          /\ r.original = "allow" \/ (r.original = "review" /\ r.approval)

\* The host goes on with a command that a shell may take for a package
\* manager's only if all it adds was allowed; the one exception is a command
\* in which the only words to be taken for a manager are yarn or bun written
\* with a path or a suffix, which isManagerLikeExecutable overlooks.
RecognizedOnlyWhenAllowed ==
    Proceeds => \/ \A i \in ReadAsManager(command) : command.words[i] \in Overlooked
                \/ AddedAndAllowed

\* The same without the exception, as architecture.md (line 127) and ADR 0012
\* (line 108) have it: path-qualified managers are never "unrelated".  The
\* code violates it.
NeutralOnlyWhenAllowed == Proceeds /\ MayRunManager(command) => AddedAndAllowed

\* A deadline or a cancellation that struck before the answer never lets the
\* host go on, wherever it struck: not even with an unrelated command.
AbortNeverAdmits == Proceeds => signal = "none"

\* After the first failure or the abort, whichever comes first, no worker
\* starts another package.
NoEvaluationAfterFailure ==
    [][failure # "none" =>
          \A w \in Workers : worker'[w].state = "busy" => worker'[w] = worker[w]]_vars

\* The two workers take different packages, and none whose report is there.
NoDoubleEvaluation ==
    /\ \A v, w \in Workers : worker[v].state = "busy" /\ worker[w].state = "busy"
          /\ worker[v].index = worker[w].index => v = w
    /\ \A w \in Workers : worker[w].state = "busy" => reports[worker[w].index] = NoReport

\* The report used for an operand is the report of that operand, whatever the
\* order in which the workers finished; repeated operands share one, and no
\* package is evaluated twice: not by two workers at once, and not again after
\* its report was stored.
ReportsFollowOperands ==
    /\ NoDoubleEvaluation
    /\ pc \in {"output", "exited"} /\ failure = "none" /\ decision \in {EvaluationReasons[v] : v \in Verdicts}
         => \A i \in DOMAIN request : Expanded[i] # NoReport /\ Expanded[i].target = request[i]

\* When every package was evaluated in time, the policy's verdict is what is
\* reported: the decision schema never refuses what the pool concluded, for
\* any mixture of approved and unapproved operands.
VerdictIsExpressible ==
    unique # <<>> /\ Complete /\ signal = "none" /\ failure = "none" => decision # "internal_error"

\* No evaluation is still running when the hook answers or exits.
NoWorkOutlivesAnswer ==
    pc \in {"output", "emergency", "exited"} => \A w \in Workers : worker[w].state # "busy"

-----------------------------------------------------------------------------
(* Liveness.                                                               *)

\* The hook answers, even if the input never ends and no provider replies.
HookAnswers == <>(pc = "exited")
=============================================================================
