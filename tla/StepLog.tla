------------------------------- MODULE StepLog -------------------------------
(***************************************************************************)
(* The stack of log steps: CT_DoStep and CT_EndStep of scripts/functions,  *)
(* what CT_OnError reports of it, and what a saved state does to it.       *)
(* A step of the driver opens log steps one after the other; only those of *)
(* the companion tools are inside another one, before the loop.            *)
(***************************************************************************)
EXTENDS Integers, Sequences

CONSTANTS
    Logs,    \* Logs[s]: the messages of the log steps of the driver's step s
    Before,  \* those of the log steps before the loop
    Tools    \* those of the companion tools, inside the one of all of them

ASSUME StepLogAssumption ==
    /\ Logs \in Seq(SUBSET STRING) /\ Logs # <<>>
    /\ Before \subseteq STRING /\ Tools \subseteq STRING
    /\ {"Dumping", "Companion tools"} \subseteq Before

Levels   == 1..3

VARIABLES
    count,     \* CT_STEP_COUNT
    message,   \* CT_STEP_MESSAGE
    open,      \* the log steps that are open, outermost first
    at,        \* the step of the driver; 0: before the loop
    env,       \* env[s]: the variables in the state saved before step s
    report     \* the log steps the last failure was reported in

vars == <<count, message, open, at, env, report>>

NoReport == [trace |-> <<>>, step |-> "<none>", truth |-> <<>>]

NoMessage == [l \in Levels |-> "<none>"]

Init ==
    /\ count = 1
    /\ message = NoMessage
    /\ open = <<>>
    /\ at = 0
    /\ env = <<>>
    /\ report = NoReport

NewShell ==
    /\ count' = 1
    /\ message' = NoMessage
    /\ open' = <<>>
    /\ at' = 0

\* CT_DoSaveState, before every step but the one restarted at.
Saved(s) == [t \in DOMAIN env \cup {s} |->
               IF t = s THEN [count |-> count, message |-> message] ELSE env[t]]

NextStep ==
    /\ open = <<>>
    /\ at < Len(Logs)
    /\ at = 0 => env = <<>>
    /\ at' = at + 1
    /\ env' = Saved(at + 1)
    /\ UNCHANGED <<count, message, open, report>>

\* A new shell: from scratch, which removes the states, or with RESTART.
Build ==
    /\ open = <<>>
    /\ NewShell
    /\ env' \in {<<>>, env}
    /\ report' = NoReport

\* CT_DoLoadState: env.sh, and "Reset step count to fix subsequent restarts".
RestoredCount == 2

Restart(s) ==
    /\ open = <<>>
    /\ at = 0 /\ s \in DOMAIN env
    /\ count' = RestoredCount
    /\ message' = env[s].message
    /\ at' = s
    /\ UNCHANGED <<open, env, report>>

-----------------------------------------------------------------------------

\* (Wrong variant: the message goes where the last one was.)
Over(n)  == n
Above(n) == n + 1

DoStep(m) ==
    /\ count' = Above(count)
    /\ message' = [message EXCEPT ![Above(count)] = m]
    /\ open' = Append(open, m)
    /\ UNCHANGED <<at, env, report>>

\* With RESTART only the configuration is dumped before the loop.
BeginBefore ==
    /\ at = 0 /\ open = <<>>
    /\ \E m \in Before : (m = "Dumping" \/ env = <<>>) /\ DoStep(m)

BeginTool ==
    /\ at = 0 /\ open = <<"Companion tools">>
    /\ \E m \in Tools : DoStep(m)

BeginLog ==
    /\ at > 0 /\ open = <<>>
    /\ \E m \in Logs[at] : DoStep(m)

\* (Wrong variant: the level is not left.)
Same(n)  == n
Below(n) == n - 1

EndStep ==
    /\ open # <<>>
    /\ count' = Below(count)
    /\ open' = SubSeq(open, 1, Len(open) - 1)
    /\ UNCHANGED <<message, at, env, report>>

\* CT_OnError: the steps from the innermost to level 2, and then "Build failed in
\* step" with that of level 2.
Trace      == [l \in 1..(count - 1) |-> message[count + 1 - l]]
FailedStep == message[2]

OnError ==
    /\ report' = [trace |-> Trace, step |-> FailedStep, truth |-> open]
    /\ NewShell
    /\ UNCHANGED env

Next ==
    \/ Build
    \/ \E s \in DOMAIN env : Restart(s)
    \/ NextStep
    \/ BeginBefore
    \/ BeginTool
    \/ BeginLog
    \/ EndStep
    \/ OnError

Spec == Init /\ [][Next]_vars

-----------------------------------------------------------------------------
(* Properties *)

\* A failure is traced through every log step that was open, from the innermost one,
\* after whatever restarts.
Traced ==
    /\ Len(report.trace) >= Len(report.truth)
    /\ \A l \in DOMAIN report.truth :
          report.trace[l] = report.truth[Len(report.truth) + 1 - l]

\* CT_EndStep ends the log step CT_DoStep has begun, and logs its message.
Nested == [][open # <<>> /\ open' = SubSeq(open, 1, Len(open) - 1)
               => message[count] = open[Len(open)]]_vars

\* "Build failed in step": the outermost one of those that were open.
NamesStep == report.truth # <<>> => report.step = Head(report.truth)
=============================================================================
