---------------------------- MODULE StepLogProofs ----------------------------
(***************************************************************************)
(* A failure is traced through every log step that is open, and each       *)
(* CT_EndStep logs the message of its own CT_DoStep, for all steps, log    *)
(* steps, tools and restarts.                                              *)
(*                                                                         *)
(* Neither can be seen from one state of the report or one step: LogInv    *)
(* says where the messages of the open steps are in CT_STEP_MESSAGE.  They *)
(* are on top, but not always from level 2 on: after a restart the count   *)
(* begins one level above what is open.                                    *)
(***************************************************************************)
EXTENDS StepLog, SequenceTheorems, TLAPS

\* What CT_DoStep is given, in CT_STEP_MESSAGE.
Message == STRING

\* The levels the shell is at with nothing open.
Base == count - Len(open)

LogTypes ==
    /\ at \in 0..Len(Logs) /\ DOMAIN env \subseteq 1..Len(Logs)
    /\ open \in Seq(Message) /\ Len(open) \in 0..2
    /\ count \in Nat
    /\ DOMAIN message = Levels
    /\ \A s \in DOMAIN env : DOMAIN env[s].message = Levels

\* One level is lost after a restart, when at most one log step is open.
Depth ==
    /\ Base \in {1, 2}
    /\ at = 0 => Base = 1
    /\ at > 0 => Len(open) <= 1

OnTop == \A i \in 1..Len(open) : message[Base + i] = open[i]

LogInv == LogTypes /\ Depth /\ OnTop

-----------------------------------------------------------------------------

LEMMA LogsType == Len(Logs) \in Nat /\ \A s \in 1..Len(Logs) : Logs[s] \subseteq Message
<1>1. Logs \in Seq(SUBSET Message)
  BY StepLogAssumption DEF Message
<1>2. QED
  BY <1>1, LenProperties, ElementOfSeq

LEMMA Pushed ==
    ASSUME NEW s \in Seq(Message), NEW m \in Message
    PROVE  /\ Append(s, m) \in Seq(Message) /\ Len(Append(s, m)) = Len(s) + 1
           /\ Append(s, m)[Len(s) + 1] = m
           /\ \A i \in 1..Len(s) : Append(s, m)[i] = s[i]
BY AppendProperties

LEMMA Popped ==
    ASSUME NEW s \in Seq(Message), Len(s) \in Nat \ {0}
    PROVE  /\ SubSeq(s, 1, Len(s) - 1) \in Seq(Message)
           /\ Len(SubSeq(s, 1, Len(s) - 1)) = Len(s) - 1
           /\ \A i \in 1..(Len(s) - 1) : SubSeq(s, 1, Len(s) - 1)[i] = s[i]
<1>1. \A i \in 1..(Len(s) - 1) : s[i] \in Message
  BY ElementOfSeq
<1> DEFINE k == Len(s) - 1
<1>2. k \in Nat
  OBVIOUS
<1>3. \A i \in 1..k : s[i] \in Message
  BY <1>1
<1> HIDE DEF k
<1>4. /\ SubSeq(s, 1, k) \in Seq(Message)
      /\ Len(SubSeq(s, 1, k)) = IF 1 <= k THEN k - 1 + 1 ELSE 0
      /\ \A i \in 1..(k - 1 + 1) : SubSeq(s, 1, k)[i] = s[1 + i - 1]
  BY <1>2, <1>3, SubSeqProperties
<1>5. /\ SubSeq(s, 1, k) \in Seq(Message) /\ Len(SubSeq(s, 1, k)) = k
      /\ \A i \in 1..k : SubSeq(s, 1, k)[i] = s[i]
  BY <1>2, <1>4
<1>6. QED
  BY <1>5 DEF k

LEMMA NewShellKeeps ==
    ASSUME NewShell, DOMAIN env' \subseteq 1..Len(Logs),
           \A s \in DOMAIN env' : DOMAIN env'[s].message = Levels
    PROVE  LogInv'
<1>1. open' = <<>> /\ count' = 1 /\ at' = 0 /\ message' = NoMessage
  BY DEF NewShell
<1>2. LogTypes'
  BY <1>1, LogsType DEF LogTypes, NoMessage
<1>3. Depth' /\ OnTop'
  BY <1>1 DEF Depth, OnTop, Base
<1>4. QED
  BY <1>2, <1>3 DEF LogInv

\* CT_DoStep finds a level free above those in use, and leaves their messages.
LEMMA DoStepKeeps ==
    ASSUME LogInv, NEW m \in Message, DoStep(m),
           open = <<>> \/ (at = 0 /\ Len(open) = 1)
    PROVE  LogInv'
<1>1. /\ count' = count + 1 /\ open' = Append(open, m) /\ UNCHANGED <<at, env>>
      /\ message' = [message EXCEPT ![count + 1] = m]
  BY DEF DoStep, Above
<1>0. Len(<<>>) = 0
  OBVIOUS
<1>2. /\ Len(open) \in Nat /\ Len(open) <= 1 /\ count \in Nat /\ open \in Seq(Message)
      /\ Base = count - Len(open) /\ Base \in {1, 2}
      /\ Len(open) = 1 => at = 0 /\ Base = 1
      /\ at = 0 => Base = 1
      /\ at \in Nat /\ DOMAIN message = Levels
  <2>1. LogTypes /\ Depth
    BY DEF LogInv
  <2>2. Len(open) = 0 \/ (at = 0 /\ Len(open) = 1)
    BY <1>0
  <2>3. at \in Nat
    BY <2>1, LogsType DEF LogTypes
  <2>4. /\ Base \in {1, 2} /\ (at = 0 => Base = 1)
        /\ Len(open) \in 0..2 /\ count \in Nat /\ open \in Seq(Message)
        /\ DOMAIN message = Levels
    BY <2>1 DEF LogTypes, Depth
  <2>5. Len(open) \in Nat /\ Len(open) <= 1
    <3>1. CASE Len(open) = 0
      BY <3>1
    <3>2. CASE Len(open) = 1
      BY <3>2
    <3>3. QED
      BY <2>2, <3>1, <3>2
  <2>6. Len(open) = 1 => at = 0 /\ Base = 1
    BY <2>2, <2>4
  <2>7. Base = count - Len(open)
    BY DEF Base
  <2>8. QED
    BY <2>3, <2>4, <2>5, <2>6, <2>7
<1>3. count \in {1, 2}
  BY <1>2
<1>4. /\ Len(open') = Len(open) + 1 /\ open' \in Seq(Message) /\ open'[Len(open) + 1] = m
      /\ \A i \in 1..Len(open) : open'[i] = open[i]
  BY <1>1, <1>2, Pushed
<1>5. Base' = Base
  BY <1>1, <1>2, <1>4 DEF Base
<1>6. LogTypes'
  <2>1. Len(open') \in 0..2 /\ count' \in Nat /\ DOMAIN message' = Levels
    BY <1>1, <1>2, <1>4
  <2>2. QED
    BY <1>1, <1>4, <2>1 DEF LogInv, LogTypes
<1>7. Depth'
  BY <1>1, <1>2, <1>4, <1>5 DEF Depth
<1>8. OnTop'
  <2>1. SUFFICES ASSUME NEW i \in 1..(Len(open) + 1) PROVE message'[Base + i] = open'[i]
    BY <1>4, <1>5 DEF OnTop
  <2>2. CASE i = Len(open) + 1
    <3>1. Base + i = count + 1 /\ count + 1 \in Levels
      BY <1>2, <1>3, <2>2 DEF Levels
    <3>2. QED
      BY <1>1, <1>2, <1>4, <2>2, <3>1
  <2>3. CASE i # Len(open) + 1
    <3>1. i \in 1..Len(open) /\ Base + i # count + 1 /\ Base + i \in Levels
      BY <1>2, <1>3, <2>3 DEF Levels
    <3>2. message[Base + i] = open[i]
      BY <3>1 DEF LogInv, OnTop
    <3>3. QED
      BY <1>1, <1>2, <1>4, <3>1, <3>2
  <2>4. QED
    BY <2>2, <2>3
<1>9. QED
  BY <1>6, <1>7, <1>8 DEF LogInv

LEMMA EndStepKeeps == LogInv /\ EndStep => LogInv'
<1> SUFFICES ASSUME LogInv, EndStep PROVE LogInv'
  OBVIOUS
<1>1. /\ open # <<>> /\ count' = count - 1 /\ open' = SubSeq(open, 1, Len(open) - 1)
      /\ UNCHANGED <<message, at, env>>
  BY DEF EndStep, Below
<1>2. /\ Len(open) \in Nat \ {0} /\ Len(open) <= 2 /\ count \in Nat /\ open \in Seq(Message)
      /\ Base = count - Len(open) /\ Base \in {1, 2}
  BY <1>1, EmptySeq DEF LogInv, LogTypes, Depth, Base
<1>3. /\ Len(open') = Len(open) - 1 /\ open' \in Seq(Message)
      /\ \A i \in 1..(Len(open) - 1) : open'[i] = open[i]
  BY <1>1, <1>2, Popped
<1>4. Base' = Base
  BY <1>1, <1>2, <1>3 DEF Base
<1>5. LogTypes'
  BY <1>1, <1>2, <1>3 DEF LogInv, LogTypes
<1>6. Depth'
  BY <1>1, <1>2, <1>3, <1>4, LogsType DEF LogInv, LogTypes, Depth
<1>7. OnTop'
  BY <1>1, <1>2, <1>3, <1>4 DEF LogInv, OnTop
<1>8. QED
  BY <1>5, <1>6, <1>7 DEF LogInv

LEMMA LogInvariant == Spec => []LogInv
<1>1. Init => LogInv
  BY LogsType DEF Init, LogInv, LogTypes, Depth, OnTop, Base, NoMessage
<1>2. LogInv /\ [Next]_vars => LogInv'
  <2> SUFFICES ASSUME LogInv, [Next]_vars PROVE LogInv'
    OBVIOUS
  <2>0. /\ at \in 0..Len(Logs) /\ DOMAIN env \subseteq 1..Len(Logs)
        /\ \A s \in DOMAIN env : DOMAIN env[s].message = Levels
        /\ DOMAIN message = Levels
    BY DEF LogInv, LogTypes
  <2>1. CASE Build
    <3>1. env' = <<>> \/ env' = env
      BY <2>1 DEF Build
    <3>2. QED
      BY <2>0, <2>1, <3>1, NewShellKeeps DEF Build
  <2>2. ASSUME NEW s \in DOMAIN env, Restart(s) PROVE LogInv'
    <3>1. /\ open' = <<>> /\ count' = 2 /\ at' = s /\ env' = env
          /\ message' = env[s].message
      BY <2>2 DEF Restart, RestoredCount
    <3>2. QED
      BY <2>0, <3>1, LogsType DEF LogInv, LogTypes, Depth, OnTop, Base
  <2>3. CASE NextStep
    <3>1. /\ open = <<>> /\ at < Len(Logs) /\ at' = at + 1
          /\ UNCHANGED <<count, message, open>>
          /\ env' = [t \in DOMAIN env \cup {at + 1} |->
                       IF t = at + 1 THEN [count |-> count, message |-> message] ELSE env[t]]
      BY <2>3 DEF NextStep, Saved
    <3>2. LogTypes'
      BY <2>0, <3>1, LogsType DEF LogInv, LogTypes
    <3>3. Depth' /\ OnTop'
      BY <2>0, <3>1, LogsType DEF LogInv, LogTypes, Depth, OnTop, Base
    <3>4. QED
      BY <3>2, <3>3 DEF LogInv
  <2>4. CASE BeginBefore
    <3>1. PICK m \in Before : DoStep(m)
      BY <2>4 DEF BeginBefore
    <3>2. QED
      BY <2>4, <3>1, DoStepKeeps, StepLogAssumption DEF BeginBefore, Message
  <2>5. CASE BeginTool
    <3>1. PICK m \in Tools : DoStep(m)
      BY <2>5 DEF BeginTool
    <3>2. at = 0 /\ Len(open) = 1
      BY <2>5 DEF BeginTool
    <3>3. QED
      BY <3>1, <3>2, DoStepKeeps, StepLogAssumption DEF Message
  <2>6. CASE BeginLog
    <3>1. PICK m \in Logs[at] : DoStep(m)
      BY <2>6 DEF BeginLog
    <3>2. m \in Message /\ open = <<>>
      BY <2>0, <2>6, LogsType DEF BeginLog
    <3>3. QED
      BY <3>1, <3>2, DoStepKeeps
  <2>7. CASE OnError
    BY <2>0, <2>7, NewShellKeeps DEF OnError
  <2>8. CASE UNCHANGED vars
    BY <2>8 DEF vars, LogInv, LogTypes, Depth, OnTop, Base
  <2>9. QED
    BY <2>1, <2>2, <2>3, <2>4, <2>5, <2>6, <2>7, <2>8, EndStepKeeps DEF Next
<1>3. QED
  BY <1>1, <1>2, PTL DEF Spec

\* What CT_OnError prints begins with all the log steps that are open, from the innermost
\* one, however often the shell has taken over the messages of another.
THEOREM TracedCorrect == Spec => []Traced
<1>1. Init => Traced
  BY DEF Init, NoReport, Traced
<1>2. LogInv /\ Traced /\ [Next]_vars => Traced'
  <2> SUFFICES ASSUME LogInv, Traced, [Next]_vars PROVE Traced'
    OBVIOUS
  <2>1. CASE OnError
    <3>1. /\ count \in Nat /\ open \in Seq(Message) /\ Base \in {1, 2}
          /\ Base = count - Len(open) /\ Len(open) \in Nat
      BY DEF LogInv, LogTypes, Depth, Base
    <3>2. report' = [trace |-> [l \in 1..(count - 1) |-> message[count + 1 - l]],
                     step |-> message[2], truth |-> open]
      BY <2>1 DEF OnError, Trace, FailedStep
    <3>3. report'.trace = [l \in 1..(count - 1) |-> message[count + 1 - l]] /\ report'.truth = open
      BY <3>2
    <3>4. Len(report'.trace) = count - 1
      BY <3>1, <3>3
    <3>5. ASSUME NEW l \in 1..Len(open)
          PROVE  report'.trace[l] = open[Len(open) + 1 - l]
      <4>1. /\ Len(open) + 1 - l \in 1..Len(open) /\ l \in 1..(count - 1)
            /\ Base + (Len(open) + 1 - l) = count + 1 - l
        BY <3>1
      <4>2. message[count + 1 - l] = open[Len(open) + 1 - l]
        BY <4>1 DEF LogInv, OnTop
      <4>3. QED
        BY <3>3, <4>1, <4>2
    <3>6. QED
      <4>1. DOMAIN report'.truth = 1..Len(open) /\ Len(report'.truth) = Len(open)
        BY <3>1, <3>3, LenProperties
      <4>2. Len(report'.trace) >= Len(report'.truth)
        BY <3>1, <3>4, <4>1
      <4>3. QED
        BY <3>3, <3>5, <4>1, <4>2 DEF Traced
  <2>2. CASE report' = report
    BY <2>2 DEF Traced
  <2>3. CASE report' = NoReport
    BY <2>3 DEF NoReport, Traced
  <2>4. QED
    BY <2>1, <2>2, <2>3 DEF Next, Build, Restart, NextStep, BeginBefore, BeginTool, BeginLog,
                            DoStep, EndStep, vars
<1>3. QED
  BY <1>1, <1>2, LogInvariant, PTL DEF Spec

\* CT_EndStep logs the message of the log step it ends.
THEOREM NestedCorrect == Spec => Nested
<1>1. LogInv => (open # <<>> => message[count] = open[Len(open)])
  <2> SUFFICES ASSUME LogInv, open # <<>> PROVE message[count] = open[Len(open)]
    OBVIOUS
  <2>1. Len(open) \in 1..Len(open) /\ Base + Len(open) = count
    BY DEF LogInv, LogTypes, Base
  <2>2. QED
    BY <2>1 DEF LogInv, OnTop
<1>2. LogInv => [open # <<>> /\ open' = SubSeq(open, 1, Len(open) - 1)
                    => message[count] = open[Len(open)]]_vars
  BY <1>1
<1>3. QED
  BY <1>2, LogInvariant, PTL DEF Nested
=============================================================================
