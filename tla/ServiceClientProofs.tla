------------------------ MODULE ServiceClientProofs ------------------------
(***************************************************************************)
(* The safety properties of ServiceClient for any calls, retry settings    *)
(* and number of connections, and that it implements RemoteCall.           *)
(***************************************************************************)
EXTENDS ServiceClient, FiniteSetTheorems, TLAPS

(***************************************************************************)
(* The inductive invariant.                                                *)
(***************************************************************************)

\* A send bears the number of an attempt, and none is on the wire and executed.
SendsAreNumbered == \A s \in wire \cup executed : s[2] <= attempt[s[1]]

WireIsFresh == wire \cap executed = {}

\* The loop makes no more rounds than it has attempts.
AttemptsAreBounded == \A c \in Calls : attempt[c] = 0 \/ attempt[c] <= AttemptsOf(c)

\* The inner coroutine starts with the wait of the outer one, the outer one
\* answers when the inner one has ended.
SidesAgree ==
    \A c \in Calls : /\ outer[c] \in {"none", "scheduled"} => inner[c] = "none"
                     /\ outer[c] \in {"value"} \cup Raised => inner[c] = "ended"
                     /\ inner[c] = "none" => attempt[c] = 0
                     /\ inner[c] = "sending" => attempt[c] # 0

\* A reply is there at the end only: an error that is retried after the last
\* attempt, a response that is not after its execution.
RepliesAreFinal ==
    \A c \in Calls : reply[c] # NoReply =>
        /\ inner[c] = "ended"
        /\ IsRetried(reply[c]) => attempt[c] = AttemptsOf(c)
        /\ reply[c] \in Responses /\ ~IsServerError(reply[c]) => <<c, attempt[c]>> \in executed

\* The outer coroutine has read the reply that is still there.
OutcomeIsOfReply ==
    \A c \in Calls : outer[c] \in {"value"} \cup Raised => outer[c] = OutcomeOf(c, reply[c])

CallInv ==
    /\ TypeOK
    /\ SendsAreNumbered
    /\ WireIsFresh
    /\ AttemptsAreBounded
    /\ SidesAgree
    /\ RepliesAreFinal
    /\ OutcomeIsOfReply
-----------------------------------------------------------------------------
(* Lemmas on the operators.                                                *)

\* A call has at least one attempt, and exactly one unless it is a GET.
LEMMA AttemptsType ==
    ASSUME NEW c \in Calls
    PROVE  /\ AttemptsOf(c) \in Int
           /\ AttemptsOf(c) <= BudgetOf(c)
           /\ BudgetOf(c) \in Nat \ {0}
           /\ c \notin Gets => AttemptsOf(c) = 1
BY ServiceClientAssumption DEF AttemptsOf, Retries, BudgetOf

\* Every reply is turned into a value or a raised error.
LEMMA OutcomeType ==
    ASSUME NEW c \in Calls, NEW r \in Replies
    PROVE  OutcomeOf(c, r) \in {"value"} \cup Raised
BY DEF OutcomeOf, ErrorOutcome, StatusOutcome, Raised

\* What an outcome says of the reply.
LEMMA OutcomeReason ==
    ASSUME NEW c \in Calls, NEW r \in Replies
    PROVE  /\ OutcomeOf(c, r) = "value" => r \in Responses /\ ~IsServerError(r)
           /\ OutcomeOf(c, r) = "upstream" =>
                 r # NoReply /\ (c \in Propagating \/ IsRetried(r))
BY DEF OutcomeOf, ErrorOutcome, StatusOutcome, RaisesForStatus, IsRetried, NoReply, Responses

\* The end of a send keeps the types of the inner coroutine and of its reply.
LEMMA SendEndsType ==
    ASSUME NEW c \in Calls, NEW r \in Replies, NEW n \in Nat,
           inner \in [Calls -> InnerStates], reply \in [Calls -> Replies],
           SendEnds(c, r, n)
    PROVE  inner' \in [Calls -> InnerStates] /\ reply' \in [Calls -> Replies]
BY DEF SendEnds, InnerStates

\* Numbers up to n are finitely many, at most n.
LEMMA IntervalBound ==
    ASSUME NEW n \in Nat, NEW S, S \subseteq 1..n
    PROVE  IsFiniteSet(S) /\ Cardinality(S) \in Nat /\ Cardinality(S) <= n
<1>1. IsFiniteSet(1..n) /\ Cardinality(1..n) = n
  BY FS_Interval
<1> QED BY <1>1, FS_Subset, FS_CardinalityType

\* The executions of a call are numbers of its attempts.
LEMMA ExecutionsAreAttempts ==
    ASSUME CallInv, NEW c \in Calls
    PROVE  /\ ExecutionsOf(c) \subseteq 1..attempt[c]
           /\ IsFiniteSet(ExecutionsOf(c))
           /\ Cardinality(ExecutionsOf(c)) \in Nat
           /\ Cardinality(ExecutionsOf(c)) <= attempt[c]
<1>1. attempt[c] \in Nat
  BY DEF CallInv, TypeOK
<1>2. ExecutionsOf(c) \subseteq 1..attempt[c]
  BY <1>1 DEF CallInv, TypeOK, SendsAreNumbered, ExecutionsOf
<1> QED BY <1>1, <1>2, IntervalBound
-----------------------------------------------------------------------------
(* CallInv is inductive.                                                    *)

\* Before the first call nothing is sent, executed or answered.
LEMMA InitCall == Init => CallInv
<1> SUFFICES ASSUME Init PROVE CallInv
  OBVIOUS
<1>1. TypeOK
  BY DEF Init, TypeOK, OuterStates, InnerStates, Replies, NoReply
<1>2. SendsAreNumbered /\ WireIsFresh /\ AttemptsAreBounded
  BY DEF Init, SendsAreNumbered, WireIsFresh, AttemptsAreBounded
<1>3. SidesAgree /\ RepliesAreFinal /\ OutcomeIsOfReply
  BY DEF Init, SidesAgree, RepliesAreFinal, OutcomeIsOfReply, Raised, NoReply
<1> QED BY <1>1, <1>2, <1>3 DEF CallInv

\* A send begins, or its wait for a connection times out: the next attempt.
LEMMA AttemptStep ==
    ASSUME CallInv, NEW c \in Calls, NEW r \in Replies,
           inner[c] = "ready", attempt[c] < AttemptsOf(c),
           attempt' = [attempt EXCEPT ![c] = @ + 1],
           UNCHANGED <<outer, executed>>,
           \/ /\ wire' = wire \cup {<<c, attempt[c] + 1>>}
              /\ inner' = [inner EXCEPT ![c] = "sending"]
              /\ UNCHANGED reply
           \/ /\ UNCHANGED wire
              /\ SendEnds(c, r, attempt[c] + 1)
              /\ r = <<"timeout">>
    PROVE  CallInv'
<1>0. /\ attempt \in [Calls -> Nat]
      /\ inner \in [Calls -> InnerStates]
      /\ reply \in [Calls -> Replies]
      /\ wire \subseteq Calls \X (Nat \ {0})
      /\ executed \subseteq Calls \X (Nat \ {0})
      /\ AttemptsOf(c) \in Int
      /\ reply[c] = NoReply
      /\ \A d \in Calls : d # c => attempt'[d] = attempt[d]
      /\ attempt'[c] = attempt[c] + 1
  BY AttemptsType DEF CallInv, TypeOK, RepliesAreFinal
<1>1. TypeOK'
  <2>1. attempt' \in [Calls -> Nat] /\ wire' \subseteq Calls \X (Nat \ {0})
    BY <1>0
  <2>2. inner' \in [Calls -> InnerStates] /\ reply' \in [Calls -> Replies]
    BY <1>0, SendEndsType DEF InnerStates
  <2> QED BY <2>1, <2>2 DEF CallInv, TypeOK
<1>2. SendsAreNumbered'
  BY <1>0 DEF CallInv, SendsAreNumbered
<1>3. WireIsFresh'
  <2>1. <<c, attempt[c] + 1>> \notin executed
    BY <1>0 DEF CallInv, SendsAreNumbered
  <2> QED BY <2>1 DEF CallInv, WireIsFresh
<1>4. AttemptsAreBounded'
  <2> SUFFICES ASSUME NEW d \in Calls PROVE attempt'[d] = 0 \/ attempt'[d] <= AttemptsOf(d)
    BY DEF AttemptsAreBounded, AttemptsOf, Retries
  <2>1. CASE d = c
    BY <1>0, <2>1
  <2>2. CASE d # c
    BY <1>0, <2>2 DEF CallInv, AttemptsAreBounded
  <2> QED BY <2>1, <2>2
<1>5. /\ \A d \in Calls : d # c => inner'[d] = inner[d] /\ reply'[d] = reply[d]
      /\ inner'[c] \in {"ready", "sending", "ended"}
      /\ \/ reply'[c] = NoReply
         \/ /\ reply'[c] = <<"timeout">>
            /\ inner'[c] = "ended"
            /\ attempt'[c] = AttemptsOf(c)
  <2>1. IsRetried(<<"timeout">>)
    BY DEF IsRetried, Transport
  <2>2. CASE SendEnds(c, r, attempt[c] + 1) /\ r = <<"timeout">>
    <3>1. CASE attempt[c] + 1 < AttemptsOf(c)
      BY <1>0, <2>1, <2>2, <3>1 DEF SendEnds
    <3>2. CASE ~(attempt[c] + 1 < AttemptsOf(c))
      <4>1. attempt'[c] = AttemptsOf(c)
        BY <1>0, <3>2
      <4> QED BY <1>0, <2>1, <2>2, <3>2, <4>1 DEF SendEnds
    <3> QED BY <3>1, <3>2
  <2>3. CASE inner' = [inner EXCEPT ![c] = "sending"] /\ UNCHANGED reply
    BY <1>0, <2>3
  <2> QED BY <2>2, <2>3
<1>6. SidesAgree'
  BY <1>0, <1>5 DEF CallInv, SidesAgree
<1>7. RepliesAreFinal'
  <2> SUFFICES ASSUME NEW d \in Calls, reply'[d] # NoReply
               PROVE  /\ inner'[d] = "ended"
                      /\ IsRetried(reply'[d]) => attempt'[d] = AttemptsOf(d)
                      /\ reply'[d] \in Responses /\ ~IsServerError(reply'[d])
                            => <<d, attempt'[d]>> \in executed'
    BY DEF RepliesAreFinal, NoReply, AttemptsOf, Retries, IsRetried, IsServerError
  <2>1. CASE d = c
    <3>1. <<"timeout">> \notin Responses
      BY DEF Responses
    <3> QED BY <1>5, <2>1, <3>1
  <2>2. CASE d # c
    BY <1>0, <1>5, <2>2 DEF CallInv, RepliesAreFinal
  <2> QED BY <2>1, <2>2
<1>8. OutcomeIsOfReply'
  <2>1. outer[c] \notin {"value"} \cup Raised
    BY DEF CallInv, SidesAgree
  <2> QED BY <1>5, <2>1 DEF CallInv, OutcomeIsOfReply, OutcomeOf, RaisesForStatus
<1> QED BY <1>1, <1>2, <1>3, <1>4, <1>6, <1>7, <1>8 DEF CallInv

\* A send that is under way ends with r.
LEMMA EndStep ==
    ASSUME CallInv, NEW c \in Calls, NEW r \in Replies,
           inner[c] = "sending", r # NoReply,
           r \in Responses /\ ~IsServerError(r) => <<c, attempt[c]>> \in executed,
           SendEnds(c, r, attempt[c]),
           UNCHANGED <<outer, attempt, wire, executed>>
    PROVE  CallInv'
<1>0. /\ attempt \in [Calls -> Nat]
      /\ inner \in [Calls -> InnerStates]
      /\ reply \in [Calls -> Replies]
      /\ AttemptsOf(c) \in Int
      /\ attempt[c] <= AttemptsOf(c)
  BY AttemptsType DEF CallInv, TypeOK, AttemptsAreBounded, SidesAgree
<1>1. TypeOK'
  BY <1>0, SendEndsType DEF CallInv, TypeOK
<1>2. SendsAreNumbered' /\ WireIsFresh' /\ AttemptsAreBounded'
  BY DEF CallInv, SendsAreNumbered, WireIsFresh, AttemptsAreBounded, AttemptsOf, Retries
<1>3. /\ \A d \in Calls : d # c => inner'[d] = inner[d] /\ reply'[d] = reply[d]
      /\ inner'[c] \in {"ready", "ended"}
      /\ reply'[c] = NoReply \/ (reply'[c] = r /\ inner'[c] = "ended")
      /\ reply'[c] # NoReply /\ IsRetried(r) => ~(attempt[c] < AttemptsOf(c))
  BY <1>0 DEF SendEnds, CallInv, RepliesAreFinal
<1>4. SidesAgree'
  BY <1>3 DEF CallInv, SidesAgree
<1>5. RepliesAreFinal'
  <2> SUFFICES ASSUME NEW d \in Calls, reply'[d] # NoReply
               PROVE  /\ inner'[d] = "ended"
                      /\ IsRetried(reply'[d]) => attempt'[d] = AttemptsOf(d)
                      /\ reply'[d] \in Responses /\ ~IsServerError(reply'[d])
                            => <<d, attempt'[d]>> \in executed'
    BY DEF RepliesAreFinal, NoReply, AttemptsOf, Retries, IsRetried, IsServerError
  <2>1. CASE d = c
    <3>1. reply'[c] = r /\ inner'[c] = "ended"
      BY <1>3, <2>1
    <3>2. IsRetried(r) => attempt[c] = AttemptsOf(c)
      BY <1>0, <1>3, <3>1, <2>1
    <3> QED BY <2>1, <3>1, <3>2
  <2>2. CASE d # c
    BY <1>3, <2>2 DEF CallInv, RepliesAreFinal
  <2> QED BY <2>1, <2>2
<1>6. OutcomeIsOfReply'
  <2>1. outer[c] \notin {"value"} \cup Raised
    BY DEF CallInv, SidesAgree
  <2> QED BY <1>3, <2>1 DEF CallInv, OutcomeIsOfReply, OutcomeOf, RaisesForStatus
<1> QED BY <1>1, <1>2, <1>4, <1>5, <1>6 DEF CallInv

\* The outer coroutine of one call moves; the inner one at most gets ready.
LEMMA OuterStep ==
    ASSUME CallInv, NEW c \in Calls, NEW o \in OuterStates,
           outer' = [outer EXCEPT ![c] = o],
           o = "scheduled" => inner[c] = "none",
           o \in {"value"} \cup Raised => inner[c] = "ended" /\ o = OutcomeOf(c, reply[c]),
           o # "none",
           \/ UNCHANGED inner
           \/ inner[c] = "none" /\ o = "waiting" /\ inner' = [inner EXCEPT ![c] = "ready"],
           UNCHANGED <<attempt, reply, wire, executed>>
    PROVE  CallInv'
<1>0. /\ outer \in [Calls -> OuterStates]
      /\ inner \in [Calls -> InnerStates]
  BY DEF CallInv, TypeOK
<1>1. TypeOK'
  BY <1>0 DEF CallInv, TypeOK, InnerStates
<1>2. SendsAreNumbered' /\ WireIsFresh' /\ AttemptsAreBounded'
  BY DEF CallInv, SendsAreNumbered, WireIsFresh, AttemptsAreBounded, AttemptsOf, Retries
<1>3. SidesAgree'
  <2>1. "waiting" \notin {"none", "scheduled", "value"} \cup Raised
    BY DEF Raised
  <2> QED BY <1>0, <2>1 DEF CallInv, SidesAgree
<1>4. RepliesAreFinal'
  <2>1. \A d \in Calls : inner[d] = "ended" => inner'[d] = "ended"
    BY <1>0
  <2> QED BY <2>1 DEF CallInv, RepliesAreFinal, NoReply, AttemptsOf, Retries, IsRetried, IsServerError
<1>5. OutcomeIsOfReply'
  <2>1. \A d \in Calls : OutcomeOf(d, reply[d])' = OutcomeOf(d, reply[d])
    BY DEF OutcomeOf, RaisesForStatus
  <2> QED BY <1>0, <2>1 DEF CallInv, OutcomeIsOfReply
<1> QED BY <1>1, <1>2, <1>3, <1>4, <1>5 DEF CallInv

\* CallInv: whatever the calls, their retries and the connections, sends are
\* numbered by attempts within the limit, and answers belong to final replies.
THEOREM CallInvariance == Spec => []CallInv
<1>1. CallInv /\ [Next]_vars => CallInv'
  <2> SUFFICES ASSUME CallInv, [Next]_vars PROVE CallInv'
    OBVIOUS
  <2>1. ASSUME NEW c \in Calls, HttpDispatch(c) PROVE CallInv'
    <3>1. inner[c] = "none"
      BY <2>1 DEF HttpDispatch, CallInv, SidesAgree
    <3> QED BY <2>1, <3>1, OuterStep DEF HttpDispatch, OuterStates, Raised
  <2>2. ASSUME NEW c \in Calls, Shield(c) PROVE CallInv'
    <3>1. inner[c] = "none"
      BY <2>2 DEF Shield, CallInv, SidesAgree
    <3> QED BY <2>2, <3>1, OuterStep DEF Shield, OuterStates, Raised
  <2>3. ASSUME NEW c \in Calls, Cancel(c) PROVE CallInv'
    BY <2>3, OuterStep DEF Cancel, CancelInner, OuterStates, Final, Raised
  <2>4. ASSUME NEW c \in Calls, Return(c) PROVE CallInv'
    <3>1. reply[c] \in Replies
      BY DEF CallInv, TypeOK
    <3>2. OutcomeOf(c, reply[c]) \in {"value"} \cup Raised
      BY <3>1, OutcomeType
    <3>3. /\ OutcomeOf(c, reply[c]) \in OuterStates
          /\ OutcomeOf(c, reply[c]) \notin {"none", "scheduled"}
      BY <3>2 DEF OuterStates, Final, Raised
    <3> QED BY <2>4, <3>3, OuterStep DEF Return
  <2>5. ASSUME NEW c \in Calls, Send(c) PROVE CallInv'
    BY <2>5, AttemptStep DEF Send, Replies
  <2>6. ASSUME NEW c \in Calls, PoolTimeout(c) PROVE CallInv'
    <3>1. <<"timeout">> \in Replies
      BY DEF Replies, Errors, Transport
    <3> QED BY <2>6, <3>1, AttemptStep DEF PoolTimeout
  <2>7. ASSUME NEW c \in Calls, SendNothing(c) PROVE CallInv'
    BY <2>7 DEF SendNothing, CallInv, TypeOK, InnerStates, SendsAreNumbered, WireIsFresh,
                AttemptsAreBounded, AttemptsOf, Retries, SidesAgree, RepliesAreFinal, NoReply,
                IsRetried, IsServerError, OutcomeIsOfReply, OutcomeOf, RaisesForStatus
  <2>8. ASSUME NEW c \in Calls, NEW r \in Responses, Respond(c, r) PROVE CallInv'
    <3>1. r \in Replies
      BY DEF Replies
    <3>2. r # NoReply
      BY DEF NoReply, Responses
    <3> QED BY <2>8, <3>1, <3>2, EndStep DEF Respond
  <2>9. ASSUME NEW c \in Calls, NEW e \in Errors, Fail(c, e) PROVE CallInv'
    <3>1. <<e>> \in Replies /\ <<e>> # NoReply /\ <<e>> \notin Responses
      BY DEF Replies, NoReply, Responses
    <3> QED BY <2>9, <3>1, EndStep DEF Fail
  <2>10. ASSUME NEW s \in wire, Execute(s) PROVE CallInv'
    BY <2>10 DEF Execute, CallInv, TypeOK, SendsAreNumbered, WireIsFresh,
                AttemptsAreBounded, AttemptsOf, Retries, SidesAgree, RepliesAreFinal, NoReply,
                IsRetried, IsServerError, OutcomeIsOfReply, OutcomeOf, RaisesForStatus
  <2>11. CASE Done \/ UNCHANGED vars
    BY <2>11 DEF Done, vars, CallInv, TypeOK, SendsAreNumbered, WireIsFresh,
                AttemptsAreBounded, AttemptsOf, Retries, SidesAgree, RepliesAreFinal, NoReply,
                IsRetried, IsServerError, OutcomeIsOfReply, OutcomeOf, RaisesForStatus
  <2> QED BY <2>1, <2>2, <2>3, <2>4, <2>5, <2>6, <2>7, <2>8, <2>9, <2>10, <2>11
          DEF Next, CallStep, SendStep
<1> QED BY InitCall, <1>1, PTL DEF Spec
-----------------------------------------------------------------------------
(* The properties.                                                         *)

\* Every variable of the service client keeps its type.
THEOREM CallTypes == Spec => []TypeOK
<1>1. CallInv => TypeOK
  BY DEF CallInv
<1> QED BY <1>1, CallInvariance, PTL

\* A request that is no GET is executed at most once.
THEOREM WritesAreNotRepeated == Spec => []WritesHappenOnce
<1>1. CallInv => WritesHappenOnce
  <2> SUFFICES ASSUME CallInv, NEW c \in Calls \ Gets PROVE Cardinality(ExecutionsOf(c)) <= 1
    BY DEF WritesHappenOnce
  <2>1. attempt[c] \in Nat /\ attempt[c] <= 1
    BY AttemptsType DEF CallInv, TypeOK, AttemptsAreBounded
  <2> QED BY <2>1, ExecutionsAreAttempts
<1> QED BY <1>1, CallInvariance, PTL

\* A retried failure is only reported after the last attempt.
THEOREM EveryAttemptIsMade == Spec => []GivesUpLast
<1>1. CallInv => GivesUpLast
  BY DEF CallInv, RepliesAreFinal, GivesUpLast
<1> QED BY <1>1, CallInvariance, PTL

\* A value comes from an executed send, an error of the other side from a caller
\* that asked for it or from the last attempt.
THEOREM AnswersHaveReasons == Spec => []AnswersAreEarned
<1>1. CallInv => AnswersAreEarned
  <2> SUFFICES ASSUME CallInv, NEW c \in Calls
               PROVE  /\ outer[c] = "value" => <<c, attempt[c]>> \in executed
                      /\ outer[c] = "upstream" => c \in Propagating \/ attempt[c] = AttemptsOf(c)
    BY DEF AnswersAreEarned
  <2>1. reply[c] \in Replies
    BY DEF CallInv, TypeOK
  <2>2. CASE outer[c] = "value"
    <3>1. reply[c] \in Responses /\ ~IsServerError(reply[c])
      BY <2>1, <2>2, OutcomeReason DEF CallInv, OutcomeIsOfReply
    <3>2. reply[c] # NoReply
      BY <3>1 DEF NoReply, Responses
    <3> QED BY <2>2, <3>1, <3>2 DEF CallInv, RepliesAreFinal
  <2>3. CASE outer[c] = "upstream"
    <3>1. reply[c] # NoReply /\ (c \in Propagating \/ IsRetried(reply[c]))
      BY <2>1, <2>3, OutcomeReason DEF CallInv, OutcomeIsOfReply, Raised
    <3> QED BY <2>3, <3>1 DEF CallInv, RepliesAreFinal
  <2> QED BY <2>2, <2>3
<1> QED BY <1>1, CallInvariance, PTL
-----------------------------------------------------------------------------
(* The service client implements RemoteCall.                               *)

\* A step that executes nothing leaves the executions alone.
LEMMA SameExecutions ==
    ASSUME UNCHANGED executed
    PROVE  UNCHANGED [c \in Calls |-> Cardinality(ExecutionsOf(c))]
BY DEF ExecutionsOf

\* An execution is one more for its call and none for the others.
LEMMA OneMoreExecution ==
    ASSUME CallInv, NEW s \in wire, Execute(s)
    PROVE  /\ s[1] \in Calls
           /\ ExecutionsOf(s[1])' = ExecutionsOf(s[1]) \cup {s[2]}
           /\ Cardinality(ExecutionsOf(s[1])') = Cardinality(ExecutionsOf(s[1])) + 1
           /\ \A d \in Calls : d # s[1] => ExecutionsOf(d)' = ExecutionsOf(d)
<1>1. s[1] \in Calls /\ s[2] \in Nat /\ s = <<s[1], s[2]>>
  BY DEF CallInv, TypeOK
<1>2. \A x \in executed : x = <<x[1], x[2]>>
  BY DEF CallInv, TypeOK
<1>3. s \notin executed
  BY DEF CallInv, WireIsFresh
<1>4. s[2] \notin ExecutionsOf(s[1])
  BY <1>1, <1>2, <1>3 DEF ExecutionsOf
<1>5. executed' = executed \cup {s}
  BY DEF Execute
<1>6. ExecutionsOf(s[1])' = ExecutionsOf(s[1]) \cup {s[2]}
  BY <1>5 DEF ExecutionsOf
<1>7. \A d \in Calls : d # s[1] => ExecutionsOf(d)' = ExecutionsOf(d)
  BY <1>5 DEF ExecutionsOf
<1>8. IsFiniteSet(ExecutionsOf(s[1]))
  BY <1>1, ExecutionsAreAttempts
<1> QED BY <1>1, <1>4, <1>6, <1>7, <1>8, FS_AddElement

\* RefinesRemoteCall: every call keeps to the budget of its method and settings,
\* and its one answer is a value only after an execution.
THEOREM ImplementsRemoteCall == Spec => RefinesRemoteCall
<1> DEFINE State == [c \in Calls |-> CallState(c)]
           Executions == [c \in Calls |-> Cardinality(ExecutionsOf(c))]
<1>1. Init => Remote!Init
  <2> SUFFICES ASSUME Init PROVE Remote!Init
    OBVIOUS
  <2>1. \A c \in Calls : CallState(c) = "idle"
    BY DEF Init, CallState
  <2>2. \A c \in Calls : ExecutionsOf(c) = {}
    BY DEF Init, ExecutionsOf
  <2> QED BY <2>1, <2>2, FS_EmptySet DEF Remote!Init
<1>2. CallInv /\ [Next]_vars => [Remote!Next]_Remote!vars
  <2> SUFFICES ASSUME CallInv, [Next]_vars
               PROVE  Remote!Next \/ (State' = State /\ Executions' = Executions)
    BY DEF Remote!vars
  <2>0. outer \in [Calls -> OuterStates]
    BY DEF CallInv, TypeOK
  <2>1. ASSUME NEW c \in Calls, HttpDispatch(c) PROVE Remote!Next
    <3>1. State[c] = "idle" /\ State' = [State EXCEPT ![c] = "open"]
      BY <2>0, <2>1 DEF HttpDispatch, CallState
    <3>2. Executions' = Executions
      BY <2>1, SameExecutions DEF HttpDispatch
    <3> QED BY <3>1, <3>2 DEF Remote!Next, Remote!Open
  <2>2. ASSUME NEW c \in Calls, Cancel(c) PROVE Remote!Next
    <3>1. State[c] = "open" /\ State' = [State EXCEPT ![c] = "cancelled"]
      BY <2>0, <2>2 DEF Cancel, CallState
    <3>2. Executions' = Executions
      BY <2>2, SameExecutions DEF Cancel
    <3> QED BY <3>1, <3>2 DEF Remote!Next, Remote!GiveUp
  <2>3. ASSUME NEW c \in Calls, Return(c) PROVE Remote!Next
    <3>1. State[c] = "open" /\ Executions' = Executions
      BY <2>3, SameExecutions DEF Return, CallState
    <3>2. outer' = [outer EXCEPT ![c] = OutcomeOf(c, reply[c])] /\ attempt' = attempt
          /\ executed' = executed
      BY <2>3 DEF Return
    <3>3. outer'[c] \in {"value"} \cup Raised
      BY <2>0, <3>2, OutcomeType DEF CallInv, TypeOK
    <3>4. CASE outer'[c] = "value"
      <4>1. State' = [State EXCEPT ![c] = "answered"]
        BY <2>0, <3>2, <3>4 DEF CallState
      <4>2. Executions[c] > 0
        <5>1. reply[c] \in Responses /\ ~IsServerError(reply[c])
          BY <2>0, <3>2, <3>4, OutcomeReason DEF CallInv, TypeOK
        <5>2. reply[c] # NoReply
          BY <5>1 DEF NoReply, Responses
        <5>3. <<c, attempt[c]>> \in executed
          BY <5>1, <5>2 DEF CallInv, RepliesAreFinal
        <5>4. attempt[c] \in ExecutionsOf(c)
          BY <5>3 DEF ExecutionsOf
        <5> QED BY <5>4, ExecutionsAreAttempts, FS_EmptySet
      <4> QED BY <3>1, <4>1, <4>2 DEF Remote!Next, Remote!Answer
    <3>5. CASE outer'[c] \in Raised
      <4>1. State' = [State EXCEPT ![c] = "failed"]
        BY <2>0, <3>2, <3>5 DEF CallState, Raised
      <4> QED BY <3>1, <4>1 DEF Remote!Next, Remote!GiveUp
    <3> QED BY <3>3, <3>4, <3>5
  <2>4. ASSUME NEW s \in wire, Execute(s) PROVE Remote!Next
    <3> DEFINE c == s[1]
    <3>1. c \in Calls /\ Executions' = [Executions EXCEPT ![c] = @ + 1]
      BY <2>4, OneMoreExecution
    <3>2. State' = State
      BY <2>4 DEF Execute, CallState
    <3>3. s[2] <= attempt[c] /\ s[2] \in Nat \ {0} /\ attempt[c] \in Nat
      BY DEF CallInv, TypeOK, SendsAreNumbered
    <3>4. State[c] # "idle"
      BY <3>1, <3>3 DEF CallInv, SidesAgree, CallState
    <3>5. Executions[c] < BudgetOf(c)
      <4>1. Cardinality(ExecutionsOf(c)') = Cardinality(ExecutionsOf(c)) + 1
        BY <2>4, OneMoreExecution
      <4>2. ExecutionsOf(c)' \subseteq 1..attempt[c]
        BY <2>4, <3>1, <3>3, OneMoreExecution, ExecutionsAreAttempts
      <4>3. Cardinality(ExecutionsOf(c)') <= attempt[c]
        <5>1. attempt[c] \in Nat
          BY <3>3
        <5> HIDE DEF c
        <5> QED BY <4>2, <5>1, IntervalBound
      <4>4. attempt[c] <= AttemptsOf(c)
        BY <3>1, <3>3 DEF CallInv, AttemptsAreBounded
      <4> QED BY <3>1, <3>3, <4>1, <4>3, <4>4, AttemptsType, ExecutionsAreAttempts
    <3> QED BY <3>1, <3>2, <3>4, <3>5 DEF Remote!Next, Remote!Execute
  <2>5. ASSUME NEW c \in Calls, Shield(c) PROVE State' = State /\ Executions' = Executions
    BY <2>0, <2>5, SameExecutions DEF Shield, CallState
  <2>6. ASSUME NEW c \in Calls, SendStep(c) PROVE State' = State /\ Executions' = Executions
    BY <2>6, SameExecutions
       DEF SendStep, Send, PoolTimeout, SendNothing, Respond, Fail, CallState
  <2>7. CASE Done \/ UNCHANGED vars
    BY <2>7, SameExecutions DEF Done, vars, CallState
  <2> QED BY <2>1, <2>2, <2>3, <2>4, <2>5, <2>6, <2>7 DEF Next, CallStep
<1> QED BY <1>1, <1>2, CallInvariance, PTL DEF Spec, RefinesRemoteCall, Remote!Spec
=============================================================================
