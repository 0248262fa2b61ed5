----------------------------- MODULE FluxClient -----------------------------
(***************************************************************************)
(* The attempts of a call to Flux: doGetWithRetry and doPostWithRetry,     *)
(* which are the same loop.  A request that an attempt sent travels on     *)
(* when the attempt has given it up, and Flux may still process it.        *)
(*                                                                         *)
(* Live(c) says that the context of call c has not ended; it belongs to    *)
(* the caller.                                                             *)
(***************************************************************************)
EXTENDS Naturals, FiniteSets

CONSTANTS
  Calls,     \* calls that may be under way together
  RetryMax   \* flux.retry_max

ASSUME ClientAssumption == RetryMax \in Nat

VARIABLES
  call,        \* what each call is doing
  travelling,  \* requests on their way
  processed    \* requests Flux has processed

client == <<call, travelling, processed>>

CallState == [pc : {"idle", "try", "sent", "backoff", "answered", "failed"},
              attempt : 0 .. RetryMax]
NoCall == [pc |-> "idle", attempt |-> 0]
Sent == [call : Calls, attempt : 0 .. RetryMax]

ClientTypeOK ==
  /\ call \in [Calls -> CallState]
  /\ travelling \subseteq Sent
  /\ processed \subseteq Sent

ClientInit ==
  /\ call = [c \in Calls |-> NoCall]
  /\ travelling = {}
  /\ processed = {}

\* The requests of call c.
Requests(c) == {m \in travelling \cup processed : m.call = c}
This(c) == [call |-> c, attempt |-> call[c].attempt]

\* The call goes on to state pc.
CallIs(c, pc) == call' = [call EXCEPT ![c].pc = pc]

-----------------------------------------------------------------------------
Begin(c) ==
  /\ call[c].pc = "idle"
  /\ CallIs(c, "try")
  /\ UNCHANGED <<travelling, processed>>

\* httpClient.Do: with a context that has ended nothing is sent.
Send(c, live) ==
  /\ call[c].pc = "try" /\ live
  /\ travelling' = travelling \cup {This(c)}
  /\ CallIs(c, "sent")
  /\ UNCHANGED processed

\* Mutant: one attempt more.
AttemptFailsLate(c, live) ==
  /\ call[c].pc = "sent" \/ (call[c].pc = "try" /\ ~live)
  /\ call' = [call EXCEPT ![c] =
                IF @.attempt <= RetryMax THEN [pc |-> "backoff", attempt |-> @.attempt + 1]
                                         ELSE [@ EXCEPT !.pc = "failed"]]
  /\ UNCHANGED <<travelling, processed>>

\* Do returns an error, the body cannot be read, or the status is not 200.
AttemptFails(c, live) ==
  /\ call[c].pc = "sent" \/ (call[c].pc = "try" /\ ~live)
  /\ call' = [call EXCEPT ![c] =
                IF @.attempt < RetryMax THEN [pc |-> "backoff", attempt |-> @.attempt + 1]
                                        ELSE [@ EXCEPT !.pc = "failed"]]
  /\ UNCHANGED <<travelling, processed>>

\* The answer to this attempt's request, not to one given up.
AttemptAnswered(c) ==
  /\ call[c].pc = "sent"
  /\ This(c) \in processed
  /\ CallIs(c, "answered")
  /\ UNCHANGED <<travelling, processed>>

BackoffOver(c) ==
  /\ call[c].pc = "backoff"
  /\ CallIs(c, "try")
  /\ UNCHANGED <<travelling, processed>>

\* select sees ctx.Done.
BackoffCut(c, live) ==
  /\ call[c].pc = "backoff" /\ ~live
  /\ CallIs(c, "failed")
  /\ UNCHANGED <<travelling, processed>>

Attempt(c, live) ==
  \/ Send(c, live) \/ AttemptFails(c, live) \/ AttemptAnswered(c)
  \/ BackoffOver(c) \/ BackoffCut(c, live)

\* Flux takes a request up, whether or not its client still waits.
FluxProcesses(m) ==
  /\ m \in travelling
  /\ travelling' = travelling \ {m}
  /\ processed' = processed \cup {m}
  /\ UNCHANGED call

\* The caller has the outcome; that Flux may yet process a GET does not matter.
HangUp(c) ==
  /\ call' = [call EXCEPT ![c] = NoCall]
  /\ travelling' = {m \in travelling : m.call # c}
  /\ processed' = {m \in processed : m.call # c}

\* The caller is gone, and so is what it asked.
Forget ==
  /\ call' = [c \in Calls |-> NoCall]
  /\ travelling' = {}
  /\ processed' = {}

-----------------------------------------------------------------------------
\* A call makes at most 1 + RetryMax requests, one per attempt, and what it
\* returns as an answer was an answer to one of them, although requests it
\* gave up may be processed before, between and after.
CallsBounded ==
  \A c \in Calls :
    /\ Cardinality(Requests(c)) <= RetryMax + 1
    /\ call[c].pc = "answered" => Requests(c) \cap processed # {}
    /\ call[c].pc \in {"idle", "try", "backoff"} =>
         Cardinality(Requests(c)) <= call[c].attempt
=============================================================================
