-------------------------------- MODULE Http --------------------------------
(***************************************************************************)
(* One request of the client: perform_request (client/utils/http.cpp),     *)
(* which repeats a transfer of curl until there is an answer.              *)
(*                                                                         *)
(* Of curl, which is external, the model has what perform_request relies   *)
(* on: the callbacks, the end of a transfer, and the response code that is *)
(* read after it.  The body of an answer is Body chunks; each carries the  *)
(* number of the attempt that received it.  retries + 1 does not overflow: *)
(* nobody asks for more than the default of two.                           *)
(***************************************************************************)
EXTENDS Naturals, Sequences, FiniteSets

CONSTANTS
    Retries,    \* retries, attempts after the first one
    Body,       \* chunks of a complete answer
    Listening   \* whether the caller passes a callback

RequestAssumption ==
    Retries \in Nat /\ Body \in Nat /\ Listening \in BOOLEAN

VARIABLES
    pc,         \* where perform_request is
    attempt,    \* i
    code,       \* the last status of this transfer
    buffer,     \* buffer: chunks, named by the attempt they came with
    stopping,   \* the user wants it to end: the callback throws from now on
    exception,  \* helper.exception is set
    result      \* what the caller gets

vars == <<pc, attempt, code, buffer, stopping, exception, result>>

\* 1xx; a redirection that is followed; any other status below 400; 400 and more.
Codes == {"none", "informational", "redirect", "answer", "refusal"}

Results == {"pending", "data", "nothing", "bad status", "user's exception"}

TypeOK ==
    /\ pc \in {"loop", "transfer", "ok", "failed", "done"}
    /\ attempt \in 0 .. Retries + 1
    /\ code \in Codes
    /\ buffer \in Seq(0 .. Retries)
    /\ stopping \in BOOLEAN
    /\ exception \in BOOLEAN
    /\ result \in Results

Init ==
    /\ pc = "loop"
    /\ attempt = 0
    /\ code = "none"
    /\ buffer = <<>>
    /\ stopping = FALSE
    /\ exception = FALSE
    /\ result = "pending"

-----------------------------------------------------------------------------
(* A transfer *)

\* curl_easy_perform forgets the status of the transfer before, and nothing else.
Perform ==
    /\ pc = "loop"
    /\ attempt <= Retries
    /\ pc' = "transfer"
    /\ code' = "none"
    /\ UNCHANGED <<attempt, buffer, stopping, exception, result>>

Header ==
    /\ pc = "transfer"
    /\ code \in {"none", "informational", "redirect"}
    /\ code' \in Codes \ {"none"}
    /\ UNCHANGED <<pc, attempt, buffer, stopping, exception, result>>

\* How many chunks this transfer has delivered.
Received == Cardinality({k \in DOMAIN buffer : buffer[k] = attempt})

\* write_callback; with CURLOPT_FAILONERROR no body of a refusal arrives, with
\* CURLOPT_FOLLOWLOCATION none of a redirection.
Write ==
    /\ pc = "transfer"
    /\ code = "answer"
    /\ Received < Body
    /\ buffer' = Append(buffer, attempt)
    /\ UNCHANGED <<pc, attempt, code, stopping, exception, result>>

\* progress_callback, when the caller's callback throws: what it threw is kept
\* and curl ends the transfer.
ProgressThrows ==
    /\ pc = "transfer"
    /\ Listening
    /\ stopping
    /\ exception' = TRUE
    /\ pc' = "failed"
    /\ UNCHANGED <<attempt, code, buffer, stopping, result>>

\* Any error of the network, at any point; a refusal always ends so.
Break ==
    /\ pc = "transfer"
    /\ pc' = "failed"
    /\ UNCHANGED <<attempt, code, buffer, stopping, exception, result>>

\* CURLE_OK: all of the answer is here, or the protocol was switched.
Complete ==
    /\ pc = "transfer"
    /\ \/ code = "answer" /\ Received = Body
       \/ code = "informational"
    /\ pc' = "ok"
    /\ UNCHANGED <<attempt, code, buffer, stopping, exception, result>>

-----------------------------------------------------------------------------
(* What perform_request makes of it *)

Finish(r) ==
    /\ pc' = "done"
    /\ result' = r
    /\ UNCHANGED <<attempt, code, buffer, stopping, exception>>

Accept == pc = "ok" /\ code = "answer" /\ Finish("data")

Reject == pc = "ok" /\ code # "answer" /\ Finish("bad status")

Rethrow == pc = "failed" /\ exception /\ Finish("user's exception")

\* mutation: only an answer that can be used ends the attempts
AnsweredWell == code = "answer" /\ Len(buffer) = Body

Answered == code # "none"

GiveUp == pc = "failed" /\ ~exception /\ Answered /\ Finish("nothing")

\* mutation: the loop does not count
RetryUncounted ==
    /\ pc = "failed"
    /\ ~exception
    /\ ~Answered
    /\ pc' = "loop"
    /\ UNCHANGED <<attempt, code, buffer, stopping, exception, result>>

Retry ==
    /\ pc = "failed"
    /\ ~exception
    /\ ~Answered
    /\ attempt' = attempt + 1
    /\ pc' = "loop"
    /\ UNCHANGED <<code, buffer, stopping, exception, result>>

Exhausted == pc = "loop" /\ attempt > Retries /\ Finish("nothing")

Stop ==
    /\ ~stopping
    /\ stopping' = TRUE
    /\ UNCHANGED <<pc, attempt, code, buffer, exception, result>>

Own ==
    \/ Perform
    \/ Accept \/ Reject \/ Rethrow \/ GiveUp \/ Retry \/ Exhausted

Next ==
    \/ Own
    \/ Header \/ Write \/ ProgressThrows \/ Break \/ Complete
    \/ Stop

Spec == Init /\ [][Next]_vars

\* curl calls the progress callback again and again, also while nothing arrives.
\* The network owes nothing: no timeout is set.
FairSpec == Spec /\ WF_vars(Own) /\ WF_vars(ProgressThrows)

-----------------------------------------------------------------------------
(* Properties *)

\* What the caller gets as data is one complete answer: the buffer is never
\* emptied, so nothing that came with one attempt may stand before what comes
\* with another (http.cpp:67, 91-119).
OneAnswer == result = "data" => buffer = [i \in 1 .. Body |-> attempt]

\* What the caller's callback threw gets out, whatever had been answered until
\* then: the updater takes a request that returns for one that was not cancelled
\* (http.cpp:29-33, 107-110).
StopIsHeard == pc = "done" /\ exception => result = "user's exception"

\* Who listens can stop: the request ends even if the network falls silent for
\* ever or fails again and again.  Who does not listen may wait for ever.
StopEnds == Listening => (stopping ~> pc = "done")
=============================================================================
