-------------------------------- MODULE NodePing --------------------------------
(***************************************************************************)
(* The node ping controller, provider/sci/controller/node_ping.go: one     *)
(* check after the other, each of which starts a ping or joins the one     *)
(* still in flight, and gives up on it when its own timeout is over.       *)
(* getResult's readers wait for firstPingCompleted and read result.  The   *)
(* time of a result has no reader and is left out.                         *)
(***************************************************************************)
EXTENDS Naturals

CONSTANTS
    PingTimeout   \* is there one?  Nothing in the program sets pingTimeout: FALSE

ASSUME PingAssumption == PingTimeout \in BOOLEAN

VARIABLES
    checker,             \* the goroutine of Run
    inFlight,            \* singleflight's entry: has a ping not returned yet?
    answer,              \* what the current check's channel holds
    expired,             \* has the current check's context expired?
    result,              \* the error of the result published last
    firstPingCompleted,  \* is the channel closed?
    stuck                \* does the provider no longer answer?

pingVars == <<checker, inFlight, answer, expired, result, firstPingCompleted>>

NoResult == "none"

PingTypeOK ==
    /\ checker \in {"off", "starting", "checking", "closing", "pausing"}
    /\ inFlight \in BOOLEAN /\ expired \in BOOLEAN
    /\ firstPingCompleted \in BOOLEAN /\ stuck \in BOOLEAN
    /\ answer \in {NoResult, "nil", "failed"}
    /\ result \in {NoResult, "nil", "failed", "deadline"}

\* Mutant: the channel is closed as soon as the first check is under way.
StartCheck_Ready ==
    /\ checker \in {"starting", "pausing"}
    /\ checker' = "checking" /\ inFlight' = TRUE
    /\ firstPingCompleted' = TRUE
    /\ UNCHANGED <<answer, expired, result>>

\* DoChan starts a ping, or joins the one in flight.
StartCheck ==
    /\ checker \in {"starting", "pausing"}
    /\ checker' = "checking" /\ inFlight' = TRUE
    /\ UNCHANGED <<answer, expired, result, firstPingCompleted>>

\* The check that waits is answered, whichever check the ping was started for;
\* if none waits, the answer is lost.
PingReturns(error) ==
    /\ inFlight /\ ~stuck
    /\ inFlight' = FALSE
    /\ answer' = IF checker = "checking" THEN error ELSE answer
    /\ UNCHANGED <<checker, expired, result, firstPingCompleted>>

Expire ==
    /\ PingTimeout /\ checker = "checking"
    /\ expired' = TRUE
    /\ UNCHANGED <<checker, inFlight, answer, result, firstPingCompleted>>

\* The result is set under the lock; only the first check's caller has something
\* left to do.
Publish(error) ==
    /\ result' = error
    /\ checker' = IF firstPingCompleted THEN "pausing" ELSE "closing"
    /\ answer' = NoResult /\ expired' = FALSE
    /\ UNCHANGED <<inFlight, firstPingCompleted>>

\* With both ready, select takes either.
CheckReturns ==
    /\ checker = "checking"
    /\ \/ expired /\ Publish("deadline")
       \/ answer # NoResult /\ Publish(answer)

\* Run closes the channel after its first check, and goes on to the next.
CloseFirst ==
    /\ checker = "closing"
    /\ firstPingCompleted' = TRUE /\ checker' = "pausing"
    /\ UNCHANGED <<inFlight, answer, expired, result>>
==============================================================================
